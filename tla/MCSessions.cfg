\* One part moves in each behaviour; the bounds of each are its own.
CONSTANTS
    \* CySession: two prompts, two runs
    p1 = p1
    p2 = p2
    Inputs <- Prompts
    Batches <- SomeBatches
    MaxRuns = 2
    MaxIterations = 1
    InputLimit = 5
    TailBudget = 3
    ResultWeight = 2
    MaxFaults = 2
    \* FileWalk: a tree of two levels with its ignore files, lines of up to
    \* four bytes and three rules in a file
    Slash <- SlashByte
    GitName <- git
    InfoName <- info
    Dirs <- TreeDirs
    Files <- TreeFiles
    Links <- TreeLinks
    Starts <- TreeStarts
    IgnoreTrees <- TreesOfRules
    MaxPatternBytes = 4
    MaxIgnorePatterns = 3
    Globs <- QueryGlobs
    Extensions <- Below
    \* Braces: four expansions, so that six in nested groups and in groups one
    \* after the other are too many
    MaxBraceExpansions = 4
    Beginnings <- GlobBeginnings
    MaxTyped = 5
    \* CyTerminal: a session and a model to leave, and one of each to switch to
    Sessions = {s1, s2}
    Models = {"m1", "m2"}
    NoSession = NoSession
    MaxCommands = 3
    EventsCap = 1
    \* Jobs: two jobs
    Jobs = {j1, j2}
    \* FileTools: pages of two lines or three bytes, two versions after the first
    FileSessions = {s1}
    LineSizes = {1, 4}
    MaxReadLines = 2
    MaxReadOutput = 3
    FirstContents <- FirstFiles
    NewContents <- NewFiles
    MaxChanges = 2
    \* LineDiff: two files of up to five lines
    SourceLines = {l1, l2}
    DiffContextLines = 1
    MaxDiffDistance = 4
    MaxDiffDisplay = 7
    MaxFileLines = 5
    \* InlineRenderer: a terminal the chrome fills and a larger one
    Heights = {4, 6}
    Bodies <- SomeBodies
    MaxBlocks = 3
    MaxUpdates = 2
    MaxResizes = 1
SPECIFICATION PartsSpec
SYMMETRY PromptSymmetry
CHECK_DEADLOCK FALSE
INVARIANTS JournalReplays AnsweredRunsHaveResults RuntimeIsConsistent EndIsTold WalkIsRight BracesAgree FileIsAsSeen PatchApplies ScreenShowsTranscript

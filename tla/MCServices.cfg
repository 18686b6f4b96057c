\* One component moves in each behaviour; the bounds of each are its own.
CONSTANTS
    \* GroupLimiter: three callers, two groups, two slots
    Callers = {c1, c2, c3}
    Groups = {g1, g2}
    States = {s1, s2, s3}
    Limit = 2
    \* Firing: two firings of three attempts
    ReminderMaxAttempts = 3
    MaxFirings = 2
    MaxFiringFaults = 4
    \* Requester: budgets that the delays and the providers' demands exceed
    MaxRetriesSet <- RetryCounts
    BudgetSet = {0, 3}
    BaseSet = {0, 1}
    MaxDelaySet = {0, 2}
    RetryAfterSet = {0, 4}
    MaxChunks = 1
    MaxRequests = 3
    MaxTicks = 3
    \* Ann: two generations over four messages
    Repliers = {p1, p2}
    CompactionThreshold = 3
    MaxAnnMessages = 4
    MaxAnnFaults = 1
    \* WebSessions: two requests at a time
    Handlers = {h1, h2}
    Addresses = {a1}
    Tokens = {t1}
    SessionTTL = 2
    TouchInterval = 1
    AttemptWindow = 1
    MaxLoginAttempts = 1
    MaxWebClock = 2
    MaxWebFaults = 1
    \* WebChat: pages smaller than a run's rows, targets below and above the limits
    MaxRows = 6
    MaxRunRows = 2
    PageLimits = {1, 4}
    DefaultChatTail = 2
    MaxChatTail = 3
    MaxOlderChatPage = 2
    PageCap = 3
    \* Agent: a history that is cut inside a tool block
    MaxHistoryMessages = 3
    MaxToolIterations = 1
    MaxCalls = 2
    MaxTurns = 2
    MaxSteps = 4
    \* SshPool: three checks of one target
    Checks = {k1, k2, k3}
    MaxDials = 2
    \* Delegation: the main conversation, the web's, and children
    RunTimeout = 1
    Retention = 1
    MainId = 1
    WebId = 2
    MaxConversations = 3
    MaxRunsStarted = 3
    MaxTableRows = 4
    MaxDelegationClock = 2
    MaxStarts = 2
    \* Workspace: the lanes of a user and of the free time, which write two facts
    \* under two spellings, and the reflection
    Lanes = {l1, l2}
    FreeTime = l2
    Facts = {f1, f2}
    Spellings = {upper, lower}
    MaxVersions = 1
    MaxRevisions = 1
    MaxPowerCuts = 1
    \* Delivery: a run of each conversation or two of one, one browser
    EventBuffer = 1
    Endpoints = {e1}
    MaxTold = 2
    MaxDeliveryFaults = 1
    \* CompletionStream: two tool calls of two pieces, two lines of noise
    StreamRetries = 1
    Statuses = {0, 400, 429, 500}
    EmptyMessagesLimit = 1
    MaxPlan = 2
    Pieces = 2
    MaxNoise = 2
    \* Schedules: a watch of sixteen minutes over days of six
    MinutesPerHour = 2
    HoursPerDay = 3
    DaysPerWeek = 3
    MonthLengths <- TwoMonths
    CronSearchYears = 2
    Exprs <- SomeExprs
    Zones <- SomeZones
    Intervals = {1, 4}
    StartTimes = {7}
    MaxMinutes = 16
SPECIFICATION ServicesSpec
INVARIANTS NothingForgotten NobodyStranded PassedIsDelivered ShownIsAnswered EndedStaysEnded PagesJoin RequestIsPaired ClientsAreOwned ChildRunsHaveParents FilesAreKept WaitersAreTold ResponseIsWhole DueIsNatural
PROPERTY LockoutHolds
VIEW View
CHECK_DEADLOCK FALSE

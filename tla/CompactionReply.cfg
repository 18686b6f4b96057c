\* Two client rows, no failures: a reply between the summary and the window.
CHECK_DEADLOCK FALSE
SPECIFICATION CompactionSpec
CONSTANTS
    TailTok = 2
    KeepTok = 1
    MaxMessages = 2
    MaxFaults = 0
INVARIANTS
    EarlierRepliesSeen

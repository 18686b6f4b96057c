\* Two client rows, a budget of two rows of which one is kept, one failure or crash.
CHECK_DEADLOCK FALSE
SPECIFICATION FairCompactionSpec
CONSTANTS
    TailTok = 2
    KeepTok = 1
    MaxMessages = 2
    MaxFaults = 1
INVARIANTS FoldsAnsweredOnly
PROPERTIES InboxSpec EveryMessageAnswered CompactionTried

\* A service without its web page delegates, and restarts with it.
CHECK_DEADLOCK FALSE
SPECIFICATION DelegationSpec
CONSTANTS
    RunTimeout = 1
    Retention = 2
    MainId = 1
    WebId = 2
    MaxConversations = 3
    MaxRunsStarted = 2
    MaxTableRows = 5
    MaxDelegationClock = 1
    MaxStarts = 2
INVARIANTS EnsuredIsTopLevel

\* A retry moves an anchored recurring task off its grid.
SPECIFICATION QueuesSpec
CONSTANTS
    Tasks = {1}
    Queues = {q1}
    MaxConcurrent = 1
    ClaimLimit = 1
    Lease = 2
    Poll = 2
    Interval = 2
    MaxAttempts = 2
    RetryDelay <- MCRetryDelay
    MaxDelay = 1
    MaxTime = 4
    MaxTokens = 3
    SoloQueue = q3
    SoloTasks = {1}
    SoloClaimLimit = 1
    SoloLease = 1
    SoloPoll = 1
    SoloMaxTime = 1
    SoloMaxTokens = 1
INVARIANTS
    AnchorKept
CHECK_DEADLOCK FALSE

\* Two processes over one row: lease expiry, stale outcomes, clients mid-run.
\* One process over two rows, one worker: the sleep and wake protocol, claim order.
CONSTANTS
    Tasks = {1}
    Queues = {q1, q2}
    MaxConcurrent = 1
    ClaimLimit = 1
    Lease = 1
    Poll = 1
    Interval = 2
    MaxAttempts = 2
    RetryDelay <- MCRetryDelay
    MaxDelay = 1
    MaxTime = 2
    MaxTokens = 3
    SoloQueue = q3
    SoloTasks = {1, 2}
    SoloClaimLimit = 2
    SoloLease = 2
    SoloPoll = 2
    SoloMaxTime = 2
    SoloMaxTokens = 2
SPECIFICATION QueuesSpec
SYMMETRY Processes
INVARIANTS ClaimIsCurrent SoloNoOversleep
PROPERTIES LedgerSpec
CHECK_DEADLOCK FALSE

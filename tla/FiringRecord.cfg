\* One failed append.
CHECK_DEADLOCK FALSE
SPECIFICATION FiringSpec
CONSTANTS
    ReminderMaxAttempts = 3
    MaxFirings = 2
    MaxFiringFaults = 1
INVARIANTS
    EachFiringRecorded

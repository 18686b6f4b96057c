\* Incidents: the daemon alone, reminders later than the cooldown, two failures or stops.
\* The schedule: the daemon and a `hugin run-due`, one check, two edits of its
\* configuration, two attempts before a row is exhausted, two runs.
CHECK_DEADLOCK FALSE
SPECIFICATION HuginSpec
CONSTANTS
    Processes = {daemon}
    Cooldown = 1
    RepeatAfter = 2
    NotifyOnResolved = "yes"
    MaxTime = 3
    MaxIncidents = 2
    MaxFaults = 2
    Hugins = {d, r}
    Checks = {disk}
    MaxTries = 2
    MaxEdits = 1
    MaxCheckRuns = 2
INVARIANTS IncidentsAgree ReminderSpacing SyncReconciles ActiveIncidentsHaveRuns
PROPERTIES EveryIncidentAnnounced

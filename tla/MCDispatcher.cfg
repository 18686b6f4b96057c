\* A bot that polls (two updates) or takes webhooks (three), two chats, two
\* stops, crashes or failed polls, a channel of two updates and one queued update per chat.
CHECK_DEADLOCK FALSE
SPECIFICATION HostSpec
CONSTANTS
    Ways = {"top", "webhook"}
    Chats = {a, b}
    Workers = {w1, w2}
    UpdatesCap = 2
    ChatCap = 1
    MaxPolled = 2
    MaxUpdates = 3
    MaxDispatcherFaults = 2
    \* Shells: one shell, a log of two chunks read one by one, two calls that read it
    Shells = {t1}
    Readers = {r1, r2}
    MaxLog = 2
    MaxBytes = 1
    MaxHostFaults = 1
INVARIANTS NothingSkipped AckedIsTaken NobodyStranded InOrder
PROPERTIES EveryUpdateTaken

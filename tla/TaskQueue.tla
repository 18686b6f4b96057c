----------------------------- MODULE TaskQueue -----------------------------
(***************************************************************************)
(* The durable task queue of pkg/tasks: one store of task rows (memory.go, *)
(* and the same operations in sqlite/sqlite.go) shared by queue processes  *)
(* that each run Queue.RunLoop (queue.go).                                  *)
(*                                                                         *)
(* A row is claimed by writing a lock token and a lock time; a claim is    *)
(* good for Lease.  A process that stops or crashes says nothing to the    *)
(* store: its rows stay locked until the lease runs out.  Client calls     *)
(* (Enqueue, Delete, Reschedule) and the outcomes of handlers interleave   *)
(* with claims freely; only the lock token fences them.                    *)
(***************************************************************************)
EXTENDS Integers, FiniteSets

CONSTANTS
    Tasks,          \* task ids; numbers, because ClaimDue breaks ties by id
    Queues,         \* processes that run a RunLoop over the store
    MaxConcurrent,  \* Options.MaxConcurrent: workers of one RunOnce
    ClaimLimit,     \* Options.ClaimLimit: rows one ClaimDue may take
    Lease,          \* Options.LeaseDuration
    Poll,           \* Options.PollInterval
    Interval,       \* Schedule.Interval of a recurring task
    MaxAttempts,    \* Task.MaxAttempts
    RetryDelay,     \* what retryAt adds after the n-th failure (TaskSchedule)
    MaxDelay,       \* bound: how far ahead a client schedules
    MaxTime,        \* bound: the clock stops here
    MaxTokens       \* bound: claims made in one behaviour

ASSUME QueueAssumption ==
    /\ Tasks \subseteq Nat
    /\ MaxConcurrent \in Nat \ {0}
    /\ ClaimLimit \in Nat \ {0}
    /\ Lease \in Nat \ {0}
    /\ Poll \in Nat \ {0}
    /\ Interval \in Nat \ {0}
    /\ MaxAttempts \in Nat \ {0}
    /\ RetryDelay \in [1 .. MaxAttempts -> Nat \ {0}]
    /\ MaxDelay \in Nat
    /\ MaxTime \in Nat
    /\ MaxTokens \in Nat

None == -1          \* a nil *time.Time
NoToken == 0        \* an empty LockToken
NoRow == [kind |-> "absent"]

Kinds == {"once", "every"}

(* A stored task: the fields of tasks.Task the queue decides on.  start is  *)
(* Schedule.Start, which a one-off does not have; failed says that          *)
(* LastError is not empty.                                                  *)
Row == [kind : Kinds, start : Nat, next : Nat \cup {None},
        lockedAt : Nat \cup {None}, token : Nat, attempts : Nat,
        failed : BOOLEAN]

(* The copy of a row that ClaimDue returned, and whether a worker has       *)
(* taken it.                                                                *)
Claim == [kind : Kinds, due : Nat, attempts : Nat, started : BOOLEAN]
NoClaim == [kind |-> "absent"]

VARIABLES
    now,      \* the clock (Options.Now)
    tokens,   \* lock tokens generated so far; randomToken gives fresh ones
    rows,     \* the store
    pc,       \* where each RunLoop is
    stopping, \* the context of the process is cancelled
    broken,   \* this RunOnce met an operational error
    token,    \* the lock token of the current RunOnce
    claims,   \* the claimed tasks of the current RunOnce that are not settled
    wake,     \* Queue.wake holds a signal
    until     \* the deadline sleepUntil waits for

vars == <<now, tokens, rows, pc, stopping, broken, token, claims, wake, until>>

loopVars == <<pc, stopping, broken, token, claims, until>>

(* "down" no process; "claim" the head of RunLoop, before ClaimDue; "run"   *)
(* in runClaimed; "peek" before store.NextRunAt; "arm" after it, with a     *)
(* deadline but not yet waiting; "sleep" waiting in sleepUntil for that     *)
(* deadline; "pause" waiting in sleepUntil after an error.                  *)
Phases == {"down", "claim", "run", "peek", "arm", "sleep", "pause"}

TypeOK ==
    /\ now \in Nat
    /\ tokens \in Nat
    /\ rows \in [Tasks -> Row \cup {NoRow}]
    /\ pc \in [Queues -> Phases]
    /\ stopping \in [Queues -> BOOLEAN]
    /\ broken \in [Queues -> BOOLEAN]
    /\ token \in [Queues -> Nat]
    /\ claims \in [Queues -> [Tasks -> Claim \cup {NoClaim}]]
    /\ wake \in [Queues -> BOOLEAN]
    /\ until \in [Queues -> Nat]

-----------------------------------------------------------------------------
(* The store's predicates.                                                  *)

Stored == {t \in Tasks : rows[t] # NoRow}

Locked(t) == rows[t].token # NoToken /\ rows[t].lockedAt # None

ActiveLock(t) == Locked(t) /\ rows[t].lockedAt + Lease > now

Claimable(t) ==
    /\ t \in Stored
    /\ rows[t].next # None
    /\ rows[t].next <= now
    /\ ~ActiveLock(t)

(* compareTasksByNextRun on rows that have a next run.                      *)
Before(t, u) ==
    \/ rows[t].next < rows[u].next
    \/ rows[t].next = rows[u].next /\ t < u

Due == {t \in Tasks : Claimable(t)}

(* ORDER BY next_run_at, id LIMIT n: a due row is taken when fewer than     *)
(* ClaimLimit due rows come before it.                                      *)
FirstDue ==
    {t \in Due : Cardinality({u \in Due : Before(u, t)}) < ClaimLimit}

(* MemoryStore.NextRunAt looks at a due row under a live lease when the     *)
(* lease ends, and at every other row when it falls due.                    *)
NextLook(t) ==
    IF rows[t].next <= now /\ ActiveLock(t)
    THEN rows[t].lockedAt + Lease
    ELSE rows[t].next

Looks == {NextLook(t) : t \in {u \in Stored : rows[u].next # None}}

-----------------------------------------------------------------------------
(* Schedules.                                                               *)

(* Schedule.initialNextRun: a one-off is due at At, an anchored recurring   *)
(* task (EveryFrom) at Start.                                               *)
NewRow(kind, at) ==
    [kind |-> kind, start |-> IF kind = "once" THEN 0 ELSE at, next |-> at,
     lockedAt |-> None, token |-> NoToken, attempts |-> 0, failed |-> FALSE]

(* Schedule.nextAfterRun for ScheduleEvery: the first point of the grid     *)
(* due, due + Interval, ... that lies after n.                              *)
NextAfterRun(due, n) ==
    IF due + Interval > n
    THEN due + Interval
    ELSE due + ((n - due) \div Interval + 1) * Interval

-----------------------------------------------------------------------------
NoClaims == [t \in Tasks |-> NoClaim]

Held(q) == {t \in Tasks : claims[q][t] # NoClaim}
Waiting(q) == {t \in Held(q) : ~claims[q][t].started}
Started(q) == {t \in Held(q) : claims[q][t].started}

(* The store accepts the outcome of a claim only from the token on the row. *)
Owns(q, t) == t \in Stored /\ rows[t].token # NoToken /\ rows[t].token = token[q]

Init ==
    /\ now = 0
    /\ tokens = 0
    /\ rows = [t \in Tasks |-> NoRow]
    /\ pc = [q \in Queues |-> "claim"]
    /\ stopping = [q \in Queues |-> FALSE]
    /\ broken = [q \in Queues |-> FALSE]
    /\ token = [q \in Queues |-> NoToken]
    /\ claims = [q \in Queues |-> NoClaims]
    /\ wake = [q \in Queues |-> FALSE]
    /\ until = [q \in Queues |-> 0]

Tick ==
    /\ now < MaxTime
    /\ now' = now + 1
    /\ UNCHANGED <<tokens, rows, loopVars, wake>>

-----------------------------------------------------------------------------
(* Client calls.  Each goes through the Queue object of a live process and  *)
(* signals that process only.                                               *)

(* Mutant: an unbuffered wake channel, which only a waiting loop hears.     *)
SignalWakeUnbuffered(q) ==
    wake' = [wake EXCEPT ![q] = @ \/ pc[q] \in {"sleep", "pause"}]

SignalWake(q) == wake' = [wake EXCEPT ![q] = TRUE]

Enqueue(q, t, kind, at) ==
    /\ pc[q] # "down"
    /\ t \notin Stored
    /\ rows' = [rows EXCEPT ![t] = NewRow(kind, at)]
    /\ SignalWake(q)
    /\ UNCHANGED <<now, tokens, loopVars>>

Delete(q, t) ==
    /\ pc[q] # "down"
    /\ t \in Stored
    /\ rows' = [rows EXCEPT ![t] = NoRow]
    /\ SignalWake(q)
    /\ UNCHANGED <<now, tokens, loopVars>>

(* Mutant: a reschedule leaves the lock of the running claim in place.      *)
RescheduleKeepsLock(q, t, kind, at) ==
    /\ pc[q] # "down"
    /\ t \in Stored
    /\ rows' = [rows EXCEPT ![t] =
                  [NewRow(kind, at) EXCEPT !.lockedAt = rows[t].lockedAt,
                                           !.token = rows[t].token]]
    /\ SignalWake(q)
    /\ UNCHANGED <<now, tokens, loopVars>>

Reschedule(q, t, kind, at) ==
    /\ pc[q] # "down"
    /\ t \in Stored
    /\ rows' = [rows EXCEPT ![t] = NewRow(kind, at)]
    /\ SignalWake(q)
    /\ UNCHANGED <<now, tokens, loopVars>>

-----------------------------------------------------------------------------
(* RunOnce.                                                                 *)

ClaimDue(q) ==
    /\ pc[q] = "claim"
    /\ tokens < MaxTokens
    /\ LET k == tokens + 1
       IN  /\ tokens' = k
           /\ token' = [token EXCEPT ![q] = k]
           /\ rows' = [t \in Tasks |->
                 IF t \in FirstDue
                 THEN [rows[t] EXCEPT !.lockedAt = now, !.token = k,
                                      !.failed = FALSE]
                 ELSE rows[t]]
    /\ claims' = [claims EXCEPT ![q] = [t \in Tasks |->
           IF t \in FirstDue
           THEN [kind |-> rows[t].kind, due |-> rows[t].next,
                 attempts |-> rows[t].attempts, started |-> FALSE]
           ELSE NoClaim]]
    /\ pc' = [pc EXCEPT ![q] = "run"]
    /\ UNCHANGED <<now, stopping, broken, wake, until>>

(* A claim query that fails changes no row; RunLoop pauses for Poll.        *)
ClaimFails(q) ==
    /\ pc[q] = "claim"
    /\ pc' = [pc EXCEPT ![q] = "pause"]
    /\ until' = [until EXCEPT ![q] = now + Poll]
    /\ UNCHANGED <<now, tokens, rows, stopping, broken, token, claims, wake>>

(* The send loop hands tasks out in claim order to MaxConcurrent workers;   *)
(* nothing starts once the context is cancelled, and nothing looks at the   *)
(* lease again.                                                             *)
StartTask(q, t) ==
    /\ pc[q] = "run"
    /\ ~stopping[q]
    /\ t \in Waiting(q)
    /\ Cardinality(Started(q)) < MaxConcurrent
    /\ \A u \in Waiting(q) \ {t} :
          \/ claims[q][t].due < claims[q][u].due
          \/ claims[q][t].due = claims[q][u].due /\ t < u
    /\ claims' = [claims EXCEPT ![q][t].started = TRUE]
    /\ UNCHANGED <<now, tokens, rows, pc, stopping, broken, token, wake, until>>

(* The row an outcome leaves: unlocked, with a new next run.                *)
Released(row, next, attempts, failed) ==
    [kind |-> row.kind, start |-> row.start, next |-> next, lockedAt |-> None,
     token |-> NoToken, attempts |-> attempts, failed |-> failed]

Settle(q, t) ==
    /\ claims' = [claims EXCEPT ![q][t] = NoClaim]
    /\ UNCHANGED <<now, tokens, pc, stopping, token, until>>

(* finishSucceeded: a one-off row is deleted, a recurring one advances;     *)
(* both only while the row still carries this claim's token.                *)
Succeed(q, t) ==
    /\ t \in Started(q)
    /\ rows' =
         IF ~Owns(q, t) THEN rows
         ELSE [rows EXCEPT ![t] =
                 IF claims[q][t].kind = "once" THEN NoRow
                 ELSE Released(rows[t], NextAfterRun(claims[q][t].due, now),
                               0, FALSE)]
    /\ Settle(q, t)
    /\ UNCHANGED <<broken, wake>>

(* finishFailed: the retry time and the exhaustion come from the claimed    *)
(* copy, the attempt count from the row.                                    *)
Fail(q, t) ==
    /\ t \in Started(q)
    /\ LET attempt == claims[q][t].attempts + 1
           next == IF attempt >= MaxAttempts THEN None
                   ELSE now + RetryDelay[attempt]
       IN  rows' =
             IF ~Owns(q, t) THEN rows
             ELSE [rows EXCEPT ![t] = Released(rows[t], next,
                                               rows[t].attempts + 1, TRUE)]
    /\ Settle(q, t)
    /\ UNCHANGED <<broken, wake>>

(* A handler that returns ErrDiscard: the claimed row is deleted.           *)
Discard(q, t) ==
    /\ t \in Started(q)
    /\ rows' = IF Owns(q, t) THEN [rows EXCEPT ![t] = NoRow] ELSE rows
    /\ wake' = [wake EXCEPT ![q] = wake[q] \/ Owns(q, t)]
    /\ Settle(q, t)
    /\ UNCHANGED broken

(* Mutant: a claim abandoned at shutdown is counted as an attempt.          *)
AbandonBurnsAttempt(q, t) ==
    /\ stopping[q]
    /\ t \in Started(q)
    /\ rows' = IF Owns(q, t)
               THEN [rows EXCEPT ![t].attempts = rows[t].attempts + 1]
               ELSE rows
    /\ Settle(q, t)
    /\ UNCHANGED <<broken, wake>>

(* A handler that returns the context's error during shutdown: no Finish,   *)
(* so the lease stays and no attempt is burned.                             *)
Abandon(q, t) ==
    /\ stopping[q]
    /\ t \in Started(q)
    /\ Settle(q, t)
    /\ UNCHANGED <<rows, broken, wake>>

(* The store fails while an outcome is written: the lease stays.            *)
FinishFails(q, t) ==
    /\ t \in Started(q)
    /\ broken' = [broken EXCEPT ![q] = TRUE]
    /\ Settle(q, t)
    /\ UNCHANGED <<rows, wake>>

(* runClaimed returns when every worker is done; tasks the send loop never  *)
(* handed out are dropped with their leases.                                *)
EndRun(q) ==
    /\ pc[q] = "run"
    /\ Started(q) = {}
    /\ stopping[q] \/ Waiting(q) = {}
    /\ claims' = [claims EXCEPT ![q] = NoClaims]
    /\ pc' = [pc EXCEPT ![q] = CASE stopping[q] -> "down"
                                 [] ~stopping[q] /\ broken[q] -> "pause"
                                 [] OTHER -> "peek"]
    /\ until' = [until EXCEPT ![q] =
                    IF broken[q] /\ ~stopping[q] THEN now + Poll ELSE 0]
    /\ stopping' = [stopping EXCEPT ![q] = FALSE]
    /\ broken' = [broken EXCEPT ![q] = FALSE]
    /\ token' = [token EXCEPT ![q] = NoToken]
    /\ wake' = [wake EXCEPT ![q] = @ /\ ~stopping[q]]
    /\ UNCHANGED <<now, tokens, rows>>

-----------------------------------------------------------------------------
(* The rest of RunLoop.                                                     *)

(* RunLoop asks the store for the next look and sleeps until then, at most  *)
(* Poll; it does not sleep when something is already due.                   *)
PeekNext(q) ==
    /\ pc[q] = "peek"
    /\ IF \E m \in Looks : m <= now
       THEN /\ pc' = [pc EXCEPT ![q] = "claim"]
            /\ UNCHANGED until
       ELSE /\ pc' = [pc EXCEPT ![q] = "arm"]
            /\ \E m \in Looks \cup {now + Poll} :
                 /\ \A k \in Looks \cup {now + Poll} : m <= k
                 /\ until' = [until EXCEPT ![q] = m]
    /\ UNCHANGED <<now, tokens, rows, stopping, broken, token, claims, wake>>

(* The select of sleepUntil begins; a wake sent since the peek is buffered. *)
Arm(q) ==
    /\ pc[q] = "arm"
    /\ pc' = [pc EXCEPT ![q] = "sleep"]
    /\ UNCHANGED <<now, tokens, rows, stopping, broken, token, claims, wake, until>>

PeekFails(q) ==
    /\ pc[q] = "peek"
    /\ pc' = [pc EXCEPT ![q] = "pause"]
    /\ until' = [until EXCEPT ![q] = now + Poll]
    /\ UNCHANGED <<now, tokens, rows, stopping, broken, token, claims, wake>>

(* sleepUntil returns on the timer, or takes the wake signal; the select    *)
(* may choose either when both are ready.                                   *)
TimerFires(q) ==
    /\ pc[q] \in {"sleep", "pause"}
    /\ until[q] <= now
    /\ pc' = [pc EXCEPT ![q] = "claim"]
    /\ until' = [until EXCEPT ![q] = 0]
    /\ UNCHANGED <<now, tokens, rows, stopping, broken, token, claims, wake>>

TakeWake(q) ==
    /\ pc[q] \in {"sleep", "pause"}
    /\ wake[q]
    /\ wake' = [wake EXCEPT ![q] = FALSE]
    /\ pc' = [pc EXCEPT ![q] = "claim"]
    /\ until' = [until EXCEPT ![q] = 0]
    /\ UNCHANGED <<now, tokens, rows, stopping, broken, token, claims>>

(* The context is cancelled: RunLoop returns, at once unless tasks run.     *)
Stop(q) ==
    /\ pc[q] = "run"
    /\ ~stopping[q]
    /\ stopping' = [stopping EXCEPT ![q] = TRUE]
    /\ UNCHANGED <<now, tokens, rows, pc, broken, token, claims, wake, until>>

(* The process ends outside a run, or crashes anywhere: what it held in     *)
(* memory is gone and the store is not told.                                *)
Crash(q) ==
    /\ pc[q] # "down"
    /\ pc' = [pc EXCEPT ![q] = "down"]
    /\ stopping' = [stopping EXCEPT ![q] = FALSE]
    /\ broken' = [broken EXCEPT ![q] = FALSE]
    /\ token' = [token EXCEPT ![q] = NoToken]
    /\ claims' = [claims EXCEPT ![q] = NoClaims]
    /\ wake' = [wake EXCEPT ![q] = FALSE]
    /\ until' = [until EXCEPT ![q] = 0]
    /\ UNCHANGED <<now, tokens, rows>>

(* A new process: a new Queue, with an empty wake channel.                  *)
Restart(q) ==
    /\ pc[q] = "down"
    /\ pc' = [pc EXCEPT ![q] = "claim"]
    /\ UNCHANGED <<now, tokens, rows, stopping, broken, token, claims, wake, until>>

-----------------------------------------------------------------------------
(* Clients schedule for now or up to MaxDelay ahead.                        *)
Client(q) ==
    \E t \in Tasks :
        \/ Delete(q, t)
        \/ \E kind \in Kinds, at \in now .. now + MaxDelay :
              Enqueue(q, t, kind, at) \/ Reschedule(q, t, kind, at)

Outcome(q) ==
    \E t \in Tasks :
        \/ Succeed(q, t) \/ Fail(q, t) \/ Discard(q, t)
        \/ Abandon(q, t) \/ FinishFails(q, t)

Loop(q) ==
    \/ ClaimDue(q) \/ ClaimFails(q)
    \/ \E t \in Tasks : StartTask(q, t)
    \/ EndRun(q)
    \/ PeekNext(q) \/ Arm(q) \/ PeekFails(q)
    \/ TimerFires(q) \/ TakeWake(q)

Lifecycle(q) == Stop(q) \/ Crash(q) \/ Restart(q)

Next ==
    \/ Tick
    \/ \E q \in Queues : Client(q) \/ Outcome(q) \/ Loop(q) \/ Lifecycle(q)

Spec == Init /\ [][Next]_vars

-----------------------------------------------------------------------------
(* A lock is whole, and only a due row is ever locked: NextRunAt tests the  *)
(* lease of due rows only, so a lock on a row with a later run, or a token  *)
(* without a time, would hide the row from the loop or from every claim.    *)
LockedRowsAreDue ==
    \A t \in Stored :
        /\ rows[t].token = NoToken <=> rows[t].lockedAt = None
        /\ rows[t].token # NoToken =>
              /\ rows[t].next # None
              /\ rows[t].next <= rows[t].lockedAt
              /\ rows[t].lockedAt <= now

(* While a row carries a claim's token, the copy the claim was made with    *)
(* is still the row: finishFailed may decide exhaustion and finishSucceeded *)
(* the next run from the copy, whatever clients and other processes did.    *)
ClaimIsCurrent ==
    \A q \in Queues : \A t \in Held(q) :
        Owns(q, t) =>
            /\ rows[t].kind = claims[q][t].kind
            /\ rows[t].next = claims[q][t].due
            /\ rows[t].attempts = claims[q][t].attempts

(* A row without a next run is a dead letter: all its attempts were handler *)
(* failures and the last error is kept.  A row with one has attempts left.  *)
DeadLetters ==
    \A t \in Stored :
        IF rows[t].next = None
        THEN rows[t].attempts = MaxAttempts /\ rows[t].failed
        ELSE rows[t].attempts < MaxAttempts

(* At most one process can still settle a row.                              *)
OneOwner ==
    \A t \in Tasks : \A q, r \in Queues :
        (t \in Held(q) /\ t \in Held(r) /\ Owns(q, t) /\ Owns(r, t)) => q = r

(* A row nobody holds changes only by a client's call or by a claim, which  *)
(* keeps its schedule, due time and attempts: an outcome that arrives after *)
(* a reschedule, a delete or a lost lease is ignored.                       *)
FreeRowsAreStable ==
    [][\A t \in Tasks :
        (t \in Stored /\ ~Locked(t) /\ rows'[t] # rows[t]) =>
            \/ \E q \in Queues : Delete(q, t)
            \/ \E q \in Queues, kind \in Kinds, at \in now .. now + MaxDelay :
                  Reschedule(q, t, kind, at)
            \/ /\ rows'[t] # NoRow
               /\ rows'[t].token # NoToken
               /\ rows'[t].next = rows[t].next
               /\ rows'[t].attempts = rows[t].attempts
               /\ rows'[t].kind = rows[t].kind]_vars

(* With one process, a sleeping loop that has no wake signal pending never  *)
(* sleeps past the moment some row becomes claimable.                       *)
NoOversleep ==
    \A q \in Queues :
        (Queues = {q} /\ pc[q] \in {"arm", "sleep"} /\ ~wake[q]) =>
            \A t \in Stored :
                rows[t].next # None =>
                    until[q] <= (IF Locked(t) THEN rows[t].lockedAt + Lease
                                 ELSE rows[t].next)

(* pkg/tasks/README.md: recurring success "advances to the next natural     *)
(* future occurrence" and EveryFrom tasks are "anchored": a recurring row   *)
(* with no failure pending is due on the grid of its Start.                 *)
AnchorKept ==
    \A t \in Stored :
        (rows[t].kind = "every" /\ rows[t].attempts = 0) =>
            (rows[t].next - rows[t].start) % Interval = 0
-----------------------------------------------------------------------------
(* What clients are promised: every step of the queue is a step of the      *)
(* ledger or changes nothing a client can tell apart.                       *)
Status(t) ==
    IF t \notin Stored THEN "absent"
    ELSE IF rows[t].next = None THEN "dead"
    ELSE IF rows[t].token # NoToken THEN "open"
    ELSE "ready"

Entry(t) ==
    IF t \notin Stored
    THEN [status |-> "absent", kind |-> "once", failures |-> 0]
    ELSE [status |-> Status(t), kind |-> rows[t].kind,
          failures |-> rows[t].attempts]

View == [t \in Tasks |-> Entry(t)]

Ledger == INSTANCE TaskLedger WITH ledger <- View

(* The queue implements the ledger.                                         *)
LedgerSpec == Ledger!Spec
=============================================================================

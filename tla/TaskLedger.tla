----------------------------- MODULE TaskLedger -----------------------------
(***************************************************************************)
(* What pkg/tasks promises the users of a queue, without tokens, leases,   *)
(* processes or clocks: a task is absent, ready, open (a handler may be    *)
(* working on its current occurrence) or a dead letter.  Outcomes count    *)
(* only while the task is open, only handler failures count as attempts,   *)
(* and a task dies exactly at its last attempt.                            *)
(***************************************************************************)
EXTENDS Naturals

CONSTANTS Tasks, MaxAttempts

VARIABLE ledger

NoEntry == [status |-> "absent", kind |-> "once", failures |-> 0]

Fresh(kind) == [status |-> "ready", kind |-> kind, failures |-> 0]

LedgerKinds == {"once", "every"}

Init == ledger = [t \in Tasks |-> NoEntry]

(* Enqueue of a new task, or Reschedule of any other, dead letters too.     *)
Put(t, kind) == ledger' = [ledger EXCEPT ![t] = Fresh(kind)]

Remove(t) ==
    /\ ledger[t].status # "absent"
    /\ ledger' = [ledger EXCEPT ![t] = NoEntry]

(* A claim opens tasks that are ready, or takes over open ones whose        *)
(* process was lost; no attempt is counted.                                 *)
Begin(batch) ==
    /\ \A t \in batch : ledger[t].status \in {"ready", "open"}
    /\ ledger' = [t \in Tasks |->
                    IF t \in batch THEN [ledger[t] EXCEPT !.status = "open"]
                    ELSE ledger[t]]

Complete(t) ==
    /\ ledger[t].status = "open"
    /\ ledger' = [ledger EXCEPT ![t] =
                    IF ledger[t].kind = "once" THEN NoEntry
                    ELSE Fresh(ledger[t].kind)]

Failed(t) ==
    /\ ledger[t].status = "open"
    /\ ledger' = [ledger EXCEPT ![t] =
                    [status |-> IF ledger[t].failures + 1 = MaxAttempts
                                THEN "dead" ELSE "ready",
                     kind |-> ledger[t].kind,
                     failures |-> ledger[t].failures + 1]]

Drop(t) ==
    /\ ledger[t].status = "open"
    /\ ledger' = [ledger EXCEPT ![t] = NoEntry]

Next ==
    \/ \E t \in Tasks :
          \/ \E kind \in LedgerKinds : Put(t, kind)
          \/ Remove(t) \/ Complete(t) \/ Failed(t) \/ Drop(t)
    \/ \E batch \in SUBSET Tasks : Begin(batch)

Spec == Init /\ [][Next]_ledger
=============================================================================

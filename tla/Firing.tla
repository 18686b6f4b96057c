------------------------------- MODULE Firing -------------------------------
(***************************************************************************)
(* A scheduled reminder or turn of caliban and its handler: what each       *)
(* firing leaves in the transcript and how often it is pushed, while the    *)
(* store, the push service and the process fail.  Of the task queue only    *)
(* the row's attempts and its next firing are kept (TaskQueue models it).   *)
(***************************************************************************)
EXTENDS Naturals

CONSTANTS
    ReminderMaxAttempts,
    MaxFirings,  \* bound: firings of a recurring schedule
    MaxFiringFaults  \* bound: failures and restarts

ASSUME FiringAssumption ==
    ReminderMaxAttempts \in Nat \ {0} /\ MaxFirings \in Nat \ {0} /\ MaxFiringFaults \in Nat

VARIABLES
    kind,       \* of the task
    recurring,  \* whether its schedule fires again
    state,      \* the row: queued, dead, gone
    firing,     \* the firing it stands at
    attempts,   \* failed attempts at that firing
    at,         \* where the handler is
    ok,         \* the outcome it will return
    transcript, \* of each firing: its rows in the transcript
    pushes,     \* its notifications
    lost,       \* and, auxiliary, its runs whose outcome was never stored
    settled,    \* auxiliary: the firings the queue has stored as succeeded
    firingFaults

task == <<state, firing, attempts>>
handler == <<at, ok>>
effects == <<transcript, pushes>>
history == <<lost, settled>>
firingVars == <<kind, recurring, task, handler, effects, history, firingFaults>>

Kinds == {"reminder", "turn"}
Firings == 1..MaxFirings

MaxAttempts == IF kind = "reminder" THEN ReminderMaxAttempts ELSE 1

(* The type invariant.  A row is dead exactly when its attempts are used up.*)
FiringTypeOK ==
    /\ kind \in Kinds
    /\ recurring \in BOOLEAN
    /\ state \in {"queued", "dead", "gone"}
    /\ firing \in Firings
    /\ attempts \in 0..MaxAttempts
    /\ state # "gone" => (state = "dead" <=> attempts = MaxAttempts)
    /\ at \in {"idle", "append", "notify", "settle"}
    /\ ok \in BOOLEAN
    /\ transcript \in [Firings -> Nat]
    /\ pushes \in [Firings -> Nat]
    /\ lost \in [Firings -> Nat]
    /\ settled \subseteq Firings
    /\ firingFaults \in 0..MaxFiringFaults

FiringInit ==
    /\ kind \in Kinds
    /\ recurring \in BOOLEAN
    /\ state = "queued"
    /\ firing = 1
    /\ attempts = 0
    /\ at = "idle"
    /\ ok = TRUE
    /\ transcript = [f \in Firings |-> 0]
    /\ pushes = [f \in Firings |-> 0]
    /\ lost = [f \in Firings |-> 0]
    /\ settled = {}
    /\ firingFaults = 0

FiringFault == firingFaults < MaxFiringFaults /\ firingFaults' = firingFaults + 1

Count(counts) == [counts EXCEPT ![firing] = @ + 1]

-----------------------------------------------------------------------------

(* The queue claims the row and calls its handler.  A reminder's transcript *)
(* row belongs to the first attempt of its firing.                          *)
Claim ==
    /\ at = "idle" /\ state = "queued"
    /\ at' = IF kind = "reminder" /\ attempts > 0 THEN "notify" ELSE "append"
    /\ ok' = TRUE
    /\ UNCHANGED <<kind, recurring, task, effects, history, firingFaults>>

(* AppendMessage of HandleReminderDeliver, or the one in SubmitUserMessage, *)
(* with which a scheduled turn is done.                                     *)
AppendRow ==
    /\ at = "append"
    /\ transcript' = Count(transcript)
    /\ at' = IF kind = "reminder" THEN "notify" ELSE "settle"
    /\ UNCHANGED <<kind, recurring, task, ok, pushes, history, firingFaults>>

AppendFails ==
    /\ at = "append" /\ FiringFault
    /\ at' = "settle" /\ ok' = FALSE
    /\ UNCHANGED <<kind, recurring, task, effects, history>>

NotifyConversation ==
    /\ at = "notify"
    /\ pushes' = Count(pushes)
    /\ at' = "settle"
    /\ UNCHANGED <<kind, recurring, task, ok, transcript, history, firingFaults>>

(* Mutant: a failed push is only logged.                                    *)
PushFailsQuietly ==
    /\ at = "notify" /\ FiringFault
    /\ at' = "settle"
    /\ UNCHANGED <<kind, recurring, task, ok, effects, history>>

PushFails ==
    /\ at = "notify" /\ FiringFault
    /\ at' = "settle" /\ ok' = FALSE
    /\ UNCHANGED <<kind, recurring, task, effects, history>>

(* finishSucceeded: on to the next firing, with fresh attempts, or done.    *)
Succeed ==
    /\ at = "settle" /\ ok
    /\ IF state = "gone" THEN UNCHANGED <<task, settled>>
       ELSE /\ settled' = settled \cup {firing}
            /\ IF recurring
               THEN firing < MaxFirings /\ firing' = firing + 1 /\ attempts' = 0 /\ UNCHANGED state
               ELSE state' = "gone" /\ UNCHANGED <<firing, attempts>>
    /\ at' = "idle"
    /\ UNCHANGED <<kind, recurring, ok, effects, lost, firingFaults>>

(* finishFailed: again later, or never.                                     *)
Fail ==
    /\ at = "settle" /\ ~ok
    /\ IF state = "gone" THEN UNCHANGED task
       ELSE /\ attempts' = attempts + 1
            /\ state' = IF attempts' >= MaxAttempts THEN "dead" ELSE "queued"
            /\ UNCHANGED firing
    /\ at' = "idle"
    /\ UNCHANGED <<kind, recurring, ok, effects, history, firingFaults>>

(* The outcome is never stored: the write fails, the process stops, or it   *)
(* shuts down while the handler runs.  The lease ends with the attempts as  *)
(* they were.                                                               *)
LoseOutcome ==
    /\ at # "idle" /\ FiringFault
    /\ lost' = Count(lost)
    /\ at' = "idle"
    /\ UNCHANGED <<kind, recurring, task, ok, effects, settled>>

(* CancelScheduled, at any moment.                                          *)
CancelScheduled ==
    /\ state # "gone"
    /\ state' = "gone"
    /\ UNCHANGED <<kind, recurring, firing, attempts, handler, effects, history, firingFaults>>

FiringNext ==
    \/ Claim \/ AppendRow \/ AppendFails \/ NotifyConversation \/ PushFails
    \/ Succeed \/ Fail \/ LoseOutcome \/ CancelScheduled

FiringSpec == FiringInit /\ [][FiringNext]_firingVars

-----------------------------------------------------------------------------
(* The delivery guarantee of HandleReminderDeliver: the queue passes no     *)
(* reminder on that was not pushed, and no turn that was not submitted.     *)
PassedIsDelivered ==
    \A f \in settled : IF kind = "reminder" THEN pushes[f] > 0 ELSE transcript[f] > 0

(* The one window its comment allows: a firing has a second row only if a   *)
(* run of it ended without an outcome; retries after a failed push have     *)
(* none.                                                                    *)
NoStrayRows == \A f \in Firings : transcript[f] <= 1 + lost[f]

(* The comment on HandleReminderDeliver: each firing still records once.    *)
EachFiringRecorded ==
    kind = "reminder" => \A f \in settled : transcript[f] > 0
=============================================================================

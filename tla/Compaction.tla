----------------------------- MODULE Compaction -----------------------------
(***************************************************************************)
(* Compaction of a conversation beside its lane: after a run the worker     *)
(* enqueues a task when the rows past the latest summary exceed the budget, *)
(* and the task's handler folds the oldest of them into a new summary.  The *)
(* handler reads the tail and the cursor at different times, while the lane *)
(* goes on.  Of the task queue only the row and its attempts are kept: when *)
(* a due task is claimed, and how its outcome is stored, is TaskQueue's.    *)
(***************************************************************************)
EXTENDS Conversation

CONSTANT KeepTok  \* Engine.keepTok, in rows

ASSUME CompactionAssumption == KeepTok \in Nat

VARIABLES
    task,  \* the row "compaction-<id>": its failed attempts, or None
    job    \* the handler

MaxAttempts == 3
None == MaxAttempts + 1  \* no row

(* from..to is the tail it read, fold the last row to fold, run its         *)
(* maintenance run, ok the handler's outcome.                               *)
Job == [at : {"idle", "cover", "create", "fold", "finish", "settle"},
        from : Nat, to : Nat, fold : Nat, run : Nat, ok : BOOLEAN]

Idle == [at |-> "idle", from |-> 0, to |-> 0, fold |-> 0, run |-> 0, ok |-> TRUE]

allVars == <<vars, task, job>>

(* The type invariant.  A handler runs for a task with attempts left, on    *)
(* rows that exist; its summary replaces the one it started from, and its   *)
(* run has no input, so that it never is the lane's.                        *)
CompactionTypeOK ==
    /\ TypeOK
    /\ task \in 0..None
    /\ job \in Job
    /\ job.at # "idle" => task \in 0..(MaxAttempts - 1)
    /\ job.to <= Len(msgs) /\ job.run <= Len(runs)
    /\ job.at = "cover" => through = job.from /\ job.from < job.to
    /\ job.at \in {"create", "fold"} => through = job.from /\ job.from < job.fold
    /\ job.at \in {"fold", "finish"} => job.run > 0 /\ runs[job.run].input = 0

InitCompaction == Init /\ task = None /\ job = Idle

-----------------------------------------------------------------------------
(* Rows after id, the newest being last.                                    *)
OverBudget(id, last) == last - id > TailTok

(* maybeScheduleCompaction reads the tail ...                               *)
CheckTail ==
    /\ pc = "check"
    /\ pc' = IF OverBudget(through, Len(msgs)) THEN "schedule" ELSE "due"
    /\ UNCHANGED <<store, through, kick, callers, input, run, context, faults, task, job>>

(* Mutant: a dead task is left where it is.                                 *)
ScheduleKeepsDead ==
    /\ pc = "schedule"
    /\ task' = IF task = None THEN 0 ELSE task
    /\ pc' = "due"
    /\ UNCHANGED <<store, through, kick, callers, input, run, context, faults, job>>

(* ... and enqueues the task unless one is pending.  A dead one is replaced.*)
Schedule ==
    /\ pc = "schedule"
    /\ task' = IF task \in {None, MaxAttempts} THEN 0 ELSE task
    /\ pc' = "due"
    /\ UNCHANGED <<store, through, kick, callers, input, run, context, faults, job>>

(* Either may fail; it is logged, and the next run checks again.            *)
CheckFails ==
    /\ pc \in {"check", "schedule"}
    /\ Fault
    /\ pc' = "due"
    /\ UNCHANGED <<store, through, kick, callers, input, run, context, task, job>>

-----------------------------------------------------------------------------
(* foldPoint over the rows from + 1 .. to, as the last row to fold: keep    *)
(* what fits KeepTok, and open the kept part on a user's row or the last.   *)
FoldPoint(from, to) ==
    LET keep == Min({k \in from + 1..to + 1 : to + 1 - k <= KeepTok})
        open == Min({k \in keep..to : k = to \/ msgs[k].role = "user"})
    IN IF keep > to THEN to - 1 ELSE open - 1

(* Mutant: the fold ignores the cursor.                                     *)
ClampNothing(id) == id

(* Only covered rows are folded.                                            *)
Clamp(id) == IF id > cover THEN cover ELSE id

(* The queue claims the task; the handler reads the tail.                   *)
Claim ==
    /\ Up
    /\ job.at = "idle"
    /\ task \in 0..(MaxAttempts - 1)
    /\ job' = IF OverBudget(through, Len(msgs))
              THEN [Idle EXCEPT !.at = "cover", !.from = through, !.to = Len(msgs)]
              ELSE [Idle EXCEPT !.at = "settle"]
    /\ UNCHANGED <<vars, task>>

(* CoveredThrough, and the fold; without covered rows there is none.        *)
ReadCover ==
    /\ job.at = "cover"
    /\ LET fold == Clamp(FoldPoint(job.from, job.to)) IN
       job' = IF fold > job.from
              THEN [job EXCEPT !.at = "create", !.fold = fold]
              ELSE [job EXCEPT !.at = "settle"]
    /\ UNCHANGED <<vars, task>>

(* runMaintenance: a run without an input ...                               *)
CreateMaintenanceRun ==
    /\ job.at = "create"
    /\ runs' = Append(runs, [input |-> 0, status |-> "running"])
    /\ job' = [job EXCEPT !.at = "fold", !.run = Len(runs) + 1]
    /\ UNCHANGED <<msgs, cover, through, kick, callers, lane, faults, task>>

(* ... the model's summary, and its row ...                                 *)
AppendSummary ==
    /\ job.at = "fold"
    /\ through' = job.fold
    /\ job' = [job EXCEPT !.at = "finish"]
    /\ UNCHANGED <<store, kick, callers, lane, faults, task>>

SummarizeFails ==
    /\ job.at = "fold"
    /\ job' = [job EXCEPT !.at = "finish", !.ok = FALSE]
    /\ UNCHANGED <<vars, task>>

(* ... and the run's end; a failure to store it is only logged.             *)
FinishMaintenanceRun ==
    /\ job.at = "finish"
    /\ FinishRun(job.run, IF job.ok THEN "done" ELSE "failed")
    /\ job' = [job EXCEPT !.at = "settle"]
    /\ UNCHANGED <<msgs, cover, through, kick, callers, lane, faults, task>>

FinishMaintenanceFails ==
    /\ job.at = "finish"
    /\ Fault
    /\ job' = [job EXCEPT !.at = "settle"]
    /\ UNCHANGED <<store, through, kick, callers, lane, task>>

(* A read, or the new run, fails: so does the handler.                      *)
HandlerFails ==
    /\ job.at \in {"cover", "create"}
    /\ Fault
    /\ job' = [job EXCEPT !.at = "settle", !.ok = FALSE]
    /\ UNCHANGED <<store, through, kick, callers, lane, task>>

(* The queue stores the outcome: the row goes, or counts a failed attempt.  *)
Settle ==
    /\ job.at = "settle"
    /\ task' = IF job.ok THEN None ELSE task + 1
    /\ job' = Idle
    /\ UNCHANGED vars

(* It cannot: the row is claimed again when its lease ends.                 *)
SettleFails ==
    /\ job.at = "settle"
    /\ Fault
    /\ job' = Idle
    /\ UNCHANGED <<store, through, kick, callers, lane, task>>

CrashCompaction == Crash /\ job' = Idle /\ UNCHANGED task

-----------------------------------------------------------------------------
Handle ==
    \/ Claim \/ ReadCover \/ CreateMaintenanceRun \/ AppendSummary
    \/ SummarizeFails \/ FinishMaintenanceRun \/ Settle

HandlerStoreFails == FinishMaintenanceFails \/ HandlerFails \/ SettleFails

NextCompaction ==
    \/ (Client \/ Work \/ StoreFails \/ Start) /\ UNCHANGED <<task, job>>
    \/ CheckTail \/ Schedule \/ CheckFails
    \/ Handle \/ HandlerStoreFails
    \/ CrashCompaction

CompactionSpec == InitCompaction /\ [][NextCompaction]_allVars

FairCompactionSpec ==
    /\ CompactionSpec
    /\ WF_allVars(Kick /\ UNCHANGED <<task, job>>)
    /\ WF_allVars((Work \/ Start) /\ UNCHANGED <<task, job>>)
    /\ WF_allVars(CheckTail \/ Schedule)
    /\ WF_allVars(Handle)

-----------------------------------------------------------------------------
(* Folding hides no row that some run is still to see: everything at or     *)
(* before the summary's end was answered, at every moment from the fold's   *)
(* choice on (the comment in HandleCompaction).                             *)
FoldsAnsweredOnly ==
    /\ through <= cover
    /\ job.at \in {"create", "fold"} => job.fold <= cover

(* Failures over, a check that finds the tail too long is followed by an    *)
(* attempt to fold it: no dead task stands in the way for ever (the comment *)
(* in maybeScheduleCompaction).                                             *)
CompactionTried ==
    pc = "schedule" /\ faults = MaxFaults ~> job.at # "idle"
=============================================================================

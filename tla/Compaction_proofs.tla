-------------------------- MODULE Compaction_proofs --------------------------
(***************************************************************************)
(* Proofs about Compaction beside the lane, for any budgets and any number  *)
(* of messages and failures.                                                *)
(*                                                                         *)
(* The argument: the handler fixes its fold while it reads the cursor, the  *)
(* cursor never moves back, and the handler's own run has no input, so the  *)
(* lane's invariant IInv survives every step of the handler and the         *)
(* handler's choice survives every step of the lane.                        *)
(***************************************************************************)
EXTENDS Compaction, Conversation_proofs

CInv == IInv /\ CompactionTypeOK /\ FoldsAnsweredOnly

-----------------------------------------------------------------------------
(* A non-empty set of numbers has a least one, and Min finds it.            *)
LEMMA MinOfNats ==
    ASSUME NEW S, S \subseteq Nat, S # {}
    PROVE  Min(S) \in S
<1> DEFINE less == {pair \in Nat \X Nat : pair[1] < pair[2]}
<1>1. IsWellFoundedOn(less, Nat)
  BY NatLessThanWellFounded DEF OpToRel
<1>2. \E i \in S : \A j \in S : <<j, i>> \notin less
  <2> HIDE DEF less
  <2> QED
    BY <1>1, WFMin
<1>3. \A i, j \in Nat : <<j, i>> \notin less => i <= j
  OBVIOUS
<1> HIDE DEF less
<1>4. \E i \in S : \A j \in S : i <= j
  BY <1>2, <1>3
<1> QED
  BY <1>4 DEF Min

(* foldPoint folds at least nothing and keeps at least the last row.        *)
LEMMA FoldPointBounds ==
    ASSUME NEW from \in Nat, NEW to \in Nat, from < to
    PROVE  FoldPoint(from, to) \in from..(to - 1)
<1> DEFINE fits == {k \in from + 1..to + 1 : to + 1 - k <= KeepTok}
<1> DEFINE opens(keep) == {k \in keep..to : k = to \/ msgs[k].role = "user"}
<1>1. Min(fits) \in fits
  <2>1. to + 1 \in fits
    BY CompactionAssumption
  <2>2. fits \subseteq Nat /\ fits # {}
    BY <2>1
  <2> HIDE DEF fits
  <2> QED
    BY <2>2, MinOfNats
<1>2. PICK keep \in from + 1..to + 1 : keep = Min(fits)
  BY <1>1
<1>3. CASE keep > to
  BY <1>2, <1>3 DEF FoldPoint
<1>4. CASE ~(keep > to)
  <2>1. to \in opens(keep) /\ opens(keep) \subseteq keep..to /\ keep \in Nat
    BY <1>2, <1>4
  <2>2. opens(keep) \subseteq Nat /\ opens(keep) # {}
    BY <2>1
  <2>3. Min(opens(keep)) \in opens(keep)
    <3> HIDE DEF opens
    <3> QED
      BY <2>2, MinOfNats
  <2>4. Min(opens(keep)) \in keep..to
    BY <2>1, <2>3
  <2>5. FoldPoint(from, to) = Min(opens(keep)) - 1
    BY <1>2, <1>4 DEF FoldPoint
  <2> HIDE DEF opens
  <2> QED
    BY <1>2, <2>4, <2>5
<1> QED
  BY <1>3, <1>4

-----------------------------------------------------------------------------
(* What a step of the lane or its clients leaves to the handler: the        *)
(* cursor, the rows and the runs only grow, and no run changes its input.   *)
LEMMA ConversationGrows ==
    ASSUME IInv, Next
    PROVE  /\ through' = through
           /\ cover \in Nat /\ cover' \in Nat /\ cover <= cover'
           /\ Len(msgs) \in Nat /\ Len(msgs') \in Nat /\ Len(msgs) <= Len(msgs')
           /\ Len(runs) \in Nat /\ Len(runs') \in Nat /\ Len(runs) <= Len(runs')
           /\ \A k \in 1..Len(runs) : runs'[k].input = runs[k].input
<1> USE DEF IInv
<1>1. /\ runs \in Seq(Run) /\ Len(runs) \in Nat /\ DOMAIN runs = 1..Len(runs)
      /\ cover \in Nat /\ Len(msgs) \in Nat /\ input \in Nat /\ run \in Nat
  BY DEF TypeOK
<1>2. CASE Submit \/ RecordEvent
  <2>1. PICK role \in {"user", "event"} : AppendRow(role, 0)
    BY <1>2 DEF Submit, RecordEvent
  <2>2. Len(msgs') = Len(msgs) + 1
    BY <2>1, AppendedRow
  <2> QED
    BY <1>1, <1>2, <2>2 DEF Submit, RecordEvent
<1>3. CASE Quiet
  <2>1. UNCHANGED <<store, through>>
    BY <1>3 DEF Quiet, Kick, WakeUp, NextDue, Sleep, Retry, Assemble, Turn, NextDueFails,
           CreateRunFails, AssembleFails, CompleteFails, FailFails, SkipCheck, Crash
  <2> QED
    BY <1>1, <2>1 DEF store
<1>4. CASE CreateRun
  BY <1>1, <1>4, AppendedRun DEF CreateRun
<1>5. CASE Complete \/ Fail
  <2>1. PICK status \in {"done", "failed"} : FinishRun(run, status)
    BY <1>5 DEF Complete, Fail
  <2>2. AppendRow("ai", run) /\ Advance(input) /\ through' = through /\ pc \in InRun
    BY <1>5 DEF Complete, Fail, InRun
  <2>3. Len(msgs') = Len(msgs) + 1
    BY <1>1, <2>2, AppendedRow
  <2>4. /\ Len(runs') = Len(runs)
        /\ \A k \in 1..Len(runs) : runs'[k].input = runs[k].input
    <3>1. run \in 1..Len(runs)
      BY <2>2 DEF TypeOK
    <3> QED
      BY <1>1, <2>1, <3>1, FinishedRun
  <2> QED
    BY <1>1, <2>2, <2>3, <2>4 DEF Advance
<1>6. CASE Start
  BY <1>1, <1>6, InterruptedRuns DEF Start
<1> QED
  BY <1>2, <1>3, <1>4, <1>5, <1>6, NextSplit

LEMMA JobFields ==
    ASSUME CompactionTypeOK
    PROVE  /\ job.at \in {"idle", "cover", "create", "fold", "finish", "settle"}
           /\ job.from \in Nat /\ job.to \in Nat /\ job.fold \in Nat /\ job.run \in Nat
           /\ job.ok \in BOOLEAN
  BY DEF CompactionTypeOK, Job

(* A step of the lane leaves the handler's invariant.                       *)
LEMMA LaneKeepsCInv ==
    ASSUME CInv, Next, UNCHANGED <<task, job>>
    PROVE  CInv'
<1> USE DEF CInv
<1>1. IInv'
  BY NextSplit, ClientStep, QuietStep, CreateRunStep, CommitStep, StartStep
<1>2. /\ through' = through
      /\ cover \in Nat /\ cover' \in Nat /\ cover <= cover'
      /\ Len(msgs) \in Nat /\ Len(msgs') \in Nat /\ Len(msgs) <= Len(msgs')
      /\ Len(runs) \in Nat /\ Len(runs') \in Nat /\ Len(runs) <= Len(runs')
      /\ \A k \in 1..Len(runs) : runs'[k].input = runs[k].input
  BY ConversationGrows
<1>3. through \in Nat
  BY DEF IInv, TypeOK
<1>4. CompactionTypeOK'
  BY <1>1, <1>2, <1>3, JobFields DEF CompactionTypeOK, IInv
<1>5. FoldsAnsweredOnly'
  BY <1>2, <1>3, JobFields DEF FoldsAnsweredOnly
<1> QED
  BY <1>1, <1>4, <1>5

(* A step of the lane's check, or of the handler, that leaves the store.    *)
LEMMA CheckStep ==
    ASSUME CInv, CheckTail \/ Schedule \/ CheckFails
    PROVE  CInv'
<1> USE DEF CInv, IInv
<1>1. /\ UNCHANGED <<store, through, kick, callers, input, run, context, job>>
      /\ pc' \in {"schedule", "due"}
      /\ pc' \in Phases /\ pc' \notin InRun
  BY DEF CheckTail, Schedule, CheckFails, Phases, InRun
<1>2. task' \in 0..None /\ (task' = task \/ task \in {None, MaxAttempts} \/ task' = 0)
  BY DEF CheckTail, Schedule, CheckFails, CompactionTypeOK, None, MaxAttempts
<1>3. faults' \in 0..MaxFaults
  BY FaultCounts DEF CheckTail, Schedule, CheckFails, TypeOK
<1>4. TypeOK'
  BY <1>1, <1>3, SameRun DEF TypeOK
<1>5. InputIsDue' /\ RepliesSettled' /\ CoveredReplied'
  BY <1>1, StoreUntouched DEF InputIsDue, InRun
<1>6. CompactionTypeOK'
  <2>1. job.at # "idle" => task' \in 0..(MaxAttempts - 1)
    BY DEF CheckTail, Schedule, CheckFails, CompactionTypeOK, None, MaxAttempts
  <2> QED
    BY <1>1, <1>2, <1>4, <2>1 DEF CompactionTypeOK, store
<1>7. FoldsAnsweredOnly'
  BY <1>1 DEF FoldsAnsweredOnly, store
<1> QED
  BY <1>4, <1>5, <1>6, <1>7

(* The steps of the handler that leave the store and the lane.              *)
HandlerQuiet ==
    \/ Claim \/ ReadCover \/ SummarizeFails \/ Settle
    \/ FinishMaintenanceFails \/ HandlerFails \/ SettleFails

LEMMA HandlerQuietStep ==
    ASSUME CInv, HandlerQuiet
    PROVE  CInv'
<1> USE DEF CInv
<1>1. UNCHANGED <<store, through, kick, callers, lane>>
  BY DEF HandlerQuiet, Claim, ReadCover, SummarizeFails, Settle, FinishMaintenanceFails,
         HandlerFails, SettleFails, vars, store, lane
<1>2. faults' \in 0..MaxFaults
  BY FaultCounts DEF HandlerQuiet, Claim, ReadCover, SummarizeFails, Settle,
     FinishMaintenanceFails, HandlerFails, SettleFails, vars, IInv, TypeOK
<1>3. TypeOK'
  BY <1>1, <1>2 DEF IInv, TypeOK, store, lane
<1>4. InputIsDue' /\ RepliesSettled' /\ CoveredReplied'
  BY <1>1, StoreUntouched DEF IInv, InputIsDue, lane
<1>5. /\ Len(msgs) \in Nat /\ Len(runs) \in Nat /\ through \in Nat /\ cover \in Nat
      /\ through <= Len(msgs)
  BY DEF IInv, TypeOK
<1>6. job \in Job /\ task \in 0..None
  BY DEF CompactionTypeOK
<1>7. CASE Claim
  <2>1. /\ task' = task /\ task \in 0..(MaxAttempts - 1)
        /\ job' = IF OverBudget(through, Len(msgs))
                  THEN [Idle EXCEPT !.at = "cover", !.from = through, !.to = Len(msgs)]
                  ELSE [Idle EXCEPT !.at = "settle"]
    BY <1>7 DEF Claim
  <2>2. CASE OverBudget(through, Len(msgs))
    <3>1. job' = [at |-> "cover", from |-> through, to |-> Len(msgs),
                  fold |-> 0, run |-> 0, ok |-> TRUE]
      BY <2>1, <2>2 DEF Idle
    <3>2. job' \in Job
      BY <1>5, <3>1 DEF Job
    <3>3. through < Len(msgs)
      BY <1>5, <2>2, ConversationAssumption DEF OverBudget
    <3>4. /\ job'.at = "cover" /\ job'.from = through /\ job'.to = Len(msgs) /\ job'.run = 0
      BY <3>1
    <3>5. CompactionTypeOK'
      BY <1>1, <1>3, <1>5, <1>6, <2>1, <3>2, <3>3, <3>4 DEF CompactionTypeOK, store
    <3>6. FoldsAnsweredOnly'
      BY <1>1, <3>4 DEF FoldsAnsweredOnly, store
    <3> QED
      BY <1>3, <1>4, <3>5, <3>6 DEF IInv
  <2>3. CASE ~OverBudget(through, Len(msgs))
    <3>1. job' = [at |-> "settle", from |-> 0, to |-> 0, fold |-> 0, run |-> 0, ok |-> TRUE]
      BY <2>1, <2>3 DEF Idle
    <3>2. job' \in Job
      BY <3>1 DEF Job
    <3>3. job'.at = "settle" /\ job'.to = 0 /\ job'.run = 0
      BY <3>1
    <3>4. CompactionTypeOK'
      BY <1>1, <1>3, <1>5, <1>6, <2>1, <3>2, <3>3 DEF CompactionTypeOK, store
    <3>5. FoldsAnsweredOnly'
      BY <1>1, <3>3 DEF FoldsAnsweredOnly, store
    <3> QED
      BY <1>3, <1>4, <3>4, <3>5 DEF IInv
  <2> QED
    BY <2>2, <2>3
<1>8. CASE ReadCover
  <2>1. /\ job.at = "cover" /\ through = job.from /\ job.from < job.to /\ task' = task
        /\ task \in 0..(MaxAttempts - 1)
    BY <1>8 DEF ReadCover, CompactionTypeOK
  <2>2. FoldPoint(job.from, job.to) \in Int
    BY <1>6, <2>1, FoldPointBounds, JobFields
  <2>3. PICK fold \in Int : fold = Clamp(FoldPoint(job.from, job.to)) /\ fold <= cover
    BY <1>5, <2>2 DEF Clamp
  <2>4. job' = IF fold > job.from
               THEN [job EXCEPT !.at = "create", !.fold = fold]
               ELSE [job EXCEPT !.at = "settle"]
    BY <1>8, <2>3 DEF ReadCover
  <2>5. CASE fold > job.from
    <3>1. job' = [at |-> "create", from |-> job.from, to |-> job.to,
                  fold |-> fold, run |-> job.run, ok |-> job.ok]
      BY <1>6, <2>4, <2>5 DEF Job
    <3>2. fold \in Nat
      BY <2>3, <2>5, JobFields
    <3>3. job' \in Job
      BY <3>1, <3>2, JobFields DEF Job
    <3>4. /\ job'.at = "create" /\ job'.fold = fold /\ job'.from = job.from
          /\ job'.to = job.to /\ job'.run = job.run
      BY <3>1
    <3>5. CompactionTypeOK'
      BY <1>1, <1>3, <1>5, <1>6, <2>1, <2>5, <3>3, <3>4 DEF CompactionTypeOK, store
    <3>6. FoldsAnsweredOnly'
      BY <1>1, <2>3, <3>4 DEF FoldsAnsweredOnly, store
    <3> QED
      BY <1>3, <1>4, <3>5, <3>6 DEF IInv
  <2>6. CASE ~(fold > job.from)
    <3>1. /\ job'.at = "settle"
          /\ job'.to = job.to /\ job'.run = job.run /\ job' \in Job
      BY <1>6, <2>4, <2>6 DEF Job
    <3> QED
      BY <1>1, <1>3, <1>4, <1>5, <1>6, <2>1, <3>1
         DEF IInv, CompactionTypeOK, FoldsAnsweredOnly, store
  <2> QED
    BY <2>5, <2>6
<1>9. CASE SummarizeFails \/ FinishMaintenanceFails \/ HandlerFails
  <2>1. /\ job.at \in {"cover", "create", "fold", "finish"} /\ task' = task
        /\ job.at = "fold" \/ job'.at = "settle"
        /\ job.at = "fold" => job'.at = "finish"
        /\ job'.to = job.to /\ job'.run = job.run /\ job' \in Job
    BY <1>6, <1>9 DEF SummarizeFails, FinishMaintenanceFails, HandlerFails, Job
  <2> QED
    BY <1>1, <1>3, <1>4, <1>5, <1>6, <2>1
       DEF IInv, CompactionTypeOK, FoldsAnsweredOnly, store
<1>10. CASE Settle \/ SettleFails
  <2>1. /\ job' = Idle
        /\ task \in 0..(MaxAttempts - 1) /\ (task' = task \/ task' = None \/ task' = task + 1)
    BY <1>10 DEF Settle, SettleFails, CompactionTypeOK
  <2>2. task' \in 0..None
    BY <2>1 DEF None, MaxAttempts
  <2>3. job'.at = "idle" /\ job'.to = 0 /\ job'.run = 0 /\ job' \in Job
    BY <2>1 DEF Idle, Job
  <2> QED
    BY <1>1, <1>3, <1>4, <1>5, <2>2, <2>3
       DEF IInv, CompactionTypeOK, FoldsAnsweredOnly, store
<1> QED
  BY <1>7, <1>8, <1>9, <1>10 DEF HandlerQuiet

(* The handler's run is another run than the lane's.                        *)
LEMMA CreateMaintenanceStep ==
    ASSUME CInv, CreateMaintenanceRun
    PROVE  CInv'
<1> USE DEF CInv
<1>1. /\ UNCHANGED <<msgs, cover, through, kick, callers, lane, faults, task>>
      /\ job.at = "create" /\ job' = [job EXCEPT !.at = "fold", !.run = Len(runs) + 1]
      /\ runs' = Append(runs, [input |-> 0, status |-> "running"])
  BY DEF CreateMaintenanceRun
<1>2. /\ runs' \in Seq(Run)
      /\ Len(runs) \in Nat
      /\ DOMAIN runs = 1..Len(runs)
      /\ DOMAIN runs' = 1..(Len(runs) + 1)
      /\ Len(runs') = Len(runs) + 1
      /\ \A k \in DOMAIN runs : runs'[k] = runs[k]
      /\ runs'[Len(runs) + 1] = [input |-> 0, status |-> "running"]
  BY <1>1, AppendedRun DEF IInv, TypeOK
<1>3. TypeOK'
  BY <1>1, <1>2 DEF IInv, TypeOK, lane
<1>4. InputIsDue'
  BY <1>1 DEF IInv, InputIsDue, Unanswered, Asked, Ids, lane
<1>5. RepliesSettled'
  BY <1>1, <1>2 DEF IInv, RepliesSettled, Ids
<1>6. CoveredReplied'
  BY <1>1, <1>2 DEF IInv, CoveredReplied, RepliesSettled, Asked, Ids
<1>7. /\ job'.at = "fold" /\ job'.run = Len(runs) + 1 /\ job'.from = job.from
      /\ job'.to = job.to /\ job'.fold = job.fold /\ job' \in Job
  <2>1. job \in Job
    BY DEF CompactionTypeOK
  <2>2. job' = [at |-> "fold", from |-> job.from, to |-> job.to,
                fold |-> job.fold, run |-> Len(runs) + 1, ok |-> job.ok]
    BY <1>1, <2>1 DEF Job
  <2>3. job' \in Job
    BY <1>2, <2>2, JobFields DEF Job
  <2> QED
    BY <2>2, <2>3
<1>8. CompactionTypeOK'
  BY <1>1, <1>2, <1>3, <1>7 DEF CompactionTypeOK
<1>9. FoldsAnsweredOnly'
  BY <1>1, <1>7 DEF FoldsAnsweredOnly
<1> QED
  BY <1>3, <1>4, <1>5, <1>6, <1>8, <1>9 DEF IInv

LEMMA AppendSummaryStep ==
    ASSUME CInv, AppendSummary
    PROVE  CInv'
<1> USE DEF CInv
<1>1. /\ UNCHANGED <<store, kick, callers, lane, faults, task>>
      /\ job.at = "fold" /\ through' = job.fold /\ job' = [job EXCEPT !.at = "finish"]
  BY DEF AppendSummary
<1>2. job.fold <= cover /\ job.fold \in Nat
  BY <1>1, JobFields DEF FoldsAnsweredOnly
<1>3. /\ job'.at = "finish" /\ job'.run = job.run /\ job'.to = job.to /\ job' \in Job
  BY <1>1 DEF CompactionTypeOK, Job
<1>4. through' \in 0..Len(msgs)
  BY <1>1, <1>2 DEF IInv, TypeOK
<1>5. TypeOK'
  BY <1>1, <1>4 DEF IInv, TypeOK, store, lane
<1>6. InputIsDue' /\ RepliesSettled' /\ CoveredReplied'
  BY <1>1, StoreUntouched DEF IInv, InputIsDue, lane
<1>7. CompactionTypeOK'
  BY <1>1, <1>3, <1>5 DEF CompactionTypeOK, store
<1>8. FoldsAnsweredOnly'
  BY <1>1, <1>2, <1>3 DEF FoldsAnsweredOnly, store
<1> QED
  BY <1>5, <1>6, <1>7, <1>8 DEF IInv

LEMMA FinishMaintenanceStep ==
    ASSUME CInv, FinishMaintenanceRun
    PROVE  CInv'
<1> USE DEF CInv
<1>1. PICK status \in {"done", "failed"} : FinishRun(job.run, status)
  BY DEF FinishMaintenanceRun
<1>2. /\ UNCHANGED <<msgs, cover, through, kick, callers, lane, faults, task>>
      /\ job.at = "finish" /\ job' = [job EXCEPT !.at = "settle"]
  BY DEF FinishMaintenanceRun
<1>3. /\ job.run \in 1..Len(runs) /\ runs[job.run].input = 0
      /\ runs \in Seq(Run) /\ Len(runs) \in Nat
  BY <1>2, JobFields DEF CompactionTypeOK, IInv, TypeOK
<1>4. /\ runs' \in Seq(Run)
      /\ DOMAIN runs = 1..Len(runs)
      /\ DOMAIN runs' = 1..Len(runs)
      /\ Len(runs') = Len(runs)
      /\ \A k \in DOMAIN runs : runs'[k].input = runs[k].input
      /\ \A k \in DOMAIN runs : k # job.run => runs'[k] = runs[k]
      /\ runs'[job.run].status = status
  BY <1>1, <1>3, FinishedRun
<1>5. pc \in InRun => run # job.run
  <2> SUFFICES ASSUME pc \in InRun, run = job.run PROVE FALSE
    OBVIOUS
  <2>1. runs[run].input = input /\ input \in Unanswered
    BY DEF IInv, TypeOK, InputIsDue
  <2>2. input = 0 /\ cover \in Nat
    BY <1>3, <2>1 DEF IInv, TypeOK
  <2> QED
    BY <2>1, <2>2 DEF Unanswered
<1>6. TypeOK'
  BY <1>2, <1>4, <1>5 DEF IInv, TypeOK, lane
<1>7. InputIsDue'
  BY <1>2 DEF IInv, InputIsDue, Unanswered, Asked, Ids, lane
<1>8. RepliesSettled'
  BY <1>1, <1>2, <1>4 DEF IInv, RepliesSettled, Ids
<1>9. CoveredReplied'
  BY <1>2, <1>4 DEF IInv, CoveredReplied, RepliesSettled, Asked, Ids
<1>10. /\ job'.at = "settle" /\ job'.run = job.run /\ job'.to = job.to /\ job' \in Job
  BY <1>2 DEF CompactionTypeOK, Job
<1>11. CompactionTypeOK'
  BY <1>2, <1>4, <1>6, <1>10 DEF CompactionTypeOK
<1>12. FoldsAnsweredOnly'
  BY <1>2, <1>10 DEF FoldsAnsweredOnly
<1> QED
  BY <1>6, <1>7, <1>8, <1>9, <1>11, <1>12 DEF IInv

LEMMA CrashCompactionStep ==
    ASSUME CInv, CrashCompaction
    PROVE  CInv'
<1> USE DEF CInv
<1>1. Crash /\ job' = Idle /\ task' = task
  BY DEF CrashCompaction
<1>2. IInv'
  BY <1>1, QuietStep DEF Quiet
<1>3. UNCHANGED <<store, through>>
  BY <1>1 DEF Crash
<1>4. job'.at = "idle" /\ job'.to = 0 /\ job'.run = 0 /\ job' \in Job
  BY <1>1 DEF Idle, Job
<1>5. Len(msgs) \in Nat /\ Len(runs) \in Nat
  BY DEF IInv, TypeOK
<1> QED
  BY <1>1, <1>2, <1>3, <1>4, <1>5 DEF CompactionTypeOK, FoldsAnsweredOnly, IInv, store

LEMMA CompactionSplit ==
    ASSUME NextCompaction
    PROVE  \/ Next /\ UNCHANGED <<task, job>>
           \/ CheckTail \/ Schedule \/ CheckFails
           \/ HandlerQuiet \/ CreateMaintenanceRun \/ AppendSummary \/ FinishMaintenanceRun
           \/ CrashCompaction
  BY DEF NextCompaction, Next, Handle, HandlerStoreFails, HandlerQuiet

LEMMA CompactionStep ==
    ASSUME CInv, [NextCompaction]_allVars
    PROVE  CInv'
<1>1. CASE UNCHANGED allVars
  <2>1. UNCHANGED vars /\ UNCHANGED <<task, job>>
    BY <1>1 DEF allVars
  <2>2. IInv'
    BY <2>1, StutterStep DEF CInv
  <2>3. UNCHANGED <<msgs, runs, cover, through>>
    BY <2>1 DEF vars
  <2> QED
    BY <2>1, <2>2, <2>3 DEF CInv, CompactionTypeOK, FoldsAnsweredOnly, IInv
<1> QED
  BY <1>1, CompactionSplit, LaneKeepsCInv, CheckStep, HandlerQuietStep, CreateMaintenanceStep,
     AppendSummaryStep, FinishMaintenanceStep, CrashCompactionStep

LEMMA InitCInv == InitCompaction => CInv
<1> SUFFICES ASSUME InitCompaction PROVE CInv
  OBVIOUS
<1>1. IInv
  BY InitIInv DEF InitCompaction
<1>2. msgs = <<>> /\ runs = <<>> /\ cover = 0 /\ through = 0 /\ task = None /\ job = Idle
  BY DEF InitCompaction, Init
<1>3. job.at = "idle" /\ job.to = 0 /\ job.run = 0 /\ job \in Job
  BY <1>2 DEF Idle, Job
<1>4. task \in 0..None
  BY <1>2 DEF None, MaxAttempts
<1>5. Len(msgs) = 0 /\ Len(runs) = 0
  BY <1>2
<1> QED
  BY <1>1, <1>2, <1>3, <1>4, <1>5 DEF CInv, IInv, CompactionTypeOK, FoldsAnsweredOnly

(* The lane's invariant and the handler's hold together.                    *)
THEOREM CompactionInvariant == CompactionSpec => []CInv
  BY InitCInv, CompactionStep, PTL DEF CompactionSpec

(* A handler runs for a task with attempts left, and its summary replaces   *)
(* the one it read (HandleCompaction, runMaintenance).                      *)
THEOREM CompactionTypeCorrect == CompactionSpec => []CompactionTypeOK
<1>1. CInv => CompactionTypeOK
  BY DEF CInv
<1> QED
  BY <1>1, CompactionInvariant, PTL

(* No summary ever hides a row that some run is still to answer (the clamp  *)
(* to CoveredThrough in HandleCompaction).                                  *)
THEOREM CompactionFoldsAnswered == CompactionSpec => []FoldsAnsweredOnly
<1>1. CInv => FoldsAnsweredOnly
  BY DEF CInv
<1> QED
  BY <1>1, CompactionInvariant, PTL

-----------------------------------------------------------------------------
LEMMA CompactionRefinesStep ==
    ASSUME CInv, [NextCompaction]_allVars
    PROVE  [Box!Next]_(Box!vars)
<1>1. IInv
  BY DEF CInv
<1>2. CASE Next \/ UNCHANGED vars
  BY <1>1, <1>2, ConversationRefinesStep
<1>3. CASE UNCHANGED store
  <2>1. UNCHANGED <<Asked, Answered, Replies>>
    BY <1>3 DEF store, Asked, Answered, Replies, Ids
  <2> QED
    BY <2>1 DEF Box!vars
<1>4. CASE CheckTail \/ Schedule \/ CheckFails \/ HandlerQuiet \/ AppendSummary \/ CrashCompaction
  <2>1. UNCHANGED store
    BY <1>4 DEF CheckTail, Schedule, CheckFails, HandlerQuiet, Claim, ReadCover, SummarizeFails,
       Settle, FinishMaintenanceFails, HandlerFails, SettleFails, AppendSummary,
       CrashCompaction, Crash, vars, store
  <2> QED
    BY <1>3, <2>1
<1>5. CASE CreateMaintenanceRun \/ FinishMaintenanceRun
  <2>1. UNCHANGED <<msgs, cover>> /\ runs \in Seq(Run)
    BY <1>1, <1>5 DEF CreateMaintenanceRun, FinishMaintenanceRun, IInv, TypeOK
  <2>2. \A k \in DOMAIN runs : k \in DOMAIN runs' /\ runs'[k].input = runs[k].input
    <3>1. CASE CreateMaintenanceRun
      BY <2>1, <3>1, AppendedRun DEF CreateMaintenanceRun
    <3>2. CASE FinishMaintenanceRun
      <4>1. PICK status \in {"done", "failed"} : FinishRun(job.run, status)
        BY <3>2 DEF FinishMaintenanceRun
      <4>2. job.run \in 1..Len(runs)
        BY <2>1, <3>2, JobFields DEF FinishMaintenanceRun, CInv, CompactionTypeOK
      <4> QED
        BY <2>1, <4>1, <4>2, FinishedRun
    <3> QED
      BY <1>5, <3>1, <3>2
  <2> QED
    BY <1>1, <2>1, <2>2, SameReplies DEF Box!vars
<1> QED
  BY <1>2, <1>4, <1>5, CompactionSplit DEF allVars

(* Compaction beside the lane changes nothing of what the inbox promises.   *)
THEOREM CompactionImplementsInbox == CompactionSpec => InboxSpec
<1>1. InitCompaction => Box!Init
  BY DEF InitCompaction, Init, Box!Init, Asked, Answered, Replies, Ids
<1> QED
  BY <1>1, CompactionRefinesStep, CompactionInvariant, PTL DEF CompactionSpec, InboxSpec, Box!Spec
=============================================================================

------------------------ MODULE Conversation_proofs ------------------------
(***************************************************************************)
(* Proofs about Conversation, for any number of messages and failures.      *)
(*                                                                         *)
(* The inductive invariant IInv ties the three places that remember a run   *)
(* together: the message the lane works on is a client's and still due, and *)
(* every reply row belongs to a run that has ended.  So the commit of a run *)
(* adds the first and only reply to its input, and nothing else adds one.   *)
(***************************************************************************)
EXTENDS Conversation, Delegation, FiniteSetTheorems, WellFoundedInduction, NaturalsInduction,
        SequenceTheorems, TLAPS

(* The message the lane answers is due until the commit.                    *)
InputIsDue == pc \in {"create"} \cup InRun => input \in Unanswered

(* A reply belongs to a run that ended and whose input the cursor covers.   *)
RepliesSettled ==
    \A m \in Ids :
        IF msgs[m].role = "ai"
        THEN /\ msgs[m].run \in DOMAIN runs
             /\ runs[msgs[m].run].status # "running"
             /\ runs[msgs[m].run].input <= cover
        ELSE msgs[m].run = 0

(* Each covered message lies at or before the input of a reply.             *)
CoveredReplied ==
    \A i \in Asked : i <= cover =>
        \E m \in Ids : msgs[m].role = "ai" /\ i <= runs[msgs[m].run].input

IInv == TypeOK /\ InputIsDue /\ RepliesSettled /\ CoveredReplied

-----------------------------------------------------------------------------
(* A non-empty set of row ids has a newest one, and Max finds it.           *)
LEMMA MaxOfIds ==
    ASSUME NEW n \in Nat, NEW S, S \subseteq 1..n, S # {}
    PROVE  Max(S) \in S /\ \A i \in S : i <= Max(S)
<1> DEFINE below == {j \in Nat : \E i \in S : j = n - i}
<1>1. PICK i \in S : TRUE
  OBVIOUS
<1>2. n - i \in below
  OBVIOUS
<1>3. PICK j \in below : \A k \in below : j <= k
  <2> DEFINE less == {pair \in Nat \X Nat : pair[1] < pair[2]}
  <2>1. IsWellFoundedOn(less, Nat)
    BY NatLessThanWellFounded DEF OpToRel
  <2>2. below \subseteq Nat /\ below # {}
    BY <1>2
  <2>3. \E j \in below : \A k \in below : <<k, j>> \notin less
    <3> HIDE DEF below, less
    <3> QED
      BY <2>1, <2>2, WFMin
  <2>4. \A j, k \in Nat : <<k, j>> \notin less => j <= k
    OBVIOUS
  <2> HIDE DEF less, below
  <2> QED
    BY <2>2, <2>3, <2>4
<1>4. PICK m \in S : j = n - m
  OBVIOUS
<1>5. \A k \in S : k <= m
  <2> TAKE k \in S
  <2>1. n - k \in below
    OBVIOUS
  <2>2. n - m <= n - k
    BY <1>3, <1>4, <2>1
  <2> QED
    BY <2>2
<1> QED
  BY <1>5 DEF Max

(* What an append leaves and adds.                                          *)
LEMMA AppendedRow ==
    ASSUME TypeOK, NEW role \in {"user", "event", "ai"}, NEW r \in Nat, AppendRow(role, r)
    PROVE  /\ msgs' \in Seq(Message)
           /\ Len(msgs) \in Nat
           /\ Len(msgs') = Len(msgs) + 1
           /\ Ids = 1..Len(msgs)
           /\ Ids' = 1..(Len(msgs) + 1)
           /\ \A i \in Ids : msgs'[i] = msgs[i]
           /\ msgs'[Len(msgs) + 1].role = role
           /\ msgs'[Len(msgs) + 1].run = r
  BY DEF TypeOK, AppendRow, Message, Ids

(* The end of a run touches only its status.                                *)
LEMMA FinishedRun ==
    ASSUME runs \in Seq(Run), NEW r \in 1..Len(runs), NEW status \in {"done", "failed"},
           FinishRun(r, status)
    PROVE  /\ runs' \in Seq(Run)
           /\ DOMAIN runs = 1..Len(runs)
           /\ DOMAIN runs' = 1..Len(runs)
           /\ Len(runs') = Len(runs)
           /\ \A k \in DOMAIN runs : runs'[k].input = runs[k].input
           /\ \A k \in DOMAIN runs : k # r => runs'[k] = runs[k]
           /\ runs'[r].status = status
<1>1. /\ DOMAIN runs = 1..Len(runs) /\ Len(runs) \in Nat
      /\ runs[r] \in Run
  OBVIOUS
<1>2. Ended(r, status) \in Run /\ Ended(r, status).input = runs[r].input
                               /\ Ended(r, status).status = status
  BY <1>1 DEF Run, Ended
<1>3. runs' = [runs EXCEPT ![r] = Ended(r, status)]
  BY DEF FinishRun
<1>4. runs' \in Seq(Run) /\ DOMAIN runs' = DOMAIN runs /\ Len(runs') = Len(runs)
  BY <1>1, <1>2, <1>3
<1> QED
  BY <1>1, <1>2, <1>3, <1>4

(* A new run leaves the others alone.                                       *)
LEMMA AppendedRun ==
    ASSUME runs \in Seq(Run), NEW id \in Nat,
           runs' = Append(runs, [input |-> id, status |-> "running"])
    PROVE  /\ runs' \in Seq(Run)
           /\ Len(runs) \in Nat
           /\ DOMAIN runs = 1..Len(runs)
           /\ DOMAIN runs' = 1..(Len(runs) + 1)
           /\ Len(runs') = Len(runs) + 1
           /\ \A k \in DOMAIN runs : runs'[k] = runs[k]
           /\ runs'[Len(runs) + 1] = [input |-> id, status |-> "running"]
  BY DEF Run

(* FailRunningRuns keeps the inputs and ends every run.                     *)
LEMMA InterruptedRuns ==
    ASSUME runs \in Seq(Run), runs' = Interrupted
    PROVE  /\ runs' \in Seq(Run)
           /\ DOMAIN runs' = DOMAIN runs
           /\ Len(runs') = Len(runs)
           /\ \A k \in DOMAIN runs : runs'[k].input = runs[k].input
           /\ \A k \in DOMAIN runs : runs'[k].status # "running"
<1>1. DOMAIN runs = 1..Len(runs) /\ Len(runs) \in Nat
  OBVIOUS
<1>2. \A k \in DOMAIN runs : /\ Ended(k, "failed") \in Run
                             /\ Ended(k, "failed").input = runs[k].input
                             /\ Ended(k, "failed").status = "failed"
  <2> TAKE k \in DOMAIN runs
  <2>1. runs[k] \in Run
    BY <1>1
  <2> QED
    BY <2>1 DEF Run, Ended
<1>3. \A k \in DOMAIN runs :
         runs'[k] = IF runs[k].status = "running" THEN Ended(k, "failed") ELSE runs[k]
  BY DEF Interrupted
<1>4. \A k \in DOMAIN runs : runs'[k] \in Run
  BY <1>2, <1>3
<1>5. DOMAIN runs' = 1..Len(runs) /\ runs' = [k \in 1..Len(runs) |-> runs'[k]]
  BY <1>1 DEF Interrupted
<1>6. runs' \in Seq(Run) /\ Len(runs') = Len(runs)
  BY <1>1, <1>4, <1>5
<1> QED
  BY <1>1, <1>2, <1>3, <1>5, <1>6

-----------------------------------------------------------------------------
LEMMA InitIInv == Init => IInv
<1> SUFFICES ASSUME Init PROVE IInv
  OBVIOUS
<1>1. context.through = 0
  BY DEF Init, Nothing
<1>2. TypeOK
  <2>1. msgs \in Seq(Message) /\ Len(msgs) = 0 /\ runs \in Seq(Run) /\ Len(runs) = 0
    BY DEF Init
  <2>2. pc \in Phases /\ pc \notin InRun
    BY DEF Init, Phases, InRun
  <2>3. kick \in BOOLEAN
    BY DEF Init
  <2>4. cover = 0 /\ through = 0 /\ callers = 0 /\ input = 0 /\ run = 0 /\ faults = 0
    BY DEF Init
  <2>5. 0 \in 0..0 /\ 0 \in 0..MaxFaults
    BY ConversationAssumption
  <2> QED
    BY <1>1, <2>1, <2>2, <2>3, <2>4, <2>5 DEF TypeOK
<1>3. InputIsDue
  BY DEF Init, InputIsDue, InRun
<1>4. RepliesSettled /\ CoveredReplied
  BY DEF Init, RepliesSettled, CoveredReplied, Ids, Asked
<1> QED
  BY <1>2, <1>3, <1>4 DEF IInv

(* A step that leaves the store alone keeps what the invariant says of it.  *)
LEMMA StoreUntouched ==
    ASSUME IInv, UNCHANGED store
    PROVE  /\ RepliesSettled' /\ CoveredReplied'
           /\ Unanswered' = Unanswered /\ Asked' = Asked /\ Ids' = Ids
  BY DEF IInv, store, RepliesSettled, CoveredReplied, Unanswered, Asked, Ids

LEMMA ClientStep ==
    ASSUME IInv, Submit \/ RecordEvent
    PROVE  IInv'
<1> USE DEF IInv
<1>1. PICK role \in {"user", "event"} : AppendRow(role, 0)
  BY DEF Submit, RecordEvent
<1>2. /\ UNCHANGED <<runs, cover, through, kick, lane, faults>>
      /\ callers' \in Nat
  BY DEF Submit, RecordEvent, TypeOK
<1>3. /\ msgs' \in Seq(Message)
      /\ Len(msgs) \in Nat
      /\ Len(msgs') = Len(msgs) + 1
      /\ Ids = 1..Len(msgs)
      /\ Ids' = 1..(Len(msgs) + 1)
      /\ \A i \in Ids : msgs'[i] = msgs[i]
      /\ msgs'[Len(msgs) + 1].role = role
      /\ msgs'[Len(msgs) + 1].run = 0
  BY <1>1, AppendedRow
<1>4. TypeOK'
  BY <1>2, <1>3 DEF TypeOK, lane
<1>5. InputIsDue'
  BY <1>2, <1>3 DEF InputIsDue, Unanswered, Asked, lane
<1>6. RepliesSettled'
  BY <1>2, <1>3 DEF RepliesSettled
<1>7. CoveredReplied'
  <2> SUFFICES ASSUME NEW i \in Asked', i <= cover'
               PROVE  \E m \in Ids' : msgs'[m].role = "ai" /\ i <= runs'[msgs'[m].run].input
    BY DEF CoveredReplied
  <2>1. i \in Asked
    BY <1>2, <1>3 DEF Asked, TypeOK
  <2> QED
    BY <2>1, <1>2, <1>3 DEF CoveredReplied
<1> QED
  BY <1>4, <1>5, <1>6, <1>7
-----------------------------------------------------------------------------
(* The steps that touch neither the store nor the failures' budget beyond   *)
(* a count.                                                                 *)
Quiet ==
    \/ Kick \/ WakeUp \/ NextDue \/ Sleep \/ Retry \/ Assemble \/ Turn
    \/ NextDueFails \/ CreateRunFails \/ AssembleFails \/ CompleteFails \/ FailFails
    \/ SkipCheck \/ Crash

LEMMA FaultCounts ==
    ASSUME TypeOK, Fault
    PROVE  faults' \in 0..MaxFaults
  BY ConversationAssumption DEF TypeOK, Fault

(* A lane that left its run is in no run.                                   *)
LEMMA LeftRun ==
    ASSUME TypeOK, UNCHANGED <<store, through>>, LeaveRun, pc' \in Phases \ InRun,
           kick' \in BOOLEAN, callers' \in Nat, faults' \in 0..MaxFaults
    PROVE  TypeOK'
<1>1. context'.through = 0 /\ input' = 0 /\ run' = 0
  BY DEF LeaveRun, Nothing
<1>2. msgs' = msgs /\ runs' = runs /\ cover' = cover /\ through' = through
  BY DEF store
<1>3. Len(msgs) \in Nat /\ Len(runs) \in Nat
  BY DEF TypeOK
<1> QED
  BY <1>1, <1>2, <1>3 DEF TypeOK

(* A lane that moves on with the same run and context.                      *)
LEMMA SameRun ==
    ASSUME TypeOK, UNCHANGED <<store, through, input, run, context>>, pc' \in Phases,
           pc' \in InRun => pc \in InRun,
           kick' \in BOOLEAN, callers' \in Nat, faults' \in 0..MaxFaults
    PROVE  TypeOK'
  BY DEF TypeOK, store

LEMMA QuietStep ==
    ASSUME IInv, Quiet
    PROVE  IInv'
<1> USE DEF IInv
<1>1. UNCHANGED <<store, through>>
  BY DEF Quiet, Kick, WakeUp, NextDue, Sleep, Retry, Assemble, Turn, NextDueFails,
         CreateRunFails, AssembleFails, CompleteFails, FailFails, SkipCheck, Crash
<1>2. /\ RepliesSettled' /\ CoveredReplied'
      /\ Unanswered' = Unanswered
  BY <1>1, StoreUntouched
<1>3. kick \in BOOLEAN /\ callers \in Nat /\ faults \in 0..MaxFaults /\ pc \in Phases
  BY DEF TypeOK
<1>4. CASE Kick
  <2>1. kick' \in BOOLEAN /\ callers' \in Nat
    BY <1>3, <1>4 DEF Kick
  <2>2. UNCHANGED <<pc, input, run, context, faults>>
    BY <1>4 DEF Kick, lane
  <2>3. TypeOK'
    BY <1>1, <1>3, <2>1, <2>2, SameRun
  <2> QED
    BY <1>2, <2>2, <2>3 DEF InputIsDue
<1>5. CASE WakeUp \/ Sleep \/ Retry \/ SkipCheck
  <2>1. UNCHANGED <<callers, input, run, context, faults>> /\ kick' \in BOOLEAN
    BY <1>3, <1>5 DEF WakeUp, Sleep, Retry, SkipCheck
  <2>2. pc' \in {"wait", "due"}
    BY <1>5 DEF WakeUp, Sleep, Retry, SkipCheck
  <2>3. pc' \in Phases /\ pc' \notin InRun
    BY <2>2 DEF Phases, InRun
  <2>4. TypeOK'
    BY <1>1, <1>3, <2>1, <2>3, SameRun
  <2> QED
    BY <1>2, <2>2, <2>4 DEF InputIsDue, InRun
<1>6. CASE NextDue
  <2>1. UNCHANGED <<kick, callers, run, context, faults>>
    BY <1>6 DEF NextDue
  <2>2. pc' \in {"drained", "create"} /\ pc' \in Phases /\ pc' \notin InRun
    BY <1>6 DEF NextDue, Phases, InRun
  <2>3. CASE Unanswered = {}
    <3>1. input' = input /\ pc' = "drained"
      BY <1>6, <2>3 DEF NextDue
    <3>2. TypeOK'
      BY <1>1, <1>3, <2>1, <2>2, <3>1, SameRun
    <3> QED
      BY <1>2, <3>1, <3>2 DEF InputIsDue, InRun
  <2>4. CASE Unanswered # {}
    <3>1. Unanswered \subseteq 1..Len(msgs) /\ Len(msgs) \in Nat
      BY DEF Unanswered, Asked, Ids, TypeOK
    <3>2. input' \in Unanswered
      BY <1>6, <2>4, <3>1, MaxOfIds DEF NextDue
    <3>3. TypeOK'
      BY <1>1, <1>3, <2>1, <2>2, <3>1, <3>2 DEF TypeOK, store
    <3> QED
      BY <1>2, <3>2, <3>3 DEF InputIsDue
  <2> QED
    BY <2>3, <2>4
<1>7. CASE Assemble
  <2>1. UNCHANGED <<kick, callers, input, run, faults>> /\ pc = "assemble"
    BY <1>7 DEF Assemble
  <2>2. pc' \in {"turn", "fail"} /\ (context' = context \/ context'.through = through)
    BY <1>7 DEF Assemble
  <2>3. pc \in InRun /\ pc' \in Phases /\ pc' \in InRun
    BY <2>1, <2>2 DEF Phases, InRun
  <2>4. context'.through \in 0..Len(msgs)
    BY <2>2 DEF TypeOK
  <2>5. TypeOK'
    BY <1>1, <1>3, <2>1, <2>3, <2>4 DEF TypeOK, store
  <2> QED
    BY <1>2, <2>1, <2>3, <2>5 DEF InputIsDue
<1>8. CASE Turn \/ AssembleFails \/ CompleteFails
  <2>1. UNCHANGED <<kick, callers, input, run, context>> /\ pc \in {"turn", "assemble", "complete"}
    BY <1>8 DEF Turn, AssembleFails, CompleteFails
  <2>2. pc' \in {"complete", "fail"}
    BY <1>8 DEF Turn, AssembleFails, CompleteFails
  <2>3. faults' \in 0..MaxFaults
    BY <1>3, <1>8, FaultCounts DEF Turn, AssembleFails, CompleteFails
  <2>4. pc \in InRun /\ pc' \in Phases /\ pc' \in InRun
    BY <2>1, <2>2 DEF Phases, InRun
  <2>5. TypeOK'
    BY <1>1, <1>3, <2>1, <2>3, <2>4, SameRun
  <2> QED
    BY <1>2, <2>1, <2>4, <2>5 DEF InputIsDue
<1>9. CASE NextDueFails
  <2>1. UNCHANGED <<kick, callers, input, run, context>> /\ pc' = "backoff" /\ Fault
    BY <1>9 DEF NextDueFails
  <2>2. pc' \in Phases /\ pc' \notin InRun /\ pc' # "create"
    BY <2>1 DEF Phases, InRun
  <2>3. TypeOK'
    BY <1>1, <1>3, <2>1, <2>2, FaultCounts, SameRun
  <2> QED
    BY <1>2, <2>2, <2>3 DEF InputIsDue
<1>10. CASE CreateRunFails \/ FailFails \/ Crash
  <2>1. LeaveRun /\ Fault /\ pc' \in {"backoff", "down"}
    BY <1>10 DEF CreateRunFails, FailFails, Crash
  <2>2. kick' \in BOOLEAN /\ callers' \in Nat
    <3>1. (kick' = kick \/ kick' = FALSE) /\ (callers' = callers \/ callers' = 0)
      BY <1>10 DEF CreateRunFails, FailFails, Crash
    <3>2. kick' \in BOOLEAN
      BY <1>3, <3>1, Zenon
    <3>3. callers' \in Nat
      BY <1>3, <3>1
    <3> QED
      BY <3>2, <3>3
  <2>3. pc' \in Phases \ InRun /\ pc' # "create"
    BY <2>1 DEF Phases, InRun
  <2>4. TypeOK'
    BY <1>1, <2>1, <2>2, <2>3, FaultCounts, LeftRun
  <2> QED
    BY <1>2, <2>3, <2>4 DEF InputIsDue
<1> QED
  BY <1>4, <1>5, <1>6, <1>7, <1>8, <1>9, <1>10 DEF Quiet

(* A new run of the lane answers a message that is due.                     *)
LEMMA CreateRunStep ==
    ASSUME IInv, CreateRun
    PROVE  IInv'
<1> USE DEF IInv
<1>1. /\ UNCHANGED <<msgs, cover, through, kick, callers, input, context, faults>>
      /\ pc = "create" /\ pc' = "assemble" /\ run' = Len(runs) + 1
      /\ runs' = Append(runs, [input |-> input, status |-> "running"])
  BY DEF CreateRun
<1>2. input \in Nat /\ runs \in Seq(Run)
  BY DEF TypeOK
<1>3. /\ runs' \in Seq(Run)
      /\ Len(runs) \in Nat
      /\ DOMAIN runs = 1..Len(runs)
      /\ DOMAIN runs' = 1..(Len(runs) + 1)
      /\ Len(runs') = Len(runs) + 1
      /\ \A k \in DOMAIN runs : runs'[k] = runs[k]
      /\ runs'[Len(runs) + 1] = [input |-> input, status |-> "running"]
  BY <1>1, <1>2, AppendedRun
<1>4. pc' \in Phases
  BY <1>1 DEF Phases, InRun
<1>5. TypeOK'
  BY <1>1, <1>3, <1>4 DEF TypeOK
<1>6. InputIsDue'
  BY <1>1 DEF InputIsDue, InRun, Unanswered, Asked, Ids
<1>7. RepliesSettled'
  BY <1>1, <1>3 DEF RepliesSettled, Ids
<1>8. CoveredReplied'
  BY <1>1, <1>3 DEF CoveredReplied, RepliesSettled, Asked, Ids
<1> QED
  BY <1>5, <1>6, <1>7, <1>8

(* The commit of a run, with a reply or with a visible failure.             *)
LEMMA CommitStep ==
    ASSUME IInv, Complete \/ Fail
    PROVE  IInv'
<1> USE DEF IInv
<1>1. PICK status \in {"done", "failed"} : FinishRun(run, status)
  BY DEF Complete, Fail
<1>2. /\ UNCHANGED <<through, kick, callers, faults>>
      /\ AppendRow("ai", run) /\ Advance(input) /\ LeaveRun
      /\ pc \in {"complete", "fail"} /\ pc' \in {"check", "due"}
  BY DEF Complete, Fail
<1>3. /\ pc \in InRun
      /\ pc' \in Phases /\ pc' \notin InRun /\ pc' # "create"
  BY <1>2 DEF Phases, InRun
<1>4. /\ input \in Ids /\ msgs[input].role = "user" /\ input > cover
      /\ run \in 1..Len(runs) /\ run \in Nat /\ runs[run].input = input
      /\ runs \in Seq(Run)
  BY <1>3 DEF InputIsDue, Unanswered, Asked, TypeOK
<1>5. /\ msgs' \in Seq(Message)
      /\ Len(msgs) \in Nat
      /\ Len(msgs') = Len(msgs) + 1
      /\ Ids = 1..Len(msgs)
      /\ Ids' = 1..(Len(msgs) + 1)
      /\ \A i \in Ids : msgs'[i] = msgs[i]
      /\ msgs'[Len(msgs) + 1].role = "ai"
      /\ msgs'[Len(msgs) + 1].run = run
  BY <1>2, <1>4, AppendedRow
<1>6. /\ runs' \in Seq(Run)
      /\ DOMAIN runs = 1..Len(runs)
      /\ DOMAIN runs' = 1..Len(runs)
      /\ Len(runs') = Len(runs)
      /\ \A k \in DOMAIN runs : runs'[k].input = runs[k].input
      /\ \A k \in DOMAIN runs : k # run => runs'[k] = runs[k]
      /\ runs'[run].status = status
  BY <1>1, <1>4, FinishedRun
<1>7. cover' = input /\ cover \in Nat
  BY <1>2, <1>4 DEF Advance, TypeOK
<1>8. TypeOK'
  <2>1. context'.through = 0 /\ input' = 0 /\ run' = 0
    BY <1>2 DEF LeaveRun, Nothing
  <2> QED
    BY <2>1, <1>2, <1>3, <1>4, <1>5, <1>6, <1>7 DEF TypeOK
<1>9. InputIsDue'
  BY <1>3 DEF InputIsDue
<1>10. RepliesSettled'
  <2> SUFFICES ASSUME NEW m \in Ids'
               PROVE  IF msgs'[m].role = "ai"
                      THEN /\ msgs'[m].run \in DOMAIN runs'
                           /\ runs'[msgs'[m].run].status # "running"
                           /\ runs'[msgs'[m].run].input <= cover'
                      ELSE msgs'[m].run = 0
    BY DEF RepliesSettled
  <2>1. CASE m = Len(msgs) + 1
    BY <2>1, <1>1, <1>4, <1>5, <1>6, <1>7
  <2>2. CASE m \in Ids
    <3>1. msgs'[m] = msgs[m]
      BY <2>2, <1>5
    <3>2. CASE msgs[m].role = "ai"
      <4>1. /\ msgs[m].run \in DOMAIN runs
            /\ runs[msgs[m].run].status # "running"
            /\ runs[msgs[m].run].input <= cover
        BY <2>2, <3>2 DEF RepliesSettled
      <4>2. msgs[m].run # run
        BY <4>1, <1>3 DEF TypeOK
      <4>3. runs'[msgs[m].run] = runs[msgs[m].run] /\ runs[msgs[m].run].input \in Nat
        <5>1. runs[msgs[m].run] \in Run
          BY <4>1, <1>4, <1>6
        <5>2. runs[msgs[m].run].input \in Nat
          BY <5>1 DEF Run
        <5> QED
          BY <4>1, <4>2, <1>6, <5>2
      <4>4. runs[msgs[m].run].input <= cover'
        BY <4>1, <4>3, <1>4, <1>5, <1>7
      <4> QED
        BY <3>1, <3>2, <4>1, <4>3, <4>4, <1>6
    <3> QED
      BY <2>2, <3>1, <3>2 DEF RepliesSettled
  <2> QED
    BY <2>1, <2>2, <1>5
<1>11. CoveredReplied'
  <2> SUFFICES ASSUME NEW i \in Asked', i <= cover'
               PROVE  \E m \in Ids' : msgs'[m].role = "ai" /\ i <= runs'[msgs'[m].run].input
    BY DEF CoveredReplied
  <2> DEFINE m == Len(msgs) + 1
  <2>1. m \in Ids' /\ msgs'[m].role = "ai" /\ msgs'[m].run = run
    BY <1>5
  <2>2. i <= runs'[msgs'[m].run].input
    BY <2>1, <1>4, <1>6, <1>7
  <2> QED
    BY <2>1, <2>2
<1> QED
  BY <1>8, <1>9, <1>10, <1>11

(* A restart ends the runs that were left running.                          *)
LEMMA StartStep ==
    ASSUME IInv, Start
    PROVE  IInv'
<1> USE DEF IInv
<1>1. /\ UNCHANGED <<msgs, cover, through, callers, input, run, context, faults>>
      /\ runs' = Interrupted /\ kick' = TRUE /\ pc' = "wait"
  BY DEF Start
<1>2. /\ runs' \in Seq(Run)
      /\ DOMAIN runs' = DOMAIN runs
      /\ Len(runs') = Len(runs)
      /\ \A k \in DOMAIN runs : runs'[k].input = runs[k].input
      /\ \A k \in DOMAIN runs : runs'[k].status # "running"
  BY <1>1, InterruptedRuns DEF TypeOK
<1>3. pc' \in Phases /\ pc' \notin InRun /\ pc' # "create"
  BY <1>1 DEF Phases, InRun
<1>4. kick' \in BOOLEAN
  BY <1>1
<1>5. TypeOK'
  BY <1>1, <1>2, <1>3, <1>4 DEF TypeOK
<1>6. InputIsDue'
  BY <1>3 DEF InputIsDue
<1>7. RepliesSettled'
  BY <1>1, <1>2 DEF RepliesSettled, Ids
<1>8. CoveredReplied'
  BY <1>1, <1>2 DEF CoveredReplied, RepliesSettled, Asked, Ids
<1> QED
  BY <1>5, <1>6, <1>7, <1>8

LEMMA StutterStep ==
    ASSUME IInv, UNCHANGED vars
    PROVE  IInv'
<1>1. UNCHANGED <<store, through, kick, callers, pc, input, run, context, faults>>
  BY DEF vars, store
<1>2. RepliesSettled' /\ CoveredReplied' /\ Unanswered' = Unanswered
  BY <1>1, StoreUntouched
<1>3. TypeOK'
  BY <1>1 DEF IInv, TypeOK, store
<1> QED
  BY <1>1, <1>2, <1>3 DEF IInv, InputIsDue

(* Every step, for the invariant and for Compaction.                        *)
LEMMA NextSplit ==
    ASSUME Next
    PROVE  Submit \/ RecordEvent \/ Quiet \/ CreateRun \/ Complete \/ Fail \/ Start
  BY DEF Next, Client, Work, StoreFails, Quiet

(* The rows, the runs and the cursor agree in every reachable state.        *)
THEOREM ConversationInvariant == Spec => []IInv
<1>1. IInv /\ [Next]_vars => IInv'
  BY NextSplit, ClientStep, QuietStep, CreateRunStep, CommitStep, StartStep, StutterStep
<1> QED
  BY <1>1, InitIInv, PTL DEF Spec

(* The lane's run is always one the table has, still running and with the   *)
(* lane's input (CreateRun, CompleteRun, FailRun).                          *)
THEOREM ConversationTypeOK == Spec => []TypeOK
<1>1. IInv => TypeOK
  BY DEF IInv
<1> QED
  BY <1>1, ConversationInvariant, PTL

LEMMA IInvImpliesCover == IInv => CoverAgrees
<1> SUFFICES ASSUME IInv PROVE CoverAgrees
  OBVIOUS
<1> USE DEF IInv
<1>1. ASSUME NEW i \in Answered
      PROVE  \E reply \in Replies : i <= reply[2]
  <2>1. PICK m \in Ids : msgs[m].role = "ai" /\ i <= runs[msgs[m].run].input
    BY DEF Answered, CoveredReplied
  <2>2. <<m, runs[msgs[m].run].input>> \in Replies
    BY <2>1 DEF Replies
  <2> QED
    BY <2>1, <2>2
<1>2. \A reply \in Replies : reply[2] <= cover
  BY DEF Replies, RepliesSettled
<1> QED
  BY <1>1, <1>2 DEF CoverAgrees

(* No message is covered without a reply, and no reply's input is still due *)
(* (the comment on CompleteRun).                                            *)
THEOREM ConversationCover == Spec => []CoverAgrees
  BY IInvImpliesCover, ConversationInvariant, PTL

-----------------------------------------------------------------------------
(* A lane that sleeps on a due message has a kick waiting or coming: it     *)
(* looks for messages after it takes a kick and before it sleeps.           *)
LEMMA StrandedStep ==
    ASSUME IInv, NothingStranded, [Next]_vars
    PROVE  NothingStranded'
<1> USE DEF NothingStranded
<1>1. callers \in Nat /\ kick \in BOOLEAN
  BY DEF IInv, TypeOK
<1>2. CASE Submit
  BY <1>1, <1>2 DEF Submit
<1>3. CASE RecordEvent
  <2>1. UNCHANGED <<cover, kick, callers, pc>> /\ AppendRow("event", 0)
    BY <1>3 DEF RecordEvent, lane
  <2>2. Unanswered' \subseteq Unanswered
    BY <2>1, AppendedRow DEF IInv, Unanswered, Asked
  <2> QED
    BY <2>1, <2>2
<1>4. CASE Quiet
  <2>1. Unanswered' = Unanswered
    <3>1. UNCHANGED store
      BY <1>4 DEF Quiet, Kick, WakeUp, NextDue, Sleep, Retry, Assemble, Turn, NextDueFails,
             CreateRunFails, AssembleFails, CompleteFails, FailFails, SkipCheck, Crash
    <3> QED
      BY <3>1, StoreUntouched
  <2>2. CASE Kick
    BY <2>2 DEF Kick
  <2>3. CASE NextDue
    BY <2>1, <2>3 DEF NextDue
  <2>4. CASE Sleep
    BY <2>1, <2>4 DEF Sleep
  <2>5. CASE ~(Kick \/ NextDue \/ Sleep)
    <3>1. pc' \notin {"drained", "wait"}
      BY <1>4, <2>5 DEF Quiet, WakeUp, Retry, Assemble, Turn, NextDueFails,
             CreateRunFails, AssembleFails, CompleteFails, FailFails, SkipCheck, Crash
    <3> QED
      BY <3>1
  <2> QED
    BY <2>2, <2>3, <2>4, <2>5
<1>5. CASE CreateRun \/ Complete \/ Fail
  BY <1>5 DEF CreateRun, Complete, Fail
<1>6. CASE Start
  BY <1>6 DEF Start
<1>7. CASE UNCHANGED vars
  BY <1>7 DEF vars, Unanswered, Asked, Ids
<1> QED
  BY <1>2, <1>3, <1>4, <1>5, <1>6, <1>7, NextSplit

(* No accepted message sleeps with the lane (SubmitUserMessage, runWorker,  *)
(* StartReady).                                                             *)
THEOREM ConversationNothingStranded == Spec => []NothingStranded
<1>1. Init => NothingStranded
  BY DEF Init, NothingStranded
<1> QED
  BY <1>1, StrandedStep, ConversationInvariant, PTL DEF Spec

-----------------------------------------------------------------------------
(* Runs that keep their inputs keep the replies.                            *)
LEMMA SameReplies ==
    ASSUME IInv, UNCHANGED <<msgs, cover>>,
           \A k \in DOMAIN runs : k \in DOMAIN runs' /\ runs'[k].input = runs[k].input
    PROVE  UNCHANGED <<Asked, Answered, Replies>>
<1>1. Asked' = Asked /\ Answered' = Answered
  BY DEF Asked, Answered, Ids
<1>2. \A m \in Ids : msgs[m].role = "ai" =>
         runs'[msgs'[m].run].input = runs[msgs[m].run].input
  BY DEF IInv, RepliesSettled
<1>3. Replies' = Replies
  BY <1>2 DEF Replies, Ids
<1> QED
  BY <1>1, <1>3

(* A commit is the abstract Answer: the first reply to its input, and the   *)
(* earlier due messages with it.                                            *)
LEMMA CommitAnswers ==
    ASSUME IInv, Complete \/ Fail
    PROVE  Box!Answer
<1> USE DEF IInv
<1>1. PICK status \in {"done", "failed"} : FinishRun(run, status)
  BY DEF Complete, Fail
<1>2. /\ AppendRow("ai", run) /\ Advance(input)
      /\ pc \in InRun
  BY DEF Complete, Fail, InRun
<1>3. /\ input \in Ids /\ msgs[input].role = "user" /\ input > cover
      /\ run \in 1..Len(runs) /\ run \in Nat /\ runs[run].input = input
      /\ runs \in Seq(Run) /\ input \in Asked \ Answered
  BY <1>2 DEF InputIsDue, Unanswered, Asked, Answered, TypeOK
<1>4. /\ Len(msgs) \in Nat
      /\ Ids = 1..Len(msgs)
      /\ Ids' = 1..(Len(msgs) + 1)
      /\ \A i \in Ids : msgs'[i] = msgs[i]
      /\ msgs'[Len(msgs) + 1].role = "ai"
      /\ msgs'[Len(msgs) + 1].run = run
  BY <1>2, <1>3, AppendedRow
<1>5. \A k \in DOMAIN runs : runs'[k].input = runs[k].input
  BY <1>1, <1>3, FinishedRun
<1>6. cover' = input /\ cover \in Nat
  BY <1>2, <1>3 DEF Advance, TypeOK
<1>7. Asked' = Asked
  BY <1>4 DEF Asked
<1>8. Answered' = Answered \cup {id \in Asked : id <= input}
  <2>1. \A id \in Asked : id <= cover => id <= input
    BY <1>3, <1>4, <1>6 DEF Asked
  <2> QED
    BY <1>6, <1>7, <2>1 DEF Answered
<1> DEFINE new == <<Len(msgs) + 1, input>>
<1>9. \A m \in Ids : msgs[m].role = "ai" =>
         runs'[msgs'[m].run].input = runs[msgs[m].run].input
  BY <1>4, <1>5 DEF RepliesSettled
<1>10. runs'[msgs'[Len(msgs) + 1].run].input = input
  BY <1>3, <1>4, <1>5
<1>11. {i \in Ids' : msgs'[i].role = "ai"} = {i \in Ids : msgs[i].role = "ai"} \cup {Len(msgs) + 1}
  BY <1>4
<1>12. Replies' = Replies \cup {new}
  BY <1>9, <1>10, <1>11 DEF Replies
<1>13. \A old \in Replies : old[1] # new[1]
  BY <1>4 DEF Replies
<1>14. new[2] = input /\ new \in Replies'
  BY <1>12
<1> HIDE DEF new
<1> QED
  BY <1>3, <1>7, <1>8, <1>12, <1>13, <1>14 DEF Box!Answer

LEMMA ConversationRefinesStep ==
    ASSUME IInv, [Next]_vars
    PROVE  [Box!Next]_(Box!vars)
<1>1. CASE Submit
  <2>1. AppendRow("user", 0) /\ UNCHANGED <<runs, cover>>
    BY <1>1 DEF Submit
  <2>2. /\ Len(msgs) \in Nat
        /\ Ids = 1..Len(msgs)
        /\ Ids' = 1..(Len(msgs) + 1)
        /\ \A i \in Ids : msgs'[i] = msgs[i]
        /\ msgs'[Len(msgs) + 1].role = "user"
    BY <2>1, AppendedRow DEF IInv
  <2>3. Asked' = Asked \cup {Len(msgs) + 1} /\ Len(msgs) + 1 \notin Asked
    BY <2>2 DEF Asked
  <2>4. Answered' = Answered
    <3>1. cover \in 0..Len(msgs) /\ ~(Len(msgs) + 1 <= cover)
      BY <2>2 DEF IInv, TypeOK
    <3> QED
      BY <2>1, <2>3, <3>1 DEF Answered
  <2>5. Replies' = Replies
    <3>1. {i \in Ids' : msgs'[i].role = "ai"} = {i \in Ids : msgs[i].role = "ai"}
      BY <2>2
    <3>2. \A m \in Ids : runs'[msgs'[m].run].input = runs[msgs[m].run].input
      BY <2>1, <2>2
    <3> QED
      BY <3>1, <3>2 DEF Replies
  <2>6. Box!Ask
    BY <2>3, <2>4, <2>5 DEF Box!Ask
  <2> QED
    BY <2>6 DEF Box!Next
<1>2. CASE RecordEvent
  <2>1. AppendRow("event", 0) /\ UNCHANGED <<runs, cover>>
    BY <1>2 DEF RecordEvent
  <2>2. /\ Ids = 1..Len(msgs) /\ Ids' = 1..(Len(msgs) + 1) /\ Len(msgs) \in Nat
        /\ \A i \in Ids : msgs'[i] = msgs[i]
        /\ msgs'[Len(msgs) + 1].role = "event"
    BY <2>1, AppendedRow DEF IInv
  <2>3. Asked' = Asked /\ Answered' = Answered
    BY <2>1, <2>2 DEF Asked, Answered
  <2>4. Replies' = Replies
    <3>1. {i \in Ids' : msgs'[i].role = "ai"} = {i \in Ids : msgs[i].role = "ai"}
      BY <2>2
    <3>2. \A m \in Ids : runs'[msgs'[m].run].input = runs[msgs[m].run].input
      BY <2>1, <2>2
    <3> QED
      BY <3>1, <3>2 DEF Replies
  <2> QED
    BY <2>3, <2>4 DEF Box!vars
<1>3. CASE Quiet \/ UNCHANGED vars
  <2>1. UNCHANGED store
    BY <1>3 DEF Quiet, Kick, WakeUp, NextDue, Sleep, Retry, Assemble, Turn, NextDueFails,
           CreateRunFails, AssembleFails, CompleteFails, FailFails, SkipCheck, Crash, vars, store
  <2>2. UNCHANGED <<Asked, Answered, Replies>>
    BY <2>1 DEF store, Asked, Answered, Replies, Ids
  <2> QED
    BY <2>2 DEF Box!vars
<1>4. CASE CreateRun \/ Start
  <2>1. UNCHANGED <<msgs, cover>> /\ runs \in Seq(Run) /\ input \in Nat
    BY <1>4 DEF CreateRun, Start, IInv, TypeOK
  <2>2. \A k \in DOMAIN runs : k \in DOMAIN runs' /\ runs'[k].input = runs[k].input
    <3>1. CASE CreateRun
      BY <2>1, <3>1, AppendedRun DEF CreateRun
    <3>2. CASE Start
      BY <2>1, <3>2, InterruptedRuns DEF Start
    <3> QED
      BY <1>4, <3>1, <3>2
  <2> QED
    BY <2>1, <2>2, SameReplies DEF Box!vars
<1>5. CASE Complete \/ Fail
  BY <1>5, CommitAnswers DEF Box!Next
<1> QED
  BY <1>1, <1>2, <1>3, <1>4, <1>5, NextSplit

(* The lane and its store implement the inbox: every accepted message gets  *)
(* one reply, over failures, retries and restarts (NextDueInput,            *)
(* CompleteRun, FailRun, FailRunningRuns).                                  *)
THEOREM ConversationImplementsInbox == Spec => InboxSpec
<1>1. Init => Box!Init
  BY DEF Init, Box!Init, Asked, Answered, Replies, Ids
<1> QED
  BY <1>1, ConversationRefinesStep, ConversationInvariant, PTL DEF Spec, InboxSpec, Box!Spec

-----------------------------------------------------------------------------
(* Children in the calls of their runs.                                     *)

ConversationRecords == [parent : Nat, created : Nat, covered : Nat]
AgentRuns == [conversation : ConversationIds, input : Nat, status : {"running", "done", "failed"}]
Frames == [at : {"idle", "model", "prompt", "create", "child"}, run : Nat, started : Nat, child : Nat,
           prompt : Nat, childRun : Nat]

DelegationTypeOK ==
    /\ now \in Nat
    /\ DOMAIN conversations \subseteq ConversationIds
    /\ conversations \in [DOMAIN conversations -> ConversationRecords]
    /\ agentRuns \in Seq(AgentRuns)
    /\ DOMAIN rows \subseteq 1..MaxTableRows
    /\ workers \subseteq ConversationIds
    /\ frames \in [ConversationIds -> Frames]

(* Lanes serve top-level conversations; without a lane nothing is executed. *)
LanesServeTopLevel == \A l \in workers : l \in DOMAIN conversations /\ conversations[l].parent = TopLevel
FramesNeedLanes == \A l \in ConversationIds \ workers : frames[l] = NoFrame
(* Parents were running when their children were created.                   *)
ParentsAreRuns == \A k \in DOMAIN conversations : conversations[k].parent <= Len(agentRuns)

FrameOK(l) ==
    /\ frames[l].at = "idle" => frames[l] = NoFrame
    /\ frames[l].at # "idle" =>
         /\ frames[l].run \in DOMAIN agentRuns
         /\ agentRuns[frames[l].run].conversation = l
         /\ agentRuns[frames[l].run].status = "running"
    /\ frames[l].at \in {"idle", "model"} => frames[l].child = 0
FramesOK == \A l \in ConversationIds : FrameOK(l)
(* A run that is executed has begun, and is not past its end.               *)
RunsAreInTime == \A l \in ConversationIds : frames[l].at # "idle" =>
                    frames[l].started <= now /\ now <= frames[l].started + RunTimeout
(* The children of a run that is executed are not older than the run.       *)
ChildrenAreYoung == \A l \in ConversationIds, k \in DOMAIN conversations :
    frames[l].at # "idle" /\ conversations[k].parent = frames[l].run =>
        conversations[k].created >= frames[l].started
CalledChildOK(l) ==
    /\ frames[l].at \in {"prompt", "create", "child"} =>
         /\ frames[l].child \in DOMAIN conversations
         /\ conversations[frames[l].child].parent = frames[l].run
    /\ frames[l].at = "child" =>
         /\ frames[l].childRun \in DOMAIN agentRuns
         /\ agentRuns[frames[l].childRun].conversation = frames[l].child
CalledChildrenOK == \A l \in ConversationIds : CalledChildOK(l)
(* The only running run of a lane's conversation is the one it executes.    *)
OneRunPerLane == \A r \in DOMAIN agentRuns :
    agentRuns[r].status = "running" /\ agentRuns[r].conversation \in workers =>
        frames[agentRuns[r].conversation].run = r

DelegationInv ==
    /\ DelegationTypeOK /\ LanesServeTopLevel /\ FramesNeedLanes /\ ParentsAreRuns /\ FramesOK
    /\ RunsAreInTime /\ ChildrenAreYoung /\ CalledChildrenOK /\ OneRunPerLane

-----------------------------------------------------------------------------
LEMMA NextIdIsNew ==
    ASSUME NEW table, DOMAIN table \subseteq 1..MaxTableRows
    PROVE  NextId(table) \in Nat \ {0} /\ NextId(table) \notin DOMAIN table
<1> DEFINE below == {i \in 1..MaxTableRows : \E k \in DOMAIN table : k >= i}
           n == NextId(table)
<1>1. IsFiniteSet(1..MaxTableRows) /\ below \in SUBSET (1..MaxTableRows)
  BY FS_Interval, DelegationAssumption
<1>2. IsFiniteSet(below) /\ Cardinality(below) \in Nat
  BY <1>1, FS_Subset, FS_CardinalityType
<1>3. n = 1 + Cardinality(below)
  BY DEF NextId
<1>4. n \in Nat /\ n > 0
  <2> HIDE DEF n, below
  <2> QED BY <1>2, <1>3
<1>5. ASSUME n \in DOMAIN table PROVE FALSE
  <2> HIDE DEF n
  <2>1. 1..n \in SUBSET below
    BY <1>4, <1>5, DelegationAssumption
  <2>2. Cardinality(1..n) = n
    BY <1>4, FS_Interval
  <2>3. Cardinality(1..n) <= Cardinality(below)
    <3> HIDE DEF below
    <3> QED BY <1>2, <2>1, FS_Subset
  <2> HIDE DEF below
  <2> QED BY <1>2, <1>3, <1>4, <2>2, <2>3
<1> QED BY <1>4, <1>5

(* What storing the outcome of a run changes: its status, and how far its   *)
(* conversation is covered.                                                 *)
Parentage == \A k \in DOMAIN conversations :
    conversations'[k].parent = conversations[k].parent /\ conversations'[k].created = conversations[k].created
RowsStay == DOMAIN rows' \subseteq 1..MaxTableRows

LEMMA RowAdded ==
    ASSUME DelegationTypeOK, NEW id, NEW user, AddRow(id, user)
    PROVE  RowsStay /\ NextId(rows) \in Nat
<1>1. NextId(rows) \in Nat \ {0} /\ DOMAIN rows \subseteq 1..MaxTableRows /\ MaxTableRows \in Nat
  BY NextIdIsNew, DelegationAssumption DEF DelegationTypeOK
<1>2. NextId(rows) < MaxTableRows /\ DOMAIN rows' = DOMAIN rows \cup {NextId(rows)}
  BY DEF AddRow
<1> QED BY <1>1, <1>2 DEF RowsStay

SettledRuns(own) ==
    /\ agentRuns' \in Seq(AgentRuns) /\ Len(agentRuns') = Len(agentRuns)
    /\ \A r \in DOMAIN agentRuns : agentRuns'[r].conversation = agentRuns[r].conversation
    /\ \A r \in DOMAIN agentRuns : r # own => agentRuns'[r].status = agentRuns[r].status
    /\ agentRuns'[own].status # "running"

LEMMA RunSettled ==
    ASSUME DelegationTypeOK, NEW own \in DOMAIN agentRuns, NEW status \in {"done", "failed"},
           SettleRun(own, status)
    PROVE  /\ SettledRuns(own) /\ Parentage /\ RowsStay
           /\ DOMAIN conversations' = DOMAIN conversations
           /\ conversations' \in [DOMAIN conversations -> ConversationRecords]
<1> DEFINE id == agentRuns[own].conversation
           asked == agentRuns[own].input
<1>1. /\ agentRuns' = [agentRuns EXCEPT ![own].status = status] /\ AddRow(id, FALSE)
      /\ conversations' = IF id \notin DOMAIN conversations \/ conversations[id].covered >= asked
                          THEN conversations ELSE [conversations EXCEPT ![id].covered = asked]
  BY DEF SettleRun
<1>2. RowsStay
  BY <1>1, RowAdded
<1>3. agentRuns \in Seq(AgentRuns) /\ agentRuns[own] \in AgentRuns /\ asked \in Nat
  <2>1. agentRuns \in Seq(AgentRuns)
    BY DEF DelegationTypeOK
  <2>2. agentRuns[own] \in AgentRuns
    BY <2>1
  <2> QED BY <2>1, <2>2 DEF AgentRuns
<1>4. SettledRuns(own)
  <2> DEFINE record == [agentRuns[own] EXCEPT !.status = status]
  <2>1. /\ record \in AgentRuns /\ record.status # "running"
        /\ record.conversation = agentRuns[own].conversation
    BY <1>3 DEF AgentRuns
  <2>2. agentRuns' = [agentRuns EXCEPT ![own] = record]
    BY <1>1
  <2> HIDE DEF record
  <2> QED BY <1>3, <2>1, <2>2 DEF SettledRuns
<1> HIDE DEF id, asked
<1>5. /\ DOMAIN conversations' = DOMAIN conversations
      /\ conversations' \in [DOMAIN conversations -> ConversationRecords] /\ Parentage
  BY <1>1, <1>3 DEF DelegationTypeOK, Parentage, ConversationRecords
<1> QED BY <1>2, <1>4, <1>5

LEMMA RunCreated ==
    ASSUME DelegationTypeOK, NEW id \in ConversationIds, NEW asked \in Nat, CreateAgentRun(id, asked)
    PROVE  /\ agentRuns' \in Seq(AgentRuns) /\ Len(agentRuns') = Len(agentRuns) + 1
           /\ \A r \in DOMAIN agentRuns : agentRuns'[r] = agentRuns[r]
           /\ agentRuns'[Len(agentRuns) + 1].conversation = id
           /\ agentRuns'[Len(agentRuns) + 1].status = "running"
           /\ id \in DOMAIN conversations
<1> DEFINE new == [conversation |-> id, input |-> asked, status |-> "running"]
<1>1. agentRuns' = Append(agentRuns, new) /\ agentRuns \in Seq(AgentRuns) /\ id \in DOMAIN conversations
  BY DEF CreateAgentRun, DelegationTypeOK
<1>2. new \in AgentRuns /\ new.conversation = id /\ new.status = "running"
  BY DEF AgentRuns
<1> HIDE DEF new
<1> QED BY <1>1, <1>2

-----------------------------------------------------------------------------
LEMMA DelegationInitial == DelegationInit => DelegationInv
<1> SUFFICES ASSUME DelegationInit PROVE DelegationInv
  OBVIOUS
<1>1. /\ DOMAIN conversations = {MainId} /\ conversations[MainId] = [parent |-> 0, created |-> 0, covered |-> 0]
      /\ now = 0 /\ agentRuns = <<>> /\ DOMAIN rows = {} /\ workers = {}
      /\ frames = [l \in ConversationIds |-> NoFrame] /\ MainId \in ConversationIds /\ RunTimeout \in Nat
  BY DelegationAssumption DEF DelegationInit, TopLevel, ConversationIds
<1>2. DelegationTypeOK
  BY <1>1 DEF DelegationTypeOK, ConversationRecords, Frames, NoFrame, DelegationInit
<1>3. LanesServeTopLevel /\ FramesNeedLanes /\ ParentsAreRuns /\ OneRunPerLane
  BY <1>1 DEF LanesServeTopLevel, FramesNeedLanes, ParentsAreRuns, OneRunPerLane
<1>4. FramesOK /\ RunsAreInTime /\ ChildrenAreYoung /\ CalledChildrenOK
  BY <1>1 DEF FramesOK, FrameOK, RunsAreInTime, ChildrenAreYoung, CalledChildrenOK, CalledChildOK, NoFrame
<1> QED BY <1>2, <1>3, <1>4 DEF DelegationInv

(* The service starts: what was running has failed, and the lanes serve the *)
(* active conversations.                                                    *)
LEMMA Ensured ==
    ASSUME NEW table, DOMAIN table \subseteq ConversationIds, table \in [DOMAIN table -> ConversationRecords],
           NEW id \in ConversationIds, now \in Nat,
           \A k \in DOMAIN table : table[k].parent <= Len(agentRuns), Len(agentRuns) \in Nat
    PROVE  LET e == EnsureConversation(table, id)
           IN  /\ DOMAIN e \subseteq ConversationIds /\ e \in [DOMAIN e -> ConversationRecords]
               /\ \A k \in DOMAIN e : e[k].parent <= Len(agentRuns)
BY DEF EnsureConversation, Conversation, ConversationRecords, TopLevel

LEMMA StartServiceKeeps == DelegationInv /\ StartService => DelegationInv'
<1> SUFFICES ASSUME DelegationInv, StartService PROVE DelegationInv'
  OBVIOUS
<1> DEFINE main == EnsureConversation(conversations, MainId)
           all == IF webOn' THEN EnsureConversation(main, WebId) ELSE main
<1>1. /\ conversations' = all /\ workers' = ActiveConversations(all) /\ workers = {}
      /\ UNCHANGED <<now, rows, frames>>
      /\ agentRuns' = [r \in DOMAIN agentRuns |->
                    IF agentRuns[r].status = "running"
                    THEN [agentRuns[r] EXCEPT !.status = "failed"] ELSE agentRuns[r]]
  BY DEF StartService, Down, FailRunningRuns
<1>2. DelegationTypeOK /\ FramesNeedLanes /\ ParentsAreRuns /\ Len(agentRuns) \in Nat
      /\ {MainId, WebId} \subseteq ConversationIds
  BY DelegationAssumption DEF DelegationInv, DelegationTypeOK, ConversationIds
<1>3. /\ DOMAIN main \subseteq ConversationIds /\ main \in [DOMAIN main -> ConversationRecords]
      /\ \A k \in DOMAIN main : main[k].parent <= Len(agentRuns)
  <2> HIDE DEF main
  <2>1. main = EnsureConversation(conversations, MainId)
    BY DEF main
  <2> QED BY <1>2, <2>1, Ensured DEF DelegationTypeOK, ParentsAreRuns
<1> HIDE DEF main
<1>4. /\ DOMAIN all \subseteq ConversationIds /\ all \in [DOMAIN all -> ConversationRecords]
      /\ \A k \in DOMAIN all : all[k].parent <= Len(agentRuns)
  BY <1>2, <1>3, Ensured DEF DelegationTypeOK
<1> HIDE DEF all
<1>5. /\ agentRuns' \in Seq(AgentRuns) /\ Len(agentRuns') = Len(agentRuns)
      /\ \A r \in DOMAIN agentRuns' : agentRuns'[r].status # "running"
  <2>1. agentRuns \in Seq(AgentRuns)
    BY <1>2 DEF DelegationTypeOK
  <2>2. \A r \in DOMAIN agentRuns : agentRuns'[r] \in AgentRuns /\ agentRuns'[r].status # "running"
    <3> TAKE r \in DOMAIN agentRuns
    <3>1. agentRuns[r] \in AgentRuns
      BY <2>1
    <3>2. agentRuns'[r] = IF agentRuns[r].status = "running"
                          THEN [agentRuns[r] EXCEPT !.status = "failed"] ELSE agentRuns[r]
      BY <1>1
    <3> QED BY <3>1, <3>2 DEF AgentRuns
  <2>3. DOMAIN agentRuns' = 1..Len(agentRuns) /\ agentRuns' = [r \in 1..Len(agentRuns) |-> agentRuns'[r]]
    BY <1>1, <2>1
  <2> QED BY <1>2, <2>1, <2>2, <2>3
<1>6. \A l \in ConversationIds : frames'[l] = NoFrame
  BY <1>1, <1>2 DEF FramesNeedLanes
<1>7. workers' \subseteq ConversationIds /\ LanesServeTopLevel'
  BY <1>1, <1>4 DEF ActiveConversations, LanesServeTopLevel
<1>8. DelegationTypeOK'
  BY <1>1, <1>2, <1>4, <1>5, <1>7 DEF DelegationTypeOK
<1>9. FramesNeedLanes' /\ ParentsAreRuns' /\ OneRunPerLane'
  BY <1>1, <1>4, <1>5, <1>6 DEF FramesNeedLanes, ParentsAreRuns, OneRunPerLane
<1>10. FramesOK' /\ RunsAreInTime' /\ ChildrenAreYoung' /\ CalledChildrenOK'
  BY <1>6 DEF FramesOK, FrameOK, RunsAreInTime, ChildrenAreYoung, CalledChildrenOK, CalledChildOK, NoFrame
<1> QED BY <1>7, <1>8, <1>9, <1>10 DEF DelegationInv

LEMMA StopServiceKeeps == DelegationInv /\ StopService => DelegationInv'
<1> SUFFICES ASSUME DelegationInv, StopService PROVE DelegationInv'
  OBVIOUS
<1>1. /\ workers' = {} /\ frames' = [l \in ConversationIds |-> NoFrame]
      /\ UNCHANGED <<now, conversations, agentRuns, rows>>
  BY DEF StopService
<1>2. DelegationTypeOK' /\ ParentsAreRuns'
  BY <1>1 DEF DelegationInv, DelegationTypeOK, Frames, NoFrame, ParentsAreRuns
<1>3. LanesServeTopLevel' /\ FramesNeedLanes' /\ OneRunPerLane'
  BY <1>1 DEF LanesServeTopLevel, FramesNeedLanes, OneRunPerLane
<1>4. FramesOK' /\ RunsAreInTime' /\ ChildrenAreYoung' /\ CalledChildrenOK'
  BY <1>1 DEF FramesOK, FrameOK, RunsAreInTime, ChildrenAreYoung, CalledChildrenOK, CalledChildOK, NoFrame
<1> QED BY <1>2, <1>3, <1>4 DEF DelegationInv

-----------------------------------------------------------------------------
(* A step of a call: of the frames only the caller's changes, which goes on *)
(* executing its run; runs remain what they are, and a conversation that is *)
(* new belongs to that run.                                                 *)
RunsRemain ==
    /\ Len(agentRuns) <= Len(agentRuns')
    /\ \A r \in DOMAIN agentRuns : agentRuns'[r].conversation = agentRuns[r].conversation
    /\ \A r \in DOMAIN agentRuns' :
         agentRuns'[r].status = "running" /\ agentRuns'[r].conversation \in workers =>
             r \in DOMAIN agentRuns /\ agentRuns[r].status = "running"
    /\ \A k \in ConversationIds : frames[k].at # "idle" => agentRuns'[frames[k].run].status = "running"
ConversationsRemain(own) ==
    /\ \A k \in DOMAIN conversations :
         /\ k \in DOMAIN conversations' /\ conversations'[k].parent = conversations[k].parent
         /\ conversations'[k].created = conversations[k].created
    /\ \A k \in DOMAIN conversations' \ DOMAIN conversations :
         conversations'[k].parent = own /\ conversations'[k].created = now
CallGoesOn(l) ==
    /\ frames'[l].at # "idle" /\ frames'[l].run = frames[l].run /\ frames'[l].started = frames[l].started
    /\ frames'[l].at = "model" => frames'[l].child = 0
    /\ \A k \in ConversationIds \ {l} : frames'[k] = frames[k]

LEMMA CallStepKeeps ==
    ASSUME DelegationInv, NEW l \in ConversationIds, frames[l].at # "idle", now' = now, workers' = workers,
           DelegationTypeOK', RunsRemain, ConversationsRemain(frames[l].run), CallGoesOn(l),
           CalledChildOK(l)'
    PROVE  DelegationInv'
<1>1. /\ agentRuns \in Seq(AgentRuns) /\ agentRuns' \in Seq(AgentRuns) /\ now \in Nat
      /\ frames \in [ConversationIds -> Frames] /\ frames' \in [ConversationIds -> Frames]
      /\ RunTimeout \in Nat /\ workers \subseteq ConversationIds
      /\ conversations \in [DOMAIN conversations -> ConversationRecords]
  BY DelegationAssumption DEF DelegationInv, DelegationTypeOK
<1>2. \A k \in ConversationIds : /\ frames'[k].run = frames[k].run
                                 /\ frames'[k].started = frames[k].started
                                 /\ frames'[k].at = "idle" <=> frames[k].at = "idle"
  BY DEF CallGoesOn
<1>3. frames[l].run \in DOMAIN agentRuns /\ l \in workers
  BY DEF DelegationInv, FramesOK, FrameOK, FramesNeedLanes, NoFrame
<1>4. LanesServeTopLevel'
  BY DEF DelegationInv, LanesServeTopLevel, ConversationsRemain
<1>5. FramesNeedLanes'
  BY <1>3 DEF DelegationInv, FramesNeedLanes, CallGoesOn
<1>6. ParentsAreRuns'
  BY <1>1, <1>3 DEF DelegationInv, ParentsAreRuns, ConversationsRemain, RunsRemain, ConversationRecords
<1>7. FramesOK'
  <2> SUFFICES ASSUME NEW k \in ConversationIds PROVE FrameOK(k)'
    BY DEF FramesOK
  <2>1. FrameOK(k)
    BY DEF DelegationInv, FramesOK
  <2>2. frames[k].at # "idle" =>
          /\ frames'[k].run \in DOMAIN agentRuns' /\ agentRuns'[frames'[k].run].conversation = k
          /\ agentRuns'[frames'[k].run].status = "running"
    BY <1>1, <1>2, <2>1 DEF FrameOK, RunsRemain
  <2>3. /\ frames'[k].at = "idle" => frames'[k] = NoFrame
        /\ frames'[k].at \in {"idle", "model"} => frames'[k].child = 0
    BY <2>1 DEF FrameOK, CallGoesOn
  <2> QED BY <1>2, <2>2, <2>3 DEF FrameOK
<1>8. RunsAreInTime'
  BY <1>2 DEF DelegationInv, RunsAreInTime
<1>9. ChildrenAreYoung'
  BY <1>1, <1>2 DEF DelegationInv, ChildrenAreYoung, RunsAreInTime, ConversationsRemain, ConversationRecords, Frames
<1>10. CalledChildrenOK'
  <2> SUFFICES ASSUME NEW k \in ConversationIds, k # l PROVE CalledChildOK(k)'
    BY DEF CalledChildrenOK
  <2>1. CalledChildOK(k) /\ frames'[k] = frames[k]
    BY DEF DelegationInv, CalledChildrenOK, CallGoesOn
  <2>2. frames[k].at \in {"prompt", "create", "child"} =>
          frames[k].child \in DOMAIN conversations' /\ conversations'[frames[k].child].parent = frames[k].run
    BY <2>1 DEF CalledChildOK, ConversationsRemain
  <2>3. frames[k].at = "child" =>
          /\ frames[k].childRun \in DOMAIN agentRuns'
          /\ agentRuns'[frames[k].childRun].conversation = frames[k].child
    BY <1>1, <2>1 DEF CalledChildOK, RunsRemain
  <2> QED BY <2>1, <2>2, <2>3 DEF CalledChildOK
<1>11. OneRunPerLane'
  BY <1>1, <1>2 DEF DelegationInv, OneRunPerLane, RunsRemain
<1> QED BY <1>4, <1>5, <1>6, <1>7, <1>8, <1>9, <1>10, <1>11 DEF DelegationInv

(* A run in a call has a child, whose conversation has no lane.             *)
LEMMA Called ==
    ASSUME DelegationInv, NEW l \in ConversationIds, frames[l].at \in {"prompt", "create", "child"}
    PROVE  /\ frames[l].run \in DOMAIN agentRuns /\ l \in workers
           /\ frames[l].child \in DOMAIN conversations /\ frames[l].child \notin workers
           /\ frames[l].child \in ConversationIds
           /\ conversations[frames[l].child].parent = frames[l].run
<1>1. /\ frames[l].run \in DOMAIN agentRuns /\ l \in workers
      /\ frames[l].child \in DOMAIN conversations /\ conversations[frames[l].child].parent = frames[l].run
  BY DEF DelegationInv, FramesOK, FrameOK, FramesNeedLanes, NoFrame, CalledChildrenOK, CalledChildOK
<1>2. frames[l].run # TopLevel
  BY <1>1 DEF DelegationInv, DelegationTypeOK, TopLevel
<1> QED BY <1>1, <1>2 DEF DelegationInv, LanesServeTopLevel, DelegationTypeOK

LEMMA Executes ==
    ASSUME DelegationInv
    PROVE  /\ agentRuns \in Seq(AgentRuns) /\ frames \in [ConversationIds -> Frames]
           /\ \A k \in ConversationIds : frames[k].at # "idle" =>
                /\ frames[k].run \in DOMAIN agentRuns /\ agentRuns[frames[k].run].status = "running"
                /\ agentRuns[frames[k].run].conversation = k /\ k \in workers
BY DEF DelegationInv, DelegationTypeOK, FramesOK, FrameOK, FramesNeedLanes, NoFrame

LEMMA CallMoves ==
    ASSUME NEW l \in ConversationIds, NEW f \in Frames, frames \in [ConversationIds -> Frames],
           frames' = [frames EXCEPT ![l] = f],
           f.run = frames[l].run, f.started = frames[l].started, f.at # "idle",
           f.at = "model" => f.child = 0
    PROVE  frames' \in [ConversationIds -> Frames] /\ CallGoesOn(l)
BY DEF CallGoesOn

LEMMA SubmitKeeps == ASSUME DelegationInv, NEW l \in ConversationIds, SubmitUserMessage(l) PROVE DelegationInv'
<1>1. UNCHANGED <<now, conversations, agentRuns, workers, frames>> /\ AddRow(l, TRUE)
  BY DEF SubmitUserMessage
<1>2. DOMAIN rows' \subseteq 1..MaxTableRows
  BY <1>1, RowAdded DEF DelegationInv, RowsStay
<1> QED BY <1>1, <1>2
     DEF DelegationInv, DelegationTypeOK, LanesServeTopLevel, FramesNeedLanes, ParentsAreRuns, FramesOK,
         FrameOK, RunsAreInTime, ChildrenAreYoung, CalledChildrenOK, CalledChildOK, OneRunPerLane

LEMMA DelegateKeeps == ASSUME DelegationInv, NEW l \in ConversationIds, Delegate(l) PROVE DelegationInv'
<1> DEFINE id == NextId(conversations)
           own == frames[l].run
<1>1. /\ frames[l].at = "model" /\ id \in ConversationIds /\ UNCHANGED <<now, agentRuns, rows, workers>>
      /\ conversations' = [k \in DOMAIN conversations \cup {id} |->
                            IF k = id THEN [parent |-> own, created |-> now, covered |-> 0] ELSE conversations[k]]
      /\ frames' = [frames EXCEPT ![l].at = "prompt", ![l].child = id]
  BY DEF Delegate, Calling, ChildTools, Conversation
<1>2. id \notin DOMAIN conversations
  BY NextIdIsNew, DelegationAssumption DEF DelegationInv, DelegationTypeOK, ConversationIds
<1> HIDE DEF id
<1>3. own \in Nat /\ own \in DOMAIN agentRuns
  BY <1>1, Executes DEF Frames
<1>4. ConversationsRemain(own)
  BY <1>1, <1>2 DEF ConversationsRemain
<1>5. /\ DOMAIN conversations' \subseteq ConversationIds
      /\ conversations' \in [DOMAIN conversations' -> ConversationRecords]
  BY <1>1, <1>3 DEF DelegationInv, DelegationTypeOK, ConversationRecords
<1>6. frames' \in [ConversationIds -> Frames] /\ CallGoesOn(l)
  <2> DEFINE f == [frames[l] EXCEPT !.at = "prompt", !.child = id]
  <2>1. frames' = [frames EXCEPT ![l] = f] /\ frames \in [ConversationIds -> Frames]
    BY <1>1, Executes
  <2>2. /\ f \in Frames /\ f.run = frames[l].run /\ f.started = frames[l].started /\ f.at # "idle"
        /\ f.at = "model" => f.child = 0
    BY <1>1, <2>1 DEF Frames, ConversationIds
  <2> HIDE DEF f
  <2> QED BY <2>1, <2>2, CallMoves
<1>7. DelegationTypeOK'
  BY <1>1, <1>5, <1>6 DEF DelegationInv, DelegationTypeOK
<1>8. CalledChildOK(l)'
  BY <1>1, <1>2, Executes DEF CalledChildOK, Frames
<1>9. RunsRemain
  BY <1>1, Executes DEF RunsRemain
<1> QED BY <1>1, <1>4, <1>6, <1>7, <1>8, <1>9, CallStepKeeps

LEMMA ContinueKeeps == ASSUME DelegationInv, NEW l \in ConversationIds, DelegateContinue(l) PROVE DelegationInv'
<1>1. PICK c \in DOMAIN conversations :
        /\ frames[l].at = "model" /\ UNCHANGED <<now, conversations, agentRuns, rows, workers>>
        /\ conversations[c].parent = frames[l].run
        /\ frames' = [frames EXCEPT ![l].at = "prompt", ![l].child = c]
  BY DEF DelegateContinue, Calling, ChildTools
<1>2. c \in ConversationIds /\ c \in Nat
  BY DelegationAssumption DEF DelegationInv, DelegationTypeOK, ConversationIds
<1>3. frames' \in [ConversationIds -> Frames] /\ CallGoesOn(l)
  <2> DEFINE f == [frames[l] EXCEPT !.at = "prompt", !.child = c]
  <2>1. frames' = [frames EXCEPT ![l] = f] /\ frames \in [ConversationIds -> Frames]
    BY <1>1, Executes
  <2>2. /\ f \in Frames /\ f.run = frames[l].run /\ f.started = frames[l].started /\ f.at # "idle"
        /\ f.at = "model" => f.child = 0
    BY <1>2, <2>1 DEF Frames
  <2> HIDE DEF f
  <2> QED BY <2>1, <2>2, CallMoves
<1>4. DelegationTypeOK'
  BY <1>1, <1>3 DEF DelegationInv, DelegationTypeOK
<1>5. CalledChildOK(l)'
  BY <1>1, Executes DEF CalledChildOK, Frames
<1>6. RunsRemain /\ ConversationsRemain(frames[l].run)
  BY <1>1, Executes DEF RunsRemain, ConversationsRemain
<1> QED BY <1>1, <1>3, <1>4, <1>5, <1>6, CallStepKeeps

LEMMA AppendPromptKeeps == ASSUME DelegationInv, NEW l \in ConversationIds, AppendPrompt(l) PROVE DelegationInv'
<1> DEFINE asked == NextId(rows)
<1>1. /\ frames[l].at = "prompt" /\ UNCHANGED <<now, conversations, agentRuns, workers>>
      /\ AddRow(frames[l].child, TRUE)
      /\ frames' = [frames EXCEPT ![l].at = "create", ![l].prompt = asked]
  BY DEF AppendPrompt
<1>2. asked \in Nat /\ DOMAIN rows' \subseteq 1..MaxTableRows
  BY <1>1, RowAdded DEF DelegationInv, RowsStay
<1> HIDE DEF asked
<1>3. frames' \in [ConversationIds -> Frames] /\ CallGoesOn(l)
  <2> DEFINE f == [frames[l] EXCEPT !.at = "create", !.prompt = asked]
  <2>1. frames' = [frames EXCEPT ![l] = f] /\ frames \in [ConversationIds -> Frames]
    BY <1>1, Executes
  <2>2. /\ f \in Frames /\ f.run = frames[l].run /\ f.started = frames[l].started /\ f.at # "idle"
        /\ f.at = "model" => f.child = 0
    BY <1>2, <2>1 DEF Frames
  <2> HIDE DEF f
  <2> QED BY <2>1, <2>2, CallMoves
<1>4. DelegationTypeOK'
  BY <1>1, <1>2, <1>3 DEF DelegationInv, DelegationTypeOK
<1>5. CalledChildOK(l)'
  BY <1>1, Called, Executes DEF CalledChildOK, Frames
<1>6. RunsRemain /\ ConversationsRemain(frames[l].run)
  BY <1>1, Executes DEF RunsRemain, ConversationsRemain
<1> QED BY <1>1, <1>3, <1>4, <1>5, <1>6, CallStepKeeps

(* The child's run belongs to a conversation without a lane.                *)
LEMMA CreateChildRunKeeps == ASSUME DelegationInv, NEW l \in ConversationIds, CreateChildRun(l) PROVE DelegationInv'
<1> DEFINE n == Len(agentRuns)
           child == frames[l].child
<1>1. /\ frames[l].at = "create" /\ UNCHANGED <<now, conversations, rows, workers>>
      /\ CreateAgentRun(child, frames[l].prompt)
      /\ frames' = [frames EXCEPT ![l].at = "child", ![l].childRun = n + 1]
  BY DEF CreateChildRun
<1>2. child \in ConversationIds /\ child \notin workers /\ frames[l].prompt \in Nat
  BY <1>1, Called, Executes DEF Frames
<1>3. /\ agentRuns' \in Seq(AgentRuns) /\ Len(agentRuns') = n + 1
      /\ \A r \in DOMAIN agentRuns : agentRuns'[r] = agentRuns[r]
      /\ agentRuns'[n + 1].conversation = child
  BY <1>1, <1>2, RunCreated DEF DelegationInv
<1>4. n \in Nat /\ n + 1 \in Nat /\ DOMAIN agentRuns = 1..n /\ DOMAIN agentRuns' = 1..(n + 1)
  BY <1>3, Executes
<1> HIDE DEF n
<1>5. frames' \in [ConversationIds -> Frames] /\ CallGoesOn(l)
  <2> DEFINE new == n + 1
             f == [frames[l] EXCEPT !.at = "child", !.childRun = new]
  <2>1. frames' = [frames EXCEPT ![l] = f] /\ frames \in [ConversationIds -> Frames]
    BY <1>1, Executes
  <2>2. /\ f \in Frames /\ f.run = frames[l].run /\ f.started = frames[l].started /\ f.at # "idle"
        /\ f.at = "model" => f.child = 0
    <3>1. new \in Nat
      BY <1>4
    <3> HIDE DEF new
    <3> QED BY <2>1, <3>1 DEF Frames
  <2> HIDE DEF f
  <2> QED BY <2>1, <2>2, CallMoves
<1>6. DelegationTypeOK'
  BY <1>1, <1>3, <1>5 DEF DelegationInv, DelegationTypeOK
<1>7. CalledChildOK(l)'
  BY <1>1, <1>3, <1>4, Called, Executes DEF CalledChildOK, Frames
<1>8. RunsRemain
  BY <1>2, <1>3, <1>4, Executes DEF RunsRemain, n
<1>9. ConversationsRemain(frames[l].run)
  BY <1>1 DEF ConversationsRemain
<1> QED BY <1>1, <1>5, <1>6, <1>7, <1>8, <1>9, CallStepKeeps

LEMMA FinishChildKeeps == ASSUME DelegationInv, NEW l \in ConversationIds, FinishChild(l) PROVE DelegationInv'
<1> DEFINE own == frames[l].childRun
<1>1. PICK status \in {"done", "failed"} :
        /\ frames[l].at = "child" /\ SettleRun(own, status) /\ UNCHANGED <<now, workers>>
        /\ frames' = [frames EXCEPT ![l].at = "model", ![l].child = 0, ![l].prompt = 0, ![l].childRun = 0]
  BY DEF FinishChild
<1>2. own \in DOMAIN agentRuns /\ agentRuns[own].conversation \notin workers
  BY <1>1, Called DEF DelegationInv, CalledChildrenOK, CalledChildOK
<1>3. /\ SettledRuns(own) /\ Parentage /\ RowsStay /\ DOMAIN conversations' = DOMAIN conversations
      /\ conversations' \in [DOMAIN conversations -> ConversationRecords]
  BY <1>1, <1>2, RunSettled DEF DelegationInv
<1> HIDE DEF own
<1>4. frames' \in [ConversationIds -> Frames] /\ CallGoesOn(l)
  <2> DEFINE f == [frames[l] EXCEPT !.at = "model", !.child = 0, !.prompt = 0, !.childRun = 0]
  <2>1. frames' = [frames EXCEPT ![l] = f] /\ frames \in [ConversationIds -> Frames]
    BY <1>1, Executes
  <2>2. /\ f \in Frames /\ f.run = frames[l].run /\ f.started = frames[l].started /\ f.at # "idle"
        /\ f.at = "model" => f.child = 0
    BY <2>1 DEF Frames
  <2> HIDE DEF f
  <2> QED BY <2>1, <2>2, CallMoves
<1>5. DelegationTypeOK'
  BY <1>1, <1>3, <1>4 DEF DelegationInv, DelegationTypeOK, SettledRuns, RowsStay
<1>6. CalledChildOK(l)'
  BY <1>1, Executes DEF CalledChildOK, Frames
<1>7. RunsRemain
  <2>1. \A k \in ConversationIds : frames[k].at # "idle" => frames[k].run # own
    BY <1>2, Executes
  <2>2. DOMAIN agentRuns' = DOMAIN agentRuns
    BY <1>3, Executes DEF SettledRuns
  <2> QED BY <1>2, <1>3, <2>1, <2>2, Executes DEF RunsRemain, SettledRuns
<1>8. ConversationsRemain(frames[l].run)
  BY <1>3 DEF ConversationsRemain, Parentage
<1> QED BY <1>1, <1>4, <1>5, <1>6, <1>7, <1>8, CallStepKeeps

-----------------------------------------------------------------------------
(* The steps of a lane, time, and the prune.                                *)
LEMMA NewestOfSome ==
    ASSUME NEW S, S \subseteq 1..MaxTableRows, S # {}
    PROVE  \E m \in S : \A k \in S : k <= m
<1> DEFINE less == {pair \in Nat \X Nat : pair[1] < pair[2]}
           left == {MaxTableRows - m : m \in S}
<1>1. IsWellFoundedOn(less, Nat)
  BY NatLessThanWellFounded DEF OpToRel
<1>2. MaxTableRows \in Nat /\ S \subseteq Nat /\ \A m \in S : m <= MaxTableRows
  BY DelegationAssumption
<1>3. left \subseteq Nat /\ left # {} /\ \A m \in S : MaxTableRows - m \in left
  <2>1. \A m \in S : MaxTableRows - m \in Nat
    BY <1>2
  <2>2. \A m \in S : MaxTableRows - m \in left
    OBVIOUS
  <2>3. \A i \in left : \E m \in S : i = MaxTableRows - m
    OBVIOUS
  <2> HIDE DEF left
  <2> QED BY <2>1, <2>2, <2>3
<1>4. \E i \in left : \A j \in left : <<j, i>> \notin less
  <2> HIDE DEF less, left
  <2> QED BY <1>1, <1>3, WFMin
<1>5. \A i, j \in Nat : <<j, i>> \notin less => i <= j
  OBVIOUS
<1> HIDE DEF less
<1>6. \E i \in left : \A j \in left : i <= j
  <2> HIDE DEF left
  <2> QED BY <1>3, <1>4, <1>5
<1>7. PICK m \in S : \A j \in left : MaxTableRows - m <= j
  BY <1>6
<1>8. \A k \in S : k <= m
  <2>1. \A k \in S : MaxTableRows - m <= MaxTableRows - k
    <3> HIDE DEF left
    <3> QED BY <1>3, <1>7
  <2> HIDE DEF left
  <2> QED BY <1>2, <2>1
<1> QED BY <1>8

LEMMA ExecuteRunKeeps == ASSUME DelegationInv, NEW l \in ConversationIds, ExecuteRun(l) PROVE DelegationInv'
<1> DEFINE n == Len(agentRuns)
           asked == CHOOSE m \in Due(l) : \A k \in Due(l) : k <= m
           new == n + 1
           f == [NoFrame EXCEPT !.at = "model", !.run = new, !.started = now]
<1>1. /\ l \in workers /\ frames[l].at = "idle" /\ UNCHANGED <<now, conversations, rows, workers>>
      /\ CreateAgentRun(l, asked) /\ frames' = [frames EXCEPT ![l] = f] /\ Due(l) # {}
  BY DEF ExecuteRun
<1>2. asked \in Nat
  <2>1. Due(l) \subseteq 1..MaxTableRows
    BY DEF Due, DelegationInv, DelegationTypeOK
  <2>2. \E m \in Due(l) : \A k \in Due(l) : k <= m
    BY <1>1, <2>1, NewestOfSome
  <2>3. asked \in Due(l)
    BY <2>2
  <2> QED BY <2>1, <2>3
<1> HIDE DEF asked
<1>3. /\ agentRuns' \in Seq(AgentRuns) /\ Len(agentRuns') = new
      /\ \A r \in DOMAIN agentRuns : agentRuns'[r] = agentRuns[r]
      /\ agentRuns'[new].conversation = l /\ agentRuns'[new].status = "running"
  BY <1>1, <1>2, RunCreated DEF DelegationInv
<1>4. /\ n \in Nat /\ new \in Nat /\ DOMAIN agentRuns = 1..n /\ DOMAIN agentRuns' = 1..new
      /\ DOMAIN agentRuns' = DOMAIN agentRuns \cup {new} /\ new \notin DOMAIN agentRuns
      /\ now \in Nat /\ RunTimeout \in Nat
  BY <1>3, Executes, DelegationAssumption DEF DelegationInv, DelegationTypeOK
<1>5. \A k \in DOMAIN conversations : conversations[k].parent < new /\ conversations[k].parent <= n
  BY <1>4 DEF DelegationInv, DelegationTypeOK, ParentsAreRuns, ConversationRecords
<1> HIDE DEF n, new
<1>6. /\ f \in Frames /\ f.run = new /\ f.started = now /\ f.at = "model" /\ f.child = 0
  BY <1>4 DEF Frames, NoFrame
<1> HIDE DEF f
<1>7. frames' \in [ConversationIds -> Frames] /\ frames'[l] = f /\ \A k \in ConversationIds \ {l} : frames'[k] = frames[k]
  BY <1>1, <1>6, Executes
<1>8. DelegationTypeOK'
  BY <1>1, <1>3, <1>7 DEF DelegationInv, DelegationTypeOK
<1>9. LanesServeTopLevel' /\ FramesNeedLanes'
  BY <1>1, <1>7 DEF DelegationInv, LanesServeTopLevel, FramesNeedLanes
<1>10. ParentsAreRuns'
  BY <1>1, <1>3, <1>4, <1>5 DEF ParentsAreRuns, DelegationInv, DelegationTypeOK, ConversationRecords
<1>11. FramesOK'
  <2> SUFFICES ASSUME NEW k \in ConversationIds PROVE FrameOK(k)'
    BY DEF FramesOK
  <2>1. FrameOK(k)
    BY DEF DelegationInv, FramesOK
  <2>2. CASE k = l
    BY <1>3, <1>4, <1>6, <1>7, <2>2 DEF FrameOK
  <2>3. CASE k # l
    <3>1. frames'[k] = frames[k]
      BY <1>7, <2>3
    <3>2. frames[k].at # "idle" =>
            frames[k].run \in DOMAIN agentRuns' /\ agentRuns'[frames[k].run] = agentRuns[frames[k].run]
      BY <1>3, <1>4, <2>1 DEF FrameOK
    <3> QED BY <2>1, <3>1, <3>2 DEF FrameOK
  <2> QED BY <2>2, <2>3
<1>12. RunsAreInTime'
  BY <1>1, <1>4, <1>6, <1>7 DEF DelegationInv, RunsAreInTime
<1>13. ChildrenAreYoung'
  BY <1>1, <1>4, <1>5, <1>6, <1>7 DEF DelegationInv, DelegationTypeOK, ConversationRecords, ChildrenAreYoung
<1>14. CalledChildrenOK'
  <2> SUFFICES ASSUME NEW k \in ConversationIds PROVE CalledChildOK(k)'
    BY DEF CalledChildrenOK
  <2>1. CalledChildOK(k)
    BY DEF DelegationInv, CalledChildrenOK
  <2> QED BY <1>1, <1>3, <1>4, <1>6, <1>7, <2>1 DEF CalledChildOK
<1>15. OneRunPerLane'
  <2> SUFFICES ASSUME NEW r \in DOMAIN agentRuns', agentRuns'[r].status = "running",
                      agentRuns'[r].conversation \in workers
               PROVE  frames'[agentRuns'[r].conversation].run = r
    BY <1>1 DEF OneRunPerLane
  <2>1. CASE r = new
    BY <1>3, <1>6, <1>7, <2>1
  <2>2. CASE r \in DOMAIN agentRuns
    <3>1. frames[agentRuns[r].conversation].run = r /\ agentRuns'[r] = agentRuns[r]
      BY <1>3, <2>2 DEF DelegationInv, OneRunPerLane
    <3>2. r # 0
      BY <1>4, <2>2
    <3>3. agentRuns[r].conversation # l
      BY <1>1, <3>1, <3>2 DEF DelegationInv, FramesOK, FrameOK, NoFrame
    <3> QED BY <1>7, <3>1, <3>3 DEF DelegationInv, DelegationTypeOK
  <2> QED BY <1>4, <2>1, <2>2
<1> QED BY <1>8, <1>9, <1>10, <1>11, <1>12, <1>13, <1>14, <1>15 DEF DelegationInv

(* The run that a lane executes ends, in time or with its time.             *)
LEMMA RunEndsKeeps ==
    ASSUME DelegationInv, NEW l \in ConversationIds, frames[l].at # "idle", NEW status \in {"done", "failed"},
           SettleRun(frames[l].run, status), frames' = [frames EXCEPT ![l] = NoFrame],
           UNCHANGED <<now, workers>>
    PROVE  DelegationInv'
<1> DEFINE own == frames[l].run
<1>1. own \in DOMAIN agentRuns /\ agentRuns[own].conversation = l
  BY Executes
<1>2. /\ SettledRuns(own) /\ Parentage /\ RowsStay /\ DOMAIN conversations' = DOMAIN conversations
      /\ conversations' \in [DOMAIN conversations -> ConversationRecords]
  BY <1>1, RunSettled DEF DelegationInv
<1> HIDE DEF own
<1>3. NoFrame \in Frames
  BY DEF NoFrame, Frames
<1>4. frames' \in [ConversationIds -> Frames] /\ frames'[l] = NoFrame /\ \A k \in ConversationIds \ {l} : frames'[k] = frames[k]
  BY <1>3, Executes
<1>5. DelegationTypeOK'
  BY <1>2, <1>4 DEF DelegationInv, DelegationTypeOK, SettledRuns, RowsStay
<1>6. LanesServeTopLevel' /\ FramesNeedLanes'
  BY <1>2, <1>4 DEF DelegationInv, LanesServeTopLevel, FramesNeedLanes, Parentage
<1>7. DOMAIN agentRuns' = DOMAIN agentRuns /\ Len(agentRuns') = Len(agentRuns)
  BY <1>2, Executes DEF SettledRuns
<1>8. ParentsAreRuns'
  BY <1>2, <1>7 DEF ParentsAreRuns, DelegationInv, Parentage
<1>9. \A k \in ConversationIds \ {l} : frames[k].at # "idle" => frames[k].run # own
  BY <1>1, Executes
<1>10. FramesOK'
  <2> SUFFICES ASSUME NEW k \in ConversationIds, k # l PROVE FrameOK(k)'
    BY <1>4 DEF FramesOK, FrameOK, NoFrame
  <2>1. FrameOK(k) /\ frames'[k] = frames[k]
    BY <1>4 DEF DelegationInv, FramesOK
  <2> QED BY <1>2, <1>7, <1>9, <2>1 DEF FrameOK, SettledRuns
<1>11. RunsAreInTime' /\ ChildrenAreYoung'
  BY <1>2, <1>4 DEF DelegationInv, RunsAreInTime, ChildrenAreYoung, Parentage, NoFrame
<1>12. CalledChildrenOK'
  <2> SUFFICES ASSUME NEW k \in ConversationIds, k # l PROVE CalledChildOK(k)'
    BY <1>4 DEF CalledChildrenOK, CalledChildOK, NoFrame
  <2>1. CalledChildOK(k) /\ frames'[k] = frames[k]
    BY <1>4 DEF DelegationInv, CalledChildrenOK
  <2> QED BY <1>2, <1>7, <2>1 DEF CalledChildOK, SettledRuns, Parentage
<1>13. OneRunPerLane'
  <2> SUFFICES ASSUME NEW r \in DOMAIN agentRuns', agentRuns'[r].status = "running",
                      agentRuns'[r].conversation \in workers
               PROVE  frames'[agentRuns'[r].conversation].run = r
    BY DEF OneRunPerLane
  <2>1. /\ r # own /\ r \in DOMAIN agentRuns /\ agentRuns[r].status = "running"
        /\ agentRuns'[r].conversation = agentRuns[r].conversation
    BY <1>2, <1>7 DEF SettledRuns
  <2>2. frames[agentRuns[r].conversation].run = r
    BY <2>1 DEF DelegationInv, OneRunPerLane
  <2> QED BY <1>4, <2>1, <2>2 DEF DelegationInv, DelegationTypeOK, own
<1> QED BY <1>5, <1>6, <1>8, <1>10, <1>11, <1>12, <1>13 DEF DelegationInv

(* Time passes only while no run is at its end.                             *)
LEMMA TickKeeps == ASSUME DelegationInv, DelegationTick PROVE DelegationInv'
<1>1. /\ now' = now + 1 /\ UNCHANGED <<conversations, agentRuns, rows, workers, frames>>
      /\ \A l \in workers : frames[l].at # "idle" => InTime(l)
  BY DEF DelegationTick
<1>2. RunsAreInTime'
  <2> SUFFICES ASSUME NEW l \in ConversationIds, frames[l].at # "idle"
               PROVE  frames[l].started <= now' /\ now' <= frames[l].started + RunTimeout
    BY <1>1 DEF RunsAreInTime
  <2>1. /\ frames[l].started \in Nat /\ now \in Nat /\ RunTimeout \in Nat
        /\ frames[l].started <= now /\ now < frames[l].started + RunTimeout
    BY <1>1, Executes, DelegationAssumption
       DEF DelegationInv, DelegationTypeOK, RunsAreInTime, InTime, Frames
  <2> QED BY <1>1, <2>1
<1>3. DelegationTypeOK'
  BY <1>1 DEF DelegationInv, DelegationTypeOK
<1> QED BY <1>1, <1>2, <1>3
     DEF DelegationInv, LanesServeTopLevel, FramesNeedLanes, ParentsAreRuns, FramesOK, FrameOK,
         ChildrenAreYoung, CalledChildrenOK, CalledChildOK, OneRunPerLane

(* The child of a call is younger than the run, and the run than the prune's *)
(* cutoff.                                                                  *)
LEMMA PruneKeeps == ASSUME DelegationInv, PruneChildConversations PROVE DelegationInv'
<1>1. /\ conversations' = [k \in DOMAIN conversations \ Expired |-> conversations[k]]
      /\ rows' = [m \in {k \in DOMAIN rows : rows[k].conversation \notin Expired} |-> rows[m]]
      /\ UNCHANGED <<now, agentRuns, workers, frames>>
  BY DEF PruneChildConversations
<1>2. /\ DOMAIN conversations' = DOMAIN conversations \ Expired
      /\ \A k \in DOMAIN conversations' : conversations'[k] = conversations[k]
  BY <1>1
<1>3. ASSUME NEW l \in ConversationIds, frames[l].at \in {"prompt", "create", "child"}
      PROVE  frames[l].child \in DOMAIN conversations'
  <2> DEFINE c == frames[l].child
  <2>1. c \in DOMAIN conversations /\ conversations[c].parent = frames[l].run
    BY <1>3, Called
  <2>2. conversations[c].created >= frames[l].started
    BY <1>3, <2>1 DEF DelegationInv, ChildrenAreYoung
  <2>3. /\ now <= frames[l].started + RunTimeout /\ RunTimeout <= Retention /\ Retention \in Nat
        /\ RunTimeout \in Nat /\ now \in Nat /\ frames[l].started \in Nat
        /\ conversations[c].created \in Nat
    BY <1>3, <2>1, Executes, DelegationAssumption
       DEF DelegationInv, RunsAreInTime, DelegationTypeOK, Frames, ConversationRecords
  <2>4. ~(conversations[c].created < now - Retention)
    <3> DEFINE created == conversations[c].created
               started == frames[l].started
    <3> HIDE DEF created, started
    <3>1. created >= started /\ now <= started + RunTimeout /\ created \in Nat /\ started \in Nat
      BY <2>2, <2>3 DEF created, started
    <3>2. ~(created < now - Retention)
      BY <2>3, <3>1
    <3> QED BY <3>2 DEF created
  <2> QED BY <1>2, <2>1, <2>4 DEF Expired
<1>4. DelegationTypeOK'
  BY <1>1, <1>2 DEF DelegationInv, DelegationTypeOK
<1>5. LanesServeTopLevel'
  BY <1>1, <1>2 DEF DelegationInv, LanesServeTopLevel, Expired
<1>6. CalledChildrenOK'
  BY <1>1, <1>2, <1>3 DEF DelegationInv, CalledChildrenOK, CalledChildOK
<1> QED BY <1>1, <1>2, <1>4, <1>5, <1>6
     DEF DelegationInv, FramesNeedLanes, ParentsAreRuns, FramesOK, FrameOK, RunsAreInTime,
         ChildrenAreYoung, OneRunPerLane

-----------------------------------------------------------------------------
LEMMA DelegationStep == DelegationInv /\ [DelegationNext]_delegationVars => DelegationInv'
<1> SUFFICES ASSUME DelegationInv, [DelegationNext]_delegationVars PROVE DelegationInv'
  OBVIOUS
<1>1. CASE StartService
  BY <1>1, StartServiceKeeps
<1>2. CASE StopService
  BY <1>2, StopServiceKeeps
<1>3. CASE PruneChildConversations
  BY <1>3, PruneKeeps
<1>4. CASE DelegationTick
  BY <1>4, TickKeeps
<1>5. ASSUME NEW l \in ConversationIds, LaneStep(l) PROVE DelegationInv'
  <2>1. CASE SubmitUserMessage(l)
    BY <2>1, SubmitKeeps
  <2>2. CASE ExecuteRun(l)
    BY <2>2, ExecuteRunKeeps
  <2>3. CASE FinishParent(l)
    <3>1. PICK status \in {"done", "failed"} : SettleRun(frames[l].run, status)
      BY <2>3 DEF FinishParent
    <3>2. frames[l].at # "idle" /\ frames' = [frames EXCEPT ![l] = NoFrame] /\ UNCHANGED <<now, workers>>
      BY <2>3 DEF FinishParent
    <3> QED BY <3>1, <3>2, RunEndsKeeps
  <2>4. CASE Delegate(l)
    BY <2>4, DelegateKeeps
  <2>5. CASE DelegateContinue(l)
    BY <2>5, ContinueKeeps
  <2>6. CASE AppendPrompt(l)
    BY <2>6, AppendPromptKeeps
  <2>7. CASE CreateChildRun(l)
    BY <2>7, CreateChildRunKeeps
  <2>8. CASE FinishChild(l)
    BY <2>8, FinishChildKeeps
  <2>9. CASE ExpireInCall(l)
    <3>1. /\ frames[l].at # "idle" /\ frames' = [frames EXCEPT ![l] = NoFrame]
          /\ SettleRun(frames[l].run, "failed") /\ UNCHANGED <<now, workers>>
      BY <2>9 DEF ExpireInCall
    <3> QED BY <3>1, RunEndsKeeps
  <2> QED BY <1>5, <2>1, <2>2, <2>3, <2>4, <2>5, <2>6, <2>7, <2>8, <2>9 DEF LaneStep
<1>6. CASE UNCHANGED delegationVars
  BY <1>6
     DEF delegationVars, DelegationInv, DelegationTypeOK, LanesServeTopLevel, FramesNeedLanes,
         ParentsAreRuns, FramesOK, FrameOK, RunsAreInTime, ChildrenAreYoung, CalledChildrenOK,
         CalledChildOK, OneRunPerLane
<1> QED BY <1>1, <1>2, <1>3, <1>4, <1>5, <1>6 DEF DelegationNext

LEMMA DelegationInvariant == DelegationSpec => []DelegationInv
BY DelegationInitial, DelegationStep, PTL DEF DelegationSpec

(* For any bounds, and any times with RunTimeout <= Retention: a child's    *)
(* turn runs inside a call of the run that owns the child, in a             *)
(* conversation that the prune has left, and of a lane's own runs only the  *)
(* one it executes says that it is running (delegate.go, prune.go).         *)
THEOREM DelegatedRunsHaveParents == DelegationSpec => []ChildRunsHaveParents
<1>1. DelegationInv => ChildRunsHaveParents
  <2> SUFFICES ASSUME DelegationInv PROVE ChildRunsHaveParents
    OBVIOUS
  <2>1. \A l \in workers : frames[l].at # "idle" =>
          /\ conversations[l].parent = TopLevel /\ agentRuns[frames[l].run].conversation = l
          /\ agentRuns[frames[l].run].status = "running"
    BY Executes DEF DelegationInv, LanesServeTopLevel, DelegationTypeOK
  <2>2. ASSUME NEW l \in workers, frames[l].child # 0
        PROVE  /\ frames[l].child \in DOMAIN conversations
               /\ conversations[frames[l].child].parent = frames[l].run
    <3>1. l \in ConversationIds /\ frames[l] \in Frames
      BY DEF DelegationInv, DelegationTypeOK
    <3>2. frames[l].at \in {"prompt", "create", "child"}
      BY <2>2, <3>1 DEF DelegationInv, FramesOK, FrameOK, Frames
    <3> QED BY <3>1, <3>2, Called
  <2>3. ASSUME NEW r \in DOMAIN agentRuns, agentRuns[r].status = "running",
               agentRuns[r].conversation \in workers
        PROVE  Executed(r)
    BY <2>3 DEF DelegationInv, OneRunPerLane, Executed
  <2> QED BY <2>1, <2>2, <2>3 DEF ChildRunsHaveParents
<1> QED BY <1>1, DelegationInvariant, PTL
=============================================================================

---------------------------- MODULE Conversation ----------------------------
(***************************************************************************)
(* One conversation of caliban: its rows in the store, and the worker lane  *)
(* of internal/engine that answers it.  Clients append user messages and    *)
(* then kick the lane; the lane picks the newest message past the coverage  *)
(* cursor, runs a turn over the transcript, and commits the reply together  *)
(* with the cursor.  The store may fail at every call and the process may   *)
(* stop anywhere.  Row ids are positions in msgs, every row counts as one   *)
(* token, and the rows that one turn appends together count as one.         *)
(***************************************************************************)
EXTENDS Naturals, Sequences, FiniteSets, FiniteSetsExt

CONSTANTS
    TailTok,      \* Engine.tailTok, in rows
    MaxMessages,  \* bound: rows appended by clients
    MaxFaults     \* bound: store failures and crashes

ASSUME ConversationAssumption ==
    TailTok \in Nat /\ MaxMessages \in Nat /\ MaxFaults \in Nat

VARIABLES
    msgs,     \* table messages
    runs,     \* table runs
    cover,    \* conversations.last_covered_user_message_id
    through,  \* through_message_id of the latest summary, 0 without one
    kick,     \* the lane's channel holds its one kick
    callers,  \* SubmitUserMessage calls between the append and the kick
    pc,       \* where the worker is
    input,    \* the message the current run answers
    run,      \* the current run
    context,  \* what the agent of the current run is given
    faults    \* failures so far

store == <<msgs, runs, cover>>
lane == <<pc, input, run, context>>
vars == <<msgs, runs, cover, through, kick, callers, pc, input, run, context, faults>>

(* Run 0 is SQL's NULL: rows no run produced.  Input 0: a maintenance run.  *)
Message == [role : {"user", "event", "ai"}, run : Nat]
Run == [input : Nat, status : {"running", "done", "failed"}]

InRun == {"assemble", "turn", "complete", "fail"}
Phases == {"down", "wait", "drained", "due", "backoff", "create", "check", "schedule"} \cup InRun

Nothing == [through |-> 0, rows |-> <<>>]

(* The type invariant.  A run of the lane is in the table, still running;   *)
(* the rows of a context are ContextReads's matter.                         *)
TypeOK ==
    /\ msgs \in Seq(Message)
    /\ runs \in Seq(Run)
    /\ cover \in 0..Len(msgs)
    /\ through \in 0..Len(msgs)
    /\ kick \in BOOLEAN
    /\ callers \in Nat
    /\ pc \in Phases
    /\ input \in 0..Len(msgs)
    /\ run \in 0..Len(runs)
    /\ context.through \in 0..Len(msgs)
    /\ faults \in 0..MaxFaults
    /\ pc \in InRun =>
          run > 0 /\ runs[run] = [input |-> input, status |-> "running"]

(* A new conversation in a process that has not started.                    *)
Init ==
    /\ msgs = <<>>
    /\ runs = <<>>
    /\ cover = 0
    /\ through = 0
    /\ kick = FALSE
    /\ callers = 0
    /\ pc = "down"
    /\ input = 0
    /\ run = 0
    /\ context = Nothing
    /\ faults = 0

Fault == faults < MaxFaults /\ faults' = faults + 1

-----------------------------------------------------------------------------
(* The transcript and its windows.                                          *)

Ids == DOMAIN msgs
Asked == {i \in Ids : msgs[i].role = "user"}
Unanswered == {i \in Asked : i > cover}

Clients == {i \in Ids : msgs[i].role # "ai"}

(* logicalKeyExpr: a run's rows belong right after its input.               *)
Key(i) ==
    LET r == msgs[i].run IN
    IF r = 0 THEN 2 * i
    ELSE IF runs[r].input = 0 THEN 2 * i + 1
    ELSE 2 * runs[r].input + 1

Precedes(i, j) == Key(i) < Key(j) \/ (Key(i) = Key(j) /\ i < j)

(* The ids of S in logical order.                                           *)
Ordered(S) ==
    [k \in 1..Cardinality(S) |->
        CHOOSE i \in S : Cardinality({j \in S : Precedes(j, i)}) = k - 1]

(* MessagesForInput, as ids.                                                *)
Window(after, id) == {i \in Ids : i > after /\ Key(i) <= 2 * id}

(* trimToBudget: drop rows from the front to fit the budget, then up to the *)
(* next row the model sees as a user's; the last row always stays.          *)
Trim(rows) ==
    LET n == Len(rows)
        cut == Min({k \in 1..n : k = n \/ n - k + 1 <= TailTok})
        start == Min({k \in cut..n : k = n \/ msgs[rows[k]].role # "ai"})
    IN IF n <= 1 \/ TailTok = 0 THEN rows ELSE SubSeq(rows, start, n)

-----------------------------------------------------------------------------
(* Clients: transports, scheduled turns, reminders.                         *)

Up == pc # "down"

AppendRow(role, r) == msgs' = Append(msgs, [role |-> role, run |-> r])

(* SubmitUserMessage up to its append ...                                   *)
Submit ==
    /\ Up
    /\ Cardinality(Clients) < MaxMessages
    /\ AppendRow("user", 0)
    /\ callers' = callers + 1
    /\ UNCHANGED <<runs, cover, through, kick, lane, faults>>

(* ... and its kick.                                                        *)
Kick ==
    /\ Up
    /\ callers > 0
    /\ callers' = callers - 1
    /\ kick' = TRUE
    /\ UNCHANGED <<store, through, lane, faults>>

(* HandleReminderDeliver records a firing; it starts no run.                *)
RecordEvent ==
    /\ Up
    /\ Cardinality(Clients) < MaxMessages
    /\ AppendRow("event", 0)
    /\ UNCHANGED <<runs, cover, through, kick, callers, lane, faults>>

-----------------------------------------------------------------------------
(* The worker.                                                              *)

WakeUp ==
    /\ pc = "wait"
    /\ kick
    /\ kick' = FALSE
    /\ pc' = "due"
    /\ UNCHANGED <<store, through, callers, input, run, context, faults>>

(* NextDueInput: the newest message past the cursor.                        *)
NextDue ==
    /\ pc = "due"
    /\ IF Unanswered = {}
       THEN pc' = "drained" /\ UNCHANGED input
       ELSE pc' = "create" /\ input' = Max(Unanswered)
    /\ UNCHANGED <<store, through, kick, callers, run, context, faults>>

(* The lane blocks on its channel, a moment after it found nothing due.     *)
Sleep ==
    /\ pc = "drained"
    /\ pc' = "wait"
    /\ UNCHANGED <<store, through, kick, callers, input, run, context, faults>>

NextDueFails ==
    /\ pc = "due"
    /\ Fault
    /\ pc' = "backoff"
    /\ UNCHANGED <<store, through, kick, callers, input, run, context>>

Retry ==
    /\ pc = "backoff"
    /\ pc' = "due"
    /\ UNCHANGED <<store, through, kick, callers, input, run, context, faults>>

CreateRun ==
    /\ pc = "create"
    /\ runs' = Append(runs, [input |-> input, status |-> "running"])
    /\ run' = Len(runs) + 1
    /\ pc' = "assemble"
    /\ UNCHANGED <<msgs, cover, through, kick, callers, input, context, faults>>

(* Nothing of the run is left in the lane.                                  *)
LeaveRun == input' = 0 /\ run' = 0 /\ context' = Nothing

CreateRunFails ==
    /\ pc = "create"
    /\ Fault
    /\ pc' = "backoff"
    /\ LeaveRun
    /\ UNCHANGED <<store, through, kick, callers>>

(* assembleContext: the summary, the window after it, and the budget; an    *)
(* empty window, or one that does not end on a user's row, fails the run.   *)
(* (\E over one element: TLC evaluates the window once.)                    *)
Assemble ==
    /\ pc = "assemble"
    /\ \E window \in {Ordered(Window(through, input))} : \E rows \in {Trim(window)} :
       IF rows # <<>> /\ msgs[rows[Len(rows)]].role # "ai"
       THEN pc' = "turn" /\ context' = [through |-> through, rows |-> rows]
       ELSE pc' = "fail" /\ UNCHANGED context
    /\ UNCHANGED <<store, through, kick, callers, input, run, faults>>

AssembleFails ==
    /\ pc = "assemble"
    /\ Fault
    /\ pc' = "fail"
    /\ UNCHANGED <<store, through, kick, callers, input, run, context>>

(* The agent's turn ends with a reply, or in an error.                      *)
Turn ==
    /\ pc = "turn"
    /\ pc' \in {"complete", "fail"}
    /\ UNCHANGED <<store, through, kick, callers, input, run, context, faults>>

(* advanceCover never moves back.                                           *)
Advance(id) == cover' = IF id > cover THEN id ELSE cover

(* finishRun.                                                               *)
Ended(r, status) == [input |-> runs[r].input, status |-> status]
FinishRun(r, status) == runs' = [runs EXCEPT ![r] = Ended(r, status)]

(* Mutant: the cursor jumps to the newest message there is.                 *)
CompleteCoversNewest ==
    /\ pc = "complete"
    /\ AppendRow("ai", run)
    /\ FinishRun(run, "done")
    /\ Advance(Max(Asked))
    /\ pc' = "check"
    /\ LeaveRun
    /\ UNCHANGED <<through, kick, callers, faults>>

(* CompleteRun, one transaction.                                            *)
Complete ==
    /\ pc = "complete"
    /\ AppendRow("ai", run)
    /\ FinishRun(run, "done")
    /\ Advance(input)
    /\ pc' = "check"
    /\ LeaveRun
    /\ UNCHANGED <<through, kick, callers, faults>>

CompleteFails ==
    /\ pc = "complete"
    /\ Fault
    /\ pc' = "fail"
    /\ UNCHANGED <<store, through, kick, callers, input, run, context>>

(* FailRun, one transaction with the visible failure row.                   *)
Fail ==
    /\ pc = "fail"
    /\ AppendRow("ai", run)
    /\ FinishRun(run, "failed")
    /\ Advance(input)
    /\ pc' = "due"
    /\ LeaveRun
    /\ UNCHANGED <<through, kick, callers, faults>>

(* The failure itself cannot be stored: the run stays running, the input    *)
(* due, and the lane tries again.                                           *)
FailFails ==
    /\ pc = "fail"
    /\ Fault
    /\ pc' = "backoff"
    /\ LeaveRun
    /\ UNCHANGED <<store, through, kick, callers>>

(* maybeScheduleCompaction without a cheap model: nothing to check.         *)
SkipCheck ==
    /\ pc = "check"
    /\ pc' = "due"
    /\ UNCHANGED <<store, through, kick, callers, input, run, context, faults>>

-----------------------------------------------------------------------------
(* The process.                                                             *)

(* The process stops.  A shutdown is no better: with its context cancelled  *)
(* the lane can store neither a reply nor a failure.                        *)
Crash ==
    /\ Up
    /\ Fault
    /\ pc' = "down"
    /\ kick' = FALSE
    /\ callers' = 0
    /\ LeaveRun
    /\ UNCHANGED <<store, through>>

Interrupted ==
    [r \in DOMAIN runs |->
        IF runs[r].status = "running" THEN Ended(r, "failed") ELSE runs[r]]

(* Mutant: a restarted lane waits for the next message.                     *)
StartUnkicked ==
    /\ pc = "down"
    /\ runs' = Interrupted
    /\ pc' = "wait"
    /\ UNCHANGED <<msgs, cover, through, kick, callers, input, run, context, faults>>

(* StartReady: FailRunningRuns, the worker, and a first kick.               *)
Start ==
    /\ pc = "down"
    /\ runs' = Interrupted
    /\ kick' = TRUE
    /\ pc' = "wait"
    /\ UNCHANGED <<msgs, cover, through, callers, input, run, context, faults>>

-----------------------------------------------------------------------------
Client == Submit \/ Kick \/ RecordEvent

(* A turn of the lane that does not fail on the store.                      *)
Work ==
    \/ WakeUp \/ NextDue \/ Sleep \/ Retry \/ CreateRun \/ Assemble
    \/ Turn \/ Complete \/ Fail

StoreFails ==
    NextDueFails \/ CreateRunFails \/ AssembleFails \/ CompleteFails \/ FailFails

Next == Client \/ Work \/ StoreFails \/ SkipCheck \/ Crash \/ Start

Spec == Init /\ [][Next]_vars

(* Goroutines that can run do, the process is restarted, and store failures *)
(* do not recur for ever (MaxFaults).                                       *)
FairSpec == Spec /\ WF_vars(Kick) /\ WF_vars(Work \/ SkipCheck \/ Start)

-----------------------------------------------------------------------------
(* The abstract inbox, read off the rows.                                   *)
Replies ==
    {<<m, runs[msgs[m].run].input>> : m \in {i \in Ids : msgs[i].role = "ai"}}

Answered == {i \in Asked : i <= cover}

(* A reply or a visible failure for every accepted message, once: retries,  *)
(* restarts and messages that arrive during a run neither lose one nor      *)
(* answer one twice (NextDueInput, CompleteRun, FailRun, FailRunningRuns).  *)
Box == INSTANCE Inbox WITH asked <- Asked, answered <- Answered, replies <- Replies
InboxSpec == Box!Spec

(* The comment on CompleteRun: never an input covered with no reply, nor a  *)
(* reply with its input still due.                                          *)
CoverAgrees ==
    /\ \A i \in Answered : \E reply \in Replies : i <= reply[2]
    /\ \A reply \in Replies : reply[2] <= cover

(* While an accepted message is due, the lane is busy, or kicked, or the    *)
(* caller is about to kick it: no message sleeps with the lane.             *)
NothingStranded ==
    pc \in {"drained", "wait"} /\ Unanswered # {} => kick \/ callers > 0

(* The message a row is about: a reply's is the input of its run.           *)
Subject(i) == IF msgs[i].role = "ai" THEN runs[msgs[i].run].input ELSE i

(* The agent sees a conversation: it ends with the message to answer, opens *)
(* on a client's row, and every reply stands after the message it answers   *)
(* and before any later one, wherever it was appended.                      *)
ContextReads ==
    pc = "turn" =>
        LET rows == context.rows IN
        /\ rows # <<>>
        /\ rows[Len(rows)] = input
        /\ msgs[rows[1]].role # "ai"
        /\ \A k, l \in DOMAIN rows : k < l =>
              \/ Subject(rows[k]) < Subject(rows[l])
              \/ Subject(rows[k]) = Subject(rows[l]) /\ rows[k] < rows[l]

(* What happened before the run's input, past the summary it was given.     *)
Past == {i \in Ids : i > context.through /\ Subject(i) <= input}

(* The comment on logicalKeyExpr: when the rows before the input fit the    *)
(* budget, the agent sees every one of them, the replies that were appended *)
(* after a newer message included.                                          *)
EarlierRepliesSeen ==
    pc = "turn" /\ Cardinality(Past) <= TailTok =>
        \A i \in Past : \E k \in DOMAIN context.rows : context.rows[k] = i

(* The lane catches up, as long as the store and the process recover: a     *)
(* message is due only until the cursor passes it, and clients append       *)
(* MaxMessages at most, so every accepted message is answered.              *)
EveryMessageAnswered == Unanswered # {} ~> Unanswered = {}
=============================================================================

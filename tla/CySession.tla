----------------------------- MODULE CySession -----------------------------
(***************************************************************************)
(* One cy session: the append-only journal on disk                         *)
(* (cy/internal/session), the engine that runs turns on it                 *)
(* (cy/internal/engine) through the shared turn loop of pkg/golem, the     *)
(* queue of inputs typed while a turn runs, and one background job whose   *)
(* completion is reported at a model boundary.  The process may crash, a   *)
(* write may fall short, the user may cancel, the provider may refuse the  *)
(* context or ask for any batch of tool calls.                             *)
(***************************************************************************)
EXTENDS Naturals, Sequences, FiniteSets, FiniteSetsExt

CONSTANTS
    Inputs,         \* the prompts the user types, each once
    Batches,        \* tool-call batches a response may ask for (sequences of kinds)
    MaxRuns,        \* bound: turns started
    MaxIterations,  \* maxToolIterationsPerTurn
    InputLimit,     \* ContextReport.InputLimit, in the weights below
    TailBudget,     \* tokens compaction leaves verbatim
    ResultWeight,   \* weight of an unpruned tool result (a pruned one weighs 1)
    MaxFaults       \* bound: crashes and short writes together

ASSUME CySessionAssumption ==
    /\ MaxRuns \in Nat \ {0} /\ MaxIterations \in Nat /\ MaxFaults \in Nat
    /\ InputLimit \in Nat /\ TailBudget \in Nat /\ ResultWeight \in Nat \ {0}
    /\ \A b \in Batches : b \in Seq({"read", "write", "bash"}) /\ b # <<>>

VARIABLES
    disk,    \* the complete lines of the journal
    tail,    \* bytes after the last newline: "none", "torn" or a "whole" record
    seq,     \* Session.seq of the process that has the journal open
    up,      \* a process has the session open
    werr,    \* Session.writeErr is set
    editor,  \* inputs the user still has in the editor
    queue,   \* Engine.pendingInputs
    turn,    \* the turn in progress
    job,     \* the background job: "none", "running", "done", "told" or "seen"
    runs,    \* turns started so far
    faults   \* crashes and short writes so far

vars == <<disk, tail, seq, up, werr, editor, queue, turn, job, runs, faults>>
file == <<disk, tail, seq, werr, faults>>

----------------------------------------------------------------------------
\* Records and what Replay derives from them

Junk == [type |-> "junk", run |-> 0, body |-> 0, seq |-> 0]

Rec(type, run, body) == [type |-> type, run |-> run, body |-> body, seq |-> 0]

IsMessage(r) == r.type \in {"user", "assistant", "result"}

Messages(J) == {i \in DOMAIN J : IsMessage(J[i])}

Users(J) == {i \in DOMAIN J : J[i].type = "user"}

\* every call of every assistant record, named by its record and its place
Calls(J) == UNION {{<<i, p>> : p \in DOMAIN J[i].body} :
                      i \in {k \in DOMAIN J : J[k].type = "assistant"}}

Answered(J, c) == \E k \in DOMAIN J : J[k].type = "result" /\ J[k].body = c

PendingTools(J) == {c \in Calls(J) : ~Answered(J, c)}

\* runs with a user message that no run_finished follows
ActiveRuns(J) ==
    {J[i].run : i \in {k \in Users(J) :
        \A f \in DOMAIN J : f > k => ~(J[f].type = "finished" /\ J[f].run = J[k].run)}}

Last(S) == IF S = {} THEN 0 ELSE CHOOSE x \in S : \A y \in S : y <= x
First(S, d) == IF S = {} THEN d ELSE CHOOSE x \in S : \A y \in S : x <= y

PrunedThrough(J) == LET r == Last({i \in DOMAIN J : J[i].type = "pruned"})
                    IN  IF r = 0 THEN 0 ELSE J[r].body

FirstVerbatim(J) == LET r == Last({i \in DOMAIN J : J[i].type = "compacted"})
                    IN  IF r = 0 THEN 0 ELSE J[r].body

\* what recordsLocked and applyRecord accept
Replayable(J) ==
    /\ J # <<>> /\ J[1].type = "started"
    /\ \A i \in DOMAIN J :
        /\ J[i].type # "junk" /\ J[i].seq = i
        /\ J[i].type = "started" => i = 1
        /\ J[i].type = "pruned" =>
            /\ J[i].body \in 1..(i - 1)
            /\ \A k \in 1..(i - 1) : J[k].type = "pruned" => J[k].body < J[i].body
        /\ J[i].type = "compacted" => J[i].body > 0

----------------------------------------------------------------------------
\* The context of a request

Context(J) == {i \in Messages(J) : i >= FirstVerbatim(J)}

Weight(J, through, i) ==
    IF J[i].type = "result" /\ i > through THEN ResultWeight ELSE 1

Size(J, through) ==
    MapThenSumSet(LAMBDA i : Weight(J, through, i), Context(J))
        + (IF FirstVerbatim(J) > 0 THEN 1 ELSE 0) + Len(queue)

ActiveStart(J) == First(Context(J), Len(J) + 1)

\* the oldest user message of the active part whose tail fits the budget,
\* the latest one when none does
VerbatimStart(J) ==
    LET from   == ActiveStart(J)
        users  == {u \in Users(J) : u >= from}
        latest == Last(users)
        tokens(u) == MapThenSumSet(LAMBDA i : Weight(J, 0, i), {i \in Messages(J) : i >= u})
    IN  IF latest <= from THEN from
        ELSE First({u \in users : tokens(u) <= TailBudget} \cup {latest}, latest)

\* the boundary pruneToolResultsIfSufficient would record, 0 for none
PruneBoundary(J) ==
    LET first   == VerbatimStart(J)
        through == Last({i \in Messages(J) : i < first})
    IN  IF /\ first > ActiveStart(J)
           /\ through > PrunedThrough(J)
           /\ Size(J, through) <= InputLimit
        THEN through ELSE 0

\* the boundaries compactLocked may record: the bounded prompt may stop early,
\* at any user message up to the one chosen
CompactionBoundaries(J, automatic) ==
    LET from   == ActiveStart(J)
        auto   == VerbatimStart(J)
        latest == Last({u \in Users(J) : u > from})
        first  == IF ~automatic /\ auto <= from /\ latest # 0 THEN latest ELSE auto
    IN  {u \in Users(J) : u > from /\ u <= first}

----------------------------------------------------------------------------
\* Session.Append, for a run of records written one after the other

Numbered(recs) == [k \in 1..Len(recs) |-> [recs[k] EXCEPT !.seq = seq + k]]

\* a record written after a partial line becomes part of that line
Put(recs) == IF tail = "none" \/ recs = <<>> THEN disk \o Numbered(recs)
             ELSE disk \o <<Junk>> \o Tail(Numbered(recs))

\* Mutant: an earlier write failure is forgotten
AppendedAfterFailure(recs) ==
    /\ disk' = Put(recs) /\ seq' = seq + Len(recs)
    /\ tail' = IF recs = <<>> THEN tail ELSE "none"
    /\ UNCHANGED <<werr, faults>>

Appended(recs) ==
    /\ ~werr
    /\ disk' = Put(recs) /\ seq' = seq + Len(recs)
    /\ tail' = IF recs = <<>> THEN tail ELSE "none"
    /\ UNCHANGED <<werr, faults>>

\* refused after an earlier failure, or k records land and the next falls short
AppendFailed(recs) ==
    \/ werr /\ UNCHANGED file
    \/ /\ ~werr /\ faults < MaxFaults /\ faults' = faults + 1
       /\ \E k \in 0..(Len(recs) - 1), t \in {"none", "torn", "whole"} :
            disk' = Put(SubSeq(recs, 1, k)) /\ seq' = seq + k /\ tail' = t
       /\ werr' = TRUE

Idle == [pc |-> "idle", run |-> 0, at |-> 0, done |-> 0, iter |-> 0,
         final |-> FALSE, cancelled |-> FALSE, rebuilt |-> FALSE, notice |-> FALSE]

\* append recs and go on as `good`, or fail the run
Record(recs, good) == \/ Appended(recs) /\ turn' = good
                      \/ AppendFailed(recs) /\ turn' = [turn EXCEPT !.pc = "fail"]

At(pc) == up /\ turn.pc = pc
Goto(pc) == turn' = [turn EXCEPT !.pc = pc]

Init == /\ disk = <<[Rec("started", 0, 0) EXCEPT !.seq = 1]>>
        /\ tail = "none" /\ seq = 1 /\ up = TRUE /\ werr = FALSE
        /\ editor = Inputs /\ queue = <<>> /\ turn = Idle /\ job = "none"
        /\ runs = 0 /\ faults = 0

----------------------------------------------------------------------------
\* Input: a new turn, the queue of the running one, and back to the editor

Begin(i) ==
    /\ At("idle") /\ runs < MaxRuns /\ runs' = runs + 1
    /\ LET rec == <<Rec("user", runs + 1, i)>>
       IN  \/ Appended(rec) /\ turn' = [Idle EXCEPT !.pc = "boundary", !.run = runs + 1]
           \/ AppendFailed(rec) /\ UNCHANGED turn
    /\ UNCHANGED <<up, job>>

Submit == \E i \in editor : Begin(i) /\ editor' = editor \ {i} /\ UNCHANGED queue

QueueInput ==
    /\ up /\ turn.pc \notin {"idle", "ran"}
    /\ \E i \in editor : queue' = Append(queue, i) /\ editor' = editor \ {i}
    /\ UNCHANGED <<file, up, turn, job, runs>>

ClaimQueued == queue # <<>> /\ Begin(Head(queue)) /\ queue' = Tail(queue) /\ UNCHANGED editor

PopQueued ==
    /\ up /\ queue # <<>>
    /\ editor' = editor \cup {queue[Len(queue)]}
    /\ queue' = SubSeq(queue, 1, Len(queue) - 1)
    /\ UNCHANGED <<file, up, turn, job, runs>>

RestoreQueued ==
    /\ up /\ queue # <<>>
    /\ editor' = editor \cup {queue[k] : k \in DOMAIN queue} /\ queue' = <<>>
    /\ UNCHANGED <<file, up, turn, job, runs>>

Cancel == /\ up /\ turn.pc \notin {"idle", "ran"} /\ ~turn.cancelled
          /\ turn' = [turn EXCEPT !.cancelled = TRUE]
          /\ UNCHANGED <<file, up, editor, queue, job, runs>>

----------------------------------------------------------------------------
\* PrepareContext: boundary events, queued input, then the context itself

Boundary ==
    /\ At("boundary")
    /\ job' = IF job = "done" THEN "told" ELSE job
    /\ LET recs == [k \in DOMAIN queue |-> Rec("user", turn.run, queue[k])]
       IN  Record(recs, [turn EXCEPT !.pc = "context", !.notice = (job = "done")])
    /\ queue' = SubSeq(queue, seq' - seq + 1, Len(queue))
    /\ UNCHANGED <<up, editor, runs>>

Fits(J) == Size(J, PrunedThrough(J)) <= InputLimit

\* compactLocked: nothing to cover, a failed request, or a recorded summary
CompactInto(pc, notice) ==
    \/ Goto("fail") /\ UNCHANGED file
    \/ \E b \in CompactionBoundaries(disk, TRUE) :
        LET rec   == <<Rec("compacted", turn.run, b)>>
            fits  == Fits(disk \o rec)
        IN  /\ ~turn.cancelled
            /\ Record(rec, [turn EXCEPT !.pc = IF pc = "context" /\ ~fits THEN "fail" ELSE "request",
                                        !.notice = notice, !.rebuilt = @ \/ pc = "request"])

PrepareContext ==
    /\ At("context")
    /\ \/ Fits(disk) /\ Goto("request") /\ UNCHANGED file
       \/ /\ ~Fits(disk) /\ PruneBoundary(disk) # 0
          /\ Record(<<Rec("pruned", turn.run, PruneBoundary(disk))>>, [turn EXCEPT !.pc = "request"])
       \/ /\ ~Fits(disk) /\ PruneBoundary(disk) = 0
          /\ CompactInto("context", turn.notice)
    /\ UNCHANGED <<up, editor, queue, job, runs>>

\* the context-length error: compact once and rebuild the messages from the journal
Recover ==
    /\ At("request") /\ ~turn.rebuilt
    /\ CompactInto("request", FALSE)
    /\ UNCHANGED <<up, editor, queue, job, runs>>

RequestFails == At("request") /\ Goto("fail") /\ UNCHANGED <<file, up, editor, queue, job, runs>>

\* a response with or without tool calls, recorded before anything is done with it
Respond(calls) ==
    /\ At("request") /\ ~turn.cancelled
    /\ turn.final => calls = <<>>
    /\ job' = IF job = "told" /\ turn.notice THEN "seen" ELSE job
    /\ Record(<<Rec("assistant", turn.run, calls)>>,
              [turn EXCEPT !.pc = IF calls = <<>> THEN "complete"
                                  ELSE IF turn.iter >= MaxIterations THEN "limit" ELSE "tools",
                           !.at = seq + 1, !.done = 0,
                           !.iter = IF calls = <<>> THEN @ ELSE @ + 1])
    /\ UNCHANGED <<up, editor, queue, runs>>

Results(from, to) == [k \in 1..(to - from) |-> Rec("result", turn.run, <<turn.at, from + k>>)]

\* Mutant: the limit asks for the final answer without answering the calls
ToolLimitUnanswered ==
    /\ At("limit") /\ turn' = [turn EXCEPT !.pc = "boundary", !.final = TRUE]
    /\ UNCHANGED <<file, up, editor, queue, job, runs>>

\* the limit answers every call of the response and asks once more
ToolLimit ==
    /\ At("limit")
    /\ Record(Results(0, Len(disk[turn.at].body)), [turn EXCEPT !.pc = "boundary", !.final = TRUE])
    /\ UNCHANGED <<up, editor, queue, job, runs>>

\* Execute: the next batch is a run of reads or a single call
BatchEnd == LET calls == disk[turn.at].body
                n     == turn.done + 1
            IN  IF calls[n] # "read" THEN n
                ELSE Last({m \in n..Len(calls) : \A k \in n..m : calls[k] = "read"})

ExecuteBatch ==
    /\ At("tools") /\ turn.done < Len(disk[turn.at].body) /\ ~turn.cancelled
    /\ \/ UNCHANGED job
       \/ /\ job = "none" /\ disk[turn.at].body[turn.done + 1] = "bash"
          /\ job' = "running"
    /\ Record(Results(turn.done, BatchEnd), [turn EXCEPT !.done = BatchEnd])
    /\ UNCHANGED <<up, editor, queue, runs>>

ExecuteEnds ==
    /\ At("tools")
    /\ \/ turn.cancelled /\ Goto("fail")
       \/ /\ ~turn.cancelled /\ turn.done = Len(disk[turn.at].body)
          /\ Goto("boundary")
    /\ UNCHANGED <<file, up, editor, queue, job, runs>>

JobExits == /\ up /\ job = "running" /\ job' = "done"
            /\ UNCHANGED <<file, up, editor, queue, turn, runs>>

Complete == /\ At("complete") /\ Record(<<Rec("finished", turn.run, 0)>>, Idle)
            /\ UNCHANGED <<up, editor, queue, job, runs>>

FailRun ==
    /\ At("fail") /\ turn' = Idle
    /\ Appended(<<Rec("finished", turn.run, 0)>>) \/ AppendFailed(<<Rec("finished", turn.run, 0)>>)
    /\ UNCHANGED <<up, editor, queue, job, runs>>

----------------------------------------------------------------------------
\* Between turns: a shell command of the user, a manual compaction, closing;
\* and the crash and the next open

\* runShell: the input and a call are recorded before the command runs
ShellStart ==
    /\ At("idle") /\ runs < MaxRuns /\ runs' = runs + 1
    /\ \E i \in editor :
        /\ editor' = editor \ {i}
        /\ LET recs == <<Rec("user", runs + 1, i), Rec("assistant", runs + 1, <<"bash">>)>>
           IN  \/ Appended(recs) /\ turn' = [Idle EXCEPT !.pc = "ran", !.run = runs + 1, !.at = seq + 2]
               \/ AppendFailed(recs) /\ UNCHANGED turn
    /\ UNCHANGED <<up, queue, job>>

ShellEnd ==
    /\ At("ran") /\ turn' = Idle
    /\ LET recs == <<Rec("result", turn.run, <<turn.at, 1>>), Rec("finished", turn.run, 0)>>
       IN  Appended(recs) \/ AppendFailed(recs)
    /\ UNCHANGED <<up, editor, queue, job, runs>>

Compact ==
    /\ At("idle")
    /\ \E b \in CompactionBoundaries(disk, FALSE) :
        LET rec == <<Rec("compacted", 0, b)>> IN Appended(rec) \/ AppendFailed(rec)
    /\ UNCHANGED <<up, editor, queue, turn, job, runs>>

Gone == up' = FALSE /\ turn' = Idle /\ queue' = <<>> /\ job' = "none" /\ werr' = FALSE

Close == At("idle") /\ queue = <<>> /\ Gone /\ UNCHANGED <<disk, tail, seq, editor, runs, faults>>

Crash ==
    /\ up /\ faults < MaxFaults /\ faults' = faults + 1 /\ Gone
    /\ tail' \in IF tail = "none" /\ turn.pc # "idle" THEN {"none", "torn", "whole"} ELSE {tail}
    /\ UNCHANGED <<disk, seq, editor, runs>>

\* Reconcile: an unknown outcome for every pending call, the end of every active run
Reconciliation(J) ==
    LET pending == PendingTools(J)
        active  == ActiveRuns(J)
    IN  {r \o f : r \in {[k \in DOMAIN o |-> Rec("result", J[o[k][1]].run, o[k])] :
                         o \in {q \in [1..Cardinality(pending) -> pending] :
                                  \A a, b \in DOMAIN q : a < b => q[a][1] <= q[b][1] /\ q[a] # q[b]}},
                  f \in {[k \in DOMAIN o |-> Rec("finished", o[k], 0)] :
                         o \in {q \in [1..Cardinality(active) -> active] :
                                  \A a, b \in DOMAIN q : a < b => q[a] < q[b]}}}

\* Open: truncate the partial line, replay, reconcile; a failed append closes again
Open ==
    /\ ~up /\ Replayable(disk)
    /\ \E recs \in Reconciliation(disk) :
        \/ /\ disk' = disk \o [k \in DOMAIN recs |-> [recs[k] EXCEPT !.seq = Len(disk) + k]]
           /\ tail' = "none" /\ seq' = Len(disk) + Len(recs) /\ up' = TRUE
           /\ UNCHANGED faults
        \/ /\ faults < MaxFaults /\ faults' = faults + 1
           /\ \E k \in 0..(Len(recs) - 1), t \in {"none", "torn", "whole"} :
                /\ disk' = disk \o [j \in 1..k |-> [recs[j] EXCEPT !.seq = Len(disk) + j]]
                /\ tail' = t /\ seq' = Len(disk) + k
           /\ UNCHANGED up
    /\ UNCHANGED <<werr, editor, queue, turn, job, runs>>

Next ==
    \/ Submit \/ QueueInput \/ ClaimQueued \/ PopQueued \/ RestoreQueued \/ Cancel
    \/ Boundary \/ PrepareContext \/ Recover \/ RequestFails
    \/ \E calls \in Batches \cup {<<>>} : Respond(calls)
    \/ ToolLimit \/ ExecuteBatch \/ ExecuteEnds \/ JobExits \/ Complete \/ FailRun
    \/ ShellStart \/ ShellEnd \/ Compact \/ Close \/ Crash \/ Open

Spec == Init /\ [][Next]_vars

----------------------------------------------------------------------------
\* Properties

(* Every variable has the shape the code gives it. *)
TypeOK ==
    /\ tail \in {"none", "torn", "whole"} /\ seq \in Nat /\ up \in BOOLEAN /\ werr \in BOOLEAN
    /\ editor \subseteq Inputs /\ queue \in Seq(Inputs)
    /\ job \in {"none", "running", "done", "told", "seen"}
    /\ runs \in 0..MaxRuns /\ faults \in 0..MaxFaults

(* The next open can always replay the journal: short writes, crashes and
   repairs never leave a line that does not decode, a gap in the sequence
   numbers or a pruning boundary that does not advance; and the process that
   has it open numbers its records from what is on disk. *)
JournalReplays == Replayable(disk) /\ (up => seq = Len(disk))

(* A run that got its final answer has a result for every call it made: the
   tool limit, the batches and the queue leave none out. *)
AnsweredRunsHaveResults ==
    \A c \in PendingTools(disk), k \in DOMAIN disk :
        disk[k].type = "assistant" /\ disk[k].body = <<>> => disk[k].run # disk[c[1]].run

(* No request goes out with a call that has no result. *)
RequestHasResults ==
    At("request") => \A c \in PendingTools(disk) : c[1] \notin Context(disk)
=============================================================================

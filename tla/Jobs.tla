-------------------------------- MODULE Jobs --------------------------------
(***************************************************************************)
(* Cy's process manager (cy/internal/tools/process.go): Bash commands run  *)
(* in the foreground, in the background or for the user, become jobs when  *)
(* they take long, are inspected, stopped, timed out and cancelled, and    *)
(* report their end to the model once.  One tool call is in progress at a  *)
(* time; every job has a monitor of its own; the manager may be closed     *)
(* while a call is in progress.  What the commands write is left out.      *)
(***************************************************************************)
CONSTANT Jobs        \* the ids newJobID may return

VARIABLES
    jobRecord,       \* per id: the process, its entry and its record
    call,      \* the tool call in progress
    closing    \* "open", "closing" (stops remain) or "closed"

jobVars == <<jobRecord, call, closing>>

Unused == [proc |-> "none", killed |-> FALSE, listed |-> FALSE, status |-> "running",
           reason |-> FALSE, late |-> FALSE, seen |-> FALSE, told |-> FALSE]
IdleCall == [pc |-> "idle", kind |-> "none", id |-> "none"]

Ended(j)   == jobRecord[j].status # "running"   \* job.done is closed with it
Busy(pc)   == call.pc = pc
JobIds      == {j \in Jobs : jobRecord[j].listed}

Step(pc)   == call' = [call EXCEPT !.pc = pc]
Set(j, r)  == jobRecord' = [jobRecord EXCEPT ![j] = r]

JobsInit == /\ jobRecord = [j \in Jobs |-> Unused] /\ call = IdleCall /\ closing = "open"

----------------------------------------------------------------------------
\* start: checked, started, and checked again before the entry is made

StartBash(j, kind) ==
    /\ Busy("idle") /\ closing = "open" /\ jobRecord[j].proc = "none"
    /\ call' = [IdleCall EXCEPT !.pc = "starting", !.kind = kind, !.id = j]
    /\ UNCHANGED <<jobRecord, closing>>

StartProcess ==
    /\ Busy("starting")
    /\ \/ Set(call.id, [jobRecord[call.id] EXCEPT !.proc = "alive"]) /\ Step("registering")
       \/ call' = IdleCall /\ UNCHANGED jobRecord
    /\ UNCHANGED closing

\* a background call answers at once, with the job's status
ListJob == /\ Set(call.id, [jobRecord[call.id] EXCEPT !.listed = TRUE])
         /\ IF call.kind = "background" THEN call' = IdleCall ELSE Step("waiting")

Register ==
    /\ Busy("registering")
    /\ \/ closing = "open" /\ ListJob
       \/ /\ closing # "open" /\ call' = IdleCall
          /\ Set(call.id, [jobRecord[call.id] EXCEPT !.proc = "gone", !.killed = TRUE])
    /\ UNCHANGED closing

----------------------------------------------------------------------------
\* What the result of a call shows: the output read, then the mark, then the status

\* Mutant: a running job is marked as well
MarkAlways(j) == [jobRecord[j] EXCEPT !.seen = TRUE]

Mark(j) == [jobRecord[j] EXCEPT !.seen = @ \/ Ended(j)]

\* formatJob reads the status after the output was taken
Format == /\ Busy("format")
          /\ Set(call.id, [jobRecord[call.id] EXCEPT !.told = @ \/ Ended(call.id)])
          /\ call' = IdleCall /\ UNCHANGED closing

MarkSeen == /\ Busy("mark") /\ Set(call.id, Mark(call.id)) /\ Step("format") /\ UNCHANGED closing

\* completedForegroundResult: the command ended while the call waited
Foreground ==
    /\ Busy("waiting") /\ Ended(call.id)
    /\ Set(call.id, [jobRecord[call.id] EXCEPT !.seen = TRUE, !.listed = FALSE, !.told = TRUE])
    /\ call' = IdleCall /\ UNCHANGED closing

\* the yield timer: the output so far, and a last look at done
Yield == /\ Busy("waiting") /\ call.kind = "foreground"
         /\ call' = [call EXCEPT !.pc = "yielded"]
         /\ UNCHANGED <<jobRecord, closing>>

Yielded == /\ Busy("yielded")
           /\ IF Ended(call.id) THEN Step("waiting") ELSE Step("format")
           /\ UNCHANGED <<jobRecord, closing>>

\* job(action="output"): the output first, the mark after it
Inspect(j) == /\ Busy("idle") /\ j \in JobIds
              /\ call' = [pc |-> "mark", kind |-> "output", id |-> j]
              /\ UNCHANGED <<jobRecord, closing>>

\* stop: the reason only while the record says running, then the kill
Stopped(j) == IF Ended(j) THEN jobRecord[j] ELSE [jobRecord[j] EXCEPT !.reason = TRUE, !.killed = TRUE]

StopJob(j) == /\ Busy("idle") /\ j \in JobIds
              /\ Set(j, Stopped(j))
              /\ call' = [pc |-> "stopping", kind |-> "stop", id |-> j]
              /\ UNCHANGED closing

\* the cancelled call stops its job and forgets it whether it ended or not
Cancelled == /\ Busy("waiting")
             /\ Set(call.id, Stopped(call.id)) /\ Step("stopping") /\ UNCHANGED closing

StopEnds ==
    /\ Busy("stopping")
    /\ \/ /\ call.kind = "stop" /\ Ended(call.id)
          /\ Step("format")
          /\ Set(call.id, Mark(call.id))
       \/ call.kind = "stop" /\ call' = IdleCall /\ UNCHANGED jobRecord   \* three seconds, or cancelled
       \/ /\ call.kind # "stop" /\ call' = IdleCall
          /\ Set(call.id, [jobRecord[call.id] EXCEPT !.listed = FALSE])
    /\ UNCHANGED closing

\* DeliverCompletionEvents at a model boundary, between tool calls
DeliverCompletionEvents ==
    LET news == {j \in JobIds : Ended(j) /\ ~jobRecord[j].seen}
    IN  /\ Busy("idle") /\ news # {}
        /\ jobRecord' = [j \in Jobs |-> IF j \in news THEN [jobRecord[j] EXCEPT !.seen = TRUE, !.told = TRUE]
                                  ELSE jobRecord[j]]
        /\ UNCHANGED <<call, closing>>

----------------------------------------------------------------------------
\* The process and its monitor

Monitored(j) == ~(call.id = j /\ call.pc = "registering")

TimeOut(j) == /\ jobRecord[j].proc = "alive" /\ Monitored(j) /\ ~jobRecord[j].late
              /\ Set(j, [jobRecord[j] EXCEPT !.late = TRUE, !.killed = TRUE])
              /\ UNCHANGED <<call, closing>>

ExitProcess(j) == /\ jobRecord[j].proc = "alive"
                  /\ Set(j, [jobRecord[j] EXCEPT !.proc = "gone"]) /\ UNCHANGED <<call, closing>>

Finish(j) ==
    /\ jobRecord[j].proc = "gone" /\ Monitored(j) /\ jobRecord[j].status = "running"
    /\ \E s \in IF jobRecord[j].late THEN {"timed_out"} ELSE IF jobRecord[j].reason THEN {"killed"}
                ELSE {"completed", "failed"} :
         Set(j, [jobRecord[j] EXCEPT !.status = s])
    /\ UNCHANGED <<call, closing>>

----------------------------------------------------------------------------
\* Close: no start after the flag, then a stop for every job listed

CloseManager == closing = "open" /\ closing' = "closing" /\ UNCHANGED <<jobRecord, call>>

CloseStop(j) == /\ closing = "closing" /\ j \in JobIds /\ ~Ended(j)
                /\ Set(j, Stopped(j)) /\ UNCHANGED <<call, closing>>

CloseEnds == /\ closing = "closing" /\ \A j \in JobIds : Ended(j) \/ jobRecord[j].killed
             /\ closing' = "closed" /\ UNCHANGED <<jobRecord, call>>

JobsNext ==
    \/ \E j \in Jobs :
        \/ \E kind \in {"foreground", "background", "user"} : StartBash(j, kind)
        \/ Inspect(j) \/ StopJob(j) \/ TimeOut(j) \/ ExitProcess(j) \/ Finish(j)
        \/ CloseStop(j)
    \/ StartProcess \/ Register \/ Foreground \/ Yield \/ Yielded \/ MarkSeen \/ Format
    \/ Cancelled \/ StopEnds \/ DeliverCompletionEvents \/ CloseManager \/ CloseEnds

JobsSpec == JobsInit /\ [][JobsNext]_jobVars

----------------------------------------------------------------------------

(* Every record has the shape the code gives it, and a call its job. *)
JobRecords == [proc : {"none", "alive", "gone"}, killed : BOOLEAN, listed : BOOLEAN,
               status : {"running", "completed", "failed", "killed", "timed_out"},
               reason : BOOLEAN, late : BOOLEAN, seen : BOOLEAN, told : BOOLEAN]
CallPhases == {"idle", "starting", "registering", "waiting", "yielded", "mark", "format", "stopping"}
CallKinds == {"none", "foreground", "background", "user", "output", "stop"}
JobsTypeOK ==
    /\ jobRecord \in [Jobs -> JobRecords]
    /\ call \in [pc : CallPhases, kind : CallKinds, id : Jobs \cup {"none"}]
    /\ call.pc # "idle" => call.id \in Jobs
    /\ closing \in {"open", "closing", "closed"}

(* Once Close has returned every process that still runs has been sent the kill,
   whatever call was starting one meanwhile; only the call that has just started
   one still has to find the manager closed. *)
NoneSurvivesClose ==
    closing = "closed" => \A j \in Jobs :
        jobRecord[j].proc = "alive" => jobRecord[j].killed \/ (call.pc = "registering" /\ call.id = j)

(* The end of a job that the manager still lists is never kept from the model: a
   job marked as seen has ended and its end was shown, or the call that marked
   it is about to show it. *)
EndIsTold ==
    \A j \in Jobs : jobRecord[j].seen =>
        Ended(j) /\ (jobRecord[j].told \/ (call.pc = "format" /\ call.id = j))

=============================================================================

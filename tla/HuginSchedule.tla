--------------------------- MODULE HuginSchedule ---------------------------
(***************************************************************************)
(* hugin's scheduled checks (internal/engine): each process, the daemon or *)
(* a `hugin run-due`, reconciles the checks of the configuration it read   *)
(* with the rows of pkg/tasks and then runs what is due.  A run is stored, *)
(* analysed and moves the check's incident; `hugin cleanup` deletes old    *)
(* runs.  The queue's claims and leases are TaskQueue's and the incident's *)
(* announcements Incidents'; here a row's owner is who claimed it last.    *)
(***************************************************************************)
EXTENDS Integers, Sequences, FiniteSets

CONSTANTS Hugins,        \* processes
          Checks,        \* ids of checks
          MaxTries,      \* the queue's default MaxAttempts
          MaxEdits,      \* bound on the edits of hugin.yaml
          MaxCheckRuns   \* bound on the rows of runs

ASSUME HuginScheduleAssumption ==
    Checks # {} /\ MaxTries \in Nat \ {0} /\ MaxEdits \in Nat /\ MaxCheckRuns \in Nat

VARIABLES yaml,       \* hugin.yaml: each check's schedule, a number, NotConfigured without one
          edits,
          hugin,      \* each process: where it is and the configuration it read
          checkTask,  \* the row hugin.check:<id>
          checkRuns,  \* table runs: [check, age]; the index is the id
          incident    \* the check's latest incident: active with its first and last run

scheduleVars == <<yaml, edits, hugin, checkTask, checkRuns, incident>>

NotConfigured == 0
Nobody == "nobody"
NoTask == [schedule |-> NotConfigured, attempts |-> 0, next |-> "none", owner |-> Nobody]
NoIncident == [active |-> FALSE, first |-> 0, last |-> 0]
Off == [at |-> "off", cfg |-> [c \in Checks |-> NotConfigured], todo |-> {},
        check |-> CHOOSE c \in Checks : TRUE, run |-> 0, alone |-> FALSE]

HuginUp(p) == hugin[p].at # "off"
HuginAt(p, place) == hugin' = [hugin EXCEPT ![p].at = place]
HuginLoop(p) == hugin' = [hugin EXCEPT ![p].at = "loop", ![p].check = Off.check, ![p].run = 0]

ScheduleInit ==
    /\ yaml \in [Checks -> {NotConfigured, 1}] /\ edits = 0
    /\ hugin = [p \in Hugins |-> Off]
    /\ checkTask = [c \in Checks |-> NoTask]
    /\ checkRuns = <<>>
    /\ incident = [c \in Checks |-> NoIncident]

-----------------------------------------------------------------------------
(* The operator edits, adds or removes a check. *)
EditConfig ==
    /\ edits < MaxEdits /\ edits' = edits + 1
    /\ \E c \in Checks : yaml' = [yaml EXCEPT ![c] = IF @ = NotConfigured THEN edits + 2 ELSE NotConfigured]
    /\ UNCHANGED <<hugin, checkTask, checkRuns, incident>>
EditCheckSchedule ==
    /\ edits < MaxEdits /\ edits' = edits + 1
    /\ \E c \in Checks : yaml[c] # NotConfigured /\ yaml' = [yaml EXCEPT ![c] = edits + 2]
    /\ UNCHANGED <<hugin, checkTask, checkRuns, incident>>

(* checkTasks: the rows a configuration asks for. *)
Desired(cfg) == {c \in Checks : cfg[c] # NotConfigured}
StartHugin(p) ==
    /\ ~HuginUp(p)
    /\ hugin' = [q \in Hugins |->
                   IF q = p THEN [Off EXCEPT !.at = "sync", !.cfg = yaml, !.todo = Desired(yaml),
                                             !.alone = \A k \in Hugins : ~HuginUp(k)]
                   ELSE [hugin[q] EXCEPT !.alone = FALSE]]
    /\ UNCHANGED <<yaml, edits, checkTask, checkRuns, incident>>

(* Mutant: only the row's id is compared. *)
MatchesById(task, schedule) == TRUE
(* scheduledCheckTaskMatches compares all but when the row is next due. *)
Matches(task, schedule) == task.schedule = schedule

(* syncCheckTasks, one statement at a time: Get, *)
GetTask(p, c) ==
    /\ hugin[p].at = "sync" /\ c \in hugin[p].todo
    /\ hugin' = [hugin EXCEPT ![p].todo = @ \ {c}, ![p].check = c,
                   ![p].at = IF checkTask[c] = NoTask THEN "enqueue"
                             ELSE IF Matches(checkTask[c], hugin[p].cfg[c]) THEN "sync" ELSE "delete"]
    /\ UNCHANGED <<yaml, edits, checkTask, checkRuns, incident>>
(* Delete, of a row that may be another process's by now, *)
DeleteTask(p) ==
    /\ hugin[p].at = "delete"
    /\ checkTask' = [checkTask EXCEPT ![hugin[p].check] = NoTask]
    /\ HuginAt(p, "enqueue")
    /\ UNCHANGED <<yaml, edits, checkRuns, incident>>
(* and Enqueue, which fails, and the process with it, on a row that exists. *)
EnqueueTask(p) ==
    /\ hugin[p].at = "enqueue"
    /\ LET c == hugin[p].check IN
       IF checkTask[c] # NoTask THEN HuginAt(p, "off") /\ UNCHANGED checkTask
       ELSE /\ checkTask' = [checkTask EXCEPT ![c] = [NoTask EXCEPT !.schedule = hugin[p].cfg[c],
                                                                   !.next = "later"]]
            /\ HuginAt(p, "sync")
    /\ UNCHANGED <<yaml, edits, checkRuns, incident>>
SyncEnds(p) ==
    /\ hugin[p].at = "sync" /\ hugin[p].todo = {}
    /\ HuginLoop(p)
    /\ UNCHANGED <<yaml, edits, checkTask, checkRuns, incident>>

-----------------------------------------------------------------------------
ComesDue(c) ==
    /\ checkTask[c].next = "later"
    /\ checkTask' = [checkTask EXCEPT ![c].next = "due"]
    /\ UNCHANGED <<yaml, edits, hugin, checkRuns, incident>>

ClaimTask(p, c) ==
    /\ hugin[p].at = "loop"
    /\ checkTask[c].next = "due" /\ checkTask[c].owner = Nobody
    /\ checkTask' = [checkTask EXCEPT ![c].owner = p]
    /\ hugin' = [hugin EXCEPT ![p].at = "handle", ![p].check = c]
    /\ UNCHANGED <<yaml, edits, checkRuns, incident>>

(* Finish changes the row only for the claim that holds it. *)
Finish(p, row) ==
    LET c == hugin[p].check IN
    checkTask' = IF checkTask[c].owner = p THEN [checkTask EXCEPT ![c] = row] ELSE checkTask
Advanced(c) == [checkTask[c] EXCEPT !.attempts = 0, !.next = "later", !.owner = Nobody]
Failed(c) ==
    [checkTask[c] EXCEPT !.attempts = @ + 1, !.owner = Nobody,
                         !.next = IF checkTask[c].attempts + 1 >= MaxTries THEN "never" ELSE "later"]

(* The handler: a check that is not in this process's configuration is
   discarded, *)
DiscardRemoved(p) ==
    /\ hugin[p].at = "handle" /\ hugin[p].cfg[hugin[p].check] = NotConfigured
    /\ Finish(p, NoTask) /\ HuginLoop(p)
    /\ UNCHANGED <<yaml, edits, checkRuns, incident>>
(* a run that cannot be stored is a failed attempt, *)
RunFails(p) ==
    /\ hugin[p].at = "handle" /\ hugin[p].cfg[hugin[p].check] # NotConfigured
    /\ Finish(p, Failed(hugin[p].check)) /\ HuginLoop(p)
    /\ UNCHANGED <<yaml, edits, checkRuns, incident>>
InsertRun(p) ==
    /\ hugin[p].at = "handle" /\ hugin[p].cfg[hugin[p].check] # NotConfigured
    /\ Len(checkRuns) < MaxCheckRuns
    /\ checkRuns' = Append(checkRuns, [check |-> hugin[p].check, age |-> "new"])
    /\ hugin' = [hugin EXCEPT ![p].at = "analyse", ![p].run = Len(checkRuns) + 1]
    /\ UNCHANGED <<yaml, edits, checkTask, incident>>
(* and after an analysis, or one that fails, comes the next occurrence. *)
AnalyseRun(p, verdict) ==
    LET c == hugin[p].check
        run == hugin[p].run
    IN /\ hugin[p].at = "analyse"
       /\ incident' = CASE verdict = "alert" /\ incident[c].active -> [incident EXCEPT ![c].last = run]
                        [] verdict = "alert" /\ ~incident[c].active ->
                             [incident EXCEPT ![c] = [active |-> TRUE, first |-> run, last |-> run]]
                        [] verdict = "normal" -> [incident EXCEPT ![c].active = FALSE]
                        [] verdict = "failed" -> incident
       /\ Finish(p, Advanced(c)) /\ HuginLoop(p)
       /\ UNCHANGED <<yaml, edits, checkRuns>>

(* A process ends anywhere; its claim is free once the lease is over. *)
StopHugin(p) ==
    /\ HuginUp(p)
    /\ hugin' = [hugin EXCEPT ![p] = Off]
    /\ checkTask' = [c \in Checks |-> IF checkTask[c].owner = p THEN [checkTask[c] EXCEPT !.owner = Nobody]
                                      ELSE checkTask[c]]
    /\ UNCHANGED <<yaml, edits, checkRuns, incident>>

-----------------------------------------------------------------------------
(* Mutant: only the run that opened the incident is kept. *)
NamedFirst(r) == \E c \in Checks : incident[c].active /\ r = incident[c].first
(* `hugin cleanup`: the retention is longer than any run takes. *)
Named(r) == \E c \in Checks : incident[c].active /\ r \in {incident[c].first, incident[c].last}
TwoWeeksPass ==
    /\ \A p \in Hugins : hugin[p].at # "analyse"
    /\ checkRuns' = [r \in DOMAIN checkRuns |->
                       IF checkRuns[r].age = "new" THEN [checkRuns[r] EXCEPT !.age = "old"] ELSE checkRuns[r]]
    /\ checkRuns' # checkRuns
    /\ UNCHANGED <<yaml, edits, hugin, checkTask, incident>>
DeleteOldRuns ==
    /\ checkRuns' = [r \in DOMAIN checkRuns |->
                       IF checkRuns[r].age = "old" /\ ~Named(r) THEN [checkRuns[r] EXCEPT !.age = "deleted"]
                       ELSE checkRuns[r]]
    /\ checkRuns' # checkRuns
    /\ UNCHANGED <<yaml, edits, hugin, checkTask, incident>>
ResolveByHand(c) ==
    /\ incident[c].active
    /\ incident' = [incident EXCEPT ![c].active = FALSE]
    /\ UNCHANGED <<yaml, edits, hugin, checkTask, checkRuns>>

ScheduleNext ==
    \/ EditConfig \/ EditCheckSchedule \/ TwoWeeksPass \/ DeleteOldRuns
    \/ \E c \in Checks : ComesDue(c) \/ ResolveByHand(c)
    \/ \E p \in Hugins :
          \/ StartHugin(p) \/ DeleteTask(p) \/ EnqueueTask(p) \/ SyncEnds(p)
          \/ DiscardRemoved(p) \/ RunFails(p) \/ InsertRun(p) \/ StopHugin(p)
          \/ \E c \in Checks : GetTask(p, c) \/ ClaimTask(p, c)
          \/ \E verdict \in {"alert", "normal", "failed"} : AnalyseRun(p, verdict)

ScheduleSpec == ScheduleInit /\ [][ScheduleNext]_scheduleVars

-----------------------------------------------------------------------------
(* Every variable has the shape the code gives it. *)
Places == {"off", "sync", "delete", "enqueue", "loop", "handle", "analyse"}
HuginRecords == [at : Places, cfg : [Checks -> Nat], todo : SUBSET Checks, check : Checks, run : Nat,
                 alone : BOOLEAN]
TaskRecords == [schedule : Nat, attempts : Nat, next : {"none", "later", "due", "never"},
                owner : Hugins \cup {Nobody}]
RunRecords == [check : Checks, age : {"new", "old", "deleted"}]
IncidentRecords == [active : BOOLEAN, first : Nat, last : Nat]
ScheduleTypeOK ==
    /\ yaml \in [Checks -> Nat] /\ edits \in Nat
    /\ hugin \in [Hugins -> HuginRecords]
    /\ checkTask \in [Checks -> TaskRecords]
    /\ checkRuns \in Seq(RunRecords)
    /\ incident \in [Checks -> IncidentRecords]

(* A process that synced alone, of a configuration nobody has edited since. *)
Settled(p) ==
    hugin[p].alone /\ hugin[p].cfg = yaml /\ hugin[p].at \notin {"off", "sync", "delete", "enqueue"}

(* Whatever crashes, racing syncs and older configurations left behind,
   syncCheckTasks gives every check a row with the schedule it is configured
   with (engine.go:306-325). *)
SyncReconciles ==
    \A p \in Hugins : Settled(p) =>
        \A c \in Checks : yaml[c] # NotConfigured => checkTask[c].schedule = yaml[c]

(* The runs an active incident names are there to be shown (sqlite.go:595). *)
ActiveIncidentsHaveRuns ==
    \A c \in Checks : incident[c].active =>
        \A r \in {incident[c].first, incident[c].last} :
            checkRuns[r].age # "deleted" /\ checkRuns[r].check = c
=============================================================================

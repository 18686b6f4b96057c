----------------------------- MODULE Incidents -----------------------------
(***************************************************************************)
(* hugin's incidents: what follows a stored run of one check.  The model's  *)
(* verdict, or its failure, goes through incidents.Manager.Process for the  *)
(* check itself or for the separate subject that stands for an analysis     *)
(* that is unavailable, and a process that has decided to tell the operator *)
(* pushes and then records the push.  Every statement on the store is a     *)
(* step of its own; it may fail, the process may stop, the clock moves, and *)
(* the operator may resolve incidents by hand meanwhile.  Processes are the *)
(* daemon and any `hugin run` of the same check.                            *)
(***************************************************************************)
EXTENDS Integers, Sequences, FiniteSets

CONSTANTS
    Processes,
    Cooldown,          \* alert.cooldown, in seconds
    RepeatAfter,       \* alert.repeat_after, in seconds; 0 is unset
    NotifyOnResolved,  \* alert.notify_on_resolved
    MaxTime,           \* bound: seconds
    MaxIncidents,      \* bound: rows of incidents
    MaxFaults          \* bound: failing statements and pushes, and stops

ASSUME IncidentsAssumption ==
    /\ Cooldown \in Nat /\ RepeatAfter \in Nat
    /\ NotifyOnResolved \in {"yes", "no"}
    /\ MaxTime \in Nat /\ MaxIncidents \in Nat /\ MaxFaults \in Nat

VARIABLES
    rows,    \* table incidents, in the order of created_at
    proc,    \* what each process is doing with the run it stored
    clock,
    faults

vars == <<rows, proc, clock, faults>>

Never == -1       \* last_notified_at IS NULL
Unavailable == 0  \* the analysis failed: no verdict

(* severityRank *)
Normal == 1
Suspicious == 2
Urgent == 3

Row == [subject : {"check", "analysis"}, second : Nat, status : {"active", "resolved"},
        severity : Suspicious..Urgent, notified : Int]

(* verdict and alert are the analysis; subject is what Process works on;    *)
(* row, rank and last are the active incident as Process read it at now.    *)
Doing == [at : {"idle", "analyse", "recover", "read", "write", "notify", "mark"},
          verdict : Unavailable..Urgent, alert : {"yes", "no"},
          subject : {"check", "analysis"}, event : {"none", "created", "updated", "resolved"},
          row : Nat, rank : Nat, last : Int, now : Nat]

Idle == [at |-> "idle", verdict |-> Unavailable, alert |-> "no", subject |-> "check",
         event |-> "none", row |-> 0, rank |-> 0, last |-> Never, now |-> 0]

(* The type invariant.  An incident is told of only after it was opened.    *)
TypeOK ==
    /\ rows \in Seq(Row)
    /\ proc \in [Processes -> Doing]
    /\ clock \in 0..MaxTime
    /\ faults \in 0..MaxFaults
    /\ \A i \in DOMAIN rows : rows[i].notified = Never \/ rows[i].notified \in rows[i].second..clock
    /\ \A p \in Processes : proc[p].row <= Len(rows) /\ proc[p].now <= clock

Init ==
    /\ rows = <<>>
    /\ proc = [p \in Processes |-> Idle]
    /\ clock = 0
    /\ faults = 0

-----------------------------------------------------------------------------
Active(subject) == {i \in DOMAIN rows : rows[i].subject = subject /\ rows[i].status = "active"}

(* ActiveIncident: the latest one, 0 without one.                           *)
ActiveIncident(subject) ==
    IF Active(subject) = {} THEN 0
    ELSE CHOOSE i \in Active(subject) : \A j \in Active(subject) : j <= i

(* What Process is given: the analysis subject is urgent when the analysis  *)
(* failed and normal when it worked.                                        *)
Severity(p) ==
    IF proc[p].subject = "check" THEN proc[p].verdict
    ELSE IF proc[p].verdict = Unavailable THEN Urgent ELSE Normal
Alerts(p) == IF proc[p].subject = "check" THEN proc[p].alert = "yes" ELSE proc[p].verdict = Unavailable

Escalated(p) == Alerts(p) /\ Severity(p) > proc[p].rank

(* Mutant: an incident that was never announced waits like any other.       *)
ShouldNotifySilent(now, last) ==
    /\ last # Never
    /\ now - last >= Cooldown
    /\ IF RepeatAfter > 0 THEN now - last >= RepeatAfter ELSE Cooldown > 0

(* Mutant: the longer reminder interval is only an alternative.             *)
ShouldNotifyEither(now, last) ==
    \/ last = Never
    \/ Cooldown > 0 /\ now - last >= Cooldown
    \/ RepeatAfter > 0 /\ now - last >= RepeatAfter

(* shouldNotifyActive *)
ShouldNotify(now, last) ==
    \/ last = Never
    \/ /\ now - last >= Cooldown
       /\ IF RepeatAfter > 0 THEN now - last >= RepeatAfter ELSE Cooldown > 0

Fault == faults < MaxFaults /\ faults' = faults + 1
Step(p, next) == proc' = [proc EXCEPT ![p] = next]

(* processIncident returned without an error: after the recovery of the     *)
(* analysis comes the check's own verdict.                                  *)
Done(p) ==
    IF proc[p].subject = "analysis" /\ proc[p].verdict # Unavailable
    THEN [Idle EXCEPT !.at = "read", !.verdict = proc[p].verdict, !.alert = proc[p].alert]
    ELSE Idle

-----------------------------------------------------------------------------
(* The check ran and its run is stored.                                     *)
BeginRun(p) ==
    /\ proc[p].at = "idle"
    /\ Step(p, [Idle EXCEPT !.at = "analyse"])
    /\ UNCHANGED <<rows, clock, faults>>

(* The model answers, or no analysis can be had; either is stored.          *)
Analyse(p, verdict, alert) ==
    /\ proc[p].at = "analyse"
    /\ verdict \in {Unavailable, Normal} => alert = "no"
    /\ Step(p, IF verdict = Unavailable
               THEN [proc[p] EXCEPT !.at = "read", !.subject = "analysis"]
               ELSE [proc[p] EXCEPT !.at = "recover", !.verdict = verdict, !.alert = alert])
    /\ UNCHANGED <<rows, clock, faults>>

(* resolveAnalysisUnavailable: a working analysis ends that incident first. *)
Recover(p) ==
    /\ proc[p].at = "recover"
    /\ Step(p, [proc[p] EXCEPT !.at = "read",
                  !.subject = IF ActiveIncident("analysis") = 0 THEN "check" ELSE "analysis"])
    /\ UNCHANGED <<rows, clock, faults>>

(* Process reads the clock and the active incident.                         *)
ReadActive(p) ==
    /\ proc[p].at = "read"
    /\ LET i == ActiveIncident(proc[p].subject) IN
       Step(p, IF i = 0 /\ (Severity(p) = Normal \/ ~Alerts(p)) THEN Done(p)
               ELSE [proc[p] EXCEPT !.at = "write", !.row = i, !.now = clock,
                       !.rank = IF i = 0 THEN 0 ELSE rows[i].severity,
                       !.last = IF i = 0 THEN Never ELSE rows[i].notified])
    /\ UNCHANGED <<rows, clock, faults>>

-----------------------------------------------------------------------------
(* Case 1: normal again.                                                    *)
Resolve(p) ==
    /\ proc[p].at = "write"
    /\ Severity(p) = Normal
    /\ rows' = [rows EXCEPT ![proc[p].row].status = "resolved"]
    /\ Step(p, IF NotifyOnResolved = "yes"
               THEN [proc[p] EXCEPT !.at = "notify", !.event = "resolved"] ELSE Done(p))
    /\ UNCHANGED <<clock, faults>>

(* Case 2: a new incident.  Its id holds the second, and must be new.       *)
Taken(subject, second) == \E i \in DOMAIN rows : rows[i].subject = subject /\ rows[i].second = second

NewRow(p) == [subject |-> proc[p].subject, second |-> proc[p].now, status |-> "active",
              severity |-> Severity(p), notified |-> Never]

Create(p) ==
    /\ proc[p].at = "write"
    /\ Severity(p) # Normal /\ proc[p].row = 0
    /\ ~Taken(proc[p].subject, proc[p].now) /\ Len(rows) < MaxIncidents
    /\ rows' = Append(rows, NewRow(p))
    /\ Step(p, [proc[p] EXCEPT !.at = "notify", !.event = "created", !.row = Len(rows) + 1])
    /\ UNCHANGED <<clock, faults>>

(* The primary key is taken (or the model's bound reached): an error.       *)
CreateConflicts(p) ==
    /\ proc[p].at = "write"
    /\ Severity(p) # Normal /\ proc[p].row = 0
    /\ Taken(proc[p].subject, proc[p].now) \/ Len(rows) = MaxIncidents
    /\ Step(p, Idle)
    /\ UNCHANGED <<rows, clock, faults>>

(* Case 3: still abnormal.  The row is refreshed whatever its status is by  *)
(* now, and the operator told of an escalation, or when it is time.         *)
Update(p) ==
    /\ proc[p].at = "write"
    /\ Severity(p) # Normal /\ proc[p].row # 0
    /\ rows' = [rows EXCEPT ![proc[p].row].severity = Severity(p)]
    /\ Step(p, IF Escalated(p) \/ ShouldNotify(proc[p].now, proc[p].last)
               THEN [proc[p] EXCEPT !.at = "notify", !.event = "updated"] ELSE Done(p))
    /\ UNCHANGED <<clock, faults>>

(* The push, and MarkIncidentNotified with the time after it.               *)
Notify(p) ==
    /\ proc[p].at = "notify"
    /\ Step(p, [proc[p] EXCEPT !.at = "mark"])
    /\ UNCHANGED <<rows, clock, faults>>

Mark(p) ==
    /\ proc[p].at = "mark"
    /\ rows' = [rows EXCEPT ![proc[p].row].notified = clock]
    /\ Step(p, Done(p))
    /\ UNCHANGED <<clock, faults>>

-----------------------------------------------------------------------------
(* Mutant: a recovery of the analysis that fails is only logged, and a       *)
(* failed look is taken for no active incident, the way the prompt does.    *)
StatementFailsUnseen(p) ==
    /\ proc[p].at \in {"analyse", "recover", "read", "write"}
    /\ Fault
    /\ Step(p, IF proc[p].at = "recover" \/ (proc[p].subject = "analysis" /\ proc[p].verdict # Unavailable)
               THEN [Idle EXCEPT !.at = "read", !.verdict = proc[p].verdict, !.alert = proc[p].alert]
               ELSE IF proc[p].at = "read" /\ Alerts(p)
               THEN [proc[p] EXCEPT !.at = "write", !.now = clock] ELSE Idle)
    /\ UNCHANGED <<rows, clock>>

(* A statement fails: the pipeline's error ends the run, and a scheduled    *)
(* check goes on to its next occurrence.                                    *)
StatementFails(p) ==
    /\ proc[p].at \in {"analyse", "recover", "read", "write"}
    /\ Fault
    /\ Step(p, Idle)
    /\ UNCHANGED <<rows, clock>>

(* A push that fails, or cannot be recorded, is logged.                     *)
NotifyFails(p) ==
    /\ proc[p].at \in {"notify", "mark"}
    /\ Fault
    /\ Step(p, Done(p))
    /\ UNCHANGED <<rows, clock>>

(* The process stops, or its context is cancelled.                          *)
Crash(p) ==
    /\ proc[p].at # "idle"
    /\ Fault
    /\ Step(p, Idle)
    /\ UNCHANGED <<rows, clock>>

(* `hugin resolve`, on any incident.                                        *)
HandleResolve ==
    /\ \E i \in DOMAIN rows :
          /\ rows[i].status = "active"
          /\ rows' = [rows EXCEPT ![i].status = "resolved"]
    /\ UNCHANGED <<proc, clock, faults>>

Tick == clock < MaxTime /\ clock' = clock + 1 /\ UNCHANGED <<rows, proc, faults>>

-----------------------------------------------------------------------------
Statement(p) ==
    \/ Recover(p) \/ ReadActive(p) \/ Resolve(p) \/ Create(p) \/ CreateConflicts(p)
    \/ Update(p) \/ Notify(p) \/ Mark(p)

Verdict(p) == \E verdict \in Normal..Urgent, alert \in {"yes", "no"} : Analyse(p, verdict, alert)

Next ==
    \/ \E p \in Processes :
          \/ BeginRun(p) \/ Verdict(p) \/ Analyse(p, Unavailable, "no") \/ Statement(p)
          \/ StatementFails(p) \/ NotifyFails(p) \/ Crash(p)
    \/ HandleResolve
    \/ Tick

Spec == Init /\ [][Next]_vars

(* The check's schedule brings one run after another, a run that has begun  *)
(* goes on, and the model answers again and again.                          *)
FairSpec ==
    /\ Spec
    /\ \A p \in Processes :
          WF_vars(BeginRun(p)) /\ WF_vars(Statement(p)) /\ SF_vars(Verdict(p))

-----------------------------------------------------------------------------
(* Repeated abnormal runs are one incident (README.md:89): a subject never  *)
(* has two active incidents.  Process reads and then inserts, so that this  *)
(* is a matter of runs that do not overlap.                                 *)
OneActive == \A subject \in {"check", "analysis"} : Cardinality(Active(subject)) <= 1

(* Alert timing semantics (README.md:291-293): a reminder, which is an      *)
(* update that does not escalate, is pushed when both intervals have passed *)
(* since the last push on record, through restarts and failed pushes.       *)
ReminderSpacing ==
    \A p \in Processes :
        proc[p].at = "notify" /\ proc[p].event = "updated" /\ ~Escalated(p) =>
            LET last == rows[proc[p].row].notified IN
            last # Never => clock - last >= Cooldown /\ clock - last >= RepeatAfter

(* A verdict is acted on only when no incident says any more that the       *)
(* analysis is unavailable (the order of runAnalysis).                      *)
VerdictWithAnalysisClosed ==
    \A p \in Processes :
        proc[p].subject = "check" /\ proc[p].at \in {"write", "notify", "mark"} =>
            Active("analysis") = {}

(* What the active incidents say agrees with the run that is acting on the   *)
(* check: each subject has one, and none says that the analysis the run acts *)
(* on is unavailable, whichever statement of this or an earlier run failed.  *)
IncidentsAgree == OneActive /\ VerdictWithAnalysisClosed

(* An incident that was resolved, by a run or by hand, is never active      *)
(* again, also when a run that read it before writes to it.                 *)
ResolvedStays ==
    [][\A i \in DOMAIN rows : rows[i].status = "resolved" => rows'[i].status = "resolved"]_vars

Unannounced ==
    {i \in DOMAIN rows : rows[i].status = "active" /\ rows[i].notified = Never}

(* A push that failed is made up for: an active incident nobody was told of *)
(* is announced by a later run, or resolved                                 *)
(* (TestProcessRetriesNotificationWhenIncidentWasNeverNotified).            *)
EveryIncidentAnnounced ==
    \A i \in 1..MaxIncidents : i \in Unannounced ~> i \notin Unannounced
=============================================================================

------------------------------ MODULE MCHugin ------------------------------
(***************************************************************************)
(* hugin for TLC: the incidents of one check, or the schedule of several   *)
(* processes.  In each behaviour one of the two moves.                     *)
(***************************************************************************)
EXTENDS Incidents, HuginSchedule

VARIABLE watched  \* "incidents" or "schedule"

huginVars == <<watched, vars, scheduleVars>>

HuginInit ==
    /\ watched \in {"incidents", "schedule"}
    /\ Init /\ ScheduleInit
    /\ watched = "incidents" => \A c \in Checks : yaml[c] # NotConfigured

HuginNext ==
    \/ watched = "incidents" /\ Next /\ UNCHANGED <<watched, scheduleVars>>
    \/ watched = "schedule" /\ ScheduleNext /\ UNCHANGED <<watched, vars>>

(* The fairness of Incidents' FairSpec, where the incidents move.           *)
Judged(A) == watched = "incidents" /\ A

HuginSpec ==
    /\ HuginInit /\ [][HuginNext]_huginVars
    /\ \A p \in Processes : /\ WF_vars(Judged(BeginRun(p))) /\ WF_vars(Judged(Statement(p)))
                            /\ SF_vars(Judged(Verdict(p)))
=============================================================================

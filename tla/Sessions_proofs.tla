-------------------------- MODULE Sessions_proofs --------------------------
(***************************************************************************)
(* Proofs about the parts of a session of cy that MCSessions checks side   *)
(* by side: its jobs, its terminal, its journal and its pages of a file.   *)
(***************************************************************************)
EXTENDS CyTerminal, CySession, Jobs, FileTools, SequenceTheorems, FiniteSetTheorems,
        WellFoundedInduction, NaturalsInduction, TLAPS

-----------------------------------------------------------------------------
(* The jobs.                                                                *)

(* A process that has not been started has no end, and one whose job has    *)
(* ended is gone.                                                           *)
EndsFollowExits ==
    \A j \in Jobs : /\ Ended(j) => jobRecord[j].proc = "gone"
                    /\ call.pc = "starting" /\ call.id = j => jobRecord[j].proc = "none"

(* A process that runs has its entry, or has been sent the kill; only the   *)
(* call that has just started one has still to make the entry.              *)
UnlistedAreKilled ==
    \A j \in Jobs : jobRecord[j].proc = "alive" =>
        jobRecord[j].listed \/ jobRecord[j].killed \/ (call.pc = "registering" /\ call.id = j)
StoppedAreKilled == call.pc = "stopping" => Ended(call.id) \/ jobRecord[call.id].killed

JobsInv == /\ JobsTypeOK /\ EndsFollowExits /\ UnlistedAreKilled /\ StoppedAreKilled
           /\ NoneSurvivesClose /\ EndIsTold

LEMMA JobsInitial == JobsInit => JobsInv
BY DEF JobsInit, JobsInv, JobsTypeOK, EndsFollowExits, UnlistedAreKilled, StoppedAreKilled,
      NoneSurvivesClose,
     EndIsTold, Unused, IdleCall, Ended, JobRecords, CallPhases, CallKinds

(* A record keeps its shape under what the steps do to it.                  *)
LEMMA JobRecordsKept ==
    ASSUME NEW r \in JobRecords, NEW b \in BOOLEAN, NEW c \in BOOLEAN
    PROVE  /\ [r EXCEPT !.listed = b] \in JobRecords /\ [r EXCEPT !.seen = b] \in JobRecords
           /\ [r EXCEPT !.told = b] \in JobRecords
           /\ [r EXCEPT !.seen = b, !.told = c] \in JobRecords
           /\ [r EXCEPT !.seen = TRUE, !.listed = FALSE, !.told = TRUE] \in JobRecords
           /\ [r EXCEPT !.reason = TRUE, !.killed = TRUE] \in JobRecords
           /\ [r EXCEPT !.late = TRUE, !.killed = TRUE] \in JobRecords
           /\ [r EXCEPT !.proc = "alive"] \in JobRecords /\ [r EXCEPT !.proc = "gone"] \in JobRecords
           /\ [r EXCEPT !.proc = "gone", !.killed = TRUE] \in JobRecords
           /\ \A s \in {"timed_out", "killed", "completed", "failed"} : [r EXCEPT !.status = s] \in JobRecords
BY DEF JobRecords

LEMMA JobRecordTypeKept == JobsTypeOK /\ [JobsNext]_jobVars => jobRecord' \in [Jobs -> JobRecords]
<1> SUFFICES ASSUME JobsTypeOK, [JobsNext]_jobVars PROVE jobRecord' \in [Jobs -> JobRecords]
  OBVIOUS
<1>t. /\ jobRecord \in [Jobs -> JobRecords] /\ \A k \in Jobs : jobRecord[k] \in JobRecords
      /\ call \in [pc : CallPhases, kind : CallKinds, id : Jobs \cup {"none"}]
      /\ call.pc # "idle" => call.id \in Jobs
  BY DEF JobsTypeOK
<1>b. \A k \in Jobs : /\ (jobRecord[k].seen \/ Ended(k)) \in BOOLEAN
                      /\ (jobRecord[k].told \/ Ended(k)) \in BOOLEAN
  BY <1>t DEF JobRecords, Ended
<1> USE JobRecordsKept
<1>0. CASE UNCHANGED jobVars
  BY <1>0, <1>t DEF jobVars, Set
<1>1. ASSUME NEW j \in Jobs, NEW kind \in {"foreground", "background", "user"}, StartBash(j, kind) PROVE jobRecord' \in [Jobs -> JobRecords]
  BY <1>1, <1>t DEF StartBash, Busy, IdleCall, Set
<1>2. ASSUME NEW j \in Jobs, Inspect(j) PROVE jobRecord' \in [Jobs -> JobRecords]
  BY <1>2, <1>t DEF Inspect, Busy, JobIds, Set
<1>3. ASSUME NEW j \in Jobs, StopJob(j) PROVE jobRecord' \in [Jobs -> JobRecords]
  BY <1>3, <1>t DEF StopJob, Busy, JobIds, Stopped, Set
<1>4. ASSUME NEW j \in Jobs, TimeOut(j) PROVE jobRecord' \in [Jobs -> JobRecords]
  BY <1>4, <1>t DEF TimeOut, Set, Monitored
<1>5. ASSUME NEW j \in Jobs, ExitProcess(j) PROVE jobRecord' \in [Jobs -> JobRecords]
  BY <1>5, <1>t DEF ExitProcess, Set
<1>6. ASSUME NEW j \in Jobs, Finish(j) PROVE jobRecord' \in [Jobs -> JobRecords]
  <2>1. PICK s \in {"timed_out", "killed", "completed", "failed"} :
               jobRecord' = [jobRecord EXCEPT ![j] = [jobRecord[j] EXCEPT !.status = s]]
    BY <1>6 DEF Finish, Set
  <2> QED BY <2>1, <1>t
<1>7. ASSUME NEW j \in Jobs, CloseStop(j) PROVE jobRecord' \in [Jobs -> JobRecords]
  BY <1>7, <1>t DEF CloseStop, Set, Stopped, JobIds
<1>8. CASE StartProcess
  <2>1. [jobRecord[call.id] EXCEPT !.proc = "alive"] \in JobRecords
    BY <1>8, <1>t DEF StartProcess, Busy
  <2> QED BY <1>8, <1>t, <2>1 DEF StartProcess, Set
<1>9. CASE Register
  <2>1. call.id \in Jobs
    BY <1>9, <1>t DEF Register, Busy
  <2>2. /\ [jobRecord[call.id] EXCEPT !.listed = TRUE] \in JobRecords
        /\ [jobRecord[call.id] EXCEPT !.proc = "gone", !.killed = TRUE] \in JobRecords
    BY <2>1, <1>t
  <2> QED BY <1>9, <1>t, <2>1, <2>2 DEF Register, ListJob, Set
<1>10. CASE Foreground
  BY <1>10, <1>t DEF Foreground, Busy, Set, IdleCall
<1>11. CASE Yield
  BY <1>11, <1>t DEF Yield, Busy, Set
<1>12. CASE Yielded
  BY <1>12, <1>t DEF Yielded, Busy, Step, Set
<1>13. CASE MarkSeen
  BY <1>13, <1>t, <1>b DEF MarkSeen, Mark, Busy, Set
<1>14. CASE Format
  BY <1>14, <1>t, <1>b DEF Format, Busy, Set
<1>15. CASE Cancelled
  BY <1>15, <1>t DEF Cancelled, Stopped, Busy, Set, Step
<1>16. CASE StopEnds
  <2>1. Mark(call.id) \in JobRecords
    BY <1>16, <1>t, <1>b DEF StopEnds, Busy, Mark
  <2>2. [jobRecord[call.id] EXCEPT !.listed = FALSE] \in JobRecords
    BY <1>16, <1>t DEF StopEnds, Busy
  <2> QED BY <1>16, <1>t, <2>1, <2>2 DEF StopEnds, Set
<1>17. CASE DeliverCompletionEvents
  BY <1>17, <1>t DEF DeliverCompletionEvents, Busy, JobIds, Set
<1>18. CASE CloseManager
  BY <1>18, <1>t DEF CloseManager, Set
<1>19. CASE CloseEnds
  BY <1>19, <1>t DEF CloseEnds, JobIds, Set
<1> QED BY <1>0, <1>1, <1>2, <1>3, <1>4, <1>5, <1>6, <1>7, <1>8, <1>9, <1>10, <1>11, <1>12, <1>13,
      <1>14, <1>15, <1>16, <1>17, <1>18, <1>19 DEF JobsNext

LEMMA CallTypeKept ==
    JobsTypeOK /\ [JobsNext]_jobVars =>
        /\ call' \in [pc : CallPhases, kind : CallKinds, id : Jobs \cup {"none"}]
        /\ call'.pc # "idle" => call'.id \in Jobs
        /\ closing' \in {"open", "closing", "closed"}
<1> DEFINE CallOK == /\ call' \in [pc : CallPhases, kind : CallKinds, id : Jobs \cup {"none"}]
                     /\ call'.pc # "idle" => call'.id \in Jobs
                     /\ closing' \in {"open", "closing", "closed"}
<1> SUFFICES ASSUME JobsTypeOK, [JobsNext]_jobVars PROVE CallOK
  OBVIOUS
<1>c. closing \in {"open", "closing", "closed"}
  BY DEF JobsTypeOK
<1>t. /\ jobRecord \in [Jobs -> JobRecords] /\ \A k \in Jobs : jobRecord[k] \in JobRecords
      /\ call \in [pc : CallPhases, kind : CallKinds, id : Jobs \cup {"none"}]
      /\ call.pc # "idle" => call.id \in Jobs
  BY DEF JobsTypeOK
<1>0. CASE UNCHANGED jobVars
  BY <1>0, <1>t, <1>c DEF jobVars, CallPhases, CallKinds
<1>1. ASSUME NEW j \in Jobs, NEW kind \in {"foreground", "background", "user"}, StartBash(j, kind) PROVE CallOK
  BY <1>1, <1>t, <1>c DEF StartBash, Busy, IdleCall, CallPhases, CallKinds
<1>2. ASSUME NEW j \in Jobs, Inspect(j) PROVE CallOK
  BY <1>2, <1>t, <1>c DEF Inspect, Busy, JobIds, CallPhases, CallKinds
<1>3. ASSUME NEW j \in Jobs, StopJob(j) PROVE CallOK
  BY <1>3, <1>t, <1>c DEF StopJob, Busy, JobIds, Stopped, Set, CallPhases, CallKinds
<1>4. ASSUME NEW j \in Jobs, TimeOut(j) PROVE CallOK
  BY <1>4, <1>t, <1>c DEF TimeOut, Set, Monitored, CallPhases, CallKinds
<1>5. ASSUME NEW j \in Jobs, ExitProcess(j) PROVE CallOK
  BY <1>5, <1>t, <1>c DEF ExitProcess, Set, CallPhases, CallKinds
<1>6. ASSUME NEW j \in Jobs, Finish(j) PROVE CallOK
  BY <1>6, <1>t, <1>c DEF Finish, Set, Monitored, CallPhases, CallKinds
<1>7. ASSUME NEW j \in Jobs, CloseStop(j) PROVE CallOK
  BY <1>7, <1>t, <1>c DEF CloseStop, Set, Stopped, JobIds, CallPhases, CallKinds
<1>8. CASE StartProcess
  BY <1>8, <1>t, <1>c DEF StartProcess, Busy, Set, Step, IdleCall, CallPhases, CallKinds
<1>9. CASE Register
  BY <1>9, <1>t, <1>c DEF Register, ListJob, Busy, Set, Step, IdleCall, CallPhases, CallKinds
<1>10. CASE Foreground
  BY <1>10, <1>t, <1>c DEF Foreground, Busy, Set, IdleCall, CallPhases, CallKinds
<1>11. CASE Yield
  BY <1>11, <1>t, <1>c DEF Yield, Busy, CallPhases, CallKinds
<1>12. CASE Yielded
  BY <1>12, <1>t, <1>c DEF Yielded, Busy, Step, CallPhases, CallKinds
<1>13. CASE MarkSeen
  BY <1>13, <1>t, <1>c DEF MarkSeen, Mark, Busy, Set, Step, CallPhases, CallKinds
<1>14. CASE Format
  BY <1>14, <1>t, <1>c DEF Format, Busy, Set, IdleCall, CallPhases, CallKinds
<1>15. CASE Cancelled
  BY <1>15, <1>t, <1>c DEF Cancelled, Stopped, Busy, Set, Step, CallPhases, CallKinds
<1>16. CASE StopEnds
  BY <1>16, <1>t, <1>c DEF StopEnds, Mark, Busy, Set, Step, IdleCall, CallPhases, CallKinds
<1>17. CASE DeliverCompletionEvents
  BY <1>17, <1>t, <1>c DEF DeliverCompletionEvents, Busy, JobIds, CallPhases, CallKinds
<1>18. CASE CloseManager
  BY <1>18, <1>t, <1>c DEF CloseManager, CallPhases, CallKinds
<1>19. CASE CloseEnds
  BY <1>19, <1>t, <1>c DEF CloseEnds, JobIds, CallPhases, CallKinds
<1> QED BY <1>0, <1>1, <1>2, <1>3, <1>4, <1>5, <1>6, <1>7, <1>8, <1>9, <1>10, <1>11, <1>12, <1>13,
      <1>14, <1>15, <1>16, <1>17, <1>18, <1>19 DEF JobsNext

(* What Register does, whichever way it ends.                               *)
LEMMA RegisterDoes ==
    ASSUME JobsTypeOK, Register
    PROVE  /\ call.id \in Jobs /\ call.pc = "registering" /\ call'.pc \in {"idle", "waiting"}
           /\ closing' = closing /\ \A j \in Jobs \ {call.id} : jobRecord'[j] = jobRecord[j]
           /\ jobRecord'[call.id].status = jobRecord[call.id].status
           /\ jobRecord'[call.id].seen = jobRecord[call.id].seen
           /\ jobRecord'[call.id].told = jobRecord[call.id].told
           /\ \/ /\ closing = "open" /\ jobRecord'[call.id].listed
                 /\ jobRecord'[call.id].proc = jobRecord[call.id].proc
              \/ jobRecord'[call.id].proc = "gone"
<1>t. /\ jobRecord \in [Jobs -> JobRecords] /\ \A k \in Jobs : jobRecord[k] \in JobRecords
      /\ call \in [pc : CallPhases, kind : CallKinds, id : Jobs \cup {"none"}]
      /\ call.pc # "idle" => call.id \in Jobs
  BY DEF JobsTypeOK
<1>1. call.id \in Jobs /\ call.pc = "registering" /\ closing' = closing
  BY <1>t DEF Register, Busy
<1>2. CASE closing = "open" /\ ListJob
  <2>1. jobRecord' = [jobRecord EXCEPT ![call.id] = [jobRecord[call.id] EXCEPT !.listed = TRUE]]
    BY <1>2 DEF ListJob, Set
  <2>2. call'.pc \in {"idle", "waiting"}
    BY <1>2, <1>t DEF ListJob, Step, IdleCall
  <2> QED BY <1>1, <1>2, <1>t, <2>1, <2>2 DEF JobRecords
<1>3. CASE closing # "open" /\ call' = IdleCall
              /\ Set(call.id, [jobRecord[call.id] EXCEPT !.proc = "gone", !.killed = TRUE])
  BY <1>1, <1>3, <1>t DEF Set, IdleCall, JobRecords
<1> QED BY <1>2, <1>3 DEF Register

LEMMA EndsFollowExitsKept == JobsInv /\ [JobsNext]_jobVars => EndsFollowExits'
<1> SUFFICES ASSUME JobsInv, [JobsNext]_jobVars PROVE EndsFollowExits'
  OBVIOUS
<1>t. /\ jobRecord \in [Jobs -> JobRecords] /\ \A k \in Jobs : jobRecord[k] \in JobRecords
      /\ call \in [pc : CallPhases, kind : CallKinds, id : Jobs \cup {"none"}]
      /\ call.pc # "idle" => call.id \in Jobs
  BY DEF JobsInv, JobsTypeOK
<1>0. CASE UNCHANGED jobVars
  BY <1>0, <1>t DEF jobVars, JobsInv, JobRecords, Ended, EndsFollowExits
<1>1. ASSUME NEW j \in Jobs, NEW kind \in {"foreground", "background", "user"}, StartBash(j, kind) PROVE EndsFollowExits'
  BY <1>1, <1>t DEF StartBash, Busy, IdleCall, JobsInv, JobRecords, Ended, EndsFollowExits
<1>2. ASSUME NEW j \in Jobs, Inspect(j) PROVE EndsFollowExits'
  BY <1>2, <1>t DEF Inspect, Busy, JobIds, JobsInv, JobRecords, Ended, EndsFollowExits
<1>3. ASSUME NEW j \in Jobs, StopJob(j) PROVE EndsFollowExits'
  BY <1>3, <1>t DEF StopJob, Busy, JobIds, Stopped, Set, JobsInv, JobRecords, Ended, EndsFollowExits
<1>4. ASSUME NEW j \in Jobs, TimeOut(j) PROVE EndsFollowExits'
  BY <1>4, <1>t DEF TimeOut, Set, Monitored, JobsInv, JobRecords, Ended, EndsFollowExits
<1>5. ASSUME NEW j \in Jobs, ExitProcess(j) PROVE EndsFollowExits'
  BY <1>5, <1>t DEF ExitProcess, Set, JobsInv, JobRecords, Ended, EndsFollowExits
<1>6. ASSUME NEW j \in Jobs, Finish(j) PROVE EndsFollowExits'
  BY <1>6, <1>t DEF Finish, Set, Monitored, JobsInv, JobRecords, Ended, EndsFollowExits
<1>7. ASSUME NEW j \in Jobs, CloseStop(j) PROVE EndsFollowExits'
  BY <1>7, <1>t DEF CloseStop, Set, Stopped, JobIds, JobsInv, JobRecords, Ended, EndsFollowExits
<1>8. CASE StartProcess
  BY <1>8, <1>t DEF StartProcess, Busy, Set, Step, IdleCall, JobsInv, JobRecords, Ended, EndsFollowExits
<1>9. CASE Register
  BY <1>9, RegisterDoes DEF JobsInv, Ended, EndsFollowExits
<1>10. CASE Foreground
  BY <1>10, <1>t DEF Foreground, Busy, Set, IdleCall, JobsInv, JobRecords, Ended, EndsFollowExits
<1>11. CASE Yield
  BY <1>11, <1>t DEF Yield, Busy, JobsInv, JobRecords, Ended, EndsFollowExits
<1>12. CASE Yielded
  BY <1>12, <1>t DEF Yielded, Busy, Step, JobsInv, JobRecords, Ended, EndsFollowExits
<1>13. CASE MarkSeen
  BY <1>13, <1>t DEF MarkSeen, Mark, Busy, Set, Step, JobsInv, JobRecords, Ended, EndsFollowExits
<1>14. CASE Format
  BY <1>14, <1>t DEF Format, Busy, Set, IdleCall, JobsInv, JobRecords, Ended, EndsFollowExits
<1>15. CASE Cancelled
  BY <1>15, <1>t DEF Cancelled, Stopped, Busy, Set, Step, JobsInv, JobRecords, Ended, EndsFollowExits
<1>16. CASE StopEnds
  BY <1>16, <1>t DEF StopEnds, Mark, Busy, Set, Step, IdleCall, JobsInv, JobRecords, Ended,
        EndsFollowExits
<1>17. CASE DeliverCompletionEvents
  BY <1>17, <1>t DEF DeliverCompletionEvents, Busy, JobIds, JobsInv, JobRecords, Ended, EndsFollowExits
<1>18. CASE CloseManager
  BY <1>18, <1>t DEF CloseManager, JobsInv, JobRecords, Ended, EndsFollowExits
<1>19. CASE CloseEnds
  BY <1>19, <1>t DEF CloseEnds, JobIds, JobsInv, JobRecords, Ended, EndsFollowExits
<1> QED BY <1>0, <1>1, <1>2, <1>3, <1>4, <1>5, <1>6, <1>7, <1>8, <1>9, <1>10, <1>11, <1>12, <1>13,
      <1>14, <1>15, <1>16, <1>17, <1>18, <1>19 DEF JobsNext

LEMMA UnlistedAreKilledKept == JobsInv /\ [JobsNext]_jobVars => UnlistedAreKilled'
<1> SUFFICES ASSUME JobsInv, [JobsNext]_jobVars PROVE UnlistedAreKilled'
  OBVIOUS
<1>t. /\ jobRecord \in [Jobs -> JobRecords] /\ \A k \in Jobs : jobRecord[k] \in JobRecords
      /\ call \in [pc : CallPhases, kind : CallKinds, id : Jobs \cup {"none"}]
      /\ call.pc # "idle" => call.id \in Jobs
  BY DEF JobsInv, JobsTypeOK
<1>0. CASE UNCHANGED jobVars
  BY <1>0, <1>t DEF jobVars, JobsInv, JobRecords, Ended, UnlistedAreKilled, EndsFollowExits,
        StoppedAreKilled
<1>1. ASSUME NEW j \in Jobs, NEW kind \in {"foreground", "background", "user"}, StartBash(j, kind) PROVE UnlistedAreKilled'
  BY <1>1, <1>t DEF StartBash, Busy, IdleCall, JobsInv, JobRecords, Ended, UnlistedAreKilled,
        EndsFollowExits, StoppedAreKilled
<1>2. ASSUME NEW j \in Jobs, Inspect(j) PROVE UnlistedAreKilled'
  BY <1>2, <1>t DEF Inspect, Busy, JobIds, JobsInv, JobRecords, Ended, UnlistedAreKilled,
        EndsFollowExits, StoppedAreKilled
<1>3. ASSUME NEW j \in Jobs, StopJob(j) PROVE UnlistedAreKilled'
  BY <1>3, <1>t DEF StopJob, Busy, JobIds, Stopped, Set, JobsInv, JobRecords, Ended,
        UnlistedAreKilled, EndsFollowExits, StoppedAreKilled
<1>4. ASSUME NEW j \in Jobs, TimeOut(j) PROVE UnlistedAreKilled'
  BY <1>4, <1>t DEF TimeOut, Set, Monitored, JobsInv, JobRecords, Ended, UnlistedAreKilled,
        EndsFollowExits, StoppedAreKilled
<1>5. ASSUME NEW j \in Jobs, ExitProcess(j) PROVE UnlistedAreKilled'
  BY <1>5, <1>t DEF ExitProcess, Set, JobsInv, JobRecords, Ended, UnlistedAreKilled,
        EndsFollowExits, StoppedAreKilled
<1>6. ASSUME NEW j \in Jobs, Finish(j) PROVE UnlistedAreKilled'
  BY <1>6, <1>t DEF Finish, Set, Monitored, JobsInv, JobRecords, Ended, UnlistedAreKilled,
        EndsFollowExits, StoppedAreKilled
<1>7. ASSUME NEW j \in Jobs, CloseStop(j) PROVE UnlistedAreKilled'
  BY <1>7, <1>t DEF CloseStop, Set, Stopped, JobIds, JobsInv, JobRecords, Ended, UnlistedAreKilled,
        EndsFollowExits, StoppedAreKilled
<1>8. CASE StartProcess
  BY <1>8, <1>t DEF StartProcess, Busy, Set, Step, IdleCall, JobsInv, JobRecords, Ended,
        UnlistedAreKilled, EndsFollowExits, StoppedAreKilled
<1>9. CASE Register
  BY <1>9, RegisterDoes DEF JobsInv, Ended, UnlistedAreKilled, EndsFollowExits, StoppedAreKilled
<1>10. CASE Foreground
  BY <1>10, <1>t DEF Foreground, Busy, Set, IdleCall, JobsInv, JobRecords, Ended, UnlistedAreKilled,
        EndsFollowExits, StoppedAreKilled
<1>11. CASE Yield
  BY <1>11, <1>t DEF Yield, Busy, JobsInv, JobRecords, Ended, UnlistedAreKilled, EndsFollowExits,
        StoppedAreKilled
<1>12. CASE Yielded
  BY <1>12, <1>t DEF Yielded, Busy, Step, JobsInv, JobRecords, Ended, UnlistedAreKilled,
        EndsFollowExits, StoppedAreKilled
<1>13. CASE MarkSeen
  BY <1>13, <1>t DEF MarkSeen, Mark, Busy, Set, Step, JobsInv, JobRecords, Ended, UnlistedAreKilled,
        EndsFollowExits, StoppedAreKilled
<1>14. CASE Format
  BY <1>14, <1>t DEF Format, Busy, Set, IdleCall, JobsInv, JobRecords, Ended, UnlistedAreKilled,
        EndsFollowExits, StoppedAreKilled
<1>15. CASE Cancelled
  BY <1>15, <1>t DEF Cancelled, Stopped, Busy, Set, Step, JobsInv, JobRecords, Ended,
        UnlistedAreKilled, EndsFollowExits, StoppedAreKilled
<1>16. CASE StopEnds
  BY <1>16, <1>t DEF StopEnds, Mark, Busy, Set, Step, IdleCall, JobsInv, JobRecords, Ended,
        UnlistedAreKilled, EndsFollowExits, StoppedAreKilled
<1>17. CASE DeliverCompletionEvents
  BY <1>17, <1>t DEF DeliverCompletionEvents, Busy, JobIds, JobsInv, JobRecords, Ended,
        UnlistedAreKilled, EndsFollowExits, StoppedAreKilled
<1>18. CASE CloseManager
  BY <1>18, <1>t DEF CloseManager, JobsInv, JobRecords, Ended, UnlistedAreKilled, EndsFollowExits,
        StoppedAreKilled
<1>19. CASE CloseEnds
  BY <1>19, <1>t DEF CloseEnds, JobIds, JobsInv, JobRecords, Ended, UnlistedAreKilled,
        EndsFollowExits, StoppedAreKilled
<1> QED BY <1>0, <1>1, <1>2, <1>3, <1>4, <1>5, <1>6, <1>7, <1>8, <1>9, <1>10, <1>11, <1>12, <1>13,
      <1>14, <1>15, <1>16, <1>17, <1>18, <1>19 DEF JobsNext

LEMMA StoppedAreKilledKept == JobsInv /\ [JobsNext]_jobVars => StoppedAreKilled'
<1> SUFFICES ASSUME JobsInv, [JobsNext]_jobVars PROVE StoppedAreKilled'
  OBVIOUS
<1>t. /\ jobRecord \in [Jobs -> JobRecords] /\ \A k \in Jobs : jobRecord[k] \in JobRecords
      /\ call \in [pc : CallPhases, kind : CallKinds, id : Jobs \cup {"none"}]
      /\ call.pc # "idle" => call.id \in Jobs
  BY DEF JobsInv, JobsTypeOK
<1>0. CASE UNCHANGED jobVars
  BY <1>0, <1>t DEF jobVars, JobsInv, JobRecords, Ended, StoppedAreKilled
<1>1. ASSUME NEW j \in Jobs, NEW kind \in {"foreground", "background", "user"}, StartBash(j, kind) PROVE StoppedAreKilled'
  BY <1>1, <1>t DEF StartBash, Busy, IdleCall, JobsInv, JobRecords, Ended, StoppedAreKilled
<1>2. ASSUME NEW j \in Jobs, Inspect(j) PROVE StoppedAreKilled'
  BY <1>2, <1>t DEF Inspect, Busy, JobIds, JobsInv, JobRecords, Ended, StoppedAreKilled
<1>3. ASSUME NEW j \in Jobs, StopJob(j) PROVE StoppedAreKilled'
  BY <1>3, <1>t DEF StopJob, Busy, JobIds, Stopped, Set, JobsInv, JobRecords, Ended, StoppedAreKilled
<1>4. ASSUME NEW j \in Jobs, TimeOut(j) PROVE StoppedAreKilled'
  BY <1>4, <1>t DEF TimeOut, Set, Monitored, JobsInv, JobRecords, Ended, StoppedAreKilled
<1>5. ASSUME NEW j \in Jobs, ExitProcess(j) PROVE StoppedAreKilled'
  BY <1>5, <1>t DEF ExitProcess, Set, JobsInv, JobRecords, Ended, StoppedAreKilled
<1>6. ASSUME NEW j \in Jobs, Finish(j) PROVE StoppedAreKilled'
  BY <1>6, <1>t DEF Finish, Set, Monitored, JobsInv, JobRecords, Ended, StoppedAreKilled
<1>7. ASSUME NEW j \in Jobs, CloseStop(j) PROVE StoppedAreKilled'
  BY <1>7, <1>t DEF CloseStop, Set, Stopped, JobIds, JobsInv, JobRecords, Ended, StoppedAreKilled
<1>8. CASE StartProcess
  BY <1>8, <1>t DEF StartProcess, Busy, Set, Step, IdleCall, JobsInv, JobRecords, Ended, StoppedAreKilled
<1>9. CASE Register
  BY <1>9, RegisterDoes DEF JobsInv, Ended, StoppedAreKilled
<1>10. CASE Foreground
  BY <1>10, <1>t DEF Foreground, Busy, Set, IdleCall, JobsInv, JobRecords, Ended, StoppedAreKilled
<1>11. CASE Yield
  BY <1>11, <1>t DEF Yield, Busy, JobsInv, JobRecords, Ended, StoppedAreKilled
<1>12. CASE Yielded
  BY <1>12, <1>t DEF Yielded, Busy, Step, JobsInv, JobRecords, Ended, StoppedAreKilled
<1>13. CASE MarkSeen
  BY <1>13, <1>t DEF MarkSeen, Mark, Busy, Set, Step, JobsInv, JobRecords, Ended, StoppedAreKilled
<1>14. CASE Format
  BY <1>14, <1>t DEF Format, Busy, Set, IdleCall, JobsInv, JobRecords, Ended, StoppedAreKilled
<1>15. CASE Cancelled
  BY <1>15, <1>t DEF Cancelled, Stopped, Busy, Set, Step, JobsInv, JobRecords, Ended, StoppedAreKilled
<1>16. CASE StopEnds
  BY <1>16, <1>t DEF StopEnds, Mark, Busy, Set, Step, IdleCall, JobsInv, JobRecords, Ended,
        StoppedAreKilled
<1>17. CASE DeliverCompletionEvents
  BY <1>17, <1>t DEF DeliverCompletionEvents, Busy, JobIds, JobsInv, JobRecords, Ended, StoppedAreKilled
<1>18. CASE CloseManager
  BY <1>18, <1>t DEF CloseManager, JobsInv, JobRecords, Ended, StoppedAreKilled
<1>19. CASE CloseEnds
  BY <1>19, <1>t DEF CloseEnds, JobIds, JobsInv, JobRecords, Ended, StoppedAreKilled
<1> QED BY <1>0, <1>1, <1>2, <1>3, <1>4, <1>5, <1>6, <1>7, <1>8, <1>9, <1>10, <1>11, <1>12, <1>13,
      <1>14, <1>15, <1>16, <1>17, <1>18, <1>19 DEF JobsNext

LEMMA NoneSurvivesCloseKept == JobsInv /\ [JobsNext]_jobVars => NoneSurvivesClose'
<1> SUFFICES ASSUME JobsInv, [JobsNext]_jobVars PROVE NoneSurvivesClose'
  OBVIOUS
<1>t. /\ jobRecord \in [Jobs -> JobRecords] /\ \A k \in Jobs : jobRecord[k] \in JobRecords
      /\ call \in [pc : CallPhases, kind : CallKinds, id : Jobs \cup {"none"}]
      /\ call.pc # "idle" => call.id \in Jobs
  BY DEF JobsInv, JobsTypeOK
<1>0. CASE UNCHANGED jobVars
  BY <1>0, <1>t DEF jobVars, JobsInv, JobRecords, Ended, NoneSurvivesClose, UnlistedAreKilled,
        EndsFollowExits
<1>1. ASSUME NEW j \in Jobs, NEW kind \in {"foreground", "background", "user"}, StartBash(j, kind) PROVE NoneSurvivesClose'
  BY <1>1, <1>t DEF StartBash, Busy, IdleCall, JobsInv, JobRecords, Ended, NoneSurvivesClose,
        UnlistedAreKilled, EndsFollowExits
<1>2. ASSUME NEW j \in Jobs, Inspect(j) PROVE NoneSurvivesClose'
  BY <1>2, <1>t DEF Inspect, Busy, JobIds, JobsInv, JobRecords, Ended, NoneSurvivesClose,
        UnlistedAreKilled, EndsFollowExits
<1>3. ASSUME NEW j \in Jobs, StopJob(j) PROVE NoneSurvivesClose'
  BY <1>3, <1>t DEF StopJob, Busy, JobIds, Stopped, Set, JobsInv, JobRecords, Ended,
        NoneSurvivesClose, UnlistedAreKilled, EndsFollowExits
<1>4. ASSUME NEW j \in Jobs, TimeOut(j) PROVE NoneSurvivesClose'
  BY <1>4, <1>t DEF TimeOut, Set, Monitored, JobsInv, JobRecords, Ended, NoneSurvivesClose,
        UnlistedAreKilled, EndsFollowExits
<1>5. ASSUME NEW j \in Jobs, ExitProcess(j) PROVE NoneSurvivesClose'
  BY <1>5, <1>t DEF ExitProcess, Set, JobsInv, JobRecords, Ended, NoneSurvivesClose,
        UnlistedAreKilled, EndsFollowExits
<1>6. ASSUME NEW j \in Jobs, Finish(j) PROVE NoneSurvivesClose'
  BY <1>6, <1>t DEF Finish, Set, Monitored, JobsInv, JobRecords, Ended, NoneSurvivesClose,
        UnlistedAreKilled, EndsFollowExits
<1>7. ASSUME NEW j \in Jobs, CloseStop(j) PROVE NoneSurvivesClose'
  BY <1>7, <1>t DEF CloseStop, Set, Stopped, JobIds, JobsInv, JobRecords, Ended, NoneSurvivesClose,
        UnlistedAreKilled, EndsFollowExits
<1>8. CASE StartProcess
  BY <1>8, <1>t DEF StartProcess, Busy, Set, Step, IdleCall, JobsInv, JobRecords, Ended,
        NoneSurvivesClose, UnlistedAreKilled, EndsFollowExits
<1>9. CASE Register
  BY <1>9, RegisterDoes DEF JobsInv, Ended, NoneSurvivesClose, UnlistedAreKilled, EndsFollowExits
<1>10. CASE Foreground
  BY <1>10, <1>t DEF Foreground, Busy, Set, IdleCall, JobsInv, JobRecords, Ended, NoneSurvivesClose,
        UnlistedAreKilled, EndsFollowExits
<1>11. CASE Yield
  BY <1>11, <1>t DEF Yield, Busy, JobsInv, JobRecords, Ended, NoneSurvivesClose, UnlistedAreKilled,
        EndsFollowExits
<1>12. CASE Yielded
  BY <1>12, <1>t DEF Yielded, Busy, Step, JobsInv, JobRecords, Ended, NoneSurvivesClose,
        UnlistedAreKilled, EndsFollowExits
<1>13. CASE MarkSeen
  BY <1>13, <1>t DEF MarkSeen, Mark, Busy, Set, Step, JobsInv, JobRecords, Ended, NoneSurvivesClose,
        UnlistedAreKilled, EndsFollowExits
<1>14. CASE Format
  BY <1>14, <1>t DEF Format, Busy, Set, IdleCall, JobsInv, JobRecords, Ended, NoneSurvivesClose,
        UnlistedAreKilled, EndsFollowExits
<1>15. CASE Cancelled
  BY <1>15, <1>t DEF Cancelled, Stopped, Busy, Set, Step, JobsInv, JobRecords, Ended,
        NoneSurvivesClose, UnlistedAreKilled, EndsFollowExits
<1>16. CASE StopEnds
  BY <1>16, <1>t DEF StopEnds, Mark, Busy, Set, Step, IdleCall, JobsInv, JobRecords, Ended,
        NoneSurvivesClose, UnlistedAreKilled, EndsFollowExits
<1>17. CASE DeliverCompletionEvents
  BY <1>17, <1>t DEF DeliverCompletionEvents, Busy, JobIds, JobsInv, JobRecords, Ended,
        NoneSurvivesClose, UnlistedAreKilled, EndsFollowExits
<1>18. CASE CloseManager
  BY <1>18, <1>t DEF CloseManager, JobsInv, JobRecords, Ended, NoneSurvivesClose, UnlistedAreKilled,
        EndsFollowExits
<1>19. CASE CloseEnds
  BY <1>19, <1>t DEF CloseEnds, JobIds, JobsInv, JobRecords, Ended, NoneSurvivesClose,
        UnlistedAreKilled, EndsFollowExits
<1> QED BY <1>0, <1>1, <1>2, <1>3, <1>4, <1>5, <1>6, <1>7, <1>8, <1>9, <1>10, <1>11, <1>12, <1>13,
      <1>14, <1>15, <1>16, <1>17, <1>18, <1>19 DEF JobsNext

LEMMA EndIsToldKept == JobsInv /\ [JobsNext]_jobVars => EndIsTold'
<1> SUFFICES ASSUME JobsInv, [JobsNext]_jobVars PROVE EndIsTold'
  OBVIOUS
<1>t. /\ jobRecord \in [Jobs -> JobRecords] /\ \A k \in Jobs : jobRecord[k] \in JobRecords
      /\ call \in [pc : CallPhases, kind : CallKinds, id : Jobs \cup {"none"}]
      /\ call.pc # "idle" => call.id \in Jobs
  BY DEF JobsInv, JobsTypeOK
<1>0. CASE UNCHANGED jobVars
  BY <1>0, <1>t DEF jobVars, JobsInv, JobRecords, Ended, EndIsTold
<1>1. ASSUME NEW j \in Jobs, NEW kind \in {"foreground", "background", "user"}, StartBash(j, kind) PROVE EndIsTold'
  BY <1>1, <1>t DEF StartBash, Busy, IdleCall, JobsInv, JobRecords, Ended, EndIsTold
<1>2. ASSUME NEW j \in Jobs, Inspect(j) PROVE EndIsTold'
  BY <1>2, <1>t DEF Inspect, Busy, JobIds, JobsInv, JobRecords, Ended, EndIsTold
<1>3. ASSUME NEW j \in Jobs, StopJob(j) PROVE EndIsTold'
  BY <1>3, <1>t DEF StopJob, Busy, JobIds, Stopped, Set, JobsInv, JobRecords, Ended, EndIsTold
<1>4. ASSUME NEW j \in Jobs, TimeOut(j) PROVE EndIsTold'
  BY <1>4, <1>t DEF TimeOut, Set, Monitored, JobsInv, JobRecords, Ended, EndIsTold
<1>5. ASSUME NEW j \in Jobs, ExitProcess(j) PROVE EndIsTold'
  BY <1>5, <1>t DEF ExitProcess, Set, JobsInv, JobRecords, Ended, EndIsTold
<1>6. ASSUME NEW j \in Jobs, Finish(j) PROVE EndIsTold'
  BY <1>6, <1>t DEF Finish, Set, Monitored, JobsInv, JobRecords, Ended, EndIsTold
<1>7. ASSUME NEW j \in Jobs, CloseStop(j) PROVE EndIsTold'
  BY <1>7, <1>t DEF CloseStop, Set, Stopped, JobIds, JobsInv, JobRecords, Ended, EndIsTold
<1>8. CASE StartProcess
  BY <1>8, <1>t DEF StartProcess, Busy, Set, Step, IdleCall, JobsInv, JobRecords, Ended, EndIsTold
<1>9. CASE Register
  BY <1>9, RegisterDoes DEF JobsInv, Ended, EndIsTold
<1>10. CASE Foreground
  BY <1>10, <1>t DEF Foreground, Busy, Set, IdleCall, JobsInv, JobRecords, Ended, EndIsTold
<1>11. CASE Yield
  BY <1>11, <1>t DEF Yield, Busy, JobsInv, JobRecords, Ended, EndIsTold
<1>12. CASE Yielded
  BY <1>12, <1>t DEF Yielded, Busy, Step, JobsInv, JobRecords, Ended, EndIsTold
<1>13. CASE MarkSeen
  BY <1>13, <1>t DEF MarkSeen, Mark, Busy, Set, Step, JobsInv, JobRecords, Ended, EndIsTold
<1>14. CASE Format
  BY <1>14, <1>t DEF Format, Busy, Set, IdleCall, JobsInv, JobRecords, Ended, EndIsTold
<1>15. CASE Cancelled
  BY <1>15, <1>t DEF Cancelled, Stopped, Busy, Set, Step, JobsInv, JobRecords, Ended, EndIsTold
<1>16. CASE StopEnds
  BY <1>16, <1>t DEF StopEnds, Mark, Busy, Set, Step, IdleCall, JobsInv, JobRecords, Ended, EndIsTold
<1>17. CASE DeliverCompletionEvents
  BY <1>17, <1>t DEF DeliverCompletionEvents, Busy, JobIds, JobsInv, JobRecords, Ended, EndIsTold
<1>18. CASE CloseManager
  BY <1>18, <1>t DEF CloseManager, JobsInv, JobRecords, Ended, EndIsTold
<1>19. CASE CloseEnds
  BY <1>19, <1>t DEF CloseEnds, JobIds, JobsInv, JobRecords, Ended, EndIsTold
<1> QED BY <1>0, <1>1, <1>2, <1>3, <1>4, <1>5, <1>6, <1>7, <1>8, <1>9, <1>10, <1>11, <1>12, <1>13,
      <1>14, <1>15, <1>16, <1>17, <1>18, <1>19 DEF JobsNext

LEMMA JobsKept == JobsInv /\ [JobsNext]_jobVars => JobsInv'
<1> SUFFICES ASSUME JobsInv, [JobsNext]_jobVars PROVE JobsInv'
  OBVIOUS
<1>1. JobsTypeOK
  BY DEF JobsInv
<1>2. JobsTypeOK'
  BY <1>1, JobRecordTypeKept, CallTypeKept DEF JobsTypeOK
<1>3. EndsFollowExits' /\ UnlistedAreKilled' /\ StoppedAreKilled' /\ NoneSurvivesClose' /\ EndIsTold'
  BY EndsFollowExitsKept, UnlistedAreKilledKept, StoppedAreKilledKept, NoneSurvivesCloseKept,
        EndIsToldKept
<1> QED BY <1>2, <1>3 DEF JobsInv

(* Every variable of the process manager keeps its shape, and a call in     *)
(* progress names a job.                                                    *)
THEOREM JobsTypeCorrect == JobsSpec => []JobsTypeOK
<1>1. JobsInv => JobsTypeOK
  BY DEF JobsInv
<1> QED BY JobsInitial, JobsKept, <1>1, PTL DEF JobsSpec

(* The end of a job is marked as seen only once it is there, and then it    *)
(* has been shown or the call that marked it is about to show it            *)
(* (process.go: formatJob, completedForegroundResult).                      *)
THEOREM JobsEndIsTold == JobsSpec => []EndIsTold
<1>1. JobsInv => EndIsTold
  BY DEF JobsInv
<1> QED BY JobsInitial, JobsKept, <1>1, PTL DEF JobsSpec

(* Whatever call was in progress meanwhile, Close leaves no process without *)
(* the kill, but one that is about to find the manager closed.              *)
THEOREM JobsNoneSurvivesClose == JobsSpec => []NoneSurvivesClose
<1>1. JobsInv => NoneSurvivesClose
  BY DEF JobsInv
<1> QED BY JobsInitial, JobsKept, <1>1, PTL DEF JobsSpec

-----------------------------------------------------------------------------
(* The terminal.                                                            *)

(* While a turn or an operation has work to do, the screen knows: the event *)
(* loop takes no key that would start another; /exit finds neither.         *)
ScreenKnows ==
    /\ ~ui.working => uiTurn.pc = "idle"
    /\ ui.busy = "" => op.pc = "idle"
    /\ ui.working => ui.busy = ""
    /\ loop.pc = "close" => ui.mode = "gone"
    /\ ui.mode = "gone" => ~ui.working /\ ui.busy = "" /\ loop.pc \in {"idle", "close", "release", "prune"}

(* The agent has a session until /exit closed it, and a call that has one   *)
(* to install or to give up names it.                                       *)
SessionIsThere ==
    /\ agent.session = NoSession => ui.mode = "gone" /\ loop.pc \in {"idle", "release", "prune"}
    /\ loop.pc \in {"install", "release", "prune"} => loop.target \in Sessions

(* /clear runs while nothing else does, so the model it read is the agent's. *)
ClearIsAlone ==
    loop.pc \in {"snapshot", "open"} /\ loop.target = NoSession =>
        /\ uiTurn.pc = "idle" /\ op.pc = "idle"
        /\ loop.pc = "open" => loop.model = agent.model

(* The journal of the agent's session, and of the one to be installed, name *)
(* the model; they are held by this process as long as they are there.      *)
JournalNamesModel ==
    /\ agent.session \in Sessions /\ dirs[agent.session].there => dirs[agent.session].model = agent.model
    /\ loop.pc = "install" /\ dirs[loop.target].there => dirs[loop.target].model = loop.model
LockedIsThere == \A s \in Sessions : dirs[s].lock # "free" => dirs[s].there
AgentHoldsLock ==
    /\ agent.session \in Sessions /\ dirs[agent.session].there =>
         dirs[agent.session].lock = "me" \/ (loop.pc = "prune" /\ loop.target = agent.session)
    /\ loop.pc = "install" /\ dirs[loop.target].there => dirs[loop.target].lock = "me"

(* A session id that /clear takes again after the other process removed its *)
(* directory is empty when the old engine of the same id is closed.         *)
SameAgain ==
    loop.pc \in {"install", "release"} /\ loop.target = agent.session =>
        uiTurn.pc = "idle" /\ op.pc = "idle" /\ dirs[loop.target].turns = 0

(* The turn writes to the agent's session, and the processes run under its  *)
(* sandbox setting.                                                         *)
RuntimeMatches == (TurnReads => uiTurn.session = agent.session) /\ agent.policy = agent.sandbox

TerminalInv ==
    /\ TerminalTypeOK /\ ScreenKnows /\ SessionIsThere /\ ClearIsAlone /\ LockedIsThere
    /\ JournalNamesModel /\ AgentHoldsLock /\ SameAgain /\ RuntimeMatches


(* What the steps that touch the directories, the agent or its calls do,    *)
(* field by field.                                                          *)
DirectoriesOK == dirs \in [Sessions -> Directories]
OnlyTurns(s) ==
    \A d \in Sessions : /\ dirs'[d].there = dirs[d].there /\ dirs'[d].lock = dirs[d].lock
                        /\ dirs'[d].model = dirs[d].model
                        /\ d # s => dirs'[d] = dirs[d]
OnlyLock(s, lock) ==
    \A d \in Sessions : /\ dirs'[d].there = dirs[d].there /\ dirs'[d].turns = dirs[d].turns
                        /\ dirs'[d].model = dirs[d].model
                        /\ d # s => dirs'[d] = dirs[d]
                        /\ d = s => dirs'[d].lock = lock
OnlyModel(s, model) ==
    \A d \in Sessions : /\ dirs'[d].there = dirs[d].there /\ dirs'[d].turns = dirs[d].turns
                        /\ dirs'[d].lock = dirs[d].lock
                        /\ d # s => dirs'[d] = dirs[d]
                        /\ d = s => dirs'[d].model = model
IsAbsent(s) ==
    \A d \in Sessions : /\ d # s => dirs'[d] = dirs[d]
                        /\ d = s => ~dirs'[d].there /\ dirs'[d].lock = "free" /\ dirs'[d].turns = 0

LEMMA DirectoryFields ==
    ASSUME DirectoriesOK, NEW s
    PROVE  /\ dirs' = [dirs EXCEPT ![s].turns = 1] => OnlyTurns(s)
           /\ \A lock : dirs' = [dirs EXCEPT ![s].lock = lock] => OnlyLock(s, lock)
           /\ \A model : dirs' = [dirs EXCEPT ![s].model = model] => OnlyModel(s, model)
           /\ dirs' = [dirs EXCEPT ![s] = Absent] => IsAbsent(s)
<1>t. \A d \in Sessions : dirs[d] \in Directories
  BY DEF DirectoriesOK
<1>1. ASSUME dirs' = [dirs EXCEPT ![s].turns = 1] PROVE OnlyTurns(s)
  BY <1>1, <1>t DEF DirectoriesOK, OnlyTurns, Directories
<1>2. ASSUME NEW lock, dirs' = [dirs EXCEPT ![s].lock = lock] PROVE OnlyLock(s, lock)
  BY <1>2, <1>t DEF DirectoriesOK, OnlyLock, Directories
<1>3. ASSUME NEW model, dirs' = [dirs EXCEPT ![s].model = model] PROVE OnlyModel(s, model)
  BY <1>3, <1>t DEF DirectoriesOK, OnlyModel, Directories
<1>4. ASSUME dirs' = [dirs EXCEPT ![s] = Absent] PROVE IsAbsent(s)
  BY <1>4, <1>t DEF DirectoriesOK, IsAbsent, Absent
<1> QED BY <1>1, <1>2, <1>3, <1>4

LEMMA TurnStartsDoes ==
    ASSUME TerminalTypeOK, TurnStarts
    PROVE  /\ uiTurn.pc = "start" /\ uiTurn'.pc \in {"run", "send"} /\ UNCHANGED <<other, agent, ui, loop, op>>
           /\ uiTurn'.pc = "run" => uiTurn'.session = agent.session
           /\ OnlyTurns(agent.session)
<1>1. DirectoriesOK /\ uiTurn \in Turns
  BY DEF TerminalTypeOK, DirectoriesOK
<1>2. CASE uiTurn' = [uiTurn EXCEPT !.pc = "run", !.session = agent.session]
           /\ dirs' = [dirs EXCEPT ![agent.session].turns = 1]
  <2>1. OnlyTurns(agent.session)
    BY <1>1, <1>2, DirectoryFields
  <2>2. uiTurn'.pc = "run" /\ uiTurn'.session = agent.session
    BY <1>1, <1>2 DEF Turns
  <2> QED BY <2>1, <2>2 DEF TurnStarts
<1>3. CASE uiTurn' = [uiTurn EXCEPT !.pc = "send"] /\ UNCHANGED dirs
  <2>1. uiTurn'.pc = "send"
    BY <1>1, <1>3 DEF Turns
  <2>2. OnlyTurns(agent.session)
    BY <1>3 DEF OnlyTurns
  <2> QED BY <2>1, <2>2 DEF TurnStarts
<1> QED BY <1>2, <1>3 DEF TurnStarts

LEMMA OpStartsDoes ==
    ASSUME TerminalTypeOK, OpStarts
    PROVE  /\ op.pc = "start" /\ op'.pc \in {"run", "prepare", "done"} /\ UNCHANGED <<other, agent, ui, loop, uiTurn>>
           /\ OnlyTurns(agent.session)
<1>1. DirectoriesOK /\ op \in Operations
  BY DEF TerminalTypeOK, DirectoriesOK
<1>2. op'.pc \in {"run", "prepare", "done"}
  BY <1>1 DEF OpStarts, Operations
<1>3. UNCHANGED dirs \/ dirs' = [dirs EXCEPT ![agent.session].turns = 1]
  BY DEF OpStarts
<1>4. OnlyTurns(agent.session)
  <2>1. CASE UNCHANGED dirs
    BY <2>1 DEF OnlyTurns
  <2> QED BY <1>1, <1>3, <2>1, DirectoryFields
<1> QED BY <1>2, <1>4 DEF OpStarts

LEMMA OpWritesDoes ==
    ASSUME TerminalTypeOK, OpWrites
    PROVE  /\ op.pc = "write" /\ op'.pc = "done" /\ CanWrite /\ UNCHANGED <<other, ui, loop, uiTurn>>
           /\ agent'.session = agent.session
           /\ agent.policy = agent.sandbox => agent'.policy = agent'.sandbox
           /\ \/ OnlyModel(agent.session, agent'.model)
              \/ UNCHANGED dirs /\ agent'.model = agent.model
<1>1. DirectoriesOK /\ agent \in Agents /\ op \in Operations
  BY DEF TerminalTypeOK, DirectoriesOK
<1>2. op.pc = "write" /\ op'.pc = "done" /\ CanWrite /\ UNCHANGED <<other, ui, loop, uiTurn>>
  BY <1>1 DEF OpWrites, Operations
<1>3. CASE SwitchModel
  <2>1. CASE dirs' = [dirs EXCEPT ![agent.session].model = op.arg] /\ agent' = [agent EXCEPT !.model = op.arg]
    <3>1. agent'.model = op.arg /\ agent'.session = agent.session /\ agent'.policy = agent.policy
          /\ agent'.sandbox = agent.sandbox
      BY <1>1, <2>1 DEF Agents
    <3>2. OnlyModel(agent.session, op.arg)
      BY <1>1, <2>1, DirectoryFields
    <3> QED BY <1>2, <3>1, <3>2
  <2>2. CASE UNCHANGED <<dirs, agent>>
    BY <1>2, <2>2
  <2> QED BY <1>3, <2>1, <2>2 DEF SwitchModel
<1>4. CASE SwitchSandbox
  <2>1. UNCHANGED dirs /\ (agent' = agent \/ agent' = [agent EXCEPT !.sandbox = op.arg, !.policy = op.arg])
    BY <1>4 DEF SwitchSandbox
  <2> QED BY <1>1, <1>2, <2>1 DEF Agents
<1>5. CASE UNCHANGED <<dirs, agent>>
  BY <1>2, <1>5
<1> QED BY <1>3, <1>4, <1>5 DEF OpWrites

OpensNew(s) ==
    /\ ~dirs[s].there /\ loop.target = NoSession
    /\ dirs'[s].there /\ dirs'[s].lock = "me" /\ dirs'[s].turns = 0 /\ dirs'[s].model = loop.model
    /\ \A d \in Sessions \ {s} : dirs'[d] = dirs[d]
    /\ loop'.pc = "install" /\ loop'.target = s /\ loop'.model = loop.model
OpensTarget ==
    /\ loop.target \in Sessions /\ dirs[loop.target].there /\ dirs[loop.target].lock = "free"
    /\ OnlyLock(loop.target, "me")
    /\ loop'.pc = "install" /\ loop'.target = loop.target /\ loop'.model = dirs[loop.target].model
LEMMA OpenJournalDoes ==
    ASSUME TerminalTypeOK, OpenJournal
    PROVE  /\ loop.pc = "open" /\ UNCHANGED <<other, agent, ui, uiTurn, op>>
           /\ (\E s \in Sessions : OpensNew(s)) \/ OpensTarget \/ (loop'.pc = "idle" /\ UNCHANGED dirs)
<1>1. DirectoriesOK /\ loop \in AgentCalls
  BY DEF TerminalTypeOK, DirectoriesOK
<1>2. loop.pc = "open" /\ UNCHANGED <<other, agent, ui, uiTurn, op>>
  BY DEF OpenJournal, goroutines
<1>3. ASSUME NEW s \in Sessions, ~dirs[s].there, loop.target = NoSession,
             dirs' = [dirs EXCEPT ![s] = [there |-> TRUE, lock |-> "me", turns |-> 0, model |-> loop.model]],
             loop' = [loop EXCEPT !.pc = "install", !.target = s]
      PROVE OpensNew(s)
  BY <1>1, <1>3 DEF OpensNew, DirectoriesOK, AgentCalls
<1>4. CASE /\ loop.target # NoSession /\ dirs[loop.target].there /\ dirs[loop.target].lock = "free"
           /\ dirs' = [dirs EXCEPT ![loop.target].lock = "me"]
           /\ loop' = [loop EXCEPT !.pc = "install", !.model = dirs[loop.target].model]
  <2>1. OnlyLock(loop.target, "me")
    BY <1>1, <1>4, DirectoryFields
  <2>2. loop'.pc = "install" /\ loop'.target = loop.target /\ loop'.model = dirs[loop.target].model
    BY <1>1, <1>4 DEF AgentCalls
  <2>3. loop.target \in Sessions
    BY <1>1, <1>4 DEF AgentCalls, SomeSession
  <2> QED BY <1>2, <1>4, <2>1, <2>2, <2>3 DEF OpensTarget
<1>5. CASE loop' = NoLoop /\ UNCHANGED dirs
  BY <1>2, <1>5 DEF NoLoop
<1> QED BY <1>2, <1>3, <1>4, <1>5 DEF OpenJournal

LEMMA InstallDoes ==
    ASSUME TerminalTypeOK, Install
    PROVE  /\ loop.pc = "install" /\ CanWrite /\ UNCHANGED <<dirs, other, ui, uiTurn, op>>
           /\ agent'.session = loop.target /\ agent'.model = loop.model /\ agent'.policy = agent'.sandbox
           /\ loop'.pc = "release" /\ loop'.target = agent.session
BY DEF Install, NoLoop, goroutines

LEMMA CloseAgentDoes ==
    ASSUME TerminalTypeOK, CloseAgent
    PROVE  /\ loop.pc = "close" /\ CanWrite /\ UNCHANGED <<dirs, other, ui, uiTurn, op>>
           /\ agent'.session = NoSession /\ agent'.policy = agent.policy /\ agent'.sandbox = agent.sandbox
           /\ loop'.pc = "release" /\ loop'.target = agent.session
<1>1. agent \in Agents
  BY DEF TerminalTypeOK
<1> QED BY <1>1 DEF CloseAgent, NoLoop, goroutines, Agents

LEMMA ReleaseDoes ==
    ASSUME TerminalTypeOK, Release
    PROVE  /\ loop.pc = "release" /\ UNCHANGED <<other, agent, ui, uiTurn, op>>
           /\ (OnlyLock(loop.target, "free") /\ dirs[loop.target].lock = "me") \/ UNCHANGED dirs
           /\ \/ loop'.pc = "idle" /\ dirs[loop.target].turns # 0
              \/ loop'.pc = "prune" /\ loop'.target = loop.target
<1>1. DirectoriesOK /\ loop \in AgentCalls
  BY DEF TerminalTypeOK, DirectoriesOK
<1>2. loop.pc = "release" /\ UNCHANGED <<other, agent, ui, uiTurn, op>>
  BY DEF Release, goroutines
<1>3. (dirs[loop.target].lock = "me" /\ dirs' = [dirs EXCEPT ![loop.target].lock = "free"]) \/ UNCHANGED dirs
  BY DEF Release
<1>4. (dirs[loop.target].turns # 0 /\ loop' = NoLoop) \/ loop' = [loop EXCEPT !.pc = "prune"]
  BY DEF Release
<1>5. (OnlyLock(loop.target, "free") /\ dirs[loop.target].lock = "me") \/ UNCHANGED dirs
  BY <1>1, <1>3, DirectoryFields
<1>6. (loop'.pc = "idle" /\ dirs[loop.target].turns # 0) \/ (loop'.pc = "prune" /\ loop'.target = loop.target)
  <2>1. CASE loop' = NoLoop /\ dirs[loop.target].turns # 0
    BY <2>1 DEF NoLoop
  <2>2. CASE loop' = [loop EXCEPT !.pc = "prune"]
    BY <1>1, <2>2 DEF AgentCalls
  <2> QED BY <1>4, <2>1, <2>2
<1> QED BY <1>2, <1>5, <1>6

LEMMA PruneDoes ==
    ASSUME TerminalTypeOK, Prune
    PROVE  loop.pc = "prune" /\ loop'.pc = "idle" /\ UNCHANGED <<other, agent, ui, uiTurn, op>> /\ IsAbsent(loop.target)
BY DirectoryFields DEF TerminalTypeOK, DirectoriesOK, Prune, NoLoop, goroutines

LEMMA OtherDoes ==
    ASSUME TerminalTypeOK, OtherOpens \/ OtherTurn \/ OtherCloses
    PROVE  /\ UNCHANGED <<agent, ui, loop, uiTurn, op>>
           /\ \/ \E s \in Sessions : dirs[s].there /\ dirs[s].lock = "free" /\ OnlyLock(s, "other")
              \/ \E s \in Sessions : dirs[s].lock = "other" /\ OnlyTurns(s)
              \/ \E s \in Sessions : dirs[s].lock = "other" /\ OnlyLock(s, "free")
              \/ \E s \in Sessions : IsAbsent(s)
              \/ UNCHANGED dirs
<1>1. DirectoriesOK /\ (other.session # NoSession => other.session \in Sessions)
  BY DEF TerminalTypeOK, DirectoriesOK, SomeSession
<1>2. CASE OtherOpens
  <2>1. PICK s \in Sessions : dirs[s].there /\ dirs[s].lock = "free" /\ dirs' = [dirs EXCEPT ![s].lock = "other"]
    BY <1>2 DEF OtherOpens
  <2>2. OnlyLock(s, "other")
    BY <1>1, <2>1, DirectoryFields
  <2> QED BY <1>2, <2>1, <2>2 DEF OtherOpens, goroutines
<1>3. CASE OtherTurn
  <2>1. OnlyTurns(other.session) /\ other.session \in Sessions /\ dirs[other.session].lock = "other"
    BY <1>1, <1>3, DirectoryFields DEF OtherTurn
  <2> QED BY <1>3, <2>1 DEF OtherTurn, goroutines
<1>4. CASE OtherCloses
  <2>1. /\ other.session \in Sessions /\ UNCHANGED <<agent, ui, loop, uiTurn, op>>
        /\ \/ dirs' = [dirs EXCEPT ![other.session] = Absent]
           \/ dirs[other.session].lock = "other" /\ dirs' = [dirs EXCEPT ![other.session].lock = "free"]
           \/ UNCHANGED dirs
    BY <1>1, <1>4 DEF OtherCloses, goroutines
  <2> QED BY <1>1, <2>1, DirectoryFields
<1> QED BY <1>2, <1>3, <1>4

LEMMA ScreenKnowsKept == TerminalInv /\ [TerminalNext]_tvars => ScreenKnows'
<1> SUFFICES ASSUME TerminalInv, [TerminalNext]_tvars PROVE ScreenKnows'
  OBVIOUS
<1>t. /\ dirs \in [Sessions -> Directories] /\ \A s \in Sessions : dirs[s] \in Directories
      /\ agent \in Agents /\ other \in [session : SomeSession, prune : BOOLEAN]
      /\ ui \in Screens /\ loop \in AgentCalls /\ uiTurn \in Turns /\ op \in Operations
  BY DEF TerminalTypeOK, TerminalInv
<1>s. /\ NoSession \notin Sessions /\ agent.session \in Sessions \cup {NoSession}
      /\ loop.target \in Sessions \cup {NoSession}
  BY <1>t, CyTerminalAssumption DEF Agents, AgentCalls, SomeSession
<1>0. CASE UNCHANGED tvars
  BY <1>0 DEF TerminalInv, tvars, ScreenKnows
<1>1. CASE SubmitInput \/ TypeAhead \/ CancelTurn \/ RestoreLatest
  BY <1>1, <1>t DEF TerminalInv, SubmitInput, TypeAhead, CancelTurn, RestoreLatest, goroutines,
     AtPrompt, Free, Command, StartTurn, NoTurn, ScreenKnows, Directories, Agents, Screens,
     AgentCalls, Turns, Operations
<1>2. CASE Clear \/ OpenPicker \/ ClosePicker \/ Exit
  <2>1. CASE Clear
    BY <2>1, <1>t DEF TerminalInv, Clear, goroutines, AtPrompt, Free, Command, NoLoop, ScreenKnows,
       Directories, Agents, Screens, AgentCalls, Turns, Operations
  <2>2. CASE OpenPicker
    BY <2>2, <1>t DEF TerminalInv, OpenPicker, goroutines, AtPrompt, Free, Command, NoLoop,
       ScreenKnows, Directories, Agents, Screens, AgentCalls, Turns, Operations
  <2>3. CASE ClosePicker
    <3>1. ui'.mode = "edit" /\ ui'.working = ui.working /\ ui'.busy = ui.busy
      BY <2>3, <1>t DEF ClosePicker, Screens
    <3> QED BY <2>3, <3>1 DEF ClosePicker, Free, goroutines, ScreenKnows, TerminalInv
  <2>4. CASE Exit
    BY <2>4, <1>t DEF TerminalInv, Exit, goroutines, AtPrompt, Free, Command, NoLoop, ScreenKnows,
       Directories, Agents, Screens, AgentCalls, Turns, Operations
  <2> QED BY <1>2, <2>1, <2>2, <2>3, <2>4
<1>3. ASSUME NEW kind \in {"shell", "compact", "model", "sandbox"}, NEW arg \in Settings, StartMaintenance(kind, arg)
      PROVE ScreenKnows'
  BY <1>3, <1>t DEF TerminalInv, StartMaintenance, goroutines, AtPrompt, Free, Command, NoOp,
     ScreenKnows, Directories, Agents, Screens, AgentCalls, Turns, Operations
<1>4. CASE UIMessages
  <2>1. CASE ResumeArrives
    BY <2>1, <1>t DEF TerminalInv, ResumeArrives, goroutines, Free, StartTurn, NoTurn, NoOp, NoLoop,
       ScreenKnows, Directories, Agents, Screens, AgentCalls, Turns, Operations
  <2>2. CASE TakeEvent
    BY <2>2, <1>t DEF TerminalInv, TakeEvent, goroutines, Free, StartTurn, NoTurn, NoOp, NoLoop,
       ScreenKnows, Directories, Agents, Screens, AgentCalls, Turns, Operations
  <2>3. CASE TurnDone
    <3>1. CASE StartTurn(1)
      BY <2>3, <3>1, <1>t DEF TerminalInv, ScreenKnows, TurnDone, StartTurn, NoTurn, Screens
    <3>2. CASE uiTurn' = NoTurn /\ ui' = [ui EXCEPT !.working = FALSE]
      BY <2>3, <3>2, <1>t DEF TerminalInv, ScreenKnows, TurnDone, NoTurn, Screens
    <3> QED BY <2>3, <3>1, <3>2 DEF TurnDone
  <2>4. CASE MaintenanceDone
    BY <2>4, <1>t DEF TerminalInv, MaintenanceDone, goroutines, Free, StartTurn, NoTurn, NoOp, NoLoop,
       ScreenKnows, Directories, Agents, Screens, AgentCalls, Turns, Operations
  <2> QED BY <1>4, <2>1, <2>2, <2>3, <2>4 DEF UIMessages
<1>5. CASE TurnSteps
  BY <1>5, <1>t DEF TerminalInv, TurnSteps, TurnStarts, TurnEmits, Emitted, ModelBoundary, TurnEnds,
     TurnStatus, SendDone, goroutines, CanRead, CanWrite, TurnReads, OpReads, ScreenKnows,
     Directories, Agents, Screens, AgentCalls, Turns, Operations
<1>6. CASE OpSteps
  BY <1>6, <1>t DEF TerminalInv, OpSteps, OpStarts, OpEnds, OpWrites, goroutines, SwitchModel,
     SwitchSandbox, CanRead, CanWrite, TurnReads, OpReads, ScreenKnows, Directories, Agents,
     Screens, AgentCalls, Turns, Operations
<1>7. CASE LoopSteps
  <2>1. CASE Snapshot
    BY <2>1, <1>t DEF TerminalInv, Snapshot, goroutines, NoLoop, Absent, CanRead, CanWrite, TurnReads,
       OpReads, ScreenKnows, Directories, Agents, Screens, AgentCalls, Turns, Operations
  <2>2. CASE OpenJournal
    BY <2>2, <1>s, OpenJournalDoes DEF TerminalInv, OnlyTurns, OnlyLock, OnlyModel, IsAbsent, OpensNew,
       OpensTarget, CanWrite, TurnReads, OpReads, ScreenKnows
  <2>3. CASE Install
    BY <2>3, <1>t DEF TerminalInv, Install, goroutines, NoLoop, Absent, CanRead, CanWrite, TurnReads,
       OpReads, ScreenKnows, Directories, Agents, Screens, AgentCalls, Turns, Operations
  <2>4. CASE CloseAgent
    BY <2>4, <1>t DEF TerminalInv, CloseAgent, goroutines, NoLoop, Absent, CanRead, CanWrite,
       TurnReads, OpReads, ScreenKnows, Directories, Agents, Screens, AgentCalls, Turns, Operations
  <2>5. CASE Release
    BY <2>5, <1>t DEF TerminalInv, Release, goroutines, NoLoop, Absent, CanRead, CanWrite, TurnReads,
       OpReads, ScreenKnows, Directories, Agents, Screens, AgentCalls, Turns, Operations
  <2>6. CASE Prune
    BY <2>6, <1>t DEF TerminalInv, Prune, goroutines, NoLoop, Absent, CanRead, CanWrite, TurnReads,
       OpReads, ScreenKnows, Directories, Agents, Screens, AgentCalls, Turns, Operations
  <2> QED BY <1>7, <2>1, <2>2, <2>3, <2>4, <2>5, <2>6 DEF LoopSteps
<1>8. CASE OtherOpens \/ OtherTurn \/ OtherCloses
  BY <1>8, <1>t DEF TerminalInv, OtherOpens, OtherTurn, OtherCloses, goroutines, Absent,
     ScreenKnows, Directories, Agents, Screens, AgentCalls, Turns, Operations
<1>9. {"", "on", "off"} \cup Models \subseteq Settings
  BY DEF Settings
<1> QED BY <1>0, <1>1, <1>2, <1>3, <1>4, <1>5, <1>6, <1>7, <1>8, <1>9 DEF TerminalNext

LEMMA SessionIsThereKept == TerminalInv /\ [TerminalNext]_tvars => SessionIsThere'
<1> SUFFICES ASSUME TerminalInv, [TerminalNext]_tvars PROVE SessionIsThere'
  OBVIOUS
<1>t. /\ dirs \in [Sessions -> Directories] /\ \A s \in Sessions : dirs[s] \in Directories
      /\ agent \in Agents /\ other \in [session : SomeSession, prune : BOOLEAN]
      /\ ui \in Screens /\ loop \in AgentCalls /\ uiTurn \in Turns /\ op \in Operations
  BY DEF TerminalTypeOK, TerminalInv
<1>s. /\ NoSession \notin Sessions /\ agent.session \in Sessions \cup {NoSession}
      /\ loop.target \in Sessions \cup {NoSession}
  BY <1>t, CyTerminalAssumption DEF Agents, AgentCalls, SomeSession
<1>0. CASE UNCHANGED tvars
  BY <1>0 DEF TerminalInv, tvars, SessionIsThere, ScreenKnows, SomeSession
<1>1. CASE SubmitInput \/ TypeAhead \/ CancelTurn \/ RestoreLatest
  BY <1>1, <1>t DEF TerminalInv, SubmitInput, TypeAhead, CancelTurn, RestoreLatest, goroutines,
     AtPrompt, Free, Command, StartTurn, NoTurn, SessionIsThere, ScreenKnows, SomeSession,
     Directories, Agents, Screens, AgentCalls, Turns, Operations
<1>2. CASE Clear \/ OpenPicker \/ ClosePicker \/ Exit
  BY <1>2, <1>t DEF TerminalInv, Clear, OpenPicker, ClosePicker, Exit, goroutines, AtPrompt, Free,
     Command, NoLoop, SessionIsThere, ScreenKnows, SomeSession, Directories, Agents, Screens,
     AgentCalls, Turns, Operations
<1>3. ASSUME NEW kind \in {"shell", "compact", "model", "sandbox"}, NEW arg \in Settings, StartMaintenance(kind, arg)
      PROVE SessionIsThere'
  BY <1>3, <1>t DEF TerminalInv, StartMaintenance, goroutines, AtPrompt, Free, Command, NoOp,
     SessionIsThere, ScreenKnows, SomeSession, Directories, Agents, Screens, AgentCalls, Turns,
     Operations
<1>4. CASE UIMessages
  BY <1>4, <1>t DEF TerminalInv, UIMessages, ResumeArrives, TakeEvent, TurnDone, MaintenanceDone,
     goroutines, Free, StartTurn, NoTurn, NoOp, NoLoop, SessionIsThere, ScreenKnows, SomeSession,
     Directories, Agents, Screens, AgentCalls, Turns, Operations
<1>5. CASE TurnSteps
  BY <1>5, <1>t DEF TerminalInv, TurnSteps, TurnStarts, TurnEmits, Emitted, ModelBoundary, TurnEnds,
     TurnStatus, SendDone, goroutines, CanRead, CanWrite, TurnReads, OpReads, SessionIsThere,
     ScreenKnows, SomeSession, Directories, Agents, Screens, AgentCalls, Turns, Operations
<1>6. CASE OpSteps
  BY <1>6, <1>t DEF TerminalInv, OpSteps, OpStarts, OpEnds, OpWrites, goroutines, SwitchModel,
     SwitchSandbox, CanRead, CanWrite, TurnReads, OpReads, SessionIsThere, ScreenKnows, SomeSession,
     Directories, Agents, Screens, AgentCalls, Turns, Operations
<1>7. CASE LoopSteps
  <2>1. CASE Snapshot
    BY <2>1, <1>t DEF TerminalInv, Snapshot, goroutines, NoLoop, Absent, CanRead, CanWrite, TurnReads,
       OpReads, SessionIsThere, ScreenKnows, SomeSession, Directories, Agents, Screens, AgentCalls,
       Turns, Operations
  <2>2. CASE OpenJournal
    BY <2>2, <1>s, OpenJournalDoes DEF TerminalInv, OnlyTurns, OnlyLock, OnlyModel, IsAbsent, OpensNew,
       OpensTarget, CanWrite, TurnReads, OpReads, SessionIsThere, ScreenKnows, SomeSession
  <2>3. CASE Install
    BY <2>3, <1>s, InstallDoes DEF TerminalInv, OnlyTurns, OnlyLock, OnlyModel, IsAbsent, OpensNew,
       OpensTarget, CanWrite, TurnReads, OpReads, SessionIsThere, ScreenKnows, SomeSession
  <2>4. CASE CloseAgent
    BY <2>4, <1>s, CloseAgentDoes DEF TerminalInv, OnlyTurns, OnlyLock, OnlyModel, IsAbsent, OpensNew,
       OpensTarget, CanWrite, TurnReads, OpReads, SessionIsThere, ScreenKnows, SomeSession
  <2>5. CASE Release
    BY <2>5, <1>s, ReleaseDoes DEF TerminalInv, OnlyTurns, OnlyLock, OnlyModel, IsAbsent, OpensNew,
       OpensTarget, CanWrite, TurnReads, OpReads, SessionIsThere, ScreenKnows, SomeSession
  <2>6. CASE Prune
    BY <2>6, <1>s, PruneDoes DEF TerminalInv, OnlyTurns, OnlyLock, OnlyModel, IsAbsent, OpensNew,
       OpensTarget, CanWrite, TurnReads, OpReads, SessionIsThere, ScreenKnows, SomeSession
  <2> QED BY <1>7, <2>1, <2>2, <2>3, <2>4, <2>5, <2>6 DEF LoopSteps
<1>8. CASE OtherOpens \/ OtherTurn \/ OtherCloses
  BY <1>8, <1>t DEF TerminalInv, OtherOpens, OtherTurn, OtherCloses, goroutines, Absent,
     SessionIsThere, ScreenKnows, SomeSession, Directories, Agents, Screens, AgentCalls, Turns,
     Operations
<1>9. {"", "on", "off"} \cup Models \subseteq Settings
  BY DEF Settings
<1> QED BY <1>0, <1>1, <1>2, <1>3, <1>4, <1>5, <1>6, <1>7, <1>8, <1>9 DEF TerminalNext

LEMMA ClearIsAloneKept == TerminalInv /\ [TerminalNext]_tvars => ClearIsAlone'
<1> SUFFICES ASSUME TerminalInv, [TerminalNext]_tvars PROVE ClearIsAlone'
  OBVIOUS
<1>t. /\ dirs \in [Sessions -> Directories] /\ \A s \in Sessions : dirs[s] \in Directories
      /\ agent \in Agents /\ other \in [session : SomeSession, prune : BOOLEAN]
      /\ ui \in Screens /\ loop \in AgentCalls /\ uiTurn \in Turns /\ op \in Operations
  BY DEF TerminalTypeOK, TerminalInv
<1>s. /\ NoSession \notin Sessions /\ agent.session \in Sessions \cup {NoSession}
      /\ loop.target \in Sessions \cup {NoSession}
  BY <1>t, CyTerminalAssumption DEF Agents, AgentCalls, SomeSession
<1>0. CASE UNCHANGED tvars
  BY <1>0 DEF TerminalInv, tvars, ClearIsAlone, ScreenKnows, SessionIsThere, SomeSession
<1>1. CASE SubmitInput \/ TypeAhead \/ CancelTurn \/ RestoreLatest
  BY <1>1, <1>t DEF TerminalInv, SubmitInput, TypeAhead, CancelTurn, RestoreLatest, goroutines,
     AtPrompt, Free, Command, StartTurn, NoTurn, ClearIsAlone, ScreenKnows, SessionIsThere,
     SomeSession, Directories, Agents, Screens, AgentCalls, Turns, Operations
<1>2. CASE Clear \/ OpenPicker \/ ClosePicker \/ Exit
  BY <1>2, <1>t DEF TerminalInv, Clear, OpenPicker, ClosePicker, Exit, goroutines, AtPrompt, Free,
     Command, NoLoop, ClearIsAlone, ScreenKnows, SessionIsThere, SomeSession, Directories, Agents,
     Screens, AgentCalls, Turns, Operations
<1>3. ASSUME NEW kind \in {"shell", "compact", "model", "sandbox"}, NEW arg \in Settings, StartMaintenance(kind, arg)
      PROVE ClearIsAlone'
  BY <1>3, <1>t DEF TerminalInv, StartMaintenance, goroutines, AtPrompt, Free, Command, NoOp,
     ClearIsAlone, ScreenKnows, SessionIsThere, SomeSession, Directories, Agents, Screens,
     AgentCalls, Turns, Operations
<1>4. CASE UIMessages
  BY <1>4, <1>t DEF TerminalInv, UIMessages, ResumeArrives, TakeEvent, TurnDone, MaintenanceDone,
     goroutines, Free, StartTurn, NoTurn, NoOp, NoLoop, ClearIsAlone, ScreenKnows, SessionIsThere,
     SomeSession, Directories, Agents, Screens, AgentCalls, Turns, Operations
<1>5. CASE TurnSteps
  BY <1>5, <1>t DEF TerminalInv, TurnSteps, TurnStarts, TurnEmits, Emitted, ModelBoundary, TurnEnds,
     TurnStatus, SendDone, goroutines, CanRead, CanWrite, TurnReads, OpReads, ClearIsAlone,
     ScreenKnows, SessionIsThere, SomeSession, Directories, Agents, Screens, AgentCalls, Turns,
     Operations
<1>6. CASE OpSteps
  BY <1>6, <1>t DEF TerminalInv, OpSteps, OpStarts, OpEnds, OpWrites, goroutines, SwitchModel,
     SwitchSandbox, CanRead, CanWrite, TurnReads, OpReads, ClearIsAlone, ScreenKnows,
     SessionIsThere, SomeSession, Directories, Agents, Screens, AgentCalls, Turns, Operations
<1>7. CASE LoopSteps
  <2>1. CASE Snapshot
    BY <2>1, <1>t DEF TerminalInv, Snapshot, goroutines, NoLoop, Absent, CanRead, CanWrite, TurnReads,
       OpReads, ClearIsAlone, ScreenKnows, SessionIsThere, SomeSession, Directories, Agents,
       Screens, AgentCalls, Turns, Operations
  <2>2. CASE OpenJournal
    BY <2>2, <1>s, OpenJournalDoes DEF TerminalInv, OnlyTurns, OnlyLock, OnlyModel, IsAbsent, OpensNew,
       OpensTarget, CanWrite, TurnReads, OpReads, ClearIsAlone, ScreenKnows, SessionIsThere,
       SomeSession
  <2>3. CASE Install
    BY <2>3, <1>t DEF TerminalInv, Install, goroutines, NoLoop, Absent, CanRead, CanWrite, TurnReads,
       OpReads, ClearIsAlone, ScreenKnows, SessionIsThere, SomeSession, Directories, Agents,
       Screens, AgentCalls, Turns, Operations
  <2>4. CASE CloseAgent
    BY <2>4, <1>t DEF TerminalInv, CloseAgent, goroutines, NoLoop, Absent, CanRead, CanWrite,
       TurnReads, OpReads, ClearIsAlone, ScreenKnows, SessionIsThere, SomeSession, Directories,
       Agents, Screens, AgentCalls, Turns, Operations
  <2>5. CASE Release
    BY <2>5, <1>t DEF TerminalInv, Release, goroutines, NoLoop, Absent, CanRead, CanWrite, TurnReads,
       OpReads, ClearIsAlone, ScreenKnows, SessionIsThere, SomeSession, Directories, Agents,
       Screens, AgentCalls, Turns, Operations
  <2>6. CASE Prune
    BY <2>6, <1>t DEF TerminalInv, Prune, goroutines, NoLoop, Absent, CanRead, CanWrite, TurnReads,
       OpReads, ClearIsAlone, ScreenKnows, SessionIsThere, SomeSession, Directories, Agents,
       Screens, AgentCalls, Turns, Operations
  <2> QED BY <1>7, <2>1, <2>2, <2>3, <2>4, <2>5, <2>6 DEF LoopSteps
<1>8. CASE OtherOpens \/ OtherTurn \/ OtherCloses
  BY <1>8, <1>t DEF TerminalInv, OtherOpens, OtherTurn, OtherCloses, goroutines, Absent,
     ClearIsAlone, ScreenKnows, SessionIsThere, SomeSession, Directories, Agents, Screens,
     AgentCalls, Turns, Operations
<1>9. {"", "on", "off"} \cup Models \subseteq Settings
  BY DEF Settings
<1> QED BY <1>0, <1>1, <1>2, <1>3, <1>4, <1>5, <1>6, <1>7, <1>8, <1>9 DEF TerminalNext

LEMMA LockedIsThereKept == TerminalInv /\ [TerminalNext]_tvars => LockedIsThere'
<1> SUFFICES ASSUME TerminalInv, [TerminalNext]_tvars PROVE LockedIsThere'
  OBVIOUS
<1>t. /\ dirs \in [Sessions -> Directories] /\ \A s \in Sessions : dirs[s] \in Directories
      /\ agent \in Agents /\ other \in [session : SomeSession, prune : BOOLEAN]
      /\ ui \in Screens /\ loop \in AgentCalls /\ uiTurn \in Turns /\ op \in Operations
  BY DEF TerminalTypeOK, TerminalInv
<1>s. /\ NoSession \notin Sessions /\ agent.session \in Sessions \cup {NoSession}
      /\ loop.target \in Sessions \cup {NoSession}
  BY <1>t, CyTerminalAssumption DEF Agents, AgentCalls, SomeSession
<1>0. CASE UNCHANGED tvars
  BY <1>0 DEF TerminalInv, tvars, LockedIsThere, SomeSession
<1>1. CASE SubmitInput \/ TypeAhead \/ CancelTurn \/ RestoreLatest
  BY <1>1, <1>t DEF TerminalInv, SubmitInput, TypeAhead, CancelTurn, RestoreLatest, goroutines,
     AtPrompt, Free, Command, StartTurn, NoTurn, LockedIsThere, SomeSession, Directories, Agents,
     Screens, AgentCalls, Turns, Operations
<1>2. CASE Clear \/ OpenPicker \/ ClosePicker \/ Exit
  BY <1>2, <1>t DEF TerminalInv, Clear, OpenPicker, ClosePicker, Exit, goroutines, AtPrompt, Free,
     Command, NoLoop, LockedIsThere, SomeSession, Directories, Agents, Screens, AgentCalls, Turns,
     Operations
<1>3. ASSUME NEW kind \in {"shell", "compact", "model", "sandbox"}, NEW arg \in Settings, StartMaintenance(kind, arg)
      PROVE LockedIsThere'
  BY <1>3, <1>t DEF TerminalInv, StartMaintenance, goroutines, AtPrompt, Free, Command, NoOp,
     LockedIsThere, SomeSession, Directories, Agents, Screens, AgentCalls, Turns, Operations
<1>4. CASE UIMessages
  BY <1>4, <1>t DEF TerminalInv, UIMessages, ResumeArrives, TakeEvent, TurnDone, MaintenanceDone,
     goroutines, Free, StartTurn, NoTurn, NoOp, NoLoop, LockedIsThere, SomeSession, Directories,
     Agents, Screens, AgentCalls, Turns, Operations
<1>5. CASE TurnSteps
  <2>1. CASE TurnStarts
    BY <2>1, <1>s, TurnStartsDoes DEF TerminalInv, OnlyTurns, OnlyLock, OnlyModel, IsAbsent, OpensNew,
       OpensTarget, CanWrite, TurnReads, OpReads, LockedIsThere, SomeSession
  <2>2. CASE TurnEmits
    BY <2>2, <1>t DEF TerminalInv, TurnEmits, goroutines, CanRead, CanWrite, TurnReads, OpReads,
       LockedIsThere, SomeSession, Directories, Agents, Screens, AgentCalls, Turns, Operations
  <2>3. CASE Emitted
    BY <2>3, <1>t DEF TerminalInv, Emitted, goroutines, CanRead, CanWrite, TurnReads, OpReads,
       LockedIsThere, SomeSession, Directories, Agents, Screens, AgentCalls, Turns, Operations
  <2>4. CASE ModelBoundary
    BY <2>4, <1>t DEF TerminalInv, ModelBoundary, goroutines, CanRead, CanWrite, TurnReads, OpReads,
       LockedIsThere, SomeSession, Directories, Agents, Screens, AgentCalls, Turns, Operations
  <2>5. CASE TurnEnds
    BY <2>5, <1>t DEF TerminalInv, TurnEnds, goroutines, CanRead, CanWrite, TurnReads, OpReads,
       LockedIsThere, SomeSession, Directories, Agents, Screens, AgentCalls, Turns, Operations
  <2>6. CASE TurnStatus
    BY <2>6, <1>t DEF TerminalInv, TurnStatus, goroutines, CanRead, CanWrite, TurnReads, OpReads,
       LockedIsThere, SomeSession, Directories, Agents, Screens, AgentCalls, Turns, Operations
  <2>7. CASE SendDone
    BY <2>7, <1>t DEF TerminalInv, SendDone, goroutines, CanRead, CanWrite, TurnReads, OpReads,
       LockedIsThere, SomeSession, Directories, Agents, Screens, AgentCalls, Turns, Operations
  <2> QED BY <1>5, <2>1, <2>2, <2>3, <2>4, <2>5, <2>6, <2>7 DEF TurnSteps
<1>6. CASE OpSteps
  <2>1. CASE OpStarts
    BY <2>1, <1>s, OpStartsDoes DEF TerminalInv, OnlyTurns, OnlyLock, OnlyModel, IsAbsent, OpensNew,
       OpensTarget, CanWrite, TurnReads, OpReads, LockedIsThere, SomeSession
  <2>2. CASE OpEnds
    BY <2>2, <1>t DEF TerminalInv, OpEnds, goroutines, SwitchModel, SwitchSandbox, CanRead, CanWrite,
       TurnReads, OpReads, LockedIsThere, SomeSession, Directories, Agents, Screens, AgentCalls,
       Turns, Operations
  <2>3. CASE OpWrites
    BY <2>3, <1>s, OpWritesDoes DEF TerminalInv, OnlyTurns, OnlyLock, OnlyModel, IsAbsent, OpensNew,
       OpensTarget, CanWrite, TurnReads, OpReads, LockedIsThere, SomeSession
  <2> QED BY <1>6, <2>1, <2>2, <2>3 DEF OpSteps
<1>7. CASE LoopSteps
  <2>1. CASE Snapshot
    BY <2>1, <1>t DEF TerminalInv, Snapshot, goroutines, NoLoop, Absent, CanRead, CanWrite, TurnReads,
       OpReads, LockedIsThere, SomeSession, Directories, Agents, Screens, AgentCalls, Turns,
       Operations
  <2>2. CASE OpenJournal
    BY <2>2, <1>s, OpenJournalDoes DEF TerminalInv, OnlyTurns, OnlyLock, OnlyModel, IsAbsent, OpensNew,
       OpensTarget, CanWrite, TurnReads, OpReads, LockedIsThere, SomeSession
  <2>3. CASE Install
    BY <2>3, <1>s, InstallDoes DEF TerminalInv, OnlyTurns, OnlyLock, OnlyModel, IsAbsent, OpensNew,
       OpensTarget, CanWrite, TurnReads, OpReads, LockedIsThere, SomeSession
  <2>4. CASE CloseAgent
    BY <2>4, <1>s, CloseAgentDoes DEF TerminalInv, OnlyTurns, OnlyLock, OnlyModel, IsAbsent, OpensNew,
       OpensTarget, CanWrite, TurnReads, OpReads, LockedIsThere, SomeSession
  <2>5. CASE Release
    BY <2>5, <1>s, ReleaseDoes DEF TerminalInv, OnlyTurns, OnlyLock, OnlyModel, IsAbsent, OpensNew,
       OpensTarget, CanWrite, TurnReads, OpReads, LockedIsThere, SomeSession
  <2>6. CASE Prune
    BY <2>6, <1>s, PruneDoes DEF TerminalInv, OnlyTurns, OnlyLock, OnlyModel, IsAbsent, OpensNew,
       OpensTarget, CanWrite, TurnReads, OpReads, LockedIsThere, SomeSession
  <2> QED BY <1>7, <2>1, <2>2, <2>3, <2>4, <2>5, <2>6 DEF LoopSteps
<1>8. CASE OtherOpens \/ OtherTurn \/ OtherCloses
  BY <1>8, <1>s, OtherDoes DEF TerminalInv, OnlyTurns, OnlyLock, OnlyModel, IsAbsent, OpensNew,
     OpensTarget, CanWrite, TurnReads, OpReads, LockedIsThere, SomeSession
<1>9. {"", "on", "off"} \cup Models \subseteq Settings
  BY DEF Settings
<1> QED BY <1>0, <1>1, <1>2, <1>3, <1>4, <1>5, <1>6, <1>7, <1>8, <1>9 DEF TerminalNext

LEMMA JournalNamesModelKept == TerminalInv /\ [TerminalNext]_tvars => JournalNamesModel'
<1> SUFFICES ASSUME TerminalInv, [TerminalNext]_tvars PROVE JournalNamesModel'
  OBVIOUS
<1>t. /\ dirs \in [Sessions -> Directories] /\ \A s \in Sessions : dirs[s] \in Directories
      /\ agent \in Agents /\ other \in [session : SomeSession, prune : BOOLEAN]
      /\ ui \in Screens /\ loop \in AgentCalls /\ uiTurn \in Turns /\ op \in Operations
  BY DEF TerminalTypeOK, TerminalInv
<1>s. /\ NoSession \notin Sessions /\ agent.session \in Sessions \cup {NoSession}
      /\ loop.target \in Sessions \cup {NoSession}
  BY <1>t, CyTerminalAssumption DEF Agents, AgentCalls, SomeSession
<1>0. CASE UNCHANGED tvars
  BY <1>0 DEF TerminalInv, tvars, JournalNamesModel, ScreenKnows, SessionIsThere, ClearIsAlone,
     AgentHoldsLock, SameAgain, LockedIsThere, SomeSession
<1>1. CASE SubmitInput \/ TypeAhead \/ CancelTurn \/ RestoreLatest
  BY <1>1, <1>t DEF TerminalInv, SubmitInput, TypeAhead, CancelTurn, RestoreLatest, goroutines,
     AtPrompt, Free, Command, StartTurn, NoTurn, JournalNamesModel, ScreenKnows, SessionIsThere,
     ClearIsAlone, AgentHoldsLock, SameAgain, LockedIsThere, SomeSession, Directories, Agents,
     Screens, AgentCalls, Turns, Operations
<1>2. CASE Clear \/ OpenPicker \/ ClosePicker \/ Exit
  BY <1>2, <1>t DEF TerminalInv, Clear, OpenPicker, ClosePicker, Exit, goroutines, AtPrompt, Free,
     Command, NoLoop, JournalNamesModel, ScreenKnows, SessionIsThere, ClearIsAlone, AgentHoldsLock,
     SameAgain, LockedIsThere, SomeSession, Directories, Agents, Screens, AgentCalls, Turns,
     Operations
<1>3. ASSUME NEW kind \in {"shell", "compact", "model", "sandbox"}, NEW arg \in Settings, StartMaintenance(kind, arg)
      PROVE JournalNamesModel'
  BY <1>3, <1>t DEF TerminalInv, StartMaintenance, goroutines, AtPrompt, Free, Command, NoOp,
     JournalNamesModel, ScreenKnows, SessionIsThere, ClearIsAlone, AgentHoldsLock, SameAgain,
     LockedIsThere, SomeSession, Directories, Agents, Screens, AgentCalls, Turns, Operations
<1>4. CASE UIMessages
  <2>1. CASE ResumeArrives
    BY <2>1, <1>t DEF TerminalInv, ResumeArrives, goroutines, Free, StartTurn, NoTurn, NoOp, NoLoop,
       JournalNamesModel, ScreenKnows, SessionIsThere, ClearIsAlone, AgentHoldsLock, SameAgain,
       LockedIsThere, SomeSession, Directories, Agents, Screens, AgentCalls, Turns, Operations
  <2>2. CASE TakeEvent
    BY <2>2, <1>t DEF TerminalInv, TakeEvent, goroutines, Free, StartTurn, NoTurn, NoOp, NoLoop,
       JournalNamesModel, ScreenKnows, SessionIsThere, ClearIsAlone, AgentHoldsLock, SameAgain,
       LockedIsThere, SomeSession, Directories, Agents, Screens, AgentCalls, Turns, Operations
  <2>3. CASE TurnDone
    BY <2>3, <1>t DEF TerminalInv, TurnDone, goroutines, Free, StartTurn, NoTurn, NoOp, NoLoop,
       JournalNamesModel, ScreenKnows, SessionIsThere, ClearIsAlone, AgentHoldsLock, SameAgain,
       LockedIsThere, SomeSession, Directories, Agents, Screens, AgentCalls, Turns, Operations
  <2>4. CASE MaintenanceDone
    BY <2>4, <1>t DEF TerminalInv, MaintenanceDone, goroutines, Free, StartTurn, NoTurn, NoOp, NoLoop,
       JournalNamesModel, ScreenKnows, SessionIsThere, ClearIsAlone, AgentHoldsLock, SameAgain,
       LockedIsThere, SomeSession, Directories, Agents, Screens, AgentCalls, Turns, Operations
  <2> QED BY <1>4, <2>1, <2>2, <2>3, <2>4 DEF UIMessages
<1>5. CASE TurnSteps
  <2>1. CASE TurnStarts
    BY <2>1, <1>s, TurnStartsDoes DEF TerminalInv, OnlyTurns, OnlyLock, OnlyModel, IsAbsent, OpensNew,
       OpensTarget, CanWrite, TurnReads, OpReads, JournalNamesModel, ScreenKnows, SessionIsThere,
       ClearIsAlone, AgentHoldsLock, SameAgain, LockedIsThere, SomeSession
  <2>2. CASE TurnEmits
    BY <2>2, <1>t DEF TerminalInv, TurnEmits, goroutines, CanRead, CanWrite, TurnReads, OpReads,
       JournalNamesModel, ScreenKnows, SessionIsThere, ClearIsAlone, AgentHoldsLock, SameAgain,
       LockedIsThere, SomeSession, Directories, Agents, Screens, AgentCalls, Turns, Operations
  <2>3. CASE Emitted
    BY <2>3, <1>t DEF TerminalInv, Emitted, goroutines, CanRead, CanWrite, TurnReads, OpReads,
       JournalNamesModel, ScreenKnows, SessionIsThere, ClearIsAlone, AgentHoldsLock, SameAgain,
       LockedIsThere, SomeSession, Directories, Agents, Screens, AgentCalls, Turns, Operations
  <2>4. CASE ModelBoundary
    BY <2>4, <1>t DEF TerminalInv, ModelBoundary, goroutines, CanRead, CanWrite, TurnReads, OpReads,
       JournalNamesModel, ScreenKnows, SessionIsThere, ClearIsAlone, AgentHoldsLock, SameAgain,
       LockedIsThere, SomeSession, Directories, Agents, Screens, AgentCalls, Turns, Operations
  <2>5. CASE TurnEnds
    BY <2>5, <1>t DEF TerminalInv, TurnEnds, goroutines, CanRead, CanWrite, TurnReads, OpReads,
       JournalNamesModel, ScreenKnows, SessionIsThere, ClearIsAlone, AgentHoldsLock, SameAgain,
       LockedIsThere, SomeSession, Directories, Agents, Screens, AgentCalls, Turns, Operations
  <2>6. CASE TurnStatus
    BY <2>6, <1>t DEF TerminalInv, TurnStatus, goroutines, CanRead, CanWrite, TurnReads, OpReads,
       JournalNamesModel, ScreenKnows, SessionIsThere, ClearIsAlone, AgentHoldsLock, SameAgain,
       LockedIsThere, SomeSession, Directories, Agents, Screens, AgentCalls, Turns, Operations
  <2>7. CASE SendDone
    BY <2>7, <1>t DEF TerminalInv, SendDone, goroutines, CanRead, CanWrite, TurnReads, OpReads,
       JournalNamesModel, ScreenKnows, SessionIsThere, ClearIsAlone, AgentHoldsLock, SameAgain,
       LockedIsThere, SomeSession, Directories, Agents, Screens, AgentCalls, Turns, Operations
  <2> QED BY <1>5, <2>1, <2>2, <2>3, <2>4, <2>5, <2>6, <2>7 DEF TurnSteps
<1>6. CASE OpSteps
  <2>1. CASE OpStarts
    BY <2>1, <1>s, OpStartsDoes DEF TerminalInv, OnlyTurns, OnlyLock, OnlyModel, IsAbsent, OpensNew,
       OpensTarget, CanWrite, TurnReads, OpReads, JournalNamesModel, ScreenKnows, SessionIsThere,
       ClearIsAlone, AgentHoldsLock, SameAgain, LockedIsThere, SomeSession
  <2>2. CASE OpEnds
    BY <2>2, <1>t DEF TerminalInv, OpEnds, goroutines, SwitchModel, SwitchSandbox, CanRead, CanWrite,
       TurnReads, OpReads, JournalNamesModel, ScreenKnows, SessionIsThere, ClearIsAlone,
       AgentHoldsLock, SameAgain, LockedIsThere, SomeSession, Directories, Agents, Screens,
       AgentCalls, Turns, Operations
  <2>3. CASE OpWrites
    BY <2>3, <1>s, OpWritesDoes DEF TerminalInv, OnlyTurns, OnlyLock, OnlyModel, IsAbsent, OpensNew,
       OpensTarget, CanWrite, TurnReads, OpReads, JournalNamesModel, ScreenKnows, SessionIsThere,
       ClearIsAlone, AgentHoldsLock, SameAgain, LockedIsThere, SomeSession
  <2> QED BY <1>6, <2>1, <2>2, <2>3 DEF OpSteps
<1>7. CASE LoopSteps
  <2>1. CASE Snapshot
    BY <2>1, <1>t DEF TerminalInv, Snapshot, goroutines, NoLoop, Absent, CanRead, CanWrite, TurnReads,
       OpReads, JournalNamesModel, ScreenKnows, SessionIsThere, ClearIsAlone, AgentHoldsLock,
       SameAgain, LockedIsThere, SomeSession, Directories, Agents, Screens, AgentCalls, Turns,
       Operations
  <2>2. CASE OpenJournal
    <3>1. ASSUME NEW s \in Sessions, OpensNew(s) PROVE JournalNamesModel'
      BY <2>2, <3>1, <1>s, OpenJournalDoes DEF TerminalInv, OpensNew, JournalNamesModel, ClearIsAlone
    <3>2. CASE OpensTarget
      BY <2>2, <3>2, <1>s, OpenJournalDoes DEF TerminalInv, OpensTarget, OnlyLock, JournalNamesModel
    <3>3. CASE loop'.pc = "idle" /\ UNCHANGED dirs
      BY <2>2, <3>3, <1>s, OpenJournalDoes DEF TerminalInv, JournalNamesModel
    <3> QED BY <2>2, <3>1, <3>2, <3>3, OpenJournalDoes DEF TerminalInv
  <2>3. CASE Install
    BY <2>3, <1>s, InstallDoes DEF TerminalInv, OnlyTurns, OnlyLock, OnlyModel, IsAbsent, OpensNew,
       OpensTarget, CanWrite, TurnReads, OpReads, JournalNamesModel, ScreenKnows, SessionIsThere,
       ClearIsAlone, AgentHoldsLock, SameAgain, LockedIsThere, SomeSession
  <2>4. CASE CloseAgent
    BY <2>4, <1>s, CloseAgentDoes DEF TerminalInv, OnlyTurns, OnlyLock, OnlyModel, IsAbsent, OpensNew,
       OpensTarget, CanWrite, TurnReads, OpReads, JournalNamesModel, ScreenKnows, SessionIsThere,
       ClearIsAlone, AgentHoldsLock, SameAgain, LockedIsThere, SomeSession
  <2>5. CASE Release
    <3>1. UNCHANGED agent /\ loop'.pc # "install"
      BY <2>5, ReleaseDoes DEF TerminalInv
    <3>2. \A s \in Sessions : dirs'[s].there = dirs[s].there /\ dirs'[s].model = dirs[s].model
      BY <2>5, ReleaseDoes DEF TerminalInv, OnlyLock
    <3> QED BY <3>1, <3>2 DEF TerminalInv, JournalNamesModel
  <2>6. CASE Prune
    BY <2>6, <1>s, PruneDoes DEF TerminalInv, OnlyTurns, OnlyLock, OnlyModel, IsAbsent, OpensNew,
       OpensTarget, CanWrite, TurnReads, OpReads, JournalNamesModel, ScreenKnows, SessionIsThere,
       ClearIsAlone, AgentHoldsLock, SameAgain, LockedIsThere, SomeSession
  <2> QED BY <1>7, <2>1, <2>2, <2>3, <2>4, <2>5, <2>6 DEF LoopSteps
<1>8. CASE OtherOpens \/ OtherTurn \/ OtherCloses
  <2>1. UNCHANGED <<agent, ui, loop, uiTurn, op>>
    BY <1>8, OtherDoes DEF TerminalInv
  <2>2. \A s \in Sessions : dirs'[s].there => dirs[s].there /\ dirs'[s].model = dirs[s].model
    BY <1>8, OtherDoes DEF TerminalInv, OnlyTurns, OnlyLock, IsAbsent
  <2> QED BY <2>1, <2>2 DEF TerminalInv, JournalNamesModel, SessionIsThere
<1>9. {"", "on", "off"} \cup Models \subseteq Settings
  BY DEF Settings
<1> QED BY <1>0, <1>1, <1>2, <1>3, <1>4, <1>5, <1>6, <1>7, <1>8, <1>9 DEF TerminalNext

LEMMA AgentHoldsLockKept == TerminalInv /\ [TerminalNext]_tvars => AgentHoldsLock'
<1> SUFFICES ASSUME TerminalInv, [TerminalNext]_tvars PROVE AgentHoldsLock'
  OBVIOUS
<1>t. /\ dirs \in [Sessions -> Directories] /\ \A s \in Sessions : dirs[s] \in Directories
      /\ agent \in Agents /\ other \in [session : SomeSession, prune : BOOLEAN]
      /\ ui \in Screens /\ loop \in AgentCalls /\ uiTurn \in Turns /\ op \in Operations
  BY DEF TerminalTypeOK, TerminalInv
<1>s. /\ NoSession \notin Sessions /\ agent.session \in Sessions \cup {NoSession}
      /\ loop.target \in Sessions \cup {NoSession}
  BY <1>t, CyTerminalAssumption DEF Agents, AgentCalls, SomeSession
<1>0. CASE UNCHANGED tvars
  BY <1>0 DEF TerminalInv, tvars, AgentHoldsLock, SessionIsThere, SameAgain, LockedIsThere,
     SomeSession
<1>1. CASE SubmitInput \/ TypeAhead \/ CancelTurn \/ RestoreLatest
  BY <1>1, <1>t DEF TerminalInv, SubmitInput, TypeAhead, CancelTurn, RestoreLatest, goroutines,
     AtPrompt, Free, Command, StartTurn, NoTurn, AgentHoldsLock, SessionIsThere, SameAgain,
     LockedIsThere, SomeSession, Directories, Agents, Screens, AgentCalls, Turns, Operations
<1>2. CASE Clear \/ OpenPicker \/ ClosePicker \/ Exit
  BY <1>2, <1>t DEF TerminalInv, Clear, OpenPicker, ClosePicker, Exit, goroutines, AtPrompt, Free,
     Command, NoLoop, AgentHoldsLock, SessionIsThere, SameAgain, LockedIsThere, SomeSession,
     Directories, Agents, Screens, AgentCalls, Turns, Operations
<1>3. ASSUME NEW kind \in {"shell", "compact", "model", "sandbox"}, NEW arg \in Settings, StartMaintenance(kind, arg)
      PROVE AgentHoldsLock'
  BY <1>3, <1>t DEF TerminalInv, StartMaintenance, goroutines, AtPrompt, Free, Command, NoOp,
     AgentHoldsLock, SessionIsThere, SameAgain, LockedIsThere, SomeSession, Directories, Agents,
     Screens, AgentCalls, Turns, Operations
<1>4. CASE UIMessages
  BY <1>4, <1>t DEF TerminalInv, UIMessages, ResumeArrives, TakeEvent, TurnDone, MaintenanceDone,
     goroutines, Free, StartTurn, NoTurn, NoOp, NoLoop, AgentHoldsLock, SessionIsThere, SameAgain,
     LockedIsThere, SomeSession, Directories, Agents, Screens, AgentCalls, Turns, Operations
<1>5. CASE TurnSteps
  <2>1. CASE TurnStarts
    BY <2>1, <1>s, TurnStartsDoes DEF TerminalInv, OnlyTurns, OnlyLock, OnlyModel, IsAbsent, OpensNew,
       OpensTarget, CanWrite, TurnReads, OpReads, AgentHoldsLock, SessionIsThere, SameAgain,
       LockedIsThere, SomeSession
  <2>2. CASE TurnEmits
    BY <2>2, <1>t DEF TerminalInv, TurnEmits, goroutines, CanRead, CanWrite, TurnReads, OpReads,
       AgentHoldsLock, SessionIsThere, SameAgain, LockedIsThere, SomeSession, Directories, Agents,
       Screens, AgentCalls, Turns, Operations
  <2>3. CASE Emitted
    BY <2>3, <1>t DEF TerminalInv, Emitted, goroutines, CanRead, CanWrite, TurnReads, OpReads,
       AgentHoldsLock, SessionIsThere, SameAgain, LockedIsThere, SomeSession, Directories, Agents,
       Screens, AgentCalls, Turns, Operations
  <2>4. CASE ModelBoundary
    BY <2>4, <1>t DEF TerminalInv, ModelBoundary, goroutines, CanRead, CanWrite, TurnReads, OpReads,
       AgentHoldsLock, SessionIsThere, SameAgain, LockedIsThere, SomeSession, Directories, Agents,
       Screens, AgentCalls, Turns, Operations
  <2>5. CASE TurnEnds
    BY <2>5, <1>t DEF TerminalInv, TurnEnds, goroutines, CanRead, CanWrite, TurnReads, OpReads,
       AgentHoldsLock, SessionIsThere, SameAgain, LockedIsThere, SomeSession, Directories, Agents,
       Screens, AgentCalls, Turns, Operations
  <2>6. CASE TurnStatus
    BY <2>6, <1>t DEF TerminalInv, TurnStatus, goroutines, CanRead, CanWrite, TurnReads, OpReads,
       AgentHoldsLock, SessionIsThere, SameAgain, LockedIsThere, SomeSession, Directories, Agents,
       Screens, AgentCalls, Turns, Operations
  <2>7. CASE SendDone
    BY <2>7, <1>t DEF TerminalInv, SendDone, goroutines, CanRead, CanWrite, TurnReads, OpReads,
       AgentHoldsLock, SessionIsThere, SameAgain, LockedIsThere, SomeSession, Directories, Agents,
       Screens, AgentCalls, Turns, Operations
  <2> QED BY <1>5, <2>1, <2>2, <2>3, <2>4, <2>5, <2>6, <2>7 DEF TurnSteps
<1>6. CASE OpSteps
  <2>1. CASE OpStarts
    BY <2>1, <1>s, OpStartsDoes DEF TerminalInv, OnlyTurns, OnlyLock, OnlyModel, IsAbsent, OpensNew,
       OpensTarget, CanWrite, TurnReads, OpReads, AgentHoldsLock, SessionIsThere, SameAgain,
       LockedIsThere, SomeSession
  <2>2. CASE OpEnds
    BY <2>2, <1>t DEF TerminalInv, OpEnds, goroutines, SwitchModel, SwitchSandbox, CanRead, CanWrite,
       TurnReads, OpReads, AgentHoldsLock, SessionIsThere, SameAgain, LockedIsThere, SomeSession,
       Directories, Agents, Screens, AgentCalls, Turns, Operations
  <2>3. CASE OpWrites
    BY <2>3, <1>s, OpWritesDoes DEF TerminalInv, OnlyTurns, OnlyLock, OnlyModel, IsAbsent, OpensNew,
       OpensTarget, CanWrite, TurnReads, OpReads, AgentHoldsLock, SessionIsThere, SameAgain,
       LockedIsThere, SomeSession
  <2> QED BY <1>6, <2>1, <2>2, <2>3 DEF OpSteps
<1>7. CASE LoopSteps
  <2>1. CASE Snapshot
    BY <2>1, <1>t DEF TerminalInv, Snapshot, goroutines, NoLoop, Absent, CanRead, CanWrite, TurnReads,
       OpReads, AgentHoldsLock, SessionIsThere, SameAgain, LockedIsThere, SomeSession, Directories,
       Agents, Screens, AgentCalls, Turns, Operations
  <2>2. CASE OpenJournal
    BY <2>2, <1>s, OpenJournalDoes DEF TerminalInv, OnlyTurns, OnlyLock, OnlyModel, IsAbsent, OpensNew,
       OpensTarget, CanWrite, TurnReads, OpReads, AgentHoldsLock, SessionIsThere, SameAgain,
       LockedIsThere, SomeSession
  <2>3. CASE Install
    BY <2>3, <1>s, InstallDoes DEF TerminalInv, OnlyTurns, OnlyLock, OnlyModel, IsAbsent, OpensNew,
       OpensTarget, CanWrite, TurnReads, OpReads, AgentHoldsLock, SessionIsThere, SameAgain,
       LockedIsThere, SomeSession
  <2>4. CASE CloseAgent
    BY <2>4, <1>s, CloseAgentDoes DEF TerminalInv, OnlyTurns, OnlyLock, OnlyModel, IsAbsent, OpensNew,
       OpensTarget, CanWrite, TurnReads, OpReads, AgentHoldsLock, SessionIsThere, SameAgain,
       LockedIsThere, SomeSession
  <2>5. CASE Release
    BY <2>5, <1>s, ReleaseDoes DEF TerminalInv, OnlyTurns, OnlyLock, OnlyModel, IsAbsent, OpensNew,
       OpensTarget, CanWrite, TurnReads, OpReads, AgentHoldsLock, SessionIsThere, SameAgain,
       LockedIsThere, SomeSession
  <2>6. CASE Prune
    BY <2>6, <1>s, PruneDoes DEF TerminalInv, OnlyTurns, OnlyLock, OnlyModel, IsAbsent, OpensNew,
       OpensTarget, CanWrite, TurnReads, OpReads, AgentHoldsLock, SessionIsThere, SameAgain,
       LockedIsThere, SomeSession
  <2> QED BY <1>7, <2>1, <2>2, <2>3, <2>4, <2>5, <2>6 DEF LoopSteps
<1>8. CASE OtherOpens \/ OtherTurn \/ OtherCloses
  BY <1>8, <1>s, OtherDoes DEF TerminalInv, OnlyTurns, OnlyLock, OnlyModel, IsAbsent, OpensNew,
     OpensTarget, CanWrite, TurnReads, OpReads, AgentHoldsLock, SessionIsThere, SameAgain,
     LockedIsThere, SomeSession
<1>9. {"", "on", "off"} \cup Models \subseteq Settings
  BY DEF Settings
<1> QED BY <1>0, <1>1, <1>2, <1>3, <1>4, <1>5, <1>6, <1>7, <1>8, <1>9 DEF TerminalNext

LEMMA SameAgainKept == TerminalInv /\ [TerminalNext]_tvars => SameAgain'
<1> SUFFICES ASSUME TerminalInv, [TerminalNext]_tvars PROVE SameAgain'
  OBVIOUS
<1>t. /\ dirs \in [Sessions -> Directories] /\ \A s \in Sessions : dirs[s] \in Directories
      /\ agent \in Agents /\ other \in [session : SomeSession, prune : BOOLEAN]
      /\ ui \in Screens /\ loop \in AgentCalls /\ uiTurn \in Turns /\ op \in Operations
  BY DEF TerminalTypeOK, TerminalInv
<1>s. /\ NoSession \notin Sessions /\ agent.session \in Sessions \cup {NoSession}
      /\ loop.target \in Sessions \cup {NoSession}
  BY <1>t, CyTerminalAssumption DEF Agents, AgentCalls, SomeSession
<1>0. CASE UNCHANGED tvars
  BY <1>0 DEF TerminalInv, tvars, SameAgain, ScreenKnows, SessionIsThere, ClearIsAlone,
     AgentHoldsLock, LockedIsThere, SomeSession
<1>1. CASE SubmitInput \/ TypeAhead \/ CancelTurn \/ RestoreLatest
  BY <1>1, <1>t DEF TerminalInv, SubmitInput, TypeAhead, CancelTurn, RestoreLatest, goroutines,
     AtPrompt, Free, Command, StartTurn, NoTurn, SameAgain, ScreenKnows, SessionIsThere,
     ClearIsAlone, AgentHoldsLock, LockedIsThere, SomeSession, Directories, Agents, Screens,
     AgentCalls, Turns, Operations
<1>2. CASE Clear \/ OpenPicker \/ ClosePicker \/ Exit
  BY <1>2, <1>t DEF TerminalInv, Clear, OpenPicker, ClosePicker, Exit, goroutines, AtPrompt, Free,
     Command, NoLoop, SameAgain, ScreenKnows, SessionIsThere, ClearIsAlone, AgentHoldsLock,
     LockedIsThere, SomeSession, Directories, Agents, Screens, AgentCalls, Turns, Operations
<1>3. ASSUME NEW kind \in {"shell", "compact", "model", "sandbox"}, NEW arg \in Settings, StartMaintenance(kind, arg)
      PROVE SameAgain'
  BY <1>3, <1>t DEF TerminalInv, StartMaintenance, goroutines, AtPrompt, Free, Command, NoOp,
     SameAgain, ScreenKnows, SessionIsThere, ClearIsAlone, AgentHoldsLock, LockedIsThere,
     SomeSession, Directories, Agents, Screens, AgentCalls, Turns, Operations
<1>4. CASE UIMessages
  <2>1. CASE ResumeArrives
    BY <2>1, <1>t DEF TerminalInv, ResumeArrives, goroutines, Free, StartTurn, NoTurn, NoOp, NoLoop,
       SameAgain, ScreenKnows, SessionIsThere, ClearIsAlone, AgentHoldsLock, LockedIsThere,
       SomeSession, Directories, Agents, Screens, AgentCalls, Turns, Operations
  <2>2. CASE TakeEvent
    BY <2>2, <1>t DEF TerminalInv, TakeEvent, goroutines, Free, StartTurn, NoTurn, NoOp, NoLoop,
       SameAgain, ScreenKnows, SessionIsThere, ClearIsAlone, AgentHoldsLock, LockedIsThere,
       SomeSession, Directories, Agents, Screens, AgentCalls, Turns, Operations
  <2>3. CASE TurnDone
    BY <2>3, <1>t DEF TerminalInv, TurnDone, goroutines, Free, StartTurn, NoTurn, NoOp, NoLoop,
       SameAgain, ScreenKnows, SessionIsThere, ClearIsAlone, AgentHoldsLock, LockedIsThere,
       SomeSession, Directories, Agents, Screens, AgentCalls, Turns, Operations
  <2>4. CASE MaintenanceDone
    BY <2>4, <1>t DEF TerminalInv, MaintenanceDone, goroutines, Free, StartTurn, NoTurn, NoOp, NoLoop,
       SameAgain, ScreenKnows, SessionIsThere, ClearIsAlone, AgentHoldsLock, LockedIsThere,
       SomeSession, Directories, Agents, Screens, AgentCalls, Turns, Operations
  <2> QED BY <1>4, <2>1, <2>2, <2>3, <2>4 DEF UIMessages
<1>5. CASE TurnSteps
  <2>1. CASE TurnStarts
    BY <2>1, <1>s, TurnStartsDoes DEF TerminalInv, OnlyTurns, OnlyLock, OnlyModel, IsAbsent, OpensNew,
       OpensTarget, CanWrite, TurnReads, OpReads, SameAgain, ScreenKnows, SessionIsThere,
       ClearIsAlone, AgentHoldsLock, LockedIsThere, SomeSession
  <2>2. CASE TurnEmits
    BY <2>2, <1>t DEF TerminalInv, TurnEmits, goroutines, CanRead, CanWrite, TurnReads, OpReads,
       SameAgain, ScreenKnows, SessionIsThere, ClearIsAlone, AgentHoldsLock, LockedIsThere,
       SomeSession, Directories, Agents, Screens, AgentCalls, Turns, Operations
  <2>3. CASE Emitted
    BY <2>3, <1>t DEF TerminalInv, Emitted, goroutines, CanRead, CanWrite, TurnReads, OpReads,
       SameAgain, ScreenKnows, SessionIsThere, ClearIsAlone, AgentHoldsLock, LockedIsThere,
       SomeSession, Directories, Agents, Screens, AgentCalls, Turns, Operations
  <2>4. CASE ModelBoundary
    BY <2>4, <1>t DEF TerminalInv, ModelBoundary, goroutines, CanRead, CanWrite, TurnReads, OpReads,
       SameAgain, ScreenKnows, SessionIsThere, ClearIsAlone, AgentHoldsLock, LockedIsThere,
       SomeSession, Directories, Agents, Screens, AgentCalls, Turns, Operations
  <2>5. CASE TurnEnds
    BY <2>5, <1>t DEF TerminalInv, TurnEnds, goroutines, CanRead, CanWrite, TurnReads, OpReads,
       SameAgain, ScreenKnows, SessionIsThere, ClearIsAlone, AgentHoldsLock, LockedIsThere,
       SomeSession, Directories, Agents, Screens, AgentCalls, Turns, Operations
  <2>6. CASE TurnStatus
    BY <2>6, <1>t DEF TerminalInv, TurnStatus, goroutines, CanRead, CanWrite, TurnReads, OpReads,
       SameAgain, ScreenKnows, SessionIsThere, ClearIsAlone, AgentHoldsLock, LockedIsThere,
       SomeSession, Directories, Agents, Screens, AgentCalls, Turns, Operations
  <2>7. CASE SendDone
    BY <2>7, <1>t DEF TerminalInv, SendDone, goroutines, CanRead, CanWrite, TurnReads, OpReads,
       SameAgain, ScreenKnows, SessionIsThere, ClearIsAlone, AgentHoldsLock, LockedIsThere,
       SomeSession, Directories, Agents, Screens, AgentCalls, Turns, Operations
  <2> QED BY <1>5, <2>1, <2>2, <2>3, <2>4, <2>5, <2>6, <2>7 DEF TurnSteps
<1>6. CASE OpSteps
  <2>1. CASE OpStarts
    BY <2>1, <1>s, OpStartsDoes DEF TerminalInv, OnlyTurns, OnlyLock, OnlyModel, IsAbsent, OpensNew,
       OpensTarget, CanWrite, TurnReads, OpReads, SameAgain, ScreenKnows, SessionIsThere,
       ClearIsAlone, AgentHoldsLock, LockedIsThere, SomeSession
  <2>2. CASE OpEnds
    BY <2>2, <1>t DEF TerminalInv, OpEnds, goroutines, SwitchModel, SwitchSandbox, CanRead, CanWrite,
       TurnReads, OpReads, SameAgain, ScreenKnows, SessionIsThere, ClearIsAlone, AgentHoldsLock,
       LockedIsThere, SomeSession, Directories, Agents, Screens, AgentCalls, Turns, Operations
  <2>3. CASE OpWrites
    BY <2>3, <1>s, OpWritesDoes DEF TerminalInv, OnlyTurns, OnlyLock, OnlyModel, IsAbsent, OpensNew,
       OpensTarget, CanWrite, TurnReads, OpReads, SameAgain, ScreenKnows, SessionIsThere,
       ClearIsAlone, AgentHoldsLock, LockedIsThere, SomeSession
  <2> QED BY <1>6, <2>1, <2>2, <2>3 DEF OpSteps
<1>7. CASE LoopSteps
  <2>1. CASE Snapshot
    BY <2>1, <1>t DEF TerminalInv, Snapshot, goroutines, NoLoop, Absent, CanRead, CanWrite, TurnReads,
       OpReads, SameAgain, ScreenKnows, SessionIsThere, ClearIsAlone, AgentHoldsLock, LockedIsThere,
       SomeSession, Directories, Agents, Screens, AgentCalls, Turns, Operations
  <2>2. CASE OpenJournal
    BY <2>2, <1>s, OpenJournalDoes DEF TerminalInv, OnlyTurns, OnlyLock, OnlyModel, IsAbsent, OpensNew,
       OpensTarget, CanWrite, TurnReads, OpReads, SameAgain, ScreenKnows, SessionIsThere,
       ClearIsAlone, AgentHoldsLock, LockedIsThere, SomeSession
  <2>3. CASE Install
    BY <2>3, <1>s, InstallDoes DEF TerminalInv, OnlyTurns, OnlyLock, OnlyModel, IsAbsent, OpensNew,
       OpensTarget, CanWrite, TurnReads, OpReads, SameAgain, ScreenKnows, SessionIsThere,
       ClearIsAlone, AgentHoldsLock, LockedIsThere, SomeSession
  <2>4. CASE CloseAgent
    BY <2>4, <1>s, CloseAgentDoes DEF TerminalInv, OnlyTurns, OnlyLock, OnlyModel, IsAbsent, OpensNew,
       OpensTarget, CanWrite, TurnReads, OpReads, SameAgain, ScreenKnows, SessionIsThere,
       ClearIsAlone, AgentHoldsLock, LockedIsThere, SomeSession
  <2>5. CASE Release
    BY <2>5, <1>s, ReleaseDoes DEF TerminalInv, OnlyTurns, OnlyLock, OnlyModel, IsAbsent, OpensNew,
       OpensTarget, CanWrite, TurnReads, OpReads, SameAgain, ScreenKnows, SessionIsThere,
       ClearIsAlone, AgentHoldsLock, LockedIsThere, SomeSession
  <2>6. CASE Prune
    BY <2>6, <1>s, PruneDoes DEF TerminalInv, OnlyTurns, OnlyLock, OnlyModel, IsAbsent, OpensNew,
       OpensTarget, CanWrite, TurnReads, OpReads, SameAgain, ScreenKnows, SessionIsThere,
       ClearIsAlone, AgentHoldsLock, LockedIsThere, SomeSession
  <2> QED BY <1>7, <2>1, <2>2, <2>3, <2>4, <2>5, <2>6 DEF LoopSteps
<1>8. CASE OtherOpens \/ OtherTurn \/ OtherCloses
  <2>1. UNCHANGED <<agent, ui, loop, uiTurn, op>>
    BY <1>8, OtherDoes DEF TerminalInv
  <2>2. \A s \in Sessions : dirs[s].lock # "other" => dirs'[s].turns = dirs[s].turns \/ dirs'[s].turns = 0
    BY <1>8, OtherDoes DEF TerminalInv, OnlyTurns, OnlyLock, IsAbsent
  <2>3. loop.pc \in {"install", "release"} /\ loop.target = agent.session =>
          agent.session \in Sessions /\ dirs[agent.session].lock # "other"
    BY DEF TerminalInv, SessionIsThere, AgentHoldsLock, LockedIsThere
  <2> QED BY <2>1, <2>2, <2>3 DEF TerminalInv, SameAgain
<1>9. {"", "on", "off"} \cup Models \subseteq Settings
  BY DEF Settings
<1> QED BY <1>0, <1>1, <1>2, <1>3, <1>4, <1>5, <1>6, <1>7, <1>8, <1>9 DEF TerminalNext

(* The types.                                                              *)
SomeMaintenance == \E kind \in {"shell", "compact", "model", "sandbox"}, arg \in Settings : StartMaintenance(kind, arg)
LEMMA TerminalActions == TerminalNext =>
    \/ SubmitInput \/ TypeAhead \/ CancelTurn \/ RestoreLatest \/ Clear \/ OpenPicker \/ ClosePicker
    \/ Exit \/ ResumeArrives \/ TakeEvent \/ TurnDone \/ MaintenanceDone \/ TurnStarts \/ TurnEmits
    \/ Emitted \/ ModelBoundary \/ TurnEnds \/ TurnStatus \/ SendDone \/ OpStarts \/ OpEnds
    \/ OpWrites \/ Snapshot \/ OpenJournal \/ Install \/ CloseAgent \/ Release \/ Prune
    \/ OtherOpens \/ OtherTurn \/ OtherCloses
    \/ SomeMaintenance
BY DEF TerminalNext, UIMessages, TurnSteps, OpSteps, LoopSteps, SomeMaintenance, Settings

LEMMA DirectoryTypes ==
    ASSUME DirectoriesOK, NEW s
    PROVE  /\ UNCHANGED dirs => DirectoriesOK'
           /\ dirs' = [dirs EXCEPT ![s].turns = 1] => DirectoriesOK'
           /\ \A lock \in {"free", "me", "other"} : dirs' = [dirs EXCEPT ![s].lock = lock] => DirectoriesOK'
           /\ \A model \in Settings : dirs' = [dirs EXCEPT ![s].model = model] => DirectoriesOK'
           /\ \A d \in Directories : dirs' = [dirs EXCEPT ![s] = d] => DirectoriesOK'
<1>t. \A d \in Sessions : dirs[d] \in Directories
  BY DEF DirectoriesOK
<1>0. UNCHANGED dirs => DirectoriesOK'
  BY DEF DirectoriesOK
<1>1. ASSUME dirs' = [dirs EXCEPT ![s].turns = 1] PROVE DirectoriesOK'
  BY <1>1, <1>t DEF DirectoriesOK, Directories
<1>2. ASSUME NEW lock \in {"free", "me", "other"}, dirs' = [dirs EXCEPT ![s].lock = lock] PROVE DirectoriesOK'
  BY <1>2, <1>t DEF DirectoriesOK, Directories
<1>3. ASSUME NEW model \in Settings, dirs' = [dirs EXCEPT ![s].model = model] PROVE DirectoriesOK'
  BY <1>3, <1>t DEF DirectoriesOK, Directories
<1>4. ASSUME NEW d \in Directories, dirs' = [dirs EXCEPT ![s] = d] PROVE DirectoriesOK'
  BY <1>4 DEF DirectoriesOK
<1> QED BY <1>0, <1>1, <1>2, <1>3, <1>4

LEMMA TypeDirs == TerminalTypeOK /\ [TerminalNext]_tvars => (dirs \in [Sessions -> Directories])'
<1> SUFFICES ASSUME TerminalTypeOK, [TerminalNext]_tvars PROVE (dirs \in [Sessions -> Directories])'
  OBVIOUS
<1>t. TerminalTypeOK /\ CyTerminalAssumption
  BY CyTerminalAssumption
<1>d. /\ DirectoriesOK /\ Absent \in Directories
      /\ op.arg \in Settings /\ loop.model \in Settings
  BY <1>t DEF TerminalTypeOK, DirectoriesOK, Absent, Directories, Operations, AgentCalls, Settings
<1>0. \/ UNCHANGED dirs
      \/ TurnStarts \/ OpStarts \/ OpWrites \/ OpenJournal \/ Release
      \/ Prune \/ OtherOpens \/ OtherTurn \/ OtherCloses
  BY TerminalActions DEF tvars, goroutines, SubmitInput, TypeAhead, CancelTurn, RestoreLatest,
     Clear, OpenPicker, ClosePicker, Exit, ResumeArrives, TakeEvent, TurnDone, MaintenanceDone,
     TurnEmits, Emitted, ModelBoundary, TurnEnds, TurnStatus, SendDone, OpEnds, Snapshot, Install,
     CloseAgent, StartMaintenance, SomeMaintenance
<1>1. CASE UNCHANGED dirs
  BY <1>t, <1>1 DEF TerminalTypeOK
<1>2. CASE TurnStarts
  <2>1. \/ UNCHANGED dirs
        \/ dirs' = [dirs EXCEPT ![agent.session].turns = 1]
    BY <1>2 DEF TurnStarts
  <2> QED BY <2>1, <1>d, DirectoryTypes DEF DirectoriesOK
<1>3. CASE OpStarts
  <2>1. \/ UNCHANGED dirs
        \/ dirs' = [dirs EXCEPT ![agent.session].turns = 1]
    BY <1>3 DEF OpStarts
  <2> QED BY <2>1, <1>d, DirectoryTypes DEF DirectoriesOK
<1>4. CASE OpWrites
  <2>1. \/ UNCHANGED dirs
        \/ dirs' = [dirs EXCEPT ![agent.session].model = op.arg]
    BY <1>4 DEF OpWrites, SwitchModel, SwitchSandbox
  <2> QED BY <2>1, <1>d, DirectoryTypes DEF DirectoriesOK
<1>5. CASE OpenJournal
  <2>1. \/ UNCHANGED dirs \/ dirs' = [dirs EXCEPT ![loop.target].lock = "me"]
        \/ \E s \in Sessions :
              dirs' = [dirs EXCEPT ![s] = [there |-> TRUE, lock |-> "me", turns |-> 0, model |-> loop.model]]
    BY <1>5 DEF OpenJournal
  <2>2. [there |-> TRUE, lock |-> "me", turns |-> 0, model |-> loop.model] \in Directories
    BY <1>d DEF Directories
  <2> QED BY <2>1, <2>2, <1>d, DirectoryTypes DEF DirectoriesOK
<1>6. CASE Release
  <2>1. \/ UNCHANGED dirs
        \/ dirs' = [dirs EXCEPT ![loop.target].lock = "free"]
    BY <1>6 DEF Release
  <2> QED BY <2>1, <1>d, DirectoryTypes DEF DirectoriesOK
<1>7. CASE Prune
  <2>1. \/ UNCHANGED dirs
        \/ dirs' = [dirs EXCEPT ![loop.target] = Absent]
    BY <1>7 DEF Prune
  <2> QED BY <2>1, <1>d, DirectoryTypes DEF DirectoriesOK
<1>8. CASE OtherOpens
  <2>1. \E s \in Sessions : dirs' = [dirs EXCEPT ![s].lock = "other"]
    BY <1>8 DEF OtherOpens
  <2> QED BY <2>1, <1>d, DirectoryTypes DEF DirectoriesOK
<1>9. CASE OtherTurn
  <2>1. \/ UNCHANGED dirs
        \/ dirs' = [dirs EXCEPT ![other.session].turns = 1]
    BY <1>9 DEF OtherTurn
  <2> QED BY <2>1, <1>d, DirectoryTypes DEF DirectoriesOK
<1>10. CASE OtherCloses
  <2>1. \/ UNCHANGED dirs
        \/ dirs' = [dirs EXCEPT ![other.session] = Absent]
        \/ dirs' = [dirs EXCEPT ![other.session].lock = "free"]
    BY <1>10 DEF OtherCloses
  <2> QED BY <2>1, <1>d, DirectoryTypes DEF DirectoriesOK
<1> QED BY <1>0, <1>1, <1>2, <1>3, <1>4, <1>5, <1>6, <1>7, <1>8, <1>9, <1>10

LEMMA TypeAgent == TerminalTypeOK /\ [TerminalNext]_tvars => (agent \in Agents)'
<1> SUFFICES ASSUME TerminalTypeOK, [TerminalNext]_tvars PROVE (agent \in Agents)'
  OBVIOUS
<1>t. TerminalTypeOK /\ CyTerminalAssumption
  BY CyTerminalAssumption
<1>0. \/ UNCHANGED agent
      \/ OpWrites \/ Install \/ CloseAgent
  BY TerminalActions DEF tvars, goroutines, SubmitInput, TypeAhead, CancelTurn, RestoreLatest,
     Clear, OpenPicker, ClosePicker, Exit, ResumeArrives, TakeEvent, TurnDone, MaintenanceDone,
     TurnStarts, TurnEmits, Emitted, ModelBoundary, TurnEnds, TurnStatus, SendDone, OpStarts,
     OpEnds, Snapshot, OpenJournal, Release, Prune, OtherOpens, OtherTurn, OtherCloses,
     StartMaintenance, SomeMaintenance
<1>1. CASE UNCHANGED agent
  BY <1>t, <1>1 DEF TerminalTypeOK
<1>2. CASE OpWrites
  <2>1. /\ op.arg \in Settings
        /\ UNCHANGED agent \/ agent' = [agent EXCEPT !.model = op.arg]
              \/ agent' = [agent EXCEPT !.sandbox = op.arg, !.policy = op.arg]
    BY <1>t, <1>2 DEF TerminalTypeOK, Operations, OpWrites, SwitchModel, SwitchSandbox
  <2> QED BY <1>t, <2>1 DEF TerminalTypeOK, Agents
<1>3. CASE Install
  <2>1. loop.target \in SomeSession /\ loop.model \in Settings /\ loop.sandbox \in Settings
    BY <1>t DEF TerminalTypeOK, AgentCalls
  <2>2. agent.gen \in Nat
    BY <1>t DEF TerminalTypeOK, Agents
  <2> QED BY <1>3, <2>1, <2>2 DEF Install, Agents
<1>4. CASE CloseAgent
  BY <1>t, <1>4 DEF TerminalTypeOK, CloseAgent, Agents, SwitchModel, SwitchSandbox, AgentCalls,
     Operations, SomeSession, Settings, CyTerminalAssumption
<1> QED BY <1>0, <1>1, <1>2, <1>3, <1>4

LEMMA TypeOther == TerminalTypeOK /\ [TerminalNext]_tvars => (other \in [session : SomeSession, prune : BOOLEAN])'
<1> SUFFICES ASSUME TerminalTypeOK, [TerminalNext]_tvars PROVE (other \in [session : SomeSession, prune : BOOLEAN])'
  OBVIOUS
<1>t. TerminalTypeOK /\ CyTerminalAssumption
  BY CyTerminalAssumption
<1>0. \/ UNCHANGED other
      \/ OtherOpens \/ OtherCloses
  BY TerminalActions DEF tvars, goroutines, SubmitInput, TypeAhead, CancelTurn, RestoreLatest,
     Clear, OpenPicker, ClosePicker, Exit, ResumeArrives, TakeEvent, TurnDone, MaintenanceDone,
     TurnStarts, TurnEmits, Emitted, ModelBoundary, TurnEnds, TurnStatus, SendDone, OpStarts,
     OpEnds, OpWrites, Snapshot, OpenJournal, Install, CloseAgent, Release, Prune, OtherTurn,
     StartMaintenance, SomeMaintenance
<1>1. CASE UNCHANGED other
  BY <1>t, <1>1 DEF TerminalTypeOK
<1>2. CASE OtherOpens
  BY <1>t, <1>2 DEF TerminalTypeOK, OtherOpens, SomeSession, CyTerminalAssumption
<1>3. CASE OtherCloses
  <2>1. \/ other' = [session |-> NoSession, prune |-> FALSE]
        \/ other' = [other EXCEPT !.prune = TRUE] \/ other' = [other EXCEPT !.session = NoSession]
    BY <1>3 DEF OtherCloses
  <2>2. other \in [session : SomeSession, prune : BOOLEAN] /\ NoSession \in SomeSession
        /\ TRUE \in BOOLEAN /\ FALSE \in BOOLEAN
    BY <1>t DEF TerminalTypeOK, SomeSession
  <2>3. CASE other' = [session |-> NoSession, prune |-> FALSE]
    BY <2>2, <2>3
  <2>4. CASE other' = [other EXCEPT !.prune = TRUE]
    BY <2>2, <2>4
  <2>5. CASE other' = [other EXCEPT !.session = NoSession]
    BY <2>2, <2>5
  <2> QED BY <2>1, <2>3, <2>4, <2>5
<1> QED BY <1>0, <1>1, <1>2, <1>3

LEMMA TypeUi == TerminalTypeOK /\ [TerminalNext]_tvars => (ui \in Screens)'
<1> SUFFICES ASSUME TerminalTypeOK, [TerminalNext]_tvars PROVE (ui \in Screens)'
  OBVIOUS
<1>t. TerminalTypeOK /\ CyTerminalAssumption
  BY CyTerminalAssumption
<1>0. \/ UNCHANGED ui
      \/ SubmitInput \/ OpenPicker \/ ClosePicker \/ SomeMaintenance \/ Exit
      \/ ResumeArrives \/ TurnDone \/ MaintenanceDone
  BY TerminalActions DEF tvars, goroutines, TypeAhead, CancelTurn, RestoreLatest, Clear, TakeEvent,
     TurnStarts, TurnEmits, Emitted, ModelBoundary, TurnEnds, TurnStatus, SendDone, OpStarts,
     OpEnds, OpWrites, Snapshot, OpenJournal, Install, CloseAgent, Release, Prune, OtherOpens,
     OtherTurn, OtherCloses, StartMaintenance
<1>1. CASE UNCHANGED ui
  BY <1>t, <1>1 DEF TerminalTypeOK
<1>2. CASE SubmitInput
  BY <1>t, <1>2 DEF TerminalTypeOK, SubmitInput, Screens, SomeSession, StartTurn, AtPrompt, Free,
     CyTerminalAssumption
<1>3. CASE OpenPicker
  BY <1>t, <1>3 DEF TerminalTypeOK, OpenPicker, Screens, SomeSession, StartTurn, AtPrompt, Free,
     CyTerminalAssumption
<1>4. CASE ClosePicker
  <2>1. ui' = [ui EXCEPT !.mode = "edit"] \/ \E s \in SomeSession : ui' = [ui EXCEPT !.mode = "edit", !.resume = s]
    BY <1>4 DEF ClosePicker, SomeSession
  <2> QED BY <1>t, <2>1 DEF TerminalTypeOK, Screens
<1>5. CASE SomeMaintenance
  BY <1>t, <1>5 DEF TerminalTypeOK, SomeMaintenance, StartMaintenance, Screens, SomeSession,
     StartTurn, AtPrompt, Free, CyTerminalAssumption
<1>6. CASE Exit
  BY <1>t, <1>6 DEF TerminalTypeOK, Exit, Screens, SomeSession, StartTurn, AtPrompt, Free,
     CyTerminalAssumption
<1>7. CASE ResumeArrives
  BY <1>t, <1>7 DEF TerminalTypeOK, ResumeArrives, Screens, SomeSession, StartTurn, AtPrompt, Free,
     CyTerminalAssumption
<1>8. CASE TurnDone
  BY <1>t, <1>8 DEF TerminalTypeOK, TurnDone, Screens, SomeSession, StartTurn, AtPrompt, Free,
     CyTerminalAssumption
<1>9. CASE MaintenanceDone
  BY <1>t, <1>9 DEF TerminalTypeOK, MaintenanceDone, Screens, SomeSession, StartTurn, AtPrompt,
     Free, CyTerminalAssumption
<1> QED BY <1>0, <1>1, <1>2, <1>3, <1>4, <1>5, <1>6, <1>7, <1>8, <1>9

LEMMA TypeLoop == TerminalTypeOK /\ [TerminalNext]_tvars => (loop \in AgentCalls)'
<1> SUFFICES ASSUME TerminalTypeOK, [TerminalNext]_tvars PROVE (loop \in AgentCalls)'
  OBVIOUS
<1>t. TerminalTypeOK /\ CyTerminalAssumption
  BY CyTerminalAssumption
<1>0. \/ UNCHANGED loop
      \/ Clear \/ Exit \/ ResumeArrives \/ Snapshot \/ OpenJournal
      \/ Install \/ CloseAgent \/ Release \/ Prune
  BY TerminalActions DEF tvars, goroutines, SubmitInput, TypeAhead, CancelTurn, RestoreLatest,
     OpenPicker, ClosePicker, TakeEvent, TurnDone, MaintenanceDone, TurnStarts, TurnEmits, Emitted,
     ModelBoundary, TurnEnds, TurnStatus, SendDone, OpStarts, OpEnds, OpWrites, OtherOpens,
     OtherTurn, OtherCloses, StartMaintenance, SomeMaintenance
<1>1. CASE UNCHANGED loop
  BY <1>t, <1>1 DEF TerminalTypeOK
<1>2. CASE Clear
  BY <1>t, <1>2 DEF TerminalTypeOK, Clear, AgentCalls, NoLoop, Agents, Screens, SomeSession,
     Settings, Directories, CyTerminalAssumption
<1>3. CASE Exit
  BY <1>t, <1>3 DEF TerminalTypeOK, Exit, AgentCalls, NoLoop, Agents, Screens, SomeSession,
     Settings, Directories, CyTerminalAssumption
<1>4. CASE ResumeArrives
  BY <1>t, <1>4 DEF TerminalTypeOK, ResumeArrives, AgentCalls, NoLoop, Agents, Screens, SomeSession,
     Settings, Directories, CyTerminalAssumption
<1>5. CASE Snapshot
  BY <1>t, <1>5 DEF TerminalTypeOK, Snapshot, AgentCalls, NoLoop, Agents, Screens, SomeSession,
     Settings, Directories, CyTerminalAssumption
<1>6. CASE OpenJournal
  <2>1. \/ loop' = NoLoop \/ \E s \in SomeSession : loop' = [loop EXCEPT !.pc = "install", !.target = s]
        \/ /\ loop.target # NoSession
           /\ loop' = [loop EXCEPT !.pc = "install", !.model = dirs[loop.target].model]
    BY <1>6 DEF OpenJournal, SomeSession
  <2>2. loop.target # NoSession => dirs[loop.target].model \in Settings
    <3>1. loop.target # NoSession => loop.target \in Sessions
      BY <1>t DEF TerminalTypeOK, AgentCalls, SomeSession
    <3> QED BY <1>t, <3>1 DEF TerminalTypeOK, Directories
  <2>3. NoLoop \in AgentCalls
    BY DEF NoLoop, AgentCalls, SomeSession, Settings
  <2>4. loop \in AgentCalls
    BY <1>t DEF TerminalTypeOK
  <2>5. CASE loop' = NoLoop
    BY <2>3, <2>5
  <2>6. ASSUME NEW s \in SomeSession, loop' = [loop EXCEPT !.pc = "install", !.target = s]
        PROVE loop' \in AgentCalls
    BY <2>4, <2>6 DEF AgentCalls
  <2>7. CASE loop.target # NoSession /\ loop' = [loop EXCEPT !.pc = "install", !.model = dirs[loop.target].model]
    <3> DEFINE m == dirs[loop.target].model
    <3>1. m \in Settings /\ loop' = [loop EXCEPT !.pc = "install", !.model = m]
      BY <2>2, <2>7
    <3> HIDE DEF m
    <3> QED BY <2>4, <3>1 DEF AgentCalls
  <2> QED BY <2>1, <2>5, <2>6, <2>7
<1>7. CASE Install
  BY <1>t, <1>7 DEF TerminalTypeOK, Install, AgentCalls, NoLoop, Agents, Screens, SomeSession,
     Settings, Directories, CyTerminalAssumption
<1>8. CASE CloseAgent
  BY <1>t, <1>8 DEF TerminalTypeOK, CloseAgent, AgentCalls, NoLoop, Agents, Screens, SomeSession,
     Settings, Directories, CyTerminalAssumption
<1>9. CASE Release
  BY <1>t, <1>9 DEF TerminalTypeOK, Release, AgentCalls, NoLoop, Agents, Screens, SomeSession,
     Settings, Directories, CyTerminalAssumption
<1>10. CASE Prune
  BY <1>t, <1>10 DEF TerminalTypeOK, Prune, AgentCalls, NoLoop, Agents, Screens, SomeSession,
     Settings, Directories, CyTerminalAssumption
<1> QED BY <1>0, <1>1, <1>2, <1>3, <1>4, <1>5, <1>6, <1>7, <1>8, <1>9, <1>10

LEMMA TypeUiturn == TerminalTypeOK /\ [TerminalNext]_tvars => (uiTurn \in Turns)'
<1> SUFFICES ASSUME TerminalTypeOK, [TerminalNext]_tvars PROVE (uiTurn \in Turns)'
  OBVIOUS
<1>t. TerminalTypeOK /\ CyTerminalAssumption
  BY CyTerminalAssumption
<1>0. \/ UNCHANGED uiTurn
      \/ SubmitInput \/ CancelTurn \/ TurnDone \/ TurnStarts \/ TurnEmits
      \/ Emitted \/ TurnEnds \/ TurnStatus \/ SendDone
  BY TerminalActions DEF tvars, goroutines, TypeAhead, RestoreLatest, Clear, OpenPicker,
     ClosePicker, Exit, ResumeArrives, TakeEvent, MaintenanceDone, ModelBoundary, OpStarts, OpEnds,
     OpWrites, Snapshot, OpenJournal, Install, CloseAgent, Release, Prune, OtherOpens, OtherTurn,
     OtherCloses, StartMaintenance, SomeMaintenance
<1>1. CASE UNCHANGED uiTurn
  BY <1>t, <1>1 DEF TerminalTypeOK
<1>2. CASE SubmitInput
  BY <1>t, <1>2 DEF TerminalTypeOK, SubmitInput, Turns, NoTurn, StartTurn, SomeSession, Agents,
     CyTerminalAssumption
<1>3. CASE CancelTurn
  BY <1>t, <1>3 DEF TerminalTypeOK, CancelTurn, Turns, NoTurn, StartTurn, SomeSession, Agents,
     CyTerminalAssumption
<1>4. CASE TurnDone
  <2>1. uiTurn' = NoTurn \/ uiTurn' = [NoTurn EXCEPT !.pc = "start"]
    BY <1>4 DEF TurnDone, StartTurn
  <2>2. NoTurn \in Turns
    BY DEF Turns, NoTurn, SomeSession
  <2> QED BY <2>1, <2>2 DEF Turns
<1>5. CASE TurnStarts
  BY <1>t, <1>5 DEF TerminalTypeOK, TurnStarts, Turns, NoTurn, StartTurn, SomeSession, Agents,
     CyTerminalAssumption
<1>6. CASE TurnEmits
  BY <1>t, <1>6 DEF TerminalTypeOK, TurnEmits, Turns, NoTurn, StartTurn, SomeSession, Agents,
     CyTerminalAssumption
<1>7. CASE Emitted
  BY <1>t, <1>7 DEF TerminalTypeOK, Emitted, Turns, NoTurn, StartTurn, SomeSession, Agents,
     CyTerminalAssumption
<1>8. CASE TurnEnds
  BY <1>t, <1>8 DEF TerminalTypeOK, TurnEnds, Turns, NoTurn, StartTurn, SomeSession, Agents,
     CyTerminalAssumption
<1>9. CASE TurnStatus
  BY <1>t, <1>9 DEF TerminalTypeOK, TurnStatus, Turns, NoTurn, StartTurn, SomeSession, Agents,
     CyTerminalAssumption
<1>10. CASE SendDone
  BY <1>t, <1>10 DEF TerminalTypeOK, SendDone, Turns, NoTurn, StartTurn, SomeSession, Agents,
     CyTerminalAssumption
<1> QED BY <1>0, <1>1, <1>2, <1>3, <1>4, <1>5, <1>6, <1>7, <1>8, <1>9, <1>10

LEMMA TypeOp == TerminalTypeOK /\ [TerminalNext]_tvars => (op \in Operations)'
<1> SUFFICES ASSUME TerminalTypeOK, [TerminalNext]_tvars PROVE (op \in Operations)'
  OBVIOUS
<1>t. TerminalTypeOK /\ CyTerminalAssumption
  BY CyTerminalAssumption
<1>0. \/ UNCHANGED op
      \/ SomeMaintenance \/ MaintenanceDone \/ OpStarts \/ OpEnds \/ OpWrites
  BY TerminalActions DEF tvars, goroutines, SubmitInput, TypeAhead, CancelTurn, RestoreLatest,
     Clear, OpenPicker, ClosePicker, Exit, ResumeArrives, TakeEvent, TurnDone, TurnStarts,
     TurnEmits, Emitted, ModelBoundary, TurnEnds, TurnStatus, SendDone, Snapshot, OpenJournal,
     Install, CloseAgent, Release, Prune, OtherOpens, OtherTurn, OtherCloses, StartMaintenance
<1>1. CASE UNCHANGED op
  BY <1>t, <1>1 DEF TerminalTypeOK
<1>2. CASE SomeMaintenance
  <2>1. \E arg \in Settings : op' = [NoOp EXCEPT !.pc = "start", !.arg = arg]
    BY <1>2 DEF SomeMaintenance, StartMaintenance
  <2>2. NoOp \in Operations
    BY DEF Operations, NoOp, Settings
  <2> QED BY <2>1, <2>2 DEF Operations
<1>3. CASE MaintenanceDone
  BY <1>t, <1>3 DEF TerminalTypeOK, MaintenanceDone, Operations, NoOp, Settings, Agents,
     CyTerminalAssumption
<1>4. CASE OpStarts
  BY <1>t, <1>4 DEF TerminalTypeOK, OpStarts, Operations, NoOp, Settings, Agents,
     CyTerminalAssumption
<1>5. CASE OpEnds
  BY <1>t, <1>5 DEF TerminalTypeOK, OpEnds, Operations, NoOp, Settings, Agents, CyTerminalAssumption
<1>6. CASE OpWrites
  BY <1>t, <1>6 DEF TerminalTypeOK, OpWrites, Operations, NoOp, Settings, Agents,
     CyTerminalAssumption
<1> QED BY <1>0, <1>1, <1>2, <1>3, <1>4, <1>5, <1>6

LEMMA TypeEvents == TerminalTypeOK /\ [TerminalNext]_tvars => (events \in 0..EventsCap)'
<1> SUFFICES ASSUME TerminalTypeOK, [TerminalNext]_tvars PROVE (events \in 0..EventsCap)'
  OBVIOUS
<1>t. TerminalTypeOK /\ CyTerminalAssumption
  BY CyTerminalAssumption
<1>0. \/ UNCHANGED events
      \/ SubmitInput \/ TakeEvent \/ TurnDone \/ Emitted \/ SendDone
  BY TerminalActions DEF tvars, goroutines, TypeAhead, CancelTurn, RestoreLatest, Clear, OpenPicker,
     ClosePicker, Exit, ResumeArrives, MaintenanceDone, TurnStarts, TurnEmits, ModelBoundary,
     TurnEnds, TurnStatus, OpStarts, OpEnds, OpWrites, Snapshot, OpenJournal, Install, CloseAgent,
     Release, Prune, OtherOpens, OtherTurn, OtherCloses, StartMaintenance, SomeMaintenance
<1>1. CASE UNCHANGED events
  BY <1>t, <1>1 DEF TerminalTypeOK
<1>2. CASE SubmitInput
  BY <1>t, <1>2 DEF TerminalTypeOK, SubmitInput, StartTurn, CyTerminalAssumption
<1>3. CASE TakeEvent
  BY <1>t, <1>3 DEF TerminalTypeOK, TakeEvent, StartTurn, CyTerminalAssumption
<1>4. CASE TurnDone
  BY <1>t, <1>4 DEF TerminalTypeOK, TurnDone, StartTurn, CyTerminalAssumption
<1>5. CASE Emitted
  BY <1>t, <1>5 DEF TerminalTypeOK, Emitted, StartTurn, CyTerminalAssumption
<1>6. CASE SendDone
  BY <1>t, <1>6 DEF TerminalTypeOK, SendDone, StartTurn, CyTerminalAssumption
<1> QED BY <1>0, <1>1, <1>2, <1>3, <1>4, <1>5, <1>6

LEMMA TypeQueued == TerminalTypeOK /\ [TerminalNext]_tvars => (queued \in Nat)'
<1> SUFFICES ASSUME TerminalTypeOK, [TerminalNext]_tvars PROVE (queued \in Nat)'
  OBVIOUS
<1>t. TerminalTypeOK /\ CyTerminalAssumption
  BY CyTerminalAssumption
<1>0. \/ UNCHANGED queued
      \/ SubmitInput \/ TypeAhead \/ CancelTurn \/ RestoreLatest \/ TurnDone
      \/ ModelBoundary \/ Install
  BY TerminalActions DEF tvars, goroutines, Clear, OpenPicker, ClosePicker, Exit, ResumeArrives,
     TakeEvent, MaintenanceDone, TurnStarts, TurnEmits, Emitted, TurnEnds, TurnStatus, SendDone,
     OpStarts, OpEnds, OpWrites, Snapshot, OpenJournal, CloseAgent, Release, Prune, OtherOpens,
     OtherTurn, OtherCloses, StartMaintenance, SomeMaintenance
<1>1. CASE UNCHANGED queued
  BY <1>t, <1>1 DEF TerminalTypeOK
<1>2. CASE SubmitInput
  BY <1>t, <1>2 DEF TerminalTypeOK, SubmitInput, StartTurn, CyTerminalAssumption
<1>3. CASE TypeAhead
  BY <1>t, <1>3 DEF TerminalTypeOK, TypeAhead, StartTurn, CyTerminalAssumption
<1>4. CASE CancelTurn
  BY <1>t, <1>4 DEF TerminalTypeOK, CancelTurn, StartTurn, CyTerminalAssumption
<1>5. CASE RestoreLatest
  BY <1>t, <1>5 DEF TerminalTypeOK, RestoreLatest, StartTurn, CyTerminalAssumption
<1>6. CASE TurnDone
  BY <1>t, <1>6 DEF TerminalTypeOK, TurnDone, StartTurn, CyTerminalAssumption
<1>7. CASE ModelBoundary
  BY <1>t, <1>7 DEF TerminalTypeOK, ModelBoundary, StartTurn, CyTerminalAssumption
<1>8. CASE Install
  BY <1>t, <1>8 DEF TerminalTypeOK, Install, StartTurn, CyTerminalAssumption
<1> QED BY <1>0, <1>1, <1>2, <1>3, <1>4, <1>5, <1>6, <1>7, <1>8

LEMMA TypeCount == TerminalTypeOK /\ [TerminalNext]_tvars => (count \in 0..MaxCommands)'
<1> SUFFICES ASSUME TerminalTypeOK, [TerminalNext]_tvars PROVE (count \in 0..MaxCommands)'
  OBVIOUS
<1>t. TerminalTypeOK /\ CyTerminalAssumption
  BY CyTerminalAssumption
<1>0. \/ UNCHANGED count
      \/ SubmitInput \/ TypeAhead \/ Clear \/ OpenPicker \/ SomeMaintenance
  BY TerminalActions DEF tvars, goroutines, CancelTurn, RestoreLatest, ClosePicker, Exit,
     ResumeArrives, TakeEvent, TurnDone, MaintenanceDone, TurnStarts, TurnEmits, Emitted,
     ModelBoundary, TurnEnds, TurnStatus, SendDone, OpStarts, OpEnds, OpWrites, Snapshot,
     OpenJournal, Install, CloseAgent, Release, Prune, OtherOpens, OtherTurn, OtherCloses,
     StartMaintenance
<1>1. CASE UNCHANGED count
  BY <1>t, <1>1 DEF TerminalTypeOK
<1>2. CASE SubmitInput
  BY <1>t, <1>2 DEF TerminalTypeOK, SubmitInput, Command, CyTerminalAssumption
<1>3. CASE TypeAhead
  BY <1>t, <1>3 DEF TerminalTypeOK, TypeAhead, Command, CyTerminalAssumption
<1>4. CASE Clear
  BY <1>t, <1>4 DEF TerminalTypeOK, Clear, Command, CyTerminalAssumption
<1>5. CASE OpenPicker
  BY <1>t, <1>5 DEF TerminalTypeOK, OpenPicker, Command, CyTerminalAssumption
<1>6. CASE SomeMaintenance
  BY <1>t, <1>6 DEF TerminalTypeOK, SomeMaintenance, StartMaintenance, Command, CyTerminalAssumption
<1> QED BY <1>0, <1>1, <1>2, <1>3, <1>4, <1>5, <1>6

LEMMA TerminalTypeKept == TerminalTypeOK /\ [TerminalNext]_tvars => TerminalTypeOK'
BY TypeDirs, TypeAgent, TypeOther, TypeUi, TypeLoop, TypeUiturn, TypeOp, TypeEvents, TypeQueued,
      TypeCount
   DEF TerminalTypeOK

LEMMA RuntimeMatchesKept == TerminalInv /\ [TerminalNext]_tvars => RuntimeMatches'
<1> SUFFICES ASSUME TerminalInv, [TerminalNext]_tvars PROVE RuntimeMatches'
  OBVIOUS
<1>t. /\ dirs \in [Sessions -> Directories] /\ \A s \in Sessions : dirs[s] \in Directories
      /\ agent \in Agents /\ other \in [session : SomeSession, prune : BOOLEAN]
      /\ ui \in Screens /\ loop \in AgentCalls /\ uiTurn \in Turns /\ op \in Operations
  BY DEF TerminalTypeOK, TerminalInv
<1>s. /\ NoSession \notin Sessions /\ agent.session \in Sessions \cup {NoSession}
      /\ loop.target \in Sessions \cup {NoSession}
  BY <1>t, CyTerminalAssumption DEF Agents, AgentCalls, SomeSession
<1>0. CASE UNCHANGED tvars
  BY <1>0 DEF TerminalInv, tvars, RuntimeMatches, TurnReads, ScreenKnows
<1>1. CASE SubmitInput \/ TypeAhead \/ CancelTurn \/ RestoreLatest
  BY <1>1, <1>t DEF TerminalInv, SubmitInput, TypeAhead, CancelTurn, RestoreLatest, goroutines,
     AtPrompt, Free, Command, StartTurn, NoTurn, RuntimeMatches, TurnReads, ScreenKnows,
     Directories, Agents, Screens, AgentCalls, Turns, Operations
<1>2. CASE Clear \/ OpenPicker \/ ClosePicker \/ Exit
  BY <1>2, <1>t DEF TerminalInv, Clear, OpenPicker, ClosePicker, Exit, goroutines, AtPrompt, Free,
     Command, NoLoop, RuntimeMatches, TurnReads, ScreenKnows, Directories, Agents, Screens,
     AgentCalls, Turns, Operations
<1>3. ASSUME NEW kind \in {"shell", "compact", "model", "sandbox"}, NEW arg \in Settings, StartMaintenance(kind, arg)
      PROVE RuntimeMatches'
  BY <1>3, <1>t DEF TerminalInv, StartMaintenance, goroutines, AtPrompt, Free, Command, NoOp,
     RuntimeMatches, TurnReads, ScreenKnows, Directories, Agents, Screens, AgentCalls, Turns,
     Operations
<1>4. CASE UIMessages
  <2>1. CASE ResumeArrives
    BY <2>1, <1>t DEF TerminalInv, ResumeArrives, goroutines, Free, StartTurn, NoTurn, NoOp, NoLoop,
       RuntimeMatches, TurnReads, ScreenKnows, Directories, Agents, Screens, AgentCalls, Turns,
       Operations
  <2>2. CASE TakeEvent
    BY <2>2, <1>t DEF TerminalInv, TakeEvent, goroutines, Free, StartTurn, NoTurn, NoOp, NoLoop,
       RuntimeMatches, TurnReads, ScreenKnows, Directories, Agents, Screens, AgentCalls, Turns,
       Operations
  <2>3. CASE TurnDone
    <3>1. UNCHANGED agent /\ uiTurn'.pc \in {"idle", "start"}
      BY <2>3 DEF TurnDone, StartTurn, NoTurn
    <3> QED BY <3>1 DEF TerminalInv, RuntimeMatches, TurnReads
  <2>4. CASE MaintenanceDone
    BY <2>4, <1>t DEF TerminalInv, MaintenanceDone, goroutines, Free, StartTurn, NoTurn, NoOp, NoLoop,
       RuntimeMatches, TurnReads, ScreenKnows, Directories, Agents, Screens, AgentCalls, Turns,
       Operations
  <2> QED BY <1>4, <2>1, <2>2, <2>3, <2>4 DEF UIMessages
<1>5. CASE TurnSteps
  <2>1. CASE TurnStarts
    BY <2>1, <1>s, TurnStartsDoes DEF TerminalInv, OnlyTurns, OnlyLock, OnlyModel, IsAbsent, OpensNew,
       OpensTarget, CanWrite, TurnReads, OpReads, RuntimeMatches, ScreenKnows
  <2>2. CASE TurnEmits
    BY <2>2, <1>t DEF TerminalInv, TurnEmits, goroutines, CanRead, CanWrite, TurnReads, OpReads,
       RuntimeMatches, ScreenKnows, Directories, Agents, Screens, AgentCalls, Turns, Operations
  <2>3. CASE Emitted
    BY <2>3, <1>t DEF TerminalInv, Emitted, goroutines, CanRead, CanWrite, TurnReads, OpReads,
       RuntimeMatches, ScreenKnows, Directories, Agents, Screens, AgentCalls, Turns, Operations
  <2>4. CASE ModelBoundary
    BY <2>4, <1>t DEF TerminalInv, ModelBoundary, goroutines, CanRead, CanWrite, TurnReads, OpReads,
       RuntimeMatches, ScreenKnows, Directories, Agents, Screens, AgentCalls, Turns, Operations
  <2>5. CASE TurnEnds
    BY <2>5, <1>t DEF TerminalInv, TurnEnds, goroutines, CanRead, CanWrite, TurnReads, OpReads,
       RuntimeMatches, ScreenKnows, Directories, Agents, Screens, AgentCalls, Turns, Operations
  <2>6. CASE TurnStatus
    BY <2>6, <1>t DEF TerminalInv, TurnStatus, goroutines, CanRead, CanWrite, TurnReads, OpReads,
       RuntimeMatches, ScreenKnows, Directories, Agents, Screens, AgentCalls, Turns, Operations
  <2>7. CASE SendDone
    BY <2>7, <1>t DEF TerminalInv, SendDone, goroutines, CanRead, CanWrite, TurnReads, OpReads,
       RuntimeMatches, ScreenKnows, Directories, Agents, Screens, AgentCalls, Turns, Operations
  <2> QED BY <1>5, <2>1, <2>2, <2>3, <2>4, <2>5, <2>6, <2>7 DEF TurnSteps
<1>6. CASE OpSteps
  <2>1. CASE OpStarts
    BY <2>1, <1>s, OpStartsDoes DEF TerminalInv, OnlyTurns, OnlyLock, OnlyModel, IsAbsent, OpensNew,
       OpensTarget, CanWrite, TurnReads, OpReads, RuntimeMatches, ScreenKnows
  <2>2. CASE OpEnds
    BY <2>2, <1>t DEF TerminalInv, OpEnds, goroutines, SwitchModel, SwitchSandbox, CanRead, CanWrite,
       TurnReads, OpReads, RuntimeMatches, ScreenKnows, Directories, Agents, Screens, AgentCalls,
       Turns, Operations
  <2>3. CASE OpWrites
    BY <2>3, <1>s, OpWritesDoes DEF TerminalInv, OnlyTurns, OnlyLock, OnlyModel, IsAbsent, OpensNew,
       OpensTarget, CanWrite, TurnReads, OpReads, RuntimeMatches, ScreenKnows
  <2> QED BY <1>6, <2>1, <2>2, <2>3 DEF OpSteps
<1>7. CASE LoopSteps
  <2>1. CASE Snapshot
    BY <2>1, <1>t DEF TerminalInv, Snapshot, goroutines, NoLoop, Absent, CanRead, CanWrite, TurnReads,
       OpReads, RuntimeMatches, ScreenKnows, Directories, Agents, Screens, AgentCalls, Turns,
       Operations
  <2>2. CASE OpenJournal
    BY <2>2, <1>s, OpenJournalDoes DEF TerminalInv, OnlyTurns, OnlyLock, OnlyModel, IsAbsent, OpensNew,
       OpensTarget, CanWrite, TurnReads, OpReads, RuntimeMatches, ScreenKnows
  <2>3. CASE Install
    BY <2>3, <1>s, InstallDoes DEF TerminalInv, OnlyTurns, OnlyLock, OnlyModel, IsAbsent, OpensNew,
       OpensTarget, CanWrite, TurnReads, OpReads, RuntimeMatches, ScreenKnows
  <2>4. CASE CloseAgent
    BY <2>4, <1>s, CloseAgentDoes DEF TerminalInv, OnlyTurns, OnlyLock, OnlyModel, IsAbsent, OpensNew,
       OpensTarget, CanWrite, TurnReads, OpReads, RuntimeMatches, ScreenKnows
  <2>5. CASE Release
    BY <2>5, <1>s, ReleaseDoes DEF TerminalInv, OnlyTurns, OnlyLock, OnlyModel, IsAbsent, OpensNew,
       OpensTarget, CanWrite, TurnReads, OpReads, RuntimeMatches, ScreenKnows
  <2>6. CASE Prune
    BY <2>6, <1>s, PruneDoes DEF TerminalInv, OnlyTurns, OnlyLock, OnlyModel, IsAbsent, OpensNew,
       OpensTarget, CanWrite, TurnReads, OpReads, RuntimeMatches, ScreenKnows
  <2> QED BY <1>7, <2>1, <2>2, <2>3, <2>4, <2>5, <2>6 DEF LoopSteps
<1>8. CASE OtherOpens \/ OtherTurn \/ OtherCloses
  BY <1>8, <1>s, OtherDoes DEF TerminalInv, OnlyTurns, OnlyLock, OnlyModel, IsAbsent, OpensNew,
     OpensTarget, CanWrite, TurnReads, OpReads, RuntimeMatches, ScreenKnows
<1>9. {"", "on", "off"} \cup Models \subseteq Settings
  BY DEF Settings
<1> QED BY <1>0, <1>1, <1>2, <1>3, <1>4, <1>5, <1>6, <1>7, <1>8, <1>9 DEF TerminalNext

LEMMA TerminalInitial == TerminalInit => TerminalInv
<1> SUFFICES ASSUME TerminalInit PROVE TerminalInv
  OBVIOUS
<1>1. PICK s \in Sessions, m \in Models :
        /\ dirs \in [Sessions -> {Absent} \cup
                       [there : {TRUE}, lock : {"free"}, turns : {0, 1}, model : Models]
                       \cup {[there |-> TRUE, lock |-> "me", turns |-> 0, model |-> m]}]
        /\ \A x \in Sessions : dirs[x].lock = "me" <=> x = s
        /\ agent = [session |-> s, model |-> m, sandbox |-> "off", policy |-> "off", gen |-> 0]
        /\ other = [session |-> NoSession, prune |-> FALSE]
        /\ ui = [mode |-> "edit", working |-> FALSE, busy |-> "", resume |-> NoSession]
        /\ loop = NoLoop /\ uiTurn = NoTurn /\ op = NoOp
        /\ events = 0 /\ queued = 0 /\ count = 0
  BY DEF TerminalInit
<1>a. CyTerminalAssumption
  BY CyTerminalAssumption
<1>2. /\ \A x \in Sessions : dirs[x] = Absent \/ dirs[x] = [there |-> TRUE, lock |-> "me", turns |-> 0, model |-> m]
           \/ dirs[x] \in [there : {TRUE}, lock : {"free"}, turns : {0, 1}, model : Models]
      /\ s \in Sessions /\ NoSession \notin Sessions /\ m \in Models
  BY <1>1, <1>a DEF CyTerminalAssumption
<1>b. /\ Absent \in Directories /\ Absent.lock = "free"
      /\ [there |-> TRUE, lock |-> "me", turns |-> 0, model |-> m] \in Directories
      /\ \A d \in [there : {TRUE}, lock : {"free"}, turns : {0, 1}, model : Models] :
            d \in Directories /\ d.there /\ d.lock = "free"
  BY <1>2 DEF Absent, Directories, Settings
<1>3. \A x \in Sessions : dirs[x] \in Directories
  BY <1>2, <1>b
<1>4. dirs[s].lock = "me" /\ dirs[s].there /\ dirs[s].model = m
  <2>1. dirs[s].lock = "me"
    BY <1>1
  <2>2. dirs[s] = [there |-> TRUE, lock |-> "me", turns |-> 0, model |-> m]
    BY <1>2, <1>b, <2>1
  <2> QED BY <2>2
<1>5. TerminalTypeOK
  <2>1. dirs \in [Sessions -> Directories]
    BY <1>1, <1>3
  <2>2. agent \in Agents /\ other \in [session : SomeSession, prune : BOOLEAN] /\ ui \in Screens
    BY <1>1, <1>2 DEF Agents, Screens, SomeSession, Settings
  <2>3. loop \in AgentCalls /\ uiTurn \in Turns /\ op \in Operations
    BY <1>1 DEF NoLoop, NoTurn, NoOp, AgentCalls, Turns, Operations, SomeSession, Settings
  <2>4. events \in 0..EventsCap /\ queued \in Nat /\ count \in 0..MaxCommands
    <3>1. 0 \in 0..EventsCap /\ 0 \in Nat /\ 0 \in 0..MaxCommands
      BY <1>a DEF CyTerminalAssumption
    <3> QED BY <1>1, <3>1
  <2> QED BY <2>1, <2>2, <2>3, <2>4 DEF TerminalTypeOK
<1>6. /\ agent.session = s /\ agent.model = m /\ agent.policy = agent.sandbox /\ uiTurn.pc = "idle" /\ op.pc = "idle"
      /\ ui.mode = "edit" /\ ~ui.working /\ ui.busy = "" /\ loop.pc = "idle"
  BY <1>1 DEF NoLoop, NoTurn, NoOp
<1>7. LockedIsThere
  <2> SUFFICES ASSUME NEW x \in Sessions, dirs[x].lock # "free" PROVE dirs[x].there
    BY DEF LockedIsThere
  <2>1. CASE dirs[x] = [there |-> TRUE, lock |-> "me", turns |-> 0, model |-> m]
    BY <2>1
  <2> QED BY <1>2, <1>b, <2>1
<1>8. ScreenKnows /\ SessionIsThere /\ ClearIsAlone /\ JournalNamesModel /\ AgentHoldsLock /\ SameAgain
  BY <1>2, <1>4, <1>6 DEF ScreenKnows, SessionIsThere, ClearIsAlone, JournalNamesModel,
        AgentHoldsLock, SameAgain
<1>9. RuntimeMatches
  BY <1>6 DEF RuntimeMatches, TurnReads
<1> QED BY <1>5, <1>7, <1>8, <1>9 DEF TerminalInv

LEMMA TerminalKept == TerminalInv /\ [TerminalNext]_tvars => TerminalInv'
BY TerminalTypeKept, ScreenKnowsKept, SessionIsThereKept, ClearIsAloneKept, LockedIsThereKept,
      JournalNamesModelKept,
   AgentHoldsLockKept, SameAgainKept, RuntimeMatchesKept DEF TerminalInv

LEMMA TerminalAlways == TerminalSpec => []TerminalInv
BY TerminalInitial, TerminalKept, PTL DEF TerminalSpec

(* Every variable of the terminal keeps its shape.                          *)
THEOREM TerminalTypeCorrect == TerminalSpec => []TerminalTypeOK
<1>1. TerminalInv => TerminalTypeOK
  BY DEF TerminalInv
<1> QED BY TerminalAlways, <1>1, PTL

(* Whatever switches, resumes, clears and turns overlap, with a second      *)
(* process on the same directories: the turn writes to the agent's session, *)
(* its journal names the agent's model, and the processes run under the     *)
(* agent's policy (cy/session_agent.go).                                    *)
THEOREM TerminalRuntimeIsConsistent == TerminalSpec => []RuntimeIsConsistent
<1>1. TerminalInv => RuntimeIsConsistent
  <2>1. ASSUME TerminalInv, agent.session # NoSession PROVE agent.session \in Sessions
    BY <2>1 DEF TerminalInv, TerminalTypeOK, Agents, SomeSession
  <2> QED BY <2>1 DEF TerminalInv, LockedIsThere, JournalNamesModel, RuntimeMatches, RuntimeIsConsistent
<1> QED BY TerminalAlways, <1>1, PTL

(* A turn and a shell command or compaction never append to the journal at  *)
(* once, although both hold the agent's lock as readers: the event loop     *)
(* starts neither while the other is under way (cy/internal/ui).            *)
THEOREM TerminalOneAppender == TerminalSpec => []OneAppender
<1>1. TerminalInv => OneAppender
  BY DEF TerminalInv, ScreenKnows, OneAppender, TurnReads, OpReads
<1> QED BY TerminalAlways, <1>1, PTL

-----------------------------------------------------------------------------
(* The journal of a session.                                                *)

(* A record of the journal; what its body is depends on its type: the input *)
(* of a user's message, the calls of a response, the call of a result, the  *)
(* boundary of a pruning or a compaction.                                   *)
Kinds == {"read", "write", "bash"}
CallPlaces == Nat \X Nat
Records == [type : {"started", "user", "assistant", "result", "pruned", "compacted", "finished", "junk"},
            run : Nat, body : Nat \cup Inputs \cup Seq(Kinds) \cup CallPlaces, seq : Nat]
BodyFits(r) ==
    /\ r.type = "assistant" => r.body \in Seq(Kinds)
    /\ r.type \in {"pruned", "compacted"} => r.body \in Nat
TurnRecords ==
    [pc : {"idle", "boundary", "context", "request", "tools", "limit", "complete", "fail", "ran"},
     run : Nat, at : Nat, done : Nat, iter : Nat, final : BOOLEAN, cancelled : BOOLEAN,
     rebuilt : BOOLEAN, notice : BOOLEAN]

JournalTypes ==
    /\ disk \in Seq(Records) /\ \A i \in DOMAIN disk : BodyFits(disk[i])
    /\ seq \in Nat /\ runs \in Nat /\ turn \in TurnRecords
    /\ editor \subseteq Inputs /\ queue \in Seq(Inputs)

(* While a process has the journal open, its number is that of the last     *)
(* line, and only a failed write, which it remembers, leaves a partial one. *)
WriterKnows ==
    up => seq = Len(disk) /\ (~werr => tail = "none")

(* The calls that are answered are those of a response on disk.             *)
CallsAreThere ==
    turn.pc \in {"tools", "limit"} =>
        up /\ turn.at \in DOMAIN disk /\ disk[turn.at].type = "assistant"

JournalInv == JournalTypes /\ Replayable(disk) /\ WriterKnows /\ CallsAreThere

(***************************************************************************)
(* The least and the greatest of a set of numbers.                         *)
(***************************************************************************)
LEMMA LeastOfNats ==
    ASSUME NEW S, S \subseteq Nat, S # {}
    PROVE  \E i \in S : \A j \in S : i <= j
<1> DEFINE less == {pair \in Nat \X Nat : pair[1] < pair[2]}
<1>1. IsWellFoundedOn(less, Nat)
  BY NatLessThanWellFounded DEF OpToRel
<1>2. \E i \in S : \A j \in S : <<j, i>> \notin less
  <2> HIDE DEF less
  <2> QED BY <1>1, WFMin
<1>3. \A i, j \in Nat : <<j, i>> \notin less => i <= j
  OBVIOUS
<1> HIDE DEF less
<1> QED BY <1>2, <1>3

LEMMA LastIsGreatest ==
    ASSUME NEW n \in Nat, NEW S, S \subseteq 1..n, S # {}
    PROVE  Last(S) \in S /\ \A j \in S : j <= Last(S)
<1> DEFINE above == {n - i : i \in S}
<1>0. above \subseteq Nat /\ above # {}
  <2>1. \A i \in S : n - i \in Nat
    OBVIOUS
  <2> QED BY <2>1
<1>1. PICK d \in above : \A e \in above : d <= e
  <2> HIDE DEF above
  <2> QED BY <1>0, LeastOfNats
<1>2. PICK i \in S : d = n - i
  BY <1>1
<1>3. \A j \in S : j <= i
  BY <1>1, <1>2
<1> QED BY <1>3 DEF Last

(***************************************************************************)
(* What may be written after a journal that replays.                       *)
(***************************************************************************)
Follows(r, J) ==
    \/ r.type \in {"user", "assistant", "result", "finished"}
    \/ r.type = "compacted" /\ r.body \in Nat \ {0}
    \/ /\ r.type = "pruned" /\ r.body \in 1..Len(J)
       /\ \A i \in DOMAIN J : J[i].type = "pruned" => J[i].body < r.body
Written(recs, J) ==
    /\ recs \in Seq(Records) /\ \A k \in DOMAIN recs : BodyFits(recs[k]) /\ Follows(recs[k], J)
    /\ \A k \in DOMAIN recs : recs[k].type = "pruned" => Len(recs) = 1

Matches(r, q) == r.type = q.type /\ r.run = q.run /\ r.body = q.body
Placed(recs, n) == [k \in 1..Len(recs) |-> [recs[k] EXCEPT !.seq = n + k]]
GoesOnAs(J, recs, K) ==
    /\ K \in Seq(Records) /\ Len(K) = Len(J) + Len(recs)
    /\ \A i \in DOMAIN K : BodyFits(K[i])
    /\ Replayable(K)
    /\ \A i \in DOMAIN J : K[i] = J[i]
    /\ \A k \in DOMAIN recs : Matches(K[Len(J) + k], recs[k])

LEMMA WrittenReplays ==
    ASSUME NEW J, J \in Seq(Records), \A i \in DOMAIN J : BodyFits(J[i]), Replayable(J),
           NEW recs, Written(recs, J)
    PROVE  GoesOnAs(J, recs, J \o Placed(recs, Len(J)))
<1> DEFINE N == Placed(recs, Len(J))
<1> DEFINE K == J \o N
<1>1. /\ Len(J) \in Nat /\ Len(recs) \in Nat /\ DOMAIN J = 1..Len(J) /\ DOMAIN recs = 1..Len(recs)
      /\ \A k \in 1..Len(recs) : recs[k] \in Records
  BY DEF Written
<1>2. \A k \in 1..Len(recs) : /\ N[k] \in Records /\ N[k].type = recs[k].type /\ N[k].body = recs[k].body
                              /\ N[k].run = recs[k].run /\ N[k].seq = Len(J) + k
  <2>1. \A r \in Records, n \in Nat :
          LET e == [r EXCEPT !.seq = n] IN e \in Records /\ e.type = r.type /\ e.body = r.body /\ e.run = r.run /\ e.seq = n
    BY DEF Records
  <2>2. \A k \in 1..Len(recs) : N[k] = [recs[k] EXCEPT !.seq = Len(J) + k] /\ Len(J) + k \in Nat
    BY <1>1 DEF Placed
  <2> HIDE DEF N
  <2>3. ASSUME NEW k \in 1..Len(recs)
        PROVE  /\ N[k] \in Records /\ N[k].type = recs[k].type /\ N[k].body = recs[k].body
               /\ N[k].run = recs[k].run /\ N[k].seq = Len(J) + k
    <3>1. recs[k] \in Records /\ Len(J) + k \in Nat /\ N[k] = [recs[k] EXCEPT !.seq = Len(J) + k]
      BY <1>1, <2>2
    <3> QED BY <2>1, <3>1
  <2> QED BY <2>3
<1>3. N \in Seq(Records) /\ Len(N) = Len(recs)
  BY <1>1, <1>2 DEF Placed
<1> HIDE DEF N
<1>4. /\ K \in Seq(Records) /\ Len(K) = Len(J) + Len(recs) /\ DOMAIN K = 1..(Len(J) + Len(recs))
      /\ \A i \in 1..Len(J) : K[i] = J[i]
      /\ \A k \in 1..Len(recs) : K[Len(J) + k] = N[k]
  <2>1. K = J \o N
    OBVIOUS
  <2> HIDE DEF K
  <2>2. /\ K \in Seq(Records) /\ Len(K) = Len(J) + Len(recs)
        /\ \A i \in 1 .. Len(J) + Len(recs) : K[i] = IF i <= Len(J) THEN J[i] ELSE N[i - Len(J)]
    <3>1. /\ J \o N \in Seq(Records) /\ Len(J \o N) = Len(J) + Len(N)
          /\ \A i \in 1 .. Len(J) + Len(N) : (J \o N)[i] = IF i <= Len(J) THEN J[i] ELSE N[i - Len(J)]
      BY <1>3, ConcatProperties
    <3> QED BY <2>1, <1>3, <3>1
  <2>3. DOMAIN K = 1..(Len(J) + Len(recs))
    BY <2>2, LenProperties
  <2>4. \A k \in 1..Len(recs) : Len(J) + k \in 1 .. Len(J) + Len(recs) /\ ~(Len(J) + k <= Len(J)) /\ (Len(J) + k) - Len(J) = k
    BY <1>1
  <2>5. \A i \in 1..Len(J) : i \in 1 .. Len(J) + Len(recs) /\ i <= Len(J)
    BY <1>1
  <2> QED BY <2>2, <2>3, <2>4, <2>5
<1> HIDE DEF K
<1>5. \A i \in 1..(Len(J) + Len(recs)) :
        i \in 1..Len(J) \/ \E k \in 1..Len(recs) : i = Len(J) + k
  <2> TAKE i \in 1..(Len(J) + Len(recs))
  <2>1. CASE i <= Len(J)
    BY <1>1, <2>1
  <2>2. CASE i > Len(J)
    <3>1. i - Len(J) \in 1..Len(recs) /\ i = Len(J) + (i - Len(J))
      BY <1>1, <2>2
    <3> QED BY <3>1
  <2> QED BY <1>1, <2>1, <2>2
<1>6. \A i \in DOMAIN K : BodyFits(K[i])
  <2>1. \A k \in 1..Len(recs) : BodyFits(N[k])
    BY <1>1, <1>2 DEF Written, BodyFits
  <2>2. \A i \in 1..Len(J) : BodyFits(K[i])
    BY <1>1, <1>4
  <2>3. \A k \in 1..Len(recs) : BodyFits(K[Len(J) + k])
    BY <1>4, <2>1
  <2> QED BY <1>4, <1>5, <2>2, <2>3
<1>7. Replayable(K)
  <2>1. J # <<>> /\ J[1].type = "started" /\ 1 \in 1..Len(J)
    BY <1>1 DEF Replayable
  <2>2. K # <<>> /\ K[1].type = "started"
    BY <1>1, <1>4, <2>1
  <2>3. ASSUME NEW i \in DOMAIN K
        PROVE  /\ K[i].type # "junk" /\ K[i].seq = i
               /\ K[i].type = "started" => i = 1
               /\ K[i].type = "compacted" => K[i].body > 0
    <3>1. CASE i \in 1..Len(J)
      BY <1>1, <1>4, <3>1 DEF Replayable
    <3>2. ASSUME NEW k \in 1..Len(recs), i = Len(J) + k
          PROVE  /\ K[i].type # "junk" /\ K[i].seq = i
                 /\ K[i].type = "started" => i = 1
                 /\ K[i].type = "compacted" => K[i].body > 0
      <4>1. BodyFits(recs[k]) /\ Follows(recs[k], J) /\ K[i] = N[k]
        BY <1>1, <1>4, <3>2 DEF Written
      <4> QED BY <1>2, <3>2, <4>1 DEF Follows
    <3> QED BY <1>4, <1>5, <3>1, <3>2
  <2>4. ASSUME NEW i \in DOMAIN K, K[i].type = "pruned"
        PROVE  /\ K[i].body \in 1..(i - 1)
               /\ \A k \in 1..(i - 1) : K[k].type = "pruned" => K[k].body < K[i].body
    <3>1. CASE i \in 1..Len(J)
      <4>1. /\ J[i].body \in 1..(i - 1)
            /\ \A k \in 1..(i - 1) : J[k].type = "pruned" => J[k].body < J[i].body
        BY <1>1, <1>4, <2>4, <3>1 DEF Replayable
      <4>2. \A k \in 1..(i - 1) : k \in 1..Len(J)
        BY <1>1, <3>1
      <4> QED BY <1>4, <3>1, <4>1, <4>2
    <3>2. ASSUME NEW k \in 1..Len(recs), i = Len(J) + k
          PROVE  /\ K[i].body \in 1..(i - 1)
                 /\ \A j \in 1..(i - 1) : K[j].type = "pruned" => K[j].body < K[i].body
      <4>1. K[i] = N[k] /\ recs[k].type = "pruned" /\ K[i].body = recs[k].body
        BY <1>2, <1>4, <2>4, <3>2
      <4>2. Len(recs) = 1 /\ k = 1 /\ i = Len(J) + 1
        <5>1. k \in DOMAIN recs /\ recs[k].type = "pruned"
          BY <1>1, <3>2, <4>1
        <5>2. Len(recs) = 1
          BY <5>1 DEF Written
        <5> QED BY <1>1, <3>2, <5>1, <5>2
      <4>3. /\ recs[k].body \in 1..Len(J)
            /\ \A j \in DOMAIN J : J[j].type = "pruned" => J[j].body < recs[k].body
        BY <1>1, <4>1 DEF Written, Follows
      <4>4. i - 1 = Len(J)
        BY <1>1, <4>2
      <4> QED BY <1>1, <1>4, <4>1, <4>3, <4>4
    <3> QED BY <1>4, <1>5, <3>1, <3>2
  <2> QED BY <2>2, <2>3, <2>4 DEF Replayable
<1>8. \A k \in DOMAIN recs : Matches(K[Len(J) + k], recs[k])
  BY <1>1, <1>2, <1>4 DEF Matches
<1>9. GoesOnAs(J, recs, K)
  BY <1>1, <1>4, <1>6, <1>7, <1>8 DEF GoesOnAs
<1> QED BY <1>9 DEF K, N

(***************************************************************************)
(* What a step does to the journal: it goes on, and nothing on disk is     *)
(* changed.                                                                *)
(***************************************************************************)
Goes ==
    /\ disk' \in Seq(Records) /\ \A i \in DOMAIN disk' : BodyFits(disk'[i])
    /\ Replayable(disk') /\ seq' \in Nat
    /\ \A i \in DOMAIN disk : i \in DOMAIN disk' /\ disk'[i] = disk[i]
WriterGoes == seq' = Len(disk') /\ (~werr' => tail' = "none")

LEMMA FileStays == JournalInv /\ UNCHANGED file => Goes /\ (up => WriterGoes)
  BY DEF JournalInv, JournalTypes, WriterKnows, Goes, WriterGoes, file

LEMMA AppendedGoes ==
    ASSUME JournalInv, up, NEW recs, Written(recs, disk), Appended(recs)
    PROVE  /\ Goes /\ WriterGoes
           /\ \A k \in DOMAIN recs : Len(disk) + k \in DOMAIN disk' /\ Matches(disk'[Len(disk) + k], recs[k])
<1>1. /\ disk \in Seq(Records) /\ (\A i \in DOMAIN disk : BodyFits(disk[i])) /\ Replayable(disk)
      /\ seq = Len(disk) /\ ~werr /\ tail = "none" /\ recs \in Seq(Records)
  BY DEF JournalInv, JournalTypes, WriterKnows, Appended, Written
<1>2. disk' = disk \o Placed(recs, Len(disk))
  BY <1>1 DEF Appended, Put, Numbered, Placed
<1>3. /\ disk' \in Seq(Records) /\ Len(disk') = Len(disk) + Len(recs)
      /\ \A i \in DOMAIN disk' : BodyFits(disk'[i])
      /\ Replayable(disk')
      /\ \A i \in DOMAIN disk : disk'[i] = disk[i]
      /\ \A k \in DOMAIN recs : Matches(disk'[Len(disk) + k], recs[k])
  <2>1. GoesOnAs(disk, recs, disk \o Placed(recs, Len(disk)))
    BY <1>1, WrittenReplays
  <2> QED BY <1>2, <2>1 DEF GoesOnAs
<1>4. /\ DOMAIN disk' = 1..(Len(disk) + Len(recs)) /\ DOMAIN disk = 1..Len(disk) /\ DOMAIN recs = 1..Len(recs)
      /\ Len(disk) \in Nat /\ Len(recs) \in Nat
  BY <1>1, <1>3, LenProperties
<1>5. seq' = Len(disk) + Len(recs) /\ tail' = "none" /\ werr' = werr
  BY <1>1 DEF Appended
<1> QED BY <1>3, <1>4, <1>5 DEF Goes, WriterGoes

LEMMA PrefixIsWritten ==
    ASSUME NEW J, NEW recs, Written(recs, J), NEW k \in 0..(Len(recs) - 1)
    PROVE  Written(SubSeq(recs, 1, k), J) /\ Len(SubSeq(recs, 1, k)) = k
           /\ \A i \in 1..k : SubSeq(recs, 1, k)[i] = recs[i]
<1>1. recs \in Seq(Records) /\ Len(recs) \in Nat /\ DOMAIN recs = 1..Len(recs)
  BY LenProperties DEF Written
<1>2. /\ SubSeq(recs, 1, k) \in Seq(Records) /\ Len(SubSeq(recs, 1, k)) = k
      /\ \A i \in 1..k : SubSeq(recs, 1, k)[i] = recs[i] /\ i \in DOMAIN recs
  BY <1>1
<1>3. DOMAIN SubSeq(recs, 1, k) = 1..k
  BY <1>2, LenProperties
<1>4. \A i \in 1..k : recs[i].type # "pruned"
  BY <1>1 DEF Written
<1> QED BY <1>2, <1>3, <1>4 DEF Written

LEMMA AppendFailedGoes ==
    ASSUME JournalInv, up, NEW recs, Written(recs, disk), AppendFailed(recs)
    PROVE  Goes /\ WriterGoes
<1>1. CASE werr /\ UNCHANGED file
  BY <1>1, FileStays
<1>2. ASSUME NEW k \in 0..(Len(recs) - 1), ~werr, disk' = Put(SubSeq(recs, 1, k)), seq' = seq + k, werr' = TRUE
      PROVE Goes /\ WriterGoes
  <2> DEFINE some == SubSeq(recs, 1, k)
  <2>1. /\ disk \in Seq(Records) /\ (\A i \in DOMAIN disk : BodyFits(disk[i])) /\ Replayable(disk)
        /\ seq = Len(disk) /\ tail = "none" /\ seq \in Nat
    BY <1>2 DEF JournalInv, JournalTypes, WriterKnows
  <2>2. Written(some, disk) /\ Len(some) = k
    BY PrefixIsWritten
  <2>3. disk' = disk \o Placed(some, Len(disk))
    BY <1>2, <2>1 DEF Put, Numbered, Placed
  <2> HIDE DEF some
  <2>4. /\ disk' \in Seq(Records) /\ Len(disk') = Len(disk) + k
        /\ \A i \in DOMAIN disk' : BodyFits(disk'[i])
        /\ Replayable(disk')
        /\ \A i \in DOMAIN disk : disk'[i] = disk[i]
    <3>1. GoesOnAs(disk, some, disk \o Placed(some, Len(disk)))
      BY <2>1, <2>2, WrittenReplays
    <3> QED BY <2>2, <2>3, <3>1 DEF GoesOnAs
  <2>5. DOMAIN disk' = 1..(Len(disk) + k) /\ DOMAIN disk = 1..Len(disk)
    BY <2>1, <2>4, LenProperties
  <2> QED BY <1>2, <2>1, <2>4, <2>5 DEF Goes, WriterGoes
<1> QED BY <1>1, <1>2 DEF AppendFailed

LEMMA RecordGoes ==
    ASSUME JournalInv, up, NEW recs, Written(recs, disk), NEW good, Record(recs, good)
    PROVE  /\ Goes /\ WriterGoes
           /\ \/ /\ turn' = good
                 /\ \A k \in DOMAIN recs : Len(disk) + k \in DOMAIN disk' /\ Matches(disk'[Len(disk) + k], recs[k])
              \/ turn' = [turn EXCEPT !.pc = "fail"]
  BY AppendedGoes, AppendFailedGoes DEF Record

(***************************************************************************)
(* The records the engine writes.                                          *)
(***************************************************************************)
LEMMA OneWritten ==
    ASSUME NEW J, NEW type, NEW run \in Nat, NEW body,
           \/ type = "user" /\ body \in Inputs
           \/ type = "assistant" /\ body \in Seq(Kinds)
           \/ type = "finished" /\ body = 0
           \/ type = "compacted" /\ body \in Nat \ {0}
           \/ /\ type = "pruned" /\ body \in 1..Len(J)
              /\ \A i \in DOMAIN J : J[i].type = "pruned" => J[i].body < body
    PROVE  Written(<<Rec(type, run, body)>>, J)
<1>1. Rec(type, run, body) \in Records
  BY DEF Rec, Records
<1>2. BodyFits(Rec(type, run, body)) /\ Follows(Rec(type, run, body), J)
  BY DEF Rec, BodyFits, Follows
<1> QED BY <1>1, <1>2 DEF Written

LEMMA ResultsWritten ==
    ASSUME NEW J, JournalTypes, NEW from \in Nat, NEW to \in Nat
    PROVE  Written(Results(from, to), J)
<1>1. turn.run \in Nat /\ turn.at \in Nat
  BY DEF JournalTypes, TurnRecords
<1>2. \A k \in 1..(to - from) : /\ Rec("result", turn.run, <<turn.at, from + k>>) \in Records
                                /\ Rec("result", turn.run, <<turn.at, from + k>>).type = "result"
  BY <1>1 DEF Rec, Records, CallPlaces
<1>3. Results(from, to) \in Seq(Records) /\ \A k \in DOMAIN Results(from, to) : Results(from, to)[k].type = "result"
  BY <1>2 DEF Results
<1> QED BY <1>3 DEF Written, BodyFits, Follows

LEMMA PruneAdvances ==
    ASSUME JournalInv, PruneBoundary(disk) # 0
    PROVE  /\ PruneBoundary(disk) \in 1..Len(disk)
           /\ \A i \in DOMAIN disk : disk[i].type = "pruned" => disk[i].body < PruneBoundary(disk)
<1> DEFINE before == {i \in Messages(disk) : i < VerbatimStart(disk)}
<1> DEFINE prunings == {i \in DOMAIN disk : disk[i].type = "pruned"}
<1>1. DOMAIN disk = 1..Len(disk) /\ Len(disk) \in Nat /\ Replayable(disk)
  BY DEF JournalInv, JournalTypes
<1>2. PruneBoundary(disk) = Last(before) /\ Last(before) > PrunedThrough(disk) /\ Last(before) # 0
  BY DEF PruneBoundary
<1>3. before \subseteq 1..Len(disk) /\ before # {}
  BY <1>1, <1>2 DEF Messages, Last
<1>4. Last(before) \in 1..Len(disk)
  <2> HIDE DEF before
  <2> QED BY <1>1, <1>3, LastIsGreatest
<1>5. ASSUME NEW i \in prunings PROVE disk[i].body <= PrunedThrough(disk) /\ PrunedThrough(disk) \in Nat /\ disk[i].body \in Nat
  <2>1. prunings \subseteq 1..Len(disk) /\ prunings # {}
    BY <1>1, <1>5
  <2>2. Last(prunings) \in prunings /\ i <= Last(prunings)
    <3> HIDE DEF prunings
    <3> QED BY <1>1, <1>5, <2>1, LastIsGreatest
  <2>3. PrunedThrough(disk) = disk[Last(prunings)].body
    BY <1>1, <2>2 DEF PrunedThrough
  <2>4. disk[Last(prunings)].body \in Nat /\ disk[i].body \in Nat
    BY <2>2 DEF JournalInv, JournalTypes, BodyFits
  <2>5. i = Last(prunings) \/ disk[i].body < disk[Last(prunings)].body
    BY <1>1, <2>2 DEF Replayable
  <2> QED BY <2>3, <2>4, <2>5
<1>6. ASSUME NEW i \in prunings PROVE disk[i].body < Last(before)
  <2>1. Last(before) \in Nat
    BY <1>1, <1>4
  <2> HIDE DEF before, prunings
  <2> QED BY <1>2, <1>5, <2>1
<1> QED BY <1>2, <1>4, <1>6


LEMMA FiniteImage ==
    ASSUME NEW S, IsFiniteSet(S), NEW f, f = [x \in S |-> f[x]]
    PROVE  IsFiniteSet({f[x] : x \in S})
<1> DEFINE T == {f[x] : x \in S}
<1>1. f \in Surjection(S, T)
  <2>1. \A x \in S : f[x] \in T
    OBVIOUS
  <2>2. f \in [S -> T]
    <3> HIDE DEF T
    <3> QED BY <2>1
  <2>3. \A t \in T : \E x \in S : f[x] = t
    OBVIOUS
  <2> HIDE DEF T
  <2> QED BY <2>2, <2>3 DEF Surjection
<1> HIDE DEF T
<1>2. IsFiniteSet(T)
  BY <1>1, FS_Surjection
<1> QED BY <1>2 DEF T

LEMMA PendingAreFinite ==
    ASSUME JournalTypes
    PROVE  /\ IsFiniteSet(PendingTools(disk)) /\ PendingTools(disk) \subseteq CallPlaces
           /\ \A c \in PendingTools(disk) : c[1] \in DOMAIN disk
<1> DEFINE responses == {k \in DOMAIN disk : disk[k].type = "assistant"}
           places == [i \in responses |-> {<<i, p>> : p \in DOMAIN disk[i].body}]
<1>1. DOMAIN disk = 1..Len(disk) /\ Len(disk) \in Nat
  BY DEF JournalTypes
<1>2. IsFiniteSet(responses)
  <2>1. responses \subseteq 1..Len(disk)
    BY <1>1
  <2>2. IsFiniteSet(1..Len(disk))
    BY <1>1, FS_Interval
  <2> HIDE DEF responses
  <2> QED BY <2>1, <2>2, FS_Subset
<1>3. ASSUME NEW i \in responses
      PROVE  /\ i \in Nat /\ disk[i].body \in Seq(Kinds) /\ DOMAIN disk[i].body = 1..Len(disk[i].body)
             /\ Len(disk[i].body) \in Nat
  BY <1>1 DEF JournalTypes, BodyFits
<1>4. ASSUME NEW i \in responses PROVE IsFiniteSet(places[i])
  <2> DEFINE named == [p \in DOMAIN disk[i].body |-> <<i, p>>]
  <2>1. IsFiniteSet(DOMAIN disk[i].body)
    BY <1>3, FS_Interval
  <2>2. named = [p \in DOMAIN disk[i].body |-> named[p]]
    OBVIOUS
  <2>3. places[i] = {named[p] : p \in DOMAIN disk[i].body}
    OBVIOUS
  <2> HIDE DEF named, places
  <2> QED BY <2>1, <2>2, <2>3, FiniteImage
<1>5. Calls(disk) = UNION {places[i] : i \in responses}
  <2>1. \A i \in responses : places[i] = {<<i, p>> : p \in DOMAIN disk[i].body}
    OBVIOUS
  <2>2. Calls(disk) = UNION {{<<i, p>> : p \in DOMAIN disk[i].body} : i \in responses}
    BY DEF Calls
  <2> HIDE DEF places, responses
  <2> QED BY <2>1, <2>2
<1>6. IsFiniteSet({places[i] : i \in responses})
  <2>1. places = [i \in responses |-> places[i]]
    OBVIOUS
  <2> HIDE DEF places, responses
  <2> QED BY <1>2, <2>1, FiniteImage
<1>7. IsFiniteSet(Calls(disk))
  <2>1. \A T \in {places[i] : i \in responses} : IsFiniteSet(T)
    <3> HIDE DEF places, responses
    <3> QED BY <1>4
  <2> HIDE DEF places, responses
  <2> QED BY <1>5, <1>6, <2>1, FS_UNION
<1>8. Calls(disk) \subseteq CallPlaces /\ \A c \in Calls(disk) : c[1] \in DOMAIN disk
  <2> SUFFICES ASSUME NEW c \in Calls(disk) PROVE c \in CallPlaces /\ c[1] \in DOMAIN disk
    OBVIOUS
  <2>1. PICK i \in responses : c \in places[i]
    BY <1>5
  <2>2. PICK p \in DOMAIN disk[i].body : c = <<i, p>>
    BY <2>1
  <2>3. p \in Nat
    BY <1>3
  <2> QED BY <1>1, <1>3, <2>2, <2>3 DEF CallPlaces
<1>9. PendingTools(disk) \subseteq Calls(disk)
  BY DEF PendingTools
<1> QED BY <1>7, <1>8, <1>9, FS_Subset

LEMMA ActiveAreFinite ==
    ASSUME JournalTypes
    PROVE  IsFiniteSet(ActiveRuns(disk)) /\ ActiveRuns(disk) \subseteq Nat
<1> DEFINE open == {k \in Users(disk) :
                      \A f \in DOMAIN disk : f > k => ~(disk[f].type = "finished" /\ disk[f].run = disk[k].run)}
           runOf == [i \in open |-> disk[i].run]
<1>1. DOMAIN disk = 1..Len(disk) /\ Len(disk) \in Nat
  BY DEF JournalTypes
<1>2. open \subseteq 1..Len(disk)
  BY <1>1 DEF Users
<1>3. IsFiniteSet(open)
  <2>1. IsFiniteSet(1..Len(disk))
    BY <1>1, FS_Interval
  <2> HIDE DEF open
  <2> QED BY <1>2, <2>1, FS_Subset
<1>4. ActiveRuns(disk) = {runOf[i] : i \in open}
  BY DEF ActiveRuns
<1>5. \A i \in open : runOf[i] \in Nat
  <2>1. \A i \in 1..Len(disk) : disk[i] \in Records
    BY <1>1 DEF JournalTypes
  <2>2. \A r \in Records : r.run \in Nat
    BY DEF Records
  <2> QED BY <1>2, <2>1, <2>2
<1>6. runOf = [i \in open |-> runOf[i]]
  OBVIOUS
<1> HIDE DEF open, runOf
<1> QED BY <1>3, <1>4, <1>5, <1>6, FiniteImage

LEMMA ReconciliationWritten ==
    ASSUME JournalTypes, NEW recs \in Reconciliation(disk)
    PROVE  /\ Written(recs, disk)
           /\ \A k \in DOMAIN recs : /\ recs[k].type \in {"result", "finished"}
                                     /\ \E i \in DOMAIN disk : recs[k].run = disk[i].run
<1> DEFINE pending == PendingTools(disk)
           active == ActiveRuns(disk)
           m == Cardinality(pending)
           n == Cardinality(active)
<1>1. m \in Nat /\ n \in Nat
  BY PendingAreFinite, ActiveAreFinite, FS_CardinalityType
<1>2. PICK o \in [1..m -> pending], q \in [1..n -> active] :
        recs = [k \in DOMAIN o |-> Rec("result", disk[o[k][1]].run, o[k])] \o
               [k \in DOMAIN q |-> Rec("finished", q[k], 0)]
  <2> DEFINE results == {[k \in DOMAIN w |-> Rec("result", disk[w[k][1]].run, w[k])] :
                          w \in {q \in [1..m -> pending] :
                                 \A a, b \in DOMAIN q : a < b => q[a][1] <= q[b][1] /\ q[a] # q[b]}}
             ends == {[k \in DOMAIN w |-> Rec("finished", w[k], 0)] :
                       w \in {q \in [1..n -> active] : \A a, b \in DOMAIN q : a < b => q[a] < q[b]}}
  <2>1. Reconciliation(disk) = {x \o y : x \in results, y \in ends}
    BY DEF Reconciliation
  <2>2. \A x \in results : \E o \in [1..m -> pending] :
          x = [k \in DOMAIN o |-> Rec("result", disk[o[k][1]].run, o[k])]
    OBVIOUS
  <2>3. \A y \in ends : \E q \in [1..n -> active] : y = [k \in DOMAIN q |-> Rec("finished", q[k], 0)]
    OBVIOUS
  <2> HIDE DEF results, ends
  <2>4. PICK x \in results, y \in ends : recs = x \o y
    BY <2>1
  <2> QED BY <2>2, <2>3, <2>4
<1> DEFINE r == [k \in 1..m |-> Rec("result", disk[o[k][1]].run, o[k])]
           f == [k \in 1..n |-> Rec("finished", q[k], 0)]
<1>3. recs = r \o f
  BY <1>2
<1>4. \A k \in 1..m : r[k] \in Records /\ r[k].type = "result" /\ \E i \in DOMAIN disk : r[k].run = disk[i].run
  <2>1. \A k \in 1..m : o[k] \in CallPlaces /\ o[k][1] \in DOMAIN disk
    BY PendingAreFinite
  <2>2. \A i \in DOMAIN disk : disk[i].run \in Nat
    <3>1. \A i \in DOMAIN disk : disk[i] \in Records
      BY DEF JournalTypes
    <3> QED BY <3>1 DEF Records
  <2> QED BY <2>1, <2>2 DEF Rec, Records
<1>5. \A k \in 1..n : f[k] \in Records /\ f[k].type = "finished" /\ \E i \in DOMAIN disk : f[k].run = disk[i].run
  <2>1. \A x \in active : x \in Nat /\ \E i \in DOMAIN disk : x = disk[i].run
    BY ActiveAreFinite DEF ActiveRuns, Users
  <2>2. \A k \in 1..n : q[k] \in active /\ f[k] = Rec("finished", q[k], 0)
    OBVIOUS
  <2>3. \A x \in Nat : Rec("finished", x, 0) \in Records /\ Rec("finished", x, 0).type = "finished"
                      /\ Rec("finished", x, 0).run = x
    BY DEF Rec, Records
  <2> HIDE DEF active, n, f
  <2> QED BY <2>1, <2>2, <2>3
<1>6. r \in Seq(Records) /\ Len(r) = m /\ f \in Seq(Records) /\ Len(f) = n
  <2> HIDE DEF pending, active, m, n
  <2> QED BY <1>1, <1>4, <1>5
<1> HIDE DEF r, f, m, n
<1>7. /\ recs \in Seq(Records) /\ Len(recs) = m + n
      /\ \A k \in 1..(m + n) : recs[k] = IF k <= m THEN r[k] ELSE f[k - m]
  BY <1>3, <1>6, ConcatProperties
<1>8. \A k \in DOMAIN recs : recs[k].type \in {"result", "finished"} /\ \E i \in DOMAIN disk : recs[k].run = disk[i].run
  <2> SUFFICES ASSUME NEW k \in 1..(m + n)
               PROVE  recs[k].type \in {"result", "finished"} /\ \E i \in DOMAIN disk : recs[k].run = disk[i].run
    BY <1>7, LenProperties
  <2>1. CASE k <= m
    <3>1. k \in 1..m /\ recs[k] = r[k]
      BY <1>1, <1>7, <2>1
    <3> QED BY <1>4, <3>1
  <2>2. CASE k > m
    <3>1. k - m \in 1..n /\ ~(k <= m)
      BY <1>1, <2>2
    <3> QED BY <1>5, <1>7, <3>1
  <2> QED BY <1>1, <2>1, <2>2
<1> QED BY <1>7, <1>8 DEF Written, BodyFits, Follows

(***************************************************************************)
(* The steps.  A turn that goes to its calls names their response, or goes *)
(* on with the one it had.                                                 *)
(***************************************************************************)
AtCalls(t) == t.pc \in {"tools", "limit"}
TurnGoes ==
    /\ turn' \in TurnRecords
    /\ AtCalls(turn') => /\ up'
                         /\ \/ AtCalls(turn) /\ turn'.at = turn.at
                            \/ turn'.at \in DOMAIN disk' /\ disk'[turn'.at].type = "assistant"
OthersGo == runs' \in Nat /\ editor' \subseteq Inputs /\ queue' \in Seq(Inputs)
StepGoes == Goes /\ (up' => WriterGoes) /\ TurnGoes /\ OthersGo

LEMMA StepKeeps == JournalInv /\ StepGoes => JournalInv'
<1> SUFFICES ASSUME JournalInv, StepGoes PROVE JournalInv'
  OBVIOUS
<1>1. JournalTypes' /\ Replayable(disk)'
  BY DEF StepGoes, Goes, TurnGoes, OthersGo, JournalTypes
<1>2. WriterKnows'
  BY DEF StepGoes, WriterGoes, WriterKnows
<1>3. CallsAreThere'
  <2> SUFFICES ASSUME AtCalls(turn')
               PROVE up' /\ turn'.at \in DOMAIN disk' /\ disk'[turn'.at].type = "assistant"
    BY DEF CallsAreThere, AtCalls
  <2>1. CASE AtCalls(turn) /\ turn'.at = turn.at
    BY <2>1 DEF JournalInv, CallsAreThere, AtCalls, StepGoes, TurnGoes, Goes
  <2> QED BY <2>1 DEF StepGoes, TurnGoes
<1> QED BY <1>1, <1>2, <1>3 DEF JournalInv

(* What a turn becomes. *)
Phases == {"idle", "boundary", "context", "request", "tools", "limit", "complete", "fail", "ran"}
LEMMA TurnMoves ==
    /\ Idle \in TurnRecords /\ Idle.pc = "idle"
    /\ \A t \in TurnRecords, p \in Phases :
          /\ [t EXCEPT !.pc = p] \in TurnRecords
          /\ [t EXCEPT !.pc = p].pc = p /\ [t EXCEPT !.pc = p].at = t.at
    /\ \A t \in TurnRecords, p \in Phases, b \in BOOLEAN :
          [t EXCEPT !.pc = p, !.notice = b] \in TurnRecords
  BY DEF Idle, TurnRecords, Phases

LEMMA RecordTurns ==
    ASSUME JournalInv, up, UNCHANGED up, NEW recs, Written(recs, disk), NEW good, Record(recs, good),
           good \in TurnRecords,
           good.pc \in {"tools", "limit"} =>
              \/ AtCalls(turn) /\ good.at = turn.at
              \/ good.at = Len(disk) + 1 /\ 1 \in DOMAIN recs /\ recs[1].type = "assistant"
    PROVE  Goes /\ (up' => WriterGoes) /\ TurnGoes
<1>1. turn \in TurnRecords
  BY DEF JournalInv, JournalTypes
<1>2. Goes /\ WriterGoes
  BY RecordGoes
<1>3. ASSUME turn' = good,
             \A k \in DOMAIN recs : Len(disk) + k \in DOMAIN disk' /\ Matches(disk'[Len(disk) + k], recs[k])
      PROVE  TurnGoes
  <2>1. turn' \in TurnRecords /\ up'
    BY <1>3
  <2>2. ASSUME AtCalls(turn')
        PROVE  \/ AtCalls(turn) /\ turn'.at = turn.at
               \/ turn'.at \in DOMAIN disk' /\ disk'[turn'.at].type = "assistant"
    <3>1. good.pc \in {"tools", "limit"}
      BY <1>3, <2>2 DEF AtCalls
    <3>2. CASE AtCalls(turn) /\ good.at = turn.at
      BY <1>3, <3>2
    <3>3. CASE good.at = Len(disk) + 1 /\ 1 \in DOMAIN recs /\ recs[1].type = "assistant"
      BY <1>3, <3>3 DEF Matches
    <3> QED BY <3>1, <3>2, <3>3
  <2> QED BY <2>1, <2>2 DEF TurnGoes
<1>4. ASSUME turn' = [turn EXCEPT !.pc = "fail"] PROVE TurnGoes
  <2>1. turn' \in TurnRecords /\ turn'.pc = "fail"
    BY <1>1, <1>4, TurnMoves DEF Phases
  <2> QED BY <2>1 DEF TurnGoes, AtCalls
<1>5. TurnGoes
  BY <1>3, <1>4, RecordGoes
<1> QED BY <1>2, <1>5

LEMMA TurnStays ==
    ASSUME JournalInv, turn' = turn, up' \/ ~AtCalls(turn)
    PROVE  TurnGoes
  BY DEF JournalInv, JournalTypes, TurnGoes

LEMMA TurnLeaves ==
    ASSUME JournalInv, NEW p \in Phases \ {"tools", "limit"}, turn' = [turn EXCEPT !.pc = p]
    PROVE  TurnGoes
<1>1. turn' \in TurnRecords /\ turn'.pc = p
  BY TurnMoves DEF JournalInv, JournalTypes
<1> QED BY <1>1 DEF TurnGoes, AtCalls

LEMMA TurnRests == turn' = Idle => TurnGoes
  BY TurnMoves DEF TurnGoes, AtCalls

LEMMA WriteGoes ==
    ASSUME JournalInv, up, NEW recs, Written(recs, disk), Appended(recs) \/ AppendFailed(recs)
    PROVE  Goes /\ WriterGoes
  BY AppendedGoes, AppendFailedGoes

LEMMA BeginGoes ==
    ASSUME JournalInv, NEW i \in Inputs, Begin(i)
    PROVE  Goes /\ (up' => WriterGoes) /\ TurnGoes /\ runs' \in Nat
<1> DEFINE rec == <<Rec("user", runs + 1, i)>>
<1>1. up /\ up' /\ turn.pc = "idle" /\ runs \in Nat /\ runs + 1 \in Nat /\ runs' = runs + 1
  BY DEF Begin, At, JournalInv, JournalTypes
<1>2. Written(rec, disk)
  BY <1>1, OneWritten
<1>3. \/ Appended(rec) /\ turn' = [Idle EXCEPT !.pc = "boundary", !.run = runs + 1]
      \/ AppendFailed(rec) /\ UNCHANGED turn
  BY DEF Begin
<1> HIDE DEF rec
<1>4. Goes /\ WriterGoes
  BY <1>1, <1>2, <1>3, WriteGoes
<1>5. TurnGoes
  <2>1. ASSUME turn' = [Idle EXCEPT !.pc = "boundary", !.run = runs + 1] PROVE TurnGoes
    BY <1>1, <2>1 DEF TurnGoes, AtCalls, Idle, TurnRecords
  <2>2. ASSUME UNCHANGED turn PROVE TurnGoes
    BY <1>1, <2>2, TurnStays
  <2> QED BY <1>3, <2>1, <2>2
<1> QED BY <1>1, <1>4, <1>5

LEMMA SubmitGoes == JournalInv /\ Submit => StepGoes
<1> SUFFICES ASSUME JournalInv, Submit PROVE StepGoes
  OBVIOUS
<1>1. PICK i \in editor : Begin(i) /\ editor' = editor \ {i} /\ UNCHANGED queue
  BY DEF Submit
<1>2. i \in Inputs /\ editor \subseteq Inputs /\ queue \in Seq(Inputs)
  BY DEF JournalInv, JournalTypes
<1>3. Goes /\ (up' => WriterGoes) /\ TurnGoes /\ runs' \in Nat
  BY <1>1, <1>2, BeginGoes
<1> QED BY <1>1, <1>2, <1>3 DEF StepGoes, OthersGo

LEMMA ClaimQueuedGoes == JournalInv /\ ClaimQueued => StepGoes
<1> SUFFICES ASSUME JournalInv, ClaimQueued PROVE StepGoes
  OBVIOUS
<1>1. queue # <<>> /\ Begin(Head(queue)) /\ queue' = Tail(queue) /\ UNCHANGED editor
  BY DEF ClaimQueued
<1>2. editor \subseteq Inputs /\ queue \in Seq(Inputs)
  BY DEF JournalInv, JournalTypes
<1>3. Head(queue) \in Inputs /\ Tail(queue) \in Seq(Inputs)
  BY <1>1, <1>2
<1>4. Goes /\ (up' => WriterGoes) /\ TurnGoes /\ runs' \in Nat
  BY <1>1, <1>3, BeginGoes
<1> QED BY <1>1, <1>2, <1>3, <1>4 DEF StepGoes, OthersGo

(* The steps that leave the journal, its writer and the turn alone. *)
LEMMA QuietGoes ==
    ASSUME JournalInv, UNCHANGED <<file, up>>, TurnGoes, OthersGo
    PROVE  StepGoes
<1>1. UNCHANGED file /\ up' = up
  OBVIOUS
<1>2. Goes /\ (up => WriterGoes)
  BY <1>1, FileStays
<1> QED BY <1>1, <1>2 DEF StepGoes

LEMMA QueueGoes ==
    ASSUME JournalInv, QueueInput \/ PopQueued \/ RestoreQueued \/ Cancel \/ JobExits \/ UNCHANGED vars
    PROVE  StepGoes
<1>1. editor \subseteq Inputs /\ queue \in Seq(Inputs) /\ runs \in Nat
  BY DEF JournalInv, JournalTypes
<1>2. CASE QueueInput
  <2>1. PICK i \in editor : queue' = Append(queue, i) /\ editor' = editor \ {i}
    BY <1>2 DEF QueueInput
  <2>2. UNCHANGED <<file, up>> /\ turn' = turn /\ runs' = runs /\ up'
    BY <1>2 DEF QueueInput
  <2>3. OthersGo
    BY <1>1, <2>1, <2>2 DEF OthersGo
  <2> QED BY <2>2, <2>3, TurnStays, QuietGoes
<1>3. CASE PopQueued
  <2>1. /\ queue # <<>> /\ editor' = editor \cup {queue[Len(queue)]} /\ queue' = SubSeq(queue, 1, Len(queue) - 1)
        /\ UNCHANGED <<file, up>> /\ turn' = turn /\ runs' = runs /\ up'
    BY <1>3 DEF PopQueued
  <2>2. queue[Len(queue)] \in Inputs /\ SubSeq(queue, 1, Len(queue) - 1) \in Seq(Inputs)
    BY <1>1, <2>1
  <2>3. OthersGo
    BY <1>1, <2>1, <2>2 DEF OthersGo
  <2> QED BY <2>1, <2>3, TurnStays, QuietGoes
<1>4. CASE RestoreQueued
  <2>1. /\ editor' = editor \cup {queue[k] : k \in DOMAIN queue} /\ queue' = <<>>
        /\ UNCHANGED <<file, up>> /\ turn' = turn /\ runs' = runs /\ up'
    BY <1>4 DEF RestoreQueued
  <2>2. OthersGo
    BY <1>1, <2>1 DEF OthersGo
  <2> QED BY <2>1, <2>2, TurnStays, QuietGoes
<1>5. CASE Cancel
  <2>1. /\ turn' = [turn EXCEPT !.cancelled = TRUE] /\ UNCHANGED <<file, up>> /\ up'
        /\ editor' = editor /\ queue' = queue /\ runs' = runs
    BY <1>5 DEF Cancel
  <2>2. turn' \in TurnRecords /\ turn'.pc = turn.pc /\ turn'.at = turn.at
    BY <2>1 DEF JournalInv, JournalTypes, TurnRecords
  <2>3. TurnGoes
    BY <2>1, <2>2 DEF TurnGoes, AtCalls
  <2>4. OthersGo
    BY <1>1, <2>1 DEF OthersGo
  <2> QED BY <2>1, <2>3, <2>4, QuietGoes
<1>6. CASE JobExits
  <2>1. UNCHANGED <<file, up>> /\ up' /\ turn' = turn /\ editor' = editor /\ queue' = queue /\ runs' = runs
    BY <1>6 DEF JobExits
  <2>2. OthersGo
    BY <1>1, <2>1 DEF OthersGo
  <2> QED BY <2>1, <2>2, TurnStays, QuietGoes
<1>7. CASE UNCHANGED vars
  <2>1. UNCHANGED <<file, up>> /\ turn' = turn /\ editor' = editor /\ queue' = queue /\ runs' = runs
    BY <1>7 DEF vars, file
  <2>2. OthersGo
    BY <1>1, <2>1 DEF OthersGo
  <2>3. up' \/ ~AtCalls(turn)
    BY <2>1 DEF JournalInv, CallsAreThere, AtCalls
  <2> QED BY <2>1, <2>2, <2>3, TurnStays, QuietGoes
<1> QED BY <1>2, <1>3, <1>4, <1>5, <1>6, <1>7

LEMMA OthersStay ==
    ASSUME JournalInv, UNCHANGED <<editor, queue, runs>>
    PROVE  OthersGo
  BY DEF JournalInv, JournalTypes, OthersGo

LEMMA RecordAdds ==
    ASSUME NEW recs, NEW good, Record(recs, good), seq \in Nat, Len(recs) \in Nat
    PROVE  seq' - seq \in 0..Len(recs)
<1>1. CASE Appended(recs)
  BY <1>1 DEF Appended
<1>2. CASE AppendFailed(recs)
  BY <1>2 DEF AppendFailed, file
<1> QED BY <1>1, <1>2 DEF Record

LEMMA QueueWritten ==
    ASSUME JournalInv
    PROVE  /\ Written([k \in DOMAIN queue |-> Rec("user", turn.run, queue[k])], disk)
           /\ Len([k \in DOMAIN queue |-> Rec("user", turn.run, queue[k])]) = Len(queue)
<1> DEFINE recs == [k \in DOMAIN queue |-> Rec("user", turn.run, queue[k])]
<1>1. queue \in Seq(Inputs) /\ DOMAIN queue = 1..Len(queue) /\ Len(queue) \in Nat /\ turn.run \in Nat
  BY DEF JournalInv, JournalTypes, TurnRecords
<1>2. \A k \in 1..Len(queue) : Rec("user", turn.run, queue[k]) \in Records
  BY <1>1 DEF Rec, Records
<1>3. recs \in Seq(Records) /\ Len(recs) = Len(queue) /\ \A k \in DOMAIN recs : recs[k].type = "user"
  BY <1>1, <1>2 DEF Rec
<1>4. Written(recs, disk)
  <2> HIDE DEF recs
  <2> QED BY <1>3 DEF Written, BodyFits, Follows
<1> QED BY <1>3, <1>4

LEMMA BoundaryGoes == JournalInv /\ Boundary => StepGoes
<1> SUFFICES ASSUME JournalInv, Boundary PROVE StepGoes
  OBVIOUS
<1> DEFINE recs == [k \in DOMAIN queue |-> Rec("user", turn.run, queue[k])]
           good == [turn EXCEPT !.pc = "context", !.notice = (job = "done")]
<1>1. /\ up /\ Record(recs, good) /\ queue' = SubSeq(queue, seq' - seq + 1, Len(queue))
      /\ UNCHANGED up /\ editor' = editor /\ runs' = runs
  BY DEF Boundary, At
<1>2. editor \subseteq Inputs /\ queue \in Seq(Inputs) /\ runs \in Nat /\ seq \in Nat /\ turn \in TurnRecords
  BY DEF JournalInv, JournalTypes
<1>3. DOMAIN queue = 1..Len(queue) /\ Len(queue) \in Nat
  BY <1>2
<1>4. Written(recs, disk) /\ Len(recs) = Len(queue)
  BY QueueWritten
<1>5. good \in TurnRecords /\ good.pc = "context"
  <2>1. (job = "done") \in BOOLEAN
    OBVIOUS
  <2> QED BY <1>2, <2>1 DEF TurnRecords
<1> HIDE DEF recs, good
<1>6. Goes /\ (up' => WriterGoes) /\ TurnGoes
  BY <1>1, <1>4, <1>5, RecordTurns
<1>7. seq' - seq \in 0..Len(queue)
  BY <1>1, <1>2, <1>3, <1>4, RecordAdds
<1>8. queue' \in Seq(Inputs)
  <2>1. seq' - seq + 1 \in 1..(Len(queue) + 1) /\ Len(queue) \in (seq' - seq + 1 - 1)..Len(queue)
    BY <1>3, <1>7
  <2>2. SubSeq(queue, seq' - seq + 1, Len(queue)) \in Seq(Inputs)
    BY <1>2, <2>1, SubSeqProperties
  <2> QED BY <1>1, <2>2
<1> QED BY <1>1, <1>2, <1>6, <1>8 DEF StepGoes, OthersGo

LEMMA CompactIntoGoes ==
    ASSUME JournalInv, up, UNCHANGED up, NEW pc, NEW notice \in BOOLEAN, CompactInto(pc, notice)
    PROVE  Goes /\ (up' => WriterGoes) /\ TurnGoes
<1>1. CASE Goto("fail") /\ UNCHANGED file
  <2>1. TurnGoes
    BY <1>1, TurnLeaves DEF Goto, Phases
  <2> QED BY <1>1, <2>1, FileStays
<1>2. ASSUME NEW b \in CompactionBoundaries(disk, TRUE), NEW fits,
             Record(<<Rec("compacted", turn.run, b)>>,
                    [turn EXCEPT !.pc = IF pc = "context" /\ ~fits THEN "fail" ELSE "request",
                                 !.notice = notice, !.rebuilt = @ \/ pc = "request"])
      PROVE  Goes /\ (up' => WriterGoes) /\ TurnGoes
  <2> DEFINE rec == <<Rec("compacted", turn.run, b)>>
             good == [turn EXCEPT !.pc = IF pc = "context" /\ ~fits THEN "fail" ELSE "request",
                                  !.notice = notice, !.rebuilt = @ \/ pc = "request"]
  <2>1. b \in Nat \ {0} /\ turn.run \in Nat /\ turn \in TurnRecords
    <3>1. b \in DOMAIN disk
      BY <1>2 DEF CompactionBoundaries, Users
    <3> QED BY <3>1 DEF JournalInv, JournalTypes, TurnRecords
  <2>2. Written(rec, disk)
    BY <2>1, OneWritten
  <2>3. good \in TurnRecords /\ good.pc \in {"fail", "request"}
    <3> DEFINE p == IF pc = "context" /\ ~fits THEN "fail" ELSE "request"
               r == turn.rebuilt \/ pc = "request"
    <3>1. p \in {"fail", "request"} /\ r \in BOOLEAN
      OBVIOUS
    <3>2. good = [turn EXCEPT !.pc = p, !.notice = notice, !.rebuilt = r]
      OBVIOUS
    <3> HIDE DEF p, r, good
    <3> QED BY <2>1, <3>1, <3>2 DEF TurnRecords
  <2>4. Record(rec, good)
    BY <1>2
  <2> HIDE DEF rec, good
  <2> QED BY <2>2, <2>3, <2>4, RecordTurns
<1> QED BY <1>1, <1>2 DEF CompactInto

LEMMA PrepareContextGoes == JournalInv /\ PrepareContext => StepGoes
<1> SUFFICES ASSUME JournalInv, PrepareContext PROVE StepGoes
  OBVIOUS
<1>1. /\ up /\ UNCHANGED up /\ UNCHANGED <<editor, queue, runs>> /\ turn \in TurnRecords
      /\ turn.run \in Nat /\ turn.notice \in BOOLEAN
  BY DEF PrepareContext, At, JournalInv, JournalTypes, TurnRecords
<1>2. OthersGo
  BY <1>1, OthersStay
<1>3. ASSUME Goto("request"), UNCHANGED file PROVE Goes /\ (up' => WriterGoes) /\ TurnGoes
  <2>1. TurnGoes
    BY <1>3, TurnLeaves DEF Goto, Phases
  <2> QED BY <1>1, <1>3, <2>1, FileStays
<1>4. ASSUME PruneBoundary(disk) # 0,
             Record(<<Rec("pruned", turn.run, PruneBoundary(disk))>>, [turn EXCEPT !.pc = "request"])
      PROVE  Goes /\ (up' => WriterGoes) /\ TurnGoes
  <2> DEFINE rec == <<Rec("pruned", turn.run, PruneBoundary(disk))>>
             good == [turn EXCEPT !.pc = "request"]
  <2>1. Written(rec, disk)
    <3>1. /\ PruneBoundary(disk) \in 1..Len(disk)
          /\ \A i \in DOMAIN disk : disk[i].type = "pruned" => disk[i].body < PruneBoundary(disk)
      BY <1>4, PruneAdvances
    <3> QED BY <1>1, <3>1, OneWritten
  <2>2. good \in TurnRecords /\ good.pc = "request"
    BY <1>1, TurnMoves DEF Phases
  <2>3. Record(rec, good)
    BY <1>4
  <2> HIDE DEF rec, good
  <2> QED BY <1>1, <2>1, <2>2, <2>3, RecordTurns
<1>5. ASSUME CompactInto("context", turn.notice) PROVE Goes /\ (up' => WriterGoes) /\ TurnGoes
  BY <1>1, <1>5, CompactIntoGoes
<1>6. \/ Goto("request") /\ UNCHANGED file
      \/ /\ PruneBoundary(disk) # 0
         /\ Record(<<Rec("pruned", turn.run, PruneBoundary(disk))>>, [turn EXCEPT !.pc = "request"])
      \/ CompactInto("context", turn.notice)
  BY DEF PrepareContext
<1>7. Goes /\ (up' => WriterGoes) /\ TurnGoes
  BY <1>3, <1>4, <1>5, <1>6
<1> QED BY <1>2, <1>7 DEF StepGoes

LEMMA RequestGoes ==
    ASSUME JournalInv, Recover \/ RequestFails
    PROVE  StepGoes
<1>1. up /\ UNCHANGED up /\ UNCHANGED <<editor, queue, runs>>
  BY DEF Recover, RequestFails, At
<1>2. OthersGo
  BY <1>1, OthersStay
<1>3. ASSUME Recover PROVE Goes /\ (up' => WriterGoes) /\ TurnGoes
  <2>1. CompactInto("request", FALSE)
    BY <1>3 DEF Recover
  <2> QED BY <1>1, <2>1, CompactIntoGoes
<1>4. ASSUME RequestFails PROVE Goes /\ (up' => WriterGoes) /\ TurnGoes
  <2>1. TurnGoes
    BY <1>4, TurnLeaves DEF RequestFails, Goto, Phases
  <2>2. UNCHANGED file
    BY <1>4 DEF RequestFails
  <2> QED BY <1>1, <2>1, <2>2, FileStays
<1> QED BY <1>2, <1>3, <1>4 DEF StepGoes

LEMMA RespondGoes ==
    ASSUME JournalInv, NEW calls \in Batches \cup {<<>>}, Respond(calls)
    PROVE  StepGoes
<1> DEFINE rec == <<Rec("assistant", turn.run, calls)>>
           good == [turn EXCEPT !.pc = IF calls = <<>> THEN "complete"
                                       ELSE IF turn.iter >= MaxIterations THEN "limit" ELSE "tools",
                                !.at = seq + 1, !.done = 0,
                                !.iter = IF calls = <<>> THEN @ ELSE @ + 1]
<1>1. up /\ Record(rec, good) /\ UNCHANGED up /\ UNCHANGED <<editor, queue, runs>>
  BY DEF Respond, At
<1>2. /\ turn \in TurnRecords /\ turn.run \in Nat /\ turn.iter \in Nat /\ seq \in Nat /\ seq = Len(disk)
      /\ calls \in Seq(Kinds)
  <2>1. calls \in Seq(Kinds)
    <3>1. calls \in Batches => calls \in Seq(Kinds)
      BY CySessionAssumption DEF CySessionAssumption, Kinds
    <3>2. <<>> \in Seq(Kinds)
      OBVIOUS
    <3> QED BY <3>1, <3>2
  <2> QED BY <1>1, <2>1 DEF JournalInv, JournalTypes, WriterKnows, TurnRecords
<1>3. Written(rec, disk)
  BY <1>2, OneWritten
<1>4. good \in TurnRecords /\ good.at = Len(disk) + 1
  <2> DEFINE p == IF calls = <<>> THEN "complete" ELSE IF turn.iter >= MaxIterations THEN "limit" ELSE "tools"
             n == IF calls = <<>> THEN turn.iter ELSE turn.iter + 1
  <2>1. p \in {"complete", "limit", "tools"} /\ n \in Nat /\ seq + 1 \in Nat
    BY <1>2
  <2>2. good = [turn EXCEPT !.pc = p, !.at = seq + 1, !.done = 0, !.iter = n]
    OBVIOUS
  <2> HIDE DEF p, n, good
  <2> QED BY <1>2, <2>1, <2>2 DEF TurnRecords
<1>5. 1 \in DOMAIN rec /\ rec[1].type = "assistant"
  BY DEF Rec
<1> HIDE DEF rec, good
<1>6. Goes /\ (up' => WriterGoes) /\ TurnGoes
  BY <1>1, <1>3, <1>4, <1>5, RecordTurns
<1> QED BY <1>1, <1>6, OthersStay DEF StepGoes

(* The response that the turn is answering. *)
LEMMA AnsweredResponse ==
    ASSUME JournalInv, turn.pc \in {"tools", "limit"}
    PROVE  disk[turn.at].body \in Seq(Kinds)
  BY DEF JournalInv, JournalTypes, CallsAreThere, BodyFits

LEMMA ToolLimitGoes == JournalInv /\ ToolLimit => StepGoes
<1> SUFFICES ASSUME JournalInv, ToolLimit PROVE StepGoes
  OBVIOUS
<1> DEFINE recs == Results(0, Len(disk[turn.at].body))
           good == [turn EXCEPT !.pc = "boundary", !.final = TRUE]
<1>1. /\ up /\ turn.pc = "limit" /\ Record(recs, good) /\ UNCHANGED up
      /\ UNCHANGED <<editor, queue, runs>>
  BY DEF ToolLimit, At
<1>2. Written(recs, disk)
  <2>1. Len(disk[turn.at].body) \in Nat
    BY <1>1, AnsweredResponse
  <2> QED BY <2>1, ResultsWritten DEF JournalInv
<1>3. good \in TurnRecords /\ good.pc = "boundary"
  BY DEF JournalInv, JournalTypes, TurnRecords
<1> HIDE DEF recs, good
<1>4. Goes /\ (up' => WriterGoes) /\ TurnGoes
  BY <1>1, <1>2, <1>3, RecordTurns
<1> QED BY <1>1, <1>4, OthersStay DEF StepGoes

LEMMA BatchEnds ==
    ASSUME JournalInv, turn.pc = "tools", turn.done < Len(disk[turn.at].body)
    PROVE  BatchEnd \in Nat
<1> DEFINE calls == disk[turn.at].body
           n == turn.done + 1
           batch == {m \in n..Len(calls) : \A k \in n..m : calls[k] = "read"}
<1>1. calls \in Seq(Kinds) /\ Len(calls) \in Nat /\ n \in Nat /\ n \in 1..Len(calls)
  <2>1. turn.done \in Nat
    BY DEF JournalInv, JournalTypes, TurnRecords
  <2>2. calls \in Seq(Kinds) /\ Len(calls) \in Nat
    BY AnsweredResponse
  <2>3. turn.done < Len(calls)
    OBVIOUS
  <2> HIDE DEF calls
  <2> QED BY <2>1, <2>2, <2>3
<1>2. ASSUME calls[n] = "read" PROVE Last(batch) \in Nat
  <2>1. batch \subseteq 1..Len(calls)
    BY <1>1
  <2>2. n \in batch
    <3>1. \A k \in n..n : k = n
      BY <1>1
    <3> QED BY <1>1, <1>2, <3>1
  <2>3. Last(batch) \in batch
    <3> HIDE DEF batch, calls, n
    <3> QED BY <1>1, <2>1, <2>2, LastIsGreatest
  <2>4. Len(calls) \in Nat /\ Last(batch) \in 1..Len(calls)
    <3> HIDE DEF batch
    <3> QED BY <1>1, <2>1, <2>3
  <2> HIDE DEF batch, calls
  <2> QED BY <2>4
<1> QED BY <1>1, <1>2 DEF BatchEnd

LEMMA ExecuteBatchGoes == JournalInv /\ ExecuteBatch => StepGoes
<1> SUFFICES ASSUME JournalInv, ExecuteBatch PROVE StepGoes
  OBVIOUS
<1> DEFINE recs == Results(turn.done, BatchEnd)
           good == [turn EXCEPT !.done = BatchEnd]
<1>1. /\ up /\ turn.pc = "tools" /\ Record(recs, good) /\ UNCHANGED up
      /\ UNCHANGED <<editor, queue, runs>>
  BY DEF ExecuteBatch, At
<1>2. BatchEnd \in Nat /\ turn.done \in Nat /\ turn \in TurnRecords
  <2>1. BatchEnd \in Nat
    BY <1>1, BatchEnds DEF ExecuteBatch
  <2> QED BY <2>1 DEF JournalInv, JournalTypes, TurnRecords
<1>3. Written(recs, disk)
  BY <1>2, ResultsWritten DEF JournalInv
<1>4. good \in TurnRecords /\ good.at = turn.at /\ AtCalls(turn)
  <2> DEFINE n == BatchEnd
  <2>1. n \in Nat /\ good = [turn EXCEPT !.done = n]
    BY <1>2
  <2> HIDE DEF n, good
  <2> QED BY <1>1, <1>2, <2>1 DEF TurnRecords, AtCalls
<1> HIDE DEF recs, good
<1>5. Goes /\ (up' => WriterGoes) /\ TurnGoes
  BY <1>1, <1>3, <1>4, RecordTurns
<1> QED BY <1>1, <1>5, OthersStay DEF StepGoes

LEMMA ExecuteEndsGoes == JournalInv /\ ExecuteEnds => StepGoes
<1> SUFFICES ASSUME JournalInv, ExecuteEnds PROVE StepGoes
  OBVIOUS
<1>1. up /\ UNCHANGED <<file, up>> /\ UNCHANGED <<editor, queue, runs>> /\ (Goto("fail") \/ Goto("boundary"))
  BY DEF ExecuteEnds, At
<1>2. TurnGoes
  BY <1>1, TurnLeaves DEF Goto, Phases
<1> QED BY <1>1, <1>2, OthersStay, QuietGoes

LEMMA FinishWritten ==
    ASSUME JournalInv
    PROVE  Written(<<Rec("finished", turn.run, 0)>>, disk)
<1>1. turn.run \in Nat
  BY DEF JournalInv, JournalTypes, TurnRecords
<1> QED BY <1>1, OneWritten

LEMMA EndGoes ==
    ASSUME JournalInv, Complete \/ FailRun
    PROVE  StepGoes
<1> DEFINE rec == <<Rec("finished", turn.run, 0)>>
<1>1. /\ up /\ UNCHANGED up /\ UNCHANGED <<editor, queue, runs>>
      /\ Record(rec, Idle) \/ (turn' = Idle /\ (Appended(rec) \/ AppendFailed(rec)))
  <2>1. CASE Complete
    BY <2>1 DEF Complete, At
  <2>2. CASE FailRun
    BY <2>2 DEF FailRun, At
  <2> QED BY <2>1, <2>2
<1>2. Written(rec, disk)
  BY FinishWritten
<1>3. Idle \in TurnRecords /\ Idle.pc = "idle"
  BY TurnMoves
<1> HIDE DEF rec
<1>4. ASSUME Record(rec, Idle) PROVE Goes /\ (up' => WriterGoes) /\ TurnGoes
  BY <1>1, <1>2, <1>3, <1>4, RecordTurns
<1>5. ASSUME turn' = Idle, Appended(rec) \/ AppendFailed(rec) PROVE Goes /\ (up' => WriterGoes) /\ TurnGoes
  BY <1>1, <1>2, <1>5, WriteGoes, TurnRests
<1> QED BY <1>1, <1>4, <1>5, OthersStay DEF StepGoes

LEMMA TwoWritten ==
    ASSUME NEW J, NEW a, NEW b, Written(<<a>>, J), Written(<<b>>, J), a.type # "pruned", b.type # "pruned"
    PROVE  Written(<<a, b>>, J)
<1>1. \A x : Written(<<x>>, J) => x \in Records /\ BodyFits(x) /\ Follows(x, J)
  <2> SUFFICES ASSUME NEW x, Written(<<x>>, J) PROVE x \in Records /\ BodyFits(x) /\ Follows(x, J)
    OBVIOUS
  <2>1. 1 \in DOMAIN <<x>> /\ <<x>>[1] = x /\ Len(<<x>>) = 1
    OBVIOUS
  <2>2. <<x>>[1] \in Records
    BY <2>1 DEF Written
  <2> QED BY <2>1, <2>2 DEF Written
<1>2. a \in Records /\ BodyFits(a) /\ Follows(a, J) /\ b \in Records /\ BodyFits(b) /\ Follows(b, J)
  BY <1>1
<1>3. <<a, b>> \in Seq(Records) /\ \A k \in DOMAIN <<a, b>> : <<a, b>>[k] = a \/ <<a, b>>[k] = b
  BY <1>2
<1> QED BY <1>2, <1>3 DEF Written

LEMMA ShellStartWritten ==
    ASSUME NEW J, NEW n \in Nat, editor \subseteq Inputs, NEW i \in editor
    PROVE  Written(<<Rec("user", n + 1, i), Rec("assistant", n + 1, <<"bash">>)>>, J)
<1> DEFINE a == Rec("user", n + 1, i)
           b == Rec("assistant", n + 1, <<"bash">>)
<1>1. i \in Inputs /\ <<"bash">> \in Seq(Kinds) /\ n + 1 \in Nat
  BY DEF Kinds
<1>2. Written(<<a>>, J) /\ Written(<<b>>, J)
  BY <1>1, OneWritten
<1>3. a.type = "user" /\ b.type = "assistant"
  BY DEF Rec
<1>4. Written(<<a, b>>, J)
  <2> HIDE DEF a, b
  <2> QED BY <1>2, <1>3, TwoWritten
<1> QED BY <1>4

LEMMA ShellStartGoes == JournalInv /\ ShellStart => StepGoes
<1> SUFFICES ASSUME JournalInv, ShellStart PROVE StepGoes
  OBVIOUS
<1>1. PICK i \in editor :
        /\ editor' = editor \ {i}
        /\ LET recs == <<Rec("user", runs + 1, i), Rec("assistant", runs + 1, <<"bash">>)>>
           IN  \/ Appended(recs) /\ turn' = [Idle EXCEPT !.pc = "ran", !.run = runs + 1, !.at = seq + 2]
               \/ AppendFailed(recs) /\ UNCHANGED turn
  BY DEF ShellStart
<1> DEFINE recs == <<Rec("user", runs + 1, i), Rec("assistant", runs + 1, <<"bash">>)>>
<1>2. /\ up /\ up' /\ turn.pc = "idle" /\ runs' = runs + 1 /\ runs \in Nat /\ queue' = queue
      /\ editor \subseteq Inputs /\ queue \in Seq(Inputs) /\ seq \in Nat
  BY DEF ShellStart, At, JournalInv, JournalTypes
<1>3. Written(recs, disk)
  BY <1>2, ShellStartWritten
<1>4. \/ Appended(recs) /\ turn' = [Idle EXCEPT !.pc = "ran", !.run = runs + 1, !.at = seq + 2]
      \/ AppendFailed(recs) /\ UNCHANGED turn
  BY <1>1
<1> HIDE DEF recs
<1>5. Goes /\ WriterGoes
  BY <1>2, <1>3, <1>4, WriteGoes
<1>6. TurnGoes
  <2>1. ASSUME turn' = [Idle EXCEPT !.pc = "ran", !.run = runs + 1, !.at = seq + 2] PROVE TurnGoes
    <3>1. runs + 1 \in Nat /\ seq + 2 \in Nat
      BY <1>2
    <3>2. turn' \in TurnRecords /\ turn'.pc = "ran"
      BY <2>1, <3>1 DEF Idle, TurnRecords
    <3> QED BY <3>2 DEF TurnGoes, AtCalls
  <2>2. ASSUME UNCHANGED turn PROVE TurnGoes
    BY <1>2, <2>2, TurnStays
  <2> QED BY <1>4, <2>1, <2>2
<1>7. OthersGo
  BY <1>1, <1>2 DEF OthersGo
<1> QED BY <1>5, <1>6, <1>7 DEF StepGoes

LEMMA ShellEndWritten ==
    ASSUME JournalInv
    PROVE  Written(<<Rec("result", turn.run, <<turn.at, 1>>), Rec("finished", turn.run, 0)>>, disk)
<1> DEFINE a == Rec("result", turn.run, <<turn.at, 1>>)
           b == Rec("finished", turn.run, 0)
<1>1. turn.run \in Nat /\ turn.at \in Nat
  BY DEF JournalInv, JournalTypes, TurnRecords
<1>2. a \in Records /\ a.type = "result"
  BY <1>1 DEF Rec, Records, CallPlaces
<1>3. Written(<<a>>, disk)
  <2> HIDE DEF a
  <2>1. <<a>> \in Seq(Records) /\ \A k \in DOMAIN <<a>> : <<a>>[k] = a
    BY <1>2
  <2> QED BY <1>2, <2>1 DEF Written, BodyFits, Follows
<1>4. Written(<<b>>, disk) /\ b.type = "finished"
  BY FinishWritten DEF Rec
<1>5. Written(<<a, b>>, disk)
  <2> HIDE DEF a, b
  <2> QED BY <1>2, <1>3, <1>4, TwoWritten
<1> QED BY <1>5

LEMMA ShellEndGoes == JournalInv /\ ShellEnd => StepGoes
<1> SUFFICES ASSUME JournalInv, ShellEnd PROVE StepGoes
  OBVIOUS
<1> DEFINE recs == <<Rec("result", turn.run, <<turn.at, 1>>), Rec("finished", turn.run, 0)>>
<1>1. /\ up /\ turn' = Idle /\ (Appended(recs) \/ AppendFailed(recs))
      /\ UNCHANGED up /\ UNCHANGED <<editor, queue, runs>>
  BY DEF ShellEnd, At
<1>2. Written(recs, disk)
  BY ShellEndWritten
<1> HIDE DEF recs
<1>3. Goes /\ WriterGoes
  BY <1>1, <1>2, WriteGoes
<1> QED BY <1>1, <1>3, TurnRests, OthersStay DEF StepGoes

LEMMA CompactGoes == JournalInv /\ Compact => StepGoes
<1> SUFFICES ASSUME JournalInv, Compact PROVE StepGoes
  OBVIOUS
<1>1. PICK b \in CompactionBoundaries(disk, FALSE) :
        Appended(<<Rec("compacted", 0, b)>>) \/ AppendFailed(<<Rec("compacted", 0, b)>>)
  BY DEF Compact
<1>2. up /\ up' /\ UNCHANGED <<editor, queue, runs>> /\ turn' = turn
  BY DEF Compact, At
<1>3. Written(<<Rec("compacted", 0, b)>>, disk)
  <2>1. b \in DOMAIN disk
    BY DEF CompactionBoundaries, Users
  <2>2. b \in Nat \ {0}
    BY <2>1 DEF JournalInv, JournalTypes
  <2> QED BY <2>2, OneWritten
<1>4. Goes /\ WriterGoes
  BY <1>1, <1>2, <1>3, WriteGoes
<1> QED BY <1>2, <1>4, TurnStays, OthersStay DEF StepGoes

LEMMA GoneGoes ==
    ASSUME JournalInv, Close \/ Crash
    PROVE  StepGoes
<1>1. up' = FALSE /\ turn' = Idle /\ queue' = <<>> /\ disk' = disk /\ seq' = seq /\ UNCHANGED <<editor, runs>>
  BY DEF Close, Crash, Gone
<1>2. Goes
  BY <1>1 DEF Goes, JournalInv, JournalTypes
<1>3. OthersGo
  BY <1>1 DEF OthersGo, JournalInv, JournalTypes
<1> QED BY <1>1, <1>2, <1>3, TurnRests DEF StepGoes

LEMMA OpenGoes == JournalInv /\ Open => StepGoes
<1> SUFFICES ASSUME JournalInv, Open PROVE StepGoes
  OBVIOUS
<1>1. ~up /\ turn' = turn /\ UNCHANGED <<editor, queue, runs>> /\ ~AtCalls(turn)
  BY DEF Open, JournalInv, CallsAreThere, AtCalls
<1>2. PICK recs \in Reconciliation(disk) :
        \/ /\ disk' = disk \o [k \in DOMAIN recs |-> [recs[k] EXCEPT !.seq = Len(disk) + k]]
           /\ tail' = "none" /\ seq' = Len(disk) + Len(recs) /\ up' = TRUE
        \/ /\ \E k \in 0..(Len(recs) - 1) :
                /\ disk' = disk \o [j \in 1..k |-> [recs[j] EXCEPT !.seq = Len(disk) + j]]
                /\ seq' = Len(disk) + k
           /\ UNCHANGED up
  BY DEF Open
<1>3. /\ disk \in Seq(Records) /\ (\A i \in DOMAIN disk : BodyFits(disk[i])) /\ Replayable(disk)
      /\ JournalTypes /\ Len(disk) \in Nat /\ DOMAIN disk = 1..Len(disk)
  BY DEF JournalInv, JournalTypes
<1>4. Written(recs, disk) /\ recs \in Seq(Records) /\ Len(recs) \in Nat /\ DOMAIN recs = 1..Len(recs)
  BY <1>3, ReconciliationWritten, LenProperties DEF Written
<1>5. ASSUME NEW some, Written(some, disk), Len(some) \in Nat, disk' = disk \o Placed(some, Len(disk)),
             seq' = Len(disk) + Len(some)
      PROVE  Goes /\ seq' = Len(disk')
  <2>1. GoesOnAs(disk, some, disk')
    BY <1>3, <1>5, WrittenReplays
  <2>2. /\ disk' \in Seq(Records) /\ Len(disk') = Len(disk) + Len(some)
        /\ \A i \in DOMAIN disk' : BodyFits(disk'[i])
        /\ Replayable(disk') /\ \A i \in DOMAIN disk : disk'[i] = disk[i]
    BY <2>1 DEF GoesOnAs
  <2>3. DOMAIN disk' = 1..(Len(disk) + Len(some))
    BY <2>2, LenProperties
  <2> QED BY <1>3, <1>5, <2>2, <2>3 DEF Goes
<1>6. Goes /\ (up' => WriterGoes)
  <2>1. ASSUME disk' = disk \o [k \in DOMAIN recs |-> [recs[k] EXCEPT !.seq = Len(disk) + k]],
               tail' = "none", seq' = Len(disk) + Len(recs)
        PROVE  Goes /\ (up' => WriterGoes)
    <3>1. disk' = disk \o Placed(recs, Len(disk))
      BY <1>4, <2>1 DEF Placed
    <3> QED BY <1>4, <1>5, <2>1, <3>1 DEF WriterGoes
  <2>2. ASSUME NEW k \in 0..(Len(recs) - 1), up' = up, seq' = Len(disk) + k,
               disk' = disk \o [j \in 1..k |-> [recs[j] EXCEPT !.seq = Len(disk) + j]]
        PROVE  Goes /\ (up' => WriterGoes)
    <3> DEFINE some == SubSeq(recs, 1, k)
    <3>1. Written(some, disk) /\ Len(some) = k /\ \A j \in 1..k : some[j] = recs[j]
      BY <1>4, PrefixIsWritten
    <3> HIDE DEF some
    <3>2. Placed(some, Len(disk)) = [j \in 1..k |-> [recs[j] EXCEPT !.seq = Len(disk) + j]]
      BY <3>1 DEF Placed
    <3>3. /\ disk' = disk \o Placed(some, Len(disk)) /\ Len(some) \in Nat
          /\ seq' = Len(disk) + Len(some) /\ ~up'
      BY <1>1, <2>2, <3>1, <3>2
    <3>4. Goes
      BY <1>5, <3>1, <3>3
    <3> QED BY <3>3, <3>4
  <2> QED BY <1>2, <2>1, <2>2
<1> QED BY <1>1, <1>6, TurnStays, OthersStay DEF StepGoes

LEMMA JournalInitially == Init => JournalInv
<1> SUFFICES ASSUME Init PROVE JournalInv
  OBVIOUS
<1> DEFINE first == [Rec("started", 0, 0) EXCEPT !.seq = 1]
<1>1. first \in Records /\ first.type = "started" /\ first.seq = 1
  BY DEF Rec, Records
<1>2. /\ disk = <<first>> /\ tail = "none" /\ seq = 1 /\ editor = Inputs /\ queue = <<>> /\ turn = Idle /\ runs = 0
  BY DEF Init
<1> HIDE DEF first
<1>3. disk \in Seq(Records) /\ Len(disk) = 1 /\ DOMAIN disk = 1..1 /\ disk[1] = first
  BY <1>1, <1>2
<1>4. JournalTypes
  <2>1. \A i \in DOMAIN disk : BodyFits(disk[i])
    <3>1. \A i \in DOMAIN disk : disk[i].type = "started"
      BY <1>1, <1>3
    <3> QED BY <3>1 DEF BodyFits
  <2>2. queue \in Seq(Inputs) /\ turn \in TurnRecords /\ seq \in Nat /\ runs \in Nat /\ editor \subseteq Inputs
    <3>1. <<>> \in Seq(Inputs)
      OBVIOUS
    <3>2. Idle \in TurnRecords
      BY TurnMoves
    <3> QED BY <1>2, <3>1, <3>2
  <2> QED BY <1>3, <2>1, <2>2 DEF JournalTypes
<1>5. Replayable(disk)
  <2>1. \A i \in DOMAIN disk : i = 1
    BY <1>3
  <2>2. disk # <<>> /\ disk[1].type = "started" /\ disk[1].seq = 1
    <3>1. Len(<<>>) # 1
      OBVIOUS
    <3> QED BY <1>1, <1>3, <3>1
  <2> QED BY <2>1, <2>2 DEF Replayable
<1>6. WriterKnows /\ CallsAreThere
  BY <1>2, <1>3, TurnMoves DEF WriterKnows, CallsAreThere
<1> QED BY <1>4, <1>5, <1>6 DEF JournalInv

LEMMA JournalStep == JournalInv /\ [Next]_vars => JournalInv'
<1> SUFFICES ASSUME JournalInv, [Next]_vars PROVE StepGoes
  BY StepKeeps
<1>1. CASE Submit \/ ClaimQueued
  BY <1>1, SubmitGoes, ClaimQueuedGoes
<1>2. CASE QueueInput \/ PopQueued \/ RestoreQueued \/ Cancel \/ JobExits \/ UNCHANGED vars
  BY <1>2, QueueGoes
<1>3. CASE Boundary \/ PrepareContext
  BY <1>3, BoundaryGoes, PrepareContextGoes
<1>4. CASE Recover \/ RequestFails
  BY <1>4, RequestGoes
<1>5. CASE \E calls \in Batches \cup {<<>>} : Respond(calls)
  BY <1>5, RespondGoes
<1>6. CASE ToolLimit \/ ExecuteBatch \/ ExecuteEnds
  BY <1>6, ToolLimitGoes, ExecuteBatchGoes, ExecuteEndsGoes
<1>7. CASE Complete \/ FailRun
  BY <1>7, EndGoes
<1>8. CASE ShellStart \/ ShellEnd \/ Compact
  BY <1>8, ShellStartGoes, ShellEndGoes, CompactGoes
<1>9. CASE Close \/ Crash
  BY <1>9, GoneGoes
<1>10. CASE Open
  BY <1>10, OpenGoes
<1> QED BY <1>1, <1>2, <1>3, <1>4, <1>5, <1>6, <1>7, <1>8, <1>9, <1>10 DEF Next

(* The journal of a session can be replayed whatever the engine wrote, and  *)
(* however a write fell short or the process ended, at every moment: the    *)
(* next open reads it from its first record to its last, and a process that *)
(* has it open numbers its records from what is on disk.                    *)
THEOREM JournalAlwaysReplays == Spec => []JournalReplays
<1>1. JournalInv => JournalReplays
  BY DEF JournalInv, WriterKnows, JournalReplays
<1> QED BY <1>1, JournalInitially, JournalStep, PTL DEF Spec

(***************************************************************************)
(* The answers.  A response's calls are pending only while its turn is     *)
(* answering them, in their order, or after the turn failed; a turn that   *)
(* asks again has answered them all, and has no final answer yet.          *)
(***************************************************************************)
EmptyAnswer(i) == disk[i].type = "assistant" /\ disk[i].body = <<>>
Asking == {"boundary", "context", "request"}

RunsCounted ==
    /\ \A i \in DOMAIN disk : disk[i].run <= runs
    /\ turn.pc # "idle" => up /\ turn.run \in 1..runs
CallsBelong ==
    \A c \in PendingTools(disk) : disk[c[1]].run = turn.run =>
        /\ turn.pc \notin Asking \cup {"complete"}
        /\ AtCalls(turn) => c[1] = turn.at /\ c[2] > turn.done
NoAnswerYet ==
    turn.pc \in Asking \cup {"tools", "limit"} =>
        \A k \in DOMAIN disk : EmptyAnswer(k) => disk[k].run # turn.run
AnswersInv == RunsCounted /\ CallsBelong /\ NoAnswerYet /\ AnsweredRunsHaveResults

Fresh == DOMAIN disk' \ DOMAIN disk

LEMMA NewOnes ==
    ASSUME NEW J \in Seq(Records), NEW some \in Seq(Records), NEW K, GoesOnAs(J, some, K)
    PROVE  \A i \in DOMAIN K \ DOMAIN J : \E k \in DOMAIN some : i = Len(J) + k /\ Matches(K[i], some[k])
<1> SUFFICES ASSUME NEW i \in DOMAIN K \ DOMAIN J
             PROVE  \E k \in DOMAIN some : i = Len(J) + k /\ Matches(K[i], some[k])
  OBVIOUS
<1>1. /\ Len(K) = Len(J) + Len(some) /\ DOMAIN K = 1..Len(K) /\ DOMAIN J = 1..Len(J)
      /\ DOMAIN some = 1..Len(some) /\ Len(J) \in Nat /\ Len(some) \in Nat
  BY LenProperties DEF GoesOnAs
<1>2. i - Len(J) \in DOMAIN some /\ i = Len(J) + (i - Len(J))
  BY <1>1
<1> QED BY <1>2 DEF GoesOnAs

LEMMA AppendedFresh ==
    ASSUME JournalInv, up, NEW recs, Written(recs, disk), Appended(recs)
    PROVE  \A i \in Fresh : \E k \in DOMAIN recs : i = Len(disk) + k /\ Matches(disk'[i], recs[k])
<1>1. /\ disk \in Seq(Records) /\ (\A i \in DOMAIN disk : BodyFits(disk[i])) /\ Replayable(disk)
      /\ seq = Len(disk) /\ tail = "none" /\ recs \in Seq(Records)
  BY DEF JournalInv, JournalTypes, WriterKnows, Appended, Written
<1>2. disk' = disk \o Placed(recs, Len(disk))
  BY <1>1 DEF Appended, Put, Numbered, Placed
<1>3. GoesOnAs(disk, recs, disk')
  BY <1>1, <1>2, WrittenReplays
<1> QED BY <1>1, <1>3, NewOnes DEF Fresh

LEMMA AppendFailedFresh ==
    ASSUME JournalInv, up, NEW recs, Written(recs, disk), AppendFailed(recs)
    PROVE  \A i \in Fresh : \E k \in 1..(Len(recs) - 1) : k \in DOMAIN recs /\ Matches(disk'[i], recs[k])
<1>1. CASE UNCHANGED file
  BY <1>1 DEF file, Fresh
<1>2. ASSUME NEW k \in 0..(Len(recs) - 1), ~werr, disk' = Put(SubSeq(recs, 1, k))
      PROVE  \A i \in Fresh : \E j \in 1..(Len(recs) - 1) : j \in DOMAIN recs /\ Matches(disk'[i], recs[j])
  <2> DEFINE some == SubSeq(recs, 1, k)
  <2>1. /\ disk \in Seq(Records) /\ (\A i \in DOMAIN disk : BodyFits(disk[i])) /\ Replayable(disk)
        /\ seq = Len(disk) /\ tail = "none" /\ recs \in Seq(Records) /\ Len(recs) \in Nat
        /\ DOMAIN recs = 1..Len(recs)
    BY <1>2, LenProperties DEF JournalInv, JournalTypes, WriterKnows, Written
  <2>2. Written(some, disk) /\ Len(some) = k /\ \A i \in 1..k : some[i] = recs[i]
    BY PrefixIsWritten
  <2>3. disk' = disk \o Placed(some, Len(disk))
    BY <1>2, <2>1 DEF Put, Numbered, Placed
  <2> HIDE DEF some
  <2>4. GoesOnAs(disk, some, disk') /\ some \in Seq(Records) /\ DOMAIN some = 1..k
    BY <2>1, <2>2, <2>3, WrittenReplays, LenProperties DEF Written
  <2>5. \A i \in Fresh : \E j \in 1..k : Matches(disk'[i], some[j])
    BY <2>1, <2>4, NewOnes DEF Fresh
  <2>6. \A j \in 1..k : j \in 1..(Len(recs) - 1) /\ j \in DOMAIN recs
    BY <2>1
  <2> QED BY <2>2, <2>5, <2>6
<1> QED BY <1>1, <1>2 DEF AppendFailed

(* A call that is pending after a step was so before, or is of a new        *)
(* response.                                                                *)
LEMMA CallsOnlyAnswered ==
    ASSUME JournalInv, Goes, NEW c \in PendingTools(disk)'
    PROVE  /\ c[1] \in DOMAIN disk' /\ disk'[c[1]].type = "assistant" /\ c[2] \in DOMAIN disk'[c[1]].body
           /\ c = <<c[1], c[2]>>
           /\ \A k \in DOMAIN disk' : disk'[k].type = "result" => disk'[k].body # c
           /\ c \in PendingTools(disk) \/ c[1] \in Fresh
<1>1. c \in Calls(disk)' /\ ~Answered(disk, c)'
  BY DEF PendingTools
<1>2. PICK i \in {k \in DOMAIN disk' : disk'[k].type = "assistant"} : c \in {<<i, p>> : p \in DOMAIN disk'[i].body}
  BY <1>1 DEF Calls
<1>3. PICK p \in DOMAIN disk'[i].body : c = <<i, p>>
  BY <1>2
<1>4. c[1] = i /\ c[2] = p
  BY <1>3
<1>5. \A k \in DOMAIN disk' : disk'[k].type = "result" => disk'[k].body # c
  BY <1>1 DEF Answered
<1>6. ASSUME i \in DOMAIN disk PROVE c \in PendingTools(disk)
  <2>1. disk'[i] = disk[i] /\ \A k \in DOMAIN disk : k \in DOMAIN disk' /\ disk'[k] = disk[k]
    BY <1>6 DEF Goes
  <2>2. c \in {<<i, q>> : q \in DOMAIN disk[i].body} /\ disk[i].type = "assistant"
    BY <1>2, <2>1
  <2>3. c \in Calls(disk)
    BY <1>6, <2>2 DEF Calls
  <2>4. ~Answered(disk, c)
    BY <1>5, <2>1 DEF Answered
  <2> QED BY <2>3, <2>4 DEF PendingTools
<1> QED BY <1>2, <1>3, <1>4, <1>5, <1>6 DEF Fresh

QuietFresh == \A i \in Fresh : disk'[i].type # "assistant" /\ disk'[i].run <= runs'
TurnAnswers ==
    \/ turn'.pc \in {"idle", "ran"}
    \/ turn'.pc = "fail"
    \/ turn'.pc \in Asking /\ turn.pc \in Asking
    \/ turn'.pc \in Asking /\ AtCalls(turn)
       /\ \A c \in PendingTools(disk)' : c[1] = turn.at => disk'[c[1]].run # turn.run
    \/ /\ turn'.pc = turn.pc /\ turn'.at = turn.at
       /\ \A c \in PendingTools(disk)' : c[1] = turn.at /\ c[2] > turn.done => c[2] > turn'.done

LEMMA QuietKeeps ==
    ASSUME JournalInv, AnswersInv, StepGoes, QuietFresh, runs' = runs, TurnAnswers,
           turn'.pc # "idle" => up' /\ turn.pc # "idle" /\ turn'.run = turn.run
    PROVE  AnswersInv'
<1> USE DEF EmptyAnswer
<1>1. Goes /\ runs \in Nat /\ \A i \in DOMAIN disk : i \in DOMAIN disk' /\ disk'[i] = disk[i]
  BY DEF StepGoes, Goes, JournalInv, JournalTypes
<1>2. \A c \in PendingTools(disk)' : c \in PendingTools(disk) /\ c[1] \in DOMAIN disk /\ disk'[c[1]] = disk[c[1]]
  <2> SUFFICES ASSUME NEW c \in PendingTools(disk)'
               PROVE  c \in PendingTools(disk) /\ c[1] \in DOMAIN disk /\ disk'[c[1]] = disk[c[1]]
    OBVIOUS
  <2>1. c[1] \in DOMAIN disk' /\ disk'[c[1]].type = "assistant" /\ (c \in PendingTools(disk) \/ c[1] \in Fresh)
    BY <1>1, CallsOnlyAnswered
  <2>2. c[1] \notin Fresh
    BY <2>1 DEF QuietFresh
  <2> QED BY <1>1, <2>1, <2>2 DEF Fresh
<1>3. \A k \in DOMAIN disk' : EmptyAnswer(k)' => k \in DOMAIN disk /\ EmptyAnswer(k) /\ disk'[k] = disk[k]
  <2> SUFFICES ASSUME NEW k \in DOMAIN disk', disk'[k].type = "assistant", disk'[k].body = <<>>
               PROVE  k \in DOMAIN disk /\ EmptyAnswer(k) /\ disk'[k] = disk[k]
    OBVIOUS
  <2>1. k \in DOMAIN disk
    BY DEF QuietFresh, Fresh
  <2> QED BY <1>1, <2>1
<1>4. RunsCounted'
  <2>1. \A i \in DOMAIN disk' : disk'[i].run <= runs'
    BY <1>1 DEF AnswersInv, RunsCounted, QuietFresh, Fresh
  <2>2. turn'.pc # "idle" => up' /\ turn'.run \in 1..runs'
    BY DEF AnswersInv, RunsCounted
  <2> QED BY <2>1, <2>2 DEF RunsCounted
<1>5. CallsBelong'
  <2> SUFFICES ASSUME NEW c \in PendingTools(disk)', disk'[c[1]].run = turn'.run
               PROVE  /\ turn'.pc \notin Asking \cup {"complete"}
                      /\ AtCalls(turn') => c[1] = turn'.at /\ c[2] > turn'.done
    BY DEF CallsBelong, AtCalls
  <2>1. CASE turn'.pc \in {"idle", "ran", "fail"}
    BY <2>1 DEF Asking, AtCalls
  <2>2. CASE turn'.pc \notin {"idle", "ran", "fail"}
    <3>1. turn'.run = turn.run /\ disk[c[1]].run = turn.run /\ c \in PendingTools(disk)
      BY <1>2, <2>2
    <3>2. turn.pc \notin Asking \cup {"complete"} /\ (AtCalls(turn) => c[1] = turn.at /\ c[2] > turn.done)
      BY <3>1 DEF AnswersInv, CallsBelong
    <3>3. /\ turn'.pc = turn.pc /\ turn'.at = turn.at
          /\ c[1] = turn.at /\ c[2] > turn.done => c[2] > turn'.done
      BY <2>2, <3>1, <3>2 DEF TurnAnswers
    <3> QED BY <3>2, <3>3 DEF AtCalls
  <2> QED BY <2>1, <2>2
<1>6. NoAnswerYet'
  <2> SUFFICES ASSUME turn'.pc \in Asking \cup {"tools", "limit"},
                      NEW k \in DOMAIN disk', EmptyAnswer(k)'
               PROVE  disk'[k].run # turn'.run
    BY DEF NoAnswerYet
  <2>1. turn'.run = turn.run /\ turn.pc \in Asking \cup {"tools", "limit"}
    BY DEF TurnAnswers, Asking, AtCalls
  <2>2. k \in DOMAIN disk /\ EmptyAnswer(k) /\ disk'[k] = disk[k]
    BY <1>3
  <2> QED BY <2>1, <2>2 DEF AnswersInv, NoAnswerYet
<1>7. AnsweredRunsHaveResults'
  <2> SUFFICES ASSUME NEW c \in PendingTools(disk)', NEW k \in DOMAIN disk', EmptyAnswer(k)'
               PROVE  disk'[k].run # disk'[c[1]].run
    BY DEF AnsweredRunsHaveResults
  <2>1. c \in PendingTools(disk) /\ disk'[c[1]] = disk[c[1]]
    BY <1>2
  <2>2. k \in DOMAIN disk /\ EmptyAnswer(k) /\ disk'[k] = disk[k]
    BY <1>3
  <2> QED BY <2>1, <2>2 DEF AnswersInv, AnsweredRunsHaveResults
<1> QED BY <1>4, <1>5, <1>6, <1>7 DEF AnswersInv

LEMMA WriteQuiet ==
    ASSUME JournalInv, up, NEW recs, Written(recs, disk), Appended(recs) \/ AppendFailed(recs),
           \A k \in DOMAIN recs : recs[k].type # "assistant" /\ recs[k].run <= runs'
    PROVE  QuietFresh
<1>1. \A i \in Fresh : \E k \in DOMAIN recs : Matches(disk'[i], recs[k])
  BY AppendedFresh, AppendFailedFresh
<1> QED BY <1>1 DEF Matches, QuietFresh

LEMMA SameQuiet == disk' = disk => QuietFresh
  BY DEF QuietFresh, Fresh

(* The journal and the turn stay; or only the turn moves. *)
LEMMA StillKeeps ==
    ASSUME JournalInv, AnswersInv,
           QueueInput \/ PopQueued \/ RestoreQueued \/ Cancel \/ JobExits \/ UNCHANGED vars
    PROVE  AnswersInv'
<1>1. StepGoes
  BY QueueGoes
<1>2. disk' = disk /\ runs' = runs /\ up' = up
  BY DEF QueueInput, PopQueued, RestoreQueued, Cancel, JobExits, vars, file
<1>3. turn'.pc = turn.pc /\ turn'.run = turn.run /\ turn'.at = turn.at /\ turn'.done = turn.done
  <2>1. turn' = turn \/ turn' = [turn EXCEPT !.cancelled = TRUE]
    BY DEF QueueInput, PopQueued, RestoreQueued, Cancel, JobExits, vars
  <2>2. turn \in TurnRecords
    BY DEF JournalInv, JournalTypes
  <2> QED BY <2>1, <2>2 DEF TurnRecords
<1>4. TurnAnswers
  BY <1>3 DEF TurnAnswers
<1>5. turn'.pc # "idle" => up' /\ turn.pc # "idle" /\ turn'.run = turn.run
  BY <1>2, <1>3 DEF AnswersInv, RunsCounted
<1> QED BY <1>1, <1>2, <1>4, <1>5, SameQuiet, QuietKeeps

LEMMA RestsKeeps ==
    ASSUME JournalInv, AnswersInv, StepGoes, QuietFresh, runs' = runs, turn' = Idle
    PROVE  AnswersInv'
<1>1. turn'.pc = "idle"
  BY TurnMoves
<1>2. TurnAnswers
  BY <1>1 DEF TurnAnswers
<1> QED BY <1>1, <1>2, QuietKeeps

LEMMA EndKeeps ==
    ASSUME JournalInv, AnswersInv, FailRun \/ ShellEnd \/ Close \/ Crash
    PROVE  AnswersInv'
<1>1. StepGoes /\ turn' = Idle /\ runs' = runs
  <2>1. StepGoes
    BY EndGoes, ShellEndGoes, GoneGoes
  <2> QED BY <2>1 DEF FailRun, ShellEnd, Close, Crash, Gone
<1>2. QuietFresh
  <2>1. CASE Close \/ Crash
    <3>1. disk' = disk
      BY <2>1 DEF Close, Crash
    <3> QED BY <3>1, SameQuiet
  <2>2. ASSUME FailRun PROVE QuietFresh
    <3> DEFINE rec == <<Rec("finished", turn.run, 0)>>
    <3>1. up /\ (Appended(rec) \/ AppendFailed(rec)) /\ turn.run <= runs'
      BY <2>2 DEF FailRun, At, AnswersInv, RunsCounted
    <3>2. \A k \in DOMAIN rec : rec[k].type # "assistant" /\ rec[k].run <= runs'
      BY <3>1 DEF Rec
    <3>3. Written(rec, disk)
      BY FinishWritten
    <3> HIDE DEF rec
    <3> QED BY <3>1, <3>2, <3>3, WriteQuiet
  <2>3. ASSUME ShellEnd PROVE QuietFresh
    <3> DEFINE recs == <<Rec("result", turn.run, <<turn.at, 1>>), Rec("finished", turn.run, 0)>>
    <3>1. up /\ (Appended(recs) \/ AppendFailed(recs)) /\ turn.run <= runs'
      BY <2>3 DEF ShellEnd, At, AnswersInv, RunsCounted
    <3>2. \A k \in DOMAIN recs : recs[k].type # "assistant" /\ recs[k].run <= runs'
      BY <3>1 DEF Rec
    <3>3. Written(recs, disk)
      BY ShellEndWritten
    <3> HIDE DEF recs
    <3> QED BY <3>1, <3>2, <3>3, WriteQuiet
  <2> QED BY <2>1, <2>2, <2>3
<1> QED BY <1>1, <1>2, RestsKeeps

(* Records that ask for nothing, and the turn that goes on or fails. *)
LEMMA RecordKeeps ==
    ASSUME JournalInv, AnswersInv, StepGoes, up, UNCHANGED up, runs' = runs, turn.pc # "idle",
           NEW recs, Written(recs, disk), NEW good, Record(recs, good),
           \A k \in DOMAIN recs : recs[k].type # "assistant" /\ recs[k].run <= runs,
           good.run = turn.run,
           turn' = good /\ Appended(recs) => TurnAnswers
    PROVE  AnswersInv'
<1>1. QuietFresh
  <2>1. Appended(recs) \/ AppendFailed(recs)
    BY DEF Record
  <2> QED BY <2>1, WriteQuiet
<1>2. CASE turn' = good /\ Appended(recs)
  BY <1>1, <1>2, QuietKeeps
<1>3. CASE turn' = [turn EXCEPT !.pc = "fail"]
  <2>1. turn'.pc = "fail" /\ turn'.run = turn.run
    BY <1>3 DEF JournalInv, JournalTypes, TurnRecords
  <2>2. TurnAnswers
    BY <2>1 DEF TurnAnswers
  <2> QED BY <1>1, <2>1, <2>2, QuietKeeps
<1> QED BY <1>2, <1>3 DEF Record

LEMMA BoundaryKeeps == JournalInv /\ AnswersInv /\ Boundary => AnswersInv'
<1> SUFFICES ASSUME JournalInv, AnswersInv, Boundary PROVE AnswersInv'
  OBVIOUS
<1> DEFINE recs == [k \in DOMAIN queue |-> Rec("user", turn.run, queue[k])]
           good == [turn EXCEPT !.pc = "context", !.notice = (job = "done")]
<1>1. up /\ turn.pc = "boundary" /\ Record(recs, good) /\ UNCHANGED up /\ runs' = runs /\ StepGoes
  BY BoundaryGoes DEF Boundary, At
<1>2. Written(recs, disk)
  BY QueueWritten
<1>3. \A k \in DOMAIN recs : recs[k].type # "assistant" /\ recs[k].run <= runs
  <2>1. turn.run <= runs
    BY <1>1 DEF AnswersInv, RunsCounted
  <2> QED BY <2>1 DEF Rec
<1>4. good.run = turn.run /\ good.pc = "context"
  BY DEF JournalInv, JournalTypes, TurnRecords
<1> HIDE DEF recs, good
<1>5. turn' = good => TurnAnswers
  BY <1>1, <1>4 DEF TurnAnswers, Asking
<1> QED BY <1>1, <1>2, <1>3, <1>4, <1>5, RecordKeeps

LEMMA MoveKeeps ==
    ASSUME JournalInv, AnswersInv, StepGoes, UNCHANGED up, runs' = runs, disk' = disk, turn.pc # "idle",
           NEW p \in Phases \ {"idle"}, turn' = [turn EXCEPT !.pc = p], TurnAnswers
    PROVE  AnswersInv'
<1>1. turn'.run = turn.run /\ up
  BY DEF JournalInv, JournalTypes, TurnRecords, AnswersInv, RunsCounted
<1> QED BY <1>1, SameQuiet, QuietKeeps

LEMMA CompactIntoKeeps ==
    ASSUME JournalInv, AnswersInv, StepGoes, up, UNCHANGED up, runs' = runs, turn.pc \in Asking,
           NEW pc, NEW notice, CompactInto(pc, notice)
    PROVE  AnswersInv'
<1>1. CASE Goto("fail") /\ UNCHANGED file
  <2>1. turn' = [turn EXCEPT !.pc = "fail"] /\ turn'.pc = "fail" /\ turn.pc # "idle" /\ disk' = disk
    BY <1>1 DEF Goto, JournalInv, JournalTypes, TurnRecords, Asking, file
  <2>2. TurnAnswers
    BY <2>1 DEF TurnAnswers
  <2> QED BY <2>1, <2>2, MoveKeeps DEF Phases
<1>2. ASSUME NEW b \in CompactionBoundaries(disk, TRUE), NEW fits,
             Record(<<Rec("compacted", turn.run, b)>>,
                    [turn EXCEPT !.pc = IF pc = "context" /\ ~fits THEN "fail" ELSE "request",
                                 !.notice = notice, !.rebuilt = @ \/ pc = "request"])
      PROVE  AnswersInv'
  <2> DEFINE rec == <<Rec("compacted", turn.run, b)>>
             good == [turn EXCEPT !.pc = IF pc = "context" /\ ~fits THEN "fail" ELSE "request",
                                  !.notice = notice, !.rebuilt = @ \/ pc = "request"]
  <2>1. Written(rec, disk)
    <3>1. b \in DOMAIN disk
      BY <1>2 DEF CompactionBoundaries, Users
    <3>2. b \in Nat \ {0} /\ turn.run \in Nat
      BY <3>1 DEF JournalInv, JournalTypes, TurnRecords
    <3> QED BY <3>2, OneWritten
  <2>2. good.run = turn.run /\ good.pc \in {"fail", "request"}
    <3> DEFINE p == IF pc = "context" /\ ~fits THEN "fail" ELSE "request"
               r == turn.rebuilt \/ pc = "request"
    <3>1. p \in {"fail", "request"} /\ turn \in TurnRecords
      BY DEF JournalInv, JournalTypes
    <3>2. good = [turn EXCEPT !.pc = p, !.notice = notice, !.rebuilt = r]
      OBVIOUS
    <3> HIDE DEF p, r, good
    <3> QED BY <3>1, <3>2 DEF TurnRecords
  <2>3. Record(rec, good)
    BY <1>2
  <2>4. \A k \in DOMAIN rec : rec[k].type # "assistant" /\ rec[k].run <= runs
    <3>1. turn.run <= runs
      BY DEF AnswersInv, RunsCounted, Asking
    <3> QED BY <3>1 DEF Rec
  <2> HIDE DEF rec, good
  <2>5. turn' = good => TurnAnswers
    BY <2>2 DEF TurnAnswers, Asking
  <2>6. turn.pc # "idle"
    BY DEF Asking
  <2> QED BY <2>1, <2>2, <2>3, <2>4, <2>5, <2>6, RecordKeeps
<1> QED BY <1>1, <1>2 DEF CompactInto

LEMMA ContextKeeps ==
    ASSUME JournalInv, AnswersInv, PrepareContext \/ Recover \/ RequestFails
    PROVE  AnswersInv'
<1>1. /\ up /\ UNCHANGED up /\ runs' = runs /\ StepGoes /\ turn.pc \in Asking /\ turn.pc # "idle"
      /\ turn \in TurnRecords /\ turn.run \in Nat /\ turn.run <= runs
  <2>1. StepGoes
    BY PrepareContextGoes, RequestGoes
  <2>2. up /\ UNCHANGED up /\ runs' = runs /\ turn.pc \in Asking /\ turn.pc # "idle"
    BY DEF PrepareContext, Recover, RequestFails, At, Asking
  <2> QED BY <2>1, <2>2 DEF JournalInv, JournalTypes, TurnRecords, AnswersInv, RunsCounted
<1>2. ASSUME NEW p \in {"request", "fail"}, Goto(p), UNCHANGED file PROVE AnswersInv'
  <2>1. turn' = [turn EXCEPT !.pc = p] /\ turn'.pc = p /\ disk' = disk
    BY <1>1, <1>2 DEF Goto, TurnRecords, file
  <2>2. TurnAnswers
    BY <1>1, <2>1 DEF TurnAnswers, Asking
  <2> QED BY <1>1, <2>1, <2>2, MoveKeeps DEF Phases
<1>3. ASSUME PruneBoundary(disk) # 0,
             Record(<<Rec("pruned", turn.run, PruneBoundary(disk))>>, [turn EXCEPT !.pc = "request"])
      PROVE  AnswersInv'
  <2> DEFINE rec == <<Rec("pruned", turn.run, PruneBoundary(disk))>>
             good == [turn EXCEPT !.pc = "request"]
  <2>1. Written(rec, disk)
    <3>1. /\ PruneBoundary(disk) \in 1..Len(disk)
          /\ \A i \in DOMAIN disk : disk[i].type = "pruned" => disk[i].body < PruneBoundary(disk)
      BY <1>3, PruneAdvances
    <3> QED BY <1>1, <3>1, OneWritten
  <2>2. good.run = turn.run /\ good.pc = "request"
    BY <1>1 DEF TurnRecords
  <2>3. Record(rec, good)
    BY <1>3
  <2>4. \A k \in DOMAIN rec : rec[k].type # "assistant" /\ rec[k].run <= runs
    BY <1>1 DEF Rec
  <2> HIDE DEF rec, good
  <2>5. turn' = good => TurnAnswers
    BY <1>1, <2>2 DEF TurnAnswers, Asking
  <2> QED BY <1>1, <2>1, <2>2, <2>3, <2>4, <2>5, RecordKeeps
<1>4. ASSUME NEW pc, NEW notice, CompactInto(pc, notice) PROVE AnswersInv'
  BY <1>1, <1>4, CompactIntoKeeps
<1>5. \/ Goto("request") /\ UNCHANGED file
      \/ Goto("fail") /\ UNCHANGED file
      \/ /\ PruneBoundary(disk) # 0
         /\ Record(<<Rec("pruned", turn.run, PruneBoundary(disk))>>, [turn EXCEPT !.pc = "request"])
      \/ CompactInto("context", turn.notice)
      \/ CompactInto("request", FALSE)
  BY DEF PrepareContext, Recover, RequestFails
<1> QED BY <1>2, <1>3, <1>4, <1>5

(* Results answer the calls that they are numbered for. *)
LEMMA ResultsAnswer ==
    ASSUME JournalInv, up, Goes, AtCalls(turn), NEW from \in Nat, NEW to \in Nat,
           Appended(Results(from, to)),
           NEW c \in PendingTools(disk)', c[1] = turn.at, c[2] > from
    PROVE  c[2] > to /\ c[2] \in 1..Len(disk[turn.at].body)
<1>1. /\ turn.at \in DOMAIN disk /\ disk'[turn.at] = disk[turn.at] /\ disk[turn.at].body \in Seq(Kinds)
      /\ Len(disk) \in Nat
  BY AnsweredResponse DEF AtCalls, Goes, JournalInv, JournalTypes, CallsAreThere
<1>2. /\ c[2] \in DOMAIN disk[turn.at].body /\ c = <<c[1], c[2]>>
      /\ \A k \in DOMAIN disk' : disk'[k].type = "result" => disk'[k].body # c
  BY <1>1, CallsOnlyAnswered
<1>3. c[2] \in 1..Len(disk[turn.at].body) /\ c[2] \in Nat
  BY <1>1, <1>2
<1>4. ASSUME c[2] <= to PROVE FALSE
  <2> DEFINE k == c[2] - from
  <2>1. k \in 1..(to - from) /\ from + k = c[2]
    BY <1>3, <1>4
  <2>2. /\ k \in DOMAIN Results(from, to)
        /\ Results(from, to)[k] = Rec("result", turn.run, <<turn.at, from + k>>)
    BY <2>1 DEF Results
  <2>3. Written(Results(from, to), disk)
    BY ResultsWritten DEF JournalInv
  <2>4. Len(disk) + k \in DOMAIN disk' /\ Matches(disk'[Len(disk) + k], Results(from, to)[k])
    <3> HIDE DEF k
    <3> QED BY <2>2, <2>3, AppendedGoes
  <2>5. disk'[Len(disk) + k].type = "result" /\ disk'[Len(disk) + k].body = <<turn.at, c[2]>>
    BY <2>1, <2>2, <2>4 DEF Matches, Rec
  <2> HIDE DEF k
  <2> QED BY <1>2, <2>4, <2>5
<1> QED BY <1>3, <1>4

LEMMA ResultsQuiet ==
    ASSUME JournalInv, AnswersInv, turn.pc # "idle", NEW from \in Nat, NEW to \in Nat
    PROVE  \A k \in DOMAIN Results(from, to) :
              Results(from, to)[k].type # "assistant" /\ Results(from, to)[k].run <= runs
<1>1. turn.run <= runs
  BY DEF AnswersInv, RunsCounted
<1> QED BY <1>1 DEF Results, Rec

LEMMA ToolLimitKeeps == JournalInv /\ AnswersInv /\ ToolLimit => AnswersInv'
<1> SUFFICES ASSUME JournalInv, AnswersInv, ToolLimit PROVE AnswersInv'
  OBVIOUS
<1> DEFINE n == Len(disk[turn.at].body)
           recs == Results(0, n)
           good == [turn EXCEPT !.pc = "boundary", !.final = TRUE]
<1>1. /\ up /\ turn.pc = "limit" /\ Record(recs, good) /\ UNCHANGED up /\ runs' = runs /\ StepGoes /\ Goes
      /\ AtCalls(turn) /\ n \in Nat
  <2>1. StepGoes /\ up /\ turn.pc = "limit"
    BY ToolLimitGoes DEF ToolLimit, At
  <2> QED BY <2>1, AnsweredResponse DEF ToolLimit, StepGoes, AtCalls
<1>2. Written(recs, disk) /\ \A k \in DOMAIN recs : recs[k].type # "assistant" /\ recs[k].run <= runs
  <2> HIDE DEF n
  <2> QED BY <1>1, ResultsWritten, ResultsQuiet DEF JournalInv
<1>3. good.run = turn.run /\ good.pc = "boundary"
  BY DEF JournalInv, JournalTypes, TurnRecords
<1>4. ASSUME turn' = good, Appended(recs) PROVE TurnAnswers
  <2>1. ASSUME NEW c \in PendingTools(disk)', c[1] = turn.at PROVE FALSE
    <3>1. c[2] \in DOMAIN disk'[c[1]].body /\ disk'[turn.at] = disk[turn.at] /\ disk[turn.at].body \in Seq(Kinds)
      BY <1>1, CallsOnlyAnswered, AnsweredResponse DEF JournalInv, CallsAreThere, Goes
    <3>2. c[2] > 0
      BY <2>1, <3>1
    <3>3. c[2] > n /\ c[2] \in 1..n
      BY <1>1, <1>4, <2>1, <3>2, ResultsAnswer
    <3> QED BY <1>1, <3>3
  <2> HIDE DEF good, recs
  <2> QED BY <1>1, <1>3, <1>4, <2>1 DEF TurnAnswers, Asking
<1> HIDE DEF recs, good
<1> QED BY <1>1, <1>2, <1>3, <1>4, RecordKeeps

LEMMA ExecuteBatchKeeps == JournalInv /\ AnswersInv /\ ExecuteBatch => AnswersInv'
<1> SUFFICES ASSUME JournalInv, AnswersInv, ExecuteBatch PROVE AnswersInv'
  OBVIOUS
<1> DEFINE n == BatchEnd
           recs == Results(turn.done, n)
           good == [turn EXCEPT !.done = n]
<1>1. /\ up /\ turn.pc = "tools" /\ Record(recs, good) /\ UNCHANGED up /\ runs' = runs /\ StepGoes /\ Goes
      /\ AtCalls(turn) /\ n \in Nat /\ turn.done \in Nat
  <2>1. StepGoes /\ up /\ turn.pc = "tools"
    BY ExecuteBatchGoes DEF ExecuteBatch, At
  <2>2. n \in Nat
    BY <2>1, BatchEnds DEF ExecuteBatch
  <2> QED BY <2>1, <2>2 DEF ExecuteBatch, StepGoes, AtCalls, JournalInv, JournalTypes, TurnRecords
<1> HIDE DEF n
<1>2. Written(recs, disk) /\ \A k \in DOMAIN recs : recs[k].type # "assistant" /\ recs[k].run <= runs
  BY <1>1, ResultsWritten, ResultsQuiet DEF JournalInv
<1>3. good.run = turn.run /\ good.pc = turn.pc /\ good.at = turn.at /\ good.done = n
  BY DEF JournalInv, JournalTypes, TurnRecords
<1>4. ASSUME turn' = good, Appended(recs) PROVE TurnAnswers
  <2>1. ASSUME NEW c \in PendingTools(disk)', c[1] = turn.at, c[2] > turn.done PROVE c[2] > n
    BY <1>1, <1>4, <2>1, ResultsAnswer
  <2> HIDE DEF good, recs
  <2> QED BY <1>1, <1>3, <1>4, <2>1 DEF TurnAnswers
<1> HIDE DEF recs, good
<1> QED BY <1>1, <1>2, <1>3, <1>4, RecordKeeps

LEMMA ExecuteEndsKeeps == JournalInv /\ AnswersInv /\ ExecuteEnds => AnswersInv'
<1> SUFFICES ASSUME JournalInv, AnswersInv, ExecuteEnds PROVE AnswersInv'
  OBVIOUS
<1>1. /\ up /\ turn.pc = "tools" /\ UNCHANGED up /\ runs' = runs /\ disk' = disk /\ StepGoes /\ Goes
      /\ AtCalls(turn) /\ turn \in TurnRecords
  BY ExecuteEndsGoes DEF ExecuteEnds, At, StepGoes, AtCalls, JournalInv, JournalTypes, file
<1>2. CASE Goto("fail")
  <2>1. turn' = [turn EXCEPT !.pc = "fail"] /\ turn'.pc = "fail"
    BY <1>1, <1>2 DEF Goto, TurnRecords
  <2>2. TurnAnswers
    BY <2>1 DEF TurnAnswers
  <2> QED BY <1>1, <2>1, <2>2, MoveKeeps DEF Phases
<1>3. CASE turn.done = Len(disk[turn.at].body) /\ Goto("boundary")
  <2>1. turn' = [turn EXCEPT !.pc = "boundary"] /\ turn'.pc = "boundary" /\ turn'.run = turn.run
    BY <1>1, <1>3 DEF Goto, TurnRecords
  <2>2. ASSUME NEW c \in PendingTools(disk)', c[1] = turn.at, disk'[c[1]].run = turn.run PROVE FALSE
    <3>1. c \in PendingTools(disk) /\ c[2] \in DOMAIN disk[turn.at].body
      BY <1>1, <2>2, CallsOnlyAnswered DEF Fresh
    <3>2. c[2] \in 1..turn.done
      BY <1>1, <1>3, <3>1, AnsweredResponse
    <3>3. c[2] > turn.done
      BY <1>1, <2>2, <3>1 DEF AnswersInv, CallsBelong
    <3> QED BY <1>1, <3>2, <3>3 DEF TurnRecords
  <2>3. TurnAnswers
    BY <1>1, <2>1, <2>2 DEF TurnAnswers, Asking
  <2> QED BY <1>1, <2>1, <2>3, MoveKeeps DEF Phases
<1> QED BY <1>2, <1>3 DEF ExecuteEnds

LEMMA CompleteKeeps == JournalInv /\ AnswersInv /\ Complete => AnswersInv'
<1> SUFFICES ASSUME JournalInv, AnswersInv, Complete PROVE AnswersInv'
  OBVIOUS
<1> DEFINE rec == <<Rec("finished", turn.run, 0)>>
<1>1. /\ up /\ turn.pc = "complete" /\ Record(rec, Idle) /\ UNCHANGED up /\ runs' = runs /\ StepGoes
      /\ turn \in TurnRecords
  BY EndGoes DEF Complete, At, JournalInv, JournalTypes
<1>2. Written(rec, disk)
  BY FinishWritten
<1>3. \A k \in DOMAIN rec : rec[k].type # "assistant" /\ rec[k].run <= runs'
  <2>1. turn.run <= runs'
    BY <1>1 DEF AnswersInv, RunsCounted
  <2> QED BY <2>1 DEF Rec
<1> HIDE DEF rec
<1>4. QuietFresh
  BY <1>1, <1>2, <1>3, WriteQuiet DEF Record
<1>5. CASE turn' = Idle
  BY <1>1, <1>4, <1>5, RestsKeeps
<1>6. CASE turn' = [turn EXCEPT !.pc = "fail"]
  <2>1. turn'.pc = "fail" /\ turn'.run = turn.run /\ turn.pc # "idle" /\ up'
    BY <1>1, <1>6 DEF TurnRecords
  <2>2. TurnAnswers
    BY <2>1 DEF TurnAnswers
  <2> QED BY <1>1, <1>4, <2>1, <2>2, QuietKeeps
<1> QED BY <1>1, <1>5, <1>6 DEF Record

LEMMA CompactKeeps == JournalInv /\ AnswersInv /\ Compact => AnswersInv'
<1> SUFFICES ASSUME JournalInv, AnswersInv, Compact PROVE AnswersInv'
  OBVIOUS
<1>1. PICK b \in CompactionBoundaries(disk, FALSE) :
        Appended(<<Rec("compacted", 0, b)>>) \/ AppendFailed(<<Rec("compacted", 0, b)>>)
  BY DEF Compact
<1> DEFINE rec == <<Rec("compacted", 0, b)>>
<1>2. up /\ turn'.pc = "idle" /\ runs' = runs /\ runs \in Nat /\ StepGoes
  BY CompactGoes DEF Compact, At, JournalInv, JournalTypes
<1>3. Written(rec, disk)
  <2>1. b \in DOMAIN disk
    BY DEF CompactionBoundaries, Users
  <2>2. b \in Nat \ {0}
    BY <2>1 DEF JournalInv, JournalTypes
  <2> QED BY <2>2, OneWritten
<1>4. \A k \in DOMAIN rec : rec[k].type # "assistant" /\ rec[k].run <= runs'
  BY <1>2 DEF Rec
<1>5. Appended(rec) \/ AppendFailed(rec)
  BY <1>1
<1> HIDE DEF rec
<1>6. QuietFresh
  BY <1>2, <1>3, <1>4, <1>5, WriteQuiet
<1>7. TurnAnswers
  BY <1>2 DEF TurnAnswers
<1> QED BY <1>2, <1>6, <1>7, QuietKeeps

LEMMA OpenKeeps == JournalInv /\ AnswersInv /\ Open => AnswersInv'
<1> SUFFICES ASSUME JournalInv, AnswersInv, Open PROVE AnswersInv'
  OBVIOUS
<1>1. ~up /\ turn' = turn /\ turn.pc = "idle" /\ runs' = runs /\ StepGoes
  BY OpenGoes DEF Open, AnswersInv, RunsCounted
<1>2. PICK recs \in Reconciliation(disk) :
        \/ disk' = disk \o [k \in DOMAIN recs |-> [recs[k] EXCEPT !.seq = Len(disk) + k]]
        \/ \E k \in 0..(Len(recs) - 1) :
              disk' = disk \o [j \in 1..k |-> [recs[j] EXCEPT !.seq = Len(disk) + j]]
  BY DEF Open
<1>3. /\ disk \in Seq(Records) /\ (\A i \in DOMAIN disk : BodyFits(disk[i])) /\ Replayable(disk) /\ JournalTypes
  BY DEF JournalInv, JournalTypes
<1>4. /\ Written(recs, disk) /\ recs \in Seq(Records) /\ Len(recs) \in Nat /\ DOMAIN recs = 1..Len(recs)
      /\ \A k \in DOMAIN recs : recs[k].type # "assistant" /\ recs[k].run <= runs'
  <2>1. /\ Written(recs, disk)
        /\ \A k \in DOMAIN recs : /\ recs[k].type \in {"result", "finished"}
                                  /\ \E i \in DOMAIN disk : recs[k].run = disk[i].run
    BY <1>3, ReconciliationWritten
  <2>2. \A k \in DOMAIN recs : recs[k].type # "assistant" /\ recs[k].run <= runs'
    BY <1>1, <2>1 DEF AnswersInv, RunsCounted
  <2> QED BY <2>1, <2>2, LenProperties DEF Written
<1>5. ASSUME NEW some, Written(some, disk), some \in Seq(Records), disk' = disk \o Placed(some, Len(disk)),
             \A k \in DOMAIN some : some[k].type # "assistant" /\ some[k].run <= runs'
      PROVE  QuietFresh
  <2>1. GoesOnAs(disk, some, disk')
    BY <1>3, <1>5, WrittenReplays
  <2>2. \A i \in Fresh : \E k \in DOMAIN some : Matches(disk'[i], some[k])
    BY <1>3, <1>5, <2>1, NewOnes DEF Fresh
  <2> QED BY <1>5, <2>2 DEF QuietFresh, Matches
<1>6. QuietFresh
  <2>1. ASSUME disk' = disk \o [k \in DOMAIN recs |-> [recs[k] EXCEPT !.seq = Len(disk) + k]] PROVE QuietFresh
    <3>1. disk' = disk \o Placed(recs, Len(disk))
      BY <1>4, <2>1 DEF Placed
    <3> QED BY <1>4, <1>5, <3>1
  <2>2. ASSUME NEW k \in 0..(Len(recs) - 1),
               disk' = disk \o [j \in 1..k |-> [recs[j] EXCEPT !.seq = Len(disk) + j]]
        PROVE  QuietFresh
    <3> DEFINE some == SubSeq(recs, 1, k)
    <3>1. Written(some, disk) /\ Len(some) = k /\ \A j \in 1..k : some[j] = recs[j]
      BY <1>4, PrefixIsWritten
    <3> HIDE DEF some
    <3>2. Placed(some, Len(disk)) = [j \in 1..k |-> [recs[j] EXCEPT !.seq = Len(disk) + j]]
      BY <3>1 DEF Placed
    <3>3. disk' = disk \o Placed(some, Len(disk))
      BY <2>2, <3>2
    <3>4. some \in Seq(Records) /\ DOMAIN some = 1..k /\ \A j \in 1..k : j \in DOMAIN recs
      BY <1>4, <3>1, LenProperties DEF Written
    <3>5. \A j \in DOMAIN some : some[j].type # "assistant" /\ some[j].run <= runs'
      BY <1>4, <3>1, <3>4
    <3> QED BY <1>5, <3>1, <3>3, <3>4, <3>5
  <2> QED BY <1>2, <2>1, <2>2
<1>7. TurnAnswers
  BY <1>1 DEF TurnAnswers
<1> QED BY <1>1, <1>6, <1>7, QuietKeeps

(* A new run: its number is on no record yet. *)
LEMMA NewRunKeeps ==
    ASSUME JournalInv, AnswersInv, StepGoes, runs' = runs + 1, turn'.pc \in {"idle", "boundary", "ran"},
           turn'.pc # "idle" => up' /\ turn'.run = runs',
           \A i \in Fresh : /\ disk'[i].run <= runs'
                            /\ disk'[i].type = "assistant" =>
                                  disk'[i].run = runs' /\ disk'[i].body # <<>> /\ turn'.pc # "boundary"
    PROVE  AnswersInv'
<1> USE DEF EmptyAnswer
<1>1. /\ Goes /\ runs \in Nat /\ runs' \in Nat /\ \A i \in DOMAIN disk : i \in DOMAIN disk' /\ disk'[i] = disk[i]
      /\ \A i \in DOMAIN disk : disk[i].run \in Nat /\ disk[i].run <= runs
  <2>1. \A i \in DOMAIN disk : disk[i] \in Records
    BY DEF JournalInv, JournalTypes
  <2>2. \A r \in Records : r.run \in Nat
    BY DEF Records
  <2> QED BY <2>1, <2>2 DEF StepGoes, Goes, OthersGo, JournalInv, JournalTypes, AnswersInv, RunsCounted
<1>2. \A i \in DOMAIN disk' : i \in DOMAIN disk \/ i \in Fresh
  BY DEF Fresh
<1>3. RunsCounted'
  <2>1. \A i \in DOMAIN disk' : disk'[i].run <= runs'
    BY <1>1, <1>2
  <2> QED BY <1>1, <2>1 DEF RunsCounted
<1>4. \A c \in PendingTools(disk)' :
        \/ c \in PendingTools(disk) /\ c[1] \in DOMAIN disk /\ disk'[c[1]] = disk[c[1]]
        \/ disk'[c[1]].run = runs' /\ turn'.pc # "boundary"
  <2> SUFFICES ASSUME NEW c \in PendingTools(disk)'
               PROVE  \/ c \in PendingTools(disk) /\ c[1] \in DOMAIN disk /\ disk'[c[1]] = disk[c[1]]
                      \/ disk'[c[1]].run = runs' /\ turn'.pc # "boundary"
    OBVIOUS
  <2>1. c[1] \in DOMAIN disk' /\ disk'[c[1]].type = "assistant" /\ (c \in PendingTools(disk) \/ c[1] \in Fresh)
    BY <1>1, CallsOnlyAnswered
  <2> QED BY <1>1, <1>2, <2>1
<1>5. \A k \in DOMAIN disk' : EmptyAnswer(k)' => k \in DOMAIN disk /\ EmptyAnswer(k) /\ disk'[k] = disk[k]
  <2> SUFFICES ASSUME NEW k \in DOMAIN disk', disk'[k].type = "assistant", disk'[k].body = <<>>
               PROVE  k \in DOMAIN disk /\ EmptyAnswer(k) /\ disk'[k] = disk[k]
    OBVIOUS
  <2> QED BY <1>1, <1>2
<1>6. CallsBelong'
  <2> SUFFICES ASSUME NEW c \in PendingTools(disk)', disk'[c[1]].run = turn'.run
               PROVE  /\ turn'.pc \notin Asking \cup {"complete"}
                      /\ AtCalls(turn') => c[1] = turn'.at /\ c[2] > turn'.done
    BY DEF CallsBelong, AtCalls
  <2>1. CASE turn'.pc = "boundary"
    BY <1>1, <1>4, <2>1
  <2>2. CASE turn'.pc # "boundary"
    BY <2>2 DEF AtCalls, Asking
  <2> QED BY <2>1, <2>2
<1>7. NoAnswerYet'
  <2> SUFFICES ASSUME turn'.pc \in Asking \cup {"tools", "limit"},
                      NEW k \in DOMAIN disk', EmptyAnswer(k)'
               PROVE  disk'[k].run # turn'.run
    BY DEF NoAnswerYet
  <2>1. turn'.run = runs'
    BY DEF Asking
  <2> QED BY <1>1, <1>5, <2>1
<1>8. AnsweredRunsHaveResults'
  <2> SUFFICES ASSUME NEW c \in PendingTools(disk)', NEW k \in DOMAIN disk', EmptyAnswer(k)'
               PROVE  disk'[k].run # disk'[c[1]].run
    BY DEF AnsweredRunsHaveResults
  <2>1. k \in DOMAIN disk /\ EmptyAnswer(k) /\ disk'[k] = disk[k]
    BY <1>5
  <2>2. CASE c \in PendingTools(disk) /\ disk'[c[1]] = disk[c[1]]
    BY <2>1, <2>2 DEF AnswersInv, AnsweredRunsHaveResults
  <2>3. CASE disk'[c[1]].run = runs'
    BY <1>1, <2>1, <2>3
  <2> QED BY <1>4, <2>2, <2>3
<1> QED BY <1>3, <1>6, <1>7, <1>8 DEF AnswersInv

LEMMA BeginKeeps ==
    ASSUME JournalInv, AnswersInv, StepGoes, NEW i \in Inputs, Begin(i)
    PROVE  AnswersInv'
<1> DEFINE rec == <<Rec("user", runs + 1, i)>>
<1>1. up /\ up' /\ turn.pc = "idle" /\ runs \in Nat /\ runs' = runs + 1 /\ runs + 1 \in Nat
  BY DEF Begin, At, JournalInv, JournalTypes
<1>2. Written(rec, disk)
  BY <1>1, OneWritten
<1>3. \/ Appended(rec) /\ turn' = [Idle EXCEPT !.pc = "boundary", !.run = runs + 1]
      \/ AppendFailed(rec) /\ UNCHANGED turn
  BY DEF Begin
<1>4. \A k \in DOMAIN rec : rec[k].type = "user" /\ rec[k].run = runs'
  BY <1>1 DEF Rec
<1> HIDE DEF rec
<1>5. \A j \in Fresh : disk'[j].type = "user" /\ disk'[j].run = runs'
  <2>1. \A j \in Fresh : \E k \in DOMAIN rec : Matches(disk'[j], rec[k])
    BY <1>1, <1>2, <1>3, AppendedFresh, AppendFailedFresh
  <2> QED BY <1>4, <2>1 DEF Matches
<1>6. turn'.pc \in {"idle", "boundary"} /\ (turn'.pc # "idle" => turn'.run = runs')
  BY <1>1, <1>3 DEF Idle
<1> QED BY <1>1, <1>5, <1>6, NewRunKeeps

LEMMA ShellStartKeeps == JournalInv /\ AnswersInv /\ ShellStart => AnswersInv'
<1> SUFFICES ASSUME JournalInv, AnswersInv, ShellStart PROVE AnswersInv'
  OBVIOUS
<1>1. PICK i \in editor :
        LET recs == <<Rec("user", runs + 1, i), Rec("assistant", runs + 1, <<"bash">>)>>
        IN  \/ Appended(recs) /\ turn' = [Idle EXCEPT !.pc = "ran", !.run = runs + 1, !.at = seq + 2]
            \/ AppendFailed(recs) /\ UNCHANGED turn
  BY DEF ShellStart
<1> DEFINE recs == <<Rec("user", runs + 1, i), Rec("assistant", runs + 1, <<"bash">>)>>
<1>2. up /\ up' /\ turn.pc = "idle" /\ runs' = runs + 1 /\ runs \in Nat /\ StepGoes
  BY ShellStartGoes DEF ShellStart, At, JournalInv, JournalTypes
<1>3. Written(recs, disk)
  BY <1>2, ShellStartWritten DEF JournalInv, JournalTypes
<1>4. \/ Appended(recs) /\ turn' = [Idle EXCEPT !.pc = "ran", !.run = runs + 1, !.at = seq + 2]
      \/ AppendFailed(recs) /\ UNCHANGED turn
  BY <1>1
<1>5. \A k \in DOMAIN recs : recs[k].run = runs' /\ (recs[k].type = "assistant" => recs[k].body # <<>>)
  <2> DEFINE one == Rec("user", runs + 1, i)
             two == Rec("assistant", runs + 1, <<"bash">>)
  <2>1. one.run = runs' /\ one.type = "user"
    BY <1>2 DEF Rec
  <2>2. two.run = runs' /\ two.body = <<"bash">>
    BY <1>2 DEF Rec
  <2>3. <<"bash">> # <<>>
    OBVIOUS
  <2>4. two.body # <<>>
    BY <2>2, <2>3
  <2> HIDE DEF one, two
  <2>5. DOMAIN <<one, two>> = {1, 2} /\ <<one, two>>[1] = one /\ <<one, two>>[2] = two
    OBVIOUS
  <2>6. recs = <<one, two>>
    BY DEF one, two
  <2> HIDE DEF recs
  <2>7. ASSUME NEW k \in DOMAIN recs
        PROVE  recs[k].run = runs' /\ (recs[k].type = "assistant" => recs[k].body # <<>>)
    <3>1. CASE k = 1
      BY <2>1, <2>5, <2>6, <3>1
    <3>2. CASE k = 2
      BY <2>2, <2>4, <2>5, <2>6, <3>2
    <3> QED BY <2>5, <2>6, <3>1, <3>2
  <2> QED BY <2>7
<1> HIDE DEF recs
<1>6. turn'.pc \in {"idle", "ran"} /\ (turn'.pc # "idle" => turn'.run = runs')
  BY <1>2, <1>4 DEF Idle
<1>7. \A j \in Fresh : disk'[j].run = runs' /\ (disk'[j].type = "assistant" => disk'[j].body # <<>>)
  <2>1. \A j \in Fresh : \E k \in DOMAIN recs : Matches(disk'[j], recs[k])
    BY <1>2, <1>3, <1>4, AppendedFresh, AppendFailedFresh
  <2> QED BY <1>5, <2>1 DEF Matches
<1> QED BY <1>2, <1>6, <1>7, NewRunKeeps

(* A response is on disk as a whole or not at all. *)
LEMMA RespondKeeps ==
    ASSUME JournalInv, AnswersInv, NEW calls \in Batches \cup {<<>>}, Respond(calls)
    PROVE  AnswersInv'
<1> USE DEF EmptyAnswer
<1> DEFINE rec == <<Rec("assistant", turn.run, calls)>>
           p == IF calls = <<>> THEN "complete" ELSE IF turn.iter >= MaxIterations THEN "limit" ELSE "tools"
           n == IF calls = <<>> THEN turn.iter ELSE turn.iter + 1
           good == [turn EXCEPT !.pc = p, !.at = seq + 1, !.done = 0, !.iter = n]
<1>1. /\ up /\ up' /\ turn.pc = "request" /\ Record(rec, good) /\ runs' = runs /\ StepGoes /\ Goes
      /\ turn \in TurnRecords /\ turn.run \in Nat /\ turn.run \in 1..runs /\ runs \in Nat
      /\ seq = Len(disk) /\ Len(disk) \in Nat
  <2>1. StepGoes /\ up /\ up' /\ turn.pc = "request" /\ runs' = runs /\ Record(rec, good)
    BY RespondGoes DEF Respond, At
  <2> QED BY <2>1 DEF StepGoes, JournalInv, JournalTypes, WriterKnows, TurnRecords, AnswersInv, RunsCounted
<1>2. Written(rec, disk) /\ Len(rec) = 1 /\ DOMAIN rec = {1} /\ rec[1].type = "assistant"
      /\ rec[1].run = turn.run /\ rec[1].body = calls
  <2>1. calls \in Batches => calls \in Seq(Kinds)
    BY CySessionAssumption DEF CySessionAssumption, Kinds
  <2>2. <<>> \in Seq(Kinds)
    OBVIOUS
  <2>3. calls \in Seq(Kinds)
    BY <2>1, <2>2
  <2>4. Written(rec, disk)
    BY <1>1, <2>3, OneWritten
  <2> QED BY <2>4 DEF Rec
<1>3. /\ good.run = turn.run /\ good.pc = p /\ good.at = Len(disk) + 1 /\ good.done = 0
      /\ p \in {"complete", "tools", "limit"} /\ (p = "complete" <=> calls = <<>>)
  BY <1>1 DEF TurnRecords
<1> HIDE DEF rec, good, p, n
<1>4. ASSUME AppendFailed(rec), turn' = [turn EXCEPT !.pc = "fail"] PROVE AnswersInv'
  <2>1. QuietFresh
    <3>1. \A i \in Fresh : \E k \in 1..(Len(rec) - 1) : k \in DOMAIN rec
      BY <1>1, <1>2, <1>4, AppendFailedFresh
    <3>2. Fresh = {}
      BY <1>2, <3>1
    <3> QED BY <3>2 DEF QuietFresh
  <2>2. turn'.pc = "fail" /\ turn'.run = turn.run
    BY <1>1, <1>4 DEF TurnRecords
  <2>3. TurnAnswers
    BY <2>2 DEF TurnAnswers
  <2> QED BY <1>1, <2>1, <2>2, <2>3, QuietKeeps
<1>5. ASSUME Appended(rec), turn' = good PROVE AnswersInv'
  <2> DEFINE new == Len(disk) + 1
  <2>1. /\ \A i \in DOMAIN disk : i \in DOMAIN disk' /\ disk'[i] = disk[i] /\ disk[i].run <= runs
        /\ new \in DOMAIN disk' /\ disk'[new].type = "assistant" /\ disk'[new].run = turn.run /\ disk'[new].body = calls
        /\ \A i \in DOMAIN disk' : i \in DOMAIN disk \/ i = new
        /\ Fresh \subseteq {new}
    <3>1. Len(disk) + 1 \in DOMAIN disk' /\ Matches(disk'[Len(disk) + 1], rec[1])
      BY <1>1, <1>2, <1>5, AppendedGoes
    <3>2. \A i \in Fresh : \E k \in DOMAIN rec : i = Len(disk) + k
      BY <1>1, <1>2, <1>5, AppendedFresh
    <3>3. Fresh \subseteq {new}
      BY <1>2, <3>2
    <3>4. \A i \in DOMAIN disk' : i \in DOMAIN disk \/ i = new
      BY <3>3 DEF Fresh
    <3> QED BY <1>1, <1>2, <3>1, <3>3, <3>4 DEF Matches, Goes, AnswersInv, RunsCounted
  <2>2. turn'.run = turn.run /\ turn'.at = new /\ turn'.done = 0 /\ turn'.pc \in {"complete", "tools", "limit"}
        /\ (turn'.pc = "complete" <=> calls = <<>>)
    BY <1>3, <1>5
  <2> HIDE DEF new
  <2>3. \A c \in PendingTools(disk)' :
          \/ c \in PendingTools(disk) /\ disk'[c[1]] = disk[c[1]] /\ disk[c[1]].run # turn.run
          \/ c[1] = new /\ c[2] > 0 /\ calls # <<>>
    <3> SUFFICES ASSUME NEW c \in PendingTools(disk)', c[1] \notin DOMAIN disk \/ c \notin PendingTools(disk)
                           \/ disk[c[1]].run = turn.run
                 PROVE  c[1] = new /\ c[2] > 0 /\ calls # <<>>
      BY <2>1
    <3>1. /\ c[1] \in DOMAIN disk' /\ c[2] \in DOMAIN disk'[c[1]].body
          /\ c \in PendingTools(disk) \/ c[1] \in Fresh
      BY <1>1, CallsOnlyAnswered
    <3>2. c \in PendingTools(disk) => c[1] \in DOMAIN disk /\ disk[c[1]].run # turn.run
      <4>1. c \in PendingTools(disk) => c[1] \in DOMAIN disk
        BY PendingAreFinite DEF JournalInv
      <4>2. c \in PendingTools(disk) => disk[c[1]].run # turn.run
        BY <1>1 DEF AnswersInv, CallsBelong, Asking
      <4> QED BY <4>1, <4>2
    <3>3. c[1] = new
      BY <2>1, <3>1, <3>2
    <3>4. c[2] \in DOMAIN calls /\ calls \in Seq(Kinds)
      <4>1. calls \in Seq(Kinds)
        <5>1. BodyFits(disk'[new])
          BY <1>1, <2>1 DEF Goes
        <5> QED BY <2>1, <5>1 DEF BodyFits
      <4> QED BY <2>1, <3>1, <3>3, <4>1
    <3> QED BY <3>3, <3>4
  <2>4. RunsCounted'
    <3>1. \A i \in DOMAIN disk' : disk'[i].run <= runs'
      BY <1>1, <2>1
    <3> QED BY <1>1, <2>2, <3>1 DEF RunsCounted
  <2>5. CallsBelong'
    <3> SUFFICES ASSUME NEW c \in PendingTools(disk)', disk'[c[1]].run = turn'.run
                 PROVE  /\ turn'.pc \notin Asking \cup {"complete"}
                        /\ AtCalls(turn') => c[1] = turn'.at /\ c[2] > turn'.done
      BY DEF CallsBelong, AtCalls
    <3>1. c[1] = new /\ c[2] > 0 /\ calls # <<>>
      BY <2>2, <2>3
    <3> QED BY <2>2, <3>1 DEF Asking
  <2>6. NoAnswerYet'
    <3> SUFFICES ASSUME turn'.pc \in Asking \cup {"tools", "limit"}, NEW k \in DOMAIN disk', EmptyAnswer(k)'
                 PROVE  disk'[k].run # turn'.run
      BY DEF NoAnswerYet
    <3>1. calls # <<>>
      BY <2>2 DEF Asking
    <3>2. k \in DOMAIN disk /\ EmptyAnswer(k) /\ disk'[k] = disk[k]
      BY <2>1, <3>1
    <3> QED BY <1>1, <2>2, <3>2 DEF AnswersInv, NoAnswerYet, Asking
  <2>7. AnsweredRunsHaveResults'
    <3> SUFFICES ASSUME NEW c \in PendingTools(disk)', NEW k \in DOMAIN disk', EmptyAnswer(k)'
                 PROVE  disk'[k].run # disk'[c[1]].run
      BY DEF AnsweredRunsHaveResults
    <3>1. CASE k \in DOMAIN disk
      <4>1. EmptyAnswer(k) /\ disk'[k] = disk[k] /\ disk[k].run # turn.run
        BY <1>1, <2>1, <3>1 DEF AnswersInv, NoAnswerYet, Asking
      <4>2. CASE c \in PendingTools(disk) /\ disk'[c[1]] = disk[c[1]]
        BY <3>1, <4>1, <4>2 DEF AnswersInv, AnsweredRunsHaveResults
      <4>3. CASE c[1] = new
        BY <2>1, <4>1, <4>3
      <4> QED BY <2>3, <4>2, <4>3
    <3>2. CASE k = new
      BY <2>1, <2>3, <3>2
    <3> QED BY <2>1, <3>1, <3>2
  <2> QED BY <2>4, <2>5, <2>6, <2>7 DEF AnswersInv
<1> QED BY <1>1, <1>4, <1>5 DEF Record

LEMMA AnswersInitially == Init => AnswersInv
<1> SUFFICES ASSUME Init PROVE AnswersInv
  OBVIOUS
<1>1. /\ turn.pc = "idle" /\ runs = 0 /\ \A i \in DOMAIN disk : disk[i].type = "started" /\ disk[i].run = 0
  <2> DEFINE first == [Rec("started", 0, 0) EXCEPT !.seq = 1]
  <2>1. first.type = "started" /\ first.run = 0
    BY DEF Rec
  <2>2. disk = <<first>> /\ turn = Idle /\ runs = 0
    BY DEF Init
  <2> HIDE DEF first
  <2>3. \A i \in DOMAIN disk : disk[i] = first
    BY <2>2
  <2> QED BY <2>1, <2>2, <2>3, TurnMoves
<1>2. PendingTools(disk) = {}
  <2>1. \A i \in DOMAIN disk : disk[i].type # "assistant"
    BY <1>1
  <2> QED BY <2>1 DEF PendingTools, Calls
<1>3. AnsweredRunsHaveResults
  BY <1>2 DEF AnsweredRunsHaveResults
<1> QED BY <1>1, <1>2, <1>3 DEF AnswersInv, RunsCounted, CallsBelong, NoAnswerYet, Asking

LEMMA AnswersStep == JournalInv /\ AnswersInv /\ [Next]_vars => AnswersInv'
<1> SUFFICES ASSUME JournalInv, AnswersInv, [Next]_vars PROVE AnswersInv'
  OBVIOUS
<1>1. CASE Submit
  <2>1. PICK i \in editor : Begin(i)
    BY <1>1 DEF Submit
  <2>2. i \in Inputs /\ StepGoes
    BY <1>1, SubmitGoes DEF JournalInv, JournalTypes
  <2> QED BY <2>1, <2>2, BeginKeeps
<1>2. CASE ClaimQueued
  <2>1. queue # <<>> /\ Begin(Head(queue)) /\ queue \in Seq(Inputs) /\ StepGoes
    BY <1>2, ClaimQueuedGoes DEF ClaimQueued, JournalInv, JournalTypes
  <2>2. Head(queue) \in Inputs
    BY <2>1
  <2> QED BY <2>1, <2>2, BeginKeeps
<1>3. CASE QueueInput \/ PopQueued \/ RestoreQueued \/ Cancel \/ JobExits \/ UNCHANGED vars
  BY <1>3, StillKeeps
<1>4. CASE Boundary \/ PrepareContext \/ Recover \/ RequestFails
  BY <1>4, BoundaryKeeps, ContextKeeps
<1>5. CASE \E calls \in Batches \cup {<<>>} : Respond(calls)
  BY <1>5, RespondKeeps
<1>6. CASE ToolLimit \/ ExecuteBatch \/ ExecuteEnds
  BY <1>6, ToolLimitKeeps, ExecuteBatchKeeps, ExecuteEndsKeeps
<1>7. CASE Complete \/ Compact \/ Open \/ ShellStart
  BY <1>7, CompleteKeeps, CompactKeeps, OpenKeeps, ShellStartKeeps
<1>8. CASE FailRun \/ ShellEnd \/ Close \/ Crash
  BY <1>8, EndKeeps
<1> QED BY <1>1, <1>2, <1>3, <1>4, <1>5, <1>6, <1>7, <1>8 DEF Next

(* A run whose final answer is in the journal has a result for every call   *)
(* that it made: neither the tool limit, nor the batches, nor an input that *)
(* joins the turn, nor a crash in the middle leaves a call of it without.   *)
THEOREM FinalAnswersHaveResults == Spec => []AnsweredRunsHaveResults
<1>1. JournalInv /\ AnswersInv => AnsweredRunsHaveResults
  BY DEF AnswersInv
<1> QED BY <1>1, JournalInitially, JournalStep, AnswersInitially, AnswersStep, PTL DEF Spec

-----------------------------------------------------------------------------
(* The pages of a file.                                                     *)

Contents == Seq(Nat)
CallRecords == [at : {"none", "temp", "check", "rename"}, old : Contents, new : Contents]
(* Whatever became of the file, what was shown are the lines ahead of the   *)
(* next; with one digest throughout they are lines of that digest.          *)
ShownAreAhead ==
    /\ pages.next \in Nat \ {0} /\ pages.shown = [i \in 1..pages.next - 1 |-> i]
    /\ pages.digest \in Contents /\ pages.at \in {"none", "more", "done"}
    /\ pages.at = "none" => pages.next = 1
    /\ pages.at = "more" => pages.next <= Len(pages.digest)
    /\ pages.at = "done" /\ pages.one => pages.next = Len(pages.digest) + 1
FileInv ==
    /\ fileLines \in Contents /\ toolCall \in [FileSessions -> CallRecords]
    /\ ShownAreAhead
    /\ ReplacesWhatItSaw

LEMMA LastOf ==
    ASSUME NEW S, NEW top \in Nat, S \subseteq Nat, S # {}, \A m \in S : m <= top
    PROVE  \E m \in S : \A k \in S : k <= m
<1> DEFINE less == {pair \in Nat \X Nat : pair[1] < pair[2]}
           left == {top - m : m \in S}
<1>1. IsWellFoundedOn(less, Nat)
  BY NatLessThanWellFounded DEF OpToRel
<1>2. left \subseteq Nat /\ left # {} /\ \A m \in S : top - m \in left
  <2>1. \A m \in S : top - m \in Nat
    OBVIOUS
  <2>2. \A m \in S : top - m \in left
    OBVIOUS
  <2>3. \A i \in left : \E m \in S : i = top - m
    OBVIOUS
  <2> HIDE DEF left
  <2> QED BY <2>1, <2>2, <2>3
<1>3. \E i \in left : \A j \in left : <<j, i>> \notin less
  <2> HIDE DEF less, left
  <2> QED BY <1>1, <1>2, WFMin
<1>4. \A i, j \in Nat : <<j, i>> \notin less => i <= j
  OBVIOUS
<1> HIDE DEF less
<1>5. \E i \in left : \A j \in left : i <= j
  <2> HIDE DEF left
  <2> QED BY <1>2, <1>3, <1>4
<1>6. PICK m \in S : \A j \in left : top - m <= j
  BY <1>5
<1>7. \A k \in S : top - m <= top - k
  <2> HIDE DEF left
  <2> QED BY <1>2, <1>6
<1> HIDE DEF left
<1>8. \A k \in S : k <= m
  BY <1>7
<1> QED BY <1>8

(* A page holds a line, if there is one, and ends inside the file.          *)
LEMMA PageEnds ==
    ASSUME NEW lines \in Contents, NEW from \in Nat \ {0}
    PROVE  /\ from <= Len(lines) => PageEnd(lines, from) \in from..Len(lines)
           /\ from > Len(lines) => PageEnd(lines, from) = from - 1
<1>1. Len(lines) \in Nat
  BY DEF Contents
<1>2. ASSUME from <= Len(lines) PROVE PageEnd(lines, from) \in from..Len(lines)
  <2> DEFINE n == Len(lines)
             Room(to) == to = from \/ FitsPage(lines, from, to)
             Ends(to) == Room(to) /\ (to = n \/ ~FitsPage(lines, from, to + 1))
             fitting == {to \in from..n : Room(to)}
  <2>1. n \in Nat /\ from <= n /\ PageEnd(lines, from) = CHOOSE to \in from..n : Ends(to)
    BY <1>1, <1>2 DEF PageEnd
  <2>2. fitting \subseteq Nat /\ fitting # {} /\ \A m \in fitting : m <= n
    <3>1. from \in fitting
      <4> HIDE DEF n
      <4> QED BY <2>1
    <3> HIDE DEF n, Room
    <3> QED BY <2>1, <3>1
  <2>3. \E to \in fitting : \A k \in fitting : k <= to
    <3> HIDE DEF n, fitting
    <3> QED BY <2>1, <2>2, LastOf
  <2>4. PICK to \in fitting : \A k \in fitting : k <= to
    BY <2>3
  <2>5. to \in from..n /\ Room(to)
    OBVIOUS
  <2>6. to = n \/ ~FitsPage(lines, from, to + 1)
    <3> SUFFICES ASSUME to # n, FitsPage(lines, from, to + 1) PROVE FALSE
      OBVIOUS
    <3>1. to + 1 \in from..n /\ ~(to + 1 <= to)
      <4> HIDE DEF n, Room
      <4> QED BY <2>1, <2>5
    <3>2. to + 1 \in fitting
      BY <3>1
    <3> HIDE DEF fitting
    <3> QED BY <2>4, <3>1, <3>2
  <2>7. Ends(to)
    BY <2>5, <2>6
  <2> HIDE DEF Ends, Room, fitting, n
  <2>8. PageEnd(lines, from) \in from..n
    BY <2>1, <2>5, <2>7
  <2> QED BY <2>8 DEF n
<1>3. ASSUME from > Len(lines) PROVE PageEnd(lines, from) = from - 1
  BY <1>3 DEF PageEnd
<1> QED BY <1>2, <1>3

Lines(n) == [i \in 1..n |-> i]

LEMMA LinesJoin ==
    ASSUME NEW next \in Nat \ {0}, NEW to \in Nat, next <= to + 1
    PROVE  Lines(next - 1) \o [i \in 1..to + 1 - next |-> next + i - 1] = Lines(to)
<1> DEFINE a == Lines(next - 1)
           b == [i \in 1..to + 1 - next |-> next + i - 1]
           c == Lines(to)
<1>1. /\ a \in Seq(Nat) /\ Len(a) = next - 1 /\ \A i \in 1..next - 1 : a[i] = i
      /\ c \in Seq(Nat) /\ Len(c) = to /\ \A i \in 1..to : c[i] = i
  BY DEF Lines
<1>2. b \in Seq(Nat) /\ Len(b) = to + 1 - next /\ \A i \in 1..to + 1 - next : b[i] = next + i - 1
  OBVIOUS
<1> HIDE DEF a, b, c
<1>3. /\ a \o b \in Seq(Nat) /\ Len(a \o b) = Len(a) + Len(b)
      /\ \A i \in 1..Len(a) + Len(b) : (a \o b)[i] = IF i <= Len(a) THEN a[i] ELSE b[i - Len(a)]
  <2>1. a \in Seq(Nat) /\ b \in Seq(Nat)
    BY <1>1, <1>2
  <2> QED BY <2>1, ConcatProperties, Zenon
<1>4. Len(a \o b) = Len(c)
  <2> DEFINE both == Len(a \o b)
  <2>1. both = Len(a) + Len(b) /\ Len(a) = next - 1 /\ Len(b) = to + 1 - next /\ Len(c) = to
    BY <1>1, <1>2, <1>3
  <2> HIDE DEF both
  <2>2. both = to
    BY <2>1
  <2> QED BY <2>1, <2>2 DEF both
<1>5. ASSUME NEW i \in 1..Len(c) PROVE (a \o b)[i] = c[i]
  <2>1. i \in 1..to /\ c[i] = i /\ i \in 1..Len(a) + Len(b)
    BY <1>1, <1>2
  <2>2. CASE i <= Len(a)
    BY <1>1, <1>3, <2>1, <2>2
  <2>3. CASE i > Len(a)
    <3> DEFINE j == i - Len(a)
    <3>1. j \in 1..to + 1 - next /\ next + j - 1 = i
      BY <1>1, <2>1, <2>3
    <3>2. (a \o b)[i] = b[j]
      BY <1>1, <1>3, <2>1, <2>3
    <3> HIDE DEF j
    <3> QED BY <1>2, <2>1, <3>1, <3>2
  <2> QED BY <1>1, <2>1, <2>2, <2>3
<1>6. a \o b = c
  BY <1>1, <1>3, <1>4, <1>5, SeqEqual
<1> QED BY <1>6 DEF a, b, c

LEMMA ReadPageKeeps == FileInv /\ ReadPage => FileInv'
<1> SUFFICES ASSUME FileInv, ReadPage PROVE FileInv'
  OBVIOUS
<1> DEFINE from == pages.next
           to == PageEnd(fileLines, from)
           n == Len(fileLines)
           next == to + 1
           one == pages.at = "none" \/ (pages.one /\ pages.digest = fileLines)
<1>1. /\ pages.at # "done" /\ UNCHANGED <<fileLines, toolCall, late>>
      /\ pages' = [at |-> IF next <= n THEN "more" ELSE "done", next |-> next,
                   shown |-> pages.shown \o [i \in 1..to + 1 - from |-> from + i - 1],
                   digest |-> fileLines, one |-> one]
  BY DEF ReadPage, Continue
<1>2. /\ fileLines \in Contents /\ n \in Nat /\ from \in Nat \ {0} /\ pages.shown = Lines(from - 1)
  BY DEF FileInv, ShownAreAhead, Contents, Lines
<1>3. from <= n => to \in from..n
  BY <1>2, PageEnds
<1>4. from > n => to = from - 1
  BY <1>2, PageEnds
<1>5. one => from <= n \/ from = 1
  BY <1>1 DEF FileInv, ShownAreAhead
<1> HIDE DEF to, from, n
<1>6. to \in Nat /\ from <= to + 1
  BY <1>2, <1>3, <1>4
<1>7. next \in Nat \ {0} /\ next - 1 = to /\ (one /\ ~(next <= n) => next = n + 1)
  <2> HIDE DEF one
  <2> QED BY <1>2, <1>3, <1>4, <1>5, <1>6
<1>8. pages'.shown = Lines(to)
  <2>1. pages'.shown = Lines(from - 1) \o [i \in 1..to + 1 - from |-> from + i - 1]
    BY <1>1, <1>2
  <2> QED BY <1>2, <1>6, <2>1, LinesJoin
<1> HIDE DEF next, one
<1>9. /\ pages'.at = IF next <= n THEN "more" ELSE "done"
      /\ pages'.next = next /\ pages'.digest = fileLines /\ pages'.one = one
  BY <1>1
<1>10. ShownAreAhead'
  BY <1>2, <1>7, <1>8, <1>9 DEF ShownAreAhead, Lines, n
<1>11. ReplacesWhatItSaw'
  BY <1>1 DEF FileInv, ReplacesWhatItSaw, Renaming
<1> QED BY <1>1, <1>10, <1>11 DEF FileInv

LEMMA ContentsAreSeqs ==
    /\ Missing \in Contents /\ Seq(LineSizes) \subseteq Contents
    /\ FirstContents \subseteq Contents /\ NewContents \subseteq Contents
<1>1. LineSizes \subseteq Nat /\ FirstContents \cup NewContents \subseteq Seq(LineSizes)
  BY FileAssumption
<1>2. Missing \in Contents
  BY DEF Missing, Contents
<1>3. ASSUME NEW s \in Seq(LineSizes) PROVE s \in Seq(Nat)
  <2>1. Len(s) \in Nat /\ s = [i \in 1..Len(s) |-> s[i]] /\ \A i \in 1..Len(s) : s[i] \in Nat
    BY <1>1
  <2> QED BY <2>1
<1> QED BY <1>1, <1>2, <1>3 DEF Contents

LEMMA FileInitial == FileInit => FileInv
<1> SUFFICES ASSUME FileInit PROVE FileInv
  OBVIOUS
<1>1. Missing \in Contents /\ FirstContents \subseteq Contents
  BY ContentsAreSeqs
<1>2. fileLines \in Contents /\ toolCall \in [FileSessions -> CallRecords]
  BY <1>1 DEF FileInit, NoCall, CallRecords
<1>3. ShownAreAhead
  BY <1>1 DEF FileInit, NoPages, ShownAreAhead
<1>4. ReplacesWhatItSaw
  BY DEF FileInit, NoCall, ReplacesWhatItSaw, Renaming
<1> QED BY <1>2, <1>3, <1>4 DEF FileInv

LEMMA EditKeeps ==
    ASSUME FileInv, NEW s \in FileSessions, NEW line \in LineSizes, NEW new \in LineSizes, Edit(s, line, new)
    PROVE  FileInv'
<1> DEFINE edited == [i \in DOMAIN fileLines |-> IF fileLines[i] = line THEN new ELSE fileLines[i]]
<1>1. fileLines \in Contents /\ new \in Nat
  BY FileAssumption DEF FileInv
<1>2. edited \in Contents
  BY <1>1 DEF Contents
<1>3. /\ toolCall' = [toolCall EXCEPT ![s] = [at |-> "temp", old |-> fileLines, new |-> edited]]
      /\ UNCHANGED <<fileLines, pages, late>>
  BY DEF Edit
<1> HIDE DEF edited
<1>4. toolCall' \in [FileSessions -> CallRecords]
  BY <1>1, <1>2, <1>3 DEF FileInv, CallRecords
<1>5. ReplacesWhatItSaw'
  BY <1>3 DEF FileInv, ReplacesWhatItSaw, Renaming
<1> QED BY <1>3, <1>4, <1>5 DEF FileInv, ShownAreAhead

LEMMA FileStep == FileInv /\ [FileNext]_fileVars => FileInv'
<1> SUFFICES ASSUME FileInv, [FileNext]_fileVars PROVE FileInv'
  OBVIOUS
<1> USE DEF FileInv
<1>0. /\ Missing \in Contents /\ NewContents \subseteq Contents /\ NoCall \in CallRecords
      /\ \A s \in FileSessions : toolCall[s] \in CallRecords
  BY ContentsAreSeqs DEF NoCall, CallRecords
<1>1. CASE ReadPage
  BY <1>1, ReadPageKeeps
<1>2. CASE ReadAgain
  <2>1. ShownAreAhead'
    BY <1>0, <1>2 DEF ReadAgain, NoPages, ShownAreAhead
  <2>2. ReplacesWhatItSaw'
    BY <1>2 DEF ReadAgain, ReplacesWhatItSaw, Renaming
  <2> QED BY <1>2, <2>1, <2>2 DEF ReadAgain
<1>3. ASSUME NEW content \in {Missing} \cup NewContents, Save(content) PROVE FileInv'
  <2>1. ReplacesWhatItSaw'
    BY <1>3 DEF Save, ReplacesWhatItSaw, Renaming
  <2> QED BY <1>0, <1>3, <2>1 DEF Save, ShownAreAhead
<1>4. ASSUME NEW s \in FileSessions, WriteTemp(s) \/ CheckUnchanged(s) \/ Rename(s) \/ ToolFails(s)
      PROVE  FileInv'
  <2>1. UNCHANGED pages /\ toolCall' \in [FileSessions -> CallRecords]
    BY <1>0, <1>4 DEF WriteTemp, CheckUnchanged, Rename, ToolFails, CallRecords
  <2>2. fileLines' \in Contents
    BY <1>0, <1>4 DEF WriteTemp, CheckUnchanged, Rename, ToolFails, CallRecords
  <2>3. ReplacesWhatItSaw'
    <3>1. CASE WriteTemp(s)
      BY <3>1 DEF WriteTemp, ReplacesWhatItSaw, Renaming
    <3>2. CASE CheckUnchanged(s)
      <4>1. ASSUME NEW k \in Renaming' \ late' PROVE fileLines' = toolCall'[k].old
        <5>1. UNCHANGED fileLines /\ late' = late \ {s} /\ toolCall'[k].at = "rename"
          BY <3>2 DEF CheckUnchanged, Renaming
        <5>2. CASE k = s
          <6>1. fileLines = toolCall[s].old
            BY <3>2, <5>1, <5>2 DEF CheckUnchanged, NoCall, Renaming
          <6>2. toolCall' = [toolCall EXCEPT ![s].at = "rename"]
            BY <3>2, <6>1 DEF CheckUnchanged
          <6> QED BY <5>1, <5>2, <6>1, <6>2
        <5>3. CASE k # s
          <6>1. toolCall'[k] = toolCall[k]
            BY <3>2, <5>3 DEF CheckUnchanged, Renaming
          <6> QED BY <4>1, <5>1, <5>3, <6>1 DEF ReplacesWhatItSaw, Renaming
        <5> QED BY <5>2, <5>3
      <4> QED BY <4>1 DEF ReplacesWhatItSaw
    <3>3. CASE Rename(s)
      BY <3>3 DEF Rename, ReplacesWhatItSaw, Renaming, NoCall
    <3>4. CASE ToolFails(s)
      BY <3>4 DEF ToolFails, ReplacesWhatItSaw, Renaming, NoCall
    <3> QED BY <1>4, <3>1, <3>2, <3>3, <3>4
  <2> QED BY <2>1, <2>2, <2>3 DEF ShownAreAhead
<1>5. ASSUME NEW s \in FileSessions, NEW line \in LineSizes, NEW new \in LineSizes, Edit(s, line, new)
      PROVE  FileInv'
  BY <1>5, EditKeeps
<1>6. ASSUME NEW s \in FileSessions, NEW content \in NewContents, NEW expected, Write(s, content, expected)
      PROVE  FileInv'
  <2>1. toolCall' \in [FileSessions -> CallRecords] /\ UNCHANGED <<fileLines, pages>>
    BY <1>0, <1>6 DEF Write, CallRecords
  <2>2. ReplacesWhatItSaw'
    BY <1>6 DEF Write, ReplacesWhatItSaw, Renaming
  <2> QED BY <2>1, <2>2 DEF ShownAreAhead
<1>7. CASE UNCHANGED fileVars
  BY <1>7 DEF fileVars, ShownAreAhead, ReplacesWhatItSaw, Renaming
<1> QED BY <1>1, <1>2, <1>3, <1>4, <1>5, <1>6, <1>7 DEF FileNext

(* For any contents, limits and sessions: a reader that follows the         *)
(* continuations and meets one digest throughout is shown every line of     *)
(* that file once and in order, whatever is written meanwhile, and an edit  *)
(* or write that has compared the file replaces what it looked at, unless a *)
(* change came after the comparison (files.go).                             *)
THEOREM FileSeenAsItIs == FileSpec => []FileIsAsSeen
<1>1. FileInv => FileIsAsSeen
  BY DEF FileInv, ShownAreAhead, FileIsAsSeen, PagesAreTheFile, Contents
<1> QED BY <1>1, FileInitial, FileStep, PTL DEF FileSpec
=============================================================================

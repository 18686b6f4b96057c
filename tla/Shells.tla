------------------------------- MODULE Shells -------------------------------
(***************************************************************************)
(* Caliban's managed background processes                                  *)
(* (caliban/internal/tools/background.go): a row, a log file and an entry  *)
(* in the live map per task; waitShell settles the row; task_output reads  *)
(* from the stored offset and moves it; task_stop kills; the host stops    *)
(* all, exits or crashes, and marks what was running as lost when it is    *)
(* started again.                                                          *)
(***************************************************************************)
EXTENDS Naturals, FiniteSets

CONSTANTS Shells,        \* task ids
          Readers,       \* tool calls in progress: task_output and task_stop
          MaxLog,        \* bound: chunks a process writes to its log
          MaxBytes,      \* chunks one read returns at most
          MaxHostFaults  \* bound: failed statements and crashes

ASSUME ShellsAssumption == {MaxLog, MaxBytes, MaxHostFaults} \subseteq Nat

VARIABLES
    shell,    \* per task: the process, its entry, its row and its log
    reader,   \* per call: where it is and what it has loaded
    host,     \* "up", "stopping" (StopAll) or "down"
    hostFaults

shellVars == <<shell, reader, host, hostFaults>>

NoShell == [pc |-> "none", alive |-> FALSE, killed |-> FALSE, reason |-> FALSE, late |-> FALSE,
            live |-> FALSE, done |-> FALSE, row |-> "none", log |-> 0, offset |-> 0,
            shown |-> {}, unsettled |-> FALSE]
NoReader == [pc |-> "idle", id |-> "none", stop |-> FALSE, over |-> FALSE, row |-> "none",
             from |-> 0, to |-> 0]

ShellTo(t, r)   == shell' = [shell EXCEPT ![t] = r]
ReaderTo(c, r)  == reader' = [reader EXCEPT ![c] = r]
StoreFails      == hostFaults < MaxHostFaults /\ hostFaults' = hostFaults + 1
HostRuns        == host # "down"
Killed(s)       == [s EXCEPT !.reason = TRUE, !.killed = TRUE]   \* setStopReason and killGroup

ShellsInit == /\ shell = [t \in Shells |-> NoShell] /\ reader = [c \in Readers |-> NoReader]
              /\ host = "up" /\ hostFaults = 0

----------------------------------------------------------------------------
\* startProcess: the process, its row, its entry

StartShell(t) == /\ HostRuns /\ shell[t].pc = "none"
                 /\ ShellTo(t, [shell[t] EXCEPT !.pc = "started", !.alive = TRUE])
                 /\ UNCHANGED <<reader, host, hostFaults>>

RecordShell(t) ==
    /\ HostRuns /\ shell[t].pc = "started"
    /\ \/ ShellTo(t, [shell[t] EXCEPT !.pc = "recorded", !.row = "running"]) /\ UNCHANGED hostFaults
       \/ /\ StoreFails
          /\ ShellTo(t, [shell[t] EXCEPT !.pc = "over", !.killed = TRUE, !.alive = FALSE])
    /\ UNCHANGED <<reader, host>>

PutLive(t) == /\ HostRuns /\ shell[t].pc = "recorded"
              /\ ShellTo(t, [shell[t] EXCEPT !.pc = "waiting", !.live = TRUE])
              /\ UNCHANGED <<reader, host, hostFaults>>

----------------------------------------------------------------------------
\* the process, and waitShell

WriteLog(t) == /\ shell[t].alive /\ ~shell[t].killed /\ shell[t].log < MaxLog
               /\ ShellTo(t, [shell[t] EXCEPT !.log = @ + 1]) /\ UNCHANGED <<reader, host, hostFaults>>

ShellExits(t) == /\ shell[t].alive
                 /\ ShellTo(t, [shell[t] EXCEPT !.alive = FALSE]) /\ UNCHANGED <<reader, host, hostFaults>>

ShellTimesOut(t) == /\ HostRuns /\ shell[t].pc = "waiting" /\ shell[t].alive /\ ~shell[t].late
                    /\ ShellTo(t, [Killed(shell[t]) EXCEPT !.late = TRUE])
                    /\ UNCHANGED <<reader, host, hostFaults>>

Verdicts(s) == IF s.late THEN {"timed_out"} ELSE IF s.reason THEN {"killed"}
               ELSE {"exited"}  \* completed or failed

\* the UPDATE, whose error nobody looks at
Settle(t) ==
    /\ HostRuns /\ shell[t].pc = "waiting" /\ ~shell[t].alive
    /\ \/ /\ \E v \in Verdicts(shell[t]) : ShellTo(t, [shell[t] EXCEPT !.pc = "settled", !.row = v])
          /\ UNCHANGED hostFaults
       \/ StoreFails /\ ShellTo(t, [shell[t] EXCEPT !.pc = "settled", !.unsettled = TRUE])
    /\ UNCHANGED <<reader, host>>

RemoveLive(t) == /\ HostRuns /\ shell[t].pc = "settled"
                 /\ ShellTo(t, [shell[t] EXCEPT !.pc = "removed", !.live = FALSE])
                 /\ UNCHANGED <<reader, host, hostFaults>>

CloseDone(t) == /\ HostRuns /\ shell[t].pc = "removed"
                /\ ShellTo(t, [shell[t] EXCEPT !.pc = "over", !.done = TRUE])
                /\ UNCHANGED <<reader, host, hostFaults>>

----------------------------------------------------------------------------
\* task_output and task_stop: find the entry, wait on done, load the row

\* a process that is not in the map is one that is over, for a call with its id
CallTask(c, t) ==
    /\ HostRuns /\ reader[c].pc = "idle" /\ shell[t].row # "none"
    /\ \E stop, block \in BOOLEAN :
         /\ ReaderTo(c, [NoReader EXCEPT !.id = t, !.stop = stop,
                          !.pc = IF shell[t].live /\ (block \/ stop) THEN "wait" ELSE "load",
                          !.over = ~shell[t].live /\ shell[t].pc # "recorded"])
         /\ IF stop /\ shell[t].live THEN ShellTo(t, Killed(shell[t])) ELSE UNCHANGED shell
    /\ UNCHANGED <<host, hostFaults>>

\* done is closed, or the timer fires, or the call is cancelled
AwaitDone(c) ==
    /\ HostRuns /\ reader[c].pc = "wait"
    /\ \/ shell[reader[c].id].done /\ ReaderTo(c, [reader[c] EXCEPT !.pc = "load", !.over = TRUE])
       \/ ReaderTo(c, [reader[c] EXCEPT !.pc = "load"])
       \/ ReaderTo(c, NoReader)
    /\ UNCHANGED <<shell, host, hostFaults>>

LoadTask(c) ==
    /\ HostRuns /\ reader[c].pc = "load"
    /\ \/ /\ ReaderTo(c, [reader[c] EXCEPT !.pc = IF reader[c].stop THEN "answer" ELSE "read",
                           !.row = shell[reader[c].id].row, !.from = shell[reader[c].id].offset])
          /\ UNCHANGED hostFaults
       \/ StoreFails /\ ReaderTo(c, NoReader)
    /\ UNCHANGED <<shell, host>>

\* Mutant: the offset goes to the end of the file, past what the cap cut off
ReadFileToEnd(c) ==
    /\ HostRuns /\ reader[c].pc = "read"
    /\ ReaderTo(c, [reader[c] EXCEPT !.pc = "advance", !.to = shell[reader[c].id].log])
    /\ UNCHANGED <<shell, host, hostFaults>>

\* readTaskFile: at most MaxBytes from the loaded offset
ReadFile(c) ==
    LET log == shell[reader[c].id].log
        end == reader[c].from + MaxBytes
    IN  /\ HostRuns /\ reader[c].pc = "read"
        /\ ReaderTo(c, [reader[c] EXCEPT !.pc = "advance", !.to = IF end < log THEN end ELSE log])
        /\ UNCHANGED <<shell, host, hostFaults>>

Returned(c) == (reader[c].from + 1) .. (IF reader[c].to < reader[c].from + MaxBytes
                                        THEN reader[c].to ELSE reader[c].from + MaxBytes)

\* the answer shows the chunks only if the new offset could be stored
Advance(c) ==
    LET t == reader[c].id IN
    /\ HostRuns /\ reader[c].pc = "advance"
    /\ \/ /\ ShellTo(t, [shell[t] EXCEPT !.offset = reader[c].to, !.shown = @ \cup Returned(c)])
          /\ ReaderTo(c, [reader[c] EXCEPT !.pc = "answer", !.from = 0, !.to = 0]) /\ UNCHANGED hostFaults
       \/ StoreFails /\ ReaderTo(c, NoReader) /\ UNCHANGED shell
    /\ UNCHANGED host

AnswerCall(c) == /\ HostRuns /\ reader[c].pc = "answer"
                 /\ ReaderTo(c, NoReader) /\ UNCHANGED <<shell, host, hostFaults>>

----------------------------------------------------------------------------
\* the host: StopAll kills what is in the map when the context ends

StopAll == /\ host = "up" /\ host' = "stopping"
           /\ shell' = [t \in Shells |-> IF shell[t].live THEN Killed(shell[t]) ELSE shell[t]]
           /\ UNCHANGED <<reader, hostFaults>>

\* g.Wait returns, at the latest after five seconds, or the host crashes
HostEnds == /\ \/ host = "stopping" /\ UNCHANGED hostFaults
               \/ host = "up" /\ StoreFails
            /\ host' = "down" /\ reader' = [c \in Readers |-> NoReader]
            /\ shell' = [t \in Shells |-> [shell[t] EXCEPT !.live = FALSE,
                           !.pc = IF shell[t].pc = "none" THEN "none" ELSE "over"]]

\* ReconcileStartup; processes that are still alive are nobody's
HostStarts == /\ host = "down" /\ host' = "up"
              /\ shell' = [t \in Shells |-> IF shell[t].row = "running"
                                            THEN [shell[t] EXCEPT !.row = "lost"] ELSE shell[t]]
              /\ UNCHANGED <<reader, hostFaults>>

ShellsNext ==
    \/ \E t \in Shells :
         \/ StartShell(t) \/ RecordShell(t) \/ PutLive(t) \/ WriteLog(t) \/ ShellExits(t)
         \/ ShellTimesOut(t) \/ Settle(t) \/ RemoveLive(t) \/ CloseDone(t)
         \/ \E c \in Readers : CallTask(c, t)
    \/ \E c \in Readers : AwaitDone(c) \/ LoadTask(c) \/ ReadFile(c) \/ Advance(c) \/ AnswerCall(c)
    \/ StopAll \/ HostEnds \/ HostStarts

ShellsSpec == ShellsInit /\ [][ShellsNext]_shellVars

----------------------------------------------------------------------------

ShellPhases == {"none", "started", "recorded", "waiting", "settled", "removed", "over"}
ReaderPhases == {"idle", "wait", "load", "read", "advance", "answer"}
RowStates == {"none", "running", "exited", "killed", "timed_out", "lost"}
Flags == BOOLEAN
ShellRecords == [pc : ShellPhases, alive : Flags, killed : Flags, reason : Flags, late : Flags,
                 live : Flags, done : Flags, row : RowStates, log : Nat, offset : Nat,
                 shown : SUBSET Nat, unsettled : Flags]
ReaderRecords == [pc : ReaderPhases, id : Shells \cup {"none"}, stop : Flags, over : Flags,
                  row : RowStates, from : Nat, to : Nat]

(* Logs stay within their bound; a call that is busy names a shell.         *)
ShellsTypeOK ==
    /\ shell \in [Shells -> ShellRecords] /\ \A t \in Shells : shell[t].log <= MaxLog
    /\ reader \in [Readers -> ReaderRecords] /\ \A c \in Readers : reader[c].pc = "idle" \/ reader[c].id \in Shells
    /\ host \in {"up", "stopping", "down"} /\ hostFaults \in 0..MaxHostFaults

(* Calls that read the same task at the same time may be shown the same output
   and move the offset back, but what lies before the stored offset was shown to
   some call: no output is skipped, whatever fails in between. *)
NothingSkipped == \A t \in Shells : 1 .. shell[t].offset \subseteq shell[t].shown

(* A call that has seen the process's end answers with how it ended: the row is
   settled before the entry leaves the map and before done is closed.  Only a
   row whose update failed still says running. *)
EndIsStored ==
    \A c \in Readers : reader[c].pc \in {"read", "advance", "answer"} /\ reader[c].over =>
        reader[c].row # "running" \/ shell[reader[c].id].unsettled
=============================================================================

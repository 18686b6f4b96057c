----------------------------- MODULE CyTerminal -----------------------------
(***************************************************************************)
(* Cy's terminal and the runtime under it: the event loop                  *)
(* (cy/internal/ui), the goroutine of a turn and that of a maintenance     *)
(* operation (shell, compaction, model or sandbox switch), the RWMutex of  *)
(* the session agent (cy/session_agent.go) they meet on, the channel a     *)
(* turn's events go through, and a second cy process on the same session   *)
(* directories.  What a turn writes is in CySession.                       *)
(***************************************************************************)
EXTENDS Naturals, FiniteSets

CONSTANTS
    Sessions,      \* ids of session directories
    Models,        \* model URIs
    NoSession,     \* no session
    MaxCommands,   \* bound: turns, commands and queued inputs of the user
    EventsCap      \* capacity of the turn's event channel

ASSUME CyTerminalAssumption ==
    NoSession \notin Sessions /\ MaxCommands \in Nat /\ EventsCap \in Nat \ {0}

VARIABLES
    dirs,     \* per session: directory there, holder of its lock, user turns, model
    other,    \* the other process: its session and whether it is about to prune it
    agent,    \* sessionAgent: session, model, sandbox; its processes' policy and generation
    ui,       \* the event loop: mode, turn in progress, maintenance, resume message
    loop,     \* the agent call the event loop is inside of
    uiTurn,   \* the goroutine of the turn
    op,       \* the goroutine of the maintenance operation
    events,   \* messages in the turn's channel
    queued,   \* inputs in the engine's queue
    count     \* commands so far

tvars == <<dirs, other, agent, ui, loop, uiTurn, op, events, queued, count>>
goroutines == <<uiTurn, op, events>>

Absent == [there |-> FALSE, lock |-> "free", turns |-> 0, model |-> ""]
NoLoop == [pc |-> "idle", target |-> NoSession, model |-> "", sandbox |-> ""]
NoTurn == [pc |-> "idle", cancelled |-> FALSE, session |-> NoSession]
NoOp   == [pc |-> "idle", arg |-> "", gen |-> 0]

\* the event loop takes its next message; it does so for a key when nothing keeps it
Free == loop.pc = "idle" /\ ui.mode # "gone"
AtPrompt == Free /\ ui.mode = "edit" /\ ~ui.working /\ ui.busy = ""

\* the RWMutex: who reads for long; a writer that waits keeps new readers out
TurnReads == uiTurn.pc \in {"run", "emit"}
OpReads   == op.pc = "run"
CanRead   == ~(uiTurn.pc = "status" \/ op.pc = "write" \/ loop.pc \in {"install", "close"})
CanWrite  == ~TurnReads /\ ~OpReads

Command == count < MaxCommands /\ count' = count + 1

TerminalInit ==
    \E s \in Sessions, m \in Models :
        /\ dirs \in [Sessions -> {Absent} \cup
                       [there : {TRUE}, lock : {"free"}, turns : {0, 1}, model : Models]
                       \cup {[there |-> TRUE, lock |-> "me", turns |-> 0, model |-> m]}]
        /\ \A x \in Sessions : dirs[x].lock = "me" <=> x = s
        /\ agent = [session |-> s, model |-> m, sandbox |-> "off", policy |-> "off", gen |-> 0]
        /\ other = [session |-> NoSession, prune |-> FALSE]
        /\ ui = [mode |-> "edit", working |-> FALSE, busy |-> "", resume |-> NoSession]
        /\ loop = NoLoop /\ uiTurn = NoTurn /\ op = NoOp
        /\ events = 0 /\ queued = 0 /\ count = 0

----------------------------------------------------------------------------
\* Keys

StartTurn(claimed) ==
    /\ ui' = [ui EXCEPT !.working = TRUE]
    /\ uiTurn' = [NoTurn EXCEPT !.pc = "start"] /\ events' = 0
    /\ queued' = queued - claimed

SubmitInput == AtPrompt /\ Command /\ StartTurn(0) /\ UNCHANGED <<dirs, other, agent, loop, op>>

TypeAhead == /\ Free /\ ui.working /\ CanRead /\ Command /\ queued' = queued + 1
              /\ UNCHANGED <<dirs, other, agent, ui, loop, goroutines>>

\* Ctrl-C cancels; Escape also takes every queued input back
CancelTurn == /\ Free /\ ui.working
              /\ uiTurn' = [uiTurn EXCEPT !.cancelled = TRUE]
              /\ queued' \in IF CanRead THEN {queued, 0} ELSE {queued}
              /\ UNCHANGED <<dirs, other, agent, ui, loop, op, events, count>>

\* Alt-Up
RestoreLatest == /\ Free /\ ui.working /\ CanRead /\ queued > 0 /\ queued' = queued - 1
                 /\ UNCHANGED <<dirs, other, agent, ui, loop, goroutines, count>>

\* /clear and /exit call the agent in the event loop; /resume sends a message first
Clear == /\ AtPrompt /\ Command /\ loop' = [NoLoop EXCEPT !.pc = "snapshot"]
         /\ UNCHANGED <<dirs, other, agent, ui, goroutines, queued>>

OpenPicker == /\ AtPrompt /\ Command /\ ui' = [ui EXCEPT !.mode = "picker"]
              /\ UNCHANGED <<dirs, other, agent, loop, goroutines, queued>>

ClosePicker == /\ Free /\ ui.mode = "picker"
               /\ ui' \in {[ui EXCEPT !.mode = "edit"]} \cup
                     {[ui EXCEPT !.mode = "edit", !.resume = s] : s \in Sessions \ {agent.session}}
               /\ UNCHANGED <<dirs, other, agent, loop, goroutines, queued, count>>

StartMaintenance(kind, arg) ==
    /\ AtPrompt /\ Command
    /\ ui' = [ui EXCEPT !.busy = kind]
    /\ op' = [NoOp EXCEPT !.pc = "start", !.arg = arg]
    /\ UNCHANGED <<dirs, other, agent, loop, uiTurn, events, queued>>

Exit == /\ AtPrompt /\ ui' = [ui EXCEPT !.mode = "gone"] /\ loop' = [NoLoop EXCEPT !.pc = "close"]
        /\ UNCHANGED <<dirs, other, agent, goroutines, queued, count>>

----------------------------------------------------------------------------
\* Messages

\* resumeSessionMsg is handled whatever has been started since it was sent
ResumeArrives == /\ Free /\ ui.resume # NoSession
                 /\ loop' = [NoLoop EXCEPT !.pc = "snapshot", !.target = ui.resume]
                 /\ ui' = [ui EXCEPT !.resume = NoSession]
                 /\ UNCHANGED <<dirs, other, agent, goroutines, queued, count>>

TakeEvent == /\ Free /\ events > (IF uiTurn.pc = "sent" THEN 1 ELSE 0) /\ events' = events - 1
             /\ UNCHANGED <<dirs, other, agent, ui, loop, uiTurn, op, queued, count>>

\* agentDoneMsg: the oldest input that no boundary took starts the next turn
TurnDone ==
    /\ Free /\ uiTurn.pc = "sent" /\ events = 1 /\ CanRead
    /\ \/ queued > 0 /\ StartTurn(1)
       \/ /\ queued = 0 /\ uiTurn' = NoTurn /\ events' = 0 /\ UNCHANGED queued
          /\ ui' = [ui EXCEPT !.working = FALSE]
    /\ UNCHANGED <<dirs, other, agent, loop, op, count>>

MaintenanceDone == /\ Free /\ op.pc = "done" /\ op' = NoOp /\ ui' = [ui EXCEPT !.busy = ""]
                   /\ UNCHANGED <<dirs, other, agent, loop, uiTurn, events, queued, count>>

----------------------------------------------------------------------------
\* The turn's goroutine: Stream under the read lock, its events, its status

TurnStarts ==
    /\ uiTurn.pc = "start" /\ CanRead
    /\ \/ /\ uiTurn' = [uiTurn EXCEPT !.pc = "run", !.session = agent.session]
          /\ dirs' = [dirs EXCEPT ![agent.session].turns = 1]
       \/ uiTurn' = [uiTurn EXCEPT !.pc = "send"] /\ UNCHANGED dirs   \* no credential
    /\ UNCHANGED <<other, agent, ui, loop, op, events, queued, count>>

\* emit waits for room unless the turn is cancelled
TurnEmits == /\ uiTurn.pc = "run" /\ uiTurn' = [uiTurn EXCEPT !.pc = "emit"]
             /\ UNCHANGED <<dirs, other, agent, ui, loop, op, events, queued, count>>

Emitted == /\ uiTurn.pc = "emit" /\ uiTurn' = [uiTurn EXCEPT !.pc = "run"]
           /\ \/ events < EventsCap /\ events' = events + 1
              \/ uiTurn.cancelled /\ UNCHANGED events
           /\ UNCHANGED <<dirs, other, agent, ui, loop, op, queued, count>>

\* a model boundary takes the whole queue, and the turn ends at some time
ModelBoundary == /\ uiTurn.pc = "run" /\ queued' = 0
            /\ UNCHANGED <<dirs, other, agent, ui, loop, goroutines, count>>

TurnEnds == /\ uiTurn.pc = "run" /\ uiTurn' = [uiTurn EXCEPT !.pc = "status"]
            /\ UNCHANGED <<dirs, other, agent, ui, loop, op, events, queued, count>>

TurnStatus == /\ uiTurn.pc = "status" /\ CanWrite /\ uiTurn' = [uiTurn EXCEPT !.pc = "send"]
              /\ UNCHANGED <<dirs, other, agent, ui, loop, op, events, queued, count>>

SendDone == /\ uiTurn.pc = "send" /\ events < EventsCap /\ events' = events + 1
            /\ uiTurn' = [uiTurn EXCEPT !.pc = "sent"]
            /\ UNCHANGED <<dirs, other, agent, ui, loop, op, queued, count>>

----------------------------------------------------------------------------
\* The goroutine of a maintenance operation

\* a shell command or a compaction holds the read lock until it ends, a switch
\* reads what it starts from and prepares without the lock
OpStarts ==
    /\ op.pc = "start" /\ CanRead
    /\ \/ /\ ui.busy \in {"shell", "compact"}
          /\ op' = [op EXCEPT !.pc = "run"]
          /\ dirs' = IF ui.busy = "shell" THEN [dirs EXCEPT ![agent.session].turns = 1] ELSE dirs
       \/ /\ ui.busy \in {"model", "sandbox"} /\ UNCHANGED dirs
          /\ op' = [op EXCEPT !.pc = "prepare", !.gen = agent.gen]
       \/ op' = [op EXCEPT !.pc = "done"] /\ UNCHANGED dirs
    /\ UNCHANGED <<other, agent, ui, loop, uiTurn, events, queued, count>>

OpEnds == /\ op.pc \in {"run", "prepare"}
          /\ op' \in {[op EXCEPT !.pc = "write"], [op EXCEPT !.pc = "done"]}
          /\ UNCHANGED <<dirs, other, agent, ui, loop, uiTurn, events, queued, count>>

\* Mutant: the processes are not compared with those the switch started from
SwitchSandboxUnchecked ==
    /\ agent' = [agent EXCEPT !.sandbox = op.arg,
                              !.policy = IF agent.gen = op.gen THEN op.arg ELSE @]
    /\ UNCHANGED dirs

SwitchSandbox ==
    /\ agent' = IF agent.gen = op.gen
                THEN [agent EXCEPT !.sandbox = op.arg, !.policy = op.arg] ELSE agent
    /\ UNCHANGED dirs

\* the journal that is open now gets the record, then the engine the model
SwitchModel == \/ /\ dirs' = [dirs EXCEPT ![agent.session].model = op.arg]
                  /\ agent' = [agent EXCEPT !.model = op.arg]
               \/ UNCHANGED <<dirs, agent>>

OpWrites == /\ op.pc = "write" /\ CanWrite /\ op' = [op EXCEPT !.pc = "done"]
            /\ CASE ui.busy = "model" -> SwitchModel
                 [] ui.busy = "sandbox" -> SwitchSandbox
                 [] OTHER -> UNCHANGED <<dirs, agent>>
            /\ UNCHANGED <<other, ui, loop, uiTurn, events, queued, count>>

----------------------------------------------------------------------------
\* The agent calls of the event loop: ClearSession, ResumeSession, Close

Snapshot == /\ loop.pc = "snapshot" /\ CanRead
            /\ loop' = [loop EXCEPT !.pc = "open", !.model = agent.model, !.sandbox = agent.sandbox]
            /\ UNCHANGED <<dirs, other, agent, ui, goroutines, queued, count>>

\* a new directory, or the target when nobody holds it, with the model of its journal
OpenJournal ==
    /\ loop.pc = "open"
    /\ \/ \E s \in Sessions :
            /\ ~dirs[s].there /\ loop.target = NoSession
            /\ dirs' = [dirs EXCEPT ![s] = [there |-> TRUE, lock |-> "me", turns |-> 0, model |-> loop.model]]
            /\ loop' = [loop EXCEPT !.pc = "install", !.target = s]
       \/ /\ loop.target # NoSession /\ dirs[loop.target].there /\ dirs[loop.target].lock = "free"
          /\ dirs' = [dirs EXCEPT ![loop.target].lock = "me"]
          /\ loop' = [loop EXCEPT !.pc = "install", !.model = dirs[loop.target].model]
       \/ loop' = NoLoop /\ UNCHANGED dirs
    /\ UNCHANGED <<other, agent, ui, goroutines, queued, count>>

\* install replaces the engine with its queue; the old session is closed after the unlock
Install ==
    /\ loop.pc = "install" /\ CanWrite
    /\ agent' = [session |-> loop.target, model |-> loop.model,
                 sandbox |-> loop.sandbox, policy |-> loop.sandbox, gen |-> agent.gen + 1]
    /\ loop' = [NoLoop EXCEPT !.pc = "release", !.target = agent.session]
    /\ queued' = 0
    /\ UNCHANGED <<dirs, other, ui, goroutines, count>>

CloseAgent == /\ loop.pc = "close" /\ CanWrite
              /\ loop' = [NoLoop EXCEPT !.pc = "release", !.target = agent.session]
              /\ agent' = [agent EXCEPT !.session = NoSession]
              /\ UNCHANGED <<dirs, other, ui, goroutines, queued, count>>

\* ClosePruningEmpty: the lock is released, then an empty session is removed
Release == /\ loop.pc = "release"
           /\ dirs' = IF dirs[loop.target].lock = "me"
                      THEN [dirs EXCEPT ![loop.target].lock = "free"] ELSE dirs
           /\ loop' = IF dirs[loop.target].turns = 0 THEN [loop EXCEPT !.pc = "prune"] ELSE NoLoop
           /\ UNCHANGED <<other, agent, ui, goroutines, queued, count>>

Prune == /\ loop.pc = "prune" /\ loop' = NoLoop
         /\ dirs' = [dirs EXCEPT ![loop.target] = Absent]
         /\ UNCHANGED <<other, agent, ui, goroutines, queued, count>>

----------------------------------------------------------------------------
\* The other process: opens a session, records a turn, closes and prunes

OtherOpens == /\ other.session = NoSession
              /\ \E s \in Sessions :
                    /\ dirs[s].there /\ dirs[s].lock = "free"
                    /\ dirs' = [dirs EXCEPT ![s].lock = "other"]
                    /\ other' = [session |-> s, prune |-> FALSE]
              /\ UNCHANGED <<agent, ui, loop, goroutines, queued, count>>

OtherTurn == /\ other.session # NoSession /\ ~other.prune /\ dirs[other.session].lock = "other"
             /\ dirs' = [dirs EXCEPT ![other.session].turns = 1]
             /\ UNCHANGED <<other, agent, ui, loop, goroutines, queued, count>>

OtherCloses ==
    /\ other.session # NoSession
    /\ LET s == other.session
       IN  IF other.prune
           THEN dirs' = [dirs EXCEPT ![s] = Absent] /\ other' = [session |-> NoSession, prune |-> FALSE]
           ELSE /\ dirs' = IF dirs[s].lock = "other" THEN [dirs EXCEPT ![s].lock = "free"] ELSE dirs
                /\ other' = IF dirs[s].turns = 0 THEN [other EXCEPT !.prune = TRUE]
                            ELSE [other EXCEPT !.session = NoSession]
    /\ UNCHANGED <<agent, ui, loop, goroutines, queued, count>>

----------------------------------------------------------------------------

TurnSteps == TurnStarts \/ TurnEmits \/ Emitted \/ ModelBoundary \/ TurnEnds \/ TurnStatus \/ SendDone
OpSteps   == OpStarts \/ OpEnds \/ OpWrites
LoopSteps == Snapshot \/ OpenJournal \/ Install \/ CloseAgent \/ Release \/ Prune
UIMessages  == ResumeArrives \/ TakeEvent \/ TurnDone \/ MaintenanceDone

TerminalNext ==
    \/ SubmitInput \/ TypeAhead \/ CancelTurn \/ RestoreLatest \/ Clear \/ OpenPicker \/ ClosePicker
    \/ StartMaintenance("shell", "") \/ StartMaintenance("compact", "")
    \/ \E m \in Models : StartMaintenance("model", m)
    \/ \E p \in {"on", "off"} : StartMaintenance("sandbox", p)
    \/ Exit \/ UIMessages \/ TurnSteps \/ OpSteps \/ LoopSteps
    \/ OtherOpens \/ OtherTurn \/ OtherCloses

TerminalSpec == TerminalInit /\ [][TerminalNext]_tvars

----------------------------------------------------------------------------

(* Every variable has the shape the code gives it. *)
Settings == Models \cup {"", "on", "off"}
SomeSession == Sessions \cup {NoSession}
Directories == [there : BOOLEAN, lock : {"free", "me", "other"}, turns : {0, 1}, model : Settings]
Agents == [session : SomeSession, model : Settings, sandbox : Settings, policy : Settings, gen : Nat]
Screens == [mode : {"edit", "picker", "gone"}, working : BOOLEAN,
            busy : {"", "shell", "compact", "model", "sandbox"}, resume : SomeSession]
AgentCalls == [pc : {"idle", "snapshot", "open", "install", "close", "release", "prune"},
          target : SomeSession, model : Settings, sandbox : Settings]
Turns == [pc : {"idle", "start", "run", "emit", "status", "send", "sent"}, cancelled : BOOLEAN,
          session : SomeSession]
Operations == [pc : {"idle", "start", "run", "prepare", "write", "done"}, arg : Settings, gen : Nat]
TerminalTypeOK ==
    /\ dirs \in [Sessions -> Directories] /\ agent \in Agents
    /\ other \in [session : SomeSession, prune : BOOLEAN]
    /\ ui \in Screens /\ loop \in AgentCalls /\ uiTurn \in Turns /\ op \in Operations
    /\ events \in 0..EventsCap /\ queued \in Nat /\ count \in 0..MaxCommands

(* The session, the model and the sandbox the terminal reports are the ones in
   use: a turn writes to the agent's session, its journal names the agent's
   model, the processes run under the agent's policy; whatever switches,
   resumes and turns overlap. *)
RuntimeIsConsistent ==
    /\ TurnReads => uiTurn.session = agent.session
    /\ agent.policy = agent.sandbox
    /\ agent.session # NoSession /\ dirs[agent.session].lock = "me"
         => dirs[agent.session].model = agent.model

(* Turns, shell commands and compactions append to the journal one at a time. *)
OneAppender == ~(TurnReads /\ OpReads)
=============================================================================

----------------------------- MODULE Delegation -----------------------------
(***************************************************************************)
(* Child conversations of caliban (internal/engine/delegate.go, prune.go): *)
(* a run of a top-level conversation delegates work to a child that runs   *)
(* in its own conversation, blocking the call that asked; the children are *)
(* pruned when they are old.  Runs and rows live in the store, lanes and   *)
(* calls in the process.  Rows are deleted by the prune and ids are one    *)
(* more than the largest, so that ids can come back.                       *)
(***************************************************************************)
EXTENDS Integers, Sequences, FiniteSets

CONSTANTS RunTimeout,     \* defaultRunTimeout
          Retention,      \* subagentRetention
          MainId, WebId,  \* defaultTelegramConvID, defaultWebConvID
          MaxConversations, MaxRunsStarted, MaxTableRows,   \* bounds
          MaxDelegationClock, MaxStarts                \* bounds

(* A run is over, at the latest, before what it created can be pruned; the   *)
(* ids of conversations are among those NextId counts.                      *)
ASSUME DelegationAssumption ==
    /\ {RunTimeout, Retention, MaxConversations, MaxTableRows} \subseteq Nat
    /\ RunTimeout <= Retention
    /\ {MainId, WebId} \subseteq 1..MaxConversations
    /\ MaxConversations <= MaxTableRows

VARIABLES now,            \* time.Now
          conversations,  \* the table: id -> [parent, created, covered]
          agentRuns,      \* the table runs: a sequence of [conversation, input, status]
          rows,           \* the table messages: id -> [conversation, user]
          webOn,          \* the configuration serves the web
          workers,        \* Engine.workers: the conversations with a lane
          frames,         \* what each lane executes
          ensured,        \* what EnsureConversation last returned to main.go
          starts          \* starts so far

delegationVars == <<now, conversations, agentRuns, rows, webOn, workers, frames, ensured, starts>>

ConversationIds == 1..MaxConversations
TopLevel == 0  \* parent_run_id IS NULL
NoFrame == [at |-> "idle", run |-> 0, started |-> 0, child |-> 0, prompt |-> 0,
            childRun |-> 0]
NextId(table) == 1 + Cardinality({i \in 1..MaxTableRows : \E k \in DOMAIN table : k >= i})

(* The store's guarded statements. *)
Conversation(parent) == [parent |-> parent, created |-> now, covered |-> 0]
EnsureConversation(table, id) ==
    IF id \in DOMAIN table THEN table
    ELSE [k \in DOMAIN table \cup {id} |-> IF k = id THEN Conversation(TopLevel) ELSE table[k]]
ActiveConversations(table) == {k \in DOMAIN table : table[k].parent = TopLevel}
Due(id) ==
    {m \in DOMAIN rows : rows[m].conversation = id /\ rows[m].user /\ m > conversations[id].covered}
CreateAgentRun(id, input) ==
    /\ id \in DOMAIN conversations
    /\ Len(agentRuns) < MaxRunsStarted
    /\ agentRuns' = Append(agentRuns, [conversation |-> id, input |-> input, status |-> "running"])
AddRow(id, user) ==
    /\ NextId(rows) < MaxTableRows
    /\ rows' = [m \in DOMAIN rows \cup {NextId(rows)} |->
                  IF m = NextId(rows) THEN [conversation |-> id, user |-> user] ELSE rows[m]]

(* CompleteRun and FailRun: the answer's row, the status and the cursor in
   one transaction. *)
SettleRun(run, status) ==
    LET id == agentRuns[run].conversation
        input == agentRuns[run].input
    IN /\ agentRuns[run].status = "running"
       /\ AddRow(id, FALSE)
       /\ agentRuns' = [agentRuns EXCEPT ![run].status = status]
       /\ conversations' =
            IF id \notin DOMAIN conversations \/ conversations[id].covered >= input
            THEN conversations
            ELSE [conversations EXCEPT ![id].covered = input]

(* Rows of running runs fail when the service starts; nothing is covered. *)
FailRunningRuns ==
    agentRuns' = [r \in DOMAIN agentRuns |->
                    IF agentRuns[r].status = "running"
                    THEN [agentRuns[r] EXCEPT !.status = "failed"] ELSE agentRuns[r]]

DelegationInit ==
    /\ now = 0
    /\ conversations = [k \in {MainId} |-> [parent |-> TopLevel, created |-> 0, covered |-> 0]]
    /\ agentRuns = <<>> /\ rows = [m \in {} |-> 0]
    /\ webOn = FALSE
    /\ workers = {} /\ frames = [l \in ConversationIds |-> NoFrame]
    /\ ensured = {} /\ starts = 0

Down == workers = {}

(* engine.New and main.go ensure the conversations of the transports that are
   configured, StartReady fails what was interrupted and starts a lane for
   every active top-level conversation. *)
StartService ==
    /\ Down /\ starts < MaxStarts
    /\ starts' = starts + 1
    /\ webOn' \in {webOn, TRUE}
    /\ LET main == EnsureConversation(conversations, MainId)
           all == IF webOn' THEN EnsureConversation(main, WebId) ELSE main
       IN /\ conversations' = all
          /\ workers' = ActiveConversations(all)
    /\ ensured' = IF webOn' THEN {MainId, WebId} ELSE {MainId}
    /\ FailRunningRuns
    /\ UNCHANGED <<now, rows, frames>>

(* A crash, and a shutdown, whose cancelled context lets no store call pass. *)
StopService ==
    /\ ~Down
    /\ workers' = {} /\ frames' = [l \in ConversationIds |-> NoFrame] /\ ensured' = {}
    /\ UNCHANGED <<now, conversations, agentRuns, rows, webOn, starts>>

(* SubmitUserMessage refuses a conversation that has no lane. *)
SubmitUserMessage(id) ==
    /\ id \in workers
    /\ AddRow(id, TRUE)
    /\ UNCHANGED <<now, conversations, agentRuns, webOn, workers, frames, ensured, starts>>

(* The lane takes the newest due input and starts its run. *)
ExecuteRun(l) ==
    /\ l \in workers /\ frames[l].at = "idle" /\ Due(l) # {}
    /\ LET input == CHOOSE m \in Due(l) : \A k \in Due(l) : k <= m
       IN CreateAgentRun(l, input)
    /\ frames' = [frames EXCEPT ![l] =
                    [NoFrame EXCEPT !.at = "model", !.run = Len(agentRuns) + 1, !.started = now]]
    /\ UNCHANGED <<now, conversations, rows, webOn, workers, ensured, starts>>

InTime(l) == now < frames[l].started + RunTimeout

FinishParent(l) ==
    /\ frames[l].at = "model"
    /\ \E status \in {"done", "failed"} :
         /\ status = "done" => InTime(l)
         /\ SettleRun(frames[l].run, status)
    /\ frames' = [frames EXCEPT ![l] = NoFrame]
    /\ UNCHANGED <<now, webOn, workers, ensured, starts>>

(* childTools: a child's turn has every tool but those that delegate, notify
   and schedule. *)
TurnTools == {"delegate", "delegate_continue", "notify", "schedule_reminder", "schedule_turn",
              "list_scheduled", "cancel_scheduled", "any other"}
ChildTools == {"any other"}
(* The turn that the lane executes, its own or a child's, calls a tool; a call
   whose arguments do not parse, or that are empty, is answered with an error. *)
Calling(l, tool) ==
    /\ InTime(l)
    /\ \/ frames[l].at = "model" /\ tool \in TurnTools
       \/ frames[l].at = "child" /\ tool \in ChildTools

(* Delegate: only from a top-level conversation; the child belongs to the run. *)
Delegate(l) ==
    /\ Calling(l, "delegate")
    /\ conversations[l].parent = TopLevel
    /\ NextId(conversations) \in ConversationIds
    /\ conversations' = [k \in DOMAIN conversations \cup {NextId(conversations)} |->
                            IF k = NextId(conversations) THEN Conversation(frames[l].run)
                            ELSE conversations[k]]
    /\ frames' = [frames EXCEPT ![l].at = "prompt", ![l].child = NextId(conversations)]
    /\ UNCHANGED <<now, agentRuns, rows, webOn, workers, ensured, starts>>

(* Mutant: any child conversation may be continued. *)
DelegateContinueAny(l) ==
    /\ Calling(l, "delegate_continue")
    /\ \E c \in DOMAIN conversations :
         /\ conversations[c].parent # TopLevel
         /\ frames' = [frames EXCEPT ![l].at = "prompt", ![l].child = c]
    /\ UNCHANGED <<now, conversations, agentRuns, rows, webOn, workers, ensured, starts>>
(* DelegateContinue: the model names any conversation, a run's own child passes. *)
DelegateContinue(l) ==
    /\ Calling(l, "delegate_continue")
    /\ \E c \in DOMAIN conversations :
         /\ conversations[c].parent = frames[l].run
         /\ frames' = [frames EXCEPT ![l].at = "prompt", ![l].child = c]
    /\ UNCHANGED <<now, conversations, agentRuns, rows, webOn, workers, ensured, starts>>

(* runDelegatedTurn: the prompt's row, the run's row, the child's turn. *)
AppendPrompt(l) ==
    /\ frames[l].at = "prompt" /\ InTime(l)
    /\ frames[l].child \in DOMAIN conversations
    /\ AddRow(frames[l].child, TRUE)
    /\ frames' = [frames EXCEPT ![l].at = "create", ![l].prompt = NextId(rows)]
    /\ UNCHANGED <<now, conversations, agentRuns, webOn, workers, ensured, starts>>

CreateChildRun(l) ==
    /\ frames[l].at = "create" /\ InTime(l)
    /\ CreateAgentRun(frames[l].child, frames[l].prompt)
    /\ frames' = [frames EXCEPT ![l].at = "child", ![l].childRun = Len(agentRuns) + 1]
    /\ UNCHANGED <<now, conversations, rows, webOn, workers, ensured, starts>>

FinishChild(l) ==
    /\ frames[l].at = "child" /\ InTime(l)
    /\ \E status \in {"done", "failed"} : SettleRun(frames[l].childRun, status)
    /\ frames' = [frames EXCEPT ![l].at = "model", ![l].child = 0, ![l].prompt = 0, ![l].childRun = 0]
    /\ UNCHANGED <<now, webOn, workers, ensured, starts>>

(* The parent's time is over in the middle of a call: the child's failure
   would be stored under the context that has just expired, so it is not, and
   the parent's run fails under the lane's own context. *)
ExpireInCall(l) ==
    /\ frames[l].at \in {"prompt", "create", "child"} /\ ~InTime(l)
    /\ SettleRun(frames[l].run, "failed")
    /\ frames' = [frames EXCEPT ![l] = NoFrame]
    /\ UNCHANGED <<now, webOn, workers, ensured, starts>>

(* HandleSubagentPrune: the children of before the cutoff with their rows; the
   runs stay. *)
Expired == {k \in DOMAIN conversations : conversations[k].parent # TopLevel
                                         /\ conversations[k].created < now - Retention}
PruneChildConversations ==
    /\ ~Down /\ Expired # {}
    /\ conversations' = [k \in DOMAIN conversations \ Expired |-> conversations[k]]
    /\ rows' = [m \in {k \in DOMAIN rows : rows[k].conversation \notin Expired} |-> rows[m]]
    /\ UNCHANGED <<now, agentRuns, webOn, workers, frames, ensured, starts>>

(* A run whose context has ended stops before more time passes. *)
DelegationTick ==
    /\ now < MaxDelegationClock
    /\ \A l \in workers : frames[l].at # "idle" => InTime(l)
    /\ now' = now + 1
    /\ UNCHANGED <<conversations, agentRuns, rows, webOn, workers, frames, ensured, starts>>

LaneStep(l) ==
    \/ SubmitUserMessage(l) \/ ExecuteRun(l) \/ FinishParent(l)
    \/ Delegate(l) \/ DelegateContinue(l) \/ AppendPrompt(l) \/ CreateChildRun(l)
    \/ FinishChild(l) \/ ExpireInCall(l)

DelegationNext ==
    \/ StartService \/ StopService \/ PruneChildConversations \/ DelegationTick
    \/ \E l \in ConversationIds : LaneStep(l)

DelegationSpec == DelegationInit /\ [][DelegationNext]_delegationVars

Executed(run) == \E l \in workers : run \in {frames[l].run, frames[l].childRun}

(* A child's turn runs inside a call of the run that owns the child, in a
   conversation that still exists, and lanes serve top-level conversations
   only; of a lane's own runs only the executed one says that it is running
   (delegate.go:32, store.go:455-464, 484-490, 822-826). *)
ChildRunsHaveParents ==
    /\ \A l \in workers :
         /\ frames[l].at # "idle" => /\ conversations[l].parent = TopLevel
                                     /\ agentRuns[frames[l].run].conversation = l
                                     /\ agentRuns[frames[l].run].status = "running"
         /\ frames[l].child # 0 => /\ frames[l].child \in DOMAIN conversations
                                   /\ conversations[frames[l].child].parent = frames[l].run
    /\ \A r \in DOMAIN agentRuns :
         agentRuns[r].status = "running" /\ agentRuns[r].conversation \in workers => Executed(r)

(* "EnsureConversation returns the requested top-level conversation"
   (store.go:290): what a transport is bound to is top-level. *)
EnsuredIsTopLevel == \A id \in ensured : conversations[id].parent = TopLevel
=============================================================================

------------------------------- MODULE Agent -------------------------------
(***************************************************************************)
(* golem's in-memory agent (pkg/golem/agent.go, turn.go, tools.go): turns  *)
(* one after another over a shared history that is trimmed, each a loop of *)
(* model requests and batches of tool calls, which can be cancelled, fail  *)
(* or reach the limit of tool iterations; and the translator of its stream *)
(* into the messages of a web chat (pkg/murm/translate.go).                *)
(***************************************************************************)
EXTENDS Integers, Sequences

CONSTANTS
    MaxHistoryMessages,   \* 0: all
    MaxToolIterations,    \* -1: no limit
    MaxCalls,             \* bound: calls of one response
    MaxTurns, MaxSteps    \* bounds: turns, model requests of a turn

ASSUME AgentAssumption ==
    /\ {MaxHistoryMessages, MaxCalls, MaxTurns, MaxSteps} \subseteq Nat
    /\ MaxToolIterations \in Nat \cup {-1}

VARIABLES
    committed,         \* Agent.messages
    turn,              \* the turn that holds turnMu
    turns,             \* how many began
    ui,                \* the translator of the turn's stream
    deltas             \* the pairs <<model request, message>> of streamed output

agentVars == <<committed, turn, turns, ui, deltas>>

User == [role |-> "user"]
Reply == [role |-> "reply"]
Call(id, effects) == [role |-> "calls", id |-> id, effects |-> effects]
Result(id, k) == [role |-> "result", id |-> id, call |-> k]
Results(id, from, to) == [i \in 1 .. to - from + 1 |-> Result(id, from + i - 1)]

NoTurnYet == [at |-> "none"]
FreshTranslator == [iteration |-> 0, started |-> FALSE, toolPhase |-> FALSE]

AgentInit ==
    /\ committed = <<>> /\ turn = NoTurnYet /\ turns = 0
    /\ ui = FreshTranslator /\ deltas = {}

-----------------------------------------------------------------------------
(* Mutant: the history is cut at the number of messages. *)
ToolBlockStartAsIs(ms, start) == start

(* The first message kept, moved back over tool results to their calls, and *)
(* to the user's message when the calls answer it directly.                 *)
ToolBlockStart(ms, start) ==
    LET begin == CHOOSE i \in 1..start :
                    /\ ms[i].role # "result" \/ i = 1
                    /\ \A j \in i + 1 .. start : ms[j].role = "result"
    IN IF ms[begin].role = "calls" /\ begin > 1 /\ ms[begin - 1].role = "user"
       THEN begin - 1 ELSE begin

TrimHistory(ms) ==
    IF MaxHistoryMessages > 0 /\ Len(ms) > MaxHistoryMessages
    THEN SubSeq(ms, ToolBlockStart(ms, Len(ms) - MaxHistoryMessages + 1), Len(ms))
    ELSE ms

(* run, prepareTurn and the head of RunTurn *)
BeginTurn ==
    /\ turn.at = "none" /\ turns < MaxTurns
    /\ turn' = [at |-> "request", context |-> Append(TrimHistory(committed), User),
                added |-> <<User>>, step |-> 1, iterations |-> 0, id |-> <<0, 0>>,
                effects |-> <<>>, running |-> {}, next |-> 0, upto |-> 0, cancelled |-> FALSE]
    /\ turns' = turns + 1
    /\ ui' = FreshTranslator /\ deltas' = {}
    /\ UNCHANGED committed

(* Reset waits for the turn like another turn does. *)
Reset ==
    /\ turn.at = "none" /\ committed # <<>>
    /\ committed' = <<>>
    /\ UNCHANGED <<turn, turns, ui, deltas>>

EndTurn ==
    /\ turn' = NoTurnYet /\ ui' = FreshTranslator /\ deltas' = {}
    /\ UNCHANGED turns

(* A turn that fails commits its usage and none of its messages. *)
FailTurn == EndTurn /\ UNCHANGED committed

Cancel ==
    /\ turn.at # "none" /\ ~turn.cancelled
    /\ turn' = [turn EXCEPT !.cancelled = TRUE]
    /\ UNCHANGED <<committed, turns, ui, deltas>>

-----------------------------------------------------------------------------
(* The translator's ensureAssistant *)
EnsureAssistant(t) ==
    [iteration |-> IF t.toolPhase THEN t.iteration + 1 ELSE t.iteration,
     started |-> TRUE, toolPhase |-> FALSE]

(* emitToolOutcome *)
ToolOutcome(t, failed) == [t EXCEPT !.toolPhase = TRUE]

Stream ==
    /\ ui' = EnsureAssistant(ui)
    /\ deltas' = deltas \cup {<<turn.step, ui'.iteration>>}

-----------------------------------------------------------------------------
(* A model request: a text or reasoning delta, a failure, a reply, or calls. *)
(* An attempt that starts over keeps the message it had begun.              *)
Requesting == turn.at \in {"request", "final"}

StreamDelta ==
    /\ Requesting
    /\ Stream
    /\ UNCHANGED <<committed, turn, turns>>

RequestFails == Requesting /\ FailTurn

(* A response without calls ends the turn; after the tool limit calls are   *)
(* left out, and a response with nothing else fails the turn.               *)
Answer ==
    /\ Requesting
    /\ committed' = committed \o Append(turn.added, Reply)
    /\ EndTurn

(* toolLimitResults: an error for every call, and one request more. *)
ToolLimit(id, effects) ==
    LET ms == <<Call(id, effects)>> \o Results(id, 1, Len(effects))
    IN /\ turn' = [turn EXCEPT !.at = "final", !.context = @ \o ms \o <<User>>,
                               !.added = @ \o ms, !.step = @ + 1]
       /\ ui' = ToolOutcome(ui, TRUE)
       /\ UNCHANGED deltas

Respond(effects) ==
    LET id == <<turns, turn.step>>
    IN /\ turn.at = "request" /\ turn.step < MaxSteps
       /\ IF MaxToolIterations >= 0 /\ turn.iterations >= MaxToolIterations
          THEN ToolLimit(id, effects)
          ELSE /\ turn' = [turn EXCEPT !.at = "execute", !.iterations = @ + 1, !.id = id,
                                       !.context = Append(@, Call(id, effects)),
                                       !.added = Append(@, Call(id, effects)),
                                       !.effects = effects, !.next = 1]
               /\ UNCHANGED <<ui, deltas>>
       /\ UNCHANGED <<committed, turns>>

-----------------------------------------------------------------------------
(* ToolSet.Execute: consecutive reads form one batch that runs in parallel. *)
BatchEnd(effects, start) ==
    IF effects[start] # "read" THEN start
    ELSE CHOOSE e \in start..Len(effects) :
            /\ \A k \in start..e : effects[k] = "read"
            /\ e = Len(effects) \/ effects[e + 1] # "read"

StartBatch ==
    /\ turn.at = "execute"
    /\ IF turn.cancelled THEN FailTurn
       ELSE LET end == BatchEnd(turn.effects, turn.next)
            IN /\ turn' = [turn EXCEPT !.at = "batch", !.upto = end, !.running = turn.next..end]
               /\ Stream
               /\ UNCHANGED <<committed, turns>>

CallReturns(k) ==
    /\ turn.at = "batch" /\ k \in turn.running
    /\ turn' = [turn EXCEPT !.running = @ \ {k}]
    /\ UNCHANGED <<committed, turns, ui, deltas>>

(* Results are taken in the calls' order once all have returned; then the   *)
(* context is looked at, and the next batch or the next request follows.    *)
BatchReturns ==
    /\ turn.at = "batch" /\ turn.running = {}
    /\ IF turn.cancelled THEN FailTurn
       ELSE LET results == Results(turn.id, turn.next, turn.upto)
                done == turn.upto = Len(turn.effects)
            IN /\ turn' = [turn EXCEPT !.at = IF done THEN "request" ELSE "execute",
                               !.step = IF done THEN @ + 1 ELSE @,
                               !.context = @ \o results, !.added = @ \o results,
                               !.next = turn.upto + 1]
               /\ \E failed \in BOOLEAN : ui' = ToolOutcome(ui, failed)
               /\ UNCHANGED <<committed, turns, deltas>>

Batches == UNION {[1..n -> {"read", "write"}] : n \in 1..MaxCalls}

AgentNext ==
    \/ BeginTurn \/ Reset \/ Cancel
    \/ StreamDelta \/ RequestFails \/ Answer
    \/ \E effects \in Batches : Respond(effects)
    \/ StartBatch \/ BatchReturns
    \/ \E k \in 1..MaxCalls : CallReturns(k)

AgentSpec == AgentInit /\ [][AgentNext]_agentVars

-----------------------------------------------------------------------------
(* Every request is one a provider accepts: calls are followed by their     *)
(* results, all of them and in order, and no result stands without its      *)
(* calls, whatever was trimmed, cancelled or cut off by the limit before.   *)
RequestIsPaired ==
    Requesting =>
        \A i \in DOMAIN turn.context :
            LET m == turn.context[i]
            IN /\ m.role = "calls" =>
                     /\ i + Len(m.effects) <= Len(turn.context)
                     /\ \A k \in DOMAIN m.effects : turn.context[i + k] = Result(m.id, k)
               /\ m.role = "result" =>
                     /\ i > m.call
                     /\ turn.context[i - m.call].role = "calls"
                     /\ turn.context[i - m.call].id = m.id

=============================================================================

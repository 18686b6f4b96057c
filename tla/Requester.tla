----------------------------- MODULE Requester -----------------------------
(***************************************************************************)
(* One logical model request (pkg/golem/request.go): attempts, each of     *)
(* which may stream, the hooks around them, the application's recovery,    *)
(* the retry allowance, the provider's Retry-After against the retry       *)
(* budget, and the idle timer of a stream.  What the caller has been shown *)
(* is part of the state: deltas are emitted before the attempt is known to *)
(* succeed and are taken back by a reset.                                  *)
(***************************************************************************)
EXTENDS Integers

CONSTANTS MaxRetriesSet, BudgetSet, BaseSet, MaxDelaySet,  \* the policies to choose from
          RetryAfterSet,   \* what providers ask for
          MaxChunks,       \* bound: chunks of a kind in one attempt
          MaxRequests,     \* bound: attempts, for policies without a limit
          MaxTicks         \* bound: ticks

ASSUME RequesterAssumption ==
    /\ MaxRetriesSet \subseteq Int /\ RetryAfterSet \subseteq Nat
    /\ BudgetSet \cup BaseSet \cup MaxDelaySet \cup {MaxChunks, MaxRequests, MaxTicks} \subseteq Nat

VARIABLES
    policy,    \* RequestPolicy, fixed
    req,       \* the request: where it is, its attempt, what it waits for
    text, reasoning,     \* chunks the attempt has received
    shownText, shownReasoning,  \* chunks the caller was shown since the last reset
    ticks      \* ticks since Request was called

requestVars == <<policy, req, text, reasoning, shownText, shownReasoning, ticks>>
stream  == <<text, reasoning>>
view    == <<shownText, shownReasoning>>

Unlimited(p)   == p.retries < 0
\* NewRequester refuses the others
ValidPolicy(p) == Unlimited(p) => p.budget > 0 /\ p.base > 0
Policies == {p \in [retries : MaxRetriesSet, budget : BudgetSet, base : BaseSet, max : MaxDelaySet,
                    streams : BOOLEAN, idle : BOOLEAN] : ValidPolicy(p)}

RequesterInit ==
    /\ policy \in Policies
    /\ req = [pc |-> "start", attempt |-> 1, delay |-> 0, after |-> 0, retryable |-> FALSE,
              recovered |-> FALSE, waited |-> FALSE, begun |-> 0]
    /\ text = 0 /\ reasoning = 0 /\ shownText = 0 /\ shownReasoning = 0 /\ ticks = 0

Goto(pc) == req' = [req EXCEPT !.pc = pc]

----------------------------------------------------------------------------
\* requestModelOnce and consumeModelStream

AttemptStarted ==
    /\ req.pc = "start"
    /\ \/ req' = [req EXCEPT !.pc = IF policy.streams THEN "stream" ELSE "chat", !.begun = ticks]
       \/ Goto("failed")            \* the hook's error
    /\ text' = 0 /\ reasoning' = 0 /\ UNCHANGED <<policy, view, ticks>>

\* a chunk is shown as it comes
ChunkText == /\ req.pc = "stream" /\ text < MaxChunks
             /\ text' = text + 1 /\ shownText' = shownText + 1
             /\ UNCHANGED <<policy, req, reasoning, shownReasoning, ticks>>

ChunkReasoning == /\ req.pc = "stream" /\ reasoning < MaxChunks
                  /\ reasoning' = reasoning + 1 /\ shownReasoning' = shownReasoning + 1
                  /\ UNCHANGED <<policy, req, text, shownText, ticks>>

\* EOF, and a response that validateModelResponse accepts
Answered == /\ req.pc \in {"stream", "chat"} /\ Goto("returned")
            /\ UNCHANGED <<policy, stream, view, ticks>>

\* the provider, the validation, the idle timer or the context ends the attempt
AttemptFails ==
    /\ req.pc \in {"stream", "chat"}
    /\ \E retryable \in BOOLEAN, after \in RetryAfterSet :
         req' = [req EXCEPT !.pc = "hook", !.retryable = retryable, !.after = IF retryable THEN after ELSE 0]
    /\ UNCHANGED <<policy, stream, view, ticks>>

StreamIdle == /\ req.pc = "stream" /\ policy.idle
              /\ req' = [req EXCEPT !.pc = "hook", !.retryable = TRUE, !.after = 0]
              /\ UNCHANGED <<policy, stream, view, ticks>>

----------------------------------------------------------------------------
\* what follows a failed attempt

\* Mutant: reasoning alone does not count as provisional output
ProvisionalTextOnly == text > 0

Provisional == text > 0 \/ reasoning > 0

\* AttemptFailed; its error ends the request before the reset
AttemptFailed ==
    /\ req.pc = "hook"
    /\ \/ /\ Goto("recover")
          /\ IF Provisional THEN shownText' = 0 /\ shownReasoning' = 0 ELSE UNCHANGED view
       \/ Goto("hookfailed") /\ UNCHANGED view
    /\ UNCHANGED <<policy, stream, ticks>>

NextAttempt(waited) == [req EXCEPT !.pc = "start", !.attempt = @ + 1, !.delay = 0, !.waited = waited]

\* the application bounds its own recovery: here it recovers once
RecoverAttempt ==
    /\ req.pc = "recover"
    /\ \/ /\ ~req.recovered
          /\ req' = [NextAttempt(FALSE) EXCEPT !.recovered = TRUE]
       \/ Goto("decide")
       \/ Goto("failed")             \* the recovery's error
    /\ UNCHANGED <<policy, stream, view, ticks>>

\* exponentialDelay: doubled up to the limit, a jitter of up to a quarter, within the limit
Delays(attempt) ==
    LET limit == IF policy.max > 0 THEN policy.max ELSE MaxTicks + 1
        full  == policy.base * 2 ^ (attempt - 1)
        d     == IF full < limit THEN full ELSE limit
    IN  IF policy.base = 0 THEN {0}
        ELSE {d} \cup {IF d > limit - j THEN limit ELSE d + j : j \in 0 .. ((d \div 4) - 1)}

RetryAllowed ==
    /\ Unlimited(policy) \/ req.attempt <= policy.retries
    /\ policy.budget = 0 \/ ticks < policy.budget

Remaining == IF ticks < policy.budget THEN policy.budget - ticks ELSE 0

Fits(delay) == policy.budget > 0 => delay <= Remaining

\* the policy's delay or the provider's, whichever is longer, if it fits
Decide ==
    /\ req.pc = "decide"
    /\ \/ ~(req.retryable /\ RetryAllowed) /\ Goto("failed")
       \/ /\ req.retryable /\ RetryAllowed
          /\ \E d \in Delays(req.attempt) :
               LET delay == IF req.after > d THEN req.after ELSE d
               IN  IF Fits(delay) THEN req' = [req EXCEPT !.pc = "wait", !.delay = ticks + delay]
                   ELSE Goto("failed")
    /\ UNCHANGED <<policy, stream, view, ticks>>

\* the timer, or the context
WaitForRetry ==
    /\ req.pc = "wait"
    /\ \/ /\ ticks >= req.delay /\ (Unlimited(policy) => req.attempt < MaxRequests)
          /\ req' = NextAttempt(TRUE)
       \/ Goto("failed")
    /\ UNCHANGED <<policy, stream, view, ticks>>

\* an attempt takes its time; a wait ends when its timer fires
ClockTicks == /\ \/ req.pc \in {"stream", "chat"}
                 \/ req.pc = "wait" /\ ticks < req.delay
              /\ ticks < MaxTicks /\ ticks' = ticks + 1
              /\ UNCHANGED <<policy, req, stream, view>>

RequesterNext == AttemptStarted \/ ChunkText \/ ChunkReasoning \/ Answered \/ AttemptFails \/ StreamIdle
                 \/ AttemptFailed \/ RecoverAttempt \/ Decide \/ WaitForRetry \/ ClockTicks

RequesterSpec == RequesterInit /\ [][RequesterNext]_requestVars

----------------------------------------------------------------------------

RequestPhases == {"start", "stream", "chat", "hook", "recover", "decide", "wait", "returned",
                  "failed", "hookfailed"}
RequestRecords == [pc : RequestPhases, attempt : Nat \ {0}, delay : Int, after : Nat, retryable : BOOLEAN,
                   recovered : BOOLEAN, waited : BOOLEAN, begun : Nat]

RequesterTypeOK ==
    /\ policy \in Policies /\ req \in RequestRecords /\ ticks \in 0 .. MaxTicks
    /\ {text, reasoning} \subseteq 0 .. MaxChunks /\ {shownText, shownReasoning} \subseteq Nat

(* What the caller has been shown when the request returns is the response, and
   when it fails nothing: text and reasoning of an attempt that failed are taken
   back before another starts.  Only a failing AttemptFailed hook leaves them. *)
ShownIsAnswered ==
    /\ req.pc = "returned" => shownText = text /\ shownReasoning = reasoning
    /\ req.pc = "failed" => shownText = 0 /\ shownReasoning = 0

(* A retry that had to wait starts within the retry budget, however long the
   provider asked to wait, and no retry beyond the allowance is made. *)
BudgetKept ==
    req.waited =>
        /\ policy.budget > 0 => req.begun <= policy.budget
        /\ Unlimited(policy) \/ req.attempt <= policy.retries + 1
=============================================================================

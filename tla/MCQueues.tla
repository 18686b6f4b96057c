------------------------------ MODULE MCQueues ------------------------------
(***************************************************************************)
(* TaskQueue for TLC: two processes over one row, and beside them, in      *)
(* behaviours of its own, one process over two rows with a longer lease.   *)
(***************************************************************************)
EXTENDS TaskQueue, TLC

MCRetryDelay == [a \in 1 .. MaxAttempts |-> 1]
Processes == Permutations(Queues)

CONSTANTS SoloQueue, SoloTasks, SoloClaimLimit, SoloLease, SoloPoll, SoloMaxTime, SoloMaxTokens

VARIABLES alone, soloNow, soloTokens, soloRows, soloPc, soloStopping, soloBroken, soloToken,
          soloClaims, soloWake, soloUntil

Solo == INSTANCE TaskQueue WITH
            Tasks <- SoloTasks, Queues <- {SoloQueue}, ClaimLimit <- SoloClaimLimit,
            Lease <- SoloLease, Poll <- SoloPoll, MaxTime <- SoloMaxTime, MaxTokens <- SoloMaxTokens,
            now <- soloNow, tokens <- soloTokens, rows <- soloRows, pc <- soloPc,
            stopping <- soloStopping, broken <- soloBroken, token <- soloToken,
            claims <- soloClaims, wake <- soloWake, until <- soloUntil

soloVars == <<soloNow, soloTokens, soloRows, soloPc, soloStopping, soloBroken, soloToken,
              soloClaims, soloWake, soloUntil>>

QueuesInit == alone \in BOOLEAN /\ Init /\ Solo!Init

QueuesNext == \/ ~alone /\ Next /\ UNCHANGED <<alone, soloVars>>
              \/ alone /\ Solo!Next /\ UNCHANGED <<alone, vars>>

QueuesSpec == QueuesInit /\ [][QueuesNext]_<<alone, vars, soloVars>>

(* A process that runs the queue alone never sleeps past the moment some    *)
(* row becomes claimable, whatever clients do between its look at the next  *)
(* due time and its sleep (NoOversleep of TaskQueue).                       *)
SoloNoOversleep == Solo!NoOversleep
=============================================================================

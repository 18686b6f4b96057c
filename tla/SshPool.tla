------------------------------ MODULE SshPool ------------------------------
(***************************************************************************)
(* hugin's shared SSH connections (hugin/internal/runner/runner.go): the   *)
(* checks of one target use one cached client, a dial is shared by those   *)
(* that wait for it but ends with the context of the check that began it,  *)
(* and a cached client that turns out to be dead is evicted and dialled    *)
(* again.  One target: the cache and the dials are kept by target.         *)
(***************************************************************************)
EXTENDS Integers, FiniteSets

CONSTANTS
    Checks,            \* checks that run at the same time
    MaxDials           \* bound: calls of sshDials

ASSUME SshPoolAssumption == MaxDials \in Nat

VARIABLES
    client,            \* sshClients[key]
    open, dead,        \* clients not closed yet; clients whose connection is lost
    dial,              \* every call of the singleflight group
    flight,            \* the call a check joins, 0 if none
    check,             \* what each check is doing
    closed             \* Runner.Close was called

poolVars == <<client, open, dead, dial, flight, check, closed>>

(* A client is named by the call that dialled it. *)
Dials == 1..MaxDials
NoClient == 0
Refused == -1
ContextError == -2
NoDial == [at |-> "none"]
Waiting == "wait"

PoolInit ==
    /\ client = NoClient /\ open = {} /\ dead = {}
    /\ dial = [d \in Dials |-> NoDial] /\ flight = 0 /\ closed = FALSE
    /\ check = [c \in Checks |-> [at |-> "rest", live |-> TRUE, attempt |-> 1, call |-> 0,
                                  client |-> NoClient, reused |-> FALSE, again |-> FALSE]]

CheckAt(c, at) == check[c].at = at
CheckTo(c, at) == check' = [check EXCEPT ![c].at = at]

(* The check's context ends with it. *)
CheckEnds(c) == check' = [check EXCEPT ![c].at = "done", ![c].live = FALSE]

(* The check's deadline or the daemon's stop. *)
ContextEnds(c) ==
    /\ check[c].live
    /\ check' = [check EXCEPT ![c].live = FALSE]
    /\ UNCHANGED <<client, open, dead, dial, flight, closed>>

-----------------------------------------------------------------------------
(* sshClient: the cached client, or the first of two shared dials. *)
CachedClient(c) ==
    /\ check[c].at \in {"rest", "retry"} /\ ~closed
    /\ check' = [check EXCEPT ![c] =
           [@ EXCEPT !.at = IF client = NoClient THEN "join" ELSE "session",
                     !.client = client, !.reused = client # NoClient, !.attempt = 1]]
    /\ UNCHANGED <<client, open, dead, dial, flight, closed>>

(* DoChan: the call in flight, or a new one under this check's context. *)
Join(c) ==
    /\ CheckAt(c, "join")
    /\ IF flight # 0
       THEN /\ check' = [check EXCEPT ![c].at = Waiting, ![c].call = flight]
            /\ UNCHANGED <<dial, flight>>
       ELSE \E d \in Dials :
              /\ dial[d] = NoDial /\ \A e \in Dials : e < d => dial[e] # NoDial
              /\ dial' = [dial EXCEPT ![d] = [at |-> "look", leader |-> c, result |-> NoClient,
                                              cached |-> FALSE]]
              /\ flight' = d
              /\ check' = [check EXCEPT ![c].at = Waiting, ![c].call = d]
    /\ UNCHANGED <<client, open, dead, closed>>

DialAt(d, at) == dial[d].at = at
Deliver(d, at, result, cached) ==
    dial' = [dial EXCEPT ![d].at = at, ![d].result = result, ![d].cached = cached]

(* The call looks at the cache once more before it dials. *)
LookAgain(d) ==
    /\ DialAt(d, "look")
    /\ IF client # NoClient THEN Deliver(d, "leave", client, TRUE)
       ELSE Deliver(d, "dial", NoClient, FALSE)
    /\ UNCHANGED <<client, open, dead, flight, check, closed>>

DialSucceeds(d) ==
    /\ DialAt(d, "dial")
    /\ Deliver(d, "store", d, FALSE)
    /\ open' = open \cup {d}
    /\ UNCHANGED <<client, dead, flight, check, closed>>

(* A refused connection, or the end of the leader's context. *)
DialFails(d) ==
    /\ DialAt(d, "dial")
    /\ \/ Deliver(d, "leave", Refused, FALSE)
       \/ ~check[dial[d].leader].live /\ Deliver(d, "leave", ContextError, FALSE)
    /\ UNCHANGED <<client, open, dead, flight, check, closed>>

(* Another dial may have been quicker: the cached client wins. *)
StoreClient(d) ==
    /\ DialAt(d, "store")
    /\ IF client # NoClient
       THEN Deliver(d, "leave", client, TRUE) /\ open' = open \ {d} /\ UNCHANGED client
       ELSE Deliver(d, "leave", d, FALSE) /\ client' = d /\ UNCHANGED open
    /\ UNCHANGED <<dead, flight, check, closed>>

(* The call leaves the group and its result is sent to those who wait. *)
DialReturns(d) ==
    /\ DialAt(d, "leave")
    /\ dial' = [dial EXCEPT ![d].at = "done"]
    /\ flight' = IF flight = d THEN 0 ELSE flight
    /\ UNCHANGED <<client, open, dead, check, closed>>

(* A client, an error, or a context's end that was not this check's: then   *)
(* the key is forgotten and a second call joined.                           *)
Receive(c) ==
    LET d == dial[check[c].call]
    IN /\ CheckAt(c, Waiting) /\ d.at = "done"
       /\ IF d.result \in Dials
          THEN /\ check' = [check EXCEPT ![c].at = "session", ![c].client = d.result,
                                         ![c].reused = d.cached]
               /\ UNCHANGED flight
          ELSE IF check[c].live /\ check[c].attempt = 1 /\ d.result = ContextError
          THEN /\ check' = [check EXCEPT ![c].at = "join", ![c].attempt = 2]
               /\ flight' = 0
          ELSE CheckEnds(c) /\ UNCHANGED flight
       /\ UNCHANGED <<client, open, dead, dial, closed>>

Abandon(c) ==
    /\ CheckAt(c, Waiting) /\ ~check[c].live
    /\ CheckEnds(c)
    /\ UNCHANGED <<client, open, dead, dial, flight, closed>>

-----------------------------------------------------------------------------
(* executeSSH: a command, or a client whose connection turns out to be lost *)
RunSession(c) ==
    /\ CheckAt(c, "session")
    /\ IF check[c].client \in dead /\ check[c].reused /\ ~check[c].again
       THEN CheckTo(c, "evict")
       ELSE CheckEnds(c)
    /\ UNCHANGED <<client, open, dead, dial, flight, closed>>

(* Mutant: the cache is cleared whatever client it holds. *)
EvictAny(c) ==
    /\ CheckAt(c, "evict")
    /\ client' = NoClient
    /\ check' = [check EXCEPT ![c].at = "close", ![c].again = TRUE]
    /\ UNCHANGED <<open, dead, dial, flight, closed>>

Evict(c) ==
    /\ CheckAt(c, "evict")
    /\ IF client = check[c].client
       THEN client' = NoClient /\ check' = [check EXCEPT ![c].at = "close", ![c].again = TRUE]
       ELSE UNCHANGED client /\ check' = [check EXCEPT ![c].at = "retry", ![c].again = TRUE]
    /\ UNCHANGED <<open, dead, dial, flight, closed>>

CloseEvicted(c) ==
    /\ CheckAt(c, "close")
    /\ open' = open \ {check[c].client}
    /\ CheckTo(c, "retry")
    /\ UNCHANGED <<client, dead, dial, flight, closed>>

ConnectionLost(d) ==
    /\ d \in open \ dead
    /\ dead' = dead \cup {d}
    /\ UNCHANGED <<client, open, dial, flight, check, closed>>

(* The queue's loop has returned, and with it every check. *)
CloseRunner ==
    /\ \A c \in Checks : check[c].at \in {"rest", "done"}
    /\ ~closed
    /\ closed' = TRUE
    /\ open' = open \ {client} /\ client' = NoClient
    /\ UNCHANGED <<dead, dial, flight, check>>

PoolNext ==
    \/ \E c \in Checks :
          \/ ContextEnds(c) \/ CachedClient(c) \/ Join(c) \/ Receive(c) \/ Abandon(c)
          \/ RunSession(c) \/ Evict(c) \/ CloseEvicted(c)
    \/ \E d \in Dials :
          \/ LookAgain(d) \/ DialSucceeds(d) \/ DialFails(d) \/ StoreClient(d)
          \/ DialReturns(d) \/ ConnectionLost(d)
    \/ CloseRunner

PoolSpec == PoolInit /\ [][PoolNext]_poolVars

-----------------------------------------------------------------------------
(* Until the runner closes, every open client is the cached one, or in the  *)
(* hands of the dial that opened it or of the check that closes it: however *)
(* dials and evictions overlap, no connection is left that nobody can close *)
ClientsAreOwned ==
    ~closed =>
        \A d \in open :
            \/ client = d
            \/ DialAt(d, "store")
            \/ \E c \in Checks : CheckAt(c, "close") /\ check[c].client = d

(* Nobody is handed a client that hugin has closed: evictions, lost races   *)
(* and Close take it out of the cache before they close it.                 *)
CachedIsOpen == client # NoClient => client \in open
=============================================================================

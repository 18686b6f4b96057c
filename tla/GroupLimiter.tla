--------------------------- MODULE GroupLimiter ---------------------------
(***************************************************************************)
(* GroupConcurrency of pkg/tasks (middleware.go): at most Limit handlers    *)
(* of a group run at a time.  Each group in use has a groupState, a channel *)
(* of Limit slots and a count of waiters, which is found through a map and  *)
(* dropped from it when nobody uses it.  Handlers keep a pointer to their   *)
(* state across unlocked steps, so a state dropped too early would live on  *)
(* beside its successor.                                                    *)
(***************************************************************************)
EXTENDS Naturals, FiniteSets

CONSTANTS
    Callers,  \* goroutines that call the wrapped handler, again and again
    Groups,   \* the non-empty groups of their tasks
    States,   \* addresses of groupStates
    Limit     \* the argument of GroupConcurrency

ASSUME LimiterAssumption ==
    /\ IsFiniteSet(Callers)
    /\ Limit \in Nat \ {0}

(* No state: a group that is not in the map, a caller that uses none.       *)
NoState == "nil"

ASSUME NilAssumption == NoState \notin States

VARIABLES
    groups,   \* groupLimiter.groups: the state of each group, or Nil
    len,      \* len(state.ch) of each state
    waiters,  \* state.waiters
    pc,       \* where each caller is
    group,    \* the group of the caller's task
    mine      \* the state the caller points to

limiterVars == <<groups, len, waiters, pc, group, mine>>

(* "select": in the select of Acquire; "granted" and "cancelled": past it,  *)
(* before the deferred block; "handler": in the wrapped handler; "release": *)
(* in release, the slot given back but not yet cleaned up.                  *)
CallerPhases == {"idle", "select", "granted", "cancelled", "handler", "release"}

LimiterTypeOK ==
    /\ groups \in [Groups -> States \cup {NoState}]
    /\ len \in [States -> Nat]
    /\ waiters \in [States -> Nat]
    /\ pc \in [Callers -> CallerPhases]
    /\ group \in [Callers -> Groups]
    /\ mine \in [Callers -> States \cup {NoState}]

LimiterInit ==
    /\ groups = [g \in Groups |-> NoState]
    /\ len = [s \in States |-> 0]
    /\ waiters = [s \in States |-> 0]
    /\ pc = [c \in Callers |-> "idle"]
    /\ group \in [Callers -> Groups]
    /\ mine = [c \in Callers |-> NoState]

-----------------------------------------------------------------------------
(* An address nobody refers to any more: garbage, or never used.            *)
FreshState(s) ==
    /\ \A g \in Groups : groups[g] # s
    /\ \A c \in Callers : mine[c] # s

(* The first locked block of Acquire: find or make the group's state.       *)
Acquire(c, g) ==
    /\ pc[c] = "idle"
    /\ \E s \in States :
          /\ IF groups[g] = NoState THEN FreshState(s) ELSE s = groups[g]
          /\ groups' = [groups EXCEPT ![g] = s]
          /\ len' = [len EXCEPT ![s] = IF groups[g] = NoState THEN 0 ELSE @]
          /\ waiters' = [waiters EXCEPT ![s] =
                            IF groups[g] = NoState THEN 1 ELSE @ + 1]
          /\ mine' = [mine EXCEPT ![c] = s]
    /\ group' = [group EXCEPT ![c] = g]
    /\ pc' = [pc EXCEPT ![c] = "select"]

(* A task without a group goes straight to the handler.                     *)
AcquireUngrouped(c) ==
    /\ pc[c] = "idle"
    /\ pc' = [pc EXCEPT ![c] = "handler"]
    /\ UNCHANGED <<groups, len, waiters, group, mine>>

Grant(c) ==
    /\ pc[c] = "select"
    /\ len[mine[c]] < Limit
    /\ len' = [len EXCEPT ![mine[c]] = @ + 1]
    /\ pc' = [pc EXCEPT ![c] = "granted"]
    /\ UNCHANGED <<groups, waiters, group, mine>>

(* The task's context is done first.                                        *)
CancelWait(c) ==
    /\ pc[c] = "select"
    /\ pc' = [pc EXCEPT ![c] = "cancelled"]
    /\ UNCHANGED <<groups, len, waiters, group, mine>>

(* Mutants: the state is dropped while it has waiters, or while it has      *)
(* holders.                                                                 *)
CleanupIgnoresWaiters(c, w) ==
    IF groups[group[c]] = mine[c] /\ len[mine[c]] = 0
    THEN groups' = [groups EXCEPT ![group[c]] = NoState]
    ELSE UNCHANGED groups

(* cleanupGroupLocked, with w waiters left: drop the state when it is still *)
(* the group's and nobody holds or awaits a slot of it.                     *)
Cleanup(c, w) ==
    IF groups[group[c]] = mine[c] /\ len[mine[c]] = 0 /\ w = 0
    THEN groups' = [groups EXCEPT ![group[c]] = NoState]
    ELSE UNCHANGED groups

(* The deferred locked block of Acquire.                                    *)
Leave(c) ==
    /\ pc[c] \in {"granted", "cancelled"}
    /\ waiters' = [waiters EXCEPT ![mine[c]] = @ - 1]
    /\ Cleanup(c, waiters[mine[c]] - 1)
    /\ pc' = [pc EXCEPT ![c] = IF pc[c] = "granted" THEN "handler" ELSE "idle"]
    /\ mine' = [mine EXCEPT ![c] = IF pc[c] = "granted" THEN @ ELSE NoState]
    /\ UNCHANGED <<len, group>>

(* The handler returns: release gives the slot back ...                     *)
Release(c) ==
    /\ pc[c] = "handler"
    /\ mine[c] # NoState
    /\ len[mine[c]] > 0
    /\ len' = [len EXCEPT ![mine[c]] = @ - 1]
    /\ pc' = [pc EXCEPT ![c] = "release"]
    /\ UNCHANGED <<groups, waiters, group, mine>>

(* ... and then, under the lock, cleans up.                                 *)
ReleaseCleanup(c) ==
    /\ pc[c] = "release"
    /\ Cleanup(c, waiters[mine[c]])
    /\ pc' = [pc EXCEPT ![c] = "idle"]
    /\ mine' = [mine EXCEPT ![c] = NoState]
    /\ UNCHANGED <<len, waiters, group>>

ReleaseUngrouped(c) ==
    /\ pc[c] = "handler"
    /\ mine[c] = NoState
    /\ pc' = [pc EXCEPT ![c] = "idle"]
    /\ UNCHANGED <<groups, len, waiters, group, mine>>

-----------------------------------------------------------------------------
LeaveLimiter(c) == Leave(c) \/ Release(c) \/ ReleaseCleanup(c) \/ ReleaseUngrouped(c)

EnterLimiter(c) ==
    \/ \E g \in Groups : Acquire(c, g)
    \/ AcquireUngrouped(c)

LimiterNext == \E c \in Callers : EnterLimiter(c) \/ Grant(c) \/ CancelWait(c) \/ LeaveLimiter(c)

LimiterSpec == LimiterInit /\ [][LimiterNext]_limiterVars

-----------------------------------------------------------------------------
Holding(s) == {c \in Callers : mine[c] = s /\ pc[c] \in {"granted", "handler"}}

Running(g) ==
    {c \in Callers : group[c] = g /\ mine[c] # NoState /\ pc[c] \in {"granted", "handler"}}

(* The middleware's promise: at most Limit calls of a group are past the    *)
(* limiter, over all states the group ever had.                             *)
GroupLimit == \A g \in Groups : Cardinality(Running(g)) <= Limit

(* A caller that waits for or holds a slot is on the group's current state: *)
(* nobody waits on a channel that no release will ever empty.               *)
NobodyStranded ==
    \A c \in Callers :
        \/ pc[c] \in {"idle", "release"}
        \/ pc[c] = "handler" /\ mine[c] = NoState
        \/ groups[group[c]] = mine[c]

(* The map holds only states that some call still uses: an idle limiter     *)
(* keeps no groups.                                                         *)
NoLeak ==
    \A g \in Groups :
        groups[g] # NoState => \E c \in Callers : mine[c] = groups[g] /\ pc[c] # "idle"

(* Release takes the caller's own slot back; it never waits.                *)
ReleaseNeverBlocks ==
    \A c \in Callers : pc[c] = "handler" /\ mine[c] # NoState => len[mine[c]] > 0
=============================================================================

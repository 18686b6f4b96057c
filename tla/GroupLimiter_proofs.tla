------------------------ MODULE GroupLimiter_proofs ------------------------
(***************************************************************************)
(* Proofs about GroupLimiter, for any number of callers and groups and any *)
(* limit.  The counters of a state are the sizes of the sets of callers    *)
(* that hold and await its slots; a state belongs to one group; so a state *)
(* whose counters are zero has no user, and dropping it strands nobody.    *)
(***************************************************************************)
EXTENDS GroupLimiter, FiniteSetTheorems, TLAPS

Awaiting(s) ==
    {c \in Callers : mine[c] = s /\ pc[c] \in {"select", "granted", "cancelled"}}

Counted ==
    \A s \in States :
        /\ len[s] = Cardinality(Holding(s))
        /\ waiters[s] = Cardinality(Awaiting(s))
        /\ len[s] <= Limit

Pointers ==
    \A c \in Callers :
        /\ pc[c] = "idle" => mine[c] = NoState
        /\ pc[c] \in {"select", "granted", "cancelled", "release"} => mine[c] # NoState

(* A state serves one group, and its users are of that group.               *)
OneGroup ==
    /\ \A c \in Callers, g \in Groups :
          (mine[c] # NoState /\ groups[g] = mine[c]) => group[c] = g
    /\ \A g, h \in Groups : (groups[g] # NoState /\ groups[g] = groups[h]) => g = h

LInv ==
    /\ LimiterTypeOK
    /\ Counted
    /\ Pointers
    /\ OneGroup
    /\ NobodyStranded
    /\ NoLeak

-----------------------------------------------------------------------------
LEMMA UsersAreFinite ==
    ASSUME NEW s
    PROVE  IsFiniteSet(Holding(s)) /\ IsFiniteSet(Awaiting(s))
<1>1. Holding(s) \in SUBSET Callers /\ Awaiting(s) \in SUBSET Callers
  BY DEF Holding, Awaiting
<1> QED
  BY <1>1, FS_Subset, LimiterAssumption

LEMMA InitLInv == LimiterInit => LInv
<1> SUFFICES ASSUME LimiterInit PROVE LInv
  OBVIOUS
<1>1. LimiterTypeOK
  BY DEF LimiterInit, LimiterTypeOK, CallerPhases
<1>2. \A s \in States : Holding(s) = {} /\ Awaiting(s) = {}
  BY DEF LimiterInit, Holding, Awaiting
<1>3. Counted
  BY <1>2, FS_EmptySet, LimiterAssumption DEF Counted, LimiterInit
<1>4. Pointers /\ OneGroup /\ NobodyStranded /\ NoLeak
  BY DEF LimiterInit, Pointers, OneGroup, NobodyStranded, NoLeak
<1> QED
  BY <1>1, <1>3, <1>4 DEF LInv

-----------------------------------------------------------------------------
(* Acquire joins the current state of the group, or a fresh one.            *)
LEMMA AcquireStep ==
    ASSUME LInv, NEW c \in Callers, NEW g \in Groups, Acquire(c, g)
    PROVE  LInv'
<1> USE DEF LInv
<1>1. PICK s \in States :
         /\ IF groups[g] = NoState THEN FreshState(s) ELSE s = groups[g]
         /\ groups' = [groups EXCEPT ![g] = s]
         /\ len' = [len EXCEPT ![s] = IF groups[g] = NoState THEN 0 ELSE @]
         /\ waiters' = [waiters EXCEPT ![s] =
                           IF groups[g] = NoState THEN 1 ELSE @ + 1]
         /\ mine' = [mine EXCEPT ![c] = s]
  BY DEF Acquire
<1>2. /\ pc[c] = "idle" /\ mine[c] = NoState /\ s # NoState
      /\ group' = [group EXCEPT ![c] = g]
      /\ pc' = [pc EXCEPT ![c] = "select"]
  BY NilAssumption DEF Acquire, Pointers
<1>3. LimiterTypeOK'
  BY <1>1, <1>2 DEF LimiterTypeOK, CallerPhases
<1>4. /\ mine'[c] = s /\ pc'[c] = "select" /\ group'[c] = g
      /\ groups'[g] = s
      /\ \A d \in Callers : d # c => /\ mine'[d] = mine[d]
                                     /\ pc'[d] = pc[d]
                                     /\ group'[d] = group[d]
      /\ \A h \in Groups : h # g => groups'[h] = groups[h]
  BY <1>1, <1>2 DEF LimiterTypeOK
<1>5. Counted'
  <2> SUFFICES ASSUME NEW u \in States
               PROVE  /\ len'[u] = Cardinality(Holding(u)')
                      /\ waiters'[u] = Cardinality(Awaiting(u)')
                      /\ len'[u] <= Limit
    BY DEF Counted
  <2>1. Holding(u)' = Holding(u)
    BY <1>2, <1>4 DEF Holding
  <2>2. u # s => Awaiting(u)' = Awaiting(u)
    BY <1>2, <1>4 DEF Awaiting
  <2>3. u = s => Awaiting(u)' = Awaiting(u) \cup {c}
    BY <1>2, <1>4 DEF Awaiting
  <2>4. c \notin Awaiting(u)
    BY <1>2 DEF Awaiting
  <2>5. IsFiniteSet(Awaiting(u))
    BY UsersAreFinite
  <2>6. u = s => Cardinality(Awaiting(u)') = Cardinality(Awaiting(u)) + 1
    BY <2>3, <2>4, <2>5, FS_AddElement
  <2>7. CASE u # s
    BY <1>1, <2>1, <2>2, <2>7 DEF Counted, LimiterTypeOK
  <2>8. CASE u = s /\ groups[g] = NoState
    <3>1. Holding(u) = {} /\ Awaiting(u) = {}
      BY <1>1, <2>8 DEF FreshState, Holding, Awaiting
    <3>2. len'[u] = 0 /\ waiters'[u] = 1
      BY <1>1, <2>8 DEF LimiterTypeOK
    <3> QED
      BY <2>1, <2>6, <2>8, <3>1, <3>2, FS_EmptySet, LimiterAssumption
  <2>9. CASE u = s /\ groups[g] # NoState
    <3>1. len'[u] = len[u] /\ waiters'[u] = waiters[u] + 1
      BY <1>1, <2>9 DEF LimiterTypeOK
    <3> QED
      BY <2>1, <2>6, <2>9, <3>1 DEF Counted
  <2> QED
    BY <2>7, <2>8, <2>9
<1>6. Pointers'
  BY <1>2, <1>4 DEF Pointers
<1>7. OneGroup'
  <2>1. CASE groups[g] = NoState
    BY <1>1, <1>4, <2>1 DEF OneGroup, FreshState
  <2>2. CASE groups[g] # NoState
    BY <1>1, <1>2, <1>4, <2>2 DEF OneGroup
  <2> QED
    BY <2>1, <2>2
<1>8. NobodyStranded'
  <2> SUFFICES ASSUME NEW d \in Callers, d # c
               PROVE  \/ pc'[d] \in {"idle", "release"}
                      \/ pc'[d] = "handler" /\ mine'[d] = NoState
                      \/ groups'[group'[d]] = mine'[d]
    BY <1>4 DEF NobodyStranded
  <2>1. CASE group[d] = g
    <3>1. groups[g] = NoState => mine[d] # s /\ mine[d] \in States \cup {NoState}
      BY <1>1 DEF FreshState, LimiterTypeOK
    <3> QED
      BY <1>1, <1>4, <2>1, <3>1 DEF NobodyStranded, Pointers, LimiterTypeOK, CallerPhases
  <2>2. CASE group[d] # g
    BY <1>4, <2>2 DEF NobodyStranded, LimiterTypeOK
  <2> QED
    BY <2>1, <2>2
<1>9. NoLeak'
  <2> SUFFICES ASSUME NEW h \in Groups, h # g, groups[h] # NoState
               PROVE  \E d \in Callers : mine'[d] = groups'[h] /\ pc'[d] # "idle"
    BY <1>4 DEF NoLeak
  <2>1. PICK d \in Callers : mine[d] = groups[h] /\ pc[d] # "idle"
    BY DEF NoLeak
  <2> QED
    BY <1>2, <1>4, <2>1
<1> QED
  BY <1>3, <1>5, <1>6, <1>7, <1>8, <1>9

(* Steps of one caller that keep every pointer and stay inside a call.      *)
LEMMA StayStep ==
    ASSUME LInv, LimiterTypeOK', Counted', NEW c \in Callers,
           UNCHANGED <<groups, group, mine>>,
           \A d \in Callers : d # c => pc'[d] = pc[d],
           mine[c] # NoState, pc'[c] # "idle", pc[c] # "release", pc[c] # "idle"
    PROVE  LInv'
<1>1. Pointers' /\ OneGroup'
  BY DEF LInv, Pointers, OneGroup
<1>2. NobodyStranded'
  <2>1. groups[group[c]] = mine[c]
    BY DEF LInv, NobodyStranded
  <2> QED
    BY <2>1 DEF LInv, NobodyStranded
<1>3. NoLeak'
  <2> SUFFICES ASSUME NEW h \in Groups, groups[h] # NoState
               PROVE  \E d \in Callers : mine'[d] = groups[h] /\ pc'[d] # "idle"
    BY DEF NoLeak
  <2>1. PICK d \in Callers : mine[d] = groups[h] /\ pc[d] # "idle"
    BY DEF LInv, NoLeak
  <2> QED
    BY <2>1
<1> QED
  BY <1>1, <1>2, <1>3 DEF LInv

LEMMA GrantStep ==
    ASSUME LInv, NEW c \in Callers, Grant(c)
    PROVE  LInv'
<1> DEFINE s == mine[c]
<1>1. /\ pc[c] = "select" /\ s # NoState /\ s \in States
      /\ len[s] < Limit
      /\ len' = [len EXCEPT ![s] = @ + 1]
      /\ pc' = [pc EXCEPT ![c] = "granted"]
      /\ UNCHANGED <<groups, waiters, group, mine>>
  BY DEF Grant, LInv, Pointers, LimiterTypeOK
<1>2. LimiterTypeOK'
  BY <1>1 DEF LInv, LimiterTypeOK, CallerPhases
<1>3. /\ pc'[c] = "granted"
      /\ \A d \in Callers : d # c => pc'[d] = pc[d]
  BY <1>1 DEF LInv, LimiterTypeOK
<1>4. Counted'
  <2> SUFFICES ASSUME NEW u \in States
               PROVE  /\ len'[u] = Cardinality(Holding(u)')
                      /\ waiters'[u] = Cardinality(Awaiting(u)')
                      /\ len'[u] <= Limit
    BY DEF Counted
  <2>1. Awaiting(u)' = Awaiting(u)
    BY <1>1, <1>3 DEF Awaiting
  <2>2. CASE u # s
    <3>1. Holding(u)' = Holding(u)
      BY <1>1, <1>3, <2>2 DEF Holding
    <3> QED
      BY <1>1, <2>1, <2>2, <3>1 DEF LInv, Counted, LimiterTypeOK
  <2>3. CASE u = s
    <3>1. Holding(u)' = Holding(u) \cup {c} /\ c \notin Holding(u)
      BY <1>1, <1>3, <2>3 DEF Holding
    <3>2. Cardinality(Holding(u)') = Cardinality(Holding(u)) + 1
      BY <3>1, UsersAreFinite, FS_AddElement
    <3>3. len'[u] = len[u] + 1 /\ len[u] \in Nat
      BY <1>1, <2>3 DEF LInv, LimiterTypeOK
    <3> QED
      BY <1>1, <2>1, <2>3, <3>2, <3>3, LimiterAssumption DEF LInv, Counted
  <2> QED
    BY <2>2, <2>3
<1> QED
  BY <1>1, <1>2, <1>3, <1>4, StayStep

LEMMA CancelStep ==
    ASSUME LInv, NEW c \in Callers, CancelWait(c)
    PROVE  LInv'
<1>1. /\ pc[c] = "select" /\ mine[c] # NoState
      /\ pc' = [pc EXCEPT ![c] = "cancelled"]
      /\ UNCHANGED <<groups, len, waiters, group, mine>>
  BY DEF CancelWait, LInv, Pointers
<1>2. LimiterTypeOK'
  BY <1>1 DEF LInv, LimiterTypeOK, CallerPhases
<1>3. /\ pc'[c] = "cancelled"
      /\ \A d \in Callers : d # c => pc'[d] = pc[d]
  BY <1>1 DEF LInv, LimiterTypeOK
<1>4. \A u \in States : Holding(u)' = Holding(u) /\ Awaiting(u)' = Awaiting(u)
  BY <1>1, <1>3 DEF Holding, Awaiting
<1>5. Counted'
  BY <1>1, <1>4 DEF LInv, Counted
<1> QED
  BY <1>1, <1>2, <1>3, <1>5, StayStep

(* The slot a handler holds is there to be given back.                      *)
LEMMA HolderHasSlot ==
    ASSUME LInv, NEW c \in Callers, mine[c] # NoState, pc[c] \in {"granted", "handler"}
    PROVE  mine[c] \in States /\ len[mine[c]] \in Nat /\ len[mine[c]] > 0
<1>1. mine[c] \in States /\ len[mine[c]] \in Nat
  BY DEF LInv, LimiterTypeOK
<1>2. c \in Holding(mine[c])
  BY DEF Holding
<1>3. Cardinality(Holding(mine[c])) # 0
  BY <1>2, UsersAreFinite, FS_EmptySet
<1> QED
  BY <1>1, <1>3 DEF LInv, Counted

LEMMA ReleaseStep ==
    ASSUME LInv, NEW c \in Callers, Release(c)
    PROVE  LInv'
<1> DEFINE s == mine[c]
<1>1. /\ pc[c] = "handler" /\ s # NoState /\ s \in States
      /\ len[s] > 0
      /\ len' = [len EXCEPT ![s] = @ - 1]
      /\ pc' = [pc EXCEPT ![c] = "release"]
      /\ UNCHANGED <<groups, waiters, group, mine>>
  BY DEF Release, LInv, LimiterTypeOK
<1>2. LimiterTypeOK'
  BY <1>1 DEF LInv, LimiterTypeOK, CallerPhases
<1>3. /\ pc'[c] = "release"
      /\ \A d \in Callers : d # c => pc'[d] = pc[d]
  BY <1>1 DEF LInv, LimiterTypeOK
<1>4. Counted'
  <2> SUFFICES ASSUME NEW u \in States
               PROVE  /\ len'[u] = Cardinality(Holding(u)')
                      /\ waiters'[u] = Cardinality(Awaiting(u)')
                      /\ len'[u] <= Limit
    BY DEF Counted
  <2>1. Awaiting(u)' = Awaiting(u)
    BY <1>1, <1>3 DEF Awaiting
  <2>2. CASE u # s
    <3>1. Holding(u)' = Holding(u)
      BY <1>1, <1>3, <2>2 DEF Holding
    <3> QED
      BY <1>1, <2>1, <2>2, <3>1 DEF LInv, Counted, LimiterTypeOK
  <2>3. CASE u = s
    <3>1. Holding(u)' = Holding(u) \ {c} /\ c \in Holding(u)
      BY <1>1, <1>3, <2>3 DEF Holding
    <3>2. Cardinality(Holding(u)') = Cardinality(Holding(u)) - 1
      BY <3>1, UsersAreFinite, FS_RemoveElement
    <3>3. len'[u] = len[u] - 1 /\ len[u] \in Nat
      BY <1>1, <2>3 DEF LInv, LimiterTypeOK
    <3> QED
      BY <1>1, <2>1, <2>3, <3>2, <3>3, LimiterAssumption DEF LInv, Counted
  <2> QED
    BY <2>2, <2>3
<1> QED
  BY <1>1, <1>2, <1>3, <1>4, StayStep

(* A task without a group touches nothing of the limiter.                   *)
LEMMA UngroupedStep ==
    ASSUME LInv, NEW c \in Callers, AcquireUngrouped(c) \/ ReleaseUngrouped(c)
    PROVE  LInv'
<1>1. /\ mine[c] = NoState /\ pc[c] \in {"idle", "handler"}
      /\ \/ pc' = [pc EXCEPT ![c] = "handler"]
         \/ pc' = [pc EXCEPT ![c] = "idle"]
      /\ UNCHANGED <<groups, len, waiters, group, mine>>
  BY DEF AcquireUngrouped, ReleaseUngrouped, LInv, Pointers
<1>2. LimiterTypeOK'
  BY <1>1 DEF LInv, LimiterTypeOK, CallerPhases
<1>3. /\ pc'[c] \in {"idle", "handler"}
      /\ \A d \in Callers : d # c => pc'[d] = pc[d]
  BY <1>1 DEF LInv, LimiterTypeOK
<1>4. \A u \in States : Holding(u)' = Holding(u) /\ Awaiting(u)' = Awaiting(u)
  BY <1>1, <1>3, NilAssumption DEF Holding, Awaiting
<1>5. Counted'
  BY <1>1, <1>4 DEF LInv, Counted
<1>6. Pointers' /\ OneGroup' /\ NobodyStranded'
  BY <1>1, <1>3 DEF LInv, Pointers, OneGroup, NobodyStranded
<1>7. NoLeak'
  <2> SUFFICES ASSUME NEW h \in Groups, groups[h] # NoState
               PROVE  \E d \in Callers : mine'[d] = groups[h] /\ pc'[d] # "idle"
    BY <1>1 DEF NoLeak
  <2>1. PICK d \in Callers : mine[d] = groups[h] /\ pc[d] # "idle"
    BY DEF LInv, NoLeak
  <2> QED
    BY <1>1, <1>3, <2>1
<1> QED
  BY <1>2, <1>5, <1>6, <1>7 DEF LInv

-----------------------------------------------------------------------------
(* A caller that leaves the limiter, its counters already settled.          *)
LEMMA DepartStep ==
    ASSUME LInv, NEW c \in Callers, LimiterTypeOK', Counted',
           pc[c] \in {"cancelled", "release"},
           Cleanup(c, waiters'[mine[c]]),
           pc' = [pc EXCEPT ![c] = "idle"], mine' = [mine EXCEPT ![c] = NoState],
           len' = len, group' = group
    PROVE  LInv'
<1>0. PICK s \in States, g \in Groups : s = mine[c] /\ g = group[c]
  BY DEF LInv, LimiterTypeOK, Pointers
<1>1. s # NoState /\ Cleanup(c, waiters'[s])
  BY <1>0 DEF LInv, Pointers
<1>2. /\ pc'[c] = "idle" /\ mine'[c] = NoState
      /\ \A d \in Callers : d # c => pc'[d] = pc[d] /\ mine'[d] = mine[d]
  BY DEF LInv, LimiterTypeOK
<1>3. IsFiniteSet(Holding(s)') /\ IsFiniteSet(Awaiting(s)')
  <2>1. Holding(s)' \in SUBSET Callers /\ Awaiting(s)' \in SUBSET Callers
    BY DEF Holding, Awaiting
  <2> QED
    BY <2>1, FS_Subset, LimiterAssumption
<1>4. /\ len'[s] = 0 <=> Holding(s)' = {}
      /\ waiters'[s] = 0 <=> Awaiting(s)' = {}
  <2>1. /\ len'[s] = Cardinality(Holding(s)')
        /\ waiters'[s] = Cardinality(Awaiting(s)')
    BY DEF Counted
  <2> QED
    BY <1>3, <2>1, FS_EmptySet
<1>5. Pointers'
  BY <1>2 DEF LInv, Pointers
<1>6. CASE groups[g] = s /\ len[s] = 0 /\ waiters'[s] = 0
  <2>1. groups' = [groups EXCEPT ![g] = NoState]
    BY <1>0, <1>1, <1>6 DEF Cleanup
  <2>2. Holding(s)' = {} /\ Awaiting(s)' = {}
    BY <1>4, <1>6
  <2>3. groups'[g] = NoState /\ \A h \in Groups : h # g => groups'[h] = groups[h]
    BY <1>1, <2>1 DEF LInv, LimiterTypeOK
  <2>4. OneGroup'
    BY <1>2, <2>3 DEF LInv, OneGroup
  <2>5. NobodyStranded'
    <3> SUFFICES ASSUME NEW d \in Callers, d # c,
                        pc[d] \notin {"idle", "release"},
                        ~(pc[d] = "handler" /\ mine[d] = NoState)
                 PROVE  groups'[group[d]] = mine[d]
      BY <1>2 DEF NobodyStranded
    <3>1. groups[group[d]] = mine[d] /\ group[d] \in Groups
      BY DEF LInv, NobodyStranded, LimiterTypeOK
    <3>2. mine[d] # s
      BY <1>2, <2>2 DEF Holding, Awaiting, LInv, LimiterTypeOK, CallerPhases
    <3> QED
      BY <1>6, <2>3, <3>1, <3>2
  <2>6. NoLeak'
    <3> SUFFICES ASSUME NEW h \in Groups, h # g, groups[h] # NoState
                 PROVE  \E d \in Callers : mine'[d] = groups[h] /\ pc'[d] # "idle"
      BY <2>3 DEF NoLeak
    <3>1. PICK d \in Callers : mine[d] = groups[h] /\ pc[d] # "idle"
      BY DEF LInv, NoLeak
    <3>2. d # c
      BY <1>0, <1>1, <1>6, <3>1 DEF LInv, OneGroup
    <3> QED
      BY <1>2, <3>1, <3>2
  <2> QED
    BY <1>5, <2>4, <2>5, <2>6 DEF LInv
<1>7. CASE ~(groups[g] = s /\ len[s] = 0 /\ waiters'[s] = 0)
  <2>1. groups' = groups
    BY <1>0, <1>1, <1>7 DEF Cleanup
  <2>2. OneGroup' /\ NobodyStranded'
    BY <1>2, <2>1 DEF LInv, OneGroup, NobodyStranded
  <2>3. NoLeak'
    <3> SUFFICES ASSUME NEW h \in Groups, groups[h] # NoState
                 PROVE  \E d \in Callers : mine'[d] = groups[h] /\ pc'[d] # "idle"
      BY <2>1 DEF NoLeak
    <3>1. CASE h # g
      <4>1. PICK d \in Callers : mine[d] = groups[h] /\ pc[d] # "idle"
        BY DEF LInv, NoLeak
      <4>2. d # c
        BY <1>0, <1>1, <3>1, <4>1 DEF LInv, OneGroup
      <4> QED
        BY <1>2, <4>1, <4>2
    <3>2. CASE h = g /\ groups[g] # s
      <4>1. PICK d \in Callers : mine[d] = groups[h] /\ pc[d] # "idle"
        BY DEF LInv, NoLeak
      <4> QED
        BY <1>0, <1>2, <3>2, <4>1
    <3>3. CASE h = g /\ groups[g] = s
      <4>1. Holding(s)' # {} \/ Awaiting(s)' # {}
        BY <1>4, <1>7, <3>3
      <4>2. PICK d \in Callers : mine'[d] = s /\ pc'[d] # "idle"
        BY <4>1 DEF Holding, Awaiting
      <4> QED
        BY <3>3, <4>2
    <3> QED
      BY <3>1, <3>2, <3>3
  <2> QED
    BY <1>5, <2>2, <2>3 DEF LInv
<1> QED
  BY <1>6, <1>7

LEMMA ReleaseCleanupStep ==
    ASSUME LInv, NEW c \in Callers, ReleaseCleanup(c)
    PROVE  LInv'
<1>1. /\ pc[c] = "release" /\ mine[c] \in States
      /\ Cleanup(c, waiters[mine[c]])
      /\ pc' = [pc EXCEPT ![c] = "idle"] /\ mine' = [mine EXCEPT ![c] = NoState]
      /\ UNCHANGED <<len, waiters, group>>
  BY DEF ReleaseCleanup, LInv, LimiterTypeOK, Pointers
<1>2. LimiterTypeOK'
  BY <1>1 DEF LInv, LimiterTypeOK, CallerPhases, Cleanup
<1>3. /\ pc'[c] = "idle" /\ mine'[c] = NoState
      /\ \A d \in Callers : d # c => pc'[d] = pc[d] /\ mine'[d] = mine[d]
  BY <1>1 DEF LInv, LimiterTypeOK
<1>4. \A u \in States : Holding(u)' = Holding(u) /\ Awaiting(u)' = Awaiting(u)
  BY <1>1, <1>3 DEF Holding, Awaiting
<1>5. Counted'
  BY <1>1, <1>4 DEF LInv, Counted
<1> QED
  BY <1>1, <1>2, <1>5, DepartStep

LEMMA LeaveStep ==
    ASSUME LInv, NEW c \in Callers, Leave(c)
    PROVE  LInv'
<1> DEFINE s == mine[c]
<1>1. /\ pc[c] \in {"granted", "cancelled"} /\ s \in States /\ s # NoState
      /\ waiters' = [waiters EXCEPT ![s] = @ - 1]
      /\ Cleanup(c, waiters[s] - 1)
      /\ pc' = [pc EXCEPT ![c] = IF pc[c] = "granted" THEN "handler" ELSE "idle"]
      /\ mine' = [mine EXCEPT ![c] = IF pc[c] = "granted" THEN @ ELSE NoState]
      /\ UNCHANGED <<len, group>>
  BY DEF Leave, LInv, LimiterTypeOK, Pointers
<1>2. c \in Awaiting(s)
  BY <1>1 DEF Awaiting
<1>3. waiters[s] \in Nat /\ waiters[s] > 0
  <2>1. Cardinality(Awaiting(s)) # 0
    BY <1>2, UsersAreFinite, FS_EmptySet
  <2> QED
    BY <1>1, <2>1 DEF LInv, Counted, LimiterTypeOK
<1>4. /\ waiters'[s] = waiters[s] - 1
      /\ \A u \in States : u # s => waiters'[u] = waiters[u]
      /\ waiters' \in [States -> Nat]
  BY <1>1, <1>3 DEF LInv, LimiterTypeOK
<1>5. /\ pc'[c] = IF pc[c] = "granted" THEN "handler" ELSE "idle"
      /\ mine'[c] = IF pc[c] = "granted" THEN s ELSE NoState
      /\ \A d \in Callers : d # c => pc'[d] = pc[d] /\ mine'[d] = mine[d]
  BY <1>1 DEF LInv, LimiterTypeOK
<1>6. LimiterTypeOK'
  BY <1>1, <1>4 DEF LInv, LimiterTypeOK, CallerPhases, Cleanup
<1>7. Counted'
  <2> SUFFICES ASSUME NEW u \in States
               PROVE  /\ len'[u] = Cardinality(Holding(u)')
                      /\ waiters'[u] = Cardinality(Awaiting(u)')
                      /\ len'[u] <= Limit
    BY DEF Counted
  <2>1. Holding(u)' = Holding(u)
    BY <1>1, <1>5, NilAssumption DEF Holding
  <2>2. CASE u # s
    <3>1. Awaiting(u)' = Awaiting(u)
      BY <1>1, <1>5, <2>2, NilAssumption DEF Awaiting
    <3> QED
      BY <1>1, <1>4, <2>1, <2>2, <3>1 DEF LInv, Counted
  <2>3. CASE u = s
    <3>1. Awaiting(u)' = Awaiting(u) \ {c}
      BY <1>1, <1>5, <2>3 DEF Awaiting
    <3>2. Cardinality(Awaiting(u)') = Cardinality(Awaiting(u)) - 1
      BY <1>2, <2>3, <3>1, UsersAreFinite, FS_RemoveElement
    <3> QED
      BY <1>1, <1>4, <2>1, <2>3, <3>2 DEF LInv, Counted
  <2> QED
    BY <2>2, <2>3
<1>8. CASE pc[c] = "granted"
  <2>1. len[s] \in Nat /\ len[s] > 0
    BY <1>1, <1>8, HolderHasSlot
  <2>2. groups' = groups
    BY <1>1, <2>1 DEF Cleanup
  <2>3. mine' = mine
    BY <1>1, <1>8 DEF LInv, LimiterTypeOK
  <2> QED
    BY <1>1, <1>5, <1>6, <1>7, <1>8, <2>2, <2>3, StayStep
<1>9. CASE pc[c] = "cancelled"
  BY <1>1, <1>4, <1>6, <1>7, <1>9, DepartStep
<1> QED
  BY <1>1, <1>8, <1>9

LEMMA NextLInv == LInv /\ [LimiterNext]_limiterVars => LInv'
<1> SUFFICES ASSUME LInv, [LimiterNext]_limiterVars PROVE LInv'
  OBVIOUS
<1>1. CASE UNCHANGED limiterVars
  <2>1. \A u \in States : Holding(u)' = Holding(u) /\ Awaiting(u)' = Awaiting(u)
    BY <1>1 DEF limiterVars, Holding, Awaiting
  <2> QED
    BY <1>1, <2>1 DEF limiterVars, LInv, LimiterTypeOK, Counted, Pointers, OneGroup,
                      NobodyStranded, NoLeak
<1>2. ASSUME NEW c \in Callers, EnterLimiter(c) \/ Grant(c) \/ CancelWait(c) \/ LeaveLimiter(c)
      PROVE  LInv'
  BY <1>2, AcquireStep, GrantStep, CancelStep, ReleaseStep, UngroupedStep,
     ReleaseCleanupStep, LeaveStep DEF EnterLimiter, LeaveLimiter
<1> QED
  BY <1>1, <1>2 DEF LimiterNext

-----------------------------------------------------------------------------
(* The limiter keeps its inductive invariant.                               *)
THEOREM LimiterInvariant == LimiterSpec => []LInv
<1> QED
  BY InitLInv, NextLInv, PTL DEF LimiterSpec

(* At most Limit handlers of a group run at a time.                         *)
THEOREM LimiterLimit == LimiterSpec => []GroupLimit
<1>1. LInv => GroupLimit
  <2> SUFFICES ASSUME LInv, NEW g \in Groups
               PROVE  Cardinality(Running(g)) <= Limit
    BY DEF GroupLimit
  <2>1. CASE groups[g] = NoState
    <3>1. Running(g) = {}
      BY <2>1 DEF Running, LInv, NobodyStranded
    <3> QED
      BY <3>1, FS_EmptySet, LimiterAssumption
  <2>2. CASE groups[g] # NoState
    <3>1. groups[g] \in States
      BY <2>2 DEF LInv, LimiterTypeOK
    <3>2. Running(g) \in SUBSET Holding(groups[g])
      BY DEF Running, Holding, LInv, NobodyStranded
    <3>3. Cardinality(Running(g)) <= Cardinality(Holding(groups[g]))
      BY <3>2, UsersAreFinite, FS_Subset
    <3>4. IsFiniteSet(Running(g))
      BY <3>2, UsersAreFinite, FS_Subset
    <3>5. Cardinality(Running(g)) \in Nat /\ Cardinality(Holding(groups[g])) \in Nat
      BY <3>4, UsersAreFinite, FS_CardinalityType
    <3>6. Cardinality(Holding(groups[g])) <= Limit
      BY <3>1 DEF LInv, Counted
    <3> QED
      BY <3>3, <3>5, <3>6, LimiterAssumption
  <2> QED
    BY <2>1, <2>2
<1> QED
  BY <1>1, LimiterInvariant, PTL

(* Nobody waits for, or holds a slot of, a state the group has left behind. *)
THEOREM LimiterNobodyStranded == LimiterSpec => []NobodyStranded
<1>1. LInv => NobodyStranded
  BY DEF LInv
<1> QED
  BY <1>1, LimiterInvariant, PTL

(* A group nobody uses is not in the map.                                   *)
THEOREM LimiterNoLeak == LimiterSpec => []NoLeak
<1>1. LInv => NoLeak
  BY DEF LInv
<1> QED
  BY <1>1, LimiterInvariant, PTL

(* Release never waits for a slot.                                          *)
THEOREM LimiterRelease == LimiterSpec => []ReleaseNeverBlocks
<1>1. LInv => ReleaseNeverBlocks
  BY HolderHasSlot DEF ReleaseNeverBlocks
<1> QED
  BY <1>1, LimiterInvariant, PTL
=============================================================================

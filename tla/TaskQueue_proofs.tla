-------------------------- MODULE TaskQueue_proofs --------------------------
(***************************************************************************)
(* Proofs about TaskQueue, for any tasks, processes, leases and schedules. *)
(*                                                                         *)
(* The inductive invariant IInv adds to the invariants TLC checks the      *)
(* token discipline: a token in use was generated, two processes never     *)
(* work under the same token, and a process outside runClaimed holds no    *)
(* claim.  Fresh tokens are what makes a stale claim harmless: the moment  *)
(* another process claims the row, its token differs from every token in   *)
(* use, and Owns is false for every older claim.                           *)
(***************************************************************************)
EXTENDS TaskQueue, TLAPS

TokenDiscipline ==
    /\ \A t \in Stored : rows[t].token <= tokens
    /\ \A q \in Queues : token[q] <= tokens
    /\ \A q, r \in Queues : (token[q] # NoToken /\ token[q] = token[r]) => q = r

ClaimsOnlyInRun ==
    \A q \in Queues : pc[q] # "run" => claims[q] = NoClaims

IInv ==
    /\ TypeOK
    /\ TokenDiscipline
    /\ ClaimsOnlyInRun
    /\ LockedRowsAreDue
    /\ ClaimIsCurrent
    /\ DeadLetters

-----------------------------------------------------------------------------
(* The point of a grid of step b that division picks lies past a.           *)
LEMMA GridPoint ==
    ASSUME NEW a \in Nat, NEW b \in Nat, b > 0
    PROVE  ((a \div b) + 1) * b \in Nat /\ ((a \div b) + 1) * b > a
<1>1. a \div b \in Nat
  OBVIOUS
<1>2. a = b * (a \div b) + (a % b)
  OBVIOUS
<1>3. a % b < b /\ a % b \in Nat
  OBVIOUS
<1>4. ((a \div b) + 1) * b = b * (a \div b) + b
  BY <1>1, SMT
<1> QED
  BY <1>1, <1>2, <1>3, <1>4

(* The next run of a recurring task lies strictly after the finish.         *)
LEMMA NextAfterRunIsLater ==
    ASSUME NEW due \in Nat, NEW n \in Nat
    PROVE  NextAfterRun(due, n) \in Nat /\ NextAfterRun(due, n) > n
<1>1. Interval \in Nat /\ Interval > 0
  BY QueueAssumption
<1>2. CASE due + Interval > n
  BY <1>1, <1>2 DEF NextAfterRun
<1>3. CASE ~(due + Interval > n)
  <2> DEFINE step == (((n - due) \div Interval) + 1) * Interval
  <2>1. n - due \in Nat
    BY <1>1, <1>3
  <2>2. step \in Nat /\ step > n - due
    BY <1>1, <2>1, GridPoint
  <2>3. NextAfterRun(due, n) = due + step
    BY <1>3 DEF NextAfterRun
  <2> HIDE DEF step
  <2> QED
    BY <2>1, <2>2, <2>3
<1> QED
  BY <1>2, <1>3

(* Fields of a stored row.                                                  *)
LEMMA RowFields ==
    ASSUME TypeOK, NEW t \in Stored
    PROVE  /\ t \in Tasks
           /\ rows[t] \in Row
           /\ rows[t].kind \in Kinds
           /\ rows[t].next \in Nat \cup {None}
           /\ rows[t].lockedAt \in Nat \cup {None}
           /\ rows[t].token \in Nat
           /\ rows[t].attempts \in Nat
           /\ rows[t].failed \in BOOLEAN
  BY DEF TypeOK, Stored, Row

LEMMA NewRowFields ==
    ASSUME NEW kind \in Kinds, NEW at \in Nat
    PROVE  /\ NewRow(kind, at) \in Row
           /\ NewRow(kind, at) # NoRow
           /\ NewRow(kind, at).kind = kind
           /\ NewRow(kind, at).next = at
           /\ NewRow(kind, at).lockedAt = None
           /\ NewRow(kind, at).token = NoToken
           /\ NewRow(kind, at).attempts = 0
<1>1. (IF kind = "once" THEN 0 ELSE at) \in Nat
  OBVIOUS
<1>2. kind # "absent"
  BY DEF Kinds
<1> QED
  BY <1>1, <1>2 DEF NewRow, Row, NoRow, None, NoToken

-----------------------------------------------------------------------------
(* What a client or the owner of a claim may leave behind: no row, or an    *)
(* unlocked one that is a dead letter exactly when it has no next run.      *)
Cleared(row) ==
    \/ row = NoRow
    \/ /\ row \in Row
       /\ row # NoRow
       /\ row.token = NoToken
       /\ row.lockedAt = None
       /\ IF row.next = None
          THEN row.attempts = MaxAttempts /\ row.failed
          ELSE row.attempts < MaxAttempts

LEMMA NewRowIsCleared ==
    ASSUME NEW kind \in Kinds, NEW at \in Nat
    PROVE  Cleared(NewRow(kind, at))
  BY NewRowFields, QueueAssumption DEF Cleared, None

(* Writing a cleared row gives nobody a lock and disturbs no other row.     *)
LEMMA ClearedRowStep ==
    ASSUME IInv, NEW t \in Tasks, NEW new, Cleared(new),
           rows' = [rows EXCEPT ![t] = new], UNCHANGED <<now, tokens, token>>
    PROVE  /\ rows' \in [Tasks -> Row \cup {NoRow}]
           /\ TokenDiscipline' /\ LockedRowsAreDue' /\ DeadLetters'
           /\ \A r \in Queues, u \in Tasks :
                 Owns(r, u)' => Owns(r, u) /\ rows'[u] = rows[u]
<1> USE DEF IInv
<1>1. rows' \in [Tasks -> Row \cup {NoRow}]
  BY DEF TypeOK, Cleared
<1>2. /\ rows'[t] = new
      /\ \A u \in Tasks : u # t => rows'[u] = rows[u]
  BY DEF TypeOK
<1>3. \A u \in Stored' : u = t \/ (u \in Stored /\ rows'[u] = rows[u])
  BY <1>2 DEF Stored
<1>4. t \in Stored' => new \in Row /\ new # NoRow
  BY <1>2 DEF Stored, Cleared
<1>5. TokenDiscipline'
  BY <1>2, <1>3, <1>4 DEF TokenDiscipline, TypeOK, NoToken, Cleared
<1>6. LockedRowsAreDue'
  BY <1>2, <1>3, <1>4 DEF LockedRowsAreDue, Cleared
<1>7. DeadLetters'
  BY <1>2, <1>3, <1>4 DEF DeadLetters, Cleared
<1>8. \A r \in Queues, u \in Tasks :
         Owns(r, u)' => Owns(r, u) /\ rows'[u] = rows[u]
  BY <1>2, <1>3, <1>4 DEF Owns, Cleared, Stored
<1> QED
  BY <1>1, <1>5, <1>6, <1>7, <1>8

(* Claims stay current when claims are only dropped and no claim gains      *)
(* ownership of a row or sees its row change.                               *)
LEMMA FewerClaims ==
    ASSUME IInv,
           \A r \in Queues : \A u \in Held(r)' :
              u \in Held(r) /\ claims'[r][u] = claims[r][u],
           \A r \in Queues, u \in Tasks :
              Owns(r, u)' => Owns(r, u) /\ rows'[u] = rows[u]
    PROVE  ClaimIsCurrent'
<1> SUFFICES ASSUME NEW r \in Queues, NEW u \in Held(r)', Owns(r, u)'
             PROVE  /\ rows'[u].kind = claims'[r][u].kind
                    /\ rows'[u].next = claims'[r][u].due
                    /\ rows'[u].attempts = claims'[r][u].attempts
  BY DEF ClaimIsCurrent
<1>1. u \in Tasks
  BY DEF Held
<1>2. /\ u \in Held(r)
      /\ claims'[r][u] = claims[r][u]
      /\ Owns(r, u)
      /\ rows'[u] = rows[u]
  BY <1>1
<1>3. ClaimIsCurrent
  BY DEF IInv
<1> QED
  BY <1>2, <1>3 DEF ClaimIsCurrent

(* Fields of a held claim.                                                  *)
LEMMA ClaimFields ==
    ASSUME TypeOK, NEW q \in Queues, NEW t \in Held(q)
    PROVE  /\ t \in Tasks
           /\ claims[q][t] \in Claim
           /\ claims[q][t].kind \in Kinds
           /\ claims[q][t].due \in Nat
           /\ claims[q][t].attempts \in Nat
           /\ claims[q][t].started \in BOOLEAN
  BY DEF TypeOK, Held, Claim

(* Settling a claim drops exactly that claim.                               *)
LEMMA SettleStep ==
    ASSUME IInv, NEW q \in Queues, NEW t \in Started(q), Settle(q, t)
    PROVE  /\ claims' \in [Queues -> [Tasks -> Claim \cup {NoClaim}]]
           /\ ClaimsOnlyInRun'
           /\ \A r \in Queues : \A u \in Held(r)' :
                 u \in Held(r) /\ claims'[r][u] = claims[r][u]
<1> USE DEF IInv, TypeOK
<1>1. t \in Tasks /\ t \in Held(q) /\ claims[q][t] # NoClaim
  BY DEF Started, Held
<1>2. claims' \in [Queues -> [Tasks -> Claim \cup {NoClaim}]]
  BY <1>1 DEF Settle
<1>3. \A r \in Queues : r # q => claims'[r] = claims[r]
  BY <1>1 DEF Settle
<1>4. \A u \in Tasks : claims'[q][u] = IF u = t THEN NoClaim ELSE claims[q][u]
  BY <1>1 DEF Settle
<1>5. pc[q] = "run"
  BY <1>1 DEF ClaimsOnlyInRun, NoClaims
<1>6. ClaimsOnlyInRun'
  BY <1>3, <1>5 DEF ClaimsOnlyInRun, NoClaims, Settle
<1>7. \A r \in Queues : \A u \in Held(r)' :
         u \in Held(r) /\ claims'[r][u] = claims[r][u]
  BY <1>3, <1>4 DEF Held
<1> QED
  BY <1>2, <1>6, <1>7

-----------------------------------------------------------------------------
LEMMA InitIInv == Init => IInv
<1> SUFFICES ASSUME Init PROVE IInv
  OBVIOUS
<1>1. TypeOK
  BY DEF Init, TypeOK, Phases, NoClaims, NoToken
<1>2. Stored = {} /\ \A q \in Queues : Held(q) = {}
  BY DEF Init, Stored, Held, NoClaims
<1>3. TokenDiscipline
  BY <1>2 DEF TokenDiscipline, Init, NoToken
<1>4. ClaimsOnlyInRun
  BY DEF ClaimsOnlyInRun, Init
<1>5. LockedRowsAreDue /\ ClaimIsCurrent /\ DeadLetters
  BY <1>2 DEF LockedRowsAreDue, ClaimIsCurrent, DeadLetters
<1> QED
  BY <1>1, <1>3, <1>4, <1>5 DEF IInv

(* A client writes or removes a row.                                        *)
LEMMA ClientRowStep ==
    ASSUME IInv, NEW q \in Queues, NEW t \in Tasks, NEW new, Cleared(new),
           rows' = [rows EXCEPT ![t] = new],
           SignalWake(q), UNCHANGED <<now, tokens, loopVars>>
    PROVE  IInv'
<1> USE DEF loopVars
<1>1. /\ rows' \in [Tasks -> Row \cup {NoRow}]
      /\ TokenDiscipline' /\ LockedRowsAreDue' /\ DeadLetters'
      /\ \A r \in Queues, u \in Tasks :
            Owns(r, u)' => Owns(r, u) /\ rows'[u] = rows[u]
  BY ClearedRowStep
<1>2. \A r \in Queues : \A u \in Held(r)' :
         u \in Held(r) /\ claims'[r][u] = claims[r][u]
  BY DEF Held
<1>3. ClaimIsCurrent'
  BY <1>1, <1>2, FewerClaims
<1>4. TypeOK'
  BY <1>1 DEF IInv, TypeOK, SignalWake
<1>5. ClaimsOnlyInRun'
  BY DEF IInv, ClaimsOnlyInRun, NoClaims
<1> QED
  BY <1>1, <1>3, <1>4, <1>5 DEF IInv

LEMMA ClientStep ==
    ASSUME IInv, NEW q \in Queues, Client(q)
    PROVE  IInv'
<1>1. PICK t \in Tasks :
         \/ Delete(q, t)
         \/ \E kind \in Kinds, at \in now .. now + MaxDelay :
               Enqueue(q, t, kind, at) \/ Reschedule(q, t, kind, at)
  BY DEF Client
<1>2. CASE Delete(q, t)
  BY <1>2, ClientRowStep DEF Delete, Cleared
<1>3. ASSUME NEW kind \in Kinds, NEW at \in now .. now + MaxDelay,
             Enqueue(q, t, kind, at) \/ Reschedule(q, t, kind, at)
      PROVE  IInv'
  <2>1. at \in Nat
    BY QueueAssumption DEF IInv, TypeOK
  <2> QED
    BY <1>3, <2>1, NewRowIsCleared, ClientRowStep DEF Enqueue, Reschedule
<1> QED
  BY <1>1, <1>2, <1>3

(* An outcome settles one claim and clears its row, or leaves the store     *)
(* alone.                                                                   *)
LEMMA OutcomeRowStep ==
    ASSUME IInv, NEW q \in Queues, NEW t \in Started(q), Settle(q, t),
           \/ rows' = rows
           \/ \E new : Cleared(new) /\ rows' = [rows EXCEPT ![t] = new],
           broken' \in [Queues -> BOOLEAN], wake' \in [Queues -> BOOLEAN]
    PROVE  IInv'
<1>1. t \in Tasks
  BY DEF Started, Held
<1>2. UNCHANGED <<now, tokens, pc, stopping, token, until>>
  BY DEF Settle
<1>3. /\ claims' \in [Queues -> [Tasks -> Claim \cup {NoClaim}]]
      /\ ClaimsOnlyInRun'
      /\ \A r \in Queues : \A u \in Held(r)' :
            u \in Held(r) /\ claims'[r][u] = claims[r][u]
  BY SettleStep
<1>4. /\ rows' \in [Tasks -> Row \cup {NoRow}]
      /\ TokenDiscipline' /\ LockedRowsAreDue' /\ DeadLetters'
      /\ \A r \in Queues, u \in Tasks :
            Owns(r, u)' => Owns(r, u) /\ rows'[u] = rows[u]
  <2>1. CASE rows' = rows
    BY <1>2, <2>1 DEF IInv, TypeOK, TokenDiscipline, LockedRowsAreDue,
                      DeadLetters, Owns, Stored
  <2>2. CASE \E new : Cleared(new) /\ rows' = [rows EXCEPT ![t] = new]
    <3>1. PICK new : Cleared(new) /\ rows' = [rows EXCEPT ![t] = new]
      BY <2>2
    <3> QED
      BY <1>1, <1>2, <3>1, ClearedRowStep
  <2> QED
    BY <2>1, <2>2
<1>5. ClaimIsCurrent'
  BY <1>3, <1>4, FewerClaims
<1>6. TypeOK'
  BY <1>2, <1>3, <1>4 DEF IInv, TypeOK
<1> QED
  BY <1>3, <1>4, <1>5, <1>6 DEF IInv

(* What the owner of a claim knows of the row.                              *)
LEMMA OwnedRow ==
    ASSUME IInv, NEW q \in Queues, NEW t \in Held(q), Owns(q, t)
    PROVE  /\ t \in Stored /\ rows[t] \in Row
           /\ rows[t].kind = claims[q][t].kind
           /\ rows[t].attempts = claims[q][t].attempts
           /\ rows[t].attempts \in Nat
           /\ rows[t].attempts < MaxAttempts
<1>1. t \in Stored /\ rows[t].token # NoToken
  BY DEF Owns
<1>2. rows[t] \in Row /\ rows[t].attempts \in Nat
  BY <1>1, RowFields DEF IInv
<1>3. /\ rows[t].kind = claims[q][t].kind
      /\ rows[t].attempts = claims[q][t].attempts
  BY DEF IInv, ClaimIsCurrent
<1>4. rows[t].next # None
  BY <1>1 DEF IInv, LockedRowsAreDue
<1>5. rows[t].attempts < MaxAttempts
  BY <1>1, <1>4 DEF IInv, DeadLetters
<1> QED
  BY <1>1, <1>2, <1>3, <1>5

LEMMA SucceedStep ==
    ASSUME IInv, NEW q \in Queues, NEW t \in Tasks, Succeed(q, t)
    PROVE  IInv'
<1>1. t \in Started(q) /\ t \in Held(q) /\ Settle(q, t)
  BY DEF Succeed, Started
<1>2. broken' \in [Queues -> BOOLEAN] /\ wake' \in [Queues -> BOOLEAN]
  BY DEF Succeed, IInv, TypeOK
<1>3. CASE ~Owns(q, t)
  BY <1>1, <1>2, <1>3, OutcomeRowStep DEF Succeed
<1>4. CASE Owns(q, t) /\ claims[q][t].kind = "once"
  <2>1. Cleared(NoRow) /\ rows' = [rows EXCEPT ![t] = NoRow]
    BY <1>4 DEF Succeed, Cleared
  <2> QED
    BY <1>1, <1>2, <2>1, OutcomeRowStep
<1>5. CASE Owns(q, t) /\ claims[q][t].kind # "once"
  <2> DEFINE next == NextAfterRun(claims[q][t].due, now)
             new == Released(rows[t], next, 0, FALSE)
  <2>1. next \in Nat
    BY <1>1, ClaimFields, NextAfterRunIsLater DEF IInv, TypeOK
  <2>2. rows' = [rows EXCEPT ![t] = new]
    BY <1>5 DEF Succeed
  <2> HIDE DEF next
  <2>3. rows[t] \in Row /\ rows[t] # NoRow
    BY <1>1, <1>5, OwnedRow DEF Stored
  <2>4. /\ new \in Row /\ new.token = NoToken /\ new.lockedAt = None
        /\ new.next # None /\ new.attempts = 0 /\ new.kind \in Kinds
    BY <2>1, <2>3 DEF Released, Row, None, NoToken
  <2>5. new # NoRow
    BY <2>4 DEF NoRow, Kinds, Released
  <2> HIDE DEF new
  <2>6. Cleared(new)
    BY <2>4, <2>5, QueueAssumption DEF Cleared
  <2> QED
    BY <1>1, <1>2, <2>2, <2>6, OutcomeRowStep
<1> QED
  BY <1>3, <1>4, <1>5

LEMMA FailStep ==
    ASSUME IInv, NEW q \in Queues, NEW t \in Tasks, Fail(q, t)
    PROVE  IInv'
<1>1. t \in Started(q) /\ t \in Held(q) /\ Settle(q, t)
  BY DEF Fail, Started
<1>2. broken' \in [Queues -> BOOLEAN] /\ wake' \in [Queues -> BOOLEAN]
  BY DEF Fail, IInv, TypeOK
<1>3. CASE ~Owns(q, t)
  BY <1>1, <1>2, <1>3, OutcomeRowStep DEF Fail
<1>4. CASE Owns(q, t)
  <2> DEFINE attempt == claims[q][t].attempts + 1
             next == IF attempt >= MaxAttempts THEN None
                     ELSE now + RetryDelay[attempt]
             new == Released(rows[t], next, rows[t].attempts + 1, TRUE)
  <2>1. rows' = [rows EXCEPT ![t] = new]
    BY <1>4 DEF Fail
  <2>2. /\ rows[t] \in Row /\ attempt = rows[t].attempts + 1
        /\ attempt \in Nat /\ attempt > 0 /\ attempt <= MaxAttempts
    BY <1>1, <1>4, OwnedRow, QueueAssumption
  <2>3. /\ next \in Nat \cup {None}
        /\ next = None <=> attempt = MaxAttempts
    BY <2>2, QueueAssumption DEF IInv, TypeOK, None
  <2> HIDE DEF next, attempt
  <2>4. /\ new \in Row /\ new.token = NoToken /\ new.lockedAt = None
        /\ new.next = next /\ new.attempts = attempt /\ new.failed
        /\ new.kind \in Kinds
    BY <2>2, <2>3 DEF Released, Row, None, NoToken
  <2>5. new # NoRow
    BY <2>4 DEF NoRow, Kinds, Released
  <2> HIDE DEF new
  <2>6. Cleared(new)
    BY <2>2, <2>3, <2>4, <2>5, QueueAssumption DEF Cleared
  <2> QED
    BY <1>1, <1>2, <2>1, <2>6, OutcomeRowStep
<1> QED
  BY <1>3, <1>4

LEMMA OutcomeStep ==
    ASSUME IInv, NEW q \in Queues, Outcome(q)
    PROVE  IInv'
<1>1. PICK t \in Tasks : \/ Succeed(q, t) \/ Fail(q, t) \/ Discard(q, t)
                         \/ Abandon(q, t) \/ FinishFails(q, t)
  BY DEF Outcome
<1>2. CASE Discard(q, t)
  <2>1. broken' \in [Queues -> BOOLEAN] /\ wake' \in [Queues -> BOOLEAN]
    BY <1>2 DEF Discard, IInv, TypeOK, Owns
  <2>2. \/ rows' = rows
        \/ \E new : Cleared(new) /\ rows' = [rows EXCEPT ![t] = new]
    BY <1>2 DEF Discard, Cleared
  <2> QED
    BY <1>2, <2>1, <2>2, OutcomeRowStep DEF Discard
<1>3. CASE Abandon(q, t)
  BY <1>3, OutcomeRowStep DEF Abandon, IInv, TypeOK
<1>4. CASE FinishFails(q, t)
  BY <1>4, OutcomeRowStep DEF FinishFails, IInv, TypeOK
<1> QED
  BY <1>1, <1>2, <1>3, <1>4, SucceedStep, FailStep

-----------------------------------------------------------------------------
(* A claim takes due rows under a token nobody has used, so no older claim  *)
(* owns them any more.                                                      *)
LEMMA ClaimDueStep ==
    ASSUME IInv, NEW q \in Queues, ClaimDue(q)
    PROVE  IInv'
<1> DEFINE k == tokens + 1
<1>0. /\ tokens \in Nat /\ now \in Nat /\ k \in Nat /\ k # NoToken
      /\ rows \in [Tasks -> Row \cup {NoRow}]
      /\ \A r \in Queues : token[r] \in Nat /\ token[r] <= tokens
      /\ \A t \in Stored : rows[t].token <= tokens
  BY DEF IInv, TypeOK, TokenDiscipline, NoToken
<1>1. /\ tokens' = k
      /\ now' = now
      /\ token' = [token EXCEPT ![q] = k]
      /\ pc' = [pc EXCEPT ![q] = "run"]
      /\ UNCHANGED <<stopping, broken, wake, until>>
  BY DEF ClaimDue
<1>2. \A t \in FirstDue :
         /\ t \in Stored /\ t \in Tasks
         /\ rows[t].next # None /\ rows[t].next \in Nat /\ rows[t].next <= now
         /\ rows[t] \in Row
  BY RowFields DEF FirstDue, Due, Claimable, IInv
<1>3. \A t \in Tasks : t \notin FirstDue => rows'[t] = rows[t]
  BY DEF ClaimDue
<1>4. \A t \in FirstDue :
         rows'[t] = [rows[t] EXCEPT !.lockedAt = now, !.token = k,
                                    !.failed = FALSE]
  BY <1>2 DEF ClaimDue
<1>5. \A t \in FirstDue :
         /\ rows'[t] \in Row
         /\ rows'[t] # NoRow
         /\ rows'[t].kind = rows[t].kind
         /\ rows'[t].next = rows[t].next
         /\ rows'[t].attempts = rows[t].attempts
         /\ rows'[t].lockedAt = now
         /\ rows'[t].token = k
  <2> SUFFICES ASSUME NEW t \in FirstDue
               PROVE  /\ rows'[t] \in Row
                      /\ rows'[t] # NoRow
                      /\ rows'[t].kind = rows[t].kind
                      /\ rows'[t].next = rows[t].next
                      /\ rows'[t].attempts = rows[t].attempts
                      /\ rows'[t].lockedAt = now
                      /\ rows'[t].token = k
    OBVIOUS
  <2>1. rows[t] \in Row
    BY <1>2
  <2>2. /\ rows'[t] \in Row
        /\ rows'[t].kind = rows[t].kind
        /\ rows'[t].next = rows[t].next
        /\ rows'[t].attempts = rows[t].attempts
        /\ rows'[t].lockedAt = now
        /\ rows'[t].token = k
    BY <1>0, <1>4, <2>1 DEF Row
  <2>3. rows'[t] # NoRow
    BY <2>1, <2>2 DEF Row, NoRow, Kinds
  <2> QED
    BY <2>2, <2>3
<1>6. Stored' = Stored /\ rows' \in [Tasks -> Row \cup {NoRow}]
  <2>1. rows' = [t \in Tasks |-> rows'[t]]
    BY DEF ClaimDue
  <2> QED
    BY <1>0, <1>2, <1>3, <1>5, <2>1 DEF Stored
<1>7. /\ \A r \in Queues : r # q => claims'[r] = claims[r]
      /\ \A t \in Tasks :
            claims'[q][t] = IF t \in FirstDue
                            THEN [kind |-> rows[t].kind, due |-> rows[t].next,
                                  attempts |-> rows[t].attempts,
                                  started |-> FALSE]
                            ELSE NoClaim
  BY DEF ClaimDue, IInv, TypeOK
<1>8. claims' \in [Queues -> [Tasks -> Claim \cup {NoClaim}]]
  <2>1. \A t \in FirstDue :
           [kind |-> rows[t].kind, due |-> rows[t].next,
            attempts |-> rows[t].attempts, started |-> FALSE] \in Claim
    BY <1>2, RowFields DEF IInv, Claim
  <2> QED
    BY <2>1 DEF ClaimDue, IInv, TypeOK
<1>9. TypeOK'
  BY <1>0, <1>1, <1>6, <1>8 DEF IInv, TypeOK, Phases
<1>10. TokenDiscipline'
  <2>1. \A t \in Stored' : rows'[t].token <= k
    BY <1>0, <1>3, <1>5, <1>6, RowFields DEF Stored, IInv
  <2>2. \A r \in Queues : token'[r] <= k
    BY <1>0, <1>1 DEF IInv, TypeOK
  <2>3. \A r, s \in Queues :
           (token'[r] # NoToken /\ token'[r] = token'[s]) => r = s
    BY <1>0, <1>1 DEF IInv, TypeOK, TokenDiscipline
  <2> QED
    BY <1>1, <2>1, <2>2, <2>3 DEF TokenDiscipline
<1>11. ClaimsOnlyInRun'
  BY <1>1, <1>7 DEF IInv, TypeOK, ClaimsOnlyInRun, NoClaims
<1>12. LockedRowsAreDue'
  <2> SUFFICES ASSUME NEW t \in Stored'
               PROVE  /\ rows'[t].token = NoToken <=> rows'[t].lockedAt = None
                      /\ rows'[t].token # NoToken =>
                            /\ rows'[t].next # None
                            /\ rows'[t].next <= rows'[t].lockedAt
                            /\ rows'[t].lockedAt <= now'
    BY DEF LockedRowsAreDue
  <2>1. CASE t \in FirstDue
    BY <1>0, <1>1, <1>2, <1>5, <2>1 DEF None
  <2>2. CASE t \notin FirstDue
    BY <1>1, <1>3, <1>6, <2>2 DEF IInv, LockedRowsAreDue, Stored
  <2> QED
    BY <2>1, <2>2
<1>13. ClaimIsCurrent'
  <2> SUFFICES ASSUME NEW r \in Queues, NEW u \in Held(r)', Owns(r, u)'
               PROVE  /\ rows'[u].kind = claims'[r][u].kind
                      /\ rows'[u].next = claims'[r][u].due
                      /\ rows'[u].attempts = claims'[r][u].attempts
    BY DEF ClaimIsCurrent
  <2>1. u \in Tasks /\ claims'[r][u] # NoClaim
    BY DEF Held
  <2>2. u \in Stored' /\ rows'[u].token # NoToken /\ rows'[u].token = token'[r]
    BY DEF Owns
  <2>3. CASE r = q
    <3>1. u \in FirstDue
      BY <1>7, <2>1, <2>3
    <3>2. claims'[r][u] = [kind |-> rows[u].kind, due |-> rows[u].next,
                           attempts |-> rows[u].attempts, started |-> FALSE]
      BY <1>7, <2>1, <2>3, <3>1
    <3> QED
      BY <1>5, <3>1, <3>2
  <2>4. CASE r # q
    <3>1. rows'[u].token <= tokens
      BY <1>0, <1>1, <2>2, <2>4 DEF IInv, TypeOK
    <3>2. u \notin FirstDue
      BY <1>0, <1>5, <3>1
    <3>3. rows'[u] = rows[u] /\ claims'[r][u] = claims[r][u] /\ token'[r] = token[r]
      BY <1>1, <1>3, <1>7, <2>1, <2>4, <3>2 DEF IInv, TypeOK
    <3>4. u \in Held(r) /\ Owns(r, u)
      BY <1>6, <2>1, <2>2, <3>3 DEF Held, Owns
    <3> QED
      BY <3>3, <3>4 DEF IInv, ClaimIsCurrent
  <2> QED
    BY <2>3, <2>4
<1>14. DeadLetters'
  <2> SUFFICES ASSUME NEW t \in Stored'
               PROVE  IF rows'[t].next = None
                      THEN rows'[t].attempts = MaxAttempts /\ rows'[t].failed
                      ELSE rows'[t].attempts < MaxAttempts
    BY DEF DeadLetters
  <2>1. CASE t \in FirstDue
    BY <1>2, <1>5, <2>1 DEF IInv, DeadLetters
  <2>2. CASE t \notin FirstDue
    BY <1>3, <1>6, <2>2 DEF IInv, DeadLetters, Stored
  <2> QED
    BY <2>1, <2>2
<1> QED
  BY <1>9, <1>10, <1>11, <1>12, <1>13, <1>14 DEF IInv

-----------------------------------------------------------------------------
(* Steps that leave the store, the tokens and the claims alone.             *)
LEMMA QuietStep ==
    ASSUME IInv, TypeOK',
           UNCHANGED <<tokens, rows, token, claims>>,
           now' \in Nat, now' >= now,
           \A r \in Queues : pc'[r] # "run" => pc[r] # "run" \/ claims[r] = NoClaims
    PROVE  IInv'
<1>1. Stored' = Stored /\ \A r \in Queues : Held(r)' = Held(r)
  BY DEF Stored, Held
<1>2. TokenDiscipline' /\ DeadLetters'
  BY <1>1 DEF IInv, TokenDiscipline, DeadLetters
<1>3. ClaimsOnlyInRun'
  BY DEF IInv, ClaimsOnlyInRun, NoClaims
<1>4. LockedRowsAreDue'
  <2>1. \A t \in Stored : rows[t].lockedAt \in Nat \cup {None}
    BY RowFields DEF IInv
  <2> QED
    BY <1>1, <2>1 DEF IInv, TypeOK, LockedRowsAreDue, None
<1>5. ClaimIsCurrent'
  BY <1>1 DEF IInv, ClaimIsCurrent, Owns, Stored
<1> QED
  BY <1>2, <1>3, <1>4, <1>5 DEF IInv

(* A process forgets its claims and its token.                              *)
LEMMA ForgetStep ==
    ASSUME IInv, TypeOK', NEW q \in Queues,
           UNCHANGED <<now, tokens, rows>>,
           token' = [token EXCEPT ![q] = NoToken],
           claims' = [claims EXCEPT ![q] = NoClaims],
           \A r \in Queues : r # q => pc'[r] = pc[r]
    PROVE  IInv'
<1>1. Stored' = Stored
  BY DEF Stored
<1>2. /\ token'[q] = NoToken /\ claims'[q] = NoClaims
      /\ \A r \in Queues : r # q => token'[r] = token[r] /\ claims'[r] = claims[r]
  BY DEF IInv, TypeOK
<1>3. TokenDiscipline'
  BY <1>1, <1>2 DEF IInv, TypeOK, TokenDiscipline, NoToken
<1>4. ClaimsOnlyInRun'
  BY <1>2 DEF IInv, ClaimsOnlyInRun, NoClaims
<1>5. LockedRowsAreDue' /\ DeadLetters'
  BY <1>1 DEF IInv, LockedRowsAreDue, DeadLetters
<1>6. \A r \in Queues : \A u \in Held(r)' :
         u \in Held(r) /\ claims'[r][u] = claims[r][u]
  BY <1>2 DEF Held, NoClaims
<1>7. \A r \in Queues, u \in Tasks :
         Owns(r, u)' => Owns(r, u) /\ rows'[u] = rows[u]
  BY <1>1, <1>2 DEF Owns
<1>8. ClaimIsCurrent'
  BY <1>6, <1>7, FewerClaims
<1> QED
  BY <1>3, <1>4, <1>5, <1>8 DEF IInv

LEMMA StartTaskStep ==
    ASSUME IInv, NEW q \in Queues, NEW t \in Tasks, StartTask(q, t)
    PROVE  IInv'
<1>1. /\ UNCHANGED <<now, tokens, rows, pc, stopping, broken, token, wake, until>>
      /\ t \in Held(q) /\ pc[q] = "run"
      /\ claims' = [claims EXCEPT ![q][t].started = TRUE]
  BY DEF StartTask, Waiting
<1>2. claims[q][t] \in Claim
  BY <1>1, ClaimFields DEF IInv
<1>3. /\ \A r \in Queues : r # q => claims'[r] = claims[r]
      /\ \A u \in Tasks : u # t => claims'[q][u] = claims[q][u]
      /\ claims'[q][t] = [claims[q][t] EXCEPT !.started = TRUE]
  BY <1>1 DEF IInv, TypeOK
<1>4. /\ claims'[q][t] \in Claim
      /\ claims'[q][t].kind = claims[q][t].kind
      /\ claims'[q][t].due = claims[q][t].due
      /\ claims'[q][t].attempts = claims[q][t].attempts
  BY <1>2, <1>3 DEF Claim
<1>5. claims' \in [Queues -> [Tasks -> Claim \cup {NoClaim}]]
  BY <1>1, <1>2, <1>3, <1>4 DEF IInv, TypeOK
<1>6. TypeOK'
  BY <1>1, <1>5 DEF IInv, TypeOK
<1>7. TokenDiscipline' /\ LockedRowsAreDue' /\ DeadLetters'
  BY <1>1 DEF IInv, TokenDiscipline, LockedRowsAreDue, DeadLetters, Stored
<1>8. ClaimsOnlyInRun'
  BY <1>1, <1>3 DEF IInv, ClaimsOnlyInRun, NoClaims
<1>9. ClaimIsCurrent'
  <2> SUFFICES ASSUME NEW r \in Queues, NEW u \in Held(r)', Owns(r, u)'
               PROVE  /\ rows'[u].kind = claims'[r][u].kind
                      /\ rows'[u].next = claims'[r][u].due
                      /\ rows'[u].attempts = claims'[r][u].attempts
    BY DEF ClaimIsCurrent
  <2>1. u \in Held(r) /\ Owns(r, u)
    BY <1>1, <1>3 DEF Held, Owns, Stored
  <2>2. u \in Tasks
    BY DEF Held
  <2>3. /\ claims'[r][u].kind = claims[r][u].kind
        /\ claims'[r][u].due = claims[r][u].due
        /\ claims'[r][u].attempts = claims[r][u].attempts
    BY <1>3, <1>4, <2>2
  <2> QED
    BY <1>1, <2>1, <2>3 DEF IInv, ClaimIsCurrent
<1> QED
  BY <1>6, <1>7, <1>8, <1>9 DEF IInv

LEMMA EndRunStep ==
    ASSUME IInv, NEW q \in Queues, EndRun(q)
    PROVE  IInv'
<1>1. TypeOK
  BY DEF IInv
<1>2. UNCHANGED <<now, tokens, rows>> /\ now \in Nat /\ tokens \in Nat /\ rows \in [Tasks -> Row \cup {NoRow}]
  BY <1>1 DEF EndRun, TypeOK
<1>3. pc' \in [Queues -> Phases]
  BY <1>1 DEF EndRun, TypeOK, Phases
<1>4. stopping' \in [Queues -> BOOLEAN] /\ broken' \in [Queues -> BOOLEAN]
  BY <1>1 DEF EndRun, TypeOK
<1>5. token' \in [Queues -> Nat]
  BY <1>1 DEF EndRun, TypeOK, NoToken
<1>6. claims' \in [Queues -> [Tasks -> Claim \cup {NoClaim}]]
  BY <1>1 DEF EndRun, TypeOK, NoClaims
<1>7. wake' \in [Queues -> BOOLEAN]
  <2>1. (wake[q] /\ ~stopping[q]) \in BOOLEAN
    OBVIOUS
  <2>2. wake' = [wake EXCEPT ![q] = wake[q] /\ ~stopping[q]]
    BY DEF EndRun
  <2> QED
    BY <1>1, <2>1, <2>2 DEF TypeOK
<1>8. until' \in [Queues -> Nat]
  <2>1. now + Poll \in Nat
    BY <1>2, QueueAssumption DEF QueueAssumption
  <2>2. until' = [until EXCEPT ![q] = IF broken[q] /\ ~stopping[q] THEN now + Poll ELSE 0]
    BY DEF EndRun
  <2> QED
    BY <1>1, <2>1, <2>2 DEF TypeOK
<1>9. TypeOK'
  BY <1>2, <1>3, <1>4, <1>5, <1>6, <1>7, <1>8 DEF TypeOK
<1> QED
  BY <1>1, <1>9, ForgetStep DEF EndRun, IInv, TypeOK

(* Every point of time the store may look at next is a natural number.      *)
LEMMA LooksAreTimes == ASSUME TypeOK PROVE Looks \subseteq Nat
<1> SUFFICES ASSUME NEW t \in Stored, rows[t].next # None
             PROVE  NextLook(t) \in Nat
  BY DEF Looks
<1> QED
  BY RowFields, QueueAssumption DEF NextLook, ActiveLock, Locked, None

LEMMA PeekNextStep ==
    ASSUME IInv, NEW q \in Queues, PeekNext(q)
    PROVE  IInv'
<1>1. pc[q] = "peek" /\ UNCHANGED <<now, tokens, rows, stopping, broken,
                                    token, claims, wake>>
  BY DEF PeekNext
<1>2. Looks \cup {now + Poll} \subseteq Nat
  BY LooksAreTimes, QueueAssumption DEF IInv, TypeOK
<1>3. until' \in [Queues -> Nat]
  BY <1>2 DEF PeekNext, IInv, TypeOK
<1>4. \/ pc' = [pc EXCEPT ![q] = "claim"]
      \/ pc' = [pc EXCEPT ![q] = "arm"]
  BY DEF PeekNext
<1>5. TypeOK'
  BY <1>1, <1>3, <1>4 DEF IInv, TypeOK, Phases
<1> QED
  BY <1>1, <1>4, <1>5, QuietStep DEF IInv, TypeOK

LEMMA LoopStep ==
    ASSUME IInv, NEW q \in Queues, Loop(q)
    PROVE  IInv'
<1>1. CASE ClaimFails(q)
  <2>1. TypeOK'
    BY <1>1, QueueAssumption DEF ClaimFails, IInv, TypeOK, Phases
  <2> QED
    BY <1>1, <2>1, QuietStep DEF ClaimFails, IInv, TypeOK
<1>2. CASE \E t \in Tasks : StartTask(q, t)
  BY <1>2, StartTaskStep
<1>3. CASE Arm(q)
  <2>1. TypeOK'
    BY <1>3 DEF Arm, IInv, TypeOK, Phases
  <2> QED
    BY <1>3, <2>1, QuietStep DEF Arm, IInv, TypeOK
<1>4. CASE PeekFails(q)
  <2>1. TypeOK'
    BY <1>4, QueueAssumption DEF PeekFails, IInv, TypeOK, Phases
  <2> QED
    BY <1>4, <2>1, QuietStep DEF PeekFails, IInv, TypeOK
<1>5. CASE TimerFires(q)
  <2>1. TypeOK'
    BY <1>5 DEF TimerFires, IInv, TypeOK, Phases
  <2> QED
    BY <1>5, <2>1, QuietStep DEF TimerFires, IInv, TypeOK
<1>6. CASE TakeWake(q)
  <2>1. TypeOK'
    BY <1>6 DEF TakeWake, IInv, TypeOK, Phases
  <2> QED
    BY <1>6, <2>1, QuietStep DEF TakeWake, IInv, TypeOK
<1> QED
  BY <1>1, <1>2, <1>3, <1>4, <1>5, <1>6,
     ClaimDueStep, EndRunStep, PeekNextStep DEF Loop

LEMMA LifecycleStep ==
    ASSUME IInv, NEW q \in Queues, Lifecycle(q)
    PROVE  IInv'
<1>1. CASE Stop(q)
  <2>1. TypeOK'
    BY <1>1 DEF Stop, IInv, TypeOK
  <2> QED
    BY <1>1, <2>1, QuietStep DEF Stop, IInv, TypeOK
<1>2. CASE Crash(q)
  <2>1. TypeOK'
    BY <1>2 DEF Crash, IInv, TypeOK, Phases, NoClaims, NoToken
  <2> QED
    BY <1>2, <2>1, ForgetStep DEF Crash, IInv, TypeOK
<1>3. CASE Restart(q)
  <2>1. TypeOK'
    BY <1>3 DEF Restart, IInv, TypeOK, Phases
  <2> QED
    BY <1>3, <2>1, QuietStep DEF Restart, IInv, TypeOK
<1> QED
  BY <1>1, <1>2, <1>3 DEF Lifecycle

LEMMA NextIInv == IInv /\ [Next]_vars => IInv'
<1> SUFFICES ASSUME IInv, [Next]_vars PROVE IInv'
  OBVIOUS
<1>1. CASE Tick
  <2>1. TypeOK'
    BY <1>1 DEF Tick, loopVars, IInv, TypeOK
  <2> QED
    BY <1>1, <2>1, QuietStep DEF Tick, loopVars, IInv, TypeOK
<1>2. ASSUME NEW q \in Queues, Client(q) \/ Outcome(q) \/ Loop(q) \/ Lifecycle(q)
      PROVE  IInv'
  BY <1>2, ClientStep, OutcomeStep, LoopStep, LifecycleStep
<1>3. CASE UNCHANGED vars
  <2>1. TypeOK'
    BY <1>3 DEF vars, IInv, TypeOK
  <2> QED
    BY <1>3, <2>1, QuietStep DEF vars, IInv, TypeOK
<1> QED
  BY <1>1, <1>2, <1>3 DEF Next

-----------------------------------------------------------------------------
(* The queue keeps its inductive invariant for every number of tasks and    *)
(* processes, every lease, schedule and retry delay, and whatever bounds    *)
(* MaxTime, MaxTokens and MaxDelay put on a behaviour.                      *)
THEOREM QueueInvariant == Spec => []IInv
<1>1. Init => IInv
  BY InitIInv
<1>2. IInv /\ [Next]_vars => IInv'
  BY NextIInv
<1> QED
  BY <1>1, <1>2, PTL DEF Spec

(* Every variable keeps its type.                                           *)
THEOREM QueueTypeOK == Spec => []TypeOK
<1>1. IInv => TypeOK
  BY DEF IInv
<1> QED
  BY <1>1, QueueInvariant, PTL

(* Only due rows are ever locked, and locks are whole.                      *)
THEOREM QueueLocks == Spec => []LockedRowsAreDue
<1>1. IInv => LockedRowsAreDue
  BY DEF IInv
<1> QED
  BY <1>1, QueueInvariant, PTL

(* The copy an owner decides from is the row.                               *)
THEOREM QueueClaims == Spec => []ClaimIsCurrent
<1>1. IInv => ClaimIsCurrent
  BY DEF IInv
<1> QED
  BY <1>1, QueueInvariant, PTL

(* Tasks die exactly at their last attempt.                                 *)
THEOREM QueueDeadLetters == Spec => []DeadLetters
<1>1. IInv => DeadLetters
  BY DEF IInv
<1> QED
  BY <1>1, QueueInvariant, PTL

(* At most one process can settle a row.                                    *)
THEOREM QueueOneOwner == Spec => []OneOwner
<1>1. IInv => OneOwner
  BY DEF IInv, TokenDiscipline, OneOwner, Owns
<1> QED
  BY <1>1, QueueInvariant, PTL

-----------------------------------------------------------------------------
(* Outcomes write only rows their claim still owns.                         *)
LEMMA OutcomeWrites ==
    ASSUME IInv, NEW q \in Queues, Outcome(q), NEW t \in Tasks, ~Owns(q, t)
    PROVE  rows'[t] = rows[t]
<1>1. rows \in [Tasks -> Row \cup {NoRow}]
  BY DEF IInv, TypeOK
<1>2. PICK u \in Tasks : \/ Succeed(q, u) \/ Fail(q, u) \/ Discard(q, u)
                         \/ Abandon(q, u) \/ FinishFails(q, u)
  BY DEF Outcome
<1>3. CASE u = t
  BY <1>2, <1>3 DEF Succeed, Fail, Discard, Abandon, FinishFails
<1>4. CASE u # t
  <2>1. rows' = rows \/ \E new : rows' = [rows EXCEPT ![u] = new]
    BY <1>2 DEF Succeed, Fail, Discard, Abandon, FinishFails
  <2> QED
    BY <1>1, <1>4, <2>1
<1> QED
  BY <1>3, <1>4

(* An unlocked row changes only by a client's call or by a claim, which     *)
(* keeps its schedule: late outcomes of lost claims have no effect.         *)
THEOREM QueueFreeRows == Spec => FreeRowsAreStable
<1> DEFINE Kept(t) ==
      (t \in Stored /\ ~Locked(t) /\ rows'[t] # rows[t]) =>
            \/ \E q \in Queues : Delete(q, t)
            \/ \E q \in Queues, kind \in Kinds, at \in now .. now + MaxDelay :
                  Reschedule(q, t, kind, at)
            \/ /\ rows'[t] # NoRow
               /\ rows'[t].token # NoToken
               /\ rows'[t].next = rows[t].next
               /\ rows'[t].attempts = rows[t].attempts
               /\ rows'[t].kind = rows[t].kind
<1>1. IInv /\ [Next]_vars => [\A t \in Tasks : Kept(t)]_vars
  <2> SUFFICES ASSUME IInv, Next, NEW t \in Tasks,
                      t \in Stored, ~Locked(t), rows'[t] # rows[t]
               PROVE  Kept(t)
    OBVIOUS
  <2>1. rows \in [Tasks -> Row \cup {NoRow}]
    BY DEF IInv, TypeOK
  <2>2. \A q \in Queues : ~Owns(q, t)
    BY DEF IInv, LockedRowsAreDue, Locked, Owns
  <2>3. CASE Tick
    BY <2>3 DEF Tick
  <2>4. ASSUME NEW q \in Queues, Client(q)
        PROVE  Kept(t)
    <3>1. PICK u \in Tasks :
             \/ Delete(q, u)
             \/ \E kind \in Kinds, at \in now .. now + MaxDelay :
                   Enqueue(q, u, kind, at) \/ Reschedule(q, u, kind, at)
      BY <2>4 DEF Client
    <3>2. u = t
      BY <2>1, <3>1 DEF Delete, Enqueue, Reschedule
    <3>3. \A kind, at : ~Enqueue(q, t, kind, at)
      BY DEF Enqueue
    <3> QED
      BY <3>1, <3>2, <3>3
  <2>5. ASSUME NEW q \in Queues, Outcome(q)
        PROVE  Kept(t)
    BY <2>2, <2>5, OutcomeWrites
  <2>6. ASSUME NEW q \in Queues, ClaimDue(q)
        PROVE  Kept(t)
    <3>1. rows[t] \in Row
      BY RowFields DEF IInv
    <3>2. tokens + 1 # NoToken
      BY DEF IInv, TypeOK, NoToken
    <3>3. rows'[t] = [rows[t] EXCEPT !.lockedAt = now, !.token = tokens + 1,
                                     !.failed = FALSE]
      BY <2>6 DEF ClaimDue
    <3>4. /\ rows'[t].token = tokens + 1
          /\ rows'[t].next = rows[t].next
          /\ rows'[t].attempts = rows[t].attempts
          /\ rows'[t].kind = rows[t].kind
          /\ rows'[t].kind \in Kinds
      BY <3>1, <3>3 DEF Row
    <3>5. rows'[t] # NoRow
      BY <3>4 DEF Kinds, NoRow
    <3> QED
      BY <3>2, <3>4, <3>5
  <2>7. ASSUME NEW q \in Queues, Loop(q), ~ClaimDue(q)
        PROVE  rows' = rows
    BY <2>7 DEF Loop, ClaimFails, StartTask, EndRun, PeekNext, Arm, PeekFails,
                TimerFires, TakeWake
  <2>8. ASSUME NEW q \in Queues, Lifecycle(q)
        PROVE  rows' = rows
    BY <2>8 DEF Lifecycle, Stop, Crash, Restart
  <2> QED
    BY <2>3, <2>4, <2>5, <2>6, <2>7, <2>8 DEF Next
<1> QED
  BY <1>1, QueueInvariant, PTL DEF Spec, FreeRowsAreStable

-----------------------------------------------------------------------------
(* Refinement of the ledger.                                                *)

LEMMA EntryOfStored ==
    ASSUME IInv, NEW t \in Stored
    PROVE  /\ Entry(t) = [status |-> IF rows[t].next = None THEN "dead"
                                     ELSE IF rows[t].token # NoToken THEN "open"
                                     ELSE "ready",
                          kind |-> rows[t].kind, failures |-> rows[t].attempts]
           /\ Entry(t).status # "absent"
  BY DEF Entry, Status

LEMMA EntryOfAbsent ==
    ASSUME NEW t \in Tasks, t \notin Stored
    PROVE  Entry(t) = [status |-> "absent", kind |-> "once", failures |-> 0]
  BY DEF Entry

(* A write of one row changes one entry.                                    *)
LEMMA ViewStep ==
    ASSUME IInv, NEW t \in Tasks, NEW new, rows' = [rows EXCEPT ![t] = new]
    PROVE  View' = [View EXCEPT ![t] = Entry(t)'] /\ rows'[t] = new
<1>1. /\ rows'[t] = new
      /\ \A u \in Tasks : u # t => rows'[u] = rows[u]
  BY DEF IInv, TypeOK
<1>2. \A u \in Tasks : u # t => Entry(u)' = Entry(u)
  BY <1>1 DEF Entry, Status, Stored
<1> QED
  BY <1>1, <1>2 DEF View

LEMMA ViewStutter == ASSUME UNCHANGED rows PROVE UNCHANGED View
  BY DEF View, Entry, Status, Stored

(* A client's write is a Put or a Remove of the ledger.                     *)
LEMMA ClientRefines ==
    ASSUME IInv, NEW q \in Queues, Client(q)
    PROVE  Ledger!Next
<1>1. PICK t \in Tasks :
         \/ Delete(q, t)
         \/ \E kind \in Kinds, at \in now .. now + MaxDelay :
               Enqueue(q, t, kind, at) \/ Reschedule(q, t, kind, at)
  BY DEF Client
<1>2. CASE Delete(q, t)
  <2>1. rows' = [rows EXCEPT ![t] = NoRow] /\ t \in Stored
    BY <1>2 DEF Delete
  <2>2. View' = [View EXCEPT ![t] = Entry(t)'] /\ t \notin Stored'
    BY <2>1, ViewStep DEF Stored
  <2>3. Entry(t)' = Ledger!NoEntry
    BY <2>2 DEF Entry, Ledger!NoEntry
  <2>4. View[t].status # "absent"
    BY <2>1, EntryOfStored DEF View
  <2>5. Ledger!Remove(t)
    BY <2>2, <2>3, <2>4 DEF Ledger!Remove
  <2> QED
    BY <2>5 DEF Ledger!Next
<1>3. ASSUME NEW kind \in Kinds, NEW at \in now .. now + MaxDelay,
             Enqueue(q, t, kind, at) \/ Reschedule(q, t, kind, at)
      PROVE  Ledger!Next
  <2>1. rows' = [rows EXCEPT ![t] = NewRow(kind, at)]
    BY <1>3 DEF Enqueue, Reschedule
  <2>2. at \in Nat
    BY QueueAssumption DEF IInv, TypeOK
  <2>3. /\ View' = [View EXCEPT ![t] = Entry(t)']
        /\ rows'[t] = NewRow(kind, at)
    BY <2>1, ViewStep
  <2>4. Entry(t)' = Ledger!Fresh(kind)
    BY <2>2, <2>3, NewRowFields DEF Entry, Status, Stored, Ledger!Fresh, None
  <2>5. Ledger!Put(t, kind)
    BY <2>3, <2>4 DEF Ledger!Put
  <2> QED
    BY <2>5 DEF Ledger!Next, Ledger!LedgerKinds, Kinds
<1> QED
  BY <1>1, <1>2, <1>3

(* A row its claim owns is open in the ledger.                              *)
LEMMA OwnedIsOpen ==
    ASSUME IInv, NEW q \in Queues, NEW t \in Held(q), Owns(q, t)
    PROVE  /\ t \in Tasks
           /\ View[t] = [status |-> "open", kind |-> claims[q][t].kind,
                         failures |-> rows[t].attempts]
<1>1. t \in Stored /\ t \in Tasks /\ rows[t].token # NoToken
  BY DEF Owns, Stored
<1>2. rows[t].next # None
  BY <1>1 DEF IInv, LockedRowsAreDue
<1>3. rows[t].kind = claims[q][t].kind
  BY OwnedRow
<1> QED
  BY <1>1, <1>2, <1>3, EntryOfStored DEF View

(* The outcome of an owner completes, fails or drops the entry.             *)
LEMMA OwnerRefines ==
    ASSUME IInv, NEW q \in Queues, NEW t \in Held(q), Owns(q, t),
           Succeed(q, t) \/ Fail(q, t) \/ Discard(q, t)
    PROVE  Ledger!Next
<1> DEFINE k == claims[q][t].kind
<1>1. /\ t \in Tasks
      /\ View[t] = [status |-> "open", kind |-> k, failures |-> rows[t].attempts]
  BY OwnedIsOpen
<1>2. /\ rows[t].attempts = claims[q][t].attempts
      /\ rows[t].attempts \in Nat /\ rows[t].attempts < MaxAttempts
      /\ rows[t].kind = k /\ k \in Kinds
      /\ claims[q][t].due \in Nat /\ now \in Nat
  BY OwnedRow, ClaimFields DEF IInv, TypeOK
<1>3. CASE rows' = [rows EXCEPT ![t] = NoRow]
           /\ (Discard(q, t) \/ (Succeed(q, t) /\ k = "once"))
  <2>1. View' = [View EXCEPT ![t] = Entry(t)'] /\ t \notin Stored'
    BY <1>1, <1>3, ViewStep DEF Stored
  <2>2. Entry(t)' = Ledger!NoEntry
    BY <2>1 DEF Entry, Ledger!NoEntry
  <2>3. View' = [View EXCEPT ![t] = Ledger!NoEntry]
    BY <2>1, <2>2
  <2>4. CASE Discard(q, t)
    <3>1. Ledger!Drop(t)
      BY <1>1, <2>3 DEF Ledger!Drop
    <3> QED
      BY <1>1, <3>1 DEF Ledger!Next
  <2>5. CASE k = "once"
    <3>1. Ledger!Complete(t)
      BY <1>1, <2>3, <2>5 DEF Ledger!Complete
    <3> QED
      BY <1>1, <3>1 DEF Ledger!Next
  <2> QED
    BY <1>3, <2>4, <2>5
<1>4. CASE Succeed(q, t) /\ k # "once"
  <2> DEFINE next == NextAfterRun(claims[q][t].due, now)
             new == Released(rows[t], next, 0, FALSE)
  <2>1. rows' = [rows EXCEPT ![t] = new]
    BY <1>4 DEF Succeed
  <2>2. next \in Nat
    BY <1>2, NextAfterRunIsLater
  <2> HIDE DEF next
  <2>3. View' = [View EXCEPT ![t] = Entry(t)'] /\ rows'[t] = new
    BY <1>1, <2>1, ViewStep
  <2>4. /\ new.kind = k /\ new.next # None /\ new.token = NoToken
        /\ new.attempts = 0 /\ new # NoRow
    BY <1>2, <2>2 DEF Released, None, NoRow, Kinds
  <2> HIDE DEF new
  <2>5. Entry(t)' = Ledger!Fresh(k)
    BY <1>1, <2>3, <2>4 DEF Entry, Status, Stored, Ledger!Fresh
  <2>6. k = "every"
    BY <1>2, <1>4 DEF Kinds
  <2>7. Ledger!Complete(t)
    BY <1>1, <1>4, <2>3, <2>5, <2>6 DEF Ledger!Complete
  <2> QED
    BY <1>1, <2>7 DEF Ledger!Next
<1>5. CASE Fail(q, t)
  <2> DEFINE attempt == claims[q][t].attempts + 1
             next == IF attempt >= MaxAttempts THEN None
                     ELSE now + RetryDelay[attempt]
             new == Released(rows[t], next, rows[t].attempts + 1, TRUE)
  <2>1. rows' = [rows EXCEPT ![t] = new]
    BY <1>5 DEF Fail
  <2>2. attempt = rows[t].attempts + 1 /\ attempt \in 1 .. MaxAttempts
    BY <1>2, QueueAssumption
  <2>3. next = None <=> rows[t].attempts + 1 = MaxAttempts
    BY <1>2, <2>2, QueueAssumption DEF None
  <2> HIDE DEF next, attempt
  <2>4. View' = [View EXCEPT ![t] = Entry(t)'] /\ rows'[t] = new
    BY <1>1, <2>1, ViewStep
  <2>5. /\ new.kind = k /\ new.next = next /\ new.token = NoToken
        /\ new.attempts = rows[t].attempts + 1 /\ new # NoRow
    BY <1>2 DEF Released, NoRow, Kinds
  <2> HIDE DEF new
  <2>6. Entry(t)' = [status |-> IF rows[t].attempts + 1 = MaxAttempts
                                THEN "dead" ELSE "ready",
                     kind |-> k, failures |-> rows[t].attempts + 1]
    BY <1>1, <2>3, <2>4, <2>5 DEF Entry, Status, Stored
  <2>7. Ledger!Failed(t)
    BY <1>1, <2>4, <2>6 DEF Ledger!Failed
  <2> QED
    BY <1>1, <2>7 DEF Ledger!Next
<1> QED
  BY <1>3, <1>4, <1>5 DEF Succeed, Discard

(* A claim opens the entries of the rows it takes.                          *)
LEMMA ClaimRefines ==
    ASSUME IInv, NEW q \in Queues, ClaimDue(q)
    PROVE  Ledger!Begin(FirstDue)
<1>1. /\ rows \in [Tasks -> Row \cup {NoRow}]
      /\ tokens + 1 # NoToken
  BY DEF IInv, TypeOK, NoToken
<1>2. \A t \in FirstDue : t \in Tasks /\ t \in Stored /\ rows[t].next # None
  BY DEF FirstDue, Due, Claimable
<1>3. \A t \in Tasks : t \notin FirstDue => rows'[t] = rows[t]
  BY DEF ClaimDue
<1>4. \A t \in FirstDue : View[t].status \in {"ready", "open"}
  BY <1>2, EntryOfStored DEF View
<1>5. ASSUME NEW t \in FirstDue
      PROVE  Entry(t)' = [View[t] EXCEPT !.status = "open"]
  <2>1. rows[t] \in Row /\ t \in Tasks
    BY <1>2, RowFields DEF IInv
  <2>2. rows'[t] = [rows[t] EXCEPT !.lockedAt = now, !.token = tokens + 1,
                                   !.failed = FALSE]
    BY <2>1 DEF ClaimDue
  <2>3. /\ rows'[t].token = tokens + 1
        /\ rows'[t].next = rows[t].next
        /\ rows'[t].attempts = rows[t].attempts
        /\ rows'[t].kind = rows[t].kind
        /\ rows'[t].kind \in Kinds
    BY <2>1, <2>2 DEF Row
  <2>4. rows'[t] # NoRow
    BY <2>3 DEF Kinds, NoRow
  <2>5. Entry(t)' = [status |-> "open", kind |-> rows[t].kind,
                     failures |-> rows[t].attempts]
    BY <1>1, <1>2, <2>1, <2>3, <2>4 DEF Entry, Status, Stored
  <2> QED
    BY <1>2, <2>1, <2>5, EntryOfStored DEF View
<1>6. ASSUME NEW t \in Tasks, t \notin FirstDue
      PROVE  Entry(t)' = View[t]
  BY <1>3, <1>6 DEF View, Entry, Status, Stored
<1>7. View' = [t \in Tasks |-> IF t \in FirstDue
                               THEN [View[t] EXCEPT !.status = "open"]
                               ELSE View[t]]
  BY <1>5, <1>6 DEF View
<1> QED
  BY <1>4, <1>7 DEF Ledger!Begin

LEMMA InitRefines == Init => Ledger!Init
  BY DEF Init, Ledger!Init, View, Entry, Stored, Ledger!NoEntry

LEMMA NextRefines == IInv /\ [Next]_vars => [Ledger!Next]_View
<1> SUFFICES ASSUME IInv, [Next]_vars PROVE Ledger!Next \/ UNCHANGED View
  OBVIOUS
<1>1. CASE Tick \/ UNCHANGED vars
  BY <1>1, ViewStutter DEF Tick, vars
<1>2. ASSUME NEW q \in Queues, Outcome(q)
      PROVE  Ledger!Next \/ UNCHANGED View
  <2>1. PICK t \in Tasks : \/ Succeed(q, t) \/ Fail(q, t) \/ Discard(q, t)
                           \/ Abandon(q, t) \/ FinishFails(q, t)
    BY <1>2 DEF Outcome
  <2>2. CASE Abandon(q, t) \/ FinishFails(q, t)
    BY <2>2, ViewStutter DEF Abandon, FinishFails
  <2>3. CASE (Succeed(q, t) \/ Fail(q, t) \/ Discard(q, t)) /\ ~Owns(q, t)
    <3>1. UNCHANGED rows
      BY <2>3 DEF Succeed, Fail, Discard
    <3> QED
      BY <3>1, ViewStutter
  <2>4. CASE (Succeed(q, t) \/ Fail(q, t) \/ Discard(q, t)) /\ Owns(q, t)
    BY <2>4, OwnerRefines DEF Succeed, Fail, Discard, Started
  <2> QED
    BY <2>1, <2>2, <2>3, <2>4
<1>3. ASSUME NEW q \in Queues, ClaimDue(q)
      PROVE  Ledger!Next
  <2>1. FirstDue \in SUBSET Tasks
    BY DEF FirstDue, Due
  <2> QED
    BY <1>3, <2>1, ClaimRefines DEF Ledger!Next
<1>4. ASSUME NEW q \in Queues, Loop(q) \/ Lifecycle(q), ~ClaimDue(q)
      PROVE  UNCHANGED View
  <2>1. UNCHANGED rows
    BY <1>4 DEF Loop, ClaimFails, StartTask, EndRun, PeekNext, Arm, PeekFails,
                TimerFires, TakeWake, Lifecycle, Stop, Crash, Restart
  <2> QED
    BY <2>1, ViewStutter
<1> QED
  BY <1>1, <1>2, <1>3, <1>4, ClientRefines DEF Next

(* Every behaviour of the queue is one of the ledger: attempts count only   *)
(* handler failures of the current occurrence, a task dies exactly at its   *)
(* last attempt, and a finished occurrence is settled once.                 *)
THEOREM QueueImplementsLedger == Spec => LedgerSpec
<1>1. Init => Ledger!Init
  BY InitRefines
<1>2. IInv /\ [Next]_vars => [Ledger!Next]_View
  BY NextRefines
<1> QED
  BY <1>1, <1>2, QueueInvariant, PTL DEF Spec, LedgerSpec, Ledger!Spec

-----------------------------------------------------------------------------
(* The sleep of a lone process.                                             *)
Deadline(t) == IF Locked(t) THEN rows[t].lockedAt + Lease ELSE rows[t].next

(* A peek arms a deadline no later than any row's.                          *)
LEMMA PeekArmsInTime ==
    ASSUME IInv, NEW q \in Queues, PeekNext(q), pc'[q] = "arm",
           NEW t \in Stored, rows[t].next # None
    PROVE  until'[q] <= Deadline(t)
<1>1. \A m \in Looks : ~(m <= now)
  BY DEF PeekNext, IInv, TypeOK
<1>2. \A k \in Looks : until'[q] <= k
  BY <1>1 DEF PeekNext, IInv, TypeOK
<1>3. NextLook(t) \in Looks
  BY DEF Looks
<1>4. /\ now \in Nat /\ Lease \in Nat /\ rows[t].next \in Nat
      /\ rows[t].lockedAt \in Nat \cup {None}
  BY RowFields, QueueAssumption DEF IInv, TypeOK
<1>5. CASE Locked(t)
  <2>1. rows[t].next <= rows[t].lockedAt /\ rows[t].lockedAt <= now
        /\ rows[t].lockedAt \in Nat
    BY <1>4, <1>5 DEF IInv, LockedRowsAreDue, Locked
  <2>2. rows[t].next <= now
    BY <1>4, <2>1
  <2>3. ActiveLock(t)
    BY <1>1, <1>3, <2>2 DEF NextLook
  <2>4. NextLook(t) = rows[t].lockedAt + Lease
    BY <2>2, <2>3 DEF NextLook
  <2> QED
    BY <1>2, <1>3, <1>5, <2>4 DEF Deadline
<1>6. CASE ~Locked(t)
  <2>1. NextLook(t) = rows[t].next
    BY <1>6 DEF NextLook, ActiveLock
  <2> QED
    BY <1>2, <1>3, <1>6, <2>1 DEF Deadline
<1> QED
  BY <1>5, <1>6

LEMMA NoOversleepStep == IInv /\ NoOversleep /\ [Next]_vars => NoOversleep'
<1> SUFFICES ASSUME IInv, NoOversleep, [Next]_vars, NEW q \in Queues,
                    Queues = {q}, pc'[q] \in {"arm", "sleep"}, ~wake'[q],
                    NEW t \in Stored', rows'[t].next # None
             PROVE  until'[q] <= Deadline(t)'
  BY DEF NoOversleep, Deadline
<1>1. (/\ rows' = rows /\ pc[q] \in {"arm", "sleep"}
       /\ ~wake[q] /\ until'[q] = until[q])
      => until'[q] <= Deadline(t)'
  BY DEF NoOversleep, Deadline, Locked, Stored
<1>2. CASE Tick \/ UNCHANGED vars
  BY <1>1, <1>2 DEF Tick, vars, loopVars
<1>3. CASE Client(q)
  BY <1>3 DEF Client, Delete, Enqueue, Reschedule, SignalWake, IInv, TypeOK
<1>4. CASE Outcome(q)
  <2>1. PICK u \in Tasks : u \in Started(q) /\ UNCHANGED pc
    BY <1>4 DEF Outcome, Succeed, Fail, Discard, Abandon, FinishFails, Settle
  <2>2. pc[q] = "run"
    BY <2>1 DEF Started, Held, IInv, ClaimsOnlyInRun, NoClaims
  <2> QED
    BY <2>1, <2>2
<1>5. CASE PeekNext(q)
  <2>1. pc'[q] = "arm" /\ rows' = rows
    BY <1>5 DEF PeekNext, IInv, TypeOK
  <2>2. t \in Stored /\ rows[t].next # None /\ Deadline(t)' = Deadline(t)
    BY <2>1 DEF Stored, Deadline, Locked
  <2> QED
    BY <1>5, <2>1, <2>2, PeekArmsInTime
<1>6. CASE Arm(q)
  BY <1>1, <1>6 DEF Arm
<1>7. CASE ClaimDue(q) \/ ClaimFails(q) \/ EndRun(q) \/ PeekFails(q)
           \/ TimerFires(q) \/ TakeWake(q)
  BY <1>7 DEF ClaimDue, ClaimFails, EndRun, PeekFails, TimerFires, TakeWake,
              IInv, TypeOK
<1>8. CASE \E u \in Tasks : StartTask(q, u)
  BY <1>8 DEF StartTask
<1>9. CASE Lifecycle(q)
  BY <1>9 DEF Lifecycle, Stop, Crash, Restart, IInv, TypeOK
<1> QED
  BY <1>2, <1>3, <1>4, <1>5, <1>6, <1>7, <1>8, <1>9 DEF Next, Loop

(* A lone process that sleeps without a pending wake wakes up no later than *)
(* the moment any row falls due or any lease runs out.                      *)
THEOREM QueueNoOversleep == Spec => []NoOversleep
<1>1. Init => NoOversleep
  BY DEF Init, NoOversleep
<1>2. IInv /\ NoOversleep /\ [Next]_vars => NoOversleep'
  BY NoOversleepStep
<1> QED
  BY <1>1, <1>2, QueueInvariant, PTL DEF Spec
=============================================================================

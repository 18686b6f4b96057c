-------------------------- MODULE Services_proofs --------------------------
(***************************************************************************)
(* Proofs about the components that MCServices and, for shells,            *)
(* MCDispatcher check side by side.  Each part has its inductive           *)
(* invariant, the step that keeps it, and the theorems that follow.        *)
(***************************************************************************)
EXTENDS WebSessions, SshPool, Firing, Shells, Requester, Delivery, Workspace, Ann, WebChat, Agent,
        SequenceTheorems, WellFoundedInduction, NaturalsInduction, TLAPS

-----------------------------------------------------------------------------
(* The web login.                                                           *)

(* A handler holds what the phase it is in has read: a login its client's   *)
(* address and the time it began, a request its token and the row.          *)
WebRows == [seen : Moment, expires : Moment] \cup {NoSession}
LoginPhases == {"login", "failed", "expired", "create", "refused"}
HeldPhases == {"session", "judge", "drop", "touch", "accepted", "refused"}
LoginRecords == [at : LoginPhases, address : Addresses, guess : 1..2, now : Nat]
ClearRecords == [at : {"clear"}, address : Addresses, token : Tokens]
HeldRecords == [at : HeldPhases, token : Tokens, row : WebRows, late : BOOLEAN]
WebRecords == [at : {"rest"}] \cup LoginRecords \cup ClearRecords \cup HeldRecords

(* Whose session has ended: its row is gone for good, or is past its age.   *)
HasEnded(t) == t \in ended \/ (sessions[t] # NoSession /\ sessions[t].expires <= clock)

RequestsOK == request \in [Handlers -> WebRecords]
BegunBefore == \A h \in Handlers : request[h] \in LoginRecords => request[h].now <= clock
EndedAreGone == \A t \in ended : sessions[t] = NoSession
LateIsOver ==
    \A h \in Handlers : request[h] \in HeldRecords /\ request[h].late =>
        /\ HasEnded(request[h].token)
        /\ request[h].at \notin {"touch", "accepted"}
        /\ request[h].at = "judge" => request[h].row.expires <= clock

WebInv == WebTypeOK /\ RequestsOK /\ BegunBefore /\ EndedAreGone /\ LateIsOver

LEMMA WebInitial == WebInit => WebInv
  BY WebSessionsAssumption DEF WebInit, WebInv, WebTypeOK, RequestsOK, BegunBefore, EndedAreGone,
     LateIsOver, WebRecords, LoginRecords, HeldRecords, Resting, NoSession, NoAttempt, Moment

LEMMA WebKept == WebInv /\ [WebNext]_webVars => WebInv'
<1> SUFFICES ASSUME WebInv, [WebNext]_webVars PROVE WebInv'
  OBVIOUS
<1> USE WebSessionsAssumption
    DEF WebInv, WebTypeOK, RequestsOK, BegunBefore, EndedAreGone, LateIsOver, HasEnded
<1>0. CASE UNCHANGED webVars
  BY <1>0 DEF webVars
<1>1. ASSUME NEW h \in Handlers, LoginStep(h) PROVE WebInv'
  <2> USE DEF HandlerAt, HandlerTo, WebRecords, LoginRecords, ClearRecords, HeldRecords,
          LoginPhases, HeldPhases
  <2>1. ASSUME NEW a \in Addresses, NEW guess \in 1..2, Allow(h, a, guess) PROVE WebInv'
    BY <2>1 DEF Allow, Moment, NoAttempt
  <2>2. CASE LoginRefused(h)
    BY <2>2 DEF LoginRefused
  <2>3. CASE Compare(h)
    BY <2>3 DEF Compare, PasswordHash
  <2>4. CASE RecordFailure(h)
    <3>1. request[h] \in LoginRecords /\ request[h].now \in 0..MaxWebClock
      BY <2>4 DEF RecordFailure
    <3>2. /\ request' = [request EXCEPT ![h].at = "refused"]
          /\ UNCHANGED <<clock, webFaults, password, sessions, cookies, ended>>
      BY <2>4 DEF RecordFailure
    <3>3. failures' \in [Addresses -> [count : Nat \ {0}, reset : Moment] \cup {NoAttempt}]
      <4>1. failures[request[h].address] # NoAttempt =>
              [count |-> failures[request[h].address].count + 1,
               reset |-> failures[request[h].address].reset] \in [count : Nat \ {0}, reset : Moment]
        BY <3>1 DEF NoAttempt
      <4>2. [count |-> 1, reset |-> request[h].now + AttemptWindow] \in [count : Nat \ {0}, reset : Moment]
        BY <3>1 DEF Moment
      <4>3. failures' = [failures EXCEPT ![request[h].address] =
              IF Counting(request[h].address, request[h].now)
              THEN [count |-> failures[request[h].address].count + 1,
                    reset |-> failures[request[h].address].reset]
              ELSE [count |-> 1, reset |-> request[h].now + AttemptWindow]]
        BY <2>4, <3>1 DEF RecordFailure
      <4> QED BY <3>1, <4>1, <4>2, <4>3 DEF Counting
    <3> QED BY <3>1, <3>2, <3>3
  <2>5. CASE DeleteExpiredSessions(h)
    BY <2>5 DEF DeleteExpiredSessions, WebFault
  <2>6. CASE CreateSession(h)
    <3>1. request[h] \in LoginRecords /\ request[h].now \in 0..MaxWebClock
      BY <2>6 DEF CreateSession
    <3>2. ASSUME NEW t \in Tokens, t \notin ended, sessions[t] = NoSession,
                 sessions' = [sessions EXCEPT ![t] =
                    [seen |-> request[h].now, expires |-> request[h].now + SessionTTL]],
                 request' = [request EXCEPT ![h] =
                    [at |-> "clear", address |-> request[h].address, token |-> t]],
                 webFaults' = webFaults
          PROVE  WebInv'
      <4>1. [seen |-> request[h].now, expires |-> request[h].now + SessionTTL]
              \in [seen : Moment, expires : Moment]
        BY <3>1 DEF Moment
      <4> QED BY <2>6, <3>1, <3>2, <4>1 DEF CreateSession
    <3>3. CASE WebFault /\ HandlerTo(h, "refused") /\ UNCHANGED sessions
      <4>1. UNCHANGED <<clock, password, failures, cookies, ended>>
        BY <2>6 DEF CreateSession
      <4>2. webFaults' \in 0..MaxWebFaults
        BY <3>3 DEF WebFault
      <4>3. request' = [request EXCEPT ![h].at = "refused"]
        BY <3>3
      <4>4. sessions' = sessions
        BY <3>3
      <4>5. WebTypeOK' /\ RequestsOK'
        BY <3>1, <4>1, <4>2, <4>3, <4>4
      <4>6. request'[h] \in LoginRecords /\ request'[h] \notin HeldRecords
        BY <3>1, <4>3
      <4>7. BegunBefore' /\ EndedAreGone'
        BY <3>1, <4>1, <4>3, <4>4, <4>6
      <4>8. LateIsOver'
        BY <3>1, <4>1, <4>3, <4>4, <4>6
      <4> QED BY <4>5, <4>7, <4>8
    <3> QED BY <2>6, <3>2, <3>3 DEF CreateSession
  <2>7. CASE ClearAttempts(h)
    BY <2>7 DEF ClearAttempts, Resting
  <2> QED BY <1>1, <2>1, <2>2, <2>3, <2>4, <2>5, <2>6, <2>7 DEF LoginStep
<1>2. ASSUME NEW h \in Handlers, RequestStep(h) PROVE WebInv'
  <2> USE DEF HandlerAt, HandlerTo, WebRecords, LoginRecords, ClearRecords, HeldRecords,
          LoginPhases, HeldPhases
  <2>1. ASSUME NEW t \in Tokens, Arrive(h, t) PROVE WebInv'
    BY <2>1 DEF Arrive, WebRows
  <2>2. CASE ReadSession(h)
    BY <2>2 DEF ReadSession, WebFault, WebRows
  <2>3. CASE Judge(h)
    BY <2>3 DEF Judge
  <2>4. CASE DropExpired(h)
    BY <2>4 DEF DropExpired, DeleteRow, WebFault
  <2>5. CASE Touch(h)
    BY <2>5 DEF Touch, TouchSession, WebFault, Moment, NoSession
  <2>6. CASE Serve(h)
    BY <2>6 DEF Serve, Resting
  <2>7. CASE Logout(h)
    BY <2>7 DEF Logout, DeleteRow, WebFault, Resting
  <2> QED BY <1>2, <2>1, <2>2, <2>3, <2>4, <2>5, <2>6, <2>7 DEF RequestStep
<1>3. CASE SetPassword
  BY <1>3 DEF SetPassword
<1>4. CASE WebRestarts
  BY <1>4 DEF WebRestarts, WebFault, Resting, WebRecords, LoginRecords, HeldRecords,
     LoginPhases, HeldPhases
<1>5. CASE WebClockTicks
  BY <1>5 DEF WebClockTicks, WebRecords, LoginRecords, HeldRecords, WebRows, Moment, NoSession
<1> QED BY <1>0, <1>1, <1>2, <1>3, <1>4, <1>5 DEF WebNext

(* The login's state keeps its shape: times stay in their bounds, no record *)
(* of attempts counts none.                                                 *)
THEOREM WebTypeCorrect == WebSpec => []WebTypeOK
<1>1. WebInv => WebTypeOK
  BY DEF WebInv
<1> QED BY <1>1, WebInitial, WebKept, PTL DEF WebSpec

(* A session that was logged out or is past its age is not accepted from a  *)
(* request that arrives later, whatever other requests are doing for it.    *)
THEOREM WebEndedStaysEnded == WebSpec => []EndedStaysEnded
<1>1. WebInv => EndedStaysEnded
  BY DEF WebInv, RequestsOK, LateIsOver, EndedStaysEnded, HandlerAt, WebRecords, LoginRecords,
     ClearRecords, LoginPhases
<1> QED BY <1>1, WebInitial, WebKept, PTL DEF WebSpec

(* An address that used up its attempts is refused until its window ends,   *)
(* unless a login from there succeeds or the process restarts.              *)
THEOREM WebLockoutHolds == WebSpec => LockoutHolds
<1> DEFINE Locked(a) == Counting(a, clock) /\ failures[a].count >= MaxLoginAttempts
           Held(a) == \/ failures'[a] # NoAttempt /\ failures'[a].count >= failures[a].count
                                                 /\ failures'[a].reset = failures[a].reset
                      \/ \E h \in Handlers : HandlerAt(h, "clear") /\ request[h].address = a
                      \/ WebRestarts
<1>1. WebInv /\ [WebNext]_webVars => [\A a \in Addresses : Locked(a) => Held(a)]_webVars
  <2> SUFFICES ASSUME WebInv, WebNext, NEW a \in Addresses, Locked(a) PROVE Held(a)
    OBVIOUS
  <2> USE WebSessionsAssumption DEF WebInv, WebTypeOK, Counting
  <2>1. CASE UNCHANGED failures
    BY <2>1
  <2>2. ASSUME NEW h \in Handlers, NEW b \in Addresses, NEW guess \in 1..2, Allow(h, b, guess)
        PROVE  Held(a)
    BY <2>2 DEF Allow
  <2>3. ASSUME NEW h \in Handlers, RecordFailure(h) PROVE Held(a)
    <3>1. request[h] \in LoginRecords /\ request[h].now <= clock
      BY <2>3 DEF RecordFailure, HandlerAt, RequestsOK, BegunBefore, WebRecords, LoginRecords,
         ClearRecords, HeldRecords, HeldPhases
    <3>2. CASE request[h].address = a
      <4>1. Counting(a, request[h].now)
        BY <3>1, <2>3 DEF LoginRecords, Moment, NoAttempt
      <4>2. failures' = [failures EXCEPT ![a] = [count |-> failures[a].count + 1, reset |-> failures[a].reset]]
        BY <2>3, <3>2, <4>1 DEF RecordFailure
      <4>3. failures[a] \in [count : Nat \ {0}, reset : Moment]
        BY DEF NoAttempt
      <4> QED BY <4>2, <4>3 DEF NoAttempt, Moment
    <3> QED BY <2>1, <2>3, <3>2 DEF RecordFailure
  <2>4. ASSUME NEW h \in Handlers, ClearAttempts(h) PROVE Held(a)
    BY <2>4 DEF ClearAttempts
  <2> QED BY <2>1, <2>2, <2>3, <2>4 DEF WebNext, LoginStep, RequestStep, LoginRefused, Compare, PasswordHash,
        DeleteExpiredSessions, CreateSession, Arrive, ReadSession, Judge, DropExpired, Touch, Serve,
        Logout, SetPassword, WebClockTicks
<1> QED BY <1>1, WebInitial, WebKept, PTL DEF WebSpec, LockoutHolds

-----------------------------------------------------------------------------
(* The SSH connections.                                                     *)

Clients == Dials \cup {NoClient}
DialPhases == {"look", "dial", "store", "leave", "done"}
CheckPhases == {"rest", "retry", "join", Waiting, "session", "evict", "close", "done"}
CallRecords == [at : DialPhases, leader : Checks, result : Clients \cup {Refused, ContextError},
                cached : BOOLEAN]
CheckRecords == [at : CheckPhases, live : BOOLEAN, attempt : {1, 2}, call : Clients,
                 client : Clients, reused : BOOLEAN, again : BOOLEAN]

CacheTypes == client \in Clients /\ flight \in Clients /\ open \subseteq Dials /\ closed \in BOOLEAN
DialTypes == dial \in [Dials -> CallRecords \cup {NoDial}]
CheckTypes == check \in [Checks -> CheckRecords]
WaitersJoined == \A c \in Checks : CheckAt(c, Waiting) => check[c].call \in Dials
PoolTypes == CacheTypes /\ DialTypes /\ CheckTypes /\ WaitersJoined

(* A client that its dial has let go of: cached, handed out, or closed.     *)
Settled(d) == dial[d].at \in {"leave", "done"}
HeldAreSettled ==
    /\ client # NoClient => Settled(client)
    /\ \A c \in Checks : check[c].client # NoClient => Settled(check[c].client)
    /\ \A d \in Dials : DialAt(d, "store") => d \in open
    /\ \A d \in Dials : dial[d].at \in {"leave", "done"} /\ dial[d].result \in Dials
                         => Settled(dial[d].result)
ClosersHaveEvicted ==
    \A c \in Checks :
        /\ check[c].at \in {"session", "evict", "close"} => check[c].client # NoClient
        /\ CheckAt(c, "close") => check[c].client # client

PoolInv == PoolTypes /\ HeldAreSettled /\ ClosersHaveEvicted /\ CachedIsOpen /\ ClientsAreOwned

LEMMA PoolInitial == PoolInit => PoolInv
<1> SUFFICES ASSUME PoolInit PROVE PoolInv
  OBVIOUS
<1>1. PoolTypes
  BY DEF PoolInit, PoolTypes, CacheTypes, DialTypes, CheckTypes, WaitersJoined, CheckRecords,
        Clients, CheckPhases, NoDial, NoClient, CheckAt, Waiting
<1>2. HeldAreSettled /\ ClosersHaveEvicted /\ CachedIsOpen /\ ClientsAreOwned
  BY DEF PoolInit, HeldAreSettled, ClosersHaveEvicted, CachedIsOpen, ClientsAreOwned, NoDial,
     CheckAt, DialAt
<1> QED BY <1>1, <1>2 DEF PoolInv

(* The values that stand for no client are not clients.                     *)
LEMMA PoolNames == NoClient \notin Dials /\ Refused \notin Clients /\ ContextError \notin Clients
                   /\ Refused # ContextError
  BY SshPoolAssumption DEF NoClient, Refused, ContextError, Clients, Dials

LEMMA CacheTypesKept == PoolTypes /\ [PoolNext]_poolVars => CacheTypes'
<1> SUFFICES ASSUME PoolTypes, [PoolNext]_poolVars PROVE CacheTypes'
  OBVIOUS
<1> USE PoolNames DEF PoolTypes, CacheTypes, Clients
<1>0. CASE UNCHANGED poolVars
  BY <1>0 DEF poolVars
<1>1. ASSUME NEW c \in Checks, ContextEnds(c) PROVE CacheTypes'
  BY <1>1 DEF ContextEnds
<1>2. ASSUME NEW c \in Checks, CachedClient(c) PROVE CacheTypes'
  BY <1>2 DEF CachedClient
<1>3. ASSUME NEW c \in Checks, Join(c) PROVE CacheTypes'
  BY <1>3 DEF Join
<1>4. ASSUME NEW c \in Checks, Receive(c) PROVE CacheTypes'
  BY <1>4 DEF Receive, NoClient
<1>5. ASSUME NEW c \in Checks, Abandon(c) PROVE CacheTypes'
  BY <1>5 DEF Abandon
<1>6. ASSUME NEW c \in Checks, RunSession(c) PROVE CacheTypes'
  BY <1>6 DEF RunSession
<1>7. ASSUME NEW c \in Checks, Evict(c) PROVE CacheTypes'
  BY <1>7 DEF Evict
<1>8. ASSUME NEW c \in Checks, CloseEvicted(c) PROVE CacheTypes'
  BY <1>8 DEF CloseEvicted
<1>9. ASSUME NEW d \in Dials, LookAgain(d) PROVE CacheTypes'
  BY <1>9 DEF LookAgain
<1>10. ASSUME NEW d \in Dials, DialSucceeds(d) PROVE CacheTypes'
  BY <1>10 DEF DialSucceeds
<1>11. ASSUME NEW d \in Dials, DialFails(d) PROVE CacheTypes'
  BY <1>11 DEF DialFails
<1>12. ASSUME NEW d \in Dials, StoreClient(d) PROVE CacheTypes'
  BY <1>12 DEF StoreClient
<1>13. ASSUME NEW d \in Dials, DialReturns(d) PROVE CacheTypes'
  BY <1>13 DEF DialReturns, NoClient
<1>14. ASSUME NEW d \in Dials, ConnectionLost(d) PROVE CacheTypes'
  BY <1>14 DEF ConnectionLost
<1>15. CASE CloseRunner
  BY <1>15 DEF CloseRunner, NoClient
<1> QED BY <1>0, <1>1, <1>2, <1>3, <1>4, <1>5, <1>6, <1>7, <1>8, <1>9, <1>10, <1>11, <1>12, <1>13,
      <1>14, <1>15 DEF PoolNext

LEMMA DialTypesKept == PoolTypes /\ [PoolNext]_poolVars => DialTypes'
<1> SUFFICES ASSUME PoolTypes, [PoolNext]_poolVars PROVE DialTypes'
  OBVIOUS
<1> USE PoolNames DEF PoolTypes, DialTypes
<1>0. CASE UNCHANGED poolVars
  BY <1>0 DEF poolVars
<1>1. ASSUME NEW c \in Checks, ContextEnds(c) PROVE DialTypes'
  BY <1>1 DEF ContextEnds
<1>2. ASSUME NEW c \in Checks, CachedClient(c) PROVE DialTypes'
  BY <1>2 DEF CachedClient
<1>3. ASSUME NEW c \in Checks, Join(c) PROVE DialTypes'
  <2>1. CASE flight # 0
    BY <1>3, <2>1 DEF Join
  <2>2. CASE flight = 0
    <3>1. PICK d \in Dials :
            dial' = [dial EXCEPT ![d] = [at |-> "look", leader |-> c, result |-> NoClient, cached |-> FALSE]]
      BY <1>3, <2>2 DEF Join
    <3>2. [at |-> "look", leader |-> c, result |-> NoClient, cached |-> FALSE] \in CallRecords
      BY DEF CallRecords, DialPhases, Clients
    <3> QED BY <3>1, <3>2
  <2> QED BY <2>1, <2>2
<1>4. ASSUME NEW c \in Checks, Receive(c) PROVE DialTypes'
  BY <1>4 DEF Receive
<1>5. ASSUME NEW c \in Checks, Abandon(c) PROVE DialTypes'
  BY <1>5 DEF Abandon
<1>6. ASSUME NEW c \in Checks, RunSession(c) PROVE DialTypes'
  BY <1>6 DEF RunSession
<1>7. ASSUME NEW c \in Checks, Evict(c) PROVE DialTypes'
  BY <1>7 DEF Evict
<1>8. ASSUME NEW c \in Checks, CloseEvicted(c) PROVE DialTypes'
  BY <1>8 DEF CloseEvicted
<1>9. ASSUME NEW d \in Dials, LookAgain(d) PROVE DialTypes'
  BY <1>9 DEF LookAgain, CallRecords, DialPhases, Clients, NoDial, CacheTypes, DialAt, Deliver
<1>10. ASSUME NEW d \in Dials, DialSucceeds(d) PROVE DialTypes'
  <2>1. dial[d] \in CallRecords
    BY <1>10 DEF DialSucceeds, DialAt, NoDial
  <2>2. [dial[d] EXCEPT !.at = "store", !.result = d, !.cached = FALSE] \in CallRecords
    BY <2>1 DEF CallRecords, DialPhases, Clients
  <2> QED BY <1>10, <2>2 DEF DialSucceeds, Deliver
<1>11. ASSUME NEW d \in Dials, DialFails(d) PROVE DialTypes'
  BY <1>11 DEF DialFails, CallRecords, DialPhases, Clients, NoDial, CacheTypes, DialAt, Deliver
<1>12. ASSUME NEW d \in Dials, StoreClient(d) PROVE DialTypes'
  BY <1>12 DEF StoreClient, CallRecords, DialPhases, Clients, NoDial, CacheTypes, DialAt, Deliver
<1>13. ASSUME NEW d \in Dials, DialReturns(d) PROVE DialTypes'
  BY <1>13 DEF DialReturns, CallRecords, DialPhases, Clients, NoDial, CacheTypes, DialAt
<1>14. ASSUME NEW d \in Dials, ConnectionLost(d) PROVE DialTypes'
  BY <1>14 DEF ConnectionLost
<1>15. CASE CloseRunner
  BY <1>15 DEF CloseRunner
<1> QED BY <1>0, <1>1, <1>2, <1>3, <1>4, <1>5, <1>6, <1>7, <1>8, <1>9, <1>10, <1>11, <1>12, <1>13,
      <1>14, <1>15 DEF PoolNext

LEMMA CheckTypesKept == PoolTypes /\ [PoolNext]_poolVars => CheckTypes'
<1> SUFFICES ASSUME PoolTypes, [PoolNext]_poolVars PROVE CheckTypes'
  OBVIOUS
<1> USE PoolNames DEF PoolTypes, CheckTypes
<1>0. CASE UNCHANGED poolVars
  BY <1>0 DEF poolVars
<1>1. ASSUME NEW c \in Checks, ContextEnds(c) PROVE CheckTypes'
  <2>1. [check[c] EXCEPT !.live = FALSE] \in CheckRecords
    BY DEF CheckRecords
  <2> QED BY <1>1, <2>1 DEF ContextEnds
<1>2. ASSUME NEW c \in Checks, CachedClient(c) PROVE CheckTypes'
  <2> DEFINE r == [check[c] EXCEPT !.at = IF client = NoClient THEN "join" ELSE "session",
                                   !.client = client, !.reused = client # NoClient, !.attempt = 1]
  <2>1. r \in CheckRecords
    <3>1. {"join", "session"} \subseteq CheckPhases
      BY DEF CheckPhases
    <3>2. \A p \in CheckPhases, k \in Clients, b \in BOOLEAN :
             [check[c] EXCEPT !.at = p, !.client = k, !.reused = b, !.attempt = 1] \in CheckRecords
      BY DEF CheckRecords
    <3>3. client \in Clients /\ (client # NoClient) \in BOOLEAN
      BY DEF CacheTypes
    <3> QED BY <3>1, <3>2, <3>3
  <2>2. check' = [check EXCEPT ![c] = r]
    BY <1>2 DEF CachedClient
  <2> HIDE DEF r
  <2> QED BY <2>1, <2>2
<1>3. ASSUME NEW c \in Checks, Join(c) PROVE CheckTypes'
  BY <1>3 DEF Join, CheckRecords, CheckPhases, Waiting, CacheTypes, Clients
<1>4. ASSUME NEW c \in Checks, Receive(c) PROVE CheckTypes'
  BY <1>4 DEF Receive, CheckRecords, CheckPhases, Waiting, CacheTypes, Clients, CheckEnds
<1>5. ASSUME NEW c \in Checks, Abandon(c) PROVE CheckTypes'
  <2>1. [check[c] EXCEPT !.at = "done", !.live = FALSE] \in CheckRecords
    <3>1. "done" \in CheckPhases
      BY DEF CheckPhases
    <3> QED BY <3>1 DEF CheckRecords
  <2> QED BY <1>5, <2>1 DEF Abandon, CheckEnds
<1>6. ASSUME NEW c \in Checks, RunSession(c) PROVE CheckTypes'
  BY <1>6 DEF RunSession, CheckRecords, CheckPhases, Waiting, CacheTypes, Clients, CheckTo, CheckEnds
<1>7. ASSUME NEW c \in Checks, Evict(c) PROVE CheckTypes'
  BY <1>7 DEF Evict, CheckRecords, CheckPhases, Waiting, CacheTypes, Clients
<1>8. ASSUME NEW c \in Checks, CloseEvicted(c) PROVE CheckTypes'
  BY <1>8 DEF CloseEvicted, CheckRecords, CheckPhases, Waiting, CacheTypes, Clients, CheckTo
<1>9. ASSUME NEW d \in Dials, LookAgain(d) PROVE CheckTypes'
  BY <1>9 DEF LookAgain
<1>10. ASSUME NEW d \in Dials, DialSucceeds(d) PROVE CheckTypes'
  BY <1>10 DEF DialSucceeds
<1>11. ASSUME NEW d \in Dials, DialFails(d) PROVE CheckTypes'
  BY <1>11 DEF DialFails
<1>12. ASSUME NEW d \in Dials, StoreClient(d) PROVE CheckTypes'
  BY <1>12 DEF StoreClient
<1>13. ASSUME NEW d \in Dials, DialReturns(d) PROVE CheckTypes'
  BY <1>13 DEF DialReturns
<1>14. ASSUME NEW d \in Dials, ConnectionLost(d) PROVE CheckTypes'
  BY <1>14 DEF ConnectionLost
<1>15. CASE CloseRunner
  BY <1>15 DEF CloseRunner
<1> QED BY <1>0, <1>1, <1>2, <1>3, <1>4, <1>5, <1>6, <1>7, <1>8, <1>9, <1>10, <1>11, <1>12, <1>13,
      <1>14, <1>15 DEF PoolNext

LEMMA WaitersJoinedKept == PoolTypes /\ CheckTypes' /\ [PoolNext]_poolVars => WaitersJoined'
<1> SUFFICES ASSUME PoolTypes, CheckTypes', [PoolNext]_poolVars PROVE WaitersJoined'
  OBVIOUS
<1> USE PoolNames DEF PoolTypes, CheckTypes, WaitersJoined, CheckAt, CheckRecords, Waiting
<1>0. CASE UNCHANGED poolVars
  BY <1>0 DEF poolVars
<1>1. ASSUME NEW c \in Checks, ContextEnds(c) PROVE WaitersJoined'
  BY <1>1 DEF ContextEnds
<1>2. ASSUME NEW c \in Checks, CachedClient(c) PROVE WaitersJoined'
  BY <1>2 DEF CachedClient
<1>3. ASSUME NEW c \in Checks, Join(c) PROVE WaitersJoined'
  BY <1>3 DEF Join, CacheTypes, Clients, NoClient
<1>4. ASSUME NEW c \in Checks, Receive(c) PROVE WaitersJoined'
  BY <1>4 DEF Receive, CheckEnds
<1>5. ASSUME NEW c \in Checks, Abandon(c) PROVE WaitersJoined'
  BY <1>5 DEF Abandon, CheckEnds
<1>6. ASSUME NEW c \in Checks, RunSession(c) PROVE WaitersJoined'
  BY <1>6 DEF RunSession, CheckTo, CheckEnds
<1>7. ASSUME NEW c \in Checks, Evict(c) PROVE WaitersJoined'
  BY <1>7 DEF Evict
<1>8. ASSUME NEW c \in Checks, CloseEvicted(c) PROVE WaitersJoined'
  BY <1>8 DEF CloseEvicted, CheckTo
<1>9. ASSUME NEW d \in Dials, LookAgain(d) PROVE WaitersJoined'
  BY <1>9 DEF LookAgain
<1>10. ASSUME NEW d \in Dials, DialSucceeds(d) PROVE WaitersJoined'
  BY <1>10 DEF DialSucceeds
<1>11. ASSUME NEW d \in Dials, DialFails(d) PROVE WaitersJoined'
  BY <1>11 DEF DialFails
<1>12. ASSUME NEW d \in Dials, StoreClient(d) PROVE WaitersJoined'
  BY <1>12 DEF StoreClient
<1>13. ASSUME NEW d \in Dials, DialReturns(d) PROVE WaitersJoined'
  BY <1>13 DEF DialReturns
<1>14. ASSUME NEW d \in Dials, ConnectionLost(d) PROVE WaitersJoined'
  BY <1>14 DEF ConnectionLost
<1>15. CASE CloseRunner
  BY <1>15 DEF CloseRunner
<1> QED BY <1>0, <1>1, <1>2, <1>3, <1>4, <1>5, <1>6, <1>7, <1>8, <1>9, <1>10, <1>11, <1>12, <1>13,
      <1>14, <1>15 DEF PoolNext

LEMMA PoolTypesKept == PoolTypes /\ [PoolNext]_poolVars => PoolTypes'
  BY CacheTypesKept, DialTypesKept, CheckTypesKept, WaitersJoinedKept DEF PoolTypes

LEMMA PoolSettledKept == PoolTypes /\ PoolTypes' /\ HeldAreSettled /\ [PoolNext]_poolVars => HeldAreSettled'
<1> SUFFICES ASSUME PoolTypes, PoolTypes', HeldAreSettled, [PoolNext]_poolVars PROVE HeldAreSettled'
  OBVIOUS
<1> USE PoolNames DEF PoolTypes, CacheTypes, DialTypes, CheckTypes, WaitersJoined, CallRecords, CheckRecords, NoDial, HeldAreSettled, Settled, CheckAt, DialAt, Clients, Waiting, DialPhases
<1>0. CASE UNCHANGED poolVars
  BY <1>0 DEF poolVars
<1>1. ASSUME NEW c \in Checks, ContextEnds(c) PROVE HeldAreSettled'
  BY <1>1 DEF ContextEnds
<1>2. ASSUME NEW c \in Checks, CachedClient(c) PROVE HeldAreSettled'
  BY <1>2 DEF CachedClient
<1>3. ASSUME NEW c \in Checks, Join(c) PROVE HeldAreSettled'
  <2>1. CASE flight # 0
    BY <1>3, <2>1 DEF Join
  <2>2. CASE flight = 0
    <3>1. PICK d \in Dials :
            /\ dial[d] = NoDial
            /\ dial' = [dial EXCEPT ![d] = [at |-> "look", leader |-> c, result |-> NoClient, cached |-> FALSE]]
            /\ check' = [check EXCEPT ![c].at = Waiting, ![c].call = d]
      BY <1>3, <2>2 DEF Join
    <3>2. client' = client /\ open' = open
      BY <1>3 DEF Join
    <3>3. \A e \in Dials : (Settled(e) => Settled(e)') /\ (DialAt(e, "store")' => DialAt(e, "store"))
      BY <3>1
    <3>4. \A k \in Checks : check'[k].client = check[k].client
      BY <3>1
    <3>5. \A e \in Dials : dial'[e].at \in {"leave", "done"} => dial'[e] = dial[e]
      BY <3>1
    <3> HIDE DEF Settled, DialAt
    <3> QED BY <3>2, <3>3, <3>4, <3>5
  <2> QED BY <2>1, <2>2
<1>4. ASSUME NEW c \in Checks, Receive(c) PROVE HeldAreSettled'
  BY <1>4 DEF Receive, CheckEnds
<1>5. ASSUME NEW c \in Checks, Abandon(c) PROVE HeldAreSettled'
  BY <1>5 DEF Abandon, CheckEnds
<1>6. ASSUME NEW c \in Checks, RunSession(c) PROVE HeldAreSettled'
  BY <1>6 DEF RunSession, CheckTo, CheckEnds
<1>7. ASSUME NEW c \in Checks, Evict(c) PROVE HeldAreSettled'
  BY <1>7 DEF Evict
<1>8. ASSUME NEW c \in Checks, CloseEvicted(c) PROVE HeldAreSettled'
  BY <1>8 DEF CloseEvicted, CheckTo
<1>9. ASSUME NEW d \in Dials, LookAgain(d) PROVE HeldAreSettled'
  BY <1>9 DEF LookAgain, Deliver
<1>10. ASSUME NEW d \in Dials, DialSucceeds(d) PROVE HeldAreSettled'
  BY <1>10 DEF DialSucceeds, Deliver
<1>11. ASSUME NEW d \in Dials, DialFails(d) PROVE HeldAreSettled'
  BY <1>11 DEF DialFails, Deliver
<1>12. ASSUME NEW d \in Dials, StoreClient(d) PROVE HeldAreSettled'
  <2>1. dial[d] \in CallRecords /\ d \in open
    BY <1>12 DEF StoreClient
  <2>2. PICK result \in Dials, cached \in BOOLEAN :
           /\ dial' = [dial EXCEPT ![d].at = "leave", ![d].result = result, ![d].cached = cached]
           /\ client' = result /\ open' \in {open, open \ {d}} /\ check' = check
           /\ result = d \/ Settled(result)
    BY <1>12 DEF StoreClient, Deliver, CacheTypes
  <2>3. Settled(d)' /\ \A e \in Dials \ {d} : dial'[e] = dial[e]
    BY <2>1, <2>2
  <2>4. dial'[d].result = result /\ dial'[d].at = "leave"
    BY <2>1, <2>2
  <2>5. \A e \in Dials : Settled(e) => Settled(e)'
    BY <2>3
  <2> QED BY <2>2, <2>3, <2>4, <2>5
<1>13. ASSUME NEW d \in Dials, DialReturns(d) PROVE HeldAreSettled'
  BY <1>13 DEF DialReturns
<1>14. ASSUME NEW d \in Dials, ConnectionLost(d) PROVE HeldAreSettled'
  BY <1>14 DEF ConnectionLost
<1>15. CASE CloseRunner
  BY <1>15 DEF CloseRunner
<1> QED BY <1>0, <1>1, <1>2, <1>3, <1>4, <1>5, <1>6, <1>7, <1>8, <1>9, <1>10, <1>11, <1>12, <1>13,
      <1>14, <1>15 DEF PoolNext

LEMMA PoolClosersKept == PoolTypes /\ PoolTypes' /\ HeldAreSettled /\ ClosersHaveEvicted /\ [PoolNext]_poolVars => ClosersHaveEvicted'
<1> SUFFICES ASSUME PoolTypes, PoolTypes', HeldAreSettled, ClosersHaveEvicted, [PoolNext]_poolVars PROVE ClosersHaveEvicted'
  OBVIOUS
<1> USE PoolNames DEF PoolTypes, CacheTypes, DialTypes, CheckTypes, WaitersJoined, CallRecords, CheckRecords, NoDial, HeldAreSettled, ClosersHaveEvicted, Settled, CheckAt, DialAt, Clients, Waiting, DialPhases
<1>0. CASE UNCHANGED poolVars
  BY <1>0 DEF poolVars
<1>1. ASSUME NEW c \in Checks, ContextEnds(c) PROVE ClosersHaveEvicted'
  BY <1>1 DEF ContextEnds
<1>2. ASSUME NEW c \in Checks, CachedClient(c) PROVE ClosersHaveEvicted'
  BY <1>2 DEF CachedClient
<1>3. ASSUME NEW c \in Checks, Join(c) PROVE ClosersHaveEvicted'
  BY <1>3 DEF Join, NoDial
<1>4. ASSUME NEW c \in Checks, Receive(c) PROVE ClosersHaveEvicted'
  BY <1>4 DEF Receive, CheckEnds
<1>5. ASSUME NEW c \in Checks, Abandon(c) PROVE ClosersHaveEvicted'
  BY <1>5 DEF Abandon, CheckEnds
<1>6. ASSUME NEW c \in Checks, RunSession(c) PROVE ClosersHaveEvicted'
  BY <1>6 DEF RunSession, CheckTo, CheckEnds
<1>7. ASSUME NEW c \in Checks, Evict(c) PROVE ClosersHaveEvicted'
  BY <1>7 DEF Evict
<1>8. ASSUME NEW c \in Checks, CloseEvicted(c) PROVE ClosersHaveEvicted'
  BY <1>8 DEF CloseEvicted, CheckTo
<1>9. ASSUME NEW d \in Dials, LookAgain(d) PROVE ClosersHaveEvicted'
  BY <1>9 DEF LookAgain, Deliver
<1>10. ASSUME NEW d \in Dials, DialSucceeds(d) PROVE ClosersHaveEvicted'
  BY <1>10 DEF DialSucceeds, Deliver
<1>11. ASSUME NEW d \in Dials, DialFails(d) PROVE ClosersHaveEvicted'
  BY <1>11 DEF DialFails, Deliver
<1>12. ASSUME NEW d \in Dials, StoreClient(d) PROVE ClosersHaveEvicted'
  BY <1>12 DEF StoreClient, Deliver
<1>13. ASSUME NEW d \in Dials, DialReturns(d) PROVE ClosersHaveEvicted'
  BY <1>13 DEF DialReturns
<1>14. ASSUME NEW d \in Dials, ConnectionLost(d) PROVE ClosersHaveEvicted'
  BY <1>14 DEF ConnectionLost
<1>15. CASE CloseRunner
  BY <1>15 DEF CloseRunner
<1> QED BY <1>0, <1>1, <1>2, <1>3, <1>4, <1>5, <1>6, <1>7, <1>8, <1>9, <1>10, <1>11, <1>12, <1>13,
      <1>14, <1>15 DEF PoolNext

LEMMA PoolOpenKept == PoolTypes /\ PoolTypes' /\ HeldAreSettled /\ ClosersHaveEvicted /\ CachedIsOpen /\ [PoolNext]_poolVars => CachedIsOpen'
<1> SUFFICES ASSUME PoolTypes, PoolTypes', HeldAreSettled, ClosersHaveEvicted, CachedIsOpen, [PoolNext]_poolVars PROVE CachedIsOpen'
  OBVIOUS
<1> USE PoolNames DEF PoolTypes, CacheTypes, DialTypes, CheckTypes, WaitersJoined, CallRecords, CheckRecords, NoDial, HeldAreSettled, ClosersHaveEvicted, CachedIsOpen, Settled, CheckAt, DialAt, Clients, Waiting, DialPhases
<1>0. CASE UNCHANGED poolVars
  BY <1>0 DEF poolVars
<1>1. ASSUME NEW c \in Checks, ContextEnds(c) PROVE CachedIsOpen'
  BY <1>1 DEF ContextEnds
<1>2. ASSUME NEW c \in Checks, CachedClient(c) PROVE CachedIsOpen'
  BY <1>2 DEF CachedClient
<1>3. ASSUME NEW c \in Checks, Join(c) PROVE CachedIsOpen'
  BY <1>3 DEF Join, NoDial
<1>4. ASSUME NEW c \in Checks, Receive(c) PROVE CachedIsOpen'
  BY <1>4 DEF Receive, CheckEnds
<1>5. ASSUME NEW c \in Checks, Abandon(c) PROVE CachedIsOpen'
  BY <1>5 DEF Abandon, CheckEnds
<1>6. ASSUME NEW c \in Checks, RunSession(c) PROVE CachedIsOpen'
  BY <1>6 DEF RunSession, CheckTo, CheckEnds
<1>7. ASSUME NEW c \in Checks, Evict(c) PROVE CachedIsOpen'
  BY <1>7 DEF Evict
<1>8. ASSUME NEW c \in Checks, CloseEvicted(c) PROVE CachedIsOpen'
  BY <1>8 DEF CloseEvicted, CheckTo
<1>9. ASSUME NEW d \in Dials, LookAgain(d) PROVE CachedIsOpen'
  BY <1>9 DEF LookAgain, Deliver
<1>10. ASSUME NEW d \in Dials, DialSucceeds(d) PROVE CachedIsOpen'
  BY <1>10 DEF DialSucceeds, Deliver
<1>11. ASSUME NEW d \in Dials, DialFails(d) PROVE CachedIsOpen'
  BY <1>11 DEF DialFails, Deliver
<1>12. ASSUME NEW d \in Dials, StoreClient(d) PROVE CachedIsOpen'
  BY <1>12 DEF StoreClient, Deliver
<1>13. ASSUME NEW d \in Dials, DialReturns(d) PROVE CachedIsOpen'
  BY <1>13 DEF DialReturns
<1>14. ASSUME NEW d \in Dials, ConnectionLost(d) PROVE CachedIsOpen'
  BY <1>14 DEF ConnectionLost
<1>15. CASE CloseRunner
  BY <1>15 DEF CloseRunner
<1> QED BY <1>0, <1>1, <1>2, <1>3, <1>4, <1>5, <1>6, <1>7, <1>8, <1>9, <1>10, <1>11, <1>12, <1>13,
      <1>14, <1>15 DEF PoolNext

LEMMA PoolOwnedKept == PoolTypes /\ PoolTypes' /\ HeldAreSettled /\ ClientsAreOwned /\ [PoolNext]_poolVars => ClientsAreOwned'
<1> SUFFICES ASSUME PoolTypes, PoolTypes', HeldAreSettled, ClientsAreOwned, [PoolNext]_poolVars PROVE ClientsAreOwned'
  OBVIOUS
<1> USE PoolNames DEF PoolTypes, CacheTypes, DialTypes, CheckTypes, WaitersJoined, CallRecords, CheckRecords, NoDial, HeldAreSettled, ClientsAreOwned, Settled, CheckAt, DialAt, Clients, Waiting, DialPhases
<1>0. CASE UNCHANGED poolVars
  BY <1>0 DEF poolVars
<1>1. ASSUME NEW c \in Checks, ContextEnds(c) PROVE ClientsAreOwned'
  BY <1>1 DEF ContextEnds
<1>2. ASSUME NEW c \in Checks, CachedClient(c) PROVE ClientsAreOwned'
  BY <1>2 DEF CachedClient
<1>3. ASSUME NEW c \in Checks, Join(c) PROVE ClientsAreOwned'
  BY <1>3 DEF Join, NoDial
<1>4. ASSUME NEW c \in Checks, Receive(c) PROVE ClientsAreOwned'
  BY <1>4 DEF Receive, CheckEnds
<1>5. ASSUME NEW c \in Checks, Abandon(c) PROVE ClientsAreOwned'
  BY <1>5 DEF Abandon, CheckEnds
<1>6. ASSUME NEW c \in Checks, RunSession(c) PROVE ClientsAreOwned'
  BY <1>6 DEF RunSession, CheckTo, CheckEnds
<1>7. ASSUME NEW c \in Checks, Evict(c) PROVE ClientsAreOwned'
  BY <1>7 DEF Evict
<1>8. ASSUME NEW c \in Checks, CloseEvicted(c) PROVE ClientsAreOwned'
  BY <1>8 DEF CloseEvicted, CheckTo
<1>9. ASSUME NEW d \in Dials, LookAgain(d) PROVE ClientsAreOwned'
  BY <1>9 DEF LookAgain, Deliver
<1>10. ASSUME NEW d \in Dials, DialSucceeds(d) PROVE ClientsAreOwned'
  BY <1>10 DEF DialSucceeds, Deliver
<1>11. ASSUME NEW d \in Dials, DialFails(d) PROVE ClientsAreOwned'
  BY <1>11 DEF DialFails, Deliver
<1>12. ASSUME NEW d \in Dials, StoreClient(d) PROVE ClientsAreOwned'
  BY <1>12 DEF StoreClient, Deliver
<1>13. ASSUME NEW d \in Dials, DialReturns(d) PROVE ClientsAreOwned'
  BY <1>13 DEF DialReturns
<1>14. ASSUME NEW d \in Dials, ConnectionLost(d) PROVE ClientsAreOwned'
  BY <1>14 DEF ConnectionLost
<1>15. CASE CloseRunner
  BY <1>15 DEF CloseRunner
<1> QED BY <1>0, <1>1, <1>2, <1>3, <1>4, <1>5, <1>6, <1>7, <1>8, <1>9, <1>10, <1>11, <1>12, <1>13,
      <1>14, <1>15 DEF PoolNext

LEMMA PoolKept == PoolInv /\ [PoolNext]_poolVars => PoolInv'
  BY PoolTypesKept, PoolSettledKept, PoolClosersKept, PoolOpenKept, PoolOwnedKept DEF PoolInv

(* However dials, failures and evictions overlap, every open connection is  *)
(* cached or in the hands of who will close it, until the runner closes.    *)
THEOREM PoolClientsAreOwned == PoolSpec => []ClientsAreOwned
<1>1. PoolInv => ClientsAreOwned
  BY DEF PoolInv
<1> QED BY <1>1, PoolInitial, PoolKept, PTL DEF PoolSpec

(* The cache never holds a connection that was closed.                      *)
THEOREM PoolCachedIsOpen == PoolSpec => []CachedIsOpen
<1>1. PoolInv => CachedIsOpen
  BY DEF PoolInv
<1> QED BY <1>1, PoolInitial, PoolKept, PTL DEF PoolSpec

-----------------------------------------------------------------------------
(* Scheduled firings and their rows.                                        *)

(* What a handler that is running means for its row.                        *)
HandlerFollows ==
    /\ at # "idle" => state # "dead"
    /\ at = "append" => attempts = 0
    /\ at = "notify" => kind = "reminder"

(* An outcome that will be returned as a success is one.                    *)
OutcomeIsTrue ==
    at = "settle" /\ ok => IF kind = "reminder" THEN pushes[firing] > 0 ELSE transcript[firing] > 0

(* Before the first attempt of a firing has appended, each row that is       *)
(* already there comes from a run whose outcome was lost.                   *)
RowsAreFew ==
    /\ \A f \in Firings : f > firing => transcript[f] = 0
    /\ at = "append" \/ (at = "idle" /\ attempts = 0 /\ state = "queued") => transcript[firing] <= lost[firing]

FiringInv == FiringTypeOK /\ HandlerFollows /\ OutcomeIsTrue /\ RowsAreFew /\ NoStrayRows /\ PassedIsDelivered

LEMMA FiringInitial == FiringInit => FiringInv
BY FiringAssumption DEF FiringInit, FiringInv, FiringTypeOK, HandlerFollows, OutcomeIsTrue, RowsAreFew,
   NoStrayRows, PassedIsDelivered, Firings, MaxAttempts, Kinds

LEMMA FiringTypeKept == FiringInv /\ [FiringNext]_firingVars => FiringTypeOK'
<1> SUFFICES ASSUME FiringInv, [FiringNext]_firingVars PROVE FiringTypeOK'
  OBVIOUS
<1>f. firing \in Nat /\ firing \in Firings /\ MaxAttempts \in Nat \ {0}
  BY FiringAssumption DEF FiringInv, FiringTypeOK, MaxAttempts, Firings
<1> USE FiringAssumption DEF FiringInv, FiringTypeOK
<1>c. \A counts \in [Firings -> Nat] : Count(counts) \in [Firings -> Nat]
  BY <1>f DEF Count
<1>m. kind' = kind => MaxAttempts' = MaxAttempts
  BY DEF MaxAttempts
<1>1. CASE UNCHANGED firingVars
  BY <1>1, <1>m DEF firingVars, task, handler, effects, history
<1>2. CASE Claim \/ AppendRow \/ NotifyConversation
  BY <1>2, <1>c, <1>m DEF Claim, AppendRow, NotifyConversation, task, effects, history, handler
<1>3. CASE AppendFails \/ PushFails
  <2>1. firingFaults' \in 0..MaxFiringFaults
    BY <1>3 DEF AppendFails, PushFails, FiringFault
  <2> QED BY <1>3, <2>1, <1>m DEF AppendFails, PushFails, task, effects, history
<1>l. CASE LoseOutcome
  <2>1. firingFaults' \in 0..MaxFiringFaults
    BY <1>l DEF LoseOutcome, FiringFault
  <2> QED BY <1>l, <2>1, <1>c, <1>m DEF LoseOutcome, task, effects, handler
<1>4. CASE Succeed
  <2>1. firing' \in Firings
    BY <1>4, <1>f DEF Succeed, Firings, task
  <2>2. settled' \subseteq Firings /\ attempts' \in {0, attempts} /\ state' \in {state, "gone"}
        /\ (attempts' = attempts \/ (state' = state /\ attempts' = 0))
    BY <1>4, <1>f DEF Succeed, task
  <2>3. state' # "gone" => state' = state /\ state = "queued"
    BY <1>4 DEF Succeed, HandlerFollows, task
  <2>4. UNCHANGED <<kind, recurring, ok, transcript, pushes, lost, firingFaults>> /\ at' = "idle"
    BY <1>4 DEF Succeed, effects
  <2> QED BY <2>1, <2>2, <2>3, <2>4, <1>f, <1>m
<1>5. CASE Fail
  BY <1>5, <1>f, <1>m DEF Fail, HandlerFollows, task, effects, history, handler
<1>6. CASE CancelScheduled
  BY <1>6, <1>m DEF CancelScheduled, task, effects, history, handler
<1> QED BY <1>1, <1>2, <1>3, <1>l, <1>4, <1>5, <1>6 DEF FiringNext

LEMMA HandlerFollowsKept == FiringInv /\ [FiringNext]_firingVars => HandlerFollows'
<1> SUFFICES ASSUME FiringInv, [FiringNext]_firingVars PROVE HandlerFollows'
  OBVIOUS
<1>a. state = "queued" /\ kind = "turn" => attempts = 0
  BY DEF FiringInv, FiringTypeOK, MaxAttempts
<1>b. kind \in {"reminder", "turn"} /\ attempts \in Nat
  BY FiringAssumption DEF FiringInv, FiringTypeOK, MaxAttempts, Kinds
<1>h. HandlerFollows
  BY DEF FiringInv
<1>1. CASE Claim
  BY <1>1, <1>a, <1>b DEF Claim, HandlerFollows, task
<1>2. CASE AppendRow \/ NotifyConversation
  BY <1>2, <1>b, <1>h DEF AppendRow, NotifyConversation, HandlerFollows, task
<1>3. CASE AppendFails \/ PushFails \/ LoseOutcome \/ Succeed \/ Fail \/ CancelScheduled \/ UNCHANGED firingVars
  BY <1>3, <1>h DEF AppendFails, PushFails, LoseOutcome, Succeed, Fail, CancelScheduled, HandlerFollows,
     task, handler, firingVars
<1> QED BY <1>1, <1>2, <1>3 DEF FiringNext

LEMMA OutcomeIsTrueKept == FiringInv /\ [FiringNext]_firingVars => OutcomeIsTrue'
<1> SUFFICES ASSUME FiringInv, [FiringNext]_firingVars PROVE OutcomeIsTrue'
  OBVIOUS
<1> USE DEF FiringInv, FiringTypeOK, HandlerFollows, OutcomeIsTrue, task, effects, history, handler, Count
<1>1. CASE UNCHANGED firingVars
  BY <1>1 DEF firingVars
<1>2. CASE Claim \/ AppendFails \/ PushFails \/ LoseOutcome \/ Succeed \/ Fail
  BY <1>2 DEF Claim, AppendFails, PushFails, LoseOutcome, Succeed, Fail
<1>3. CASE AppendRow
  BY <1>3 DEF AppendRow, Kinds
<1>4. CASE NotifyConversation
  BY <1>4 DEF NotifyConversation
<1>5. CASE CancelScheduled
  BY <1>5 DEF CancelScheduled
<1> QED BY <1>1, <1>2, <1>3, <1>4, <1>5 DEF FiringNext

LEMMA RowsAreFewKept == FiringInv /\ [FiringNext]_firingVars => RowsAreFew'
<1> SUFFICES ASSUME FiringInv, [FiringNext]_firingVars PROVE RowsAreFew'
  OBVIOUS
<1> USE FiringAssumption
    DEF FiringInv, FiringTypeOK, HandlerFollows, RowsAreFew, NoStrayRows, task, effects, history, handler,
        Count, Firings
<1>1. CASE UNCHANGED firingVars
  BY <1>1 DEF firingVars
<1>a. state = "queued" /\ kind = "turn" => attempts = 0
  BY DEF MaxAttempts
<1>b. attempts \in Nat /\ kind \in {"reminder", "turn"} /\ firing \in Nat
  BY DEF MaxAttempts, Kinds
<1>2. CASE Claim
  BY <1>2, <1>a, <1>b DEF Claim
<1>3. CASE AppendRow
  <2>1. transcript' = [transcript EXCEPT ![firing] = @ + 1] /\ firing' = firing /\ at' \in {"notify", "settle"}
    BY <1>3 DEF AppendRow
  <2>2. \A f \in Firings : f > firing => transcript'[f] = transcript[f]
    BY <2>1, <1>b
  <2> HIDE DEF Firings
  <2> QED BY <2>1, <2>2
<1>4. CASE NotifyConversation \/ CancelScheduled \/ AppendFails \/ PushFails
  BY <1>4, <1>b DEF NotifyConversation, CancelScheduled, AppendFails, PushFails
<1>5. CASE LoseOutcome
  <2>1. /\ UNCHANGED <<transcript, firing, attempts, state>> /\ at' = "idle"
        /\ lost' = [lost EXCEPT ![firing] = @ + 1] /\ at # "idle"
    BY <1>5 DEF LoseOutcome
  <2>2. transcript[firing] <= 1 + lost[firing] /\ lost'[firing] = lost[firing] + 1
        /\ transcript[firing] \in Nat /\ lost[firing] \in Nat
    BY <2>1
  <2> QED BY <2>1, <2>2
<1>6. CASE Succeed
  <2>1. UNCHANGED <<transcript, lost>> /\ at' = "idle"
    BY <1>6 DEF Succeed
  <2>2. \/ state' = "gone" /\ firing' = firing
        \/ firing' = firing + 1 /\ firing' \in Firings
    <3>1. CASE state = "gone"
      BY <1>6, <3>1 DEF Succeed
    <3>2. CASE state # "gone" /\ recurring
      <4>1. firing < MaxFirings /\ firing' = firing + 1
        BY <1>6, <3>2 DEF Succeed
      <4> QED BY <4>1, <1>b
    <3>3. CASE state # "gone" /\ ~recurring
      BY <1>6, <3>3 DEF Succeed
    <3> QED BY <3>1, <3>2, <3>3
  <2> QED BY <2>1, <2>2, <1>b
<1>7. CASE Fail
  <2>1. UNCHANGED <<transcript, lost, firing>> /\ at' = "idle"
    BY <1>7 DEF Fail
  <2>2. state' = "gone" \/ attempts' = attempts + 1
    BY <1>7 DEF Fail
  <2> QED BY <2>1, <2>2, <1>b
<1> QED BY <1>1, <1>2, <1>3, <1>4, <1>5, <1>6, <1>7 DEF FiringNext

LEMMA NoStrayRowsKept == FiringInv /\ [FiringNext]_firingVars => NoStrayRows'
<1> SUFFICES ASSUME FiringInv, [FiringNext]_firingVars PROVE NoStrayRows'
  OBVIOUS
<1> USE DEF FiringInv, FiringTypeOK, RowsAreFew, NoStrayRows, task, effects, history, handler, Count
<1>1. CASE UNCHANGED <<transcript, lost>>
  BY <1>1
<1>2. CASE AppendRow
  BY <1>2 DEF AppendRow
<1>3. CASE LoseOutcome
  BY <1>3 DEF LoseOutcome
<1> QED BY <1>1, <1>2, <1>3 DEF FiringNext, firingVars, Claim, NotifyConversation, AppendFails,
      PushFails,
           Succeed, Fail, CancelScheduled

LEMMA PassedIsDeliveredKept == FiringInv /\ [FiringNext]_firingVars => PassedIsDelivered'
<1> SUFFICES ASSUME FiringInv, [FiringNext]_firingVars PROVE PassedIsDelivered'
  OBVIOUS
<1> USE DEF FiringInv, FiringTypeOK, PassedIsDelivered, task, effects, history, handler, Count
<1>1. CASE UNCHANGED <<kind, transcript, pushes, settled>>
  BY <1>1
<1>2. CASE AppendRow \/ NotifyConversation
  BY <1>2 DEF AppendRow, NotifyConversation
<1>3. CASE Succeed
  BY <1>3 DEF Succeed, OutcomeIsTrue
<1> QED BY <1>1, <1>2, <1>3 DEF FiringNext, firingVars, Claim, LoseOutcome, AppendFails, PushFails,
           Fail, CancelScheduled

LEMMA FiringKept == FiringInv /\ [FiringNext]_firingVars => FiringInv'
BY FiringTypeKept, HandlerFollowsKept, OutcomeIsTrueKept, RowsAreFewKept, NoStrayRowsKept,
   PassedIsDeliveredKept DEF FiringInv

(* A row is dead exactly when its attempts are used up, for any bounds.     *)
THEOREM FiringTypeCorrect == FiringSpec => []FiringTypeOK
<1>1. FiringInv => FiringTypeOK
  BY DEF FiringInv
<1> QED BY FiringInitial, FiringKept, <1>1, PTL DEF FiringSpec

(* No firing is passed on undelivered, whatever fails and is retried.       *)
THEOREM FiringPassedIsDelivered == FiringSpec => []PassedIsDelivered
<1>1. FiringInv => PassedIsDelivered
  BY DEF FiringInv
<1> QED BY FiringInitial, FiringKept, <1>1, PTL DEF FiringSpec

(* Retries leave no second row in the transcript; lost outcomes may.        *)
THEOREM FiringNoStrayRows == FiringSpec => []NoStrayRows
<1>1. FiringInv => NoStrayRows
  BY DEF FiringInv
<1> QED BY FiringInitial, FiringKept, <1>1, PTL DEF FiringSpec

-----------------------------------------------------------------------------
(* Requests to a model and their retries.                                   *)

(* What was shown is the attempt's as long as it is the current one, and    *)
(* nothing between the attempts.                                            *)
ShownFollows ==
    /\ req.pc \in {"stream", "chat", "hook", "returned"} => shownText = text /\ shownReasoning = reasoning
    /\ req.pc \in {"start", "recover", "decide", "wait", "failed"} => shownText = 0 /\ shownReasoning = 0

(* A wait ends within the budget, and the attempt after it is allowed.      *)
WaitsFit ==
    /\ req.begun <= ticks
    /\ req.pc = "wait" => /\ policy.budget > 0 => ticks <= policy.budget /\ req.delay <= policy.budget
                          /\ Unlimited(policy) \/ req.attempt <= policy.retries
    /\ req.pc = "start" /\ req.waited /\ policy.budget > 0 => ticks <= policy.budget

RequesterInv == RequesterTypeOK /\ ShownFollows /\ WaitsFit /\ BudgetKept

LEMMA RequesterInitial == RequesterInit => RequesterInv
BY RequesterAssumption DEF RequesterInit, RequesterInv, RequesterTypeOK, ShownFollows, WaitsFit,
      BudgetKept,
   RequestRecords, RequestPhases

LEMMA PolicyNumbers ==
    ASSUME RequesterTypeOK
    PROVE  /\ policy.retries \in Int /\ policy.budget \in Nat /\ policy.base \in Nat /\ policy.max \in Nat
           /\ ticks \in Nat /\ MaxTicks \in Nat
<1>1. policy.retries \in MaxRetriesSet /\ policy.budget \in BudgetSet /\ policy.base \in BaseSet
      /\ policy.max \in MaxDelaySet /\ ticks \in 0..MaxTicks
  BY DEF RequesterTypeOK, Policies
<1>2. MaxRetriesSet \subseteq Int /\ BudgetSet \subseteq Nat /\ BaseSet \subseteq Nat /\ MaxDelaySet \subseteq Nat
      /\ MaxTicks \in Nat
  BY RequesterAssumption
<1>3. ticks \in Nat
  BY <1>1, <1>2
<1> QED BY <1>1, <1>2, <1>3

LEMMA DelaysAreNumbers == ASSUME RequesterTypeOK PROVE Delays(req.attempt) \subseteq Int
<1> DEFINE limit == IF policy.max > 0 THEN policy.max ELSE MaxTicks + 1
           full  == policy.base * 2 ^ (req.attempt - 1)
           d     == IF full < limit THEN full ELSE limit
<1>1. req.attempt - 1 \in Nat
  BY DEF RequesterTypeOK, RequestRecords
<1>2. 2 ^ (req.attempt - 1) \in Int
  BY <1>1
<1>3. full \in Int /\ limit \in Int
  BY <1>2, PolicyNumbers
<1>4. d \in Int
  BY <1>3
<1> HIDE DEF d, limit
<1>5. {IF d > limit - j THEN limit ELSE d + j : j \in 0 .. ((d \div 4) - 1)} \subseteq Int
  BY <1>3, <1>4
<1> USE DEF d, limit
<1>6. Delays(req.attempt) \subseteq {0} \cup {d} \cup {IF d > limit - j THEN limit ELSE d + j : j \in 0 .. ((d \div 4) - 1)}
  BY DEF Delays
<1> HIDE DEF d, limit
<1> QED BY <1>4, <1>5, <1>6

(* What a request waits for, when it waits.                                 *)
LEMMA DecidesToFit ==
    ASSUME RequesterTypeOK, Decide
    PROVE  \/ req' = [req EXCEPT !.pc = "failed"]
           \/ \E delay \in Int : /\ req' = [req EXCEPT !.pc = "wait", !.delay = delay]
                                 /\ policy.budget > 0 => ticks <= policy.budget /\ delay <= policy.budget
                                 /\ Unlimited(policy) \/ req.attempt <= policy.retries
<1>1. CASE req' = [req EXCEPT !.pc = "failed"]
  BY <1>1
<1>2. ASSUME RetryAllowed, NEW d \in Delays(req.attempt),
             LET delay == IF req.after > d THEN req.after ELSE d
             IN  Fits(delay) /\ req' = [req EXCEPT !.pc = "wait", !.delay = ticks + delay]
      PROVE  \E delay \in Int : /\ req' = [req EXCEPT !.pc = "wait", !.delay = delay]
                                /\ policy.budget > 0 => ticks <= policy.budget /\ delay <= policy.budget
                                /\ Unlimited(policy) \/ req.attempt <= policy.retries
  <2> DEFINE delay == IF req.after > d THEN req.after ELSE d
  <2>1. delay \in Int
    BY <1>2, DelaysAreNumbers DEF RequesterTypeOK, RequestRecords
  <2>2. Fits(delay) /\ req' = [req EXCEPT !.pc = "wait", !.delay = ticks + delay]
    BY <1>2
  <2> HIDE DEF delay
  <2>3. ticks + delay \in Int
    BY <2>1, PolicyNumbers
  <2>4. policy.budget > 0 => ticks <= policy.budget /\ ticks + delay <= policy.budget
    BY <1>2, <2>1, <2>2, PolicyNumbers DEF RetryAllowed, Fits, Remaining
  <2> QED BY <1>2, <2>2, <2>3, <2>4 DEF RetryAllowed
<1> QED BY <1>1, <1>2 DEF Decide, Goto

(* What a step does to the request, field by field.                         *)
SameAttempt == req'.begun = req.begun /\ req'.waited = req.waited /\ req'.attempt = req.attempt
LEMMA RequestSteps ==
    ASSUME RequesterTypeOK
    PROVE  /\ AttemptStarted => /\ req'.waited = req.waited /\ req'.attempt = req.attempt
                                /\ \/ req'.pc \in {"stream", "chat"} /\ req'.begun = ticks
                                   \/ req'.pc = "failed" /\ req'.begun = req.begun
           /\ Answered => SameAttempt /\ req'.pc = "returned"
           /\ AttemptFails \/ StreamIdle => SameAttempt /\ req'.pc = "hook"
           /\ AttemptFailed => SameAttempt /\ req'.pc \in {"recover", "hookfailed"}
           /\ RecoverAttempt =>
                 \/ req'.pc = "start" /\ ~req'.waited /\ req'.begun = req.begun
                 \/ SameAttempt /\ req'.pc \in {"decide", "failed"}
           /\ Decide =>
                 /\ SameAttempt
                 /\ \/ req'.pc = "failed"
                    \/ /\ req'.pc = "wait"
                       /\ policy.budget > 0 => ticks <= policy.budget /\ req'.delay <= policy.budget
                       /\ Unlimited(policy) \/ req.attempt <= policy.retries
           /\ WaitForRetry =>
                 \/ req'.pc = "start" /\ req'.begun = req.begun /\ req'.attempt = req.attempt + 1
                 \/ req'.pc = "failed" /\ SameAttempt
<1>t. req \in RequestRecords
  BY DEF RequesterTypeOK
<1>p. ASSUME NEW p, req' = [req EXCEPT !.pc = p] PROVE SameAttempt /\ req'.pc = p
  BY <1>p, <1>t DEF RequestRecords, SameAttempt
<1>1. ASSUME AttemptStarted
      PROVE  /\ req'.waited = req.waited /\ req'.attempt = req.attempt
             /\ \/ req'.pc \in {"stream", "chat"} /\ req'.begun = ticks
                \/ req'.pc = "failed" /\ req'.begun = req.begun
  <2>1. ASSUME NEW p \in {"stream", "chat"}, req' = [req EXCEPT !.pc = p, !.begun = ticks]
        PROVE  req'.waited = req.waited /\ req'.attempt = req.attempt /\ req'.pc = p /\ req'.begun = ticks
    BY <2>1, <1>t DEF RequestRecords
  <2>2. \/ \E p \in {"stream", "chat"} : req' = [req EXCEPT !.pc = p, !.begun = ticks]
        \/ req' = [req EXCEPT !.pc = "failed"]
    BY <1>1 DEF AttemptStarted, Goto
  <2> QED BY <1>p, <2>1, <2>2 DEF SameAttempt
<1>2. ASSUME Answered PROVE SameAttempt /\ req'.pc = "returned"
  BY <1>2, <1>p DEF Answered, Goto
<1>3. ASSUME AttemptFails \/ StreamIdle PROVE SameAttempt /\ req'.pc = "hook"
  <2>1. PICK r, a : req' = [req EXCEPT !.pc = "hook", !.retryable = r, !.after = a]
    BY <1>3 DEF AttemptFails, StreamIdle
  <2> QED BY <2>1, <1>t DEF RequestRecords, SameAttempt
<1>4. ASSUME AttemptFailed PROVE SameAttempt /\ req'.pc \in {"recover", "hookfailed"}
  <2>1. req' = [req EXCEPT !.pc = "recover"] \/ req' = [req EXCEPT !.pc = "hookfailed"]
    BY <1>4 DEF AttemptFailed, Goto
  <2> QED BY <2>1, <1>p
<1>n. ASSUME NEW w, req' = NextAttempt(w) \/ req' = [NextAttempt(w) EXCEPT !.recovered = TRUE]
      PROVE  req'.pc = "start" /\ req'.waited = w /\ req'.begun = req.begun /\ req'.attempt = req.attempt + 1
  <2>1. CASE req' = NextAttempt(w)
    BY <2>1, <1>t DEF NextAttempt, RequestRecords
  <2>2. CASE req' = [NextAttempt(w) EXCEPT !.recovered = TRUE]
    <3>1. NextAttempt(w).pc = "start" /\ NextAttempt(w).waited = w /\ NextAttempt(w).begun = req.begun
          /\ NextAttempt(w).attempt = req.attempt + 1
          /\ DOMAIN NextAttempt(w) = {"pc", "attempt", "delay", "after", "retryable", "recovered", "waited", "begun"}
      BY <1>t DEF NextAttempt, RequestRecords
    <3> QED BY <2>2, <3>1
  <2> QED BY <1>n, <2>1, <2>2
<1>5. ASSUME RecoverAttempt
      PROVE  \/ req'.pc = "start" /\ ~req'.waited /\ req'.begun = req.begun
             \/ SameAttempt /\ req'.pc \in {"decide", "failed"}
  <2>1. \/ req' = [NextAttempt(FALSE) EXCEPT !.recovered = TRUE]
        \/ req' = [req EXCEPT !.pc = "decide"] \/ req' = [req EXCEPT !.pc = "failed"]
    BY <1>5 DEF RecoverAttempt, Goto
  <2>2. CASE req' = [NextAttempt(FALSE) EXCEPT !.recovered = TRUE]
    <3>1. req'.waited = FALSE /\ req'.pc = "start" /\ req'.begun = req.begun
      BY <2>2, <1>n
    <3> QED BY <3>1
  <2> QED BY <2>1, <2>2, <1>p
<1>6. ASSUME Decide
      PROVE  /\ SameAttempt
             /\ \/ req'.pc = "failed"
                \/ /\ req'.pc = "wait"
                   /\ policy.budget > 0 => ticks <= policy.budget /\ req'.delay <= policy.budget
                   /\ Unlimited(policy) \/ req.attempt <= policy.retries
  <2>1. ASSUME NEW d, req' = [req EXCEPT !.pc = "wait", !.delay = d]
        PROVE  SameAttempt /\ req'.pc = "wait" /\ req'.delay = d
    BY <2>1, <1>t DEF RequestRecords, SameAttempt
  <2> QED BY <1>6, <1>p, <2>1, DecidesToFit
<1>7. ASSUME WaitForRetry
      PROVE  \/ req'.pc = "start" /\ req'.begun = req.begun /\ req'.attempt = req.attempt + 1
             \/ req'.pc = "failed" /\ SameAttempt
  <2>1. req' = NextAttempt(TRUE) \/ req' = [req EXCEPT !.pc = "failed"]
    BY <1>7 DEF WaitForRetry, Goto
  <2> QED BY <2>1, <1>p, <1>n
<1> QED BY <1>1, <1>2, <1>3, <1>4, <1>5, <1>6, <1>7

LEMMA RequestKept == RequesterInv /\ [RequesterNext]_requestVars => req' \in RequestRecords
<1> SUFFICES ASSUME RequesterInv, [RequesterNext]_requestVars PROVE req' \in RequestRecords
  OBVIOUS
<1>0. /\ {"start", "stream", "chat", "hook", "recover", "decide", "wait", "returned", "failed", "hookfailed"}
            \subseteq RequestPhases
      /\ req \in RequestRecords /\ RequesterTypeOK
  BY DEF RequestPhases, RequesterInv, RequesterTypeOK
<1>g. \A p \in RequestPhases : [req EXCEPT !.pc = p] \in RequestRecords
  BY <1>0 DEF RequestRecords
<1>1. CASE UNCHANGED req
  BY <1>0, <1>1
<1>2. CASE AttemptStarted
  <2>1. \A p \in RequestPhases : [req EXCEPT !.pc = p, !.begun = ticks] \in RequestRecords
    BY <1>0, PolicyNumbers DEF RequestRecords
  <2>2. (IF policy.streams THEN "stream" ELSE "chat") \in RequestPhases
    BY <1>0
  <2>3. \/ req' = [req EXCEPT !.pc = IF policy.streams THEN "stream" ELSE "chat", !.begun = ticks]
        \/ req' = [req EXCEPT !.pc = "failed"]
    BY <1>2 DEF AttemptStarted, Goto
  <2> QED BY <1>0, <1>g, <2>1, <2>2, <2>3
<1>3. CASE Answered \/ AttemptFailed
  BY <1>0, <1>3, <1>g DEF Answered, AttemptFailed, Goto
<1>4. CASE AttemptFails \/ StreamIdle
  <2>1. \A r \in BOOLEAN, a \in Nat : [req EXCEPT !.pc = "hook", !.retryable = r, !.after = a] \in RequestRecords
    BY <1>0 DEF RequestRecords
  <2>2. PICK r \in BOOLEAN, a \in Nat : req' = [req EXCEPT !.pc = "hook", !.retryable = r, !.after = a]
    BY <1>4, RequesterAssumption DEF AttemptFails, StreamIdle
  <2> QED BY <2>1, <2>2
<1>5. CASE RecoverAttempt \/ WaitForRetry
  <2>1. \A w \in BOOLEAN, p \in RequestPhases, n \in Nat \ {0}, d \in Int :
            [req EXCEPT !.pc = p, !.attempt = n, !.delay = d, !.waited = w] \in RequestRecords
    BY <1>0 DEF RequestRecords
  <2>3. req.attempt + 1 \in Nat \ {0}
    BY <1>0 DEF RequestRecords
  <2>4. \A w \in BOOLEAN : NextAttempt(w) \in RequestRecords
    <3> SUFFICES ASSUME NEW w \in BOOLEAN PROVE NextAttempt(w) \in RequestRecords
      OBVIOUS
    <3>1. [req EXCEPT !.pc = "start", !.attempt = req.attempt + 1, !.delay = 0, !.waited = w] \in RequestRecords
      <4> DEFINE n == req.attempt + 1
      <4>1. "start" \in RequestPhases /\ 0 \in Int /\ n \in Nat \ {0}
        BY <1>0, <2>3
      <4> HIDE DEF n
      <4>2. [req EXCEPT !.pc = "start", !.attempt = n, !.delay = 0, !.waited = w] \in RequestRecords
        BY <2>1, <4>1
      <4> USE DEF n
      <4> QED BY <4>2
    <3>2. NextAttempt(w) = [req EXCEPT !.pc = "start", !.attempt = req.attempt + 1, !.delay = 0, !.waited = w]
      BY DEF NextAttempt
    <3> QED BY <3>1, <3>2
  <2>2. \A r \in RequestRecords : [r EXCEPT !.recovered = TRUE] \in RequestRecords
    BY DEF RequestRecords
  <2> QED BY <1>0, <1>5, <1>g, <2>2, <2>4 DEF RecoverAttempt, WaitForRetry, Goto
<1>6. CASE Decide
  <2>1. \A d \in Int : [req EXCEPT !.pc = "wait", !.delay = d] \in RequestRecords
    BY <1>0 DEF RequestRecords
  <2> QED BY <1>0, <1>6, <1>g, <2>1, DecidesToFit
<1> QED BY <1>1, <1>2, <1>3, <1>4, <1>5, <1>6 DEF RequesterNext, requestVars, ChunkText,
      ChunkReasoning, ClockTicks

LEMMA RequesterTypeKept == RequesterInv /\ [RequesterNext]_requestVars => RequesterTypeOK'
<1> SUFFICES ASSUME RequesterInv, [RequesterNext]_requestVars PROVE RequesterTypeOK'
  OBVIOUS
<1>1. policy' = policy
  BY DEF RequesterNext, requestVars, AttemptStarted, ChunkText, ChunkReasoning, Answered,
        AttemptFails, StreamIdle,
     AttemptFailed, RecoverAttempt, Decide, WaitForRetry, ClockTicks
<1>2. ticks' \in {ticks, ticks + 1} /\ (ticks' = ticks \/ ticks < MaxTicks)
  BY DEF RequesterNext, requestVars, AttemptStarted, ChunkText, ChunkReasoning, Answered,
        AttemptFails, StreamIdle,
     AttemptFailed, RecoverAttempt, Decide, WaitForRetry, ClockTicks
<1>3. /\ text' \in {0, text} \/ (text' = text + 1 /\ text < MaxChunks)
      /\ reasoning' \in {0, reasoning} \/ (reasoning' = reasoning + 1 /\ reasoning < MaxChunks)
      /\ shownText' \in {0, shownText, shownText + 1} /\ shownReasoning' \in {0, shownReasoning, shownReasoning + 1}
  <2>1. CASE ChunkText \/ ChunkReasoning \/ AttemptStarted
    BY <2>1 DEF ChunkText, ChunkReasoning, AttemptStarted, view
  <2>2. CASE UNCHANGED <<stream, view>>
    BY <2>2 DEF stream, view
  <2>3. CASE AttemptFailed
    BY <2>3 DEF AttemptFailed, stream, view
  <2> QED BY <2>1, <2>2, <2>3 DEF RequesterNext, requestVars, Answered, AttemptFails, StreamIdle,
             RecoverAttempt, Decide, WaitForRetry, ClockTicks, stream, view
<1>4. policy \in Policies /\ ticks \in 0..MaxTicks /\ text \in 0..MaxChunks /\ reasoning \in 0..MaxChunks
      /\ shownText \in Nat /\ shownReasoning \in Nat
  BY DEF RequesterInv, RequesterTypeOK
<1>5. /\ ticks' \in 0..MaxTicks /\ text' \in 0..MaxChunks /\ reasoning' \in 0..MaxChunks
      /\ shownText' \in Nat /\ shownReasoning' \in Nat
  BY <1>2, <1>3, <1>4, RequesterAssumption
<1>6. policy' \in Policies'
  BY <1>1, <1>4 DEF Policies, ValidPolicy, Unlimited
<1> QED BY <1>5, <1>6, RequestKept DEF RequesterTypeOK

LEMMA ShownFollowsKept == RequesterInv /\ [RequesterNext]_requestVars => ShownFollows'
<1> SUFFICES ASSUME RequesterInv, [RequesterNext]_requestVars PROVE ShownFollows'
  OBVIOUS
<1>t. text \in Nat /\ reasoning \in Nat /\ RequesterTypeOK
  BY RequesterAssumption DEF RequesterInv, RequesterTypeOK
<1>h. ShownFollows
  BY DEF RequesterInv
<1>1. CASE UNCHANGED requestVars \/ ClockTicks
  BY <1>1, <1>h DEF requestVars, ClockTicks, ShownFollows, stream, view
<1>2. CASE AttemptStarted
  <2>1. req'.pc \in {"stream", "chat", "failed"}
    BY <1>2, <1>t, RequestSteps
  <2> QED BY <1>2, <2>1, <1>h DEF AttemptStarted, ShownFollows, view
<1>3. CASE ChunkText \/ ChunkReasoning
  BY <1>3, <1>h DEF ChunkText, ChunkReasoning, ShownFollows
<1>4. CASE Answered \/ AttemptFails \/ StreamIdle
  <2>1. req'.pc \in {"returned", "hook"} /\ req.pc \in {"stream", "chat"} /\ UNCHANGED <<stream, view>>
    BY <1>4, <1>t, RequestSteps DEF Answered, AttemptFails, StreamIdle
  <2> QED BY <2>1, <1>h DEF ShownFollows, stream, view
<1>5. CASE AttemptFailed
  <2>1. req.pc = "hook" /\ shownText = text /\ shownReasoning = reasoning
    BY <1>5, <1>h DEF AttemptFailed, ShownFollows
  <2>2. req'.pc = "hookfailed" \/ (req'.pc = "recover" /\ shownText' = 0 /\ shownReasoning' = 0)
    <3>1. CASE req' = [req EXCEPT !.pc = "hookfailed"]
      <4>1. req'.pc = "hookfailed"
        BY <3>1, <1>t DEF RequesterTypeOK, RequestRecords
      <4> QED BY <4>1
    <3>2. CASE IF Provisional THEN shownText' = 0 /\ shownReasoning' = 0 ELSE UNCHANGED view
      <4>1. shownText' = 0 /\ shownReasoning' = 0
        BY <3>2, <2>1, <1>t DEF Provisional, view
      <4> QED BY <1>5, <1>t, <4>1, RequestSteps
    <3> QED BY <1>5, <3>1, <3>2 DEF AttemptFailed, Goto
  <2> QED BY <2>2 DEF ShownFollows
<1>6. CASE RecoverAttempt \/ Decide \/ WaitForRetry
  <2>1. req'.pc \in {"start", "decide", "wait", "failed"}
    BY <1>6, <1>t, RequestSteps
  <2>2. req.pc \in {"recover", "decide", "wait"} /\ UNCHANGED <<stream, view>>
    BY <1>6 DEF RecoverAttempt, Decide, WaitForRetry
  <2> QED BY <2>1, <2>2, <1>h DEF ShownFollows, stream, view
<1> QED BY <1>1, <1>2, <1>3, <1>4, <1>5, <1>6 DEF RequesterNext

LEMMA WaitsFitKept == RequesterInv /\ [RequesterNext]_requestVars => WaitsFit' /\ BudgetKept'
<1> SUFFICES ASSUME RequesterInv, [RequesterNext]_requestVars PROVE WaitsFit' /\ BudgetKept'
  OBVIOUS
<1>p. policy' = policy
  BY DEF RequesterNext, requestVars, AttemptStarted, ChunkText, ChunkReasoning, Answered,
        AttemptFails, StreamIdle,
     AttemptFailed, RecoverAttempt, Decide, WaitForRetry, ClockTicks
<1>n. /\ policy.retries \in Int /\ policy.budget \in Nat /\ ticks \in Nat
      /\ req.begun \in Nat /\ req.attempt \in Nat /\ req.delay \in Int
  BY PolicyNumbers DEF RequesterInv, RequesterTypeOK, RequestRecords
<1>h. WaitsFit /\ BudgetKept
  BY DEF RequesterInv
<1>t. RequesterTypeOK
  BY DEF RequesterInv
<1>1. CASE UNCHANGED <<req, ticks>>
  BY <1>1, <1>h, <1>p DEF WaitsFit, BudgetKept, Unlimited
<1>2. CASE AttemptStarted
  <2>1. req.pc = "start" /\ ticks' = ticks
    BY <1>2 DEF AttemptStarted
  <2>2. /\ req'.waited = req.waited /\ req'.attempt = req.attempt /\ req'.pc \notin {"start", "wait"}
        /\ req'.begun \in {ticks, req.begun}
    BY <1>2, <1>t, RequestSteps
  <2> QED BY <2>1, <2>2, <1>h, <1>p, <1>n DEF WaitsFit, BudgetKept, Unlimited
<1>3. CASE Answered \/ AttemptFails \/ StreamIdle \/ AttemptFailed
  <2>1. ticks' = ticks
    BY <1>3 DEF Answered, AttemptFails, StreamIdle, AttemptFailed
  <2>2. SameAttempt /\ req'.pc \notin {"start", "wait"}
    BY <1>3, <1>t, RequestSteps
  <2> QED BY <2>1, <2>2, <1>h, <1>p DEF WaitsFit, BudgetKept, Unlimited, SameAttempt
<1>4. CASE RecoverAttempt
  <2>1. ticks' = ticks
    BY <1>4 DEF RecoverAttempt
  <2>2. \/ req'.pc = "start" /\ ~req'.waited /\ req'.begun = req.begun
        \/ SameAttempt /\ req'.pc \notin {"start", "wait"}
    BY <1>4, <1>t, RequestSteps
  <2> QED BY <2>1, <2>2, <1>h, <1>p DEF WaitsFit, BudgetKept, Unlimited, SameAttempt
<1>5. CASE Decide
  <2>1. ticks' = ticks
    BY <1>5 DEF Decide
  <2>2. /\ SameAttempt
        /\ \/ req'.pc = "failed"
           \/ /\ req'.pc = "wait"
              /\ policy.budget > 0 => ticks <= policy.budget /\ req'.delay <= policy.budget
              /\ Unlimited(policy) \/ req.attempt <= policy.retries
    BY <1>5, <1>t, RequestSteps
  <2> QED BY <2>1, <2>2, <1>h, <1>p DEF WaitsFit, BudgetKept, Unlimited, SameAttempt
<1>6. CASE WaitForRetry
  <2>1. req.pc = "wait" /\ ticks' = ticks
    BY <1>6 DEF WaitForRetry
  <2>2. \/ req'.pc = "start" /\ req'.begun = req.begun /\ req'.attempt = req.attempt + 1
        \/ req'.pc = "failed" /\ SameAttempt
    BY <1>6, <1>t, RequestSteps
  <2> QED BY <2>1, <2>2, <1>h, <1>p, <1>n DEF WaitsFit, BudgetKept, Unlimited, SameAttempt
<1>7. CASE ClockTicks
  <2>1. /\ req' = req /\ ticks' = ticks + 1
        /\ req.pc \in {"stream", "chat"} \/ (req.pc = "wait" /\ ticks < req.delay)
    BY <1>7 DEF ClockTicks, requestVars
  <2> QED BY <2>1, <1>h, <1>p, <1>n DEF WaitsFit, BudgetKept, Unlimited
<1> QED BY <1>1, <1>2, <1>3, <1>4, <1>5, <1>6, <1>7 DEF RequesterNext, requestVars, ChunkText,
      ChunkReasoning

LEMMA RequesterKept == RequesterInv /\ [RequesterNext]_requestVars => RequesterInv'
<1> SUFFICES ASSUME RequesterInv, [RequesterNext]_requestVars PROVE RequesterInv'
  OBVIOUS
<1> QED BY RequesterTypeKept, ShownFollowsKept, WaitsFitKept DEF RequesterInv

(* The fields of a request keep their types, for any policies and bounds.   *)
THEOREM RequesterTypeCorrect == RequesterSpec => []RequesterTypeOK
<1>1. RequesterInv => RequesterTypeOK
  BY DEF RequesterInv
<1> QED BY RequesterInitial, RequesterKept, <1>1, PTL DEF RequesterSpec

(* What the caller saw when a request returns is its answer, or nothing.    *)
THEOREM RequesterShownIsAnswered == RequesterSpec => []ShownIsAnswered
<1>1. RequesterInv => ShownIsAnswered
  BY DEF RequesterInv, ShownFollows, ShownIsAnswered
<1> QED BY RequesterInitial, RequesterKept, <1>1, PTL DEF RequesterSpec

(* No retry starts past the budget or the allowance, whatever the provider asks. *)
THEOREM RequesterBudgetKept == RequesterSpec => []BudgetKept
<1>1. RequesterInv => BudgetKept
  BY DEF RequesterInv
<1> QED BY RequesterInitial, RequesterKept, <1>1, PTL DEF RequesterSpec

-----------------------------------------------------------------------------
(* Background shells, their logs and their rows.                            *)

(* What an answer may say of a shell that is over: its row, unless the      *)
(* update of it failed.                                                     *)
Told(t) == shell[t].row \notin {"none", "running"} \/ shell[t].unsettled

(* A shell's row is running while its process is waited for, and only then: *)
(* unless the host is down or the row's update failed.                      *)
RowsFollow ==
    \A t \in Shells :
        /\ shell[t].pc \in {"none", "started"} =>
              shell[t].row = "none" /\ ~shell[t].done /\ ~shell[t].unsettled /\ ~shell[t].live
        /\ shell[t].pc = "recorded" => shell[t].row # "none" /\ ~shell[t].done
        /\ shell[t].pc = "waiting" => shell[t].live /\ ~shell[t].done
        /\ shell[t].pc \in {"settled", "removed"} => Told(t)
        /\ shell[t].pc = "over" /\ host # "down" /\ shell[t].row # "none" => Told(t)
        /\ shell[t].done => Told(t)
ReadersKnow ==
    \A c \in Readers :
        /\ reader[c].pc # "idle" => host # "down"
        /\ reader[c].pc # "idle" /\ reader[c].over => Told(reader[c].id)
ReadsAreShown ==
    \A c \in Readers :
        /\ reader[c].pc \in {"read", "advance"} => 1..reader[c].from \subseteq shell[reader[c].id].shown
        /\ reader[c].pc = "advance" => reader[c].to <= reader[c].from + MaxBytes

ShellsInv == ShellsTypeOK /\ RowsFollow /\ ReadersKnow /\ EndIsStored /\ ReadsAreShown /\ NothingSkipped

LEMMA ShellsInitial == ShellsInit => ShellsInv
<1> SUFFICES ASSUME ShellsInit PROVE ShellsInv
  OBVIOUS
<1>1. NoShell \in ShellRecords /\ NoReader \in ReaderRecords
  BY DEF NoShell, NoReader, ShellRecords, ReaderRecords, ShellPhases, ReaderPhases, RowStates, Flags
<1>2. ShellsTypeOK
  BY <1>1, ShellsAssumption DEF ShellsInit, ShellsTypeOK, NoShell, NoReader
<1>3. RowsFollow /\ ReadersKnow /\ EndIsStored /\ ReadsAreShown
  BY DEF ShellsInit, RowsFollow, ReadersKnow, EndIsStored, ReadsAreShown, NoShell, NoReader
<1>4. NothingSkipped
  BY DEF ShellsInit, NothingSkipped, NoShell
<1> QED BY <1>2, <1>3, <1>4 DEF ShellsInv

LEMMA ShellRecordsKept == ShellsTypeOK /\ [ShellsNext]_shellVars => shell' \in [Shells -> ShellRecords]
<1> SUFFICES ASSUME ShellsTypeOK, [ShellsNext]_shellVars PROVE shell' \in [Shells -> ShellRecords]
  OBVIOUS
<1> USE DEF ShellsTypeOK
<1>0. /\ {"none", "started", "recorded", "waiting", "settled", "removed", "over"} \subseteq ShellPhases
      /\ {"none", "running", "exited", "killed", "timed_out", "lost"} \subseteq RowStates
      /\ TRUE \in Flags /\ FALSE \in Flags
  BY DEF ShellPhases, RowStates, Flags
<1>k. \A t \in Shells : Killed(shell[t]) \in ShellRecords
  BY <1>0 DEF ShellRecords, Killed
<1>1. CASE UNCHANGED shellVars
  BY <1>1 DEF shellVars
<1>2. ASSUME NEW t \in Shells, StartShell(t) PROVE shell' \in [Shells -> ShellRecords]
  <2>1. [shell[t] EXCEPT !.pc = "started", !.alive = TRUE] \in ShellRecords
    BY <1>0 DEF ShellRecords
  <2> QED BY <1>2, <2>1 DEF StartShell, ShellTo
<1>3. ASSUME NEW t \in Shells, RecordShell(t) PROVE shell' \in [Shells -> ShellRecords]
  <2>1. [shell[t] EXCEPT !.pc = "recorded", !.row = "running"] \in ShellRecords
    BY <1>0 DEF ShellRecords
  <2>2. [shell[t] EXCEPT !.pc = "over", !.killed = TRUE, !.alive = FALSE] \in ShellRecords
    BY <1>0 DEF ShellRecords
  <2> QED BY <1>3, <2>1, <2>2 DEF RecordShell, ShellTo
<1>4. ASSUME NEW t \in Shells, PutLive(t) PROVE shell' \in [Shells -> ShellRecords]
  <2>1. [shell[t] EXCEPT !.pc = "waiting", !.live = TRUE] \in ShellRecords
    BY <1>0 DEF ShellRecords
  <2> QED BY <1>4, <2>1 DEF PutLive, ShellTo
<1>5. ASSUME NEW t \in Shells, WriteLog(t) PROVE shell' \in [Shells -> ShellRecords]
  <2>1. [shell[t] EXCEPT !.log = @ + 1] \in ShellRecords
    BY <1>0 DEF ShellRecords
  <2> QED BY <1>5, <2>1 DEF WriteLog, ShellTo
<1>6. ASSUME NEW t \in Shells, ShellExits(t) PROVE shell' \in [Shells -> ShellRecords]
  <2>1. [shell[t] EXCEPT !.alive = FALSE] \in ShellRecords
    BY <1>0 DEF ShellRecords
  <2> QED BY <1>6, <2>1 DEF ShellExits, ShellTo
<1>7. ASSUME NEW t \in Shells, ShellTimesOut(t) PROVE shell' \in [Shells -> ShellRecords]
  <2>1. [Killed(shell[t]) EXCEPT !.late = TRUE] \in ShellRecords
    BY <1>0, <1>k DEF ShellRecords
  <2> QED BY <1>7, <2>1 DEF ShellTimesOut, ShellTo
<1>8. ASSUME NEW t \in Shells, RemoveLive(t) PROVE shell' \in [Shells -> ShellRecords]
  <2>1. [shell[t] EXCEPT !.pc = "removed", !.live = FALSE] \in ShellRecords
    BY <1>0 DEF ShellRecords
  <2> QED BY <1>8, <2>1 DEF RemoveLive, ShellTo
<1>9. ASSUME NEW t \in Shells, CloseDone(t) PROVE shell' \in [Shells -> ShellRecords]
  <2>1. [shell[t] EXCEPT !.pc = "over", !.done = TRUE] \in ShellRecords
    BY <1>0 DEF ShellRecords
  <2> QED BY <1>9, <2>1 DEF CloseDone, ShellTo
<1>10. ASSUME NEW t \in Shells, Settle(t) PROVE shell' \in [Shells -> ShellRecords]
  <2>1. \A v \in RowStates : [shell[t] EXCEPT !.pc = "settled", !.row = v] \in ShellRecords
    BY <1>0 DEF ShellRecords
  <2>2. [shell[t] EXCEPT !.pc = "settled", !.unsettled = TRUE] \in ShellRecords
    BY <1>0 DEF ShellRecords
  <2>3. Verdicts(shell[t]) \subseteq RowStates
    BY <1>0 DEF Verdicts
  <2> QED BY <1>10, <2>1, <2>2, <2>3 DEF Settle, ShellTo
<1>11. ASSUME NEW c \in Readers, NEW t \in Shells, CallTask(c, t) PROVE shell' \in [Shells -> ShellRecords]
  BY <1>11, <1>k DEF CallTask, ShellTo
<1>12. ASSUME NEW c \in Readers, Advance(c) PROVE shell' \in [Shells -> ShellRecords]
  <2> DEFINE t == reader[c].id
  <2>1. t \in Shells /\ reader[c].from \in Nat /\ reader[c].to \in Nat
    BY <1>12 DEF Advance, ReaderRecords
  <2>2. Returned(c) \subseteq Nat
    BY <2>1, ShellsAssumption DEF Returned
  <2>3. [shell[t] EXCEPT !.offset = reader[c].to, !.shown = @ \cup Returned(c)] \in ShellRecords
    BY <2>1, <2>2 DEF ShellRecords
  <2> QED BY <1>12, <2>1, <2>3 DEF Advance, ShellTo
<1>13. CASE StopAll
  BY <1>13, <1>k DEF StopAll
<1>14. CASE HostEnds
  <2>1. \A t \in Shells, p \in ShellPhases : [shell[t] EXCEPT !.live = FALSE, !.pc = p] \in ShellRecords
    BY <1>0 DEF ShellRecords
  <2>2. \A t \in Shells : [shell[t] EXCEPT !.live = FALSE, !.pc = IF shell[t].pc = "none" THEN "none" ELSE "over"] \in ShellRecords
    BY <1>0, <2>1
  <2> QED BY <1>14, <2>2 DEF HostEnds
<1>15. CASE HostStarts
  <2>1. \A t \in Shells : [shell[t] EXCEPT !.row = "lost"] \in ShellRecords
    BY <1>0 DEF ShellRecords
  <2> QED BY <1>15, <2>1 DEF HostStarts
<1> QED BY <1>1, <1>2, <1>3, <1>4, <1>5, <1>6, <1>7, <1>8, <1>9, <1>10, <1>11, <1>12, <1>13, <1>14,
      <1>15 DEF ShellsNext, AwaitDone, LoadTask, ReadFile, AnswerCall

LEMMA ReaderRecordsKept ==
    ShellsTypeOK /\ [ShellsNext]_shellVars =>
        /\ reader' \in [Readers -> ReaderRecords]
        /\ \A c \in Readers : reader'[c].pc = "idle" \/ reader'[c].id \in Shells
<1> DEFINE Busy(r) == r.pc = "idle" \/ r.id \in Shells
           Good(r) == r \in ReaderRecords /\ Busy(r)
<1> SUFFICES ASSUME ShellsTypeOK, [ShellsNext]_shellVars PROVE reader' \in [Readers -> ReaderRecords] /\ \A c \in Readers : Busy(reader'[c])
  OBVIOUS
<1> USE DEF ShellsTypeOK
<1>0. {"idle", "wait", "load", "read", "advance", "answer"} \subseteq ReaderPhases
  BY DEF ReaderPhases
<1>f. Flags = BOOLEAN
  BY DEF Flags
<1>n. Good(NoReader)
  BY <1>0, <1>f DEF NoReader, ReaderRecords, RowStates
<1>g. \A c \in Readers : \A r : Good(r) /\ ReaderTo(c, r) => reader' \in [Readers -> ReaderRecords] /\ \A k \in Readers : Busy(reader'[k])
  BY DEF ReaderTo
<1>b. \A c \in Readers : Good(reader[c])
  OBVIOUS
<1>1. CASE UNCHANGED reader
  BY <1>1
<1>2. ASSUME NEW c \in Readers, NEW t \in Shells, CallTask(c, t) PROVE reader' \in [Readers -> ReaderRecords] /\ \A k \in Readers : Busy(reader'[k])
  <2>1. \A stop, over \in Flags, p \in ReaderPhases :
           Good([NoReader EXCEPT !.id = t, !.stop = stop, !.pc = p, !.over = over])
    BY <1>n DEF ReaderRecords
  <2>2. shell[t].live \in BOOLEAN
    BY <1>f DEF ShellRecords
  <2>3. PICK stop, block \in BOOLEAN :
           ReaderTo(c, [NoReader EXCEPT !.id = t, !.stop = stop,
                          !.pc = IF shell[t].live /\ (block \/ stop) THEN "wait" ELSE "load",
                          !.over = ~shell[t].live /\ shell[t].pc # "recorded"])
    BY <1>2 DEF CallTask
  <2>4. (IF shell[t].live /\ (block \/ stop) THEN "wait" ELSE "load") \in ReaderPhases
        /\ (~shell[t].live /\ shell[t].pc # "recorded") \in BOOLEAN
    BY <1>0
  <2>5. Good([NoReader EXCEPT !.id = t, !.stop = stop,
                          !.pc = IF shell[t].live /\ (block \/ stop) THEN "wait" ELSE "load",
                          !.over = ~shell[t].live /\ shell[t].pc # "recorded"])
    BY <2>1, <2>4, <1>f
  <2> QED BY <2>3, <2>5, <1>g
<1>3. ASSUME NEW c \in Readers, AwaitDone(c) PROVE reader' \in [Readers -> ReaderRecords] /\ \A k \in Readers : Busy(reader'[k])
  <2>1. Good([reader[c] EXCEPT !.pc = "load", !.over = TRUE]) /\ Good([reader[c] EXCEPT !.pc = "load"])
    BY <1>3, <1>0, <1>b, <1>f DEF ReaderRecords, AwaitDone
  <2> QED BY <1>3, <2>1, <1>g, <1>n DEF AwaitDone
<1>4. ASSUME NEW c \in Readers, LoadTask(c) PROVE reader' \in [Readers -> ReaderRecords] /\ \A k \in Readers : Busy(reader'[k])
  <2> DEFINE t == reader[c].id
  <2>1. t \in Shells /\ shell[t].row \in RowStates /\ shell[t].offset \in Nat
    BY <1>4 DEF LoadTask, ShellRecords
  <2>2. \A p \in ReaderPhases : Good([reader[c] EXCEPT !.pc = p, !.row = shell[t].row, !.from = shell[t].offset])
    BY <2>1, <1>b DEF ReaderRecords
  <2>3. (IF reader[c].stop THEN "answer" ELSE "read") \in ReaderPhases
    BY <1>0
  <2>4. Good([reader[c] EXCEPT !.pc = IF reader[c].stop THEN "answer" ELSE "read",
                               !.row = shell[t].row, !.from = shell[t].offset])
    BY <2>2, <2>3
  <2> QED BY <1>4, <2>4, <1>g, <1>n DEF LoadTask
<1>5. ASSUME NEW c \in Readers, ReadFile(c) PROVE reader' \in [Readers -> ReaderRecords] /\ \A k \in Readers : Busy(reader'[k])
  <2> DEFINE log == shell[reader[c].id].log
             to == IF reader[c].from + MaxBytes < log THEN reader[c].from + MaxBytes ELSE log
  <2>1. reader[c].id \in Shells /\ log \in Nat /\ reader[c].from \in Nat
    BY <1>5 DEF ReadFile, ShellRecords, ReaderRecords
  <2>2. to \in Nat
    BY <2>1, ShellsAssumption
  <2> HIDE DEF to
  <2>3. Good([reader[c] EXCEPT !.pc = "advance", !.to = to])
    BY <2>1, <2>2, <1>0, <1>b DEF ReaderRecords
  <2> USE DEF to
  <2> QED BY <1>5, <2>3, <1>g DEF ReadFile
<1>6. ASSUME NEW c \in Readers, Advance(c) PROVE reader' \in [Readers -> ReaderRecords] /\ \A k \in Readers : Busy(reader'[k])
  <2>1. Good([reader[c] EXCEPT !.pc = "answer", !.from = 0, !.to = 0])
    BY <1>6, <1>0, <1>b DEF ReaderRecords, Advance
  <2> QED BY <1>6, <2>1, <1>g, <1>n DEF Advance
<1>7. ASSUME NEW c \in Readers, AnswerCall(c) PROVE reader' \in [Readers -> ReaderRecords] /\ \A k \in Readers : Busy(reader'[k])
  BY <1>7, <1>g, <1>n DEF AnswerCall
<1>8. CASE HostEnds
  BY <1>8, <1>n DEF HostEnds
<1> HIDE DEF Busy
<1> QED BY <1>1, <1>2, <1>3, <1>4, <1>5, <1>6, <1>7, <1>8 DEF ShellsNext, shellVars, StartShell,
      RecordShell,
      PutLive, WriteLog, ShellExits, ShellTimesOut, Settle, RemoveLive, CloseDone, StopAll, HostStarts

LEMMA ShellBoundsKept ==
    ShellsTypeOK /\ [ShellsNext]_shellVars =>
        host' \in {"up", "stopping", "down"} /\ hostFaults' \in 0..MaxHostFaults
<1> SUFFICES ASSUME ShellsTypeOK, [ShellsNext]_shellVars
             PROVE  host' \in {"up", "stopping", "down"} /\ hostFaults' \in 0..MaxHostFaults
  OBVIOUS
<1>1. hostFaults' = hostFaults \/ StoreFails
  BY DEF ShellsNext, shellVars, StartShell, RecordShell, PutLive, WriteLog, ShellExits, ShellTimesOut,
     Settle, RemoveLive, CloseDone, CallTask, AwaitDone, LoadTask, ReadFile, Advance, AnswerCall,
     StopAll, HostEnds, HostStarts
<1>2. host' = host \/ host' \in {"up", "stopping", "down"}
  BY DEF ShellsNext, shellVars, StartShell, RecordShell, PutLive, WriteLog, ShellExits, ShellTimesOut,
     Settle, RemoveLive, CloseDone, CallTask, AwaitDone, LoadTask, ReadFile, Advance, AnswerCall,
     StopAll, HostEnds, HostStarts
<1> QED BY <1>1, <1>2, ShellsAssumption DEF ShellsTypeOK, StoreFails

LEMMA LogBoundKept == ShellsTypeOK /\ [ShellsNext]_shellVars => \A u \in Shells : shell'[u].log <= MaxLog
<1> SUFFICES ASSUME ShellsTypeOK, [ShellsNext]_shellVars PROVE \A u \in Shells : shell'[u].log <= MaxLog
  OBVIOUS
<1> USE ShellsAssumption DEF ShellsTypeOK, ShellRecords
<1>0. CASE UNCHANGED shellVars
  BY <1>0 DEF shellVars
<1>1. ASSUME NEW t \in Shells, StartShell(t) PROVE \A u \in Shells : shell'[u].log <= MaxLog
  BY <1>1 DEF StartShell, ShellTo
<1>2. ASSUME NEW t \in Shells, RecordShell(t) PROVE \A u \in Shells : shell'[u].log <= MaxLog
  BY <1>2 DEF RecordShell, ShellTo, StoreFails
<1>3. ASSUME NEW t \in Shells, PutLive(t) PROVE \A u \in Shells : shell'[u].log <= MaxLog
  BY <1>3 DEF PutLive, ShellTo
<1>4. ASSUME NEW t \in Shells, WriteLog(t) PROVE \A u \in Shells : shell'[u].log <= MaxLog
  BY <1>4 DEF WriteLog, ShellTo
<1>5. ASSUME NEW t \in Shells, ShellExits(t) PROVE \A u \in Shells : shell'[u].log <= MaxLog
  BY <1>5 DEF ShellExits, ShellTo
<1>6. ASSUME NEW t \in Shells, ShellTimesOut(t) PROVE \A u \in Shells : shell'[u].log <= MaxLog
  BY <1>6 DEF ShellTimesOut, ShellTo, Killed
<1>7. ASSUME NEW t \in Shells, Settle(t) PROVE \A u \in Shells : shell'[u].log <= MaxLog
  <2>1. PICK v \in RowStates : shell' \in {[shell EXCEPT ![t] = [shell[t] EXCEPT !.pc = "settled", !.row = v]],
                                        [shell EXCEPT ![t] = [shell[t] EXCEPT !.pc = "settled", !.unsettled = TRUE]]}
    BY <1>7 DEF Settle, ShellTo, Verdicts, RowStates
  <2> QED BY <2>1
<1>8. ASSUME NEW t \in Shells, RemoveLive(t) PROVE \A u \in Shells : shell'[u].log <= MaxLog
  BY <1>8 DEF RemoveLive, ShellTo
<1>9. ASSUME NEW t \in Shells, CloseDone(t) PROVE \A u \in Shells : shell'[u].log <= MaxLog
  BY <1>9 DEF CloseDone, ShellTo
<1>10. ASSUME NEW c \in Readers, NEW t \in Shells, CallTask(c, t) PROVE \A u \in Shells : shell'[u].log <= MaxLog
  <2>1. shell' = shell \/ shell' = [shell EXCEPT ![t] = Killed(shell[t])]
    BY <1>10 DEF CallTask, ShellTo
  <2> QED BY <2>1 DEF Killed
<1>11. ASSUME NEW c \in Readers, AwaitDone(c) PROVE \A u \in Shells : shell'[u].log <= MaxLog
  BY <1>11 DEF AwaitDone, ShellTo, ReaderTo, NoReader
<1>12. ASSUME NEW c \in Readers, LoadTask(c) PROVE \A u \in Shells : shell'[u].log <= MaxLog
  BY <1>12 DEF LoadTask, ShellTo, ReaderTo, NoReader, StoreFails
<1>13. ASSUME NEW c \in Readers, ReadFile(c) PROVE \A u \in Shells : shell'[u].log <= MaxLog
  BY <1>13 DEF ReadFile, ShellTo, ReaderTo
<1>14. ASSUME NEW c \in Readers, Advance(c) PROVE \A u \in Shells : shell'[u].log <= MaxLog
  BY <1>14 DEF Advance, ShellTo, ReaderTo, NoReader, StoreFails
<1>15. ASSUME NEW c \in Readers, AnswerCall(c) PROVE \A u \in Shells : shell'[u].log <= MaxLog
  BY <1>15 DEF AnswerCall, ShellTo, ReaderTo, NoReader
<1>16. CASE StopAll
  BY <1>16 DEF StopAll, ShellTo, Killed
<1>17. CASE HostEnds
  BY <1>17 DEF HostEnds, ShellTo, NoReader, StoreFails
<1>18. CASE HostStarts
  BY <1>18 DEF HostStarts, ShellTo
<1> QED BY <1>0, <1>1, <1>2, <1>3, <1>4, <1>5, <1>6, <1>7, <1>8, <1>9, <1>10, <1>11, <1>12, <1>13,
      <1>14, <1>15, <1>16, <1>17, <1>18 DEF ShellsNext

(* A read of the shell ends: the offset moves to what the call read up to.  *)
ReadEnds(u) == \E c \in Readers :
    /\ reader[c].pc = "advance" /\ reader[c].id = u /\ shell'[u].offset = reader[c].to
    /\ shell'[u].shown = shell[u].shown \cup Returned(c)

(* A step, as one shell sees it: what it leaves, and what it moves.         *)
ShellStep(u) ==
    LET s == shell[u]
        n == shell'[u]
        stays == host # "down" \/ host' = "down"
        read == n.offset = s.offset /\ n.shown = s.shown
        tells == n.row = s.row /\ n.done = s.done /\ n.unsettled = s.unsettled
    IN \/ stays /\ read /\ tells /\ n.pc = s.pc /\ n.live = s.live
       \/ stays /\ read /\ tells /\ s.pc = "none" /\ n.pc = "started" /\ n.live = s.live
       \/ /\ stays /\ read /\ s.pc = "started" /\ n.pc = "recorded" /\ n.row = "running"
          /\ n.done = s.done /\ n.unsettled = s.unsettled
       \/ stays /\ read /\ tells /\ s.pc = "started" /\ n.pc = "over"
       \/ stays /\ read /\ tells /\ s.pc = "recorded" /\ n.pc = "waiting" /\ n.live
       \/ /\ stays /\ read /\ s.pc = "waiting" /\ n.pc = "settled" /\ n.done = s.done
          /\ n.unsettled \/ (n.row \notin {"none", "running"} /\ n.unsettled = s.unsettled)
       \/ stays /\ read /\ tells /\ s.pc = "settled" /\ n.pc = "removed"
       \/ /\ stays /\ read /\ s.pc = "removed" /\ n.pc = "over"
          /\ n.row = s.row /\ n.unsettled = s.unsettled
       \/ stays /\ tells /\ n.pc = s.pc /\ n.live = s.live /\ ReadEnds(u)
       \/ host' = "down" /\ read /\ tells /\ s.pc = "none" /\ n.pc = "none" /\ ~n.live
       \/ host' = "down" /\ read /\ tells /\ s.pc # "none" /\ n.pc = "over"
       \/ host = "down" /\ n = s /\ s.row # "running"
       \/ /\ host = "down" /\ read /\ n.pc = s.pc /\ n.live = s.live /\ n.done = s.done
          /\ n.unsettled = s.unsettled /\ n.row = "lost" /\ s.row = "running"

LEMMA ShellChanged ==
    ASSUME shell \in [Shells -> ShellRecords], NEW t \in Shells, NEW r, ShellTo(t, r)
    PROVE  shell'[t] = r /\ \A u \in Shells : u # t => shell'[u] = shell[u]
BY DEF ShellTo

LEMMA ShellsStep == ShellsTypeOK /\ [ShellsNext]_shellVars => \A u \in Shells : ShellStep(u)
<1> SUFFICES ASSUME ShellsTypeOK, [ShellsNext]_shellVars PROVE \A u \in Shells : ShellStep(u)
  OBVIOUS
<1>t. shell \in [Shells -> ShellRecords]
  BY DEF ShellsTypeOK
<1>s. ASSUME NEW u \in Shells, shell'[u] = shell[u], host # "down" \/ host' = "down" PROVE ShellStep(u)
  BY <1>s DEF ShellStep
<1>o. ASSUME NEW t \in Shells, NEW r, ShellTo(t, r), shell'[t] = r => ShellStep(t), host # "down" \/ host' = "down"
      PROVE  \A u \in Shells : ShellStep(u)
  BY <1>o, <1>t, <1>s, ShellChanged
<1>0. CASE UNCHANGED shellVars
  BY <1>0, <1>s DEF shellVars, ShellStep
<1>1. ASSUME NEW t \in Shells, StartShell(t) PROVE \A u \in Shells : ShellStep(u)
  <2> DEFINE r == [shell[t] EXCEPT !.pc = "started", !.alive = TRUE]
  <2>1. shell'[t] = r => ShellStep(t)
    BY <1>1, <1>t DEF ShellStep, StartShell, HostRuns, ShellRecords
  <2> QED BY <1>1, <2>1, <1>o DEF StartShell, HostRuns
<1>2. ASSUME NEW t \in Shells, RecordShell(t) PROVE \A u \in Shells : ShellStep(u)
  <2> DEFINE r == [shell[t] EXCEPT !.pc = "recorded", !.row = "running"]
             f == [shell[t] EXCEPT !.pc = "over", !.killed = TRUE, !.alive = FALSE]
  <2>1. shell'[t] = r => ShellStep(t)
    BY <1>2, <1>t DEF ShellStep, RecordShell, HostRuns, ShellRecords
  <2>2. shell'[t] = f => ShellStep(t)
    BY <1>2, <1>t DEF ShellStep, RecordShell, HostRuns, ShellRecords
  <2>3. (ShellTo(t, r) \/ ShellTo(t, f)) /\ host # "down"
    BY <1>2 DEF RecordShell, HostRuns
  <2> HIDE DEF r, f
  <2> QED BY <2>1, <2>2, <2>3, <1>o
<1>3. ASSUME NEW t \in Shells, PutLive(t) PROVE \A u \in Shells : ShellStep(u)
  <2> DEFINE r == [shell[t] EXCEPT !.pc = "waiting", !.live = TRUE]
  <2>1. shell'[t] = r => ShellStep(t)
    BY <1>3, <1>t DEF ShellStep, PutLive, HostRuns, ShellRecords
  <2> QED BY <1>3, <2>1, <1>o DEF PutLive, HostRuns
<1>4. ASSUME NEW t \in Shells, WriteLog(t) PROVE \A u \in Shells : ShellStep(u)
  <2> DEFINE r == [shell[t] EXCEPT !.log = @ + 1]
  <2>1. shell'[t] = r => ShellStep(t)
    BY <1>4, <1>t DEF ShellStep, WriteLog, ShellRecords
  <2> QED BY <1>4, <2>1, <1>o DEF WriteLog
<1>5. ASSUME NEW t \in Shells, ShellExits(t) PROVE \A u \in Shells : ShellStep(u)
  <2> DEFINE r == [shell[t] EXCEPT !.alive = FALSE]
  <2>1. shell'[t] = r => ShellStep(t)
    BY <1>5, <1>t DEF ShellStep, ShellExits, ShellRecords
  <2> QED BY <1>5, <2>1, <1>o DEF ShellExits
<1>6. ASSUME NEW t \in Shells, ShellTimesOut(t) PROVE \A u \in Shells : ShellStep(u)
  <2> DEFINE r == [Killed(shell[t]) EXCEPT !.late = TRUE]
  <2>1. shell'[t] = r => ShellStep(t)
    BY <1>6, <1>t DEF ShellStep, ShellTimesOut, HostRuns, Killed, ShellRecords
  <2> QED BY <1>6, <2>1, <1>o DEF ShellTimesOut, HostRuns
<1>7. ASSUME NEW t \in Shells, Settle(t) PROVE \A u \in Shells : ShellStep(u)
  <2> DEFINE r(v) == [shell[t] EXCEPT !.pc = "settled", !.row = v]
             f == [shell[t] EXCEPT !.pc = "settled", !.unsettled = TRUE]
  <2>1. \A v : v \in {"timed_out", "killed", "exited"} /\ shell'[t] = r(v) => ShellStep(t)
    BY <1>7, <1>t DEF ShellStep, Settle, HostRuns, ShellRecords
  <2>2. shell'[t] = f => ShellStep(t)
    BY <1>7, <1>t DEF ShellStep, Settle, HostRuns, ShellRecords
  <2>3. host # "down" /\ ((\E v \in {"timed_out", "killed", "exited"} : ShellTo(t, r(v))) \/ ShellTo(t, f))
    BY <1>7 DEF Settle, HostRuns, Verdicts
  <2> HIDE DEF r, f
  <2> QED BY <2>1, <2>2, <2>3, <1>o
<1>8. ASSUME NEW t \in Shells, RemoveLive(t) PROVE \A u \in Shells : ShellStep(u)
  <2> DEFINE r == [shell[t] EXCEPT !.pc = "removed", !.live = FALSE]
  <2>1. shell'[t] = r => ShellStep(t)
    BY <1>8, <1>t DEF ShellStep, RemoveLive, HostRuns, ShellRecords
  <2> QED BY <1>8, <2>1, <1>o DEF RemoveLive, HostRuns
<1>9. ASSUME NEW t \in Shells, CloseDone(t) PROVE \A u \in Shells : ShellStep(u)
  <2> DEFINE r == [shell[t] EXCEPT !.pc = "over", !.done = TRUE]
  <2>1. shell'[t] = r => ShellStep(t)
    BY <1>9, <1>t DEF ShellStep, CloseDone, HostRuns, ShellRecords
  <2> QED BY <1>9, <2>1, <1>o DEF CloseDone, HostRuns
<1>10. ASSUME NEW c \in Readers, NEW t \in Shells, CallTask(c, t) PROVE \A u \in Shells : ShellStep(u)
  <2>1. shell'[t] = Killed(shell[t]) => ShellStep(t)
    BY <1>10, <1>t DEF ShellStep, CallTask, HostRuns, Killed, ShellRecords
  <2>2. host # "down" /\ (ShellTo(t, Killed(shell[t])) \/ shell' = shell)
    BY <1>10 DEF CallTask, HostRuns
  <2> QED BY <2>1, <2>2, <1>o, <1>s
<1>11. ASSUME NEW c \in Readers, AwaitDone(c) \/ LoadTask(c) \/ ReadFile(c) \/ AnswerCall(c)
       PROVE  \A u \in Shells : ShellStep(u)
  BY <1>11, <1>s DEF AwaitDone, LoadTask, ReadFile, AnswerCall, HostRuns
<1>12. ASSUME NEW c \in Readers, Advance(c) PROVE \A u \in Shells : ShellStep(u)
  <2> DEFINE t == reader[c].id
             r == [shell[t] EXCEPT !.offset = reader[c].to, !.shown = @ \cup Returned(c)]
  <2>1. host # "down" /\ reader[c].pc = "advance" /\ (ShellTo(t, r) \/ shell' = shell)
    BY <1>12 DEF Advance, HostRuns
  <2>2. t \in Shells
    BY <2>1 DEF ShellsTypeOK
  <2>3. shell'[t] = r =>
          /\ shell'[t].offset = reader[c].to /\ shell'[t].shown = shell[t].shown \cup Returned(c)
          /\ shell'[t].row = shell[t].row /\ shell'[t].done = shell[t].done
          /\ shell'[t].unsettled = shell[t].unsettled
          /\ shell'[t].pc = shell[t].pc /\ shell'[t].live = shell[t].live
    BY <2>2, <1>t DEF ShellRecords
  <2>4. shell'[t] = r => ReadEnds(t)
    BY <2>1, <2>3 DEF ReadEnds
  <2>5. host' = host
    BY <1>12 DEF Advance
  <2>6. shell'[t] = r => ShellStep(t)
    BY <2>1, <2>3, <2>4, <2>5 DEF ShellStep
  <2> HIDE DEF r, t
  <2> QED BY <2>1, <2>2, <2>5, <2>6, <1>o, <1>s
<1>13. CASE StopAll
  <2>1. ASSUME NEW u \in Shells, shell'[u] = Killed(shell[u]) PROVE ShellStep(u)
    BY <2>1, <1>13, <1>t DEF StopAll, ShellStep, Killed, ShellRecords
  <2> QED BY <1>13, <2>1, <1>s DEF StopAll
<1>14. CASE HostEnds
  <2> SUFFICES ASSUME NEW u \in Shells PROVE ShellStep(u)
    OBVIOUS
  <2>1. /\ host' = "down"
        /\ shell'[u] = [shell[u] EXCEPT !.live = FALSE, !.pc = IF shell[u].pc = "none" THEN "none" ELSE "over"]
    BY <1>14 DEF HostEnds
  <2>2. shell'[u] = [shell[u] EXCEPT !.live = FALSE, !.pc = shell'[u].pc]
        /\ (shell[u].pc = "none" => shell'[u].pc = "none") /\ (shell[u].pc # "none" => shell'[u].pc = "over")
    BY <2>1, <1>t DEF ShellRecords
  <2>3. /\ shell'[u].offset = shell[u].offset /\ shell'[u].shown = shell[u].shown /\ ~shell'[u].live
        /\ shell'[u].row = shell[u].row /\ shell'[u].done = shell[u].done
        /\ shell'[u].unsettled = shell[u].unsettled
    BY <2>2, <1>t DEF ShellRecords
  <2> QED BY <2>1, <2>2, <2>3 DEF ShellStep
<1>15. CASE HostStarts
  <2> SUFFICES ASSUME NEW u \in Shells PROVE ShellStep(u)
    OBVIOUS
  <2>1. host = "down" /\ shell'[u] = IF shell[u].row = "running" THEN [shell[u] EXCEPT !.row = "lost"] ELSE shell[u]
    BY <1>15 DEF HostStarts
  <2>2. CASE shell[u].row = "running"
    <3>1. shell'[u] = [shell[u] EXCEPT !.row = "lost"]
      BY <2>1, <2>2
    <3>2. /\ shell'[u].offset = shell[u].offset /\ shell'[u].shown = shell[u].shown
          /\ shell'[u].pc = shell[u].pc /\ shell'[u].live = shell[u].live /\ shell'[u].row = "lost"
          /\ shell'[u].done = shell[u].done /\ shell'[u].unsettled = shell[u].unsettled
      BY <3>1, <1>t DEF ShellRecords
    <3> QED BY <2>1, <2>2, <3>2 DEF ShellStep
  <2>3. CASE shell[u].row # "running"
    BY <2>1, <2>3 DEF ShellStep
  <2> QED BY <2>2, <2>3
<1> QED BY <1>0, <1>1, <1>2, <1>3, <1>4, <1>5, <1>6, <1>7, <1>8, <1>9, <1>10, <1>11, <1>12, <1>13, <1>14,
           <1>15 DEF ShellsNext

(* The same for a call.                                                     *)
ReaderStep(c) ==
    LET r == reader[c]
        n == reader'[c]
        stays == host' # "down" \/ host = "down"
        same == n.id = r.id /\ n.over = r.over /\ n.row = r.row
    IN \/ n = r /\ stays
       \/ n.pc = "idle"
       \/ /\ n.pc \in {"wait", "load"} /\ n.id \in Shells /\ shell[n.id].row # "none"
          /\ n.over => ~shell[n.id].live /\ shell[n.id].pc # "recorded"
          /\ stays /\ host # "down"
       \/ /\ r.pc = "wait" /\ n.pc = "load" /\ n.id = r.id /\ (n.over => r.over \/ shell[r.id].done)
          /\ stays
       \/ /\ r.pc = "load" /\ n.pc \in {"read", "answer"} /\ n.id = r.id /\ n.over = r.over
          /\ n.row = shell[r.id].row /\ n.from = shell[r.id].offset /\ stays
       \/ r.pc = "read" /\ n.pc = "advance" /\ same /\ n.from = r.from /\ n.to <= r.from + MaxBytes /\ stays
       \/ r.pc = "advance" /\ n.pc = "answer" /\ same /\ stays

LEMMA ReadersStep == ShellsTypeOK /\ [ShellsNext]_shellVars => \A c \in Readers : ReaderStep(c)
<1> SUFFICES ASSUME ShellsTypeOK, [ShellsNext]_shellVars PROVE \A c \in Readers : ReaderStep(c)
  OBVIOUS
<1>t. reader \in [Readers -> ReaderRecords]
  BY DEF ShellsTypeOK
<1>s. ASSUME NEW k \in Readers, reader'[k] = reader[k], host' # "down" \/ host = "down" PROVE ReaderStep(k)
  BY <1>s DEF ReaderStep
<1>o. ASSUME NEW c \in Readers, NEW r, ReaderTo(c, r), reader'[c] = r => ReaderStep(c), host' # "down" \/ host = "down"
      PROVE  \A k \in Readers : ReaderStep(k)
  BY <1>o, <1>t, <1>s DEF ReaderTo
<1>i. ASSUME NEW c \in Readers, reader'[c] = NoReader PROVE ReaderStep(c)
  BY <1>i DEF ReaderStep, NoReader
<1>1. ASSUME UNCHANGED <<reader, host>> PROVE \A k \in Readers : ReaderStep(k)
  BY <1>1, <1>s
<1>2. CASE StopAll \/ HostStarts
  BY <1>2, <1>s DEF StopAll, HostStarts
<1>3. CASE HostEnds
  BY <1>3, <1>i DEF HostEnds
<1>4. ASSUME NEW c \in Readers, NEW t \in Shells, CallTask(c, t) PROVE \A k \in Readers : ReaderStep(k)
  <2>1. PICK stop, block \in BOOLEAN :
           ReaderTo(c, [NoReader EXCEPT !.id = t, !.stop = stop,
                          !.pc = IF shell[t].live /\ (block \/ stop) THEN "wait" ELSE "load",
                          !.over = ~shell[t].live /\ shell[t].pc # "recorded"])
    BY <1>4 DEF CallTask
  <2> DEFINE r == [NoReader EXCEPT !.id = t, !.stop = stop,
                          !.pc = IF shell[t].live /\ (block \/ stop) THEN "wait" ELSE "load",
                          !.over = ~shell[t].live /\ shell[t].pc # "recorded"]
  <2>2. r.pc \in {"wait", "load"} /\ r.id = t /\ (r.over => ~shell[t].live /\ shell[t].pc # "recorded")
    BY DEF NoReader
  <2>3. host # "down" /\ host' = host /\ shell[t].row # "none"
    BY <1>4 DEF CallTask, HostRuns
  <2>4. ReaderTo(c, r)
    BY <2>1
  <2> HIDE DEF r
  <2>5. reader'[c] = r => ReaderStep(c)
    BY <2>2, <2>3 DEF ReaderStep
  <2> QED BY <2>3, <2>4, <2>5, <1>o
<1>5. ASSUME NEW c \in Readers, AwaitDone(c) PROVE \A k \in Readers : ReaderStep(k)
  <2> DEFINE r == [reader[c] EXCEPT !.pc = "load", !.over = TRUE]
             f == [reader[c] EXCEPT !.pc = "load"]
  <2>1. /\ host' = host /\ reader[c].pc = "wait"
        /\ \/ shell[reader[c].id].done /\ ReaderTo(c, r)
           \/ ReaderTo(c, f)
           \/ ReaderTo(c, NoReader)
    BY <1>5 DEF AwaitDone
  <2>2. shell[reader[c].id].done /\ reader'[c] = r => ReaderStep(c)
    BY <1>t, <2>1 DEF ReaderStep, ReaderRecords
  <2>3. reader'[c] = f => ReaderStep(c)
    BY <1>t, <2>1 DEF ReaderStep, ReaderRecords
  <2> HIDE DEF r, f
  <2> QED BY <2>1, <2>2, <2>3, <1>o, <1>i
<1>6. ASSUME NEW c \in Readers, LoadTask(c) PROVE \A k \in Readers : ReaderStep(k)
  <2> DEFINE r(p) == [reader[c] EXCEPT !.pc = p, !.row = shell[reader[c].id].row, !.from = shell[reader[c].id].offset]
  <2>1. /\ host' = host /\ reader[c].pc = "load"
        /\ ReaderTo(c, NoReader) \/ \E p \in {"read", "answer"} : ReaderTo(c, r(p))
    BY <1>6 DEF LoadTask
  <2>2. \A p \in {"read", "answer"} : reader'[c] = r(p) => ReaderStep(c)
    BY <1>t, <2>1 DEF ReaderStep, ReaderRecords
  <2> HIDE DEF r
  <2> QED BY <2>1, <2>2, <1>o, <1>i
<1>7. ASSUME NEW c \in Readers, ReadFile(c) PROVE \A k \in Readers : ReaderStep(k)
  <2> DEFINE log == shell[reader[c].id].log
             to == IF reader[c].from + MaxBytes < log THEN reader[c].from + MaxBytes ELSE log
             r == [reader[c] EXCEPT !.pc = "advance", !.to = to]
  <2>1. host' = host /\ reader[c].pc = "read" /\ ReaderTo(c, r)
    BY <1>7 DEF ReadFile
  <2>2. reader[c].id \in Shells /\ log \in Nat /\ reader[c].from \in Nat
    BY <2>1, <1>t DEF ShellsTypeOK, ShellRecords, ReaderRecords
  <2>3. to <= reader[c].from + MaxBytes
    BY <2>2, ShellsAssumption
  <2> HIDE DEF to
  <2>4. reader'[c] = r => ReaderStep(c)
    BY <1>t, <2>1, <2>3 DEF ReaderStep, ReaderRecords
  <2> QED BY <2>1, <2>4, <1>o
<1>8. ASSUME NEW c \in Readers, Advance(c) PROVE \A k \in Readers : ReaderStep(k)
  <2> DEFINE r == [reader[c] EXCEPT !.pc = "answer", !.from = 0, !.to = 0]
  <2>1. host' = host /\ reader[c].pc = "advance" /\ (ReaderTo(c, r) \/ ReaderTo(c, NoReader))
    BY <1>8 DEF Advance
  <2>2. reader'[c] = r => ReaderStep(c)
    BY <1>t, <2>1 DEF ReaderStep, ReaderRecords
  <2> HIDE DEF r
  <2> QED BY <2>1, <2>2, <1>o, <1>i
<1>9. ASSUME NEW c \in Readers, AnswerCall(c) PROVE \A k \in Readers : ReaderStep(k)
  BY <1>9, <1>o, <1>i DEF AnswerCall
<1> QED BY <1>1, <1>2, <1>3, <1>4, <1>5, <1>6, <1>7, <1>8, <1>9 DEF ShellsNext, shellVars,
      StartShell, RecordShell,
      PutLive, WriteLog, ShellExits, ShellTimesOut, Settle, RemoveLive, CloseDone

LEMMA RowsFollowKept == ShellsInv /\ [ShellsNext]_shellVars => RowsFollow'
<1> SUFFICES ASSUME ShellsInv, [ShellsNext]_shellVars, NEW t \in Shells
             PROVE
        /\ shell'[t].pc \in {"none", "started"} =>
              shell'[t].row = "none" /\ ~shell'[t].done /\ ~shell'[t].unsettled /\ ~shell'[t].live
        /\ shell'[t].pc = "recorded" => shell'[t].row # "none" /\ ~shell'[t].done
        /\ shell'[t].pc = "waiting" => shell'[t].live /\ ~shell'[t].done
        /\ shell'[t].pc \in {"settled", "removed"} => Told(t)'
        /\ shell'[t].pc = "over" /\ host' # "down" /\ shell'[t].row # "none" => Told(t)'
        /\ shell'[t].done => Told(t)'
  BY DEF RowsFollow
<1>1. ShellStep(t)
  BY ShellsStep DEF ShellsInv
<1>2. /\ shell[t].pc \in {"none", "started"} =>
              shell[t].row = "none" /\ ~shell[t].done /\ ~shell[t].unsettled /\ ~shell[t].live
      /\ shell[t].pc = "recorded" => shell[t].row # "none" /\ ~shell[t].done
      /\ shell[t].pc = "waiting" => shell[t].live /\ ~shell[t].done
      /\ shell[t].pc \in {"settled", "removed"} => Told(t)
      /\ shell[t].pc = "over" /\ host # "down" /\ shell[t].row # "none" => Told(t)
      /\ shell[t].done => Told(t)
  BY DEF ShellsInv, RowsFollow
<1> QED BY <1>1, <1>2 DEF ShellStep, Told

(* A shell that is told stays told.                                         *)
LEMMA ToldStays == ShellsInv /\ [ShellsNext]_shellVars => \A t \in Shells : Told(t) => Told(t)'
<1> SUFFICES ASSUME ShellsInv, [ShellsNext]_shellVars, NEW t \in Shells, Told(t) PROVE Told(t)'
  OBVIOUS
<1>1. ShellStep(t)
  BY ShellsStep DEF ShellsInv
<1> QED BY <1>1 DEF ShellStep, Told, ShellsInv, RowsFollow

LEMMA ReadersKnowKept == ShellsInv /\ [ShellsNext]_shellVars => ReadersKnow'
<1> SUFFICES ASSUME ShellsInv, [ShellsNext]_shellVars, NEW c \in Readers, reader'[c].pc # "idle"
             PROVE  /\ host' # "down"
                    /\ reader'[c].over => \/ shell'[reader'[c].id].row \notin {"none", "running"}
                                          \/ shell'[reader'[c].id].unsettled
  BY DEF ReadersKnow, Told
<1>1. ReaderStep(c)
  BY ReadersStep DEF ShellsInv
<1>2. reader[c].pc # "idle" => host # "down" /\ (reader[c].over => Told(reader[c].id)) /\ reader[c].id \in Shells
  BY DEF ShellsInv, ReadersKnow, ShellsTypeOK
<1>3. host' # "down"
  BY <1>1, <1>2 DEF ReaderStep
<1>4. ASSUME reader'[c].over PROVE Told(reader'[c].id)
  <2>1. \A u \in Shells : shell[u].done => Told(u)
    BY DEF ShellsInv, RowsFollow
  <2>2. ASSUME NEW u \in Shells, shell[u].row # "none", ~shell[u].live, shell[u].pc # "recorded", host # "down"
        PROVE  Told(u)
    <3>1. shell[u].pc \in ShellPhases
      BY DEF ShellsInv, ShellsTypeOK, ShellRecords
    <3> QED BY <2>2, <3>1 DEF ShellsInv, RowsFollow, ShellPhases
  <2> QED BY <1>1, <1>2, <1>4, <2>1, <2>2 DEF ReaderStep
<1>5. reader'[c].id \in Shells
  BY <1>1, <1>2 DEF ReaderStep
<1> QED BY <1>3, <1>4, <1>5, ToldStays DEF Told

LEMMA EndIsStoredKept == ShellsInv /\ [ShellsNext]_shellVars => EndIsStored'
<1> SUFFICES ASSUME ShellsInv, [ShellsNext]_shellVars, NEW c \in Readers,
                    reader'[c].pc \in {"read", "advance", "answer"}, reader'[c].over
             PROVE  reader'[c].row # "running" \/ shell'[reader'[c].id].unsettled
  BY DEF EndIsStored
<1>1. ReaderStep(c)
  BY ReadersStep DEF ShellsInv
<1>2. \A u \in Shells : shell[u].unsettled => shell'[u].unsettled
  <2> SUFFICES ASSUME NEW u \in Shells, shell[u].unsettled PROVE shell'[u].unsettled
    OBVIOUS
  <2>1. ShellStep(u)
    BY ShellsStep DEF ShellsInv
  <2> QED BY <2>1 DEF ShellStep
<1>3. reader[c].pc # "idle" => reader[c].id \in Shells
  BY DEF ShellsInv, ShellsTypeOK
<1>4. reader[c].pc \in {"read", "advance", "answer"} /\ reader[c].over =>
          reader[c].row # "running" \/ shell[reader[c].id].unsettled
  BY DEF ShellsInv, EndIsStored
<1>5. reader[c].pc = "load" /\ reader[c].over =>
          shell[reader[c].id].row # "running" \/ shell[reader[c].id].unsettled
  BY DEF ShellsInv, ReadersKnow, Told
<1> QED BY <1>1, <1>2, <1>3, <1>4, <1>5 DEF ReaderStep

LEMMA ReadsAreShownKept == ShellsInv /\ [ShellsNext]_shellVars => ReadsAreShown'
<1> SUFFICES ASSUME ShellsInv, [ShellsNext]_shellVars, NEW c \in Readers
             PROVE  /\ reader'[c].pc \in {"read", "advance"} =>
                          1..reader'[c].from \subseteq shell'[reader'[c].id].shown
                    /\ reader'[c].pc = "advance" => reader'[c].to <= reader'[c].from + MaxBytes
  BY DEF ReadsAreShown
<1>1. ReaderStep(c)
  BY ReadersStep DEF ShellsInv
<1>2. \A u \in Shells : shell[u].shown \subseteq shell'[u].shown
  <2> SUFFICES ASSUME NEW u \in Shells PROVE shell[u].shown \subseteq shell'[u].shown
    OBVIOUS
  <2>1. ShellStep(u)
    BY ShellsStep DEF ShellsInv
  <2> QED BY <2>1 DEF ShellStep, ReadEnds
<1>3. reader[c].pc # "idle" => reader[c].id \in Shells
  BY DEF ShellsInv, ShellsTypeOK
<1>4. /\ reader[c].pc \in {"read", "advance"} => 1..reader[c].from \subseteq shell[reader[c].id].shown
      /\ reader[c].pc = "advance" => reader[c].to <= reader[c].from + MaxBytes
      /\ \A u \in Shells : 1..shell[u].offset \subseteq shell[u].shown
  BY DEF ShellsInv, ReadsAreShown, NothingSkipped
<1>5. reader'[c].pc = "advance" => reader'[c].to <= reader'[c].from + MaxBytes
  BY <1>1, <1>4 DEF ReaderStep
<1>6. reader'[c].pc \in {"read", "advance"} => \/ reader'[c] = reader[c]
                                               \/ reader[c].pc = "load" /\ reader'[c].id = reader[c].id
                                                  /\ reader'[c].from = shell[reader[c].id].offset
                                               \/ reader[c].pc = "read" /\ reader'[c].id = reader[c].id
                                                  /\ reader'[c].from = reader[c].from
  BY <1>1 DEF ReaderStep
<1>7. reader'[c].pc \in {"read", "advance"} => 1..reader'[c].from \subseteq shell[reader'[c].id].shown /\ reader'[c].id \in Shells
  BY <1>3, <1>4, <1>6
<1> QED BY <1>2, <1>5, <1>7

LEMMA NothingSkippedKept == ShellsInv /\ [ShellsNext]_shellVars => NothingSkipped'
<1> SUFFICES ASSUME ShellsInv, [ShellsNext]_shellVars, NEW u \in Shells
             PROVE  1..shell'[u].offset \subseteq shell'[u].shown
  BY DEF NothingSkipped
<1>1. ShellStep(u) /\ 1..shell[u].offset \subseteq shell[u].shown
  BY ShellsStep DEF ShellsInv, NothingSkipped
<1>2. CASE shell'[u].offset = shell[u].offset /\ shell'[u].shown = shell[u].shown
  BY <1>1, <1>2
<1>3. ASSUME NEW c \in Readers, reader[c].pc = "advance", reader[c].id = u,
             shell'[u].offset = reader[c].to, shell'[u].shown = shell[u].shown \cup Returned(c)
      PROVE  1..shell'[u].offset \subseteq shell'[u].shown
  <2>1. 1..reader[c].from \subseteq shell[u].shown /\ reader[c].to <= reader[c].from + MaxBytes
    BY <1>3 DEF ShellsInv, ReadsAreShown
  <2>2. reader[c].from \in Nat /\ reader[c].to \in Nat
    BY DEF ShellsInv, ShellsTypeOK, ReaderRecords
  <2>3. 1..reader[c].to \subseteq 1..reader[c].from \cup Returned(c)
    BY <2>1, <2>2, ShellsAssumption DEF Returned
  <2> QED BY <1>3, <2>1, <2>3
<1> QED BY <1>1, <1>2, <1>3 DEF ShellStep, ReadEnds

(* The rows, the calls and what was shown, for any tasks, calls and bounds. *)
LEMMA ShellsKept == ShellsInv /\ [ShellsNext]_shellVars => ShellsInv'
<1> SUFFICES ASSUME ShellsInv, [ShellsNext]_shellVars PROVE ShellsInv'
  OBVIOUS
<1>1. ShellsTypeOK'
  <2>1. ShellsTypeOK
    BY DEF ShellsInv
  <2> QED BY <2>1, ShellRecordsKept, ReaderRecordsKept, ShellBoundsKept, LogBoundKept DEF ShellsTypeOK
<1> QED BY <1>1, RowsFollowKept, ReadersKnowKept, EndIsStoredKept, ReadsAreShownKept,
      NothingSkippedKept DEF ShellsInv

(* The fields of shells and calls keep their types, and a busy call names a shell. *)
THEOREM ShellsTypeCorrect == ShellsSpec => []ShellsTypeOK
<1>1. ShellsInv => ShellsTypeOK
  BY DEF ShellsInv
<1> QED BY ShellsInitial, ShellsKept, <1>1, PTL DEF ShellsSpec

(* Whatever reads overlap and fail, the offset passes only output some call showed. *)
THEOREM ShellsNothingSkipped == ShellsSpec => []NothingSkipped
<1>1. ShellsInv => NothingSkipped
  BY DEF ShellsInv
<1> QED BY ShellsInitial, ShellsKept, <1>1, PTL DEF ShellsSpec

(* A call that saw the process end has a row that says how, unless its update failed. *)
THEOREM ShellsEndIsStored == ShellsSpec => []EndIsStored
<1>1. ShellsInv => EndIsStored
  BY DEF ShellsInv
<1> QED BY ShellsInitial, ShellsKept, <1>1, PTL DEF ShellsSpec

-----------------------------------------------------------------------------
(* What is told of a run, on the stream and on Telegram.                    *)

InLanePhases == {"model", "publish", "apologise", "tell"}
StoredPhases == {"publish", "apologise", "tell", "notify"}
IsStored(r) == r \in DOMAIN told /\ told[r].status # "running"

(* A run that its worker has stored is stored; a push is the web worker's.  *)
TellersKnow ==
    /\ \A c \in Convs : /\ teller[c].at # "idle" => teller[c].run \in DOMAIN told
                        /\ teller[c].at \in StoredPhases => IsStored(teller[c].run)
    /\ push.now.at = "sending" => teller["web"].at = "notify"

(* The end of a run is told when it is stored.                              *)
DonesAreStored ==
    /\ \A r \in outbox \cup browser.ended : IsStored(r)
    /\ \A i \in DOMAIN browser.buffer : browser.buffer[i].kind = "done" => IsStored(browser.buffer[i].run)

(* Who waits for a run will hear its done: the worker has still to emit it, *)
(* or it lies further back in the buffer; or the buffer was full.           *)
Works(c, r) == teller[c].at \in InLanePhases /\ teller[c].run = r
HearsDone(r, i) == \E k \in DOMAIN browser.buffer :
    k > i /\ browser.buffer[k].kind = "done" /\ browser.buffer[k].conv = browser.conv /\ browser.buffer[k].run = r
Covered(r, i) == Works(browser.conv, r) \/ HearsDone(r, i) \/ r \in browser.lost
StreamsAreKept ==
    /\ ~browser.open => browser.buffer = <<>> /\ browser.following = {}
    /\ browser.scope = "messages" => browser.following = {}
WaitersAreCovered ==
    deliveryFaults = 0 =>
        /\ \A r \in typing : Works("telegram", r)
        /\ \A r \in browser.following : Covered(r, 0)
        /\ \A i \in DOMAIN browser.buffer :
              browser.buffer[i].conv = browser.conv /\ browser.buffer[i].kind # "done" =>
                  Covered(browser.buffer[i].run, i)

DeliveryInv == DeliveryTypeOK /\ TellersKnow /\ DonesAreStored /\ StreamsAreKept /\ WaitersAreCovered

LEMMA DeliveryInitial == DeliveryInit => DeliveryInv
<1> SUFFICES ASSUME DeliveryInit PROVE DeliveryInv
  OBVIOUS
<1>1. DeliveryTypeOK
  BY DEF DeliveryInit, DeliveryTypeOK, Convs, IdleLane, Closed, NoPush, Browsers, Tellers, TellerPhases
<1>2. TellersKnow
  BY DEF DeliveryInit, TellersKnow, IdleLane, NoPush, StoredPhases
<1>3. DonesAreStored /\ StreamsAreKept /\ WaitersAreCovered
  BY DEF DeliveryInit, DonesAreStored, StreamsAreKept, WaitersAreCovered, Closed
<1> QED BY <1>1, <1>2, <1>3 DEF DeliveryInv

(* The stream's callback appends an event, or notes that it was lost.       *)
LEMMA StreamAppends ==
    ASSUME browser \in Browsers, NEW ev \in Events, StreamHears(ev)
    PROVE  /\ browser' \in Browsers
           /\ browser'.open = browser.open /\ browser'.conv = browser.conv /\ browser'.scope = browser.scope
           /\ browser'.following = browser.following /\ browser'.ended = browser.ended
           /\ \/ browser' = browser /\ ~browser.open
              \/ browser'.buffer = Append(browser.buffer, ev) /\ browser'.lost = browser.lost /\ browser.open
              \/ browser'.buffer = browser.buffer /\ browser'.lost = browser.lost \cup {ev.run} /\ browser.open
<1>1. CASE ~browser.open
  BY <1>1 DEF StreamHears
<1>2. CASE browser.open /\ browser' = [browser EXCEPT !.buffer = Append(browser.buffer, ev)]
  <2>1. browser.buffer \in Seq(Events)
    BY DEF Browsers
  <2>2. Append(browser.buffer, ev) \in Seq(Events)
    BY <2>1
  <2> DEFINE b == Append(browser.buffer, ev)
  <2> HIDE DEF b
  <2>3. browser' = [browser EXCEPT !.buffer = b] /\ b \in Seq(Events)
    BY <1>2, <2>2 DEF b
  <2>4. /\ browser' \in Browsers /\ browser'.open = browser.open /\ browser'.conv = browser.conv /\ browser'.scope = browser.scope
        /\ browser'.following = browser.following /\ browser'.ended = browser.ended
        /\ browser'.buffer = b /\ browser'.lost = browser.lost
    BY <2>3 DEF Browsers
  <2> QED BY <1>2, <2>4 DEF b
<1>3. CASE browser.open /\ browser' = [browser EXCEPT !.lost = browser.lost \cup {ev.run}]
  <2>1. browser.lost \cup {ev.run} \subseteq Nat
    BY DEF Browsers, Events
  <2> QED BY <1>3, <2>1 DEF Browsers
<1> QED BY <1>1, <1>2, <1>3 DEF StreamHears

(* What a step emits: a row or a delta of a run in its lane, or the done of *)
(* a run that its worker has finished with.                                 *)
Emission(c, r, what) ==
    /\ Emit(Event(c, r, what))
    /\ what # "done" => Works(c, r)'
    /\ what = "done" => Tell(c) /\ teller[c].run = r
StepEmits == \E c \in Convs, r \in Nat, what \in {"row", "delta", "done"} : Emission(c, r, what)
BrowserSteps == \/ \E id \in Chats, scope \in {"runs", "messages"} : OpenStream(id, scope)
                \/ CloseStream \/ SendEvent \/ Restart

LEMMA StepsEmit ==
    DeliveryTypeOK /\ [DeliveryNext]_deliveryVars =>
        \/ UNCHANGED <<typing, browser>> /\ outbox' \subseteq outbox
        \/ StepEmits
        \/ BrowserSteps
<1> SUFFICES ASSUME DeliveryTypeOK, [DeliveryNext]_deliveryVars
             PROVE  \/ UNCHANGED <<typing, browser>> /\ outbox' \subseteq outbox
                    \/ StepEmits
                    \/ BrowserSteps
  OBVIOUS
<1>t. teller \in [Convs -> Tellers] /\ Len(told) \in Nat
  BY DEF DeliveryTypeOK
<1>w. \A c \in Convs : teller[c].run \in Nat
  BY <1>t DEF Tellers
<1>1. ASSUME NEW c \in Convs, NEW source, StartToldRun(c, source) PROVE Quiet \/ StepEmits
  <2>1. teller'[c] = [at |-> "model", run |-> Len(told) + 1] /\ Len(told) + 1 \in Nat
    BY <1>1, <1>t DEF StartToldRun
  <2>2. Quiet \/ Emit(Event(c, Len(told) + 1, "row"))
    BY <1>1 DEF StartToldRun
  <2> QED BY <2>1, <2>2 DEF StepEmits, Emission, Works, InLanePhases
<1>2. ASSUME NEW c \in Convs, EmitDelta(c) PROVE StepEmits
  <2>1. Works(c, teller[c].run)'
    BY <1>2 DEF EmitDelta, Works, InLanePhases
  <2> QED BY <1>2, <1>w, <2>1 DEF EmitDelta, StepEmits, Emission
<1>3. ASSUME NEW c \in Convs, PublishRows(c) \/ Apologise(c) PROVE StepEmits
  <2>1. PICK p \in {"apologise", "tell"} : teller' = [teller EXCEPT ![c].at = p]
    BY <1>3 DEF PublishRows, Apologise
  <2>2. teller'[c].at = p /\ teller'[c].run = teller[c].run
    BY <2>1, <1>t DEF Tellers
  <2>3. Works(c, teller[c].run)'
    BY <2>2 DEF Works, InLanePhases
  <2>4. PICK what \in {"row", "delta"} : Emit(Event(c, teller[c].run, what))
    BY <1>3 DEF PublishRows, Apologise
  <2>5. Emission(c, teller[c].run, what)
    BY <2>3, <2>4 DEF Emission
  <2> QED BY <1>w, <2>5 DEF StepEmits
<1>4. ASSUME NEW c \in Convs, Tell(c) PROVE StepEmits
  BY <1>4, <1>w DEF Tell, StepEmits, Emission
<1>5. ASSUME NEW c \in Convs, NEW status, SettleFails(c) \/ StoreRun(c, status) PROVE Quiet
  BY <1>5 DEF SettleFails, StoreRun
<1>6. ASSUME NEW r \in outbox, SendTelegram(r) PROVE UNCHANGED <<typing, browser>> /\ outbox' \subseteq outbox
  BY <1>6 DEF SendTelegram
<1>7. ASSUME NEW e \in Endpoints, NEW outcome, Subscribe(e) \/ Unsubscribe(e) \/ SendPush(e, outcome) PROVE Quiet
  BY <1>7 DEF Subscribe, Unsubscribe, SendPush, Quiet
<1>8. ASSUME BeginPush \/ EndPush \/ UNCHANGED deliveryVars PROVE Quiet
  BY <1>8 DEF BeginPush, EndPush, deliveryVars, Quiet
<1> QED BY <1>1, <1>2, <1>3, <1>4, <1>5, <1>6, <1>7, <1>8 DEF DeliveryNext, Quiet, BrowserSteps

(* What a step does to the runs.                                            *)
LEMMA ToldStep ==
    DeliveryTypeOK /\ TellersKnow /\ [DeliveryNext]_deliveryVars =>
        /\ told' \in Seq(ToldRuns)
        /\ \A r : r \in DOMAIN told => r \in DOMAIN told'
        /\ \A r : IsStored(r) => IsStored(r)'
<1> SUFFICES ASSUME DeliveryTypeOK, TellersKnow, [DeliveryNext]_deliveryVars
             PROVE  /\ told' \in Seq(ToldRuns)
                    /\ \A r : r \in DOMAIN told => r \in DOMAIN told'
                    /\ \A r : IsStored(r) => IsStored(r)'
  OBVIOUS
<1>t. told \in Seq(ToldRuns)
  BY DEF DeliveryTypeOK
<1>1. CASE UNCHANGED told
  BY <1>1, <1>t DEF IsStored
<1>2. ASSUME NEW c \in Convs, NEW source \in {"typed", "schedule"}, StartToldRun(c, source)
      PROVE  /\ told' \in Seq(ToldRuns)
             /\ \A r : r \in DOMAIN told => r \in DOMAIN told'
             /\ \A r : IsStored(r) => IsStored(r)'
  <2> DEFINE run == [conv |-> c, source |-> source, status |-> "running"]
  <2>1. told' = Append(told, run) /\ run \in ToldRuns
    BY <1>2 DEF StartToldRun, ToldRuns
  <2> HIDE DEF run
  <2>2. told' \in Seq(ToldRuns) /\ \A r \in DOMAIN told : r \in DOMAIN told' /\ told'[r] = told[r]
    BY <2>1, <1>t
  <2> QED BY <2>2 DEF IsStored
<1>3. ASSUME NEW c \in Convs, NEW status \in {"done", "failed"}, StoreRun(c, status)
      PROVE  /\ told' \in Seq(ToldRuns)
             /\ \A r : r \in DOMAIN told => r \in DOMAIN told'
             /\ \A r : IsStored(r) => IsStored(r)'
  <2> DEFINE n == teller[c].run
  <2>1. told' = [told EXCEPT ![n] = [told[n] EXCEPT !.status = status]] /\ n \in DOMAIN told
    BY <1>3 DEF StoreRun, TellersKnow
  <2>2. told[n] \in ToldRuns
    BY <2>1, <1>t
  <2>3. [told[n] EXCEPT !.status = status] \in ToldRuns
    BY <2>2 DEF ToldRuns
  <2>4. [told[n] EXCEPT !.status = status].status = status
    BY <2>2 DEF ToldRuns
  <2> DEFINE run == [told[n] EXCEPT !.status = status]
  <2> HIDE DEF n, run
  <2>5. told' = [told EXCEPT ![n] = run] /\ run \in ToldRuns /\ run.status # "running" /\ n \in DOMAIN told
    BY <2>1, <2>3, <2>4 DEF run, n
  <2>6. told' \in Seq(ToldRuns) /\ DOMAIN told' = DOMAIN told
        /\ \A r \in DOMAIN told : told'[r] = IF r = n THEN run ELSE told[r]
    BY <2>5, <1>t
  <2> QED BY <2>5, <2>6 DEF IsStored
<1>4. CASE Restart
  <2>0. \A run \in ToldRuns : [run EXCEPT !.status = "failed"] \in ToldRuns
    BY DEF ToldRuns
  <2>1. \A r \in DOMAIN told : [told[r] EXCEPT !.status = "failed"] \in ToldRuns /\ told[r] \in ToldRuns
    BY <2>0, <1>t
  <2>2. told' = [r \in DOMAIN told |-> IF told[r].status = "running" THEN [told[r] EXCEPT !.status = "failed"]
                                      ELSE told[r]]
    BY <1>4 DEF Restart
  <2>3. told' \in [1..Len(told) -> ToldRuns] /\ Len(told) \in Nat
    BY <2>1, <2>2, <1>t
  <2>4. told' \in Seq(ToldRuns) /\ DOMAIN told' = DOMAIN told
    BY <2>2, <2>3
  <2> QED BY <2>2, <2>4 DEF IsStored
<1> QED BY <1>1, <1>2, <1>3, <1>4 DEF DeliveryNext, deliveryVars, EmitDelta, SettleFails,
      PublishRows, Apologise, Tell,
           SendTelegram, OpenStream, CloseStream, SendEvent, BeginPush, EndPush, Subscribe, Unsubscribe, SendPush

(* What a step does to the worker of a conversation.                        *)
TellerStep(c) ==
    LET t == teller[c]
        n == teller'[c]
        kept == n.run = t.run
    IN \/ n = t
       \/ t.at = "idle" /\ n.at = "model" /\ n.run = Len(told) + 1 /\ Len(told') = Len(told) + 1
       \/ t.at = "model" /\ n.at \in {"publish", "apologise", "tell"} /\ kept /\ IsStored(t.run)'
       \/ t.at = "publish" /\ n.at \in {"apologise", "tell"} /\ kept
       \/ t.at = "apologise" /\ n.at = "tell" /\ kept
       \/ t.at = "tell" /\ n.at = "notify" /\ kept /\ Tell(c) /\ c = "web"
       \/ t.at = "tell" /\ n = IdleLane /\ Tell(c)
       \/ t.at = "notify" /\ n = IdleLane
       \/ n = IdleLane /\ DeliveryFault

LEMMA TellersStep ==
    DeliveryTypeOK /\ TellersKnow /\ [DeliveryNext]_deliveryVars =>
        teller' \in [Convs -> Tellers] /\ \A c \in Convs : TellerStep(c)
<1> SUFFICES ASSUME DeliveryTypeOK, TellersKnow, [DeliveryNext]_deliveryVars
             PROVE  teller' \in [Convs -> Tellers] /\ \A c \in Convs : TellerStep(c)
  OBVIOUS
<1>t. teller \in [Convs -> Tellers] /\ told \in Seq(ToldRuns)
  BY DEF DeliveryTypeOK
<1>p. /\ {"idle", "model", "publish", "apologise", "tell", "notify"} \subseteq TellerPhases
      /\ IdleLane \in Tellers
  BY DEF TellerPhases, Tellers, IdleLane
<1>s. \A c \in Convs : teller'[c] = teller[c] => TellerStep(c)
  BY DEF TellerStep
<1>o. ASSUME NEW c \in Convs, NEW n \in Tellers, teller' = [teller EXCEPT ![c] = n], teller'[c] = n => TellerStep(c)
      PROVE  teller' \in [Convs -> Tellers] /\ \A k \in Convs : TellerStep(k)
  BY <1>o, <1>t, <1>s
<1>a. ASSUME NEW c \in Convs, NEW p \in TellerPhases, teller' = [teller EXCEPT ![c].at = p],
             teller'[c].at = p /\ teller'[c].run = teller[c].run => TellerStep(c)
      PROVE  teller' \in [Convs -> Tellers] /\ \A k \in Convs : TellerStep(k)
  <2>1. [teller[c] EXCEPT !.at = p] \in Tellers
    BY <1>t DEF Tellers
  <2>2. [teller[c] EXCEPT !.at = p].at = p /\ [teller[c] EXCEPT !.at = p].run = teller[c].run
    BY <1>t DEF Tellers
  <2> DEFINE n == [teller[c] EXCEPT !.at = p]
  <2> HIDE DEF n
  <2>3. teller' = [teller EXCEPT ![c] = n] /\ n \in Tellers /\ n.at = p /\ n.run = teller[c].run
    BY <1>a, <2>1, <2>2 DEF n
  <2> QED BY <2>3, <1>a, <1>o
<1>1. CASE UNCHANGED teller
  BY <1>1, <1>t, <1>s
<1>2. ASSUME NEW c \in Convs, NEW source, StartToldRun(c, source)
      PROVE  teller' \in [Convs -> Tellers] /\ \A k \in Convs : TellerStep(k)
  <2> DEFINE n == [at |-> "model", run |-> Len(told) + 1]
  <2>1. n \in Tellers /\ n.at = "model" /\ n.run = Len(told) + 1
    BY <1>t, <1>p DEF Tellers
  <2>2. Len(told') = Len(told) + 1
    BY <1>2, <1>t DEF StartToldRun
  <2>3. teller' = [teller EXCEPT ![c] = n] /\ teller[c].at = "idle"
    BY <1>2 DEF StartToldRun
  <2> HIDE DEF n
  <2>4. teller'[c] = n => TellerStep(c)
    BY <2>1, <2>2, <2>3 DEF TellerStep
  <2> QED BY <2>1, <2>3, <2>4, <1>o
<1>3. ASSUME NEW c \in Convs, NEW status \in {"done", "failed"}, StoreRun(c, status)
      PROVE  teller' \in [Convs -> Tellers] /\ \A k \in Convs : TellerStep(k)
  <2>1. PICK p \in {"publish", "apologise", "tell"} : teller' = [teller EXCEPT ![c].at = p]
    BY <1>3 DEF StoreRun
  <2>2. teller[c].at = "model" /\ teller[c].run \in DOMAIN told
    BY <1>3 DEF StoreRun, TellersKnow
  <2>3. told[teller[c].run] \in ToldRuns
    BY <2>2, <1>t
  <2>4. told'[teller[c].run] = [told[teller[c].run] EXCEPT !.status = status] /\ DOMAIN told' = DOMAIN told
    BY <1>3, <2>2 DEF StoreRun
  <2>5. told'[teller[c].run].status # "running" /\ teller[c].run \in DOMAIN told'
    BY <2>2, <2>3, <2>4 DEF ToldRuns
  <2>6. (IsStored(teller[c].run))' \/ teller'[c].run # teller[c].run
    BY <2>5 DEF IsStored
  <2>7. teller'[c].at = p /\ teller'[c].run = teller[c].run => TellerStep(c)
    BY <2>1, <2>2, <2>5 DEF TellerStep, IsStored
  <2> QED BY <2>1, <2>7, <1>a, <1>p
<1>4. ASSUME NEW c \in Convs, PublishRows(c) \/ Apologise(c)
      PROVE  teller' \in [Convs -> Tellers] /\ \A k \in Convs : TellerStep(k)
  <2>1. PICK p \in {"apologise", "tell"} :
           /\ teller' = [teller EXCEPT ![c].at = p]
           /\ teller[c].at = "publish" \/ (teller[c].at = "apologise" /\ p = "tell")
    BY <1>4 DEF PublishRows, Apologise
  <2>2. teller'[c].at = p /\ teller'[c].run = teller[c].run => TellerStep(c)
    BY <2>1 DEF TellerStep
  <2>3. p \in TellerPhases
    BY <1>p
  <2>4. teller' = [teller EXCEPT ![c].at = p]
    BY <2>1
  <2> QED BY <2>2, <2>3, <2>4, <1>a
<1>5. ASSUME NEW c \in Convs, Tell(c)
      PROVE  teller' \in [Convs -> Tellers] /\ \A k \in Convs : TellerStep(k)
  <2>1. CASE teller' = [teller EXCEPT ![c] = IdleLane]
    <3>1. teller'[c] = IdleLane => TellerStep(c)
      BY <1>5 DEF TellerStep, Tell
    <3> QED BY <2>1, <3>1, <1>o, <1>p
  <2>2. CASE c = "web" /\ teller' = [teller EXCEPT ![c].at = "notify"]
    <3>1. teller'[c].at = "notify" /\ teller'[c].run = teller[c].run => TellerStep(c)
      BY <1>5, <2>2 DEF TellerStep, Tell
    <3> QED BY <2>2, <3>1, <1>a, <1>p
  <2>3. \/ teller' = [teller EXCEPT ![c] = IdleLane]
        \/ c = "web" /\ teller' = [teller EXCEPT ![c] = [teller[c] EXCEPT !.at = "notify"]]
    BY <1>5 DEF Tell
  <2> QED BY <2>1, <2>2, <2>3
<1>6. ASSUME NEW c \in Convs, SettleFails(c)
      PROVE  teller' \in [Convs -> Tellers] /\ \A k \in Convs : TellerStep(k)
  <2>1. teller' = [teller EXCEPT ![c] = IdleLane] /\ DeliveryFault
    BY <1>6 DEF SettleFails
  <2>2. teller'[c] = IdleLane => TellerStep(c)
    BY <2>1 DEF TellerStep
  <2> QED BY <2>1, <2>2, <1>o, <1>p
<1>7. CASE Restart
  <2>1. teller' = [c \in Convs |-> IdleLane] /\ DeliveryFault
    BY <1>7 DEF Restart
  <2>2. \A c \in Convs : teller'[c] = IdleLane
    BY <2>1
  <2> QED BY <2>1, <2>2, <1>p DEF TellerStep
<1>8. CASE EndPush
  <2>1. teller' = [teller EXCEPT !["web"] = IdleLane] /\ "web" \in Convs /\ teller["web"].at = "notify"
    BY <1>8 DEF EndPush, Convs, TellersKnow
  <2>2. teller'["web"] = IdleLane => TellerStep("web")
    BY <2>1 DEF TellerStep
  <2> QED BY <2>1, <2>2, <1>o, <1>p
<1> QED BY <1>1, <1>2, <1>3, <1>4, <1>5, <1>6, <1>7, <1>8 DEF DeliveryNext, deliveryVars, EmitDelta,
           SendTelegram, OpenStream, CloseStream, SendEvent, BeginPush, EndPush, Subscribe, Unsubscribe, SendPush

LEMMA PushKept == DeliveryTypeOK /\ TellersKnow /\ [DeliveryNext]_deliveryVars =>
    /\ push' \in [subscribed : SUBSET Endpoints, now : [at : {"idle", "sending"}, todo : SUBSET Endpoints]]
    /\ push'.now.at = "sending" => teller'["web"].at = "notify"
<1> DEFINE Nows == [at : {"idle", "sending"}, todo : SUBSET Endpoints]
           Pushes == [subscribed : SUBSET Endpoints, now : Nows]
           Good == push' \in Pushes /\ (push'.now.at = "sending" => teller'["web"].at = "notify")
<1> SUFFICES ASSUME DeliveryTypeOK, TellersKnow, [DeliveryNext]_deliveryVars PROVE Good
  OBVIOUS
<1>t. push \in Pushes /\ push.now \in Nows /\ (push.now.at = "sending" => teller["web"].at = "notify")
  BY DEF DeliveryTypeOK, TellersKnow
<1>w. TellerStep("web") /\ "web" \in Convs
  BY TellersStep DEF Convs
<1>n. NoPush \in Nows /\ NoPush.at = "idle"
  BY DEF NoPush
<1>e. \A n \in Nows : [push EXCEPT !.now = n] \in Pushes /\ [push EXCEPT !.now = n].now = n
  BY <1>t
<1>1. CASE UNCHANGED push /\ ~Restart /\ ~\E c \in Convs : SettleFails(c)
  <2>1. teller["web"].at = "notify" => teller'["web"].at = "notify"
    <3>1. CASE UNCHANGED teller
      BY <3>1
    <3>2. ASSUME NEW c \in Convs, NEW source, StartToldRun(c, source), teller["web"].at = "notify"
          PROVE  teller'["web"] = teller["web"]
      BY <1>w, <3>2 DEF StartToldRun
    <3>3. ASSUME NEW c \in Convs, NEW status, StoreRun(c, status) \/ PublishRows(c) \/ Apologise(c) \/ Tell(c),
                 teller["web"].at = "notify"
          PROVE  teller'["web"] = teller["web"]
      <4>1. c # "web"
        BY <3>3 DEF StoreRun, PublishRows, Apologise, Tell
      <4>2. \E n : teller' = [teller EXCEPT ![c] = n]
        BY <3>3 DEF StoreRun, PublishRows, Apologise, Tell
      <4>3. teller \in [Convs -> Tellers]
        BY DEF DeliveryTypeOK
      <4> QED BY <1>w, <4>1, <4>2, <4>3
    <3>4. ~EndPush
      BY <1>1, <1>t, <1>n, <1>e DEF EndPush
    <3> QED BY <1>1, <3>1, <3>2, <3>3, <3>4 DEF DeliveryNext, deliveryVars, EmitDelta, SendTelegram,
          OpenStream,
               CloseStream, SendEvent, BeginPush, Subscribe, Unsubscribe, SendPush
  <2> QED BY <1>1, <1>t, <2>1
<1>2. ASSUME NEW c \in Convs, SettleFails(c) PROVE Good
  <2>1. c # "web" \/ push.now.at # "sending"
    BY <1>2, <1>t DEF SettleFails
  <2>2. push' = push /\ (c # "web" => teller'["web"] = teller["web"])
    BY <1>2, <1>w DEF SettleFails
  <2> QED BY <1>t, <2>1, <2>2
<1>3. CASE Restart \/ EndPush
  <2>1. push' = [push EXCEPT !.now = NoPush]
    BY <1>3 DEF Restart, EndPush
  <2> QED BY <2>1, <1>n, <1>e
<1>4. CASE BeginPush
  <2> DEFINE n == [at |-> "sending", todo |-> push.subscribed]
  <2>1. n \in Nows
    BY <1>t
  <2>2. push' = [push EXCEPT !.now = n] /\ teller'["web"].at = "notify"
    BY <1>4 DEF BeginPush
  <2> QED BY <2>1, <2>2, <1>e
<1>5. ASSUME NEW e \in Endpoints, Subscribe(e) \/ Unsubscribe(e) PROVE Good
  <2>1. PICK u \in SUBSET Endpoints : push' = [push EXCEPT !.subscribed = u]
    BY <1>5, <1>t DEF Subscribe, Unsubscribe
  <2>2. push' \in Pushes /\ push'.now = push.now
    BY <2>1, <1>t
  <2>3. teller' = teller
    BY <1>5 DEF Subscribe, Unsubscribe
  <2> QED BY <2>2, <2>3, <1>t
<1>6. ASSUME NEW e \in Endpoints, NEW outcome, SendPush(e, outcome) PROVE Good
  <2> DEFINE n == [push.now EXCEPT !.todo = @ \ {e}]
             u == IF outcome = "gone" THEN push.subscribed \ {e} ELSE push.subscribed
  <2>1. n \in Nows /\ n.at = push.now.at /\ u \in SUBSET Endpoints
    BY <1>t
  <2>2. push' = [push EXCEPT !.now = n, !.subscribed = u] /\ teller' = teller
    BY <1>6, <1>t DEF SendPush
  <2> HIDE DEF n, u
  <2>3. push' \in Pushes /\ push'.now = n
    BY <2>1, <2>2, <1>t
  <2> QED BY <2>1, <2>2, <2>3, <1>t
<1> HIDE DEF Good
<1> QED BY <1>1, <1>2, <1>3, <1>4, <1>5, <1>6 DEF DeliveryNext, deliveryVars, StartToldRun,
      EmitDelta, StoreRun,
           PublishRows, Apologise, Tell, SendTelegram, OpenStream, CloseStream, SendEvent

(* What the loop of the handler does with the buffer's first event.         *)
LEMMA EventSent ==
    ASSUME browser \in Browsers, SendEvent
    PROVE  /\ browser' \in Browsers /\ browser'.open = browser.open /\ browser'.conv = browser.conv /\ browser'.scope = browser.scope
           /\ browser'.lost = browser.lost /\ browser.open /\ browser.buffer # <<>>
           /\ browser'.buffer = Tail(browser.buffer)
           /\ LET ev == Head(browser.buffer) IN
                /\ browser'.following =
                      IF ~Heard(ev) \/ ev.kind = "row" THEN browser.following
                      ELSE IF ev.kind = "done" THEN browser.following \ {ev.run}
                      ELSE browser.following \cup {ev.run}
                /\ browser'.ended = IF Heard(ev) /\ ev.kind = "done" THEN browser.ended \cup {ev.run}
                                    ELSE browser.ended
<1> DEFINE ev == Head(browser.buffer)
           b == Tail(browser.buffer)
           f == IF ~Heard(ev) \/ ev.kind = "row" THEN browser.following
                ELSE IF ev.kind = "done" THEN browser.following \ {ev.run}
                ELSE browser.following \cup {ev.run}
           n == IF Heard(ev) /\ ev.kind = "done" THEN browser.ended \cup {ev.run} ELSE browser.ended
<1>1. browser.buffer \in Seq(Events) /\ browser.buffer # <<>> /\ browser.open
  BY DEF SendEvent, Browsers
<1>2. b \in Seq(Events) /\ ev \in Events
  BY <1>1
<1>3. ev.run \in Nat
  BY <1>2 DEF Events
<1>4. f \in SUBSET Nat /\ n \in SUBSET Nat
  BY <1>3 DEF Browsers
<1>5. browser' = [browser EXCEPT !.buffer = b, !.following = f, !.ended = n]
  BY DEF SendEvent
<1> HIDE DEF b, f, n, ev
<1>6. /\ browser' \in Browsers /\ browser'.open = browser.open /\ browser'.conv = browser.conv /\ browser'.scope = browser.scope
      /\ browser'.lost = browser.lost /\ browser'.buffer = b /\ browser'.following = f /\ browser'.ended = n
  BY <1>2, <1>4, <1>5 DEF Browsers
<1> QED BY <1>1, <1>6 DEF b, f, n, ev

LEMMA EmittedIsEvent ==
    \A c \in Convs, r \in Nat, what \in {"row", "delta", "done"} :
        LET ev == Event(c, r, what) IN ev \in Events /\ ev.conv = c /\ ev.run = r /\ ev.kind = what
BY DEF Event, Events

LEMMA DeliveryTypeKept == DeliveryTypeOK /\ TellersKnow /\ [DeliveryNext]_deliveryVars => DeliveryTypeOK'
<1> SUFFICES ASSUME DeliveryTypeOK, TellersKnow, [DeliveryNext]_deliveryVars PROVE DeliveryTypeOK'
  OBVIOUS
<1>b. browser \in Browsers
  BY DEF DeliveryTypeOK
<1>1. browser' \in Browsers
  <2>1. CASE StepEmits
    <3>1. PICK c \in Convs, r \in Nat, what \in {"row", "delta", "done"} : Emission(c, r, what)
      BY <2>1 DEF StepEmits
    <3> QED BY <3>1, <1>b, EmittedIsEvent, StreamAppends DEF Emission, Emit
  <2>2. CASE SendEvent
    BY <1>b, <2>2, EventSent
  <2>3. ASSUME NEW id, NEW scope \in {"runs", "messages"}, OpenStream(id, scope)
        PROVE  browser' \in Browsers
    <3>1. PICK c \in Convs : browser' =
             [open |-> TRUE, conv |-> c, scope |-> scope, buffer |-> <<>>, following |-> {}, ended |-> {}, lost |-> {}]
      BY <2>3 DEF OpenStream, Closed, ResolveChat
    <3> QED BY <3>1 DEF Browsers
  <2>4. CASE CloseStream \/ Restart
    <3>1. browser' = [open |-> FALSE, conv |-> "web", scope |-> "runs", buffer |-> <<>>, following |-> {}, ended |-> {}, lost |-> {}]
      BY <2>4 DEF CloseStream, Restart, Closed
    <3> QED BY <3>1 DEF Browsers, Convs
  <2>5. CASE UNCHANGED browser
    BY <1>b, <2>5
  <2> QED BY <2>1, <2>2, <2>3, <2>4, <2>5, StepsEmit DEF BrowserSteps
<1>2. deliveryFaults' \in Nat
  <2>1. deliveryFaults' = deliveryFaults \/ DeliveryFault
    BY DEF DeliveryNext, deliveryVars, StartToldRun, EmitDelta, StoreRun, PublishRows, Apologise, Tell,
       SendTelegram, OpenStream, CloseStream, SendEvent, BeginPush, EndPush, Subscribe, Unsubscribe, SendPush,
       SettleFails, Restart
  <2> QED BY <2>1 DEF DeliveryTypeOK, DeliveryFault
<1>3. teller'["telegram"].at # "notify"
  <2>1. TellerStep("telegram") /\ teller["telegram"].at # "notify"
    BY TellersStep DEF Convs, DeliveryTypeOK
  <2> QED BY <2>1 DEF TellerStep, IdleLane
<1> QED BY <1>1, <1>2, <1>3, ToldStep, TellersStep, PushKept DEF DeliveryTypeOK

LEMMA TellersKnowKept == DeliveryTypeOK /\ TellersKnow /\ [DeliveryNext]_deliveryVars => TellersKnow'
<1> SUFFICES ASSUME DeliveryTypeOK, TellersKnow, [DeliveryNext]_deliveryVars PROVE TellersKnow'
  OBVIOUS
<1>1. ASSUME NEW c \in Convs
      PROVE  /\ teller'[c].at # "idle" => teller'[c].run \in DOMAIN told'
             /\ teller'[c].at \in StoredPhases =>
                    teller'[c].run \in DOMAIN told' /\ told'[teller'[c].run].status # "running"
  <2>1. TellerStep(c)
    BY TellersStep
  <2>2. /\ teller[c].at # "idle" => teller[c].run \in DOMAIN told
        /\ teller[c].at \in StoredPhases => IsStored(teller[c].run)
    BY DEF TellersKnow
  <2>3. told \in Seq(ToldRuns) /\ told' \in Seq(ToldRuns)
    BY ToldStep DEF DeliveryTypeOK
  <2>4. Len(told') = Len(told) + 1 => Len(told) + 1 \in DOMAIN told'
    BY <2>3
  <2>5. teller[c].at \in StoredPhases => teller[c].run \in DOMAIN told' /\ told'[teller[c].run].status # "running"
    BY <2>2, ToldStep DEF IsStored
  <2>6. teller[c].at # "idle" => teller[c].run \in DOMAIN told'
    BY <2>2, ToldStep
  <2>7. teller'[c].at # "idle" => teller'[c].run \in DOMAIN told'
    BY <2>1, <2>4, <2>6 DEF TellerStep, IdleLane
  <2>8. teller'[c].at \in StoredPhases =>
            teller'[c].run \in DOMAIN told' /\ told'[teller'[c].run].status # "running"
    BY <2>1, <2>5 DEF TellerStep, IdleLane, StoredPhases, IsStored
  <2> QED BY <2>7, <2>8
<1>2. push'.now.at = "sending" => teller'["web"].at = "notify"
  BY PushKept
<1> QED BY <1>1, <1>2 DEF TellersKnow, IsStored

LEMMA DonesAreStoredKept == DeliveryInv /\ [DeliveryNext]_deliveryVars => DonesAreStored'
<1> SUFFICES ASSUME DeliveryInv, [DeliveryNext]_deliveryVars PROVE DonesAreStored'
  OBVIOUS
<1>t. DeliveryTypeOK /\ TellersKnow /\ browser \in Browsers
  BY DEF DeliveryInv, DeliveryTypeOK
<1>m. \A r : IsStored(r) => IsStored(r)'
  BY <1>t, ToldStep
<1>h. /\ \A r \in outbox \cup browser.ended : IsStored(r)
      /\ \A i \in DOMAIN browser.buffer : browser.buffer[i].kind = "done" => IsStored(browser.buffer[i].run)
  BY DEF DeliveryInv, DonesAreStored
<1>c. ASSUME browser'.buffer = <<>>, browser'.ended = {}, outbox' \subseteq outbox PROVE DonesAreStored'
  BY <1>c, <1>h, <1>m DEF DonesAreStored, IsStored
<1>1. CASE UNCHANGED <<typing, browser>> /\ outbox' \subseteq outbox
  BY <1>1, <1>h, <1>m DEF DonesAreStored, IsStored
<1>2. ASSUME NEW c \in Convs, NEW r \in Nat, NEW what \in {"row", "delta", "done"}, Emission(c, r, what)
      PROVE  DonesAreStored'
  <2> DEFINE ev == Event(c, r, what)
  <2>1. ev \in Events /\ ev.run = r /\ ev.kind = what
    BY EmittedIsEvent
  <2>2. what = "done" => IsStored(r)
    BY <1>2, <1>t DEF Emission, Tell, TellersKnow, StoredPhases
  <2>3. outbox' \subseteq outbox \cup {r} /\ (what # "done" => outbox' = outbox)
    BY <1>2, <2>1 DEF Emission, Emit, TelegramHears
  <2> HIDE DEF ev
  <2>4. browser'.ended = browser.ended /\ (browser'.buffer = browser.buffer \/ browser'.buffer = Append(browser.buffer, ev))
    BY <1>2, <1>t, <2>1, StreamAppends DEF Emission, Emit, ev
  <2>5. browser.buffer \in Seq(Events)
    BY <1>t DEF Browsers
  <2>6. \A i \in DOMAIN browser'.buffer : browser'.buffer[i] = ev \/ (i \in DOMAIN browser.buffer /\ browser'.buffer[i] = browser.buffer[i])
    BY <2>1, <2>4, <2>5
  <2>7. \A x \in outbox' \cup browser'.ended : IsStored(x)
    BY <1>h, <2>2, <2>3, <2>4
  <2>8. \A i \in DOMAIN browser'.buffer : browser'.buffer[i].kind = "done" => IsStored(browser'.buffer[i].run)
    BY <1>h, <2>1, <2>2, <2>6
  <2> QED BY <1>m, <2>7, <2>8 DEF DonesAreStored, IsStored
<1>3. ASSUME NEW id, NEW scope, OpenStream(id, scope) PROVE DonesAreStored'
  <2>1. browser'.buffer = <<>> /\ browser'.ended = {} /\ outbox' = outbox
    BY <1>3 DEF OpenStream, Closed
  <2> QED BY <2>1, <1>c
<1>4. CASE CloseStream \/ Restart
  <2>1. browser'.buffer = <<>> /\ browser'.ended = {} /\ outbox' \subseteq outbox
    BY <1>4 DEF CloseStream, Restart, Closed
  <2> QED BY <2>1, <1>c
<1>5. CASE SendEvent
  <2> DEFINE ev == Head(browser.buffer)
  <2>1. browser.buffer \in Seq(Events) /\ browser.buffer # <<>> /\ outbox' = outbox
    BY <1>5, <1>t DEF Browsers, SendEvent
  <2>2. ev = browser.buffer[1] /\ 1 \in DOMAIN browser.buffer
    BY <2>1
  <2>3. browser'.buffer = Tail(browser.buffer) /\ browser'.ended \subseteq browser.ended \cup {ev.run}
        /\ (ev.kind # "done" => browser'.ended = browser.ended)
    BY <1>5, <1>t, EventSent
  <2>4. \A i \in DOMAIN Tail(browser.buffer) : i + 1 \in DOMAIN browser.buffer /\ Tail(browser.buffer)[i] = browser.buffer[i + 1]
    BY <2>1
  <2>5. \A x \in outbox' \cup browser'.ended : IsStored(x)
    BY <1>h, <2>1, <2>2, <2>3
  <2>6. \A i \in DOMAIN browser'.buffer : browser'.buffer[i].kind = "done" => IsStored(browser'.buffer[i].run)
    BY <1>h, <2>3, <2>4
  <2> QED BY <1>m, <2>5, <2>6 DEF DonesAreStored, IsStored
<1> QED BY <1>t, <1>1, <1>2, <1>3, <1>4, <1>5, StepsEmit DEF StepEmits, BrowserSteps

LEMMA StreamsAreKeptKept == DeliveryInv /\ [DeliveryNext]_deliveryVars => StreamsAreKept'
<1> SUFFICES ASSUME DeliveryInv, [DeliveryNext]_deliveryVars PROVE StreamsAreKept'
  OBVIOUS
<1>t. DeliveryTypeOK /\ TellersKnow /\ browser \in Browsers /\ StreamsAreKept
  BY DEF DeliveryInv, DeliveryTypeOK
<1>1. CASE UNCHANGED browser
  BY <1>1, <1>t DEF StreamsAreKept
<1>2. ASSUME NEW c \in Convs, NEW r \in Nat, NEW what \in {"row", "delta", "done"}, Emission(c, r, what)
      PROVE  StreamsAreKept'
  <2>1. /\ browser'.open = browser.open /\ browser'.conv = browser.conv /\ browser'.scope = browser.scope /\ browser'.following = browser.following
        /\ browser' = browser \/ browser.open
    BY <1>2, <1>t, EmittedIsEvent, StreamAppends DEF Emission, Emit
  <2> QED BY <2>1, <1>t DEF StreamsAreKept
<1>3. ASSUME NEW id, NEW scope, OpenStream(id, scope) PROVE StreamsAreKept'
  BY <1>3 DEF OpenStream, Closed, StreamsAreKept
<1>4. CASE CloseStream \/ Restart
  BY <1>4 DEF CloseStream, Restart, Closed, StreamsAreKept
<1>5. CASE SendEvent
  <2>1. /\ browser'.open /\ browser'.scope = browser.scope
        /\ browser.scope = "messages" => browser'.following \subseteq browser.following
    BY <1>5, <1>t, EventSent DEF Heard
  <2> QED BY <2>1, <1>t DEF StreamsAreKept
<1> QED BY <1>t, <1>1, <1>2, <1>3, <1>4, <1>5, StepsEmit DEF StepEmits, BrowserSteps

LEMMA WorksStays ==
    ASSUME DeliveryTypeOK, TellersKnow, [DeliveryNext]_deliveryVars, deliveryFaults' = 0,
           NEW c \in Convs, ~Tell(c), NEW r, Works(c, r)
    PROVE  Works(c, r)'
<1>1. TellerStep(c)
  BY TellersStep
<1>2. ~DeliveryFault
  BY DEF DeliveryFault, DeliveryTypeOK
<1> QED BY <1>1, <1>2 DEF TellerStep, Works, InLanePhases

LEMMA NoFaultYet ==
    DeliveryTypeOK /\ [DeliveryNext]_deliveryVars /\ deliveryFaults' = 0 => deliveryFaults = 0 /\ ~Restart
<1> SUFFICES ASSUME DeliveryTypeOK, [DeliveryNext]_deliveryVars, deliveryFaults' = 0
             PROVE  deliveryFaults = 0 /\ ~Restart
  OBVIOUS
<1>1. deliveryFaults' = deliveryFaults \/ DeliveryFault
  BY DEF DeliveryNext, deliveryVars, StartToldRun, EmitDelta, StoreRun, PublishRows, Apologise, Tell,
     SendTelegram, OpenStream, CloseStream, SendEvent, BeginPush, EndPush, Subscribe, Unsubscribe, SendPush,
     SettleFails, Restart
<1> QED BY <1>1 DEF DeliveryFault, DeliveryTypeOK, Restart

(* An event, or its loss, leaves what is covered covered, but for the run   *)
(* whose worker has just finished with it.                                  *)
LEMMA CoveredStays ==
    ASSUME browser \in Browsers, NEW ev \in Events, StreamHears(ev), browser.open,
           NEW r, NEW i \in Nat, Covered(r, i),
           Works(browser.conv, r) =>
               Works(browser.conv, r)' \/ (ev.conv = browser.conv /\ ev.kind = "done" /\ ev.run = r),
           i <= Len(browser.buffer)
    PROVE  Covered(r, i)'
<1>1. browser.buffer \in Seq(Events)
  BY DEF Browsers
<1>2. /\ \/ browser'.buffer = Append(browser.buffer, ev) /\ browser'.lost = browser.lost
         \/ browser'.buffer = browser.buffer /\ browser'.lost = browser.lost \cup {ev.run}
      /\ browser'.conv = browser.conv
  BY StreamAppends
<1>3. CASE r \in browser.lost
  BY <1>2, <1>3 DEF Covered
<1>4. CASE HearsDone(r, i)
  <2>1. PICK k \in DOMAIN browser.buffer :
           /\ k > i /\ browser.buffer[k].kind = "done"
           /\ browser.buffer[k].conv = browser.conv /\ browser.buffer[k].run = r
    BY <1>4 DEF HearsDone
  <2>2. k \in DOMAIN browser'.buffer /\ browser'.buffer[k] = browser.buffer[k]
    BY <1>1, <1>2, <2>1
  <2> QED BY <1>2, <2>1, <2>2 DEF Covered, HearsDone
<1>5. CASE Works(browser.conv, r)'
  BY <1>5 DEF Covered
<1>6. CASE ev.conv = browser.conv /\ ev.kind = "done" /\ ev.run = r
  <2>1. CASE browser'.buffer = Append(browser.buffer, ev)
    <3>1. LET k == Len(browser.buffer) + 1 IN k \in DOMAIN browser'.buffer /\ browser'.buffer[k] = ev /\ k > i
      BY <1>1, <2>1
    <3> QED BY <1>2, <1>6, <3>1 DEF Covered, HearsDone
  <2>2. CASE browser'.lost = browser.lost \cup {ev.run}
    BY <1>6, <2>2 DEF Covered
  <2> QED BY <1>2, <2>1, <2>2
<1> QED BY <1>3, <1>4, <1>5, <1>6 DEF Covered

LEMMA WaitersAreCoveredKept == DeliveryInv /\ [DeliveryNext]_deliveryVars => WaitersAreCovered'
<1> DEFINE Typing == \A r \in typing : Works("telegram", r)
           Following == \A r \in browser.following : Covered(r, 0)
           Buffered == \A i \in DOMAIN browser.buffer :
                          browser.buffer[i].conv = browser.conv /\ browser.buffer[i].kind # "done" =>
                              Covered(browser.buffer[i].run, i)
<1> SUFFICES ASSUME DeliveryInv, [DeliveryNext]_deliveryVars, deliveryFaults' = 0
             PROVE  Typing' /\ Following' /\ Buffered'
  BY DEF WaitersAreCovered
<1>t. DeliveryTypeOK /\ TellersKnow /\ browser \in Browsers /\ StreamsAreKept
  BY DEF DeliveryInv, DeliveryTypeOK
<1>f. deliveryFaults = 0 /\ ~Restart
  BY <1>t, NoFaultYet
<1>h. Typing /\ Following /\ Buffered
  BY <1>f DEF DeliveryInv, WaitersAreCovered
<1>b. browser.buffer \in Seq(Events) /\ browser.conv \in Convs /\ "telegram" \in Convs
  BY <1>t DEF Browsers, Convs
<1>w. \A c \in Convs : \A r : ~Tell(c) /\ Works(c, r) => Works(c, r)'
  BY <1>t, WorksStays
<1>i. \A i \in DOMAIN browser.buffer : i \in Nat /\ i <= Len(browser.buffer)
  BY <1>b
<1>l. Len(browser.buffer) \in Nat
  BY <1>b
\* whatever is emitted: who waits is covered if the workers of the others go on
<1>e. ASSUME NEW ev \in Events, StreamHears(ev), TelegramHears(ev),
             \A c \in Convs : \A r : Works(c, r) =>
                        Works(c, r)' \/ (ev.conv = c /\ ev.kind = "done" /\ ev.run = r),
             ev.kind # "done" => Works(ev.conv, ev.run)'
      PROVE  Typing' /\ Following' /\ Buffered'
  <2>1. Typing'
    BY <1>e, <1>h, <1>b DEF TelegramHears, Works
  <2>2. CASE ~browser.open
    <3>1. browser'.buffer = <<>> /\ browser'.following = {}
      BY <1>t, <1>e, <2>2, StreamAppends DEF StreamsAreKept
    <3> QED BY <2>1, <3>1
  <2>3. CASE browser.open
    <3>1. browser'.following = browser.following /\ browser'.conv = browser.conv
          /\ \/ browser'.buffer = Append(browser.buffer, ev)
             \/ browser'.buffer = browser.buffer
      BY <1>t, <1>e, StreamAppends
    <3>2. \A r : \A i \in Nat : i <= Len(browser.buffer) /\ Covered(r, i) => Covered(r, i)'
      <4>1. \A r : Works(browser.conv, r) =>
               Works(browser.conv, r)' \/ (ev.conv = browser.conv /\ ev.kind = "done" /\ ev.run = r)
        BY <1>e, <1>b, <3>1 DEF Works
      <4> QED BY <1>t, <1>e, <2>3, <4>1, CoveredStays
    <3>3. Following'
      BY <1>h, <1>l, <3>1, <3>2
    <3>4. ASSUME NEW i \in DOMAIN browser'.buffer, NEW r, browser'.buffer[i].run = r,
                 browser'.buffer[i].conv = browser'.conv, browser'.buffer[i].kind # "done"
          PROVE  Covered(r, i)'
      <4>1. CASE i \in DOMAIN browser.buffer /\ browser'.buffer[i] = browser.buffer[i]
        BY <1>h, <1>i, <3>1, <3>2, <3>4, <4>1
      <4>2. CASE browser'.buffer[i] = ev
        BY <1>e, <3>4, <4>2 DEF Covered, Works
      <4>3. (i \in DOMAIN browser.buffer /\ browser'.buffer[i] = browser.buffer[i]) \/ browser'.buffer[i] = ev
        BY <1>b, <3>1
      <4> QED BY <4>1, <4>2, <4>3
    <3> QED BY <2>1, <3>3, <3>4 DEF Covered, Works, HearsDone
  <2> QED BY <2>2, <2>3
<1>1. ASSUME NEW c \in Convs, Tell(c) PROVE Typing' /\ Following' /\ Buffered'
  <2> DEFINE r == teller[c].run
             ev == Event(c, r, "done")
  <2>1. r \in Nat
    BY <1>t DEF DeliveryTypeOK, Tellers
  <2>2. ev \in Events /\ ev.conv = c /\ ev.run = r /\ ev.kind = "done" /\ StreamHears(ev) /\ TelegramHears(ev)
    BY <1>1, <2>1, EmittedIsEvent DEF Tell, Emit
  <2>3. ASSUME NEW k \in Convs, NEW x, Works(k, x) PROVE Works(k, x)' \/ (c = k /\ r = x)
    <3>1. CASE k = c
      BY <2>3, <3>1 DEF Works
    <3>2. CASE k # c
      <4>1. \E n : teller' = [teller EXCEPT ![c] = n]
        BY <1>1 DEF Tell
      <4>2. teller'[k] = teller[k]
        BY <3>2, <4>1, <1>t DEF DeliveryTypeOK
      <4> QED BY <2>3, <4>2 DEF Works
    <3> QED BY <3>1, <3>2
  <2> HIDE DEF r, ev
  <2> QED BY <1>b, <1>e, <2>2, <2>3
<1>2. CASE ~\E c \in Convs : Tell(c)
  <2>w. \A c \in Convs : \A r : Works(c, r) => Works(c, r)'
    BY <1>2, <1>w
  <2>1. CASE UNCHANGED <<typing, browser>>
    <3>1. browser' = browser /\ typing' = typing
      BY <2>1
    <3>2. \A c \in Convs : \A r : Works(c, r) => Works(c, r)'
      BY <2>w
    <3>3. \A r, i : Covered(r, i) => Covered(r, i)'
      BY <1>b, <3>1, <3>2 DEF Covered, HearsDone, Works
    <3> QED BY <1>h, <1>b, <3>1, <3>2, <3>3
  <2>2. ASSUME NEW c \in Convs, NEW r \in Nat, NEW what \in {"row", "delta", "done"}, Emission(c, r, what)
        PROVE  Typing' /\ Following' /\ Buffered'
    <3> DEFINE ev == Event(c, r, what)
    <3>1. ev \in Events /\ ev.conv = c /\ ev.run = r /\ ev.kind = what /\ StreamHears(ev) /\ TelegramHears(ev)
      BY <2>2, EmittedIsEvent DEF Emission, Emit
    <3>2. what # "done" /\ Works(c, r)'
      BY <1>2, <2>2 DEF Emission
    <3> HIDE DEF ev
    <3>3. ev.kind # "done" => Works(ev.conv, ev.run)'
      BY <3>1, <3>2 DEF Works
    <3> QED BY <1>b, <1>e, <2>w, <3>1, <3>3
  <2>3. CASE CloseStream \/ \E id \in Chats, scope \in {"runs", "messages"} : OpenStream(id, scope)
    <3>1. typing' = typing /\ \E o, k, scope : browser' = [open |-> o, conv |-> k, scope |-> scope, buffer |-> <<>>,
                                                       following |-> {}, ended |-> {}, lost |-> {}]
      BY <2>3 DEF CloseStream, OpenStream, Closed
    <3> QED BY <1>h, <1>b, <2>w, <3>1
  <2>4. CASE SendEvent
    <3> DEFINE ev == Head(browser.buffer)
    <3>1. browser.buffer # <<>> /\ typing' = typing
      BY <2>4 DEF SendEvent
    <3>2. /\ browser'.buffer = Tail(browser.buffer) /\ browser'.lost = browser.lost
          /\ browser'.conv = browser.conv
          /\ browser'.following \subseteq browser.following \cup {ev.run}
          /\ browser.open
          /\ ev.run \in browser'.following => ev.conv # browser.conv \/ ev.kind # "done" \/ browser.scope = "messages"
          /\ ev.run \in browser'.following /\ ev.run \notin browser.following => ev.conv = browser.conv /\ ev.kind # "done"
          /\ browser.scope = "messages" => browser'.following \subseteq browser.following
      BY <1>t, <2>4, EventSent DEF Heard, Browsers
    <3>3. ev = browser.buffer[1] /\ 1 \in DOMAIN browser.buffer
      BY <1>b, <3>1
    <3>4. \A i \in DOMAIN Tail(browser.buffer) :
              i \in Nat /\ i + 1 \in DOMAIN browser.buffer /\ Tail(browser.buffer)[i] = browser.buffer[i + 1]
      BY <1>b, <3>1
    <3>5. \A k \in DOMAIN browser.buffer : k \in Nat /\ (k > 1 => k - 1 \in DOMAIN Tail(browser.buffer)
                                                                  /\ Tail(browser.buffer)[k - 1] = browser.buffer[k])
      BY <1>b, <3>1
    <3>6. ASSUME NEW r, NEW i \in Nat, Covered(r, i + 1) PROVE Covered(r, i)'
      <4>1. CASE HearsDone(r, i + 1)
        <5>1. PICK k \in DOMAIN browser.buffer :
                 /\ k > i + 1 /\ browser.buffer[k].kind = "done" /\ browser.buffer[k].conv = browser.conv
                 /\ browser.buffer[k].run = r
          BY <4>1 DEF HearsDone
        <5>2. k - 1 \in DOMAIN browser'.buffer /\ browser'.buffer[k - 1] = browser.buffer[k] /\ k - 1 > i
          BY <3>2, <3>5, <5>1
        <5> QED BY <3>2, <5>1, <5>2 DEF Covered, HearsDone
      <4>2. CASE Works(browser.conv, r)
        BY <1>b, <2>w, <3>2, <4>2 DEF Covered, Works
      <4> QED BY <3>2, <3>6, <4>1, <4>2 DEF Covered
    <3>7. ASSUME NEW r \in browser'.following PROVE Covered(r, 0)'
      <4>1. CASE Covered(r, 1)
        BY <3>6, <4>1
      <4>2. CASE r \in browser.following /\ ~Covered(r, 1)
        <5>1. HearsDone(r, 0) /\ ~HearsDone(r, 1)
          BY <1>h, <4>2 DEF Covered
        <5>2. ev.kind = "done" /\ ev.conv = browser.conv /\ ev.run = r
          <6>1. PICK k \in DOMAIN browser.buffer :
                 /\ k > 0 /\ browser.buffer[k].kind = "done" /\ browser.buffer[k].conv = browser.conv
                 /\ browser.buffer[k].run = r
            BY <5>1 DEF HearsDone
          <6>2. ~(k > 1)
            BY <5>1, <6>1 DEF HearsDone
          <6>3. k = 1
            BY <3>5, <6>1, <6>2
          <6> QED BY <3>3, <6>1, <6>3
        <5>3. browser.scope = "messages"
          BY <3>2, <5>2
        <5> QED BY <4>2, <5>3, <1>t DEF StreamsAreKept
      <4>3. CASE r \notin browser.following
        <5>1. r = ev.run /\ ev.conv = browser.conv /\ ev.kind # "done"
          BY <3>2, <4>3
        <5> QED BY <1>h, <3>3, <4>1, <5>1
      <4> QED BY <4>1, <4>2, <4>3
    <3>8. ASSUME NEW i \in DOMAIN browser'.buffer, NEW r, browser'.buffer[i].run = r,
                 browser'.buffer[i].conv = browser'.conv, browser'.buffer[i].kind # "done"
          PROVE  Covered(r, i)'
      <4>1. i \in Nat /\ i + 1 \in DOMAIN browser.buffer /\ browser'.buffer[i] = browser.buffer[i + 1]
        BY <3>2, <3>4
      <4>2. Covered(r, i + 1)
        BY <1>h, <3>2, <3>8, <4>1
      <4> QED BY <3>6, <4>1, <4>2
    <3>9. Typing'
      BY <1>h, <1>b, <2>w, <3>1 DEF Works
    <3> QED BY <3>7, <3>8, <3>9 DEF Covered, Works, HearsDone
  <2> QED BY <1>f, <1>t, <2>1, <2>2, <2>3, <2>4, StepsEmit DEF StepEmits, BrowserSteps
<1> QED BY <1>1, <1>2

LEMMA DeliveryKept == DeliveryInv /\ [DeliveryNext]_deliveryVars => DeliveryInv'
<1> SUFFICES ASSUME DeliveryInv, [DeliveryNext]_deliveryVars PROVE DeliveryInv'
  OBVIOUS
<1>1. DeliveryTypeOK' /\ TellersKnow'
  BY DeliveryTypeKept, TellersKnowKept DEF DeliveryInv
<1> QED BY <1>1, DonesAreStoredKept, StreamsAreKeptKept, WaitersAreCoveredKept DEF DeliveryInv

(* The runs, their workers and the browser's stream keep their types.       *)
THEOREM DeliveryTypeCorrect == DeliverySpec => []DeliveryTypeOK
<1>1. DeliveryInv => DeliveryTypeOK
  BY DEF DeliveryInv
<1> QED BY DeliveryInitial, DeliveryKept, <1>1, PTL DEF DeliverySpec

(* Nobody is told of the end of a run whose outcome is not stored.          *)
THEOREM DeliveryToldIsStored == DeliverySpec => []ToldIsStored
<1>1. DeliveryInv => ToldIsStored
  BY DEF DeliveryInv, DonesAreStored, IsStored, ToldIsStored
<1> QED BY DeliveryInitial, DeliveryKept, <1>1, PTL DEF DeliverySpec

(* Whoever waits for a run will hear its end, for any buffer and any runs.  *)
THEOREM DeliveryWaitersAreTold == DeliverySpec => []WaitersAreTold
<1>1. DeliveryInv => WaitersAreTold
  <2> SUFFICES ASSUME DeliveryInv, deliveryFaults = 0
               PROVE  /\ typing \subseteq InLane
                      /\ browser.following \subseteq InLane \cup OnItsWay \cup browser.lost
    BY DEF WaitersAreTold
  <2>1. \A c \in Convs : \A r : Works(c, r) => r \in InLane
    BY DEF Works, InLane, InLanePhases
  <2>2. \A r : HearsDone(r, 0) => r \in OnItsWay
    BY DEF HearsDone, OnItsWay
  <2> QED BY <2>1, <2>2 DEF DeliveryInv, WaitersAreCovered, Covered, Convs, DeliveryTypeOK, Browsers
<1> QED BY DeliveryInitial, DeliveryKept, <1>1, PTL DEF DeliverySpec

-----------------------------------------------------------------------------
(* The shared files of caliban's runs.                                      *)

(* An update that no other one has met is the only one.                     *)
MetIsSeen ==
    \A l \in Lanes : Updating(l) /\ ~hand[l].met => \A k \in Lanes \ {l} : ~Updating(k)

(* An index has one line for a fact, and so has one that a lane holds.      *)
OneLineEach(lines) == \A x, y \in lines : x.fact = y.fact => x = y
LinesAreUnique == OneLineEach(index) /\ \A l \in Lanes : OneLineEach(hand[l].lines)

(* The facts of lone are in the index unless it has just been emptied, and  *)
(* then they are in what the only lane that updates it holds, with its own. *)
LoneIsIndexed ==
    (\A l \in Lanes : hand[l].at # "emptied") => \A f \in lone : Line(f, facts[f]) \in index
LoneIsHeld ==
    \A l \in Lanes : hand[l].at \in {"held", "emptied"} /\ ~hand[l].met =>
        \A f \in lone \cup {hand[l].fact} : Line(f, facts[f]) \in hand[l].lines

(* What a lane is about to index is what the file holds, until it has met   *)
(* another update.                                                          *)
HeldIsWritten ==
    \A l \in Lanes : Updating(l) /\ ~hand[l].met => hand[l].content = facts[hand[l].fact]

WorkspaceInv == /\ WorkspaceTypeOK /\ MetIsSeen /\ LinesAreUnique /\ HeldIsWritten
                /\ LoneIsIndexed /\ LoneIsHeld /\ PersonaIsRecoverable

LEMMA FreeIsAHand ==
    /\ NoContent \in Contents
    /\ Free \in Hands /\ [Free EXCEPT !.at = "run"] \in Hands
    /\ Free.at = "free" /\ Free.lines = {} /\ ~Free.met
<1>1. NoContent \in Contents
  BY WorkspaceAssumption DEF NoContent, Contents
<1> HIDE DEF NoContent
<1> QED BY <1>1, WorkspaceAssumption DEF Free, Hands

LEMMA WorkspaceInitial == WorkspaceInit => WorkspaceInv
<1> SUFFICES ASSUME WorkspaceInit PROVE WorkspaceInv
  OBVIOUS
<1>1. Free \in Hands /\ Free.at = "free" /\ Free.lines = {} /\ ~Free.met
  BY FreeIsAHand
<1>2. NoContent \in Contents
  BY FreeIsAHand
<1>3. PICK found \in BOOLEAN : LET opened == OpenWorkspace(found, FALSE, {})
                              IN gitEnabled = opened.gitEnabled /\ repo = opened.repo /\ commits = opened.commits
  BY DEF WorkspaceInit
<1>4. gitEnabled = found /\ repo = found /\ commits = (IF found THEN {persona} ELSE {}) /\ persona = 0
      /\ recorded = found
  BY <1>3 DEF OpenWorkspace, WorkspaceInit
<1>5. PersonaIsRecoverable
  BY <1>4 DEF PersonaIsRecoverable
<1> HIDE DEF Free, NoContent
<1>6. WorkspaceTypeOK
  <2>1. commits \subseteq Nat /\ gitEnabled \in BOOLEAN /\ repo \in BOOLEAN /\ recorded \in BOOLEAN
    BY <1>4
  <2> QED BY <1>1, <1>2, <2>1 DEF WorkspaceInit, WorkspaceTypeOK
<1>7. \A l \in Lanes : hand[l] = Free
  BY DEF WorkspaceInit
<1> QED BY <1>1, <1>5, <1>6, <1>7 DEF WorkspaceInit, WorkspaceInv, MetIsSeen, LinesAreUnique, OneLineEach,
     LoneIsIndexed, LoneIsHeld, HeldIsWritten, Updating

(* What a step does to the lane that moves, and to the others: they stay,   *)
(* but for learning of another update.                                      *)
Turns(l) ==
    /\ {hand[l].at, hand'[l].at} = {"free", "run"} /\ hand'[l].lines = hand[l].lines
    /\ UNCHANGED <<facts, index, lone>>
Begins(l) ==
    /\ hand[l].at = "run" /\ hand'[l].at = "fact" /\ hand'[l].fact \in Facts
    /\ hand'[l].content = facts'[hand'[l].fact] /\ hand'[l].lines = hand[l].lines /\ hand'[l].met = Met(l)
    /\ lone' = lone \ {hand'[l].fact} /\ UNCHANGED index
    /\ \A f \in Facts : f # hand'[l].fact => facts'[f] = facts[f]
Reads(l) ==
    /\ hand[l].at = "fact" /\ hand'[l].at = "held"
    /\ hand'[l].fact = hand[l].fact /\ hand'[l].met = hand[l].met /\ hand'[l].content = hand[l].content
    /\ hand'[l].lines = UpsertMemoryIndexLine(index, hand[l].fact, hand[l].content)
    /\ UNCHANGED <<facts, index, lone>>
Skips(l) ==
    /\ hand[l].at = "fact" /\ hand'[l].at = "run" /\ hand'[l].lines = {}
    /\ UpsertMemoryIndexLine(index, hand[l].fact, hand[l].content) = index
    /\ lone' = IF hand[l].met THEN lone ELSE lone \cup {hand[l].fact}
    /\ UNCHANGED <<facts, index>>
Empties(l) ==
    /\ hand[l].at = "held" /\ hand'[l].at = "emptied" /\ index' = {}
    /\ hand'[l].fact = hand[l].fact /\ hand'[l].met = hand[l].met /\ hand'[l].lines = hand[l].lines
    /\ hand'[l].content = hand[l].content
    /\ UNCHANGED <<facts, lone>>
Writes(l) ==
    /\ hand[l].at = "emptied" /\ hand'[l].at = "run" /\ hand'[l].lines = {}
    /\ index' = hand[l].lines /\ UNCHANGED facts
    /\ lone' = IF hand[l].met THEN lone \ {f \in Facts : Line(f, facts[f]) \notin hand[l].lines}
               ELSE lone \cup {hand[l].fact}
Learns(k) ==
    /\ hand'[k].at = hand[k].at /\ hand'[k].fact = hand[k].fact /\ hand'[k].lines = hand[k].lines
    /\ hand'[k].content = hand[k].content
    /\ hand'[k].met = (hand[k].met \/ Updating(k))
OthersStay(l) == \A k \in Lanes \ {l} : hand'[k] = hand[k]
OneMoves(l) ==
    \/ Turns(l) /\ OthersStay(l)
    \/ Begins(l) /\ \A k \in Lanes \ {l} : Learns(k)
    \/ (Reads(l) \/ Skips(l)) /\ OthersStay(l)
    \/ Empties(l) /\ OthersStay(l)
    \/ Writes(l) /\ OthersStay(l)
AllStop ==
    /\ \A l \in Lanes : hand'[l].at = "free" /\ hand'[l].lines = {} /\ ~hand'[l].met
    /\ lone' = IF \E l \in Lanes : hand[l].at = "emptied" THEN {} ELSE lone
    /\ UNCHANGED <<facts, index>>
NoneMoves == UNCHANGED <<hand, facts, index, lone>>
HandsMove == NoneMoves \/ AllStop \/ \E l \in Lanes : OneMoves(l)

LEMMA HandsAreMoved == WorkspaceTypeOK /\ [WorkspaceNext]_workspaceVars => HandsMove
<1> SUFFICES ASSUME WorkspaceTypeOK, [WorkspaceNext]_workspaceVars PROVE HandsMove
  OBVIOUS
<1>t. facts \in [Facts -> Contents] /\ hand \in [Lanes -> Hands] /\ index \subseteq Lines
  BY DEF WorkspaceTypeOK
<1>h. \A l \in Lanes : hand[l] \in Hands
  BY <1>t
<1>f. Free \in Hands /\ Free.at = "free" /\ Free.lines = {} /\ ~Free.met
  BY FreeIsAHand
<1> HIDE DEF Free
<1>0. CASE UNCHANGED workspaceVars
  BY <1>0 DEF workspaceVars, memoryVars, HandsMove, NoneMoves
<1>1. ASSUME NEW l \in Lanes, StartRun(l) \/ EndRun(l) PROVE OneMoves(l)
  BY <1>1, <1>t, <1>h DEF StartRun, EndRun, OneMoves, Turns, OthersStay, Hands, memoryVars
<1>2. ASSUME NEW l \in Lanes, EditPersona(l) PROVE NoneMoves
  BY <1>2 DEF EditPersona, NoneMoves, memoryVars
<1>3. ASSUME NEW l \in Lanes, NEW title \in Titles, NEW v \in 1..MaxVersions, UpsertMemory(l, title, v)
      PROVE  OneMoves(l)
  <2> DEFINE f == title.fact
             c == [spelling |-> title.spelling, version |-> v]
  <2>1. hand'[l] = [hand[l] EXCEPT !.at = "fact", !.fact = f, !.content = c, !.met = Met(l)]
    BY <1>3 DEF UpsertMemory, memorySlug
  <2>2. \A k \in Lanes \ {l} : hand'[k] = [hand[k] EXCEPT !.met = @ \/ Updating(k)]
    BY <1>3 DEF UpsertMemory
  <2>4. hand[l].at = "run" /\ facts' = [facts EXCEPT ![f] = c] /\ lone' = lone \ {f} /\ UNCHANGED index
    BY <1>3 DEF UpsertMemory, memorySlug
  <2>5. f \in Facts
    BY DEF Titles
  <2> HIDE DEF f, c
  <2>3. Begins(l)
    BY <2>1, <2>4, <2>5, <1>t, <1>h DEF Begins, Hands
  <2>6. \A k \in Lanes \ {l} : Learns(k)
    BY <2>2, <1>h DEF Learns, Hands
  <2> QED BY <2>3, <2>6 DEF OneMoves
<1>4. ASSUME NEW l \in Lanes, ReadIndex(l) PROVE OneMoves(l)
  <2> DEFINE lines == IndexWith(l)
  <2>1. hand' = [hand EXCEPT ![l].at = "held", ![l].lines = lines]
    BY <1>4 DEF ReadIndex
  <2>2. hand[l].at = "fact" /\ UNCHANGED <<facts, index, lone>>
    BY <1>4 DEF ReadIndex, memoryVars
  <2> HIDE DEF lines
  <2>3. /\ hand'[l].at = "held" /\ hand'[l].lines = lines
        /\ hand'[l].fact = hand[l].fact /\ hand'[l].met = hand[l].met
        /\ hand'[l].content = hand[l].content
    BY <2>1, <1>t, <1>h DEF Hands
  <2>4. OthersStay(l)
    BY <2>1, <1>t DEF OthersStay
  <2> QED BY <2>2, <2>3, <2>4 DEF OneMoves, Reads, lines, IndexWith
<1>5. ASSUME NEW l \in Lanes, EmptyIndex(l) PROVE OneMoves(l)
  BY <1>5, <1>t, <1>h DEF EmptyIndex, OneMoves, Empties, OthersStay, Hands
<1>6. ASSUME NEW l \in Lanes, WriteIndex(l) \/ KeepIndex(l) PROVE OneMoves(l)
  <2>1. hand' = [hand EXCEPT ![l] = [Free EXCEPT !.at = "run"]]
    BY <1>6 DEF WriteIndex, KeepIndex, Upserted
  <2>2. hand'[l].at = "run" /\ hand'[l].lines = {}
    BY <2>1, <1>t, <1>f DEF Hands
  <2>3. OthersStay(l)
    BY <2>1, <1>t DEF OthersStay
  <2>4. CASE WriteIndex(l)
    BY <2>4, <2>2, <2>3 DEF WriteIndex, OneMoves, Writes
  <2>5. CASE KeepIndex(l)
    BY <2>5, <2>2, <2>3 DEF KeepIndex, OneMoves, Skips, IndexWith
  <2> QED BY <1>6, <2>4, <2>5
<1>7. CASE Reflect \/ Decline \/ WritePersona \/ CommitPersona
  BY <1>7 DEF Reflect, Decline, WritePersona, CommitPersona, HandsMove, NoneMoves, memoryVars
<1>8. CASE PowerCut
  BY <1>8, <1>f DEF PowerCut, HandsMove, AllStop
<1> QED BY <1>0, <1>1, <1>2, <1>3, <1>4, <1>5, <1>6, <1>7, <1>8 DEF WorkspaceNext, HandsMove, Titles

LEMMA LinesStayLines ==
    ASSUME NEW X \in SUBSET Lines, NEW f \in Facts, NEW v \in Contents, OneLineEach(X)
    PROVE  /\ UpsertMemoryIndexLine(X, f, v) \subseteq Lines /\ OneLineEach(UpsertMemoryIndexLine(X, f, v))
           /\ Line(f, v) \in UpsertMemoryIndexLine(X, f, v)
           /\ \A g \in Facts, w \in Contents : g # f /\ Line(g, w) \in X => Line(g, w) \in UpsertMemoryIndexLine(X, f, v)
<1>1. Line(f, v) \in Lines /\ Line(f, v).fact = f
  BY DEF Line, Lines
<1>2. \A g \in Facts, w \in Contents : Line(g, w).fact = g
  BY DEF Line
<1> HIDE DEF Line
<1> QED BY <1>1, <1>2 DEF UpsertMemoryIndexLine, OneLineEach

LEMMA WorkspaceTypeKept ==
    WorkspaceTypeOK /\ LinesAreUnique /\ [WorkspaceNext]_workspaceVars => WorkspaceTypeOK'
<1> SUFFICES ASSUME WorkspaceTypeOK, LinesAreUnique, [WorkspaceNext]_workspaceVars PROVE WorkspaceTypeOK'
  OBVIOUS
<1>t. /\ facts \in [Facts -> Contents] /\ hand \in [Lanes -> Hands] /\ index \subseteq Lines /\ lone \subseteq Facts
      /\ reflection \in [at : {"none", "model", "written"}, update : Nat] /\ revisions \in Nat /\ powerCuts \in Nat
      /\ talked \subseteq Lanes /\ persona \in Nat /\ commits \subseteq Nat
      /\ gitEnabled \in BOOLEAN /\ repo \in BOOLEAN /\ recorded \in BOOLEAN
  BY DEF WorkspaceTypeOK
<1>h. \A l \in Lanes : /\ hand[l] \in Hands /\ hand[l].lines \subseteq Lines /\ hand[l].fact \in Facts
                        /\ hand[l].content \in Contents
  BY <1>t DEF Hands
<1>f. Free \in Hands /\ [Free EXCEPT !.at = "run"] \in Hands
  BY FreeIsAHand
<1>c. ASSUME NEW complete \in BOOLEAN, Commit(complete)
      PROVE  commits' \subseteq Nat /\ gitEnabled' \in BOOLEAN /\ repo' \in BOOLEAN /\ recorded' \in BOOLEAN
  BY <1>c, <1>t DEF Commit
<1> HIDE DEF Free
<1>0. CASE UNCHANGED workspaceVars
  BY <1>0, <1>t DEF workspaceVars, memoryVars, gitVars, WorkspaceTypeOK
<1>1. ASSUME NEW l \in Lanes, StartRun(l) \/ EndRun(l) PROVE WorkspaceTypeOK'
  <2>1. \A p \in {"run", "free"} : [hand[l] EXCEPT !.at = p] \in Hands
    BY <1>h DEF Hands
  <2>2. CASE StartRun(l)
    BY <2>1, <2>2, <1>t DEF StartRun, WorkspaceTypeOK, memoryVars, gitVars
  <2>3. CASE EndRun(l)
    <3>1. commits' \subseteq Nat /\ gitEnabled' \in BOOLEAN /\ repo' \in BOOLEAN /\ recorded' \in BOOLEAN
      BY <2>3, <1>c DEF EndRun
    <3> QED BY <2>1, <2>3, <3>1, <1>t DEF EndRun, WorkspaceTypeOK, memoryVars
  <2> QED BY <1>1, <2>2, <2>3
<1>2. ASSUME NEW l \in Lanes, EditPersona(l) PROVE WorkspaceTypeOK'
  BY <1>2, <1>t DEF EditPersona, WorkspaceTypeOK, memoryVars, gitVars
<1>3. ASSUME NEW l \in Lanes, NEW title \in Titles, NEW v \in 1..MaxVersions, UpsertMemory(l, title, v)
      PROVE  WorkspaceTypeOK'
  <2> DEFINE f == title.fact
             c == [spelling |-> title.spelling, version |-> v]
  <2>0. f \in Facts /\ c \in Contents
    BY WorkspaceAssumption DEF Titles, Contents
  <2>6. /\ facts' = [facts EXCEPT ![f] = c] /\ lone' = lone \ {f}
        /\ hand' = [k \in Lanes |->
              IF k = l THEN [hand[l] EXCEPT !.at = "fact", !.fact = f, !.content = c, !.met = Met(l)]
              ELSE [hand[k] EXCEPT !.met = @ \/ Updating(k)]]
        /\ UNCHANGED <<index, gitVars, persona, revisions, talked, reflection, powerCuts>>
    BY <1>3 DEF UpsertMemory, memorySlug
  <2> HIDE DEF f, c
  <2>1. Met(l) \in BOOLEAN /\ \A k \in Lanes : (hand[k].met \/ Updating(k)) \in BOOLEAN
    BY <1>h DEF Met, Updating, Hands
  <2>2. \A m \in BOOLEAN : [hand[l] EXCEPT !.at = "fact", !.fact = f, !.content = c, !.met = m] \in Hands
    BY <1>h, <2>0 DEF Hands
  <2>3. \A k \in Lanes, m \in BOOLEAN : [hand[k] EXCEPT !.met = m] \in Hands
    BY <1>h DEF Hands
  <2>4. hand' \in [Lanes -> Hands]
    BY <2>6, <2>1, <2>2, <2>3
  <2>5. facts' \in [Facts -> Contents]
    BY <2>0, <2>6, <1>t
  <2> QED BY <2>6, <1>t, <2>4, <2>5 DEF gitVars, WorkspaceTypeOK
<1>4. ASSUME NEW l \in Lanes, ReadIndex(l) PROVE WorkspaceTypeOK'
  <2> DEFINE lines == IndexWith(l)
  <2>1. lines \subseteq Lines
    BY <1>t, <1>h, LinesStayLines DEF LinesAreUnique, IndexWith
  <2>2. hand' = [hand EXCEPT ![l].at = "held", ![l].lines = lines]
    BY <1>4 DEF ReadIndex, memoryVars
  <2> HIDE DEF lines
  <2>3. [hand[l] EXCEPT !.at = "held", !.lines = lines] \in Hands
    BY <2>1, <1>h DEF Hands
  <2>4. hand' \in [Lanes -> Hands]
    BY <2>2, <2>3, <1>t
  <2> QED BY <1>4, <1>t, <2>4 DEF ReadIndex, WorkspaceTypeOK, memoryVars, gitVars
<1>5. ASSUME NEW l \in Lanes, EmptyIndex(l) PROVE WorkspaceTypeOK'
  <2>1. [hand[l] EXCEPT !.at = "emptied"] \in Hands
    BY <1>h DEF Hands
  <2> QED BY <1>5, <1>t, <2>1 DEF EmptyIndex, WorkspaceTypeOK, gitVars
<1>6. ASSUME NEW l \in Lanes, WriteIndex(l) \/ KeepIndex(l) PROVE WorkspaceTypeOK'
  <2>1. hand' \in [Lanes -> Hands]
    BY <1>6, <1>t, <1>f DEF WriteIndex, KeepIndex, Upserted
  <2> QED BY <1>6, <1>t, <1>h, <2>1 DEF WriteIndex, KeepIndex, WorkspaceTypeOK, gitVars
<1>7. CASE Reflect \/ Decline \/ WritePersona
  BY <1>7, <1>t DEF Reflect, Decline, WritePersona, WorkspaceTypeOK, memoryVars, gitVars
<1>9. CASE CommitPersona
  <2>1. commits' \subseteq Nat /\ gitEnabled' \in BOOLEAN /\ repo' \in BOOLEAN /\ recorded' \in BOOLEAN
    BY <1>9, <1>c DEF CommitPersona
  <2> QED BY <1>9, <2>1, <1>t DEF CommitPersona, WorkspaceTypeOK, memoryVars
<1>8. CASE PowerCut
  <2>1. commits' \subseteq Nat /\ gitEnabled' \in BOOLEAN /\ repo' \in BOOLEAN
    BY <1>8, <1>t DEF PowerCut, OpenWorkspace
  <2>2. recorded' \in BOOLEAN
    BY <1>8, <1>t DEF PowerCut
  <2>3. hand' \in [Lanes -> Hands] /\ lone' \subseteq Facts /\ powerCuts' \in Nat
        /\ reflection' \in [at : {"none", "model", "written"}, update : Nat]
    BY <1>8, <1>t, <1>f DEF PowerCut
  <2> QED BY <1>8, <2>1, <2>2, <2>3, <1>t DEF PowerCut, WorkspaceTypeOK
<1> QED BY <1>0, <1>1, <1>2, <1>3, <1>4, <1>5, <1>6, <1>7, <1>8, <1>9 DEF WorkspaceNext, Titles

LEMMA MetIsSeenKept == WorkspaceTypeOK /\ MetIsSeen /\ HandsMove => MetIsSeen'
BY DEF HandsMove, NoneMoves, AllStop, OneMoves, Turns, Begins, Reads, Skips, Empties, Writes, Learns,
      OthersStay,
       MetIsSeen, Updating, Met

LEMMA LinesAreUniqueKept == WorkspaceTypeOK /\ LinesAreUnique /\ HandsMove => LinesAreUnique'
<1> SUFFICES ASSUME WorkspaceTypeOK, LinesAreUnique, HandsMove PROVE LinesAreUnique'
  OBVIOUS
<1>1. OneLineEach({}) /\ OneLineEach(index) /\ \A l \in Lanes : OneLineEach(hand[l].lines)
  BY DEF LinesAreUnique, OneLineEach
<1>2. \A l \in Lanes : OneLineEach(UpsertMemoryIndexLine(index, hand[l].fact, hand[l].content))
  BY LinesStayLines, <1>1 DEF WorkspaceTypeOK, Hands
<1> SUFFICES OneLineEach(index') /\ \A l \in Lanes : OneLineEach(hand'[l].lines)
  BY DEF LinesAreUnique, OneLineEach
<1> HIDE DEF OneLineEach
<1> QED BY <1>1, <1>2 DEF HandsMove, NoneMoves, AllStop, OneMoves, Turns, Begins, Reads, Skips, Empties, Writes,
      Learns, OthersStay

LEMMA HeldIsWrittenKept == WorkspaceTypeOK /\ HeldIsWritten /\ HandsMove => HeldIsWritten'
<1> SUFFICES ASSUME WorkspaceTypeOK, HeldIsWritten, HandsMove,
                    NEW k \in Lanes, hand'[k].at \in {"fact", "held", "emptied"}, ~hand'[k].met
             PROVE  hand'[k].content = facts'[hand'[k].fact]
  BY DEF HeldIsWritten, Updating
<1>1. hand[k].at \in {"fact", "held", "emptied"} /\ ~hand[k].met => hand[k].content = facts[hand[k].fact]
  BY DEF HeldIsWritten, Updating
<1>2. CASE NoneMoves \/ AllStop
  BY <1>1, <1>2 DEF NoneMoves, AllStop
<1>3. ASSUME NEW l \in Lanes, OneMoves(l) PROVE hand'[k].content = facts'[hand'[k].fact]
  <2>1. CASE k = l
    BY <1>1, <1>3, <2>1 DEF OneMoves, Turns, Begins, Reads, Skips, Empties, Writes
  <2>2. CASE k # l /\ Begins(l)
    <3>1. Learns(k)
      BY <1>3, <2>2 DEF OneMoves, Turns, Begins, Reads, Skips, Empties, Writes
    <3> QED BY <3>1 DEF Learns, Updating
  <2>3. CASE k # l /\ ~Begins(l)
    <3>1. hand'[k] = hand[k] /\ UNCHANGED facts
      BY <1>3, <2>3 DEF OneMoves, OthersStay, Turns, Reads, Skips, Empties, Writes
    <3> QED BY <3>1, <1>1
  <2> QED BY <2>1, <2>2, <2>3
<1> QED BY <1>2, <1>3 DEF HandsMove

(* An update that no other has met leaves its fact as it is written.        *)
LEMMA OwnLine ==
    ASSUME WorkspaceInv, NEW k \in Lanes, Updating(k), ~hand[k].met
    PROVE  /\ hand[k].content = facts[hand[k].fact] /\ hand[k].fact \in Facts
           /\ Line(hand[k].fact, facts[hand[k].fact])
                \in UpsertMemoryIndexLine(index, hand[k].fact, hand[k].content)
<1>1. hand[k].content = facts[hand[k].fact]
  BY DEF WorkspaceInv, HeldIsWritten
<1>2. hand[k].fact \in Facts /\ hand[k].content \in Contents /\ index \in SUBSET Lines /\ OneLineEach(index)
  BY DEF WorkspaceInv, WorkspaceTypeOK, Hands, LinesAreUnique
<1> QED BY <1>1, <1>2, LinesStayLines

LEMMA LoneIsIndexedKept == WorkspaceInv /\ WorkspaceTypeOK' /\ HandsMove => LoneIsIndexed'
<1> SUFFICES ASSUME WorkspaceInv, WorkspaceTypeOK', HandsMove,
                    \A l \in Lanes : hand'[l].at # "emptied", NEW f \in lone' PROVE Line(f, facts[f])' \in index'
  BY DEF LoneIsIndexed
<1>1. f \in Facts /\ (f \in lone /\ (\A l \in Lanes : hand[l].at # "emptied") => Line(f, facts[f]) \in index)
  BY DEF WorkspaceInv, WorkspaceTypeOK, LoneIsIndexed
<1>2. CASE NoneMoves \/ AllStop
  BY <1>1, <1>2 DEF NoneMoves, AllStop, Line
<1>3. ASSUME NEW l \in Lanes, OneMoves(l) PROVE Line(f, facts[f])' \in index'
  <2>1. CASE Turns(l) \/ Reads(l) \/ Empties(l)
    BY <1>1, <1>3, <2>1 DEF OneMoves, Turns, Begins, Reads, Skips, Empties, Writes, OthersStay, Line
  <2>2. CASE Begins(l)
    BY <1>1, <1>3, <2>2 DEF OneMoves, Turns, Begins, Reads, Skips, Empties, Writes, Learns, Line
  <2>3. CASE Writes(l)
    BY <1>1, <2>3 DEF Writes, Line, WorkspaceInv, LoneIsHeld
  <2>4. CASE Skips(l)
    <3>1. \A k \in Lanes : hand[k].at # "emptied"
      BY <1>3, <2>4 DEF OneMoves, Turns, Begins, Reads, Skips, Empties, Writes, OthersStay
    <3>2. UNCHANGED <<facts, index>>
      BY <2>4 DEF Skips
    <3>3. CASE f \in lone
      BY <1>1, <3>1, <3>2, <3>3 DEF Line
    <3>4. CASE f \notin lone
      <4>1. f = hand[l].fact /\ ~hand[l].met /\ Updating(l)
        BY <2>4, <3>4 DEF Skips, Updating
      <4>2. Line(f, facts[f]) \in index
        BY <4>1, <2>4, OwnLine DEF Skips
      <4> QED BY <3>2, <4>2 DEF Line
    <3> QED BY <3>3, <3>4
  <2> QED BY <1>3, <2>1, <2>2, <2>3, <2>4 DEF OneMoves
<1> QED BY <1>2, <1>3 DEF HandsMove

LEMMA LoneIsHeldKept == WorkspaceInv /\ WorkspaceTypeOK' /\ HandsMove => LoneIsHeld'
<1> SUFFICES ASSUME WorkspaceInv, WorkspaceTypeOK', HandsMove,
                    NEW k \in Lanes, hand'[k].at \in {"held", "emptied"}, ~hand'[k].met,
                    NEW f \in lone' \cup {hand'[k].fact}
             PROVE  Line(f, facts'[f]) \in hand'[k].lines
  BY DEF LoneIsHeld, Line
<1>1. f \in Facts /\ \A l \in Lanes : hand[l].fact \in Facts /\ hand[l].content \in Contents
  BY DEF WorkspaceInv, WorkspaceTypeOK, Hands
<1>2. hand[k].at \in {"held", "emptied"} /\ ~hand[k].met /\ f \in lone \cup {hand[k].fact}
        => Line(f, facts[f]) \in hand[k].lines
  BY DEF WorkspaceInv, LoneIsHeld
<1>3. CASE NoneMoves \/ AllStop
  BY <1>2, <1>3 DEF NoneMoves, AllStop
<1>4. ASSUME NEW l \in Lanes, OneMoves(l) PROVE Line(f, facts'[f]) \in hand'[k].lines
  <2>1. CASE Turns(l)
    BY <1>2, <1>4, <2>1 DEF OneMoves, Turns, Begins, Reads, Skips, Empties, Writes, OthersStay
  <2>2. CASE Begins(l)
    <3>1. k # l
      BY <2>2 DEF Begins
    <3>2. hand'[k].met = (hand[k].met \/ Updating(k)) /\ hand'[k].at = hand[k].at
      BY <1>4, <2>2, <3>1 DEF OneMoves, Turns, Begins, Reads, Skips, Empties, Writes, Learns
    <3>3. Updating(k)
      BY <3>2 DEF Updating
    <3> QED BY <3>2, <3>3
  <2>3. CASE Reads(l) /\ k = l
    <3>1. Updating(k) /\ ~hand[k].met
      BY <2>3 DEF Reads, Updating
    <3>2. \A j \in Lanes : hand[j].at # "emptied"
      BY <3>1, <2>3 DEF WorkspaceInv, MetIsSeen, Updating, Reads
    <3>3. f \in lone => Line(f, facts[f]) \in index
      BY <3>2 DEF WorkspaceInv, LoneIsIndexed
    <3>4. facts[f] \in Contents /\ index \in SUBSET Lines /\ OneLineEach(index)
      BY <1>1 DEF WorkspaceInv, WorkspaceTypeOK, LinesAreUnique
    <3>5. f \in lone \cup {hand[k].fact}
      BY <2>3 DEF Reads
    <3>6. CASE f = hand[k].fact
      BY <3>1, <3>6, <2>3, OwnLine DEF Reads
    <3>7. CASE f # hand[k].fact
      <4>1. Line(f, facts[f]) \in UpsertMemoryIndexLine(index, hand[k].fact, hand[k].content)
        BY <3>3, <3>4, <3>5, <3>7, <1>1, LinesStayLines
      <4> QED BY <4>1, <2>3 DEF Reads
    <3> QED BY <3>6, <3>7
  <2>4. CASE Reads(l) /\ k # l
    BY <1>2, <1>4, <2>4 DEF OneMoves, Turns, Begins, Reads, Skips, Empties, Writes, OthersStay
  <2>5. CASE Empties(l)
    BY <1>2, <1>4, <2>5 DEF OneMoves, Turns, Begins, Reads, Skips, Empties, Writes, OthersStay
  <2>6. CASE Writes(l) (* then k has met it *)
    <3>1. k # l /\ hand'[k] = hand[k] /\ Updating(k) /\ Updating(l)
      BY <1>4, <2>6 DEF OneMoves, Turns, Begins, Reads, Skips, Empties, Writes, OthersStay, Updating
    <3> QED BY <3>1 DEF WorkspaceInv, MetIsSeen
  <2>7. CASE Skips(l) (* and so has it here, or l would be the only one *)
    <3>1. k # l /\ hand'[k] = hand[k] /\ Updating(k) /\ Updating(l)
      BY <1>4, <2>7 DEF OneMoves, Turns, Begins, Reads, Skips, Empties, Writes, OthersStay, Updating
    <3> QED BY <3>1 DEF WorkspaceInv, MetIsSeen
  <2> QED BY <1>4, <2>1, <2>2, <2>3, <2>4, <2>5, <2>6, <2>7 DEF OneMoves
<1> QED BY <1>3, <1>4 DEF HandsMove

LEMMA PersonaIsRecoverableKept ==
    WorkspaceTypeOK /\ PersonaIsRecoverable /\ [WorkspaceNext]_workspaceVars => PersonaIsRecoverable'
<1> SUFFICES ASSUME WorkspaceTypeOK, PersonaIsRecoverable, [WorkspaceNext]_workspaceVars
             PROVE  PersonaIsRecoverable'
  OBVIOUS
<1>t. hand \in [Lanes -> Hands]
  BY DEF WorkspaceTypeOK
<1>h. \A l \in Lanes : hand[l] \in Hands
  BY <1>t
<1>c. ASSUME NEW complete \in BOOLEAN, Commit(complete), UNCHANGED persona PROVE PersonaIsRecoverable'
  BY <1>c DEF Commit, PersonaIsRecoverable
<1>b. ASSUME NEW l \in Lanes, hand'[l].at # "free" PROVE PersonaIsRecoverable'
  BY <1>b DEF PersonaIsRecoverable, AllFree
<1>0. CASE UNCHANGED workspaceVars
  BY <1>0 DEF workspaceVars, gitVars, PersonaIsRecoverable, AllFree
<1>1. ASSUME NEW l \in Lanes, StartRun(l) PROVE PersonaIsRecoverable'
  BY <1>1, <1>t, <1>h, <1>b DEF StartRun, Hands
<1>2. ASSUME NEW l \in Lanes, EndRun(l) PROVE PersonaIsRecoverable'
  BY <1>2, <1>c DEF EndRun
<1>3. ASSUME NEW l \in Lanes, EditPersona(l) PROVE PersonaIsRecoverable'
  BY <1>3, <1>b DEF EditPersona
<1>4. ASSUME NEW l \in Lanes, NEW title \in Titles, NEW v \in 1..MaxVersions, UpsertMemory(l, title, v)
      PROVE  PersonaIsRecoverable'
  <2>1. hand'[l].at = "fact"
    BY <1>4, <1>h DEF UpsertMemory, Hands
  <2> QED BY <2>1, <1>b
<1>5. ASSUME NEW l \in Lanes, ReadIndex(l) \/ EmptyIndex(l) PROVE PersonaIsRecoverable'
  <2>1. hand'[l].at # "free"
    BY <1>5, <1>t, <1>h DEF ReadIndex, EmptyIndex, Hands
  <2> QED BY <2>1, <1>b
<1>6. ASSUME NEW l \in Lanes, WriteIndex(l) \/ KeepIndex(l) PROVE PersonaIsRecoverable'
  <2>1. hand'[l].at = "run"
    BY <1>6, <1>t, FreeIsAHand DEF WriteIndex, KeepIndex, Upserted, Hands
  <2> QED BY <2>1, <1>b
<1>7. CASE Reflect \/ Decline
  <2>1. UNCHANGED <<commits, recorded, persona, hand>> /\ reflection.at # "written"
    BY <1>7 DEF Reflect, Decline, gitVars
  <2> QED BY <2>1 DEF PersonaIsRecoverable, AllFree
<1>8. CASE WritePersona
  BY <1>8 DEF WritePersona, PersonaIsRecoverable
<1>9. CASE CommitPersona
  BY <1>9, <1>c DEF CommitPersona
<1>10. CASE PowerCut
  <2>1. PICK found \in BOOLEAN :
           /\ commits' = OpenWorkspace(found, repo, commits).commits
           /\ recorded' = ((found /\ ~repo) \/ (recorded /\ AllFree /\ reflection.at # "written"))
    BY <1>10 DEF PowerCut
  <2>2. commits' = IF found /\ ~repo THEN commits \cup {persona} ELSE commits
    BY <2>1 DEF OpenWorkspace
  <2>3. UNCHANGED persona
    BY <1>10 DEF PowerCut
  <2> QED BY <2>1, <2>2, <2>3 DEF PersonaIsRecoverable
<1> QED BY <1>0, <1>1, <1>2, <1>3, <1>4, <1>5, <1>6, <1>7, <1>8, <1>9, <1>10 DEF WorkspaceNext, Titles

LEMMA WorkspaceKept == WorkspaceInv /\ [WorkspaceNext]_workspaceVars => WorkspaceInv'
<1> SUFFICES ASSUME WorkspaceInv, [WorkspaceNext]_workspaceVars PROVE WorkspaceInv'
  OBVIOUS
<1>1. HandsMove
  BY HandsAreMoved DEF WorkspaceInv
<1>2. WorkspaceTypeOK'
  BY WorkspaceTypeKept DEF WorkspaceInv
<1>3. MetIsSeen' /\ LinesAreUnique' /\ HeldIsWritten'
  BY <1>1, MetIsSeenKept, LinesAreUniqueKept, HeldIsWrittenKept DEF WorkspaceInv
<1>4. LoneIsIndexed' /\ LoneIsHeld'
  BY <1>1, <1>2, LoneIsIndexedKept, LoneIsHeldKept
<1>5. PersonaIsRecoverable'
  BY PersonaIsRecoverableKept DEF WorkspaceInv
<1> QED BY <1>2, <1>3, <1>4, <1>5 DEF WorkspaceInv

(* Every variable of the workspace keeps its shape.                         *)
THEOREM WorkspaceTypeCorrect == WorkspaceSpec => []WorkspaceTypeOK
<1>1. WorkspaceInv => WorkspaceTypeOK
  BY DEF WorkspaceInv
<1> QED BY WorkspaceInitial, WorkspaceKept, <1>1, PTL DEF WorkspaceSpec

(* A fact whose upsert overlapped no other, and that no later overlapping   *)
(* one has dropped, has its current line in MEMORY.md and no other          *)
(* (workspace.go:144-179).  And while nothing is under way, and the last    *)
(* commit was made (the commits are best effort, git.go:59-94) with nothing *)
(* cut short since, the persona is in a commit (workspace.go:71-74).        *)
THEOREM WorkspaceFilesAreKept == WorkspaceSpec => []FilesAreKept
<1>1. WorkspaceInv => FilesAreKept
  <2> SUFFICES ASSUME WorkspaceInv, AtRest, NEW f \in lone
               PROVE  {line \in index : line.fact = f} = {Line(f, facts[f])}
    BY DEF FilesAreKept, LoneUpsertIsIndexed, WorkspaceInv
  <2>1. Line(f, facts[f]) \in index
    BY DEF WorkspaceInv, LoneIsIndexed, AtRest, Updating
  <2>2. Line(f, facts[f]).fact = f
    BY DEF Line
  <2> QED BY <2>1, <2>2 DEF WorkspaceInv, LinesAreUnique, OneLineEach
<1> QED BY WorkspaceInitial, WorkspaceKept, <1>1, PTL DEF WorkspaceSpec

-----------------------------------------------------------------------------
(* Ann's session: memory is the tail of the log.                            *)

(* What a message, the disk, the session and the compaction are made of     *)
(* when n messages have been made.                                          *)
MessagesTo(n) == [id : 1..n, ai : BOOLEAN]
DisksTo(n) == [log : Seq(MessagesTo(n)), checkpoint : Nat, summarised : SUBSET (1..n)]
SessionsTo(n) == [loaded : BOOLEAN, messages : Seq(MessagesTo(n)), judged : Nat]
CompactorsTo(n) == [pc : {"idle", "asked", "summary", "checkpoint"}, index : Nat,
                    folded : SUBSET (1..n), spawned : Nat]
AnnRecords ==
    /\ made \in Nat /\ writeFaults \in Nat
    /\ annDisk \in DisksTo(made) /\ session \in SessionsTo(made) /\ compactor \in CompactorsTo(made)

(* No index is held between compactions; without a session none runs and    *)
(* there are no messages.                                                   *)
FoldsAreHeld == /\ compactor.pc = "idle" => compactor.index = 0
                /\ ~session.loaded => compactor.pc = "idle" /\ session.messages = <<>>

(* While writes succeed: the lines ahead of the checkpoint, and while it is *)
(* being moved those it will pass, are in a stored summary; what is being   *)
(* folded is the head of the rest; and memory is the rest, without the head *)
(* once the summary is there.                                               *)
Passed == annDisk.checkpoint + (IF compactor.pc = "checkpoint" THEN compactor.index ELSE 0)
Dropped == annDisk.checkpoint + (IF Unlocked THEN 0 ELSE compactor.index)
PassedAreSummarised == \A i \in 1..Passed : annDisk.log[i].id \in annDisk.summarised
FoldIsHead ==
    /\ annDisk.checkpoint + compactor.index <= Len(annDisk.log)
    /\ \A i \in 1..compactor.index : annDisk.log[annDisk.checkpoint + i].id \in compactor.folded
MemoryIsTail == session.loaded => session.messages = SubSeq(annDisk.log, Dropped + 1, Len(annDisk.log))
Intact == PassedAreSummarised /\ FoldIsHead /\ MemoryIsTail

AnnInv == AnnRecords /\ FoldsAreHeld /\ (writeFaults = 0 => Intact)

(* The tail of a sequence, of a longer one, and of a tail.                  *)
LEMMA TailOf ==
    ASSUME NEW S, NEW s \in Seq(S), NEW k \in Nat, k <= Len(s)
    PROVE  /\ SubSeq(s, k + 1, Len(s)) \in Seq(S)
           /\ Len(SubSeq(s, k + 1, Len(s))) = Len(s) - k
           /\ \A i \in 1..(Len(s) - k) : SubSeq(s, k + 1, Len(s))[i] = s[k + i]
<1>1. Len(s) \in Nat /\ k + 1 \in Int /\ Len(s) \in Int /\ Len(s) - (k + 1) + 1 = Len(s) - k
  BY LenProperties
<1>2. \A i \in (k + 1)..Len(s) : s[i] \in S
  BY <1>1, ElementOfSeq
<1>3. /\ SubSeq(s, k + 1, Len(s)) \in Seq(S)
      /\ Len(SubSeq(s, k + 1, Len(s))) = (IF k + 1 <= Len(s) THEN Len(s) - (k + 1) + 1 ELSE 0)
      /\ \A i \in 1..(Len(s) - (k + 1) + 1) : SubSeq(s, k + 1, Len(s))[i] = s[(k + 1) + i - 1]
  BY <1>1, <1>2, SubSeqProperties
<1>4. Len(SubSeq(s, k + 1, Len(s))) = Len(s) - k
  <2> DEFINE n == Len(s)
             length == Len(SubSeq(s, k + 1, n))
  <2>1. length = (IF k + 1 <= n THEN n - (k + 1) + 1 ELSE 0) /\ n \in Nat /\ k <= n
    BY <1>1, <1>3
  <2> HIDE DEF n, length
  <2>2. length = n - k
    BY <2>1
  <2> QED BY <2>2 DEF n, length
<1>5. ASSUME NEW i \in 1..(Len(s) - k) PROVE SubSeq(s, k + 1, Len(s))[i] = s[k + i]
  <2>1. (k + 1) + i - 1 = k + i /\ i \in 1..(Len(s) - (k + 1) + 1)
    BY <1>1
  <2>2. SubSeq(s, k + 1, Len(s))[i] = s[(k + 1) + i - 1]
    BY <1>3, <2>1
  <2> QED BY <2>1, <2>2
<1> QED BY <1>3, <1>4, <1>5

LEMMA TailOfAppend ==
    ASSUME NEW S, NEW s \in Seq(S), NEW m \in S, NEW k \in Nat, k <= Len(s)
    PROVE  SubSeq(Append(s, m), k + 1, Len(Append(s, m))) = Append(SubSeq(s, k + 1, Len(s)), m)
<1> DEFINE long == Append(s, m)
           old == SubSeq(s, k + 1, Len(s))
           new == SubSeq(long, k + 1, Len(long))
<1>1. /\ long \in Seq(S) /\ Len(long) = Len(s) + 1 /\ Len(s) \in Nat /\ k <= Len(long)
      /\ (\A i \in 1..Len(s) : long[i] = s[i]) /\ long[Len(s) + 1] = m
  BY AppendProperties, LenProperties
<1>2. old \in Seq(S) /\ Len(old) = Len(s) - k /\ \A i \in 1..(Len(s) - k) : old[i] = s[k + i]
  BY TailOf
<1> HIDE DEF long
<1>3. new \in Seq(S) /\ Len(new) = Len(long) - k /\ \A i \in 1..(Len(long) - k) : new[i] = long[k + i]
  BY <1>1, TailOf
<1> HIDE DEF old, new
<1>4. /\ Append(old, m) \in Seq(S) /\ Len(Append(old, m)) = Len(old) + 1
      /\ (\A i \in 1..Len(old) : Append(old, m)[i] = old[i]) /\ Append(old, m)[Len(old) + 1] = m
  BY <1>2, AppendProperties
<1>5. ASSUME NEW i \in 1..Len(new) PROVE new[i] = Append(old, m)[i]
  <2>1. CASE i = Len(s) - k + 1
    BY <1>1, <1>2, <1>3, <1>4, <2>1
  <2>2. CASE i # Len(s) - k + 1
    BY <1>1, <1>2, <1>3, <1>4, <2>2
  <2> QED BY <2>1, <2>2
<1>6. Len(new) = Len(Append(old, m)) /\ Append(old, m) \in Seq(S) /\ new \in Seq(S)
  BY <1>1, <1>2, <1>3, <1>4
<1> DEFINE joined == Append(old, m)
<1>7. \A i \in 1..Len(new) : new[i] = joined[i]
  BY <1>5
<1>8. new = joined
  <2> HIDE DEF joined
  <2> QED BY <1>6, <1>7, SeqEqual DEF joined
<1> QED BY <1>8 DEF new, old, long

LEMMA TailOfTail ==
    ASSUME NEW S, NEW s \in Seq(S), NEW k \in Nat, NEW n \in Nat, k + n <= Len(s)
    PROVE  LET t == SubSeq(s, k + 1, Len(s))
           IN  SubSeq(t, n + 1, Len(t)) = SubSeq(s, k + n + 1, Len(s))
<1> DEFINE t == SubSeq(s, k + 1, Len(s))
           u == SubSeq(t, n + 1, Len(t))
           v == SubSeq(s, k + n + 1, Len(s))
<1>1. Len(s) \in Nat /\ k <= Len(s) /\ k + n \in Nat
  BY LenProperties
<1>2. t \in Seq(S) /\ Len(t) = Len(s) - k /\ \A i \in 1..(Len(s) - k) : t[i] = s[k + i]
  BY <1>1, TailOf
<1>3. v \in Seq(S) /\ Len(v) = Len(s) - (k + n) /\ \A i \in 1..(Len(s) - (k + n)) : v[i] = s[(k + n) + i]
  BY <1>1, TailOf
<1> HIDE DEF t
<1>4. n <= Len(t)
  BY <1>1, <1>2
<1>5. u \in Seq(S) /\ Len(u) = Len(t) - n /\ \A i \in 1..(Len(t) - n) : u[i] = t[n + i]
  BY <1>2, <1>4, TailOf
<1> HIDE DEF u, v
<1>6. Len(u) = Len(v) /\ \A i \in 1..Len(u) : u[i] = v[i]
  BY <1>1, <1>2, <1>3, <1>5
<1>7. u = v
  BY <1>3, <1>5, <1>6, SeqEqual
<1> QED BY <1>7 DEF t, u, v

LEMMA AnnInitial == AnnInit => AnnInv
<1> SUFFICES ASSUME AnnInit PROVE AnnInv
  OBVIOUS
<1>1. <<>> \in Seq(MessagesTo(0)) /\ Len(<<>>) = 0
  OBVIOUS
<1>2. AnnRecords
  BY <1>1 DEF AnnInit, AnnRecords, DisksTo, SessionsTo, CompactorsTo, Unloaded, NoFold
<1>3. FoldsAreHeld
  BY DEF AnnInit, FoldsAreHeld, Unloaded, NoFold
<1>4. Intact
  BY <1>1 DEF AnnInit, Intact, PassedAreSummarised, Passed, FoldIsHead, MemoryIsTail, Unloaded, NoFold
<1> QED BY <1>2, <1>3, <1>4 DEF AnnInv

(* Steps that leave log, memory and fold alone.                             *)
Rests == /\ UNCHANGED <<annDisk, made, writeFaults>>
         /\ session' \in [loaded : {session.loaded}, messages : {session.messages}, judged : Nat]
         /\ compactor' \in [pc : {compactor.pc}, index : {compactor.index}, folded : {compactor.folded},
                            spawned : Nat]

LEMMA RestingSteps ==
    ASSUME AnnInv, NEW p \in Repliers
    PROVE  /\ ClaimProactiveReply(p) \/ Judged(p) \/ ChatReturns(p) \/ SendReply(p) => Rests
           /\ NothingToCompact \/ UNCHANGED annVars => Rests
<1> USE DEF AnnInv, AnnRecords, SessionsTo, CompactorsTo, Rests
<1>1. session' = session /\ compactor' = compactor /\ UNCHANGED <<annDisk, made, writeFaults>> => Rests
  OBVIOUS
<1>2. Judged(p) \/ ChatReturns(p) \/ SendReply(p) => Rests
  BY <1>1 DEF Judged, ChatReturns, SendReply
<1>3. ClaimProactiveReply(p) => Rests
  BY DEF ClaimProactiveReply
<1>4. NothingToCompact => Rests
  BY DEF NothingToCompact
<1>5. UNCHANGED annVars => Rests
  BY <1>1 DEF annVars
<1> QED BY <1>2, <1>3, <1>4, <1>5

LEMMA RestsKeeps == AnnInv /\ Rests => AnnInv'
<1> SUFFICES ASSUME AnnInv, Rests PROVE AnnInv'
  OBVIOUS
<1>1. /\ session'.loaded = session.loaded /\ session'.messages = session.messages
      /\ compactor'.pc = compactor.pc /\ compactor'.index = compactor.index
      /\ compactor'.folded = compactor.folded /\ UNCHANGED <<annDisk, made, writeFaults>>
  BY DEF Rests
<1>2. session' \in SessionsTo(made) /\ compactor' \in CompactorsTo(made)
  BY DEF Rests, AnnInv, AnnRecords, SessionsTo, CompactorsTo
<1>3. AnnRecords'
  BY <1>1, <1>2 DEF AnnInv, AnnRecords
<1>4. FoldsAreHeld'
  BY <1>1 DEF AnnInv, FoldsAreHeld
<1>5. Intact => Intact'
  BY <1>1 DEF Intact, PassedAreSummarised, Passed, FoldIsHead, MemoryIsTail, Dropped, Unlocked
<1> QED BY <1>1, <1>3, <1>4, <1>5 DEF AnnInv

LEMMA GetSessionKeeps == AnnInv /\ GetSession => AnnInv'
<1> SUFFICES ASSUME AnnInv, GetSession PROVE AnnInv'
  OBVIOUS
<1> DEFINE log == annDisk.log
           cp == annDisk.checkpoint
           tail == SubSeq(log, cp + 1, Len(log))
<1>1. /\ UNCHANGED <<annDisk, compactor, made, writeFaults>> /\ session'.loaded
      /\ session'.messages = tail /\ session' = [loaded |-> TRUE, messages |-> tail, judged |-> 0]
      /\ compactor.pc = "idle"
  BY DEF GetSession, Unloaded, AnnInv, FoldsAreHeld
<1>2. log \in Seq(MessagesTo(made)) /\ cp \in Nat /\ Len(log) \in Nat
  BY LenProperties DEF AnnInv, AnnRecords, DisksTo
<1>3. tail \in Seq(MessagesTo(made))
  <2>1. CASE cp <= Len(log)
    BY <1>2, <2>1, TailOf
  <2>2. CASE cp > Len(log)
    BY <1>2, <2>2, SubSeqEmpty
  <2> QED BY <1>2, <2>1, <2>2
<1> HIDE DEF tail
<1>4. AnnRecords'
  BY <1>1, <1>3 DEF AnnInv, AnnRecords, SessionsTo
<1>5. FoldsAreHeld'
  BY <1>1 DEF AnnInv, FoldsAreHeld
<1>6. ASSUME Intact PROVE Intact'
  <2>1. MemoryIsTail'
    BY <1>1, <1>2 DEF MemoryIsTail, Dropped, Unlocked, tail
  <2> QED BY <1>1, <1>6, <2>1 DEF Intact, PassedAreSummarised, Passed, FoldIsHead
<1> QED BY <1>1, <1>4, <1>5, <1>6 DEF AnnInv

(* A new message is the newest of memory and, if it is written, of the log. *)
LEMMA AddMessageKeeps == ASSUME AnnInv, NEW ai \in BOOLEAN, AddMessage(ai) PROVE AnnInv'
<1> DEFINE m == [id |-> made + 1, ai |-> ai]
           log == annDisk.log
           cp == annDisk.checkpoint
<1>1. /\ made \in Nat /\ made' = made + 1 /\ writeFaults \in Nat /\ session.loaded /\ Unlocked
      /\ annDisk \in DisksTo(made) /\ session \in SessionsTo(made) /\ compactor \in CompactorsTo(made)
  BY DEF AnnInv, AnnRecords, AddMessage
<1>2. session' = [session EXCEPT !.messages = Append(session.messages, m)]
  BY DEF AddMessage
<1>3. compactor' \in [pc : {compactor.pc}, index : {compactor.index}, folded : {compactor.folded},
                      spawned : Nat]
  BY <1>1 DEF AddMessage, CompactorsTo
<1>4. \/ annDisk' = [annDisk EXCEPT !.log = Append(log, m)] /\ writeFaults' = writeFaults
      \/ annDisk' = annDisk /\ writeFaults' = writeFaults + 1
  BY DEF AddMessage, WriteFails
<1>5. m \in MessagesTo(made + 1) /\ MessagesTo(made) \subseteq MessagesTo(made + 1)
      /\ 1..made \subseteq 1..(made + 1) /\ made + 1 \in Nat
  BY <1>1 DEF MessagesTo
<1> HIDE DEF m
<1>6. log \in Seq(MessagesTo(made)) /\ session.messages \in Seq(MessagesTo(made))
  BY <1>1 DEF DisksTo, SessionsTo
<1>7. log \in Seq(MessagesTo(made + 1)) /\ session.messages \in Seq(MessagesTo(made + 1))
  BY <1>5, <1>6, SeqMonotonic
<1>8. Append(log, m) \in Seq(MessagesTo(made + 1)) /\ Append(session.messages, m) \in Seq(MessagesTo(made + 1))
  BY <1>5, <1>7, AppendProperties
<1>9. AnnRecords'
  <2>1. annDisk' \in DisksTo(made + 1)
    BY <1>1, <1>4, <1>5, <1>7, <1>8 DEF DisksTo
  <2>2. session' \in SessionsTo(made + 1)
    BY <1>1, <1>2, <1>8 DEF SessionsTo
  <2>3. compactor' \in CompactorsTo(made + 1)
    BY <1>1, <1>3, <1>5 DEF CompactorsTo
  <2> QED BY <1>1, <1>4, <1>5, <2>1, <2>2, <2>3 DEF AnnRecords
<1>10. /\ session'.loaded = session.loaded /\ session'.messages = Append(session.messages, m)
       /\ compactor'.pc = compactor.pc /\ compactor'.index = compactor.index /\ compactor'.folded = compactor.folded
  BY <1>1, <1>2, <1>3 DEF SessionsTo
<1>11. FoldsAreHeld'
  BY <1>1, <1>10 DEF AnnInv, FoldsAreHeld
<1>12. ASSUME writeFaults' = 0 PROVE Intact'
  <2>1. writeFaults = 0 /\ Intact /\ annDisk' = [annDisk EXCEPT !.log = Append(log, m)]
    BY <1>1, <1>4, <1>12 DEF AnnInv
  <2>2. annDisk'.log = Append(log, m) /\ annDisk'.checkpoint = cp /\ annDisk'.summarised = annDisk.summarised
        /\ cp \in Nat /\ compactor.index \in Nat
    BY <1>1, <2>1 DEF DisksTo, CompactorsTo
  <2>3. Len(log) \in Nat /\ Len(Append(log, m)) = Len(log) + 1 /\ \A i \in 1..Len(log) : Append(log, m)[i] = log[i]
    BY <1>5, <1>7, AppendProperties, LenProperties
  <2>4. cp + compactor.index <= Len(log)
    BY <2>1 DEF Intact, FoldIsHead
  <2>5. PassedAreSummarised'
    <3>1. Passed' = Passed /\ Passed \in Nat /\ Passed <= Len(log)
      BY <1>10, <2>2, <2>3, <2>4 DEF Passed
    <3> QED BY <2>1, <2>2, <2>3, <3>1 DEF Intact, PassedAreSummarised
  <2>6. FoldIsHead'
    BY <1>10, <2>1, <2>2, <2>3, <2>4 DEF Intact, FoldIsHead
  <2>7. MemoryIsTail'
    <3>1. Unlocked' /\ Dropped = cp + 0 /\ Dropped' = cp + 0
      BY <1>1, <1>10, <2>2 DEF Unlocked, Dropped
    <3>2. session.messages = SubSeq(log, cp + 1, Len(log))
      BY <1>1, <2>1, <2>2, <3>1 DEF Intact, MemoryIsTail
    <3>3. cp <= Len(log)
      BY <2>2, <2>3, <2>4
    <3>4. SubSeq(Append(log, m), cp + 1, Len(Append(log, m))) = Append(SubSeq(log, cp + 1, Len(log)), m)
      <4> HIDE DEF log, cp
      <4> QED BY <1>5, <1>7, <2>2, <3>3, TailOfAppend
    <3>5. Dropped' + 1 = cp + 1
      BY <2>2, <3>1
    <3>6. session'.messages = SubSeq(annDisk'.log, cp + 1, Len(annDisk'.log))
      BY <1>10, <2>2, <3>2, <3>4
    <3> QED BY <3>5, <3>6 DEF MemoryIsTail
  <2> QED BY <2>5, <2>6, <2>7 DEF Intact
<1> QED BY <1>9, <1>11, <1>12 DEF AnnInv

(* The compaction takes its index and its text of all but two messages.     *)
LEMMA BeginCompactionKeeps == AnnInv /\ BeginCompaction => AnnInv'
<1> SUFFICES ASSUME AnnInv, BeginCompaction PROVE AnnInv'
  OBVIOUS
<1> DEFINE log == annDisk.log
           cp == annDisk.checkpoint
           kept == session.messages
           n == Len(kept) - 2
           fold == {k.id : k \in Ids(SubSeq(kept, 1, n))}
<1>1. /\ made \in Nat /\ log \in Seq(MessagesTo(made)) /\ cp \in Nat /\ kept \in Seq(MessagesTo(made))
      /\ compactor.spawned \in Nat
  BY DEF AnnInv, AnnRecords, DisksTo, SessionsTo, CompactorsTo
<1>2. /\ UNCHANGED <<annDisk, session, made, writeFaults>> /\ compactor.pc = "idle"
      /\ compactor' = [pc |-> "asked", index |-> n, spawned |-> compactor.spawned - 1, folded |-> fold]
      /\ Len(kept) >= CompactionThreshold /\ compactor.spawned > 0 /\ session.loaded
  <2>1. Len(kept) >= CompactionThreshold => session.loaded
    <3>1. CompactionThreshold > 0 /\ Len(<<>>) = 0
      BY AnnAssumption DEF AnnAssumption
    <3> QED BY <3>1, AnnAssumption DEF AnnInv, FoldsAreHeld, AnnAssumption
  <2> QED BY <2>1 DEF BeginCompaction, NoFold
<1>3. Len(kept) \in Nat /\ n \in Nat /\ n <= Len(kept) /\ Len(log) \in Nat
  BY <1>1, <1>2, AnnAssumption, LenProperties DEF AnnAssumption
<1>4. SubSeq(kept, 1, n) \in Seq(MessagesTo(made)) /\ Len(SubSeq(kept, 1, n)) = n
      /\ \A i \in 1..n : SubSeq(kept, 1, n)[i] = kept[i]
  <2>1. \A i \in 1..n : kept[i] \in MessagesTo(made)
    BY <1>1, <1>3, ElementOfSeq
  <2>2. /\ SubSeq(kept, 1, n) \in Seq(MessagesTo(made))
        /\ Len(SubSeq(kept, 1, n)) = (IF 1 <= n THEN n - 1 + 1 ELSE 0)
        /\ \A i \in 1..(n - 1 + 1) : SubSeq(kept, 1, n)[i] = kept[1 + i - 1]
    BY <1>3, <2>1, SubSeqProperties
  <2>3. n - 1 + 1 = n /\ \A i \in 1..n : 1 + i - 1 = i
    BY <1>3
  <2> QED BY <1>3, <2>2, <2>3
<1>5. DOMAIN SubSeq(kept, 1, n) = 1..n
  BY <1>4, LenProperties
<1>6. \A i \in 1..n : kept[i].id \in fold
  BY <1>4, <1>5 DEF Ids
<1>7. fold \subseteq 1..made
  <2>1. \A i \in 1..n : kept[i] \in MessagesTo(made)
    BY <1>1, <1>3, ElementOfSeq
  <2> QED BY <1>4, <1>5, <2>1 DEF Ids, MessagesTo
<1> HIDE DEF fold, n
<1>8. AnnRecords'
  BY <1>1, <1>2, <1>3, <1>7 DEF AnnInv, AnnRecords, CompactorsTo
<1>9. FoldsAreHeld'
  BY <1>2 DEF AnnInv, FoldsAreHeld
<1>10. ASSUME Intact PROVE Intact'
  <2>1. compactor'.pc = "asked" /\ compactor'.index = n /\ compactor'.folded = fold
    BY <1>2
  <2>2. PassedAreSummarised' /\ MemoryIsTail'
    BY <1>2, <1>10, <2>1 DEF Intact, PassedAreSummarised, Passed, MemoryIsTail, Dropped, Unlocked
  <2>3. cp <= Len(log) /\ kept = SubSeq(log, cp + 1, Len(log))
    <3>1. cp + compactor.index <= Len(log) /\ compactor.index = 0
      BY <1>2, <1>10 DEF Intact, FoldIsHead, AnnInv, FoldsAreHeld
    <3>2. Dropped + 1 = cp + 1
      BY <1>1, <1>2 DEF Dropped, Unlocked
    <3> QED BY <1>1, <1>2, <1>10, <3>1, <3>2 DEF Intact, MemoryIsTail
  <2>4. Len(kept) = Len(log) - cp /\ \A i \in 1..(Len(log) - cp) : kept[i] = log[cp + i]
    <3> DEFINE tail == SubSeq(log, cp + 1, Len(log))
    <3>1. Len(tail) = Len(log) - cp /\ \A i \in 1..(Len(log) - cp) : tail[i] = log[cp + i]
      <4> HIDE DEF log, cp
      <4> QED BY <1>1, <2>3, TailOf
    <3>2. kept = tail
      BY <2>3
    <3> HIDE DEF tail
    <3> QED BY <3>1, <3>2
  <2>5. cp + n <= Len(log) /\ \A i \in 1..n : log[cp + i].id \in fold
    <3>1. n <= Len(log) - cp
      BY <1>1, <1>3, <2>4
    <3>2. \A i \in 1..n : i \in 1..(Len(log) - cp)
      BY <1>1, <1>3, <3>1
    <3>3. cp + n <= Len(log)
      BY <1>1, <1>3, <3>1
    <3> HIDE DEF log, cp, kept
    <3>4. ASSUME NEW i \in 1..n PROVE log[cp + i].id \in fold
      <4>1. kept[i].id \in fold
        BY <1>6
      <4>2. kept[i] = log[cp + i]
        BY <2>4, <3>2
      <4> QED BY <4>1, <4>2
    <3> QED BY <3>3, <3>4
  <2>6. FoldIsHead'
    BY <1>2, <2>1, <2>5 DEF FoldIsHead
  <2> QED BY <2>2, <2>6 DEF Intact
<1> QED BY <1>2, <1>8, <1>9, <1>10 DEF AnnInv

(* The answer makes memory the tail behind the fold; no answer ends it.     *)
LEMMA CompactorAnswersKeeps == AnnInv /\ CompactorAnswers => AnnInv'
<1> SUFFICES ASSUME AnnInv, CompactorAnswers PROVE AnnInv'
  OBVIOUS
<1> DEFINE log == annDisk.log
           cp == annDisk.checkpoint
           kept == session.messages
           n == compactor.index
           rest == SubSeq(kept, n + 1, Len(kept))
<1>1. /\ made \in Nat /\ log \in Seq(MessagesTo(made)) /\ cp \in Nat /\ kept \in Seq(MessagesTo(made))
      /\ compactor \in CompactorsTo(made) /\ session \in SessionsTo(made) /\ n \in Nat /\ session.loaded
      /\ compactor.pc = "asked" /\ UNCHANGED <<annDisk, made, writeFaults>>
  BY DEF AnnInv, AnnRecords, DisksTo, SessionsTo, CompactorsTo, CompactorAnswers, FoldsAreHeld
<1>2. CASE compactor' = Over(compactor) /\ UNCHANGED session
  <2>1. compactor' = [pc |-> "idle", index |-> 0, folded |-> {}, spawned |-> compactor.spawned]
    BY <1>2 DEF Over, NoFold
  <2>2. AnnRecords'
    BY <1>1, <1>2, <2>1 DEF AnnInv, AnnRecords, CompactorsTo
  <2>3. FoldsAreHeld'
    BY <1>1, <1>2, <2>1 DEF FoldsAreHeld
  <2>4. ASSUME Intact PROVE Intact'
    <3>1. PassedAreSummarised' /\ MemoryIsTail'
      BY <1>1, <1>2, <2>1, <2>4 DEF Intact, PassedAreSummarised, Passed, MemoryIsTail, Dropped, Unlocked
    <3>2. cp + 0 <= Len(log)
      BY <1>1, <2>4, LenProperties DEF Intact, FoldIsHead
    <3>3. FoldIsHead'
      BY <1>1, <2>1, <3>2 DEF FoldIsHead
    <3> QED BY <3>1, <3>3 DEF Intact
  <2> QED BY <1>1, <2>2, <2>3, <2>4 DEF AnnInv
<1>3. CASE /\ compactor' = [compactor EXCEPT !.pc = "summary"]
           /\ session' = [session EXCEPT !.messages = rest]
  <2>1. /\ compactor'.pc = "summary" /\ compactor'.index = n /\ compactor'.folded = compactor.folded
        /\ session'.messages = rest /\ session'.loaded
    BY <1>1, <1>3 DEF CompactorsTo, SessionsTo
  <2>2. rest \in Seq(MessagesTo(made))
    <3>1. CASE n <= Len(kept)
      BY <1>1, <3>1, TailOf
    <3>2. CASE ~(n <= Len(kept))
      <4>1. Len(kept) < n + 1 /\ n + 1 \in Int /\ Len(kept) \in Int
        BY <1>1, <3>2, LenProperties
      <4> QED BY <4>1, SubSeqEmpty
    <3> QED BY <3>1, <3>2
  <2> HIDE DEF rest
  <2>3. AnnRecords'
    BY <1>1, <1>3, <2>2 DEF AnnInv, AnnRecords, CompactorsTo, SessionsTo
  <2>4. FoldsAreHeld'
    BY <2>1 DEF FoldsAreHeld
  <2>5. ASSUME Intact PROVE Intact'
    <3>1. PassedAreSummarised'
      BY <1>1, <2>1, <2>5 DEF Intact, PassedAreSummarised, Passed
    <3>2. FoldIsHead' /\ cp + n <= Len(log)
      BY <1>1, <2>1, <2>5 DEF Intact, FoldIsHead
    <3>3. kept = SubSeq(log, cp + 1, Len(log))
      <4>1. Dropped = cp + 0
        BY <1>1 DEF Dropped, Unlocked
      <4> QED BY <1>1, <2>5, <4>1 DEF Intact, MemoryIsTail
    <3>4. rest = SubSeq(log, cp + n + 1, Len(log))
      <4> DEFINE tail == SubSeq(log, cp + 1, Len(log))
      <4>1. SubSeq(tail, n + 1, Len(tail)) = SubSeq(log, cp + n + 1, Len(log))
        <5> HIDE DEF log, cp, n
        <5> QED BY <1>1, <3>2, TailOfTail
      <4>2. kept = tail
        BY <3>3
      <4> HIDE DEF tail
      <4> QED BY <4>1, <4>2 DEF rest
    <3>5. MemoryIsTail'
      BY <1>1, <2>1, <3>4 DEF MemoryIsTail, Dropped, Unlocked
    <3> QED BY <3>1, <3>2, <3>5 DEF Intact
  <2> QED BY <1>1, <2>3, <2>4, <2>5 DEF AnnInv
<1> QED BY <1>2, <1>3 DEF CompactorAnswers

(* The summary is stored ahead of the checkpoint.                           *)
LEMMA StoreSummaryKeeps == AnnInv /\ StoreSummary => AnnInv'
<1> SUFFICES ASSUME AnnInv, StoreSummary PROVE AnnInv'
  OBVIOUS
<1> DEFINE log == annDisk.log
           cp == annDisk.checkpoint
           n == compactor.index
           stored == annDisk.summarised \cup compactor.folded
<1>1. /\ made \in Nat /\ log \in Seq(MessagesTo(made)) /\ cp \in Nat /\ n \in Nat
      /\ annDisk \in DisksTo(made) /\ compactor \in CompactorsTo(made) /\ session.loaded
      /\ compactor.pc = "summary" /\ UNCHANGED <<session, made>> /\ writeFaults \in Nat
      /\ compactor' = [compactor EXCEPT !.pc = "checkpoint"]
      /\ \/ annDisk' = [annDisk EXCEPT !.summarised = stored] /\ writeFaults' = writeFaults
         \/ annDisk' = annDisk /\ writeFaults' = writeFaults + 1
  BY DEF AnnInv, AnnRecords, DisksTo, SessionsTo, CompactorsTo, StoreSummary, FoldsAreHeld, WriteFails
<1>2. compactor'.pc = "checkpoint" /\ compactor'.index = n /\ compactor'.folded = compactor.folded
  BY <1>1 DEF CompactorsTo
<1>3. AnnRecords'
  <2>1. stored \subseteq 1..made
    BY <1>1 DEF DisksTo, CompactorsTo
  <2> HIDE DEF stored
  <2>2. annDisk' \in DisksTo(made) /\ compactor' \in CompactorsTo(made) /\ writeFaults' \in Nat
    BY <1>1, <2>1 DEF DisksTo, CompactorsTo
  <2> QED BY <1>1, <2>2 DEF AnnInv, AnnRecords
<1>4. FoldsAreHeld'
  BY <1>1, <1>2 DEF FoldsAreHeld
<1>5. ASSUME writeFaults' = 0 PROVE Intact'
  <2>1. Intact /\ annDisk' = [annDisk EXCEPT !.summarised = stored]
    BY <1>1, <1>5 DEF AnnInv
  <2>2. annDisk'.log = log /\ annDisk'.checkpoint = cp /\ annDisk'.summarised = stored
    BY <1>1, <2>1 DEF DisksTo
  <2>3. FoldIsHead' /\ cp + n <= Len(log) /\ \A i \in 1..n : log[cp + i].id \in compactor.folded
    BY <1>2, <2>1, <2>2 DEF Intact, FoldIsHead
  <2>4. MemoryIsTail'
    BY <1>1, <1>2, <2>1, <2>2 DEF Intact, MemoryIsTail, Dropped, Unlocked
  <2>5. PassedAreSummarised'
    <3>1. Passed' = cp + n /\ \A i \in 1..cp : log[i].id \in annDisk.summarised
      BY <1>1, <1>2, <2>1, <2>2 DEF Intact, PassedAreSummarised, Passed
    <3>2. ASSUME NEW i \in 1..(cp + n) PROVE log[i].id \in stored
      <4>1. CASE i <= cp
        BY <1>1, <3>1, <4>1
      <4>2. CASE i > cp
        <5>1. i - cp \in 1..n /\ cp + (i - cp) = i
          BY <1>1, <4>2
        <5> QED BY <2>3, <5>1
      <4> QED BY <1>1, <4>1, <4>2
    <3> QED BY <2>2, <3>1, <3>2 DEF PassedAreSummarised
  <2> QED BY <2>3, <2>4, <2>5 DEF Intact
<1> QED BY <1>3, <1>4, <1>5 DEF AnnInv

LEMMA IncrementCheckpointKeeps == AnnInv /\ IncrementCheckpoint => AnnInv'
<1> SUFFICES ASSUME AnnInv, IncrementCheckpoint PROVE AnnInv'
  OBVIOUS
<1> DEFINE log == annDisk.log
           cp == annDisk.checkpoint
           n == compactor.index
<1>1. /\ made \in Nat /\ log \in Seq(MessagesTo(made)) /\ cp \in Nat /\ n \in Nat
      /\ annDisk \in DisksTo(made) /\ compactor \in CompactorsTo(made) /\ session.loaded
      /\ compactor.pc = "checkpoint" /\ UNCHANGED <<session, made>> /\ writeFaults \in Nat
      /\ compactor' = [pc |-> "idle", index |-> 0, folded |-> {}, spawned |-> compactor.spawned]
      /\ \/ annDisk' = [annDisk EXCEPT !.checkpoint = cp + n] /\ writeFaults' = writeFaults
         \/ annDisk' = annDisk /\ writeFaults' = writeFaults + 1
  BY DEF AnnInv, AnnRecords, DisksTo, SessionsTo, CompactorsTo, IncrementCheckpoint, FoldsAreHeld, WriteFails,
         Over, NoFold
<1>2. compactor'.pc = "idle" /\ compactor'.index = 0 /\ compactor'.folded = {}
  BY <1>1
<1>3. AnnRecords'
  <2>1. annDisk' \in DisksTo(made) /\ compactor' \in CompactorsTo(made) /\ writeFaults' \in Nat
    BY <1>1 DEF DisksTo, CompactorsTo
  <2> QED BY <1>1, <2>1 DEF AnnInv, AnnRecords
<1>4. FoldsAreHeld'
  BY <1>1, <1>2 DEF FoldsAreHeld
<1>5. ASSUME writeFaults' = 0 PROVE Intact'
  <2>1. Intact /\ annDisk' = [annDisk EXCEPT !.checkpoint = cp + n]
    BY <1>1, <1>5 DEF AnnInv
  <2>2. annDisk'.log = log /\ annDisk'.checkpoint = cp + n /\ annDisk'.summarised = annDisk.summarised
    BY <1>1, <2>1 DEF DisksTo
  <2>3. Passed' = Passed /\ Dropped' = Dropped
    BY <1>1, <1>2, <2>2 DEF Passed, Dropped, Unlocked
  <2>4. PassedAreSummarised' /\ MemoryIsTail'
    BY <1>1, <2>1, <2>2, <2>3 DEF Intact, PassedAreSummarised, MemoryIsTail
  <2>5. (cp + n) + 0 <= Len(log)
    BY <1>1, <2>1, LenProperties DEF Intact, FoldIsHead
  <2>6. FoldIsHead'
    BY <1>2, <2>2, <2>5 DEF FoldIsHead
  <2> QED BY <2>4, <2>6 DEF Intact
<1> QED BY <1>3, <1>4, <1>5 DEF AnnInv

LEMMA AnnCrashesKeeps == AnnInv /\ AnnCrashes => AnnInv'
<1> SUFFICES ASSUME AnnInv, AnnCrashes PROVE AnnInv'
  OBVIOUS
<1>1. /\ UNCHANGED <<annDisk, made, writeFaults>>
      /\ session' = [loaded |-> FALSE, messages |-> <<>>, judged |-> 0]
      /\ compactor' = [pc |-> "idle", index |-> 0, folded |-> {}, spawned |-> 0]
  BY DEF AnnCrashes, Unloaded, NoFold
<1>2. AnnRecords'
  <2>1. <<>> \in Seq(MessagesTo(made))
    OBVIOUS
  <2> QED BY <1>1, <2>1 DEF AnnInv, AnnRecords, SessionsTo, CompactorsTo
<1>3. FoldsAreHeld'
  BY <1>1 DEF FoldsAreHeld
<1>4. ASSUME Intact PROVE Intact'
  <2>1. annDisk.checkpoint \in Nat /\ compactor.index \in Nat /\ Len(annDisk.log) \in Nat
    BY LenProperties DEF AnnInv, AnnRecords, DisksTo, CompactorsTo
  <2>2. annDisk.checkpoint + 0 <= Len(annDisk.log)
    BY <1>4, <2>1 DEF Intact, FoldIsHead
  <2>3. \A i \in 1..(annDisk.checkpoint + 0) : annDisk.log[i].id \in annDisk.summarised
    BY <1>4, <2>1 DEF Intact, PassedAreSummarised, Passed
  <2> QED BY <1>1, <2>2, <2>3 DEF Intact, PassedAreSummarised, Passed, FoldIsHead, MemoryIsTail
<1> QED BY <1>1, <1>2, <1>3, <1>4 DEF AnnInv

LEMMA AnnKept == AnnInv /\ [AnnNext]_annVars => AnnInv'
<1> SUFFICES ASSUME AnnInv, [AnnNext]_annVars PROVE AnnInv'
  OBVIOUS
<1>1. CASE UNCHANGED annVars \/ NothingToCompact
  BY <1>1, RestsKeeps DEF annVars, AnnInv, AnnRecords, SessionsTo, CompactorsTo, Rests, NothingToCompact
<1>2. CASE ObserveMessage
  BY <1>2, AddMessageKeeps DEF ObserveMessage
<1>3. ASSUME NEW p \in Repliers, ProcessMessage(p) \/ RecordReply(p) PROVE AnnInv'
  BY <1>3, AddMessageKeeps DEF ProcessMessage, RecordReply
<1>4. ASSUME NEW p \in Repliers, ClaimProactiveReply(p) \/ Judged(p) \/ ChatReturns(p) \/ SendReply(p)
      PROVE  AnnInv'
  BY <1>4, RestingSteps, RestsKeeps
<1> QED BY <1>1, <1>2, <1>3, <1>4, GetSessionKeeps, BeginCompactionKeeps, CompactorAnswersKeeps,
       StoreSummaryKeeps, IncrementCheckpointKeeps, AnnCrashesKeeps DEF AnnNext

(* Messages, summaries and the checkpoint keep their shape.                 *)
THEOREM AnnTypeCorrect == AnnSpec => []AnnTypeOK
<1>1. AnnInv => AnnTypeOK
  <2> SUFFICES ASSUME AnnInv PROVE AnnTypeOK
    OBVIOUS
  <2>1. annDisk.log \in Seq(MessagesTo(made)) /\ DOMAIN annDisk.log = 1..Len(annDisk.log)
    BY LenProperties DEF AnnInv, AnnRecords, DisksTo
  <2>2. Ids(annDisk.log) \subseteq MessagesTo(made)
    BY <2>1, ElementOfSeq DEF Ids
  <2> QED BY <2>2 DEF AnnInv, AnnRecords, DisksTo, CompactorsTo, AnnTypeOK, MessagesTo
<1> QED BY AnnInitial, AnnKept, <1>1, PTL DEF AnnSpec

(* While writes succeed, a line that a cold start skips is in a stored      *)
(* summary, and memory holds the lines that it would load, whatever arrives *)
(* while the model writes the summary and wherever the process stops        *)
(* (ann/compact.go, storage.go).                                            *)
THEOREM AnnForgetsNothing == AnnSpec => []NothingForgotten
<1>1. AnnInv => NothingForgotten
  <2> SUFFICES ASSUME AnnInv, writeFaults = 0
               PROVE  /\ \A i \in 1..annDisk.checkpoint :
                           i <= Len(annDisk.log) /\ annDisk.log[i].id \in annDisk.summarised
                      /\ session.loaded /\ Unlocked =>
                           session.messages = SubSeq(annDisk.log, annDisk.checkpoint + 1, Len(annDisk.log))
    BY DEF NothingForgotten
  <2>1. Intact /\ annDisk.checkpoint \in Nat /\ compactor.index \in Nat /\ Len(annDisk.log) \in Nat
    BY LenProperties DEF AnnInv, AnnRecords, DisksTo, CompactorsTo
  <2>2. annDisk.checkpoint <= Len(annDisk.log)
    BY <2>1 DEF Intact, FoldIsHead
  <2>3. \A i \in 1..annDisk.checkpoint : annDisk.log[i].id \in annDisk.summarised
    BY <2>1 DEF Intact, PassedAreSummarised, Passed
  <2>4. session.loaded /\ Unlocked =>
          session.messages = SubSeq(annDisk.log, annDisk.checkpoint + 1, Len(annDisk.log))
    <3>1. Unlocked => Dropped + 1 = annDisk.checkpoint + 1
      BY <2>1 DEF Dropped
    <3> QED BY <2>1, <3>1 DEF Intact, MemoryIsTail
  <2> QED BY <2>1, <2>2, <2>3, <2>4
<1> QED BY AnnInitial, AnnKept, <1>1, PTL DEF AnnSpec

-----------------------------------------------------------------------------
(* The pages of a web chat.                                                 *)

Positive == Nat \ {0}
Ranges == [lo : Positive, hi : Nat]
PageRecords == [lo : Positive, hi : Nat, cursor : Nat, raw : Ranges, limit : Nat]
Fetches == {NoFetch} \cup [at : {"expand"}, tail : BOOLEAN, before : Nat, page : Ranges, limit : Positive]

ChatTypeOK ==
    /\ chat \in Seq(Nat) /\ inputOf \in Seq(Positive)
    /\ pages \in Seq(PageRecords) /\ fetch \in Fetches
RunsHaveInputs == \A k \in DOMAIN chat : chat[k] <= Len(inputOf)
(* Pages, and what was read for them, are ranges of the rows there are.     *)
PagesAreRows == \A k \in DOMAIN pages : pages[k].lo <= Len(chat) /\ pages[k].raw.hi <= Len(chat)
FetchIsRows == fetch # NoFetch => fetch.page.lo <= fetch.page.hi /\ fetch.page.hi <= Len(chat)
(* An older page ends ahead of the last one that the client has.            *)
FetchIsOlder ==
    fetch # NoFetch /\ ~fetch.tail =>
        /\ pages # <<>> /\ fetch.before = pages[Len(pages)].lo
        /\ fetch.page.hi = fetch.before - 1

PagesFollow == \A k \in DOMAIN pages : k > 1 => pages[k].hi = pages[k - 1].lo - 1
LastIsFirst == \A k \in DOMAIN pages : pages[k].cursor = IF pages[k].lo > 1 THEN pages[k].lo ELSE 0
(* The rows from lo to hi hold the inputs of the runs that raw has rows of, *)
(* or are as many as a page may have.                                       *)
Whole(lo, hi, raw) ==
    \/ hi - lo + 1 >= PageCap
    \/ \A i \in raw.lo..raw.hi : chat[i] # 0 => inputOf[chat[i]] >= lo
PagesAreWhole == \A k \in DOMAIN pages : Whole(pages[k].lo, pages[k].hi, pages[k].raw)

ChatInv == /\ ChatTypeOK /\ RunsHaveInputs /\ PagesAreRows /\ FetchIsRows /\ FetchIsOlder
           /\ PagesFollow /\ LastIsFirst /\ PagesAreWhole

LEMMA MaxOfTwo ==
    ASSUME NEW a \in Int, NEW b \in Int
    PROVE  Max({a, b}) = IF a >= b THEN a ELSE b
<1> DEFINE top == IF a >= b THEN a ELSE b
<1>1. top \in {a, b} /\ \A y \in {a, b} : top >= y
  OBVIOUS
<1>2. \A x \in {a, b} : (\A y \in {a, b} : x >= y) => x = top
  OBVIOUS
<1> HIDE DEF top
<1>3. Max({a, b}) = top
  BY <1>1, <1>2 DEF Max
<1> QED BY <1>3 DEF top

LEMMA MinOfNumbers ==
    ASSUME NEW S, S \subseteq Nat, S # {}
    PROVE  Min(S) \in S /\ \A j \in S : Min(S) <= j
<1> DEFINE less == {pair \in Nat \X Nat : pair[1] < pair[2]}
<1>1. IsWellFoundedOn(less, Nat)
  BY NatLessThanWellFounded DEF OpToRel
<1>2. \E i \in S : \A j \in S : <<j, i>> \notin less
  <2> HIDE DEF less
  <2> QED BY <1>1, WFMin
<1>3. \A i, j \in Nat : <<j, i>> \notin less => i <= j
  OBVIOUS
<1> HIDE DEF less
<1>4. \E i \in S : \A j \in S : i <= j
  BY <1>2, <1>3
<1> QED BY <1>4 DEF Min

LEMMA ChatInitial == ChatInit => ChatInv
<1>1. Len(<<>>) = 0 /\ DOMAIN <<>> = {} /\ <<>> \in Seq(Nat) /\ <<>> \in Seq(Positive)
  OBVIOUS
<1>2. <<>> \in Seq(PageRecords)
  OBVIOUS
<1> QED BY <1>1, <1>2 DEF ChatInit, ChatInv, ChatTypeOK, RunsHaveInputs, PagesAreRows, FetchIsRows,
       FetchIsOlder, PagesFollow, LastIsFirst, PagesAreWhole, Fetches

(* Rows are appended: what there was stays.                                 *)
Grows == /\ chat' \in Seq(Nat) /\ inputOf' \in Seq(Positive)
         /\ Len(chat) <= Len(chat') /\ Len(inputOf) <= Len(inputOf')
         /\ \A k \in DOMAIN chat : chat'[k] = chat[k]
         /\ \A r \in DOMAIN inputOf : inputOf'[r] = inputOf[r]
         /\ \A k \in DOMAIN chat' : chat'[k] <= Len(inputOf')
         /\ UNCHANGED <<fetch, pages>>

LEMMA AppendChatRowGrows == ChatInv /\ AppendChatRow => Grows
<1> SUFFICES ASSUME ChatInv, AppendChatRow PROVE Grows
  OBVIOUS
<1>1. /\ chat \in Seq(Nat) /\ inputOf \in Seq(Positive) /\ chat' = Append(chat, 0)
      /\ UNCHANGED <<inputOf, fetch, pages>> /\ \A k \in DOMAIN chat : chat[k] <= Len(inputOf)
  BY DEF ChatInv, ChatTypeOK, RunsHaveInputs, AppendChatRow
<1>2. /\ chat' \in Seq(Nat) /\ Len(chat') = Len(chat) + 1 /\ \A k \in 1..Len(chat) : chat'[k] = chat[k]
      /\ chat'[Len(chat) + 1] = 0
  BY <1>1, AppendProperties
<1>3. /\ Len(chat) \in Nat /\ DOMAIN chat = 1..Len(chat) /\ DOMAIN chat' = 1..Len(chat')
      /\ Len(inputOf) \in Nat
  BY <1>1, <1>2, LenProperties
<1>4. ASSUME NEW k \in DOMAIN chat' PROVE chat'[k] <= Len(inputOf)
  <2>1. CASE k = Len(chat) + 1
    BY <1>2, <1>3, <2>1
  <2>2. CASE k \in DOMAIN chat
    BY <1>1, <1>2, <1>3, <2>2
  <2> QED BY <1>2, <1>3, <2>1, <2>2
<1> QED BY <1>1, <1>2, <1>3, <1>4 DEF Grows

LEMMA AppendRunGrows == ASSUME ChatInv, NEW i \in 1..MaxRows, NEW n \in 1..MaxRunRows, AppendRun(i, n) PROVE Grows
<1> DEFINE rows == [k \in 1..n |-> Len(inputOf')]
<1>1. /\ chat \in Seq(Nat) /\ inputOf \in Seq(Positive) /\ chat' = chat \o rows
      /\ inputOf' = Append(inputOf, i) /\ n \in Nat /\ i \in Positive
      /\ UNCHANGED <<fetch, pages>> /\ \A k \in DOMAIN chat : chat[k] <= Len(inputOf)
  BY WebChatAssumption DEF ChatInv, ChatTypeOK, RunsHaveInputs, AppendRun, WebChatAssumption, Positive
<1>2. /\ inputOf' \in Seq(Positive) /\ Len(inputOf') = Len(inputOf) + 1 /\ Len(inputOf) \in Nat
      /\ DOMAIN inputOf = 1..Len(inputOf) /\ \A r \in 1..Len(inputOf) : inputOf'[r] = inputOf[r]
  BY <1>1, AppendProperties, LenProperties
<1>3. rows \in Seq(Nat) /\ Len(rows) = n /\ \A k \in 1..n : rows[k] = Len(inputOf')
  BY <1>1, <1>2
<1> HIDE DEF rows
<1>4. /\ chat' \in Seq(Nat) /\ Len(chat') = Len(chat) + n
      /\ \A k \in 1..(Len(chat) + n) : chat'[k] = IF k <= Len(chat) THEN chat[k] ELSE rows[k - Len(chat)]
  <2>1. /\ chat \o rows \in Seq(Nat) /\ Len(chat \o rows) = Len(chat) + Len(rows)
        /\ \A k \in 1..(Len(chat) + Len(rows)) :
             (chat \o rows)[k] = IF k <= Len(chat) THEN chat[k] ELSE rows[k - Len(chat)]
    <3>1. chat \in Seq(Nat) /\ rows \in Seq(Nat)
      BY <1>1, <1>3
    <3> QED BY <3>1, ConcatProperties, Zenon
  <2> QED BY <1>1, <1>3, <2>1
<1>5. Len(chat) \in Nat /\ DOMAIN chat = 1..Len(chat) /\ DOMAIN chat' = 1..Len(chat')
  BY <1>1, <1>4, LenProperties
<1>6. \A k \in DOMAIN chat : chat'[k] = chat[k]
  BY <1>1, <1>4, <1>5
<1>7. ASSUME NEW k \in DOMAIN chat' PROVE chat'[k] <= Len(inputOf')
  <2>1. CASE k <= Len(chat)
    <3>1. k \in DOMAIN chat /\ chat[k] \in Nat
      BY <1>1, <1>5, <2>1, ElementOfSeq
    <3>2. chat'[k] = chat[k] /\ chat[k] <= Len(inputOf)
      BY <1>1, <1>6, <3>1
    <3> QED BY <1>2, <3>1, <3>2
  <2>2. CASE ~(k <= Len(chat))
    <3>1. k - Len(chat) \in 1..n /\ k \in 1..(Len(chat) + n)
      BY <1>1, <1>4, <1>5, <2>2
    <3>2. chat'[k] = Len(inputOf')
      BY <1>3, <1>4, <2>2, <3>1
    <3> QED BY <1>2, <3>2
  <2> QED BY <2>1, <2>2
<1> QED BY <1>1, <1>2, <1>4, <1>5, <1>6, <1>7 DEF Grows

LEMMA GrowsKeeps == ChatInv /\ Grows => ChatInv'
<1> SUFFICES ASSUME ChatInv, Grows PROVE ChatInv'
  OBVIOUS
<1>1. /\ chat \in Seq(Nat) /\ inputOf \in Seq(Positive) /\ pages \in Seq(PageRecords)
      /\ pages' = pages /\ fetch' = fetch
  BY DEF ChatInv, ChatTypeOK, Grows
<1>2. /\ Len(chat) \in Nat /\ Len(chat') \in Nat /\ Len(chat) <= Len(chat')
      /\ DOMAIN chat = 1..Len(chat) /\ DOMAIN inputOf = 1..Len(inputOf) /\ Len(inputOf) \in Nat
  BY <1>1, LenProperties DEF Grows
<1>3. \A k \in DOMAIN pages : pages[k] \in PageRecords
  BY <1>1, ElementOfSeq, LenProperties
<1>4. ChatTypeOK' /\ RunsHaveInputs' /\ FetchIsOlder' /\ PagesFollow' /\ LastIsFirst'
  BY <1>1 DEF ChatInv, ChatTypeOK, RunsHaveInputs, FetchIsOlder, PagesFollow, LastIsFirst, Grows
<1>5. PagesAreRows'
  <2>1. ASSUME NEW k \in DOMAIN pages PROVE pages[k].lo <= Len(chat') /\ pages[k].raw.hi <= Len(chat')
    <3>1. pages[k].lo \in Nat /\ pages[k].raw \in Ranges
      BY <1>3 DEF PageRecords, Positive
    <3>2. pages[k].raw.hi \in Nat
      BY <3>1 DEF Ranges
    <3>3. pages[k].lo <= Len(chat) /\ pages[k].raw.hi <= Len(chat)
      BY DEF ChatInv, PagesAreRows
    <3> QED BY <1>2, <3>1, <3>2, <3>3
  <2> QED BY <1>1, <2>1 DEF PagesAreRows
<1>6. FetchIsRows'
  BY <1>1, <1>2 DEF ChatInv, ChatTypeOK, FetchIsRows, Fetches, Ranges, Positive
<1>7. PagesAreWhole'
  <2> SUFFICES ASSUME NEW k \in DOMAIN pages, ~(pages[k].hi - pages[k].lo + 1 >= PageCap),
                      NEW i \in pages[k].raw.lo..pages[k].raw.hi, chat'[i] # 0
               PROVE  inputOf'[chat'[i]] >= pages[k].lo
    BY <1>1 DEF PagesAreWhole, Whole
  <2>1. pages[k].raw \in Ranges /\ pages[k].raw.hi <= Len(chat)
    BY <1>3 DEF ChatInv, PagesAreRows, PageRecords
  <2>2. i \in DOMAIN chat
    BY <1>2, <2>1 DEF Ranges, Positive
  <2>3. chat'[i] = chat[i] /\ chat[i] \in Nat /\ chat[i] <= Len(inputOf) /\ chat[i] # 0
    BY <1>1, <1>2, <2>2, ElementOfSeq DEF Grows, ChatInv, RunsHaveInputs
  <2>4. chat[i] \in DOMAIN inputOf
    BY <1>2, <2>3
  <2>5. inputOf'[chat[i]] = inputOf[chat[i]]
    BY <2>4 DEF Grows
  <2>6. inputOf[chat[i]] >= pages[k].lo
    BY <2>3 DEF ChatInv, PagesAreWhole, Whole
  <2> QED BY <2>3, <2>5, <2>6
<1> QED BY <1>4, <1>5, <1>6, <1>7 DEF ChatInv

(* A page that is read lies within the rows ahead of its end.               *)
LEMMA LoadIsRange ==
    ASSUME NEW lower \in Positive, NEW before \in Positive, NEW limit \in Positive, lower <= before - 1
    PROVE  /\ Load(lower, before, limit) \in Ranges /\ Load(lower, before, limit).hi = before - 1
           /\ Load(lower, before, limit).lo <= before - 1 /\ lower <= Load(lower, before, limit).lo
           /\ \/ Load(lower, before, limit).lo = lower
              \/ before - 1 - Load(lower, before, limit).lo + 1 = limit
<1>1. Max({lower, before - limit}) = IF lower >= before - limit THEN lower ELSE before - limit
  BY MaxOfTwo DEF Positive
<1> DEFINE lo == Max({lower, before - limit})
<1>2. /\ lo \in Positive /\ lo <= before - 1 /\ lower <= lo /\ before - 1 \in Nat
      /\ (lo = lower \/ before - 1 - lo + 1 = limit)
  BY <1>1 DEF Positive
<1> HIDE DEF lo
<1>3. Load(lower, before, limit) = [lo |-> lo, hi |-> before - 1]
  BY DEF Load, lo
<1> QED BY <1>2, <1>3 DEF Ranges

(* A request finds its first page.                                          *)
LEMMA FetchBeginsKeeps ==
    ASSUME ChatInv, NEW raw \in PageLimits \cup {0}, GetChat(raw) \/ GetOlder(raw)
    PROVE  ChatInv'
<1>0. ChatMessageLimit(raw) \in Positive /\ OlderMessageLimit(raw) \in Positive
  BY WebChatAssumption DEF ChatMessageLimit, OlderMessageLimit, AtMost, WebChatAssumption, Positive
<1>1. /\ UNCHANGED <<chat, inputOf, pages>> /\ 1 \in Positive
      /\ chat \in Seq(Nat) /\ Len(chat) \in Nat /\ pages \in Seq(PageRecords) /\ Len(pages) \in Nat
      /\ DOMAIN pages = 1..Len(pages)
  BY LenProperties DEF GetChat, GetOlder, BeginFetch, ChatInv, ChatTypeOK, Positive
<1>2. ASSUME NEW limit \in Positive, NEW before \in Positive, NEW tail \in BOOLEAN, before - 1 \in 1..Len(chat),
             fetch' = [at |-> "expand", tail |-> tail, before |-> before,
                       page |-> Load(1, before, limit), limit |-> limit],
             ~tail => pages # <<>> /\ before = pages[Len(pages)].lo
      PROVE  ChatInv'
  <2> DEFINE page == Load(1, before, limit)
  <2>1. page \in Ranges /\ page.hi = before - 1 /\ page.lo <= before - 1
    BY <1>1, <1>2, LoadIsRange
  <2> HIDE DEF page
  <2>2. /\ fetch' # NoFetch /\ fetch'.tail = tail /\ fetch'.page = page /\ fetch'.before = before
        /\ fetch' = [at |-> "expand", tail |-> tail, before |-> before, page |-> page, limit |-> limit]
    BY <1>2 DEF NoFetch, page
  <2>3. fetch' \in Fetches
    BY <1>1, <2>1, <2>2 DEF Fetches, Positive
  <2>4. ChatTypeOK' /\ RunsHaveInputs' /\ PagesAreRows' /\ PagesFollow' /\ LastIsFirst' /\ PagesAreWhole'
    BY <1>1, <2>3 DEF ChatInv, ChatTypeOK, RunsHaveInputs, PagesAreRows, PagesFollow, LastIsFirst,
           PagesAreWhole, Whole
  <2>5. FetchIsRows'
    BY <1>1, <1>2, <2>1, <2>2 DEF FetchIsRows, Ranges, Positive
  <2>6. FetchIsOlder'
    BY <1>1, <1>2, <2>1, <2>2 DEF FetchIsOlder
  <2> QED BY <2>4, <2>5, <2>6 DEF ChatInv
<1>3. CASE GetChat(raw)
  <2>1. Len(chat) + 1 \in Positive /\ Len(chat) + 1 - 1 \in 1..Len(chat)
    BY <1>1, <1>3, EmptySeq DEF GetChat, Positive
  <2> DEFINE before == Len(chat) + 1
             limit == ChatMessageLimit(raw)
  <2>2. fetch' = [at |-> "expand", tail |-> TRUE, before |-> before,
                  page |-> Load(1, before, limit), limit |-> limit]
    BY <1>3 DEF GetChat, BeginFetch
  <2>3. before \in Positive /\ before - 1 \in 1..Len(chat) /\ limit \in Positive
    BY <1>0, <2>1
  <2> HIDE DEF before, limit
  <2> QED BY <1>2, <2>2, <2>3
<1>4. CASE GetOlder(raw)
  <2> DEFINE last == pages[Len(pages)]
             limit == OlderMessageLimit(raw)
  <2>1. pages # <<>> /\ last.cursor # 0 /\ Len(pages) \in DOMAIN pages
    BY <1>1, <1>4, EmptySeq DEF GetOlder
  <2>2. last \in PageRecords /\ last.lo <= Len(chat)
    BY <1>1, <2>1, ElementOfSeq DEF ChatInv, PagesAreRows
  <2>3. last.cursor = last.lo /\ last.lo > 1
    BY <2>1, <2>2 DEF ChatInv, LastIsFirst
  <2>4. last.lo \in Positive /\ last.lo - 1 \in 1..Len(chat)
    BY <1>1, <2>2, <2>3 DEF PageRecords, Positive
  <2>5. fetch' = [at |-> "expand", tail |-> FALSE, before |-> last.cursor,
                  page |-> Load(1, last.cursor, limit), limit |-> limit]
    BY <1>4 DEF GetOlder, BeginFetch
  <2>6. pages[Len(pages)] = last /\ limit \in Positive
    BY <1>0 DEF last
  <2> HIDE DEF last, limit
  <2> QED BY <1>2, <2>1, <2>3, <2>4, <2>5, <2>6
<1> QED BY <1>3, <1>4

(* The oldest of the inputs that a page's runs answer.                      *)
LEMMA OldestIsOldest ==
    ASSUME ChatInv, NEW page \in Ranges, page.hi <= Len(chat)
    PROVE  /\ OldestRunInput(page) \in Nat
           /\ \A i \in page.lo..page.hi : chat[i] # 0 =>
                OldestRunInput(page) > 0 /\ inputOf[chat[i]] >= OldestRunInput(page)
<1> DEFINE runs == Runs(page)
           inputs == {inputOf[r] : r \in runs}
<1>1. /\ chat \in Seq(Nat) /\ inputOf \in Seq(Positive) /\ Len(chat) \in Nat /\ DOMAIN chat = 1..Len(chat)
      /\ Len(inputOf) \in Nat
  BY LenProperties DEF ChatInv, ChatTypeOK
<1>2. \A i \in page.lo..page.hi : i \in DOMAIN chat
  BY <1>1 DEF Ranges, Positive
<1>3. \A i \in DOMAIN chat : chat[i] \in Nat /\ chat[i] <= Len(inputOf)
  BY <1>1, ElementOfSeq DEF ChatInv, RunsHaveInputs
<1>4. \A r \in runs : r \in 1..Len(inputOf)
  <2>1. ASSUME NEW r \in runs PROVE r \in 1..Len(inputOf)
    <3>1. PICK k \in page.lo..page.hi : r = chat[k] /\ r # 0
      BY <2>1 DEF Runs
    <3>2. r \in Nat /\ r <= Len(inputOf)
      BY <1>2, <1>3, <3>1
    <3> QED BY <1>1, <3>1, <3>2
  <2> QED BY <2>1
<1>5. \A r \in runs : inputOf[r] \in Positive
  BY <1>1, <1>4, ElementOfSeq
<1>6. \A i \in page.lo..page.hi : chat[i] # 0 => chat[i] \in runs
  BY DEF Runs
<1> HIDE DEF runs
<1>7. OldestRunInput(page) = IF runs = {} THEN 0 ELSE Min(inputs)
  BY DEF OldestRunInput, runs
<1>8. CASE runs = {}
  BY <1>6, <1>7, <1>8
<1>9. CASE runs # {}
  <2>1. inputs \subseteq Nat /\ inputs # {} /\ inputs \subseteq Positive
    BY <1>5, <1>9 DEF Positive
  <2>2. \A r \in runs : inputOf[r] \in inputs
    OBVIOUS
  <2> HIDE DEF inputs
  <2>3. Min(inputs) \in inputs /\ \A j \in inputs : Min(inputs) <= j
    BY <2>1, MinOfNumbers
  <2>4. Min(inputs) \in Positive /\ OldestRunInput(page) = Min(inputs)
    BY <1>7, <1>9, <2>1, <2>3
  <2>5. ASSUME NEW i \in page.lo..page.hi, chat[i] # 0
        PROVE  OldestRunInput(page) > 0 /\ inputOf[chat[i]] >= OldestRunInput(page)
    <3>1. inputOf[chat[i]] \in inputs
      BY <1>6, <2>2, <2>5
    <3>2. Min(inputs) <= inputOf[chat[i]] /\ inputOf[chat[i]] \in Positive
      BY <2>1, <2>3, <3>1
    <3> QED BY <2>4, <3>2 DEF Positive
  <2> QED BY <2>4, <2>5 DEF Positive
<1> QED BY <1>8, <1>9

(* What the client gets: a range of rows that is whole, and that ends ahead *)
(* of the last page when it is an older one.                                *)
LEMMA ExpandedIsWhole ==
    ASSUME ChatInv, fetch # NoFetch
    PROVE  /\ Expanded \in Ranges /\ Expanded.lo <= Len(chat)
           /\ Whole(Expanded.lo, Expanded.hi, fetch.page)
           /\ ~fetch.tail => Expanded.hi = fetch.before - 1
<1> DEFINE page == fetch.page
           from == OldestRunInput(page)
           before == IF fetch.tail THEN Len(chat) + 1 ELSE fetch.before
           cap == Max({PageCap, fetch.limit})
<1>1. /\ page \in Ranges /\ fetch.limit \in Positive /\ fetch.tail \in BOOLEAN /\ fetch.before \in Nat
      /\ page.lo <= page.hi /\ page.hi <= Len(chat) /\ Len(chat) \in Nat
  BY LenProperties DEF ChatInv, ChatTypeOK, Fetches, FetchIsRows
<1>2. ~fetch.tail => page.hi = fetch.before - 1
  BY DEF ChatInv, FetchIsOlder
<1>3. cap \in Positive /\ cap >= PageCap /\ PageCap \in Positive
  <2>1. PageCap \in Positive
    BY WebChatAssumption DEF WebChatAssumption, Positive
  <2>2. Max({PageCap, fetch.limit}) = IF PageCap >= fetch.limit THEN PageCap ELSE fetch.limit
    BY <1>1, <2>1, MaxOfTwo DEF Positive
  <2> QED BY <1>1, <2>1, <2>2 DEF Positive
<1>4. /\ from \in Nat
      /\ \A i \in page.lo..page.hi : chat[i] # 0 => from > 0 /\ inputOf[chat[i]] >= from
  BY <1>1, OldestIsOldest
<1>5. \A i \in page.lo..page.hi : chat[i] # 0 => inputOf[chat[i]] \in Nat
  <2>1. /\ chat \in Seq(Nat) /\ inputOf \in Seq(Positive) /\ DOMAIN chat = 1..Len(chat) /\ Len(inputOf) \in Nat
    BY LenProperties DEF ChatInv, ChatTypeOK
  <2>2. ASSUME NEW i \in page.lo..page.hi, chat[i] # 0 PROVE inputOf[chat[i]] \in Nat
    <3>1. i \in 1..Len(chat)
      BY <1>1 DEF Ranges, Positive
    <3>2. chat[i] \in 1..Len(inputOf)
      BY <2>1, <2>2, <3>1, ElementOfSeq DEF ChatInv, RunsHaveInputs
    <3>3. inputOf[chat[i]] \in Positive
      BY <2>1, <3>2, ElementOfSeq
    <3> QED BY <3>3 DEF Positive
  <2> QED BY <2>2
<1>6. Expanded = IF from > 0 /\ from < page.lo THEN Load(from, before, cap) ELSE page
  BY DEF Expanded
<1>7. CASE from > 0 /\ from < page.lo
  <2>1. before \in Positive /\ from <= before - 1 /\ before - 1 <= Len(chat) /\ from \in Positive
    <3>1. CASE fetch.tail
      BY <1>1, <1>4, <1>7, <3>1 DEF Ranges, Positive
    <3>2. CASE ~fetch.tail
      <4>1. before = fetch.before /\ page.hi = before - 1
        BY <1>2, <3>2
      <4>2. fetch.before = pages[Len(pages)].lo
        BY <3>2 DEF ChatInv, FetchIsOlder
      <4>3. page.lo \in Nat /\ page.hi \in Nat
        BY <1>1 DEF Ranges, Positive
      <4>4. from <= page.hi /\ page.hi \in Positive
        BY <1>1, <1>4, <1>7, <4>3 DEF Positive
      <4>5. fetch.before \in Nat
        BY <1>1
      <4> HIDE DEF from, before, page
      <4> QED BY <1>1, <1>4, <1>7, <4>1, <4>3, <4>4, <4>5 DEF Positive
    <3> QED BY <3>1, <3>2
  <2> HIDE DEF from, before, cap, page
  <2>2. /\ Load(from, before, cap) \in Ranges /\ Load(from, before, cap).hi = before - 1
        /\ Load(from, before, cap).lo <= before - 1 /\ from <= Load(from, before, cap).lo
        /\ \/ Load(from, before, cap).lo = from
           \/ before - 1 - Load(from, before, cap).lo + 1 = cap
    BY <1>3, <2>1, LoadIsRange
  <2>3. Expanded = Load(from, before, cap)
    BY <1>6, <1>7
  <2>4. Whole(Expanded.lo, Expanded.hi, page)
    BY <1>3, <1>4, <2>1, <2>2, <2>3 DEF Whole, Ranges, Positive
  <2>5. ~fetch.tail => before = fetch.before
    BY DEF before
  <2>6. Expanded.lo <= Len(chat)
    BY <1>1, <2>1, <2>2, <2>3 DEF Ranges, Positive
  <2> QED BY <2>2, <2>3, <2>4, <2>5, <2>6 DEF page
<1>8. CASE ~(from > 0 /\ from < page.lo)
  <2> HIDE DEF from, before, cap, page
  <2>1. Expanded = page
    BY <1>6, <1>8
  <2>2. \A i \in page.lo..page.hi : chat[i] # 0 => inputOf[chat[i]] >= page.lo
    BY <1>1, <1>4, <1>5, <1>8 DEF Ranges, Positive
  <2>3. page.lo <= Len(chat)
    BY <1>1 DEF Ranges, Positive
  <2> QED BY <1>1, <1>2, <2>1, <2>2, <2>3 DEF Whole, page
<1> QED BY <1>7, <1>8

LEMMA ExpandKeeps == ChatInv /\ Expand => ChatInv'
<1> SUFFICES ASSUME ChatInv, Expand PROVE ChatInv'
  OBVIOUS
<1> DEFINE page == [lo |-> Expanded.lo, hi |-> Expanded.hi, cursor |-> Cursor(Expanded),
                    raw |-> fetch.page, limit |-> fetch.limit]
<1>1. /\ UNCHANGED <<chat, inputOf>> /\ fetch # NoFetch /\ fetch' = NoFetch
      /\ pages' = IF fetch.tail THEN <<page>> ELSE Append(pages, page)
  BY DEF Expand, NoFetch
<1>2. /\ Expanded \in Ranges /\ Expanded.lo <= Len(chat)
      /\ Whole(Expanded.lo, Expanded.hi, fetch.page)
      /\ ~fetch.tail => Expanded.hi = fetch.before - 1
  BY <1>1, ExpandedIsWhole
<1>3. fetch.page \in Ranges /\ fetch.limit \in Positive /\ fetch.page.hi <= Len(chat)
      /\ fetch.tail \in BOOLEAN
  BY <1>1 DEF ChatInv, ChatTypeOK, Fetches, FetchIsRows
<1>4. /\ page \in PageRecords /\ page.lo <= Len(chat) /\ page.raw.hi <= Len(chat)
      /\ Whole(page.lo, page.hi, page.raw)
      /\ page.cursor = IF page.lo > 1 THEN page.lo ELSE 0
      /\ ~fetch.tail => page.hi = fetch.before - 1
  BY <1>2, <1>3 DEF PageRecords, Ranges, Positive, Cursor
<1> HIDE DEF page
<1>5. ~fetch.tail => pages # <<>> /\ fetch.before = pages[Len(pages)].lo
  BY <1>1 DEF ChatInv, FetchIsOlder
<1>6. pages \in Seq(PageRecords) /\ Len(pages) \in Nat /\ DOMAIN pages = 1..Len(pages)
  BY LenProperties DEF ChatInv, ChatTypeOK
<1>7. ASSUME pages' \in Seq(PageRecords),
             \A k \in DOMAIN pages' : \/ k \in DOMAIN pages /\ pages'[k] = pages[k] /\ ~fetch.tail
                                      \/ pages'[k] = page /\ fetch.tail /\ k = 1
                                      \/ pages'[k] = page /\ ~fetch.tail /\ k = Len(pages) + 1
      PROVE  ChatInv'
  <2>1. ChatTypeOK' /\ RunsHaveInputs' /\ FetchIsRows' /\ FetchIsOlder'
    BY <1>1, <1>7 DEF ChatInv, ChatTypeOK, RunsHaveInputs, FetchIsRows, FetchIsOlder, Fetches
  <2>2. PagesAreRows' /\ LastIsFirst'
    BY <1>1, <1>4, <1>7 DEF ChatInv, PagesAreRows, LastIsFirst
  <2>3. PagesAreWhole'
    BY <1>1, <1>4, <1>7 DEF ChatInv, PagesAreWhole, Whole
  <2>4. ASSUME NEW k \in DOMAIN pages', k > 1 PROVE pages'[k].hi = pages'[k - 1].lo - 1
    <3>0. DOMAIN pages' = 1..Len(pages') /\ Len(pages') \in Nat
      BY <1>7, LenProperties
    <3>1. k - 1 \in DOMAIN pages' /\ ~fetch.tail
      BY <1>7, <2>4, <3>0
    <3>2. CASE k \in DOMAIN pages /\ pages'[k] = pages[k]
      <4>1. k - 1 \in DOMAIN pages /\ k - 1 # Len(pages) + 1
        BY <1>6, <2>4, <3>2
      <4>2. pages'[k - 1] = pages[k - 1]
        BY <1>7, <3>1, <4>1
      <4> QED BY <2>4, <3>2, <4>2 DEF ChatInv, PagesFollow
    <3>3. CASE pages'[k] = page /\ k = Len(pages) + 1
      <4>1. k - 1 = Len(pages)
        BY <1>6, <3>3
      <4>2. pages'[k - 1] = pages[k - 1]
        BY <1>6, <1>7, <3>1, <4>1
      <4> QED BY <1>4, <1>5, <3>1, <3>3, <4>1, <4>2
    <3> QED BY <1>7, <3>1, <3>2, <3>3
  <2> QED BY <2>1, <2>2, <2>3, <2>4 DEF ChatInv, PagesFollow
<1>8. CASE fetch.tail
  <2>1. pages' = <<page>>
    BY <1>1, <1>8
  <2>2. <<page>> \in Seq(PageRecords) /\ DOMAIN <<page>> = {1} /\ <<page>>[1] = page
    BY <1>4
  <2> QED BY <1>7, <1>8, <2>1, <2>2
<1>9. CASE ~fetch.tail
  <2>1. pages' = Append(pages, page)
    BY <1>1, <1>9
  <2>2. /\ pages' \in Seq(PageRecords) /\ Len(pages') = Len(pages) + 1
        /\ (\A k \in 1..Len(pages) : pages'[k] = pages[k]) /\ pages'[Len(pages) + 1] = page
    BY <1>4, <1>6, <2>1, AppendProperties
  <2>3. DOMAIN pages' = 1..(Len(pages) + 1)
    BY <2>2, LenProperties
  <2>4. \A k \in DOMAIN pages' : \/ k \in DOMAIN pages /\ pages'[k] = pages[k]
                                 \/ pages'[k] = page /\ k = Len(pages) + 1
    BY <1>6, <2>2, <2>3
  <2> QED BY <1>7, <1>9, <2>2, <2>4
<1> QED BY <1>3, <1>8, <1>9

LEMMA ChatKept == ChatInv /\ [ChatNext]_chatVars => ChatInv'
<1> SUFFICES ASSUME ChatInv, [ChatNext]_chatVars PROVE ChatInv'
  OBVIOUS
<1>1. CASE UNCHANGED chatVars
  BY <1>1 DEF chatVars, ChatInv, ChatTypeOK, RunsHaveInputs, PagesAreRows, FetchIsRows, FetchIsOlder,
         PagesFollow, LastIsFirst, PagesAreWhole, Whole
<1>2. CASE AppendChatRow
  BY <1>2, AppendChatRowGrows, GrowsKeeps
<1>3. ASSUME NEW i \in 1..MaxRows, NEW n \in 1..MaxRunRows, AppendRun(i, n) PROVE ChatInv'
  BY <1>3, AppendRunGrows, GrowsKeeps
<1>4. ASSUME NEW raw \in PageLimits \cup {0}, GetChat(raw) \/ GetOlder(raw) PROVE ChatInv'
  BY <1>4, FetchBeginsKeeps
<1> QED BY <1>1, <1>2, <1>3, <1>4, ExpandKeeps DEF ChatNext

(* The pages of a web chat join without a gap or a repetition, the last has *)
(* no cursor only where the conversation begins, and a page that is not     *)
(* full has the inputs of the runs that it was asked for, whatever is       *)
(* appended between the two queries (store.go, web.go).                     *)
THEOREM ChatPagesJoin == ChatSpec => []PagesJoin
<1>1. ChatInv => PagesJoin
  <2> SUFFICES ASSUME ChatInv, NEW k \in DOMAIN pages
               PROVE  /\ k > 1 => pages[k].hi = pages[k - 1].lo - 1
                      /\ pages[k].cursor = 0 <=> pages[k].lo = 1
                      /\ \/ pages[k].hi - pages[k].lo + 1 >= PageCap
                         \/ \A r \in Runs(pages[k].raw) : inputOf[r] >= pages[k].lo
    BY DEF PagesJoin
  <2>1. pages[k] \in PageRecords
    BY ElementOfSeq, LenProperties DEF ChatInv, ChatTypeOK
  <2>2. k > 1 => pages[k].hi = pages[k - 1].lo - 1
    BY DEF ChatInv, PagesFollow
  <2>3. pages[k].cursor = 0 <=> pages[k].lo = 1
    BY <2>1 DEF ChatInv, LastIsFirst, PageRecords, Positive
  <2>4. Whole(pages[k].lo, pages[k].hi, pages[k].raw)
    BY DEF ChatInv, PagesAreWhole
  <2> QED BY <2>2, <2>3, <2>4 DEF Whole, Runs
<1> QED BY ChatInitial, ChatKept, <1>1, PTL DEF ChatSpec

-----------------------------------------------------------------------------
(* The history of an agent.                                                 *)

CallIds == Nat \X Nat
Messages == [role : {"user", "reply"}]
            \cup [role : {"calls"}, id : CallIds, effects : Batches]
            \cup [role : {"result"}, id : CallIds, call : Positive]
Histories == Seq(Messages)

(* Every call in a history is answered, in order and right behind it, and   *)
(* every result answers one.                                                *)
CallsAnswered(ms, i) ==
    /\ i + Len(ms[i].effects) <= Len(ms)
    /\ \A k \in DOMAIN ms[i].effects : ms[i + k] = Result(ms[i].id, k)
ResultOwned(ms, i) ==
    /\ i > ms[i].call
    /\ ms[i - ms[i].call].role = "calls" /\ ms[i - ms[i].call].id = ms[i].id
    /\ ms[i].call \in DOMAIN ms[i - ms[i].call].effects
Paired(ms) ==
    /\ ms \in Histories
    /\ \A i \in DOMAIN ms : ms[i].role = "calls" => CallsAnswered(ms, i)
    /\ \A i \in DOMAIN ms : ms[i].role = "result" => ResultOwned(ms, i)

(* The last messages are a response's calls and the results of the first n. *)
Opened(id, batch, n) == <<Call(id, batch)>> \o Results(id, 1, n)
Open(ms, id, batch, n) == \E base \in Histories : Paired(base) /\ ms = base \o Opened(id, batch, n)

CallLists == Batches \cup {<<>>}
TurnRecords ==
    [at : {"request", "final", "execute", "batch"}, context : Histories, added : Histories, step : Nat,
     iterations : Nat, id : CallIds, effects : CallLists, running : SUBSET Nat, next : Nat,
     upto : Nat, cancelled : BOOLEAN]
Executing(t) == t.at \in {"execute", "batch"}
CallsAreCounted(t) ==
    /\ Executing(t) => t.effects \in Batches /\ t.next \in 1..Len(t.effects)
    /\ t.at = "batch" => t.upto \in t.next..Len(t.effects)
(* What a turn reads and what it will commit end alike.                     *)
EndsAlike(t, ms) == IF Executing(t) THEN Open(ms, t.id, t.effects, t.next - 1) ELSE Paired(ms)
TurnOK(t) == t \in TurnRecords /\ CallsAreCounted(t) /\ EndsAlike(t, t.context) /\ EndsAlike(t, t.added)

AgentInv == turns \in Nat /\ Paired(committed) /\ (turn # NoTurnYet => TurnOK(turn))

-----------------------------------------------------------------------------
LEMMA BatchesAreSeqs ==
    ASSUME NEW e \in Batches
    PROVE  e \in Seq({"read", "write"}) /\ Len(e) \in Positive /\ DOMAIN e = 1..Len(e)
<1>1. PICK n \in 1..MaxCalls : e \in [1..n -> {"read", "write"}]
  BY DEF Batches
<1>2. n \in Nat /\ n > 0 /\ DOMAIN e = 1..n
  BY <1>1, AgentAssumption DEF AgentAssumption
<1>3. e \in Seq({"read", "write"})
  BY <1>1, <1>2, SeqDef
<1>4. Len(e) = n
  BY <1>2, <1>3, LenProperties
<1> QED BY <1>2, <1>3, <1>4 DEF Positive

LEMMA MessageKinds ==
    /\ User \in Messages /\ User.role = "user"
    /\ Reply \in Messages /\ Reply.role = "reply"
    /\ \A id \in CallIds, e \in Batches :
         Call(id, e) \in Messages /\ Call(id, e).role = "calls" /\ Call(id, e).id = id /\ Call(id, e).effects = e
    /\ \A id \in CallIds, k \in Positive :
         Result(id, k) \in Messages /\ Result(id, k).role = "result" /\ Result(id, k).id = id /\ Result(id, k).call = k
BY DEF User, Reply, Call, Result, Messages

LEMMA MessageParts ==
    ASSUME NEW m \in Messages
    PROVE  /\ m.role = "calls" => m.id \in CallIds /\ m.effects \in Batches
           /\ m.role = "result" => m.id \in CallIds /\ m.call \in Positive
BY DEF Messages

LEMMA HistoryParts ==
    ASSUME NEW ms \in Histories
    PROVE  /\ Len(ms) \in Nat /\ DOMAIN ms = 1..Len(ms)
           /\ \A i \in 1..Len(ms) :
                /\ ms[i] \in Messages
                /\ ms[i].role = "calls" => /\ ms[i].id \in CallIds /\ ms[i].effects \in Batches
                                           /\ DOMAIN ms[i].effects = 1..Len(ms[i].effects)
                                           /\ Len(ms[i].effects) \in Positive
                /\ ms[i].role = "result" => ms[i].id \in CallIds /\ ms[i].call \in Positive
<1>1. Len(ms) \in Nat /\ DOMAIN ms = 1..Len(ms) /\ \A i \in 1..Len(ms) : ms[i] \in Messages
  BY LenProperties, ElementOfSeq DEF Histories
<1> QED BY <1>1, MessageParts, BatchesAreSeqs

LEMMA JoinParts ==
    ASSUME NEW s \in Histories, NEW t \in Histories
    PROVE  /\ s \o t \in Histories /\ Len(s \o t) = Len(s) + Len(t)
           /\ \A i \in 1..(Len(s) + Len(t)) : (s \o t)[i] = IF i <= Len(s) THEN s[i] ELSE t[i - Len(s)]
BY ConcatProperties, Zenon DEF Histories

LEMMA PairedJoin ==
    ASSUME NEW s, NEW t, Paired(s), Paired(t)
    PROVE  Paired(s \o t)
<1> DEFINE u == s \o t
           n == Len(s)
<1>1. s \in Histories /\ t \in Histories
  BY DEF Paired
<1>2. /\ u \in Histories /\ Len(u) = n + Len(t)
      /\ \A i \in 1..(n + Len(t)) : u[i] = IF i <= n THEN s[i] ELSE t[i - n]
  BY <1>1, JoinParts
<1> HIDE DEF u
<1>3. /\ n \in Nat /\ Len(t) \in Nat /\ DOMAIN u = 1..(n + Len(t)) /\ DOMAIN s = 1..n /\ DOMAIN t = 1..Len(t)
  BY <1>1, <1>2, HistoryParts
<1>4. \A i \in 1..n : u[i] = s[i]
  BY <1>2, <1>3
<1>5. ASSUME NEW j \in 1..Len(t) PROVE u[n + j] = t[j]
  <2>1. n + j \in 1..(n + Len(t)) /\ ~(n + j <= n) /\ n + j - n = j
    BY <1>3
  <2> QED BY <1>2, <2>1
<1>6. ASSUME NEW i \in DOMAIN u, u[i].role = "calls" PROVE CallsAnswered(u, i)
  <2>1. CASE i <= n
    <3>1. i \in 1..n /\ u[i] = s[i] /\ CallsAnswered(s, i)
      BY <1>3, <1>4, <1>6, <2>1 DEF Paired
    <3>2. Len(s[i].effects) \in Nat /\ DOMAIN s[i].effects = 1..Len(s[i].effects)
      BY <1>1, <1>6, <3>1, HistoryParts DEF Positive
    <3>3. \A k \in DOMAIN s[i].effects : i + k \in 1..n
      BY <1>3, <3>1, <3>2 DEF CallsAnswered
    <3>4. i + Len(s[i].effects) <= Len(u)
      BY <1>2, <1>3, <3>1, <3>2 DEF CallsAnswered
    <3> QED BY <1>4, <3>1, <3>3, <3>4 DEF CallsAnswered
  <2>2. CASE ~(i <= n)
    <3> DEFINE j == i - n
    <3>1. j \in 1..Len(t) /\ i = n + j
      BY <1>3, <2>2
    <3> HIDE DEF j
    <3>2. u[i] = t[j]
      BY <1>5, <3>1
    <3>3. CallsAnswered(t, j)
      BY <1>3, <1>6, <3>1, <3>2 DEF Paired
    <3>4. Len(t[j].effects) \in Nat /\ DOMAIN t[j].effects = 1..Len(t[j].effects)
      BY <1>1, <1>6, <3>1, <3>2, HistoryParts DEF Positive
    <3>5. ASSUME NEW k \in DOMAIN u[i].effects PROVE u[i + k] = Result(u[i].id, k)
      <4>1. j + k \in 1..Len(t) /\ i + k = n + (j + k)
        BY <1>3, <3>1, <3>2, <3>3, <3>4 DEF CallsAnswered
      <4>2. u[i + k] = t[j + k]
        BY <1>5, <4>1
      <4> QED BY <3>2, <3>3, <4>2 DEF CallsAnswered
    <3>6. i + Len(u[i].effects) <= Len(u)
      <4> DEFINE m == Len(t[j].effects)
      <4>1. m \in Nat /\ j + m <= Len(t) /\ j \in Nat /\ Len(u[i].effects) = m
        BY <1>3, <3>1, <3>2, <3>3, <3>4 DEF CallsAnswered
      <4> HIDE DEF m
      <4>2. i + m <= Len(u)
        BY <1>2, <1>3, <3>1, <4>1
      <4> QED BY <4>1, <4>2
    <3> QED BY <3>5, <3>6 DEF CallsAnswered
  <2> QED BY <2>1, <2>2
<1>7. ASSUME NEW i \in DOMAIN u, u[i].role = "result" PROVE ResultOwned(u, i)
  <2>1. CASE i <= n
    <3>1. i \in 1..n /\ u[i] = s[i] /\ ResultOwned(s, i) /\ s[i].call \in Nat /\ s[i].call > 0
      BY <1>1, <1>3, <1>4, <1>7, <2>1, HistoryParts DEF Paired, Positive
    <3>2. i - s[i].call \in 1..n
      BY <1>3, <3>1 DEF ResultOwned
    <3> QED BY <1>4, <3>1, <3>2 DEF ResultOwned
  <2>2. CASE ~(i <= n)
    <3> DEFINE j == i - n
    <3>1. j \in 1..Len(t) /\ i = n + j
      BY <1>3, <2>2
    <3> HIDE DEF j
    <3>2. u[i] = t[j]
      BY <1>5, <3>1
    <3>3. ResultOwned(t, j) /\ t[j].call \in Nat /\ t[j].call > 0
      BY <1>1, <1>3, <1>7, <3>1, <3>2, HistoryParts DEF Paired, Positive
    <3>4. j - t[j].call \in 1..Len(t) /\ i - u[i].call = n + (j - t[j].call) /\ i > u[i].call
      BY <1>3, <3>1, <3>2, <3>3 DEF ResultOwned
    <3>5. u[i - u[i].call] = t[j - t[j].call]
      BY <1>5, <3>4
    <3> QED BY <3>2, <3>3, <3>4, <3>5 DEF ResultOwned
  <2> QED BY <2>1, <2>2
<1>8. Paired(u)
  BY <1>2, <1>6, <1>7 DEF Paired
<1> QED BY <1>8 DEF u

LEMMA PairedEmpty == Paired(<<>>)
<1>1. <<>> \in Histories /\ DOMAIN <<>> = {}
  BY DEF Histories
<1> QED BY <1>1 DEF Paired

LEMMA PairedOne ==
    ASSUME NEW m \in {User, Reply}
    PROVE  Paired(<<m>>) /\ <<m>> \in Histories
<1>1. m \in Messages /\ m.role \notin {"calls", "result"}
  BY MessageKinds
<1>2. <<m>> \in Histories /\ DOMAIN <<m>> = {1} /\ <<m>>[1] = m
  BY <1>1 DEF Histories
<1> QED BY <1>1, <1>2 DEF Paired

LEMMA PairedAppend ==
    ASSUME NEW s, Paired(s), NEW m \in {User, Reply}
    PROVE  Paired(Append(s, m))
<1>1. m \in Messages /\ s \in Seq(Messages)
  BY MessageKinds DEF Paired, Histories
<1>2. Append(s, m) = s \o <<m>>
  BY <1>1, AppendIsConcat
<1> QED BY <1>2, PairedOne, PairedJoin

(* A run of results, and two that follow each other.                        *)
LEMMA ResultsParts ==
    ASSUME NEW id \in CallIds, NEW a \in Positive, NEW b \in Nat, a <= b + 1
    PROVE  /\ Results(id, a, b) \in Histories /\ Len(Results(id, a, b)) = b - a + 1
           /\ \A i \in 1..(b - a + 1) : Results(id, a, b)[i] = Result(id, a + i - 1)
<1> DEFINE n == b - a + 1
           rs == [i \in 1..n |-> Result(id, a + i - 1)]
<1>1. n \in Nat
  BY DEF Positive
<1>2. \A i \in 1..n : rs[i] = Result(id, a + i - 1) /\ a + i - 1 \in Positive
  BY DEF Positive
<1>3. rs \in [1..n -> Messages]
  BY <1>2, MessageKinds
<1>4. rs \in Histories
  <2> HIDE DEF rs, n
  <2> QED BY <1>1, <1>3, SeqDef DEF Histories
<1>5. Len(rs) = n
  <2>1. DOMAIN rs = 1..n
    OBVIOUS
  <2> HIDE DEF rs, n
  <2> QED BY <1>1, <1>4, <2>1, HistoryParts
<1>6. Results(id, a, b) = rs
  BY DEF Results
<1> QED BY <1>2, <1>4, <1>5, <1>6

LEMMA OpenedParts ==
    ASSUME NEW id \in CallIds, NEW e \in Batches, NEW n \in Nat
    PROVE  /\ Opened(id, e, n) \in Histories /\ Len(Opened(id, e, n)) = n + 1
           /\ Opened(id, e, n)[1] = Call(id, e)
           /\ \A k \in 1..n : Opened(id, e, n)[1 + k] = Result(id, k)
<1> DEFINE head == <<Call(id, e)>>
           rest == Results(id, 1, n)
<1>1. head \in Histories /\ Len(head) = 1 /\ head[1] = Call(id, e)
  BY MessageKinds DEF Histories
<1>2. rest \in Histories /\ Len(rest) = n /\ \A k \in 1..n : rest[k] = Result(id, k)
  <2>1. 1 \in Positive /\ 1 <= n + 1 /\ n - 1 + 1 = n
    BY DEF Positive
  <2>2. /\ rest \in Histories /\ Len(rest) = n - 1 + 1
        /\ \A k \in 1..(n - 1 + 1) : rest[k] = Result(id, 1 + k - 1)
    BY <2>1, ResultsParts
  <2>3. \A k \in 1..n : 1 + k - 1 = k
    OBVIOUS
  <2> HIDE DEF rest
  <2> QED BY <2>1, <2>2, <2>3
<1> HIDE DEF head, rest
<1>3. /\ head \o rest \in Histories /\ Len(head \o rest) = Len(head) + Len(rest)
      /\ \A i \in 1..(Len(head) + Len(rest)) :
           (head \o rest)[i] = IF i <= Len(head) THEN head[i] ELSE rest[i - Len(head)]
  BY <1>1, <1>2, JoinParts
<1>4. (head \o rest)[1] = Call(id, e)
  BY <1>1, <1>2, <1>3
<1>5. ASSUME NEW k \in 1..n PROVE (head \o rest)[1 + k] = Result(id, k)
  <2>1. 1 + k \in 1..(Len(head) + Len(rest)) /\ ~(1 + k <= Len(head)) /\ 1 + k - Len(head) = k
    BY <1>1, <1>2
  <2> QED BY <1>2, <1>3, <2>1
<1>6. Opened(id, e, n) = head \o rest
  BY DEF Opened, head, rest
<1>7. Len(head) + Len(rest) = n + 1
  BY <1>1, <1>2
<1> QED BY <1>3, <1>4, <1>5, <1>6, <1>7

LEMMA OpenedPaired ==
    ASSUME NEW id \in CallIds, NEW e \in Batches
    PROVE  Paired(Opened(id, e, Len(e)))
<1> DEFINE u == Opened(id, e, Len(e))
           n == Len(e)
<1>1. n \in Nat /\ DOMAIN e = 1..n
  BY BatchesAreSeqs DEF Positive
<1>2. u \in Histories /\ Len(u) = n + 1 /\ u[1] = Call(id, e) /\ \A k \in 1..n : u[1 + k] = Result(id, k)
  BY <1>1, OpenedParts
<1> HIDE DEF u
<1>3. DOMAIN u = 1..(n + 1)
  BY <1>2, HistoryParts
<1>4. u[1].role = "calls" /\ u[1].id = id /\ u[1].effects = e
  BY <1>2, MessageKinds
<1>5. \A k \in 1..n : u[1 + k].role = "result" /\ u[1 + k].id = id /\ u[1 + k].call = k
  BY <1>1, <1>2, MessageKinds DEF Positive
<1>6. ASSUME NEW i \in DOMAIN u, i # 1 PROVE i - 1 \in 1..n /\ i = 1 + (i - 1)
  BY <1>1, <1>3, <1>6
<1>7. ASSUME NEW i \in DOMAIN u, u[i].role = "calls" PROVE CallsAnswered(u, i)
  <2>1. i = 1
    BY <1>5, <1>6, <1>7
  <2>2. 1 + Len(e) <= Len(u)
    BY <1>1, <1>2
  <2> QED BY <1>1, <1>2, <1>4, <2>1, <2>2 DEF CallsAnswered
<1>8. ASSUME NEW i \in DOMAIN u, u[i].role = "result" PROVE ResultOwned(u, i)
  <2>1. i # 1
    BY <1>4, <1>8
  <2> DEFINE k == i - 1
  <2>2. k \in 1..n /\ i = 1 + k
    BY <1>6, <2>1
  <2> HIDE DEF k
  <2>3. u[i].id = id /\ u[i].call = k /\ i - k = 1 /\ i > k
    BY <1>1, <1>5, <2>2
  <2> QED BY <1>1, <1>4, <2>2, <2>3 DEF ResultOwned
<1>9. Paired(u)
  BY <1>2, <1>7, <1>8 DEF Paired
<1> QED BY <1>9 DEF u

LEMMA OpenedJoin ==
    ASSUME NEW id \in CallIds, NEW e \in Batches, NEW n \in Nat, NEW m \in Nat, n <= m
    PROVE  Opened(id, e, n) \o Results(id, n + 1, m) = Opened(id, e, m)
<1> DEFINE s == Opened(id, e, n)
           t == Results(id, n + 1, m)
           u == Opened(id, e, m)
<1>1. s \in Histories /\ Len(s) = n + 1 /\ s[1] = Call(id, e) /\ \A k \in 1..n : s[1 + k] = Result(id, k)
  BY OpenedParts
<1>2. u \in Histories /\ Len(u) = m + 1 /\ u[1] = Call(id, e) /\ \A k \in 1..m : u[1 + k] = Result(id, k)
  BY OpenedParts
<1>3. t \in Histories /\ Len(t) = m - n /\ \A i \in 1..(m - n) : t[i] = Result(id, n + i)
  <2>1. n + 1 \in Positive /\ n + 1 <= m + 1 /\ m - (n + 1) + 1 = m - n
    BY DEF Positive
  <2>2. /\ t \in Histories /\ Len(t) = m - (n + 1) + 1
        /\ \A i \in 1..(m - (n + 1) + 1) : t[i] = Result(id, (n + 1) + i - 1)
    BY <2>1, ResultsParts
  <2>3. \A i \in 1..(m - n) : (n + 1) + i - 1 = n + i
    OBVIOUS
  <2> HIDE DEF t
  <2> QED BY <2>1, <2>2, <2>3
<1> HIDE DEF s, t, u
<1>4. /\ s \o t \in Histories /\ Len(s \o t) = Len(s) + Len(t)
      /\ \A i \in 1..(Len(s) + Len(t)) : (s \o t)[i] = IF i <= Len(s) THEN s[i] ELSE t[i - Len(s)]
  BY <1>1, <1>3, JoinParts
<1> DEFINE w == s \o t
<1>5. Len(w) = m + 1 /\ Len(s) + Len(t) = m + 1
  BY <1>1, <1>3, <1>4
<1>6. ASSUME NEW i \in 1..(m + 1) PROVE w[i] = u[i]
  <2>1. w[i] = IF i <= n + 1 THEN s[i] ELSE t[i - (n + 1)]
    BY <1>1, <1>4, <1>5
  <2>2. CASE i = 1
    BY <1>1, <1>2, <2>1, <2>2
  <2>3. CASE i # 1 /\ i <= n + 1
    <3>1. i - 1 \in 1..n /\ i - 1 \in 1..m /\ 1 + (i - 1) = i
      BY <2>3
    <3>2. s[i] = Result(id, i - 1)
      BY <1>1, <3>1
    <3>3. u[i] = Result(id, i - 1)
      BY <1>2, <3>1
    <3> QED BY <2>1, <2>3, <3>2, <3>3
  <2>4. CASE ~(i <= n + 1)
    <3>1. i - (n + 1) \in 1..(m - n) /\ n + (i - (n + 1)) = i - 1 /\ i - 1 \in 1..m /\ 1 + (i - 1) = i
      BY <2>4
    <3>2. t[i - (n + 1)] = Result(id, i - 1)
      BY <1>3, <3>1
    <3>3. u[i] = Result(id, i - 1)
      BY <1>2, <3>1
    <3> QED BY <2>1, <2>4, <3>2, <3>3
  <2> QED BY <2>2, <2>3, <2>4
<1>7. w \in Seq(Messages) /\ u \in Seq(Messages) /\ Len(w) = Len(u) /\ \A i \in 1..Len(w) : w[i] = u[i]
  BY <1>2, <1>4, <1>5, <1>6 DEF Histories
<1> HIDE DEF w
<1>8. w = u
  BY <1>7, SeqEqual
<1> QED BY <1>8 DEF s, t, u, w

(* Results are added to an open response, and complete it.                  *)
LEMMA OpenContinues ==
    ASSUME NEW id \in CallIds, NEW e \in Batches, NEW n \in Nat, NEW m \in Nat, n <= m,
           NEW ms, Open(ms, id, e, n)
    PROVE  Open(ms \o Results(id, n + 1, m), id, e, m)
<1>1. PICK base \in Histories : Paired(base) /\ ms = base \o Opened(id, e, n)
  BY DEF Open
<1>2. Opened(id, e, n) \in Seq(Messages) /\ base \in Seq(Messages)
  BY OpenedParts DEF Histories
<1>3. Results(id, n + 1, m) \in Seq(Messages)
  <2>1. n + 1 \in Positive /\ n + 1 <= m + 1
    BY DEF Positive
  <2> QED BY <2>1, ResultsParts DEF Histories
<1>4. ms \o Results(id, n + 1, m) = base \o (Opened(id, e, n) \o Results(id, n + 1, m))
  <2> DEFINE mid == Opened(id, e, n)
             last == Results(id, n + 1, m)
  <2>1. mid \in Seq(Messages) /\ last \in Seq(Messages) /\ ms = base \o mid
    BY <1>1, <1>2, <1>3
  <2> HIDE DEF mid, last
  <2>2. (base \o mid) \o last = base \o (mid \o last)
    BY <1>2, <2>1, ConcatAssociative
  <2>3. ms \o last = base \o (mid \o last)
    BY <2>1, <2>2, Zenon
  <2> QED BY <2>3 DEF mid, last
<1>5. Opened(id, e, n) \o Results(id, n + 1, m) = Opened(id, e, m)
  BY OpenedJoin
<1>6. ms \o Results(id, n + 1, m) = base \o Opened(id, e, m)
  BY <1>4, <1>5, Zenon
<1> QED BY <1>1, <1>6 DEF Open

LEMMA OpenCompletes ==
    ASSUME NEW id \in CallIds, NEW e \in Batches, NEW ms, Open(ms, id, e, Len(e))
    PROVE  Paired(ms)
BY OpenedPaired, PairedJoin DEF Open

LEMMA OpenBegins ==
    ASSUME NEW id \in CallIds, NEW e \in Batches, NEW ms, Paired(ms)
    PROVE  Open(Append(ms, Call(id, e)), id, e, 0)
<1>1. Opened(id, e, 0) = <<Call(id, e)>>
  <2>1. /\ Opened(id, e, 0) \in Seq(Messages) /\ Len(Opened(id, e, 0)) = 1
        /\ Opened(id, e, 0)[1] = Call(id, e)
    <3>1. 0 \in Nat /\ 0 + 1 = 1
      OBVIOUS
    <3> QED BY <3>1, OpenedParts DEF Histories
  <2>2. <<Call(id, e)>> \in Seq(Messages) /\ Len(<<Call(id, e)>>) = 1 /\ <<Call(id, e)>>[1] = Call(id, e)
    BY MessageKinds
  <2>3. \A i \in 1..1 : i = 1
    OBVIOUS
  <2> DEFINE one == <<Call(id, e)>>
             two == Opened(id, e, 0)
  <2>4. one \in Seq(Messages) /\ two \in Seq(Messages) /\ Len(two) = Len(one) /\ \A i \in 1..Len(two) : two[i] = one[i]
    BY <2>1, <2>2, <2>3
  <2> HIDE DEF one, two
  <2>5. two = one
    BY <2>4, SeqEqual
  <2> QED BY <2>5 DEF one, two
<1>2. ms \in Seq(Messages) /\ Call(id, e) \in Messages
  BY MessageKinds DEF Paired, Histories
<1>3. Append(ms, Call(id, e)) = ms \o Opened(id, e, 0)
  BY <1>1, <1>2, AppendIsConcat
<1> QED BY <1>3 DEF Open, Paired

-----------------------------------------------------------------------------
LEMMA GreatestUpTo ==
    ASSUME NEW n \in Nat, NEW S, S \subseteq 1..n, S # {}
    PROVE  \E i \in S : \A j \in S : j <= i
<1> DEFINE above == {n - i : i \in S}
<1>1. above \subseteq Nat /\ above # {}
  <2>1. \A i \in S : n - i \in Nat
    OBVIOUS
  <2> QED BY <2>1
<1>2. PICK d \in above : \A e \in above : d <= e
  <2> HIDE DEF above
  <2> QED BY <1>1, MinOfNumbers
<1>3. PICK i \in S : d = n - i
  BY <1>2
<1>4. \A j \in S : j <= i
  BY <1>2, <1>3
<1> QED BY <1>4

(* The first message that is kept is no result, unless it is the first.     *)
LEMMA BlockStarts ==
    ASSUME NEW ms \in Histories, NEW start \in 1..Len(ms)
    PROVE  /\ ToolBlockStart(ms, start) \in 1..Len(ms)
           /\ ms[ToolBlockStart(ms, start)].role # "result" \/ ToolBlockStart(ms, start) = 1
<1> DEFINE Cuts(i) == /\ ms[i].role # "result" \/ i = 1
                      /\ \A j \in i + 1 .. start : ms[j].role = "result"
           begin == CHOOSE i \in 1..start : Cuts(i)
           heads == {i \in 1..start : ms[i].role # "result" \/ i = 1}
<1>1. Len(ms) \in Nat /\ start \in Nat /\ heads \subseteq 1..start /\ heads # {}
  BY HistoryParts
<1>2. \E i \in 1..start : Cuts(i)
  <2>1. PICK i \in heads : \A j \in heads : j <= i
    <3> HIDE DEF heads
    <3> QED BY <1>1, GreatestUpTo
  <2>2. \A j \in i + 1 .. start : j \in 1..start /\ ~(j <= i) /\ j # 1
    BY <2>1, <1>1
  <2> QED BY <2>1, <2>2
<1>3. begin \in 1..start /\ Cuts(begin)
  <2> HIDE DEF Cuts
  <2> QED BY <1>2
<1>4. ToolBlockStart(ms, start) =
        IF ms[begin].role = "calls" /\ begin > 1 /\ ms[begin - 1].role = "user" THEN begin - 1 ELSE begin
  BY DEF ToolBlockStart
<1>5. begin \in 1..Len(ms) /\ (ms[begin].role # "result" \/ begin = 1)
  BY <1>1, <1>3
<1> HIDE DEF begin
<1>6. CASE ms[begin].role = "calls" /\ begin > 1 /\ ms[begin - 1].role = "user"
  BY <1>1, <1>4, <1>5, <1>6
<1>7. CASE ~(ms[begin].role = "calls" /\ begin > 1 /\ ms[begin - 1].role = "user")
  BY <1>4, <1>5, <1>7
<1> QED BY <1>6, <1>7

(* So cutting there leaves no result without its calls.                     *)
LEMMA SuffixPaired ==
    ASSUME NEW ms, Paired(ms), NEW b \in 1..Len(ms), ms[b].role # "result" \/ b = 1
    PROVE  Paired(SubSeq(ms, b, Len(ms)))
<1> DEFINE n == Len(ms)
           u == SubSeq(ms, b, n)
           c == b - 1
<1>1. ms \in Histories /\ n \in Nat /\ DOMAIN ms = 1..n /\ b \in Nat /\ c \in Nat /\ b = c + 1
  BY HistoryParts DEF Paired
<1>2. u \in Histories /\ Len(u) = n - c /\ \A i \in 1..(n - c) : u[i] = ms[c + i]
  <2>1. b \in Int /\ n \in Int /\ b <= n /\ n - b + 1 = n - c
    BY <1>1
  <2>2. \A i \in b..n : ms[i] \in Messages
    BY <1>1, HistoryParts
  <2>3. /\ u \in Seq(Messages) /\ Len(u) = (IF b <= n THEN n - b + 1 ELSE 0)
        /\ \A i \in 1..(n - b + 1) : u[i] = ms[b + i - 1]
    <3> HIDE DEF n
    <3> QED BY <2>1, <2>2, SubSeqProperties
  <2>4. \A i \in 1..(n - c) : b + i - 1 = c + i
    BY <1>1
  <2> HIDE DEF u
  <2> QED BY <2>1, <2>3, <2>4 DEF Histories
<1> HIDE DEF u, c
<1>3. DOMAIN u = 1..(n - c) /\ \A i \in DOMAIN u : c + i \in 1..n /\ i \in Nat /\ i > 0
  BY <1>1, <1>2, HistoryParts
<1>4. ASSUME NEW i \in DOMAIN u, u[i].role = "calls" PROVE CallsAnswered(u, i)
  <2>1. u[i] = ms[c + i] /\ CallsAnswered(ms, c + i)
    BY <1>1, <1>2, <1>3, <1>4 DEF Paired
  <2>2. Len(u[i].effects) \in Nat /\ DOMAIN u[i].effects = 1..Len(u[i].effects)
    BY <1>2, <1>3, <1>4, HistoryParts DEF Positive
  <2>3. c + i + Len(u[i].effects) <= n
    BY <2>1 DEF CallsAnswered
  <2>4. i + Len(u[i].effects) <= Len(u)
    BY <1>1, <1>2, <1>3, <2>2, <2>3
  <2>5. ASSUME NEW k \in DOMAIN u[i].effects PROVE u[i + k] = Result(u[i].id, k)
    <3>1. i + k \in 1..(n - c) /\ c + (i + k) = c + i + k
      <4> DEFINE m == Len(u[i].effects)
      <4>1. m \in Nat /\ k \in 1..m /\ i + m <= n - c /\ i \in Nat /\ i > 0 /\ n \in Nat /\ c \in Nat
        BY <1>1, <1>2, <1>3, <2>2, <2>4
      <4> HIDE DEF m, n
      <4> QED BY <4>1
    <3>2. ms[c + i + k] = Result(u[i].id, k)
      BY <2>1 DEF CallsAnswered
    <3> QED BY <1>2, <3>1, <3>2
  <2> QED BY <2>4, <2>5 DEF CallsAnswered
<1>5. ASSUME NEW i \in DOMAIN u, u[i].role = "result" PROVE ResultOwned(u, i)
  <2> DEFINE p == c + i
             k == u[i].call
             a == p - k
  <2>1. u[i] = ms[p] /\ ResultOwned(ms, p) /\ k \in Nat /\ k > 0 /\ p \in 1..n
    BY <1>1, <1>2, <1>3, <1>5, HistoryParts DEF Paired, Positive
  <2>2. a \in 1..n /\ ms[a].role = "calls" /\ ms[a].id = ms[p].id /\ k \in DOMAIN ms[a].effects
    BY <1>1, <2>1 DEF ResultOwned
  <2>3. CallsAnswered(ms, a) /\ DOMAIN ms[a].effects = 1..Len(ms[a].effects) /\ Len(ms[a].effects) \in Nat
    BY <1>1, <2>2, HistoryParts DEF Paired, Positive
  <2>4. a >= b
    <3>1. SUFFICES ASSUME a < b PROVE FALSE
      BY <1>1, <2>2
    <3>2. b - a \in DOMAIN ms[a].effects /\ b = a + (b - a) /\ b # 1
      <4> DEFINE m == Len(ms[a].effects)
      <4>1. /\ a \in Nat /\ a > 0 /\ k \in 1..m /\ m \in Nat /\ b \in Nat /\ a < b /\ b <= p /\ p \in Nat
            /\ p = a + k
        <5>1. p \in Nat /\ k \in Nat /\ a = p - k
          BY <1>1, <2>1
        <5>2. p = a + k /\ a \in Nat /\ a > 0
          BY <1>1, <2>2, <5>1
        <5>3. b <= p
          BY <1>1, <1>3
        <5>4. k \in 1..m /\ m \in Nat
          BY <2>2, <2>3
        <5> HIDE DEF a, p, k, m
        <5> QED BY <1>1, <3>1, <5>1, <5>2, <5>3, <5>4
      <4>2. DOMAIN ms[a].effects = 1..m
        BY <2>3
      <4> HIDE DEF a, p, k, m
      <4>3. b - a \in 1..m /\ b = a + (b - a) /\ b # 1
        BY <4>1
      <4> QED BY <4>2, <4>3
    <3>3. ms[b] = Result(ms[a].id, b - a)
      BY <2>3, <3>2 DEF CallsAnswered
    <3>4. ms[b].role = "result"
      BY <3>3 DEF Result
    <3> QED BY <3>2, <3>4
  <2>5. i - k \in 1..(n - c) /\ c + (i - k) = a /\ i > k
    <3>1. /\ i \in Nat /\ i <= n - c /\ k \in Nat /\ k > 0 /\ n \in Nat /\ c \in Nat /\ b = c + 1
          /\ a = (c + i) - k /\ a >= b
      BY <1>1, <1>3, <2>1, <2>4
    <3> HIDE DEF a, p, k, n
    <3> QED BY <3>1
  <2>6. u[i - k] = ms[a]
    BY <1>2, <2>5
  <2> QED BY <2>1, <2>2, <2>5, <2>6 DEF ResultOwned
<1>6. Paired(u)
  BY <1>2, <1>4, <1>5 DEF Paired
<1> QED BY <1>6 DEF u

LEMMA TrimPaired == ASSUME NEW ms, Paired(ms) PROVE Paired(TrimHistory(ms))
<1>1. CASE MaxHistoryMessages > 0 /\ Len(ms) > MaxHistoryMessages
  <2> DEFINE start == Len(ms) - MaxHistoryMessages + 1
  <2>1. ms \in Histories /\ Len(ms) \in Nat /\ MaxHistoryMessages \in Nat
    BY HistoryParts, AgentAssumption DEF Paired, AgentAssumption
  <2>2. start \in 1..Len(ms)
    BY <1>1, <2>1
  <2> HIDE DEF start
  <2>3. Paired(SubSeq(ms, ToolBlockStart(ms, start), Len(ms)))
    BY <2>1, <2>2, BlockStarts, SuffixPaired
  <2> QED BY <1>1, <2>3 DEF TrimHistory, start
<1>2. CASE ~(MaxHistoryMessages > 0 /\ Len(ms) > MaxHistoryMessages)
  BY <1>2 DEF TrimHistory
<1> QED BY <1>1, <1>2

LEMMA BatchEnds ==
    ASSUME NEW e \in Batches, NEW start \in 1..Len(e)
    PROVE  BatchEnd(e, start) \in start..Len(e)
<1> DEFINE Cuts(k) == /\ \A j \in start..k : e[j] = "read"
                      /\ k = Len(e) \/ e[k + 1] # "read"
           ends == {k \in start..Len(e) : k = Len(e) \/ e[k + 1] # "read"}
<1>1. Len(e) \in Nat /\ start \in Nat /\ start <= Len(e)
  BY BatchesAreSeqs DEF Positive
<1>2. CASE e[start] # "read"
  BY <1>1, <1>2 DEF BatchEnd
<1>3. CASE e[start] = "read"
  <2>1. ends \subseteq Nat /\ ends # {}
    BY <1>1
  <2>2. PICK k \in ends : \A j \in ends : k <= j
    <3> HIDE DEF ends
    <3> QED BY <2>1, MinOfNumbers
  <2>3. ASSUME NEW j \in start..k PROVE e[j] = "read"
    <3>1. CASE j = start
      BY <1>3, <3>1
    <3>2. CASE j # start
      <4>1. j - 1 \in start..Len(e) /\ ~(k <= j - 1) /\ (j - 1) + 1 = j
        BY <1>1, <2>2, <3>2
      <4> QED BY <2>2, <4>1
    <3> QED BY <3>1, <3>2
  <2>4. Cuts(k) /\ k \in start..Len(e)
    BY <2>2, <2>3
  <2>5. (CHOOSE x \in start..Len(e) : Cuts(x)) \in start..Len(e)
    <3> HIDE DEF Cuts
    <3> QED BY <2>4
  <2> QED BY <1>3, <2>5 DEF BatchEnd
<1> QED BY <1>2, <1>3

-----------------------------------------------------------------------------
LEMMA AgentInitial == AgentInit => AgentInv
BY PairedEmpty DEF AgentInit, AgentInv

LEMMA PairedIsHistory == \A ms : Paired(ms) => ms \in Histories
BY DEF Paired

LEMMA OpenIsHistory ==
    ASSUME NEW id \in CallIds, NEW e \in Batches, NEW n \in Nat, NEW ms, Open(ms, id, e, n)
    PROVE  ms \in Histories
BY OpenedParts, JoinParts DEF Open

(* A turn that is asking the model again holds a whole history.             *)
LEMMA AsksAgain ==
    ASSUME NEW t \in TurnRecords, ~Executing(t), Paired(t.context), Paired(t.added)
    PROVE  TurnOK(t)
BY DEF TurnOK, CallsAreCounted, EndsAlike, Executing

(* What a response and a batch change of a turn.                            *)
Updated(t, pc, read, kept, round, iterations, call, batch, following) ==
    [t EXCEPT !.at = pc, !.context = read, !.added = kept, !.step = round, !.iterations = iterations,
              !.id = call, !.effects = batch, !.next = following]

LEMMA TurnFields ==
    ASSUME NEW t \in TurnRecords
    PROVE  /\ t.at \in {"request", "final", "execute", "batch"} /\ t.context \in Histories /\ t.added \in Histories
           /\ t.step \in Nat /\ t.iterations \in Nat /\ t.id \in CallIds /\ t.effects \in CallLists
           /\ t.next \in Nat /\ t.upto \in Nat
BY DEF TurnRecords

LEMMA BeginTurnKeeps == AgentInv /\ BeginTurn => AgentInv'
<1> SUFFICES ASSUME AgentInv, BeginTurn PROVE AgentInv'
  OBVIOUS
<1> DEFINE read == Append(TrimHistory(committed), User)
<1>1. /\ turns' = turns + 1 /\ turns' \in Nat /\ UNCHANGED committed
      /\ turn' = [at |-> "request", context |-> read, added |-> <<User>>, step |-> 1, iterations |-> 0,
                  id |-> <<0, 0>>, effects |-> <<>>, running |-> {}, next |-> 0, upto |-> 0,
                  cancelled |-> FALSE]
  BY DEF BeginTurn, AgentInv
<1>2. Paired(read) /\ read \in Histories
  BY TrimPaired, PairedAppend, PairedIsHistory DEF AgentInv
<1>3. Paired(<<User>>) /\ <<User>> \in Histories
  BY PairedOne
<1> HIDE DEF read
<1>4. turn' \in TurnRecords /\ ~Executing(turn') /\ turn'.context = read /\ turn'.added = <<User>>
  BY <1>1, <1>2, <1>3 DEF TurnRecords, CallIds, Executing, CallLists
<1>5. TurnOK(turn')
  BY <1>2, <1>3, <1>4, AsksAgain
<1> QED BY <1>1, <1>5 DEF AgentInv

LEMMA TurnEnds == ASSUME AgentInv, EndTurn, Paired(committed') PROVE AgentInv'
BY DEF AgentInv, EndTurn

(* The answer ends a history that is paired.                                *)
LEMMA AnswerKeeps == AgentInv /\ Answer => AgentInv'
<1> SUFFICES ASSUME AgentInv, Answer PROVE AgentInv'
  OBVIOUS
<1>1. Requesting /\ committed' = committed \o Append(turn.added, Reply) /\ EndTurn
  BY DEF Answer
<1>2. TurnOK(turn) /\ ~Executing(turn)
  BY <1>1 DEF AgentInv, Requesting, NoTurnYet, Executing
<1>3. Paired(Append(turn.added, Reply))
  BY <1>2, PairedAppend DEF TurnOK, EndsAlike
<1>4. Paired(committed')
  BY <1>1, <1>3, PairedJoin DEF AgentInv
<1> QED BY <1>1, <1>4, TurnEnds

LEMMA RespondKeeps ==
    ASSUME AgentInv, NEW batch \in Batches, Respond(batch)
    PROVE  AgentInv'
<1> DEFINE id == <<turns, turn.step>>
           call == Call(id, batch)
           all == Opened(id, batch, Len(batch))
<1>1. /\ turn.at = "request" /\ UNCHANGED <<committed, turns>> /\ TurnOK(turn) /\ ~Executing(turn)
      /\ turn \in TurnRecords /\ turns \in Nat
  BY DEF Respond, AgentInv, NoTurnYet, Executing, TurnOK
<1>2. /\ Paired(turn.context) /\ Paired(turn.added) /\ id \in CallIds /\ turn.step \in Nat
      /\ turn.iterations \in Nat
  BY <1>1 DEF TurnOK, EndsAlike, CallIds, TurnRecords
<1>3. Len(batch) \in Nat /\ Len(batch) > 0
  BY BatchesAreSeqs DEF Positive
<1> HIDE DEF id
<1>4. CASE turn' = [turn EXCEPT !.at = "final", !.context = @ \o all \o <<User>>,
                                !.added = @ \o all, !.step = @ + 1]
  <2>1. Paired(all)
    BY <1>2, OpenedPaired
  <2> DEFINE read == turn.context \o all \o <<User>>
             kept == turn.added \o all
  <2>2. Paired(read) /\ Paired(kept)
    BY <1>2, <2>1, PairedJoin, PairedOne
  <2> HIDE DEF all
  <2>3. turn' = [turn EXCEPT !.at = "final", !.context = read, !.added = kept, !.step = turn.step + 1]
    BY <1>4
  <2> HIDE DEF read, kept
  <2>4. turn' \in TurnRecords /\ ~Executing(turn') /\ turn'.context = read /\ turn'.added = kept
    <3>1. turn' = Updated(turn, "final", read, kept, turn.step + 1, turn.iterations,
                         turn.id, turn.effects, turn.next)
      BY <1>1, <2>3 DEF TurnRecords, Updated
    <3>2. read \in Histories /\ kept \in Histories /\ turn.step + 1 \in Nat
      BY <1>2, <2>2, PairedIsHistory
    <3>3. /\ turn.iterations \in Nat /\ turn.id \in CallIds /\ turn.effects \in CallLists
          /\ turn.next \in Nat /\ "final" \in {"request", "final", "execute", "batch"}
      BY <1>1, TurnFields
    <3>4. /\ turn' \in TurnRecords /\ turn'.at = "final" /\ turn'.context = read
          /\ turn'.added = kept
      BY <1>1, <3>1, <3>2, <3>3 DEF TurnRecords, Updated
    <3> QED BY <3>4 DEF Executing
  <2>5. TurnOK(turn')
    BY <2>2, <2>4, AsksAgain
  <2> QED BY <1>1, <2>5 DEF AgentInv
<1>5. CASE turn' = [turn EXCEPT !.at = "execute", !.iterations = @ + 1, !.id = id,
                                !.context = Append(@, call), !.added = Append(@, call),
                                !.effects = batch, !.next = 1]
  <2> DEFINE read == Append(turn.context, call)
             kept == Append(turn.added, call)
  <2>1. Open(read, id, batch, 0) /\ Open(kept, id, batch, 0)
    BY <1>2, OpenBegins
  <2>2. read \in Histories /\ kept \in Histories
    BY <1>2, <2>1, OpenIsHistory
  <2>3. turn' = [turn EXCEPT !.at = "execute", !.iterations = turn.iterations + 1, !.id = id,
                             !.context = read, !.added = kept, !.effects = batch, !.next = 1]
    BY <1>5
  <2> HIDE DEF read, kept
  <2>4. /\ turn' \in TurnRecords /\ turn'.at = "execute" /\ turn'.context = read /\ turn'.added = kept
        /\ turn'.id = id /\ turn'.effects = batch /\ turn'.next = 1 /\ turn'.next - 1 = 0
    <3>1. turn' = Updated(turn, "execute", read, kept, turn.step, turn.iterations + 1,
                         id, batch, 1)
      BY <1>1, <2>3 DEF TurnRecords, Updated
    <3>2. turn.iterations + 1 \in Nat /\ batch \in CallLists /\ 1 \in Nat /\ 1 - 1 = 0
      BY <1>2 DEF CallLists
    <3>3. turn.step \in Nat /\ "execute" \in {"request", "final", "execute", "batch"}
      BY <1>1, TurnFields
    <3>4. /\ turn' \in TurnRecords /\ turn'.at = "execute" /\ turn'.context = read
          /\ turn'.added = kept /\ turn'.id = id /\ turn'.effects = batch /\ turn'.next = 1
      BY <1>1, <1>2, <2>2, <3>1, <3>2, <3>3 DEF TurnRecords, Updated
    <3> QED BY <3>2, <3>4
  <2>5. Executing(turn') /\ CallsAreCounted(turn')
    BY <1>3, <2>4 DEF Executing, CallsAreCounted
  <2>6. TurnOK(turn')
    BY <2>1, <2>4, <2>5 DEF TurnOK, EndsAlike
  <2> QED BY <1>1, <2>6 DEF AgentInv
<1> QED BY <1>4, <1>5 DEF Respond, ToolLimit, Opened, id

LEMMA StartBatchKeeps == AgentInv /\ StartBatch => AgentInv'
<1> SUFFICES ASSUME AgentInv, StartBatch PROVE AgentInv'
  OBVIOUS
<1>1. turn.at = "execute" /\ TurnOK(turn) /\ turn \in TurnRecords
  BY DEF StartBatch, AgentInv, NoTurnYet, TurnOK
<1>2. CASE turn.cancelled
  BY <1>2, TurnEnds DEF StartBatch, FailTurn, AgentInv
<1>3. CASE ~turn.cancelled
  <2> DEFINE end == BatchEnd(turn.effects, turn.next)
  <2>1. /\ turn' = [turn EXCEPT !.at = "batch", !.upto = end, !.running = turn.next..end]
        /\ UNCHANGED <<committed, turns>>
    BY <1>3 DEF StartBatch
  <2>2. turn.effects \in Batches /\ turn.next \in 1..Len(turn.effects)
    BY <1>1 DEF TurnOK, CallsAreCounted, Executing
  <2>3. end \in turn.next..Len(turn.effects)
    BY <2>2, BatchEnds
  <2> HIDE DEF end
  <2>4. Len(turn.effects) \in Nat /\ turn.next \in Nat /\ end \in Nat /\ turn.next..end \subseteq Nat
    BY <2>2, <2>3, BatchesAreSeqs DEF Positive
  <2>5. /\ turn' \in TurnRecords /\ turn'.at = "batch" /\ turn'.upto = end
        /\ turn'.context = turn.context /\ turn'.added = turn.added /\ turn'.id = turn.id
        /\ turn'.effects = turn.effects /\ turn'.next = turn.next
    BY <1>1, <2>1, <2>4 DEF TurnRecords
  <2>6. TurnOK(turn')
    BY <1>1, <2>2, <2>3, <2>5 DEF TurnOK, CallsAreCounted, EndsAlike, Executing
  <2> QED BY <2>1, <2>6 DEF AgentInv
<1> QED BY <1>2, <1>3

(* The batch's results follow those before them; the last batch's complete  *)
(* the response.                                                            *)
LEMMA BatchReturnsKeeps == AgentInv /\ BatchReturns => AgentInv'
<1> SUFFICES ASSUME AgentInv, BatchReturns PROVE AgentInv'
  OBVIOUS
<1>1. turn.at = "batch" /\ TurnOK(turn) /\ turn \in TurnRecords
  BY DEF BatchReturns, AgentInv, NoTurnYet, TurnOK
<1>2. CASE turn.cancelled
  BY <1>2, TurnEnds DEF BatchReturns, FailTurn, AgentInv
<1>3. CASE ~turn.cancelled
  <2> DEFINE results == Results(turn.id, turn.next, turn.upto)
             done == turn.upto = Len(turn.effects)
             pc == IF done THEN "request" ELSE "execute"
             round == IF done THEN turn.step + 1 ELSE turn.step
             read == turn.context \o results
             kept == turn.added \o results
             n == turn.next - 1
  <2>1. /\ turn' = [turn EXCEPT !.at = pc, !.step = round, !.context = read, !.added = kept,
                                !.next = turn.upto + 1]
        /\ UNCHANGED <<committed, turns>>
    BY <1>3 DEF BatchReturns
  <2>2. /\ turn.effects \in Batches /\ turn.next \in 1..Len(turn.effects)
        /\ turn.upto \in turn.next..Len(turn.effects) /\ turn.id \in CallIds /\ turn.step \in Nat
        /\ Open(turn.context, turn.id, turn.effects, n) /\ Open(turn.added, turn.id, turn.effects, n)
    BY <1>1 DEF TurnOK, CallsAreCounted, EndsAlike, Executing, TurnRecords
  <2>3. Len(turn.effects) \in Nat
    BY <2>2, BatchesAreSeqs DEF Positive
  <2>4. n \in Nat /\ turn.upto \in Nat /\ n <= turn.upto /\ n + 1 = turn.next /\ turn.upto <= Len(turn.effects)
    BY <2>2, <2>3
  <2> HIDE DEF n
  <2>5. /\ Open(read, turn.id, turn.effects, turn.upto)
        /\ Open(kept, turn.id, turn.effects, turn.upto)
    BY <2>2, <2>4, OpenContinues
  <2>6. read \in Histories /\ kept \in Histories
    BY <2>2, <2>4, <2>5, OpenIsHistory
  <2> HIDE DEF read, kept
  <2>7. /\ turn' \in TurnRecords /\ turn'.at = pc /\ turn'.context = read /\ turn'.added = kept
        /\ turn'.id = turn.id /\ turn'.effects = turn.effects /\ turn'.next = turn.upto + 1
    <3>1. turn' = Updated(turn, pc, read, kept, round, turn.iterations,
                         turn.id, turn.effects, turn.upto + 1)
      BY <1>1, <2>1 DEF TurnRecords, Updated
    <3>2. pc \in {"request", "final", "execute", "batch"} /\ round \in Nat /\ turn.upto + 1 \in Nat
      BY <2>2, <2>4
    <3> HIDE DEF pc, round
    <3>3. turn.iterations \in Nat /\ turn.id \in CallIds /\ turn.effects \in CallLists
      BY <1>1, TurnFields
    <3> QED BY <1>1, <2>6, <3>1, <3>2, <3>3 DEF TurnRecords, Updated
  <2>8. CASE done
    <3>1. Paired(read) /\ Paired(kept)
      BY <2>2, <2>5, <2>8, OpenCompletes
    <3>2. TurnOK(turn')
      BY <2>7, <2>8, <3>1, AsksAgain DEF Executing
    <3> QED BY <2>1, <3>2 DEF AgentInv
  <2>9. CASE ~done
    <3>1. turn'.next \in 1..Len(turn.effects) /\ turn'.next - 1 = turn.upto /\ turn'.at = "execute"
      BY <2>3, <2>4, <2>7, <2>9
    <3>2. TurnOK(turn')
      BY <2>2, <2>5, <2>7, <3>1 DEF TurnOK, CallsAreCounted, EndsAlike, Executing
    <3> QED BY <2>1, <3>2 DEF AgentInv
  <2> QED BY <2>8, <2>9
<1> QED BY <1>2, <1>3

(* Cancelling, and a call that returns, change nothing of that.             *)
LEMMA TurnMarked ==
    ASSUME AgentInv, turn # NoTurnYet, UNCHANGED <<committed, turns>>,
           NEW c \in BOOLEAN, NEW r \in SUBSET Nat, turn' = [turn EXCEPT !.cancelled = c, !.running = r]
    PROVE  AgentInv'
<1>1. turn \in TurnRecords /\ TurnOK(turn)
  BY DEF AgentInv, TurnOK
<1>2. /\ turn' \in TurnRecords /\ turn'.at = turn.at /\ turn'.context = turn.context
      /\ turn'.added = turn.added /\ turn'.id = turn.id /\ turn'.effects = turn.effects
      /\ turn'.next = turn.next /\ turn'.upto = turn.upto
  BY <1>1 DEF TurnRecords
<1>3. TurnOK(turn')
  BY <1>1, <1>2 DEF TurnOK, CallsAreCounted, EndsAlike, Executing
<1> QED BY <1>3 DEF AgentInv

LEMMA AgentKept == AgentInv /\ [AgentNext]_agentVars => AgentInv'
<1> SUFFICES ASSUME AgentInv, [AgentNext]_agentVars PROVE AgentInv'
  OBVIOUS
<1>1. CASE UNCHANGED agentVars \/ StreamDelta
  <2>1. UNCHANGED <<committed, turn, turns>>
    BY <1>1 DEF agentVars, StreamDelta
  <2> QED BY <2>1 DEF AgentInv
<1>2. CASE Reset
  BY <1>2, PairedEmpty DEF Reset, AgentInv
<1>3. CASE Cancel
  <2>1. turn # NoTurnYet
    BY <1>3 DEF Cancel, NoTurnYet
  <2>2. turn \in TurnRecords /\ turn.running \in SUBSET Nat
    BY <2>1 DEF AgentInv, TurnOK, TurnRecords
  <2>3. turn' = [turn EXCEPT !.cancelled = TRUE, !.running = turn.running]
    BY <1>3, <2>2 DEF Cancel, TurnRecords
  <2> QED BY <1>3, <2>1, <2>2, <2>3, TurnMarked DEF Cancel
<1>4. ASSUME NEW k \in 1..MaxCalls, CallReturns(k) PROVE AgentInv'
  <2>1. turn # NoTurnYet
    BY <1>4 DEF CallReturns, NoTurnYet
  <2>2. turn \in TurnRecords /\ turn.running \ {k} \in SUBSET Nat /\ turn.cancelled \in BOOLEAN
    BY <2>1 DEF AgentInv, TurnOK, TurnRecords
  <2>3. turn' = [turn EXCEPT !.cancelled = turn.cancelled, !.running = turn.running \ {k}]
    BY <1>4, <2>2 DEF CallReturns, TurnRecords
  <2> QED BY <1>4, <2>1, <2>2, <2>3, TurnMarked DEF CallReturns
<1>5. CASE RequestFails
  BY <1>5, TurnEnds DEF RequestFails, FailTurn, AgentInv
<1>6. ASSUME NEW batch \in Batches, Respond(batch) PROVE AgentInv'
  BY <1>6, RespondKeeps
<1> QED BY <1>1, <1>2, <1>3, <1>4, <1>5, <1>6, BeginTurnKeeps, AnswerKeeps, StartBatchKeeps, BatchReturnsKeeps
       DEF AgentNext

(* Every history that an agent sends to a provider is paired: each call has *)
(* its results behind it in order, and no result lacks its calls, whatever  *)
(* was trimmed, cancelled or cut off by the tool limit (agent.go, turn.go). *)
THEOREM AgentRequestsArePaired == AgentSpec => []RequestIsPaired
<1>1. AgentInv => RequestIsPaired
  <2> SUFFICES ASSUME AgentInv, Requesting, NEW i \in DOMAIN turn.context
               PROVE  LET m == turn.context[i]
                      IN /\ m.role = "calls" =>
                               /\ i + Len(m.effects) <= Len(turn.context)
                               /\ \A k \in DOMAIN m.effects : turn.context[i + k] = Result(m.id, k)
                         /\ m.role = "result" =>
                               /\ i > m.call
                               /\ turn.context[i - m.call].role = "calls"
                               /\ turn.context[i - m.call].id = m.id
    BY DEF RequestIsPaired
  <2>1. Paired(turn.context)
    BY DEF AgentInv, Requesting, NoTurnYet, TurnOK, EndsAlike, Executing
  <2> QED BY <2>1 DEF Paired, CallsAnswered, ResultOwned
<1> QED BY AgentInitial, AgentKept, <1>1, PTL DEF AgentSpec
=============================================================================

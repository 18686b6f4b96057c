---------------------------- MODULE WebSessions ----------------------------
(***************************************************************************)
(* Caliban's web login (caliban/internal/web/auth.go): the sessions kept   *)
(* in SQLite, the failed attempts kept in memory, and HTTP handlers that   *)
(* read and change both at the same time.  A handler's calls of the store  *)
(* and of the limiter are steps of their own.                              *)
(***************************************************************************)
EXTENDS Integers, FiniteSets

CONSTANTS
    Handlers,          \* requests that run at the same time
    Addresses,         \* client addresses, the limiter's keys
    Tokens,            \* session tokens that can be drawn
    SessionTTL, TouchInterval, AttemptWindow, MaxLoginAttempts,
    MaxWebClock,       \* bound: time
    MaxWebFaults       \* bound: failing statements

ASSUME WebSessionsAssumption ==
    /\ {SessionTTL, TouchInterval, AttemptWindow, MaxLoginAttempts} \subseteq Nat \ {0}
    /\ {MaxWebClock, MaxWebFaults} \subseteq Nat

VARIABLES
    clock, webFaults,
    password,          \* the stored password's generation; 0: not set
    sessions,          \* web_sessions: token -> row or NoSession
    failures,          \* loginLimiter.attempts: address -> record or NoAttempt
    request,           \* what each handler is doing
    cookies,           \* tokens that a client was given
    ended              \* tokens whose row was deleted by a logout or after its expiry

webVars == <<clock, webFaults, password, sessions, failures, request, cookies, ended>>

NoSession == [seen |-> -1, expires |-> -1]
NoAttempt == [count |-> 0, reset |-> -1]
Resting == [at |-> "rest"]

Moment == 0..(MaxWebClock + SessionTTL + AttemptWindow)

WebTypeOK ==
    /\ clock \in 0..MaxWebClock /\ webFaults \in 0..MaxWebFaults
    /\ password \in 0..2
    /\ sessions \in [Tokens -> [seen : Moment, expires : Moment] \cup {NoSession}]
    /\ failures \in [Addresses -> [count : Nat \ {0}, reset : Moment] \cup {NoAttempt}]
    /\ cookies \subseteq Tokens /\ ended \subseteq Tokens
    /\ \A h \in Handlers : request[h].at \in
          {"rest", "login", "failed", "expired", "create", "clear",
           "session", "judge", "drop", "touch", "accepted", "refused"}

WebInit ==
    /\ clock = 0 /\ webFaults = 0
    /\ password \in {0, 1}
    /\ sessions = [t \in Tokens |-> NoSession]
    /\ failures = [a \in Addresses |-> NoAttempt]
    /\ request = [h \in Handlers |-> Resting]
    /\ cookies = {} /\ ended = {}

HandlerAt(h, at) == request[h].at = at
HandlerTo(h, at) == request' = [request EXCEPT ![h].at = at]
WebFault == webFaults < MaxWebFaults /\ webFaults' = webFaults + 1

(* An attempt's record counts until its window ends. *)
Counting(a, now) == failures[a] # NoAttempt /\ now < failures[a].reset

-----------------------------------------------------------------------------
(* POST /api/auth/login *)

(* The handler reads the clock once and asks the limiter. *)
Allow(h, a, guess) ==
    /\ HandlerAt(h, "rest")
    /\ failures' = IF Counting(a, clock) THEN failures
                   ELSE [failures EXCEPT ![a] = NoAttempt]
    /\ request' = [request EXCEPT ![h] =
           [at |-> IF Counting(a, clock) /\ failures[a].count >= MaxLoginAttempts
                   THEN "refused" ELSE "login",
            address |-> a, guess |-> guess, now |-> clock]]
    /\ UNCHANGED <<clock, webFaults, password, sessions, cookies, ended>>

(* A body that does not decode, a store that fails or has no password. *)
LoginRefused(h) ==
    /\ HandlerAt(h, "login")
    /\ HandlerTo(h, "refused")
    /\ UNCHANGED <<clock, webFaults, password, sessions, failures, cookies, ended>>

(* The stored hash, if there is one, is read and compared with what the      *)
(* client sent.                                                             *)
PasswordHash == {password} \ {0}
Compare(h) ==
    /\ HandlerAt(h, "login")
    /\ \E hash \in PasswordHash :
          HandlerTo(h, IF request[h].guess = hash THEN "expired" ELSE "failed")
    /\ UNCHANGED <<clock, webFaults, password, sessions, failures, cookies, ended>>

(* Mutant: every failure begins a window of its own. *)
RecordFailureAnew(h) ==
    LET a == request[h].address
        now == request[h].now
    IN /\ HandlerAt(h, "failed")
       /\ failures' = [failures EXCEPT ![a] = [count |-> 1, reset |-> now + AttemptWindow]]
       /\ HandlerTo(h, "refused")
       /\ UNCHANGED <<clock, webFaults, password, sessions, cookies, ended>>

(* The failure is counted at the time the request began. *)
RecordFailure(h) ==
    LET a == request[h].address
        now == request[h].now
    IN /\ HandlerAt(h, "failed")
       /\ failures' = [failures EXCEPT ![a] =
              IF Counting(a, now) THEN [count |-> failures[a].count + 1, reset |-> failures[a].reset]
              ELSE [count |-> 1, reset |-> now + AttemptWindow]]
       /\ HandlerTo(h, "refused")
       /\ UNCHANGED <<clock, webFaults, password, sessions, cookies, ended>>

(* Rows that had expired when the request began; a failure is ignored. *)
DeleteExpiredSessions(h) ==
    LET old == {t \in Tokens : sessions[t] # NoSession /\ sessions[t].expires <= request[h].now}
    IN /\ HandlerAt(h, "expired")
       /\ \/ /\ sessions' = [t \in Tokens |-> IF t \in old THEN NoSession ELSE sessions[t]]
             /\ ended' = ended \cup old
             /\ UNCHANGED webFaults
          \/ WebFault /\ UNCHANGED <<sessions, ended>>
       /\ HandlerTo(h, "create")
       /\ UNCHANGED <<clock, password, failures, cookies>>

(* A new token, whose row lives for SessionTTL from the request's start. *)
CreateSession(h) ==
    /\ HandlerAt(h, "create")
    /\ \/ \E t \in Tokens :
             /\ t \notin ended /\ sessions[t] = NoSession
             /\ sessions' = [sessions EXCEPT ![t] =
                    [seen |-> request[h].now, expires |-> request[h].now + SessionTTL]]
             /\ request' = [request EXCEPT ![h] =
                    [at |-> "clear", address |-> request[h].address, token |-> t]]
             /\ UNCHANGED webFaults
       \/ WebFault /\ HandlerTo(h, "refused") /\ UNCHANGED sessions
    /\ UNCHANGED <<clock, password, failures, cookies, ended>>

(* The address's failures are forgotten and the cookie is sent. *)
ClearAttempts(h) ==
    /\ HandlerAt(h, "clear")
    /\ failures' = [failures EXCEPT ![request[h].address] = NoAttempt]
    /\ cookies' = cookies \cup {request[h].token}
    /\ request' = [request EXCEPT ![h] = Resting]
    /\ UNCHANGED <<clock, webFaults, password, sessions, ended>>

-----------------------------------------------------------------------------
(* Any other request: authMiddleware, then its handler.                     *)

(* A request arrives with a cookie; "late" says that its session had ended. *)
Arrive(h, t) ==
    /\ HandlerAt(h, "rest")
    /\ t \in cookies
    /\ request' = [request EXCEPT ![h] =
           [at |-> "session", token |-> t, row |-> NoSession,
            late |-> t \in ended \/ (sessions[t] # NoSession /\ sessions[t].expires <= clock)]]
    /\ UNCHANGED <<clock, webFaults, password, sessions, failures, cookies, ended>>

ReadSession(h) ==
    LET row == sessions[request[h].token]
    IN /\ HandlerAt(h, "session")
       /\ \/ /\ request' = [request EXCEPT ![h].at = IF row = NoSession THEN "refused" ELSE "judge",
                                           ![h].row = row]
             /\ UNCHANGED webFaults
          \/ WebFault /\ HandlerTo(h, "refused")
       /\ UNCHANGED <<clock, password, sessions, failures, cookies, ended>>

(* The row that was read is judged by the clock: expired, to be touched, or *)
(* as it is.                                                                *)
Judge(h) ==
    LET row == request[h].row
    IN /\ HandlerAt(h, "judge")
       /\ HandlerTo(h, IF row.expires <= clock THEN "drop"
                       ELSE IF clock - row.seen >= TouchInterval THEN "touch" ELSE "accepted")
       /\ UNCHANGED <<clock, webFaults, password, sessions, failures, cookies, ended>>

DeleteRow(t) ==
    /\ sessions' = [sessions EXCEPT ![t] = NoSession]
    /\ ended' = ended \cup {t}

DropExpired(h) ==
    /\ HandlerAt(h, "drop")
    /\ \/ DeleteRow(request[h].token) /\ UNCHANGED webFaults
       \/ WebFault /\ UNCHANGED <<sessions, ended>>
    /\ HandlerTo(h, "refused")
    /\ UNCHANGED <<clock, password, failures, cookies>>

(* Mutant: a row that is gone is inserted again. *)
TouchUpserts(t) ==
    sessions' = [sessions EXCEPT ![t] = [seen |-> clock, expires |-> clock + SessionTTL]]

(* last_seen_at of a row that may be gone by now. *)
TouchSession(t) ==
    sessions' = IF sessions[t] = NoSession THEN sessions ELSE [sessions EXCEPT ![t].seen = clock]

Touch(h) ==
    /\ HandlerAt(h, "touch")
    /\ \/ TouchSession(request[h].token) /\ UNCHANGED webFaults
       \/ WebFault /\ UNCHANGED sessions
    /\ HandlerTo(h, "accepted")
    /\ UNCHANGED <<clock, password, failures, cookies, ended>>

(* An accepted request is served, POST /api/auth/logout among them. *)
Serve(h) ==
    /\ request[h].at \in {"accepted", "refused"}
    /\ request' = [request EXCEPT ![h] = Resting]
    /\ UNCHANGED <<clock, webFaults, password, sessions, failures, cookies, ended>>

Logout(h) ==
    /\ HandlerAt(h, "accepted")
    /\ \/ DeleteRow(request[h].token) /\ UNCHANGED webFaults
       \/ WebFault /\ UNCHANGED <<sessions, ended>>
    /\ request' = [request EXCEPT ![h] = Resting]
    /\ UNCHANGED <<clock, password, failures, cookies>>

-----------------------------------------------------------------------------
(* The command line sets the password; sessions stay. *)
SetPassword ==
    /\ password < 2
    /\ password' = password + 1
    /\ UNCHANGED <<clock, webFaults, sessions, failures, request, cookies, ended>>

(* A restart forgets the attempts and the requests. *)
WebRestarts ==
    /\ WebFault
    /\ failures' = [a \in Addresses |-> NoAttempt]
    /\ request' = [h \in Handlers |-> Resting]
    /\ UNCHANGED <<clock, password, sessions, cookies, ended>>

WebClockTicks ==
    /\ clock < MaxWebClock
    /\ clock' = clock + 1
    /\ UNCHANGED <<webFaults, password, sessions, failures, request, cookies, ended>>

LoginStep(h) ==
    \/ \E a \in Addresses, guess \in 1..2 : Allow(h, a, guess)
    \/ LoginRefused(h) \/ Compare(h) \/ RecordFailure(h)
    \/ DeleteExpiredSessions(h) \/ CreateSession(h) \/ ClearAttempts(h)

RequestStep(h) ==
    \/ \E t \in Tokens : Arrive(h, t)
    \/ ReadSession(h) \/ Judge(h) \/ DropExpired(h) \/ Touch(h) \/ Serve(h) \/ Logout(h)

WebNext ==
    \/ \E h \in Handlers : LoginStep(h) \/ RequestStep(h)
    \/ SetPassword \/ WebRestarts \/ WebClockTicks

WebSpec == WebInit /\ [][WebNext]_webVars

-----------------------------------------------------------------------------
(* A session that ended, by a logout or by its age, is not accepted from a  *)
(* request that comes after it, whatever was being done for it by requests  *)
(* that were already there.                                                 *)
EndedStaysEnded == \A h \in Handlers : HandlerAt(h, "accepted") => ~request[h].late

(* A client that used up its attempts has none before the window that it    *)
(* began with ends, unless a login succeeds from there.                     *)
LockoutHolds ==
    [][\A a \in Addresses :
          Counting(a, clock) /\ failures[a].count >= MaxLoginAttempts
             => \/ failures'[a] # NoAttempt /\ failures'[a].count >= failures[a].count
                                            /\ failures'[a].reset = failures[a].reset
                \/ \E h \in Handlers : HandlerAt(h, "clear") /\ request[h].address = a
                \/ WebRestarts]_webVars
=============================================================================

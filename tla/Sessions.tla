------------------------------- MODULE Sessions -------------------------------
(***************************************************************************)
(* Login sessions of one user: AuthenticationService                       *)
(* (src/src/modules/auth/authentication.service.ts) and the strategies that*)
(* accept its tokens.  A refresh token is a signed JWT of the user and the *)
(* second it was issued in, without an identifier of its own, so a token is*)
(* modelled by that second: two tokens of one second are the same string.  *)
(* An access token names its session as well.                              *)
(***************************************************************************)
EXTENDS Integers, FiniteSets

CONSTANTS
    Refreshes,          \* requests of POST /auth/refresh
    Revocations,        \* requests of POST /auth/revoke
    SessionBinding,     \* AUTH_ACCESS_TOKEN_SESSION_BINDING_ENABLED
    Lifetime,           \* AUTH_REFRESH_TOKEN_EXPIRES_IN, in seconds
    AccessLifetime,     \* AUTH_ACCESS_TOKEN_EXPIRES_IN, in seconds
    MaxLogins,          \* bound: sessions
    MaxNow              \* bound: seconds that pass

ASSUME SessionsAssumption ==
    /\ Refreshes \cap Revocations = {}
    /\ SessionBinding \in BOOLEAN
    /\ Lifetime \in Nat \ {0} /\ AccessLifetime \in Nat \ {0}
    /\ MaxLogins \in Nat /\ MaxNow \in Nat

VARIABLES
    sessions,   \* rows of the session table by id
    now,        \* Date.now() in seconds
    logins,     \* ids given out
    authReq,    \* refreshes and revocations
    granted,    \* history: the refresh token handed out last for each session
    accesses,   \* history: access tokens handed out
    ended,      \* history: sessions that were ended while no refresh held them
    disturbed   \* history: sessions somebody ended

sessionHistory == <<granted, accesses, ended, disturbed>>
sessionVars == <<sessions, now, logins, authReq, sessionHistory>>

SessionIds == 1 .. MaxLogins
Token == 0 .. MaxNow
Row == [token : Token, revoked : BOOLEAN, expires : 0 .. MaxNow + Lifetime]
AccessToken == [sid : SessionIds, at : Token]

\* held: the row as the request read it, in memory, under its id.
AuthRequest == [pc : {"new", "guarded", "read", "ended"}, token : Token,
                held : {{}} \cup {{h} : h \in [id : SessionIds, row : Row]}]
NewAuthRequest == [pc |-> "new", token |-> 0, held |-> {}]
EndedAuthRequest == [NewAuthRequest EXCEPT !.pc = "ended"]

SessionsTypeOK ==
    /\ DOMAIN sessions \subseteq 1 .. logins
    /\ \A id \in DOMAIN sessions : sessions[id] \in Row
    /\ now \in Token
    /\ logins \in 0 .. MaxLogins
    /\ authReq \in [Refreshes \cup Revocations -> AuthRequest]
    /\ DOMAIN granted = 1 .. logins
    /\ accesses \subseteq AccessToken
    /\ ended \subseteq 1 .. logins /\ disturbed \subseteq 1 .. logins

SessionsInit ==
    /\ sessions = [id \in {} |-> NewAuthRequest]
    /\ now = 0
    /\ logins = 0
    /\ authReq = [r \in Refreshes \cup Revocations |-> NewAuthRequest]
    /\ granted = [id \in {} |-> 0]
    /\ accesses = {} /\ ended = {} /\ disturbed = {}

SessionTick ==
    /\ now < MaxNow
    /\ now' = now + 1
    /\ UNCHANGED <<sessions, logins, authReq, sessionHistory>>

Unrevoked(t) == {id \in DOMAIN sessions : sessions[id].token = t /\ ~sessions[id].revoked}

\* isSessionActive; getUserSessions lists these rows.
Active(id) == id \in DOMAIN sessions /\ ~sessions[id].revoked /\ sessions[id].expires > now

\* isTokenRevoked, once the signature and the expiry of the JWT have been checked.
RefreshAccepted(t) == t + Lifetime > now /\ \E id \in Unrevoked(t) : Active(id)

\* AuthenticationStrategy.validate.
AccessAccepted(a) == a.at + AccessLifetime > now /\ (SessionBinding => Active(a.sid))

\* The refreshes that will save the row of session id as they have read it.
Holding(id) == {r \in Refreshes : authReq[r].pc = "read" /\ \E h \in authReq[r].held : h.id = id}

SaveRow(h) == sessions' = [id \in DOMAIN sessions |-> IF id = h.id THEN h.row ELSE sessions[id]]

(***************************************************************************)
(* Operations.                                                             *)
(***************************************************************************)

\* login: the password was checked before; the row is new.
Login ==
    LET id == logins + 1 IN
    /\ logins < MaxLogins
    /\ logins' = id
    /\ sessions' = [s \in DOMAIN sessions \cup {id} |->
          IF s = id THEN [token |-> now, revoked |-> FALSE, expires |-> now + Lifetime]
          ELSE sessions[s]]
    /\ granted' = [s \in 1 .. id |-> IF s = id THEN now ELSE granted[s]]
    /\ accesses' = accesses \cup {[sid |-> id, at |-> now]}
    /\ UNCHANGED <<now, authReq, ended, disturbed>>

\* RefreshTokenStrategy.validate, with any token that was handed out.
PresentToken(r) ==
    /\ authReq[r].pc = "new"
    /\ \E t \in {granted[id] : id \in DOMAIN granted} :
          authReq' = [authReq EXCEPT ![r] =
             IF RefreshAccepted(t) THEN [@ EXCEPT !.pc = "guarded", !.token = t]
             ELSE EndedAuthRequest]
    /\ UNCHANGED <<sessions, now, logins, sessionHistory>>

\* Mutant: the row that is saved is found by token alone.
ReadForRefreshAnyRow(r) ==
    /\ authReq[r].pc = "guarded"
    /\ \E id \in {i \in DOMAIN sessions : sessions[i].token = authReq[r].token} :
          authReq' = [authReq EXCEPT ![r].pc = "read",
             ![r].held = {[id |-> id, row |-> [token |-> now, revoked |-> FALSE,
                                               expires |-> now + Lifetime]]}]
    /\ UNCHANGED <<sessions, now, logins, sessionHistory>>

\* refresh finds the session again and signs the new token.
ReadForRefresh(r) ==
    LET found == {id \in Unrevoked(authReq[r].token) : Active(id)} IN
    /\ authReq[r].pc = "guarded"
    /\ \/ /\ found = {}
          /\ authReq' = [authReq EXCEPT ![r] = EndedAuthRequest]
       \/ \E id \in found :
             authReq' = [authReq EXCEPT ![r].pc = "read",
                ![r].held = {[id |-> id, row |-> [sessions[id] EXCEPT
                                 !.token = now, !.expires = now + Lifetime]]}]
    /\ UNCHANGED <<sessions, now, logins, sessionHistory>>

\* save writes every column in which the row in memory differs, so also the
\* column revoked as it was read.
SaveRefreshed(r) ==
    /\ authReq[r].pc = "read"
    /\ \E h \in authReq[r].held :
          /\ SaveRow(h)
          /\ granted' = [granted EXCEPT ![h.id] = h.row.token]
          /\ accesses' = accesses \cup {[sid |-> h.id, at |-> now]}
    /\ authReq' = [authReq EXCEPT ![r] = EndedAuthRequest]
    /\ UNCHANGED <<now, logins, ended, disturbed>>

\* revoke finds one unrevoked session of the token, expired or not.
ReadForRevoke(r) ==
    /\ authReq[r].pc = "new"
    /\ \E t \in {granted[id] : id \in DOMAIN granted} :
          \/ /\ Unrevoked(t) = {}
             /\ authReq' = [authReq EXCEPT ![r] = EndedAuthRequest]
          \/ \E id \in Unrevoked(t) :
                authReq' = [authReq EXCEPT ![r] = [pc |-> "read", token |-> t,
                   held |-> {[id |-> id, row |-> [sessions[id] EXCEPT !.revoked = TRUE]]}]]
    /\ UNCHANGED <<sessions, now, logins, sessionHistory>>

SaveRevoked(r) ==
    /\ authReq[r].pc = "read"
    /\ \E h \in authReq[r].held :
          /\ SaveRow(h)
          /\ disturbed' = disturbed \cup {h.id}
          /\ ended' = IF Holding(h.id) = {} THEN ended \cup {h.id} ELSE ended
    /\ authReq' = [authReq EXCEPT ![r] = EndedAuthRequest]
    /\ UNCHANGED <<now, logins, granted, accesses>>

\* revokeAllUserSessions is one UPDATE.
RevokeAll ==
    LET active == {id \in DOMAIN sessions : Active(id)} IN
    /\ active # {}
    /\ sessions' = [id \in DOMAIN sessions |->
          [sessions[id] EXCEPT !.revoked = @ \/ id \in active]]
    /\ disturbed' = disturbed \cup active
    /\ ended' = ended \cup {id \in active : Holding(id) = {}}
    /\ UNCHANGED <<now, logins, authReq, granted, accesses>>

\* Mutant: the cutoff lies ahead.
CleanedUpEarly(id) == sessions[id].expires < now + 3 * Lifetime

\* cleanupOldSessions deletes the rows that expired three lifetimes ago.
CleanedUpAtStart(id) == sessions[id].expires < now - 3 * Lifetime

\* The process ends, with the requests under way, and starts again.
RestartAuth ==
    LET kept == {id \in DOMAIN sessions : ~CleanedUpAtStart(id)} IN
    /\ sessions' = [id \in kept |-> sessions[id]]
    /\ authReq' = [r \in DOMAIN authReq |->
          IF authReq[r].pc = "new" THEN authReq[r] ELSE EndedAuthRequest]
    /\ <<sessions', authReq'>> # <<sessions, authReq>>
    /\ UNCHANGED <<now, logins, sessionHistory>>

SessionsNext ==
    \/ SessionTick \/ Login \/ RevokeAll \/ RestartAuth
    \/ \E r \in Refreshes : PresentToken(r) \/ ReadForRefresh(r) \/ SaveRefreshed(r)
    \/ \E r \in Revocations : ReadForRevoke(r) \/ SaveRevoked(r)

SessionsSpec == SessionsInit /\ [][SessionsNext]_sessionVars

(***************************************************************************)
(* Properties.                                                             *)
(***************************************************************************)

\* A session that was revoked, alone or with all others, while no refresh held
\* its row stays ended, whatever refreshes, revocations and restarts follow: its
\* row never comes back to life, and with session binding none of its access
\* tokens is accepted.
EndedSessionsStayShut ==
    \A id \in ended :
        /\ ~Active(id)
        /\ SessionBinding => \A a \in accesses : a.sid = id => ~AccessAccepted(a)

\* Nobody is logged out by others' requests: the token that was handed out last
\* for a session that nobody ended is accepted until it expires, even when other
\* sessions hold the same token, several refreshes hold the row, or the program
\* restarts.
KeepsLoggedIn ==
    \A id \in DOMAIN granted \ disturbed :
        granted[id] + Lifetime > now => RefreshAccepted(granted[id])
=============================================================================

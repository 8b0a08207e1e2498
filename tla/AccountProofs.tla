----------------------------- MODULE AccountProofs -----------------------------
(***************************************************************************)
(* Who may do what: sessions, accounts, activities and the login limiter.  *)
(* Proved for any number of users, sockets, requests and restarts, and for *)
(* every length of windows and lifetimes.                                  *)
(***************************************************************************)
EXTENDS Sessions, Users, Activity, LoginLimiter, FiniteSetTheorems, TLAPS

(***************************************************************************)
(* Activities.                                                             *)
(***************************************************************************)

ActivityTyped ==
    /\ ActivityTypeOK
    /\ connected \subseteq Sockets /\ unconnected \subseteq Sockets
    /\ lastSocket \in [ActiveUsers -> SUBSET Sockets]
    /\ \A s \in Sockets : storing[s] <= messages

\* The entry of a user is that of the newest activity, or gone.
EntryIsNewest ==
    \A u \in ActiveUsers :
        /\ activities[u] \subseteq lastSocket[u]
        /\ \A s, t \in lastSocket[u] : s = t /\ SocketUser[s] = u

\* Only sockets that did connect have an activity or a message under way.
SocketsInUse ==
    /\ \A u \in ActiveUsers : lastSocket[u] \cap unconnected = {}
    /\ cutShort \cap unconnected = {}
    /\ \A s \in Sockets : storing[s] > 0 => s \in connected \cup cutShort

ActivityInv == ActivityTyped /\ EntryIsNewest /\ SocketsInUse /\ ActivityFollowsSocket

LEMMA ActivityInitInv ==
    ASSUME ActivityInit PROVE ActivityInv
<1>1. /\ activities = [u \in ActiveUsers |-> {}] /\ lastSocket = [u \in ActiveUsers |-> {}]
      /\ connected = {} /\ unconnected = Sockets /\ cutShort = {}
      /\ storing = [s \in Sockets |-> 0] /\ messages = 0
  BY DEF ActivityInit
<1>2. 0 \in 0 .. MaxMessages
  BY ActivityAssumption
<1>3. ActivityTyped
  BY <1>1, <1>2 DEF ActivityTyped, ActivityTypeOK
<1>4. EntryIsNewest /\ SocketsInUse /\ ActivityFollowsSocket
  BY <1>1 DEF EntryIsNewest, SocketsInUse, ActivityFollowsSocket
<1> QED
  BY <1>3, <1>4 DEF ActivityInv

LEMMA ActivityTypedStep ==
    ASSUME ActivityInv, [ActivityNext]_activityVars PROVE ActivityTyped'
<1> USE DEF ActivityInv, ActivityTyped, ActivityTypeOK
<1>1. CASE UNCHANGED activityVars
  BY <1>1 DEF activityVars
<1>2. ASSUME NEW s \in Sockets, HandleConnection(s) PROVE ActivityTyped'
  BY <1>2 DEF HandleConnection
<1>3. ASSUME NEW s \in Sockets, ReceiveActivity(s) PROVE ActivityTyped'
  <2>1. messages \in Nat /\ messages + 1 \in 0 .. MaxMessages
    BY <1>3, ActivityAssumption DEF ReceiveActivity
  <2>2. storing[s] + 1 <= messages + 1 /\ storing[s] + 1 \in 0 .. MaxMessages
    BY <2>1, ActivityAssumption
  <2> QED
    BY <1>3, <2>1, <2>2, ActivityAssumption DEF ReceiveActivity
<1>4. ASSUME NEW s \in Sockets, StoreActivity(s) PROVE ActivityTyped'
  <2>1. SocketUser[s] \in ActiveUsers
    BY DEF ActiveUsers
  <2>2. storing[s] - 1 \in 0 .. MaxMessages /\ storing[s] - 1 <= messages
    BY <1>4, ActivityAssumption DEF StoreActivity
  <2> QED
    BY <1>4, <2>1, <2>2, ActivityAssumption DEF StoreActivity
<1>5. ASSUME NEW s \in Sockets, Disconnect(s) PROVE ActivityTyped'
  <2>1. \A u \in ActiveUsers :
           /\ activities'[u] = activities[u] \ {s}
           /\ activities[u] \ {s} \in {{}} \cup {{t} : t \in Sockets}
    BY <1>5 DEF Disconnect, ForgetSocket
  <2>2. activities' \in [ActiveUsers -> {{}} \cup {{t} : t \in Sockets}]
    BY <1>5, <2>1 DEF Disconnect, ForgetSocket
  <2> QED
    BY <1>5, <2>1, <2>2 DEF Disconnect
<1> QED
  BY <1>1, <1>2, <1>3, <1>4, <1>5 DEF ActivityNext

LEMMA ActivityStep ==
    ASSUME ActivityInv, [ActivityNext]_activityVars PROVE ActivityInv'
<1>t. ActivityTyped'
  BY ActivityTypedStep
<1>0. /\ activities \in [ActiveUsers -> {{}} \cup {{s} : s \in Sockets}]
      /\ lastSocket \in [ActiveUsers -> SUBSET Sockets]
      /\ storing \in [Sockets -> 0 .. MaxMessages]
      /\ connected \cap unconnected = {} /\ connected \subseteq Sockets
      /\ EntryIsNewest /\ SocketsInUse /\ ActivityFollowsSocket
  BY DEF ActivityInv, ActivityTyped, ActivityTypeOK
<1> USE DEF EntryIsNewest, SocketsInUse, ActivityFollowsSocket
<1>1. CASE UNCHANGED activityVars
  BY <1>0, <1>1, <1>t DEF activityVars, ActivityInv
<1>2. ASSUME NEW s \in Sockets, HandleConnection(s) PROVE ActivityInv'
  BY <1>0, <1>2, <1>t DEF HandleConnection, ActivityInv
<1>3. ASSUME NEW s \in Sockets, ReceiveActivity(s) PROVE ActivityInv'
  <2>1. \A t \in Sockets : storing'[t] > 0 => storing[t] > 0 \/ t = s
    BY <1>0, <1>3 DEF ReceiveActivity
  <2> QED
    BY <1>0, <1>3, <2>1, <1>t DEF ReceiveActivity, ActivityInv
<1>4. ASSUME NEW s \in Sockets, StoreActivity(s) PROVE ActivityInv'
  <2>1. \A t \in Sockets : storing'[t] > 0 => storing[t] > 0
    BY <1>0, <1>4 DEF StoreActivity
  <2>2. SocketUser[s] \in ActiveUsers /\ s \in connected \cup cutShort
    BY <1>0, <1>4 DEF ActiveUsers, StoreActivity
  <2>3. \A u \in ActiveUsers :
           IF u = SocketUser[s] THEN activities'[u] = {s} /\ lastSocket'[u] = {s}
           ELSE activities'[u] = activities[u] /\ lastSocket'[u] = lastSocket[u]
    BY <1>0, <1>4, <2>2 DEF StoreActivity
  <2>4. EntryIsNewest'
    BY <1>0, <2>3
  <2>5. UNCHANGED <<connected, unconnected, cutShort>> /\ s \notin unconnected
    BY <1>0, <1>4, <2>2 DEF StoreActivity
  <2>6. SocketsInUse'
    BY <1>0, <2>1, <2>3, <2>5
  <2>7. ActivityFollowsSocket'
    <3> SUFFICES ASSUME NEW u \in ActiveUsers, NEW t \in lastSocket'[u] \ cutShort
                 PROVE  activities'[u] = IF t \in connected THEN {t} ELSE {}
      BY <2>5
    <3>1. CASE u = SocketUser[s]
      BY <2>2, <2>3, <3>1
    <3>2. CASE u # SocketUser[s]
      BY <1>0, <2>3, <3>2
    <3> QED
      BY <3>1, <3>2
  <2> QED
    BY <1>t, <2>4, <2>6, <2>7 DEF ActivityInv
<1>5. ASSUME NEW s \in Sockets, Disconnect(s) PROVE ActivityInv'
  <2>1. /\ connected' = connected \ {s} /\ s \in connected
        /\ cutShort' = IF storing[s] > 0 THEN cutShort \cup {s} ELSE cutShort
        /\ UNCHANGED <<unconnected, storing, messages, lastSocket>>
        /\ \A u \in ActiveUsers : activities'[u] = activities[u] \ {s}
    BY <1>5 DEF Disconnect, ForgetSocket
  <2>2. EntryIsNewest'
    BY <1>0, <2>1
  <2>3. SocketsInUse'
    BY <1>0, <2>1
  <2>4. ActivityFollowsSocket'
    <3> SUFFICES ASSUME NEW u \in ActiveUsers, NEW t \in lastSocket[u] \ cutShort'
                 PROVE  activities'[u] = IF t \in connected' THEN {t} ELSE {}
      BY <2>1
    <3>1. t \notin cutShort /\ activities[u] = IF t \in connected THEN {t} ELSE {}
      BY <1>0, <2>1
    <3> QED
      BY <2>1, <3>1
  <2> QED
    BY <1>t, <2>2, <2>3, <2>4 DEF ActivityInv
<1> QED
  BY <1>1, <1>2, <1>3, <1>4, <1>5 DEF ActivityNext

\* However many devices a user has and however their connections, messages and
\* disconnections cross, the activities stay well formed ...
THEOREM ActivityTypeCorrect == ActivitySpec => []ActivityTypeOK
<1>1. ActivityInv => ActivityTypeOK
  BY DEF ActivityInv, ActivityTyped
<1> QED
  BY ActivityInitInv, ActivityStep, <1>1, PTL DEF ActivitySpec

\* ... and a user's newest activity is shown exactly as long as the socket that
\* set it is connected, but for messages that a disconnection overtook.
THEOREM NewestActivityIsShown == ActivitySpec => []ActivityFollowsSocket
<1>1. ActivityInv => ActivityFollowsSocket
  BY DEF ActivityInv
<1> QED
  BY ActivityInitInv, ActivityStep, <1>1, PTL DEF ActivitySpec

(***************************************************************************)
(* Sessions.                                                               *)
(***************************************************************************)

AuthRequests == Refreshes \cup Revocations

SessionsTyped == SessionsTypeOK /\ granted \in [1 .. logins -> Token]

\* The rows that requests hold are there, and the columns they will write are
\* those of a refresh of an unrevoked row or of a revocation.
HeldRows ==
    \A r \in AuthRequests : authReq[r].pc = "read" =>
        \A h \in authReq[r].held :
            /\ h.id \in DOMAIN sessions
            /\ r \in Revocations => h.row.revoked
            /\ r \in Refreshes => h.row = [token |-> h.row.token, revoked |-> FALSE,
                                           expires |-> h.row.token + Lifetime]

\* An ended session is revoked or gone, and no refresh is about to save it.
EndedForGood ==
    \A id \in ended :
        /\ id \in DOMAIN sessions => sessions[id].revoked
        /\ \A r \in Refreshes : authReq[r].pc = "read" =>
              \A h \in authReq[r].held : h.id # id

\* A session that nobody ended has the row of its last token until that expires.
RowIsKept ==
    \A id \in (1 .. logins) \ disturbed : granted[id] + Lifetime > now =>
        /\ id \in DOMAIN sessions
        /\ sessions[id] = [token |-> granted[id], revoked |-> FALSE,
                           expires |-> granted[id] + Lifetime]

SessionsInv == SessionsTyped /\ HeldRows /\ EndedForGood /\ RowIsKept

LEMMA NewAuthRequestType ==
    /\ NewAuthRequest \in AuthRequest /\ EndedAuthRequest \in AuthRequest
    /\ EndedAuthRequest.pc = "ended"
<1>1. 0 \in Token
  BY SessionsAssumption DEF Token
<1> QED
  BY <1>1 DEF NewAuthRequest, EndedAuthRequest, AuthRequest

LEMMA SessionsInitInv ==
    ASSUME SessionsInit PROVE SessionsInv
<1>1. /\ DOMAIN sessions = {} /\ DOMAIN granted = {} /\ logins = 0 /\ now = 0
      /\ accesses = {} /\ ended = {} /\ disturbed = {} /\ 1 .. logins = {}
      /\ granted = [id \in {} |-> 0]
      /\ authReq = [r \in Refreshes \cup Revocations |-> NewAuthRequest]
  BY DEF SessionsInit
<1>2. now \in Token /\ logins \in 0 .. MaxLogins
  BY <1>1, SessionsAssumption DEF Token
<1>3. granted \in [1 .. logins -> Token]
  BY <1>1
<1>4. SessionsTypeOK
  BY <1>1, <1>2, NewAuthRequestType DEF SessionsTypeOK
<1>5. \A r \in AuthRequests : authReq[r].pc = "new"
  BY <1>1 DEF AuthRequests, NewAuthRequest
<1>6. HeldRows /\ EndedForGood /\ RowIsKept
  BY <1>1, <1>5 DEF HeldRows, EndedForGood, RowIsKept
<1> QED
  BY <1>3, <1>4, <1>6 DEF SessionsInv, SessionsTyped

\* What every step starts from.
LEMMA SessionsFacts ==
    ASSUME SessionsInv
    PROVE  /\ DOMAIN sessions \subseteq 1 .. logins /\ logins \in 0 .. MaxLogins
           /\ 1 .. logins \subseteq SessionIds
           /\ \A id \in DOMAIN sessions : sessions[id] \in Row /\ id \in SessionIds
           /\ now \in Token /\ now \in Int /\ now + Lifetime \in 0 .. MaxNow + Lifetime
           /\ authReq \in [AuthRequests -> AuthRequest]
           /\ granted \in [1 .. logins -> Token] /\ DOMAIN granted = 1 .. logins
           /\ accesses \subseteq AccessToken
           /\ ended \subseteq 1 .. logins /\ disturbed \subseteq 1 .. logins
           /\ Lifetime \in Nat \ {0} /\ MaxNow \in Nat /\ MaxLogins \in Nat
<1>1. SessionsTypeOK /\ granted \in [1 .. logins -> Token]
  BY DEF SessionsInv, SessionsTyped
<1>2. now \in 0 .. MaxNow /\ logins \in 0 .. MaxLogins
  BY <1>1 DEF SessionsTypeOK, Token
<1>3. now + Lifetime \in 0 .. MaxNow + Lifetime /\ 1 .. logins \subseteq SessionIds
  BY <1>2, SessionsAssumption DEF SessionIds
<1> QED
  BY <1>1, <1>2, <1>3, SessionsAssumption DEF SessionsTypeOK, AuthRequests

\* A request that ends, or goes on without a row in hand, disturbs nothing.
LEMMA QuietRequest ==
    ASSUME SessionsInv, NEW r \in AuthRequests, NEW q \in AuthRequest, q.pc # "read",
           authReq' = [authReq EXCEPT ![r] = q],
           UNCHANGED <<sessions, now, logins, sessionHistory>>
    PROVE  SessionsInv'
<1>0. /\ authReq' \in [AuthRequests -> AuthRequest]
      /\ \A p \in AuthRequests : authReq'[p] = IF p = r THEN q ELSE authReq[p]
  BY SessionsFacts
<1>1. UNCHANGED <<sessions, now, logins, granted, accesses, ended, disturbed>>
  BY DEF sessionHistory
<1>2. SessionsTyped'
  BY <1>0, <1>1 DEF SessionsInv, SessionsTyped, SessionsTypeOK, AuthRequests
<1>3. HeldRows'
  BY <1>0, <1>1 DEF SessionsInv, HeldRows
<1>4. EndedForGood'
  BY <1>0, <1>1 DEF SessionsInv, EndedForGood, AuthRequests
<1>5. RowIsKept'
  BY <1>1 DEF SessionsInv, RowIsKept
<1> QED
  BY <1>2, <1>3, <1>4, <1>5 DEF SessionsInv

\* A request takes a row in hand that is there and not ended.
LEMMA RowIsRead ==
    ASSUME SessionsInv, NEW r \in AuthRequests, NEW t \in Token,
           NEW id \in DOMAIN sessions, NEW row \in Row, id \notin ended,
           r \in Revocations => row.revoked,
           r \in Refreshes => row = [token |-> row.token, revoked |-> FALSE,
                                     expires |-> row.token + Lifetime],
           authReq' = [authReq EXCEPT ![r] =
               [pc |-> "read", token |-> t, held |-> {[id |-> id, row |-> row]}]],
           UNCHANGED <<sessions, now, logins, sessionHistory>>
    PROVE  SessionsInv'
<1> DEFINE q == [pc |-> "read", token |-> t, held |-> {[id |-> id, row |-> row]}]
<1>a. [id |-> id, row |-> row] \in [id : SessionIds, row : Row]
  BY SessionsFacts
<1>b. q \in AuthRequest
  BY <1>a DEF AuthRequest
<1>0. /\ authReq' \in [AuthRequests -> AuthRequest]
      /\ \A p \in AuthRequests : authReq'[p] = IF p = r THEN q ELSE authReq[p]
  BY <1>b, SessionsFacts
<1>1. UNCHANGED <<sessions, now, logins, granted, accesses, ended, disturbed>>
  BY DEF sessionHistory
<1>2. SessionsTyped'
  BY <1>0, <1>1 DEF SessionsInv, SessionsTyped, SessionsTypeOK, AuthRequests
<1>3. HeldRows'
  <2> SUFFICES ASSUME NEW p \in AuthRequests, authReq'[p].pc = "read",
                      NEW h \in authReq'[p].held
               PROVE  /\ h.id \in DOMAIN sessions'
                      /\ p \in Revocations => h.row.revoked
                      /\ p \in Refreshes => h.row = [token |-> h.row.token, revoked |-> FALSE,
                                                     expires |-> h.row.token + Lifetime]
    BY DEF HeldRows
  <2>1. CASE p = r
    BY <1>0, <1>1, <2>1
  <2>2. CASE p # r
    BY <1>0, <1>1, <2>2 DEF SessionsInv, HeldRows
  <2> QED
    BY <2>1, <2>2
<1>4. EndedForGood'
  BY <1>0, <1>1 DEF SessionsInv, EndedForGood, AuthRequests
<1>5. RowIsKept'
  BY <1>1 DEF SessionsInv, RowIsKept
<1> QED
  BY <1>2, <1>3, <1>4, <1>5 DEF SessionsInv

\* A request ends and saves the row it holds.
LEMMA RowIsSaved ==
    ASSUME SessionsInv, NEW r \in AuthRequests, authReq[r].pc = "read",
           NEW h \in authReq[r].held, SaveRow(h),
           authReq' = [authReq EXCEPT ![r] = EndedAuthRequest]
    PROVE  /\ h.id \in DOMAIN sessions /\ h.id \in 1 .. logins /\ h.id \in SessionIds
           /\ h.row \in Row
           /\ DOMAIN sessions' = DOMAIN sessions
           /\ \A id \in DOMAIN sessions :
                 sessions'[id] = IF id = h.id THEN h.row ELSE sessions[id]
           /\ \A id \in DOMAIN sessions : sessions'[id] \in Row
           /\ authReq' \in [AuthRequests -> AuthRequest]
           /\ \A p \in AuthRequests :
                 authReq'[p].pc = "read" => p # r /\ authReq'[p] = authReq[p]
<1>1. h \in [id : SessionIds, row : Row]
  BY SessionsFacts DEF AuthRequest
<1>2. h.id \in DOMAIN sessions
  BY DEF SessionsInv, HeldRows
<1> QED
  BY <1>1, <1>2, SessionsFacts, NewAuthRequestType DEF SaveRow

LEMMA SaveRefreshedStep ==
    ASSUME SessionsInv, NEW r \in Refreshes, SaveRefreshed(r) PROVE SessionsInv'
<1>1. PICK h \in authReq[r].held :
         /\ SaveRow(h)
         /\ granted' = [granted EXCEPT ![h.id] = h.row.token]
         /\ accesses' = accesses \cup {[sid |-> h.id, at |-> now]}
  BY DEF SaveRefreshed
<1>2. /\ authReq[r].pc = "read" /\ r \in AuthRequests
      /\ authReq' = [authReq EXCEPT ![r] = EndedAuthRequest]
      /\ UNCHANGED <<now, logins, ended, disturbed>>
  BY DEF SaveRefreshed, AuthRequests
<1>3. /\ h.id \in DOMAIN sessions /\ h.id \in 1 .. logins /\ h.id \in SessionIds
      /\ h.row \in Row
      /\ DOMAIN sessions' = DOMAIN sessions
      /\ \A id \in DOMAIN sessions :
            sessions'[id] = IF id = h.id THEN h.row ELSE sessions[id]
      /\ \A id \in DOMAIN sessions : sessions'[id] \in Row
      /\ authReq' \in [AuthRequests -> AuthRequest]
      /\ \A p \in AuthRequests :
            authReq'[p].pc = "read" => p # r /\ authReq'[p] = authReq[p]
  BY <1>1, <1>2, RowIsSaved
<1>4. /\ h.row = [token |-> h.row.token, revoked |-> FALSE, expires |-> h.row.token + Lifetime]
      /\ h.id \notin ended
  BY <1>2 DEF SessionsInv, HeldRows, EndedForGood
<1>5. h.row.token \in Token
  BY <1>3 DEF Row
<1>6. SessionsTyped'
  <2>1. granted' \in [1 .. logins -> Token]
    BY <1>1, <1>3, <1>5, SessionsFacts
  <2>2. accesses' \subseteq AccessToken
    BY <1>1, <1>3, SessionsFacts DEF AccessToken
  <2> QED
    BY <1>2, <1>3, <2>1, <2>2, SessionsFacts DEF SessionsTyped, SessionsTypeOK, AuthRequests
<1>7. HeldRows'
  BY <1>3 DEF SessionsInv, HeldRows
<1>8. EndedForGood'
  BY <1>2, <1>3, <1>4 DEF SessionsInv, EndedForGood, AuthRequests
<1>9. RowIsKept'
  <2> SUFFICES ASSUME NEW id \in (1 .. logins) \ disturbed, granted'[id] + Lifetime > now
               PROVE  /\ id \in DOMAIN sessions
                      /\ sessions'[id] = [token |-> granted'[id], revoked |-> FALSE,
                                          expires |-> granted'[id] + Lifetime]
    BY <1>2, <1>3 DEF RowIsKept
  <2>1. CASE id = h.id
    BY <1>1, <1>3, <1>4, <2>1, SessionsFacts
  <2>2. CASE id # h.id
    <3>1. granted'[id] = granted[id]
      BY <1>1, <2>2, SessionsFacts
    <3> QED
      BY <1>3, <2>2, <3>1 DEF SessionsInv, RowIsKept
  <2> QED
    BY <2>1, <2>2
<1> QED
  BY <1>6, <1>7, <1>8, <1>9 DEF SessionsInv

LEMMA SaveRevokedStep ==
    ASSUME SessionsInv, NEW r \in Revocations, SaveRevoked(r) PROVE SessionsInv'
<1>1. PICK h \in authReq[r].held :
         /\ SaveRow(h)
         /\ disturbed' = disturbed \cup {h.id}
         /\ ended' = IF Holding(h.id) = {} THEN ended \cup {h.id} ELSE ended
  BY DEF SaveRevoked
<1>2. /\ authReq[r].pc = "read" /\ r \in AuthRequests
      /\ authReq' = [authReq EXCEPT ![r] = EndedAuthRequest]
      /\ UNCHANGED <<now, logins, granted, accesses>>
  BY DEF SaveRevoked, AuthRequests
<1>3. /\ h.id \in DOMAIN sessions /\ h.id \in 1 .. logins /\ h.id \in SessionIds
      /\ h.row \in Row
      /\ DOMAIN sessions' = DOMAIN sessions
      /\ \A id \in DOMAIN sessions :
            sessions'[id] = IF id = h.id THEN h.row ELSE sessions[id]
      /\ \A id \in DOMAIN sessions : sessions'[id] \in Row
      /\ authReq' \in [AuthRequests -> AuthRequest]
      /\ \A p \in AuthRequests :
            authReq'[p].pc = "read" => p # r /\ authReq'[p] = authReq[p]
  BY <1>1, <1>2, RowIsSaved
<1>4. h.row.revoked
  BY <1>2 DEF SessionsInv, HeldRows
<1>5. SessionsTyped'
  <2>1. ended' \subseteq 1 .. logins /\ disturbed' \subseteq 1 .. logins
    BY <1>1, <1>3, SessionsFacts
  <2> QED
    BY <1>2, <1>3, <2>1, SessionsFacts DEF SessionsTyped, SessionsTypeOK, AuthRequests
<1>6. HeldRows'
  BY <1>3 DEF SessionsInv, HeldRows
<1>7. EndedForGood'
  <2> SUFFICES ASSUME NEW id \in ended'
               PROVE  /\ id \in DOMAIN sessions => sessions'[id].revoked
                      /\ \A p \in Refreshes : authReq'[p].pc = "read" =>
                            \A g \in authReq'[p].held : g.id # id
    BY <1>3 DEF EndedForGood
  <2>1. CASE id \in ended
    BY <1>3, <1>4, <2>1 DEF SessionsInv, EndedForGood, AuthRequests
  <2>2. CASE id = h.id /\ Holding(h.id) = {}
    BY <1>3, <1>4, <2>2 DEF Holding, AuthRequests
  <2> QED
    BY <1>1, <2>1, <2>2
<1>8. RowIsKept'
  BY <1>1, <1>2, <1>3 DEF SessionsInv, RowIsKept
<1> QED
  BY <1>5, <1>6, <1>7, <1>8 DEF SessionsInv

LEMMA ReadSessionStep ==
    ASSUME SessionsInv
    PROVE  /\ \A r \in Refreshes : PresentToken(r) \/ ReadForRefresh(r) => SessionsInv'
           /\ \A r \in Revocations : ReadForRevoke(r) => SessionsInv'
<1>0. \A id \in DOMAIN granted : granted[id] \in Token
  BY SessionsFacts
<1>1. ASSUME NEW r \in Refreshes, PresentToken(r) PROVE SessionsInv'
  <2>1. PICK t \in Token :
           authReq' = [authReq EXCEPT ![r] =
              IF RefreshAccepted(t) THEN [@ EXCEPT !.pc = "guarded", !.token = t]
              ELSE EndedAuthRequest]
    BY <1>0, <1>1 DEF PresentToken
  <2>2. r \in AuthRequests /\ UNCHANGED <<sessions, now, logins, sessionHistory>>
    BY <1>1 DEF PresentToken, AuthRequests
  <2> DEFINE g == [authReq[r] EXCEPT !.pc = "guarded", !.token = t]
  <2>3. g \in AuthRequest /\ g.pc # "read"
    BY <2>2, SessionsFacts DEF AuthRequest
  <2>4. CASE RefreshAccepted(t)
    <3>1. authReq' = [authReq EXCEPT ![r] = g]
      BY <2>1, <2>4
    <3> QED
      BY <2>2, <2>3, <3>1, QuietRequest
  <2>5. CASE ~RefreshAccepted(t)
    <3>1. authReq' = [authReq EXCEPT ![r] = EndedAuthRequest]
      BY <2>1, <2>5
    <3> QED
      BY <2>2, <3>1, QuietRequest, NewAuthRequestType
  <2> QED
    BY <2>4, <2>5
<1>2. ASSUME NEW r \in Refreshes, ReadForRefresh(r) PROVE SessionsInv'
  <2>1. r \in AuthRequests /\ UNCHANGED <<sessions, now, logins, sessionHistory>>
    BY <1>2 DEF ReadForRefresh, AuthRequests
  <2>2. CASE authReq' = [authReq EXCEPT ![r] = EndedAuthRequest]
    BY <2>1, <2>2, QuietRequest, NewAuthRequestType
  <2>3. ASSUME NEW id \in Unrevoked(authReq[r].token),
               authReq' = [authReq EXCEPT ![r].pc = "read",
                  ![r].held = {[id |-> id, row |-> [sessions[id] EXCEPT
                                   !.token = now, !.expires = now + Lifetime]]}]
        PROVE  SessionsInv'
    <3> DEFINE row == [sessions[id] EXCEPT !.token = now, !.expires = now + Lifetime]
    <3>1. id \in DOMAIN sessions /\ ~sessions[id].revoked /\ sessions[id] \in Row
      BY <2>3, SessionsFacts DEF Unrevoked
    <3>2. row = [token |-> now, revoked |-> FALSE, expires |-> now + Lifetime]
      <4>1. sessions[id] \in [token : Token, revoked : {FALSE}, expires : 0 .. MaxNow + Lifetime]
        BY <3>1 DEF Row
      <4>2. row \in [token : {now}, revoked : {FALSE}, expires : {now + Lifetime}]
        BY <4>1
      <4> HIDE DEF row
      <4> QED
        BY <4>2
    <3>3. row \in Row /\ row = [token |-> row.token, revoked |-> FALSE,
                                expires |-> row.token + Lifetime]
      BY <3>2, SessionsFacts DEF Row
    <3>4. id \notin ended
      BY <3>1 DEF SessionsInv, EndedForGood
    <3>5. authReq[r].token \in Token /\ authReq[r] \in AuthRequest
      BY <2>1, SessionsFacts DEF AuthRequest
    <3>6. authReq' = [authReq EXCEPT ![r] =
              [pc |-> "read", token |-> authReq[r].token, held |-> {[id |-> id, row |-> row]}]]
      <4> HIDE DEF row
      <4>1. authReq' = [authReq EXCEPT ![r].pc = "read", ![r].held = {[id |-> id, row |-> row]}]
        BY <2>3 DEF row
      <4>2. authReq'[r] = [[authReq[r] EXCEPT !.pc = "read"]
                                       EXCEPT !.held = {[id |-> id, row |-> row]}]
        BY <2>1, <4>1, SessionsFacts
      <4>3. authReq'[r] \in [pc : {"read"}, token : {authReq[r].token},
                              held : {{[id |-> id, row |-> row]}}]
        BY <3>5, <4>2 DEF AuthRequest
      <4>4. authReq'[r] = [pc |-> "read", token |-> authReq[r].token,
                           held |-> {[id |-> id, row |-> row]}]
        BY <4>3
      <4>5. authReq' = [authReq EXCEPT ![r] = authReq'[r]]
        BY <2>1, <4>1, SessionsFacts
      <4> QED
        BY <4>4, <4>5
    <3>7. r \notin Revocations
      BY SessionsAssumption
    <3> HIDE DEF row
    <3> QED
      BY <2>1, <3>1, <3>3, <3>4, <3>5, <3>6, <3>7, RowIsRead
  <2> QED
    BY <1>2, <2>2, <2>3 DEF ReadForRefresh
<1>3. ASSUME NEW r \in Revocations, ReadForRevoke(r) PROVE SessionsInv'
  <2>1. r \in AuthRequests /\ UNCHANGED <<sessions, now, logins, sessionHistory>>
    BY <1>3 DEF ReadForRevoke, AuthRequests
  <2>2. CASE authReq' = [authReq EXCEPT ![r] = EndedAuthRequest]
    BY <2>1, <2>2, QuietRequest, NewAuthRequestType
  <2>3. ASSUME NEW t \in Token, NEW id \in Unrevoked(t),
               authReq' = [authReq EXCEPT ![r] = [pc |-> "read", token |-> t,
                  held |-> {[id |-> id, row |-> [sessions[id] EXCEPT !.revoked = TRUE]]}]]
        PROVE  SessionsInv'
    <3> DEFINE row == [sessions[id] EXCEPT !.revoked = TRUE]
    <3>1. id \in DOMAIN sessions /\ ~sessions[id].revoked /\ sessions[id] \in Row
      BY <2>3, SessionsFacts DEF Unrevoked
    <3>2. row \in Row /\ row.revoked
      BY <3>1 DEF Row
    <3>3. id \notin ended
      BY <3>1 DEF SessionsInv, EndedForGood
    <3>4. authReq' = [authReq EXCEPT ![r] =
              [pc |-> "read", token |-> t, held |-> {[id |-> id, row |-> row]}]]
      BY <2>3
    <3>5. r \notin Refreshes
      BY SessionsAssumption
    <3> HIDE DEF row
    <3> QED
      BY <2>1, <3>1, <3>2, <3>3, <3>4, <3>5, RowIsRead
  <2> QED
    BY <1>0, <1>3, <2>2, <2>3 DEF ReadForRevoke
<1> QED
  BY <1>1, <1>2, <1>3

LEMMA LoginStep ==
    ASSUME SessionsInv, Login PROVE SessionsInv'
<1> DEFINE new == [token |-> now, revoked |-> FALSE, expires |-> now + Lifetime]
<1>0. /\ logins' = logins + 1 /\ logins' \in 0 .. MaxLogins
      /\ logins' \in 1 .. logins' /\ logins' \in SessionIds /\ logins' \notin 1 .. logins
      /\ 1 .. logins' = (1 .. logins) \cup {logins'}
  BY SessionsFacts DEF Login, SessionIds
<1>1. new \in Row
  BY SessionsFacts DEF Row
<1> HIDE DEF new
<1>2. /\ sessions' = [s \in DOMAIN sessions \cup {logins'} |->
             IF s = logins' THEN new ELSE sessions[s]]
      /\ granted' = [s \in 1 .. logins' |-> IF s = logins' THEN now ELSE granted[s]]
      /\ accesses' = accesses \cup {[sid |-> logins', at |-> now]}
      /\ UNCHANGED <<now, authReq, ended, disturbed>>
  BY <1>0 DEF Login, new
<1>3. SessionsTyped'
  <2>1. DOMAIN sessions' \subseteq 1 .. logins' /\ \A s \in DOMAIN sessions' : sessions'[s] \in Row
    BY <1>0, <1>1, <1>2, SessionsFacts
  <2>2. granted' \in [1 .. logins' -> Token]
    BY <1>0, <1>2, SessionsFacts
  <2>3. accesses' \subseteq AccessToken
    BY <1>0, <1>2, SessionsFacts DEF AccessToken
  <2> QED
    BY <1>0, <1>2, <2>1, <2>2, <2>3, SessionsFacts
    DEF SessionsTyped, SessionsTypeOK, AuthRequests
<1>4. HeldRows'
  BY <1>2 DEF SessionsInv, HeldRows
<1>5. EndedForGood'
  BY <1>0, <1>2, SessionsFacts DEF SessionsInv, EndedForGood
<1>6. RowIsKept'
  <2> SUFFICES ASSUME NEW id \in (1 .. logins') \ disturbed, granted'[id] + Lifetime > now
               PROVE  /\ id \in DOMAIN sessions'
                      /\ sessions'[id] = [token |-> granted'[id], revoked |-> FALSE,
                                          expires |-> granted'[id] + Lifetime]
    BY <1>2 DEF RowIsKept
  <2>1. CASE id = logins'
    BY <1>0, <1>2, <2>1 DEF new
  <2>2. CASE id # logins'
    BY <1>0, <1>2, <2>2 DEF SessionsInv, RowIsKept
  <2> QED
    BY <2>1, <2>2
<1> QED
  BY <1>3, <1>4, <1>5, <1>6 DEF SessionsInv

LEMMA RevokeAllStep ==
    ASSUME SessionsInv, RevokeAll PROVE SessionsInv'
<1> DEFINE active == {id \in DOMAIN sessions : Active(id)}
<1>1. /\ sessions' = [id \in DOMAIN sessions |->
             [sessions[id] EXCEPT !.revoked = sessions[id].revoked \/ id \in active]]
      /\ disturbed' = disturbed \cup active
      /\ ended' = ended \cup {id \in active : Holding(id) = {}}
      /\ UNCHANGED <<now, logins, authReq, granted, accesses>>
  BY DEF RevokeAll
<1>2. active \subseteq 1 .. logins
  BY SessionsFacts
<1>3. \A id \in DOMAIN sessions :
         /\ sessions'[id] \in Row
         /\ id \in active \/ sessions[id].revoked => sessions'[id].revoked
  <2> SUFFICES ASSUME NEW id \in DOMAIN sessions
               PROVE  /\ sessions'[id] \in Row
                      /\ id \in active \/ sessions[id].revoked => sessions'[id].revoked
    OBVIOUS
  <2>1. sessions'[id] =
           [sessions[id] EXCEPT !.revoked = sessions[id].revoked \/ id \in active]
    BY <1>1
  <2>2. sessions[id] \in Row
    BY SessionsFacts
  <2> QED
    BY <2>1, <2>2 DEF Row
<1>4. DOMAIN sessions' = DOMAIN sessions
  BY <1>1
<1>5. SessionsTyped'
  <2>1. ended' \subseteq 1 .. logins /\ disturbed' \subseteq 1 .. logins
    BY <1>1, <1>2, SessionsFacts
  <2> QED
    BY <1>1, <1>3, <1>4, <2>1, SessionsFacts DEF SessionsTyped, SessionsTypeOK, AuthRequests
<1>6. HeldRows'
  BY <1>1, <1>4 DEF SessionsInv, HeldRows
<1>7. EndedForGood'
  <2> SUFFICES ASSUME NEW id \in ended'
               PROVE  /\ id \in DOMAIN sessions => sessions'[id].revoked
                      /\ \A p \in Refreshes : authReq[p].pc = "read" =>
                            \A h \in authReq[p].held : h.id # id
    BY <1>1, <1>4 DEF EndedForGood
  <2>1. CASE id \in ended
    BY <1>3, <2>1 DEF SessionsInv, EndedForGood
  <2>2. CASE id \in active /\ Holding(id) = {}
    BY <1>3, <2>2 DEF Holding
  <2> QED
    BY <1>1, <2>1, <2>2
<1>8. RowIsKept'
  <2> SUFFICES ASSUME NEW id \in (1 .. logins) \ disturbed', granted[id] + Lifetime > now
               PROVE  FALSE
    BY <1>1 DEF RowIsKept
  <2>1. /\ id \in DOMAIN sessions
        /\ sessions[id] = [token |-> granted[id], revoked |-> FALSE,
                           expires |-> granted[id] + Lifetime]
    BY <1>1 DEF SessionsInv, RowIsKept
  <2>2. ~sessions[id].revoked /\ sessions[id].expires > now
    BY <2>1
  <2>3. Active(id)
    BY <2>1, <2>2 DEF Active
  <2> QED
    BY <1>1, <2>1, <2>3
<1> QED
  BY <1>5, <1>6, <1>7, <1>8 DEF SessionsInv

LEMMA RestartAuthStep ==
    ASSUME SessionsInv, RestartAuth PROVE SessionsInv'
<1> DEFINE kept == {id \in DOMAIN sessions : ~CleanedUpAtStart(id)}
<1>1. /\ sessions' = [id \in kept |-> sessions[id]]
      /\ authReq' = [r \in DOMAIN authReq |->
             IF authReq[r].pc = "new" THEN authReq[r] ELSE EndedAuthRequest]
      /\ UNCHANGED <<now, logins, granted, accesses, ended, disturbed>>
  BY DEF RestartAuth, sessionHistory
<1>2. /\ DOMAIN authReq = AuthRequests
      /\ authReq' \in [AuthRequests -> AuthRequest]
      /\ \A r \in AuthRequests : authReq'[r].pc # "read"
  BY <1>1, SessionsFacts, NewAuthRequestType
<1>3. SessionsTyped'
  BY <1>1, <1>2, SessionsFacts DEF SessionsTyped, SessionsTypeOK, AuthRequests
<1>4. HeldRows'
  BY <1>2 DEF HeldRows
<1>5. EndedForGood'
  BY <1>1, <1>2 DEF SessionsInv, EndedForGood, AuthRequests
<1>6. RowIsKept'
  <2> SUFFICES ASSUME NEW id \in (1 .. logins) \ disturbed, granted[id] + Lifetime > now
               PROVE  /\ id \in DOMAIN sessions'
                      /\ sessions'[id] = [token |-> granted[id], revoked |-> FALSE,
                                          expires |-> granted[id] + Lifetime]
    BY <1>1 DEF RowIsKept
  <2>1. /\ id \in DOMAIN sessions
        /\ sessions[id] = [token |-> granted[id], revoked |-> FALSE,
                           expires |-> granted[id] + Lifetime]
    BY DEF SessionsInv, RowIsKept
  <2>2. granted[id] \in Nat /\ now \in Nat /\ sessions[id].expires > now
    BY <2>1, SessionsFacts DEF Token
  <2>3. ~CleanedUpAtStart(id)
    BY <2>2, <2>1, SessionsAssumption DEF CleanedUpAtStart
  <2> QED
    BY <1>1, <2>1, <2>3
<1> QED
  BY <1>3, <1>4, <1>5, <1>6 DEF SessionsInv

LEMMA SessionsStep ==
    ASSUME SessionsInv, [SessionsNext]_sessionVars PROVE SessionsInv'
<1>1. CASE UNCHANGED sessionVars
  BY <1>1 DEF sessionVars, sessionHistory, SessionsInv, SessionsTyped, SessionsTypeOK, HeldRows,
              EndedForGood, RowIsKept
<1>2. CASE SessionTick
  <2>1. /\ now' = now + 1 /\ now' \in Token
        /\ UNCHANGED <<sessions, logins, authReq, granted, accesses, ended, disturbed>>
    BY <1>2, SessionsFacts DEF SessionTick, sessionHistory, Token
  <2>2. SessionsTyped' /\ HeldRows' /\ EndedForGood'
    BY <2>1 DEF SessionsInv, SessionsTyped, SessionsTypeOK, HeldRows, EndedForGood
  <2>3. \A id \in 1 .. logins : granted[id] \in Nat
    BY SessionsFacts DEF Token
  <2>4. RowIsKept'
    <3> SUFFICES ASSUME NEW id \in (1 .. logins) \ disturbed, granted[id] + Lifetime > now'
                 PROVE  /\ id \in DOMAIN sessions
                        /\ sessions[id] = [token |-> granted[id], revoked |-> FALSE,
                                           expires |-> granted[id] + Lifetime]
      BY <2>1 DEF RowIsKept
    <3>1. granted[id] + Lifetime > now
      BY <2>1, <2>3, SessionsFacts
    <3> QED
      BY <3>1 DEF SessionsInv, RowIsKept
  <2> QED
    BY <2>2, <2>4 DEF SessionsInv
<1>3. ASSUME NEW r \in Refreshes, PresentToken(r) \/ ReadForRefresh(r) \/ SaveRefreshed(r)
      PROVE  SessionsInv'
  BY <1>3, ReadSessionStep, SaveRefreshedStep
<1>4. ASSUME NEW r \in Revocations, ReadForRevoke(r) \/ SaveRevoked(r)
      PROVE  SessionsInv'
  BY <1>4, ReadSessionStep, SaveRevokedStep
<1> QED
  BY <1>1, <1>2, <1>3, <1>4, LoginStep, RevokeAllStep, RestartAuthStep DEF SessionsNext

\* Rows, tokens and requests are well formed.
THEOREM SessionsTypeCorrect == SessionsSpec => []SessionsTypeOK
<1>1. SessionsInv => SessionsTypeOK
  BY DEF SessionsInv, SessionsTyped
<1> QED
  BY SessionsInitInv, SessionsStep, <1>1, PTL DEF SessionsSpec

\* A session that was revoked, by its token or with all others, while no refresh
\* held its row is never active again, whatever refreshes, revocations,
\* clean-ups and restarts follow and however many sessions share a token.
THEOREM RevokedForGood == SessionsSpec => []EndedSessionsStayShut
<1>1. ASSUME SessionsInv PROVE EndedSessionsStayShut
  <2>1. \A id \in ended : ~Active(id)
    BY <1>1 DEF SessionsInv, EndedForGood, Active
  <2> QED
    BY <2>1 DEF EndedSessionsStayShut, AccessAccepted
<1> QED
  BY SessionsInitInv, SessionsStep, <1>1, PTL DEF SessionsSpec

\* The token handed out last for a session that nobody ended is accepted until
\* it expires.
THEOREM NobodyIsLoggedOut == SessionsSpec => []KeepsLoggedIn
<1>1. ASSUME SessionsInv PROVE KeepsLoggedIn
  <2> SUFFICES ASSUME NEW id \in DOMAIN granted \ disturbed, granted[id] + Lifetime > now
               PROVE  RefreshAccepted(granted[id])
    BY DEF KeepsLoggedIn
  <2>1. /\ id \in DOMAIN sessions
        /\ sessions[id] = [token |-> granted[id], revoked |-> FALSE,
                           expires |-> granted[id] + Lifetime]
    BY <1>1, SessionsFacts DEF SessionsInv, RowIsKept
  <2>2. id \in Unrevoked(granted[id]) /\ Active(id)
    BY <2>1 DEF Unrevoked, Active
  <2> QED
    BY <2>2 DEF RefreshAccepted
<1> QED
  BY SessionsInitInv, SessionsStep, <1>1, PTL DEF SessionsSpec

(***************************************************************************)
(* Accounts.                                                               *)
(***************************************************************************)

UserRequests == Registrations \cup Updates

\* A request knows whose row it will write, keeps the rights it has read when it
\* may not set them, and no other account has the name it found free, unless
\* that name was shared since.
RequestSound(r, q) ==
    /\ r \in Registrations => q.id = 0
    /\ r \in Updates /\ q.pc \in {"checking", "writing"} => q.id \in DOMAIN users
    /\ r \in OwnUpdates => \A u \in q.user : q.read = {RightsOf(u)}
    /\ q.pc \in {"checked", "writing"} =>
          \A u \in q.user : \A i \in DOMAIN users \ {q.id} :
              Folded[users[i].name] = Folded[u.name] => i \in shared \/ q.id \in shared

RequestsAreSound == \A r \in UserRequests : RequestSound(r, userReq[r])

UsersInv == UsersTypeOK /\ RequestsAreSound /\ RightsAreGranted /\ NamesDifferInMoreThanCase

LEMMA NewUserRequestSound ==
    /\ NewUserRequest \in UserRequest /\ EndedUserRequest \in UserRequest
    /\ \A r : RequestSound(r, NewUserRequest) /\ RequestSound(r, EndedUserRequest)
<1>1. 0 \in 0 .. MaxUsers
  BY UsersAssumption
<1> QED
  BY <1>1 DEF NewUserRequest, EndedUserRequest, UserRequest, RequestSound

LEMMA UsersInitInv ==
    ASSUME UsersInit PROVE UsersInv
<1>1. /\ DOMAIN users = {} /\ DOMAIN rights = {} /\ overtaken = {} /\ shared = {}
      /\ userReq = [r \in Registrations \cup Updates |->
                       IF r = RecoverAdmin THEN EndedUserRequest ELSE NewUserRequest]
  BY DEF UsersInit
<1>2. DOMAIN users \in {1 .. n : n \in 0 .. MaxUsers}
  <2>1. 0 \in 0 .. MaxUsers /\ 1 .. 0 = {}
    BY UsersAssumption
  <2> QED
    BY <1>1, <2>1
<1>3. UsersTypeOK
  BY <1>1, <1>2, NewUserRequestSound DEF UsersTypeOK
<1>4. RequestsAreSound
  BY <1>1, NewUserRequestSound DEF RequestsAreSound, UserRequests
<1>5. RightsAreGranted /\ NamesDifferInMoreThanCase
  BY <1>1 DEF RightsAreGranted, NamesDifferInMoreThanCase
<1> QED
  BY <1>3, <1>4, <1>5 DEF UsersInv

\* What every step starts from.
LEMMA UsersFacts ==
    ASSUME UsersInv
    PROVE  /\ userReq \in [UserRequests -> UserRequest] /\ DOMAIN userReq = UserRequests
           /\ \A id \in DOMAIN users : users[id] \in User /\ id \in 1 .. MaxUsers
           /\ DOMAIN rights = DOMAIN users /\ 0 \notin DOMAIN users
           /\ overtaken \subseteq DOMAIN users /\ shared \subseteq DOMAIN users
           /\ \A r \in UserRequests : RequestSound(r, userReq[r])
<1>1. UsersTypeOK /\ RequestsAreSound
  BY DEF UsersInv
<1>2. PICK n \in 0 .. MaxUsers : DOMAIN users = 1 .. n
  BY <1>1 DEF UsersTypeOK
<1>3. 0 \notin 1 .. n /\ 1 .. n \subseteq 1 .. MaxUsers
  BY UsersAssumption
<1> QED
  BY <1>1, <1>2, <1>3 DEF UsersTypeOK, UserRequests, RequestsAreSound

\* A request that goes on, sound, changes nothing else.
LEMMA RequestMoves ==
    ASSUME UsersInv, NEW r \in UserRequests, NEW q \in UserRequest, RequestSound(r, q),
           userReq' = [userReq EXCEPT ![r] = q],
           UNCHANGED <<users, userHistory>>
    PROVE  UsersInv'
<1>1. UNCHANGED <<users, rights, overtaken, shared>>
  BY DEF userHistory
<1>2. /\ userReq' \in [UserRequests -> UserRequest]
      /\ \A p \in UserRequests : userReq'[p] = IF p = r THEN q ELSE userReq[p]
  BY UsersFacts
<1>3. UsersTypeOK'
  BY <1>1, <1>2 DEF UsersInv, UsersTypeOK, UserRequests
<1>4. RequestsAreSound'
  <2>1. \A p \in UserRequests : RequestSound(p, userReq'[p])
    BY <1>2, UsersFacts
  <2> QED
    BY <1>1, <2>1 DEF RequestsAreSound, RequestSound
<1>5. RightsAreGranted' /\ NamesDifferInMoreThanCase'
  BY <1>1 DEF UsersInv, RightsAreGranted, NamesDifferInMoreThanCase
<1> QED
  BY <1>3, <1>4, <1>5 DEF UsersInv

LEMMA CheckNameStep ==
    ASSUME UsersInv, NEW r \in Registrations, CheckName(r) PROVE UsersInv'
<1>1. PICK n \in Names :
         userReq' = [userReq EXCEPT ![r] =
            IF Taken(n) THEN EndedUserRequest
            ELSE [@ EXCEPT !.pc = "checked",
                  !.user = {[name |-> n, role |-> "user", activated |-> FALSE,
                             deleted |-> FALSE]}]]
  BY DEF CheckName
<1>2. r \in UserRequests /\ UNCHANGED <<users, userHistory>>
  BY DEF CheckName, UserRequests
<1> DEFINE u == [name |-> n, role |-> "user", activated |-> FALSE, deleted |-> FALSE]
           q == [userReq[r] EXCEPT !.pc = "checked", !.user = {u}]
<1>3. CASE Taken(n)
  <2>1. userReq' = [userReq EXCEPT ![r] = EndedUserRequest]
    BY <1>1, <1>3
  <2> QED
    BY <1>2, <2>1, NewUserRequestSound, RequestMoves
<1>4. CASE ~Taken(n)
  <2>1. userReq' = [userReq EXCEPT ![r] = q]
    BY <1>1, <1>4
  <2>2. u \in User
    BY DEF User, Roles
  <2>3. userReq[r] \in UserRequest /\ userReq[r].id = 0
    BY <1>2, UsersFacts DEF RequestSound
  <2>4. q \in UserRequest /\ q.id = 0 /\ q.user = {u} /\ q.pc = "checked"
    BY <2>2, <2>3 DEF UserRequest
  <2>5. r \notin Updates /\ r \notin OwnUpdates
    BY UsersAssumption DEF Updates
  <2>6. \A i \in DOMAIN users : Folded[users[i].name] # Folded[u.name]
    BY <1>4 DEF Taken
  <2> HIDE DEF u, q
  <2>7. RequestSound(r, q)
    BY <2>4, <2>5, <2>6 DEF RequestSound
  <2> QED
    BY <1>2, <2>1, <2>4, <2>7, RequestMoves
<1> QED
  BY <1>3, <1>4

LEMMA CountUsersStep ==
    ASSUME UsersInv, NEW r \in Registrations, CountUsers(r) PROVE UsersInv'
<1>1. PICK u \in userReq[r].user, ad \in BOOLEAN, ac \in BOOLEAN :
         LET user == [u EXCEPT !.role = IF ad THEN "admin" ELSE "user", !.activated = ac] IN
         userReq' = [userReq EXCEPT ![r].pc = "writing", ![r].user = {user},
                                    ![r].read = {RightsOf(user)}]
  <2>1. PICK u \in userReq[r].user :
           LET admin == AdministratorAtRegistration(u.name, NobodyThere)
               role == IF admin THEN "admin" ELSE "user"
               user == [u EXCEPT !.role = role, !.activated = ActivationDisabled \/ admin] IN
           userReq' = [userReq EXCEPT ![r].pc = "writing", ![r].user = {user},
                                      ![r].read = {RightsOf(user)}]
    BY DEF CountUsers
  <2>2. /\ AdministratorAtRegistration(u.name, NobodyThere) \in BOOLEAN
        /\ (ActivationDisabled \/ AdministratorAtRegistration(u.name, NobodyThere)) \in BOOLEAN
    BY DEF AdministratorAtRegistration
  <2> QED
    BY <2>1, <2>2
<1> DEFINE user == [u EXCEPT !.role = IF ad THEN "admin" ELSE "user", !.activated = ac]
<1>2. /\ r \in UserRequests /\ userReq[r].pc = "checked"
      /\ UNCHANGED <<users, userHistory>>
  BY DEF CountUsers, UserRequests
<1>3. userReq[r] \in UserRequest /\ userReq[r].id = 0 /\ u \in User
  BY <1>2, UsersFacts DEF RequestSound, UserRequest
<1>4. user \in User /\ user.name = u.name
  BY <1>3 DEF User, Roles
<1>5. userReq' = [userReq EXCEPT ![r].pc = "writing", ![r].user = {user},
                                 ![r].read = {RightsOf(user)}]
  BY <1>1
<1> HIDE DEF user
<1>6. userReq'[r] = [[[userReq[r] EXCEPT !.pc = "writing"] EXCEPT !.user = {user}]
                                  EXCEPT !.read = {RightsOf(user)}]
  BY <1>2, <1>5, UsersFacts
<1>7. /\ userReq'[r] \in UserRequest /\ userReq'[r].id = 0
      /\ userReq'[r].user = {user}
  <2>1. {RightsOf(user)} \in {{}} \cup {{RightsOf(v)} : v \in User}
    BY <1>4
  <2>2. {user} \in {{}} \cup {{v} : v \in User}
    BY <1>4
  <2> DEFINE q == [userReq[r] EXCEPT !.pc = "writing"]
  <2>3. q \in UserRequest /\ q.id = 0
    BY <1>3 DEF UserRequest
  <2> HIDE DEF q
  <2> DEFINE p == [q EXCEPT !.user = {user}]
  <2>4. p \in UserRequest /\ p.id = 0 /\ p.user = {user}
    BY <2>2, <2>3 DEF UserRequest
  <2> HIDE DEF p
  <2>5. userReq'[r] = [p EXCEPT !.read = {RightsOf(user)}]
    BY <1>6 DEF p, q
  <2> QED
    BY <2>1, <2>4, <2>5 DEF UserRequest
<1>8. userReq' = [userReq EXCEPT ![r] = userReq'[r]]
  BY <1>2, <1>5, UsersFacts
<1>9. RequestSound(r, userReq'[r])
  <2>1. r \notin Updates /\ r \notin OwnUpdates
    BY UsersAssumption DEF Updates
  <2>2. \A i \in DOMAIN users \ {0} :
           Folded[users[i].name] = Folded[user.name] => i \in shared \/ 0 \in shared
    BY <1>2, <1>3, <1>4, UsersFacts DEF RequestSound
  <2> QED
    BY <1>7, <2>1, <2>2 DEF RequestSound
<1> QED
  BY <1>2, <1>7, <1>8, <1>9, RequestMoves

\* A request that uses a name marks the account when another one waits to use it.
LEMMA OthersAreMarked ==
    ASSUME UsersInv, NEW r \in UserRequests, NEW u \in userReq[r].user,
           NEW p \in UserRequests, p # r, userReq[p].pc \in {"checked", "writing"},
           NEW v \in userReq[p].user, Folded[v.name] = Folded[u.name],
           NEW id, MarkShared(r, id)
    PROVE  id \in shared'
<1>1. userReq[r].user = {u} /\ userReq[p].user = {v}
  BY UsersFacts DEF UserRequest
<1>2. NameOf(r) = {u.name} /\ NameOf(p) = {v.name}
  BY <1>1 DEF NameOf
<1>3. p \in SameNamePending(r)
  BY <1>2, UsersFacts DEF SameNamePending
<1> QED
  BY <1>3 DEF MarkShared

LEMMA SaveUserStep ==
    ASSUME UsersInv, NEW r \in Registrations, SaveUser(r) PROVE UsersInv'
<1> DEFINE id == Cardinality(DOMAIN users) + 1
<1>1. PICK n \in 0 .. MaxUsers : DOMAIN users = 1 .. n
  BY DEF UsersInv, UsersTypeOK
<1>2. id = n + 1 /\ id \in 1 .. MaxUsers
  <2>1. Cardinality(1 .. n) = n
    BY <1>1, FS_Interval, UsersAssumption
  <2> QED
    BY <1>1, <2>1, UsersAssumption DEF SaveUser, UserIds
<1>3. /\ 1 .. id = DOMAIN users \cup {id} /\ id \notin DOMAIN users
      /\ id \in 0 .. MaxUsers /\ id # 0
  BY <1>1, <1>2, UsersAssumption
<1> HIDE DEF id
<1>4. /\ r \in UserRequests /\ userReq[r].pc = "writing"
      /\ userReq' = [userReq EXCEPT ![r] = EndedUserRequest]
  BY DEF SaveUser, UserRequests
<1>5. CASE UNCHANGED <<users, userHistory>>
  BY <1>4, <1>5, NewUserRequestSound, RequestMoves
<1>6. ASSUME NEW u \in userReq[r].user, NEW given,
             /\ users' = [i \in 1 .. id |-> IF i = id THEN u ELSE users[i]]
             /\ rights' = [i \in 1 .. id |-> IF i = id THEN given ELSE rights[i]]
             /\ overtaken' = IF given = RightsOf(u) THEN overtaken ELSE overtaken \cup {id}
             /\ MarkShared(r, id)
      PROVE  UsersInv'
  <2>1. userReq[r] \in UserRequest /\ userReq[r].id = 0 /\ u \in User
    BY <1>4, <1>6, UsersFacts DEF RequestSound, UserRequest
  <2>2. shared \subseteq shared' /\ shared' \subseteq shared \cup {id}
    BY <1>6 DEF MarkShared
  <2>3. /\ userReq' \in [UserRequests -> UserRequest]
        /\ \A p \in UserRequests :
              userReq'[p] = IF p = r THEN EndedUserRequest ELSE userReq[p]
    BY <1>4, UsersFacts, NewUserRequestSound
  <2>4. DOMAIN users' = DOMAIN users \cup {id} /\ DOMAIN rights' = DOMAIN users'
    BY <1>3, <1>6
  <2>5. /\ \A i \in DOMAIN users : users'[i] = users[i] /\ rights'[i] = rights[i]
        /\ users'[id] = u /\ rights'[id] = given
    BY <1>3, <1>6
  <2>6. UsersTypeOK'
    <3>1. DOMAIN users' \in {1 .. m : m \in 0 .. MaxUsers}
      BY <1>3, <1>6
    <3>2. overtaken' \subseteq DOMAIN users' /\ shared' \subseteq DOMAIN users'
      BY <1>6, <2>2, <2>4, UsersFacts
    <3> QED
      BY <2>1, <2>3, <2>4, <2>5, <3>1, <3>2, UsersFacts DEF UsersTypeOK, UserRequests
  <2>7. RequestsAreSound'
    <3> SUFFICES ASSUME NEW p \in UserRequests PROVE RequestSound(p, userReq[p])'
      BY DEF RequestsAreSound
    <3>1. CASE p = r
      BY <2>3, <3>1, NewUserRequestSound DEF RequestSound, EndedUserRequest, NewUserRequest
    <3>2. CASE p # r
      <4>1. userReq'[p] = userReq[p] /\ RequestSound(p, userReq[p])
        BY <2>3, <3>2, UsersFacts
      <4>2. ASSUME userReq[p].pc \in {"checked", "writing"}, NEW v \in userReq[p].user,
                   NEW i \in DOMAIN users' \ {userReq[p].id},
                   Folded[users'[i].name] = Folded[v.name]
            PROVE  i \in shared' \/ userReq[p].id \in shared'
        <5>1. CASE i = id
          BY <1>4, <1>6, <2>5, <3>2, <4>2, <5>1, OthersAreMarked
        <5>2. CASE i # id
          BY <2>2, <2>4, <2>5, <4>1, <4>2, <5>2 DEF RequestSound
        <5> QED
          BY <5>1, <5>2
      <4> QED
        BY <2>4, <4>1, <4>2 DEF RequestSound
    <3> QED
      BY <3>1, <3>2
  <2>8. RightsAreGranted'
    <3> SUFFICES ASSUME NEW i \in DOMAIN users' \ overtaken'
                 PROVE  RightsOf(users'[i]) = rights'[i]
      BY DEF RightsAreGranted
    <3>1. CASE i = id
      BY <1>6, <2>5, <3>1
    <3>2. CASE i # id
      BY <1>6, <2>4, <2>5, <3>2 DEF UsersInv, RightsAreGranted
    <3> QED
      BY <3>1, <3>2
  <2>9. NamesDifferInMoreThanCase'
    <3> SUFFICES ASSUME NEW i \in DOMAIN users', NEW j \in DOMAIN users', i # j,
                        Folded[users'[i].name] = Folded[users'[j].name]
                 PROVE  {i, j} \cap shared' # {}
      BY DEF NamesDifferInMoreThanCase
    <3>1. \A k \in DOMAIN users : Folded[users[k].name] = Folded[u.name] => k \in shared
      BY <1>4, <2>1, UsersFacts DEF RequestSound
    <3>2. CASE i = id \/ j = id
      BY <2>2, <2>4, <2>5, <3>1, <3>2
    <3>3. CASE i # id /\ j # id
      <4>1. {i, j} \cap shared # {}
        BY <2>4, <2>5, <3>3 DEF UsersInv, NamesDifferInMoreThanCase
      <4> QED
        BY <2>2, <4>1
    <3> QED
      BY <3>2, <3>3
  <2> QED
    BY <2>6, <2>7, <2>8, <2>9 DEF UsersInv
<1> QED
  BY <1>5, <1>6 DEF SaveUser, id

LEMMA SaveUpdateStep ==
    ASSUME UsersInv, NEW q \in Updates, SaveUpdate(q) PROVE UsersInv'
<1> DEFINE id == userReq[q].id
<1>1. /\ q \in UserRequests /\ userReq[q].pc = "writing"
      /\ userReq' = [userReq EXCEPT ![q] = EndedUserRequest]
  BY DEF SaveUpdate, UserRequests
<1>2. id \in DOMAIN users
  BY <1>1, UsersFacts DEF RequestSound
<1> HIDE DEF id
<1>3. CASE UNCHANGED <<users, userHistory>>
  BY <1>1, <1>3, NewUserRequestSound, RequestMoves
<1>4. ASSUME NEW u \in userReq[q].user,
             /\ users' = [users EXCEPT ![id] = u]
             /\ rights' = IF q \in OwnUpdates THEN rights
                          ELSE [rights EXCEPT ![id] = RightsOf(u)]
             /\ overtaken' = IF userReq[q].read = {RightsOf(users[id])} THEN overtaken
                             ELSE overtaken \cup {id}
             /\ MarkShared(q, id)
      PROVE  UsersInv'
  <2>1. u \in User
    BY <1>1, <1>4, UsersFacts DEF UserRequest
  <2>2. /\ shared \subseteq shared' /\ shared' \subseteq shared \cup {id}
        /\ overtaken \subseteq overtaken' /\ overtaken' \subseteq overtaken \cup {id}
    BY <1>4 DEF MarkShared
  <2>3. /\ userReq' \in [UserRequests -> UserRequest]
        /\ \A p \in UserRequests :
              userReq'[p] = IF p = q THEN EndedUserRequest ELSE userReq[p]
    BY <1>1, UsersFacts, NewUserRequestSound
  <2>4. DOMAIN users' = DOMAIN users /\ DOMAIN rights' = DOMAIN users
    BY <1>4, UsersFacts
  <2>5. \A i \in DOMAIN users :
           /\ users'[i] = IF i = id THEN u ELSE users[i]
           /\ i # id => rights'[i] = rights[i]
    BY <1>4, UsersFacts
  <2>6. UsersTypeOK'
    <3>1. overtaken' \subseteq DOMAIN users /\ shared' \subseteq DOMAIN users
      BY <1>2, <2>2, UsersFacts
    <3> QED
      BY <2>1, <2>3, <2>4, <2>5, <3>1 DEF UsersInv, UsersTypeOK, UserRequests
  <2>7. RequestsAreSound'
    <3> SUFFICES ASSUME NEW p \in UserRequests PROVE RequestSound(p, userReq[p])'
      BY DEF RequestsAreSound
    <3>1. CASE p = q
      BY <2>3, <3>1 DEF RequestSound, EndedUserRequest, NewUserRequest
    <3>2. CASE p # q
      <4>1. userReq'[p] = userReq[p] /\ RequestSound(p, userReq[p])
        BY <2>3, <3>2, UsersFacts
      <4>2. ASSUME userReq[p].pc \in {"checked", "writing"}, NEW v \in userReq[p].user,
                   NEW i \in DOMAIN users' \ {userReq[p].id},
                   Folded[users'[i].name] = Folded[v.name]
            PROVE  i \in shared' \/ userReq[p].id \in shared'
        <5>1. CASE i = id
          BY <1>1, <1>4, <2>4, <2>5, <3>2, <4>2, <5>1, OthersAreMarked
        <5>2. CASE i # id
          BY <2>2, <2>4, <2>5, <4>1, <4>2, <5>2 DEF RequestSound
        <5> QED
          BY <5>1, <5>2
      <4> QED
        BY <2>4, <4>1, <4>2 DEF RequestSound
    <3> QED
      BY <3>1, <3>2
  <2>8. RightsAreGranted'
    <3> SUFFICES ASSUME NEW i \in DOMAIN users \ overtaken'
                 PROVE  RightsOf(users'[i]) = rights'[i]
      BY <2>4 DEF RightsAreGranted
    <3>1. CASE i # id
      BY <2>2, <2>5, <3>1 DEF UsersInv, RightsAreGranted
    <3>2. CASE i = id /\ q \in OwnUpdates
      <4>1. userReq[q].read = {RightsOf(u)} /\ userReq[q].read = {RightsOf(users[id])}
        BY <1>1, <1>4, <3>2, UsersFacts DEF RequestSound
      <4>2. RightsOf(users[id]) = rights[id]
        BY <2>2, <3>2 DEF UsersInv, RightsAreGranted
      <4> QED
        BY <1>4, <2>5, <3>2, <4>1, <4>2
    <3>3. CASE i = id /\ q \notin OwnUpdates
      BY <1>2, <1>4, <2>5, <3>3, UsersFacts
    <3> QED
      BY <3>1, <3>2, <3>3
  <2>9. NamesDifferInMoreThanCase'
    <3> SUFFICES ASSUME NEW i \in DOMAIN users, NEW j \in DOMAIN users, i # j,
                        Folded[users'[i].name] = Folded[users'[j].name]
                 PROVE  {i, j} \cap shared' # {}
      BY <2>4 DEF NamesDifferInMoreThanCase
    <3>1. \A k \in DOMAIN users \ {id} :
             Folded[users[k].name] = Folded[u.name] => k \in shared \/ id \in shared
      BY <1>1, <1>4, UsersFacts DEF RequestSound, id
    <3>2. CASE i = id \/ j = id
      BY <2>2, <2>5, <3>1, <3>2
    <3>3. CASE i # id /\ j # id
      <4>1. {i, j} \cap shared # {}
        BY <2>5, <3>3 DEF UsersInv, NamesDifferInMoreThanCase
      <4> QED
        BY <2>2, <4>1
    <3> QED
      BY <3>2, <3>3
  <2> QED
    BY <2>6, <2>7, <2>8, <2>9 DEF UsersInv
<1> QED
  BY <1>3, <1>4 DEF SaveUpdate, id

\* What a request may set leaves the name alone, and the owner's rights.
LEMMA SettableFacts ==
    ASSUME NEW q, NEW x \in User, NEW u \in Settable(q, x)
    PROVE  u \in User /\ u.name = x.name /\ (q \in OwnUpdates => u = x)
<1>1. CASE q = RecoverAdmin /\ u = [x EXCEPT !.role = "admin", !.activated = TRUE]
  <2>1. u \in User /\ u.name = x.name
    BY <1>1 DEF User, Roles
  <2> QED
    BY <1>1, <2>1, UsersAssumption
<1>2. CASE ~(q = RecoverAdmin /\ u = [x EXCEPT !.role = "admin", !.activated = TRUE])
  BY <1>2 DEF Settable
<1> QED
  BY <1>1, <1>2

LEMMA ReadUserStep ==
    ASSUME UsersInv, NEW q \in Updates, ReadUser(q) PROVE UsersInv'
<1>1. /\ q \in UserRequests /\ q \notin Registrations
      /\ UNCHANGED <<users, userHistory>>
  BY UsersAssumption DEF ReadUser, UserRequests
<1>2. PICK id \in UpdatedBy(q), n \in Names :
         \E u \in Settable(q, users[id]) :
            /\ q = RecoverAdmin => n = u.name
            /\ userReq' = [userReq EXCEPT ![q] =
                  [pc |-> IF Folded[n] = Folded[u.name] THEN "writing" ELSE "checking",
                   id |-> id, user |-> {[u EXCEPT !.name = n]},
                   read |-> {RightsOf(users[id])}]]
  BY DEF ReadUser
<1>3. PICK u \in Settable(q, users[id]) :
         userReq' = [userReq EXCEPT ![q] =
            [pc |-> IF Folded[n] = Folded[u.name] THEN "writing" ELSE "checking",
             id |-> id, user |-> {[u EXCEPT !.name = n]}, read |-> {RightsOf(users[id])}]]
  BY <1>2
<1>4. id \in DOMAIN users /\ id \in 0 .. MaxUsers /\ users[id] \in User
  BY UsersFacts DEF UpdatedBy
<1>5. u \in User /\ u.name = users[id].name /\ (q \in OwnUpdates => u = users[id])
  BY <1>4, SettableFacts
<1> DEFINE v == [u EXCEPT !.name = n]
           pc == IF Folded[n] = Folded[u.name] THEN "writing" ELSE "checking"
           req == [pc |-> pc, id |-> id, user |-> {v}, read |-> {RightsOf(users[id])}]
<1>6. v \in User /\ v.name = n /\ RightsOf(v) = RightsOf(u)
  BY <1>5 DEF User, RightsOf
<1>7. pc \in {"writing", "checking"} /\ (pc = "writing" => Folded[n] = Folded[u.name])
  OBVIOUS
<1>8. userReq' = [userReq EXCEPT ![q] = req]
  BY <1>3
<1> HIDE DEF v, pc
<1>9. req \in UserRequest
  <2>1. {RightsOf(users[id])} \in {{}} \cup {{RightsOf(x)} : x \in User}
    BY <1>4
  <2> QED
    BY <1>4, <1>6, <1>7, <2>1 DEF UserRequest
<1>10. RequestSound(q, req)
  <2>1. q \in OwnUpdates => RightsOf(v) = RightsOf(users[id])
    BY <1>5, <1>6
  <2>2. ASSUME pc = "writing", NEW i \in DOMAIN users \ {id},
               Folded[users[i].name] = Folded[v.name]
        PROVE  i \in shared \/ id \in shared
    <3>1. Folded[users[i].name] = Folded[users[id].name]
      BY <1>5, <1>6, <1>7, <2>2
    <3>2. {i, id} \cap shared # {}
      BY <1>4, <2>2, <3>1 DEF UsersInv, NamesDifferInMoreThanCase
    <3> QED
      BY <3>2
  <2> QED
    BY <1>1, <1>4, <1>7, <2>1, <2>2 DEF RequestSound
<1> HIDE DEF req
<1> QED
  BY <1>1, <1>8, <1>9, <1>10, RequestMoves

LEMMA CheckRenameStep ==
    ASSUME UsersInv, NEW q \in Updates, CheckRename(q) PROVE UsersInv'
<1>1. /\ q \in UserRequests /\ userReq[q].pc = "checking"
      /\ UNCHANGED <<users, userHistory>>
  BY DEF CheckRename, UserRequests
<1> DEFINE req == [userReq[q] EXCEPT !.pc = "writing"]
<1>2. CASE \E n \in NameOf(q) : Taken(n)
  <2>1. userReq' = [userReq EXCEPT ![q] = EndedUserRequest]
    BY <1>2 DEF CheckRename
  <2> QED
    BY <1>1, <2>1, NewUserRequestSound, RequestMoves
<1>3. CASE ~\E n \in NameOf(q) : Taken(n)
  <2>1. userReq' = [userReq EXCEPT ![q] = req]
    BY <1>3 DEF CheckRename
  <2>2. userReq[q] \in UserRequest /\ RequestSound(q, userReq[q])
    BY <1>1, UsersFacts
  <2>3. /\ req \in UserRequest /\ req.pc = "writing" /\ req.id = userReq[q].id
        /\ req.user = userReq[q].user /\ req.read = userReq[q].read
    BY <2>2 DEF UserRequest
  <2> HIDE DEF req
  <2>4. \A u \in req.user : \A i \in DOMAIN users : Folded[users[i].name] # Folded[u.name]
    BY <1>3, <2>3 DEF NameOf, Taken
  <2>5. RequestSound(q, req)
    BY <1>1, <2>2, <2>3, <2>4 DEF RequestSound
  <2> QED
    BY <1>1, <2>1, <2>3, <2>5, RequestMoves
<1> QED
  BY <1>2, <1>3

LEMMA SetDeletedStep ==
    ASSUME UsersInv, NEW id \in DOMAIN users, NEW d \in BOOLEAN, SetDeleted(id, d)
    PROVE  UsersInv'
<1>1. /\ users' = [users EXCEPT ![id].deleted = d]
      /\ rights' = [rights EXCEPT ![id].deleted = d]
      /\ UNCHANGED <<userReq, overtaken, shared>>
  BY DEF SetDeleted
<1>2. DOMAIN users' = DOMAIN users /\ DOMAIN rights' = DOMAIN users
  BY <1>1, UsersFacts
<1>3. \A i \in DOMAIN users :
         /\ users'[i] = IF i = id THEN [users[i] EXCEPT !.deleted = d] ELSE users[i]
         /\ rights'[i] = IF i = id THEN [rights[i] EXCEPT !.deleted = d] ELSE rights[i]
  BY <1>1, UsersFacts
<1>4. \A i \in DOMAIN users : users'[i] \in User /\ users'[i].name = users[i].name
  BY <1>3, UsersFacts DEF User
<1>5. UsersTypeOK'
  BY <1>1, <1>2, <1>4 DEF UsersInv, UsersTypeOK
<1>6. RequestsAreSound'
  BY <1>1, <1>2, <1>4 DEF UsersInv, RequestsAreSound, RequestSound
<1>7. RightsAreGranted'
  <2> SUFFICES ASSUME NEW i \in DOMAIN users \ overtaken
               PROVE  RightsOf(users'[i]) = rights'[i]
    BY <1>1, <1>2 DEF RightsAreGranted
  <2>1. RightsOf(users[i]) = rights[i] /\ users[i] \in User
    BY UsersFacts DEF UsersInv, RightsAreGranted
  <2>2. RightsOf([users[i] EXCEPT !.deleted = d]) = [RightsOf(users[i]) EXCEPT !.deleted = d]
    BY <2>1 DEF RightsOf, User
  <2> QED
    BY <1>3, <2>1, <2>2
<1>8. NamesDifferInMoreThanCase'
  BY <1>1, <1>2, <1>4 DEF UsersInv, NamesDifferInMoreThanCase
<1> QED
  BY <1>5, <1>6, <1>7, <1>8 DEF UsersInv

LEMMA UsersStep ==
    ASSUME UsersInv, [UsersNext]_userVars PROVE UsersInv'
<1>1. CASE UNCHANGED userVars
  BY <1>1 DEF userVars, userHistory, UsersInv, UsersTypeOK, RequestsAreSound, RequestSound,
              RightsAreGranted, NamesDifferInMoreThanCase
<1>2. CASE RestartUsers
  <2>1. /\ userReq' = [r \in DOMAIN userReq |->
              IF r = RecoverAdmin \/ userReq[r].pc = "new" THEN NewUserRequest
              ELSE EndedUserRequest]
        /\ UNCHANGED <<users, rights, overtaken, shared>>
    BY <1>2 DEF RestartUsers, userHistory
  <2>2. UsersTypeOK'
    BY <2>1, UsersFacts, NewUserRequestSound DEF UsersInv, UsersTypeOK, UserRequests
  <2>3. RequestsAreSound'
    <3>1. \A r \in UserRequests : userReq'[r] \in {NewUserRequest, EndedUserRequest}
      BY <2>1, UsersFacts
    <3> QED
      BY <3>1 DEF RequestsAreSound, RequestSound, NewUserRequest, EndedUserRequest
  <2>4. RightsAreGranted' /\ NamesDifferInMoreThanCase'
    BY <2>1 DEF UsersInv, RightsAreGranted, NamesDifferInMoreThanCase
  <2> QED
    BY <2>2, <2>3, <2>4 DEF UsersInv
<1>3. ASSUME NEW r \in Registrations, CheckName(r) \/ CountUsers(r) \/ SaveUser(r)
      PROVE  UsersInv'
  BY <1>3, CheckNameStep, CountUsersStep, SaveUserStep
<1>4. ASSUME NEW q \in Updates, ReadUser(q) \/ CheckRename(q) \/ SaveUpdate(q)
      PROVE  UsersInv'
  BY <1>4, ReadUserStep, CheckRenameStep, SaveUpdateStep
<1>5. ASSUME NEW id \in UserIds, DeleteUser(id) \/ RecoverUser(id)
      PROVE  UsersInv'
  BY <1>5, SetDeletedStep DEF DeleteUser, RecoverUser
<1> QED
  BY <1>1, <1>2, <1>3, <1>4, <1>5 DEF UsersNext

\* Accounts have the ids 1 .. n, and requests hold whole rows.
THEOREM UsersTypeCorrect == UsersSpec => []UsersTypeOK
<1>1. UsersInv => UsersTypeOK
  BY DEF UsersInv
<1> QED
  BY UsersInitInv, UsersStep, <1>1, PTL DEF UsersSpec

\* Nobody gains or keeps a role, an activation or a deletion that registration,
\* an administrator or a deletion did not give, but through a request that saved
\* a row it had read before such a change.
THEOREM NobodyGrantsThemselves == UsersSpec => []RightsAreGranted
<1>1. UsersInv => RightsAreGranted
  BY DEF UsersInv
<1> QED
  BY UsersInitInv, UsersStep, <1>1, PTL DEF UsersSpec

\* Registrations and renamings keep names apart in more than their case, but for
\* requests that checked one name at once.
THEOREM NamesStayApart == UsersSpec => []NamesDifferInMoreThanCase
<1>1. UsersInv => NamesDifferInMoreThanCase
  BY DEF UsersInv
<1> QED
  BY UsersInitInv, UsersStep, <1>1, PTL DEF UsersSpec

(***************************************************************************)
(* The login limiter.                                                      *)
(***************************************************************************)

FailuresFrom(a) == {f \in failures : a <= f.at}
FailuresBetween(a, b) == {f \in failures : a <= f.at /\ f.at < b}

\* Counts stay below the number of requests, and nothing is of the future.
LimiterTyped ==
    /\ LimiterTypeOK
    /\ tried + refused <= requested
    /\ \A r \in record : r.count + tried + refused <= requested /\ r.start <= seconds
    /\ \A f \in failures : f.at <= seconds
    /\ IsFiniteSet(failures)
    /\ inParallel \/ tried + refused <= 1

\* A window counts its failures, and the second of its start has one that the
\* rest of it has not; a request let through leaves room in it.
WindowCounts ==
    \A r \in record :
        /\ Cardinality(FailuresFrom(r.start)) <= r.count
        /\ Cardinality(FailuresFrom(r.start)) <= MaxAttempts
        /\ Cardinality(FailuresFrom(r.start + 1)) < r.count
        /\ Cardinality(FailuresFrom(r.start + 1)) < MaxAttempts
        /\ tried > 0 /\ r \in Running => r.count < MaxAttempts
        /\ \A f \in failures : f.at < r.start + Window

\* Before a window, or while there is none, fewer than the maximum are recent.
FewerBefore ==
    /\ \A r \in record, a \in Int :
          a > r.start - Window => Cardinality(FailuresBetween(a, r.start)) < MaxAttempts
    /\ record = {} =>
          /\ \A a \in Int : a > seconds - Window => Cardinality(FailuresFrom(a)) < MaxAttempts
          /\ \A f \in failures : f.at < seconds

AlwaysFewer == \A a \in Int : Cardinality(FailuresWithin(a)) < 2 * MaxAttempts

\* A refused client waits for the window that is full; after it, only a wrong
\* password fills another one.
ToldTheWindow ==
    MaxAttempts > 1 => \A t \in told :
        /\ seconds < t =>
              /\ tried = 0
              /\ \E r \in record : r.start + Window = t /\ r.count >= MaxAttempts
        /\ seconds >= t =>
              \/ \E f \in failures : f.at >= t
              \/ /\ \A r \in Running : r.count <= 1
                 /\ refused > 0 => Running = {}

LimiterInv ==
    /\ LimiterTyped
    /\ inParallel \/ (WindowCounts /\ FewerBefore /\ AlwaysFewer /\ ToldTheWindow)

LEMMA AtMostBoth ==
    ASSUME NEW S, NEW T, NEW U, IsFiniteSet(S), IsFiniteSet(T), U \subseteq S \cup T
    PROVE  /\ IsFiniteSet(U) /\ Cardinality(U) \in Nat
           /\ Cardinality(S) \in Nat /\ Cardinality(T) \in Nat
           /\ Cardinality(U) <= Cardinality(S) + Cardinality(T)
<1>1. /\ IsFiniteSet(S \cup T) /\ IsFiniteSet(S \cap T)
      /\ Cardinality(S \cup T) = Cardinality(S) + Cardinality(T) - Cardinality(S \cap T)
  BY FS_Union, FS_Intersection
<1>2. IsFiniteSet(U) /\ Cardinality(U) <= Cardinality(S \cup T)
  BY <1>1, FS_Subset
<1>3. /\ Cardinality(S) \in Nat /\ Cardinality(T) \in Nat /\ Cardinality(U) \in Nat
      /\ Cardinality(S \cap T) \in Nat /\ Cardinality(S \cup T) \in Nat
  BY <1>1, <1>2, FS_CardinalityType
<1> QED
  BY <1>1, <1>2, <1>3

LEMMA AtMostOneMore ==
    ASSUME NEW S, NEW T, NEW x, IsFiniteSet(S), T \subseteq S \cup {x}
    PROVE  /\ IsFiniteSet(T) /\ Cardinality(T) \in Nat /\ Cardinality(S) \in Nat
           /\ Cardinality(T) <= Cardinality(S) + 1
<1>1. IsFiniteSet({x}) /\ Cardinality({x}) = 1
  BY FS_Singleton
<1> QED
  BY <1>1, AtMostBoth

LEMMA NoMore ==
    ASSUME NEW S, NEW T, IsFiniteSet(S), T \subseteq S
    PROVE  /\ IsFiniteSet(T) /\ Cardinality(T) \in Nat /\ Cardinality(S) \in Nat
           /\ Cardinality(T) <= Cardinality(S)
BY FS_Subset, FS_CardinalityType

LEMMA LimiterFacts ==
    ASSUME LimiterTyped
    PROVE  /\ seconds \in Int /\ 0 <= seconds /\ seconds <= MaxTime
           /\ MaxAttempts \in Int /\ MaxAttempts > 0 /\ Window \in Int /\ Window > 0
           /\ LoginRequests \in Int /\ MaxTime \in Int
           /\ requested \in Int /\ 0 <= requested /\ requested <= LoginRequests
           /\ tried \in Int /\ 0 <= tried /\ refused \in Int /\ 0 <= refused
           /\ tried + refused <= requested
           /\ record = {} \/ \E r : record = {r}
           /\ \A r \in record :
                 /\ r = [count |-> r.count, start |-> r.start]
                 /\ r.count \in Int /\ 1 <= r.count /\ r.start \in Int /\ 0 <= r.start
                 /\ r.count + tried + refused <= requested /\ r.start <= seconds
           /\ \A f \in failures : f \in Failure /\ f.at \in Int /\ f.at <= seconds
           /\ told \subseteq 0 .. MaxTime + Window /\ told \subseteq Int
           /\ inParallel \in BOOLEAN
<1>1. LimiterTypeOK
  BY DEF LimiterTyped
<1>2. seconds \in 0 .. MaxTime /\ MaxTime \in Nat /\ LoginRequests \in Nat
  BY <1>1, LimiterAssumption DEF LimiterTypeOK, Seconds
<1>3. requested \in 0 .. LoginRequests /\ tried \in 0 .. LoginRequests
      /\ refused \in 0 .. LoginRequests
  BY <1>1 DEF LimiterTypeOK
<1>4. \A r \in record : r \in AttemptRecord
  BY <1>1 DEF LimiterTypeOK
<1>5. \A r \in AttemptRecord :
         /\ r = [count |-> r.count, start |-> r.start]
         /\ r.count \in 1 .. LoginRequests /\ r.start \in 0 .. MaxTime
  BY DEF AttemptRecord, Seconds
<1>6. record = {} \/ \E r : record = {r}
  BY <1>1 DEF LimiterTypeOK
<1>7. \A f \in failures : f \in Failure /\ f.at \in 0 .. MaxTime
  BY <1>1 DEF LimiterTypeOK, Failure, Seconds
<1>8. told \subseteq 0 .. MaxTime + Window /\ inParallel \in BOOLEAN
  BY <1>1 DEF LimiterTypeOK
<1>9. told \subseteq Int
  BY <1>8
<1>10. /\ MaxAttempts \in Int /\ MaxAttempts > 0 /\ Window \in Int /\ Window > 0
       /\ seconds \in Int /\ 0 <= seconds /\ seconds <= MaxTime
       /\ LoginRequests \in Int /\ MaxTime \in Int
       /\ requested \in Int /\ 0 <= requested /\ requested <= LoginRequests
       /\ tried \in Int /\ 0 <= tried /\ refused \in Int /\ 0 <= refused
  BY <1>2, <1>3, LimiterAssumption
<1>11. \A r \in record :
          /\ r = [count |-> r.count, start |-> r.start]
          /\ r.count \in Int /\ 1 <= r.count /\ r.start \in Int /\ 0 <= r.start
  BY <1>2, <1>4, <1>5
<1>12. /\ tried + refused <= requested
       /\ \A r \in record : r.count + tried + refused <= requested /\ r.start <= seconds
       /\ \A f \in failures : f.at <= seconds
  BY DEF LimiterTyped
<1>13. \A f \in failures : f \in Failure /\ f.at \in Int /\ f.at <= seconds
  BY <1>7, <1>12
<1>14. \A r \in record :
          /\ r = [count |-> r.count, start |-> r.start]
          /\ r.count \in Int /\ 1 <= r.count /\ r.start \in Int /\ 0 <= r.start
          /\ r.count + tried + refused <= requested /\ r.start <= seconds
  BY <1>11, <1>12, Zenon
<1> QED
  BY <1>6, <1>8, <1>9, <1>10, <1>12, <1>13, <1>14, Zenon

LEMMA FailuresAreFinite ==
    ASSUME LimiterTyped
    PROVE  \A a, b : /\ IsFiniteSet(FailuresFrom(a)) /\ Cardinality(FailuresFrom(a)) \in Nat
                     /\ IsFiniteSet(FailuresBetween(a, b))
                     /\ Cardinality(FailuresBetween(a, b)) \in Nat
                     /\ IsFiniteSet(FailuresWithin(a)) /\ Cardinality(FailuresWithin(a)) \in Nat
<1>1. IsFiniteSet(failures)
  BY DEF LimiterTyped
<1> QED
  BY <1>1, NoMore DEF FailuresFrom, FailuresBetween, FailuresWithin

\* The response of a failure starts a window, or goes on with the one there is.
LEMMA CountedCases ==
    ASSUME LimiterTyped
    PROVE  \/ /\ Running = {}
              /\ Counted = {[count |-> 1, start |-> seconds]}
              /\ \A r \in record : seconds - r.start >= Window
           \/ \E r \in record :
                 /\ record = {r} /\ Running = {r} /\ seconds - r.start < Window
                 /\ Counted = {[count |-> r.count + 1, start |-> r.start]}
<1>1. CASE Running = {}
  BY <1>1, LimiterFacts DEF Running, Counted
<1>2. CASE Running # {}
  <2>1. PICK r \in Running : TRUE
    BY <1>2
  <2>2. r \in record /\ record = {r} /\ seconds - r.start < Window
    BY <2>1, LimiterFacts DEF Running
  <2>3. Running = {r}
    BY <2>1, <2>2 DEF Running
  <2>4. r = [count |-> r.count, start |-> r.start]
    BY <2>2, LimiterFacts
  <2>5. [r EXCEPT !.count = @ + 1] = [count |-> r.count + 1, start |-> r.start]
    BY <2>4
  <2> QED
    BY <2>2, <2>3, <2>5 DEF Counted
<1> QED
  BY <1>1, <1>2

LEMMA LimiterInitInv ==
    ASSUME LimiterInit PROVE LimiterInv
<1>1. /\ seconds = 0 /\ record = {} /\ requested = 0 /\ tried = 0 /\ refused = 0
      /\ failures = {} /\ told = {} /\ inParallel = FALSE
  BY DEF LimiterInit
<1>2. 0 \in 0 .. MaxTime /\ 0 \in 0 .. LoginRequests
  BY LimiterAssumption
<1>3. IsFiniteSet({}) /\ Cardinality({}) = 0
  BY FS_EmptySet
<1>4. LimiterTyped
  <2>1. LimiterTypeOK
    BY <1>1, <1>2 DEF LimiterTypeOK, Seconds
  <2>2. tried + refused <= requested /\ tried + refused <= 1
    BY <1>1
  <2> QED
    BY <1>1, <1>3, <2>1, <2>2 DEF LimiterTyped
<1>5. \A a : FailuresFrom(a) = {} /\ FailuresWithin(a) = {}
  BY <1>1 DEF FailuresFrom, FailuresWithin
<1>6. WindowCounts /\ FewerBefore /\ AlwaysFewer /\ ToldTheWindow
  <2>1. 0 < MaxAttempts /\ 0 < 2 * MaxAttempts
    BY LimiterAssumption
  <2>2. WindowCounts /\ ToldTheWindow
    BY <1>1 DEF WindowCounts, ToldTheWindow
  <2>3. FewerBefore
    BY <1>1, <1>3, <1>5, <2>1 DEF FewerBefore
  <2>4. AlwaysFewer
    BY <1>3, <1>5, <2>1 DEF AlwaysFewer
  <2> QED
    BY <2>2, <2>3, <2>4
<1> QED
  BY <1>4, <1>6 DEF LimiterInv

\* A response that counts leaves a record of the right type.
LEMMA CountedTyped ==
    ASSUME LimiterTyped, tried + refused > 0
    PROVE  \E x \in AttemptRecord :
              /\ Counted = {x} /\ x.start <= seconds
              /\ x.count + tried + refused - 1 <= requested
<1>0. /\ seconds \in Seconds /\ tried \in Int /\ refused \in Int /\ requested \in Int
      /\ requested <= LoginRequests /\ LoginRequests \in Int
      /\ tried + refused <= requested
  BY LimiterFacts DEF LimiterTyped, LimiterTypeOK
<1>1. CASE Counted = {[count |-> 1, start |-> seconds]}
  <2> DEFINE x == [count |-> 1, start |-> seconds]
  <2>1. 1 \in 1 .. LoginRequests /\ 1 + tried + refused - 1 <= requested
    BY <1>0
  <2>2. seconds <= seconds
    BY LimiterFacts
  <2>3. x \in AttemptRecord /\ x.start = seconds /\ x.count = 1
    BY <1>0, <2>1 DEF AttemptRecord
  <2> HIDE DEF x
  <2> QED
    BY <1>1, <2>1, <2>2, <2>3 DEF x
<1>2. ASSUME NEW r \in record, Counted = {[count |-> r.count + 1, start |-> r.start]}
      PROVE  \E x \in AttemptRecord :
                /\ Counted = {x} /\ x.start <= seconds
                /\ x.count + tried + refused - 1 <= requested
  <2> DEFINE x == [count |-> r.count + 1, start |-> r.start]
  <2>1. /\ r.count \in Int /\ 1 <= r.count /\ r.start <= seconds
        /\ r.count + tried + refused <= requested
    BY LimiterFacts
  <2>2. /\ r.count + 1 \in 1 .. LoginRequests
        /\ r.count + 1 + tried + refused - 1 <= requested
    BY <1>0, <2>1
  <2>3. r.start \in Seconds
    BY LimiterFacts DEF LimiterTyped, LimiterTypeOK, AttemptRecord
  <2>4. x \in AttemptRecord /\ x.start = r.start /\ x.count = r.count + 1
    BY <2>2, <2>3 DEF AttemptRecord
  <2> HIDE DEF x
  <2> QED
    BY <1>2, <2>1, <2>2, <2>4 DEF x
<1> QED
  BY <1>1, <1>2, CountedCases

LEMMA LimiterTypedStep ==
    ASSUME LimiterTyped, [LimiterNext]_limiterVars PROVE LimiterTyped'
<1> USE DEF LimiterTyped, LimiterTypeOK
<1>1. CASE UNCHANGED limiterVars
  BY <1>1 DEF limiterVars
<1>2. CASE LimiterTick
  <2>1. seconds' \in Seconds /\ seconds' = seconds + 1
    BY <1>2, LimiterFacts DEF LimiterTick, Seconds
  <2>2. UNCHANGED <<record, requested, tried, refused, failures, told, inParallel>>
    BY <1>2 DEF LimiterTick
  <2>3. \A r \in record : r.start <= seconds + 1
    BY LimiterFacts
  <2>4. \A f \in failures : f.at <= seconds + 1
    BY LimiterFacts
  <2>5. LimiterTypeOK'
    BY <2>1, <2>2
  <2> QED
    BY <2>1, <2>2, <2>3, <2>4, <2>5
<1>3. CASE Attempt
  <2>1. /\ requested' = requested + 1 /\ requested' \in 0 .. LoginRequests
        /\ record' = Running /\ Running \subseteq record
        /\ inParallel' = (inParallel \/ tried + refused > 0)
        /\ UNCHANGED <<seconds, failures>>
    BY <1>3, LimiterFacts DEF Attempt, Running
  <2>2. /\ tried' \in 0 .. LoginRequests /\ refused' \in 0 .. LoginRequests
        /\ tried' + refused' = tried + refused + 1
    BY <1>3, <2>1, LimiterFacts DEF Attempt
  <2>3. told' \subseteq 0 .. MaxTime + Window
    <3>1. \A r \in record : r.start + Window \in 0 .. MaxTime + Window
      BY LimiterFacts
    <3>2. CASE Reached
      BY <1>3, <2>1, <3>1, <3>2 DEF Attempt
    <3>3. CASE ~Reached
      BY <1>3, <3>3 DEF Attempt
    <3> QED
      BY <3>2, <3>3
  <2>4. record' = {} \/ \E r \in AttemptRecord : record' = {r}
    BY <2>1
  <2>5. LimiterTypeOK'
    BY <2>1, <2>2, <2>3, <2>4
  <2>6. tried' + refused' <= requested'
    BY <2>1, <2>2, LimiterFacts
  <2>7. \A r \in record' : r.count + tried' + refused' <= requested' /\ r.start <= seconds
    BY <2>1, <2>2, LimiterFacts
  <2>8. inParallel' \/ tried' + refused' <= 1
    <3>1. CASE tried + refused > 0
      BY <2>1, <3>1, Zenon
    <3>2. CASE ~(tried + refused > 0)
      BY <2>2, <3>2, LimiterFacts
    <3> QED
      BY <3>1, <3>2
  <2> QED
    BY <2>1, <2>5, <2>6, <2>7, <2>8
<1>4. ASSUME tried + refused > 0, tried' + refused' = tried + refused - 1,
             tried' \in 0 .. LoginRequests, refused' \in 0 .. LoginRequests,
             \/ record' = Counted \/ record' = {} \/ record' = record,
             \/ failures' \in {failures, {}}
             \/ tried > 0 /\ failures' = failures \cup {[nr |-> requested, at |-> seconds]},
             UNCHANGED <<seconds, requested, told, inParallel>>
      PROVE  LimiterTyped'
  <2>1. /\ record' = {} \/ \E r \in AttemptRecord : record' = {r}
        /\ \A r \in record' : r.count + tried' + refused' <= requested /\ r.start <= seconds
    <3>1. CASE record' = Counted
      BY <1>4, <3>1, CountedTyped, LimiterFacts DEF AttemptRecord
    <3>2. CASE record' = {}
      BY <3>2
    <3>3. CASE record' = record
      BY <1>4, <3>3, LimiterFacts
    <3> QED
      BY <1>4, <3>1, <3>2, <3>3
  <2>2. /\ failures' \subseteq Failure /\ IsFiniteSet(failures')
        /\ \A f \in failures' : f.at <= seconds
    <3>1. CASE failures' = failures
      BY <3>1
    <3>2. CASE failures' = {}
      BY <3>2, FS_EmptySet
    <3>3. CASE tried > 0 /\ failures' = failures \cup {[nr |-> requested, at |-> seconds]}
      <4>1. requested \in 1 .. LoginRequests /\ seconds \in Seconds /\ seconds <= seconds
        BY <1>4, <3>3, LimiterFacts
      <4>2. [nr |-> requested, at |-> seconds] \in Failure
        BY <4>1 DEF Failure
      <4>3. IsFiniteSet(failures')
        BY <3>3, FS_AddElement
      <4> QED
        BY <3>3, <4>1, <4>2, <4>3
    <3> QED
      BY <1>4, <3>1, <3>2, <3>3
  <2>3. LimiterTypeOK'
    BY <1>4, <2>1, <2>2
  <2>4. /\ tried' + refused' <= requested
        /\ inParallel \/ tried' + refused' <= 1
    BY <1>4, LimiterFacts
  <2> QED
    BY <1>4, <2>1, <2>2, <2>3, <2>4
<1>5. CASE WrongPassword \/ RightPassword \/ OtherAnswer
  <2>1. /\ tried > 0 /\ tried' = tried - 1 /\ UNCHANGED refused
        /\ UNCHANGED <<seconds, requested, told, inParallel>>
        /\ record' = Counted \/ record' = {} \/ record' = record
        /\ \/ failures' \in {failures, {}}
           \/ failures' = failures \cup {[nr |-> requested, at |-> seconds]}
    BY <1>5 DEF WrongPassword, RightPassword, OtherAnswer
  <2>2. /\ tried' \in 0 .. LoginRequests /\ refused' \in 0 .. LoginRequests
        /\ tried' + refused' = tried + refused - 1 /\ tried + refused > 0
    BY <2>1, LimiterFacts
  <2> QED
    BY <1>4, <2>1, <2>2
<1>6. CASE FinishRefusal
  <2>1. /\ refused > 0 /\ refused' = refused - 1 /\ record' = Counted
        /\ UNCHANGED <<seconds, requested, tried, failures, told, inParallel>>
    BY <1>6 DEF FinishRefusal
  <2>2. /\ tried' \in 0 .. LoginRequests /\ refused' \in 0 .. LoginRequests
        /\ tried' + refused' = tried + refused - 1 /\ tried + refused > 0
    BY <2>1, LimiterFacts
  <2> QED
    BY <1>4, <2>1, <2>2
<1> QED
  BY <1>1, <1>2, <1>3, <1>5, <1>6 DEF LimiterNext

\* As long as requests came one after the other, they did so before.
LEMMA OneAfterTheOther ==
    ASSUME LimiterInv, LimiterNext, ~inParallel'
    PROVE  /\ ~inParallel /\ tried + refused <= 1
           /\ WindowCounts /\ FewerBefore /\ AlwaysFewer /\ ToldTheWindow
           /\ Attempt => tried = 0 /\ refused = 0
<1>1. ~inParallel
  BY Zenon DEF LimiterNext, LimiterTick, Attempt, WrongPassword, RightPassword, OtherAnswer,
               FinishRefusal
<1>2. tried + refused <= 1 /\ WindowCounts /\ FewerBefore /\ AlwaysFewer /\ ToldTheWindow
  BY <1>1 DEF LimiterInv, LimiterTyped
<1>3. Attempt => ~(tried + refused > 0)
  BY Zenon DEF Attempt
<1>4. Attempt => tried = 0 /\ refused = 0
  BY <1>3, LimiterFacts DEF LimiterInv
<1> QED
  BY <1>1, <1>2, <1>4

\* When no window runs, fewer failures than the maximum lie one window back.
LEMMA NoneRunning ==
    ASSUME LimiterTyped, WindowCounts, FewerBefore, Running = {}
    PROVE  /\ \A a \in Int : a > seconds - Window => Cardinality(FailuresFrom(a)) < MaxAttempts
           /\ \A f \in failures : f.at < seconds
<1>1. CASE record = {}
  BY <1>1 DEF FewerBefore
<1>2. ASSUME NEW r \in record
      PROVE  /\ \A a \in Int : a > seconds - Window =>
                   Cardinality(FailuresFrom(a)) < MaxAttempts
             /\ \A f \in failures : f.at < seconds
  <2>1. r.start \in Int /\ seconds - r.start >= Window
    BY LimiterFacts DEF Running
  <2>2. \A f \in failures : f.at < seconds
    BY <2>1, LimiterFacts DEF WindowCounts
  <2>3. ASSUME NEW a \in Int, a > seconds - Window
        PROVE  Cardinality(FailuresFrom(a)) < MaxAttempts
    <3>1. a >= r.start + 1
      BY <2>1, <2>3, LimiterFacts
    <3>2. FailuresFrom(a) \subseteq FailuresFrom(r.start + 1)
      BY <2>1, <2>3, <3>1, LimiterFacts DEF FailuresFrom
    <3>3. Cardinality(FailuresFrom(a)) <= Cardinality(FailuresFrom(r.start + 1))
      BY <3>2, NoMore, FailuresAreFinite
    <3>4. Cardinality(FailuresFrom(r.start + 1)) < MaxAttempts
      BY DEF WindowCounts
    <3> QED
      BY <3>3, <3>4, FailuresAreFinite, LimiterFacts
  <2> QED
    BY <2>2, <2>3
<1> QED
  BY <1>1, <1>2

\* A response that counts, of a request that failed or was refused.
CountingStep ==
    /\ record' = Counted
    /\ UNCHANGED <<seconds, told>>
    /\ \/ UNCHANGED failures
       \/ /\ failures' = failures \cup {[nr |-> requested, at |-> seconds]}
          /\ \A r \in Running : r.count < MaxAttempts

\* Failures are added at the present second, one at a time.
LEMMA OneFailureMore ==
    ASSUME LimiterTyped, CountingStep
    PROVE  /\ \A a \in Int : /\ Cardinality(FailuresFrom(a)') <= Cardinality(FailuresFrom(a)) + 1
                             /\ UNCHANGED failures \/ seconds < a =>
                                   FailuresFrom(a)' = FailuresFrom(a)
           /\ \A a, b \in Int : b <= seconds => FailuresBetween(a, b)' = FailuresBetween(a, b)
           /\ \A a \in Int : ~(a <= seconds /\ seconds < a + Window) =>
                 FailuresWithin(a)' = FailuresWithin(a)
           /\ \A f \in failures' : f \in failures \/ f.at = seconds
           /\ \A a : Cardinality(FailuresFrom(a)') \in Nat
<1> DEFINE new == [nr |-> requested, at |-> seconds]
<1>1. new.at = seconds /\ failures' \subseteq failures \cup {new} /\ failures \subseteq failures'
  BY DEF CountingStep
<1> HIDE DEF new
<1>2. seconds \in Int /\ Window \in Int /\ \A f \in failures : f.at \in Int
  BY LimiterFacts
<1>3. ASSUME NEW a \in Int
      PROVE  Cardinality(FailuresFrom(a)') <= Cardinality(FailuresFrom(a)) + 1
  <2>1. FailuresFrom(a)' \subseteq FailuresFrom(a) \cup {new}
    BY <1>1 DEF FailuresFrom
  <2> QED
    BY <2>1, AtMostOneMore, FailuresAreFinite
<1>4. ASSUME NEW a \in Int, UNCHANGED failures \/ seconds < a
      PROVE  FailuresFrom(a)' = FailuresFrom(a)
  BY <1>1, <1>2, <1>4 DEF FailuresFrom
<1>5. ASSUME NEW a \in Int, NEW b \in Int, b <= seconds
      PROVE  FailuresBetween(a, b)' = FailuresBetween(a, b)
  BY <1>1, <1>2, <1>5 DEF FailuresBetween
<1>6. ASSUME NEW a \in Int, ~(a <= seconds /\ seconds < a + Window)
      PROVE  FailuresWithin(a)' = FailuresWithin(a)
  BY <1>1, <1>2, <1>6 DEF FailuresWithin
<1>7. \A f \in failures' : f \in failures \/ f.at = seconds
  BY <1>1
<1>8. IsFiniteSet(failures) /\ IsFiniteSet(failures \cup {new})
  BY FS_AddElement DEF LimiterTyped
<1>9. \A a : Cardinality(FailuresFrom(a)') \in Nat
  <2>1. IsFiniteSet(failures')
    BY <1>1, <1>8, FS_Subset
  <2> QED
    BY <2>1, NoMore DEF FailuresFrom
<1> QED
  BY <1>3, <1>4, <1>5, <1>6, <1>7, <1>9

LEMMA CountingKeepsWindows ==
    ASSUME LimiterTyped, WindowCounts, FewerBefore, CountingStep, tried' = 0
    PROVE  WindowCounts' /\ FewerBefore'
<1>0. /\ seconds \in Int /\ seconds' = seconds /\ record' = Counted
      /\ MaxAttempts \in Int /\ MaxAttempts > 0 /\ Window \in Int /\ Window > 0
      /\ \A f \in failures : f.at \in Int /\ f.at <= seconds
      /\ \A f \in failures' : f \in failures \/ f.at = seconds
  BY LimiterFacts, OneFailureMore DEF CountingStep
<1>1. ASSUME NEW c \in Int, NEW s \in Int, s <= seconds,
             record' = {[count |-> c, start |-> s]},
             Cardinality(FailuresFrom(s)') <= c, Cardinality(FailuresFrom(s)') <= MaxAttempts,
             Cardinality(FailuresFrom(s + 1)') < c,
             Cardinality(FailuresFrom(s + 1)') < MaxAttempts,
             \A f \in failures' : f.at < s + Window,
             \A a \in Int : a > s - Window => Cardinality(FailuresBetween(a, s)) < MaxAttempts
      PROVE  WindowCounts' /\ FewerBefore'
  <2>1. \A r \in record' : r.count = c /\ r.start = s
    BY <1>1
  <2>2. ~(tried' > 0)
    OBVIOUS
  <2>3. WindowCounts'
    BY <1>1, <2>1, <2>2 DEF WindowCounts, FailuresFrom
  <2>4. \A a \in Int : a > s - Window => Cardinality(FailuresBetween(a, s)') < MaxAttempts
    BY <1>1, OneFailureMore
  <2>5. FewerBefore'
    <3>1. record' # {}
      BY <1>1
    <3>2. \A r \in record', a \in Int : a > r.start - Window =>
             Cardinality({f \in failures' : a <= f.at /\ f.at < r.start}) < MaxAttempts
      BY <2>1, <2>4 DEF FailuresBetween
    <3> QED
      BY <3>1, <3>2 DEF FewerBefore, FailuresBetween
  <2> QED
    BY <2>3, <2>5
<1>2. ASSUME NEW s \in Int, s = seconds, Running = {}, Counted = {[count |-> 1, start |-> s]}
      PROVE  WindowCounts' /\ FewerBefore'
  <2>1. /\ \A a \in Int : a > seconds - Window => Cardinality(FailuresFrom(a)) < MaxAttempts
        /\ \A f \in failures : f.at < seconds
    BY <1>2, NoneRunning
  <2>2. FailuresFrom(s) = {} /\ FailuresFrom(s + 1) = {}
    BY <1>0, <1>2, <2>1 DEF FailuresFrom
  <2>3. Cardinality(FailuresFrom(s)) = 0 /\ Cardinality(FailuresFrom(s + 1)) = 0
    BY <2>2, FS_EmptySet
  <2>4. s + 1 \in Int /\ seconds < s + 1
    BY <1>2
  <2>5. Cardinality(FailuresFrom(s)') <= 1
    BY <2>3, OneFailureMore
  <2>6. Cardinality(FailuresFrom(s + 1)') = 0
    BY <2>3, <2>4, OneFailureMore
  <2>7. ASSUME NEW a \in Int, a > s - Window
        PROVE  Cardinality(FailuresBetween(a, s)) < MaxAttempts
    <3>1. FailuresBetween(a, s) \subseteq FailuresFrom(a)
      BY DEF FailuresBetween, FailuresFrom
    <3>2. Cardinality(FailuresBetween(a, s)) <= Cardinality(FailuresFrom(a))
      BY <3>1, NoMore, FailuresAreFinite
    <3>3. Cardinality(FailuresFrom(a)) < MaxAttempts
      BY <1>2, <2>1, <2>7
    <3> QED
      BY <1>0, <3>2, <3>3, FailuresAreFinite
  <2>8. \A f \in failures' : f.at < s + Window
    BY <1>0, <1>2
  <2>9. s <= seconds /\ record' = {[count |-> 1, start |-> s]}
    BY <1>0, <1>2
  <2>10. 1 <= MaxAttempts /\ 0 < MaxAttempts /\ 1 \in Int
    BY <1>0
  <2>11. Cardinality(FailuresFrom(s)') <= MaxAttempts
    <3>1. Cardinality(FailuresFrom(s)') = 0 \/ Cardinality(FailuresFrom(s)') = 1
      <4>1. Cardinality(FailuresFrom(s)') \in Nat
        BY OneFailureMore
      <4> QED
        BY <2>5, <4>1
    <3> QED
      BY <1>0, <3>1
  <2> QED
    BY <1>1, <2>5, <2>6, <2>7, <2>8, <2>9, <2>10, <2>11
<1>3. ASSUME NEW c \in Int, NEW s \in Int, NEW r \in record, r.count = c, r.start = s,
             Running = {r}, seconds - s < Window,
             Counted = {[count |-> c + 1, start |-> s]}
      PROVE  WindowCounts' /\ FewerBefore'
  <2>1. /\ Cardinality(FailuresFrom(s)) <= c /\ Cardinality(FailuresFrom(s)) <= MaxAttempts
        /\ Cardinality(FailuresFrom(s + 1)) < c
        /\ Cardinality(FailuresFrom(s + 1)) < MaxAttempts
        /\ \A f \in failures : f.at < s + Window
    BY <1>3 DEF WindowCounts
  <2>2. /\ Cardinality(FailuresFrom(s)) \in Nat /\ Cardinality(FailuresFrom(s + 1)) \in Nat
        /\ s <= seconds /\ c + 1 \in Int /\ s + 1 \in Int
    <3>1. s <= seconds
      BY <1>3, LimiterFacts
    <3>2. c + 1 \in Int /\ s + 1 \in Int
      OBVIOUS
    <3> QED
      BY <3>1, <3>2, FailuresAreFinite
  <2>3. /\ Cardinality(FailuresFrom(s)') \in Nat /\ Cardinality(FailuresFrom(s + 1)') \in Nat
    BY OneFailureMore
  <2>4. /\ Cardinality(FailuresFrom(s)') <= Cardinality(FailuresFrom(s)) + 1
        /\ Cardinality(FailuresFrom(s + 1)') <= Cardinality(FailuresFrom(s + 1)) + 1
    BY <2>2, OneFailureMore
  <2>5. /\ Cardinality(FailuresFrom(s)') <= c + 1
        /\ Cardinality(FailuresFrom(s + 1)') < c + 1
    BY <2>1, <2>2, <2>3, <2>4
  <2>6. /\ Cardinality(FailuresFrom(s)') <= MaxAttempts
        /\ Cardinality(FailuresFrom(s + 1)') < MaxAttempts
    <3>1. CASE UNCHANGED failures
      <4>1. /\ FailuresFrom(s)' = FailuresFrom(s)
            /\ FailuresFrom(s + 1)' = FailuresFrom(s + 1)
        BY <2>2, <3>1, OneFailureMore
      <4> QED
        BY <2>1, <4>1
    <3>2. CASE c < MaxAttempts
      BY <1>0, <2>1, <2>2, <2>3, <2>4, <3>2
    <3> QED
      BY <1>3, <3>1, <3>2 DEF CountingStep
  <2>7. \A f \in failures' : f.at < s + Window
    BY <1>0, <1>3, <2>1
  <2>8. \A a \in Int : a > s - Window => Cardinality(FailuresBetween(a, s)) < MaxAttempts
    BY <1>3 DEF FewerBefore
  <2>9. record' = {[count |-> c + 1, start |-> s]}
    BY <1>0, <1>3
  <2> QED
    BY <1>1, <2>2, <2>5, <2>6, <2>7, <2>8, <2>9
<1>4. CASE Running = {} /\ Counted = {[count |-> 1, start |-> seconds]}
  BY <1>0, <1>2, <1>4
<1>5. CASE \E r \in record :
              /\ record = {r} /\ Running = {r} /\ seconds - r.start < Window
              /\ Counted = {[count |-> r.count + 1, start |-> r.start]}
  BY <1>3, <1>5, LimiterFacts
<1> QED
  BY <1>4, <1>5, CountedCases

\* A stretch that holds the present second holds the end of what came before
\* the window and the start of the window.
LEMMA CountingKeepsFewer ==
    ASSUME LimiterTyped, LimiterTyped', WindowCounts', FewerBefore', AlwaysFewer, CountingStep
    PROVE  AlwaysFewer'
<1>0. /\ seconds \in Int /\ seconds' = seconds /\ record' = Counted
      /\ MaxAttempts \in Int /\ MaxAttempts > 0 /\ Window \in Int /\ Window > 0
  BY LimiterFacts DEF CountingStep
<1>1. PICK n : record' = {n}
  BY <1>0, CountedCases
<1>2. n.start \in Int /\ n.start <= seconds
  <2>1. record' \in {{}} \cup {{r} : r \in AttemptRecord}
    BY DEF LimiterTyped, LimiterTypeOK
  <2>2. n \in AttemptRecord
    BY <1>1, <2>1
  <2>3. n.start <= seconds'
    BY <1>1 DEF LimiterTyped
  <2> QED
    BY <1>0, <2>2, <2>3, LimiterAssumption DEF AttemptRecord, Seconds
<1>3. PICK s \in Int : s = n.start
  BY <1>2
<1>4. IsFiniteSet(failures')
  BY DEF LimiterTyped
<1>5. SUFFICES ASSUME NEW a \in Int PROVE Cardinality(FailuresWithin(a)') < 2 * MaxAttempts
  BY DEF AlwaysFewer
<1>6. CASE ~(a <= seconds /\ seconds < a + Window)
  <2>1. FailuresWithin(a)' = FailuresWithin(a)
    BY <1>6, OneFailureMore
  <2> QED
    BY <2>1 DEF AlwaysFewer
<1>7. CASE a <= seconds /\ seconds < a + Window
  <2>1. a > s - Window
    BY <1>0, <1>2, <1>3, <1>7
  <2>2. Cardinality(FailuresBetween(a, s)') < MaxAttempts
    BY <1>1, <1>3, <2>1 DEF FewerBefore, FailuresBetween
  <2>3. Cardinality(FailuresFrom(s)') <= MaxAttempts
    BY <1>1, <1>3 DEF WindowCounts, FailuresFrom
  <2>4. \A f \in failures' : f.at \in Int
    BY LimiterAssumption DEF LimiterTyped, LimiterTypeOK, Failure, Seconds
  <2>5. FailuresWithin(a)' \subseteq FailuresBetween(a, s)' \cup FailuresFrom(s)'
    BY <2>4 DEF FailuresWithin, FailuresBetween, FailuresFrom
  <2>6. IsFiniteSet(FailuresBetween(a, s)') /\ IsFiniteSet(FailuresFrom(s)')
    BY <1>4, NoMore DEF FailuresBetween, FailuresFrom
  <2> QED
    BY <1>0, <2>2, <2>3, <2>5, <2>6, AtMostBoth
<1> QED
  BY <1>6, <1>7

\* A wrong password is an answer to those who were told; the response of a
\* refusal goes on with the full window, or starts one that is not full.
LEMMA CountingKeepsTold ==
    ASSUME LimiterTyped, ToldTheWindow, CountingStep, tried' = 0, refused' = 0,
           tried > 0 \/ (UNCHANGED failures /\ refused > 0),
           tried > 0 => \E f \in failures' : f.at = seconds
    PROVE  ToldTheWindow'
<1>0. /\ seconds \in Int /\ seconds' = seconds /\ record' = Counted /\ told' = told
      /\ \A t \in told : t \in Int
  BY LimiterFacts DEF CountingStep
<1>1. SUFFICES ASSUME MaxAttempts > 1, NEW t \in told
               PROVE  /\ seconds < t =>
                            \E r \in record' : r.start + Window = t /\ r.count >= MaxAttempts
                      /\ seconds >= t =>
                            \/ \E f \in failures' : f.at >= t
                            \/ \A r \in Running' : r.count <= 1
  BY <1>0 DEF ToldTheWindow
<1>2. CASE seconds < t
  <2>1. tried = 0 /\ \E r \in record : r.start + Window = t /\ r.count >= MaxAttempts
    BY <1>1, <1>2 DEF ToldTheWindow
  <2>2. PICK r \in record : r.start + Window = t /\ r.count >= MaxAttempts
    BY <2>1
  <2>3. record = {r} /\ r.start \in Int /\ r.count \in Int
    BY LimiterFacts
  <2>4. seconds - r.start < Window
    BY <1>0, <1>2, <2>2, <2>3, LimiterFacts
  <2>5. r \in Running
    BY <2>4 DEF Running
  <2>6. Counted = {[count |-> r.count + 1, start |-> r.start]}
    BY <2>3, <2>5, CountedCases
  <2>7. r.count + 1 >= MaxAttempts
    BY <2>2, <2>3, LimiterFacts
  <2> DEFINE n == [count |-> r.count + 1, start |-> r.start]
  <2>8. n \in record' /\ n.start + Window = t /\ n.count >= MaxAttempts
    BY <1>0, <2>2, <2>6, <2>7
  <2> QED
    BY <1>2, <2>8, LimiterFacts
<1>3. CASE seconds >= t /\ tried > 0
  BY <1>0, <1>3
<1>4. CASE seconds >= t /\ UNCHANGED failures /\ refused > 0
  <2>1. CASE \E f \in failures : f.at >= t
    BY <1>0, <1>4, <2>1
  <2>2. CASE Running = {}
    <3>1. record' = {[count |-> 1, start |-> seconds]}
      BY <1>0, <2>2, CountedCases
    <3>2. \A r \in record' : r.count = 1
      BY <3>1
    <3> QED
      BY <1>0, <1>4, <3>2 DEF Running
  <2> QED
    BY <1>1, <1>4, <2>1, <2>2 DEF ToldTheWindow
<1>5. seconds < t \/ seconds >= t
  BY <1>0
<1> QED
  BY <1>2, <1>3, <1>4, <1>5

LEMMA LimiterTickKeeps ==
    ASSUME LimiterTyped, WindowCounts, FewerBefore, AlwaysFewer, ToldTheWindow, LimiterTick
    PROVE  WindowCounts' /\ FewerBefore' /\ AlwaysFewer' /\ ToldTheWindow'
<1>0. /\ seconds \in Int /\ seconds' = seconds + 1 /\ Window \in Int
      /\ UNCHANGED <<record, requested, tried, refused, failures, told, inParallel>>
  BY LimiterFacts DEF LimiterTick
<1>1. Running' \subseteq Running
  BY <1>0, LimiterFacts DEF Running
<1>2. WindowCounts' /\ AlwaysFewer'
  BY <1>0, <1>1 DEF WindowCounts, AlwaysFewer, FailuresFrom, FailuresWithin
<1>3. FewerBefore'
  <2>1. \A a \in Int : a > seconds + 1 - Window => a > seconds - Window
    BY <1>0
  <2>2. \A f \in failures : f.at < seconds => f.at < seconds + 1
    BY <1>0, LimiterFacts
  <2> QED
    BY <1>0, <2>1, <2>2 DEF FewerBefore, FailuresFrom, FailuresBetween
<1>4. ToldTheWindow'
  <2> SUFFICES ASSUME MaxAttempts > 1, NEW t \in told
               PROVE  /\ seconds + 1 < t =>
                            /\ tried = 0
                            /\ \E r \in record : r.start + Window = t /\ r.count >= MaxAttempts
                      /\ seconds + 1 >= t =>
                            \/ \E f \in failures : f.at >= t
                            \/ /\ \A r \in Running' : r.count <= 1
                               /\ refused > 0 => Running' = {}
    BY <1>0 DEF ToldTheWindow
  <2>1. t \in Int
    BY LimiterFacts
  <2>2. CASE seconds < t
    <3>1. tried = 0 /\ \E r \in record : r.start + Window = t /\ r.count >= MaxAttempts
      BY <2>2 DEF ToldTheWindow
    <3>2. ASSUME seconds + 1 >= t PROVE Running' = {}
      <4>1. PICK r \in record : r.start + Window = t
        BY <3>1
      <4>2. record = {r} /\ r.start \in Int
        BY LimiterFacts
      <4>3. ~(seconds + 1 - r.start < Window)
        BY <1>0, <2>1, <3>2, <4>1, <4>2
      <4> QED
        BY <1>0, <4>2, <4>3 DEF Running
    <3> QED
      BY <3>1, <3>2
  <2>3. CASE seconds >= t
    <3>1. ~(seconds + 1 < t)
      BY <1>0, <2>1, <2>3
    <3> QED
      BY <1>1, <2>3, <3>1 DEF ToldTheWindow
  <2> QED
    BY <1>0, <2>1, <2>2, <2>3
<1> QED
  BY <1>2, <1>3, <1>4

LEMMA AttemptKeeps ==
    ASSUME LimiterTyped, WindowCounts, FewerBefore, AlwaysFewer, ToldTheWindow, Attempt,
           tried = 0, refused = 0
    PROVE  WindowCounts' /\ FewerBefore' /\ AlwaysFewer' /\ ToldTheWindow'
<1>0. /\ record' = Running /\ UNCHANGED <<seconds, failures>>
      /\ seconds \in Int /\ Window \in Int /\ MaxAttempts \in Int
  BY LimiterFacts DEF Attempt
<1>1. Running' = Running /\ Running \subseteq record
  BY <1>0 DEF Running
<1>2. /\ Reached => tried' = 0 /\ refused' = 1 /\ told' = {r.start + Window : r \in Running}
      /\ ~Reached => tried' = 1 /\ refused' = 0 /\ told' = told
  BY DEF Attempt
<1>3. WindowCounts'
  <2>1. tried' > 0 => \A r \in Running : r.count < MaxAttempts
    <3>1. tried' > 0 => ~Reached
      BY <1>2
    <3>2. ~Reached => \A r \in Running : r.count < MaxAttempts
      BY <1>1, LimiterFacts DEF Reached
    <3> QED
      BY <3>1, <3>2
  <2> QED
    BY <1>0, <1>1, <2>1 DEF WindowCounts, FailuresFrom
<1>4. FewerBefore'
  <2>1. CASE Running = {}
    BY <1>0, <2>1, NoneRunning DEF FewerBefore, FailuresFrom
  <2>2. CASE Running # {}
    BY <1>0, <1>1, <2>2 DEF FewerBefore, FailuresBetween
  <2> QED
    BY <2>1, <2>2
<1>5. AlwaysFewer'
  BY <1>0 DEF AlwaysFewer, FailuresWithin
<1>6. ToldTheWindow'
  <2>1. CASE Reached
    <3> SUFFICES ASSUME NEW t \in told'
                 PROVE  /\ seconds < t /\ tried' = 0
                        /\ \E r \in Running : r.start + Window = t /\ r.count >= MaxAttempts
      <4>1. \A t \in told' : t \in Int
        BY <1>1, <1>2, <2>1, LimiterFacts
      <4> QED
        BY <1>0, <4>1 DEF ToldTheWindow
    <3>1. PICK r \in Running : t = r.start + Window
      BY <1>2, <2>1
    <3>2. seconds < t
      BY <1>0, <3>1, LimiterFacts DEF Running
    <3>3. \A q \in Running : q = r
      BY <1>1, LimiterFacts
    <3>4. r.count >= MaxAttempts
      BY <2>1, <3>3 DEF Reached
    <3> QED
      BY <1>2, <2>1, <3>1, <3>2, <3>4
  <2>2. CASE ~Reached
    <3> SUFFICES ASSUME MaxAttempts > 1, NEW t \in told
                 PROVE  /\ ~(seconds < t)
                        /\ \/ \E f \in failures : f.at >= t
                           \/ \A r \in Running : r.count <= 1
      BY <1>0, <1>1, <1>2, <2>2 DEF ToldTheWindow
    <3>1. t \in Int
      BY LimiterFacts
    <3>2. ASSUME seconds < t PROVE FALSE
      <4>1. PICK r \in record : r.start + Window = t /\ r.count >= MaxAttempts
        BY <3>2 DEF ToldTheWindow
      <4>2. r \in Running
        BY <1>0, <3>1, <3>2, <4>1, LimiterFacts DEF Running
      <4> QED
        BY <2>2, <4>1, <4>2 DEF Reached
    <3>3. seconds >= t
      BY <1>0, <3>1, <3>2
    <3> QED
      BY <3>2, <3>3 DEF ToldTheWindow
  <2> QED
    BY <2>1, <2>2
<1> QED
  BY <1>3, <1>4, <1>5, <1>6

LEMMA LimiterStep ==
    ASSUME LimiterInv, [LimiterNext]_limiterVars PROVE LimiterInv'
<1>t. LimiterTyped' /\ LimiterTyped
  BY LimiterTypedStep DEF LimiterInv
<1>1. CASE UNCHANGED limiterVars
  BY <1>1 DEF limiterVars, LimiterInv, LimiterTyped, LimiterTypeOK, WindowCounts, FewerBefore,
              AlwaysFewer, ToldTheWindow, FailuresFrom, FailuresBetween, FailuresWithin, Running
<1>2. ASSUME LimiterNext, ~inParallel'
      PROVE  WindowCounts' /\ FewerBefore' /\ AlwaysFewer' /\ ToldTheWindow'
  <2>0. /\ tried + refused <= 1 /\ WindowCounts /\ FewerBefore /\ AlwaysFewer /\ ToldTheWindow
        /\ Attempt => tried = 0 /\ refused = 0
    BY <1>2, OneAfterTheOther
  <2>1. CASE LimiterTick
    BY <1>t, <2>0, <2>1, LimiterTickKeeps
  <2>2. CASE Attempt
    BY <1>t, <2>0, <2>2, AttemptKeeps
  <2>3. CASE WrongPassword
    <3>1. /\ record' = Counted /\ UNCHANGED <<seconds, told, refused>>
          /\ failures' = failures \cup {[nr |-> requested, at |-> seconds]}
          /\ tried > 0 /\ tried' = tried - 1
      BY <2>3 DEF WrongPassword
    <3>2. tried' = 0 /\ refused' = 0
      BY <1>t, <2>0, <3>1, LimiterFacts
    <3>3. \A r \in Running : r.count < MaxAttempts
      BY <2>0, <3>1 DEF WindowCounts, Running
    <3>4. CountingStep
      BY <3>1, <3>3 DEF CountingStep
    <3>5. [nr |-> requested, at |-> seconds] \in failures'
      BY <3>1
    <3>6. \E f \in failures' : f.at = seconds
      BY <3>5
    <3>7. WindowCounts' /\ FewerBefore'
      BY <1>t, <2>0, <3>2, <3>4, CountingKeepsWindows
    <3>8. AlwaysFewer'
      BY <1>t, <2>0, <3>4, <3>7, CountingKeepsFewer
    <3>9. ToldTheWindow'
      BY <1>t, <2>0, <3>1, <3>2, <3>4, <3>6, CountingKeepsTold
    <3> QED
      BY <3>7, <3>8, <3>9
  <2>4. CASE RightPassword
    <3>1. /\ record' = {} /\ failures' = {} /\ UNCHANGED <<seconds, told, refused>>
          /\ tried > 0 /\ tried' = tried - 1
      BY <2>4 DEF RightPassword
    <3>2. Running' = {} /\ \A a : FailuresFrom(a)' = {} /\ FailuresWithin(a)' = {}
      BY <3>1 DEF Running, FailuresFrom, FailuresWithin
    <3>3. Cardinality({}) = 0 /\ 0 < MaxAttempts /\ 0 < 2 * MaxAttempts
      BY FS_EmptySet, LimiterAssumption
    <3>4. FewerBefore' /\ AlwaysFewer'
      BY <3>1, <3>2, <3>3 DEF FewerBefore, AlwaysFewer, FailuresFrom
    <3>5. \A t \in told : MaxAttempts > 1 => ~(seconds < t)
      BY <1>t, <2>0, <3>1, LimiterFacts DEF ToldTheWindow
    <3> QED
      BY <3>1, <3>2, <3>4, <3>5 DEF WindowCounts, ToldTheWindow
  <2>5. CASE OtherAnswer
    <3>1. /\ UNCHANGED <<seconds, record, failures, told, refused>>
          /\ tried > 0 /\ tried' = tried - 1
      BY <2>5 DEF OtherAnswer
    <3>2. tried' = 0
      BY <1>t, <2>0, <3>1, LimiterFacts
    <3>3. Running' = Running
      BY <3>1 DEF Running
    <3>4. ~(tried' > 0)
      BY <3>2
    <3> QED
      BY <2>0, <3>1, <3>2, <3>3, <3>4 DEF WindowCounts, FewerBefore, AlwaysFewer, ToldTheWindow,
         FailuresFrom, FailuresBetween, FailuresWithin
  <2>6. CASE FinishRefusal
    <3>1. /\ record' = Counted /\ UNCHANGED <<seconds, told, tried, failures>>
          /\ refused > 0 /\ refused' = refused - 1
      BY <2>6 DEF FinishRefusal
    <3>2. tried = 0 /\ tried' = 0 /\ refused' = 0 /\ ~(tried > 0)
      BY <1>t, <2>0, <3>1, LimiterFacts
    <3>3. CountingStep
      BY <3>1 DEF CountingStep
    <3>4. WindowCounts' /\ FewerBefore'
      BY <1>t, <2>0, <3>2, <3>3, CountingKeepsWindows
    <3>5. AlwaysFewer' /\ ToldTheWindow'
      BY <1>t, <2>0, <3>1, <3>2, <3>3, <3>4, CountingKeepsFewer, CountingKeepsTold
    <3> QED
      BY <3>4, <3>5
  <2> QED
    BY <1>2, <2>1, <2>2, <2>3, <2>4, <2>5, <2>6 DEF LimiterNext
<1> QED
  BY <1>t, <1>1, <1>2 DEF LimiterInv

\* Counts and times stay within the requests that were made.
THEOREM LimiterTypeCorrect == LimiterSpec => []LimiterTypeOK
<1>1. LimiterInv => LimiterTypeOK
  BY DEF LimiterInv, LimiterTyped
<1> QED
  BY LimiterInitInv, LimiterStep, <1>1, PTL DEF LimiterSpec

\* Whatever the maximum and the length of the window: requests that come one
\* after the other fail fewer than twice the maximum in any such length of time.
THEOREM GuessesAreLimited == LimiterSpec => []FailuresAreLimited
<1>1. ASSUME LimiterInv PROVE FailuresAreLimited
  <2>1. \A t \in Seconds : t \in Int
    BY LimiterAssumption DEF Seconds
  <2> QED
    BY <1>1, <2>1 DEF LimiterInv, AlwaysFewer, FailuresAreLimited
<1> QED
  BY LimiterInitInv, LimiterStep, <1>1, PTL DEF LimiterSpec

\* A client who waits as long as it was told to gets to try again, if the
\* maximum is more than one.
THEOREM WaitingIsEnough == LimiterSpec => []RetryAfterIsKept
<1>1. ASSUME LimiterInv PROVE RetryAfterIsKept
  <2> SUFFICES ASSUME MaxAttempts > 1, NEW t \in told, seconds >= t,
                      \A f \in failures : f.at < t, ~inParallel
               PROVE  ~Reached
    BY DEF RetryAfterIsKept, TriesAgainAsTold
  <2>1. LimiterTyped /\ ToldTheWindow
    BY <1>1 DEF LimiterInv
  <2>2. ~\E f \in failures : f.at >= t
    BY <2>1, LimiterFacts
  <2>3. \A r \in Running : r.count <= 1
    BY <2>1, <2>2 DEF ToldTheWindow
  <2> QED
    BY <2>1, <2>3, LimiterFacts DEF Reached, Running
<1> QED
  BY LimiterInitInv, LimiterStep, <1>1, PTL DEF LimiterSpec
=============================================================================

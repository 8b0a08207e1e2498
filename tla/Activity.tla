------------------------------- MODULE Activity -------------------------------
(***************************************************************************)
(* Online activities: ActivityGateway                                      *)
(* (src/src/modules/users/activity.gateway.ts).  One activity is kept for a*)
(* user, with the socket that set it, until that socket disconnects.       *)
(***************************************************************************)
EXTENDS Integers, FiniteSets

CONSTANTS
    Sockets,            \* connections, each used once
    SocketUser,         \* SocketUser[s]: the user of socket s
    MaxMessages         \* bound: set-activity messages

ASSUME ActivityAssumption == DOMAIN SocketUser = Sockets /\ MaxMessages \in Nat

VARIABLES
    activities, \* {} or {socket} for every user
    connected,  \* sockets that are connected
    unconnected,    \* sockets that have not connected yet
    storing,    \* number of messages of each socket whose user is being loaded
    messages,   \* messages received
    lastSocket, \* history: socket of the newest activity of each user
    cutShort    \* history: sockets that disconnected with a message under way

activityVars == <<activities, connected, unconnected, storing, messages, lastSocket, cutShort>>
ActiveUsers == {SocketUser[s] : s \in Sockets}

ActivityTypeOK ==
    /\ activities \in [ActiveUsers -> {{}} \cup {{s} : s \in Sockets}]
    /\ \A u \in ActiveUsers : \A s \in activities[u] : SocketUser[s] = u
    /\ connected \cap unconnected = {}
    /\ storing \in [Sockets -> 0 .. MaxMessages]
    /\ messages \in 0 .. MaxMessages
    /\ cutShort \subseteq Sockets

ActivityInit ==
    /\ activities = [u \in ActiveUsers |-> {}]
    /\ connected = {} /\ unconnected = Sockets
    /\ storing = [s \in Sockets |-> 0]
    /\ messages = 0
    /\ lastSocket = [u \in ActiveUsers |-> {}]
    /\ cutShort = {}

\* handleConnection sends the activities.
HandleConnection(s) ==
    /\ s \in unconnected
    /\ connected' = connected \cup {s}
    /\ unconnected' = unconnected \ {s}
    /\ UNCHANGED <<activities, storing, messages, lastSocket, cutShort>>

\* A message arrives; setActivity awaits the user.
ReceiveActivity(s) ==
    /\ s \in connected
    /\ messages < MaxMessages
    /\ messages' = messages + 1
    /\ storing' = [storing EXCEPT ![s] = @ + 1]
    /\ UNCHANGED <<activities, connected, unconnected, lastSocket, cutShort>>

StoreActivity(s) ==
    /\ storing[s] > 0
    /\ storing' = [storing EXCEPT ![s] = @ - 1]
    /\ activities' = [activities EXCEPT ![SocketUser[s]] = {s}]
    /\ lastSocket' = [lastSocket EXCEPT ![SocketUser[s]] = {s}]
    /\ UNCHANGED <<connected, unconnected, messages, cutShort>>

\* Mutant: the activity is looked up by the user of the socket.
ForgetUser(s) == [activities EXCEPT ![SocketUser[s]] = {}]

\* handleDisconnect deletes the entries of the socket.
ForgetSocket(s) == [u \in ActiveUsers |-> activities[u] \ {s}]

Disconnect(s) ==
    /\ s \in connected
    /\ connected' = connected \ {s}
    /\ activities' = ForgetSocket(s)
    /\ cutShort' = IF storing[s] > 0 THEN cutShort \cup {s} ELSE cutShort
    /\ UNCHANGED <<unconnected, storing, messages, lastSocket>>

ActivityNext ==
    \E s \in Sockets :
        HandleConnection(s) \/ ReceiveActivity(s) \/ StoreActivity(s) \/ Disconnect(s)

ActivitySpec == ActivityInit /\ [][ActivityNext]_activityVars

(***************************************************************************)
(* Properties.                                                             *)
(***************************************************************************)

\* A user's newest activity is shown as long as the socket that set it is
\* connected, however many devices the user has, and no longer; only a message
\* that was still being handled when its socket disconnected leaves one behind.
ActivityFollowsSocket ==
    \A u \in ActiveUsers : \A s \in lastSocket[u] \ cutShort :
        activities[u] = IF s \in connected THEN {s} ELSE {}
=============================================================================

---------------------------- MODULE StorageProofs -----------------------------
(***************************************************************************)
(* What the server keeps for its users and for itself: the progress in a    *)
(* game and the cloud saves, the cache of the web UI, the files that are   *)
(* streamed to clients, and the database with its backups.  Proved for any *)
(* number of clients, requests, uploads, builds, versions, faults and       *)
(* crashes.                                                                *)
(***************************************************************************)
EXTENDS Savefiles, Progress, WebUI, Transfers, DatabaseRestore, FiniteSetTheorems, TLAPS

(***************************************************************************)
(* Progress.                                                               *)
(***************************************************************************)

\* What a request has read is the row of an id, or the empty progress.
LEMMA ReadIsARow ==
    ASSUME ProgressTypeOK, NEW p \in Read
    PROVE  /\ p \in ClientType /\ p.pc = "idle" /\ p.added = 0 /\ p.set = 0 /\ p.current
           /\ \/ p.id = 0 /\ p.minutes = 0
              \/ /\ p.id \in ActiveProgress
                 /\ p.minutes = progress[p.id].minutes
<1>1. IdleClient \in ClientType
  BY ProgressAssumption DEF IdleClient, ClientType, States
<1>2. ActiveProgress \subseteq ProgressIds
  BY DEF ActiveProgress
<1>3. CASE ActiveProgress = {}
  <2>1. p = IdleClient
    BY <1>3 DEF Read
  <2> QED
    BY <1>1, <2>1 DEF IdleClient
<1>4. CASE ActiveProgress # {}
  <2>1. PICK i \in ActiveProgress :
           p = [IdleClient EXCEPT !.id = i, !.minutes = progress[i].minutes,
                                  !.state = progress[i].state]
    BY <1>4 DEF Read
  <2>2. i \in ProgressIds /\ progress[i] \in ProgressRow
    BY <1>2 DEF ProgressTypeOK
  <2>3. i \in 1 .. MaxProgresses /\ i \in 0 .. MaxProgresses
    BY <2>2, ProgressAssumption DEF ProgressIds
  <2> QED
    BY <1>1, <2>1, <2>2, <2>3 DEF IdleClient, ClientType, ProgressRow
<1> QED
  BY <1>3, <1>4

\* What a request holds was reported once its own save has been credited.
HeldIsReported ==
    \A c \in Clients :
        \/ preq[c].minutes <= credited.set + credited.added + preq[c].added
        \/ preq[c].minutes <= preq[c].set

ProgressInv == ProgressTypeOK /\ NoInventedMinutes /\ HeldIsReported

\* The invariant survives the start of a request whose progress is reported.
LEMMA BeginRequestInv ==
    ASSUME ProgressInv, NEW c \in Clients, NEW client \in ClientType,
           \/ client.minutes <= credited.set + credited.added + client.added
           \/ client.minutes <= client.set,
           BeginRequest(c, client)
    PROVE  ProgressInv'
<1>1. /\ preq' = [preq EXCEPT ![c] = client]
      /\ UNCHANGED <<progress, credited>>
      /\ begun' \in 0 .. MaxRequests
  BY ProgressAssumption DEF BeginRequest, ProgressInv, ProgressTypeOK
<1>2. ProgressTypeOK'
  BY <1>1 DEF ProgressInv, ProgressTypeOK
<1> QED
  BY <1>1, <1>2 DEF ProgressInv, ProgressTypeOK, NoInventedMinutes, HeldIsReported

\* A request that reads, computes and is under way; refused requests do nothing.
LEMMA RequestInv ==
    ASSUME ProgressInv, NEW c \in Clients,
           \/ SetUnplayed(c)
           \/ \E state \in States : SetState(c, state)
           \/ \E state \in States \cup {NoState}, m \in -MaxMinutes .. MaxMinutes :
                 SetMinutes(c, state, m)
           \/ \E n \in -MaxMinutes .. MaxMinutes : Increment(c, n)
           \/ DeleteProgress(c)
    PROVE  ProgressInv'
<1>0. PICK p \in Read : \E client :
         /\ \/ client = [p EXCEPT !.pc = "remove", !.state = "UNPLAYED"]
            \/ \E state \in States : client = [p EXCEPT !.pc = "save", !.state = state]
            \/ \E state \in States \cup {NoState}, m \in -MaxMinutes .. MaxMinutes :
                  client = Saving(p, state, m)
            \/ \E n \in -MaxMinutes .. MaxMinutes :
                  client = [p EXCEPT !.pc = "save", !.minutes = @ + n, !.added = n,
                                     !.state = Played(@)]
            \/ client = [p EXCEPT !.pc = "softRemove"]
         /\ BeginRequest(c, client)
  BY DEF SetUnplayed, SetState, SetMinutes, Increment, DeleteProgress
<1>1. PICK client :
         /\ \/ client = [p EXCEPT !.pc = "remove", !.state = "UNPLAYED"]
            \/ \E state \in States : client = [p EXCEPT !.pc = "save", !.state = state]
            \/ \E state \in States \cup {NoState}, m \in -MaxMinutes .. MaxMinutes :
                  client = Saving(p, state, m)
            \/ \E n \in -MaxMinutes .. MaxMinutes :
                  client = [p EXCEPT !.pc = "save", !.minutes = @ + n, !.added = n,
                                     !.state = Played(@)]
            \/ client = [p EXCEPT !.pc = "softRemove"]
         /\ BeginRequest(c, client)
  BY <1>0
<1>2. p \in ClientType /\ p.added = 0 /\ p.set = 0
  BY ReadIsARow DEF ProgressInv
<1>3. p.minutes <= credited.set + credited.added
  <2>1. CASE p.minutes = 0
    BY <2>1 DEF ProgressInv, ProgressTypeOK
  <2>2. CASE p.id \in ActiveProgress /\ p.minutes = progress[p.id].minutes
    BY <2>2 DEF ProgressInv, NoInventedMinutes, ActiveProgress
  <2> QED
    BY <2>1, <2>2, ReadIsARow DEF ProgressInv
<1>4. credited.set \in Nat /\ credited.added \in Nat
  BY DEF ProgressInv, ProgressTypeOK
<1>5. /\ client \in ClientType
      /\ \/ client.minutes <= credited.set + credited.added + client.added
         \/ client.minutes <= client.set
  <2>0. p.minutes \in Int /\ p.state \in States
    BY <1>2 DEF ClientType
  <2>1. CASE client = [p EXCEPT !.pc = "remove", !.state = "UNPLAYED"]
    <3>1. client \in ClientType
      BY <1>2, <2>1 DEF ClientType, States
    <3>2. client.minutes = p.minutes /\ client.added = 0
      BY <1>2, <2>1 DEF ClientType
    <3> QED
      BY <1>3, <1>4, <2>0, <3>1, <3>2
  <2>2. CASE \E state \in States : client = [p EXCEPT !.pc = "save", !.state = state]
    <3>1. client \in ClientType
      BY <1>2, <2>2 DEF ClientType
    <3>2. client.minutes = p.minutes /\ client.added = 0
      BY <1>2, <2>2 DEF ClientType
    <3> QED
      BY <1>3, <1>4, <2>0, <3>1, <3>2
  <2>3. CASE \E state \in States \cup {NoState}, m \in -MaxMinutes .. MaxMinutes :
                client = Saving(p, state, m)
    <3>1. PICK state \in States \cup {NoState}, m \in -MaxMinutes .. MaxMinutes :
             client = Saving(p, state, m)
      BY <2>3
    <3>2. PICK new \in States : client = [p EXCEPT !.pc = "save", !.minutes = m, !.set = m,
                                                   !.state = new]
      BY <2>0, <3>1 DEF Saving, Played, States
    <3>3. m \in Int
      BY ProgressAssumption
    <3>4. client \in ClientType
      BY <1>2, <3>2, <3>3 DEF ClientType
    <3>5. client.minutes = m /\ client.set = m
      BY <1>2, <3>2 DEF ClientType
    <3> QED
      BY <3>3, <3>4, <3>5
  <2>4. CASE \E n \in -MaxMinutes .. MaxMinutes :
                client = [p EXCEPT !.pc = "save", !.minutes = @ + n, !.added = n,
                                   !.state = Played(@)]
    <3>1. PICK n \in -MaxMinutes .. MaxMinutes :
             client = [p EXCEPT !.pc = "save", !.minutes = @ + n, !.added = n,
                                !.state = Played(@)]
      BY <2>4
    <3>2. n \in Int /\ p.minutes + n \in Int /\ Played(p.state) \in States
      BY <2>0, ProgressAssumption DEF Played, States
    <3>3. client \in ClientType
      BY <1>2, <3>1, <3>2 DEF ClientType
    <3>4. client.minutes = p.minutes + n /\ client.added = n
      BY <1>2, <3>1 DEF ClientType
    <3> QED
      BY <1>3, <1>4, <2>0, <3>2, <3>3, <3>4
  <2>5. CASE client = [p EXCEPT !.pc = "softRemove"]
    <3>1. client \in ClientType
      BY <1>2, <2>5 DEF ClientType
    <3>2. client.minutes = p.minutes /\ client.added = 0
      BY <1>2, <2>5 DEF ClientType
    <3> QED
      BY <1>3, <1>4, <2>0, <3>1, <3>2
  <2> QED
    BY <1>1, <2>1, <2>2, <2>3, <2>4, <2>5
<1> QED
  BY <1>1, <1>5, BeginRequestInv, ZenonT(30)

\* The end of a request changes no other but for noting that it may be outdated.
LEMMA EndRequestKeeps ==
    ASSUME ProgressTypeOK, NEW c \in Clients, EndRequest(c)
    PROVE  /\ preq' \in [Clients -> ClientType]
           /\ preq'[c] = IdleClient
           /\ \A k \in Clients \ {c} :
                 \/ preq'[k] = IdleClient
                 \/ preq'[k] = [preq[k] EXCEPT !.current = FALSE]
<1>1. IdleClient \in ClientType
  BY ProgressAssumption DEF IdleClient, ClientType, States
<1>2. \A k \in Clients : [preq[k] EXCEPT !.current = FALSE] \in ClientType
  BY DEF ProgressTypeOK, ClientType
<1> QED
  BY <1>1, <1>2 DEF EndRequest

LEMMA SaveProgressInv ==
    ASSUME ProgressInv, NEW c \in Clients, SaveProgress(c)
    PROVE  ProgressInv'
<1> DEFINE bound == credited.set + credited.added
<1>1. preq[c] \in ClientType /\ credited \in [added : Nat, set : Nat]
  BY DEF ProgressInv, ProgressTypeOK
<1>2. PICK i \in ProgressIds : progress' = [progress EXCEPT ![i] =
         [st |-> "active", minutes |-> preq[c].minutes, state |-> preq[c].state]]
  BY DEF SaveProgress
<1>3. /\ credited' \in [added : Nat, set : Nat]
      /\ credited'.added >= credited.added
      /\ credited'.added >= credited.added + preq[c].added
      /\ credited'.set >= credited.set /\ credited'.set >= preq[c].set
  BY <1>1 DEF SaveProgress, ClientType, Larger
<1>4. /\ bound <= credited'.set + credited'.added
      /\ preq[c].minutes <= credited'.set + credited'.added
  BY <1>1, <1>3 DEF ProgressInv, HeldIsReported, ClientType
<1>5. /\ preq' \in [Clients -> ClientType]
      /\ \A k \in Clients : \/ preq'[k] = IdleClient
                            \/ preq'[k] = [preq[k] EXCEPT !.current = FALSE]
  BY EndRequestKeeps DEF ProgressInv, SaveProgress
<1>6. progress' \in [ProgressIds -> ProgressRow]
  BY <1>1, <1>2 DEF ProgressInv, ProgressTypeOK, ProgressRow, ClientType
<1>7. ProgressTypeOK'
  BY <1>3, <1>5, <1>6 DEF SaveProgress, ProgressInv, ProgressTypeOK
<1>8. NoInventedMinutes'
  <2> SUFFICES ASSUME NEW k \in ProgressIds
               PROVE  progress'[k].minutes <= credited'.set + credited'.added
    BY DEF NoInventedMinutes
  <2>1. progress[k] \in ProgressRow /\ progress[k].minutes <= bound
    BY DEF ProgressInv, ProgressTypeOK, NoInventedMinutes
  <2>2. progress'[k].minutes = IF k = i THEN preq[c].minutes ELSE progress[k].minutes
    BY <1>2 DEF ProgressInv, ProgressTypeOK
  <2> QED
    BY <1>1, <1>3, <1>4, <2>1, <2>2 DEF ProgressRow
<1>9. HeldIsReported'
  <2> SUFFICES ASSUME NEW k \in Clients
               PROVE  \/ preq'[k].minutes <= credited'.set + credited'.added + preq'[k].added
                      \/ preq'[k].minutes <= preq'[k].set
    BY DEF HeldIsReported
  <2>1. preq[k] \in ClientType
    BY DEF ProgressInv, ProgressTypeOK
  <2>2. CASE preq'[k] = IdleClient
    BY <2>2 DEF IdleClient
  <2>3. CASE preq'[k] = [preq[k] EXCEPT !.current = FALSE]
    <3>1. /\ preq'[k].minutes = preq[k].minutes /\ preq'[k].added = preq[k].added
          /\ preq'[k].set = preq[k].set
      BY <2>1, <2>3 DEF ClientType
    <3> QED
      BY <1>1, <1>3, <1>4, <2>1, <3>1 DEF ProgressInv, HeldIsReported, ClientType
  <2> QED
    BY <1>5, <2>2, <2>3
<1> QED
  BY <1>7, <1>8, <1>9 DEF ProgressInv

LEMMA RemoveProgressInv ==
    ASSUME ProgressInv, NEW c \in Clients, RemoveProgress(c)
    PROVE  ProgressInv'
<1>1. /\ preq' \in [Clients -> ClientType]
      /\ \A k \in Clients : \/ preq'[k] = IdleClient
                            \/ preq'[k] = [preq[k] EXCEPT !.current = FALSE]
      /\ UNCHANGED <<credited, begun>>
  BY EndRequestKeeps DEF ProgressInv, RemoveProgress
<1>2. /\ progress' \in [ProgressIds -> ProgressRow]
      /\ \A i \in ProgressIds : progress'[i].minutes = progress[i].minutes
  <2>1. progress \in [ProgressIds -> ProgressRow]
    BY DEF ProgressInv, ProgressTypeOK
  <2>2. PICK i, v : /\ progress' = [progress EXCEPT ![i].st = v]
                    /\ v \in {"removed", "deleted"} \/ v = progress[i].st
    BY DEF RemoveProgress
  <2>3. ASSUME NEW k \in ProgressIds
        PROVE  progress'[k] \in ProgressRow /\ progress'[k].minutes = progress[k].minutes
    BY <2>1, <2>2 DEF ProgressRow
  <2> QED
    BY <2>1, <2>2, <2>3
<1>3. HeldIsReported'
  <2> SUFFICES ASSUME NEW k \in Clients
               PROVE  \/ preq'[k].minutes <= credited'.set + credited'.added + preq'[k].added
                      \/ preq'[k].minutes <= preq'[k].set
    BY DEF HeldIsReported
  <2>1. preq[k] \in ClientType
    BY DEF ProgressInv, ProgressTypeOK
  <2>2. \/ preq'[k] = IdleClient
        \/ /\ preq'[k].minutes = preq[k].minutes /\ preq'[k].added = preq[k].added
           /\ preq'[k].set = preq[k].set
    BY <1>1, <2>1 DEF ClientType
  <2> QED
    BY <1>1, <2>2 DEF ProgressInv, HeldIsReported, IdleClient
<1> QED
  BY <1>1, <1>2, <1>3 DEF ProgressInv, ProgressTypeOK, NoInventedMinutes

LEMMA ProgressInvHolds == ProgressSpec => []ProgressInv
<1>1. ProgressInit => ProgressInv
  BY ProgressAssumption
     DEF ProgressInit, ProgressInv, ProgressTypeOK, NoInventedMinutes, HeldIsReported,
         NoProgress, IdleClient, ProgressRow, ClientType, States, ProgressIds
<1>2. ProgressInv /\ [ProgressNext]_progressVars => ProgressInv'
  <2>1. ASSUME ProgressInv, UNCHANGED progressVars PROVE ProgressInv'
    BY <2>1 DEF progressVars, ProgressInv, ProgressTypeOK, NoInventedMinutes, HeldIsReported
  <2> QED
    BY <2>1, RequestInv, SaveProgressInv, RemoveProgressInv DEF ProgressNext
<1> QED
  BY <1>1, <1>2, PTL DEF ProgressSpec

\* Every reachable state of Progress has its type.
THEOREM ProgressTypeCorrect == ProgressSpec => []ProgressTypeOK
  BY ProgressInvHolds, PTL DEF ProgressInv

\* No interleaving of any number of clients credits minutes that nobody reported.
THEOREM MinutesAreReported == ProgressSpec => []NoInventedMinutes
  BY ProgressInvHolds, PTL DEF ProgressInv

\* What a request that is still current holds fits the row it has read: it saves
\* no fewer minutes than the row has and the request adds, and removes a row
\* without any.  A row that has never been used is empty.
InRow(client) == IF client.id = 0 THEN 0 ELSE progress[client.id].minutes

Fits(client) ==
    client.pc # "idle" /\ client.current =>
        /\ client.pc = "save" => InRow(client) + client.added <= client.minutes
        /\ client.pc = "remove" => InRow(client) = 0

CurrentFits ==
    /\ \A c \in Clients : Fits(preq[c])
    /\ \A i \in ProgressIds : progress[i].st = "none" => progress[i].minutes = 0

LEMMA RequestFits ==
    ASSUME ProgressInv, CurrentFits, NEW c \in Clients,
           \/ SetUnplayed(c)
           \/ \E state \in States : SetState(c, state)
           \/ \E state \in States \cup {NoState}, m \in -MaxMinutes .. MaxMinutes :
                 SetMinutes(c, state, m)
           \/ \E n \in -MaxMinutes .. MaxMinutes : Increment(c, n)
           \/ DeleteProgress(c)
    PROVE  /\ CurrentFits'
           /\ preq[c].pc = "idle" /\ \A k \in Clients \ {c} : preq'[k] = preq[k]
<1> DEFINE Good(p, client) == client.id = p.id /\
             \/ client.pc = "save" /\ p.minutes + client.added <= client.minutes
             \/ client.pc = "remove" /\ p.minutes = 0
             \/ client.pc = "softRemove"
<1>0. PICK p \in Read : \E client : Good(p, client) /\ BeginRequest(c, client)
  <2>1. \A p \in Read : p \in ClientType /\ p.minutes \in Int /\ p.added = 0
    BY ReadIsARow DEF ProgressInv, ClientType
  <2>2. CASE SetUnplayed(c)
    <3>1. PICK p \in Read : /\ Empties(p, "UNPLAYED")
                            /\ BeginRequest(c, [p EXCEPT !.pc = "remove", !.state = "UNPLAYED"])
      BY <2>2 DEF SetUnplayed
    <3>2. Good(p, [p EXCEPT !.pc = "remove", !.state = "UNPLAYED"])
      BY <2>1, <3>1 DEF Empties, ClientType
    <3> QED
      BY <3>1, <3>2
  <2>3. CASE \E state \in States : SetState(c, state)
    <3>1. PICK p \in Read, state \in States :
             BeginRequest(c, [p EXCEPT !.pc = "save", !.state = state])
      BY <2>3 DEF SetState
    <3>2. Good(p, [p EXCEPT !.pc = "save", !.state = state])
      BY <2>1 DEF ClientType
    <3> QED
      BY <3>1, <3>2
  <2>4. CASE \E state \in States \cup {NoState}, m \in -MaxMinutes .. MaxMinutes :
                 SetMinutes(c, state, m)
    <3>1. PICK p \in Read, state \in States \cup {NoState}, m \in -MaxMinutes .. MaxMinutes :
             p.minutes <= m /\ BeginRequest(c, Saving(p, state, m))
      BY <2>4 DEF SetMinutes
    <3>2. Good(p, Saving(p, state, m))
      BY <2>1, <3>1 DEF ClientType, Saving
    <3> QED
      BY <3>1, <3>2
  <2>5. CASE \E n \in -MaxMinutes .. MaxMinutes : Increment(c, n)
    <3>1. PICK p \in Read, n \in -MaxMinutes .. MaxMinutes :
             BeginRequest(c, [p EXCEPT !.pc = "save", !.minutes = @ + n, !.added = n,
                                       !.state = Played(@)])
      BY <2>5 DEF Increment
    <3>2. n \in Int /\ p.minutes \in Int /\ p \in ClientType
      BY <2>1, ProgressAssumption
    <3> DEFINE x == [p EXCEPT !.pc = "save", !.minutes = @ + n, !.added = n,
                              !.state = Played(@)]
    <3>3. x.pc = "save" /\ x.minutes = p.minutes + n /\ x.added = n /\ x.id = p.id
      BY <3>2 DEF ClientType
    <3>4. Good(p, x)
      BY <3>2, <3>3
    <3> QED
      BY <3>1, <3>4
  <2>6. CASE DeleteProgress(c)
    <3>1. PICK p \in Read : BeginRequest(c, [p EXCEPT !.pc = "softRemove"])
      BY <2>6 DEF DeleteProgress
    <3>2. Good(p, [p EXCEPT !.pc = "softRemove"])
      BY <2>1 DEF ClientType
    <3> QED
      BY <3>1, <3>2
  <2> QED
    BY <2>2, <2>3, <2>4, <2>5, <2>6
<1>1. PICK client : Good(p, client) /\ BeginRequest(c, client)
  BY <1>0
<1>2. /\ preq[c].pc = "idle"
      /\ preq' = [preq EXCEPT ![c] = client]
      /\ UNCHANGED progress
  BY <1>1 DEF BeginRequest
<1>3. \A k \in Clients \ {c} : preq'[k] = preq[k]
  BY <1>2 DEF ProgressInv, ProgressTypeOK
<1>4. preq'[c] = client
  BY <1>2 DEF ProgressInv, ProgressTypeOK
<1>5. p.minutes = InRow(p)
  BY ReadIsARow, ProgressAssumption DEF ProgressInv, ActiveProgress, ProgressIds, InRow
<1>6. Fits(client)
  BY <1>1, <1>5 DEF Fits, InRow
<1>7. \A k \in Clients : Fits(preq[k])'
  BY <1>2, <1>3, <1>4, <1>6 DEF CurrentFits, Fits, InRow
<1> QED
  BY <1>2, <1>3, <1>7 DEF CurrentFits

\* The end of request c, which others have to take for outdated.
LEMMA EndFits ==
    ASSUME ProgressInv, CurrentFits, NEW c \in Clients, SaveProgress(c) \/ RemoveProgress(c)
    PROVE  /\ CurrentFits'
           /\ \A k \in Clients \ {c} : preq[k].pc # "idle" => preq'[k].pc # "idle"
<1>1. /\ preq[c] \in ClientType
      /\ preq'[c] = IdleClient
      /\ \A k \in Clients \ {c} : \/ preq'[k] = IdleClient
                                  \/ preq'[k] = [preq[k] EXCEPT !.current = FALSE]
  BY EndRequestKeeps DEF ProgressInv, ProgressTypeOK, SaveProgress, RemoveProgress
<1>2. \A k \in Clients : preq[k] \in ClientType
  BY DEF ProgressInv, ProgressTypeOK
<1>3. \A k \in Clients : Fits(preq[k])'
  <2>1. \A k \in Clients : preq'[k].pc = "idle" \/ ~preq'[k].current
    <3> TAKE k \in Clients
    <3>1. CASE preq'[k] = IdleClient
      BY <3>1 DEF IdleClient
    <3>2. CASE preq'[k] = [preq[k] EXCEPT !.current = FALSE]
      BY <1>2, <3>2 DEF ClientType
    <3> QED
      BY <1>1, <3>1, <3>2
  <2> QED
    BY <2>1 DEF Fits
<1>4. \A i \in ProgressIds : progress'[i].st = "none" => progress'[i] = progress[i]
  BY DEF SaveProgress, RemoveProgress, ProgressInv, ProgressTypeOK, ProgressRow
<1>5. \A k \in Clients \ {c} : preq[k].pc # "idle" => preq'[k].pc # "idle"
  BY <1>2 DEF SaveProgress, RemoveProgress, EndRequest, ClientType
<1> QED
  BY <1>3, <1>4, <1>5 DEF CurrentFits

\* A current request ends without harm to any row.
LEMMA CurrentEndIsSafe ==
    ASSUME ProgressInv, CurrentFits, NEW c \in Clients, SaveProgress(c) \/ RemoveProgress(c),
           preq[c].current, NEW i \in ProgressIds
    PROVE  /\ progress'[i].st = "active"
                 => progress[i].minutes + Asked(c, i) <= progress'[i].minutes
           /\ progress'[i].st = "removed" /\ progress[i].st # "removed"
                 => progress[i].minutes = 0
<1>1. preq[c] \in ClientType /\ Fits(preq[c]) /\ progress[i] \in ProgressRow
  BY DEF ProgressInv, ProgressTypeOK, CurrentFits
<1>2. CASE SaveProgress(c)
  <2>1. PICK j \in ProgressIds :
           /\ IF preq[c].id # 0 THEN j = preq[c].id ELSE progress[j].st = "none"
           /\ progress' = [progress EXCEPT ![j] =
                 [st |-> "active", minutes |-> preq[c].minutes, state |-> preq[c].state]]
    BY <1>2 DEF SaveProgress
  <2>2. CASE i # j
    <3>1. progress'[i] = progress[i] /\ i # preq[c].id
      BY <1>1, <2>1, <2>2, ProgressAssumption DEF ProgressInv, ProgressTypeOK, ProgressIds
    <3>2. progress'[i].st = "active" => Asked(c, i) = 0
      BY <3>1 DEF Asked
    <3> QED
      BY <1>1, <3>1, <3>2 DEF ProgressRow
  <2>3. CASE i = j
    <3>1. progress'[i].st = "active" /\ progress'[i].minutes = preq[c].minutes
      BY <2>1, <2>3 DEF ProgressInv, ProgressTypeOK
    <3>2. progress[i].minutes + Asked(c, i) <= preq[c].minutes
      <4>1. CASE preq[c].id # 0
        BY <1>1, <1>2, <2>1, <2>3, <4>1 DEF Fits, InRow, SaveProgress, Asked
      <4>2. CASE preq[c].id = 0
        BY <1>1, <1>2, <2>1, <2>3, <4>2
           DEF CurrentFits, Fits, InRow, SaveProgress, ClientType, Asked
      <4> QED
        BY <4>1, <4>2
    <3> QED
      BY <3>1, <3>2
  <2> QED
    BY <2>2, <2>3
<1>3. CASE RemoveProgress(c)
  <2>1. CASE i # preq[c].id
    <3>1. progress'[i] = progress[i]
      BY <1>3, <2>1 DEF RemoveProgress, ProgressInv, ProgressTypeOK
    <3>2. progress'[i].st = "active" => Asked(c, i) = 0
      BY <2>1, <3>1 DEF Asked
    <3> QED
      BY <1>1, <3>1, <3>2 DEF ProgressRow
  <2>2. CASE i = preq[c].id
    <3>1. preq[c].id # 0
      BY <2>2, ProgressAssumption DEF ProgressIds
    <3>2. /\ progress'[i].st # "active"
          /\ \/ preq[c].pc = "remove"
             \/ progress'[i].st = IF progress[i].st = "removed" THEN "removed" ELSE "deleted"
      BY <1>1, <1>3, <2>2 DEF RemoveProgress, ProgressInv, ProgressTypeOK, ProgressRow
    <3>3. preq[c].pc = "remove" => progress[i].minutes = 0
      BY <1>1, <2>2, <3>1 DEF Fits, InRow
    <3> QED
      BY <3>2, <3>3
  <2> QED
    BY <2>1, <2>2
<1> QED
  BY <1>2, <1>3

LEMMA CurrentFitsStep ==
    ASSUME ProgressInv, CurrentFits, [ProgressNext]_progressVars
    PROVE  CurrentFits'
<1>1. CASE UNCHANGED progressVars
  BY <1>1 DEF progressVars, CurrentFits, Fits, InRow
<1> QED
  BY <1>1, RequestFits, EndFits DEF ProgressNext

\* Whatever requests interleave, one that read what is still current leaves no row
\* with fewer minutes than it had and was asked to gain, and removes only an empty
\* one: minutes are taken by negative increments and lost to overlaps only.
THEOREM CurrentRequestsDoNoHarm == ProgressSpec => CurrentRequestsAreSafe
<1> DEFINE Safe(c, i) ==
        preq[c].pc # "idle" /\ preq'[c].pc = "idle" /\ preq[c].current =>
          /\ progress'[i].st = "active"
                => progress[i].minutes + Asked(c, i) <= progress'[i].minutes
          /\ progress'[i].st = "removed" /\ progress[i].st # "removed"
                => progress[i].minutes = 0
<1>1. ProgressInit => CurrentFits
  BY DEF ProgressInit, CurrentFits, Fits, InRow, IdleClient, NoProgress
<1>2. ProgressInv /\ CurrentFits /\ [ProgressNext]_progressVars
        => [\A c \in Clients, i \in ProgressIds : Safe(c, i)]_progressVars
  <2> SUFFICES ASSUME ProgressInv, CurrentFits, ProgressNext,
                      NEW c \in Clients, NEW i \in ProgressIds,
                      preq[c].pc # "idle", preq'[c].pc = "idle", preq[c].current
               PROVE  Safe(c, i)
    BY DEF progressVars
  <2>1. PICK k \in Clients :
          \/ SetUnplayed(k)
          \/ \E state \in States : SetState(k, state)
          \/ \E state \in States \cup {NoState}, m \in -MaxMinutes .. MaxMinutes :
                SetMinutes(k, state, m)
          \/ \E n \in -MaxMinutes .. MaxMinutes : Increment(k, n)
          \/ DeleteProgress(k)
          \/ SaveProgress(k) \/ RemoveProgress(k)
    BY DEF ProgressNext
  <2>2. k = c /\ (SaveProgress(c) \/ RemoveProgress(c))
    BY <2>1, RequestFits, EndFits
  <2> QED
    BY <2>2, CurrentEndIsSafe
<1>3. ProgressInv /\ CurrentFits /\ [ProgressNext]_progressVars => CurrentFits'
  BY CurrentFitsStep
<1> QED
  BY <1>1, <1>2, <1>3, ProgressInvHolds, PTL DEF ProgressSpec, CurrentRequestsAreSafe

(***************************************************************************)
(* Cloud saves.                                                            *)
(***************************************************************************)

\* Uploads that have put their save in the directory and not cleaned up.
Cleaning == {u \in Uploads : sreq[u].pc \in {"counting", "trimming", "removing"}}

\* Somebody will leave no more than MaxSaves saves: u counts again, or drops
\* the excess, or what it removes is enough.
WillBound(u) ==
    \/ sreq[u].pc = "counting"
    \/ sreq[u].pc = "trimming" /\ Cardinality(saves) <= MaxSaves + sreq[u].excess
    \/ sreq[u].pc = "removing" /\ Cardinality(saves \ sreq[u].doomed) <= MaxSaves

BoundedSoon ==
    \/ Cardinality(saves) <= MaxSaves
    \/ \E u \in Uploads : WillBound(u)
    \/ cutOff /\ Cleaning = {}

SavesTyped == SavefilesTypeOK /\ IsFiniteSet(saves)

SavesInv == SavesTyped /\ (MaxSaves > 0 => BoundedSoon)

LEMMA SavesTypedInit ==
    ASSUME SavefilesInit
    PROVE  SavesTyped
<1> DEFINE at0(u) == [at |-> 0, by |-> InstallationOf[u]]
           F == [u \in Uploads |-> at0(u)]
           T == {[at |-> 0, by |-> i] : i \in Installations}
<1>1. F \in Surjection(Uploads, T)
  <2>1. \A u \in Uploads : F[u] \in T
    BY DEF Installations
  <2>2. \A t \in T : \E u \in Uploads : F[u] = t
    BY DEF Installations
  <2> HIDE DEF T
  <2> QED
    BY <2>1, <2>2 DEF Surjection
<1>2. IsFiniteSet(T)
  BY <1>1, FS_Surjection, SavefilesAssumption
<1>3. T \subseteq Save
  BY SavefilesAssumption DEF Save
<1>4. saves \subseteq T
  BY DEF SavefilesInit
<1>5. IsFiniteSet(saves)
  BY <1>2, <1>4, FS_Subset
<1>6. NewSaveRequest \in SaveRequest
  BY DEF NewSaveRequest, SaveRequest
<1>7. sreq \in [SaveRequests -> SaveRequest]
  BY <1>6 DEF SavefilesInit
<1> HIDE DEF T
<1>8. clock \in 0 .. MaxClock /\ cutOff \in BOOLEAN /\ saveCrashes \in 0 .. MaxSaveCrashes
  <2>1. clock = 0 /\ cutOff = FALSE /\ saveCrashes = 0
    BY DEF SavefilesInit
  <2>2. 0 \in 0 .. MaxClock /\ 0 \in 0 .. MaxSaveCrashes
    BY SavefilesAssumption
  <2> QED
    BY <2>1, <2>2
<1>9. saves \subseteq Save
  BY <1>3, <1>4
<1> QED
  BY <1>5, <1>7, <1>8, <1>9 DEF SavesTyped, SavefilesTypeOK

\* What LastOf takes of a finite set is a part of it, and k elements or all.
LEMMA LastOfTakes ==
    ASSUME NEW S, IsFiniteSet(S), NEW k \in Nat, NEW D \in LastOf(S, k)
    PROVE  /\ D \subseteq S
           /\ Cardinality(S) <= k => D = S
           /\ Cardinality(S) > k => Cardinality(S \ D) = Cardinality(S) - k
<1>1. Cardinality(S) \in Nat
  BY FS_CardinalityType
<1>2. CASE k >= Cardinality(S)
  BY <1>1, <1>2 DEF LastOf
<1>3. CASE ~(k >= Cardinality(S))
  <2>1. D \subseteq S /\ Cardinality(D) = k
    BY <1>3 DEF LastOf
  <2>2. S \cap D = D
    BY <2>1
  <2>3. Cardinality(S \ D) = Cardinality(S) - k
    BY <2>1, <2>2, FS_Difference, ZenonT(30)
  <2> QED
    BY <1>1, <1>3, <2>1, <2>3
<1> QED
  BY <1>2, <1>3

\* A step of request r leaves the others alone.
LEMMA OneRequest ==
    ASSUME SavesTyped, NEW r \in SaveRequests, NEW q \in SaveRequest,
           sreq' = [sreq EXCEPT ![r] = q]
    PROVE  /\ sreq' \in [SaveRequests -> SaveRequest]
           /\ sreq'[r] = q
           /\ \A k \in SaveRequests \ {r} : sreq'[k] = sreq[k]
BY DEF SavesTyped, SavefilesTypeOK

\* What the stages of an upload do to the types.
LEMMA UploadTyped ==
    ASSUME SavesTyped, NEW u \in Uploads,
           StampUpload(u) \/ MoveUpload(u) \/ CountSaves(u) \/ TrimSaves(u)
    PROVE  /\ SavesTyped'
           /\ \A k \in SaveRequests \ {u} : sreq'[k] = sreq[k]
<1>1. u \in SaveRequests /\ sreq[u] \in SaveRequest
  BY DEF SaveRequests, SavesTyped, SavefilesTypeOK
<1>2. EndedSaveRequest \in SaveRequest
  BY DEF EndedSaveRequest, NewSaveRequest, SaveRequest
<1>3. CASE StampUpload(u)
  <2> DEFINE s == [at |-> clock, by |-> InstallationOf[u]]
             moving == [sreq[u] EXCEPT !.pc = "moving", !.save = {s}]
  <2>1. s \in Save
    BY SavefilesAssumption DEF Save, Installations, SavesTyped, SavefilesTypeOK
  <2>2. moving \in SaveRequest
    BY <1>1, <2>1 DEF SaveRequest
  <2>3. PICK q \in SaveRequest : sreq' = [sreq EXCEPT ![u] = q]
    <3>1. \/ sreq' = [sreq EXCEPT ![u].pc = "moving", ![u].save = {s}]
          \/ sreq' = [sreq EXCEPT ![u] = EndedSaveRequest]
      BY <1>3 DEF StampUpload
    <3>2. [sreq EXCEPT ![u].pc = "moving", ![u].save = {s}] = [sreq EXCEPT ![u] = moving]
      BY <1>1 DEF SavesTyped, SavefilesTypeOK
    <3> QED
      BY <1>2, <2>2, <3>1, <3>2
  <2> QED
    BY <1>1, <1>3, <2>3, OneRequest DEF StampUpload, crashVars, SavesTyped, SavefilesTypeOK
<1>4. CASE MoveUpload(u)
  <2> DEFINE counting == [sreq[u] EXCEPT !.pc = "counting", !.save = {}]
  <2>1. counting \in SaveRequest
    BY <1>1 DEF SaveRequest
  <2>2. PICK q \in SaveRequest : sreq' = [sreq EXCEPT ![u] = q]
    <3>1. [sreq EXCEPT ![u].pc = "counting", ![u].save = {}] = [sreq EXCEPT ![u] = counting]
      BY <1>1 DEF SavesTyped, SavefilesTypeOK
    <3> QED
      BY <1>2, <1>4, <2>1, <3>1 DEF MoveUpload
  <2>3. saves' \subseteq Save /\ IsFiniteSet(saves')
    <3>1. sreq[u].save = {} \/ \E s \in Save : sreq[u].save = {s}
      BY <1>1 DEF SaveRequest
    <3>2. IsFiniteSet(sreq[u].save) /\ sreq[u].save \subseteq Save
      BY <3>1, FS_EmptySet, FS_Singleton
    <3>3. saves' = saves \cup sreq[u].save
      BY <1>4 DEF MoveUpload
    <3> QED
      BY <3>2, <3>3, FS_Union DEF SavesTyped, SavefilesTypeOK
  <2> QED
    BY <1>1, <1>4, <2>2, <2>3, OneRequest DEF MoveUpload, crashVars, SavesTyped, SavefilesTypeOK
<1>5. CASE CountSaves(u)
  <2> DEFINE excess == Cardinality(saves) - MaxSaves
             trimming == [sreq[u] EXCEPT !.pc = "trimming", !.excess = excess]
  <2>1. excess \in Int
    BY FS_CardinalityType, SavefilesAssumption DEF SavesTyped
  <2> HIDE DEF excess
  <2>2. ~(excess <= 0) => trimming \in SaveRequest
    <3>1. excess \in Nat => trimming \in SaveRequest
      BY <1>1 DEF SaveRequest
    <3> QED
      BY <2>1, <3>1
  <2>3. PICK q \in SaveRequest : sreq' = [sreq EXCEPT ![u] = q]
    <3>1. [sreq EXCEPT ![u].pc = "trimming", ![u].excess = excess] = [sreq EXCEPT ![u] = trimming]
      BY <1>1 DEF SavesTyped, SavefilesTypeOK
    <3>2. sreq' = IF excess <= 0 THEN [sreq EXCEPT ![u] = EndedSaveRequest]
                  ELSE [sreq EXCEPT ![u].pc = "trimming", ![u].excess = excess]
      BY <1>5 DEF CountSaves, excess
    <3> QED
      BY <1>2, <2>2, <3>1, <3>2
  <2> QED
    BY <1>1, <1>5, <2>3, OneRequest DEF CountSaves, CleanedUp, SavesTyped, SavefilesTypeOK
<1>6. CASE TrimSaves(u)
  <2>1. PICK doomed \in LastOf(saves, sreq[u].excess) :
          sreq' = [sreq EXCEPT ![u] =
             IF doomed = {} THEN EndedSaveRequest
             ELSE [@ EXCEPT !.pc = "removing", !.excess = 0, !.doomed = doomed]]
    BY <1>6 DEF TrimSaves
  <2>2. sreq[u].excess \in Nat
    BY <1>1 DEF SaveRequest
  <2>3. doomed \subseteq Save
    BY <2>2, LastOfTakes DEF SavesTyped, SavefilesTypeOK
  <2>4. [sreq[u] EXCEPT !.pc = "removing", !.excess = 0, !.doomed = doomed] \in SaveRequest
    BY <1>1, <2>3 DEF SaveRequest
  <2>5. PICK q \in SaveRequest : sreq' = [sreq EXCEPT ![u] = q]
    BY <1>2, <2>1, <2>4
  <2> QED
    BY <1>1, <1>6, <2>5, OneRequest DEF TrimSaves, CleanedUp, SavesTyped, SavefilesTypeOK
<1> QED
  BY <1>3, <1>4, <1>5, <1>6

\* A removal ends the request when nothing is left to remove.
LEMMA RemoveSaveDoes ==
    ASSUME SavesTyped, NEW r \in SaveRequests, RemoveSave(r)
    PROVE  /\ SavesTyped'
           /\ \A k \in SaveRequests \ {r} : sreq'[k] = sreq[k]
           /\ sreq[r].pc = "removing"
           /\ saves' \subseteq saves
           /\ \/ sreq'[r] = EndedSaveRequest /\ saves' = saves \ sreq[r].doomed
              \/ sreq'[r].pc = "removing" /\ saves' \ sreq'[r].doomed = saves \ sreq[r].doomed
<1>1. sreq[r] \in SaveRequest
  BY DEF SavesTyped, SavefilesTypeOK
<1>2. PICK s \in sreq[r].doomed :
          /\ saves' = saves \ {s}
          /\ sreq' = [sreq EXCEPT ![r] = IF sreq[r].doomed = {s} THEN EndedSaveRequest
                                        ELSE [sreq[r] EXCEPT !.doomed = @ \ {s}]]
  BY DEF RemoveSave
<1>3. IsFiniteSet(saves') /\ saves' \subseteq saves
  BY <1>2, FS_Subset DEF SavesTyped
<1>4. sreq[r].pc = "removing"
  BY DEF RemoveSave
<1>5. CASE sreq[r].doomed = {s}
  <2>1. EndedSaveRequest \in SaveRequest
    BY DEF EndedSaveRequest, NewSaveRequest, SaveRequest
  <2>2. sreq' = [sreq EXCEPT ![r] = EndedSaveRequest]
    BY <1>2, <1>5
  <2>3. saves' = saves \ sreq[r].doomed
    BY <1>2, <1>5
  <2> QED
    BY <1>3, <1>4, <2>1, <2>2, <2>3, OneRequest
    DEF RemoveSave, CleanedUp, SavesTyped, SavefilesTypeOK
<1>6. CASE sreq[r].doomed # {s}
  <2> DEFINE q == [sreq[r] EXCEPT !.doomed = @ \ {s}]
  <2>1. q \in SaveRequest /\ q.pc = "removing" /\ q.doomed = sreq[r].doomed \ {s}
    BY <1>1, <1>4 DEF SaveRequest
  <2>2. sreq' = [sreq EXCEPT ![r] = q]
    BY <1>2, <1>6
  <2> HIDE DEF q
  <2>3. saves' \ q.doomed = saves \ sreq[r].doomed
    BY <1>2, <2>1
  <2> QED
    BY <1>3, <1>4, <2>1, <2>2, <2>3, OneRequest
    DEF RemoveSave, CleanedUp, SavesTyped, SavefilesTypeOK
<1> QED
  BY <1>5, <1>6

LEMMA SavesTypedStep ==
    ASSUME SavesTyped, [SavefilesNext]_saveVars
    PROVE  SavesTyped'
<1>1. CASE UNCHANGED saveVars
  BY <1>1 DEF saveVars, SavesTyped, SavefilesTypeOK
<1>2. CASE SaveTick
  BY <1>2, SavefilesAssumption DEF SaveTick, crashVars, SavesTyped, SavefilesTypeOK
<1>3. CASE SaveCrash
  <2>1. EndedSaveRequest \in SaveRequest
    BY DEF EndedSaveRequest, NewSaveRequest, SaveRequest
  <2>2. sreq' \in [SaveRequests -> SaveRequest]
    BY <1>3, <2>1 DEF SaveCrash, SavesTyped, SavefilesTypeOK
  <2>3. saveCrashes' \in 0 .. MaxSaveCrashes
    BY <1>3, SavefilesAssumption DEF SaveCrash, SavesTyped, SavefilesTypeOK
  <2>4. cutOff' \in BOOLEAN /\ UNCHANGED <<saves, clock>>
    BY <1>3 DEF SaveCrash
  <2> QED
    BY <2>2, <2>3, <2>4 DEF SavesTyped, SavefilesTypeOK
<1>4. ASSUME NEW r \in Deletions, ListForDeletion(r)
      PROVE  SavesTyped'
  <2>1. r \in SaveRequests /\ sreq[r] \in SaveRequest
    BY DEF SaveRequests, SavesTyped, SavefilesTypeOK
  <2>2. EndedSaveRequest \in SaveRequest
    BY DEF EndedSaveRequest, NewSaveRequest, SaveRequest
  <2>3. [sreq[r] EXCEPT !.pc = "removing", !.doomed = saves] \in SaveRequest
    BY <2>1 DEF SaveRequest, SavesTyped, SavefilesTypeOK
  <2>4. PICK q \in SaveRequest : sreq' = [sreq EXCEPT ![r] = q]
    BY <1>4, <2>2, <2>3 DEF ListForDeletion
  <2> QED
    BY <1>4, <2>1, <2>4, OneRequest DEF ListForDeletion, crashVars, SavesTyped, SavefilesTypeOK
<1>5. CASE \E u \in Uploads : StampUpload(u) \/ MoveUpload(u) \/ CountSaves(u) \/ TrimSaves(u)
  BY <1>5, UploadTyped
<1>6. CASE \E r \in SaveRequests : RemoveSave(r)
  BY <1>6, RemoveSaveDoes
<1> QED
  BY <1>1, <1>2, <1>3, <1>4, <1>5, <1>6 DEF SavefilesNext

\* Saves only get fewer and u keeps its stage and its list: what u will leave
\* stays within the maximum.
LEMMA WillBoundKept ==
    ASSUME SavesTyped, NEW u \in Uploads, WillBound(u), sreq'[u] = sreq[u],
           saves' \subseteq saves
    PROVE  WillBound(u)'
<1>1. /\ IsFiniteSet(saves) /\ IsFiniteSet(saves')
      /\ Cardinality(saves) \in Nat /\ Cardinality(saves') \in Nat
      /\ Cardinality(saves') <= Cardinality(saves)
  BY FS_Subset, FS_CardinalityType DEF SavesTyped
<1>2. sreq[u].excess \in Nat
  BY DEF SaveRequests, SavesTyped, SavefilesTypeOK, SaveRequest
<1>3. /\ Cardinality(saves \ sreq[u].doomed) \in Nat
      /\ Cardinality(saves' \ sreq[u].doomed) \in Nat
      /\ Cardinality(saves' \ sreq[u].doomed) <= Cardinality(saves \ sreq[u].doomed)
  <2> DEFINE A == saves \ sreq[u].doomed
             B == saves' \ sreq[u].doomed
  <2>1. IsFiniteSet(A) /\ B \subseteq A
    BY <1>1, FS_Difference
  <2> HIDE DEF A, B
  <2>2. IsFiniteSet(B) /\ Cardinality(B) <= Cardinality(A)
    BY <2>1, FS_Subset
  <2>3. Cardinality(A) \in Nat /\ Cardinality(B) \in Nat
    BY <2>1, <2>2, FS_CardinalityType
  <2> QED
    BY <2>2, <2>3 DEF A, B
<1>4. CASE sreq[u].pc = "counting"
  BY <1>4 DEF WillBound
<1>5. CASE sreq[u].pc = "trimming"
  <2>1. Cardinality(saves) <= MaxSaves + sreq[u].excess
    BY <1>5 DEF WillBound
  <2>2. Cardinality(saves') <= MaxSaves + sreq[u].excess
    BY <1>1, <1>2, <2>1, SavefilesAssumption
  <2> QED
    BY <1>5, <2>2 DEF WillBound
<1>6. CASE sreq[u].pc = "removing"
  <2>1. Cardinality(saves \ sreq[u].doomed) <= MaxSaves
    BY <1>6 DEF WillBound
  <2>2. Cardinality(saves' \ sreq[u].doomed) <= MaxSaves
    BY <1>3, <2>1, SavefilesAssumption
  <2> QED
    BY <1>6, <2>2 DEF WillBound
<1> QED
  BY <1>4, <1>5, <1>6 DEF WillBound

\* The stages of an upload leave somebody who cleans up.
LEMMA UploadBounded ==
    ASSUME SavesTyped, BoundedSoon, MaxSaves > 0, NEW u \in Uploads,
           StampUpload(u) \/ MoveUpload(u) \/ CountSaves(u) \/ TrimSaves(u)
    PROVE  BoundedSoon'
<1>1. u \in SaveRequests /\ sreq[u] \in SaveRequest /\ MaxSaves \in Nat
  BY SavefilesAssumption DEF SaveRequests, SavesTyped, SavefilesTypeOK
<1>2. Uploads \subseteq SaveRequests /\ \A k \in SaveRequests \ {u} : sreq'[k] = sreq[k]
  BY UploadTyped DEF SaveRequests
<1>3. \A w \in Uploads \ {u} : WillBound(w) /\ saves' = saves => WillBound(w)'
  BY <1>2, WillBoundKept
<1>4. Cardinality(saves) \in Nat
  BY FS_CardinalityType DEF SavesTyped
<1>5. CASE StampUpload(u)
  <2>1. sreq[u].pc = "new" /\ saves' = saves /\ cutOff' = cutOff
    BY <1>5 DEF StampUpload, crashVars
  <2>2. sreq'[u].pc \in {"moving", "ended"}
    BY <1>1, <1>5 DEF StampUpload, EndedSaveRequest, NewSaveRequest, SaveRequest,
                      SavesTyped, SavefilesTypeOK
  <2>3. ~WillBound(u)
    BY <2>1 DEF WillBound
  <2>4. Cleaning = {} => Cleaning' = {}
    BY <1>2, <2>2 DEF Cleaning
  <2> QED
    BY <1>3, <2>1, <2>3, <2>4 DEF BoundedSoon
<1>6. CASE MoveUpload(u)
  <2>1. sreq'[u].pc = "counting"
    BY <1>1, <1>6 DEF MoveUpload, SaveRequest, SavesTyped, SavefilesTypeOK
  <2> QED
    BY <2>1 DEF BoundedSoon, WillBound
<1>7. CASE CountSaves(u)
  <2> DEFINE excess == Cardinality(saves) - MaxSaves
  <2>1. saves' = saves
    BY <1>7 DEF CountSaves
  <2>2. CASE excess <= 0
    BY <1>1, <1>4, <2>1, <2>2 DEF BoundedSoon
  <2>3. CASE ~(excess <= 0)
    <3>1. sreq' = [sreq EXCEPT ![u].pc = "trimming", ![u].excess = excess]
      BY <1>7, <2>3 DEF CountSaves
    <3>2. sreq'[u].pc = "trimming" /\ sreq'[u].excess = excess
      BY <1>1, <3>1 DEF SaveRequest, SavesTyped, SavefilesTypeOK
    <3>3. Cardinality(saves) <= MaxSaves + excess
      BY <1>1, <1>4
    <3>4. WillBound(u)'
      BY <2>1, <3>2, <3>3 DEF WillBound
    <3> QED
      BY <3>4 DEF BoundedSoon
  <2> QED
    BY <2>2, <2>3
<1>8. CASE TrimSaves(u)
  <2>1. PICK doomed \in LastOf(saves, sreq[u].excess) :
          sreq' = [sreq EXCEPT ![u] =
             IF doomed = {} THEN EndedSaveRequest
             ELSE [@ EXCEPT !.pc = "removing", !.excess = 0, !.doomed = doomed]]
    BY <1>8 DEF TrimSaves
  <2>2. sreq[u].pc = "trimming" /\ saves' = saves
    BY <1>8 DEF TrimSaves
  <2>3. CASE WillBound(u)
    <3>1. Cardinality(saves) <= MaxSaves + sreq[u].excess /\ sreq[u].excess \in Nat
      BY <1>1, <2>2, <2>3 DEF WillBound, SaveRequest
    <3>2. Cardinality(saves \ doomed) <= MaxSaves
      <4>1. CASE Cardinality(saves) <= sreq[u].excess
        <5>1. saves \ doomed = {}
          BY <3>1, <4>1, LastOfTakes, ZenonT(30) DEF SavesTyped
        <5> QED
          BY <1>1, <5>1, FS_EmptySet
      <4>2. CASE ~(Cardinality(saves) <= sreq[u].excess)
        <5>1. Cardinality(saves \ doomed) = Cardinality(saves) - sreq[u].excess
          BY <1>4, <3>1, <4>2, LastOfTakes DEF SavesTyped
        <5> QED
          BY <1>1, <1>4, <3>1, <5>1
      <4> QED
        BY <4>1, <4>2
    <3>3. CASE doomed = {}
      <4>1. saves \ doomed = saves
        BY <3>3
      <4> QED
        BY <2>2, <3>2, <4>1 DEF BoundedSoon
    <3>4. CASE doomed # {}
      <4>1. sreq'[u].pc = "removing" /\ sreq'[u].doomed = doomed
        BY <1>1, <2>1, <3>4 DEF SaveRequest, SavesTyped, SavefilesTypeOK
      <4>2. WillBound(u)'
        BY <2>2, <3>2, <4>1 DEF WillBound
      <4> QED
        BY <4>2 DEF BoundedSoon
    <3> QED
      BY <3>3, <3>4
  <2>4. u \in Cleaning
    BY <2>2 DEF Cleaning
  <2> QED
    BY <1>3, <2>2, <2>3, <2>4 DEF BoundedSoon
<1> QED
  BY <1>5, <1>6, <1>7, <1>8

LEMMA RemoveSaveBounded ==
    ASSUME SavesTyped, BoundedSoon, MaxSaves > 0, NEW r \in SaveRequests, RemoveSave(r)
    PROVE  BoundedSoon'
<1>1. Uploads \subseteq SaveRequests /\ MaxSaves \in Nat
  BY SavefilesAssumption DEF SaveRequests
<1>2. CASE Cardinality(saves) <= MaxSaves
  <2>1. /\ Cardinality(saves) \in Nat /\ Cardinality(saves') \in Nat
        /\ Cardinality(saves') <= Cardinality(saves)
    BY RemoveSaveDoes, FS_Subset, FS_CardinalityType DEF SavesTyped
  <2> QED
    BY <1>1, <1>2, <2>1 DEF BoundedSoon
<1>3. ASSUME NEW w \in Uploads, WillBound(w)
      PROVE  BoundedSoon'
  <2>1. CASE w # r
    <3>1. sreq'[w] = sreq[w] /\ saves' \subseteq saves
      BY <1>1, <2>1, RemoveSaveDoes
    <3>2. WillBound(w)'
      BY <1>3, <3>1, WillBoundKept
    <3> QED
      BY <3>2 DEF BoundedSoon
  <2>2. CASE w = r
    <3>1. sreq[r].pc = "removing" /\ Cardinality(saves \ sreq[r].doomed) <= MaxSaves
      BY <1>3, <2>2, RemoveSaveDoes DEF WillBound
    <3>2. CASE saves' = saves \ sreq[r].doomed
      BY <3>1, <3>2 DEF BoundedSoon
    <3>3. CASE sreq'[r].pc = "removing" /\ saves' \ sreq'[r].doomed = saves \ sreq[r].doomed
      <4>1. WillBound(w)'
        BY <2>2, <3>1, <3>3 DEF WillBound
      <4> QED
        BY <4>1 DEF BoundedSoon
    <3> QED
      BY <3>2, <3>3, RemoveSaveDoes
  <2> QED
    BY <2>1, <2>2
<1>4. CASE cutOff /\ Cleaning = {}
  <2>1. r \notin Uploads
    BY <1>4, RemoveSaveDoes DEF Cleaning
  <2>2. cutOff'
    BY <1>4, <2>1 DEF RemoveSave, CleanedUp
  <2>3. Cleaning' = {}
    BY <1>1, <1>4, <2>1, RemoveSaveDoes DEF Cleaning
  <2> QED
    BY <2>2, <2>3 DEF BoundedSoon
<1> QED
  BY <1>2, <1>3, <1>4 DEF BoundedSoon

LEMMA BoundedSoonStep ==
    ASSUME SavesTyped, BoundedSoon, MaxSaves > 0, [SavefilesNext]_saveVars
    PROVE  BoundedSoon'
<1>1. CASE UNCHANGED saveVars
  BY <1>1 DEF saveVars, BoundedSoon, WillBound, Cleaning
<1>2. CASE SaveTick
  BY <1>2 DEF SaveTick, crashVars, BoundedSoon, WillBound, Cleaning
<1>3. CASE SaveCrash
  <2>1. Cleaning' = {}
    BY <1>3 DEF SaveCrash, Cleaning, SaveRequests, EndedSaveRequest, NewSaveRequest
  <2>2. \A w \in Uploads : WillBound(w) => w \in Cleaning
    BY DEF WillBound, Cleaning
  <2>3. Cleaning # {} => cutOff'
    BY <1>3 DEF SaveCrash, Cleaning
  <2>4. (cutOff => cutOff') /\ saves' = saves
    BY <1>3 DEF SaveCrash
  <2> QED
    BY <2>1, <2>2, <2>3, <2>4 DEF BoundedSoon
<1>4. ASSUME NEW r \in Deletions, ListForDeletion(r)
      PROVE  BoundedSoon'
  <2>1. saves' = saves /\ cutOff' = cutOff
    BY <1>4 DEF ListForDeletion, crashVars
  <2>2. \A w \in Uploads : sreq'[w] = sreq[w]
    BY <1>4, SavefilesAssumption
    DEF ListForDeletion, SaveRequests, SavesTyped, SavefilesTypeOK
  <2>3. \A w \in Uploads : WillBound(w) => WillBound(w)'
    BY <2>1, <2>2, WillBoundKept
  <2>4. Cleaning' = Cleaning
    BY <2>2 DEF Cleaning
  <2> QED
    BY <2>1, <2>3, <2>4 DEF BoundedSoon
<1>5. CASE \E u \in Uploads : StampUpload(u) \/ MoveUpload(u) \/ CountSaves(u) \/ TrimSaves(u)
  BY <1>5, UploadBounded
<1>6. CASE \E r \in SaveRequests : RemoveSave(r)
  BY <1>6, RemoveSaveBounded
<1> QED
  BY <1>1, <1>2, <1>3, <1>4, <1>5, <1>6 DEF SavefilesNext

LEMMA SavesInvHolds == SavefilesSpec => []SavesInv
<1>1. SavefilesInit => SavesInv
  BY SavesTypedInit DEF SavefilesInit, SavesInv, BoundedSoon
<1>2. SavesInv /\ [SavefilesNext]_saveVars => SavesInv'
  BY SavesTypedStep, BoundedSoonStep DEF SavesInv
<1> QED
  BY <1>1, <1>2, PTL DEF SavefilesSpec

\* The types of the cloud saves hold.
THEOREM SavefilesTypeCorrect == SavefilesSpec => []SavefilesTypeOK
<1>1. SavesInv => SavefilesTypeOK
  BY DEF SavesInv, SavesTyped
<1> QED
  BY <1>1, SavesInvHolds, PTL

\* Any number of uploads that interleave, with the deletions of a user and with
\* crashes, leave no more saves than the maximum once they have ended.
THEOREM UploadsLeaveTheMaximum == SavefilesSpec => []SavesBounded
<1>1. SavesInv => SavesBounded
  <2> SUFFICES ASSUME SavesInv, MaxSaves > 0, ~cutOff,
                      \A r \in SaveRequests : sreq[r].pc \in {"new", "ended"}
               PROVE  Cardinality(saves) <= MaxSaves
    BY DEF SavesBounded
  <2>1. \A w \in Uploads : ~WillBound(w)
    BY DEF WillBound, SaveRequests
  <2> QED
    BY <2>1 DEF SavesInv, BoundedSoon
<1> QED
  BY <1>1, SavesInvHolds, PTL

(***************************************************************************)
(* The cache of the web UI.                                                *)
(***************************************************************************)

\* While preparers come one at a time: the version file names a build that is
\* there, or is gone when the files change; the archive is that of the preparer.
CacheInOrder(a) ==
    /\ preparing[a] \in {"sweeping", "clearing", "extracting", "tidying", "marking"}
          => marker = NoBuild
    /\ preparing[a] = "downloading" => zip = Torn
    /\ preparing[a] \in {"emptying", "clearing", "extracting"} => zip = chosen[a]
    /\ preparing[a] \in {"tidying", "marking"} => Whole(chosen[a])

OnePreparer == \A a, b \in Preparers : Preparing(a) /\ Preparing(b) => a = b

CacheSound ==
    /\ OnePreparer
    /\ marker # NoBuild => Whole(marker)
    /\ \A a \in Preparers : CacheInOrder(a)

UIInv ==
    /\ WebUITypeOK
    /\ preparing[Boot] \notin {"idle", "wiping", "sweeping"}
    /\ ~uiOverlap => CacheSound

\* A preparer that goes on is the only one at work, or the others are noticed.
LEMMA UIGotoAlone ==
    ASSUME WebUITypeOK, NEW a \in Preparers, NEW stage \in UIStages, UIGoto(a, stage)
    PROVE  /\ preparing' \in [Preparers -> UIStages]
           /\ preparing'[a] = stage
           /\ \A b \in Preparers \ {a} : preparing'[b] = preparing[b]
           /\ uiOverlap' \in BOOLEAN
           /\ ~uiOverlap' => ~uiOverlap /\ OnePreparer'
<1>1. /\ preparing' = [preparing EXCEPT ![a] = stage]
      /\ uiOverlap' = (uiOverlap \/ \E b, c \in Preparers :
                          b # c /\ Preparing(b)' /\ Preparing(c)')
  BY DEF UIGoto
<1>2. ~uiOverlap' => OnePreparer'
  BY <1>1 DEF OnePreparer
<1> QED
  BY <1>1, <1>2 DEF WebUITypeOK

\* The files and the version a step of a leaves, and its new stage.
StepTyped(a) ==
    /\ zip \in Builds \cup {NoBuild, Torn}
    /\ dist \in [Parts -> Builds \cup {NoBuild}]
    /\ marker \in Builds \cup {NoBuild} /\ newest \in Builds \cup {NoBuild}
    /\ chosen \in [Preparers -> Builds \cup {NoBuild}]
    /\ preparing[a] \notin {"idle", "wiping", "sweeping", "resolving", "ended"}
          => chosen[a] # NoBuild
    /\ uiCrashes \in 0 .. MaxUICrashes
    /\ a = Boot => preparing[a] \notin {"idle", "wiping", "sweeping"}

\* A step of a keeps the invariant if it leaves the cache in the order that the
\* stage of a needs: everybody else is idle or has ended.
LEMMA PreparerStep ==
    ASSUME UIInv, NEW a \in Preparers, Preparing(a) \/ Preparing(a)',
           \/ \E stage \in UIStages : UIGoto(a, stage)
           \/ UNCHANGED <<preparing, uiOverlap>>,
           StepTyped(a)', \A b \in Preparers \ {a} : chosen'[b] = chosen[b],
           ~uiOverlap => (marker' # NoBuild => Whole(marker)') /\ CacheInOrder(a)'
    PROVE  UIInv'
<1>1. /\ preparing' \in [Preparers -> UIStages]
      /\ \A b \in Preparers \ {a} : preparing'[b] = preparing[b]
      /\ uiOverlap' \in BOOLEAN
      /\ ~uiOverlap' => ~uiOverlap /\ OnePreparer'
  <2>1. CASE \E stage \in UIStages : UIGoto(a, stage)
    BY <2>1, UIGotoAlone DEF UIInv
  <2>2. CASE UNCHANGED <<preparing, uiOverlap>>
    BY <2>2 DEF UIInv, WebUITypeOK, CacheSound, OnePreparer, Preparing
  <2> QED
    BY <2>1, <2>2
<1>2. WebUITypeOK'
  BY <1>1 DEF UIInv, WebUITypeOK, StepTyped
<1>3. preparing'[Boot] \notin {"idle", "wiping", "sweeping"}
  BY <1>1 DEF UIInv, StepTyped, Preparers
<1>4. ASSUME ~uiOverlap'
      PROVE  CacheSound'
  <2>1. \A b \in Preparers \ {a} : ~Preparing(b)'
    BY <1>1, <1>4 DEF OnePreparer, Preparing, UIInv, CacheSound
  <2>2. \A b \in Preparers \ {a} : CacheInOrder(b)'
    BY <2>1 DEF Preparing, CacheInOrder
  <2> QED
    BY <1>1, <1>4, <2>2 DEF CacheSound
<1> QED
  BY <1>2, <1>3, <1>4 DEF UIInv

LEMMA WipeStep ==
    ASSUME UIInv, NEW a \in Preparers, WipeMarker(a) \/ WipeDist(a)
    PROVE  UIInv'
<1>1. /\ WebUITypeOK
      /\ preparing[a] \in {"wiping", "emptying", "sweeping", "clearing"}
      /\ a = Boot => preparing[a] \in {"emptying", "clearing"}
      /\ UNCHANGED <<zip, newest, chosen, uiCrashes>>
  BY DEF UIInv, WipeMarker, WipeDist
<1>2. Preparing(a)
  BY <1>1 DEF Preparing
<1>3. CASE WipeMarker(a)
  <2> DEFINE stage == IF preparing[a] = "wiping" THEN "sweeping" ELSE "clearing"
  <2>1. UIGoto(a, stage) /\ marker' = NoBuild /\ dist' = dist
    BY <1>3 DEF WipeMarker
  <2>2. stage \in UIStages /\ preparing'[a] = stage
    BY <1>1, <2>1 DEF UIGoto, UIStages, WebUITypeOK
  <2>3. preparing[a] = "emptying" \/ preparing[a] = "wiping"
    BY <1>3 DEF WipeMarker
  <2>4. StepTyped(a)'
    BY <1>1, <2>1, <2>2, <2>3 DEF StepTyped, WebUITypeOK
  <2>5. ~uiOverlap => CacheInOrder(a)'
    BY <1>1, <2>1, <2>2, <2>3 DEF CacheInOrder, UIInv, CacheSound
  <2> QED
    BY <1>1, <1>2, <2>1, <2>2, <2>4, <2>5, PreparerStep
<1>4. CASE WipeDist(a)
  <2>1. marker' = marker /\ preparing[a] \in {"sweeping", "clearing"}
    BY <1>4 DEF WipeDist
  <2>2. ~uiOverlap => marker = NoBuild
    BY <2>1 DEF UIInv, CacheSound, CacheInOrder
  <2>3. CASE dist = NoFiles
    <3> DEFINE stage == IF preparing[a] = "sweeping" THEN "resolving" ELSE "extracting"
    <3>1. UIGoto(a, stage) /\ dist' = dist
      BY <1>4, <2>3 DEF WipeDist
    <3>2. stage \in UIStages /\ preparing'[a] = stage
      BY <1>1, <3>1 DEF UIGoto, UIStages, WebUITypeOK
    <3>3. StepTyped(a)'
      BY <1>1, <2>1, <3>1, <3>2 DEF StepTyped, WebUITypeOK
    <3>4. ~uiOverlap => CacheInOrder(a)'
      BY <1>1, <2>1, <2>2, <3>1, <3>2 DEF CacheInOrder, UIInv, CacheSound
    <3> QED
      BY <1>1, <1>2, <2>1, <2>2, <3>1, <3>2, <3>3, <3>4, PreparerStep
  <2>4. CASE dist # NoFiles
    <3>1. PICK part \in Parts : dist' = [dist EXCEPT ![part] = NoBuild]
      BY <1>4, <2>4 DEF WipeDist
    <3>2. UNCHANGED <<preparing, uiOverlap>>
      BY <1>4, <2>4 DEF WipeDist
    <3>3. dist' \in [Parts -> Builds \cup {NoBuild}]
      BY <1>1, <3>1 DEF WebUITypeOK
    <3>4. StepTyped(a)'
      BY <1>1, <2>1, <3>2, <3>3 DEF StepTyped, WebUITypeOK
    <3>5. ~uiOverlap => CacheInOrder(a)'
      BY <1>1, <2>1, <2>2, <3>2 DEF CacheInOrder, UIInv, CacheSound
    <3> QED
      BY <1>1, <1>2, <2>1, <2>2, <3>2, <3>4, <3>5, PreparerStep
  <2> QED
    BY <2>3, <2>4
<1> QED
  BY <1>3, <1>4

\* Stages that leave the files as they are.
LEMMA DecideStep ==
    ASSUME UIInv, NEW a \in Preparers, Resolve(a) \/ CheckCached(a)
    PROVE  UIInv'
<1>1. /\ WebUITypeOK /\ preparing[a] \in {"resolving", "checking"}
      /\ UNCHANGED <<zip, dist, marker, newest, uiCrashes>>
  BY DEF UIInv, Resolve, CheckCached
<1>2. Preparing(a)
  BY <1>1 DEF Preparing
<1>3. ASSUME NEW stage \in {"ended", "checking", "asking"}, UIGoto(a, stage),
             NEW v \in Builds \cup {NoBuild}, chosen' = [chosen EXCEPT ![a] = v],
             stage # "ended" => v # NoBuild
      PROVE  UIInv'
  <2>1. stage \in UIStages /\ preparing'[a] = stage
    BY <1>1, <1>3 DEF UIGoto, UIStages, WebUITypeOK
  <2>2. StepTyped(a)'
    BY <1>1, <1>3, <2>1 DEF StepTyped, WebUITypeOK
  <2>3. ~uiOverlap => (marker' # NoBuild => Whole(marker)') /\ CacheInOrder(a)'
    BY <1>1, <2>1 DEF CacheInOrder, UIInv, CacheSound, Whole
  <2>4. \A b \in Preparers \ {a} : chosen'[b] = chosen[b]
    BY <1>1, <1>3 DEF WebUITypeOK
  <2> QED
    BY <1>2, <1>3, <2>1, <2>2, <2>3, <2>4, PreparerStep
<1>4. CASE Resolve(a)
  <2>1. PICK reached \in BOOLEAN :
          LET v == IF Forced # NoBuild THEN Forced
                   ELSE IF reached /\ newest # NoBuild THEN newest ELSE CachedVersion IN
          /\ chosen' = [chosen EXCEPT ![a] = v]
          /\ UIGoto(a, IF v = NoBuild THEN "ended" ELSE "checking")
    BY <1>4 DEF Resolve
  <2> DEFINE v == IF Forced # NoBuild THEN Forced
                  ELSE IF reached /\ newest # NoBuild THEN newest ELSE CachedVersion
  <2>2. v \in Builds \cup {NoBuild}
    BY <1>1, WebUIAssumption DEF WebUITypeOK, CachedVersion
  <2>3. /\ chosen' = [chosen EXCEPT ![a] = v]
        /\ UIGoto(a, IF v = NoBuild THEN "ended" ELSE "checking")
    BY <2>1
  <2> HIDE DEF v
  <2> QED
    BY <1>3, <2>2, <2>3
<1>5. CASE CheckCached(a)
  <2>1. /\ UIGoto(a, IF CachedVersion = chosen[a] THEN "ended" ELSE "asking")
        /\ chosen' = chosen
    BY <1>5 DEF CheckCached
  <2>2. chosen' = [chosen EXCEPT ![a] = chosen[a]]
    BY <1>1, <2>1 DEF WebUITypeOK
  <2>3. chosen[a] \in Builds \cup {NoBuild} /\ chosen[a] # NoBuild
    BY <1>1, <1>5 DEF WebUITypeOK, CheckCached
  <2> QED
    BY <1>3, <2>1, <2>2, <2>3
<1> QED
  BY <1>4, <1>5

\* The archive arrives and is unpacked.
LEMMA FetchUIStep ==
    ASSUME UIInv, NEW a \in Preparers, Ask(a) \/ Download(a) \/ RemoveZip(a)
    PROVE  UIInv'
<1>1. /\ WebUITypeOK /\ preparing[a] \in {"asking", "downloading", "tidying"}
      /\ UNCHANGED <<dist, marker, newest, chosen, uiCrashes>>
  BY DEF UIInv, Ask, Download, RemoveZip
<1>2. Preparing(a) /\ chosen[a] # NoBuild /\ chosen[a] \in Builds \cup {NoBuild}
  BY <1>1 DEF Preparing, WebUITypeOK
<1>3. ASSUME NEW stage \in {"ended", "downloading", "emptying", "marking"}, UIGoto(a, stage),
             zip' \in Builds \cup {NoBuild, Torn},
             ~uiOverlap => CacheInOrder(a)'
      PROVE  UIInv'
  <2>1. stage \in UIStages /\ preparing'[a] = stage
    BY <1>1, <1>3 DEF UIGoto, UIStages, WebUITypeOK
  <2>2. StepTyped(a)'
    BY <1>1, <1>2, <1>3, <2>1 DEF StepTyped, WebUITypeOK
  <2>3. ~uiOverlap => (marker' # NoBuild => Whole(marker)')
    BY <1>1 DEF UIInv, CacheSound, Whole
  <2> QED
    BY <1>1, <1>2, <1>3, <2>1, <2>2, <2>3, PreparerStep
<1>4. \A stage : UIGoto(a, stage) => preparing'[a] = stage
  BY <1>1 DEF UIGoto, WebUITypeOK
<1>5. CASE Ask(a)
  <2>1. CASE UIGoto(a, "ended") /\ UNCHANGED zip
    <3>1. CacheInOrder(a)'
      BY <1>4, <2>1 DEF CacheInOrder
    <3> QED
      BY <1>1, <1>3, <2>1, <3>1 DEF WebUITypeOK
  <2>2. CASE zip' = Torn /\ UIGoto(a, "downloading")
    <3>1. CacheInOrder(a)'
      BY <1>4, <2>2 DEF CacheInOrder
    <3> QED
      BY <1>3, <2>2, <3>1
  <2> QED
    BY <1>5, <2>1, <2>2 DEF Ask
<1>6. CASE Download(a)
  <2>1. CASE UIGoto(a, "emptying") /\ zip' = IF zip = NoBuild THEN NoBuild ELSE chosen[a]
    <3>1. ~uiOverlap => zip = Torn
      BY <1>6 DEF Download, UIInv, CacheSound, CacheInOrder
    <3>2. ~uiOverlap => CacheInOrder(a)'
      BY <1>1, <1>4, <2>1, <3>1, WebUIAssumption DEF CacheInOrder
    <3> QED
      BY <1>2, <1>3, <2>1, <3>2
  <2>2. CASE UIGoto(a, "ended") /\ UNCHANGED zip
    <3>1. CacheInOrder(a)'
      BY <1>4, <2>2 DEF CacheInOrder
    <3> QED
      BY <1>1, <1>3, <2>2, <3>1 DEF WebUITypeOK
  <2> QED
    BY <1>6, <2>1, <2>2 DEF Download
<1>7. CASE RemoveZip(a)
  <2>1. UIGoto(a, "marking") /\ zip' = NoBuild
    BY <1>7 DEF RemoveZip
  <2>2. ~uiOverlap => CacheInOrder(a)'
    BY <1>1, <1>4, <1>7, <2>1 DEF CacheInOrder, UIInv, CacheSound, RemoveZip, Whole
  <2> QED
    BY <1>3, <2>1, <2>2
<1> QED
  BY <1>5, <1>6, <1>7

LEMMA ExtractStep ==
    ASSUME UIInv, NEW a \in Preparers, Extract(a)
    PROVE  UIInv'
<1>1. /\ WebUITypeOK /\ preparing[a] = "extracting"
      /\ UNCHANGED <<zip, marker, newest, chosen, uiCrashes>>
  BY DEF UIInv, Extract
<1>2. Preparing(a) /\ chosen[a] # NoBuild
  BY <1>1 DEF Preparing, WebUITypeOK
<1>3. ~uiOverlap => marker = NoBuild /\ zip = chosen[a]
  BY <1>1 DEF UIInv, CacheSound, CacheInOrder
<1>4. CASE /\ zip \in Builds
           /\ \E part \in Parts : dist' = [dist EXCEPT ![part] = zip]
           /\ UNCHANGED <<preparing, uiOverlap>>
  <2>1. dist' \in [Parts -> Builds \cup {NoBuild}]
    BY <1>1, <1>4 DEF WebUITypeOK
  <2>2. StepTyped(a)'
    BY <1>1, <1>2, <1>4, <2>1 DEF StepTyped, WebUITypeOK
  <2>3. ~uiOverlap => CacheInOrder(a)'
    BY <1>1, <1>3, <1>4 DEF CacheInOrder
  <2> QED
    BY <1>1, <1>2, <1>3, <1>4, <2>2, <2>3, PreparerStep
<1>5. CASE /\ dist' = dist
           /\ \/ UIGoto(a, "ended")
              \/ /\ zip \in Builds /\ \A part \in Parts : dist[part] = zip
                 /\ UIGoto(a, "tidying")
  <2>1. PICK stage \in {"ended", "tidying"} :
          /\ UIGoto(a, stage)
          /\ stage = "tidying" => \A part \in Parts : dist[part] = zip
    BY <1>5
  <2>2. stage \in UIStages /\ preparing'[a] = stage
    BY <1>1, <2>1 DEF UIGoto, UIStages, WebUITypeOK
  <2>3. StepTyped(a)'
    BY <1>1, <1>2, <1>5, <2>2 DEF StepTyped, WebUITypeOK
  <2>4. ~uiOverlap => CacheInOrder(a)'
    BY <1>1, <1>3, <1>5, <2>1, <2>2 DEF CacheInOrder, Whole
  <2> QED
    BY <1>1, <1>2, <1>3, <2>1, <2>2, <2>3, <2>4, PreparerStep
<1> QED
  BY <1>4, <1>5 DEF Extract

LEMMA WriteMarkerStep ==
    ASSUME UIInv, NEW a \in Preparers, WriteMarker(a)
    PROVE  UIInv'
<1>1. /\ WebUITypeOK /\ preparing[a] = "marking" /\ marker' = chosen[a] /\ UIGoto(a, "ended")
      /\ UNCHANGED <<zip, dist, newest, chosen, uiCrashes>>
  BY DEF UIInv, WriteMarker
<1>2. Preparing(a) /\ "ended" \in UIStages /\ preparing'[a] = "ended"
  BY <1>1 DEF Preparing, UIGoto, UIStages, WebUITypeOK
<1>3. StepTyped(a)'
  BY <1>1, <1>2 DEF StepTyped, WebUITypeOK
<1>4. ~uiOverlap => (marker' # NoBuild => Whole(marker)') /\ CacheInOrder(a)'
  BY <1>1, <1>2 DEF CacheInOrder, UIInv, CacheSound, Whole
<1> QED
  BY <1>1, <1>2, <1>3, <1>4, PreparerStep

LEMMA UIStep ==
    ASSUME UIInv, [WebUINext]_uiVars
    PROVE  UIInv'
<1>1. CASE UNCHANGED uiVars
  BY <1>1 DEF uiVars, UIInv, WebUITypeOK, CacheSound, OnePreparer, Preparing, CacheInOrder, Whole
<1>2. CASE Publish
  BY <1>2 DEF Publish, UIInv, WebUITypeOK, CacheSound, OnePreparer, Preparing, CacheInOrder, Whole
<1>3. CASE CrashUI
  <2>1. /\ preparing' = [a \in Preparers |-> IF a = Boot THEN "resolving"
                            ELSE IF preparing[a] = "idle" THEN "idle" ELSE "ended"]
        /\ UNCHANGED <<zip, dist, marker, newest, chosen, uiOverlap>>
        /\ uiCrashes < MaxUICrashes /\ uiCrashes' = uiCrashes + 1
    BY <1>3 DEF CrashUI
  <2>2. uiCrashes' \in 0 .. MaxUICrashes
    BY <2>1, WebUIAssumption DEF UIInv, WebUITypeOK
  <2>3. preparing' \in [Preparers -> UIStages]
    BY <2>1 DEF UIStages
  <2>4. /\ preparing'[Boot] = "resolving"
        /\ \A a \in Preparers \ {Boot} : preparing'[a] \in {"idle", "ended"}
    BY <2>1 DEF Preparers
  <2>5. WebUITypeOK'
    BY <2>1, <2>2, <2>3, <2>4 DEF UIInv, WebUITypeOK
  <2>6. OnePreparer'
    BY <2>4 DEF OnePreparer, Preparing
  <2>7. \A a \in Preparers : CacheInOrder(a)'
    BY <2>4 DEF CacheInOrder
  <2> QED
    BY <2>1, <2>4, <2>5, <2>6, <2>7 DEF UIInv, CacheSound, Whole
<1>4. ASSUME NEW r \in UIRestarts, RestartUI(r)
      PROVE  UIInv'
  <2>1. /\ r \in Preparers /\ r # Boot /\ WebUITypeOK /\ UIGoto(r, "wiping")
        /\ UNCHANGED <<zip, dist, marker, newest, chosen, uiCrashes>>
    BY <1>4, WebUIAssumption DEF Preparers, RestartUI, UIInv
  <2>2. "wiping" \in UIStages /\ preparing'[r] = "wiping"
    BY <2>1 DEF UIGoto, UIStages, WebUITypeOK
  <2>3. StepTyped(r)'
    BY <2>1, <2>2 DEF StepTyped, WebUITypeOK
  <2>4. ~uiOverlap => (marker' # NoBuild => Whole(marker)') /\ CacheInOrder(r)'
    BY <2>1, <2>2 DEF CacheInOrder, UIInv, CacheSound, Whole
  <2>5. Preparing(r)'
    BY <2>2 DEF Preparing
  <2> QED
    BY <2>1, <2>2, <2>3, <2>4, <2>5, PreparerStep
<1> QED
  BY <1>1, <1>2, <1>3, <1>4, WipeStep, DecideStep, FetchUIStep, ExtractStep, WriteMarkerStep
  DEF WebUINext

LEMMA UIInvHolds == WebUISpec => []UIInv
<1>1. WebUIInit => UIInv
  <2> SUFFICES ASSUME WebUIInit
               PROVE  UIInv
    OBVIOUS
  <2>1. /\ preparing[Boot] = "resolving"
        /\ \A a \in Preparers \ {Boot} : preparing[a] = "idle"
        /\ preparing \in [Preparers -> UIStages]
    BY DEF WebUIInit, UIStages, Preparers
  <2>2. WebUITypeOK
    <3>1. \A a \in Preparers : preparing[a] \in {"idle", "resolving"}
      BY <2>1
    <3>2. /\ dist \in [Parts -> Builds \cup {NoBuild}]
          /\ chosen \in [Preparers -> Builds \cup {NoBuild}]
      BY DEF WebUIInit, NoFiles
    <3>3. uiCrashes \in 0 .. MaxUICrashes
      BY WebUIAssumption DEF WebUIInit
    <3> QED
      BY <2>1, <3>1, <3>2, <3>3 DEF WebUIInit, WebUITypeOK
  <2>3. OnePreparer
    BY <2>1 DEF OnePreparer, Preparing
  <2>4. \A a \in Preparers : CacheInOrder(a)
    BY <2>1 DEF CacheInOrder
  <2> QED
    BY <2>1, <2>2, <2>3, <2>4 DEF WebUIInit, UIInv, CacheSound
<1>2. UIInv /\ [WebUINext]_uiVars => UIInv'
  BY UIStep
<1> QED
  BY <1>1, <1>2, PTL DEF WebUISpec

\* The types of the web UI cache hold, and a preparer always knows its version.
THEOREM WebUITypeCorrect == WebUISpec => []WebUITypeOK
<1>1. UIInv => WebUITypeOK
  BY DEF UIInv
<1> QED
  BY <1>1, UIInvHolds, PTL

\* A build the cache claims to hold is complete, wherever the server crashes, as
\* long as restarts come one at a time.
THEOREM CacheIsWhole == WebUISpec => []CachedBuildIsWhole
<1>1. UIInv => CachedBuildIsWhole
  BY DEF UIInv, CacheSound, CachedBuildIsWhole, CachedVersion
<1> QED
  BY <1>1, UIInvHolds, PTL

\* What can change the version the cache claims: the removal of its marker, and
\* an index that goes or a marker that comes while there was no version.
LEMMA ChangesOfTheCache ==
    ASSUME UIInv, WebUINext, ~uiOverlap', CachedVersion # NoBuild, CachedVersion' # CachedVersion
    PROVE  zip \in Builds \/ \E r \in UIRestarts : preparing[r] = "wiping"
<1>1. marker # NoBuild /\ dist["index"] # NoBuild
  BY DEF CachedVersion
<1>2. ~(UNCHANGED <<dist, marker>>)
  BY DEF CachedVersion
<1>3. PICK a \in Preparers : WipeMarker(a) \/ WipeDist(a) \/ Extract(a) \/ WriteMarker(a)
  BY <1>2 DEF WebUINext, Resolve, CheckCached, Ask, Download, RemoveZip, RestartUI, Publish, CrashUI
<1>4. ~uiOverlap
  BY <1>3 DEF WipeMarker, WipeDist, Extract, WriteMarker, UIGoto
<1>5. CacheInOrder(a)
  BY <1>4 DEF UIInv, CacheSound
<1>6. WipeMarker(a)
  BY <1>1, <1>3, <1>5 DEF WipeDist, Extract, WriteMarker, CacheInOrder
<1>7. CASE preparing[a] = "wiping"
  BY <1>7 DEF UIInv, Preparers
<1>8. CASE preparing[a] = "emptying"
  BY <1>5, <1>8 DEF CacheInOrder, UIInv, WebUITypeOK
<1> QED
  BY <1>6, <1>7, <1>8 DEF WipeMarker

\* A build that works is given up only for one that has arrived, or because an
\* administrator restarts the web UI.
THEOREM CacheIsKept == WebUISpec => WorkingBuildIsKept
<1>1. UIInv /\ [WebUINext]_uiVars
        => [~uiOverlap' /\ CachedVersion # NoBuild /\ CachedVersion' # CachedVersion =>
               zip \in Builds \/ \E r \in UIRestarts : preparing[r] = "wiping"]_uiVars
  BY ChangesOfTheCache DEF uiVars
<1> QED
  BY <1>1, UIInvHolds, PTL DEF WebUISpec, WorkingBuildIsKept

(***************************************************************************)
(* Files on their way to a client.                                         *)
(***************************************************************************)

\* Version v is the only one that was sent, and every byte is in its place.
Serves(v) ==
    /\ wanted \subseteq {v}
    /\ \A d \in Transmissions : transmission[d].sends \subseteq {v}
    /\ \A o \in DOMAIN assembled : assembled[o] = [version |-> v, at |-> o]
    /\ \A d \in Transmissions :
          transmission[d].pc = "streaming" => transmission[d].place = transmission[d].next

TransfersInv ==
    /\ TransfersTypeOK
    /\ Largest >= 1
    /\ \A d \in Transmissions : transmission[d].pc = "streaming" => transmission[d].sends # {}
    /\ DOMAIN assembled # {} => \E d \in Transmissions : transmission[d].sends # {}
    /\ latestMoved \/ \E v \in FileVersions : Serves(v)

\* The client is sent one version, or may still be sent any that it wants.
LEMMA ServesChosen ==
    ASSUME TransfersInv, NEW v \in Chosen,
           wanted = {} => Sent \subseteq {v}, ~latestMoved
    PROVE  v \in FileVersions /\ Serves(v) /\ (Sent = {} \/ Sent = {v})
<1>1. v \in FileVersions /\ wanted \subseteq {v}
  BY DEF Chosen, LatestVersion, TransfersInv, TransfersTypeOK
<1>2. PICK w \in FileVersions : Serves(w)
  BY DEF TransfersInv
<1>3. \A d \in Transmissions : transmission[d].sends \subseteq {v}
  BY <1>1, <1>2 DEF Sent, Serves
<1>4. CASE v = w
  BY <1>1, <1>2, <1>4 DEF Serves, Sent
<1>5. CASE v # w
  <2>1. Sent = {}
    BY <1>2, <1>3, <1>5 DEF Serves, Sent
  <2>2. DOMAIN assembled = {}
    BY <2>1 DEF TransfersInv, Sent
  <2> QED
    BY <1>1, <1>2, <1>3, <2>1, <2>2 DEF Serves
<1> QED
  BY <1>4, <1>5

\* A stream starts where the client puts its first byte, and ends inside the file.
LEMMA RangeIsInside ==
    ASSUME NEW v \in FileVersions, NEW start \in Offsets, start < SizeOf[v],
           NEW end \in Offsets \cup {NotGiven}
    PROVE  /\ RangeStart(start, SizeOf[v]) = start
           /\ RangeEnd(start, end, SizeOf[v]) \in Offsets
<1>1. SizeOf[v] \in Nat /\ 1 <= SizeOf[v] /\ SizeOf[v] <= Largest /\ Largest \in Nat
  BY TransfersAssumption
<1> QED
  BY <1>1 DEF RangeStart, RangeEnd, Offsets, NotGiven

\* Whatever the offsets, the types of what a stream reads hold.
LEMMA RangeTyped ==
    ASSUME NEW v \in FileVersions, NEW start \in Offsets, NEW end \in Offsets \cup {NotGiven}
    PROVE  /\ RangeStart(start, SizeOf[v]) \in 0 .. Largest
           /\ RangeEnd(start, end, SizeOf[v]) \in Offsets
           /\ start \in Nat
<1>1. SizeOf[v] \in Nat /\ 1 <= SizeOf[v] /\ SizeOf[v] <= Largest /\ Largest \in Nat
  BY TransfersAssumption
<1> QED
  BY <1>1 DEF RangeStart, RangeEnd, Offsets, NotGiven

LEMMA OpenStreamInv ==
    ASSUME TransfersInv, NEW d \in Transmissions, OpenStream(d)
    PROVE  TransfersInv'
<1>1. PICK v \in Chosen, start \in Offsets, end \in Offsets \cup {NotGiven} :
          /\ \A w \in (IF Sent = {} THEN {v} ELSE Sent) : start < SizeOf[w]
          /\ transmission' = [transmission EXCEPT ![d] =
                [pc |-> "streaming", sends |-> {v}, place |-> start,
                 next |-> RangeStart(start, SizeOf[v]),
                 last |-> RangeEnd(start, end, SizeOf[v])]]
          /\ latestMoved' = (latestMoved \/ (wanted = {} /\ ~(Sent \subseteq {v})))
  BY DEF OpenStream
<1> DEFINE t == [pc |-> "streaming", sends |-> {v}, place |-> start,
                 next |-> RangeStart(start, SizeOf[v]),
                 last |-> RangeEnd(start, end, SizeOf[v])]
<1>2. v \in FileVersions /\ UNCHANGED <<offered, wanted, assembled, storeChanges>>
  BY DEF Chosen, LatestVersion, TransfersInv, TransfersTypeOK, OpenStream
<1>3. t \in Transmission /\ t.sends = {v} /\ t.pc = "streaming" /\ t.place = start
  BY <1>2, RangeTyped DEF Transmission
<1>4. t.next = RangeStart(start, SizeOf[v])
  OBVIOUS
<1>5. transmission' = [transmission EXCEPT ![d] = t]
  BY <1>1
<1> HIDE DEF t
<1>6. /\ transmission' \in [Transmissions -> Transmission]
      /\ transmission'[d] = t
      /\ \A e \in Transmissions \ {d} : transmission'[e] = transmission[e]
  BY <1>3, <1>5 DEF TransfersInv, TransfersTypeOK
<1>7. latestMoved' \in BOOLEAN
  BY <1>1 DEF TransfersInv, TransfersTypeOK
<1>8. TransfersTypeOK'
  BY <1>2, <1>6, <1>7 DEF TransfersInv, TransfersTypeOK
<1>9. ASSUME ~latestMoved'
      PROVE  Serves(v)'
  <2>1. Serves(v) /\ (Sent = {} \/ Sent = {v})
    BY <1>1, <1>9, ServesChosen
  <2>2. start < SizeOf[v]
    BY <1>1, <2>1
  <2>3. t.next = start
    BY <1>2, <1>4, <2>2, RangeIsInside
  <2> QED
    BY <1>2, <1>3, <1>6, <2>1, <2>3 DEF Serves
<1> QED
  BY <1>2, <1>3, <1>6, <1>8, <1>9 DEF TransfersInv

LEMMA ReceiveInv ==
    ASSUME TransfersInv, NEW d \in Transmissions, Receive(d)
    PROVE  TransfersInv'
<1> DEFINE t == transmission[d]
           n == [transmission[d] EXCEPT !.place = @ + 1, !.next = @ + 1]
<1>1. /\ t \in Transmission /\ t.pc = "streaming" /\ t.next <= t.last
      /\ UNCHANGED <<offered, wanted, storeChanges, latestMoved>>
  BY DEF Receive, TransfersInv, TransfersTypeOK
<1>2. PICK v \in t.sends :
          assembled' = [o \in DOMAIN assembled \cup {t.place} |->
             IF o = t.place THEN [version |-> v, at |-> t.next] ELSE assembled[o]]
  BY DEF Receive
<1>3. /\ t.place \in Nat /\ t.next \in 0 .. Largest /\ t.last \in Offsets
      /\ t.sends = {v} /\ v \in FileVersions
  BY <1>1, <1>2 DEF Transmission
<1>4. t.next \in Offsets /\ t.next + 1 \in 0 .. Largest /\ t.place + 1 \in Nat
  BY <1>1, <1>3, TransfersAssumption DEF Offsets
<1>5. transmission' = [transmission EXCEPT ![d] = n]
  BY DEF Receive, TransfersInv, TransfersTypeOK
<1>6. n \in Transmission /\ n.pc = t.pc /\ n.sends = t.sends
      /\ n.place = t.place + 1 /\ n.next = t.next + 1
  BY <1>1, <1>4 DEF Transmission
<1> HIDE DEF n
<1>7. /\ transmission' \in [Transmissions -> Transmission]
      /\ transmission'[d] = n
      /\ \A e \in Transmissions \ {d} : transmission'[e] = transmission[e]
  BY <1>5, <1>6 DEF TransfersInv, TransfersTypeOK
<1>8. [version |-> v, at |-> t.next] \in Byte
  BY <1>3, <1>4 DEF Byte
<1>9. TransfersTypeOK'
  BY <1>1, <1>2, <1>7, <1>8 DEF TransfersInv, TransfersTypeOK
<1>10. \A w \in FileVersions : Serves(w) => Serves(w)'
  <2> SUFFICES ASSUME NEW w \in FileVersions, Serves(w)
               PROVE  Serves(w)'
    OBVIOUS
  <2>1. v = w /\ t.place = t.next
    BY <1>1, <1>3 DEF Serves
  <2>2. \A o \in DOMAIN assembled' : assembled'[o] = [version |-> w, at |-> o]
    BY <1>2, <2>1 DEF Serves
  <2> QED
    BY <1>1, <1>6, <1>7, <2>1, <2>2 DEF Serves
<1> QED
  BY <1>1, <1>3, <1>6, <1>7, <1>9, <1>10 DEF TransfersInv

\* The end of a stream, or of a request that gets none, keeps what was sent.
LEMMA EndInv ==
    ASSUME TransfersInv, NEW d \in Transmissions, Refuse(d) \/ CloseStream(d)
    PROVE  TransfersInv'
<1>1. transmission[d] \in Transmission
  BY DEF TransfersInv, TransfersTypeOK
<1>2. PICK n \in Transmission : /\ transmission' = [transmission EXCEPT ![d] = n]
                                /\ n.pc = "ended" /\ n.sends = transmission[d].sends
  <2>1. CASE Refuse(d)
    <3>1. [transmission[d] EXCEPT !.pc = "ended"] \in Transmission
      BY <1>1 DEF Transmission
    <3> QED
      BY <1>1, <2>1, <3>1 DEF Refuse, Transmission
  <2>2. CASE CloseStream(d)
    <3>1. 0 \in Offsets /\ 0 \in 0 .. Largest
      BY TransfersAssumption DEF TransfersInv, Offsets
    <3>2. [NotSent EXCEPT !.pc = "ended", !.sends = transmission[d].sends] \in Transmission
      BY <1>1, <3>1 DEF Transmission, NotSent
    <3> QED
      BY <2>2, <3>2 DEF CloseStream, NotSent
  <2> QED
    BY <2>1, <2>2
<1>3. /\ transmission' \in [Transmissions -> Transmission]
      /\ transmission'[d] = n
      /\ \A e \in Transmissions \ {d} : transmission'[e] = transmission[e]
  BY <1>2 DEF TransfersInv, TransfersTypeOK
<1>4. UNCHANGED <<offered, wanted, assembled, storeChanges, latestMoved>>
  BY DEF Refuse, CloseStream
<1>5. TransfersTypeOK'
  BY <1>3, <1>4 DEF TransfersInv, TransfersTypeOK
<1>6. \A w \in FileVersions : Serves(w) => Serves(w)'
  BY <1>2, <1>3, <1>4 DEF Serves
<1> QED
  BY <1>2, <1>3, <1>4, <1>5, <1>6 DEF TransfersInv

LEMMA TransfersInvHolds == TransfersSpec => []TransfersInv
<1>1. TransfersInit => TransfersInv
  <2> SUFFICES ASSUME TransfersInit
               PROVE  TransfersInv
    OBVIOUS
  <2>1. PICK v \in FileVersions : wanted \subseteq {v}
    <3>1. FileVersions # {}
      BY DEF TransfersInit
    <3>2. wanted = {} \/ \E v \in FileVersions : wanted = {v}
      BY DEF TransfersInit
    <3> QED
      BY <3>1, <3>2
  <2>2. Largest \in Nat /\ Largest >= 1
    BY <2>1, TransfersAssumption
  <2>3. NotSent \in Transmission /\ NotSent.pc = "new" /\ NotSent.sends = {}
    <3>1. 0 \in Offsets /\ 0 \in 0 .. Largest
      BY <2>2 DEF Offsets
    <3> QED
      BY <3>1 DEF NotSent, Transmission
  <2>4. storeChanges \in 0 .. MaxStoreChanges
    BY TransfersAssumption DEF TransfersInit
  <2>5. TransfersTypeOK
    BY <2>3, <2>4 DEF TransfersInit, TransfersTypeOK
  <2>6. DOMAIN assembled = {} /\ \A d \in Transmissions : transmission[d] = NotSent
    BY DEF TransfersInit
  <2> QED
    BY <2>1, <2>2, <2>3, <2>5, <2>6 DEF TransfersInv, Serves
<1>2. TransfersInv /\ [TransfersNext]_transferVars => TransfersInv'
  <2> SUFFICES ASSUME TransfersInv, [TransfersNext]_transferVars
               PROVE  TransfersInv'
    OBVIOUS
  <2>1. CASE UNCHANGED transferVars
    BY <2>1 DEF transferVars, TransfersInv, TransfersTypeOK, Serves
  <2>2. CASE ChangeStore
    <3>1. storeChanges' \in 0 .. MaxStoreChanges
      BY <2>2, TransfersAssumption DEF ChangeStore, TransfersInv, TransfersTypeOK
    <3>2. offered' \subseteq FileVersions
      BY <2>2 DEF ChangeStore, TransfersInv, TransfersTypeOK
    <3>3. UNCHANGED <<wanted, transmission, assembled, latestMoved>>
      BY <2>2 DEF ChangeStore
    <3> QED
      BY <3>1, <3>2, <3>3 DEF TransfersInv, TransfersTypeOK, Serves
  <2> QED
    BY <2>1, <2>2, OpenStreamInv, ReceiveInv, EndInv DEF TransfersNext
<1> QED
  BY <1>1, <1>2, PTL DEF TransfersSpec

\* The types of the transmissions hold.
THEOREM TransfersTypeCorrect == TransfersSpec => []TransfersTypeOK
<1>1. TransfersInv => TransfersTypeOK
  BY DEF TransfersInv
<1> QED
  BY <1>1, TransfersInvHolds, PTL

\* What a client puts together from any number of answers is one file.
THEOREM ClientsGetOneFile == TransfersSpec => []AssembledIsOneFile
<1>1. TransfersInv => AssembledIsOneFile
  BY DEF TransfersInv, Serves, AssembledIsOneFile
<1> QED
  BY <1>1, TransfersInvHolds, PTL

(***************************************************************************)
(* Backup and restore of the database.                                     *)
(***************************************************************************)

SqliteTasks == {"idle", "closing", "saving", "copying", "checking", "returning", "cleaning",
                "connecting", "migrating", "ended"}

\* The stages of the two systems are kept apart; only a restore loads or copies.
StageFits(r) ==
    /\ task[r] \in Tasks
    /\ IF system = "SQLITE" THEN task[r] \in SqliteTasks ELSE task[r] # "closing"
    /\ task[r] \in {"dropping", "creating", "loading", "copying"} => r \in Restores

RestoreTyped == RestoreTypeOK /\ \A r \in DatabaseRequests : StageFits(r)

DatabaseStep(r) ==
    \/ StartRequest(r) \/ Dump(r) \/ Drop(r) \/ Create(r) \/ LoadDump(r) \/ CheckPreRestore(r)
    \/ Reload(r) \/ Close(r) \/ SaveCopy(r) \/ CopyDump(r) \/ PutBack(r) \/ Connect(r)
    \/ Clean(r) \/ Migrate(r)

\* Where a step of r takes it.
LEMMA TaskMoves ==
    ASSUME NEW r \in DatabaseRequests, task \in [DatabaseRequests -> Tasks], StageFits(r),
           DatabaseStep(r)
    PROVE  /\ task' = [task EXCEPT ![r] = task'[r]]
           /\ system' = system
           /\ StageFits(r)'
           /\ task'[r] # "idle" /\ task[r] # "ended"
<1>1. CASE StartRequest(r)
  BY <1>1 DEF StartRequest, TaskGoto, StageFits, Tasks, SqliteTasks
<1>2. CASE Dump(r)
  BY <1>2 DEF Dump, TaskGoto, StageFits, Tasks, SqliteTasks
<1>3. CASE Drop(r)
  BY <1>3 DEF Drop, TaskGoto, StageFits, Tasks, SqliteTasks
<1>4. CASE Create(r)
  BY <1>4 DEF Create, TaskGoto, StageFits, Tasks, SqliteTasks
<1>5. CASE LoadDump(r)
  BY <1>5 DEF LoadDump, TaskGoto, StageFits, Tasks, SqliteTasks
<1>6. CASE CheckPreRestore(r)
  BY <1>6 DEF CheckPreRestore, TaskGoto, StageFits, Tasks, SqliteTasks
<1>7. CASE Reload(r)
  BY <1>7 DEF Reload, TaskGoto, StageFits, Tasks, SqliteTasks
<1>8. CASE Close(r)
  BY <1>8 DEF Close, TaskGoto, StageFits, Tasks, SqliteTasks
<1>9. CASE SaveCopy(r)
  BY <1>9 DEF SaveCopy, TaskGoto, StageFits, Tasks, SqliteTasks
<1>10. CASE CopyDump(r)
  BY <1>10 DEF CopyDump, TaskGoto, StageFits, Tasks, SqliteTasks
<1>11. CASE PutBack(r)
  BY <1>11 DEF PutBack, TaskGoto, StageFits, Tasks, SqliteTasks
<1>12. CASE Connect(r)
  BY <1>12 DEF Connect, TaskGoto, StageFits, Tasks, SqliteTasks
<1>13. CASE Clean(r)
  BY <1>13 DEF Clean, TaskGoto, StageFits, Tasks, SqliteTasks
<1>14. CASE Migrate(r)
  BY <1>14 DEF Migrate, TaskGoto, StageFits, Tasks, SqliteTasks
<1> QED
  BY <1>1, <1>2, <1>3, <1>4, <1>5, <1>6, <1>7,
     <1>8, <1>9, <1>10, <1>11, <1>12, <1>13, <1>14 DEF DatabaseStep

\* What a step of r may leave in the database and in the other variables.
LEMMA DatabaseBecomes ==
    ASSUME NEW r \in DatabaseRequests, StageFits(r), DatabaseStep(r)
    PROVE  \/ database' \in {database, Absent, Empty, Part, preRestore[r]}
           \/ database' = r /\ r \in Restores
<1>1. CASE StartRequest(r)
  BY <1>1 DEF StartRequest, StageFits
<1>2. CASE Dump(r)
  BY <1>2 DEF Dump, StageFits
<1>3. CASE Drop(r)
  BY <1>3 DEF Drop, StageFits
<1>4. CASE Create(r)
  BY <1>4 DEF Create, StageFits
<1>5. CASE LoadDump(r)
  BY <1>5 DEF LoadDump, StageFits
<1>6. CASE CheckPreRestore(r)
  BY <1>6 DEF CheckPreRestore, StageFits
<1>7. CASE Reload(r)
  BY <1>7 DEF Reload, StageFits
<1>8. CASE Close(r)
  BY <1>8 DEF Close, StageFits
<1>9. CASE SaveCopy(r)
  BY <1>9 DEF SaveCopy, StageFits
<1>10. CASE CopyDump(r)
  BY <1>10 DEF CopyDump, StageFits
<1>11. CASE PutBack(r)
  BY <1>11 DEF PutBack, StageFits
<1>12. CASE Connect(r)
  BY <1>12 DEF Connect, StageFits
<1>13. CASE Clean(r)
  BY <1>13 DEF Clean, StageFits
<1>14. CASE Migrate(r)
  BY <1>14 DEF Migrate, StageFits
<1> QED
  BY <1>1, <1>2, <1>3, <1>4, <1>5, <1>6, <1>7,
     <1>8, <1>9, <1>10, <1>11, <1>12, <1>13, <1>14 DEF DatabaseStep

LEMMA OthersBecome ==
    ASSUME NEW r \in DatabaseRequests, DatabaseStep(r)
    PROVE  /\ faults' = faults \/ faults' = faults \cup {task[r]}
           /\ rejects' = rejects \/ rejects' = [rejects EXCEPT ![r] = TRUE]
           /\ \/ preRestore' = preRestore
              \/ preRestore' = [preRestore EXCEPT ![r] = Absent]
              \/ preRestore' = [preRestore EXCEPT ![r] = Part]
              \/ preRestore' = [preRestore EXCEPT ![r] = database]
           /\ before' = before \/ before' = [before EXCEPT ![r] = database]
           /\ \/ dbConnected' = dbConnected
              \/ dbConnected' = TRUE /\ task[r] = "connecting"
              \/ dbConnected' = FALSE /\ task[r] = "closing"
           /\ together' = together \/ \E b \in BOOLEAN : together' = (together \/ b)
<1>1. CASE StartRequest(r)
  BY <1>1 DEF StartRequest
<1>2. CASE Dump(r)
  BY <1>2 DEF Dump, Faulty, Reject
<1>3. CASE Drop(r)
  BY <1>3 DEF Drop, Faulty, Reject
<1>4. CASE Create(r)
  BY <1>4 DEF Create, Faulty, Reject
<1>5. CASE LoadDump(r)
  BY <1>5 DEF LoadDump, Faulty, Reject
<1>6. CASE CheckPreRestore(r)
  BY <1>6 DEF CheckPreRestore, Faulty, Reject
<1>7. CASE Reload(r)
  BY <1>7 DEF Reload, Faulty, Reject
<1>8. CASE Close(r)
  BY <1>8 DEF Close, Faulty, Reject
<1>9. CASE SaveCopy(r)
  BY <1>9 DEF SaveCopy, Faulty, Reject
<1>10. CASE CopyDump(r)
  BY <1>10 DEF CopyDump, Faulty, Reject
<1>11. CASE PutBack(r)
  BY <1>11 DEF PutBack, Faulty, Reject
<1>12. CASE Connect(r)
  BY <1>12 DEF Connect, Faulty, Reject
<1>13. CASE Clean(r)
  BY <1>13 DEF Clean, Faulty, Reject
<1>14. CASE Migrate(r)
  BY <1>14 DEF Migrate, Faulty, Reject
<1> QED
  BY <1>1, <1>2, <1>3, <1>4, <1>5, <1>6, <1>7,
     <1>8, <1>9, <1>10, <1>11, <1>12, <1>13, <1>14 DEF DatabaseStep

LEMMA RestoreTypedStep ==
    ASSUME RestoreTyped, NEW r \in DatabaseRequests, DatabaseStep(r)
    PROVE  /\ RestoreTyped'
           /\ task'[r] # "idle" /\ task[r] # "ended" /\ system' = system
           /\ \A q \in DatabaseRequests \ {r} : task'[q] = task[q]
<1>1. task \in [DatabaseRequests -> Tasks] /\ StageFits(r)
  BY DEF RestoreTyped, RestoreTypeOK
<1>2. /\ task' = [task EXCEPT ![r] = task'[r]]
      /\ system' = system
      /\ StageFits(r)'
      /\ task'[r] # "idle" /\ task[r] # "ended"
  BY <1>1, TaskMoves
<1>3. /\ task' \in [DatabaseRequests -> Tasks]
      /\ \A q \in DatabaseRequests \ {r} : task'[q] = task[q]
  <2>1. task'[r] \in Tasks
    BY <1>2 DEF StageFits
  <2> QED
    BY <1>1, <1>2, <2>1
<1>4. \A q \in DatabaseRequests : StageFits(q)'
  BY <1>2, <1>3 DEF RestoreTyped, StageFits
<1>5. database' \in Held
  BY <1>1, DatabaseBecomes DEF RestoreTyped, RestoreTypeOK, Held
<1>6. faults' \subseteq Tasks
  <2>1. faults \subseteq Tasks /\ task[r] \in Tasks
    BY <1>1 DEF RestoreTyped, RestoreTypeOK
  <2> QED
    BY <2>1, OthersBecome
<1>7. rejects' \in [DatabaseRequests -> BOOLEAN]
  BY OthersBecome DEF RestoreTyped, RestoreTypeOK
<1>8. preRestore' \in [DatabaseRequests -> Held]
  BY OthersBecome DEF RestoreTyped, RestoreTypeOK, Held
<1>9. before' \in [DatabaseRequests -> Held]
  BY OthersBecome DEF RestoreTyped, RestoreTypeOK
<1>10. together' \in BOOLEAN
  BY OthersBecome DEF RestoreTyped, RestoreTypeOK
<1>11. dbConnected' \in BOOLEAN /\ (system = "POSTGRESQL" => dbConnected')
  BY <1>1, OthersBecome DEF RestoreTyped, RestoreTypeOK, StageFits
<1> QED
  BY <1>2, <1>3, <1>4, <1>5, <1>6, <1>7, <1>8, <1>9, <1>10, <1>11
  DEF RestoreTyped, RestoreTypeOK

LEMMA RestoreTypedHolds == RestoreSpec => []RestoreTyped
<1>1. RestoreInit => RestoreTyped
  BY DatabaseRestoreAssumption
  DEF RestoreInit, RestoreTyped, RestoreTypeOK, StageFits, Tasks, SqliteTasks, Held
<1>2. RestoreTyped /\ [RestoreNext]_restoreVars => RestoreTyped'
  <2>1. CASE UNCHANGED restoreVars
    BY <2>1 DEF restoreVars, RestoreTyped, RestoreTypeOK, StageFits
  <2> QED
    BY <2>1, RestoreTypedStep DEF RestoreNext, DatabaseStep
<1> QED
  BY <1>1, <1>2, PTL DEF RestoreSpec

\* The types of backup and restore hold, and PostgreSQL stays connected.
THEOREM RestoreTypeCorrect == RestoreSpec => []RestoreTypeOK
<1>1. RestoreTyped => RestoreTypeOK
  BY DEF RestoreTyped
<1> QED
  BY <1>1, RestoreTypedHolds, PTL

\* From the closing of the data source until it is opened again, or the attempt
\* fails, a request has the files of SQLite for itself.
HasFiles(r) ==
    task[r] \in {"saving", "copying", "checking", "returning", "cleaning", "connecting"}

FilesExclusive ==
    system = "SQLITE" =>
        /\ \A r \in DatabaseRequests : HasFiles(r) => ~dbConnected
        /\ \A r, q \in DatabaseRequests : HasFiles(r) /\ HasFiles(q) => r = q

LEMMA FilesExclusiveStep ==
    ASSUME RestoreTyped, FilesExclusive, NEW r \in DatabaseRequests, DatabaseStep(r)
    PROVE  FilesExclusive'
<1> SUFFICES ASSUME system = "SQLITE"
             PROVE  /\ \A q \in DatabaseRequests : HasFiles(q)' => ~dbConnected'
                    /\ \A p, q \in DatabaseRequests : HasFiles(p)' /\ HasFiles(q)' => p = q
  BY RestoreTypedStep DEF FilesExclusive
<1>1. /\ \A q \in DatabaseRequests \ {r} : HasFiles(q)' = HasFiles(q)
      /\ task[r] \in SqliteTasks /\ task \in [DatabaseRequests -> Tasks]
  BY RestoreTypedStep DEF HasFiles, RestoreTyped, RestoreTypeOK, StageFits
<1>2. CASE task[r] = "closing"
  <2>1. Close(r)
    BY <1>2 DEF DatabaseStep, StartRequest, Dump, Drop, Create, LoadDump, CheckPreRestore, Reload,
                SaveCopy, CopyDump, PutBack, Connect, Clean, Migrate
  <2>2. CASE dbConnected
    <3>1. ~dbConnected' /\ \A q \in DatabaseRequests : ~HasFiles(q)
      BY <2>1, <2>2 DEF Close, FilesExclusive
    <3> QED
      BY <1>1, <3>1
  <2>3. CASE ~dbConnected
    <3>1. ~dbConnected' /\ task'[r] = "ended"
      BY <1>1, <2>1, <2>3 DEF Close, TaskGoto
    <3> QED
      BY <1>1, <3>1 DEF HasFiles, FilesExclusive
  <2> QED
    BY <2>2, <2>3
<1>3. CASE task[r] = "connecting"
  <2>1. Connect(r) /\ HasFiles(r)
    BY <1>3 DEF DatabaseStep, StartRequest, Dump, Drop, Create, LoadDump, CheckPreRestore, Reload,
                SaveCopy, CopyDump, PutBack, Close, Clean, Migrate, HasFiles
  <2>2. task'[r] \in {"migrating", "ended"}
    BY <1>1, <2>1 DEF Connect, TaskGoto
  <2>3. \A q \in DatabaseRequests : ~HasFiles(q)'
    BY <1>1, <2>1, <2>2 DEF HasFiles, FilesExclusive
  <2> QED
    BY <2>3
<1>4. CASE task[r] \in {"saving", "copying", "checking", "returning", "cleaning"}
  <2>1. HasFiles(r) /\ dbConnected' = dbConnected
    BY <1>4, OthersBecome DEF HasFiles
  <2> QED
    BY <1>1, <2>1 DEF FilesExclusive
<1>5. CASE task[r] \in {"idle", "migrating", "ended"}
  <2>1. dbConnected' = dbConnected
    BY <1>5, OthersBecome
  <2>2. StartRequest(r) \/ Migrate(r)
    BY <1>5 DEF DatabaseStep, Dump, Drop, Create, LoadDump, CheckPreRestore, Reload,
                SaveCopy, CopyDump, PutBack, Close, Connect, Clean
  <2>3. task'[r] \in {"closing", "ended"}
    BY <1>1, <2>2 DEF StartRequest, Migrate, TaskGoto
  <2> QED
    BY <1>1, <2>1, <2>3 DEF HasFiles, FilesExclusive
<1> QED
  BY <1>1, <1>2, <1>3, <1>4, <1>5 DEF SqliteTasks

\* SQLite's files are copied by one request at a time, and never under a data
\* source that is open.
THEOREM FilesAreCopiedClosed == RestoreSpec => []CopiedWhileClosed
<1>1. RestoreInit => FilesExclusive
  BY DEF RestoreInit, FilesExclusive, HasFiles
<1>2. RestoreTyped /\ FilesExclusive /\ [RestoreNext]_restoreVars => FilesExclusive'
  <2>1. CASE UNCHANGED restoreVars
    BY <2>1 DEF restoreVars, FilesExclusive, HasFiles
  <2> QED
    BY <2>1, FilesExclusiveStep DEF RestoreNext, DatabaseStep
<1>3. FilesExclusive => CopiedWhileClosed
  BY DEF FilesExclusive, HasFiles, CopiedWhileClosed
<1> QED
  BY <1>1, <1>2, <1>3, RestoreTypedHolds, PTL DEF RestoreSpec

\* What one restore at a time may leave in the database.
SoundData == {Original} \cup Restores

\* One stage has failed at most, and it is not that of pg_dump or pg_restore.
OneFault ==
    /\ \A f, g \in faults : f = g
    /\ faults \cap {"dumping", "loading"} = {}

\* The failure that made a restore look for its pre-restore file.
HasFailed == faults \cap {"dropping", "creating", "saving", "copying"} # {}

\* What the database and the pre-restore file hold at the stages of r.
DataInOrder(r) ==
    /\ task[r] \in {"closing", "dumping", "dropping", "saving", "copying", "cleaning",
                    "connecting", "migrating"} => database \in SoundData
    /\ task[r] \in {"dropping", "creating", "loading", "redropping", "recreating", "reloading",
                    "copying", "returning"} => preRestore[r] \in SoundData
    /\ task[r] \in {"creating", "recreating"} => database = Absent
    /\ task[r] \in {"loading", "reloading"} => database = Empty
    /\ task[r] \in {"redropping", "recreating", "reloading", "returning"} => HasFailed
    /\ task[r] = "checking" => \/ preRestore[r] = Absent /\ database \in SoundData
                               \/ preRestore[r] \in SoundData /\ HasFailed
    /\ task[r] \in {"idle", "closing", "dumping", "saving"} => preRestore[r] = Absent

OneAtWork == \A r, q \in DatabaseRequests : AtWork(r) /\ AtWork(q) => r = q

DataKept ==
    /\ ~together => OneAtWork
    /\ ~together /\ OneFault =>
          /\ (\A r \in DatabaseRequests : ~AtWork(r)) => database \in SoundData
          /\ \A r \in DatabaseRequests : DataInOrder(r)

\* Before a step that leaves a single fault there was no other.
LEMMA FaultsStay ==
    ASSUME NEW r \in DatabaseRequests, DatabaseStep(r), OneFault'
    PROVE  /\ OneFault
           /\ HasFailed => HasFailed'
           /\ faults' = faults \cup {task[r]} =>
                 /\ task[r] \notin {"dumping", "loading"}
                 /\ HasFailed => task[r] \in {"dropping", "creating", "saving", "copying"}
                 /\ task[r] \in {"dropping", "creating", "saving", "copying"} => HasFailed'
<1>1. faults' = faults \/ faults' = faults \cup {task[r]}
  BY OthersBecome
<1>2. faults \subseteq faults'
  BY <1>1
<1> QED
  BY <1>1, <1>2 DEF OneFault, HasFailed

\* A request that runs alone does so from its start.
LEMMA RunsAlone ==
    ASSUME RestoreTyped, ~together => OneAtWork, NEW r \in DatabaseRequests, DatabaseStep(r),
           ~together'
    PROVE  /\ ~together
           /\ \A q \in DatabaseRequests \ {r} : ~AtWork(q) /\ ~AtWork(q)'
           /\ OneAtWork'
<1>1. ~together
  BY OthersBecome
<1>2. CASE task[r] = "idle"
  <2>1. StartRequest(r)
    BY <1>2 DEF DatabaseStep, Dump, Drop, Create, LoadDump, CheckPreRestore, Reload, SaveCopy,
                CopyDump, PutBack, Close, Connect, Clean, Migrate
  <2>2. \A q \in DatabaseRequests \ {r} : ~AtWork(q)
    BY <2>1 DEF StartRequest
  <2> QED
    BY <1>1, <2>2, RestoreTypedStep DEF AtWork, OneAtWork
<1>3. CASE task[r] # "idle"
  <2>1. AtWork(r)
    BY <1>3, RestoreTypedStep DEF AtWork
  <2> QED
    BY <1>1, <2>1, RestoreTypedStep DEF AtWork, OneAtWork
<1> QED
  BY <1>2, <1>3

\* The dumps of restores are none of the other contents.
LEMMA SoundIsThere == Absent \notin SoundData /\ Part \notin SoundData /\ Restores \subseteq SoundData
BY DatabaseRestoreAssumption DEF SoundData, Original, Absent, Part

\* The data survives each step of a request that runs alone.
LEMMA DataStep ==
    ASSUME RestoreTyped, NEW r \in DatabaseRequests, DatabaseStep(r), OneFault', DataInOrder(r),
           task[r] = "idle" => database \in SoundData
    PROVE  /\ DataInOrder(r)'
           /\ task'[r] = "ended" => database' \in SoundData
<1>1. task \in [DatabaseRequests -> Tasks] /\ preRestore \in [DatabaseRequests -> Held]
  BY DEF RestoreTyped, RestoreTypeOK
<1>2. task[r] \in {"dropping", "creating", "loading", "copying"} => r \in Restores
  BY DEF RestoreTyped, StageFits
<1>3. /\ faults' = faults \cup {task[r]} =>
            /\ task[r] \notin {"dumping", "loading"}
            /\ HasFailed => task[r] \in {"dropping", "creating", "saving", "copying"}
            /\ task[r] \in {"dropping", "creating", "saving", "copying"} => HasFailed'
      /\ HasFailed => HasFailed'
  BY FaultsStay
<1>4. CASE StartRequest(r)
  BY <1>1, <1>4 DEF StartRequest, TaskGoto, DataInOrder
<1>5. CASE Dump(r)
  BY <1>1, <1>2, <1>3, <1>5, SoundIsThere
  DEF Dump, TaskGoto, Faulty, DataInOrder
<1>6. CASE Drop(r)
  BY <1>1, <1>2, <1>3, <1>6, SoundIsThere
  DEF Drop, TaskGoto, Faulty, DataInOrder
<1>7. CASE Create(r)
  BY <1>1, <1>2, <1>3, <1>7, SoundIsThere
  DEF Create, TaskGoto, Faulty, DataInOrder
<1>8. CASE LoadDump(r)
  BY <1>1, <1>2, <1>3, <1>8, SoundIsThere
  DEF LoadDump, TaskGoto, Faulty, DataInOrder
<1>9. CASE CheckPreRestore(r)
  BY <1>1, <1>2, <1>3, <1>9, SoundIsThere
  DEF CheckPreRestore, TaskGoto, Faulty, DataInOrder
<1>10. CASE Reload(r)
  BY <1>1, <1>2, <1>3, <1>10, SoundIsThere
  DEF Reload, TaskGoto, Faulty, DataInOrder
<1>11. CASE Close(r)
  BY <1>1, <1>2, <1>3, <1>11, SoundIsThere
  DEF Close, TaskGoto, Faulty, DataInOrder
<1>12. CASE SaveCopy(r)
  BY <1>1, <1>2, <1>3, <1>12, SoundIsThere
  DEF SaveCopy, TaskGoto, Faulty, DataInOrder
<1>13. CASE CopyDump(r)
  BY <1>1, <1>2, <1>3, <1>13, SoundIsThere
  DEF CopyDump, TaskGoto, Faulty, DataInOrder
<1>14. CASE PutBack(r)
  BY <1>1, <1>2, <1>3, <1>14, SoundIsThere
  DEF PutBack, TaskGoto, Faulty, DataInOrder
<1>15. CASE Connect(r)
  BY <1>1, <1>2, <1>3, <1>15, SoundIsThere
  DEF Connect, TaskGoto, Faulty, DataInOrder
<1>16. CASE Clean(r)
  BY <1>1, <1>2, <1>3, <1>16, SoundIsThere
  DEF Clean, TaskGoto, Faulty, DataInOrder
<1>17. CASE Migrate(r)
  BY <1>1, <1>2, <1>3, <1>17, SoundIsThere
  DEF Migrate, TaskGoto, Faulty, DataInOrder
<1> QED
  BY <1>4, <1>5, <1>6, <1>7, <1>8, <1>9, <1>10,
     <1>11, <1>12, <1>13, <1>14, <1>15, <1>16, <1>17 DEF DatabaseStep

LEMMA DataKeptStep ==
    ASSUME RestoreTyped, DataKept, NEW r \in DatabaseRequests, DatabaseStep(r)
    PROVE  DataKept'
<1>1. ~together' => OneAtWork'
  BY RunsAlone DEF DataKept
<1>2. ASSUME ~together', OneFault'
      PROVE  /\ (\A q \in DatabaseRequests : ~AtWork(q)') => database' \in SoundData
             /\ \A q \in DatabaseRequests : DataInOrder(q)'
  <2>1. /\ ~together
        /\ \A q \in DatabaseRequests \ {r} : ~AtWork(q) /\ ~AtWork(q)'
    BY <1>2, RunsAlone DEF DataKept
  <2>2. OneFault
    BY <1>2, FaultsStay
  <2>3. task[r] = "idle" => database \in SoundData
    BY <2>1, <2>2 DEF DataKept, AtWork
  <2>4. /\ DataInOrder(r)'
        /\ task'[r] = "ended" => database' \in SoundData
    BY <1>2, <2>1, <2>2, <2>3, DataStep DEF DataKept
  <2>5. ASSUME NEW q \in DatabaseRequests \ {r}
        PROVE  DataInOrder(q)'
    <3>1. task'[q] = task[q] /\ task[q] \in {"idle", "ended"}
      BY <2>1, RestoreTypedStep DEF AtWork
    <3>2. preRestore'[q] = preRestore[q]
      BY OthersBecome DEF RestoreTyped, RestoreTypeOK
    <3>3. DataInOrder(q)
      BY <2>1, <2>2 DEF DataKept
    <3> QED
      BY <3>1, <3>2, <3>3 DEF DataInOrder
  <2>6. task'[r] # "idle"
    BY RestoreTypedStep
  <2> QED
    BY <2>4, <2>5, <2>6 DEF AtWork
<1> QED
  BY <1>1, <1>2 DEF DataKept

\* One failure at most means: the same stage, whichever request it met.
LEMMA OneFaultOnly ==
    ASSUME IsFiniteSet(faults), Cardinality(faults) <= 1, faults \cap {"dumping", "loading"} = {}
    PROVE  OneFault
<1>1. Cardinality(faults) \in Nat
  BY FS_CardinalityType
<1>2. Cardinality(faults) = 0 \/ Cardinality(faults) = 1
  BY <1>1
<1>3. faults = {} \/ \E f : faults = {f}
  BY <1>2, FS_EmptySet, FS_Singleton
<1> QED
  BY <1>3 DEF OneFault

\* A single failure outside of pg_dump and pg_restore leaves the uploaded data or
\* those of before.
THEOREM DataSurvivesOneFault == RestoreSpec => []RestoredOrPutBack
<1>1. RestoreInit => DataKept /\ IsFiniteSet(faults)
  BY FS_EmptySet
  DEF RestoreInit, DataKept, OneAtWork, AtWork, DataInOrder, SoundData
<1>2. RestoreTyped /\ DataKept /\ [RestoreNext]_restoreVars => DataKept'
  <2>1. CASE UNCHANGED restoreVars
    BY <2>1 DEF restoreVars, DataKept, OneAtWork, AtWork, DataInOrder, HasFailed, OneFault
  <2> QED
    BY <2>1, DataKeptStep DEF RestoreNext, DatabaseStep
<1>3. IsFiniteSet(faults) /\ [RestoreNext]_restoreVars => IsFiniteSet(faults)'
  <2>1. CASE UNCHANGED restoreVars
    BY <2>1 DEF restoreVars
  <2>2. ASSUME IsFiniteSet(faults), NEW r \in DatabaseRequests, DatabaseStep(r)
        PROVE  IsFiniteSet(faults')
    <3>1. faults' = faults \/ faults' = faults \cup {task[r]}
      BY <2>2, OthersBecome
    <3>2. IsFiniteSet(faults \cup {task[r]})
      BY <2>2, FS_AddElement
    <3> QED
      BY <2>2, <3>1, <3>2
  <2> QED
    BY <2>1, <2>2 DEF RestoreNext, DatabaseStep
<1>4. DataKept /\ IsFiniteSet(faults) => RestoredOrPutBack
  BY OneFaultOnly DEF DataKept, RestoredOrPutBack, SoundData
<1> QED
  BY <1>1, <1>2, <1>3, <1>4, RestoreTypedHolds, PTL DEF RestoreSpec
=============================================================================

------------------------------- MODULE Progress -------------------------------
(***************************************************************************)
(* Progress of one user in one game: ProgressService                       *)
(* (src/src/modules/progresses/progress.service.ts) and the table progress *)
(* it keeps.  Rows of other users and games never meet these.              *)
(*                                                                         *)
(* Every request reads the row, or makes up an empty one, computes and then*)
(* saves the whole row; the requests of several clients interleave between *)
(* the read and the save.                                                  *)
(***************************************************************************)
EXTENDS Integers, FiniteSets

CONSTANTS
    Clients,        \* requests in flight
    MaxMinutes,     \* bound: minutes a request sets, adds or takes
    MaxProgresses,  \* bound: ids of the table
    MaxRequests     \* bound: requests begun

ProgressIds == 1 .. MaxProgresses

\* PLAYING stands for PLAYING, ABORTED_TEMPORARY and ABORTED_PERMANENT, which
\* the code treats alike; COMPLETED for COMPLETED and INFINITE.
States == {"UNPLAYED", "PLAYING", "COMPLETED"}
NoState == "no state"

ASSUME ProgressAssumption ==
    /\ MaxMinutes \in Nat
    /\ MaxProgresses \in Nat \ {0}
    /\ MaxRequests \in Nat

VARIABLES
    progress,       \* table progress
    preq,           \* requests in flight
    credited,       \* history: minutes added by increments, highest minutes set
    begun           \* requests begun so far

progressVars == <<progress, preq, credited, begun>>

\* A removed row is gone from the table; its id is not used again.
ProgressRow == [st : {"none", "active", "deleted", "removed"}, minutes : Int, state : States]
NoProgress == [st |-> "none", minutes |-> 0, state |-> "UNPLAYED"]

\* id: row that was read, 0 for the empty progress that has no row yet; added,
\* set: what the request asks for; current: history, nobody wrote since the read.
IdleClient == [pc |-> "idle", id |-> 0, minutes |-> 0, state |-> "UNPLAYED",
               added |-> 0, set |-> 0, current |-> TRUE]
ClientType == [pc : {"idle", "save", "remove", "softRemove"}, id : 0 .. MaxProgresses,
               minutes : Int, state : States, added : Int, set : Int, current : BOOLEAN]

ProgressTypeOK ==
    /\ progress \in [ProgressIds -> ProgressRow]
    /\ preq \in [Clients -> ClientType]
    /\ credited \in [added : Nat, set : Nat]
    /\ begun \in 0 .. MaxRequests

ProgressInit ==
    /\ progress = [i \in ProgressIds |-> NoProgress]
    /\ preq = [c \in Clients |-> IdleClient]
    /\ credited = [added |-> 0, set |-> 0]
    /\ begun = 0

ActiveProgress == {i \in ProgressIds : progress[i].st = "active"}

\* findOneByUserIdAndGameIdOrReturnEmptyProgress: any active row, else an empty
\* progress.
Read ==
    IF ActiveProgress = {} THEN {IdleClient}
    ELSE {[IdleClient EXCEPT !.id = i, !.minutes = progress[i].minutes,
                             !.state = progress[i].state] : i \in ActiveProgress}

BeginRequest(c, client) ==
    /\ preq[c].pc = "idle"
    /\ begun < MaxRequests
    /\ begun' = begun + 1
    /\ preq' = [preq EXCEPT ![c] = client]
    /\ UNCHANGED <<progress, credited>>

\* Playing time moves a game that is not finished to PLAYING.
Played(state) == IF state = "COMPLETED" THEN state ELSE "PLAYING"

(***************************************************************************)
(* set(state, minutes).                                                    *)
(***************************************************************************)

\* A game set to UNPLAYED that has no minutes, old or new, loses its row.
Empties(p, state) == state = "UNPLAYED" /\ p.id # 0 /\ p.minutes = 0

SetUnplayed(c) ==
    \E p \in Read :
        /\ Empties(p, "UNPLAYED")
        /\ BeginRequest(c, [p EXCEPT !.pc = "remove", !.state = "UNPLAYED"])

\* A request without minutes: those of the row stand.
SetState(c, state) ==
    \E p \in Read :
        /\ ~Empties(p, state)
        /\ BeginRequest(c, [p EXCEPT !.pc = "save", !.state = state])

\* A request without a state keeps that of the row.
Saving(p, state, m) ==
    LET new == IF state = NoState THEN p.state ELSE state IN
    [p EXCEPT !.pc = "save", !.minutes = m, !.set = m,
              !.state = IF p.minutes = m THEN new ELSE Played(new)]

\* Mutant: fewer minutes than before are accepted.
SetMinutesFreely(c, state, m) ==
    \E p \in Read :
        /\ m = 0 => ~Empties(p, state)
        /\ BeginRequest(c, Saving(p, state, m))

\* Fewer minutes than before are refused.
SetMinutes(c, state, m) ==
    \E p \in Read :
        /\ m = 0 => ~Empties(p, state)
        /\ p.minutes <= m
        /\ BeginRequest(c, Saving(p, state, m))

\* Mutant: the minute being played is counted as well.
IncrementTwice(c, n) ==
    \E p \in Read :
        BeginRequest(c, [p EXCEPT !.pc = "save", !.minutes = @ + n + 1, !.added = n,
                                  !.state = Played(@)])

\* The validation of the route lets negative amounts through: they take minutes.
Increment(c, n) ==
    \E p \in Read :
        BeginRequest(c, [p EXCEPT !.pc = "save", !.minutes = @ + n, !.added = n,
                                  !.state = Played(@)])

\* deleteByUserIdAndGameId and deleteByProgressId.  Without a row there is
\* nothing to delete.
DeleteProgress(c) ==
    \E p \in Read :
        /\ p.id # 0
        /\ BeginRequest(c, [p EXCEPT !.pc = "softRemove"])

(***************************************************************************)
(* The write that ends a request.                                          *)
(***************************************************************************)
EndRequest(c) ==
    preq' = [k \in Clients |-> IF k = c THEN IdleClient
                               ELSE IF preq[k].pc = "idle" THEN IdleClient
                               ELSE [preq[k] EXCEPT !.current = FALSE]]

Larger(m, n) == IF m > n THEN m ELSE n

\* Saves the whole row: the empty progress gets a new one, a row that was
\* deleted or removed meanwhile comes back.
SaveProgress(c) ==
    /\ preq[c].pc = "save"
    /\ \E i \in ProgressIds :
          /\ IF preq[c].id # 0 THEN i = preq[c].id
             ELSE /\ progress[i].st = "none"
                  /\ \A j \in 1 .. i - 1 : progress[j].st # "none"
          /\ progress' = [progress EXCEPT ![i] =
                [st |-> "active", minutes |-> preq[c].minutes, state |-> preq[c].state]]
    /\ credited' = [added |-> credited.added + Larger(preq[c].added, 0),
                    set |-> Larger(preq[c].set, credited.set)]
    /\ EndRequest(c)
    /\ UNCHANGED begun

RemoveProgress(c) ==
    /\ preq[c].pc \in {"remove", "softRemove"}
    /\ progress' = [progress EXCEPT ![preq[c].id].st =
          IF preq[c].pc = "remove" THEN "removed"
          ELSE IF @ = "removed" THEN @ ELSE "deleted"]
    /\ EndRequest(c)
    /\ UNCHANGED <<credited, begun>>

ProgressNext ==
    \E c \in Clients :
        \/ SetUnplayed(c)
        \/ \E state \in States : SetState(c, state)
        \/ \E state \in States \cup {NoState}, m \in -MaxMinutes .. MaxMinutes :
              SetMinutes(c, state, m)
        \/ \E n \in -MaxMinutes .. MaxMinutes : Increment(c, n)
        \/ DeleteProgress(c)
        \/ SaveProgress(c)
        \/ RemoveProgress(c)

ProgressSpec == ProgressInit /\ [][ProgressNext]_progressVars

(***************************************************************************)
(* Properties.                                                             *)
(***************************************************************************)

\* No interleaving of requests credits a player with minutes nobody reported:
\* a row never holds more than the highest value set plus all positive increments.
NoInventedMinutes ==
    \A i \in ProgressIds : progress[i].minutes <= credited.set + credited.added

\* What a request asks a row to gain: an increment its amount, which may be
\* negative, on the row it read or on the new one; every other request nothing.
Asked(c, i) ==
    IF i = preq[c].id \/ progress[i].st = "none" THEN preq[c].added ELSE 0

\* The write of a request that read what is still current leaves no row with fewer
\* minutes than it had and was asked to gain, and removes a row only when it is
\* empty.  So minutes are taken by negative increments, and lost to requests that
\* overlap, by nothing else.
CurrentRequestsAreSafe ==
    [][\A c \in Clients, i \in ProgressIds :
        preq[c].pc # "idle" /\ preq'[c].pc = "idle" /\ preq[c].current =>
          /\ progress'[i].st = "active"
                => progress[i].minutes + Asked(c, i) <= progress'[i].minutes
          /\ progress'[i].st = "removed" /\ progress[i].st # "removed"
                => progress[i].minutes = 0]_progressVars
=============================================================================

------------------------------ MODULE Transfers -------------------------------
(***************************************************************************)
(* Bytes on their way: FilesService.download from the choice of a version  *)
(* to the stream, with calculateRange (src/src/modules/games/              *)
(* files.service.ts).  A client puts one file together from the answers to *)
(* several requests: one after another when connections break, or several  *)
(* segments at once.  The versions here are archives; folders that are     *)
(* packed first are in Downloads.                                          *)
(***************************************************************************)
EXTENDS Integers, FiniteSets

CONSTANTS
    Transmissions,  \* requests of one client for one game
    FileVersions,   \* versions of the game
    SizeOf,         \* SizeOf[v]: bytes in the file of version v
    PlaceOf,        \* PlaceOf[v]: place of v in the order of versions, best first
    Largest,        \* bytes in the largest file
    MaxStoreChanges \* bound: times a version comes or goes

ASSUME TransfersAssumption ==
    /\ Largest \in Nat
    /\ SizeOf \in [FileVersions -> 1 .. Largest]
    /\ PlaceOf \in [FileVersions -> Nat]
    /\ \A v, w \in FileVersions : PlaceOf[v] = PlaceOf[w] => v = w
    /\ MaxStoreChanges \in Nat

VARIABLES
    offered,        \* versions whose file is on the volume
    wanted,         \* the version the client names, none for the latest
    transmission,   \* the requests
    assembled,      \* what the client has at each offset
    storeChanges,   \* changes so far
    latestMoved     \* history: the latest version was another than before

transferVars == <<offered, wanted, transmission, assembled, storeChanges, latestMoved>>

Offsets == 0 .. Largest - 1
NotGiven == -1      \* the end, where the header leaves it out
Byte == [version : FileVersions, at : Offsets]

\* place: where the client puts the next byte; next and last: what is left to read.
Transmission == [pc : {"new", "streaming", "ended"},
                 sends : {{}} \cup {{v} : v \in FileVersions}, place : Nat,
                 next : 0 .. Largest, last : Offsets]
NotSent == [pc |-> "new", sends |-> {}, place |-> 0, next |-> 0, last |-> 0]

TransfersTypeOK ==
    /\ offered \subseteq FileVersions
    /\ wanted = {} \/ \E v \in FileVersions : wanted = {v}
    /\ transmission \in [Transmissions -> Transmission]
    /\ \A o \in DOMAIN assembled : assembled[o] \in Byte
    /\ storeChanges \in 0 .. MaxStoreChanges
    /\ latestMoved \in BOOLEAN

TransfersInit ==
    /\ offered \in (SUBSET FileVersions) \ {{}}
    /\ wanted \in {{}} \cup {{v} : v \in FileVersions}
    /\ transmission = [d \in Transmissions |-> NotSent]
    /\ assembled = [o \in {} |-> NotSent]
    /\ storeChanges = 0
    /\ latestMoved = FALSE

\* The file of a version comes or goes.  Streams that are open go on.
ChangeStore ==
    /\ storeChanges < MaxStoreChanges
    /\ storeChanges' = storeChanges + 1
    /\ \E v \in FileVersions : offered' = (offered \ {v}) \cup ({v} \ offered)
    /\ UNCHANGED <<wanted, transmission, assembled, latestMoved>>

LatestVersion == {v \in offered : \A w \in offered : PlaceOf[v] <= PlaceOf[w]}

\* Mutant: a version that is gone is replaced by the latest.
ChosenOrLatest == IF wanted \cap offered = {} THEN LatestVersion ELSE wanted

\* resolveDownloadVersion, or resolveLatestDownloadVersion when the client names
\* no version; none when the request fails.
Chosen == IF wanted = {} THEN LatestVersion ELSE wanted \cap offered

\* calculateRange: a bound that does not fit the file is ignored.
RangeStart(start, size) == IF start < size THEN start ELSE 0
RangeEnd(start, end, size) ==
    IF end # NotGiven /\ end < size /\ end >= RangeStart(start, size) THEN end ELSE size - 1

\* The versions the client has been sent.
Sent == UNION {transmission[d].sends : d \in Transmissions}

\* download opens the stream.  The client asks for all of the file, the rest of
\* it or a segment, from an offset inside the file it knows of.
OpenStream(d) ==
    /\ transmission[d].pc = "new"
    /\ \E v \in Chosen, start \in Offsets, end \in Offsets \cup {NotGiven} :
          /\ \A w \in (IF Sent = {} THEN {v} ELSE Sent) : start < SizeOf[w]
          /\ transmission' = [transmission EXCEPT ![d] =
                [pc |-> "streaming", sends |-> {v}, place |-> start,
                 next |-> RangeStart(start, SizeOf[v]),
                 last |-> RangeEnd(start, end, SizeOf[v])]]
          /\ latestMoved' = (latestMoved \/ (wanted = {} /\ ~(Sent \subseteq {v})))
    /\ UNCHANGED <<offered, wanted, assembled, storeChanges>>

\* 404
Refuse(d) ==
    /\ transmission[d].pc = "new"
    /\ Chosen = {}
    /\ transmission' = [transmission EXCEPT ![d].pc = "ended"]
    /\ UNCHANGED <<offered, wanted, assembled, storeChanges, latestMoved>>

\* A byte arrives, and the client puts it behind the one before it.
Receive(d) ==
    LET t == transmission[d] IN
    /\ t.pc = "streaming" /\ t.next <= t.last
    /\ \E v \in t.sends :
          assembled' = [o \in DOMAIN assembled \cup {t.place} |->
             IF o = t.place THEN [version |-> v, at |-> t.next] ELSE assembled[o]]
    /\ transmission' = [transmission EXCEPT ![d].place = @ + 1, ![d].next = @ + 1]
    /\ UNCHANGED <<offered, wanted, storeChanges, latestMoved>>

\* The stream ends, or the connection breaks.
CloseStream(d) ==
    /\ transmission[d].pc = "streaming"
    /\ transmission' = [transmission EXCEPT ![d] =
          [NotSent EXCEPT !.pc = "ended", !.sends = transmission[d].sends]]
    /\ UNCHANGED <<offered, wanted, assembled, storeChanges, latestMoved>>

TransfersNext ==
    \/ ChangeStore
    \/ \E d \in Transmissions : OpenStream(d) \/ Refuse(d) \/ Receive(d) \/ CloseStream(d)

TransfersSpec == TransfersInit /\ [][TransfersNext]_transferVars

(***************************************************************************)
(* Properties.                                                             *)
(***************************************************************************)

\* What a client puts together from any segments, after any number of broken
\* connections, is one file with every byte in its place, while versions come
\* and go; only a client that names no version, and is sent the next one after
\* the latest has changed, mixes two.
AssembledIsOneFile ==
    latestMoved \/ \E v \in FileVersions : \A o \in DOMAIN assembled :
        assembled[o] = [version |-> v, at |-> o]
=============================================================================

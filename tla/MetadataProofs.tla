---------------------------- MODULE MetadataProofs ----------------------------
(***************************************************************************)
(* What games and accounts show: pictures, with the collector of those that*)
(* nobody uses, and the merged metadata of a game.  Proved for any number  *)
(* of pictures, accounts, collectors, requests, providers and restarts.    *)
(***************************************************************************)
EXTENDS Media, Metadata, FiniteSetTheorems, TLAPS

(***************************************************************************)
(* Media.                                                                  *)
(***************************************************************************)

\* Media that anybody holds have been rows; one whose file is to be removed is
\* not a row any more, and none is saved twice.
SavedOnce ==
    /\ \A m \in Pictures : m \in rows => upl[m] = "ended"
    /\ \A m \in Pictures : upl[m] = "moved" => m \in files
    /\ \A l \in Lookups : \A m \in look[l].picture :
          /\ upl[m] = "ended"
          /\ look[l].pc = "unlinking" => m \notin rows
    /\ \A g \in Collections :
          /\ \A m \in gc[g].all \cup gc[g].removed : upl[m] = "ended"
          /\ gc[g].doomed \subseteq gc[g].all
          /\ gc[g].removed \cap rows = {}
          /\ gc[g].pc = "new" => gc[g].doomed = {}

\* What a request deletes has lost its file, and what a collector removes is the
\* picture of nobody, but of those who got it while it was being judged.
JudgedUnused ==
    /\ \A l \in Lookups : look[l].pc = "missing" => look[l].picture \subseteq lost
    /\ \A g \in Collections : \A u \in accounts \ late :
          /\ gc[g].pc = "metadata" => avatar[u] \cap gc[g].all \subseteq gc[g].used
          /\ gc[g].pc = "removing" => avatar[u] \cap gc[g].doomed = {}

MediaInv ==
    MediaTypeOK /\ SavedOnce /\ RowsHaveFiles /\ JudgedUnused /\ AccountsOutliveCollections

LEMMA NewMediaTypes ==
    /\ NewCollection \in Collection /\ EndedCollection \in Collection
    /\ NewCollection.all = {} /\ NewCollection.doomed = {} /\ NewCollection.removed = {}
    /\ EndedCollection.all = {} /\ EndedCollection.doomed = {} /\ EndedCollection.removed = {}
    /\ NewCollection.pc = "new" /\ EndedCollection.pc = "ended"
    /\ NewLookup \in Lookup /\ EndedLookup \in Lookup
    /\ NewLookup.picture = {} /\ EndedLookup.picture = {}
    /\ NewLookup.pc = "new" /\ EndedLookup.pc = "ended"
BY DEF NewCollection, EndedCollection, Collection, NewLookup, EndedLookup, Lookup

LEMMA MediaInitInv ==
    ASSUME MediaInit PROVE MediaInv
<1>1. /\ rows = {} /\ files = {} /\ accounts = Accounts /\ softDeleted = {}
      /\ avatar = [u \in Accounts |-> {}] /\ cover = [c \in Covers |-> {}]
      /\ upl = [m \in Pictures |-> "new"]
      /\ gc = [g \in Collections |-> NewCollection]
      /\ look = [l \in Lookups |-> NewLookup]
      /\ restarts = 0 /\ lost = {} /\ late = {}
  BY DEF MediaInit
<1>2. 0 \in 0 .. MaxMediaRestarts
  BY MediaAssumption
<1>3. MediaTypeOK
  BY <1>1, <1>2, NewMediaTypes DEF MediaTypeOK
<1>4. SavedOnce /\ RowsHaveFiles
  BY <1>1, NewMediaTypes DEF SavedOnce, RowsHaveFiles
<1>5. JudgedUnused /\ AccountsOutliveCollections
  BY <1>1, NewMediaTypes DEF JudgedUnused, AccountsOutliveCollections
<1> QED
  BY <1>3, <1>4, <1>5 DEF MediaInv

\* What every step starts from.
LEMMA MediaFacts ==
    ASSUME MediaInv
    PROVE  /\ rows \subseteq Pictures /\ files \subseteq Pictures
           /\ accounts \subseteq Accounts /\ softDeleted \subseteq Accounts
           /\ \A u \in Accounts : avatar[u] = {} \/ \E m \in Pictures : avatar[u] = {m}
           /\ \A c \in Covers : cover[c] = {} \/ \E m \in Pictures : cover[c] = {m}
           /\ avatar \in [Accounts -> {{}} \cup {{m} : m \in Pictures}]
           /\ cover \in [Covers -> {{}} \cup {{m} : m \in Pictures}]
           /\ \A u \in accounts : avatar[u] \subseteq rows
           /\ \A c \in Covers : cover[c] \subseteq rows
           /\ upl \in [Pictures -> {"new", "moved", "ended"}]
           /\ gc \in [Collections -> Collection] /\ look \in [Lookups -> Lookup]
           /\ \A g \in Collections : /\ gc[g].all \subseteq Pictures
                                     /\ gc[g].used \subseteq Pictures
                                     /\ gc[g].doomed \subseteq Pictures
                                     /\ gc[g].removed \subseteq Pictures
           /\ \A l \in Lookups :
                 look[l].picture = {} \/ \E m \in Pictures : look[l].picture = {m}
           /\ lost \subseteq Pictures /\ late \subseteq Accounts
<1>1. MediaTypeOK
  BY DEF MediaInv
<1>2. \A g \in Collections : gc[g] \in Collection
  BY <1>1 DEF MediaTypeOK
<1>3. \A l \in Lookups : look[l] \in Lookup
  BY <1>1 DEF MediaTypeOK
<1> QED
  BY <1>1, <1>2, <1>3 DEF MediaTypeOK, Collection, Lookup

\* A row that goes takes the accounts it portrays with it; the caller knows
\* that they are late, or that its file had disappeared.
LEMMA DeletedRow ==
    ASSUME MediaInv, NEW m \in Pictures, Removable(m), DeleteRow(m)
    PROVE  /\ rows' = rows \ {m} /\ accounts' \subseteq accounts
           /\ UNCHANGED <<softDeleted, avatar, cover>>
           /\ \A u \in accounts' : avatar[u] \subseteq rows'
           /\ \A c \in Covers : cover[c] \subseteq rows'
           /\ \A u \in accounts \ accounts' : avatar[u] = {m}
<1>1. /\ rows' = rows \ {m} /\ accounts' = accounts \ Portrayed(m)
      /\ UNCHANGED <<softDeleted, avatar, cover>>
  BY DEF DeleteRow
<1>2. \A u \in accounts' : avatar[u] # {m} /\ avatar[u] \subseteq rows /\ u \in Accounts
  BY <1>1, MediaFacts DEF Portrayed
<1>3. \A u \in accounts' : m \notin avatar[u]
  BY <1>2, MediaFacts
<1>4. \A c \in Covers : m \notin cover[c]
  BY MediaFacts DEF Removable
<1>5. \A u \in accounts \ accounts' : avatar[u] = {m}
  BY <1>1 DEF Portrayed
<1> QED
  BY <1>1, <1>2, <1>3, <1>4, <1>5, MediaFacts

LEMMA UploadSteps ==
    ASSUME MediaInv, NEW m \in Pictures, MoveFile(m) \/ SaveMedium(m) \/ LoseFile(m)
    PROVE  MediaInv'
<1>0. /\ SavedOnce /\ RowsHaveFiles /\ JudgedUnused /\ AccountsOutliveCollections
      /\ upl \in [Pictures -> {"new", "moved", "ended"}]
  BY MediaFacts DEF MediaInv
<1> USE DEF MediaInv, MediaTypeOK
<1>1. CASE MoveFile(m)
  <2>1. /\ files' = files \cup {m} /\ upl[m] = "new"
        /\ upl' = [upl EXCEPT ![m] = "moved"]
        /\ UNCHANGED <<rows, accounts, softDeleted, avatar, cover, gc, look, restarts, lost, late>>
    BY <1>1 DEF MoveFile, mediaHistory
  <2>2. \A n \in Pictures : upl'[n] = IF n = m THEN "moved" ELSE upl[n]
    BY <1>0, <2>1
  <2>3. MediaTypeOK'
    BY <2>1
  <2>4. SavedOnce'
    <3>1. \A g \in Collections : gc[g].all \cup gc[g].removed \subseteq Pictures
      BY MediaFacts
    <3>2. \A l \in Lookups : look[l].picture \subseteq Pictures
      BY MediaFacts
    <3> QED
      BY <1>0, <2>1, <2>2, <3>1, <3>2 DEF SavedOnce
  <2>5. RowsHaveFiles'
    BY <1>0, <2>1 DEF RowsHaveFiles
  <2>6. JudgedUnused' /\ AccountsOutliveCollections'
    BY <1>0, <2>1 DEF JudgedUnused, AccountsOutliveCollections
  <2> QED
    BY <2>3, <2>4, <2>5, <2>6
<1>2. CASE SaveMedium(m)
  <2>1. /\ upl[m] = "moved" /\ upl' = [upl EXCEPT ![m] = "ended"]
        /\ UNCHANGED <<accounts, softDeleted, avatar, cover, gc, look, restarts, lost, late>>
        /\ \/ rows' = rows \cup {m} /\ files' = files
           \/ files' \in {files, files \ {m}} /\ rows' = rows
    BY <1>2 DEF SaveMedium, mediaHistory
  <2>2. \A n \in Pictures : upl'[n] = IF n = m THEN "ended" ELSE upl[n]
    BY <1>0, <2>1
  <2>3. m \in files /\ m \notin rows
    BY <1>0, <2>1 DEF SavedOnce
  <2>4. MediaTypeOK'
    BY <2>1
  <2>5. SavedOnce'
    <3>1. \A g \in Collections : m \notin gc[g].removed
      BY <1>0, <2>1 DEF SavedOnce
    <3>2. \A l \in Lookups : m \notin look[l].picture
      BY <1>0, <2>1 DEF SavedOnce
    <3>3. \A g \in Collections : gc[g].all \cup gc[g].removed \subseteq Pictures
      BY MediaFacts
    <3>4. \A l \in Lookups : look[l].picture \subseteq Pictures
      BY MediaFacts
    <3> QED
      BY <1>0, <2>1, <2>2, <3>1, <3>2, <3>3, <3>4 DEF SavedOnce
  <2>6. RowsHaveFiles'
    BY <1>0, <2>1, <2>3 DEF RowsHaveFiles
  <2>7. JudgedUnused' /\ AccountsOutliveCollections'
    BY <1>0, <2>1 DEF JudgedUnused, AccountsOutliveCollections
  <2> QED
    BY <2>4, <2>5, <2>6, <2>7
<1>3. CASE LoseFile(m)
  <2>1. /\ m \in files /\ m \in rows /\ files' = files \ {m} /\ lost' = lost \cup {m}
        /\ UNCHANGED <<rows, accounts, softDeleted, avatar, cover, upl, gc, look, restarts, late>>
    BY <1>3 DEF LoseFile
  <2>2. MediaTypeOK'
    BY <2>1
  <2>3. SavedOnce'
    BY <1>0, <2>1 DEF SavedOnce
  <2>4. RowsHaveFiles'
    BY <1>0, <2>1 DEF RowsHaveFiles
  <2>5. JudgedUnused' /\ AccountsOutliveCollections'
    BY <1>0, <2>1 DEF JudgedUnused, AccountsOutliveCollections
  <2> QED
    BY <2>2, <2>3, <2>4, <2>5
<1> QED
  BY <1>1, <1>2, <1>3

\* A row goes, with a file that disappeared or a picture that nobody may use.
LEMMA RowGoes ==
    ASSUME MediaInv, NEW m \in Pictures, Removable(m), DeleteRow(m),
           \A u \in accounts \ late : avatar[u] = {m} => m \in lost,
           UNCHANGED <<files, lost, late>>
    PROVE  RowsHaveFiles' /\ AccountsOutliveCollections'
<1>1. /\ rows' = rows \ {m} /\ UNCHANGED avatar
      /\ \A u \in accounts \ accounts' : avatar[u] = {m}
  BY DeletedRow
<1> QED
  BY <1>1 DEF MediaInv, RowsHaveFiles, AccountsOutliveCollections

LEMMA LookupSteps ==
    ASSUME MediaInv, NEW l \in Lookups,
           FindMedium(l) \/ DeleteMissing(l) \/ UnlinkMissing(l)
    PROVE  MediaInv'
<1>0. /\ SavedOnce /\ RowsHaveFiles /\ JudgedUnused /\ AccountsOutliveCollections
      /\ look \in [Lookups -> Lookup]
  BY MediaFacts DEF MediaInv
<1> USE DEF MediaInv, MediaTypeOK
<1>1. CASE FindMedium(l)
  <2>1. PICK m \in rows :
           look' = [look EXCEPT ![l] =
              [pc |-> IF m \in files THEN "found" ELSE "missing", picture |-> {m}]]
    BY <1>1 DEF FindMedium
  <2>2. UNCHANGED <<rows, files, accounts, softDeleted, avatar, cover, upl, gc, restarts, lost, late>>
    BY <1>1 DEF FindMedium, tables, mediaHistory
  <2> DEFINE q == [pc |-> IF m \in files THEN "found" ELSE "missing", picture |-> {m}]
  <2>3. m \in Pictures /\ upl[m] = "ended" /\ (m \in files \/ m \in lost)
    BY <1>0, MediaFacts DEF SavedOnce, RowsHaveFiles
  <2>4. /\ q \in Lookup /\ q.picture = {m} /\ q.pc # "unlinking"
        /\ q.pc = "missing" => m \notin files
    BY <2>3 DEF Lookup
  <2> HIDE DEF q
  <2>5. /\ look' \in [Lookups -> Lookup]
        /\ \A k \in Lookups : look'[k] = IF k = l THEN q ELSE look[k]
    BY <1>0, <2>1, <2>4 DEF q
  <2>6. MediaTypeOK'
    BY <2>2, <2>5
  <2>7. SavedOnce'
    BY <1>0, <2>2, <2>3, <2>4, <2>5 DEF SavedOnce
  <2>8. RowsHaveFiles' /\ JudgedUnused' /\ AccountsOutliveCollections'
    BY <1>0, <2>2, <2>3, <2>4, <2>5
    DEF RowsHaveFiles, JudgedUnused, AccountsOutliveCollections
  <2> QED
    BY <2>6, <2>7, <2>8
<1>2. CASE DeleteMissing(l)
  <2>1. PICK m \in look[l].picture :
          IF Removable(m)
          THEN DeleteRow(m) /\ look' = [look EXCEPT ![l].pc = "unlinking"]
          ELSE /\ look' = [look EXCEPT ![l] = EndedLookup]
               /\ UNCHANGED <<rows, accounts, softDeleted, avatar, cover>>
    BY <1>2 DEF DeleteMissing
  <2>2. /\ look[l].pc = "missing"
        /\ UNCHANGED <<files, upl, gc, restarts, lost, late>>
    BY <1>2 DEF DeleteMissing, mediaHistory
  <2>3. m \in Pictures /\ look[l].picture = {m} /\ m \in lost /\ upl[m] = "ended"
    BY <1>0, <2>1, <2>2, MediaFacts DEF JudgedUnused, SavedOnce
  <2>4. CASE Removable(m)
    <3>1. DeleteRow(m) /\ look' = [look EXCEPT ![l].pc = "unlinking"]
      BY <2>1, <2>4
    <3>2. /\ rows' = rows \ {m} /\ accounts' \subseteq accounts
          /\ UNCHANGED <<softDeleted, avatar, cover>>
          /\ \A u \in accounts' : avatar[u] \subseteq rows'
          /\ \A c \in Covers : cover[c] \subseteq rows'
      BY <2>3, <2>4, <3>1, DeletedRow
    <3>3. /\ look' \in [Lookups -> Lookup]
          /\ \A k \in Lookups : /\ look'[k].picture = look[k].picture
                                /\ look'[k].pc = IF k = l THEN "unlinking" ELSE look[k].pc
      BY <1>0, <3>1 DEF Lookup
    <3>4. MediaTypeOK'
      BY <2>2, <3>2, <3>3
    <3>5. SavedOnce'
      BY <1>0, <2>2, <2>3, <3>2, <3>3 DEF SavedOnce
    <3>6. RowsHaveFiles' /\ AccountsOutliveCollections'
      BY <2>2, <2>3, <2>4, <3>1, RowGoes
    <3>7. JudgedUnused'
      BY <1>0, <2>2, <3>2, <3>3 DEF JudgedUnused
    <3> QED
      BY <3>4, <3>5, <3>6, <3>7
  <2>5. CASE ~Removable(m)
    <3>1. /\ look' \in [Lookups -> Lookup]
          /\ \A k \in Lookups : look'[k] = IF k = l THEN EndedLookup ELSE look[k]
          /\ UNCHANGED <<rows, accounts, softDeleted, avatar, cover>>
      BY <1>0, <2>1, <2>5, NewMediaTypes
    <3>2. MediaTypeOK'
      BY <2>2, <3>1
    <3> QED
      BY <1>0, <2>2, <3>1, <3>2, NewMediaTypes
      DEF SavedOnce, RowsHaveFiles, JudgedUnused, AccountsOutliveCollections
  <2> QED
    BY <2>4, <2>5
<1>3. CASE UnlinkMissing(l)
  <2>1. /\ look[l].pc = "unlinking" /\ files' = files \ look[l].picture
        /\ look' = [look EXCEPT ![l] = EndedLookup]
        /\ UNCHANGED <<rows, accounts, softDeleted, avatar, cover, upl, gc, restarts, lost, late>>
    BY <1>3 DEF UnlinkMissing, mediaHistory
  <2>2. /\ look' \in [Lookups -> Lookup]
        /\ \A k \in Lookups : look'[k] = IF k = l THEN EndedLookup ELSE look[k]
    BY <1>0, <2>1, NewMediaTypes
  <2>3. \A m \in look[l].picture : m \notin rows /\ upl[m] = "ended"
    BY <1>0, <2>1 DEF SavedOnce
  <2>4. MediaTypeOK'
    BY <2>1, <2>2
  <2>5. SavedOnce'
    BY <1>0, <2>1, <2>2, <2>3, NewMediaTypes DEF SavedOnce
  <2>6. RowsHaveFiles' /\ JudgedUnused' /\ AccountsOutliveCollections'
    BY <1>0, <2>1, <2>2, <2>3, NewMediaTypes
    DEF RowsHaveFiles, JudgedUnused, AccountsOutliveCollections
  <2> QED
    BY <2>4, <2>5, <2>6
<1> QED
  BY <1>1, <1>2, <1>3

LEMMA SetAvatarStep ==
    ASSUME MediaInv, NEW l \in Lookups, NEW u \in Accounts, SetAvatar(l, u) PROVE MediaInv'
<1>0. /\ SavedOnce /\ RowsHaveFiles /\ JudgedUnused /\ AccountsOutliveCollections
      /\ look \in [Lookups -> Lookup]
  BY MediaFacts DEF MediaInv
<1>1. /\ u \in accounts /\ look' = [look EXCEPT ![l] = EndedLookup]
      /\ UNCHANGED <<rows, files, accounts, softDeleted, cover, upl, gc, restarts, lost>>
  BY DEF SetAvatar
<1>2. /\ look' \in [Lookups -> Lookup]
      /\ \A k \in Lookups : look'[k] = IF k = l THEN EndedLookup ELSE look[k]
  BY <1>0, <1>1, NewMediaTypes
<1>3. SavedOnce' /\ RowsHaveFiles'
  BY <1>0, <1>1, <1>2, NewMediaTypes DEF SavedOnce, RowsHaveFiles
<1>4. \A k \in Lookups : look'[k].pc = "missing" => look'[k].picture \subseteq lost'
  BY <1>0, <1>1, <1>2, NewMediaTypes DEF JudgedUnused
<1>5. CASE UNCHANGED <<avatar, late>>
  <2>1. MediaTypeOK'
    BY <1>1, <1>2, <1>5 DEF MediaInv, MediaTypeOK
  <2>2. JudgedUnused' /\ AccountsOutliveCollections'
    BY <1>0, <1>1, <1>4, <1>5 DEF JudgedUnused, AccountsOutliveCollections
  <2> QED
    BY <1>3, <2>1, <2>2 DEF MediaInv
<1>6. ASSUME look[l].picture \subseteq rows,
             avatar' = [avatar EXCEPT ![u] = look[l].picture],
             late' = IF \E m \in look[l].picture : BeingJudged(m) THEN late \cup {u} ELSE late
      PROVE  MediaInv'
  <2>1. \A v \in Accounts : avatar'[v] = IF v = u THEN look[l].picture ELSE avatar[v]
    BY <1>6, MediaFacts
  <2>2. look[l].picture \in {{}} \cup {{m} : m \in Pictures}
    BY MediaFacts
  <2>3. /\ avatar' \in [Accounts -> {{}} \cup {{m} : m \in Pictures}]
        /\ late' \subseteq Accounts /\ late \subseteq late'
    BY <1>6, <2>2, MediaFacts
  <2>4. MediaTypeOK'
    BY <1>1, <1>2, <1>6, <2>1, <2>3 DEF MediaInv, MediaTypeOK
  <2>5. ASSUME NEW g \in Collections, NEW v \in accounts \ late'
        PROVE  /\ gc[g].pc = "metadata" => avatar'[v] \cap gc[g].all \subseteq gc[g].used
               /\ gc[g].pc = "removing" => avatar'[v] \cap gc[g].doomed = {}
    <3>1. CASE v # u
      BY <1>0, <2>1, <2>3, <3>1, MediaFacts DEF JudgedUnused
    <3>2. CASE v = u
      <4>1. ~\E m \in look[l].picture : BeingJudged(m)
        BY <1>6, <3>2
      <4>2. gc[g].pc \in {"metadata", "removing"} => look[l].picture \cap gc[g].all = {}
        BY <4>1 DEF BeingJudged
      <4>3. gc[g].doomed \subseteq gc[g].all
        BY <1>0 DEF SavedOnce
      <4> QED
        BY <2>1, <3>2, <4>2, <4>3
    <3> QED
      BY <3>1, <3>2
  <2>6. JudgedUnused'
    BY <1>1, <1>4, <2>5 DEF JudgedUnused
  <2>7. AccountsOutliveCollections'
    BY <1>0, <1>1, <2>1, <2>3 DEF AccountsOutliveCollections
  <2> QED
    BY <1>3, <2>4, <2>6, <2>7 DEF MediaInv
<1> QED
  BY <1>5, <1>6 DEF SetAvatar

LEMMA OtherMediaSteps ==
    ASSUME MediaInv
    PROVE  /\ \A l \in Lookups, c \in Covers : SetCover(l, c) => MediaInv'
           /\ \A c \in Covers : DropCover(c) => MediaInv'
           /\ \A u \in Accounts : SoftDeleteAccount(u) => MediaInv'
           /\ RestartMedia => MediaInv'
<1>0. /\ MediaTypeOK /\ SavedOnce /\ RowsHaveFiles /\ JudgedUnused
      /\ AccountsOutliveCollections
  BY DEF MediaInv
<1> USE DEF MediaInv
<1>1. ASSUME NEW l \in Lookups, NEW c \in Covers, SetCover(l, c) PROVE MediaInv'
  <2>1. /\ look' = [look EXCEPT ![l] = EndedLookup]
        /\ cover' = IF look[l].picture \subseteq rows
                    THEN [cover EXCEPT ![c] = look[l].picture] ELSE cover
        /\ UNCHANGED <<rows, files, accounts, softDeleted, avatar, upl, gc, restarts, lost, late>>
    BY <1>1 DEF SetCover, mediaHistory
  <2>2. /\ look' \in [Lookups -> Lookup]
        /\ \A k \in Lookups : look'[k] = IF k = l THEN EndedLookup ELSE look[k]
    BY <2>1, MediaFacts, NewMediaTypes
  <2>3. look[l].picture \in {{}} \cup {{m} : m \in Pictures}
    BY MediaFacts
  <2>4. /\ cover' \in [Covers -> {{}} \cup {{m} : m \in Pictures}]
        /\ \A d \in Covers : cover'[d] \subseteq rows
    BY <2>1, <2>3, MediaFacts
  <2>5. MediaTypeOK'
    BY <1>0, <2>1, <2>2, <2>4 DEF MediaTypeOK
  <2> QED
    BY <1>0, <2>1, <2>2, <2>5, NewMediaTypes
    DEF SavedOnce, RowsHaveFiles, JudgedUnused, AccountsOutliveCollections
<1>2. ASSUME NEW c \in Covers, DropCover(c) PROVE MediaInv'
  <2>1. /\ cover' = [cover EXCEPT ![c] = {}]
        /\ UNCHANGED <<rows, files, accounts, softDeleted, avatar, upl, gc, look, restarts, lost,
                       late>>
    BY <1>2 DEF DropCover, mediaHistory
  <2>2. /\ cover' \in [Covers -> {{}} \cup {{m} : m \in Pictures}]
        /\ \A d \in Covers : cover'[d] \subseteq rows
    BY <2>1, MediaFacts
  <2>3. MediaTypeOK'
    BY <1>0, <2>1, <2>2 DEF MediaTypeOK
  <2> QED
    BY <1>0, <2>1, <2>3
    DEF SavedOnce, RowsHaveFiles, JudgedUnused, AccountsOutliveCollections
<1>3. ASSUME NEW u \in Accounts, SoftDeleteAccount(u) PROVE MediaInv'
  BY <1>0, <1>3 DEF SoftDeleteAccount, mediaHistory, MediaTypeOK,
     SavedOnce, RowsHaveFiles, JudgedUnused, AccountsOutliveCollections
<1>4. ASSUME RestartMedia PROVE MediaInv'
  <2>1. /\ restarts' = restarts + 1 /\ restarts < MaxMediaRestarts
        /\ upl' = [m \in Pictures |-> IF upl[m] = "new" THEN "new" ELSE "ended"]
        /\ gc' = [g \in Collections |-> IF gc[g].pc = "new" THEN gc[g] ELSE EndedCollection]
        /\ look' = [l \in Lookups |-> IF look[l].pc = "new" THEN look[l] ELSE EndedLookup]
        /\ UNCHANGED <<rows, files, accounts, softDeleted, avatar, cover, lost, late>>
    BY <1>4 DEF RestartMedia, tables
  <2>2. restarts' \in 0 .. MaxMediaRestarts
    BY <1>0, <2>1, MediaAssumption DEF MediaTypeOK
  <2>3. /\ upl' \in [Pictures -> {"new", "moved", "ended"}]
        /\ gc' \in [Collections -> Collection] /\ look' \in [Lookups -> Lookup]
    BY <2>1, MediaFacts, NewMediaTypes
  <2>4. MediaTypeOK'
    BY <1>0, <2>1, <2>2, <2>3 DEF MediaTypeOK
  <2>5. SavedOnce'
    <3>1. \A m \in Pictures : upl[m] = "ended" => upl'[m] = "ended"
      BY <2>1
    <3>2. \A m \in Pictures : upl'[m] # "moved"
      BY <2>1
    <3>3. \A l \in Lookups : look'[l] = look[l] \/ look'[l] = EndedLookup
      BY <2>1
    <3>4. \A g \in Collections : gc'[g] = gc[g] \/ gc'[g] = EndedCollection
      BY <2>1
    <3>5. \A l \in Lookups : look[l].picture \subseteq Pictures
      BY MediaFacts
    <3>6. \A g \in Collections : gc[g].all \cup gc[g].removed \subseteq Pictures
      BY MediaFacts
    <3>7. \A l \in Lookups : \A m \in look'[l].picture :
             upl'[m] = "ended" /\ (look'[l].pc = "unlinking" => m \notin rows)
      BY <1>0, <3>1, <3>3, <3>5, NewMediaTypes DEF SavedOnce
    <3>8. \A g \in Collections :
             /\ \A m \in gc'[g].all \cup gc'[g].removed : upl'[m] = "ended"
             /\ gc'[g].doomed \subseteq gc'[g].all
             /\ gc'[g].removed \cap rows = {}
             /\ gc'[g].pc = "new" => gc'[g].doomed = {}
      BY <1>0, <3>1, <3>4, <3>6, NewMediaTypes DEF SavedOnce
    <3> QED
      BY <1>0, <2>1, <3>1, <3>2, <3>7, <3>8 DEF SavedOnce
  <2>6. RowsHaveFiles' /\ AccountsOutliveCollections'
    BY <1>0, <2>1 DEF RowsHaveFiles, AccountsOutliveCollections
  <2>7. JudgedUnused'
    <3>1. \A l \in Lookups : look'[l].pc # "missing"
      BY <2>1, NewMediaTypes
    <3>2. \A g \in Collections : gc'[g].pc \notin {"metadata", "removing"}
      BY <2>1, NewMediaTypes
    <3> QED
      BY <3>1, <3>2 DEF JudgedUnused
  <2> QED
    BY <2>4, <2>5, <2>6, <2>7
<1> QED
  BY <1>1, <1>2, <1>3, <1>4

\* A collector goes on: it leaves the tables alone, judges media that were rows,
\* and counts as used what the accounts use.
LEMMA CollectorMoves ==
    ASSUME MediaInv, NEW g \in Collections, gc' = [gc EXCEPT ![g] = gc'[g]],
           gc'[g] \in Collection, gc'[g].pc # "new",
           \A m \in gc'[g].all \cup gc'[g].removed : upl[m] = "ended",
           gc'[g].doomed \subseteq gc'[g].all, gc'[g].removed \cap rows = {},
           \A u \in accounts \ late :
              /\ gc'[g].pc = "metadata" => avatar[u] \cap gc'[g].all \subseteq gc'[g].used
              /\ gc'[g].pc = "removing" => avatar[u] \cap gc'[g].doomed = {},
           files' \subseteq files, files \cap rows \subseteq files',
           \A m \in Pictures : upl[m] = "moved" => m \in files',
           UNCHANGED <<rows, accounts, softDeleted, avatar, cover, upl, look, mediaHistory>>
    PROVE  MediaInv'
<1>0. /\ MediaTypeOK /\ SavedOnce /\ RowsHaveFiles /\ JudgedUnused
      /\ AccountsOutliveCollections
  BY DEF MediaInv
<1>1. UNCHANGED <<rows, accounts, softDeleted, avatar, cover, upl, look, restarts, lost, late>>
  BY DEF mediaHistory
<1>2. /\ gc' \in [Collections -> Collection]
      /\ \A h \in Collections : h # g => gc'[h] = gc[h]
  BY MediaFacts
<1>3. MediaTypeOK'
  BY <1>0, <1>1, <1>2, MediaFacts DEF MediaTypeOK
<1>4. SavedOnce'
  BY <1>0, <1>1, <1>2 DEF SavedOnce
<1>5. RowsHaveFiles'
  BY <1>0, <1>1 DEF RowsHaveFiles
<1>6. JudgedUnused'
  BY <1>0, <1>1, <1>2 DEF JudgedUnused
<1>7. AccountsOutliveCollections'
  BY <1>0, <1>1 DEF AccountsOutliveCollections
<1> QED
  BY <1>3, <1>4, <1>5, <1>6, <1>7 DEF MediaInv

\* What the collector has read is in use or late; what it leaves out is neither.
LEMMA ReadingSteps ==
    ASSUME MediaInv, NEW g \in Collections, ReadMedia(g) \/ ReadUsers(g) \/ ReadMetadata(g)
    PROVE  MediaInv'
<1>0. /\ SavedOnce /\ JudgedUnused /\ gc[g] \in Collection
      /\ gc \in [Collections -> Collection]
  BY MediaFacts DEF MediaInv
<1>1. /\ UNCHANGED <<rows, files, accounts, softDeleted, avatar, cover, upl, look, mediaHistory>>
      /\ \A m \in Pictures : upl[m] = "moved" => m \in files
      /\ files' \subseteq files /\ files \cap rows \subseteq files'
  BY <1>0 DEF ReadMedia, ReadUsers, ReadMetadata, tables, SavedOnce
<1>2. /\ \A m \in gc[g].all \cup gc[g].removed : upl[m] = "ended"
      /\ gc[g].doomed \subseteq gc[g].all /\ gc[g].removed \cap rows = {}
  BY <1>0 DEF SavedOnce
<1>3. CASE ReadMedia(g)
  <2>1. gc' = [gc EXCEPT ![g].pc = "users", ![g].all = rows] /\ gc[g].pc = "new"
    BY <1>3 DEF ReadMedia
  <2>2. gc' = [gc EXCEPT ![g] = gc'[g]]
    BY <1>0, <2>1
  <2>3. /\ gc'[g] \in Collection /\ gc'[g].pc = "users" /\ gc'[g].all = rows
        /\ gc'[g].doomed = gc[g].doomed /\ gc'[g].removed = gc[g].removed
    BY <1>0, <2>1, MediaFacts DEF Collection
  <2>4. /\ \A m \in gc'[g].all \cup gc'[g].removed : upl[m] = "ended"
        /\ gc'[g].doomed \subseteq gc'[g].all /\ gc'[g].removed \cap rows = {}
    BY <1>0, <1>2, <2>1, <2>3, MediaFacts DEF SavedOnce
  <2> QED
    BY <1>1, <2>2, <2>3, <2>4, CollectorMoves
<1>4. CASE ReadUsers(g)
  <2>1. gc' = [gc EXCEPT ![g].pc = "metadata", ![g].used = UsedByUsers] /\ gc[g].pc = "users"
    BY <1>4 DEF ReadUsers
  <2>2. gc' = [gc EXCEPT ![g] = gc'[g]]
    BY <1>0, <2>1
  <2>3. UsedByUsers \subseteq Pictures /\ \A u \in accounts : avatar[u] \subseteq UsedByUsers
    BY MediaFacts DEF UsedByUsers
  <2>4. /\ gc'[g] \in Collection /\ gc'[g].pc = "metadata" /\ gc'[g].all = gc[g].all
        /\ gc'[g].doomed = gc[g].doomed /\ gc'[g].removed = gc[g].removed
        /\ gc'[g].used = UsedByUsers
    BY <1>0, <2>1, <2>3 DEF Collection
  <2>5. \A u \in accounts \ late :
           /\ gc'[g].pc = "metadata" => avatar[u] \cap gc'[g].all \subseteq gc'[g].used
           /\ gc'[g].pc = "removing" => avatar[u] \cap gc'[g].doomed = {}
    BY <2>3, <2>4
  <2> QED
    BY <1>1, <1>2, <2>2, <2>4, <2>5, CollectorMoves
<1>5. CASE ReadMetadata(g)
  <2> DEFINE used == gc[g].used \cup UsedByMetadata
  <2>1. /\ gc' = [gc EXCEPT ![g].pc = "removing", ![g].used = used,
                            ![g].doomed = gc[g].all \ used]
        /\ gc[g].pc = "metadata"
    BY <1>5 DEF ReadMetadata
  <2>2. used \subseteq Pictures /\ gc[g].used \subseteq used
    BY MediaFacts DEF UsedByMetadata
  <2> HIDE DEF used
  <2>3. gc' = [gc EXCEPT ![g] = gc'[g]]
    BY <1>0, <2>1
  <2>4. /\ gc'[g] \in Collection /\ gc'[g].pc = "removing" /\ gc'[g].all = gc[g].all
        /\ gc'[g].doomed = gc[g].all \ used /\ gc'[g].removed = gc[g].removed
    BY <1>0, <2>1, <2>2, MediaFacts DEF Collection
  <2>5. \A u \in accounts \ late : avatar[u] \cap gc'[g].doomed = {}
    BY <1>0, <2>1, <2>2, <2>4 DEF JudgedUnused
  <2> QED
    BY <1>1, <1>2, <2>3, <2>4, <2>5, CollectorMoves
<1> QED
  BY <1>3, <1>4, <1>5

LEMMA RemovingSteps ==
    ASSUME MediaInv, NEW g \in Collections, CollectRow(g) \/ CollectFile(g) \/ CollectFiles(g)
    PROVE  MediaInv'
<1>0. /\ SavedOnce /\ JudgedUnused /\ gc[g] \in Collection
      /\ gc \in [Collections -> Collection]
  BY MediaFacts DEF MediaInv
<1>1. /\ \A m \in gc[g].all \cup gc[g].removed : upl[m] = "ended"
      /\ gc[g].doomed \subseteq gc[g].all /\ gc[g].removed \cap rows = {}
      /\ \A m \in Pictures : upl[m] = "moved" => m \in files
  BY <1>0 DEF SavedOnce
<1>2. CASE CollectRow(g)
  <2>1. PICK m \in gc[g].doomed :
          /\ IF Removable(m) THEN DeleteRow(m)
             ELSE UNCHANGED <<rows, accounts, softDeleted, avatar, cover>>
          /\ gc' = [gc EXCEPT ![g].doomed = @ \ {m},
                       ![g].removed = IF Removable(m) THEN @ \cup {m} ELSE @]
    BY <1>2 DEF CollectRow
  <2>2. gc[g].pc = "removing" /\ UNCHANGED <<files, upl, look, restarts, lost, late>>
    BY <1>2 DEF CollectRow, mediaHistory
  <2>3. m \in Pictures /\ upl[m] = "ended" /\ \A u \in accounts \ late : m \notin avatar[u]
    BY <1>0, <1>1, <2>2, MediaFacts DEF JudgedUnused
  <2>4. /\ gc' = [gc EXCEPT ![g] = gc'[g]]
        /\ gc'[g] \in Collection /\ gc'[g].pc = "removing" /\ gc'[g].all = gc[g].all
        /\ gc'[g].doomed = gc[g].doomed \ {m}
        /\ gc'[g].removed = IF Removable(m) THEN gc[g].removed \cup {m} ELSE gc[g].removed
    <3>1. CASE Removable(m)
      <4>1. gc' = [gc EXCEPT ![g].doomed = @ \ {m}, ![g].removed = @ \cup {m}]
        BY <2>1, <3>1
      <4> QED
        BY <1>0, <2>2, <2>3, <3>1, <4>1, MediaFacts DEF Collection
    <3>2. CASE ~Removable(m)
      <4>1. gc' = [gc EXCEPT ![g].doomed = @ \ {m}, ![g].removed = @]
        BY <2>1, <3>2
      <4> QED
        BY <1>0, <2>2, <2>3, <3>2, <4>1, MediaFacts DEF Collection
    <3> QED
      BY <3>1, <3>2
  <2>5. CASE Removable(m)
    <3>0. DeleteRow(m) /\ gc'[g].removed = gc[g].removed \cup {m}
      BY <2>1, <2>4, <2>5
    <3>1. /\ rows' = rows \ {m} /\ accounts' \subseteq accounts
          /\ UNCHANGED <<softDeleted, avatar, cover>>
          /\ \A u \in accounts' : avatar[u] \subseteq rows'
          /\ \A c \in Covers : cover[c] \subseteq rows'
      BY <2>3, <2>5, <3>0, DeletedRow
    <3>2. RowsHaveFiles' /\ AccountsOutliveCollections'
      BY <2>2, <2>3, <2>5, <3>0, RowGoes
    <3>3. /\ gc' \in [Collections -> Collection]
          /\ \A h \in Collections : h # g => gc'[h] = gc[h]
      BY <1>0, <2>4
    <3>4. MediaTypeOK'
      BY <2>2, <3>1, <3>3 DEF MediaInv, MediaTypeOK
    <3>5. SavedOnce'
      BY <1>0, <1>1, <2>2, <2>3, <2>4, <3>0, <3>1, <3>3 DEF SavedOnce
    <3>6. JudgedUnused'
      BY <1>0, <2>2, <2>4, <3>1, <3>3 DEF JudgedUnused
    <3> QED
      BY <3>2, <3>4, <3>5, <3>6 DEF MediaInv
  <2>6. CASE ~Removable(m)
    <3>1. UNCHANGED <<rows, files, accounts, softDeleted, avatar, cover, upl, look, mediaHistory>>
      BY <2>1, <2>2, <2>6 DEF mediaHistory
    <3>2. \A u \in accounts \ late :
             /\ gc'[g].pc = "metadata" => avatar[u] \cap gc'[g].all \subseteq gc'[g].used
             /\ gc'[g].pc = "removing" => avatar[u] \cap gc'[g].doomed = {}
      BY <1>0, <2>2, <2>4 DEF JudgedUnused
    <3>3. /\ \A n \in gc'[g].all \cup gc'[g].removed : upl[n] = "ended"
          /\ gc'[g].doomed \subseteq gc'[g].all /\ gc'[g].removed \cap rows = {}
      BY <1>1, <2>4, <2>6
    <3> QED
      BY <1>1, <2>4, <3>1, <3>2, <3>3, CollectorMoves
  <2> QED
    BY <2>5, <2>6
<1>3. CASE CollectFile(g)
  <2>1. PICK m \in gc[g].removed :
           files' = files \ {m} /\ gc' = [gc EXCEPT ![g].removed = @ \ {m}]
    BY <1>3 DEF CollectFile
  <2>2. /\ gc[g].pc = "removing"
        /\ UNCHANGED <<rows, accounts, softDeleted, avatar, cover, upl, look, mediaHistory>>
    BY <1>3 DEF CollectFile
  <2>3. /\ gc' = [gc EXCEPT ![g] = gc'[g]]
        /\ gc'[g] \in Collection /\ gc'[g].pc = "removing" /\ gc'[g].all = gc[g].all
        /\ gc'[g].doomed = gc[g].doomed /\ gc'[g].removed = gc[g].removed \ {m}
    BY <1>0, <2>1, <2>2, MediaFacts DEF Collection
  <2>4. m \in Pictures /\ m \notin rows /\ upl[m] = "ended"
    BY <1>1, MediaFacts
  <2>5. /\ files' \subseteq files /\ files \cap rows \subseteq files'
        /\ \A n \in Pictures : upl[n] = "moved" => n \in files'
    BY <1>1, <2>1, <2>4
  <2>6. \A u \in accounts \ late :
           /\ gc'[g].pc = "metadata" => avatar[u] \cap gc'[g].all \subseteq gc'[g].used
           /\ gc'[g].pc = "removing" => avatar[u] \cap gc'[g].doomed = {}
    BY <1>0, <2>2, <2>3 DEF JudgedUnused
  <2>7. /\ \A n \in gc'[g].all \cup gc'[g].removed : upl[n] = "ended"
        /\ gc'[g].doomed \subseteq gc'[g].all /\ gc'[g].removed \cap rows = {}
    BY <1>1, <2>3
  <2> QED
    BY <2>2, <2>3, <2>5, <2>6, <2>7, CollectorMoves
<1>4. CASE CollectFiles(g)
  <2>1. /\ files' = files /\ gc' = [gc EXCEPT ![g] = EndedCollection]
        /\ UNCHANGED <<rows, accounts, softDeleted, avatar, cover, upl, look, mediaHistory>>
    BY <1>4 DEF CollectFiles, LooksLikeMedium
  <2>2. gc'[g] = EndedCollection /\ gc' = [gc EXCEPT ![g] = gc'[g]]
    BY <1>0, <2>1
  <2> QED
    BY <1>1, <2>1, <2>2, NewMediaTypes, CollectorMoves
<1> QED
  BY <1>2, <1>3, <1>4

LEMMA MediaStep == MediaInv /\ [MediaNext]_mediaVars => MediaInv'
<1>0. SUFFICES ASSUME MediaInv, [MediaNext]_mediaVars PROVE MediaInv'
  OBVIOUS
<1>1. CASE UNCHANGED mediaVars
  BY <1>0, <1>1 DEF mediaVars, mediaHistory, MediaInv, MediaTypeOK, SavedOnce, RowsHaveFiles,
     JudgedUnused, AccountsOutliveCollections
<1>2. CASE RestartMedia
  BY <1>0, <1>2, OtherMediaSteps
<1>3. CASE \E m \in Pictures : MoveFile(m) \/ SaveMedium(m) \/ LoseFile(m)
  BY <1>0, <1>3, UploadSteps
<1>4. ASSUME NEW l \in Lookups,
             \/ FindMedium(l) \/ DeleteMissing(l) \/ UnlinkMissing(l)
             \/ \E u \in Accounts : SetAvatar(l, u)
             \/ \E c \in Covers : SetCover(l, c)
      PROVE  MediaInv'
  BY <1>0, <1>4, LookupSteps, SetAvatarStep, OtherMediaSteps
<1>5. CASE \E c \in Covers : DropCover(c)
  BY <1>0, <1>5, OtherMediaSteps
<1>6. CASE \E u \in Accounts : SoftDeleteAccount(u)
  BY <1>0, <1>6, OtherMediaSteps
<1>7. ASSUME NEW g \in Collections,
             \/ ReadMedia(g) \/ ReadUsers(g) \/ ReadMetadata(g)
             \/ CollectRow(g) \/ CollectFile(g) \/ CollectFiles(g)
      PROVE  MediaInv'
  BY <1>0, <1>7, ReadingSteps, RemovingSteps
<1> QED
  BY <1>0, <1>1, <1>2, <1>3, <1>4, <1>5, <1>6, <1>7 DEF MediaNext

THEOREM MediaInvariant == MediaSpec => []MediaInv
<1>1. MediaInit => MediaInv
  BY MediaInitInv
<1> QED
  BY <1>1, MediaStep, PTL DEF MediaSpec

\* A user never refers to a picture that is not a row, nor does metadata, and the
\* state of uploads, requests and collections has its shape.
THEOREM MediaTypeCorrect == MediaSpec => []MediaTypeOK
<1>1. MediaInv => MediaTypeOK
  BY DEF MediaInv
<1> QED
  BY <1>1, MediaInvariant, PTL

\* media.service.ts saves the row after the file and deletes it before: a row has
\* its file in every state, however many collectors and requests are at work.
THEOREM RowsKeepFiles == MediaSpec => []RowsHaveFiles
<1>1. MediaInv => RowsHaveFiles
  BY DEF MediaInv
<1> QED
  BY <1>1, MediaInvariant, PTL

\* The collector, whose deletions cascade to users, takes no account whose picture
\* it could have seen, however many of them run at once.
THEOREM CollectorsSpareAccounts == MediaSpec => []AccountsOutliveCollections
<1>1. MediaInv => AccountsOutliveCollections
  BY DEF MediaInv
<1> QED
  BY <1>1, MediaInvariant, PTL

(***************************************************************************)
(* Metadata.                                                               *)
(***************************************************************************)
Maybe(S) == {{}} \cup {{x} : x \in S}

GameRow == [map : Mapping, user : Users, linked : BOOLEAN, deleted : BOOLEAN]
\* Rows of merged metadata after n saves, games as they are read, and actors.
MergedRow(n) == {m \in [id : Nat, at : Nat, map : Mapping, user : Users] :
                    1 <= m.id /\ m.id <= m.at /\ m.at <= n}
GameRead(n) == [map : Mapping, user : Users, deleted : BOOLEAN, merged : Maybe(MergedRow(n))]
ActorState(n) ==
    [stage : Stages, left : SUBSET Providers, todo : 0 .. MaxMappings,
     want : Maybe(Providers \X (Entries \cup {NoEntry})), edits : BOOLEAN, part : BOOLEAN,
     first : Maybe(GameRead(n)), loaded : Maybe(GameRead(n))]

MetadataTyped ==
    /\ game \in GameRow
    /\ effective \in Maybe(MergedRow(saved))
    /\ game.linked => effective # {}
    /\ fetched \in [Providers -> [Entries -> 0 .. saved]]
    /\ queue \in Maybe(GameRead(saved)) /\ jobs \in 0 .. MaxJobs /\ saved \in Nat
    /\ actor \in [Actors -> ActorState(saved)]
    /\ overlapped \in BOOLEAN

NeverOutdated ==
    game.linked => HasSources /\ \A m \in effective : m.map = game.map /\ m.user = game.user
IsMerged == HasSources /\ ~LeftHalfway => game.linked \/ game.deleted
AtRest == NeverOutdated /\ IsMerged

\* What an actor that is alone at work knows at each of its stages.
Alone(a) ==
    LET x == actor[a] IN
    /\ x.stage \in {"choosing", "fetching", "unmapping"} => NeverOutdated
    /\ x.stage = "reading" /\ game.user = NoUser => NeverOutdated
    /\ x.stage \in {"saving", "adding", "mapping", "removing"} => ~game.linked
    /\ x.stage = "deleting" => effective # {} /\ \A g \in x.loaded : g.merged = effective
    /\ x.stage \in {"saving", "mapping"} => \A g \in x.loaded : g.merged = {}
    /\ x.stage \in {"storing", "linking"} => \A g \in x.loaded :
          ~g.deleted /\ (g.map # Unmapped \/ g.user # NoUser)
    /\ x.stage = "linking" => \A g \in x.loaded :
          /\ g.merged = effective /\ g.merged # {}
          /\ \A m \in g.merged : m.map = g.map /\ m.user = g.user
    /\ a \in Requests =>
          /\ x.stage \in {"choosing", "fetching"} => x.part \/ IsMerged
          /\ x.stage \in {"adding", "mapping"} => x.part
          /\ x.stage \notin {"reading", "storing", "linking"} => \A g \in x.first :
                /\ g.merged # {} /\ effective # {} => g.merged = effective
                /\ g.deleted => g.merged = {}

\* Alone since the beginning: at most one actor is at work, deleted games refer
\* to no merged metadata, and nobody leaves old metadata behind.
OneByOne ==
    ~overlapped =>
        /\ \A a, b \in Actors : Busy(a) /\ Busy(b) => a = b
        /\ game.deleted => ~game.linked
        /\ \A a \in Actors : Busy(a) => Alone(a)
        /\ BusyActors = {} => AtRest

MetadataInv == MetadataTyped /\ OneByOne

LEMMA TwoAreMore ==
    ASSUME NEW S, IsFiniteSet(S), NEW a \in S, NEW b \in S, a # b
    PROVE  Cardinality(S) > 1
<1>1. IsFiniteSet(S \ {a}) /\ Cardinality(S \ {a}) = Cardinality(S) - 1
  BY FS_RemoveElement
<1>2. S \ {a} # {} /\ Cardinality(S \ {a}) # 0
  BY <1>1, FS_EmptySet
<1>3. Cardinality(S) \in Nat /\ Cardinality(S \ {a}) \in Nat
  BY <1>1, FS_CardinalityType
<1> QED
  BY <1>1, <1>2, <1>3

LEMMA IdleTyped == \A n : Idle \in ActorState(n) /\ Idle.stage = "idle"
BY MetadataAssumption DEF Idle, ActorState, Maybe, Stages

\* What was read stays what can be read when more is saved.
LEMMA MoreIsSaved ==
    ASSUME NEW n \in Nat, NEW k \in Nat, n <= k
    PROVE  /\ MergedRow(n) \subseteq MergedRow(k)
           /\ Maybe(MergedRow(n)) \subseteq Maybe(MergedRow(k))
           /\ GameRead(n) \subseteq GameRead(k)
           /\ Maybe(GameRead(n)) \subseteq Maybe(GameRead(k))
           /\ ActorState(n) \subseteq ActorState(k)
<1>1. MergedRow(n) \subseteq MergedRow(k)
  BY DEF MergedRow
<1>2. Maybe(MergedRow(n)) \subseteq Maybe(MergedRow(k))
  BY <1>1 DEF Maybe
<1>3. GameRead(n) \subseteq GameRead(k)
  BY <1>2 DEF GameRead
<1>4. Maybe(GameRead(n)) \subseteq Maybe(GameRead(k))
  BY <1>3 DEF Maybe
<1>5. ActorState(n) \subseteq ActorState(k)
  BY <1>4 DEF ActorState
<1> QED
  BY <1>1, <1>2, <1>3, <1>4, <1>5

\* A game that is read has its type, and unmapping keeps it.
LEMMA LoadTyped ==
    ASSUME MetadataTyped
    PROVE  /\ Load \in GameRead(saved) /\ {Load} \in Maybe(GameRead(saved))
           /\ Load.map = game.map /\ Load.user = game.user /\ Load.deleted = game.deleted
           /\ Load.merged = IF game.linked THEN effective ELSE {}
<1>1. game \in GameRow /\ effective \in Maybe(MergedRow(saved))
  BY DEF MetadataTyped
<1>2. (IF game.linked THEN effective ELSE {}) \in Maybe(MergedRow(saved))
  BY <1>1 DEF Maybe
<1>3. Load \in GameRead(saved)
  BY <1>1, <1>2 DEF Load, GameRead, GameRow
<1> QED
  BY <1>3 DEF Load, Maybe

LEMMA WithoutTyped ==
    ASSUME NEW n, NEW g \in GameRead(n), NEW W
    PROVE  /\ Without(g, W) \in GameRead(n)
           /\ Without(g, W).user = g.user /\ Without(g, W).deleted = g.deleted
           /\ Without(g, W).merged = g.merged
<1> DEFINE f == [p \in Providers |-> IF \E w \in W : w[1] = p THEN NoEntry ELSE g.map[p]]
<1>1. g.map \in Mapping
  BY DEF GameRead
<1>2. f \in Mapping
  BY <1>1 DEF Mapping
<1> HIDE DEF f
<1>3. Without(g, W) = [g EXCEPT !.map = f]
  BY DEF Without, f
<1> QED
  BY <1>2, <1>3 DEF GameRead

LEMMA MappedTyped ==
    ASSUME NEW n, NEW g \in GameRead(n), NEW p \in Providers, NEW e \in Entries \cup {NoEntry}
    PROVE  /\ [g EXCEPT !.map[p] = e] \in GameRead(n)
           /\ [g EXCEPT !.map[p] = e].merged = g.merged
<1>1. g.map \in Mapping
  BY DEF GameRead
<1>2. [g.map EXCEPT ![p] = e] \in Mapping
  BY <1>1 DEF Mapping
<1> DEFINE f == [g.map EXCEPT ![p] = e]
<1>3. [g EXCEPT !.map[p] = e] = [g EXCEPT !.map = f]
  OBVIOUS
<1> HIDE DEF f
<1>4. f \in Mapping
  BY <1>2 DEF f
<1> QED
  BY <1>3, <1>4 DEF GameRead

\* save writes what was read; what it writes has its type.
LEMMA SavedTyped ==
    ASSUME MetadataTyped, NEW g \in GameRead(saved), SaveGame(g)
    PROVE  /\ game' \in GameRow /\ effective' \in Maybe(MergedRow(saved))
           /\ game'.linked => effective' # {}
           /\ game'.map = g.map /\ game'.user = g.user /\ game'.deleted = g.deleted
           /\ game'.linked = (g.merged # {})
           /\ effective' = IF g.merged = {} THEN effective ELSE g.merged
<1>1. g.map \in Mapping /\ g.user \in Users /\ g.deleted \in BOOLEAN
      /\ g.merged \in Maybe(MergedRow(saved))
  BY DEF GameRead
<1>2. /\ game' = [map |-> g.map, user |-> g.user, linked |-> g.merged # {},
                  deleted |-> g.deleted]
      /\ effective' = IF g.merged = {} THEN effective ELSE g.merged
  BY DEF SaveGame
<1>3. game' \in GameRow
  BY <1>1, <1>2 DEF GameRow
<1> QED
  BY <1>1, <1>2, <1>3 DEF MetadataTyped

\* Equal rows have equal ids: what an actor alone has read can be saved.
LEMMA SameIsSavable ==
    ASSUME MetadataTyped, NEW g \in GameRead(saved),
           g.merged # {} /\ effective # {} => g.merged = effective
    PROVE  Savable(g)
<1>1. effective \in Maybe(MergedRow(saved))
  BY DEF MetadataTyped
<1> QED
  BY <1>1 DEF Savable, Maybe

\* An actor that is or gets to work in a history without overlaps is alone.
LEMMA TakingTurns ==
    ASSUME MetadataInv, NEW a \in Actors, actor' = [actor EXCEPT ![a] = actor'[a]],
           actor[a].stage \notin {"idle", "ended"} \/ actor'[a].stage \notin {"idle", "ended"},
           NoteOverlap, ~overlapped'
    PROVE  /\ ~overlapped
           /\ game.deleted => ~game.linked
           /\ actor[a].stage \notin {"idle", "ended"} => Alone(a)
           /\ actor[a].stage \in {"idle", "ended"} => AtRest
           /\ \A b \in Actors : b # a => actor'[b] = actor[b] /\ actor[b].stage \in {"idle", "ended"}
           /\ LeftHalfway /\ actor[a].stage # "ended" => LeftHalfway'
<1> DEFINE B == {b \in Actors : actor'[b].stage \notin {"idle", "ended"}}
<1>1. ~overlapped /\ ~(Cardinality(B) > 1)
  BY DEF NoteOverlap
<1>2. IsFiniteSet(B)
  BY MetadataAssumption, FS_Subset
<1>3. \A b, c \in B : b = c
  BY <1>1, <1>2, TwoAreMore
<1>4. actor \in [Actors -> ActorState(saved)]
  BY DEF MetadataInv, MetadataTyped
<1>5. \A b \in Actors : b # a => actor'[b] = actor[b]
  BY <1>4
<1>6. \A b \in Actors : b # a => actor[b].stage \in {"idle", "ended"}
  <2>1. CASE actor[a].stage \notin {"idle", "ended"}
    BY <1>1, <2>1 DEF MetadataInv, OneByOne, Busy
  <2>2. CASE actor'[a].stage \notin {"idle", "ended"}
    BY <1>3, <1>5, <2>2
  <2> QED
    BY <2>1, <2>2
<1>7. actor[a].stage \in {"idle", "ended"} => BusyActors = {}
  BY <1>6 DEF BusyActors, Busy
<1>8. ASSUME LeftHalfway, actor[a].stage # "ended" PROVE LeftHalfway'
  <2>1. PICK r \in Requests : actor[r].part /\ actor[r].stage = "ended"
    BY <1>8 DEF LeftHalfway
  <2>2. r \in Actors /\ actor'[r] = actor[r]
    BY <1>5, <1>8, <2>1 DEF Actors
  <2> QED
    BY <2>1, <2>2 DEF LeftHalfway
<1> QED
  BY <1>1, <1>5, <1>6, <1>7, <1>8 DEF MetadataInv, OneByOne, Busy

\* One actor takes a step that keeps the types and, if it is alone, what it
\* knows: the invariant holds again.
LEMMA ActorStep ==
    ASSUME MetadataInv, NEW a \in Actors, actor' = [actor EXCEPT ![a] = actor'[a]],
           actor[a].stage \notin {"idle", "ended"} \/ actor'[a].stage \notin {"idle", "ended"},
           NoteOverlap, actor'[a] \in ActorState(saved'), saved' \in Nat, saved <= saved',
           game' \in GameRow, effective' \in Maybe(MergedRow(saved')),
           game'.linked => effective' # {},
           fetched' \in [Providers -> [Entries -> 0 .. saved']], queue' = queue, jobs' = jobs,
           ~overlapped' =>
              /\ game'.deleted => ~game'.linked
              /\ actor'[a].stage \notin {"idle", "ended"} => Alone(a)'
              /\ actor'[a].stage \in {"idle", "ended"} => AtRest'
    PROVE  MetadataInv'
<1>1. /\ actor \in [Actors -> ActorState(saved)] /\ overlapped \in BOOLEAN /\ saved \in Nat
      /\ queue \in Maybe(GameRead(saved)) /\ jobs \in 0 .. MaxJobs
  BY DEF MetadataInv, MetadataTyped
<1>2. actor' \in [Actors -> ActorState(saved')] /\ queue' \in Maybe(GameRead(saved'))
  BY <1>1, MoreIsSaved
<1>3. overlapped' \in BOOLEAN
  BY <1>1 DEF NoteOverlap
<1>4. MetadataTyped'
  BY <1>1, <1>2, <1>3 DEF MetadataTyped
<1>5. OneByOne'
  <2> SUFFICES ASSUME ~overlapped'
               PROVE  /\ \A b, c \in Actors : Busy(b)' /\ Busy(c)' => b = c
                      /\ game'.deleted => ~game'.linked
                      /\ \A b \in Actors : Busy(b)' => Alone(b)'
                      /\ BusyActors' = {} => AtRest'
    BY DEF OneByOne
  <2>1. \A b \in Actors : b # a => actor'[b].stage \in {"idle", "ended"}
    BY TakingTurns
  <2>2. \A b \in Actors : Busy(b)' => b = a
    BY <2>1 DEF Busy
  <2>3. BusyActors' = {} => actor'[a].stage \in {"idle", "ended"}
    BY DEF BusyActors, Busy
  <2>4. Busy(a)' => actor'[a].stage \notin {"idle", "ended"}
    BY DEF Busy
  <2> QED
    BY <2>2, <2>3, <2>4
<1> QED
  BY <1>4, <1>5 DEF MetadataInv

LEMMA MetadataFacts ==
    ASSUME MetadataInv
    PROVE  /\ MetadataTyped
           /\ actor \in [Actors -> ActorState(saved)]
           /\ \A a \in Actors : actor[a] \in ActorState(saved)
           /\ saved \in Nat /\ game \in GameRow /\ effective \in Maybe(MergedRow(saved))
           /\ game.linked => effective # {}
           /\ fetched \in [Providers -> [Entries -> 0 .. saved]]
           /\ queue \in Maybe(GameRead(saved))
           /\ Worker \in Actors /\ Worker \notin Requests /\ Worker \notin GameDeletions
           /\ Background \subseteq Actors /\ Requests \subseteq Actors
           /\ GameDeletions \subseteq Actors /\ Restorations \subseteq Actors
           /\ Worker \notin Background /\ Background \cap Requests = {}
           /\ Requests \cap GameDeletions = {} /\ Requests \cap Restorations = {}
BY MetadataAssumption DEF MetadataInv, MetadataTyped, Actors

\* A step that leaves the game alone leaves what is known of it.
LEMMA GameKept ==
    ASSUME UNCHANGED <<game, effective>>
    PROVE  /\ NeverOutdated => NeverOutdated'
           /\ IsMerged /\ (LeftHalfway => LeftHalfway') => IsMerged'
BY DEF NeverOutdated, IsMerged, HasSources

\* A step that leaves the tables alone.
LEMMA QuietStep ==
    ASSUME MetadataInv, NEW a \in Actors, actor' = [actor EXCEPT ![a] = actor'[a]],
           actor[a].stage \notin {"idle", "ended"} \/ actor'[a].stage \notin {"idle", "ended"},
           NoteOverlap, actor'[a] \in ActorState(saved),
           UNCHANGED <<game, effective, fetched, queue, jobs, saved>>,
           ~overlapped' =>
              /\ actor'[a].stage \notin {"idle", "ended"} => Alone(a)'
              /\ actor'[a].stage \in {"idle", "ended"} => AtRest'
    PROVE  MetadataInv'
<1>1. /\ saved' \in Nat /\ saved <= saved' /\ game' \in GameRow
      /\ effective' \in Maybe(MergedRow(saved')) /\ (game'.linked => effective' # {})
      /\ fetched' \in [Providers -> [Entries -> 0 .. saved']]
      /\ actor'[a] \in ActorState(saved')
  BY MetadataFacts
<1>2. ~overlapped' => (game'.deleted => ~game'.linked)
  BY TakingTurns
<1> QED
  BY <1>1, <1>2, ActorStep

LEMMA GotoTyped ==
    ASSUME MetadataInv, NEW a \in Actors, NEW stage \in Stages, Goto(a, stage)
    PROVE  /\ actor' = [actor EXCEPT ![a] = actor'[a]]
           /\ actor'[a] \in ActorState(saved) /\ actor'[a].stage = stage
           /\ actor'[a].first = actor[a].first /\ actor'[a].loaded = actor[a].loaded
           /\ actor'[a].part = actor[a].part /\ actor'[a].todo = actor[a].todo
           /\ actor'[a].want = actor[a].want
<1>1. actor[a] \in ActorState(saved) /\ actor \in [Actors -> ActorState(saved)]
  BY MetadataFacts
<1>2. actor' = [actor EXCEPT ![a] = [actor[a] EXCEPT !.stage = stage]]
  BY <1>1 DEF Goto
<1>3. actor'[a] = [actor[a] EXCEPT !.stage = stage]
  BY <1>1, <1>2
<1> QED
  BY <1>1, <1>2, <1>3 DEF ActorState

\* An actor begins: what holds at rest is what it knows.
LEMMA StartingSteps ==
    ASSUME MetadataInv
    PROVE  /\ StartJob => MetadataInv'
           /\ \A r \in Requests : StartUpdate(r) => MetadataInv'
           /\ \A d \in GameDeletions : StartDelete(d) => MetadataInv'
           /\ \A q \in Restorations : RestoreGame(q) => MetadataInv'
<1>1. ASSUME StartJob PROVE MetadataInv'
  <2>1. /\ actor[Worker].stage = "idle" /\ NoteOverlap /\ Worker \in Actors
        /\ actor' = [actor EXCEPT ![Worker] =
              [Idle EXCEPT !.stage = "choosing", !.left = Providers, !.first = queue]]
        /\ UNCHANGED <<game, effective, fetched, queue, jobs, saved>>
    BY <1>1, MetadataFacts DEF StartJob
  <2>2. /\ actor' = [actor EXCEPT ![Worker] = actor'[Worker]]
        /\ actor'[Worker] = [Idle EXCEPT !.stage = "choosing", !.left = Providers,
                                         !.first = queue]
    BY <2>1, MetadataFacts
  <2>3. actor'[Worker] \in ActorState(saved) /\ actor'[Worker].stage = "choosing"
    BY <2>2, IdleTyped, MetadataFacts DEF ActorState, Stages
  <2>4. ASSUME ~overlapped' PROVE Alone(Worker)'
    <3>1. AtRest
      BY <2>1, <2>2, <2>3, <2>4, TakingTurns
    <3> QED
      BY <2>1, <2>3, <3>1, MetadataFacts, GameKept DEF Alone, AtRest
  <2> QED
    BY <2>1, <2>2, <2>3, <2>4, QuietStep
<1>2. ASSUME NEW r \in Requests, StartUpdate(r) PROVE MetadataInv'
  <2>1. PICK todo \in 0 .. MaxMappings, edits \in BOOLEAN :
           actor' = [actor EXCEPT ![r] = [Idle EXCEPT !.stage = "choosing", !.todo = todo,
                                                     !.edits = edits, !.first = {Load}]]
    BY <1>2 DEF StartUpdate
  <2>2. /\ actor[r].stage = "idle" /\ NoteOverlap
        /\ UNCHANGED <<game, effective, fetched, queue, jobs, saved>>
    BY <1>2 DEF StartUpdate
  <2>3. /\ r \in Actors /\ actor' = [actor EXCEPT ![r] = actor'[r]]
        /\ actor'[r] = [Idle EXCEPT !.stage = "choosing", !.todo = todo,
                                    !.edits = edits, !.first = {Load}]
    BY <2>1, MetadataFacts
  <2>4. {Load} \in Maybe(GameRead(saved))
    BY MetadataFacts, LoadTyped
  <2>5. /\ actor'[r] \in ActorState(saved) /\ actor'[r].stage = "choosing"
        /\ actor'[r].first = {Load}
    <3>1. Idle \in ActorState(saved)
      BY IdleTyped
    <3>2. [Idle EXCEPT !.stage = "choosing", !.todo = todo] \in ActorState(saved)
      BY <3>1 DEF ActorState, Stages
    <3>3. actor'[r] \in ActorState(saved)
      BY <2>3, <2>4, <3>2 DEF ActorState
    <3> QED
      BY <2>3, <3>1, <3>3 DEF ActorState
  <2>6. ASSUME ~overlapped' PROVE Alone(r)'
    <3>1. /\ game.deleted => ~game.linked
          /\ AtRest /\ (LeftHalfway => LeftHalfway')
      BY <1>2, <2>2, <2>3, <2>5, <2>6, TakingTurns
    <3>2. NeverOutdated' /\ IsMerged'
      BY <2>2, <3>1, GameKept DEF AtRest
    <3>3. /\ Load.merged # {} => Load.merged = effective
          /\ Load.deleted => Load.merged = {}
      BY <3>1, MetadataFacts, LoadTyped
    <3> QED
      BY <2>2, <2>5, <3>1, <3>2, <3>3 DEF Alone
  <2> QED
    BY <2>2, <2>3, <2>5, <2>6, QuietStep
<1>3. ASSUME NEW d \in GameDeletions, StartDelete(d) PROVE MetadataInv'
  <2>1. /\ actor[d].stage = "idle" /\ NoteOverlap /\ Goto(d, "unmapping")
        /\ d \in Actors /\ d \notin Requests /\ "unmapping" \in Stages
        /\ UNCHANGED <<game, effective, fetched, queue, jobs, saved>>
    BY <1>3, MetadataFacts DEF StartDelete, Stages
  <2>2. /\ actor' = [actor EXCEPT ![d] = actor'[d]]
        /\ actor'[d] \in ActorState(saved) /\ actor'[d].stage = "unmapping"
    BY <2>1, GotoTyped
  <2>3. ASSUME ~overlapped' PROVE Alone(d)'
    <3>1. AtRest
      BY <2>1, <2>2, <2>3, TakingTurns
    <3> QED
      BY <2>1, <2>2, <3>1, GameKept DEF Alone, AtRest
  <2> QED
    BY <2>1, <2>2, <2>3, QuietStep
<1>4. ASSUME NEW q \in Restorations, RestoreGame(q) PROVE MetadataInv'
  <2>1. /\ actor[q].stage = "idle" /\ NoteOverlap /\ Goto(q, "reading")
        /\ q \in Actors /\ q \notin Requests /\ "reading" \in Stages
        /\ game' = [game EXCEPT !.deleted = FALSE]
        /\ UNCHANGED <<effective, fetched, queue, jobs, saved>>
    BY <1>4, MetadataFacts DEF RestoreGame, Stages
  <2>2. /\ actor' = [actor EXCEPT ![q] = actor'[q]]
        /\ actor'[q] \in ActorState(saved') /\ actor'[q].stage = "reading"
    BY <2>1, GotoTyped
  <2>3. /\ game' \in GameRow /\ game'.linked = game.linked
        /\ game'.deleted = FALSE
    BY <2>1, MetadataFacts DEF GameRow
  <2>4. ASSUME ~overlapped' PROVE Alone(q)'
    <3>1. game.deleted => ~game.linked
      BY <2>1, <2>2, <2>4, TakingTurns
    <3>2. game.deleted
      BY <1>4 DEF RestoreGame
    <3> QED
      BY <2>1, <2>2, <2>3, <3>1, <3>2 DEF Alone, NeverOutdated
  <2>5. /\ saved' \in Nat /\ saved <= saved'
        /\ effective' \in Maybe(MergedRow(saved')) /\ (game'.linked => effective' # {})
        /\ fetched' \in [Providers -> [Entries -> 0 .. saved']]
    BY <2>1, <2>3, MetadataFacts
  <2>6. ~overlapped' => /\ game'.deleted => ~game'.linked
                        /\ actor'[q].stage \notin {"idle", "ended"} => Alone(q)'
                        /\ actor'[q].stage \in {"idle", "ended"} => AtRest'
    BY <2>2, <2>3, <2>4
  <2> QED
    BY <2>1, <2>2, <2>3, <2>5, <2>6, ActorStep
<1> QED
  BY <1>1, <1>2, <1>3, <1>4

LEMMA ChooseStep ==
    ASSUME MetadataInv, ChooseProvider PROVE MetadataInv'
<1> DEFINE x == actor[Worker]
           p == FirstOf(x.left)
<1>1. /\ x.stage = "choosing" /\ x.left # {} /\ NoteOverlap
      /\ UNCHANGED <<game, effective, fetched, queue, jobs, saved>>
  BY DEF ChooseProvider
<1>2. PICK g \in x.first : \E e \in IF g.map[p] = NoEntry THEN Entries ELSE {g.map[p]} :
             \/ actor' = [actor EXCEPT ![Worker].left = @ \ {p}, ![Worker].want = {<<p, e>>},
                                      ![Worker].stage = "fetching"]
             \/ actor' = [actor EXCEPT ![Worker].left = @ \ {p}]
  BY DEF ChooseProvider
<1>3. PICK e \in IF g.map[p] = NoEntry THEN Entries ELSE {g.map[p]} :
             \/ actor' = [actor EXCEPT ![Worker].left = @ \ {p}, ![Worker].want = {<<p, e>>},
                                      ![Worker].stage = "fetching"]
             \/ actor' = [actor EXCEPT ![Worker].left = @ \ {p}]
  BY <1>2
<1>4. x \in ActorState(saved) /\ Worker \in Actors /\ Worker \notin Requests
      /\ actor \in [Actors -> ActorState(saved)]
  BY MetadataFacts
<1>5. p \in Providers
  <2>1. x.left \in SUBSET Providers
    BY <1>4 DEF ActorState
  <2> QED
    BY <1>1, <2>1, MetadataAssumption DEF FirstOf
<1>6. e \in Entries \cup {NoEntry}
  <2>1. g \in GameRead(saved)
    BY <1>4 DEF ActorState, Maybe
  <2>2. g.map[p] \in Entries \cup {NoEntry}
    BY <1>5, <2>1 DEF GameRead, Mapping
  <2> QED
    BY <2>2
<1>7. {<<p, e>>} \in Maybe(Providers \X (Entries \cup {NoEntry}))
  BY <1>5, <1>6 DEF Maybe
<1> HIDE DEF x, p
<1>8. /\ actor' = [actor EXCEPT ![Worker] = actor'[Worker]]
      /\ actor'[Worker] \in ActorState(saved)
      /\ actor'[Worker].stage \in {"choosing", "fetching"}
  <2>1. CASE actor' = [actor EXCEPT ![Worker].left = @ \ {p}, ![Worker].want = {<<p, e>>},
                                    ![Worker].stage = "fetching"]
    <3>1. actor'[Worker] = [x EXCEPT !.left = x.left \ {p}, !.want = {<<p, e>>},
                                     !.stage = "fetching"]
      BY <1>4, <2>1 DEF x
    <3>2. actor' = [actor EXCEPT ![Worker] = actor'[Worker]]
      BY <1>4, <2>1 DEF x
    <3>3. [x EXCEPT !.left = x.left \ {p}, !.want = {<<p, e>>}] \in ActorState(saved)
      BY <1>4, <1>7 DEF ActorState
    <3>4. actor'[Worker] \in ActorState(saved) /\ actor'[Worker].stage = "fetching"
      BY <1>4, <3>1, <3>3 DEF ActorState, Stages
    <3> QED
      BY <3>2, <3>4
  <2>2. CASE actor' = [actor EXCEPT ![Worker].left = @ \ {p}]
    <3>1. actor'[Worker] = [x EXCEPT !.left = x.left \ {p}]
      BY <1>4, <2>2 DEF x
    <3>2. actor' = [actor EXCEPT ![Worker] = actor'[Worker]]
      BY <1>4, <2>2 DEF x
    <3>3. actor'[Worker] \in ActorState(saved) /\ actor'[Worker].stage = "choosing"
      BY <1>1, <1>4, <3>1 DEF ActorState
    <3> QED
      BY <3>2, <3>3
  <2> QED
    BY <1>3, <2>1, <2>2
<1>9. ASSUME ~overlapped' PROVE Alone(Worker)'
  <2>1. Alone(Worker)
    BY <1>1, <1>4, <1>8, <1>9, TakingTurns DEF x
  <2>2. NeverOutdated'
    BY <1>1, <2>1, GameKept DEF Alone, x
  <2> QED
    BY <1>4, <1>8, <2>2 DEF Alone
<1> QED
  BY <1>1, <1>4, <1>8, <1>9, QuietStep DEF x

\* The job ends, and the merge it started goes on without it.
LEMMA EndJobStep ==
    ASSUME MetadataInv, EndJob PROVE MetadataInv'
<1>1. PICK b \in Background : /\ ~Busy(b)
          /\ actor' = [actor EXCEPT ![Worker] = Idle, ![b] = [Idle EXCEPT !.stage = "reading"]]
  BY DEF EndJob
<1>2. /\ actor[Worker].stage = "choosing" /\ NoteOverlap /\ queue' = {}
      /\ UNCHANGED <<game, effective, fetched, jobs, saved>>
  BY DEF EndJob
<1>3. /\ Worker \in Actors /\ b \in Actors /\ b # Worker /\ b \notin Requests
      /\ actor \in [Actors -> ActorState(saved)] /\ MetadataTyped
      /\ Worker \notin Requests
  BY MetadataFacts
<1> DEFINE y == [Idle EXCEPT !.stage = "reading"]
<1>4. y \in ActorState(saved) /\ y.stage = "reading" /\ Idle \in ActorState(saved)
      /\ Idle.stage = "idle"
  BY IdleTyped DEF ActorState, Stages
<1> HIDE DEF y
<1>5. /\ actor' \in [Actors -> ActorState(saved)]
      /\ actor'[Worker] = Idle /\ actor'[b] = y
      /\ \A c \in Actors : c \notin {b, Worker} => actor'[c] = actor[c]
  BY <1>1, <1>3, <1>4 DEF y
<1>6. overlapped' \in BOOLEAN /\ {} \in Maybe(GameRead(saved))
  BY <1>2, <1>3 DEF NoteOverlap, MetadataTyped, Maybe
<1>7. MetadataTyped'
  BY <1>2, <1>3, <1>5, <1>6 DEF MetadataTyped
<1>8. ASSUME ~overlapped'
      PROVE  /\ \A c, d \in Actors : Busy(c)' /\ Busy(d)' => c = d
             /\ game'.deleted => ~game'.linked
             /\ \A c \in Actors : Busy(c)' => Alone(c)'
             /\ BusyActors' = {} => AtRest'
  <2>1. ~overlapped
    BY <1>2, <1>8 DEF NoteOverlap
  <2>2. /\ Busy(Worker) /\ Alone(Worker) /\ (game.deleted => ~game.linked)
        /\ \A c \in Actors : Busy(c) => c = Worker
    BY <1>2, <1>3, <2>1 DEF MetadataInv, OneByOne, Busy
  <2>3. \A c \in Actors : Busy(c)' => c = b
    BY <1>4, <1>5, <2>2 DEF Busy
  <2>4. Busy(b)' /\ b \in BusyActors'
    BY <1>3, <1>4, <1>5 DEF Busy, BusyActors
  <2>5. NeverOutdated'
    BY <1>2, <2>2, GameKept DEF Alone
  <2>6. Alone(b)'
    BY <1>3, <1>4, <1>5, <2>5 DEF Alone
  <2> QED
    BY <1>2, <2>2, <2>3, <2>4, <2>6
<1>9. OneByOne'
  BY <1>8 DEF OneByOne
<1> QED
  BY <1>7, <1>9 DEF MetadataInv

LEMMA AddJobStep ==
    ASSUME MetadataInv, AddJob PROVE MetadataInv'
<1>1. /\ jobs < MaxJobs /\ jobs' = jobs + 1
      /\ queue' = (IF queue = {} THEN {Load} ELSE queue)
      /\ UNCHANGED <<game, effective, fetched, saved, actor, overlapped>>
  BY DEF AddJob
<1>2. {Load} \in Maybe(GameRead(saved))
  BY MetadataFacts, LoadTyped
<1>3. MetadataTyped'
  BY <1>1, <1>2, MetadataFacts, MetadataAssumption DEF MetadataTyped
<1>4. OneByOne'
  BY <1>1 DEF MetadataInv, OneByOne, BusyActors, Busy, Alone, AtRest, NeverOutdated, IsMerged,
     HasSources, LeftHalfway
<1> QED
  BY <1>3, <1>4 DEF MetadataInv

LEMMA EndTyped ==
    ASSUME MetadataInv, NEW a \in Actors
    PROVE  /\ EndOf(a) \in ActorState(saved) /\ Stopped(a) \in ActorState(saved)
           /\ EndOf(a).stage \in {"idle", "ended"} /\ Stopped(a).stage \in {"idle", "ended"}
           /\ a \in Requests => EndOf(a).stage = "ended" /\ Stopped(a).stage = "ended"
           /\ Stopped(a).part = actor[a].part
<1>1. actor[a].part \in BOOLEAN
  BY MetadataFacts DEF ActorState
<1> DEFINE stage == IF a \in {Worker} \cup Background THEN "idle" ELSE "ended"
<1>2. /\ stage \in {"idle", "ended"} /\ stage \in Stages
      /\ a \in Requests => stage = "ended"
  BY MetadataFacts DEF Stages
<1>3. EndOf(a) = [Idle EXCEPT !.stage = stage]
  BY DEF EndOf
<1> HIDE DEF stage
<1>4. EndOf(a) \in ActorState(saved) /\ EndOf(a).stage = stage
  BY <1>2, <1>3, IdleTyped DEF ActorState
<1>5. /\ Stopped(a) \in ActorState(saved) /\ Stopped(a).stage = stage
      /\ Stopped(a).part = actor[a].part
  BY <1>1, <1>4 DEF Stopped, ActorState
<1> QED
  BY <1>2, <1>4, <1>5

LEMMA FailTyped ==
    ASSUME MetadataInv, NEW a \in Actors, actor' = Fail(a)
    PROVE  /\ actor' = [actor EXCEPT ![a] = actor'[a]] /\ actor'[a] \in ActorState(saved)
           /\ a = Worker => actor'[a].stage = "choosing"
           /\ a # Worker => actor'[a].stage \in {"idle", "ended"}
           /\ a \in Requests => actor'[a].stage = "ended" /\ actor'[a].part = actor[a].part
<1>1. actor[a] \in ActorState(saved) /\ actor \in [Actors -> ActorState(saved)]
      /\ Worker \notin Requests
  BY MetadataFacts
<1>2. CASE a = Worker
  <2>1. actor' = [actor EXCEPT ![a] = [actor[a] EXCEPT !.stage = "choosing", !.loaded = {}]]
    BY <1>1, <1>2 DEF Fail
  <2>2. actor'[a] = [actor[a] EXCEPT !.stage = "choosing", !.loaded = {}]
    BY <1>1, <2>1
  <2>3. actor'[a] \in ActorState(saved) /\ actor'[a].stage = "choosing"
    BY <1>1, <2>2 DEF ActorState, Stages, Maybe
  <2> QED
    BY <1>1, <1>2, <2>1, <2>2, <2>3
<1>3. CASE a # Worker
  <2>1. actor' = [actor EXCEPT ![a] = Stopped(a)] /\ actor'[a] = Stopped(a)
    BY <1>1, <1>3 DEF Fail
  <2> QED
    BY <1>1, <1>3, <2>1, EndTyped
<1> QED
  BY <1>2, <1>3

\* Errors leave the game as it is: merged, deleted or left halfway.
LEMMA FailStep ==
    ASSUME MetadataInv, NEW a \in Actors, actor[a].stage \notin {"idle", "ended"},
           NoteOverlap, actor' = Fail(a) \/ (a # Worker /\ actor' = [actor EXCEPT ![a] = Stopped(a)]),
           UNCHANGED <<game, effective, fetched, queue, jobs, saved>>,
           ~overlapped' => /\ NeverOutdated
                           /\ \/ a = Worker \/ game.deleted \/ IsMerged
                              \/ a \in Requests /\ actor[a].part
    PROVE  MetadataInv'
<1>1. actor' = Fail(a)
  BY DEF Fail
<1>2. /\ actor' = [actor EXCEPT ![a] = actor'[a]] /\ actor'[a] \in ActorState(saved)
      /\ a = Worker => actor'[a].stage = "choosing"
      /\ a # Worker => actor'[a].stage \in {"idle", "ended"}
      /\ a \in Requests => actor'[a].stage = "ended" /\ actor'[a].part = actor[a].part
      /\ a = Worker => a \notin Requests
  BY <1>1, FailTyped, MetadataFacts
<1>3. ASSUME ~overlapped'
      PROVE  /\ actor'[a].stage \notin {"idle", "ended"} => Alone(a)'
             /\ actor'[a].stage \in {"idle", "ended"} => AtRest'
  <2>1. LeftHalfway => LeftHalfway'
    BY <1>2, <1>3, TakingTurns
  <2>2. NeverOutdated'
    BY <1>3, GameKept
  <2>3. CASE a = Worker
    BY <1>2, <2>2, <2>3 DEF Alone
  <2>4. CASE a # Worker
    <3>1. IsMerged'
      <4>1. CASE game.deleted
        BY <4>1 DEF IsMerged
      <4>2. CASE IsMerged
        BY <2>1, <4>2, GameKept
      <4>3. CASE a \in Requests /\ actor[a].part
        <5>1. LeftHalfway'
          BY <1>2, <4>3 DEF LeftHalfway
        <5> QED
          BY <5>1 DEF IsMerged
      <4> QED
        BY <1>3, <2>4, <4>1, <4>2, <4>3
    <3> QED
      BY <1>2, <2>2, <2>4, <3>1 DEF AtRest
  <2> QED
    BY <2>3, <2>4
<1> QED
  BY <1>2, <1>3, QuietStep

LEMMA FetchStep ==
    ASSUME MetadataInv, NEW a \in {Worker} \cup Requests, Fetch(a) PROVE MetadataInv'
<1>1. /\ a \in Actors /\ actor[a].stage = "fetching" /\ NoteOverlap
      /\ UNCHANGED <<game, effective, queue, jobs>>
  BY MetadataFacts DEF Fetch
<1>2. ASSUME NEW w \in actor[a].want,
             \/ /\ saved' = saved + 1
                /\ fetched' = [fetched EXCEPT ![w[1]][w[2]] = saved']
             \/ fetched[w[1]][w[2]] > 0 /\ UNCHANGED <<fetched, saved>>,
             Goto(a, "unmapping")
      PROVE  MetadataInv'
  <2>1. /\ actor' = [actor EXCEPT ![a] = actor'[a]]
        /\ actor'[a] \in ActorState(saved) /\ actor'[a].stage = "unmapping"
        /\ actor'[a].first = actor[a].first
    BY <1>1, <1>2, GotoTyped DEF Stages
  <2>2. /\ saved \in Nat /\ fetched \in [Providers -> [Entries -> 0 .. saved]]
        /\ game \in GameRow /\ effective \in Maybe(MergedRow(saved))
        /\ game.linked => effective # {}
    BY MetadataFacts
  <2>3. saved' \in Nat /\ saved <= saved' /\ fetched' \in [Providers -> [Entries -> 0 .. saved']]
    BY <1>2, <2>2
  <2>4. actor'[a] \in ActorState(saved') /\ effective' \in Maybe(MergedRow(saved'))
    BY <1>1, <2>1, <2>2, <2>3, MoreIsSaved
  <2>5. ASSUME ~overlapped' PROVE (game.deleted => ~game.linked) /\ Alone(a)'
    <3>1. (game.deleted => ~game.linked) /\ Alone(a)
      BY <1>1, <2>1, <2>5, TakingTurns
    <3>2. NeverOutdated'
      BY <1>1, <3>1, GameKept DEF Alone
    <3> QED
      BY <1>1, <2>1, <3>1, <3>2 DEF Alone
  <2>6. ~overlapped' => /\ game'.deleted => ~game'.linked
                        /\ actor'[a].stage \notin {"idle", "ended"} => Alone(a)'
                        /\ actor'[a].stage \in {"idle", "ended"} => AtRest'
    BY <1>1, <2>1, <2>5
  <2>7. /\ game' \in GameRow /\ (game'.linked => effective' # {})
        /\ queue' = queue /\ jobs' = jobs
    BY <1>1, <2>2
  <2> QED
    BY <1>1, <2>1, <2>3, <2>4, <2>6, <2>7, ActorStep
<1>3. ASSUME actor' = Fail(a), UNCHANGED <<fetched, saved>> PROVE MetadataInv'
  <2>1. actor' = [actor EXCEPT ![a] = actor'[a]]
    BY <1>1, <1>3, FailTyped
  <2>2. ASSUME ~overlapped'
        PROVE  NeverOutdated /\ (a = Worker \/ IsMerged \/ (a \in Requests /\ actor[a].part))
    <3>1. Alone(a)
      BY <1>1, <2>1, <2>2, TakingTurns
    <3> QED
      BY <1>1, <3>1 DEF Alone
  <2> QED
    BY <1>1, <1>3, <2>2, FailStep
<1> QED
  BY <1>2, <1>3 DEF Fetch

LEMMA ReadForUnmapStep ==
    ASSUME MetadataInv, NEW a \in Actors, ReadForUnmap(a) PROVE MetadataInv'
<1>1. /\ actor[a].stage = "unmapping" /\ NoteOverlap
      /\ UNCHANGED <<game, effective, fetched, queue, jobs, saved>>
  BY DEF ReadForUnmap
<1>2. CASE game.deleted
  <2>1. actor' = Fail(a)
    BY <1>2 DEF ReadForUnmap
  <2>2. actor' = [actor EXCEPT ![a] = actor'[a]]
    BY <2>1, FailTyped
  <2>3. ~overlapped' => NeverOutdated
    BY <1>1, <2>2, TakingTurns DEF Alone
  <2> QED
    BY <1>1, <1>2, <2>1, <2>3, FailStep
<1>3. CASE ~game.deleted
  <2> DEFINE g == Without(Load, actor[a].want)
             stage == IF Load.merged = {} THEN "saving" ELSE "deleting"
  <2>1. actor' = [actor EXCEPT ![a].loaded = {g}, ![a].stage = stage]
    BY <1>3 DEF ReadForUnmap
  <2>2. /\ Load \in GameRead(saved) /\ actor[a] \in ActorState(saved)
        /\ Load.merged = IF game.linked THEN effective ELSE {}
        /\ game.linked => effective # {}
        /\ actor \in [Actors -> ActorState(saved)]
    BY MetadataFacts, LoadTyped
  <2>3. g \in GameRead(saved) /\ g.merged = Load.merged
    BY <2>2, WithoutTyped
  <2>4. {g} \in Maybe(GameRead(saved)) /\ stage \in Stages
    BY <2>3 DEF Maybe, Stages
  <2>5. stage = IF game.linked THEN "deleting" ELSE "saving"
    BY <2>2
  <2> HIDE DEF g, stage
  <2>6. actor'[a] = [actor[a] EXCEPT !.loaded = {g}, !.stage = stage]
    BY <2>1, <2>2
  <2>7. actor' = [actor EXCEPT ![a] = actor'[a]]
    BY <2>1, <2>2
  <2>8. /\ actor'[a] \in ActorState(saved) /\ actor'[a].stage = stage
        /\ actor'[a].loaded = {g} /\ actor'[a].first = actor[a].first
    BY <2>2, <2>4, <2>6 DEF ActorState
  <2>9. ASSUME ~overlapped' PROVE Alone(a)'
    <3>1. Alone(a)
      BY <1>1, <2>7, <2>9, TakingTurns
    <3> QED
      BY <1>1, <2>2, <2>3, <2>5, <2>8, <3>1 DEF Alone
  <2> QED
    BY <1>1, <2>5, <2>7, <2>8, <2>9, QuietStep
<1> QED
  BY <1>2, <1>3

LEMMA DeleteMergedStep ==
    ASSUME MetadataInv, NEW a \in Actors, DeleteMerged(a) PROVE MetadataInv'
<1>1. /\ actor[a].stage = "deleting" /\ NoteOverlap
      /\ UNCHANGED <<fetched, queue, jobs, saved>>
  BY DEF DeleteMerged
<1>2. PICK g \in actor[a].loaded :
          IF effective # {} /\ \A m \in g.merged, e \in effective : m.id = e.id
          THEN /\ effective' = {}
               /\ game' = [game EXCEPT !.linked = FALSE]
               /\ actor' = [actor EXCEPT ![a].stage = "saving",
                                         ![a].loaded = {[g EXCEPT !.merged = {}]}]
          ELSE actor' = Fail(a) /\ UNCHANGED <<effective, game>>
  BY DEF DeleteMerged
<1>3. /\ actor[a] \in ActorState(saved) /\ effective \in Maybe(MergedRow(saved))
      /\ actor \in [Actors -> ActorState(saved)] /\ game \in GameRow
      /\ saved \in Nat /\ fetched \in [Providers -> [Entries -> 0 .. saved]]
  BY MetadataFacts
<1>4. g \in GameRead(saved)
  BY <1>3 DEF ActorState, Maybe
<1>5. CASE effective # {} /\ \A m \in g.merged, e \in effective : m.id = e.id
  <2> DEFINE h == [g EXCEPT !.merged = {}]
  <2>1. h \in GameRead(saved) /\ h.merged = {}
    BY <1>4 DEF GameRead, Maybe
  <2> HIDE DEF h
  <2>2. {h} \in Maybe(GameRead(saved))
    BY <2>1 DEF Maybe
  <2>3. /\ effective' = {} /\ game' = [game EXCEPT !.linked = FALSE]
        /\ actor' = [actor EXCEPT ![a].stage = "saving", ![a].loaded = {h}]
    BY <1>2, <1>5 DEF h
  <2>4. actor'[a] = [actor[a] EXCEPT !.stage = "saving", !.loaded = {h}]
    BY <1>3, <2>3
  <2>5. actor' = [actor EXCEPT ![a] = actor'[a]]
    BY <1>3, <2>3
  <2>6. /\ actor'[a] \in ActorState(saved) /\ actor'[a].stage = "saving"
        /\ actor'[a].loaded = {h} /\ actor'[a].first = actor[a].first
    BY <1>3, <2>2, <2>4 DEF ActorState, Stages
  <2>7. /\ game' \in GameRow /\ game'.linked = FALSE
        /\ effective' \in Maybe(MergedRow(saved))
    BY <1>3, <2>3 DEF GameRow, Maybe
  <2>8. ASSUME ~overlapped' PROVE Alone(a)'
    <3>1. Alone(a)
      BY <1>1, <2>5, <2>8, TakingTurns
    <3> QED
      BY <1>1, <2>1, <2>3, <2>6, <2>7, <3>1 DEF Alone
  <2>9. ~overlapped' => /\ game'.deleted => ~game'.linked
                        /\ actor'[a].stage \notin {"idle", "ended"} => Alone(a)'
                        /\ actor'[a].stage \in {"idle", "ended"} => AtRest'
    BY <2>6, <2>7, <2>8
  <2>10. /\ saved' \in Nat /\ saved <= saved' /\ actor'[a] \in ActorState(saved')
         /\ effective' \in Maybe(MergedRow(saved')) /\ (game'.linked => effective' # {})
         /\ fetched' \in [Providers -> [Entries -> 0 .. saved']]
         /\ queue' = queue /\ jobs' = jobs
    BY <1>1, <1>3, <2>6, <2>7
  <2> QED
    BY <1>1, <2>5, <2>7, <2>9, <2>10, ActorStep
<1>6. CASE ~(effective # {} /\ \A m \in g.merged, e \in effective : m.id = e.id)
  <2>1. actor' = Fail(a) /\ UNCHANGED <<effective, game>>
    BY <1>2, <1>6
  <2>2. actor' = [actor EXCEPT ![a] = actor'[a]]
    BY <2>1, FailTyped
  <2>3. overlapped'
    <3> SUFFICES ASSUME ~overlapped' PROVE FALSE
      OBVIOUS
    <3>1. effective # {} /\ g.merged = effective
      BY <1>1, <2>2, TakingTurns DEF Alone
    <3>2. \A m, e \in effective : m = e
      BY <1>3 DEF Maybe
    <3> QED
      BY <1>6, <3>1, <3>2
  <2> QED
    BY <1>1, <2>1, <2>3, FailStep
<1> QED
  BY <1>5, <1>6

LEMMA TakeRequestStep ==
    ASSUME MetadataInv, NEW r \in Requests, TakeRequest(r) PROVE MetadataInv'
<1>1. /\ r \in Actors /\ actor[r].stage = "choosing" /\ actor[r].todo > 0 /\ NoteOverlap
      /\ UNCHANGED <<game, effective, fetched, queue, jobs, saved>>
      /\ actor[r] \in ActorState(saved) /\ actor \in [Actors -> ActorState(saved)]
  BY MetadataFacts DEF TakeRequest
<1>2. PICK p \in Providers, e \in Entries \cup {NoEntry} :
          actor' = [actor EXCEPT ![r].todo = @ - 1, ![r].want = {<<p, e>>},
                ![r].stage = IF e = NoEntry THEN "unmapping" ELSE "fetching"]
  BY DEF TakeRequest
<1> DEFINE stage == IF e = NoEntry THEN "unmapping" ELSE "fetching"
           W == {<<p, e>>}
<1>3. stage \in Stages /\ stage \in {"unmapping", "fetching"}
      /\ W \in Maybe(Providers \X (Entries \cup {NoEntry}))
  BY DEF Stages, Maybe
<1> HIDE DEF stage, W
<1>4. actor' = [actor EXCEPT ![r].todo = @ - 1, ![r].want = W, ![r].stage = stage]
  BY <1>2 DEF stage, W
<1>5. actor'[r] = [actor[r] EXCEPT !.todo = actor[r].todo - 1, !.want = W, !.stage = stage]
  BY <1>1, <1>4
<1>6. actor' = [actor EXCEPT ![r] = actor'[r]]
  BY <1>1, <1>4
<1>7. actor[r].todo - 1 \in 0 .. MaxMappings
  BY <1>1, MetadataAssumption DEF ActorState
<1>8. [actor[r] EXCEPT !.todo = actor[r].todo - 1, !.want = W] \in ActorState(saved)
  BY <1>1, <1>3, <1>7 DEF ActorState
<1>9. actor'[r] \in ActorState(saved)
  BY <1>3, <1>5, <1>8 DEF ActorState
<1>10. /\ actor'[r].stage = stage /\ actor'[r].first = actor[r].first
       /\ actor'[r].part = actor[r].part
  BY <1>1, <1>5 DEF ActorState
<1>11. ASSUME ~overlapped' PROVE Alone(r)'
  <2>1. Alone(r) /\ (LeftHalfway => LeftHalfway')
    BY <1>1, <1>6, <1>11, TakingTurns
  <2>2. NeverOutdated' /\ (IsMerged => IsMerged')
    BY <1>1, <2>1, GameKept DEF Alone
  <2>3. actor'[r].part \/ IsMerged'
    BY <1>1, <1>10, <2>1, <2>2, Zenon DEF Alone
  <2> QED
    BY <1>1, <1>3, <1>10, <2>1, <2>2, <2>3 DEF Alone
<1> QED
  BY <1>1, <1>3, <1>6, <1>9, <1>10, <1>11, QuietStep

\* The row of the user's metadata is the game's as soon as it is saved, if the
\* game had one; what was merged is outdated until the merge.
LEMMA SaveUserRowStep ==
    ASSUME MetadataInv, NEW r \in Requests, SaveUserRow(r) PROVE MetadataInv'
<1>1. /\ r \in Actors /\ actor[r].stage = "choosing" /\ NoteOverlap
      /\ UNCHANGED <<effective, fetched, queue, jobs, saved>>
      /\ saved \in Nat /\ fetched \in [Providers -> [Entries -> 0 .. saved]]
      /\ game \in GameRow /\ effective \in Maybe(MergedRow(saved))
      /\ game.linked => effective # {}
  BY MetadataFacts DEF SaveUserRow
<1>2. CASE actor[r].edits
  <2>1. /\ game' = IF game.user = NoUser THEN game ELSE [game EXCEPT !.user = r]
        /\ Goto(r, "editing")
    BY <1>2 DEF SaveUserRow
  <2>2. /\ actor' = [actor EXCEPT ![r] = actor'[r]]
        /\ actor'[r] \in ActorState(saved) /\ actor'[r].stage = "editing"
        /\ actor'[r].first = actor[r].first
    BY <1>1, <2>1, GotoTyped DEF Stages
  <2>3. /\ game' \in GameRow /\ game'.linked = game.linked
        /\ game'.deleted = game.deleted
    BY <1>1, <2>1 DEF GameRow, Users
  <2>4. ASSUME ~overlapped' PROVE (game.deleted => ~game.linked) /\ Alone(r)'
    <3>1. Alone(r) /\ (game.deleted => ~game.linked)
      BY <1>1, <2>2, <2>4, TakingTurns
    <3> QED
      BY <1>1, <2>2, <2>3, <3>1 DEF Alone
  <2>5. ~overlapped' => /\ game'.deleted => ~game'.linked
                        /\ actor'[r].stage \notin {"idle", "ended"} => Alone(r)'
                        /\ actor'[r].stage \in {"idle", "ended"} => AtRest'
    BY <2>2, <2>3, <2>4
  <2>6. /\ saved' \in Nat /\ saved <= saved' /\ actor'[r] \in ActorState(saved')
        /\ effective' \in Maybe(MergedRow(saved')) /\ (game'.linked => effective' # {})
        /\ fetched' \in [Providers -> [Entries -> 0 .. saved']]
        /\ queue' = queue /\ jobs' = jobs
    BY <1>1, <2>2, <2>3
  <2> QED
    BY <1>1, <2>2, <2>3, <2>5, <2>6, ActorStep
<1>3. CASE ~actor[r].edits
  <2>1. Goto(r, "reading") /\ UNCHANGED game
    BY <1>3 DEF SaveUserRow
  <2>2. /\ actor' = [actor EXCEPT ![r] = actor'[r]]
        /\ actor'[r] \in ActorState(saved) /\ actor'[r].stage = "reading"
    BY <1>1, <2>1, GotoTyped DEF Stages
  <2>3. ASSUME ~overlapped' PROVE Alone(r)'
    <3>1. Alone(r)
      BY <1>1, <2>2, <2>3, TakingTurns
    <3>2. NeverOutdated'
      BY <1>1, <2>1, <3>1, GameKept DEF Alone
    <3> QED
      BY <2>2, <3>2 DEF Alone
  <2> QED
    BY <1>1, <2>1, <2>2, <2>3, QuietStep
<1> QED
  BY <1>2, <1>3

LEMMA RemoveGameStep ==
    ASSUME MetadataInv, NEW d \in GameDeletions, RemoveGame(d) PROVE MetadataInv'
<1>1. /\ d \in Actors /\ actor[d].stage = "removing" /\ NoteOverlap
      /\ game' = [game EXCEPT !.deleted = TRUE]
      /\ actor' = [actor EXCEPT ![d] = EndOf(d)]
      /\ UNCHANGED <<effective, fetched, queue, jobs, saved>>
      /\ saved \in Nat /\ fetched \in [Providers -> [Entries -> 0 .. saved]]
      /\ game \in GameRow /\ effective \in Maybe(MergedRow(saved))
      /\ game.linked => effective # {}
      /\ actor \in [Actors -> ActorState(saved)]
  BY MetadataFacts DEF RemoveGame
<1>2. /\ actor'[d] = EndOf(d) /\ actor' = [actor EXCEPT ![d] = actor'[d]]
      /\ actor'[d] \in ActorState(saved) /\ actor'[d].stage \in {"idle", "ended"}
  BY <1>1, EndTyped
<1>3. /\ game' \in GameRow /\ game'.linked = game.linked /\ game'.deleted = TRUE
  BY <1>1 DEF GameRow
<1>4. ASSUME ~overlapped' PROVE ~game'.linked /\ AtRest'
  <2>1. ~game.linked
    BY <1>1, <1>2, <1>4, TakingTurns DEF Alone
  <2> QED
    BY <1>3, <2>1 DEF AtRest, NeverOutdated, IsMerged
<1>5. ~overlapped' => /\ game'.deleted => ~game'.linked
                      /\ actor'[d].stage \notin {"idle", "ended"} => Alone(d)'
                      /\ actor'[d].stage \in {"idle", "ended"} => AtRest'
  BY <1>2, <1>4
<1>6. /\ saved' \in Nat /\ saved <= saved' /\ actor'[d] \in ActorState(saved')
      /\ effective' \in Maybe(MergedRow(saved')) /\ (game'.linked => effective' # {})
      /\ fetched' \in [Providers -> [Entries -> 0 .. saved']]
      /\ queue' = queue /\ jobs' = jobs
  BY <1>1, <1>2, <1>3
<1> QED
  BY <1>1, <1>2, <1>3, <1>5, <1>6, ActorStep

\* A game is saved as it was read.
LEMMA SaveStep ==
    ASSUME MetadataInv, NEW a \in Actors, NEW g \in GameRead(saved), SaveGame(g),
           actor[a].stage \notin {"idle", "ended"}, NoteOverlap,
           actor' = [actor EXCEPT ![a] = actor'[a]], actor'[a] \in ActorState(saved),
           UNCHANGED <<fetched, queue, jobs, saved>>,
           ~overlapped' =>
              /\ g.deleted => g.merged = {}
              /\ actor'[a].stage \notin {"idle", "ended"} => Alone(a)'
              /\ actor'[a].stage \in {"idle", "ended"} => AtRest'
    PROVE  MetadataInv'
<1>1. /\ game' \in GameRow /\ effective' \in Maybe(MergedRow(saved))
      /\ game'.linked => effective' # {}
      /\ game'.deleted = g.deleted /\ game'.linked = (g.merged # {})
  BY MetadataFacts, SavedTyped
<1>2. /\ saved' \in Nat /\ saved <= saved' /\ actor'[a] \in ActorState(saved')
      /\ effective' \in Maybe(MergedRow(saved'))
      /\ fetched' \in [Providers -> [Entries -> 0 .. saved']]
      /\ queue' = queue /\ jobs' = jobs
  BY <1>1, MetadataFacts
<1>3. ~overlapped' => /\ game'.deleted => ~game'.linked
                      /\ actor'[a].stage \notin {"idle", "ended"} => Alone(a)'
                      /\ actor'[a].stage \in {"idle", "ended"} => AtRest'
  BY <1>1
<1> QED
  BY <1>1, <1>2, <1>3, ActorStep

LEMMA SaveUnmappedStep ==
    ASSUME MetadataInv, NEW a \in Actors, SaveUnmapped(a) PROVE MetadataInv'
<1>1. /\ actor[a].stage = "saving" /\ NoteOverlap
      /\ UNCHANGED <<fetched, queue, jobs, saved>>
      /\ actor' = [actor EXCEPT ![a].stage = AfterUnmap(a), ![a].loaded = {},
                                ![a].part = a \in Requests]
      /\ actor[a] \in ActorState(saved) /\ actor \in [Actors -> ActorState(saved)]
  BY MetadataFacts DEF SaveUnmapped
<1>2. PICK g \in actor[a].loaded : SaveGame(g)
  BY DEF SaveUnmapped
<1>3. g \in GameRead(saved)
  BY <1>1 DEF ActorState, Maybe
<1> DEFINE stage == AfterUnmap(a)
           part == a \in Requests
<1>4. /\ stage \in {"removing", "adding", "choosing"} /\ stage \in Stages
      /\ a \in Requests => stage # "removing"
      /\ part \in BOOLEAN /\ {} \in Maybe(GameRead(saved))
  BY MetadataFacts DEF AfterUnmap, Stages, Maybe
<1>5. a \in Requests => part
  OBVIOUS
<1> HIDE DEF stage, part
<1>6. actor' = [actor EXCEPT ![a].stage = stage, ![a].loaded = {}, ![a].part = part]
  BY <1>1 DEF stage, part
<1>7. actor'[a] = [actor[a] EXCEPT !.stage = stage, !.loaded = {}, !.part = part]
  BY <1>1, <1>6
<1>8. actor' = [actor EXCEPT ![a] = actor'[a]]
  BY <1>1, <1>6
<1>9. [actor[a] EXCEPT !.stage = stage, !.loaded = {}] \in ActorState(saved)
  BY <1>1, <1>4 DEF ActorState
<1>10. actor'[a] \in ActorState(saved)
  BY <1>4, <1>7, <1>9 DEF ActorState
<1>11. /\ actor'[a].stage = stage /\ actor'[a].first = actor[a].first
       /\ actor'[a].part = part /\ actor'[a].loaded = {}
  BY <1>1, <1>7 DEF ActorState
<1>12. /\ game'.linked = (g.merged # {})
       /\ effective' = IF g.merged = {} THEN effective ELSE g.merged
  BY <1>2, <1>3, MetadataFacts, SavedTyped
<1>13. ASSUME ~overlapped' PROVE g.merged = {} /\ Alone(a)'
  <2>1. Alone(a)
    BY <1>1, <1>8, <1>13, TakingTurns
  <2>2. g.merged = {} /\ ~game'.linked /\ effective' = effective
    BY <1>1, <1>2, <1>12, <2>1 DEF Alone
  <2>3. NeverOutdated'
    BY <2>2 DEF NeverOutdated
  <2>4. a \in Requests => actor'[a].part
    BY <1>5, <1>11
  <2>5. a \in Requests => \A h \in actor'[a].first :
                /\ h.merged # {} /\ effective' # {} => h.merged = effective'
                /\ h.deleted => h.merged = {}
    BY <1>1, <1>11, <2>1, <2>2 DEF Alone
  <2> QED
    BY <1>4, <1>11, <2>2, <2>3, <2>4, <2>5 DEF Alone
<1> QED
  BY <1>1, <1>2, <1>3, <1>4, <1>8, <1>10, <1>11, <1>13, SaveStep

LEMMA ReadForMapStep ==
    ASSUME MetadataInv, NEW a \in Actors, ReadForMap(a) PROVE MetadataInv'
<1>1. /\ actor[a].stage = "adding" /\ NoteOverlap
      /\ UNCHANGED <<game, effective, fetched, queue, jobs, saved>>
      /\ actor[a] \in ActorState(saved) /\ actor \in [Actors -> ActorState(saved)]
  BY MetadataFacts DEF ReadForMap
<1>2. PICK w \in actor[a].want :
          actor' = IF game.deleted THEN Fail(a)
                   ELSE [actor EXCEPT ![a].loaded = {[Load EXCEPT !.map[w[1]] = w[2]]},
                                      ![a].stage = "mapping"]
  BY DEF ReadForMap
<1>3. CASE game.deleted
  <2>1. actor' = Fail(a)
    BY <1>2, <1>3
  <2>2. actor' = [actor EXCEPT ![a] = actor'[a]]
    BY <2>1, FailTyped
  <2>3. ~overlapped' => NeverOutdated
    BY <1>1, <2>2, TakingTurns DEF Alone, NeverOutdated
  <2> QED
    BY <1>1, <1>3, <2>1, <2>3, FailStep
<1>4. CASE ~game.deleted
  <2> DEFINE g == [Load EXCEPT !.map[w[1]] = w[2]]
  <2>1. actor[a].want \in Maybe(Providers \X (Entries \cup {NoEntry}))
    BY <1>1 DEF ActorState
  <2>2. w[1] \in Providers /\ w[2] \in Entries \cup {NoEntry}
    BY <2>1 DEF Maybe
  <2>3. /\ Load \in GameRead(saved)
        /\ Load.merged = IF game.linked THEN effective ELSE {}
    BY MetadataFacts, LoadTyped
  <2>4. g \in GameRead(saved) /\ g.merged = Load.merged
    BY <2>2, <2>3, MappedTyped
  <2>5. actor' = [actor EXCEPT ![a].loaded = {g}, ![a].stage = "mapping"]
    BY <1>2, <1>4
  <2> HIDE DEF g
  <2>6. {g} \in Maybe(GameRead(saved))
    BY <2>4 DEF Maybe
  <2>7. actor'[a] = [actor[a] EXCEPT !.loaded = {g}, !.stage = "mapping"]
    BY <1>1, <2>5
  <2>8. actor' = [actor EXCEPT ![a] = actor'[a]]
    BY <1>1, <2>5
  <2>9. /\ actor'[a] \in ActorState(saved) /\ actor'[a].stage = "mapping"
        /\ actor'[a].loaded = {g} /\ actor'[a].first = actor[a].first
        /\ actor'[a].part = actor[a].part
    BY <1>1, <2>6, <2>7 DEF ActorState, Stages
  <2>10. ASSUME ~overlapped' PROVE Alone(a)'
    <3>1. Alone(a)
      BY <1>1, <2>8, <2>10, TakingTurns
    <3>2. a \in Requests => actor'[a].part
      BY <1>1, <2>9, <3>1 DEF Alone
    <3> QED
      BY <1>1, <2>3, <2>4, <2>9, <3>1, <3>2 DEF Alone
  <2> QED
    BY <1>1, <2>8, <2>9, <2>10, QuietStep
<1> QED
  BY <1>3, <1>4

LEMMA SaveMappedStep ==
    ASSUME MetadataInv, NEW a \in Actors, SaveMapped(a) PROVE MetadataInv'
<1>1. /\ actor[a].stage = "mapping" /\ NoteOverlap
      /\ UNCHANGED <<fetched, queue, jobs, saved>>
      /\ actor[a] \in ActorState(saved) /\ actor \in [Actors -> ActorState(saved)]
  BY MetadataFacts DEF SaveMapped
<1>2. PICK g \in actor[a].loaded :
          IF Savable(g)
          THEN SaveGame(g) /\ actor' = [actor EXCEPT ![a].stage = "choosing", ![a].loaded = {}]
          ELSE actor' = Fail(a) /\ UNCHANGED <<game, effective>>
  BY DEF SaveMapped
<1>3. g \in GameRead(saved)
  BY <1>1 DEF ActorState, Maybe
<1>4. CASE Savable(g)
  <2>1. SaveGame(g) /\ actor' = [actor EXCEPT ![a].stage = "choosing", ![a].loaded = {}]
    BY <1>2, <1>4
  <2>2. actor'[a] = [actor[a] EXCEPT !.stage = "choosing", !.loaded = {}]
    BY <1>1, <2>1
  <2>3. actor' = [actor EXCEPT ![a] = actor'[a]]
    BY <1>1, <2>1
  <2>4. /\ actor'[a] \in ActorState(saved) /\ actor'[a].stage = "choosing"
        /\ actor'[a].first = actor[a].first /\ actor'[a].part = actor[a].part
    BY <1>1, <2>2 DEF ActorState, Stages, Maybe
  <2>5. /\ game'.linked = (g.merged # {})
        /\ effective' = IF g.merged = {} THEN effective ELSE g.merged
    BY <1>3, <2>1, MetadataFacts, SavedTyped
  <2>6. ASSUME ~overlapped' PROVE g.merged = {} /\ Alone(a)'
    <3>1. Alone(a)
      BY <1>1, <2>3, <2>6, TakingTurns
    <3>2. g.merged = {} /\ ~game'.linked /\ effective' = effective
      BY <1>1, <1>2, <2>5, <3>1 DEF Alone
    <3>3. NeverOutdated'
      BY <3>2 DEF NeverOutdated
    <3>4. a \in Requests => actor'[a].part
      BY <1>1, <2>4, <3>1 DEF Alone
    <3>5. a \in Requests => \A h \in actor'[a].first :
                /\ h.merged # {} /\ effective' # {} => h.merged = effective'
                /\ h.deleted => h.merged = {}
      BY <1>1, <2>4, <3>1, <3>2 DEF Alone
    <3> QED
      BY <2>4, <3>2, <3>3, <3>4, <3>5 DEF Alone
  <2> QED
    BY <1>1, <1>3, <2>1, <2>3, <2>4, <2>6, SaveStep
<1>5. CASE ~Savable(g)
  <2>1. actor' = Fail(a) /\ UNCHANGED <<effective, game>>
    BY <1>2, <1>5
  <2>2. actor' = [actor EXCEPT ![a] = actor'[a]]
    BY <2>1, FailTyped
  <2>3. ~overlapped' => g.merged = {}
    BY <1>1, <2>2, TakingTurns DEF Alone
  <2>4. overlapped'
    BY <1>3, <1>5, <2>3, MetadataFacts, SameIsSavable
  <2> QED
    BY <1>1, <2>1, <2>4, FailStep
<1> QED
  BY <1>4, <1>5

\* The merge is left out only for a game that has no sources, or whose merged
\* metadata is there and fresh.
LEMMA ReadForMergeStep ==
    ASSUME MetadataInv, NEW a \in Actors, a # Worker, ReadForMerge(a) PROVE MetadataInv'
<1>1. /\ actor[a].stage = "reading" /\ NoteOverlap
      /\ UNCHANGED <<game, effective, fetched, queue, jobs, saved>>
      /\ actor[a] \in ActorState(saved) /\ actor \in [Actors -> ActorState(saved)]
  BY MetadataFacts DEF ReadForMerge
<1>2. /\ Load \in GameRead(saved) /\ {Load} \in Maybe(GameRead(saved))
      /\ Load.map = game.map /\ Load.user = game.user /\ Load.deleted = game.deleted
      /\ Load.merged = IF game.linked THEN effective ELSE {}
  BY MetadataFacts, LoadTyped
<1> DEFINE none == Load.map = Unmapped /\ Load.user = NoUser
           fresh == Load.user = NoUser /\ Fresh(Load)
<1>3. CASE game.deleted
  <2>1. actor' = [actor EXCEPT ![a] = Stopped(a)]
    BY <1>3 DEF ReadForMerge
  <2>2. actor'[a] = Stopped(a) /\ actor' = [actor EXCEPT ![a] = actor'[a]]
    BY <1>1, <2>1
  <2>3. ~overlapped' => NeverOutdated
    BY <1>1, <1>3, <2>2, TakingTurns DEF NeverOutdated
  <2> QED
    BY <1>1, <1>3, <2>1, <2>3, FailStep
<1>4. CASE ~game.deleted /\ (none \/ fresh)
  <2>1. actor' = [actor EXCEPT ![a] = EndOf(a)]
    BY <1>4 DEF ReadForMerge
  <2>2. /\ actor'[a] = EndOf(a) /\ actor' = [actor EXCEPT ![a] = actor'[a]]
        /\ actor'[a] \in ActorState(saved) /\ actor'[a].stage \in {"idle", "ended"}
    BY <1>1, <2>1, EndTyped
  <2>3. ASSUME ~overlapped' PROVE AtRest'
    <3>1. NeverOutdated
      BY <1>1, <1>2, <1>4, <2>2, <2>3, TakingTurns DEF Alone
    <3>2. CASE none
      BY <1>1, <1>2, <3>1, <3>2, GameKept DEF AtRest, IsMerged, HasSources
    <3>3. CASE fresh
      <4>1. Load.merged # {}
        BY <3>3 DEF Fresh
      <4>2. game.linked
        BY <1>2, <4>1
      <4> QED
        BY <1>1, <3>1, <4>2, GameKept DEF AtRest, IsMerged
    <3> QED
      BY <1>4, <3>2, <3>3
  <2> QED
    BY <1>1, <2>2, <2>3, QuietStep
<1>5. CASE ~game.deleted /\ ~(none \/ fresh)
  <2>1. actor' = [actor EXCEPT ![a].stage = "storing", ![a].loaded = {Load}]
    BY <1>5 DEF ReadForMerge
  <2>2. Load.map # Unmapped \/ Load.user # NoUser
    BY <1>5
  <2> HIDE DEF none, fresh
  <2>3. actor'[a] = [actor[a] EXCEPT !.stage = "storing", !.loaded = {Load}]
    BY <1>1, <2>1
  <2>4. actor' = [actor EXCEPT ![a] = actor'[a]]
    BY <1>1, <2>1
  <2>5. /\ actor'[a] \in ActorState(saved) /\ actor'[a].stage = "storing"
        /\ actor'[a].loaded = {Load}
    BY <1>1, <1>2, <2>3 DEF ActorState, Stages
  <2>6. Alone(a)'
    BY <1>2, <1>5, <2>2, <2>5 DEF Alone
  <2> QED
    BY <1>1, <2>4, <2>5, <2>6, QuietStep
<1> QED
  BY <1>3, <1>4, <1>5

LEMMA StoreMergedStep ==
    ASSUME MetadataInv, NEW a \in Actors, StoreMerged(a) PROVE MetadataInv'
<1>1. /\ actor[a].stage = "storing" /\ NoteOverlap /\ saved' = saved + 1
      /\ UNCHANGED <<game, fetched, queue, jobs>>
      /\ actor[a] \in ActorState(saved) /\ actor \in [Actors -> ActorState(saved)]
      /\ saved \in Nat /\ effective \in Maybe(MergedRow(saved)) /\ game \in GameRow
      /\ fetched \in [Providers -> [Entries -> 0 .. saved]]
  BY MetadataFacts DEF StoreMerged
<1> DEFINE id == IF effective = {} THEN saved' ELSE (CHOOSE e \in effective : TRUE).id
           row(g) == [id |-> id, at |-> saved', map |-> g.map, user |-> g.user]
<1>2. PICK g \in actor[a].loaded :
          /\ effective' = {row(g)}
          /\ actor' = [actor EXCEPT ![a].stage = "linking",
                                    ![a].loaded = {[g EXCEPT !.merged = {row(g)}]}]
  BY DEF StoreMerged
<1>3. g \in GameRead(saved)
  BY <1>1 DEF ActorState, Maybe
<1>4. id \in Nat /\ 1 <= id /\ id <= saved'
  <2>1. CASE effective = {}
    BY <1>1, <2>1
  <2>2. CASE effective # {}
    <3>1. (CHOOSE e \in effective : TRUE) \in MergedRow(saved)
      BY <1>1, <2>2 DEF Maybe
    <3> QED
      BY <1>1, <2>2, <3>1 DEF MergedRow
  <2> QED
    BY <2>1, <2>2
<1> HIDE DEF id
<1>5. /\ row(g) \in MergedRow(saved') /\ row(g).map = g.map /\ row(g).user = g.user
  BY <1>1, <1>3, <1>4 DEF MergedRow, GameRead
<1> DEFINE m == row(g)
           h == [g EXCEPT !.merged = {m}]
<1>6. effective' = {m} /\ m \in MergedRow(saved') /\ m.map = g.map /\ m.user = g.user
      /\ actor' = [actor EXCEPT ![a].stage = "linking", ![a].loaded = {h}]
  BY <1>2, <1>5
<1> HIDE DEF m
<1>7. {m} \in Maybe(MergedRow(saved')) /\ saved' \in Nat /\ saved <= saved'
  BY <1>1, <1>6 DEF Maybe
<1>8. g \in GameRead(saved') /\ actor[a] \in ActorState(saved')
      /\ fetched' \in [Providers -> [Entries -> 0 .. saved']]
  BY <1>1, <1>3, <1>7, MoreIsSaved
<1>9. /\ h \in GameRead(saved') /\ h.merged = {m} /\ h.map = g.map /\ h.user = g.user
      /\ h.deleted = g.deleted
  BY <1>7, <1>8 DEF GameRead
<1> HIDE DEF h
<1>10. {h} \in Maybe(GameRead(saved'))
  BY <1>9 DEF Maybe
<1>11. actor'[a] = [actor[a] EXCEPT !.stage = "linking", !.loaded = {h}]
  BY <1>1, <1>6
<1>12. actor' = [actor EXCEPT ![a] = actor'[a]]
  BY <1>1, <1>6
<1>13. /\ actor'[a] \in ActorState(saved') /\ actor'[a].stage = "linking"
       /\ actor'[a].loaded = {h}
  BY <1>8, <1>10, <1>11 DEF ActorState, Stages
<1>14. ASSUME ~overlapped' PROVE (game.deleted => ~game.linked) /\ Alone(a)'
  <2>1. Alone(a) /\ (game.deleted => ~game.linked)
    BY <1>1, <1>12, <1>14, TakingTurns
  <2>2. ~g.deleted /\ (g.map # Unmapped \/ g.user # NoUser)
    BY <1>1, <1>2, <2>1 DEF Alone
  <2> QED
    BY <1>6, <1>9, <1>13, <2>1, <2>2 DEF Alone
<1>15. ~overlapped' => /\ game'.deleted => ~game'.linked
                       /\ actor'[a].stage \notin {"idle", "ended"} => Alone(a)'
                       /\ actor'[a].stage \in {"idle", "ended"} => AtRest'
  BY <1>1, <1>13, <1>14
<1>16. /\ effective' \in Maybe(MergedRow(saved')) /\ (game'.linked => effective' # {})
       /\ game' \in GameRow /\ queue' = queue /\ jobs' = jobs
  BY <1>1, <1>6, <1>7
<1> QED
  BY <1>1, <1>7, <1>8, <1>12, <1>13, <1>15, <1>16, ActorStep

LEMMA SaveMergedStep ==
    ASSUME MetadataInv, NEW a \in Actors, a # Worker, SaveMerged(a) PROVE MetadataInv'
<1>1. /\ actor[a].stage = "linking" /\ NoteOverlap
      /\ UNCHANGED <<fetched, queue, jobs, saved>>
      /\ actor[a] \in ActorState(saved) /\ actor \in [Actors -> ActorState(saved)]
  BY MetadataFacts DEF SaveMerged
<1>2. PICK g \in actor[a].loaded :
          IF Savable(g) THEN SaveGame(g) /\ actor' = [actor EXCEPT ![a] = EndOf(a)]
          ELSE actor' = [actor EXCEPT ![a] = Stopped(a)] /\ UNCHANGED <<game, effective>>
  BY DEF SaveMerged
<1>3. g \in GameRead(saved)
  BY <1>1 DEF ActorState, Maybe
<1>4. CASE Savable(g)
  <2>1. /\ SaveGame(g) /\ actor'[a] = EndOf(a)
        /\ actor' = [actor EXCEPT ![a] = actor'[a]]
    BY <1>1, <1>2, <1>4
  <2>2. actor'[a] \in ActorState(saved) /\ actor'[a].stage \in {"idle", "ended"}
    BY <2>1, EndTyped
  <2>3. /\ game'.map = g.map /\ game'.user = g.user
        /\ game'.linked = (g.merged # {})
        /\ effective' = IF g.merged = {} THEN effective ELSE g.merged
    BY <1>3, <2>1, MetadataFacts, SavedTyped
  <2>4. ASSUME ~overlapped' PROVE ~g.deleted /\ AtRest'
    <3>1. Alone(a)
      BY <1>1, <2>1, <2>4, TakingTurns
    <3>2. /\ ~g.deleted /\ (g.map # Unmapped \/ g.user # NoUser)
          /\ g.merged # {} /\ \A m \in g.merged : m.map = g.map /\ m.user = g.user
      BY <1>1, <1>2, <3>1 DEF Alone
    <3> QED
      BY <2>3, <3>2 DEF AtRest, NeverOutdated, IsMerged, HasSources
  <2> QED
    BY <1>1, <1>3, <2>1, <2>2, <2>4, SaveStep
<1>5. CASE ~Savable(g)
  <2>1. /\ actor' = [actor EXCEPT ![a] = Stopped(a)] /\ UNCHANGED <<effective, game>>
        /\ actor' = [actor EXCEPT ![a] = actor'[a]]
    BY <1>1, <1>2, <1>5
  <2>2. ~overlapped' => g.merged = effective
    BY <1>1, <2>1, TakingTurns DEF Alone
  <2>3. overlapped'
    BY <1>3, <1>5, <2>2, MetadataFacts, SameIsSavable
  <2> QED
    BY <1>1, <2>1, <2>3, FailStep
<1> QED
  BY <1>4, <1>5

\* The game is saved with the mappings it had before the requests, and with what
\* was merged from them; it has user metadata now, so it will be merged.
LEMMA SaveEditedStep ==
    ASSUME MetadataInv, NEW r \in Requests, SaveEdited(r) PROVE MetadataInv'
<1>1. /\ r \in Actors /\ actor[r].stage = "editing" /\ NoteOverlap
      /\ UNCHANGED <<fetched, queue, jobs, saved>>
      /\ actor[r] \in ActorState(saved) /\ actor \in [Actors -> ActorState(saved)]
  BY MetadataFacts DEF SaveEdited
<1>2. PICK g \in actor[r].first :
          IF Savable(g)
          THEN SaveGame([g EXCEPT !.user = r]) /\ Goto(r, "reading")
          ELSE actor' = Fail(r) /\ UNCHANGED <<game, effective>>
  BY DEF SaveEdited
<1>3. g \in GameRead(saved)
  BY <1>1 DEF ActorState, Maybe
<1>4. CASE Savable(g)
  <2> DEFINE h == [g EXCEPT !.user = r]
  <2>1. /\ h \in GameRead(saved) /\ h.merged = g.merged /\ h.user = r
        /\ h.deleted = g.deleted
    BY <1>3 DEF GameRead, Users
  <2>2. SaveGame(h) /\ Goto(r, "reading")
    BY <1>2, <1>4
  <2> HIDE DEF h
  <2>3. /\ actor' = [actor EXCEPT ![r] = actor'[r]]
        /\ actor'[r] \in ActorState(saved) /\ actor'[r].stage = "reading"
    BY <1>1, <2>2, GotoTyped DEF Stages
  <2>4. game'.user # NoUser
    <3>1. game'.user = r
      BY <2>1, <2>2, MetadataFacts, SavedTyped
    <3> QED
      BY <3>1, MetadataAssumption
  <2>5. ASSUME ~overlapped' PROVE (h.deleted => h.merged = {}) /\ Alone(r)'
    <3>1. Alone(r)
      BY <1>1, <2>3, <2>5, TakingTurns
    <3>2. g.deleted => g.merged = {}
      BY <1>1, <1>2, <3>1 DEF Alone
    <3> QED
      BY <2>1, <2>3, <2>4, <3>2 DEF Alone
  <2> QED
    BY <1>1, <2>1, <2>2, <2>3, <2>5, SaveStep
<1>5. CASE ~Savable(g)
  <2>1. actor' = Fail(r) /\ UNCHANGED <<effective, game>>
    BY <1>2, <1>5
  <2>2. actor' = [actor EXCEPT ![r] = actor'[r]]
    BY <1>1, <2>1, FailTyped
  <2>3. ~overlapped' => (g.merged # {} /\ effective # {} => g.merged = effective)
    BY <1>1, <1>2, <2>2, TakingTurns DEF Alone
  <2>4. overlapped'
    BY <1>3, <1>5, <2>3, MetadataFacts, SameIsSavable
  <2> QED
    BY <1>1, <2>1, <2>4, FailStep
<1> QED
  BY <1>4, <1>5

LEMMA MetadataInitInv ==
    ASSUME MetadataInit PROVE MetadataInv
<1>1. /\ game = [map |-> Unmapped, user |-> NoUser, linked |-> FALSE, deleted |-> FALSE]
      /\ effective = {} /\ fetched = [p \in Providers |-> [e \in Entries |-> 0]]
      /\ queue = {} /\ jobs = 0 /\ saved = 0
      /\ actor = [a \in Actors |-> Idle] /\ overlapped = FALSE
  BY DEF MetadataInit
<1>2. Unmapped \in Mapping
  BY DEF Unmapped, Mapping
<1>3. game \in GameRow /\ game.linked = FALSE /\ game.map = Unmapped /\ game.user = NoUser
      /\ game.deleted = FALSE
  BY <1>1, <1>2 DEF GameRow, Users
<1>4. MetadataTyped
  <2>1. effective \in Maybe(MergedRow(saved)) /\ queue \in Maybe(GameRead(saved))
    BY <1>1 DEF Maybe
  <2>2. actor \in [Actors -> ActorState(saved)]
    BY <1>1, IdleTyped
  <2>3. jobs \in 0 .. MaxJobs /\ saved \in Nat
    BY <1>1, MetadataAssumption
  <2>5. overlapped \in BOOLEAN
    BY <1>1
  <2>4. fetched \in [Providers -> [Entries -> 0 .. saved]]
    BY <1>1
  <2> QED
    BY <1>3, <2>1, <2>2, <2>3, <2>4, <2>5 DEF MetadataTyped
<1>5. \A a \in Actors : ~Busy(a)
  BY <1>1, IdleTyped DEF Busy
<1>6. AtRest
  BY <1>3 DEF AtRest, NeverOutdated, IsMerged, HasSources
<1>7. OneByOne
  BY <1>3, <1>5, <1>6 DEF OneByOne
<1> QED
  BY <1>4, <1>7 DEF MetadataInv

LEMMA MetadataStep == MetadataInv /\ [MetadataNext]_metadataVars => MetadataInv'
<1>0. SUFFICES ASSUME MetadataInv, [MetadataNext]_metadataVars PROVE MetadataInv'
  OBVIOUS
<1>1. CASE UNCHANGED metadataVars
  BY <1>0, <1>1 DEF metadataVars, MetadataInv, MetadataTyped, OneByOne, BusyActors, Busy, Alone,
     AtRest, NeverOutdated, IsMerged, HasSources, LeftHalfway
<1>2. CASE AddJob
  BY <1>0, <1>2, AddJobStep
<1>3. CASE WorkerStep
  BY <1>0, <1>3, MetadataFacts, StartingSteps, ChooseStep, EndJobStep, FetchStep, ReadForUnmapStep,
     DeleteMergedStep, SaveUnmappedStep, ReadForMapStep, SaveMappedStep DEF WorkerStep, WorkerOwnStep
<1>4. ASSUME NEW a \in Actors, a # Worker, MergeStep(a) PROVE MetadataInv'
  BY <1>0, <1>4, ReadForMergeStep, StoreMergedStep, SaveMergedStep DEF MergeStep
<1>5. ASSUME NEW r \in Requests, RequestStep(r) PROVE MetadataInv'
  <2>1. r \in Actors /\ r # Worker
    BY <1>0, MetadataFacts
  <2> QED
    BY <1>0, <1>4, <1>5, <2>1, StartingSteps, TakeRequestStep, SaveUserRowStep, SaveEditedStep,
       FetchStep, ReadForUnmapStep, DeleteMergedStep, SaveUnmappedStep, ReadForMapStep,
       SaveMappedStep DEF RequestStep
<1>6. ASSUME NEW d \in GameDeletions, DeleteStep(d) PROVE MetadataInv'
  <2>1. d \in Actors
    BY <1>0, MetadataFacts
  <2> QED
    BY <1>0, <1>6, <2>1, StartingSteps, ReadForUnmapStep, DeleteMergedStep, SaveUnmappedStep,
       RemoveGameStep DEF DeleteStep
<1>7. ASSUME NEW q \in Restorations, RestoreGame(q) PROVE MetadataInv'
  BY <1>0, <1>7, StartingSteps
<1>8. \A a \in Background \cup Restorations : a \in Actors /\ a # Worker
  BY MetadataAssumption DEF Actors
<1> QED
  BY <1>0, <1>1, <1>2, <1>3, <1>4, <1>5, <1>6, <1>7, <1>8 DEF MetadataNext

THEOREM MetadataInvariant == MetadataSpec => []MetadataInv
<1>1. MetadataInit => MetadataInv
  BY MetadataInitInv
<1> QED
  BY <1>1, MetadataStep, PTL DEF MetadataSpec

LEMMA MetadataTypes == MetadataInv => MetadataTypeOK
<1> SUFFICES ASSUME MetadataInv PROVE MetadataTypeOK
  OBVIOUS
<1>1. MetadataTyped /\ \A a \in Actors : actor[a] \in ActorState(saved)
  BY MetadataFacts
<1>2. Cardinality({}) <= 1 /\ \A x : Cardinality({x}) <= 1
  BY FS_EmptySet, FS_Singleton
<1>3. Cardinality(effective) <= 1 /\ Cardinality(queue) <= 1
  <2>1. /\ effective = {} \/ \E x : effective = {x}
        /\ queue = {} \/ \E x : queue = {x}
    BY <1>1 DEF MetadataTyped, Maybe
  <2> QED
    BY <1>2, <2>1
<1>4. \A m \in effective : /\ m.id \in 1 .. saved /\ m.at \in m.id .. saved
                           /\ m.map \in Mapping /\ m.user \in Users
  <2>1. \A m \in effective : m \in MergedRow(saved)
    BY <1>1 DEF MetadataTyped, Maybe
  <2> QED
    BY <1>1, <2>1 DEF MetadataTyped, MergedRow
<1>5. \A a \in Actors : /\ actor[a].stage \in Stages /\ actor[a].left \subseteq Providers
                        /\ actor[a].todo \in 0 .. MaxMappings
  BY <1>1 DEF ActorState
<1> QED
  BY <1>1, <1>3, <1>4, <1>5 DEF MetadataTypeOK, MetadataTyped, GameRow

\* Merged metadata is one row, which a game that refers to it finds, and jobs,
\* requests and merges have their shape, whatever runs at the same time.
THEOREM MetadataTypeCorrect == MetadataSpec => []MetadataTypeOK
BY MetadataInvariant, MetadataTypes, PTL

\* Where metadata.service.ts and games.service.ts work on a game one after the
\* other, clients see the merge of what the game has, and never an older one: for
\* any number of jobs, updates, deletions and restorations, and any failure.
THEOREM MergedIsUpToDate == MetadataSpec => []MergedFollowsSources
<1>1. MetadataInv => MergedFollowsSources
  BY DEF MetadataInv, OneByOne, AtRest, NeverOutdated, IsMerged, HasSources, MergedFollowsSources
<1> QED
  BY <1>1, MetadataInvariant, PTL
=============================================================================

--------------------------- MODULE LibraryProofs ---------------------------
(***************************************************************************)
(* Proofs about module Library, and about module LibraryDownloads, which   *)
(* adds the downloads, for every set of paths, slots and downloads: types; *)
(* what a full scan repairs; and, where no two paths share a title, that a *)
(* path has one game for good and a file that is not removed stays listed. *)
(***************************************************************************)
EXTENDS LibraryDownloads, TLAPS

USE DEF Versions

\* The part of LibraryAssumption that speaks of single constants.
LEMMA ConstantsType ==
    /\ NoPath \notin Paths /\ NoPath \notin Titles
    /\ MaxGames \in Nat \ {0} /\ 0 \in 0 .. MaxGames /\ Ids \subseteq 0 .. MaxGames
    /\ MaxDiskOps \in Nat /\ MaxReindex \in Nat /\ MaxRestarts \in Nat
BY LibraryAssumption DEF LibraryAssumption, Ids

\* A process that does nothing.
LEMMA IdleType ==
    /\ IdleSlot \in SlotType /\ IdleScan \in ScanType
    /\ IdleCheck \in CheckType /\ IdleMerge \in MergeType
BY ConstantsType DEF IdleSlot, IdleScan, IdleCheck, IdleMerge,
                     SlotType, ScanType, CheckType, MergeType

\* The default version is one of the versions it is chosen from.
LEMMA BestType ==
    ASSUME NEW S \in SUBSET Paths, S # {}
    PROVE  Best(S) \in S
<1>1. S \in (SUBSET Paths) \ {{}} /\ NoPath \notin S
  BY ConstantsType
<1>2. \E p \in S : \A q \in S \ {p} : Rank[q] < Rank[p]
  BY <1>1, LibraryAssumption DEF LibraryAssumption
<1> QED
  BY <1>1, <1>2 DEF Best

\* The default among the available versions, or the fallback path.
LEMMA BestOrFallbackType ==
    ASSUME NEW f \in Paths \cup {NoPath}, NEW g \in Ids
    PROVE  /\ Best({f}) \in Paths \cup {NoPath}
           /\ ActivePaths(g) # {} => Best(ActivePaths(g)) \in Paths
<1>1. ActivePaths(g) \in SUBSET Paths
  BY DEF ActivePaths
<1>2. CASE f = NoPath
  BY <1>1, <1>2, BestType DEF Best
<1>3. CASE f \in Paths
  <2>1. {f} \in SUBSET Paths /\ {f} # {}
    BY <1>3
  <2> QED
    BY <1>1, <2>1, BestType
<1> QED
  BY <1>2, <1>3

LEMMA InitTypeOK == Init => TypeOK
<1> SUFFICES ASSUME Init PROVE TypeOK
  OBVIOUS
<1> USE ConstantsType DEF Init
<1>1. PICK known \in Paths \cup {NoPath} :
         /\ game = [g \in Ids |-> IF g = 1 /\ known # NoPath
                       THEN [st |-> "active", file |-> known, title |-> TitleOf[known]]
                       ELSE NoGame]
         /\ row = [g \in Ids |-> [p \in Paths |->
                       IF g = 1 /\ p = known THEN "active" ELSE "none"]]
         /\ touched = {known} \ (disk \cup {NoPath})
  OBVIOUS
<1>2. game \in [Ids -> GameRow]
  BY <1>1 DEF GameRow, NoGame, Titles
<1>3. row \in [Ids -> [Paths -> RowState]]
  BY <1>1 DEF RowState
<1>4. slot \in [Slots -> SlotType] /\ scan \in [Scans -> ScanType]
  BY DEF IdleSlot, IdleScan, SlotType, ScanType
<1>5. check \in [Checks -> CheckType] /\ merge \in [Scans -> MergeType]
  BY DEF IdleCheck, IdleMerge, CheckType, MergeType
<1>6. disk \subseteq Paths /\ touched \subseteq Paths /\ pending \in [Paths -> Nat]
  BY <1>1
<1>7. \A i \in Slots : slot[i].pc = "idle"
  BY DEF IdleSlot
<1>8. diskOps = 0 /\ reindexed = 0 /\ restarts = 0 /\ timer = FALSE /\ inProgress = FALSE
  OBVIOUS
<1>9. 0 \in 0 .. MaxDiskOps /\ 0 \in 0 .. MaxReindex /\ 0 \in 0 .. MaxRestarts
  BY ConstantsType
<1> QED
  BY <1>2, <1>3, <1>4, <1>5, <1>6, <1>7, <1>8, <1>9 DEF TypeOK

\* Saving another path or another state into a game.
LEMMA SaveGameType ==
    ASSUME TypeOK, NEW g
    PROVE  /\ \A f \in Paths \cup {NoPath} :
                 [game EXCEPT ![g].file = f] \in [Ids -> GameRow]
           /\ \A st \in {"active", "deleted"} :
                 [game EXCEPT ![g].st = st] \in [Ids -> GameRow]
<1>1. game \in [Ids -> GameRow]
  BY DEF TypeOK
<1> QED
  BY <1>1 DEF GameRow

(***************************************************************************)
(* Type correctness is preserved, one lemma per group of actions.          *)
(***************************************************************************)

\* The volume.
LEMMA FilesTypeOK ==
    ASSUME TypeOK, NEW p \in Paths
    PROVE  /\ CopyFile(p) \/ Upload(p) => TypeOK'
           /\ ChangeFile(p) \/ RemoveFile(p) => TypeOK'
           /\ \A g \in Ids : DeleteGameFile(g, p) => TypeOK'
<1> USE DEF diskVars, dbVars, scanVars, boundVars
<1>1. ASSUME NEW calls \in 1 .. 2, AddFile(p, calls) PROVE TypeOK'
  BY <1>1, ConstantsType DEF TypeOK, AddFile
<1>2. CopyFile(p) \/ Upload(p) => TypeOK'
  BY <1>1 DEF CopyFile, Upload
<1>3. ChangeFile(p) => TypeOK'
  BY ConstantsType DEF TypeOK, ChangeFile
<1>4. RemoveFile(p) => TypeOK'
  BY ConstantsType DEF TypeOK, RemoveFile
<1> QED
  BY <1>2, <1>3, <1>4 DEF DeleteGameFile

\* What StartIndex leaves in the slot.
LEMMA StartIndexType ==
    ASSUME TypeOK, NEW i \in Slots, NEW p \in Paths, StartIndex(i, p)
    PROVE  /\ slot' \in [Slots -> SlotType]
           /\ \A j \in Slots :
                 /\ slot'[j].pc # "idle" => slot'[j].path \in Paths
                 /\ slot'[j].pc \notin {"idle", "creating"} => slot'[j].gid \in Ids
<1>1. Matches(p) \in SUBSET Ids
  BY DEF Matches
<1>2. CASE Matches(p) = {}
  <2> DEFINE x == [IdleSlot EXCEPT !.pc = "creating", !.path = p]
  <2>1. x \in SlotType /\ x.pc = "creating" /\ x.path = p
    BY ConstantsType DEF SlotType, IdleSlot
  <2>2. slot' = [slot EXCEPT ![i] = x]
    BY <1>2 DEF StartIndex
  <2> HIDE DEF x
  <2> QED
    BY <2>1, <2>2 DEF TypeOK
<1>3. CASE Matches(p) # {}
  <2>1. PICK g \in Matches(p) : slot' = [slot EXCEPT ![i] =
             [IdleSlot EXCEPT !.pc = IF Active(g) THEN "matched" ELSE "restoring",
                              !.path = p, !.gid = g]]
    BY <1>3 DEF StartIndex
  <2>2. g \in Ids /\ g \in 0 .. MaxGames
    BY <1>1, ConstantsType
  <2> QED
    BY <2>1, <2>2 DEF TypeOK, SlotType, IdleSlot
<1> QED
  BY <1>2, <1>3

\* EndIndex clears the slot.
LEMMA EndIndexType ==
    ASSUME TypeOK, NEW i \in Slots, EndIndex(i)
    PROVE  /\ slot' \in [Slots -> SlotType]
           /\ timer' \in BOOLEAN
           /\ \A j \in Slots :
                 /\ slot'[j].pc # "idle" => slot'[j].path \in Paths
                 /\ slot'[j].pc \notin {"idle", "creating"} => slot'[j].gid \in Ids
BY ConstantsType DEF TypeOK, EndIndex, SlotType, IdleSlot

\* A row becomes an active one of game g.
LEMMA RowsType ==
    ASSUME TypeOK, NEW h, NEW g, NEW p
    PROVE  [row EXCEPT ![h][p] = "none", ![g][p] = "active"] \in [Ids -> [Paths -> RowState]]
BY DEF TypeOK, RowState

LEMMA AddedRowType ==
    ASSUME TypeOK, NEW g, NEW p
    PROVE  [row EXCEPT ![g][p] = "active"] \in [Ids -> [Paths -> RowState]]
BY DEF TypeOK, RowState

\* Repoint moves remembered rows between games.
LEMMA RepointType ==
    ASSUME NEW rows \in SUBSET (Ids \X Paths), NEW d \in Ids, NEW c \in Ids, NEW moved
    PROVE  Repoint(rows, d, c, moved) \in SUBSET (Ids \X Paths)
BY DEF Repoint

\* Nothing else changes in the processes that follow a moved row.
LEMMA FollowType ==
    ASSUME TypeOK, NEW d \in Ids, NEW c \in Ids, NEW moved
    PROVE  /\ SlotsFollow(d, c, moved) \in [Slots -> SlotType]
           /\ \A i \in Slots : /\ SlotsFollow(d, c, moved)[i].pc = slot[i].pc
                               /\ SlotsFollow(d, c, moved)[i].path = slot[i].path
                               /\ SlotsFollow(d, c, moved)[i].gid = slot[i].gid
           /\ ChecksFollow(d, c, moved) \in [Checks -> CheckType]
           /\ MergesFollow(d, c, moved) \in [Scans -> MergeType]
<1>1. ASSUME NEW i \in Slots
      PROVE  LET x == [slot[i] EXCEPT !.found = Repoint(@, d, c, moved)] IN
             x \in SlotType /\ x.pc = slot[i].pc /\ x.path = slot[i].path
             /\ x.gid = slot[i].gid
  <2>1. slot[i] \in SlotType
    BY DEF TypeOK
  <2>2. Repoint(slot[i].found, d, c, moved) \in SUBSET (Ids \X Paths)
    BY <2>1, RepointType DEF SlotType
  <2> QED
    BY <2>1, <2>2 DEF SlotType
<1>2. ASSUME NEW k \in Checks
      PROVE  [check[k] EXCEPT !.stale = Repoint(@, d, c, moved)] \in CheckType
  <2>1. check[k] \in CheckType
    BY DEF TypeOK
  <2>2. Repoint(check[k].stale, d, c, moved) \in SUBSET (Ids \X Paths)
    BY <2>1, RepointType DEF CheckType
  <2> QED
    BY <2>1, <2>2 DEF CheckType
<1>3. ASSUME NEW s \in Scans
      PROVE  [merge[s] EXCEPT !.versions = Repoint(@, d, c, moved)] \in MergeType
  <2>1. merge[s] \in MergeType
    BY DEF TypeOK
  <2>2. Repoint(merge[s].versions, d, c, moved) \in SUBSET (Ids \X Paths)
    BY <2>1, RepointType DEF MergeType
  <2> QED
    BY <2>1, <2>2 DEF MergeType
<1> QED
  BY <1>1, <1>2, <1>3 DEF SlotsFollow, ChecksFollow, MergesFollow

LEMMA IndexTypeOK ==
    ASSUME TypeOK, NEW i \in Slots, Index(i)
    PROVE  TypeOK'
<1> USE DEF diskVars, dbVars, scanVars, boundVars
<1>0. i \in Slots /\ slot[i] \in SlotType
  BY DEF TypeOK
<1>1. CASE Restore(i)
  <2>1. game' \in [Ids -> GameRow]
    BY <1>1, ZenonT(60) DEF Restore, TypeOK, GameRow
  <2>2. /\ slot' \in [Slots -> SlotType]
        /\ \A j \in Slots :
              /\ slot'[j].pc # "idle" => slot'[j].path \in Paths
              /\ slot'[j].pc \notin {"idle", "creating"} => slot'[j].gid \in Ids
    <3> DEFINE x == [slot[i] EXCEPT !.pc = "matched"]
    <3>1. x \in SlotType /\ x.path = slot[i].path /\ x.gid = slot[i].gid
      BY <1>0 DEF SlotType
    <3>2. slot' = [slot EXCEPT ![i] = x]
      BY <1>1 DEF Restore, TypeOK
    <3>3. slot[i].path \in Paths /\ slot[i].gid \in Ids
      BY <1>1 DEF Restore, TypeOK
    <3> HIDE DEF x
    <3> QED
      BY <3>1, <3>2, <3>3 DEF TypeOK
  <2> QED
    BY <1>1, <2>1, <2>2 DEF Restore, TypeOK
<1>2. CASE Create(i)
  <2>1. CASE EndIndex(i) /\ UNCHANGED game
    BY <1>2, <2>1, EndIndexType DEF Create, TypeOK
  <2>2. CASE ~(EndIndex(i) /\ UNCHANGED game)
    <3>1. PICK g \in Ids :
            /\ game' = [game EXCEPT ![g] =
                  [st |-> "active", file |-> slot[i].path, title |-> TitleOf[slot[i].path]]]
            /\ slot' = [slot EXCEPT ![i].pc = "matched", ![i].gid = g]
            /\ UNCHANGED timer
      BY <1>2, <2>2 DEF Create
    <3>2. slot[i].path \in Paths /\ TitleOf[slot[i].path] \in Titles
      BY <1>2 DEF Create, TypeOK, Titles
    <3>3. game' \in [Ids -> GameRow]
      BY <3>1, <3>2 DEF TypeOK, GameRow
    <3>4. /\ slot' \in [Slots -> SlotType]
          /\ \A j \in Slots :
                /\ slot'[j].pc # "idle" => slot'[j].path \in Paths
                /\ slot'[j].pc \notin {"idle", "creating"} => slot'[j].gid \in Ids
      <4>1. [slot[i] EXCEPT !.pc = "matched", !.gid = g] \in SlotType
        BY <1>0, ConstantsType DEF SlotType
      <4> QED
        BY <3>1, <3>2, <4>1 DEF TypeOK, SlotType
    <3> QED
      BY <1>2, <3>1, <3>3, <3>4 DEF Create, TypeOK
  <2> QED
    BY <2>1, <2>2
<1>3. CASE FindGame(i)
  <2>1. CASE EndIndex(i)
    BY <1>3, <2>1, EndIndexType DEF FindGame, TypeOK
  <2>2. CASE ~EndIndex(i)
    <3>1. slot[i].gid \in Ids /\ game[slot[i].gid].file \in Paths \cup {NoPath}
      BY <1>3 DEF FindGame, TypeOK, GameRow
    <3>2. slot' = [slot EXCEPT ![i].pc = "recording", ![i].file = game[slot[i].gid].file]
      BY <1>3, <2>2 DEF FindGame
    <3>3. /\ slot' \in [Slots -> SlotType]
          /\ \A j \in Slots :
                /\ slot'[j].pc # "idle" => slot'[j].path \in Paths
                /\ slot'[j].pc \notin {"idle", "creating"} => slot'[j].gid \in Ids
      <4> DEFINE x == [slot[i] EXCEPT !.pc = "recording", !.file = game[slot[i].gid].file]
      <4>1. x \in SlotType /\ x.path = slot[i].path /\ x.gid = slot[i].gid
        BY <1>0, <3>1 DEF SlotType
      <4>2. slot' = [slot EXCEPT ![i] = x]
        BY <3>2
      <4>3. slot[i].path \in Paths
        BY <1>3 DEF FindGame, TypeOK
      <4> HIDE DEF x
      <4> QED
        BY <3>1, <4>1, <4>2, <4>3 DEF TypeOK
    <3> QED
      BY <1>3, <2>2, <3>3 DEF FindGame, TypeOK
  <2> QED
    BY <2>1, <2>2
<1>4. CASE FindVersion(i)
  <2>1. slot[i].gid \in Ids /\ slot[i].path \in Paths
    BY <1>4 DEF FindVersion, TypeOK
  <2> DEFINE found == IF row[slot[i].gid][slot[i].path] = "none" THEN {}
                      ELSE {<<slot[i].gid, slot[i].path>>}
  <2>2. slot' = [slot EXCEPT ![i].pc = "storing", ![i].found = found]
    BY <1>4 DEF FindVersion
  <2>3. found \in SUBSET (Ids \X Paths)
    BY <2>1
  <2> HIDE DEF found
  <2>4. /\ slot' \in [Slots -> SlotType]
        /\ \A j \in Slots :
              /\ slot'[j].pc # "idle" => slot'[j].path \in Paths
              /\ slot'[j].pc \notin {"idle", "creating"} => slot'[j].gid \in Ids
    <3> DEFINE x == [slot[i] EXCEPT !.pc = "storing", !.found = found]
    <3>1. x \in SlotType /\ x.path = slot[i].path /\ x.gid = slot[i].gid
      BY <1>0, <2>3 DEF SlotType
    <3>2. slot' = [slot EXCEPT ![i] = x]
      BY <2>2 DEF TypeOK
    <3> HIDE DEF x
    <3> QED
      BY <2>1, <3>1, <3>2 DEF TypeOK
  <2> QED
    BY <1>4, <2>4 DEF FindVersion, TypeOK
<1>7. CASE StoreVersion(i)
  <2>1. CASE EndIndex(i) /\ UNCHANGED <<row, check, merge>>
    BY <1>7, <2>1, EndIndexType DEF StoreVersion, TypeOK
  <2>2. CASE ~(EndIndex(i) /\ UNCHANGED <<row, check, merge>>)
    <3> DEFINE g == slot[i].gid
               p == slot[i].path
    <3>1. g \in Ids /\ p \in Paths /\ slot[i].found \in SUBSET (Ids \X Paths)
      BY <1>0, <1>7 DEF StoreVersion, TypeOK, SlotType
    <3>2. PICK v \in IF slot[i].found = {} THEN {<<g, p>>} ELSE slot[i].found :
              /\ row' = [row EXCEPT ![v[1]][p] = "none", ![g][p] = "active"]
              /\ slot' = [SlotsFollow(v[1], g, {p}) EXCEPT
                            ![i].pc = "listing", ![i].found = {}]
              /\ check' = ChecksFollow(v[1], g, {p})
              /\ merge' = MergesFollow(v[1], g, {p})
              /\ UNCHANGED timer
      BY <1>7, <2>2 DEF StoreVersion
    <3>3. v[1] \in Ids
      BY <3>1, <3>2
    <3> HIDE DEF g, p
    <3>4. row' \in [Ids -> [Paths -> RowState]]
      BY <3>1, <3>2, <3>3, RowsType
    <3> DEFINE F == SlotsFollow(v[1], g, {p})
    <3>5. /\ F \in [Slots -> SlotType]
          /\ \A j \in Slots : /\ F[j].pc = slot[j].pc
                              /\ F[j].path = slot[j].path
                              /\ F[j].gid = slot[j].gid
          /\ check' \in [Checks -> CheckType] /\ merge' \in [Scans -> MergeType]
      BY <3>1, <3>2, <3>3, FollowType
    <3>6. slot' = [F EXCEPT ![i].pc = "listing", ![i].found = {}]
      BY <3>2
    <3> HIDE DEF F
    <3>7. /\ slot' \in [Slots -> SlotType]
          /\ \A j \in Slots :
                /\ slot'[j].pc # "idle" => slot'[j].path \in Paths
                /\ slot'[j].pc \notin {"idle", "creating"} => slot'[j].gid \in Ids
      <4> DEFINE x == [F[i] EXCEPT !.pc = "listing", !.found = {}]
      <4>1. x \in SlotType /\ x.path = p /\ x.gid = g
        BY <3>5 DEF SlotType, p, g
      <4>2. slot' = [F EXCEPT ![i] = x]
        BY <3>5, <3>6
      <4> HIDE DEF x
      <4> QED
        BY <3>1, <3>5, <4>1, <4>2 DEF TypeOK
    <3> QED
      BY <1>7, <3>2, <3>4, <3>5, <3>7 DEF StoreVersion, TypeOK
  <2> QED
    BY <2>1, <2>2
<1>5. CASE ListVersions(i)
  <2> DEFINE f == IF ActivePaths(slot[i].gid) = {} THEN slot[i].file
                  ELSE Best(ActivePaths(slot[i].gid))
  <2>1. slot[i].gid \in Ids /\ slot[i].file \in Paths \cup {NoPath}
    BY <1>5 DEF ListVersions, TypeOK, SlotType
  <2>2. f \in Paths \cup {NoPath}
    BY <2>1, BestOrFallbackType
  <2>3. slot' = [slot EXCEPT ![i].pc = "patching", ![i].file = f]
    BY <1>5 DEF ListVersions
  <2> HIDE DEF f
  <2>4. /\ slot' \in [Slots -> SlotType]
        /\ \A j \in Slots :
              /\ slot'[j].pc # "idle" => slot'[j].path \in Paths
              /\ slot'[j].pc \notin {"idle", "creating"} => slot'[j].gid \in Ids
    <3> DEFINE x == [slot[i] EXCEPT !.pc = "patching", !.file = f]
    <3>1. x \in SlotType /\ x.path = slot[i].path /\ x.gid = slot[i].gid
      BY <1>0, <2>2 DEF SlotType
    <3>2. slot' = [slot EXCEPT ![i] = x]
      BY <2>3 DEF TypeOK
    <3>3. slot[i].path \in Paths
      BY <1>5 DEF ListVersions, TypeOK
    <3> HIDE DEF x
    <3> QED
      BY <2>1, <3>1, <3>2, <3>3 DEF TypeOK
  <2> QED
    BY <1>5, <2>4 DEF ListVersions, TypeOK
<1>6. CASE PatchGame(i)
  <2>1. game' \in [Ids -> GameRow]
    <3>1. slot[i].path \in Paths /\ TitleOf[slot[i].path] \in Titles
      BY <1>6 DEF PatchGame, TypeOK, Titles
    <3>2. slot[i].file \in Paths \cup {NoPath}
      BY <1>0 DEF SlotType
    <3>3. game \in [Ids -> GameRow]
      BY DEF TypeOK
    <3> QED
      BY <1>6, <3>1, <3>2, <3>3 DEF PatchGame, GameRow
  <2> QED
    BY <1>6, <2>1, EndIndexType DEF PatchGame, TypeOK
<1> QED
  BY <1>1, <1>2, <1>3, <1>4, <1>5, <1>6, <1>7 DEF Index

\* What ReadGames leaves in the check: its snapshot and what it read.
LEMMA ReadGamesType ==
    ASSUME TypeOK, NEW c \in Checks, NEW snap \in SUBSET Paths, ReadGames(c, snap)
    PROVE  check' \in [Checks -> CheckType]
<1>1. ActiveGames \in SUBSET (Ids \X (Paths \cup {NoPath}))
  BY DEF ActiveGames, TypeOK, GameRow
<1>2. 0 \in 0 .. MaxGames
  BY ConstantsType
<1> DEFINE r == [IdleCheck EXCEPT !.pc = "reading", !.snap = snap, !.todo = ActiveGames]
<1>3. r \in CheckType
  BY <1>1, <1>2 DEF CheckType, IdleCheck
<1>4. check' = [check EXCEPT ![c] = r]
  BY DEF ReadGames
<1> QED
  BY <1>3, <1>4 DEF TypeOK

\* Starting a scan and taking its next file.
LEMMA ScanTypeOK ==
    ASSUME TypeOK, NEW s \in Scans,
           Reindex(s) \/ ScheduledScan(s) \/ ScanFile(s) \/ ScanCheck(s)
    PROVE  TypeOK'
<1> USE DEF diskVars, dbVars, scanVars, boundVars
<1>0. s \in Slots /\ s \in Checks /\ scan[s] \in ScanType
  BY DEF TypeOK, Slots, Checks
<1>1. ASSUME StartScan(s), reindexed' \in 0 .. MaxReindex PROVE TypeOK'
  <2>1. PICK snap \in Snapshots :
          scan' = [scan EXCEPT ![s] = [pc |-> "indexing", todo |-> snap, snap |-> snap]]
    BY <1>1 DEF StartScan
  <2>2. snap \in SUBSET Paths
    BY DEF Snapshots, TypeOK
  <2>3. scan' \in [Scans -> ScanType]
    BY <2>1, <2>2 DEF TypeOK, ScanType
  <2> QED
    BY <1>1, <2>3 DEF StartScan, TypeOK
<1>2. CASE Reindex(s)
  BY <1>1, <1>2, ConstantsType DEF Reindex, TypeOK
<1>3. CASE ScheduledScan(s)
  BY <1>1, <1>3 DEF ScheduledScan, TypeOK
<1>4. CASE ScanFile(s)
  <2>1. PICK p \in scan[s].todo :
          StartIndex(s, p) /\ scan' = [scan EXCEPT ![s].todo = @ \ {p}]
    BY <1>4 DEF ScanFile
  <2>2. p \in Paths /\ scan' \in [Scans -> ScanType]
    BY <1>0, <2>1 DEF TypeOK, ScanType
  <2> QED
    BY <1>0, <1>4, <2>1, <2>2, StartIndexType DEF ScanFile, TypeOK
<1>5. CASE ScanCheck(s)
  <2>1. scan' \in [Scans -> ScanType]
    BY <1>5, ZenonT(60) DEF ScanCheck, TypeOK, ScanType
  <2>2. check' \in [Checks -> CheckType]
    BY <1>0, <1>5, ReadGamesType DEF ScanCheck, ScanType
  <2> QED
    BY <1>5, <2>1, <2>2 DEF ScanCheck, TypeOK
<1> QED
  BY <1>2, <1>3, <1>4, <1>5

\* SoftDelete only changes the state of rows.
LEMMA SoftDeleteType ==
    ASSUME TypeOK, NEW rows
    PROVE  SoftDelete(rows) \in [Ids -> [Paths -> RowState]]
BY DEF SoftDelete, TypeOK, RowState

\* The default chosen among the versions whose files exist.
LEMMA BestExistingType ==
    ASSUME NEW g \in Ids, NEW f \in Paths \cup {NoPath},
           NEW existing \in SUBSET Available(g, f), existing # {}
    PROVE  Best(existing) \in Paths \cup {NoPath}
<1>1. ActivePaths(g) \in SUBSET Paths
  BY DEF ActivePaths
<1>2. CASE existing \subseteq ActivePaths(g)
  BY <1>1, <1>2, BestType
<1>3. CASE existing \subseteq {f}
  <2>1. existing = {f}
    BY <1>3
  <2> QED
    BY <2>1, BestOrFallbackType
<1> QED
  BY <1>2, <1>3 DEF Available

LEMMA CheckTypeOK ==
    ASSUME TypeOK, NEW c \in Checks, Check(c)
    PROVE  TypeOK'
<1> USE DEF diskVars, dbVars, scanVars, boundVars
<1>0. check[c] \in CheckType /\ 0 \in 0 .. MaxGames /\ Ids \subseteq 0 .. MaxGames
  BY ConstantsType DEF TypeOK
<1>7. CASE AfterWalk(c)
  <2>1. check' \in [Checks -> CheckType]
    BY <1>0, <1>7, ReadGamesType DEF AfterWalk, CheckType
  <2> QED
    BY <1>7, <2>1 DEF AfterWalk, TypeOK
<1>8. CASE ReadDangling(c)
  <2>1. Dangling \in SUBSET (Ids \X Paths)
    BY DEF Dangling
  <2>2. [check[c] EXCEPT !.pc = IF Dangling = {} THEN "games" ELSE "cleaning",
                         !.stale = Dangling] \in CheckType
    BY <1>0, <2>1 DEF CheckType
  <2>3. check' \in [Checks -> CheckType]
    BY <1>8, <2>2 DEF ReadDangling, TypeOK
  <2> QED
    BY <1>8, <2>3 DEF ReadDangling, TypeOK
<1>1. CASE CleanDangling(c)
  <2>1. [check[c] EXCEPT !.pc = "games", !.stale = {}] \in CheckType
    BY <1>0 DEF CheckType
  <2>2. check' \in [Checks -> CheckType]
    BY <1>1, <2>1 DEF CleanDangling, TypeOK
  <2> QED
    BY <1>1, <2>2, SoftDeleteType DEF CleanDangling, TypeOK
<1>2. CASE CheckGame(c)
  <2>1. PICK e \in check[c].todo :
         LET g == e[1]
             available == Available(g, e[2])
             existing == {p \in available : Exists(c, p)}
             stale == {g} \X (ActivePaths(g) \ existing)
             next == [check[c] EXCEPT !.todo = @ \ {e}]
         IN check' = [check EXCEPT ![c] =
              IF existing = {}
              THEN [next EXCEPT !.pc = "prune_delete", !.gid = g, !.stale = stale]
              ELSE IF existing # available
              THEN [next EXCEPT !.pc = "prune_patch", !.gid = g, !.stale = stale,
                                !.file = Best(existing)]
              ELSE next]
    BY <1>2 DEF CheckGame
  <2> DEFINE g == e[1]
             available == Available(g, e[2])
             existing == {p \in available : Exists(c, p)}
             stale == {g} \X (ActivePaths(g) \ existing)
             next == [check[c] EXCEPT !.todo = @ \ {e}]
  <2>2. g \in Ids /\ e[2] \in Paths \cup {NoPath}
    BY <1>0 DEF CheckType
  <2>3. stale \in SUBSET (Ids \X Paths)
    BY <2>2 DEF ActivePaths
  <2>4. next \in CheckType
    BY <1>0 DEF CheckType
  <2>5. existing # {} => Best(existing) \in Paths \cup {NoPath}
    <3>1. existing \in SUBSET Available(g, e[2])
      OBVIOUS
    <3> QED
      BY <2>2, <3>1, BestExistingType
  <2>6. check' = [check EXCEPT ![c] =
              IF existing = {}
              THEN [next EXCEPT !.pc = "prune_delete", !.gid = g, !.stale = stale]
              ELSE IF existing # available
              THEN [next EXCEPT !.pc = "prune_patch", !.gid = g, !.stale = stale,
                                !.file = Best(existing)]
              ELSE next]
    BY <2>1
  <2> HIDE DEF g, available, existing, stale, next
  <2>7. /\ [next EXCEPT !.pc = "prune_delete", !.gid = g, !.stale = stale] \in CheckType
        /\ existing # {} => [next EXCEPT !.pc = "prune_patch", !.gid = g, !.stale = stale,
                                         !.file = Best(existing)] \in CheckType
    BY <1>0, <2>2, <2>3, <2>4, <2>5 DEF CheckType
  <2>8. check' \in [Checks -> CheckType]
    BY <2>4, <2>6, <2>7 DEF TypeOK
  <2> QED
    BY <1>2, <2>8 DEF CheckGame, TypeOK
<1>3. CASE PruneVersions(c)
  <2>1. check' \in [Checks -> CheckType]
    BY <1>3, SMTT(30) DEF PruneVersions, TypeOK, CheckType
  <2> QED
    BY <1>3, <2>1, SoftDeleteType DEF PruneVersions, TypeOK
<1>4. ASSUME NextGame(c) PROVE check' \in [Checks -> CheckType]
  BY <1>0, <1>4 DEF NextGame, TypeOK, CheckType
<1>5. CASE DeleteGame(c)
  <2>1. game' \in [Ids -> GameRow]
    BY <1>5, ZenonT(60) DEF DeleteGame, TypeOK, GameRow
  <2> QED
    BY <1>4, <1>5, <2>1 DEF DeleteGame, TypeOK
<1>6. CASE PatchChecked(c)
  <2>1. check[c].file \in Paths \cup {NoPath}
    BY <1>0 DEF CheckType
  <2>2. game' \in [Ids -> GameRow]
    <3>1. [game EXCEPT ![check[c].gid].file = check[c].file] \in [Ids -> GameRow]
      BY <2>1, SaveGameType
    <3>2. game \in [Ids -> GameRow]
      BY DEF TypeOK
    <3> QED
      BY <1>6, <3>1, <3>2 DEF PatchChecked
  <2> QED
    BY <1>4, <1>6, <2>2 DEF PatchChecked, TypeOK
<1> QED
  BY <1>1, <1>2, <1>3, <1>5, <1>6, <1>7, <1>8 DEF Check

LEMMA MergeTypeOK ==
    ASSUME TypeOK, NEW s \in Scans, Merge(s)
    PROVE  TypeOK'
<1> USE DEF diskVars, dbVars, scanVars, boundVars
<1>0. /\ merge[s] \in MergeType /\ s \in Checks
      /\ \A e \in merge[s].todo : e[1] \in Ids /\ e[2] \in Ids
  BY DEF TypeOK, MergeType, Checks
<1>1. CASE BeginMerge(s)
  <2>1. Duplicates \in SUBSET (Ids \X Ids \X (Paths \cup {NoPath}))
    BY DEF Duplicates, TypeOK, GameRow
  <2>2. merge' \in [Scans -> MergeType]
    <3>1. [IdleMerge EXCEPT !.pc = "move", !.todo = Duplicates] \in MergeType
      BY <2>1 DEF IdleMerge, MergeType
    <3> QED
      BY <1>1, <3>1 DEF BeginMerge, TypeOK
  <2>3. check' \in [Checks -> CheckType]
    BY <1>1, IdleType DEF BeginMerge, TypeOK
  <2>4. scan' \in [Scans -> ScanType]
    BY <1>1, ZenonT(30) DEF BeginMerge, TypeOK, ScanType
  <2> QED
    BY <1>1, <2>2, <2>3, <2>4 DEF BeginMerge, TypeOK
<1>2. CASE FindVersions(s)
  <2>1. PICK e \in Current(s) :
            merge' = [merge EXCEPT ![s].versions = {e[1]} \X ActivePaths(e[1]),
               ![s].pc = IF {e[1]} \X ActivePaths(e[1]) # {} THEN "moving"
                         ELSE IF e[3] # NoPath THEN "adding" ELSE "tombstone"]
    BY <1>2 DEF FindVersions
  <2>2. {e[1]} \X ActivePaths(e[1]) \in SUBSET (Ids \X Paths)
    BY <1>0 DEF Current, ActivePaths
  <2> DEFINE versions == {e[1]} \X ActivePaths(e[1])
             x == [merge[s] EXCEPT !.versions = versions,
               !.pc = IF versions # {} THEN "moving"
                      ELSE IF e[3] # NoPath THEN "adding" ELSE "tombstone"]
  <2>3. merge' = [merge EXCEPT ![s] = x]
    BY <2>1 DEF TypeOK
  <2> HIDE DEF versions
  <2>4. x \in MergeType
    BY <1>0, <2>2 DEF MergeType, versions
  <2>5. merge' \in [Scans -> MergeType]
    BY <2>3, <2>4 DEF TypeOK
  <2> QED
    BY <1>2, <2>5 DEF FindVersions, TypeOK
<1>7. ASSUME NEW e \in Current(s), GiveUp(s, e)
      PROVE  merge' \in [Scans -> MergeType] /\ UNCHANGED <<row, slot, check>>
  <2>1. [merge[s] EXCEPT !.pc = "move", !.todo = @ \ {e}, !.versions = {}] \in MergeType
    BY <1>0 DEF MergeType
  <2> QED
    BY <1>7, <2>1 DEF GiveUp, TypeOK
<1>8. CASE MoveVersion(s)
  <2>1. PICK e \in Current(s), v \in merge[s].versions :
         IF v[1] # e[2] /\ row[e[2]][v[2]] # "none"
         THEN GiveUp(s, e)
         ELSE /\ row' = [row EXCEPT ![v[1]][v[2]] = "none", ![e[2]][v[2]] = "active"]
              /\ slot' = SlotsFollow(v[1], e[2], {v[2]})
              /\ check' = ChecksFollow(v[1], e[2], {v[2]})
              /\ merge' = [MergesFollow(v[1], e[2], {v[2]}) EXCEPT
                    ![s].versions = merge[s].versions \ {v},
                    ![s].pc = IF merge[s].versions = {v} THEN "tombstone" ELSE "moving"]
    BY <1>8 DEF MoveVersion
  <2>2. e[2] \in Ids /\ v[1] \in Ids /\ v[2] \in Paths
    BY <1>0 DEF Current, MergeType
  <2>3. CASE GiveUp(s, e)
    BY <1>7, <1>8, <2>3 DEF MoveVersion, TypeOK
  <2>4. CASE ~GiveUp(s, e)
    <3>1. row' \in [Ids -> [Paths -> RowState]]
      <4>1. row' = [row EXCEPT ![v[1]][v[2]] = "none", ![e[2]][v[2]] = "active"]
        BY <2>1, <2>4, Zenon
      <4> QED
        BY <4>1, RowsType, Zenon
    <3>2. /\ check' \in [Checks -> CheckType]
          /\ slot' \in [Slots -> SlotType]
          /\ \A i \in Slots : /\ slot'[i].pc = slot[i].pc
                              /\ slot'[i].path = slot[i].path
                              /\ slot'[i].gid = slot[i].gid
          /\ MergesFollow(v[1], e[2], {v[2]}) \in [Scans -> MergeType]
      BY <2>1, <2>2, <2>4, FollowType
    <3> DEFINE M == MergesFollow(v[1], e[2], {v[2]})
               x == [M[s] EXCEPT !.versions = merge[s].versions \ {v},
                       !.pc = IF merge[s].versions = {v} THEN "tombstone" ELSE "moving"]
    <3>3. merge' = [M EXCEPT ![s] = x]
      BY <2>1, <2>4, <3>2
    <3> HIDE DEF M
    <3>4. x \in MergeType
      BY <1>0, <3>2 DEF MergeType, M
    <3>5. merge' \in [Scans -> MergeType]
      BY <3>2, <3>3, <3>4 DEF M
    <3> QED
      BY <1>8, <3>1, <3>2, <3>5 DEF MoveVersion, TypeOK
  <2> QED
    BY <2>3, <2>4
<1>9. CASE AddVersion(s)
  <2>1. PICK e \in Current(s) :
         IF row[e[2]][e[3]] # "none"
         THEN GiveUp(s, e)
         ELSE /\ row' = [row EXCEPT ![e[2]][e[3]] = "active"]
              /\ merge' = [merge EXCEPT ![s].pc = "tombstone"]
              /\ UNCHANGED <<slot, check>>
    BY <1>9 DEF AddVersion
  <2>2. CASE GiveUp(s, e)
    BY <1>7, <1>9, <2>2 DEF AddVersion, TypeOK
  <2>3. CASE ~GiveUp(s, e)
    <3>1. row' \in [Ids -> [Paths -> RowState]]
      <4>1. row' = [row EXCEPT ![e[2]][e[3]] = "active"]
        BY <2>1, <2>3, Zenon
      <4> QED
        BY <4>1, AddedRowType, Zenon
    <3>2. [merge[s] EXCEPT !.pc = "tombstone"] \in MergeType
      BY <1>0 DEF MergeType
    <3>3. merge' \in [Scans -> MergeType]
      BY <2>1, <2>3, <3>2 DEF TypeOK
    <3> QED
      BY <1>9, <2>1, <2>3, <3>1, <3>3 DEF AddVersion, TypeOK
  <2> QED
    BY <2>2, <2>3
<1>3. CASE Tombstone(s)
  <2>1. PICK e \in Current(s) : game' = [game EXCEPT ![e[1]].file = NoPath]
    BY <1>3 DEF Tombstone
  <2>2. game' \in [Ids -> GameRow]
    BY <2>1, ZenonT(60) DEF TypeOK, GameRow
  <2>3. [merge[s] EXCEPT !.pc = "delete"] \in MergeType
    BY <1>0 DEF MergeType
  <2>4. merge' \in [Scans -> MergeType]
    BY <1>3, <2>3 DEF Tombstone, TypeOK
  <2> QED
    BY <1>3, <2>2, <2>4 DEF Tombstone, TypeOK
<1>4. CASE DeleteDuplicate(s)
  <2>1. PICK e \in Current(s) :
         /\ game' = [game EXCEPT ![e[1]].st = "deleted"]
         /\ merge' = [merge EXCEPT ![s].pc = "move", ![s].todo = @ \ {e},
               ![s].merged = IF Active(e[1]) THEN @ \cup {e[2]} ELSE @]
    BY <1>4 DEF DeleteDuplicate
  <2>2. e[2] \in Ids
    BY <1>0 DEF Current
  <2>3. game' \in [Ids -> GameRow]
    BY <2>1, ZenonT(60) DEF TypeOK, GameRow
  <2>4. merge' \in [Scans -> MergeType]
    BY <1>0, <2>1, <2>2, ZenonT(30) DEF TypeOK, MergeType
  <2> QED
    BY <1>4, <2>3, <2>4 DEF DeleteDuplicate, TypeOK
<1>5. CASE RefreshDefault(s)
  <2>1. PICK c \in merge[s].merged :
         /\ merge' = [merge EXCEPT ![s].merged = @ \ {c}]
         /\ LET available == IF ActivePaths(c) # {} THEN ActivePaths(c) ELSE {game[c].file}
            IN IF Active(c) /\ ~FileTaken(c, Best(available))
               THEN game' = [game EXCEPT ![c].file = Best(available)]
               ELSE UNCHANGED game
    BY <1>5 DEF RefreshDefault
  <2> DEFINE available == IF ActivePaths(c) # {} THEN ActivePaths(c) ELSE {game[c].file}
  <2>2. c \in Ids /\ game[c].file \in Paths \cup {NoPath}
    BY <1>0 DEF TypeOK, MergeType, GameRow
  <2>3. Best(available) \in Paths \cup {NoPath}
    BY <2>2, BestOrFallbackType
  <2>4. game' = [game EXCEPT ![c].file = Best(available)] \/ UNCHANGED game
    BY <2>1
  <2> HIDE DEF available
  <2>5. game' \in [Ids -> GameRow]
    <3>1. [game EXCEPT ![c].file = Best(available)] \in [Ids -> GameRow]
      BY <2>3, SaveGameType
    <3>2. game \in [Ids -> GameRow]
      BY DEF TypeOK
    <3> QED
      BY <2>4, <3>1, <3>2
  <2>6. [merge[s] EXCEPT !.merged = @ \ {c}] \in MergeType
    BY <1>0 DEF MergeType
  <2>7. merge' \in [Scans -> MergeType]
    BY <2>1, <2>6 DEF TypeOK
  <2> QED
    BY <1>5, <2>5, <2>7 DEF RefreshDefault, TypeOK
<1>6. CASE EndScan(s)
  <2>1. merge' \in [Scans -> MergeType] /\ scan' \in [Scans -> ScanType]
    BY <1>6 DEF EndScan, TypeOK, MergeType, ScanType, IdleMerge, IdleScan
  <2> QED
    BY <1>6, <2>1 DEF EndScan, TypeOK
<1> QED
  BY <1>1, <1>2, <1>3, <1>4, <1>5, <1>6, <1>8, <1>9 DEF Merge

\* The debounced check, the watcher and a crash.
LEMMA OtherTypeOK ==
    ASSUME TypeOK,
           \/ \E i \in Workers, p \in Paths : WatcherIndex(i, p)
           \/ \E c \in Debounces : DebouncedCheck(c) \/ EndDebouncedCheck(c)
           \/ Restart
    PROVE  TypeOK'
<1> USE DEF diskVars, dbVars, scanVars, boundVars
<1>0. Debounces \subseteq Checks
  BY DEF Checks
<1>1. ASSUME NEW i \in Workers, NEW p \in Paths, WatcherIndex(i, p) PROVE TypeOK'
  <2>1. i \in Slots /\ StartIndex(i, p)
    BY <1>1 DEF WatcherIndex, Slots
  <2>2. pending' \in [Paths -> Nat]
    BY <1>1 DEF WatcherIndex, TypeOK
  <2> QED
    BY <1>1, <2>1, <2>2, StartIndexType DEF WatcherIndex, TypeOK
<1>2. ASSUME NEW c \in Debounces, DebouncedCheck(c) PROVE TypeOK'
  <2>1. PICK snap \in Snapshots :
          check' = [check EXCEPT ![c] = [IdleCheck EXCEPT !.pc = "walked", !.snap = snap]]
    BY <1>2 DEF DebouncedCheck
  <2>2. snap \in SUBSET Paths
    BY DEF Snapshots, TypeOK
  <2>3. [IdleCheck EXCEPT !.pc = "walked", !.snap = snap] \in CheckType
    BY <2>2, ConstantsType DEF IdleCheck, CheckType
  <2>4. check' \in [Checks -> CheckType]
    BY <2>1, <2>3 DEF TypeOK
  <2> QED
    BY <1>2, <2>4 DEF DebouncedCheck, TypeOK
<1>3. ASSUME NEW c \in Debounces, EndDebouncedCheck(c) PROVE TypeOK'
  <2>1. check' \in [Checks -> CheckType]
    BY <1>3, IdleType DEF EndDebouncedCheck, TypeOK
  <2> QED
    BY <1>3, <2>1 DEF EndDebouncedCheck, TypeOK
<1>4. CASE Restart
  <2>1. slot' \in [Slots -> SlotType] /\ scan' \in [Scans -> ScanType]
    BY <1>4, IdleType DEF Restart
  <2>2. check' \in [Checks -> CheckType] /\ merge' \in [Scans -> MergeType]
    BY <1>4, IdleType DEF Restart
  <2>3. \A i \in Slots : slot'[i].pc = "idle"
    BY <1>4 DEF Restart, IdleSlot
  <2> QED
    <3>1. pending' \in [Paths -> Nat] /\ restarts' \in 0 .. MaxRestarts
      BY <1>4, ConstantsType DEF Restart, TypeOK
    <3> QED
      BY <1>4, <2>1, <2>2, <2>3, <3>1 DEF Restart, TypeOK
<1> QED
  BY <1>1, <1>2, <1>3, <1>4

\* Every step of the server, of its users and of a crash keeps the types.
LEMMA NextTypeOK == TypeOK /\ [Next]_vars => TypeOK'
<1> SUFFICES ASSUME TypeOK, [Next]_vars PROVE TypeOK'
  OBVIOUS
<1>1. CASE UNCHANGED vars
  BY <1>1 DEF vars, TypeOK
<1>2. CASE \E p \in Paths : CopyFile(p) \/ Upload(p) \/ ChangeFile(p) \/ RemoveFile(p)
  BY <1>2, FilesTypeOK
<1>3. CASE \E g \in Ids, p \in Paths : DeleteGameFile(g, p)
  BY <1>3, FilesTypeOK
<1>4. CASE \E i \in Slots : Index(i)
  BY <1>4, IndexTypeOK
<1>5. CASE \E s \in Scans : Reindex(s) \/ ScheduledScan(s) \/ ScanFile(s)
                            \/ ScanCheck(s) \/ Merge(s)
  BY <1>5, ScanTypeOK, MergeTypeOK
<1>6. CASE \E c \in Checks : Check(c)
  BY <1>6, CheckTypeOK
<1> QED
  BY <1>1, <1>2, <1>3, <1>4, <1>5, <1>6, OtherTypeOK DEF Next

\* The tables and the in-memory state of FilesService keep their types, for any
\* number of files, index() calls and scans.
THEOREM TypeCorrect == Spec => []TypeOK
BY InitTypeOK, NextTypeOK, PTL DEF Spec

(***************************************************************************)
(* With downloads that write back games they read long ago.                *)
(***************************************************************************)
LEMMA HeldTypes == NothingHeld \in HeldType /\ Served \in HeldType
                   /\ NothingHeld.pc = "new" /\ Served.pc = "served"
BY ConstantsType DEF NothingHeld, Served, HeldType, NoGame, GameRow

LEMMA ReadGameTypes ==
    ASSUME HeldTypeOK, NEW d \in Downloads, ReadGame(d) PROVE HeldTypeOK'
<1>1. PICK g \in Ids :
         held' = [held EXCEPT ![d] = [pc |-> "archiving", gid |-> g, game |-> game[g],
                                      versions |-> ActivePaths(g)]]
  BY DEF ReadGame
<1>2. /\ UNCHANGED vars /\ undisturbed' = undisturbed
      /\ TypeOK /\ held \in [Downloads -> HeldType]
      /\ \A e \in Downloads : held[e].pc = "archiving" => held[e].gid \in Ids
      /\ undisturbed \in BOOLEAN
  BY DEF ReadGame, HeldTypeOK
<1> DEFINE h == [pc |-> "archiving", gid |-> g, game |-> game[g], versions |-> ActivePaths(g)]
<1>3. g \in 0 .. MaxGames /\ game[g] \in GameRow /\ ActivePaths(g) \in SUBSET Paths
  BY <1>2, ConstantsType DEF TypeOK, ActivePaths
<1>4. h \in HeldType /\ h.gid = g
  BY <1>3 DEF HeldType
<1> HIDE DEF h
<1>5. held' = [held EXCEPT ![d] = h]
  BY <1>1 DEF h
<1>6. TypeOK'
  BY <1>2, NextTypeOK
<1>7. /\ held' \in [Downloads -> HeldType]
      /\ \A e \in Downloads : held'[e].pc = "archiving" => held'[e].gid \in Ids
  BY <1>2, <1>4, <1>5
<1>8. undisturbed' \in BOOLEAN
  BY <1>2
<1> QED
  BY <1>6, <1>7, <1>8 DEF HeldTypeOK

\* What a download writes, in its game and in the rows it takes back, is typed.
LEMMA SaveGameTypes ==
    ASSUME HeldTypeOK, NEW d \in Downloads, SaveGame(d) PROVE HeldTypeOK'
<1>1. /\ held[d].pc = "archiving" /\ held' = [held EXCEPT ![d] = Served]
      /\ undisturbed' = FALSE
      /\ UNCHANGED <<diskVars, pending, timer, scanVars, boundVars>>
  BY DEF SaveGame
<1>2. /\ TypeOK /\ held \in [Downloads -> HeldType] /\ held[d].gid \in Ids
      /\ \A e \in Downloads : held[e].pc = "archiving" => held[e].gid \in Ids
  BY <1>1 DEF HeldTypeOK
<1>3. /\ held' \in [Downloads -> HeldType]
      /\ \A e \in Downloads : held'[e].pc = "archiving" => held'[e].gid \in Ids
  BY <1>1, <1>2, HeldTypes
<1>4. undisturbed' \in BOOLEAN
  BY <1>1
<1>5. ASSUME SaveRow(d) PROVE game' \in [Ids -> GameRow]
  <2>1. held[d].game \in GameRow
    BY <1>2 DEF HeldType
  <2> QED
    BY <1>2, <1>5, <2>1 DEF SaveRow, TypeOK
<1> DEFINE Following ==
             /\ slot' \in [Slots -> SlotType]
             /\ \A i \in Slots : /\ slot'[i].pc = slot[i].pc
                                 /\ slot'[i].path = slot[i].path
                                 /\ slot'[i].gid = slot[i].gid
             /\ check' \in [Checks -> CheckType]
             /\ merge' \in [Scans -> MergeType]
<1>6. ASSUME NEW h \in Ids, TakeBack(d, h)
      PROVE  row' \in [Ids -> [Paths -> RowState]] /\ Following
  <2> DEFINE g == held[d].gid
             back == {p \in Moved(d) : h \in Owners(p)}
  <2>1. /\ row' = [row EXCEPT
             ![g] = [p \in Paths |-> IF p \in back THEN row[h][p] ELSE row[g][p]],
             ![h] = [p \in Paths |-> IF p \in back THEN "none" ELSE row[h][p]]]
        /\ slot' = SlotsFollow(h, g, back)
        /\ check' = ChecksFollow(h, g, back)
        /\ merge' = MergesFollow(h, g, back)
    BY <1>6 DEF TakeBack
  <2> HIDE DEF back
  <2>2. row' \in [Ids -> [Paths -> RowState]]
    <3> DEFINE kept == [p \in Paths |-> IF p \in back THEN row[h][p] ELSE row[g][p]]
               left == [p \in Paths |-> IF p \in back THEN "none" ELSE row[h][p]]
    <3>1. g \in Ids /\ \A k \in Ids : row[k] \in [Paths -> RowState]
      BY <1>2 DEF TypeOK
    <3>2. kept \in [Paths -> RowState] /\ left \in [Paths -> RowState]
      BY <3>1 DEF RowState
    <3>3. row' = [row EXCEPT ![g] = kept, ![h] = left]
      BY <2>1
    <3>4. row \in [Ids -> [Paths -> RowState]]
      BY <1>2 DEF TypeOK
    <3> HIDE DEF kept, left
    <3> QED
      BY <3>2, <3>3, <3>4
  <2>3. Following
    BY <1>2, <2>1, FollowType
  <2> QED
    BY <2>2, <2>3
<1>7. game' \in [Ids -> GameRow] /\ row' \in [Ids -> [Paths -> RowState]] /\ Following
  <2>1. CASE SaveRow(d) /\ UNCHANGED <<row, slot, check, merge>>
    BY <1>2, <1>5, <2>1 DEF TypeOK
  <2>2. CASE SaveRow(d) /\ \E h \in UNION {Owners(p) : p \in Moved(d)} : TakeBack(d, h)
    <3>1. PICK h \in UNION {Owners(p) : p \in Moved(d)} : TakeBack(d, h)
      BY <2>2
    <3>2. h \in Ids
      BY DEF Owners
    <3> QED
      BY <1>5, <1>6, <2>2, <3>1, <3>2
  <2>3. CASE UNCHANGED <<dbVars, slot, check, merge>>
    BY <1>2, <2>3 DEF TypeOK, dbVars
  <2> QED
    BY <2>1, <2>2, <2>3 DEF SaveGame
<1>8. TypeOK'
  BY <1>1, <1>2, <1>7 DEF TypeOK, diskVars, scanVars, boundVars
<1> QED
  BY <1>3, <1>4, <1>8 DEF HeldTypeOK

LEMMA LibraryStepTypes ==
    ASSUME HeldTypeOK, LibraryStep PROVE HeldTypeOK'
<1>1. /\ held' = IF restarts' = restarts THEN held
                 ELSE [d \in Downloads |-> IF held[d].pc = "new" THEN held[d] ELSE Served]
      /\ Next
  BY DEF LibraryStep
<1>2. /\ TypeOK /\ held \in [Downloads -> HeldType]
      /\ \A e \in Downloads : held[e].pc = "archiving" => held[e].gid \in Ids
  BY DEF HeldTypeOK
<1>3. TypeOK'
  BY <1>1, <1>2, NextTypeOK
<1>4. /\ held' \in [Downloads -> HeldType]
      /\ \A e \in Downloads : held'[e].pc = "archiving" => held'[e].gid \in Ids
  <2>1. CASE restarts' = restarts
    BY <1>1, <1>2, <2>1
  <2>2. CASE restarts' # restarts
    <3>1. held' = [d \in Downloads |-> IF held[d].pc = "new" THEN held[d] ELSE Served]
      BY <1>1, <2>2
    <3> QED
      BY <1>2, <3>1, HeldTypes
  <2> QED
    BY <2>1, <2>2
<1>5. undisturbed' \in BOOLEAN
  BY DEF LibraryStep
<1> QED
  BY <1>3, <1>4, <1>5 DEF HeldTypeOK

\* A download keeps a game for hours and writes all of it back; the library has
\* its types all the same, and so has what every download holds.
THEOREM HeldTypeCorrect == DownloadsSpec => []HeldTypeOK
<1>1. DownloadsInit => HeldTypeOK
  <2> SUFFICES ASSUME DownloadsInit PROVE HeldTypeOK
    OBVIOUS
  <2>1. /\ Init /\ held = [d \in Downloads |-> NothingHeld] /\ undisturbed = FALSE
    BY DEF DownloadsInit
  <2>2. undisturbed \in BOOLEAN
    BY <2>1
  <2> QED
    BY <2>1, <2>2, InitTypeOK, HeldTypes DEF HeldTypeOK
<1>2. HeldTypeOK /\ [DownloadsNext]_allVars => HeldTypeOK'
  <2> SUFFICES ASSUME HeldTypeOK, [DownloadsNext]_allVars PROVE HeldTypeOK'
    OBVIOUS
  <2>1. CASE UNCHANGED allVars
    <3>1. /\ UNCHANGED vars /\ held' = held /\ undisturbed' = undisturbed
          /\ TypeOK
      BY <2>1 DEF allVars, HeldTypeOK
    <3>2. TypeOK'
      BY <3>1, NextTypeOK
    <3> QED
      BY <3>1, <3>2 DEF HeldTypeOK
  <2> QED
    BY <2>1, ReadGameTypes, SaveGameTypes, LibraryStepTypes DEF DownloadsNext
<1> QED
  BY <1>1, <1>2, PTL DEF DownloadsSpec

(***************************************************************************)
(* A full scan repairs what downloads wrote back.                          *)
(***************************************************************************)

\* The processes of a full scan are at work in their phase of it only.
PhasesOK ==
    \A s \in Scans :
        /\ scan[s].pc # "indexing" => slot[s].pc = "idle"
        /\ scan[s].pc # "checking" => check[s].pc = "idle"
        /\ scan[s].pc # "merging" => merge[s].pc = "idle"

\* While files are indexed: those that are done are listed, but for the one whose
\* index call is running, which has a game of its own or will create one.
Indexed(s) ==
    /\ \A p \in disk \ scan[s].todo :
          p \in Listed \/ (slot[s].pc # "idle" /\ slot[s].path = p)
    /\ slot[s].pc = "creating" => Matches(slot[s].path) = {}
    /\ slot[s].pc \in {"matched", "recording", "storing", "listing", "patching"} =>
          Active(slot[s].gid)
    /\ slot[s].pc = "storing" => slot[s].found =
          IF row[slot[s].gid][slot[s].path] = "none" THEN {}
          ELSE {<<slot[s].gid, slot[s].path>>}
    /\ slot[s].pc \in {"listing", "patching"} => row[slot[s].gid][slot[s].path] = "active"

\* A game that the check has nothing against.
Sound(g) == ActivePaths(g) \subseteq disk /\ (ActivePaths(g) # {} \/ game[g].file \in disk)

Decided == {"prune_delete", "prune_patch", "delete", "patch"}

\* While the library is checked: all files are listed, no file that is there is
\* about to be taken out, and every game is sound, still to be checked or in hand.
Checked(s) ==
    LET g == check[s].gid IN
    /\ disk \subseteq Listed
    /\ check[s].pc \notin {"idle", "walked"} /\ check[s].snap \subseteq disk
    /\ check[s].pc = "cleaning" => \A v \in check[s].stale : ~Active(v[1])
    /\ check[s].pc \in Decided => g \in Ids
    /\ check[s].pc \in {"prune_delete", "prune_patch"} =>
          check[s].stale = {g} \X (ActivePaths(g) \ disk)
    /\ check[s].pc = "prune_delete" => ActivePaths(g) \cap disk = {}
    /\ check[s].pc = "prune_patch" => ActivePaths(g) \cap disk # {}
    /\ check[s].pc = "delete" => ActivePaths(g) = {}
    /\ check[s].pc = "patch" => ActivePaths(g) # {} /\ ActivePaths(g) \subseteq disk
    /\ \A h \in Ids : Active(h) =>
          \/ Sound(h)
          \/ <<h, game[h].file>> \in check[s].todo
          \/ check[s].pc \in Decided /\ h = g

\* While duplicates are merged: exactly the files are listed, duplicates and the
\* games they go to are active, and no game is both or a duplicate twice.
Merged(s) ==
    /\ Listed = disk
    /\ \A e \in merge[s].todo :
          /\ Active(e[1]) /\ Active(e[2])
          /\ \/ ActivePaths(e[1]) # {} \/ e[3] \in disk
             \/ merge[s].pc # "move" /\ e \in Current(s)
    /\ \A e, f \in merge[s].todo : e[1] # f[2] /\ (e[1] = f[1] => e = f)
    /\ \A e \in Current(s) :
          /\ merge[s].pc = "moving" => /\ merge[s].versions = {e[1]} \X ActivePaths(e[1])
                                       /\ ActivePaths(e[1]) # {}
          /\ merge[s].pc \in {"adding", "tombstone", "delete"} => ActivePaths(e[1]) = {}
          /\ merge[s].pc = "adding" => e[3] \in disk

PhaseKept(s) ==
    /\ scan[s].pc = "indexing" => Indexed(s)
    /\ scan[s].pc = "checking" => Checked(s)
    /\ scan[s].pc = "merging" => Merged(s)

ScansRepair == undisturbed => NothingElse /\ \A s \in Scans : PhaseKept(s)

\* A process that follows a moved row goes on as it was.
LEMMA FollowKeeps ==
    ASSUME TypeOK, NEW d, NEW c, NEW moved
    PROVE  /\ \A i \in Slots :
                 /\ SlotsFollow(d, c, moved)[i].pc = slot[i].pc
                 /\ SlotsFollow(d, c, moved)[i].path = slot[i].path
                 /\ SlotsFollow(d, c, moved)[i].gid = slot[i].gid
                 /\ SlotsFollow(d, c, moved)[i].file = slot[i].file
                 /\ SlotsFollow(d, c, moved)[i].found = Repoint(slot[i].found, d, c, moved)
           /\ \A k \in Checks :
                 /\ ChecksFollow(d, c, moved)[k].pc = check[k].pc
                 /\ ChecksFollow(d, c, moved)[k].snap = check[k].snap
                 /\ ChecksFollow(d, c, moved)[k].todo = check[k].todo
                 /\ ChecksFollow(d, c, moved)[k].gid = check[k].gid
                 /\ ChecksFollow(d, c, moved)[k].stale = Repoint(check[k].stale, d, c, moved)
           /\ \A s \in Scans :
                 /\ MergesFollow(d, c, moved)[s].pc = merge[s].pc
                 /\ MergesFollow(d, c, moved)[s].todo = merge[s].todo
                 /\ MergesFollow(d, c, moved)[s].merged = merge[s].merged
<1>1. /\ \A i \in Slots : slot[i] \in SlotType
      /\ \A k \in Checks : check[k] \in CheckType
      /\ \A s \in Scans : merge[s] \in MergeType
  BY DEF TypeOK
<1> QED
  BY <1>1 DEF SlotsFollow, ChecksFollow, MergesFollow, SlotType, CheckType, MergeType

\* A running index call takes its own slot on, and no other process, but for the
\* version rows they remember.
LEMMA IndexOwnSlot ==
    ASSUME TypeOK, NEW i \in Slots, Index(i)
    PROVE  /\ slot[i].pc # "idle"
           /\ \A j \in Slots \ {i} : slot'[j].pc = slot[j].pc
           /\ \A k \in Checks : check'[k].pc = check[k].pc
           /\ \A s \in Scans : merge'[s].pc = merge[s].pc
           /\ UNCHANGED <<disk, pending, inProgress, scan, restarts>>
<1> USE DEF diskVars, scanVars, boundVars
<1>1. CASE Restore(i)
  BY <1>1 DEF Restore, TypeOK
<1>2. CASE Create(i)
  BY <1>2 DEF Create, EndIndex, TypeOK
<1>3. CASE FindGame(i)
  BY <1>3 DEF FindGame, EndIndex, TypeOK
<1>4. CASE FindVersion(i)
  BY SMTT(30), <1>4 DEF FindVersion, TypeOK
<1>5. CASE StoreVersion(i)
  <2>1. EndIndex(i) => \A j \in Slots \ {i} : slot'[j] = slot[j]
    BY DEF EndIndex, TypeOK
  <2>2. ASSUME NEW d, NEW c, NEW moved, NEW f,
               slot' = [SlotsFollow(d, c, moved) EXCEPT ![i].pc = "listing", ![i].found = f],
               check' = ChecksFollow(d, c, moved), merge' = MergesFollow(d, c, moved)
        PROVE  /\ \A j \in Slots \ {i} : slot'[j].pc = slot[j].pc
               /\ \A k \in Checks : check'[k].pc = check[k].pc
               /\ \A s \in Scans : merge'[s].pc = merge[s].pc
    <3>1. DOMAIN SlotsFollow(d, c, moved) = Slots
      BY DEF SlotsFollow
    <3>2. \A j \in Slots \ {i} : slot'[j] = SlotsFollow(d, c, moved)[j]
      BY <2>2, <3>1
    <3>3. /\ \A j \in Slots : SlotsFollow(d, c, moved)[j].pc = slot[j].pc
          /\ \A k \in Checks : ChecksFollow(d, c, moved)[k].pc = check[k].pc
          /\ \A s \in Scans : MergesFollow(d, c, moved)[s].pc = merge[s].pc
      BY FollowKeeps
    <3> QED
      BY <2>2, <3>2, <3>3
  <2>3. slot[i].pc = "storing" /\ UNCHANGED <<disk, pending, inProgress, scan, restarts>>
    BY <1>5 DEF StoreVersion
  <2>4. \/ EndIndex(i) /\ UNCHANGED <<check, merge>>
        \/ \E v : /\ slot' = [SlotsFollow(v[1], slot[i].gid, {slot[i].path}) EXCEPT
                                  ![i].pc = "listing", ![i].found = {}]
                   /\ check' = ChecksFollow(v[1], slot[i].gid, {slot[i].path})
                   /\ merge' = MergesFollow(v[1], slot[i].gid, {slot[i].path})
    BY <1>5, Zenon DEF StoreVersion
  <2>5. CASE EndIndex(i) /\ UNCHANGED <<check, merge>>
    BY <2>1, <2>3, <2>5
  <2>6. ASSUME NEW v,
               slot' = [SlotsFollow(v[1], slot[i].gid, {slot[i].path}) EXCEPT
                                  ![i].pc = "listing", ![i].found = {}],
               check' = ChecksFollow(v[1], slot[i].gid, {slot[i].path}),
               merge' = MergesFollow(v[1], slot[i].gid, {slot[i].path})
        PROVE  /\ \A j \in Slots \ {i} : slot'[j].pc = slot[j].pc
               /\ \A k \in Checks : check'[k].pc = check[k].pc
               /\ \A s \in Scans : merge'[s].pc = merge[s].pc
    BY <2>2, <2>6, Zenon
  <2> QED
    BY <2>3, <2>4, <2>5, <2>6
<1>6. CASE ListVersions(i)
  BY <1>6 DEF ListVersions, TypeOK
<1>7. CASE PatchGame(i)
  BY <1>7 DEF PatchGame, EndIndex, TypeOK
<1> QED
  BY <1>1, <1>2, <1>3, <1>4, <1>5, <1>6, <1>7 DEF Index

\* Starting an index call changes one slot.
LEMMA StartIndexOwnSlot ==
    ASSUME TypeOK, NEW i \in Slots, NEW p \in Paths, StartIndex(i, p)
    PROVE  \A j \in Slots \ {i} : slot'[j] = slot[j]
BY DEF StartIndex, TypeOK

\* A running check changes itself only.
LEMMA CheckOwn ==
    ASSUME NEW c \in Checks, Check(c)
    PROVE  /\ check[c].pc \notin {"idle"}
           /\ TypeOK => \A k \in Checks \ {c} : check'[k] = check[k]
           /\ UNCHANGED <<disk, pending, slot, inProgress, scan, merge, restarts>>
<1> USE DEF diskVars, scanVars, boundVars
<1>1. CASE CleanDangling(c)
  BY <1>1 DEF CleanDangling, TypeOK
<1>2. CASE CheckGame(c)
  BY <1>2 DEF CheckGame, TypeOK
<1>3. CASE PruneVersions(c)
  BY <1>3 DEF PruneVersions, TypeOK
<1>4. CASE DeleteGame(c)
  BY <1>4 DEF DeleteGame, NextGame, TypeOK
<1>5. CASE PatchChecked(c)
  BY <1>5 DEF PatchChecked, NextGame, TypeOK
<1>6. CASE AfterWalk(c)
  BY <1>6 DEF AfterWalk, ReadGames, TypeOK
<1>7. CASE ReadDangling(c)
  BY <1>7 DEF ReadDangling, TypeOK
<1> QED
  BY <1>1, <1>2, <1>3, <1>4, <1>5, <1>6, <1>7 DEF Check

\* What a merge changes of the processes.
LEMMA MergeOwn ==
    ASSUME TypeOK, NEW s \in Scans, Merge(s)
    PROVE  /\ \A t \in Scans \ {s} : scan'[t] = scan[t] /\ merge'[t].pc = merge[t].pc
           /\ \A k \in Checks : check'[k].pc = check[k].pc \/ check'[k].pc = "idle"
           /\ \A i \in Slots : slot'[i].pc = slot[i].pc
           /\ UNCHANGED <<disk, pending, timer, restarts>>
           /\ \/ /\ scan[s].pc = "checking" /\ scan'[s].pc = "merging"
                 /\ check'[s].pc = "idle" /\ BeginMerge(s)
              \/ merge[s].pc # "idle" /\ scan' = scan
              \/ merge[s].pc # "idle" /\ EndScan(s) /\ scan'[s].pc = "idle"
                 /\ merge'[s].pc = "idle"
<1> USE DEF diskVars, scanVars, boundVars
<1>0. s \in Checks
  BY DEF Checks
<1>1. CASE BeginMerge(s)
  BY <1>0, <1>1 DEF BeginMerge, TypeOK, IdleCheck
<1>2. CASE FindVersions(s)
  BY <1>2 DEF FindVersions, TypeOK
<1>3. ASSUME NEW e, GiveUp(s, e)
      PROVE  /\ \A t \in Scans \ {s} : merge'[t].pc = merge[t].pc
             /\ UNCHANGED <<slot, check>>
  BY <1>3 DEF GiveUp, TypeOK
<1>4. CASE MoveVersion(s)
  <2>1. ASSUME NEW d, NEW c, NEW moved, NEW vs, NEW pc,
               slot' = SlotsFollow(d, c, moved), check' = ChecksFollow(d, c, moved),
               merge' = [MergesFollow(d, c, moved) EXCEPT ![s].versions = vs, ![s].pc = pc]
        PROVE  /\ \A t \in Scans \ {s} : merge'[t].pc = merge[t].pc
               /\ \A k \in Checks : check'[k].pc = check[k].pc
               /\ \A i \in Slots : slot'[i].pc = slot[i].pc
    <3>1. DOMAIN MergesFollow(d, c, moved) = Scans
      BY DEF MergesFollow
    <3>2. \A t \in Scans \ {s} : merge'[t] = MergesFollow(d, c, moved)[t]
      BY <2>1, <3>1
    <3>3. /\ \A j \in Slots : SlotsFollow(d, c, moved)[j].pc = slot[j].pc
          /\ \A k \in Checks : ChecksFollow(d, c, moved)[k].pc = check[k].pc
          /\ \A t \in Scans : MergesFollow(d, c, moved)[t].pc = merge[t].pc
      BY FollowKeeps
    <3> QED
      BY <2>1, <3>2, <3>3
  <2>2. PICK e \in Current(s), v \in merge[s].versions :
         LET c == e[2] IN
         \/ GiveUp(s, e)
         \/ /\ slot' = SlotsFollow(v[1], c, {v[2]})
            /\ check' = ChecksFollow(v[1], c, {v[2]})
            /\ merge' = [MergesFollow(v[1], c, {v[2]}) EXCEPT
                    ![s].versions = merge[s].versions \ {v},
                    ![s].pc = IF merge[s].versions = {v} THEN "tombstone" ELSE "moving"]
    BY <1>4, ZenonT(60) DEF MoveVersion
  <2>3. /\ \A t \in Scans \ {s} : merge'[t].pc = merge[t].pc
        /\ \A k \in Checks : check'[k].pc = check[k].pc
        /\ \A i \in Slots : slot'[i].pc = slot[i].pc
    BY <1>3, <2>1, <2>2
  <2> QED
    BY <1>4, <2>3 DEF MoveVersion
<1>5. CASE AddVersion(s)
  <2>1. \/ \E e : GiveUp(s, e)
        \/ merge' = [merge EXCEPT ![s].pc = "tombstone"] /\ UNCHANGED <<slot, check>>
    BY <1>5 DEF AddVersion
  <2>2. /\ \A t \in Scans \ {s} : merge'[t].pc = merge[t].pc
        /\ UNCHANGED <<slot, check>>
    BY <1>3, <2>1 DEF TypeOK
  <2> QED
    BY <1>5, <2>2 DEF AddVersion
<1>6. CASE Tombstone(s)
  BY <1>6 DEF Tombstone, TypeOK
<1>7. CASE DeleteDuplicate(s)
  BY <1>7 DEF DeleteDuplicate, TypeOK
<1>8. CASE RefreshDefault(s)
  BY <1>8 DEF RefreshDefault, TypeOK
<1>9. CASE EndScan(s)
  BY <1>9 DEF EndScan, TypeOK, IdleScan, IdleMerge
<1> QED
  BY <1>1, <1>2, <1>4, <1>5, <1>6, <1>7, <1>8, <1>9 DEF Merge

LEMMA PhasesStep == TypeOK /\ PhasesOK /\ Next => PhasesOK'
<1> SUFFICES ASSUME TypeOK, PhasesOK, Next PROVE PhasesOK'
  OBVIOUS
<1> USE DEF diskVars, scanVars, boundVars
<1>0. /\ Scans \subseteq Slots /\ Workers \subseteq Slots /\ Scans \subseteq Checks
      /\ Debounces \subseteq Checks /\ Debounces \cap Scans = {}
      /\ Workers \cap Scans = {}
  BY LibraryAssumption DEF LibraryAssumption, Slots, Checks
<1>1. CASE \E p \in Paths : CopyFile(p) \/ Upload(p) \/ ChangeFile(p) \/ RemoveFile(p)
  BY <1>1 DEF CopyFile, Upload, AddFile, ChangeFile, RemoveFile, PhasesOK
<1>2. CASE \E g \in Ids, p \in Paths : DeleteGameFile(g, p)
  BY <1>2 DEF DeleteGameFile, RemoveFile, PhasesOK
<1>3. CASE \E i \in Workers, p \in Paths : WatcherIndex(i, p)
  <2>1. PICK i \in Workers, p \in Paths : WatcherIndex(i, p)
    BY <1>3
  <2>2. i \in Slots /\ StartIndex(i, p) /\ UNCHANGED <<scan, check, merge>>
    BY <1>0, <2>1 DEF WatcherIndex
  <2>3. \A s \in Scans : slot'[s] = slot[s]
    BY <1>0, <2>2, StartIndexOwnSlot
  <2> QED
    BY <2>2, <2>3 DEF PhasesOK
<1>4. CASE \E i \in Slots : Index(i)
  <2>1. PICK i \in Slots : Index(i)
    BY <1>4
  <2>2. /\ slot[i].pc # "idle" /\ scan' = scan
        /\ \A j \in Slots \ {i} : slot'[j].pc = slot[j].pc
        /\ \A k \in Checks : check'[k].pc = check[k].pc
        /\ \A s \in Scans : merge'[s].pc = merge[s].pc
    BY <2>1, IndexOwnSlot
  <2> QED
    BY <1>0, <2>2 DEF PhasesOK
<1>5. ASSUME NEW s \in Scans, Reindex(s) \/ ScheduledScan(s) PROVE PhasesOK'
  <2>1. StartScan(s)
    BY <1>5 DEF Reindex, ScheduledScan
  <2>2. /\ scan[s].pc = "idle" /\ scan'[s].pc = "indexing"
        /\ \A t \in Scans \ {s} : scan'[t] = scan[t]
        /\ UNCHANGED <<slot, check, merge>>
    BY <2>1 DEF StartScan, TypeOK
  <2> QED
    BY <2>2 DEF PhasesOK
<1>6. ASSUME NEW s \in Scans, ScanFile(s) PROVE PhasesOK'
  <2>1. PICK p \in scan[s].todo : /\ StartIndex(s, p)
                                  /\ scan' = [scan EXCEPT ![s].todo = @ \ {p}]
    BY <1>6 DEF ScanFile
  <2>2. p \in Paths
    BY <2>1 DEF TypeOK, ScanType
  <2>3. \A j \in Slots \ {s} : slot'[j] = slot[j]
    BY <1>0, <2>1, <2>2, StartIndexOwnSlot
  <2>4. scan[s].pc = "indexing" /\ UNCHANGED <<check, merge>>
    BY <1>6 DEF ScanFile
  <2>5. \A t \in Scans : scan'[t].pc = scan[t].pc
    <3>1. \A t \in Scans : scan[t] \in ScanType
      BY DEF TypeOK
    <3> QED
      BY <2>1, <3>1 DEF TypeOK, ScanType
  <2> QED
    BY <1>0, <2>3, <2>4, <2>5 DEF PhasesOK
<1>7. ASSUME NEW s \in Scans, ScanCheck(s) PROVE PhasesOK'
  <2>1. scan[s].pc = "indexing" /\ slot[s].pc = "idle" /\ UNCHANGED <<slot, merge>>
    BY <1>7 DEF ScanCheck
  <2>2. scan'[s].pc = "checking" /\ \A t \in Scans \ {s} : scan'[t] = scan[t]
    <3>1. scan[s] \in ScanType
      BY DEF TypeOK
    <3> QED
      BY <1>7, <3>1 DEF ScanCheck, TypeOK, ScanType
  <2>3. \A t \in Scans \ {s} : check'[t] = check[t]
    BY <1>0, <1>7 DEF ScanCheck, ReadGames, TypeOK
  <2> QED
    BY <2>1, <2>2, <2>3 DEF PhasesOK
<1>8. ASSUME NEW s \in Scans, Merge(s) PROVE PhasesOK'
  <2>1. /\ \A t \in Scans \ {s} : scan'[t] = scan[t] /\ merge'[t].pc = merge[t].pc
        /\ \A k \in Checks : check'[k].pc = check[k].pc \/ check'[k].pc = "idle"
        /\ \A i \in Slots : slot'[i].pc = slot[i].pc
        /\ \/ /\ scan[s].pc = "checking" /\ scan'[s].pc = "merging"
              /\ check'[s].pc = "idle"
           \/ merge[s].pc # "idle" /\ scan' = scan
           \/ /\ merge[s].pc # "idle" /\ scan'[s].pc = "idle"
              /\ merge'[s].pc = "idle"
    BY <1>8, MergeOwn
  <2> QED
    BY <1>0, <2>1 DEF PhasesOK
<1>9. ASSUME NEW c \in Debounces, DebouncedCheck(c) \/ EndDebouncedCheck(c)
      PROVE  PhasesOK'
  <2>1. UNCHANGED <<slot, scan, merge>> /\ \A t \in Scans : check'[t] = check[t]
    BY <1>0, <1>9 DEF DebouncedCheck, EndDebouncedCheck, TypeOK
  <2> QED
    BY <2>1 DEF PhasesOK
<1>10. ASSUME NEW c \in Checks, Check(c) PROVE PhasesOK'
  <2>1. /\ check[c].pc # "idle" /\ UNCHANGED <<slot, scan, merge>>
        /\ \A k \in Checks \ {c} : check'[k] = check[k]
    BY <1>10, CheckOwn
  <2> QED
    BY <1>0, <2>1 DEF PhasesOK
<1>11. CASE Restart
  BY <1>0, <1>11 DEF Restart, PhasesOK, IdleSlot, IdleScan, IdleCheck, IdleMerge
<1> QED
  BY <1>1, <1>2, <1>3, <1>4, <1>5, <1>6, <1>7, <1>8, <1>9, <1>10, <1>11 DEF Next

\* What an active game has stays listed while games stay active and rows stay.
LEMMA ListedGrows ==
    ASSUME \A g \in Ids : Active(g) => Active(g)',
           \A g \in Ids, p \in Paths : row[g][p] = "active" => row'[g][p] = "active"
    PROVE  Listed \subseteq Listed'
BY DEF Listed

\* A running call of the scan goes on: its file comes to be listed, the others stay.
LEMMA IndexKeepsIndexed ==
    ASSUME TypeOK, NEW s \in Scans, Index(s), scan[s].pc = "indexing", Indexed(s)
    PROVE  Indexed(s)'
<1> USE DEF diskVars, dbVars, scanVars, boundVars
<1> DEFINE x == slot[s]
<1>0. /\ s \in Slots /\ slot[s] \in SlotType /\ DOMAIN slot = Slots
      /\ game \in [Ids -> GameRow] /\ row \in [Ids -> [Paths -> RowState]]
      /\ slot[s].pc # "idle" /\ slot[s].path \in Paths
      /\ slot[s].pc # "creating" => slot[s].gid \in Ids
      /\ disk' = disk /\ scan' = scan
  BY IndexOwnSlot DEF TypeOK, Slots
<1>00. slot = [i \in Slots |-> slot[i]]
  BY DEF TypeOK
<1>1. CASE Restore(s)
  <2>1. /\ slot'[s].pc = "matched" /\ slot'[s].path = slot[s].path
        /\ slot'[s].gid = slot[s].gid
    BY <1>0, <1>00, <1>1 DEF Restore, SlotType
  <2>2. /\ \A g \in Ids : Active(g) => Active(g)'
        /\ Active(slot[s].gid)'
    BY <1>0, <1>1 DEF Restore, Active, GameRow
  <2>3. Listed \subseteq Listed'
    BY <1>1, <2>2, ListedGrows DEF Restore
  <2> QED
    BY <1>0, <2>1, <2>2, <2>3 DEF Indexed, Active
<1>2. CASE Create(s)
  <2>1. ~\E g \in Ids : game[g].file = slot[s].path
    <3>1. Matches(slot[s].path) = {}
      BY <1>2 DEF Create, Indexed
    <3> QED
      BY <3>1 DEF Matches
  <2>2. PICK g \in Ids :
            /\ game[g] = NoGame
            /\ game' = [game EXCEPT ![g] =
                  [st |-> "active", file |-> slot[s].path, title |-> TitleOf[slot[s].path]]]
            /\ slot' = [slot EXCEPT ![s].pc = "matched", ![s].gid = g]
    BY <1>2, <2>1 DEF Create
  <2>3. slot'[s].pc = "matched" /\ slot'[s].path = slot[s].path /\ slot'[s].gid = g
    BY <1>0, <1>00, <2>2 DEF SlotType
  <2>4. Active(g)' /\ \A h \in Ids : Active(h) => Active(h)'
    BY <1>0, <2>2 DEF Active, GameRow, NoGame
  <2>5. Listed \subseteq Listed'
    BY <1>2, <2>4, ListedGrows DEF Create
  <2> QED
    BY <1>0, <2>3, <2>4, <2>5 DEF Indexed, Active
<1>3. CASE FindGame(s)
  <2>1. Active(slot[s].gid)
    BY <1>3 DEF FindGame, Indexed
  <2>2. /\ slot'[s].pc = "recording" /\ slot'[s].path = slot[s].path
        /\ slot'[s].gid = slot[s].gid
    BY <1>0, <1>00, <1>3, <2>1 DEF FindGame, SlotType
  <2>3. UNCHANGED <<game, row>>
    BY <1>3 DEF FindGame
  <2>4. Listed' = Listed /\ Active(slot[s].gid)'
    BY <2>1, <2>2, <2>3 DEF Listed, Active
  <2> QED
    BY <1>0, <2>2, <2>3, <2>4 DEF Indexed, Active
<1>4. CASE StoreVersion(s)
  <2>0. slot[s].pc = "storing" /\ game' = game /\ slot[s].gid \in Ids
    BY <1>0, <1>4 DEF StoreVersion
  <2>1. PICK g, p : g = slot[s].gid /\ p = slot[s].path
    OBVIOUS
  <2>2. g \in Ids /\ p \in Paths
    BY <1>0, <2>0, <2>1
  <2>3. slot[s].found = IF row[g][p] = "none" THEN {} ELSE {<<g, p>>}
    BY SMTT(30), <2>0, <2>1 DEF Indexed
  <2>4. PICK v \in IF slot[s].found = {} THEN {<<g, p>>} ELSE slot[s].found :
              /\ row' = [row EXCEPT ![v[1]][p] = "none", ![g][p] = "active"]
              /\ slot' = [SlotsFollow(v[1], g, {p}) EXCEPT
                            ![s].pc = "listing", ![s].found = {}]
    BY <1>4, <2>1, <2>3 DEF StoreVersion
  <2>5. v = <<g, p>>
    BY <2>3, <2>4
  <2>6. slot'[s] = [SlotsFollow(v[1], g, {p})[s] EXCEPT !.pc = "listing", !.found = {}]
    BY <1>0, <2>4 DEF SlotsFollow
  <2>7. SlotsFollow(v[1], g, {p}) \in [Slots -> SlotType]
    BY <2>2, <2>5, FollowType
  <2>8. SlotsFollow(v[1], g, {p})[s] \in SlotType
    BY <1>0, <2>7
  <2>9. /\ slot'[s].pc = "listing" /\ slot'[s].path = slot[s].path
        /\ slot'[s].gid = slot[s].gid
    BY <1>0, <2>6, <2>8, FollowKeeps DEF SlotType
  <2>10. /\ row'[g][p] = "active"
         /\ \A h \in Ids, q \in Paths : row[h][q] = "active" => row'[h][q] = "active"
    BY <1>0, <2>2, <2>4, <2>5
  <2>11. Active(slot[s].gid)' /\ \A h \in Ids : Active(h) => Active(h)'
    BY <1>0, <2>0, <2>9 DEF Indexed, Active
  <2>12. Listed \subseteq Listed'
    BY <2>10, <2>11, ListedGrows
  <2> QED
    BY <1>0, <2>1, <2>9, <2>10, <2>11, <2>12 DEF Indexed, Active
<1>7. CASE FindVersion(s)
  <2>0. slot[s].pc = "recording" /\ UNCHANGED <<game, row>>
    BY <1>7 DEF FindVersion
  <2>1. /\ slot'[s].pc = "storing" /\ slot'[s].path = slot[s].path
        /\ slot'[s].gid = slot[s].gid
        /\ slot'[s].found = IF row[slot[s].gid][slot[s].path] = "none" THEN {}
                            ELSE {<<slot[s].gid, slot[s].path>>}
    BY <1>0, <1>00, <1>7 DEF FindVersion, SlotType
  <2>2. Listed' = Listed /\ Active(slot[s].gid)'
    BY <2>0, <2>1 DEF Listed, Active, Indexed
  <2> QED
    BY <1>0, <2>0, <2>1, <2>2 DEF Indexed, Active
<1>5. CASE ListVersions(s)
  <2>1. /\ slot'[s].pc = "patching" /\ slot'[s].path = slot[s].path
        /\ slot'[s].gid = slot[s].gid
    BY <1>0, <1>00, <1>5 DEF ListVersions, SlotType
  <2>2. slot[s].pc = "listing" /\ UNCHANGED <<game, row>>
    BY <1>5 DEF ListVersions
  <2>3. Listed' = Listed
    BY <2>2 DEF Listed, Active
  <2> QED
    BY <1>0, <2>1, <2>2, <2>3 DEF Indexed, Active
<1>6. CASE PatchGame(s)
  <2>1. slot[s].pc = "patching" /\ slot'[s].pc = "idle" /\ row' = row
    BY <1>0, <1>00, <1>6 DEF PatchGame, EndIndex, IdleSlot
  <2>2. \A g \in Ids : Active(g)' <=> Active(g)
    <3>1. CASE UNCHANGED game
      BY <3>1 DEF Active
    <3>2. CASE game' = [game EXCEPT ![slot[s].gid].file = slot[s].file,
                                    ![slot[s].gid].title = TitleOf[slot[s].path]]
      BY <1>0, <3>2 DEF Active, GameRow
    <3> QED
      BY <1>6, <3>1, <3>2 DEF PatchGame
  <2>3. Listed' = Listed
    BY <2>1, <2>2 DEF Listed
  <2>4. slot[s].path \in Listed
    BY <1>0, <2>1 DEF Indexed, Listed
  <2> QED
    BY <1>0, <2>1, <2>3, <2>4 DEF Indexed
<1> QED
  BY <1>1, <1>2, <1>3, <1>4, <1>5, <1>6, <1>7 DEF Index

\* A scan begins with all files to do, and takes them one by one.
LEMMA ScanKeepsIndexed ==
    ASSUME TypeOK, NEW s \in Scans, slot[s].pc = "idle"
    PROVE  /\ StartScan(s) /\ scan'[s].snap = disk' => Indexed(s)'
           /\ ScanFile(s) /\ Indexed(s) => Indexed(s)'
<1> USE DEF diskVars, dbVars, scanVars, boundVars
<1>0. /\ s \in Slots /\ slot \in [Slots -> SlotType] /\ scan[s] \in ScanType
  BY DEF TypeOK, Slots
<1>1. ASSUME StartScan(s), scan'[s].snap = disk' PROVE Indexed(s)'
  <2>1. PICK snap \in Snapshots :
          scan' = [scan EXCEPT ![s] = [pc |-> "indexing", todo |-> snap, snap |-> snap]]
    BY <1>1 DEF StartScan
  <2>2. scan'[s].todo = disk' /\ slot' = slot
    BY <1>1, <2>1 DEF StartScan, TypeOK
  <2> QED
    BY <2>2 DEF Indexed
<1>2. ASSUME ScanFile(s), Indexed(s) PROVE Indexed(s)'
  <2>1. PICK p \in scan[s].todo : /\ StartIndex(s, p)
                                  /\ scan' = [scan EXCEPT ![s].todo = @ \ {p}]
    BY <1>2 DEF ScanFile
  <2>2. scan'[s].todo = scan[s].todo \ {p} /\ UNCHANGED <<disk, game, row>>
    BY <1>0, <1>2, <2>1 DEF ScanFile, TypeOK, ScanType
  <2>3. Listed' = Listed
    BY <2>2 DEF Listed, Active
  <2>4. CASE Matches(p) = {}
    <3>1. slot'[s].pc = "creating" /\ slot'[s].path = p
      BY <1>0, <2>1, <2>4 DEF StartIndex, IdleSlot
    <3>2. Matches(slot[s].path)' = {}
      BY <2>2, <2>4, <3>1 DEF Matches
    <3>3. \A q \in disk' \ scan'[s].todo : q \in Listed' \/ q = p
      BY <1>0, <1>2, <2>2, <2>3 DEF Indexed
    <3> QED
      BY <3>1, <3>2, <3>3 DEF Indexed
  <2>5. CASE Matches(p) # {}
    <3>1. PICK g \in Matches(p) : slot' = [slot EXCEPT ![s] =
             [IdleSlot EXCEPT !.pc = IF Active(g) THEN "matched" ELSE "restoring",
                              !.path = p, !.gid = g]]
      BY <2>1, <2>5 DEF StartIndex
    <3>2. /\ slot'[s].pc = IF Active(g) THEN "matched" ELSE "restoring"
          /\ slot'[s].path = p /\ slot'[s].gid = g
      BY <1>0, <3>1 DEF IdleSlot
    <3>3. \A q \in disk' \ scan'[s].todo : q \in Listed' \/ q = p
      BY <1>0, <1>2, <2>2, <2>3 DEF Indexed
    <3> QED
      BY <2>2, <3>2, <3>3 DEF Indexed, Active
  <2> QED
    BY <2>4, <2>5
<1> QED
  BY <1>1, <1>2

\* The check of a scan begins when everything is listed, with all active games.
LEMMA CheckBegins ==
    ASSUME TypeOK, NEW s \in Scans, ScanCheck(s), Indexed(s), scan[s].snap = disk
    PROVE  Checked(s)'
<1> USE DEF diskVars, dbVars, scanVars, boundVars
<1>0. s \in Checks /\ check \in [Checks -> CheckType]
  BY DEF TypeOK, Checks
<1>1. /\ scan[s].todo = {} /\ slot[s].pc = "idle" /\ UNCHANGED <<disk, game, row>>
      /\ check' = [check EXCEPT ![s] =
          [IdleCheck EXCEPT !.pc = "reading", !.snap = scan[s].snap, !.todo = ActiveGames]]
  BY DEF ScanCheck, ReadGames
<1>2. /\ check'[s].pc = "reading"
      /\ check'[s].snap = scan[s].snap /\ check'[s].todo = ActiveGames
  BY <1>0, <1>1 DEF IdleCheck
<1>3. disk' \subseteq Listed'
  BY <1>1 DEF Indexed, Listed, Active
<1>4. \A h \in Ids : game'[h].st = "active" => <<h, game'[h].file>> \in check'[s].todo
  BY <1>1, <1>2 DEF ActiveGames, Active
<1> QED
  BY <1>1, <1>2, <1>3, <1>4 DEF Checked, Decided, Active

\* What is soft-deleted, and what of it the library listed.
LEMMA SoftDeleted ==
    ASSUME TypeOK, NEW rows, row' = SoftDelete(rows), game' = game,
           \A g \in Ids, p \in Paths : <<g, p>> \in rows /\ Active(g) => p \notin disk
    PROVE  /\ \A p \in disk : p \in Listed => p \in Listed'
           /\ \A g \in Ids : ActivePaths(g)' = {p \in ActivePaths(g) : <<g, p>> \notin rows}
<1>1. \A g \in Ids, p \in Paths :
        row'[g][p] = IF <<g, p>> \in rows THEN "deleted" ELSE row[g][p]
  BY DEF SoftDelete
<1> QED
  BY <1>1 DEF Listed, ActivePaths, Active

\* The check of a game decides, on what the game has and what is on the volume.
LEMMA GameIsDecided ==
    ASSUME TypeOK, NEW s \in Scans, CheckGame(s), Checked(s)
    PROVE  \E e \in check[s].todo :
             /\ e[1] \in Ids
             /\ check'[s].todo = check[s].todo \ {e} /\ check'[s].snap = check[s].snap
             /\ \/ /\ check'[s].pc = "prune_delete" /\ check'[s].gid = e[1]
                   /\ check'[s].stale = {e[1]} \X (ActivePaths(e[1]) \ disk)
                   /\ ActivePaths(e[1]) \cap disk = {}
                \/ /\ check'[s].pc = "prune_patch" /\ check'[s].gid = e[1]
                   /\ check'[s].stale = {e[1]} \X (ActivePaths(e[1]) \ disk)
                   /\ ActivePaths(e[1]) \cap disk # {}
                \/ /\ check'[s].pc = "games" /\ check'[s].gid = check[s].gid
                   /\ ActivePaths(e[1]) \subseteq disk
                   /\ ActivePaths(e[1]) # {} \/ e[2] \in disk
<1>0. s \in Checks /\ check \in [Checks -> CheckType] /\ check[s] \in CheckType
  BY DEF TypeOK, Checks
<1>1. check[s].pc = "games" /\ check[s].snap \subseteq disk
  <2>1. check[s].pc = "games"
    BY DEF CheckGame
  <2>2. check[s].snap \subseteq disk
    BY Zenon DEF Checked
  <2> QED
    BY <2>1, <2>2
<1>2. PICK e \in check[s].todo :
         LET g == e[1]
             available == Available(g, e[2])
             existing == {p \in available : Exists(s, p)}
             stale == {g} \X (ActivePaths(g) \ existing)
             next == [check[s] EXCEPT !.todo = @ \ {e}]
         IN check' = [check EXCEPT ![s] =
              IF existing = {}
              THEN [next EXCEPT !.pc = "prune_delete", !.gid = g, !.stale = stale]
              ELSE IF existing # available
              THEN [next EXCEPT !.pc = "prune_patch", !.gid = g, !.stale = stale,
                                !.file = Best(existing)]
              ELSE next]
  BY DEF CheckGame
<1> DEFINE g == e[1]
           available == Available(g, e[2])
           existing == {p \in available : Exists(s, p)}
           stale == {g} \X (ActivePaths(g) \ existing)
           next == [check[s] EXCEPT !.todo = @ \ {e}]
<1>3. e[1] \in Ids
  BY <1>0 DEF CheckType
<1>4. existing = available \cap disk
  BY <1>1 DEF Exists, StillInStorage
<1>5. /\ HasRows(g) => available = ActivePaths(g)
      /\ ~HasRows(g) => available = {e[2]} /\ ActivePaths(g) = {}
  BY DEF Available, HasRows, ActivePaths
<1>6. stale = {g} \X (ActivePaths(g) \ disk)
  BY <1>4, <1>5
<1>7. /\ existing = {} => check'[s] = [next EXCEPT !.pc = "prune_delete", !.gid = g,
                                                   !.stale = stale]
      /\ existing # {} /\ existing # available =>
            check'[s] = [next EXCEPT !.pc = "prune_patch", !.gid = g, !.stale = stale,
                                     !.file = Best(existing)]
      /\ existing # {} /\ existing = available => check'[s] = next
  BY <1>0, <1>2
<1>8. /\ next.todo = check[s].todo \ {e} /\ next.pc = "games" /\ next.snap = check[s].snap
      /\ next.gid = check[s].gid /\ next \in CheckType
  BY <1>0, <1>1 DEF CheckType
<1> HIDE DEF available, existing, stale, next
<1>9. CASE existing = {}
  <2>1. /\ check'[s].pc = "prune_delete" /\ check'[s].gid = g /\ check'[s].stale = stale
        /\ check'[s].todo = check[s].todo \ {e} /\ check'[s].snap = check[s].snap
    BY <1>7, <1>8, <1>9 DEF CheckType
  <2> QED
    BY <1>3, <1>4, <1>5, <1>6, <1>9, <2>1
<1>10. CASE existing # {} /\ existing # available
  <2>1. /\ check'[s].pc = "prune_patch" /\ check'[s].gid = g /\ check'[s].stale = stale
        /\ check'[s].todo = check[s].todo \ {e} /\ check'[s].snap = check[s].snap
    BY <1>7, <1>8, <1>10 DEF CheckType
  <2> QED
    BY <1>3, <1>4, <1>5, <1>6, <1>10, <2>1
<1>11. CASE existing # {} /\ existing = available
  <2>1. /\ ActivePaths(g) \subseteq disk
        /\ ActivePaths(g) # {} \/ e[2] \in disk
    BY <1>4, <1>5, <1>11
  <2> QED
    BY <1>3, <1>7, <1>8, <1>11, <2>1
<1> QED
  BY <1>9, <1>10, <1>11

\* No step of the check takes a file that is there out of the library.
LEMMA CheckKeepsChecked ==
    ASSUME TypeOK, NEW s \in Scans, Check(s), Checked(s)
    PROVE  Checked(s)'
<1> USE DEF diskVars, dbVars, scanVars, boundVars
<1>00. PICK g : g = check[s].gid
  OBVIOUS
<1> USE <1>00
<1>0. /\ s \in Checks /\ check \in [Checks -> CheckType] /\ check[s] \in CheckType
      /\ game \in [Ids -> GameRow] /\ disk' = disk /\ disk \subseteq Paths
  BY CheckOwn DEF TypeOK, Checks
<1>1. CASE CleanDangling(s)
  <2>1. /\ check[s].pc = "cleaning" /\ row' = SoftDelete(check[s].stale) /\ game' = game
        /\ check' = [check EXCEPT ![s].pc = "games", ![s].stale = {}]
    BY <1>1 DEF CleanDangling
  <2>2. /\ check'[s].pc = "games" /\ check'[s].stale = {} /\ check'[s].snap = check[s].snap
        /\ check'[s].todo = check[s].todo /\ check'[s].gid = check[s].gid
    BY <1>0, <2>1 DEF CheckType
  <2>3. \A h \in Ids, p \in Paths : <<h, p>> \in check[s].stale => ~Active(h)
    BY <2>1 DEF Checked
  <2>4. /\ \A p \in disk : p \in Listed => p \in Listed'
        /\ \A h \in Ids : Active(h) => ActivePaths(h)' = ActivePaths(h)
    <3>1. /\ \A p \in disk : p \in Listed => p \in Listed'
          /\ \A h \in Ids :
               ActivePaths(h)' = {p \in ActivePaths(h) : <<h, p>> \notin check[s].stale}
      BY <2>1, <2>3, SoftDeleted
    <3> QED
      BY <2>3, <3>1 DEF ActivePaths
  <2>5. disk \subseteq Listed' /\ \A h \in Ids : Active(h) =>
            Sound(h)' \/ <<h, game'[h].file>> \in check'[s].todo
    BY <1>0, <2>1, <2>2, <2>4 DEF Checked, Sound, Decided
  <2> QED
    BY <1>0, <2>1, <2>2, <2>5 DEF Checked, Decided, Active
<1>2. CASE CheckGame(s)
  <2>1. PICK e \in check[s].todo :
             /\ e[1] \in Ids
             /\ check'[s].todo = check[s].todo \ {e} /\ check'[s].snap = check[s].snap
             /\ \/ /\ check'[s].pc = "prune_delete" /\ check'[s].gid = e[1]
                   /\ check'[s].stale = {e[1]} \X (ActivePaths(e[1]) \ disk)
                   /\ ActivePaths(e[1]) \cap disk = {}
                \/ /\ check'[s].pc = "prune_patch" /\ check'[s].gid = e[1]
                   /\ check'[s].stale = {e[1]} \X (ActivePaths(e[1]) \ disk)
                   /\ ActivePaths(e[1]) \cap disk # {}
                \/ /\ check'[s].pc = "games" /\ check'[s].gid = check[s].gid
                   /\ ActivePaths(e[1]) \subseteq disk
                   /\ ActivePaths(e[1]) # {} \/ e[2] \in disk
    BY <1>2, GameIsDecided
  <2>2. check[s].pc = "games" /\ UNCHANGED <<game, row>>
    BY <1>2 DEF CheckGame
  <2>3. /\ Listed' = Listed
        /\ \A h \in Ids : /\ (Active(h)' <=> Active(h)) /\ (Sound(h)' <=> Sound(h))
                          /\ ActivePaths(h)' = ActivePaths(h)
    BY <1>0, <2>2 DEF Listed, Active, Sound, ActivePaths
  <2>4. ASSUME NEW h \in Ids, Active(h)'
        PROVE  \/ Sound(h)' \/ <<h, game'[h].file>> \in check'[s].todo
               \/ check'[s].pc \in Decided /\ h = check'[s].gid
    <3>1. CASE <<h, game[h].file>> \in check[s].todo
      <4>1. CASE e = <<h, game[h].file>>
        BY <2>1, <2>3, <4>1 DEF Sound, Decided
      <4>2. CASE e # <<h, game[h].file>>
        BY <2>1, <2>2, <3>1, <4>2
      <4> QED
        BY <4>1, <4>2
    <3>2. CASE Sound(h)
      BY <2>3, <3>2
    <3> QED
      BY <2>2, <2>3, <2>4, <3>1, <3>2 DEF Checked, Decided
  <2>6. disk \subseteq Listed' /\ check'[s].snap \subseteq disk
    BY <2>1, <2>3 DEF Checked
  <2>7. check'[s].pc \in {"prune_delete", "prune_patch"} =>
           ActivePaths(check[s].gid)' = ActivePaths(e[1]) /\ check'[s].gid = e[1]
    BY <2>1, <2>2 DEF ActivePaths
  <2> QED
    BY <1>0, <2>1, <2>4, <2>6, <2>7 DEF Checked, Decided
<1>3. CASE PruneVersions(s)
  <2>1. /\ check[s].pc \in {"prune_delete", "prune_patch"} /\ game' = game
        /\ row' = SoftDelete(check[s].stale)
        /\ check' = [check EXCEPT ![s].stale = {},
             ![s].pc = IF check[s].pc = "prune_delete" THEN "delete" ELSE "patch"]
    BY <1>3 DEF PruneVersions
  <2>2. /\ check'[s].pc = IF check[s].pc = "prune_delete" THEN "delete" ELSE "patch"
        /\ check'[s].snap = check[s].snap
        /\ check'[s].todo = check[s].todo /\ check'[s].gid = check[s].gid
    BY <1>0, <2>1 DEF CheckType
  <2>3. g \in Ids /\ check[s].stale = {g} \X (ActivePaths(g) \ disk)
    BY <2>1 DEF Checked, Decided
  <2>4. /\ \A p \in disk : p \in Listed => p \in Listed'
        /\ \A h \in Ids :
             ActivePaths(h)' = {p \in ActivePaths(h) : <<h, p>> \notin check[s].stale}
    BY <2>1, <2>3, SoftDeleted
  <2>5. /\ ActivePaths(g)' = ActivePaths(g) \cap disk
        /\ \A h \in Ids \ {g} : ActivePaths(h)' = ActivePaths(h)
    <3>1. \A h \in Ids, p \in Paths : <<h, p>> \in check[s].stale <=>
                 h = g /\ p \in ActivePaths(g) /\ p \notin disk
      BY <2>3 DEF ActivePaths
    <3>2. ASSUME NEW h \in Ids
          PROVE  ActivePaths(h)' = IF h = g THEN ActivePaths(g) \cap disk ELSE ActivePaths(h)
      <4>1. ActivePaths(h)' = {p \in ActivePaths(h) : <<h, p>> \notin check[s].stale}
        BY <2>4
      <4>2. \A p \in ActivePaths(h) : p \in Paths
        BY DEF ActivePaths
      <4>3. \A p \in ActivePaths(h) : <<h, p>> \in check[s].stale <=> h = g /\ p \notin disk
        BY <3>1, <4>2
      <4> HIDE DEF ActivePaths
      <4> QED
        BY <4>1, <4>3
    <3> QED
      BY <2>3, <3>2
  <2>6. \A h \in Ids \ {g} : Active(h)' => Sound(h)' \/ <<h, game'[h].file>> \in check'[s].todo
    BY <1>0, <2>1, <2>2, <2>5 DEF Checked, Sound, Active
  <2>7. disk \subseteq Listed' /\ check'[s].snap \subseteq disk
    BY <2>2, <2>4 DEF Checked
  <2>8. /\ check[s].pc = "prune_delete" => ActivePaths(g)' = {}
        /\ check[s].pc = "prune_patch" => ActivePaths(g)' # {} /\ ActivePaths(g)' \subseteq disk
    BY <2>5 DEF Checked
  <2>9. ActivePaths(check[s].gid)' = ActivePaths(g)'
    BY <2>2 DEF ActivePaths
  <2> QED
    BY <1>0, <2>1, <2>2, <2>3, <2>6, <2>7, <2>8, <2>9 DEF Checked, Decided
<1>4. ASSUME NextGame(s)
      PROVE  /\ check'[s].pc = "games" /\ check'[s].snap = check[s].snap
             /\ check'[s].todo = check[s].todo
  BY <1>0, <1>4 DEF NextGame, CheckType
<1>5. CASE DeleteGame(s)
  <2>1. /\ check[s].pc = "delete" /\ game' = [game EXCEPT ![g].st = "deleted"]
        /\ row' = row /\ NextGame(s)
    BY <1>5 DEF DeleteGame
  <2>2. g \in Ids /\ ActivePaths(g) = {}
    BY <2>1 DEF Checked, Decided
  <2>3. /\ game'[g].st # "active"
        /\ \A h \in Ids \ {g} : game'[h] = game[h]
    BY <1>0, <2>1, <2>2 DEF GameRow
  <2>4. disk \subseteq Listed'
    BY <2>1, <2>2, <2>3 DEF Checked, Listed, ActivePaths, Active
  <2>5. \A h \in Ids \ {g} : Active(h)' => Sound(h)' \/ <<h, game'[h].file>> \in check'[s].todo
    BY <1>0, <1>4, <2>1, <2>3 DEF Checked, Sound, Active, ActivePaths
  <2> QED
    BY <1>0, <1>4, <2>1, <2>3, <2>4, <2>5 DEF Checked, Decided, Active
<1>6. CASE PatchChecked(s)
  <2>1. /\ check[s].pc = "patch" /\ row' = row /\ NextGame(s)
        /\ game' = game \/ game' = [game EXCEPT ![g].file = check[s].file]
    BY <1>6 DEF PatchChecked
  <2>2. g \in Ids /\ ActivePaths(g) # {} /\ ActivePaths(g) \subseteq disk
    BY <2>1 DEF Checked, Decided
  <2>3. \A h \in Ids : game'[h].st = game[h].st /\ (h # g => game'[h] = game[h])
    BY <1>0, <2>1, <2>2 DEF GameRow
  <2>4. Listed' = Listed /\ \A h \in Ids : ActivePaths(h)' = ActivePaths(h)
    BY <2>1, <2>3 DEF Listed, ActivePaths, Active
  <2>5. \A h \in Ids : Active(h)' => Sound(h)' \/ <<h, game'[h].file>> \in check'[s].todo
    BY <1>0, <1>4, <2>1, <2>2, <2>3, <2>4 DEF Checked, Sound, Active
  <2> QED
    BY <1>0, <1>4, <2>1, <2>4, <2>5 DEF Checked, Decided
<1>7. CASE ReadDangling(s)
  <2>1. check[s].pc = "reading" /\ UNCHANGED <<game, row>>
    BY <1>7 DEF ReadDangling
  <2>2. /\ check'[s].pc \in {"games", "cleaning"} /\ check'[s].snap = check[s].snap
        /\ check'[s].todo = check[s].todo /\ check'[s].stale = Dangling
    BY <1>0, <1>7 DEF ReadDangling, CheckType
  <2>3. \A v \in check'[s].stale : ~Active(v[1])'
    BY <2>1, <2>2 DEF Dangling, Active
  <2>4. /\ Listed' = Listed
        /\ \A h \in Ids : (Active(h)' <=> Active(h)) /\ (Sound(h)' <=> Sound(h))
    BY <1>0, <2>1 DEF Listed, Active, Sound, ActivePaths
  <2>5. \A h \in Ids : Active(h)' => Sound(h)' \/ <<h, game'[h].file>> \in check'[s].todo
    BY <2>1, <2>2, <2>4 DEF Checked, Decided
  <2> QED
    BY <1>0, <2>1, <2>2, <2>3, <2>4, <2>5 DEF Checked, Decided
<1>8. ~AfterWalk(s)
  BY DEF AfterWalk, Checked
<1> QED
  BY <1>1, <1>2, <1>3, <1>5, <1>6, <1>7, <1>8 DEF Check

\* No game is both a duplicate and what a duplicate goes to, or a duplicate twice.
LEMMA DuplicatesApart ==
    ASSUME TypeOK
    PROVE  /\ \A e \in Duplicates : /\ e[1] \in Ids /\ e[2] \in Ids
                                    /\ Active(e[1]) /\ Active(e[2])
                                    /\ e[3] = game[e[1]].file
           /\ \A e, f \in Duplicates : e[1] # f[2] /\ (e[1] = f[1] => e = f)
<1> DEFINE IsCanonical(c) == \A g \in 1 .. c - 1 : Active(g) => game[g].title # game[c].title
<1>1. \A e \in Duplicates :
         /\ e = <<e[1], e[2], game[e[1]].file>>
         /\ e[1] \in Ids /\ e[2] \in Ids /\ e[2] < e[1]
         /\ Active(e[1]) /\ Active(e[2])
         /\ game[e[1]].title = game[e[2]].title
         /\ IsCanonical(e[2])
  BY DEF Duplicates
<1>2. \A c \in Ids, g \in Ids : g < c => g \in 1 .. c - 1
  BY ConstantsType DEF Ids
<1>3. Ids \subseteq Int
  BY ConstantsType DEF Ids
<1>4. \A c, d \in Ids : IsCanonical(d) /\ Active(c) /\ c < d => game[c].title # game[d].title
  BY <1>2
<1> HIDE DEF IsCanonical
<1>5. ASSUME NEW e \in Duplicates, NEW f \in Duplicates PROVE e[1] # f[2]
  BY <1>1, <1>4
<1>6. ASSUME NEW e \in Duplicates, NEW f \in Duplicates, e[1] = f[1] PROVE e = f
  <2>1. ~(e[2] < f[2]) /\ ~(f[2] < e[2])
    BY <1>1, <1>4, <1>6
  <2>2. e[2] = f[2]
    BY <1>1, <1>3, <2>1
  <2>3. e = <<e[1], e[2], game[e[1]].file>> /\ f = <<f[1], f[2], game[f[1]].file>>
    BY <1>1
  <2> QED
    BY <1>6, <2>2, <2>3
<1> QED
  BY <1>1, <1>5, <1>6

\* When the check of a scan is through, all games are sound: what is listed is there.
LEMMA MergeBegins ==
    ASSUME TypeOK, NEW s \in Scans, BeginMerge(s), Checked(s)
    PROVE  Merged(s)'
<1> USE DEF diskVars, dbVars, scanVars, boundVars
<1>1. /\ check[s].pc = "games" /\ check[s].todo = {} /\ UNCHANGED <<disk, game, row>>
      /\ merge' = [merge EXCEPT ![s] = [IdleMerge EXCEPT !.pc = "move", !.todo = Duplicates]]
  BY DEF BeginMerge
<1>2. merge'[s].pc = "move" /\ merge'[s].todo = Duplicates
  BY <1>1 DEF TypeOK, IdleMerge
<1>3. \A h \in Ids : Active(h) => Sound(h)
  BY <1>1 DEF Checked, Decided
<1>4. Listed = disk
  <2>1. Listed \subseteq disk
    BY <1>3 DEF Listed, Sound, ActivePaths
  <2> QED
    BY <2>1 DEF Checked
<1>5. /\ Listed' = Listed
      /\ \A h \in Ids : (Active(h)' <=> Active(h)) /\ ActivePaths(h)' = ActivePaths(h)
  BY <1>1 DEF Listed, Active, ActivePaths
<1>6. \A e \in Duplicates : /\ e[1] \in Ids /\ e[2] \in Ids
                            /\ Active(e[1]) /\ Active(e[2])
                            /\ ActivePaths(e[1]) # {} \/ e[3] \in disk
  BY <1>3, DuplicatesApart DEF Sound
<1>7. \A e \in merge'[s].todo :
         /\ Active(e[1])' /\ Active(e[2])'
         /\ ActivePaths(e[1])' # {} \/ e[3] \in disk'
  BY <1>1, <1>2, <1>5, <1>6
<1>8. \A e, f \in merge'[s].todo : e[1] # f[2] /\ (e[1] = f[1] => e = f)
  BY <1>2, DuplicatesApart
<1> QED
  BY <1>1, <1>2, <1>4, <1>5, <1>7, <1>8 DEF Merged

\* Only one duplicate is in hand.
LEMMA OneInHand ==
    ASSUME TypeOK, NEW s \in Scans, Merged(s)
    PROVE  \A e, f \in Current(s) : e = f
<1>1. ASSUME NEW e \in Current(s), NEW f \in Current(s) PROVE e = f
  <2>1. merge[s] \in MergeType /\ e \in merge[s].todo /\ f \in merge[s].todo
    BY DEF Current, TypeOK
  <2>2. e[1] \in Int /\ e[2] \in Int /\ f[1] \in Int /\ f[2] \in Int
    BY <2>1, ConstantsType DEF MergeType, Ids
  <2>3. /\ e[2] < f[2] \/ (e[2] = f[2] /\ e[1] <= f[1])
        /\ f[2] < e[2] \/ (f[2] = e[2] /\ f[1] <= e[1])
    BY <2>1 DEF Current
  <2>4. e[1] = f[1]
    BY <2>2, <2>3
  <2> QED
    BY <2>1, <2>4 DEF Merged
<1> QED
  BY <1>1

\* A game without versions.
LEMMA VersionsOfOne == ASSUME NEW g, NEW S PROVE {g} \X S = {} <=> S = {}
<1>1. \A q : q \in S => <<g, q>> \in {g} \X S
  OBVIOUS
<1>2. \A v \in {g} \X S : v[2] \in S
  OBVIOUS
<1> QED
  BY <1>1, <1>2

\* A version that goes from one active game to another stays listed, and nothing
\* comes to be listed but files.
LEMMA MovedStaysListed ==
    ASSUME TypeOK, NEW d \in Ids, NEW c \in Ids, d # c, Active(d), Active(c), Listed = disk,
           NEW p \in ActivePaths(d), game' = game,
           row' = [row EXCEPT ![d][p] = "none", ![c][p] = "active"]
    PROVE  /\ Listed' = disk
           /\ ActivePaths(d)' = ActivePaths(d) \ {p}
           /\ \A g \in Ids \ {c, d} : ActivePaths(g)' = ActivePaths(g)
<1>0. p \in Paths /\ row[d][p] = "active"
  BY DEF ActivePaths
<1>1. /\ \A q \in Paths : row'[d][q] = IF q = p THEN "none" ELSE row[d][q]
      /\ \A q \in Paths : row'[c][q] = IF q = p THEN "active" ELSE row[c][q]
      /\ \A g \in Ids \ {c, d} : row'[g] = row[g]
  BY <1>0 DEF TypeOK
<1>2. \A g \in Ids : Active(g)' <=> Active(g)
  BY DEF Active
<1>3. ASSUME NEW q \in Paths PROVE q \in Listed' <=> q \in Listed
  <2>1. CASE q = p
    BY <1>0, <1>1, <1>2, <2>1 DEF Listed
  <2>2. CASE q # p
    <3>1. \A g \in Ids : row'[g][q] = row[g][q]
      BY <1>1, <2>2
    <3> QED
      BY <1>2, <3>1 DEF Listed
  <2> QED
    BY <2>1, <2>2
<1>4. Listed' = Listed
  BY <1>3 DEF Listed
<1>5. ActivePaths(d)' = ActivePaths(d) \ {p}
  <2>1. \A q : q \in ActivePaths(d)' <=> q \in Paths /\ row'[d][q] = "active"
    BY DEF ActivePaths
  <2>2. \A q : q \in ActivePaths(d) <=> q \in Paths /\ row[d][q] = "active"
    BY DEF ActivePaths
  <2>3. ASSUME NEW q PROVE q \in ActivePaths(d)' <=> q \in ActivePaths(d) /\ q # p
    <3>1. q \in Paths => row'[d][q] = IF q = p THEN "none" ELSE row[d][q]
      BY <1>1
    <3>2. /\ q \in ActivePaths(d)' <=> q \in Paths /\ row'[d][q] = "active"
          /\ q \in ActivePaths(d) <=> q \in Paths /\ row[d][q] = "active"
      BY <2>1, <2>2
    <3> QED
      BY <3>1, <3>2
  <2> HIDE DEF ActivePaths
  <2> QED
    BY <2>3
<1>6. \A g \in Ids \ {c, d} : ActivePaths(g)' = ActivePaths(g)
  BY <1>1 DEF ActivePaths
<1> QED
  BY <1>4, <1>5, <1>6

\* A version for a file that is there adds nothing but a file.
LEMMA AddedIsListed ==
    ASSUME TypeOK, NEW c \in Ids, Listed = disk, NEW p \in disk, game' = game,
           row' = [row EXCEPT ![c][p] = "active"]
    PROVE  /\ Listed' = disk
           /\ \A g \in Ids \ {c} : ActivePaths(g)' = ActivePaths(g)
<1>0. p \in Paths
  BY DEF TypeOK
<1>1. /\ \A q \in Paths : row'[c][q] = IF q = p THEN "active" ELSE row[c][q]
      /\ \A g \in Ids \ {c} : row'[g] = row[g]
  BY <1>0 DEF TypeOK
<1>2. \A g \in Ids : Active(g)' <=> Active(g)
  BY DEF Active
<1>3. ASSUME NEW q \in Paths PROVE q \in Listed' <=> q \in Listed
  <2>1. CASE q = p
    <3>1. PICK g \in Ids : Active(g) /\ row[g][p] = "active"
      BY DEF Listed
    <3>2. row'[g][p] = "active"
      BY <1>0, <1>1, <3>1
    <3> QED
      BY <1>0, <1>2, <2>1, <3>1, <3>2 DEF Listed
  <2>2. CASE q # p
    <3>1. \A g \in Ids : row'[g][q] = row[g][q]
      BY <1>1, <2>2
    <3> QED
      BY <1>2, <3>1 DEF Listed
  <2> QED
    BY <2>1, <2>2
<1>4. Listed' = Listed
  BY <1>3 DEF Listed
<1>5. \A g \in Ids \ {c} : ActivePaths(g)' = ActivePaths(g)
  BY <1>1 DEF ActivePaths
<1> QED
  BY <1>4, <1>5

\* No step of the merge takes a file out of the library or brings another one in.
LEMMA MergeKeepsMerged ==
    ASSUME TypeOK, NEW s \in Scans, Merged(s), scan[s].pc = "merging",
           \/ FindVersions(s) \/ MoveVersion(s) \/ AddVersion(s)
           \/ Tombstone(s) \/ DeleteDuplicate(s) \/ RefreshDefault(s)
    PROVE  Merged(s)'
<1> USE DEF diskVars, dbVars, scanVars, boundVars
<1>0. /\ merge \in [Scans -> MergeType] /\ merge[s] \in MergeType
      /\ game \in [Ids -> GameRow]
      /\ \A e \in merge[s].todo : e[1] \in Ids /\ e[2] \in Ids /\ e[3] \in Paths \cup {NoPath}
      /\ Current(s) \subseteq merge[s].todo
      /\ \A e, f \in Current(s) : e = f
  <2>1. merge \in [Scans -> MergeType] /\ game \in [Ids -> GameRow]
    BY DEF TypeOK
  <2>2. \A e \in merge[s].todo : e[1] \in Ids /\ e[2] \in Ids /\ e[3] \in Paths \cup {NoPath}
    BY <2>1 DEF MergeType
  <2>3. Current(s) \subseteq merge[s].todo
    BY DEF Current
  <2>4. \A e, f \in Current(s) : e = f
    BY OneInHand
  <2> QED
    BY <2>1, <2>2, <2>3, <2>4
<1>00. /\ Listed = disk
       /\ \A e, f \in merge[s].todo : e[1] # f[2] /\ (e[1] = f[1] => e = f)
       /\ \A e \in merge[s].todo : Active(e[1]) /\ Active(e[2])
  BY DEF Merged
<1>1. ASSUME NEW e \in Current(s), merge[s].pc # "idle",
             \A g \in Ids : Active(g)' <=> Active(g), Listed' = disk', disk' = disk,
             \A g \in Ids \ {e[1], e[2]} : ActivePaths(g)' = ActivePaths(g)
      PROVE  /\ \A f \in merge[s].todo : Active(f[1])' /\ Active(f[2])'
             /\ \A f \in merge[s].todo \ {e} : ActivePaths(f[1])' # {} \/ f[3] \in disk
  <2>1. \A f \in merge[s].todo : Active(f[1])' /\ Active(f[2])'
    BY <1>0, <1>00, <1>1
  <2>2. ASSUME NEW f \in merge[s].todo \ {e}
        PROVE  ActivePaths(f[1])' # {} \/ f[3] \in disk
    <3>1. f[1] \in Ids \ {e[1], e[2]}
      BY <1>0, <1>00
    <3>2. f \notin Current(s)
      BY <1>0
    <3>3. ActivePaths(f[1]) # {} \/ f[3] \in disk
      BY <3>2, Zenon DEF Merged
    <3> QED
      BY <1>1, <3>1, <3>3
  <2> QED
    BY <2>1, <2>2
<1>11. ASSUME NEW e \in Current(s), merge[s].pc \in {"moving", "adding"}, GiveUp(s, e),
              UNCHANGED <<disk, game>>
       PROVE  Merged(s)'
  <2>1. /\ merge'[s].pc = "move" /\ merge'[s].todo = merge[s].todo \ {e} /\ row' = row
    BY <1>0, <1>11 DEF GiveUp, MergeType
  <2>2. /\ \A g \in Ids : (Active(g)' <=> Active(g)) /\ ActivePaths(g)' = ActivePaths(g)
        /\ Listed' = Listed
    BY <1>11, <2>1 DEF Active, ActivePaths, Listed
  <2>3. /\ \A f \in merge[s].todo : Active(f[1])' /\ Active(f[2])'
        /\ \A f \in merge[s].todo \ {e} : ActivePaths(f[1])' # {} \/ f[3] \in disk
    BY <1>1, <1>00, <1>11, <2>2
  <2> HIDE DEF Listed, Active, ActivePaths, Current
  <2> QED
    BY <1>00, <1>11, <2>1, <2>2, <2>3 DEF Merged
<1>12. ASSUME NEW e \in Current(s), merge[s].pc # "idle",
              merge'[s].todo = merge[s].todo,
              merge'[s].pc \in {"moving", "adding", "tombstone"},
              merge'[s].pc = "moving" => /\ merge'[s].versions = {e[1]} \X ActivePaths(e[1])'
                                         /\ ActivePaths(e[1])' # {},
              merge'[s].pc \in {"adding", "tombstone"} => ActivePaths(e[1])' = {},
              merge'[s].pc = "adding" => e[3] \in disk,
              \A g \in Ids : Active(g)' <=> Active(g), Listed' = disk', disk' = disk,
              \A g \in Ids \ {e[1], e[2]} : ActivePaths(g)' = ActivePaths(g)
       PROVE  Merged(s)'
  <2>1. Current(s)' = Current(s)
    BY <1>12 DEF Current
  <2>2. /\ \A f \in merge[s].todo : Active(f[1])' /\ Active(f[2])'
        /\ \A f \in merge[s].todo \ {e} : ActivePaths(f[1])' # {} \/ f[3] \in disk
    BY <1>1, <1>12
  <2>3. \A f \in Current(s) : f = e
    BY <1>0
  <2> DEFINE A == ActivePaths(e[1])'
  <2>4. \A f \in Current(s)' : ActivePaths(f[1])' = A
    BY <2>1, <2>3
  <2>5. \A f \in merge'[s].todo : /\ Active(f[1])' /\ Active(f[2])'
                                  /\ \/ ActivePaths(f[1])' # {} \/ f[3] \in disk'
                                     \/ merge'[s].pc # "move" /\ f \in Current(s)'
    BY <1>12, <2>1, <2>2
  <2>6. \A f \in Current(s)' :
          /\ merge'[s].pc = "moving" => /\ merge'[s].versions = {f[1]} \X ActivePaths(f[1])'
                                        /\ ActivePaths(f[1])' # {}
          /\ merge'[s].pc \in {"adding", "tombstone", "delete"} => ActivePaths(f[1])' = {}
          /\ merge'[s].pc = "adding" => f[3] \in disk'
    BY <1>12, <2>1, <2>3
  <2> HIDE DEF Listed, Active, ActivePaths, Current, A
  <2> QED
    BY <1>00, <1>12, <2>5, <2>6 DEF Merged
<1>13. CASE FindVersions(s)
  <2>1. PICK e \in Current(s) :
          merge' = [merge EXCEPT ![s].versions = {e[1]} \X ActivePaths(e[1]),
               ![s].pc = IF {e[1]} \X ActivePaths(e[1]) # {} THEN "moving"
                         ELSE IF e[3] # NoPath THEN "adding" ELSE "tombstone"]
    BY <1>13 DEF FindVersions
  <2>2. merge[s].pc = "move" /\ UNCHANGED <<disk, game, row>>
    BY <1>13 DEF FindVersions
  <2>3. /\ merge'[s].todo = merge[s].todo
        /\ merge'[s].versions = {e[1]} \X ActivePaths(e[1])
        /\ merge'[s].pc = IF ActivePaths(e[1]) # {} THEN "moving"
                          ELSE IF e[3] # NoPath THEN "adding" ELSE "tombstone"
    <3>1. {e[1]} \X ActivePaths(e[1]) # {} <=> ActivePaths(e[1]) # {}
      BY VersionsOfOne
    <3> HIDE DEF ActivePaths
    <3> QED
      BY <1>0, <2>1, <3>1 DEF MergeType
  <2>4. /\ \A g : (Active(g)' <=> Active(g)) /\ ActivePaths(g)' = ActivePaths(g)
        /\ Listed' = Listed
    BY <2>2 DEF Active, ActivePaths, Listed
  <2>5. ActivePaths(e[1]) # {} \/ e[3] \in disk
    BY <1>0, <2>2, Zenon DEF Merged
  <2> HIDE DEF ActivePaths, Active, Listed, Current
  <2> QED
    BY <1>00, <1>12, <2>2, <2>3, <2>4, <2>5
<1>14. CASE MoveVersion(s)
  <2>1. PICK e \in Current(s), v \in merge[s].versions :
         IF v[1] # e[2] /\ row[e[2]][v[2]] # "none"
         THEN GiveUp(s, e)
         ELSE /\ row' = [row EXCEPT ![v[1]][v[2]] = "none", ![e[2]][v[2]] = "active"]
              /\ merge' = [MergesFollow(v[1], e[2], {v[2]}) EXCEPT
                    ![s].versions = merge[s].versions \ {v},
                    ![s].pc = IF merge[s].versions = {v} THEN "tombstone" ELSE "moving"]
    BY <1>14, ZenonT(60) DEF MoveVersion
  <2>2. merge[s].pc = "moving" /\ UNCHANGED <<disk, game>>
    BY <1>14 DEF MoveVersion
  <2>3. CASE GiveUp(s, e)
    BY <1>11, <2>2, <2>3
  <2>4. CASE ~GiveUp(s, e)
    <3>1. PICK d \in Ids, c \in Ids : d = e[1] /\ c = e[2] /\ d # c
      BY <1>0, <1>00
    <3>2. merge[s].versions = {d} \X ActivePaths(d)
      BY <2>2, <3>1 DEF Merged
    <3>3. PICK p \in ActivePaths(d) : v = <<d, p>>
      BY <3>2
    <3>4. row' = [row EXCEPT ![d][p] = "none", ![c][p] = "active"]
      BY <2>1, <2>4, <3>1, <3>3
    <3>5. Active(d) /\ Active(c) /\ game' = game /\ Listed = disk
      BY <1>0, <1>00, <2>2, <3>1
    <3>6. /\ Listed' = disk
          /\ ActivePaths(d)' = ActivePaths(d) \ {p}
          /\ \A g \in Ids \ {c, d} : ActivePaths(g)' = ActivePaths(g)
      BY <3>1, <3>4, <3>5, MovedStaysListed
    <3>7. MergesFollow(d, c, {p}) \in [Scans -> MergeType]
      BY FollowType
    <3>8. merge' = [MergesFollow(d, c, {p}) EXCEPT
                    ![s].versions = merge[s].versions \ {v},
                    ![s].pc = IF merge[s].versions = {v} THEN "tombstone" ELSE "moving"]
      BY <2>1, <2>4, <3>1, <3>3
    <3>9. /\ merge'[s].todo = MergesFollow(d, c, {p})[s].todo
          /\ merge'[s].versions = merge[s].versions \ {v}
          /\ merge'[s].pc = IF merge[s].versions = {v} THEN "tombstone" ELSE "moving"
      BY <3>7, <3>8 DEF MergeType
    <3>10. MergesFollow(d, c, {p})[s].todo = merge[s].todo
      BY FollowKeeps
    <3> DEFINE A == ActivePaths(d)
    <3>11. /\ merge[s].versions \ {v} = {d} \X (A \ {p})
           /\ merge[s].versions = {v} <=> A \ {p} = {}
      <4>1. PICK S : S = A
        OBVIOUS
      <4>2. ({d} \X S) \ {<<d, p>>} = {d} \X (S \ {p})
        OBVIOUS
      <4>3. {d} \X (S \ {p}) = {} <=> S \ {p} = {}
        BY VersionsOfOne
      <4>4. merge[s].versions = {d} \X S /\ v = <<d, p>> /\ v \in merge[s].versions
        BY <3>2, <3>3, <4>1
      <4>5. merge[s].versions \ {v} = {d} \X (S \ {p})
        BY <4>2, <4>4
      <4>6. merge[s].versions = {v} <=> merge[s].versions \ {v} = {}
        BY <4>4
      <4> HIDE DEF A
      <4> QED
        BY <4>1, <4>3, <4>5, <4>6
    <3>12. \A g : Active(g)' <=> Active(g)
      BY <3>5 DEF Active
    <3>13. /\ merge'[s].pc = "moving" => /\ merge'[s].versions = {e[1]} \X ActivePaths(e[1])'
                                         /\ ActivePaths(e[1])' # {}
           /\ merge'[s].pc = "tombstone" => ActivePaths(e[1])' = {}
           /\ merge'[s].pc \in {"moving", "tombstone"}
      <4>1. ActivePaths(e[1])' = ActivePaths(d)'
        BY <3>1
      <4>2. p \in A
        OBVIOUS
      <4> HIDE DEF ActivePaths
      <4> QED
        BY <3>1, <3>6, <3>9, <3>11, <4>1, <4>2
    <3> HIDE DEF ActivePaths, Active, Listed, Current, A
    <3> QED
      BY <1>12, <2>2, <3>1, <3>6, <3>9, <3>10, <3>12, <3>13
  <2> QED
    BY <2>3, <2>4
<1>15. CASE AddVersion(s)
  <2>1. PICK e \in Current(s) :
         IF row[e[2]][e[3]] # "none"
         THEN GiveUp(s, e)
         ELSE /\ row' = [row EXCEPT ![e[2]][e[3]] = "active"]
              /\ merge' = [merge EXCEPT ![s].pc = "tombstone"]
    BY <1>15, Zenon DEF AddVersion
  <2>2. merge[s].pc = "adding" /\ UNCHANGED <<disk, game>>
    BY <1>15 DEF AddVersion
  <2>3. CASE GiveUp(s, e)
    BY <1>11, <2>2, <2>3
  <2>4. CASE ~GiveUp(s, e)
    <3>1. PICK d \in Ids, c \in Ids : d = e[1] /\ c = e[2] /\ d # c
      BY <1>0, <1>00
    <3>2. ActivePaths(d) = {} /\ e[3] \in disk
      BY <2>2, <3>1 DEF Merged
    <3>3. row' = [row EXCEPT ![c][e[3]] = "active"] /\ game' = game
      BY <2>1, <2>2, <2>4, <3>1
    <3>4. Listed' = disk /\ \A g \in Ids \ {c} : ActivePaths(g)' = ActivePaths(g)
      BY <1>00, <3>2, <3>3, AddedIsListed
    <3>5. merge'[s].todo = merge[s].todo /\ merge'[s].pc = "tombstone"
      BY <1>0, <2>1, <2>4 DEF MergeType
    <3>6. \A g : Active(g)' <=> Active(g)
      BY <3>3 DEF Active
    <3>7. ActivePaths(e[1])' = {}
      BY <3>1, <3>2, <3>4
    <3> HIDE DEF ActivePaths, Active, Listed, Current
    <3> QED
      BY <1>12, <2>2, <3>1, <3>4, <3>5, <3>6, <3>7
  <2> QED
    BY <2>3, <2>4
<1>2. ASSUME game' = game \/ \E g, f : game' = [game EXCEPT ![g].file = f], row' = row
      PROVE  /\ \A g \in Ids : (Active(g)' <=> Active(g)) /\ ActivePaths(g)' = ActivePaths(g)
             /\ Listed' = Listed
  <2>1. \A g \in Ids : game'[g].st = game[g].st
    BY <1>0, <1>2 DEF GameRow
  <2> QED
    BY <1>2, <2>1 DEF Active, ActivePaths, Listed
<1>3. CASE Tombstone(s)
  <2>1. /\ merge[s].pc = "tombstone" /\ UNCHANGED <<disk, row>>
        /\ \E g, f : game' = [game EXCEPT ![g].file = f]
        /\ merge' = [merge EXCEPT ![s].pc = "delete"]
    BY <1>3 DEF Tombstone
  <2>2. merge'[s].pc = "delete" /\ merge'[s].todo = merge[s].todo
    BY <1>0, <2>1 DEF MergeType
  <2>3. Current(s)' = Current(s)
    BY <2>2 DEF Current
  <2>4. /\ \A g \in Ids : (Active(g)' <=> Active(g)) /\ ActivePaths(g)' = ActivePaths(g)
        /\ Listed' = Listed
    BY <1>2, <2>1
  <2>5. ASSUME NEW e \in merge[s].todo
        PROVE  /\ Active(e[1])' /\ Active(e[2])'
               /\ ActivePaths(e[1])' # {} \/ e[3] \in disk \/ e \in Current(s)
    <3>1. /\ Active(e[1]) /\ Active(e[2])
          /\ ActivePaths(e[1]) # {} \/ e[3] \in disk \/ e \in Current(s)
      BY DEF Merged
    <3>2. e[1] \in Ids /\ e[2] \in Ids
      BY <1>0
    <3> QED
      BY <2>4, <3>1, <3>2
  <2>6. \A e \in Current(s) : ActivePaths(e[1])' = {}
    BY <1>0, <2>1, <2>4 DEF Merged
  <2> HIDE DEF ActivePaths, Active, Listed, Current
  <2> QED
    BY <1>00, <2>1, <2>2, <2>3, <2>4, <2>5, <2>6 DEF Merged
<1>4. CASE DeleteDuplicate(s)
  <2>1. PICK e \in Current(s) :
         /\ game' = [game EXCEPT ![e[1]].st = "deleted"]
         /\ merge' = [merge EXCEPT ![s].pc = "move", ![s].todo = @ \ {e},
               ![s].merged = IF Active(e[1]) THEN @ \cup {e[2]} ELSE @]
    BY <1>4 DEF DeleteDuplicate
  <2>2. merge[s].pc = "delete" /\ UNCHANGED <<disk, row>>
    BY <1>4 DEF DeleteDuplicate
  <2>3. merge'[s].pc = "move" /\ merge'[s].todo = merge[s].todo \ {e}
    BY <1>0, <2>1 DEF MergeType
  <2>4. e \in merge[s].todo /\ e[1] \in Ids /\ ActivePaths(e[1]) = {}
    BY <1>0, <2>2 DEF Merged
  <2>5. /\ \A g \in Ids \ {e[1]} : Active(g)' <=> Active(g)
        /\ \A g \in Ids : ActivePaths(g)' = ActivePaths(g)
        /\ ~Active(e[1])'
    BY <1>0, <2>1, <2>2, <2>4 DEF Active, ActivePaths, GameRow
  <2>6. Listed' = Listed
    <3>1. Listed = {p \in Paths : \E g \in Ids : Active(g) /\ p \in ActivePaths(g)}
      BY DEF Listed, ActivePaths
    <3>2. Listed' = {p \in Paths : \E g \in Ids : Active(g)' /\ p \in ActivePaths(g)'}
      BY DEF Listed, ActivePaths
    <3> HIDE DEF Listed, Active, ActivePaths
    <3> QED
      BY <2>4, <2>5, <3>1, <3>2
  <2>7. \A f \in merge[s].todo \ {e} :
            /\ f[1] \in Ids \ {e[1]} /\ f[2] \in Ids \ {e[1]}
            /\ ActivePaths(f[1]) # {} \/ f[3] \in disk
    BY <1>0, <1>00, <2>4 DEF Merged
  <2> QED
    BY <1>00, <2>2, <2>3, <2>5, <2>6, <2>7 DEF Merged
<1>5. CASE RefreshDefault(s)
  <2>1. /\ merge[s].pc = "move" /\ UNCHANGED <<disk, row>>
        /\ game' = game \/ \E g, f : game' = [game EXCEPT ![g].file = f]
        /\ \E c : merge' = [merge EXCEPT ![s].merged = @ \ {c}]
    BY <1>5 DEF RefreshDefault
  <2>2. merge'[s].pc = "move" /\ merge'[s].todo = merge[s].todo
    BY <1>0, <2>1 DEF MergeType
  <2>3. /\ \A g \in Ids : (Active(g)' <=> Active(g)) /\ ActivePaths(g)' = ActivePaths(g)
        /\ Listed' = Listed
    BY <1>2, <2>1
  <2>4. \A e \in merge[s].todo :
            /\ Active(e[1])' /\ Active(e[2])'
            /\ ActivePaths(e[1])' # {} \/ e[3] \in disk
    BY <1>0, <2>1, <2>3 DEF Merged
  <2> QED
    BY <1>00, <2>1, <2>2, <2>3, <2>4 DEF Merged
<1> QED
  BY <1>3, <1>4, <1>5, <1>13, <1>14, <1>15

\* When one scan is at work, what holds of it is all there is to show.
LEMMA OneAtWork ==
    ASSUME NothingElse', NEW s \in Scans, scan'[s].pc # "idle", PhaseKept(s)'
    PROVE  \A t \in Scans : PhaseKept(t)'
<1>1. \A t \in Scans : scan'[t].pc # "idle" => t = s
  BY DEF NothingElse
<1>2. ASSUME NEW t \in Scans, scan'[t].pc = "idle" PROVE PhaseKept(t)'
  BY <1>2 DEF PhaseKept
<1> QED
  BY <1>1, <1>2

\* A step after which nothing but one full scan is at work keeps what holds of the
\* scan, if it was so before the step, or the step began the scan.
LEMMA ScanAtWork ==
    ASSUME TypeOK, PhasesOK, Next, NothingElse', disk' = disk, restarts' = restarts,
           NothingElse \/ \A s \in Scans : scan[s].pc = "idle",
           \A s \in Scans : PhaseKept(s)
    PROVE  \A s \in Scans : PhaseKept(s)'
<1> USE DEF diskVars, scanVars, boundVars
<1>0. /\ Scans \subseteq Slots /\ Workers \subseteq Slots /\ Scans \subseteq Checks
      /\ Slots = Workers \cup Scans /\ Checks = Scans \cup Debounces
      /\ disk \subseteq Paths
  BY DEF Slots, Checks, TypeOK
<1>00. ASSUME \A s \in Scans : scan'[s].pc = "idle" PROVE \A s \in Scans : PhaseKept(s)'
  BY <1>00 DEF PhaseKept
<1>1. CASE \E p \in Paths : CopyFile(p) \/ Upload(p) \/ ChangeFile(p) \/ RemoveFile(p)
  <2>1. PICK p \in Paths : CopyFile(p) \/ Upload(p) \/ ChangeFile(p) \/ RemoveFile(p)
    BY <1>1
  <2>2. ~CopyFile(p) /\ ~Upload(p) /\ ~RemoveFile(p)
    BY DEF CopyFile, Upload, AddFile, RemoveFile
  <2>3. ~ChangeFile(p)
    BY DEF ChangeFile, NothingElse, TypeOK
  <2> QED
    BY <2>1, <2>2, <2>3
<1>2. CASE \E g \in Ids, p \in Paths : DeleteGameFile(g, p)
  BY <1>2 DEF DeleteGameFile, RemoveFile
<1>3. CASE \E i \in Workers, p \in Paths : WatcherIndex(i, p)
  <2>1. PICK i \in Workers, p \in Paths : WatcherIndex(i, p)
    BY <1>3
  <2>2. ~NothingElse /\ scan' = scan
    BY <2>1 DEF WatcherIndex, NothingElse
  <2> QED
    BY <1>00, <2>2
<1>4. CASE \E i \in Slots : Index(i)
  <2>1. PICK i \in Slots : Index(i)
    BY <1>4
  <2>2. slot[i].pc # "idle" /\ scan' = scan
    BY <2>1, IndexOwnSlot
  <2>3. CASE \A s \in Scans : scan[s].pc = "idle"
    BY <1>00, <2>2, <2>3
  <2>4. CASE NothingElse
    <3>1. i \in Scans /\ scan[i].pc = "indexing"
      BY <1>0, <2>2, <2>4 DEF NothingElse, PhasesOK
    <3>2. Indexed(i)'
      BY <2>1, <3>1, IndexKeepsIndexed DEF PhaseKept
    <3>3. PhaseKept(i)' /\ scan'[i].pc # "idle"
      BY <2>2, <3>1, <3>2 DEF PhaseKept
    <3> QED
      BY <3>1, <3>3, OneAtWork
  <2> QED
    BY <2>3, <2>4
<1>5. ASSUME NEW s \in Scans, Reindex(s) \/ ScheduledScan(s)
      PROVE  \A t \in Scans : PhaseKept(t)'
  <2>1. StartScan(s)
    BY <1>5 DEF Reindex, ScheduledScan
  <2>2. scan[s].pc = "idle" /\ scan'[s].pc = "indexing"
    BY <2>1 DEF StartScan, TypeOK
  <2>3. slot[s].pc = "idle" /\ scan'[s].snap = disk'
    BY <2>2 DEF PhasesOK, NothingElse
  <2>4. Indexed(s)'
    BY <2>1, <2>3, ScanKeepsIndexed
  <2>5. PhaseKept(s)'
    BY <2>2, <2>4 DEF PhaseKept
  <2> QED
    BY <2>2, <2>5, OneAtWork
<1>6. ASSUME NEW s \in Scans, ScanFile(s) PROVE \A t \in Scans : PhaseKept(t)'
  <2>1. scan[s].pc = "indexing" /\ slot[s].pc = "idle"
    BY <1>6 DEF ScanFile, StartIndex
  <2>2. scan'[s].pc = "indexing"
    <3>1. scan[s] \in ScanType
      BY DEF TypeOK
    <3> QED
      BY <1>6, <2>1, <3>1 DEF ScanFile, TypeOK, ScanType
  <2>3. Indexed(s)'
    BY <1>6, <2>1, ScanKeepsIndexed DEF PhaseKept
  <2>4. PhaseKept(s)'
    BY <2>2, <2>3 DEF PhaseKept
  <2> QED
    BY <2>2, <2>4, OneAtWork
<1>7. ASSUME NEW s \in Scans, ScanCheck(s) PROVE \A t \in Scans : PhaseKept(t)'
  <2>1. scan[s].pc = "indexing" /\ Indexed(s)
    BY <1>7 DEF ScanCheck, PhaseKept
  <2>2. scan[s].snap = disk
    BY <2>1 DEF NothingElse
  <2>3. scan'[s].pc = "checking"
    <3>1. scan[s] \in ScanType
      BY DEF TypeOK
    <3> QED
      BY <1>7, <3>1 DEF ScanCheck, TypeOK, ScanType
  <2>4. Checked(s)'
    BY <1>7, <2>1, <2>2, CheckBegins
  <2>5. PhaseKept(s)'
    BY <2>3, <2>4 DEF PhaseKept
  <2> QED
    BY <2>3, <2>5, OneAtWork
<1>8. ASSUME NEW s \in Scans, Merge(s) PROVE \A t \in Scans : PhaseKept(t)'
  <2>1. CASE BeginMerge(s)
    <3>1. scan[s].pc = "checking" /\ scan'[s].pc = "merging"
      <4>1. scan[s] \in ScanType
        BY DEF TypeOK
      <4> QED
        BY <2>1, <4>1 DEF BeginMerge, TypeOK, ScanType
    <3>2. Merged(s)'
      BY <2>1, <3>1, MergeBegins DEF PhaseKept
    <3>3. PhaseKept(s)'
      BY <3>1, <3>2 DEF PhaseKept
    <3> QED
      BY <3>1, <3>3, OneAtWork
  <2>2. CASE \/ FindVersions(s) \/ MoveVersion(s) \/ AddVersion(s)
             \/ Tombstone(s) \/ DeleteDuplicate(s) \/ RefreshDefault(s)
    <3>1. merge[s].pc # "idle" /\ scan' = scan
      BY <2>2 DEF FindVersions, MoveVersion, AddVersion, Tombstone, DeleteDuplicate,
                  RefreshDefault
    <3>2. scan[s].pc = "merging" /\ scan'[s].pc = "merging"
      BY <3>1 DEF PhasesOK
    <3>3. Merged(s)
      BY <3>2 DEF PhaseKept
    <3>4. Merged(s)'
      BY <2>2, <3>2, <3>3, MergeKeepsMerged
    <3>5. PhaseKept(s)'
      BY <3>2, <3>4 DEF PhaseKept
    <3> QED
      BY <3>2, <3>5, OneAtWork, Zenon
  <2>3. CASE EndScan(s)
    <3>1. scan[s].pc = "merging" /\ scan'[s].pc = "idle"
          /\ \A t \in Scans \ {s} : scan'[t] = scan[t]
      BY <2>3 DEF EndScan, IdleScan, TypeOK
    <3>2. \A t \in Scans \ {s} : scan[t].pc = "idle"
      BY <3>1 DEF NothingElse
    <3> QED
      BY <1>00, <3>1, <3>2
  <2> QED
    BY <1>8, <2>1, <2>2, <2>3 DEF Merge
<1>9. ASSUME NEW c \in Debounces, DebouncedCheck(c) \/ EndDebouncedCheck(c)
      PROVE  \A t \in Scans : PhaseKept(t)'
  <2>1. ~NothingElse /\ scan' = scan
    BY <1>9 DEF DebouncedCheck, EndDebouncedCheck, NothingElse
  <2> QED
    BY <1>00, <2>1
<1>10. ASSUME NEW c \in Checks, Check(c) PROVE \A t \in Scans : PhaseKept(t)'
  <2>1. check[c].pc # "idle" /\ scan' = scan
    BY <1>10, CheckOwn
  <2>2. CASE \A s \in Scans : scan[s].pc = "idle"
    BY <1>00, <2>1, <2>2
  <2>3. CASE NothingElse
    <3>1. c \in Scans /\ scan[c].pc = "checking"
      BY <1>0, <2>1, <2>3 DEF NothingElse, PhasesOK
    <3>2. Checked(c)'
      BY <1>10, <3>1, CheckKeepsChecked DEF PhaseKept
    <3>3. PhaseKept(c)' /\ scan'[c].pc # "idle"
      BY <2>1, <3>1, <3>2 DEF PhaseKept
    <3> QED
      BY <3>1, <3>3, OneAtWork
  <2> QED
    BY <2>2, <2>3
<1>11. ~Restart
  BY DEF Restart, TypeOK
<1> QED
  BY <1>1, <1>2, <1>3, <1>4, <1>5, <1>6, <1>7, <1>8, <1>9, <1>10, <1>11 DEF Next

\* The processes are in their phases, and what holds of an undisturbed scan holds.
Repairing == HeldTypeOK /\ PhasesOK /\ ScansRepair

LEMMA DownloadsInitRepairing == DownloadsInit => Repairing
<1> SUFFICES ASSUME DownloadsInit PROVE Repairing
  OBVIOUS
<1>1. Init /\ held = [d \in Downloads |-> NothingHeld] /\ undisturbed = FALSE
  BY DEF DownloadsInit
<1>2. undisturbed \in BOOLEAN
  BY <1>1
<1>3. HeldTypeOK
  BY <1>1, <1>2, InitTypeOK, HeldTypes DEF HeldTypeOK
<1>4. PhasesOK
  BY <1>1 DEF Init, PhasesOK, Slots, Checks, IdleSlot, IdleScan, IdleCheck, IdleMerge
<1> QED
  BY <1>1, <1>3, <1>4 DEF Repairing, ScansRepair

LEMMA LibraryStepRepairing == Repairing /\ LibraryStep => Repairing'
<1> SUFFICES ASSUME Repairing, LibraryStep PROVE Repairing'
  OBVIOUS
<1>1. HeldTypeOK' /\ TypeOK /\ Next /\ PhasesOK /\ ScansRepair
  BY LibraryStepTypes DEF Repairing, HeldTypeOK, LibraryStep
<1>2. PhasesOK'
  BY <1>1, PhasesStep
<1>3. ASSUME undisturbed' PROVE NothingElse' /\ \A s \in Scans : PhaseKept(s)'
  <2>1. /\ NothingElse' /\ disk' = disk /\ restarts' = restarts
        /\ undisturbed \/ \A s \in Scans : scan[s].pc = "idle"
    BY <1>3 DEF LibraryStep
  <2>2. NothingElse \/ \A s \in Scans : scan[s].pc = "idle"
    BY <1>1, <2>1 DEF ScansRepair
  <2>3. \A s \in Scans : PhaseKept(s)
    BY <1>1, <2>1 DEF ScansRepair, PhaseKept
  <2> QED
    BY <1>1, <2>1, <2>2, <2>3, ScanAtWork
<1> QED
  BY <1>1, <1>2, <1>3 DEF Repairing, ScansRepair

\* A download that ends disturbs a scan; it changes what processes remember of
\* version rows, but starts and ends none.
LEMMA SaveGameRepairing ==
    ASSUME Repairing, NEW d \in Downloads, SaveGame(d) PROVE Repairing'
<1>1. /\ HeldTypeOK /\ TypeOK /\ PhasesOK /\ undisturbed' = FALSE /\ scan' = scan
  BY DEF Repairing, HeldTypeOK, SaveGame, scanVars
<1>2. /\ \A i \in Slots : slot'[i].pc = slot[i].pc
      /\ \A c \in Checks : check'[c].pc = check[c].pc
      /\ \A s \in Scans : merge'[s].pc = merge[s].pc
  <2>1. CASE UNCHANGED <<slot, check, merge>>
    BY <2>1
  <2>2. ASSUME NEW h, TakeBack(d, h)
        PROVE  /\ \A i \in Slots : slot'[i].pc = slot[i].pc
               /\ \A c \in Checks : check'[c].pc = check[c].pc
               /\ \A s \in Scans : merge'[s].pc = merge[s].pc
    <3>1. PICK g, back : /\ slot' = SlotsFollow(h, g, back)
                         /\ check' = ChecksFollow(h, g, back)
                         /\ merge' = MergesFollow(h, g, back)
      BY <2>2, Zenon DEF TakeBack
    <3>2. /\ \A i \in Slots : SlotsFollow(h, g, back)[i].pc = slot[i].pc
          /\ \A c \in Checks : ChecksFollow(h, g, back)[c].pc = check[c].pc
          /\ \A s \in Scans : MergesFollow(h, g, back)[s].pc = merge[s].pc
      BY <1>1, FollowKeeps
    <3> QED
      BY <3>1, <3>2
  <2>3. UNCHANGED <<slot, check, merge>> \/ \E h : TakeBack(d, h)
    BY Zenon DEF SaveGame
  <2> QED
    BY <2>1, <2>2, <2>3
<1>3. PhasesOK'
  BY <1>1, <1>2 DEF PhasesOK, Checks, Slots
<1> QED
  BY <1>1, <1>3, SaveGameTypes DEF Repairing, ScansRepair

LEMMA QuietStepRepairing ==
    ASSUME Repairing, HeldTypeOK', UNCHANGED <<vars, undisturbed>> PROVE Repairing'
<1>1. UNCHANGED <<disk, pending, game, row, slot, timer, scan, check, merge>>
  BY DEF vars
<1>2. PhasesOK'
  BY <1>1 DEF Repairing, PhasesOK
<1>3. NothingElse' <=> NothingElse
  BY <1>1 DEF NothingElse
<1>4. ASSUME NEW s \in Scans, PhaseKept(s) PROVE PhaseKept(s)'
  <2>1. Listed' = Listed
    BY <1>1 DEF Listed, Active
  <2>2. \A g : (Active(g)' <=> Active(g)) /\ ActivePaths(g)' = ActivePaths(g)
    BY <1>1 DEF Active, ActivePaths
  <2>3. Current(s)' = Current(s)
    BY <1>1 DEF Current
  <2>4. \A g : Sound(g)' <=> Sound(g)
    BY <1>1, <2>2 DEF Sound
  <2>5. Indexed(s) => Indexed(s)'
    BY <1>1, <2>1 DEF Indexed, Active, Matches
  <2>6. Checked(s) => Checked(s)'
    BY <1>1, <2>1, <2>4 DEF Checked, Active, ActivePaths
  <2>7. Merged(s) => Merged(s)'
    BY <1>1, <2>1, <2>3 DEF Merged, Active, ActivePaths
  <2> QED
    BY <1>1, <1>4, <2>5, <2>6, <2>7 DEF PhaseKept
<1> QED
  BY <1>2, <1>3, <1>4 DEF Repairing, ScansRepair

LEMMA NextRepairing == Repairing /\ [DownloadsNext]_allVars => Repairing'
<1> SUFFICES ASSUME Repairing, [DownloadsNext]_allVars PROVE Repairing'
  OBVIOUS
<1>1. HeldTypeOK
  BY DEF Repairing
<1>2. ASSUME NEW d \in Downloads, ReadGame(d) PROVE Repairing'
  <2>1. UNCHANGED <<vars, undisturbed>>
    BY <1>2 DEF ReadGame
  <2>2. HeldTypeOK'
    BY <1>1, <1>2, ReadGameTypes
  <2> QED
    BY <2>1, <2>2, QuietStepRepairing
<1>3. CASE UNCHANGED allVars
  <2>1. UNCHANGED <<vars, undisturbed>> /\ held' = held
    BY <1>3 DEF allVars
  <2>2. HeldTypeOK'
    <3>1. TypeOK'
      BY <1>1, <2>1, NextTypeOK DEF HeldTypeOK
    <3> QED
      BY <1>1, <2>1, <3>1 DEF HeldTypeOK
  <2> QED
    BY <2>1, <2>2, QuietStepRepairing
<1> QED
  BY <1>2, <1>3, LibraryStepRepairing, SaveGameRepairing DEF DownloadsNext

\* Whatever downloads wrote back before it, a full scan that nothing comes between
\* leaves the library with exactly the files on the volume, for any number of files,
\* games, scans and downloads, and whether or not walks may miss files.
THEOREM FullScansRepair == DownloadsSpec => ScanRepairs
<1>1. Repairing /\ [DownloadsNext]_allVars
        => [undisturbed /\ undisturbed' /\ inProgress /\ ~inProgress' => Listed' = disk]_allVars
  <2> SUFFICES ASSUME Repairing, [DownloadsNext]_allVars, ~UNCHANGED allVars,
                      undisturbed, undisturbed', inProgress, ~inProgress'
               PROVE  Listed' = disk
    OBVIOUS
  <2>1. /\ TypeOK /\ \A s \in Scans : PhaseKept(s)
    BY DEF Repairing, HeldTypeOK, ScansRepair
  <2>2. LibraryStep
    BY DEF DownloadsNext, ReadGame, SaveGame, vars, scanVars
  <2>3. Next /\ restarts' = restarts
    BY <2>2 DEF LibraryStep
  <2>4. \E s \in Scans : EndScan(s)
    <3> USE DEF diskVars, scanVars, boundVars
    <3>1. \A p \in Paths : ~(CopyFile(p) \/ Upload(p) \/ ChangeFile(p) \/ RemoveFile(p))
      BY DEF CopyFile, Upload, AddFile, ChangeFile, RemoveFile
    <3>2. \A g \in Ids, p \in Paths : ~DeleteGameFile(g, p)
      BY DEF DeleteGameFile, RemoveFile
    <3>3. \A i \in Workers, p \in Paths : ~WatcherIndex(i, p)
      BY DEF WatcherIndex
    <3>4. \A i \in Slots : ~Index(i)
      BY <2>1, IndexOwnSlot
    <3>5. \A s \in Scans : ~(Reindex(s) \/ ScheduledScan(s) \/ ScanFile(s) \/ ScanCheck(s))
      BY DEF Reindex, ScheduledScan, StartScan, ScanFile, ScanCheck
    <3>6. \A s \in Scans : Merge(s) => EndScan(s)
      BY DEF Merge, BeginMerge, FindVersions, MoveVersion, AddVersion, Tombstone,
             DeleteDuplicate, RefreshDefault
    <3>7. \A c \in Debounces : ~DebouncedCheck(c) /\ ~EndDebouncedCheck(c)
      BY DEF DebouncedCheck, EndDebouncedCheck
    <3>8. \A c \in Checks : ~Check(c)
      BY CheckOwn
    <3>9. ~Restart
      BY <2>1, <2>3 DEF Restart, TypeOK
    <3> QED
      BY <2>3, <3>1, <3>2, <3>3, <3>4, <3>5, <3>6, <3>7, <3>8, <3>9 DEF Next
  <2>5. PICK s \in Scans : EndScan(s)
    BY <2>4
  <2>6. scan[s].pc = "merging" /\ UNCHANGED <<game, row>>
    BY <2>5 DEF EndScan, dbVars
  <2>7. Listed = disk
    BY <2>1, <2>6 DEF PhaseKept, Merged
  <2> QED
    BY <2>6, <2>7 DEF Listed, Active
<1> QED
  BY <1>1, DownloadsInitRepairing, NextRepairing, PTL DEF DownloadsSpec, ScanRepairs

(***************************************************************************)
(* A library in which no two paths would be put in one game: whatever      *)
(* watcher events, uploads, scans, checks and crashes do to each other, a  *)
(* path has one game for good, and a file that is not removed stays        *)
(* listed.  Both are violated when titles are shared (MCLibraryReplace,    *)
(* MCLibraryMerge).                                                        *)
(***************************************************************************)
\* No two paths would be put in one game.
TitlesIdentifyPaths == \A p, q \in Paths : TitleOf[p] = TitleOf[q] => p = q

(***************************************************************************)
(* The inductive invariant.                                                *)
(***************************************************************************)

\* A game that was ever stored has a path and the title parsed from it.
GamesOK == \A g \in Ids :
    /\ game[g].st = "none" => game[g] = NoGame
    /\ game[g].st # "none" => game[g].file \in Paths /\ game[g].title = TitleOf[game[g].file]

\* The UNIQUE index on file_path.
OneFile == \A g, h \in Ids : game[g].file = game[h].file /\ game[g].file # NoPath => g = h

\* The only version of a game is its own file.
RowsOK == \A g \in Ids, p \in Paths : row[g][p] # "none" => game[g].file = p

\* An index() call works on the game of its path, and on that game's version row.
SlotOK(x) ==
    /\ x.pc \notin {"idle", "creating"} => game[x.gid].file = x.path
    /\ x.pc \in {"recording", "storing", "listing", "patching"} => x.file = x.path
    /\ x.pc = "storing" => x.found \subseteq {<<x.gid, x.path>>}
SlotsOK == \A i \in Slots : SlotOK(slot[i])

\* A check remembers games with their paths, and never has to choose a new
\* default version.
CheckOK(x) ==
    /\ x.pc \notin {"prune_patch", "patch"}
    /\ x.pc \in {"prune_delete", "delete"} => x.gid \in Ids /\ game[x.gid].file # NoPath
    /\ \A g \in Ids, f \in Paths \cup {NoPath} :
          <<g, f>> \in x.todo => f \in Paths /\ game[g].file = f
    /\ \A g \in Ids, p \in Paths : <<g, p>> \in x.stale => game[g].file = p
ChecksOK == \A c \in Checks : CheckOK(check[c])

\* There is never anything to merge.
MergesOK == \A s \in Scans :
    merge[s].pc \in {"idle", "move"} /\ merge[s].todo = {} /\ merge[s].merged = {}

Homes == GamesOK /\ OneFile /\ RowsOK /\ SlotsOK /\ ChecksOK /\ MergesOK

\* What a step never does to the tables: give a game another path, or lose a
\* version row.
TablesKept ==
    /\ \A g \in Ids : game[g].file # NoPath => game'[g].file = game[g].file
    /\ \A g \in Ids, p \in Paths : row[g][p] # "none" => row'[g][p] # "none"

(***************************************************************************)
(* Homes is preserved.                                                     *)
(***************************************************************************)

LEMMA InitHomes == Init => Homes
<1> SUFFICES ASSUME Init PROVE Homes
  OBVIOUS
<1>1. PICK known \in Paths \cup {NoPath} :
         /\ game = [g \in Ids |-> IF g = 1 /\ known # NoPath
                       THEN [st |-> "active", file |-> known, title |-> TitleOf[known]]
                       ELSE NoGame]
         /\ row = [g \in Ids |-> [p \in Paths |->
                       IF g = 1 /\ p = known THEN "active" ELSE "none"]]
  BY DEF Init
<1>2. GamesOK
  BY <1>1 DEF GamesOK, NoGame
<1>3. OneFile
  BY <1>1 DEF OneFile, NoGame
<1>4. RowsOK
  BY <1>1, ConstantsType DEF RowsOK
<1>5. SlotsOK
  BY DEF Init, SlotsOK, SlotOK, IdleSlot
<1>6. ChecksOK
  BY DEF Init, ChecksOK, CheckOK, IdleCheck
<1>7. MergesOK
  BY DEF Init, MergesOK, IdleMerge
<1> QED
  BY <1>2, <1>3, <1>4, <1>5, <1>6, <1>7 DEF Homes

\* Tables that keep their paths keep what slots and checks know.
LEMMA SlotsFrame ==
    ASSUME TypeOK, Homes, TablesKept, UNCHANGED slot
    PROVE  SlotsOK'
<1> SUFFICES ASSUME NEW i \in Slots PROVE SlotOK(slot[i])'
  BY DEF SlotsOK
<1>1. SlotOK(slot[i])
  BY DEF Homes, SlotsOK
<1>2. slot[i].pc \notin {"idle", "creating"} => slot[i].gid \in Ids /\ slot[i].path \in Paths
  BY DEF TypeOK
<1>3. NoPath \notin Paths
  BY ConstantsType
<1> QED
  BY <1>1, <1>2, <1>3 DEF SlotOK, TablesKept

LEMMA CheckFrame ==
    ASSUME TypeOK, Homes, TablesKept, NEW c \in Checks, check'[c] = check[c]
    PROVE  CheckOK(check[c])'
<1>1. CheckOK(check[c])
  BY DEF Homes, ChecksOK
<1>2. NoPath \notin Paths
  BY ConstantsType
<1> QED
  BY <1>1, <1>2 DEF CheckOK, TablesKept

LEMMA ChecksFrame ==
    ASSUME TypeOK, Homes, TablesKept, UNCHANGED check
    PROVE  ChecksOK'
BY CheckFrame DEF ChecksOK

\* Nothing but the volume and the bookkeeping of events and scans changes.
LEMMA HomesFrame ==
    ASSUME TypeOK, Homes, UNCHANGED <<game, row, slot, check, merge>>
    PROVE  Homes' /\ TablesKept
<1>1. TablesKept
  BY DEF TablesKept
<1>2. GamesOK' /\ OneFile' /\ RowsOK' /\ MergesOK'
  BY DEF Homes, GamesOK, OneFile, RowsOK, MergesOK
<1> QED
  BY <1>1, <1>2, SlotsFrame, ChecksFrame DEF Homes

\* The path a game is found by is the path of the game.
LEMMA MatchesFile ==
    ASSUME TitlesIdentifyPaths, TypeOK, Homes, NEW p \in Paths, NEW g \in Matches(p)
    PROVE  g \in Ids /\ game[g].file = p
<1>1. g \in Ids
  BY DEF Matches
<1>2. CASE row[g][p] # "none"
  BY <1>1, <1>2 DEF Homes, RowsOK
<1>3. CASE game[g].file = p
  BY <1>1, <1>3
<1>4. CASE game[g].title = TitleOf[p]
  <2>1. TitleOf[p] # NoPath
    BY ConstantsType DEF Titles
  <2>2. game[g].st # "none"
    BY <1>1, <1>4, <2>1 DEF Homes, GamesOK, NoGame
  <2>3. game[g].file \in Paths /\ TitleOf[game[g].file] = TitleOf[p]
    BY <1>1, <1>4, <2>2 DEF Homes, GamesOK
  <2> QED
    BY <1>1, <2>3 DEF TitlesIdentifyPaths
<1> QED
  BY <1>2, <1>3, <1>4 DEF Matches

LEMMA StartIndexHomes ==
    ASSUME TitlesIdentifyPaths, TypeOK, Homes, NEW i \in Slots, NEW p \in Paths,
           StartIndex(i, p), UNCHANGED <<game, row>>
    PROVE  SlotsOK'
<1> SUFFICES ASSUME NEW j \in Slots PROVE SlotOK(slot[j])'
  BY DEF SlotsOK
<1>1. SlotOK(slot[j])
  BY DEF Homes, SlotsOK
<1>2. CASE Matches(p) = {}
  BY <1>1, <1>2, ZenonT(60) DEF StartIndex, SlotOK, IdleSlot, TypeOK
<1>3. CASE Matches(p) # {}
  <2>1. PICK g \in Matches(p) : slot' = [slot EXCEPT ![i] =
             [IdleSlot EXCEPT !.pc = IF Active(g) THEN "matched" ELSE "restoring",
                              !.path = p, !.gid = g]]
    BY <1>3 DEF StartIndex
  <2>2. game[g].file = p
    BY MatchesFile
  <2> QED
    BY <1>1, <2>1, <2>2 DEF SlotOK, IdleSlot, TypeOK
<1> QED
  BY <1>2, <1>3

LEMMA EndIndexHomes ==
    ASSUME TypeOK, Homes, NEW i \in Slots, EndIndex(i), TablesKept
    PROVE  SlotsOK'
<1> SUFFICES ASSUME NEW j \in Slots PROVE SlotOK(slot[j])'
  BY DEF SlotsOK
<1>1. SlotOK(slot[j])
  BY DEF Homes, SlotsOK
<1>2. slot[j].pc \notin {"idle", "creating"} => slot[j].gid \in Ids /\ slot[j].path \in Paths
  BY DEF TypeOK
<1>3. NoPath \notin Paths
  BY ConstantsType
<1> QED
  BY <1>1, <1>2, <1>3 DEF EndIndex, SlotOK, IdleSlot, TypeOK, TablesKept

\* Changing the state of a stored game but not its path or title.
LEMMA StateChange ==
    ASSUME TypeOK, Homes, NEW g \in Ids, NEW st \in {"active", "deleted"},
           game[g].file # NoPath, game' = [game EXCEPT ![g].st = st], UNCHANGED row
    PROVE  GamesOK' /\ OneFile' /\ RowsOK' /\ TablesKept
<1>1. game[g].st # "none"
  BY DEF Homes, GamesOK, NoGame
<1>2. /\ game' \in [Ids -> GameRow]
      /\ \A h \in Ids : /\ game'[h].file = game[h].file /\ game'[h].title = game[h].title
                        /\ h # g => game'[h] = game[h]
                        /\ game'[g].st = st
  BY DEF TypeOK, GameRow
<1>3. GamesOK'
  BY <1>1, <1>2 DEF Homes, GamesOK
<1>4. OneFile' /\ RowsOK' /\ TablesKept
  BY <1>2 DEF Homes, OneFile, RowsOK, TablesKept
<1> QED
  BY <1>3, <1>4

\* A game with a path can only have that path as a version.
LEMMA OnlyVersion ==
    ASSUME TypeOK, Homes, NEW g \in Ids
    PROVE  ActivePaths(g) \subseteq {game[g].file}
BY DEF Homes, RowsOK, ActivePaths

\* Who follows a row to the game it is in stays where he is.
LEMMA FollowSelf ==
    ASSUME TypeOK, NEW g \in Ids, NEW moved
    PROVE  /\ SlotsFollow(g, g, moved) = slot
           /\ ChecksFollow(g, g, moved) = check
           /\ MergesFollow(g, g, moved) = merge
<1>1. ASSUME NEW rows \in SUBSET (Ids \X Paths) PROVE Repoint(rows, g, g, moved) = rows
  <2>1. \A r \in rows : (IF r[1] = g /\ r[2] \in moved THEN <<g, r[2]>> ELSE r) = r
    OBVIOUS
  <2> QED
    BY <2>1 DEF Repoint
<1>2. ASSUME NEW i \in Slots PROVE SlotsFollow(g, g, moved)[i] = slot[i]
  <2>1. slot[i] \in SlotType
    BY DEF TypeOK
  <2>2. Repoint(slot[i].found, g, g, moved) = slot[i].found
    BY <1>1, <2>1 DEF SlotType
  <2> QED
    BY <2>1, <2>2 DEF SlotsFollow, SlotType
<1>3. ASSUME NEW k \in Checks PROVE ChecksFollow(g, g, moved)[k] = check[k]
  <2>1. check[k] \in CheckType
    BY DEF TypeOK
  <2>2. Repoint(check[k].stale, g, g, moved) = check[k].stale
    BY <1>1, <2>1 DEF CheckType
  <2> QED
    BY <2>1, <2>2 DEF ChecksFollow, CheckType
<1>4. ASSUME NEW s \in Scans PROVE MergesFollow(g, g, moved)[s] = merge[s]
  <2>1. merge[s] \in MergeType
    BY DEF TypeOK
  <2>2. Repoint(merge[s].versions, g, g, moved) = merge[s].versions
    BY <1>1, <2>1 DEF MergeType
  <2> QED
    BY <2>1, <2>2 DEF MergesFollow, MergeType
<1> QED
  BY <1>2, <1>3, <1>4 DEF SlotsFollow, ChecksFollow, MergesFollow, TypeOK

\* The version row that is stored is the one of the path's own game.
LEMMA StoreVersionResult ==
    ASSUME TypeOK, Homes, NEW i \in Slots, StoreVersion(i)
    PROVE  /\ UNCHANGED <<game, check, merge>>
           /\ slot[i].pc = "storing" /\ slot[i].gid \in Ids /\ slot[i].path \in Paths
           /\ game[slot[i].gid].file = slot[i].path
           /\ \/ EndIndex(i) /\ row' = row
              \/ /\ row' = [row EXCEPT ![slot[i].gid][slot[i].path] = "active"]
                 /\ slot' = [slot EXCEPT ![i].pc = "listing", ![i].found = {}]
<1>1. slot[i].pc = "storing" /\ game' = game
  BY DEF StoreVersion
<1>2. SlotOK(slot[i]) /\ slot[i].gid \in Ids /\ slot[i].path \in Paths
  BY <1>1 DEF TypeOK, Homes, SlotsOK
<1>3. PICK g \in Ids, p \in Paths : g = slot[i].gid /\ p = slot[i].path
  BY <1>2
<1>4. game[g].file = p /\ slot[i].found \subseteq {<<g, p>>}
  BY <1>1, <1>2, <1>3 DEF SlotOK
<1>5. CASE EndIndex(i) /\ UNCHANGED <<row, check, merge>>
  BY <1>1, <1>3, <1>4, <1>5
<1>6. CASE ~(EndIndex(i) /\ UNCHANGED <<row, check, merge>>)
  <2>1. PICK v \in IF slot[i].found = {} THEN {<<g, p>>} ELSE slot[i].found :
              /\ row' = [row EXCEPT ![v[1]][p] = "none", ![g][p] = "active"]
              /\ slot' = [SlotsFollow(v[1], g, {p}) EXCEPT
                            ![i].pc = "listing", ![i].found = {}]
              /\ check' = ChecksFollow(v[1], g, {p})
              /\ merge' = MergesFollow(v[1], g, {p})
    BY <1>3, <1>6, Zenon DEF StoreVersion
  <2>2. v = <<g, p>>
    BY <1>4, <2>1
  <2>3. v[1] = g
    BY <2>2
  <2>4. /\ slot' = [slot EXCEPT ![i].pc = "listing", ![i].found = {}]
        /\ check' = check /\ merge' = merge
    BY <2>1, <2>3, FollowSelf
  <2>5. row' = [row EXCEPT ![g][p] = "active"]
    BY <2>1, <2>3 DEF TypeOK
  <2> QED
    BY <1>1, <1>3, <1>4, <2>4, <2>5
<1> QED
  BY <1>5, <1>6

LEMMA IndexHomes ==
    ASSUME TypeOK, Homes, NEW i \in Slots, Index(i)
    PROVE  Homes' /\ TablesKept
<1> USE DEF diskVars, dbVars, scanVars, boundVars
<1>0. /\ NoPath \notin Paths
      /\ slot[i] \in SlotType /\ SlotOK(slot[i])
      /\ slot[i].pc # "idle" => slot[i].path \in Paths
      /\ slot[i].pc \notin {"idle", "creating"} => slot[i].gid \in Ids
  BY ConstantsType DEF TypeOK, Homes, SlotsOK
<1>1. CASE Restore(i)
  <2>1. GamesOK' /\ OneFile' /\ RowsOK' /\ TablesKept
    <3>1. slot[i].gid \in Ids /\ game[slot[i].gid].file # NoPath
      BY <1>0, <1>1 DEF Restore, SlotOK
    <3> QED
      BY <1>1, <3>1, StateChange DEF Restore
  <2>2. SlotsOK'
    BY <1>0, <1>1, <2>1 DEF Restore, Homes, SlotsOK, SlotOK, TypeOK, TablesKept
  <2>3. MergesOK' /\ ChecksOK'
    BY <1>1, <2>1, ChecksFrame DEF Restore, Homes, MergesOK
  <2> QED
    BY <2>1, <2>2, <2>3 DEF Homes
<1>2. CASE Create(i)
  <2>1. CASE EndIndex(i) /\ UNCHANGED game
    <3>1. TablesKept /\ GamesOK' /\ OneFile' /\ RowsOK'
      BY <1>2, <2>1 DEF Create, TablesKept, Homes, GamesOK, OneFile, RowsOK
    <3>2. SlotsOK'
      BY <2>1, <3>1, EndIndexHomes
    <3>3. MergesOK' /\ ChecksOK'
      BY <1>2, <3>1, ChecksFrame DEF Create, Homes, MergesOK
    <3> QED
      BY <3>1, <3>2, <3>3 DEF Homes
  <2>2. CASE ~(EndIndex(i) /\ UNCHANGED game)
    <3> DEFINE p == slot[i].path
    <3>1. PICK g \in Ids :
            /\ game[g] = NoGame
            /\ game' = [game EXCEPT ![g] =
                  [st |-> "active", file |-> p, title |-> TitleOf[p]]]
            /\ slot' = [slot EXCEPT ![i].pc = "matched", ![i].gid = g]
      BY <1>2, <2>2 DEF Create
    <3>2. p \in Paths /\ ~ \E h \in Ids : game[h].file = p
      BY <1>0, <1>2, <2>2 DEF Create
    <3>3. game[g].file = NoPath
      BY <3>1 DEF NoGame
    <3> HIDE DEF p
    <3>4. GamesOK'
      BY <3>1, <3>2 DEF TypeOK, Homes, GamesOK
    <3>5. OneFile'
      BY <3>1, <3>2 DEF TypeOK, Homes, OneFile
    <3>6. RowsOK' /\ TablesKept
      <4>1. row' = row /\ \A h \in Ids : game[h].file # NoPath => game'[h] = game[h]
        BY <1>2, <3>1, <3>3 DEF Create, TypeOK
      <4>2. RowsOK'
        BY <1>0, <4>1 DEF Homes, RowsOK
      <4>3. TablesKept
        BY <4>1 DEF TablesKept
      <4> QED
        BY <4>2, <4>3
    <3>7. SlotsOK'
      <4> SUFFICES ASSUME NEW j \in Slots PROVE SlotOK(slot[j])'
        BY DEF SlotsOK
      <4>1. CASE j = i
        <5>1. slot'[i].pc = "matched" /\ slot'[i].gid = g /\ slot'[i].path = p
          BY <3>1 DEF p, TypeOK, SlotType
        <5>2. game'[g].file = p
          BY <3>1 DEF TypeOK
        <5> QED
          BY <4>1, <5>1, <5>2 DEF SlotOK
      <4>2. CASE j # i
        <5>1. slot'[j] = slot[j] /\ SlotOK(slot[j])
          BY <3>1, <4>2 DEF TypeOK, Homes, SlotsOK
        <5>2. slot[j].pc \notin {"idle", "creating"} =>
                 slot[j].gid \in Ids /\ slot[j].path \in Paths
          BY DEF TypeOK
        <5> QED
          BY <1>0, <3>6, <5>1, <5>2 DEF SlotOK, TablesKept
      <4> QED
        BY <4>1, <4>2
    <3>8. MergesOK' /\ ChecksOK'
      BY <1>2, <3>6, ChecksFrame DEF Create, Homes, MergesOK
    <3> QED
      BY <3>4, <3>5, <3>6, <3>7, <3>8 DEF Homes
  <2> QED
    BY <2>1, <2>2
<1>3. ASSUME UNCHANGED <<game, row, check, merge>>, SlotsOK' PROVE Homes' /\ TablesKept
  <2>1. TablesKept
    BY <1>3 DEF TablesKept
  <2>2. GamesOK' /\ OneFile' /\ RowsOK' /\ MergesOK'
    BY <1>3 DEF Homes, GamesOK, OneFile, RowsOK, MergesOK
  <2> QED
    BY <1>3, <2>1, <2>2, ChecksFrame DEF Homes
<1>4. CASE FindGame(i)
  <2>1. CASE EndIndex(i)
    <3>1. TablesKept
      BY <1>4 DEF FindGame, TablesKept
    <3> QED
      BY <1>3, <1>4, <2>1, <3>1, EndIndexHomes DEF FindGame
  <2>2. CASE ~EndIndex(i)
    <3>1. slot' = [slot EXCEPT ![i].pc = "recording", ![i].file = game[slot[i].gid].file]
      BY <1>4, <2>2 DEF FindGame
    <3>2. SlotsOK'
      BY <1>0, <1>4, <3>1 DEF FindGame, Homes, SlotsOK, SlotOK, TypeOK
    <3> QED
      BY <1>3, <1>4, <3>2 DEF FindGame
  <2> QED
    BY <2>1, <2>2
<1>5. CASE StoreVersion(i)
  <2>1. /\ UNCHANGED <<game, check, merge>>
        /\ slot[i].pc = "storing" /\ slot[i].gid \in Ids /\ slot[i].path \in Paths
        /\ game[slot[i].gid].file = slot[i].path
    BY <1>5, StoreVersionResult
  <2>2. CASE EndIndex(i) /\ row' = row
    <3>1. TablesKept
      BY <2>1, <2>2 DEF TablesKept
    <3> QED
      BY <1>3, <2>1, <2>2, <3>1, EndIndexHomes
  <2>3. CASE /\ row' = [row EXCEPT ![slot[i].gid][slot[i].path] = "active"]
             /\ slot' = [slot EXCEPT ![i].pc = "listing", ![i].found = {}]
    <3>1. RowsOK' /\ TablesKept
      BY <2>1, <2>3 DEF Homes, RowsOK, TablesKept, TypeOK
    <3>2. SlotsOK'
      <4>1. \A j \in Slots \ {i} : slot'[j] = slot[j]
        BY <2>3 DEF TypeOK
      <4>2. SlotOK(slot[i])'
        BY <1>0, <2>1, <2>3 DEF SlotOK, TypeOK, SlotType
      <4> QED
        BY <2>1, <4>1, <4>2 DEF Homes, SlotsOK, SlotOK
    <3>3. GamesOK' /\ OneFile' /\ MergesOK' /\ ChecksOK'
      BY <2>1, <3>1, ChecksFrame DEF Homes, GamesOK, OneFile, MergesOK
    <3> QED
      BY <3>1, <3>2, <3>3 DEF Homes
  <2> QED
    BY <1>5, <2>2, <2>3, StoreVersionResult
<1>8. CASE FindVersion(i)
  <2>1. PICK found : slot' = [slot EXCEPT ![i].pc = "storing", ![i].found = found]
                     /\ found \subseteq {<<slot[i].gid, slot[i].path>>}
    BY <1>8 DEF FindVersion
  <2>2. slot[i].pc = "recording" /\ game' = game
    BY <1>8 DEF FindVersion
  <2>3. SlotsOK'
    <3>1. \A j \in Slots \ {i} : slot'[j] = slot[j]
      BY <2>1 DEF TypeOK
    <3>2. SlotOK(slot[i])'
      BY <1>0, <2>1, <2>2 DEF SlotOK, TypeOK, SlotType
    <3> QED
      BY <2>2, <3>1, <3>2 DEF Homes, SlotsOK, SlotOK
  <2> QED
    BY <1>3, <1>8, <2>3 DEF FindVersion
<1>6. CASE ListVersions(i)
  <2> DEFINE listed == ActivePaths(slot[i].gid)
             f == IF listed = {} THEN slot[i].file ELSE Best(listed)
  <2>1. slot[i].file = slot[i].path /\ game[slot[i].gid].file = slot[i].path
        /\ slot[i].gid \in Ids /\ slot[i].path \in Paths
    BY <1>0, <1>6 DEF ListVersions, SlotOK
  <2>2. listed \subseteq {slot[i].path}
    BY <2>1, OnlyVersion
  <2>3. f = slot[i].path
    <3>1. CASE listed = {}
      BY <2>1, <3>1
    <3>2. CASE listed # {}
      <4>1. listed \in SUBSET Paths
        BY <2>1, <2>2
      <4>2. Best(listed) \in listed
        BY <3>2, <4>1, BestType
      <4> QED
        BY <2>2, <3>2, <4>2
    <3> QED
      BY <3>1, <3>2
  <2>4. slot' = [slot EXCEPT ![i].pc = "patching", ![i].file = f]
    BY <1>6 DEF ListVersions
  <2> HIDE DEF f
  <2>5. SlotsOK'
    <3>1. \A j \in Slots \ {i} : slot'[j] = slot[j]
      BY <2>4 DEF TypeOK
    <3>2. SlotOK(slot[i])'
      BY <1>0, <1>6, <2>1, <2>3, <2>4 DEF ListVersions, SlotOK, TypeOK, SlotType
    <3>3. game' = game
      BY <1>6 DEF ListVersions
    <3> QED
      BY <3>1, <3>2, <3>3 DEF Homes, SlotsOK, SlotOK
  <2> QED
    BY <1>3, <1>6, <2>5 DEF ListVersions
<1>7. CASE PatchGame(i)
  <2>1. slot[i].file = slot[i].path /\ game[slot[i].gid].file = slot[i].path
        /\ slot[i].gid \in Ids /\ slot[i].path \in Paths
    BY <1>0, <1>7 DEF PatchGame, SlotOK
  <2>2. game[slot[i].gid].title = TitleOf[slot[i].path]
    BY <1>0, <2>1 DEF Homes, GamesOK, NoGame
  <2>3. game' = game
    <3> DEFINE g == slot[i].gid
    <3>1. game[g] = [game[g] EXCEPT !.file = slot[i].file, !.title = TitleOf[slot[i].path]]
      BY <2>1, <2>2 DEF TypeOK, GameRow
    <3>2. UNCHANGED game \/ game' = [game EXCEPT ![g] = [game[g] EXCEPT
             !.file = slot[i].file, !.title = TitleOf[slot[i].path]]]
      BY <1>7, <2>1 DEF PatchGame, TypeOK
    <3> HIDE DEF g
    <3> QED
      BY <3>1, <3>2 DEF TypeOK
  <2>4. TablesKept
    BY <1>7, <2>3 DEF PatchGame, TablesKept
  <2>5. SlotsOK'
    BY <1>7, <2>4, EndIndexHomes DEF PatchGame
  <2> QED
    BY <1>3, <1>7, <2>3, <2>5 DEF PatchGame
<1> QED
  BY <1>1, <1>2, <1>4, <1>5, <1>6, <1>7, <1>8 DEF Index

\* What the integrity check reads first.
LEMMA ReadGamesHomes ==
    ASSUME TypeOK, Homes, NEW c \in Checks, NEW snap, ReadGames(c, snap),
           UNCHANGED <<game, row>>
    PROVE  ChecksOK' /\ CheckOK(check[c])' /\ \A k \in Checks \ {c} : check'[k] = check[k]
<1>1. TablesKept
  BY DEF TablesKept
<1>2. \A k \in Checks \ {c} : check'[k] = check[k]
  BY DEF ReadGames, TypeOK
<1>3. CheckOK(check[c])'
  <2>1. \A g \in Ids, f \in Paths \cup {NoPath} :
          <<g, f>> \in ActiveGames => f \in Paths /\ game[g].file = f
    BY DEF ActiveGames, Active, Homes, GamesOK
  <2>2. /\ check'[c].pc = "reading"
        /\ check'[c].todo = ActiveGames /\ check'[c].stale = {}
    BY DEF ReadGames, IdleCheck, TypeOK
  <2> QED
    BY <2>1, <2>2 DEF CheckOK
<1> QED
  BY <1>1, <1>2, <1>3, CheckFrame DEF ChecksOK

LEMMA ScanHomes ==
    ASSUME TitlesIdentifyPaths, TypeOK, Homes, NEW s \in Scans,
           Reindex(s) \/ ScheduledScan(s) \/ ScanFile(s) \/ ScanCheck(s)
    PROVE  Homes' /\ TablesKept
<1> USE DEF diskVars, dbVars, scanVars, boundVars
<1>1. s \in Slots /\ s \in Checks /\ scan[s] \in ScanType
  BY DEF TypeOK, Slots, Checks
<1>2. CASE Reindex(s) \/ ScheduledScan(s)
  BY <1>2, HomesFrame DEF Reindex, ScheduledScan, StartScan
<1>3. UNCHANGED <<game, row, merge>>
  BY DEF Reindex, ScheduledScan, StartScan, ScanFile, ScanCheck
<1>4. TablesKept /\ GamesOK' /\ OneFile' /\ RowsOK' /\ MergesOK'
  BY <1>3 DEF TablesKept, Homes, GamesOK, OneFile, RowsOK, MergesOK
<1>5. CASE ScanFile(s)
  <2>1. PICK p \in scan[s].todo : StartIndex(s, p)
    BY <1>5 DEF ScanFile
  <2>2. p \in Paths
    BY <1>1 DEF ScanType
  <2>3. SlotsOK' /\ ChecksOK'
    BY <1>1, <1>3, <1>4, <1>5, <2>1, <2>2, StartIndexHomes, ChecksFrame DEF ScanFile
  <2> QED
    BY <1>4, <2>3 DEF Homes
<1>6. CASE ScanCheck(s)
  <2>1. SlotsOK' /\ ChecksOK'
    BY <1>1, <1>3, <1>4, <1>6, SlotsFrame, ReadGamesHomes DEF ScanCheck
  <2> QED
    BY <1>4, <2>1 DEF Homes
<1> QED
  BY <1>2, <1>5, <1>6

\* Deleting what a check found stale.
LEMMA SoftDeleteHomes ==
    ASSUME TypeOK, Homes, NEW c \in Checks, UNCHANGED game,
           row' = SoftDelete(check[c].stale)
    PROVE  RowsOK' /\ TablesKept
<1>1. \A g \in Ids, p \in Paths : row'[g][p] = IF <<g, p>> \in check[c].stale
                                             THEN "deleted" ELSE row[g][p]
  BY DEF SoftDelete
<1>2. \A g \in Ids, p \in Paths : <<g, p>> \in check[c].stale => game[g].file = p
  BY DEF Homes, ChecksOK, CheckOK
<1>3. RowsOK'
  <2> SUFFICES ASSUME NEW g \in Ids, NEW p \in Paths, row'[g][p] # "none"
               PROVE  game[g].file = p
    BY DEF RowsOK
  <2>1. CASE <<g, p>> \in check[c].stale
    BY <1>2, <2>1
  <2>2. CASE <<g, p>> \notin check[c].stale
    BY <1>1, <2>2 DEF Homes, RowsOK
  <2> QED
    BY <2>1, <2>2
<1>4. TablesKept
  BY <1>1 DEF TablesKept
<1> QED
  BY <1>3, <1>4

\* A game has at most one version, so either none of its files exist or all do.
LEMMA CheckGameResult ==
    ASSUME TypeOK, Homes, NEW c \in Checks, CheckGame(c)
    PROVE  \E g \in Ids, f \in Paths :
        /\ <<g, f>> \in check[c].todo /\ game[g].file = f
        /\ LET existing == {p \in Available(g, f) : Exists(c, p)}
               next == [check[c] EXCEPT !.todo = @ \ {<<g, f>>}]
           IN /\ existing # {} => existing = {f}
              /\ check' = [check EXCEPT ![c] = IF existing = {}
                    THEN [next EXCEPT !.pc = "prune_delete", !.gid = g,
                                      !.stale = {g} \X (ActivePaths(g) \ existing)]
                    ELSE next]
<1>1. PICK e \in check[c].todo :
         LET g == e[1]
             available == Available(g, e[2])
             existing == {p \in available : Exists(c, p)}
             stale == {g} \X (ActivePaths(g) \ existing)
             next == [check[c] EXCEPT !.todo = @ \ {e}]
         IN check' = [check EXCEPT ![c] =
              IF existing = {}
              THEN [next EXCEPT !.pc = "prune_delete", !.gid = g, !.stale = stale]
              ELSE IF existing # available
              THEN [next EXCEPT !.pc = "prune_patch", !.gid = g, !.stale = stale,
                                !.file = Best(existing)]
              ELSE next]
  BY DEF CheckGame
<1>2. PICK g \in Ids, f \in Paths \cup {NoPath} : e = <<g, f>>
  BY DEF TypeOK, CheckType
<1>3. f \in Paths /\ game[g].file = f
  BY <1>2 DEF Homes, ChecksOK, CheckOK
<1> DEFINE available == Available(g, f)
           existing == {p \in available : Exists(c, p)}
           next == [check[c] EXCEPT !.todo = @ \ {<<g, f>>}]
<1>4. available \subseteq {f}
  BY <1>3, OnlyVersion DEF Available
<1>5. existing # {} => existing = {f} /\ existing = available
  BY <1>4
<1>6. check' = [check EXCEPT ![c] =
              IF existing = {}
              THEN [next EXCEPT !.pc = "prune_delete", !.gid = g,
                                !.stale = {g} \X (ActivePaths(g) \ existing)]
              ELSE IF existing # available
              THEN [next EXCEPT !.pc = "prune_patch", !.gid = g,
                                !.stale = {g} \X (ActivePaths(g) \ existing),
                                !.file = Best(existing)]
              ELSE next]
  BY <1>1, <1>2
<1> HIDE DEF available, existing, next
<1>7. check' = [check EXCEPT ![c] =
              IF existing = {}
              THEN [next EXCEPT !.pc = "prune_delete", !.gid = g,
                                !.stale = {g} \X (ActivePaths(g) \ existing)]
              ELSE next]
  BY <1>5, <1>6
<1> QED
  BY <1>2, <1>3, <1>5, <1>7, ZenonT(60) DEF available, existing, next

LEMMA CheckHomes ==
    ASSUME TypeOK, Homes, NEW c \in Checks, Check(c)
    PROVE  Homes' /\ TablesKept
<1> USE DEF diskVars, dbVars, scanVars, boundVars
<1>0. check[c] \in CheckType /\ CheckOK(check[c])
  BY DEF TypeOK, Homes, ChecksOK
<1>1. UNCHANGED <<slot, merge>>
  BY DEF Check, CleanDangling, CheckGame, PruneVersions, DeleteGame, PatchChecked,
         AfterWalk, ReadDangling
<1>2. ASSUME TablesKept, GamesOK', OneFile', RowsOK', CheckOK(check[c])',
             \A k \in Checks \ {c} : check'[k] = check[k]
      PROVE  Homes' /\ TablesKept
  <2>1. ChecksOK'
    BY <1>2, CheckFrame DEF ChecksOK
  <2>2. MergesOK' /\ SlotsOK'
    BY <1>1, <1>2, SlotsFrame DEF Homes, MergesOK
  <2> QED
    BY <1>2, <2>1, <2>2 DEF Homes
<1>3. CASE CleanDangling(c) \/ PruneVersions(c)
  <2>1. RowsOK' /\ TablesKept /\ game' = game
    BY <1>3, SoftDeleteHomes DEF CleanDangling, PruneVersions
  <2>2. GamesOK' /\ OneFile'
    BY <2>1 DEF Homes, GamesOK, OneFile
  <2>3. /\ \A k \in Checks \ {c} : check'[k] = check[k]
        /\ check'[c].stale = {} /\ check'[c].gid = check[c].gid
        /\ check'[c].todo = check[c].todo
        /\ \/ check'[c].pc = "games"
           \/ check'[c].pc = "delete" /\ check[c].pc = "prune_delete"
    BY <1>0, <1>3 DEF CleanDangling, PruneVersions, TypeOK, CheckType, CheckOK
  <2>4. CheckOK(check[c])'
    BY <1>0, <2>1, <2>3 DEF CheckOK
  <2> QED
    BY <1>2, <2>1, <2>2, <2>3, <2>4
<1>4. CASE CheckGame(c)
  <2>1. PICK g \in Ids, f \in Paths :
        /\ <<g, f>> \in check[c].todo /\ game[g].file = f
        /\ LET existing == {p \in Available(g, f) : Exists(c, p)}
               next == [check[c] EXCEPT !.todo = @ \ {<<g, f>>}]
           IN check' = [check EXCEPT ![c] = IF existing = {}
                    THEN [next EXCEPT !.pc = "prune_delete", !.gid = g,
                                      !.stale = {g} \X (ActivePaths(g) \ existing)]
                    ELSE next]
    BY <1>4, CheckGameResult
  <2>2. /\ \A k \in Checks \ {c} : check'[k] = check[k]
        /\ check'[c].todo \subseteq check[c].todo
        /\ \/ /\ check'[c].pc = "prune_delete" /\ check'[c].gid = g
              /\ check'[c].stale \subseteq {g} \X ActivePaths(g)
           \/ check'[c].pc = check[c].pc /\ check'[c].stale = check[c].stale
    BY <1>0, <2>1 DEF TypeOK, CheckType
  <2>3. game' = game /\ row' = row
    BY <1>4 DEF CheckGame
  <2>4. f # NoPath
    BY ConstantsType
  <2>5. TablesKept /\ GamesOK' /\ OneFile' /\ RowsOK'
    BY <2>3 DEF TablesKept, Homes, GamesOK, OneFile, RowsOK
  <2>6. check[c].pc = "games"
    BY <1>4 DEF CheckGame
  <2>7. \A p \in Paths : p \in ActivePaths(g) => game[g].file = p
    BY OnlyVersion
  <2>8. CheckOK(check[c])'
    BY <1>0, <2>1, <2>2, <2>3, <2>4, <2>6, <2>7 DEF CheckOK
  <2> QED
    BY <1>2, <2>2, <2>5, <2>8
<1>5. CASE DeleteGame(c)
  <2>1. check[c].gid \in Ids /\ game[check[c].gid].file # NoPath
    BY <1>0, <1>5 DEF DeleteGame, CheckOK
  <2>2. TablesKept /\ GamesOK' /\ OneFile' /\ RowsOK'
    BY <1>5, <2>1, StateChange DEF DeleteGame
  <2>3. /\ \A k \in Checks \ {c} : check'[k] = check[k]
        /\ check'[c].stale = check[c].stale /\ check'[c].todo = check[c].todo
        /\ check'[c].pc = "games"
    BY <1>0, <1>5 DEF DeleteGame, NextGame, TypeOK, CheckType
  <2>4. NoPath \notin Paths
    BY ConstantsType
  <2>5. CheckOK(check[c])'
    BY <1>0, <2>2, <2>3, <2>4 DEF CheckOK, TablesKept
  <2> QED
    BY <1>2, <2>2, <2>3, <2>5
<1>6. ~PatchChecked(c)
  BY <1>0 DEF PatchChecked, CheckOK
<1>7. ASSUME UNCHANGED <<game, row>> PROVE TablesKept /\ GamesOK' /\ OneFile' /\ RowsOK'
  BY <1>7 DEF TablesKept, Homes, GamesOK, OneFile, RowsOK
<1>8. CASE AfterWalk(c)
  BY <1>2, <1>7, <1>8, ReadGamesHomes DEF AfterWalk
<1>9. CASE ReadDangling(c)
  <2>1. \A g \in Ids, p \in Paths : <<g, p>> \in Dangling => game[g].file = p
    BY DEF Dangling, Homes, RowsOK
  <2>2. /\ check'[c].pc \in {"games", "cleaning"}
        /\ check'[c].todo = check[c].todo /\ check'[c].stale = Dangling
        /\ \A k \in Checks \ {c} : check'[k] = check[k]
        /\ UNCHANGED <<game, row>>
    BY <1>0, <1>9 DEF ReadDangling, TypeOK, CheckType
  <2>3. CheckOK(check[c])'
    BY <1>0, <2>1, <2>2 DEF CheckOK
  <2> QED
    BY <1>2, <1>7, <2>2, <2>3
<1> QED
  BY <1>3, <1>4, <1>5, <1>6, <1>8, <1>9 DEF Check

\* Games of one title would have one path.
LEMMA NothingToMerge ==
    ASSUME TitlesIdentifyPaths, TypeOK, Homes
    PROVE  Duplicates = {}
<1>1. ASSUME NEW d \in Ids, NEW c \in Ids, Active(d), Active(c),
             game[d].title = game[c].title
      PROVE  d = c
  <2>1. /\ game[d].file \in Paths /\ game[c].file \in Paths
        /\ TitleOf[game[d].file] = TitleOf[game[c].file]
    BY <1>1 DEF Active, Homes, GamesOK
  <2>2. game[d].file = game[c].file /\ game[d].file # NoPath
    BY <2>1, ConstantsType DEF TitlesIdentifyPaths
  <2> QED
    BY <2>2 DEF Homes, OneFile
<1>2. \A d, c \in Ids : c < d => c # d
  BY ConstantsType DEF Ids
<1> QED
  BY <1>1, <1>2 DEF Duplicates

LEMMA MergeHomes ==
    ASSUME TitlesIdentifyPaths, TypeOK, Homes, NEW s \in Scans, Merge(s)
    PROVE  Homes' /\ TablesKept
<1> USE DEF diskVars, dbVars, scanVars, boundVars
<1>0. /\ merge[s] \in MergeType /\ s \in Checks
      /\ merge[s].pc \in {"idle", "move"} /\ merge[s].todo = {} /\ merge[s].merged = {}
  BY DEF TypeOK, Checks, Homes, MergesOK
<1>1. BeginMerge(s) \/ EndScan(s)
  BY <1>0 DEF Merge, FindVersions, MoveVersion, AddVersion, Tombstone, DeleteDuplicate,
              RefreshDefault, Current
<1>2. UNCHANGED <<game, row, slot>>
  BY <1>1 DEF BeginMerge, EndScan
<1>3. TablesKept /\ GamesOK' /\ OneFile' /\ RowsOK' /\ SlotsOK'
  BY <1>2, SlotsFrame DEF TablesKept, Homes, GamesOK, OneFile, RowsOK
<1>4. MergesOK'
  <2>1. /\ \A t \in Scans \ {s} : merge'[t] = merge[t]
        /\ merge'[s] = IdleMerge \/ merge'[s] = [IdleMerge EXCEPT !.pc = "move", !.todo = {}]
    BY <1>1, NothingToMerge DEF BeginMerge, EndScan, TypeOK
  <2>2. /\ merge'[s].pc \in {"idle", "move"} /\ merge'[s].todo = {}
        /\ merge'[s].merged = {}
    <3>1. CASE merge'[s] = IdleMerge
      BY <3>1 DEF IdleMerge
    <3>2. CASE merge'[s] = [IdleMerge EXCEPT !.pc = "move", !.todo = {}]
      BY <3>2 DEF IdleMerge
    <3> QED
      BY <2>1, <3>1, <3>2
  <2> QED
    BY <2>1, <2>2 DEF Homes, MergesOK
<1>5. ChecksOK'
  <2>1. CASE BeginMerge(s)
    <3>1. \A k \in Checks \ {s} : check'[k] = check[k]
      BY <2>1 DEF BeginMerge, TypeOK
    <3>2. CheckOK(check[s])'
      BY <1>0, <2>1 DEF BeginMerge, TypeOK, CheckOK, IdleCheck
    <3> QED
      BY <1>3, <3>1, <3>2, CheckFrame DEF ChecksOK
  <2>2. CASE EndScan(s)
    BY <1>3, <2>2, ChecksFrame DEF EndScan
  <2> QED
    BY <1>1, <2>1, <2>2
<1> QED
  BY <1>3, <1>4, <1>5 DEF Homes

LEMMA OtherHomes ==
    ASSUME TitlesIdentifyPaths, TypeOK, Homes,
           \/ \E i \in Workers, p \in Paths : WatcherIndex(i, p)
           \/ \E c \in Debounces : DebouncedCheck(c) \/ EndDebouncedCheck(c)
           \/ Restart
    PROVE  Homes' /\ TablesKept
<1> USE DEF diskVars, dbVars, scanVars, boundVars
<1>0. Debounces \subseteq Checks
  BY DEF Checks
<1>1. UNCHANGED <<game, row>>
  BY DEF WatcherIndex, DebouncedCheck, EndDebouncedCheck, Restart
<1>2. TablesKept /\ GamesOK' /\ OneFile' /\ RowsOK'
  BY <1>1 DEF TablesKept, Homes, GamesOK, OneFile, RowsOK
<1>3. ASSUME UNCHANGED merge PROVE MergesOK'
  BY <1>3 DEF Homes, MergesOK
<1>4. ASSUME NEW i \in Workers, NEW p \in Paths, WatcherIndex(i, p) PROVE Homes'
  <2>1. i \in Slots /\ StartIndex(i, p) /\ UNCHANGED <<check, merge>>
    BY <1>4 DEF WatcherIndex, Slots
  <2> QED
    BY <1>1, <1>2, <1>3, <2>1, StartIndexHomes, ChecksFrame DEF Homes
<1>5. ASSUME NEW c \in Debounces, DebouncedCheck(c) \/ EndDebouncedCheck(c) PROVE Homes'
  <2>1. c \in Checks /\ \A k \in Checks \ {c} : check'[k] = check[k]
    BY <1>0, <1>5 DEF DebouncedCheck, EndDebouncedCheck, TypeOK
  <2>2. check'[c].pc \in {"walked", "idle"} /\ check'[c].todo = {} /\ check'[c].stale = {}
    <3>1. CASE DebouncedCheck(c)
      <4>1. PICK snap : check' = [check EXCEPT ![c] =
                  [IdleCheck EXCEPT !.pc = "walked", !.snap = snap]]
        BY <3>1 DEF DebouncedCheck
      <4> QED
        BY <2>1, <4>1 DEF IdleCheck, TypeOK
    <3>2. CASE EndDebouncedCheck(c)
      BY <2>1, <3>2 DEF EndDebouncedCheck, IdleCheck, TypeOK
    <3> QED
      BY <1>5, <3>1, <3>2
  <2>3. CheckOK(check[c])'
    BY <2>2 DEF CheckOK
  <2>4. ChecksOK'
    BY <1>2, <2>1, <2>3, CheckFrame DEF ChecksOK
  <2>5. SlotsOK' /\ MergesOK'
    BY <1>2, <1>3, <1>5, SlotsFrame DEF DebouncedCheck, EndDebouncedCheck
  <2> QED
    BY <1>2, <2>4, <2>5 DEF Homes
<1>7. CASE Restart
  <2>1. SlotsOK'
    BY <1>7 DEF Restart, SlotsOK, SlotOK, IdleSlot
  <2>2. ChecksOK'
    BY <1>7 DEF Restart, ChecksOK, CheckOK, IdleCheck
  <2>3. MergesOK'
    BY <1>7 DEF Restart, MergesOK, IdleMerge
  <2> QED
    BY <1>2, <2>1, <2>2, <2>3 DEF Homes
<1> QED
  BY <1>2, <1>4, <1>5, <1>7

\* Files come and go without a table being written.
LEMMA FilesHomes ==
    ASSUME TypeOK, Homes, NEW p \in Paths,
           \/ CopyFile(p) \/ Upload(p) \/ ChangeFile(p) \/ RemoveFile(p)
           \/ \E g \in Ids : DeleteGameFile(g, p)
    PROVE  Homes' /\ TablesKept
BY HomesFrame DEF CopyFile, Upload, AddFile, ChangeFile, RemoveFile, DeleteGameFile, dbVars

LEMMA NextHomes ==
    ASSUME TitlesIdentifyPaths, TypeOK, Homes, [Next]_vars
    PROVE  Homes' /\ TablesKept
<1>1. CASE UNCHANGED vars
  BY <1>1, HomesFrame DEF vars
<1>2. CASE \/ \E p \in Paths : CopyFile(p) \/ Upload(p) \/ ChangeFile(p) \/ RemoveFile(p)
           \/ \E g \in Ids, p \in Paths : DeleteGameFile(g, p)
  BY <1>2, FilesHomes
<1>3. CASE \E i \in Slots : Index(i)
  BY <1>3, IndexHomes
<1>4. CASE \E s \in Scans : Reindex(s) \/ ScheduledScan(s) \/ ScanFile(s)
                            \/ ScanCheck(s) \/ Merge(s)
  BY <1>4, ScanHomes, MergeHomes
<1>5. CASE \E c \in Checks : Check(c)
  BY <1>5, CheckHomes
<1> QED
  BY <1>1, <1>2, <1>3, <1>4, <1>5, OtherHomes DEF Next

\* When no two paths share a title, the version rows of a path, soft-deleted
\* ones too, belong to one game, for any number of files, index() calls and
\* scans: a file that goes and comes back finds its game.
THEOREM PathsHaveOneHome ==
    ASSUME TitlesIdentifyPaths
    PROVE  Spec => []OneHome
<1>1. Homes => OneHome
  <2> SUFFICES ASSUME Homes, NEW p \in Paths, NEW g \in Ids, NEW h \in Ids,
                      row[g][p] # "none", row[h][p] # "none"
               PROVE  g = h
    BY DEF OneHome
  <2>1. game[g].file = p /\ game[h].file = p
    BY DEF Homes, RowsOK
  <2> QED
    BY <2>1, ConstantsType DEF Homes, OneFile
<1>2. TypeOK /\ Homes /\ [Next]_vars => TypeOK' /\ Homes'
  BY NextTypeOK, NextHomes
<1> QED
  BY <1>1, <1>2, InitTypeOK, InitHomes, PTL DEF Spec
(***************************************************************************)
(* Files that are not removed stay listed.  The strengthening: the server  *)
(* only knows paths that were once on the volume, and no check has decided *)
(* against a file that was never removed.                                  *)
(***************************************************************************)

Known == disk \cup touched

OnlyKnown ==
    /\ \A p \in Paths : pending[p] # 0 => p \in Known
    /\ \A g \in Ids : game[g].file \in Known \cup {NoPath}
    /\ \A i \in Slots : slot[i].pc # "idle" => slot[i].path \in Known
    /\ \A s \in Scans : scan[s].todo \subseteq Known

TablesKeep == \A p \in Paths \ touched, g \in Ids :
    game[g].file = p => game[g].st = "active" /\ row[g][p] # "deleted"

CheckKeeps(x) == \A p \in Paths \ touched :
    /\ \A g \in Ids : <<g, p>> \notin x.stale
    /\ x.pc \in {"prune_delete", "delete"} => game[x.gid].file # p
ChecksKeep == \A c \in Checks : CheckKeeps(check[c])

Keeps == OnlyKnown /\ TablesKeep /\ ChecksKeep

LEMMA InitKeeps == Init => Keeps
<1> SUFFICES ASSUME Init PROVE Keeps
  OBVIOUS
<1>1. PICK known \in Paths \cup {NoPath} :
         /\ game = [g \in Ids |-> IF g = 1 /\ known # NoPath
                       THEN [st |-> "active", file |-> known, title |-> TitleOf[known]]
                       ELSE NoGame]
         /\ row = [g \in Ids |-> [p \in Paths |->
                       IF g = 1 /\ p = known THEN "active" ELSE "none"]]
         /\ touched = {known} \ (disk \cup {NoPath})
  BY DEF Init
<1>2. \A g \in Ids : game[g].file \in {known, NoPath}
  BY <1>1 DEF NoGame
<1>3. OnlyKnown
  BY <1>1, <1>2 DEF Init, OnlyKnown, Known, IdleSlot, IdleScan
<1>4. TablesKeep
  BY <1>1, ConstantsType DEF TablesKeep, NoGame
<1>5. ChecksKeep
  BY DEF Init, ChecksKeep, CheckKeeps, IdleCheck
<1> QED
  BY <1>3, <1>4, <1>5 DEF Keeps

\* A check that is not touched keeps what it keeps.
LEMMA CheckKeepsFrame ==
    ASSUME TypeOK, Homes, Keeps, TablesKept, touched \subseteq touched',
           NEW c \in Checks, check'[c] = check[c]
    PROVE  CheckKeeps(check[c])'
<1>1. CheckKeeps(check[c]) /\ CheckOK(check[c])
  BY DEF Keeps, ChecksKeep, Homes, ChecksOK
<1> QED
  BY <1>1 DEF CheckKeeps, CheckOK, TablesKept

LEMMA ChecksKeepFrame ==
    ASSUME TypeOK, Homes, Keeps, TablesKept, touched \subseteq touched', UNCHANGED check
    PROVE  ChecksKeep'
BY CheckKeepsFrame DEF ChecksKeep

\* Neither does anything happen to a file whose game and version are not
\* deleted.
LEMMA TablesKeepFrame ==
    ASSUME Keeps, touched \subseteq touched',
           \A g \in Ids :
              game'[g].file = game[g].file /\ game'[g].st \in {game[g].st, "active"},
           \A g \in Ids, p \in Paths : row'[g][p] = "deleted" => row[g][p] = "deleted"
    PROVE  TablesKeep'
<1> SUFFICES ASSUME NEW p \in Paths \ touched, NEW g \in Ids, game'[g].file = p
             PROVE  game'[g].st = "active" /\ row'[g][p] # "deleted"
  BY DEF TablesKeep
<1>1. game[g].file = p
  OBVIOUS
<1>2. game[g].st = "active" /\ row[g][p] # "deleted"
  BY <1>1 DEF Keeps, TablesKeep
<1> QED
  BY <1>2

LEMMA FilesKeeps ==
    ASSUME TypeOK, Homes, Keeps, NEW p \in Paths,
           \/ CopyFile(p) \/ Upload(p) \/ ChangeFile(p) \/ RemoveFile(p)
           \/ \E g \in Ids : DeleteGameFile(g, p)
    PROVE  Keeps'
<1> USE DEF diskVars, dbVars, scanVars, boundVars
<1>1. /\ UNCHANGED <<game, row, slot, scan, check>>
      /\ touched \subseteq touched' /\ Known \subseteq Known'
      /\ \A q \in Paths \ {p} : pending'[q] = pending[q]
      /\ pending'[p] # 0 => p \in Known'
  BY DEF CopyFile, Upload, AddFile, ChangeFile, RemoveFile, DeleteGameFile, Known, TypeOK
<1>2. OnlyKnown'
  BY <1>1 DEF Keeps, OnlyKnown
<1>3. TablesKeep'
  BY <1>1, TablesKeepFrame
<1>4. ChecksKeep'
  BY <1>1, HomesFrame, ChecksKeepFrame
     DEF CopyFile, Upload, AddFile, ChangeFile, RemoveFile, DeleteGameFile
<1> QED
  BY <1>2, <1>3, <1>4 DEF Keeps

\* An index() call that does not create a game.
LEMMA IndexOldGame ==
    ASSUME TypeOK, Homes, NEW i \in Slots, Index(i), ~Create(i)
    PROVE  /\ \A g \in Ids :
                 game'[g].file = game[g].file /\ game'[g].st \in {game[g].st, "active"}
           /\ \A j \in Slots : slot'[j].pc # "idle" =>
                 slot[j].pc # "idle" /\ slot'[j].path = slot[j].path
<1> USE DEF diskVars, dbVars, scanVars, boundVars
<1>1. slot \in [Slots -> SlotType] /\ game \in [Ids -> GameRow] /\ SlotOK(slot[i])
  BY DEF TypeOK, Homes, SlotsOK
<1>2. CASE Restore(i)
  BY <1>1, <1>2 DEF Restore, GameRow, SlotType
<1>3. CASE FindGame(i)
  BY <1>1, <1>3 DEF FindGame, EndIndex, IdleSlot, SlotType
<1>4. CASE FindVersion(i) \/ ListVersions(i)
  BY <1>1, <1>4 DEF FindVersion, ListVersions, SlotType
<1>5. CASE StoreVersion(i)
  <2>1. game' = game
    BY <1>5, StoreVersionResult
  <2>2. CASE EndIndex(i)
    BY <1>1, <2>1, <2>2 DEF EndIndex, IdleSlot, SlotType
  <2>3. CASE slot' = [slot EXCEPT ![i].pc = "listing", ![i].found = {}]
    <3>1. slot[i].pc = "storing"
      BY <1>5 DEF StoreVersion
    <3>2. \A j \in Slots \ {i} : slot'[j] = slot[j]
      BY <1>1, <2>3
    <3>3. slot'[i].path = slot[i].path
      BY <1>1, <2>3 DEF SlotType
    <3> QED
      BY <2>1, <3>1, <3>2, <3>3
  <2> QED
    BY <1>5, <2>2, <2>3, StoreVersionResult
<1>6. CASE PatchGame(i)
  <2>1. slot[i].file = slot[i].path /\ game[slot[i].gid].file = slot[i].path
    BY <1>1, <1>6 DEF PatchGame, SlotOK
  <2>2. \A g \in Ids : game'[g].file = game[g].file /\ game'[g].st = game[g].st
    BY SMTT(30), <1>1, <1>6, <2>1 DEF PatchGame, GameRow
  <2> QED
    BY <1>1, <1>6, <2>2 DEF PatchGame, EndIndex, IdleSlot, SlotType
<1> QED
  BY <1>2, <1>3, <1>4, <1>5, <1>6 DEF Index

LEMMA IndexKeeps ==
    ASSUME TypeOK, Homes, Keeps, NEW i \in Slots, Index(i)
    PROVE  Keeps'
<1> USE DEF diskVars, dbVars, scanVars, boundVars
<1>1. UNCHANGED <<disk, touched, pending, scan, check>>
  BY StoreVersionResult DEF Index, Restore, Create, FindGame, FindVersion, StoreVersion,
                            ListVersions, PatchGame
<1>2. TablesKept /\ Homes'
  BY IndexHomes
<1>3. ChecksKeep'
  BY <1>1, <1>2, ChecksKeepFrame
<1>4. Known' = Known
  BY <1>1 DEF Known
<1>5. CASE ~Create(i)
  <2>1. \A g \in Ids, p \in Paths : row'[g][p] = "deleted" => row[g][p] = "deleted"
    <3>1. row' = row \/ StoreVersion(i)
      BY <1>5 DEF Index, Restore, FindGame, FindVersion, ListVersions, PatchGame
    <3>2. row' = row \/ \E g \in Ids, p \in Paths : row' = [row EXCEPT ![g][p] = "active"]
      BY <3>1, StoreVersionResult
    <3>3. row \in [Ids -> [Paths -> RowState]]
      BY DEF TypeOK
    <3> QED
      BY <3>2, <3>3
  <2>2. TablesKeep'
    <3>1. \A g \in Ids :
             game'[g].file = game[g].file /\ game'[g].st \in {game[g].st, "active"}
      BY <1>5, IndexOldGame
    <3> QED
      BY <1>1, <2>1, <3>1, TablesKeepFrame
  <2>3. OnlyKnown'
    BY <1>1, <1>4, <1>5, IndexOldGame DEF Keeps, OnlyKnown
  <2> QED
    BY <1>3, <2>2, <2>3 DEF Keeps
<1>6. CASE Create(i)
  <2>1. slot[i].path \in Paths \cap Known /\ row' = row
    BY <1>6 DEF Create, TypeOK, Keeps, OnlyKnown
  <2>2. CASE EndIndex(i) /\ UNCHANGED game
    <3>1. OnlyKnown'
      BY <1>1, <1>4, <2>2 DEF EndIndex, IdleSlot, TypeOK, Keeps, OnlyKnown
    <3>2. TablesKeep'
      BY <1>1, <2>1, <2>2, TablesKeepFrame
    <3> QED
      BY <1>3, <3>1, <3>2 DEF Keeps
  <2>3. CASE ~(EndIndex(i) /\ UNCHANGED game)
    <3>1. PICK g \in Ids :
            /\ game[g] = NoGame
            /\ game' = [game EXCEPT ![g] =
                  [st |-> "active", file |-> slot[i].path, title |-> TitleOf[slot[i].path]]]
            /\ slot' = [slot EXCEPT ![i].pc = "matched", ![i].gid = g]
      BY <1>6, <2>3 DEF Create
    <3>2. /\ \A h \in Ids \ {g} : game'[h] = game[h]
          /\ game'[g].st = "active" /\ game'[g].file = slot[i].path
          /\ \A j \in Slots : slot'[j].path = slot[j].path
                             /\ (slot'[j].pc # "idle" => j = i \/ slot[j].pc # "idle")
      BY <3>1 DEF TypeOK, SlotType
    <3>3. OnlyKnown'
      BY <1>1, <1>4, <2>1, <3>2 DEF Keeps, OnlyKnown
    <3>4. \A p \in Paths : row[g][p] = "none"
      BY <3>1, ConstantsType DEF Homes, RowsOK, NoGame
    <3>5. TablesKeep'
      BY <1>1, <2>1, <3>2, <3>4 DEF Keeps, TablesKeep
    <3> QED
      BY <1>3, <3>3, <3>5 DEF Keeps
  <2> QED
    BY <2>2, <2>3
<1> QED
  BY <1>5, <1>6

\* A check that has found nothing stale keeps everything.
LEMMA FreshCheckKeeps ==
    ASSUME TypeOK, Homes, Keeps, TablesKept, touched \subseteq touched', NEW c \in Checks,
           \A k \in Checks \ {c} : check'[k] = check[k],
           check'[c].pc \notin {"prune_delete", "delete"}, check'[c].stale = {}
    PROVE  ChecksKeep'
<1>1. CheckKeeps(check[c])'
  BY DEF CheckKeeps
<1> QED
  BY <1>1, CheckKeepsFrame DEF ChecksKeep

\* A call that takes up a path the server knows.
LEMMA StartIndexKnown ==
    ASSUME TypeOK, Keeps, NEW i \in Slots, NEW p \in Known, StartIndex(i, p)
    PROVE  \A j \in Slots : slot'[j].pc # "idle" => slot'[j].path \in Known
<1>1. \A j \in Slots \ {i} : slot'[j] = slot[j]
  BY DEF StartIndex, TypeOK
<1>2. slot'[i].path = p
  BY DEF StartIndex, TypeOK, IdleSlot
<1> QED
  BY <1>1, <1>2 DEF Keeps, OnlyKnown

LEMMA ScanKeeps ==
    ASSUME TypeOK, Homes, Keeps, NEW s \in Scans,
           Reindex(s) \/ ScheduledScan(s) \/ ScanFile(s) \/ ScanCheck(s)
    PROVE  Keeps'
<1> USE DEF diskVars, dbVars, scanVars, boundVars
<1>1. UNCHANGED <<disk, touched, pending, game, row>>
  BY DEF Reindex, ScheduledScan, StartScan, ScanFile, ScanCheck
<1>2. TablesKept /\ TablesKeep' /\ Known' = Known
  BY <1>1, TablesKeepFrame DEF TablesKept, Known
<1>3. s \in Slots /\ s \in Checks
  BY DEF Slots, Checks
<1>4. ASSUME \A t \in Scans : scan'[t].todo \subseteq Known,
             \A i \in Slots : slot'[i].pc # "idle" => slot'[i].path \in Known
      PROVE  OnlyKnown'
  BY <1>1, <1>2, <1>4 DEF Keeps, OnlyKnown
<1>5. CASE Reindex(s) \/ ScheduledScan(s)
  <2>1. PICK snap \in Snapshots :
          scan' = [scan EXCEPT ![s] = [pc |-> "indexing", todo |-> snap, snap |-> snap]]
    BY <1>5 DEF Reindex, ScheduledScan, StartScan
  <2>2. snap \subseteq Known
    BY DEF Snapshots, Known
  <2>3. \A t \in Scans : scan'[t].todo \subseteq Known
    BY <2>1, <2>2 DEF TypeOK, Keeps, OnlyKnown
  <2>4. UNCHANGED <<slot, check>>
    BY <1>5 DEF Reindex, ScheduledScan, StartScan
  <2>5. OnlyKnown'
    BY <1>4, <2>3, <2>4 DEF Keeps, OnlyKnown
  <2> QED
    BY <1>1, <1>2, <2>4, <2>5, ChecksKeepFrame DEF Keeps
<1>6. CASE ScanFile(s)
  <2>1. PICK p \in scan[s].todo :
          StartIndex(s, p) /\ scan' = [scan EXCEPT ![s].todo = @ \ {p}]
    BY <1>6 DEF ScanFile
  <2>2. p \in Known
    BY DEF Keeps, OnlyKnown
  <2>3. \A t \in Scans : scan'[t].todo \subseteq Known
    BY <2>1 DEF TypeOK, ScanType, Keeps, OnlyKnown
  <2>4. OnlyKnown'
    BY <1>3, <1>4, <2>1, <2>2, <2>3, StartIndexKnown
  <2> QED
    BY <1>1, <1>2, <1>6, <2>4, ChecksKeepFrame DEF ScanFile, Keeps
<1>7. CASE ScanCheck(s)
  <2>1. \A t \in Scans : scan'[t].todo = scan[t].todo
    BY <1>7 DEF ScanCheck, TypeOK, ScanType
  <2>2. OnlyKnown'
    BY <1>4, <1>7, <2>1 DEF ScanCheck, Keeps, OnlyKnown
  <2>3. ReadGames(s, scan[s].snap)
    BY <1>7 DEF ScanCheck
  <2>4. /\ \A k \in Checks \ {s} : check'[k] = check[k]
        /\ check'[s].pc = "reading" /\ check'[s].stale = {}
    BY <1>3, <2>3 DEF ReadGames, IdleCheck, TypeOK
  <2>5. ChecksKeep'
    BY <1>1, <1>2, <1>3, <2>4, FreshCheckKeeps
  <2> QED
    BY <1>2, <2>2, <2>5 DEF Keeps
<1> QED
  BY <1>5, <1>6, <1>7

\* A check writes no path: only deletions of what it found stale.
LEMMA CheckKeepsAll ==
    ASSUME TypeOK, Homes, Keeps, NEW c \in Checks, Check(c)
    PROVE  Keeps'
<1> USE DEF diskVars, dbVars, scanVars, boundVars
<1>0. check[c] \in CheckType /\ CheckOK(check[c]) /\ CheckKeeps(check[c])
  BY SMTT(30) DEF TypeOK, Homes, ChecksOK, Keeps, ChecksKeep
<1>1. /\ UNCHANGED <<disk, touched, pending, slot, scan>>
      /\ ~PatchChecked(c)
  BY <1>0 DEF Check, CleanDangling, CheckGame, PruneVersions, DeleteGame, PatchChecked,
              AfterWalk, ReadDangling, CheckOK
<1>2. TablesKept
  BY CheckHomes
<1>3. /\ \A g \in Ids : game'[g].file = game[g].file
      /\ \A k \in Checks \ {c} : check'[k] = check[k]
  <2>1. CASE CleanDangling(c) \/ PruneVersions(c)
    BY <2>1 DEF CleanDangling, PruneVersions, TypeOK
  <2>2. CASE CheckGame(c)
    <3>1. \E x : check' = [check EXCEPT ![c] = x]
      BY <2>2, CheckGameResult
    <3>2. game' = game
      BY <2>2 DEF CheckGame
    <3> QED
      BY <3>1, <3>2 DEF TypeOK
  <2>3. CASE DeleteGame(c)
    BY <2>3 DEF DeleteGame, NextGame, TypeOK, GameRow
  <2>4. CASE AfterWalk(c) \/ ReadDangling(c)
    BY <2>4 DEF AfterWalk, ReadGames, ReadDangling, TypeOK
  <2> QED
    BY <1>1, <2>1, <2>2, <2>3, <2>4 DEF Check
<1>4. OnlyKnown'
  BY <1>1, <1>3 DEF Keeps, OnlyKnown, Known
<1>5. ASSUME CheckKeeps(check[c])', TablesKeep' PROVE Keeps'
  <2>1. ChecksKeep'
    BY <1>1, <1>2, <1>3, <1>5, CheckKeepsFrame DEF ChecksKeep
  <2> QED
    BY <1>4, <1>5, <2>1 DEF Keeps
<1>6. CASE CleanDangling(c) \/ PruneVersions(c)
  <2>1. game' = game /\ row' = SoftDelete(check[c].stale)
    BY <1>6 DEF CleanDangling, PruneVersions
  <2>2. \A p \in Paths \ touched, g \in Ids : row'[g][p] = row[g][p]
    BY <1>0, <2>1 DEF SoftDelete, CheckKeeps
  <2>3. TablesKeep'
    BY <1>1, <2>1, <2>2 DEF Keeps, TablesKeep
  <2>4. /\ check'[c].stale = {} /\ check'[c].gid = check[c].gid
        /\ \/ check'[c].pc = "games"
           \/ check'[c].pc = "delete" /\ check[c].pc = "prune_delete"
    BY <1>0, <1>6 DEF CleanDangling, PruneVersions, TypeOK, CheckType, CheckOK
  <2>5. CheckKeeps(check[c])'
    BY <1>0, <1>1, <2>1, <2>4 DEF CheckKeeps
  <2> QED
    BY <1>5, <2>3, <2>5
<1>7. CASE CheckGame(c)
  <2> DEFINE existing(g, f) == {p \in Available(g, f) : Exists(c, p)}
  <2>1. PICK g \in Ids, f \in Paths :
        /\ <<g, f>> \in check[c].todo /\ game[g].file = f
        /\ existing(g, f) # {} => existing(g, f) = {f}
        /\ LET next == [check[c] EXCEPT !.todo = @ \ {<<g, f>>}]
           IN check' = [check EXCEPT ![c] = IF existing(g, f) = {}
                    THEN [next EXCEPT !.pc = "prune_delete", !.gid = g,
                                      !.stale = {g} \X (ActivePaths(g) \ existing(g, f))]
                    ELSE next]
    BY <1>7, CheckGameResult
  <2>2. UNCHANGED <<game, row>> /\ check[c].pc = "games"
    BY <1>7 DEF CheckGame
  <2>3. TablesKeep'
    BY <1>1, <2>2, TablesKeepFrame
  <2>4. f \notin touched => f \in existing(g, f)
    <3>1. SUFFICES ASSUME f \notin touched PROVE f \in existing(g, f)
      OBVIOUS
    <3>2. f \in disk
      BY <2>1, <3>1, ConstantsType DEF Keeps, OnlyKnown, Known
    <3>3. row[g][f] # "deleted"
      BY <2>1, <3>1 DEF Keeps, TablesKeep
    <3>4. f \in Available(g, f)
      <4>1. \A p \in Paths : row[g][p] # "none" => p = f
        BY <2>1 DEF Homes, RowsOK
      <4>2. row[g][f] \in RowState
        BY DEF TypeOK
      <4> QED
        BY <3>3, <4>1, <4>2 DEF Available, HasRows, ActivePaths, RowState
    <3> QED
      BY <3>2, <3>4 DEF Exists, StillInStorage
  <2> HIDE DEF existing
  <2>5. CASE existing(g, f) = {}
    <3>1. /\ check'[c].pc = "prune_delete" /\ check'[c].gid = g
          /\ check'[c].stale \subseteq {g} \X ActivePaths(g)
      BY <1>0, <2>1, <2>5 DEF TypeOK, CheckType
    <3>2. f \in touched /\ \A p \in ActivePaths(g) : p = f
      BY <2>1, <2>4, <2>5, OnlyVersion
    <3>3. CheckKeeps(check[c])'
      BY <1>1, <2>1, <2>2, <3>1, <3>2 DEF CheckKeeps
    <3> QED
      BY <1>5, <2>3, <3>3
  <2>6. CASE existing(g, f) # {}
    <3>1. check'[c].pc = "games" /\ check'[c].stale = check[c].stale
      BY <1>0, <2>1, <2>2, <2>6 DEF TypeOK, CheckType
    <3>2. CheckKeeps(check[c])'
      BY <1>0, <1>1, <2>2, <3>1 DEF CheckKeeps
    <3> QED
      BY <1>5, <2>3, <3>2
  <2> QED
    BY <2>5, <2>6
<1>8. CASE DeleteGame(c)
  <2>1. /\ check[c].pc = "delete" /\ row' = row
        /\ \A g \in Ids : g # check[c].gid => game'[g] = game[g]
    BY <1>8 DEF DeleteGame, TypeOK
  <2>2. \A p \in Paths \ touched : game[check[c].gid].file # p
    BY <1>0, <2>1 DEF CheckKeeps
  <2>3. TablesKeep'
    BY <1>1, <1>3, <2>1, <2>2 DEF Keeps, TablesKeep
  <2>4. check'[c].pc = "games" /\ check'[c].stale = check[c].stale
    BY <1>0, <1>8 DEF DeleteGame, NextGame, TypeOK, CheckType
  <2>5. CheckKeeps(check[c])'
    BY <1>0, <1>1, <2>4 DEF CheckKeeps
  <2> QED
    BY <1>5, <2>3, <2>5
<1>9. ASSUME UNCHANGED <<game, row>> PROVE TablesKeep'
  BY <1>1, <1>9, TablesKeepFrame
<1>10. CASE AfterWalk(c)
  <2>1. UNCHANGED <<game, row>> /\ check'[c].pc = "reading" /\ check'[c].stale = {}
    BY <1>10 DEF AfterWalk, ReadGames, IdleCheck, TypeOK
  <2>2. CheckKeeps(check[c])'
    BY <2>1 DEF CheckKeeps
  <2> QED
    BY <1>5, <1>9, <2>1, <2>2
<1>11. CASE ReadDangling(c)
  <2>1. /\ UNCHANGED <<game, row>> /\ check'[c].stale = Dangling
        /\ check'[c].pc \in {"games", "cleaning"}
    BY <1>0, <1>11 DEF ReadDangling, TypeOK, CheckType
  <2>2. ASSUME NEW p \in Paths \ touched, NEW g \in Ids, <<g, p>> \in Dangling PROVE FALSE
    <3>1. game[g].st = "deleted" /\ row[g][p] = "active"
      BY <2>2 DEF Dangling
    <3>2. game[g].file = p
      BY <3>1 DEF Homes, RowsOK
    <3> QED
      BY <3>1, <3>2 DEF Keeps, TablesKeep
  <2>3. CheckKeeps(check[c])'
    BY <1>1, <2>1, <2>2 DEF CheckKeeps
  <2> QED
    BY <1>5, <1>9, <2>1, <2>3
<1> QED
  BY <1>1, <1>6, <1>7, <1>8, <1>10, <1>11 DEF Check

\* Merging has nothing to do; BeginMerge and EndScan write no table.
LEMMA MergeKeeps ==
    ASSUME TitlesIdentifyPaths, TypeOK, Homes, Keeps, NEW s \in Scans, Merge(s)
    PROVE  Keeps'
<1> USE DEF diskVars, dbVars, scanVars, boundVars
<1>0. merge[s].pc \in {"idle", "move"} /\ merge[s].todo = {} /\ merge[s].merged = {}
  BY DEF Homes, MergesOK
<1>1. BeginMerge(s) \/ EndScan(s)
  BY <1>0 DEF Merge, FindVersions, MoveVersion, AddVersion, Tombstone, DeleteDuplicate,
              RefreshDefault, Current
<1>2. UNCHANGED <<disk, touched, pending, game, row, slot>>
  BY <1>1 DEF BeginMerge, EndScan
<1>3. TablesKept /\ TablesKeep' /\ Known' = Known
  BY <1>2, TablesKeepFrame DEF TablesKept, Known
<1>4. \A t \in Scans : scan'[t].todo \in {scan[t].todo, {}}
  BY <1>1 DEF BeginMerge, EndScan, TypeOK, ScanType, IdleScan
<1>5. OnlyKnown'
  BY <1>2, <1>3, <1>4 DEF Keeps, OnlyKnown
<1>6. ChecksKeep'
  <2>1. CASE BeginMerge(s)
    <3>1. \A k \in Checks \ {s} : check'[k] = check[k]
      BY <2>1 DEF BeginMerge, TypeOK
    <3>2. s \in Checks => CheckKeeps(check[s])'
      BY <2>1 DEF BeginMerge, TypeOK, CheckKeeps, IdleCheck
    <3> QED
      BY <1>2, <1>3, <3>1, <3>2, CheckKeepsFrame DEF ChecksKeep
  <2>2. CASE EndScan(s)
    BY <1>2, <1>3, <2>2, ChecksKeepFrame DEF EndScan
  <2> QED
    BY <1>1, <2>1, <2>2
<1> QED
  BY <1>3, <1>5, <1>6 DEF Keeps

LEMMA OtherKeeps ==
    ASSUME TypeOK, Homes, Keeps,
           \/ \E i \in Workers, p \in Paths : WatcherIndex(i, p)
           \/ \E c \in Debounces : DebouncedCheck(c) \/ EndDebouncedCheck(c)
           \/ Restart
    PROVE  Keeps'
<1> USE DEF diskVars, dbVars, scanVars, boundVars
<1>0. Debounces \subseteq Checks
  BY DEF Checks
<1>1. UNCHANGED <<disk, touched, game, row>>
  BY DEF WatcherIndex, DebouncedCheck, EndDebouncedCheck, Restart
<1>2. TablesKept /\ TablesKeep' /\ Known' = Known
  BY <1>1, TablesKeepFrame DEF TablesKept, Known
<1>3. ASSUME NEW i \in Workers, NEW p \in Paths, WatcherIndex(i, p) PROVE Keeps'
  <2>1. i \in Slots /\ StartIndex(i, p) /\ UNCHANGED <<check, scan>>
    BY <1>3 DEF WatcherIndex, Slots
  <2>2. p \in Known
    BY <1>3 DEF WatcherIndex, TypeOK, Keeps, OnlyKnown
  <2>3. \A q \in Paths : pending'[q] # 0 => q \in Known
    BY <1>3, <2>2 DEF WatcherIndex, TypeOK, Keeps, OnlyKnown
  <2>4. OnlyKnown'
    BY <1>1, <1>2, <2>1, <2>2, <2>3, StartIndexKnown DEF Keeps, OnlyKnown
  <2> QED
    BY <1>1, <1>2, <2>1, <2>4, ChecksKeepFrame DEF Keeps
<1>4. ASSUME UNCHANGED <<pending, slot, scan>> PROVE OnlyKnown'
  BY <1>1, <1>2, <1>4 DEF Keeps, OnlyKnown
<1>5. ASSUME NEW c \in Debounces, DebouncedCheck(c) \/ EndDebouncedCheck(c) PROVE Keeps'
  <2>1. c \in Checks /\ \A k \in Checks \ {c} : check'[k] = check[k]
    BY <1>0, <1>5 DEF DebouncedCheck, EndDebouncedCheck, TypeOK
  <2>2. check'[c].pc \in {"walked", "idle"} /\ check'[c].stale = {}
    <3>1. CASE DebouncedCheck(c)
      <4>1. PICK snap : check' = [check EXCEPT ![c] =
                  [IdleCheck EXCEPT !.pc = "walked", !.snap = snap]]
        BY <3>1 DEF DebouncedCheck
      <4> QED
        BY <2>1, <4>1 DEF IdleCheck, TypeOK
    <3>2. CASE EndDebouncedCheck(c)
      BY <2>1, <3>2 DEF EndDebouncedCheck, IdleCheck, TypeOK
    <3> QED
      BY <1>5, <3>1, <3>2
  <2>3. ChecksKeep'
    BY <1>1, <1>2, <2>1, <2>2, FreshCheckKeeps
  <2> QED
    BY <1>2, <1>4, <1>5, <2>3 DEF DebouncedCheck, EndDebouncedCheck, Keeps
<1>7. CASE Restart
  <2>1. ChecksKeep'
    BY <1>7 DEF Restart, ChecksKeep, CheckKeeps, IdleCheck
  <2>2. OnlyKnown'
    BY <1>1, <1>2, <1>7 DEF Restart, IdleSlot, IdleScan, Keeps, OnlyKnown
  <2> QED
    BY <1>2, <2>1, <2>2 DEF Keeps
<1> QED
  BY <1>3, <1>5, <1>7

LEMMA NextKeeps ==
    ASSUME TitlesIdentifyPaths, TypeOK, Homes, Keeps, [Next]_vars
    PROVE  Keeps'
<1>1. CASE UNCHANGED vars
  BY <1>1 DEF vars, Keeps, OnlyKnown, Known, TablesKeep, ChecksKeep, CheckKeeps
<1>2. CASE \/ \E p \in Paths : CopyFile(p) \/ Upload(p) \/ ChangeFile(p) \/ RemoveFile(p)
           \/ \E g \in Ids, p \in Paths : DeleteGameFile(g, p)
  BY <1>2, FilesKeeps
<1>3. CASE \E i \in Slots : Index(i)
  BY <1>3, IndexKeeps
<1>4. CASE \E s \in Scans : Reindex(s) \/ ScheduledScan(s) \/ ScanFile(s)
                            \/ ScanCheck(s) \/ Merge(s)
  BY <1>4, ScanKeeps, MergeKeeps
<1>5. CASE \E c \in Checks : Check(c)
  BY <1>5, CheckKeepsAll
<1> QED
  BY <1>1, <1>2, <1>3, <1>4, <1>5, OtherKeeps DEF Next

\* A step that removes a file writes no table.
LEMMA TouchedStep ==
    ASSUME [Next]_vars, touched' # touched
    PROVE  UNCHANGED <<game, row>>
<1>1. \E p \in Paths : \/ CopyFile(p) \/ Upload(p) \/ ChangeFile(p) \/ RemoveFile(p)
                       \/ \E g \in Ids : DeleteGameFile(g, p)
  BY DEF Next, vars, diskVars, WatcherIndex, Index, Restore, Create, FindGame,
         FindVersion, StoreVersion, ListVersions, PatchGame, Reindex, ScheduledScan,
         StartScan, ScanFile, ScanCheck, Merge, BeginMerge, FindVersions, MoveVersion,
         AddVersion, Tombstone, DeleteDuplicate, RefreshDefault, EndScan, DebouncedCheck,
         EndDebouncedCheck, Check, AfterWalk, ReadDangling, CleanDangling, CheckGame,
         PruneVersions, DeleteGame, PatchChecked, Restart
<1> QED
  BY <1>1, SMTT(30) DEF CopyFile, Upload, AddFile, ChangeFile, RemoveFile, DeleteGameFile, dbVars

\* When no two paths share a title, no interleaving of watcher events, uploads,
\* scans that miss files, checks and crashes makes the library lose a file that
\* was not removed.
THEOREM UntouchedFilesStay ==
    ASSUME TitlesIdentifyPaths
    PROVE  Spec => KeepsUntouchedFiles
<1> DEFINE Step == \A p \in Paths : p \in disk \ touched /\ p \in Listed => p \in Listed'
<1>1. ASSUME TypeOK, Homes, Keeps, [Next]_vars PROVE Step
  <2> SUFFICES ASSUME NEW p \in Paths, p \in disk \ touched, p \in Listed
               PROVE  p \in Listed'
    OBVIOUS
  <2>1. PICK g \in Ids : Active(g) /\ row[g][p] = "active"
    BY DEF Listed
  <2>2. CASE touched' = touched
    <3>1. game[g].file = p /\ p # NoPath
      BY <2>1, <1>1, ConstantsType DEF Homes, RowsOK
    <3>2. TablesKept /\ TypeOK' /\ Keeps'
      BY <1>1, NextHomes, NextKeeps, NextTypeOK
    <3>3. game'[g].file = p /\ row'[g][p] # "none"
      BY <2>1, <3>1, <3>2 DEF TablesKept
    <3>4. game'[g].st = "active" /\ row'[g][p] # "deleted"
      BY <2>2, <3>2, <3>3 DEF Keeps, TablesKeep
    <3>5. row'[g][p] = "active"
      BY <3>2, <3>3, <3>4 DEF TypeOK, RowState
    <3> QED
      BY <3>4, <3>5 DEF Listed, Active
  <2>3. CASE touched' # touched
    BY <1>1, <2>1, <2>3, TouchedStep DEF Listed, Active
  <2> QED
    BY <2>2, <2>3
<1>2. TypeOK /\ Homes /\ Keeps /\ [Next]_vars => TypeOK' /\ Homes' /\ Keeps'
  BY NextTypeOK, NextHomes, NextKeeps
<1>3. TypeOK /\ Homes /\ Keeps /\ [Next]_vars => [Step]_vars
  BY <1>1
<1>4. Spec => [][Step]_vars
  BY <1>2, <1>3, InitTypeOK, InitHomes, InitKeeps, PTL DEF Spec
<1> QED
  BY <1>4 DEF KeepsUntouchedFiles
=============================================================================

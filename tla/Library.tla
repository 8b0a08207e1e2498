------------------------------- MODULE Library -------------------------------
(***************************************************************************)
(* The games library: the files volume, the tables gamevault_game and      *)
(* game_version, and FilesService (src/src/modules/games/files.service.ts),*)
(* which keeps the tables in line with the volume.                         *)
(*                                                                         *)
(* The server is one Node process; its asynchronous functions interleave   *)
(* at every await.  One action below is what one function does between two *)
(* awaits that another function could use to write the same rows.          *)
(*                                                                         *)
(* Each index() call runs in a slot: a member of Workers for a call of the *)
(* file watcher or of an upload, a member of Scans for the calls of a full *)
(* scan (GAMES_INDEX_CONCURRENCY is 1 unless configured, so a scan has one *)
(* slot).  Each checkIntegrity() runs in a member of Scans, or in one of   *)
(* Debounces for a debounced check: the debounce does not wait for a check *)
(* that is still running, so several may.                                  *)
(*                                                                         *)
(* Titles and release years parsed from a file name are abstracted to the  *)
(* constant TitleOf: two paths have the same TitleOf when the indexer      *)
(* would put them in one game.  The order of sortGameVersions, taken from  *)
(* the version strings in the file names, is the constant Rank.            *)
(***************************************************************************)
EXTENDS Integers, FiniteSets

CONSTANTS
    Paths,          \* file paths inside the files volume
    NoPath,         \* a file_path that is no file: unset, or a merge tombstone
    TitleOf,        \* TitleOf[p]: normalised title and year of path p
    Rank,           \* Rank[p]: place of p in sortGameVersions, higher is newer
    Workers,        \* index() calls in flight outside full scans
    Scans,          \* full scans in flight
    Debounces,      \* debounced integrity checks in flight
    MaxGames,       \* bound: ids of gamevault_game
    MaxDiskOps,     \* bound: changes of the files volume
    MaxReindex,     \* bound: scans started at boot or by PUT /files/reindex
    MaxRestarts,    \* bound: crashes of the process, each followed by a boot
    PartialScans    \* TRUE when a directory walk may stop early or miss files

Ids == 1 .. MaxGames
Titles == {TitleOf[p] : p \in Paths}
Slots == Workers \cup Scans
Checks == Scans \cup Debounces

ASSUME LibraryAssumption ==
    /\ NoPath \notin Paths
    /\ DOMAIN TitleOf = Paths
    /\ NoPath \notin Titles
    /\ Rank \in [Paths -> Nat]
    /\ \A S \in (SUBSET Paths) \ {{}} :    \* a set of versions has one newest
          \E p \in S : \A q \in S \ {p} : Rank[q] < Rank[p]
    /\ Workers \cap Scans = {}
    /\ Debounces \cap Scans = {}
    /\ MaxGames \in Nat \ {0}
    /\ MaxDiskOps \in Nat
    /\ MaxReindex \in Nat
    /\ MaxRestarts \in Nat
    /\ PartialScans \in BOOLEAN

VARIABLES
    disk,           \* files on the volume
    touched,        \* history: paths that were missing while the tables knew them
    diskOps,        \* changes of the volume so far
    pending,        \* pending[p]: index(p) calls about to start
    game,           \* table gamevault_game
    row,            \* row[g][p]: table game_version, UNIQUE (game, file_path)
    slot,           \* running index() calls
    timer,          \* the debounced integrity check is armed
    inProgress,     \* FilesService.fullIndexInProgress
    scan,           \* running performFullIndex() calls
    check,          \* running checkIntegrity() calls
    merge,          \* running mergeDuplicateGames() calls
    reindexed,      \* scans started at boot or by PUT /files/reindex so far
    restarts        \* crashes so far

diskVars == <<disk, touched, diskOps>>
dbVars == <<game, row>>
scanVars == <<inProgress, scan, reindexed>>
boundVars == <<restarts>>
vars == <<disk, touched, diskOps, pending, game, row, slot, timer,
          inProgress, scan, check, merge, reindexed, restarts>>

(***************************************************************************)
(* The tables.                                                             *)
(***************************************************************************)
GameRow == [st : {"none", "active", "deleted"},
            file : Paths \cup {NoPath},
            title : Titles \cup {NoPath}]
RowState == {"none", "active", "deleted"}

NoGame == [st |-> "none", file |-> NoPath, title |-> NoPath]

Active(g) == game[g].st = "active"
ActivePaths(g) == {p \in Paths : row[g][p] = "active"}
HasRows(g) == \E p \in Paths : row[g][p] # "none"

\* The UNIQUE index on gamevault_game.file_path, which soft-deleted games keep.
FileTaken(g, p) == p # NoPath /\ \E h \in Ids \ {g} : game[h].file = p

\* selectDefaultGameVersion: the first of sortGameVersions.  A path that is no
\* file is only ever chosen alone.
Best(S) == IF NoPath \in S THEN NoPath
           ELSE CHOOSE p \in S : \A q \in S \ {p} : Rank[q] < Rank[p]

\* The files a user finds in the library: active versions of active games.
Listed == {p \in Paths : \E g \in Ids : Active(g) /\ row[g][p] = "active"}

(***************************************************************************)
(* Processes.                                                              *)
(***************************************************************************)
IdleSlot == [pc |-> "idle", path |-> NoPath, gid |-> 0, found |-> {}, file |-> NoPath]
IdleScan == [pc |-> "idle", todo |-> {}, snap |-> {}]
IdleCheck == [pc |-> "idle", snap |-> {}, todo |-> {}, gid |-> 0,
              stale |-> {}, file |-> NoPath]
IdleMerge == [pc |-> "idle", todo |-> {}, versions |-> {}, merged |-> {}]

\* A version row is named by its game and path.  It keeps its id when it moves to
\* another game, so a process that holds the id is renamed the row (Repoint).
Versions == Ids \X Paths

SlotType == [pc : {"idle", "matched", "restoring", "creating", "recording",
                   "storing", "listing", "patching"},
             path : Paths \cup {NoPath}, gid : 0 .. MaxGames,
             found : SUBSET Versions, file : Paths \cup {NoPath}]
ScanType == [pc : {"idle", "indexing", "checking", "merging"},
             todo : SUBSET Paths, snap : SUBSET Paths]
CheckType == [pc : {"idle", "walked", "reading", "cleaning", "games",
                    "prune_delete", "prune_patch", "delete", "patch"},
              snap : SUBSET Paths,
              todo : SUBSET (Ids \X (Paths \cup {NoPath})),
              gid : 0 .. MaxGames,
              stale : SUBSET Versions,
              file : Paths \cup {NoPath}]
MergeType == [pc : {"idle", "move", "moving", "adding", "tombstone", "delete"},
              todo : SUBSET (Ids \X Ids \X (Paths \cup {NoPath})),
              versions : SUBSET Versions,
              merged : SUBSET Ids]

TypeOK ==
    /\ disk \subseteq Paths
    /\ touched \subseteq Paths
    /\ diskOps \in 0 .. MaxDiskOps
    /\ pending \in [Paths -> Nat]
    /\ game \in [Ids -> GameRow]
    /\ row \in [Ids -> [Paths -> RowState]]
    /\ slot \in [Slots -> SlotType]
    /\ timer \in BOOLEAN
    /\ inProgress \in BOOLEAN
    /\ scan \in [Scans -> ScanType]
    /\ check \in [Checks -> CheckType]
    /\ merge \in [Scans -> MergeType]
    /\ reindexed \in 0 .. MaxReindex
    /\ restarts \in 0 .. MaxRestarts
    /\ \A i \in Slots :
          /\ slot[i].pc # "idle" => slot[i].path \in Paths
          /\ slot[i].pc \notin {"idle", "creating"} => slot[i].gid \in Ids

(***************************************************************************)
(* A version row keeps its id when it moves to another game: whoever       *)
(* remembers the ids of the rows of game d for the paths in moved finds    *)
(* them in game c.                                                         *)
(***************************************************************************)
Repoint(rows, d, c, moved) ==
    {IF r[1] = d /\ r[2] \in moved THEN <<c, r[2]>> ELSE r : r \in rows}

SlotsFollow(d, c, moved) ==
    [i \in Slots |-> [slot[i] EXCEPT !.found = Repoint(@, d, c, moved)]]
ChecksFollow(d, c, moved) ==
    [k \in Checks |-> [check[k] EXCEPT !.stale = Repoint(@, d, c, moved)]]
MergesFollow(d, c, moved) ==
    [s \in Scans |-> [merge[s] EXCEPT !.versions = Repoint(@, d, c, moved)]]

(***************************************************************************)
(* Initial states: any files on the volume, and a database that is empty   *)
(* or holds one game with one version (the migration that introduced       *)
(* game_version gave every game its row).                                  *)
(***************************************************************************)
Init ==
    /\ disk \in SUBSET Paths
    /\ diskOps = 0
    /\ pending = [p \in Paths |-> 0]
    /\ \E known \in Paths \cup {NoPath} :
         /\ game = [g \in Ids |-> IF g = 1 /\ known # NoPath
                       THEN [st |-> "active", file |-> known, title |-> TitleOf[known]]
                       ELSE NoGame]
         /\ row = [g \in Ids |-> [p \in Paths |->
                       IF g = 1 /\ p = known THEN "active" ELSE "none"]]
         /\ touched = {known} \ (disk \cup {NoPath})
    /\ slot = [i \in Slots |-> IdleSlot]
    /\ timer = FALSE
    /\ inProgress = FALSE
    /\ scan = [s \in Scans |-> IdleScan]
    /\ check = [c \in Checks |-> IdleCheck]
    /\ merge = [s \in Scans |-> IdleMerge]
    /\ reindexed = 0
    /\ restarts = 0

(***************************************************************************)
(* The files volume.  A file copied onto it or changed raises one watcher  *)
(* event; an upload over HTTP also calls index itself.  Removing a file, by   *)
(* hand or by deleteGameFile, cancels events that wait for the write to    *)
(* finish and raises an unlink event, whose index call has no size and     *)
(* only arms the debounced check.                                          *)
(***************************************************************************)
AddFile(p, calls) ==
    /\ diskOps < MaxDiskOps
    /\ p \notin disk
    /\ disk' = disk \cup {p}
    /\ diskOps' = diskOps + 1
    /\ pending' = [pending EXCEPT ![p] = calls]
    /\ UNCHANGED <<touched, dbVars, slot, timer, scanVars, check, merge, boundVars>>

CopyFile(p) == AddFile(p, 1)

\* upload: pathExists and move(overwrite: false) refuse a path that exists.
Upload(p) == AddFile(p, 2)

\* A file is written over; the rows do not say what is in it.
ChangeFile(p) ==
    /\ diskOps < MaxDiskOps
    /\ p \in disk
    /\ diskOps' = diskOps + 1
    /\ pending' = [pending EXCEPT ![p] = @ + 1]
    /\ UNCHANGED <<disk, touched, dbVars, slot, timer, scanVars, check, merge, boundVars>>

RemoveFile(p) ==
    /\ diskOps < MaxDiskOps
    /\ p \in disk
    /\ disk' = disk \ {p}
    /\ touched' = touched \cup {p}
    /\ diskOps' = diskOps + 1
    /\ pending' = [pending EXCEPT ![p] = 0]
    /\ timer' = TRUE
    /\ UNCHANGED <<dbVars, slot, scanVars, check, merge, boundVars>>

\* deleteGameFile(g, version p): only a version the library lists, and only a
\* file that is there.  The tables are left to the indexer.
DeleteGameFile(g, p) ==
    /\ Active(g)
    /\ row[g][p] = "active"
    /\ RemoveFile(p)

(***************************************************************************)
(* index(p), in slot i.                                                    *)
(***************************************************************************)

\* Mutant: soft-deleted rows are not looked at.
MatchesActiveOnly(p) ==
    LET byVersion == {g \in Ids : Active(g) /\ row[g][p] = "active"}
        byTitle == {g \in Ids : Active(g) /\ game[g].title = TitleOf[p]}
    IN  IF byVersion # {} THEN byVersion ELSE byTitle

\* checkIfExistsInDatabase: by version path, else by the game's own path, else
\* by title.  Soft-deleted rows match too.  None of the queries has an ORDER
\* BY, so any row of the first non-empty group may be the one returned.
Matches(p) ==
    LET byVersion == {g \in Ids : row[g][p] # "none"}
        byFile == {g \in Ids : game[g].file = p}
        byTitle == {g \in Ids : game[g].title = TitleOf[p]}
    IN  IF byVersion # {} THEN byVersion
        ELSE IF byFile # {} THEN byFile ELSE byTitle

\* Reads the database and decides between the cases of GameExistence.  The
\* archive is then inspected (detectType), which can take minutes.
StartIndex(i, p) ==
    /\ slot[i].pc = "idle"
    /\ IF Matches(p) = {}
       THEN slot' = [slot EXCEPT ![i] = [IdleSlot EXCEPT !.pc = "creating", !.path = p]]
       ELSE \E g \in Matches(p) :
              slot' = [slot EXCEPT ![i] =
                 [IdleSlot EXCEPT !.pc = IF Active(g) THEN "matched" ELSE "restoring",
                                  !.path = p, !.gid = g]]

\* Ends the call.  A call of a full scan has skipIntegrityCheck set; any other
\* arms the debounced check, also when it failed.
EndIndex(i) ==
    /\ slot' = [slot EXCEPT ![i] = IdleSlot]
    /\ timer' = (timer \/ i \in Workers)

\* Mutant: the event is handled again and again.
WatcherIndexRepeated(i, p) ==
    /\ i \in Workers
    /\ pending' = [pending EXCEPT ![p] = @ - 1]
    /\ StartIndex(i, p)
    /\ UNCHANGED <<diskVars, dbVars, timer, scanVars, check, merge, boundVars>>

WatcherIndex(i, p) ==
    /\ i \in Workers
    /\ pending[p] > 0
    /\ pending' = [pending EXCEPT ![p] = @ - 1]
    /\ StartIndex(i, p)
    /\ UNCHANGED <<diskVars, dbVars, timer, scanVars, check, merge, boundVars>>

\* GamesService.restore of a soft-deleted game.
Restore(i) ==
    LET g == slot[i].gid IN
    /\ slot[i].pc = "restoring"
    /\ game' = [game EXCEPT ![g].st = "active"]
    /\ slot' = [slot EXCEPT ![i].pc = "matched"]
    /\ UNCHANGED <<diskVars, pending, row, timer, scanVars, check, merge, boundVars>>

\* Mutant: the path of a game is not UNIQUE.
CreateAlways(i) ==
    LET p == slot[i].path IN
    /\ slot[i].pc = "creating"
    /\ \E g \in Ids :
          /\ game[g] = NoGame
          /\ \A h \in Ids : h < g => game[h] # NoGame
          /\ game' = [game EXCEPT ![g] =
                [st |-> "active", file |-> p, title |-> TitleOf[p]]]
          /\ slot' = [slot EXCEPT ![i].pc = "matched", ![i].gid = g]
          /\ UNCHANGED timer
    /\ UNCHANGED <<diskVars, pending, row, scanVars, check, merge, boundVars>>

\* Saves a new game; the UNIQUE index makes the save fail when another call
\* stored the same path meanwhile.
Create(i) ==
    LET p == slot[i].path IN
    /\ slot[i].pc = "creating"
    /\ IF \E g \in Ids : game[g].file = p
       THEN EndIndex(i) /\ UNCHANGED game
       ELSE \E g \in Ids :
              /\ game[g] = NoGame
              /\ \A h \in Ids : h < g => game[h] # NoGame
              /\ game' = [game EXCEPT ![g] =
                    [st |-> "active", file |-> p, title |-> TitleOf[p]]]
              /\ slot' = [slot EXCEPT ![i].pc = "matched", ![i].gid = g]
              /\ UNCHANGED timer
    /\ UNCHANGED <<diskVars, pending, row, scanVars, check, merge, boundVars>>

\* upsertIndexedVersion reads the game and fails when it is gone by now.
FindGame(i) ==
    LET g == slot[i].gid IN
    /\ slot[i].pc = "matched"
    /\ IF Active(g)
       THEN /\ slot' = [slot EXCEPT ![i].pc = "recording", ![i].file = game[g].file]
            /\ UNCHANGED timer
       ELSE EndIndex(i)
    /\ UNCHANGED <<diskVars, pending, dbVars, scanVars, check, merge, boundVars>>

\* upsertReleaseRecord looks for the version row, a soft-deleted one too.
FindVersion(i) ==
    LET g == slot[i].gid
        p == slot[i].path IN
    /\ slot[i].pc = "recording"
    /\ slot' = [slot EXCEPT ![i].pc = "storing",
          ![i].found = IF row[g][p] = "none" THEN {} ELSE {<<g, p>>}]
    /\ UNCHANGED <<diskVars, pending, dbVars, timer, scanVars, check, merge, boundVars>>

\* Saves it: inserts a row when none was found, else makes the row that was found
\* an active one of this game, wherever it is by now.  UNIQUE (game, file_path)
\* refuses a second row.
StoreVersion(i) ==
    LET g == slot[i].gid
        p == slot[i].path
        known == slot[i].found IN
    /\ slot[i].pc = "storing"
    /\ IF row[g][p] # "none" /\ known # {<<g, p>>}
       THEN EndIndex(i) /\ UNCHANGED <<row, check, merge>>
       ELSE \E v \in IF known = {} THEN {<<g, p>>} ELSE known :
              /\ row' = [row EXCEPT ![v[1]][p] = "none", ![g][p] = "active"]
              /\ slot' = [SlotsFollow(v[1], g, {p}) EXCEPT
                            ![i].pc = "listing", ![i].found = {}]
              /\ check' = ChecksFollow(v[1], g, {p})
              /\ merge' = MergesFollow(v[1], g, {p})
              /\ UNCHANGED timer
    /\ UNCHANGED <<diskVars, pending, game, scanVars, boundVars>>

\* listAvailableVersionsFromStorage, falling back to the path the game had when
\* it was read, and selectDefaultGameVersion.
ListVersions(i) ==
    LET listed == ActivePaths(slot[i].gid) IN
    /\ slot[i].pc = "listing"
    /\ slot' = [slot EXCEPT ![i].pc = "patching",
          ![i].file = IF listed = {} THEN slot[i].file ELSE Best(listed)]
    /\ UNCHANGED <<diskVars, pending, dbVars, timer, scanVars, check, merge, boundVars>>

\* Saves the chosen default version and the title into the game's row.
PatchGame(i) ==
    LET g == slot[i].gid IN
    /\ slot[i].pc = "patching"
    /\ IF FileTaken(g, slot[i].file)
       THEN UNCHANGED game
       ELSE game' = [game EXCEPT ![g].file = slot[i].file,
                                 ![g].title = TitleOf[slot[i].path]]
    /\ EndIndex(i)
    /\ UNCHANGED <<diskVars, pending, row, scanVars, check, merge, boundVars>>

Index(i) ==
    \/ Restore(i) \/ Create(i) \/ FindGame(i)
    \/ FindVersion(i) \/ StoreVersion(i) \/ ListVersions(i) \/ PatchGame(i)

(***************************************************************************)
(* Full scans: indexAllFiles and performFullIndex.                         *)
(***************************************************************************)

\* readAllFiles: a walk that meets an error reports the files found so far.
Snapshots == IF PartialScans THEN SUBSET disk ELSE {disk}

StartScan(s) ==
    /\ scan[s].pc = "idle"
    /\ inProgress' = TRUE
    /\ \E snap \in Snapshots :
          scan' = [scan EXCEPT ![s] = [pc |-> "indexing", todo |-> snap, snap |-> snap]]
    /\ UNCHANGED <<diskVars, pending, dbVars, slot, timer, check, merge, boundVars>>

\* At boot, and PUT /files/reindex: the flag is not looked at.
Reindex(s) ==
    /\ reindexed < MaxReindex
    /\ reindexed' = reindexed + 1
    /\ StartScan(s)

\* runScheduledIndex: skipped while a full scan is running.
ScheduledScan(s) ==
    /\ ~inProgress
    /\ StartScan(s)
    /\ UNCHANGED reindexed

\* The next file of the snapshot, whether or not it is still on the volume.
ScanFile(s) ==
    /\ scan[s].pc = "indexing"
    /\ \E p \in scan[s].todo :
          /\ StartIndex(s, p)
          /\ scan' = [scan EXCEPT ![s].todo = @ \ {p}]
    /\ UNCHANGED <<diskVars, pending, dbVars, timer, inProgress, reindexed, check,
                   merge, boundVars>>

(***************************************************************************)
(* checkIntegrity, in process c.                                           *)
(***************************************************************************)
ActiveGames == {<<g, game[g].file>> : g \in {h \in Ids : Active(h)}}

\* Active versions of deleted games: the rows cleanupDanglingVersions... reads.
Dangling == {v \in Ids \X Paths : game[v[1]].st = "deleted" /\ row[v[1]][v[2]] = "active"}

ReadGames(c, snap) ==
    check' = [check EXCEPT ![c] =
        [IdleCheck EXCEPT !.pc = "reading", !.snap = snap, !.todo = ActiveGames]]

\* The debounced check walks the volume itself.
DebouncedCheck(c) ==
    /\ timer
    /\ timer' = FALSE
    /\ check[c].pc = "idle"
    /\ \E snap \in Snapshots :
          check' = [check EXCEPT ![c] = [IdleCheck EXCEPT !.pc = "walked", !.snap = snap]]
    /\ UNCHANGED <<diskVars, pending, dbVars, slot, scanVars, merge, boundVars>>

AfterWalk(c) ==
    /\ check[c].pc = "walked"
    /\ ReadGames(c, check[c].snap)
    /\ UNCHANGED <<diskVars, pending, dbVars, slot, timer, scanVars, merge, boundVars>>

\* The check of a full scan uses the scan's own snapshot and first cancels an
\* armed debounced check.
ScanCheck(s) ==
    /\ scan[s].pc = "indexing"
    /\ scan[s].todo = {}
    /\ slot[s].pc = "idle"
    /\ timer' = FALSE
    /\ scan' = [scan EXCEPT ![s].pc = "checking"]
    /\ ReadGames(s, scan[s].snap)
    /\ UNCHANGED <<diskVars, pending, dbVars, slot, inProgress, reindexed, merge, boundVars>>

\* cleanupDanglingVersionsForDeletedGames: the versions to soft-delete.
ReadDangling(c) ==
    /\ check[c].pc = "reading"
    /\ check' = [check EXCEPT ![c].pc = IF Dangling = {} THEN "games" ELSE "cleaning",
                              ![c].stale = Dangling]
    /\ UNCHANGED <<diskVars, pending, dbVars, slot, timer, scanVars, merge, boundVars>>

SoftDelete(rows) ==
    [g \in Ids |-> [p \in Paths |->
        IF <<g, p>> \in rows THEN "deleted" ELSE row[g][p]]]

CleanDangling(c) ==
    /\ check[c].pc = "cleaning"
    /\ row' = SoftDelete(check[c].stale)
    /\ check' = [check EXCEPT ![c].pc = "games", ![c].stale = {}]
    /\ UNCHANGED <<diskVars, pending, game, slot, timer, scanVars, merge, boundVars>>

\* Mutant: the scan's snapshot is believed to be complete.
NeverInStorage(p) == FALSE

\* isStillInStorage
StillInStorage(p) == p \in disk

\* The versions a game is believed to have: its active rows; none when all its
\* rows are deleted; its own path when it was never given rows.
Available(g, file) ==
    IF HasRows(g) THEN ActivePaths(g) ELSE {file}

Exists(c, p) == p \in check[c].snap \/ StillInStorage(p)

\* Reads one game's versions, looks for their files and decides.
CheckGame(c) ==
    /\ check[c].pc = "games"
    /\ \E e \in check[c].todo :
         LET g == e[1]
             available == Available(g, e[2])
             existing == {p \in available : Exists(c, p)}
             stale == {g} \X (ActivePaths(g) \ existing)
             next == [check[c] EXCEPT !.todo = @ \ {e}]
         IN check' = [check EXCEPT ![c] =
              IF existing = {}
              THEN [next EXCEPT !.pc = "prune_delete", !.gid = g, !.stale = stale]
              ELSE IF existing # available
              THEN [next EXCEPT !.pc = "prune_patch", !.gid = g, !.stale = stale,
                                !.file = Best(existing)]
              ELSE next]
    /\ UNCHANGED <<diskVars, pending, dbVars, slot, timer, scanVars, merge, boundVars>>

\* Soft-deletes the version rows whose files are gone.
PruneVersions(c) ==
    /\ check[c].pc \in {"prune_delete", "prune_patch"}
    /\ row' = SoftDelete(check[c].stale)
    /\ check' = [check EXCEPT ![c].stale = {},
          ![c].pc = IF check[c].pc = "prune_delete" THEN "delete" ELSE "patch"]
    /\ UNCHANGED <<diskVars, pending, game, slot, timer, scanVars, merge, boundVars>>

NextGame(c) == check' = [check EXCEPT ![c].pc = "games", ![c].gid = 0, ![c].file = NoPath]

\* GamesService.delete; it throws, and the check goes on, when the game is
\* already deleted.
DeleteGame(c) ==
    LET g == check[c].gid IN
    /\ check[c].pc = "delete"
    /\ game' = [game EXCEPT ![g].st = "deleted"]
    /\ NextGame(c)
    /\ UNCHANGED <<diskVars, pending, row, slot, timer, scanVars, merge, boundVars>>

\* Saves the default among the remaining versions.
PatchChecked(c) ==
    LET g == check[c].gid IN
    /\ check[c].pc = "patch"
    /\ IF FileTaken(g, check[c].file)
       THEN UNCHANGED game
       ELSE game' = [game EXCEPT ![g].file = check[c].file]
    /\ NextGame(c)
    /\ UNCHANGED <<diskVars, pending, row, slot, timer, scanVars, merge, boundVars>>

EndDebouncedCheck(c) ==
    /\ check[c].pc = "games"
    /\ check[c].todo = {}
    /\ check' = [check EXCEPT ![c] = IdleCheck]
    /\ UNCHANGED <<diskVars, pending, dbVars, slot, timer, scanVars, merge, boundVars>>

(***************************************************************************)
(* mergeDuplicateGames, the last phase of a full scan.                     *)
(***************************************************************************)

\* Active games of one title: all but the one with the smallest id are
\* duplicates of it.  An entry is <<duplicate, canonical, path of duplicate>>.
Duplicates ==
    LET IsCanonical(c) == \A g \in 1 .. c - 1 : Active(g) => game[g].title # game[c].title
        IsDuplicate(dc) == /\ dc[2] < dc[1]
                           /\ Active(dc[1]) /\ Active(dc[2])
                           /\ game[dc[1]].title = game[dc[2]].title
                           /\ IsCanonical(dc[2])
    IN  {<<dc[1], dc[2], game[dc[1]].file>> : dc \in {x \in Ids \X Ids : IsDuplicate(x)}}

BeginMerge(s) ==
    /\ scan[s].pc = "checking"
    /\ check[s].pc = "games"
    /\ check[s].todo = {}
    /\ check' = [check EXCEPT ![s] = IdleCheck]
    /\ scan' = [scan EXCEPT ![s].pc = "merging"]
    /\ merge' = [merge EXCEPT ![s] = [IdleMerge EXCEPT !.pc = "move", !.todo = Duplicates]]
    /\ UNCHANGED <<diskVars, pending, dbVars, slot, timer, inProgress, reindexed, boundVars>>

\* The games of one title are merged in the order of their ids before those of
\* the next title: the set of the next duplicate.
Current(s) == {e \in merge[s].todo : \A f \in merge[s].todo :
                  e[2] < f[2] \/ (e[2] = f[2] /\ e[1] <= f[1])}

\* moveVersionsToGame reads the active versions of the next duplicate; a game that
\* was never given version rows gets one for its own path.
FindVersions(s) ==
    /\ merge[s].pc = "move"
    /\ \E e \in Current(s) :
         LET versions == {e[1]} \X ActivePaths(e[1]) IN
         /\ merge[s].merged \subseteq {e[2]}
         /\ merge' = [merge EXCEPT ![s].versions = versions,
               ![s].pc = IF versions # {} THEN "moving"
                         ELSE IF e[3] # NoPath THEN "adding" ELSE "tombstone"]
    /\ UNCHANGED <<diskVars, pending, dbVars, slot, timer, scanVars, check, boundVars>>

\* The duplicate stays as it is by now: UNIQUE (game, file_path) made a save throw.
GiveUp(s, e) ==
    /\ merge' = [merge EXCEPT ![s].pc = "move", ![s].todo = @ \ {e}, ![s].versions = {}]
    /\ UNCHANGED <<row, slot, check>>

\* Saves one of the versions as the canonical game's, and active as it was read.
MoveVersion(s) ==
    /\ merge[s].pc = "moving"
    /\ \E e \in Current(s), v \in merge[s].versions :
         LET c == e[2] IN
         IF v[1] # c /\ row[c][v[2]] # "none"
         THEN GiveUp(s, e)
         ELSE /\ row' = [row EXCEPT ![v[1]][v[2]] = "none", ![c][v[2]] = "active"]
              /\ slot' = SlotsFollow(v[1], c, {v[2]})
              /\ check' = ChecksFollow(v[1], c, {v[2]})
              /\ merge' = [MergesFollow(v[1], c, {v[2]}) EXCEPT
                    ![s].versions = merge[s].versions \ {v},
                    ![s].pc = IF merge[s].versions = {v} THEN "tombstone" ELSE "moving"]
    /\ UNCHANGED <<diskVars, pending, game, timer, scanVars, boundVars>>

AddVersion(s) ==
    /\ merge[s].pc = "adding"
    /\ \E e \in Current(s) :
         IF row[e[2]][e[3]] # "none"
         THEN GiveUp(s, e)
         ELSE /\ row' = [row EXCEPT ![e[2]][e[3]] = "active"]
              /\ merge' = [merge EXCEPT ![s].pc = "tombstone"]
              /\ UNCHANGED <<slot, check>>
    /\ UNCHANGED <<diskVars, pending, game, timer, scanVars, boundVars>>

\* Frees the unique path of the duplicate.
Tombstone(s) ==
    /\ merge[s].pc = "tombstone"
    /\ \E e \in Current(s) : game' = [game EXCEPT ![e[1]].file = NoPath]
    /\ merge' = [merge EXCEPT ![s].pc = "delete"]
    /\ UNCHANGED <<diskVars, pending, row, slot, timer, scanVars, check, boundVars>>

\* GamesService.delete of the duplicate; it throws when it is already deleted.
DeleteDuplicate(s) ==
    /\ merge[s].pc = "delete"
    /\ \E e \in Current(s) :
         /\ game' = [game EXCEPT ![e[1]].st = "deleted"]
         /\ merge' = [merge EXCEPT ![s].pc = "move", ![s].todo = @ \ {e},
               ![s].merged = IF Active(e[1]) THEN @ \cup {e[2]} ELSE @]
    /\ UNCHANGED <<diskVars, pending, row, slot, timer, scanVars, check, boundVars>>

\* refreshDefaultVersion of a canonical game, after its last duplicate.
RefreshDefault(s) ==
    /\ merge[s].pc = "move"
    /\ \E c \in merge[s].merged :
         /\ \A e \in merge[s].todo : e[2] # c
         /\ merge' = [merge EXCEPT ![s].merged = @ \ {c}]
         /\ LET available == IF ActivePaths(c) # {} THEN ActivePaths(c) ELSE {game[c].file}
            IN IF Active(c) /\ ~FileTaken(c, Best(available))
               THEN game' = [game EXCEPT ![c].file = Best(available)]
               ELSE UNCHANGED game
    /\ UNCHANGED <<diskVars, pending, row, slot, timer, scanVars, check, boundVars>>

\* The scan is over: the finally block of indexAllFiles clears the flag.
EndScan(s) ==
    /\ scan[s].pc = "merging"
    /\ merge[s].pc = "move"
    /\ merge[s].todo = {}
    /\ merge[s].merged = {}
    /\ merge' = [merge EXCEPT ![s] = IdleMerge]
    /\ scan' = [scan EXCEPT ![s] = IdleScan]
    /\ inProgress' = FALSE
    /\ UNCHANGED <<diskVars, pending, dbVars, slot, timer, reindexed, check, boundVars>>

(***************************************************************************)
(* The process dies: the volume and the tables stay, everything in memory  *)
(* is lost.                                                                *)
(***************************************************************************)
Restart ==
    /\ restarts < MaxRestarts
    /\ restarts' = restarts + 1
    /\ pending' = [p \in Paths |-> 0]
    /\ slot' = [i \in Slots |-> IdleSlot]
    /\ timer' = FALSE
    /\ inProgress' = FALSE
    /\ scan' = [s \in Scans |-> IdleScan]
    /\ check' = [c \in Checks |-> IdleCheck]
    /\ merge' = [s \in Scans |-> IdleMerge]
    /\ UNCHANGED <<diskVars, dbVars, reindexed>>

Check(c) == AfterWalk(c) \/ ReadDangling(c) \/ CleanDangling(c) \/ CheckGame(c)
            \/ PruneVersions(c) \/ DeleteGame(c) \/ PatchChecked(c)

Merge(s) == BeginMerge(s) \/ FindVersions(s) \/ MoveVersion(s) \/ AddVersion(s)
            \/ Tombstone(s) \/ DeleteDuplicate(s) \/ RefreshDefault(s) \/ EndScan(s)

Next ==
    \/ \E p \in Paths : CopyFile(p) \/ Upload(p) \/ ChangeFile(p) \/ RemoveFile(p)
    \/ \E g \in Ids, p \in Paths : DeleteGameFile(g, p)
    \/ \E i \in Workers, p \in Paths : WatcherIndex(i, p)
    \/ \E i \in Slots : Index(i)
    \/ \E s \in Scans : Reindex(s) \/ ScheduledScan(s) \/ ScanFile(s)
                        \/ ScanCheck(s) \/ Merge(s)
    \/ \E c \in Debounces : DebouncedCheck(c) \/ EndDebouncedCheck(c)
    \/ \E c \in Checks : Check(c)
    \/ Restart

\* Everything the server has started goes on, and the cron of
\* GAMES_INDEX_INTERVAL_IN_MINUTES keeps firing.  Users, reindex requests and
\* crashes need not happen.
Fairness ==
    /\ \A i \in Workers, p \in Paths : WF_vars(WatcherIndex(i, p))
    /\ \A i \in Slots : WF_vars(Index(i))
    /\ \A s \in Scans : /\ WF_vars(ScheduledScan(s))
                        /\ WF_vars(ScanFile(s))
                        /\ WF_vars(ScanCheck(s))
                        /\ WF_vars(Merge(s))
    /\ \A c \in Debounces : WF_vars(DebouncedCheck(c)) /\ WF_vars(EndDebouncedCheck(c))
    /\ \A c \in Checks : WF_vars(Check(c))

Spec == Init /\ [][Next]_vars
FairSpec == Spec /\ Fairness

(***************************************************************************)
(* Properties.                                                             *)
(***************************************************************************)

\* A file that was never removed and that the library lists stays listed,
\* whatever scans, checks and merges run.
KeepsUntouchedFiles ==
    [][\A p \in Paths : p \in disk \ touched /\ p \in Listed => p \in Listed']_vars

\* Once the volume stops changing, the library comes to list exactly its files.
EventuallyExact == <>[](Listed = disk)

\* Games with one title end up as one game: mergeDuplicateGames leaves no
\* duplicates behind for good.
NoDuplicates == \A g, h \in Ids :
    Active(g) /\ Active(h) /\ game[g].title = game[h].title => g = h
EventuallyMerged == <>[]NoDuplicates

\* All version rows a path ever had, soft-deleted ones too, belong to one game:
\* a file that goes and comes back finds the game that carries its progress,
\* bookmarks and metadata.
OneHome ==
    \A p \in Paths, g, h \in Ids : row[g][p] # "none" /\ row[h][p] # "none" => g = h
=============================================================================

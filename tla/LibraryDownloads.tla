--------------------------- MODULE LibraryDownloads ---------------------------
(***************************************************************************)
(* The library together with requests that keep a whole game in memory for *)
(* long: FilesService.download (src/src/modules/games/files.service.ts)    *)
(* reads the game, packs it for minutes or hours, and saves all of it to   *)
(* raise download_count.  The indexer goes on meanwhile, and what it wrote *)
(* to the game is overwritten.  Map, unmap and merge of MetadataService    *)
(* save games in the same way.                                             *)
(***************************************************************************)
EXTENDS Library

CONSTANT Downloads      \* downloads of a game

VARIABLES
    held,           \* held[d]: the game as download d read it
    undisturbed     \* history: nothing but one full scan has been at work since
                    \* it started, and its walk found every file

allVars == <<vars, held, undisturbed>>

NothingHeld == [pc |-> "new", gid |-> 0, game |-> NoGame, versions |-> {}]
Served == [NothingHeld EXCEPT !.pc = "served"]

HeldType == [pc : {"new", "archiving", "served"}, gid : 0 .. MaxGames, game : GameRow,
             versions : SUBSET Paths]

HeldTypeOK ==
    /\ TypeOK
    /\ held \in [Downloads -> HeldType]
    /\ \A d \in Downloads : held[d].pc = "archiving" => held[d].gid \in Ids
    /\ undisturbed \in BOOLEAN

\* Mutant: the game is read without its id.
ReadGameOnly(d) ==
    /\ held[d].pc = "new"
    /\ \E g \in Ids :
          /\ Active(g)
          /\ held' = [held EXCEPT ![d] = [pc |-> "archiving", gid |-> 0, game |-> game[g],
                                          versions |-> ActivePaths(g)]]
    /\ UNCHANGED <<vars, undisturbed>>

\* findOneByGameIdOrFail: the row and, as an eager relation, the versions.
ReadGame(d) ==
    /\ held[d].pc = "new"
    /\ \E g \in Ids :
          /\ Active(g)
          /\ held' = [held EXCEPT ![d] = [pc |-> "archiving", gid |-> g, game |-> game[g],
                                          versions |-> ActivePaths(g)]]
    /\ UNCHANGED <<vars, undisturbed>>

\* GamesService.save writes every column that differs from the table's, file_path
\* and deleted_at included; the UNIQUE index may refuse the path.
SaveRow(d) ==
    /\ ~FileTaken(held[d].gid, held[d].game.file)
    /\ game' = [game EXCEPT ![held[d].gid] = held[d].game]

Owners(p) == {g \in Ids : row[g][p] # "none"}

\* Versions that a merge has moved to another game since they were read.
Moved(d) == {p \in held[d].versions : held[d].gid \notin Owners(p) /\ Owners(p) # {}}

\* What game h got of them goes back to the game that was read.
TakeBack(d, h) ==
    LET g == held[d].gid
        back == {p \in Moved(d) : h \in Owners(p)} IN
    /\ row' = [row EXCEPT
          ![g] = [p \in Paths |-> IF p \in back THEN row[h][p] ELSE row[g][p]],
          ![h] = [p \in Paths |-> IF p \in back THEN "none" ELSE row[h][p]]]
    /\ slot' = SlotsFollow(h, g, back)
    /\ check' = ChecksFollow(h, g, back)
    /\ merge' = MergesFollow(h, g, back)

\* The relation is saved as well.  Where it is not what the tables say by now,
\* the ORM takes moved versions back, leaves them, or fails at a version it
\* finds without a game.
SaveGame(d) ==
    /\ held[d].pc = "archiving"
    /\ held' = [held EXCEPT ![d] = Served]
    /\ undisturbed' = FALSE
    /\ \/ SaveRow(d) /\ UNCHANGED <<row, slot, check, merge>>
       \/ SaveRow(d) /\ \E h \in UNION {Owners(p) : p \in Moved(d)} : TakeBack(d, h)
       \/ /\ \/ FileTaken(held[d].gid, held[d].game.file)
             \/ ActivePaths(held[d].gid) # held[d].versions
          /\ UNCHANGED <<dbVars, slot, check, merge>>
    /\ UNCHANGED <<diskVars, pending, timer, scanVars, boundVars>>

\* One full scan is at work, and nothing else is or is about to be.
NothingElse ==
    /\ \A p \in Paths : pending[p] = 0
    /\ \A i \in Workers : slot[i].pc = "idle"
    /\ ~timer
    /\ \A c \in Debounces : check[c].pc = "idle"
    /\ \A s, t \in Scans : scan[s].pc # "idle" /\ scan[t].pc # "idle" => s = t
    /\ \A s \in Scans : scan[s].pc # "idle" => scan[s].snap = disk

\* A step of the indexer, or of the volume; a crash ends the downloads as well.
LibraryStep ==
    /\ Next
    /\ held' = IF restarts' = restarts THEN held
               ELSE [d \in Downloads |-> IF held[d].pc = "new" THEN held[d] ELSE Served]
    /\ undisturbed' =
          /\ NothingElse'
          /\ UNCHANGED <<disk, restarts>>
          /\ undisturbed \/ \A s \in Scans : scan[s].pc = "idle"

DownloadsInit ==
    /\ Init
    /\ held = [d \in Downloads |-> NothingHeld]
    /\ undisturbed = FALSE

DownloadsNext == LibraryStep \/ \E d \in Downloads : ReadGame(d) \/ SaveGame(d)

DownloadsSpec == DownloadsInit /\ [][DownloadsNext]_allVars

(***************************************************************************)
(* Properties.                                                             *)
(***************************************************************************)

\* A full scan that nothing comes between, not even another full scan, and whose
\* walk found every file leaves the library with exactly the files on the volume,
\* also when a download before it wrote back a game that had been deleted, merged
\* away or given other versions in the meantime.
ScanRepairs ==
    [][undisturbed /\ undisturbed' /\ inProgress /\ ~inProgress' => Listed' = disk]_allVars
=============================================================================

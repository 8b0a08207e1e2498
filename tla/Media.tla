-------------------------------- MODULE Media --------------------------------
(***************************************************************************)
(* Media files and the accounts and metadata that use them: MediaService   *)
(* (src/src/modules/media/media.service.ts), the collector of unused media *)
(* (src/src/modules/garbage-collection/media-garbage-collection.service.ts)*)
(* and what both do to the tables that refer to media.  A medium is its    *)
(* row; its file has a name nobody else uses.                              *)
(***************************************************************************)
EXTENDS Integers, FiniteSets

CONSTANTS
    Pictures,           \* media that are uploaded or fetched, each once
    Accounts,           \* users
    Players,            \* users with progress or other uploads
    Covers,             \* rows of game_metadata
    Collections,        \* runs of the collector
    Lookups,            \* requests that read or assign a medium
    MaxFilesLost,       \* bound: files that disappear from the volume
    MaxMediaRestarts    \* bound: restarts of the process

ASSUME MediaAssumption ==
    /\ Players \subseteq Accounts
    /\ Collections \cap Lookups = {}
    /\ MaxFilesLost \in Nat /\ MaxMediaRestarts \in Nat

VARIABLES
    rows,       \* rows of the media table
    files,      \* files in the volume
    accounts,   \* rows of the user table
    softDeleted,    \* users with deleted_at
    avatar,     \* avatar[u]: {} or {picture}, the last one once u is gone
    cover,      \* cover[c]: {} or {picture}
    upl,        \* uploads: "new", "moved" and "ended"
    gc,         \* collections
    look,       \* lookups
    restarts,
    lost,       \* history: pictures whose file disappeared
    late        \* history: users whose picture was set while it was being judged

mediaHistory == <<restarts, lost, late>>
mediaVars == <<rows, files, accounts, softDeleted, avatar, cover, upl, gc, look, mediaHistory>>
tables == <<rows, files, accounts, softDeleted, avatar, cover>>

\* all: media read; used: media found in use; doomed: rows to remove; removed:
\* pictures whose row is gone and whose file is not.
Collection == [pc : {"new", "users", "metadata", "removing", "ended"}, all : SUBSET Pictures,
               used : SUBSET Pictures, doomed : SUBSET Pictures, removed : SUBSET Pictures]
NewCollection == [pc |-> "new", all |-> {}, used |-> {}, doomed |-> {}, removed |-> {}]
EndedCollection == [NewCollection EXCEPT !.pc = "ended"]

Lookup == [pc : {"new", "found", "missing", "unlinking", "ended"},
           picture : {{}} \cup {{m} : m \in Pictures}]
NewLookup == [pc |-> "new", picture |-> {}]
EndedLookup == [NewLookup EXCEPT !.pc = "ended"]

MediaTypeOK ==
    /\ rows \subseteq Pictures /\ files \subseteq Pictures
    /\ accounts \subseteq Accounts /\ softDeleted \subseteq Accounts
    /\ avatar \in [Accounts -> {{}} \cup {{m} : m \in Pictures}]
    /\ cover \in [Covers -> {{}} \cup {{m} : m \in Pictures}]
    /\ \A u \in accounts : avatar[u] \subseteq rows
    /\ \A c \in Covers : cover[c] \subseteq rows
    /\ upl \in [Pictures -> {"new", "moved", "ended"}]
    /\ gc \in [Collections -> Collection]
    /\ look \in [Lookups -> Lookup]
    /\ lost \subseteq Pictures /\ late \subseteq Accounts
    /\ restarts \in 0 .. MaxMediaRestarts

MediaInit ==
    /\ rows = {} /\ files = {}
    /\ accounts = Accounts /\ softDeleted = {}
    /\ avatar = [u \in Accounts |-> {}]
    /\ cover = [c \in Covers |-> {}]
    /\ upl = [m \in Pictures |-> "new"]
    /\ gc = [g \in Collections |-> NewCollection]
    /\ look = [l \in Lookups |-> NewLookup]
    /\ restarts = 0 /\ lost = {} /\ late = {}

(***************************************************************************)
(* upload and downloadByUrl: the file is moved into place, then the row is *)
(* saved.  When that fails downloadByUrl removes the file; upload calls    *)
(* delete with a row that has no id, which fails before the file is removed*)
(***************************************************************************)
MoveFile(m) ==
    /\ upl[m] = "new"
    /\ files' = files \cup {m}
    /\ upl' = [upl EXCEPT ![m] = "moved"]
    /\ UNCHANGED <<rows, accounts, softDeleted, avatar, cover, gc, look, mediaHistory>>

SaveMedium(m) ==
    /\ upl[m] = "moved"
    /\ \/ rows' = rows \cup {m} /\ UNCHANGED files
       \/ files' \in {files, files \ {m}} /\ UNCHANGED rows
    /\ upl' = [upl EXCEPT ![m] = "ended"]
    /\ UNCHANGED <<accounts, softDeleted, avatar, cover, gc, look, mediaHistory>>

(***************************************************************************)
(* Foreign keys.  A user refers to its pictures with ON DELETE CASCADE, so *)
(* the user goes with the picture; metadata refers to its pictures without,*)
(* and so do progress and media to a user, which makes the statement fail. *)
(***************************************************************************)
Portrayed(m) == {u \in accounts : avatar[u] = {m}}
Removable(m) == (\A c \in Covers : cover[c] # {m}) /\ Portrayed(m) \cap Players = {}

DeleteRow(m) ==
    /\ rows' = rows \ {m}
    /\ accounts' = accounts \ Portrayed(m)
    /\ UNCHANGED <<softDeleted, avatar, cover>>

(***************************************************************************)
(* Requests that read a medium, and users and metadata that get one.       *)
(***************************************************************************)

\* findOneByMediaIdOrFail: a medium without its file is deleted.
FindMedium(l) ==
    /\ look[l].pc = "new"
    /\ \E m \in rows :
          look' = [look EXCEPT ![l] =
             [pc |-> IF m \in files THEN "found" ELSE "missing", picture |-> {m}]]
    /\ UNCHANGED <<tables, upl, gc, mediaHistory>>

\* delete; an error is logged.
DeleteMissing(l) ==
    /\ look[l].pc = "missing"
    /\ \E m \in look[l].picture :
          IF Removable(m)
          THEN DeleteRow(m) /\ look' = [look EXCEPT ![l].pc = "unlinking"]
          ELSE /\ look' = [look EXCEPT ![l] = EndedLookup]
               /\ UNCHANGED <<rows, accounts, softDeleted, avatar, cover>>
    /\ UNCHANGED <<files, upl, gc, mediaHistory>>

UnlinkMissing(l) ==
    /\ look[l].pc = "unlinking"
    /\ files' = files \ look[l].picture
    /\ look' = [look EXCEPT ![l] = EndedLookup]
    /\ UNCHANGED <<rows, accounts, softDeleted, avatar, cover, upl, gc, mediaHistory>>

\* History: a collection that has read the users will not notice.
BeingJudged(m) == \E g \in Collections : m \in gc[g].all /\ gc[g].pc \in {"metadata", "removing"}

\* UsersService.update sets the avatar.  The save fails if the medium is gone or
\* another user has it (UNIQUE).
SetAvatar(l, u) ==
    /\ look[l].pc = "found"
    /\ u \in accounts \ softDeleted
    /\ look' = [look EXCEPT ![l] = EndedLookup]
    /\ IF look[l].picture \subseteq rows /\ \A v \in accounts \ {u} : avatar[v] # look[l].picture
       THEN /\ avatar' = [avatar EXCEPT ![u] = look[l].picture]
            /\ late' = IF \E m \in look[l].picture : BeingJudged(m) THEN late \cup {u} ELSE late
       ELSE UNCHANGED <<avatar, late>>
    /\ UNCHANGED <<rows, files, accounts, softDeleted, cover, upl, gc, restarts, lost>>

\* Metadata is saved with a cover; the foreign key wants it to be there.
SetCover(l, c) ==
    /\ look[l].pc = "found"
    /\ look' = [look EXCEPT ![l] = EndedLookup]
    /\ cover' = IF look[l].picture \subseteq rows THEN [cover EXCEPT ![c] = look[l].picture]
                ELSE cover
    /\ UNCHANGED <<rows, files, accounts, softDeleted, avatar, upl, gc, mediaHistory>>

\* Merged metadata is replaced or deleted.
DropCover(c) ==
    /\ cover[c] # {}
    /\ cover' = [cover EXCEPT ![c] = {}]
    /\ UNCHANGED <<rows, files, accounts, softDeleted, avatar, upl, gc, look, mediaHistory>>

\* Users are soft-deleted with their pictures.
SoftDeleteAccount(u) ==
    /\ u \in accounts \ softDeleted
    /\ softDeleted' = softDeleted \cup {u}
    /\ UNCHANGED <<rows, files, accounts, avatar, cover, upl, gc, look, mediaHistory>>

(***************************************************************************)
(* garbageCollectUnusedMedia, by schedule and at the boot; nothing keeps   *)
(* two runs apart.                                                         *)
(***************************************************************************)
ReadMedia(g) ==
    /\ gc[g].pc = "new"
    /\ gc' = [gc EXCEPT ![g].pc = "users", ![g].all = rows]
    /\ UNCHANGED <<tables, upl, look, mediaHistory>>

\* Mutant: deleted users are left out.
UsedByPresentUsers == UNION {avatar[u] : u \in accounts \ softDeleted}
UsedByUsers == UNION {avatar[u] : u \in accounts}
UsedByMetadata == UNION {cover[c] : c \in Covers}

ReadUsers(g) ==
    /\ gc[g].pc = "users"
    /\ gc' = [gc EXCEPT ![g].pc = "metadata", ![g].used = UsedByUsers]
    /\ UNCHANGED <<tables, upl, look, mediaHistory>>

\* removeUnusedMediaFromDB starts with what neither uses.
ReadMetadata(g) ==
    LET used == gc[g].used \cup UsedByMetadata IN
    /\ gc[g].pc = "metadata"
    /\ gc' = [gc EXCEPT ![g].pc = "removing", ![g].used = used,
                        ![g].doomed = gc[g].all \ used]
    /\ UNCHANGED <<tables, upl, look, mediaHistory>>

\* Mutant: the file goes first.
CollectFileFirst(g) ==
    /\ gc[g].pc = "removing"
    /\ \E m \in gc[g].doomed :
          /\ files' = files \ {m}
          /\ gc' = [gc EXCEPT ![g].doomed = @ \ {m}, ![g].removed = @ \cup {m}]
    /\ UNCHANGED <<rows, accounts, softDeleted, avatar, cover, upl, look, mediaHistory>>

\* delete runs for all of them at once: the row first, then the file.
CollectRow(g) ==
    /\ gc[g].pc = "removing"
    /\ \E m \in gc[g].doomed :
          /\ IF Removable(m) THEN DeleteRow(m)
             ELSE UNCHANGED <<rows, accounts, softDeleted, avatar, cover>>
          /\ gc' = [gc EXCEPT ![g].doomed = @ \ {m},
                       ![g].removed = IF Removable(m) THEN @ \cup {m} ELSE @]
    /\ UNCHANGED <<files, upl, look, mediaHistory>>

CollectFile(g) ==
    /\ gc[g].pc = "removing"
    /\ \E m \in gc[g].removed :
          /\ files' = files \ {m}
          /\ gc' = [gc EXCEPT ![g].removed = @ \ {m}]
    /\ UNCHANGED <<rows, accounts, softDeleted, avatar, cover, upl, look, mediaHistory>>

\* A file name starts with a UUID of 36 characters; 35 of them are looked at.
LooksLikeMedium == 35 = 36

\* removeUnusedMediaFromFileSystem, when all rows are done.
CollectFiles(g) ==
    /\ gc[g].pc = "removing" /\ gc[g].doomed = {} /\ gc[g].removed = {}
    /\ files' = IF LooksLikeMedium THEN files \cap gc[g].used ELSE files
    /\ gc' = [gc EXCEPT ![g] = EndedCollection]
    /\ UNCHANGED <<rows, accounts, softDeleted, avatar, cover, upl, look, mediaHistory>>

(***************************************************************************)
(* The volume, and the process.                                            *)
(***************************************************************************)
LoseFile(m) ==
    /\ Cardinality(lost) < MaxFilesLost
    /\ m \in files \cap rows
    /\ files' = files \ {m}
    /\ lost' = lost \cup {m}
    /\ UNCHANGED <<rows, accounts, softDeleted, avatar, cover, upl, gc, look, restarts, late>>

RestartMedia ==
    /\ restarts < MaxMediaRestarts
    /\ restarts' = restarts + 1
    /\ upl' = [m \in Pictures |-> IF upl[m] = "new" THEN "new" ELSE "ended"]
    /\ gc' = [g \in Collections |-> IF gc[g].pc = "new" THEN gc[g] ELSE EndedCollection]
    /\ look' = [l \in Lookups |-> IF look[l].pc = "new" THEN look[l] ELSE EndedLookup]
    /\ UNCHANGED <<tables, lost, late>>

MediaNext ==
    \/ RestartMedia
    \/ \E m \in Pictures : MoveFile(m) \/ SaveMedium(m) \/ LoseFile(m)
    \/ \E l \in Lookups : \/ FindMedium(l) \/ DeleteMissing(l) \/ UnlinkMissing(l)
                          \/ \E u \in Accounts : SetAvatar(l, u)
                          \/ \E c \in Covers : SetCover(l, c)
    \/ \E c \in Covers : DropCover(c)
    \/ \E u \in Accounts : SoftDeleteAccount(u)
    \/ \E g \in Collections :
          \/ ReadMedia(g) \/ ReadUsers(g) \/ ReadMetadata(g)
          \/ CollectRow(g) \/ CollectFile(g) \/ CollectFiles(g)

MediaSpec == MediaInit /\ [][MediaNext]_mediaVars

(***************************************************************************)
(* Properties.                                                             *)
(***************************************************************************)

\* A row in the table has its file, whatever uploads, deletions, two collectors
\* and a restart do, as long as nobody takes the file from the volume.
RowsHaveFiles == rows \subseteq files \cup lost

\* A user whose picture was in place before the collector read the users, and
\* whose file did not disappear, keeps the account, soft-deleted or not.
AccountsOutliveCollections ==
    \A u \in Accounts \ (accounts \cup late) : avatar[u] \subseteq lost

\* The collector removes media nobody uses, and nothing else: no account goes.
AccountsSurvive == accounts = Accounts
=============================================================================

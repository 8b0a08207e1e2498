---------------------------- MODULE DatabaseRestore ----------------------------
(***************************************************************************)
(* Backup and restore of the database: DatabaseService                     *)
(* (src/src/modules/database/database.service.ts), for PostgreSQL, where   *)
(* dump, drop, create and load are commands of their own, and for SQLite,  *)
(* where files are copied while the server is disconnected.  Any step may  *)
(* fail; no lock keeps two requests of administrators apart.               *)
(***************************************************************************)
EXTENDS Integers, FiniteSets

CONSTANTS
    Restores,       \* POST /admin/database/restore, each with a dump of its own
    Backups,        \* GET /admin/database/backup
    MaxFaults       \* bound: steps that fail

DatabaseRequests == Restores \cup Backups

\* What a database or a backup file may hold besides the dump of a restore.
Original == "original"
Absent == "absent"
Empty == "empty"        \* created, or loaded with nothing
Part == "part"          \* loaded or dumped in part
Held == {Original, Absent, Empty, Part} \cup Restores

ASSUME DatabaseRestoreAssumption ==
    /\ Restores \cap Backups = {}
    /\ Restores \cap {Original, Absent, Empty, Part} = {}
    /\ MaxFaults \in Nat

VARIABLES
    system,     \* DB_SYSTEM
    database,   \* what the database holds
    dbConnected,  \* the data source is initialised
    task,       \* stage of every request
    preRestore, \* preRestore[r]: database_pre_restore.db in its directory
    before,     \* history: what the database held when a request began
    rejects,    \* the request will end with an error
    faults,     \* stages that have failed
    together    \* history: two requests have been at work at the same time

restoreVars == <<system, database, dbConnected, task, preRestore,
                 before, rejects, faults, together>>

Tasks == {"idle", "closing", "dumping", "dropping", "creating", "loading", "saving", "copying",
          "checking", "redropping", "recreating", "reloading", "returning", "cleaning",
          "connecting", "migrating", "ended"}
AtWork(r) == task[r] \notin {"idle", "ended"}

RestoreInit ==
    /\ system \in {"POSTGRESQL", "SQLITE"}
    /\ database = Original /\ dbConnected = TRUE
    /\ task = [r \in DatabaseRequests |-> "idle"]
    /\ preRestore = [r \in DatabaseRequests |-> Absent]
    /\ before = [r \in DatabaseRequests |-> Absent]
    /\ rejects = [r \in DatabaseRequests |-> FALSE]
    /\ faults = {} /\ together = FALSE

TaskGoto(r, stage) == task' = [task EXCEPT ![r] = stage]
Faulty(r) == Cardinality(faults) < MaxFaults /\ faults' = faults \cup {task[r]}
Reject(r) == rejects' = [rejects EXCEPT ![r] = TRUE]

\* backup and restore, once the password has been compared
StartRequest(r) ==
    /\ task[r] = "idle"
    /\ TaskGoto(r, IF system = "SQLITE" THEN "closing" ELSE "dumping")
    /\ before' = [before EXCEPT ![r] = database]
    /\ together' = (together \/ \E q \in DatabaseRequests \ {r} : AtWork(q))
    /\ UNCHANGED <<system, database, dbConnected, preRestore, rejects, faults>>

(***************************************************************************)
(* PostgreSQL: restorePostgresql.                                          *)
(***************************************************************************)

\* pg_dump creates its file before it fills it.  A backup is answered with it.
Dump(r) ==
    /\ task[r] = "dumping"
    /\ \/ /\ database # Absent
          /\ preRestore' = [preRestore EXCEPT ![r] = database]
          /\ TaskGoto(r, IF r \in Restores THEN "dropping" ELSE "ended")
          /\ UNCHANGED <<faults, rejects>>
       \/ /\ Faulty(r) \/ (database = Absent /\ UNCHANGED faults)
          /\ \E left \in {Absent, Part} : preRestore' = [preRestore EXCEPT ![r] = left]
          /\ TaskGoto(r, IF r \in Restores THEN "checking" ELSE "ended")
          /\ IF r \in Restores THEN UNCHANGED rejects ELSE Reject(r)
    /\ UNCHANGED <<system, database, dbConnected, before, together>>

\* dropdb --if-exists -f
Drop(r) ==
    /\ task[r] \in {"dropping", "redropping"}
    /\ \/ /\ database' = Absent
          /\ TaskGoto(r, IF task[r] = "dropping" THEN "creating" ELSE "recreating")
          /\ UNCHANGED <<faults, rejects>>
       \/ /\ Faulty(r)
          /\ IF task[r] = "dropping" THEN TaskGoto(r, "checking") /\ UNCHANGED rejects
             ELSE TaskGoto(r, "cleaning") /\ Reject(r)
          /\ UNCHANGED database
    /\ UNCHANGED <<system, dbConnected, preRestore, before, together>>

\* createdb, which fails if the database exists
Create(r) ==
    /\ task[r] \in {"creating", "recreating"}
    /\ \/ /\ database = Absent
          /\ database' = Empty
          /\ TaskGoto(r, IF task[r] = "creating" THEN "loading" ELSE "reloading")
          /\ UNCHANGED <<faults, rejects>>
       \/ /\ Faulty(r) \/ (database # Absent /\ UNCHANGED faults)
          /\ IF task[r] = "creating" THEN TaskGoto(r, "checking") /\ UNCHANGED rejects
             ELSE TaskGoto(r, "cleaning") /\ Reject(r)
          /\ UNCHANGED database
    /\ UNCHANGED <<system, dbConnected, preRestore, before, together>>

\* pg_restore of the uploaded dump, which may be none; what goes wrong is logged, and no more.
LoadDump(r) ==
    /\ task[r] = "loading"
    /\ \/ /\ database' = IF database = Empty THEN r ELSE Part
          /\ UNCHANGED faults
       \/ Faulty(r) /\ database' \in {database, Part}
    /\ TaskGoto(r, "cleaning")
    /\ UNCHANGED <<system, dbConnected, preRestore, before, rejects, together>>

\* Mutant: only SQLite looks for the pre-restore file.
CheckNothing(r) ==
    /\ task[r] = "checking"
    /\ TaskGoto(r, IF system = "SQLITE" /\ preRestore[r] # Absent THEN "returning" ELSE "cleaning")
    /\ UNCHANGED <<system, database, dbConnected, preRestore, before, rejects, faults, together>>

\* The handler of both systems: is there a pre-restore file?
CheckPreRestore(r) ==
    /\ task[r] = "checking"
    /\ TaskGoto(r, IF preRestore[r] = Absent THEN "cleaning"
                   ELSE IF system = "SQLITE" THEN "returning" ELSE "redropping")
    /\ UNCHANGED <<system, database, dbConnected, preRestore, before, rejects, faults, together>>

\* pg_restore of the pre-restore file; this failure is thrown.
Reload(r) ==
    /\ task[r] = "reloading"
    /\ \/ /\ preRestore[r] # Part
          /\ database' = IF database = Empty THEN preRestore[r] ELSE Part
          /\ UNCHANGED <<faults, rejects>>
       \/ /\ Faulty(r) \/ (preRestore[r] = Part /\ UNCHANGED faults)
          /\ database' \in {database, Part}
          /\ Reject(r)
    /\ TaskGoto(r, "cleaning")
    /\ UNCHANGED <<system, dbConnected, preRestore, before, together>>

(***************************************************************************)
(* SQLite: disconnect, restoreSqlite or backupSqlite, connect.             *)
(***************************************************************************)

\* Mutant: disconnect is called in the try, so that a request that is turned away
\* connects again.
CloseInTry(r) ==
    /\ task[r] = "closing"
    /\ IF dbConnected
       THEN /\ dbConnected' = FALSE
            /\ TaskGoto(r, "saving")
            /\ UNCHANGED rejects
       ELSE TaskGoto(r, "connecting") /\ Reject(r) /\ UNCHANGED dbConnected
    /\ UNCHANGED <<system, database, preRestore, before, faults, together>>

\* destroy throws if the data source is not initialised.
Close(r) ==
    /\ task[r] = "closing"
    /\ IF dbConnected
       THEN /\ dbConnected' = FALSE
            /\ TaskGoto(r, "saving")
            /\ UNCHANGED rejects
       ELSE TaskGoto(r, "ended") /\ Reject(r) /\ UNCHANGED dbConnected
    /\ UNCHANGED <<system, database, preRestore, before, faults, together>>

\* backupSqlite; copyFile removes its target when it fails.  A restore makes none
\* if there is no database.
SaveCopy(r) ==
    /\ task[r] = "saving"
    /\ \/ /\ preRestore' = [preRestore EXCEPT ![r] = database]
          /\ TaskGoto(r, IF r \in Restores THEN "copying" ELSE "connecting")
          /\ r \in Backups => database # Absent
          /\ UNCHANGED <<faults, rejects>>
       \/ /\ Faulty(r) \/ (r \in Backups /\ database = Absent /\ UNCHANGED faults)
          /\ TaskGoto(r, IF r \in Restores THEN "checking" ELSE "connecting")
          /\ IF r \in Restores THEN UNCHANGED rejects ELSE Reject(r)
          /\ UNCHANGED preRestore
    /\ UNCHANGED <<system, database, dbConnected, before, together>>

CopyDump(r) ==
    /\ task[r] = "copying"
    /\ \/ database' = r /\ TaskGoto(r, "cleaning") /\ UNCHANGED faults
       \/ Faulty(r) /\ database' = Absent /\ TaskGoto(r, "checking")
    /\ UNCHANGED <<system, dbConnected, preRestore, before, rejects, together>>

PutBack(r) ==
    /\ task[r] = "returning"
    /\ \/ database' = preRestore[r] /\ UNCHANGED <<faults, rejects>>
       \/ Faulty(r) /\ database' = Absent /\ Reject(r)
    /\ TaskGoto(r, "cleaning")
    /\ UNCHANGED <<system, dbConnected, preRestore, before, together>>

\* initialize throws if the data source is, and may fail; without a database file
\* it makes an empty one.
Connect(r) ==
    /\ task[r] = "connecting"
    /\ \/ /\ ~dbConnected
          /\ dbConnected' = TRUE
          /\ database' = IF database = Absent THEN Empty ELSE database
          /\ TaskGoto(r, IF r \in Restores /\ ~rejects[r] THEN "migrating" ELSE "ended")
          /\ UNCHANGED <<faults, rejects>>
       \/ /\ Faulty(r) \/ (dbConnected /\ UNCHANGED faults)
          /\ TaskGoto(r, "ended") /\ Reject(r)
          /\ UNCHANGED <<dbConnected, database>>
    /\ UNCHANGED <<system, preRestore, before, together>>

(***************************************************************************)
(* The end of both.                                                        *)
(***************************************************************************)

\* The finally removes the directory with the pre-restore file, always.
Clean(r) ==
    /\ task[r] = "cleaning"
    /\ preRestore' = [preRestore EXCEPT ![r] = Absent]
    /\ TaskGoto(r, IF system = "SQLITE" THEN "connecting"
                   ELSE IF rejects[r] THEN "ended" ELSE "migrating")
    /\ UNCHANGED <<system, database, dbConnected, before, rejects, faults, together>>

\* runMigrations
Migrate(r) ==
    /\ task[r] = "migrating"
    /\ TaskGoto(r, "ended")
    /\ \/ dbConnected /\ database # Absent /\ UNCHANGED <<rejects, faults>>
       \/ Faulty(r) /\ Reject(r)
       \/ (~dbConnected \/ database = Absent) /\ Reject(r) /\ UNCHANGED faults
    /\ UNCHANGED <<system, database, dbConnected, preRestore, before, together>>

RestoreNext == \E r \in DatabaseRequests :
    \/ StartRequest(r) \/ Dump(r) \/ Drop(r) \/ Create(r) \/ LoadDump(r) \/ CheckPreRestore(r)
    \/ Reload(r) \/ Close(r) \/ SaveCopy(r) \/ CopyDump(r) \/ PutBack(r) \/ Connect(r)
    \/ Clean(r) \/ Migrate(r)

RestoreSpec == RestoreInit /\ [][RestoreNext]_restoreVars

(***************************************************************************)
(* Properties                                                              *)
(***************************************************************************)

\* The shape of the state; PostgreSQL stays connected.
RestoreTypeOK ==
    /\ system \in {"POSTGRESQL", "SQLITE"}
    /\ database \in Held
    /\ dbConnected \in BOOLEAN /\ (system = "POSTGRESQL" => dbConnected)
    /\ task \in [DatabaseRequests -> Tasks]
    /\ preRestore \in [DatabaseRequests -> Held] /\ before \in [DatabaseRequests -> Held]
    /\ rejects \in [DatabaseRequests -> BOOLEAN]
    /\ faults \subseteq Tasks /\ together \in BOOLEAN

\* The files of SQLite are copied by one request at a time, and never under a data
\* source that is open: destroy turns the others away before they connect again.
CopiedWhileClosed ==
    system = "SQLITE" =>
        \A r \in DatabaseRequests : task[r] \in {"saving", "copying", "checking", "returning"} =>
            ~dbConnected /\ \A q \in DatabaseRequests \ {r} :
                             task[q] \notin {"saving", "copying", "checking", "returning"}

\* One failure, unless it is that of pg_dump or pg_restore, leaves the uploaded
\* data or those of before, as long as restores come one at a time.
RestoredOrPutBack ==
    /\ ~together /\ \A r \in DatabaseRequests : ~AtWork(r)
    /\ Cardinality(faults) <= 1 /\ faults \cap {"dumping", "loading"} = {}
    => database \in {Original} \cup Restores

\* A restore that could not bring back the database of before, and says "Please
\* restore the backup manually" (database.service.ts:213), has left the backup to
\* do it with.  It has not: the finally removes it.
ManualRestoreIsPossible ==
    system = "POSTGRESQL" /\ ~together =>
        \A r \in Restores : task[r] = "ended" /\ rejects[r] /\ "migrating" \notin faults =>
            before[r] \in {database, preRestore[r]}
=============================================================================

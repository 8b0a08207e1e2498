------------------------------- MODULE Schema -------------------------------
(***************************************************************************)
(* The database schema over the life of an installation                    *)
(* (src/src/modules/database/db_configuration.ts, migrations/ and the        *)
(* entities): a release is installed, migrates the database when it starts,  *)
(* is used, is stopped, and a newer one is installed over it; a migration   *)
(* can also be reverted by hand.                                           *)
(*                                                                         *)
(* All pending migrations run in one transaction, so a start that fails or  *)
(* is interrupted leaves the schema as it was.  The schema is the value of   *)
(* `schema`, what every migration does to it is in PostgresMigrations and   *)
(* SqliteMigrations.                                                       *)
(***************************************************************************)
EXTENDS Entities

CONSTANTS
  \* The databases the server can be configured with (DB_SYSTEM)
  Dialects,
  \* The releases an installation passes through, each as the number of
  \* migrations it ships
  Releases

Postgres == INSTANCE PostgresMigrations
Sqlite   == INSTANCE SqliteMigrations

\* The number of migrations: 1..20 lead to V12, 21 is V13.
V13    == 21
Latest == 27

ASSUME SchemaAssumption ==
  Dialects \subseteq {"POSTGRESQL", "SQLITE"} /\ Releases \subseteq 1 .. Latest

Up(d)   == IF d = "SQLITE" THEN Sqlite!Up ELSE Postgres!Up
Down(d) == IF d = "SQLITE" THEN Sqlite!Down ELSE Postgres!Down

\* Every migration is a list of the statements SchemaOperations knows, for
\* the number of every migration, and for those that are reverted.
Statement(s) ==
  s.op \in {"create", "rename", "renameColumns", "drop", "alter", "generate", "derive", "insert",
            "entities", "refuse"}
Migration(m) == Len(m) \in Nat /\ \A i \in 1 .. Len(m) : Statement(m[i])

ASSUME MigrationsAreLists ==
  \A d \in {"POSTGRESQL", "SQLITE"} :
    /\ \A n \in 1 .. Latest : Migration(Up(d)[n])
    /\ \A n \in V13 .. Latest : Migration(Down(d)[n])

VARIABLES
  dialect,    \* the configured database
  known,      \* the migrations of the installed release
  applied,    \* the migrations the database has gone through
  schema,     \* the schema, see SchemaOperations
  obstacles,  \* what a migration finds in its way
  server      \* "stopped", "running", or "failed" to start

schemaVars == <<dialect, known, applied, schema, obstacles, server>>

\* The columns TypeORM names when a migration uses an entity.  Only the
\* latest release's entities are here: older releases get those of V12.
Expected(release) ==
  IF release < Latest THEN Legacy
  ELSE [e \in DOMAIN Legacy \cup DOMAIN Current |->
          IF e \in DOMAIN Legacy THEN Legacy[e] ELSE Current[e].columns]

Setting == [obstacles |-> obstacles \cup {"never_undone"}, expected |-> Expected(known)]

\* The schemas the migrations `first` to `last` can turn `s` into: one,
\* or none.
Migrated(migrations, first, last, s, setting) ==
  LET after[n \in 0 .. last] ==
        IF n < first THEN {s}
        ELSE UNION {Executed(migrations[n], t, setting) : t \in after[n - 1]}
  IN  after[last]

Upgraded == Migrated(Up(dialect), applied + 1, known, schema, Setting)

SchemaInit ==
  /\ dialect \in Dialects
  /\ known \in Releases
  /\ applied = 0
  /\ schema = Nothing
  /\ obstacles = {}
  /\ server = "stopped"

(***************************************************************************)
(* The server starts: TypeORM runs the pending migrations before anything   *)
(* else, and the server only comes up when they all went through.           *)
(***************************************************************************)
Start ==
  /\ server # "running"
  /\ schema' \in Upgraded
  /\ applied' = known
  /\ server' = "running"
  /\ UNCHANGED <<dialect, known, obstacles>>

StartFails ==
  /\ server # "running"
  /\ Upgraded = {}
  /\ server' = "failed"
  /\ UNCHANGED <<dialect, known, applied, schema, obstacles>>

\* The tables the server never writes to: SQLite's leftovers of V12, and a
\* junction that is no relation of any entity.
Leftovers ==
  DOMAIN Sqlite!V12Junctions \cup {"game_metadata_gamevault_games_gamevault_game"}

AccountTables == {"crackpipe_user", "gamevault_user"}

\* Rows with a value in every column.
Filled(t) == [t EXCEPT !.rows = TRUE, !.data = [c \in DOMAIN @ |-> "stored"]]

Use ==
  /\ server = "running"
  /\ \E used \in {AccountTables, DOMAIN schema \ Leftovers} :
       schema' = [name \in DOMAIN schema |->
                   IF name \in used THEN Filled(schema[name]) ELSE schema[name]]
  /\ UNCHANGED <<dialect, known, applied, obstacles, server>>

Stop ==
  /\ server = "running"
  /\ server' = "stopped"
  /\ UNCHANGED <<dialect, known, applied, schema, obstacles>>

Install ==
  /\ server # "running"
  /\ known' \in {release \in Releases : release > known}
  /\ UNCHANGED <<dialect, applied, schema, obstacles, server>>

\* Accounts whose names differ only in case could be registered until the
\* migration that refuses them.
CaseConflictArises ==
  /\ server = "running"
  /\ applied < 11
  /\ obstacles' = obstacles \cup {"case_conflict"}
  /\ UNCHANGED <<dialect, known, applied, schema, server>>

\* V13 refuses to run while the volume of V12's images is mounted.
VolumeMounted ==
  /\ server # "running"
  /\ obstacles' = obstacles \cup {"images_mounted"}
  /\ server' = "stopped"
  /\ UNCHANGED <<dialect, known, applied, schema>>

ObstacleRemoved ==
  /\ server # "running"
  /\ \E obstacle \in obstacles : obstacles' = obstacles \ {obstacle}
  /\ server' = "stopped"
  /\ UNCHANGED <<dialect, known, applied, schema>>

\* migration:revert, for the migrations from V13 on, with the server down.
Revert ==
  /\ server # "running"
  /\ applied >= V13
  /\ applied <= known
  /\ schema' \in Executed(Down(dialect)[applied], schema, Setting)
  /\ applied' = applied - 1
  /\ UNCHANGED <<dialect, known, obstacles, server>>

SchemaNext ==
  \/ Start \/ StartFails \/ Use \/ Stop \/ Install
  \/ CaseConflictArises \/ VolumeMounted \/ ObstacleRemoved \/ Revert

SchemaSpec == SchemaInit /\ [][SchemaNext]_schemaVars
-----------------------------------------------------------------------------
(***************************************************************************)
(* Properties                                                              *)
(***************************************************************************)

\* Type invariant: no schema is ahead of the installed release, the server
\* runs on exactly the schema of its release, and no table keeps a key or a
\* reference on a column that is gone.
SchemaTypeOK ==
  /\ dialect \in Dialects
  /\ known \in Releases
  /\ applied \in 0 .. known
  /\ server \in {"stopped", "running", "failed"}
  /\ server = "running" => applied = known
  /\ obstacles \subseteq {"case_conflict", "images_mounted"}
  /\ \A name \in DOMAIN schema :
       LET t == schema[name]
       IN  t.required \cup DOMAIN t.refs \cup UNION t.unique \subseteq Columns(t)

MatchesEntities(s) ==
  /\ \A e \in DOMAIN Current :
       /\ e \in DOMAIN s
       /\ Columns(s[e]) = Current[e].columns
       /\ s[e].required = Current[e].required
       /\ s[e].unique = Current[e].unique
       /\ s[e].refs = Current[e].refs
  /\ \A j \in DOMAIN Junctions :
       /\ j \in DOMAIN s
       /\ Columns(s[j]) = DOMAIN Junctions[j]
       /\ DOMAIN s[j].refs = DOMAIN Junctions[j]
       /\ \A c \in DOMAIN Junctions[j] : s[j].refs[c][1] = Junctions[j][c]
  /\ DOMAIN s \subseteq DOMAIN Current \cup DOMAIN Junctions \cup Leftovers

ReferencesHold(s) ==
  \A name \in DOMAIN s \ Leftovers :
    \A c \in DOMAIN s[name].refs : s[name].refs[c][1] \in DOMAIN s

\* What every release's migrations build in the end is what the entities of
\* the latest release expect, in both dialects: every table with exactly its
\* columns, the same of them NOT NULL, exactly the declared unique keys, every
\* relation referencing its table with the declared ON DELETE rule.
FitsEntities == applied = Latest => MatchesEntities(schema)

\* No table the server uses references one that is gone: SQLite's
\* migrations rebuild tables with foreign keys off, where nothing would
\* complain before the first insert.
ReferencesExist == ReferencesHold(schema)

\* The schemas the first n migrations build on an empty database: one, or none.
FreshSetting       == [obstacles |-> {"never_undone"}, expected |-> Legacy]
FreshSchemas(d, n) == Migrated(Up(d), 1, n, Nothing, FreshSetting)

\* What of a schema does not depend on the stored rows.
Shape(s) ==
  [name \in DOMAIN s |-> [s[name] EXCEPT !.data = DOMAIN @, !.rows = FALSE]]

FreshShapes ==
  [d \in Dialects |-> [n \in 0 .. Latest |-> {Shape(s) : s \in FreshSchemas(d, n)}]]

\* However an installation got to a number of migrations, in how many
\* upgrades, with what stored, with migrations undone and done again, it has
\* the schema a fresh installation of that number has.
SchemaFollowsMigrations == Shape(schema) \in FreshShapes[dialect][applied]

\* The databases on which the migrations do, from an empty schema, what they
\* are for.
SoundDialects ==
  {d \in Dialects :
    /\ \A s \in FreshSchemas(d, Latest) : MatchesEntities(s)
    /\ \A n \in 0 .. Latest : \A s \in FreshSchemas(d, n) : ReferencesHold(s)
    /\ \A n \in V13 .. Latest : \A s \in FreshSchemas(d, n) :
         \A t \in Executed(Down(d)[n], s, FreshSetting) :
           \E u \in FreshSchemas(d, n - 1) : Shape(t) = Shape(u)}

\* What the theorems about the schema take from TLC: it holds of every database.
SoundMigrations == Dialects \subseteq SoundDialects

\* On an empty database the migrations build what the entities expect, no
\* release leaves a dangling reference behind, and undoing a migration ends
\* with the schema there was before it, on the database that is configured.
FreshInstallationsFit == dialect \in SoundDialects

\* What the releases up to V12 already kept of what users stored: for each kind of
\* thing, the tables it is in over time and the names of each column over time.
KeptColumns ==
  LET named(columns) == {{c} : c \in columns}
  IN  [accounts |->
         [tables |-> AccountTables,
          columns |-> named(Base \cup {"username", "password", "email", "first_name", "last_name",
                                       "activated", "role"})
                        \cup {{"profile_picture_id", "avatar_id"},
                              {"background_image_id", "background_id"},
                              {"socket_secret", "api_key"}}],
       games |->
         [tables |-> {"game", "gamevault_game"},
          columns |-> named(Base \cup {"title", "file_path", "size", "version", "release_date",
                                       "early_access", "type"})],
       progresses |->
         [tables |-> {"progress"},
          columns |-> named(V12Progress)],
       bookmarks |->
         [tables |-> {"bookmark"},
          columns |-> {{"gamevault_user_id"}, {"game_id", "gamevault_game_id"}}],
       images |->
         [tables |-> {"image", "media"},
          columns |-> named(Base \cup {"uploader_id"})
                        \cup {{"path", "file_path"}, {"source", "source_url"},
                              {"media_type", "type"}}]]

Keeps(kind, names, s) ==
  \E name \in kind.tables \cap DOMAIN s :
    /\ s[name].rows
    /\ \E c \in names \cap Columns(s[name]) : s[name].data[c] = "stored"

\* What V13 gives up: who uploaded an image, for the relation is not loaded with the
\* images, and on SQLite the socket secret of an account, which the copies it makes
\* of the accounts leave out, so that a new one is generated.
GivenUp(kind, names) ==
  /\ applied < V13 /\ V13 <= applied'
  /\ \/ kind = "images" /\ "uploader_id" \in names
     \/ kind = "accounts" /\ "socket_secret" \in names /\ dialect = "SQLITE"


\* A release that finds none of the obstacles its migrations check for
\* starts, whatever older release the database is from.
UpgradeFinishes == server = "failed" => obstacles # {}
=============================================================================

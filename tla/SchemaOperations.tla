------------------------- MODULE SchemaOperations -------------------------
(***************************************************************************)
(* What one statement of a database migration does to the schema, and to   *)
(* what is stored in it (src/src/modules/database/migrations).  A          *)
(* migration is a sequence of statements, each an SQL query or a call of    *)
(* TypeORM's query runner; here it is a sequence of the records below, and  *)
(* Executed runs it.  A statement the database refuses makes the migration  *)
(* throw, and the transaction around it is rolled back.                     *)
(*                                                                         *)
(* A table is a record:                                                    *)
(*   data      column -> where the values in it come from: "stored", what   *)
(*             the server's users and scans wrote; "generated", made up     *)
(*             by a migration; "empty", NULL or a declared default          *)
(*   required  the columns that are NOT NULL                               *)
(*   unique    the sets of columns with a UNIQUE constraint or index       *)
(*   refs      column -> the table it references and the ON DELETE rule    *)
(*   indexes   the columns of the plain indexes (followed for "session"    *)
(*             only: no other migration trips over one)                     *)
(*   rows      whether anything is stored in the table                     *)
(*                                                                         *)
(* SQLite cannot alter a constraint, so its migrations copy the whole       *)
(* table into a temporary one of the new shape and rename that: the copy   *)
(* is one statement here, the change of shape it makes.                    *)
(***************************************************************************)
EXTENDS Naturals, Sequences, FiniteSets

Columns(table) == DOMAIN table.data

\* The columns every entity has (DatabaseEntity, database.entity.ts).
BaseRequired == {"id", "created_at", "updated_at", "entity_version"}
BaseOptional == {"deleted_at"}
Base         == BaseRequired \cup BaseOptional

\* ON DELETE rules
Cascade(table)  == <<table, "CASCADE">>
SetNull(table)  == <<table, "SET NULL">>
NoAction(table) == <<table, "NO ACTION">>

(***************************************************************************)
(* Statements.  Most take the set of tables they are repeated for, or a     *)
(* record with a field per table.                                          *)
(***************************************************************************)
CreateTables(names, required, optional, unique) ==
  [op |-> "create",
   tables |-> [name \in names |-> [required |-> required, columns |-> required \cup optional,
                                   unique |-> unique]]]

\* CREATE TABLE of entities: the base columns come with them.
CreateEntities(names, required, optional, unique) ==
  CreateTables(names, BaseRequired \cup required, BaseOptional \cup optional, unique)

\* Junction tables: two columns each, both the primary key.
CreateJunctions(pairs) ==
  [op |-> "create",
   tables |-> [name \in DOMAIN pairs |-> [required |-> pairs[name], columns |-> pairs[name],
                                          unique |-> {}]]]

RenameTables(new) == [op |-> "rename", new |-> new]

RenameColumns(name, new) == [op |-> "renameColumns", name |-> name, new |-> new]

\* DROP TABLE IF EXISTS
DropTables(names) == [op |-> "drop", names |-> names]

\* One ALTER TABLE, or one copy of a table, for each table of `names`.
Nothing == [name \in {} |-> {}]
Alter(names) ==
  [op |-> "alter", names |-> names, drop |-> {}, add |-> {}, require |-> {},
   relax |-> {}, unique |-> {}, notUnique |-> {}, link |-> Nothing, unlink |-> {},
   index |-> {}]

Copied(names)               == Alter(names)
AddColumns(names, columns)  == [Alter(names) EXCEPT !.add = columns]
AddRequired(names, columns) == [Alter(names) EXCEPT !.add = columns, !.require = columns]
DropColumns(names, columns) == [Alter(names) EXCEPT !.drop = columns]
Require(names, columns)     == [Alter(names) EXCEPT !.require = columns]
Relax(names, columns)       == [Alter(names) EXCEPT !.relax = columns]
Unique(names, keys)         == [Alter(names) EXCEPT !.unique = keys]
NotUnique(names, keys)      == [Alter(names) EXCEPT !.notUnique = keys]
Link(links)                 == [Alter(DOMAIN links) EXCEPT !.link = links]
Unlink(names, columns)      == [Alter(names) EXCEPT !.unlink = columns]
Indexed(names, keys)        == [Alter(names) EXCEPT !.index = keys]

\* UPDATE: every row of the table gets a new value in these columns.
Generate(name, columns) == [op |-> "generate", name |-> name, columns |-> columns]

\* UPDATE: the column is computed from another column of its row.
Derive(name, column, source) ==
  [op |-> "derive", name |-> name, column |-> column, source |-> source]

\* INSERT INTO `into` for each row of `from`: `values` says which column of
\* `from` each column is filled with, `made` are the columns filled with a
\* constant, a fresh value or a declared default.  In both: the value of
\* `from`, or a fresh one where that is NULL.
Insert(from, into, values, made) ==
  [op |-> "insert", from |-> from, into |-> into, values |-> values, made |-> made]

\* The columns copied under their own name.
Same(columns) == [column \in columns |-> column]

\* The migration reads, or for each row of a table writes, through TypeORM's
\* entity manager, which names every column of the entities involved.
ReadWith(entities)        == [op |-> "entities", from |-> {}, entities |-> entities]
WriteWith(from, entities) == [op |-> "entities", from |-> {from}, entities |-> entities]

\* The migration looks at something outside the schema and throws.
RefuseIf(obstacle) == [op |-> "refuse", obstacle |-> obstacle]

(***************************************************************************)
(* What they do.  `setting` is what the statement meets: obstacles, the     *)
(* conditions RefuseIf looks for, and expected, the columns the entities    *)
(* of the release that runs it have.                                        *)
(***************************************************************************)
AlterAccepted(s, name, tables) ==
  /\ name \in DOMAIN tables
  /\ LET t    == tables[name]
         link == IF name \in DOMAIN s.link THEN DOMAIN s.link[name] ELSE {}
     IN  /\ s.drop \cup s.relax \subseteq Columns(t)
         /\ link \cup UNION s.unique \subseteq (Columns(t) \ s.drop) \cup s.add
         /\ s.add \cap Columns(t) = {}
         /\ s.require \subseteq Columns(t) \cup s.add
         /\ t.rows => \A c \in s.require \cap Columns(t) : t.data[c] # "empty"
         /\ s.notUnique \subseteq t.unique
         /\ s.unlink \subseteq DOMAIN t.refs
         /\ s.index \cap t.indexes = {}

InsertAccepted(s, tables) ==
  /\ {s.from, s.into} \subseteq DOMAIN tables
  /\ DOMAIN s.values \cup s.made \subseteq Columns(tables[s.into])
  /\ {s.values[c] : c \in DOMAIN s.values} \subseteq Columns(tables[s.from])
  /\ tables[s.from].rows =>
       \A c \in tables[s.into].required \ s.made :
         c \in DOMAIN s.values /\ tables[s.from].data[s.values[c]] # "empty"

CreateAccepted(s, tables) ==
  /\ DOMAIN s.tables \cap DOMAIN tables = {}
  /\ \A name \in DOMAIN s.tables :
       LET t == s.tables[name] IN t.required \cup UNION t.unique \subseteq t.columns

Accepts(s, tables, setting) ==
  CASE s.op = "create" -> CreateAccepted(s, tables)
    [] s.op = "rename" ->
         /\ DOMAIN s.new \subseteq DOMAIN tables
         /\ \A n \in DOMAIN s.new : s.new[n] \notin DOMAIN tables
    [] s.op = "renameColumns" ->
         /\ s.name \in DOMAIN tables
         /\ DOMAIN s.new \subseteq Columns(tables[s.name])
         /\ \A c \in DOMAIN s.new : s.new[c] \notin Columns(tables[s.name])
    [] s.op = "drop" -> TRUE
    [] s.op = "alter" -> \A name \in s.names : AlterAccepted(s, name, tables)
    [] s.op = "generate" ->
         s.name \in DOMAIN tables /\ s.columns \subseteq Columns(tables[s.name])
    [] s.op = "derive" ->
         s.name \in DOMAIN tables /\ {s.column, s.source} \subseteq Columns(tables[s.name])
    [] s.op = "insert" -> InsertAccepted(s, tables)
    [] s.op = "entities" ->
         /\ s.from \subseteq DOMAIN tables
         /\ (\A name \in s.from : tables[name].rows) =>
              \A e \in s.entities \cap DOMAIN setting.expected :
                e \in DOMAIN tables /\ setting.expected[e] \subseteq Columns(tables[e])
    [] s.op = "refuse" -> s.obstacle \notin setting.obstacles

Created(table) ==
  [data     |-> [c \in table.columns |-> "stored"],
   required |-> table.required,
   unique   |-> table.unique,
   refs     |-> Nothing,
   indexes  |-> {},
   rows     |-> FALSE]

NewName(new, name) == IF name \in DOMAIN new THEN new[name] ELSE name
OldName(new, names, name) == CHOOSE n \in names : NewName(new, n) = name

\* Renaming a table takes the references to it along, in both dialects.
Renamed(new, tables) ==
  LET given(name) == NewName(new, name)
      old(name) == OldName(new, DOMAIN tables, name)
  IN  [name \in {given(n) : n \in DOMAIN tables} |->
        LET refs == tables[old(name)].refs
        IN  [tables[old(name)] EXCEPT
               !.refs = [c \in DOMAIN refs |-> <<given(refs[c][1]), refs[c][2]>>]]]

WithColumnsRenamed(t, new) ==
  LET old(c) == OldName(new, Columns(t), c)
      all(C) == {NewName(new, c) : c \in C}
  IN  [t EXCEPT !.data = [c \in all(Columns(t)) |-> t.data[old(c)]],
                !.required = all(@),
                !.unique = {all(key) : key \in @},
                !.refs = [c \in all(DOMAIN @) |-> @[old(c)]],
                !.indexes = {all(key) : key \in @}]

Altered(t, s, links) ==
  LET columns  == (Columns(t) \ s.drop) \cup s.add
      value(c) == IF c \notin s.add THEN t.data[c] ELSE IF t.rows THEN "empty" ELSE "stored"
      linked   == (DOMAIN t.refs \ (s.drop \cup s.unlink)) \cup DOMAIN links
      kept(keys) == {key \in keys : key \cap s.drop = {}}
  IN  [data     |-> [c \in columns |-> value(c)],
       required |-> ((t.required \cup s.require) \ s.relax) \cap columns,
       unique   |-> kept(t.unique \ s.notUnique) \cup s.unique,
       refs     |-> [c \in linked |-> IF c \in DOMAIN links THEN links[c] ELSE t.refs[c]],
       indexes  |-> kept(t.indexes) \cup s.index,
       rows     |-> t.rows]

Inserted(s, tables) ==
  LET from == tables[s.from]
      copied(c) == c \in DOMAIN s.values /\ ~ (c \in s.made /\ from.data[s.values[c]] = "empty")
      value(c)  == IF copied(c) THEN from.data[s.values[c]]
                   ELSE IF c \in s.made THEN "generated" ELSE "empty"
  IN  IF from.rows
        THEN [tables[s.into] EXCEPT !.data = [c \in DOMAIN @ |-> value(c)], !.rows = TRUE]
        ELSE tables[s.into]

Effect(s, tables) ==
  CASE s.op = "create" ->
         [name \in DOMAIN tables \cup DOMAIN s.tables |->
           IF name \in DOMAIN tables THEN tables[name] ELSE Created(s.tables[name])]
    [] s.op = "rename" -> Renamed(s.new, tables)
    [] s.op = "renameColumns" -> [tables EXCEPT ![s.name] = WithColumnsRenamed(@, s.new)]
    [] s.op = "drop" -> [name \in DOMAIN tables \ s.names |-> tables[name]]
    [] s.op = "alter" ->
         [name \in DOMAIN tables |->
           IF name \notin s.names THEN tables[name]
           ELSE Altered(tables[name], s, IF name \in DOMAIN s.link THEN s.link[name] ELSE Nothing)]
    [] s.op = "generate" ->
         IF ~ tables[s.name].rows THEN tables
         ELSE [tables EXCEPT ![s.name].data =
                 [c \in DOMAIN @ |-> IF c \in s.columns THEN "generated" ELSE @[c]]]
    [] s.op = "derive" ->
         [tables EXCEPT ![s.name].data[s.column] = tables[s.name].data[s.source]]
    [] s.op = "insert" -> [tables EXCEPT ![s.into] = Inserted(s, tables)]
    [] s.op \in {"entities", "refuse"} -> tables

\* The schemas a sequence of statements can end with: the one they build, or
\* none when the database refuses one of them.
Executed(statements, tables, setting) ==
  LET after[i \in 0 .. Len(statements)] ==
        IF i = 0 THEN {tables}
        ELSE {Effect(statements[i], t) :
                t \in {u \in after[i - 1] : Accepts(statements[i], u, setting)}}
  IN  after[Len(statements)]
=============================================================================

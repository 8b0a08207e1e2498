------------------------------ MODULE SchemaProofs ------------------------------
(***************************************************************************)
(* What the migrations do to the shape of the schema does not depend on     *)
(* what is stored: every statement that goes through on a database in use   *)
(* goes through on an empty one, and leaves both with the same tables.      *)
(***************************************************************************)
EXTENDS Schema, VersionProofs

\* A table as the statements build it, with no key or reference on a column
\* that is gone.
IsTable(t) == DOMAIN t = {"data", "required", "unique", "refs", "indexes", "rows"}
WholeTable(t) == t.required \cup DOMAIN t.refs \cup UNION t.unique \subseteq Columns(t)

\* Two tables that differ at most in what is stored in them.
Alike(t, u) ==
  /\ Columns(t) = Columns(u)
  /\ t.required = u.required
  /\ t.unique = u.unique
  /\ t.refs = u.refs
  /\ t.indexes = u.indexes

\* Table by table, y is the empty copy of x.
Mirrors(x, y) ==
  /\ DOMAIN x = DOMAIN y
  /\ \A n \in DOMAIN x : /\ IsTable(x[n]) /\ IsTable(y[n])
                         /\ WholeTable(x[n])
                         /\ Alike(x[n], y[n])
                         /\ y[n].rows = FALSE

\* What a migration meets on an installation includes what it meets on an
\* empty database.
CoversFresh(setting) ==
  /\ FreshSetting.obstacles \subseteq setting.obstacles
  /\ \A e \in DOMAIN Legacy :
       e \in DOMAIN setting.expected /\ setting.expected[e] = Legacy[e]

-----------------------------------------------------------------------------
(***************************************************************************)
(* One statement                                                           *)
(***************************************************************************)
LEMMA CreateMirrors ==
    ASSUME NEW s, NEW x, NEW y, NEW setting, Mirrors(x, y), s.op = "create",
           Accepts(s, x, setting)
    PROVE  Accepts(s, y, FreshSetting) /\ Mirrors(Effect(s, x), Effect(s, y))
<1>1. CreateAccepted(s, x)
  BY DEF Accepts
<1>2. CreateAccepted(s, y)
  BY <1>1 DEF CreateAccepted, Mirrors
<1>3. Accepts(s, y, FreshSetting)
  BY <1>2 DEF Accepts
<1>4. \A n \in DOMAIN s.tables :
        IsTable(Created(s.tables[n])) /\ WholeTable(Created(s.tables[n]))
        /\ Created(s.tables[n]).rows = FALSE
  BY <1>1 DEF CreateAccepted, Created, IsTable, WholeTable, Columns, Nothing
<1>5. /\ Effect(s, x) = [n \in DOMAIN x \cup DOMAIN s.tables |->
                          IF n \in DOMAIN x THEN x[n] ELSE Created(s.tables[n])]
      /\ Effect(s, y) = [n \in DOMAIN y \cup DOMAIN s.tables |->
                          IF n \in DOMAIN y THEN y[n] ELSE Created(s.tables[n])]
  BY DEF Effect
<1> QED
  BY <1>3, <1>4, <1>5 DEF Mirrors, Alike

LEMMA DropMirrors ==
    ASSUME NEW s, NEW x, NEW y, NEW setting, Mirrors(x, y), s.op = "drop",
           Accepts(s, x, setting)
    PROVE  Accepts(s, y, FreshSetting) /\ Mirrors(Effect(s, x), Effect(s, y))
<1>1. Accepts(s, y, FreshSetting)
  BY DEF Accepts
<1>2. /\ Effect(s, x) = [n \in DOMAIN x \ s.names |-> x[n]]
      /\ Effect(s, y) = [n \in DOMAIN y \ s.names |-> y[n]]
  BY DEF Effect
<1> QED
  BY <1>1, <1>2 DEF Mirrors

\* An old name of a given name: the one CHOOSE takes has that new name.
LEMMA OldNameIsNamed ==
    ASSUME NEW new, NEW names, NEW n \in names
    PROVE  /\ OldName(new, names, NewName(new, n)) \in names
           /\ NewName(new, OldName(new, names, NewName(new, n))) = NewName(new, n)
  BY DEF OldName

LEMMA RenameMirrors ==
    ASSUME NEW s, NEW x, NEW y, NEW setting, Mirrors(x, y), s.op = "rename",
           Accepts(s, x, setting)
    PROVE  Accepts(s, y, FreshSetting) /\ Mirrors(Effect(s, x), Effect(s, y))
<1>1. Accepts(s, y, FreshSetting)
  BY DEF Accepts, Mirrors
<1> DEFINE Names == {NewName(s.new, n) : n \in DOMAIN x}
           Old(n) == OldName(s.new, DOMAIN x, n)
           Refs(t) == [c \in DOMAIN t.refs |->
                        <<NewName(s.new, t.refs[c][1]), t.refs[c][2]>>]
           Now(t) == [t EXCEPT !.refs = Refs(t)]
<1>2. Effect(s, x) = [n \in Names |-> Now(x[Old(n)])]
  BY DEF Effect, Renamed
<1>3. Effect(s, y) = [n \in Names |-> Now(y[Old(n)])]
  BY DEF Effect, Renamed, Mirrors
<1>4. \A n \in Names : Old(n) \in DOMAIN x
  BY OldNameIsNamed
<1>5. ASSUME NEW t, NEW u, IsTable(t), IsTable(u), WholeTable(t), Alike(t, u), u.rows = FALSE
      PROVE  /\ IsTable(Now(t)) /\ IsTable(Now(u))
             /\ WholeTable(Now(t))
             /\ Alike(Now(t), Now(u))
             /\ Now(u).rows = FALSE
  BY <1>5 DEF IsTable, WholeTable, Alike, Columns
<1> HIDE DEF Now, Names, Old
<1>6. \A n \in Names : LET t == x[Old(n)] IN
                       LET u == y[Old(n)] IN
        IsTable(t) /\ IsTable(u) /\ WholeTable(t) /\ Alike(t, u) /\ u.rows = FALSE
  BY <1>4 DEF Mirrors
<1>7. \A n \in Names : LET t == Now(x[Old(n)]) IN
                       LET u == Now(y[Old(n)]) IN
        IsTable(t) /\ IsTable(u) /\ WholeTable(t) /\ Alike(t, u) /\ u.rows = FALSE
  BY <1>5, <1>6, Zenon
<1>8. Mirrors(Effect(s, x), Effect(s, y))
  BY <1>2, <1>3, <1>7 DEF Mirrors
<1> QED
  BY <1>1, <1>8

LEMMA RenameColumnsMirrors ==
    ASSUME NEW s, NEW x, NEW y, NEW setting, Mirrors(x, y), s.op = "renameColumns",
           Accepts(s, x, setting)
    PROVE  Accepts(s, y, FreshSetting) /\ Mirrors(Effect(s, x), Effect(s, y))
<1>1. s.name \in DOMAIN x
  BY DEF Accepts
<1>2. Accepts(s, y, FreshSetting)
  BY DEF Accepts, Mirrors, Alike
<1> DEFINE Now(t) == WithColumnsRenamed(t, s.new)
<1>3. ASSUME NEW t, NEW u, IsTable(t), IsTable(u), WholeTable(t), Alike(t, u), u.rows = FALSE
      PROVE  /\ IsTable(Now(t)) /\ IsTable(Now(u))
             /\ WholeTable(Now(t))
             /\ Alike(Now(t), Now(u))
             /\ Now(u).rows = FALSE
  <2> DEFINE All(C) == {NewName(s.new, c) : c \in C}
             Old(c) == OldName(s.new, Columns(t), c)
  <2>1. Columns(t) = Columns(u)
    BY <1>3 DEF Alike
  <2>2. /\ DOMAIN Now(t) = DOMAIN t
        /\ Columns(Now(t)) = All(Columns(t))
        /\ Now(t).required = All(t.required)
        /\ Now(t).unique = {All(key) : key \in t.unique}
        /\ Now(t).refs = [c \in All(DOMAIN t.refs) |-> t.refs[Old(c)]]
        /\ Now(t).indexes = {All(key) : key \in t.indexes}
    BY <1>3 DEF WithColumnsRenamed, IsTable, Columns
  <2>3. /\ DOMAIN Now(u) = DOMAIN u
        /\ Columns(Now(u)) = All(Columns(u))
        /\ Now(u).required = All(u.required)
        /\ Now(u).unique = {All(key) : key \in u.unique}
        /\ Now(u).refs = [c \in All(DOMAIN u.refs) |-> u.refs[Old(c)]]
        /\ Now(u).indexes = {All(key) : key \in u.indexes}
        /\ Now(u).rows = u.rows
    BY <1>3, <2>1 DEF WithColumnsRenamed, IsTable, Columns
  <2>4. Alike(Now(t), Now(u))
    BY <1>3, <2>2, <2>3 DEF Alike
  <2>5. WholeTable(Now(t))
    BY <1>3, <2>2 DEF WholeTable
  <2> QED
    BY <1>3, <2>2, <2>3, <2>4, <2>5 DEF IsTable
<1>4. /\ Effect(s, x) = [x EXCEPT ![s.name] = Now(x[s.name])]
      /\ Effect(s, y) = [y EXCEPT ![s.name] = Now(y[s.name])]
  BY DEF Effect
<1> HIDE DEF Now
<1>5. \A n \in DOMAIN x : /\ IsTable(x[n]) /\ IsTable(y[n])
                         /\ WholeTable(x[n])
                         /\ Alike(x[n], y[n])
                         /\ y[n].rows = FALSE
  BY DEF Mirrors
<1>6. LET t == Now(x[s.name]) IN
      LET u == Now(y[s.name]) IN
        IsTable(t) /\ IsTable(u) /\ WholeTable(t) /\ Alike(t, u) /\ u.rows = FALSE
  BY <1>1, <1>3, <1>5, Zenon
<1>7. Mirrors(Effect(s, x), Effect(s, y))
  BY <1>4, <1>5, <1>6 DEF Mirrors
<1> QED
  BY <1>2, <1>7

\* The columns, references and keys an ALTER leaves.
Left(v, s)      == (Columns(v) \ s.drop) \cup s.add
Linked(v, s, L) == (DOMAIN v.refs \ (s.drop \cup s.unlink)) \cup DOMAIN L
Kept(keys, s)   == {key \in keys : key \cap s.drop = {}}

IsAltered(now, v, s, L) ==
  /\ IsTable(now)
  /\ Columns(now) = Left(v, s)
  /\ now.required = ((v.required \cup s.require) \ s.relax) \cap Left(v, s)
  /\ now.unique = Kept(v.unique \ s.notUnique, s) \cup s.unique
  /\ now.refs = [c \in Linked(v, s, L) |-> IF c \in DOMAIN L THEN L[c] ELSE v.refs[c]]
  /\ now.indexes = Kept(v.indexes, s) \cup s.index
  /\ now.rows = v.rows

LEMMA AlteredFields ==
    ASSUME NEW v, NEW s, NEW L
    PROVE  IsAltered(Altered(v, s, L), v, s, L)
  BY DEF IsAltered, Altered, IsTable, Columns, Left, Linked, Kept

LEMMA AlterMirrors ==
    ASSUME NEW s, NEW x, NEW y, NEW setting, Mirrors(x, y), s.op = "alter",
           Accepts(s, x, setting)
    PROVE  Accepts(s, y, FreshSetting) /\ Mirrors(Effect(s, x), Effect(s, y))
<1>1. \A n \in s.names : AlterAccepted(s, n, x)
  BY DEF Accepts
<1>2. \A n \in s.names : AlterAccepted(s, n, y)
  <2> SUFFICES ASSUME NEW n \in s.names
               PROVE  AlterAccepted(s, n, y)
    OBVIOUS
  <2>1. n \in DOMAIN x /\ n \in DOMAIN y
    BY <1>1 DEF AlterAccepted, Mirrors
  <2>2. Alike(x[n], y[n]) /\ ~ y[n].rows
    BY <2>1 DEF Mirrors
  <2> QED
    BY <1>1, <2>1, <2>2 DEF AlterAccepted, Alike
<1>3. Accepts(s, y, FreshSetting)
  BY <1>2 DEF Accepts
<1> DEFINE Links(n) == IF n \in DOMAIN s.link THEN s.link[n] ELSE Nothing
           Now(t, n) == Altered(t, s, Links(n))
<1>4. ASSUME NEW n \in s.names, NEW t, NEW u, t = x[n],
             IsTable(t), IsTable(u), WholeTable(t), Alike(t, u), u.rows = FALSE
      PROVE  /\ IsTable(Now(t, n)) /\ IsTable(Now(u, n))
             /\ WholeTable(Now(t, n))
             /\ Alike(Now(t, n), Now(u, n))
             /\ Now(u, n).rows = FALSE
  <2> DEFINE L == Links(n)
  <2>2. Columns(t) = Columns(u) /\ t.required = u.required /\ t.unique = u.unique
        /\ t.refs = u.refs /\ t.indexes = u.indexes
    BY <1>4 DEF Alike
  <2>3. DOMAIN L \cup UNION s.unique \subseteq Left(t, s)
    <3>1. AlterAccepted(s, n, x)
      BY <1>1
    <3> QED
      BY <1>4, <3>1 DEF AlterAccepted, Nothing, Left
  <2> HIDE DEF L
  <2>4. PICK a, b : /\ a = Altered(t, s, L) /\ b = Altered(u, s, L)
                    /\ IsAltered(a, t, s, L) /\ IsAltered(b, u, s, L)
    BY AlteredFields, Zenon
  <2>5. Alike(a, b)
    <3>1. Left(t, s) = Left(u, s) /\ Linked(t, s, L) = Linked(u, s, L)
      BY <2>2 DEF Left, Linked
    <3>2. a.refs = b.refs
      BY <2>2, <2>4, <3>1 DEF IsAltered
    <3> QED
      BY <2>2, <2>4, <3>1, <3>2 DEF IsAltered, Alike
  <2>6. WholeTable(a)
    <3>1. UNION Kept(t.unique \ s.notUnique, s) \subseteq Left(t, s)
      BY <1>4 DEF WholeTable, Kept, Left
    <3>2. Linked(t, s, L) \subseteq Left(t, s)
      BY <1>4, <2>3 DEF WholeTable, Linked, Left
    <3>3. Columns(a) = Left(t, s) /\ DOMAIN a.refs = Linked(t, s, L)
      BY <2>4 DEF IsAltered
    <3>4. a.required \subseteq Left(t, s)
      BY <2>4 DEF IsAltered
    <3>5. UNION a.unique \subseteq Left(t, s)
      BY <2>3, <2>4, <3>1 DEF IsAltered
    <3> QED
      BY <3>2, <3>3, <3>4, <3>5 DEF WholeTable
  <2>7. Now(t, n) = a /\ Now(u, n) = b
    BY <2>4 DEF L
  <2> QED
    BY <1>4, <2>4, <2>5, <2>6, <2>7 DEF IsAltered
<1>5. /\ Effect(s, x) = [n \in DOMAIN x |-> IF n \notin s.names THEN x[n] ELSE Now(x[n], n)]
      /\ Effect(s, y) = [n \in DOMAIN y |-> IF n \notin s.names THEN y[n] ELSE Now(y[n], n)]
  BY DEF Effect
<1> HIDE DEF Now
<1>6. \A n \in DOMAIN x : /\ IsTable(x[n]) /\ IsTable(y[n])
                         /\ WholeTable(x[n])
                         /\ Alike(x[n], y[n])
                         /\ y[n].rows = FALSE
  BY DEF Mirrors
<1>7. ASSUME NEW n \in DOMAIN x, n \in s.names
      PROVE  LET t == Now(x[n], n) IN
             LET u == Now(y[n], n) IN
               IsTable(t) /\ IsTable(u) /\ WholeTable(t) /\ Alike(t, u) /\ u.rows = FALSE
  BY <1>4, <1>6, <1>7, Zenon
<1>8. Mirrors(Effect(s, x), Effect(s, y))
  BY <1>5, <1>6, <1>7 DEF Mirrors
<1> QED
  BY <1>3, <1>8

\* Changes of what is stored leave a table alike, with or without rows.
SameTables(now, x) ==
  /\ DOMAIN now = DOMAIN x
  /\ \A n \in DOMAIN x : IsTable(now[n]) /\ Alike(now[n], x[n])
HoldsNothing(x) == \A n \in DOMAIN x : x[n].rows = FALSE

LEMMA DataMirrors ==
    ASSUME NEW x, NEW y, Mirrors(x, y), NEW now, NEW empty,
           SameTables(now, x), SameTables(empty, y), HoldsNothing(empty)
    PROVE  Mirrors(now, empty)
  BY DEF Mirrors, Alike, WholeTable, SameTables, HoldsNothing

LEMMA GenerateMirrors ==
    ASSUME NEW s, NEW x, NEW y, NEW setting, Mirrors(x, y), s.op = "generate",
           Accepts(s, x, setting)
    PROVE  Accepts(s, y, FreshSetting) /\ Mirrors(Effect(s, x), Effect(s, y))
<1>1. s.name \in DOMAIN x /\ s.name \in DOMAIN y
  BY DEF Accepts, Mirrors
<1>2. Accepts(s, y, FreshSetting)
  BY <1>1 DEF Accepts, Mirrors, Alike
<1>3. ~ y[s.name].rows
  BY <1>1 DEF Mirrors
<1>4. Effect(s, y) = y
  BY <1>3 DEF Effect
<1> DEFINE Now(t) == [t EXCEPT !.data = [c \in DOMAIN @ |->
                                          IF c \in s.columns THEN "generated" ELSE @[c]]]
<1>5. Effect(s, x) = x \/ Effect(s, x) = [x EXCEPT ![s.name] = Now(x[s.name])]
  BY DEF Effect
<1>6. ASSUME NEW t, IsTable(t)
      PROVE  IsTable(Now(t)) /\ Alike(Now(t), t)
  BY <1>6 DEF IsTable, Alike, Columns
<1> HIDE DEF Now
<1>7. SameTables(Effect(s, x), x)
  BY <1>1, <1>5, <1>6 DEF Mirrors, Alike, SameTables
<1>8. SameTables(y, y) /\ HoldsNothing(y)
  BY DEF Mirrors, Alike, SameTables, HoldsNothing
<1>9. Mirrors(Effect(s, x), y)
  BY <1>7, <1>8, DataMirrors
<1> QED
  BY <1>2, <1>4, <1>9

LEMMA DeriveMirrors ==
    ASSUME NEW s, NEW x, NEW y, NEW setting, Mirrors(x, y), s.op = "derive",
           Accepts(s, x, setting)
    PROVE  Accepts(s, y, FreshSetting) /\ Mirrors(Effect(s, x), Effect(s, y))
<1>1. s.name \in DOMAIN x /\ s.name \in DOMAIN y
  BY DEF Accepts, Mirrors
<1>2. Accepts(s, y, FreshSetting)
  BY <1>1 DEF Accepts, Mirrors, Alike
<1> DEFINE Now(t) == [t EXCEPT !.data = [@ EXCEPT ![s.column] = t.data[s.source]]]
<1>3. /\ Effect(s, x) = [x EXCEPT ![s.name] = Now(x[s.name])]
      /\ Effect(s, y) = [y EXCEPT ![s.name] = Now(y[s.name])]
  BY DEF Effect
<1>4. ASSUME NEW t, IsTable(t)
      PROVE  IsTable(Now(t)) /\ Alike(Now(t), t) /\ Now(t).rows = t.rows
  BY <1>4 DEF IsTable, Alike, Columns
<1> HIDE DEF Now
<1>5. SameTables(Effect(s, x), x)
  BY <1>1, <1>3, <1>4 DEF Mirrors, Alike, SameTables
<1>6. SameTables(Effect(s, y), y) /\ HoldsNothing(Effect(s, y))
  BY <1>1, <1>3, <1>4 DEF Mirrors, Alike, SameTables, HoldsNothing
<1>7. Mirrors(Effect(s, x), Effect(s, y))
  BY <1>5, <1>6, DataMirrors
<1> QED
  BY <1>2, <1>7

LEMMA InsertMirrors ==
    ASSUME NEW s, NEW x, NEW y, NEW setting, Mirrors(x, y), s.op = "insert",
           Accepts(s, x, setting)
    PROVE  Accepts(s, y, FreshSetting) /\ Mirrors(Effect(s, x), Effect(s, y))
<1>1. InsertAccepted(s, x)
  BY DEF Accepts
<1>2. {s.from, s.into} \subseteq DOMAIN x /\ DOMAIN x = DOMAIN y
  BY <1>1 DEF InsertAccepted, Mirrors
<1>3. Alike(x[s.from], y[s.from]) /\ Alike(x[s.into], y[s.into]) /\ ~ y[s.from].rows
  BY <1>2 DEF Mirrors
<1>4. InsertAccepted(s, y)
  BY <1>1, <1>2, <1>3 DEF InsertAccepted, Alike
<1>5. Accepts(s, y, FreshSetting)
  BY <1>4 DEF Accepts
<1>6. IsTable(x[s.into])
  BY <1>2 DEF Mirrors
<1>7. IsTable(Inserted(s, x)) /\ Alike(Inserted(s, x), x[s.into])
  BY <1>6 DEF Inserted, IsTable, Alike, Columns
<1>8. Inserted(s, y) = y[s.into]
  BY <1>3 DEF Inserted
<1>9. /\ Effect(s, x) = [x EXCEPT ![s.into] = Inserted(s, x)]
      /\ Effect(s, y) = [y EXCEPT ![s.into] = Inserted(s, y)]
  BY DEF Effect
<1>10. SameTables(Effect(s, x), x)
  BY <1>2, <1>7, <1>9 DEF Mirrors, Alike, SameTables
<1>11. SameTables(Effect(s, y), y) /\ HoldsNothing(Effect(s, y))
  BY <1>2, <1>8, <1>9 DEF Mirrors, Alike, SameTables, HoldsNothing
<1>12. Mirrors(Effect(s, x), Effect(s, y))
  BY <1>10, <1>11, DataMirrors
<1> QED
  BY <1>5, <1>12

\* What TypeORM reads or writes by name is there on an empty database too.
LEMMA EntitiesMirrors ==
    ASSUME NEW s, NEW x, NEW y, NEW setting, Mirrors(x, y), CoversFresh(setting),
           s.op = "entities", Accepts(s, x, setting)
    PROVE  Accepts(s, y, FreshSetting) /\ Mirrors(Effect(s, x), Effect(s, y))
<1>1. s.from \subseteq DOMAIN x /\ s.from \subseteq DOMAIN y
  BY DEF Accepts, Mirrors
<1>2. ASSUME \A n \in s.from : y[n].rows,
             NEW e \in s.entities \cap DOMAIN Legacy
      PROVE  e \in DOMAIN y /\ Legacy[e] \subseteq Columns(y[e])
  <2>1. s.from = {}
    BY <1>1, <1>2 DEF Mirrors
  <2>2. e \in DOMAIN setting.expected /\ setting.expected[e] = Legacy[e]
    BY DEF CoversFresh
  <2>3. e \in DOMAIN x /\ Legacy[e] \subseteq Columns(x[e])
    BY <2>1, <2>2 DEF Accepts
  <2> QED
    BY <2>3 DEF Mirrors, Alike
<1>3. FreshSetting.expected = Legacy
  BY DEF FreshSetting
<1>4. Accepts(s, y, FreshSetting)
  BY <1>1, <1>2, <1>3 DEF Accepts
<1>5. Effect(s, x) = x /\ Effect(s, y) = y
  BY DEF Effect
<1> QED
  BY <1>4, <1>5

LEMMA RefuseMirrors ==
    ASSUME NEW s, NEW x, NEW y, NEW setting, Mirrors(x, y), CoversFresh(setting),
           s.op = "refuse", Accepts(s, x, setting)
    PROVE  Accepts(s, y, FreshSetting) /\ Mirrors(Effect(s, x), Effect(s, y))
<1>1. Accepts(s, y, FreshSetting)
  BY DEF Accepts, CoversFresh
<1>2. Effect(s, x) = x /\ Effect(s, y) = y
  BY DEF Effect
<1> QED
  BY <1>1, <1>2

\* A statement that goes through goes through on the empty copy, whatever is
\* stored, and leaves an empty copy again.
LEMMA StatementMirrors ==
    ASSUME NEW s, Statement(s), NEW x, NEW y, NEW setting, Mirrors(x, y), CoversFresh(setting),
           Accepts(s, x, setting)
    PROVE  Accepts(s, y, FreshSetting) /\ Mirrors(Effect(s, x), Effect(s, y))
<1>1. \/ s.op \in {"create", "rename", "renameColumns", "drop"}
      \/ s.op \in {"alter", "generate", "derive", "insert"}
      \/ s.op \in {"entities", "refuse"}
  BY DEF Statement
<1>2. CASE s.op \in {"create", "rename", "renameColumns", "drop"}
  BY <1>2, CreateMirrors, RenameMirrors, RenameColumnsMirrors, DropMirrors
<1>3. CASE s.op \in {"alter", "generate", "derive", "insert"}
  BY <1>3, AlterMirrors, GenerateMirrors, DeriveMirrors, InsertMirrors
<1>4. CASE s.op \in {"entities", "refuse"}
  BY <1>4, EntitiesMirrors, RefuseMirrors
<1> QED
  BY <1>1, <1>2, <1>3, <1>4

-----------------------------------------------------------------------------
(***************************************************************************)
(* Whole migrations, and sequences of them                                 *)
(***************************************************************************)

\* What one statement, or one migration, makes of a set of schemas.
AfterStatement(s, S, setting) == {Effect(s, t) : t \in {u \in S : Accepts(s, u, setting)}}
AfterMigration(m, S, setting) == UNION {Executed(m, t, setting) : t \in S}

ExecutedBody(f, m, k, x, setting) ==
  [i \in 0 .. k |-> IF i = 0 THEN {x} ELSE AfterStatement(m[i], f[i - 1], setting)]

LEMMA StatementsRun ==
    ASSUME NEW m, NEW N \in Nat, NEW x, NEW setting
    PROVE  \E f : f = ExecutedBody(f, m, N, x, setting)
<1> DEFINE Body(f, k) == ExecutedBody(f, m, k, x, setting)
           T == {k \in 0 .. N : \E f : f = Body(f, k)}
<1>1. 0 \in T
  <2> DEFINE f == [i \in 0 .. 0 |-> {x}]
  <2>1. f = Body(f, 0)
    BY DEF ExecutedBody
  <2> QED
    BY <2>1
<1>2. ASSUME NEW k \in 1 .. N, k - 1 \in T
      PROVE  k \in T
  <2>1. PICK g : g = Body(g, k - 1)
    BY <1>2
  <2> DEFINE last == AfterStatement(m[k], g[k - 1], setting)
             f == [i \in 0 .. k |-> IF i = k THEN last ELSE g[i]]
  <2>2. /\ \A i \in 0 .. k - 1 : f[i] = g[i]
        /\ f[k] = last
    OBVIOUS
  <2>3. \A i \in 0 .. k : f[i] = IF i = 0 THEN {x} ELSE AfterStatement(m[i], f[i - 1], setting)
    <3> SUFFICES ASSUME NEW i \in 0 .. k
                 PROVE  f[i] = IF i = 0 THEN {x} ELSE AfterStatement(m[i], f[i - 1], setting)
      OBVIOUS
    <3> HIDE DEF f
    <3>1. CASE i = k
      <4>1. i # 0 /\ f[i - 1] = g[k - 1]
        BY <2>2, <3>1
      <4> QED
        BY <2>2, <3>1, <4>1
    <3>2. CASE i # k
      <4>1. i \in 0 .. k - 1 /\ (i # 0 => i - 1 \in 0 .. k - 1)
        BY <3>2
      <4>2. g[i] = IF i = 0 THEN {x} ELSE AfterStatement(m[i], g[i - 1], setting)
        BY <2>1, <4>1 DEF ExecutedBody
      <4> QED
        BY <2>2, <4>1, <4>2
    <3> QED
      BY <3>1, <3>2
  <2>4. f = [i \in 0 .. k |-> f[i]]
    OBVIOUS
  <2> HIDE DEF f
  <2>5. f = Body(f, k)
    BY <2>3, <2>4 DEF ExecutedBody
  <2> QED
    BY <2>5
<1> HIDE DEF T
<1>3. T \in SUBSET (0 .. N)
  BY DEF T
<1>4. N \in T
  BY <1>1, <1>2, <1>3, StepByStep
<1> QED
  BY <1>4 DEF T

ExecutedValues(f, m, k, x, setting) ==
  f[0] = {x} /\ \A i \in 1 .. k : f[i] = AfterStatement(m[i], f[i - 1], setting)

LEMMA ExecutedBodyValues ==
    ASSUME NEW f, NEW m, NEW N \in Nat, NEW x, NEW setting,
           f = ExecutedBody(f, m, N, x, setting)
    PROVE  ExecutedValues(f, m, N, x, setting)
<1>1. \A i \in 0 .. N : ExecutedBody(f, m, N, x, setting)[i] =
                        IF i = 0 THEN {x} ELSE AfterStatement(m[i], f[i - 1], setting)
  BY DEF ExecutedBody
<1>2. \A i \in 0 .. N : f[i] = ExecutedBody(f, m, N, x, setting)[i]
  BY Zenon
<1> QED
  BY <1>1, <1>2 DEF ExecutedValues

Reaches(f, m, x, setting) ==
  /\ Executed(m, x, setting) = f[Len(m)]
  /\ f[0] = {x}
  /\ \A i \in 1 .. Len(m) : f[i] = AfterStatement(m[i], f[i - 1], setting)

LEMMA ExecutedRuns ==
    ASSUME NEW m, Migration(m), NEW x, NEW setting
    PROVE  \E f : Reaches(f, m, x, setting)
<1> DEFINE N == Len(m)
           after == CHOOSE f : f = ExecutedBody(f, m, N, x, setting)
<1>1. N \in Nat
  BY DEF Migration
<1>2. after = ExecutedBody(after, m, N, x, setting)
  <2>1. \E f : f = ExecutedBody(f, m, N, x, setting)
    BY <1>1, StatementsRun, Zenon
  <2> QED
    BY <2>1, Zenon
<1>3. Executed(m, x, setting) = after[N]
  BY DEF Executed, ExecutedBody, AfterStatement
<1> HIDE DEF after, N
<1>4. ExecutedValues(after, m, N, x, setting)
  BY <1>1, <1>2, ExecutedBodyValues, Zenon
<1> QED
  BY <1>3, <1>4 DEF N, Reaches, ExecutedValues

\* A migration that goes through on a database in use goes through on its
\* empty copy, and ends with an empty copy.
LEMMA ExecutedMirrors ==
    ASSUME NEW m, Migration(m), NEW x, NEW y, NEW setting, Mirrors(x, y), CoversFresh(setting),
           NEW a \in Executed(m, x, setting)
    PROVE  \E b \in Executed(m, y, FreshSetting) : Mirrors(a, b)
<1> DEFINE N == Len(m)
<1>1. N \in Nat
  BY DEF Migration
<1>2. PICK f : Reaches(f, m, x, setting)
  BY ExecutedRuns
<1>3. PICK g : Reaches(g, m, y, FreshSetting)
  BY ExecutedRuns
<1> DEFINE T == {i \in 0 .. N : \A p \in f[i] : \E q \in g[i] : Mirrors(p, q)}
<1>4. 0 \in T
  BY <1>1, <1>2, <1>3 DEF Reaches
<1>5. ASSUME NEW i \in 1 .. N, i - 1 \in T
      PROVE  i \in T
  <2> SUFFICES ASSUME NEW p \in f[i]
               PROVE  \E q \in g[i] : Mirrors(p, q)
    BY <1>1
  <2>1. PICK t \in f[i - 1] : Accepts(m[i], t, setting) /\ p = Effect(m[i], t)
    BY <1>2 DEF AfterStatement, Reaches
  <2>2. PICK u \in g[i - 1] : Mirrors(t, u)
    BY <1>5, <2>1
  <2>3. Statement(m[i])
    BY DEF Migration
  <2>4. Accepts(m[i], u, FreshSetting) /\ Mirrors(p, Effect(m[i], u))
    BY <2>1, <2>2, <2>3, StatementMirrors
  <2>5. Effect(m[i], u) \in g[i]
    BY <1>3, <2>4 DEF AfterStatement, Reaches
  <2> QED
    BY <2>4, <2>5
<1> HIDE DEF T, N
<1>6. T \in SUBSET (0 .. N)
  BY DEF T
<1>7. N \in T
  BY <1>1, <1>4, <1>5, <1>6, StepByStep
<1> QED
  BY <1>2, <1>3, <1>7 DEF T, N, Reaches

MigratedBody(f, ms, first, last, x, setting) ==
  [n \in 0 .. last |-> IF n < first THEN {x} ELSE AfterMigration(ms[n], f[n - 1], setting)]

MigrationsHaveRun(ms, first, last, x, setting) ==
  \E f : f = MigratedBody(f, ms, first, last, x, setting)

LEMMA MigrationsRun ==
    ASSUME NEW ms, NEW first \in Nat, first # 0, NEW last \in Nat, NEW x, NEW setting
    PROVE  MigrationsHaveRun(ms, first, last, x, setting)
<1> DEFINE Body(f, k) == MigratedBody(f, ms, first, k, x, setting)
           T == {k \in 0 .. last : \E f : f = Body(f, k)}
<1>1. 0 \in T
  <2> DEFINE f == [n \in 0 .. 0 |-> {x}]
  <2>1. f = Body(f, 0)
    BY DEF MigratedBody
  <2> QED
    BY <2>1
<1>2. ASSUME NEW k \in 1 .. last, k - 1 \in T
      PROVE  k \in T
  <2>1. PICK g : g = Body(g, k - 1)
    BY <1>2
  <2> DEFINE final == IF k < first THEN {x} ELSE AfterMigration(ms[k], g[k - 1], setting)
             f == [n \in 0 .. k |-> IF n = k THEN final ELSE g[n]]
  <2>2. /\ \A n \in 0 .. k - 1 : f[n] = g[n]
        /\ f[k] = final
    OBVIOUS
  <2>3. \A n \in 0 .. k : f[n] = IF n < first THEN {x} ELSE AfterMigration(ms[n], f[n - 1], setting)
    <3> SUFFICES ASSUME NEW n \in 0 .. k
                 PROVE  f[n] = IF n < first THEN {x} ELSE AfterMigration(ms[n], f[n - 1], setting)
      OBVIOUS
    <3> HIDE DEF f
    <3>1. CASE n = k
      <4>1. f[n - 1] = g[k - 1]
        BY <2>2, <3>1
      <4> QED
        BY <2>2, <3>1, <4>1
    <3>2. CASE n # k
      <4>1. n \in 0 .. k - 1 /\ (n # 0 => n - 1 \in 0 .. k - 1) /\ (~ n < first => n # 0)
        BY <3>2
      <4>2. g[n] = IF n < first THEN {x} ELSE AfterMigration(ms[n], g[n - 1], setting)
        BY <2>1, <4>1 DEF MigratedBody
      <4> QED
        BY <2>2, <4>1, <4>2
    <3> QED
      BY <3>1, <3>2
  <2>4. f = [n \in 0 .. k |-> f[n]]
    OBVIOUS
  <2> HIDE DEF f
  <2>5. f = Body(f, k)
    BY <2>3, <2>4 DEF MigratedBody
  <2> QED
    BY <2>5
<1> HIDE DEF T
<1>3. T \in SUBSET (0 .. last)
  BY DEF T
<1>4. last \in T
  BY <1>1, <1>2, <1>3, StepByStep
<1> QED
  BY <1>4 DEF T, MigrationsHaveRun

MigratedValues(f, ms, first, last, x, setting) ==
  \A n \in 0 .. last : f[n] = IF n < first THEN {x} ELSE AfterMigration(ms[n], f[n - 1], setting)

LEMMA MigratedBodyValues ==
    ASSUME NEW f, NEW ms, NEW first, NEW last, NEW x, NEW setting,
           f = MigratedBody(f, ms, first, last, x, setting)
    PROVE  MigratedValues(f, ms, first, last, x, setting)
<1>1. \A n \in 0 .. last : MigratedBody(f, ms, first, last, x, setting)[n] =
                           IF n < first THEN {x} ELSE AfterMigration(ms[n], f[n - 1], setting)
  BY DEF MigratedBody
<1>2. \A n \in 0 .. last : f[n] = MigratedBody(f, ms, first, last, x, setting)[n]
  BY Zenon
<1> QED
  BY <1>1, <1>2 DEF MigratedValues

LEMMA MigratedRuns ==
    ASSUME NEW ms, NEW first \in Nat, first # 0, NEW last \in Nat, NEW x, NEW setting
    PROVE  \E f : /\ MigratedValues(f, ms, first, last, x, setting)
                  /\ Migrated(ms, first, last, x, setting) = f[last]
<1> DEFINE after == CHOOSE f : f = MigratedBody(f, ms, first, last, x, setting)
<1>1. after = MigratedBody(after, ms, first, last, x, setting)
  <2>1. MigrationsHaveRun(ms, first, last, x, setting)
    BY MigrationsRun
  <2> QED
    BY <2>1, Zenon DEF MigrationsHaveRun
<1>2. Migrated(ms, first, last, x, setting) = after[last]
  BY DEF Migrated, MigratedBody, AfterMigration
<1> HIDE DEF after
<1>3. MigratedValues(after, ms, first, last, x, setting)
  BY <1>1, MigratedBodyValues, Zenon
<1> QED
  BY <1>2, <1>3

\* No migration leaves the schema, and one migration more is that migration
\* on each schema of those before it.
LEMMA MigratedStep ==
    ASSUME NEW ms, NEW first \in Nat, first # 0, NEW n \in Nat, NEW x, NEW setting
    PROVE  Migrated(ms, first, n, x, setting) =
             IF n < first THEN {x}
             ELSE AfterMigration(ms[n], Migrated(ms, first, n - 1, x, setting), setting)
<1>1. PICK f : /\ MigratedValues(f, ms, first, n, x, setting)
               /\ Migrated(ms, first, n, x, setting) = f[n]
  BY MigratedRuns
<1>2. \A i \in 0 .. n : f[i] = IF i < first THEN {x} ELSE AfterMigration(ms[i], f[i - 1], setting)
  BY <1>1 DEF MigratedValues
<1>3. CASE n < first
  BY <1>1, <1>2, <1>3
<1>4. CASE ~ n < first
  <2>1. n - 1 \in Nat /\ n \in 1 .. n
    BY <1>4
  <2>2. PICK g : /\ MigratedValues(g, ms, first, n - 1, x, setting)
                 /\ Migrated(ms, first, n - 1, x, setting) = g[n - 1]
    BY <2>1, MigratedRuns
  <2>3. \A i \in 0 .. n - 1 :
          g[i] = IF i < first THEN {x} ELSE AfterMigration(ms[i], g[i - 1], setting)
    BY <2>1, <2>2 DEF MigratedValues
  <2> DEFINE T == {i \in 0 .. n - 1 : f[i] = g[i]}
  <2>4. 0 \in T
    BY <1>2, <2>1, <2>3
  <2>5. ASSUME NEW i \in 1 .. n - 1, i - 1 \in T
        PROVE  i \in T
    <3>1. f[i] = IF i < first THEN {x} ELSE AfterMigration(ms[i], f[i - 1], setting)
      BY <1>2
    <3>2. g[i] = IF i < first THEN {x} ELSE AfterMigration(ms[i], g[i - 1], setting)
      BY <2>3
    <3>3. f[i - 1] = g[i - 1] /\ i \in 0 .. n - 1
      BY <2>5
    <3> QED
      BY <3>1, <3>2, <3>3
  <2> HIDE DEF T
  <2>6. T \in SUBSET (0 .. n - 1)
    BY DEF T
  <2>7. n - 1 \in T
    BY <2>1, <2>4, <2>5, <2>6, StepByStep
  <2>8. f[n - 1] = g[n - 1]
    BY <2>7 DEF T
  <2> QED
    BY <1>1, <1>2, <1>4, <2>2, <2>8
<1> QED
  BY <1>3, <1>4

\* So do any number of migrations.
LEMMA MigratedMirrors ==
    ASSUME NEW d \in {"POSTGRESQL", "SQLITE"}, NEW first \in Nat, first # 0,
           NEW last \in 0 .. Latest,
           NEW x, NEW y, NEW setting, Mirrors(x, y), CoversFresh(setting),
           NEW a \in Migrated(Up(d), first, last, x, setting)
    PROVE  \E b \in Migrated(Up(d), first, last, y, FreshSetting) : Mirrors(a, b)
<1> DEFINE F(n) == Migrated(Up(d), first, n, x, setting)
           G(n) == Migrated(Up(d), first, n, y, FreshSetting)
           T == {n \in 0 .. last : \A p \in F(n) : \E q \in G(n) : Mirrors(p, q)}
<1>1. last \in Nat /\ last <= Latest
  BY DEF Latest
<1>2. \A n \in 0 .. last :
        /\ F(n) = IF n < first THEN {x} ELSE AfterMigration(Up(d)[n], F(n - 1), setting)
        /\ G(n) = IF n < first THEN {y} ELSE AfterMigration(Up(d)[n], G(n - 1), FreshSetting)
  BY <1>1, MigratedStep
<1> HIDE DEF F, G
<1>3. ASSUME NEW n \in 0 .. last, n < first
      PROVE  n \in T
  BY <1>2, <1>3
<1>4. 0 \in T
  BY <1>1, <1>3
<1>5. ASSUME NEW n \in 1 .. last, n - 1 \in T, ~ n < first
      PROVE  n \in T
  <2> SUFFICES ASSUME NEW p \in F(n)
               PROVE  \E q \in G(n) : Mirrors(p, q)
    BY <1>1
  <2>1. /\ F(n) = AfterMigration(Up(d)[n], F(n - 1), setting)
        /\ G(n) = AfterMigration(Up(d)[n], G(n - 1), FreshSetting)
    BY <1>1, <1>2, <1>5
  <2>2. PICK t \in F(n - 1) : p \in Executed(Up(d)[n], t, setting)
    BY <2>1 DEF AfterMigration
  <2>3. PICK u \in G(n - 1) : Mirrors(t, u)
    BY <1>5
  <2>4. n \in 1 .. Latest
    BY <1>1 DEF Latest
  <2>5. Migration(Up(d)[n])
    BY <2>4, MigrationsAreLists
  <2>6. PICK q \in Executed(Up(d)[n], u, FreshSetting) : Mirrors(p, q)
    BY <2>2, <2>3, <2>5, ExecutedMirrors
  <2>7. q \in G(n)
    BY <2>1, <2>6 DEF AfterMigration
  <2> QED
    BY <2>6, <2>7
<1> HIDE DEF T
<1>6. T \in SUBSET (0 .. last) /\ \A n \in 1 .. last : n - 1 \in T => n \in T
  BY <1>1, <1>3, <1>5 DEF T
<1>7. last \in T
  BY <1>1, <1>4, <1>6, StepByStep
<1> QED
  BY <1>7 DEF T, F, G

\* The migrations an empty database has behind it and those it has before it
\* are together those of a fresh installation.
LEMMA FreshContinues ==
    ASSUME NEW d, NEW k \in Nat, NEW last \in Nat, k <= last, NEW y \in FreshSchemas(d, k),
           NEW b \in Migrated(Up(d), k + 1, last, y, FreshSetting)
    PROVE  b \in FreshSchemas(d, last)
<1> DEFINE F(n) == Migrated(Up(d), k + 1, n, y, FreshSetting)
           T == {n \in 0 .. last : n >= k => F(n) \subseteq FreshSchemas(d, n)}
<1>1. \A n \in 0 .. last :
        F(n) = IF n < k + 1 THEN {y} ELSE AfterMigration(Up(d)[n], F(n - 1), FreshSetting)
  <2> DEFINE first == k + 1
  <2>1. first \in Nat /\ first # 0
    OBVIOUS
  <2> HIDE DEF first
  <2>2. \A n \in 0 .. last :
          Migrated(Up(d), first, n, y, FreshSetting) =
            IF n < first THEN {y}
            ELSE AfterMigration(Up(d)[n], Migrated(Up(d), first, n - 1, y, FreshSetting),
                                FreshSetting)
    BY <2>1, MigratedStep
  <2> QED
    BY <2>2 DEF first
<1>2. \A n \in 1 .. last :
        FreshSchemas(d, n) = AfterMigration(Up(d)[n], FreshSchemas(d, n - 1), FreshSetting)
  BY MigratedStep DEF FreshSchemas
<1> HIDE DEF F
<1>3. 0 \in T
  BY <1>1
<1>4. ASSUME NEW n \in 1 .. last, n - 1 \in T
      PROVE  n \in T
  <2>1. CASE n < k
    BY <2>1
  <2>2. CASE n = k
    BY <1>1, <2>2
  <2>3. CASE n > k
    <3>1. F(n) = AfterMigration(Up(d)[n], F(n - 1), FreshSetting)
      BY <1>1, <2>3
    <3>2. F(n - 1) \subseteq FreshSchemas(d, n - 1)
      BY <1>4, <2>3
    <3> QED
      BY <1>2, <3>1, <3>2 DEF AfterMigration
  <2> QED
    BY <2>1, <2>2, <2>3
<1> HIDE DEF T
<1>5. T \in SUBSET (0 .. last)
  BY DEF T
<1>6. last \in T
  BY <1>3, <1>4, <1>5, StepByStep
<1> QED
  BY <1>6 DEF T, F

LEMMA NothingMirrorsNothing == Mirrors(Nothing, Nothing)
  BY DEF Mirrors, Nothing

LEMMA FreshCoversItself == CoversFresh(FreshSetting)
  BY DEF CoversFresh, FreshSetting

\* A fresh installation holds nothing: it is its own empty copy.
LEMMA ExecutedKeepsEmpty ==
    ASSUME NEW m, Migration(m), NEW x, Mirrors(x, x), NEW a \in Executed(m, x, FreshSetting)
    PROVE  Mirrors(a, a)
<1> DEFINE N == Len(m)
<1>1. N \in Nat
  BY DEF Migration
<1>2. PICK f : Reaches(f, m, x, FreshSetting)
  BY ExecutedRuns
<1> DEFINE T == {i \in 0 .. N : \A p \in f[i] : Mirrors(p, p)}
<1>3. 0 \in T
  BY <1>1, <1>2 DEF Reaches
<1>4. ASSUME NEW i \in 1 .. N, i - 1 \in T
      PROVE  i \in T
  <2> SUFFICES ASSUME NEW p \in f[i]
               PROVE  Mirrors(p, p)
    BY <1>1
  <2>1. PICK t \in f[i - 1] : Accepts(m[i], t, FreshSetting) /\ p = Effect(m[i], t)
    BY <1>2 DEF AfterStatement, Reaches
  <2>2. Mirrors(t, t)
    BY <1>4, <2>1
  <2>3. Statement(m[i])
    BY DEF Migration
  <2> QED
    BY <2>1, <2>2, <2>3, StatementMirrors, FreshCoversItself
<1> HIDE DEF T, N
<1>5. T \in SUBSET (0 .. N)
  BY DEF T
<1>6. N \in T
  BY <1>1, <1>3, <1>4, <1>5, StepByStep
<1> QED
  BY <1>2, <1>6 DEF T, N, Reaches

LEMMA MirrorsItself ==
    ASSUME NEW d \in {"POSTGRESQL", "SQLITE"}, NEW n \in 0 .. Latest, NEW s \in FreshSchemas(d, n)
    PROVE  Mirrors(s, s)
<1> DEFINE T == {i \in 0 .. n : \A t \in FreshSchemas(d, i) : Mirrors(t, t)}
<1>1. n \in Nat /\ n <= Latest
  BY DEF Latest
<1>2. /\ FreshSchemas(d, 0) = {Nothing}
      /\ \A i \in 1 .. n :
           FreshSchemas(d, i) = AfterMigration(Up(d)[i], FreshSchemas(d, i - 1), FreshSetting)
  BY <1>1, MigratedStep DEF FreshSchemas
<1>3. 0 \in T
  BY <1>1, <1>2, NothingMirrorsNothing
<1>4. ASSUME NEW i \in 1 .. n, i - 1 \in T
      PROVE  i \in T
  <2> SUFFICES ASSUME NEW t \in FreshSchemas(d, i)
               PROVE  Mirrors(t, t)
    BY <1>1
  <2>1. PICK u \in FreshSchemas(d, i - 1) : t \in Executed(Up(d)[i], u, FreshSetting)
    BY <1>2 DEF AfterMigration
  <2>2. i \in 1 .. Latest
    BY <1>1 DEF Latest
  <2>3. Migration(Up(d)[i])
    BY <2>2, MigrationsAreLists
  <2>4. Mirrors(u, u)
    BY <1>4
  <2> QED
    BY <2>1, <2>3, <2>4, ExecutedKeepsEmpty
<1> HIDE DEF T
<1>5. T \in SUBSET (0 .. n)
  BY DEF T
<1>6. n \in T
  BY <1>1, <1>3, <1>4, <1>5, StepByStep
<1> QED
  BY <1>6 DEF T

\* The empty copy has the same shape, and a table's shape tells the copies.
LEMMA MirrorsHaveShape ==
    ASSUME NEW x, NEW y, Mirrors(x, y)
    PROVE  Shape(x) = Shape(y)
<1> DEFINE Plain(t) == [t EXCEPT !.data = DOMAIN @, !.rows = FALSE]
<1>1. ASSUME NEW t, NEW u, IsTable(t), IsTable(u), Alike(t, u)
      PROVE  Plain(t) = Plain(u)
  BY <1>1 DEF IsTable, Alike, Columns
<1>2. Shape(x) = [n \in DOMAIN x |-> Plain(x[n])] /\ Shape(y) = [n \in DOMAIN y |-> Plain(y[n])]
  BY DEF Shape
<1> HIDE DEF Plain
<1>3. DOMAIN x = DOMAIN y /\ \A n \in DOMAIN x : Plain(x[n]) = Plain(y[n])
  BY <1>1 DEF Mirrors
<1> QED
  BY <1>2, <1>3

LEMMA ShapeTellsCopies ==
    ASSUME NEW x, NEW y, NEW z, Mirrors(x, y), Mirrors(z, z), Shape(y) = Shape(z)
    PROVE  Mirrors(x, z)
<1> DEFINE Plain(t) == [t EXCEPT !.data = DOMAIN @, !.rows = FALSE]
<1>1. ASSUME NEW t, NEW u, IsTable(t), IsTable(u), Plain(t) = Plain(u)
      PROVE  Alike(t, u)
  <2>1. ASSUME NEW v, IsTable(v)
        PROVE  /\ Plain(v).data = Columns(v)
               /\ Plain(v).required = v.required
               /\ Plain(v).unique = v.unique
               /\ Plain(v).refs = v.refs
               /\ Plain(v).indexes = v.indexes
    BY <2>1, SMTT(30) DEF IsTable, Columns
  <2> HIDE DEF Plain
  <2> QED
    BY <1>1, <2>1 DEF Alike
<1>2. Shape(y) = [n \in DOMAIN y |-> Plain(y[n])] /\ Shape(z) = [n \in DOMAIN z |-> Plain(z[n])]
  BY DEF Shape
<1> HIDE DEF Plain
<1>3. DOMAIN y = DOMAIN z /\ \A n \in DOMAIN y : Plain(y[n]) = Plain(z[n])
  BY <1>2
<1>4. \A n \in DOMAIN y : Alike(y[n], z[n])
  BY <1>1, <1>3 DEF Mirrors
<1> QED
  BY <1>3, <1>4 DEF Mirrors, Alike

-----------------------------------------------------------------------------
(***************************************************************************)
(* The installation                                                        *)
(***************************************************************************)
Installed ==
  /\ dialect \in Dialects
  /\ known \in Releases
  /\ applied \in 0 .. known
  /\ server \in {"stopped", "running", "failed"}
  /\ server = "running" => applied = known
  /\ obstacles \subseteq {"case_conflict", "images_mounted"}

\* The inductive invariant of SchemaTypeOK: the schema has an empty copy.
HasEmptyCopy == \E y : Mirrors(schema, y)
SchemaSound == Installed /\ HasEmptyCopy

LEMMA SettingCovers == CoversFresh(Setting)
<1>1. Setting.obstacles = obstacles \cup {"never_undone"} /\ Setting.expected = Expected(known)
  BY DEF Setting
<1>2. \A e \in DOMAIN Legacy :
        e \in DOMAIN Expected(known) /\ Expected(known)[e] = Legacy[e]
  BY DEF Expected
<1> QED
  BY <1>1, <1>2 DEF CoversFresh, FreshSetting

LEMMA InstalledNumbers ==
    ASSUME Installed
    PROVE  /\ dialect \in {"POSTGRESQL", "SQLITE"}
           /\ known \in 1 .. Latest /\ known \in 0 .. Latest /\ applied \in 0 .. Latest
           /\ applied \in Nat /\ known \in Nat /\ applied <= known
           /\ applied + 1 \in Nat /\ applied + 1 # 0
  BY SchemaAssumption DEF Installed, Latest

LEMMA InstalledInit == SchemaInit => Installed /\ applied = 0 /\ schema = Nothing
  BY SchemaAssumption DEF SchemaInit, Installed, Latest

LEMMA InstalledStep == Installed /\ [SchemaNext]_schemaVars => Installed'
<1> SUFFICES ASSUME Installed, [SchemaNext]_schemaVars
             PROVE  Installed'
  OBVIOUS
<1>1. known \in Nat /\ applied \in 0 .. known
  BY InstalledNumbers DEF Installed
<1>2. CASE Start
  BY <1>1, <1>2 DEF Start, Installed
<1>3. CASE StartFails \/ Stop
  BY <1>3 DEF StartFails, Stop, Installed
<1>4. CASE Use
  BY <1>4 DEF Use, Installed
<1>5. CASE Install
  <2>1. known' \in Releases /\ known' > known /\ known' \in Nat
    BY <1>5, SchemaAssumption DEF Install, Latest
  <2>2. applied' \in 0 .. known'
    BY <1>1, <1>5, <2>1 DEF Install
  <2> QED
    BY <1>5, <2>1, <2>2 DEF Install, Installed
<1>6. CASE CaseConflictArises \/ VolumeMounted \/ ObstacleRemoved
  BY <1>6 DEF CaseConflictArises, VolumeMounted, ObstacleRemoved, Installed
<1>7. CASE Revert
  BY <1>1, <1>7 DEF Revert, Installed, V13
<1>8. CASE UNCHANGED schemaVars
  BY <1>8 DEF schemaVars, Installed
<1> QED
  BY <1>2, <1>3, <1>4, <1>5, <1>6, <1>7, <1>8 DEF SchemaNext

\* Rows with a value in every column leave the tables alike.
LEMMA UseMirrors ==
    ASSUME NEW y, Mirrors(schema, y), Use
    PROVE  Mirrors(schema', y)
<1>1. PICK used :
        schema' = [n \in DOMAIN schema |-> IF n \in used THEN Filled(schema[n]) ELSE schema[n]]
  BY DEF Use
<1>2. ASSUME NEW t, IsTable(t)
      PROVE  IsTable(Filled(t)) /\ Alike(Filled(t), t)
  BY <1>2 DEF IsTable, Alike, Filled, Columns
<1>3. SameTables(schema', schema)
  BY <1>1, <1>2 DEF SameTables, Mirrors, Alike
<1>4. SameTables(y, y) /\ HoldsNothing(y)
  BY DEF Mirrors, Alike, SameTables, HoldsNothing
<1> QED
  BY <1>3, <1>4, DataMirrors

LEMMA SchemaSoundStep == SchemaSound /\ [SchemaNext]_schemaVars => SchemaSound'
<1> SUFFICES ASSUME SchemaSound, [SchemaNext]_schemaVars
             PROVE  HasEmptyCopy'
  BY InstalledStep DEF SchemaSound
<1>1. PICK y : Mirrors(schema, y)
  BY DEF SchemaSound, HasEmptyCopy
<1>2. Installed
  BY DEF SchemaSound
<1>3. CASE Start
  <2>1. schema' \in Migrated(Up(dialect), applied + 1, known, schema, Setting)
    BY <1>3 DEF Start, Upgraded
  <2>2. \E z : Mirrors(schema', z)
    BY <1>1, <1>2, <2>1, InstalledNumbers, SettingCovers, MigratedMirrors
  <2> QED
    BY <2>2 DEF HasEmptyCopy
<1>4. CASE Use
  <2>1. Mirrors(schema', y)
    BY <1>1, <1>4, UseMirrors
  <2> QED
    BY <2>1 DEF HasEmptyCopy
<1>5. CASE Revert
  <2>1. schema' \in Executed(Down(dialect)[applied], schema, Setting)
    BY <1>5 DEF Revert
  <2>2. applied \in V13 .. Latest
    BY <1>2, <1>5, InstalledNumbers DEF Revert, V13, Latest
  <2>3. Migration(Down(dialect)[applied])
    BY <1>2, <2>2, InstalledNumbers, MigrationsAreLists
  <2>4. \E z : Mirrors(schema', z)
    BY <1>1, <2>1, <2>3, SettingCovers, ExecutedMirrors
  <2> QED
    BY <2>4 DEF HasEmptyCopy
<1>6. CASE UNCHANGED schema
  BY <1>1, <1>6 DEF HasEmptyCopy
<1>7. \/ Start \/ Use \/ Revert \/ UNCHANGED schema
  BY DEF SchemaNext, schemaVars, StartFails, Stop, Install, CaseConflictArises, VolumeMounted,
         ObstacleRemoved
<1> QED
  BY <1>3, <1>4, <1>5, <1>6, <1>7

\* Whatever an installation goes through, in its order of releases: the
\* server runs only on the schema of its release, and no table keeps a key
\* or a reference on a column a migration dropped (SchemaTypeOK).
THEOREM SchemaTypeCorrect == SchemaSpec => []SchemaTypeOK
<1>1. SchemaInit => SchemaSound
  <2> SUFFICES ASSUME SchemaInit
               PROVE  SchemaSound
    OBVIOUS
  <2>1. Mirrors(schema, Nothing)
    BY InstalledInit, NothingMirrorsNothing
  <2> QED
    BY <2>1, InstalledInit DEF SchemaSound, HasEmptyCopy
<1>2. SchemaSound /\ [SchemaNext]_schemaVars => SchemaSound'
  BY SchemaSoundStep
<1>3. SchemaSound => SchemaTypeOK
  <2> SUFFICES ASSUME SchemaSound
               PROVE  SchemaTypeOK
    OBVIOUS
  <2>1. \A name \in DOMAIN schema : WholeTable(schema[name])
    BY DEF SchemaSound, HasEmptyCopy, Mirrors
  <2> QED
    BY <2>1 DEF SchemaSound, Installed, SchemaTypeOK, WholeTable
<1> QED
  BY <1>1, <1>2, <1>3, PTL DEF SchemaSpec

-----------------------------------------------------------------------------
(***************************************************************************)
(* From the empty database to every other.  SoundMigrations speaks of       *)
(* fresh installations only, a few dozen schemas which TLC computes; what   *)
(* follows carries it over to every order of releases, reverts and obstacles *)
(* and to whatever is stored.                                              *)
(***************************************************************************)

\* The inductive invariant: the empty copy of the schema is the schema of a
\* fresh installation of as many migrations.
HasFreshCopy == \E y \in FreshSchemas(dialect, applied) : Mirrors(schema, y)
FollowsFresh == Installed /\ HasFreshCopy

LEMMA FreshAtZero ==
    ASSUME NEW d
    PROVE  FreshSchemas(d, 0) = {Nothing}
<1>1. \A n \in Nat : n < 1 => FreshSchemas(d, n) = {Nothing}
  BY MigratedStep DEF FreshSchemas
<1> QED
  BY <1>1

LEMMA FollowsFreshInit == SchemaInit => FollowsFresh
<1> SUFFICES ASSUME SchemaInit
             PROVE  FollowsFresh
  OBVIOUS
<1>1. Installed /\ applied = 0 /\ schema = Nothing
  BY InstalledInit
<1>2. FreshSchemas(dialect, 0) = {Nothing}
  BY FreshAtZero
<1> QED
  BY <1>1, <1>2, NothingMirrorsNothing DEF FollowsFresh, HasFreshCopy

\* The pending migrations of a release lead to its fresh schema.
LEMMA StartFollows ==
    ASSUME FollowsFresh, Start
    PROVE  HasFreshCopy'
<1>1. Installed
  BY DEF FollowsFresh
<1>2. PICK y \in FreshSchemas(dialect, applied) : Mirrors(schema, y)
  BY DEF FollowsFresh, HasFreshCopy
<1>3. schema' \in Migrated(Up(dialect), applied + 1, known, schema, Setting)
  BY DEF Start, Upgraded
<1>4. PICK z \in Migrated(Up(dialect), applied + 1, known, y, FreshSetting) : Mirrors(schema', z)
  BY <1>1, <1>2, <1>3, InstalledNumbers, SettingCovers, MigratedMirrors
<1>5. z \in FreshSchemas(dialect, known)
  BY <1>1, <1>2, <1>4, InstalledNumbers, FreshContinues
<1>6. dialect' = dialect /\ applied' = known
  BY DEF Start
<1> QED
  BY <1>4, <1>5, <1>6 DEF HasFreshCopy

\* A reverted migration leads back to the fresh schema before it.
LEMMA RevertFollows ==
    ASSUME SoundMigrations, FollowsFresh, Revert
    PROVE  HasFreshCopy'
<1>1. Installed
  BY DEF FollowsFresh
<1>2. PICK y \in FreshSchemas(dialect, applied) : Mirrors(schema, y)
  BY DEF FollowsFresh, HasFreshCopy
<1>3. schema' \in Executed(Down(dialect)[applied], schema, Setting)
  BY DEF Revert
<1>4. applied \in V13 .. Latest
  BY <1>1, InstalledNumbers DEF Revert, V13, Latest
<1>5. Migration(Down(dialect)[applied])
  BY <1>1, <1>4, InstalledNumbers, MigrationsAreLists
<1>6. PICK t \in Executed(Down(dialect)[applied], y, FreshSetting) : Mirrors(schema', t)
  BY <1>2, <1>3, <1>5, SettingCovers, ExecutedMirrors
<1>7. PICK u \in FreshSchemas(dialect, applied - 1) : Shape(t) = Shape(u)
  BY <1>1, <1>2, <1>4, <1>6 DEF SoundMigrations, SoundDialects, Installed
<1>8. applied - 1 \in 0 .. Latest
  BY <1>4 DEF V13, Latest
<1>9. Mirrors(u, u)
  BY <1>1, <1>7, <1>8, InstalledNumbers, MirrorsItself
<1>10. Mirrors(schema', u)
  BY <1>6, <1>7, <1>9, ShapeTellsCopies
<1>11. dialect' = dialect /\ applied' = applied - 1
  BY DEF Revert
<1> QED
  BY <1>7, <1>10, <1>11 DEF HasFreshCopy

LEMMA FollowsFreshStep ==
    ASSUME SoundMigrations
    PROVE  FollowsFresh /\ [SchemaNext]_schemaVars => FollowsFresh'
<1> SUFFICES ASSUME FollowsFresh, [SchemaNext]_schemaVars
             PROVE  HasFreshCopy'
  BY InstalledStep DEF FollowsFresh
<1>1. PICK y \in FreshSchemas(dialect, applied) : Mirrors(schema, y)
  BY DEF FollowsFresh, HasFreshCopy
<1>2. CASE Start
  BY <1>2, StartFollows
<1>3. CASE Revert
  BY <1>3, RevertFollows
<1>4. CASE Use
  <2>1. Mirrors(schema', y)
    BY <1>1, <1>4, UseMirrors
  <2>2. dialect' = dialect /\ applied' = applied
    BY <1>4 DEF Use
  <2> QED
    BY <2>1, <2>2 DEF HasFreshCopy
<1>5. CASE UNCHANGED <<dialect, applied, schema>>
  BY <1>1, <1>5 DEF HasFreshCopy
<1>6. \/ Start \/ Revert \/ Use \/ UNCHANGED <<dialect, applied, schema>>
  BY DEF SchemaNext, schemaVars, StartFails, Stop, Install, CaseConflictArises, VolumeMounted,
         ObstacleRemoved
<1> QED
  BY <1>2, <1>3, <1>4, <1>5, <1>6

\* Whatever releases an installation passed through, in whatever order
\* migrations were undone and done again, and whatever is stored: its schema
\* is the one of a fresh installation (the migrations table of TypeORM counts
\* migrations only, nothing in the code compares schemas).
THEOREM SchemasFollowMigrations ==
    ASSUME SoundMigrations
    PROVE  SchemaSpec => []SchemaFollowsMigrations
<1>1. FollowsFresh => SchemaFollowsMigrations
  <2> SUFFICES ASSUME FollowsFresh
               PROVE  SchemaFollowsMigrations
    OBVIOUS
  <2>1. PICK y \in FreshSchemas(dialect, applied) : Mirrors(schema, y)
    BY DEF FollowsFresh, HasFreshCopy
  <2>2. Shape(schema) = Shape(y)
    BY <2>1, MirrorsHaveShape
  <2>3. dialect \in Dialects /\ applied \in 0 .. Latest
    BY InstalledNumbers DEF FollowsFresh, Installed
  <2>4. FreshShapes[dialect][applied] = {Shape(s) : s \in FreshSchemas(dialect, applied)}
    BY <2>3 DEF FreshShapes
  <2> QED
    BY <2>2, <2>4 DEF SchemaFollowsMigrations
<1> QED
  BY <1>1, FollowsFreshInit, FollowsFreshStep, PTL DEF SchemaSpec

\* After the latest migration the tables are those the entities name, with
\* their columns, keys and ON DELETE rules, on both databases.
THEOREM UpgradesFitEntities ==
    ASSUME SoundMigrations
    PROVE  SchemaSpec => []FitsEntities
<1>1. FollowsFresh => FitsEntities
  <2> SUFFICES ASSUME FollowsFresh, applied = Latest
               PROVE  MatchesEntities(schema)
    BY DEF FitsEntities
  <2>1. PICK y \in FreshSchemas(dialect, applied) : Mirrors(schema, y)
    BY DEF FollowsFresh, HasFreshCopy
  <2>2. MatchesEntities(y)
    BY <2>1 DEF SoundMigrations, SoundDialects, FollowsFresh, Installed
  <2>3. /\ DOMAIN schema = DOMAIN y
        /\ \A n \in DOMAIN y : /\ Columns(schema[n]) = Columns(y[n])
                               /\ schema[n].required = y[n].required
                               /\ schema[n].unique = y[n].unique
                               /\ schema[n].refs = y[n].refs
    BY <2>1 DEF Mirrors, Alike
  <2> QED
    BY <2>2, <2>3 DEF MatchesEntities
<1> QED
  BY <1>1, FollowsFreshInit, FollowsFreshStep, PTL DEF SchemaSpec

\* No table in use references a table that is gone.
THEOREM UpgradesKeepReferences ==
    ASSUME SoundMigrations
    PROVE  SchemaSpec => []ReferencesExist
<1>1. FollowsFresh => ReferencesExist
  <2> SUFFICES ASSUME FollowsFresh
               PROVE  ReferencesHold(schema)
    BY DEF ReferencesExist
  <2>1. PICK y \in FreshSchemas(dialect, applied) : Mirrors(schema, y)
    BY DEF FollowsFresh, HasFreshCopy
  <2>2. dialect \in Dialects /\ applied \in 0 .. Latest
    BY InstalledNumbers DEF FollowsFresh, Installed
  <2>3. ReferencesHold(y)
    BY <2>1, <2>2 DEF SoundMigrations, SoundDialects
  <2>4. DOMAIN schema = DOMAIN y /\ \A n \in DOMAIN y : schema[n].refs = y[n].refs
    BY <2>1 DEF Mirrors, Alike
  <2> QED
    BY <2>3, <2>4 DEF ReferencesHold
<1> QED
  BY <1>1, FollowsFreshInit, FollowsFreshStep, PTL DEF SchemaSpec

=============================================================================

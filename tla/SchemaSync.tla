----------------------------- MODULE SchemaSync -----------------------------
(***************************************************************************)
(* Schema synchronisation: the catalogue is introspected, diff_schema()     *)
(* plans the statements that turn it into the schema of the program, and    *)
(* execute_schema_plan() runs them one by one, each committed on its own, so *)
(* any of them may be the last.  The catalogue and the effect of a statement *)
(* on it are the database's (external); PostgreSQL names its constraints and *)
(* refuses what others depend on.  Nobody else changes the schema meanwhile. *)
(***************************************************************************)
EXTENDS Naturals, Sequences, FiniteSets, SequencesExt

CONSTANTS
  Families,      \* subset of {"postgres", "sqlite"}
  Schemas,       \* the schemas the program has in turn: sequences of tables
  Printed,       \* PostgreSQL's spelling of a type, default or expression
  Reads,         \* the columns a check expression mentions
  Nextvals,      \* the default expressions that are a nextval()
  Collation,     \* the parts names are made of, in the order names are sorted by
  MaxDeploys,    \* bound: how often the program's schema changes
  MaxFailures    \* bound: statements that fail for their data or connection

ASSUME SchemaAssumption ==
  /\ Families \subseteq {"postgres", "sqlite"}
  /\ MaxDeploys \in Nat /\ MaxFailures \in Nat

VARIABLES
  family,
  db,         \* the catalogue: table name -> [cols, cons, idx]
  expected,   \* the program's schema
  calling,    \* a synchronisation is running
  mode,       \* its allow_destructive: [plan, run]
  todo,       \* statements it has still to run
  before,     \* the catalogue it started from
  left,       \* what it had to run when it stopped
  outcome,    \* of the last one: "none" | "done" | "failed" | "refused"
  deploys, failures

vars == <<family, db, expected, calling, mode, todo, before, left, outcome, deploys, failures>>

NoName == <<>>
NoText == ""
NoRef  == <<>>

(* An expected table is [name, cols, pk, idx, checks], a column [name, type, *)
(* notNull, unique, uname, default, identity, check, ref, rname], a reference *)
(* <<table, column, actions>>, a check [name, expr].  A constraint of the    *)
(* catalogue is [kind, name, cols, body].                                    *)
Con(kind, name, cols, body) == [kind |-> kind, name |-> name, cols |-> cols, body |-> body]

-----------------------------------------------------------------------------
(* The database.                                                            *)
Postgres  == family = "postgres"
Name(t, c, suffix) == <<t, c, suffix>>
Taken(cons, name)  == \E x \in cons : x.name = name
Fresh(cons, name)  ==
  IF ~Taken(cons, name) THEN name
  ELSE LET n == CHOOSE n \in 1..(Cardinality(cons) + 1) :
                  /\ ~Taken(cons, Append(name, ToString(n)))
                  /\ \A m \in 1..(n - 1) : Taken(cons, Append(name, ToString(m)))
       IN  Append(name, ToString(n))

CheckName(t, expr) ==
  IF Cardinality(Reads[expr]) = 1 THEN Name(t, CHOOSE c \in Reads[expr] : TRUE, "check") ELSE <<t, "check">>
AddCheck(cons, t, name, expr) ==
  cons \union {Con("check", IF name = NoName THEN Fresh(cons, CheckName(t, expr)) ELSE name,
                   SetToSeq(Reads[expr]), <<expr>>)}
Or(name, implicit) == IF name = NoName THEN implicit ELSE name

(* The constraints written beside a column.                                 *)
UniqueOf(t, col) ==
  IF ~col.unique THEN {} ELSE {Con("unique", Or(col.uname, Name(t, col.name, "key")), <<col.name>>, <<>>)}
ReferenceOf(t, col) ==
  IF col.ref = NoRef THEN {} ELSE {Con("fk", Or(col.rname, Name(t, col.name, "fkey")), <<col.name>>, col.ref)}
Inline(cons, t, col) ==
  LET plain == cons \union UniqueOf(t, col) \union ReferenceOf(t, col)
  IN  IF col.check = NoText THEN plain ELSE AddCheck(plain, t, NoName, col.check)
Stored(col, identity) ==
  [type |-> col.type, notNull |-> col.notNull, default |-> col.default, identity |-> identity]

Created(table) ==
  LET t     == table.name
      key   == {Con("pk", <<t, "pkey">>, table.pk, <<>>)}
      cols  == FoldLeft(LAMBDA cons, col : Inline(cons, t, col), key, table.cols)
      cons  == FoldLeft(LAMBDA acc, check : AddCheck(acc, t, check.name, check.expr), cols, table.checks)
      names == {table.cols[i].name : i \in DOMAIN table.cols}
      col(c) == table.cols[CHOOSE i \in DOMAIN table.cols : table.cols[i].name = c]
  IN  [cols |-> [c \in names |-> Stored(col(c), col(c).identity)], cons |-> cons, idx |-> {}]

Keys(d, t, c)    == t \in DOMAIN d /\ \E x \in d[t].cons : x.kind \in {"pk", "unique"} /\ x.cols = <<c>>
DependsOn(d, t, c) == \E u \in DOMAIN d : \E x \in d[u].cons : x.kind = "fk" /\ x.body[1] = t /\ x.body[2] = c
RefersTo(d, t)   == \E u \in DOMAIN d \ {t} : \E x \in d[u].cons : x.kind = "fk" /\ x.body[1] = t
Possible(d, t, x) ==
  /\ ~Taken(d[t].cons, x.name)
  /\ ToSet(x.cols) \subseteq DOMAIN d[t].cols
  /\ x.kind = "pk" => \A y \in d[t].cons : y.kind # "pk"
  /\ x.kind = "fk" => Keys(d, x.body[1], x.body[2])
Targets(d, t, cols, own) ==
  \A i \in DOMAIN cols : cols[i].ref # NoRef =>
    Keys(d, cols[i].ref[1], cols[i].ref[2]) \/ (own /\ cols[i].ref[1] = t)

(* What the catalogue itself forbids.                                       *)
Refused(d, st) ==
  LET t == st.table IN
  CASE st.op = "create"  -> t \notin DOMAIN d /\ Postgres /\ ~Targets(d, t, st.def.cols, TRUE)
    [] st.op = "addCol"  -> \/ st.col.name \in DOMAIN d[t].cols
                            \/ Postgres /\ ~Targets(d, t, <<st.col>>, FALSE)
                            \/ ~Postgres /\ st.col.ref # NoRef /\ st.col.default # NoText
    [] st.op = "dropCol" -> DependsOn(d, t, st.column)
    [] st.op = "addCon"  -> ~Possible(d, t, st.con)
    [] st.op = "dropCon" -> \/ ~Taken(d[t].cons, st.name)
                            \/ \E x \in d[t].cons : /\ x.name = st.name /\ x.kind \in {"pk", "unique"}
                                                    /\ Len(x.cols) = 1 /\ DependsOn(d, t, x.cols[1])
    [] st.op = "rename"  -> ~Taken(d[t].cons, st.name) \/ Taken(d[t].cons, st.to)
    [] st.op = "notNull" -> ~st.value /\ (d[t].cols[st.column].identity
                                          \/ \E x \in d[t].cons : x.kind = "pk" /\ st.column \in ToSet(x.cols))
    [] st.op = "identity" -> st.value /\ ~(d[t].cols[st.column].notNull /\ d[t].cols[st.column].default = NoText)
    [] st.op = "addCheck" -> st.name # NoName /\ Taken(d[t].cons, st.name)
    [] st.op = "dropTable" -> t \in DOMAIN d /\ RefersTo(d, t) /\ Postgres
    [] OTHER -> FALSE

Without(f, x) == [y \in DOMAIN f \ {x} |-> f[y]]
With(f, x, v) == [y \in DOMAIN f \union {x} |-> IF y = x THEN v ELSE f[y]]
Apply(d, st) ==
  LET t == st.table IN
  CASE st.op = "create"  -> IF t \in DOMAIN d THEN d ELSE With(d, t, Created(st.def))
    [] st.op = "addCol"  -> [d EXCEPT ![t].cols = With(@, st.col.name, Stored(st.col, FALSE)),
                                      ![t].cons = Inline(@, t, st.col)]
    [] st.op = "dropCol" -> [d EXCEPT ![t].cols = Without(@, st.column),
                                      ![t].cons = {x \in @ : st.column \notin ToSet(x.cols)},
                                      ![t].idx = {x \in @ : st.column \notin ToSet(x.cols)}]
    [] st.op = "addCon"  -> [d EXCEPT ![t].cons = @ \union {st.con},
                                      ![t].cols = [c \in DOMAIN @ |->
                                         IF st.con.kind = "pk" /\ c \in ToSet(st.con.cols)
                                         THEN [@[c] EXCEPT !.notNull = TRUE] ELSE @[c]]]
    [] st.op = "addCheck" -> [d EXCEPT ![t].cons = AddCheck(@, t, st.name, st.expr)]
    [] st.op = "dropCon" -> [d EXCEPT ![t].cons = {x \in @ : x.name # st.name}]
    [] st.op = "rename"  -> [d EXCEPT ![t].cons = {IF x.name = st.name THEN [x EXCEPT !.name = st.to] ELSE x : x \in @}]
    [] st.op = "type"    -> [d EXCEPT ![t].cols[st.column].type = st.text]
    [] st.op = "default" -> [d EXCEPT ![t].cols[st.column].default = st.text]
    [] st.op = "notNull" -> [d EXCEPT ![t].cols[st.column].notNull = st.value]
    [] st.op = "identity" -> [d EXCEPT ![t].cols[st.column].identity = st.value]
    [] st.op = "addIdx"  -> IF \E u \in DOMAIN d : Taken(d[u].idx, st.index.name) THEN d
                            ELSE [d EXCEPT ![t].idx = @ \union {st.index}]
    [] st.op = "dropIdx" -> [u \in DOMAIN d |-> [d[u] EXCEPT !.idx = {x \in @ : x.name # st.name}]]
    [] st.op = "dropTable" -> Without(d, t)

-----------------------------------------------------------------------------
(* introspect_postgres(), introspect_sqlite(): names the database would     *)
(* have chosen are no names, a check belongs to a column by its name.       *)
Text(x) == IF Postgres THEN Printed[x] ELSE x
Given(name, implicit) == IF name = implicit THEN NoName ELSE name
Position(part) == CHOOSE i \in DOMAIN Collation : Collation[i] = part
Precedes(m, n) ==                                     \* ORDER BY conname
  \E i \in 0..Len(m) : /\ i < Len(n) /\ SubSeq(m, 1, i) = SubSeq(n, 1, i)
                       /\ i < Len(m) => Position(m[i + 1]) < Position(n[i + 1])
OfKind(table, kind)   == {x \in table.cons : x.kind = kind}
OnColumn(table, kind, c) == {x \in OfKind(table, kind) : x.cols = <<c>>}
The(S) == CHOOSE x \in S : TRUE

ColumnChecks(t, table) == {x \in OfKind(table, "check") : \E c \in DOMAIN table.cols :
                                                            x.cols = <<c>> /\ x.name = Name(t, c, "check")}
IntrospectColumn(t, table, c) ==
  LET col    == table.cols[c]
      unique == OnColumn(table, "unique", c)
      ref    == OnColumn(table, "fk", c)
      check  == ColumnChecks(t, table) \intersect OnColumn(table, "check", c)
  IN  [name |-> c, type |-> Text(col.type), notNull |-> col.notNull,
       default |-> Text(col.default), identity |-> col.identity \/ (Postgres /\ col.default \in Nextvals),
       unique |-> unique # {}, uname |-> IF unique = {} THEN NoName ELSE Given(The(unique).name, Name(t, c, "key")),
       check |-> IF check = {} THEN NoText ELSE Text(The(check).body[1]),
       ref |-> IF ref = {} THEN NoRef ELSE The(ref).body,
       rname |-> IF ref = {} THEN NoName ELSE Given(The(ref).name, Name(t, c, "fkey"))]
(* Those of keys and constraints are the database's own and left out.       *)
Indexes(table) == table.idx
IntrospectTable(d, t) ==
  LET table == d[t]
      keys  == OfKind(table, "pk")
      checks == SetToSortSeq(OfKind(table, "check") \ ColumnChecks(t, table),
                             LAMBDA x, y : Precedes(x.name, y.name))
  IN  [name |-> t, cols |-> [c \in DOMAIN table.cols |-> IntrospectColumn(t, table, c)],
       pk |-> IF keys = {} THEN <<>> ELSE The(keys).cols,
       pkName |-> IF keys = {} THEN NoName ELSE Given(The(keys).name, <<t, "pkey">>),
       idx |-> Indexes(table),
       checks |-> [i \in DOMAIN checks |-> [name |-> Given(checks[i].name, <<t, "check">>),
                                           expr |-> Text(checks[i].body[1])]]]
Introspect(d) == [t \in DOMAIN d |-> IntrospectTable(d, t)]

-----------------------------------------------------------------------------
(* diff_schema(): the changes of one column, constraint, index or table,    *)
(* [safe, statements]; a destructive one has none unless it is allowed.     *)
Safe(statements)        == <<[safe |-> TRUE, statements |-> statements]>>
Unsafe(d, statements)   == <<[safe |-> FALSE, statements |-> IF d THEN statements ELSE <<>>]>>
When(condition, changes) == IF condition THEN changes ELSE <<>>
ForEach(seq, F(_))      == FlattenSeq([i \in DOMAIN seq |-> F(seq[i])])
DropCon(t, name)        == [op |-> "dropCon", table |-> t, name |-> name]
AddCon(t, con)          == [op |-> "addCon", table |-> t, con |-> con]
Rename(t, from, to)     == [op |-> "rename", table |-> t, name |-> from, to |-> to]

(* Texts and references are compared in the library's normal form.          *)
ColumnDiff(e, a) == {field \in {"type", "default", "notNull", "identity"} : e[field] # a[field]}
SameReference(e, a) == e.ref # NoRef /\ e.ref = a.ref
ScalarAlterations(t, e, a) ==
  LET set(field)  == When(field \in ColumnDiff(e, a), <<[op |-> field, table |-> t, column |-> e.name, text |-> e[field]]>>)
      turn(field) == When(field \in ColumnDiff(e, a), <<[op |-> field, table |-> t, column |-> e.name, value |-> e[field]]>>)
  IN  set("type") \o set("default") \o turn("notNull") \o turn("identity")

DiffUnique(t, e, a, d) ==
  LET wanted == Or(e.uname, Name(t, e.name, "key"))
      actual == Or(a.uname, Name(t, a.name, "key"))
  IN  When(e.unique /\ ~a.unique, Safe(<<AddCon(t, Con("unique", wanted, <<e.name>>, <<>>))>>))
      \o When(~e.unique /\ a.unique, Unsafe(d, <<DropCon(t, actual)>>))
      \o When(e.unique /\ a.unique /\ actual # wanted, Safe(<<Rename(t, actual, wanted)>>))

(* mutant: a check that changes is dropped, the new one comes with the next *)
(* synchronisation.                                                         *)
DropsOnly(t, e, a, d) ==
  LET name == Name(t, e.name, "check") IN
      When(e.check # NoText /\ a.check = NoText,
           Safe(<<AddCon(t, Con("check", name, SetToSeq(Reads[e.check]), <<e.check>>))>>))
      \o When(a.check # NoText /\ e.check # a.check, Safe(<<DropCon(t, name)>>))
DiffCheck(t, e, a, d) ==
  LET name == Name(t, e.name, "check")
      add  == AddCon(t, Con("check", name, SetToSeq(Reads[e.check]), <<e.check>>))
  IN  When(e.check # NoText /\ a.check = NoText, Safe(<<add>>))
      \o When(e.check = NoText /\ a.check # NoText, Unsafe(d, <<DropCon(t, name)>>))
      \o When(e.check # NoText /\ a.check # NoText /\ e.check # a.check, Safe(<<DropCon(t, name), add>>))

DiffReference(t, e, a, d) ==
  LET wanted == Or(e.rname, Name(t, e.name, "fkey"))
      actual == Or(a.rname, Name(t, a.name, "fkey"))
      add    == AddCon(t, Con("fk", wanted, <<e.name>>, e.ref))
  IN  When(e.ref # NoRef /\ a.ref = NoRef, Safe(<<add>>))
      \o When(e.ref = NoRef /\ a.ref # NoRef, Unsafe(d, <<DropCon(t, actual)>>))
      \o When(SameReference(e, a) /\ actual # wanted, Safe(<<Rename(t, actual, wanted)>>))
      \o When(e.ref # NoRef /\ a.ref # NoRef /\ ~SameReference(e, a), Safe(<<DropCon(t, actual), add>>))

DiffPrimaryKey(e, a, d) ==
  LET add  == AddCon(e.name, Con("pk", <<e.name, "pkey">>, e.pk, <<>>))
      drop == DropCon(e.name, Or(a.pkName, <<e.name, "pkey">>))
  IN  CASE e.pk = a.pk  -> <<>>
        [] a.pk = <<>>  -> Safe(<<add>>)
        [] e.pk = <<>>  -> Unsafe(d, <<drop>>)
        [] OTHER        -> Unsafe(d, <<drop, add>>)

(* mutant: a check is matched with one that is taken.                       *)
MatchesTaken(e, a, acc, wanted) ==
  IF \E i \in DOMAIN a.checks : a.checks[i].expr = wanted.expr THEN acc
  ELSE [acc EXCEPT !.changes = @ \o Safe(<<[op |-> "addCheck", table |-> e.name, name |-> wanted.name, expr |-> wanted.expr]>>)]
(* diff_postgres_table_checks(): by name, else by text, among those not yet *)
(* taken; matched holds positions.                                          *)
MatchCheck(e, a, acc, wanted) ==
  LET free   == {i \in DOMAIN a.checks : i \notin acc.matched}
      named  == {i \in free : wanted.name # NoName /\ a.checks[i].name = wanted.name}
      alike  == {i \in free : a.checks[i].expr = wanted.expr}
      first(S) == CHOOSE i \in S : \A j \in S : i <= j
      add    == [op |-> "addCheck", table |-> e.name, name |-> wanted.name, expr |-> wanted.expr]
      take(i, changes) == [matched |-> acc.matched \union {i}, changes |-> acc.changes \o changes]
      actual(i) == Or(a.checks[i].name, <<e.name, "check">>)
  IN  IF named # {} THEN LET i == first(named) IN
           take(i, When(a.checks[i].expr # wanted.expr, Safe(<<DropCon(e.name, actual(i)), add>>)))
      ELSE IF alike # {} THEN LET i == first(alike) IN
           take(i, When(wanted.name # NoName /\ actual(i) # wanted.name,
                        Safe(<<Rename(e.name, actual(i), wanted.name)>>)))
      ELSE [acc EXCEPT !.changes = @ \o Safe(<<add>>)]
DiffTableChecks(e, a, d) ==
  LET none  == [matched |-> {}, changes |-> <<>>]
      found == FoldLeft(LAMBDA acc, wanted : MatchCheck(e, a, acc, wanted), none, e.checks)
      gone(i) == When(i \notin found.matched, Unsafe(d, <<DropCon(e.name, Or(a.checks[i].name, <<e.name, "check">>))>>))
  IN  found.changes \o FlattenSeq([i \in DOMAIN a.checks |-> gone(i)])

DropColumns(e, a, d, can) ==
  LET unwanted == DOMAIN a.cols \ {e.cols[i].name : i \in DOMAIN e.cols}
  IN  ForEach(SetToSeq(unwanted),
              LAMBDA c : Unsafe(d, When(can, <<[op |-> "dropCol", table |-> e.name, column |-> c]>>)))
AddIndex(t, index) == [op |-> "addIdx", table |-> t, index |-> index]
SameIndex(index, actual) == index \in actual
(* mutant: an index with the right name is the right index.                 *)
IndexesByName(e, a, d, replace) ==
  ForEach(e.idx, LAMBDA index : When(\A x \in a.idx : x.name # index.name,
                                     Safe(<<AddIndex(e.name, index)>>)))
DiffIndexes(e, a, d, replace) ==
  LET add(index)  == AddIndex(e.name, index)
      drop(name)  == [op |-> "dropIdx", table |-> e.name, name |-> name]
      actual(index) == {x \in a.idx : x.name = index.name}
      wanted(index) == When(actual(index) = {}, Safe(<<add(index)>>))
                       \o When(replace /\ actual(index) # {} /\ ~SameIndex(index, a.idx), Safe(<<drop(index.name), add(index)>>))
      unwanted    == {x \in a.idx : \A i \in DOMAIN e.idx : e.idx[i].name # x.name}
  IN  ForEach(e.idx, wanted) \o ForEach(SetToSeq(unwanted), LAMBDA x : Unsafe(d, <<drop(x.name)>>))

AddColumn(t, col) == [op |-> "addCol", table |-> t, col |-> col]
DiffPostgresColumn(e, a, d, col) ==
  IF col.name \notin DOMAIN a.cols THEN Safe(<<AddColumn(e.name, col)>>)
  ELSE LET actual == a.cols[col.name]
           scalar == ScalarAlterations(e.name, col, actual)
       IN  When(scalar # <<>>, Safe(scalar))
           \o DiffUnique(e.name, col, actual, d) \o DiffCheck(e.name, col, actual, d)
           \o DiffReference(e.name, col, actual, d)
DiffPostgresTable(e, a, d) ==
  ForEach(e.cols, LAMBDA col : DiffPostgresColumn(e, a, d, col))
  \o DiffPrimaryKey(e, a, d) \o DiffTableChecks(e, a, d) \o DropColumns(e, a, d, TRUE) \o DiffIndexes(e, a, d, TRUE)

(* SQLite changes no column, key or check; what differs is a warning.       *)
DiffSqliteTable(e, a, d) ==
  ForEach(e.cols, LAMBDA col : When(col.name \notin DOMAIN a.cols,
                                    IF col.unique THEN Unsafe(d, <<>>) ELSE Safe(<<AddColumn(e.name, col)>>)))
  \o DropColumns(e, a, d, FALSE) \o DiffIndexes(e, a, d, FALSE)

DiffTable(e, actual, d) ==
  IF e.name \notin DOMAIN actual
  THEN Safe(<<[op |-> "create", table |-> e.name, def |-> e]>>
            \o [i \in DOMAIN e.idx |-> AddIndex(e.name, e.idx[i])])
  ELSE IF Postgres THEN DiffPostgresTable(e, actual[e.name], d) ELSE DiffSqliteTable(e, actual[e.name], d)
Diff(schema, actual, d) ==
  LET unwanted == DOMAIN actual \ {schema[i].name : i \in DOMAIN schema}
  IN  ForEach(schema, LAMBDA e : DiffTable(e, actual, d))
      \o ForEach(SetToSeq(unwanted), LAMBDA t : Unsafe(d, <<[op |-> "dropTable", table |-> t]>>))

(* execute_schema_plan().                                                   *)
AllowedAnyway(change, r) == TRUE                      \* mutant: a destructive change is run
Allowed(change, r)       == change.safe \/ r
Statements(plan, r) == ForEach(plan, LAMBDA change : When(Allowed(change, r), change.statements))
Plan(schema, d, m)  == Statements(Diff(schema, Introspect(d), m.plan), m.run)

-----------------------------------------------------------------------------
Init ==
  /\ family \in Families /\ expected \in Schemas
  /\ db = <<>> /\ calling = FALSE /\ mode = [plan |-> FALSE, run |-> FALSE]
  /\ todo = <<>> /\ before = <<>> /\ left = <<>> /\ outcome = "none"
  /\ deploys = 0 /\ failures = 0

(* Another version of the program.                                          *)
Deploy ==
  /\ ~calling /\ deploys < MaxDeploys /\ outcome # "none"
  /\ \E schema \in Schemas \ {expected} : expected' = schema
  /\ deploys' = deploys + 1 /\ outcome' = "none"
  /\ UNCHANGED <<family, db, calling, mode, todo, before, left, failures>>

(* synchronize_schema(), or diff_schema() and execute_schema_plan() with    *)
(* options of their own.                                                    *)
Synchronize(m) ==
  /\ ~calling /\ (outcome = "done" => m # mode)
  /\ calling' = TRUE /\ mode' = m /\ before' = db
  /\ todo' = Plan(expected, db, m)
  /\ UNCHANGED <<family, db, expected, left, outcome, deploys, failures>>

Execute ==
  /\ calling /\ todo # <<>> /\ ~Refused(db, Head(todo))
  /\ db' = Apply(db, Head(todo)) /\ todo' = Tail(todo)
  /\ UNCHANGED <<family, expected, calling, mode, before, left, outcome, deploys, failures>>

Stop(how) ==
  /\ calling' = FALSE /\ todo' = <<>> /\ left' = todo /\ outcome' = how
  /\ UNCHANGED <<family, db, expected, mode, before, deploys>>
(* The exception leaves what ran before it where it is.                     *)
RefuseStatement == calling /\ todo # <<>> /\ Refused(db, Head(todo)) /\ Stop("refused") /\ UNCHANGED failures
FailStatement   == /\ calling /\ todo # <<>> /\ failures < MaxFailures
                   /\ Stop("failed") /\ failures' = failures + 1
Finish          == calling /\ todo = <<>> /\ Stop("done") /\ UNCHANGED failures

Next ==
  \/ Deploy
  \/ \E plan, run \in BOOLEAN : Synchronize([plan |-> plan, run |-> run])
  \/ Execute \/ RefuseStatement \/ FailStatement \/ Finish

Spec == Init /\ [][Next]_vars

-----------------------------------------------------------------------------
(* Properties.                                                             *)

(* Without allow_destructive no table, column, key or uniqueness goes, at   *)
(* any statement and whether or not the synchronisation gets to its end;    *)
(* one that does has lost no foreign key or check either: what it dropped   *)
(* it has put back.                                                        *)
Same(x, y) == x.kind = y.kind /\ x.cols = y.cols /\ x.body = y.body
SafeKeepsData ==
  ~(mode.plan /\ mode.run) =>
    \A t \in DOMAIN before :
      /\ t \in DOMAIN db
      /\ DOMAIN before[t].cols \subseteq DOMAIN db[t].cols
      /\ \A x \in before[t].cons :
           /\ x.kind \in {"pk", "unique"} => \E y \in db[t].cons : Same(x, y)
           /\ outcome = "done" /\ ~calling => \E y \in db[t].cons : x.kind = y.kind /\ x.cols = y.cols

(* Checks PostgreSQL gives back where they were declared: a column's check  *)
(* is about that column, an unnamed table check is about several and spelled *)
(* as PostgreSQL would.                                                     *)
Columns(table) == ToSet(table.cols)
Placed(table) ==
  Postgres =>
    /\ \A col \in Columns(table) : col.check # NoText => Reads[col.check] = {col.name}
    /\ \A check \in ToSet(table.checks) : check.name = NoName => /\ Cardinality(Reads[check.expr]) > 1
                                                              /\ Printed[check.expr] = check.expr
(* An unnamed check takes its named twin when that is read first.           *)
Twins(table) ==
  \E i, j \in DOMAIN table.checks :
    LET one == table.checks[i] other == table.checks[j] IN
    /\ i < j /\ one.name = NoName /\ other.name # NoName /\ one.expr = other.expr
    /\ Precedes(other.name, <<table.name, "check">>)
(* ADD COLUMN says nothing of identity.                                     *)
GainsIdentity(table) ==
  /\ Postgres /\ table.name \in DOMAIN before
  /\ \E col \in Columns(table) : col.identity /\ col.name \notin DOMAIN before[table.name].cols
(* CREATE INDEX IF NOT EXISTS is silent about a name another table has.    *)
NameIsTaken(table) ==
  \E index \in ToSet(table.idx) : \E t \in DOMAIN before \ {table.name} : Taken(before[t].idx, index.name)
Recognised ==
  \A table \in ToSet(expected) :
    Placed(table) /\ ~Twins(table) /\ ~GainsIdentity(table) /\ ~NameIsTaken(table)

(* Texts in PostgreSQL's own spelling; a nextval() default is read as an    *)
(* identity.                                                                *)
Verbatim(table) ==
  Postgres =>
    /\ \A col \in Columns(table) : /\ \A text \in {col.type, col.default, col.check} : Printed[text] = text
                                   /\ col.default \notin Nextvals
    /\ \A check \in ToSet(table.checks) : Printed[check.expr] = check.expr
Regular == Recognised /\ \A table \in ToSet(expected) : Verbatim(table)

(* A synchronisation that ran to its end leaves nothing for another one, or, *)
(* for texts in another spelling, nothing but to put back what is there: no  *)
(* constraint is duplicated, none lost, no statement refused.               *)
Rerun(d, statements) ==
  FoldLeft(LAMBDA acc, st : IF acc.ok /\ ~Refused(acc.db, st) THEN [acc EXCEPT !.db = Apply(@, st)]
                            ELSE [acc EXCEPT !.ok = FALSE],
           [db |-> d, ok |-> TRUE], statements)
Settled ==
  outcome = "done" /\ ~calling =>
    LET plan == Plan(expected, db, mode) IN
    /\ Regular => plan = <<>>
    /\ Recognised => Rerun(db, plan) = [db |-> db, ok |-> TRUE]

(* On PostgreSQL, when destructive changes are allowed, a schema that is     *)
(* reached through others is the schema an empty database would get: no      *)
(* constraint or column of an earlier version is left, none is missing.      *)
Scratch ==
  FoldLeft(LAMBDA d, e : FoldLeft(LAMBDA g, index : Apply(g, AddIndex(e.name, index)),
                                  Apply(d, [op |-> "create", table |-> e.name, def |-> e]), e.idx),
           <<>>, expected)
Shape(d) ==
  [t \in DOMAIN d |->
     [cols |-> [c \in DOMAIN d[t].cols |-> [d[t].cols[c] EXCEPT !.type = Text(@), !.default = Text(@)]],
      cons |-> {<<x.kind, x.cols, IF x.kind = "check" THEN <<Text(x.body[1])>> ELSE x.body>> : x \in d[t].cons},
      size |-> Cardinality(d[t].cons), idx |-> d[t].idx]]
Converges ==
  outcome = "done" /\ ~calling /\ Postgres /\ mode.plan /\ mode.run /\ Recognised => Shape(db) = Shape(Scratch)

(* One that stopped half-way is resumed: nothing it had done is done again. *)
Resumes ==
  [][~calling /\ calling' /\ outcome \in {"failed", "refused"} /\ mode' = mode /\ Regular =>
       ToSet(todo') \subseteq ToSet(left)]_vars
=============================================================================

------------------------------ MODULE SqlServer ------------------------------
(***************************************************************************)
(* The database as the clients see it: databases with tables, labels of    *)
(* loads, files written by exports, and the time.  A statement is a record *)
(* with the kind of its text and what the text names.  A condition on rows *)
(* is a function from the time to the rows it matches then, for it may     *)
(* speak of NOW().  A statement works in the database of the session it    *)
(* arrives on unless it names one.  External code.                         *)
(***************************************************************************)
EXTENDS Naturals, FiniteSets, Sequences, SequencesExt

CONSTANTS Rows,     \* rows that statements may insert
          Displayed \* the arguments a type is displayed with: a function of its base

NoLabel == <<>>
NoFilter == <<>>
TableKinds == {"drop table", "create index", "set bloom filter", "drop index", "insert",
               "insert select", "overwrite", "show create", "describe", "count",
               "show partitions", "export", "delete"}

\* The database a statement that arrives on a session of db works in.
Within(db, st) == IF "db" \in DOMAIN st THEN st.db ELSE db

HasTable(s, db, t) == db \in DOMAIN s.tables /\ t \in DOMAIN s.tables[db]

Copies(rows) == [r \in Rows |-> Cardinality({i \in DOMAIN rows : rows[i] = r})]
Both(one, other) == [r \in Rows |-> one[r] + other[r]]

\* The rows that the condition of st matches now, and those that an export then writes.
Filtered(s, st) == st.filter[s.now]
Exported(s, db, st) ==
    {<<db, st.table, r>> : r \in {x \in Filtered(s, st) : s.tables[db][st.table].rows[x] > 0}}

(* What a table definition becomes: a column is nullable unless NOT NULL    *)
(* says otherwise, and types are displayed with a width.                    *)
Stored(def) ==
    [columns |-> [i \in DOMAIN def.columns |->
        LET col == def.columns[i]
        IN  [name |-> col.name, base |-> col.base,
             args |-> IF col.base \in DOMAIN Displayed THEN Displayed[col.base] ELSE col.args,
             nullable |-> col.nullable]],
     keyType |-> def.keyType, keys |-> def.keys, distribution |-> def.distribution,
     comment |-> def.comment]
EmptyTable(def) == [shape |-> Stored(def), indexes |-> {}, bloom |-> <<>>,
                    rows |-> [r \in Rows |-> 0]]

(***************************************************************************)
(* Whether the server carries a statement out                              *)
(***************************************************************************)
Accepts(s, db, st) ==
    LET in == Within(db, st)
        there == HasTable(s, in, st.table)
    IN  CASE st.kind = "use" -> st.db \in DOMAIN s.tables
          [] st.kind = "create database" -> st.lenient \/ st.db \notin DOMAIN s.tables
          [] st.kind = "drop database" -> st.lenient \/ st.db \in DOMAIN s.tables
          [] st.kind = "show tables" -> in \in DOMAIN s.tables
          [] st.kind = "create table" -> in \in DOMAIN s.tables /\ (st.lenient \/ ~there)
          [] st.kind = "drop table" -> in \in DOMAIN s.tables /\ (st.lenient \/ there)
          [] st.kind = "create index" -> there /\ st.index \notin s.tables[in][st.table].indexes
          [] st.kind = "drop index" -> there /\ st.index \in s.tables[in][st.table].indexes
          [] st.kind = "insert" -> there /\ <<in, st.label>> \notin s.labels
          [] st.kind \in {"insert select", "overwrite"} ->
                there /\ HasTable(s, in, st.from) /\ <<in, st.label>> \notin s.labels
          [] OTHER -> there

(***************************************************************************)
(* What it leaves behind when it does                                      *)
(***************************************************************************)
\* f with v at x.
With(f, x, v) == [y \in DOMAIN f \cup {x} |-> IF y = x THEN v ELSE f[y]]
ChangeTable(s, db, t, table) == [s EXCEPT !.tables[db] = With(@, t, table)]
Used(s, db, label) == IF label = NoLabel THEN s ELSE [s EXCEPT !.labels = @ \cup {<<db, label>>}]

After(s, db, st) ==
    LET in == Within(db, st)
        table == s.tables[in][st.table]
        ChangeTo(new) == ChangeTable(s, in, st.table, new)
    IN  CASE st.kind = "create database" /\ st.db \notin DOMAIN s.tables ->
                [s EXCEPT !.tables = With(@, st.db, <<>>)]
          [] st.kind = "drop database" ->
                [s EXCEPT !.tables = Restrict(@, DOMAIN @ \ {st.db}),
                          !.labels = {l \in @ : l[1] # st.db}]
          [] st.kind = "create table" /\ ~HasTable(s, in, st.table) -> ChangeTo(EmptyTable(st.def))
          [] st.kind = "drop table" ->
                [s EXCEPT !.tables[in] = Restrict(@, DOMAIN @ \ {st.table})]
          [] st.kind = "create index" -> ChangeTo([table EXCEPT !.indexes = @ \cup {st.index}])
          [] st.kind = "drop index" -> ChangeTo([table EXCEPT !.indexes = @ \ {st.index}])
          [] st.kind = "set bloom filter" -> ChangeTo([table EXCEPT !.bloom = st.columns])
          [] st.kind = "insert" ->
                Used(ChangeTo([table EXCEPT !.rows = Both(@, Copies(st.rows))]), in, st.label)
          [] st.kind = "insert select" ->
                Used(ChangeTo([table EXCEPT !.rows = Both(@, s.tables[in][st.from].rows)]), in, st.label)
          [] st.kind = "overwrite" -> ChangeTo([table EXCEPT !.rows = s.tables[in][st.from].rows])
          [] st.kind = "export" ->
                [s EXCEPT !.files = @ \cup Exported(s, in, st)]
          [] st.kind = "delete" ->
                ChangeTo([table EXCEPT !.rows = [r \in Rows |-> IF r \in Filtered(s, st) THEN 0 ELSE @[r]]])
          [] OTHER -> s

(***************************************************************************)
(* What it answers                                                         *)
(***************************************************************************)
Shows(s, db, st) ==
    LET in == Within(db, st)
    IN  CASE st.kind = "show tables" -> SetToSeq(DOMAIN s.tables[in])
          [] st.kind = "show create" -> s.tables[in][st.table].shape
          [] st.kind = "describe" -> s.tables[in][st.table].shape.columns
          [] st.kind \in {"count", "export", "delete"} ->
                LET rows == s.tables[in][st.table].rows
                IN  FoldFunctionOnSet(LAMBDA n, m : n + m, 0, rows,
                                      IF "filter" \in DOMAIN st THEN Filtered(s, st) ELSE Rows)
          [] OTHER -> <<>>

\* The database of a session after a statement it was asked to carry out.
SessionAfter(s, db, st) == IF st.kind = "use" /\ Accepts(s, db, st) THEN st.db ELSE db
=============================================================================

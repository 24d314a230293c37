--------------------------- MODULE SqlClientProofs ---------------------------
(***************************************************************************)
(* Purges delete what archives have written, for any callers and           *)
(* operations, pools of any size and any number of sessions that break.    *)
(***************************************************************************)
EXTENDS SqlClient, FiniteSetTheorems, TLAPS

(***************************************************************************)
(* Sequences                                                               *)
(***************************************************************************)
LEMMA SeqWider == ASSUME NEW S, NEW T, S \subseteq T, NEW s, s \in Seq(S) PROVE s \in Seq(T)
OBVIOUS

LEMMA SeqParts ==
    ASSUME NEW S, NEW s, s \in Seq(S), s # <<>>
    PROVE  Head(s) \in S /\ Tail(s) \in Seq(S)
OBVIOUS

LEMMA SeqOne ==
    ASSUME NEW x
    PROVE  <<x>> \in Seq({x}) /\ <<x>> # <<>> /\ Head(<<x>>) = x /\ Tail(<<x>>) = <<>>
OBVIOUS

LEMMA SeqJoined ==
    ASSUME NEW S, NEW s, s \in Seq(S), NEW t, t \in Seq(S)
    PROVE  s \o t \in Seq(S)
OBVIOUS

LEMMA SeqDomain == ASSUME NEW S, NEW s, s \in Seq(S) PROVE Len(s) \in Nat /\ DOMAIN s = 1..Len(s)
OBVIOUS

LEMMA SeqByIndex ==
    ASSUME NEW n \in Nat, NEW s, s = [i \in 1..n |-> s[i]]
    PROVE  s \in Seq({s[i] : i \in 1..n})
OBVIOUS

LEMMA SeqWithin ==
    ASSUME NEW n \in Nat, NEW S, NEW s \in [1..n -> S]
    PROVE  s \in Seq(S)
OBVIOUS

LEMMA Batches == ASSUME NEW n \in Nat, NEW size \in Nat \ {0} PROVE (n + size - 1) \div size \in Nat
<1>1. PICK m \in Nat : m = n + size - 1
  OBVIOUS
<1>2. m \div size \in Nat
  OBVIOUS
<1> QED BY <1>1, <1>2

(***************************************************************************)
(* The server                                                              *)
(***************************************************************************)
ServerFields == {"tables", "labels", "files", "now"}
ServerOK(s) ==
    /\ DOMAIN s = ServerFields
    /\ \A d \in DOMAIN s.tables : IsFiniteSet(DOMAIN s.tables[d])
    /\ \A d, t : HasTable(s, d, t) => "rows" \in DOMAIN s.tables[d][t]

Names(st) == st.kind \in TableKinds \cup {"create table"} => "table" \in DOMAIN st

\* What a statement does at most: files stay, and a table it does not name stays or goes.
Keeps(s, new, db, st) ==
    /\ s.files \subseteq new.files
    /\ \A d, u : HasTable(new, d, u) =>
          \/ "table" \in DOMAIN st /\ d = Within(db, st) /\ u = st.table
          \/ HasTable(s, d, u) /\ new.tables[d][u] = s.tables[d][u]

\* A change of one table is one of that table only.
LEMMA ChangeOne ==
    ASSUME NEW s, ServerOK(s), NEW db \in DOMAIN s.tables, NEW t, NEW table
    PROVE  LET new == ChangeTable(s, db, t, table)
           IN  /\ DOMAIN new = ServerFields /\ new.files = s.files
               /\ \A d, u : HasTable(new, d, u) /\ ~(d = db /\ u = t) =>
                     HasTable(s, d, u) /\ new.tables[d][u] = s.tables[d][u]
               /\ new.tables[db][t] = table /\ HasTable(new, db, t)
               /\ "rows" \in DOMAIN table => ServerOK(new)
<1> DEFINE new == ChangeTable(s, db, t, table)
           one == With(s.tables[db], t, table)
<1>1. new = [s EXCEPT !.tables = [s.tables EXCEPT ![db] = one]]
  BY DEF ChangeTable
<1>2. one[t] = table /\ t \in DOMAIN one /\ DOMAIN one = DOMAIN s.tables[db] \cup {t}
  BY DEF With
<1>3. \A u \in DOMAIN one : u # t => u \in DOMAIN s.tables[db] /\ one[u] = s.tables[db][u]
  BY DEF With
<1>4. IsFiniteSet(DOMAIN one)
  BY <1>2, FS_AddElement DEF ServerOK
<1> HIDE DEF one, new
<1>5. DOMAIN new = ServerFields /\ new.files = s.files /\ new.tables = [s.tables EXCEPT ![db] = one]
  BY <1>1 DEF ServerFields, ServerOK
<1>6. /\ DOMAIN new.tables = DOMAIN s.tables
      /\ \A d \in DOMAIN s.tables : new.tables[d] = IF d = db THEN one ELSE s.tables[d]
  BY <1>5
<1>7. \A d, u : HasTable(new, d, u) /\ ~(d = db /\ u = t) =>
          HasTable(s, d, u) /\ new.tables[d][u] = s.tables[d][u]
  BY <1>6, <1>3 DEF HasTable
<1>8. new.tables[db][t] = table /\ HasTable(new, db, t)
  BY <1>6, <1>2 DEF HasTable
<1>9. ASSUME "rows" \in DOMAIN table PROVE ServerOK(new)
  <2>1. \A d \in DOMAIN new.tables : IsFiniteSet(DOMAIN new.tables[d])
    BY <1>6, <1>4 DEF ServerOK
  <2>2. \A d, u : HasTable(new, d, u) => "rows" \in DOMAIN new.tables[d][u]
    BY <1>7, <1>8, <1>9 DEF ServerOK
  <2> QED BY <2>1, <2>2, <1>5 DEF ServerOK
<1> QED BY <1>5, <1>7, <1>8, <1>9 DEF new

LEMMA UsedSame ==
    ASSUME NEW s, DOMAIN s = ServerFields, NEW db, NEW label
    PROVE  LET new == Used(s, db, label)
           IN  DOMAIN new = ServerFields /\ new.tables = s.tables /\ new.files = s.files
BY DEF Used, ServerFields

\* The ways a statement changes the server.
Forms(s, new, db, st) ==
    LET in == Within(db, st)
    IN  \/ new = s
        \/ new = [s EXCEPT !.tables = With(@, st.db, <<>>)]
        \/ new = [s EXCEPT !.tables = Restrict(@, DOMAIN @ \ {st.db}),
                           !.labels = {l \in @ : l[1] # st.db}]
        \/ new = [s EXCEPT !.tables[in] = Restrict(@, DOMAIN @ \ {st.table})]
        \/ new = [s EXCEPT !.files = @ \cup Exported(s, in, st)]
        \/ /\ "table" \in DOMAIN st /\ in \in DOMAIN s.tables
           /\ \E table, label : /\ new = Used(ChangeTable(s, in, st.table, table), in, label)
                                /\ "rows" \in DOMAIN table

LEMMA AllForms ==
    ASSUME NEW s, ServerOK(s), NEW db, NEW st, Accepts(s, db, st), Names(st)
    PROVE  Forms(s, After(s, db, st), db, st)
<1> DEFINE in == Within(db, st)
           table == s.tables[in][st.table]
<1>0. PICK new : new = After(s, db, st)
  OBVIOUS
<1> SUFFICES Forms(s, new, db, st)
  BY <1>0
<1>1. ASSUME NEW other, "table" \in DOMAIN st, in \in DOMAIN s.tables, "rows" \in DOMAIN other,
             new = ChangeTable(s, in, st.table, other)
      PROVE  Forms(s, new, db, st)
  <2>1. new = Used(ChangeTable(s, in, st.table, other), in, NoLabel)
    BY <1>1 DEF Used
  <2> QED BY <1>1, <2>1 DEF Forms
<1>2. CASE st.kind \in {"create index", "drop index", "set bloom filter", "overwrite", "delete"}
  <2>1. "table" \in DOMAIN st /\ in \in DOMAIN s.tables /\ "rows" \in DOMAIN table
    BY <1>2 DEF Names, TableKinds, Accepts, ServerOK, HasTable
  <2> DEFINE Changed(other) == new = ChangeTable(s, in, st.table, other) /\ DOMAIN other = DOMAIN table
  <2>2. ASSUME st.kind = "create index" PROVE Changed([table EXCEPT !.indexes = @ \cup {st.index}])
    BY <1>0, <2>2 DEF After
  <2>3. ASSUME st.kind = "drop index" PROVE Changed([table EXCEPT !.indexes = @ \ {st.index}])
    BY <1>0, <2>3 DEF After
  <2>4. ASSUME st.kind = "set bloom filter" PROVE Changed([table EXCEPT !.bloom = st.columns])
    BY <1>0, <2>4 DEF After
  <2>5. ASSUME st.kind = "overwrite" PROVE Changed([table EXCEPT !.rows = s.tables[in][st.from].rows])
    BY <1>0, <2>5 DEF After
  <2>6. ASSUME st.kind = "delete"
        PROVE  Changed([table EXCEPT !.rows = [r \in Rows |-> IF r \in Filtered(s, st) THEN 0 ELSE @[r]]])
    BY <1>0, <2>6 DEF After
  <2>7. \E other : Changed(other)
    BY <1>2, <2>2, <2>3, <2>4, <2>5, <2>6
  <2> HIDE DEF table
  <2> QED BY <2>1, <2>7, <1>1
<1>3. CASE st.kind = "create table" /\ ~HasTable(s, in, st.table)
  <2>1. "table" \in DOMAIN st /\ in \in DOMAIN s.tables
    BY <1>3 DEF Names, TableKinds, Accepts
  <2>2. new = ChangeTable(s, in, st.table, EmptyTable(st.def))
    BY <1>0, <1>3 DEF After
  <2>3. "rows" \in DOMAIN EmptyTable(st.def)
    BY DEF EmptyTable
  <2> QED BY <2>1, <2>2, <2>3, <1>1
<1>4. CASE st.kind \in {"insert", "insert select"}
  <2>1. "table" \in DOMAIN st /\ in \in DOMAIN s.tables /\ "rows" \in DOMAIN table
    BY <1>4 DEF Names, TableKinds, Accepts, ServerOK, HasTable
  <2> DEFINE Changed(other) == /\ new = Used(ChangeTable(s, in, st.table, other), in, st.label)
                               /\ DOMAIN other = DOMAIN table
  <2>2. ASSUME st.kind = "insert" PROVE Changed([table EXCEPT !.rows = Both(@, Copies(st.rows))])
    BY <1>0, <2>2 DEF After
  <2>3. ASSUME st.kind = "insert select"
        PROVE  Changed([table EXCEPT !.rows = Both(@, s.tables[in][st.from].rows)])
    BY <1>0, <2>3 DEF After
  <2>4. \E other : Changed(other)
    BY <1>4, <2>2, <2>3
  <2> HIDE DEF table
  <2> QED BY <2>1, <2>4 DEF Forms
<1>5. CASE st.kind = "create database" /\ st.db \notin DOMAIN s.tables
  <2>1. new = [s EXCEPT !.tables = With(@, st.db, <<>>)]
    BY <1>0, <1>5 DEF After
  <2> QED BY <2>1 DEF Forms
<1>6. CASE st.kind = "drop database"
  <2>1. new = [s EXCEPT !.tables = Restrict(@, DOMAIN @ \ {st.db}),
                        !.labels = {l \in @ : l[1] # st.db}]
    BY <1>0, <1>6 DEF After
  <2> QED BY <2>1 DEF Forms
<1>7. CASE st.kind = "drop table"
  <2>1. new = [s EXCEPT !.tables[in] = Restrict(@, DOMAIN @ \ {st.table})]
    BY <1>0, <1>7 DEF After
  <2> QED BY <2>1 DEF Forms
<1>8. CASE st.kind = "export"
  <2>1. new = [s EXCEPT !.files = @ \cup Exported(s, in, st)]
    BY <1>0, <1>8 DEF After
  <2> QED BY <2>1 DEF Forms
<1>9. CASE ~(\/ st.kind \in {"create index", "drop index", "set bloom filter", "overwrite", "delete"}
             \/ st.kind = "create table" /\ ~HasTable(s, in, st.table)
             \/ st.kind \in {"insert", "insert select"}
             \/ st.kind = "create database" /\ st.db \notin DOMAIN s.tables
             \/ st.kind \in {"drop database", "drop table", "export"})
  <2>1. new = s
    BY <1>0, <1>9 DEF After
  <2> QED BY <2>1 DEF Forms
<1> QED BY <1>2, <1>3, <1>4, <1>5, <1>6, <1>7, <1>8, <1>9

LEMMA WithOne ==
    ASSUME NEW f, NEW x, NEW v
    PROVE  \A y \in DOMAIN With(f, x, v) : \/ With(f, x, v)[y] = v
                                           \/ y \in DOMAIN f /\ With(f, x, v)[y] = f[y]
BY DEF With

LEMMA Carried ==
    ASSUME NEW s, ServerOK(s), NEW db, NEW st, Accepts(s, db, st), Names(st)
    PROVE  Keeps(s, After(s, db, st), db, st) /\ ServerOK(After(s, db, st))
<1> DEFINE in == Within(db, st)
<1>0. PICK new : new = After(s, db, st)
  OBVIOUS
<1> SUFFICES Keeps(s, new, db, st) /\ ServerOK(new)
  BY <1>0
<1>1. Forms(s, new, db, st)
  BY <1>0, AllForms
<1>2. ASSUME DOMAIN new = ServerFields, s.files \subseteq new.files,
             \A d \in DOMAIN new.tables : IsFiniteSet(DOMAIN new.tables[d]),
             \A d, u : HasTable(new, d, u) => HasTable(s, d, u) /\ new.tables[d][u] = s.tables[d][u]
      PROVE  Keeps(s, new, db, st) /\ ServerOK(new)
  BY <1>2 DEF Keeps, ServerOK
<1>3. CASE new = s
  BY <1>3 DEF Keeps
<1>4. CASE new = [s EXCEPT !.tables = With(@, st.db, <<>>)]
  <2>0. PICK none : none = <<>>
    OBVIOUS
  <2> DEFINE created == With(s.tables, st.db, none)
  <2>1. \A d \in DOMAIN created :
            created[d] = none \/ (d \in DOMAIN s.tables /\ created[d] = s.tables[d])
    BY WithOne
  <2> HIDE DEF created
  <2>2. DOMAIN s = ServerFields
    BY DEF ServerOK
  <2>3. new.tables = created /\ new.files = s.files /\ DOMAIN new = ServerFields
    BY <1>4, <2>0, <2>2 DEF ServerFields, created
  <2>4. \A d \in DOMAIN s.tables : IsFiniteSet(DOMAIN s.tables[d])
    BY DEF ServerOK
  <2>5. IsFiniteSet(DOMAIN none) /\ DOMAIN none = {}
    BY <2>0, FS_EmptySet
  <2>6. \A d \in DOMAIN new.tables : IsFiniteSet(DOMAIN new.tables[d])
    BY <2>1, <2>3, <2>4, <2>5
  <2>7. \A d, u : HasTable(new, d, u) => HasTable(s, d, u) /\ new.tables[d][u] = s.tables[d][u]
    BY <2>1, <2>3, <2>5 DEF HasTable
  <2> QED BY <2>3, <2>6, <2>7, <1>2
<1>5. CASE new = [s EXCEPT !.tables = Restrict(@, DOMAIN @ \ {st.db}),
                           !.labels = {l \in @ : l[1] # st.db}]
  <2>1. DOMAIN s = ServerFields /\ \A d \in DOMAIN s.tables : IsFiniteSet(DOMAIN s.tables[d])
    BY DEF ServerOK
  <2>2. /\ new.tables = Restrict(s.tables, DOMAIN s.tables \ {st.db})
        /\ new.files = s.files /\ DOMAIN new = ServerFields
    BY <1>5, <2>1 DEF ServerFields
  <2>3. /\ DOMAIN new.tables \subseteq DOMAIN s.tables
        /\ \A d \in DOMAIN new.tables : new.tables[d] = s.tables[d]
    BY <2>2 DEF Restrict
  <2>4. \A d, u : HasTable(new, d, u) => HasTable(s, d, u) /\ new.tables[d][u] = s.tables[d][u]
    BY <2>3 DEF HasTable
  <2> QED BY <2>1, <2>2, <2>3, <2>4, <1>2
<1>6. CASE new = [s EXCEPT !.tables[in] = Restrict(@, DOMAIN @ \ {st.table})]
  <2> DEFINE rest == Restrict(s.tables[in], DOMAIN s.tables[in] \ {st.table})
  <2>0. DOMAIN s = ServerFields /\ \A d \in DOMAIN s.tables : IsFiniteSet(DOMAIN s.tables[d])
    BY DEF ServerOK
  <2>1. /\ DOMAIN rest \subseteq DOMAIN s.tables[in]
        /\ \A u \in DOMAIN rest : rest[u] = s.tables[in][u]
    BY DEF Restrict
  <2>2. new = [s EXCEPT !.tables = [s.tables EXCEPT ![in] = rest]]
    BY <1>6
  <2> HIDE DEF rest
  <2>3. new.tables = [s.tables EXCEPT ![in] = rest] /\ new.files = s.files /\ DOMAIN new = ServerFields
    BY <2>2, <2>0 DEF ServerFields
  <2>4. /\ DOMAIN new.tables = DOMAIN s.tables
        /\ \A d \in DOMAIN s.tables : new.tables[d] = IF d = in THEN rest ELSE s.tables[d]
    BY <2>3
  <2>5. in \in DOMAIN s.tables => IsFiniteSet(DOMAIN rest)
    BY <2>0, <2>1, FS_Subset
  <2>6. \A d \in DOMAIN new.tables : IsFiniteSet(DOMAIN new.tables[d])
    BY <2>0, <2>4, <2>5
  <2>7. \A d, u : HasTable(new, d, u) => HasTable(s, d, u) /\ new.tables[d][u] = s.tables[d][u]
    BY <2>1, <2>4 DEF HasTable
  <2> QED BY <2>3, <2>6, <2>7, <1>2
<1>7. CASE new = [s EXCEPT !.files = @ \cup Exported(s, in, st)]
  <2>1. DOMAIN s = ServerFields /\ \A d \in DOMAIN s.tables : IsFiniteSet(DOMAIN s.tables[d])
    BY DEF ServerOK
  <2>2. new.tables = s.tables /\ s.files \subseteq new.files /\ DOMAIN new = ServerFields
    BY <1>7, <2>1 DEF ServerFields
  <2>3. \A d, u : HasTable(new, d, u) => HasTable(s, d, u) /\ new.tables[d][u] = s.tables[d][u]
    BY <2>2 DEF HasTable
  <2> QED BY <2>1, <2>2, <2>3, <1>2
<1>8. CASE /\ "table" \in DOMAIN st /\ in \in DOMAIN s.tables
           /\ \E table, label : /\ new = Used(ChangeTable(s, in, st.table, table), in, label)
                                /\ "rows" \in DOMAIN table
  <2>1. PICK table, label : /\ new = Used(ChangeTable(s, in, st.table, table), in, label)
                            /\ "rows" \in DOMAIN table
    BY <1>8
  <2>2. PICK changed : changed = ChangeTable(s, in, st.table, table)
    OBVIOUS
  <2>3. /\ ServerOK(changed) /\ changed.files = s.files /\ DOMAIN changed = ServerFields
        /\ \A d, u : HasTable(changed, d, u) /\ ~(d = in /\ u = st.table) =>
                     HasTable(s, d, u) /\ changed.tables[d][u] = s.tables[d][u]
    BY <1>8, <2>1, <2>2, ChangeOne
  <2>4. DOMAIN new = ServerFields /\ new.tables = changed.tables /\ new.files = changed.files
    BY <2>1, <2>2, <2>3, UsedSame
  <2>5. \A d, u : HasTable(new, d, u) = HasTable(changed, d, u)
    BY <2>4 DEF HasTable
  <2>6. ServerOK(new)
    BY <2>3, <2>4, <2>5 DEF ServerOK
  <2>7. Keeps(s, new, db, st)
    BY <1>8, <2>3, <2>4, <2>5 DEF Keeps
  <2> QED BY <2>6, <2>7
<1> QED BY <1>0, <1>1, <1>3, <1>4, <1>5, <1>6, <1>7, <1>8 DEF Forms

\* A delete takes away rows that are there, an export writes those that match its condition.
LEMMA DeletedRows ==
    ASSUME NEW s, ServerOK(s), NEW db, NEW st, Accepts(s, db, st), st.kind = "delete"
    PROVE  After(s, db, st).files = s.files
<1> DEFINE in == Within(db, st)
           table == s.tables[in][st.table]
           other == [table EXCEPT !.rows = [r \in Rows |-> IF r \in Filtered(s, st) THEN 0 ELSE @[r]]]
<1>1. HasTable(s, in, st.table)
  BY DEF Accepts
<1>2. After(s, db, st) = ChangeTable(s, in, st.table, other)
  BY DEF After
<1> HIDE DEF table, other
<1> QED BY <1>1, <1>2, ChangeOne DEF HasTable

LEMMA ExportedRows ==
    ASSUME NEW s, ServerOK(s), NEW db, NEW st, Accepts(s, db, st), st.kind = "export"
    PROVE  LET in == Within(db, st)
           IN  \A r \in RowsAt(s, in, st.table) \cap Filtered(s, st) :
                   <<in, st.table, r>> \in After(s, db, st).files
<1> DEFINE in == Within(db, st)
<1>1. PICK new : new = After(s, db, st)
  OBVIOUS
<1>2. new = [s EXCEPT !.files = @ \cup Exported(s, in, st)]
  BY <1>1 DEF After
<1>3. Exported(s, in, st) \subseteq new.files
  BY <1>2 DEF ServerOK, ServerFields
<1>4. \A r \in RowsAt(s, in, st.table) \cap Filtered(s, st) : <<in, st.table, r>> \in Exported(s, in, st)
  BY DEF RowsAt, Exported
<1> QED BY <1>1, <1>3, <1>4

(***************************************************************************)
(* The inductive invariant                                                 *)
(***************************************************************************)
HistoryFields == {"roamed", "dropped", "exports", "lost", "seen", "misled"}
HistoryOK == DOMAIN history = HistoryFields

\* Caller c has exported table t of db under filter f.
Covered(c, db, t, f) ==
    \E e \in history.exports : e.by = c /\ e.db = db /\ e.table = t /\ e.filter = f

\* An export is what Export says, and its rows are in the files.
ExportOK(e) == /\ e = [by |-> e.by, db |-> e.db, table |-> e.table, filter |-> e.filter, rows |-> e.rows]
               /\ \A r \in e.rows : <<e.db, e.table, r>> \in server.files
FilesOK == \A e \in history.exports : ExportOK(e)

\* A delete may only be sent, or may still take effect, under a filter its caller exported.
Lawful(c, st) == /\ Names(st)
                 /\ st.kind = "delete" => "db" \in DOMAIN st /\ Covered(c, st.db, st.table, st.filter)
Truthful(c, answer) == answer.op.kind = "archive" /\ answer.value.success =>
                           Covered(c, answer.op.db, answer.op.table, answer.op.filter)

CallFields == {"stage", "op", "todo", "got", "session"}
Live(c, r) == /\ DOMAIN r = CallFields
              /\ \E S : r.todo \in Seq(S) /\ \A st \in S : Lawful(c, st)
              /\ r.todo # <<>>
              /\ r.op.kind = "archive" => r.todo = archive(r.op)
CallsOK == DOMAIN call = Callers /\ \A c \in Callers : call[c].stage # "idle" => Live(c, call[c])
ToldOK == /\ DOMAIN told = Callers
          /\ \A c \in Callers : \E S : told[c] \in Seq(S) /\ \A answer \in S : Truthful(c, answer)
LeftOK == /\ DOMAIN left = Callers
          /\ \A c \in Callers : \E S : left[c] \in Seq(S) /\ \A op \in S : WellFormed(op)
LateOK == \A l \in late : Lawful(l.by, l.st)
\* Who waits for a session of a pool waits once, and for nothing else.
QueueOK ==
    /\ waiting \in [Pools -> Seq(Callers)]
    /\ \A p \in Pools : \A i, j \in DOMAIN waiting[p] :
          /\ call[waiting[p][i]].stage = "queued" /\ PoolOf(call[waiting[p][i]].op) = p
          /\ waiting[p][i] = waiting[p][j] => i = j
IInv == /\ ServerOK(server) /\ HistoryOK /\ FilesOK /\ CallsOK /\ ToldOK /\ LeftOK /\ LateOK /\ QueueOK
        /\ PurgedWasArchived

\* What a step does to what has been archived.
Upholds == \A c, db, t, f : Covered(c, db, t, f) => Covered(c, db, t, f)'

LEMMA QuietUpholds == ASSUME history'.exports = history.exports PROVE Upholds
BY DEF Upholds, Covered

\* A lawful statement of c carried out.
CarriedOut(c, db, st) ==
    /\ server' = After(server, db, st)
    /\ LET h == Remember(c, db, st, server, server')
       IN  /\ DOMAIN history' = HistoryFields
           /\ history'.exports = h.exports /\ history'.lost = h.lost

LEMMA EffectUpholds ==
    ASSUME IInv, NEW c, NEW db, NEW st, Lawful(c, st), Accepts(server, db, st), CarriedOut(c, db, st)
    PROVE  /\ Upholds /\ ServerOK(server)' /\ HistoryOK' /\ FilesOK' /\ PurgedWasArchived'
           /\ st.kind = "export" => Covered(c, Within(db, st), st.table, st.filter)'
<1> DEFINE in == Within(db, st)
           gone == {r \in RowsAt(server, in, st.table) \ RowsAt(server', in, st.table) :
                        <<in, st.table, r>> \notin server'.files}
<1>0. PICK rows, new, found : /\ rows = RowsAt(server, in, st.table) \cap Filtered(server, st)
                              /\ new = Export(c, in, st, rows) /\ found = Found(c, in, st)
  OBVIOUS
<1>1. Keeps(server, server', db, st) /\ ServerOK(server')
  BY Carried DEF IInv, Lawful, CarriedOut
<1>2. /\ HistoryOK'
      /\ history'.exports = history.exports \cup (IF st.kind = "export" THEN {new} ELSE {})
      /\ history'.lost = history.lost \cup
            (IF st.kind = "delete" THEN {[row |-> r, found |-> found] : r \in gone} ELSE {})
  BY <1>0 DEF IInv, HistoryOK, HistoryFields, CarriedOut, Remember
<1>3. /\ new.by = c /\ new.db = in /\ new.table = st.table /\ new.filter = st.filter /\ new.rows = rows
      /\ new = [by |-> new.by, db |-> new.db, table |-> new.table, filter |-> new.filter, rows |-> new.rows]
  BY <1>0 DEF Export
<1>4. Upholds
  BY <1>2 DEF Upholds, Covered
<1>5. FilesOK'
  <2>1. ASSUME NEW e \in history.exports PROVE ExportOK(e)'
    <3>1. ExportOK(e)
      BY DEF IInv, FilesOK
    <3> QED BY <1>1, <3>1 DEF ExportOK, Keeps
  <2>2. ASSUME st.kind = "export" PROVE ExportOK(new)'
    <3>1. \A r \in rows : <<in, st.table, r>> \in server'.files
      BY <1>0, <2>2, ExportedRows DEF IInv, CarriedOut
    <3> QED BY <1>3, <3>1 DEF ExportOK
  <2> QED BY <1>2, <2>1, <2>2 DEF FilesOK
<1>6. PurgedWasArchived'
  <2>1. ASSUME st.kind = "delete", NEW r \in gone
        PROVE  found # {} /\ \A seen \in found : r \notin seen
    <3>1. Covered(c, in, st.table, st.filter)
      BY <2>1 DEF Lawful, Within
    <3>2. PICK e \in history.exports : e.by = c /\ e.db = in /\ e.table = st.table /\ e.filter = st.filter
      BY <3>1 DEF Covered
    <3>3. e = Export(c, in, st, e.rows)
      BY <3>2 DEF IInv, FilesOK, ExportOK, Export
    <3>4. e.rows \in found
      BY <1>0, <3>2, <3>3 DEF Found
    <3>5. server'.files = server.files
      BY <2>1, DeletedRows DEF IInv, CarriedOut
    <3>6. ASSUME NEW seen \in found, r \in seen PROVE FALSE
      <4>1. PICK x \in history.exports : x = Export(c, in, st, x.rows) /\ x.rows = seen
        BY <1>0 DEF Found
      <4>2. x.db = in /\ x.table = st.table
        BY <4>1 DEF Export
      <4>3. <<x.db, x.table, r>> \in server.files
        BY <3>6, <4>1 DEF IInv, FilesOK, ExportOK
      <4> QED BY <2>1, <3>5, <4>2, <4>3
    <3> QED BY <3>4, <3>6
  <2> HIDE DEF gone
  <2>2. ASSUME NEW l \in history'.lost PROVE l.found # {} /\ \A seen \in l.found : l.row \notin seen
    <3>1. CASE l \in history.lost
      BY <3>1 DEF IInv, PurgedWasArchived
    <3>2. CASE l \notin history.lost
      <4>1. PICK r \in gone : st.kind = "delete" /\ l = [row |-> r, found |-> found]
        BY <1>2, <3>2
      <4> QED BY <2>1, <4>1
    <3> QED BY <3>1, <3>2
  <2> QED BY <2>2 DEF PurgedWasArchived
<1>7. ASSUME st.kind = "export" PROVE Covered(c, in, st.table, st.filter)'
  BY <1>2, <1>3, <1>7 DEF Covered
<1> QED BY <1>1, <1>2, <1>4, <1>5, <1>6, <1>7

LEMMA StayLawful ==
    ASSUME Upholds
    PROVE  /\ \A c, st : Lawful(c, st) => Lawful(c, st)'
           /\ \A c, answer : Truthful(c, answer) => Truthful(c, answer)'
           /\ \A c, r : Live(c, r) => Live(c, r)'
<1>1. \A c, st : Lawful(c, st) => Lawful(c, st)'
  BY DEF Upholds, Lawful
<1>2. \A c, answer : Truthful(c, answer) => Truthful(c, answer)'
  BY DEF Upholds, Truthful
<1>3. ASSUME NEW c, NEW r, Live(c, r) PROVE Live(c, r)'
  <2>1. PICK S : r.todo \in Seq(S) /\ \A st \in S : Lawful(c, st)
    BY <1>3 DEF Live
  <2>2. \A st \in S : Lawful(c, st)'
    BY <2>1, <1>1
  <2> QED BY <2>1, <2>2, <1>3 DEF Live
<1> QED BY <1>1, <1>2, <1>3

\* The statements of an operation are lawful; for a purge, if its rows are archived.
LEMMA StatementsLawful ==
    ASSUME NEW c, NEW op, WellFormed(op),
           op.kind = "purgeArchived" =>
               Covered(c, op.db, op.table, op.filter) \/ op.dryRun \/ op.filter = NoFilter
    PROVE  \E S : Statements(op) \in Seq(S) /\ \A st \in S : Lawful(c, st)
<1>1. ASSUME NEW st, Lawful(c, st), Statements(op) = <<st>>
      PROVE  \E S : Statements(op) \in Seq(S) /\ \A other \in S : Lawful(c, other)
  <2>1. Statements(op) \in Seq({st}) /\ \A other \in {st} : Lawful(c, other)
    BY <1>1, SeqOne
  <2> QED BY <2>1
<1>2. CASE op.kind = "createTable"
  <2> DEFINE first == [kind |-> "create table", table |-> op.def.name, def |-> op.def, lenient |-> op.lenient]
             n == Len(op.def.indexes)
             rest == [i \in DOMAIN op.def.indexes |-> createIndex(op.def.name, op.def.indexes[i])]
             S == {first} \cup {rest[i] : i \in 1..n}
  <2>1. n \in Nat /\ DOMAIN op.def.indexes = 1..n
    BY <1>2, SeqDomain DEF WellFormed, IsSequence
  <2>2. Lawful(c, first)
    BY DEF Lawful, Names
  <2>3. ASSUME NEW t, NEW index PROVE Lawful(c, createIndex(t, index))
    BY DEF createIndex, Lawful, Names, TableKinds
  <2>4. \A st \in S : Lawful(c, st)
    BY <2>1, <2>2, <2>3
  <2>5. rest = [i \in 1..n |-> rest[i]]
    BY <2>1
  <2> HIDE DEF rest, first, n
  <2>6. <<first>> \o rest \in Seq(S)
    <3>1. rest \in Seq({rest[i] : i \in 1..n})
      BY <2>1, <2>5, SeqByIndex
    <3>2. rest \in Seq(S) /\ <<first>> \in Seq(S)
      BY <3>1, SeqOne, SeqWider
    <3> QED BY <3>2, SeqJoined
  <2>7. Statements(op) = <<first>> \o rest
    BY <1>2 DEF Statements, createTable, first, rest
  <2> QED BY <2>4, <2>6, <2>7
<1>3. CASE op.kind = "insertMany"
  <2> DEFINE n == (Len(op.rows) + op.batchSize - 1) \div op.batchSize
             S == {insertMany(op)[b] : b \in 1..n}
  <2>1. Len(op.rows) \in Nat /\ op.batchSize \in Nat \ {0}
    BY <1>3, SeqDomain DEF WellFormed, IsSequence
  <2>2. n \in Nat
    BY <2>1, Batches
  <2> HIDE DEF n
  <2>3. insertMany(op) = [b \in 1..n |-> insertMany(op)[b]]
    BY DEF insertMany, n
  <2>4. ASSUME NEW b \in 1..n PROVE Lawful(c, insertMany(op)[b])
    BY <2>4 DEF insertMany, n, Lawful, Names, TableKinds
  <2>5. insertMany(op) \in Seq(S)
    BY <2>2, <2>3
  <2> QED BY <1>3, <2>4, <2>5 DEF Statements
<1>4. CASE op.kind = "getTableStats"
  <2> DEFINE one == [kind |-> "count", table |-> op.table]
             other == [kind |-> "show partitions", table |-> op.table]
  <2>1. Lawful(c, one) /\ Lawful(c, other)
    BY DEF Lawful, Names, TableKinds
  <2> HIDE DEF one, other
  <2>2. <<one, other>> \in Seq({one, other}) /\ \A st \in {one, other} : Lawful(c, st)
    BY <2>1
  <2>3. Statements(op) = <<one, other>>
    BY <1>4 DEF Statements, getTableStats, one, other
  <2>4. Statements(op) \in Seq({one, other})
    BY <2>2, <2>3
  <2> QED BY <2>2, <2>4
<1>5. CASE op.kind = "validate"
  <2> DEFINE one == useDatabase(op.db)
             other == [kind |-> "show tables"]
  <2>1. Lawful(c, one) /\ Lawful(c, other)
    BY DEF Lawful, Names, TableKinds, useDatabase
  <2> HIDE DEF one, other
  <2>2. <<one, other>> \in Seq({one, other}) /\ \A st \in {one, other} : Lawful(c, st)
    BY <2>1
  <2>3. Statements(op) = <<one, other>>
    BY <1>5 DEF Statements, introspect, one, other
  <2>4. Statements(op) \in Seq({one, other})
    BY <2>2, <2>3
  <2> QED BY <2>2, <2>4
<1>6. CASE op.kind = "archive"
  <2> DEFINE st == [kind |-> "export", db |-> op.db, table |-> op.table, filter |-> op.filter]
  <2>1. Lawful(c, st)
    BY DEF Lawful, Names, TableKinds
  <2>2. Statements(op) = <<st>>
    BY <1>6 DEF Statements, archive
  <2> QED BY <2>1, <2>2, <1>1
<1>7. CASE op.kind = "purgeArchived"
  <2>1. CASE op.filter = NoFilter
    <3>1. Statements(op) = <<[kind |-> "invalid"]>>
      BY <1>7, <2>1 DEF Statements, purgeArchived
    <3>2. Lawful(c, [kind |-> "invalid"])
      BY DEF Lawful, Names, TableKinds
    <3> QED BY <3>1, <3>2, <1>1
  <2>2. CASE op.filter # NoFilter
    <3> DEFINE st == [kind |-> IF op.dryRun THEN "count" ELSE "delete",
                      db |-> op.db, table |-> op.table, filter |-> op.filter]
    <3>1. Statements(op) = <<st>>
      BY <1>7, <2>2 DEF Statements, purgeArchived
    <3>2. Lawful(c, st)
      BY <1>7, <2>2 DEF Lawful, Names, TableKinds
    <3> QED BY <3>1, <3>2, <1>1
  <2> QED BY <2>1, <2>2
<1>8. CASE op.kind \notin Composite
  <2>1. Lawful(c, op.statement)
    BY <1>8 DEF Lawful, Names, WellFormed
  <2>2. Statements(op) = <<op.statement>>
    BY <1>8 DEF Statements, Composite
  <2> QED BY <2>1, <2>2, <1>1
<1> QED BY <1>2, <1>3, <1>4, <1>5, <1>6, <1>7, <1>8 DEF Composite

(***************************************************************************)
(* The callers                                                             *)
(***************************************************************************)
\* One more answer, which is truthful.
LEMMA ToldMore ==
    ASSUME ToldOK, Upholds, NEW c \in Callers, NEW answer, Truthful(c, answer)',
           told' = [told EXCEPT ![c] = Append(@, answer)]
    PROVE  ToldOK'
<1>1. DOMAIN told' = Callers
  BY DEF ToldOK
<1>2. ASSUME NEW d \in Callers
      PROVE  \E S : told'[d] \in Seq(S) /\ \A a \in S : Truthful(d, a)'
  <2>1. PICK S : told[d] \in Seq(S) /\ \A a \in S : Truthful(d, a)
    BY DEF ToldOK
  <2>2. \A a \in S : Truthful(d, a)'
    BY <2>1, StayLawful
  <2>3. CASE d = c
    <3>1. \A a \in S \cup {answer} : Truthful(d, a)'
      BY <2>2, <2>3
    <3>2. told[d] \in Seq(S \cup {answer})
      BY <2>1
    <3>3. told'[d] \in Seq(S \cup {answer})
      BY <2>3, <3>2 DEF ToldOK
    <3> QED BY <3>1, <3>3
  <2>4. CASE d # c
    <3>1. told'[d] = told[d]
      BY <2>4 DEF ToldOK
    <3> QED BY <2>1, <2>2, <3>1
  <2> QED BY <2>3, <2>4
<1> QED BY <1>1, <1>2 DEF ToldOK

LEMMA ToldSame == ASSUME ToldOK, Upholds, told' = told PROVE ToldOK'
<1>1. ASSUME NEW d \in Callers
      PROVE  \E S : told'[d] \in Seq(S) /\ \A a \in S : Truthful(d, a)'
  <2>1. PICK S : told[d] \in Seq(S) /\ \A a \in S : Truthful(d, a)
    BY DEF ToldOK
  <2>2. \A a \in S : Truthful(d, a)'
    BY <2>1, StayLawful
  <2> QED BY <2>1, <2>2
<1> QED BY <1>1 DEF ToldOK

\* One caller moves.
LEMMA CallsMove ==
    ASSUME CallsOK, Upholds, NEW c \in Callers, NEW r, call' = [call EXCEPT ![c] = r],
           r.stage # "idle" => Live(c, r)'
    PROVE  /\ CallsOK'
           /\ call'[c] = r /\ \A d \in Callers \ {c} : call'[d] = call[d]
<1>1. /\ DOMAIN call' = Callers
      /\ call'[c] = r /\ \A d \in Callers \ {c} : call'[d] = call[d]
  BY DEF CallsOK
<1>2. ASSUME NEW d \in Callers PROVE (call[d].stage # "idle" => Live(d, call[d]))'
  <2>1. CASE d = c
    BY <1>1, <2>1
  <2>2. CASE d # c
    <3>1. PICK q : q = call[d]
      OBVIOUS
    <3>2. q.stage # "idle" => Live(d, q)
      BY <3>1 DEF CallsOK
    <3>3. q.stage # "idle" => Live(d, q)'
      BY <3>2, StayLawful
    <3>4. call'[d] = q
      BY <1>1, <2>2, <3>1
    <3> QED BY <3>3, <3>4
  <2> QED BY <2>1, <2>2
<1> QED BY <1>1, <1>2 DEF CallsOK

LEMMA FinishStep ==
    ASSUME IInv, Upholds, NEW c \in Callers, NEW got, NEW complete,
           Finish(c, got, complete), NEW op, op = call[c].op,
           complete /\ op.kind = "archive" => Covered(c, op.db, op.table, op.filter)'
    PROVE  /\ CallsOK' /\ ToldOK'
           /\ \A d \in Callers \ {c} : call'[d] = call[d]
<1>1. PICK answer : answer = Returned(op, got, complete)
  OBVIOUS
<1>2. /\ call' = [call EXCEPT ![c] = Idle] /\ told' = [told EXCEPT ![c] = Append(@, answer)]
  BY <1>1 DEF Finish
<1>3. answer.op = op /\ (op.kind = "archive" => answer.value = [success |-> complete])
  BY <1>1 DEF Returned, Value
<1>4. Truthful(c, answer)'
  BY <1>3 DEF Truthful
<1>5. ToldOK'
  BY <1>2, <1>4, ToldMore DEF IInv
<1>6. Idle.stage = "idle"
  BY DEF Idle
<1> QED BY <1>2, <1>5, <1>6, CallsMove DEF IInv

\* The statements left after one, and those an introspection adds, are lawful.
LEMMA NextLawful ==
    ASSUME NEW c, NEW op, NEW todo, NEW S, todo \in Seq(S), todo # <<>>, \A st \in S : Lawful(c, st),
           NEW ok, NEW value,
           op.kind = "validate" /\ Head(todo).kind = "show tables" => \E V : value \in Seq(V)
    PROVE  \E T : NextOf(op, Head(todo), Tail(todo), ok, value) \in Seq(T) /\ \A st \in T : Lawful(c, st)
<1> DEFINE rest == NextOf(op, Head(todo), Tail(todo), ok, value)
<1>0. Tail(todo) \in Seq(S)
  BY SeqParts
<1>1. CASE op.kind = "validate" /\ Head(todo).kind = "show tables"
  <2> DEFINE shows == [i \in DOMAIN value |-> [kind |-> "show create", table |-> value[i]]]
             n == Len(value)
             T == {shows[i] : i \in 1..n}
  <2>1. n \in Nat /\ DOMAIN value = 1..n
    BY <1>1, SeqDomain
  <2>2. rest = shows
    BY <1>1 DEF NextOf
  <2>3. ASSUME NEW i \in 1..n PROVE Lawful(c, shows[i])
    BY <2>1 DEF Lawful, Names
  <2>4. shows = [i \in 1..n |-> shows[i]]
    BY <2>1
  <2> HIDE DEF shows, rest, n
  <2>5. shows \in Seq(T)
    BY <2>1, <2>4, SeqByIndex
  <2>6. \A st \in T : Lawful(c, st)
    BY <2>3
  <2> QED BY <2>2, <2>5, <2>6 DEF rest
<1>2. CASE op.kind = "validate" /\ Head(todo).kind = "show create" /\ ok
  <2> DEFINE describe == [kind |-> "describe", table |-> Head(todo).table]
             T == S \cup {describe}
  <2>1. Lawful(c, describe)
    BY DEF Lawful, Names
  <2>2. rest = <<describe>> \o Tail(todo)
    BY <1>2 DEF NextOf
  <2> HIDE DEF describe, rest
  <2>3. <<describe>> \in Seq(T) /\ Tail(todo) \in Seq(T)
    BY <1>0, SeqOne, SeqWider
  <2>4. rest \in Seq(T)
    BY <2>2, <2>3, SeqJoined
  <2>5. \A st \in T : Lawful(c, st)
    BY <2>1
  <2> QED BY <2>4, <2>5 DEF rest
<1>3. CASE ~(op.kind = "validate" /\ Head(todo).kind = "show tables")
           /\ ~(op.kind = "validate" /\ Head(todo).kind = "show create" /\ ok)
  <2>1. rest = Tail(todo)
    BY <1>3 DEF NextOf
  <2> QED BY <1>0, <2>1
<1> QED BY <1>1, <1>2, <1>3

LEMMA GoOnStep ==
    ASSUME IInv, Upholds, NEW c \in Callers, call[c].stage # "idle",
           NEW ok, NEW value, GoOn(c, ok, value),
           NEW op, op = call[c].op, NEW todo, todo = call[c].todo,
           ok /\ Head(todo).kind = "show tables" => \E V : value \in Seq(V),
           ok /\ op.kind = "archive" => Covered(c, op.db, op.table, op.filter)'
    PROVE  /\ CallsOK' /\ ToldOK'
           /\ \A d \in Callers \ {c} : call'[d] = call[d]
<1> DEFINE st == Head(todo)
           stops == ~ok /\ ~Catches(op, st)
<1>0. PICK rest, got : /\ rest = NextOf(op, st, Tail(todo), ok, value)
                       /\ got = Append(call[c].got, [st |-> st, ok |-> ok, value |-> value])
  OBVIOUS
<1>1. Live(c, call[c])
  BY DEF IInv, CallsOK
<1>2. CASE stops \/ rest = <<>>
  <2>1. Finish(c, got, ~stops)
    BY <1>0, <1>2 DEF GoOn
  <2>2. ~stops /\ op.kind = "archive" => ok
    BY DEF Catches
  <2> HIDE DEF stops
  <2> QED BY <2>1, <2>2, FinishStep
<1>3. CASE ~(stops \/ rest = <<>>)
  <2>0. PICK r : r = [stage |-> "ready", op |-> op, todo |-> rest, got |-> got, session |-> NoSession]
    OBVIOUS
  <2>1. call' = [call EXCEPT ![c] = r] /\ told' = told
    BY <1>0, <1>3, <2>0 DEF GoOn
  <2>2. PICK S : todo \in Seq(S) /\ \A s \in S : Lawful(c, s)
    BY <1>1 DEF Live
  <2>3. op.kind # "archive"
    <3>1. ASSUME op.kind = "archive" PROVE todo = archive(op)
      BY <1>1, <3>1 DEF Live
    <3>2. ASSUME op.kind = "archive" PROVE Tail(todo) = <<>>
      BY <3>1, <3>2, SeqOne DEF archive
    <3>3. ASSUME op.kind = "archive" PROVE rest = Tail(todo)
      BY <1>0, <3>3 DEF NextOf
    <3> QED BY <3>2, <3>3, <1>3
  <2>4. op.kind = "validate" /\ st.kind = "show tables" => ok
    BY <1>3 DEF Catches
  <2>5. PICK T : rest \in Seq(T) /\ \A s \in T : Lawful(c, s)
    <3>1. todo # <<>>
      BY <1>1 DEF Live
    <3> QED BY <1>0, <2>2, <2>4, <3>1, NextLawful
  <2>6. DOMAIN r = CallFields /\ r.op = op /\ r.todo = rest
    BY <2>0 DEF CallFields
  <2>7. Live(c, r)
    BY <2>3, <2>5, <2>6, <1>3 DEF Live
  <2>8. Live(c, r)'
    BY <2>7, StayLawful
  <2> QED BY <2>1, <2>8, CallsMove, ToldSame DEF IInv
<1> QED BY <1>2, <1>3

LEMMA ShownTables ==
    ASSUME ServerOK(server), NEW db, NEW st, st.kind = "show tables", Accepts(server, db, st)
    PROVE  \E V : Shows(server, db, st) \in Seq(V)
<1> DEFINE V == DOMAIN server.tables[Within(db, st)]
           n == Cardinality(V)
<1>1. IsFiniteSet(V)
  BY DEF Accepts, ServerOK
<1>2. n \in Nat /\ ExistsBijection(1..n, V)
  BY <1>1, FS_CardinalityType
<1>3. Shows(server, db, st) = SetToSeq(V)
  BY DEF Shows
<1> HIDE DEF V
<1>4. \E f \in [1..n -> V] : IsInjective(f)
  BY <1>2 DEF ExistsBijection, Bijection, Injection
<1>5. SetToSeq(V) \in [1..n -> V]
  BY <1>4 DEF SetToSeq
<1> HIDE DEF n
<1>6. SetToSeq(V) \in Seq(V)
  BY <1>2, <1>5, SeqWithin
<1> QED BY <1>3, <1>6

LEMMA TakeStep ==
    ASSUME IInv, Upholds, NEW c \in Callers, call[c].stage # "idle", NEW p, Take(c, p)
    PROVE  /\ CallsOK' /\ ToldOK'
           /\ \A d \in Callers \ {c} : call'[d] = call[d]
<1>1. PICK s : Run(c, p, s)
  BY DEF Take
<1>2. PICK r : r = [call[c] EXCEPT !.stage = "running", !.session = s]
  OBVIOUS
<1>3. Live(c, call[c])
  BY DEF IInv, CallsOK
<1>4. call' = [call EXCEPT ![c] = r] /\ told' = told
  BY <1>1, <1>2 DEF Run
<1>5. DOMAIN r = CallFields /\ r.op = call[c].op /\ r.todo = call[c].todo
  BY <1>2, <1>3 DEF Live, CallFields
<1>6. Live(c, r)
  BY <1>3, <1>5 DEF Live
<1>7. Live(c, r)'
  BY <1>6, StayLawful
<1> QED BY <1>4, <1>7, CallsMove, ToldSame DEF IInv

(***************************************************************************)
(* The queues                                                              *)
(***************************************************************************)
\* A caller that is not queued moves, and the queues stay.
LEMMA QueueSame ==
    ASSUME QueueOK, waiting' = waiting, NEW c \in Callers, call[c].stage # "queued",
           \A d \in Callers \ {c} : call'[d] = call[d]
    PROVE  QueueOK'
<1>1. ASSUME NEW p \in Pools, NEW i \in DOMAIN waiting[p]
      PROVE  waiting[p][i] \in Callers \ {c}
  BY <1>1 DEF QueueOK
<1> QED BY <1>1 DEF QueueOK

\* A caller that is not queued joins a queue.
LEMMA QueueJoined ==
    ASSUME QueueOK, NEW c \in Callers, call[c].stage # "queued",
           waiting' = [waiting EXCEPT ![PoolOf(call[c].op)] = Append(@, c)],
           call'[c].stage = "queued", call'[c].op = call[c].op,
           \A d \in Callers \ {c} : call'[d] = call[d]
    PROVE  QueueOK'
<1> DEFINE q == PoolOf(call[c].op)
<1>0. q \in Pools
  BY DEF PoolOf, Pools
<1>1. waiting' \in [Pools -> Seq(Callers)]
  BY <1>0 DEF QueueOK
<1>2. ASSUME NEW p \in Pools, NEW i \in DOMAIN waiting[p]
      PROVE  waiting[p][i] \in Callers \ {c}
  BY <1>2 DEF QueueOK
<1>3. ASSUME NEW p \in Pools, NEW i \in DOMAIN waiting'[p]
      PROVE  \/ i \in DOMAIN waiting[p] /\ waiting'[p][i] = waiting[p][i]
             \/ p = q /\ i = Len(waiting[q]) + 1 /\ waiting'[p][i] = c
  BY <1>0, <1>3 DEF QueueOK
<1> HIDE DEF q
<1>4. ASSUME NEW p \in Pools, NEW i \in DOMAIN waiting'[p], NEW j \in DOMAIN waiting'[p]
      PROVE  /\ call'[waiting'[p][i]].stage = "queued" /\ PoolOf(call'[waiting'[p][i]].op) = p
             /\ waiting'[p][i] = waiting'[p][j] => i = j
  <2>1. CASE i \in DOMAIN waiting[p] /\ waiting'[p][i] = waiting[p][i]
    BY <2>1, <1>2, <1>3 DEF QueueOK
  <2>2. CASE p = q /\ i = Len(waiting[q]) + 1 /\ waiting'[p][i] = c
    BY <2>2, <1>2, <1>3 DEF q
  <2> QED BY <2>1, <2>2, <1>3
<1> QED BY <1>1, <1>4 DEF QueueOK

\* The first of a queue leaves it.
LEMMA QueueLeft ==
    ASSUME QueueOK, NEW p \in Pools, waiting[p] # <<>>,
           waiting' = [waiting EXCEPT ![p] = Tail(@)],
           \A d \in Callers \ {Head(waiting[p])} : call'[d] = call[d]
    PROVE  Head(waiting[p]) \in Callers /\ call[Head(waiting[p])].stage = "queued" /\ QueueOK'
<1> DEFINE c == Head(waiting[p])
<1>0. waiting[p] \in Seq(Callers) /\ 1 \in DOMAIN waiting[p] /\ c = waiting[p][1]
  BY DEF QueueOK
<1>1. c \in Callers /\ call[c].stage = "queued" /\ PoolOf(call[c].op) = p
  BY <1>0 DEF QueueOK
<1>2. waiting' \in [Pools -> Seq(Callers)]
  BY DEF QueueOK
<1>3. ASSUME NEW i \in DOMAIN waiting'[p]
      PROVE  i + 1 \in DOMAIN waiting[p] /\ waiting'[p][i] = waiting[p][i + 1] /\ i \in Nat \ {0}
  BY <1>0, <1>3 DEF QueueOK
<1>4. \A o \in Pools \ {p} : waiting'[o] = waiting[o]
  BY DEF QueueOK
<1> HIDE DEF c
<1>5. ASSUME NEW o \in Pools, NEW i \in DOMAIN waiting'[o], NEW j \in DOMAIN waiting'[o]
      PROVE  /\ call'[waiting'[o][i]].stage = "queued" /\ PoolOf(call'[waiting'[o][i]].op) = o
             /\ waiting'[o][i] = waiting'[o][j] => i = j
  <2>1. CASE o = p
    <3>1. waiting'[p][i] \in Callers \ {c}
      BY <2>1, <1>0, <1>3, <1>5 DEF QueueOK
    <3>2. call'[waiting'[p][i]] = call[waiting'[p][i]]
      BY <3>1 DEF c
    <3>3. /\ i + 1 \in DOMAIN waiting[p] /\ waiting'[p][i] = waiting[p][i + 1] /\ i \in Nat
          /\ j + 1 \in DOMAIN waiting[p] /\ waiting'[p][j] = waiting[p][j + 1] /\ j \in Nat
      BY <2>1, <1>3
    <3>4. call[waiting[p][i + 1]].stage = "queued" /\ PoolOf(call[waiting[p][i + 1]].op) = p
      BY <3>3 DEF QueueOK
    <3>5. waiting'[p][i] = waiting'[p][j] => i + 1 = j + 1
      BY <3>3 DEF QueueOK
    <3>6. ASSUME waiting'[p][i] = waiting'[p][j] PROVE i = j
      <4>1. i + 1 = j + 1 /\ i \in Nat /\ j \in Nat
        BY <3>3, <3>5, <3>6
      <4> QED BY <4>1
    <3> QED BY <2>1, <3>2, <3>3, <3>4, <3>6
  <2>2. CASE o # p
    <3>1. waiting'[o] = waiting[o]
      BY <2>2, <1>4
    <3>2. waiting[o][i] \in Callers \ {c}
      BY <2>2, <3>1, <1>1 DEF QueueOK
    <3> QED BY <3>1, <3>2 DEF QueueOK, c
  <2> QED BY <2>1, <2>2
<1>6. QueueOK'
  BY <1>2, <1>5 DEF QueueOK
<1> QED BY <1>1, <1>6 DEF c

(***************************************************************************)
(* What stays as it is                                                     *)
(***************************************************************************)
LEMMA QuietStep ==
    ASSUME IInv, server' = server, DOMAIN history' = HistoryFields,
           history'.exports = history.exports, history'.lost = history.lost
    PROVE  Upholds /\ ServerOK(server)' /\ HistoryOK' /\ FilesOK' /\ PurgedWasArchived'
<1>1. PICK s : s = server
  OBVIOUS
<1>2. ServerOK(s) /\ server' = s
  BY <1>1 DEF IInv
<1>3. ServerOK(server)'
  BY <1>2 DEF ServerOK, HasTable
<1>4. FilesOK'
  BY DEF IInv, FilesOK, ExportOK
<1> QED BY <1>3, <1>4, QuietUpholds DEF IInv, HistoryOK, PurgedWasArchived

LEMMA MisledSame ==
    ASSUME NEW h, DOMAIN h = HistoryFields, NEW c
    PROVE  /\ DOMAIN Mislead(h, c) = HistoryFields
           /\ Mislead(h, c).exports = h.exports /\ Mislead(h, c).lost = h.lost
BY DEF Mislead, HistoryFields

LEMMA LateSame == ASSUME LateOK, Upholds, late' \subseteq late PROVE LateOK'
<1>1. ASSUME NEW l \in late' PROVE Lawful(l.by, l.st)'
  <2>1. Lawful(l.by, l.st)
    BY <1>1 DEF LateOK
  <2> QED BY <2>1, StayLawful
<1> QED BY <1>1 DEF LateOK

LEMMA LeftSame == ASSUME LeftOK, left' = left PROVE LeftOK'
BY DEF LeftOK

LEMMA CallsSame == ASSUME CallsOK, Upholds, call' = call PROVE CallsOK'
<1>1. ASSUME NEW d \in Callers PROVE (call[d].stage # "idle" => Live(d, call[d]))'
  <2>1. PICK q : q = call[d]
    OBVIOUS
  <2>2. q.stage # "idle" => Live(d, q)'
    BY <2>1, StayLawful DEF CallsOK
  <2>3. call'[d] = q
    BY <2>1
  <2> QED BY <2>2, <2>3
<1> QED BY <1>1 DEF CallsOK

LEMMA QueueHead ==
    ASSUME QueueOK, NEW p \in Pools, waiting[p] # <<>>
    PROVE  Head(waiting[p]) \in Callers /\ call[Head(waiting[p])].stage = "queued"
<1>1. waiting[p] \in Seq(Callers) /\ 1 \in DOMAIN waiting[p] /\ Head(waiting[p]) = waiting[p][1]
  BY DEF QueueOK
<1> QED BY <1>1 DEF QueueOK

(***************************************************************************)
(* The steps                                                               *)
(***************************************************************************)
LEMMA InitStep == ASSUME Init PROVE IInv
<1>1. ServerOK(server)
  BY StartAssumption DEF Init, ServerOK, ServerFields, HasTable
<1>2. HistoryOK /\ FilesOK /\ PurgedWasArchived
  BY DEF Init, NoHistory, HistoryOK, HistoryFields, FilesOK, PurgedWasArchived
<1>3. CallsOK
  BY DEF Init, CallsOK, Idle
<1>4. ToldOK
  <2>1. PICK none : none = <<>>
    OBVIOUS
  <2>2. none \in Seq({})
    BY <2>1
  <2>3. told = [c \in Callers |-> none]
    BY <2>1 DEF Init
  <2> QED BY <2>2, <2>3 DEF ToldOK
<1>5. LeftOK
  <2>1. left \in Scripts
    BY DEF Init
  <2>2. DOMAIN left = Callers
    BY <2>1, ClientAssumption DEF ClientAssumption
  <2>3. ASSUME NEW c \in Callers
        PROVE  left[c] \in Seq(ToSet(left[c])) /\ \A op \in ToSet(left[c]) : WellFormed(op)
    BY <2>1, OperationsAssumption DEF IsSequence
  <2> QED BY <2>2, <2>3 DEF LeftOK
<1>6. LateOK
  BY DEF Init, LateOK
<1>7. QueueOK
  <2>1. PICK none : none = <<>>
    OBVIOUS
  <2>2. none \in Seq(Callers) /\ DOMAIN none = {}
    BY <2>1
  <2>3. waiting = [p \in Pools |-> none]
    BY <2>1 DEF Init
  <2>4. waiting \in [Pools -> Seq(Callers)] /\ \A p \in Pools : DOMAIN waiting[p] = {}
    BY <2>2, <2>3
  <2> QED BY <2>4 DEF QueueOK
<1> QED BY <1>1, <1>2, <1>3, <1>4, <1>5, <1>6, <1>7 DEF IInv

\* What a caller's archive has reported, it may purge.
LEMMA PurgesAreLawful ==
    ASSUME ToldOK, NEW c \in Callers, NEW op, op.kind = "purgeArchived", Calls(c, op)
    PROVE  Covered(c, op.db, op.table, op.filter) \/ op.dryRun \/ op.filter = NoFilter
<1> SUFFICES ASSUME Archived(c, op) PROVE Covered(c, op.db, op.table, op.filter)
  BY DEF Calls
<1>1. PICK S : told[c] \in Seq(S) /\ \A answer \in S : Truthful(c, answer)
  BY DEF ToldOK
<1>2. Last(told[c]) \in S
  <2>1. told[c] # <<>>
    BY DEF Archived
  <2>2. Len(told[c]) \in 1..Len(told[c])
    BY <1>1, <2>1
  <2>3. told[c][Len(told[c])] \in S
    BY <1>1, <2>2
  <2> QED BY <2>3 DEF Last
<1>3. PICK latest : latest = Last(told[c])
  OBVIOUS
<1>4. Truthful(c, latest)
  BY <1>1, <1>2, <1>3
<1>5. /\ latest.op.kind = "archive" /\ latest.value.success
      /\ latest.op.db = op.db /\ latest.op.table = op.table /\ latest.op.filter = op.filter
  BY <1>3 DEF Archived
<1> QED BY <1>4, <1>5 DEF Truthful

LEMMA CallStep == ASSUME IInv, NEW c \in Callers, Call(c) PROVE IInv'
<1>1. PICK op : op = Head(left[c])
  OBVIOUS
<1>2. /\ call[c].stage = "idle" /\ left[c] # <<>> /\ left' = [left EXCEPT ![c] = Tail(@)]
      /\ UNCHANGED <<server, sessions, waiting, late, breaks>>
  BY DEF Call
<1>3. WellFormed(op) /\ LeftOK'
  <2>1. PICK S : left[c] \in Seq(S) /\ \A o \in S : WellFormed(o)
    BY DEF IInv, LeftOK
  <2>2. op \in S /\ Tail(left[c]) \in Seq(S)
    BY <1>1, <1>2, <2>1, SeqParts
  <2>3. DOMAIN left' = Callers /\ left'[c] = Tail(left[c]) /\ \A d \in Callers \ {c} : left'[d] = left[d]
    BY <1>2 DEF IInv, LeftOK
  <2>4. ASSUME NEW d \in Callers
        PROVE  \E T : left'[d] \in Seq(T) /\ \A o \in T : WellFormed(o)
    BY <2>1, <2>2, <2>3 DEF IInv, LeftOK
  <2> QED BY <2>1, <2>2, <2>3, <2>4 DEF LeftOK
<1>4. ASSUME DOMAIN history' = HistoryFields, history'.exports = history.exports,
             history'.lost = history.lost,
             Upholds => CallsOK' /\ ToldOK' /\ \A d \in Callers \ {c} : call'[d] = call[d]
      PROVE  IInv'
  <2>1. Upholds /\ ServerOK(server)' /\ HistoryOK' /\ FilesOK' /\ PurgedWasArchived'
    BY <1>2, <1>4, QuietStep
  <2>2. LateOK'
    BY <1>2, <2>1, LateSame DEF IInv
  <2>3. QueueOK'
    BY <1>2, <1>4, <2>1, QueueSame DEF IInv
  <2> QED BY <1>3, <1>4, <2>1, <2>2, <2>3 DEF IInv
<1>5. DOMAIN history = HistoryFields
  BY DEF IInv, HistoryOK
<1>6. CASE ~Calls(c, op)
  <2>1. call' = call /\ told' = told /\ history' = history
    BY <1>1, <1>6 DEF Call
  <2> QED BY <1>4, <1>5, <2>1, CallsSame, ToldSame DEF IInv
<1>7. CASE Calls(c, op) /\ Statements(op) = <<>>
  <2>1. PICK answer : answer = Returned(op, <<>>, TRUE)
    OBVIOUS
  <2>2. told' = [told EXCEPT ![c] = Append(@, answer)] /\ call' = call /\ history' = history
    BY <1>1, <1>7, <2>1 DEF Call
  <2>3. answer.op = op
    BY <2>1 DEF Returned
  <2>4. op.kind # "archive"
    <3>1. op.kind = "archive" => Statements(op) = archive(op)
      BY DEF Statements
    <3>2. archive(op) # <<>>
      BY SeqOne DEF archive
    <3> QED BY <3>1, <3>2, <1>7
  <2>5. Truthful(c, answer)'
    BY <2>3, <2>4 DEF Truthful
  <2> QED BY <1>4, <1>5, <2>2, <2>5, CallsSame, ToldMore DEF IInv
<1>8. CASE Calls(c, op) /\ Statements(op) # <<>>
  <2>1. PICK r : r = [stage |-> "ready", op |-> op, todo |-> Statements(op),
                      got |-> <<>>, session |-> NoSession]
    OBVIOUS
  <2>2. /\ call' = [call EXCEPT ![c] = r] /\ told' = told
        /\ history' = IF op.kind = "validate"
                      THEN [history EXCEPT !.seen[c] = {Shapes(server, op.db)}, !.misled[c] = FALSE]
                      ELSE history
    BY <1>1, <1>8, <2>1 DEF Call
  <2>3. /\ DOMAIN history' = HistoryFields
        /\ history'.exports = history.exports /\ history'.lost = history.lost
    BY <1>5, <2>2 DEF HistoryFields
  <2>4. DOMAIN r = CallFields /\ r.op = op /\ r.todo = Statements(op)
    BY <2>1 DEF CallFields
  <2>5. \E S : Statements(op) \in Seq(S) /\ \A st \in S : Lawful(c, st)
    BY <1>3, <1>8, PurgesAreLawful, StatementsLawful DEF IInv
  <2>6. op.kind = "archive" => Statements(op) = archive(op)
    BY DEF Statements
  <2>7. Live(c, r)
    BY <1>8, <2>4, <2>5, <2>6 DEF Live
  <2>8. ASSUME Upholds PROVE CallsOK' /\ ToldOK' /\ \A d \in Callers \ {c} : call'[d] = call[d]
    <3>1. Live(c, r)'
      BY <2>7, <2>8, StayLawful
    <3> QED BY <2>2, <2>8, <3>1, CallsMove, ToldSame DEF IInv
  <2> QED BY <1>4, <2>3, <2>8
<1> QED BY <1>6, <1>7, <1>8

\* A step of pool or caller that leaves the server alone.
LEMMA CalmStep ==
    ASSUME IInv, UNCHANGED <<server, left, late>>, DOMAIN history' = HistoryFields,
           history'.exports = history.exports, history'.lost = history.lost,
           Upholds => CallsOK' /\ ToldOK' /\ QueueOK'
    PROVE  IInv'
<1>1. Upholds /\ ServerOK(server)' /\ HistoryOK' /\ FilesOK' /\ PurgedWasArchived'
  BY QuietStep
<1>2. LateOK' /\ LeftOK'
  BY <1>1, LateSame, LeftSame DEF IInv
<1> QED BY <1>1, <1>2 DEF IInv

LEMMA AskStep == ASSUME IInv, NEW c \in Callers, Ask(c) PROVE IInv'
<1>1. PICK op, todo : op = call[c].op /\ todo = call[c].todo
  OBVIOUS
<1> DEFINE p == PoolOf(op)
           st == Head(todo)
<1>2. call[c].stage = "ready" /\ UNCHANGED <<server, left, late, breaks>>
  BY DEF Ask
<1>3. DOMAIN history = HistoryFields
  BY DEF IInv, HistoryOK
<1>4. CASE Finish(c, call[c].got, FALSE) /\ UNCHANGED <<sessions, waiting, history>>
  <2>1. ASSUME Upholds PROVE CallsOK' /\ ToldOK' /\ QueueOK'
    BY <1>1, <1>2, <1>4, <2>1, FinishStep, QueueSame DEF IInv
  <2> QED BY <1>2, <1>3, <1>4, <2>1, CalmStep
<1>5. CASE Take(c, p) /\ UNCHANGED <<waiting, history>>
  <2>1. ASSUME Upholds PROVE CallsOK' /\ ToldOK' /\ QueueOK'
    BY <1>2, <1>5, <2>1, TakeStep, QueueSame DEF IInv
  <2> QED BY <1>2, <1>3, <1>5, <2>1, CalmStep
<1>6. CASE /\ waiting' = [waiting EXCEPT ![p] = Append(@, c)]
           /\ call' = [call EXCEPT ![c].stage = "queued"]
           /\ UNCHANGED <<sessions, told, history>>
  <2>1. PICK r : r = [call[c] EXCEPT !.stage = "queued"]
    OBVIOUS
  <2>2. Live(c, call[c])
    BY <1>2 DEF IInv, CallsOK
  <2>3. DOMAIN r = CallFields /\ r.op = call[c].op /\ r.todo = call[c].todo /\ r.stage = "queued"
    BY <2>1, <2>2 DEF Live, CallFields
  <2>4. Live(c, r)
    BY <2>2, <2>3 DEF Live
  <2>5. call' = [call EXCEPT ![c] = r]
    BY <1>6, <2>1
  <2>6. ASSUME Upholds PROVE CallsOK' /\ ToldOK' /\ QueueOK'
    <3>1. Live(c, r)'
      BY <2>4, <2>6, StayLawful
    <3>2. /\ CallsOK' /\ ToldOK'
          /\ call'[c] = r /\ \A d \in Callers \ {c} : call'[d] = call[d]
      BY <1>6, <2>5, <2>6, <3>1, CallsMove, ToldSame DEF IInv
    <3>3. QueueOK'
      BY <1>1, <1>2, <1>6, <2>3, <3>2, QueueJoined DEF IInv
    <3> QED BY <3>2, <3>3
  <2> QED BY <1>2, <1>3, <1>6, <2>6, CalmStep
<1>7. CASE GoOn(c, FALSE, <<>>) /\ history' = Mislead(history, c) /\ UNCHANGED <<sessions, waiting>>
  <2>1. ASSUME Upholds PROVE CallsOK' /\ ToldOK' /\ QueueOK'
    <3>1. call[c].stage # "idle" /\ call[c].stage # "queued"
      BY <1>2
    <3>2. CallsOK' /\ ToldOK' /\ \A d \in Callers \ {c} : call'[d] = call[d]
      BY <1>1, <1>7, <2>1, <3>1, GoOnStep
    <3> QED BY <1>7, <3>1, <3>2, QueueSame DEF IInv
  <2> QED BY <1>2, <1>3, <1>7, <2>1, MisledSame, CalmStep
<1> HIDE DEF p, st
<1> QED BY <1>1, <1>4, <1>5, <1>6, <1>7 DEF Ask, p, st

LEMMA HandOverStep == ASSUME IInv, NEW p \in Pools, HandOver(p) PROVE IInv'
<1>1. PICK c : c = Head(waiting[p])
  OBVIOUS
<1>2. /\ waiting[p] # <<>> /\ Take(c, p) /\ waiting' = [waiting EXCEPT ![p] = Tail(@)]
      /\ UNCHANGED <<server, left, late, breaks, history>>
  BY <1>1 DEF HandOver, HandOverDue
<1>3. c \in Callers /\ call[c].stage = "queued"
  BY <1>1, <1>2, QueueHead DEF IInv
<1>4. ASSUME Upholds PROVE CallsOK' /\ ToldOK' /\ QueueOK'
  <2>1. CallsOK' /\ ToldOK' /\ \A d \in Callers \ {c} : call'[d] = call[d]
    BY <1>2, <1>3, <1>4, TakeStep
  <2> QED BY <1>1, <1>2, <2>1, QueueLeft DEF IInv
<1>5. DOMAIN history = HistoryFields
  BY DEF IInv, HistoryOK
<1> QED BY <1>2, <1>4, <1>5, CalmStep

LEMMA BreakStep == ASSUME IInv, NEW c \in Callers, Break(c) PROVE IInv'
<1>1. PICK op, todo, l : /\ op = call[c].op /\ todo = call[c].todo
                         /\ l = [by |-> c, db |-> sessions[PoolOf(call[c].op)][call[c].session],
                                 st |-> Head(todo)]
  OBVIOUS
<1>2. /\ call[c].stage = "running" /\ GoOn(c, FALSE, <<>>) /\ history' = Mislead(history, c)
      /\ late' = late \cup {l} /\ UNCHANGED <<server, waiting, left>>
  BY <1>1 DEF Break
<1>3. DOMAIN history = HistoryFields
  BY DEF IInv, HistoryOK
<1>4. Upholds /\ ServerOK(server)' /\ HistoryOK' /\ FilesOK' /\ PurgedWasArchived'
  BY <1>2, <1>3, MisledSame, QuietStep
<1>5. CallsOK' /\ ToldOK' /\ QueueOK'
  <2>1. call[c].stage # "idle" /\ call[c].stage # "queued"
    BY <1>2
  <2>2. CallsOK' /\ ToldOK' /\ \A d \in Callers \ {c} : call'[d] = call[d]
    BY <1>1, <1>2, <1>4, <2>1, GoOnStep
  <2> QED BY <1>2, <2>1, <2>2, QueueSame DEF IInv
<1>6. LateOK'
  <2>1. Live(c, call[c])
    BY <1>2 DEF IInv, CallsOK
  <2>2. PICK S : todo \in Seq(S) /\ \A st \in S : Lawful(c, st)
    BY <1>1, <2>1 DEF Live
  <2>3. Head(todo) \in S
    BY <1>1, <2>1, <2>2, SeqParts DEF Live
  <2>4. l.st = Head(todo) /\ l.by = c
    BY <1>1
  <2>5. Lawful(l.by, l.st)
    BY <2>2, <2>3, <2>4
  <2>6. ASSUME NEW m \in late' PROVE Lawful(m.by, m.st)'
    <3>1. Lawful(m.by, m.st)
      BY <1>2, <2>5 DEF IInv, LateOK
    <3> QED BY <1>4, <3>1, StayLawful
  <2> QED BY <2>6 DEF LateOK
<1>7. LeftOK'
  BY <1>2, LeftSame DEF IInv
<1> QED BY <1>4, <1>5, <1>6, <1>7 DEF IInv

LEMMA ReplyStep == ASSUME IInv, NEW c \in Callers, Reply(c) PROVE IInv'
<1>1. PICK op, todo, st, db : /\ op = call[c].op /\ todo = call[c].todo /\ st = Head(todo)
                              /\ db = sessions[PoolOf(call[c].op)][call[c].session]
  OBVIOUS
<1>2. PICK ok, value, remembered :
          /\ ok = Accepts(server, db, st)
          /\ value = IF ok THEN Shows(server, db, st) ELSE <<>>
          /\ remembered = IF ok THEN Remember(c, db, st, server, server') ELSE history
          /\ server' = IF ok THEN After(server, db, st) ELSE server
          /\ GoOn(c, ok, value)
          /\ history' = remembered \/ history' = Mislead(remembered, c)
  BY <1>1 DEF Reply
<1>3. call[c].stage = "running" /\ UNCHANGED <<waiting, left, late, breaks>>
  BY DEF Reply
<1>4. Live(c, call[c])
  BY <1>3 DEF IInv, CallsOK
<1>5. PICK S : todo \in Seq(S) /\ \A s \in S : Lawful(c, s)
  BY <1>1, <1>4 DEF Live
<1>6. Lawful(c, st)
  BY <1>1, <1>4, <1>5, SeqParts DEF Live
<1>7. DOMAIN history = HistoryFields
  BY DEF IInv, HistoryOK
<1>8. DOMAIN remembered = HistoryFields
  BY <1>2, <1>7 DEF Remember
<1>9. /\ DOMAIN history' = HistoryFields
      /\ history'.exports = remembered.exports /\ history'.lost = remembered.lost
  BY <1>2, <1>8, MisledSame
<1>10. /\ Upholds /\ ServerOK(server)' /\ HistoryOK' /\ FilesOK' /\ PurgedWasArchived'
       /\ ok /\ op.kind = "archive" => Covered(c, op.db, op.table, op.filter)'
  <2>1. CASE ok
    <3>1. CarriedOut(c, db, st)
      BY <1>2, <1>9, <2>1 DEF CarriedOut
    <3>2. Upholds /\ ServerOK(server)' /\ HistoryOK' /\ FilesOK' /\ PurgedWasArchived'
      BY <1>2, <1>6, <2>1, <3>1, EffectUpholds
    <3>3. ASSUME op.kind = "archive" PROVE Covered(c, op.db, op.table, op.filter)'
      <4>1. todo = archive(op)
        BY <1>1, <1>4, <3>3 DEF Live
      <4>2. st = [kind |-> "export", db |-> op.db, table |-> op.table, filter |-> op.filter]
        BY <1>1, <4>1, SeqOne DEF archive
      <4>3. st.kind = "export" /\ Within(db, st) = op.db /\ st.table = op.table /\ st.filter = op.filter
        BY <4>2 DEF Within
      <4>4. Covered(c, Within(db, st), st.table, st.filter)'
        BY <1>2, <1>6, <2>1, <3>1, <4>3, EffectUpholds
      <4> QED BY <4>3, <4>4
    <3> QED BY <3>2, <3>3
  <2>2. CASE ~ok
    <3>1. server' = server /\ remembered = history
      BY <1>2, <2>2
    <3> QED BY <1>9, <2>2, <3>1, QuietStep
  <2> QED BY <2>1, <2>2
<1>11. ok /\ Head(todo).kind = "show tables" => \E V : value \in Seq(V)
  BY <1>1, <1>2, ShownTables DEF IInv
<1>12. CallsOK' /\ ToldOK' /\ QueueOK'
  <2>1. call[c].stage # "idle" /\ call[c].stage # "queued"
    BY <1>3
  <2>2. CallsOK' /\ ToldOK' /\ \A d \in Callers \ {c} : call'[d] = call[d]
    BY <1>1, <1>2, <1>10, <1>11, <2>1, GoOnStep
  <2> QED BY <1>3, <2>1, <2>2, QueueSame DEF IInv
<1>13. LateOK' /\ LeftOK'
  BY <1>3, <1>10, LateSame, LeftSame DEF IInv
<1> QED BY <1>10, <1>12, <1>13 DEF IInv

LEMMA LateStep == ASSUME IInv, LateEffect PROVE IInv'
<1>1. PICK l \in late : /\ late' = late \ {l} /\ Accepts(server, l.db, l.st)
                        /\ server' = After(server, l.db, l.st)
                        /\ history' = Remember(l.by, l.db, l.st, server, server')
  BY DEF LateEffect
<1>2. UNCHANGED <<sessions, waiting, call, left, told, breaks>>
  BY DEF LateEffect
<1>3. PICK c, db, st : c = l.by /\ db = l.db /\ st = l.st
  OBVIOUS
<1>4. Lawful(c, st)
  BY <1>3 DEF IInv, LateOK
<1>5. DOMAIN history' = HistoryFields
  BY <1>1 DEF Remember, IInv, HistoryOK
<1>6. CarriedOut(c, db, st)
  BY <1>1, <1>3, <1>5 DEF CarriedOut
<1>7. Upholds /\ ServerOK(server)' /\ HistoryOK' /\ FilesOK' /\ PurgedWasArchived'
  BY <1>1, <1>3, <1>4, <1>6, EffectUpholds
<1>8. CallsOK' /\ ToldOK' /\ LateOK' /\ LeftOK'
  BY <1>1, <1>2, <1>7, CallsSame, ToldSame, LateSame, LeftSame DEF IInv
<1>9. QueueOK'
  BY <1>2 DEF IInv, QueueOK
<1> QED BY <1>7, <1>8, <1>9 DEF IInv

LEMMA TickStep == ASSUME IInv, Tick PROVE IInv'
<1>1. PICK s, new : s = server /\ new = [s EXCEPT !.now = @ + 1]
  OBVIOUS
<1>2. server' = new /\ UNCHANGED <<sessions, waiting, call, left, told, late, breaks, history>>
  BY <1>1 DEF Tick
<1>3. new.tables = s.tables /\ new.files = s.files /\ DOMAIN new = ServerFields /\ ServerOK(s)
  BY <1>1 DEF IInv, ServerOK, ServerFields
<1>4. ServerOK(new)
  BY <1>3 DEF ServerOK, HasTable
<1>5. Upholds /\ HistoryOK' /\ PurgedWasArchived'
  BY <1>2, QuietUpholds DEF IInv, HistoryOK, PurgedWasArchived
<1>6. FilesOK'
  BY <1>1, <1>2, <1>3 DEF IInv, FilesOK, ExportOK
<1>7. CallsOK' /\ ToldOK' /\ LateOK' /\ LeftOK'
  BY <1>2, <1>5, CallsSame, ToldSame, LateSame, LeftSame DEF IInv
<1>8. QueueOK'
  BY <1>2 DEF IInv, QueueOK
<1> QED BY <1>2, <1>4, <1>5, <1>6, <1>7, <1>8 DEF IInv

(***************************************************************************)
(* The theorem                                                             *)
(***************************************************************************)
LEMMA NextStep == ASSUME IInv, [Next]_vars PROVE IInv'
<1>1. ASSUME NEW c \in Callers, Call(c) \/ Ask(c) \/ Reply(c) \/ Break(c) PROVE IInv'
  BY <1>1, CallStep, AskStep, ReplyStep, BreakStep
<1>2. ASSUME NEW p \in Pools, HandOver(p) PROVE IInv'
  BY <1>2, HandOverStep
<1>3. CASE LateEffect
  BY <1>3, LateStep
<1>4. CASE Tick
  BY <1>4, TickStep
<1>5. CASE UNCHANGED vars
  <2>1. /\ server' = server /\ history' = history /\ call' = call /\ told' = told
        /\ left' = left /\ late' = late /\ waiting' = waiting
    BY <1>5 DEF vars
  <2>2. Upholds => CallsOK' /\ ToldOK' /\ QueueOK'
    BY <2>1, CallsSame, ToldSame DEF IInv, QueueOK
  <2>3. DOMAIN history = HistoryFields
    BY DEF IInv, HistoryOK
  <2> QED BY <2>1, <2>2, <2>3, CalmStep
<1> QED BY <1>1, <1>2, <1>3, <1>4, <1>5 DEF Next

(* Whatever the callers do, in whatever order their statements and those of *)
(* broken sessions are carried out, and however time passes between them,   *)
(* a row that a purge deletes is in a file, or the exports of the same      *)
(* caller, table and filter, and there was one, did not find it             *)
(* (data-archive.ts:250, 309).                                              *)
THEOREM PurgesAreArchived == Spec => []PurgedWasArchived
<1>1. Init => IInv
  BY InitStep
<1>2. IInv /\ [Next]_vars => IInv'
  BY NextStep
<1>3. IInv => PurgedWasArchived
  BY DEF IInv
<1> QED BY <1>1, <1>2, <1>3, PTL DEF Spec
=============================================================================

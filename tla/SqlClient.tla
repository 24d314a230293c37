------------------------------ MODULE SqlClient ------------------------------
(***************************************************************************)
(* StarRocksClient (client.ts), the validator over it (schema-diff.ts) and *)
(* DataArchiveClient (data-archive.ts): operations of concurrent callers,  *)
(* each a sequence of statements sent one after the other over a pool of   *)
(* sessions.  Any session may serve any statement; a session may break     *)
(* under one, which then takes effect later or never.                      *)
(***************************************************************************)
EXTENDS SqlServer, LegacySchemaDiff

CONSTANTS
    Callers,
    Scripts,         \* what they do: functions from callers to sequences of operations
    Start,           \* the server's state at the start
    Home,            \* the database of the configuration
    ConnectionLimit, \* of each pool
    QueueLimit,      \* of each pool
    MaxBreaks,       \* bound: sessions that break under a statement
    MaxTime          \* bound: the time at the server

Pools == {"client", "archive"}
ASSUME ClientAssumption ==
    /\ ConnectionLimit \in [Pools -> Nat \ {0}] /\ QueueLimit \in [Pools -> Nat]
    /\ MaxBreaks \in Nat /\ MaxTime \in Nat
    /\ \A script \in Scripts : DOMAIN script = Callers

(* What the operations are given: sequences where they take sequences, and  *)
(* for those with one statement of their own no DELETE, which only          *)
(* purgeArchived sends.                                                     *)
Composite == {"createTable", "insertMany", "getTableStats", "validate", "archive", "purgeArchived"}
IsSequence(s) == s \in Seq(ToSet(s))
WellFormed(op) ==
    /\ op.kind \notin Composite =>
          /\ op.statement.kind # "delete"
          /\ op.statement.kind \in TableKinds \cup {"create table"} => "table" \in DOMAIN op.statement
    /\ op.kind = "createTable" => IsSequence(op.def.indexes)
    /\ op.kind = "insertMany" => /\ IsSequence(op.rows) /\ IsSequence(op.label)
                                 /\ op.batchSize \in Nat \ {0}
ASSUME OperationsAssumption ==
    \A script \in Scripts : \A c \in Callers :
        IsSequence(script[c]) /\ \A op \in ToSet(script[c]) : WellFormed(op)
ASSUME StartAssumption ==
    /\ DOMAIN Start = {"tables", "labels", "files", "now"} /\ Start.now = 0
    /\ \A d \in DOMAIN Start.tables :
          /\ IsFiniteSet(DOMAIN Start.tables[d])
          /\ \A t \in DOMAIN Start.tables[d] : "rows" \in DOMAIN Start.tables[d][t]

VARIABLES
    server,
    sessions,   \* pool -> the databases of its open sessions, by the session's number
    waiting,    \* pool -> the callers queued for a session
    call,       \* caller -> its operation under way
    left,       \* caller -> the operations it has yet to call
    told,       \* caller -> what its operations returned
    late,       \* statements whose sessions broke and which may still take effect
    breaks,     \* the number of broken sessions
    history     \* what happened, for the properties
vars == <<server, sessions, waiting, call, left, told, late, breaks, history>>

Idle == [stage |-> "idle"]
NoSession == 0

(***************************************************************************)
(* The statements of an operation.  One with a name that validateIdentifier *)
(* refuses is an "invalid" statement: it throws at its turn, unsent.       *)
(***************************************************************************)
createDatabase(db, lenient) == [kind |-> "create database", db |-> db, lenient |-> lenient]
dropDatabase(db, lenient) == [kind |-> "drop database", db |-> db, lenient |-> lenient]
useDatabase(db) == [kind |-> "use", db |-> db]
dropTable(table, lenient) == [kind |-> "drop table", table |-> table, lenient |-> lenient]
dropIndex(table, index) == [kind |-> "drop index", table |-> table, index |-> index]
insert(table, row, label) ==
    [kind |-> "insert", table |-> table, rows |-> <<row>>, label |-> label]
insertSelect(table, from, label) ==
    [kind |-> "insert select", table |-> table, from |-> from, label |-> label]
insertOverwrite(table, from) ==
    [kind |-> "overwrite", table |-> table, from |-> from, label |-> NoLabel]

createIndex(table, index) ==
    IF index.type = "BLOOM_FILTER"
    THEN [kind |-> "set bloom filter", table |-> table, columns |-> index.columns]
    ELSE IF index.valid
         THEN [kind |-> "create index", table |-> table, index |-> index.name]
         ELSE [kind |-> "invalid"]

\* What createTable would be if it set the bloom filter last.
createTableBloomLast(op) ==
    LET bloom == {i \in DOMAIN op.def.indexes : op.def.indexes[i].type = "BLOOM_FILTER"}
        plain == {i \in DOMAIN op.def.indexes : i \notin bloom}
        Of(set) == LET order == SetToSortSeq(set, <)
                   IN  [i \in DOMAIN order |-> createIndex(op.def.name, op.def.indexes[order[i]])]
    IN  <<[kind |-> "create table", table |-> op.def.name, def |-> op.def, lenient |-> op.lenient]>>
        \o Of(plain) \o Of(bloom)

createTable(op) ==
    <<[kind |-> "create table", table |-> op.def.name, def |-> op.def, lenient |-> op.lenient]>>
    \o [i \in DOMAIN op.def.indexes |-> createIndex(op.def.name, op.def.indexes[i])]

\* What insertMany would be if it labelled a batch by where it ends.
insertManyLabelledByEnd(op) ==
    [b \in 1..((Len(op.rows) + op.batchSize - 1) \div op.batchSize) |->
        LET i == (b - 1) * op.batchSize
            end == IF i + op.batchSize < Len(op.rows) THEN i + op.batchSize ELSE Len(op.rows)
        IN  [kind |-> "insert", table |-> op.table, rows |-> SubSeq(op.rows, i + 1, end),
             label |-> IF op.label = NoLabel THEN NoLabel ELSE op.label \o <<end>>]]

\* A batch is labelled by the place of its first row.
insertMany(op) ==
    [b \in 1..((Len(op.rows) + op.batchSize - 1) \div op.batchSize) |->
        LET i == (b - 1) * op.batchSize
            end == IF i + op.batchSize < Len(op.rows) THEN i + op.batchSize ELSE Len(op.rows)
        IN  [kind |-> "insert", table |-> op.table, rows |-> SubSeq(op.rows, i + 1, end),
             label |-> IF op.label = NoLabel THEN NoLabel ELSE op.label \o <<i>>]]

getTableStats(op) ==
    <<[kind |-> "count", table |-> op.table],
      [kind |-> "show partitions", table |-> op.table]>>

introspect(op) == <<useDatabase(op.db), [kind |-> "show tables"]>>

archive(op) == <<[kind |-> "export", db |-> op.db, table |-> op.table, filter |-> op.filter]>>

purgeArchived(op) ==
    IF op.filter = NoFilter THEN <<[kind |-> "invalid"]>>
    ELSE <<[kind |-> IF op.dryRun THEN "count" ELSE "delete",
            db |-> op.db, table |-> op.table, filter |-> op.filter]>>

\* The other operations are given with the one statement they send.
Statements(op) ==
    CASE op.kind = "createTable" -> createTable(op)
      [] op.kind = "insertMany" -> insertMany(op)
      [] op.kind = "getTableStats" -> getTableStats(op)
      [] op.kind = "validate" -> introspect(op)
      [] op.kind = "archive" -> archive(op)
      [] op.kind = "purgeArchived" -> purgeArchived(op)
      [] OTHER -> <<op.statement>>

PoolOf(op) == IF op.kind \in {"archive", "purgeArchived"} THEN "archive" ELSE "client"

(***************************************************************************)
(* How an operation goes on when a statement was answered, or failed.      *)
(***************************************************************************)
Catches(op, st) ==
    \/ op.kind = "validate" /\ st.kind \in {"show create", "describe"}
    \/ op.kind = "getTableStats" /\ st.kind = "show partitions"

\* introspect reads one table after the other; one it cannot read is left out.
NextOf(op, st, rest, ok, value) ==
    CASE op.kind = "validate" /\ st.kind = "show tables" ->
            [i \in DOMAIN value |-> [kind |-> "show create", table |-> value[i]]]
      [] op.kind = "validate" /\ st.kind = "show create" /\ ok ->
            <<[kind |-> "describe", table |-> st.table]>> \o rest
      [] OTHER -> rest

\* What introspect would return if it ended at the first table it cannot read.
IntrospectedUpTo(got) ==
    {introspectTable(got[i].st.table, got[i].value, got[i + 1].value)
        : i \in {j \in 1..(Len(got) - 1) : got[j].st.kind = "show create"
                                           /\ \A k \in 1..(j + 1) : got[k].ok}}

Introspected(got) ==
    {introspectTable(got[i].st.table, got[i].value, got[i + 1].value)
        : i \in {j \in 1..(Len(got) - 1) : got[j].st.kind = "show create" /\ got[j].ok /\ got[j + 1].ok}}

\* The value an operation returns, given whether it ran to its end.
Value(op, got, complete) ==
    CASE op.kind = "validate" /\ complete -> diff(op.tables, Introspected(got))
      [] op.kind = "archive" -> [success |-> complete]
      [] OTHER -> <<>>

\* What archive would return if its catch forgot to say so.
ReturnedAnyway(op, got, complete) ==
    [op |-> op, ok |-> complete \/ op.kind = "archive",
     value |-> IF op.kind = "archive" THEN [success |-> TRUE] ELSE Value(op, got, complete)]

\* archive catches every error and reports it in its result.
Returned(op, got, complete) ==
    [op |-> op, ok |-> complete \/ op.kind = "archive", value |-> Value(op, got, complete)]

Finish(c, got, complete) ==
    /\ call' = [call EXCEPT ![c] = Idle]
    /\ told' = [told EXCEPT ![c] = Append(@, Returned(call[c].op, got, complete))]

\* The operation c has under way goes on with the answer to its statement.
GoOn(c, ok, value) ==
    LET op == call[c].op
        st == Head(call[c].todo)
        rest == NextOf(op, st, Tail(call[c].todo), ok, value)
        got == Append(call[c].got, [st |-> st, ok |-> ok, value |-> value])
        stops == ~ok /\ ~Catches(op, st)
    IN  IF stops \/ rest = <<>>
        THEN Finish(c, got, ~stops)
        ELSE /\ call' = [call EXCEPT ![c] = [stage |-> "ready", op |-> op, todo |-> rest,
                                             got |-> got, session |-> NoSession]]
             /\ told' = told

(***************************************************************************)
(* The pool of mysql2: an idle session if there is one, else a new one up  *)
(* to the limit, else a place in the queue up to its limit.                *)
(***************************************************************************)
Held(p) == {call[c].session : c \in {d \in Callers :
                call[d].stage = "running" /\ PoolOf(call[d].op) = p}}
IdleSessions(p) == DOMAIN sessions[p] \ Held(p)
Unopened(p) == (1..ConnectionLimit[p]) \ DOMAIN sessions[p]
SomeSession(p) == IdleSessions(p) # {} \/ Unopened(p) # {}
HandOverDue(p) == waiting[p] # <<>> /\ SomeSession(p)

Run(c, p, s) ==
    /\ call' = [call EXCEPT ![c].stage = "running", ![c].session = s]
    /\ UNCHANGED told

\* c gets an idle session, or a new one in the database of the configuration.
Take(c, p) ==
    IF IdleSessions(p) # {}
    THEN (\E s \in IdleSessions(p) : Run(c, p, s)) /\ UNCHANGED sessions
    ELSE LET s == CHOOSE n \in Unopened(p) : \A m \in Unopened(p) : n <= m
         IN  Run(c, p, s) /\ sessions' = [sessions EXCEPT ![p] = With(@, s, Home)]

(***************************************************************************)
(* What the properties remember                                            *)
(***************************************************************************)
NoHistory == [roamed |-> FALSE, dropped |-> {}, exports |-> {}, lost |-> {},
              seen |-> [c \in Callers |-> {}], misled |-> [c \in Callers |-> FALSE]]

Shapes(s, db) == IF db \in DOMAIN s.tables
                 THEN [t \in DOMAIN s.tables[db] |-> s.tables[db][t].shape]
                 ELSE <<>>
Validates(c) == call[c].stage # "idle" /\ call[c].op.kind = "validate"
RowsAt(s, db, t) == IF HasTable(s, db, t) THEN {r \in Rows : s.tables[db][t].rows[r] > 0} ELSE {}

\* What c exported of a table under a filter, and what it had found by then.
Export(c, db, st, rows) == [by |-> c, db |-> db, table |-> st.table, filter |-> st.filter, rows |-> rows]
Found(c, db, st) ==
    {e.rows : e \in {x \in history.exports : x = Export(c, db, st, x.rows)}}

\* st was carried out for c in a session of db, with old and new the server's states.
Remember(c, db, st, old, new) ==
    LET in == Within(db, st)
        gone == {r \in RowsAt(old, in, st.table) \ RowsAt(new, in, st.table) :
                    <<in, st.table, r>> \notin new.files}
    IN  [history EXCEPT
            !.roamed = @ \/ (st.kind = "use" /\ st.db # Home)
                         \/ (st.kind = "drop database" /\ st.db = Home),
            !.dropped = @ \cup (IF st.kind \in {"drop table", "drop index"} THEN {st.table} ELSE {}),
            !.exports = @ \cup (IF st.kind = "export"
                                THEN {Export(c, in, st, RowsAt(old, in, st.table) \cap Filtered(old, st))}
                                ELSE {}),
            !.lost = @ \cup (IF st.kind = "delete"
                             THEN {[row |-> r, found |-> Found(c, in, st)] : r \in gone} ELSE {}),
            !.seen = [d \in Callers |-> IF Validates(d)
                                        THEN @[d] \cup {Shapes(new, call[d].op.db)} ELSE @[d]]]
\* c's statement failed without being carried out, or was answered from another database.
Mislead(h, c) == [h EXCEPT !.misled[c] = TRUE]

(***************************************************************************)
(* The steps of a caller                                                   *)
(***************************************************************************)
Init ==
    /\ server = Start
    /\ sessions = [p \in Pools |-> <<>>]
    /\ waiting = [p \in Pools |-> <<>>]
    /\ call = [c \in Callers |-> Idle]
    /\ left \in Scripts
    /\ told = [c \in Callers |-> <<>>]
    /\ late = {}
    /\ breaks = 0
    /\ history = NoHistory

(* Callers purge what they have archived: under the filter of an archive   *)
(* that has just reported success.                                         *)
Archived(c, op) ==
    /\ told[c] # <<>>
    /\ LET latest == Last(told[c])
       IN  /\ latest.op.kind = "archive" /\ latest.value.success
           /\ latest.op.db = op.db /\ latest.op.table = op.table /\ latest.op.filter = op.filter
Calls(c, op) == op.kind = "purgeArchived" => Archived(c, op) \/ op.dryRun \/ op.filter = NoFilter

\* c calls its next operation; one without statements returns at once.
Call(c) ==
    /\ call[c].stage = "idle" /\ left[c] # <<>>
    /\ left' = [left EXCEPT ![c] = Tail(@)]
    /\ LET op == Head(left[c])
       IN  IF ~Calls(c, op) THEN UNCHANGED <<call, told, history>>
           ELSE IF Statements(op) = <<>>
           THEN /\ told' = [told EXCEPT ![c] = Append(@, Returned(op, <<>>, TRUE))]
                /\ UNCHANGED <<call, history>>
           ELSE /\ call' = [call EXCEPT ![c] = [stage |-> "ready", op |-> op, todo |-> Statements(op),
                                                got |-> <<>>, session |-> NoSession]]
                /\ history' = IF op.kind = "validate"
                              THEN [history EXCEPT !.seen[c] = {Shapes(server, op.db)}, !.misled[c] = FALSE]
                              ELSE history
                /\ UNCHANGED told
    /\ UNCHANGED <<server, sessions, waiting, late, breaks>>

\* pool.query: a session, a place in the queue, or an error if that is full.
Ask(c) ==
    LET p == PoolOf(call[c].op)
        st == Head(call[c].todo)
    IN  /\ call[c].stage = "ready"
        /\ \/ /\ st.kind = "invalid"
              /\ Finish(c, call[c].got, FALSE)
              /\ UNCHANGED <<sessions, waiting, history>>
           \/ /\ st.kind # "invalid" /\ waiting[p] = <<>> /\ SomeSession(p)
              /\ Take(c, p)
              /\ UNCHANGED <<waiting, history>>
           \/ /\ st.kind # "invalid" /\ ~SomeSession(p) /\ Len(waiting[p]) < QueueLimit[p]
              /\ waiting' = [waiting EXCEPT ![p] = Append(@, c)]
              /\ call' = [call EXCEPT ![c].stage = "queued"]
              /\ UNCHANGED <<sessions, told, history>>
           \/ /\ st.kind # "invalid" /\ ~SomeSession(p) /\ Len(waiting[p]) >= QueueLimit[p]
              /\ GoOn(c, FALSE, <<>>)
              /\ history' = Mislead(history, c)
              /\ UNCHANGED <<sessions, waiting>>
        /\ UNCHANGED <<server, left, late, breaks>>

\* A session released while callers are queued goes to the first of them.
HandOver(p) ==
    /\ HandOverDue(p)
    /\ Take(Head(waiting[p]), p)
    /\ waiting' = [waiting EXCEPT ![p] = Tail(@)]
    /\ UNCHANGED <<server, left, late, breaks, history>>

\* The server carries out c's statement, or refuses it, and c has the answer.
Reply(c) ==
    /\ call[c].stage = "running"
    /\ LET p == PoolOf(call[c].op)
           st == Head(call[c].todo)
           db == sessions[p][call[c].session]
           ok == Accepts(server, db, st)
           new == IF ok THEN After(server, db, st) ELSE server
           strays == Validates(c) /\ st.kind # "use" /\ db # call[c].op.db
           remembered == IF ok THEN Remember(c, db, st, server, new) ELSE history
       IN  /\ server' = new
           /\ sessions' = [sessions EXCEPT ![p][call[c].session] = SessionAfter(server, db, st)]
           /\ GoOn(c, ok, IF ok THEN Shows(server, db, st) ELSE <<>>)
           /\ history' = IF strays THEN Mislead(remembered, c) ELSE remembered
    /\ UNCHANGED <<waiting, left, late, breaks>>

\* The session breaks under c's statement: c has an error, the server may have the statement.
Break(c) ==
    /\ call[c].stage = "running" /\ breaks < MaxBreaks
    /\ breaks' = breaks + 1
    /\ LET p == PoolOf(call[c].op)
           s == call[c].session
       IN  /\ late' = late \cup {[by |-> c, db |-> sessions[p][s], st |-> Head(call[c].todo)]}
           /\ sessions' = [sessions EXCEPT ![p] = Restrict(@, DOMAIN @ \ {s})]
    /\ GoOn(c, FALSE, <<>>)
    /\ history' = Mislead(history, c)
    /\ UNCHANGED <<server, waiting, left>>

\* A statement whose session broke takes effect after all.
LateEffect ==
    /\ \E l \in late :
        /\ late' = late \ {l}
        /\ Accepts(server, l.db, l.st)
        /\ server' = After(server, l.db, l.st)
        /\ history' = Remember(l.by, l.db, l.st, server, server')
    /\ UNCHANGED <<sessions, waiting, call, left, told, breaks>>

\* Time passes at the server, and rows come to match the conditions that speak of it.
Tick ==
    /\ server.now < MaxTime
    /\ server' = [server EXCEPT !.now = @ + 1]
    /\ UNCHANGED <<sessions, waiting, call, left, told, late, breaks, history>>

Next ==
    \/ \E c \in Callers : Call(c) \/ Ask(c) \/ Reply(c) \/ Break(c)
    \/ \E p \in Pools : HandOver(p)
    \/ LateEffect \/ Tick

Spec == Init /\ [][Next]_vars

(***************************************************************************)
(* Properties                                                              *)
(***************************************************************************)
Ops == UNION {ToSet(left[c]) \cup {told[c][i].op : i \in DOMAIN told[c]}
              \cup (IF call[c].stage = "idle" THEN {} ELSE {call[c].op}) : c \in Callers}

(* Rows given under one label land at most once, however often and by      *)
(* however many callers insertMany is called with them, in batches of      *)
(* whatever size: a call goes past its first batch only if that landed,    *)
(* and the label of the first batch is the same in every call.  It needs   *)
(* all sessions in one database, labels being those of a database, and     *)
(* that database to stay.                                                  *)
Inserts(op, r) ==
    \/ op.kind = "insertMany" /\ r \in ToSet(op.rows)
    \/ /\ op.kind \notin Composite
       /\ \/ op.statement.kind = "insert" /\ r \in ToSet(op.statement.rows)
          \/ op.statement.kind \in {"insert select", "overwrite"}
GivenAsOne(r) == \A one, other \in {op \in Ops : Inserts(op, r)} :
    /\ one.kind = "insertMany" /\ one.label # NoLabel
    /\ one.label = other.label
    /\ \A i, j \in DOMAIN one.rows : one.rows[i] = r /\ one.rows[j] = r => i = j
LabelledOnce ==
    ~history.roamed =>
        \A db \in DOMAIN server.tables : \A t \in DOMAIN server.tables[db] : \A r \in Rows :
            GivenAsOne(r) => server.tables[db][t].rows[r] <= 1

(* The indexes of a table are always the first ones of its definition, and *)
(* all of them once a createTable has returned: whichever calls were       *)
(* repeated, overlapped, refused or cut off, as long as nothing was        *)
(* dropped.  A definition with several bloom filters is out: each replaces *)
(* the one before, in a second call too.                                   *)
Blooms(indexes) == {i \in DOMAIN indexes : indexes[i].type = "BLOOM_FILTER"}
BloomOf(indexes) == IF Blooms(indexes) = {} THEN <<>>
                    ELSE indexes[CHOOSE i \in Blooms(indexes) : TRUE].columns
NamesOf(indexes) == {indexes[i].name : i \in DOMAIN indexes \ Blooms(indexes)}
Has(table, indexes) == table.indexes = NamesOf(indexes) /\ table.bloom = BloomOf(indexes)
Creating(t) == {op \in Ops : op.kind = "createTable" /\ op.def.name = t}
CreatesOneWay(t) == \A one, other \in Creating(t) :
    one.def = other.def /\ Cardinality(Blooms(one.def.indexes)) <= 1
IndexesInOrder ==
    ~history.roamed /\ Home \in DOMAIN server.tables =>
        \A t \in DOMAIN server.tables[Home] \ history.dropped :
            \A op \in Creating(t) : CreatesOneWay(t) =>
                LET table == server.tables[Home][t]
                    all == op.def.indexes
                    returned == \E c \in Callers : \E i \in DOMAIN told[c] :
                                    told[c][i].op \in Creating(t) /\ told[c][i].ok
                IN  /\ \E k \in 0..Len(all) : Has(table, SubSeq(all, 1, k))
                    /\ returned => Has(table, all)

(* What the callers and the start are like for the two properties above to  *)
(* hold of any script: the rows that insertMany is given are not yet in the *)
(* table, and only createTable gives a table its indexes.                   *)
Given == UNION {ToSet(script[c]) : script \in Scripts, c \in Callers}
RowsAreNew ==
    /\ \A d \in DOMAIN Start.tables : \A t \in DOMAIN Start.tables[d] : \A r \in Rows :
          Start.tables[d][t].rows[r] \in {0, 1}
    /\ \A op \in Given : op.kind = "insertMany" /\ HasTable(Start, Home, op.table) =>
          \A r \in ToSet(op.rows) : Start.tables[Home][op.table].rows[r] = 0
IndexesAreCreateTables ==
    \A op \in Given :
        /\ op.kind \notin Composite =>
              op.statement.kind \notin {"create table", "create index", "set bloom filter"}
        /\ op.kind = "createTable" /\ HasTable(Start, Home, op.def.name) =>
              LET table == Start.tables[Home][op.def.name]
                  all == op.def.indexes
              IN  /\ {"indexes", "bloom"} \subseteq DOMAIN table
                  /\ \E k \in 0..Len(all) : Has(table, SubSeq(all, 1, k))

(* A purge under the filter of an archive that has just reported success   *)
(* deletes no row that is in no file but those that this caller's exports  *)
(* of the same table under the same filter, and there was one, did not     *)
(* find: the rows that came to the table since, and those that came under  *)
(* the filter as time passed.  The DELETE evaluates the filter again       *)
(* (data-archive.ts:250, 309), so that under a filter with NOW(), the one  *)
(* the README shows (README.md:673, 692), rows that age between the two    *)
(* are deleted and in no file: the property bounds what is lost to them.   *)
PurgedWasArchived ==
    \A l \in history.lost : l.found # {} /\ \A rows \in l.found : l.row \notin rows

(* What validate reports about a table was so at some moment while it ran, *)
(* and what it does not report was otherwise at some moment, if its        *)
(* statements ran in the database it asked for and none was cut off.  What *)
(* it compares: the key and its columns, the names and types of the        *)
(* columns, the nullability of those that both have, and the distribution. *)
(* A type is compared with the length of a text, but without the sizes of  *)
(* a decimal or the width of an integer: DECIMAL(10,2) against             *)
(* DECIMAL(18,4) is never reported (schema-diff.ts:526-537).               *)
Described(columns) ==
    {<<columns[i].name, columns[i].base,
       IF columns[i].base \in {"VARCHAR", "CHAR"} THEN columns[i].args ELSE <<>>>>
        : i \in DOMAIN columns}
Alike(defined, shape) == Described(defined.columns) = Described(shape.columns)
KeysAlike(defined, shape) == defined.keyType = shape.keyType /\ defined.keys = shape.keys
NullableAlike(defined, shape) ==
    \A i \in DOMAIN defined.columns : \A j \in DOMAIN shape.columns :
        LET one == defined.columns[i]
            other == shape.columns[j]
        IN  one.name = other.name => one.nullable = other.nullable
SpreadAlike(defined, shape) ==
    LET one == defined.distribution
        other == shape.distribution
    IN  one.type = other.type /\ (one.type = "RANDOM" \/ one.columns = other.columns)
Reports(diffs, t, types) == \E d \in diffs : d.table = t /\ d.type \in types
KeyErrors == {"key_type_mismatch", "key_columns_mismatch"}
ColumnErrors == {"column_missing", "column_type_mismatch", "column_extra"}
PlainTables(moments) == \A m \in moments : \A t \in DOMAIN m : m[t].comment = {}

\* The diffs say of every table what was so at one of the moments.
TellsWhatWas(defined, diffs, moments) ==
    /\ \A def \in defined :
          LET t == def.name
              Says(types) == Reports(diffs, t, types)
          IN  IF Says({"table_missing"})
              THEN \E m \in moments : t \notin DOMAIN m
              ELSE \* what SHOW CREATE TABLE said of it, and what DESC said
                   /\ \E m \in moments : /\ t \in DOMAIN m
                                         /\ KeysAlike(def, m[t]) <=> ~Says(KeyErrors)
                                         /\ SpreadAlike(def, m[t]) <=> ~Says({"distribution_mismatch"})
                   /\ \E m \in moments : /\ t \in DOMAIN m
                                         /\ Alike(def, m[t]) <=> ~Says(ColumnErrors)
                                         /\ NullableAlike(def, m[t]) <=> ~Says({"column_nullable_mismatch"})
    /\ \A d \in diffs : d.type = "table_extra" => \E m \in moments : d.table \in DOMAIN m

ReportsWhatWas ==
    \A c \in Callers :
        told[c] # <<>> /\ call[c].stage = "idle" =>
            LET report == Last(told[c])
                moments == history.seen[c]
            IN  report.op.kind = "validate" /\ report.ok /\ ~history.misled[c] /\ PlainTables(moments) =>
                TellsWhatWas(report.op.tables, report.value, moments)

(* The tables that validate can compare: those of the server have columns  *)
(* of different names, show a width at most for integers, and a length or  *)
(* sizes for texts and decimals; a definition says the length of its texts *)
(* and has no arrays, which never match.                                   *)
Differing(columns) == \A i, j \in DOMAIN columns : columns[i].name = columns[j].name => i = j
Shown(col) ==
    CASE col.base \in {"VARCHAR", "CHAR"} -> TRUE
      [] col.base = "DECIMAL" -> Len(col.args) = 2
      [] col.base \in {"BIGINT", "INT"} -> col.args = <<>> \/ Len(col.args) = 1
      [] OTHER -> col.args = <<>>
Readable(shape) ==
    shape.keyType \in KeyTypes /\ Differing(shape.columns) /\ \A col \in ToSet(shape.columns) : Shown(col)
Comparable(col) ==
    /\ col.base # "ARRAY"
    /\ col.base \in {"VARCHAR", "CHAR"} => col.args # <<>>
    /\ col.base = "DECIMAL" => col.args = <<>> \/ Len(col.args) = 2
TablesAreComparable ==
    /\ \A d \in DOMAIN Start.tables : \A t \in DOMAIN Start.tables[d] :
          "shape" \in DOMAIN Start.tables[d][t] /\ Readable(Start.tables[d][t].shape)
    /\ \A op \in Given :
          /\ op.kind \notin Composite /\ op.statement.kind = "create table" => Readable(Stored(op.statement.def))
          /\ op.kind = "createTable" => Readable(Stored(op.def))
          /\ op.kind = "validate" =>
                /\ \A one, other \in op.tables : one.name = other.name => one = other
                /\ \A def \in op.tables : \A col \in ToSet(def.columns) : Comparable(col)
=============================================================================

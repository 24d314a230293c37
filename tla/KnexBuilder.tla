----------------------------- MODULE KnexBuilder -----------------------------
(***************************************************************************)
(* The builder of schema/knex-builder.ts, an object that every call        *)
(* changes and that a program may use again after a query, and the table   *)
(* its statements work on.  A statement is a record of the clauses of its  *)
(* text; in the text a condition carries the values its author wants for   *)
(* its placeholders, `values` are those sent along, in order.              *)
(***************************************************************************)
EXTENDS Integers, Sequences, FiniteSets, SequencesExt

CONSTANTS
    Columns,        \* the table's columns: the names in the database, by their keys
    OtherColumns,   \* those of a table to join
    OtherRows,      \* and its rows
    Values,         \* the values of columns
    Tested,         \* the keys that conditions, groups and orders are about
    Given,          \* values given to where and orWhere with two arguments
    Compared,       \* operators and values given to them with three
    Ranges,         \* pairs given to whereBetween
    JoinsGiven,     \* joins: type, column, operator and the other table's column
    Lists,          \* lists given to whereIn and whereNotIn
    Objects,        \* objects given to where and orWhere: sequences of <<key, value>>
    Updates,        \* objects given to update
    Inserts,        \* lists of objects given to insertMany
    Raws,           \* raw conditions: sequences of tests, with their words between
    MaxCalls,       \* bound: calls
    MaxConditions,  \* bound: conditions before the last
    FirstRows       \* the rows there are at the start

Null == -1
Undefined == -2
\* A raw condition is given as a sequence of tests with the words between them.
Operators == {"", "=", "!=", ">", "IN", "NOT IN", "BETWEEN", "IS NULL", "IS NOT NULL"}
Tests == [word : {"", "AND", "OR"}, column : STRING \cup {""}, operator : Operators, values : Seq(Int)]

ASSUME KnexAssumption ==
    /\ Columns \in [DOMAIN Columns -> STRING] /\ Tested \subseteq STRING
    /\ Given \subseteq Int /\ Compared \subseteq Operators \X (Int \ {Undefined})
    /\ Ranges \subseteq Seq(Int) /\ Lists \subseteq Seq(Int)
    /\ Objects \subseteq Seq(STRING \X Int)
    /\ Raws \subseteq [sql : Seq(Tests) \ {<<>>}, bindings : Seq(Int)]
    \* A raw condition comes with the values of its placeholders.
    /\ \A raw \in Raws : raw.bindings = FlattenSeq([k \in DOMAIN raw.sql |-> raw.sql[k].values])
    /\ Updates \subseteq Seq(STRING \X Int)
    /\ Inserts \subseteq Seq(Seq((DOMAIN Columns) \X Int))
    /\ \A data \in Inserts : \A j \in DOMAIN data : \A i, k \in DOMAIN data[j] :
          data[j][i][1] = data[j][k][1] => i = k

VARIABLES
    builder,    \* the object of class KnexBuilder
    rows,       \* the rows of its table, each a function from the names of columns
    answer,     \* what the latest call returned
    calls       \* the number of calls so far

vars == <<builder, rows, answer, calls>>

Nothing == [kind |-> "nothing"]

(***************************************************************************)
(* The class KnexBuilder                                                   *)
(***************************************************************************)
newBuilder ==
    [selectColumns |-> <<"*">>, selectAliases |-> {}, distinct |-> FALSE,
     whereClauses |-> <<>>, joins |-> <<>>, groupBy |-> <<>>, having |-> <<>>,
     orderBy |-> <<>>, limit |-> Undefined, offset |-> Undefined]

resolve(key, columns) == IF key \in DOMAIN columns THEN columns[key] ELSE key
resolveColumnName(key) == resolve(key, Columns)
\* A column with a table before it is taken as it is.
resolveJoinColumn(column, table, columns) ==
    IF column.table # "" THEN column ELSE [table |-> table, name |-> resolve(column.name, columns)]

select(b, keys) == [b EXCEPT !.selectColumns = keys]
\* aliases: a sequence of <<alias, key>>; the latest alias of a key stays with the builder
selectAs(b, aliases) ==
    [b EXCEPT !.selectColumns = [i \in DOMAIN aliases |-> aliases[i][2]],
              !.selectAliases = @ \cup {aliases[i][2] : i \in DOMAIN aliases}]
selectAll(b) == [b EXCEPT !.selectColumns = <<"*">>]
distinct(b) == [b EXCEPT !.distinct = TRUE]

Clause(type, boolean, key, operator, values) ==
    [type |-> type, boolean |-> boolean, column |-> resolveColumnName(key),
     operator |-> operator, values |-> values, sql |-> <<>>]
RawClause(boolean, raw) ==
    [type |-> "raw", boolean |-> boolean, column |-> "", operator |-> "",
     values |-> raw.bindings, sql |-> raw.sql]
Adding(b, clauses) == [b EXCEPT !.whereClauses = @ \o clauses]

\* where and orWhere: of an object, of two and of three arguments
whereObject(b, boolean, object) ==
    Adding(b, [i \in DOMAIN object |->
                  Clause("basic", boolean, object[i][1], "=", <<object[i][2]>>)])
where(b, boolean, key, operatorOrValue, value) ==
    Adding(b, <<IF value # Undefined
                THEN Clause("basic", boolean, key, operatorOrValue, <<value>>)
                ELSE Clause("basic", boolean, key, "=", <<operatorOrValue>>)>>)
whereIn(b, key, values) == Adding(b, <<Clause("in", "AND", key, "IN", values)>>)
whereNotIn(b, key, values) == Adding(b, <<Clause("notIn", "AND", key, "NOT IN", values)>>)
whereBetween(b, key, range) == Adding(b, <<Clause("between", "AND", key, "BETWEEN", range)>>)
whereNull(b, key) == Adding(b, <<Clause("null", "AND", key, "IS NULL", <<>>)>>)
whereNotNull(b, key) == Adding(b, <<Clause("notNull", "AND", key, "IS NOT NULL", <<>>)>>)
whereRaw(b, raw) == Adding(b, <<RawClause("AND", raw)>>)
orWhereRaw(b, raw) == Adding(b, <<RawClause("OR", raw)>>)

\* join, leftJoin and rightJoin; without a third argument the second is the column
join(b, type, column1, operator, column2) ==
    [b EXCEPT !.joins = Append(@,
        [type |-> type, column1 |-> resolveJoinColumn(column1, "t", Columns),
         operator |-> operator, column2 |-> resolveJoinColumn(column2, "o", OtherColumns)])]

groupBy(b, keys) == [b EXCEPT !.groupBy = [i \in DOMAIN keys |-> resolveColumnName(keys[i])]]
havingRaw(b, raw) == [b EXCEPT !.having = Append(@, RawClause("AND", raw))]
orderBy(b, key) == [b EXCEPT !.orderBy = Append(@, resolveColumnName(key))]
limit(b, n) == [b EXCEPT !.limit = n]
offset(b, n) == [b EXCEPT !.offset = n]

(***************************************************************************)
(* The statements                                                          *)
(***************************************************************************)
\* The text of a clause is the sequence of its tests, each after a word; the
\* word of the first clause is WHERE (or HAVING) whatever its boolean.
Worded(word, t) ==
    [word |-> word, column |-> t.column, operator |-> t.operator, values |-> t.values]
ClauseText(c) ==
    IF c.type = "raw"
    THEN [k \in DOMAIN c.sql |-> Worded(IF k = 1 THEN c.boolean ELSE c.sql[k].word, c.sql[k])]
    ELSE <<Worded(c.boolean, c)>>
\* (mutant) The word of the clause before.
TextShifted(clauses) ==
    [i \in DOMAIN clauses |-> ClauseText([clauses[i] EXCEPT !.boolean = clauses[Max({1, i - 1})].boolean])]
Text(clauses) == [i \in DOMAIN clauses |-> ClauseText(clauses[i])]
ClauseValues(clauses) == FlattenSeq([i \in DOMAIN clauses |-> clauses[i].values])

buildWhereSQL(b) ==
    [text |-> Text(b.whereClauses), values |-> ClauseValues(b.whereClauses)]
buildHavingSQL(b) == [text |-> Text(b.having), values |-> ClauseValues(b.having)]

Statement(set, where_, sent) ==
    [columns |-> <<>>, distinct |-> FALSE, joins |-> <<>>, set |-> set, where |-> where_,
     groupBy |-> <<>>, having |-> <<>>, limit |-> Undefined, offset |-> Undefined,
     values |-> sent]

toSQL(b) ==
    LET w == buildWhereSQL(b)
        h == buildHavingSQL(b)
        column(key) == [name |-> IF key = "*" THEN "*" ELSE resolveColumnName(key),
                        aliased |-> key \in b.selectAliases]
    IN  [Statement(<<>>, w.text, w.values \o h.values) EXCEPT
            !.columns = [i \in DOMAIN b.selectColumns |-> column(b.selectColumns[i])],
            !.distinct = b.distinct, !.joins = b.joins, !.groupBy = b.groupBy,
            !.having = h.text, !.limit = b.limit, !.offset = b.offset]

\* (mutant) The joins are left out.
countWithoutJoins(b, column) ==
    LET w == buildWhereSQL(b)
    IN  [Statement(<<>>, w.text, w.values) EXCEPT
            !.columns = <<[name |-> column, aliased |-> FALSE]>>, !.groupBy = b.groupBy]

\* Neither DISTINCT, HAVING, LIMIT nor OFFSET.
buildCountSQL(b, column) ==
    LET w == buildWhereSQL(b)
    IN  [Statement(<<>>, w.text, w.values) EXCEPT
            !.columns = <<[name |-> column, aliased |-> FALSE]>>,
            !.joins = b.joins, !.groupBy = b.groupBy]

\* The entries of an object that have a value.
Entries(data) ==
    FlattenSeq([i \in DOMAIN data |-> IF data[i][2] = Undefined THEN <<>> ELSE <<data[i]>>])
\* (mutant) The values of the conditions come first.
updateSQLInCallOrder(b, data) ==
    LET entries == Entries(data)
        w == buildWhereSQL(b)
    IN  Statement([i \in DOMAIN entries |-> [column |-> resolveColumnName(entries[i][1]),
                                             plus |-> FALSE, value |-> entries[i][2]]],
                  w.text, w.values \o [i \in DOMAIN entries |-> entries[i][2]])

updateSQL(b, data) ==
    LET entries == Entries(data)
        w == buildWhereSQL(b)
    IN  Statement([i \in DOMAIN entries |-> [column |-> resolveColumnName(entries[i][1]),
                                             plus |-> FALSE, value |-> entries[i][2]]],
                  w.text, [i \in DOMAIN entries |-> entries[i][2]] \o w.values)
incrementSQL(b, key, amount) ==
    LET w == buildWhereSQL(b)
    IN  Statement(<<[column |-> resolveColumnName(key), plus |-> TRUE, value |-> amount]>>,
                  w.text, <<amount>> \o w.values)
deleteSQL(b) == LET w == buildWhereSQL(b) IN Statement(<<>>, w.text, w.values)

Get(object, key) ==
    IF \E i \in DOMAIN object : object[i][1] = key
    THEN object[CHOOSE i \in DOMAIN object : object[i][1] = key][2] ELSE Undefined
\* (mutant) Each row's values in the order of its own keys.
insertSQLByPosition(data) ==
    [columns |-> [i \in DOMAIN data[1] |-> resolveColumnName(data[1][i][1])],
     rows |-> [j \in DOMAIN data |-> [i \in DOMAIN data[1] |->
                  IF i \in DOMAIN data[j] THEN data[j][i][2] ELSE Undefined]]]

\* insert, and insertMany: the columns are those of the first object
insertSQL(data) ==
    [columns |-> [i \in DOMAIN data[1] |-> resolveColumnName(data[1][i][1])],
     rows |-> [j \in DOMAIN data |-> [i \in DOMAIN data[1] |-> Get(data[j], data[1][i][1])]]]

(***************************************************************************)
(* The server: how it reads the statements                                 *)
(***************************************************************************)
Names(columns) == {columns[k] : k \in DOMAIN columns}
Holds(operator, a, vs) ==
    CASE operator = "IS NULL" -> a = Null
      [] operator = "IS NOT NULL" -> a # Null
      [] operator = "IN" -> a # Null /\ a \in ToSet(vs)
      [] operator = "NOT IN" -> a # Null /\ ToSet(vs) \cap {a, Null} = {}
      [] operator = "BETWEEN" -> a # Null /\ Null \notin ToSet(vs) /\ vs[1] <= a /\ a <= vs[2]
      [] operator = "=" -> a # Null /\ a = vs[1]
      [] operator = "!=" -> {a, vs[1]} \cap {Null, Undefined} = {} /\ a # vs[1]
      [] operator = ">" -> {a, vs[1]} \cap {Null, Undefined} = {} /\ a > vs[1]

\* A position of a text is a clause and a test of it; AND binds before OR, so
\* the text holds of a row if the tests of some run without an OR all hold.
Positions(text) == UNION {{<<i, k>> : k \in DOMAIN text[i]} : i \in DOMAIN text}
Upto(p, q) == p[1] < q[1] \/ (p[1] = q[1] /\ p[2] <= q[2])
At(text, p) == text[p[1]][p[2]]
Test(text, p, row) ==
    Holds(At(text, p).operator, row[At(text, p).column], At(text, p).values)
Begins(text, p) == p = <<1, 1>> \/ At(text, p).word = "OR"
Run(text, p) ==
    {q \in Positions(text) :
        /\ Upto(p, q)
        /\ \A r \in Positions(text) : r # p /\ Upto(p, r) /\ Upto(r, q) => At(text, r).word # "OR"}
Matches(text, row) ==
    \/ text = <<>>
    \/ \E p \in Positions(text) :
          Begins(text, p) /\ \A q \in Run(text, p) : Test(text, q, row)

\* The pairs of a row and a row of the joined table, or of none.
NoRow(columns) == [c \in Names(columns) |-> Null]
Sources(joins) ==
    IF joins = <<>> THEN rows \X {NoRow(OtherColumns)}
    ELSE LET j == joins[1]
             value(p, column) == IF column.table = "t" THEN p[1][column.name] ELSE p[2][column.name]
             on == {p \in rows \X OtherRows :
                       Holds(j.operator, value(p, j.column1), <<value(p, j.column2)>>)}
             lonely == {r \in rows : \A p \in on : p[1] # r}
             others == {o \in OtherRows : \A p \in on : p[2] # o}
         IN  on \cup (IF j.type = "left" THEN lonely \X {NoRow(OtherColumns)} ELSE {})
                \cup (IF j.type = "right" THEN {NoRow(Columns)} \X others ELSE {})
Matching(s) == {p \in Sources(s.joins) : Matches(s.where, p[1])}

\* An empty list and an OFFSET without LIMIT are errors of syntax; a name that
\* two joined tables have, and a column outside GROUP BY, are refused.
Refused(s) ==
    LET named == {At(s.where, p).column : p \in Positions(s.where)} \cup ToSet(s.groupBy)
                 \cup {s.columns[i].name : i \in DOMAIN s.columns}
    IN  \/ \E p \in Positions(s.where) :
              At(s.where, p).operator \in {"IN", "NOT IN"} /\ At(s.where, p).values = <<>>
        \/ s.offset # Undefined /\ s.limit = Undefined
        \/ Len(s.joins) > 1
        \/ s.joins # <<>> /\ named \cap Names(Columns) \cap Names(OtherColumns) # {}
        \/ s.having # <<>> /\ s.groupBy = <<>>
RefusedSelect(s) ==
    \/ Refused(s)
    \/ s.groupBy # <<>> /\ ~({s.columns[i].name : i \in DOMAIN s.columns} \subseteq ToSet(s.groupBy))

Project(p, names) == IF "*" \in names THEN p ELSE [n \in names |-> p[1][n]]
GroupsOf(s) ==
    LET key(p) == Project(p, ToSet(s.groupBy))
    IN  {{q \in Matching(s) : key(q) = key(p)} : p \in Matching(s)}
\* HAVING is about the number of rows of a group.
Kept(s, g) == \A p \in Positions(s.having) : Cardinality(g) > At(s.having, p).values[1]

\* The number of rows that a SELECT returns.
Shown(s) ==
    LET names == {s.columns[i].name : i \in DOMAIN s.columns}
        each == {Project(p, names) : p \in Matching(s)}
        groups == {g \in GroupsOf(s) : Kept(s, g)}
        n == IF s.groupBy # <<>>
             THEN IF s.distinct
                  THEN Cardinality({Project(CHOOSE p \in g : TRUE, names) : g \in groups})
                  ELSE Cardinality(groups)
             ELSE IF s.distinct THEN Cardinality(each) ELSE Cardinality(Matching(s))
        rest == IF s.offset = Undefined THEN n ELSE Max({0, n - s.offset})
    IN  IF s.limit = Undefined THEN rest ELSE Min({s.limit, rest})

\* The numbers that a SELECT COUNT may have in its first row.
Counts(s) ==
    LET c == s.columns[1].name
        size(g) == Cardinality({p \in g : c = "*" \/ p[1][c] # Null})
    IN  IF s.groupBy = <<>> THEN {size(Matching(s))}
        ELSE IF Matching(s) = {} THEN {0} ELSE {size(g) : g \in GroupsOf(s)}

Touched(s) == {r \in rows : Matches(s.where, r)}
Stored(v) == IF v = Undefined THEN Null ELSE v
SetIn(r, s) ==
    [n \in DOMAIN r |->
        LET is == {i \in DOMAIN s.set : s.set[i].column = n}
            e == s.set[Max(is)]
        IN  IF is = {} THEN r[n]
            ELSE IF ~e.plus THEN e.value
            ELSE IF r[n] = Null THEN Null ELSE r[n] + e.value]
Inserted(s) ==
    {[n \in Names(Columns) |->
        IF n \in ToSet(s.columns)
        THEN Stored(s.rows[j][CHOOSE i \in DOMAIN s.columns : s.columns[i] = n]) ELSE Null] :
     j \in DOMAIN s.rows}

(***************************************************************************)
(* The calls                                                               *)
(***************************************************************************)
\* Each column has a name of its own and none is called *; id is the table's key, and
\* an update gives it no value, for StarRocks sets no key.
Id == Columns["id"]
ASSUME TableAssumption ==
    /\ {"id", "x"} \subseteq DOMAIN Columns /\ "*" \notin Names(Columns)
    /\ \A k, l \in DOMAIN Columns : Columns[k] = Columns[l] => k = l
    /\ \A data \in Updates : \A i \in DOMAIN data :
          resolveColumnName(data[i][1]) = Id => data[i][2] = Undefined
    /\ IsFiniteSet(FirstRows) /\ FirstRows \subseteq [Names(Columns) -> Int]
    /\ \A r, q \in FirstRows : r[Id] = q[Id] => r = q
    /\ IsFiniteSet(OtherRows)

Init ==
    /\ builder = newBuilder
    /\ rows = FirstRows
    /\ answer = Nothing
    /\ calls = 0

Call == calls < MaxCalls /\ calls' = calls + 1
Builds(b) == Call /\ builder' = b /\ answer' = Nothing /\ UNCHANGED rows
Answers(b, a) == Call /\ builder' = b /\ answer' = a /\ UNCHANGED rows
Error == [kind |-> "error"]
Writes(s, rs) ==
    /\ Call
    /\ IF Refused(s) THEN answer' = Error /\ UNCHANGED rows
       ELSE answer' = [kind |-> "written"] /\ rows' = rs
    /\ UNCHANGED builder

\* db(table): a builder of its own for the next query
NewQuery == builder # newBuilder /\ Builds(newBuilder)

Selecting ==
    \/ \E key \in Tested : Builds(select(builder, <<key>>)) \/ Builds(selectAs(builder, <<<<"a", key>>>>))
    \/ Builds(selectAll(builder)) \/ Builds(distinct(builder))

\* where and orWhere, of which only the boolean differs
Conditions(b) == Len(builder.whereClauses) < MaxConditions /\ Builds(b)
Where(boolean) ==
    \/ \E key \in Tested, v \in Given : Conditions(where(builder, boolean, key, v, Undefined))
    \/ \E key \in Tested, c \in Compared : Conditions(where(builder, boolean, key, c[1], c[2]))
    \/ \E o \in Objects : Conditions(whereObject(builder, boolean, o))
Splits(raw) == \E k \in DOMAIN raw.sql : raw.sql[k].word = "OR"
Narrows ==
    \/ Where("AND")
    \/ \E key \in Tested :
          \/ \E l \in Lists : Conditions(whereIn(builder, key, l)) \/ Conditions(whereNotIn(builder, key, l))
          \/ \E range \in Ranges : Conditions(whereBetween(builder, key, range))
          \/ Conditions(whereNull(builder, key)) \/ Conditions(whereNotNull(builder, key))
    \/ \E raw \in Raws : ~Splits(raw) /\ Conditions(whereRaw(builder, raw))
Widens == Where("OR") \/ \E raw \in Raws : Conditions(orWhereRaw(builder, raw))
\* A raw condition with an OR of its own is not put in brackets.
Splices == \E raw \in Raws : Splits(raw) /\ Conditions(whereRaw(builder, raw))

Joining == \E j \in JoinsGiven : Builds(join(builder, j[1], j[2], j[3], j[4]))
Grouping ==
    \/ \E key \in Tested : Builds(groupBy(builder, <<key>>)) \/ Builds(orderBy(builder, key))
    \/ \E raw \in Raws : ~Splits(raw) /\ Builds(havingRaw(builder, raw))
Window == Builds(limit(builder, 1)) \/ Builds(offset(builder, 1))

Rows(s) == IF RefusedSelect(s) THEN Error ELSE [kind |-> "rows", n |-> Shown(s)]
Execute == Answers(builder, Rows(toSQL(builder)))
\* first and firstOrFail leave their limit in the builder
First == LET b == limit(builder, 1) IN Answers(b, Rows(toSQL(b)))
FirstOrFail ==
    LET b == limit(builder, 1)
        r == Rows(toSQL(b))
    IN  Answers(b, IF r.kind = "rows" /\ r.n = 0 THEN Error ELSE r)
\* pluck leaves its column selected, and reads the rows by the key of the column
Pluck ==
    \E key \in DOMAIN Columns :
        LET b == select(builder, <<key>>)
            r == Rows(toSQL(b))
            found == Columns[key] = key /\ key \notin b.selectAliases
        IN  Answers(b, IF r.kind = "rows" THEN [kind |-> "plucked", n |-> r.n, found |-> found] ELSE r)
Count ==
    \E column \in {"*"} \cup Tested :
        LET s == buildCountSQL(builder, resolveColumnName(column))
        IN  IF Refused(s) THEN Answers(builder, Error)
            ELSE \E n \in Counts(s) : Answers(builder, [kind |-> "count", n |-> n])
Exists ==
    LET s == buildCountSQL(builder, "*")
    IN  IF Refused(s) THEN Answers(builder, Error)
        ELSE \E n \in Counts(s) : Answers(builder, [kind |-> "exists", yes |-> n > 0])

\* Keys are not inserted twice: what a table does with them depends on its model.
Insert(data) ==
    IF data = <<>> THEN Answers(builder, Error)
    ELSE LET s == insertSQL(data)
         IN  /\ \A r \in Inserted(s) : \A q \in rows \cup Inserted(s) : r[Id] = q[Id] => r = q
             /\ rows \cap Inserted(s) = {}
             /\ Writes(Statement(<<>>, <<>>, <<>>), rows \cup Inserted(s))
Update ==
    \E data \in Updates :
        LET s == updateSQL(builder, data)
        IN  IF s.set = <<>> THEN Answers(builder, Error)
            ELSE Writes(s, {IF r \in Touched(s) THEN SetIn(r, s) ELSE r : r \in rows})
\* increment; decrement is an increment by the negative amount
Increment ==
    \E amount \in {1, -1} :
        LET s == incrementSQL(builder, "x", amount)
        IN  Writes(s, {IF r \in Touched(s) THEN SetIn(r, s) ELSE r : r \in rows})
\* (mutant) A builder without conditions is not refused.
DeleteUnguarded == LET s == deleteSQL(builder) IN Writes(s, rows \ Touched(s))
Delete ==
    LET s == deleteSQL(builder)
    IN  IF builder.whereClauses = <<>> THEN Answers(builder, Error)
        ELSE Writes(s, rows \ Touched(s))
Truncate == Writes(Statement(<<>>, <<>>, <<>>), {})

Next ==
    \/ NewQuery \/ Selecting \/ Narrows \/ Widens \/ Splices \/ Joining \/ Grouping \/ Window
    \/ Execute \/ First \/ FirstOrFail \/ Pluck \/ Count \/ Exists
    \/ (\E data \in Inserts : Insert(data)) \/ Update \/ Increment \/ Delete \/ Truncate

Spec == Init /\ [][Next]_vars
(***************************************************************************)
(* Properties                                                              *)
(***************************************************************************)
TextValues(text) ==
    FlattenSeq([i \in DOMAIN text |-> FlattenSeq([k \in DOMAIN text[i] |-> text[i][k].values])])
Holes(s) ==
    [i \in DOMAIN s.set |-> s.set[i].value] \o TextValues(s.where) \o TextValues(s.having)

\* Whatever calls built it, each statement a builder makes sends the values in the
\* order of the placeholders of its text, those of SET, of the conditions and of
\* HAVING among them (knex-builder.ts: toSQL, buildCountSQL, update, increment, delete).
ValuesBound ==
    \A s \in {toSQL(builder), buildCountSQL(builder, "*"), deleteSQL(builder),
              incrementSQL(builder, "x", 1)} \cup {updateSQL(builder, o) : o \in Updates} :
        s.values = Holes(s)

AllRows == [Names(Columns) -> Values \cup {Null}]
MatchedBy(b) == {r \in AllRows : Matches(buildWhereSQL(b).text, r)}

\* With conditions before it in any order, a further where only takes rows away from
\* what a query selects and a further orWhere only adds some, though nothing is put in
\* brackets: a delete behind `orWhere(..).where(..)` hits no row that it did not hit
\* without its last condition (knex-builder.ts: buildWhereSQL).  A raw condition with
\* an OR of its own does not keep to this.
Narrowing ==
    [][ /\ Narrows => MatchedBy(builder') \subseteq MatchedBy(builder)
        /\ Widens /\ builder.whereClauses # <<>> =>
              MatchedBy(builder) \subseteq MatchedBy(builder')]_vars

\* count() and exists() tell of the rows that the query would return: how many there
\* are, with joins too, and whether first() finds one, in a grouped or distinct query
\* as well (knex-builder.ts: buildCountSQL against toSQL, which are built apart).
\* HAVING and OFFSET are not in the count; a limit only counts if it is 0.
CountAgrees ==
    LET s == toSQL(builder)
        c == buildCountSQL(builder, "*")
    IN  ~RefusedSelect(s) /\ s.having = <<>> /\ s.offset = Undefined /\ s.limit # 0 =>
            /\ ~Refused(c)
            /\ \A n \in Counts(c) :
                  /\ n > 0 <=> Shown(s) > 0
                  /\ s.limit = Undefined /\ s.groupBy = <<>> /\ ~s.distinct => n = Shown(s)

\* The rows that the conditions of b match, and those that its query finds, which its
\* joins can make fewer and the limit that first() leaves in it does not yet cut.
Hit(b) == {r \in rows : Matches(toSQL(b).where, r)}
Finds(b) == {p[1] : p \in Matching(toSQL(b))} \cap rows
\* A builder that has been used for other queries before deletes no more than its
\* conditions match, which are some (where({}) gives none), and leaves nothing that its
\* query finds; without joins what it deletes is just what the query finds.  update and
\* increment lose no row and change none that the conditions do not match.  A limit or a
\* join narrows the query alone: the statements ignore both and write to rows that the
\* query does not show (knex-builder.ts: first, delete, update, increment).
OnlySelectedChange ==
    [][ /\ Delete /\ answer' # Error =>
              /\ builder.whereClauses # <<>>
              /\ rows \ Hit(builder) \subseteq rows' /\ Finds(builder)' = {}
              /\ builder.joins = <<>> => rows' = rows \ Finds(builder)
        /\ Update \/ Increment =>
              rows \ Hit(builder) \subseteq rows' /\ Cardinality(rows') = Cardinality(rows)]_vars

\* Each object given to insertMany that has the keys of the first, in whatever order, is
\* stored with its values in the columns it names (knex-builder.ts: insertMany).
InsertedAsGiven ==
    [][\A data \in Inserts : Insert(data) =>
          \A j \in DOMAIN data :
              {data[j][i][1] : i \in DOMAIN data[j]} = {data[1][i][1] : i \in DOMAIN data[1]} =>
                  \E r \in rows' : \A i \in DOMAIN data[j] :
                      r[resolveColumnName(data[j][i][1])] = Stored(data[j][i][2])]_vars
=============================================================================

---------------------------- MODULE QueryBuilder ----------------------------
(***************************************************************************)
(* The builders of schema/query-builder.ts and the conditions composed for *)
(* them with schema/expressions.ts.  Every method returns a new builder;   *)
(* the application keeps all of them and may derive from any.  Arrays are  *)
(* objects: a builder holds the number of its array of joins, the one      *)
(* array that a method pushes to; the others are only ever replaced.       *)
(*                                                                         *)
(* `means` of a condition, and `asked` of a builder, are what the author    *)
(* asked for: the program does not have them.                              *)
(***************************************************************************)
EXTENDS Expressions

CONSTANTS
    Leaves,         \* the conditions an application puts beside others
    Tests,          \* more conditions to start from
    Vals,           \* values of columns and parameters
    ValuedGroups,   \* do expressions with parameters reach groupBy and orderBy?
    MaxSteps,       \* bound: calls that compose one condition
    MaxBuilders     \* bound: builders made

\* An expression asks in its text for the values it comes with.
Expressed(e) == e.sql \in Seq(Range(e.sql)) /\ e.values = Meant(e.sql)
ASSUME QueryAssumption == \A l \in Leaves \cup Tests : Expressed(l)

VARIABLES
    cond,       \* the condition being composed
    builders,   \* the builders made so far, objects that never change but for arrays
    arrays      \* the arrays of joins

vars == <<cond, builders, arrays>>

Env == [ToSet(ColumnOrder) -> Vals \cup {Null}]
NoCondition == [sql |-> <<>>, values |-> <<>>, means |-> [env \in Env |-> 1]]
NoSource == [kind |-> "none"]
\* An expression together with what its author means by it.
Meaning(e, f) == [sql |-> e.sql, values |-> e.values, means |-> f]

(***************************************************************************)
(* The class QueryBuilder                                                  *)
(***************************************************************************)
newBuilder ==
    [select |-> <<>>, from |-> NoSource, fromSubquery |-> NoSource, joins |-> 1,
     where |-> NoCondition, groupBy |-> <<>>, having |-> NoCondition, orderBy |-> <<>>,
     limit |-> FALSE, offset |-> FALSE, ctes |-> <<>>, setOperations |-> <<>>,
     distinct |-> FALSE, asked |-> <<>>]

\* A method's outcome: the new builder and the arrays after it.
Made(qb, as) == [qb |-> qb, arrays |-> as]

\* Mutant: the clone keeps the array of joins itself.
cloneSharingJoins(b, as) == Made(b, as)

clone(b, as) == Made([b EXCEPT !.joins = Len(as) + 1], Append(as, as[b.joins]))

select(b, as, fields) == Made([b EXCEPT !.select = fields, !.joins = Len(as) + 1],
                              Append(as, as[b.joins]))
selectAll(b, as) == select(b, as, <<>>)
distinct(b, as) == LET c == clone(b, as) IN Made([c.qb EXCEPT !.distinct = TRUE], c.arrays)

\* from() copies everything but an earlier source.
from(b, as, source) ==
    Made([b EXCEPT !.joins = Len(as) + 1,
                   !.from = IF source.kind = "table" THEN source ELSE NoSource,
                   !.fromSubquery = IF source.kind = "subquery" THEN source ELSE NoSource],
         Append(as, as[b.joins]))

join(b, as, table, on) ==
    LET c == clone(b, as)
    IN  Made(c.qb, [c.arrays EXCEPT ![c.qb.joins] = Append(@, [table |-> table, on |-> on])])

where(b, as, condition) ==
    LET c == clone(b, as) IN Made([c.qb EXCEPT !.where = condition], c.arrays)
having(b, as, condition) ==
    LET c == clone(b, as) IN Made([c.qb EXCEPT !.having = condition], c.arrays)
\* Of an expression only the text is kept.
groupBy(b, as, e) ==
    LET c == clone(b, as) IN Made([c.qb EXCEPT !.groupBy = <<e.sql>>], c.arrays)
orderBy(b, as, e) ==
    LET c == clone(b, as) IN Made([c.qb EXCEPT !.orderBy = <<e.sql>>], c.arrays)
limit(b, as) == LET c == clone(b, as) IN Made([c.qb EXCEPT !.limit = TRUE], c.arrays)
offset(b, as) == LET c == clone(b, as) IN Made([c.qb EXCEPT !.offset = TRUE], c.arrays)

Headed(sqls, w) == IF sqls = <<>> THEN <<>> ELSE <<K(w)>> \o sqls
Part(w, e) == IF e = NoCondition THEN <<>> ELSE <<K(w)>> \o e.sql

\* The text in the order of the clauses, and the values in the order in
\* which toSQL pushes them.
toSQL(b, as) ==
    LET cteText(c) == <<[t |-> "name", n |-> c.name], Open("")>> \o c.sql \o <<Close>>
        ctes == [i \in DOMAIN b.ctes |-> cteText(b.ctes[i])]
        joins == [i \in DOMAIN as[b.joins] |->
                    <<K("JOIN"), [t |-> "table", n |-> as[b.joins][i].table]>>
                        \o as[b.joins][i].on.sql]
        ons == [i \in DOMAIN as[b.joins] |-> as[b.joins][i].on]
        ops == [i \in DOMAIN b.setOperations |->
                    <<K(b.setOperations[i].type)>> \o b.setOperations[i].sql]
        source == IF b.fromSubquery # NoSource THEN <<K("FROM")>> \o b.fromSubquery.sql
                  ELSE IF b.from # NoSource THEN <<K("FROM"), [t |-> "table", n |-> b.from.name]>>
                  ELSE <<>>
        sourceValues == IF b.fromSubquery # NoSource THEN b.fromSubquery.values ELSE <<>>
    IN  [sql |-> Headed(Joining(ctes, Sep(",")), "WITH")
                 \o <<K("SELECT")>> \o (IF b.distinct THEN <<K("DISTINCT")>> ELSE <<>>)
                 \o (IF b.select = <<>> THEN <<K("*")>>
                     ELSE Joining(Sqls(b.select), Sep(",")))
                 \o source \o FlattenSeq(joins)
                 \o Part("WHERE", b.where)
                 \o Headed(Joining(b.groupBy, Sep(",")), "GROUP BY")
                 \o Part("HAVING", b.having)
                 \o FlattenSeq(ops)
                 \o Headed(Joining(b.orderBy, Sep(",")), "ORDER BY")
                 \o (IF b.limit THEN <<K("LIMIT")>> ELSE <<>>)
                 \o (IF b.offset THEN <<K("OFFSET")>> ELSE <<>>),
         values |-> AllValues(b.ctes) \o AllValues(b.select) \o sourceValues \o AllValues(ons)
                    \o b.where.values \o b.having.values \o AllValues(b.setOperations)]

\* Mutant: only the text of the subquery is passed on.
SubqueryWithoutValues(b, as, alias) ==
    [kind |-> "subquery", name |-> alias,
     sql |-> <<Open("")>> \o toSQL(b, as).sql \o <<Close>>, values |-> <<>>]

asSubquery(b, as, alias) ==
    LET q == toSQL(b, as)
    IN  [kind |-> "subquery", name |-> alias,
         sql |-> <<Open("")>> \o q.sql \o <<Close>>, values |-> q.values]

with(b, as, name, other) ==
    LET c == clone(b, as)
        q == toSQL(other, as)
    IN  Made([c.qb EXCEPT !.ctes = Append(@, [name |-> name, sql |-> q.sql, values |-> q.values])],
             c.arrays)

\* Mutant: the latest operation comes first.
combineInFront(b, as, type, other) ==
    LET c == clone(b, as)
        q == toSQL(other, as)
    IN  Made([c.qb EXCEPT !.setOperations =
                <<[type |-> type, sql |-> q.sql, values |-> q.values]>> \o @], c.arrays)

\* union, unionAll, intersect, except: the operand's text is appended as it is.
combine(b, as, type, other) ==
    LET c == clone(b, as)
        q == toSQL(other, as)
    IN  Made([c.qb EXCEPT !.setOperations =
                Append(@, [type |-> type, sql |-> q.sql, values |-> q.values])], c.arrays)

(***************************************************************************)
(* What the author of a builder asked for, for those whose result depends  *)
(* on the rows alone                                                       *)
(***************************************************************************)
Nowhere == [c \in ToSet(ColumnOrder) |-> Null]
Wide(r) == r @@ Nowhere
OwnRows(b, as) ==
    LET js == as[b.joins]
        joined == IF js = <<>> THEN Stored[b.from.name]
                  ELSE {p \in {r @@ s : r \in Stored[b.from.name], s \in Stored[js[1].table]} :
                          js[1].on.means[Wide(p)] = 1}
        kept == {r \in joined : b.where.means[Wide(r)] \notin {0, Null}}
        all(r) == SelectSeq(ColumnOrder, LAMBDA c : c \in DOMAIN r)
        shown(r) == IF b.select = <<>> THEN [i \in DOMAIN all(r) |-> r[all(r)[i]]]
                    ELSE [i \in DOMAIN b.select |-> b.select[i].means[Wide(r)]]
        bag == [s \in {shown(r) : r \in kept} |-> Cardinality({r \in kept : shown(r) = s})]
    IN  IF b.distinct THEN Once(bag) ELSE bag

Asked(b, as) == FoldLeft(LAMBDA acc, o : Combine(o.type, acc, o.rows),
                         OwnRows(b, as), b.asked)

Simple(b, as) ==
    /\ b.from # NoSource /\ Len(as[b.joins]) <= 1
    /\ b.ctes = <<>> /\ b.groupBy = <<>> /\ b.having = NoCondition
    /\ ~b.limit /\ ~b.offset

\* The texts of other builders read differently from what was asked: an operand
\* that is itself combined, or ordered, loses its own grouping, and an INTERSECT
\* binds before what was combined earlier.
Readable(b, as) ==
    /\ Simple(b, as)
    /\ \A i \in DOMAIN b.asked :
          /\ b.asked[i].simple
          /\ b.asked[i].type = "INTERSECT" =>
                \A j \in 1..(i - 1) : b.asked[j].type = "INTERSECT"

(***************************************************************************)
(* Composing a condition                                                   *)
(***************************************************************************)
Start == [sql |-> <<K("TRUE")>>, values |-> <<>>, means |-> [env \in Env |-> 1],
          type |-> "boolean", spliced |-> FALSE, steps |-> 0]

Init ==
    /\ cond = Start
    /\ builders = <<>>
    /\ arrays = <<>>

Composes(e, type, f, spliced, steps) ==
    /\ builders = <<>>
    /\ cond.steps + steps <= MaxSteps
    /\ cond' = [sql |-> e.sql, values |-> e.values, means |-> f, type |-> type,
                spliced |-> spliced, steps |-> cond.steps + steps]
    /\ UNCHANGED <<builders, arrays>>
Step(e, type, f) == Composes(e, type, f, cond.spliced, 1)

\* Tests count for two steps: they are nested one level less deep.
Leaf == /\ cond.steps = 0
        /\ \/ \E l \in Leaves : Step(l, "boolean", l.means)
           \/ \E l \in Tests : Composes(l, "boolean", l.means, FALSE, 2)

\* The types admit only conditions, not templates or values, as operands.
And == /\ cond.type = "boolean" /\ cond.steps > 0
       /\ \/ Step(and(<<>>), "boolean", [env \in Env |-> 1])
          \/ Step(and(<<cond>>), "boolean", cond.means)
          \/ \E l \in Leaves : \E es \in {<<cond, l>>, <<l, cond>>} :
                Step(and(es), "boolean", [env \in Env |-> Both(cond.means[env], l.means[env])])
Or == /\ cond.type = "boolean" /\ cond.steps > 0
      /\ \/ Step(or(<<>>), "boolean", [env \in Env |-> 0])
         \/ Step(or(<<cond>>), "boolean", cond.means)
         \/ \E l \in Leaves : \E es \in {<<cond, l>>, <<l, cond>>} :
               Step(or(es), "boolean", [env \in Env |-> Either(cond.means[env], l.means[env])])
NotOf == /\ cond.type = "boolean" /\ cond.steps > 0
         /\ Step(not(cond), "boolean", [env \in Env |-> Neg(cond.means[env])])

\* A template that ends up inside a comparison is read as part of it.
Comparison ==
    /\ cond.steps > 0
    /\ \E name \in IF cond.type = "value" THEN {"lt", "gte"} ELSE {"eq", "ne"}, v \in {0, 1} :
          Composes(compare(name, Nested(cond), Plain(v)), "boolean",
                   [env \in Env |-> Compare(comparison[name], cond.means[env], v)],
                   cond.spliced \/ cond.type = "template", 1)

Case ==
    /\ cond.steps > 0
    /\ \E l \in Leaves, withElse \in BOOLEAN :
          LET v == 1
              c == caseWhen(<<when(Nested(l), Plain(v)), when(Nested(cond), ColumnRef("t.x"))>>)
              otherwise(env) == IF withElse THEN v ELSE Null
          IN  Step(IF withElse THEN else(c, Plain(v)) ELSE c, "value",
                   [env \in Env |-> IF l.means[env] = 1 THEN v
                                    ELSE IF cond.means[env] = 1 THEN env["t.x"]
                                    ELSE otherwise(env)])
SimpleCase ==
    /\ cond.steps > 0
    /\ \E v \in {0, 1} :
          Step(else(caseExpr(Nested(cond), <<when(Plain(v), Plain(1)),
                                             when(ColumnRef("t.x"), Plain(0))>>),
                    ColumnRef("u.k")), "value",
               [env \in Env |-> IF cond.means[env] = v THEN 1
                                ELSE IF Compare("=", cond.means[env], env["t.x"]) = 1 THEN 0
                                ELSE env["u.k"]])

Conditional ==
    /\ cond.steps > 0
    /\ \/ /\ cond.type = "boolean"
          /\ Step(function("ifExpr", <<Nested(cond), Plain(0), ColumnRef("t.x")>>), "value",
                  [env \in Env |-> IF cond.means[env] = 1 THEN 0 ELSE env["t.x"]])
       \/ Step(function("coalesce", <<ColumnRef("u.k"), Nested(cond), Plain(1)>>), "value",
               [env \in Env |-> FirstNonNull(<<env["u.k"], cond.means[env], 1>>)])
       \/ Step(function("ifNull", <<Nested(cond), Plain(0)>>), "value",
               [env \in Env |-> FirstNonNull(<<cond.means[env], 0>>)])
       \/ Step(function("nullIf", <<Nested(cond), Plain(1)>>), "value",
               [env \in Env |-> IF cond.means[env] = 1 THEN Null ELSE cond.means[env]])

\* The query SELECT k FROM u WHERE <cond>, in whose rows u.k is its own.
SubqueryOf(c) ==
    LET b1 == from(newBuilder, <<<<>>>>, [kind |-> "table", name |-> "u"])
        b2 == select(b1.qb, b1.arrays, <<Meaning(Expression(<<Col("u.k")>>, <<>>), <<>>)>>)
        b3 == where(b2.qb, b2.arrays, c)
    IN  toSQL(b3.qb, b3.arrays)
Found(c, env) == {s["u.k"] : s \in {s \in Stored["u"] : c.means[s @@ env] = 1}}

Subquery ==
    /\ cond.steps > 0 /\ cond.type = "boolean"
    /\ \/ Step(exists(SubqueryOf(cond)), "boolean",
               [env \in Env |-> Truth(Found(cond, env) # {})])
       \/ Step(notExists(SubqueryOf(cond)), "boolean",
               [env \in Env |-> Truth(Found(cond, env) = {})])
       \/ Step(inSubquery(ColumnRef("t.x"), SubqueryOf(cond)), "boolean",
               [env \in Env |-> Member(env["t.x"], Found(cond, env))])
       \/ Step(notInSubquery(ColumnRef("t.x"), SubqueryOf(cond)), "boolean",
               [env \in Env |-> Neg(Member(env["t.x"], Found(cond, env)))])

\* Templates: `(<cond>) > ?` and `t.x = ? OR <cond>`.
Template ==
    /\ cond.steps > 0
    /\ \E v \in {0} :
         \/ Step(sql(<<<<Open("")>>, <<Close, Op(">")>>, <<>>>>, <<Nested(cond), Plain(v)>>),
                 "template", [env \in Env |-> Compare(">", cond.means[env], v)])
         \/ Step(sql(<<<<>>, <<Op("=")>>, <<K("OR")>>, <<>>>>,
                     <<ColumnRef("t.x"), Plain(v), Nested(cond)>>),
                 "template",
                 [env \in Env |-> Either(Compare("=", env["t.x"], v), cond.means[env])])

(***************************************************************************)
(* Deriving builders                                                       *)
(***************************************************************************)
\* An application that has composed a condition adds nothing here, as
\* builders only copy conditions: their conditions are taken from Leaves.
Adds(m) ==
    /\ Len(builders) < MaxBuilders
    /\ UNCHANGED cond
    /\ builders' = Append(builders, m.qb)
    /\ arrays' = m.arrays

New == /\ cond.steps = 0
       /\ Adds(from(newBuilder, Append(arrays, <<>>), [kind |-> "table", name |-> "t"]))

X == Meaning(Expression(<<Col("t.x")>>, <<>>), [env \in Env |-> env["t.x"]])
\* CASE WHEN <leaf> THEN ? ELSE ? END
Flag(l) == Meaning(else(caseWhen(<<when(Nested(l), Plain(1))>>), Plain(0)),
                   [env \in Env |-> Truth(l.means[env] = 1)])

Select == \E i \in DOMAIN builders :
             \/ \E l \in Leaves : Adds(select(builders[i], arrays, <<X, Flag(l)>>))
             \/ Adds(select(builders[i], arrays, <<X>>))
             \/ Adds(selectAll(builders[i], arrays))
             \/ Adds(distinct(builders[i], arrays))
From == \E i, j \in DOMAIN builders :
             \/ Adds(from(builders[i], arrays, [kind |-> "table", name |-> "t"]))
             \/ Adds(from(builders[i], arrays, asSubquery(builders[j], arrays, "s")))
Join == \E i \in DOMAIN builders, l \in Leaves : Adds(join(builders[i], arrays, "u", l))
Where == \E i \in DOMAIN builders, l \in Leaves :
             \/ Adds(where(builders[i], arrays, l))
             \/ Adds(having(builders[i], arrays, l))
Grouping == \E i \in DOMAIN builders,
              e \in {X} \cup (IF ValuedGroups THEN {Flag(l) : l \in Leaves} ELSE {}) :
             \/ Adds(groupBy(builders[i], arrays, e))
             \/ Adds(orderBy(builders[i], arrays, e))
Window == \E i \in DOMAIN builders :
             \/ Adds(limit(builders[i], arrays))
             \/ Adds(offset(builders[i], arrays))
With == \E i, j \in DOMAIN builders : Adds(with(builders[i], arrays, "c", builders[j]))

\* What is asked of an operand is known if it can be read.
SetOperation == \E i, j \in DOMAIN builders, type \in SetOperations :
    LET o == builders[j]
        simple == Simple(o, arrays) /\ o.setOperations = <<>> /\ o.orderBy = <<>>
        ask == [type |-> type, simple |-> simple,
                rows |-> IF simple THEN Asked(o, arrays) ELSE EmptyBag]
    IN  Adds([combine(builders[i], arrays, type, o) EXCEPT !.qb.asked = Append(@, ask)])

Next ==
    \/ Leaf \/ And \/ Or \/ NotOf \/ Comparison \/ Case \/ SimpleCase
    \/ Conditional \/ Subquery \/ Template
    \/ New \/ Select \/ From \/ Join \/ Where \/ Grouping \/ Window \/ With \/ SetOperation

Spec == Init /\ [][Next]_vars

(***************************************************************************)
(* Properties                                                              *)
(***************************************************************************)
\* The values of a condition and of a query are those of its placeholders, in the
\* order of the text, whatever the condition is composed of, and through subqueries,
\* CTEs, joins and operands (expressions.ts: the order in which values are merged;
\* query-builder.ts: toSQL).
ValuesInOrder ==
    /\ cond.values = Meant(cond.sql)
    /\ \A i \in DOMAIN builders :
          LET q == toSQL(builders[i], arrays) IN q.values = Meant(q.sql)

\* A builder made earlier is not changed by deriving others from it, though builders
\* share what they do not copy: two functions that refine one base query do not see
\* each other's clauses (query-builder.ts: clone, join).
BasesKeepTheirText ==
    [][\A i \in DOMAIN builders :
          toSQL(builders'[i], arrays') = toSQL(builders[i], arrays)]_vars

=============================================================================

---------------------------- MODULE QueryReading ----------------------------
(***************************************************************************)
(* What the server makes of the conditions and queries of QueryBuilder.    *)
(***************************************************************************)
EXTENDS QueryBuilder, SqlReading

\* Whatever conditions are nested in each other, the server reads from the text
\* with its values what their author composed: no operator takes apart an operand,
\* and no value reaches another placeholder (expressions.ts: the brackets and the
\* order in which values are merged).  Except for a template with an operator of
\* its own inside a comparison.
ReadAsComposed ==
    cond.spliced \/
    \A env \in Env : Value(Bind(cond.sql, cond.values), env) = cond.means[env]

\* The server reads a query, combined with others or not, as the builders' calls ask:
\* the operations apply from left to right to the rows each operand asked for
\* (query-builder.ts: toSQL, the set operations).
ReadAsBuilt ==
    \A i \in DOMAIN builders :
        LET b == builders[i]
            q == toSQL(b, arrays)
        IN  Readable(b, arrays) => Result(Bind(q.sql, q.values), Nowhere) = Asked(b, arrays)
=============================================================================

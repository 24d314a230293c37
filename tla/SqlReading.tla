----------------------------- MODULE SqlReading -----------------------------
(***************************************************************************)
(* How StarRocks reads the text of expressions and queries: the part of    *)
(* its grammar that the builders of the SDK rely on, how operators group,  *)
(* that `?` takes the values in the order of the text, and how set         *)
(* operations group.                                                       *)
(***************************************************************************)
EXTENDS SqlText

(***************************************************************************)
(* Where a text splits                                                     *)
(***************************************************************************)
Depth(text, i) == Cardinality({j \in 1..(i - 1) : text[j].t = "("})
                  - Cardinality({j \in 1..(i - 1) : text[j].t = ")"})
\* the positions of tokens of the given kinds that lie in no bracket
Outer(text, kinds) == {i \in DOMAIN text : text[i].t \in kinds /\ Depth(text, i) = 0}
Before(text, i) == SubSeq(text, 1, i - 1)
After(text, i) == SubSeq(text, i + 1, Len(text))
Inner(text) == SubSeq(text, 2, Len(text) - 1)
\* the parts between separators, the first of them before any separator
Parts(text) ==
    LET at == SetToSortSeq(Outer(text, {"sep"}), <)
        from(k) == IF k = 1 THEN 1 ELSE at[k - 1] + 1
        to(k) == IF k > Len(at) THEN Len(text) ELSE at[k] - 1
    IN  [k \in 1..(Len(at) + 1) |-> SubSeq(text, from(k), to(k))]
Separators(text) ==
    LET at == SetToSortSeq(Outer(text, {"sep"}), <)
    IN  [k \in DOMAIN at |-> text[at[k]].s]

\* The value of CASE: the subject is absent from a searched CASE.
CaseValue(subject, seps, vals) ==
    LET whens == {k \in DOMAIN seps : seps[k] = "WHEN"}
        hit(k) == IF subject = <<>> THEN vals[k + 1] \notin {0, Null}
                  ELSE Compare("=", subject[1], vals[k + 1]) = 1
        elses == {k \in DOMAIN seps : seps[k] = "ELSE"}
        hits == {k \in whens : hit(k)}
    IN  IF hits # {} THEN vals[Min(hits) + 2]
        ELSE IF elses # {} THEN vals[Max(elses) + 1] ELSE Null

RECURSIVE Value(_, _), Result(_, _)

\* The value of a call or bracket in the environment of a row.
Call(text, row) ==
    LET f == text[1].f
        parts == Parts(Inner(text))
        vals == [k \in DOMAIN parts |-> IF parts[k] = <<>> THEN Null ELSE Value(parts[k], row)]
    IN  CASE f = "" -> Value(Inner(text), row)
          [] f = "COALESCE" -> FirstNonNull(vals)
          [] f = "IFNULL" -> FirstNonNull(vals)
          [] f = "NULLIF" -> IF Compare("=", vals[1], vals[2]) = 1 THEN Null ELSE vals[1]
          [] f = "IF" -> IF vals[1] \in {0, Null} THEN vals[3] ELSE vals[2]
          [] f = "CASE" -> CaseValue(IF parts[1] = <<>> THEN <<>> ELSE <<vals[1]>>,
                                     Separators(Inner(text)), vals)
          [] f = "EXISTS" -> Truth(BagToSet(Result(Inner(text), row)) # {})

\* The members of the list or the query in the brackets right of an IN.
Listed(text, row) ==
    IF text[2].t = "SELECT"
    THEN {r[1] : r \in BagToSet(Result(Inner(text), row))}
    ELSE LET parts == Parts(Inner(text))
         IN  {Value(parts[k], row) : k \in DOMAIN parts}

\* The value of a text: OR binds loosest, then AND, NOT, comparisons.
Value(text, row) ==
    IF Outer(text, {"OR"}) # {}
    THEN LET i == Max(Outer(text, {"OR"}))
         IN  Either(Value(Before(text, i), row), Value(After(text, i), row))
    ELSE IF Outer(text, {"AND"}) # {}
    THEN LET i == Max(Outer(text, {"AND"}))
         IN  Both(Value(Before(text, i), row), Value(After(text, i), row))
    ELSE IF text[1].t = "NOT" THEN Neg(Value(Tail(text), row))
    ELSE IF Outer(text, {"op"}) # {}
    THEN LET i == Max(Outer(text, {"op"}))
             o == text[i].o
             a == Value(Before(text, i), row)
             b == After(text, i)
         IN  CASE o = "IS NULL" -> Truth(a = Null)
               [] o = "IS NOT NULL" -> Truth(a # Null)
               [] o = "IN" -> Member(a, Listed(b, row))
               [] o = "NOT IN" -> Neg(Member(a, Listed(b, row)))
               [] o = "BETWEEN" -> Both(Compare(">=", a, Value(<<b[1]>>, row)),
                                        Compare("<=", a, Value(<<b[3]>>, row)))
               [] OTHER -> Compare(o, a, Value(b, row))
    ELSE IF text[1].t = "(" THEN Call(text, row)
    ELSE IF text[1].t = "col" THEN row[text[1].c]
    ELSE IF text[1].t = "lit" THEN text[1].v
    ELSE Truth(text[1].t = "TRUE")

\* The text of a clause of a SELECT, empty if it has none.
Clauses == {"SELECT", "FROM", "JOIN", "WHERE", "GROUP BY", "HAVING", "ORDER BY"}
Clause(text, w) ==
    LET at == Outer(text, {w})
        rest == {i \in Outer(text, Clauses) : i > Min(at)}
    IN  IF at = {} THEN <<>>
        ELSE SubSeq(text, Min(at) + 1, IF rest = {} THEN Len(text) ELSE Min(rest) - 1)

\* The environments that FROM and a join make of the tables.
Sources(text, outer) ==
    LET rows == Stored[Clause(text, "FROM")[1].n]
        j == Clause(text, "JOIN")
    IN  IF j = <<>> THEN rows
        ELSE {p \in {r @@ s : r \in rows, s \in Stored[j[1].n]} :
                Value(Tail(j), p @@ outer) \notin {0, Null}}

\* The rows of a query: set operations group as INTERSECT before UNION and
\* EXCEPT, and else from the left.
Result(text, outer) ==
    LET loose == Outer(text, {"UNION", "UNION ALL", "EXCEPT"})
        tight == Outer(text, {"INTERSECT"})
        i == Max(IF loose # {} THEN loose ELSE tight)
    IN  IF loose \cup tight # {}
        THEN Combine(text[i].t, Result(Before(text, i), outer), Result(After(text, i), outer))
        ELSE LET w == Clause(text, "WHERE")
                 kept == {r \in Sources(text, outer) :
                            w = <<>> \/ Value(w, r @@ outer) \notin {0, Null}}
                 distinct == text[2].t = "DISTINCT"
                 fields == Clause(text, "SELECT")
                 cols == Parts(IF distinct THEN Tail(fields) ELSE fields)
                 shown(r) ==
                    IF cols[1][1].t = "*"
                    THEN LET all == SelectSeq(ColumnOrder, LAMBDA c : c \in DOMAIN r)
                         IN  [k \in DOMAIN all |-> r[all[k]]]
                    ELSE [k \in DOMAIN cols |-> Value(cols[k], r @@ outer)]
                 bag == [s \in {shown(r) : r \in kept} |->
                            Cardinality({r \in kept : shown(r) = s})]
             IN  IF distinct THEN Once(bag) ELSE bag
==============================================================================

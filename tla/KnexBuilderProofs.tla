-------------------------- MODULE KnexBuilderProofs --------------------------
(***************************************************************************)
(* What the statements of a builder select, count, write and send, for any *)
(* table, any arguments and any history of the builder.  Three invariants  *)
(* carry it: the clauses are well formed (IInv), the rows are finitely     *)
(* many with a key each (Keyed), and the limit is a number (Limited).      *)
(***************************************************************************)
EXTENDS KnexBuilder, FiniteSetTheorems, NaturalsInduction, WellFoundedInduction, TLAPS

LEMMA PositionsAre ==
    ASSUME NEW text
    PROVE  \A p : p \in Positions(text) <=>
                    \E i \in DOMAIN text : \E k \in DOMAIN text[i] : p = <<i, k>>
<1>1. ASSUME NEW p \in Positions(text)
      PROVE  \E i \in DOMAIN text : \E k \in DOMAIN text[i] : p = <<i, k>>
  <2>1. PICK S \in {{<<i, k>> : k \in DOMAIN text[i]} : i \in DOMAIN text} : p \in S
    BY DEF Positions
  <2> QED BY <2>1
<1>2. ASSUME NEW i \in DOMAIN text, NEW k \in DOMAIN text[i]
      PROVE  <<i, k>> \in Positions(text)
  <2>1. <<i, k>> \in {<<i, l>> : l \in DOMAIN text[i]}
    OBVIOUS
  <2>2. {<<i, l>> : l \in DOMAIN text[i]} \in {{<<j, l>> : l \in DOMAIN text[j]} : j \in DOMAIN text}
    OBVIOUS
  <2> QED BY <2>1, <2>2 DEF Positions
<1> QED BY <1>1, <1>2

\* What was there keeps its place when clauses are added.
LEMMA PositionsKept ==
    ASSUME NEW S, NEW old \in Seq(Seq(S)), NEW added \in Seq(Seq(S))
    PROVE  LET text == old \o added
           IN  /\ \A p \in Positions(old) : /\ p \in Positions(text) /\ At(text, p) = At(old, p)
                                            /\ p[1] \in 1..Len(old) /\ p[2] \in Nat
               /\ \A p \in Positions(text) :
                     \/ p \in Positions(old)
                     \/ /\ p[1] \in Nat /\ p[2] \in Nat /\ p[1] > Len(old) /\ p[1] - Len(old) \in DOMAIN added
                        /\ p[2] \in DOMAIN added[p[1] - Len(old)]
                        /\ At(text, p) = added[p[1] - Len(old)][p[2]]
<1> DEFINE text == old \o added
<1>1. /\ DOMAIN text = 1..(Len(old) + Len(added))
      /\ \A i \in 1..Len(old) : text[i] = old[i]
      /\ \A i \in DOMAIN text : i > Len(old) => i - Len(old) \in DOMAIN added /\ text[i] = added[i - Len(old)]
      /\ Len(old) \in Nat /\ DOMAIN old = 1..Len(old)
      /\ \A i \in DOMAIN old : DOMAIN old[i] \subseteq Nat
      /\ \A i \in DOMAIN added : DOMAIN added[i] \subseteq Nat
  OBVIOUS
<1> HIDE DEF text
<1>2. ASSUME NEW p \in Positions(old)
      PROVE  /\ p \in Positions(text) /\ At(text, p) = At(old, p)
             /\ p[1] \in 1..Len(old) /\ p[2] \in Nat
  <2>1. PICK i \in DOMAIN old : \E k \in DOMAIN old[i] : p = <<i, k>>
    BY PositionsAre
  <2>2. PICK k \in DOMAIN old[i] : p = <<i, k>>
    BY <2>1
  <2>3. i \in DOMAIN text /\ text[i] = old[i]
    BY <1>1
  <2>4. p \in Positions(text)
    BY <2>2, <2>3, PositionsAre
  <2> QED BY <1>1, <2>2, <2>3, <2>4 DEF At
<1>3. ASSUME NEW p \in Positions(text), p \notin Positions(old)
      PROVE  /\ p[1] \in Nat /\ p[2] \in Nat /\ p[1] > Len(old) /\ p[1] - Len(old) \in DOMAIN added
             /\ p[2] \in DOMAIN added[p[1] - Len(old)]
             /\ At(text, p) = added[p[1] - Len(old)][p[2]]
  <2>1. PICK i \in DOMAIN text : \E k \in DOMAIN text[i] : p = <<i, k>>
    BY PositionsAre
  <2>2. PICK k \in DOMAIN text[i] : p = <<i, k>>
    BY <2>1
  <2>3. i > Len(old)
    <3>1. CASE i \in 1..Len(old)
      <4>1. k \in DOMAIN old[i]
        BY <1>1, <2>2, <3>1
      <4>2. p \in Positions(old)
        BY <1>1, <2>2, <3>1, <4>1, PositionsAre
      <4> QED BY <1>3, <4>2
    <3> QED BY <1>1, <3>1
  <2> QED BY <1>1, <2>2, <2>3 DEF At
<1> QED BY <1>2, <1>3 DEF text

\* Clauses without an OR let through no row that the text before them kept out.
LEMMA AndNarrows ==
    ASSUME NEW S, NEW old \in Seq(Seq(S)), NEW added \in Seq(Seq(S)), NEW row,
           \A i \in DOMAIN added : \A k \in DOMAIN added[i] : added[i][k].word # "OR",
           Matches(old \o added, row)
    PROVE  Matches(old, row)
<1> DEFINE text == old \o added
<1>1. /\ \A p \in Positions(old) : p \in Positions(text) /\ At(text, p) = At(old, p)
                                  /\ p[1] \in 1..Len(old) /\ p[2] \in Nat
      /\ \A p \in Positions(text) :
            p \in Positions(old) \/ (p[1] \in Nat /\ p[1] > Len(old) /\ At(text, p).word # "OR")
  BY PositionsKept
<1>2. Len(old) \in Nat /\ (old # <<>> => Len(old) > 0 /\ text # <<>>)
  OBVIOUS
<1> HIDE DEF text
<1>3. SUFFICES ASSUME old # <<>> PROVE Matches(old, row)
  BY DEF Matches
<1>4. PICK p \in Positions(text) : Begins(text, p) /\ \A q \in Run(text, p) : Test(text, q, row)
  BY <1>2, <1>3 DEF Matches, text
<1>5. p \in Positions(old)
  <2>1. CASE p \notin Positions(old)
    <3>1. p[1] > 1 /\ At(text, p).word # "OR"
      BY <1>1, <1>2, <1>3, <2>1
    <3> QED BY <1>4, <3>1 DEF Begins
  <2> QED BY <2>1
<1>6. Begins(old, p)
  BY <1>1, <1>4, <1>5 DEF Begins
<1>7. ASSUME NEW q \in Run(old, p)
      PROVE  Test(old, q, row)
  <2>1. q \in Positions(old) /\ Upto(p, q)
    BY DEF Run
  <2>2. ASSUME NEW r \in Positions(text), r # p, Upto(p, r), Upto(r, q)
        PROVE  At(text, r).word # "OR"
    <3>1. CASE r \in Positions(old)
      BY <1>1, <2>2, <3>1 DEF Run
    <3> QED BY <1>1, <3>1
  <2>3. q \in Run(text, p)
    BY <1>1, <2>1, <2>2 DEF Run
  <2> QED BY <1>1, <1>4, <2>1, <2>3 DEF Test
<1> QED BY <1>5, <1>6, <1>7 DEF Matches

\* Clauses that begin with an OR keep out no row that the text before them let through.
LEMMA OrWidens ==
    ASSUME NEW S, NEW old \in Seq(Seq(S)), NEW added \in Seq(Seq(S)), NEW row,
           old # <<>>,
           \A i \in DOMAIN added : 1 \in DOMAIN added[i] /\ added[i][1].word = "OR",
           Matches(old, row)
    PROVE  Matches(old \o added, row)
<1> DEFINE text == old \o added
<1>1. /\ \A p \in Positions(old) : p \in Positions(text) /\ At(text, p) = At(old, p)
                                  /\ p[1] \in 1..Len(old) /\ p[2] \in Nat
      /\ \A p \in Positions(text) :
            \/ p \in Positions(old)
            \/ /\ p[1] \in Nat /\ p[2] \in Nat /\ p[1] > Len(old)
               /\ p[1] - Len(old) \in DOMAIN added /\ p[2] \in DOMAIN added[p[1] - Len(old)]
  BY PositionsKept
<1>2. /\ Len(old) \in Nat
      /\ \A i \in DOMAIN added : Len(old) + i \in DOMAIN text /\ text[Len(old) + i] = added[i]
      /\ DOMAIN added \subseteq Nat
      /\ \A i \in DOMAIN added : \A k \in DOMAIN added[i] : k \in Nat /\ k >= 1
  OBVIOUS
<1> HIDE DEF text
<1>3. PICK p \in Positions(old) : Begins(old, p) /\ \A q \in Run(old, p) : Test(old, q, row)
  BY DEF Matches
<1>4. p \in Positions(text) /\ Begins(text, p)
  BY <1>1, <1>3 DEF Begins
<1>5. ASSUME NEW q \in Run(text, p)
      PROVE  q \in Positions(old)
  <2>1. q \in Positions(text) /\ Upto(p, q)
    BY DEF Run
  <2>2. CASE q \notin Positions(old)
    <3> DEFINE i == q[1] - Len(old)
               r == <<q[1], 1>>
    <3>1. i \in DOMAIN added /\ q[1] = Len(old) + i /\ q[2] \in DOMAIN added[i] /\ q[1] > Len(old)
          /\ q[1] \in Nat
      BY <1>1, <1>2, <2>1, <2>2
    <3>2. q[1] \in DOMAIN text /\ text[q[1]] = added[i]
      BY <1>2, <3>1
    <3>3. r \in Positions(text)
      BY <3>1, <3>2, PositionsAre
    <3>4. At(text, r).word = "OR"
      BY <3>1, <3>2 DEF At
    <3>5. r # p /\ Upto(p, r) /\ Upto(r, q)
      <4>1. p[1] \in DOMAIN old /\ p[1] \in Nat /\ p[1] <= Len(old)
        BY <1>1, <1>3, PositionsAre
      <4>2. p[1] < q[1] /\ r[1] = q[1] /\ r[2] = 1
        BY <1>1, <3>1, <4>1
      <4>3. q[2] \in Nat /\ 1 <= q[2]
        BY <3>1, <1>2
      <4>4. r # p /\ Upto(p, r)
        BY <4>1, <4>2 DEF Upto
      <4>5. Upto(r, q)
        BY <4>2, <4>3 DEF Upto
      <4> QED BY <4>4, <4>5
    <3> QED BY <3>3, <3>4, <3>5 DEF Run
  <2> QED BY <2>2
<1>6. ASSUME NEW q \in Run(text, p)
      PROVE  Test(text, q, row)
  <2>1. q \in Positions(old) /\ Upto(p, q)
    BY <1>5 DEF Run
  <2>2. ASSUME NEW r \in Positions(old), r # p, Upto(p, r), Upto(r, q)
        PROVE  At(old, r).word # "OR"
    BY <1>1, <2>2 DEF Run
  <2>3. q \in Run(old, p)
    BY <2>1, <2>2 DEF Run
  <2> QED BY <1>1, <1>3, <2>1, <2>3 DEF Test
<1> QED BY <1>4, <1>6 DEF Matches, text

(***************************************************************************)
(* The builder                                                             *)
(***************************************************************************)
Clauses ==
    {c \in [type : {"basic", "in", "notIn", "between", "null", "notNull", "raw"},
            boolean : {"AND", "OR"}, column : STRING \cup {""}, operator : Operators,
            values : Seq(Int), sql : Seq(Tests)] :
        c.type = "raw" => /\ c.sql # <<>>
                          /\ c.values = FlattenSeq([k \in DOMAIN c.sql |-> c.sql[k].values])}
\* Clauses that have no OR, and clauses that begin with one.
Anding(c) == c.boolean = "AND" /\ \A k \in DOMAIN c.sql : c.sql[k].word # "OR"
Oring(c) == c.boolean = "OR"

\* The inductive invariant: the clauses are sequences of such records.
IInv == /\ builder = [f \in DOMAIN newBuilder |-> builder[f]]
        /\ builder.whereClauses \in Seq(Clauses) /\ builder.having \in Seq(Clauses)

LEMMA IsSeq ==
    ASSUME NEW S, NEW n \in Nat, NEW f \in [1..n -> S]
    PROVE  f \in Seq(S) /\ DOMAIN f = 1..n
OBVIOUS

LEMMA ClauseTexts ==
    ASSUME NEW c \in Clauses
    PROVE  /\ ClauseText(c) \in Seq(Tests)
           /\ 1 \in DOMAIN ClauseText(c) /\ ClauseText(c)[1].word = c.boolean
           /\ Anding(c) => \A k \in DOMAIN ClauseText(c) : ClauseText(c)[k].word # "OR"
<1>1. CASE c.type = "raw"
  <2>1. c.sql \in Seq(Tests) /\ c.sql # <<>> /\ c.boolean \in {"AND", "OR"}
    BY <1>1 DEF Clauses
  <2>2. \A k \in 1..Len(c.sql) : c.sql[k] \in Tests
    BY <2>1
  <2>3. \A t \in Tests : \A w \in {"", "AND", "OR"} : Worded(w, t) \in Tests /\ Worded(w, t).word = w
    BY DEF Tests, Worded
  <2> DEFINE word(k) == IF k = 1 THEN c.boolean ELSE c.sql[k].word
             f == [k \in 1..Len(c.sql) |-> Worded(word(k), c.sql[k])]
  <2>4. ClauseText(c) = f /\ Len(c.sql) \in Nat /\ 1 \in 1..Len(c.sql)
    BY <1>1, <2>1 DEF ClauseText
  <2>5. \A k \in 1..Len(c.sql) : word(k) \in {"", "AND", "OR"}
    BY <2>1, <2>2 DEF Tests
  <2> HIDE DEF word
  <2>6. \A k \in 1..Len(c.sql) : f[k] \in Tests /\ f[k].word = word(k)
    BY <2>2, <2>3, <2>5
  <2>7. f \in [1..Len(c.sql) -> Tests]
    BY <2>6
  <2> HIDE DEF f
  <2>8. f \in Seq(Tests) /\ DOMAIN f = 1..Len(c.sql)
    BY <2>4, <2>7, IsSeq
  <2> QED BY <2>1, <2>4, <2>6, <2>8 DEF Anding, word
<1>2. CASE c.type # "raw"
  <2> DEFINE t == [word |-> c.boolean, column |-> c.column, operator |-> c.operator,
                   values |-> c.values]
  <2>1. ClauseText(c) = <<t>>
    BY <1>2 DEF ClauseText, Worded
  <2>2. c.boolean \in {"AND", "OR"} /\ c.column \in STRING \cup {""} /\ c.operator \in Operators
        /\ c.values \in Seq(Int)
    BY DEF Clauses
  <2>3. t \in Tests /\ t.word = c.boolean
    BY <2>2 DEF Tests
  <2> HIDE DEF t
  <2>4. ClauseText(c) \in Seq(Tests) /\ DOMAIN ClauseText(c) = {1} /\ ClauseText(c)[1] = t
    BY <2>1, <2>3
  <2> QED BY <2>3, <2>4 DEF Anding
<1> QED BY <1>1, <1>2

LEMMA Joined ==
    ASSUME NEW S, NEW a \in Seq(S), NEW b \in Seq(S)
    PROVE  /\ a \o b \in Seq(S) /\ Len(a \o b) = Len(a) + Len(b)
           /\ \A i \in 1..(Len(a) + Len(b)) : (a \o b)[i] = IF i <= Len(a) THEN a[i] ELSE b[i - Len(a)]
OBVIOUS

LEMMA TextJoins ==
    ASSUME NEW old \in Seq(Clauses), NEW added \in Seq(Clauses)
    PROVE  /\ Text(old) \in Seq(Seq(Tests)) /\ Text(added) \in Seq(Seq(Tests))
           /\ Text(old \o added) = Text(old) \o Text(added)
           /\ Text(old) = <<>> => old = <<>>
           /\ \A i \in DOMAIN Text(added) : i \in DOMAIN added /\ Text(added)[i] = ClauseText(added[i])
<1>1. ASSUME NEW cs \in Seq(Clauses)
      PROVE  Text(cs) \in Seq(Seq(Tests)) /\ Len(Text(cs)) = Len(cs)
             /\ DOMAIN Text(cs) = 1..Len(cs) /\ \A i \in 1..Len(cs) : Text(cs)[i] = ClauseText(cs[i])
  <2>1. \A i \in 1..Len(cs) : ClauseText(cs[i]) \in Seq(Tests)
    BY ClauseTexts
  <2>2. Text(cs) = [i \in 1..Len(cs) |-> ClauseText(cs[i])] /\ Len(cs) \in Nat
    BY DEF Text
  <2>3. Text(cs) \in [1..Len(cs) -> Seq(Tests)]
    BY <2>1, <2>2
  <2> QED BY <2>2, <2>3
<1>2. old \o added \in Seq(Clauses) /\ Len(old \o added) = Len(old) + Len(added)
      /\ \A i \in 1..(Len(old) + Len(added)) :
            (old \o added)[i] = IF i <= Len(old) THEN old[i] ELSE added[i - Len(old)]
  OBVIOUS
<1>3. Text(old \o added) = Text(old) \o Text(added)
  <2> DEFINE both == Text(old) \o Text(added)
             joined == Text(old \o added)
  <2>1. both \in Seq(Seq(Tests)) /\ Len(both) = Len(old) + Len(added)
        /\ \A i \in 1..Len(both) : both[i] = IF i <= Len(old) THEN Text(old)[i] ELSE Text(added)[i - Len(old)]
    <3> DEFINE a == Text(old)
               b == Text(added)
    <3>1. a \in Seq(Seq(Tests)) /\ b \in Seq(Seq(Tests)) /\ Len(a) = Len(old) /\ Len(b) = Len(added)
      BY <1>1
    <3> HIDE DEF a, b
    <3>2. /\ a \o b \in Seq(Seq(Tests)) /\ Len(a \o b) = Len(a) + Len(b)
          /\ \A i \in 1..(Len(a) + Len(b)) : (a \o b)[i] = IF i <= Len(a) THEN a[i] ELSE b[i - Len(a)]
      BY <3>1, Joined, Zenon
    <3> QED BY <3>1, <3>2 DEF a, b
  <2>2. joined \in Seq(Seq(Tests)) /\ Len(joined) = Len(old) + Len(added)
        /\ \A i \in 1..Len(joined) : joined[i] = ClauseText((old \o added)[i])
    BY <1>1, <1>2
  <2>3. \A i \in 1..Len(joined) : joined[i] = both[i]
    <3> SUFFICES ASSUME NEW i \in 1..Len(joined) PROVE joined[i] = both[i]
      OBVIOUS
    <3>1. CASE i <= Len(old)
      BY <1>1, <1>2, <2>1, <2>2, <3>1
    <3>2. CASE ~(i <= Len(old))
      <4>1. i - Len(old) \in 1..Len(added) /\ i \in 1..(Len(old) + Len(added))
        BY <2>2, <3>2
      <4> QED BY <1>1, <1>2, <2>1, <2>2, <3>2, <4>1
    <3> QED BY <3>1, <3>2
  <2> HIDE DEF both, joined
  <2>4. joined = both
    BY <2>1, <2>2, <2>3
  <2> QED BY <2>4 DEF both, joined
<1>4. Text(old) = <<>> => old = <<>>
  BY <1>1
<1>5. \A i \in DOMAIN Text(added) : i \in DOMAIN added /\ Text(added)[i] = ClauseText(added[i])
  <2>1. DOMAIN added = 1..Len(added)
    OBVIOUS
  <2> QED BY <1>1, <2>1, Zenon
<1>6. Text(old) \in Seq(Seq(Tests)) /\ Text(added) \in Seq(Seq(Tests))
  BY <1>1
<1> QED BY <1>3, <1>4, <1>5, <1>6

\* A raw condition makes a clause.
LEMMA RawClauses ==
    ASSUME NEW boolean \in {"AND", "OR"}, NEW raw \in Raws
    PROVE  /\ RawClause(boolean, raw) \in Clauses
           /\ RawClause(boolean, raw).boolean = boolean
           /\ RawClause(boolean, raw).sql = raw.sql
<1>1. /\ raw.sql \in Seq(Tests) /\ raw.sql # <<>> /\ raw.bindings \in Seq(Int)
      /\ raw.bindings = FlattenSeq([k \in DOMAIN raw.sql |-> raw.sql[k].values])
  BY KnexAssumption
<1> DEFINE c == [type |-> "raw", boolean |-> boolean, column |-> "", operator |-> "",
                 values |-> raw.bindings, sql |-> raw.sql]
<1>2. c \in Clauses /\ c.boolean = boolean /\ c.sql = raw.sql
  BY <1>1 DEF Clauses, Operators
<1> QED BY <1>2 DEF RawClause

\* What a call adds: no clause with an OR, or clauses that begin with one.
LEMMA Adds ==
    ASSUME IInv
    PROVE  /\ Narrows => \E cs \in Seq(Clauses) : /\ builder' = Adding(builder, cs)
                                                 /\ \A i \in DOMAIN cs : Anding(cs[i])
           /\ Widens => \E cs \in Seq(Clauses) : /\ builder' = Adding(builder, cs)
                                                /\ \A i \in DOMAIN cs : Oring(cs[i])
           /\ Splices => \E cs \in Seq(Clauses) : builder' = Adding(builder, cs)
<1>1. ASSUME NEW c \in Clauses
      PROVE  <<c>> \in Seq(Clauses) /\ DOMAIN <<c>> = {1} /\ <<c>>[1] = c
  OBVIOUS
<1>0. <<>> \in Seq(Int) /\ <<>> \in Seq(Tests) /\ \A v \in Int : <<v>> \in Seq(Int)
  OBVIOUS
<1>2. ASSUME NEW type \in {"in", "notIn", "between", "null", "notNull"},
             NEW key \in STRING,
             NEW operator \in Operators, NEW vs \in Seq(Int)
      PROVE  /\ Clause(type, "AND", key, operator, vs) \in Clauses
             /\ Clause(type, "AND", key, operator, vs).boolean = "AND"
             /\ Clause(type, "AND", key, operator, vs).sql = <<>>
  <2>1. resolveColumnName(key) \in STRING \cup {""}
    BY KnexAssumption DEF resolveColumnName, resolve
  <2> DEFINE c == [type |-> type, boolean |-> "AND", column |-> resolveColumnName(key),
                   operator |-> operator, values |-> vs, sql |-> <<>>]
  <2>2. c \in Clauses /\ c.boolean = "AND" /\ c.sql = <<>>
    BY <1>0, <2>1 DEF Clauses
  <2> QED BY <2>2 DEF Clause
<1>10. ASSUME NEW boolean \in {"AND", "OR"}, NEW key \in STRING,
              NEW operator \in Operators, NEW vs \in Seq(Int)
      PROVE  /\ Clause("basic", boolean, key, operator, vs) \in Clauses
             /\ Clause("basic", boolean, key, operator, vs).boolean = boolean
             /\ Clause("basic", boolean, key, operator, vs).sql = <<>>
  <2>1. resolveColumnName(key) \in STRING \cup {""}
    BY KnexAssumption DEF resolveColumnName, resolve
  <2> DEFINE c == [type |-> "basic", boolean |-> boolean, column |-> resolveColumnName(key),
                   operator |-> operator, values |-> vs, sql |-> <<>>]
  <2>2. c \in Clauses /\ c.boolean = boolean /\ c.sql = <<>>
    BY <1>0, <2>1 DEF Clauses
  <2> QED BY <2>2 DEF Clause
<1>11. ASSUME NEW c \in Clauses, c.sql = <<>>, builder' = Adding(builder, <<c>>)
       PROVE  \E cs \in Seq(Clauses) : /\ builder' = Adding(builder, cs)
                                      /\ \A i \in DOMAIN cs : /\ cs[i].boolean = c.boolean
                                                             /\ cs[i] \in Clauses /\ cs[i].sql = <<>>
  <2>1. PICK cs : cs = <<c>>
    OBVIOUS
  <2>2. cs \in Seq(Clauses) /\ DOMAIN cs = {1} /\ cs[1] = c /\ builder' = Adding(builder, cs)
    BY <1>1, <1>11, <2>1
  <2> QED BY <1>11, <2>2
<1>3. ASSUME NEW boolean \in {"AND", "OR"}, NEW raw \in Raws
      PROVE  /\ RawClause(boolean, raw) \in Clauses
             /\ RawClause(boolean, raw).boolean = boolean
             /\ RawClause(boolean, raw).sql = raw.sql
  BY RawClauses
<1>4. ASSUME NEW c \in Clauses, c.sql = <<>>
      PROVE  c.boolean = "AND" => Anding(c)
  BY <1>4 DEF Anding
<1> DEFINE Goal(boolean) ==
              \E cs \in Seq(Clauses) : /\ builder' = Adding(builder, cs)
                                      /\ \A i \in DOMAIN cs : /\ cs[i].boolean = boolean
                                                             /\ cs[i] \in Clauses /\ cs[i].sql = <<>>
<1>5. ASSUME NEW boolean \in {"AND", "OR"}, Where(boolean)
      PROVE  Goal(boolean)
  <2>1. ASSUME NEW key \in Tested, NEW v \in Given,
               Conditions(where(builder, boolean, key, v, Undefined))
        PROVE  Goal(boolean)
    <3> DEFINE c == Clause("basic", boolean, key, "=", <<v>>)
    <3>1. builder' = Adding(builder, <<c>>)
      BY <2>1 DEF Conditions, Builds, where
    <3>2. key \in STRING /\ <<v>> \in Seq(Int) /\ "=" \in Operators
      BY <1>0, KnexAssumption DEF Operators
    <3>3. c \in Clauses /\ c.boolean = boolean /\ c.sql = <<>>
      BY <1>10, <3>2
    <3> HIDE DEF c
    <3> QED BY <1>11, <3>1, <3>3
  <2>2. ASSUME NEW key \in Tested, NEW co \in Compared,
               Conditions(where(builder, boolean, key, co[1], co[2]))
        PROVE  Goal(boolean)
    <3> DEFINE c == Clause("basic", boolean, key, co[1], <<co[2]>>)
    <3>1. co[1] \in Operators /\ co[2] \in Int /\ co[2] # Undefined /\ key \in STRING
      BY KnexAssumption
    <3>2. builder' = Adding(builder, <<c>>)
      BY <2>2, <3>1 DEF Conditions, Builds, where
    <3>3. c \in Clauses /\ c.boolean = boolean /\ c.sql = <<>>
      <4>1. <<co[2]>> \in Seq(Int)
        BY <1>0, <3>1
      <4> QED BY <1>10, <3>1, <4>1
    <3> HIDE DEF c
    <3> QED BY <1>11, <3>2, <3>3
  <2>3. ASSUME NEW o \in Objects, Conditions(whereObject(builder, boolean, o))
        PROVE  Goal(boolean)
    <3> DEFINE cs == [i \in DOMAIN o |-> Clause("basic", boolean, o[i][1], "=", <<o[i][2]>>)]
    <3>1. builder' = Adding(builder, cs)
      BY <2>3 DEF Conditions, Builds, whereObject
    <3>2. o \in Seq(STRING \X Int) /\ DOMAIN o = 1..Len(o) /\ Len(o) \in Nat
      BY KnexAssumption
    <3>3. \A i \in 1..Len(o) : o[i] \in STRING \X Int
      BY <3>2
    <3>4. ASSUME NEW i \in 1..Len(o)
          PROVE  cs[i] \in Clauses /\ cs[i].boolean = boolean /\ cs[i].sql = <<>>
      <4>1. o[i][1] \in STRING /\ <<o[i][2]>> \in Seq(Int) /\ "=" \in Operators
        BY <1>0, <3>3 DEF Operators
      <4> DEFINE c == Clause("basic", boolean, o[i][1], "=", <<o[i][2]>>)
      <4>2. c \in Clauses /\ c.boolean = boolean /\ c.sql = <<>>
        BY <1>10, <4>1
      <4>3. cs[i] = c
        BY <3>2
      <4> HIDE DEF c, cs
      <4> QED BY <4>2, <4>3
    <3>5. DOMAIN cs = 1..Len(o)
      BY <3>2
    <3>6. cs \in [1..Len(o) -> Clauses]
      BY <3>4, <3>5
    <3> HIDE DEF cs
    <3>7. cs \in Seq(Clauses)
      BY <3>2, <3>6, IsSeq
    <3> QED BY <3>1, <3>4, <3>5, <3>7
  <2> QED BY <1>5, <2>1, <2>2, <2>3 DEF Where
<1>6. ASSUME NEW c \in Clauses, builder' = Adding(builder, <<c>>)
      PROVE  /\ Anding(c) => \E cs \in Seq(Clauses) : /\ builder' = Adding(builder, cs)
                                                     /\ \A i \in DOMAIN cs : Anding(cs[i])
             /\ Oring(c) => \E cs \in Seq(Clauses) : /\ builder' = Adding(builder, cs)
                                                    /\ \A i \in DOMAIN cs : Oring(cs[i])
             /\ \E cs \in Seq(Clauses) : builder' = Adding(builder, cs)
  <2>1. PICK cs : cs = <<c>>
    OBVIOUS
  <2>2. cs \in Seq(Clauses) /\ DOMAIN cs = {1} /\ cs[1] = c /\ builder' = Adding(builder, cs)
    BY <1>1, <1>6, <2>1
  <2> QED BY <2>2
<1> DEFINE Narrowed == \E cs \in Seq(Clauses) : /\ builder' = Adding(builder, cs)
                                               /\ \A i \in DOMAIN cs : Anding(cs[i])
           Widened == \E cs \in Seq(Clauses) : /\ builder' = Adding(builder, cs)
                                              /\ \A i \in DOMAIN cs : Oring(cs[i])
<1>7. ASSUME Narrows
      PROVE  Narrowed
  <2>1. CASE Where("AND")
    BY <1>4, <1>5, <2>1
  <2>2. ASSUME NEW type \in {"in", "notIn", "between", "null", "notNull"}, NEW key \in Tested,
               NEW operator \in Operators, NEW vs \in Seq(Int),
               builder' = Adding(builder, <<Clause(type, "AND", key, operator, vs)>>)
        PROVE  Narrowed
    <3>1. key \in STRING
      BY KnexAssumption
    <3> DEFINE c == Clause(type, "AND", key, operator, vs)
    <3>2. c \in Clauses /\ c.boolean = "AND" /\ c.sql = <<>>
      BY <1>2, <3>1
    <3> HIDE DEF c
    <3>3. Anding(c)
      BY <1>4, <3>2
    <3> QED BY <1>6, <2>2, <3>2, <3>3 DEF c
  <2>3. ASSUME NEW key \in Tested,
               \/ \E l \in Lists : Conditions(whereIn(builder, key, l)) \/ Conditions(whereNotIn(builder, key, l))
               \/ \E range \in Ranges : Conditions(whereBetween(builder, key, range))
               \/ Conditions(whereNull(builder, key)) \/ Conditions(whereNotNull(builder, key))
        PROVE  Narrowed
    <3>1. {"IN", "NOT IN", "BETWEEN", "IS NULL", "IS NOT NULL"} \subseteq Operators
      BY DEF Operators
    <3>2. Lists \subseteq Seq(Int) /\ Ranges \subseteq Seq(Int)
      BY KnexAssumption
    <3> QED BY <1>0, <2>2, <2>3, <3>1, <3>2 DEF Conditions, Builds, whereIn, whereNotIn, whereBetween,
                                     whereNull, whereNotNull
  <2>4. ASSUME NEW raw \in Raws, ~Splits(raw), Conditions(whereRaw(builder, raw))
        PROVE  Narrowed
    <3>1. Anding(RawClause("AND", raw))
      BY <1>3, <2>4 DEF Anding, Splits
    <3> QED BY <1>3, <1>6, <2>4, <3>1 DEF Conditions, Builds, whereRaw
  <2> QED BY <1>7, <2>1, <2>3, <2>4 DEF Narrows
<1>8. ASSUME Widens
      PROVE  Widened
  <2>1. CASE Where("OR")
    BY <1>5, <2>1 DEF Oring
  <2>2. ASSUME NEW raw \in Raws, Conditions(orWhereRaw(builder, raw))
        PROVE  Widened
    BY <1>3, <1>6, <2>2 DEF Conditions, Builds, orWhereRaw, Oring
  <2> QED BY <1>8, <2>1, <2>2 DEF Widens
<1>9. ASSUME Splices
      PROVE  \E cs \in Seq(Clauses) : builder' = Adding(builder, cs)
  BY <1>3, <1>6, <1>9 DEF Splices, Conditions, Builds, whereRaw
<1> QED BY <1>7, <1>8, <1>9

\* The clauses after a call.
LEMMA Added ==
    ASSUME IInv, NEW cs \in Seq(Clauses), builder' = Adding(builder, cs)
    PROVE  /\ builder'.whereClauses = builder.whereClauses \o cs
           /\ IInv'
<1>1. /\ builder'.whereClauses = builder.whereClauses \o cs /\ builder'.having = builder.having
      /\ builder' = [f \in DOMAIN newBuilder |-> builder'[f]]
  BY DEF IInv, Adding, newBuilder
<1>2. builder.whereClauses \o cs \in Seq(Clauses)
  BY Joined DEF IInv
<1> QED BY <1>1, <1>2 DEF IInv

LEMMA NewOne ==
    /\ newBuilder = [f \in DOMAIN newBuilder |-> newBuilder[f]]
    /\ newBuilder.whereClauses \in Seq(Clauses) /\ newBuilder.having \in Seq(Clauses)
<1>1. newBuilder.whereClauses = <<>> /\ newBuilder.having = <<>>
  BY DEF newBuilder
<1>2. <<>> \in Seq(Clauses)
  OBVIOUS
<1>3. newBuilder = [f \in DOMAIN newBuilder |-> newBuilder[f]]
  BY DEF newBuilder
<1> QED BY <1>1, <1>2, <1>3

LEMMA InvInit == Init => IInv
BY NewOne DEF Init, IInv

\* The clauses of a builder are well formed in every state.
LEMMA InvNext == IInv /\ [Next]_vars => IInv'
<1> SUFFICES ASSUME IInv, [Next]_vars PROVE IInv'
  OBVIOUS
<1> USE DEF Builds, Answers, Writes, Call
<1>1. ASSUME NEW b, b = [f \in DOMAIN newBuilder |-> b[f]], b.whereClauses = builder.whereClauses,
             b.having \in Seq(Clauses), builder' = b
      PROVE  IInv'
  BY <1>1 DEF IInv
<1>2. CASE NewQuery
  BY <1>2, NewOne DEF NewQuery, IInv
<1>3. CASE Selecting
  BY <1>1, <1>3 DEF Selecting, select, selectAs, selectAll, distinct, IInv, newBuilder
<1>4. CASE Narrows
  BY <1>4, Adds, Added
<1>5. CASE Widens
  BY <1>5, Adds, Added
<1>6. CASE Splices
  BY <1>6, Adds, Added
<1>7. CASE Joining
  BY <1>1, <1>7 DEF Joining, join, IInv, newBuilder
<1>8. CASE Grouping
  <2>1. CASE \E key \in Tested : Builds(groupBy(builder, <<key>>)) \/ Builds(orderBy(builder, key))
    BY <1>1, <2>1 DEF groupBy, orderBy, IInv, newBuilder
  <2>2. ASSUME NEW raw \in Raws, Builds(havingRaw(builder, raw))
        PROVE  IInv'
    <3>1. PICK h : h = Append(builder.having, RawClause("AND", raw))
      OBVIOUS
    <3>2. h \in Seq(Clauses)
      <4>1. builder.having \in Seq(Clauses) /\ RawClause("AND", raw) \in Clauses
        BY RawClauses DEF IInv
      <4> QED BY <3>1, <4>1
    <3>3. builder' = [builder EXCEPT !.having = h]
      BY <2>2, <3>1 DEF havingRaw
    <3> QED BY <1>1, <3>2, <3>3 DEF IInv, newBuilder
  <2> QED BY <1>8, <2>1, <2>2 DEF Grouping
<1>9. CASE Window
  BY <1>1, <1>9 DEF Window, limit, offset, IInv, newBuilder
<1>10. CASE First \/ FirstOrFail
  BY <1>1, <1>10 DEF First, FirstOrFail, limit, IInv, newBuilder
<1>11. CASE Pluck
  BY <1>1, <1>11 DEF Pluck, select, IInv, newBuilder
<1>12. CASE Execute \/ Count \/ Exists \/ (\E data \in Inserts : Insert(data)) \/ Update
            \/ Increment \/ Delete \/ Truncate \/ UNCHANGED vars
  <2>1. builder' = builder
    BY <1>12 DEF Execute, Count, Exists, Insert, Update, Increment, Delete, Truncate, vars
  <2> QED BY <2>1 DEF IInv
<1> QED BY <1>2, <1>3, <1>4, <1>5, <1>6, <1>7, <1>8, <1>9, <1>10, <1>11, <1>12 DEF Next

LEMMA NarrowingStep ==
    ASSUME IInv
    PROVE  /\ Narrows => MatchedBy(builder') \subseteq MatchedBy(builder)
           /\ Widens /\ builder.whereClauses # <<>> => MatchedBy(builder) \subseteq MatchedBy(builder')
<1> DEFINE old == builder.whereClauses
<1>1. old \in Seq(Clauses)
  BY DEF IInv
<1>2. ASSUME Narrows
      PROVE  MatchedBy(builder') \subseteq MatchedBy(builder)
  <2>1. PICK cs \in Seq(Clauses) : /\ builder' = Adding(builder, cs)
                                  /\ \A i \in DOMAIN cs : Anding(cs[i])
    BY <1>2, Adds
  <2>2. builder'.whereClauses = old \o cs
    BY <2>1, Added
  <2>3. \A i \in DOMAIN Text(cs) : \A k \in DOMAIN Text(cs)[i] : Text(cs)[i][k].word # "OR"
    <3>1. \A i \in DOMAIN Text(cs) : i \in DOMAIN cs /\ Text(cs)[i] = ClauseText(cs[i])
      BY <1>1, TextJoins
    <3>2. \A i \in DOMAIN cs : cs[i] \in Clauses
      OBVIOUS
    <3> QED BY <2>1, <3>1, <3>2, ClauseTexts
  <2>4. /\ Text(old) \in Seq(Seq(Tests)) /\ Text(cs) \in Seq(Seq(Tests))
        /\ Text(old \o cs) = Text(old) \o Text(cs)
    BY <1>1, TextJoins
  <2>5. \A row : Matches(Text(old) \o Text(cs), row) => Matches(Text(old), row)
    BY <2>3, <2>4, AndNarrows
  <2> QED BY <2>2, <2>4, <2>5 DEF MatchedBy, buildWhereSQL
<1>3. ASSUME Widens, old # <<>>
      PROVE  MatchedBy(builder) \subseteq MatchedBy(builder')
  <2>1. PICK cs \in Seq(Clauses) : /\ builder' = Adding(builder, cs)
                                  /\ \A i \in DOMAIN cs : Oring(cs[i])
    BY <1>3, Adds
  <2>2. builder'.whereClauses = old \o cs
    BY <2>1, Added
  <2>3. \A i \in DOMAIN Text(cs) : 1 \in DOMAIN Text(cs)[i] /\ Text(cs)[i][1].word = "OR"
    <3>1. \A i \in DOMAIN Text(cs) : i \in DOMAIN cs /\ Text(cs)[i] = ClauseText(cs[i])
      BY <1>1, TextJoins
    <3>2. \A i \in DOMAIN cs : cs[i] \in Clauses
      OBVIOUS
    <3> QED BY <2>1, <3>1, <3>2, ClauseTexts DEF Oring
  <2>4. /\ Text(old) \in Seq(Seq(Tests)) /\ Text(cs) \in Seq(Seq(Tests))
        /\ Text(old \o cs) = Text(old) \o Text(cs) /\ Text(old) # <<>>
    BY <1>1, <1>3, TextJoins
  <2>5. \A row : Matches(Text(old), row) => Matches(Text(old) \o Text(cs), row)
    BY <2>3, <2>4, OrWidens
  <2> QED BY <2>2, <2>4, <2>5 DEF MatchedBy, buildWhereSQL
<1> QED BY <1>2, <1>3

\* After whatever calls, a further where only takes rows away and a further orWhere only
\* adds some.
THEOREM NarrowingHolds == Spec => Narrowing
<1>1. IInv => [ /\ Narrows => MatchedBy(builder') \subseteq MatchedBy(builder)
                /\ Widens /\ builder.whereClauses # <<>> =>
                      MatchedBy(builder) \subseteq MatchedBy(builder')]_vars
  BY NarrowingStep
<1> QED BY <1>1, InvInit, InvNext, PTL DEF Spec, Narrowing

(***************************************************************************)
(* The rows                                                                *)
(***************************************************************************)
\* A finite set of rows of the table's columns, no two with one key.
IsTable(rs) ==
    /\ IsFiniteSet(rs)
    /\ \A r \in rs : DOMAIN r = Names(Columns)
    /\ \A r, q \in rs : r[Id] = q[Id] => r = q
Keyed == IsTable(rows)

LEMMA IdIsAColumn == Id \in Names(Columns)
BY TableAssumption DEF Names, Id

\* A statement that does not set the key.
LeavesKeys(s) == \A i \in DOMAIN s.set : s.set[i].column # Id

LEMMA SetInKeepsKey ==
    ASSUME NEW s, LeavesKeys(s), NEW r, DOMAIN r = Names(Columns)
    PROVE  DOMAIN SetIn(r, s) = Names(Columns) /\ SetIn(r, s)[Id] = r[Id]
<1>1. {i \in DOMAIN s.set : s.set[i].column = Id} = {}
  BY DEF LeavesKeys
<1> QED BY <1>1, IdIsAColumn DEF SetIn

\* The rows after a statement changes those in T.
ChangedIn(s, T) == {IF r \in T THEN SetIn(r, s) ELSE r : r \in rows}

LEMMA ChangedRows ==
    ASSUME Keyed, NEW s, LeavesKeys(s), NEW T
    PROVE  /\ IsTable(ChangedIn(s, T))
           /\ Cardinality(ChangedIn(s, T)) = Cardinality(rows)
           /\ rows \ T \subseteq ChangedIn(s, T)
<1> DEFINE f == [r \in rows |-> IF r \in T THEN SetIn(r, s) ELSE r]
           R == ChangedIn(s, T)
<1>1. \A r \in rows : DOMAIN f[r] = Names(Columns) /\ f[r][Id] = r[Id]
  BY SetInKeepsKey DEF Keyed, IsTable
<1>2. R = {f[r] : r \in rows} /\ DOMAIN f = rows
  BY DEF ChangedIn
<1>3. rows \ T \subseteq R
  BY DEF ChangedIn
<1> HIDE DEF f, R
<1>4. f \in [rows -> R]
  <2>1. f = [r \in rows |-> f[r]]
    BY <1>2 DEF f
  <2> QED BY <1>2, <2>1
<1>5. f \in Bijection(rows, R)
  <2>1. \A r, q \in rows : f[r] = f[q] => r = q
    BY <1>1 DEF Keyed, IsTable
  <2>2. \A y \in R : \E r \in rows : f[r] = y
    BY <1>2
  <2>3. f \in Injection(rows, R)
    BY <1>4, <2>1 DEF Injection, IsInjective
  <2>4. f \in Surjection(rows, R)
    BY <1>4, <2>2 DEF Surjection
  <2> QED BY <2>3, <2>4 DEF Bijection
<1>6. IsFiniteSet(R) /\ Cardinality(R) = Cardinality(rows)
  BY <1>5, FS_Bijection DEF Keyed, IsTable, ExistsBijection
<1>7. \A y \in R : DOMAIN y = Names(Columns)
  BY <1>1, <1>2
<1>8. \A y, z \in R : y[Id] = z[Id] => y = z
  BY <1>1, <1>2 DEF Keyed, IsTable
<1> QED BY <1>3, <1>6, <1>7, <1>8 DEF IsTable, R

(***************************************************************************)
(* Sequences put one after another                                         *)
(***************************************************************************)
LEMMA Ind ==
    ASSUME NEW S \in SUBSET Nat, 0 \in S, \A n \in S : n + 1 \in S
    PROVE  S = Nat
<1>1. SUFFICES ASSUME Nat \ S # {} PROVE FALSE
  OBVIOUS
<1>2. IsWellFoundedOn(OpToRel(<,Nat), Nat)
  BY NatLessThanWellFounded
<1>3. PICK n \in Nat \ S : \A m \in Nat \ S : ~(<<m, n>> \in OpToRel(<,Nat))
  BY <1>1, <1>2, WFMin
<1>4. \A m \in Nat \ S : ~(m < n)
  BY <1>3 DEF OpToRel
<1>5. n # 0 /\ n - 1 \in Nat /\ n - 1 \in S /\ n \in Nat /\ n \notin S
  BY <1>4
<1>6. (n - 1) + 1 \in S
  BY <1>5
<1> QED BY <1>5, <1>6

\* f has at i the first i sequences of ss put one after another, up to n.
Flat(ss, n, f) == f = [i \in 1..n |-> IF i = 1 THEN ss[i] ELSE f[i-1] \o ss[i]]

LEMMA FlatAt ==
    ASSUME NEW ss, NEW n, NEW f, Flat(ss, n, f), NEW i \in 1..n
    PROVE  f[i] = IF i = 1 THEN ss[i] ELSE f[i-1] \o ss[i]
BY Zenon DEF Flat

LEMMA FlatStarts ==
    ASSUME NEW T, NEW ss \in Seq(Seq(T)), Len(ss) >= 1
    PROVE  \E f \in [1..1 -> Seq(T)] : Flat(ss, 1, f)
<1>1. PICK f : f = [i \in 1..1 |-> ss[1]]
  OBVIOUS
<1>2. f \in [1..1 -> Seq(T)]
  BY <1>1
<1>3. Flat(ss, 1, f)
  BY <1>1 DEF Flat
<1> QED BY <1>2, <1>3

LEMMA FlatGoesOn ==
    ASSUME NEW T, NEW ss \in Seq(Seq(T)), NEW n \in Nat, n # 0, n + 1 <= Len(ss),
           NEW f \in [1..n -> Seq(T)], Flat(ss, n, f)
    PROVE  \E g \in [1..(n+1) -> Seq(T)] : Flat(ss, n + 1, g)
<1>1. PICK next : next = f[n] \o ss[n+1]
  OBVIOUS
<1>2. next \in Seq(T)
  BY <1>1
<1>3. PICK g : g = [i \in 1..(n+1) |-> IF i = n + 1 THEN next ELSE f[i]]
  OBVIOUS
<1>4. g \in [1..(n+1) -> Seq(T)]
  BY <1>2, <1>3
<1>5. \A i \in 1..(n+1) : g[i] = IF i = 1 THEN ss[i] ELSE g[i-1] \o ss[i]
  <2> TAKE i \in 1..(n+1)
  <2>1. CASE i = n + 1
    <3>1. i # 1 /\ i - 1 = n /\ g[i] = next /\ g[i-1] = f[n]
      BY <1>3, <2>1
    <3> QED BY <1>1, <2>1, <3>1
  <2>2. CASE i # n + 1
    <3>1. i \in 1..n /\ g[i] = f[i] /\ (i # 1 => i - 1 \in 1..n /\ i - 1 # n + 1 /\ i - 1 \in 1..(n+1))
      BY <1>3, <2>2
    <3>2. i # 1 => g[i-1] = f[i-1]
      BY <1>3, <3>1
    <3>3. f[i] = IF i = 1 THEN ss[i] ELSE f[i-1] \o ss[i]
      BY <3>1, Zenon DEF Flat
    <3> QED BY <3>1, <3>2, <3>3
  <2> QED BY <2>1, <2>2
<1>6. Flat(ss, n + 1, g)
  <2>1. g = [i \in 1..(n+1) |-> g[i]]
    BY <1>3
  <2> QED BY <1>5, <2>1, Zenon DEF Flat
<1> QED BY <1>4, <1>6

LEMMA FlatExists ==
    ASSUME NEW T, NEW ss \in Seq(Seq(T)), Len(ss) # 0
    PROVE  \E f \in [1..Len(ss) -> Seq(T)] : Flat(ss, Len(ss), f)
<1> DEFINE S == {n \in Nat : n # 0 /\ n <= Len(ss) => \E f \in [1..n -> Seq(T)] : Flat(ss, n, f)}
<1>1. 0 \in S
  OBVIOUS
<1>2. ASSUME NEW n \in S
      PROVE  n + 1 \in S
  <2>1. n \in Nat /\ n + 1 \in Nat /\ (n # 0 /\ n <= Len(ss) => \E f \in [1..n -> Seq(T)] : Flat(ss, n, f))
    OBVIOUS
  <2> HIDE DEF S
  <2>2. SUFFICES ASSUME n + 1 <= Len(ss)
                 PROVE  \E f \in [1..(n+1) -> Seq(T)] : Flat(ss, n + 1, f)
    BY <2>1 DEF S
  <2>3. CASE n = 0
    <3>1. n + 1 = 1
      BY <2>3
    <3> QED BY <2>2, <3>1, FlatStarts
  <2>4. CASE n # 0
    <3>1. n <= Len(ss)
      BY <2>1, <2>2
    <3>2. PICK f \in [1..n -> Seq(T)] : Flat(ss, n, f)
      BY <2>1, <2>4, <3>1
    <3> QED BY <2>1, <2>2, <2>4, <3>2, FlatGoesOn
  <2> QED BY <2>3, <2>4
<1>3. Len(ss) \in Nat /\ S \in SUBSET Nat
  OBVIOUS
<1> HIDE DEF S
<1>4. S = Nat
  BY <1>1, <1>2, <1>3, Ind
<1> QED BY <1>3, <1>4 DEF S

\* Sequences of members of T make a sequence of members of T.
LEMMA FlatType ==
    ASSUME NEW T, NEW ss \in Seq(Seq(T))
    PROVE  FlattenSeq(ss) \in Seq(T)
<1>1. CASE Len(ss) = 0
  <2>1. ss = <<>> /\ <<>> \in Seq(T)
    BY <1>1
  <2>2. FlattenSeq(ss) = ss
    BY <1>1 DEF FlattenSeq
  <2> HIDE DEF FlattenSeq
  <2> QED BY <2>1, <2>2, Zenon
<1>2. CASE Len(ss) # 0
  <2> DEFINE f == CHOOSE g : Flat(ss, Len(ss), g)
  <2>1. \E g : Flat(ss, Len(ss), g)
    BY <1>2, FlatExists
  <2>2. Flat(ss, Len(ss), f)
    BY <2>1
  <2>3. FlattenSeq(ss) = f[Len(ss)]
    BY <1>2 DEF FlattenSeq, Flat
  <2> DEFINE S == {n \in Nat : n # 0 /\ n <= Len(ss) => f[n] \in Seq(T)}
  <2> HIDE DEF f
  <2>4. 0 \in S
    OBVIOUS
  <2>5. ASSUME NEW n \in S
        PROVE  n + 1 \in S
    <3>1. SUFFICES ASSUME n + 1 <= Len(ss) PROVE f[n+1] \in Seq(T)
      OBVIOUS
    <3>2. n \in Nat /\ n + 1 \in 1..Len(ss) /\ ss[n+1] \in Seq(T)
      BY <3>1
    <3>3. PICK i \in 1..Len(ss) : i = n + 1
      BY <3>2
    <3>4. f[i] = IF i = 1 THEN ss[i] ELSE f[i-1] \o ss[i]
      BY <2>2, FlatAt
    <3>5. CASE n = 0
      BY <3>2, <3>3, <3>4, <3>5
    <3>6. CASE n # 0
      <4>1. f[n] \in Seq(T) /\ i # 1 /\ i - 1 = n
        BY <3>1, <3>3, <3>6
      <4> HIDE DEF S
      <4>2. f[i] = f[n] \o ss[i]
        BY <3>4, <4>1
      <4>3. ss[i] \in Seq(T)
        BY <3>2, <3>3
      <4> QED BY <3>3, <4>1, <4>2, <4>3
    <3> QED BY <3>5, <3>6
  <2>6. Len(ss) \in Nat /\ S \in SUBSET Nat
    OBVIOUS
  <2> HIDE DEF S
  <2>7. S = Nat
    BY <2>4, <2>5, <2>6, Ind
  <2>8. Len(ss) \in S
    BY <2>6, <2>7
  <2> QED BY <1>2, <2>3, <2>6, <2>8 DEF S
<1> QED BY <1>1, <1>2

\* One sequence makes itself.
LEMMA FlatOne ==
    ASSUME NEW T, NEW s \in Seq(T)
    PROVE  FlattenSeq(<<s>>) = s
<1>1. <<s>> \in Seq(Seq(T)) /\ Len(<<s>>) = 1 /\ <<s>>[1] = s
  OBVIOUS
<1>2. PICK ss : ss = <<s>>
  OBVIOUS
<1>3. \E g : Flat(ss, Len(ss), g)
  <2>1. ss \in Seq(Seq(T)) /\ Len(ss) # 0
    BY <1>1, <1>2
  <2> QED BY <2>1, FlatExists
<1>4. Flat(ss, Len(ss), CHOOSE g : Flat(ss, Len(ss), g))
  BY <1>3
<1>5. FlattenSeq(ss) = (CHOOSE g : Flat(ss, Len(ss), g))[Len(ss)]
  BY <1>1, <1>2 DEF FlattenSeq, Flat
<1>6. 1 \in 1..Len(ss)
  BY <1>1, <1>2
<1>7. \A f : Flat(ss, Len(ss), f) => f[1] = ss[1]
  BY <1>6 DEF Flat
<1> QED BY <1>1, <1>2, <1>4, <1>5, <1>7

(***************************************************************************)
(* The statements that write                                               *)
(***************************************************************************)
LEMMA EntriesType ==
    ASSUME NEW data \in Seq(STRING \X Int)
    PROVE  Entries(data) \in Seq({e \in STRING \X Int : /\ e[2] # Undefined
                                                        /\ \E i \in DOMAIN data : data[i] = e})
<1> DEFINE T == {e \in STRING \X Int : e[2] # Undefined /\ \E i \in DOMAIN data : data[i] = e}
           ss == [i \in DOMAIN data |-> IF data[i][2] = Undefined THEN <<>> ELSE <<data[i]>>]
<1>1. DOMAIN data = 1..Len(data) /\ Len(data) \in Nat /\ \A i \in DOMAIN data : data[i] \in STRING \X Int
  OBVIOUS
<1>2. \A i \in DOMAIN data : data[i][2] # Undefined => data[i] \in T
  BY <1>1
<1> HIDE DEF T
<1>3. <<>> \in Seq(T) /\ \A e \in T : <<e>> \in Seq(T)
  OBVIOUS
<1>4. \A i \in 1..Len(data) : ss[i] \in Seq(T)
  BY <1>1, <1>2, <1>3
<1>5. ss \in [1..Len(data) -> Seq(T)]
  BY <1>1, <1>4
<1> HIDE DEF ss
<1>6. ss \in Seq(Seq(T))
  BY <1>1, <1>5, IsSeq
<1>7. FlattenSeq(ss) \in Seq(T)
  BY <1>6, FlatType
<1>8. Entries(data) = FlattenSeq(ss)
  BY DEF Entries, ss
<1> QED BY <1>7, <1>8 DEF T

LEMMA UpdateLeavesKeys ==
    ASSUME NEW data \in Updates, NEW b
    PROVE  LeavesKeys(updateSQL(b, data))
<1> DEFINE T == {e \in STRING \X Int : e[2] # Undefined /\ \E i \in DOMAIN data : data[i] = e}
           es == Entries(data)
           column(i) == resolveColumnName(es[i][1])
<1>1. data \in Seq(STRING \X Int)
  BY KnexAssumption
<1>2. es \in Seq(T)
  BY <1>1, EntriesType
<1> HIDE DEF es
<1>3. \A i \in DOMAIN es : column(i) # Id
  <2> SUFFICES ASSUME NEW i \in DOMAIN es PROVE column(i) # Id
    OBVIOUS
  <2>1. es[i] \in T
    BY <1>2
  <2>2. PICK k \in DOMAIN data : data[k] = es[i] /\ es[i][2] # Undefined
    BY <2>1
  <2> QED BY <2>2, TableAssumption
<1>4. updateSQL(b, data).set =
         [i \in DOMAIN es |-> [column |-> column(i), plus |-> FALSE, value |-> es[i][2]]]
  BY DEF updateSQL, Statement, es
<1> QED BY <1>3, <1>4 DEF LeavesKeys

LEMMA IncrementLeavesKeys ==
    ASSUME NEW b, NEW amount
    PROVE  LeavesKeys(incrementSQL(b, "x", amount))
<1>1. resolveColumnName("x") # Id
  BY TableAssumption DEF resolveColumnName, resolve, Id
<1>2. PICK set : set = <<[column |-> resolveColumnName("x"), plus |-> TRUE, value |-> amount]>>
  OBVIOUS
<1>3. DOMAIN set = {1} /\ set[1].column = resolveColumnName("x")
  BY <1>2
<1>4. incrementSQL(b, "x", amount).set = set
  BY <1>2 DEF incrementSQL, Statement
<1> QED BY <1>1, <1>3, <1>4 DEF LeavesKeys

LEMMA BareAccepted == ~Refused(Statement(<<>>, <<>>, <<>>))
<1>1. PICK none : none = <<>>
  OBVIOUS
<1>2. Positions(none) = {} /\ Len(none) = 0
  BY <1>1 DEF Positions
<1>3. PICK s : s = Statement(none, none, none)
  OBVIOUS
<1>4. /\ s.where = none /\ s.joins = none /\ s.having = none /\ s.offset = Undefined
  BY <1>1, <1>3 DEF Statement
<1>5. ~(Len(s.joins) > 1) /\ Positions(s.where) = {}
  BY <1>2, <1>4
<1>6. ~Refused(s)
  BY <1>1, <1>4, <1>5, Zenon DEF Refused
<1> QED BY <1>1, <1>3, <1>6, Zenon

LEMMA InsertKeeps ==
    ASSUME Keyed, NEW data \in Inserts, data # <<>>, NEW s, s = insertSQL(data),
           \A r \in Inserted(s) : \A q \in rows \cup Inserted(s) : r[Id] = q[Id] => r = q
    PROVE  IsTable(rows \cup Inserted(s))
<1>1. data \in Seq(Seq((DOMAIN Columns) \X Int))
  BY KnexAssumption
<1>2. DOMAIN s.rows = DOMAIN data
  BY DEF insertSQL
<1>3. DOMAIN data = 1..Len(data) /\ Len(data) \in Nat /\ IsFiniteSet(DOMAIN data)
  <2>1. DOMAIN data = 1..Len(data) /\ Len(data) \in Nat /\ Len(data) \in Int /\ 1 \in Int
    BY <1>1
  <2> QED BY <2>1, FS_Interval
<1> DEFINE row(j) == [n \in Names(Columns) |->
                        IF n \in ToSet(s.columns)
                        THEN Stored(s.rows[j][CHOOSE i \in DOMAIN s.columns : s.columns[i] = n]) ELSE Null]
           f == [j \in DOMAIN data |-> row(j)]
           I == Inserted(s)
<1>4. I = {row(j) : j \in DOMAIN data}
  BY <1>2, Zenon DEF Inserted
<1>5. \A r \in I : DOMAIN r = Names(Columns)
  BY <1>4
<1> HIDE DEF row
<1>6. f \in Surjection(DOMAIN data, I)
  <2>1. f \in [DOMAIN data -> I]
    BY <1>4
  <2>2. \A y \in I : \E j \in DOMAIN data : f[j] = y
    BY <1>4
  <2> HIDE DEF f, I
  <2> QED BY <2>1, <2>2 DEF Surjection
<1> HIDE DEF f
<1>7. IsFiniteSet(I)
  BY <1>3, <1>6, FS_Surjection
<1>8. IsFiniteSet(rows \cup I)
  BY <1>7, FS_Union DEF Keyed, IsTable
<1> HIDE DEF I
<1>9. \A r, q \in rows \cup I : r[Id] = q[Id] => r = q
  <2>1. \A r \in I : \A q \in rows \cup I : r[Id] = q[Id] => r = q
    BY DEF I
  <2> QED BY <2>1 DEF Keyed, IsTable
<1>10. \A r \in rows \cup I : DOMAIN r = Names(Columns)
  BY <1>5 DEF Keyed, IsTable
<1> QED BY <1>8, <1>9, <1>10 DEF IsTable, I

LEMMA KeyedInit == Init => Keyed
BY TableAssumption DEF Init, Keyed, IsTable

\* In every state the rows are a table's.
LEMMA KeyedNext == Keyed /\ [Next]_vars => Keyed'
<1> SUFFICES ASSUME Keyed, [Next]_vars PROVE Keyed'
  OBVIOUS
<1>1. ASSUME NEW s, NEW rs, Writes(s, rs), IsTable(rs)
      PROVE  Keyed'
  BY <1>1 DEF Writes, Keyed
<1>2. ASSUME rows' = rows
      PROVE  Keyed'
  BY <1>2 DEF Keyed
<1>3. ASSUME NEW data \in Inserts, Insert(data)
      PROVE  Keyed'
  <2>1. CASE data = <<>>
    BY <1>2, <1>3, <2>1 DEF Insert, Answers
  <2>2. CASE data # <<>>
    <3>1. PICK s : s = insertSQL(data)
      OBVIOUS
    <3>2. /\ \A r \in Inserted(s) : \A q \in rows \cup Inserted(s) : r[Id] = q[Id] => r = q
          /\ Writes(Statement(<<>>, <<>>, <<>>), rows \cup Inserted(s))
      BY <1>3, <2>2, <3>1 DEF Insert
    <3>3. IsTable(rows \cup Inserted(s))
      BY <2>2, <3>1, <3>2, InsertKeeps
    <3> QED BY <1>1, <3>2, <3>3
  <2> QED BY <2>1, <2>2
<1>4. CASE Update
  <2>1. PICK data \in Updates :
           LET s == updateSQL(builder, data)
           IN  IF s.set = <<>> THEN Answers(builder, Error)
               ELSE Writes(s, ChangedIn(s, Touched(s)))
    BY <1>4 DEF Update, ChangedIn
  <2>2. PICK s : s = updateSQL(builder, data)
    OBVIOUS
  <2>3. IsTable(ChangedIn(s, Touched(s)))
    BY <2>2, UpdateLeavesKeys, ChangedRows
  <2> QED BY <1>1, <1>2, <2>1, <2>2, <2>3 DEF Answers
<1>5. CASE Increment
  <2>1. PICK amount \in {1, -1} :
           LET s == incrementSQL(builder, "x", amount) IN Writes(s, ChangedIn(s, Touched(s)))
    BY <1>5 DEF Increment, ChangedIn
  <2>2. PICK s : s = incrementSQL(builder, "x", amount)
    OBVIOUS
  <2>3. IsTable(ChangedIn(s, Touched(s)))
    BY <2>2, IncrementLeavesKeys, ChangedRows
  <2> QED BY <1>1, <2>1, <2>2, <2>3
<1>6. CASE Delete
  <2>1. PICK T : T = Touched(deleteSQL(builder))
    OBVIOUS
  <2>2. IsTable(rows \ T)
    <3>1. IsFiniteSet(rows \ T)
      BY FS_Difference DEF Keyed, IsTable
    <3> QED BY <3>1 DEF Keyed, IsTable
  <2> QED BY <1>1, <1>2, <1>6, <2>1, <2>2 DEF Delete, Answers
<1>7. CASE Truncate
  <2>1. IsTable({})
    BY FS_EmptySet DEF IsTable
  <2> QED BY <1>1, <1>7, <2>1 DEF Truncate
<1>8. CASE UNCHANGED vars
  BY <1>2, <1>8 DEF vars
<1>9. CASE \/ NewQuery \/ Selecting \/ Narrows \/ Widens \/ Splices \/ Joining \/ Grouping \/ Window
           \/ Execute \/ First \/ FirstOrFail \/ Pluck \/ Count \/ Exists
  <2>1. rows' = rows
    BY <1>9 DEF NewQuery, Selecting, Narrows, Widens, Where, Conditions, Splices, Joining, Grouping,
                Window, Execute, First, FirstOrFail, Pluck, Count, Exists, Builds, Answers
  <2> QED BY <1>2, <2>1
<1> QED BY <1>3, <1>4, <1>5, <1>6, <1>7, <1>8, <1>9 DEF Next

\* Without a join a query finds the rows that its conditions match, and with one it
\* finds no others.
LEMMA FoundAreHit ==
    ASSUME NEW b
    PROVE  Finds(b) \subseteq Hit(b) /\ (b.joins = <<>> => Finds(b) = Hit(b))
<1>1. Finds(b) \subseteq Hit(b)
  BY Zenon DEF Finds, Hit, Matching
<1>2. ASSUME b.joins = <<>>, NEW r \in Hit(b) PROVE r \in Finds(b)
  <2>1. PICK p : p = <<r, NoRow(OtherColumns)>>
    OBVIOUS
  <2>2. toSQL(b).joins = <<>>
    BY <1>2 DEF toSQL, Statement
  <2>3. r \in rows /\ Matches(toSQL(b).where, r) /\ p[1] = r
    BY <1>2, <2>1 DEF Hit
  <2>4. p \in Sources(toSQL(b).joins)
    BY <2>1, <2>2, <2>3 DEF Sources
  <2>5. p \in Matching(toSQL(b))
    BY <2>3, <2>4, Zenon DEF Matching
  <2> QED BY <2>3, <2>5, Zenon DEF Finds
<1> QED BY <1>1, <1>2

LEMMA OnlySelectedStep ==
    ASSUME Keyed
    PROVE  /\ Delete /\ answer' # Error =>
                 /\ builder.whereClauses # <<>>
                 /\ rows \ Hit(builder) \subseteq rows' /\ Finds(builder)' = {}
                 /\ builder.joins = <<>> => rows' = rows \ Finds(builder)
           /\ Update \/ Increment =>
                 rows \ Hit(builder) \subseteq rows' /\ Cardinality(rows') = Cardinality(rows)
<1>1. /\ Touched(deleteSQL(builder)) = Hit(builder)
      /\ \A data : Touched(updateSQL(builder, data)) = Hit(builder)
      /\ \A amount : Touched(incrementSQL(builder, "x", amount)) = Hit(builder)
  <2> DEFINE w == buildWhereSQL(builder).text
  <2>1. toSQL(builder).where = w
    BY DEF toSQL, Statement
  <2>2. /\ deleteSQL(builder).where = w
        /\ \A data : updateSQL(builder, data).where = w
        /\ \A amount : incrementSQL(builder, "x", amount).where = w
    BY DEF deleteSQL, updateSQL, incrementSQL, Statement
  <2> QED BY <2>1, <2>2, Zenon DEF Touched, Hit
<1>2. ASSUME Delete, answer' # Error
      PROVE  /\ builder.whereClauses # <<>>
             /\ rows \ Hit(builder) \subseteq rows' /\ Finds(builder)' = {}
             /\ builder.joins = <<>> => rows' = rows \ Finds(builder)
  <2>1. /\ rows' = rows \ Hit(builder) /\ builder' = builder
        /\ builder.whereClauses # <<>>
    BY <1>1, <1>2, Zenon DEF Delete, Writes, Answers
  <2>2. Finds(builder)' = {}
    <3>1. ASSUME NEW r \in Finds(builder)' PROVE FALSE
      <4>1. r \in rows' /\ Matches(toSQL(builder').where, r)
        BY <3>1, Zenon DEF Finds, Matching
      <4>2. r \in rows /\ r \notin Hit(builder)
        BY <2>1, <4>1
      <4> QED BY <2>1, <4>1, <4>2, Zenon DEF Hit
    <3> QED BY <3>1
  <2>3. rows \ Hit(builder) \subseteq rows'
    BY <2>1
  <2> QED BY <2>1, <2>2, <2>3, FoundAreHit
<1>3. ASSUME NEW s, LeavesKeys(s), NEW T, Writes(s, ChangedIn(s, T))
      PROVE  rows \ T \subseteq rows' /\ Cardinality(rows') = Cardinality(rows)
  <2>1. rows' = rows \/ rows' = ChangedIn(s, T)
    BY <1>3 DEF Writes
  <2> QED BY <1>3, <2>1, ChangedRows
<1>4. ASSUME Update
      PROVE  rows \ Hit(builder) \subseteq rows' /\ Cardinality(rows') = Cardinality(rows)
  <2>1. PICK data \in Updates :
           LET s == updateSQL(builder, data)
           IN  IF s.set = <<>> THEN Answers(builder, Error)
               ELSE Writes(s, ChangedIn(s, Touched(s)))
    BY <1>4 DEF Update, ChangedIn
  <2>2. PICK s : s = updateSQL(builder, data)
    OBVIOUS
  <2>3. LeavesKeys(s) /\ Touched(s) = Hit(builder)
    BY <1>1, <2>2, UpdateLeavesKeys
  <2>4. Writes(s, ChangedIn(s, Hit(builder))) \/ rows' = rows
    BY <2>1, <2>2, <2>3 DEF Answers
  <2> QED BY <1>3, <2>3, <2>4
<1>5. ASSUME Increment
      PROVE  rows \ Hit(builder) \subseteq rows' /\ Cardinality(rows') = Cardinality(rows)
  <2>1. PICK amount \in {1, -1} :
           LET s == incrementSQL(builder, "x", amount) IN Writes(s, ChangedIn(s, Touched(s)))
    BY <1>5 DEF Increment, ChangedIn
  <2>2. PICK s : s = incrementSQL(builder, "x", amount)
    OBVIOUS
  <2>3. LeavesKeys(s) /\ Touched(s) = Hit(builder)
    BY <1>1, <2>2, IncrementLeavesKeys
  <2>4. Writes(s, ChangedIn(s, Hit(builder)))
    BY <2>1, <2>2, <2>3
  <2> QED BY <1>3, <2>3, <2>4
<1> QED BY <1>2, <1>4, <1>5

\* Whatever a builder was used for before, a delete needs a condition, takes no row that
\* the conditions do not match, leaves none that the query finds, and without joins takes
\* just those; an update and an increment lose no row and change none that the conditions
\* do not match.
THEOREM OnlySelectedChangeHolds == Spec => OnlySelectedChange
<1>1. Keyed => [ /\ Delete /\ answer' # Error =>
                       /\ builder.whereClauses # <<>>
                       /\ rows \ Hit(builder) \subseteq rows' /\ Finds(builder)' = {}
                       /\ builder.joins = <<>> => rows' = rows \ Finds(builder)
                 /\ Update \/ Increment =>
                       rows \ Hit(builder) \subseteq rows' /\ Cardinality(rows') = Cardinality(rows)]_vars
  BY OnlySelectedStep
<1> QED BY <1>1, KeyedInit, KeyedNext, PTL DEF Spec, OnlySelectedChange

Keys(object) == {object[i][1] : i \in DOMAIN object}
StoredIn(r, object) ==
    \A i \in DOMAIN object : r[resolveColumnName(object[i][1])] = Stored(object[i][2])

\* The value that an object gives to one of its keys.
LEMMA GetIt ==
    ASSUME NEW object, NEW i \in DOMAIN object,
           \A k \in DOMAIN object : object[k][1] = object[i][1] => k = i
    PROVE  Get(object, object[i][1]) = object[i][2]
BY DEF Get

LEMMA StoredAsGiven ==
    ASSUME NEW data \in Inserts, data # <<>>, NEW s, s = insertSQL(data), NEW j \in DOMAIN data,
           Keys(data[j]) = Keys(data[1])
    PROVE  \E r \in Inserted(s) : StoredIn(r, data[j])
<1> DEFINE first == data[1]
           object == data[j]
           place(n) == CHOOSE i \in DOMAIN s.columns : s.columns[i] = n
           inserted(l) == [n \in Names(Columns) |->
                             IF n \in ToSet(s.columns) THEN Stored(s.rows[l][place(n)]) ELSE Null]
           row == inserted(j)
<1>1. data \in Seq(Seq((DOMAIN Columns) \X Int)) /\ 1 \in DOMAIN data
  BY KnexAssumption
<1>2. /\ DOMAIN s.rows = DOMAIN data
      /\ DOMAIN s.columns = DOMAIN first
      /\ \A i \in DOMAIN first : s.columns[i] = resolveColumnName(first[i][1])
      /\ \A i \in DOMAIN first : s.rows[j][i] = Get(object, first[i][1])
  BY DEF insertSQL
<1>3. row \in Inserted(s)
  <2>1. Inserted(s) = {inserted(l) : l \in DOMAIN s.rows}
    BY Zenon DEF Inserted
  <2> HIDE DEF inserted
  <2> QED BY <1>2, <2>1
<1>4. /\ \A i \in DOMAIN object : object[i][1] \in DOMAIN Columns
      /\ \A i \in DOMAIN first : first[i][1] \in DOMAIN Columns
  <2>1. object \in Seq((DOMAIN Columns) \X Int) /\ first \in Seq((DOMAIN Columns) \X Int)
    BY <1>1
  <2> HIDE DEF object, first
  <2> QED BY <2>1
<1>5. \A i, k \in DOMAIN object : object[i][1] = object[k][1] => i = k
  BY KnexAssumption
<1>6. Keys(object) = Keys(first)
  OBVIOUS
<1>10. \A n \in Names(Columns) : n \in ToSet(s.columns) =>
          row[n] = Stored(s.rows[j][place(n)])
  OBVIOUS
<1>11. \A n : (\E i \in DOMAIN s.columns : s.columns[i] = n) =>
          place(n) \in DOMAIN s.columns /\ s.columns[place(n)] = n
  OBVIOUS
<1> HIDE DEF inserted, place, row, first, object
<1>7. ASSUME NEW i \in DOMAIN object
      PROVE  row[resolveColumnName(object[i][1])] = Stored(object[i][2])
  <2>1. PICK key \in DOMAIN Columns : key = object[i][1]
    BY <1>4
  <2>2. PICK n : n = Columns[key]
    OBVIOUS
  <2>3. resolveColumnName(key) = n /\ n \in Names(Columns)
    BY <2>1, <2>2 DEF resolveColumnName, resolve, Names
  <2>4. PICK m \in DOMAIN first : first[m][1] = key
    BY <1>6, <2>1 DEF Keys
  <2>5. s.columns[m] = n /\ m \in DOMAIN s.columns
    BY <1>2, <2>3, <2>4
  <2>6. n \in ToSet(s.columns)
    BY <2>5 DEF ToSet
  <2>7. PICK k : k = place(n)
    OBVIOUS
  <2>8. k \in DOMAIN first /\ s.columns[k] = n
    BY <1>2, <1>11, <2>5, <2>7
  <2>9. first[k][1] = key
    <3>1. first[k][1] \in DOMAIN Columns /\ Columns[first[k][1]] = n
      BY <1>2, <1>4, <2>8 DEF resolveColumnName, resolve
    <3> QED BY <2>2, <3>1, TableAssumption
  <2>10. s.rows[j][k] = Get(object, key)
    BY <1>2, <2>8, <2>9
  <2>11. Get(object, key) = object[i][2]
    <3>1. \A l \in DOMAIN object : object[l][1] = object[i][1] => l = i
      BY <1>5
    <3>2. Get(object, object[i][1]) = object[i][2]
      BY <3>1, GetIt
    <3> QED BY <2>1, <3>2
  <2> QED BY <1>10, <2>1, <2>3, <2>6, <2>7, <2>10, <2>11
<1> QED BY <1>3, <1>7 DEF StoredIn, object

LEMMA InsertedAsGivenStep ==
    \A data \in Inserts : Insert(data) =>
       \A j \in DOMAIN data :
          {data[j][i][1] : i \in DOMAIN data[j]} = {data[1][i][1] : i \in DOMAIN data[1]} =>
              \E r \in rows' : \A i \in DOMAIN data[j] :
                  r[resolveColumnName(data[j][i][1])] = Stored(data[j][i][2])
<1> SUFFICES ASSUME NEW data \in Inserts, Insert(data), NEW j \in DOMAIN data,
                    Keys(data[j]) = Keys(data[1])
             PROVE  \E r \in rows' : StoredIn(r, data[j])
  BY DEF Keys, StoredIn
<1>1. data # <<>>
  OBVIOUS
<1>2. PICK s : s = insertSQL(data)
  OBVIOUS
<1>3. Writes(Statement(<<>>, <<>>, <<>>), rows \cup Inserted(s))
  BY <1>1, <1>2 DEF Insert
<1>4. rows' = rows \cup Inserted(s)
  BY <1>3, BareAccepted DEF Writes
<1> QED BY <1>1, <1>2, <1>4, StoredAsGiven

\* Each object given to insertMany that has the keys of the first, in whatever order, is
\* stored with its values in the columns it names, for whatever table and objects.
THEOREM InsertedAsGivenHolds == Spec => InsertedAsGiven
<1>1. [\A data \in Inserts : Insert(data) =>
          \A j \in DOMAIN data :
              {data[j][i][1] : i \in DOMAIN data[j]} = {data[1][i][1] : i \in DOMAIN data[1]} =>
                  \E r \in rows' : \A i \in DOMAIN data[j] :
                      r[resolveColumnName(data[j][i][1])] = Stored(data[j][i][2])]_vars
  BY InsertedAsGivenStep
<1> QED BY <1>1, PTL DEF Spec, InsertedAsGiven

(***************************************************************************)
(* The values that a statement sends                                       *)
(***************************************************************************)
ValuesOf(tests) == FlattenSeq([k \in DOMAIN tests |-> tests[k].values])

\* The text of a clause asks for the values that the clause brings.
LEMMA BoundText ==
    ASSUME NEW c \in Clauses
    PROVE  ValuesOf(ClauseText(c)) = c.values /\ c.values \in Seq(Int)
<1>0. c.values \in Seq(Int)
  BY DEF Clauses
<1>1. CASE c.type = "raw"
  <2>1. /\ c.sql \in Seq(Tests)
        /\ c.values = FlattenSeq([k \in DOMAIN c.sql |-> c.sql[k].values])
    BY <1>1 DEF Clauses
  <2> DEFINE word(k) == IF k = 1 THEN c.boolean ELSE c.sql[k].word
             f == [k \in DOMAIN c.sql |-> Worded(word(k), c.sql[k])]
             vs == [k \in DOMAIN c.sql |-> c.sql[k].values]
  <2>2. ClauseText(c) = f
    BY <1>1 DEF ClauseText
  <2>3. \A k \in DOMAIN c.sql : Worded(word(k), c.sql[k]).values = c.sql[k].values
    BY DEF Worded
  <2> HIDE DEF word
  <2>4. [k \in DOMAIN f |-> f[k].values] = vs
    BY <2>3
  <2> HIDE DEF f, vs
  <2>5. ValuesOf(f) = FlattenSeq(vs)
    BY <2>4, Zenon DEF ValuesOf
  <2> QED BY <1>0, <2>1, <2>2, <2>5 DEF vs
<1>2. CASE c.type # "raw"
  <2>1. PICK tests : tests = <<Worded(c.boolean, c)>>
    OBVIOUS
  <2>2. ClauseText(c) = tests
    BY <1>2, <2>1 DEF ClauseText
  <2>3. DOMAIN tests = {1} /\ tests[1].values = c.values
    BY <2>1 DEF Worded
  <2>4. PICK ss : ss = <<c.values>>
    OBVIOUS
  <2>5. [k \in DOMAIN tests |-> tests[k].values] = ss
    <3>1. DOMAIN ss = {1} /\ ss[1] = c.values /\ ss = [k \in {1} |-> ss[k]]
      BY <2>4
    <3> QED BY <2>3, <3>1
  <2>6. FlattenSeq(ss) = c.values
    BY <1>0, <2>4, FlatOne
  <2> QED BY <1>0, <2>2, <2>5, <2>6 DEF ValuesOf
<1> QED BY <1>1, <1>2

LEMMA BoundTexts ==
    ASSUME NEW cs \in Seq(Clauses)
    PROVE  TextValues(Text(cs)) = ClauseValues(cs) /\ ClauseValues(cs) \in Seq(Int)
<1> DEFINE vs == [i \in DOMAIN cs |-> cs[i].values]
           text == Text(cs)
           per == [i \in DOMAIN text |-> FlattenSeq([k \in DOMAIN text[i] |-> text[i][k].values])]
<1>1. DOMAIN cs = 1..Len(cs) /\ Len(cs) \in Nat /\ \A i \in DOMAIN cs : cs[i] \in Clauses
  OBVIOUS
<1>2. DOMAIN text = DOMAIN cs /\ \A i \in DOMAIN cs : text[i] = ClauseText(cs[i])
  BY DEF Text
<1> HIDE DEF text
<1>3. \A i \in DOMAIN cs : ValuesOf(text[i]) = cs[i].values /\ cs[i].values \in Seq(Int)
  BY <1>1, <1>2, BoundText
<1>4. per = [i \in DOMAIN text |-> ValuesOf(text[i])]
  BY Zenon DEF ValuesOf
<1> HIDE DEF per
<1>5. per = vs
  BY <1>2, <1>3, <1>4
<1>6. vs \in Seq(Seq(Int))
  <2>1. vs \in [1..Len(cs) -> Seq(Int)]
    BY <1>1, <1>3
  <2> HIDE DEF vs
  <2> QED BY <1>1, <2>1, IsSeq
<1>7. TextValues(text) = FlattenSeq(per)
  BY Zenon DEF TextValues, per
<1>8. ClauseValues(cs) = FlattenSeq(vs)
  BY DEF ClauseValues
<1> HIDE DEF vs
<1>9. FlattenSeq(vs) \in Seq(Int)
  BY <1>6, FlatType
<1> QED BY <1>5, <1>7, <1>8, <1>9 DEF text

LEMMA NoValues == TextValues(<<>>) = <<>>
<1>1. PICK none : none = <<>>
  OBVIOUS
<1>2. [i \in DOMAIN none |-> FlattenSeq([k \in DOMAIN none[i] |-> none[i][k].values])] = none
  BY <1>1
<1>3. Len(none) = 0
  BY <1>1
<1>4. FlattenSeq(none) = none
  BY <1>3 DEF FlattenSeq
<1> HIDE DEF FlattenSeq
<1> QED BY <1>1, <1>2, <1>4, Zenon DEF TextValues

LEMMA JoinNone ==
    ASSUME NEW s \in Seq(Int)
    PROVE  s \o <<>> = s /\ <<>> \o s = s
OBVIOUS

LEMMA JoinType ==
    ASSUME NEW s \in Seq(Int), NEW t \in Seq(Int)
    PROVE  s \o t \in Seq(Int)
OBVIOUS

\* The values of SET, and the statement's.
LEMMA BoundStatement ==
    ASSUME NEW s, NEW set \in Seq(Int), NEW where_ \in Seq(Int), NEW having_ \in Seq(Int),
           [i \in DOMAIN s.set |-> s.set[i].value] = set,
           TextValues(s.where) = where_, TextValues(s.having) = having_,
           s.values = set \o (where_ \o having_)
    PROVE  s.values = Holes(s)
<1>1. (set \o where_) \o having_ = set \o (where_ \o having_)
  OBVIOUS
<1> QED BY <1>1, Zenon DEF Holes

LEMMA Unset ==
    ASSUME NEW none, none = <<>>
    PROVE  [i \in DOMAIN none |-> none[i].value] = none /\ none \in Seq(Int)
OBVIOUS

LEMMA ValuesBoundStep ==
    ASSUME IInv
    PROVE  ValuesBound
<1> DEFINE w == buildWhereSQL(builder)
           h == buildHavingSQL(builder)
           W == ClauseValues(builder.whereClauses)
           H == ClauseValues(builder.having)
<1>1. PICK none : none = <<>>
  OBVIOUS
<1>2. /\ W \in Seq(Int) /\ H \in Seq(Int) /\ none \in Seq(Int)
      /\ TextValues(w.text) = W /\ TextValues(h.text) = H
      /\ w.values = W /\ h.values = H /\ TextValues(none) = none
  <2>1. /\ w.text = Text(builder.whereClauses) /\ h.text = Text(builder.having)
        /\ w.values = W /\ h.values = H
    BY DEF buildWhereSQL, buildHavingSQL
  <2>2. builder.whereClauses \in Seq(Clauses) /\ builder.having \in Seq(Clauses)
    BY DEF IInv
  <2>3. TextValues(none) = none /\ none \in Seq(Int)
    BY <1>1, NoValues, Unset
  <2> HIDE DEF w, h, W, H
  <2>4. TextValues(w.text) = W /\ W \in Seq(Int)
    BY <2>1, <2>2, BoundTexts DEF W
  <2>5. TextValues(h.text) = H /\ H \in Seq(Int)
    BY <2>1, <2>2, BoundTexts DEF H
  <2> QED BY <2>1, <2>3, <2>4, <2>5
<1> HIDE DEF W, H
<1>3. none \o (W \o H) = W \o H /\ none \o (W \o none) = W /\ \A s \in Seq(Int) : s \o (W \o none) = s \o W
  <2>1. W \o none = W /\ W \o H \in Seq(Int)
    BY <1>1, <1>2, JoinNone, JoinType
  <2>2. none \o W = W /\ none \o (W \o H) = W \o H
    BY <1>1, <1>2, <2>1, JoinNone
  <2> QED BY <2>1, <2>2
<1>4. ASSUME NEW s, s = toSQL(builder)
      PROVE  s.values = Holes(s)
  <2>1. s.set = none /\ s.where = w.text /\ s.having = h.text /\ s.values = W \o H
    BY <1>1, <1>2, <1>4 DEF toSQL, Statement
  <2>2. [i \in DOMAIN s.set |-> s.set[i].value] = none
    BY <1>1, <2>1, Unset
  <2> HIDE DEF w, h
  <2>3. s.values = none \o (W \o H)
    BY <1>3, <2>1
  <2> QED BY <1>2, <2>1, <2>2, <2>3, BoundStatement
<1>5. ASSUME NEW s, s = buildCountSQL(builder, "*") \/ s = deleteSQL(builder)
      PROVE  s.values = Holes(s)
  <2>1. s.set = none /\ s.where = w.text /\ s.having = none /\ s.values = W
    <3>1. CASE s = deleteSQL(builder)
      BY <1>1, <1>2, <3>1 DEF deleteSQL, Statement
    <3>2. CASE s = buildCountSQL(builder, "*")
      <4>1. PICK columns : columns = <<[name |-> "*", aliased |-> FALSE]>>
        OBVIOUS
      <4>2. s = [Statement(<<>>, w.text, w.values) EXCEPT
                    !.columns = columns, !.joins = builder.joins, !.groupBy = builder.groupBy]
        BY <3>2, <4>1 DEF buildCountSQL
      <4> QED BY <1>1, <1>2, <4>2 DEF Statement
    <3> QED BY <1>5, <3>1, <3>2
  <2>2. [i \in DOMAIN s.set |-> s.set[i].value] = none
    BY <1>1, <2>1, Unset
  <2> HIDE DEF w, h
  <2>3. s.values = none \o (W \o none)
    BY <1>3, <2>1
  <2> QED BY <1>2, <2>1, <2>2, <2>3, BoundStatement
<1>6. ASSUME NEW s, s = incrementSQL(builder, "x", 1)
      PROVE  s.values = Holes(s)
  <2>1. PICK one : one = <<1>>
    OBVIOUS
  <2>2. PICK e : e = [column |-> resolveColumnName("x"), plus |-> TRUE, value |-> 1]
    OBVIOUS
  <2>3. PICK set : set = <<e>>
    OBVIOUS
  <2>4. s.set = set /\ s.where = w.text /\ s.having = none /\ s.values = one \o W
    BY <1>1, <1>2, <1>6, <2>1, <2>2, <2>3 DEF incrementSQL, Statement
  <2>5. e.value = 1
    BY <2>2
  <2>6. one \in Seq(Int) /\ one = [i \in {1} |-> 1]
    BY <2>1
  <2>7. [i \in DOMAIN s.set |-> s.set[i].value] = one
    <3>1. DOMAIN set = {1} /\ set[1].value = 1
      BY <2>3, <2>5
    <3> QED BY <2>4, <2>6, <3>1
  <2> HIDE DEF w, h
  <2>8. s.values = one \o (W \o none)
    BY <1>3, <2>4, <2>6
  <2>9. TextValues(s.where) = W /\ TextValues(s.having) = none /\ one \in Seq(Int)
    BY <1>2, <2>4, <2>6
  <2> QED BY <1>2, <2>7, <2>8, <2>9, BoundStatement
<1>7. ASSUME NEW data \in Updates, NEW s, s = updateSQL(builder, data)
      PROVE  s.values = Holes(s)
  <2> DEFINE es == Entries(data)
             vs == [i \in DOMAIN es |-> es[i][2]]
             T == {e \in STRING \X Int : e[2] # Undefined /\ \E i \in DOMAIN data : data[i] = e}
             set == [i \in DOMAIN es |->
                       [column |-> resolveColumnName(es[i][1]), plus |-> FALSE, value |-> es[i][2]]]
  <2>1. es \in Seq(T)
    BY EntriesType, KnexAssumption
  <2>2. s.set = set /\ s.where = w.text /\ s.having = none /\ s.values = vs \o W
    BY <1>1, <1>2, <1>7 DEF updateSQL, Statement
  <2> HIDE DEF es
  <2>3. vs \in Seq(Int)
    <3>1. DOMAIN es = 1..Len(es) /\ Len(es) \in Nat /\ \A i \in DOMAIN es : es[i][2] \in Int
      BY <2>1
    <3>2. vs \in [1..Len(es) -> Int]
      BY <3>1
    <3> HIDE DEF vs
    <3> QED BY <3>1, <3>2, IsSeq
  <2>4. [i \in DOMAIN s.set |-> s.set[i].value] = vs
    BY <2>2
  <2> HIDE DEF w, h, vs, set
  <2>5. s.values = vs \o (W \o none)
    BY <1>3, <2>2, <2>3
  <2> QED BY <1>2, <2>2, <2>3, <2>4, <2>5, BoundStatement
<1> QED BY <1>4, <1>5, <1>6, <1>7 DEF ValuesBound

\* Each statement of a builder sends the values its placeholders ask for, in their order,
\* after whatever calls.
THEOREM ValuesBoundAlways == Spec => []ValuesBound
BY ValuesBoundStep, InvInit, InvNext, PTL DEF Spec

(***************************************************************************)
(* What count and exists tell                                              *)
(***************************************************************************)
Limited == builder.limit \in Nat \cup {Undefined}

LEMMA ImageCounts ==
    ASSUME NEW M, IsFiniteSet(M), NEW f, NEW I, I = {f[x] : x \in M}
    PROVE  IsFiniteSet(I) /\ Cardinality(I) \in Nat /\ (Cardinality(I) > 0 <=> M # {})
<1> DEFINE g == [x \in M |-> f[x]]
<1>1. g \in Surjection(M, I)
  <2>1. g \in [M -> I] /\ \A y \in I : \E x \in M : g[x] = y
    OBVIOUS
  <2> HIDE DEF g
  <2> QED BY <2>1 DEF Surjection
<1>2. IsFiniteSet(I)
  BY <1>1, FS_Surjection
<1>3. Cardinality(I) \in Nat /\ (Cardinality(I) = 0 <=> I = {})
  BY <1>2, FS_CardinalityType, FS_EmptySet
<1>4. I = {} <=> M = {}
  OBVIOUS
<1> QED BY <1>2, <1>3, <1>4

LEMMA MinPositive ==
    ASSUME NEW l \in Nat, l # 0, NEW n \in Nat
    PROVE  Min({l, n}) > 0 <=> n > 0
<1>1. \E x \in {l, n} : \A y \in {l, n} : x =< y
  <2>1. l =< n \/ n =< l
    OBVIOUS
  <2> QED BY <2>1
<1>2. Min({l, n}) \in {l, n} /\ Min({l, n}) =< l /\ Min({l, n}) =< n
  BY <1>1 DEF Min
<1> QED BY <1>2

LEMMA MatchingFinite ==
    ASSUME Keyed, NEW s
    PROVE  IsFiniteSet(Matching(s))
<1> DEFINE all == (rows \cup {NoRow(Columns)}) \X (OtherRows \cup {NoRow(OtherColumns)})
<1>1. IsFiniteSet(rows) /\ IsFiniteSet(OtherRows)
  BY TableAssumption DEF Keyed, IsTable
<1>2. IsFiniteSet(all)
  <2>1. IsFiniteSet(rows \cup {NoRow(Columns)}) /\ IsFiniteSet(OtherRows \cup {NoRow(OtherColumns)})
    BY <1>1, FS_AddElement
  <2> QED BY <2>1, FS_Product
<1>3. \A joins : Sources(joins) \subseteq all
  <2> TAKE joins
  <2>1. CASE joins = <<>>
    BY <2>1 DEF Sources
  <2>2. CASE joins # <<>>
    <3> DEFINE j == joins[1]
               value(p, column) == IF column.table = "t" THEN p[1][column.name] ELSE p[2][column.name]
               on == {p \in rows \X OtherRows :
                         Holds(j.operator, value(p, j.column1), <<value(p, j.column2)>>)}
               lonely == {r \in rows : \A p \in on : p[1] # r}
               others == {o \in OtherRows : \A p \in on : p[2] # o}
    <3>1. Sources(joins) = on \cup (IF j.type = "left" THEN lonely \X {NoRow(OtherColumns)} ELSE {})
                          \cup (IF j.type = "right" THEN {NoRow(Columns)} \X others ELSE {})
      BY <2>2, Zenon DEF Sources
    <3>2. on \subseteq rows \X OtherRows /\ lonely \subseteq rows /\ others \subseteq OtherRows
      BY Zenon
    <3> HIDE DEF on, lonely, others
    <3> QED BY <3>1, <3>2
  <2> QED BY <2>1, <2>2
<1>4. Matching(s) \subseteq all
  BY <1>3 DEF Matching
<1> HIDE DEF all
<1> QED BY <1>2, <1>4, FS_Subset

\* The two statements differ in their columns and in what comes after the groups.
LEMMA SelectAndCount ==
    ASSUME NEW b, NEW s, s = toSQL(b), NEW c, c = buildCountSQL(b, "*")
    PROVE  /\ c.where = s.where /\ c.joins = s.joins /\ c.groupBy = s.groupBy
           /\ c.having = <<>> /\ c.offset = Undefined
           /\ DOMAIN c.columns = {1} /\ c.columns[1].name = "*"
           /\ s.limit = b.limit /\ s.distinct = b.distinct
<1>1. PICK columns : columns = <<[name |-> "*", aliased |-> FALSE]>>
  OBVIOUS
<1>2. DOMAIN columns = {1} /\ columns[1].name = "*"
  BY <1>1
<1>3. c = [Statement(<<>>, buildWhereSQL(b).text, buildWhereSQL(b).values) EXCEPT
              !.columns = columns, !.joins = b.joins, !.groupBy = b.groupBy]
  BY <1>1 DEF buildCountSQL
<1>4. /\ c.where = buildWhereSQL(b).text /\ c.joins = b.joins /\ c.groupBy = b.groupBy
      /\ c.having = <<>> /\ c.offset = Undefined /\ c.columns = columns
  BY <1>3 DEF Statement
<1>5. /\ s.where = buildWhereSQL(b).text /\ s.joins = b.joins /\ s.groupBy = b.groupBy
      /\ s.limit = b.limit /\ s.distinct = b.distinct
  BY DEF toSQL, Statement
<1> QED BY <1>2, <1>4, <1>5

LEMMA CountAccepted ==
    ASSUME NEW b, NEW s, s = toSQL(b), NEW c, c = buildCountSQL(b, "*"), ~Refused(s)
    PROVE  ~Refused(c)
<1>1. /\ c.where = s.where /\ c.joins = s.joins /\ c.groupBy = s.groupBy
      /\ c.having = <<>> /\ c.offset = Undefined
      /\ DOMAIN c.columns = {1} /\ c.columns[1].name = "*"
  BY SelectAndCount
<1> DEFINE asked(t) == {At(t.where, p).column : p \in Positions(t.where)} \cup ToSet(t.groupBy)
           named(t) == {t.columns[i].name : i \in DOMAIN t.columns}
           empty(t) == \E p \in Positions(t.where) :
                          At(t.where, p).operator \in {"IN", "NOT IN"} /\ At(t.where, p).values = <<>>
<1>2. /\ ~empty(s) /\ ~(Len(s.joins) > 1)
      /\ ~(s.joins # <<>> /\ (asked(s) \cup named(s)) \cap Names(Columns) \cap Names(OtherColumns) # {})
  BY Zenon DEF Refused
<1>3. named(c) = {"*"}
  BY <1>1
<1>4. Refused(c) => \/ empty(c) \/ Len(c.joins) > 1
                    \/ c.joins # <<>> /\ (asked(c) \cup named(c)) \cap Names(Columns) \cap Names(OtherColumns) # {}
  <2>1. c.having = <<>> /\ c.offset = Undefined
    BY <1>1
  <2> QED BY <2>1, Zenon DEF Refused
<1>5. empty(c) = empty(s)
  BY <1>1, Zenon
<1>6. asked(c) = asked(s)
  BY <1>1, Zenon
<1> HIDE DEF asked, empty, named
<1>7. Len(c.joins) = Len(s.joins) /\ c.joins = s.joins
  BY <1>1
<1> QED BY <1>2, <1>3, <1>4, <1>5, <1>6, <1>7, TableAssumption

LEMMA CountAgreesStep ==
    ASSUME Keyed, Limited
    PROVE  CountAgrees
<1>1. PICK s : s = toSQL(builder)
  OBVIOUS
<1>2. PICK c : c = buildCountSQL(builder, "*")
  OBVIOUS
<1>3. SUFFICES ASSUME ~RefusedSelect(s), s.having = <<>>, s.offset = Undefined, s.limit # 0
               PROVE  /\ ~Refused(c)
                      /\ \A n \in Counts(c) :
                            /\ n > 0 <=> Shown(s) > 0
                            /\ s.limit = Undefined /\ s.groupBy = <<>> /\ ~s.distinct => n = Shown(s)
  BY <1>1, <1>2, Zenon DEF CountAgrees
<1>4. /\ c.where = s.where /\ c.joins = s.joins /\ c.groupBy = s.groupBy
      /\ DOMAIN c.columns = {1} /\ c.columns[1].name = "*"
      /\ s.limit \in Nat \cup {Undefined}
  BY <1>1, <1>2, SelectAndCount DEF Limited
<1>5. ~Refused(c)
  BY <1>1, <1>2, <1>3, CountAccepted DEF RefusedSelect
<1> DEFINE M == Matching(s)
           size(g) == Cardinality(g)
           names == {s.columns[i].name : i \in DOMAIN s.columns}
           each == {Project(p, names) : p \in M}
           groups == {g \in GroupsOf(s) : Kept(s, g)}
           picked == {Project(CHOOSE p \in g : TRUE, names) : g \in groups}
           n == IF s.groupBy # <<>>
                THEN IF s.distinct THEN Cardinality(picked) ELSE Cardinality(groups)
                ELSE IF s.distinct THEN Cardinality(each) ELSE Cardinality(M)
<1>6. IsFiniteSet(M) /\ Cardinality(M) \in Nat /\ (Cardinality(M) > 0 <=> M # {})
  <2>1. IsFiniteSet(M)
    BY MatchingFinite
  <2>2. Cardinality(M) \in Nat /\ (Cardinality(M) = 0 <=> M = {})
    BY <2>1, FS_CardinalityType, FS_EmptySet
  <2> QED BY <2>1, <2>2
<1>7. Matching(c) = M
  <2>1. Sources(c.joins) = Sources(s.joins)
    BY <1>4, Zenon
  <2> QED BY <1>4, <2>1, Zenon DEF Matching
<1>8. groups = GroupsOf(s)
  <2>1. PICK none : none = <<>>
    OBVIOUS
  <2>2. Positions(none) = {}
    BY <2>1 DEF Positions
  <2>3. \A g : Kept(s, g)
    BY <1>3, <2>1, <2>2 DEF Kept
  <2> QED BY <2>3
<1> DEFINE key(p) == Project(p, ToSet(s.groupBy))
           group(p) == {q \in M : key(q) = key(p)}
<1>9. GroupsOf(s) = {group(p) : p \in M} /\ GroupsOf(c) = {group(p) : p \in M}
  <2> DEFINE Grouped(m, by) == {{q \in m : Project(q, ToSet(by)) = Project(p, ToSet(by))} : p \in m}
  <2>1. GroupsOf(s) = Grouped(M, s.groupBy) /\ GroupsOf(c) = Grouped(Matching(c), c.groupBy)
    BY Zenon DEF GroupsOf
  <2>2. {group(p) : p \in M} = Grouped(M, s.groupBy)
    BY Zenon
  <2> HIDE DEF M, Grouped
  <2>3. Grouped(Matching(c), c.groupBy) = Grouped(M, s.groupBy)
    BY <1>4, <1>7, Zenon
  <2> QED BY <2>1, <2>2, <2>3
<1>10. n \in Nat /\ (n > 0 <=> M # {})
  <2> HIDE DEF M
  <2>1. Cardinality(each) \in Nat /\ (Cardinality(each) > 0 <=> M # {})
    <3> DEFINE f == [p \in M |-> Project(p, names)]
    <3>1. each = {f[p] : p \in M}
      OBVIOUS
    <3> HIDE DEF f, each
    <3> QED BY <1>6, <3>1, ImageCounts
  <2>2. IsFiniteSet(groups) /\ Cardinality(groups) \in Nat /\ (Cardinality(groups) > 0 <=> M # {})
    <3> DEFINE f == [p \in M |-> group(p)]
    <3>1. groups = {f[p] : p \in M}
      <4> HIDE DEF groups, group
      <4> QED BY <1>8, <1>9
    <3> HIDE DEF f, groups
    <3> QED BY <1>6, <3>1, ImageCounts
  <2>3. Cardinality(picked) \in Nat /\ (Cardinality(picked) > 0 <=> groups # {})
    <3> DEFINE f == [g \in groups |-> Project(CHOOSE p \in g : TRUE, names)]
    <3>1. picked = {f[g] : g \in groups}
      <4> HIDE DEF groups
      <4> QED OBVIOUS
    <3> HIDE DEF f, groups, picked
    <3> QED BY <2>2, <3>1, ImageCounts
  <2>4. groups # {} <=> M # {}
    <3> HIDE DEF groups, group
    <3> QED BY <1>8, <1>9
  <2> HIDE DEF each, groups, picked
  <2> QED BY <1>6, <2>1, <2>2, <2>3, <2>4
<1>11. Shown(s) = IF s.limit = Undefined THEN n ELSE Min({s.limit, n})
  <2>1. Shown(s) = LET rest == IF s.offset = Undefined THEN n ELSE Max({0, n - s.offset})
                   IN  IF s.limit = Undefined THEN rest ELSE Min({s.limit, rest})
    BY Zenon DEF Shown
  <2> HIDE DEF n
  <2> QED BY <1>3, <2>1
<1>12. (Shown(s) > 0 <=> M # {}) /\ (s.limit = Undefined => Shown(s) = n)
  <2> HIDE DEF n, M
  <2>1. CASE s.limit = Undefined
    BY <1>10, <1>11, <2>1
  <2>2. CASE s.limit # Undefined
    <3>1. s.limit \in Nat /\ s.limit # 0
      BY <1>3, <1>4, <2>2
    <3>2. Shown(s) = Min({s.limit, n})
      BY <1>11, <2>2
    <3> QED BY <1>10, <2>2, <3>1, <3>2, MinPositive
  <2> QED BY <2>1, <2>2
<1>13. \A g : Cardinality({p \in g : c.columns[1].name = "*" \/ p[1][c.columns[1].name] # Null}) = size(g)
  <2> SUFFICES ASSUME NEW g
               PROVE  {p \in g : c.columns[1].name = "*" \/ p[1][c.columns[1].name] # Null} = g
    BY Zenon
  <2> QED BY <1>4
<1>14. Counts(c) = IF c.groupBy = <<>> THEN {size(Matching(c))}
                   ELSE IF Matching(c) = {} THEN {0} ELSE {size(g) : g \in GroupsOf(c)}
  BY <1>13, Zenon DEF Counts
<1>15. \A g \in GroupsOf(c) : M # {} => size(g) > 0
  <2> SUFFICES ASSUME NEW g \in GroupsOf(c) PROVE size(g) > 0
    OBVIOUS
  <2> HIDE DEF M
  <2>1. PICK p \in M : g = group(p)
    BY <1>9
  <2>2. p \in g /\ g \subseteq M
    BY <2>1
  <2>3. IsFiniteSet(g)
    BY <1>6, <2>2, FS_Subset
  <2>4. Cardinality(g) \in Nat /\ Cardinality(g) # 0
    BY <2>2, <2>3, FS_CardinalityType, FS_EmptySet
  <2> QED BY <2>4
<1>16. ASSUME NEW m \in Counts(c)
       PROVE  /\ m > 0 <=> Shown(s) > 0
              /\ s.limit = Undefined /\ s.groupBy = <<>> /\ ~s.distinct => m = Shown(s)
  <2>1. CASE c.groupBy = <<>>
    <3>1. m = Cardinality(M)
      BY <1>7, <1>14, <2>1
    <3>2. ~s.distinct => n = Cardinality(M)
      BY <1>4, <2>1
    <3> HIDE DEF n, M
    <3> QED BY <1>6, <1>12, <3>1, <3>2
  <2>2. CASE c.groupBy # <<>>
    <3>1. m > 0 <=> M # {}
      <4> HIDE DEF M, size
      <4> QED BY <1>7, <1>14, <1>15, <2>2
    <3> HIDE DEF n, M
    <3> QED BY <1>4, <1>12, <2>2, <3>1
  <2> QED BY <2>1, <2>2
<1> QED BY <1>5, <1>16

LEMMA LimitedInit == Init => Limited
BY DEF Init, newBuilder, Limited

LEMMA LimitedNext == IInv /\ Limited /\ [Next]_vars => Limited'
<1> SUFFICES ASSUME IInv, Limited, [Next]_vars PROVE Limited'
  OBVIOUS
<1> USE DEF Builds, Answers, Writes, Call
<1>1. ASSUME NEW b, b.limit = builder.limit, builder' = b
      PROVE  Limited'
  BY <1>1 DEF Limited
<1>2. CASE NewQuery
  BY <1>2 DEF NewQuery, newBuilder, Limited
<1>3. CASE Selecting
  BY <1>1, <1>3 DEF Selecting, select, selectAs, selectAll, distinct, IInv, newBuilder
<1>4. CASE Narrows \/ Widens \/ Splices
  <2>1. PICK cs \in Seq(Clauses) : builder' = Adding(builder, cs)
    BY <1>4, Adds
  <2>2. Adding(builder, cs).limit = builder.limit
    BY DEF Adding, IInv, newBuilder
  <2> QED BY <1>1, <2>1, <2>2
<1>5. CASE Joining
  BY <1>1, <1>5 DEF Joining, join, IInv, newBuilder
<1>6. CASE Grouping
  BY <1>1, <1>6 DEF Grouping, groupBy, orderBy, havingRaw, IInv, newBuilder
<1>7. CASE Window \/ First \/ FirstOrFail
  <2>1. builder' = limit(builder, 1) \/ builder' = offset(builder, 1)
    BY <1>7 DEF Window, First, FirstOrFail
  <2>2. limit(builder, 1).limit = 1 /\ offset(builder, 1).limit = builder.limit
    BY DEF limit, offset, IInv, newBuilder
  <2> QED BY <1>1, <2>1, <2>2 DEF Limited
<1>8. CASE Pluck
  BY <1>1, <1>8 DEF Pluck, select, IInv, newBuilder
<1>9. CASE Execute \/ Count \/ Exists \/ (\E data \in Inserts : Insert(data)) \/ Update
            \/ Increment \/ Delete \/ Truncate \/ UNCHANGED vars
  <2>1. builder' = builder
    BY <1>9 DEF Execute, Count, Exists, Insert, Update, Increment, Delete, Truncate, vars
  <2> QED BY <2>1 DEF Limited
<1> QED BY <1>2, <1>3, <1>4, <1>5, <1>6, <1>7, <1>8, <1>9 DEF Next

\* After whatever calls, count and exists tell of the rows that the query returns.
THEOREM CountAgreesAlways == Spec => []CountAgrees
BY CountAgreesStep, InvInit, InvNext, KeyedInit, KeyedNext, LimitedInit, LimitedNext, PTL DEF Spec
=============================================================================

------------------------------ MODULE SqlText ------------------------------
(***************************************************************************)
(* The texts of expressions and queries, as sequences of tokens, and what  *)
(* the operators of SQL mean: three-valued logic and the set operations.   *)
(* The server is not part of the repository.                               *)
(***************************************************************************)
EXTENDS Integers, Sequences, FiniteSets, SequencesExt

CONSTANTS
    Stored,         \* the rows of each table, as functions from columns to values
    ColumnOrder     \* the columns of all tables, in the order of SELECT *

\* Values are small numbers; truth values are 1 and 0, as in the server.
Null == -1

K(w) == [t |-> w]                         \* a keyword
Col(c) == [t |-> "col", c |-> c]
Lit(v) == [t |-> "lit", v |-> v]
Op(o) == [t |-> "op", o |-> o]            \* a comparison or a postfix test
Hole(v) == [t |-> "?", v |-> v]           \* a placeholder; v is what its author wants there
Open(f) == [t |-> "(", f |-> f]           \* a bracket, the call of f, or CASE
Sep(s) == [t |-> "sep", s |-> s]          \* comma, WHEN, THEN or ELSE
Close == K(")")                           \* also the END of a CASE

\* What the authors of the placeholders of a text want for them, in order.
Wanted(token) == IF token.t = "?" THEN <<token.v>> ELSE <<>>
Meant(text) == FlattenSeq([i \in DOMAIN text |-> Wanted(text[i])])

\* The text with the values sent along put in for its placeholders.
Bind(text, values) ==
    [i \in DOMAIN text |->
        IF text[i].t = "?"
        THEN Lit(values[Cardinality({j \in 1..i : text[j].t = "?"})])
        ELSE text[i]]

(***************************************************************************)
(* Three-valued logic                                                      *)
(***************************************************************************)
Truth(b) == IF b THEN 1 ELSE 0
Neg(a) == IF a = Null THEN Null ELSE Truth(a = 0)
Both(a, b) == IF a = 0 \/ b = 0 THEN 0 ELSE IF Null \in {a, b} THEN Null ELSE 1
Either(a, b) == Neg(Both(Neg(a), Neg(b)))
Compare(o, a, b) ==
    IF Null \in {a, b} THEN Null
    ELSE Truth(CASE o = "=" -> a = b [] o = "!=" -> a # b [] o = ">" -> a > b
                 [] o = ">=" -> a >= b [] o = "<" -> a < b [] o = "<=" -> a <= b
                 [] o = "LIKE" -> a = b)
Member(a, S) ==
    IF S = {} THEN 0
    ELSE IF a = Null THEN Null
    ELSE IF a \in S THEN 1 ELSE IF Null \in S THEN Null ELSE 0
FirstNonNull(s) ==
    IF \A i \in DOMAIN s : s[i] = Null THEN Null
    ELSE s[CHOOSE i \in DOMAIN s : s[i] # Null /\ \A j \in 1..(i - 1) : s[j] = Null]

SetOperations == {"UNION", "UNION ALL", "INTERSECT", "EXCEPT"}
Once(bag) == SetToBag(BagToSet(bag))
Combine(o, a, b) ==
    CASE o = "UNION ALL" -> a (+) b
      [] o = "UNION" -> Once(a (+) b)
      [] o = "INTERSECT" -> SetToBag(BagToSet(a) \cap BagToSet(b))
      [] o = "EXCEPT" -> SetToBag(BagToSet(a) \ BagToSet(b))
==============================================================================

------------------------- MODULE QueryBuilderProofs -------------------------
(***************************************************************************)
(* Theorems of QueryBuilder.  A builder keeps its text when others are     *)
(* derived from it: arrays are never changed once a builder holds them.    *)
(* The values sent with a text are those of its placeholders in order:     *)
(* each function of expressions.ts, and toSQL, puts texts and values       *)
(* together in the same order.                                             *)
(***************************************************************************)
EXTENDS QueryBuilder, FiniteSetTheorems, NaturalsInduction, WellFoundedInduction, TLAPS

(***************************************************************************)
(* Sequences put one after another                                         *)
(***************************************************************************)
LEMMA ByInduction ==
    ASSUME NEW S \in SUBSET Nat, 0 \in S, \A n \in S : n + 1 \in S
    PROVE  S = Nat
<1>1. SUFFICES ASSUME Nat \ S # {} PROVE FALSE
  OBVIOUS
<1>2. IsWellFoundedOn(OpToRel(<,Nat), Nat)
  BY NatLessThanWellFounded
<1>3. PICK n \in Nat \ S : \A m \in Nat \ S : ~(<<m, n>> \in OpToRel(<,Nat))
  BY <1>1, <1>2, WFMin
<1>4. \A m \in Nat \ S : ~(m < n)
  BY <1>3 DEF OpToRel
<1>5. n # 0 /\ n - 1 \in Nat /\ n - 1 \in S /\ n \in Nat /\ n \notin S
  BY <1>4
<1>6. (n - 1) + 1 \in S
  BY <1>5
<1> QED BY <1>5, <1>6

\* f has at i the first i sequences of ss put one after another, up to n.
Flat(ss, n, f) == f = [i \in 1..n |-> IF i = 1 THEN ss[i] ELSE f[i-1] \o ss[i]]

LEMMA FlatAt ==
    ASSUME NEW ss, NEW n, NEW f, Flat(ss, n, f), NEW i \in 1..n
    PROVE  f[i] = IF i = 1 THEN ss[i] ELSE f[i-1] \o ss[i]
BY Zenon DEF Flat

LEMMA FlatStarts ==
    ASSUME NEW T, NEW ss \in Seq(Seq(T)), Len(ss) >= 1
    PROVE  \E f \in [1..1 -> Seq(T)] : Flat(ss, 1, f)
<1>1. PICK f : f = [i \in 1..1 |-> ss[1]]
  OBVIOUS
<1>2. f \in [1..1 -> Seq(T)]
  BY <1>1
<1>3. Flat(ss, 1, f)
  BY <1>1 DEF Flat
<1> QED BY <1>2, <1>3

LEMMA FlatGoesOn ==
    ASSUME NEW T, NEW ss \in Seq(Seq(T)), NEW n \in Nat, n # 0, n + 1 <= Len(ss),
           NEW f \in [1..n -> Seq(T)], Flat(ss, n, f)
    PROVE  \E g \in [1..(n+1) -> Seq(T)] : Flat(ss, n + 1, g)
<1>1. PICK next : next = f[n] \o ss[n+1]
  OBVIOUS
<1>2. next \in Seq(T)
  BY <1>1
<1>3. PICK g : g = [i \in 1..(n+1) |-> IF i = n + 1 THEN next ELSE f[i]]
  OBVIOUS
<1>4. g \in [1..(n+1) -> Seq(T)]
  BY <1>2, <1>3
<1>5. \A i \in 1..(n+1) : g[i] = IF i = 1 THEN ss[i] ELSE g[i-1] \o ss[i]
  <2> TAKE i \in 1..(n+1)
  <2>1. CASE i = n + 1
    <3>1. i # 1 /\ i - 1 = n /\ g[i] = next /\ g[i-1] = f[n]
      BY <1>3, <2>1
    <3> QED BY <1>1, <2>1, <3>1
  <2>2. CASE i # n + 1
    <3>1. i \in 1..n /\ g[i] = f[i] /\ (i # 1 => i - 1 \in 1..n /\ i - 1 # n + 1 /\ i - 1 \in 1..(n+1))
      BY <1>3, <2>2
    <3>2. i # 1 => g[i-1] = f[i-1]
      BY <1>3, <3>1
    <3>3. f[i] = IF i = 1 THEN ss[i] ELSE f[i-1] \o ss[i]
      BY <3>1, Zenon DEF Flat
    <3> QED BY <3>1, <3>2, <3>3
  <2> QED BY <2>1, <2>2
<1>6. Flat(ss, n + 1, g)
  <2>1. g = [i \in 1..(n+1) |-> g[i]]
    BY <1>3
  <2> QED BY <1>5, <2>1, Zenon DEF Flat
<1> QED BY <1>4, <1>6

LEMMA FlatExists ==
    ASSUME NEW T, NEW ss \in Seq(Seq(T)), Len(ss) # 0
    PROVE  \E f \in [1..Len(ss) -> Seq(T)] : Flat(ss, Len(ss), f)
<1> DEFINE S == {n \in Nat : n # 0 /\ n <= Len(ss) => \E f \in [1..n -> Seq(T)] : Flat(ss, n, f)}
<1>1. 0 \in S
  OBVIOUS
<1>2. ASSUME NEW n \in S
      PROVE  n + 1 \in S
  <2>1. n \in Nat /\ n + 1 \in Nat /\ (n # 0 /\ n <= Len(ss) => \E f \in [1..n -> Seq(T)] : Flat(ss, n, f))
    OBVIOUS
  <2> HIDE DEF S
  <2>2. SUFFICES ASSUME n + 1 <= Len(ss)
                 PROVE  \E f \in [1..(n+1) -> Seq(T)] : Flat(ss, n + 1, f)
    BY <2>1 DEF S
  <2>3. CASE n = 0
    <3>1. n + 1 = 1
      BY <2>3
    <3> QED BY <2>2, <3>1, FlatStarts
  <2>4. CASE n # 0
    <3>1. n <= Len(ss)
      BY <2>1, <2>2
    <3>2. PICK f \in [1..n -> Seq(T)] : Flat(ss, n, f)
      BY <2>1, <2>4, <3>1
    <3> QED BY <2>1, <2>2, <2>4, <3>2, FlatGoesOn
  <2> QED BY <2>3, <2>4
<1>3. Len(ss) \in Nat /\ S \in SUBSET Nat
  OBVIOUS
<1> HIDE DEF S
<1>4. S = Nat
  BY <1>1, <1>2, <1>3, ByInduction
<1> QED BY <1>3, <1>4 DEF S

LEMMA FlatAll ==
    ASSUME NEW T, NEW ss \in Seq(Seq(T)), NEW f, Flat(ss, Len(ss), f)
    PROVE  f \in [1..Len(ss) -> Seq(T)]
<1> DEFINE S == {n \in Nat : n # 0 /\ n <= Len(ss) => f[n] \in Seq(T)}
<1>1. 0 \in S
  OBVIOUS
<1>2. ASSUME NEW n \in S
      PROVE  n + 1 \in S
  <2>1. SUFFICES ASSUME n + 1 <= Len(ss) PROVE f[n+1] \in Seq(T)
    OBVIOUS
  <2>2. n \in Nat /\ n + 1 \in 1..Len(ss) /\ ss[n+1] \in Seq(T)
    BY <2>1
  <2>3. PICK i \in 1..Len(ss) : i = n + 1
    BY <2>2
  <2>4. f[i] = IF i = 1 THEN ss[i] ELSE f[i-1] \o ss[i]
    BY FlatAt
  <2>5. CASE n = 0
    BY <2>2, <2>3, <2>4, <2>5
  <2>6. CASE n # 0
    <3>1. f[n] \in Seq(T) /\ i # 1 /\ i - 1 = n
      BY <2>1, <2>3, <2>6
    <3> HIDE DEF S
    <3>2. f[i] = f[n] \o ss[i]
      BY <2>4, <3>1
    <3>3. ss[i] \in Seq(T)
      BY <2>2, <2>3
    <3> QED BY <2>3, <3>1, <3>2, <3>3
  <2> QED BY <2>5, <2>6
<1>3. Len(ss) \in Nat /\ S \in SUBSET Nat
  OBVIOUS
<1> HIDE DEF S
<1>4. S = Nat
  BY <1>1, <1>2, <1>3, ByInduction
<1>5. \A n \in Nat : n # 0 /\ n <= Len(ss) => f[n] \in Seq(T)
  BY <1>4 DEF S
<1>6. \A n \in 1..Len(ss) : f[n] \in Seq(T)
  BY <1>3, <1>5
<1>7. f = [i \in 1..Len(ss) |-> f[i]]
  BY DEF Flat
<1> QED BY <1>6, <1>7

LEMMA FlatIs ==
    ASSUME NEW T, NEW ss \in Seq(Seq(T)), Len(ss) # 0
    PROVE  \E f \in [1..Len(ss) -> Seq(T)] :
              /\ \A i \in 1..Len(ss) : f[i] = IF i = 1 THEN ss[i] ELSE f[i-1] \o ss[i]
              /\ FlattenSeq(ss) = f[Len(ss)]
<1> DEFINE f == CHOOSE g : Flat(ss, Len(ss), g)
<1>1. \E g : Flat(ss, Len(ss), g)
  BY FlatExists
<1>2. Flat(ss, Len(ss), f)
  BY <1>1
<1>3. FlattenSeq(ss) = f[Len(ss)]
  BY DEF FlattenSeq, Flat
<1> HIDE DEF f
<1>4. f \in [1..Len(ss) -> Seq(T)]
  BY <1>2, FlatAll
<1>5. \A i \in 1..Len(ss) : f[i] = IF i = 1 THEN ss[i] ELSE f[i-1] \o ss[i]
  BY <1>2, Zenon DEF Flat
<1> QED BY <1>3, <1>4, <1>5

\* Sequences of members of T make a sequence of members of T.
LEMMA FlatType ==
    ASSUME NEW T, NEW ss \in Seq(Seq(T))
    PROVE  FlattenSeq(ss) \in Seq(T)
<1>1. CASE Len(ss) = 0
  <2>1. ss = <<>> /\ <<>> \in Seq(T)
    BY <1>1
  <2>2. FlattenSeq(ss) = ss
    BY <1>1 DEF FlattenSeq
  <2> HIDE DEF FlattenSeq
  <2> QED BY <2>1, <2>2, Zenon
<1>2. CASE Len(ss) # 0
  <2>1. PICK f \in [1..Len(ss) -> Seq(T)] : FlattenSeq(ss) = f[Len(ss)]
    BY <1>2, FlatIs
  <2>2. Len(ss) \in 1..Len(ss)
    BY <1>2
  <2> QED BY <2>1, <2>2
<1> QED BY <1>1, <1>2

LEMMA FlatNone == FlattenSeq(<<>>) = <<>>
<1>1. PICK none : none = <<>>
  OBVIOUS
<1>2. Len(none) = 0
  BY <1>1
<1>3. FlattenSeq(none) = none
  BY <1>2 DEF FlattenSeq
<1> QED BY <1>1, <1>3

\* One sequence makes itself.
LEMMA FlatOne ==
    ASSUME NEW T, NEW s \in Seq(T)
    PROVE  FlattenSeq(<<s>>) = s
<1>1. PICK ss : ss = <<s>>
  OBVIOUS
<1>2. ss \in Seq(Seq(T)) /\ Len(ss) = 1 /\ ss[1] = s
  BY <1>1
<1>3. Len(ss) # 0
  BY <1>2
<1>4. PICK f \in [1..Len(ss) -> Seq(T)] :
          /\ \A i \in 1..Len(ss) : f[i] = IF i = 1 THEN ss[i] ELSE f[i-1] \o ss[i]
          /\ FlattenSeq(ss) = f[Len(ss)]
  <2>1. ss \in Seq(Seq(T))
    BY <1>2
  <2> QED BY <2>1, <1>3, FlatIs
<1>5. PICK i \in 1..Len(ss) : i = 1
  BY <1>2
<1> HIDE DEF FlattenSeq
<1> QED BY <1>1, <1>2, <1>4, <1>5

LEMMA Joined ==
    ASSUME NEW S, NEW a \in Seq(S), NEW b \in Seq(S)
    PROVE  /\ a \o b \in Seq(S) /\ Len(a \o b) = Len(a) + Len(b)
           /\ \A i \in 1..(Len(a) + Len(b)) : (a \o b)[i] = IF i <= Len(a) THEN a[i] ELSE b[i - Len(a)]
OBVIOUS

LEMMA WithNone ==
    ASSUME NEW S, NEW a \in Seq(S)
    PROVE  a \o <<>> = a /\ <<>> \o a = a
OBVIOUS

Associative(S) == \A a, b, c \in Seq(S) : (a \o b) \o c = a \o (b \o c)

LEMMA Associates == \A S : Associative(S)
<1> TAKE S
<1>1. \A a, b, c \in Seq(S) : (a \o b) \o c = a \o (b \o c)
  OBVIOUS
<1> QED BY <1>1, Zenon DEF Associative

\* What two sequences of sequences make is what the first makes and then the second.
LEMMA FlatJoin ==
    ASSUME NEW T, NEW a \in Seq(Seq(T)), NEW b \in Seq(Seq(T))
    PROVE  FlattenSeq(a \o b) = FlattenSeq(a) \o FlattenSeq(b)
<1> DEFINE c == a \o b
<1>1. /\ c \in Seq(Seq(T)) /\ Len(c) = Len(a) + Len(b) /\ Len(a) \in Nat /\ Len(b) \in Nat
      /\ \A i \in 1..Len(c) : c[i] = IF i <= Len(a) THEN a[i] ELSE b[i - Len(a)]
  BY Joined
<1>2. FlattenSeq(a) \in Seq(T) /\ FlattenSeq(b) \in Seq(T)
  BY FlatType
<1> HIDE DEF c
<1>3. CASE Len(a) = 0
  <2>1. a = <<>>
    BY <1>3
  <2>2. FlattenSeq(a) = <<>>
    BY <2>1, FlatNone
  <2>3. c = b
    BY <2>1 DEF c
  <2> HIDE DEF FlattenSeq
  <2>4. <<>> \o FlattenSeq(b) = FlattenSeq(b)
    BY <1>2, WithNone
  <2> QED BY <2>2, <2>3, <2>4, Zenon DEF c
<1>4. CASE Len(b) = 0
  <2>1. b = <<>>
    BY <1>4
  <2>2. FlattenSeq(b) = <<>>
    BY <2>1, FlatNone
  <2>3. c = a
    BY <2>1 DEF c
  <2>4. FlattenSeq(a) \o <<>> = FlattenSeq(a)
    BY <1>2, WithNone
  <2> QED BY <2>2, <2>3, <2>4, Zenon DEF c
<1>5. CASE Len(a) # 0 /\ Len(b) # 0
  <2>1. PICK f \in [1..Len(a) -> Seq(T)] :
            /\ \A i \in 1..Len(a) : f[i] = IF i = 1 THEN a[i] ELSE f[i-1] \o a[i]
            /\ FlattenSeq(a) = f[Len(a)]
    BY <1>5, FlatIs
  <2>2. PICK g \in [1..Len(b) -> Seq(T)] :
            /\ \A i \in 1..Len(b) : g[i] = IF i = 1 THEN b[i] ELSE g[i-1] \o b[i]
            /\ FlattenSeq(b) = g[Len(b)]
    BY <1>5, FlatIs
  <2>3. PICK h \in [1..Len(c) -> Seq(T)] :
            /\ \A i \in 1..Len(c) : h[i] = IF i = 1 THEN c[i] ELSE h[i-1] \o c[i]
            /\ FlattenSeq(c) = h[Len(c)]
    <3>1. c \in Seq(Seq(T))
      BY <1>1
    <3>2. Len(c) # 0
      BY <1>1, <1>5
    <3> QED BY <3>1, <3>2, FlatIs
  <2> DEFINE S == {n \in Nat : n # 0 /\ n <= Len(a) => h[n] = f[n]}
             whole(n) == f[Len(a)] \o g[n]
             R == {n \in Nat : n # 0 /\ n <= Len(b) => h[Len(a) + n] = whole(n)}
  <2> HIDE DEF whole
  <2>4. S = Nat
    <3>1. 0 \in S
      OBVIOUS
    <3>2. ASSUME NEW n \in S PROVE n + 1 \in S
      <4>1. SUFFICES ASSUME n + 1 <= Len(a) PROVE h[n+1] = f[n+1]
        OBVIOUS
      <4>2. PICK i \in 1..Len(a) : i = n + 1 /\ i \in 1..Len(c) /\ c[i] = a[i] /\ n \in Nat
        BY <1>1, <4>1
      <4>3. n # 0 => h[n] = f[n]
        BY <4>1
      <4> HIDE DEF S
      <4>4. h[i] = IF i = 1 THEN c[i] ELSE h[i-1] \o c[i]
        BY <2>3, <4>2
      <4>5. f[i] = IF i = 1 THEN a[i] ELSE f[i-1] \o a[i]
        BY <2>1
      <4>6. i # 1 => i - 1 = n /\ n # 0
        BY <4>2
      <4>7. h[i] = f[i]
        BY <4>2, <4>3, <4>4, <4>5, <4>6
      <4> QED BY <4>2, <4>7
    <3>3. S \in SUBSET Nat
      OBVIOUS
    <3> HIDE DEF S
    <3> QED BY <3>1, <3>2, <3>3, ByInduction
  <2> HIDE DEF S
  <2>5. h[Len(a)] = f[Len(a)]
    <3>1. Len(a) \in S
      BY <1>1, <2>4
    <3> QED BY <1>5, <3>1 DEF S
  <2>6. R = Nat
    <3>1. 0 \in R
      OBVIOUS
    <3>2. ASSUME NEW n \in R PROVE n + 1 \in R
      <4>1. SUFFICES ASSUME n + 1 <= Len(b) PROVE h[Len(a) + (n+1)] = whole(n+1)
        OBVIOUS
      <4>2. n \in Nat /\ (n # 0 => h[Len(a) + n] = whole(n))
        BY <4>1
      <4> HIDE DEF R
      <4>3. PICK i \in 1..Len(b) : i = n + 1
        BY <4>1, <4>2
      <4>j. Len(a) + i \in 1..Len(c) /\ Len(a) + i # 1 /\ (Len(a) + i) - 1 = Len(a) + n
        BY <1>1, <1>5, <4>2, <4>3
      <4>c. ~(Len(a) + i <= Len(a)) /\ (Len(a) + i) - Len(a) = i
        BY <1>1, <4>2, <4>3
      <4>4. PICK j \in 1..Len(c) : /\ j = Len(a) + i /\ j # 1 /\ j - 1 = Len(a) + n /\ c[j] = b[i]
        BY <1>1, <4>j, <4>c
      <4>5. h[j] = IF j = 1 THEN c[j] ELSE h[j-1] \o c[j]
        BY <2>3
      <4>6. g[i] = IF i = 1 THEN b[i] ELSE g[i-1] \o b[i]
        BY <2>2
      <4>7. h[j] = h[Len(a) + n] \o b[i]
        BY <4>4, <4>5
      <4>8. h[j] = f[Len(a)] \o g[i]
        <5>1. CASE n = 0
          <6>1. Len(a) + n = Len(a) /\ i = 1
            BY <1>1, <4>3, <5>1
          <6> QED BY <2>5, <4>6, <4>7, <6>1
        <5>2. CASE n # 0
          <6>1. i # 1 /\ i - 1 = n /\ n \in 1..Len(b)
            BY <4>2, <4>3, <5>2
          <6>2. g[i] = g[n] \o b[i]
            BY <4>6, <6>1
          <6>3. h[j] = (f[Len(a)] \o g[n]) \o b[i]
            BY <4>2, <4>7, <5>2 DEF whole
          <6>4. /\ f[Len(a)] \in Seq(T)
                /\ g[n] \in Seq(T)
                /\ b[i] \in Seq(T)
            <7>1. f[Len(a)] \in Seq(T)
              <8>1. Len(a) \in 1..Len(a)
                BY <1>1, <1>5
              <8> QED BY <2>1, <8>1
            <7>2. g[n] \in Seq(T)
              BY <2>2, <6>1
            <7> QED BY <7>1, <7>2
          <6>5. (f[Len(a)] \o g[n]) \o b[i] = f[Len(a)] \o (g[n] \o b[i])
            <7>1. Associative(T)
              BY Associates, Zenon
            <7>2. \A x, y, z \in Seq(T) : (x \o y) \o z = x \o (y \o z)
              BY <7>1, Zenon DEF Associative
            <7> HIDE DEF c
            <7> QED BY <6>4, <7>2, Zenon
          <6> QED BY <6>2, <6>3, <6>5, Zenon
        <5> QED BY <5>1, <5>2
      <4> QED BY <4>3, <4>4, <4>8 DEF whole
    <3>3. R \in SUBSET Nat
      OBVIOUS
    <3> HIDE DEF R
    <3> QED BY <3>1, <3>2, <3>3, ByInduction
  <2> HIDE DEF R
  <2>7. h[Len(a) + Len(b)] = f[Len(a)] \o g[Len(b)]
    <3>1. Len(b) \in R
      BY <1>1, <2>6
    <3>2. h[Len(a) + Len(b)] = whole(Len(b))
      BY <1>5, <3>1 DEF R
    <3> QED BY <3>2 DEF whole
  <2>8. h[Len(c)] = f[Len(a)] \o g[Len(b)]
    BY <1>1, <2>7
  <2> QED BY <2>1, <2>2, <2>3, <2>8, Zenon DEF c
<1> QED BY <1>1, <1>3, <1>4, <1>5

(***************************************************************************)
(* Texts whose placeholders ask, in order, for given values                *)
(***************************************************************************)
IsSeq(s) == s \in Seq(Range(s))
Matched(text, vals) == IsSeq(text) /\ Meant(text) = vals

LEMMA OfType ==
    ASSUME NEW S, NEW s \in Seq(S)
    PROVE  IsSeq(s)
<1>1. DOMAIN s = 1..Len(s) /\ Len(s) \in Nat /\ s = [i \in 1..Len(s) |-> s[i]]
  OBVIOUS
<1>2. \A i \in 1..Len(s) : s[i] \in Range(s)
  BY <1>1 DEF Range
<1> HIDE DEF Range
<1> QED BY <1>1, <1>2 DEF IsSeq

LEMMA SameSeq ==
    ASSUME NEW S, NEW u \in Seq(S), NEW w \in Seq(S), Len(u) = Len(w),
           \A i \in 1..Len(u) : u[i] = w[i]
    PROVE  u = w
<1>1. u = [i \in 1..Len(u) |-> u[i]] /\ w = [i \in 1..Len(w) |-> w[i]]
  OBVIOUS
<1> QED BY <1>1

LEMMA SeqJoins ==
    ASSUME NEW a, NEW b, IsSeq(a), IsSeq(b)
    PROVE  IsSeq(a \o b)
<1> DEFINE S == Range(a) \cup Range(b)
<1>1. a \in Seq(S) /\ b \in Seq(S)
  BY DEF IsSeq, Range
<1> HIDE DEF S
<1>2. a \o b \in Seq(S)
  BY <1>1
<1> QED BY <1>2, OfType

\* What the placeholders of a text ask for, each by itself.
Asking(text) == [i \in DOMAIN text |-> Wanted(text[i])]

LEMMA AskingType ==
    ASSUME NEW S, NEW text \in Seq(S)
    PROVE  Asking(text) \in Seq(Seq({t.v : t \in S}))
<1> DEFINE T == {t.v : t \in S}
<1>1. ASSUME NEW i \in DOMAIN text
      PROVE  Wanted(text[i]) \in Seq(T)
  <2>1. text[i].v \in T
    OBVIOUS
  <2> HIDE DEF T
  <2>2. CASE text[i].t = "?"
    <3>1. Wanted(text[i]) = <<text[i].v>>
      BY <2>2 DEF Wanted
    <3> QED BY <2>1, <3>1
  <2>3. CASE text[i].t # "?"
    <3>1. Wanted(text[i]) = <<>>
      BY <2>3 DEF Wanted
    <3> QED BY <3>1
  <2> QED BY <2>2, <2>3
<1> HIDE DEF T
<1>2. DOMAIN text = 1..Len(text) /\ Len(text) \in Nat
  OBVIOUS
<1>3. Asking(text) \in Seq(Seq(T))
  BY <1>1, <1>2 DEF Asking
<1> QED BY <1>3 DEF T

LEMMA MeantType ==
    ASSUME NEW S, NEW text \in Seq(S)
    PROVE  Meant(text) \in Seq({t.v : t \in S})
<1>1. Meant(text) = FlattenSeq(Asking(text))
  BY Zenon DEF Meant, Asking
<1>2. Asking(text) \in Seq(Seq({t.v : t \in S}))
  BY AskingType
<1>3. FlattenSeq(Asking(text)) \in Seq({t.v : t \in S})
  BY <1>2, FlatType
<1> QED BY <1>1, <1>3

\* Two texts in a row ask for what the first asks for and then the second.
LEMMA MeantJoins ==
    ASSUME NEW a, NEW b, IsSeq(a), IsSeq(b)
    PROVE  Meant(a \o b) = Meant(a) \o Meant(b)
<1> DEFINE S == Range(a) \cup Range(b)
           T == {t.v : t \in S}
<1>1. a \in Seq(S) /\ b \in Seq(S)
  BY DEF IsSeq, Range
<1> HIDE DEF S
<1>2. Asking(a) \in Seq(Seq(T))
  BY <1>1, AskingType
<1>3. Asking(b) \in Seq(Seq(T))
  BY <1>1, AskingType
<1>4. Asking(a \o b) = Asking(a) \o Asking(b)
  <2>1. a \o b \in Seq(S)
    BY <1>1
  <2>2. Asking(a \o b) \in Seq(Seq(T))
    BY <2>1, AskingType
  <2> HIDE DEF T
  <2>3. /\ Len(a \o b) = Len(a) + Len(b) /\ Len(a) \in Nat /\ Len(b) \in Nat
        /\ DOMAIN (a \o b) = 1..(Len(a) + Len(b)) /\ DOMAIN a = 1..Len(a) /\ DOMAIN b = 1..Len(b)
        /\ \A i \in 1..(Len(a) + Len(b)) : (a \o b)[i] = IF i <= Len(a) THEN a[i] ELSE b[i - Len(a)]
    BY <1>1
  <2>4. Len(Asking(a)) = Len(a) /\ Len(Asking(b)) = Len(b) /\ Len(Asking(a \o b)) = Len(a) + Len(b)
    BY <1>2, <1>3, <2>2, <2>3 DEF Asking
  <2>5. ASSUME NEW i \in 1..(Len(a) + Len(b))
        PROVE  Asking(a \o b)[i] = (Asking(a) \o Asking(b))[i]
    <3>1. (Asking(a) \o Asking(b))[i] = IF i <= Len(a) THEN Asking(a)[i] ELSE Asking(b)[i - Len(a)]
      BY <1>2, <1>3, <2>3, <2>4
    <3>2. Asking(a \o b)[i] = Wanted((a \o b)[i])
      BY <2>3 DEF Asking
    <3>3. CASE i <= Len(a)
      <4>1. i \in DOMAIN a
        BY <2>3, <3>3
      <4>2. Asking(a)[i] = Wanted(a[i])
        BY <4>1 DEF Asking
      <4> QED BY <2>3, <3>1, <3>2, <3>3, <4>2
    <3>4. CASE ~(i <= Len(a))
      <4>1. i - Len(a) \in DOMAIN b
        BY <2>3, <3>4
      <4>2. Asking(b)[i - Len(a)] = Wanted(b[i - Len(a)])
        BY <4>1 DEF Asking
      <4> QED BY <2>3, <3>1, <3>2, <3>4, <4>2
    <3> QED BY <3>3, <3>4
  <2>6. Asking(a) \o Asking(b) \in Seq(Seq(T)) /\ Len(Asking(a) \o Asking(b)) = Len(a) + Len(b)
    <3>1. PICK Q : Q = Seq(T)
      OBVIOUS
    <3>2. PICK x \in Seq(Q) : x = Asking(a)
      BY <1>2, <3>1
    <3>3. PICK y \in Seq(Q) : y = Asking(b)
      BY <1>3, <3>1
    <3>4. x \o y \in Seq(Q) /\ Len(x \o y) = Len(x) + Len(y)
      OBVIOUS
    <3> QED BY <2>4, <3>1, <3>2, <3>3, <3>4
  <2>7. PICK u \in Seq(Seq(T)) : u = Asking(a \o b)
    BY <2>2
  <2>8. PICK w \in Seq(Seq(T)) : w = Asking(a) \o Asking(b)
    BY <2>6
  <2>9. Len(u) = Len(w) /\ \A i \in 1..Len(u) : u[i] = w[i]
    BY <2>4, <2>5, <2>6, <2>7, <2>8
  <2>10. u = w
    <3>1. PICK Q : Q = Seq(T)
      OBVIOUS
    <3>2. u \in Seq(Q)
      BY <3>1
    <3>3. w \in Seq(Q)
      BY <3>1
    <3>4. Len(u) = Len(w)
      BY <2>9
    <3>5. \A i \in 1..Len(u) : u[i] = w[i]
      BY <2>9
    <3> QED BY <3>2, <3>3, <3>4, <3>5, SameSeq
  <2> QED BY <2>7, <2>8, <2>10
<1>5. FlattenSeq(Asking(a) \o Asking(b)) = FlattenSeq(Asking(a)) \o FlattenSeq(Asking(b))
  <2> HIDE DEF T
  <2> QED BY <1>2, <1>3, FlatJoin
<1>6. /\ Meant(a) = FlattenSeq(Asking(a)) /\ Meant(b) = FlattenSeq(Asking(b))
      /\ Meant(a \o b) = FlattenSeq(Asking(a \o b))
  BY Zenon DEF Meant, Asking
<1> QED BY <1>4, <1>5, <1>6, Zenon

LEMMA Nothing == Matched(<<>>, <<>>)
<1>1. PICK none : none = <<>>
  OBVIOUS
<1>2. none \in Seq({}) /\ Len(none) = 0
  BY <1>1
<1>3. Asking(none) = none
  BY <1>1 DEF Asking
<1>4. FlattenSeq(none) = none
  BY <1>1, FlatNone
<1>5. Meant(none) = none
  BY <1>3, <1>4, Zenon DEF Meant, Asking
<1>6. IsSeq(none)
  BY <1>2, OfType
<1> QED BY <1>1, <1>5, <1>6 DEF Matched

LEMMA OneToken ==
    ASSUME NEW token
    PROVE  Matched(<<token>>, Wanted(token))
<1>1. PICK text : text = <<token>>
  OBVIOUS
<1>2. text \in Seq({token}) /\ Len(text) = 1 /\ text[1] = token
  BY <1>1
<1>3. PICK w : w = Wanted(token)
  OBVIOUS
<1>4. Asking(text) = <<w>>
  BY <1>1, <1>3 DEF Asking
<1>5. w \in Seq({token.v})
  <2>1. CASE token.t = "?"
    <3>1. w = <<token.v>>
      BY <1>3, <2>1 DEF Wanted
    <3> QED BY <3>1
  <2>2. CASE token.t # "?"
    <3>1. w = <<>>
      BY <1>3, <2>2 DEF Wanted
    <3> QED BY <3>1
  <2> QED BY <2>1, <2>2
<1>6. FlattenSeq(<<w>>) = w
  BY <1>5, FlatOne
<1>7. Meant(text) = w
  BY <1>4, <1>6, Zenon DEF Meant, Asking
<1>8. IsSeq(text)
  BY <1>2, OfType
<1> QED BY <1>1, <1>3, <1>7, <1>8 DEF Matched

\* A token that is no placeholder asks for nothing.
LEMMA OneWord ==
    ASSUME NEW token, token.t # "?"
    PROVE  Matched(<<token>>, <<>>)
<1>1. Wanted(token) = <<>>
  BY DEF Wanted
<1> QED BY <1>1, OneToken, Zenon

LEMMA MatchedJoin ==
    ASSUME NEW a, NEW x, NEW b, NEW y, Matched(a, x), Matched(b, y)
    PROVE  Matched(a \o b, x \o y)
<1>1. IsSeq(a) /\ IsSeq(b) /\ Meant(a) = x /\ Meant(b) = y
  BY DEF Matched
<1>2. IsSeq(a \o b)
  BY <1>1, SeqJoins
<1>3. Meant(a \o b) = Meant(a) \o Meant(b)
  BY <1>1, MeantJoins
<1> QED BY <1>1, <1>2, <1>3, Zenon DEF Matched

LEMMA MatchedSeq ==
    ASSUME NEW a, NEW x, Matched(a, x)
    PROVE  IsSeq(x)
<1>1. a \in Seq(Range(a)) /\ Meant(a) = x
  BY DEF Matched, IsSeq
<1>2. x \in Seq({t.v : t \in Range(a)})
  BY <1>1, MeantType
<1> QED BY <1>2, OfType

LEMMA WithNothing ==
    ASSUME NEW x, IsSeq(x)
    PROVE  x \o <<>> = x /\ <<>> \o x = x
BY DEF IsSeq

\* Text that asks for nothing, after another and before it.
LEMMA PlainAfter ==
    ASSUME NEW a, NEW x, NEW b, Matched(a, x), Matched(b, <<>>)
    PROVE  Matched(a \o b, x)
<1>1. Matched(a \o b, x \o <<>>)
  BY MatchedJoin
<1>2. IsSeq(x)
  BY MatchedSeq
<1>3. x \o <<>> = x
  BY <1>2, WithNothing
<1> QED BY <1>1, <1>3

LEMMA PlainBefore ==
    ASSUME NEW a, NEW x, NEW b, Matched(a, x), Matched(b, <<>>)
    PROVE  Matched(b \o a, x)
<1>1. Matched(b \o a, <<>> \o x)
  BY MatchedJoin
<1>2. IsSeq(x)
  BY MatchedSeq
<1>3. <<>> \o x = x
  BY <1>2, WithNothing
<1> QED BY <1>1, <1>3

Listed(s, n) == s = [i \in 1..n |-> s[i]]

LEMMA ListedSeqs ==
    ASSUME NEW n \in Nat, NEW ss, Listed(ss, n), \A i \in 1..n : IsSeq(ss[i])
    PROVE  /\ Len(ss) = n
           /\ \E T : ss \in Seq(Seq(T))
<1> DEFINE T == UNION {Range(ss[i]) : i \in 1..n}
<1>1. ASSUME NEW i \in 1..n
      PROVE  ss[i] \in Seq(T)
  <2>1. ss[i] \in Seq(Range(ss[i]))
    BY DEF IsSeq
  <2>2. Range(ss[i]) \subseteq T
    OBVIOUS
  <2> HIDE DEF T
  <2>3. PICK r : r = Range(ss[i])
    OBVIOUS
  <2>4. ss[i] \in Seq(r) /\ r \subseteq T
    BY <2>1, <2>2, <2>3
  <2> QED BY <2>4
<1> HIDE DEF T
<1>2. PICK Q : Q = Seq(T)
  OBVIOUS
<1>3. ss \in Seq(Q) /\ Len(ss) = n
  BY <1>1, <1>2 DEF Listed
<1> QED BY <1>2, <1>3

\* Matched texts make a text that asks for what they ask for, one after another.
LEMMA MatchedFlat ==
    ASSUME NEW n \in Nat, NEW ts, NEW vs, Listed(ts, n), Listed(vs, n),
           \A i \in 1..n : Matched(ts[i], vs[i])
    PROVE  Matched(FlattenSeq(ts), FlattenSeq(vs))
<1>1. ASSUME NEW i \in 1..n
      PROVE  IsSeq(ts[i]) /\ IsSeq(vs[i])
  <2>1. Matched(ts[i], vs[i])
    OBVIOUS
  <2>2. IsSeq(vs[i])
    BY <2>1, MatchedSeq
  <2> QED BY <2>1, <2>2 DEF Matched
<1>2. Len(ts) = n /\ \E T : ts \in Seq(Seq(T))
  BY <1>1, ListedSeqs
<1>3. Len(vs) = n /\ \E T : vs \in Seq(Seq(T))
  BY <1>1, ListedSeqs
<1>4. CASE n = 0
  <2>1. ts = <<>> /\ vs = <<>>
    BY <1>2, <1>3, <1>4
  <2> QED BY <2>1, FlatNone, Nothing, Zenon
<1>5. CASE n # 0
  <2>1. PICK T : ts \in Seq(Seq(T))
    BY <1>2
  <2>2. PICK V : vs \in Seq(Seq(V))
    BY <1>3
  <2>3. Len(ts) # 0
    BY <1>2, <1>5
  <2>4. Len(vs) # 0
    BY <1>3, <1>5
  <2>5. PICK f \in [1..Len(ts) -> Seq(T)] :
            /\ \A i \in 1..Len(ts) : f[i] = IF i = 1 THEN ts[i] ELSE f[i-1] \o ts[i]
            /\ FlattenSeq(ts) = f[Len(ts)]
    BY <2>1, <2>3, FlatIs
  <2>6. PICK g \in [1..Len(vs) -> Seq(V)] :
            /\ \A i \in 1..Len(vs) : g[i] = IF i = 1 THEN vs[i] ELSE g[i-1] \o vs[i]
            /\ FlattenSeq(vs) = g[Len(vs)]
    BY <2>2, <2>4, FlatIs
  <2> DEFINE S == {k \in Nat : k # 0 /\ k <= n => Matched(f[k], g[k])}
  <2>7. 0 \in S
    OBVIOUS
  <2>8. ASSUME NEW k \in S PROVE k + 1 \in S
    <3>1. SUFFICES ASSUME k + 1 <= n PROVE Matched(f[k+1], g[k+1])
      OBVIOUS
    <3>2. k \in Nat /\ (k # 0 => Matched(f[k], g[k]))
      BY <3>1
    <3> HIDE DEF S
    <3>3. PICK i \in 1..n : i = k + 1
      BY <3>1, <3>2
    <3>4. Matched(ts[i], vs[i])
      OBVIOUS
    <3>5. CASE k = 0
      <4>1. i = 1
        BY <3>3, <3>5
      <4>2. f[i] = ts[i] /\ g[i] = vs[i]
        BY <1>2, <1>3, <2>5, <2>6, <4>1
      <4> QED BY <3>3, <3>4, <4>2
    <3>6. CASE k # 0
      <4>1. i # 1 /\ i - 1 = k
        BY <3>2, <3>3, <3>6
      <4>2. f[i] = f[k] \o ts[i]
        BY <1>2, <2>5, <4>1
      <4>3. g[i] = g[k] \o vs[i]
        BY <1>3, <2>6, <4>1
      <4>4. Matched(f[k], g[k])
        BY <3>2, <3>6
      <4>5. Matched(f[k] \o ts[i], g[k] \o vs[i])
        BY <3>4, <4>4, MatchedJoin
      <4> QED BY <3>3, <4>2, <4>3, <4>5
    <3> QED BY <3>5, <3>6
  <2>9. S \in SUBSET Nat
    OBVIOUS
  <2> HIDE DEF S
  <2>10. n \in S
    BY <2>7, <2>8, <2>9, ByInduction
  <2>11. Matched(f[n], g[n])
    BY <1>5, <2>10 DEF S
  <2> QED BY <1>2, <1>3, <2>5, <2>6, <2>11
<1> QED BY <1>4, <1>5

\* The same of texts with a token between them that asks for nothing.
LEMMA MatchedJoining ==
    ASSUME NEW n \in Nat, NEW ts, NEW vs, Listed(ts, n), Listed(vs, n),
           \A i \in 1..n : Matched(ts[i], vs[i]), NEW sep, sep.t # "?"
    PROVE  Matched(Joining(ts, sep), FlattenSeq(vs))
<1> DEFINE us == [i \in 1..n |-> IF i = 1 THEN ts[i] ELSE <<sep>> \o ts[i]]
<1>1. ASSUME NEW i \in 1..n
      PROVE  Matched(us[i], vs[i])
  <2>1. Matched(ts[i], vs[i])
    OBVIOUS
  <2>2. Matched(<<sep>>, <<>>)
    BY OneWord
  <2>3. Matched(<<sep>> \o ts[i], vs[i])
    BY <2>1, <2>2, PlainBefore
  <2>4. us[i] = IF i = 1 THEN ts[i] ELSE <<sep>> \o ts[i]
    BY Zenon
  <2> HIDE DEF us
  <2> QED BY <2>1, <2>3, <2>4
<1>2. DOMAIN ts = 1..n
  BY DEF Listed
<1>3. Joining(ts, sep) = FlattenSeq(us)
  BY <1>2, Zenon DEF Joining
<1>4. Listed(us, n)
  BY Zenon DEF Listed
<1> HIDE DEF us
<1>5. Matched(FlattenSeq(us), FlattenSeq(vs))
  BY <1>1, <1>4, MatchedFlat
<1> QED BY <1>3, <1>5

(***************************************************************************)
(* Expressions whose values are those of their placeholders, in order      *)
(***************************************************************************)
Agrees(e) == Matched(e.sql, e.values)
AllAgree(es) == \E n \in Nat : Listed(es, n) /\ \A i \in 1..n : Agrees(es[i])
\* An argument is a value, a column, or an expression that agrees.
Argument(arg) == \/ arg.a = "value"
                 \/ arg.a = "column"
                 \/ arg.a = "expression" /\ Agrees(arg.e)
Arguments(args) == \E n \in Nat : Listed(args, n) /\ \A i \in 1..n : Argument(args[i])

LEMMA Agreeing ==
    ASSUME NEW text, NEW vals, Matched(text, vals)
    PROVE  Agrees(Expression(text, vals))
BY DEF Agrees, Expression

LEMMA Marks ==
    /\ \A f : Matched(<<Open(f)>>, <<>>)
    /\ \A o : Matched(<<Op(o)>>, <<>>)
    /\ \A s : Matched(<<Sep(s)>>, <<>>)
    /\ \A c : Matched(<<Col(c)>>, <<>>)
    /\ Matched(<<Close>>, <<>>)
<1>1. ASSUME NEW f PROVE Matched(<<Open(f)>>, <<>>)
  <2>1. Open(f).t # "?"
    BY DEF Open
  <2> QED BY <2>1, OneWord
<1>2. ASSUME NEW o PROVE Matched(<<Op(o)>>, <<>>)
  <2>1. Op(o).t # "?"
    BY DEF Op
  <2> QED BY <2>1, OneWord
<1>3. ASSUME NEW s PROVE Matched(<<Sep(s)>>, <<>>)
  <2>1. Sep(s).t # "?"
    BY DEF Sep
  <2> QED BY <2>1, OneWord
<1>4. ASSUME NEW c PROVE Matched(<<Col(c)>>, <<>>)
  <2>1. Col(c).t # "?"
    BY DEF Col
  <2> QED BY <2>1, OneWord
<1>5. Matched(<<Close>>, <<>>)
  <2>1. Close.t # "?"
    BY DEF Close, K
  <2> QED BY <2>1, OneWord
<1> QED BY <1>1, <1>2, <1>3, <1>4, <1>5

LEMMA Keyword ==
    ASSUME NEW w, w # "?"
    PROVE  Matched(<<K(w)>>, <<>>)
<1>1. K(w).t # "?"
  BY DEF K
<1> QED BY <1>1, OneWord

LEMMA Placeholder ==
    ASSUME NEW v
    PROVE  Matched(<<Hole(v)>>, <<v>>)
<1>1. Wanted(Hole(v)) = <<v>>
  BY DEF Wanted, Hole
<1> QED BY <1>1, OneToken, Zenon

LEMMA ArgumentAgrees ==
    ASSUME NEW arg, Argument(arg)
    PROVE  Agrees(toSqlValue(arg))
<1>1. CASE arg.a = "value"
  <2>1. toSqlValue(arg) = Expression(<<Hole(arg.v)>>, <<arg.v>>)
    BY <1>1 DEF toSqlValue
  <2>2. Matched(<<Hole(arg.v)>>, <<arg.v>>)
    BY Placeholder
  <2> QED BY <2>1, <2>2, Agreeing
<1>2. CASE arg.a = "column"
  <2>1. toSqlValue(arg) = Expression(<<Col(arg.c)>>, <<>>)
    BY <1>2 DEF toSqlValue
  <2>2. Matched(<<Col(arg.c)>>, <<>>)
    BY Marks
  <2> QED BY <2>1, <2>2, Agreeing
<1>3. CASE arg.a = "expression" /\ Agrees(arg.e)
  <2>1. toSqlValue(arg) = arg.e
    BY <1>3 DEF toSqlValue
  <2> QED BY <1>3, <2>1
<1> QED BY <1>1, <1>2, <1>3 DEF Argument

LEMMA SqlsMatched ==
    ASSUME NEW es, AllAgree(es)
    PROVE  /\ Matched(FlattenSeq(Sqls(es)), AllValues(es))
           /\ \A sep : sep.t # "?" => Matched(Joining(Sqls(es), sep), AllValues(es))
<1>1. PICK n \in Nat : Listed(es, n) /\ \A i \in 1..n : Agrees(es[i])
  BY DEF AllAgree
<1> DEFINE vs == [i \in DOMAIN es |-> es[i].values]
<1>2. DOMAIN es = 1..n
  BY <1>1 DEF Listed
<1>3. Listed(Sqls(es), n)
  BY <1>2 DEF Listed, Sqls
<1>4. Listed(vs, n)
  BY <1>2 DEF Listed
<1>5. ASSUME NEW i \in 1..n
      PROVE  Matched(Sqls(es)[i], vs[i])
  <2>1. Matched(es[i].sql, es[i].values)
    BY <1>1 DEF Agrees
  <2>2. Sqls(es)[i] = es[i].sql /\ vs[i] = es[i].values
    BY <1>2 DEF Sqls
  <2> QED BY <2>1, <2>2
<1>6. AllValues(es) = FlattenSeq(vs)
  BY Zenon DEF AllValues
<1> HIDE DEF vs
<1>7. Matched(FlattenSeq(Sqls(es)), FlattenSeq(vs))
  BY <1>3, <1>4, <1>5, MatchedFlat
<1>8. ASSUME NEW sep, sep.t # "?"
      PROVE  Matched(Joining(Sqls(es), sep), FlattenSeq(vs))
  BY <1>3, <1>4, <1>5, <1>8, MatchedJoining
<1> QED BY <1>6, <1>7, <1>8

\* Text between brackets.
LEMMA Bracketed ==
    ASSUME NEW f, NEW text, NEW vals, Matched(text, vals)
    PROVE  Matched(<<Open(f)>> \o text \o <<Close>>, vals)
<1>1. Matched(<<Open(f)>>, <<>>) /\ Matched(<<Close>>, <<>>)
  BY Marks
<1>2. Matched(<<Open(f)>> \o text, vals)
  BY <1>1, PlainBefore
<1> QED BY <1>1, <1>2, PlainAfter

LEMMA TwoOfThem ==
    ASSUME NEW a, NEW b
    PROVE  <<a, b>> = <<a>> \o <<b>>
<1>1. PICK T : T = {a, b}
  OBVIOUS
<1>2. PICK s : s = <<a, b>>
  OBVIOUS
<1>3. PICK x : x = <<a>>
  OBVIOUS
<1>4. PICK y : y = <<b>>
  OBVIOUS
<1>5. s \in Seq(T) /\ Len(s) = 2 /\ s[1] = a /\ s[2] = b
  BY <1>1, <1>2
<1>6. x \in Seq(T) /\ Len(x) = 1 /\ x[1] = a
  BY <1>1, <1>3
<1>7. y \in Seq(T) /\ Len(y) = 1 /\ y[1] = b
  BY <1>1, <1>4
<1>8. PICK u : u = x \o y
  OBVIOUS
<1>9. u \in Seq(T) /\ Len(u) = 2 /\ u[1] = a /\ u[2] = b
  <2>1. x \in Seq(T)
    BY <1>6
  <2>2. y \in Seq(T)
    BY <1>7
  <2>3. /\ x \o y \in Seq(T) /\ Len(x \o y) = Len(x) + Len(y)
        /\ \A i \in 1..(Len(x) + Len(y)) : (x \o y)[i] = IF i <= Len(x) THEN x[i] ELSE y[i - Len(x)]
    BY <2>1, <2>2, Joined
  <2>4. /\ u \in Seq(T) /\ Len(u) = 2
        /\ \A i \in 1..2 : u[i] = IF i <= 1 THEN x[i] ELSE y[i - 1]
    BY <1>6, <1>7, <1>8, <2>3
  <2> HIDE <1>8
  <2> QED BY <1>6, <1>7, <2>4
<1>10. s \in Seq(T) /\ u \in Seq(T) /\ Len(s) = Len(u)
  BY <1>5, <1>9
<1>11. \A i \in 1..Len(s) : s[i] = u[i]
  BY <1>5, <1>9
<1>12. s = u
  BY <1>10, <1>11, SameSeq
<1> QED BY <1>2, <1>3, <1>4, <1>8, <1>12

LEMMA TwoWords ==
    ASSUME NEW a, NEW b, Matched(<<a>>, <<>>), Matched(<<b>>, <<>>)
    PROVE  Matched(<<a, b>>, <<>>)
<1>1. <<a, b>> = <<a>> \o <<b>>
  BY TwoOfThem
<1>2. Matched(<<a>> \o <<b>>, <<>>)
  BY PlainAfter
<1> QED BY <1>1, <1>2, Zenon

LEMMA OfOne ==
    ASSUME NEW e, Agrees(e)
    PROVE  AllAgree(<<e>>)
<1>1. Listed(<<e>>, 1) /\ \A i \in 1..1 : <<e>>[i] = e
  BY DEF Listed
<1> QED BY <1>1 DEF AllAgree

LEMMA OfTwo ==
    ASSUME NEW d, NEW e, Agrees(d), Agrees(e)
    PROVE  AllAgree(<<d, e>>)
<1>1. Listed(<<d, e>>, 2) /\ \A i \in 1..2 : <<d, e>>[i] = d \/ <<d, e>>[i] = e
  BY DEF Listed
<1> QED BY <1>1 DEF AllAgree

LEMMA BinaryAgrees ==
    ASSUME NEW left, NEW operator, NEW right, Argument(left), Argument(right)
    PROVE  Agrees(createBinaryExpression(left, operator, right))
<1>1. PICK l : l = toSqlValue(left) /\ Agrees(l)
  BY ArgumentAgrees
<1>2. PICK r : r = toSqlValue(right) /\ Agrees(r)
  BY ArgumentAgrees
<1>3. Matched(l.sql, l.values) /\ Matched(r.sql, r.values)
  BY <1>1, <1>2 DEF Agrees
<1>4. Matched(<<Open("")>>, <<>>) /\ Matched(<<Op(operator)>>, <<>>) /\ Matched(<<Close>>, <<>>)
  BY Marks
<1>5. Matched(<<Open("")>> \o l.sql, l.values)
  BY <1>3, <1>4, PlainBefore
<1>6. Matched(<<Open("")>> \o l.sql \o <<Op(operator)>>, l.values)
  BY <1>4, <1>5, PlainAfter
<1>7. Matched(<<Open("")>> \o l.sql \o <<Op(operator)>> \o r.sql, l.values \o r.values)
  BY <1>3, <1>6, MatchedJoin
<1>8. Matched(<<Open("")>> \o l.sql \o <<Op(operator)>> \o r.sql \o <<Close>>, l.values \o r.values)
  BY <1>4, <1>7, PlainAfter
<1>9. createBinaryExpression(left, operator, right)
        = Expression(<<Open("")>> \o l.sql \o <<Op(operator)>> \o r.sql \o <<Close>>,
                     l.values \o r.values)
  BY <1>1, <1>2, Zenon DEF createBinaryExpression
<1> QED BY <1>8, <1>9, Agreeing

LEMMA CompareAgrees ==
    ASSUME NEW name, NEW left, NEW right, Argument(left), Argument(right)
    PROVE  Agrees(compare(name, left, right))
BY BinaryAgrees, Zenon DEF compare

LEMMA AndAgrees ==
    ASSUME NEW conditions, AllAgree(conditions)
    PROVE  Agrees(and(conditions))
<1>1. CASE conditions = <<>>
  <2>1. Matched(<<K("TRUE")>>, <<>>)
    BY Keyword
  <2> QED BY <1>1, <2>1, Agreeing, Zenon DEF and
<1>2. CASE conditions # <<>> /\ Len(conditions) = 1
  <2>1. PICK n \in Nat : Listed(conditions, n) /\ \A i \in 1..n : Agrees(conditions[i])
    BY DEF AllAgree
  <2>2. 1 \in 1..n
    BY <1>2, <2>1 DEF Listed
  <2> QED BY <1>2, <2>1, <2>2, Zenon DEF and
<1>3. CASE conditions # <<>> /\ Len(conditions) # 1
  <2>1. K("AND").t # "?"
    BY DEF K
  <2>2. Matched(Joining(Sqls(conditions), K("AND")), AllValues(conditions))
    BY <2>1, SqlsMatched
  <2>3. Matched(<<Open("")>> \o Joining(Sqls(conditions), K("AND")) \o <<Close>>, AllValues(conditions))
    BY <2>2, Bracketed
  <2> QED BY <1>3, <2>3, Agreeing, Zenon DEF and
<1> QED BY <1>1, <1>2, <1>3

LEMMA OrAgrees ==
    ASSUME NEW conditions, AllAgree(conditions)
    PROVE  Agrees(or(conditions))
<1>1. CASE conditions = <<>>
  <2>1. Matched(<<K("FALSE")>>, <<>>)
    BY Keyword
  <2> QED BY <1>1, <2>1, Agreeing, Zenon DEF or
<1>2. CASE conditions # <<>> /\ Len(conditions) = 1
  <2>1. PICK n \in Nat : Listed(conditions, n) /\ \A i \in 1..n : Agrees(conditions[i])
    BY DEF AllAgree
  <2>2. 1 \in 1..n
    BY <1>2, <2>1 DEF Listed
  <2> QED BY <1>2, <2>1, <2>2, Zenon DEF or
<1>3. CASE conditions # <<>> /\ Len(conditions) # 1
  <2>1. K("OR").t # "?"
    BY DEF K
  <2>2. Matched(Joining(Sqls(conditions), K("OR")), AllValues(conditions))
    BY <2>1, SqlsMatched
  <2>3. Matched(<<Open("")>> \o Joining(Sqls(conditions), K("OR")) \o <<Close>>, AllValues(conditions))
    BY <2>2, Bracketed
  <2> QED BY <1>3, <2>3, Agreeing, Zenon DEF or
<1> QED BY <1>1, <1>2, <1>3

LEMMA NotAgrees ==
    ASSUME NEW condition, Agrees(condition)
    PROVE  Agrees(not(condition))
<1>1. Matched(<<K("NOT")>>, <<>>)
  BY Keyword
<1>2. Matched(<<Open("")>>, <<>>) /\ Matched(<<Close>>, <<>>)
  BY Marks
<1>3. Matched(<<K("NOT"), Open("")>>, <<>>)
  BY <1>1, <1>2, TwoWords
<1>4. Matched(condition.sql, condition.values)
  BY DEF Agrees
<1>5. Matched(<<K("NOT"), Open("")>> \o condition.sql, condition.values)
  BY <1>3, <1>4, PlainBefore
<1>6. Matched(<<K("NOT"), Open("")>> \o condition.sql \o <<Close>>, condition.values)
  BY <1>2, <1>5, PlainAfter
<1> QED BY <1>6, Agreeing, Zenon DEF not

LEMMA ExistsAgrees ==
    ASSUME NEW subquery, Agrees(subquery)
    PROVE  Agrees(exists(subquery)) /\ Agrees(notExists(subquery))
<1>1. Matched(subquery.sql, subquery.values)
  BY DEF Agrees
<1>2. Matched(<<K("NOT")>>, <<>>)
  BY Keyword
<1>3. Matched(<<Open("EXISTS")>>, <<>>) /\ Matched(<<Close>>, <<>>)
  BY Marks
<1>4. Matched(<<Open("EXISTS")>> \o subquery.sql \o <<Close>>, subquery.values)
  BY <1>1, Bracketed
<1>5. Matched(<<K("NOT"), Open("EXISTS")>>, <<>>)
  BY <1>2, <1>3, TwoWords
<1>6. Matched(<<K("NOT"), Open("EXISTS")>> \o subquery.sql, subquery.values)
  BY <1>1, <1>5, PlainBefore
<1>7. Matched(<<K("NOT"), Open("EXISTS")>> \o subquery.sql \o <<Close>>, subquery.values)
  BY <1>3, <1>6, PlainAfter
<1>8. Agrees(exists(subquery))
  BY <1>4, Agreeing, Zenon DEF exists
<1>9. Agrees(notExists(subquery))
  BY <1>7, Agreeing, Zenon DEF notExists
<1> QED BY <1>8, <1>9

LEMMA WithinAgrees ==
    ASSUME NEW operator, NEW column, Argument(column), NEW subquery, Agrees(subquery)
    PROVE  Agrees(Within(operator, column, subquery))
<1>1. PICK c : c = toSqlValue(column) /\ Agrees(c)
  BY ArgumentAgrees
<1>2. Matched(c.sql, c.values) /\ Matched(subquery.sql, subquery.values)
  BY <1>1 DEF Agrees
<1>3. /\ Matched(<<Open("")>>, <<>>) /\ Matched(<<Close>>, <<>>)
      /\ Matched(<<Op(operator)>>, <<>>)
  BY Marks
<1>4. Matched(<<Op(operator), Open("")>>, <<>>)
  BY <1>3, TwoWords
<1>5. Matched(<<Close, Close>>, <<>>)
  BY <1>3, TwoWords
<1>6. Matched(<<Open("")>> \o c.sql, c.values)
  BY <1>2, <1>3, PlainBefore
<1>7. Matched(<<Open("")>> \o c.sql \o <<Op(operator), Open("")>>, c.values)
  BY <1>4, <1>6, PlainAfter
<1>8. Matched(<<Open("")>> \o c.sql \o <<Op(operator), Open("")>> \o subquery.sql,
              c.values \o subquery.values)
  BY <1>2, <1>7, MatchedJoin
<1>9. Matched(<<Open("")>> \o c.sql \o <<Op(operator), Open("")>> \o subquery.sql \o <<Close, Close>>,
              c.values \o subquery.values)
  BY <1>5, <1>8, PlainAfter
<1>10. Within(operator, column, subquery)
         = Expression(<<Open("")>> \o c.sql \o <<Op(operator), Open("")>> \o subquery.sql
                        \o <<Close, Close>>, c.values \o subquery.values)
  BY <1>1, Zenon DEF Within
<1> QED BY <1>9, <1>10, Agreeing

LEMMA InSubqueryAgrees ==
    ASSUME NEW column, Argument(column), NEW subquery, Agrees(subquery)
    PROVE  Agrees(inSubquery(column, subquery)) /\ Agrees(notInSubquery(column, subquery))
BY WithinAgrees, Zenon DEF inSubquery, notInSubquery

\* The arguments' expressions agree.
LEMMA ArgumentsAgree ==
    ASSUME NEW args, Arguments(args)
    PROVE  AllAgree([i \in DOMAIN args |-> toSqlValue(args[i])])
<1>1. PICK n \in Nat : Listed(args, n) /\ \A i \in 1..n : Argument(args[i])
  BY DEF Arguments
<1>2. PICK es : es = [i \in DOMAIN args |-> toSqlValue(args[i])]
  OBVIOUS
<1>3. DOMAIN args = 1..n
  BY <1>1 DEF Listed
<1>4. Listed(es, n) /\ \A i \in 1..n : es[i] = toSqlValue(args[i])
  BY <1>2, <1>3 DEF Listed
<1>5. ASSUME NEW i \in 1..n
      PROVE  Agrees(es[i])
  <2>1. Argument(args[i])
    BY <1>1
  <2> QED BY <1>4, <2>1, ArgumentAgrees
<1>6. AllAgree(es)
  BY <1>4, <1>5 DEF AllAgree
<1> QED BY <1>2, <1>6

LEMMA FunctionAgrees ==
    ASSUME NEW name, NEW args, Arguments(args)
    PROVE  Agrees(function(name, args))
<1>1. PICK es : es = [i \in DOMAIN args |-> toSqlValue(args[i])]
  OBVIOUS
<1>2. AllAgree(es)
  BY <1>1, ArgumentsAgree
<1>3. Sep(",").t # "?"
  BY DEF Sep
<1>4. Matched(Joining(Sqls(es), Sep(",")), AllValues(es))
  BY <1>2, <1>3, SqlsMatched
<1>5. Matched(<<Open(FunctionNames[name])>> \o Joining(Sqls(es), Sep(",")) \o <<Close>>, AllValues(es))
  BY <1>4, Bracketed
<1>6. function(name, args)
        = Expression(<<Open(FunctionNames[name])>> \o Joining(Sqls(es), Sep(",")) \o <<Close>>,
                     AllValues(es))
  BY <1>1, Zenon DEF function
<1> QED BY <1>5, <1>6, Agreeing

\* A template's strings, without placeholders of their own, between its arguments.
LEMMA TemplateAgrees ==
    ASSUME NEW n \in Nat, NEW strings, Listed(strings, n), \A i \in 1..n : Matched(strings[i], <<>>),
           NEW args, \A i \in DOMAIN args : Argument(args[i])
    PROVE  Agrees(sql(strings, args))
<1> DEFINE piece(i) == IF i \in DOMAIN args THEN toSqlValue(args[i]) ELSE Expression(<<>>, <<>>)
           pieces == [i \in DOMAIN strings |-> piece(i)]
           texts == [i \in DOMAIN strings |-> strings[i] \o pieces[i].sql]
           vals == [i \in DOMAIN pieces |-> pieces[i].values]
<1>1. ASSUME NEW i
      PROVE  Agrees(piece(i))
  <2>1. CASE i \in DOMAIN args
    <3>1. Argument(args[i])
      BY <2>1
    <3>2. Agrees(toSqlValue(args[i]))
      BY <3>1, ArgumentAgrees
    <3> QED BY <2>1, <3>2
  <2>2. CASE i \notin DOMAIN args
    <3>1. Agrees(Expression(<<>>, <<>>))
      BY Nothing, Agreeing
    <3> QED BY <2>2, <3>1
  <2> QED BY <2>1, <2>2
<1>2. sql(strings, args) = Expression(FlattenSeq(texts), FlattenSeq(vals))
  BY Zenon DEF sql, AllValues
<1>3. DOMAIN strings = 1..n
  BY DEF Listed
<1> HIDE DEF piece
<1>4. \A i \in 1..n : pieces[i] = piece(i)
  BY <1>3
<1>5. DOMAIN pieces = 1..n
  BY <1>3
<1> HIDE DEF pieces
<1>6. Listed(texts, n) /\ Listed(vals, n)
  BY <1>3, <1>5 DEF Listed
<1>7. ASSUME NEW i \in 1..n
      PROVE  Matched(texts[i], vals[i])
  <2>1. Matched(pieces[i].sql, pieces[i].values)
    BY <1>1, <1>4 DEF Agrees
  <2>2. Matched(strings[i], <<>>)
    OBVIOUS
  <2>3. Matched(strings[i] \o pieces[i].sql, pieces[i].values)
    BY <2>1, <2>2, PlainBefore
  <2>4. texts[i] = strings[i] \o pieces[i].sql /\ vals[i] = pieces[i].values
    BY <1>3, <1>5
  <2> HIDE DEF texts, vals
  <2> QED BY <2>3, <2>4
<1> HIDE DEF texts, vals
<1>8. Matched(FlattenSeq(texts), FlattenSeq(vals))
  BY <1>6, <1>7, MatchedFlat
<1> QED BY <1>2, <1>8, Agreeing

WhensOf(whens) == \E n \in Nat : /\ Listed(whens, n)
                                 /\ \A i \in 1..n : /\ Argument(whens[i].condition)
                                                    /\ Argument(whens[i].result)

LEMMA WhensAgree ==
    ASSUME NEW whens, WhensOf(whens)
    PROVE  Agrees(Whens(whens))
<1> DEFINE one(w) == Expression(<<Sep("WHEN")>> \o toSqlValue(w.condition).sql \o <<Sep("THEN")>>
                                  \o toSqlValue(w.result).sql,
                                toSqlValue(w.condition).values \o toSqlValue(w.result).values)
           all == [i \in DOMAIN whens |-> one(whens[i])]
<1>1. ASSUME NEW w, Argument(w.condition), Argument(w.result)
      PROVE  Agrees(one(w))
  <2>1. PICK c : c = toSqlValue(w.condition) /\ Agrees(c)
    BY <1>1, ArgumentAgrees
  <2>2. PICK r : r = toSqlValue(w.result) /\ Agrees(r)
    BY <1>1, ArgumentAgrees
  <2>3. Matched(c.sql, c.values) /\ Matched(r.sql, r.values)
    BY <2>1, <2>2 DEF Agrees
  <2>4. Matched(<<Sep("WHEN")>>, <<>>) /\ Matched(<<Sep("THEN")>>, <<>>)
    BY Marks
  <2>5. Matched(<<Sep("WHEN")>> \o c.sql, c.values)
    BY <2>3, <2>4, PlainBefore
  <2>6. Matched(<<Sep("WHEN")>> \o c.sql \o <<Sep("THEN")>>, c.values)
    BY <2>4, <2>5, PlainAfter
  <2>7. Matched(<<Sep("WHEN")>> \o c.sql \o <<Sep("THEN")>> \o r.sql, c.values \o r.values)
    BY <2>3, <2>6, MatchedJoin
  <2>8. Agrees(Expression(<<Sep("WHEN")>> \o c.sql \o <<Sep("THEN")>> \o r.sql, c.values \o r.values))
    BY <2>7, Agreeing
  <2>9. one(w) = Expression(<<Sep("WHEN")>> \o c.sql \o <<Sep("THEN")>> \o r.sql, c.values \o r.values)
    BY <2>1, <2>2
  <2> HIDE DEF one
  <2> QED BY <2>8, <2>9
<1>2. Whens(whens) = Expression(FlattenSeq(Sqls(all)), AllValues(all))
  BY Zenon DEF Whens
<1>3. PICK n \in Nat : /\ Listed(whens, n)
                       /\ \A i \in 1..n : Argument(whens[i].condition) /\ Argument(whens[i].result)
  BY DEF WhensOf
<1> HIDE DEF one
<1>4. DOMAIN whens = 1..n
  BY <1>3 DEF Listed
<1>5. Listed(all, n) /\ \A i \in 1..n : all[i] = one(whens[i])
  BY <1>4 DEF Listed
<1>6. \A i \in 1..n : Agrees(one(whens[i]))
  BY <1>1, <1>3
<1> HIDE DEF all
<1>7. AllAgree(all)
  BY <1>5, <1>6 DEF AllAgree
<1>8. Matched(FlattenSeq(Sqls(all)), AllValues(all))
  BY <1>7, SqlsMatched
<1> QED BY <1>2, <1>8, Agreeing

\* A CASE, and the text that its END is cut off from.
Cased(case, head) ==
    case.sql = head \o <<Close>> /\ Matched(head, case.values)

LEMMA CasedAgrees ==
    ASSUME NEW case, NEW head, Cased(case, head)
    PROVE  Agrees(case)
<1>1. Matched(<<Close>>, <<>>)
  BY Marks
<1>2. Matched(head, case.values)
  BY DEF Cased
<1>3. Matched(head \o <<Close>>, case.values)
  BY <1>1, <1>2, PlainAfter
<1> QED BY <1>3 DEF Agrees, Cased

LEMMA CasedBy ==
    ASSUME NEW head, NEW vals, Matched(head, vals)
    PROVE  Cased(Expression(head \o <<Close>>, vals), head)
BY DEF Cased, Expression

LEMMA CaseWhenAgrees ==
    ASSUME NEW whens, WhensOf(whens)
    PROVE  \E head : Cased(caseWhen(whens), head)
<1>1. PICK ws : ws = Whens(whens) /\ Agrees(ws)
  BY WhensAgree
<1>2. Matched(ws.sql, ws.values) /\ Matched(<<Open("CASE")>>, <<>>)
  BY <1>1, Marks DEF Agrees
<1>3. Matched(<<Open("CASE")>> \o ws.sql, ws.values)
  BY <1>2, PlainBefore
<1>4. caseWhen(whens) = Expression(<<Open("CASE")>> \o ws.sql \o <<Close>>, ws.values)
  BY <1>1, Zenon DEF caseWhen
<1>5. Cased(caseWhen(whens), <<Open("CASE")>> \o ws.sql)
  BY <1>3, <1>4, CasedBy
<1> QED BY <1>5

LEMMA CaseExprAgrees ==
    ASSUME NEW expr, Argument(expr), NEW whens, WhensOf(whens)
    PROVE  \E head : Cased(caseExpr(expr, whens), head)
<1>1. PICK ws : ws = Whens(whens) /\ Agrees(ws)
  BY WhensAgree
<1>2. PICK e : e = toSqlValue(expr) /\ Agrees(e)
  BY ArgumentAgrees
<1>3. Matched(ws.sql, ws.values) /\ Matched(e.sql, e.values) /\ Matched(<<Open("CASE")>>, <<>>)
  BY <1>1, <1>2, Marks DEF Agrees
<1>4. Matched(<<Open("CASE")>> \o e.sql, e.values)
  BY <1>3, PlainBefore
<1>5. Matched(<<Open("CASE")>> \o e.sql \o ws.sql, e.values \o ws.values)
  BY <1>3, <1>4, MatchedJoin
<1>6. caseExpr(expr, whens)
        = Expression(<<Open("CASE")>> \o e.sql \o ws.sql \o <<Close>>, e.values \o ws.values)
  BY <1>1, <1>2, Zenon DEF caseExpr
<1>7. Cased(caseExpr(expr, whens), <<Open("CASE")>> \o e.sql \o ws.sql)
  BY <1>5, <1>6, CasedBy
<1> QED BY <1>7

LEMMA ElseAgrees ==
    ASSUME NEW case, NEW head, Cased(case, head), NEW value, Argument(value)
    PROVE  Agrees(else(case, value))
<1>1. PICK e : e = toSqlValue(value) /\ Agrees(e)
  BY ArgumentAgrees
<1>2. Matched(e.sql, e.values) /\ Matched(<<Sep("ELSE")>>, <<>>) /\ Matched(<<Close>>, <<>>)
  BY <1>1, Marks DEF Agrees
<1>3. Front(case.sql) = head
  <2>1. PICK c : c = Close
    OBVIOUS
  <2>2. head \in Seq(Range(head) \cup {c}) /\ case.sql = head \o <<c>>
    BY <2>1 DEF Cased, Matched, IsSeq
  <2>3. PICK T : T = Range(head) \cup {c}
    OBVIOUS
  <2>4. PICK u \in Seq(T) : u = SubSeq(head \o <<c>>, 1, Len(head \o <<c>>) - 1)
    BY <2>2, <2>3
  <2>5. head \in Seq(T)
    BY <2>2, <2>3
  <2>6. Len(u) = Len(head) /\ \A i \in 1..Len(u) : u[i] = head[i]
    BY <2>3, <2>4, <2>5
  <2>7. u = head
    BY <2>5, <2>6, SameSeq
  <2> QED BY <2>2, <2>4, <2>7 DEF Front
<1>4. Matched(Front(case.sql), case.values)
  BY <1>3 DEF Cased
<1>5. Matched(Front(case.sql) \o <<Sep("ELSE")>>, case.values)
  BY <1>2, <1>4, PlainAfter
<1>6. Matched(Front(case.sql) \o <<Sep("ELSE")>> \o e.sql, case.values \o e.values)
  BY <1>2, <1>5, MatchedJoin
<1>7. Matched(Front(case.sql) \o <<Sep("ELSE")>> \o e.sql \o <<Close>>, case.values \o e.values)
  BY <1>2, <1>6, PlainAfter
<1>8. else(case, value)
        = Expression(Front(case.sql) \o <<Sep("ELSE")>> \o e.sql \o <<Close>>,
                     case.values \o e.values)
  BY <1>1, Zenon DEF else
<1> QED BY <1>7, <1>8, Agreeing

(***************************************************************************)
(* Queries                                                                 *)
(***************************************************************************)
\* Texts that ask for nothing.
Silent(texts) == \E n \in Nat : Listed(texts, n) /\ \A i \in 1..n : Matched(texts[i], <<>>)
Joins(js) == \E n \in Nat : Listed(js, n) /\ \A i \in 1..n : Agrees(js[i].on)
ArraysAgree(as) == IsSeq(as) /\ \A k \in DOMAIN as : Joins(as[k])
OperationsAgree(os) == AllAgree(os) /\ \A i \in DOMAIN os : os[i].type \in SetOperations

\* The parts of a builder agree.
PartsAgree(b) ==
    /\ b = [f \in DOMAIN newBuilder |-> b[f]]
    /\ AllAgree(b.ctes) /\ AllAgree(b.select) /\ OperationsAgree(b.setOperations)
    /\ Agrees(b.where) /\ Agrees(b.having)
    /\ b.fromSubquery # NoSource => Agrees(b.fromSubquery)
    /\ Silent(b.groupBy) /\ Silent(b.orderBy)

LEMMA HeadedMatched ==
    ASSUME NEW text, NEW vals, NEW w, w # "?", Matched(text, vals)
    PROVE  Matched(Headed(text, w), vals)
<1>1. Matched(<<K(w)>>, <<>>)
  BY Keyword
<1>2. Matched(<<K(w)>> \o text, vals)
  BY <1>1, PlainBefore
<1>3. Headed(text, w) = text \/ Headed(text, w) = <<K(w)>> \o text
  BY Zenon DEF Headed
<1> QED BY <1>2, <1>3

LEMMA PartMatched ==
    ASSUME NEW e, NEW w, w # "?", Agrees(e)
    PROVE  Matched(Part(w, e), e.values)
<1>1. CASE e = NoCondition
  <2>1. NoCondition.values = <<>>
    BY DEF NoCondition
  <2>2. Part(w, e) = <<>> /\ e.values = <<>>
    BY <1>1, <2>1, Zenon DEF Part
  <2> QED BY <2>2, Nothing
<1>2. CASE e # NoCondition
  <2>1. Matched(<<K(w)>>, <<>>)
    BY Keyword
  <2>2. Matched(e.sql, e.values)
    BY DEF Agrees
  <2>3. Matched(<<K(w)>> \o e.sql, e.values)
    BY <2>1, <2>2, PlainBefore
  <2> QED BY <1>2, <2>3, Zenon DEF Part
<1> QED BY <1>1, <1>2

LEMMA SilentJoined ==
    ASSUME NEW texts, Silent(texts)
    PROVE  Matched(Joining(texts, Sep(",")), <<>>)
<1>1. PICK n \in Nat : Listed(texts, n) /\ \A i \in 1..n : Matched(texts[i], <<>>)
  BY DEF Silent
<1>2. PICK vs : vs = [i \in 1..n |-> <<>>]
  OBVIOUS
<1>3. Listed(vs, n) /\ \A i \in 1..n : vs[i] = <<>>
  BY <1>2 DEF Listed
<1>4. Sep(",").t # "?"
  BY DEF Sep
<1>5. Matched(Joining(texts, Sep(",")), FlattenSeq(vs))
  BY <1>1, <1>3, <1>4, MatchedJoining
<1>6. FlattenSeq(vs) = <<>>
  <2>1. CASE n = 0
    <3>1. vs = <<>>
      BY <1>2, <2>1
    <3> QED BY <3>1, FlatNone
  <2>2. CASE n # 0
    <3>1. PICK Q : Q = Seq({})
      OBVIOUS
    <3>2. vs \in Seq(Q) /\ Len(vs) = n
      BY <1>2, <3>1
    <3>3. vs \in Seq(Seq({}))
      BY <3>1, <3>2
    <3>4. FlattenSeq(vs) \in Seq({})
      BY <3>3, FlatType
    <3>5. PICK u \in Seq({}) : u = FlattenSeq(vs)
      BY <3>4
    <3>6. u = <<>>
      OBVIOUS
    <3> QED BY <3>5, <3>6
  <2> QED BY <2>1, <2>2
<1> QED BY <1>5, <1>6

LEMMA NoValues == AllValues(<<>>) = <<>>
<1>1. PICK none : none = <<>>
  OBVIOUS
<1>2. [i \in DOMAIN none |-> none[i].values] = none
  BY <1>1
<1>3. AllValues(none) = FlattenSeq(none)
  BY <1>2, Zenon DEF AllValues
<1> QED BY <1>1, <1>3, FlatNone

LEMMA CtesMatched ==
    ASSUME NEW cs, AllAgree(cs)
    PROVE  Matched(Joining([i \in DOMAIN cs |->
                              <<[t |-> "name", n |-> cs[i].name], Open("")>> \o cs[i].sql \o <<Close>>],
                           Sep(",")),
                   AllValues(cs))
<1> DEFINE text(c) == <<[t |-> "name", n |-> c.name], Open("")>> \o c.sql \o <<Close>>
           texts == [i \in DOMAIN cs |-> text(cs[i])]
           vs == [i \in DOMAIN cs |-> cs[i].values]
<1>1. PICK n \in Nat : Listed(cs, n) /\ \A i \in 1..n : Agrees(cs[i])
  BY DEF AllAgree
<1>2. ASSUME NEW c, Agrees(c)
      PROVE  Matched(text(c), c.values)
  <2>1. PICK name : name = [t |-> "name", n |-> c.name]
    OBVIOUS
  <2>2. name.t # "?"
    BY <2>1
  <2>3. Matched(<<name>>, <<>>)
    BY <2>2, OneWord
  <2>4. Matched(<<Open("")>>, <<>>) /\ Matched(<<Close>>, <<>>)
    BY Marks
  <2>5. Matched(<<name, Open("")>>, <<>>)
    BY <2>3, <2>4, TwoWords
  <2>6. Matched(c.sql, c.values)
    BY <1>2 DEF Agrees
  <2>7. Matched(<<name, Open("")>> \o c.sql, c.values)
    BY <2>5, <2>6, PlainBefore
  <2>8. Matched(<<name, Open("")>> \o c.sql \o <<Close>>, c.values)
    BY <2>4, <2>7, PlainAfter
  <2>9. text(c) = <<name, Open("")>> \o c.sql \o <<Close>>
    BY <2>1, Zenon
  <2> HIDE DEF text
  <2> QED BY <2>8, <2>9
<1>3. AllValues(cs) = FlattenSeq(vs)
  BY Zenon DEF AllValues
<1> HIDE DEF text
<1>4. DOMAIN cs = 1..n
  BY <1>1 DEF Listed
<1>5. Listed(texts, n) /\ Listed(vs, n)
  BY <1>4 DEF Listed
<1>6. ASSUME NEW i \in 1..n
      PROVE  Matched(texts[i], vs[i])
  <2>1. Agrees(cs[i])
    BY <1>1
  <2>2. Matched(text(cs[i]), cs[i].values)
    BY <1>2, <2>1
  <2>3. texts[i] = text(cs[i]) /\ vs[i] = cs[i].values
    BY <1>4
  <2> QED BY <2>2, <2>3
<1>7. Sep(",").t # "?"
  BY DEF Sep
<1> HIDE DEF texts, vs
<1>8. Matched(Joining(texts, Sep(",")), FlattenSeq(vs))
  BY <1>5, <1>6, <1>7, MatchedJoining
<1>9. Matched(Joining(texts, Sep(",")), AllValues(cs))
  BY <1>3, <1>8
<1> QED BY <1>9 DEF texts, text

LEMMA JoinsMatched ==
    ASSUME NEW js, Joins(js)
    PROVE  Matched(FlattenSeq([i \in DOMAIN js |->
                                  <<K("JOIN"), [t |-> "table", n |-> js[i].table]>> \o js[i].on.sql]),
                   AllValues([i \in DOMAIN js |-> js[i].on]))
<1> DEFINE text(j) == <<K("JOIN"), [t |-> "table", n |-> j.table]>> \o j.on.sql
           texts == [i \in DOMAIN js |-> text(js[i])]
           ons == [i \in DOMAIN js |-> js[i].on]
           vs == [i \in DOMAIN ons |-> ons[i].values]
<1>1. PICK n \in Nat : Listed(js, n) /\ \A i \in 1..n : Agrees(js[i].on)
  BY DEF Joins
<1>2. ASSUME NEW j, Agrees(j.on)
      PROVE  Matched(text(j), j.on.values)
  <2>1. PICK name : name = [t |-> "table", n |-> j.table]
    OBVIOUS
  <2>2. name.t # "?"
    BY <2>1
  <2>3. Matched(<<name>>, <<>>)
    BY <2>2, OneWord
  <2>4. Matched(<<K("JOIN")>>, <<>>)
    BY Keyword
  <2>5. Matched(<<K("JOIN"), name>>, <<>>)
    BY <2>3, <2>4, TwoWords
  <2>6. Matched(j.on.sql, j.on.values)
    BY <1>2 DEF Agrees
  <2>7. Matched(<<K("JOIN"), name>> \o j.on.sql, j.on.values)
    BY <2>5, <2>6, PlainBefore
  <2>8. text(j) = <<K("JOIN"), name>> \o j.on.sql
    BY <2>1, Zenon
  <2> HIDE DEF text
  <2> QED BY <2>7, <2>8
<1>3. AllValues(ons) = FlattenSeq(vs)
  BY Zenon DEF AllValues
<1> HIDE DEF text
<1>4. DOMAIN js = 1..n
  BY <1>1 DEF Listed
<1>5. DOMAIN ons = 1..n /\ \A i \in 1..n : ons[i] = js[i].on
  BY <1>4
<1> HIDE DEF ons
<1>6. Listed(texts, n) /\ Listed(vs, n)
  BY <1>4, <1>5 DEF Listed
<1>7. ASSUME NEW i \in 1..n
      PROVE  Matched(texts[i], vs[i])
  <2>1. Agrees(js[i].on)
    BY <1>1
  <2>2. Matched(text(js[i]), js[i].on.values)
    BY <1>2, <2>1
  <2>3. texts[i] = text(js[i]) /\ vs[i] = js[i].on.values
    BY <1>4, <1>5
  <2> QED BY <2>2, <2>3
<1> HIDE DEF texts, vs
<1>8. Matched(FlattenSeq(texts), FlattenSeq(vs))
  BY <1>6, <1>7, MatchedFlat
<1>9. Matched(FlattenSeq(texts), AllValues(ons))
  BY <1>3, <1>8
<1> QED BY <1>9 DEF texts, text, ons

LEMMA OperationsMatched ==
    ASSUME NEW os, OperationsAgree(os)
    PROVE  Matched(FlattenSeq([i \in DOMAIN os |-> <<K(os[i].type)>> \o os[i].sql]), AllValues(os))
<1> DEFINE text(o) == <<K(o.type)>> \o o.sql
           texts == [i \in DOMAIN os |-> text(os[i])]
           vs == [i \in DOMAIN os |-> os[i].values]
<1>1. PICK n \in Nat : Listed(os, n) /\ \A i \in 1..n : Agrees(os[i])
  BY DEF OperationsAgree, AllAgree
<1>2. ASSUME NEW o, Agrees(o), o.type \in SetOperations
      PROVE  Matched(text(o), o.values)
  <2>1. o.type # "?"
    BY <1>2, Zenon DEF SetOperations
  <2>2. Matched(<<K(o.type)>>, <<>>)
    BY <2>1, Keyword
  <2>3. Matched(o.sql, o.values)
    BY <1>2 DEF Agrees
  <2> QED BY <2>2, <2>3, PlainBefore
<1>3. AllValues(os) = FlattenSeq(vs)
  BY Zenon DEF AllValues
<1> HIDE DEF text
<1>4. DOMAIN os = 1..n
  BY <1>1 DEF Listed
<1>5. Listed(texts, n) /\ Listed(vs, n)
  BY <1>4 DEF Listed
<1>6. ASSUME NEW i \in 1..n
      PROVE  Matched(texts[i], vs[i])
  <2>1. Agrees(os[i]) /\ os[i].type \in SetOperations
    BY <1>1, <1>4 DEF OperationsAgree
  <2>2. Matched(text(os[i]), os[i].values)
    BY <1>2, <2>1
  <2>3. texts[i] = text(os[i]) /\ vs[i] = os[i].values
    BY <1>4
  <2> QED BY <2>2, <2>3
<1> HIDE DEF texts, vs
<1>7. Matched(FlattenSeq(texts), FlattenSeq(vs))
  BY <1>5, <1>6, MatchedFlat
<1>8. Matched(FlattenSeq(texts), AllValues(os))
  BY <1>3, <1>7
<1> QED BY <1>8 DEF texts, text

\* The text of a builder asks for its values, and in their order.
LEMMA ToSQLAgrees ==
    ASSUME NEW b, NEW as, PartsAgree(b), Joins(as[b.joins])
    PROVE  Agrees(toSQL(b, as))
<1> DEFINE ctes == Headed(Joining([i \in DOMAIN b.ctes |->
                                     <<[t |-> "name", n |-> b.ctes[i].name], Open("")>>
                                       \o b.ctes[i].sql \o <<Close>>], Sep(",")), "WITH")
           distinctly == IF b.distinct THEN <<K("DISTINCT")>> ELSE <<>>
           selected == IF b.select = <<>> THEN <<K("*")>> ELSE Joining(Sqls(b.select), Sep(","))
           source == IF b.fromSubquery # NoSource THEN <<K("FROM")>> \o b.fromSubquery.sql
                     ELSE IF b.from # NoSource
                          THEN <<K("FROM"), [t |-> "table", n |-> b.from.name]>>
                          ELSE <<>>
           sourceValues == IF b.fromSubquery # NoSource THEN b.fromSubquery.values ELSE <<>>
           joins == FlattenSeq([i \in DOMAIN as[b.joins] |->
                                  <<K("JOIN"), [t |-> "table", n |-> as[b.joins][i].table]>>
                                    \o as[b.joins][i].on.sql])
           onValues == AllValues([i \in DOMAIN as[b.joins] |-> as[b.joins][i].on])
           filter == Part("WHERE", b.where)
           groups == Headed(Joining(b.groupBy, Sep(",")), "GROUP BY")
           groupFilter == Part("HAVING", b.having)
           operations == FlattenSeq([i \in DOMAIN b.setOperations |->
                                       <<K(b.setOperations[i].type)>> \o b.setOperations[i].sql])
           orders == Headed(Joining(b.orderBy, Sep(",")), "ORDER BY")
           limited == IF b.limit THEN <<K("LIMIT")>> ELSE <<>>
           skipped == IF b.offset THEN <<K("OFFSET")>> ELSE <<>>
<1>1. toSQL(b, as) = [sql |-> ctes \o <<K("SELECT")>> \o distinctly \o selected \o source \o joins
                                \o filter \o groups \o groupFilter \o operations \o orders
                                \o limited \o skipped,
                      values |-> AllValues(b.ctes) \o AllValues(b.select) \o sourceValues
                                   \o onValues \o b.where.values \o b.having.values
                                   \o AllValues(b.setOperations)]
  BY Zenon DEF toSQL
<1>2. Matched(ctes, AllValues(b.ctes))
  <2>1. AllAgree(b.ctes)
    BY DEF PartsAgree
  <2>2. "WITH" # "?"
    OBVIOUS
  <2> QED BY <2>1, <2>2, CtesMatched, HeadedMatched, Zenon
<1>3. Matched(<<K("SELECT")>>, <<>>)
  BY Keyword
<1>4. Matched(distinctly, <<>>)
  <2>1. Matched(<<K("DISTINCT")>>, <<>>)
    BY Keyword
  <2> QED BY <2>1, Nothing
<1>5. Matched(selected, AllValues(b.select))
  <2>1. CASE b.select = <<>>
    <3>1. Matched(<<K("*")>>, <<>>)
      BY Keyword
    <3> QED BY <2>1, <3>1, NoValues, Zenon
  <2>2. CASE b.select # <<>>
    <3>1. AllAgree(b.select)
      BY DEF PartsAgree
    <3>2. Sep(",").t # "?"
      BY DEF Sep
    <3>3. Matched(Joining(Sqls(b.select), Sep(",")), AllValues(b.select))
      BY <3>1, <3>2, SqlsMatched
    <3> QED BY <2>2, <3>3
  <2> QED BY <2>1, <2>2
<1>6. Matched(source, sourceValues)
  <2>1. Matched(<<K("FROM")>>, <<>>)
    BY Keyword
  <2>2. CASE b.fromSubquery # NoSource
    <3>1. Matched(b.fromSubquery.sql, b.fromSubquery.values)
      BY <2>2 DEF PartsAgree, Agrees
    <3>2. Matched(<<K("FROM")>> \o b.fromSubquery.sql, b.fromSubquery.values)
      BY <2>1, <3>1, PlainBefore
    <3> QED BY <2>2, <3>2
  <2>3. CASE b.fromSubquery = NoSource
    <3>1. PICK name : name = [t |-> "table", n |-> b.from.name]
      OBVIOUS
    <3>2. name.t # "?"
      BY <3>1
    <3>3. Matched(<<name>>, <<>>)
      BY <3>2, OneWord
    <3>4. Matched(<<K("FROM"), name>>, <<>>)
      BY <2>1, <3>3, TwoWords
    <3> QED BY <2>3, <3>1, <3>4, Nothing
  <2> QED BY <2>2, <2>3
<1>7. Matched(joins, onValues)
  BY JoinsMatched
<1>8. Matched(filter, b.where.values)
  <2>1. Agrees(b.where)
    BY DEF PartsAgree
  <2>2. "WHERE" # "?"
    OBVIOUS
  <2> QED BY <2>1, <2>2, PartMatched
<1>9. Matched(groups, <<>>)
  <2>1. Matched(Joining(b.groupBy, Sep(",")), <<>>)
    BY SilentJoined DEF PartsAgree
  <2>2. "GROUP BY" # "?"
    BY Zenon
  <2> QED BY <2>1, <2>2, HeadedMatched, Zenon
<1>10. Matched(groupFilter, b.having.values)
  <2>1. Agrees(b.having)
    BY DEF PartsAgree
  <2>2. "HAVING" # "?"
    OBVIOUS
  <2> QED BY <2>1, <2>2, PartMatched
<1>11. Matched(operations, AllValues(b.setOperations))
  BY OperationsMatched DEF PartsAgree
<1>12. Matched(orders, <<>>)
  <2>1. Matched(Joining(b.orderBy, Sep(",")), <<>>)
    BY SilentJoined DEF PartsAgree
  <2>2. "ORDER BY" # "?"
    BY Zenon
  <2> QED BY <2>1, <2>2, HeadedMatched, Zenon
<1>13. Matched(limited, <<>>)
  <2>1. Matched(<<K("LIMIT")>>, <<>>)
    BY Keyword
  <2> QED BY <2>1, Nothing
<1>14. Matched(skipped, <<>>)
  <2>1. Matched(<<K("OFFSET")>>, <<>>)
    BY Keyword
  <2> QED BY <2>1, Nothing
<1> HIDE DEF ctes, distinctly, selected, source, sourceValues, joins, onValues, filter, groups,
             groupFilter, operations, orders, limited, skipped
<1> DEFINE s5 == ctes \o <<K("SELECT")>> \o distinctly \o selected
           v5 == AllValues(b.ctes) \o AllValues(b.select)
           s9 == s5 \o source \o joins \o filter \o groups
           v9 == v5 \o sourceValues \o onValues \o b.where.values
           s14 == s9 \o groupFilter \o operations \o orders \o limited \o skipped
           v14 == v9 \o b.having.values \o AllValues(b.setOperations)
<1>15. Matched(s5, v5)
  <2>1. Matched(ctes \o <<K("SELECT")>>, AllValues(b.ctes))
    BY <1>2, <1>3, PlainAfter
  <2>2. Matched(ctes \o <<K("SELECT")>> \o distinctly, AllValues(b.ctes))
    BY <1>4, <2>1, PlainAfter
  <2> QED BY <1>5, <2>2, MatchedJoin
<1> HIDE DEF s5, v5
<1>16. Matched(s9, v9)
  <2>1. Matched(s5 \o source, v5 \o sourceValues)
    BY <1>6, <1>15, MatchedJoin
  <2>2. Matched(s5 \o source \o joins, v5 \o sourceValues \o onValues)
    BY <1>7, <2>1, MatchedJoin
  <2>3. Matched(s5 \o source \o joins \o filter, v9)
    BY <1>8, <2>2, MatchedJoin
  <2> QED BY <1>9, <2>3, PlainAfter
<1> HIDE DEF s9, v9
<1>17. Matched(s14, v14)
  <2>1. Matched(s9 \o groupFilter, v9 \o b.having.values)
    BY <1>10, <1>16, MatchedJoin
  <2>2. Matched(s9 \o groupFilter \o operations, v14)
    BY <1>11, <2>1, MatchedJoin
  <2>3. Matched(s9 \o groupFilter \o operations \o orders, v14)
    BY <1>12, <2>2, PlainAfter
  <2>4. Matched(s9 \o groupFilter \o operations \o orders \o limited, v14)
    BY <1>13, <2>3, PlainAfter
  <2> QED BY <1>14, <2>4, PlainAfter
<1>18. toSQL(b, as) = [sql |-> s14, values |-> v14]
  BY <1>1, Zenon DEF s14, v14, s9, v9, s5, v5
<1> HIDE DEF s14, v14
<1> QED BY <1>17, <1>18 DEF Agrees

(***************************************************************************)
(* What a method makes                                                     *)
(***************************************************************************)
Fields == DOMAIN newBuilder
Builder(b, as) == b = [f \in Fields |-> b[f]] /\ b.joins \in DOMAIN as
\* A method makes a builder and leaves the arrays that are there as they are.
Extending(m, as) ==
    /\ Builder(m.qb, m.arrays) /\ IsSeq(m.arrays)
    /\ DOMAIN as \subseteq DOMAIN m.arrays
    /\ \A k \in DOMAIN as : m.arrays[k] = as[k]

LEMMA FieldsAre ==
    Fields = {"select", "from", "fromSubquery", "joins", "where", "groupBy", "having", "orderBy",
              "limit", "offset", "ctes", "setOperations", "distinct", "asked"}
BY DEF Fields, newBuilder

LEMMA SeqIs ==
    ASSUME NEW s, IsSeq(s)
    PROVE  Len(s) \in Nat /\ DOMAIN s = 1..Len(s) /\ Listed(s, Len(s))
BY DEF IsSeq, Listed

LEMMA IsOne ==
    ASSUME NEW n \in Nat, NEW s, Listed(s, n)
    PROVE  IsSeq(s) /\ Len(s) = n /\ DOMAIN s = 1..n
<1>1. DOMAIN s = 1..n
  BY DEF Listed
<1>2. \A i \in 1..n : s[i] \in Range(s)
  BY <1>1 DEF Range
<1>3. s \in Seq(Range(s)) /\ Len(s) = n
  BY <1>1, <1>2 DEF Listed
<1> QED BY <1>1, <1>3 DEF IsSeq

LEMMA Wider ==
    ASSUME NEW R, NEW S, R \subseteq S, NEW s \in Seq(R)
    PROVE  s \in Seq(S)
OBVIOUS

LEMMA OneOfThem ==
    ASSUME NEW S, NEW s \in Seq(S), NEW k \in 1..Len(s)
    PROVE  s[k] \in S
OBVIOUS

LEMMA Appended ==
    ASSUME NEW S, NEW s \in Seq(S), NEW x \in S
    PROVE  /\ Append(s, x) \in Seq(S) /\ Len(Append(s, x)) = Len(s) + 1
           /\ \A k \in 1..Len(s) : Append(s, x)[k] = s[k]
           /\ Append(s, x)[Len(s) + 1] = x
OBVIOUS

LEMMA MakesSeq ==
    ASSUME NEW S, NEW n \in Nat, NEW s, Listed(s, n), \A k \in 1..n : s[k] \in S
    PROVE  s \in Seq(S) /\ Len(s) = n
BY DEF Listed

\* A sequence of n, and one more.
Copies(more, as, n, x) ==
    /\ more = Append(as, x) /\ Listed(more, n + 1)
    /\ \A k \in 1..n : more[k] = as[k]
    /\ more[n + 1] = x

LEMMA Copied ==
    ASSUME NEW n \in Nat, NEW as, Listed(as, n), NEW x
    PROVE  \E more : Copies(more, as, n, x)
<1>1. IsSeq(as) /\ Len(as) = n
  BY IsOne, Zenon
<1>2. PICK S : S = Range(as) \cup {x}
  OBVIOUS
<1>3. as \in Seq(S) /\ x \in S
  <2>1. as \in Seq(Range(as))
    BY <1>1 DEF IsSeq
  <2>2. Range(as) \subseteq S /\ x \in S
    BY <1>2
  <2> QED BY <2>1, <2>2, Wider, Zenon
<1>4. PICK more : more = [k \in 1..(n + 1) |-> IF k = n + 1 THEN x ELSE as[k]]
  OBVIOUS
<1>5. ASSUME NEW k \in 1..n
      PROVE  more[k] = as[k]
  <2>1. k \in 1..(n + 1) /\ k # n + 1
    OBVIOUS
  <2> QED BY <1>4, <2>1
<1>6. more[n + 1] = x
  <2>1. n + 1 \in 1..(n + 1)
    OBVIOUS
  <2> QED BY <1>4, <2>1
<1>7. Listed(more, n + 1)
  BY <1>4 DEF Listed
<1>a. /\ Append(as, x) \in Seq(S) /\ Len(Append(as, x)) = Len(as) + 1
      /\ \A k \in 1..Len(as) : Append(as, x)[k] = as[k]
      /\ Append(as, x)[Len(as) + 1] = x
  BY <1>3, Appended, Zenon
<1>8. Append(as, x) \in Seq(S) /\ Len(Append(as, x)) = n + 1
  BY <1>1, <1>a, Zenon
<1>9. ASSUME NEW k \in 1..(n + 1)
      PROVE  Append(as, x)[k] = more[k]
  <2>1. CASE k = n + 1
    <3> QED BY <1>1, <1>a, <1>6, <2>1, Zenon
  <2>2. CASE k # n + 1
    <3>1. k \in 1..Len(as) /\ k \in 1..n
      BY <1>1, <2>2
    <3>2. Append(as, x)[k] = as[k]
      BY <1>a, <3>1, Zenon
    <3> QED BY <1>5, <3>1, <3>2
  <2> QED BY <2>1, <2>2
<1>10. more \in Seq(S) /\ Len(more) = n + 1
  <2>1. \A k \in 1..(n + 1) : more[k] \in S
    <3> TAKE k \in 1..(n + 1)
    <3>1. CASE k = n + 1
      BY <1>3, <1>6, <3>1
    <3>2. CASE k # n + 1
      <4>1. k \in 1..n /\ k \in 1..Len(as)
        BY <1>1, <3>2
      <4>2. as[k] \in S
        BY <1>3, <4>1, OneOfThem, Zenon
      <4> QED BY <1>5, <4>1, <4>2
    <3> QED BY <3>1, <3>2
  <2>2. n + 1 \in Nat
    OBVIOUS
  <2> QED BY <1>7, <2>1, <2>2, MakesSeq, Zenon
<1>11. Append(as, x) = more
  BY <1>8, <1>9, <1>10, SameSeq
<1> QED BY <1>5, <1>6, <1>7, <1>11 DEF Copies

LEMMA Longer == \A n \in Nat : 1..n \subseteq 1..(n + 1) /\ n + 1 \in 1..(n + 1)
OBVIOUS

LEMMA CloneExtends ==
    ASSUME NEW as, IsSeq(as), NEW b, Builder(b, as)
    PROVE  /\ Extending(clone(b, as), as)
           /\ clone(b, as).qb = [b EXCEPT !.joins = Len(as) + 1]
           /\ clone(b, as).arrays = Append(as, as[b.joins])
<1>1. PICK n \in Nat : n = Len(as) /\ DOMAIN as = 1..n /\ Listed(as, n)
  BY SeqIs
<1>2. PICK more : /\ more = Append(as, as[b.joins]) /\ Listed(more, n + 1)
                  /\ \A k \in 1..n : more[k] = as[k]
                  /\ more[n + 1] = as[b.joins]
  <2>1. Listed(as, n)
    BY <1>1
  <2>2. \E more : Copies(more, as, n, as[b.joins])
    BY <2>1, Copied, Zenon
  <2> QED BY <2>2, Zenon DEF Copies
<1>3. Listed(more, n + 1) /\ \A k \in 1..n : more[k] = as[k]
  BY <1>2
<1>4. IsSeq(more) /\ DOMAIN more = 1..(n + 1)
  BY <1>3, IsOne
<1>5. PICK qb : qb = [b EXCEPT !.joins = n + 1]
  OBVIOUS
<1>6. b = [f \in Fields |-> b[f]] /\ "joins" \in Fields
  BY FieldsAre DEF Builder
<1>7. qb = [f \in Fields |-> qb[f]] /\ qb.joins = n + 1
  BY <1>5, <1>6
<1>8. clone(b, as) = Made(qb, more)
  BY <1>1, <1>2, <1>5, Zenon DEF clone
<1>9. Made(qb, more).qb = qb /\ Made(qb, more).arrays = more
  BY DEF Made
<1>10. Builder(qb, more)
  BY <1>4, <1>7 DEF Builder
<1>11. DOMAIN as \subseteq DOMAIN more /\ \A k \in DOMAIN as : more[k] = as[k]
  BY <1>1, <1>3, <1>4, Longer, Zenon
<1>12. Extending(Made(qb, more), as)
  BY <1>4, <1>9, <1>10, <1>11, Zenon DEF Extending
<1> QED BY <1>1, <1>2, <1>5, <1>8, <1>9, <1>12, Zenon

\* A method that sets one part of a clone.
LEMMA SetExtends ==
    ASSUME NEW m, NEW as, Extending(m, as), NEW f \in Fields \ {"joins"}, NEW v
    PROVE  Extending(Made([m.qb EXCEPT ![f] = v], m.arrays), as)
<1>1. PICK qb : qb = [m.qb EXCEPT ![f] = v]
  OBVIOUS
<1>2. m.qb = [g \in Fields |-> m.qb[g]] /\ m.qb.joins \in DOMAIN m.arrays
  BY DEF Extending, Builder
<1>3. "joins" \in Fields
  BY FieldsAre
<1>4. qb = [g \in Fields |-> qb[g]] /\ qb.joins = m.qb.joins
  BY <1>1, <1>2, <1>3
<1>5. Made(qb, m.arrays).qb = qb /\ Made(qb, m.arrays).arrays = m.arrays
  BY DEF Made
<1>6. Extending(Made(qb, m.arrays), as)
  BY <1>2, <1>4, <1>5 DEF Extending, Builder
<1> QED BY <1>1, <1>6

LEMMA SelectExtends ==
    ASSUME NEW as, IsSeq(as), NEW b, Builder(b, as), NEW fields
    PROVE  Extending(select(b, as, fields), as)
<1>1. Extending(clone(b, as), as)
  BY CloneExtends
<1>2. "select" \in Fields \ {"joins"}
  BY FieldsAre
<1>3. Extending(Made([clone(b, as).qb EXCEPT !["select"] = fields], clone(b, as).arrays), as)
  BY <1>1, <1>2, SetExtends
<1>4. [[b EXCEPT !.joins = Len(as) + 1] EXCEPT !["select"] = fields]
        = [b EXCEPT !.select = fields, !.joins = Len(as) + 1]
  BY FieldsAre DEF Builder
<1>5. select(b, as, fields) = Made([b EXCEPT !.select = fields, !.joins = Len(as) + 1],
                                   Append(as, as[b.joins]))
  BY Zenon DEF select
<1> QED BY <1>3, <1>4, <1>5, CloneExtends, Zenon

\* from() sets both sources of a clone.
LEMMA FromIs ==
    ASSUME NEW as, IsSeq(as), NEW b, Builder(b, as), NEW source
    PROVE  from(b, as, source)
             = Made([[clone(b, as).qb EXCEPT
                        !["from"] = IF source.kind = "table" THEN source ELSE NoSource]
                       EXCEPT !["fromSubquery"] = IF source.kind = "subquery" THEN source ELSE NoSource],
                    clone(b, as).arrays)
<1>1. PICK t : t = IF source.kind = "table" THEN source ELSE NoSource
  OBVIOUS
<1>2. PICK s : s = IF source.kind = "subquery" THEN source ELSE NoSource
  OBVIOUS
<1>3. [[[b EXCEPT !.joins = Len(as) + 1] EXCEPT !["from"] = t] EXCEPT !["fromSubquery"] = s]
        = [b EXCEPT !.joins = Len(as) + 1, !.from = t, !.fromSubquery = s]
  BY FieldsAre DEF Builder
<1>4. from(b, as, source) = Made([b EXCEPT !.joins = Len(as) + 1, !.from = t, !.fromSubquery = s],
                                 Append(as, as[b.joins]))
  BY <1>1, <1>2, Zenon DEF from
<1> QED BY <1>1, <1>2, <1>3, <1>4, CloneExtends, Zenon

LEMMA FromExtends ==
    ASSUME NEW as, IsSeq(as), NEW b, Builder(b, as), NEW source
    PROVE  Extending(from(b, as, source), as)
<1>1. PICK t : t = IF source.kind = "table" THEN source ELSE NoSource
  OBVIOUS
<1>2. PICK s : s = IF source.kind = "subquery" THEN source ELSE NoSource
  OBVIOUS
<1>3. PICK c : c = clone(b, as)
  OBVIOUS
<1>4. Extending(c, as)
  BY <1>3, CloneExtends
<1>5. "from" \in Fields \ {"joins"} /\ "fromSubquery" \in Fields \ {"joins"}
  BY FieldsAre
<1>6. PICK m : m = Made([c.qb EXCEPT !["from"] = t], c.arrays)
  OBVIOUS
<1>7. Extending(m, as)
  BY <1>4, <1>5, <1>6, SetExtends
<1>8. Extending(Made([m.qb EXCEPT !["fromSubquery"] = s], m.arrays), as)
  BY <1>5, <1>7, SetExtends
<1>9. m.qb = [c.qb EXCEPT !["from"] = t] /\ m.arrays = c.arrays
  BY <1>6 DEF Made
<1>10. from(b, as, source)
         = Made([[c.qb EXCEPT !["from"] = t] EXCEPT !["fromSubquery"] = s], c.arrays)
  BY <1>1, <1>2, <1>3, FromIs
<1> QED BY <1>8, <1>9, <1>10, Zenon

LEMMA JoinExtends ==
    ASSUME NEW as, IsSeq(as), NEW b, Builder(b, as), NEW table, NEW on
    PROVE  /\ Extending(join(b, as, table, on), as)
           /\ join(b, as, table, on).qb = clone(b, as).qb
           /\ DOMAIN join(b, as, table, on).arrays = DOMAIN clone(b, as).arrays
           /\ join(b, as, table, on).arrays[Len(as) + 1]
                = Append(as[b.joins], [table |-> table, on |-> on])
<1>1. PICK c : c = clone(b, as)
  OBVIOUS
<1>2. Extending(c, as) /\ c.qb = [b EXCEPT !.joins = Len(as) + 1] /\ c.arrays = Append(as, as[b.joins])
  BY <1>1, CloneExtends
<1>3. PICK n \in Nat : n = Len(as) /\ DOMAIN as = 1..n /\ Listed(as, n)
  BY SeqIs
<1>4. PICK copied : /\ copied = Append(as, as[b.joins]) /\ Listed(copied, n + 1)
                    /\ \A k \in 1..n : copied[k] = as[k]
                    /\ copied[n + 1] = as[b.joins]
  <2>1. Listed(as, n)
    BY <1>3
  <2>2. \E copied : Copies(copied, as, n, as[b.joins])
    BY <2>1, Copied, Zenon
  <2> QED BY <2>2, Zenon DEF Copies
<1>5. copied = c.arrays
  BY <1>2, <1>4
<1>6. c.qb.joins = n + 1
  BY <1>2, <1>3, FieldsAre DEF Builder
<1>7. PICK longer : longer = Append(as[b.joins], [table |-> table, on |-> on])
  OBVIOUS
<1>8. PICK more : more = [copied EXCEPT ![n + 1] = longer]
  OBVIOUS
<1>9. join(b, as, table, on) = Made(c.qb, more)
  <2>1. join(b, as, table, on)
          = Made(c.qb, [c.arrays EXCEPT ![c.qb.joins]
                           = Append(c.arrays[c.qb.joins], [table |-> table, on |-> on])])
    BY <1>1, Zenon DEF join
  <2>2. c.arrays[c.qb.joins] = as[b.joins]
    BY <1>4, <1>5, <1>6
  <2> QED BY <1>5, <1>6, <1>7, <1>8, <2>1, <2>2, Zenon
<1>10. Made(c.qb, more).qb = c.qb /\ Made(c.qb, more).arrays = more
  BY DEF Made
<1>11. DOMAIN copied = 1..(n + 1)
  BY <1>4 DEF Listed
<1>l. \A k \in 1..n : k \in 1..(n + 1) /\ k # n + 1
  OBVIOUS
<1>12. Listed(more, n + 1) /\ more[n + 1] = longer /\ \A k \in 1..n : more[k] = copied[k]
  <2>1. PICK last : last = n + 1 /\ last \in 1..(n + 1)
    OBVIOUS
  <2>2. PICK D : D = 1..(n + 1)
    OBVIOUS
  <2>3. more = [copied EXCEPT ![last] = longer] /\ DOMAIN copied = D /\ last \in D
    BY <1>8, <1>11, <2>1, <2>2
  <2>4. more = [i \in D |-> more[i]] /\ more[last] = longer /\ \A k \in D : k # last => more[k] = copied[k]
    BY <2>3
  <2>5. Listed(more, n + 1)
    BY <2>2, <2>4, Zenon DEF Listed
  <2> QED BY <1>l, <2>1, <2>2, <2>4, <2>5
<1>13. IsSeq(more) /\ DOMAIN more = 1..(n + 1)
  BY <1>12, IsOne
<1>14. DOMAIN as \subseteq DOMAIN more /\ \A k \in DOMAIN as : more[k] = as[k]
  BY <1>3, <1>4, <1>12, <1>13, Longer, Zenon
<1>15. Builder(c.qb, more)
  BY <1>2, <1>4, <1>11, <1>13 DEF Extending, Builder
<1>16. Extending(Made(c.qb, more), as)
  BY <1>10, <1>13, <1>14, <1>15, Zenon DEF Extending
<1>17. join(b, as, table, on).qb = clone(b, as).qb
  BY <1>1, <1>9, <1>10
<1>18. DOMAIN join(b, as, table, on).arrays = DOMAIN clone(b, as).arrays
  BY <1>1, <1>5, <1>9, <1>10, <1>11, <1>13, Zenon
<1>19. join(b, as, table, on).arrays[Len(as) + 1] = Append(as[b.joins], [table |-> table, on |-> on])
  BY <1>3, <1>7, <1>9, <1>10, <1>12, Zenon
<1> QED BY <1>9, <1>16, <1>17, <1>18, <1>19, Zenon

(***************************************************************************)
(* Builders made earlier                                                   *)
(***************************************************************************)
\* The arrays are numbered, and each builder has one of them.
Shape == /\ IsSeq(arrays) /\ IsSeq(builders)
         /\ \A i \in DOMAIN builders : Builder(builders[i], arrays)

\* What a builder's text is made of.
LEMMA SameJoinsSameText ==
    ASSUME NEW b, NEW as, NEW bs, as[b.joins] = bs[b.joins]
    PROVE  toSQL(b, as) = toSQL(b, bs)
<1> DEFINE text(js) ==
      LET cteText(c) == <<[t |-> "name", n |-> c.name], Open("")>> \o c.sql \o <<Close>>
          ctes == [i \in DOMAIN b.ctes |-> cteText(b.ctes[i])]
          joins == [i \in DOMAIN js |-> <<K("JOIN"), [t |-> "table", n |-> js[i].table]>> \o js[i].on.sql]
          ons == [i \in DOMAIN js |-> js[i].on]
          ops == [i \in DOMAIN b.setOperations |->
                      <<K(b.setOperations[i].type)>> \o b.setOperations[i].sql]
          source == IF b.fromSubquery # NoSource THEN <<K("FROM")>> \o b.fromSubquery.sql
                    ELSE IF b.from # NoSource THEN <<K("FROM"), [t |-> "table", n |-> b.from.name]>>
                    ELSE <<>>
          sourceValues == IF b.fromSubquery # NoSource THEN b.fromSubquery.values ELSE <<>>
      IN  [sql |-> Headed(Joining(ctes, Sep(",")), "WITH")
                   \o <<K("SELECT")>> \o (IF b.distinct THEN <<K("DISTINCT")>> ELSE <<>>)
                   \o (IF b.select = <<>> THEN <<K("*")>>
                       ELSE Joining(Sqls(b.select), Sep(",")))
                   \o source \o FlattenSeq(joins)
                   \o Part("WHERE", b.where)
                   \o Headed(Joining(b.groupBy, Sep(",")), "GROUP BY")
                   \o Part("HAVING", b.having)
                   \o FlattenSeq(ops)
                   \o Headed(Joining(b.orderBy, Sep(",")), "ORDER BY")
                   \o (IF b.limit THEN <<K("LIMIT")>> ELSE <<>>)
                   \o (IF b.offset THEN <<K("OFFSET")>> ELSE <<>>),
           values |-> AllValues(b.ctes) \o AllValues(b.select) \o sourceValues \o AllValues(ons)
                      \o b.where.values \o b.having.values \o AllValues(b.setOperations)]
<1>1. toSQL(b, as) = text(as[b.joins])
  BY Zenon DEF toSQL
<1>2. toSQL(b, bs) = text(bs[b.joins])
  BY Zenon DEF toSQL
<1> HIDE DEF text
<1> QED BY <1>1, <1>2, Zenon

\* What a step that adds a builder keeps.
LEMMA AddingKeeps ==
    ASSUME Shape, NEW m, Extending(m, arrays), Adds(m)
    PROVE  /\ Shape'
           /\ \A i \in DOMAIN builders : toSQL(builders'[i], arrays') = toSQL(builders[i], arrays)
<1>1. PICK n \in Nat : n = Len(builders) /\ DOMAIN builders = 1..n /\ Listed(builders, n)
  BY SeqIs DEF Shape
<1>2. builders' = Append(builders, m.qb) /\ arrays' = m.arrays
  BY DEF Adds
<1>3. PICK more : /\ more = Append(builders, m.qb) /\ Listed(more, n + 1)
                  /\ \A k \in 1..n : more[k] = builders[k]
                  /\ more[n + 1] = m.qb
  <2>1. Listed(builders, n)
    BY <1>1
  <2>2. \E more : Copies(more, builders, n, m.qb)
    BY <2>1, Copied, Zenon
  <2> QED BY <2>2, Zenon DEF Copies
<1>4. builders' = more
  BY <1>2, <1>3
<1>5. IsSeq(more) /\ DOMAIN more = 1..(n + 1)
  <2>1. n + 1 \in Nat
    OBVIOUS
  <2>2. Listed(more, n + 1)
    BY <1>3
  <2> QED BY <2>1, <2>2, IsOne, Zenon
<1>6. /\ IsSeq(m.arrays) /\ DOMAIN arrays \subseteq DOMAIN m.arrays
      /\ \A k \in DOMAIN arrays : m.arrays[k] = arrays[k]
      /\ Builder(m.qb, m.arrays)
  BY DEF Extending
<1>7. ASSUME NEW i \in DOMAIN builders
      PROVE  more[i] = builders[i] /\ Builder(builders[i], arrays)
  <2>1. more[i] = builders[i]
    BY <1>1, <1>3
  <2>2. Builder(builders[i], arrays)
    BY Zenon DEF Shape
  <2> QED BY <2>1, <2>2
<1>8. ASSUME NEW i \in DOMAIN builders
      PROVE  toSQL(builders'[i], arrays') = toSQL(builders[i], arrays)
  <2>1. PICK b : b = builders[i] /\ more[i] = b /\ b.joins \in DOMAIN arrays
    BY <1>7 DEF Builder
  <2>2. m.arrays[b.joins] = arrays[b.joins]
    BY <1>6, <2>1
  <2>3. toSQL(b, m.arrays) = toSQL(b, arrays)
    BY <2>2, SameJoinsSameText
  <2> QED BY <1>2, <1>4, <2>1, <2>3
<1>9. ASSUME NEW i \in DOMAIN more
      PROVE  Builder(more[i], m.arrays)
  <2>1. CASE i = n + 1
    BY <1>3, <1>6, <2>1
  <2>2. CASE i # n + 1
    <3>1. i \in DOMAIN builders
      BY <1>1, <1>5, <2>2
    <3>2. more[i] = builders[i] /\ Builder(builders[i], arrays)
      BY <1>7, <3>1
    <3> QED BY <1>6, <3>2 DEF Builder
  <2> QED BY <2>1, <2>2
<1>10. Shape'
  BY <1>2, <1>4, <1>5, <1>6, <1>9 DEF Shape
<1> QED BY <1>8, <1>10

LEMMA ShapeInit == Init => Shape
<1>1. PICK none : none = <<>>
  OBVIOUS
<1>2. Listed(none, 0) /\ 0 \in Nat
  BY <1>1 DEF Listed
<1>3. IsSeq(none) /\ DOMAIN none = 1..0
  BY <1>2, IsOne
<1>4. DOMAIN none = {}
  BY <1>3
<1> QED BY <1>1, <1>3, <1>4 DEF Init, Shape

\* The methods by name, each with what it sets.
LEMMA SetIs ==
    ASSUME NEW as, IsSeq(as), NEW b, Builder(b, as), NEW v
    PROVE  /\ Extending(distinct(b, as), as)
           /\ Extending(where(b, as, v), as)
           /\ Extending(having(b, as, v), as)
           /\ Extending(groupBy(b, as, v), as)
           /\ Extending(orderBy(b, as, v), as)
           /\ Extending(limit(b, as), as)
           /\ Extending(offset(b, as), as)
<1>1. PICK c : c = clone(b, as)
  OBVIOUS
<1>2. Extending(c, as)
  BY <1>1, CloneExtends
<1>3. \A f \in Fields \ {"joins"} : \A w : Extending(Made([c.qb EXCEPT ![f] = w], c.arrays), as)
  BY <1>2, SetExtends
<1>4. {"distinct", "where", "having", "groupBy", "orderBy", "limit", "offset"} \subseteq Fields \ {"joins"}
  BY FieldsAre
<1>5. Extending(distinct(b, as), as)
  <2>1. "distinct" \in Fields \ {"joins"}
    BY <1>4
  <2>2. distinct(b, as) = Made([c.qb EXCEPT !["distinct"] = TRUE], c.arrays)
    BY <1>1, Zenon DEF distinct
  <2> QED BY <1>3, <2>1, <2>2, Zenon
<1>6. Extending(where(b, as, v), as)
  <2>1. "where" \in Fields \ {"joins"}
    BY <1>4
  <2>2. where(b, as, v) = Made([c.qb EXCEPT !["where"] = v], c.arrays)
    BY <1>1, Zenon DEF where
  <2> QED BY <1>3, <2>1, <2>2, Zenon
<1>7. Extending(having(b, as, v), as)
  <2>1. "having" \in Fields \ {"joins"}
    BY <1>4
  <2>2. having(b, as, v) = Made([c.qb EXCEPT !["having"] = v], c.arrays)
    BY <1>1, Zenon DEF having
  <2> QED BY <1>3, <2>1, <2>2, Zenon
<1>8. Extending(groupBy(b, as, v), as)
  <2>1. "groupBy" \in Fields \ {"joins"}
    BY <1>4
  <2>2. groupBy(b, as, v) = Made([c.qb EXCEPT !["groupBy"] = <<v.sql>>], c.arrays)
    BY <1>1, Zenon DEF groupBy
  <2> QED BY <1>3, <2>1, <2>2, Zenon
<1>9. Extending(orderBy(b, as, v), as)
  <2>1. "orderBy" \in Fields \ {"joins"}
    BY <1>4
  <2>2. orderBy(b, as, v) = Made([c.qb EXCEPT !["orderBy"] = <<v.sql>>], c.arrays)
    BY <1>1, Zenon DEF orderBy
  <2> QED BY <1>3, <2>1, <2>2, Zenon
<1>10. Extending(limit(b, as), as)
  <2>1. "limit" \in Fields \ {"joins"}
    BY <1>4
  <2>2. limit(b, as) = Made([c.qb EXCEPT !["limit"] = TRUE], c.arrays)
    BY <1>1, Zenon DEF limit
  <2> QED BY <1>3, <2>1, <2>2, Zenon
<1>11. Extending(offset(b, as), as)
  <2>1. "offset" \in Fields \ {"joins"}
    BY <1>4
  <2>2. offset(b, as) = Made([c.qb EXCEPT !["offset"] = TRUE], c.arrays)
    BY <1>1, Zenon DEF offset
  <2> QED BY <1>3, <2>1, <2>2, Zenon
<1> QED BY <1>5, <1>6, <1>7, <1>8, <1>9, <1>10, <1>11

LEMMA WithExtends ==
    ASSUME NEW as, IsSeq(as), NEW b, Builder(b, as), NEW name, NEW other
    PROVE  Extending(with(b, as, name, other), as)
<1>1. PICK c : c = clone(b, as)
  OBVIOUS
<1>2. Extending(c, as)
  BY <1>1, CloneExtends
<1>3. \A f \in Fields \ {"joins"} : \A w : Extending(Made([c.qb EXCEPT ![f] = w], c.arrays), as)
  BY <1>2, SetExtends
<1>4. "ctes" \in Fields \ {"joins"}
  BY FieldsAre
<1>5. \E w : with(b, as, name, other) = Made([c.qb EXCEPT !["ctes"] = w], c.arrays)
  BY <1>1, Zenon DEF with
<1> QED BY <1>3, <1>4, <1>5, Zenon

\* An operation notes what is asked for with it.
Noted(m, ask) == [m EXCEPT !.qb.asked = Append(@, ask)]

LEMMA NotedIs ==
    ASSUME NEW m, \E b, as : m = Made(b, as), NEW ask
    PROVE  Noted(m, ask) = Made([m.qb EXCEPT !["asked"] = Append(m.qb.asked, ask)], m.arrays)
<1>1. PICK more : more = Append(m.qb.asked, ask)
  OBVIOUS
<1>2. PICK b, a : m = [qb |-> b, arrays |-> a]
  BY DEF Made
<1>3. m.qb = b /\ m.arrays = a
  BY <1>2
<1>4. PICK q : q = [b EXCEPT !["asked"] = more]
  OBVIOUS
<1>5. q = [m.qb EXCEPT !.asked = Append(m.qb.asked, ask)]
  BY <1>1, <1>3, <1>4
<1>6. Noted(m, ask) = [m EXCEPT !["qb"] = q]
  BY <1>5, Zenon DEF Noted
<1>7. [m EXCEPT !["qb"] = q] = [qb |-> q, arrays |-> a]
  BY <1>2
<1> QED BY <1>1, <1>3, <1>4, <1>6, <1>7, Zenon DEF Made

LEMMA CombineExtends ==
    ASSUME NEW as, IsSeq(as), NEW b, Builder(b, as), NEW type, NEW other, NEW ask
    PROVE  Extending(Noted(combine(b, as, type, other), ask), as)
<1>1. PICK c : c = clone(b, as)
  OBVIOUS
<1>2. Extending(c, as)
  BY <1>1, CloneExtends
<1>3. "setOperations" \in Fields \ {"joins"} /\ "asked" \in Fields \ {"joins"}
  BY FieldsAre
<1>4. PICK w : combine(b, as, type, other) = Made([c.qb EXCEPT !["setOperations"] = w], c.arrays)
  BY <1>1, Zenon DEF combine
<1>5. PICK m : m = combine(b, as, type, other)
  OBVIOUS
<1>6. Extending(m, as)
  BY <1>2, <1>3, <1>4, <1>5, SetExtends
<1>7. Noted(m, ask) = Made([m.qb EXCEPT !["asked"] = Append(m.qb.asked, ask)], m.arrays)
  <2>1. \E x, y : m = Made(x, y)
    BY <1>4, <1>5
  <2> QED BY <2>1, NotedIs, Zenon
<1>8. Extending(Made([m.qb EXCEPT !["asked"] = Append(m.qb.asked, ask)], m.arrays), as)
  BY <1>3, <1>6, SetExtends
<1> QED BY <1>5, <1>7, <1>8, Zenon

\* The actions that add a builder.
Deriving == New \/ Select \/ From \/ Join \/ Where \/ Grouping \/ Window \/ With \/ SetOperation

LEMMA DerivingExtends ==
    ASSUME Shape, Deriving
    PROVE  \E m : Extending(m, arrays) /\ Adds(m)
<1>1. IsSeq(arrays) /\ \A i \in DOMAIN builders : Builder(builders[i], arrays)
  BY DEF Shape
<1>2. CASE New
  <2>1. PICK m : m = from(newBuilder, Append(arrays, <<>>), [kind |-> "table", name |-> "t"]) /\ Adds(m)
    BY <1>2 DEF New
  <2>2. PICK n \in Nat : n = Len(arrays) /\ DOMAIN arrays = 1..n /\ Listed(arrays, n)
    BY <1>1, SeqIs
  <2>3. Listed(arrays, n)
    BY <2>2
  <2>4. PICK more : /\ more = Append(arrays, <<>>) /\ Listed(more, n + 1)
                    /\ \A k \in 1..n : more[k] = arrays[k]
                    /\ more[n + 1] = <<>>
    <3>1. \E more : Copies(more, arrays, n, <<>>)
      BY <2>3, Copied, Zenon
    <3> QED BY <3>1, Zenon DEF Copies
  <2>5. IsSeq(more) /\ DOMAIN more = 1..(n + 1)
    <3>1. n + 1 \in Nat
      OBVIOUS
    <3>2. Listed(more, n + 1)
      BY <2>4
    <3> QED BY <3>1, <3>2, IsOne, Zenon
  <2>6. Builder(newBuilder, more)
    <3>1. newBuilder = [f \in Fields |-> newBuilder[f]] /\ newBuilder.joins = 1
      BY DEF Fields, newBuilder
    <3>2. 1 \in 1..(n + 1)
      OBVIOUS
    <3> QED BY <2>5, <3>1, <3>2 DEF Builder
  <2>7. Extending(m, more)
    BY <2>1, <2>4, <2>5, <2>6, FromExtends
  <2>8. DOMAIN arrays \subseteq DOMAIN more /\ \A k \in DOMAIN arrays : more[k] = arrays[k]
    BY <2>2, <2>4, <2>5, Longer, Zenon
  <2>9. Extending(m, arrays)
    BY <2>7, <2>8 DEF Extending
  <2> QED BY <2>1, <2>9
<1>3. CASE Select
  <2>1. PICK i \in DOMAIN builders :
            \/ \E l \in Leaves : Adds(select(builders[i], arrays, <<X, Flag(l)>>))
            \/ Adds(select(builders[i], arrays, <<X>>))
            \/ Adds(selectAll(builders[i], arrays))
            \/ Adds(distinct(builders[i], arrays))
    BY <1>3, Zenon DEF Select
  <2>2. \A fields : Extending(select(builders[i], arrays, fields), arrays)
    BY <1>1, SelectExtends, Zenon
  <2>3. selectAll(builders[i], arrays) = select(builders[i], arrays, <<>>)
    BY Zenon DEF selectAll
  <2>4. Extending(distinct(builders[i], arrays), arrays)
    BY <1>1, SetIs, Zenon
  <2> QED BY <2>1, <2>2, <2>3, <2>4, Zenon
<1>4. CASE From
  <2>1. PICK i \in DOMAIN builders : \E source : Adds(from(builders[i], arrays, source))
    BY <1>4, Zenon DEF From
  <2>2. \A source : Extending(from(builders[i], arrays, source), arrays)
    BY <1>1, FromExtends, Zenon
  <2> QED BY <2>1, <2>2, Zenon
<1>5. CASE Join
  <2>1. PICK i \in DOMAIN builders, l \in Leaves : Adds(join(builders[i], arrays, "u", l))
    BY <1>5 DEF Join
  <2>2. Extending(join(builders[i], arrays, "u", l), arrays)
    BY <1>1, JoinExtends, Zenon
  <2> QED BY <2>1, <2>2
<1>6. CASE Where
  <2>1. PICK i \in DOMAIN builders, l \in Leaves :
            Adds(where(builders[i], arrays, l)) \/ Adds(having(builders[i], arrays, l))
    BY <1>6 DEF Where
  <2>2. Extending(where(builders[i], arrays, l), arrays) /\ Extending(having(builders[i], arrays, l), arrays)
    BY <1>1, SetIs, Zenon
  <2> QED BY <2>1, <2>2
<1>7. CASE Grouping
  <2>1. PICK i \in DOMAIN builders : \E e : \/ Adds(groupBy(builders[i], arrays, e))
                                            \/ Adds(orderBy(builders[i], arrays, e))
    BY <1>7, Zenon DEF Grouping
  <2>2. \A e : /\ Extending(groupBy(builders[i], arrays, e), arrays)
               /\ Extending(orderBy(builders[i], arrays, e), arrays)
    BY <1>1, SetIs, Zenon
  <2> QED BY <2>1, <2>2, Zenon
<1>8. CASE Window
  <2>1. PICK i \in DOMAIN builders : Adds(limit(builders[i], arrays)) \/ Adds(offset(builders[i], arrays))
    BY <1>8 DEF Window
  <2>2. Extending(limit(builders[i], arrays), arrays) /\ Extending(offset(builders[i], arrays), arrays)
    BY <1>1, SetIs, Zenon
  <2> QED BY <2>1, <2>2
<1>9. CASE With
  <2>1. PICK i \in DOMAIN builders, j \in DOMAIN builders : Adds(with(builders[i], arrays, "c", builders[j]))
    BY <1>9 DEF With
  <2>2. Extending(with(builders[i], arrays, "c", builders[j]), arrays)
    BY <1>1, WithExtends, Zenon
  <2> QED BY <2>1, <2>2
<1>10. CASE SetOperation
  <2>1. PICK i \in DOMAIN builders :
            \E j \in DOMAIN builders, type \in SetOperations : \E ask :
                Adds(Noted(combine(builders[i], arrays, type, builders[j]), ask))
    BY <1>10, Zenon DEF SetOperation, Noted
  <2>2. \A type, other, ask :
            Extending(Noted(combine(builders[i], arrays, type, other), ask), arrays)
    BY <1>1, CombineExtends, Zenon
  <2> QED BY <2>1, <2>2, Zenon
<1> QED BY <1>2, <1>3, <1>4, <1>5, <1>6, <1>7, <1>8, <1>9, <1>10 DEF Deriving

\* The actions that compose a condition.
Composing == Leaf \/ And \/ Or \/ NotOf \/ Comparison \/ Case \/ SimpleCase \/ Conditional \/ Subquery \/ Template

LEMMA ComposingKeeps ==
    ASSUME Composing
    PROVE  UNCHANGED <<builders, arrays>>
BY Zenon DEF Composing, Leaf, And, Or, NotOf, Comparison, Case, SimpleCase, Conditional, Subquery,
       Template, Step, Composes

LEMMA TextsKept ==
    ASSUME Shape, [Next]_vars
    PROVE  /\ Shape'
           /\ \A i \in DOMAIN builders : toSQL(builders'[i], arrays') = toSQL(builders[i], arrays)
<1>1. CASE Deriving
  BY <1>1, DerivingExtends, AddingKeeps
<1>2. CASE Composing \/ vars' = vars
  <2>1. builders' = builders /\ arrays' = arrays
    BY <1>2, ComposingKeeps DEF vars
  <2>2. Shape'
    BY <2>1 DEF Shape
  <2> QED BY <2>1, <2>2, Zenon
<1> QED BY <1>1, <1>2, Zenon DEF Next, Deriving, Composing

\* A builder made earlier is not changed by deriving others from it, though builders
\* share what they do not copy, for any conditions and any number of builders and steps.
THEOREM BasesKeepTheirTextHolds == Spec => BasesKeepTheirText
<1>1. Shape /\ [Next]_vars
        => [\A i \in DOMAIN builders : toSQL(builders'[i], arrays') = toSQL(builders[i], arrays)]_vars
  BY TextsKept
<1>2. Shape /\ [Next]_vars => Shape'
  BY TextsKept
<1> QED BY <1>1, <1>2, ShapeInit, PTL DEF Spec, BasesKeepTheirText

(***************************************************************************)
(* The values of the builders that are made                                *)
(***************************************************************************)
\* What a builder may have in one of its parts.
RightFor(f, v) ==
    /\ f \in {"ctes", "select"} => AllAgree(v)
    /\ f = "setOperations" => OperationsAgree(v)
    /\ f \in {"where", "having"} => Agrees(v)
    /\ f = "fromSubquery" => (v # NoSource => Agrees(v))
    /\ f \in {"groupBy", "orderBy"} => Silent(v)
\* A method made a builder with the right parts, and the right arrays.
Sound(m) == PartsAgree(m.qb) /\ ArraysAgree(m.arrays)

LEMMA PartsAre ==
    ASSUME NEW b
    PROVE  PartsAgree(b) <=> b = [f \in Fields |-> b[f]] /\ \A f \in Fields : RightFor(f, b[f])
<1>1. ASSUME PartsAgree(b), NEW f \in Fields
      PROVE  RightFor(f, b[f])
  BY <1>1, Zenon DEF PartsAgree, RightFor
<1>2. ASSUME b = [f \in Fields |-> b[f]], \A f \in Fields : RightFor(f, b[f])
      PROVE  PartsAgree(b)
  <2>1. /\ RightFor("ctes", b["ctes"]) /\ RightFor("select", b["select"])
        /\ RightFor("setOperations", b["setOperations"])
        /\ RightFor("where", b["where"]) /\ RightFor("having", b["having"])
        /\ RightFor("fromSubquery", b["fromSubquery"])
        /\ RightFor("groupBy", b["groupBy"]) /\ RightFor("orderBy", b["orderBy"])
    BY <1>2, FieldsAre
  <2>2. AllAgree(b.ctes) /\ AllAgree(b.select)
    BY <2>1 DEF RightFor
  <2>3. OperationsAgree(b.setOperations)
    BY <2>1 DEF RightFor
  <2>4. Agrees(b.where) /\ Agrees(b.having)
    BY <2>1 DEF RightFor
  <2>5. b.fromSubquery # NoSource => Agrees(b.fromSubquery)
    BY <2>1 DEF RightFor
  <2>6. Silent(b.groupBy) /\ Silent(b.orderBy)
    BY <2>1 DEF RightFor
  <2>7. b = [f \in DOMAIN newBuilder |-> b[f]]
    BY <1>2 DEF Fields
  <2> QED BY <2>2, <2>3, <2>4, <2>5, <2>6, <2>7 DEF PartsAgree
<1>3. PartsAgree(b) => b = [f \in Fields |-> b[f]]
  BY DEF PartsAgree, Fields
<1> QED BY <1>1, <1>2, <1>3

\* One part set to what is right for it.
Setting(m, f, v) == Made([m.qb EXCEPT ![f] = v], m.arrays)

LEMMA SetAgrees ==
    ASSUME NEW m, Sound(m), NEW f \in Fields, NEW v, RightFor(f, v)
    PROVE  Sound(Setting(m, f, v))
<1>1. PICK b : b = [m.qb EXCEPT ![f] = v]
  OBVIOUS
<1>2. m.qb = [g \in Fields |-> m.qb[g]] /\ \A g \in Fields : RightFor(g, m.qb[g])
  BY PartsAre, Zenon DEF Sound
<1>3. b = [g \in Fields |-> b[g]] /\ \A g \in Fields : b[g] = IF g = f THEN v ELSE m.qb[g]
  BY <1>1, <1>2
<1>4. \A g \in Fields : RightFor(g, b[g])
  BY <1>2, <1>3
<1>5. PartsAgree(b)
  BY <1>3, <1>4, PartsAre, Zenon
<1>6. Made(b, m.arrays).qb = b /\ Made(b, m.arrays).arrays = m.arrays
  BY DEF Made
<1> QED BY <1>1, <1>5, <1>6, Zenon DEF Sound, Setting

LEMMA CloneAgrees ==
    ASSUME NEW as, ArraysAgree(as), NEW b, Builder(b, as), PartsAgree(b)
    PROVE  Sound(clone(b, as))
<1>1. IsSeq(as) /\ Joins(as[b.joins]) /\ \A k \in DOMAIN as : Joins(as[k])
  BY DEF ArraysAgree, Builder
<1>2. PICK c : c = clone(b, as)
  OBVIOUS
<1>3. Extending(c, as) /\ c.qb = [b EXCEPT !.joins = Len(as) + 1] /\ c.arrays = Append(as, as[b.joins])
  BY <1>1, <1>2, CloneExtends, Zenon
<1>4. PICK n \in Nat : n = Len(as) /\ DOMAIN as = 1..n /\ Listed(as, n)
  BY <1>1, SeqIs
<1>5. PICK more : /\ more = Append(as, as[b.joins]) /\ Listed(more, n + 1)
                  /\ \A k \in 1..n : more[k] = as[k]
                  /\ more[n + 1] = as[b.joins]
  <2>1. Listed(as, n)
    BY <1>4
  <2>2. \E more : Copies(more, as, n, as[b.joins])
    BY <2>1, Copied, Zenon
  <2> QED BY <2>2, Zenon DEF Copies
<1>6. DOMAIN more = 1..(n + 1)
  BY <1>5 DEF Listed
<1>7. ASSUME NEW k \in DOMAIN more
      PROVE  Joins(more[k])
  <2>1. CASE k = n + 1
    BY <1>1, <1>5, <2>1
  <2>2. CASE k # n + 1
    <3>1. k \in 1..n
      BY <1>6, <2>2
    <3> QED BY <1>1, <1>4, <1>5, <3>1
  <2> QED BY <2>1, <2>2
<1>8. ArraysAgree(c.arrays)
  BY <1>3, <1>5, <1>7 DEF Extending, ArraysAgree
<1>9. PartsAgree(c.qb)
  <2>1. b = [f \in Fields |-> b[f]] /\ \A f \in Fields : RightFor(f, b[f])
    BY PartsAre, Zenon
  <2>2. "joins" \in Fields
    BY FieldsAre
  <2>3. /\ c.qb = [f \in Fields |-> c.qb[f]]
        /\ \A f \in Fields : f # "joins" => c.qb[f] = b[f]
    BY <1>3, <2>1, <2>2
  <2>4. \A v : RightFor("joins", v)
    BY DEF RightFor
  <2>5. \A f \in Fields : RightFor(f, c.qb[f])
    BY <2>1, <2>3, <2>4
  <2> QED BY <2>3, <2>5, PartsAre, Zenon
<1> QED BY <1>2, <1>8, <1>9 DEF Sound

\* The lists grow by what agrees.
Grown(more, es, e) ==
    /\ more = Append(es, e) /\ AllAgree(more)
    /\ \A i \in DOMAIN more : more[i] = e \/ \E j \in DOMAIN es : more[i] = es[j]

LEMMA OneMore ==
    ASSUME NEW es, AllAgree(es), NEW e, Agrees(e)
    PROVE  \E more : Grown(more, es, e)
<1>1. PICK n \in Nat : Listed(es, n) /\ \A i \in 1..n : Agrees(es[i])
  BY DEF AllAgree
<1>2. Listed(es, n)
  BY <1>1
<1>3. PICK more : /\ more = Append(es, e) /\ Listed(more, n + 1)
                  /\ \A k \in 1..n : more[k] = es[k]
                  /\ more[n + 1] = e
  <2>1. \E more : Copies(more, es, n, e)
    BY <1>2, Copied, Zenon
  <2> QED BY <2>1, Zenon DEF Copies
<1>4. \A i \in 1..(n + 1) : i = n + 1 \/ i \in 1..n
  OBVIOUS
<1>5. \A i \in 1..(n + 1) : Agrees(more[i])
  BY <1>1, <1>3, <1>4
<1>6. AllAgree(more)
  <2>1. n + 1 \in Nat
    OBVIOUS
  <2> QED BY <1>3, <1>5, <2>1, Zenon DEF AllAgree
<1>7. DOMAIN es = 1..n /\ DOMAIN more = 1..(n + 1)
  BY <1>2, <1>3 DEF Listed
<1>8. \A i \in DOMAIN more : more[i] = e \/ \E j \in DOMAIN es : more[i] = es[j]
  BY <1>3, <1>4, <1>7
<1> QED BY <1>3, <1>6, <1>8 DEF Grown

LEMMA OneMoreJoin ==
    ASSUME NEW js, Joins(js), NEW j, Agrees(j.on)
    PROVE  Joins(Append(js, j))
<1>1. PICK n \in Nat : Listed(js, n) /\ \A i \in 1..n : Agrees(js[i].on)
  BY DEF Joins
<1>2. Listed(js, n)
  BY <1>1
<1>3. PICK more : /\ more = Append(js, j) /\ Listed(more, n + 1)
                  /\ \A k \in 1..n : more[k] = js[k]
                  /\ more[n + 1] = j
  <2>1. \E more : Copies(more, js, n, j)
    BY <1>2, Copied, Zenon
  <2> QED BY <2>1, Zenon DEF Copies
<1>4. \A i \in 1..(n + 1) : i = n + 1 \/ i \in 1..n
  OBVIOUS
<1>5. \A i \in 1..(n + 1) : Agrees(more[i].on)
  BY <1>1, <1>3, <1>4
<1>6. n + 1 \in Nat
  OBVIOUS
<1>7. Joins(more)
  BY <1>3, <1>5, <1>6, Zenon DEF Joins
<1> QED BY <1>3, <1>7

LEMMA OneSilent ==
    ASSUME NEW text, Matched(text, <<>>)
    PROVE  Silent(<<text>>)
<1>1. PICK texts : texts = <<text>>
  OBVIOUS
<1>2. Listed(texts, 1) /\ texts[1] = text
  BY <1>1 DEF Listed
<1>3. \A i \in 1..1 : i = 1
  OBVIOUS
<1>4. \A i \in 1..1 : Matched(texts[i], <<>>)
  BY <1>2, <1>3
<1>5. 1 \in Nat
  OBVIOUS
<1> QED BY <1>1, <1>2, <1>4, <1>5, Zenon DEF Silent

\* The methods that set one part of a clone.
LEMMA MethodsAgree ==
    ASSUME NEW as, ArraysAgree(as), NEW b, Builder(b, as), PartsAgree(b)
    PROVE  /\ Sound(distinct(b, as)) /\ Sound(limit(b, as)) /\ Sound(offset(b, as))
           /\ \A e : Agrees(e) => Sound(where(b, as, e)) /\ Sound(having(b, as, e))
           /\ \A e : Matched(e.sql, <<>>) => Sound(groupBy(b, as, e)) /\ Sound(orderBy(b, as, e))
<1>1. PICK c : c = clone(b, as)
  OBVIOUS
<1>2. Sound(c)
  BY <1>1, CloneAgrees
<1>3. \A f \in Fields : \A v : RightFor(f, v) => Sound(Setting(c, f, v))
  BY <1>2, SetAgrees
<1>4. /\ "distinct" \in Fields /\ "where" \in Fields /\ "having" \in Fields
      /\ "groupBy" \in Fields /\ "orderBy" \in Fields /\ "limit" \in Fields /\ "offset" \in Fields
  BY FieldsAre
<1>5. /\ \A v : RightFor("distinct", v) /\ RightFor("limit", v) /\ RightFor("offset", v)
      /\ \A v : Agrees(v) => RightFor("where", v) /\ RightFor("having", v)
      /\ \A v : Silent(v) => RightFor("groupBy", v) /\ RightFor("orderBy", v)
  BY DEF RightFor
<1>6. \A v : Sound(Setting(c, "distinct", v))
  <2>1. "distinct" \in Fields
    BY <1>4
  <2>2. \A v : RightFor("distinct", v)
    BY <1>5
  <2> QED BY <1>3, <2>1, <2>2, Zenon
<1>7. \A v : Sound(Setting(c, "limit", v))
  <2>1. "limit" \in Fields
    BY <1>4
  <2>2. \A v : RightFor("limit", v)
    BY <1>5
  <2> QED BY <1>3, <2>1, <2>2, Zenon
<1>8. \A v : Sound(Setting(c, "offset", v))
  <2>1. "offset" \in Fields
    BY <1>4
  <2>2. \A v : RightFor("offset", v)
    BY <1>5
  <2> QED BY <1>3, <2>1, <2>2, Zenon
<1>9. \A v : Agrees(v) => Sound(Setting(c, "where", v))
  <2>1. "where" \in Fields
    BY <1>4
  <2>2. \A v : Agrees(v) => RightFor("where", v)
    BY <1>5
  <2> QED BY <1>3, <2>1, <2>2, Zenon
<1>10. \A v : Agrees(v) => Sound(Setting(c, "having", v))
  <2>1. "having" \in Fields
    BY <1>4
  <2>2. \A v : Agrees(v) => RightFor("having", v)
    BY <1>5
  <2> QED BY <1>3, <2>1, <2>2, Zenon
<1>11. \A v : Silent(v) => Sound(Setting(c, "groupBy", v))
  <2>1. "groupBy" \in Fields
    BY <1>4
  <2>2. \A v : Silent(v) => RightFor("groupBy", v)
    BY <1>5
  <2> QED BY <1>3, <2>1, <2>2, Zenon
<1>12. \A v : Silent(v) => Sound(Setting(c, "orderBy", v))
  <2>1. "orderBy" \in Fields
    BY <1>4
  <2>2. \A v : Silent(v) => RightFor("orderBy", v)
    BY <1>5
  <2> QED BY <1>3, <2>1, <2>2, Zenon
<1>13. Sound(distinct(b, as))
  <2>1. distinct(b, as) = Setting(c, "distinct", TRUE)
    BY <1>1, Zenon DEF distinct, Setting
  <2> QED BY <1>6, <2>1
<1>14. Sound(limit(b, as))
  <2>1. limit(b, as) = Setting(c, "limit", TRUE)
    BY <1>1, Zenon DEF limit, Setting
  <2> QED BY <1>7, <2>1
<1>15. Sound(offset(b, as))
  <2>1. offset(b, as) = Setting(c, "offset", TRUE)
    BY <1>1, Zenon DEF offset, Setting
  <2> QED BY <1>8, <2>1
<1>16. ASSUME NEW e, Agrees(e)
       PROVE  Sound(where(b, as, e)) /\ Sound(having(b, as, e))
  <2>1. where(b, as, e) = Setting(c, "where", e)
    BY <1>1, Zenon DEF where, Setting
  <2>2. having(b, as, e) = Setting(c, "having", e)
    BY <1>1, Zenon DEF having, Setting
  <2> QED BY <1>9, <1>10, <1>16, <2>1, <2>2, Zenon
<1>17. ASSUME NEW e, Matched(e.sql, <<>>)
       PROVE  Sound(groupBy(b, as, e)) /\ Sound(orderBy(b, as, e))
  <2>1. Silent(<<e.sql>>)
    BY <1>17, OneSilent
  <2>2. groupBy(b, as, e) = Setting(c, "groupBy", <<e.sql>>)
    BY <1>1, Zenon DEF groupBy, Setting
  <2>3. orderBy(b, as, e) = Setting(c, "orderBy", <<e.sql>>)
    BY <1>1, Zenon DEF orderBy, Setting
  <2> QED BY <1>11, <1>12, <2>1, <2>2, <2>3, Zenon
<1> QED BY <1>13, <1>14, <1>15, <1>16, <1>17

LEMMA SelectAgrees ==
    ASSUME NEW as, ArraysAgree(as), NEW b, Builder(b, as), PartsAgree(b),
           NEW fields, AllAgree(fields)
    PROVE  Sound(select(b, as, fields))
<1>1. IsSeq(as)
  BY DEF ArraysAgree
<1>2. Sound(clone(b, as))
  BY CloneAgrees
<1>3. "select" \in Fields
  BY FieldsAre
<1>4. RightFor("select", fields)
  BY DEF RightFor
<1>5. Sound(Setting(clone(b, as), "select", fields))
  BY <1>2, <1>3, <1>4, SetAgrees
<1>6. [[b EXCEPT !.joins = Len(as) + 1] EXCEPT !["select"] = fields]
        = [b EXCEPT !.select = fields, !.joins = Len(as) + 1]
  BY FieldsAre DEF Builder
<1>7. select(b, as, fields) = Made([b EXCEPT !.select = fields, !.joins = Len(as) + 1],
                                   Append(as, as[b.joins]))
  BY Zenon DEF select
<1> QED BY <1>1, <1>5, <1>6, <1>7, CloneExtends, Zenon DEF Setting

LEMMA FromAgrees ==
    ASSUME NEW as, ArraysAgree(as), NEW b, Builder(b, as), PartsAgree(b),
           NEW source, source.kind = "subquery" => Agrees(source)
    PROVE  Sound(from(b, as, source))
<1>1. IsSeq(as)
  BY DEF ArraysAgree
<1>2. PICK t : t = IF source.kind = "table" THEN source ELSE NoSource
  OBVIOUS
<1>3. PICK s : s = IF source.kind = "subquery" THEN source ELSE NoSource
  OBVIOUS
<1>4. PICK c : c = clone(b, as)
  OBVIOUS
<1>5. Sound(c)
  BY <1>4, CloneAgrees
<1>6. "from" \in Fields /\ "fromSubquery" \in Fields
  BY FieldsAre
<1>7. RightFor("from", t)
  BY DEF RightFor
<1>8. s # NoSource => Agrees(s)
  BY <1>3
<1>9. RightFor("fromSubquery", s)
  BY <1>8 DEF RightFor
<1>10. PICK m : m = Setting(c, "from", t)
  OBVIOUS
<1>11. Sound(m)
  BY <1>5, <1>6, <1>7, <1>10, SetAgrees
<1>12. Sound(Setting(m, "fromSubquery", s))
  BY <1>6, <1>9, <1>11, SetAgrees
<1>13. m.qb = [c.qb EXCEPT !["from"] = t] /\ m.arrays = c.arrays
  BY <1>10 DEF Made, Setting
<1>14. from(b, as, source)
         = Made([[c.qb EXCEPT !["from"] = t] EXCEPT !["fromSubquery"] = s], c.arrays)
  BY <1>1, <1>2, <1>3, <1>4, FromIs
<1> QED BY <1>12, <1>13, <1>14, Zenon DEF Setting

LEMMA JoinAgrees ==
    ASSUME NEW as, ArraysAgree(as), NEW b, Builder(b, as), PartsAgree(b),
           NEW table, NEW on, Agrees(on)
    PROVE  Sound(join(b, as, table, on))
<1>1. IsSeq(as) /\ Joins(as[b.joins]) /\ \A k \in DOMAIN as : Joins(as[k])
  BY DEF ArraysAgree, Builder
<1>2. PICK m : m = join(b, as, table, on)
  OBVIOUS
<1>3. PICK c : c = clone(b, as)
  OBVIOUS
<1>4. Sound(c) /\ Extending(c, as) /\ c.arrays = Append(as, as[b.joins])
  BY <1>1, <1>3, CloneAgrees, CloneExtends
<1>5. PICK j : j = [table |-> table, on |-> on]
  OBVIOUS
<1>6. /\ Extending(m, as) /\ m.qb = c.qb
      /\ DOMAIN m.arrays = DOMAIN c.arrays
      /\ m.arrays[Len(as) + 1] = Append(as[b.joins], j)
  <2>1. IsSeq(as)
    BY <1>1
  <2>2. /\ Extending(join(b, as, table, on), as) /\ join(b, as, table, on).qb = clone(b, as).qb
        /\ DOMAIN join(b, as, table, on).arrays = DOMAIN clone(b, as).arrays
        /\ join(b, as, table, on).arrays[Len(as) + 1]
             = Append(as[b.joins], [table |-> table, on |-> on])
    BY <2>1, JoinExtends, Zenon
  <2> QED BY <1>2, <1>3, <1>5, <2>2, Zenon
<1>7. Joins(Append(as[b.joins], j))
  <2>1. j.on = on
    BY <1>5
  <2>2. Joins(as[b.joins])
    BY <1>1
  <2> QED BY <2>1, <2>2, OneMoreJoin
<1>8. PICK n \in Nat : n = Len(as) /\ DOMAIN as = 1..n /\ Listed(as, n)
  BY <1>1, SeqIs
<1>9. DOMAIN c.arrays = 1..(n + 1)
  <2>1. Listed(as, n)
    BY <1>8
  <2>2. \E more : Copies(more, as, n, as[b.joins])
    BY <2>1, Copied, Zenon
  <2>3. PICK more : more = Append(as, as[b.joins]) /\ Listed(more, n + 1)
    BY <2>2, Zenon DEF Copies
  <2> QED BY <1>4, <2>3 DEF Listed
<1>10. ASSUME NEW k \in DOMAIN m.arrays
       PROVE  Joins(m.arrays[k])
  <2>1. CASE k = n + 1
    BY <1>6, <1>7, <1>8, <2>1
  <2>2. CASE k # n + 1
    <3>1. k \in DOMAIN as
      <4>1. k \in 1..(n + 1) /\ DOMAIN as = 1..n
        BY <1>6, <1>8, <1>9, Zenon
      <4> QED BY <2>2, <4>1
    <3> QED BY <1>1, <1>6, <3>1 DEF Extending
  <2> QED BY <2>1, <2>2
<1>11. ArraysAgree(m.arrays)
  BY <1>6, <1>10 DEF ArraysAgree, Extending
<1>12. PartsAgree(m.qb)
  BY <1>4, <1>6 DEF Sound
<1> QED BY <1>2, <1>11, <1>12 DEF Sound

\* What of another builder is taken in is its text and values.
LEMMA WithAgrees ==
    ASSUME NEW as, ArraysAgree(as), NEW b, Builder(b, as), PartsAgree(b),
           NEW name, NEW other, Agrees(toSQL(other, as))
    PROVE  Sound(with(b, as, name, other))
<1>1. PICK c : c = clone(b, as)
  OBVIOUS
<1>2. Sound(c)
  BY <1>1, CloneAgrees
<1>3. PICK q : q = toSQL(other, as)
  OBVIOUS
<1>4. PICK e : e = [name |-> name, sql |-> q.sql, values |-> q.values]
  OBVIOUS
<1>5. e.sql = q.sql /\ e.values = q.values
  BY <1>4
<1>6. Agrees(e)
  BY <1>3, <1>5 DEF Agrees
<1>7. AllAgree(c.qb.ctes)
  BY <1>2 DEF Sound, PartsAgree
<1>8. PICK more : more = Append(c.qb.ctes, e) /\ AllAgree(more)
  BY <1>6, <1>7, OneMore, Zenon DEF Grown
<1>9. with(b, as, name, other) = Setting(c, "ctes", more)
  <2>1. with(b, as, name, other) = Made([c.qb EXCEPT !["ctes"] = Append(c.qb["ctes"], e)], c.arrays)
    BY <1>1, <1>3, <1>4, Zenon DEF with
  <2> QED BY <1>8, <2>1, Zenon DEF Setting
<1>10. RightFor("ctes", more)
  BY <1>8 DEF RightFor
<1>11. "ctes" \in Fields
  BY FieldsAre
<1>12. Sound(Setting(c, "ctes", more))
  BY <1>2, <1>10, <1>11, SetAgrees
<1> QED BY <1>9, <1>12

LEMMA CombineAgrees ==
    ASSUME NEW as, ArraysAgree(as), NEW b, Builder(b, as), PartsAgree(b),
           NEW type \in SetOperations, NEW other, Agrees(toSQL(other, as)), NEW ask
    PROVE  Sound(Noted(combine(b, as, type, other), ask))
<1>1. PICK c : c = clone(b, as)
  OBVIOUS
<1>2. Sound(c)
  BY <1>1, CloneAgrees
<1>3. PICK q : q = toSQL(other, as)
  OBVIOUS
<1>4. PICK e : e = [type |-> type, sql |-> q.sql, values |-> q.values]
  OBVIOUS
<1>5. e.sql = q.sql /\ e.values = q.values /\ e.type = type
  BY <1>4
<1>6. Agrees(e)
  BY <1>3, <1>5 DEF Agrees
<1>7. AllAgree(c.qb.setOperations) /\ \A i \in DOMAIN c.qb.setOperations : c.qb.setOperations[i].type \in SetOperations
  BY <1>2 DEF Sound, PartsAgree, OperationsAgree
<1>8. PICK more : /\ more = Append(c.qb.setOperations, e) /\ AllAgree(more)
                  /\ \A i \in DOMAIN more :
                        more[i] = e \/ \E j \in DOMAIN c.qb.setOperations : more[i] = c.qb.setOperations[j]
  <2>1. AllAgree(c.qb.setOperations)
    BY <1>7
  <2>2. \E more : Grown(more, c.qb.setOperations, e)
    BY <1>6, <2>1, OneMore, Zenon
  <2> QED BY <2>2, Zenon DEF Grown
<1>9. OperationsAgree(more)
  BY <1>5, <1>7, <1>8 DEF OperationsAgree
<1>10. RightFor("setOperations", more)
  BY <1>9 DEF RightFor
<1>11. "setOperations" \in Fields /\ "asked" \in Fields
  BY FieldsAre
<1>12. PICK m : m = combine(b, as, type, other)
  OBVIOUS
<1>13. m = Setting(c, "setOperations", more)
  <2>1. m = Made([c.qb EXCEPT !["setOperations"] = Append(c.qb["setOperations"], e)], c.arrays)
    BY <1>1, <1>3, <1>4, <1>12, Zenon DEF combine
  <2> QED BY <1>8, <2>1, Zenon DEF Setting
<1>14. Sound(m)
  BY <1>2, <1>10, <1>11, <1>13, SetAgrees
<1>15. PICK asked : asked = Append(m.qb.asked, ask)
  OBVIOUS
<1>16. Noted(m, ask) = Setting(m, "asked", asked)
  <2>1. \E x, y : m = Made(x, y)
    BY <1>13, Zenon DEF Setting
  <2> QED BY <1>15, <2>1, NotedIs, Zenon DEF Setting
<1>17. RightFor("asked", asked)
  BY DEF RightFor
<1>18. Sound(Setting(m, "asked", asked))
  BY <1>11, <1>14, <1>17, SetAgrees
<1> QED BY <1>12, <1>16, <1>18

LEMMA LeavesAgree == \A l \in Leaves \cup Tests : Agrees(l)
BY QueryAssumption, Zenon DEF Expressed, Agrees, Matched, IsSeq

LEMMA MeaningAgrees ==
    ASSUME NEW e, Agrees(e), NEW f
    PROVE  Agrees(Meaning(e, f))
<1>1. Meaning(e, f).sql = e.sql /\ Meaning(e, f).values = e.values
  BY DEF Meaning
<1> QED BY <1>1 DEF Agrees

\* Arguments of the three kinds.
LEMMA ArgumentKinds ==
    /\ \A v : Argument(Plain(v))
    /\ \A c : Argument(ColumnRef(c))
    /\ \A e : Agrees(e) => Argument(Nested(e))
<1>1. \A v : Plain(v).a = "value"
  BY DEF Plain
<1>2. \A c : ColumnRef(c).a = "column"
  BY DEF ColumnRef
<1>3. \A e : Nested(e).a = "expression" /\ Nested(e).e = e
  BY DEF Nested
<1> QED BY <1>1, <1>2, <1>3 DEF Argument

LEMMA XAgrees == Agrees(X) /\ Matched(X.sql, <<>>)
<1>1. PICK e : e = Expression(<<Col("t.x")>>, <<>>)
  OBVIOUS
<1>2. Matched(<<Col("t.x")>>, <<>>)
  BY Marks
<1>3. Agrees(e)
  BY <1>1, <1>2, Agreeing
<1>4. PICK f : X = Meaning(e, f)
  BY <1>1, Zenon DEF X
<1>5. Agrees(X)
  BY <1>3, <1>4, MeaningAgrees
<1>6. X.sql = e.sql
  BY <1>4 DEF Meaning
<1>7. e.sql = <<Col("t.x")>>
  BY <1>1 DEF Expression
<1> QED BY <1>2, <1>5, <1>6, <1>7

\* One or two branches of a CASE.
LEMMA OneWhen ==
    ASSUME NEW c, NEW r, Argument(c), Argument(r)
    PROVE  WhensOf(<<when(c, r)>>)
<1>1. PICK w : w = when(c, r)
  OBVIOUS
<1>2. w.condition = c /\ w.result = r
  BY <1>1 DEF when
<1>3. PICK ws : ws = <<w>>
  OBVIOUS
<1>4. Listed(ws, 1) /\ ws[1] = w
  BY <1>3 DEF Listed
<1>5. \A i \in 1..1 : i = 1
  OBVIOUS
<1>6. \A i \in 1..1 : Argument(ws[i].condition) /\ Argument(ws[i].result)
  BY <1>2, <1>4, <1>5
<1>7. 1 \in Nat
  OBVIOUS
<1> QED BY <1>1, <1>3, <1>4, <1>6, <1>7, Zenon DEF WhensOf

LEMMA TwoWhens ==
    ASSUME NEW c, NEW r, NEW d, NEW s, Argument(c), Argument(r), Argument(d), Argument(s)
    PROVE  WhensOf(<<when(c, r), when(d, s)>>)
<1>1. PICK w : w = when(c, r)
  OBVIOUS
<1>2. PICK v : v = when(d, s)
  OBVIOUS
<1>3. w.condition = c /\ w.result = r /\ v.condition = d /\ v.result = s
  BY <1>1, <1>2 DEF when
<1>4. PICK ws : ws = <<w, v>>
  OBVIOUS
<1>5. Listed(ws, 2) /\ ws[1] = w /\ ws[2] = v
  BY <1>4 DEF Listed
<1>6. \A i \in 1..2 : i = 1 \/ i = 2
  OBVIOUS
<1>7. \A i \in 1..2 : Argument(ws[i].condition) /\ Argument(ws[i].result)
  BY <1>3, <1>5, <1>6
<1>8. 2 \in Nat
  OBVIOUS
<1> QED BY <1>1, <1>2, <1>4, <1>5, <1>7, <1>8, Zenon DEF WhensOf

LEMMA FlagAgrees ==
    ASSUME NEW l, Agrees(l)
    PROVE  Agrees(Flag(l))
<1>1. Argument(Nested(l)) /\ Argument(Plain(1)) /\ Argument(Plain(0))
  BY ArgumentKinds
<1>2. WhensOf(<<when(Nested(l), Plain(1))>>)
  BY <1>1, OneWhen
<1>3. PICK ws : ws = <<when(Nested(l), Plain(1))>>
  OBVIOUS
<1>4. PICK head : Cased(caseWhen(ws), head)
  BY <1>2, <1>3, CaseWhenAgrees
<1>5. Agrees(else(caseWhen(ws), Plain(0)))
  BY <1>1, <1>4, ElseAgrees, Zenon
<1>6. PICK f : Flag(l) = Meaning(else(caseWhen(ws), Plain(0)), f)
  BY <1>3, Zenon DEF Flag
<1> QED BY <1>5, <1>6, MeaningAgrees

LEMMA NoneAgree == AllAgree(<<>>) /\ Silent(<<>>) /\ Joins(<<>>) /\ OperationsAgree(<<>>)
<1>1. PICK none : none = <<>>
  OBVIOUS
<1>2. Listed(none, 0) /\ 0 \in Nat /\ DOMAIN none = {}
  BY <1>1 DEF Listed
<1>3. \A i \in 1..0 : FALSE
  OBVIOUS
<1>4. AllAgree(none)
  BY <1>2, <1>3, Zenon DEF AllAgree
<1>5. Silent(none)
  BY <1>2, <1>3, Zenon DEF Silent
<1>6. Joins(none)
  BY <1>2, <1>3, Zenon DEF Joins
<1>7. OperationsAgree(none)
  BY <1>2, <1>4 DEF OperationsAgree
<1> QED BY <1>1, <1>4, <1>5, <1>6, <1>7

\* A builder that nothing was asked of, with the first array.
LEMMA NewBuilderAgrees ==
    /\ PartsAgree(newBuilder)
    /\ \A as : 1 \in DOMAIN as => Builder(newBuilder, as)
<1>1. newBuilder = [f \in Fields |-> newBuilder[f]] /\ newBuilder.joins = 1
  BY DEF Fields, newBuilder
<1>2. /\ newBuilder.ctes = <<>> /\ newBuilder.select = <<>> /\ newBuilder.setOperations = <<>>
      /\ newBuilder.groupBy = <<>> /\ newBuilder.orderBy = <<>>
      /\ newBuilder.where = NoCondition /\ newBuilder.having = NoCondition
      /\ newBuilder.fromSubquery = NoSource
  BY DEF newBuilder
<1>3. Agrees(NoCondition)
  <2>1. NoCondition.sql = <<>> /\ NoCondition.values = <<>>
    BY DEF NoCondition
  <2> QED BY <2>1, Nothing DEF Agrees
<1>4. newBuilder = [f \in DOMAIN newBuilder |-> newBuilder[f]]
  BY <1>1 DEF Fields
<1>5. PartsAgree(newBuilder)
  BY <1>2, <1>3, <1>4, NoneAgree, Zenon DEF PartsAgree
<1>6. \A as : 1 \in DOMAIN as => Builder(newBuilder, as)
  BY <1>1 DEF Builder
<1> QED BY <1>5, <1>6

\* An array more, with no joins.
LEMMA FreshArray ==
    ASSUME NEW as, ArraysAgree(as)
    PROVE  ArraysAgree(Append(as, <<>>)) /\ 1 \in DOMAIN Append(as, <<>>)
<1>1. IsSeq(as) /\ \A k \in DOMAIN as : Joins(as[k])
  BY DEF ArraysAgree
<1>2. PICK n \in Nat : n = Len(as) /\ DOMAIN as = 1..n /\ Listed(as, n)
  BY <1>1, SeqIs
<1>3. PICK more : /\ more = Append(as, <<>>) /\ Listed(more, n + 1)
                  /\ \A k \in 1..n : more[k] = as[k]
                  /\ more[n + 1] = <<>>
  <2>1. Listed(as, n)
    BY <1>2
  <2>2. \E more : Copies(more, as, n, <<>>)
    BY <2>1, Copied, Zenon
  <2> QED BY <2>2, Zenon DEF Copies
<1>4. IsSeq(more) /\ DOMAIN more = 1..(n + 1)
  <2>1. n + 1 \in Nat
    OBVIOUS
  <2>2. Listed(more, n + 1)
    BY <1>3
  <2> QED BY <2>1, <2>2, IsOne, Zenon
<1>5. ASSUME NEW k \in DOMAIN more
      PROVE  Joins(more[k])
  <2>1. CASE k = n + 1
    BY <1>3, <2>1, NoneAgree
  <2>2. CASE k # n + 1
    <3>1. k \in 1..n
      BY <1>4, <2>2
    <3> QED BY <1>1, <1>2, <1>3, <3>1
  <2> QED BY <2>1, <2>2
<1>6. 1 \in 1..(n + 1)
  OBVIOUS
<1>7. ArraysAgree(more)
  BY <1>4, <1>5 DEF ArraysAgree
<1> QED BY <1>3, <1>4, <1>6, <1>7

LEMMA SubqueryAgrees ==
    ASSUME NEW b, NEW as, NEW alias, Agrees(toSQL(b, as))
    PROVE  Agrees(asSubquery(b, as, alias))
<1>1. PICK q : q = toSQL(b, as)
  OBVIOUS
<1>2. Matched(q.sql, q.values)
  BY <1>1 DEF Agrees
<1>3. Matched(<<Open("")>> \o q.sql \o <<Close>>, q.values)
  BY <1>2, Bracketed
<1>4. PICK text : text = <<Open("")>> \o q.sql \o <<Close>>
  OBVIOUS
<1>5. PICK vals : vals = q.values
  OBVIOUS
<1>6. asSubquery(b, as, alias)
        = [kind |-> "subquery", name |-> alias, sql |-> text, values |-> vals]
  BY <1>1, <1>4, <1>5, Zenon DEF asSubquery
<1>7. asSubquery(b, as, alias).sql = text /\ asSubquery(b, as, alias).values = vals
  BY <1>6
<1> QED BY <1>3, <1>4, <1>5, <1>7, Zenon DEF Agrees

\* A condition makes a query that agrees.
LEMMA SubqueryOfAgrees ==
    ASSUME NEW c, Agrees(c)
    PROVE  Agrees(SubqueryOf(c))
<1>1. PICK as : as = <<<<>>>>
  OBVIOUS
<1>2. ArraysAgree(as) /\ 1 \in DOMAIN as
  <2>1. Listed(as, 1) /\ as[1] = <<>>
    <3>1. PICK none : none = <<>>
      OBVIOUS
    <3>2. as = <<none>>
      BY <1>1, <3>1
    <3>3. Listed(as, 1) /\ as[1] = none
      BY <3>2 DEF Listed
    <3> QED BY <3>1, <3>3
  <2>2. 1 \in Nat
    OBVIOUS
  <2>3. IsSeq(as) /\ DOMAIN as = 1..1
    BY <2>1, <2>2, IsOne, Zenon
  <2>4. \A k \in 1..1 : k = 1
    OBVIOUS
  <2>5. \A k \in DOMAIN as : Joins(as[k])
    BY <2>1, <2>3, <2>4, NoneAgree
  <2>6. 1 \in 1..1
    OBVIOUS
  <2> QED BY <2>3, <2>5, <2>6, Zenon DEF ArraysAgree
<1>3. PICK u : u = [kind |-> "table", name |-> "u"]
  OBVIOUS
<1>4. u.kind # "subquery"
  BY <1>3
<1>5. PICK b1 : b1 = from(newBuilder, as, u)
  OBVIOUS
<1>6. Builder(newBuilder, as) /\ PartsAgree(newBuilder)
  BY <1>2, NewBuilderAgrees
<1>7. Sound(b1) /\ Extending(b1, as)
  <2>1. IsSeq(as)
    BY <1>2 DEF ArraysAgree
  <2>2. Builder(newBuilder, as)
    BY <1>6
  <2>3. Extending(b1, as)
    BY <1>5, <2>1, <2>2, FromExtends
  <2>4. u.kind = "subquery" => Agrees(u)
    BY <1>4
  <2>5. PartsAgree(newBuilder)
    BY <1>6
  <2>6. ArraysAgree(as)
    BY <1>2
  <2>7. Sound(b1)
    BY <1>5, <2>2, <2>4, <2>5, <2>6, FromAgrees, Zenon
  <2> QED BY <2>3, <2>7
<1>8. Builder(b1.qb, b1.arrays) /\ PartsAgree(b1.qb) /\ ArraysAgree(b1.arrays) /\ IsSeq(b1.arrays)
  BY <1>7 DEF Sound, Extending
<1>9. PICK e : e = Meaning(Expression(<<Col("u.k")>>, <<>>), <<>>)
  OBVIOUS
<1>10. Agrees(e)
  <2>1. Matched(<<Col("u.k")>>, <<>>)
    BY Marks
  <2>2. Agrees(Expression(<<Col("u.k")>>, <<>>))
    BY <2>1, Agreeing
  <2> QED BY <1>9, <2>2, MeaningAgrees
<1>11. AllAgree(<<e>>)
  BY <1>10, OfOne
<1>12. PICK b2 : b2 = select(b1.qb, b1.arrays, <<e>>)
  OBVIOUS
<1>13. Sound(b2)
  BY <1>8, <1>11, <1>12, SelectAgrees
<1>14. Extending(b2, b1.arrays)
  BY <1>8, <1>12, SelectExtends
<1>15. Builder(b2.qb, b2.arrays) /\ PartsAgree(b2.qb) /\ ArraysAgree(b2.arrays) /\ IsSeq(b2.arrays)
  BY <1>13, <1>14 DEF Sound, Extending
<1>16. PICK b3 : b3 = where(b2.qb, b2.arrays, c)
  OBVIOUS
<1>17. Sound(b3)
  BY <1>15, <1>16, MethodsAgree
<1>18. Extending(b3, b2.arrays)
  BY <1>15, <1>16, SetIs
<1>19. PartsAgree(b3.qb) /\ Joins(b3.arrays[b3.qb.joins])
  BY <1>17, <1>18 DEF Sound, Extending, Builder, ArraysAgree
<1>20. Agrees(toSQL(b3.qb, b3.arrays))
  BY <1>19, ToSQLAgrees
<1>21. SubqueryOf(c) = toSQL(b3.qb, b3.arrays)
  BY <1>1, <1>3, <1>5, <1>9, <1>12, <1>16, Zenon DEF SubqueryOf
<1> QED BY <1>20, <1>21

\* A sequence is made of its members, one after another.
LEMMA FlatSingles ==
    ASSUME NEW T, NEW vals \in Seq(T)
    PROVE  FlattenSeq([i \in 1..Len(vals) |-> <<vals[i]>>]) = vals
<1> DEFINE ss == [i \in 1..Len(vals) |-> <<vals[i]>>]
<1>1. Len(vals) \in Nat /\ ss \in Seq(Seq(T)) /\ Len(ss) = Len(vals)
  OBVIOUS
<1>2. \A i \in 1..Len(vals) : ss[i] = <<vals[i]>>
  OBVIOUS
<1>3. CASE Len(vals) = 0
  <2>1. ss = <<>> /\ vals = <<>>
    BY <1>3
  <2> HIDE DEF ss
  <2> QED BY <2>1, FlatNone
<1> HIDE DEF ss
<1>4. CASE Len(vals) # 0
  <2>1. PICK f \in [1..Len(ss) -> Seq(T)] :
            /\ \A i \in 1..Len(ss) : f[i] = IF i = 1 THEN ss[i] ELSE f[i-1] \o ss[i]
            /\ FlattenSeq(ss) = f[Len(ss)]
    BY <1>1, <1>4, FlatIs
  <2> DEFINE S == {n \in Nat : n # 0 /\ n <= Len(vals)
                                 => Len(f[n]) = n /\ \A k \in 1..n : f[n][k] = vals[k]}
  <2>2. 0 \in S
    OBVIOUS
  <2>3. ASSUME NEW n \in S
        PROVE  n + 1 \in S
    <3>1. n \in Nat /\ (n # 0 /\ n <= Len(vals)
                         => Len(f[n]) = n /\ \A k \in 1..n : f[n][k] = vals[k])
      OBVIOUS
    <3> HIDE DEF S
    <3>2. SUFFICES ASSUME n + 1 <= Len(vals)
                   PROVE  Len(f[n+1]) = n + 1 /\ \A k \in 1..(n+1) : f[n+1][k] = vals[k]
      BY <3>1 DEF S
    <3>3. PICK m \in 1..Len(vals) : m = n + 1
      BY <3>1, <3>2
    <3>4. PICK v \in T : v = vals[m]
      OBVIOUS
    <3>5. f[m] = IF m = 1 THEN <<v>> ELSE f[m-1] \o <<v>>
      BY <1>1, <1>2, <2>1, <3>3, <3>4
    <3>6. CASE n = 0
      <4>1. f[m] = <<v>>
        BY <3>3, <3>5, <3>6
      <4>2. Len(f[m]) = 1 /\ f[m][1] = v
        BY <4>1
      <4>3. \A k \in 1..m : k = 1
        BY <3>3, <3>6
      <4> QED BY <3>3, <3>4, <3>6, <4>2, <4>3
    <3>7. CASE n # 0
      <4>1. n \in 1..Len(vals) /\ m # 1 /\ m - 1 = n
        BY <3>1, <3>2, <3>3, <3>7
      <4>2. PICK g \in Seq(T) : g = f[n]
        BY <1>1, <2>1, <4>1
      <4>3. Len(g) = n /\ \A k \in 1..n : g[k] = vals[k]
        BY <3>1, <3>7, <4>1, <4>2
      <4>4. f[m] = g \o <<v>>
        BY <3>5, <4>1, <4>2
      <4>5. Len(f[m]) = n + 1 /\ f[m][n + 1] = v /\ \A k \in 1..n : f[m][k] = g[k]
        BY <4>3, <4>4
      <4>6. \A k \in 1..(n + 1) : k = n + 1 \/ k \in 1..n
        BY <3>1
      <4> QED BY <3>3, <3>4, <4>3, <4>5, <4>6
    <3> QED BY <3>6, <3>7
  <2>4. S \in SUBSET Nat
    OBVIOUS
  <2> HIDE DEF S
  <2>5. S = Nat
    BY <2>2, <2>3, <2>4, ByInduction
  <2>6. Len(f[Len(vals)]) = Len(vals) /\ \A k \in 1..Len(vals) : f[Len(vals)][k] = vals[k]
    <3>1. \A n \in Nat : n # 0 /\ n <= Len(vals)
                            => Len(f[n]) = n /\ \A k \in 1..n : f[n][k] = vals[k]
      BY <2>5, Zenon DEF S
    <3>2. Len(vals) \in Nat /\ Len(vals) # 0 /\ Len(vals) <= Len(vals)
      BY <1>1, <1>4
    <3> QED BY <3>1, <3>2, Zenon
  <2>7. f[Len(vals)] \in Seq(T)
    BY <1>1, <1>4, <2>1
  <2>8. f[Len(vals)] = vals
    BY <2>6, <2>7, SameSeq
  <2> QED BY <1>1, <2>1, <2>8 DEF ss
<1> QED BY <1>3, <1>4

\* A list of placeholders asks for the values it is made for.
LEMMA ListMatched ==
    ASSUME NEW vals, IsSeq(vals)
    PROVE  Matched(Joining(Placeholders(vals), Sep(",")), vals)
<1>1. PICK n \in Nat : n = Len(vals) /\ DOMAIN vals = 1..n
  BY SeqIs
<1>2. PICK ts : ts = Placeholders(vals)
  OBVIOUS
<1>3. ts = [i \in 1..n |-> <<Hole(vals[i])>>]
  BY <1>1, <1>2 DEF Placeholders
<1>4. PICK vs : vs = [i \in 1..n |-> <<vals[i]>>]
  OBVIOUS
<1>5. Listed(ts, n) /\ \A i \in 1..n : ts[i] = <<Hole(vals[i])>>
  BY <1>3 DEF Listed
<1>6. Listed(vs, n) /\ \A i \in 1..n : vs[i] = <<vals[i]>>
  BY <1>4 DEF Listed
<1>7. \A i \in 1..n : Matched(ts[i], vs[i])
  BY <1>5, <1>6, Placeholder
<1>8. Sep(",").t # "?"
  BY DEF Sep
<1>9. Matched(Joining(ts, Sep(",")), FlattenSeq(vs))
  BY <1>5, <1>6, <1>7, <1>8, MatchedJoining
<1>10. FlattenSeq(vs) = vals
  <2>1. vals \in Seq(Range(vals))
    BY DEF IsSeq
  <2> QED BY <1>1, <1>4, <2>1, FlatSingles
<1> QED BY <1>2, <1>9, <1>10

LEMMA TestAgrees ==
    ASSUME NEW column, NEW tokens, NEW vals, Matched(tokens, vals)
    PROVE  Agrees(Test(column, tokens, vals))
<1>1. Matched(<<Open(""), Col(column)>>, <<>>)
  <2>1. Matched(<<Open("")>>, <<>>) /\ Matched(<<Col(column)>>, <<>>)
    BY Marks
  <2> QED BY <2>1, TwoWords
<1>2. Matched(<<Close>>, <<>>)
  BY Marks
<1>3. Matched(<<Open(""), Col(column)>> \o tokens, vals)
  BY <1>1, PlainBefore
<1>4. Matched(<<Open(""), Col(column)>> \o tokens \o <<Close>>, vals)
  BY <1>2, <1>3, PlainAfter
<1>5. Test(column, tokens, vals)
        = Expression(<<Open(""), Col(column)>> \o tokens \o <<Close>>, vals)
  BY Zenon DEF Test
<1> QED BY <1>4, <1>5, Agreeing

\* An operator before a list in brackets.
LEMMA ListAgrees ==
    ASSUME NEW column, NEW operator, NEW vals, IsSeq(vals)
    PROVE  Agrees(Test(column, <<Op(operator), Open("")>> \o Joining(Placeholders(vals), Sep(","))
                                 \o <<Close>>, vals))
<1>1. Matched(<<Op(operator), Open("")>>, <<>>)
  <2>1. Matched(<<Op(operator)>>, <<>>) /\ Matched(<<Open("")>>, <<>>)
    BY Marks
  <2> QED BY <2>1, TwoWords
<1>2. PICK list : list = Joining(Placeholders(vals), Sep(",")) /\ Matched(list, vals)
  BY ListMatched
<1>3. Matched(<<Close>>, <<>>)
  BY Marks
<1>4. Matched(<<Op(operator), Open("")>> \o list, vals)
  BY <1>1, <1>2, PlainBefore
<1>5. Matched(<<Op(operator), Open("")>> \o list \o <<Close>>, vals)
  BY <1>3, <1>4, PlainAfter
<1> QED BY <1>2, <1>5, TestAgrees, Zenon

\* An operator before one placeholder, and a range of two.
LEMMA OneHole ==
    ASSUME NEW operator, NEW v
    PROVE  Matched(<<Op(operator), Hole(v)>>, <<v>>)
<1>1. Matched(<<Op(operator)>>, <<>>) /\ Matched(<<Hole(v)>>, <<v>>)
  BY Marks, Placeholder
<1>2. Matched(<<Op(operator)>> \o <<Hole(v)>>, <<v>>)
  BY <1>1, PlainBefore
<1>3. <<Op(operator)>> \o <<Hole(v)>> = <<Op(operator), Hole(v)>>
  BY TwoOfThem
<1> QED BY <1>2, <1>3

LEMMA FourOfThem ==
    ASSUME NEW a, NEW b, NEW c, NEW d
    PROVE  <<a, b, c, d>> = <<a, b>> \o <<c, d>>
<1>1. PICK T : T = {a, b, c, d}
  OBVIOUS
<1>2. PICK s : s = <<a, b, c, d>>
  OBVIOUS
<1>3. PICK x : x = <<a, b>>
  OBVIOUS
<1>4. PICK y : y = <<c, d>>
  OBVIOUS
<1>5. s \in Seq(T) /\ Len(s) = 4 /\ s[1] = a /\ s[2] = b /\ s[3] = c /\ s[4] = d
  BY <1>1, <1>2
<1>6. x \in Seq(T) /\ Len(x) = 2 /\ x[1] = a /\ x[2] = b
  BY <1>1, <1>3
<1>7. y \in Seq(T) /\ Len(y) = 2 /\ y[1] = c /\ y[2] = d
  BY <1>1, <1>4
<1>8. PICK u : u = x \o y
  OBVIOUS
<1>9. u \in Seq(T) /\ Len(u) = 4 /\ u[1] = a /\ u[2] = b /\ u[3] = c /\ u[4] = d
  <2>1. x \in Seq(T)
    BY <1>6
  <2>2. y \in Seq(T)
    BY <1>7
  <2>3. /\ x \o y \in Seq(T) /\ Len(x \o y) = Len(x) + Len(y)
        /\ \A i \in 1..(Len(x) + Len(y)) : (x \o y)[i] = IF i <= Len(x) THEN x[i] ELSE y[i - Len(x)]
    BY <2>1, <2>2, Joined
  <2>4. /\ u \in Seq(T) /\ Len(u) = 4
        /\ \A i \in 1..4 : u[i] = IF i <= 2 THEN x[i] ELSE y[i - 2]
    BY <1>6, <1>7, <1>8, <2>3
  <2> HIDE <1>8
  <2> QED BY <1>6, <1>7, <2>4
<1>10. \A i \in 1..4 : i = 1 \/ i = 2 \/ i = 3 \/ i = 4
  OBVIOUS
<1>11. \A i \in 1..Len(s) : s[i] = u[i]
  BY <1>5, <1>9, <1>10
<1>12. s \in Seq(T) /\ u \in Seq(T) /\ Len(s) = Len(u)
  BY <1>5, <1>9
<1>13. s = u
  BY <1>11, <1>12, SameSeq
<1> QED BY <1>2, <1>3, <1>4, <1>8, <1>13

LEMMA RangeMatched ==
    ASSUME NEW low, NEW high
    PROVE  Matched(<<Op("BETWEEN"), Hole(low), K("to"), Hole(high)>>, <<low, high>>)
<1>1. Matched(<<Op("BETWEEN"), Hole(low)>>, <<low>>)
  BY OneHole
<1>2. Matched(<<K("to"), Hole(high)>>, <<high>>)
  <2>1. "to" # "?"
    OBVIOUS
  <2>2. Matched(<<K("to")>>, <<>>) /\ Matched(<<Hole(high)>>, <<high>>)
    BY <2>1, Keyword, Placeholder
  <2>3. Matched(<<K("to")>> \o <<Hole(high)>>, <<high>>)
    BY <2>2, PlainBefore
  <2>4. <<K("to"), Hole(high)>> = <<K("to")>> \o <<Hole(high)>>
    BY TwoOfThem
  <2> QED BY <2>3, <2>4
<1>3. Matched(<<Op("BETWEEN"), Hole(low)>> \o <<K("to"), Hole(high)>>, <<low>> \o <<high>>)
  BY <1>1, <1>2, MatchedJoin
<1>4. <<low, high>> = <<low>> \o <<high>>
  BY TwoOfThem
<1>5. <<Op("BETWEEN"), Hole(low), K("to"), Hole(high)>>
        = <<Op("BETWEEN"), Hole(low)>> \o <<K("to"), Hole(high)>>
  BY FourOfThem
<1> QED BY <1>3, <1>4, <1>5

\* What is assumed of the conditions that an application starts from holds of those the
\* functions of the module make of plain values: each asks, in the order of its text, for
\* the values that it comes with, lists of any length included (expressions.ts: eq to lte,
\* inArray, notInArray, between, like, isNull, isNotNull).
THEOREM ConditionsExpressed ==
    /\ \A name, column, v : Expressed(compare(name, ColumnRef(column), Plain(v)))
    /\ \A column, vals : IsSeq(vals) => /\ Expressed(inArray(column, vals))
                                       /\ Expressed(notInArray(column, vals))
    /\ \A column, low, high : Expressed(between(column, low, high))
    /\ \A column, v : Expressed(like(column, v))
    /\ \A column : Expressed(isNull(column)) /\ Expressed(isNotNull(column))
<1>1. \A e : Agrees(e) => Expressed(e)
  BY Zenon DEF Expressed, Agrees, Matched, IsSeq
<1>2. \A name, column, v : Agrees(compare(name, ColumnRef(column), Plain(v)))
  BY ArgumentKinds, CompareAgrees, Zenon
<1>3. ASSUME NEW column, NEW vals, IsSeq(vals)
      PROVE  Agrees(inArray(column, vals)) /\ Agrees(notInArray(column, vals))
  <2>1. CASE vals = <<>>
    <3>1. Matched(<<K("FALSE")>>, <<>>) /\ Matched(<<K("TRUE")>>, <<>>)
      BY Keyword
    <3>2. Agrees(Expression(<<K("FALSE")>>, <<>>)) /\ Agrees(Expression(<<K("TRUE")>>, <<>>))
      BY <3>1, Agreeing
    <3> QED BY <2>1, <3>2, Zenon DEF inArray, notInArray
  <2>2. CASE vals # <<>>
    <3>1. \A operator : Agrees(Test(column, <<Op(operator), Open("")>>
                                   \o Joining(Placeholders(vals), Sep(",")) \o <<Close>>, vals))
      BY <1>3, ListAgrees, Zenon
    <3> QED BY <2>2, <3>1, Zenon DEF inArray, notInArray
  <2> QED BY <2>1, <2>2
<1>4. \A column, low, high : Agrees(between(column, low, high))
  BY RangeMatched, TestAgrees, Zenon DEF between
<1>5. \A column, v : Agrees(like(column, v))
  BY OneHole, TestAgrees, Zenon DEF like
<1>6. \A column : Agrees(isNull(column)) /\ Agrees(isNotNull(column))
  <2>1. \A o : Matched(<<Op(o)>>, <<>>)
    BY Marks
  <2> QED BY <2>1, TestAgrees, Zenon DEF isNull, isNotNull
<1> QED BY <1>1, <1>2, <1>3, <1>4, <1>5, <1>6, Zenon

\* The values of the condition, of the joins and of the parts of all builders are in order.
Valued ==
    /\ Agrees(cond)
    /\ ArraysAgree(arrays)
    /\ \A i \in DOMAIN builders : PartsAgree(builders[i])

LEMMA ValuedInit == Init => Valued
<1> SUFFICES ASSUME Init PROVE Valued
  OBVIOUS
<1>1. cond.sql = <<K("TRUE")>> /\ cond.values = <<>>
  BY DEF Init, Start
<1>2. Matched(<<K("TRUE")>>, <<>>)
  BY Keyword
<1>3. Agrees(cond)
  BY <1>1, <1>2 DEF Agrees
<1>4. PICK none : none = <<>>
  OBVIOUS
<1>5. arrays = none /\ builders = none /\ DOMAIN none = {}
  BY <1>4 DEF Init
<1>6. Listed(none, 0) /\ 0 \in Nat
  BY <1>4 DEF Listed
<1>7. IsSeq(none)
  BY <1>6, IsOne
<1> QED BY <1>3, <1>5, <1>7 DEF Valued, ArraysAgree

LEMMA QueriesAgree ==
    ASSUME Shape, Valued, NEW i \in DOMAIN builders
    PROVE  Agrees(toSQL(builders[i], arrays))
<1>1. builders[i].joins \in DOMAIN arrays
  BY DEF Shape, Builder
<1>2. PartsAgree(builders[i]) /\ Joins(arrays[builders[i].joins])
  BY <1>1 DEF Valued, ArraysAgree
<1> QED BY <1>2, ToSQLAgrees

LEMMA DerivingAgrees ==
    ASSUME ~ValuedGroups, Shape, Valued, Deriving
    PROVE  \E m : Sound(m) /\ Adds(m)
<1>1. ASSUME NEW i \in DOMAIN builders
      PROVE  Builder(builders[i], arrays) /\ PartsAgree(builders[i]) /\ Agrees(toSQL(builders[i], arrays))
  BY QueriesAgree DEF Shape, Valued
<1>2. ArraysAgree(arrays)
  BY DEF Valued
<1>3. CASE New
  <2>1. PICK u : u = [kind |-> "table", name |-> "t"]
    OBVIOUS
  <2>2. u.kind = "subquery" => Agrees(u)
    BY <2>1
  <2>3. PICK more : more = Append(arrays, <<>>)
    OBVIOUS
  <2>4. ArraysAgree(more) /\ 1 \in DOMAIN more
    BY <1>2, <2>3, FreshArray
  <2>5. Builder(newBuilder, more) /\ PartsAgree(newBuilder)
    BY <2>4, NewBuilderAgrees
  <2>6. ArraysAgree(more)
    BY <2>4
  <2>7. Builder(newBuilder, more)
    BY <2>5
  <2>8. PartsAgree(newBuilder)
    BY <2>5
  <2>9. Sound(from(newBuilder, more, u))
    BY <2>2, <2>6, <2>7, <2>8, FromAgrees, Zenon
  <2>10. Adds(from(newBuilder, more, u))
    BY <1>3, <2>1, <2>3, Zenon DEF New
  <2> QED BY <2>9, <2>10
<1>4. CASE Select
  <2>1. PICK i \in DOMAIN builders :
            \/ \E l \in Leaves : Adds(select(builders[i], arrays, <<X, Flag(l)>>))
            \/ Adds(select(builders[i], arrays, <<X>>))
            \/ Adds(selectAll(builders[i], arrays))
            \/ Adds(distinct(builders[i], arrays))
    BY <1>4, Zenon DEF Select
  <2>2. \A fields : AllAgree(fields) => Sound(select(builders[i], arrays, fields))
    BY <1>1, <1>2, SelectAgrees, Zenon
  <2>3. selectAll(builders[i], arrays) = select(builders[i], arrays, <<>>)
    BY Zenon DEF selectAll
  <2>4. Sound(distinct(builders[i], arrays))
    BY <1>1, <1>2, MethodsAgree, Zenon
  <2>5. \A l \in Leaves : Agrees(Flag(l))
    BY LeavesAgree, FlagAgrees
  <2>6. Agrees(X)
    BY XAgrees
  <2>7. \A l \in Leaves : AllAgree(<<X, Flag(l)>>)
    BY <2>5, <2>6, OfTwo, Zenon
  <2>8. AllAgree(<<X>>)
    BY <2>6, OfOne, Zenon
  <2>9. AllAgree(<<>>)
    BY NoneAgree
  <2> QED BY <2>1, <2>2, <2>3, <2>4, <2>7, <2>8, <2>9, Zenon
<1>5. CASE From
  <2>1. PICK i \in DOMAIN builders, j \in DOMAIN builders :
            \/ Adds(from(builders[i], arrays, [kind |-> "table", name |-> "t"]))
            \/ Adds(from(builders[i], arrays, asSubquery(builders[j], arrays, "s")))
    BY <1>5, Zenon DEF From
  <2>2. PICK u : u = [kind |-> "table", name |-> "t"]
    OBVIOUS
  <2>3. u.kind = "subquery" => Agrees(u)
    BY <2>2
  <2>4. Agrees(asSubquery(builders[j], arrays, "s"))
    BY <1>1, SubqueryAgrees, Zenon
  <2>5. \A source : (source.kind = "subquery" => Agrees(source))
                      => Sound(from(builders[i], arrays, source))
    BY <1>1, <1>2, FromAgrees, Zenon
  <2> QED BY <2>1, <2>2, <2>3, <2>4, <2>5, Zenon
<1>6. CASE Join
  <2>1. PICK i \in DOMAIN builders, l \in Leaves : Adds(join(builders[i], arrays, "u", l))
    BY <1>6, Zenon DEF Join
  <2>2. Agrees(l)
    BY LeavesAgree
  <2>3. Sound(join(builders[i], arrays, "u", l))
    BY <1>1, <1>2, <2>2, JoinAgrees, Zenon
  <2> QED BY <2>1, <2>3
<1>7. CASE Where
  <2>1. PICK i \in DOMAIN builders, l \in Leaves :
            Adds(where(builders[i], arrays, l)) \/ Adds(having(builders[i], arrays, l))
    BY <1>7, Zenon DEF Where
  <2>2. Agrees(l)
    BY LeavesAgree
  <2>3. Sound(where(builders[i], arrays, l)) /\ Sound(having(builders[i], arrays, l))
    BY <1>1, <1>2, <2>2, MethodsAgree, Zenon
  <2> QED BY <2>1, <2>3
<1>8. CASE Grouping
  <2>1. PICK i \in DOMAIN builders : \/ Adds(groupBy(builders[i], arrays, X))
                                     \/ Adds(orderBy(builders[i], arrays, X))
    BY <1>8, Zenon DEF Grouping
  <2>2. Matched(X.sql, <<>>)
    BY XAgrees
  <2>3. Sound(groupBy(builders[i], arrays, X)) /\ Sound(orderBy(builders[i], arrays, X))
    BY <1>1, <1>2, <2>2, MethodsAgree, Zenon
  <2> QED BY <2>1, <2>3
<1>9. CASE Window
  <2>1. PICK i \in DOMAIN builders : Adds(limit(builders[i], arrays)) \/ Adds(offset(builders[i], arrays))
    BY <1>9, Zenon DEF Window
  <2>2. Sound(limit(builders[i], arrays)) /\ Sound(offset(builders[i], arrays))
    BY <1>1, <1>2, MethodsAgree, Zenon
  <2> QED BY <2>1, <2>2
<1>10. CASE With
  <2>1. PICK i \in DOMAIN builders, j \in DOMAIN builders : Adds(with(builders[i], arrays, "c", builders[j]))
    BY <1>10, Zenon DEF With
  <2>2. Sound(with(builders[i], arrays, "c", builders[j]))
    BY <1>1, <1>2, WithAgrees, Zenon
  <2> QED BY <2>1, <2>2
<1>11. CASE SetOperation
  <2>1. PICK i \in DOMAIN builders, j \in DOMAIN builders, type \in SetOperations :
            \E ask : Adds(Noted(combine(builders[i], arrays, type, builders[j]), ask))
    BY <1>11, Zenon DEF SetOperation, Noted
  <2>2. \A ask : Sound(Noted(combine(builders[i], arrays, type, builders[j]), ask))
    BY <1>1, <1>2, CombineAgrees, Zenon
  <2> QED BY <2>1, <2>2, Zenon
<1> QED BY <1>3, <1>4, <1>5, <1>6, <1>7, <1>8, <1>9, <1>10, <1>11 DEF Deriving

LEMMA SoundStep ==
    ASSUME Shape, Valued, NEW m, Sound(m), Adds(m)
    PROVE  Valued'
<1>1. PICK n \in Nat : n = Len(builders) /\ DOMAIN builders = 1..n /\ Listed(builders, n)
  BY SeqIs DEF Shape
<1>2. builders' = Append(builders, m.qb) /\ arrays' = m.arrays /\ cond' = cond
  BY DEF Adds
<1>3. PICK more : /\ more = Append(builders, m.qb) /\ Listed(more, n + 1)
                  /\ \A k \in 1..n : more[k] = builders[k]
                  /\ more[n + 1] = m.qb
  <2>1. Listed(builders, n)
    BY <1>1
  <2>2. \E more : Copies(more, builders, n, m.qb)
    BY <2>1, Copied, Zenon
  <2> QED BY <2>2, Zenon DEF Copies
<1>4. DOMAIN more = 1..(n + 1)
  BY <1>3 DEF Listed
<1>5. ASSUME NEW i \in DOMAIN more
      PROVE  PartsAgree(more[i])
  <2>1. CASE i = n + 1
    BY <1>3, <2>1 DEF Sound
  <2>2. CASE i # n + 1
    <3>1. i \in 1..n
      BY <1>4, <2>2
    <3> QED BY <1>1, <1>3, <3>1 DEF Valued
  <2> QED BY <2>1, <2>2
<1>6. ArraysAgree(m.arrays) /\ Agrees(cond)
  BY DEF Sound, Valued
<1> QED BY <1>2, <1>3, <1>5, <1>6 DEF Valued

LEMMA ComposedAgrees ==
    ASSUME Valued, NEW e, Agrees(e), NEW type, NEW f, NEW spliced, NEW steps,
           Composes(e, type, f, spliced, steps)
    PROVE  Valued'
<1>1. builders' = builders /\ arrays' = arrays
  BY DEF Composes
<1>2. PICK c : /\ c = cond'
               /\ c = [sql |-> e.sql, values |-> e.values, means |-> f, type |-> type,
                       spliced |-> spliced, steps |-> cond.steps + steps]
  BY DEF Composes
<1>3. c.sql = e.sql /\ c.values = e.values
  BY <1>2
<1>4. Agrees(c)
  BY <1>3 DEF Agrees
<1> QED BY <1>1, <1>2, <1>4 DEF Valued

\* The arguments of one to three kinds.
LEMMA TwoArguments ==
    ASSUME NEW a, NEW b, Argument(a), Argument(b)
    PROVE  Arguments(<<a, b>>)
<1>1. PICK args : args = <<a, b>>
  OBVIOUS
<1>2. Listed(args, 2) /\ args[1] = a /\ args[2] = b
  BY <1>1 DEF Listed
<1>3. \A i \in 1..2 : i = 1 \/ i = 2
  OBVIOUS
<1>4. \A i \in 1..2 : Argument(args[i])
  BY <1>2, <1>3
<1>5. 2 \in Nat
  OBVIOUS
<1> QED BY <1>1, <1>2, <1>4, <1>5, Zenon DEF Arguments

LEMMA ThreeArguments ==
    ASSUME NEW a, NEW b, NEW c, Argument(a), Argument(b), Argument(c)
    PROVE  Arguments(<<a, b, c>>)
<1>1. PICK args : args = <<a, b, c>>
  OBVIOUS
<1>2. Listed(args, 3) /\ args[1] = a /\ args[2] = b /\ args[3] = c
  BY <1>1 DEF Listed
<1>3. \A i \in 1..3 : i = 1 \/ i = 2 \/ i = 3
  OBVIOUS
<1>4. \A i \in 1..3 : Argument(args[i])
  BY <1>2, <1>3
<1>5. 3 \in Nat
  OBVIOUS
<1> QED BY <1>1, <1>2, <1>4, <1>5, Zenon DEF Arguments

\* The arguments of a template, any number of them.
LEMMA Everyone ==
    ASSUME NEW args, Arguments(args)
    PROVE  \A i \in DOMAIN args : Argument(args[i])
BY DEF Arguments, Listed

\* `(<condition>) > ?`
LEMMA FirstTemplate ==
    ASSUME NEW a, NEW b, Argument(a), Argument(b)
    PROVE  Agrees(sql(<<<<Open("")>>, <<Close, Op(">")>>, <<>>>>, <<a, b>>))
<1>1. PICK s : s = <<Open("")>> /\ Matched(s, <<>>)
  BY Marks
<1>2. PICK t : t = <<Close, Op(">")>> /\ Matched(t, <<>>)
  <2>1. Matched(<<Close>>, <<>>) /\ Matched(<<Op(">")>>, <<>>)
    BY Marks
  <2> QED BY <2>1, TwoWords
<1>3. PICK u : u = <<>> /\ Matched(u, <<>>)
  BY Nothing
<1>4. PICK strings : strings = <<s, t, u>>
  OBVIOUS
<1>5. Listed(strings, 3) /\ strings[1] = s /\ strings[2] = t /\ strings[3] = u
  BY <1>4 DEF Listed
<1>6. \A i \in 1..3 : i = 1 \/ i = 2 \/ i = 3
  OBVIOUS
<1>7. Matched(s, <<>>) /\ Matched(t, <<>>) /\ Matched(u, <<>>)
  BY <1>1, <1>2, <1>3
<1>8. \A i \in 1..3 : Matched(strings[i], <<>>)
  BY <1>5, <1>6, <1>7, Zenon
<1>9. PICK args : args = <<a, b>> /\ \A i \in DOMAIN args : Argument(args[i])
  BY TwoArguments, Everyone
<1>10. 3 \in Nat
  OBVIOUS
<1>11. Listed(strings, 3)
  BY <1>5
<1>12. \A i \in DOMAIN args : Argument(args[i])
  BY <1>9
<1>13. Agrees(sql(strings, args))
  BY <1>8, <1>10, <1>11, <1>12, TemplateAgrees, Zenon
<1> QED BY <1>1, <1>2, <1>3, <1>4, <1>9, <1>13, Zenon

\* `<column> = ? OR <condition>`
LEMMA SecondTemplate ==
    ASSUME NEW a, NEW b, NEW c, Argument(a), Argument(b), Argument(c)
    PROVE  Agrees(sql(<<<<>>, <<Op("=")>>, <<K("OR")>>, <<>>>>, <<a, b, c>>))
<1>1. PICK s : s = <<Op("=")>> /\ Matched(s, <<>>)
  BY Marks
<1>2. PICK t : t = <<K("OR")>> /\ Matched(t, <<>>)
  <2>1. "OR" # "?"
    OBVIOUS
  <2> QED BY <2>1, Keyword
<1>3. PICK u : u = <<>> /\ Matched(u, <<>>)
  BY Nothing
<1>4. PICK strings : strings = <<u, s, t, u>>
  OBVIOUS
<1>5. Listed(strings, 4) /\ strings[1] = u /\ strings[2] = s /\ strings[3] = t /\ strings[4] = u
  BY <1>4 DEF Listed
<1>6. \A i \in 1..4 : i = 1 \/ i = 2 \/ i = 3 \/ i = 4
  OBVIOUS
<1>7. Matched(s, <<>>) /\ Matched(t, <<>>) /\ Matched(u, <<>>)
  BY <1>1, <1>2, <1>3
<1>8. \A i \in 1..4 : Matched(strings[i], <<>>)
  BY <1>5, <1>6, <1>7, Zenon
<1>9. PICK args : args = <<a, b, c>> /\ \A i \in DOMAIN args : Argument(args[i])
  BY ThreeArguments, Everyone
<1>10. 4 \in Nat
  OBVIOUS
<1>11. Listed(strings, 4)
  BY <1>5
<1>12. \A i \in DOMAIN args : Argument(args[i])
  BY <1>9
<1>13. Agrees(sql(strings, args))
  BY <1>8, <1>10, <1>11, <1>12, TemplateAgrees, Zenon
<1> QED BY <1>1, <1>2, <1>3, <1>4, <1>9, <1>13, Zenon

\* Every step that composes a condition composes one that agrees.
LEMMA ComposingAgrees ==
    ASSUME Valued, Composing
    PROVE  Valued'
<1>1. Agrees(cond)
  BY DEF Valued
<1>2. \A l \in Leaves \cup Tests : Agrees(l)
  BY LeavesAgree
<1>3. /\ \A v : Argument(Plain(v))
      /\ \A c : Argument(ColumnRef(c))
      /\ \A l \in Leaves : Argument(Nested(l))
      /\ Argument(Nested(cond))
  BY <1>1, <1>2, ArgumentKinds
<1>4. SUFFICES \E e, type, f, spliced, steps : Agrees(e) /\ Composes(e, type, f, spliced, steps)
  BY <1>4, ComposedAgrees, Zenon
<1>5. \A e, type, f : Step(e, type, f) => Composes(e, type, f, cond.spliced, 1)
  BY Zenon DEF Step
<1>6. SUFFICES \E e : Agrees(e) /\ \E type, f, spliced, steps : Composes(e, type, f, spliced, steps)
  BY <1>6, Zenon
<1>7. CASE Leaf
  BY <1>2, <1>5, <1>7, Zenon DEF Leaf
<1>8. CASE And
  <2>1. AllAgree(<<>>) /\ AllAgree(<<cond>>)
    BY <1>1, NoneAgree, OfOne
  <2>2. \A l \in Leaves : AllAgree(<<cond, l>>) /\ AllAgree(<<l, cond>>)
    BY <1>1, <1>2, OfTwo
  <2>3. \A es : AllAgree(es) => Agrees(and(es))
    BY AndAgrees, Zenon
  <2>4. \E es : AllAgree(es) /\ \E f : Step(and(es), "boolean", f)
    BY <1>8, <2>1, <2>2, Zenon DEF And
  <2> QED BY <1>5, <2>3, <2>4, Zenon
<1>9. CASE Or
  <2>1. AllAgree(<<>>) /\ AllAgree(<<cond>>)
    BY <1>1, NoneAgree, OfOne
  <2>2. \A l \in Leaves : AllAgree(<<cond, l>>) /\ AllAgree(<<l, cond>>)
    BY <1>1, <1>2, OfTwo
  <2>3. \A es : AllAgree(es) => Agrees(or(es))
    BY OrAgrees, Zenon
  <2>4. \E es : AllAgree(es) /\ \E f : Step(or(es), "boolean", f)
    BY <1>9, <2>1, <2>2, Zenon DEF Or
  <2> QED BY <1>5, <2>3, <2>4, Zenon
<1>10. CASE NotOf
  <2>1. Agrees(not(cond))
    BY <1>1, NotAgrees
  <2> QED BY <1>5, <1>10, <2>1, Zenon DEF NotOf
<1>11. CASE Comparison
  <2>1. \A name, v : Agrees(compare(name, Nested(cond), Plain(v)))
    BY <1>3, CompareAgrees, Zenon
  <2> QED BY <1>11, <2>1, Zenon DEF Comparison
<1>12. CASE Case
  <2>1. \A l \in Leaves :
          WhensOf(<<when(Nested(l), Plain(1)), when(Nested(cond), ColumnRef("t.x"))>>)
    BY <1>3, TwoWhens, Zenon
  <2>2. \A ws : WhensOf(ws) => Agrees(caseWhen(ws)) /\ Agrees(else(caseWhen(ws), Plain(1)))
    <3> TAKE ws
    <3>1. SUFFICES ASSUME WhensOf(ws)
                   PROVE  Agrees(caseWhen(ws)) /\ Agrees(else(caseWhen(ws), Plain(1)))
      OBVIOUS
    <3>2. PICK head : Cased(caseWhen(ws), head)
      BY <3>1, CaseWhenAgrees
    <3>3. Agrees(caseWhen(ws))
      BY <3>2, CasedAgrees, Zenon
    <3>4. Agrees(else(caseWhen(ws), Plain(1)))
      BY <1>3, <3>2, ElseAgrees, Zenon
    <3> QED BY <3>3, <3>4
  <2>3. \E l \in Leaves, withElse \in BOOLEAN : \E f :
          LET c == caseWhen(<<when(Nested(l), Plain(1)), when(Nested(cond), ColumnRef("t.x"))>>)
          IN  Step(IF withElse THEN else(c, Plain(1)) ELSE c, "value", f)
    BY <1>12, Zenon DEF Case
  <2> QED BY <1>5, <2>1, <2>2, <2>3, Zenon
<1>13. CASE SimpleCase
  <2>1. \A v : WhensOf(<<when(Plain(v), Plain(1)), when(ColumnRef("t.x"), Plain(0))>>)
    BY <1>3, TwoWhens, Zenon
  <2>2. \A ws : WhensOf(ws) => Agrees(else(caseExpr(Nested(cond), ws), ColumnRef("u.k")))
    <3> TAKE ws
    <3>1. SUFFICES ASSUME WhensOf(ws)
                   PROVE  Agrees(else(caseExpr(Nested(cond), ws), ColumnRef("u.k")))
      OBVIOUS
    <3>2. PICK head : Cased(caseExpr(Nested(cond), ws), head)
      BY <1>3, <3>1, CaseExprAgrees
    <3> QED BY <1>3, <3>2, ElseAgrees, Zenon
  <2> QED BY <1>5, <1>13, <2>1, <2>2, Zenon DEF SimpleCase
<1>14. CASE Conditional
  <2>1. \A v, c : Arguments(<<Nested(cond), Plain(v), ColumnRef(c)>>)
    BY <1>3, ThreeArguments, Zenon
  <2>2. \A v, c : Arguments(<<ColumnRef(c), Nested(cond), Plain(v)>>)
    BY <1>3, ThreeArguments, Zenon
  <2>3. \A v : Arguments(<<Nested(cond), Plain(v)>>)
    BY <1>3, TwoArguments, Zenon
  <2>4. \A name, args : Arguments(args) => Agrees(function(name, args))
    BY FunctionAgrees, Zenon
  <2>5. \E name, args : Arguments(args) /\ \E f : Step(function(name, args), "value", f)
    BY <1>14, <2>1, <2>2, <2>3, Zenon DEF Conditional
  <2> QED BY <1>5, <2>4, <2>5, Zenon
<1>15. CASE Subquery
  <2>1. Agrees(SubqueryOf(cond))
    BY <1>1, SubqueryOfAgrees
  <2>2. Agrees(exists(SubqueryOf(cond))) /\ Agrees(notExists(SubqueryOf(cond)))
    BY <2>1, ExistsAgrees, Zenon
  <2>3. /\ Agrees(inSubquery(ColumnRef("t.x"), SubqueryOf(cond)))
        /\ Agrees(notInSubquery(ColumnRef("t.x"), SubqueryOf(cond)))
    BY <1>3, <2>1, InSubqueryAgrees, Zenon
  <2> QED BY <1>5, <1>15, <2>2, <2>3, Zenon DEF Subquery
<1>16. CASE Template
  <2>1. \A v : Agrees(sql(<<<<Open("")>>, <<Close, Op(">")>>, <<>>>>, <<Nested(cond), Plain(v)>>))
    BY <1>3, FirstTemplate, Zenon
  <2>2. \A v : Agrees(sql(<<<<>>, <<Op("=")>>, <<K("OR")>>, <<>>>>,
                          <<ColumnRef("t.x"), Plain(v), Nested(cond)>>))
    BY <1>3, SecondTemplate, Zenon
  <2> QED BY <1>5, <1>16, <2>1, <2>2, Zenon DEF Template
<1> QED BY <1>7, <1>8, <1>9, <1>10, <1>11, <1>12, <1>13, <1>14, <1>15, <1>16 DEF Composing

\* The values of every condition and of every query are those of its placeholders, in the
\* order of the text: for any conditions to start from, however they are nested, and for any
\* number of builders derived from each other.  The one thing an application may not do is to
\* group or order by an expression with values of its own, which toSQL does not pass on.
THEOREM ValuesInOrderAlways ==
    ASSUME ~ValuedGroups
    PROVE  Spec => []ValuesInOrder
<1>1. Shape /\ Valued /\ [Next]_vars => Valued'
  <2> SUFFICES ASSUME Shape, Valued, [Next]_vars PROVE Valued'
    OBVIOUS
  <2>1. CASE Deriving
    BY <2>1, DerivingAgrees, SoundStep, Zenon
  <2>2. CASE Composing
    BY <2>2, ComposingAgrees
  <2>3. CASE vars' = vars
    BY <2>3 DEF vars, Valued
  <2> QED BY <2>1, <2>2, <2>3, Zenon DEF Next, Deriving, Composing
<1>2. Shape /\ [Next]_vars => Shape'
  BY TextsKept
<1>3. Shape /\ Valued => ValuesInOrder
  <2> SUFFICES ASSUME Shape, Valued PROVE ValuesInOrder
    OBVIOUS
  <2>1. cond.values = Meant(cond.sql)
    BY DEF Valued, Agrees, Matched
  <2>2. \A i \in DOMAIN builders :
          toSQL(builders[i], arrays).values = Meant(toSQL(builders[i], arrays).sql)
    BY QueriesAgree DEF Agrees, Matched
  <2> QED BY <2>1, <2>2, Zenon DEF ValuesInOrder
<1> QED BY <1>1, <1>2, <1>3, ShapeInit, ValuedInit, PTL DEF Spec
=============================================================================

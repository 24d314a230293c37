------------------------ MODULE SchemaMigrationProofs ------------------------
(***************************************************************************)
(* What the migrations of schema/ do to a database that is in use, for     *)
(* every set of schemas, tables and rows, and any number of plans:         *)
(*                                                                         *)
(*   RowsAreKept             no row of a table that stays is lost          *)
(*   GoalIsReachedAlways     an executed plan has made what it wanted      *)
(*   SettledAlways           and the next diff finds nothing it had to do  *)
(*   RollbackRestoresAlways  the way down leads back to where it started   *)
(*   OfflineAgreesAlways     offline diffing plans what a look would       *)
(*   SnapshotInSync          a schema and its own snapshot are in sync     *)
(*                                                                         *)
(* The generator lists the statements of a plan in an arbitrary order      *)
(* within a group.  The first lemmas say which statements a plan has       *)
(* (IsUp, IsDown) and which orders it keeps (Orderly); what follows never  *)
(* looks at the generator again.  Then come the effects of a statement on  *)
(* the database, and four invariants, each about the statements that are   *)
(* still to come: TypeInv, OrderInv, GoalInv and BackInv.                  *)
(***************************************************************************)
EXTENDS SchemaMigration, FiniteSetTheorems, NaturalsInduction, WellFoundedInduction, TLAPS

(***************************************************************************)
(* Sequences put one after another                                         *)
(***************************************************************************)
LEMMA ByInduction ==
    ASSUME NEW S \in SUBSET Nat, 0 \in S, \A n \in S : n + 1 \in S
    PROVE  S = Nat
<1>1. SUFFICES ASSUME Nat \ S # {} PROVE FALSE
  OBVIOUS
<1>2. IsWellFoundedOn(OpToRel(<,Nat), Nat)
  BY NatLessThanWellFounded
<1>3. PICK n \in Nat \ S : \A m \in Nat \ S : ~(<<m, n>> \in OpToRel(<,Nat))
  BY <1>1, <1>2, WFMin
<1>4. \A m \in Nat \ S : ~(m < n)
  BY <1>3 DEF OpToRel
<1>5. n # 0 /\ n - 1 \in Nat /\ n - 1 \in S /\ n \in Nat /\ n \notin S
  BY <1>4
<1>6. (n - 1) + 1 \in S
  BY <1>5
<1> QED BY <1>5, <1>6

\* f has at i the first i sequences of ss put one after another, up to n.
Flat(ss, n, f) == f = [i \in 1..n |-> IF i = 1 THEN ss[i] ELSE f[i-1] \o ss[i]]

LEMMA FlatAt ==
    ASSUME NEW ss, NEW n, NEW f, Flat(ss, n, f), NEW i \in 1..n
    PROVE  f[i] = IF i = 1 THEN ss[i] ELSE f[i-1] \o ss[i]
BY Zenon DEF Flat

LEMMA FlatStarts ==
    ASSUME NEW T, NEW ss \in Seq(Seq(T)), Len(ss) >= 1
    PROVE  \E f \in [1..1 -> Seq(T)] : Flat(ss, 1, f)
<1>1. PICK f : f = [i \in 1..1 |-> ss[1]]
  OBVIOUS
<1>2. f \in [1..1 -> Seq(T)]
  BY <1>1
<1>3. Flat(ss, 1, f)
  BY <1>1 DEF Flat
<1> QED BY <1>2, <1>3

LEMMA FlatGoesOn ==
    ASSUME NEW T, NEW ss \in Seq(Seq(T)), NEW n \in Nat, n # 0, n + 1 <= Len(ss),
           NEW f \in [1..n -> Seq(T)], Flat(ss, n, f)
    PROVE  \E g \in [1..(n+1) -> Seq(T)] : Flat(ss, n + 1, g)
<1>1. PICK next : next = f[n] \o ss[n+1]
  OBVIOUS
<1>2. next \in Seq(T)
  BY <1>1
<1>3. PICK g : g = [i \in 1..(n+1) |-> IF i = n + 1 THEN next ELSE f[i]]
  OBVIOUS
<1>4. g \in [1..(n+1) -> Seq(T)]
  BY <1>2, <1>3
<1>5. \A i \in 1..(n+1) : g[i] = IF i = 1 THEN ss[i] ELSE g[i-1] \o ss[i]
  <2> TAKE i \in 1..(n+1)
  <2>1. CASE i = n + 1
    <3>1. i # 1 /\ i - 1 = n /\ g[i] = next /\ g[i-1] = f[n]
      BY <1>3, <2>1
    <3> QED BY <1>1, <2>1, <3>1
  <2>2. CASE i # n + 1
    <3>1. i \in 1..n /\ g[i] = f[i] /\ (i # 1 => i - 1 \in 1..n /\ i - 1 # n + 1 /\ i - 1 \in 1..(n+1))
      BY <1>3, <2>2
    <3>2. i # 1 => g[i-1] = f[i-1]
      BY <1>3, <3>1
    <3>3. f[i] = IF i = 1 THEN ss[i] ELSE f[i-1] \o ss[i]
      BY <3>1, Zenon DEF Flat
    <3> QED BY <3>1, <3>2, <3>3
  <2> QED BY <2>1, <2>2
<1>6. Flat(ss, n + 1, g)
  <2>1. g = [i \in 1..(n+1) |-> g[i]]
    BY <1>3
  <2> QED BY <1>5, <2>1, Zenon DEF Flat
<1> QED BY <1>4, <1>6

LEMMA FlatExists ==
    ASSUME NEW T, NEW ss \in Seq(Seq(T)), Len(ss) # 0
    PROVE  \E f \in [1..Len(ss) -> Seq(T)] : Flat(ss, Len(ss), f)
<1> DEFINE S == {n \in Nat : n # 0 /\ n <= Len(ss) => \E f \in [1..n -> Seq(T)] : Flat(ss, n, f)}
<1>1. 0 \in S
  OBVIOUS
<1>2. ASSUME NEW n \in S
      PROVE  n + 1 \in S
  <2>1. n \in Nat /\ n + 1 \in Nat /\ (n # 0 /\ n <= Len(ss) => \E f \in [1..n -> Seq(T)] : Flat(ss, n, f))
    OBVIOUS
  <2> HIDE DEF S
  <2>2. SUFFICES ASSUME n + 1 <= Len(ss)
                 PROVE  \E f \in [1..(n+1) -> Seq(T)] : Flat(ss, n + 1, f)
    BY <2>1 DEF S
  <2>3. CASE n = 0
    <3>1. n + 1 = 1
      BY <2>3
    <3> QED BY <2>2, <3>1, FlatStarts
  <2>4. CASE n # 0
    <3>1. n <= Len(ss)
      BY <2>1, <2>2
    <3>2. PICK f \in [1..n -> Seq(T)] : Flat(ss, n, f)
      BY <2>1, <2>4, <3>1
    <3> QED BY <2>1, <2>2, <2>4, <3>2, FlatGoesOn
  <2> QED BY <2>3, <2>4
<1>3. Len(ss) \in Nat /\ S \in SUBSET Nat
  OBVIOUS
<1> HIDE DEF S
<1>4. S = Nat
  BY <1>1, <1>2, <1>3, ByInduction
<1> QED BY <1>3, <1>4 DEF S

LEMMA FlatAll ==
    ASSUME NEW T, NEW ss \in Seq(Seq(T)), NEW f, Flat(ss, Len(ss), f)
    PROVE  f \in [1..Len(ss) -> Seq(T)]
<1> DEFINE S == {n \in Nat : n # 0 /\ n <= Len(ss) => f[n] \in Seq(T)}
<1>1. 0 \in S
  OBVIOUS
<1>2. ASSUME NEW n \in S
      PROVE  n + 1 \in S
  <2>1. SUFFICES ASSUME n + 1 <= Len(ss) PROVE f[n+1] \in Seq(T)
    OBVIOUS
  <2>2. n \in Nat /\ n + 1 \in 1..Len(ss) /\ ss[n+1] \in Seq(T)
    BY <2>1
  <2>3. PICK i \in 1..Len(ss) : i = n + 1
    BY <2>2
  <2>4. f[i] = IF i = 1 THEN ss[i] ELSE f[i-1] \o ss[i]
    BY FlatAt
  <2>5. CASE n = 0
    BY <2>2, <2>3, <2>4, <2>5
  <2>6. CASE n # 0
    <3>1. f[n] \in Seq(T) /\ i # 1 /\ i - 1 = n
      BY <2>1, <2>3, <2>6
    <3> HIDE DEF S
    <3>2. f[i] = f[n] \o ss[i]
      BY <2>4, <3>1
    <3>3. ss[i] \in Seq(T)
      BY <2>2, <2>3
    <3> QED BY <2>3, <3>1, <3>2, <3>3
  <2> QED BY <2>5, <2>6
<1>3. Len(ss) \in Nat /\ S \in SUBSET Nat
  OBVIOUS
<1> HIDE DEF S
<1>4. S = Nat
  BY <1>1, <1>2, <1>3, ByInduction
<1>5. \A n \in Nat : n # 0 /\ n <= Len(ss) => f[n] \in Seq(T)
  BY <1>4 DEF S
<1>6. \A n \in 1..Len(ss) : f[n] \in Seq(T)
  BY <1>3, <1>5
<1>7. f = [i \in 1..Len(ss) |-> f[i]]
  BY DEF Flat
<1> QED BY <1>6, <1>7

LEMMA FlatIs ==
    ASSUME NEW T, NEW ss \in Seq(Seq(T)), Len(ss) # 0
    PROVE  \E f \in [1..Len(ss) -> Seq(T)] :
              /\ \A i \in 1..Len(ss) : f[i] = IF i = 1 THEN ss[i] ELSE f[i-1] \o ss[i]
              /\ FlattenSeq(ss) = f[Len(ss)]
<1> DEFINE f == CHOOSE g : Flat(ss, Len(ss), g)
<1>1. \E g : Flat(ss, Len(ss), g)
  BY FlatExists
<1>2. Flat(ss, Len(ss), f)
  BY <1>1
<1>3. FlattenSeq(ss) = f[Len(ss)]
  BY DEF FlattenSeq, Flat
<1> HIDE DEF f
<1>4. f \in [1..Len(ss) -> Seq(T)]
  BY <1>2, FlatAll
<1>5. \A i \in 1..Len(ss) : f[i] = IF i = 1 THEN ss[i] ELSE f[i-1] \o ss[i]
  BY <1>2, Zenon DEF Flat
<1> QED BY <1>3, <1>4, <1>5

\* Sequences of members of T make a sequence of members of T.
LEMMA FlatType ==
    ASSUME NEW T, NEW ss \in Seq(Seq(T))
    PROVE  FlattenSeq(ss) \in Seq(T)
<1>1. CASE Len(ss) = 0
  <2>1. ss = <<>> /\ <<>> \in Seq(T)
    BY <1>1
  <2>2. FlattenSeq(ss) = ss
    BY <1>1 DEF FlattenSeq
  <2> HIDE DEF FlattenSeq
  <2> QED BY <2>1, <2>2, Zenon
<1>2. CASE Len(ss) # 0
  <2>1. PICK f \in [1..Len(ss) -> Seq(T)] : FlattenSeq(ss) = f[Len(ss)]
    BY <1>2, FlatIs
  <2>2. Len(ss) \in 1..Len(ss)
    BY <1>2
  <2> QED BY <2>1, <2>2
<1> QED BY <1>1, <1>2

\* A sequence, of whatever it holds.
IsSeq(x) == x \in Seq(ToSet(x))

LEMMA SeqIsSeq ==
    ASSUME NEW T, NEW x \in Seq(T)
    PROVE  IsSeq(x) /\ ToSet(x) \subseteq T /\ DOMAIN x = 1..Len(x) /\ Len(x) \in Nat
<1>1. /\ Len(x) \in Nat /\ DOMAIN x = 1..Len(x) /\ x = [i \in 1..Len(x) |-> x[i]]
      /\ \A i \in 1..Len(x) : x[i] \in T
  OBVIOUS
<1>2. \A i \in 1..Len(x) : x[i] \in ToSet(x)
  BY <1>1 DEF ToSet
<1>3. x \in Seq(ToSet(x))
  BY <1>1, <1>2
<1>4. ToSet(x) \subseteq T
  BY <1>1 DEF ToSet
<1> QED BY <1>1, <1>3, <1>4 DEF IsSeq

LEMMA SeqWider ==
    ASSUME NEW T, NEW x, IsSeq(x), ToSet(x) \subseteq T
    PROVE  x \in Seq(T)
<1>1. Len(x) \in Nat /\ DOMAIN x = 1..Len(x) /\ x = [i \in 1..Len(x) |-> x[i]]
  BY DEF IsSeq
<1>2. \A i \in 1..Len(x) : x[i] \in ToSet(x)
  BY <1>1 DEF ToSet
<1>3. \A i \in 1..Len(x) : x[i] \in T
  BY <1>2
<1> QED BY <1>1, <1>3

LEMMA NoneIsSeq == IsSeq(<<>>) /\ ToSet(<<>>) = {}
<1>1. DOMAIN <<>> = {}
  OBVIOUS
<1>2. ToSet(<<>>) = {}
  BY <1>1 DEF ToSet
<1> QED BY <1>2 DEF IsSeq

LEMMA JoinIsSeq ==
    ASSUME NEW x, NEW y, IsSeq(x), IsSeq(y)
    PROVE  IsSeq(x \o y) /\ ToSet(x \o y) = ToSet(x) \cup ToSet(y)
<1>1. PICK T : T = ToSet(x) \cup ToSet(y)
  OBVIOUS
<1>2. x \in Seq(T) /\ y \in Seq(T)
  BY <1>1, SeqWider
<1>3. /\ Len(x) \in Nat /\ Len(y) \in Nat /\ x \o y \in Seq(T) /\ DOMAIN x = 1..Len(x)
      /\ DOMAIN y = 1..Len(y) /\ DOMAIN (x \o y) = 1..(Len(x) + Len(y))
      /\ \A i \in 1..Len(x) : (x \o y)[i] = x[i]
      /\ \A i \in 1..Len(y) : (x \o y)[Len(x) + i] = y[i]
  BY <1>2
<1>4. IsSeq(x \o y) /\ ToSet(x \o y) \subseteq T
  BY <1>3, SeqIsSeq
<1>5. ASSUME NEW st \in ToSet(x) PROVE st \in ToSet(x \o y)
  <2>1. PICK i \in 1..Len(x) : x[i] = st
    BY <1>3 DEF ToSet
  <2>2. i \in DOMAIN (x \o y) /\ (x \o y)[i] = st
    BY <1>3, <2>1
  <2> QED BY <2>2 DEF ToSet
<1>6. ASSUME NEW st \in ToSet(y) PROVE st \in ToSet(x \o y)
  <2>1. PICK i \in 1..Len(y) : y[i] = st
    BY <1>3 DEF ToSet
  <2>2. Len(x) + i \in DOMAIN (x \o y) /\ (x \o y)[Len(x) + i] = st
    BY <1>3, <2>1
  <2> QED BY <2>2 DEF ToSet
<1> QED BY <1>1, <1>4, <1>5, <1>6

LEMMA FlatClosed ==
    ASSUME NEW T, NEW G \in SUBSET Seq(T), <<>> \in G, \A x, y \in G : x \o y \in G,
           NEW ss \in Seq(Seq(T)), \A i \in DOMAIN ss : ss[i] \in G
    PROVE  FlattenSeq(ss) \in G
<1>1. CASE Len(ss) = 0
  <2>1. ss = <<>>
    BY <1>1
  <2>2. FlattenSeq(ss) = ss
    BY <1>1 DEF FlattenSeq
  <2> HIDE DEF FlattenSeq
  <2> QED BY <2>1, <2>2, Zenon
<1>2. CASE Len(ss) # 0
  <2>1. PICK f \in [1..Len(ss) -> Seq(T)] :
           /\ \A i \in 1..Len(ss) : f[i] = IF i = 1 THEN ss[i] ELSE f[i-1] \o ss[i]
           /\ FlattenSeq(ss) = f[Len(ss)]
    BY <1>2, FlatIs
  <2> DEFINE S == {n \in Nat : n # 0 /\ n <= Len(ss) => f[n] \in G}
  <2>2. 0 \in S
    OBVIOUS
  <2>3. ASSUME NEW n \in S PROVE n + 1 \in S
    <3>1. SUFFICES ASSUME n + 1 <= Len(ss) PROVE f[n+1] \in G
      OBVIOUS
    <3>2. n \in Nat /\ n + 1 \in 1..Len(ss) /\ n + 1 \in DOMAIN ss
      BY <3>1
    <3>3. ss[n+1] \in G
      BY <3>2
    <3>4. f[n+1] = IF n + 1 = 1 THEN ss[n+1] ELSE f[(n+1)-1] \o ss[n+1]
      BY <2>1, <3>2
    <3>5. CASE n = 0
      <4>1. f[n+1] = ss[n+1]
        BY <3>4, <3>5
      <4> QED BY <3>3, <4>1
    <3>6. CASE n # 0
      <4>1. f[n] \in G /\ (n + 1) - 1 = n /\ n + 1 # 1
        BY <3>1, <3>2, <3>6
      <4>2. f[n+1] = f[n] \o ss[n+1]
        BY <3>4, <4>1
      <4> QED BY <3>3, <4>1, <4>2
    <3> QED BY <3>5, <3>6
  <2>4. Len(ss) \in Nat /\ S \in SUBSET Nat
    OBVIOUS
  <2> HIDE DEF S
  <2>5. S = Nat
    BY <2>2, <2>3, <2>4, ByInduction
  <2>6. \A n \in Nat : n # 0 /\ n <= Len(ss) => f[n] \in G
    BY <2>5 DEF S
  <2>7. f[Len(ss)] \in G
    BY <1>2, <2>4, <2>6
  <2> QED BY <2>1, <2>7
<1>3. Len(ss) \in Nat
  OBVIOUS
<1> QED BY <1>1, <1>2, <1>3

LEMMA FlatSet ==
    ASSUME NEW T, NEW ss \in Seq(Seq(T))
    PROVE  ToSet(FlattenSeq(ss)) = UNION {ToSet(ss[i]) : i \in DOMAIN ss}
<1>1. CASE Len(ss) = 0
  <2>1. ss = <<>> /\ DOMAIN ss = {}
    BY <1>1
  <2>2. FlattenSeq(ss) = ss
    BY <1>1 DEF FlattenSeq
  <2> HIDE DEF FlattenSeq
  <2>3. ToSet(FlattenSeq(ss)) = {}
    BY <2>1, <2>2, NoneIsSeq
  <2> QED BY <2>1, <2>3
<1>2. CASE Len(ss) # 0
  <2>1. PICK f \in [1..Len(ss) -> Seq(T)] :
           /\ \A i \in 1..Len(ss) : f[i] = IF i = 1 THEN ss[i] ELSE f[i-1] \o ss[i]
           /\ FlattenSeq(ss) = f[Len(ss)]
    BY <1>2, FlatIs
  <2> DEFINE U(n) == UNION {ToSet(ss[i]) : i \in 1..n}
             S == {n \in Nat : n # 0 /\ n <= Len(ss) => ToSet(f[n]) = U(n)}
  <2>2. 0 \in S
    OBVIOUS
  <2>3. ASSUME NEW n \in S PROVE n + 1 \in S
    <3>1. SUFFICES ASSUME n + 1 <= Len(ss) PROVE ToSet(f[n+1]) = U(n+1)
      OBVIOUS
    <3>2. n \in Nat /\ n + 1 \in 1..Len(ss) /\ n + 1 \in DOMAIN ss
      BY <3>1
    <3>3. ss[n+1] \in Seq(T)
      BY <3>2
    <3>4. f[n+1] = IF n + 1 = 1 THEN ss[n+1] ELSE f[(n+1)-1] \o ss[n+1]
      BY <2>1, <3>2
    <3>5. CASE n = 0
      <4>1. f[n+1] = ss[n+1] /\ 1..(n+1) = {n+1}
        BY <3>4, <3>5
      <4> QED BY <4>1
    <3>6. CASE n # 0
      <4>1. ToSet(f[n]) = U(n) /\ (n + 1) - 1 = n /\ n + 1 # 1 /\ f[n] \in Seq(T)
        BY <3>1, <3>2, <3>6
      <4>2. f[n+1] = f[n] \o ss[n+1]
        BY <3>4, <4>1
      <4>3. IsSeq(f[n]) /\ IsSeq(ss[n+1])
        BY <3>3, <4>1, SeqIsSeq
      <4>4. ToSet(f[n+1]) = ToSet(f[n]) \cup ToSet(ss[n+1])
        BY <4>2, <4>3, JoinIsSeq
      <4>5. 1..(n+1) = (1..n) \cup {n+1}
        BY <3>2
      <4>6. U(n+1) = U(n) \cup ToSet(ss[n+1])
        BY <4>5
      <4> QED BY <4>1, <4>4, <4>6
    <3> QED BY <3>5, <3>6
  <2>4. Len(ss) \in Nat /\ S \in SUBSET Nat
    OBVIOUS
  <2> HIDE DEF S
  <2>5. S = Nat
    BY <2>2, <2>3, <2>4, ByInduction
  <2>6. ToSet(f[Len(ss)]) = U(Len(ss))
    BY <1>2, <2>4, <2>5 DEF S
  <2>7. DOMAIN ss = 1..Len(ss)
    OBVIOUS
  <2> HIDE DEF U
  <2>8. U(Len(ss)) = UNION {ToSet(ss[i]) : i \in DOMAIN ss}
    BY <2>7 DEF U
  <2> QED BY <2>1, <2>6, <2>8
<1>3. Len(ss) \in Nat
  OBVIOUS
<1> QED BY <1>1, <1>2, <1>3

(***************************************************************************)
(* Sets listed, and parts gathered                                         *)
(***************************************************************************)
LEMMA SetListed ==
    ASSUME NEW S, IsFiniteSet(S)
    PROVE  SetToSeq(S) \in Seq(S) /\ ToSet(SetToSeq(S)) = S
<1>1. PICK n \in Nat : n = Cardinality(S) /\ ExistsBijection(1..n, S)
  BY FS_CardinalityType
<1>2. PICK f : f \in Bijection(1..n, S)
  BY <1>1 DEF ExistsBijection
<1>3. f \in [1..n -> S] /\ IsInjective(f)
  BY <1>2 DEF Bijection, Injection
<1> DEFINE g == SetToSeq(S)
<1>4. g \in [1..n -> S] /\ IsInjective(g)
  BY <1>1, <1>3 DEF SetToSeq
<1> HIDE DEF g
<1>5. g \in Injection(1..n, S)
  BY <1>4 DEF Injection
<1>6. Cardinality(1..n) = n /\ IsFiniteSet(1..n)
  BY <1>1, FS_Interval
<1>7. g \in Surjection(1..n, S)
  BY <1>1, <1>5, <1>6, FS_Injection
<1>8. \A s \in S : \E i \in 1..n : g[i] = s
  BY <1>7 DEF Surjection
<1>9. g \in Seq(S) /\ DOMAIN g = 1..n
  BY <1>4
<1>10. ToSet(g) = S
  BY <1>4, <1>8, <1>9 DEF ToSet
<1> QED BY <1>9, <1>10 DEF g

LEMMA Listed ==
    ASSUME NEW f, IsFiniteSet(DOMAIN f)
    PROVE  IsSeq(Listing(f)) /\ ToSet(Listing(f)) = {f[c] : c \in DOMAIN f}
<1> DEFINE names == SetToSeq(DOMAIN f)
           l == [i \in DOMAIN names |-> f[names[i]]]
           T == {f[c] : c \in DOMAIN f}
<1>1. names \in Seq(DOMAIN f) /\ ToSet(names) = DOMAIN f
  BY SetListed
<1>2. Listing(f) = l
  BY DEF Listing
<1> HIDE DEF names
<1>3. Len(names) \in Nat /\ DOMAIN names = 1..Len(names) /\ \A i \in DOMAIN names : names[i] \in DOMAIN f
  BY <1>1
<1>4. l \in [1..Len(names) -> T]
  BY <1>3
<1>5. l \in Seq(T) /\ DOMAIN l = DOMAIN names
  BY <1>3, <1>4
<1>6. \A c \in DOMAIN f : \E i \in DOMAIN names : names[i] = c
  BY <1>1 DEF ToSet
<1>7. T \subseteq ToSet(l)
  BY <1>6 DEF ToSet
<1>8. IsSeq(l) /\ ToSet(l) \subseteq T
  BY <1>5, SeqIsSeq
<1> QED BY <1>2, <1>7, <1>8

LEMMA GatheredUp ==
    ASSUME NEW parts, IsFiniteSet(DOMAIN parts), \A c \in DOMAIN parts : IsSeq(parts[c].up)
    PROVE  /\ IsSeq(Gather(parts).up)
           /\ ToSet(Gather(parts).up) = UNION {ToSet(parts[c].up) : c \in DOMAIN parts}
<1> DEFINE ps == Listing(parts)
           ss == [i \in DOMAIN ps |-> ps[i].up]
           T == UNION {ToSet(parts[c].up) : c \in DOMAIN parts}
<1>1. IsSeq(ps) /\ ToSet(ps) = {parts[c] : c \in DOMAIN parts}
  BY Listed
<1>2. Gather(parts).up = FlattenSeq(ss)
  BY DEF Gather
<1> HIDE DEF ps
<1>3. Len(ps) \in Nat /\ DOMAIN ps = 1..Len(ps)
  BY <1>1 DEF IsSeq
<1>4. \A i \in DOMAIN ps : ps[i] \in {parts[c] : c \in DOMAIN parts}
  BY <1>1 DEF ToSet
<1>5. ASSUME NEW i \in DOMAIN ps PROVE ss[i] \in Seq(T)
  <2>1. PICK c \in DOMAIN parts : ps[i] = parts[c]
    BY <1>4
  <2>2. ToSet(parts[c].up) \subseteq T
    OBVIOUS
  <2> HIDE DEF T
  <2> QED BY <2>1, <2>2, SeqWider
<1>6. ss \in Seq(Seq(T)) /\ DOMAIN ss = DOMAIN ps
  BY <1>3, <1>5
<1>7. \A c \in DOMAIN parts : \E i \in DOMAIN ss : ss[i] = parts[c].up
  <2> TAKE c \in DOMAIN parts
  <2>1. parts[c] \in ToSet(ps)
    BY <1>1
  <2>2. PICK i \in DOMAIN ps : ps[i] = parts[c]
    BY <2>1 DEF ToSet
  <2> QED BY <1>6, <2>2
<1>8. \A i \in DOMAIN ss : \E c \in DOMAIN parts : ss[i] = parts[c].up
  BY <1>4, <1>6
<1> HIDE DEF ss
<1>9. UNION {ToSet(ss[i]) : i \in DOMAIN ss} = T
  BY <1>7, <1>8
<1> HIDE DEF T
<1>10. ToSet(FlattenSeq(ss)) = T
  BY <1>6, <1>9, FlatSet
<1>11. IsSeq(FlattenSeq(ss))
  BY <1>6, FlatType, SeqIsSeq
<1> QED BY <1>2, <1>10, <1>11 DEF T
LEMMA GatheredDown ==
    ASSUME NEW parts, IsFiniteSet(DOMAIN parts), \A c \in DOMAIN parts : IsSeq(parts[c].down)
    PROVE  /\ IsSeq(Gather(parts).down)
           /\ ToSet(Gather(parts).down) = UNION {ToSet(parts[c].down) : c \in DOMAIN parts}
<1> DEFINE ps == Listing(parts)
           ss == [i \in DOMAIN ps |-> ps[i].down]
           T == UNION {ToSet(parts[c].down) : c \in DOMAIN parts}
<1>1. IsSeq(ps) /\ ToSet(ps) = {parts[c] : c \in DOMAIN parts}
  BY Listed
<1>2. Gather(parts).down = FlattenSeq(ss)
  BY DEF Gather
<1> HIDE DEF ps
<1>3. Len(ps) \in Nat /\ DOMAIN ps = 1..Len(ps)
  BY <1>1 DEF IsSeq
<1>4. \A i \in DOMAIN ps : ps[i] \in {parts[c] : c \in DOMAIN parts}
  BY <1>1 DEF ToSet
<1>5. ASSUME NEW i \in DOMAIN ps PROVE ss[i] \in Seq(T)
  <2>1. PICK c \in DOMAIN parts : ps[i] = parts[c]
    BY <1>4
  <2>2. ToSet(parts[c].down) \subseteq T
    OBVIOUS
  <2> HIDE DEF T
  <2> QED BY <2>1, <2>2, SeqWider
<1>6. ss \in Seq(Seq(T)) /\ DOMAIN ss = DOMAIN ps
  BY <1>3, <1>5
<1>7. \A c \in DOMAIN parts : \E i \in DOMAIN ss : ss[i] = parts[c].down
  <2> TAKE c \in DOMAIN parts
  <2>1. parts[c] \in ToSet(ps)
    BY <1>1
  <2>2. PICK i \in DOMAIN ps : ps[i] = parts[c]
    BY <2>1 DEF ToSet
  <2> QED BY <1>6, <2>2
<1>8. \A i \in DOMAIN ss : \E c \in DOMAIN parts : ss[i] = parts[c].down
  BY <1>4, <1>6
<1> HIDE DEF ss
<1>9. UNION {ToSet(ss[i]) : i \in DOMAIN ss} = T
  BY <1>7, <1>8
<1> HIDE DEF T
<1>10. ToSet(FlattenSeq(ss)) = T
  BY <1>6, <1>9, FlatSet
<1>11. IsSeq(FlattenSeq(ss))
  BY <1>6, FlatType, SeqIsSeq
<1> QED BY <1>2, <1>10, <1>11 DEF T
\* What a generator returns: the statements up, and those down.
IsPart(p) == IsSeq(p.up) /\ IsSeq(p.down)

LEMMA Gathered ==
    ASSUME NEW parts, IsFiniteSet(DOMAIN parts), \A c \in DOMAIN parts : IsPart(parts[c])
    PROVE  /\ IsPart(Gather(parts))
           /\ \A st : st \in ToSet(Gather(parts).up)
                        <=> \E c \in DOMAIN parts : st \in ToSet(parts[c].up)
           /\ \A st : st \in ToSet(Gather(parts).down)
                        <=> \E c \in DOMAIN parts : st \in ToSet(parts[c].down)
<1>1. /\ \A c \in DOMAIN parts : IsSeq(parts[c].up)
      /\ \A c \in DOMAIN parts : IsSeq(parts[c].down)
  BY DEF IsPart
<1>2. /\ IsSeq(Gather(parts).up)
      /\ ToSet(Gather(parts).up) = UNION {ToSet(parts[c].up) : c \in DOMAIN parts}
  BY <1>1, GatheredUp
<1>3. /\ IsSeq(Gather(parts).down)
      /\ ToSet(Gather(parts).down) = UNION {ToSet(parts[c].down) : c \in DOMAIN parts}
  BY <1>1, GatheredDown
<1> QED BY <1>2, <1>3 DEF IsPart

LEMMA Joined ==
    ASSUME NEW p, NEW q, IsPart(p), IsPart(q)
    PROVE  /\ IsPart(Then(p, q))
           /\ ToSet(Then(p, q).up) = ToSet(p.up) \cup ToSet(q.up)
           /\ ToSet(Then(p, q).down) = ToSet(p.down) \cup ToSet(q.down)
<1>1. Then(p, q).up = p.up \o q.up /\ Then(p, q).down = p.down \o q.down
  BY DEF Then
<1> QED BY <1>1, JoinIsSeq DEF IsPart

LEMMA Triple ==
    ASSUME NEW p, NEW q, NEW r, IsPart(p), IsPart(q), IsPart(r)
    PROVE  /\ IsPart(Then(p, Then(q, r)))
           /\ \A st : st \in ToSet(Then(p, Then(q, r)).up)
                        <=> st \in ToSet(p.up) \/ st \in ToSet(q.up) \/ st \in ToSet(r.up)
           /\ \A st : st \in ToSet(Then(p, Then(q, r)).down)
                        <=> st \in ToSet(p.down) \/ st \in ToSet(q.down) \/ st \in ToSet(r.down)
<1>1. /\ IsPart(Then(q, r))
      /\ ToSet(Then(q, r).up) = ToSet(q.up) \cup ToSet(r.up)
      /\ ToSet(Then(q, r).down) = ToSet(q.down) \cup ToSet(r.down)
  BY Joined
<1>2. /\ IsPart(Then(p, Then(q, r)))
      /\ ToSet(Then(p, Then(q, r)).up) = ToSet(p.up) \cup ToSet(Then(q, r).up)
      /\ ToSet(Then(p, Then(q, r)).down) = ToSet(p.down) \cup ToSet(Then(q, r).down)
  BY <1>1, Joined
<1> QED BY <1>1, <1>2

LEMMA Few ==
    ASSUME NEW a, NEW b, NEW c, NEW d
    PROVE  /\ IsSeq(<<a>>) /\ ToSet(<<a>>) = {a}
           /\ IsSeq(<<a, b>>) /\ ToSet(<<a, b>>) = {a, b}
           /\ IsSeq(<<a, b, c, d>>) /\ ToSet(<<a, b, c, d>>) = {a, b, c, d}
<1>1. DOMAIN <<a>> = {1} /\ DOMAIN <<a, b>> = {1, 2} /\ DOMAIN <<a, b, c, d>> = {1, 2, 3, 4}
  OBVIOUS
<1>2. ToSet(<<a>>) = {a}
  BY <1>1 DEF ToSet
<1>3. ToSet(<<a, b>>) = {a, b}
  BY <1>1 DEF ToSet
<1>4. ToSet(<<a, b, c, d>>) = {a, b, c, d}
  BY <1>1 DEF ToSet
<1> QED BY <1>2, <1>3, <1>4 DEF IsSeq

\* Parts with the same statements up, name by name, are the same together.
LEMMA GatheredSame ==
    ASSUME NEW p, NEW q, DOMAIN p = DOMAIN q, IsFiniteSet(DOMAIN p),
           \A c \in DOMAIN p : p[c].up = q[c].up
    PROVE  Gather(p).up = Gather(q).up
<1> DEFINE names == SetToSeq(DOMAIN p)
<1>1. names \in Seq(DOMAIN p)
  BY SetListed
<1>2. Listing(p) = [i \in DOMAIN names |-> p[names[i]]] /\ Listing(q) = [i \in DOMAIN names |-> q[names[i]]]
  BY DEF Listing
<1> HIDE DEF names
<1>3. \A i \in DOMAIN names : names[i] \in DOMAIN p
  BY <1>1
<1>4. [i \in DOMAIN Listing(p) |-> Listing(p)[i].up] = [i \in DOMAIN Listing(q) |-> Listing(q)[i].up]
  BY <1>2, <1>3
<1>5. Gather(p).up = FlattenSeq([i \in DOMAIN Listing(p) |-> Listing(p)[i].up])
  BY DEF Gather
<1>6. Gather(q).up = FlattenSeq([i \in DOMAIN Listing(q) |-> Listing(q)[i].up])
  BY DEF Gather
<1> QED BY <1>4, <1>5, <1>6

(***************************************************************************)
(* The orders that a plan keeps.                                           *)
(***************************************************************************)
LEMMA GatheredIn ==
    ASSUME NEW parts, IsFiniteSet(DOMAIN parts), NEW T, NEW G \in SUBSET Seq(T), <<>> \in G,
           \A x, y \in G : x \o y \in G, \A c \in DOMAIN parts : parts[c].up \in G
    PROVE  Gather(parts).up \in G
<1> DEFINE ps == Listing(parts)
           ss == [i \in DOMAIN ps |-> ps[i].up]
<1>1. IsSeq(ps) /\ ToSet(ps) = {parts[c] : c \in DOMAIN parts}
  BY Listed
<1>2. Gather(parts).up = FlattenSeq(ss)
  BY DEF Gather
<1> HIDE DEF ps
<1>3. Len(ps) \in Nat /\ DOMAIN ps = 1..Len(ps)
  BY <1>1 DEF IsSeq
<1>4. \A i \in DOMAIN ps : ps[i] \in {parts[c] : c \in DOMAIN parts}
  BY <1>1 DEF ToSet
<1>5. \A i \in DOMAIN ps : ss[i] \in G
  BY <1>4
<1>6. ss \in Seq(Seq(T)) /\ DOMAIN ss = DOMAIN ps
  BY <1>3, <1>5
<1>7. \A i \in DOMAIN ss : ss[i] \in G
  BY <1>5, <1>6
<1> HIDE DEF ss
<1>8. FlattenSeq(ss) \in G
  BY <1>6, <1>7, FlatClosed
<1> QED BY <1>2, <1>8

(***************************************************************************)
(* The order of a plan.  Some statements owe others, which follow them:    *)
(* what a recreation takes away comes back, and so does an index or a      *)
(* materialized view that is dropped to be created again.                  *)
(***************************************************************************)
Followed(x, i, b) == \E k \in DOMAIN x : k > i /\ x[k] = b

\* After i, the statement a comes before any d.
Foremost(x, i, a, d) == \E k \in DOMAIN x : k > i /\ x[k] = a /\ \A j \in i..k : x[j] # d

Preceded(x, i, a) == \E k \in DOMAIN x : k < i /\ x[k] = a

Owing(s, e, x, i) ==
  /\ \A t \in Tables : x[i] = Rename(t) =>
       /\ Followed(x, i, CreateTable(t, s.tables[t])) /\ Followed(x, i, DropOld(t))
       /\ Foremost(x, i, Copy(t, s.tables[t]), DropOld(t))
  /\ \A t \in DOMAIN s.tables \ DOMAIN e.tables : \A j \in DOMAIN s.tables[t].indexes :
       x[i] = CreateTable(t, s.tables[t]) =>
         Followed(x, i, CreateIndex(t, j, s.tables[t].indexes[j]))
  /\ \A t \in DOMAIN s.tables : \A j \in DOMAIN s.tables[t].indexes :
       x[i] = DropIndex(t, j) => Followed(x, i, CreateIndex(t, j, s.tables[t].indexes[j]))
  /\ \A m \in DOMAIN s.mvs :
       x[i] = DropMV(m) => Followed(x, i, CreateMV(m, s.mvs[m]))

\* What holds of the rest of a plan as well.
Paid(s, e, x) == \A i \in DOMAIN x : Owing(s, e, x, i)

\* And of the whole: no renamed table is dropped that was not copied.
DropsLate(s, x) ==
  \A i \in DOMAIN x : \A t \in Tables : x[i] = DropOld(t) => Preceded(x, i, Copy(t, s.tables[t]))

Orderly(s, e, x) == Paid(s, e, x) /\ DropsLate(s, x)

LEMMA FollowedLeft ==
    ASSUME NEW T, NEW x \in Seq(T), NEW y \in Seq(T), NEW i \in DOMAIN x
    PROVE  /\ i \in DOMAIN (x \o y) /\ (x \o y)[i] = x[i]
           /\ \A b : Followed(x, i, b) => Followed(x \o y, i, b)
           /\ \A a, d : Foremost(x, i, a, d) => Foremost(x \o y, i, a, d)
           /\ \A a : Preceded(x, i, a) => Preceded(x \o y, i, a)
<1>1. /\ Len(x) \in Nat /\ Len(y) \in Nat /\ DOMAIN x = 1..Len(x)
      /\ DOMAIN y = 1..Len(y) /\ DOMAIN (x \o y) = 1..(Len(x) + Len(y))
      /\ \A j \in 1..Len(x) : (x \o y)[j] = x[j]
  OBVIOUS
<1>2. \A k \in DOMAIN x : k \in DOMAIN (x \o y) /\ (x \o y)[k] = x[k]
  BY <1>1
<1>3. ASSUME NEW b, Followed(x, i, b) PROVE Followed(x \o y, i, b)
  BY <1>2, <1>3 DEF Followed
<1>4. ASSUME NEW a, Preceded(x, i, a) PROVE Preceded(x \o y, i, a)
  BY <1>2, <1>4 DEF Preceded
<1>5. ASSUME NEW a, NEW d, Foremost(x, i, a, d) PROVE Foremost(x \o y, i, a, d)
  <2>1. PICK k \in DOMAIN x : k > i /\ x[k] = a /\ \A j \in i..k : x[j] # d
    BY <1>5 DEF Foremost
  <2>2. \A j \in i..k : j \in DOMAIN x
    BY <1>1, <2>1
  <2>3. \A j \in i..k : (x \o y)[j] # d
    BY <1>2, <2>1, <2>2
  <2>4. k \in DOMAIN (x \o y) /\ (x \o y)[k] = a
    BY <1>2, <2>1
  <2> HIDE DEF Foremost
  <2> QED BY <2>1, <2>3, <2>4 DEF Foremost
<1> QED BY <1>2, <1>3, <1>4, <1>5

LEMMA FollowedRight ==
    ASSUME NEW T, NEW x \in Seq(T), NEW y \in Seq(T), NEW i \in DOMAIN y
    PROVE  LET n == Len(x) + i IN
           /\ n \in DOMAIN (x \o y) /\ (x \o y)[n] = y[i]
           /\ \A b : Followed(y, i, b) => Followed(x \o y, n, b)
           /\ \A a, d : Foremost(y, i, a, d) => Foremost(x \o y, n, a, d)
           /\ \A a : Preceded(y, i, a) => Preceded(x \o y, n, a)
<1> DEFINE n == Len(x) + i
<1>1. /\ Len(x) \in Nat /\ Len(y) \in Nat /\ DOMAIN x = 1..Len(x)
      /\ DOMAIN y = 1..Len(y) /\ DOMAIN (x \o y) = 1..(Len(x) + Len(y))
      /\ \A j \in 1..Len(y) : (x \o y)[Len(x) + j] = y[j]
  OBVIOUS
<1>2. PICK z : z = x \o y
  OBVIOUS
<1>3. \A k \in DOMAIN y : Len(x) + k \in DOMAIN z /\ z[Len(x) + k] = y[k]
  BY <1>1, <1>2
<1>4. ASSUME NEW b, Followed(y, i, b) PROVE Followed(z, n, b)
  <2>1. PICK k \in DOMAIN y : k > i /\ y[k] = b
    BY <1>4 DEF Followed
  <2>2. Len(x) + k > n
    BY <1>1, <2>1
  <2> QED BY <1>3, <2>1, <2>2 DEF Followed
<1>5. ASSUME NEW a, Preceded(y, i, a) PROVE Preceded(z, n, a)
  <2>1. PICK k \in DOMAIN y : k < i /\ y[k] = a
    BY <1>5 DEF Preceded
  <2>2. Len(x) + k < n
    BY <1>1, <2>1
  <2> QED BY <1>3, <2>1, <2>2 DEF Preceded
<1>6. ASSUME NEW a, NEW d, Foremost(y, i, a, d) PROVE Foremost(z, n, a, d)
  <2>1. PICK k \in DOMAIN y : k > i /\ y[k] = a /\ \A j \in i..k : y[j] # d
    BY <1>6 DEF Foremost
  <2>2. ASSUME NEW j \in n..(Len(x) + k) PROVE z[j] # d
    <3>1. j - Len(x) \in i..k /\ j - Len(x) \in DOMAIN y /\ Len(x) + (j - Len(x)) = j
      BY <1>1, <2>1
    <3>2. PICK l : l = j - Len(x)
      OBVIOUS
    <3> QED BY <1>3, <2>1, <3>1, <3>2
  <2>3. Len(x) + k > n /\ Len(x) + k \in DOMAIN z /\ z[Len(x) + k] = a
    BY <1>1, <1>3, <2>1
  <2>4. PICK l : l = Len(x) + k
    OBVIOUS
  <2>5. l > n /\ l \in DOMAIN z /\ z[l] = a /\ \A j \in n..l : z[j] # d
    BY <2>2, <2>3, <2>4
  <2> QED BY <2>5 DEF Foremost
<1>7. n \in DOMAIN z /\ z[n] = y[i]
  BY <1>3
<1> QED BY <1>2, <1>4, <1>5, <1>6, <1>7

LEMMA OrderlyNone ==
    ASSUME NEW s, NEW e
    PROVE  Orderly(s, e, <<>>)
<1>1. DOMAIN <<>> = {}
  OBVIOUS
<1> QED BY <1>1 DEF Orderly, Paid, DropsLate

LEMMA OrderlyJoin ==
    ASSUME NEW s, NEW e, NEW T, NEW x \in Seq(T), NEW y \in Seq(T),
           Orderly(s, e, x), Orderly(s, e, y)
    PROVE  Orderly(s, e, x \o y)
<1>1. PICK z : z = x \o y
  OBVIOUS
<1>2. ASSUME NEW n \in DOMAIN z
      PROVE  \/ n \in DOMAIN x
             \/ \E i \in DOMAIN y : n = Len(x) + i
  <2>1. Len(x) \in Nat /\ Len(y) \in Nat /\ DOMAIN x = 1..Len(x) /\ DOMAIN y = 1..Len(y)
        /\ DOMAIN z = 1..(Len(x) + Len(y))
    BY <1>1
  <2>2. n \in 1..Len(x) \/ (n - Len(x) \in 1..Len(y) /\ n = Len(x) + (n - Len(x)))
    BY <2>1
  <2> QED BY <2>1, <2>2
<1>3. ASSUME NEW n \in DOMAIN z
      PROVE  Owing(s, e, z, n) /\ \A t \in Tables : z[n] = DropOld(t) => Preceded(z, n, Copy(t, s.tables[t]))
  <2>1. CASE n \in DOMAIN x
    <3>1. /\ z[n] = x[n]
          /\ \A b : Followed(x, n, b) => Followed(z, n, b)
          /\ \A a, d : Foremost(x, n, a, d) => Foremost(z, n, a, d)
          /\ \A a : Preceded(x, n, a) => Preceded(z, n, a)
      BY <1>1, <2>1, FollowedLeft
    <3>2. Owing(s, e, x, n) /\ \A t \in Tables : x[n] = DropOld(t) => Preceded(x, n, Copy(t, s.tables[t]))
      BY <2>1 DEF Orderly, Paid, DropsLate
    <3> QED BY <3>1, <3>2 DEF Owing
  <2>2. CASE n \notin DOMAIN x
    <3>1. PICK i \in DOMAIN y : n = Len(x) + i
      BY <1>2, <2>2
    <3>2. /\ z[n] = y[i]
          /\ \A b : Followed(y, i, b) => Followed(z, n, b)
          /\ \A a, d : Foremost(y, i, a, d) => Foremost(z, n, a, d)
          /\ \A a : Preceded(y, i, a) => Preceded(z, n, a)
      BY <1>1, <3>1, FollowedRight
    <3>3. Owing(s, e, y, i) /\ \A t \in Tables : y[i] = DropOld(t) => Preceded(y, i, Copy(t, s.tables[t]))
      BY <3>1 DEF Orderly, Paid, DropsLate
    <3> QED BY <3>2, <3>3 DEF Owing
  <2> QED BY <2>1, <2>2
<1> QED BY <1>1, <1>3 DEF Orderly, Paid, DropsLate

LEMMA OrderlyGather ==
    ASSUME NEW s, NEW e, NEW parts, IsFiniteSet(DOMAIN parts),
           \A c \in DOMAIN parts : IsSeq(parts[c].up) /\ Orderly(s, e, parts[c].up)
    PROVE  Orderly(s, e, Gather(parts).up)
<1> DEFINE T == UNION {ToSet(parts[c].up) : c \in DOMAIN parts}
           G == {x \in Seq(T) : Orderly(s, e, x)}
<1>1. \A c \in DOMAIN parts : parts[c].up \in G
  <2> TAKE c \in DOMAIN parts
  <2>1. ToSet(parts[c].up) \subseteq T
    OBVIOUS
  <2> HIDE DEF T
  <2>2. parts[c].up \in Seq(T)
    BY <2>1, SeqWider
  <2> QED BY <2>2
<1> HIDE DEF T
<1>2. <<>> \in G
  BY OrderlyNone
<1>3. \A x, y \in G : x \o y \in G
  BY OrderlyJoin
<1>4. G \in SUBSET Seq(T)
  OBVIOUS
<1> HIDE DEF G
<1>5. Gather(parts).up \in G
  BY <1>1, <1>2, <1>3, <1>4, GatheredIn
<1> QED BY <1>5 DEF G

LEMMA OrderlyThen ==
    ASSUME NEW s, NEW e, NEW p, NEW q, IsSeq(p.up), IsSeq(q.up),
           Orderly(s, e, p.up), Orderly(s, e, q.up)
    PROVE  Orderly(s, e, Then(p, q).up)
<1>1. Then(p, q).up = p.up \o q.up
  BY DEF Then
<1>2. PICK T : T = ToSet(p.up) \cup ToSet(q.up)
  OBVIOUS
<1>3. p.up \in Seq(T) /\ q.up \in Seq(T)
  BY <1>2, SeqWider
<1> QED BY <1>1, <1>3, OrderlyJoin

\* Most statements owe nothing.
Owers == {"rename", "createTable", "dropTable", "dropIndex", "dropMV"}

LEMMA OrderlyPlain ==
    ASSUME NEW s, NEW e, NEW x, \A st \in ToSet(x) : st.op \notin Owers
    PROVE  Orderly(s, e, x)
<1>1. \A i \in DOMAIN x : x[i].op \notin Owers
  BY DEF ToSet
<1>2. /\ \A t : Rename(t).op \in Owers /\ DropOld(t).op \in Owers /\ DropMV(t).op \in Owers
      /\ \A t, d : CreateTable(t, d).op \in Owers /\ DropIndex(t, d).op \in Owers
  BY DEF Owers, Rename, DropOld, DropMV, CreateTable, DropIndex
<1>3. \A i \in DOMAIN x : /\ \A t : x[i] # Rename(t) /\ x[i] # DropOld(t) /\ x[i] # DropMV(t)
                          /\ \A t, d : x[i] # CreateTable(t, d) /\ x[i] # DropIndex(t, d)
  BY <1>1, <1>2
<1> QED BY <1>3 DEF Orderly, Paid, DropsLate, Owing

(***************************************************************************)
(* What the generator puts into a plan                                     *)
(***************************************************************************)
LEMMA ColumnPart ==
    ASSUME NEW t, NEW def, NEW old, NEW changes, IsFiniteSet(changes.add),
           IsFiniteSet(changes.remove), IsFiniteSet(changes.modify)
    PROVE  LET g == generateColumnAlterStatements(t, def, old, changes) IN
           /\ IsPart(g)
           /\ \A st : st \in ToSet(g.up) <=>
                \/ \E c \in changes.add : st = AddColumn(t, c, def.columns[c])
                \/ \E c \in changes.remove : st = DropColumn(t, c)
                \/ \E c \in changes.modify : st = ModifyColumn(t, c, def.columns[c])
           /\ \A st : st \in ToSet(g.down) <=>
                \/ \E c \in changes.add : st = DropColumn(t, c)
                \/ \E c \in changes.remove : st = AddColumn(t, c, OldColumn(old.columns[c]))
                \/ \E c \in changes.modify : st = ModifyColumn(t, c, OldColumn(old.columns[c]))
<1> DEFINE added == [c \in changes.add |-> [up   |-> <<AddColumn(t, c, def.columns[c])>>,
                                            down |-> <<DropColumn(t, c)>>]]
           removed == [c \in changes.remove |->
                         [up   |-> <<DropColumn(t, c)>>,
                          down |-> <<AddColumn(t, c, OldColumn(old.columns[c]))>>]]
           modified == [c \in changes.modify |-> ModifiedColumn(t, c, def, old)]
<1>1. generateColumnAlterStatements(t, def, old, changes)
        = Then(Gather(added), Then(Gather(removed), Gather(modified)))
  BY DEF generateColumnAlterStatements
<1>2. /\ IsPart(Gather(added))
      /\ \A st : st \in ToSet(Gather(added).up) <=> \E c \in changes.add : st = AddColumn(t, c, def.columns[c])
      /\ \A st : st \in ToSet(Gather(added).down) <=> \E c \in changes.add : st = DropColumn(t, c)
  <2>1. DOMAIN added = changes.add
    OBVIOUS
  <2>2. \A c \in DOMAIN added : /\ IsPart(added[c])
                                /\ \A st : st \in ToSet(added[c].up) <=> st = AddColumn(t, c, def.columns[c])
                                /\ \A st : st \in ToSet(added[c].down) <=> st = DropColumn(t, c)
    BY Few DEF IsPart
  <2> HIDE DEF added
  <2>3. /\ IsPart(Gather(added))
        /\ \A st : st \in ToSet(Gather(added).up) <=> \E c \in DOMAIN added : st \in ToSet(added[c].up)
        /\ \A st : st \in ToSet(Gather(added).down) <=> \E c \in DOMAIN added : st \in ToSet(added[c].down)
    BY <2>1, <2>2, Gathered
  <2>4. \A st : st \in ToSet(Gather(added).up) <=> \E c \in changes.add : st = AddColumn(t, c, def.columns[c])
    BY <2>1, <2>2, <2>3
  <2>5. \A st : st \in ToSet(Gather(added).down) <=> \E c \in changes.add : st = DropColumn(t, c)
    BY <2>1, <2>2, <2>3
  <2> QED BY <2>3, <2>4, <2>5
<1>3. /\ IsPart(Gather(removed))
      /\ \A st : st \in ToSet(Gather(removed).up) <=> \E c \in changes.remove : st = DropColumn(t, c)
      /\ \A st : st \in ToSet(Gather(removed).down)
                   <=> \E c \in changes.remove : st = AddColumn(t, c, OldColumn(old.columns[c]))
  <2>1. DOMAIN removed = changes.remove
    OBVIOUS
  <2>2. \A c \in DOMAIN removed : /\ IsPart(removed[c])
                                  /\ \A st : st \in ToSet(removed[c].up) <=> st = DropColumn(t, c)
                                  /\ \A st : st \in ToSet(removed[c].down) <=> st = AddColumn(t, c, OldColumn(old.columns[c]))
    BY Few DEF IsPart
  <2> HIDE DEF removed
  <2>3. /\ IsPart(Gather(removed))
        /\ \A st : st \in ToSet(Gather(removed).up) <=> \E c \in DOMAIN removed : st \in ToSet(removed[c].up)
        /\ \A st : st \in ToSet(Gather(removed).down) <=> \E c \in DOMAIN removed : st \in ToSet(removed[c].down)
    BY <2>1, <2>2, Gathered
  <2>4. \A st : st \in ToSet(Gather(removed).up) <=> \E c \in changes.remove : st = DropColumn(t, c)
    BY <2>1, <2>2, <2>3
  <2>5. \A st : st \in ToSet(Gather(removed).down) <=> \E c \in changes.remove : st = AddColumn(t, c, OldColumn(old.columns[c]))
    BY <2>1, <2>2, <2>3
  <2> QED BY <2>3, <2>4, <2>5
<1>4. /\ IsPart(Gather(modified))
      /\ \A st : st \in ToSet(Gather(modified).up)
                   <=> \E c \in changes.modify : st = ModifyColumn(t, c, def.columns[c])
      /\ \A st : st \in ToSet(Gather(modified).down)
                   <=> \E c \in changes.modify : st = ModifyColumn(t, c, OldColumn(old.columns[c]))
  <2>1. DOMAIN modified = changes.modify
    OBVIOUS
  <2>2. \A c \in DOMAIN modified : /\ IsPart(modified[c])
                                   /\ \A st : st \in ToSet(modified[c].up) <=> st = ModifyColumn(t, c, def.columns[c])
                                   /\ \A st : st \in ToSet(modified[c].down) <=> st = ModifyColumn(t, c, OldColumn(old.columns[c]))
    BY Few DEF IsPart, ModifiedColumn
  <2> HIDE DEF modified
  <2>3. /\ IsPart(Gather(modified))
        /\ \A st : st \in ToSet(Gather(modified).up) <=> \E c \in DOMAIN modified : st \in ToSet(modified[c].up)
        /\ \A st : st \in ToSet(Gather(modified).down) <=> \E c \in DOMAIN modified : st \in ToSet(modified[c].down)
    BY <2>1, <2>2, Gathered
  <2>4. \A st : st \in ToSet(Gather(modified).up) <=> \E c \in changes.modify : st = ModifyColumn(t, c, def.columns[c])
    BY <2>1, <2>2, <2>3
  <2>5. \A st : st \in ToSet(Gather(modified).down) <=> \E c \in changes.modify : st = ModifyColumn(t, c, OldColumn(old.columns[c]))
    BY <2>1, <2>2, <2>3
  <2> QED BY <2>3, <2>4, <2>5
<1> HIDE DEF added, removed, modified
<1> QED BY <1>1, <1>2, <1>3, <1>4, Triple

LEMMA OnePart ==
    ASSUME NEW a, NEW b, NEW p, p = [up |-> <<a>>, down |-> <<b>>]
    PROVE  /\ IsPart(p)
           /\ \A st : st \in ToSet(p.up) <=> st = a
           /\ \A st : st \in ToSet(p.down) <=> st = b
<1>1. p.up = <<a>> /\ p.down = <<b>>
  OBVIOUS
<1>2. IsSeq(<<a>>) /\ IsSeq(<<b>>) /\ ToSet(<<a>>) = {a} /\ ToSet(<<b>>) = {b}
  BY Few
<1> QED BY <1>1, <1>2 DEF IsPart

LEMMA TwoPart ==
    ASSUME NEW a, NEW b, NEW c, NEW p, p = [up |-> <<a, b>>, down |-> <<c>>]
    PROVE  /\ IsPart(p)
           /\ \A st : st \in ToSet(p.up) <=> st = a \/ st = b
           /\ \A st : st \in ToSet(p.down) <=> st = c
<1>1. p.up = <<a, b>> /\ p.down = <<c>>
  OBVIOUS
<1>2. IsSeq(<<a, b>>) /\ IsSeq(<<c>>) /\ ToSet(<<a, b>>) = {a, b} /\ ToSet(<<c>>) = {c}
  BY Few
<1> QED BY <1>1, <1>2 DEF IsPart

LEMMA OrderlyTriple ==
    ASSUME NEW s, NEW e, NEW p, NEW q, NEW r, IsSeq(p.up), IsSeq(q.up), IsSeq(r.up),
           Orderly(s, e, p.up), Orderly(s, e, q.up), Orderly(s, e, r.up)
    PROVE  Orderly(s, e, Then(p, Then(q, r)).up)
<1>1. Orderly(s, e, Then(q, r).up)
  BY OrderlyThen
<1>2. Then(q, r).up = q.up \o r.up
  BY DEF Then
<1>3. IsSeq(Then(q, r).up)
  BY <1>2, JoinIsSeq
<1> QED BY <1>1, <1>3, OrderlyThen

PropertiesSet(t, def, keys) ==
  [op |-> "setProperties", name |-> t, props |-> [k \in keys |-> Stringify(def.props[k])]]

LEMMA SomeOrder ==
    ASSUME NEW s, NEW e
    PROVE  /\ \A a : a.op \notin Owers => Orderly(s, e, <<a>>)
           /\ \A a, b : a.op \notin Owers /\ b.op \notin Owers => Orderly(s, e, <<a, b>>)
<1>1. \A a, b : ToSet(<<a>>) = {a} /\ ToSet(<<a, b>>) = {a, b}
  BY Few
<1> QED BY <1>1, OrderlyPlain

\* A dropped index is not wanted any more, or is created again.
LEMMA IndexOrder ==
    ASSUME NEW s, NEW e, NEW t \in DOMAIN s.tables, NEW i
    PROVE  /\ i \notin DOMAIN s.tables[t].indexes => Orderly(s, e, <<DropIndex(t, i)>>)
           /\ Orderly(s, e, <<DropIndex(t, i), CreateIndex(t, i, s.tables[t].indexes[i])>>)
<1>1. /\ \A u, j : DropIndex(u, j) = DropIndex(t, i) => u = t /\ j = i
      /\ \A u, d : /\ DropIndex(t, i) # Rename(u) /\ DropIndex(t, i) # CreateTable(u, d)
                   /\ DropIndex(t, i) # DropOld(u) /\ DropIndex(t, i) # DropMV(u)
  BY DEF DropIndex, Rename, CreateTable, DropOld, DropMV
<1>2. PICK a : a = DropIndex(t, i)
  OBVIOUS
<1>3. PICK b : b = CreateIndex(t, i, s.tables[t].indexes[i])
  OBVIOUS
<1>4. \A u, j, d : /\ b # Rename(u) /\ b # CreateTable(u, d) /\ b # DropOld(u) /\ b # DropMV(u)
                   /\ b # DropIndex(u, j)
  BY <1>3 DEF DropIndex, Rename, CreateTable, DropOld, DropMV, CreateIndex
<1>5. ASSUME i \notin DOMAIN s.tables[t].indexes PROVE Orderly(s, e, <<a>>)
  <2>1. DOMAIN <<a>> = {1} /\ <<a>>[1] = a
    OBVIOUS
  <2> QED BY <1>1, <1>2, <1>5, <2>1 DEF Orderly, Paid, Owing, DropsLate
<1>6. Orderly(s, e, <<a, b>>)
  <2>1. PICK x : x = <<a, b>>
    OBVIOUS
  <2>2. DOMAIN x = {1, 2} /\ x[1] = a /\ x[2] = b
    BY <2>1
  <2>3. Followed(x, 1, b)
    BY <2>2 DEF Followed
  <2>4. Owing(s, e, x, 1)
    <3>1. \A u, d : x[1] # Rename(u) /\ x[1] # CreateTable(u, d) /\ x[1] # DropMV(u)
      BY <1>1, <1>2, <2>2
    <3>2. \A u, j : x[1] = DropIndex(u, j) => Followed(x, 1, CreateIndex(u, j, s.tables[u].indexes[j]))
      BY <1>1, <1>2, <1>3, <2>2, <2>3
    <3> QED BY <3>1, <3>2 DEF Owing
  <2>5. Owing(s, e, x, 2)
    BY <1>4, <2>2 DEF Owing
  <2>6. DropsLate(s, x)
    BY <1>1, <1>2, <1>4, <2>2 DEF DropsLate
  <2> QED BY <2>1, <2>2, <2>4, <2>5, <2>6 DEF Orderly, Paid
<1> QED BY <1>2, <1>3, <1>5, <1>6

HasIndexStatements(s, e, t, def, changes, g) ==
  /\ IsPart(g) /\ Orderly(s, e, g.up)
  /\ \A st : st \in ToSet(g.up) <=>
       \/ \E i \in changes.add \cup changes.modify : st = CreateIndex(t, i, def.indexes[i])
       \/ \E i \in changes.remove \cup changes.modify : st = DropIndex(t, i)
  /\ \A st : st \in ToSet(g.down) <=>
       \/ \E i \in changes.add : st = DropIndex(t, i)
       \/ changes.remove \cup changes.modify # {} /\ st = Manual

LEMMA IndexPart ==
    ASSUME NEW s, NEW e, NEW t \in DOMAIN s.tables, NEW def, def = s.tables[t],
           NEW changes, IsFiniteSet(changes.add),
           IsFiniteSet(changes.remove), IsFiniteSet(changes.modify),
           \A i \in changes.remove : i \notin DOMAIN def.indexes
    PROVE  HasIndexStatements(s, e, t, def, changes, generateIndexAlterStatements(t, def, changes))
<1> DEFINE added == [i \in changes.add |-> [up   |-> <<CreateIndex(t, i, def.indexes[i])>>,
                                            down |-> <<DropIndex(t, i)>>]]
           removed == [i \in changes.remove |-> [up |-> <<DropIndex(t, i)>>, down |-> <<Manual>>]]
           modified == [i \in changes.modify |->
                          [up   |-> <<DropIndex(t, i), CreateIndex(t, i, def.indexes[i])>>,
                           down |-> <<Manual>>]]
<1>1. generateIndexAlterStatements(t, def, changes)
        = Then(Gather(added), Then(Gather(removed), Gather(modified)))
  BY DEF generateIndexAlterStatements
<1>5. \A i, d : CreateIndex(t, i, d).op \notin Owers
  BY DEF CreateIndex, Owers
<1>2. /\ IsPart(Gather(added))
      /\ \A st : st \in ToSet(Gather(added).up) <=> \E i \in changes.add : st = CreateIndex(t, i, def.indexes[i])
      /\ \A st : st \in ToSet(Gather(added).down) <=> \E i \in changes.add : st = DropIndex(t, i)
      /\ Orderly(s, e, Gather(added).up)
  <2>1. DOMAIN added = changes.add
    OBVIOUS
  <2>2. \A i \in DOMAIN added :
          /\ IsPart(added[i])
          /\ \A st : st \in ToSet(added[i].up) <=> (st = CreateIndex(t, i, def.indexes[i]))
          /\ \A st : st \in ToSet(added[i].down) <=> (st = DropIndex(t, i))
    <3> TAKE i \in DOMAIN added
    <3>1. added[i] = [up |-> <<CreateIndex(t, i, def.indexes[i])>>, down |-> <<DropIndex(t, i)>>]
      OBVIOUS
    <3> HIDE DEF added
    <3> QED BY <3>1, OnePart
  <2>3. \A i \in DOMAIN added : Orderly(s, e, added[i].up)
    BY <1>5, SomeOrder
  <2> HIDE DEF added
  <2>4. IsFiniteSet(DOMAIN added)
    BY <2>1
  <2>5. /\ IsPart(Gather(added))
        /\ \A st : st \in ToSet(Gather(added).up) <=> \E i \in DOMAIN added : st \in ToSet(added[i].up)
        /\ \A st : st \in ToSet(Gather(added).down) <=> \E i \in DOMAIN added : st \in ToSet(added[i].down)
    BY <2>2, <2>4, Gathered
  <2>6. \A st : st \in ToSet(Gather(added).up) <=> \E i \in changes.add : st = CreateIndex(t, i, def.indexes[i])
    <3>1. \A i \in DOMAIN added : \A st : st \in ToSet(added[i].up) <=> (st = CreateIndex(t, i, def.indexes[i]))
      BY <2>2
    <3> QED BY <2>1, <3>1, <2>5
  <2>7. \A st : st \in ToSet(Gather(added).down) <=> \E i \in changes.add : st = DropIndex(t, i)
    <3>1. \A i \in DOMAIN added : \A st : st \in ToSet(added[i].down) <=> (st = DropIndex(t, i))
      BY <2>2
    <3> QED BY <2>1, <3>1, <2>5
  <2>8. Orderly(s, e, Gather(added).up)
    BY <2>2, <2>3, <2>4, OrderlyGather DEF IsPart
  <2> QED BY <2>5, <2>6, <2>7, <2>8
<1>3. /\ IsPart(Gather(removed))
      /\ \A st : st \in ToSet(Gather(removed).up) <=> \E i \in changes.remove : st = DropIndex(t, i)
      /\ \A st : st \in ToSet(Gather(removed).down) <=> \E i \in changes.remove : st = Manual
      /\ Orderly(s, e, Gather(removed).up)
  <2>1. DOMAIN removed = changes.remove
    OBVIOUS
  <2>2. \A i \in DOMAIN removed :
          /\ IsPart(removed[i])
          /\ \A st : st \in ToSet(removed[i].up) <=> (st = DropIndex(t, i))
          /\ \A st : st \in ToSet(removed[i].down) <=> (st = Manual)
    <3> TAKE i \in DOMAIN removed
    <3>1. removed[i] = [up |-> <<DropIndex(t, i)>>, down |-> <<Manual>>]
      OBVIOUS
    <3> HIDE DEF removed
    <3> QED BY <3>1, OnePart
  <2>3. \A i \in DOMAIN removed : Orderly(s, e, removed[i].up)
    BY IndexOrder
  <2> HIDE DEF removed
  <2>4. IsFiniteSet(DOMAIN removed)
    BY <2>1
  <2>5. /\ IsPart(Gather(removed))
        /\ \A st : st \in ToSet(Gather(removed).up) <=> \E i \in DOMAIN removed : st \in ToSet(removed[i].up)
        /\ \A st : st \in ToSet(Gather(removed).down) <=> \E i \in DOMAIN removed : st \in ToSet(removed[i].down)
    BY <2>2, <2>4, Gathered
  <2>6. \A st : st \in ToSet(Gather(removed).up) <=> \E i \in changes.remove : st = DropIndex(t, i)
    <3>1. \A i \in DOMAIN removed : \A st : st \in ToSet(removed[i].up) <=> (st = DropIndex(t, i))
      BY <2>2
    <3> QED BY <2>1, <3>1, <2>5
  <2>7. \A st : st \in ToSet(Gather(removed).down) <=> \E i \in changes.remove : st = Manual
    <3>1. \A i \in DOMAIN removed : \A st : st \in ToSet(removed[i].down) <=> (st = Manual)
      BY <2>2
    <3> QED BY <2>1, <3>1, <2>5
  <2>8. Orderly(s, e, Gather(removed).up)
    BY <2>2, <2>3, <2>4, OrderlyGather DEF IsPart
  <2> QED BY <2>5, <2>6, <2>7, <2>8
<1>4. /\ IsPart(Gather(modified))
      /\ \A st : st \in ToSet(Gather(modified).up) <=> \E i \in changes.modify : st = DropIndex(t, i) \/ st = CreateIndex(t, i, def.indexes[i])
      /\ \A st : st \in ToSet(Gather(modified).down) <=> \E i \in changes.modify : st = Manual
      /\ Orderly(s, e, Gather(modified).up)
  <2>1. DOMAIN modified = changes.modify
    OBVIOUS
  <2>2. \A i \in DOMAIN modified :
          /\ IsPart(modified[i])
          /\ \A st : st \in ToSet(modified[i].up) <=> (st = DropIndex(t, i) \/ st = CreateIndex(t, i, def.indexes[i]))
          /\ \A st : st \in ToSet(modified[i].down) <=> (st = Manual)
    <3> TAKE i \in DOMAIN modified
    <3>1. modified[i] = [up |-> <<DropIndex(t, i), CreateIndex(t, i, def.indexes[i])>>, down |-> <<Manual>>]
      OBVIOUS
    <3> HIDE DEF modified
    <3> QED BY <3>1, TwoPart
  <2>3. \A i \in DOMAIN modified : Orderly(s, e, modified[i].up)
    BY IndexOrder
  <2> HIDE DEF modified
  <2>4. IsFiniteSet(DOMAIN modified)
    BY <2>1
  <2>5. /\ IsPart(Gather(modified))
        /\ \A st : st \in ToSet(Gather(modified).up) <=> \E i \in DOMAIN modified : st \in ToSet(modified[i].up)
        /\ \A st : st \in ToSet(Gather(modified).down) <=> \E i \in DOMAIN modified : st \in ToSet(modified[i].down)
    BY <2>2, <2>4, Gathered
  <2>6. \A st : st \in ToSet(Gather(modified).up) <=> \E i \in changes.modify : st = DropIndex(t, i) \/ st = CreateIndex(t, i, def.indexes[i])
    <3>1. \A i \in DOMAIN modified : \A st : st \in ToSet(modified[i].up) <=> (st = DropIndex(t, i) \/ st = CreateIndex(t, i, def.indexes[i]))
      BY <2>2
    <3> QED BY <2>1, <3>1, <2>5
  <2>7. \A st : st \in ToSet(Gather(modified).down) <=> \E i \in changes.modify : st = Manual
    <3>1. \A i \in DOMAIN modified : \A st : st \in ToSet(modified[i].down) <=> (st = Manual)
      BY <2>2
    <3> QED BY <2>1, <3>1, <2>5
  <2>8. Orderly(s, e, Gather(modified).up)
    BY <2>2, <2>3, <2>4, OrderlyGather DEF IsPart
  <2> QED BY <2>5, <2>6, <2>7, <2>8
<1> HIDE DEF added, removed, modified
<1>6. PICK p : p = Gather(added)
  OBVIOUS
<1>7. PICK q : q = Gather(removed)
  OBVIOUS
<1>8. PICK r : r = Gather(modified)
  OBVIOUS
<1>9. /\ IsPart(Then(p, Then(q, r)))
      /\ \A st : st \in ToSet(Then(p, Then(q, r)).up)
                   <=> st \in ToSet(p.up) \/ st \in ToSet(q.up) \/ st \in ToSet(r.up)
      /\ \A st : st \in ToSet(Then(p, Then(q, r)).down)
                   <=> st \in ToSet(p.down) \/ st \in ToSet(q.down) \/ st \in ToSet(r.down)
  BY <1>2, <1>3, <1>4, <1>6, <1>7, <1>8, Triple
<1>10. Orderly(s, e, Then(p, Then(q, r)).up)
  BY <1>2, <1>3, <1>4, <1>6, <1>7, <1>8, OrderlyTriple DEF IsPart
<1>11. \A st : st \in ToSet(Then(p, Then(q, r)).up) <=>
         \/ \E i \in changes.add \cup changes.modify : st = CreateIndex(t, i, def.indexes[i])
         \/ \E i \in changes.remove \cup changes.modify : st = DropIndex(t, i)
  BY <1>2, <1>3, <1>4, <1>6, <1>7, <1>8, <1>9
<1>12. \A st : st \in ToSet(Then(p, Then(q, r)).down) <=>
         \/ \E i \in changes.add : st = DropIndex(t, i)
         \/ changes.remove \cup changes.modify # {} /\ st = Manual
  BY <1>2, <1>3, <1>4, <1>6, <1>7, <1>8, <1>9
<1>13. generateIndexAlterStatements(t, def, changes) = Then(p, Then(q, r))
  BY <1>1, <1>6, <1>7, <1>8
<1> QED BY <1>9, <1>10, <1>11, <1>12, <1>13 DEF HasIndexStatements

HasPropertyStatement(s, e, t, def, keys, g) ==
  /\ IsPart(g) /\ Orderly(s, e, g.up)
  /\ \A st : st \in ToSet(g.up) <=> keys # {} /\ st = PropertiesSet(t, def, keys)
  /\ \A st : st \in ToSet(g.down) <=> keys # {} /\ st = Manual

LEMMA PropertyPart ==
    ASSUME NEW s, NEW e, NEW t, NEW def, NEW keys
    PROVE  HasPropertyStatement(s, e, t, def, keys, SetProperties(t, def, keys))
<1>1. PropertiesSet(t, def, keys).op \notin Owers
  BY DEF PropertiesSet, Owers
<1>2. CASE keys = {}
  <2>1. SetProperties(t, def, keys) = [up |-> <<>>, down |-> <<>>]
    BY <1>2 DEF SetProperties, Nothing
  <2> QED BY <1>2, <2>1, NoneIsSeq, OrderlyNone DEF IsPart, HasPropertyStatement
<1>3. CASE keys # {}
  <2>1. SetProperties(t, def, keys) = [up |-> <<PropertiesSet(t, def, keys)>>, down |-> <<Manual>>]
    BY <1>3 DEF SetProperties, PropertiesSet
  <2>2. PICK a : a = PropertiesSet(t, def, keys)
    OBVIOUS
  <2>3. Orderly(s, e, <<a>>)
    BY <1>1, <2>2, SomeOrder
  <2>4. PICK g : g = SetProperties(t, def, keys)
    OBVIOUS
  <2>5. g.up = <<a>> /\ g.down = <<Manual>>
    BY <2>1, <2>2, <2>4
  <2>6. IsPart(g) /\ ToSet(g.up) = {a} /\ ToSet(g.down) = {Manual}
    BY <2>5, Few DEF IsPart
  <2> QED BY <1>3, <2>2, <2>3, <2>4, <2>5, <2>6 DEF HasPropertyStatement
<1> QED BY <1>2, <1>3

LEMMA RecreateOrder ==
    ASSUME NEW s, NEW e, NEW t \in Tables, t \in DOMAIN e.tables
    PROVE  Orderly(s, e, <<Rename(t), CreateTable(t, s.tables[t]), Copy(t, s.tables[t]), DropOld(t)>>)
<1>1. PICK a : a = Rename(t)
  OBVIOUS
<1>2. PICK b : b = CreateTable(t, s.tables[t])
  OBVIOUS
<1>3. PICK c : c = Copy(t, s.tables[t])
  OBVIOUS
<1>4. PICK d : d = DropOld(t)
  OBVIOUS
<1>5. PICK x : x = <<a, b, c, d>>
  OBVIOUS
<1>6. DOMAIN x = {1, 2, 3, 4} /\ x[1] = a /\ x[2] = b /\ x[3] = c /\ x[4] = d
  BY <1>5
<1>7. /\ \A u, j, w : a # CreateTable(u, w) /\ a # DropOld(u) /\ a # DropMV(u) /\ a # DropIndex(u, j)
      /\ \A u : a = Rename(u) => u = t
  BY <1>1 DEF Rename, CreateTable, DropOld, DropMV, DropIndex
<1>8. /\ \A u, j : b # Rename(u) /\ b # DropOld(u) /\ b # DropMV(u) /\ b # DropIndex(u, j)
      /\ \A u, w : b = CreateTable(u, w) => u = t
  BY <1>2 DEF Rename, CreateTable, DropOld, DropMV, DropIndex
<1>9. /\ \A u, j, w : /\ c # Rename(u) /\ c # CreateTable(u, w) /\ c # DropOld(u) /\ c # DropMV(u)
                      /\ c # DropIndex(u, j)
  BY <1>3 DEF Rename, CreateTable, DropOld, DropMV, DropIndex, Copy
<1>10. /\ \A u, j, w : d # Rename(u) /\ d # CreateTable(u, w) /\ d # DropMV(u) /\ d # DropIndex(u, j)
       /\ \A u \in Tables : d = DropOld(u) => u = t
  <2>1. \A u, j, w : d # Rename(u) /\ d # CreateTable(u, w) /\ d # DropMV(u) /\ d # DropIndex(u, j)
    BY <1>4 DEF Rename, CreateTable, DropOld, DropMV, DropIndex
  <2>2. \A u \in Tables : d = DropOld(u) => OldName[u] = OldName[t]
    BY <1>4 DEF DropOld
  <2> QED BY <2>1, <2>2, SchemasAssumption
<1>11. Followed(x, 1, b) /\ Followed(x, 1, d) /\ Preceded(x, 4, c)
  BY <1>6 DEF Followed, Preceded
<1>12. Foremost(x, 1, c, d)
  <2>1. \A j \in 1..3 : j \in {1, 2, 3}
    OBVIOUS
  <2>2. a # d /\ b # d /\ c # d
    BY <1>4, <1>7, <1>8, <1>9
  <2>3. \A j \in 1..3 : x[j] # d
    BY <1>6, <2>1, <2>2
  <2> QED BY <1>6, <2>3 DEF Foremost
<1>13. Owing(s, e, x, 1)
  BY <1>1, <1>2, <1>3, <1>4, <1>6, <1>7, <1>11, <1>12 DEF Owing
<1>14. Owing(s, e, x, 2)
  BY <1>6, <1>8 DEF Owing
<1>15. Owing(s, e, x, 3)
  BY <1>6, <1>9 DEF Owing
<1>16. Owing(s, e, x, 4)
  BY <1>6, <1>10 DEF Owing
<1>17. DropsLate(s, x)
  BY <1>3, <1>6, <1>7, <1>8, <1>9, <1>10, <1>11 DEF DropsLate
<1>18. Orderly(s, e, x)
  BY <1>6, <1>13, <1>14, <1>15, <1>16, <1>17 DEF Orderly, Paid
<1> QED BY <1>1, <1>2, <1>3, <1>4, <1>5, <1>18

(***************************************************************************)
(* The statements of an alteration.                                        *)
(***************************************************************************)
LEMMA DiffTableIs ==
    ASSUME NEW def, NEW old
    PROVE  LET d == diffTable(def, old) IN
           /\ d.columns.add = DOMAIN def.columns \ DOMAIN old.columns
           /\ d.columns.remove = DOMAIN old.columns \ DOMAIN def.columns
           /\ d.columns.modify = {c \in DOMAIN def.columns \cap DOMAIN old.columns :
                diffColumn(def.columns[c], old.columns[c], def.key = "PRIMARY") # {}}
           /\ d.indexes.add = DOMAIN def.indexes \ DOMAIN old.indexes
           /\ d.indexes.remove = DOMAIN old.indexes \ DOMAIN def.indexes
           /\ d.indexes.modify = {i \in DOMAIN def.indexes \cap DOMAIN old.indexes :
                diffIndex(def.indexes[i], old.indexes[i])}
           /\ d.keyChange = (def.key # old.key)
           /\ d.distributionChange = DistributionChanged(def.dist, old.dist)
           /\ d.propertyChanges = diffProperties(def, old)
BY DEF diffTable, Changes

Between(s, e) == DOMAIN s.tables \cap DOMAIN e.tables

\* The tables that a plan recreates, and those it alters in place.
Remade(s, e) ==
  {t \in Between(s, e) : \/ diffTable(s.tables[t], e.tables[t]).keyChange
                         \/ diffTable(s.tables[t], e.tables[t]).distributionChange}
Changed(s, e) ==
  {t \in Between(s, e) \ Remade(s, e) : diffTable(s.tables[t], e.tables[t]) # NoTableChange}

Recreation(t, def) == {Rename(t), CreateTable(t, def), Copy(t, def), DropOld(t)}

IsAlterUp(t, def, old, st) ==
  LET change == diffTable(def, old)
  IN  \/ \E c \in change.columns.add : st = AddColumn(t, c, def.columns[c])
      \/ \E c \in change.columns.remove : st = DropColumn(t, c)
      \/ \E c \in change.columns.modify : st = ModifyColumn(t, c, def.columns[c])
      \/ \E i \in change.indexes.add \cup change.indexes.modify :
           st = CreateIndex(t, i, def.indexes[i])
      \/ \E i \in change.indexes.remove \cup change.indexes.modify : st = DropIndex(t, i)
      \/ change.propertyChanges # {} /\ st = PropertiesSet(t, def, change.propertyChanges)

IsAlterDown(t, def, old, st) ==
  LET change == diffTable(def, old)
  IN  \/ \E c \in change.columns.add : st = DropColumn(t, c)
      \/ \E c \in change.columns.remove : st = AddColumn(t, c, OldColumn(old.columns[c]))
      \/ \E c \in change.columns.modify : st = ModifyColumn(t, c, OldColumn(old.columns[c]))
      \/ \E i \in change.indexes.add : st = DropIndex(t, i)
      \/ change.indexes.remove \cup change.indexes.modify # {} /\ st = Manual
      \/ change.propertyChanges # {} /\ st = Manual

\* A description has finitely many names in it.
IsDescription(e) ==
  /\ IsFiniteSet(DOMAIN e.tables) /\ IsFiniteSet(DOMAIN e.views) /\ IsFiniteSet(DOMAIN e.mvs)
  /\ \A t \in DOMAIN e.tables : /\ IsFiniteSet(DOMAIN e.tables[t].columns)
                                /\ IsFiniteSet(DOMAIN e.tables[t].indexes)

LEMMA FiniteChanges ==
    ASSUME NEW A, NEW B, IsFiniteSet(A), IsFiniteSet(B)
    PROVE  IsFiniteSet(A \ B) /\ IsFiniteSet(B \ A) /\ \A C \in SUBSET A : IsFiniteSet(C)
<1>1. A \ B \in SUBSET A /\ B \ A \in SUBSET B
  OBVIOUS
<1> QED BY <1>1, FS_Subset

HasAlterStatements(s, e, t, g) ==
  /\ IsPart(g) /\ Orderly(s, e, g.up)
  /\ \A st : st \in ToSet(g.up) <=>
       \/ t \in Remade(s, e) /\ st \in Recreation(t, s.tables[t])
       \/ t \notin Remade(s, e) /\ IsAlterUp(t, s.tables[t], e.tables[t], st)
  /\ \A st : st \in ToSet(g.down) <=>
       \/ t \in Remade(s, e) /\ st = Manual
       \/ t \notin Remade(s, e) /\ IsAlterDown(t, s.tables[t], e.tables[t], st)

LEMMA AlterPart ==
    ASSUME NEW s \in Schemas, NEW e, IsDescription(e), NEW t \in Between(s, e),
           NEW def, def = s.tables[t], NEW old, old = e.tables[t]
    PROVE  HasAlterStatements(s, e, t, generateTableAlterStatements(t, def, old))
<1> DEFINE change == diffTable(def, old)
           g == generateTableAlterStatements(t, def, old)
<1>1. IsTable(def) /\ t \in DOMAIN s.tables /\ t \in DOMAIN e.tables /\ t \in Tables
  BY SchemasAssumption DEF Between, IsSchema
<1>2. /\ IsFiniteSet(DOMAIN def.columns) /\ IsFiniteSet(DOMAIN def.indexes)
      /\ IsFiniteSet(DOMAIN old.columns) /\ IsFiniteSet(DOMAIN old.indexes)
  BY <1>1 DEF IsTable, IsNaming, IsDescription
<1>3. /\ IsFiniteSet(change.columns.add) /\ IsFiniteSet(change.columns.remove)
      /\ IsFiniteSet(change.columns.modify)
  <2>1. /\ change.columns.add = DOMAIN def.columns \ DOMAIN old.columns
        /\ change.columns.remove = DOMAIN old.columns \ DOMAIN def.columns
        /\ change.columns.modify \in SUBSET DOMAIN def.columns
    BY DiffTableIs
  <2>2. /\ IsFiniteSet(DOMAIN def.columns \ DOMAIN old.columns)
        /\ IsFiniteSet(DOMAIN old.columns \ DOMAIN def.columns)
        /\ \A C \in SUBSET DOMAIN def.columns : IsFiniteSet(C)
    BY <1>2, FiniteChanges
  <2> HIDE DEF change
  <2> QED BY <2>1, <2>2
<1>4. /\ IsFiniteSet(change.indexes.add) /\ IsFiniteSet(change.indexes.remove)
      /\ IsFiniteSet(change.indexes.modify)
      /\ \A i \in change.indexes.remove : i \notin DOMAIN def.indexes
  <2>1. /\ change.indexes.add = DOMAIN def.indexes \ DOMAIN old.indexes
        /\ change.indexes.remove = DOMAIN old.indexes \ DOMAIN def.indexes
        /\ change.indexes.modify \in SUBSET DOMAIN def.indexes
    BY DiffTableIs
  <2>2. /\ IsFiniteSet(DOMAIN def.indexes \ DOMAIN old.indexes)
        /\ IsFiniteSet(DOMAIN old.indexes \ DOMAIN def.indexes)
        /\ \A C \in SUBSET DOMAIN def.indexes : IsFiniteSet(C)
    BY <1>2, FiniteChanges
  <2> HIDE DEF change
  <2> QED BY <2>1, <2>2
<1>5. t \in Remade(s, e) <=> change.keyChange \/ change.distributionChange
  BY DEF Remade
<1>6. g = IF change.keyChange \/ change.distributionChange
          THEN generateTableRecreateStatements(t, def)
          ELSE Then(generateColumnAlterStatements(t, def, old, change.columns),
                    Then(generateIndexAlterStatements(t, def, change.indexes),
                         SetProperties(t, def, change.propertyChanges)))
  BY DEF generateTableAlterStatements
<1>7. PICK ch : ch = change
  OBVIOUS
<1> HIDE DEF change, g
<1>8. CASE t \in Remade(s, e)
  <2>1. g = generateTableRecreateStatements(t, def)
    BY <1>5, <1>6, <1>8
  <2>2. g.up = <<Rename(t), CreateTable(t, def), Copy(t, def), DropOld(t)>> /\ g.down = <<Manual>>
    BY <2>1 DEF generateTableRecreateStatements
  <2>3. IsSeq(g.up) /\ ToSet(g.up) = Recreation(t, def)
    <3>1. PICK a, b, c, d : a = Rename(t) /\ b = CreateTable(t, def) /\ c = Copy(t, def) /\ d = DropOld(t)
      OBVIOUS
    <3>2. g.up = <<a, b, c, d>> /\ Recreation(t, def) = {a, b, c, d}
      BY <2>2, <3>1 DEF Recreation
    <3>3. DOMAIN g.up = {1, 2, 3, 4}
      BY <3>2
    <3>4. g.up[1] = a /\ g.up[2] = b /\ g.up[3] = c /\ g.up[4] = d
      BY <3>2
    <3>5. ToSet(g.up) = {a, b, c, d}
      BY <3>3, <3>4 DEF ToSet
    <3>6. g.up \in Seq({a, b, c, d})
      BY <3>2
    <3> QED BY <3>2, <3>5, <3>6 DEF IsSeq
  <2>4. IsSeq(g.down) /\ ToSet(g.down) = {Manual}
    BY <2>2, Few
  <2>5. Orderly(s, e, g.up)
    BY <1>1, <2>2, RecreateOrder
  <2> QED BY <1>8, <2>3, <2>4, <2>5 DEF IsPart, g, HasAlterStatements
<1>9. CASE t \notin Remade(s, e)
  <2>14. PICK cs : cs = ch.columns
    OBVIOUS
  <2>15. PICK is : is = ch.indexes
    OBVIOUS
  <2>16. PICK keys : keys = ch.propertyChanges
    OBVIOUS
  <2>17. /\ IsFiniteSet(cs.add) /\ IsFiniteSet(cs.remove) /\ IsFiniteSet(cs.modify)
         /\ IsFiniteSet(is.add) /\ IsFiniteSet(is.remove) /\ IsFiniteSet(is.modify)
         /\ \A i \in is.remove : i \notin DOMAIN def.indexes
    BY <1>3, <1>4, <1>7, <2>14, <2>15
  <2>1. PICK p : p = generateColumnAlterStatements(t, def, old, cs)
    OBVIOUS
  <2>2. PICK q : q = generateIndexAlterStatements(t, def, is)
    OBVIOUS
  <2>3. PICK r : r = SetProperties(t, def, keys)
    OBVIOUS
  <2>4. g = Then(p, Then(q, r))
    BY <1>5, <1>6, <1>7, <1>9, <2>1, <2>2, <2>3, <2>14, <2>15, <2>16
  <2>5. /\ IsPart(p)
        /\ \A st : st \in ToSet(p.up) <=>
             \/ \E c \in cs.add : st = AddColumn(t, c, def.columns[c])
             \/ \E c \in cs.remove : st = DropColumn(t, c)
             \/ \E c \in cs.modify : st = ModifyColumn(t, c, def.columns[c])
        /\ \A st : st \in ToSet(p.down) <=>
             \/ \E c \in cs.add : st = DropColumn(t, c)
             \/ \E c \in cs.remove : st = AddColumn(t, c, OldColumn(old.columns[c]))
             \/ \E c \in cs.modify : st = ModifyColumn(t, c, OldColumn(old.columns[c]))
    BY <2>1, <2>17, ColumnPart
  <2>6. Orderly(s, e, p.up)
    <3>1. \A c, d : AddColumn(t, c, d).op \notin Owers
      BY DEF AddColumn, Owers
    <3>2. \A c : DropColumn(t, c).op \notin Owers
      BY DEF DropColumn, Owers
    <3>3. \A c, d : ModifyColumn(t, c, d).op \notin Owers
      BY DEF ModifyColumn, Owers
    <3>4. \A st \in ToSet(p.up) : st.op \notin Owers
      <4> TAKE st \in ToSet(p.up)
      <4>1. \/ \E c \in cs.add : st = AddColumn(t, c, def.columns[c])
            \/ \E c \in cs.remove : st = DropColumn(t, c)
            \/ \E c \in cs.modify : st = ModifyColumn(t, c, def.columns[c])
        BY <2>5
      <4> QED BY <3>1, <3>2, <3>3, <4>1
    <3> QED BY <3>4, OrderlyPlain
  <2>7. /\ IsPart(q) /\ Orderly(s, e, q.up)
        /\ \A st : st \in ToSet(q.up) <=>
             \/ \E i \in is.add \cup is.modify : st = CreateIndex(t, i, def.indexes[i])
             \/ \E i \in is.remove \cup is.modify : st = DropIndex(t, i)
        /\ \A st : st \in ToSet(q.down) <=>
             \/ \E i \in is.add : st = DropIndex(t, i)
             \/ is.remove \cup is.modify # {} /\ st = Manual
    <3>1. /\ t \in DOMAIN s.tables /\ def = s.tables[t]
          /\ IsFiniteSet(is.add) /\ IsFiniteSet(is.remove) /\ IsFiniteSet(is.modify)
          /\ \A i \in is.remove : i \notin DOMAIN def.indexes
      BY <1>1, <2>17
    <3>2. HasIndexStatements(s, e, t, def, is, q)
      BY <2>2, <3>1, IndexPart
    <3> QED BY <3>2 DEF HasIndexStatements
  <2>8. /\ IsPart(r) /\ Orderly(s, e, r.up)
        /\ \A st : st \in ToSet(r.up) <=>
             keys # {} /\ st = PropertiesSet(t, def, keys)
        /\ \A st : st \in ToSet(r.down) <=> keys # {} /\ st = Manual
    <3>1. HasPropertyStatement(s, e, t, def, keys, r)
      BY <2>3, PropertyPart
    <3> QED BY <3>1 DEF HasPropertyStatement
  <2>9. /\ IsPart(g)
        /\ \A st : st \in ToSet(g.up) <=> st \in ToSet(p.up) \/ st \in ToSet(q.up) \/ st \in ToSet(r.up)
        /\ \A st : st \in ToSet(g.down) <=> st \in ToSet(p.down) \/ st \in ToSet(q.down) \/ st \in ToSet(r.down)
    BY <2>4, <2>5, <2>7, <2>8, Triple
  <2>10. Orderly(s, e, g.up)
    BY <2>4, <2>5, <2>6, <2>7, <2>8, OrderlyTriple DEF IsPart
  <2>11. \A st : st \in ToSet(g.up) <=> IsAlterUp(t, def, old, st)
    <3> TAKE st
    <3>1. IsAlterUp(t, def, old, st) <=>
            \/ \/ \E c \in cs.add : st = AddColumn(t, c, def.columns[c])
               \/ \E c \in cs.remove : st = DropColumn(t, c)
               \/ \E c \in cs.modify : st = ModifyColumn(t, c, def.columns[c])
            \/ \/ \E i \in is.add \cup is.modify : st = CreateIndex(t, i, def.indexes[i])
               \/ \E i \in is.remove \cup is.modify : st = DropIndex(t, i)
            \/ keys # {} /\ st = PropertiesSet(t, def, keys)
      BY <1>7, <2>14, <2>15, <2>16 DEF IsAlterUp, change
    <3>2. /\ st \in ToSet(p.up) <=>
             \/ \E c \in cs.add : st = AddColumn(t, c, def.columns[c])
             \/ \E c \in cs.remove : st = DropColumn(t, c)
             \/ \E c \in cs.modify : st = ModifyColumn(t, c, def.columns[c])
          /\ st \in ToSet(q.up) <=>
             \/ \E i \in is.add \cup is.modify : st = CreateIndex(t, i, def.indexes[i])
             \/ \E i \in is.remove \cup is.modify : st = DropIndex(t, i)
          /\ st \in ToSet(r.up) <=>
             keys # {} /\ st = PropertiesSet(t, def, keys)
      BY <2>5, <2>7, <2>8
    <3>3. st \in ToSet(g.up) <=> st \in ToSet(p.up) \/ st \in ToSet(q.up) \/ st \in ToSet(r.up)
      BY <2>9
    <3> QED BY <3>1, <3>2, <3>3
  <2>12. \A st : st \in ToSet(g.down) <=> IsAlterDown(t, def, old, st)
    <3> TAKE st
    <3>1. IsAlterDown(t, def, old, st) <=>
            \/ \/ \E c \in cs.add : st = DropColumn(t, c)
               \/ \E c \in cs.remove : st = AddColumn(t, c, OldColumn(old.columns[c]))
               \/ \E c \in cs.modify : st = ModifyColumn(t, c, OldColumn(old.columns[c]))
            \/ \/ \E i \in is.add : st = DropIndex(t, i)
               \/ is.remove \cup is.modify # {} /\ st = Manual
            \/ keys # {} /\ st = Manual
      BY <1>7, <2>14, <2>15, <2>16 DEF IsAlterDown, change
    <3>2. /\ st \in ToSet(p.down) <=>
             \/ \E c \in cs.add : st = DropColumn(t, c)
             \/ \E c \in cs.remove : st = AddColumn(t, c, OldColumn(old.columns[c]))
             \/ \E c \in cs.modify : st = ModifyColumn(t, c, OldColumn(old.columns[c]))
          /\ st \in ToSet(q.down) <=>
             \/ \E i \in is.add : st = DropIndex(t, i)
             \/ is.remove \cup is.modify # {} /\ st = Manual
          /\ st \in ToSet(r.down) <=> keys # {} /\ st = Manual
      BY <2>5, <2>7, <2>8
    <3>3. st \in ToSet(g.down) <=> st \in ToSet(p.down) \/ st \in ToSet(q.down) \/ st \in ToSet(r.down)
      BY <2>9
    <3> QED BY <3>1, <3>2, <3>3
  <2> QED BY <1>9, <2>9, <2>10, <2>11, <2>12 DEF g, HasAlterStatements
<1> QED BY <1>8, <1>9

(***************************************************************************)
(* The statements for tables.                                              *)
(***************************************************************************)
Added(s, e) == DOMAIN s.tables \ DOMAIN e.tables
Removed(s, e) == DOMAIN e.tables \ DOMAIN s.tables

LEMMA DiffSchemaIs ==
    ASSUME NEW s, NEW e
    PROVE  LET d == diffSchema(s, e) IN
           /\ d.tables.add = Added(s, e) /\ d.tables.remove = Removed(s, e)
           /\ d.tables.modify = Remade(s, e) \cup Changed(s, e)
           /\ d.views.add = DOMAIN s.views \ DOMAIN e.views
           /\ d.views.remove = DOMAIN e.views \ DOMAIN s.views
           /\ d.views.modify = {v \in DOMAIN s.views \cap DOMAIN e.views :
                                  diffView(s.views[v], e.views[v])}
           /\ d.mvs.add = DOMAIN s.mvs \ DOMAIN e.mvs
           /\ d.mvs.remove = DOMAIN e.mvs \ DOMAIN s.mvs
           /\ d.mvs.modify = {m \in DOMAIN s.mvs \cap DOMAIN e.mvs :
                                diffMaterializedView(s.mvs[m], e.mvs[m]) # "none"}
<1> DEFINE d == diffSchema(s, e)
<1>1. /\ d.tables.add = DOMAIN s.tables \ DOMAIN e.tables
      /\ d.tables.remove = DOMAIN e.tables \ DOMAIN s.tables
      /\ d.tables.modify = {t \in Between(s, e) : diffTable(s.tables[t], e.tables[t]) # NoTableChange}
  BY DEF diffSchema, Changes, Between
<1>2. /\ d.views.add = DOMAIN s.views \ DOMAIN e.views
      /\ d.views.remove = DOMAIN e.views \ DOMAIN s.views
      /\ d.views.modify = {v \in DOMAIN s.views \cap DOMAIN e.views :
                             diffView(s.views[v], e.views[v])}
  BY DEF diffSchema, Changes
<1>3. /\ d.mvs.add = DOMAIN s.mvs \ DOMAIN e.mvs
      /\ d.mvs.remove = DOMAIN e.mvs \ DOMAIN s.mvs
      /\ d.mvs.modify = {m \in DOMAIN s.mvs \cap DOMAIN e.mvs :
                           diffMaterializedView(s.mvs[m], e.mvs[m]) # "none"}
  BY DEF diffSchema, Changes
<1> HIDE DEF d
<1>4. ~NoTableChange.keyChange /\ ~NoTableChange.distributionChange
  BY DEF NoTableChange
<1>5. \A t \in Remade(s, e) : t \in Between(s, e) /\ diffTable(s.tables[t], e.tables[t]) # NoTableChange
  BY <1>4 DEF Remade
<1>6. d.tables.modify = Remade(s, e) \cup Changed(s, e)
  BY <1>1, <1>5 DEF Changed
<1> QED BY <1>1, <1>2, <1>3, <1>6 DEF d, Added, Removed

IsAddUp(t, def, st) ==
  \/ st = CreateTable(t, def)
  \/ \E i \in DOMAIN def.indexes : st = CreateIndex(t, i, def.indexes[i])

HasAddition(s, e, t, g) ==
  /\ IsPart(g) /\ Orderly(s, e, g.up)
  /\ \A st : st \in ToSet(g.up) <=> IsAddUp(t, s.tables[t], st)
  /\ \A st : st \in ToSet(g.down) <=> st = DropTable(t)

LEMMA AddedPart ==
    ASSUME NEW s \in Schemas, NEW e, NEW t \in Added(s, e)
    PROVE  HasAddition(s, e, t, [up   |-> <<CreateTable(t, s.tables[t])>>
                                            \o CreateIndexes(t, s.tables[t].indexes),
                                 down |-> <<DropTable(t)>>])
<1>1. PICK ct : ct = CreateTable(t, s.tables[t])
  OBVIOUS
<1>2. PICK f : f = [i \in DOMAIN s.tables[t].indexes |-> CreateIndex(t, i, s.tables[t].indexes[i])]
  OBVIOUS
<1>3. PICK ci : ci = Listing(f)
  OBVIOUS
<1>4. IsTable(s.tables[t])
  BY SchemasAssumption DEF IsSchema, Added
<1>5. IsFiniteSet(DOMAIN f) /\ DOMAIN f = DOMAIN s.tables[t].indexes
  BY <1>2, <1>4 DEF IsTable, IsNaming
<1>6. IsSeq(ci) /\ ToSet(ci) = {f[i] : i \in DOMAIN f}
  BY <1>3, <1>5, Listed
<1>7. PICK x : x = <<ct>> \o ci
  OBVIOUS
<1>8. PICK one : one = <<ct>>
  OBVIOUS
<1>9. IsSeq(one) /\ ToSet(one) = {ct} /\ Len(one) = 1 /\ one[1] = ct
  <2>1. IsSeq(one) /\ ToSet(one) = {ct}
    BY <1>8, Few
  <2> QED BY <1>8, <2>1
<1>10. IsSeq(x) /\ ToSet(x) = {ct} \cup ToSet(ci)
  BY <1>6, <1>7, <1>8, <1>9, JoinIsSeq
<1>11. /\ Len(ci) \in Nat /\ DOMAIN ci = 1..Len(ci) /\ DOMAIN x = 1..(1 + Len(ci))
       /\ x[1] = ct /\ \A k \in DOMAIN ci : 1 + k \in DOMAIN x /\ x[1 + k] = ci[k]
  <2>1. PICK T : T = {ct} \cup ToSet(ci)
    OBVIOUS
  <2>2. one \in Seq(T) /\ ci \in Seq(T) /\ x = one \o ci
    BY <1>6, <1>7, <1>8, <1>9, <2>1, SeqWider
  <2>3. /\ Len(ci) \in Nat /\ DOMAIN ci = 1..Len(ci) /\ DOMAIN x = 1..(Len(one) + Len(ci))
        /\ x[1] = one[1] /\ \A k \in 1..Len(ci) : x[Len(one) + k] = ci[k]
    <3>1. /\ Len(one) \in Nat /\ Len(ci) \in Nat /\ DOMAIN ci = 1..Len(ci)
          /\ DOMAIN (one \o ci) = 1..(Len(one) + Len(ci))
          /\ \A i \in 1..Len(one) : (one \o ci)[i] = one[i]
          /\ \A i \in 1..Len(ci) : (one \o ci)[Len(one) + i] = ci[i]
      BY <2>2
    <3>2. 1 \in 1..Len(one)
      BY <1>9
    <3> QED BY <2>2, <3>1, <3>2
  <2> QED BY <1>9, <2>3
<1>12. \A n \in DOMAIN x : n # 1 => x[n].op = "createIndex"
  <2> TAKE n \in DOMAIN x
  <2>1. SUFFICES ASSUME n # 1 PROVE x[n].op = "createIndex"
    OBVIOUS
  <2>2. n - 1 \in DOMAIN ci /\ 1 + (n - 1) = n
    BY <1>11, <2>1
  <2>3. PICK k \in DOMAIN ci : k = n - 1
    BY <2>2
  <2>4. x[n] = ci[k]
    BY <1>11, <2>2, <2>3
  <2>5. ci[k] \in ToSet(ci)
    BY DEF ToSet
  <2>6. PICK i \in DOMAIN f : ci[k] = f[i]
    BY <1>6, <2>5
  <2>7. f[i] = CreateIndex(t, i, s.tables[t].indexes[i])
    BY <1>2, <1>5
  <2> QED BY <2>4, <2>6, <2>7 DEF CreateIndex
<1>13. ASSUME NEW i \in DOMAIN s.tables[t].indexes
       PROVE  Followed(x, 1, CreateIndex(t, i, s.tables[t].indexes[i]))
  <2>1. f[i] = CreateIndex(t, i, s.tables[t].indexes[i]) /\ f[i] \in ToSet(ci)
    BY <1>2, <1>5, <1>6
  <2>2. PICK k \in DOMAIN ci : ci[k] = f[i]
    BY <2>1 DEF ToSet
  <2>3. 1 + k > 1 /\ 1 + k \in DOMAIN x /\ x[1 + k] = f[i]
    BY <1>11, <2>2
  <2> QED BY <2>1, <2>3 DEF Followed
<1>14. /\ \A u, j : ct # Rename(u) /\ ct # DropOld(u) /\ ct # DropMV(u) /\ ct # DropIndex(u, j)
       /\ \A u, w : ct = CreateTable(u, w) => u = t
  BY <1>1 DEF Rename, CreateTable, DropOld, DropMV, DropIndex
<1>15. /\ \A u, j, w : /\ Rename(u).op # "createIndex" /\ DropOld(u).op # "createIndex"
                       /\ DropMV(u).op # "createIndex" /\ DropIndex(u, j).op # "createIndex"
                       /\ CreateTable(u, w).op # "createIndex"
  BY DEF Rename, CreateTable, DropOld, DropMV, DropIndex
<1>16. Owing(s, e, x, 1)
  BY <1>11, <1>13, <1>14 DEF Owing
<1>17. \A n \in DOMAIN x : n # 1 => Owing(s, e, x, n)
  BY <1>12, <1>15 DEF Owing
<1>18. \A n \in DOMAIN x : \A u : x[n] # DropOld(u)
  BY <1>11, <1>12, <1>14, <1>15
<1>19. Orderly(s, e, x)
  BY <1>16, <1>17, <1>18 DEF Orderly, Paid, DropsLate
<1>20. PICK g : g = [up |-> x, down |-> <<DropTable(t)>>]
  OBVIOUS
<1>21. IsSeq(g.down) /\ ToSet(g.down) = {DropTable(t)}
  BY <1>20, Few
<1>22. \A st : st \in ToSet(ci) <=> \E i \in DOMAIN s.tables[t].indexes : st = CreateIndex(t, i, s.tables[t].indexes[i])
  BY <1>2, <1>5, <1>6
<1>23. g.up = x
  BY <1>20
<1>24. HasAddition(s, e, t, g)
  BY <1>1, <1>10, <1>19, <1>21, <1>22, <1>23 DEF HasAddition, IsPart, IsAddUp
<1>25. CreateIndexes(t, s.tables[t].indexes) = ci
  BY <1>2, <1>3 DEF CreateIndexes
<1> QED BY <1>1, <1>7, <1>20, <1>24, <1>25

HasTableStatements(s, e, g) ==
  /\ IsPart(g) /\ Orderly(s, e, g.up)
  /\ \A st : st \in ToSet(g.up) <=>
       \/ \E t \in Added(s, e) : IsAddUp(t, s.tables[t], st)
       \/ \E t \in Removed(s, e) : st = DropTable(t)
       \/ \E t \in Remade(s, e) : st \in Recreation(t, s.tables[t])
       \/ \E t \in Changed(s, e) : IsAlterUp(t, s.tables[t], e.tables[t], st)
  /\ \A st : st \in ToSet(g.down) <=>
       \/ \E t \in Added(s, e) : st = DropTable(t)
       \/ Removed(s, e) \cup Remade(s, e) # {} /\ st = Manual
       \/ \E t \in Changed(s, e) : IsAlterDown(t, s.tables[t], e.tables[t], st)

LEMMA TablePart ==
    ASSUME NEW s \in Schemas, NEW e, IsDescription(e), NEW diff, diff = diffSchema(s, e)
    PROVE  HasTableStatements(s, e, generateTableMigrations(s, diff, e))
<1> DEFINE added == [t \in Added(s, e) |->
                       [up   |-> <<CreateTable(t, s.tables[t])>> \o CreateIndexes(t, s.tables[t].indexes),
                        down |-> <<DropTable(t)>>]]
           removed == [t \in Removed(s, e) |-> [up |-> <<DropTable(t)>>, down |-> <<Manual>>]]
           modified == [t \in Remade(s, e) \cup Changed(s, e) |->
                          generateTableAlterStatements(t, s.tables[t], e.tables[t])]
<1>1. generateTableMigrations(s, diff, e) = Then(Gather(added), Then(Gather(removed), Gather(modified)))
  <2>1. /\ diff.tables.add = Added(s, e) /\ diff.tables.remove = Removed(s, e)
        /\ diff.tables.modify = Remade(s, e) \cup Changed(s, e)
    BY DiffSchemaIs
  <2> QED BY <2>1 DEF generateTableMigrations
<1>5. IsFiniteSet(DOMAIN s.tables) /\ IsFiniteSet(DOMAIN e.tables)
  BY SchemasAssumption DEF IsSchema, IsNaming, IsDescription
<1>6. IsFiniteSet(Added(s, e)) /\ IsFiniteSet(Removed(s, e)) /\ IsFiniteSet(Remade(s, e) \cup Changed(s, e))
  <2>1. Remade(s, e) \cup Changed(s, e) \in SUBSET DOMAIN s.tables
    BY DEF Remade, Changed, Between
  <2> QED BY <1>5, <2>1, FiniteChanges DEF Added, Removed
<1>7. \A t : DropTable(t).op \notin Owers
  BY DEF DropTable, Owers
<1>8. \A t \in Remade(s, e) \cup Changed(s, e) : t \in Between(s, e)
  BY DEF Remade, Changed
<1>2. /\ IsPart(Gather(added))
      /\ \A st : st \in ToSet(Gather(added).up) <=> \E t \in Added(s, e) : IsAddUp(t, s.tables[t], st)
      /\ \A st : st \in ToSet(Gather(added).down) <=> \E t \in Added(s, e) : st = DropTable(t)
      /\ Orderly(s, e, Gather(added).up)
  <2>1. DOMAIN added = Added(s, e)
    OBVIOUS
  <2>2. \A t \in DOMAIN added :
          /\ IsPart(added[t])
          /\ \A st : st \in ToSet(added[t].up) <=> (IsAddUp(t, s.tables[t], st))
          /\ \A st : st \in ToSet(added[t].down) <=> (st = DropTable(t))
    <3> TAKE t \in DOMAIN added
    <3>1. HasAddition(s, e, t, added[t])
      BY AddedPart
    <3> HIDE DEF added
    <3> QED BY <3>1 DEF HasAddition
  <2>3. \A t \in DOMAIN added : Orderly(s, e, added[t].up)
    <3> TAKE t \in DOMAIN added
    <3>1. HasAddition(s, e, t, added[t])
      BY AddedPart
    <3> HIDE DEF added
    <3> QED BY <3>1 DEF HasAddition
  <2> HIDE DEF added
  <2>4. IsFiniteSet(DOMAIN added)
    BY <2>1, <1>6
  <2>5. /\ IsPart(Gather(added))
        /\ \A st : st \in ToSet(Gather(added).up) <=> \E t \in DOMAIN added : st \in ToSet(added[t].up)
        /\ \A st : st \in ToSet(Gather(added).down) <=> \E t \in DOMAIN added : st \in ToSet(added[t].down)
    BY <2>2, <2>4, Gathered
  <2>6. \A st : st \in ToSet(Gather(added).up) <=> \E t \in Added(s, e) : IsAddUp(t, s.tables[t], st)
    <3>1. \A t \in DOMAIN added : \A st : st \in ToSet(added[t].up) <=> (IsAddUp(t, s.tables[t], st))
      BY <2>2
    <3> QED BY <2>1, <3>1, <2>5
  <2>7. \A st : st \in ToSet(Gather(added).down) <=> \E t \in Added(s, e) : st = DropTable(t)
    <3>1. \A t \in DOMAIN added : \A st : st \in ToSet(added[t].down) <=> (st = DropTable(t))
      BY <2>2
    <3> QED BY <2>1, <3>1, <2>5
  <2>8. Orderly(s, e, Gather(added).up)
    BY <2>2, <2>3, <2>4, OrderlyGather DEF IsPart
  <2> QED BY <2>5, <2>6, <2>7, <2>8
<1>3. /\ IsPart(Gather(removed))
      /\ \A st : st \in ToSet(Gather(removed).up) <=> \E t \in Removed(s, e) : st = DropTable(t)
      /\ \A st : st \in ToSet(Gather(removed).down) <=> \E t \in Removed(s, e) : st = Manual
      /\ Orderly(s, e, Gather(removed).up)
  <2>1. DOMAIN removed = Removed(s, e)
    OBVIOUS
  <2>2. \A t \in DOMAIN removed :
          /\ IsPart(removed[t])
          /\ \A st : st \in ToSet(removed[t].up) <=> (st = DropTable(t))
          /\ \A st : st \in ToSet(removed[t].down) <=> (st = Manual)
    <3> TAKE t \in DOMAIN removed
    <3>1. removed[t] = [up |-> <<DropTable(t)>>, down |-> <<Manual>>]
      OBVIOUS
    <3> HIDE DEF removed
    <3> QED BY <3>1, OnePart
  <2>3. \A t \in DOMAIN removed : Orderly(s, e, removed[t].up)
    BY <1>7, SomeOrder
  <2> HIDE DEF removed
  <2>4. IsFiniteSet(DOMAIN removed)
    BY <2>1, <1>6
  <2>5. /\ IsPart(Gather(removed))
        /\ \A st : st \in ToSet(Gather(removed).up) <=> \E t \in DOMAIN removed : st \in ToSet(removed[t].up)
        /\ \A st : st \in ToSet(Gather(removed).down) <=> \E t \in DOMAIN removed : st \in ToSet(removed[t].down)
    BY <2>2, <2>4, Gathered
  <2>6. \A st : st \in ToSet(Gather(removed).up) <=> \E t \in Removed(s, e) : st = DropTable(t)
    <3>1. \A t \in DOMAIN removed : \A st : st \in ToSet(removed[t].up) <=> (st = DropTable(t))
      BY <2>2
    <3> QED BY <2>1, <3>1, <2>5
  <2>7. \A st : st \in ToSet(Gather(removed).down) <=> \E t \in Removed(s, e) : st = Manual
    <3>1. \A t \in DOMAIN removed : \A st : st \in ToSet(removed[t].down) <=> (st = Manual)
      BY <2>2
    <3> QED BY <2>1, <3>1, <2>5
  <2>8. Orderly(s, e, Gather(removed).up)
    BY <2>2, <2>3, <2>4, OrderlyGather DEF IsPart
  <2> QED BY <2>5, <2>6, <2>7, <2>8
<1>4. /\ IsPart(Gather(modified))
      /\ \A st : st \in ToSet(Gather(modified).up) <=> \E t \in Remade(s, e) \cup Changed(s, e) : (t \in Remade(s, e) /\ st \in Recreation(t, s.tables[t])) \/ (t \notin Remade(s, e) /\ IsAlterUp(t, s.tables[t], e.tables[t], st))
      /\ \A st : st \in ToSet(Gather(modified).down) <=> \E t \in Remade(s, e) \cup Changed(s, e) : (t \in Remade(s, e) /\ st = Manual) \/ (t \notin Remade(s, e) /\ IsAlterDown(t, s.tables[t], e.tables[t], st))
      /\ Orderly(s, e, Gather(modified).up)
  <2>1. DOMAIN modified = Remade(s, e) \cup Changed(s, e)
    OBVIOUS
  <2>2. \A t \in DOMAIN modified :
          /\ IsPart(modified[t])
          /\ \A st : st \in ToSet(modified[t].up) <=> ((t \in Remade(s, e) /\ st \in Recreation(t, s.tables[t])) \/ (t \notin Remade(s, e) /\ IsAlterUp(t, s.tables[t], e.tables[t], st)))
          /\ \A st : st \in ToSet(modified[t].down) <=> ((t \in Remade(s, e) /\ st = Manual) \/ (t \notin Remade(s, e) /\ IsAlterDown(t, s.tables[t], e.tables[t], st)))
    <3> TAKE t \in DOMAIN modified
    <3>1. modified[t] = generateTableAlterStatements(t, s.tables[t], e.tables[t]) /\ t \in Between(s, e)
      BY <1>8
    <3> HIDE DEF modified
    <3>2. HasAlterStatements(s, e, t, modified[t])
      BY <3>1, AlterPart
    <3> QED BY <3>2 DEF HasAlterStatements
  <2>3. \A t \in DOMAIN modified : Orderly(s, e, modified[t].up)
    <3> TAKE t \in DOMAIN modified
    <3>1. modified[t] = generateTableAlterStatements(t, s.tables[t], e.tables[t]) /\ t \in Between(s, e)
      BY <1>8
    <3> HIDE DEF modified
    <3>2. HasAlterStatements(s, e, t, modified[t])
      BY <3>1, AlterPart
    <3> QED BY <3>2 DEF HasAlterStatements
  <2> HIDE DEF modified
  <2>4. IsFiniteSet(DOMAIN modified)
    BY <2>1, <1>6
  <2>5. /\ IsPart(Gather(modified))
        /\ \A st : st \in ToSet(Gather(modified).up) <=> \E t \in DOMAIN modified : st \in ToSet(modified[t].up)
        /\ \A st : st \in ToSet(Gather(modified).down) <=> \E t \in DOMAIN modified : st \in ToSet(modified[t].down)
    BY <2>2, <2>4, Gathered
  <2>6. \A st : st \in ToSet(Gather(modified).up) <=> \E t \in Remade(s, e) \cup Changed(s, e) : (t \in Remade(s, e) /\ st \in Recreation(t, s.tables[t])) \/ (t \notin Remade(s, e) /\ IsAlterUp(t, s.tables[t], e.tables[t], st))
    <3>1. \A t \in DOMAIN modified : \A st : st \in ToSet(modified[t].up) <=> ((t \in Remade(s, e) /\ st \in Recreation(t, s.tables[t])) \/ (t \notin Remade(s, e) /\ IsAlterUp(t, s.tables[t], e.tables[t], st)))
      BY <2>2
    <3> QED BY <2>1, <3>1, <2>5
  <2>7. \A st : st \in ToSet(Gather(modified).down) <=> \E t \in Remade(s, e) \cup Changed(s, e) : (t \in Remade(s, e) /\ st = Manual) \/ (t \notin Remade(s, e) /\ IsAlterDown(t, s.tables[t], e.tables[t], st))
    <3>1. \A t \in DOMAIN modified : \A st : st \in ToSet(modified[t].down) <=> ((t \in Remade(s, e) /\ st = Manual) \/ (t \notin Remade(s, e) /\ IsAlterDown(t, s.tables[t], e.tables[t], st)))
      BY <2>2
    <3> QED BY <2>1, <3>1, <2>5
  <2>8. Orderly(s, e, Gather(modified).up)
    BY <2>2, <2>3, <2>4, OrderlyGather DEF IsPart
  <2> QED BY <2>5, <2>6, <2>7, <2>8
<1> HIDE DEF added, removed, modified
<1>20. PICK p : p = Gather(added)
  OBVIOUS
<1>21. PICK q : q = Gather(removed)
  OBVIOUS
<1>22. PICK r : r = Gather(modified)
  OBVIOUS
<1>23. PICK g : g = Then(p, Then(q, r))
  OBVIOUS
<1>24. /\ IsPart(g)
       /\ \A st : st \in ToSet(g.up) <=> st \in ToSet(p.up) \/ st \in ToSet(q.up) \/ st \in ToSet(r.up)
       /\ \A st : st \in ToSet(g.down) <=> st \in ToSet(p.down) \/ st \in ToSet(q.down) \/ st \in ToSet(r.down)
  BY <1>2, <1>3, <1>4, <1>20, <1>21, <1>22, <1>23, Triple
<1>25. Orderly(s, e, g.up)
  BY <1>2, <1>3, <1>4, <1>20, <1>21, <1>22, <1>23, OrderlyTriple DEF IsPart
<1>26. \A st : st \in ToSet(g.up) <=>
       \/ \E t \in Added(s, e) : IsAddUp(t, s.tables[t], st)
       \/ \E t \in Removed(s, e) : st = DropTable(t)
       \/ \E t \in Remade(s, e) : st \in Recreation(t, s.tables[t])
       \/ \E t \in Changed(s, e) : IsAlterUp(t, s.tables[t], e.tables[t], st)
  <2> TAKE st
  <2>1. st \in ToSet(p.up) <=>
       \E t \in Added(s, e) : IsAddUp(t, s.tables[t], st)
    BY <1>2, <1>20
  <2>2. st \in ToSet(q.up) <=> \E t \in Removed(s, e) : st = DropTable(t)
    BY <1>3, <1>21
  <2>3. st \in ToSet(r.up) <=>
       \/ \E t \in Remade(s, e) : st \in Recreation(t, s.tables[t])
       \/ \E t \in Changed(s, e) : IsAlterUp(t, s.tables[t], e.tables[t], st)
    <3>1. \A t \in Changed(s, e) : t \notin Remade(s, e)
      BY DEF Changed
    <3> QED BY <1>4, <1>22, <3>1
  <2> QED BY <1>24, <2>1, <2>2, <2>3
<1>27. \A st : st \in ToSet(g.down) <=>
       \/ \E t \in Added(s, e) : st = DropTable(t)
       \/ Removed(s, e) \cup Remade(s, e) # {} /\ st = Manual
       \/ \E t \in Changed(s, e) : IsAlterDown(t, s.tables[t], e.tables[t], st)
  <2> TAKE st
  <2>1. st \in ToSet(p.down) <=> \E t \in Added(s, e) : st = DropTable(t)
    BY <1>2, <1>20
  <2>2. st \in ToSet(q.down) <=> \E t \in Removed(s, e) : st = Manual
    BY <1>3, <1>21
  <2>3. st \in ToSet(r.down) <=>
       \/ \E t \in Remade(s, e) : st = Manual
       \/ \E t \in Changed(s, e) : IsAlterDown(t, s.tables[t], e.tables[t], st)
    <3>1. \A t \in Changed(s, e) : t \notin Remade(s, e)
      BY DEF Changed
    <3> QED BY <1>4, <1>22, <3>1
  <2> QED BY <1>24, <2>1, <2>2, <2>3
<1>28. generateTableMigrations(s, diff, e) = g
  BY <1>1, <1>20, <1>21, <1>22, <1>23
<1> QED BY <1>24, <1>25, <1>26, <1>27, <1>28 DEF HasTableStatements

(***************************************************************************)
(* The statements for views and materialized views, and the whole plan.    *)
(***************************************************************************)
DifferingViews(s, e) ==
  {v \in DOMAIN s.views \cap DOMAIN e.views : diffView(s.views[v], e.views[v])}

IsViewUp(s, e, st) ==
  \/ \E v \in DOMAIN s.views \ DOMAIN e.views : st = CreateView(v, s.views[v])
  \/ \E v \in DOMAIN e.views \ DOMAIN s.views : st = DropView(v)
  \/ \E v \in DifferingViews(s, e) : st = ReplaceView(v, s.views[v])

IsViewDown(s, e, st) ==
  \/ \E v \in DOMAIN s.views \ DOMAIN e.views : st = DropView(v)
  \/ (DOMAIN e.views \ DOMAIN s.views) \cup DifferingViews(s, e) # {} /\ st = Manual

HasViewStatements(s, e, g) ==
  /\ IsPart(g) /\ Orderly(s, e, g.up)
  /\ \A st : st \in ToSet(g.up) <=> IsViewUp(s, e, st)
  /\ \A st : st \in ToSet(g.down) <=> IsViewDown(s, e, st)

LEMMA ViewPart ==
    ASSUME NEW s \in Schemas, NEW e, IsDescription(e), NEW diff, diff = diffSchema(s, e)
    PROVE  HasViewStatements(s, e, generateViewMigrations(s, diff))
<1> DEFINE added == [v \in DOMAIN s.views \ DOMAIN e.views |->
                       [up |-> <<CreateView(v, s.views[v])>>, down |-> <<DropView(v)>>]]
           removed == [v \in DOMAIN e.views \ DOMAIN s.views |->
                         [up |-> <<DropView(v)>>, down |-> <<Manual>>]]
           modified == [v \in DifferingViews(s, e) |->
                          [up |-> <<ReplaceView(v, s.views[v])>>, down |-> <<Manual>>]]
<1>1. generateViewMigrations(s, diff) = Then(Gather(added), Then(Gather(removed), Gather(modified)))
  <2>1. /\ diff.views.add = DOMAIN s.views \ DOMAIN e.views
        /\ diff.views.remove = DOMAIN e.views \ DOMAIN s.views
        /\ diff.views.modify = DifferingViews(s, e)
    BY DiffSchemaIs DEF DifferingViews
  <2> QED BY <2>1 DEF generateViewMigrations
<1>5. IsFiniteSet(DOMAIN s.views) /\ IsFiniteSet(DOMAIN e.views)
  BY SchemasAssumption DEF IsSchema, IsNaming, IsDescription
<1>6. /\ IsFiniteSet(DOMAIN s.views \ DOMAIN e.views) /\ IsFiniteSet(DOMAIN e.views \ DOMAIN s.views)
      /\ IsFiniteSet(DifferingViews(s, e))
  <2>1. DifferingViews(s, e) \in SUBSET DOMAIN s.views
    BY DEF DifferingViews
  <2> QED BY <1>5, <2>1, FiniteChanges
<1>7. \A v : DropView(v).op \notin Owers
  BY DEF DropView, Owers
<1>8. \A v, w : CreateView(v, w).op \notin Owers
  BY DEF CreateView, Owers
<1>9. \A v, w : ReplaceView(v, w).op \notin Owers
  BY DEF ReplaceView, Owers
<1>2. /\ IsPart(Gather(added))
      /\ \A st : st \in ToSet(Gather(added).up) <=> \E v \in DOMAIN s.views \ DOMAIN e.views : st = CreateView(v, s.views[v])
      /\ \A st : st \in ToSet(Gather(added).down) <=> \E v \in DOMAIN s.views \ DOMAIN e.views : st = DropView(v)
      /\ Orderly(s, e, Gather(added).up)
  <2>1. DOMAIN added = DOMAIN s.views \ DOMAIN e.views
    OBVIOUS
  <2>2. \A v \in DOMAIN added :
          /\ IsPart(added[v])
          /\ \A st : st \in ToSet(added[v].up) <=> (st = CreateView(v, s.views[v]))
          /\ \A st : st \in ToSet(added[v].down) <=> (st = DropView(v))
    <3> TAKE v \in DOMAIN added
    <3>1. added[v] = [up |-> <<CreateView(v, s.views[v])>>, down |-> <<DropView(v)>>]
      OBVIOUS
    <3> HIDE DEF added
    <3> QED BY <3>1, OnePart
  <2>3. \A v \in DOMAIN added : Orderly(s, e, added[v].up)
    BY <1>8, SomeOrder
  <2> HIDE DEF added
  <2>4. IsFiniteSet(DOMAIN added)
    BY <2>1, <1>6
  <2>5. /\ IsPart(Gather(added))
        /\ \A st : st \in ToSet(Gather(added).up) <=> \E v \in DOMAIN added : st \in ToSet(added[v].up)
        /\ \A st : st \in ToSet(Gather(added).down) <=> \E v \in DOMAIN added : st \in ToSet(added[v].down)
    BY <2>2, <2>4, Gathered
  <2>6. \A st : st \in ToSet(Gather(added).up) <=> \E v \in DOMAIN s.views \ DOMAIN e.views : st = CreateView(v, s.views[v])
    <3>1. \A v \in DOMAIN added : \A st : st \in ToSet(added[v].up) <=> (st = CreateView(v, s.views[v]))
      BY <2>2
    <3> QED BY <2>1, <3>1, <2>5
  <2>7. \A st : st \in ToSet(Gather(added).down) <=> \E v \in DOMAIN s.views \ DOMAIN e.views : st = DropView(v)
    <3>1. \A v \in DOMAIN added : \A st : st \in ToSet(added[v].down) <=> (st = DropView(v))
      BY <2>2
    <3> QED BY <2>1, <3>1, <2>5
  <2>8. Orderly(s, e, Gather(added).up)
    BY <2>2, <2>3, <2>4, OrderlyGather DEF IsPart
  <2> QED BY <2>5, <2>6, <2>7, <2>8
<1>3. /\ IsPart(Gather(removed))
      /\ \A st : st \in ToSet(Gather(removed).up) <=> \E v \in DOMAIN e.views \ DOMAIN s.views : st = DropView(v)
      /\ \A st : st \in ToSet(Gather(removed).down) <=> \E v \in DOMAIN e.views \ DOMAIN s.views : st = Manual
      /\ Orderly(s, e, Gather(removed).up)
  <2>1. DOMAIN removed = DOMAIN e.views \ DOMAIN s.views
    OBVIOUS
  <2>2. \A v \in DOMAIN removed :
          /\ IsPart(removed[v])
          /\ \A st : st \in ToSet(removed[v].up) <=> (st = DropView(v))
          /\ \A st : st \in ToSet(removed[v].down) <=> (st = Manual)
    <3> TAKE v \in DOMAIN removed
    <3>1. removed[v] = [up |-> <<DropView(v)>>, down |-> <<Manual>>]
      OBVIOUS
    <3> HIDE DEF removed
    <3> QED BY <3>1, OnePart
  <2>3. \A v \in DOMAIN removed : Orderly(s, e, removed[v].up)
    BY <1>7, SomeOrder
  <2> HIDE DEF removed
  <2>4. IsFiniteSet(DOMAIN removed)
    BY <2>1, <1>6
  <2>5. /\ IsPart(Gather(removed))
        /\ \A st : st \in ToSet(Gather(removed).up) <=> \E v \in DOMAIN removed : st \in ToSet(removed[v].up)
        /\ \A st : st \in ToSet(Gather(removed).down) <=> \E v \in DOMAIN removed : st \in ToSet(removed[v].down)
    BY <2>2, <2>4, Gathered
  <2>6. \A st : st \in ToSet(Gather(removed).up) <=> \E v \in DOMAIN e.views \ DOMAIN s.views : st = DropView(v)
    <3>1. \A v \in DOMAIN removed : \A st : st \in ToSet(removed[v].up) <=> (st = DropView(v))
      BY <2>2
    <3> QED BY <2>1, <3>1, <2>5
  <2>7. \A st : st \in ToSet(Gather(removed).down) <=> \E v \in DOMAIN e.views \ DOMAIN s.views : st = Manual
    <3>1. \A v \in DOMAIN removed : \A st : st \in ToSet(removed[v].down) <=> (st = Manual)
      BY <2>2
    <3> QED BY <2>1, <3>1, <2>5
  <2>8. Orderly(s, e, Gather(removed).up)
    BY <2>2, <2>3, <2>4, OrderlyGather DEF IsPart
  <2> QED BY <2>5, <2>6, <2>7, <2>8
<1>4. /\ IsPart(Gather(modified))
      /\ \A st : st \in ToSet(Gather(modified).up) <=> \E v \in DifferingViews(s, e) : st = ReplaceView(v, s.views[v])
      /\ \A st : st \in ToSet(Gather(modified).down) <=> \E v \in DifferingViews(s, e) : st = Manual
      /\ Orderly(s, e, Gather(modified).up)
  <2>1. DOMAIN modified = DifferingViews(s, e)
    OBVIOUS
  <2>2. \A v \in DOMAIN modified :
          /\ IsPart(modified[v])
          /\ \A st : st \in ToSet(modified[v].up) <=> (st = ReplaceView(v, s.views[v]))
          /\ \A st : st \in ToSet(modified[v].down) <=> (st = Manual)
    <3> TAKE v \in DOMAIN modified
    <3>1. modified[v] = [up |-> <<ReplaceView(v, s.views[v])>>, down |-> <<Manual>>]
      OBVIOUS
    <3> HIDE DEF modified
    <3> QED BY <3>1, OnePart
  <2>3. \A v \in DOMAIN modified : Orderly(s, e, modified[v].up)
    BY <1>9, SomeOrder
  <2> HIDE DEF modified
  <2>4. IsFiniteSet(DOMAIN modified)
    BY <2>1, <1>6
  <2>5. /\ IsPart(Gather(modified))
        /\ \A st : st \in ToSet(Gather(modified).up) <=> \E v \in DOMAIN modified : st \in ToSet(modified[v].up)
        /\ \A st : st \in ToSet(Gather(modified).down) <=> \E v \in DOMAIN modified : st \in ToSet(modified[v].down)
    BY <2>2, <2>4, Gathered
  <2>6. \A st : st \in ToSet(Gather(modified).up) <=> \E v \in DifferingViews(s, e) : st = ReplaceView(v, s.views[v])
    <3>1. \A v \in DOMAIN modified : \A st : st \in ToSet(modified[v].up) <=> (st = ReplaceView(v, s.views[v]))
      BY <2>2
    <3> QED BY <2>1, <3>1, <2>5
  <2>7. \A st : st \in ToSet(Gather(modified).down) <=> \E v \in DifferingViews(s, e) : st = Manual
    <3>1. \A v \in DOMAIN modified : \A st : st \in ToSet(modified[v].down) <=> (st = Manual)
      BY <2>2
    <3> QED BY <2>1, <3>1, <2>5
  <2>8. Orderly(s, e, Gather(modified).up)
    BY <2>2, <2>3, <2>4, OrderlyGather DEF IsPart
  <2> QED BY <2>5, <2>6, <2>7, <2>8
<1> HIDE DEF added, removed, modified
<1>20. PICK p : p = Gather(added)
  OBVIOUS
<1>21. PICK q : q = Gather(removed)
  OBVIOUS
<1>22. PICK r : r = Gather(modified)
  OBVIOUS
<1>23. PICK g : g = Then(p, Then(q, r))
  OBVIOUS
<1>24. /\ IsPart(g)
       /\ \A st : st \in ToSet(g.up) <=> st \in ToSet(p.up) \/ st \in ToSet(q.up) \/ st \in ToSet(r.up)
       /\ \A st : st \in ToSet(g.down) <=> st \in ToSet(p.down) \/ st \in ToSet(q.down) \/ st \in ToSet(r.down)
  BY <1>2, <1>3, <1>4, <1>20, <1>21, <1>22, <1>23, Triple
<1>25. Orderly(s, e, g.up)
  BY <1>2, <1>3, <1>4, <1>20, <1>21, <1>22, <1>23, OrderlyTriple DEF IsPart
<1>26. \A st : st \in ToSet(g.up) <=> IsViewUp(s, e, st)
  <2> TAKE st
  <2>1. st \in ToSet(g.up) <=> st \in ToSet(p.up) \/ st \in ToSet(q.up) \/ st \in ToSet(r.up)
    BY <1>24
  <2> QED BY <1>2, <1>3, <1>4, <1>20, <1>21, <1>22, <2>1 DEF IsViewUp
<1>27. \A st : st \in ToSet(g.down) <=> IsViewDown(s, e, st)
  <2> TAKE st
  <2>1. st \in ToSet(g.down) <=> st \in ToSet(p.down) \/ st \in ToSet(q.down) \/ st \in ToSet(r.down)
    BY <1>24
  <2> QED BY <1>2, <1>3, <1>4, <1>20, <1>21, <1>22, <2>1 DEF IsViewDown
<1>28. generateViewMigrations(s, diff) = g
  BY <1>1, <1>20, <1>21, <1>22, <1>23
<1> QED BY <1>24, <1>25, <1>26, <1>27, <1>28 DEF HasViewStatements

RebuiltMVs(s, e) ==
  {m \in DOMAIN s.mvs \cap DOMAIN e.mvs : diffMaterializedView(s.mvs[m], e.mvs[m]) = "recreate"}
RefreshedMVs(s, e) ==
  {m \in DOMAIN s.mvs \cap DOMAIN e.mvs :
     diffMaterializedView(s.mvs[m], e.mvs[m]) = "alter_refresh" /\ s.mvs[m].refresh # Null}

IsMVUp(s, e, st) ==
  \/ \E m \in (DOMAIN s.mvs \ DOMAIN e.mvs) \cup RebuiltMVs(s, e) : st = CreateMV(m, s.mvs[m])
  \/ \E m \in (DOMAIN e.mvs \ DOMAIN s.mvs) \cup RebuiltMVs(s, e) : st = DropMV(m)
  \/ \E m \in RefreshedMVs(s, e) : st = AlterRefresh(m, s.mvs[m])

IsMVDown(s, e, st) ==
  \/ \E m \in DOMAIN s.mvs \ DOMAIN e.mvs : st = DropMV(m)
  \/ (DOMAIN e.mvs \ DOMAIN s.mvs) \cup RebuiltMVs(s, e) \cup RefreshedMVs(s, e) # {} /\ st = Manual

HasMVStatements(s, e, g) ==
  /\ IsPart(g) /\ Orderly(s, e, g.up)
  /\ \A st : st \in ToSet(g.up) <=> IsMVUp(s, e, st)
  /\ \A st : st \in ToSet(g.down) <=> IsMVDown(s, e, st)

\* A dropped materialized view is not wanted any more, or is created again.
LEMMA MVOrder ==
    ASSUME NEW s, NEW e, NEW m
    PROVE  /\ m \notin DOMAIN s.mvs => Orderly(s, e, <<DropMV(m)>>)
           /\ Orderly(s, e, <<DropMV(m), CreateMV(m, s.mvs[m])>>)
<1>1. /\ \A u : DropMV(u) = DropMV(m) => u = m
      /\ \A u, d : /\ DropMV(m) # Rename(u) /\ DropMV(m) # CreateTable(u, d)
                   /\ DropMV(m) # DropOld(u) /\ DropMV(m) # DropIndex(u, d)
  BY DEF DropIndex, Rename, CreateTable, DropOld, DropMV
<1>2. PICK a : a = DropMV(m)
  OBVIOUS
<1>3. PICK b : b = CreateMV(m, s.mvs[m])
  OBVIOUS
<1>4. \A u, j, d : /\ b # Rename(u) /\ b # CreateTable(u, d) /\ b # DropOld(u) /\ b # DropMV(u)
                   /\ b # DropIndex(u, j)
  BY <1>3 DEF DropIndex, Rename, CreateTable, DropOld, DropMV, CreateMV
<1>5. ASSUME m \notin DOMAIN s.mvs PROVE Orderly(s, e, <<a>>)
  <2>1. DOMAIN <<a>> = {1} /\ <<a>>[1] = a
    OBVIOUS
  <2> QED BY <1>1, <1>2, <1>5, <2>1 DEF Orderly, Paid, Owing, DropsLate
<1>6. Orderly(s, e, <<a, b>>)
  <2>1. PICK x : x = <<a, b>>
    OBVIOUS
  <2>2. DOMAIN x = {1, 2} /\ x[1] = a /\ x[2] = b
    BY <2>1
  <2>3. Followed(x, 1, b)
    BY <2>2 DEF Followed
  <2>4. Owing(s, e, x, 1)
    <3>1. \A u, d : x[1] # Rename(u) /\ x[1] # CreateTable(u, d) /\ x[1] # DropIndex(u, d)
      BY <1>1, <1>2, <2>2
    <3>2. \A u : x[1] = DropMV(u) => Followed(x, 1, CreateMV(u, s.mvs[u]))
      BY <1>1, <1>2, <1>3, <2>2, <2>3
    <3> QED BY <3>1, <3>2 DEF Owing
  <2>5. Owing(s, e, x, 2)
    BY <1>4, <2>2 DEF Owing
  <2>6. DropsLate(s, x)
    BY <1>1, <1>2, <1>4, <2>2 DEF DropsLate
  <2> QED BY <2>1, <2>2, <2>4, <2>5, <2>6 DEF Orderly, Paid
<1> QED BY <1>2, <1>3, <1>5, <1>6

HasMVChange(s, e, m, g) ==
  /\ IsPart(g) /\ Orderly(s, e, g.up)
  /\ \A st : st \in ToSet(g.up) <=>
       \/ m \in RebuiltMVs(s, e) /\ (st = DropMV(m) \/ st = CreateMV(m, s.mvs[m]))
       \/ m \in RefreshedMVs(s, e) /\ st = AlterRefresh(m, s.mvs[m])
  /\ \A st : st \in ToSet(g.down) <=> m \in RebuiltMVs(s, e) \cup RefreshedMVs(s, e) /\ st = Manual

LEMMA ModifiedMVPart ==
    ASSUME NEW s, NEW e, NEW m \in DOMAIN s.mvs \cap DOMAIN e.mvs,
           diffMaterializedView(s.mvs[m], e.mvs[m]) # "none"
    PROVE  HasMVChange(s, e, m, ModifiedMV(m, s.mvs[m], e.mvs[m]))
<1>1. PICK g : g = ModifiedMV(m, s.mvs[m], e.mvs[m])
  OBVIOUS
<1>2. CASE diffMaterializedView(s.mvs[m], e.mvs[m]) = "recreate"
  <2>1. m \in RebuiltMVs(s, e) /\ m \notin RefreshedMVs(s, e)
    BY <1>2 DEF RebuiltMVs, RefreshedMVs
  <2>2. g = [up |-> <<DropMV(m), CreateMV(m, s.mvs[m])>>, down |-> <<Manual>>]
    BY <1>1, <1>2 DEF ModifiedMV
  <2>3. Orderly(s, e, g.up)
    BY <2>2, MVOrder
  <2>4. /\ IsPart(g)
        /\ \A st : st \in ToSet(g.up) <=> st = DropMV(m) \/ st = CreateMV(m, s.mvs[m])
        /\ \A st : st \in ToSet(g.down) <=> st = Manual
    BY <2>2, TwoPart
  <2> QED BY <1>1, <2>1, <2>3, <2>4 DEF HasMVChange
<1>3. CASE diffMaterializedView(s.mvs[m], e.mvs[m]) # "recreate" /\ s.mvs[m].refresh = Null
  <2>1. m \notin RebuiltMVs(s, e) /\ m \notin RefreshedMVs(s, e)
    BY <1>3 DEF RebuiltMVs, RefreshedMVs
  <2>2. g = [up |-> <<>>, down |-> <<>>]
    BY <1>1, <1>3 DEF ModifiedMV, Nothing
  <2>3. g.up = <<>> /\ g.down = <<>>
    BY <2>2
  <2> QED BY <1>1, <2>1, <2>3, NoneIsSeq, OrderlyNone DEF HasMVChange, IsPart
<1>4. CASE diffMaterializedView(s.mvs[m], e.mvs[m]) # "recreate" /\ s.mvs[m].refresh # Null
  <2>1. m \notin RebuiltMVs(s, e)
    BY <1>4 DEF RebuiltMVs
  <2>2. diffMaterializedView(s.mvs[m], e.mvs[m]) \in {"alter_refresh", "recreate", "none"}
    BY DEF diffMaterializedView
  <2>3. m \in RefreshedMVs(s, e)
    BY <1>4, <2>2 DEF RefreshedMVs
  <2>4. g = [up |-> <<AlterRefresh(m, s.mvs[m])>>, down |-> <<Manual>>]
    BY <1>1, <1>4 DEF ModifiedMV
  <2>5. AlterRefresh(m, s.mvs[m]).op \notin Owers
    BY DEF AlterRefresh, Owers
  <2>6. Orderly(s, e, g.up)
    BY <2>4, <2>5, SomeOrder
  <2>7. /\ IsPart(g)
        /\ \A st : st \in ToSet(g.up) <=> st = AlterRefresh(m, s.mvs[m])
        /\ \A st : st \in ToSet(g.down) <=> st = Manual
    BY <2>4, OnePart
  <2> QED BY <1>1, <2>1, <2>3, <2>6, <2>7 DEF HasMVChange
<1> QED BY <1>2, <1>3, <1>4

LEMMA MVPart ==
    ASSUME NEW s \in Schemas, NEW e, IsDescription(e), NEW diff, diff = diffSchema(s, e)
    PROVE  HasMVStatements(s, e, generateMaterializedViewMigrations(s, diff, e))
<1> DEFINE M == {m \in DOMAIN s.mvs \cap DOMAIN e.mvs :
                   diffMaterializedView(s.mvs[m], e.mvs[m]) # "none"}
           added == [m \in DOMAIN s.mvs \ DOMAIN e.mvs |->
                       [up |-> <<CreateMV(m, s.mvs[m])>>, down |-> <<DropMV(m)>>]]
           removed == [m \in DOMAIN e.mvs \ DOMAIN s.mvs |->
                         [up |-> <<DropMV(m)>>, down |-> <<Manual>>]]
           modified == [m \in M |-> ModifiedMV(m, s.mvs[m], e.mvs[m])]
<1>1. generateMaterializedViewMigrations(s, diff, e)
        = Then(Gather(added), Then(Gather(removed), Gather(modified)))
  <2>1. /\ diff.mvs.add = DOMAIN s.mvs \ DOMAIN e.mvs
        /\ diff.mvs.remove = DOMAIN e.mvs \ DOMAIN s.mvs
        /\ diff.mvs.modify = M
    BY DiffSchemaIs
  <2> QED BY <2>1 DEF generateMaterializedViewMigrations
<1>5. IsFiniteSet(DOMAIN s.mvs) /\ IsFiniteSet(DOMAIN e.mvs)
  BY SchemasAssumption DEF IsSchema, IsNaming, IsDescription
<1>6. /\ IsFiniteSet(DOMAIN s.mvs \ DOMAIN e.mvs) /\ IsFiniteSet(DOMAIN e.mvs \ DOMAIN s.mvs)
      /\ IsFiniteSet(M)
  <2>1. M \in SUBSET DOMAIN s.mvs
    OBVIOUS
  <2> HIDE DEF M
  <2> QED BY <1>5, <2>1, FiniteChanges
<1>7. \A v, w : CreateMV(v, w).op \notin Owers
  BY DEF CreateMV, Owers
<1>8. \A m \in M : m \in DOMAIN s.mvs \cap DOMAIN e.mvs /\ diffMaterializedView(s.mvs[m], e.mvs[m]) # "none"
  OBVIOUS
<1>9. RebuiltMVs(s, e) \cup RefreshedMVs(s, e) \subseteq M
  BY DEF RebuiltMVs, RefreshedMVs
<1> HIDE DEF M
<1>2. /\ IsPart(Gather(added))
      /\ \A st : st \in ToSet(Gather(added).up) <=> \E m \in DOMAIN s.mvs \ DOMAIN e.mvs : st = CreateMV(m, s.mvs[m])
      /\ \A st : st \in ToSet(Gather(added).down) <=> \E m \in DOMAIN s.mvs \ DOMAIN e.mvs : st = DropMV(m)
      /\ Orderly(s, e, Gather(added).up)
  <2>1. DOMAIN added = DOMAIN s.mvs \ DOMAIN e.mvs
    OBVIOUS
  <2>2. \A m \in DOMAIN added :
          /\ IsPart(added[m])
          /\ \A st : st \in ToSet(added[m].up) <=> (st = CreateMV(m, s.mvs[m]))
          /\ \A st : st \in ToSet(added[m].down) <=> (st = DropMV(m))
    <3> TAKE m \in DOMAIN added
    <3>1. added[m] = [up |-> <<CreateMV(m, s.mvs[m])>>, down |-> <<DropMV(m)>>]
      OBVIOUS
    <3> HIDE DEF added
    <3> QED BY <3>1, OnePart
  <2>3. \A m \in DOMAIN added : Orderly(s, e, added[m].up)
    BY <1>7, SomeOrder
  <2> HIDE DEF added
  <2>4. IsFiniteSet(DOMAIN added)
    BY <2>1, <1>6
  <2>5. /\ IsPart(Gather(added))
        /\ \A st : st \in ToSet(Gather(added).up) <=> \E m \in DOMAIN added : st \in ToSet(added[m].up)
        /\ \A st : st \in ToSet(Gather(added).down) <=> \E m \in DOMAIN added : st \in ToSet(added[m].down)
    BY <2>2, <2>4, Gathered
  <2>6. \A st : st \in ToSet(Gather(added).up) <=> \E m \in DOMAIN s.mvs \ DOMAIN e.mvs : st = CreateMV(m, s.mvs[m])
    <3>1. \A m \in DOMAIN added : \A st : st \in ToSet(added[m].up) <=> (st = CreateMV(m, s.mvs[m]))
      BY <2>2
    <3> QED BY <2>1, <3>1, <2>5
  <2>7. \A st : st \in ToSet(Gather(added).down) <=> \E m \in DOMAIN s.mvs \ DOMAIN e.mvs : st = DropMV(m)
    <3>1. \A m \in DOMAIN added : \A st : st \in ToSet(added[m].down) <=> (st = DropMV(m))
      BY <2>2
    <3> QED BY <2>1, <3>1, <2>5
  <2>8. Orderly(s, e, Gather(added).up)
    BY <2>2, <2>3, <2>4, OrderlyGather DEF IsPart
  <2> QED BY <2>5, <2>6, <2>7, <2>8
<1>3. /\ IsPart(Gather(removed))
      /\ \A st : st \in ToSet(Gather(removed).up) <=> \E m \in DOMAIN e.mvs \ DOMAIN s.mvs : st = DropMV(m)
      /\ \A st : st \in ToSet(Gather(removed).down) <=> \E m \in DOMAIN e.mvs \ DOMAIN s.mvs : st = Manual
      /\ Orderly(s, e, Gather(removed).up)
  <2>1. DOMAIN removed = DOMAIN e.mvs \ DOMAIN s.mvs
    OBVIOUS
  <2>2. \A m \in DOMAIN removed :
          /\ IsPart(removed[m])
          /\ \A st : st \in ToSet(removed[m].up) <=> (st = DropMV(m))
          /\ \A st : st \in ToSet(removed[m].down) <=> (st = Manual)
    <3> TAKE m \in DOMAIN removed
    <3>1. removed[m] = [up |-> <<DropMV(m)>>, down |-> <<Manual>>]
      OBVIOUS
    <3> HIDE DEF removed
    <3> QED BY <3>1, OnePart
  <2>3. \A m \in DOMAIN removed : Orderly(s, e, removed[m].up)
    BY MVOrder
  <2> HIDE DEF removed
  <2>4. IsFiniteSet(DOMAIN removed)
    BY <2>1, <1>6
  <2>5. /\ IsPart(Gather(removed))
        /\ \A st : st \in ToSet(Gather(removed).up) <=> \E m \in DOMAIN removed : st \in ToSet(removed[m].up)
        /\ \A st : st \in ToSet(Gather(removed).down) <=> \E m \in DOMAIN removed : st \in ToSet(removed[m].down)
    BY <2>2, <2>4, Gathered
  <2>6. \A st : st \in ToSet(Gather(removed).up) <=> \E m \in DOMAIN e.mvs \ DOMAIN s.mvs : st = DropMV(m)
    <3>1. \A m \in DOMAIN removed : \A st : st \in ToSet(removed[m].up) <=> (st = DropMV(m))
      BY <2>2
    <3> QED BY <2>1, <3>1, <2>5
  <2>7. \A st : st \in ToSet(Gather(removed).down) <=> \E m \in DOMAIN e.mvs \ DOMAIN s.mvs : st = Manual
    <3>1. \A m \in DOMAIN removed : \A st : st \in ToSet(removed[m].down) <=> (st = Manual)
      BY <2>2
    <3> QED BY <2>1, <3>1, <2>5
  <2>8. Orderly(s, e, Gather(removed).up)
    BY <2>2, <2>3, <2>4, OrderlyGather DEF IsPart
  <2> QED BY <2>5, <2>6, <2>7, <2>8
<1>4. /\ IsPart(Gather(modified))
      /\ \A st : st \in ToSet(Gather(modified).up) <=> \E m \in M : (m \in RebuiltMVs(s, e) /\ (st = DropMV(m) \/ st = CreateMV(m, s.mvs[m]))) \/ (m \in RefreshedMVs(s, e) /\ st = AlterRefresh(m, s.mvs[m]))
      /\ \A st : st \in ToSet(Gather(modified).down) <=> \E m \in M : m \in RebuiltMVs(s, e) \cup RefreshedMVs(s, e) /\ st = Manual
      /\ Orderly(s, e, Gather(modified).up)
  <2>1. DOMAIN modified = M
    OBVIOUS
  <2>2. \A m \in DOMAIN modified :
          /\ IsPart(modified[m])
          /\ \A st : st \in ToSet(modified[m].up) <=> ((m \in RebuiltMVs(s, e) /\ (st = DropMV(m) \/ st = CreateMV(m, s.mvs[m]))) \/ (m \in RefreshedMVs(s, e) /\ st = AlterRefresh(m, s.mvs[m])))
          /\ \A st : st \in ToSet(modified[m].down) <=> (m \in RebuiltMVs(s, e) \cup RefreshedMVs(s, e) /\ st = Manual)
    <3> TAKE m \in DOMAIN modified
    <3>1. modified[m] = ModifiedMV(m, s.mvs[m], e.mvs[m]) /\ m \in M
      OBVIOUS
    <3> HIDE DEF modified
    <3>2. m \in DOMAIN s.mvs \cap DOMAIN e.mvs /\ diffMaterializedView(s.mvs[m], e.mvs[m]) # "none"
      BY <1>8, <3>1
    <3>3. HasMVChange(s, e, m, modified[m])
      BY <3>1, <3>2, ModifiedMVPart
    <3> QED BY <3>3 DEF HasMVChange
  <2>3. \A m \in DOMAIN modified : Orderly(s, e, modified[m].up)
    <3> TAKE m \in DOMAIN modified
    <3>1. modified[m] = ModifiedMV(m, s.mvs[m], e.mvs[m]) /\ m \in M
      OBVIOUS
    <3> HIDE DEF modified
    <3>2. m \in DOMAIN s.mvs \cap DOMAIN e.mvs /\ diffMaterializedView(s.mvs[m], e.mvs[m]) # "none"
      BY <1>8, <3>1
    <3>3. HasMVChange(s, e, m, modified[m])
      BY <3>1, <3>2, ModifiedMVPart
    <3> QED BY <3>3 DEF HasMVChange
  <2> HIDE DEF modified
  <2>4. IsFiniteSet(DOMAIN modified)
    BY <2>1, <1>6
  <2>5. /\ IsPart(Gather(modified))
        /\ \A st : st \in ToSet(Gather(modified).up) <=> \E m \in DOMAIN modified : st \in ToSet(modified[m].up)
        /\ \A st : st \in ToSet(Gather(modified).down) <=> \E m \in DOMAIN modified : st \in ToSet(modified[m].down)
    BY <2>2, <2>4, Gathered
  <2>6. \A st : st \in ToSet(Gather(modified).up) <=> \E m \in M : (m \in RebuiltMVs(s, e) /\ (st = DropMV(m) \/ st = CreateMV(m, s.mvs[m]))) \/ (m \in RefreshedMVs(s, e) /\ st = AlterRefresh(m, s.mvs[m]))
    <3>1. \A m \in DOMAIN modified : \A st : st \in ToSet(modified[m].up) <=> ((m \in RebuiltMVs(s, e) /\ (st = DropMV(m) \/ st = CreateMV(m, s.mvs[m]))) \/ (m \in RefreshedMVs(s, e) /\ st = AlterRefresh(m, s.mvs[m])))
      BY <2>2
    <3> QED BY <2>1, <3>1, <2>5
  <2>7. \A st : st \in ToSet(Gather(modified).down) <=> \E m \in M : m \in RebuiltMVs(s, e) \cup RefreshedMVs(s, e) /\ st = Manual
    <3>1. \A m \in DOMAIN modified : \A st : st \in ToSet(modified[m].down) <=> (m \in RebuiltMVs(s, e) \cup RefreshedMVs(s, e) /\ st = Manual)
      BY <2>2
    <3> QED BY <2>1, <3>1, <2>5
  <2>8. Orderly(s, e, Gather(modified).up)
    BY <2>2, <2>3, <2>4, OrderlyGather DEF IsPart
  <2> QED BY <2>5, <2>6, <2>7, <2>8
<1> HIDE DEF added, removed, modified
<1>20. PICK p : p = Gather(added)
  OBVIOUS
<1>21. PICK q : q = Gather(removed)
  OBVIOUS
<1>22. PICK r : r = Gather(modified)
  OBVIOUS
<1>23. PICK g : g = Then(p, Then(q, r))
  OBVIOUS
<1>24. /\ IsPart(g)
       /\ \A st : st \in ToSet(g.up) <=> st \in ToSet(p.up) \/ st \in ToSet(q.up) \/ st \in ToSet(r.up)
       /\ \A st : st \in ToSet(g.down) <=> st \in ToSet(p.down) \/ st \in ToSet(q.down) \/ st \in ToSet(r.down)
  BY <1>2, <1>3, <1>4, <1>20, <1>21, <1>22, <1>23, Triple
<1>25. Orderly(s, e, g.up)
  BY <1>2, <1>3, <1>4, <1>20, <1>21, <1>22, <1>23, OrderlyTriple DEF IsPart
<1>26. \A st : st \in ToSet(g.up) <=> IsMVUp(s, e, st)
  <2> TAKE st
  <2>1. st \in ToSet(g.up) <=> st \in ToSet(p.up) \/ st \in ToSet(q.up) \/ st \in ToSet(r.up)
    BY <1>24
  <2> QED BY <1>2, <1>3, <1>4, <1>20, <1>21, <1>22, <1>9, <2>1 DEF IsMVUp
<1>27. \A st : st \in ToSet(g.down) <=> IsMVDown(s, e, st)
  <2> TAKE st
  <2>1. st \in ToSet(g.down) <=> st \in ToSet(p.down) \/ st \in ToSet(q.down) \/ st \in ToSet(r.down)
    BY <1>24
  <2> QED BY <1>2, <1>3, <1>4, <1>20, <1>21, <1>22, <1>9, <2>1 DEF IsMVDown
<1>28. generateMaterializedViewMigrations(s, diff, e) = g
  BY <1>1, <1>20, <1>21, <1>22, <1>23
<1> QED BY <1>24, <1>25, <1>26, <1>27, <1>28 DEF HasMVStatements

\* What a plan from the description e to the schema s consists of.
IsUp(s, e, st) ==
  \/ \E t \in Added(s, e) : IsAddUp(t, s.tables[t], st)
  \/ \E t \in Removed(s, e) : st = DropTable(t)
  \/ \E t \in Remade(s, e) : st \in Recreation(t, s.tables[t])
  \/ \E t \in Changed(s, e) : IsAlterUp(t, s.tables[t], e.tables[t], st)
  \/ IsViewUp(s, e, st)
  \/ IsMVUp(s, e, st)

IsDown(s, e, st) ==
  \/ \E t \in Added(s, e) : st = DropTable(t)
  \/ Removed(s, e) \cup Remade(s, e) # {} /\ st = Manual
  \/ \E t \in Changed(s, e) : IsAlterDown(t, s.tables[t], e.tables[t], st)
  \/ IsViewDown(s, e, st)
  \/ IsMVDown(s, e, st)

IsPlan(s, e, g) ==
  /\ IsPart(g) /\ Orderly(s, e, g.up)
  /\ \A st : st \in ToSet(g.up) <=> IsUp(s, e, st)
  /\ \A st : st \in ToSet(g.down) <=> IsDown(s, e, st)

LEMMA PlanIs ==
    ASSUME NEW s \in Schemas, NEW e, IsDescription(e)
    PROVE  IsPlan(s, e, generateMigration(s, e))
<1>1. PICK diff : diff = diffSchema(s, e)
  OBVIOUS
<1>2. PICK p : p = generateTableMigrations(s, diff, e)
  OBVIOUS
<1>3. PICK q : q = generateViewMigrations(s, diff)
  OBVIOUS
<1>4. PICK r : r = generateMaterializedViewMigrations(s, diff, e)
  OBVIOUS
<1>5. PICK g : g = Then(p, Then(q, r))
  OBVIOUS
<1>6. generateMigration(s, e) = g
  BY <1>1, <1>2, <1>3, <1>4, <1>5 DEF generateMigration
<1>7. HasTableStatements(s, e, p) /\ HasViewStatements(s, e, q) /\ HasMVStatements(s, e, r)
  BY <1>1, <1>2, <1>3, <1>4, TablePart, ViewPart, MVPart
<1>8. /\ IsPart(p) /\ IsPart(q) /\ IsPart(r)
      /\ Orderly(s, e, p.up) /\ Orderly(s, e, q.up) /\ Orderly(s, e, r.up)
  BY <1>7 DEF HasTableStatements, HasViewStatements, HasMVStatements
<1>9. /\ IsPart(g)
      /\ \A st : st \in ToSet(g.up) <=> st \in ToSet(p.up) \/ st \in ToSet(q.up) \/ st \in ToSet(r.up)
      /\ \A st : st \in ToSet(g.down) <=> st \in ToSet(p.down) \/ st \in ToSet(q.down) \/ st \in ToSet(r.down)
  BY <1>5, <1>8, Triple
<1>10. Orderly(s, e, g.up)
  BY <1>5, <1>8, OrderlyTriple DEF IsPart
<1>11. \A st : st \in ToSet(g.up) <=> IsUp(s, e, st)
  <2> TAKE st
  <2>1. /\ st \in ToSet(p.up) <=>
             \/ \E t \in Added(s, e) : IsAddUp(t, s.tables[t], st)
             \/ \E t \in Removed(s, e) : st = DropTable(t)
             \/ \E t \in Remade(s, e) : st \in Recreation(t, s.tables[t])
             \/ \E t \in Changed(s, e) : IsAlterUp(t, s.tables[t], e.tables[t], st)
        /\ st \in ToSet(q.up) <=> IsViewUp(s, e, st)
        /\ st \in ToSet(r.up) <=> IsMVUp(s, e, st)
    BY <1>7 DEF HasTableStatements, HasViewStatements, HasMVStatements
  <2>2. st \in ToSet(g.up) <=> st \in ToSet(p.up) \/ st \in ToSet(q.up) \/ st \in ToSet(r.up)
    BY <1>9
  <2> QED BY <2>1, <2>2 DEF IsUp
<1>12. \A st : st \in ToSet(g.down) <=> IsDown(s, e, st)
  <2> TAKE st
  <2>1. /\ st \in ToSet(p.down) <=>
             \/ \E t \in Added(s, e) : st = DropTable(t)
             \/ Removed(s, e) \cup Remade(s, e) # {} /\ st = Manual
             \/ \E t \in Changed(s, e) : IsAlterDown(t, s.tables[t], e.tables[t], st)
        /\ st \in ToSet(q.down) <=> IsViewDown(s, e, st)
        /\ st \in ToSet(r.down) <=> IsMVDown(s, e, st)
    BY <1>7 DEF HasTableStatements, HasViewStatements, HasMVStatements
  <2>2. st \in ToSet(g.down) <=> st \in ToSet(p.down) \/ st \in ToSet(q.down) \/ st \in ToSet(r.down)
    BY <1>9
  <2> QED BY <2>1, <2>2 DEF IsDown
<1> QED BY <1>6, <1>9, <1>10, <1>11, <1>12 DEF IsPlan

(***************************************************************************)
(* What a statement makes of the database                                  *)
(***************************************************************************)
TableFields(t) == t = [columns |-> t.columns, key |-> t.key, dist |-> t.dist, props |-> t.props,
                       indexes |-> t.indexes, rows |-> t.rows, special |-> t.special]

ColumnOps == {"addColumn", "modifyColumn", "dropColumn"}

\* A table a, after a statement that alters it in place.
Altered(st, ts, a, b) ==
  /\ TableFields(b) /\ b.key = a.key /\ b.dist = a.dist
  /\ st.op \notin ColumnOps => b.special = a.special
  /\ \/ /\ st.op = "copy" /\ st.from \in DOMAIN ts /\ b.rows = a.rows \cup ts[st.from].rows
        /\ b.columns = a.columns /\ b.props = a.props /\ b.indexes = a.indexes
     \/ /\ st.op \in {"addColumn", "modifyColumn"}
        /\ b.columns = With(a.columns, st.column, StoredColumn(a.key, st.def))
        /\ b.rows = a.rows /\ b.props = a.props /\ b.indexes = a.indexes
     \/ /\ st.op = "dropColumn" /\ b.columns = Without(a.columns, st.column)
        /\ b.indexes = Restrict(a.indexes, {i \in DOMAIN a.indexes :
                                              st.column \notin ToSet(a.indexes[i].columns)})
        /\ b.rows = a.rows /\ b.props = a.props
     \/ /\ st.op = "createIndex" /\ b.indexes = With(a.indexes, st.index, st.def)
        /\ ToSet(st.def.columns) \subseteq DOMAIN a.columns
        /\ b.columns = a.columns /\ b.rows = a.rows /\ b.props = a.props
     \/ /\ st.op = "dropIndex" /\ b.indexes = Without(a.indexes, st.index)
        /\ b.columns = a.columns /\ b.rows = a.rows /\ b.props = a.props
     \/ /\ st.op = "setProperties"
        /\ b.props = [k \in DOMAIN a.props \cup DOMAIN st.props |->
                        IF k \in DOMAIN st.props THEN st.props[k] ELSE a.props[k]]
        /\ b.columns = a.columns /\ b.rows = a.rows /\ b.indexes = a.indexes

AlterOps == {"copy", "addColumn", "modifyColumn", "dropColumn", "createIndex", "dropIndex",
             "setProperties"}
ViewOps == {"createView", "replaceView", "dropView"}
MVOps == {"createMV", "alterRefresh", "dropMV"}

TablesAfter(st, ts, us) ==
  \/ st.op \in ViewOps \cup MVOps /\ us = ts
  \/ st.op = "createTable" /\ st.name \in DOMAIN ts /\ us = ts
  \/ st.op = "createTable" /\ st.name \notin DOMAIN ts /\ us = With(ts, st.name, StoredTable(st.def))
  \/ st.op \in {"dropTableIfExists", "dropTable"} /\ us = Without(ts, st.name)
  \/ /\ st.op = "rename" /\ st.name \in DOMAIN ts /\ st.to \notin DOMAIN ts
     /\ us = With(Without(ts, st.name), st.to, ts[st.name])
  \/ /\ st.op \in AlterOps /\ st.name \in DOMAIN ts
     /\ \E b : Altered(st, ts, ts[st.name], b) /\ us = With(ts, st.name, b)

ViewsAfter(st, vs, ws) ==
  \/ st.op \notin ViewOps /\ ws = vs
  \/ st.op \in {"createView", "replaceView"} /\ ws = With(vs, st.name, st.def)
  \/ st.op = "dropView" /\ ws = Without(vs, st.name)

MVsAfter(st, ms, ns) ==
  \/ st.op \notin MVOps /\ ns = ms
  \/ st.op = "createMV" /\ st.name \in DOMAIN ms /\ ns = ms
  \/ st.op = "createMV" /\ st.name \notin DOMAIN ms /\ ns = With(ms, st.name, StoredMV(st.def))
  \/ st.op = "dropMV" /\ ns = Without(ms, st.name)
  \/ /\ st.op = "alterRefresh" /\ st.name \in DOMAIN ms
     /\ ns = [ms EXCEPT ![st.name].refresh = st.refresh]

DbFields(d) == d = [tables |-> d.tables, views |-> d.views, mvs |-> d.mvs]

HasEffect(st, d, n) ==
  /\ DbFields(n) /\ TablesAfter(st, d.tables, n.tables)
  /\ ViewsAfter(st, d.views, n.views) /\ MVsAfter(st, d.mvs, n.mvs)

LEMMA AlteredTable ==
    ASSUME NEW st, NEW d, DbFields(d), NEW n, NEW b, st.op \in AlterOps, st.name \in DOMAIN d.tables,
           n = [d EXCEPT !.tables = With(@, st.name, b)],
           Altered(st, d.tables, d.tables[st.name], b)
    PROVE  HasEffect(st, d, n)
<1>1. n.tables = With(d.tables, st.name, b) /\ n.views = d.views /\ n.mvs = d.mvs /\ DbFields(n)
  BY DEF DbFields
<1>2. st.op \notin ViewOps /\ st.op \notin MVOps
  BY DEF AlterOps, ViewOps, MVOps
<1> QED BY <1>1, <1>2 DEF HasEffect, TablesAfter, ViewsAfter, MVsAfter

LEMMA TableEffect ==
    ASSUME NEW st, DbFields(db), st.op \notin ViewOps \cup MVOps \cup AlterOps, TakesEffect(st)
    PROVE  HasEffect(st, db, db')
<1>1. PICK n : n = db'
  OBVIOUS
<1>2. \/ /\ st.op = "createTable" /\ st.name \notin DOMAIN db.tables
         /\ n = [db EXCEPT !.tables = With(@, st.name, StoredTable(st.def))]
      \/ st.op = "createTable" /\ st.name \in DOMAIN db.tables /\ n = db
      \/ /\ st.op \in {"dropTableIfExists", "dropTable"}
         /\ n = [db EXCEPT !.tables = Without(@, st.name)]
      \/ /\ st.op = "rename" /\ st.name \in DOMAIN db.tables /\ st.to \notin DOMAIN db.tables
         /\ n = [db EXCEPT !.tables = With(Without(@, st.name), st.to, @[st.name])]
  BY <1>1 DEF TakesEffect, HasTable, SetTable, ViewOps, MVOps, AlterOps
<1>3. DbFields(n) /\ n.views = db.views /\ n.mvs = db.mvs
  BY <1>2 DEF DbFields
<1>4. TablesAfter(st, db.tables, n.tables)
  BY <1>2 DEF DbFields, TablesAfter
<1> QED BY <1>1, <1>3, <1>4 DEF HasEffect, ViewsAfter, MVsAfter

LEMMA ViewEffect ==
    ASSUME NEW st, DbFields(db), st.op \in ViewOps \cup MVOps, TakesEffect(st)
    PROVE  HasEffect(st, db, db')
<1>1. PICK n : n = db'
  OBVIOUS
<1>2. \/ st.op \in {"createView", "replaceView"} /\ n = [db EXCEPT !.views = With(@, st.name, st.def)]
      \/ st.op = "dropView" /\ n = [db EXCEPT !.views = Without(@, st.name)]
      \/ /\ st.op = "createMV"
         /\ n = [db EXCEPT !.mvs = IF st.name \in DOMAIN @ THEN @ ELSE With(@, st.name, StoredMV(st.def))]
      \/ st.op = "dropMV" /\ n = [db EXCEPT !.mvs = Without(@, st.name)]
      \/ /\ st.op = "alterRefresh" /\ st.name \in DOMAIN db.mvs
         /\ n = [db EXCEPT !.mvs[st.name].refresh = st.refresh]
  BY <1>1 DEF TakesEffect, ViewOps, MVOps
<1>3. DbFields(n) /\ n.tables = db.tables
  BY <1>2 DEF DbFields
<1>4. ViewsAfter(st, db.views, n.views)
  BY <1>2 DEF DbFields, ViewsAfter, ViewOps
<1>5. MVsAfter(st, db.mvs, n.mvs)
  BY <1>2 DEF DbFields, MVsAfter, MVOps
<1>6. TablesAfter(st, db.tables, n.tables)
  BY <1>3 DEF TablesAfter
<1> QED BY <1>1, <1>3, <1>4, <1>5, <1>6 DEF HasEffect

LEMMA AlterEffect ==
    ASSUME NEW st, DbFields(db), \A x \in DOMAIN db.tables : TableFields(db.tables[x]),
           st.op \in AlterOps, TakesEffect(st)
    PROVE  HasEffect(st, db, db')
<1>1. PICK n : n = db'
  OBVIOUS
<1>2. PICK d : d = db
  OBVIOUS
<1>3. PICK a : a = d.tables[st.name]
  OBVIOUS
<1>4. st.name \in DOMAIN d.tables
  BY <1>2 DEF TakesEffect, HasTable, AlterOps
<1>5. TableFields(a)
  BY <1>2, <1>3, <1>4
<1>6. /\ st.op = "copy" => /\ st.from \in DOMAIN d.tables
                           /\ n = [d EXCEPT !.tables = With(@, st.name, [a EXCEPT !.rows = @ \cup d.tables[st.from].rows])]
      /\ st.op \in {"addColumn", "modifyColumn"} =>
           n = [d EXCEPT !.tables = With(@, st.name, [a EXCEPT
                             !.columns = With(@, st.column, StoredColumn(a.key, st.def)),
                             !.special = @ \ {st.column}])]
  BY <1>1, <1>2, <1>3 DEF TakesEffect, HasTable, SetTable, SetColumn
<1>7. /\ st.op = "dropColumn" =>
           n = [d EXCEPT !.tables = With(@, st.name, [a EXCEPT
                             !.columns = Without(@, st.column), !.special = @ \ {st.column},
                             !.indexes = Restrict(@, {i \in DOMAIN @ :
                                                        st.column \notin ToSet(@[i].columns)})])]
      /\ st.op = "createIndex" => 
           /\ ToSet(st.def.columns) \subseteq DOMAIN a.columns
           /\ n = [d EXCEPT !.tables = With(@, st.name, [a EXCEPT !.indexes = With(@, st.index, st.def)])]
  BY <1>1, <1>2, <1>3 DEF TakesEffect, HasTable, SetTable
<1>8. /\ st.op = "dropIndex" =>
           n = [d EXCEPT !.tables = With(@, st.name, [a EXCEPT !.indexes = Without(@, st.index)])]
      /\ st.op = "setProperties" =>
           n = [d EXCEPT !.tables = With(@, st.name, [a EXCEPT
                             !.props = [k \in DOMAIN @ \cup DOMAIN st.props |->
                                          IF k \in DOMAIN st.props THEN st.props[k] ELSE @[k]]])]
  BY <1>1, <1>2, <1>3 DEF TakesEffect, HasTable, SetTable
<1>9. DbFields(d)
  BY <1>2
<1> SUFFICES HasEffect(st, d, n)
  BY <1>1, <1>2
<1>10. CASE st.op = "copy"
  <2>1. PICK b : b = [a EXCEPT !.rows = @ \cup d.tables[st.from].rows]
    OBVIOUS
  <2>2. Altered(st, d.tables, a, b)
    BY <1>5, <1>6, <1>10, <2>1 DEF Altered, TableFields, ColumnOps
  <2> QED BY <1>3, <1>4, <1>6, <1>9, <1>10, <2>1, <2>2, AlteredTable
<1>11. CASE st.op \in {"addColumn", "modifyColumn"}
  <2>1. PICK b : b = [a EXCEPT !.columns = With(@, st.column, StoredColumn(a.key, st.def)),
                               !.special = @ \ {st.column}]
    OBVIOUS
  <2>2. Altered(st, d.tables, a, b)
    BY <1>5, <1>6, <1>11, <2>1 DEF Altered, TableFields, ColumnOps
  <2> QED BY <1>3, <1>4, <1>6, <1>9, <1>11, <2>1, <2>2, AlteredTable
<1>12. CASE st.op = "dropColumn"
  <2>1. PICK b : b = [a EXCEPT !.columns = Without(@, st.column), !.special = @ \ {st.column},
                               !.indexes = Restrict(@, {i \in DOMAIN @ :
                                                        st.column \notin ToSet(@[i].columns)})]
    OBVIOUS
  <2>2. Altered(st, d.tables, a, b)
    BY <1>5, <1>12, <2>1 DEF Altered, TableFields, ColumnOps
  <2> QED BY <1>3, <1>4, <1>7, <1>9, <1>12, <2>1, <2>2, AlteredTable
<1>13. CASE st.op = "createIndex"
  <2>1. PICK b : b = [a EXCEPT !.indexes = With(@, st.index, st.def)]
    OBVIOUS
  <2>2. Altered(st, d.tables, a, b)
    BY <1>5, <1>7, <1>13, <2>1 DEF Altered, TableFields, ColumnOps
  <2> QED BY <1>3, <1>4, <1>7, <1>9, <1>13, <2>1, <2>2, AlteredTable
<1>14. CASE st.op = "dropIndex"
  <2>1. PICK b : b = [a EXCEPT !.indexes = Without(@, st.index)]
    OBVIOUS
  <2>2. Altered(st, d.tables, a, b)
    BY <1>5, <1>14, <2>1 DEF Altered, TableFields, ColumnOps
  <2> QED BY <1>3, <1>4, <1>8, <1>9, <1>14, <2>1, <2>2, AlteredTable
<1>15. CASE st.op = "setProperties"
  <2>1. PICK b : b = [a EXCEPT !.props = [k \in DOMAIN @ \cup DOMAIN st.props |->
                                          IF k \in DOMAIN st.props THEN st.props[k] ELSE @[k]]]
    OBVIOUS
  <2>2. Altered(st, d.tables, a, b)
    BY <1>5, <1>15, <2>1 DEF Altered, TableFields, ColumnOps
  <2> QED BY <1>3, <1>4, <1>8, <1>9, <1>15, <2>1, <2>2, AlteredTable
<1> QED BY <1>10, <1>11, <1>12, <1>13, <1>14, <1>15 DEF AlterOps

(***************************************************************************)
(* Types, columns and tables as the database keeps them.                   *)
(***************************************************************************)
LEMMA Spelling ==
    ASSUME NEW x, IsType(x)
    PROVE  /\ IsType(Spelled(x)) /\ Spelled(Spelled(x)) = Spelled(x)
           /\ normalizeDataType(Spelled(x)) = normalizeDataType(x)
<1>1. CASE x \in {[base |-> "TINYINT", width |-> 1], [base |-> "BOOLEAN", width |-> 0]}
  <2>1. \A y \in {[base |-> "TINYINT", width |-> 1], [base |-> "BOOLEAN", width |-> 0]} :
          normalizeDataType(y) = [base |-> "BOOLEAN", width |-> 0]
    BY DEF normalizeDataType
  <2>2. \A y : normalizeDataType(y) = [base |-> "BOOLEAN", width |-> 0] =>
          Spelled(y) = [base |-> "TINYINT", width |-> 1]
    <3> TAKE y
    <3> HAVE normalizeDataType(y) = [base |-> "BOOLEAN", width |-> 0]
    <3>1. PICK plain : plain = normalizeDataType(y)
      OBVIOUS
    <3>2. plain.base = "BOOLEAN" /\ plain.base \notin IntegerTypes
      BY <3>1 DEF IntegerTypes
    <3> QED BY <3>1, <3>2 DEF Spelled
  <2>3. PICK z : z = [base |-> "TINYINT", width |-> 1]
    OBVIOUS
  <2>4. Spelled(x) = z /\ Spelled(z) = z
    BY <1>1, <2>1, <2>2, <2>3
  <2>5. normalizeDataType(z) = normalizeDataType(x)
    BY <1>1, <2>1, <2>3
  <2>6. IsType(z)
    BY <2>3 DEF IsType
  <2> QED BY <2>4, <2>5, <2>6
<1>2. CASE /\ x \notin {[base |-> "TINYINT", width |-> 1], [base |-> "BOOLEAN", width |-> 0]}
           /\ x.base \in IntegerTypes
  <2>1. normalizeDataType(x) = [base |-> x.base, width |-> 0]
    BY <1>2 DEF normalizeDataType, IsType
  <2>2. x.base # "BOOLEAN"
    BY <1>2 DEF IntegerTypes
  <2>3. Spelled(x) = [base |-> x.base, width |-> 11]
    BY <1>2, <2>1, <2>2 DEF Spelled
  <2>4. PICK y : y = [base |-> x.base, width |-> 11]
    OBVIOUS
  <2>5. normalizeDataType(y) = [base |-> x.base, width |-> 0]
    BY <1>2, <2>4 DEF normalizeDataType
  <2>6. Spelled(y) = y
    BY <1>2, <2>2, <2>4, <2>5 DEF Spelled
  <2> QED BY <2>1, <2>2, <2>3, <2>4, <2>5, <2>6 DEF IsType
<1>3. CASE /\ x \notin {[base |-> "TINYINT", width |-> 1], [base |-> "BOOLEAN", width |-> 0]}
           /\ x.base \notin IntegerTypes
  <2>1. normalizeDataType(x) = x
    BY <1>3 DEF normalizeDataType
  <2>2. x.base # "BOOLEAN"
    BY <1>3 DEF IsType
  <2>3. Spelled(x) = x
    BY <1>3, <2>1, <2>2 DEF Spelled
  <2> QED BY <2>3
<1> QED BY <1>1, <1>2, <1>3

\* Two types that the differ takes for the same are spelled alike.
LEMMA SpelledAlike ==
    ASSUME NEW x, NEW y, IsType(x), IsType(y), normalizeDataType(x) = normalizeDataType(y)
    PROVE  Spelled(x) = Spelled(y)
<1>1. CASE normalizeDataType(x).base = "BOOLEAN" \/ normalizeDataType(x).base \in IntegerTypes
  BY <1>1 DEF Spelled
<1>2. CASE ~(normalizeDataType(x).base = "BOOLEAN" \/ normalizeDataType(x).base \in IntegerTypes)
  <2>1. normalizeDataType(x) = x
    BY <1>2 DEF normalizeDataType, IntegerTypes
  <2>2. ~(normalizeDataType(y).base = "BOOLEAN" \/ normalizeDataType(y).base \in IntegerTypes)
    BY <1>2
  <2>3. normalizeDataType(y) = y
    BY <2>2 DEF normalizeDataType, IntegerTypes
  <2> QED BY <2>1, <2>3
<1> QED BY <1>1, <1>2

\* A column as the database keeps it.
IsStoredColumn(key, col) ==
  IsColumn(col) /\ Spelled(col.type) = col.type /\ (key = "PRIMARY" => col.default = Null)

LEMMA StoredColumnIs ==
    ASSUME NEW key, NEW col, IsColumn(col)
    PROVE  /\ IsStoredColumn(key, StoredColumn(key, col))
           /\ StoredColumn(key, col) = [type |-> Spelled(col.type), nullable |-> col.nullable,
                                        default |-> IF key = "PRIMARY" THEN Null ELSE col.default]
<1>1. StoredColumn(key, col) = [type |-> Spelled(col.type), nullable |-> col.nullable,
                                        default |-> IF key = "PRIMARY" THEN Null ELSE col.default]
  <2>1. PICK a, b, c : col = [type |-> a, nullable |-> b, default |-> c]
    BY DEF IsColumn
  <2>2. PICK d : d = IF key = "PRIMARY" THEN Null ELSE c
    OBVIOUS
  <2>3. StoredColumn(key, col) = [col EXCEPT !.type = Spelled(a), !.default = d]
    BY <2>1, <2>2 DEF StoredColumn
  <2> QED BY <2>1, <2>2, <2>3
<1>2. IsType(Spelled(col.type)) /\ Spelled(Spelled(col.type)) = Spelled(col.type)
  BY Spelling DEF IsColumn
<1> QED BY <1>1, <1>2 DEF IsStoredColumn, IsColumn

\* Tables with fields columns, key, dist, props and indexes.
HasStoredParts(t) ==
  /\ IsNaming(t.columns) /\ \A c \in DOMAIN t.columns : IsStoredColumn(t.key, t.columns[c])
  /\ IsDistribution(t.dist)
  /\ IsNaming(t.props)
  /\ IsNaming(t.indexes) /\ \A i \in DOMAIN t.indexes : IsIndex(t.indexes[i], DOMAIN t.columns)

IsStoredTable(t) == TableFields(t) /\ HasStoredParts(t)

IsDb(d) ==
  /\ DbFields(d)
  /\ IsNaming(d.tables) /\ \A x \in DOMAIN d.tables : IsStoredTable(d.tables[x])
  /\ IsNaming(d.views) /\ \A v \in DOMAIN d.views : IsView(d.views[v])
  /\ IsNaming(d.mvs) /\ \A m \in DOMAIN d.mvs : IsMV(d.mvs[m])

\* A table as it is read from such a database, and a description of one.
HasReadParts(t) ==
  /\ IsNaming(t.columns) /\ \A c \in DOMAIN t.columns : IsColumn(t.columns[c])
  /\ IsDistribution(t.dist)
  /\ IsNaming(t.props)
  /\ IsNaming(t.indexes) /\ \A i \in DOMAIN t.indexes : IsIndex(t.indexes[i], DOMAIN t.columns)

IsRead(e) ==
  /\ e = [tables |-> e.tables, views |-> e.views, mvs |-> e.mvs]
  /\ IsNaming(e.tables)
  /\ \A x \in DOMAIN e.tables :
       /\ e.tables[x] = [columns |-> e.tables[x].columns, key |-> e.tables[x].key, dist |-> e.tables[x].dist,
                         props |-> e.tables[x].props, indexes |-> e.tables[x].indexes]
       /\ HasReadParts(e.tables[x])
  /\ IsNaming(e.views) /\ \A v \in DOMAIN e.views : IsView(e.views[v])
  /\ IsNaming(e.mvs) /\ \A m \in DOMAIN e.mvs : IsMV(e.mvs[m])

\* What an introspection gives when every query is answered, and its description.
Seen(d) == introspect(d, NothingLost)
IsSeen(e) == IsRead(e) /\ \A x \in DOMAIN e.tables : HasStoredParts(e.tables[x])

LEMMA ReadIsDescription ==
    ASSUME NEW e, IsRead(e)
    PROVE  IsDescription(e)
BY DEF IsRead, IsDescription, HasReadParts, IsNaming

SeenTable(t) ==
  [columns |-> t.columns, key |-> t.key,
   dist    |-> IF t.dist.buckets = NoBuckets THEN NoDistribution ELSE t.dist,
   props   |-> t.props,
   indexes |-> [i \in DOMAIN t.indexes |-> [t.indexes[i] EXCEPT !.params = @]]]

LEMMA SeenParts ==
    ASSUME NEW d
    PROVE  Seen(d) = [tables |-> [x \in DOMAIN d.tables |-> SeenTable(d.tables[x])],
                      views  |-> [v \in DOMAIN d.views |-> [d.views[v] EXCEPT !.security = Null]],
                      mvs    |-> d.mvs]
<1>1. \A x : /\ x \notin NothingLost.ddl /\ x \notin NothingLost.primary /\ x \notin NothingLost.index
             /\ ~NothingLost.mvs
  BY DEF NothingLost
<1>2. \A x : introspectTable(d.tables[x], x \in NothingLost.ddl, x \in NothingLost.primary,
                             x \in NothingLost.index) = SeenTable(d.tables[x])
  BY <1>1 DEF introspectTable, SeenTable
<1> QED BY <1>1, <1>2 DEF Seen, introspect

LEMMA TableSeen ==
    ASSUME NEW t, IsStoredTable(t)
    PROVE  SeenTable(t) =
             [columns |-> t.columns, key |-> t.key, props |-> t.props, indexes |-> t.indexes,
              dist |-> IF t.dist.buckets = NoBuckets THEN NoDistribution ELSE t.dist]
<1>1. \A i \in DOMAIN t.indexes :
        t.indexes[i] = [type |-> t.indexes[i].type, columns |-> t.indexes[i].columns,
                        params |-> t.indexes[i].params]
  BY DEF IsStoredTable, HasStoredParts, IsIndex
<1>2. PICK f : f = t.indexes
  OBVIOUS
<1>3. f = [i \in DOMAIN f |-> f[i]]
  BY <1>2 DEF IsStoredTable, HasStoredParts, IsNaming
<1>4. \A i \in DOMAIN f : [f[i] EXCEPT !.params = @] = f[i]
  BY <1>1, <1>2
<1>5. [i \in DOMAIN f |-> [f[i] EXCEPT !.params = @]] = f
  BY <1>3, <1>4
<1> QED BY <1>2, <1>5 DEF SeenTable

LEMMA IntrospectIs ==
    ASSUME NEW d, IsDb(d)
    PROVE  LET e == Seen(d) IN
           /\ DOMAIN e.tables = DOMAIN d.tables
           /\ \A x \in DOMAIN d.tables :
                /\ e.tables[x].columns = d.tables[x].columns /\ e.tables[x].key = d.tables[x].key
                /\ e.tables[x].props = d.tables[x].props /\ e.tables[x].indexes = d.tables[x].indexes
                /\ e.tables[x].dist = IF d.tables[x].dist.buckets = NoBuckets
                                      THEN NoDistribution ELSE d.tables[x].dist
           /\ DOMAIN e.views = DOMAIN d.views
           /\ \A v \in DOMAIN d.views : e.views[v] = [d.views[v] EXCEPT !.security = Null]
           /\ e.mvs = d.mvs
<1>1. PICK e : e = Seen(d)
  OBVIOUS
<1>2. /\ e.tables = [x \in DOMAIN d.tables |-> SeenTable(d.tables[x])]
      /\ e.views = [v \in DOMAIN d.views |-> [d.views[v] EXCEPT !.security = Null]]
      /\ e.mvs = d.mvs
  BY <1>1, SeenParts
<1>3. \A x \in DOMAIN d.tables :
        e.tables[x] = [columns |-> d.tables[x].columns, key |-> d.tables[x].key, props |-> d.tables[x].props,
                       indexes |-> d.tables[x].indexes,
                       dist |-> IF d.tables[x].dist.buckets = NoBuckets
                                THEN NoDistribution ELSE d.tables[x].dist]
  BY <1>2, TableSeen DEF IsDb
<1>4. ASSUME NEW x \in DOMAIN d.tables
      PROVE  /\ e.tables[x].columns = d.tables[x].columns /\ e.tables[x].key = d.tables[x].key
             /\ e.tables[x].props = d.tables[x].props /\ e.tables[x].indexes = d.tables[x].indexes
             /\ e.tables[x].dist = IF d.tables[x].dist.buckets = NoBuckets
                                   THEN NoDistribution ELSE d.tables[x].dist
  <2>1. PICK t, z : t = d.tables[x] /\ z = e.tables[x]
    OBVIOUS
  <2>2. PICK dist : dist = IF t.dist.buckets = NoBuckets THEN NoDistribution ELSE t.dist
    OBVIOUS
  <2>3. z = [columns |-> t.columns, key |-> t.key, props |-> t.props, indexes |-> t.indexes, dist |-> dist]
    BY <1>3, <2>1, <2>2
  <2>4. /\ z.columns = t.columns /\ z.key = t.key /\ z.props = t.props /\ z.indexes = t.indexes
        /\ z.dist = dist
    BY <2>3
  <2> QED BY <2>1, <2>2, <2>4
<1>5. ASSUME NEW v \in DOMAIN d.views PROVE e.views[v] = [d.views[v] EXCEPT !.security = Null]
  BY <1>2
<1>6. DOMAIN e.tables = DOMAIN d.tables /\ DOMAIN e.views = DOMAIN d.views /\ e.mvs = d.mvs
  BY <1>2
<1> QED BY <1>1, <1>4, <1>5, <1>6

\* The parts of a table, whatever is not told of it.
LEMMA TableReads ==
    ASSUME NEW t, IsStoredTable(t), NEW ddl, NEW primary, NEW index, NEW e,
           e = introspectTable(t, ddl, primary, index)
    PROVE  /\ e = [columns |-> e.columns, key |-> e.key, dist |-> e.dist, props |-> e.props,
                   indexes |-> e.indexes]
           /\ HasReadParts(e)
<1>1. /\ e = [columns |-> e.columns, key |-> e.key, dist |-> e.dist, props |-> e.props,
              indexes |-> e.indexes]
      /\ e.columns = t.columns /\ e.dist \in {NoDistribution, t.dist}
      /\ e.props \in {NoNames, t.props}
      /\ e.indexes = [i \in DOMAIN e.indexes |-> e.indexes[i]] /\ DOMAIN e.indexes \in {{}, DOMAIN t.indexes}
      /\ \A i \in DOMAIN e.indexes :
           e.indexes[i] = [t.indexes[i] EXCEPT !.params = IF ddl THEN NoNames ELSE @]
  BY DEF introspectTable
<1>2. IsNaming(NoNames)
  BY FS_EmptySet DEF IsNaming, NoNames
<1>3. IsDistribution(e.dist) /\ IsNaming(e.props)
  BY <1>1, <1>2 DEF IsStoredTable, HasStoredParts, IsDistribution, NoDistribution, NullBuckets
<1>4. IsNaming(e.indexes)
  BY <1>1, FS_EmptySet DEF IsStoredTable, HasStoredParts, IsNaming
<1>5. ASSUME NEW i \in DOMAIN e.indexes PROVE IsIndex(e.indexes[i], DOMAIN e.columns)
  <2>1. PICK x, p : x = t.indexes[i] /\ p = IF ddl THEN NoNames ELSE x.params
    OBVIOUS
  <2>2. IsIndex(x, DOMAIN t.columns) /\ IsNaming(p)
    BY <1>1, <1>2, <1>5, <2>1 DEF IsStoredTable, HasStoredParts, IsIndex
  <2>3. e.indexes[i] = [type |-> x.type, columns |-> x.columns, params |-> p]
    BY <1>1, <1>5, <2>1, <2>2 DEF IsIndex
  <2> QED BY <1>1, <2>2, <2>3 DEF IsIndex
<1>6. IsNaming(e.columns) /\ \A c \in DOMAIN e.columns : IsColumn(e.columns[c])
  BY <1>1 DEF IsStoredTable, HasStoredParts, IsStoredColumn
<1> QED BY <1>1, <1>3, <1>4, <1>5, <1>6 DEF HasReadParts

LEMMA IntrospectReads ==
    ASSUME NEW d, IsDb(d), NEW lost
    PROVE  IsRead(introspect(d, lost))
<1>1. PICK e : e = introspect(d, lost)
  OBVIOUS
<1>2. /\ e = [tables |-> e.tables, views |-> e.views, mvs |-> e.mvs]
      /\ e.tables = [x \in DOMAIN e.tables |-> e.tables[x]] /\ DOMAIN e.tables = DOMAIN d.tables
      /\ e.views = [v \in DOMAIN e.views |-> e.views[v]] /\ DOMAIN e.views = DOMAIN d.views
      /\ \A v \in DOMAIN d.views : e.views[v] = [d.views[v] EXCEPT !.security = Null]
      /\ e.mvs \in {NoNames, d.mvs}
  BY <1>1 DEF introspect
<1>3. ASSUME NEW x \in DOMAIN e.tables
      PROVE  /\ e.tables[x] = [columns |-> e.tables[x].columns, key |-> e.tables[x].key, dist |-> e.tables[x].dist,
                               props |-> e.tables[x].props, indexes |-> e.tables[x].indexes]
             /\ HasReadParts(e.tables[x])
  <2>1. e.tables[x] = introspectTable(d.tables[x], x \in lost.ddl, x \in lost.primary, x \in lost.index)
    BY <1>1, <1>2, <1>3 DEF introspect
  <2>2. IsStoredTable(d.tables[x])
    BY <1>2, <1>3 DEF IsDb
  <2> QED BY <2>1, <2>2, TableReads
<1>4. ASSUME NEW v \in DOMAIN e.views PROVE IsView(e.views[v])
  <2>1. e.views[v] = [d.views[v] EXCEPT !.security = Null] /\ IsView(d.views[v])
    BY <1>2, <1>4 DEF IsDb
  <2> QED BY <2>1 DEF IsView
<1>5. IsNaming(e.mvs) /\ \A m \in DOMAIN e.mvs : IsMV(e.mvs[m])
  BY <1>2, FS_EmptySet DEF IsDb, IsNaming, NoNames
<1> QED BY <1>1, <1>2, <1>3, <1>4, <1>5 DEF IsDb, IsRead, IsNaming

LEMMA SeenIs ==
    ASSUME NEW d, IsDb(d)
    PROVE  IsSeen(Seen(d)) /\ IsRead(Seen(d))
<1>1. PICK e : e = Seen(d)
  OBVIOUS
<1>2. IsRead(e)
  BY <1>1, IntrospectReads DEF Seen
<1>3. ASSUME NEW x \in DOMAIN e.tables PROVE HasStoredParts(e.tables[x])
  <2>1. PICK t, z : t = d.tables[x] /\ z = e.tables[x]
    OBVIOUS
  <2>2. /\ z.columns = t.columns /\ z.key = t.key /\ z.props = t.props /\ z.indexes = t.indexes
        /\ z.dist = IF t.dist.buckets = NoBuckets THEN NoDistribution ELSE t.dist
    BY <1>1, <1>3, <2>1, IntrospectIs
  <2>3. HasStoredParts(t)
    BY <1>1, <1>3, <2>1, IntrospectIs DEF IsDb, IsStoredTable
  <2>4. IsDistribution(z.dist)
    BY <2>2, <2>3 DEF HasStoredParts, IsDistribution, NoDistribution, NullBuckets
  <2> QED BY <2>1, <2>2, <2>3, <2>4 DEF HasStoredParts
<1> QED BY <1>1, <1>2, <1>3 DEF IsSeen

LEMMA StoredTableIs ==
    ASSUME NEW def, IsTable(def)
    PROVE  IsStoredTable(StoredTable(def))
<1>1. PICK t : t = StoredTable(def)
  OBVIOUS
<1>2. TableFields(t) /\ t.key = def.key
  BY <1>1 DEF StoredTable, TableFields
<1>3. /\ DOMAIN t.columns = DOMAIN def.columns /\ t.columns = [c \in DOMAIN t.columns |-> t.columns[c]]
      /\ \A c \in DOMAIN def.columns : t.columns[c] = StoredColumn(def.key, def.columns[c])
  BY <1>1 DEF StoredTable
<1>4. /\ DOMAIN t.props = DOMAIN def.props /\ t.props = [k \in DOMAIN t.props |-> t.props[k]]
  BY <1>1 DEF StoredTable
<1>5. /\ DOMAIN t.indexes \subseteq DOMAIN def.indexes /\ t.indexes = [i \in DOMAIN t.indexes |-> t.indexes[i]]
      /\ \A i \in DOMAIN t.indexes : t.indexes[i] = def.indexes[i]
  BY <1>1 DEF StoredTable, Restrict
<1>6. IsDistribution(t.dist)
  BY <1>1 DEF StoredTable, IsTable, IsDistribution, NoBuckets
<1>7. IsFiniteSet(DOMAIN t.columns) /\ IsFiniteSet(DOMAIN t.props)
  BY <1>3, <1>4 DEF IsTable, IsNaming
<1>8. IsFiniteSet(DOMAIN t.indexes)
  BY <1>5, FS_Subset DEF IsTable, IsNaming
<1>9. \A c \in DOMAIN t.columns : IsStoredColumn(t.key, t.columns[c])
  BY <1>2, <1>3, StoredColumnIs DEF IsTable
<1>10. \A i \in DOMAIN t.indexes : IsIndex(t.indexes[i], DOMAIN t.columns)
  BY <1>3, <1>5 DEF IsTable
<1> QED BY <1>1, <1>2, <1>3, <1>4, <1>5, <1>6, <1>7, <1>8, <1>9, <1>10 DEF IsStoredTable, HasStoredParts, IsNaming

LEMMA StoredMVIs ==
    ASSUME NEW m, IsMV(m)
    PROVE  IsMV(StoredMV(m))
<1>1. PICK columns, refresh, dist : m = [columns |-> columns, refresh |-> refresh, dist |-> dist]
  BY DEF IsMV
<1>2. StoredMV(m) = [columns |-> columns, refresh |-> IF refresh = Null THEN "MANUAL" ELSE refresh,
                     dist |-> IF dist.type = Null THEN NoDistribution ELSE dist]
  <2>1. PICK r : r = IF refresh = Null THEN "MANUAL" ELSE refresh
    OBVIOUS
  <2>2. PICK d : d = IF dist.type = Null THEN NoDistribution ELSE dist
    OBVIOUS
  <2>3. StoredMV(m) = [m EXCEPT !.refresh = r, !.dist = d]
    BY <1>1, <2>1, <2>2 DEF StoredMV
  <2> QED BY <1>1, <2>1, <2>2, <2>3
<1>3. IsDistribution(NoDistribution) /\ IsDistribution(dist)
  BY <1>1 DEF IsMV, IsDistribution, NoDistribution, NullBuckets
<1> QED BY <1>2, <1>3 DEF IsMV

LEMMA StoredSchemaIs ==
    ASSUME NEW s \in Schemas
    PROVE  IsDb(StoredSchema(s))
<1>1. PICK d : d = StoredSchema(s)
  OBVIOUS
<1>2. IsSchema(s)
  BY SchemasAssumption
<1>3. /\ DbFields(d) /\ d.views = s.views
      /\ DOMAIN d.tables = DOMAIN s.tables /\ d.tables = [x \in DOMAIN d.tables |-> d.tables[x]]
      /\ DOMAIN d.mvs = DOMAIN s.mvs /\ d.mvs = [m \in DOMAIN d.mvs |-> d.mvs[m]]
      /\ \A x \in DOMAIN s.tables : d.tables[x] = StoredTable(s.tables[x])
      /\ \A m \in DOMAIN s.mvs : d.mvs[m] = StoredMV(s.mvs[m])
  BY <1>1 DEF StoredSchema, DbFields
<1>4. \A x \in DOMAIN d.tables : IsStoredTable(d.tables[x])
  BY <1>2, <1>3, StoredTableIs DEF IsSchema
<1>5. \A m \in DOMAIN d.mvs : IsMV(d.mvs[m])
  BY <1>2, <1>3, StoredMVIs DEF IsSchema
<1> QED BY <1>1, <1>2, <1>3, <1>4, <1>5 DEF IsDb, IsSchema, IsNaming

(***************************************************************************)
(* A table, a view and a materialized view before and after a statement.   *)
(***************************************************************************)
OnColumn(st, x, c) ==
  st.op \in {"addColumn", "dropColumn", "modifyColumn"} /\ st.name = x /\ st.column = c
OnIndex(st, x, i) == st.op \in {"createIndex", "dropIndex"} /\ st.name = x /\ st.index = i
OnProperty(st, x, k) == st.op = "setProperties" /\ st.name = x /\ k \in DOMAIN st.props
OnView(st, v) == st.op \in ViewOps /\ st.name = v
OnMV(st, m) == st.op \in MVOps /\ st.name = m

\* A table x that was there before and is there after.
ColumnsAfter(st, x, a, b) ==
  /\ \A c : ~OnColumn(st, x, c) =>
       /\ c \in DOMAIN b.columns <=> c \in DOMAIN a.columns
       /\ c \in DOMAIN a.columns => b.columns[c] = a.columns[c]
  /\ st.op \in {"addColumn", "modifyColumn"} /\ st.name = x =>
       /\ st.column \in DOMAIN b.columns
       /\ b.columns[st.column] = StoredColumn(a.key, st.def)
  /\ st.op = "dropColumn" /\ st.name = x => st.column \notin DOMAIN b.columns

IndexesAfter(st, x, a, b) ==
  /\ \A i : ~OnIndex(st, x, i) =>
       /\ i \in DOMAIN b.indexes => i \in DOMAIN a.indexes /\ b.indexes[i] = a.indexes[i]
       /\ i \in DOMAIN a.indexes =>
            \/ i \in DOMAIN b.indexes
            \/ st.op = "dropColumn" /\ st.name = x /\ st.column \in ToSet(a.indexes[i].columns)
  /\ st.op = "createIndex" /\ st.name = x =>
       st.index \in DOMAIN b.indexes /\ b.indexes[st.index] = st.def
  /\ st.op = "dropIndex" /\ st.name = x => st.index \notin DOMAIN b.indexes

PropertiesAfter(st, x, a, b) ==
  /\ ~(st.op = "setProperties" /\ st.name = x) => b.props = a.props
  /\ st.op = "setProperties" /\ st.name = x =>
       /\ DOMAIN b.props = DOMAIN a.props \cup DOMAIN st.props
       /\ \A k \in DOMAIN b.props :
            b.props[k] = IF k \in DOMAIN st.props THEN st.props[k] ELSE a.props[k]

TableAfter(st, x, a, b) ==
  /\ b.key = a.key /\ b.dist = a.dist /\ a.rows \subseteq b.rows
  /\ ~(st.op \in ColumnOps /\ st.name = x) => b.special = a.special
  /\ ColumnsAfter(st, x, a, b) /\ IndexesAfter(st, x, a, b) /\ PropertiesAfter(st, x, a, b)

LEMMA TouchedTable ==
    ASSUME NEW st, NEW ts, NEW a, NEW b, Altered(st, ts, a, b)
    PROVE  TableAfter(st, st.name, a, b)
<1>1. ColumnsAfter(st, st.name, a, b)
  <2>1. CASE st.op \in {"addColumn", "modifyColumn"}
    BY <2>1 DEF Altered, ColumnsAfter, OnColumn, With
  <2>2. CASE st.op = "dropColumn"
    BY <2>2 DEF Altered, ColumnsAfter, OnColumn, Without, Restrict
  <2>3. CASE st.op \notin {"addColumn", "modifyColumn", "dropColumn"}
    BY <2>3 DEF Altered, ColumnsAfter
  <2> QED BY <2>1, <2>2, <2>3
<1>2. IndexesAfter(st, st.name, a, b)
  <2>1. CASE st.op = "createIndex"
    BY <2>1 DEF Altered, IndexesAfter, OnIndex, With
  <2>2. CASE st.op = "dropIndex"
    BY <2>2 DEF Altered, IndexesAfter, OnIndex, Without, Restrict
  <2>3. CASE st.op = "dropColumn"
    <3>1. b.indexes = Restrict(a.indexes, {i \in DOMAIN a.indexes :
                                             st.column \notin ToSet(a.indexes[i].columns)})
      BY <2>3 DEF Altered
    <3>2. \A i : /\ i \in DOMAIN b.indexes => i \in DOMAIN a.indexes /\ b.indexes[i] = a.indexes[i]
                 /\ i \in DOMAIN a.indexes => \/ i \in DOMAIN b.indexes
                                              \/ st.column \in ToSet(a.indexes[i].columns)
      BY <3>1 DEF Restrict
    <3> QED BY <2>3, <3>2 DEF IndexesAfter, OnIndex
  <2>4. CASE st.op \notin {"createIndex", "dropIndex", "dropColumn"}
    BY <2>4 DEF Altered, IndexesAfter
  <2> QED BY <2>1, <2>2, <2>3, <2>4
<1>3. PropertiesAfter(st, st.name, a, b)
  <2>1. CASE st.op = "setProperties"
    <3>1. b.props = [k \in DOMAIN a.props \cup DOMAIN st.props |->
                        IF k \in DOMAIN st.props THEN st.props[k] ELSE a.props[k]]
      BY <2>1 DEF Altered
    <3> QED BY <2>1, <3>1 DEF PropertiesAfter
  <2>2. CASE st.op # "setProperties"
    BY <2>2 DEF Altered, PropertiesAfter
  <2> QED BY <2>1, <2>2
<1>4. a.rows \subseteq b.rows
  BY DEF Altered
<1> QED BY <1>1, <1>2, <1>3, <1>4 DEF TableAfter, Altered

LEMMA UntouchedTable ==
    ASSUME NEW st, NEW x, NEW a, ~(st.op \in AlterOps /\ st.name = x)
    PROVE  TableAfter(st, x, a, a)
<1>1. ColumnsAfter(st, x, a, a)
  BY DEF ColumnsAfter, AlterOps
<1>2. IndexesAfter(st, x, a, a)
  BY DEF IndexesAfter, AlterOps
<1>3. PropertiesAfter(st, x, a, a)
  BY DEF PropertiesAfter, AlterOps
<1> QED BY <1>1, <1>2, <1>3 DEF TableAfter

\* A table is there before and after, unless it comes or goes.
NamesAfter(st, ts, us) ==
  /\ \A x \in DOMAIN us \ DOMAIN ts :
       \/ st.op = "createTable" /\ st.name = x /\ us[x] = StoredTable(st.def)
       \/ st.op = "rename" /\ st.to = x /\ st.name \in DOMAIN ts /\ us[x] = ts[st.name]
  /\ \A x \in DOMAIN ts \ DOMAIN us :
       st.op \in {"dropTable", "dropTableIfExists", "rename"} /\ st.name = x
  /\ st.op = "createTable" => st.name \in DOMAIN us
  /\ st.op \in {"dropTable", "dropTableIfExists", "rename"} => st.name \notin DOMAIN us
  /\ st.op = "rename" => /\ st.name \in DOMAIN ts /\ st.to \in DOMAIN us \ DOMAIN ts
                         /\ us[st.to] = ts[st.name]
  /\ \A x \in DOMAIN ts \cap DOMAIN us : TableAfter(st, x, ts[x], us[x])

LEMMA NamesIn ==
    ASSUME NEW st, NEW ts, NEW us, TablesAfter(st, ts, us)
    PROVE  NamesAfter(st, ts, us)
<1>1. CASE us = ts /\ st.op \in ViewOps \cup MVOps
  <2>1. \A x : ~(st.op \in AlterOps /\ st.name = x)
    BY <1>1 DEF ViewOps, MVOps, AlterOps
  <2> QED BY <1>1, <2>1, UntouchedTable DEF NamesAfter, ViewOps, MVOps
<1>2. CASE us = ts /\ st.op = "createTable" /\ st.name \in DOMAIN ts
  <2>1. \A x : ~(st.op \in AlterOps /\ st.name = x)
    BY <1>2 DEF AlterOps
  <2> QED BY <1>2, <2>1, UntouchedTable DEF NamesAfter
<1>3. CASE st.op = "createTable" /\ st.name \notin DOMAIN ts /\ us = With(ts, st.name, StoredTable(st.def))
  <2>1. \A x : ~(st.op \in AlterOps /\ st.name = x)
    BY <1>3 DEF AlterOps
  <2>2. \A x \in DOMAIN ts : us[x] = ts[x]
    BY <1>3 DEF With
  <2>3. DOMAIN us = DOMAIN ts \cup {st.name} /\ us[st.name] = StoredTable(st.def)
    BY <1>3 DEF With
  <2> QED BY <1>3, <2>1, <2>2, <2>3, UntouchedTable DEF NamesAfter
<1>4. CASE st.op \in {"dropTableIfExists", "dropTable"} /\ us = Without(ts, st.name)
  <2>1. \A x : ~(st.op \in AlterOps /\ st.name = x)
    BY <1>4 DEF AlterOps
  <2>2. DOMAIN us = DOMAIN ts \ {st.name} /\ \A x \in DOMAIN us : us[x] = ts[x]
    BY <1>4 DEF Without, Restrict
  <2> QED BY <1>4, <2>1, <2>2, UntouchedTable DEF NamesAfter
<1>5. CASE /\ st.op = "rename" /\ st.name \in DOMAIN ts /\ st.to \notin DOMAIN ts
           /\ us = With(Without(ts, st.name), st.to, ts[st.name])
  <2>1. \A x : ~(st.op \in AlterOps /\ st.name = x)
    BY <1>5 DEF AlterOps
  <2>2. DOMAIN us = (DOMAIN ts \ {st.name}) \cup {st.to} /\ us[st.to] = ts[st.name]
    BY <1>5 DEF With, Without, Restrict
  <2>3. \A x \in DOMAIN ts \cap DOMAIN us : us[x] = ts[x]
    BY <1>5, <2>2 DEF With, Without, Restrict
  <2> QED BY <1>5, <2>1, <2>2, <2>3, UntouchedTable DEF NamesAfter
<1>6. CASE /\ st.op \in AlterOps /\ st.name \in DOMAIN ts
           /\ \E b : Altered(st, ts, ts[st.name], b) /\ us = With(ts, st.name, b)
  <2>1. PICK b : Altered(st, ts, ts[st.name], b) /\ us = With(ts, st.name, b)
    BY <1>6
  <2>2. DOMAIN us = DOMAIN ts /\ us[st.name] = b /\ \A x \in DOMAIN ts : x # st.name => us[x] = ts[x]
    BY <1>6, <2>1 DEF With
  <2>3. TableAfter(st, st.name, ts[st.name], us[st.name])
    BY <2>1, <2>2, TouchedTable
  <2>4. \A x \in DOMAIN ts : TableAfter(st, x, ts[x], us[x])
    BY <2>2, <2>3, UntouchedTable
  <2>5. st.op \notin {"createTable", "dropTable", "dropTableIfExists", "rename"}
    BY <1>6 DEF AlterOps
  <2> QED BY <2>2, <2>4, <2>5 DEF NamesAfter
<1> QED BY <1>1, <1>2, <1>3, <1>4, <1>5, <1>6 DEF TablesAfter

(***************************************************************************)
(* What statements there are.                                              *)
(***************************************************************************)
IsStatement(st) ==
  /\ st.op = "createTable" => IsTable(st.def)
  /\ st.op \in {"addColumn", "modifyColumn"} => IsColumn(st.def)
  /\ st.op = "createIndex" => IsIndex(st.def, ToSet(st.def.columns))
  /\ st.op = "setProperties" => IsFiniteSet(DOMAIN st.props)
  /\ st.op \in {"createView", "replaceView"} => IsView(st.def)
  /\ st.op = "createMV" => IsMV(st.def)

LEMMA NamingWith ==
    ASSUME NEW f, IsNaming(f), NEW x, NEW v
    PROVE  IsNaming(With(f, x, v))
BY FS_AddElement DEF IsNaming, With

LEMMA NamingWithout ==
    ASSUME NEW f, IsNaming(f), NEW x
    PROVE  IsNaming(Without(f, x))
BY FS_RemoveElement DEF IsNaming, Without, Restrict

LEMMA AlteredIsStored ==
    ASSUME NEW st, IsStatement(st), NEW ts, NEW a, NEW b, IsStoredTable(a), Altered(st, ts, a, b)
    PROVE  IsStoredTable(b)
<1>1. TableFields(b) /\ b.key = a.key /\ b.dist = a.dist
  BY DEF Altered
<1>2. CASE st.op = "copy"
  BY <1>1, <1>2 DEF Altered, IsStoredTable, HasStoredParts
<1>3. CASE st.op \in {"addColumn", "modifyColumn"}
  <2>1. /\ b.columns = With(a.columns, st.column, StoredColumn(a.key, st.def))
        /\ b.rows = a.rows /\ b.props = a.props /\ b.indexes = a.indexes
    BY <1>3 DEF Altered
  <2>2. IsNaming(b.columns)
    BY <2>1, NamingWith DEF IsStoredTable, HasStoredParts
  <2>3. IsStoredColumn(a.key, StoredColumn(a.key, st.def))
    BY <1>3, StoredColumnIs DEF IsStatement
  <2>4. \A c \in DOMAIN b.columns : IsStoredColumn(b.key, b.columns[c])
    BY <1>1, <2>1, <2>3 DEF IsStoredTable, HasStoredParts, With
  <2>5. DOMAIN a.columns \subseteq DOMAIN b.columns
    BY <2>1 DEF With
  <2>6. \A i \in DOMAIN b.indexes : IsIndex(b.indexes[i], DOMAIN b.columns)
    BY <2>1, <2>5 DEF IsStoredTable, HasStoredParts, IsIndex
  <2> QED BY <1>1, <2>1, <2>2, <2>4, <2>6 DEF IsStoredTable, HasStoredParts
<1>4. CASE st.op = "dropColumn"
  <2>1. /\ b.columns = Without(a.columns, st.column)
        /\ b.indexes = Restrict(a.indexes, {i \in DOMAIN a.indexes :
                                              st.column \notin ToSet(a.indexes[i].columns)})
        /\ b.rows = a.rows /\ b.props = a.props
    BY <1>4 DEF Altered
  <2>2. IsNaming(b.columns)
    BY <2>1, NamingWithout DEF IsStoredTable, HasStoredParts
  <2>3. DOMAIN b.columns = DOMAIN a.columns \ {st.column}
        /\ \A c \in DOMAIN b.columns : b.columns[c] = a.columns[c]
    BY <2>1 DEF Without, Restrict
  <2>4. \A c \in DOMAIN b.columns : IsStoredColumn(b.key, b.columns[c])
    BY <1>1, <2>3 DEF IsStoredTable, HasStoredParts
  <2>5. /\ DOMAIN b.indexes \subseteq DOMAIN a.indexes
        /\ b.indexes = [i \in DOMAIN b.indexes |-> b.indexes[i]]
        /\ \A i \in DOMAIN b.indexes : /\ b.indexes[i] = a.indexes[i]
                                       /\ st.column \notin ToSet(a.indexes[i].columns)
    BY <2>1 DEF Restrict
  <2>6. IsNaming(b.indexes)
    BY <2>5, FS_Subset DEF IsStoredTable, HasStoredParts, IsNaming
  <2>7. \A i \in DOMAIN b.indexes : IsIndex(b.indexes[i], DOMAIN b.columns)
    BY <2>3, <2>5 DEF IsStoredTable, HasStoredParts, IsIndex
  <2> QED BY <1>1, <2>1, <2>2, <2>4, <2>6, <2>7 DEF IsStoredTable, HasStoredParts
<1>5. CASE st.op = "createIndex"
  <2>1. /\ b.indexes = With(a.indexes, st.index, st.def)
        /\ ToSet(st.def.columns) \subseteq DOMAIN a.columns
        /\ b.columns = a.columns /\ b.rows = a.rows /\ b.props = a.props
    BY <1>5 DEF Altered
  <2>2. IsNaming(b.indexes)
    BY <2>1, NamingWith DEF IsStoredTable, HasStoredParts
  <2>3. IsIndex(st.def, DOMAIN b.columns)
    BY <1>5, <2>1 DEF IsStatement, IsIndex
  <2>4. \A i \in DOMAIN b.indexes : IsIndex(b.indexes[i], DOMAIN b.columns)
    BY <2>1, <2>3 DEF IsStoredTable, HasStoredParts, With
  <2> QED BY <1>1, <2>1, <2>2, <2>4 DEF IsStoredTable, HasStoredParts
<1>6. CASE st.op = "dropIndex"
  <2>1. /\ b.indexes = Without(a.indexes, st.index)
        /\ b.columns = a.columns /\ b.rows = a.rows /\ b.props = a.props
    BY <1>6 DEF Altered
  <2>2. IsNaming(b.indexes)
    BY <2>1, NamingWithout DEF IsStoredTable, HasStoredParts
  <2>3. \A i \in DOMAIN b.indexes : IsIndex(b.indexes[i], DOMAIN b.columns)
    BY <2>1 DEF IsStoredTable, HasStoredParts, Without, Restrict
  <2> QED BY <1>1, <2>1, <2>2, <2>3 DEF IsStoredTable, HasStoredParts
<1>7. CASE st.op = "setProperties"
  <2>1. /\ b.columns = a.columns /\ b.rows = a.rows /\ b.indexes = a.indexes
        /\ b.props = [k \in DOMAIN a.props \cup DOMAIN st.props |->
                        IF k \in DOMAIN st.props THEN st.props[k] ELSE a.props[k]]
    BY <1>7 DEF Altered
  <2>2. IsFiniteSet(DOMAIN a.props \cup DOMAIN st.props)
    BY <1>7, FS_Union DEF IsStatement, IsStoredTable, HasStoredParts, IsNaming
  <2>3. IsNaming(b.props)
    BY <2>1, <2>2 DEF IsNaming
  <2> QED BY <1>1, <2>1, <2>3 DEF IsStoredTable, HasStoredParts
<1> QED BY <1>2, <1>3, <1>4, <1>5, <1>6, <1>7 DEF Altered

LEMMA TablesStored ==
    ASSUME NEW st, IsStatement(st), NEW ts, NEW us, TablesAfter(st, ts, us),
           IsNaming(ts), \A x \in DOMAIN ts : IsStoredTable(ts[x])
    PROVE  IsNaming(us) /\ \A x \in DOMAIN us : IsStoredTable(us[x])
<1>1. CASE us = ts
  BY <1>1
<1>2. CASE st.op = "createTable" /\ st.name \notin DOMAIN ts /\ us = With(ts, st.name, StoredTable(st.def))
  <2>1. IsNaming(us)
    BY <1>2, NamingWith
  <2>2. IsStoredTable(StoredTable(st.def))
    BY <1>2, StoredTableIs DEF IsStatement
  <2> QED BY <1>2, <2>1, <2>2 DEF With
<1>3. CASE st.op \in {"dropTableIfExists", "dropTable"} /\ us = Without(ts, st.name)
  BY <1>3, NamingWithout DEF Without, Restrict
<1>4. CASE /\ st.op = "rename" /\ st.name \in DOMAIN ts /\ st.to \notin DOMAIN ts
           /\ us = With(Without(ts, st.name), st.to, ts[st.name])
  <2>1. IsNaming(us)
    BY <1>4, NamingWith, NamingWithout
  <2>2. DOMAIN us = (DOMAIN ts \ {st.name}) \cup {st.to} /\ us[st.to] = ts[st.name]
        /\ \A x \in DOMAIN ts \ {st.name} : us[x] = ts[x]
    BY <1>4 DEF With, Without, Restrict
  <2> QED BY <1>4, <2>1, <2>2
<1>5. CASE /\ st.op \in AlterOps /\ st.name \in DOMAIN ts
           /\ \E b : Altered(st, ts, ts[st.name], b) /\ us = With(ts, st.name, b)
  <2>1. PICK b : Altered(st, ts, ts[st.name], b) /\ us = With(ts, st.name, b)
    BY <1>5
  <2>2. IsStoredTable(b)
    BY <1>5, <2>1, AlteredIsStored
  <2> QED BY <2>1, <2>2, NamingWith DEF With
<1> QED BY <1>1, <1>2, <1>3, <1>4, <1>5 DEF TablesAfter

LEMMA DbStays ==
    ASSUME NEW st, IsStatement(st), NEW d, NEW n, IsDb(d), HasEffect(st, d, n)
    PROVE  IsDb(n)
<1>1. IsNaming(n.tables) /\ \A x \in DOMAIN n.tables : IsStoredTable(n.tables[x])
  BY TablesStored DEF IsDb, HasEffect
<1>2. IsNaming(n.views) /\ \A v \in DOMAIN n.views : IsView(n.views[v])
  <2>1. CASE n.views = d.views
    BY <2>1 DEF IsDb
  <2>2. CASE st.op \in {"createView", "replaceView"} /\ n.views = With(d.views, st.name, st.def)
    <3>1. IsView(st.def)
      BY <2>2 DEF IsStatement
    <3> QED BY <2>2, <3>1, NamingWith DEF IsDb, With
  <2>3. CASE n.views = Without(d.views, st.name)
    BY <2>3, NamingWithout DEF IsDb, Without, Restrict
  <2> QED BY <2>1, <2>2, <2>3 DEF HasEffect, ViewsAfter
<1>3. IsNaming(n.mvs) /\ \A m \in DOMAIN n.mvs : IsMV(n.mvs[m])
  <2>1. CASE n.mvs = d.mvs
    BY <2>1 DEF IsDb
  <2>2. CASE st.op = "createMV" /\ n.mvs = With(d.mvs, st.name, StoredMV(st.def))
    <3>1. IsMV(StoredMV(st.def))
      BY <2>2, StoredMVIs DEF IsStatement
    <3> QED BY <2>2, <3>1, NamingWith DEF IsDb, With
  <2>3. CASE n.mvs = Without(d.mvs, st.name)
    BY <2>3, NamingWithout DEF IsDb, Without, Restrict
  <2>4. CASE st.name \in DOMAIN d.mvs /\ n.mvs = [d.mvs EXCEPT ![st.name].refresh = st.refresh]
    <3>1. PICK m : m = d.mvs[st.name]
      OBVIOUS
    <3>2. IsMV(m)
      BY <2>4, <3>1 DEF IsDb
    <3>3. IsMV([m EXCEPT !.refresh = st.refresh])
      BY <3>2 DEF IsMV
    <3>4. n.mvs = [d.mvs EXCEPT ![st.name] = [m EXCEPT !.refresh = st.refresh]]
      BY <2>4, <3>1
    <3>5. DOMAIN n.mvs = DOMAIN d.mvs /\ n.mvs = [y \in DOMAIN n.mvs |-> n.mvs[y]]
      BY <3>4
    <3> QED BY <2>4, <3>3, <3>4, <3>5 DEF IsDb, IsNaming
  <2> QED BY <2>1, <2>2, <2>3, <2>4 DEF HasEffect, MVsAfter
<1> QED BY <1>1, <1>2, <1>3 DEF IsDb, HasEffect

(***************************************************************************)
(* Every statement does that, and keeps the types.                         *)
(***************************************************************************)
LEMMA Effects ==
    ASSUME NEW st, IsDb(db), TakesEffect(st)
    PROVE  HasEffect(st, db, db')
<1>1. DbFields(db) /\ \A x \in DOMAIN db.tables : TableFields(db.tables[x])
  BY DEF IsDb, IsStoredTable
<1>2. CASE st.op \in AlterOps
  BY <1>1, <1>2, AlterEffect
<1>3. CASE st.op \in ViewOps \cup MVOps
  BY <1>1, <1>3, ViewEffect
<1>4. CASE st.op \notin ViewOps \cup MVOps \cup AlterOps
  BY <1>1, <1>4, TableEffect
<1> QED BY <1>2, <1>3, <1>4

(***************************************************************************)
(* The statements of a plan.                                               *)
(***************************************************************************)
LEMMA AlterStatements ==
    ASSUME NEW t, NEW def, IsTable(def), NEW old, HasReadParts(old), NEW st,
           IsAlterUp(t, def, old, st) \/ IsAlterDown(t, def, old, st)
    PROVE  IsStatement(st)
<1>1. PICK change : change = diffTable(def, old)
  OBVIOUS
<1>2. /\ change.columns.add \subseteq DOMAIN def.columns /\ change.columns.modify \subseteq DOMAIN def.columns
      /\ change.columns.remove \subseteq DOMAIN old.columns /\ change.columns.modify \subseteq DOMAIN old.columns
      /\ change.indexes.add \cup change.indexes.modify \subseteq DOMAIN def.indexes
      /\ change.propertyChanges \subseteq DOMAIN def.props
  BY <1>1, DiffTableIs DEF diffProperties
<1>3. \A c \in DOMAIN def.columns : IsColumn(def.columns[c])
  BY DEF IsTable
<1>4. \A c \in DOMAIN old.columns : IsColumn(OldColumn(old.columns[c]))
  <2>1. TAKE c \in DOMAIN old.columns
  <2>2. PICK a, b, d : old.columns[c] = [type |-> a, nullable |-> b, default |-> d] /\ IsType(a)
    BY DEF HasReadParts, IsColumn
  <2>3. PICK f : f = IF d = "empty" THEN Null ELSE d
    OBVIOUS
  <2>4. OldColumn(old.columns[c]) = [type |-> a, nullable |-> b, default |-> f]
    BY <2>2, <2>3 DEF OldColumn
  <2> QED BY <2>2, <2>4 DEF IsColumn
<1>5. \A c, col : IsColumn(col) => IsStatement(AddColumn(t, c, col)) /\ IsStatement(ModifyColumn(t, c, col))
  BY DEF IsStatement, AddColumn, ModifyColumn
<1>6. \A c : IsStatement(DropColumn(t, c)) /\ IsStatement(DropIndex(t, c))
  BY DEF IsStatement, DropColumn, DropIndex
<1>7. ASSUME NEW i \in DOMAIN def.indexes PROVE IsStatement(CreateIndex(t, i, def.indexes[i]))
  <2>1. IsIndex(def.indexes[i], ToSet(def.indexes[i].columns))
    BY DEF IsTable, IsIndex
  <2> QED BY <2>1 DEF IsStatement, CreateIndex
<1>8. IsStatement(PropertiesSet(t, def, change.propertyChanges))
  <2>1. IsFiniteSet(change.propertyChanges)
    BY <1>2, FS_Subset DEF IsTable, IsNaming
  <2> QED BY <2>1 DEF IsStatement, PropertiesSet
<1>9. IsStatement(Manual)
  BY DEF IsStatement, Manual
<1>10. CASE IsAlterUp(t, def, old, st)
  BY <1>1, <1>2, <1>3, <1>5, <1>6, <1>7, <1>8, <1>10 DEF IsAlterUp
<1>11. CASE IsAlterDown(t, def, old, st)
  BY <1>1, <1>2, <1>4, <1>5, <1>6, <1>9, <1>11 DEF IsAlterDown
<1> QED BY <1>10, <1>11

LEMMA PlannedStatements ==
    ASSUME NEW s \in Schemas, NEW e, IsRead(e), NEW st, IsUp(s, e, st) \/ IsDown(s, e, st)
    PROVE  IsStatement(st)
<1>1. IsSchema(s)
  BY SchemasAssumption
<1>2. \A t \in DOMAIN s.tables : IsTable(s.tables[t])
  BY <1>1 DEF IsSchema
<1>3. IsStatement(Manual)
  BY DEF IsStatement, Manual
<1>4. ASSUME NEW t, NEW def, IsTable(def)
      PROVE  /\ IsStatement(CreateTable(t, def)) /\ IsStatement(Rename(t))
             /\ IsStatement(Copy(t, def)) /\ IsStatement(DropOld(t)) /\ IsStatement(DropTable(t))
  BY <1>4 DEF IsStatement, CreateTable, Rename, Copy, DropOld, DropTable
<1>5. \A t : IsStatement(DropTable(t))
  BY DEF IsStatement, DropTable
<1>6. ASSUME NEW t, NEW def, IsTable(def), NEW i \in DOMAIN def.indexes
      PROVE  IsStatement(CreateIndex(t, i, def.indexes[i]))
  <2>1. IsIndex(def.indexes[i], ToSet(def.indexes[i].columns))
    BY <1>6 DEF IsTable, IsIndex
  <2> QED BY <2>1 DEF IsStatement, CreateIndex
<1>7. \A v : IsStatement(DropView(v)) /\ IsStatement(DropMV(v))
  BY DEF IsStatement, DropView, DropMV
<1>8. \A v, d : IsView(d) => IsStatement(CreateView(v, d)) /\ IsStatement(ReplaceView(v, d))
  BY DEF IsStatement, CreateView, ReplaceView
<1>9. \A m, d : IsMV(d) => IsStatement(CreateMV(m, d)) /\ IsStatement(AlterRefresh(m, d))
  BY DEF IsStatement, CreateMV, AlterRefresh
<1>10. \A t \in Changed(s, e) : IsTable(s.tables[t]) /\ HasReadParts(e.tables[t])
  BY <1>2 DEF Changed, Between, IsRead
<1>11. \A v \in DOMAIN s.views : IsView(s.views[v])
  BY <1>1 DEF IsSchema
<1>12. \A m \in DOMAIN s.mvs : IsMV(s.mvs[m])
  BY <1>1 DEF IsSchema
<1>13. CASE IsUp(s, e, st)
  <2>1. CASE \E t \in Added(s, e) : IsAddUp(t, s.tables[t], st)
    BY <1>2, <1>4, <1>6, <2>1 DEF Added, IsAddUp
  <2>2. CASE \E t \in Removed(s, e) : st = DropTable(t)
    BY <1>5, <2>2
  <2>3. CASE \E t \in Remade(s, e) : st \in Recreation(t, s.tables[t])
    BY <1>2, <1>4, <2>3 DEF Remade, Between, Recreation
  <2>4. CASE \E t \in Changed(s, e) : IsAlterUp(t, s.tables[t], e.tables[t], st)
    BY <1>10, <2>4, AlterStatements
  <2>5. CASE IsViewUp(s, e, st)
    BY <1>7, <1>8, <1>11, <2>5 DEF IsViewUp, DifferingViews
  <2>6. CASE IsMVUp(s, e, st)
    BY <1>7, <1>9, <1>12, <2>6 DEF IsMVUp, RebuiltMVs, RefreshedMVs
  <2> QED BY <1>13, <2>1, <2>2, <2>3, <2>4, <2>5, <2>6 DEF IsUp
<1>14. CASE IsDown(s, e, st)
  <2>1. CASE \E t \in Changed(s, e) : IsAlterDown(t, s.tables[t], e.tables[t], st)
    BY <1>10, <2>1, AlterStatements
  <2> QED BY <1>3, <1>5, <1>7, <1>14, <2>1 DEF IsDown, IsViewDown, IsMVDown
<1> QED BY <1>13, <1>14

(***************************************************************************)
(* The type of the state.                                                  *)
(***************************************************************************)
Planned == \/ plans = 0 /\ plan.up = <<>> /\ plan.down = <<>>
           \/ IsPlan(plan.goal, plan.before, plan)

Now == IF rolling THEN plan.down ELSE plan.up

\* The database and the plan are well formed, and todo is a rest of the plan.
TypeInv ==
  /\ plans \in 0..MaxPlans /\ IsDb(db)
  /\ plan.goal \in Schemas /\ IsRead(plan.before) /\ Planned
  /\ IsSeq(todo) /\ ToSet(todo) \subseteq ToSet(Now)
  /\ phase \in {"running", "stopped", "done"} /\ rolling \in BOOLEAN
  /\ phase = "done" <=> todo = <<>>
  /\ acked \in [Tables -> SUBSET Rows]

LEMMA TailIs ==
    ASSUME NEW x, IsSeq(x), x # <<>>
    PROVE  /\ IsSeq(Tail(x)) /\ Head(x) \in ToSet(x) /\ Head(x) = x[1]
           /\ \A st : st \in ToSet(x) <=> st = Head(x) \/ st \in ToSet(Tail(x))
           /\ 1 \in DOMAIN x
           /\ \A i : i \in DOMAIN Tail(x) <=> i \in Nat \ {0} /\ i + 1 \in DOMAIN x
           /\ \A i \in DOMAIN Tail(x) : Tail(x)[i] = x[i + 1]
<1>1. PICK T : T = ToSet(x)
  OBVIOUS
<1>2. x \in Seq(T)
  BY <1>1 DEF IsSeq
<1>3. /\ Tail(x) \in Seq(T) /\ Head(x) = x[1] /\ Len(x) \in Nat \ {0} /\ DOMAIN x = 1..Len(x)
      /\ DOMAIN Tail(x) = 1..(Len(x) - 1) /\ \A i \in 1..(Len(x) - 1) : Tail(x)[i] = x[i + 1]
  BY <1>2
<1>4. PICK y : y = Tail(x)
  OBVIOUS
<1>5. IsSeq(y)
  BY <1>3, <1>4, SeqIsSeq
<1>6. \A st : st \in ToSet(y) <=> \E i \in 2..Len(x) : st = x[i]
  <2>1. \A i \in 2..Len(x) : i - 1 \in 1..(Len(x) - 1) /\ (i - 1) + 1 = i
    BY <1>3
  <2>2. \A i \in 2..Len(x) : y[i - 1] = x[i]
    BY <1>3, <1>4, <2>1
  <2>3. \A i \in DOMAIN y : i + 1 \in 2..Len(x) /\ y[i] = x[i + 1]
    BY <1>3, <1>4
  <2>4. \A i \in 2..Len(x) : i - 1 \in DOMAIN y
    BY <1>3, <1>4, <2>1
  <2> QED BY <2>2, <2>3, <2>4 DEF ToSet
<1>7. \A st : st \in ToSet(x) <=> st = x[1] \/ \E i \in 2..Len(x) : st = x[i]
  <2>1. \A i \in DOMAIN x : i = 1 \/ i \in 2..Len(x)
    BY <1>3
  <2>2. 1 \in DOMAIN x /\ \A i \in 2..Len(x) : i \in DOMAIN x
    BY <1>3
  <2> QED BY <2>1, <2>2 DEF ToSet
<1>8. \A i : i \in DOMAIN y <=> i \in Nat \ {0} /\ i + 1 \in DOMAIN x
  BY <1>3, <1>4
<1>9. 1 \in DOMAIN x /\ Head(x) \in ToSet(x)
  BY <1>3, <1>7
<1> QED BY <1>3, <1>4, <1>5, <1>6, <1>7, <1>8, <1>9

(***************************************************************************)
(* Every step keeps the type of the state.                                 *)
(***************************************************************************)
LEMMA PlanFields ==
    ASSUME NEW s \in Schemas, NEW lost, TypeInv, Plan(s, lost)
    PROVE  /\ plan'.goal = s /\ plan'.lost = lost /\ plan'.before = introspect(db, lost)
           /\ IsRead(plan'.before) /\ IsPlan(plan'.goal, plan'.before, plan')
           /\ todo' = plan'.up /\ rolling' = FALSE /\ db' = db
           /\ plans' = plans + 1 /\ plans < MaxPlans
           /\ phase # "running" /\ phase' = IF plan'.up = <<>> THEN "done" ELSE "running"
           /\ acked' = [t \in Tables |-> IF t \in DOMAIN s.tables THEN acked[t] ELSE {}]
<1>1. PICK e : e = introspect(db, lost)
  OBVIOUS
<1>2. PICK g : g = generateMigration(s, e)
  OBVIOUS
<1>3. IsRead(e)
  BY <1>1, IntrospectReads DEF TypeInv
<1>4. IsPlan(s, e, g)
  BY <1>2, <1>3, ReadIsDescription, PlanIs
<1>5. /\ plan' = [goal |-> s, lost |-> lost, before |-> e, up |-> g.up, down |-> g.down]
      /\ todo' = g.up /\ phase' = (IF g.up = <<>> THEN "done" ELSE "running")
      /\ phase # "running" /\ plans < MaxPlans /\ plans' = plans + 1 /\ rolling' = FALSE /\ db' = db
      /\ acked' = [t \in Tables |-> IF t \in DOMAIN s.tables THEN acked[t] ELSE {}]
  BY <1>1, <1>2 DEF Plan
<1>6. PICK p : p = plan'
  OBVIOUS
<1>7. p.goal = s /\ p.lost = lost /\ p.before = e /\ p.up = g.up /\ p.down = g.down
  BY <1>5, <1>6
<1>8. IsPlan(s, e, p)
  BY <1>4, <1>7 DEF IsPlan, IsPart
<1> QED BY <1>1, <1>3, <1>5, <1>6, <1>7, <1>8

\* The statement that is executed next.
LEMMA NextStatement ==
    ASSUME TypeInv, phase = "running"
    PROVE  /\ todo # <<>> /\ IsSeq(todo) /\ Head(todo) \in ToSet(todo)
           /\ IsPlan(plan.goal, plan.before, plan) /\ IsStatement(Head(todo))
           /\ ~rolling => IsUp(plan.goal, plan.before, Head(todo)) /\ Head(todo) \in ToSet(plan.up)
           /\ rolling => IsDown(plan.goal, plan.before, Head(todo)) /\ Head(todo) \in ToSet(plan.down)
<1>1. todo # <<>> /\ IsSeq(todo)
  BY DEF TypeInv
<1>2. Head(todo) \in ToSet(todo)
  BY <1>1, TailIs
<1>3. Head(todo) \in ToSet(Now)
  BY <1>2 DEF TypeInv
<1>4. IsPlan(plan.goal, plan.before, plan)
  BY <1>3, NoneIsSeq DEF TypeInv, Planned, Now
<1>5. /\ ~rolling => IsUp(plan.goal, plan.before, Head(todo)) /\ Head(todo) \in ToSet(plan.up)
      /\ rolling => IsDown(plan.goal, plan.before, Head(todo)) /\ Head(todo) \in ToSet(plan.down)
  BY <1>3, <1>4 DEF IsPlan, Now
<1>6. IsStatement(Head(todo))
  BY <1>5, PlannedStatements DEF TypeInv
<1> QED BY <1>1, <1>2, <1>4, <1>5, <1>6

\* A row written to a table changes nothing else.
HasRow(t, r, d, n) ==
  /\ IsDb(n) /\ Seen(n) = Seen(d)
  /\ DOMAIN n.tables = DOMAIN d.tables /\ n.views = d.views /\ n.mvs = d.mvs
  /\ \A x \in DOMAIN d.tables :
       /\ n.tables[x].columns = d.tables[x].columns /\ n.tables[x].key = d.tables[x].key
       /\ n.tables[x].props = d.tables[x].props /\ n.tables[x].indexes = d.tables[x].indexes
       /\ n.tables[x].dist = d.tables[x].dist /\ n.tables[x].special = d.tables[x].special
  /\ n.tables[t].rows = d.tables[t].rows \cup {r}
  /\ \A x \in DOMAIN d.tables : x # t => n.tables[x] = d.tables[x]

LEMMA WriteIs ==
    ASSUME NEW t, NEW r, NEW d, NEW n, IsDb(d), t \in DOMAIN d.tables,
           n = [d EXCEPT !.tables[t].rows = @ \cup {r}]
    PROVE  HasRow(t, r, d, n)
<1>1. PICK a : a = d.tables[t]
  OBVIOUS
<1>2. PICK b : b = [a EXCEPT !.rows = @ \cup {r}]
  OBVIOUS
<1>3. IsStoredTable(a) /\ TableFields(a)
  BY <1>1 DEF IsDb, IsStoredTable
<1>4. /\ TableFields(b) /\ b.columns = a.columns /\ b.key = a.key /\ b.dist = a.dist
      /\ b.props = a.props /\ b.indexes = a.indexes /\ b.rows = a.rows \cup {r}
      /\ b.special = a.special
  BY <1>2, <1>3 DEF TableFields
<1>5. IsStoredTable(b)
  BY <1>3, <1>4 DEF IsStoredTable, HasStoredParts
<1>6. /\ n.tables = [d.tables EXCEPT ![t] = b] /\ n.views = d.views /\ n.mvs = d.mvs /\ DbFields(n)
  BY <1>1, <1>2 DEF IsDb, DbFields
<1>7. /\ DOMAIN n.tables = DOMAIN d.tables /\ n.tables[t] = b
      /\ \A x \in DOMAIN d.tables : x # t => n.tables[x] = d.tables[x]
      /\ n.tables = [x \in DOMAIN n.tables |-> n.tables[x]]
  BY <1>6
<1>8. IsDb(n)
  BY <1>5, <1>6, <1>7 DEF IsDb, IsNaming
<1>9. \A x \in DOMAIN d.tables :
        /\ n.tables[x].columns = d.tables[x].columns /\ n.tables[x].key = d.tables[x].key
        /\ n.tables[x].props = d.tables[x].props /\ n.tables[x].indexes = d.tables[x].indexes
        /\ n.tables[x].dist = d.tables[x].dist /\ n.tables[x].special = d.tables[x].special
  BY <1>1, <1>4, <1>7
<1>10. Seen(n) = Seen(d)
  <2>1. \A x \in DOMAIN d.tables : SeenTable(n.tables[x]) = SeenTable(d.tables[x])
    BY <1>9 DEF SeenTable
  <2>2. [x \in DOMAIN n.tables |-> SeenTable(n.tables[x])] = [x \in DOMAIN d.tables |-> SeenTable(d.tables[x])]
    BY <1>7, <2>1
  <2> QED BY <1>6, <2>2, SeenParts
<1> QED BY <1>1, <1>4, <1>6, <1>7, <1>8, <1>9, <1>10 DEF HasRow

LEMMA TypeStarts ==
    ASSUME Init
    PROVE  TypeInv
<1>1. PICK d : d = StoredSchema(FirstSchema)
  OBVIOUS
<1>2. IsDb(d) /\ FirstSchema \in Schemas
  BY <1>1, SchemasAssumption, StoredSchemaIs
<1>3. IsRead(Seen(d))
  BY <1>2, SeenIs
<1>4. db = d /\ plan = [goal |-> FirstSchema, lost |-> NothingLost, before |-> Seen(d), up |-> <<>>, down |-> <<>>]
  BY <1>1 DEF Init, Seen
<1>5. plan.goal = FirstSchema /\ plan.before = Seen(d) /\ plan.up = <<>> /\ plan.down = <<>>
  BY <1>4
<1>6. plans = 0 /\ todo = <<>> /\ phase = "done" /\ rolling = FALSE /\ acked = [t \in Tables |-> {}]
  BY DEF Init
<1>7. MaxPlans \in Nat
  BY SchemasAssumption
<1>8. IsDb(db) /\ plan.goal \in Schemas /\ IsRead(plan.before)
  BY <1>2, <1>3, <1>4, <1>5
<1>9. plans \in 0..MaxPlans
  <2>1. plans = 0
    BY <1>6
  <2> QED BY <1>7, <2>1
<1>12. rolling \in BOOLEAN
  BY <1>6
<1>11. acked \in [Tables -> SUBSET Rows]
  BY <1>6
<1>10. Planned /\ IsSeq(todo) /\ ToSet(todo) \subseteq ToSet(Now)
  BY <1>5, <1>6, NoneIsSeq DEF Planned, Now
<1> QED BY <1>6, <1>8, <1>9, <1>10, <1>11, <1>12 DEF TypeInv

LEMMA TypeStays ==
    ASSUME TypeInv, [Next]_vars
    PROVE  TypeInv'
<1>1. ASSUME NEW s \in Schemas, NEW lost \in Losses, Plan(s, lost) PROVE TypeInv'
  <2>1. /\ plan'.goal = s /\ IsRead(plan'.before) /\ IsPlan(plan'.goal, plan'.before, plan')
        /\ todo' = plan'.up /\ rolling' = FALSE /\ db' = db
        /\ plans' = plans + 1 /\ plans < MaxPlans
        /\ phase' = IF plan'.up = <<>> THEN "done" ELSE "running"
        /\ acked' = [t \in Tables |-> IF t \in DOMAIN s.tables THEN acked[t] ELSE {}]
    BY <1>1, PlanFields
  <2>2. IsSeq(todo')
    BY <2>1 DEF IsPlan, IsPart
  <2>3. acked' \in [Tables -> SUBSET Rows]
    BY <2>1 DEF TypeInv
  <2>4. plans' \in 0..MaxPlans
    BY <2>1, SchemasAssumption DEF TypeInv
  <2> QED BY <2>1, <2>2, <2>3, <2>4 DEF TypeInv, Planned, Now
<1>2. CASE Execute
  <2>1. PICK st : st = Head(todo)
    OBVIOUS
  <2>2. IsStatement(st) /\ todo # <<>> /\ IsSeq(todo)
    BY <1>2, <2>1, NextStatement DEF Execute
  <2>3. HasEffect(st, db, db')
    BY <1>2, <2>1, Effects DEF Execute, TypeInv
  <2>4. IsDb(db')
    BY <2>2, <2>3, DbStays DEF TypeInv
  <2>5. \/ todo' = Tail(todo) /\ phase' = IF Tail(todo) = <<>> THEN "done" ELSE "running"
        \/ phase' = "stopped" /\ todo' = todo
    BY <1>2 DEF Execute
  <2>6. IsSeq(todo') /\ ToSet(todo') \subseteq ToSet(todo)
    BY <2>2, <2>5, TailIs
  <2>7. phase' \in {"running", "stopped", "done"} /\ (phase' = "done" <=> todo' = <<>>)
    BY <2>2, <2>5
  <2>8. plans' = plans /\ plan' = plan /\ rolling' = rolling /\ acked' = acked
    BY <1>2 DEF Execute
  <2> QED BY <2>4, <2>6, <2>7, <2>8 DEF TypeInv, Planned, Now
<1>3. CASE Fail
  BY <1>3 DEF Fail, TypeInv, Planned, Now
<1>4. CASE Resume
  BY <1>4 DEF Resume, TypeInv, Planned, Now
<1>5. CASE StartOver
  <2>1. IsSeq(todo') /\ todo' = Now
    <3>1. IsSeq(plan.up) /\ IsSeq(plan.down)
      BY NoneIsSeq DEF TypeInv, Planned, IsPlan, IsPart
    <3> QED BY <1>5, <3>1 DEF StartOver, Now
  <2>2. todo # <<>> /\ IsSeq(todo)
    BY <1>5 DEF StartOver, TypeInv
  <2>3. Now # <<>>
    BY <2>2, TailIs, NoneIsSeq DEF TypeInv
  <2>4. plans' = plans /\ plan' = plan /\ rolling' = rolling /\ acked' = acked /\ db' = db /\ phase' = "running"
    BY <1>5 DEF StartOver
  <2> QED BY <2>1, <2>3, <2>4 DEF TypeInv, Planned, Now
<1>6. CASE Rollback
  <2>1. IsSeq(plan.down)
    BY NoneIsSeq DEF TypeInv, Planned, IsPlan, IsPart
  <2>2. acked' \in [Tables -> SUBSET Rows]
    BY <1>6 DEF Rollback, TypeInv
  <2> QED BY <1>6, <2>1, <2>2 DEF Rollback, TypeInv, Planned, Now
<1>7. ASSUME NEW t \in Tables, NEW r \in Rows, Write(t, r) PROVE TypeInv'
  <2>1. t \in DOMAIN db.tables /\ db' = [db EXCEPT !.tables[t].rows = @ \cup {r}]
    BY <1>7 DEF Write, HasTable
  <2>2. HasRow(t, r, db, db')
    BY <2>1, WriteIs DEF TypeInv
  <2>3. IsDb(db')
    BY <2>2 DEF HasRow
  <2>4. acked' \in [Tables -> SUBSET Rows]
    BY <1>7 DEF Write, TypeInv
  <2> QED BY <1>7, <2>3, <2>4 DEF Write, TypeInv, Planned, Now
<1>8. CASE UNCHANGED vars
  BY <1>8 DEF vars, TypeInv, Planned, Now
<1> QED BY <1>1, <1>2, <1>3, <1>4, <1>5, <1>6, <1>7, <1>8 DEF Next

\* The database keeps the shapes that the schema builders give to tables, views
\* and materialized views, through every plan, failure, restart and rollback;
\* the plan has exactly the statements its diff calls for, in an order that
\* copies a renamed table before it is dropped; and what is left to execute is
\* part of that plan.
THEOREM TypesHold == Spec => []TypeInv
<1>1. Init => TypeInv
  BY TypeStarts
<1>2. TypeInv /\ [Next]_vars => TypeInv'
  BY TypeStays
<1> QED BY <1>1, <1>2, PTL DEF Spec

(***************************************************************************)
(* What the statements of a plan are about.                                *)
(***************************************************************************)
LEMMA AlterKinds ==
    ASSUME NEW t, NEW def, NEW old, NEW st
    PROVE  /\ IsAlterUp(t, def, old, st) => st.op \in AlterOps /\ st.name = t
           /\ IsAlterDown(t, def, old, st) => st = Manual \/ (st.op \in AlterOps /\ st.name = t)
<1>1. \A c, d : /\ AddColumn(t, c, d).op \in AlterOps /\ AddColumn(t, c, d).name = t
                /\ DropColumn(t, c).op \in AlterOps /\ DropColumn(t, c).name = t
                /\ ModifyColumn(t, c, d).op \in AlterOps /\ ModifyColumn(t, c, d).name = t
  BY DEF AddColumn, DropColumn, ModifyColumn, AlterOps
<1>2. \A c, d : /\ CreateIndex(t, c, d).op \in AlterOps /\ CreateIndex(t, c, d).name = t
                /\ DropIndex(t, c).op \in AlterOps /\ DropIndex(t, c).name = t
  BY DEF CreateIndex, DropIndex, AlterOps
<1>3. \A keys : PropertiesSet(t, def, keys).op \in AlterOps /\ PropertiesSet(t, def, keys).name = t
  BY DEF PropertiesSet, AlterOps
<1>4. IsAlterUp(t, def, old, st) => st.op \in AlterOps /\ st.name = t
  BY <1>1, <1>2, <1>3 DEF IsAlterUp
<1>5. IsAlterDown(t, def, old, st) => st = Manual \/ (st.op \in AlterOps /\ st.name = t)
  BY <1>1, <1>2 DEF IsAlterDown
<1> QED BY <1>4, <1>5

LEMMA ViewKinds ==
    ASSUME NEW s, NEW e, NEW st
    PROVE  /\ IsViewUp(s, e, st) => st.op \in ViewOps
           /\ IsViewDown(s, e, st) => st = Manual \/ \E v \in DOMAIN s.views \ DOMAIN e.views : st = DropView(v)
           /\ IsMVUp(s, e, st) => st.op \in MVOps
           /\ IsMVDown(s, e, st) => st = Manual \/ \E m \in DOMAIN s.mvs \ DOMAIN e.mvs : st = DropMV(m)
<1>1. \A v, d : /\ CreateView(v, d).op \in ViewOps /\ ReplaceView(v, d).op \in ViewOps
                /\ DropView(v).op \in ViewOps
  BY DEF CreateView, ReplaceView, DropView, ViewOps
<1>2. \A m, d : /\ CreateMV(m, d).op \in MVOps /\ AlterRefresh(m, d).op \in MVOps
                /\ DropMV(m).op \in MVOps
  BY DEF CreateMV, AlterRefresh, DropMV, MVOps
<1> QED BY <1>1, <1>2 DEF IsViewUp, IsViewDown, IsMVUp, IsMVDown

GoneOps == {"dropTable", "dropTableIfExists", "rename"}

\* The statements of a plan that take a table away.
TakesTable(s, e, st) ==
  \/ \E x \in Removed(s, e) : st = DropTable(x)
  \/ \E u \in Remade(s, e) : st = Rename(u) \/ st = DropOld(u)

LEMMA GoneUp ==
    ASSUME NEW s, NEW e, NEW st, IsUp(s, e, st), st.op \in GoneOps
    PROVE  TakesTable(s, e, st)
<1>1. st.op \notin AlterOps /\ st.op \notin ViewOps /\ st.op \notin MVOps /\ st.op # "createTable"
  BY DEF GoneOps, AlterOps, ViewOps, MVOps
<1>2. \A t, d : CreateTable(t, d).op = "createTable" /\ Copy(t, d).op \in AlterOps
  BY DEF CreateTable, Copy, AlterOps
<1>3. \A t, i, d : CreateIndex(t, i, d).op \in AlterOps
  BY DEF CreateIndex, AlterOps
<1>4. ~\E t \in Added(s, e) : IsAddUp(t, s.tables[t], st)
  BY <1>1, <1>2, <1>3 DEF IsAddUp
<1>5. ~\E t \in Changed(s, e) : IsAlterUp(t, s.tables[t], e.tables[t], st)
  BY <1>1, AlterKinds
<1>6. ~IsViewUp(s, e, st) /\ ~IsMVUp(s, e, st)
  BY <1>1, ViewKinds
<1> QED BY <1>1, <1>2, <1>4, <1>5, <1>6 DEF IsUp, Recreation, TakesTable

LEMMA GoneDown ==
    ASSUME NEW s, NEW e, NEW st, IsDown(s, e, st), st.op \in GoneOps
    PROVE  \E x \in Added(s, e) : st = DropTable(x)
<1>1. st.op \notin AlterOps /\ st # Manual
  BY DEF GoneOps, AlterOps, Manual
<1>2. \A v : DropView(v).op \notin GoneOps /\ DropMV(v).op \notin GoneOps
  BY DEF DropView, DropMV, GoneOps
<1>3. ~\E t \in Changed(s, e) : IsAlterDown(t, s.tables[t], e.tables[t], st)
  BY <1>1, AlterKinds
<1>4. ~IsViewDown(s, e, st) /\ ~IsMVDown(s, e, st)
  BY <1>1, <1>2, ViewKinds
<1> QED BY <1>1, <1>3, <1>4 DEF IsDown

(***************************************************************************)
(* The order of what is left of a plan.                                    *)
(***************************************************************************)
\* What is left of a plan still makes up for what it has taken: after a rename
\* the CREATE TABLE, the copy and only then the drop of the renamed table, after
\* a dropped index or materialized view its successor.
OrderInv == ~rolling => Paid(plan.goal, plan.before, todo)

LEMMA TailPaid ==
    ASSUME NEW s, NEW e, NEW x, IsSeq(x), x # <<>>, Paid(s, e, x)
    PROVE  Paid(s, e, Tail(x))
<1>1. PICK y : y = Tail(x)
  OBVIOUS
<1>2. /\ \A i : i \in DOMAIN y <=> i \in Nat \ {0} /\ i + 1 \in DOMAIN x
      /\ \A i \in DOMAIN y : y[i] = x[i + 1]
  BY <1>1, TailIs
<1>3. DOMAIN x \subseteq Nat \ {0}
  BY DEF IsSeq
<1>4. ASSUME NEW i \in DOMAIN y PROVE Owing(s, e, y, i)
  <2>1. i \in Nat \ {0} /\ i + 1 \in DOMAIN x /\ y[i] = x[i + 1]
    BY <1>2
  <2>2. Owing(s, e, x, i + 1)
    BY <2>1 DEF Paid
  <2>3. ASSUME NEW b, Followed(x, i + 1, b) PROVE Followed(y, i, b)
    <3>1. PICK k \in DOMAIN x : k > i + 1 /\ x[k] = b
      BY <2>3 DEF Followed
    <3>2. PICK l : l = k - 1
      OBVIOUS
    <3>3. l \in DOMAIN y /\ l > i /\ y[l] = b
      BY <1>2, <1>3, <2>1, <3>1, <3>2
    <3> QED BY <3>3 DEF Followed
  <2>4. ASSUME NEW a, NEW d, Foremost(x, i + 1, a, d) PROVE Foremost(y, i, a, d)
    <3>1. PICK k \in DOMAIN x : k > i + 1 /\ x[k] = a /\ \A j \in (i + 1)..k : x[j] # d
      BY <2>4 DEF Foremost
    <3>2. PICK l : l = k - 1
      OBVIOUS
    <3>3. l \in DOMAIN y /\ l > i /\ y[l] = a /\ l \in Nat
      BY <1>2, <1>3, <2>1, <3>1, <3>2
    <3>4. ASSUME NEW j \in i..l PROVE y[j] # d
      <4>1. j + 1 \in (i + 1)..k /\ j \in Nat \ {0}
        BY <1>3, <2>1, <3>1, <3>2, <3>3
      <4>2. j + 1 \in DOMAIN x
        BY <1>3, <2>1, <3>1, <4>1 DEF IsSeq
      <4>3. y[j] = x[j + 1]
        BY <1>2, <4>1, <4>2
      <4> QED BY <3>1, <4>1, <4>3
    <3> QED BY <3>3, <3>4 DEF Foremost
  <2> QED BY <2>1, <2>2, <2>3, <2>4 DEF Owing
<1> QED BY <1>1, <1>4 DEF Paid

LEMMA NonePaid == \A s, e : Paid(s, e, <<>>)
BY OrderlyNone DEF Orderly

LEMMA OrderStays ==
    ASSUME TypeInv, OrderInv, [Next]_vars
    PROVE  OrderInv'
<1>1. ASSUME NEW s \in Schemas, NEW lost \in Losses, Plan(s, lost) PROVE OrderInv'
  <2>1. IsPlan(plan'.goal, plan'.before, plan') /\ todo' = plan'.up
    BY <1>1, PlanFields
  <2> QED BY <2>1 DEF OrderInv, IsPlan, Orderly
<1>2. CASE Execute
  <2>1. todo # <<>> /\ IsSeq(todo)
    BY <1>2, NextStatement DEF Execute
  <2>2. (todo' = Tail(todo) \/ todo' = todo) /\ plan' = plan /\ rolling' = rolling
    BY <1>2 DEF Execute
  <2> QED BY <2>1, <2>2, TailPaid DEF OrderInv
<1>3. CASE StartOver
  <2>1. ~rolling => Paid(plan.goal, plan.before, plan.up)
    BY NonePaid DEF TypeInv, Planned, IsPlan, Orderly
  <2> QED BY <1>3, <2>1 DEF StartOver, OrderInv
<1>4. CASE Rollback
  BY <1>4 DEF Rollback, OrderInv
<1>5. CASE UNCHANGED <<plan, todo, rolling>>
  BY <1>5 DEF OrderInv
<1>6. (\E t \in Tables, r \in Rows : Write(t, r)) \/ Fail \/ Resume \/ UNCHANGED vars
        => UNCHANGED <<plan, todo, rolling>>
  BY DEF Write, Fail, Resume, vars
<1> QED BY <1>1, <1>2, <1>3, <1>4, <1>5, <1>6 DEF Next

LEMMA OrderStarts ==
    ASSUME Init
    PROVE  OrderInv
BY NonePaid DEF Init, OrderInv

(***************************************************************************)
(* The rows                                                                *)
(***************************************************************************)
RowsIn(ts, x) == IF x \in DOMAIN ts THEN ts[x].rows ELSE {}

LEMMA RowsStay ==
    ASSUME NEW st, NEW ts, NEW us, TablesAfter(st, ts, us), NEW x,
           ~(st.op \in GoneOps /\ st.name = x)
    PROVE  RowsIn(ts, x) \subseteq RowsIn(us, x)
<1>1. NamesAfter(st, ts, us)
  BY NamesIn
<1>2. x \in DOMAIN ts => x \in DOMAIN us
  BY <1>1 DEF NamesAfter, GoneOps
<1>3. x \in DOMAIN ts => ts[x].rows \subseteq us[x].rows
  BY <1>1, <1>2 DEF NamesAfter, TableAfter
<1> QED BY <1>2, <1>3 DEF RowsIn

LEMMA RowsMove ==
    ASSUME NEW st, NEW ts, NEW us, TablesAfter(st, ts, us), st.op = "rename"
    PROVE  /\ RowsIn(us, st.to) = RowsIn(ts, st.name) /\ RowsIn(ts, st.to) = {}
<1>1. NamesAfter(st, ts, us)
  BY NamesIn
<1> QED BY <1>1 DEF NamesAfter, RowsIn

LEMMA RowsCopied ==
    ASSUME NEW st, NEW ts, NEW us, TablesAfter(st, ts, us), st.op = "copy"
    PROVE  RowsIn(ts, st.name) \cup RowsIn(ts, st.from) \subseteq RowsIn(us, st.name)
<1>1. PICK b : /\ Altered(st, ts, ts[st.name], b) /\ us = With(ts, st.name, b) /\ st.name \in DOMAIN ts
  BY DEF TablesAfter, ViewOps, MVOps
<1>2. st.from \in DOMAIN ts /\ b.rows = ts[st.name].rows \cup ts[st.from].rows
  BY <1>1 DEF Altered
<1>3. st.name \in DOMAIN us /\ us[st.name] = b
  BY <1>1 DEF With
<1> QED BY <1>1, <1>2, <1>3 DEF RowsIn

\* A statement st is still in x, and nothing before it is drop.
CopyFirst(x, st, drop) == \E k \in DOMAIN x : x[k] = st /\ \A j \in 1..k : x[j] # drop

LEMMA CopyFirstTail ==
    ASSUME NEW x, IsSeq(x), x # <<>>, NEW a, NEW d, CopyFirst(x, a, d), Head(x) # a
    PROVE  CopyFirst(Tail(x), a, d)
<1>1. PICK y : y = Tail(x)
  OBVIOUS
<1>2. /\ \A i : i \in DOMAIN y <=> i \in Nat \ {0} /\ i + 1 \in DOMAIN x
      /\ \A i \in DOMAIN y : y[i] = x[i + 1]
      /\ Head(x) = x[1]
  BY <1>1, TailIs
<1>3. DOMAIN x \subseteq Nat \ {0}
  BY DEF IsSeq
<1>4. PICK k \in DOMAIN x : x[k] = a /\ \A j \in 1..k : x[j] # d
  BY DEF CopyFirst
<1>5. k # 1 /\ k \in Nat \ {0}
  BY <1>2, <1>3, <1>4
<1>6. PICK l : l = k - 1
  OBVIOUS
<1>7. l \in Nat \ {0} /\ l + 1 = k
  BY <1>5, <1>6
<1>8. l \in DOMAIN y /\ y[l] = a
  BY <1>2, <1>4, <1>7
<1>9. ASSUME NEW j \in 1..l PROVE y[j] # d
  <2>1. j + 1 \in 1..k /\ j \in Nat \ {0} /\ k \in DOMAIN x
    BY <1>4, <1>7
  <2>2. j + 1 \in DOMAIN x
    BY <1>3, <2>1 DEF IsSeq
  <2>3. y[j] = x[j + 1]
    BY <1>2, <2>1, <2>2
  <2> QED BY <1>4, <2>1, <2>3
<1> QED BY <1>1, <1>8, <1>9 DEF CopyFirst

\* In a whole plan the first copy comes before any drop.
LEMMA CopyFirstWhole ==
    ASSUME NEW s, NEW x, IsSeq(x), DropsLate(s, x), NEW t \in Tables,
           Copy(t, s.tables[t]) \in ToSet(x)
    PROVE  CopyFirst(x, Copy(t, s.tables[t]), DropOld(t))
<1> DEFINE a == Copy(t, s.tables[t])
           P == {k \in DOMAIN x : x[k] = a}
<1>1. DOMAIN x \subseteq Nat \ {0} /\ \A k \in DOMAIN x : \A j \in 1..k : j \in DOMAIN x
  BY DEF IsSeq
<1>2. PICK k \in DOMAIN x : x[k] = a
  BY DEF ToSet
<1>3. PICK m \in P : \A l \in P : m <= l
  <2>1. P \subseteq Nat /\ k \in P
    BY <1>1, <1>2
  <2> HIDE DEF P
  <2> DEFINE S == {n \in Nat : (\E l \in P : l <= n) => \E m \in P : \A l \in P : m <= l}
  <2>2. 0 \in S
    <3>1. ASSUME NEW l \in P, l <= 0 PROVE \E m \in P : \A q \in P : m <= q
      <4>1. \A q \in P : l <= q
        BY <2>1, <3>1
      <4> QED BY <4>1
    <3> QED BY <3>1
  <2>3. ASSUME NEW n \in S PROVE n + 1 \in S
    <3>1. n \in Nat /\ ((\E l \in P : l <= n) => \E m \in P : \A l \in P : m <= l)
      BY <2>3
    <3>2. ASSUME NEW l \in P, l <= n + 1 PROVE \E m \in P : \A q \in P : m <= q
      <4>1. CASE \E q \in P : q <= n
        BY <3>1, <4>1
      <4>2. CASE ~\E q \in P : q <= n
        <5>1. \A q \in P : l <= q
          BY <2>1, <3>1, <3>2, <4>2
        <5> QED BY <5>1
      <4> QED BY <4>1, <4>2
    <3> QED BY <3>1, <3>2
  <2>4. k \in Nat
    BY <2>1
  <2>5. S \subseteq Nat
    OBVIOUS
  <2> HIDE DEF S
  <2>6. k \in S
    BY <2>2, <2>3, <2>4, <2>5, ByInduction
  <2>7. k \in P /\ k <= k
    BY <2>1, <2>4
  <2> QED BY <2>6, <2>7 DEF S
<1>4. m \in DOMAIN x /\ x[m] = a
  BY <1>3
<1>5. ASSUME NEW j \in 1..m, x[j] = DropOld(t) PROVE FALSE
  <2>1. j \in DOMAIN x
    BY <1>1, <1>4
  <2>2. PICK l \in DOMAIN x : l < j /\ x[l] = a
    BY <1>5, <2>1 DEF DropsLate, Preceded
  <2>3. l \in P
    BY <2>2
  <2>4. m <= l
    BY <1>3, <2>3
  <2> QED BY <1>1, <1>4, <2>2, <2>4
<1> QED BY <1>4, <1>5 DEF CopyFirst

Held(t) ==
  \/ acked[t] \subseteq RowsIn(db.tables, t)
  \/ /\ acked[t] \subseteq RowsIn(db.tables, t) \cup RowsIn(db.tables, OldName[t])
     /\ ~rolling /\ CopyFirst(todo, Copy(t, plan.goal.tables[t]), DropOld(t))

\* The rows of a table are in it; or some are in the renamed table, and then the
\* copy is still to come before that table is dropped.
RowsInv ==
  /\ \A t \in Tables : OldName[t] \notin DOMAIN plan.before.tables
  /\ \A t \in Tables : acked[t] # {} => t \in Wanted
  /\ \A t \in Wanted : Held(t)

LEMMA WantedIs ==
    ASSUME TypeInv, NEW t \in Wanted
    PROVE  t \in Tables /\ t \in DOMAIN plan.goal.tables /\ (rolling => t \in DOMAIN plan.before.tables)
BY SchemasAssumption DEF TypeInv, Wanted

\* Executing a statement forward.
LEMMA HeldForward ==
    ASSUME TypeInv, OrderInv, RowsInv, ~rolling, phase = "running", TakesEffect(Head(todo)),
           todo' = Tail(todo) \/ todo' = todo, UNCHANGED <<plan, rolling, acked>>,
           NEW t \in Wanted
    PROVE  Held(t)'
<1>1. PICK st : st = Head(todo)
  OBVIOUS
<1>2. PICK ts, us : ts = db.tables /\ us = db.tables'
  OBVIOUS
<1>3. PICK s : s = plan.goal
  OBVIOUS
<1>4. PICK e : e = plan.before
  OBVIOUS
<1>5. /\ todo # <<>> /\ IsSeq(todo) /\ IsUp(s, e, st) /\ st = todo[1] /\ 1 \in DOMAIN todo
      /\ DOMAIN todo \subseteq Nat \ {0}
  BY <1>1, <1>3, <1>4, NextStatement, TailIs DEF IsSeq
<1>6. TablesAfter(st, ts, us)
  BY <1>1, <1>2, Effects DEF TypeInv, HasEffect
<1>7. /\ t \in Tables /\ t \in DOMAIN s.tables /\ OldName[t] \notin Tables /\ OldName[t] \notin DOMAIN e.tables
      /\ \A u \in Tables : OldName[u] = OldName[t] => u = t
  BY <1>3, <1>4, WantedIs, SchemasAssumption DEF RowsInv
<1>8. PICK a : a = Copy(t, s.tables[t])
  OBVIOUS
<1>9. PICK d : d = DropOld(t)
  OBVIOUS
<1>10. \/ acked[t] \subseteq RowsIn(ts, t)
       \/ /\ acked[t] \subseteq RowsIn(ts, t) \cup RowsIn(ts, OldName[t])
          /\ CopyFirst(todo, a, d)
  BY <1>2, <1>3, <1>8, <1>9 DEF RowsInv, Held
<1> SUFFICES \/ acked[t] \subseteq RowsIn(us, t)
             \/ /\ acked[t] \subseteq RowsIn(us, t) \cup RowsIn(us, OldName[t])
                /\ CopyFirst(todo', a, d)
  BY <1>2, <1>3, <1>8, <1>9 DEF Held
<1>11. CASE st = Rename(t)
  <2>1. st.op = "rename" /\ st.name = t /\ st.to = OldName[t]
    BY <1>11 DEF Rename
  <2>2. RowsIn(us, OldName[t]) = RowsIn(ts, t) /\ RowsIn(ts, OldName[t]) = {}
    BY <1>6, <2>1, RowsMove
  <2>3. acked[t] \subseteq RowsIn(us, OldName[t])
    BY <1>10, <2>2
  <2>4. Foremost(todo, 1, a, d)
    BY <1>3, <1>4, <1>5, <1>7, <1>8, <1>9, <1>11 DEF OrderInv, Paid, Owing
  <2>5. PICK k \in DOMAIN todo : k > 1 /\ todo[k] = a /\ \A j \in 1..k : todo[j] # d
    BY <2>4 DEF Foremost
  <2>6. CopyFirst(todo, a, d)
    BY <2>5 DEF CopyFirst
  <2>7. a # st
    BY <2>1, <1>8 DEF Copy
  <2>8. CopyFirst(Tail(todo), a, d)
    BY <1>1, <1>5, <2>6, <2>7, CopyFirstTail
  <2> QED BY <2>3, <2>6, <2>8
<1>12. CASE st = a
  <2>1. st.op = "copy" /\ st.name = t /\ st.from = OldName[t]
    BY <1>8, <1>12 DEF Copy
  <2>2. RowsIn(ts, t) \cup RowsIn(ts, OldName[t]) \subseteq RowsIn(us, t)
    BY <1>6, <2>1, RowsCopied
  <2> QED BY <1>10, <2>2
<1>13. CASE st = d
  <2>1. ~CopyFirst(todo, a, d)
    <3>1. \A k \in DOMAIN todo : 1 \in 1..k
      BY <1>5
    <3> QED BY <1>5, <1>13, <3>1 DEF CopyFirst
  <2>2. st.name # t
    BY <1>7, <1>9, <1>13 DEF DropOld
  <2> QED BY <1>6, <1>10, <2>1, <2>2, RowsStay
<1>14. CASE st # Rename(t) /\ st # a /\ st # d
  <2>1. ~(st.op \in GoneOps /\ st.name = t) /\ ~(st.op \in GoneOps /\ st.name = OldName[t])
    <3> SUFFICES ASSUME st.op \in GoneOps PROVE st.name # t /\ st.name # OldName[t]
      OBVIOUS
    <3>1. TakesTable(s, e, st)
      BY <1>5, GoneUp
    <3>2. ASSUME NEW x \in Removed(s, e), st = DropTable(x) PROVE st.name # t /\ st.name # OldName[t]
      BY <1>7, <3>2 DEF Removed, DropTable
    <3>3. ASSUME NEW u \in Remade(s, e), st = Rename(u) PROVE st.name # t /\ st.name # OldName[t]
      <4>1. u \in Tables
        BY <1>3, SchemasAssumption DEF TypeInv, Remade, Between
      <4> QED BY <1>7, <1>14, <3>3, <4>1 DEF Rename
    <3>4. ASSUME NEW u \in Remade(s, e), st = DropOld(u) PROVE st.name # t /\ st.name # OldName[t]
      <4>1. u \in Tables
        BY <1>3, SchemasAssumption DEF TypeInv, Remade, Between
      <4>2. st.name = OldName[u] /\ OldName[u] \notin Tables
        BY <3>4, <4>1, SchemasAssumption DEF DropOld
      <4> QED BY <1>7, <1>9, <1>14, <3>4, <4>1, <4>2
    <3> QED BY <3>1, <3>2, <3>3, <3>4 DEF TakesTable
  <2>2. RowsIn(ts, t) \subseteq RowsIn(us, t) /\ RowsIn(ts, OldName[t]) \subseteq RowsIn(us, OldName[t])
    BY <1>6, <2>1, RowsStay
  <2>3. CopyFirst(todo, a, d) => CopyFirst(Tail(todo), a, d)
    BY <1>1, <1>5, <1>14, CopyFirstTail
  <2> QED BY <1>10, <2>2, <2>3
<1> QED BY <1>11, <1>12, <1>13, <1>14

LEMMA HeldBack ==
    ASSUME TypeInv, RowsInv, rolling, phase = "running", TakesEffect(Head(todo)),
           UNCHANGED <<plan, rolling, acked>>, NEW t \in Wanted
    PROVE  Held(t)'
<1>1. PICK st : st = Head(todo)
  OBVIOUS
<1>2. PICK ts, us : ts = db.tables /\ us = db.tables'
  OBVIOUS
<1>3. IsDown(plan.goal, plan.before, st)
  BY <1>1, NextStatement
<1>4. TablesAfter(st, ts, us)
  BY <1>1, <1>2, Effects DEF TypeInv, HasEffect
<1>5. ~(st.op \in GoneOps /\ st.name = t)
  <2>1. t \in DOMAIN plan.before.tables
    BY WantedIs
  <2> QED BY <1>3, <2>1, GoneDown DEF Added, DropTable
<1>6. acked[t] \subseteq RowsIn(ts, t)
  BY <1>2 DEF RowsInv, Held
<1>7. acked[t] \subseteq RowsIn(us, t)
  BY <1>4, <1>5, <1>6, RowsStay
<1> QED BY <1>2, <1>7 DEF Held

LEMMA RowsStart ==
    ASSUME Init
    PROVE  RowsInv
<1>1. plan.before = introspect(StoredSchema(FirstSchema), NothingLost)
  BY DEF Init
<1>2. DOMAIN plan.before.tables = DOMAIN FirstSchema.tables
  BY <1>1 DEF introspect, StoredSchema
<1>3. \A t \in Tables : acked[t] = {}
  BY DEF Init
<1>4. FirstSchema \in Schemas /\ plan.goal = FirstSchema
  BY SchemasAssumption DEF Init
<1>5. Wanted \subseteq Tables
  BY <1>4, SchemasAssumption DEF Wanted
<1> QED BY <1>2, <1>3, <1>4, <1>5, SchemasAssumption DEF RowsInv, Held

LEMMA RowsStays ==
    ASSUME Cautious, TypeInv, OrderInv, RowsInv, [Next]_vars
    PROVE  RowsInv'
<1>1. ASSUME NEW s \in Schemas, NEW lost \in Losses, Plan(s, lost) PROVE RowsInv'
  <2>1. /\ plan'.goal = s /\ plan'.before = introspect(db, lost)
        /\ rolling' = FALSE /\ db' = db
        /\ acked' = [t \in Tables |-> IF t \in DOMAIN s.tables THEN acked[t] ELSE {}]
    BY <1>1, PlanFields
  <2>2. \A t \in Tables : OldName[t] \notin DOMAIN db.tables
    BY <1>1 DEF Plan, HasTable
  <2>3. DOMAIN plan'.before.tables = DOMAIN db.tables
    BY <2>1 DEF introspect
  <2>4. \A t \in Tables : RowsIn(db.tables, OldName[t]) = {}
    BY <2>2 DEF RowsIn
  <2>5. \A t \in Tables : acked[t] \subseteq RowsIn(db.tables, t)
    BY <2>4 DEF RowsInv, Held
  <2>6. \A t \in Tables : acked'[t] \subseteq RowsIn(db'.tables, t)
    BY <2>1, <2>5
  <2>7. Wanted' = DOMAIN s.tables \cap Tables
    BY <2>1 DEF Wanted
  <2>8. \A t \in Tables : acked'[t] # {} => t \in DOMAIN s.tables
    BY <2>1
  <2> QED BY <2>2, <2>3, <2>6, <2>7, <2>8 DEF RowsInv, Held
<1>2. CASE Execute
  <2>1. /\ phase = "running" /\ TakesEffect(Head(todo))
        /\ todo' = Tail(todo) \/ todo' = todo
        /\ plan' = plan /\ rolling' = rolling /\ acked' = acked
    BY <1>2 DEF Execute
  <2>2. Wanted' = Wanted
    BY <2>1 DEF Wanted
  <2>3. \A t \in Wanted : Held(t)'
    <3>1. CASE rolling
      BY <2>1, <3>1, HeldBack
    <3>2. CASE ~rolling
      BY <2>1, <3>2, HeldForward
    <3> QED BY <3>1, <3>2
  <2> QED BY <2>1, <2>2, <2>3 DEF RowsInv
<1>3. CASE StartOver
  <2>1. plan' = plan /\ rolling' = rolling /\ acked' = acked /\ db' = db /\ (~rolling => todo' = plan.up)
    BY <1>3 DEF StartOver
  <2>2. Wanted' = Wanted
    BY <2>1 DEF Wanted
  <2>3. ASSUME NEW t \in Wanted, ~rolling, CopyFirst(todo, Copy(t, plan.goal.tables[t]), DropOld(t))
        PROVE  CopyFirst(todo', Copy(t, plan.goal.tables[t]), DropOld(t))
    <3>1. PICK a : a = Copy(t, plan.goal.tables[t])
      OBVIOUS
    <3>2. a \in ToSet(todo)
      BY <2>3, <3>1 DEF CopyFirst, ToSet
    <3>3. a \in ToSet(plan.up)
      BY <2>3, <3>2 DEF TypeInv, Now
    <3>4. IsPlan(plan.goal, plan.before, plan)
      BY <3>3, NoneIsSeq DEF TypeInv, Planned
    <3>5. IsSeq(plan.up) /\ DropsLate(plan.goal, plan.up)
      BY <3>4 DEF IsPlan, IsPart, Orderly
    <3>6. t \in Tables
      BY WantedIs
    <3>7. PICK x, s : x = plan.up /\ s = plan.goal
      OBVIOUS
    <3>8. CopyFirst(x, Copy(t, s.tables[t]), DropOld(t))
      BY <3>1, <3>3, <3>5, <3>6, <3>7, CopyFirstWhole
    <3> QED BY <2>1, <2>3, <3>7, <3>8
  <2>4. \A t \in Wanted : Held(t)'
    BY <2>1, <2>3 DEF RowsInv, Held
  <2> QED BY <2>1, <2>2, <2>4 DEF RowsInv
<1>4. CASE Rollback
  <2>1. /\ todo = <<>> /\ ~rolling /\ rolling' = TRUE /\ plan' = plan /\ db' = db
        /\ acked' = [t \in Tables |-> IF t \in DOMAIN plan.before.tables THEN acked[t] ELSE {}]
    BY <1>4 DEF Rollback, TypeInv
  <2>2. \A a, d : ~CopyFirst(todo, a, d)
    BY <2>1 DEF CopyFirst
  <2>3. Wanted \subseteq Tables /\ Wanted' = DOMAIN plan.goal.tables \cap DOMAIN plan.before.tables
    BY <2>1, WantedIs DEF Wanted
  <2>4. Wanted = DOMAIN plan.goal.tables \cap Tables
    BY <2>1 DEF Wanted
  <2>5. \A t \in Wanted' : t \in Wanted
    BY <2>3, <2>4, SchemasAssumption DEF TypeInv
  <2>6. \A t \in Wanted' : acked'[t] \subseteq RowsIn(db'.tables, t)
    BY <2>1, <2>2, <2>3, <2>5 DEF RowsInv, Held
  <2>7. \A t \in Tables : acked'[t] # {} => t \in Wanted'
    BY <2>1, <2>3, <2>4 DEF RowsInv
  <2> QED BY <2>1, <2>6, <2>7 DEF RowsInv, Held
<1>5. ASSUME NEW t \in Tables, NEW r \in Rows, Write(t, r) PROVE RowsInv'
  <2>1. /\ t \in Wanted /\ t \in DOMAIN db.tables /\ db' = [db EXCEPT !.tables[t].rows = @ \cup {r}]
        /\ acked' = [acked EXCEPT ![t] = @ \cup {r}]
        /\ plan' = plan /\ todo' = todo /\ rolling' = rolling
    BY <1>5 DEF Write, HasTable
  <2>2. HasRow(t, r, db, db')
    BY <2>1, WriteIs DEF TypeInv
  <2>3. \A x : RowsIn(db.tables, x) \subseteq RowsIn(db'.tables, x)
    BY <2>2 DEF HasRow, RowsIn
  <2>4. r \in RowsIn(db'.tables, t)
    BY <2>1, <2>2 DEF HasRow, RowsIn
  <2>5. \A x \in Tables : acked'[x] = IF x = t THEN acked[x] \cup {r} ELSE acked[x]
    BY <2>1 DEF TypeInv
  <2>6. Wanted' = Wanted /\ Wanted \subseteq Tables
    BY <2>1, WantedIs DEF Wanted
  <2>7. ASSUME NEW x \in Wanted PROVE Held(x)'
    <3>1. acked'[x] \subseteq acked[x] \cup RowsIn(db'.tables, x)
      BY <2>4, <2>5, <2>6
    <3>2. CASE acked[x] \subseteq RowsIn(db.tables, x)
      <4>1. acked'[x] \subseteq RowsIn(db'.tables, x)
        BY <2>3, <3>1, <3>2
      <4> QED BY <4>1 DEF Held
    <3>3. CASE ~(acked[x] \subseteq RowsIn(db.tables, x))
      <4>1. /\ acked[x] \subseteq RowsIn(db.tables, x) \cup RowsIn(db.tables, OldName[x])
            /\ ~rolling /\ CopyFirst(todo, Copy(x, plan.goal.tables[x]), DropOld(x))
        BY <3>3 DEF RowsInv, Held
      <4>2. acked'[x] \subseteq RowsIn(db'.tables, x) \cup RowsIn(db'.tables, OldName[x])
        BY <2>3, <3>1, <4>1
      <4> QED BY <2>1, <4>1, <4>2 DEF Held
    <3> QED BY <3>2, <3>3
  <2>8. \A x \in Tables : acked'[x] # {} => x \in Wanted
    BY <2>1, <2>5 DEF RowsInv
  <2> QED BY <2>1, <2>6, <2>7, <2>8 DEF RowsInv
<1>6. CASE UNCHANGED <<db, plan, todo, rolling, acked>>
  BY <1>6 DEF RowsInv, Held, Wanted
<1>7. Fail \/ Resume \/ UNCHANGED vars => UNCHANGED <<db, plan, todo, rolling, acked>>
  BY DEF Fail, Resume, vars
<1> QED BY <1>1, <1>2, <1>3, <1>4, <1>5, <1>6, <1>7 DEF Next

\* The rows that applications were told are written stay in their table, or in
\* the "<table>_old" that the recreation of the table renamed it to, and are in
\* the table when the migration is done: no failed statement, lost answer,
\* restart or rollback loses one, as long as nobody plans anew while a renamed
\* table is there.
THEOREM RowsAreKept ==
    ASSUME Cautious
    PROVE  Spec => []RowsKept
<1>1. Init => TypeInv /\ OrderInv /\ RowsInv
  BY TypeStarts, OrderStarts, RowsStart
<1>2. TypeInv /\ OrderInv /\ RowsInv /\ [Next]_vars => (TypeInv /\ OrderInv /\ RowsInv)'
  BY TypeStays, OrderStays, RowsStays
<1>3. TypeInv /\ RowsInv => RowsKept
  <2> SUFFICES ASSUME TypeInv, RowsInv, NEW t \in Wanted
               PROVE  acked[t] \subseteq RowsOf(t) \cup (IF phase = "done" THEN {} ELSE RowsOf(OldName[t]))
    BY DEF RowsKept
  <2>1. RowsOf(t) = RowsIn(db.tables, t) /\ RowsOf(OldName[t]) = RowsIn(db.tables, OldName[t])
    BY DEF RowsOf, RowsIn, HasTable
  <2>2. phase = "done" => \A a, d : ~CopyFirst(todo, a, d)
    BY DEF TypeInv, CopyFirst
  <2> QED BY <2>1, <2>2 DEF RowsInv, Held
<1> QED BY <1>1, <1>2, <1>3, PTL DEF Spec

(***************************************************************************)
(* What a statement of a plan is, told from what it does.                  *)
(***************************************************************************)
IsTableUp(s, e, st) ==
  /\ st.op = "createTable" =>
       st.name \in Added(s, e) \cup Remade(s, e) /\ st = CreateTable(st.name, s.tables[st.name])
  /\ st.op = "rename" => st.name \in Remade(s, e) /\ st = Rename(st.name)

IsColumnUp(s, e, st) ==
  /\ st.op \in {"addColumn", "modifyColumn"} =>
       /\ st.name \in Changed(s, e) /\ st.column \in DOMAIN s.tables[st.name].columns
       /\ st.def = s.tables[st.name].columns[st.column]
  /\ st.op = "dropColumn" =>
       st.name \in Changed(s, e) /\ st.column \notin DOMAIN s.tables[st.name].columns
  /\ st.op = "addColumn" => st.column \notin DOMAIN e.tables[st.name].columns

IsIndexUp(s, e, st) ==
  /\ st.op = "createIndex" =>
       /\ st.name \in Added(s, e) \cup Changed(s, e) /\ st.index \in DOMAIN s.tables[st.name].indexes
       /\ st.def = s.tables[st.name].indexes[st.index]
  /\ st.op = "dropIndex" => st.name \in Changed(s, e) /\ st = DropIndex(st.name, st.index)

IsPropertyUp(s, e, st) ==
  st.op = "setProperties" =>
    /\ st.name \in Changed(s, e)
    /\ diffTable(s.tables[st.name], e.tables[st.name]).propertyChanges # {}
    /\ \A k \in DOMAIN st.props : /\ k \in DOMAIN s.tables[st.name].props
                                  /\ st.props[k] = Stringify(s.tables[st.name].props[k])

IsViewStatement(s, e, st) ==
  /\ st.op \in {"createView", "replaceView"} => st.name \in DOMAIN s.views /\ st.def = s.views[st.name]
  /\ st.op = "replaceView" => st.name \in DifferingViews(s, e)
  /\ st.op = "createView" => st.name \notin DOMAIN e.views
  /\ st.op = "dropView" => st.name \in DOMAIN e.views \ DOMAIN s.views

IsMVStatement(s, e, st) ==
  /\ st.op = "createMV" => /\ st = CreateMV(st.name, s.mvs[st.name])
                           /\ st.name \in (DOMAIN s.mvs \ DOMAIN e.mvs) \cup RebuiltMVs(s, e)
  /\ st.op = "dropMV" => /\ st = DropMV(st.name)
                         /\ st.name \in (DOMAIN e.mvs \ DOMAIN s.mvs) \cup RebuiltMVs(s, e)
  /\ st.op = "alterRefresh" => st.name \in RefreshedMVs(s, e)

HasKind(s, e, st) ==
  /\ IsTableUp(s, e, st) /\ IsColumnUp(s, e, st) /\ IsIndexUp(s, e, st) /\ IsPropertyUp(s, e, st)
  /\ IsViewStatement(s, e, st) /\ IsMVStatement(s, e, st)

LEMMA PlainKind ==
    ASSUME NEW s, NEW e, NEW st, st.op \in {"copy", "dropTable", "dropTableIfExists"}
    PROVE  HasKind(s, e, st)
BY DEF HasKind, IsTableUp, IsColumnUp, IsIndexUp, IsPropertyUp, IsViewStatement, IsMVStatement

LEMMA IndexKind ==
    ASSUME NEW s, NEW e, NEW t \in Added(s, e) \cup Changed(s, e), NEW i \in DOMAIN s.tables[t].indexes,
           NEW st, st = CreateIndex(t, i, s.tables[t].indexes[i])
    PROVE  HasKind(s, e, st)
<1>1. st.op = "createIndex" /\ st.name = t /\ st.index = i /\ st.def = s.tables[t].indexes[i]
  BY DEF CreateIndex
<1> QED BY <1>1 DEF HasKind, IsTableUp, IsColumnUp, IsIndexUp, IsPropertyUp, IsViewStatement, IsMVStatement

LEMMA AlterKind ==
    ASSUME NEW s, NEW e, NEW t \in Changed(s, e), NEW st, IsAlterUp(t, s.tables[t], e.tables[t], st)
    PROVE  HasKind(s, e, st)
<1>1. PICK def, old : def = s.tables[t] /\ old = e.tables[t]
  OBVIOUS
<1>2. PICK change : change = diffTable(def, old)
  OBVIOUS
<1>3. /\ change.columns.add = DOMAIN def.columns \ DOMAIN old.columns
      /\ change.columns.remove = DOMAIN old.columns \ DOMAIN def.columns
      /\ change.columns.modify \subseteq DOMAIN def.columns
      /\ change.indexes.add \cup change.indexes.modify \subseteq DOMAIN def.indexes
      /\ change.propertyChanges \subseteq DOMAIN def.props
  BY <1>2, DiffTableIs DEF diffProperties
<1>4. CASE \E c \in change.columns.add : st = AddColumn(t, c, def.columns[c])
  <2>1. PICK c \in change.columns.add : st = AddColumn(t, c, def.columns[c])
    BY <1>4
  <2>2. st.op = "addColumn" /\ st.name = t /\ st.column = c /\ st.def = def.columns[c]
    BY <2>1 DEF AddColumn
  <2> QED BY <1>1, <1>3, <2>2 DEF HasKind, IsTableUp, IsColumnUp, IsIndexUp, IsPropertyUp, IsViewStatement, IsMVStatement
<1>5. CASE \E c \in change.columns.remove : st = DropColumn(t, c)
  <2>1. PICK c \in change.columns.remove : st = DropColumn(t, c)
    BY <1>5
  <2>2. st.op = "dropColumn" /\ st.name = t /\ st.column = c
    BY <2>1 DEF DropColumn
  <2> QED BY <1>1, <1>3, <2>2 DEF HasKind, IsTableUp, IsColumnUp, IsIndexUp, IsPropertyUp, IsViewStatement, IsMVStatement
<1>6. CASE \E c \in change.columns.modify : st = ModifyColumn(t, c, def.columns[c])
  <2>1. PICK c \in change.columns.modify : st = ModifyColumn(t, c, def.columns[c])
    BY <1>6
  <2>2. st.op = "modifyColumn" /\ st.name = t /\ st.column = c /\ st.def = def.columns[c]
    BY <2>1 DEF ModifyColumn
  <2> QED BY <1>1, <1>3, <2>2 DEF HasKind, IsTableUp, IsColumnUp, IsIndexUp, IsPropertyUp, IsViewStatement, IsMVStatement
<1>7. CASE \E i \in change.indexes.add \cup change.indexes.modify : st = CreateIndex(t, i, def.indexes[i])
  <2>1. PICK i \in DOMAIN def.indexes : st = CreateIndex(t, i, def.indexes[i])
    BY <1>3, <1>7
  <2> QED BY <1>1, <2>1, IndexKind
<1>8. CASE \E i \in change.indexes.remove \cup change.indexes.modify : st = DropIndex(t, i)
  <2>1. PICK i : st = DropIndex(t, i)
    BY <1>8
  <2>2. st.op = "dropIndex" /\ st.name = t /\ st.index = i
    BY <2>1 DEF DropIndex
  <2> QED BY <2>1, <2>2 DEF HasKind, IsTableUp, IsColumnUp, IsIndexUp, IsPropertyUp, IsViewStatement, IsMVStatement
<1>9. CASE change.propertyChanges # {} /\ st = PropertiesSet(t, def, change.propertyChanges)
  <2>1. /\ st.op = "setProperties" /\ st.name = t /\ DOMAIN st.props = change.propertyChanges
        /\ \A k \in change.propertyChanges : st.props[k] = Stringify(def.props[k])
    BY <1>9 DEF PropertiesSet
  <2> QED BY <1>1, <1>2, <1>3, <1>9, <2>1 DEF HasKind, IsTableUp, IsColumnUp, IsIndexUp, IsPropertyUp, IsViewStatement, IsMVStatement
<1> QED BY <1>1, <1>2, <1>4, <1>5, <1>6, <1>7, <1>8, <1>9 DEF IsAlterUp

LEMMA TableKind ==
    ASSUME NEW s, NEW e, NEW t \in Added(s, e) \cup Remade(s, e), NEW st, st = CreateTable(t, s.tables[t])
    PROVE  HasKind(s, e, st)
<1>1. st.op = "createTable" /\ st.name = t
  BY DEF CreateTable
<1> QED BY <1>1 DEF HasKind, IsTableUp, IsColumnUp, IsIndexUp, IsPropertyUp, IsViewStatement, IsMVStatement

LEMMA ViewKind ==
    ASSUME NEW s, NEW e, NEW st, IsViewUp(s, e, st)
    PROVE  HasKind(s, e, st)
<1>1. CASE \E v \in DOMAIN s.views \ DOMAIN e.views : st = CreateView(v, s.views[v])
  <2>1. PICK v \in DOMAIN s.views \ DOMAIN e.views : st = CreateView(v, s.views[v])
    BY <1>1
  <2>2. st.op = "createView" /\ st.name = v /\ st.def = s.views[v]
    BY <2>1 DEF CreateView
  <2> QED BY <2>2 DEF HasKind, IsTableUp, IsColumnUp, IsIndexUp, IsPropertyUp, IsViewStatement, IsMVStatement
<1>2. CASE \E v \in DOMAIN e.views \ DOMAIN s.views : st = DropView(v)
  <2>1. PICK v \in DOMAIN e.views \ DOMAIN s.views : st = DropView(v)
    BY <1>2
  <2>2. st.op = "dropView" /\ st.name = v
    BY <2>1 DEF DropView
  <2> QED BY <2>2 DEF HasKind, IsTableUp, IsColumnUp, IsIndexUp, IsPropertyUp, IsViewStatement, IsMVStatement
<1>3. CASE \E v \in DifferingViews(s, e) : st = ReplaceView(v, s.views[v])
  <2>1. PICK v \in DifferingViews(s, e) : st = ReplaceView(v, s.views[v])
    BY <1>3
  <2>2. st.op = "replaceView" /\ st.name = v /\ st.def = s.views[v]
    BY <2>1 DEF ReplaceView
  <2>3. v \in DOMAIN s.views
    BY DEF DifferingViews
  <2> QED BY <2>2, <2>3 DEF HasKind, IsTableUp, IsColumnUp, IsIndexUp, IsPropertyUp, IsViewStatement, IsMVStatement
<1> QED BY <1>1, <1>2, <1>3 DEF IsViewUp

LEMMA MVKind ==
    ASSUME NEW s, NEW e, NEW st, IsMVUp(s, e, st)
    PROVE  HasKind(s, e, st)
<1>1. CASE \E m \in (DOMAIN s.mvs \ DOMAIN e.mvs) \cup RebuiltMVs(s, e) : st = CreateMV(m, s.mvs[m])
  <2>1. PICK m \in (DOMAIN s.mvs \ DOMAIN e.mvs) \cup RebuiltMVs(s, e) : st = CreateMV(m, s.mvs[m])
    BY <1>1
  <2>2. st.op = "createMV" /\ st.name = m
    BY <2>1 DEF CreateMV
  <2> QED BY <2>1, <2>2 DEF HasKind, IsTableUp, IsColumnUp, IsIndexUp, IsPropertyUp, IsViewStatement, IsMVStatement
<1>2. CASE \E m \in (DOMAIN e.mvs \ DOMAIN s.mvs) \cup RebuiltMVs(s, e) : st = DropMV(m)
  <2>1. PICK m \in (DOMAIN e.mvs \ DOMAIN s.mvs) \cup RebuiltMVs(s, e) : st = DropMV(m)
    BY <1>2
  <2>2. st.op = "dropMV" /\ st.name = m
    BY <2>1 DEF DropMV
  <2> QED BY <2>1, <2>2 DEF HasKind, IsTableUp, IsColumnUp, IsIndexUp, IsPropertyUp, IsViewStatement, IsMVStatement
<1>3. CASE \E m \in RefreshedMVs(s, e) : st = AlterRefresh(m, s.mvs[m])
  <2>1. PICK m \in RefreshedMVs(s, e) : st = AlterRefresh(m, s.mvs[m])
    BY <1>3
  <2>2. st.op = "alterRefresh" /\ st.name = m
    BY <2>1 DEF AlterRefresh
  <2> QED BY <2>1, <2>2 DEF HasKind, IsTableUp, IsColumnUp, IsIndexUp, IsPropertyUp, IsViewStatement, IsMVStatement
<1> QED BY <1>1, <1>2, <1>3 DEF IsMVUp

LEMMA UpKinds ==
    ASSUME NEW s, NEW e, NEW st, IsUp(s, e, st)
    PROVE  HasKind(s, e, st)
<1>1. CASE \E t \in Added(s, e) : IsAddUp(t, s.tables[t], st)
  BY <1>1, TableKind, IndexKind DEF IsAddUp
<1>2. CASE \E t \in Removed(s, e) : st = DropTable(t)
  BY <1>2, PlainKind DEF DropTable
<1>3. CASE \E t \in Remade(s, e) : st \in Recreation(t, s.tables[t])
  <2>1. PICK t \in Remade(s, e) : st \in Recreation(t, s.tables[t])
    BY <1>3
  <2>2. CASE st = Rename(t)
    <3>1. st.op = "rename" /\ st.name = t
      BY <2>2 DEF Rename
    <3> QED BY <2>2, <3>1 DEF HasKind, IsTableUp, IsColumnUp, IsIndexUp, IsPropertyUp, IsViewStatement, IsMVStatement
  <2>3. CASE st = CreateTable(t, s.tables[t])
    BY <2>3, TableKind
  <2>4. CASE st = Copy(t, s.tables[t]) \/ st = DropOld(t)
    BY <2>4, PlainKind DEF Copy, DropOld
  <2> QED BY <2>1, <2>2, <2>3, <2>4 DEF Recreation
<1>4. CASE \E t \in Changed(s, e) : IsAlterUp(t, s.tables[t], e.tables[t], st)
  BY <1>4, AlterKind
<1>5. CASE IsViewUp(s, e, st)
  BY <1>5, ViewKind
<1>6. CASE IsMVUp(s, e, st)
  BY <1>6, MVKind
<1> QED BY <1>1, <1>2, <1>3, <1>4, <1>5, <1>6 DEF IsUp

(***************************************************************************)
(* The goal: whatever no statement in Q is about is as the goal wants it.  *)
(***************************************************************************)
Placed(def, dist) ==
  \/ StoredTable(def).dist = dist
  \/ ~DistributionChanged(def.dist, IF dist.buckets = NoBuckets THEN NoDistribution ELSE dist)

ColumnDone(def, is, c) ==
  /\ c \in DOMAIN is.columns <=> c \in DOMAIN def.columns
  /\ c \in DOMAIN def.columns => is.columns[c] = StoredColumn(def.key, def.columns[c])

IndexDone(def, wanted, is, i) ==
  /\ i \in DOMAIN is.indexes <=> i \in wanted
  /\ i \in DOMAIN is.indexes => ~diffIndex(def.indexes[i], is.indexes[i])

PropertyDone(def, is, k) ==
  /\ k \in DOMAIN is.props
  /\ is.props[k] \in {Stringify(def.props[k]), flattenProperties(def.props[k])}

WantedIndexes(s, e, t) ==
  IF t \in Remade(s, e)
  THEN {i \in DOMAIN s.tables[t].indexes : s.tables[t].indexes[i].type = "BITMAP"}
  ELSE DOMAIN s.tables[t].indexes

SpecialDone(s, e, t, is) ==
  t \in Added(s, e) \cup Remade(s, e) => is.special = s.tables[t].special

TableDone(s, e, Q, t, is) ==
  LET def == s.tables[t] IN
  /\ SpecialDone(s, e, t, is)
  /\ is.key = def.key /\ Placed(def, is.dist)
  /\ \A c : (\E st \in Q : OnColumn(st, t, c)) \/ ColumnDone(def, is, c)
  /\ \A i : (\E st \in Q : OnIndex(st, t, i)) \/ IndexDone(def, WantedIndexes(s, e, t), is, i)
  /\ \A k \in DOMAIN def.props : (\E st \in Q : OnProperty(st, t, k)) \/ PropertyDone(def, is, k)

TablesDone(s, e, Q, ts) ==
  /\ \A t \in DOMAIN s.tables : t \in DOMAIN ts \/ CreateTable(t, s.tables[t]) \in Q
  /\ \A x \in DOMAIN ts : \/ x \in DOMAIN s.tables \/ DropTable(x) \in Q
                          \/ \E u \in Tables : x = OldName[u] /\ DropOld(u) \in Q
  /\ \A t \in DOMAIN s.tables \cap DOMAIN ts : Rename(t) \in Q \/ TableDone(s, e, Q, t, ts[t])

ViewDone(s, vs, v) ==
  /\ v \in DOMAIN s.views <=> v \in DOMAIN vs
  /\ v \in DOMAIN s.views => s.views[v].columns = vs[v].columns

ViewsDone(s, Q, vs) == \A v : (\E st \in Q : OnView(st, v)) \/ ViewDone(s, vs, v)

MVDone(s, e, m, is) ==
  m \in RefreshedMVs(s, e) \/ s.mvs[m].refresh = Null \/ diffMaterializedView(s.mvs[m], is) = "none"

MVsDone(s, e, Q, ms) ==
  /\ \A m \in DOMAIN s.mvs : m \in DOMAIN ms \/ CreateMV(m, s.mvs[m]) \in Q
  /\ \A m \in DOMAIN ms : DropMV(m) \in Q \/ (m \in DOMAIN s.mvs /\ MVDone(s, e, m, ms[m]))

GoalOf(s, e, Q, d) ==
  TablesDone(s, e, Q, d.tables) /\ ViewsDone(s, Q, d.views) /\ MVsDone(s, e, Q, d.mvs)

LEMMA GoalWider ==
    ASSUME NEW s, NEW e, NEW Q, NEW R, Q \subseteq R, NEW d, GoalOf(s, e, Q, d)
    PROVE  GoalOf(s, e, R, d)
<1>1. \A t, is : TableDone(s, e, Q, t, is) => TableDone(s, e, R, t, is)
  BY DEF TableDone
<1>2. TablesDone(s, e, R, d.tables)
  BY <1>1 DEF GoalOf, TablesDone
<1>3. ViewsDone(s, R, d.views)
  BY DEF GoalOf, ViewsDone
<1>4. MVsDone(s, e, R, d.mvs)
  BY DEF GoalOf, MVsDone
<1> QED BY <1>2, <1>3, <1>4 DEF GoalOf

(***************************************************************************)
(* A plan that was just made.                                              *)
(***************************************************************************)
LEMMA ColumnSame ==
    ASSUME NEW key, NEW x, NEW y, IsColumn(x), IsStoredColumn(key, y), diffColumn(x, y, key = "PRIMARY") = {}
    PROVE  y = StoredColumn(key, x)
<1>1. /\ normalizeDataType(x.type) = normalizeDataType(y.type) /\ x.nullable = y.nullable
      /\ key # "PRIMARY" => x.default = y.default
  BY DEF diffColumn
<1>2. IsType(x.type) /\ IsType(y.type) /\ Spelled(y.type) = y.type /\ IsColumn(y)
  BY DEF IsColumn, IsStoredColumn
<1>3. Spelled(x.type) = y.type
  BY <1>1, <1>2, SpelledAlike
<1>4. y = [type |-> y.type, nullable |-> y.nullable, default |-> y.default]
  BY <1>2 DEF IsColumn
<1>5. key = "PRIMARY" => y.default = Null
  BY DEF IsStoredColumn
<1>6. StoredColumn(key, x) = [type |-> Spelled(x.type), nullable |-> x.nullable,
                              default |-> IF key = "PRIMARY" THEN Null ELSE x.default]
  BY StoredColumnIs
<1>7. (IF key = "PRIMARY" THEN Null ELSE x.default) = y.default
  BY <1>1, <1>5
<1>8. StoredColumn(key, x) = [type |-> y.type, nullable |-> y.nullable, default |-> y.default]
  BY <1>1, <1>3, <1>6, <1>7
<1> QED BY <1>4, <1>8

\* A table that the plan leaves as it is, or alters.
LEMMA TablePlanned ==
    ASSUME NEW s, IsSchema(s), NEW e, IsSeen(e), NEW t \in Between(s, e) \ Remade(s, e), NEW is,
           is.columns = e.tables[t].columns, is.key = e.tables[t].key, is.props = e.tables[t].props,
           is.indexes = e.tables[t].indexes,
           e.tables[t].dist = IF is.dist.buckets = NoBuckets THEN NoDistribution ELSE is.dist,
           NEW Q, \A st : t \in Changed(s, e) /\ IsAlterUp(t, s.tables[t], e.tables[t], st) => st \in Q
    PROVE  TableDone(s, e, Q, t, is)
<1>1. PICK def, old : def = s.tables[t] /\ old = e.tables[t]
  OBVIOUS
<1>2. PICK change : change = diffTable(def, old)
  OBVIOUS
<1>3. /\ change.columns.add = DOMAIN def.columns \ DOMAIN old.columns
      /\ change.columns.remove = DOMAIN old.columns \ DOMAIN def.columns
      /\ change.columns.modify = {c \in DOMAIN def.columns \cap DOMAIN old.columns :
           diffColumn(def.columns[c], old.columns[c], def.key = "PRIMARY") # {}}
  BY <1>2, DiffTableIs
<1>4. /\ change.indexes.add = DOMAIN def.indexes \ DOMAIN old.indexes
      /\ change.indexes.remove = DOMAIN old.indexes \ DOMAIN def.indexes
      /\ change.indexes.modify = {i \in DOMAIN def.indexes \cap DOMAIN old.indexes :
           diffIndex(def.indexes[i], old.indexes[i])}
  BY <1>2, DiffTableIs
<1>5. /\ change.keyChange = (def.key # old.key)
      /\ change.distributionChange = DistributionChanged(def.dist, old.dist)
      /\ change.propertyChanges = diffProperties(def, old)
  BY <1>2, DiffTableIs
<1>6. ~change.keyChange /\ ~change.distributionChange
  BY <1>1, <1>2 DEF Remade
<1>7. IsTable(def) /\ HasStoredParts(old) /\ t \in DOMAIN s.tables
  BY <1>1 DEF IsSchema, IsSeen, Between
<1>8. /\ \A c : c \in change.columns.add \cup change.columns.remove \cup change.columns.modify => change # NoTableChange
      /\ \A i : i \in change.indexes.add \cup change.indexes.remove \cup change.indexes.modify => change # NoTableChange
      /\ \A k : k \in change.propertyChanges => change # NoTableChange
  BY DEF NoTableChange, NoChanges
<1>9. change # NoTableChange => \A st : IsAlterUp(t, def, old, st) => st \in Q
  BY <1>1, <1>2 DEF Changed
<1>10. is.key = def.key /\ Placed(def, is.dist)
  BY <1>1, <1>5, <1>6 DEF Placed
<1>11. ASSUME NEW c PROVE (\E st \in Q : OnColumn(st, t, c)) \/ ColumnDone(def, is, c)
  <2>1. CASE c \in change.columns.add
    <3>1. PICK st : st = AddColumn(t, c, def.columns[c])
      OBVIOUS
    <3>2. OnColumn(st, t, c)
      BY <3>1 DEF OnColumn, AddColumn
    <3>3. IsAlterUp(t, def, old, st)
      BY <1>2, <2>1, <3>1 DEF IsAlterUp
    <3> QED BY <1>8, <1>9, <2>1, <3>2, <3>3
  <2>2. CASE c \in change.columns.remove
    <3>1. PICK st : st = DropColumn(t, c)
      OBVIOUS
    <3>2. OnColumn(st, t, c)
      BY <3>1 DEF OnColumn, DropColumn
    <3>3. IsAlterUp(t, def, old, st)
      BY <1>2, <2>2, <3>1 DEF IsAlterUp
    <3> QED BY <1>8, <1>9, <2>2, <3>2, <3>3
  <2>3. CASE c \in change.columns.modify
    <3>1. PICK st : st = ModifyColumn(t, c, def.columns[c])
      OBVIOUS
    <3>2. OnColumn(st, t, c)
      BY <3>1 DEF OnColumn, ModifyColumn
    <3>3. IsAlterUp(t, def, old, st)
      BY <1>2, <2>3, <3>1 DEF IsAlterUp
    <3> QED BY <1>8, <1>9, <2>3, <3>2, <3>3
  <2>4. CASE c \notin change.columns.add /\ c \notin change.columns.remove /\ c \notin change.columns.modify
    <3>1. c \in DOMAIN old.columns <=> c \in DOMAIN def.columns
      BY <1>3, <2>4
    <3>2. ASSUME c \in DOMAIN def.columns PROVE old.columns[c] = StoredColumn(def.key, def.columns[c])
      <4>1. diffColumn(def.columns[c], old.columns[c], def.key = "PRIMARY") = {}
        BY <1>3, <2>4, <3>1, <3>2
      <4>2. IsColumn(def.columns[c]) /\ IsStoredColumn(def.key, old.columns[c])
        BY <1>1, <1>7, <1>10, <3>1, <3>2 DEF IsTable, HasStoredParts
      <4> QED BY <4>1, <4>2, ColumnSame
    <3> QED BY <1>1, <3>1, <3>2 DEF ColumnDone
  <2> QED BY <2>1, <2>2, <2>3, <2>4
<1>12. ASSUME NEW i PROVE (\E st \in Q : OnIndex(st, t, i)) \/ IndexDone(def, WantedIndexes(s, e, t), is, i)
  <2>1. CASE i \in change.indexes.add \cup change.indexes.modify
    <3>1. PICK st : st = CreateIndex(t, i, def.indexes[i])
      OBVIOUS
    <3>2. OnIndex(st, t, i)
      BY <3>1 DEF OnIndex, CreateIndex
    <3>3. IsAlterUp(t, def, old, st)
      BY <1>2, <2>1, <3>1 DEF IsAlterUp
    <3> QED BY <1>8, <1>9, <2>1, <3>2, <3>3
  <2>2. CASE i \in change.indexes.remove
    <3>1. PICK st : st = DropIndex(t, i)
      OBVIOUS
    <3>2. OnIndex(st, t, i)
      BY <3>1 DEF OnIndex, DropIndex
    <3>3. IsAlterUp(t, def, old, st)
      BY <1>2, <2>2, <3>1 DEF IsAlterUp
    <3> QED BY <1>8, <1>9, <2>2, <3>2, <3>3
  <2>3. CASE i \notin change.indexes.add /\ i \notin change.indexes.remove /\ i \notin change.indexes.modify
    <3>1. WantedIndexes(s, e, t) = DOMAIN def.indexes
      BY <1>1 DEF WantedIndexes
    <3>2. i \in DOMAIN old.indexes <=> i \in DOMAIN def.indexes
      BY <1>4, <2>3
    <3>3. i \in DOMAIN old.indexes => ~diffIndex(def.indexes[i], old.indexes[i])
      BY <1>4, <2>3, <3>2
    <3> QED BY <1>1, <3>1, <3>2, <3>3 DEF IndexDone
  <2> QED BY <2>1, <2>2, <2>3
<1>13. ASSUME NEW k \in DOMAIN def.props
       PROVE  (\E st \in Q : OnProperty(st, t, k)) \/ PropertyDone(def, is, k)
  <2>1. CASE k \in change.propertyChanges
    <3>1. PICK st : st = PropertiesSet(t, def, change.propertyChanges)
      OBVIOUS
    <3>2. OnProperty(st, t, k)
      BY <2>1, <3>1 DEF OnProperty, PropertiesSet
    <3>3. IsAlterUp(t, def, old, st)
      BY <1>2, <2>1, <3>1 DEF IsAlterUp
    <3> QED BY <1>8, <1>9, <2>1, <3>2, <3>3
  <2>2. CASE k \notin change.propertyChanges
    BY <1>1, <1>5, <2>2 DEF diffProperties, PropertyDone
  <2> QED BY <2>1, <2>2
<1>14. SpecialDone(s, e, t, is)
  BY DEF SpecialDone, Added, Between
<1> QED BY <1>1, <1>10, <1>11, <1>12, <1>13, <1>14 DEF TableDone

LEMMA GoalPlanned ==
    ASSUME NEW s, IsSchema(s), NEW d, IsDb(d), NEW e, e = Seen(d),
           NEW Q, \A st : IsUp(s, e, st) => st \in Q
    PROVE  GoalOf(s, e, Q, d)
<1>1. /\ IsSeen(e) /\ DOMAIN e.tables = DOMAIN d.tables /\ DOMAIN e.views = DOMAIN d.views /\ e.mvs = d.mvs
      /\ \A v \in DOMAIN d.views : e.views[v] = [d.views[v] EXCEPT !.security = Null]
  BY SeenIs, IntrospectIs
<1>2. \A x \in DOMAIN d.tables :
        /\ d.tables[x].columns = e.tables[x].columns /\ d.tables[x].key = e.tables[x].key
        /\ d.tables[x].props = e.tables[x].props /\ d.tables[x].indexes = e.tables[x].indexes
        /\ e.tables[x].dist = IF d.tables[x].dist.buckets = NoBuckets
                              THEN NoDistribution ELSE d.tables[x].dist
  BY IntrospectIs
<1>3. \A t \in DOMAIN s.tables : t \in DOMAIN d.tables \/ CreateTable(t, s.tables[t]) \in Q
  <2>1. ASSUME NEW t \in Added(s, e) PROVE CreateTable(t, s.tables[t]) \in Q
    BY DEF IsUp, IsAddUp
  <2> QED BY <1>1, <2>1 DEF Added
<1>4. \A x \in DOMAIN d.tables : x \in DOMAIN s.tables \/ DropTable(x) \in Q
  BY <1>1 DEF IsUp, Removed
<1>5. ASSUME NEW t \in DOMAIN s.tables \cap DOMAIN d.tables
      PROVE  Rename(t) \in Q \/ TableDone(s, e, Q, t, d.tables[t])
  <2>1. CASE t \in Remade(s, e)
    BY <2>1 DEF IsUp, Recreation
  <2>2. CASE t \notin Remade(s, e)
    <3>1. t \in Between(s, e) \ Remade(s, e)
      BY <1>1, <2>2 DEF Between
    <3>2. \A st : t \in Changed(s, e) /\ IsAlterUp(t, s.tables[t], e.tables[t], st) => st \in Q
      BY DEF IsUp
    <3>3. PICK is : is = d.tables[t]
      OBVIOUS
    <3>4. /\ is.columns = e.tables[t].columns /\ is.key = e.tables[t].key /\ is.props = e.tables[t].props
          /\ is.indexes = e.tables[t].indexes
          /\ e.tables[t].dist = IF is.dist.buckets = NoBuckets THEN NoDistribution ELSE is.dist
      BY <1>2, <3>3
    <3> QED BY <1>1, <3>1, <3>2, <3>3, <3>4, TablePlanned
  <2> QED BY <2>1, <2>2
<1>6. TablesDone(s, e, Q, d.tables)
  BY <1>3, <1>4, <1>5 DEF TablesDone
<1>7. ASSUME NEW v PROVE (\E st \in Q : OnView(st, v)) \/ ViewDone(s, d.views, v)
  <2>1. CASE v \in DOMAIN s.views \ DOMAIN e.views
    <3>1. PICK st : st = CreateView(v, s.views[v])
      OBVIOUS
    <3>2. OnView(st, v)
      BY <3>1 DEF OnView, CreateView, ViewOps
    <3>3. IsUp(s, e, st)
      BY <2>1, <3>1 DEF IsUp, IsViewUp
    <3> QED BY <3>2, <3>3
  <2>2. CASE v \in DOMAIN e.views \ DOMAIN s.views
    <3>1. PICK st : st = DropView(v)
      OBVIOUS
    <3>2. OnView(st, v)
      BY <3>1 DEF OnView, DropView, ViewOps
    <3>3. IsUp(s, e, st)
      BY <2>2, <3>1 DEF IsUp, IsViewUp
    <3> QED BY <3>2, <3>3
  <2>3. CASE v \in DifferingViews(s, e)
    <3>1. PICK st : st = ReplaceView(v, s.views[v])
      OBVIOUS
    <3>2. OnView(st, v)
      BY <3>1 DEF OnView, ReplaceView, ViewOps
    <3>3. IsUp(s, e, st)
      BY <2>3, <3>1 DEF IsUp, IsViewUp
    <3> QED BY <3>2, <3>3
  <2>4. CASE (v \in DOMAIN s.views <=> v \in DOMAIN e.views) /\ v \notin DifferingViews(s, e)
    <3>1. ASSUME v \in DOMAIN s.views PROVE s.views[v].columns = d.views[v].columns
      <4>1. s.views[v].columns = e.views[v].columns
        BY <2>4, <3>1 DEF DifferingViews, diffView
      <4>2. v \in DOMAIN d.views /\ IsView(d.views[v])
        BY <1>1, <2>4, <3>1 DEF IsDb
      <4>3. e.views[v].columns = d.views[v].columns
        BY <1>1, <4>2 DEF IsView
      <4> QED BY <4>1, <4>3
    <3> QED BY <1>1, <2>4, <3>1 DEF ViewDone
  <2> QED BY <2>1, <2>2, <2>3, <2>4 DEF DifferingViews
<1>8. MVsDone(s, e, Q, d.mvs)
  <2>1. \A m \in DOMAIN s.mvs \ DOMAIN e.mvs : CreateMV(m, s.mvs[m]) \in Q
    BY DEF IsUp, IsMVUp
  <2>2. \A m \in DOMAIN e.mvs \ DOMAIN s.mvs : DropMV(m) \in Q
    BY DEF IsUp, IsMVUp
  <2>3. \A m \in RebuiltMVs(s, e) : DropMV(m) \in Q
    BY DEF IsUp, IsMVUp
  <2>4. ASSUME NEW m \in DOMAIN s.mvs \cap DOMAIN e.mvs PROVE m \in RebuiltMVs(s, e) \/ MVDone(s, e, m, d.mvs[m])
    <3>1. diffMaterializedView(s.mvs[m], e.mvs[m]) \in {"none", "recreate", "alter_refresh"}
      BY DEF diffMaterializedView
    <3> QED BY <1>1, <3>1 DEF MVDone, RebuiltMVs, RefreshedMVs
  <2> QED BY <1>1, <2>1, <2>2, <2>3, <2>4 DEF MVsDone
<1> QED BY <1>6, <1>7, <1>8 DEF GoalOf, ViewsDone

(***************************************************************************)
(* One statement further                                                   *)
(***************************************************************************)
Owed(s, e, st, Q) ==
  /\ \A u \in Tables : st = Rename(u) => CreateTable(u, s.tables[u]) \in Q /\ DropOld(u) \in Q
  /\ \A t \in Added(s, e) : \A j \in DOMAIN s.tables[t].indexes :
       st = CreateTable(t, s.tables[t]) => CreateIndex(t, j, s.tables[t].indexes[j]) \in Q
  /\ \A t \in DOMAIN s.tables : \A j \in DOMAIN s.tables[t].indexes :
       st = DropIndex(t, j) => CreateIndex(t, j, s.tables[t].indexes[j]) \in Q
  /\ \A m \in DOMAIN s.mvs : st = DropMV(m) => CreateMV(m, s.mvs[m]) \in Q

LEMMA OwedIs ==
    ASSUME NEW s, NEW e, NEW x, IsSeq(x), x # <<>>, Paid(s, e, x)
    PROVE  Owed(s, e, Head(x), ToSet(Tail(x)))
<1>1. PICK y : y = Tail(x)
  OBVIOUS
<1>2. /\ \A i : i \in DOMAIN y <=> i \in Nat \ {0} /\ i + 1 \in DOMAIN x
      /\ \A i \in DOMAIN y : y[i] = x[i + 1]
      /\ Head(x) = x[1] /\ 1 \in DOMAIN x
  BY <1>1, TailIs
<1>3. DOMAIN x \subseteq Nat \ {0}
  BY DEF IsSeq
<1>4. ASSUME NEW b, Followed(x, 1, b) PROVE b \in ToSet(y)
  <2>1. PICK k \in DOMAIN x : k > 1 /\ x[k] = b
    BY <1>4 DEF Followed
  <2>2. PICK l : l = k - 1
    OBVIOUS
  <2>3. l \in DOMAIN y /\ y[l] = b
    BY <1>2, <1>3, <2>1, <2>2
  <2> QED BY <2>3 DEF ToSet
<1>5. Owing(s, e, x, 1)
  BY <1>2 DEF Paid
<1> QED BY <1>1, <1>2, <1>4, <1>5 DEF Owing, Owed, Added

LEMMA ColumnStep ==
    ASSUME NEW s, NEW e, NEW st, HasKind(s, e, st), NEW t \in DOMAIN s.tables, NEW a, NEW b,
           a.key = s.tables[t].key, ColumnsAfter(st, t, a, b), NEW c,
           OnColumn(st, t, c) \/ ColumnDone(s.tables[t], a, c)
    PROVE  ColumnDone(s.tables[t], b, c)
<1>1. PICK def : def = s.tables[t]
  OBVIOUS
<1>2. CASE OnColumn(st, t, c)
  <2>1. st.op \in {"addColumn", "dropColumn", "modifyColumn"} /\ st.name = t /\ st.column = c
    BY <1>2 DEF OnColumn
  <2>2. CASE st.op \in {"addColumn", "modifyColumn"}
    <3>1. c \in DOMAIN def.columns /\ st.def = def.columns[c]
      BY <1>1, <2>1, <2>2 DEF HasKind, IsColumnUp
    <3>2. c \in DOMAIN b.columns /\ b.columns[c] = StoredColumn(a.key, st.def)
      BY <2>1, <2>2 DEF ColumnsAfter
    <3> QED BY <1>1, <3>1, <3>2 DEF ColumnDone
  <2>3. CASE st.op = "dropColumn"
    <3>1. c \notin DOMAIN def.columns
      BY <1>1, <2>1, <2>3 DEF HasKind, IsColumnUp
    <3>2. c \notin DOMAIN b.columns
      BY <2>1, <2>3 DEF ColumnsAfter
    <3> QED BY <1>1, <3>1, <3>2 DEF ColumnDone
  <2> QED BY <2>1, <2>2, <2>3
<1>3. CASE ~OnColumn(st, t, c)
  BY <1>3 DEF ColumnsAfter, ColumnDone
<1> QED BY <1>2, <1>3

LEMMA IndexStep ==
    ASSUME NEW s, IsSchema(s), NEW e, NEW st, HasKind(s, e, st), NEW t \in DOMAIN s.tables, NEW a, NEW b,
           IndexesAfter(st, t, a, b), NEW Q, Owed(s, e, st, Q), NEW i,
           ~\E q \in Q : OnIndex(q, t, i),
           OnIndex(st, t, i) \/ IndexDone(s.tables[t], WantedIndexes(s, e, t), a, i)
    PROVE  IndexDone(s.tables[t], WantedIndexes(s, e, t), b, i)
<1>1. PICK def : def = s.tables[t]
  OBVIOUS
<1>2. IsTable(def)
  BY <1>1 DEF IsSchema
<1>3. CASE OnIndex(st, t, i)
  <2>1. st.op \in {"createIndex", "dropIndex"} /\ st.name = t /\ st.index = i
    BY <1>3 DEF OnIndex
  <2>2. t \in Added(s, e) \cup Changed(s, e)
    BY <2>1 DEF HasKind, IsIndexUp
  <2>3. WantedIndexes(s, e, t) = DOMAIN def.indexes
    BY <1>1, <2>2 DEF WantedIndexes, Added, Changed, Remade, Between
  <2>4. CASE st.op = "createIndex"
    <3>1. i \in DOMAIN def.indexes /\ st.def = def.indexes[i]
      BY <1>1, <2>1, <2>4 DEF HasKind, IsIndexUp
    <3>2. i \in DOMAIN b.indexes /\ b.indexes[i] = def.indexes[i]
      BY <2>1, <2>4, <3>1 DEF IndexesAfter
    <3>3. ~diffIndex(def.indexes[i], b.indexes[i])
      BY <3>2 DEF diffIndex
    <3> QED BY <1>1, <2>3, <3>1, <3>2, <3>3 DEF IndexDone
  <2>5. CASE st.op = "dropIndex"
    <3>1. i \notin DOMAIN b.indexes
      BY <2>1, <2>5 DEF IndexesAfter
    <3>2. st = DropIndex(t, i)
      BY <2>1, <2>5 DEF HasKind, IsIndexUp
    <3>3. i \notin DOMAIN def.indexes
      <4> SUFFICES ASSUME i \in DOMAIN def.indexes PROVE FALSE
        OBVIOUS
      <4>1. PICK q : q = CreateIndex(t, i, def.indexes[i])
        OBVIOUS
      <4>2. q \in Q
        BY <1>1, <3>2, <4>1 DEF Owed
      <4>3. OnIndex(q, t, i)
        BY <4>1 DEF OnIndex, CreateIndex
      <4> QED BY <4>2, <4>3
    <3> QED BY <1>1, <2>3, <3>1, <3>3 DEF IndexDone
  <2> QED BY <2>1, <2>4, <2>5
<1>4. CASE ~OnIndex(st, t, i)
  <2>1. IndexDone(def, WantedIndexes(s, e, t), a, i)
    BY <1>1, <1>4
  <2>2. i \in DOMAIN b.indexes => i \in DOMAIN a.indexes /\ b.indexes[i] = a.indexes[i]
    BY <1>4 DEF IndexesAfter
  <2>3. ASSUME i \in DOMAIN a.indexes PROVE i \in DOMAIN b.indexes
    <3> SUFFICES ASSUME st.op = "dropColumn", st.name = t, st.column \in ToSet(a.indexes[i].columns)
                 PROVE  FALSE
      BY <1>4, <2>3 DEF IndexesAfter
    <3>1. st.column \notin DOMAIN def.columns
      BY <1>1 DEF HasKind, IsColumnUp
    <3>2. a.indexes[i].columns = def.indexes[i].columns
      BY <2>1, <2>3 DEF IndexDone, diffIndex
    <3>3. i \in DOMAIN def.indexes
      BY <1>1, <2>1, <2>3 DEF IndexDone, WantedIndexes
    <3>4. ToSet(def.indexes[i].columns) \subseteq DOMAIN def.columns
      BY <1>2, <3>3 DEF IsTable, IsIndex
    <3> QED BY <3>1, <3>2, <3>4
  <2> QED BY <1>1, <2>1, <2>2, <2>3 DEF IndexDone
<1> QED BY <1>3, <1>4

LEMMA PropertyStep ==
    ASSUME NEW s, NEW e, NEW st, HasKind(s, e, st), NEW t \in DOMAIN s.tables, NEW a, NEW b,
           PropertiesAfter(st, t, a, b), NEW k,
           OnProperty(st, t, k) \/ PropertyDone(s.tables[t], a, k)
    PROVE  PropertyDone(s.tables[t], b, k)
<1>1. PICK def : def = s.tables[t]
  OBVIOUS
<1>2. CASE st.op = "setProperties" /\ st.name = t
  <2>1. /\ DOMAIN b.props = DOMAIN a.props \cup DOMAIN st.props
        /\ \A l \in DOMAIN b.props :
             b.props[l] = IF l \in DOMAIN st.props THEN st.props[l] ELSE a.props[l]
    BY <1>2 DEF PropertiesAfter
  <2>2. CASE k \in DOMAIN st.props
    <3>1. st.props[k] = Stringify(def.props[k])
      BY <1>1, <1>2, <2>2 DEF HasKind, IsPropertyUp
    <3> QED BY <1>1, <2>1, <2>2, <3>1 DEF PropertyDone
  <2>3. CASE k \notin DOMAIN st.props
    <3>1. PropertyDone(def, a, k)
      BY <1>1, <2>3 DEF OnProperty
    <3> QED BY <1>1, <2>1, <2>3, <3>1 DEF PropertyDone
  <2> QED BY <2>2, <2>3
<1>3. CASE ~(st.op = "setProperties" /\ st.name = t)
  BY <1>3 DEF OnProperty, PropertiesAfter, PropertyDone
<1> QED BY <1>2, <1>3

\* A table that is created is as the goal wants it, but for indexes of its own.
LEMMA CreatedDone ==
    ASSUME NEW s, IsSchema(s), NEW e, NEW t \in Added(s, e) \cup Remade(s, e), NEW Q,
           t \in Added(s, e) => \A j \in DOMAIN s.tables[t].indexes : CreateIndex(t, j, s.tables[t].indexes[j]) \in Q,
           NEW is, is = StoredTable(s.tables[t])
    PROVE  TableDone(s, e, Q, t, is)
<1>1. PICK def : def = s.tables[t]
  OBVIOUS
<1>2. /\ is.key = def.key /\ DOMAIN is.columns = DOMAIN def.columns
      /\ \A c \in DOMAIN def.columns : is.columns[c] = StoredColumn(def.key, def.columns[c])
      /\ DOMAIN is.props = DOMAIN def.props
      /\ \A k \in DOMAIN def.props : is.props[k] = flattenProperties(def.props[k])
  BY <1>1 DEF StoredTable
<1>3. /\ DOMAIN is.indexes = {i \in DOMAIN def.indexes : def.indexes[i].type = "BITMAP"}
      /\ \A i \in DOMAIN is.indexes : is.indexes[i] = def.indexes[i]
  BY <1>1 DEF StoredTable, Restrict
<1>4. Placed(def, is.dist)
  BY <1>1 DEF Placed
<1>5. \A c : ColumnDone(def, is, c)
  BY <1>2 DEF ColumnDone
<1>6. ASSUME NEW i PROVE (\E st \in Q : OnIndex(st, t, i)) \/ IndexDone(def, WantedIndexes(s, e, t), is, i)
  <2>1. i \in DOMAIN is.indexes => ~diffIndex(def.indexes[i], is.indexes[i])
    BY <1>3 DEF diffIndex
  <2>2. CASE t \in Remade(s, e)
    BY <1>1, <1>3, <2>1, <2>2 DEF IndexDone, WantedIndexes
  <2>3. CASE t \notin Remade(s, e) /\ i \in DOMAIN def.indexes
    <3>1. PICK q : q = CreateIndex(t, i, def.indexes[i])
      OBVIOUS
    <3>2. q \in Q
      BY <1>1, <2>3, <3>1
    <3>3. OnIndex(q, t, i)
      BY <3>1 DEF OnIndex, CreateIndex
    <3> QED BY <3>2, <3>3
  <2>4. CASE t \notin Remade(s, e) /\ i \notin DOMAIN def.indexes
    BY <1>1, <1>3, <2>4 DEF IndexDone, WantedIndexes
  <2> QED BY <2>2, <2>3, <2>4
<1>7. \A k \in DOMAIN def.props : PropertyDone(def, is, k)
  BY <1>2 DEF PropertyDone
<1>8. SpecialDone(s, e, t, is)
  BY DEF SpecialDone, StoredTable
<1> QED BY <1>1, <1>2, <1>4, <1>5, <1>6, <1>7, <1>8 DEF TableDone

LEMMA TableStep ==
    ASSUME NEW s, IsSchema(s), NEW e, NEW st, HasKind(s, e, st), NEW t \in DOMAIN s.tables, NEW a, NEW b,
           TableAfter(st, t, a, b), NEW Q, NEW R, \A q \in Q : q = st \/ q \in R, Owed(s, e, st, R),
           TableDone(s, e, Q, t, a)
    PROVE  TableDone(s, e, R, t, b)
<1>1. PICK def : def = s.tables[t]
  OBVIOUS
<1>2. a.key = def.key /\ b.key = def.key /\ b.dist = a.dist /\ Placed(def, b.dist)
  BY <1>1 DEF TableAfter, TableDone
<1>3. ASSUME NEW c PROVE (\E q \in R : OnColumn(q, t, c)) \/ ColumnDone(def, b, c)
  BY <1>1, <1>2, ColumnStep DEF TableAfter, TableDone
<1>4. ASSUME NEW i PROVE (\E q \in R : OnIndex(q, t, i)) \/ IndexDone(def, WantedIndexes(s, e, t), b, i)
  BY <1>1, IndexStep DEF TableAfter, TableDone
<1>5. ASSUME NEW k \in DOMAIN def.props PROVE (\E q \in R : OnProperty(q, t, k)) \/ PropertyDone(def, b, k)
  BY <1>1, PropertyStep DEF TableAfter, TableDone
<1>6. ASSUME t \in Added(s, e) \cup Remade(s, e) PROVE b.special = def.special
  <2>1. t \notin Changed(s, e)
    BY <1>6 DEF Added, Remade, Changed, Between
  <2>2. ~(st.op \in ColumnOps /\ st.name = t)
    BY <2>1 DEF HasKind, IsColumnUp, ColumnOps
  <2> QED BY <1>1, <1>6, <2>2 DEF TableAfter, TableDone, SpecialDone
<1> QED BY <1>1, <1>2, <1>3, <1>4, <1>5, <1>6 DEF TableDone, SpecialDone

LEMMA TablesStep ==
    ASSUME NEW s \in Schemas, NEW e, NEW st, IsUp(s, e, st), NEW ts, NEW us, TablesAfter(st, ts, us),
           NEW Q, NEW R, \A q \in Q : q = st \/ q \in R, Owed(s, e, st, R), TablesDone(s, e, Q, ts)
    PROVE  TablesDone(s, e, R, us)
<1>1. NamesAfter(st, ts, us) /\ HasKind(s, e, st)
  BY NamesIn, UpKinds
<1>2. IsSchema(s) /\ DOMAIN s.tables \subseteq Tables /\ \A u \in Tables : OldName[u] \notin Tables
  BY SchemasAssumption
<1>3. Remade(s, e) \subseteq DOMAIN s.tables /\ Added(s, e) \subseteq DOMAIN s.tables
      /\ Removed(s, e) \cap DOMAIN s.tables = {}
  BY DEF Remade, Between, Added, Removed
<1>4. ASSUME NEW t \in DOMAIN s.tables PROVE t \in DOMAIN us \/ CreateTable(t, s.tables[t]) \in R
  <2>1. CASE t \in DOMAIN ts /\ t \notin DOMAIN us
    <3>1. st.op \in GoneOps /\ st.name = t
      BY <1>1, <2>1 DEF NamesAfter, GoneOps
    <3>2. TakesTable(s, e, st)
      BY <3>1, GoneUp
    <3>3. ~\E x \in Removed(s, e) : st = DropTable(x)
      BY <1>3, <3>1 DEF DropTable
    <3>4. ~\E u \in Remade(s, e) : st = DropOld(u)
      BY <1>2, <1>3, <3>1 DEF DropOld
    <3>5. st = Rename(t)
      BY <3>1, <3>2, <3>3, <3>4 DEF TakesTable, Rename
    <3> QED BY <1>2, <3>5 DEF Owed
  <2>2. CASE t \notin DOMAIN ts
    <3>1. CreateTable(t, s.tables[t]) \in R \/ st = CreateTable(t, s.tables[t])
      BY <2>2 DEF TablesDone
    <3>2. st = CreateTable(t, s.tables[t]) => t \in DOMAIN us
      BY <1>1 DEF NamesAfter, CreateTable
    <3> QED BY <3>1, <3>2
  <2> QED BY <2>1, <2>2
<1>5. ASSUME NEW x \in DOMAIN us
      PROVE  \/ x \in DOMAIN s.tables \/ DropTable(x) \in R
             \/ \E u \in Tables : x = OldName[u] /\ DropOld(u) \in R
  <2>1. CASE x \in DOMAIN ts
    <3>1. \A y : DropTable(y).op = "dropTableIfExists" /\ DropTable(y).name = y
      BY DEF DropTable
    <3>2. \A u : DropOld(u).op = "dropTable" /\ DropOld(u).name = OldName[u]
      BY DEF DropOld
    <3>3. st # DropTable(x)
      BY <1>1, <3>1 DEF NamesAfter
    <3>4. \A u : x = OldName[u] => st # DropOld(u)
      BY <1>1, <3>2 DEF NamesAfter
    <3> QED BY <2>1, <3>3, <3>4 DEF TablesDone
  <2>2. CASE x \notin DOMAIN ts /\ st.op = "createTable"
    BY <1>1, <1>3, <2>2 DEF NamesAfter, HasKind, IsTableUp
  <2>3. CASE x \notin DOMAIN ts /\ st.op # "createTable"
    <3>1. st.op = "rename" /\ st.to = x
      BY <1>1, <2>3 DEF NamesAfter
    <3>2. PICK u \in Remade(s, e) : st = Rename(u)
      BY <1>1, <3>1 DEF HasKind, IsTableUp
    <3>3. x = OldName[u] /\ u \in Tables
      BY <1>2, <1>3, <3>1, <3>2 DEF Rename
    <3>4. DropOld(u) \in R
      BY <3>2, <3>3 DEF Owed
    <3> QED BY <3>3, <3>4
  <2> QED BY <2>1, <2>2, <2>3
<1>6. ASSUME NEW t \in DOMAIN s.tables \cap DOMAIN us
      PROVE  Rename(t) \in R \/ TableDone(s, e, R, t, us[t])
  <2>1. CASE t \in DOMAIN ts
    <3>1. st # Rename(t)
      BY <1>1 DEF NamesAfter, Rename
    <3>2. Rename(t) \in R \/ TableDone(s, e, Q, t, ts[t])
      BY <2>1, <3>1 DEF TablesDone
    <3>3. TableAfter(st, t, ts[t], us[t])
      BY <1>1, <2>1 DEF NamesAfter
    <3> QED BY <1>1, <1>2, <3>2, <3>3, TableStep
  <2>2. CASE t \notin DOMAIN ts
    <3>1. ~(st.op = "rename" /\ st.to = t)
      <4> SUFFICES ASSUME st.op = "rename", st.to = t PROVE FALSE
        OBVIOUS
      <4>1. PICK u \in Remade(s, e) : st = Rename(u)
        BY <1>1 DEF HasKind, IsTableUp
      <4> QED BY <1>2, <1>3, <4>1 DEF Rename
    <3>2. st.op = "createTable" /\ st.name = t /\ us[t] = StoredTable(st.def)
      BY <1>1, <2>2, <3>1 DEF NamesAfter
    <3>3. t \in Added(s, e) \cup Remade(s, e) /\ st = CreateTable(t, s.tables[t])
      BY <1>1, <3>2 DEF HasKind, IsTableUp
    <3>4. us[t] = StoredTable(s.tables[t])
      BY <3>2, <3>3 DEF CreateTable
    <3>5. t \in Added(s, e) => \A j \in DOMAIN s.tables[t].indexes : CreateIndex(t, j, s.tables[t].indexes[j]) \in R
      BY <3>3 DEF Owed
    <3> QED BY <1>2, <3>3, <3>4, <3>5, CreatedDone
  <2> QED BY <2>1, <2>2
<1> QED BY <1>4, <1>5, <1>6 DEF TablesDone

LEMMA ViewsStep ==
    ASSUME NEW s, NEW e, NEW st, HasKind(s, e, st), NEW vs, NEW ws, ViewsAfter(st, vs, ws),
           NEW Q, NEW R, \A q \in Q : q = st \/ q \in R, ViewsDone(s, Q, vs)
    PROVE  ViewsDone(s, R, ws)
<1> SUFFICES ASSUME NEW v, ~\E q \in R : OnView(q, v) PROVE ViewDone(s, ws, v)
  BY DEF ViewsDone
<1>1. OnView(st, v) \/ ViewDone(s, vs, v)
  BY DEF ViewsDone
<1>2. CASE OnView(st, v)
  <2>1. st.op \in ViewOps /\ st.name = v
    BY <1>2 DEF OnView
  <2>2. CASE st.op \in {"createView", "replaceView"}
    <3>1. v \in DOMAIN s.views /\ st.def = s.views[v]
      BY <2>1, <2>2 DEF HasKind, IsViewStatement
    <3>2. ws = With(vs, v, st.def)
      BY <2>1, <2>2 DEF ViewsAfter
    <3>3. v \in DOMAIN ws /\ ws[v] = st.def
      BY <3>2 DEF With
    <3> QED BY <3>1, <3>3 DEF ViewDone
  <2>3. CASE st.op = "dropView"
    <3>1. v \notin DOMAIN s.views
      BY <2>1, <2>3 DEF HasKind, IsViewStatement
    <3>2. ws = Without(vs, v)
      BY <2>1, <2>3 DEF ViewsAfter
    <3>3. v \notin DOMAIN ws
      BY <3>2 DEF Without, Restrict
    <3> QED BY <3>1, <3>3 DEF ViewDone
  <2> QED BY <2>1, <2>2, <2>3 DEF ViewOps
<1>3. CASE ~OnView(st, v)
  <2>1. (v \in DOMAIN ws <=> v \in DOMAIN vs) /\ (v \in DOMAIN vs => ws[v] = vs[v])
    <3>1. CASE ws = vs
      BY <3>1
    <3>2. CASE st.op \in {"createView", "replaceView"} /\ ws = With(vs, st.name, st.def)
      <4>1. v # st.name
        BY <1>3, <3>2 DEF OnView, ViewOps
      <4> QED BY <3>2, <4>1 DEF With
    <3>3. CASE st.op = "dropView" /\ ws = Without(vs, st.name)
      <4>1. v # st.name
        BY <1>3, <3>3 DEF OnView, ViewOps
      <4> QED BY <3>3, <4>1 DEF Without, Restrict
    <3> QED BY <3>1, <3>2, <3>3 DEF ViewsAfter
  <2> QED BY <1>1, <1>3, <2>1 DEF ViewDone
<1> QED BY <1>2, <1>3

LEMMA MVsStep ==
    ASSUME NEW s, IsSchema(s), NEW e, NEW st, HasKind(s, e, st), NEW ms, NEW ns, MVsAfter(st, ms, ns),
           NEW Q, NEW R, \A q \in Q : q = st \/ q \in R, Owed(s, e, st, R), MVsDone(s, e, Q, ms)
    PROVE  MVsDone(s, e, R, ns)
<1>1. \A m, d : CreateMV(m, d).op = "createMV" /\ CreateMV(m, d).name = m /\ CreateMV(m, d).def = d
  BY DEF CreateMV
<1>2. \A m : DropMV(m).op = "dropMV" /\ DropMV(m).name = m
  BY DEF DropMV
<1>3. CASE st.op \notin MVOps /\ ns = ms
  BY <1>1, <1>2, <1>3 DEF MVsDone, MVOps
<1>4. CASE st.op = "createMV" /\ st.name \in DOMAIN ms /\ ns = ms
  BY <1>1, <1>2, <1>4 DEF MVsDone
<1>5. CASE st.op = "createMV" /\ st.name \notin DOMAIN ms /\ ns = With(ms, st.name, StoredMV(st.def))
  <2>1. st = CreateMV(st.name, s.mvs[st.name]) /\ st.name \in DOMAIN s.mvs
    BY <1>5 DEF HasKind, IsMVStatement, RebuiltMVs
  <2>2. PICK m : m = st.name
    OBVIOUS
  <2>3. DOMAIN ns = DOMAIN ms \cup {m} /\ ns[m] = StoredMV(s.mvs[m]) /\ \A x \in DOMAIN ms : x # m => ns[x] = ms[x]
    BY <1>1, <1>5, <2>1, <2>2 DEF With
  <2>4. MVDone(s, e, m, StoredMV(s.mvs[m]))
    <3>1. PICK x : x = s.mvs[m]
      OBVIOUS
    <3>2. IsMV(x)
      BY <2>1, <2>2, <3>1 DEF IsSchema
    <3>3. PICK f, g, h : x = [columns |-> f, refresh |-> g, dist |-> h]
      BY <3>2 DEF IsMV
    <3>4. PICK r : r = IF g = Null THEN "MANUAL" ELSE g
      OBVIOUS
    <3>5. PICK k : k = IF h.type = Null THEN NoDistribution ELSE h
      OBVIOUS
    <3>6. StoredMV(x) = [x EXCEPT !.refresh = r, !.dist = k]
      BY <3>3, <3>4, <3>5 DEF StoredMV
    <3>7. StoredMV(x) = [columns |-> f, refresh |-> r, dist |-> k]
      BY <3>3, <3>6
    <3>8. g = Null \/ diffMaterializedView(x, StoredMV(x)) = "none"
      BY <3>3, <3>4, <3>5, <3>7 DEF diffMaterializedView
    <3> QED BY <3>1, <3>3, <3>8 DEF MVDone
  <2> QED BY <1>1, <1>2, <1>5, <2>1, <2>2, <2>3, <2>4 DEF MVsDone
<1>6. CASE st.op = "dropMV" /\ ns = Without(ms, st.name)
  <2>1. st = DropMV(st.name)
    BY <1>6 DEF HasKind, IsMVStatement
  <2>2. DOMAIN ns = DOMAIN ms \ {st.name} /\ \A x \in DOMAIN ns : ns[x] = ms[x]
    BY <1>6 DEF Without, Restrict
  <2>3. st.name \in DOMAIN s.mvs => CreateMV(st.name, s.mvs[st.name]) \in R
    BY <2>1 DEF Owed
  <2> QED BY <1>1, <1>2, <1>6, <2>2, <2>3 DEF MVsDone
<1>7. CASE /\ st.op = "alterRefresh" /\ st.name \in DOMAIN ms
           /\ ns = [ms EXCEPT ![st.name].refresh = st.refresh]
  <2>1. st.name \in RefreshedMVs(s, e)
    BY <1>7 DEF HasKind, IsMVStatement
  <2>2. DOMAIN ns = DOMAIN ms /\ \A x \in DOMAIN ms : x # st.name => ns[x] = ms[x]
    BY <1>7
  <2>3. MVDone(s, e, st.name, ns[st.name]) /\ st.name \in DOMAIN s.mvs
    BY <2>1 DEF MVDone, RefreshedMVs
  <2> QED BY <1>1, <1>2, <1>7, <2>2, <2>3 DEF MVsDone
<1> QED BY <1>3, <1>4, <1>5, <1>6, <1>7 DEF MVsAfter

LEMMA GoalStep ==
    ASSUME NEW s \in Schemas, NEW e, NEW st, IsUp(s, e, st), NEW d, NEW n, HasEffect(st, d, n),
           NEW Q, NEW R, \A q \in Q : q = st \/ q \in R, Owed(s, e, st, R), GoalOf(s, e, Q, d)
    PROVE  GoalOf(s, e, R, n)
<1>1. HasKind(s, e, st) /\ IsSchema(s)
  BY UpKinds, SchemasAssumption
<1>2. TablesDone(s, e, R, n.tables)
  BY TablesStep DEF GoalOf, HasEffect
<1>3. ViewsDone(s, R, n.views)
  BY <1>1, ViewsStep DEF GoalOf, HasEffect
<1>4. MVsDone(s, e, R, n.mvs)
  BY <1>1, MVsStep DEF GoalOf, HasEffect
<1> QED BY <1>2, <1>3, <1>4 DEF GoalOf

(***************************************************************************)
(* Every step keeps the goal.                                              *)
(***************************************************************************)
\* On the way up, when the plan was made from a full answer, all that no statement
\* left is about is as the goal wants it.
GoalInv ==
  plans > 0 /\ ~rolling /\ plan.lost = NothingLost => GoalOf(plan.goal, plan.before, ToSet(todo), db)

LEMMA TableWritten ==
    ASSUME NEW s, NEW e, NEW Q, NEW t, NEW a, NEW b, TableDone(s, e, Q, t, a),
           b.columns = a.columns, b.key = a.key, b.props = a.props, b.indexes = a.indexes, b.dist = a.dist,
           b.special = a.special
    PROVE  TableDone(s, e, Q, t, b)
<1>1. PICK def : def = s.tables[t]
  OBVIOUS
<1>2. b.key = def.key /\ Placed(def, b.dist)
  BY <1>1 DEF TableDone
<1>3. \A c : ColumnDone(def, a, c) => ColumnDone(def, b, c)
  BY DEF ColumnDone
<1>4. \A i : IndexDone(def, WantedIndexes(s, e, t), a, i) => IndexDone(def, WantedIndexes(s, e, t), b, i)
  BY DEF IndexDone
<1>5. \A k : PropertyDone(def, a, k) => PropertyDone(def, b, k)
  BY DEF PropertyDone
<1>6. SpecialDone(s, e, t, b)
  BY DEF TableDone, SpecialDone
<1> QED BY <1>1, <1>2, <1>3, <1>4, <1>5, <1>6 DEF TableDone

LEMMA GoalWritten ==
    ASSUME NEW s, NEW e, NEW Q, NEW t, NEW r, NEW d, NEW n, HasRow(t, r, d, n), GoalOf(s, e, Q, d)
    PROVE  GoalOf(s, e, Q, n)
<1>1. n.views = d.views /\ n.mvs = d.mvs /\ DOMAIN n.tables = DOMAIN d.tables
  BY DEF HasRow
<1>2. ASSUME NEW x \in DOMAIN d.tables, TableDone(s, e, Q, x, d.tables[x])
      PROVE  TableDone(s, e, Q, x, n.tables[x])
  BY <1>2, TableWritten DEF HasRow
<1>3. TablesDone(s, e, Q, n.tables)
  BY <1>1, <1>2 DEF GoalOf, TablesDone
<1> QED BY <1>1, <1>3 DEF GoalOf

LEMMA GoalExecuted ==
    ASSUME TypeInv, OrderInv, GoalInv, Execute, plans > 0, ~rolling, plan.lost = NothingLost
    PROVE  GoalOf(plan.goal, plan.before, ToSet(todo'), db')
<1>1. PICK s, e, x, d, n : s = plan.goal /\ e = plan.before /\ x = todo /\ d = db /\ n = db'
  OBVIOUS
<1>2. PICK st : st = Head(x)
  OBVIOUS
<1>3. s \in Schemas /\ IsDb(d)
  BY <1>1 DEF TypeInv
<1>4. IsUp(s, e, st) /\ x # <<>> /\ IsSeq(x)
  BY <1>1, <1>2, NextStatement DEF Execute
<1>5. HasEffect(st, d, n)
  BY <1>1, <1>2, Effects DEF Execute, TypeInv
<1>6. Paid(s, e, x) /\ GoalOf(s, e, ToSet(x), d)
  BY <1>1 DEF OrderInv, GoalInv
<1>7. Owed(s, e, st, ToSet(Tail(x)))
  BY <1>2, <1>4, <1>6, OwedIs
<1>8. \A q \in ToSet(x) : q = st \/ q \in ToSet(Tail(x))
  BY <1>2, <1>4, TailIs
<1>9. PICK Q, R : Q = ToSet(x) /\ R = ToSet(Tail(x))
  OBVIOUS
<1>10. GoalOf(s, e, R, n)
  BY <1>3, <1>4, <1>5, <1>6, <1>7, <1>8, <1>9, GoalStep
<1>11. R \subseteq Q
  BY <1>4, <1>9, TailIs
<1>12. ToSet(todo') \in {Q, R}
  BY <1>1, <1>9 DEF Execute
<1> QED BY <1>1, <1>10, <1>11, <1>12, GoalWider

LEMMA GoalStays ==
    ASSUME TypeInv, OrderInv, GoalInv, [Next]_vars
    PROVE  GoalInv'
<1>1. ASSUME NEW s \in Schemas, NEW lost \in Losses, Plan(s, lost) PROVE GoalInv'
  <2> SUFFICES ASSUME lost = NothingLost PROVE GoalInv'
    BY <1>1, PlanFields DEF GoalInv
  <2>1. /\ plan'.goal = s /\ plan'.before = Seen(db) /\ db' = db /\ todo' = plan'.up
        /\ IsPlan(plan'.goal, plan'.before, plan')
    BY <1>1, PlanFields DEF Seen
  <2>2. PICK e, d, Q : e = Seen(db) /\ d = db /\ Q = ToSet(plan'.up)
    OBVIOUS
  <2>3. IsSchema(s) /\ IsDb(d)
    BY <2>2, SchemasAssumption DEF TypeInv
  <2>4. \A st : IsUp(s, e, st) => st \in Q
    BY <2>1, <2>2 DEF IsPlan
  <2>5. GoalOf(s, e, Q, d)
    BY <2>2, <2>3, <2>4, GoalPlanned
  <2> QED BY <2>1, <2>2, <2>5 DEF GoalInv
<1>2. CASE Execute
  <2>1. plans' = plans /\ plan' = plan /\ rolling' = rolling
    BY <1>2 DEF Execute
  <2> QED BY <1>2, <2>1, GoalExecuted DEF GoalInv
<1>3. CASE StartOver
  <2>1. plans' = plans /\ plan' = plan /\ rolling' = rolling /\ db' = db
    BY <1>3 DEF StartOver
  <2>2. ~rolling => todo' = plan.up /\ ToSet(todo) \subseteq ToSet(plan.up)
    BY <1>3 DEF StartOver, TypeInv, Now
  <2> QED BY <2>1, <2>2, GoalWider DEF GoalInv
<1>4. CASE Rollback
  BY <1>4 DEF Rollback, GoalInv
<1>5. ASSUME NEW t \in Tables, NEW r \in Rows, Write(t, r) PROVE GoalInv'
  <2>1. t \in DOMAIN db.tables /\ db' = [db EXCEPT !.tables[t].rows = @ \cup {r}]
    BY <1>5 DEF Write, HasTable
  <2>2. HasRow(t, r, db, db')
    BY <2>1, WriteIs DEF TypeInv
  <2>3. plans' = plans /\ plan' = plan /\ rolling' = rolling /\ todo' = todo
    BY <1>5 DEF Write
  <2> QED BY <2>2, <2>3, GoalWritten DEF GoalInv
<1>6. CASE UNCHANGED <<plans, plan, todo, rolling, db>>
  BY <1>6 DEF GoalInv
<1>7. Fail \/ Resume \/ UNCHANGED vars => UNCHANGED <<plans, plan, todo, rolling, db>>
  BY DEF Fail, Resume, vars
<1> QED BY <1>1, <1>2, <1>3, <1>4, <1>5, <1>6, <1>7 DEF Next

LEMMA GoalKept == Spec => [](TypeInv /\ OrderInv /\ GoalInv)
<1>1. Init => TypeInv /\ OrderInv /\ GoalInv
  <2>1. Init => plans = 0
    BY DEF Init
  <2>2. plans = 0 => GoalInv
    BY DEF GoalInv
  <2> QED BY <2>1, <2>2, TypeStarts, OrderStarts
<1>2. TypeInv /\ OrderInv /\ GoalInv /\ [Next]_vars => (TypeInv /\ OrderInv /\ GoalInv)'
  BY TypeStays, OrderStays, GoalStays
<1> QED BY <1>1, <1>2, PTL DEF Spec

(***************************************************************************)
(* A plan that was executed to its end.                                    *)
(***************************************************************************)
HasEnded ==
  /\ IsPlan(plan.goal, plan.before, plan) /\ GoalOf(plan.goal, plan.before, {}, db)
  /\ Recreated = Remade(plan.goal, plan.before)
  /\ RefreshedMVs(plan.goal, plan.before) \subseteq Refreshed
  /\ Made \subseteq Added(plan.goal, plan.before) \cup Remade(plan.goal, plan.before)

LEMMA EndIs ==
    ASSUME TypeInv, GoalInv, Reached, plan.lost = NothingLost
    PROVE  HasEnded
<1>1. plans > 0 /\ todo = <<>> /\ ~rolling /\ plan.goal \in Schemas
  BY DEF Reached, TypeInv
<1>2. PICK s, e, p : s = plan.goal /\ e = plan.before /\ p = plan
  OBVIOUS
<1>3. IsPlan(s, e, p)
  BY <1>1, <1>2 DEF TypeInv, Planned
<1>4. GoalOf(s, e, {}, db)
  BY <1>1, <1>2, NoneIsSeq DEF GoalInv
<1>5. \A st : IsUp(s, e, st) <=> \E i \in DOMAIN p.up : st = p.up[i]
  BY <1>3 DEF IsPlan, ToSet
<1>6. IsSchema(s) /\ DOMAIN s.tables \subseteq Tables
  BY <1>1, <1>2, SchemasAssumption
<1>7. ASSUME NEW t \in Recreated PROVE t \in Remade(s, e)
  <2>1. PICK i \in DOMAIN p.up : p.up[i].op = "rename" /\ p.up[i].name = t
    BY <1>2 DEF Recreated
  <2>2. HasKind(s, e, p.up[i])
    BY <1>5, UpKinds
  <2> QED BY <2>1, <2>2 DEF HasKind, IsTableUp
<1>8. ASSUME NEW t \in Remade(s, e) PROVE t \in Recreated
  <2>1. IsUp(s, e, Rename(t))
    BY DEF IsUp, Recreation
  <2>2. PICK i \in DOMAIN p.up : Rename(t) = p.up[i]
    BY <1>5, <2>1
  <2>3. t \in Tables
    BY <1>6 DEF Remade, Between
  <2> QED BY <1>2, <2>2, <2>3 DEF Recreated, Rename
<1>9. ASSUME NEW m \in RefreshedMVs(s, e) PROVE m \in Refreshed
  <2>1. IsUp(s, e, AlterRefresh(m, s.mvs[m]))
    BY DEF IsUp, IsMVUp
  <2>2. PICK i \in DOMAIN p.up : AlterRefresh(m, s.mvs[m]) = p.up[i]
    BY <1>5, <2>1
  <2>3. p.up[i].op = "alterRefresh" /\ p.up[i].name = m
    BY <2>2 DEF AlterRefresh
  <2> QED BY <1>2, <2>3 DEF Refreshed
<1>10. ASSUME NEW t \in Made PROVE t \in Added(s, e) \cup Remade(s, e)
  <2>1. PICK i \in DOMAIN p.up : p.up[i].op = "createTable" /\ p.up[i].name = t
    BY <1>2 DEF Made
  <2>2. HasKind(s, e, p.up[i])
    BY <1>5, UpKinds
  <2> QED BY <2>1, <2>2 DEF HasKind, IsTableUp
<1> QED BY <1>2, <1>3, <1>4, <1>7, <1>8, <1>9, <1>10 DEF HasEnded

\* A table as the goal wants it.
IsWanted(s, e, t, is) ==
  LET def == s.tables[t] IN
  /\ is.columns = StoredTable(def).columns /\ is.key = def.key /\ Placed(def, is.dist)
  /\ def.dist.type # Null => is.dist.type = def.dist.type
  /\ def.dist.type = "HASH" => is.dist = def.dist
  /\ \A k \in DOMAIN def.props : is.props[k] \in {Stringify(def.props[k]), flattenProperties(def.props[k])}
  /\ DOMAIN def.props \subseteq DOMAIN is.props
  /\ DOMAIN is.indexes = WantedIndexes(s, e, t)
  /\ \A i \in DOMAIN is.indexes : ~diffIndex(def.indexes[i], is.indexes[i])
  /\ SpecialDone(s, e, t, is)

LEMMA TableReached ==
    ASSUME NEW s, IsSchema(s), NEW e, NEW t \in DOMAIN s.tables, NEW is, IsStoredTable(is),
           TableDone(s, e, {}, t, is)
    PROVE  IsWanted(s, e, t, is)
<1>1. PICK def : def = s.tables[t]
  OBVIOUS
<1>2. /\ is.key = def.key /\ Placed(def, is.dist)
      /\ \A c : ColumnDone(def, is, c)
      /\ \A i : IndexDone(def, WantedIndexes(s, e, t), is, i)
      /\ \A k \in DOMAIN def.props : PropertyDone(def, is, k)
  BY <1>1 DEF TableDone
<1>3. is.columns = StoredTable(def).columns
  <2>1. PICK f, g : f = is.columns /\ g = StoredTable(def).columns
    OBVIOUS
  <2>2. f = [c \in DOMAIN f |-> f[c]]
    BY <2>1 DEF IsStoredTable, HasStoredParts, IsNaming
  <2>3. g = [c \in DOMAIN def.columns |-> StoredColumn(def.key, def.columns[c])]
    BY <2>1 DEF StoredTable
  <2>4. DOMAIN f = DOMAIN def.columns /\ \A c \in DOMAIN f : f[c] = StoredColumn(def.key, def.columns[c])
    BY <1>2, <2>1 DEF ColumnDone
  <2> QED BY <2>1, <2>2, <2>3, <2>4
<1>4. (def.dist.type # Null => is.dist.type = def.dist.type) /\ (def.dist.type = "HASH" => is.dist = def.dist)
  <2>1. PICK D, E : D = def.dist /\ E = is.dist
    OBVIOUS
  <2>2. IsDistribution(D) /\ IsDistribution(E)
    BY <1>1, <2>1 DEF IsSchema, IsTable, IsStoredTable, HasStoredParts
  <2>3. CASE StoredTable(def).dist = E
    <3>1. D.type # Null => E = D
      BY <2>1, <2>3 DEF StoredTable
    <3> QED BY <2>1, <3>1 DEF Null
  <2>4. CASE ~DistributionChanged(D, IF E.buckets = NoBuckets THEN NoDistribution ELSE E) /\ D.type # Null
    <3>1. E.buckets # NoBuckets
      BY <2>4 DEF DistributionChanged, NoDistribution
    <3>2. ~DistributionChanged(D, E)
      BY <2>4, <3>1
    <3> QED BY <2>1, <2>2, <2>4, <3>2 DEF DistributionChanged, IsDistribution
  <2>5. D.type = Null => D.type # "HASH"
    BY DEF Null
  <2> QED BY <1>2, <2>1, <2>3, <2>4, <2>5 DEF Placed
<1>5. /\ \A k \in DOMAIN def.props : is.props[k] \in {Stringify(def.props[k]), flattenProperties(def.props[k])}
      /\ DOMAIN def.props \subseteq DOMAIN is.props
  BY <1>2 DEF PropertyDone
<1>6. WantedIndexes(s, e, t) = DOMAIN is.indexes
  <2>1. \A i : i \in DOMAIN is.indexes <=> i \in WantedIndexes(s, e, t)
    BY <1>2 DEF IndexDone
  <2> QED BY <2>1
<1>7. \A i \in DOMAIN is.indexes : ~diffIndex(def.indexes[i], is.indexes[i])
  BY <1>2 DEF IndexDone
<1>8. SpecialDone(s, e, t, is)
  BY DEF TableDone
<1> QED BY <1>1, <1>2, <1>3, <1>4, <1>5, <1>6, <1>7, <1>8 DEF IsWanted

HasReached ==
  /\ DOMAIN db.tables = DOMAIN plan.goal.tables
  /\ \A t \in DOMAIN db.tables : IsWanted(plan.goal, plan.before, t, db.tables[t])
  /\ DOMAIN db.views = DOMAIN plan.goal.views
  /\ \A v \in DOMAIN db.views : db.views[v].columns = plan.goal.views[v].columns
  /\ DOMAIN db.mvs = DOMAIN plan.goal.mvs
  /\ \A m \in DOMAIN db.mvs : MVDone(plan.goal, plan.before, m, db.mvs[m])

LEMMA GoalIsReached ==
    ASSUME TypeInv, HasEnded
    PROVE  HasReached
<1>1. PICK s, e, d : s = plan.goal /\ e = plan.before /\ d = db
  OBVIOUS
<1>2. IsSchema(s) /\ IsDb(d) /\ GoalOf(s, e, {}, d)
  BY <1>1, SchemasAssumption DEF TypeInv, HasEnded
<1>3. DOMAIN d.tables = DOMAIN s.tables /\ \A t \in DOMAIN d.tables : TableDone(s, e, {}, t, d.tables[t])
  BY <1>2 DEF GoalOf, TablesDone
<1>4. \A t \in DOMAIN d.tables : IsWanted(s, e, t, d.tables[t])
  BY <1>2, <1>3, TableReached DEF IsDb
<1>5. DOMAIN d.views = DOMAIN s.views /\ \A v \in DOMAIN d.views : d.views[v].columns = s.views[v].columns
  <2>1. \A v : ViewDone(s, d.views, v)
    BY <1>2 DEF GoalOf, ViewsDone
  <2>2. \A v : v \in DOMAIN d.views <=> v \in DOMAIN s.views
    BY <2>1 DEF ViewDone
  <2>3. \A v \in DOMAIN d.views : d.views[v].columns = s.views[v].columns
    BY <2>1 DEF ViewDone
  <2> QED BY <2>2, <2>3
<1>6. DOMAIN d.mvs = DOMAIN s.mvs /\ \A m \in DOMAIN d.mvs : MVDone(s, e, m, d.mvs[m])
  BY <1>2 DEF GoalOf, MVsDone
<1> QED BY <1>1, <1>3, <1>4, <1>5, <1>6 DEF HasReached

LEMMA ReachedHolds ==
    ASSUME TypeInv, GoalInv
    PROVE  GoalReached
<1> SUFFICES ASSUME Reached, plan.lost = NothingLost PROVE GoalReached
  BY DEF GoalReached
<1>1. HasEnded /\ HasReached
  BY EndIs, GoalIsReached
<1>2. \A t \in DOMAIN db.tables :
         LET is == db.tables[t]
             def == plan.goal.tables[t]
             created == StoredTable(def)
         IN  /\ is.columns = created.columns /\ is.key = created.key
             /\ t \in Made => is.special = created.special
             /\ def.dist.type # Null => is.dist.type = def.dist.type
             /\ def.dist.type = "HASH" => is.dist = def.dist
             /\ \A k \in DOMAIN def.props : is.props[k].text = def.props[k].text
             /\ LET indexes == IF t \in Recreated THEN created.indexes ELSE def.indexes IN
                /\ DOMAIN is.indexes = DOMAIN indexes
                /\ \A i \in DOMAIN indexes : ~diffIndex(indexes[i], is.indexes[i])
  <2> TAKE t \in DOMAIN db.tables
  <2>1. PICK s, e, is : s = plan.goal /\ e = plan.before /\ is = db.tables[t]
    OBVIOUS
  <2>2. PICK def, created : def = s.tables[t] /\ created = StoredTable(def)
    OBVIOUS
  <2>3. PICK indexes : indexes = IF t \in Recreated THEN created.indexes ELSE def.indexes
    OBVIOUS
  <2>4. IsWanted(s, e, t, is) /\ Recreated = Remade(s, e)
    BY <1>1, <2>1 DEF HasEnded, HasReached
  <2>5. /\ is.columns = created.columns /\ is.key = def.key
        /\ def.dist.type # Null => is.dist.type = def.dist.type
        /\ def.dist.type = "HASH" => is.dist = def.dist
        /\ \A k \in DOMAIN def.props : is.props[k] \in {Stringify(def.props[k]), flattenProperties(def.props[k])}
        /\ DOMAIN is.indexes = WantedIndexes(s, e, t)
        /\ \A i \in DOMAIN is.indexes : ~diffIndex(def.indexes[i], is.indexes[i])
    BY <2>2, <2>4 DEF IsWanted
  <2>6. created.key = def.key
    BY <2>2 DEF StoredTable
  <2>7. \A k \in DOMAIN def.props : is.props[k].text = def.props[k].text
    BY <2>5 DEF Stringify, flattenProperties
  <2>8. /\ DOMAIN created.indexes = {i \in DOMAIN def.indexes : def.indexes[i].type = "BITMAP"}
        /\ \A i \in DOMAIN created.indexes : created.indexes[i] = def.indexes[i]
    BY <2>2 DEF StoredTable, Restrict
  <2>9. DOMAIN indexes = WantedIndexes(s, e, t) /\ \A i \in DOMAIN indexes : indexes[i] = def.indexes[i]
    BY <2>2, <2>3, <2>4, <2>8 DEF WantedIndexes
  <2>10. DOMAIN is.indexes = DOMAIN indexes /\ \A i \in DOMAIN indexes : ~diffIndex(indexes[i], is.indexes[i])
    BY <2>5, <2>9
  <2>11. t \in Made => is.special = created.special
    <3>1. created.special = def.special
      BY <2>2 DEF StoredTable
    <3>2. t \in Made => t \in Added(s, e) \cup Remade(s, e)
      BY <1>1, <2>1 DEF HasEnded
    <3> QED BY <2>2, <2>4, <3>1, <3>2 DEF IsWanted, SpecialDone
  <2> QED BY <2>1, <2>2, <2>3, <2>5, <2>6, <2>7, <2>10, <2>11
<1>3. ASSUME NEW m \in DOMAIN db.mvs
      PROVE  \/ db.mvs[m].columns = plan.goal.mvs[m].columns \/ m \in Refreshed
             \/ plan.goal.mvs[m].refresh = Null
  <2>1. MVDone(plan.goal, plan.before, m, db.mvs[m]) /\ RefreshedMVs(plan.goal, plan.before) \subseteq Refreshed
    BY <1>1 DEF HasEnded, HasReached
  <2> QED BY <2>1 DEF MVDone, diffMaterializedView
<1>4. /\ DOMAIN db.tables = DOMAIN plan.goal.tables
      /\ \A v \in DOMAIN db.views : db.views[v].columns = plan.goal.views[v].columns
      /\ DOMAIN db.views = DOMAIN plan.goal.views /\ DOMAIN db.mvs = DOMAIN plan.goal.mvs
  BY <1>1 DEF HasReached
<1> QED BY <1>2, <1>3, <1>4 DEF GoalReached

\* A migration that was planned from a full answer and executed to its end, however
\* often a statement failed or was executed again, and whatever plans made from an
\* answer with a part missing did before, has made the tables, columns, keys,
\* distributions, properties, indexes, views and materialized views of its goal, and
\* has left no other; a table it made has the special columns of its definition.
THEOREM GoalIsReachedAlways == Spec => []GoalReached
<1>1. TypeInv /\ OrderInv /\ GoalInv => GoalReached
  BY ReachedHolds
<1> QED BY <1>1, GoalKept, PTL

(***************************************************************************)
(* The differ after a migration.                                           *)
(***************************************************************************)
\* A stored column does not differ from its definition.
LEMMA StoredSame ==
    ASSUME NEW key, NEW col, IsColumn(col)
    PROVE  diffColumn(col, StoredColumn(key, col), key = "PRIMARY") = {}
<1>1. PICK x : x = StoredColumn(key, col)
  OBVIOUS
<1>2. PICK default : default = IF key = "PRIMARY" THEN Null ELSE col.default
  OBVIOUS
<1>3. x = [type |-> Spelled(col.type), nullable |-> col.nullable, default |-> default]
  BY <1>1, <1>2, StoredColumnIs
<1>4. normalizeDataType(x.type) = normalizeDataType(col.type) /\ x.nullable = col.nullable
  BY <1>3, Spelling DEF IsColumn
<1>5. key # "PRIMARY" => x.default = col.default
  BY <1>2, <1>3
<1> QED BY <1>1, <1>4, <1>5 DEF diffColumn

\* What the differ still finds in a table that is as the goal wants it.
IsSettled(s, e, t, old) ==
  LET def == s.tables[t]
      change == diffTable(def, old)
  IN  /\ change.columns = NoChanges /\ ~change.keyChange
      /\ change.distributionChange => def.dist.buckets = NoBuckets
      /\ \A k \in change.propertyChanges : def.props[k].list
      /\ change.indexes.remove = {} /\ change.indexes.modify = {}
      /\ \A i \in change.indexes.add : t \in Remade(s, e) /\ def.indexes[i].type # "BITMAP"

LEMMA TableSettled ==
    ASSUME NEW s, IsSchema(s), NEW e, NEW t \in DOMAIN s.tables, NEW is, IsWanted(s, e, t, is),
           NEW old, old.columns = is.columns, old.key = is.key, old.props = is.props,
           old.indexes = is.indexes,
           old.dist = IF is.dist.buckets = NoBuckets THEN NoDistribution ELSE is.dist
    PROVE  IsSettled(s, e, t, old)
<1>1. PICK def : def = s.tables[t]
  OBVIOUS
<1>2. PICK change : change = diffTable(def, old)
  OBVIOUS
<1>3. IsTable(def)
  BY <1>1 DEF IsSchema
<1>4. /\ old.columns = StoredTable(def).columns /\ old.key = def.key
      /\ Placed(def, is.dist)
      /\ \A k \in DOMAIN def.props : old.props[k] \in {Stringify(def.props[k]), flattenProperties(def.props[k])}
      /\ DOMAIN def.props \subseteq DOMAIN old.props
      /\ DOMAIN old.indexes = WantedIndexes(s, e, t)
      /\ \A i \in DOMAIN old.indexes : ~diffIndex(def.indexes[i], old.indexes[i])
  BY <1>1 DEF IsWanted
<1>5. change.columns = NoChanges
  <2>1. DOMAIN old.columns = DOMAIN def.columns
    BY <1>4 DEF StoredTable
  <2>2. \A c \in DOMAIN def.columns : old.columns[c] = StoredColumn(def.key, def.columns[c])
    BY <1>4 DEF StoredTable
  <2>3. \A c \in DOMAIN def.columns : diffColumn(def.columns[c], old.columns[c], def.key = "PRIMARY") = {}
    <3> TAKE c \in DOMAIN def.columns
    <3>1. PICK key, col : key = def.key /\ col = def.columns[c]
      OBVIOUS
    <3>2. IsColumn(col)
      BY <1>3, <3>1 DEF IsTable
    <3>3. diffColumn(col, StoredColumn(key, col), key = "PRIMARY") = {}
      BY <3>2, StoredSame
    <3> QED BY <2>2, <3>1, <3>3
  <2>4. /\ change.columns.add = DOMAIN def.columns \ DOMAIN old.columns
        /\ change.columns.remove = DOMAIN old.columns \ DOMAIN def.columns
        /\ change.columns.modify = {c \in DOMAIN def.columns \cap DOMAIN old.columns :
             diffColumn(def.columns[c], old.columns[c], def.key = "PRIMARY") # {}}
    BY <1>2, DiffTableIs
  <2>5. change.columns.add = {} /\ change.columns.remove = {} /\ change.columns.modify = {}
    BY <2>1, <2>3, <2>4
  <2>6. change.columns = [add |-> change.columns.add, remove |-> change.columns.remove,
                          modify |-> change.columns.modify]
    BY <1>2 DEF diffTable, Changes
  <2> QED BY <2>5, <2>6 DEF NoChanges
<1>6. ~change.keyChange /\ change.distributionChange = DistributionChanged(def.dist, old.dist)
  <2>1. change.keyChange = (def.key # old.key) /\ change.distributionChange = DistributionChanged(def.dist, old.dist)
    BY <1>2, DiffTableIs
  <2> QED BY <1>4, <2>1
<1>7. DistributionChanged(def.dist, old.dist) => def.dist.buckets = NoBuckets
  <2> SUFFICES ASSUME DistributionChanged(def.dist, old.dist), def.dist.buckets # NoBuckets PROVE FALSE
    OBVIOUS
  <2>1. CASE StoredTable(def).dist = is.dist
    <3>1. def.dist.type # Null
      BY DEF DistributionChanged
    <3>2. is.dist = def.dist
      BY <2>1, <3>1 DEF StoredTable
    <3> QED BY <3>2 DEF DistributionChanged
  <2>2. CASE ~DistributionChanged(def.dist, old.dist)
    BY <2>2
  <2> QED BY <1>4, <2>1, <2>2 DEF Placed
<1>8. ASSUME NEW k \in change.propertyChanges PROVE def.props[k].list
  <2>1. k \in diffProperties(def, old)
    BY <1>2, DiffTableIs
  <2>2. k \in DOMAIN def.props /\ old.props[k] # Stringify(def.props[k])
    BY <1>4, <2>1 DEF diffProperties
  <2>3. flattenProperties(def.props[k]) # Stringify(def.props[k])
    BY <1>4, <2>2
  <2>4. IsProperty(def.props[k])
    BY <1>3, <2>2 DEF IsTable
  <2> QED BY <2>3, <2>4 DEF flattenProperties, Stringify, IsProperty
<1>9. /\ change.indexes.remove = {} /\ change.indexes.modify = {}
      /\ \A i \in change.indexes.add : t \in Remade(s, e) /\ def.indexes[i].type # "BITMAP"
  <2>1. /\ change.indexes.add = DOMAIN def.indexes \ DOMAIN old.indexes
        /\ change.indexes.remove = DOMAIN old.indexes \ DOMAIN def.indexes
        /\ change.indexes.modify = {i \in DOMAIN def.indexes \cap DOMAIN old.indexes :
             diffIndex(def.indexes[i], old.indexes[i])}
    BY <1>2, DiffTableIs
  <2> QED BY <1>1, <1>4, <2>1 DEF WantedIndexes
<1> QED BY <1>1, <1>2, <1>5, <1>6, <1>7, <1>8, <1>9 DEF IsSettled

LEMMA ReachedSettles ==
    ASSUME TypeInv, GoalInv
    PROVE  Settled
<1> SUFFICES ASSUME Reached, plan.lost = NothingLost PROVE Settled
  BY DEF Settled
<1>1. HasEnded /\ HasReached
  BY EndIs, GoalIsReached
<1>2. PICK s, b, d, e, diff : s = plan.goal /\ b = plan.before /\ d = db /\ e = Seen(db) /\ diff = diffSchema(s, e)
  OBVIOUS
<1>3. IsSchema(s) /\ IsDb(d) /\ e = Seen(d)
  BY <1>2, SchemasAssumption DEF TypeInv
<1>4. /\ DOMAIN e.tables = DOMAIN s.tables /\ DOMAIN e.views = DOMAIN s.views /\ DOMAIN e.mvs = DOMAIN s.mvs
      /\ DOMAIN d.tables = DOMAIN s.tables /\ DOMAIN d.views = DOMAIN s.views /\ e.mvs = d.mvs
  BY <1>1, <1>2, <1>3, IntrospectIs DEF HasReached
<1>5. /\ diff.tables.add = Added(s, e) /\ diff.tables.remove = Removed(s, e)
      /\ diff.tables.modify = Remade(s, e) \cup Changed(s, e)
      /\ diff.views.add = DOMAIN s.views \ DOMAIN e.views
      /\ diff.views.remove = DOMAIN e.views \ DOMAIN s.views
      /\ diff.views.modify = {v \in DOMAIN s.views \cap DOMAIN e.views : diffView(s.views[v], e.views[v])}
      /\ diff.mvs.add = DOMAIN s.mvs \ DOMAIN e.mvs
      /\ diff.mvs.remove = DOMAIN e.mvs \ DOMAIN s.mvs
      /\ diff.mvs.modify = {m \in DOMAIN s.mvs \cap DOMAIN e.mvs : diffMaterializedView(s.mvs[m], e.mvs[m]) # "none"}
  BY <1>2, DiffSchemaIs
<1>6. \A kind \in {"tables", "views", "mvs"} : diff[kind].add = {} /\ diff[kind].remove = {}
  <2>1. /\ diff.tables.add = {} /\ diff.tables.remove = {}
        /\ diff.views.add = {} /\ diff.views.remove = {} /\ diff.mvs.add = {} /\ diff.mvs.remove = {}
    BY <1>4, <1>5 DEF Added, Removed
  <2> QED BY <2>1
<1>7. ASSUME NEW t \in diff.tables.modify PROVE IsSettled(s, b, t, e.tables[t])
  <2>1. t \in DOMAIN d.tables /\ t \in DOMAIN s.tables
    BY <1>4, <1>5 DEF Remade, Changed, Between
  <2>2. PICK is, old : is = d.tables[t] /\ old = e.tables[t]
    OBVIOUS
  <2>3. IsWanted(s, b, t, is)
    BY <1>1, <1>2, <2>1, <2>2 DEF HasReached
  <2>4. /\ old.columns = is.columns /\ old.key = is.key /\ old.props = is.props /\ old.indexes = is.indexes
        /\ old.dist = IF is.dist.buckets = NoBuckets THEN NoDistribution ELSE is.dist
    BY <1>3, <2>1, <2>2, IntrospectIs
  <2> QED BY <1>3, <2>1, <2>2, <2>3, <2>4, TableSettled
<1>8. \A t \in diff.tables.modify :
             LET def == s.tables[t]
                 change == diffTable(def, e.tables[t])
             IN  /\ change.columns = NoChanges /\ ~change.keyChange
                 /\ change.distributionChange => def.dist.buckets = NoBuckets
                 /\ \A k \in change.propertyChanges : def.props[k].list
                 /\ change.indexes.remove = {} /\ change.indexes.modify = {}
                 /\ \A i \in change.indexes.add :
                      t \in Recreated /\ def.indexes[i].type # "BITMAP"
  <2>1. Recreated = Remade(s, b)
    BY <1>1, <1>2 DEF HasEnded
  <2> QED BY <1>7, <2>1 DEF IsSettled
<1>9. ASSUME NEW v \in diff.views.modify PROVE s.views[v].security # Null
  <2>1. v \in DOMAIN s.views /\ v \in DOMAIN d.views /\ diffView(s.views[v], e.views[v])
    BY <1>4, <1>5
  <2>2. e.views[v] = [d.views[v] EXCEPT !.security = Null] /\ IsView(d.views[v])
    BY <1>3, <2>1, IntrospectIs DEF IsDb
  <2>3. e.views[v].columns = d.views[v].columns
    BY <2>2 DEF IsView
  <2>4. d.views[v].columns = s.views[v].columns
    BY <1>1, <1>2, <2>1 DEF HasReached
  <2> QED BY <2>1, <2>3, <2>4 DEF diffView
<1>10. ASSUME NEW m \in diff.mvs.modify PROVE m \in Refreshed \/ s.mvs[m].refresh = Null
  <2>1. m \in DOMAIN d.mvs /\ diffMaterializedView(s.mvs[m], d.mvs[m]) # "none"
    BY <1>4, <1>5
  <2>2. MVDone(s, b, m, d.mvs[m]) /\ RefreshedMVs(s, b) \subseteq Refreshed
    BY <1>1, <1>2, <2>1 DEF HasReached, HasEnded
  <2> QED BY <2>1, <2>2 DEF MVDone
<1>11. /\ s = plan.goal /\ e = introspect(db, NothingLost)
       /\ diff = diffSchema(plan.goal, introspect(db, NothingLost))
  BY <1>2 DEF Seen
<1> QED BY <1>6, <1>8, <1>9, <1>10, <1>11 DEF Settled

\* Diffing the goal with the database after its migration finds nothing but what
\* introspection cannot read back and what the plan put off, when both looks at the
\* database were answered in full: a developer who runs generate again does not get
\* the same migration once more.
THEOREM SettledAlways == Spec => []Settled
<1>1. TypeInv /\ OrderInv /\ GoalInv => Settled
  BY ReachedSettles
<1> QED BY <1>1, GoalKept, PTL

(***************************************************************************)
(* The way back: what the statements down undo, when none is manual.       *)
(***************************************************************************)
\* A plan without manual work takes nothing away but columns.
TakesNothing(s, e) ==
  /\ Removed(s, e) = {} /\ Remade(s, e) = {}
  /\ \A t \in Changed(s, e) :
       LET change == diffTable(s.tables[t], e.tables[t]) IN
       change.indexes.remove = {} /\ change.indexes.modify = {} /\ change.propertyChanges = {}
  /\ DOMAIN e.views \subseteq DOMAIN s.views /\ DifferingViews(s, e) = {}
  /\ DOMAIN e.mvs \subseteq DOMAIN s.mvs /\ RebuiltMVs(s, e) = {} /\ RefreshedMVs(s, e) = {}

LEMMA NoManual ==
    ASSUME NEW s, NEW e, ~IsDown(s, e, Manual)
    PROVE  TakesNothing(s, e)
<1>1. Removed(s, e) = {} /\ Remade(s, e) = {}
  BY DEF IsDown
<1>2. ~IsViewDown(s, e, Manual) /\ ~IsMVDown(s, e, Manual)
  BY DEF IsDown
<1>3. DOMAIN e.views \subseteq DOMAIN s.views /\ DifferingViews(s, e) = {}
  BY <1>2 DEF IsViewDown
<1>4. DOMAIN e.mvs \subseteq DOMAIN s.mvs /\ RebuiltMVs(s, e) = {} /\ RefreshedMVs(s, e) = {}
  BY <1>2 DEF IsMVDown
<1>5. ASSUME NEW t \in Changed(s, e), NEW change, change = diffTable(s.tables[t], e.tables[t])
      PROVE  change.indexes.remove = {} /\ change.indexes.modify = {} /\ change.propertyChanges = {}
  BY <1>5 DEF IsDown, IsAlterDown
<1> QED BY <1>1, <1>3, <1>4, <1>5 DEF TakesNothing

\* What a statement on the way back is, told from what it does.
IsWayBack(s, e, st) ==
  /\ st.op \in {"dropTableIfExists", "addColumn", "modifyColumn", "dropColumn", "dropIndex", "dropView", "dropMV"}
  /\ st.op = "dropTableIfExists" => st.name \notin DOMAIN e.tables
  /\ st.op \in {"addColumn", "modifyColumn"} =>
       /\ st.column \in DOMAIN e.tables[st.name].columns
       /\ st.def = OldColumn(e.tables[st.name].columns[st.column])
  /\ st.op = "dropColumn" => st.column \notin DOMAIN e.tables[st.name].columns
  /\ st.op = "dropIndex" => st.index \notin DOMAIN e.tables[st.name].indexes
  /\ st.op = "dropView" => st.name \notin DOMAIN e.views
  /\ st.op = "dropMV" => st.name \notin DOMAIN e.mvs

LEMMA AlterBack ==
    ASSUME NEW s, NEW e, NEW t, NEW st, st # Manual, IsAlterDown(t, s.tables[t], e.tables[t], st)
    PROVE  IsWayBack(s, e, st)
<1>1. PICK def, old : def = s.tables[t] /\ old = e.tables[t]
  OBVIOUS
<1>2. PICK change : change = diffTable(def, old)
  OBVIOUS
<1>3. /\ change.columns.add = DOMAIN def.columns \ DOMAIN old.columns
      /\ change.columns.remove = DOMAIN old.columns \ DOMAIN def.columns
      /\ change.columns.modify \subseteq DOMAIN old.columns
      /\ change.indexes.add = DOMAIN def.indexes \ DOMAIN old.indexes
  BY <1>2, DiffTableIs
<1>4. \/ \E c \in change.columns.add : st = DropColumn(t, c)
      \/ \E c \in change.columns.remove : st = AddColumn(t, c, OldColumn(old.columns[c]))
      \/ \E c \in change.columns.modify : st = ModifyColumn(t, c, OldColumn(old.columns[c]))
      \/ \E i \in change.indexes.add : st = DropIndex(t, i)
  BY <1>1, <1>2 DEF IsAlterDown
<1>5. CASE \E c \in change.columns.add : st = DropColumn(t, c)
  BY <1>1, <1>3, <1>5 DEF DropColumn, IsWayBack
<1>6. CASE \E c \in change.columns.remove : st = AddColumn(t, c, OldColumn(old.columns[c]))
  BY <1>1, <1>3, <1>6 DEF AddColumn, IsWayBack
<1>7. CASE \E c \in change.columns.modify : st = ModifyColumn(t, c, OldColumn(old.columns[c]))
  BY <1>1, <1>3, <1>7 DEF ModifyColumn, IsWayBack
<1>8. CASE \E i \in change.indexes.add : st = DropIndex(t, i)
  BY <1>1, <1>3, <1>8 DEF DropIndex, IsWayBack
<1> QED BY <1>4, <1>5, <1>6, <1>7, <1>8

LEMMA WayBack ==
    ASSUME NEW s, NEW e, NEW st, IsDown(s, e, st), st # Manual
    PROVE  IsWayBack(s, e, st)
<1>1. CASE \E t \in Added(s, e) : st = DropTable(t)
  BY <1>1 DEF DropTable, Added, IsWayBack
<1>2. CASE \E t \in Changed(s, e) : IsAlterDown(t, s.tables[t], e.tables[t], st)
  BY <1>2, AlterBack
<1>3. CASE IsViewDown(s, e, st)
  <2>1. PICK v \in DOMAIN s.views \ DOMAIN e.views : st = DropView(v)
    BY <1>3, ViewKinds
  <2> QED BY <2>1 DEF DropView, IsWayBack
<1>4. CASE IsMVDown(s, e, st)
  <2>1. PICK m \in DOMAIN s.mvs \ DOMAIN e.mvs : st = DropMV(m)
    BY <1>4, ViewKinds
  <2> QED BY <2>1 DEF DropMV, IsWayBack
<1> QED BY <1>1, <1>2, <1>3, <1>4 DEF IsDown

\* What a statement up does, a statement of Q undoes.
IsUndone(s, e, st, Q) ==
  /\ st.op \notin GoneOps /\ st.op \notin {"setProperties", "replaceView", "dropView", "alterRefresh", "dropMV"}
  /\ st.op = "createTable" => DropTable(st.name) \in Q
  /\ \A t \in DOMAIN e.tables : \A c : OnColumn(st, t, c) => \E q \in Q : OnColumn(q, t, c)
  /\ \A t \in DOMAIN e.tables : \A i : OnIndex(st, t, i) => \E q \in Q : OnIndex(q, t, i)
  /\ \A v : OnView(st, v) => \E q \in Q : OnView(q, v)
  /\ \A m : OnMV(st, m) => \E q \in Q : OnMV(q, m)

LEMMA AlterUndone ==
    ASSUME NEW s, NEW e, TakesNothing(s, e), NEW t \in Changed(s, e), NEW st,
           IsAlterUp(t, s.tables[t], e.tables[t], st),
           NEW Q, \A q : IsDown(s, e, q) => q \in Q
    PROVE  /\ \A c : OnColumn(st, t, c) => \E q \in Q : OnColumn(q, t, c)
           /\ \A i : OnIndex(st, t, i) => \E q \in Q : OnIndex(q, t, i)
<1>1. PICK def, old : def = s.tables[t] /\ old = e.tables[t]
  OBVIOUS
<1>2. PICK change : change = diffTable(def, old)
  OBVIOUS
<1>3. change.indexes.remove = {} /\ change.indexes.modify = {} /\ change.propertyChanges = {}
  BY <1>1, <1>2 DEF TakesNothing
<1>4. \A q : IsAlterDown(t, def, old, q) => q \in Q
  BY <1>1 DEF IsDown
<1>5. CASE \E c \in change.columns.add : st = AddColumn(t, c, def.columns[c])
  <2>1. PICK c \in change.columns.add : st = AddColumn(t, c, def.columns[c])
    BY <1>5
  <2>2. PICK q : q = DropColumn(t, c)
    OBVIOUS
  <2>3. q \in Q
    BY <1>2, <1>4, <2>1, <2>2 DEF IsAlterDown
  <2> QED BY <2>1, <2>2, <2>3 DEF AddColumn, DropColumn, OnColumn, OnIndex
<1>6. CASE \E c \in change.columns.remove : st = DropColumn(t, c)
  <2>1. PICK c \in change.columns.remove : st = DropColumn(t, c)
    BY <1>6
  <2>2. PICK q : q = AddColumn(t, c, OldColumn(old.columns[c]))
    OBVIOUS
  <2>3. q \in Q
    BY <1>2, <1>4, <2>1, <2>2 DEF IsAlterDown
  <2> QED BY <2>1, <2>2, <2>3 DEF AddColumn, DropColumn, OnColumn, OnIndex
<1>7. CASE \E c \in change.columns.modify : st = ModifyColumn(t, c, def.columns[c])
  <2>1. PICK c \in change.columns.modify : st = ModifyColumn(t, c, def.columns[c])
    BY <1>7
  <2>2. PICK q : q = ModifyColumn(t, c, OldColumn(old.columns[c]))
    OBVIOUS
  <2>3. q \in Q
    BY <1>2, <1>4, <2>1, <2>2 DEF IsAlterDown
  <2> QED BY <2>1, <2>2, <2>3 DEF ModifyColumn, OnColumn, OnIndex
<1>8. CASE \E i \in change.indexes.add : st = CreateIndex(t, i, def.indexes[i])
  <2>1. PICK i \in change.indexes.add : st = CreateIndex(t, i, def.indexes[i])
    BY <1>8
  <2>2. PICK q : q = DropIndex(t, i)
    OBVIOUS
  <2>3. q \in Q
    BY <1>2, <1>4, <2>1, <2>2 DEF IsAlterDown
  <2> QED BY <2>1, <2>2, <2>3 DEF CreateIndex, DropIndex, OnColumn, OnIndex
<1> QED BY <1>1, <1>2, <1>3, <1>5, <1>6, <1>7, <1>8 DEF IsAlterUp

LEMMA UpUndone ==
    ASSUME NEW s, NEW e, TakesNothing(s, e), NEW st, IsUp(s, e, st),
           NEW Q, \A q : IsDown(s, e, q) => q \in Q
    PROVE  IsUndone(s, e, st, Q)
<1>1. HasKind(s, e, st)
  BY UpKinds
<1>2. st.op \notin GoneOps
  BY GoneUp DEF TakesTable, TakesNothing
<1>3. st.op \notin {"setProperties", "replaceView", "dropView", "alterRefresh", "dropMV"}
  BY <1>1 DEF HasKind, IsPropertyUp, IsViewStatement, IsMVStatement, TakesNothing
<1>4. st.op = "createTable" => DropTable(st.name) \in Q
  BY <1>1 DEF HasKind, IsTableUp, TakesNothing, IsDown
<1>5. ASSUME NEW v, OnView(st, v) PROVE \E q \in Q : OnView(q, v)
  <2>1. st.op = "createView" /\ st.name = v
    BY <1>3, <1>5 DEF OnView, ViewOps
  <2>2. v \in DOMAIN s.views \ DOMAIN e.views
    BY <1>1, <2>1 DEF HasKind, IsViewStatement
  <2>3. DropView(v) \in Q
    BY <2>2 DEF IsDown, IsViewDown
  <2> QED BY <2>3 DEF OnView, ViewOps, DropView
<1>6. ASSUME NEW m, OnMV(st, m) PROVE \E q \in Q : OnMV(q, m)
  <2>1. st.op = "createMV" /\ st.name = m
    BY <1>3, <1>6 DEF OnMV, MVOps
  <2>2. m \in DOMAIN s.mvs \ DOMAIN e.mvs
    BY <1>1, <2>1 DEF HasKind, IsMVStatement, TakesNothing
  <2>3. DropMV(m) \in Q
    BY <2>2 DEF IsDown, IsMVDown
  <2> QED BY <2>3 DEF OnMV, MVOps, DropMV
<1>7. ASSUME NEW t \in DOMAIN e.tables
      PROVE  /\ \A c : OnColumn(st, t, c) => \E q \in Q : OnColumn(q, t, c)
             /\ \A i : OnIndex(st, t, i) => \E q \in Q : OnIndex(q, t, i)
  <2>1. CASE st.op \in {"addColumn", "dropColumn", "modifyColumn", "createIndex", "dropIndex"} /\ st.name = t
    <3>1. t \in Changed(s, e)
      BY <1>1, <2>1 DEF HasKind, IsColumnUp, IsIndexUp, Added
    <3>2. st.op \in AlterOps /\ st.op # "copy" /\ st.op \notin ViewOps \cup MVOps /\ st.op # "createTable"
      BY <2>1 DEF AlterOps, ViewOps, MVOps
    <3>3. ~\E u \in Added(s, e) : IsAddUp(u, s.tables[u], st)
      BY <2>1, <3>1, <3>2 DEF IsAddUp, CreateTable, CreateIndex, Added
    <3>4. ~\E u \in Removed(s, e) : st = DropTable(u)
      BY DEF TakesNothing
    <3>5. ~\E u \in Remade(s, e) : st \in Recreation(u, s.tables[u])
      BY DEF TakesNothing
    <3>6. ~IsViewUp(s, e, st) /\ ~IsMVUp(s, e, st)
      BY <3>2, ViewKinds
    <3>7. PICK u \in Changed(s, e) : IsAlterUp(u, s.tables[u], e.tables[u], st)
      BY <3>3, <3>4, <3>5, <3>6 DEF IsUp
    <3>8. u = t
      BY <2>1, <3>7, AlterKinds
    <3>9. IsAlterUp(t, s.tables[t], e.tables[t], st)
      BY <3>7, <3>8
    <3> QED BY <3>1, <3>9, AlterUndone
  <2>2. CASE ~(st.op \in {"addColumn", "dropColumn", "modifyColumn", "createIndex", "dropIndex"} /\ st.name = t)
    BY <2>2 DEF OnColumn, OnIndex
  <2> QED BY <2>1, <2>2
<1> QED BY <1>2, <1>3, <1>4, <1>5, <1>6, <1>7 DEF IsUndone

(***************************************************************************)
(* What no statement of Q is about is as it was before the plan.           *)
(***************************************************************************)
Shown(dist) == IF dist.buckets = NoBuckets THEN NoDistribution ELSE dist

ColumnBack(was, is, c) ==
  /\ c \in DOMAIN is.columns <=> c \in DOMAIN was.columns
  /\ c \in DOMAIN was.columns => OldColumn(is.columns[c]) = OldColumn(was.columns[c])

IndexBack(was, is, i) ==
  /\ i \in DOMAIN is.indexes <=> i \in DOMAIN was.indexes
  /\ i \in DOMAIN was.indexes => is.indexes[i] = was.indexes[i]

TableBack(Q, t, was, is) ==
  /\ is.key = was.key /\ Shown(is.dist) = was.dist /\ is.props = was.props
  /\ \A c : (\E st \in Q : OnColumn(st, t, c)) \/ ColumnBack(was, is, c)
  /\ \A i : (\E st \in Q : OnIndex(st, t, i)) \/ IndexBack(was, is, i)

ViewBack(was, is, v) ==
  /\ v \in DOMAIN is <=> v \in DOMAIN was
  /\ v \in DOMAIN was => [is[v] EXCEPT !.security = Null] = was[v]

MVBack(was, is, m) ==
  /\ m \in DOMAIN is <=> m \in DOMAIN was
  /\ m \in DOMAIN was => is[m] = was[m]

TablesBack(e, Q, ts) ==
  /\ \A t \in DOMAIN e.tables : t \in DOMAIN ts /\ TableBack(Q, t, e.tables[t], ts[t])
  /\ \A x \in DOMAIN ts : x \in DOMAIN e.tables \/ DropTable(x) \in Q

BackOf(e, Q, d) ==
  /\ TablesBack(e, Q, d.tables)
  /\ \A v : (\E st \in Q : OnView(st, v)) \/ ViewBack(e.views, d.views, v)
  /\ \A m : (\E st \in Q : OnMV(st, m)) \/ MVBack(e.mvs, d.mvs, m)

LEMMA BackWider ==
    ASSUME NEW e, NEW Q, NEW R, Q \subseteq R, NEW d, BackOf(e, Q, d)
    PROVE  BackOf(e, R, d)
<1>1. \A t, was, is : TableBack(Q, t, was, is) => TableBack(R, t, was, is)
  BY DEF TableBack
<1>2. TablesBack(e, R, d.tables)
  BY <1>1 DEF BackOf, TablesBack
<1> QED BY <1>2 DEF BackOf

LEMMA BackPlanned ==
    ASSUME NEW d, IsDb(d), NEW e, e = Seen(d), NEW Q
    PROVE  BackOf(e, Q, d)
<1>1. /\ DOMAIN e.tables = DOMAIN d.tables
      /\ \A x \in DOMAIN d.tables :
           /\ e.tables[x].columns = d.tables[x].columns /\ e.tables[x].key = d.tables[x].key
           /\ e.tables[x].props = d.tables[x].props /\ e.tables[x].indexes = d.tables[x].indexes
           /\ e.tables[x].dist = Shown(d.tables[x].dist)
      /\ DOMAIN e.views = DOMAIN d.views
      /\ \A v \in DOMAIN d.views : e.views[v] = [d.views[v] EXCEPT !.security = Null]
      /\ e.mvs = d.mvs
  BY IntrospectIs DEF Shown
<1>2. ASSUME NEW x \in DOMAIN d.tables PROVE TableBack(Q, x, e.tables[x], d.tables[x])
  BY <1>1 DEF TableBack, ColumnBack, IndexBack
<1>3. TablesBack(e, Q, d.tables)
  BY <1>1, <1>2 DEF TablesBack
<1> QED BY <1>1, <1>3 DEF BackOf, ViewBack, MVBack

LEMMA BackWritten ==
    ASSUME NEW e, NEW Q, NEW t, NEW r, NEW d, NEW n, HasRow(t, r, d, n), BackOf(e, Q, d)
    PROVE  BackOf(e, Q, n)
<1>1. n.views = d.views /\ n.mvs = d.mvs /\ DOMAIN n.tables = DOMAIN d.tables
  BY DEF HasRow
<1>2. ASSUME NEW x \in DOMAIN d.tables, NEW was, NEW a, NEW b, a = d.tables[x], b = n.tables[x],
             TableBack(Q, x, was, a)
      PROVE  TableBack(Q, x, was, b)
  <2>1. b.columns = a.columns /\ b.key = a.key /\ b.props = a.props /\ b.indexes = a.indexes /\ b.dist = a.dist
    BY <1>2 DEF HasRow
  <2>2. \A c : ColumnBack(was, a, c) => ColumnBack(was, b, c)
    BY <2>1 DEF ColumnBack
  <2>3. \A i : IndexBack(was, a, i) => IndexBack(was, b, i)
    BY <2>1 DEF IndexBack
  <2> QED BY <1>2, <2>1, <2>2, <2>3 DEF TableBack
<1>3. TablesBack(e, Q, n.tables)
  BY <1>1, <1>2 DEF BackOf, TablesBack
<1> QED BY <1>1, <1>3 DEF BackOf

(***************************************************************************)
(* A statement up.                                                         *)
(***************************************************************************)
LEMMA TableUp ==
    ASSUME NEW s, IsSchema(s), NEW e, IsRead(e), TakesNothing(s, e), NEW st, HasKind(s, e, st),
           NEW Q, IsUndone(s, e, st, Q), NEW t \in DOMAIN e.tables, NEW a, NEW b,
           TableAfter(st, t, a, b), TableBack(Q, t, e.tables[t], a)
    PROVE  TableBack(Q, t, e.tables[t], b)
<1>1. PICK was : was = e.tables[t]
  OBVIOUS
<1>2. b.key = was.key /\ Shown(b.dist) = was.dist
  BY <1>1 DEF TableAfter, TableBack
<1>3. b.props = was.props
  <2>1. b.props = a.props
    BY DEF TableAfter, PropertiesAfter, IsUndone
  <2> QED BY <1>1, <2>1 DEF TableBack
<1>4. ASSUME NEW c, ~\E q \in Q : OnColumn(q, t, c) PROVE ColumnBack(was, b, c)
  <2>1. ~OnColumn(st, t, c)
    BY <1>4 DEF IsUndone
  <2>2. ColumnBack(was, a, c)
    BY <1>1, <1>4 DEF TableBack
  <2> QED BY <2>1, <2>2 DEF TableAfter, ColumnsAfter, ColumnBack
<1>5. ASSUME NEW i, ~\E q \in Q : OnIndex(q, t, i) PROVE IndexBack(was, b, i)
  <2>1. ~OnIndex(st, t, i)
    BY <1>5 DEF IsUndone
  <2>2. IndexBack(was, a, i)
    BY <1>1, <1>5 DEF TableBack
  <2>3. i \in DOMAIN b.indexes => i \in DOMAIN a.indexes /\ b.indexes[i] = a.indexes[i]
    BY <2>1 DEF TableAfter, IndexesAfter
  <2>4. ASSUME i \in DOMAIN a.indexes PROVE i \in DOMAIN b.indexes
    <3> SUFFICES ASSUME st.op = "dropColumn", st.name = t, st.column \in ToSet(a.indexes[i].columns)
                 PROVE  FALSE
      BY <2>1, <2>4 DEF TableAfter, IndexesAfter
    <3>1. PICK def : def = s.tables[t]
      OBVIOUS
    <3>2. st.column \notin DOMAIN def.columns /\ t \in Changed(s, e)
      BY <3>1 DEF HasKind, IsColumnUp
    <3>3. PICK change : change = diffTable(def, was)
      OBVIOUS
    <3>4. change.indexes.remove = {} /\ change.indexes.modify = {}
      BY <1>1, <3>1, <3>2, <3>3 DEF TakesNothing
    <3>5. i \in DOMAIN was.indexes /\ was.indexes[i] = a.indexes[i]
      BY <2>2, <2>4 DEF IndexBack
    <3>6. i \in DOMAIN def.indexes /\ ~diffIndex(def.indexes[i], was.indexes[i])
      BY <3>3, <3>4, <3>5, DiffTableIs
    <3>7. def.indexes[i].columns = a.indexes[i].columns
      BY <3>5, <3>6 DEF diffIndex
    <3>8. IsTable(def)
      BY <3>1, <3>2 DEF IsSchema, Changed, Between
    <3>9. ToSet(def.indexes[i].columns) \subseteq DOMAIN def.columns
      BY <3>6, <3>8 DEF IsTable, IsIndex
    <3> QED BY <3>2, <3>7, <3>9
  <2> QED BY <2>2, <2>3, <2>4 DEF IndexBack
<1> QED BY <1>1, <1>2, <1>3, <1>4, <1>5 DEF TableBack

LEMMA BackUp ==
    ASSUME NEW s, IsSchema(s), NEW e, IsRead(e), TakesNothing(s, e), NEW st, HasKind(s, e, st),
           NEW Q, IsUndone(s, e, st, Q), NEW d, NEW n, HasEffect(st, d, n), BackOf(e, Q, d)
    PROVE  BackOf(e, Q, n)
<1>1. NamesAfter(st, d.tables, n.tables)
  BY NamesIn DEF HasEffect
<1>2. st.op \notin GoneOps
  BY DEF IsUndone
<1>3. TablesBack(e, Q, n.tables)
  <2>1. ASSUME NEW t \in DOMAIN e.tables PROVE t \in DOMAIN n.tables /\ TableBack(Q, t, e.tables[t], n.tables[t])
    <3>1. t \in DOMAIN d.tables /\ TableBack(Q, t, e.tables[t], d.tables[t])
      BY DEF BackOf, TablesBack
    <3>2. t \in DOMAIN n.tables
      BY <1>1, <1>2, <3>1 DEF NamesAfter, GoneOps
    <3>3. TableAfter(st, t, d.tables[t], n.tables[t])
      BY <1>1, <3>1, <3>2 DEF NamesAfter
    <3> QED BY <3>1, <3>2, <3>3, TableUp
  <2>2. ASSUME NEW x \in DOMAIN n.tables PROVE x \in DOMAIN e.tables \/ DropTable(x) \in Q
    <3>1. CASE x \in DOMAIN d.tables
      BY <3>1 DEF BackOf, TablesBack
    <3>2. CASE x \notin DOMAIN d.tables
      BY <1>1, <1>2, <3>2 DEF NamesAfter, GoneOps, IsUndone
    <3> QED BY <3>1, <3>2
  <2> QED BY <2>1, <2>2 DEF TablesBack
<1>4. ASSUME NEW v, ~\E q \in Q : OnView(q, v) PROVE ViewBack(e.views, n.views, v)
  <2>1. ~OnView(st, v)
    BY <1>4 DEF IsUndone
  <2>2. ViewBack(e.views, d.views, v)
    BY <1>4 DEF BackOf
  <2>3. n.views = d.views \/ (st.op = "createView" /\ n.views = With(d.views, st.name, st.def))
    BY DEF HasEffect, ViewsAfter, IsUndone
  <2>4. CASE st.op = "createView" /\ n.views = With(d.views, st.name, st.def)
    <3>1. v # st.name
      BY <2>1, <2>4 DEF OnView, ViewOps
    <3>2. (v \in DOMAIN n.views <=> v \in DOMAIN d.views) /\ (v \in DOMAIN d.views => n.views[v] = d.views[v])
      BY <2>4, <3>1 DEF With
    <3> QED BY <2>2, <3>2 DEF ViewBack
  <2> QED BY <2>2, <2>3, <2>4
<1>5. ASSUME NEW m, ~\E q \in Q : OnMV(q, m) PROVE MVBack(e.mvs, n.mvs, m)
  <2>1. ~OnMV(st, m)
    BY <1>5 DEF IsUndone
  <2>2. MVBack(e.mvs, d.mvs, m)
    BY <1>5 DEF BackOf
  <2>3. n.mvs = d.mvs \/ (st.op = "createMV" /\ n.mvs = With(d.mvs, st.name, StoredMV(st.def)))
    BY DEF HasEffect, MVsAfter, IsUndone
  <2>4. CASE st.op = "createMV" /\ n.mvs = With(d.mvs, st.name, StoredMV(st.def))
    <3>1. m # st.name
      BY <2>1, <2>4 DEF OnMV, MVOps
    <3>2. (m \in DOMAIN n.mvs <=> m \in DOMAIN d.mvs) /\ (m \in DOMAIN d.mvs => n.mvs[m] = d.mvs[m])
      BY <2>4, <3>1 DEF With
    <3> QED BY <2>2, <3>2 DEF MVBack
  <2> QED BY <2>2, <2>3, <2>4
<1> QED BY <1>3, <1>4, <1>5 DEF BackOf

(***************************************************************************)
(* A statement down.                                                       *)
(***************************************************************************)
LEMMA OldColumnIs ==
    ASSUME NEW key, NEW x, IsStoredColumn(key, x)
    PROVE  OldColumn(StoredColumn(key, OldColumn(x))) = OldColumn(x)
<1>1. PICK type, nullable, default : x = [type |-> type, nullable |-> nullable, default |-> default] /\ IsType(type)
  BY DEF IsStoredColumn, IsColumn
<1>2. Spelled(type) = type /\ (key = "PRIMARY" => default = Null)
  BY <1>1 DEF IsStoredColumn
<1>3. PICK f : f = IF default = "empty" THEN Null ELSE default
  OBVIOUS
<1>4. PICK o : o = [type |-> type, nullable |-> nullable, default |-> f]
  OBVIOUS
<1>5. OldColumn(x) = o
  BY <1>1, <1>3, <1>4 DEF OldColumn
<1>6. IsColumn(o)
  BY <1>1, <1>4 DEF IsColumn
<1>7. (IF key = "PRIMARY" THEN Null ELSE f) = f
  BY <1>2, <1>3 DEF Null
<1>8. StoredColumn(key, o) = o
  BY <1>2, <1>4, <1>6, <1>7, StoredColumnIs
<1>9. f # "empty"
  BY <1>3 DEF Null
<1>10. OldColumn(o) = o
  <2>1. OldColumn(o) = [o EXCEPT !.default = IF f = "empty" THEN Null ELSE f]
    BY <1>4 DEF OldColumn
  <2> QED BY <1>4, <1>9, <2>1
<1> QED BY <1>5, <1>8, <1>10

LEMMA TableDown ==
    ASSUME NEW e, IsSeen(e), NEW s, NEW st, IsWayBack(s, e, st),
           NEW Q, NEW R, \A q \in Q : q = st \/ q \in R, NEW t \in DOMAIN e.tables, NEW a, NEW b,
           TableAfter(st, t, a, b), TableBack(Q, t, e.tables[t], a)
    PROVE  TableBack(R, t, e.tables[t], b)
<1>1. PICK was : was = e.tables[t]
  OBVIOUS
<1>2. HasStoredParts(was) /\ a.key = was.key
  BY <1>1 DEF IsSeen, TableBack
<1>3. b.key = was.key /\ Shown(b.dist) = was.dist
  BY <1>1 DEF TableAfter, TableBack
<1>4. b.props = was.props
  <2>1. b.props = a.props
    BY DEF TableAfter, PropertiesAfter, IsWayBack
  <2> QED BY <1>1, <2>1 DEF TableBack
<1>5. ASSUME NEW c, ~\E q \in R : OnColumn(q, t, c) PROVE ColumnBack(was, b, c)
  <2>1. OnColumn(st, t, c) \/ ColumnBack(was, a, c)
    BY <1>1, <1>5 DEF TableBack
  <2>2. CASE ~OnColumn(st, t, c)
    BY <2>1, <2>2 DEF TableAfter, ColumnsAfter, ColumnBack
  <2>3. CASE OnColumn(st, t, c) /\ st.op = "dropColumn"
    BY <1>1, <2>3 DEF OnColumn, TableAfter, ColumnsAfter, IsWayBack, ColumnBack
  <2>4. CASE OnColumn(st, t, c) /\ st.op \in {"addColumn", "modifyColumn"}
    <3>1. c \in DOMAIN was.columns /\ st.def = OldColumn(was.columns[c])
      BY <1>1, <2>4 DEF OnColumn, IsWayBack
    <3>2. c \in DOMAIN b.columns /\ b.columns[c] = StoredColumn(was.key, st.def)
      BY <1>2, <2>4 DEF OnColumn, TableAfter, ColumnsAfter
    <3>3. IsStoredColumn(was.key, was.columns[c])
      BY <1>2, <3>1 DEF HasStoredParts
    <3>4. OldColumn(b.columns[c]) = OldColumn(was.columns[c])
      BY <3>1, <3>2, <3>3, OldColumnIs
    <3> QED BY <3>1, <3>2, <3>4 DEF ColumnBack
  <2> QED BY <2>2, <2>3, <2>4 DEF OnColumn
<1>6. ASSUME NEW i, ~\E q \in R : OnIndex(q, t, i) PROVE IndexBack(was, b, i)
  <2>1. OnIndex(st, t, i) \/ IndexBack(was, a, i)
    BY <1>1, <1>6 DEF TableBack
  <2>2. CASE OnIndex(st, t, i)
    <3>1. st.op = "dropIndex" /\ st.name = t /\ st.index = i
      BY <2>2 DEF OnIndex, IsWayBack
    <3>2. i \notin DOMAIN was.indexes
      BY <1>1, <3>1 DEF IsWayBack
    <3>3. i \notin DOMAIN b.indexes
      BY <3>1 DEF TableAfter, IndexesAfter
    <3> QED BY <3>2, <3>3 DEF IndexBack
  <2>3. CASE ~OnIndex(st, t, i)
    <3>1. i \in DOMAIN b.indexes => i \in DOMAIN a.indexes /\ b.indexes[i] = a.indexes[i]
      BY <2>3 DEF TableAfter, IndexesAfter
    <3>2. ASSUME i \in DOMAIN a.indexes PROVE i \in DOMAIN b.indexes
      <4> SUFFICES ASSUME st.op = "dropColumn", st.name = t, st.column \in ToSet(a.indexes[i].columns)
                   PROVE  FALSE
        BY <2>3, <3>2 DEF TableAfter, IndexesAfter
      <4>1. st.column \notin DOMAIN was.columns
        BY <1>1 DEF IsWayBack
      <4>2. i \in DOMAIN was.indexes /\ was.indexes[i] = a.indexes[i]
        BY <2>1, <2>3, <3>2 DEF IndexBack
      <4>3. ToSet(was.indexes[i].columns) \subseteq DOMAIN was.columns
        BY <1>2, <4>2 DEF HasStoredParts, IsIndex
      <4> QED BY <4>1, <4>2, <4>3
    <3> QED BY <2>1, <2>3, <3>1, <3>2 DEF IndexBack
  <2> QED BY <2>2, <2>3
<1> QED BY <1>1, <1>3, <1>4, <1>5, <1>6 DEF TableBack

LEMMA BackDown ==
    ASSUME NEW s, NEW e, IsSeen(e), NEW st, IsWayBack(s, e, st),
           NEW Q, NEW R, \A q \in Q : q = st \/ q \in R,
           NEW d, NEW n, HasEffect(st, d, n), BackOf(e, Q, d)
    PROVE  BackOf(e, R, n)
<1>1. NamesAfter(st, d.tables, n.tables)
  BY NamesIn DEF HasEffect
<1>2. TablesBack(e, R, n.tables)
  <2>1. ASSUME NEW t \in DOMAIN e.tables PROVE t \in DOMAIN n.tables /\ TableBack(R, t, e.tables[t], n.tables[t])
    <3>1. t \in DOMAIN d.tables /\ TableBack(Q, t, e.tables[t], d.tables[t])
      BY DEF BackOf, TablesBack
    <3>2. t \in DOMAIN n.tables
      BY <1>1, <3>1 DEF NamesAfter, IsWayBack
    <3>3. TableAfter(st, t, d.tables[t], n.tables[t])
      BY <1>1, <3>1, <3>2 DEF NamesAfter
    <3>4. PICK a, b : a = d.tables[t] /\ b = n.tables[t]
      OBVIOUS
    <3>5. TableBack(R, t, e.tables[t], b)
      BY <3>1, <3>3, <3>4, TableDown
    <3> QED BY <3>2, <3>4, <3>5
  <2>2. ASSUME NEW x \in DOMAIN n.tables PROVE x \in DOMAIN e.tables \/ DropTable(x) \in R
    <3>1. x \in DOMAIN d.tables
      BY <1>1 DEF NamesAfter, IsWayBack
    <3>2. st # DropTable(x)
      BY <1>1 DEF NamesAfter, DropTable
    <3> QED BY <3>1, <3>2 DEF BackOf, TablesBack
  <2> QED BY <2>1, <2>2 DEF TablesBack
<1>3. ASSUME NEW v, ~\E q \in R : OnView(q, v) PROVE ViewBack(e.views, n.views, v)
  <2>1. OnView(st, v) \/ ViewBack(e.views, d.views, v)
    BY <1>3 DEF BackOf
  <2>2. \/ n.views = d.views /\ st.op \notin ViewOps
        \/ st.op = "dropView" /\ n.views = Without(d.views, st.name)
    BY DEF HasEffect, ViewsAfter, IsWayBack
  <2>3. CASE n.views = d.views /\ st.op \notin ViewOps
    BY <2>1, <2>3 DEF OnView
  <2>4. CASE st.op = "dropView" /\ n.views = Without(d.views, st.name)
    <3>1. DOMAIN n.views = DOMAIN d.views \ {st.name} /\ \A x \in DOMAIN n.views : n.views[x] = d.views[x]
      BY <2>4 DEF Without, Restrict
    <3>2. st.name \notin DOMAIN e.views
      BY <2>4 DEF IsWayBack
    <3> QED BY <2>1, <3>1, <3>2 DEF ViewBack, OnView
  <2> QED BY <2>2, <2>3, <2>4
<1>4. ASSUME NEW m, ~\E q \in R : OnMV(q, m) PROVE MVBack(e.mvs, n.mvs, m)
  <2>1. OnMV(st, m) \/ MVBack(e.mvs, d.mvs, m)
    BY <1>4 DEF BackOf
  <2>2. \/ n.mvs = d.mvs /\ st.op \notin MVOps
        \/ st.op = "dropMV" /\ n.mvs = Without(d.mvs, st.name)
    BY DEF HasEffect, MVsAfter, IsWayBack
  <2>3. CASE n.mvs = d.mvs /\ st.op \notin MVOps
    BY <2>1, <2>3 DEF OnMV
  <2>4. CASE st.op = "dropMV" /\ n.mvs = Without(d.mvs, st.name)
    <3>1. DOMAIN n.mvs = DOMAIN d.mvs \ {st.name} /\ \A x \in DOMAIN n.mvs : n.mvs[x] = d.mvs[x]
      BY <2>4 DEF Without, Restrict
    <3>2. st.name \notin DOMAIN e.mvs
      BY <2>4 DEF IsWayBack
    <3> QED BY <2>1, <3>1, <3>2 DEF MVBack, OnMV
  <2> QED BY <2>2, <2>3, <2>4
<1> QED BY <1>2, <1>3, <1>4 DEF BackOf

(***************************************************************************)
(* The invariant.                                                          *)
(***************************************************************************)
\* Where the way back asks for no manual work, and every query was answered when
\* the plan was made, all that no statement of it is about is as it was then.
BackInv ==
  /\ rolling /\ Manual \in ToSet(plan.down) => Manual \in ToSet(todo)
  /\ Manual \notin ToSet(plan.down) /\ plan.lost = NothingLost =>
       /\ IsSeen(plan.before)
       /\ BackOf(plan.before, ToSet(IF rolling THEN todo ELSE plan.down), db)

LEMMA BackExecuted ==
    ASSUME TypeInv, BackInv, Execute
    PROVE  BackInv'
<1>1. PICK s, e, x, y, d, n : s = plan.goal /\ e = plan.before /\ x = todo /\ y = todo' /\ d = db /\ n = db'
  OBVIOUS
<1>2. PICK st : st = Head(x)
  OBVIOUS
<1>3. s \in Schemas /\ IsDb(d) /\ IsRead(e)
  BY <1>1 DEF TypeInv
<1>4. /\ ~rolling => IsUp(s, e, st)
      /\ rolling => IsDown(s, e, st)
      /\ x # <<>> /\ IsSeq(x) /\ IsPlan(s, e, plan)
  BY <1>1, <1>2, NextStatement DEF Execute
<1>5. HasEffect(st, d, n)
  BY <1>1, <1>2, Effects DEF Execute, TypeInv
<1>6. st # Manual
  <2>1. TakesEffect(st)
    BY <1>1, <1>2 DEF Execute
  <2>2. st.op # "manual"
    BY <2>1 DEF TakesEffect
  <2> QED BY <2>2 DEF Manual
<1>7. plan' = plan /\ rolling' = rolling /\ y \in {x, Tail(x)}
  BY <1>1 DEF Execute
<1>8. \A q : q \in ToSet(x) <=> q = st \/ q \in ToSet(Tail(x))
  BY <1>2, <1>4, TailIs
<1>9. Manual \in ToSet(x) => Manual \in ToSet(y)
  BY <1>6, <1>7, <1>8
<1>10. ASSUME Manual \notin ToSet(plan.down), plan.lost = NothingLost, ~rolling
       PROVE  BackOf(e, ToSet(plan.down), n)
  <2>1. PICK Q : Q = ToSet(plan.down)
    OBVIOUS
  <2>2. BackOf(e, Q, d)
    BY <1>1, <1>10, <2>1 DEF BackInv
  <2>3. \A q : IsDown(s, e, q) <=> q \in Q
    BY <1>4, <2>1 DEF IsPlan
  <2>4. TakesNothing(s, e)
    BY <1>10, <2>1, <2>3, NoManual
  <2>5. IsUndone(s, e, st, Q) /\ HasKind(s, e, st)
    BY <1>4, <1>10, <2>3, <2>4, UpUndone, UpKinds
  <2>6. IsSchema(s)
    BY <1>3, SchemasAssumption
  <2> QED BY <1>3, <1>5, <2>1, <2>2, <2>4, <2>5, <2>6, BackUp
<1>11. ASSUME Manual \notin ToSet(plan.down), plan.lost = NothingLost, rolling
       PROVE  BackOf(e, ToSet(y), n)
  <2>1. PICK Q, R : Q = ToSet(x) /\ R = ToSet(Tail(x))
    OBVIOUS
  <2>2. BackOf(e, Q, d) /\ IsSeen(e)
    BY <1>1, <1>11, <2>1 DEF BackInv
  <2>3. IsWayBack(s, e, st)
    BY <1>4, <1>6, <1>11, WayBack
  <2>4. BackOf(e, R, n)
    BY <1>5, <1>8, <2>1, <2>2, <2>3, BackDown
  <2>5. R \subseteq Q /\ ToSet(y) \in {Q, R}
    BY <1>7, <1>8, <2>1
  <2> QED BY <2>4, <2>5, BackWider
<1>12. rolling \in BOOLEAN
  BY DEF TypeInv
<1> QED BY <1>1, <1>7, <1>9, <1>10, <1>11, <1>12 DEF BackInv

LEMMA BackStays ==
    ASSUME TypeInv, BackInv, [Next]_vars
    PROVE  BackInv'
<1>1. ASSUME NEW s \in Schemas, NEW lost \in Losses, Plan(s, lost) PROVE BackInv'
  <2> SUFFICES ASSUME lost = NothingLost
               PROVE  IsSeen(plan'.before) /\ BackOf(plan'.before, ToSet(plan'.down), db')
    BY <1>1, PlanFields DEF BackInv
  <2>1. plan'.before = Seen(db) /\ db' = db
    BY <1>1, PlanFields DEF Seen
  <2>2. PICK e, d, Q : e = Seen(db) /\ d = db /\ Q = ToSet(plan'.down)
    OBVIOUS
  <2>3. IsDb(d)
    BY <2>2 DEF TypeInv
  <2>4. BackOf(e, Q, d) /\ IsSeen(e)
    BY <2>2, <2>3, BackPlanned, SeenIs
  <2> QED BY <2>1, <2>2, <2>4
<1>2. CASE Execute
  BY <1>2, BackExecuted
<1>3. CASE StartOver
  <2>1. plan' = plan /\ rolling' = rolling /\ db' = db
    BY <1>3 DEF StartOver
  <2>2. rolling => todo' = plan.down /\ ToSet(todo) \subseteq ToSet(plan.down)
    BY <1>3 DEF StartOver, TypeInv, Now
  <2>3. PICK e, d, Q, R : e = plan.before /\ d = db /\ Q = ToSet(IF rolling THEN todo ELSE plan.down)
                          /\ R = ToSet(IF rolling THEN todo' ELSE plan.down)
    OBVIOUS
  <2>4. Q \subseteq R
    BY <2>2, <2>3
  <2>5. BackOf(e, Q, d) => BackOf(e, R, d)
    BY <2>4, BackWider
  <2> QED BY <2>1, <2>2, <2>3, <2>5 DEF BackInv
<1>4. CASE Rollback
  BY <1>4 DEF Rollback, BackInv
<1>5. ASSUME NEW t \in Tables, NEW r \in Rows, Write(t, r) PROVE BackInv'
  <2>1. t \in DOMAIN db.tables /\ db' = [db EXCEPT !.tables[t].rows = @ \cup {r}]
    BY <1>5 DEF Write, HasTable
  <2>2. HasRow(t, r, db, db')
    BY <2>1, WriteIs DEF TypeInv
  <2>3. plan' = plan /\ rolling' = rolling /\ todo' = todo
    BY <1>5 DEF Write
  <2> QED BY <2>2, <2>3, BackWritten DEF BackInv
<1>6. CASE UNCHANGED <<plan, todo, rolling, db>>
  BY <1>6 DEF BackInv
<1>7. Fail \/ Resume \/ UNCHANGED vars => UNCHANGED <<plan, todo, rolling, db>>
  BY DEF Fail, Resume, vars
<1> QED BY <1>1, <1>2, <1>3, <1>4, <1>5, <1>6, <1>7 DEF Next

LEMMA BackStarts ==
    ASSUME Init
    PROVE  BackInv
<1>1. PICK d, e : d = StoredSchema(FirstSchema) /\ e = Seen(d)
  OBVIOUS
<1>2. /\ db = d /\ rolling = FALSE
      /\ plan = [goal |-> FirstSchema, lost |-> NothingLost, before |-> e, up |-> <<>>, down |-> <<>>]
  BY <1>1 DEF Init, Seen
<1>3. plan.before = e /\ db = d /\ rolling = FALSE
  BY <1>2
<1>4. IsDb(d)
  BY <1>1, SchemasAssumption, StoredSchemaIs
<1>5. IsSeen(e) /\ \A Q : BackOf(e, Q, d)
  BY <1>1, <1>4, BackPlanned, SeenIs
<1> QED BY <1>3, <1>5 DEF BackInv

(***************************************************************************)
(* The end of the way back.                                                *)
(***************************************************************************)
Reverted(tables) ==
  [t \in DOMAIN tables |-> [tables[t] EXCEPT !.columns = [c \in DOMAIN @ |-> OldColumn(@[c])]]]

LEMMA TablesReverted ==
    ASSUME NEW d, IsDb(d), NEW e, IsSeen(e), TablesBack(e, {}, d.tables),
           NEW now, now = Seen(d)
    PROVE  Reverted(now.tables) = Reverted(e.tables)
<1>1. /\ DOMAIN now.tables = DOMAIN e.tables /\ IsSeen(now)
      /\ \A t \in DOMAIN e.tables : t \in DOMAIN d.tables /\ TableBack({}, t, e.tables[t], d.tables[t])
  BY IntrospectIs, SeenIs DEF TablesBack
<1>2. ASSUME NEW t \in DOMAIN e.tables PROVE Reverted(now.tables)[t] = Reverted(e.tables)[t]
  <2>1. PICK is, a, b : is = d.tables[t] /\ a = now.tables[t] /\ b = e.tables[t]
    OBVIOUS
  <2>2. /\ a = [columns |-> a.columns, key |-> a.key, dist |-> a.dist, props |-> a.props, indexes |-> a.indexes]
        /\ b = [columns |-> b.columns, key |-> b.key, dist |-> b.dist, props |-> b.props, indexes |-> b.indexes]
        /\ HasStoredParts(a) /\ HasStoredParts(b)
    BY <1>1, <2>1 DEF IsSeen, IsRead
  <2>3. /\ a.columns = is.columns /\ a.key = is.key /\ a.props = is.props /\ a.indexes = is.indexes
        /\ a.dist = Shown(is.dist)
    BY <1>1, <2>1, IntrospectIs DEF Shown
  <2>4. TableBack({}, t, b, is)
    BY <1>1, <2>1
  <2>5. /\ a.key = b.key /\ a.dist = b.dist /\ a.props = b.props
        /\ \A c : ColumnBack(b, a, c)
        /\ \A i : IndexBack(b, a, i)
    BY <2>3, <2>4 DEF TableBack, ColumnBack, IndexBack
  <2>6. a.indexes = b.indexes
    <3>1. a.indexes = [i \in DOMAIN a.indexes |-> a.indexes[i]] /\ b.indexes = [i \in DOMAIN b.indexes |-> b.indexes[i]]
      BY <2>2 DEF HasStoredParts, IsNaming
    <3>2. DOMAIN a.indexes = DOMAIN b.indexes /\ \A i \in DOMAIN a.indexes : a.indexes[i] = b.indexes[i]
      BY <2>5 DEF IndexBack
    <3> QED BY <3>1, <3>2
  <2>7. PICK f, g : f = [c \in DOMAIN a.columns |-> OldColumn(a.columns[c])]
                    /\ g = [c \in DOMAIN b.columns |-> OldColumn(b.columns[c])]
    OBVIOUS
  <2>8. f = g
    <3>1. DOMAIN a.columns = DOMAIN b.columns
      BY <2>5 DEF ColumnBack
    <3>2. \A c \in DOMAIN b.columns : OldColumn(a.columns[c]) = OldColumn(b.columns[c])
      BY <2>5 DEF ColumnBack
    <3> QED BY <2>7, <3>1, <3>2
  <2>9. [a EXCEPT !.columns = f] = [b EXCEPT !.columns = g]
    BY <2>2, <2>5, <2>6, <2>8
  <2>10. Reverted(now.tables)[t] = [a EXCEPT !.columns = f] /\ Reverted(e.tables)[t] = [b EXCEPT !.columns = g]
    BY <1>1, <2>1, <2>7 DEF Reverted
  <2> QED BY <2>9, <2>10
<1> QED BY <1>1, <1>2 DEF Reverted

LEMMA BackHolds ==
    ASSUME TypeInv, BackInv
    PROVE  RollbackRestores
<1> SUFFICES ASSUME phase = "done", rolling, plan.lost = NothingLost
             PROVE  /\ Reverted(Seen(db).tables) = Reverted(plan.before.tables)
                    /\ Seen(db).views = plan.before.views /\ Seen(db).mvs = plan.before.mvs
  BY DEF RollbackRestores, Reverted, Seen
<1>1. PICK d, e, now : d = db /\ e = plan.before /\ now = Seen(d)
  OBVIOUS
<1>2. todo = <<>> /\ IsDb(d) /\ IsRead(e) /\ IsRead(now)
  BY <1>1, SeenIs DEF TypeInv
<1>3. BackOf(e, {}, d) /\ IsSeen(e)
  BY <1>1, <1>2, NoneIsSeq DEF BackInv
<1>4. Reverted(now.tables) = Reverted(e.tables)
  BY <1>1, <1>2, <1>3, TablesReverted DEF BackOf
<1>5. now.views = e.views
  <2>1. /\ DOMAIN now.views = DOMAIN d.views
        /\ \A v \in DOMAIN d.views : now.views[v] = [d.views[v] EXCEPT !.security = Null]
    BY <1>1, <1>2, IntrospectIs
  <2>2. \A v : ViewBack(e.views, d.views, v)
    BY <1>3 DEF BackOf
  <2>3. DOMAIN now.views = DOMAIN e.views /\ \A v \in DOMAIN e.views : now.views[v] = e.views[v]
    BY <2>1, <2>2 DEF ViewBack
  <2>4. now.views = [v \in DOMAIN now.views |-> now.views[v]] /\ e.views = [v \in DOMAIN e.views |-> e.views[v]]
    BY <1>2 DEF IsRead, IsNaming
  <2> QED BY <2>3, <2>4
<1>6. now.mvs = e.mvs
  <2>1. now.mvs = d.mvs
    BY <1>1, <1>2, IntrospectIs
  <2>2. \A m : MVBack(e.mvs, d.mvs, m)
    BY <1>3 DEF BackOf
  <2>3. DOMAIN now.mvs = DOMAIN e.mvs /\ \A m \in DOMAIN e.mvs : now.mvs[m] = e.mvs[m]
    BY <2>1, <2>2 DEF MVBack
  <2>4. now.mvs = [m \in DOMAIN now.mvs |-> now.mvs[m]] /\ e.mvs = [m \in DOMAIN e.mvs |-> e.mvs[m]]
    BY <1>2 DEF IsRead, IsNaming
  <2> QED BY <2>3, <2>4
<1> QED BY <1>1, <1>4, <1>5, <1>6

\* A migration that was planned from a full answer and rolled back to the end, and
\* that needed no manual work, has left every table, column, index, view and
\* materialized view as it found it, up to an empty default.
THEOREM RollbackRestoresAlways == Spec => []RollbackRestores
<1>1. Init => TypeInv /\ BackInv
  BY TypeStarts, BackStarts
<1>2. TypeInv /\ BackInv /\ [Next]_vars => (TypeInv /\ BackInv)'
  BY TypeStays, BackStays
<1>3. TypeInv /\ BackInv => RollbackRestores
  BY BackHolds
<1> QED BY <1>1, <1>2, <1>3, PTL DEF Spec

(***************************************************************************)
(* Offline diffing: descriptions of a table that plans do not tell apart.  *)
(***************************************************************************)
\* Two descriptions of a table that a plan does not tell apart.
AlikeColumns(p, q) ==
  /\ DOMAIN p.columns = DOMAIN q.columns
  /\ \A c \in DOMAIN p.columns :
       /\ normalizeDataType(p.columns[c].type) = normalizeDataType(q.columns[c].type)
       /\ p.columns[c].nullable = q.columns[c].nullable
       /\ p.key # "PRIMARY" => p.columns[c].default = q.columns[c].default
AlikeIndexes(p, q) ==
  /\ DOMAIN p.indexes = DOMAIN q.indexes
  /\ \A i \in DOMAIN p.indexes : \A index :
       diffIndex(index, p.indexes[i]) <=> diffIndex(index, q.indexes[i])
AlikeDist(p, q) == \A d : DistributionChanged(d, p) <=> DistributionChanged(d, q)
Alike(p, q) ==
  /\ p.key = q.key /\ p.props = q.props /\ AlikeDist(p.dist, q.dist)
  /\ AlikeColumns(p, q) /\ AlikeIndexes(p, q) /\ IsFiniteSet(DOMAIN p.columns)

LEMMA UpOfThen ==
    ASSUME NEW p, NEW q
    PROVE  Then(p, q).up = p.up \o q.up
BY DEF Then

LEMMA UpOfThree ==
    ASSUME NEW p, NEW q, NEW r
    PROVE  Then(p, Then(q, r)).up = p.up \o (q.up \o r.up)
<1>1. PICK x : x = Then(q, r)
  OBVIOUS
<1>2. x.up = q.up \o r.up /\ Then(p, x).up = p.up \o x.up
  BY <1>1, UpOfThen
<1> QED BY <1>1, <1>2

LEMMA AlikeTableChange ==
    ASSUME NEW p, NEW q, Alike(p, q), NEW def, def.key = p.key
    PROVE  diffTable(def, p) = diffTable(def, q)
<1>1. PICK pk : pk = (def.key = "PRIMARY")
  OBVIOUS
<1>2. ASSUME NEW c \in DOMAIN p.columns, NEW d
      PROVE  diffColumn(d, p.columns[c], pk) = diffColumn(d, q.columns[c], pk)
  <2>1. /\ normalizeDataType(p.columns[c].type) = normalizeDataType(q.columns[c].type)
        /\ p.columns[c].nullable = q.columns[c].nullable
        /\ ~pk => p.columns[c].default = q.columns[c].default
    BY <1>1 DEF Alike, AlikeColumns
  <2> QED BY <2>1 DEF diffColumn
<1>3. diffTable(def, p).columns = diffTable(def, q).columns
  <2>1. DOMAIN p.columns = DOMAIN q.columns
    BY DEF Alike, AlikeColumns
  <2>2. {c \in DOMAIN def.columns \cap DOMAIN p.columns : diffColumn(def.columns[c], p.columns[c], pk) # {}}
          = {c \in DOMAIN def.columns \cap DOMAIN q.columns : diffColumn(def.columns[c], q.columns[c], pk) # {}}
    BY <1>2, <2>1
  <2>3. \A x : diffTable(def, x).columns
          = [add |-> DOMAIN def.columns \ DOMAIN x.columns, remove |-> DOMAIN x.columns \ DOMAIN def.columns,
             modify |-> {c \in DOMAIN def.columns \cap DOMAIN x.columns : diffColumn(def.columns[c], x.columns[c], pk) # {}}]
    BY <1>1 DEF diffTable, Changes
  <2> QED BY <2>1, <2>2, <2>3
<1>4. diffTable(def, p).indexes = diffTable(def, q).indexes
  <2>1. DOMAIN p.indexes = DOMAIN q.indexes
    BY DEF Alike, AlikeIndexes
  <2>2. \A i \in DOMAIN p.indexes : diffIndex(def.indexes[i], p.indexes[i]) <=> diffIndex(def.indexes[i], q.indexes[i])
    BY DEF Alike, AlikeIndexes
  <2>3. {i \in DOMAIN def.indexes \cap DOMAIN p.indexes : diffIndex(def.indexes[i], p.indexes[i])}
          = {i \in DOMAIN def.indexes \cap DOMAIN q.indexes : diffIndex(def.indexes[i], q.indexes[i])}
    BY <2>1, <2>2
  <2>4. \A x : diffTable(def, x).indexes
          = [add |-> DOMAIN def.indexes \ DOMAIN x.indexes, remove |-> DOMAIN x.indexes \ DOMAIN def.indexes,
             modify |-> {i \in DOMAIN def.indexes \cap DOMAIN x.indexes : diffIndex(def.indexes[i], x.indexes[i])}]
    BY DEF diffTable, Changes
  <2> QED BY <2>1, <2>3, <2>4
<1>5. diffTable(def, p).propertyChanges = diffTable(def, q).propertyChanges
  <2>1. /\ diffTable(def, p).propertyChanges = diffProperties(def, p)
        /\ diffTable(def, q).propertyChanges = diffProperties(def, q)
    BY DEF diffTable
  <2>2. p.props = q.props
    BY DEF Alike
  <2>3. diffProperties(def, p) = diffProperties(def, q)
    BY <2>2 DEF diffProperties
  <2> QED BY <2>1, <2>3
<1>6. diffTable(def, p).keyChange = diffTable(def, q).keyChange
  BY DiffTableIs DEF Alike
<1>7. diffTable(def, p).distributionChange = diffTable(def, q).distributionChange
  <2>1. DistributionChanged(def.dist, p.dist) <=> DistributionChanged(def.dist, q.dist)
    BY DEF Alike, AlikeDist
  <2>2. DistributionChanged(def.dist, p.dist) \in BOOLEAN /\ DistributionChanged(def.dist, q.dist) \in BOOLEAN
    BY DEF DistributionChanged
  <2>3. DistributionChanged(def.dist, p.dist) = DistributionChanged(def.dist, q.dist)
    BY <2>1, <2>2
  <2> QED BY <2>3, DiffTableIs
<1>8. \A x : diffTable(def, x) = [columns |-> diffTable(def, x).columns, keyChange |-> diffTable(def, x).keyChange,
         distributionChange |-> diffTable(def, x).distributionChange,
         propertyChanges |-> diffTable(def, x).propertyChanges, indexes |-> diffTable(def, x).indexes]
  BY DEF diffTable
<1> QED BY <1>3, <1>4, <1>5, <1>6, <1>7, <1>8

LEMMA AlikeChanges ==
    ASSUME NEW p, NEW q, Alike(p, q), NEW def
    PROVE  /\ diffTable(def, p).keyChange <=> diffTable(def, q).keyChange
           /\ diffTable(def, p).distributionChange <=> diffTable(def, q).distributionChange
           /\ diffTable(def, p) # NoTableChange <=> diffTable(def, q) # NoTableChange
<1>1. /\ diffTable(def, p).keyChange = (def.key # p.key) /\ diffTable(def, q).keyChange = (def.key # q.key)
      /\ p.key = q.key
  BY DiffTableIs DEF Alike
<1>2. diffTable(def, p).distributionChange <=> diffTable(def, q).distributionChange
  <2>1. DistributionChanged(def.dist, p.dist) <=> DistributionChanged(def.dist, q.dist)
    BY DEF Alike, AlikeDist
  <2> QED BY <2>1, DiffTableIs
<1>3. CASE def.key = p.key
  BY <1>1, <1>2, <1>3, AlikeTableChange
<1>4. CASE def.key # p.key
  <2>1. NoTableChange.keyChange = FALSE
    BY DEF NoTableChange
  <2>2. diffTable(def, p).keyChange = TRUE /\ diffTable(def, q).keyChange = TRUE
    BY <1>1, <1>4
  <2>3. diffTable(def, p) # NoTableChange /\ diffTable(def, q) # NoTableChange
    BY <2>1, <2>2
  <2> QED BY <1>2, <2>2, <2>3
<1> QED BY <1>3, <1>4

LEMMA AlikeAlter ==
    ASSUME NEW p, NEW q, Alike(p, q), NEW def, NEW t
    PROVE  generateTableAlterStatements(t, def, p).up = generateTableAlterStatements(t, def, q).up
<1>1. /\ diffTable(def, p).keyChange <=> diffTable(def, q).keyChange
      /\ diffTable(def, p).distributionChange <=> diffTable(def, q).distributionChange
  BY AlikeChanges
<1>2. CASE diffTable(def, p).keyChange \/ diffTable(def, p).distributionChange
  BY <1>1, <1>2 DEF generateTableAlterStatements
<1>3. CASE ~(diffTable(def, p).keyChange \/ diffTable(def, p).distributionChange)
  <2>1. PICK change : change = diffTable(def, p)
    OBVIOUS
  <2>2. diffTable(def, q) = change
    <3>1. def.key = p.key
      BY <1>3, DiffTableIs
    <3> QED BY <2>1, <3>1, AlikeTableChange
  <2>3. PICK rest : rest = Then(generateIndexAlterStatements(t, def, change.indexes),
                                SetProperties(t, def, change.propertyChanges))
    OBVIOUS
  <2>4. \A x : diffTable(def, x) = change =>
          generateTableAlterStatements(t, def, x) = Then(generateColumnAlterStatements(t, def, x, change.columns), rest)
    BY <1>3, <2>1, <2>3 DEF generateTableAlterStatements
  <2>5. generateColumnAlterStatements(t, def, p, change.columns).up
          = generateColumnAlterStatements(t, def, q, change.columns).up
    <3> DEFINE added == [c \in change.columns.add |-> [up   |-> <<AddColumn(t, c, def.columns[c])>>,
                                                       down |-> <<DropColumn(t, c)>>]]
               removed(x) == [c \in change.columns.remove |->
                                [up   |-> <<DropColumn(t, c)>>,
                                 down |-> <<AddColumn(t, c, OldColumn(x.columns[c]))>>]]
               modified(x) == [c \in change.columns.modify |-> ModifiedColumn(t, c, def, x)]
    <3>1. \A x : generateColumnAlterStatements(t, def, x, change.columns)
                   = Then(Gather(added), Then(Gather(removed(x)), Gather(modified(x))))
      BY DEF generateColumnAlterStatements
    <3>2. IsFiniteSet(change.columns.remove) /\ IsFiniteSet(change.columns.modify)
      <4>1. change.columns.remove \subseteq DOMAIN p.columns /\ change.columns.modify \subseteq DOMAIN p.columns
        BY <2>1, DiffTableIs
      <4> QED BY <4>1, FS_Subset DEF Alike
    <3>3. Gather(removed(p)).up = Gather(removed(q)).up
      <4>1. /\ DOMAIN removed(p) = DOMAIN removed(q) /\ IsFiniteSet(DOMAIN removed(p))
            /\ \A c \in DOMAIN removed(p) : removed(p)[c].up = removed(q)[c].up
        BY <3>2
      <4> HIDE DEF removed
      <4> QED BY <4>1, GatheredSame
    <3>4. Gather(modified(p)).up = Gather(modified(q)).up
      <4>1. /\ DOMAIN modified(p) = DOMAIN modified(q) /\ IsFiniteSet(DOMAIN modified(p))
            /\ \A c \in DOMAIN modified(p) : modified(p)[c].up = modified(q)[c].up
        BY <3>2 DEF ModifiedColumn
      <4> HIDE DEF modified
      <4> QED BY <4>1, GatheredSame
    <3> HIDE DEF added, removed, modified
    <3>5. \A x : generateColumnAlterStatements(t, def, x, change.columns).up
                   = Gather(added).up \o (Gather(removed(x)).up \o Gather(modified(x)).up)
      <4> TAKE x
      <4>1. PICK a, b, c : a = Gather(added) /\ b = Gather(removed(x)) /\ c = Gather(modified(x))
        OBVIOUS
      <4>2. generateColumnAlterStatements(t, def, x, change.columns) = Then(a, Then(b, c))
        BY <3>1, <4>1
      <4>3. Then(a, Then(b, c)).up = a.up \o (b.up \o c.up)
        BY UpOfThree
      <4> QED BY <4>1, <4>2, <4>3
    <3>6. /\ generateColumnAlterStatements(t, def, p, change.columns).up
               = Gather(added).up \o (Gather(removed(p)).up \o Gather(modified(p)).up)
          /\ generateColumnAlterStatements(t, def, q, change.columns).up
               = Gather(added).up \o (Gather(removed(q)).up \o Gather(modified(q)).up)
      BY <3>5
    <3> QED BY <3>3, <3>4, <3>6
  <2>6. generateTableAlterStatements(t, def, p) = Then(generateColumnAlterStatements(t, def, p, change.columns), rest)
    BY <2>1, <2>4
  <2>7. generateTableAlterStatements(t, def, q) = Then(generateColumnAlterStatements(t, def, q, change.columns), rest)
    BY <2>2, <2>4
  <2> QED BY <2>5, <2>6, <2>7, UpOfThen
<1> QED BY <1>2, <1>3

(***************************************************************************)
(* Descriptions that plans do not tell apart.                              *)
(***************************************************************************)
AlikeReads(o, e) ==
  /\ DOMAIN o.tables = DOMAIN e.tables /\ IsFiniteSet(DOMAIN o.tables)
  /\ \A t \in DOMAIN o.tables : Alike(o.tables[t], e.tables[t])
  /\ DOMAIN o.views = DOMAIN e.views
  /\ \A v \in DOMAIN o.views : \A d : diffView(d, o.views[v]) <=> diffView(d, e.views[v])
  /\ DOMAIN o.mvs = DOMAIN e.mvs
  /\ \A m \in DOMAIN o.mvs : \A d :
       diffMaterializedView(d, o.mvs[m]) = diffMaterializedView(d, e.mvs[m])

LEMMA AlikeDiffs ==
    ASSUME NEW o, NEW e, AlikeReads(o, e), NEW s
    PROVE  diffSchema(s, o) = diffSchema(s, e)
<1>1. \A x : diffSchema(s, x).tables
        = [add |-> DOMAIN s.tables \ DOMAIN x.tables, remove |-> DOMAIN x.tables \ DOMAIN s.tables,
           modify |-> {t \in DOMAIN s.tables \cap DOMAIN x.tables : diffTable(s.tables[t], x.tables[t]) # NoTableChange}]
  BY DEF diffSchema, Changes
<1>2. \A x : diffSchema(s, x).views
        = [add |-> DOMAIN s.views \ DOMAIN x.views, remove |-> DOMAIN x.views \ DOMAIN s.views,
           modify |-> {v \in DOMAIN s.views \cap DOMAIN x.views : diffView(s.views[v], x.views[v])}]
  BY DEF diffSchema, Changes
<1>3. \A x : diffSchema(s, x).mvs
        = [add |-> DOMAIN s.mvs \ DOMAIN x.mvs, remove |-> DOMAIN x.mvs \ DOMAIN s.mvs,
           modify |-> {m \in DOMAIN s.mvs \cap DOMAIN x.mvs : diffMaterializedView(s.mvs[m], x.mvs[m]) # "none"}]
  BY DEF diffSchema, Changes
<1>4. \A x : diffSchema(s, x) = [tables |-> diffSchema(s, x).tables, views |-> diffSchema(s, x).views,
                                 mvs |-> diffSchema(s, x).mvs]
  BY DEF diffSchema
<1>5. /\ DOMAIN o.tables = DOMAIN e.tables /\ DOMAIN o.views = DOMAIN e.views /\ DOMAIN o.mvs = DOMAIN e.mvs
      /\ \A v \in DOMAIN o.views : diffView(s.views[v], o.views[v]) <=> diffView(s.views[v], e.views[v])
      /\ \A m \in DOMAIN o.mvs : diffMaterializedView(s.mvs[m], o.mvs[m]) = diffMaterializedView(s.mvs[m], e.mvs[m])
  BY DEF AlikeReads
<1>6. \A t \in DOMAIN o.tables : diffTable(s.tables[t], o.tables[t]) # NoTableChange
                                   <=> diffTable(s.tables[t], e.tables[t]) # NoTableChange
  BY AlikeChanges DEF AlikeReads
<1>7. diffSchema(s, o).tables = diffSchema(s, e).tables
  <2>1. {t \in DOMAIN s.tables \cap DOMAIN o.tables : diffTable(s.tables[t], o.tables[t]) # NoTableChange}
          = {t \in DOMAIN s.tables \cap DOMAIN e.tables : diffTable(s.tables[t], e.tables[t]) # NoTableChange}
    BY <1>5, <1>6
  <2> QED BY <1>1, <1>5, <2>1
<1>8. diffSchema(s, o).views = diffSchema(s, e).views
  <2>1. {v \in DOMAIN s.views \cap DOMAIN o.views : diffView(s.views[v], o.views[v])}
          = {v \in DOMAIN s.views \cap DOMAIN e.views : diffView(s.views[v], e.views[v])}
    BY <1>5
  <2> QED BY <1>2, <1>5, <2>1
<1>9. diffSchema(s, o).mvs = diffSchema(s, e).mvs
  <2>1. {m \in DOMAIN s.mvs \cap DOMAIN o.mvs : diffMaterializedView(s.mvs[m], o.mvs[m]) # "none"}
          = {m \in DOMAIN s.mvs \cap DOMAIN e.mvs : diffMaterializedView(s.mvs[m], e.mvs[m]) # "none"}
    BY <1>5
  <2> QED BY <1>3, <1>5, <2>1
<1> QED BY <1>4, <1>7, <1>8, <1>9

LEMMA AlikePlans ==
    ASSUME NEW o, NEW e, AlikeReads(o, e), NEW s
    PROVE  generateMigration(s, o).up = generateMigration(s, e).up
<1>1. PICK diff : diff = diffSchema(s, o)
  OBVIOUS
<1>2. diff = diffSchema(s, e)
  BY <1>1, AlikeDiffs
<1>3. generateTableMigrations(s, diff, o).up = generateTableMigrations(s, diff, e).up
  <2> DEFINE added == [t \in diff.tables.add |->
                  [up   |-> <<CreateTable(t, s.tables[t])>>
                              \o CreateIndexes(t, s.tables[t].indexes),
                   down |-> <<DropTable(t)>>]]
             removed == [t \in diff.tables.remove |-> [up |-> <<DropTable(t)>>, down |-> <<Manual>>]]
             modified(x) == [t \in diff.tables.modify |->
                               generateTableAlterStatements(t, s.tables[t], x.tables[t])]
  <2>1. \A x : generateTableMigrations(s, diff, x) = Then(Gather(added), Then(Gather(removed), Gather(modified(x))))
    BY DEF generateTableMigrations
  <2>2. diff.tables.modify \subseteq DOMAIN o.tables /\ IsFiniteSet(diff.tables.modify)
    <3>1. diff.tables.modify \subseteq DOMAIN o.tables
      BY <1>1, DiffSchemaIs DEF Remade, Changed, Between
    <3> QED BY <3>1, FS_Subset DEF AlikeReads
  <2>3. Gather(modified(o)).up = Gather(modified(e)).up
    <3>1. \A t \in DOMAIN o.tables : generateTableAlterStatements(t, s.tables[t], o.tables[t]).up
                                       = generateTableAlterStatements(t, s.tables[t], e.tables[t]).up
      BY AlikeAlter DEF AlikeReads
    <3>2. /\ DOMAIN modified(o) = DOMAIN modified(e) /\ IsFiniteSet(DOMAIN modified(o))
          /\ \A t \in DOMAIN modified(o) : modified(o)[t].up = modified(e)[t].up
      BY <2>2, <3>1
    <3> HIDE DEF modified
    <3> QED BY <3>2, GatheredSame
  <2> HIDE DEF added, removed, modified
  <2>4. PICK a, b, c, d : /\ a = Gather(added) /\ b = Gather(removed)
                          /\ c = Gather(modified(o)) /\ d = Gather(modified(e))
    OBVIOUS
  <2>5. /\ generateTableMigrations(s, diff, o) = Then(a, Then(b, c))
        /\ generateTableMigrations(s, diff, e) = Then(a, Then(b, d))
    BY <2>1, <2>4
  <2>6. Then(a, Then(b, c)).up = a.up \o (b.up \o c.up) /\ Then(a, Then(b, d)).up = a.up \o (b.up \o d.up)
    BY UpOfThree
  <2> QED BY <2>3, <2>4, <2>5, <2>6
<1>4. generateMaterializedViewMigrations(s, diff, o) = generateMaterializedViewMigrations(s, diff, e)
  <2>1. diff.mvs.modify \subseteq DOMAIN o.mvs
    BY <1>1, DiffSchemaIs
  <2>2. \A m \in diff.mvs.modify : ModifiedMV(m, s.mvs[m], o.mvs[m]) = ModifiedMV(m, s.mvs[m], e.mvs[m])
    <3> TAKE m \in diff.mvs.modify
    <3>1. diffMaterializedView(s.mvs[m], o.mvs[m]) = diffMaterializedView(s.mvs[m], e.mvs[m])
      BY <2>1 DEF AlikeReads
    <3> QED BY <3>1 DEF ModifiedMV
  <2>3. [m \in diff.mvs.modify |-> ModifiedMV(m, s.mvs[m], o.mvs[m])]
          = [m \in diff.mvs.modify |-> ModifiedMV(m, s.mvs[m], e.mvs[m])]
    BY <2>2
  <2> QED BY <2>3 DEF generateMaterializedViewMigrations
<1>5. PICK a, b, c, d : /\ a = generateTableMigrations(s, diff, o) /\ b = generateTableMigrations(s, diff, e)
                        /\ c = generateViewMigrations(s, diff)
                        /\ d = generateMaterializedViewMigrations(s, diff, o)
  OBVIOUS
<1>6. generateMigration(s, o) = Then(a, Then(c, d))
  BY <1>1, <1>5 DEF generateMigration
<1>7. generateMigration(s, e) = Then(b, Then(c, d))
  BY <1>2, <1>4, <1>5 DEF generateMigration
<1>8. Then(a, Then(c, d)).up = a.up \o (c.up \o d.up) /\ Then(b, Then(c, d)).up = b.up \o (c.up \o d.up)
  BY UpOfThree
<1> QED BY <1>3, <1>5, <1>6, <1>7, <1>8

(***************************************************************************)
(* The snapshot of a schema and the description of its database.           *)
(***************************************************************************)
LEMMA TableSnapshot ==
  ASSUME NEW t, IsTable(t)
  PROVE  LET e == tableToIntrospected(t) IN
         /\ e.columns = t.columns /\ e.key = t.key /\ e.indexes = t.indexes
         /\ e.props = [k \in DOMAIN t.props |-> Stringify(t.props[k])]
         /\ e.dist = IF t.dist.type = Null THEN NoDistribution
                     ELSE [type    |-> t.dist.type,
                           columns |-> IF t.dist.type = "HASH" THEN t.dist.columns ELSE <<>>,
                           buckets |-> IF t.dist.buckets = NoBuckets THEN NullBuckets
                                       ELSE t.dist.buckets]
BY DEF IsTable, tableToIntrospected

\* A table and a description of it between which the differ finds nothing, and
\* which has nothing beyond the definition.
Matches(def, q) ==
  /\ diffTable(def, q) = NoTableChange
  /\ DOMAIN q.props = DOMAIN def.props
  /\ def.dist.type = Null => q.dist.type = Null
  /\ \A i \in DOMAIN def.indexes : DOMAIN q.indexes[i].params = DOMAIN def.indexes[i].params

LEMMA MatchIs ==
    ASSUME NEW def, NEW q, diffTable(def, q) = NoTableChange
    PROVE  /\ def.key = q.key /\ DOMAIN def.columns = DOMAIN q.columns
           /\ \A c \in DOMAIN def.columns : diffColumn(def.columns[c], q.columns[c], def.key = "PRIMARY") = {}
           /\ ~DistributionChanged(def.dist, q.dist) /\ diffProperties(def, q) = {}
           /\ DOMAIN def.indexes = DOMAIN q.indexes
           /\ \A i \in DOMAIN def.indexes : ~diffIndex(def.indexes[i], q.indexes[i])
<1>1. PICK d : d = diffTable(def, q)
  OBVIOUS
<1>2. /\ d.columns.add = {} /\ d.columns.remove = {} /\ d.columns.modify = {}
      /\ d.indexes.add = {} /\ d.indexes.remove = {} /\ d.indexes.modify = {}
      /\ d.keyChange = FALSE /\ d.distributionChange = FALSE /\ d.propertyChanges = {}
  BY <1>1 DEF NoTableChange, NoChanges
<1>3. /\ d.columns.add = DOMAIN def.columns \ DOMAIN q.columns
      /\ d.columns.remove = DOMAIN q.columns \ DOMAIN def.columns
      /\ d.columns.modify = {c \in DOMAIN def.columns \cap DOMAIN q.columns :
           diffColumn(def.columns[c], q.columns[c], def.key = "PRIMARY") # {}}
      /\ d.indexes.add = DOMAIN def.indexes \ DOMAIN q.indexes
      /\ d.indexes.remove = DOMAIN q.indexes \ DOMAIN def.indexes
      /\ d.indexes.modify = {i \in DOMAIN def.indexes \cap DOMAIN q.indexes :
           diffIndex(def.indexes[i], q.indexes[i])}
      /\ d.keyChange = (def.key # q.key)
      /\ d.distributionChange = DistributionChanged(def.dist, q.dist)
      /\ d.propertyChanges = diffProperties(def, q)
  BY <1>1, DiffTableIs
<1>4. def.key = q.key /\ ~DistributionChanged(def.dist, q.dist) /\ diffProperties(def, q) = {}
  BY <1>2, <1>3
<1>5. DOMAIN def.columns = DOMAIN q.columns /\ DOMAIN def.indexes = DOMAIN q.indexes
  BY <1>2, <1>3
<1>6. \A c \in DOMAIN def.columns : diffColumn(def.columns[c], q.columns[c], def.key = "PRIMARY") = {}
  BY <1>2, <1>3, <1>5
<1>7. \A i \in DOMAIN def.indexes : ~diffIndex(def.indexes[i], q.indexes[i])
  BY <1>2, <1>3, <1>5
<1> QED BY <1>4, <1>5, <1>6, <1>7

LEMMA MatchesAlike ==
    ASSUME NEW def, IsTable(def), NEW q, Matches(def, q), IsNaming(q.props),
           \A i \in DOMAIN q.indexes : \E C : IsIndex(q.indexes[i], C),
           q.dist.type # Null => q.dist.buckets # NoBuckets
    PROVE  Alike(tableToIntrospected(def), q)
<1>1. PICK p : p = tableToIntrospected(def)
  OBVIOUS
<1>2. /\ p.columns = def.columns /\ p.key = def.key /\ p.indexes = def.indexes
      /\ p.props = [k \in DOMAIN def.props |-> Stringify(def.props[k])]
      /\ p.dist = IF def.dist.type = Null THEN NoDistribution
                  ELSE [type    |-> def.dist.type,
                        columns |-> IF def.dist.type = "HASH" THEN def.dist.columns ELSE <<>>,
                        buckets |-> IF def.dist.buckets = NoBuckets THEN NullBuckets ELSE def.dist.buckets]
  BY <1>1, TableSnapshot
<1>3. /\ def.key = q.key /\ DOMAIN def.columns = DOMAIN q.columns
      /\ \A c \in DOMAIN def.columns : diffColumn(def.columns[c], q.columns[c], def.key = "PRIMARY") = {}
      /\ ~DistributionChanged(def.dist, q.dist) /\ diffProperties(def, q) = {}
      /\ DOMAIN def.indexes = DOMAIN q.indexes
      /\ \A i \in DOMAIN def.indexes : ~diffIndex(def.indexes[i], q.indexes[i])
  BY MatchIs DEF Matches
<1>4. AlikeColumns(p, q)
  <2>1. ASSUME NEW c \in DOMAIN def.columns
        PROVE  /\ normalizeDataType(def.columns[c].type) = normalizeDataType(q.columns[c].type)
               /\ def.columns[c].nullable = q.columns[c].nullable
               /\ def.key # "PRIMARY" => def.columns[c].default = q.columns[c].default
    <3>1. diffColumn(def.columns[c], q.columns[c], def.key = "PRIMARY") = {}
      BY <1>3
    <3> QED BY <3>1 DEF diffColumn
  <2> QED BY <1>2, <1>3, <2>1 DEF AlikeColumns
<1>5. p.props = q.props
  <2>1. DOMAIN q.props = DOMAIN def.props
    BY DEF Matches
  <2>2. \A k \in DOMAIN def.props : q.props[k] = Stringify(def.props[k])
    BY <1>3, <2>1 DEF diffProperties
  <2>3. q.props = [k \in DOMAIN q.props |-> q.props[k]]
    BY DEF IsNaming
  <2> QED BY <1>2, <2>1, <2>2, <2>3
<1>6. AlikeIndexes(p, q)
  <2>1. ASSUME NEW i \in DOMAIN def.indexes, NEW index
        PROVE  diffIndex(index, def.indexes[i]) <=> diffIndex(index, q.indexes[i])
    <3>1. PICK a, b : a = def.indexes[i] /\ b = q.indexes[i]
      OBVIOUS
    <3>2. ~diffIndex(a, b) /\ DOMAIN b.params = DOMAIN a.params
      BY <1>3, <3>1 DEF Matches
    <3>3. /\ a.type = b.type /\ a.columns = b.columns
          /\ \A k \in DOMAIN a.params : b.params[k] = a.params[k]
      BY <3>2 DEF diffIndex
    <3>4. diffIndex(index, a) <=> diffIndex(index, b)
      BY <3>2, <3>3 DEF diffIndex
    <3> QED BY <3>1, <3>4
  <2> QED BY <1>2, <1>3, <2>1 DEF AlikeIndexes
<1>7. AlikeDist(p.dist, q.dist)
  <2>1. CASE def.dist.type = Null
    <3>1. p.dist.type = Null /\ q.dist.type = Null
      BY <1>2, <2>1 DEF NoDistribution, Matches
    <3> QED BY <3>1 DEF AlikeDist, DistributionChanged
  <2>2. CASE def.dist.type = "RANDOM"
    <3>1. p.dist.type = "RANDOM" /\ q.dist.type = "RANDOM"
      BY <1>2, <1>3, <2>2 DEF DistributionChanged, Null
    <3>2. \A d : /\ DistributionChanged(d, p.dist) <=> d.type # Null /\ d.type # "RANDOM"
                 /\ DistributionChanged(d, q.dist) <=> d.type # Null /\ d.type # "RANDOM"
      BY <3>1 DEF DistributionChanged
    <3> QED BY <3>2 DEF AlikeDist
  <2>3. CASE def.dist.type = "HASH"
    <3>1. /\ q.dist.type = "HASH" /\ q.dist.columns = def.dist.columns /\ q.dist.buckets = def.dist.buckets
      BY <1>3, <2>3 DEF DistributionChanged, Null
    <3>2. def.dist.buckets # NoBuckets
      BY <3>1 DEF Null
    <3>3. p.dist.type = "HASH" /\ p.dist.columns = def.dist.columns /\ p.dist.buckets = def.dist.buckets
      BY <1>2, <2>3, <3>2 DEF Null
    <3> QED BY <3>1, <3>3 DEF AlikeDist, DistributionChanged
  <2> QED BY <2>1, <2>2, <2>3 DEF IsTable, IsDistribution
<1>8. IsFiniteSet(DOMAIN p.columns)
  BY <1>2 DEF IsTable, IsNaming
<1> QED BY <1>1, <1>2, <1>3, <1>4, <1>5, <1>6, <1>7, <1>8 DEF Alike

LEMMA ViewsAlike ==
    ASSUME NEW def, NEW q, q.security = Null, ~diffView(def, q), NEW d
    PROVE  diffView(d, def) <=> diffView(d, q)
BY DEF diffView

LEMMA MVsAlike ==
    ASSUME NEW def, IsMV(def), NEW q, diffMaterializedView(def, q) = "none",
           def.dist.type = Null => q.dist.type = Null, NEW d
    PROVE  diffMaterializedView(d, materializedViewToIntrospected(def)) = diffMaterializedView(d, q)
<1>1. PICK p : p = materializedViewToIntrospected(def)
  OBVIOUS
<1>2. /\ p.columns = def.columns /\ p.refresh = def.refresh /\ p.dist.type = def.dist.type
      /\ def.dist.type = "HASH" => p.dist.columns = def.dist.columns
  BY <1>1 DEF materializedViewToIntrospected, IsMV, IsDistribution
<1>3. def.refresh = q.refresh /\ def.columns = q.columns
  BY DEF diffMaterializedView
<1>4. /\ def.dist.type # Null => def.dist.type = q.dist.type
      /\ def.dist.type = "HASH" => q.dist.columns = def.dist.columns
  BY DEF diffMaterializedView, Null
<1>5. p.dist.type = q.dist.type
  BY <1>2, <1>4
<1>6. diffMaterializedView(d, p) = diffMaterializedView(d, q)
  <2>1. d.dist.type = "HASH" /\ p.dist.type = "HASH" => p.dist.columns = q.dist.columns
    BY <1>2, <1>4
  <2>2. (\/ d.dist.type # p.dist.type
         \/ d.dist.type = "HASH" /\ d.dist.columns # p.dist.columns)
         <=> (\/ d.dist.type # q.dist.type
              \/ d.dist.type = "HASH" /\ d.dist.columns # q.dist.columns)
    BY <1>5, <2>1
  <2>3. d.refresh # p.refresh <=> d.refresh # q.refresh
    BY <1>2, <1>3
  <2>4. d.columns # p.columns <=> d.columns # q.columns
    BY <1>2, <1>3
  <2> QED BY <2>2, <2>3, <2>4 DEF diffMaterializedView
<1> QED BY <1>1, <1>6

LEMMA SnapshotAlike ==
    ASSUME NEW s, IsSchema(s), NEW d, IsDb(d),
           ~hasChanges(diffSchema(s, Seen(d))), NothingBeyond(s, Seen(d))
    PROVE  AlikeReads(schemaToIntrospected(s), Seen(d))
<1>1. PICK o, e : o = schemaToIntrospected(s) /\ e = Seen(d)
  OBVIOUS
<1>2. /\ DOMAIN o.tables = DOMAIN s.tables
      /\ \A t \in DOMAIN s.tables : o.tables[t] = tableToIntrospected(s.tables[t])
      /\ o.views = s.views /\ DOMAIN o.mvs = DOMAIN s.mvs
      /\ \A m \in DOMAIN s.mvs : o.mvs[m] = materializedViewToIntrospected(s.mvs[m])
  BY <1>1 DEF schemaToIntrospected
<1>3. PICK diff : diff = diffSchema(s, e)
  OBVIOUS
<1>4. diff.tables = NoChanges /\ diff.views = NoChanges /\ diff.mvs = NoChanges
  BY <1>1, <1>3 DEF hasChanges
<1>5. /\ diff.tables.add = {} /\ diff.tables.remove = {} /\ diff.tables.modify = {}
      /\ diff.views.add = {} /\ diff.views.remove = {} /\ diff.views.modify = {}
      /\ diff.mvs.add = {} /\ diff.mvs.remove = {} /\ diff.mvs.modify = {}
  BY <1>4 DEF NoChanges
<1>6. /\ diff.tables.add = DOMAIN s.tables \ DOMAIN e.tables
      /\ diff.tables.remove = DOMAIN e.tables \ DOMAIN s.tables
      /\ diff.tables.modify = {t \in DOMAIN s.tables \cap DOMAIN e.tables : diffTable(s.tables[t], e.tables[t]) # NoTableChange}
  BY <1>3 DEF diffSchema, Changes
<1>7. /\ diff.views.add = DOMAIN s.views \ DOMAIN e.views
      /\ diff.views.remove = DOMAIN e.views \ DOMAIN s.views
      /\ diff.views.modify = {v \in DOMAIN s.views \cap DOMAIN e.views : diffView(s.views[v], e.views[v])}
      /\ diff.mvs.add = DOMAIN s.mvs \ DOMAIN e.mvs
      /\ diff.mvs.remove = DOMAIN e.mvs \ DOMAIN s.mvs
      /\ diff.mvs.modify = {m \in DOMAIN s.mvs \cap DOMAIN e.mvs : diffMaterializedView(s.mvs[m], e.mvs[m]) # "none"}
  BY <1>3, DiffSchemaIs
<1>8. DOMAIN s.tables = DOMAIN e.tables /\ DOMAIN s.views = DOMAIN e.views /\ DOMAIN s.mvs = DOMAIN e.mvs
  BY <1>5, <1>6, <1>7
<1>9. /\ \A t \in DOMAIN s.tables : diffTable(s.tables[t], e.tables[t]) = NoTableChange
      /\ \A v \in DOMAIN s.views : ~diffView(s.views[v], e.views[v])
      /\ \A m \in DOMAIN s.mvs : diffMaterializedView(s.mvs[m], e.mvs[m]) = "none"
  BY <1>5, <1>6, <1>7, <1>8
<1>10. /\ DOMAIN e.tables = DOMAIN d.tables /\ DOMAIN e.views = DOMAIN d.views /\ e.mvs = d.mvs
       /\ \A t \in DOMAIN d.tables :
            /\ e.tables[t].props = d.tables[t].props /\ e.tables[t].indexes = d.tables[t].indexes
            /\ e.tables[t].dist = IF d.tables[t].dist.buckets = NoBuckets THEN NoDistribution ELSE d.tables[t].dist
       /\ \A v \in DOMAIN d.views : e.views[v] = [d.views[v] EXCEPT !.security = Null]
  BY <1>1, IntrospectIs
<1>11. ASSUME NEW t \in DOMAIN s.tables PROVE Alike(o.tables[t], e.tables[t])
  <2>1. PICK def, q, is : def = s.tables[t] /\ q = e.tables[t] /\ is = d.tables[t]
    OBVIOUS
  <2>2. IsTable(def) /\ IsStoredTable(is)
    BY <1>8, <1>10, <2>1 DEF IsSchema, IsDb
  <2>3. q.props = is.props /\ q.indexes = is.indexes
        /\ q.dist = IF is.dist.buckets = NoBuckets THEN NoDistribution ELSE is.dist
    BY <1>8, <1>10, <2>1
  <2>4. Matches(def, q)
    BY <1>1, <1>9, <2>1 DEF Matches, NothingBeyond
  <2>5. IsNaming(q.props) /\ \A i \in DOMAIN q.indexes : \E C : IsIndex(q.indexes[i], C)
    BY <2>2, <2>3 DEF IsStoredTable, HasStoredParts
  <2>6. q.dist.type # Null => q.dist.buckets # NoBuckets
    BY <2>3 DEF NoDistribution
  <2>7. Alike(tableToIntrospected(def), q)
    BY <2>2, <2>4, <2>5, <2>6, MatchesAlike
  <2> QED BY <1>2, <2>1, <2>7
<1>12. ASSUME NEW v \in DOMAIN s.views, NEW x PROVE diffView(x, o.views[v]) <=> diffView(x, e.views[v])
  <2>1. PICK def, q : def = s.views[v] /\ q = e.views[v]
    OBVIOUS
  <2>2. q.security = Null
    <3>1. IsView(d.views[v]) /\ q = [d.views[v] EXCEPT !.security = Null]
      BY <1>8, <1>10, <2>1 DEF IsDb
    <3> QED BY <3>1 DEF IsView
  <2>3. diffView(x, def) <=> diffView(x, q)
    BY <1>9, <2>1, <2>2, ViewsAlike
  <2> QED BY <1>2, <2>1, <2>3
<1>13. ASSUME NEW m \in DOMAIN s.mvs, NEW x
       PROVE  diffMaterializedView(x, o.mvs[m]) = diffMaterializedView(x, e.mvs[m])
  <2>1. PICK def, q : def = s.mvs[m] /\ q = e.mvs[m]
    OBVIOUS
  <2>2. IsMV(def) /\ diffMaterializedView(def, q) = "none"
    BY <1>9, <2>1 DEF IsSchema
  <2>3. def.dist.type = Null => q.dist.type = Null
    BY <1>1, <2>1 DEF NothingBeyond
  <2>4. diffMaterializedView(x, materializedViewToIntrospected(def)) = diffMaterializedView(x, q)
    BY <2>2, <2>3, MVsAlike
  <2> QED BY <1>2, <2>1, <2>4
<1>14. IsFiniteSet(DOMAIN s.tables)
  BY DEF IsSchema, IsNaming
<1>15. AlikeReads(o, e)
  BY <1>2, <1>8, <1>11, <1>12, <1>13, <1>14 DEF AlikeReads
<1> QED BY <1>1, <1>15

LEMMA OfflineHolds == TypeInv => OfflineAgrees
<1> SUFFICES ASSUME TypeInv, ~hasChanges(diffSchema(plan.goal, Seen(db))),
                    NothingBeyond(plan.goal, Seen(db)), NEW s \in Schemas
             PROVE  generateMigration(s, schemaToIntrospected(plan.goal)).up
                      = generateMigration(s, Seen(db)).up
  BY DEF OfflineAgrees, Seen
<1>1. PICK g, d : g = plan.goal /\ d = db
  OBVIOUS
<1>2. IsSchema(g) /\ IsDb(d)
  BY <1>1, SchemasAssumption DEF TypeInv
<1>3. AlikeReads(schemaToIntrospected(g), Seen(d))
  BY <1>1, <1>2, SnapshotAlike
<1> QED BY <1>1, <1>3, AlikePlans

\* Whenever the database is as the schema says and has nothing beyond it, the
\* snapshot of that schema yields the statements that introspection would have,
\* whatever schema comes next.
THEOREM OfflineAgreesAlways == Spec => []OfflineAgrees
BY TypesHold, OfflineHolds, PTL

(***************************************************************************)
(* A schema and its own snapshot.                                          *)
(***************************************************************************)
\* The one case in which a table and its snapshot differ: open hash buckets.
Closed(t) == t.dist.type = "HASH" => t.dist.buckets # NoBuckets

LEMMA TableInSync ==
  ASSUME NEW t, IsTable(t)
  PROVE  (diffTable(t, tableToIntrospected(t)) = NoTableChange) <=> Closed(t)
<1> DEFINE e == tableToIntrospected(t)
<1>1. /\ e.columns = t.columns /\ e.key = t.key /\ e.indexes = t.indexes
      /\ e.props = [k \in DOMAIN t.props |-> Stringify(t.props[k])]
  BY TableSnapshot
<1>2. e.dist = IF t.dist.type = Null THEN NoDistribution
               ELSE [type    |-> t.dist.type,
                     columns |-> IF t.dist.type = "HASH" THEN t.dist.columns ELSE <<>>,
                     buckets |-> IF t.dist.buckets = NoBuckets THEN NullBuckets
                                 ELSE t.dist.buckets]
  BY TableSnapshot
<1> HIDE DEF e
<1>3. diffProperties(t, e) = {}
  BY <1>1 DEF diffProperties
<1>4. \A c \in DOMAIN t.columns : diffColumn(t.columns[c], e.columns[c], t.key = "PRIMARY") = {}
  BY <1>1 DEF diffColumn
<1>5. \A i \in DOMAIN t.indexes : ~diffIndex(t.indexes[i], e.indexes[i])
  BY <1>1 DEF diffIndex
<1>6. DistributionChanged(t.dist, e.dist) <=> ~Closed(t)
  <2>1. CASE t.dist.type = Null
    BY <2>1, <1>2 DEF DistributionChanged, Closed, Null
  <2>2. CASE t.dist.type = "RANDOM"
    <3>1. e.dist.type = "RANDOM"
      BY <2>2, <1>2 DEF Null
    <3>2. QED
      BY <2>2, <3>1 DEF DistributionChanged, Closed, Null
  <2>3. CASE t.dist.type = "HASH"
    <3>1. /\ e.dist.type = "HASH" /\ e.dist.columns = t.dist.columns
          /\ e.dist.buckets = IF t.dist.buckets = NoBuckets THEN NullBuckets ELSE t.dist.buckets
      BY <2>3, <1>2 DEF Null
    <3>2. QED
      BY <2>3, <3>1 DEF DistributionChanged, Closed, Null, NoBuckets, NullBuckets
  <2>4. QED
    BY <2>1, <2>2, <2>3 DEF IsTable, IsDistribution
<1>7. /\ diffTable(t, e).columns = NoChanges
      /\ diffTable(t, e).indexes = NoChanges
  BY <1>1, <1>4, <1>5 DEF diffTable, Changes, NoChanges
<1>8. /\ diffTable(t, e).keyChange = FALSE
      /\ diffTable(t, e).propertyChanges = {}
      /\ diffTable(t, e).distributionChange = DistributionChanged(t.dist, e.dist)
  BY <1>1, <1>3 DEF diffTable
<1>9. diffTable(t, e) = [columns |-> NoChanges, keyChange |-> FALSE,
                         distributionChange |-> DistributionChanged(t.dist, e.dist),
                         propertyChanges |-> {}, indexes |-> NoChanges]
  BY <1>7, <1>8 DEF diffTable
<1>10. DistributionChanged(t.dist, e.dist) \in BOOLEAN
  BY DEF DistributionChanged
<1>11. NoTableChange.distributionChange = FALSE
  BY DEF NoTableChange
<1>12. CASE DistributionChanged(t.dist, e.dist)
  <2>1. diffTable(t, e).distributionChange = TRUE
    BY <1>8, <1>12
  <2>2. QED
    BY <2>1, <1>11, <1>12, <1>6 DEF e
<1>13. CASE ~DistributionChanged(t.dist, e.dist)
  <2>1. DistributionChanged(t.dist, e.dist) = FALSE
    BY <1>10, <1>13
  <2>2. diffTable(t, e) = NoTableChange
    BY <1>9, <2>1 DEF NoTableChange
  <2>3. QED
    BY <2>2, <1>13, <1>6 DEF e
<1>14. QED
  BY <1>12, <1>13

LEMMA MVInSync ==
  ASSUME NEW m, IsMV(m)
  PROVE  diffMaterializedView(m, materializedViewToIntrospected(m)) = "none"
<1> DEFINE e == materializedViewToIntrospected(m)
<1>1. /\ e.columns = m.columns /\ e.refresh = m.refresh /\ e.dist.type = m.dist.type
      /\ m.dist.type = "HASH" => e.dist.columns = m.dist.columns
  BY DEF materializedViewToIntrospected, IsMV, IsDistribution
<1>2. QED
  BY <1>1 DEF diffMaterializedView

\* A schema differs from its own snapshot exactly if one of its tables leaves
\* the buckets of a hash distribution open ("should detect no changes between
\* schema and its own snapshot", of the tests).
THEOREM SnapshotInSync ==
  ASSUME NEW s, IsSchema(s)
  PROVE  hasChanges(diffSchema(s, schemaToIntrospected(s)))
           <=> \E t \in DOMAIN s.tables : ~Closed(s.tables[t])
<1> DEFINE e == schemaToIntrospected(s)
           d == diffSchema(s, e)
<1>1. /\ DOMAIN e.tables = DOMAIN s.tables
      /\ \A t \in DOMAIN s.tables : e.tables[t] = tableToIntrospected(s.tables[t])
      /\ e.views = s.views
      /\ DOMAIN e.mvs = DOMAIN s.mvs
      /\ \A m \in DOMAIN s.mvs : e.mvs[m] = materializedViewToIntrospected(s.mvs[m])
  BY DEF schemaToIntrospected
<1> HIDE DEF e
<1>2. d.tables = [add |-> {}, remove |-> {},
                  modify |-> {t \in DOMAIN s.tables : ~Closed(s.tables[t])}]
  <2>1. \A t \in DOMAIN s.tables :
          (diffTable(s.tables[t], e.tables[t]) # NoTableChange) <=> ~Closed(s.tables[t])
    BY <1>1, TableInSync DEF IsSchema
  <2>2. QED
    BY <1>1, <2>1 DEF diffSchema, Changes
<1>3. d.views = NoChanges
  BY <1>1 DEF diffSchema, Changes, NoChanges, diffView
<1>4. d.mvs = NoChanges
  <2>1. \A m \in DOMAIN s.mvs : diffMaterializedView(s.mvs[m], e.mvs[m]) = "none"
    BY <1>1, MVInSync DEF IsSchema
  <2>2. QED
    BY <1>1, <2>1 DEF diffSchema, Changes, NoChanges
<1>5. hasChanges(d) <=> d.tables # NoChanges
  BY <1>3, <1>4 DEF hasChanges
<1>6. QED
  BY <1>2, <1>5 DEF NoChanges, e
=============================================================================

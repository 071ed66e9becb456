---------------------------- MODULE DataInduction ----------------------------
(***************************************************************************)
(* Induction over the natural numbers in a form without operators as       *)
(* parameters, and what follows from it for the flattening of a sequence   *)
(* of sequences, which three of the modules use: the merging of operands,  *)
(* the bytes of a write batch, the list of range tombstones.               *)
(***************************************************************************)
EXTENDS Integers, SequencesExt, WellFoundedInduction, TLAPS

\* The order of the natural numbers as a relation.
LEMMA LessThan ==
  \E R : /\ IsWellFoundedOn(R, Nat)
         /\ \A x, y \in Nat : y < x => <<y, x>> \in R
<1> DEFINE R == OpToRel(<, Nat)
<1>1. IsWellFoundedOn(R, Nat)
  BY NatLessThanWellFounded, Zenon
<1>2. \A x, y \in Nat : y < x => <<y, x>> \in R
  BY DEF OpToRel
<1> HIDE DEF R
<1>3. QED
  BY <1>1, <1>2

LEMMA MinExists ==
  ASSUME NEW T, T \subseteq Nat, T # {}
  PROVE  \E x \in T : \A y \in T : x <= y
<1>1. PICK R : /\ IsWellFoundedOn(R, Nat)
               /\ \A x, y \in Nat : y < x => <<y, x>> \in R
  BY LessThan
<1>2. \E x \in T : \A y \in T : ~ (<<y, x>> \in R)
  BY <1>1, WFMin
<1>3. PICK x \in T : \A y \in T : ~ (<<y, x>> \in R)
  BY <1>2
<1>4. \A y \in T : ~ (y < x)
  BY <1>1, <1>3
<1>5. QED
  BY <1>4

\* A property of numbers is a set of them.
LEMMA SetInduction ==
  ASSUME NEW T, 0 \in T, \A n \in Nat : n \in T => n + 1 \in T
  PROVE  Nat \subseteq T
<1> SUFFICES ASSUME NEW m \in Nat, m \notin T PROVE FALSE
  OBVIOUS
<1> DEFINE U == Nat \ T
<1>1. PICK x \in U : \A y \in U : x <= y
  BY MinExists
<1>2. x # 0 /\ x - 1 \in Nat
  OBVIOUS
<1>3. x - 1 \in T
  BY <1>1, <1>2
<1>4. QED
  BY <1>2, <1>3

LEMMA RangeInduction ==
  ASSUME NEW T, NEW k \in Nat, \A i \in 1..k : (i = 1 \/ i - 1 \in T) => i \in T
  PROVE  1..k \subseteq T
<1> SUFFICES ASSUME NEW m \in 1..k, m \notin T PROVE FALSE
  OBVIOUS
<1> DEFINE U == (1..k) \ T
<1>0. U \subseteq Nat /\ m \in U
  OBVIOUS
<1>1. PICK x \in U : \A y \in U : x <= y
  BY <1>0, MinExists
<1>2. x \in 1..k /\ x \notin T
  OBVIOUS
<1>3. x # 1 => x - 1 \in 1..k /\ x - 1 \notin U
  BY <1>1, <1>2
<1>4. QED
  BY <1>2, <1>3

LEMMA MaxExists ==
  ASSUME NEW n \in Nat, NEW T, T \subseteq 0..n, T # {}
  PROVE  \E x \in T : \A y \in T : y <= x
<1> DEFINE U == {i \in 0..n : n - i \in T}
<1>1. \A x \in T : x \in 0..n /\ n - x \in 0..n /\ n - (n - x) = x
  OBVIOUS
<1>2. U \subseteq Nat /\ \A x \in T : n - x \in U
  BY <1>1
<1>3. PICK u \in U : \A y \in U : u <= y
  BY <1>2, MinExists
<1>4. u \in 0..n /\ n - u \in T
  OBVIOUS
<1>5. ASSUME NEW y \in T PROVE y <= n - u
  BY <1>1, <1>2, <1>3, <1>4
<1>6. QED
  BY <1>4, <1>5

-----------------------------------------------------------------------------
\* FlattenSeq of SequencesExt is defined by a recursive function.
IsFlatten(f, ss, m) ==
  f = [i \in 1..m |-> IF i = 1 THEN ss[i] ELSE f[i - 1] \o ss[i]]

\* There is such a function.
LEMMA FlattenExists ==
  ASSUME NEW ss
  PROVE  \A m \in Nat : \E f : IsFlatten(f, ss, m)
<1> DEFINE T == {m \in Nat : \E f : IsFlatten(f, ss, m)}
<1>1. 0 \in T
  <2>1. IsFlatten([i \in 1..0 |-> <<>>], ss, 0)
    BY DEF IsFlatten
  <2>2. QED
    BY <2>1
<1>2. ASSUME NEW m \in Nat, m \in T PROVE m + 1 \in T
  <2>1. PICK f : IsFlatten(f, ss, m)
    BY <1>2
  <2> DEFINE g == [i \in 1..m + 1 |-> IF i = m + 1
                                      THEN IF i = 1 THEN ss[i] ELSE f[m] \o ss[i]
                                      ELSE f[i]]
  <2>2. \A i \in 1..m : f[i] = IF i = 1 THEN ss[i] ELSE f[i - 1] \o ss[i]
    BY <2>1 DEF IsFlatten
  <2>3. \A i \in 1..m + 1 : g[i] = IF i = 1 THEN ss[i] ELSE g[i - 1] \o ss[i]
    BY <2>2
  <2>4. IsFlatten(g, ss, m + 1)
    BY <2>3 DEF IsFlatten
  <2>5. QED
    BY <2>4
<1>3. QED
  BY <1>1, <1>2, SetInduction

\* And FlattenSeq is its last value.
LEMMA FlattenDef ==
  ASSUME NEW ss, Len(ss) \in Nat \ {0}
  PROVE  \E f : IsFlatten(f, ss, Len(ss)) /\ FlattenSeq(ss) = f[Len(ss)]
<1>1. \E f : IsFlatten(f, ss, Len(ss))
  BY FlattenExists
<1> DEFINE f == CHOOSE f : IsFlatten(f, ss, Len(ss))
<1>2. IsFlatten(f, ss, Len(ss))
  BY <1>1
<1>3. FlattenSeq(ss) = f[Len(ss)]
  BY DEF FlattenSeq, IsFlatten
<1>4. QED
  BY <1>2, <1>3

\* One step of it.
LEMMA FlattenStep ==
  ASSUME NEW ss, NEW m \in Nat, NEW f, IsFlatten(f, ss, m), NEW j \in 1..m
  PROVE  f[j] = IF j = 1 THEN ss[j] ELSE f[j - 1] \o ss[j]
BY DEF IsFlatten

BeginAlike(ss, tt, k) == \A i \in 1..k : ss[i] = tt[i]

\* Sequences that begin alike are flattened alike up to there.
LEMMA FlattenUnique ==
  ASSUME NEW ss, NEW tt, NEW k \in Nat, NEW n \in Nat, k <= n,
         BeginAlike(ss, tt, k),
         NEW f, IsFlatten(f, ss, k), NEW g, IsFlatten(g, tt, n)
  PROVE  \A i \in 1..k : f[i] = g[i]
<1> DEFINE T == {i \in 1..k : f[i] = g[i]}
<1>1. ASSUME NEW i \in 1..k, i = 1 \/ i - 1 \in T PROVE i \in T
  <2>1. i \in 1..n
    OBVIOUS
  <2>2. f[i] = IF i = 1 THEN ss[i] ELSE f[i - 1] \o ss[i]
    BY FlattenStep
  <2>3. g[i] = IF i = 1 THEN tt[i] ELSE g[i - 1] \o tt[i]
    BY <2>1, FlattenStep
  <2>4. QED
    BY <1>1, <2>2, <2>3 DEF BeginAlike
<1> HIDE DEF T
<1>2. 1..k \subseteq T
  BY <1>1, RangeInduction
<1>3. QED
  BY <1>2 DEF T

LEMMA FlattenEmpty == FlattenSeq(<<>>) = <<>>
BY DEF FlattenSeq

LEMMA FlattenType ==
  ASSUME NEW S, NEW ss \in Seq(Seq(S))
  PROVE  FlattenSeq(ss) \in Seq(S)
<1>1. CASE Len(ss) = 0
  <2>1. ss = <<>> /\ <<>> \in Seq(S)
    BY <1>1
  <2>2. QED
    BY <2>1, FlattenEmpty, Zenon
<1>2. CASE Len(ss) # 0
  <2> DEFINE n == Len(ss)
  <2>1. n \in Nat \ {0} /\ \A i \in 1..n : ss[i] \in Seq(S)
    BY <1>2
  <2>2. PICK f : IsFlatten(f, ss, n) /\ FlattenSeq(ss) = f[n]
    BY <2>1, FlattenDef
  <2> HIDE DEF n
  <2> DEFINE T == {i \in 1..n : f[i] \in Seq(S)}
  <2>3. ASSUME NEW i \in 1..n, i = 1 \/ i - 1 \in T PROVE i \in T
    <3>1. f[i] = IF i = 1 THEN ss[i] ELSE f[i - 1] \o ss[i]
      BY <2>1, <2>2, FlattenStep
    <3>2. i # 1 => f[i - 1] \in Seq(S)
      BY <2>3
    <3>3. ss[i] \in Seq(S)
      BY <2>1
    <3>4. i # 1 => f[i - 1] \o ss[i] \in Seq(S)
      BY <3>2, <3>3
    <3>5. QED
      BY <3>1, <3>3, <3>4
  <2>4. n \in T
    <3> HIDE DEF T
    <3>1. 1..n \subseteq T
      BY <2>1, <2>3, RangeInduction
    <3>2. QED
      BY <2>1, <3>1
  <2>5. QED
    BY <2>2, <2>4
<1>3. QED
  BY <1>1, <1>2

\* The flattening of one sequence more.
LEMMA FlattenAppend ==
  ASSUME NEW S, NEW ss \in Seq(Seq(S)), NEW s \in Seq(S)
  PROVE  FlattenSeq(Append(ss, s)) = FlattenSeq(ss) \o s
<1> DEFINE tt == Append(ss, s)
<1> DEFINE n == Len(ss)
<1>1. Len(tt) = n + 1 /\ n \in Nat /\ n + 1 \in Nat \ {0} /\ tt[n + 1] = s /\ \A i \in 1..n : ss[i] = tt[i]
  OBVIOUS
<1> HIDE DEF tt, n
<1>2. PICK g : IsFlatten(g, tt, n + 1) /\ FlattenSeq(tt) = g[n + 1]
  BY <1>1, FlattenDef
<1>3. n + 1 \in 1..n + 1 /\ (n + 1) - 1 = n
  BY <1>1
<1>4. g[n + 1] = IF n + 1 = 1 THEN s ELSE g[n] \o s
  BY <1>1, <1>2, <1>3, FlattenStep
<1>5. CASE n = 0
  <2>1. ss = <<>>
    BY <1>5 DEF n
  <2>2. FlattenSeq(ss) \o s = s
    BY <2>1, FlattenEmpty
  <2>3. QED
    BY <1>2, <1>4, <1>5, <2>2 DEF tt
<1>6. CASE n # 0
  <2>1. PICK f : IsFlatten(f, ss, n) /\ FlattenSeq(ss) = f[n]
    BY <1>1, <1>6, FlattenDef DEF n
  <2>2. n <= n + 1 /\ n + 1 \in Nat
    BY <1>1
  <2>3. \A i \in 1..n : f[i] = g[i]
    <3>1. n \in Nat /\ BeginAlike(ss, tt, n)
      BY <1>1 DEF BeginAlike
    <3>2. IsFlatten(f, ss, n) /\ IsFlatten(g, tt, n + 1)
      BY <1>2, <2>1
    <3>3. QED
      BY <2>2, <3>1, <3>2, FlattenUnique
  <2>4. f[n] = g[n]
    BY <1>1, <1>6, <2>3
  <2>5. QED
    BY <1>1, <1>2, <1>4, <1>6, <2>1, <2>4 DEF tt
<1>7. QED
  BY <1>5, <1>6

LEMMA FlattenOne ==
  ASSUME NEW S, NEW s \in Seq(S)
  PROVE  FlattenSeq(<<s>>) = s
<1>1. <<>> \in Seq(Seq(S)) /\ Append(<<>>, s) = <<s>>
  OBVIOUS
<1>2. FlattenSeq(<<s>>) = FlattenSeq(<<>>) \o s
  BY <1>1, FlattenAppend
<1>3. <<>> \o s = s
  OBVIOUS
<1>4. QED
  BY <1>2, <1>3, FlattenEmpty
=============================================================================

--------------------------- MODULE MergeStackProofs ---------------------------
(***************************************************************************)
(* For any operators, and any number of writes, snapshots and compactions: *)
(* a read sees what the writes make that it should see.                    *)
(*                                                                         *)
(* The argument: every entry of the stack stands for the writes after the  *)
(* entry below it up to its own number.  A value or a deletion holds what  *)
(* they and all before them make, merge operands hold what takes the value *)
(* from the entry below to this one.  Merging neighbours keeps this, since *)
(* appending operands is associative; and no compaction removes an entry   *)
(* that a snapshot ends with.                                              *)
(***************************************************************************)
EXTENDS MergeStack, DataInduction, FiniteSetTheorems, SequenceTheorems

Value == Seq(Nat) \cup {Nothing}
Ops   == {"put", "delete", "merge"}
WriteType == [op : Ops, value : Value]
EntryType == [op : Ops, seq : Nat, value : Value]

\* The value that operands make of an existing one.
Onto(existing, operand) ==
  (IF existing = Nothing THEN <<FromNothing>> ELSE existing) \o operand

-----------------------------------------------------------------------------
\* Operands.

LEMMA OntoType ==
  ASSUME NEW e \in Value, NEW v \in Seq(Nat)
  PROVE  Onto(e, v) \in Seq(Nat)
  BY DEF Value, Onto, FromNothing

\* Operands can be combined before they are merged onto a value.
LEMMA OntoOnto ==
  ASSUME NEW e \in Value, NEW v \in Seq(Nat), NEW w \in Seq(Nat)
  PROVE  Onto(Onto(e, v), w) = Onto(e, v \o w)
<1> DEFINE b == IF e = Nothing THEN <<FromNothing>> ELSE e
<1>1. b \in Seq(Nat)
  BY DEF Value, FromNothing
<1>2. Onto(e, v) # Nothing
  BY OntoType, AnswerAssumption
<1>3. Onto(Onto(e, v), w) = (b \o v) \o w
  BY <1>2 DEF Onto
<1> HIDE DEF b
<1>4. (b \o v) \o w = b \o (v \o w)
  <2>1. \A x, y, z \in Seq(Nat) : (x \o y) \o z = x \o (y \o z)
    OBVIOUS
  <2>2. QED
    BY <1>1, <2>1
<1>5. QED
  BY <1>3, <1>4 DEF Onto, b

-----------------------------------------------------------------------------
\* What the writes make, one by one.

IsAfter(f, w, s) ==
  f = [n \in 0..s |->
         IF n = 0 THEN Nothing
         ELSE IF w[n].op = "merge" THEN FullMerge(f[n - 1], <<w[n].value>>)
         ELSE w[n].value]

LEMMA AfterExists ==
  ASSUME NEW w
  PROVE  \A s \in Nat : \E f : IsAfter(f, w, s)
<1> DEFINE T == {s \in Nat : \E f : IsAfter(f, w, s)}
<1>1. 0 \in T
  <2>1. IsAfter([n \in 0..0 |-> Nothing], w, 0)
    BY DEF IsAfter
  <2>2. QED
    BY <2>1
<1>2. ASSUME NEW s \in Nat, s \in T PROVE s + 1 \in T
  <2>1. PICK f : IsAfter(f, w, s)
    BY <1>2
  <2> DEFINE g == [n \in 0..s + 1 |->
                     IF n = s + 1
                     THEN IF w[n].op = "merge" THEN FullMerge(f[s], <<w[n].value>>)
                          ELSE w[n].value
                     ELSE f[n]]
  <2>2. \A n \in 0..s : f[n] = IF n = 0 THEN Nothing
                               ELSE IF w[n].op = "merge" THEN FullMerge(f[n - 1], <<w[n].value>>)
                               ELSE w[n].value
    BY <2>1 DEF IsAfter
  <2>3. \A n \in 0..s + 1 : g[n] = IF n = 0 THEN Nothing
                                   ELSE IF w[n].op = "merge" THEN FullMerge(g[n - 1], <<w[n].value>>)
                                   ELSE w[n].value
    BY <2>2
  <2>4. IsAfter(g, w, s + 1)
    BY <2>3 DEF IsAfter
  <2>5. QED
    BY <2>4
<1>3. QED
  BY <1>1, <1>2, SetInduction

LEMMA ExpectedDef ==
  ASSUME NEW w, NEW s \in Nat
  PROVE  \E f : IsAfter(f, w, s) /\ Expected(w, s) = f[s]
<1>1. \E f : IsAfter(f, w, s)
  BY AfterExists
<1> DEFINE f == CHOOSE f : IsAfter(f, w, s)
<1>2. IsAfter(f, w, s)
  BY <1>1
<1>3. Expected(w, s) = f[s]
  BY DEF Expected, IsAfter
<1>4. QED
  BY <1>2, <1>3

LEMMA AfterStep ==
  ASSUME NEW w, NEW s \in Nat, NEW f, IsAfter(f, w, s), NEW n \in 0..s
  PROVE  f[n] = IF n = 0 THEN Nothing
                ELSE IF w[n].op = "merge" THEN FullMerge(f[n - 1], <<w[n].value>>)
                ELSE w[n].value
  BY DEF IsAfter

LEMMA AfterZero ==
  ASSUME NEW w, NEW s \in Nat, NEW f, IsAfter(f, w, s)
  PROVE  f[0] = Nothing
<1>1. 0 \in 0..s
  OBVIOUS
<1>2. QED
  BY <1>1 DEF IsAfter

\* It depends on the writes up to s only.
AgreeUpTo(w, x, s) == \A n \in 1..s : w[n] = x[n]

LEMMA AfterUnique ==
  ASSUME NEW w, NEW x, NEW s \in Nat, NEW t \in Nat, s <= t, AgreeUpTo(w, x, s),
         NEW f, IsAfter(f, w, s), NEW g, IsAfter(g, x, t)
  PROVE  f[s] = g[s]
<1> DEFINE T == {n \in Nat : n \in 0..s => f[n] = g[n]}
<1>1. 0 \in T
  BY AfterZero
<1>2. ASSUME NEW m \in Nat, m \in T PROVE m + 1 \in T
  <2> SUFFICES ASSUME m + 1 \in 0..s PROVE f[m + 1] = g[m + 1]
    OBVIOUS
  <2> DEFINE n == m + 1
  <2>1. n \in 0..s /\ n \in 0..t /\ n \in 1..s /\ n # 0 /\ n - 1 = m /\ f[m] = g[m]
    BY <1>2
  <2> HIDE DEF n
  <2>2. f[n] = IF w[n].op = "merge" THEN FullMerge(f[m], <<w[n].value>>) ELSE w[n].value
    BY <2>1, AfterStep
  <2>3. g[n] = IF x[n].op = "merge" THEN FullMerge(g[m], <<x[n].value>>) ELSE x[n].value
    BY <2>1, AfterStep
  <2>4. w[n] = x[n]
    BY <2>1 DEF AgreeUpTo
  <2>5. QED
    BY <2>1, <2>2, <2>3, <2>4 DEF n
<1> HIDE DEF T
<1>3. Nat \subseteq T
  BY <1>1, <1>2, SetInduction
<1>4. s \in T /\ s \in 0..s
  BY <1>3
<1>5. s \in 0..s => f[s] = g[s]
  BY <1>4, Zenon DEF T
<1>6. QED
  BY <1>4, <1>5, Zenon

LEMMA ExpectedAgree ==
  ASSUME NEW w, NEW x, NEW s \in Nat, AgreeUpTo(w, x, s)
  PROVE  Expected(w, s) = Expected(x, s)
<1>1. PICK f : IsAfter(f, w, s) /\ Expected(w, s) = f[s]
  BY ExpectedDef
<1>2. PICK g : IsAfter(g, x, s) /\ Expected(x, s) = g[s]
  BY ExpectedDef
<1>3. s <= s
  OBVIOUS
<1>4. QED
  BY <1>1, <1>2, <1>3, AfterUnique

LEMMA ExpectedZero ==
  ASSUME NEW w
  PROVE  Expected(w, 0) = Nothing
<1>1. PICK f : IsAfter(f, w, 0) /\ Expected(w, 0) = f[0]
  BY ExpectedDef
<1>2. QED
  BY <1>1, AfterZero

LEMMA ExpectedStep ==
  ASSUME NEW w, NEW n \in Nat \ {0}
  PROVE  Expected(w, n) = IF w[n].op = "merge"
                          THEN FullMerge(Expected(w, n - 1), <<w[n].value>>)
                          ELSE w[n].value
<1> DEFINE p == n - 1
<1>1. p \in Nat /\ n \in Nat /\ p <= n /\ n \in 0..n /\ n # 0
  OBVIOUS
<1>2. PICK f : IsAfter(f, w, n) /\ Expected(w, n) = f[n]
  BY <1>1, ExpectedDef
<1>3. PICK g : IsAfter(g, w, p) /\ Expected(w, p) = g[p]
  BY <1>1, ExpectedDef
<1>4. AgreeUpTo(w, w, p)
  BY DEF AgreeUpTo
<1>5. g[p] = f[p]
  <2>1. p \in Nat /\ n \in Nat /\ p <= n
    BY <1>1
  <2> HIDE DEF p
  <2>2. QED
    BY <1>2, <1>3, <1>4, <2>1, AfterUnique
<1>6. f[n] = IF w[n].op = "merge" THEN FullMerge(f[p], <<w[n].value>>) ELSE w[n].value
  BY <1>1, <1>2, AfterStep
<1>7. QED
  BY <1>2, <1>3, <1>5, <1>6

\* What the client may have written.
IsHistory(w) ==
  /\ w \in Seq(WriteType)
  /\ \A i \in 1..Len(w) : w[i].op = "merge" => w[i].value \in Seq(Nat)

LEMMA FullMergeOne ==
  ASSUME NEW e, NEW v \in Seq(Nat)
  PROVE  FullMerge(e, <<v>>) = Onto(e, v)
BY FlattenOne DEF FullMerge, Onto

LEMMA ExpectedMerge ==
  ASSUME NEW w, IsHistory(w), NEW n \in 1..Len(w), w[n].op = "merge"
  PROVE  Expected(w, n) = Onto(Expected(w, n - 1), w[n].value)
<1>1. n \in Nat \ {0} /\ w[n].value \in Seq(Nat)
  BY DEF IsHistory
<1>2. Expected(w, n) = FullMerge(Expected(w, n - 1), <<w[n].value>>)
  BY <1>1, ExpectedStep
<1>3. QED
  BY <1>1, <1>2, FullMergeOne

LEMMA ExpectedType ==
  ASSUME NEW w, IsHistory(w), NEW s \in 0..Len(w)
  PROVE  Expected(w, s) \in Value
<1> DEFINE T == {n \in Nat : n \in 0..Len(w) => Expected(w, n) \in Value}
<1>1. 0 \in T
  BY ExpectedZero DEF Value
<1>2. ASSUME NEW m \in Nat, m \in T PROVE m + 1 \in T
  <2> SUFFICES ASSUME m + 1 \in 0..Len(w) PROVE Expected(w, m + 1) \in Value
    OBVIOUS
  <2> DEFINE n == m + 1
  <2>1. Len(w) \in Nat
    BY DEF IsHistory
  <2>2. n \in 1..Len(w) /\ n - 1 = m /\ n \in Nat \ {0} /\ Expected(w, m) \in Value
    BY <1>2, <2>1
  <2> HIDE DEF n
  <2>3. CASE w[n].op = "merge"
    <3>1. w[n].value \in Seq(Nat)
      BY <2>2, <2>3 DEF IsHistory
    <3>2. Expected(w, n) = Onto(Expected(w, m), w[n].value)
      BY <2>2, <2>3, ExpectedMerge
    <3>3. QED
      BY <2>2, <3>1, <3>2, OntoType DEF Value, n
  <2>4. CASE w[n].op # "merge"
    <3>1. Expected(w, n) = w[n].value
      BY <2>2, <2>4, ExpectedStep
    <3>2. w[n] \in WriteType
      BY <2>2 DEF IsHistory
    <3>3. QED
      BY <3>1, <3>2 DEF WriteType, n
  <2>5. QED
    BY <2>3, <2>4
<1> HIDE DEF T
<1>3. Nat \subseteq T /\ s \in Nat
  BY <1>1, <1>2, SetInduction
<1>4. s \in T
  BY <1>3
<1>5. QED
  BY <1>4 DEF T

-----------------------------------------------------------------------------
(* The invariant, of a stack st and a history w.                           *)

\* The number of the last write that the first i entries stand for.
SeqAt(st, i) == IF i = 0 THEN 0 ELSE st[i].seq

IsStack(st) ==
  /\ st \in Seq(EntryType)
  /\ \A i \in 1..Len(st) : st[i].op = "merge" => st[i].value \in Seq(Nat)

\* The entries are in the order of the writes.
Ordered(st, w) ==
  /\ \A i \in 1..Len(st) : 1 <= st[i].seq /\ st[i].seq <= Len(w)
  /\ \A i, j \in 1..Len(st) : i < j => st[i].seq < st[j].seq

\* An entry holds the value after its last write, or what leads there from
\* the value after the entry below.
Summary(st, w, i) ==
  /\ st[i].op # "merge" => Expected(w, st[i].seq) = st[i].value
  /\ st[i].op = "merge" =>
       Expected(w, st[i].seq) = Onto(Expected(w, SeqAt(st, i - 1)), st[i].value)

Summaries(st, w) == \A i \in 1..Len(st) : Summary(st, w, i)

\* Some entry is the last that a reader of the first s writes sees.
Ends(st, s) == \E i \in 0..Len(st) : SeqAt(st, i) = s

Readers == snapshots \cup {Len(writes)}

IInv ==
  /\ methods \in Operators
  /\ IsHistory(writes)
  /\ snapshots \subseteq 0..Len(writes)
  /\ IsStack(stack)
  /\ Ordered(stack, writes)
  /\ Summaries(stack, writes)
  /\ \A s \in Readers : Ends(stack, s)

-----------------------------------------------------------------------------
(* Several entries together. *)

\* The entries from lo on, n of them, are operands.
Operands(st, lo, n) ==
  /\ lo \in 1..Len(st) /\ n \in Nat /\ lo + n - 1 <= Len(st)
  /\ \A i \in lo..lo + n - 1 : st[i].op = "merge"

\* Their values.
Run(st, lo, n) == [i \in 1..n |-> st[lo + i - 1].value]

LEMMA RunType ==
  ASSUME NEW st, IsStack(st), NEW lo, NEW n, Operands(st, lo, n)
  PROVE  Run(st, lo, n) \in Seq(Seq(Nat)) /\ Len(Run(st, lo, n)) = n
<1>1. \A i \in 1..n : lo + i - 1 \in 1..Len(st) /\ lo + i - 1 \in lo..lo + n - 1
  BY DEF IsStack, Operands
<1>2. \A i \in 1..n : st[lo + i - 1].value \in Seq(Nat)
  BY <1>1 DEF IsStack, Operands
<1>3. n \in Nat
  BY DEF Operands
<1>4. QED
  BY <1>2, <1>3 DEF Run

LEMMA RunAppend ==
  ASSUME NEW st, NEW lo \in Nat, NEW n \in Nat
  PROVE  Run(st, lo, n + 1) = Append(Run(st, lo, n), st[lo + n].value)
<1>1. Len(Run(st, lo, n)) = n /\ Len(Run(st, lo, n + 1)) = n + 1
  BY DEF Run
<1> QED
  BY <1>1 DEF Run

LEMMA SeqAtType ==
  ASSUME NEW st, NEW w, IsStack(st), IsHistory(w), Ordered(st, w), NEW i \in 0..Len(st)
  PROVE  SeqAt(st, i) \in 0..Len(w)
<1>1. i # 0 => st[i] \in EntryType /\ 1 <= st[i].seq /\ st[i].seq <= Len(w)
  BY DEF IsStack, Ordered
<1>2. Len(w) \in Nat
  BY DEF IsHistory
<1>3. QED
  BY <1>1, <1>2 DEF SeqAt, EntryType

LEMMA EntryIs ==
  ASSUME NEW st, IsStack(st), NEW i \in 1..Len(st)
  PROVE  st[i] \in EntryType /\ st[i].seq \in Nat /\ st[i].value \in Value /\ st[i].op \in Ops
<1>1. st[i] \in EntryType
  BY DEF IsStack
<1>2. QED
  BY <1>1 DEF EntryType

\* Neighbouring operands lead from the value below them to the value above.
LEMMA MergeRange ==
  ASSUME NEW st, NEW w, IsStack(st), IsHistory(w), Ordered(st, w), Summaries(st, w),
         NEW lo \in 1..Len(st), NEW n \in Nat \ {0}, Operands(st, lo, n)
  PROVE  Expected(w, SeqAt(st, lo + n - 1))
           = Onto(Expected(w, SeqAt(st, lo - 1)), FlattenSeq(Run(st, lo, n)))
<1> DEFINE b == Expected(w, SeqAt(st, lo - 1))
<1> DEFINE T == {k \in 1..n : Expected(w, st[lo + k - 1].seq) = Onto(b, FlattenSeq(Run(st, lo, k)))}
<1>1. /\ Len(st) \in Nat /\ lo \in Nat /\ lo - 1 \in 0..Len(st)
      /\ lo + n - 1 <= Len(st) /\ \A i \in lo..lo + n - 1 : st[i].op = "merge"
  BY DEF IsStack, Operands
<1>2. b \in Value
  BY <1>1, SeqAtType, ExpectedType
<1> HIDE DEF b
<1>3. ASSUME NEW k \in 1..n, k = 1 \/ k - 1 \in T PROVE k \in T
  <2> DEFINE j == lo + k - 1
  <2> DEFINE v == st[j].value
  <2>1. j \in 1..Len(st) /\ j \in lo..lo + n - 1 /\ j # 0
    BY <1>1
  <2>2. st[j].op = "merge" /\ v \in Seq(Nat)
    BY <1>1, <2>1 DEF IsStack
  <2>3. Expected(w, st[j].seq) = Onto(Expected(w, SeqAt(st, j - 1)), v)
    BY <2>1, <2>2 DEF Summaries, Summary
  <2>4. CASE k = 1
    <3>1. Run(st, lo, 1) = <<v>>
      BY <2>4 DEF Run
    <3>2. FlattenSeq(Run(st, lo, k)) = v
      BY <2>2, <2>4, <3>1, FlattenOne
    <3>3. j - 1 = lo - 1
      BY <2>4, <1>1
    <3>4. QED
      BY <2>3, <3>2, <3>3 DEF b
  <2>5. CASE k # 1
    <3> DEFINE m == k - 1
    <3> DEFINE r == Run(st, lo, m)
    <3>1. /\ m \in 1..n /\ m \in T /\ m \in Nat /\ m + 1 = k
          /\ lo + m - 1 = j - 1 /\ lo + m = j
      BY <1>1, <1>3, <2>5
    <3>12. Operands(st, lo, m)
      BY <1>1, <3>1 DEF Operands
    <3>2. Expected(w, st[j - 1].seq) = Onto(b, FlattenSeq(r))
      <4>1. Expected(w, st[lo + m - 1].seq) = Onto(b, FlattenSeq(r))
        BY <3>1
      <4>2. lo + m - 1 = j - 1
        BY <3>1
      <4> HIDE DEF r, m, j
      <4>3. QED
        BY <4>1, <4>2
    <3>3. j - 1 # 0
      BY <3>1, <1>1
    <3>4. SeqAt(st, j - 1) = st[j - 1].seq
      BY <3>3 DEF SeqAt
    <3> HIDE DEF m
    <3>5. r \in Seq(Seq(Nat))
      BY <3>12, RunType
    <3>6. Run(st, lo, k) = Append(r, v)
      <4>1. lo \in Nat /\ m \in Nat
        BY <1>1, <3>1
      <4>2. Run(st, lo, m + 1) = Append(Run(st, lo, m), st[lo + m].value)
        BY <4>1, RunAppend
      <4>3. m + 1 = k /\ lo + m = j
        BY <3>1
      <4> HIDE DEF j
      <4>4. QED
        BY <4>2, <4>3 DEF r, v
    <3>7. FlattenSeq(Run(st, lo, k)) = FlattenSeq(r) \o v
      BY <2>2, <3>5, <3>6, FlattenAppend
    <3>8. FlattenSeq(r) \in Seq(Nat)
      BY <3>5, FlattenType
    <3> HIDE DEF r
    <3>9. Onto(Onto(b, FlattenSeq(r)), v) = Onto(b, FlattenSeq(r) \o v)
      BY <1>2, <2>2, <3>8, OntoOnto
    <3>10. QED
      BY <2>3, <3>2, <3>4, <3>7, <3>9
  <2>6. QED
    BY <2>4, <2>5
<1> HIDE DEF T
<1>4. n \in Nat /\ n \in 1..n
  OBVIOUS
<1>5. n \in T
  <2>1. 1..n \subseteq T
    BY <1>3, <1>4, RangeInduction
  <2>2. QED
    BY <1>4, <2>1
<1>6. Expected(w, st[lo + n - 1].seq) = Onto(b, FlattenSeq(Run(st, lo, n)))
  BY <1>5 DEF T
<1>7. lo + n - 1 # 0
  BY <1>1
<1>8. QED
  BY <1>6, <1>7 DEF SeqAt, b

-----------------------------------------------------------------------------
(* The Go side of a merge. *)

LEMMA FullMergeIs ==
  ASSUME NEW e, NEW ops \in Seq(Seq(Nat))
  PROVE  gorocksdb_mergeoperator_full_merge(e, ops) = Onto(e, FlattenSeq(ops))
<1>1. [i \in DOMAIN ops |-> ops[i]] = ops
  OBVIOUS
<1>2. QED
  BY <1>1 DEF gorocksdb_mergeoperator_full_merge, refCBytes, FullMerge, Onto

\* The calls of PartialMerge one after the other flatten the operands.
LEMMA LeftFoldFlattens ==
  ASSUME NEW ops, Len(ops) \in Nat, Len(ops) > 1
  PROVE  LeftFold(ops, {}) = FlattenSeq(ops)
<1> DEFINE n == Len(ops)
<1>1. n \in Nat \ {0} /\ n \in Nat /\ n <= n /\ n \in 1..n /\ n # 1
  <2>1. \A m \in Nat : m > 1 => m \in Nat \ {0} /\ m <= m /\ m \in 1..m /\ m # 1
    OBVIOUS
  <2>2. QED
    BY <2>1
<1> DEFINE IsUpTo(f) == f = [k \in 1..n |-> IF k = 1 THEN ops[1]
                                            ELSE PartialMerge(f[k - 1], ops[k])]
<1>2. PICK g : IsFlatten(g, ops, n) /\ FlattenSeq(ops) = g[n]
  BY <1>1, FlattenDef
<1>3. \A f : IsUpTo(f) <=> IsFlatten(f, ops, n)
  <2>1. ASSUME NEW f
        PROVE  [k \in 1..n |-> IF k = 1 THEN ops[1] ELSE PartialMerge(f[k - 1], ops[k])]
                 = [k \in 1..n |-> IF k = 1 THEN ops[k] ELSE f[k - 1] \o ops[k]]
    BY DEF PartialMerge
  <2>2. QED
    BY <2>1 DEF IsFlatten
<1> DEFINE u == CHOOSE f : IsUpTo(f)
<1>4. IsUpTo(u)
  BY <1>2, <1>3
<1>5. LeftFold(ops, {}) = u[n]
  BY <1>1 DEF LeftFold
<1> HIDE DEF IsUpTo, u, n
<1>6. IsFlatten(u, ops, n)
  BY <1>3, <1>4
<1>7. BeginAlike(ops, ops, n)
  BY DEF BeginAlike
<1>8. \A i \in 1..n : u[i] = g[i]
  BY <1>1, <1>2, <1>6, <1>7, FlattenUnique
<1>9. QED
  BY <1>1, <1>2, <1>5, <1>8

\* A partial merge combines all operands in order, or none.
LEMMA PartialMergeIs ==
  ASSUME NEW ops \in Seq(Seq(Nat)), Len(ops) > 1, NEW refused,
         gorocksdb_mergeoperator_partial_merge_multi(ops, refused) # Failed
  PROVE  gorocksdb_mergeoperator_partial_merge_multi(ops, refused) = FlattenSeq(ops)
<1>1. Len(ops) \in Nat
  OBVIOUS
<1>2. CASE IsMultiMerger
  BY <1>2 DEF gorocksdb_mergeoperator_partial_merge_multi, PartialMergeMulti
<1>3. CASE ~ IsMultiMerger
  <2>1. IsPartialMerger
    BY <1>3 DEF gorocksdb_mergeoperator_partial_merge_multi
  <2>2. gorocksdb_mergeoperator_partial_merge_multi(ops, refused) = LeftFold(ops, refused)
    BY <1>3, <2>1 DEF gorocksdb_mergeoperator_partial_merge_multi
  <2>3. refused = {}
    BY <2>2 DEF LeftFold
  <2>4. QED
    BY <1>1, <2>2, <2>3, LeftFoldFlattens
<1>4. QED
  BY <1>2, <1>3

\* A MultiMerger is asked, and declines only when its method does.
LEMMA MultiMergerAsked ==
  ASSUME IsMultiMerger, NEW ops \in Seq(Seq(Nat))
  PROVE  gorocksdb_mergeoperator_partial_merge_multi(ops, {}) # Failed
<1>1. FlattenSeq(ops) \in Seq(Nat)
  BY FlattenType
<1>2. gorocksdb_mergeoperator_partial_merge_multi(ops, {}) = FlattenSeq(ops)
  BY DEF gorocksdb_mergeoperator_partial_merge_multi, PartialMergeMulti
<1>3. QED
  BY <1>1, <1>2, AnswerAssumption

-----------------------------------------------------------------------------
(* Changes of the stack. *)

Good(st, w) == IsHistory(w) /\ IsStack(st) /\ Ordered(st, w) /\ Summaries(st, w)

\* An entry that stands for what the entries lo..hi of st stand for.
StandsFor(e, st, w, lo, hi) ==
  /\ e \in EntryType /\ e.seq = st[hi].seq
  /\ e.op # "merge" => Expected(w, e.seq) = e.value
  /\ e.op = "merge" => /\ e.value \in Seq(Nat)
                       /\ Expected(w, e.seq) = Onto(Expected(w, SeqAt(st, lo - 1)), e.value)

Replaced(st, lo, hi, e) == SubSeq(st, 1, lo - 1) \o <<e>> \o SubSeq(st, hi + 1, Len(st))

IsReplaced(r, st, lo, hi, e) ==
  /\ r \in Seq(EntryType)
  /\ Len(r) = Len(st) - (hi - lo)
  /\ r[lo] = e
  /\ \A i \in 1..lo - 1 : r[i] = st[i]
  /\ \A i \in lo + 1..Len(r) : r[i] = st[i + (hi - lo)]

LEMMA ReplacedIndex ==
  ASSUME NEW st \in Seq(EntryType), NEW lo \in 1..Len(st), NEW hi \in lo..Len(st),
         NEW e \in EntryType
  PROVE  IsReplaced(Replaced(st, lo, hi, e), st, lo, hi, e)
<1> DEFINE a == SubSeq(st, 1, lo - 1)
<1> DEFINE b == SubSeq(st, hi + 1, Len(st))
<1>1. a \in Seq(EntryType) /\ Len(a) = lo - 1 /\ \A i \in 1..lo - 1 : a[i] = st[i]
  OBVIOUS
<1>2. b \in Seq(EntryType) /\ Len(b) = Len(st) - hi /\ \A i \in 1..Len(st) - hi : b[i] = st[i + hi]
  OBVIOUS
<1> HIDE DEF a, b
<1>3. a \o <<e>> \in Seq(EntryType) /\ Len(a \o <<e>>) = lo /\ (a \o <<e>>)[lo] = e
      /\ \A i \in 1..lo - 1 : (a \o <<e>>)[i] = st[i]
  BY <1>1
<1> DEFINE c == a \o <<e>>
<1>4. c \in Seq(EntryType) /\ Len(c) = lo /\ c[lo] = e /\ \A i \in 1..lo - 1 : c[i] = st[i]
  BY <1>3
<1> HIDE DEF c
<1> DEFINE r == c \o b
<1>5. r \in Seq(EntryType) /\ Len(r) = Len(st) - (hi - lo)
  <2>1. r \in Seq(EntryType) /\ Len(r) = Len(c) + Len(b)
    <3>1. c \in Seq(EntryType) /\ b \in Seq(EntryType)
      BY <1>2, <1>4
    <3>2. QED
      BY <3>1
  <2>2. Len(st) \in Nat /\ lo \in Nat /\ hi \in Nat
    OBVIOUS
  <2>3. lo + (Len(st) - hi) = Len(st) - (hi - lo)
    BY <2>2
  <2> HIDE DEF r
  <2>4. QED
    BY <1>2, <1>4, <2>1, <2>3
<1>6. \A i \in 1..lo : r[i] = c[i]
  BY <1>2, <1>4
<1>7. ASSUME NEW i \in lo + 1..Len(r) PROVE r[i] = st[i + (hi - lo)]
  <2>1. i - lo \in 1..Len(st) - hi /\ (i - lo) + hi = i + (hi - lo)
    BY <1>5
  <2>2. r[i] = b[i - lo]
    BY <1>2, <1>4, <1>5
  <2>3. QED
    BY <1>2, <2>1, <2>2
<1>8. r = Replaced(st, lo, hi, e)
  BY DEF Replaced, a, b, c
<1>9. QED
  BY <1>4, <1>5, <1>6, <1>7, <1>8 DEF IsReplaced

LEMMA ReplacedKeeps ==
  ASSUME NEW st, NEW w, Good(st, w), NEW lo \in 1..Len(st), NEW hi \in lo..Len(st),
         NEW e, StandsFor(e, st, w, lo, hi)
  PROVE  /\ Good(Replaced(st, lo, hi, e), w)
         /\ \A s : Ends(st, s) /\ ~ (st[lo].seq <= s /\ s < st[hi].seq)
                     => Ends(Replaced(st, lo, hi, e), s)
<1> DEFINE r == Replaced(st, lo, hi, e)
<1> DEFINE d == hi - lo
<1>1. /\ st \in Seq(EntryType) /\ e \in EntryType /\ d \in Nat /\ Len(st) \in Nat
      /\ lo \in Nat /\ hi \in Nat /\ lo <= hi /\ 1 <= lo /\ hi <= Len(st) /\ hi = lo + d
      /\ hi \in 1..Len(st)
  BY DEF Good, IsStack, StandsFor
<1>2. /\ r \in Seq(EntryType) /\ Len(r) = Len(st) - d
      /\ r[lo] = e
      /\ \A i \in 1..lo - 1 : r[i] = st[i]
      /\ \A i \in lo + 1..Len(r) : r[i] = st[i + d]
  <2>1. st \in Seq(EntryType) /\ e \in EntryType
    BY <1>1
  <2> HIDE DEF r
  <2>2. IsReplaced(r, st, lo, hi, e)
    BY <2>1, ReplacedIndex DEF r
  <2>3. QED
    BY <2>2, Zenon DEF IsReplaced
<1> HIDE DEF r, d
<1>3. IsStack(r)
  <2>1. ASSUME NEW i \in 1..Len(r), r[i].op = "merge" PROVE r[i].value \in Seq(Nat)
    <3>1. CASE i < lo
      <4>1. i \in 1..lo - 1 /\ i \in 1..Len(st)
        BY <1>1, <1>2, <3>1
      <4>2. QED
        BY <1>2, <2>1, <4>1 DEF Good, IsStack
    <3>2. CASE i = lo
      BY <1>2, <2>1, <3>2 DEF StandsFor
    <3>3. CASE i > lo
      <4>1. i \in lo + 1..Len(r) /\ i + d \in 1..Len(st)
        BY <1>1, <1>2, <3>3
      <4>2. QED
        BY <1>2, <2>1, <4>1 DEF Good, IsStack
    <3>4. QED
      BY <1>1, <3>1, <3>2, <3>3
  <2>2. QED
    BY <1>2, <2>1 DEF IsStack
\* The entry i of the new stack has the number of the entry Was(i).
<1> DEFINE Was(i) == IF i < lo THEN i ELSE i + d
<1>4. ASSUME NEW i \in 1..Len(r) PROVE Was(i) \in 1..Len(st) /\ r[i].seq = st[Was(i)].seq
  <2>1. CASE i < lo
    <3>1. i \in 1..lo - 1 /\ i \in 1..Len(st)
      BY <1>1, <1>2, <2>1
    <3>2. QED
      BY <1>2, <2>1, <3>1
  <2>2. CASE i = lo
    BY <1>1, <1>2, <2>2 DEF StandsFor
  <2>3. CASE i > lo
    <3>1. i \in lo + 1..Len(r) /\ i + d \in 1..Len(st)
      BY <1>1, <1>2, <2>3
    <3>2. QED
      BY <1>1, <1>2, <2>3, <3>1
  <2>4. QED
    BY <1>1, <2>1, <2>2, <2>3
<1>5. \A i, j \in 1..Len(r) : i < j => Was(i) < Was(j)
  BY <1>1, <1>2
<1>6. Ordered(r, w)
  <2> HIDE DEF Was
  <2>1. ASSUME NEW i \in 1..Len(r) PROVE 1 <= r[i].seq /\ r[i].seq <= Len(w)
    BY <1>4 DEF Good, Ordered
  <2>2. ASSUME NEW i \in 1..Len(r), NEW j \in 1..Len(r), i < j PROVE r[i].seq < r[j].seq
    <3>1. Was(i) < Was(j) /\ Was(i) \in 1..Len(st) /\ Was(j) \in 1..Len(st)
      BY <1>4, <1>5, <2>2
    <3>2. st[Was(i)].seq < st[Was(j)].seq
      BY <3>1 DEF Good, Ordered
    <3>3. QED
      BY <1>4, <3>2
  <2>3. QED
    BY <2>1, <2>2 DEF Ordered
\* And the entry below it, but for the entry lo.
<1>7. ASSUME NEW i \in 1..Len(r), i # lo PROVE SeqAt(r, i - 1) = SeqAt(st, Was(i) - 1)
  <2>1. CASE i < lo
    <3>1. i - 1 # 0 => i - 1 \in 1..lo - 1
      BY <1>1, <2>1
    <3>2. QED
      BY <1>2, <2>1, <3>1 DEF SeqAt
  <2>2. CASE i > lo
    <3>1. i - 1 # 0 /\ i - 1 \in 1..Len(r) /\ ~ (i - 1 < lo) /\ ~ (i < lo)
          /\ (i + d) - 1 = (i - 1) + d /\ (i + d) - 1 # 0
      BY <1>1, <1>2, <2>2
    <3>2. r[i - 1].seq = st[(i - 1) + d].seq
      BY <1>4, <3>1
    <3>3. SeqAt(r, i - 1) = r[i - 1].seq
      BY <3>1 DEF SeqAt
    <3>4. SeqAt(st, (i + d) - 1) = st[(i - 1) + d].seq
      BY <3>1 DEF SeqAt
    <3>5. QED
      BY <3>1, <3>2, <3>3, <3>4
  <2>3. QED
    BY <1>1, <1>7, <2>1, <2>2
<1>8. Summaries(r, w)
  <2> SUFFICES ASSUME NEW i \in 1..Len(r) PROVE Summary(r, w, i)
    BY DEF Summaries
  <2>1. CASE i = lo
    <3>1. lo - 1 # 0 => lo - 1 \in 1..lo - 1
      BY <1>1
    <3>2. SeqAt(r, lo - 1) = SeqAt(st, lo - 1)
      BY <1>2, <3>1 DEF SeqAt
    <3>3. QED
      BY <1>2, <2>1, <3>2 DEF StandsFor, Summary
  <2>2. CASE i # lo
    <3>1. r[i] = st[Was(i)]
      <4>1. i < lo => i \in 1..lo - 1
        BY <1>1
      <4>2. ~ (i < lo) => i \in lo + 1..Len(r)
        BY <1>1, <1>2, <2>2
      <4>3. QED
        BY <1>2, <4>1, <4>2
    <3>2. Was(i) \in 1..Len(st)
      BY <1>4
    <3>3. SeqAt(r, i - 1) = SeqAt(st, Was(i) - 1)
      BY <1>7, <2>2
    <3> HIDE DEF Was
    <3>4. Summary(st, w, Was(i))
      BY <3>2 DEF Good, Summaries
    <3>5. QED
      BY <3>1, <3>3, <3>4 DEF Summary
  <2>3. QED
    BY <2>1, <2>2
<1>9. ASSUME NEW s, Ends(st, s), ~ (st[lo].seq <= s /\ s < st[hi].seq) PROVE Ends(r, s)
  <2>1. PICK k \in 0..Len(st) : SeqAt(st, k) = s
    BY <1>9 DEF Ends
  <2>2. CASE k = 0
    BY <1>1, <1>2, <2>1, <2>2 DEF Ends, SeqAt
  <2>3. CASE k # 0
    <3>1. k \in 1..Len(st) /\ s = st[k].seq
      BY <1>1, <2>1, <2>3 DEF SeqAt
    <3>2. \E i \in 1..Len(r) : Was(i) = k
      <4>1. CASE k < lo
        BY <1>1, <1>2, <3>1, <4>1
      <4>2. CASE k >= hi
        <5>1. k - d \in 1..Len(r) /\ ~ (k - d < lo) /\ (k - d) + d = k
          BY <1>1, <1>2, <3>1, <4>2
        <5>2. QED
          BY <5>1
      <4>3. CASE lo <= k /\ k < hi
        <5>1. lo = k \/ lo < k
          BY <1>1, <4>3
        <5>2. st[k].seq < st[hi].seq /\ (lo < k => st[lo].seq < st[k].seq)
          BY <1>1, <3>1, <4>3 DEF Good, Ordered
        <5>3. st[lo].seq \in Nat /\ st[k].seq \in Nat
          <6>1. st[lo] \in EntryType /\ st[k] \in EntryType
            BY <1>1, <3>1
          <6>2. QED
            BY <6>1 DEF EntryType
        <5>4. st[lo].seq <= st[k].seq
          BY <5>1, <5>2, <5>3
        <5>5. QED
          BY <1>9, <3>1, <5>2, <5>4
      <4>4. QED
        BY <1>1, <3>1, <4>1, <4>2, <4>3
    <3>3. PICK i \in 1..Len(r) : Was(i) = k
      BY <3>2
    <3> HIDE DEF Was
    <3>4. r[i].seq = s
      BY <1>4, <3>1, <3>3
    <3>5. i \in 0..Len(r) /\ i # 0
      BY <1>1, <1>2
    <3>6. QED
      BY <3>4, <3>5 DEF Ends, SeqAt
  <2>4. QED
    BY <2>2, <2>3
<1>10. Good(r, w)
  BY <1>3, <1>6, <1>8 DEF Good
<1>11. QED
  BY <1>9, <1>10 DEF r

-----------------------------------------------------------------------------
(* A reader. *)

LEMMA ValuesAreRun ==
  ASSUME NEW lo \in Nat, NEW hi \in Nat
  PROVE  Values(lo, hi) = Run(stack, lo, hi - lo + 1)
  BY DEF Values, Run

LEMMA ReadIsExpected ==
  ASSUME Good(stack, writes), NEW s, Ends(stack, s)
  PROVE  Read(s) = Expected(writes, s)
<1>1. PICK k \in 0..Len(stack) : SeqAt(stack, k) = s
  BY DEF Ends
<1>2. stack \in Seq(EntryType) /\ Len(stack) \in Nat /\ DOMAIN stack = 1..Len(stack) /\ k \in Nat
  BY DEF Good, IsStack
<1> DEFINE seen  == {i \in DOMAIN stack : stack[i].seq <= s}
<1> DEFINE bases == {i \in seen : stack[i].op # "merge"}
<1> DEFINE base  == IF bases = {} THEN 0 ELSE CHOOSE i \in bases : \A j \in bases : j <= i
<1> DEFINE value == IF base = 0 THEN Nothing ELSE stack[base].value
<1>3. seen = 1..k
  <2>1. ASSUME NEW i \in 1..Len(stack) PROVE stack[i].seq <= s <=> i <= k
    <3>1. stack[i].seq \in Nat /\ 1 <= stack[i].seq
      BY EntryIs DEF Good, Ordered
    <3>2. CASE k = 0
      BY <1>1, <3>1, <3>2 DEF SeqAt
    <3>3. CASE k # 0
      <4>1. k \in 1..Len(stack) /\ s = stack[k].seq
        BY <1>1, <1>2, <3>3 DEF SeqAt
      <4>2. stack[k].seq \in Nat
        BY <4>1, EntryIs DEF Good
      <4>3. /\ i < k => stack[i].seq < stack[k].seq
            /\ k < i => stack[k].seq < stack[i].seq
        BY <4>1 DEF Good, Ordered
      <4>4. i < k \/ i = k \/ k < i
        BY <1>2
      <4>5. QED
        BY <1>2, <3>1, <4>1, <4>2, <4>3, <4>4
    <3>4. QED
      BY <3>2, <3>3
  <2>2. QED
    BY <1>2, <2>1
<1>4. Cardinality(seen) = k
  <2>1. Cardinality(1..k) = IF 1 > k THEN 0 ELSE k - 1 + 1
    BY <1>2, FS_Interval
  <2>2. 1 > k <=> k = 0
    BY <1>2
  <2> HIDE DEF seen
  <2>3. QED
    BY <1>2, <1>3, <2>1, <2>2
<1>5. /\ base \in 0..k
      /\ base # 0 => stack[base].op # "merge"
      /\ \A i \in base + 1..k : stack[i].op = "merge"
  <2> HIDE DEF seen
  <2>1. CASE bases = {}
    BY <1>2, <1>3, <2>1
  <2>2. CASE bases # {}
    <3>1. bases \subseteq 0..k
      BY <1>3
    <3>2. \E i \in bases : \A j \in bases : j <= i
      BY <1>2, <2>2, <3>1, MaxExists
    <3>3. base \in bases /\ \A j \in bases : j <= base
      BY <2>2, <3>2
    <3> HIDE DEF base
    <3>4. base \in 1..k /\ stack[base].op # "merge"
      BY <1>3, <3>3
    <3>5. ASSUME NEW i \in base + 1..k PROVE stack[i].op = "merge"
      <4>1. i \in 1..k /\ ~ (i <= base)
        BY <1>2, <3>4
      <4>2. i \notin bases
        BY <3>3, <4>1
      <4>3. QED
        BY <1>3, <4>1, <4>2
    <3>6. QED
      BY <3>4, <3>5
  <2>3. QED
    BY <2>1, <2>2
<1>6. Read(s) = IF base = k THEN value
                ELSE gorocksdb_mergeoperator_full_merge(value, Values(base + 1, k))
  <2>1. Read(s) = IF base = Cardinality(seen) THEN value
                  ELSE gorocksdb_mergeoperator_full_merge(value, Values(base + 1, Cardinality(seen)))
    BY DEF Read
  <2> HIDE DEF base, value, seen
  <2>2. QED
    BY <1>4, <2>1, Zenon
<1> HIDE DEF base
<1>7. Expected(writes, SeqAt(stack, base)) = value
  <2>1. CASE base = 0
    BY <2>1, ExpectedZero DEF SeqAt
  <2>2. CASE base # 0
    <3>1. base \in 1..Len(stack)
      BY <1>2, <1>5, <2>2
    <3>2. Summary(stack, writes, base)
      BY <3>1 DEF Good, Summaries
    <3>3. QED
      BY <1>5, <2>2, <3>2 DEF Summary, SeqAt
  <2>3. QED
    BY <2>1, <2>2
<1> HIDE DEF value
<1>8. CASE base = k
  BY <1>1, <1>6, <1>7, <1>8
<1>9. CASE base # k
  <2> DEFINE lo == base + 1
  <2> DEFINE n == k - base
  <2>1. /\ lo \in 1..Len(stack) /\ n \in Nat \ {0} /\ lo + n - 1 = k /\ lo - 1 = base
        /\ k - lo + 1 = n /\ lo \in Nat
    BY <1>2, <1>5, <1>9
  <2>2. Operands(stack, lo, n)
    BY <1>2, <1>5, <2>1 DEF Operands
  <2>3. Values(lo, k) = Run(stack, lo, n)
    BY <1>2, <2>1, ValuesAreRun
  <2> HIDE DEF lo, n
  <2>4. IsStack(stack) /\ IsHistory(writes) /\ Ordered(stack, writes) /\ Summaries(stack, writes)
    BY DEF Good
  <2>5. Expected(writes, SeqAt(stack, lo + n - 1))
          = Onto(Expected(writes, SeqAt(stack, lo - 1)), FlattenSeq(Run(stack, lo, n)))
    BY <2>1, <2>2, <2>4, MergeRange
  <2>6. Run(stack, lo, n) \in Seq(Seq(Nat))
    BY <2>2, <2>4, RunType
  <2>7. gorocksdb_mergeoperator_full_merge(value, Run(stack, lo, n))
          = Onto(value, FlattenSeq(Run(stack, lo, n)))
    BY <2>6, FullMergeIs
  <2>8. Read(s) = gorocksdb_mergeoperator_full_merge(value, Values(lo, k))
    BY <1>6, <1>9 DEF lo
  <2>9. QED
    BY <1>1, <1>7, <2>1, <2>3, <2>5, <2>7, <2>8
<1>10. QED
  BY <1>8, <1>9

-----------------------------------------------------------------------------
(* The invariant holds. *)

LEMMA InitIInv == Init => IInv
<1> SUFFICES ASSUME Init PROVE IInv
  OBVIOUS
<1>1. methods \in Operators /\ writes = <<>> /\ stack = <<>> /\ snapshots = {}
  BY DEF Init
<1>2. Len(stack) = 0 /\ Len(writes) = 0 /\ stack \in Seq(EntryType) /\ writes \in Seq(WriteType)
  BY <1>1
<1>3. IsHistory(writes) /\ IsStack(stack) /\ Ordered(stack, writes) /\ Summaries(stack, writes)
  BY <1>2 DEF IsHistory, IsStack, Ordered, Summaries
<1>4. Readers = {0} /\ snapshots \subseteq 0..Len(writes)
  BY <1>1, <1>2 DEF Readers
<1>5. Ends(stack, 0)
  BY <1>2 DEF Ends, SeqAt
<1>6. QED
  BY <1>1, <1>3, <1>4, <1>5 DEF IInv

\* A write to a history and its stack.
LEMMA WriteKeeps ==
  ASSUME NEW st, NEW w, Good(st, w), Ends(st, Len(w)),
         NEW op \in Ops, NEW value \in Value, op = "merge" => value \in Seq(Nat)
  PROVE  LET x == Append(w, [op |-> op, value |-> value])
             r == Append(st, [op |-> op, seq |-> Len(w) + 1, value |-> value])
         IN  Good(r, x) /\ \A s : Ends(st, s) \/ s = Len(x) => Ends(r, s)
<1> DEFINE u == [op |-> op, value |-> value]
<1> DEFINE e == [op |-> op, seq |-> Len(w) + 1, value |-> value]
<1> DEFINE x == Append(w, u)
<1> DEFINE r == Append(st, e)
<1> DEFINE n == Len(w)
<1> DEFINE k == Len(st)
<1>1. w \in Seq(WriteType) /\ n \in Nat /\ st \in Seq(EntryType) /\ k \in Nat
  BY DEF Good, IsHistory, IsStack
<1>2. u \in WriteType /\ e \in EntryType
  BY <1>1 DEF WriteType, EntryType
<1>3. x \in Seq(WriteType) /\ Len(x) = n + 1 /\ x[n + 1] = u /\ \A i \in 1..n : x[i] = w[i]
  BY <1>1, <1>2
<1>4. r \in Seq(EntryType) /\ Len(r) = k + 1 /\ r[k + 1] = e /\ \A i \in 1..k : r[i] = st[i]
  BY <1>1, <1>2
<1>5. u.op = op /\ u.value = value /\ e.op = op /\ e.value = value /\ e.seq = n + 1
  OBVIOUS
<1> HIDE DEF u, e, x, r, n, k
<1>6. IsHistory(x)
  <2>1. ASSUME NEW i \in 1..n + 1, x[i].op = "merge" PROVE x[i].value \in Seq(Nat)
    <3>1. CASE i = n + 1
      BY <1>3, <1>5, <2>1, <3>1
    <3>2. CASE i # n + 1
      <4>1. i \in 1..n
        BY <1>1, <3>2
      <4>2. QED
        BY <1>3, <2>1, <4>1 DEF Good, IsHistory, n
    <3>3. QED
      BY <3>1, <3>2
  <2>2. QED
    BY <1>3, <2>1 DEF IsHistory
<1>7. IsStack(r)
  <2>1. ASSUME NEW i \in 1..k + 1, r[i].op = "merge" PROVE r[i].value \in Seq(Nat)
    <3>1. CASE i = k + 1
      BY <1>4, <1>5, <2>1, <3>1
    <3>2. CASE i # k + 1
      <4>1. i \in 1..k
        BY <1>1, <3>2
      <4>2. QED
        BY <1>4, <2>1, <4>1 DEF Good, IsStack, k
    <3>3. QED
      BY <3>1, <3>2
  <2>2. QED
    BY <1>4, <2>1 DEF IsStack
<1>8. \A i \in 1..k : st[i].seq \in Nat /\ 1 <= st[i].seq /\ st[i].seq <= n
  BY EntryIs DEF Good, Ordered, k, n
<1>9. \A i, j \in 1..k : i < j => st[i].seq < st[j].seq
  BY DEF Good, Ordered, k
<1>10. \A i \in 0..k : SeqAt(r, i) = SeqAt(st, i) /\ SeqAt(st, i) \in 0..n
  <2> SUFFICES ASSUME NEW i \in 0..k PROVE SeqAt(r, i) = SeqAt(st, i) /\ SeqAt(st, i) \in 0..n
    OBVIOUS
  <2>1. CASE i = 0
    BY <1>1, <2>1 DEF SeqAt
  <2>2. CASE i # 0
    <3>1. i \in 1..k
      BY <1>1, <2>2
    <3>2. QED
      BY <1>1, <1>4, <1>8, <2>2, <3>1 DEF SeqAt
  <2>3. QED
    BY <2>1, <2>2
<1>11. Ordered(r, x)
  <2>1. ASSUME NEW i \in 1..k + 1 PROVE 1 <= r[i].seq /\ r[i].seq <= n + 1
    <3>1. CASE i = k + 1
      BY <1>1, <1>4, <1>5, <3>1
    <3>2. CASE i # k + 1
      <4>1. i \in 1..k
        BY <1>1, <3>2
      <4>2. QED
        BY <1>1, <1>4, <1>8, <4>1
    <3>3. QED
      BY <3>1, <3>2
  <2>2. ASSUME NEW i \in 1..k + 1, NEW j \in 1..k + 1, i < j PROVE r[i].seq < r[j].seq
    <3>1. i \in 1..k
      BY <1>1, <2>2
    <3>2. CASE j = k + 1
      BY <1>1, <1>4, <1>5, <1>8, <3>1, <3>2
    <3>3. CASE j # k + 1
      <4>1. j \in 1..k
        BY <1>1, <3>3
      <4>2. QED
        BY <1>4, <1>9, <2>2, <3>1, <4>1
    <3>4. QED
      BY <3>2, <3>3
  <2>3. QED
    BY <1>3, <1>4, <2>1, <2>2 DEF Ordered
\* What the old writes make stays.
<1>12. \A s \in 0..n : Expected(x, s) = Expected(w, s)
  <2> SUFFICES ASSUME NEW s \in 0..n PROVE Expected(x, s) = Expected(w, s)
    OBVIOUS
  <2>1. s \in Nat /\ \A i \in 1..s : i \in 1..n
    BY <1>1
  <2>2. AgreeUpTo(x, w, s)
    BY <1>3, <2>1 DEF AgreeUpTo
  <2>3. QED
    BY <2>1, <2>2, ExpectedAgree
\* The newest entry below is that of the write before.
<1>13. SeqAt(st, k) = n
  <2>1. PICK i \in 0..k : SeqAt(st, i) = n
    BY DEF Ends, k, n
  <2>2. CASE i = k
    BY <2>1, <2>2
  <2>3. CASE i # k
    <3>1. k \in 1..k /\ i < k /\ k # 0
      BY <1>1, <2>3
    <3>2. i # 0 => i \in 1..k
      BY <1>1
    <3>3. SeqAt(st, i) < st[k].seq
      BY <1>8, <1>9, <3>1, <3>2 DEF SeqAt
    <3>4. QED
      BY <1>1, <1>8, <2>1, <3>1, <3>3
  <2>4. QED
    BY <2>2, <2>3
<1>14. Summaries(r, x)
  <2> SUFFICES ASSUME NEW i \in 1..k + 1 PROVE Summary(r, x, i)
    BY <1>4 DEF Summaries
  <2>1. CASE i = k + 1
    <3>1. SeqAt(r, i - 1) = n
      <4>1. i - 1 = k /\ k \in 0..k
        BY <1>1, <2>1
      <4>2. QED
        BY <1>10, <1>13, <4>1
    <3>2. n + 1 \in 1..Len(x) /\ n + 1 \in Nat \ {0} /\ (n + 1) - 1 = n
      BY <1>1, <1>3
    <3>3. r[i] = e /\ x[n + 1] = u
      BY <1>3, <1>4, <2>1
    <3>4. op = "merge" => Expected(x, n + 1) = Onto(Expected(x, n), value)
      BY <1>3, <1>5, <1>6, <3>2, ExpectedMerge
    <3>5. op # "merge" => Expected(x, n + 1) = value
      BY <1>3, <1>5, <3>2, ExpectedStep
    <3>6. QED
      BY <1>5, <3>1, <3>3, <3>4, <3>5 DEF Summary
  <2>2. CASE i # k + 1
    <3>1. i \in 1..k /\ i - 1 \in 0..k
      BY <1>1, <2>2
    <3>2. Summary(st, w, i)
      BY <3>1 DEF Good, Summaries, k
    <3>3. r[i] = st[i] /\ SeqAt(r, i - 1) = SeqAt(st, i - 1)
      BY <1>4, <1>10, <3>1
    <3>4. /\ Expected(x, st[i].seq) = Expected(w, st[i].seq)
          /\ Expected(x, SeqAt(st, i - 1)) = Expected(w, SeqAt(st, i - 1))
      <4>1. st[i].seq \in 0..n
        BY <1>1, <1>8, <3>1
      <4>2. SeqAt(st, i - 1) \in 0..n
        BY <1>10, <3>1
      <4>3. QED
        BY <1>12, <4>1, <4>2
    <3>5. QED
      BY <3>2, <3>3, <3>4 DEF Summary
  <2>3. QED
    BY <2>1, <2>2
<1>15. ASSUME NEW s, Ends(st, s) \/ s = Len(x) PROVE Ends(r, s)
  <2>1. CASE Ends(st, s)
    <3>1. PICK i \in 0..k : SeqAt(st, i) = s
      BY <2>1 DEF Ends, k
    <3>2. i \in 0..k + 1
      BY <1>1
    <3>3. QED
      BY <1>4, <1>10, <3>1, <3>2 DEF Ends
  <2>2. CASE s = Len(x)
    <3>1. k + 1 \in 0..k + 1 /\ k + 1 # 0
      BY <1>1
    <3>2. SeqAt(r, k + 1) = s
      BY <1>3, <1>4, <1>5, <2>2, <3>1 DEF SeqAt
    <3>3. QED
      BY <1>4, <3>1, <3>2 DEF Ends
  <2>3. QED
    BY <1>15, <2>1, <2>2
<1>16. Good(r, x)
  BY <1>6, <1>7, <1>11, <1>14 DEF Good
<1>17. QED
  BY <1>15, <1>16 DEF x, r, u, e

LEMMA WriteStep ==
  ASSUME IInv, NEW op \in Ops, NEW value \in Value, op = "merge" => value \in Seq(Nat),
         Write(op, value)
  PROVE  IInv'
<1> DEFINE n == Len(writes)
<1>1. Good(stack, writes) /\ Ends(stack, n) /\ n \in Nat
  BY DEF IInv, Good, Readers, IsHistory
<1>2. /\ Good(stack', writes')
      /\ \A s : Ends(stack, s) \/ s = Len(writes') => Ends(stack', s)
  BY <1>1, WriteKeeps DEF Write
<1>3. Len(writes') = n + 1
  BY DEF Write, IInv, IsHistory
<1>4. methods' \in Operators /\ snapshots' = snapshots /\ snapshots \subseteq 0..n
  BY DEF Write, IInv
<1>5. snapshots' \subseteq 0..Len(writes')
  BY <1>1, <1>3, <1>4
<1>6. \A s \in Readers' : Ends(stack', s)
  BY <1>2, <1>4 DEF IInv, Readers
<1>7. QED
  BY <1>2, <1>4, <1>5, <1>6 DEF IInv, Good

\* One entry takes the place of some that no reader tells apart.
LEMMA CollapseStep ==
  ASSUME IInv, NEW lo \in 1..Len(stack), NEW hi \in lo..Len(stack), SameStripe(lo, hi),
         NEW op, NEW value, Collapse(lo, hi, op, value),
         StandsFor([op |-> op, seq |-> stack[hi].seq, value |-> value], stack, writes, lo, hi)
  PROVE  IInv'
<1> DEFINE e == [op |-> op, seq |-> stack[hi].seq, value |-> value]
<1>1. Good(stack, writes)
  BY DEF IInv, Good
<1>2. stack' = Replaced(stack, lo, hi, e) /\ UNCHANGED <<methods, writes, snapshots>>
  BY DEF Collapse, Replaced
<1> HIDE DEF e
<1>3. /\ Good(stack', writes)
      /\ \A s : Ends(stack, s) /\ ~ (stack[lo].seq <= s /\ s < stack[hi].seq)
                  => Ends(stack', s)
  BY <1>1, <1>2, ReplacedKeeps DEF e
<1>4. ASSUME NEW s \in Readers PROVE ~ (stack[lo].seq <= s /\ s < stack[hi].seq)
  <2>1. CASE s \in snapshots
    BY <2>1 DEF SameStripe
  <2>2. CASE s = Len(writes)
    <3>1. hi \in 1..Len(stack) /\ Len(writes) \in Nat
      BY DEF IInv, IsStack, IsHistory
    <3>2. stack[hi].seq \in Nat /\ stack[hi].seq <= Len(writes)
      BY <3>1, EntryIs DEF IInv, Ordered
    <3>3. QED
      BY <2>2, <3>1, <3>2
  <2>3. QED
    BY <1>4, <2>1, <2>2 DEF Readers
<1>5. \A s \in Readers' : Ends(stack', s)
  BY <1>2, <1>3, <1>4 DEF IInv, Readers
<1>6. QED
  BY <1>2, <1>3, <1>5 DEF IInv, Good

\* The merged value of the entries of a run, and of a value below it.
LEMMA MergedIs ==
  ASSUME IInv, NEW lo \in 1..Len(stack), NEW hi \in lo..Len(stack), AreMerges(lo, hi)
  PROVE  /\ Values(lo, hi) \in Seq(Seq(Nat)) /\ Len(Values(lo, hi)) = hi - lo + 1
         /\ FlattenSeq(Values(lo, hi)) \in Seq(Nat)
         /\ Expected(writes, stack[hi].seq)
              = Onto(Expected(writes, SeqAt(stack, lo - 1)), FlattenSeq(Values(lo, hi)))
<1> DEFINE n == hi - lo + 1
<1>1. /\ n \in Nat \ {0} /\ lo + n - 1 = hi /\ hi <= Len(stack) /\ lo \in Nat /\ hi \in Nat
      /\ hi # 0
  BY DEF IInv, IsStack
<1>2. Operands(stack, lo, n)
  BY <1>1 DEF Operands, AreMerges
<1>3. Values(lo, hi) = Run(stack, lo, n)
  BY <1>1, ValuesAreRun
<1> HIDE DEF n
<1>4. Run(stack, lo, n) \in Seq(Seq(Nat)) /\ Len(Run(stack, lo, n)) = n
  BY <1>2, RunType DEF IInv
<1>5. FlattenSeq(Run(stack, lo, n)) \in Seq(Nat)
  BY <1>4, FlattenType
<1>6. Expected(writes, SeqAt(stack, lo + n - 1))
        = Onto(Expected(writes, SeqAt(stack, lo - 1)), FlattenSeq(Run(stack, lo, n)))
  BY <1>1, <1>2, MergeRange DEF IInv
<1>7. SeqAt(stack, lo + n - 1) = stack[hi].seq
  BY <1>1 DEF SeqAt
<1>8. QED
  BY <1>3, <1>4, <1>5, <1>6, <1>7 DEF n

LEMMA CompactOperandsStep ==
  ASSUME IInv, NEW lo \in DOMAIN stack, NEW hi \in DOMAIN stack, CompactOperands(lo, hi)
  PROVE  IInv'
<1> DEFINE ops == Values(lo, hi)
<1>1. /\ lo \in 1..Len(stack) /\ hi \in lo..Len(stack) /\ hi \in 1..Len(stack)
      /\ AreMerges(lo, hi) /\ SameStripe(lo, hi) /\ hi - lo + 1 > 1
  BY DEF CompactOperands, IInv, IsStack
<1>2. PICK refused : LET merged == gorocksdb_mergeoperator_partial_merge_multi(ops, refused)
                     IN  \/ /\ merged # Failed
                            /\ Collapse(lo, hi, "merge", merged)
                         \/ UNCHANGED <<methods, writes, stack, snapshots>>
  BY DEF CompactOperands
<1> DEFINE merged == gorocksdb_mergeoperator_partial_merge_multi(ops, refused)
<1> HIDE DEF ops, merged
<1>3. CASE merged # Failed /\ Collapse(lo, hi, "merge", merged)
  <2>1. /\ ops \in Seq(Seq(Nat)) /\ Len(ops) > 1 /\ FlattenSeq(ops) \in Seq(Nat)
        /\ Expected(writes, stack[hi].seq)
             = Onto(Expected(writes, SeqAt(stack, lo - 1)), FlattenSeq(ops))
    BY <1>1, MergedIs DEF ops
  <2>2. merged = FlattenSeq(ops)
    BY <1>3, <2>1, PartialMergeIs DEF merged
  <2> DEFINE e == [op |-> "merge", seq |-> stack[hi].seq, value |-> merged]
  <2>3. e \in EntryType
    BY <1>1, <2>1, <2>2, EntryIs DEF EntryType, Ops, Value, IInv
  <2>4. StandsFor(e, stack, writes, lo, hi)
    BY <2>1, <2>2, <2>3 DEF StandsFor
  <2>5. QED
    BY <1>1, <1>3, <2>4, CollapseStep
<1>4. CASE UNCHANGED <<methods, writes, stack, snapshots>>
  BY <1>4 DEF IInv, Readers
<1>5. QED
  BY <1>2, <1>3, <1>4 DEF merged

\* The full merge of the operands lo..hi onto the value below them.
LEMMA FullMergeStands ==
  ASSUME IInv, NEW lo \in 1..Len(stack), NEW hi \in lo..Len(stack), AreMerges(lo, hi),
         NEW from \in 1..Len(stack), NEW existing,
         existing = Expected(writes, SeqAt(stack, lo - 1))
  PROVE  StandsFor([op |-> "put", seq |-> stack[hi].seq,
                    value |-> gorocksdb_mergeoperator_full_merge(existing, Values(lo, hi))],
                   stack, writes, from, hi)
<1> DEFINE ops == Values(lo, hi)
<1> DEFINE value == gorocksdb_mergeoperator_full_merge(existing, ops)
<1> DEFINE e == [op |-> "put", seq |-> stack[hi].seq, value |-> value]
<1>1. /\ ops \in Seq(Seq(Nat)) /\ FlattenSeq(ops) \in Seq(Nat)
      /\ Expected(writes, stack[hi].seq) = Onto(existing, FlattenSeq(ops))
  BY MergedIs
<1> HIDE DEF ops
<1>2. value = Onto(existing, FlattenSeq(ops))
  BY <1>1, FullMergeIs
<1>3. hi \in 1..Len(stack) /\ stack[hi].seq \in Nat /\ stack[hi].seq \in 0..Len(writes)
  <2>1. hi \in 1..Len(stack) /\ Len(writes) \in Nat
    BY DEF IInv, IsStack, IsHistory
  <2>2. QED
    BY <2>1, EntryIs DEF IInv, Ordered
<1>4. value \in Value
  BY <1>1, <1>2, <1>3, ExpectedType DEF IInv
<1> HIDE DEF value
<1>5. e \in EntryType
  BY <1>3, <1>4 DEF EntryType, Ops
<1>6. StandsFor(e, stack, writes, from, hi)
  BY <1>1, <1>2, <1>5 DEF StandsFor
<1>7. QED
  BY <1>6 DEF value, ops

LEMMA CompactOntoStep ==
  ASSUME IInv, NEW lo \in DOMAIN stack, NEW hi \in DOMAIN stack, CompactOnto(lo, hi)
  PROVE  IInv'
<1> DEFINE value == gorocksdb_mergeoperator_full_merge(stack[lo].value, Values(lo + 1, hi))
<1>1. /\ lo \in 1..Len(stack) /\ hi \in lo..Len(stack)
      /\ lo + 1 \in 1..Len(stack) /\ hi \in lo + 1..Len(stack)
      /\ lo # 0 /\ (lo + 1) - 1 = lo
  BY DEF CompactOnto, IInv, IsStack
<1>2. /\ stack[lo].op # "merge" /\ AreMerges(lo + 1, hi) /\ SameStripe(lo, hi)
      /\ Collapse(lo, hi, "put", value)
  BY DEF CompactOnto
<1> HIDE DEF value
<1>3. Summary(stack, writes, lo)
  BY <1>1 DEF IInv, Summaries
<1>4. stack[lo].value = Expected(writes, SeqAt(stack, (lo + 1) - 1))
  BY <1>1, <1>2, <1>3 DEF Summary, SeqAt
<1>5. StandsFor([op |-> "put", seq |-> stack[hi].seq, value |-> value], stack, writes, lo, hi)
  BY <1>1, <1>2, <1>4, FullMergeStands DEF value
<1>6. QED
  BY <1>1, <1>2, <1>5, CollapseStep

LEMMA CompactBottomStep ==
  ASSUME IInv, NEW hi \in DOMAIN stack, CompactBottom(hi)
  PROVE  IInv'
<1> DEFINE value == gorocksdb_mergeoperator_full_merge(Nothing, Values(1, hi))
<1>1. 1 \in 1..Len(stack) /\ hi \in 1..Len(stack) /\ 1 - 1 = 0
  BY DEF IInv, IsStack
<1>2. AreMerges(1, hi) /\ SameStripe(1, hi) /\ Collapse(1, hi, "put", value)
  BY DEF CompactBottom
<1> HIDE DEF value
<1>3. Nothing = Expected(writes, SeqAt(stack, 1 - 1))
  BY <1>1, ExpectedZero DEF SeqAt
<1>4. StandsFor([op |-> "put", seq |-> stack[hi].seq, value |-> value], stack, writes, 1, hi)
  BY <1>1, <1>2, <1>3, FullMergeStands DEF value
<1>5. QED
  BY <1>1, <1>2, <1>4, CollapseStep

LEMMA DropHiddenStep ==
  ASSUME IInv, NEW lo \in DOMAIN stack, DropHidden(lo)
  PROVE  IInv'
<1> DEFINE hi == lo + 1
<1>1. lo \in 1..Len(stack) /\ hi \in lo..Len(stack) /\ hi \in 1..Len(stack)
  BY DEF DropHidden, IInv, IsStack
<1>2. /\ stack[hi].op # "merge" /\ SameStripe(lo, hi)
      /\ Collapse(lo, hi, stack[hi].op, stack[hi].value)
  BY DEF DropHidden
<1> DEFINE e == [op |-> stack[hi].op, seq |-> stack[hi].seq, value |-> stack[hi].value]
<1> HIDE DEF hi
<1>3. e \in EntryType
  BY <1>1, EntryIs DEF EntryType, IInv
<1>4. Summary(stack, writes, hi)
  BY <1>1 DEF IInv, Summaries
<1>5. StandsFor(e, stack, writes, lo, hi)
  BY <1>2, <1>3, <1>4 DEF StandsFor, Summary
<1>6. QED
  BY <1>1, <1>2, <1>5, CollapseStep

LEMMA NextIInv ==
  ASSUME IInv, [Next]_vars
  PROVE  IInv'
<1>1. Len(writes) \in Nat
  BY DEF IInv, IsHistory
<1>2. CASE Put
  <2>1. PICK value \in {<<>>, Own} : Write("put", value)
    BY <1>2 DEF Put
  <2>2. <<>> \in Seq(Nat) /\ Own \in Seq(Nat)
    BY <1>1 DEF Own
  <2>3. value \in Value /\ "put" \in Ops
    BY <2>2 DEF Value, Ops
  <2>4. QED
    BY <2>1, <2>3, WriteStep
<1>3. CASE Delete
  BY <1>3, WriteStep DEF Delete, Value, Ops
<1>4. CASE Merge
  <2>1. Own \in Seq(Nat) /\ Own \in Value /\ "merge" \in Ops
    BY <1>1 DEF Value, Ops, Own
  <2>2. QED
    BY <1>4, <2>1, WriteStep DEF Merge
<1>5. CASE NewSnapshot
  <2>1. /\ snapshots' = snapshots \cup {Len(writes)}
        /\ UNCHANGED <<methods, writes, stack>>
    BY <1>5 DEF NewSnapshot
  <2>2. snapshots' \subseteq 0..Len(writes)
    <3>1. snapshots \subseteq 0..Len(writes)
      BY DEF IInv
    <3>2. Len(writes) \in 0..Len(writes)
      BY <1>1
    <3>3. QED
      BY <2>1, <3>1, <3>2
  <2>3. Readers' = Readers
    BY <2>1 DEF Readers
  <2>4. QED
    BY <2>1, <2>2, <2>3 DEF IInv
<1>6. CASE \E s \in snapshots : ReleaseSnapshot(s)
  BY <1>6 DEF ReleaseSnapshot, IInv, Readers
<1>7. CASE Compact
  BY <1>7, CompactOperandsStep, CompactOntoStep, CompactBottomStep, DropHiddenStep DEF Compact
<1>8. CASE UNCHANGED vars
  BY <1>8 DEF vars, IInv, Readers
<1>9. QED
  BY <1>2, <1>3, <1>4, <1>5, <1>6, <1>7, <1>8 DEF Next

\* The invariant: what the entries stand for, and that every reader ends
\* with one of them.
THEOREM InvariantAlways == Spec => []IInv
<1>1. IInv /\ [Next]_vars => IInv'
  BY NextIInv
<1>2. QED
  BY InitIInv, <1>1, PTL DEF Spec

\* For any operators, writes, snapshots and compactions, every read is what
\* the writes it sees make one by one (merge_operator.go).
THEOREM ReadsAgreeAlways == Spec => []ReadsAgree
<1>1. IInv => ReadsAgree
  <2> SUFFICES ASSUME IInv, NEW s \in Readers PROVE Read(s) = Expected(writes, s)
    BY DEF ReadsAgree, Readers
  <2>1. Good(stack, writes) /\ Ends(stack, s)
    BY DEF IInv, Good
  <2>2. QED
    BY <2>1, ReadIsExpected
<1>2. QED
  BY InvariantAlways, <1>1, PTL

\* If an operator with PartialMergeMulti also has the method Destroy that the
\* interface MultiMerger wants, the operands it would combine are never
\* declined (merge_operator.go).
THEOREM OffersReachOperatorAlways ==
  ASSUME \A m \in Operators : "PartialMergeMulti" \in m => "Destroy" \in m
  PROVE  Spec => []OffersReachOperator
<1>1. Init => OffersReachOperator
  BY DEF Init, OffersReachOperator
<1>2. ASSUME IInv, OffersReachOperator, [Next]_vars PROVE OffersReachOperator'
  <2>1. CASE \E lo, hi \in DOMAIN stack : CompactOperands(lo, hi)
    <3>1. PICK lo \in DOMAIN stack, hi \in DOMAIN stack : CompactOperands(lo, hi)
      BY <2>1
    <3> DEFINE ops == Values(lo, hi)
    <3>2. lo \in 1..Len(stack) /\ hi \in lo..Len(stack) /\ AreMerges(lo, hi)
      BY <1>2, <3>1 DEF CompactOperands, IInv, IsStack
    <3>3. ops \in Seq(Seq(Nat))
      BY <1>2, <3>2, MergedIs
    <3>4. PICK refused :
            LET merged == gorocksdb_mergeoperator_partial_merge_multi(ops, refused)
            IN  \/ Collapse(lo, hi, "merge", merged) /\ UNCHANGED declined
                \/ /\ merged = Failed
                   /\ declined' = (declined \/ refused = {})
                   /\ UNCHANGED methods
      BY <3>1 DEF CompactOperands
    <3> HIDE DEF ops
    <3>5. methods' = methods
      BY <3>4 DEF Collapse
    <3>6. CASE "PartialMergeMulti" \in methods
      <4>1. IsMultiMerger
        BY <1>2, <3>6 DEF IInv, IsMultiMerger
      <4>2. refused = {} => gorocksdb_mergeoperator_partial_merge_multi(ops, refused) # Failed
        BY <3>3, <4>1, MultiMergerAsked
      <4>3. ~ declined
        BY <1>2, <3>6 DEF OffersReachOperator
      <4>4. ~ declined'
        BY <3>4, <4>2, <4>3
      <4>5. QED
        BY <4>4 DEF OffersReachOperator
    <3>7. CASE "PartialMergeMulti" \notin methods
      BY <3>5, <3>7 DEF OffersReachOperator
    <3>8. QED
      BY <3>6, <3>7
  <2>2. CASE UNCHANGED <<methods, declined>>
    BY <1>2, <2>2 DEF OffersReachOperator
  <2>3. \/ \E lo, hi \in DOMAIN stack : CompactOperands(lo, hi)
        \/ UNCHANGED <<methods, declined>>
    BY <1>2 DEF Next, vars, Put, Delete, Merge, Write, NewSnapshot, ReleaseSnapshot,
                Compact, CompactOnto, CompactBottom, DropHidden, Collapse
  <2>4. QED
    BY <2>1, <2>2, <2>3
<1>3. QED
  BY InvariantAlways, <1>1, <1>2, PTL DEF Spec

-----------------------------------------------------------------------------
(* The refinement.  By the invariant every read is what the writes make,   *)
(* so what a step does to the writes it does to all a client can see.      *)

Visible == /\ Read(Len(writes)) = Expected(writes, Len(writes))
           /\ [s \in snapshots |-> Read(s)] = [s \in snapshots |-> Expected(writes, s)]

LEMMA AllVisible == IInv => Visible
<1> SUFFICES ASSUME IInv
             PROVE  \A s \in Readers : Read(s) = Expected(writes, s)
  BY DEF Readers, Visible
<1>1. Good(stack, writes) /\ \A s \in Readers : Ends(stack, s)
  BY DEF IInv, Good
<1>2. QED
  BY <1>1, ReadIsExpected

\* A write adds to what was written before, and the snapshots see only that.
LEMMA WriteShows ==
  ASSUME IInv, IInv', NEW op, NEW value, Write(op, value),
         op = "merge" => value \in Seq(Nat)
  PROVE  Key!Becomes(IF op = "merge" THEN Onto(Read(Len(writes)), value) ELSE value)
<1> DEFINE n == Len(writes)
<1> DEFINE entry == [op |-> op, value |-> value]
<1>1. writes \in Seq(WriteType) /\ n \in Nat
  BY DEF IInv, IsHistory
<1>2. writes' = Append(writes, entry) /\ snapshots' = snapshots
  BY DEF Write
<1>3. Len(writes') = n + 1 /\ writes'[n + 1] = entry /\ \A i \in 1..n : writes'[i] = writes[i]
  BY <1>1, <1>2
<1>4. \A s \in 0..n : Expected(writes', s) = Expected(writes, s)
  <2> TAKE s \in 0..n
  <2>1. s \in Nat /\ AgreeUpTo(writes', writes, s)
    BY <1>1, <1>3 DEF AgreeUpTo
  <2>2. QED
    BY <2>1, ExpectedAgree
<1>5. Expected(writes', n + 1) = IF op = "merge" THEN Onto(Expected(writes, n), value) ELSE value
  <2>1. /\ n + 1 \in Nat \ {0} /\ (n + 1) - 1 = n /\ n \in 0..n
        /\ entry.op = op /\ entry.value = value
    BY <1>1
  <2>2. Expected(writes', n + 1) = IF writes'[n + 1].op = "merge"
                                   THEN FullMerge(Expected(writes', (n + 1) - 1), <<writes'[n + 1].value>>)
                                   ELSE writes'[n + 1].value
    BY ONLY <2>1, ExpectedStep
  <2>3. QED
    BY <1>3, <1>4, <2>1, <2>2, FullMergeOne
<1>6. /\ Read(Len(writes)) = Expected(writes, n)
      /\ [s \in snapshots |-> Read(s)] = [s \in snapshots |-> Expected(writes, s)]
  BY AllVisible DEF Visible
<1>7. /\ Read(Len(writes))' = Expected(writes', n + 1)
      /\ [s \in snapshots |-> Read(s)]' = [s \in snapshots |-> Expected(writes', s)]
  <2>1. Visible'
    BY AllVisible, PTL
  <2>2. QED
    BY <1>2, <1>3, <2>1 DEF Visible
<1>8. snapshots \subseteq 0..n
  BY DEF IInv
<1>9. [s \in snapshots |-> Read(s)]' = [s \in snapshots |-> Read(s)]
  BY <1>4, <1>6, <1>7, <1>8
<1>10. QED
  BY <1>3, <1>5, <1>6, <1>7, <1>9 DEF Key!Becomes

\* What does not write, and leaves the snapshots alone, shows nothing.
LEMMA OthersShowNothing ==
  ASSUME IInv, IInv', UNCHANGED <<writes, snapshots>>
  PROVE  UNCHANGED Key!vars
<1>1. /\ Read(Len(writes)) = Expected(writes, Len(writes))
      /\ [s \in snapshots |-> Read(s)] = [s \in snapshots |-> Expected(writes, s)]
  BY AllVisible DEF Visible
<1>2. /\ Read(Len(writes))' = Expected(writes, Len(writes))'
      /\ [s \in snapshots |-> Read(s)]' = [s \in snapshots |-> Expected(writes, s)]'
  <2>1. Visible'
    BY AllVisible, PTL
  <2>2. QED
    BY <2>1 DEF Visible
<1>3. /\ Expected(writes, Len(writes))' = Expected(writes, Len(writes))
      /\ [s \in snapshots |-> Expected(writes, s)]' = [s \in snapshots |-> Expected(writes, s)]
  OBVIOUS
<1>4. QED
  BY <1>1, <1>2, <1>3 DEF Key!vars

LEMMA ShowsInit == Init => Key!Init
<1> SUFFICES ASSUME Init PROVE Key!Init
  OBVIOUS
<1>1. writes = <<>> /\ snapshots = {} /\ Len(writes) = 0
  BY DEF Init
<1>2. Read(Len(writes)) = Expected(writes, 0)
  BY <1>1, InitIInv, AllVisible DEF Visible
<1>3. Read(Len(writes)) = Nothing
  BY <1>2, ExpectedZero
<1>4. [s \in snapshots |-> Read(s)] = [s \in {} |-> Nothing]
  BY <1>1
<1>5. QED
  BY <1>1, <1>3, <1>4 DEF Key!Init

LEMMA PutShows ==
  ASSUME IInv, IInv', Put
  PROVE  Key!Put
<1>1. PICK v \in {<<>>, Own} : Write("put", v)
  BY DEF Put
<1>2. Key!Becomes(IF "put" = "merge" THEN Onto(Read(Len(writes)), v) ELSE v)
  BY <1>1, WriteShows
<1>3. Key!Becomes(v)
  BY <1>2
<1>4. v \in {<<>>, Key!Own}
  BY DEF Own, Key!Own
<1>5. QED
  BY <1>3, <1>4 DEF Key!Put

LEMMA DeleteShows ==
  ASSUME IInv, IInv', Delete
  PROVE  Key!Delete
<1>1. Key!Becomes(IF "delete" = "merge" THEN Onto(Read(Len(writes)), Nothing) ELSE Nothing)
  BY WriteShows DEF Delete
<1>2. Key!Becomes(Nothing)
  BY <1>1
<1>3. QED
  BY <1>2 DEF Key!Delete

LEMMA MergeShows ==
  ASSUME IInv, IInv', Merge
  PROVE  Key!Merge
<1>1. Own \in Seq(Nat)
  BY DEF IInv, IsHistory, Own
<1>2. Key!Becomes(IF "merge" = "merge" THEN Onto(Read(Len(writes)), Own) ELSE Own)
  BY <1>1, WriteShows DEF Merge
<1>3. Key!Becomes(Onto(Read(Len(writes)), Own))
  BY <1>2
<1>4. QED
  BY <1>3 DEF Key!Merge, Key!Own, Own, Onto, Key!FromNothing, FromNothing

\* A snapshot shows from the first what was there when it was made.
LEMMA NewSnapshotShows ==
  ASSUME IInv, IInv', NewSnapshot
  PROVE  Key!NewSnapshot
<1> DEFINE frozen == [s \in snapshots |-> Expected(writes, s)]
<1>1. writes' = writes /\ snapshots' = snapshots \cup {Len(writes)}
  BY DEF NewSnapshot
<1>2. Read(Len(writes)) = Expected(writes, Len(writes)) /\ [s \in snapshots |-> Read(s)] = frozen
  BY AllVisible DEF Visible
<1>3. /\ Read(Len(writes))' = Expected(writes, Len(writes))
      /\ [s \in snapshots |-> Read(s)]' = [s \in snapshots' |-> Expected(writes, s)]
  <2>1. Visible'
    BY AllVisible, PTL
  <2>2. QED
    BY <1>1, <2>1 DEF Visible
<1>4. [s \in snapshots' |-> Expected(writes, s)]
      = [s \in DOMAIN frozen \cup {Len(writes)} |->
           IF s = Len(writes) THEN Expected(writes, Len(writes)) ELSE frozen[s]]
  BY <1>1
<1>5. Len(writes)' = Len(writes)
  BY <1>1
<1>6. QED
  BY <1>2, <1>3, <1>4, <1>5 DEF Key!NewSnapshot

LEMMA ReleaseSnapshotShows ==
  ASSUME IInv, IInv', NEW s \in snapshots, ReleaseSnapshot(s)
  PROVE  \E t \in DOMAIN [r \in snapshots |-> Read(r)] : Key!ReleaseSnapshot(t)
<1> DEFINE frozen == [r \in snapshots |-> Expected(writes, r)]
<1>1. writes' = writes /\ snapshots' = snapshots \ {s}
  BY DEF ReleaseSnapshot
<1>2. Read(Len(writes)) = Expected(writes, Len(writes)) /\ [r \in snapshots |-> Read(r)] = frozen
  BY AllVisible DEF Visible
<1>3. /\ Read(Len(writes))' = Expected(writes, Len(writes))
      /\ [r \in snapshots |-> Read(r)]' = [r \in snapshots' |-> Expected(writes, r)]
  <2>1. Visible'
    BY AllVisible, PTL
  <2>2. QED
    BY <1>1, <2>1 DEF Visible
<1>4. [r \in snapshots' |-> Expected(writes, r)] = [t \in DOMAIN frozen \ {s} |-> frozen[t]]
  BY <1>1
<1>5. Len(writes)' = Len(writes)
  BY <1>1
<1>6. Key!ReleaseSnapshot(s)
  BY <1>2, <1>3, <1>4, <1>5 DEF Key!ReleaseSnapshot
<1>7. s \in DOMAIN [r \in snapshots |-> Read(r)]
  OBVIOUS
<1>8. QED
  BY <1>6, <1>7

LEMMA StepShows == IInv /\ IInv' /\ [Next]_vars => [Key!Next]_(Key!vars)
<1> SUFFICES ASSUME IInv, IInv', [Next]_vars PROVE [Key!Next]_(Key!vars)
  OBVIOUS
<1>1. CASE Put
  BY <1>1, PutShows DEF Key!Next
<1>2. CASE Delete
  BY <1>2, DeleteShows DEF Key!Next
<1>3. CASE Merge
  BY <1>3, MergeShows DEF Key!Next
<1>4. CASE NewSnapshot
  BY <1>4, NewSnapshotShows DEF Key!Next
<1>5. CASE \E s \in snapshots : ReleaseSnapshot(s)
  <2>1. PICK s \in snapshots : ReleaseSnapshot(s)
    BY <1>5
  <2>2. \E t \in DOMAIN [r \in snapshots |-> Read(r)] : Key!ReleaseSnapshot(t)
    BY <2>1, ReleaseSnapshotShows
  <2>3. QED
    BY <2>2 DEF Key!Next
<1>6. CASE Compact
  <2>1. UNCHANGED <<writes, snapshots>>
    BY <1>6 DEF Compact, CompactOperands, CompactOnto, CompactBottom, DropHidden, Collapse
  <2>2. QED
    BY <2>1, OthersShowNothing
<1>7. CASE UNCHANGED vars
  <2>1. UNCHANGED <<writes, snapshots>>
    BY <1>7 DEF vars
  <2>2. QED
    BY <2>1, OthersShowNothing
<1>8. QED
  BY <1>1, <1>2, <1>3, <1>4, <1>5, <1>6, <1>7 DEF Next

\* For any operators, writes, snapshots and compactions: to a reader the
\* stack is the history of one key, in which each write takes effect at once,
\* each snapshot stays as it was made and compactions change nothing
\* (merge_operator.go).
THEOREM KeyIsImplemented == Spec => ImplementsKey
<1>1. Spec => Key!Spec
  BY ShowsInit, StepShows, InvariantAlways, PTL DEF Spec, Key!Spec
<1>2. QED
  BY <1>1 DEF ImplementsKey
=============================================================================

----------------------------- MODULE MergeStack -----------------------------
(***************************************************************************)
(* One key of a database with a merge operator written in Go, under        *)
(* writes, snapshots, reads and compactions.                               *)
(*                                                                         *)
(* RocksDB keeps the writes of the key as a stack of entries and decides   *)
(* when to merge; the two exported functions of merge_operator.go do the   *)
(* merging, through the operator the client has registered.  The operator  *)
(* may offer PartialMerge, PartialMergeMulti, both or neither, and may at  *)
(* any time refuse to combine operands.                                    *)
(*                                                                         *)
(* A value is the sequence of the numbers of the writes that made it: the  *)
(* client's operator appends its operands, in order, to the value there    *)
(* is.  FromNothing stands before what was merged onto a missing key.      *)
(***************************************************************************)
EXTENDS Integers, FiniteSets, SequencesExt

CONSTANTS
    Operators,     \* for each operator a client may register, its optional methods
    Nothing,       \* the value of a missing key
    Failed,        \* the answer "not merged"
    MaxWrites,     \* bound: writes of a behaviour
    MaxSnapshots   \* bound: snapshots alive at a time

ASSUME OperatorsAssumption ==
    Operators \subseteq SUBSET {"PartialMerge", "PartialMergeMulti", "Destroy"}
ASSUME BoundAssumption == MaxWrites \in Nat /\ MaxSnapshots \in Nat
ASSUME AnswerAssumption == Nothing \notin Seq(Nat) /\ Failed \notin Seq(Nat)

VARIABLES
    methods,    \* the optional methods of the registered operator
    writes,     \* what the client wrote: a sequence of [op, value]
    stack,      \* the entries of the key, oldest first: [op, seq, value]
    snapshots,  \* the numbers of writes the live snapshots see
    declined    \* the Go side has declined operands its operator would combine

vars == <<methods, writes, stack, snapshots, declined>>

FromNothing == 0

-----------------------------------------------------------------------------
(* The client's operator. *)

FullMerge(existing, operands) ==
    (IF existing = Nothing THEN <<FromNothing>> ELSE existing) \o FlattenSeq(operands)

PartialMerge(left, right) == left \o right

PartialMergeMulti(operands) == FlattenSeq(operands)

-----------------------------------------------------------------------------
(* merge_operator.go.  refused: the operands at which the client's         *)
(* PartialMerge returns false; PartialMergeMulti returns false if there is *)
(* any.                                                                    *)

(* Mutant: a value of no bytes is a missing value. *)
EmptyIsNil(value) == IF value = <<>> THEN Nothing ELSE value

(* A value is a pointer and a length; only a missing value has no pointer. *)
refCBytes(value) == value

gorocksdb_mergeoperator_full_merge(existing, operands) ==
    FullMerge(refCBytes(existing), [i \in DOMAIN operands |-> refCBytes(operands[i])])

(* Mutant: the loop goes on after a refusal, and the last call decides. *)
LeftFoldOn(operands, refused) ==
    LET upTo[n \in 1..Len(operands)] ==
          IF n = 1 THEN operands[1]
          ELSE IF n \in refused THEN <<>>
          ELSE PartialMerge(upTo[n - 1], operands[n])
    IN  IF Len(operands) \in refused THEN Failed ELSE upTo[Len(operands)]

(* The loop of the PartialMerger case.  For one operand it does not run:   *)
(* nothing is merged and that is a success. *)
LeftFold(operands, refused) ==
    LET upTo[n \in 1..Len(operands)] ==
          IF n = 1 THEN operands[1] ELSE PartialMerge(upTo[n - 1], operands[n])
    IN  IF refused # {} THEN Failed
        ELSE IF Len(operands) = 1 THEN <<>>
        ELSE upTo[Len(operands)]

IsMultiMerger   == {"PartialMergeMulti", "Destroy"} \subseteq methods
IsPartialMerger == "PartialMerge" \in methods

(* Mutant: the type switch has no case for MultiMerger. *)
PartialMergerOnly(operands, refused) ==
    IF IsPartialMerger THEN LeftFold(operands, refused) ELSE Failed

gorocksdb_mergeoperator_partial_merge_multi(operands, refused) ==
    IF IsMultiMerger THEN IF refused = {} THEN PartialMergeMulti(operands) ELSE Failed
    ELSE IF IsPartialMerger THEN LeftFold(operands, refused)
    ELSE Failed

-----------------------------------------------------------------------------
(* RocksDB. *)

Init ==
    /\ methods \in Operators
    /\ writes = <<>> /\ stack = <<>> /\ snapshots = {} /\ declined = FALSE

Write(op, value) ==
    /\ Len(writes) < MaxWrites
    /\ writes' = Append(writes, [op |-> op, value |-> value])
    /\ stack' = Append(stack, [op |-> op, seq |-> Len(writes) + 1, value |-> value])
    /\ UNCHANGED <<methods, snapshots, declined>>

Own == <<Len(writes) + 1>>

Put    == \E value \in {<<>>, Own} : Write("put", value)
Delete == Write("delete", Nothing)
Merge  == Write("merge", Own)

NewSnapshot ==
    /\ Cardinality(snapshots) < MaxSnapshots
    /\ snapshots' = snapshots \cup {Len(writes)}
    /\ UNCHANGED <<methods, writes, stack, declined>>

ReleaseSnapshot(s) ==
    /\ snapshots' = snapshots \ {s}
    /\ UNCHANGED <<methods, writes, stack, declined>>

(* No snapshot sees entry lo and not entry hi. *)
SameStripe(lo, hi) == \A s \in snapshots : ~(stack[lo].seq <= s /\ s < stack[hi].seq)

AreMerges(lo, hi) == \A i \in lo..hi : stack[i].op = "merge"

Values(lo, hi) == [i \in 1..hi - lo + 1 |-> stack[lo + i - 1].value]

(* One entry takes the place of the entries lo..hi. *)
Collapse(lo, hi, op, value) ==
    /\ stack' = SubSeq(stack, 1, lo - 1)
                \o <<[op |-> op, seq |-> stack[hi].seq, value |-> value]>>
                \o SubSeq(stack, hi + 1, Len(stack))
    /\ UNCHANGED <<methods, writes, snapshots>>

(* A compaction that has reached no older value offers the operands for    *)
(* combination, two at least, and keeps them when the answer is no.        *)
CompactOperands(lo, hi) ==
    /\ lo < hi /\ AreMerges(lo, hi) /\ SameStripe(lo, hi)
    /\ \E refused \in SUBSET (2..hi - lo + 1) :
         LET merged == gorocksdb_mergeoperator_partial_merge_multi(Values(lo, hi), refused)
         IN  \/ /\ merged # Failed
                /\ Collapse(lo, hi, "merge", merged)
                /\ UNCHANGED declined
             \/ /\ merged = Failed
                /\ declined' = (declined \/ refused = {})
                /\ UNCHANGED <<methods, writes, stack, snapshots>>

(* A compaction that has reached a value or a deletion below the operands. *)
CompactOnto(lo, hi) ==
    /\ lo < hi /\ stack[lo].op # "merge" /\ AreMerges(lo + 1, hi) /\ SameStripe(lo, hi)
    /\ Collapse(lo, hi, "put",
                gorocksdb_mergeoperator_full_merge(stack[lo].value, Values(lo + 1, hi)))
    /\ UNCHANGED declined

(* A compaction that has reached the end of the key's history. *)
CompactBottom(hi) ==
    /\ AreMerges(1, hi) /\ SameStripe(1, hi)
    /\ Collapse(1, hi, "put", gorocksdb_mergeoperator_full_merge(Nothing, Values(1, hi)))
    /\ UNCHANGED declined

(* A compaction drops the entry that a newer value or deletion hides.      *)
DropHidden(lo) ==
    /\ lo < Len(stack) /\ stack[lo + 1].op # "merge" /\ SameStripe(lo, lo + 1)
    /\ Collapse(lo, lo + 1, stack[lo + 1].op, stack[lo + 1].value)
    /\ UNCHANGED declined

Compact ==
    \/ \E lo, hi \in DOMAIN stack : CompactOperands(lo, hi) \/ CompactOnto(lo, hi)
    \/ \E i \in DOMAIN stack : CompactBottom(i) \/ DropHidden(i)

Next ==
    \/ Put \/ Delete \/ Merge
    \/ NewSnapshot
    \/ \E s \in snapshots : ReleaseSnapshot(s)
    \/ Compact

Spec == Init /\ [][Next]_vars

-----------------------------------------------------------------------------
(* What a reader gets that sees the entries up to sequence number s: the   *)
(* operands above the newest value or deletion, merged onto it.            *)
Read(s) ==
    LET seen  == {i \in DOMAIN stack : stack[i].seq <= s}
        bases == {i \in seen : stack[i].op # "merge"}
        base  == IF bases = {} THEN 0 ELSE CHOOSE i \in bases : \A j \in bases : j <= i
        value == IF base = 0 THEN Nothing ELSE stack[base].value
    IN  IF base = Cardinality(seen) THEN value
        ELSE gorocksdb_mergeoperator_full_merge(value, Values(base + 1, Cardinality(seen)))

(* What it should get: the first s of the writes w, one after the other. *)
Expected(w, s) ==
    LET after[n \in 0..s] ==
          IF n = 0 THEN Nothing
          ELSE IF w[n].op = "merge" THEN FullMerge(after[n - 1], <<w[n].value>>)
          ELSE w[n].value
    IN  after[s]

(* Whatever compactions have merged, whichever of the operator's methods   *)
(* they used and whenever it refused, a read through any snapshot, or of   *)
(* the newest state, is what the writes it sees make when they are applied *)
(* one by one: operands in order, each exactly once, onto the right value, *)
(* an empty one and a missing one told apart (merge_operator.go).          *)
ReadsAgree == \A s \in snapshots \cup {Len(writes)} : Read(s) = Expected(writes, s)

(* The operands of a compaction are combined whenever the operator has a   *)
(* method PartialMergeMulti that would combine them (merge_operator.go,    *)
(* the comment of MultiMerger).                                            *)
OffersReachOperator == "PartialMergeMulti" \in methods => ~declined

(* The stack implements the history of one key: to a reader, each write    *)
(* takes effect at once and each snapshot stays as it was made, whatever   *)
(* is still unmerged; compactions change nothing that can be read.         *)
Key == INSTANCE KeyHistory WITH
         count <- Len(writes), value <- Read(Len(writes)),
         frozen <- [s \in snapshots |-> Read(s)]
ImplementsKey == Key!Spec
=============================================================================

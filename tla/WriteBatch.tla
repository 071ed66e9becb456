------------------------------ MODULE WriteBatch -----------------------------
(***************************************************************************)
(* A write batch and the iterator over its records: operations are queued, *)
(* rolled back to save points and cleared, and the iterator decodes the    *)
(* serialised batch, whole, or cut short as a torn log would give it to    *)
(* WriteBatchFrom, or damaged.                                             *)
(***************************************************************************)
EXTENDS WriteBatchCodec, SequencesExt

CONSTANTS
  Ops,        \* the operations that can be queued
  MaxOps,     \* bound: operations in the batch
  MaxSaves,   \* bound: save points set
  Damage(_)   \* Damage(s): damaged copies of the bytes s

ASSUME OpsAssumption == Ops \subseteq Operations
ASSUME BoundAssumption == MaxOps \in Nat /\ MaxSaves \in Nat

\* Twelve bytes of sequence number and count precede the records.
HeaderLen == 12
Header == [i \in 1..HeaderLen |-> 0]

VARIABLES
  batch,      \* the queued operations (the native batch)
  saves,      \* the save points: the lengths of the batch when they were set
  source,     \* the bytes the iterator was made from, header included
  iter,       \* the WriteBatchIterator
  delivered,  \* the records for which Next returned true
  ended       \* Next has returned false

vars == <<batch, saves, source, iter, delivered, ended>>
ivars == <<source, iter, delivered, ended>>

Records(ops) == FlattenSeq([i \in 1..Len(ops) |-> Encode(ops[i])])
Data(ops) == Header \o Records(ops)

TypeOK ==
  /\ batch \in Seq(Ops) /\ Len(batch) <= MaxOps
  /\ saves \in Seq(0..MaxOps)
  /\ \A i \in 1..Len(saves) : saves[i] <= Len(batch) /\ (i > 1 => saves[i-1] <= saves[i])
  /\ iter.data \in Seq(Byte)
  /\ iter.err \in {"nil", "short buffer", "malformed varint", "unsupported"}
  /\ iter.rec.CF \in -Word..Word
  /\ ended \in BOOLEAN /\ iter.panic \in BOOLEAN

Init ==
  /\ batch = <<>> /\ saves = <<>>
  /\ source = <<>> /\ iter = Iterator(<<>>) /\ delivered = <<>> /\ ended = FALSE

\* The iterator reads the memory of the batch, so a change of the batch ends
\* its use: a caller that goes on calling Next reads memory that may have moved.
IteratorEnds ==
  /\ source' = <<>> /\ iter' = Iterator(<<>>) /\ delivered' = <<>> /\ ended' = FALSE

\* Put, PutCF, Merge, Delete, SingleDelete, DeleteRange, PutLogData, ...
Queue(o) ==
  /\ Len(batch) < MaxOps
  /\ batch' = Append(batch, o)
  /\ IteratorEnds /\ UNCHANGED saves

\* A Clear that leaves the save points of the cleared operations behind.
ClearOps ==
  /\ batch' = <<>>
  /\ IteratorEnds /\ UNCHANGED saves
Clear ==
  /\ batch' = <<>> /\ saves' = <<>>
  /\ IteratorEnds

SetSavePoint ==
  /\ Len(saves) < MaxSaves
  /\ saves' = Append(saves, Len(batch))
  /\ UNCHANGED <<batch, ivars>>

\* Both fail with an error, and change nothing, without a save point.
RollbackToSavePoint ==
  /\ saves # <<>>
  /\ batch' = SubSeq(batch, 1, Last(saves))
  /\ saves' = Front(saves)
  /\ IteratorEnds

PopSavePoint ==
  /\ saves # <<>>
  /\ saves' = Front(saves)
  /\ UNCHANGED <<batch, ivars>>

\* An iterator over the batch, or over a batch made by WriteBatchFrom of a
\* prefix or of a damaged copy of its bytes (one iterator at a time).  Less
\* than a header is no record.
SkipHeader(s) == IF Len(s) < HeaderLen THEN <<>> ELSE DropFirst(s, HeaderLen)

NewIterator(s) ==
  /\ source = <<>>
  /\ source' = s
  /\ iter' = Iterator(SkipHeader(s))
  /\ delivered' = <<>> /\ ended' = FALSE
  /\ UNCHANGED <<batch, saves>>

Next_ ==
  /\ source # <<>> /\ ~ended /\ ~iter.panic
  /\ iter' = IF Exhausted(iter) THEN iter ELSE Advance(iter)
  /\ IF ~Exhausted(iter) /\ Decodable(iter')
       THEN delivered' = Append(delivered, iter'.rec) /\ ended' = ended
       ELSE ended' = ~iter'.panic /\ delivered' = delivered
  /\ UNCHANGED <<batch, saves, source>>

Next ==
  \/ \E o \in Ops : Queue(o)
  \/ Clear \/ SetSavePoint \/ RollbackToSavePoint \/ PopSavePoint
  \/ \E n \in 1..Len(Data(batch)) : NewIterator(SubSeq(Data(batch), 1, n))
  \/ \E s \in Damage(Data(batch)) : s \in Seq(Byte) /\ NewIterator(s)
  \/ Next_

Spec == Init /\ [][Next]_vars

-----------------------------------------------------------------------------
\* The iterator was made from the batch or from a prefix of its bytes.
Undamaged == IsPrefix(source, Data(batch))

\* Whatever the cut, what Next delivers are the first operations of the batch,
\* whole and in order: no field is clipped, shifted or left from another record.
DeliversBatch ==
  Undamaged =>
    /\ Len(delivered) <= Len(batch)
    /\ \A i \in 1..Len(delivered) : delivered[i] = Expected(batch[i])

\* When Next has returned false, Error tells whether records are missing: it is
\* nil exactly when the bytes end after a whole record (or inside the header,
\* of which the iterator knows nothing), and all those records were delivered.
ErrorTellsCut ==
  Undamaged /\ ended =>
    IF iter.err = "nil"
      THEN source = Data(SubSeq(batch, 1, Len(delivered))) \/ Len(source) < HeaderLen
      ELSE \A k \in 0..Len(batch) : source # Data(SubSeq(batch, 1, k))

\* Even over damaged bytes a step of the iterator consumes from the front and
\* nothing else: it skips no byte, reads none twice, and a record takes at
\* least one, so that a loop over Next ends.
ConsumesFront ==
  [][Len(delivered') > Len(delivered) =>
       /\ IsSuffix(iter'.data, iter.data)
       /\ Len(iter'.data) < Len(iter.data)]_vars

\* A batch that cannot be decoded makes Next return false with Error set
\* (write_batch.go:317); it does not panic.
NeverPanics == ~iter.panic
=============================================================================

--------------------------- MODULE WriteBatchCodec ---------------------------
(***************************************************************************)
(* The bytes of a write batch: how the iterator of write_batch.go decodes  *)
(* them, and (external, RocksDB's side) how a queued operation is encoded. *)
(* The code's constants are scaled: a byte holds a digit below Base        *)
(* (128 in the code) and a continuation bit; a varint has at most          *)
(* MaxVarintLen digits (10), of which the last is 0 or 1, so that its      *)
(* values are those of an unsigned word (uint64).                          *)
(***************************************************************************)
EXTENDS Integers, Sequences

CONSTANTS Base, MaxVarintLen

\* A byte can hold a record type.
ASSUME CodecAssumption == Base \in Nat /\ Base >= 10 /\ MaxVarintLen \in Nat \ {0}

Byte == 0..2 * Base - 1

Power(n) ==
  LET p[i \in 0..n] == IF i = 0 THEN 1 ELSE Base * p[i-1]
  IN p[n]

Word == 2 * Power(MaxVarintLen - 1)

\* int(v) of an unsigned word: two's complement.
ToInt(v) == IF v < Word \div 2 THEN v ELSE v - Word

DropFirst(s, n) == SubSeq(s, n + 1, Len(s))

-----------------------------------------------------------------------------
\* The record types.  The code's NotUsed marks the read of an absent type.
Deletion == 0
Value == 1
Merge == 2
LogData == 3
CFDeletion == 4
CFValue == 5
CFMerge == 6
SingleDeletion == 7
CFSingleDeletion == 8
BeginPrepareXID == 9
EndPrepareXID == 10
CommitXID == 11
RollbackXID == 12
Noop == 13
CFRangeDeletion == 14
RangeDeletion == 15
CFBlobIndex == 16
BlobIndex == 17
BeginPersistedPrepareXID == 18

\* The arms of Next's switch: which fields a type is followed by.
HasCF(t) == t \in {CFDeletion, CFSingleDeletion, CFValue, CFRangeDeletion, CFMerge, CFBlobIndex}
HasKey(t) == t \in {Deletion, SingleDeletion, Value, Merge, RangeDeletion, BlobIndex} \/ HasCF(t)
HasValue(t) == t \in {Value, Merge, RangeDeletion, BlobIndex, CFValue, CFRangeDeletion, CFMerge,
                      CFBlobIndex, LogData, EndPrepareXID, CommitXID, RollbackXID}
Supported(t) == HasKey(t) \/ HasValue(t) \/ t \in {Noop, BeginPrepareXID, BeginPersistedPrepareXID}

-----------------------------------------------------------------------------
\* binary.Uvarint (Go's library): the value and the bytes read; 0 bytes when
\* the data end inside the varint, a negative count when it does not fit.
DigitsValue(d) ==
  LET sum[i \in 0..Len(d)] == IF i = 0 THEN 0 ELSE sum[i-1] + ((d[i] % Base) * Power(i-1))
  IN sum[Len(d)]

Uvarint(d) ==
  LET last == {i \in 1..Len(d) : i <= MaxVarintLen /\ d[i] < Base}
      k == CHOOSE i \in last : \A j \in last : i <= j
  IN IF last # {}
       THEN IF k = MaxVarintLen /\ d[k] > 1 THEN [v |-> 0, n |-> -k]
            ELSE [v |-> DigitsValue(SubSeq(d, 1, k)), n |-> k]
       ELSE [v |-> 0, n |-> IF Len(d) > MaxVarintLen THEN -(MaxVarintLen + 1) ELSE 0]

\* The iterator: what is left of the data, the sticky error, the record of the
\* last Next, and whether Go panicked (an index or slice out of range).
Iterator(data) ==
  [data |-> data, err |-> "nil", panic |-> FALSE,
   rec |-> [Type |-> 0, CF |-> 0, Key |-> <<>>, Value |-> <<>>]]

\* A decodeVarint that takes the end of the data for a zero.
VarintOrZero(it) ==
  LET u == Uvarint(it.data)
  IN [val |-> u.v, it |-> IF u.n >= 0 THEN [it EXCEPT !.data = DropFirst(@, u.n)]
                          ELSE [it EXCEPT !.err = "malformed varint"]]
\* A decoder answers the iterator it leaves and the value it read.
decodeVarint(it) ==
  LET u == Uvarint(it.data)
  IN [val |-> u.v,
      it |-> CASE u.n > 0 -> [it EXCEPT !.data = DropFirst(@, u.n)]
               [] u.n = 0 -> [it EXCEPT !.err = "short buffer"]
               [] OTHER   -> [it EXCEPT !.err = "malformed varint"]]

\* A decodeSlice without the test of the length against the data that are left.
SliceClipped(it) ==
  LET d == decodeVarint(it)
      l == IF d.val < Len(d.it.data) THEN d.val ELSE Len(d.it.data)
  IN [val |-> SubSeq(d.it.data, 1, l), it |-> [d.it EXCEPT !.data = DropFirst(@, l)]]
\* The length becomes an int before it is compared with the data that are left.
decodeSlice(it) ==
  LET d == decodeVarint(it)
      l == ToInt(d.val)
      j == IF l > Len(d.it.data) THEN [d.it EXCEPT !.err = "short buffer"] ELSE d.it
  IN IF j.err # "nil" THEN [val |-> <<>>, it |-> j]
     ELSE IF l >= 0 THEN [val |-> SubSeq(j.data, 1, l), it |-> [j EXCEPT !.data = DropFirst(@, l)]]
     ELSE [val |-> <<>>, it |-> [j EXCEPT !.panic = TRUE]]

Decodable(it) == it.err = "nil" /\ ~it.panic

\* One field of the record: decoded when its type has it and no error came first.
WithCF(it) ==
  LET d == decodeVarint(it)
  IN IF HasCF(it.rec.Type) THEN [d.it EXCEPT !.rec.CF = ToInt(d.val)] ELSE it

WithKey(it) ==
  LET d == decodeSlice(it)
  IN IF HasKey(it.rec.Type) /\ Decodable(it) THEN [d.it EXCEPT !.rec.Key = d.val] ELSE it

WithValue(it) ==
  LET d == decodeSlice(it)
  IN IF HasValue(it.rec.Type) /\ Decodable(it) THEN [d.it EXCEPT !.rec.Value = d.val] ELSE it

\* Next's guard: nothing is done after an error or at the end of the data.
Exhausted(it) == it.err # "nil" \/ it.data = <<>>

\* decodeRecType, whose test for empty data Next's guard makes redundant; and one
\* that looks at the type without consuming it.
PeekType(it) == it
AfterType(it) == [it EXCEPT !.data = Tail(@)]

\* Next after its guard; a record is delivered when the error is still nil.
Advance(it) ==
  LET t == Head(it.data)
      start == [AfterType(it) EXCEPT
                          !.rec = [Type |-> t, CF |-> 0, Key |-> <<>>, Value |-> <<>>],
                          !.err = IF Supported(t) THEN "nil" ELSE "unsupported"]
  IN WithValue(WithKey(WithCF(start)))

-----------------------------------------------------------------------------
\* External: RocksDB's encoding of one queued operation.  A column family
\* other than the default one (0) changes the type and adds its id.

\* The least number of digits that v needs.
Digits(v) == CHOOSE n \in 1..MaxVarintLen : v < Power(n) /\ (n > 1 => v >= Power(n-1))

Varint(v) ==
  [i \in 1..Digits(v) |-> ((v \div Power(i-1)) % Base) + (IF i < Digits(v) THEN Base ELSE 0)]

Prefixed(s) == Varint(Len(s)) \o s

\* <<type in the default column family, type in another one>>
KeyTags == [delete |-> <<Deletion, CFDeletion>>, single |-> <<SingleDeletion, CFSingleDeletion>>]
KeyValueTags == [put |-> <<Value, CFValue>>, merge |-> <<Merge, CFMerge>>,
                 range |-> <<RangeDeletion, CFRangeDeletion>>, blob |-> <<BlobIndex, CFBlobIndex>>]
ValueTags == [log |-> LogData, end |-> EndPrepareXID, commit |-> CommitXID, rollback |-> RollbackXID]
BareTags == [begin |-> BeginPrepareXID, persisted |-> BeginPersistedPrepareXID, noop |-> Noop]

\* The operations: a length and a family's id fit an int.
Lengthy == {s \in Seq(Byte) : Len(s) < Word \div 2}
Families == 0..(Word \div 2) - 1

Operations ==
  [op : DOMAIN KeyTags, cf : Families, key : Lengthy, value : {<<>>}]
    \cup [op : DOMAIN KeyValueTags, cf : Families, key : Lengthy, value : Lengthy]
    \cup [op : DOMAIN ValueTags, cf : {0}, key : {<<>>}, value : Lengthy]
    \cup [op : DOMAIN BareTags, cf : {0}, key : {<<>>}, value : {<<>>}]

Family(tags, cf) == IF cf = 0 THEN <<tags[1]>> ELSE <<tags[2]>> \o Varint(cf)

Encode(o) ==
  CASE o.op \in DOMAIN KeyTags ->
         Family(KeyTags[o.op], o.cf) \o Prefixed(o.key)
    [] o.op \in DOMAIN KeyValueTags ->
         Family(KeyValueTags[o.op], o.cf) \o Prefixed(o.key) \o Prefixed(o.value)
    [] o.op \in DOMAIN ValueTags -> <<ValueTags[o.op]>> \o Prefixed(o.value)
    [] OTHER -> <<BareTags[o.op]>>

\* What a reader of the batch expects Record to show for the operation.
Expected(o) ==
  [CF |-> o.cf, Key |-> o.key, Value |-> o.value,
   Type |-> CASE o.op \in DOMAIN KeyTags -> KeyTags[o.op][IF o.cf = 0 THEN 1 ELSE 2]
              [] o.op \in DOMAIN KeyValueTags -> KeyValueTags[o.op][IF o.cf = 0 THEN 1 ELSE 2]
              [] o.op \in DOMAIN ValueTags -> ValueTags[o.op]
              [] OTHER -> BareTags[o.op]]
=============================================================================

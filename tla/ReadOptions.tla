----------------------------- MODULE ReadOptions -----------------------------
(***************************************************************************)
(* options_read.go, and the timestamp setters of extend.go: the bounds and *)
(* timestamps of native read options are Slices over Go arrays.  C does    *)
(* not keep an array alive; a field of the Go object does, as long as the  *)
(* client has the Go object.  The garbage collector runs at any moment,    *)
(* and what it frees is soon another key.                                  *)
(***************************************************************************)
EXTENDS Integers

CONSTANTS
  Buffers,     \* the arrays of the Go heap
  Keys,        \* what an array can hold
  Options,     \* the ReadOptions; a client makes each once
  Slots,       \* iterUpperBound, iterLowerBound, timestamp, timestampStart
  Timestamps,  \* those of the slots that have a setter which takes a uint64
  Zero,        \* the contents of make([]byte, 8)
  Nil          \* a nil pointer or an empty slice

Arrays == Buffers \cup {Nil}

\* What a setter passes to C: an array for a slot, and the timestamp that C is
\* to write into it.
Args == [slot : Slots, array : Arrays, fill : Keys \cup {Nil}]

ASSUME ReadOptionsAssumption ==
  /\ Nil \notin Keys \cup Buffers \cup Args /\ Zero \in Keys
  /\ Timestamps \subseteq Slots

VARIABLES
  heap,     \* heap[b]: the contents of array b, Nil if it is not allocated
  held,     \* the arrays that variables of the client refer to
  known,    \* the ReadOptions the client still has
  c,        \* c[o]: "nil", "live" or "freed": the native options behind o
  slot,     \* slot[o][s]: the array the field s of the Go object keeps
  slice,    \* slice[o][s]: the array the Slice of s in the native options is over
  told,     \* told[o]: the slots whose pointer in rep is not null
  pending,  \* pending[o]: what a running setter passes to C, Nil outside setters
  asked     \* asked[o][s]: the key the client has set last (history)

rovars == <<heap, held, known, c, slot, slice, told, pending, asked>>

ReadOptionsTypeOK ==
  /\ heap \in [Buffers -> Keys \cup {Nil}]
  /\ held \subseteq Buffers
  /\ known \subseteq Options
  /\ c \in [Options -> {"nil", "live", "freed"}]
  /\ slot \in [Options -> [Slots -> Arrays]]
  /\ slice \in [Options -> [Slots -> Arrays]]
  /\ told \in [Options -> SUBSET Slots]
  /\ pending \in [Options -> Args \cup {Nil}]
  /\ asked \in [Options -> [Slots -> Keys \cup {Nil}]]
  /\ \A o \in Options, s \in Slots : slot[o][s] # Nil => c[o] = "live"

ReadOptionsInit ==
  /\ heap = [b \in Buffers |-> Nil]
  /\ held = {}
  /\ known = {}
  /\ c = [o \in Options |-> "nil"]
  /\ slot = [o \in Options |-> [s \in Slots |-> Nil]]
  /\ slice = [o \in Options |-> [s \in Slots |-> Nil]]
  /\ told = [o \in Options |-> {}]
  /\ pending = [o \in Options |-> Nil]
  /\ asked = [o \in Options |-> [s \in Slots |-> Nil]]

Keeps(o, b) == o \in known /\ \E s \in Slots : slot[o][s] = b

\* The client may change the options: it has them, has not destroyed them, and
\* no other goroutine of its is in a setter of them.
Settable(o) == o \in known /\ c[o] = "live" /\ pending[o] = Nil

-----------------------------------------------------------------------------
\* The client's keys, and the garbage collector.

MakeKey(b, k) ==
  /\ heap[b] = Nil
  /\ heap' = [heap EXCEPT ![b] = k]
  /\ held' = held \cup {b}
  /\ UNCHANGED <<known, c, slot, slice, told, pending, asked>>

\* The client writes into a key it has not set, or has not set any more.
Overwrite(b, k) ==
  /\ b \in held
  /\ \A o \in Options : ~ Keeps(o, b)
  /\ heap' = [heap EXCEPT ![b] = k]
  /\ UNCHANGED <<held, known, c, slot, slice, told, pending, asked>>

DropKey(b) ==
  /\ b \in held
  /\ held' = held \ {b}
  /\ UNCHANGED <<heap, known, c, slot, slice, told, pending, asked>>

Garbage(b) == b \notin held /\ \A o \in Options : ~ Keeps(o, b)

Collect(b) ==
  /\ heap[b] # Nil
  /\ Garbage(b)
  /\ heap' = [heap EXCEPT ![b] = Nil]
  /\ UNCHANGED <<held, known, c, slot, slice, told, pending, asked>>

-----------------------------------------------------------------------------
\* ReadOptions.

NewDefaultReadOptions(o) ==
  /\ c[o] = "nil" /\ o \notin known
  /\ c' = [c EXCEPT ![o] = "live"]
  /\ known' = known \cup {o}
  /\ UNCHANGED <<heap, held, slot, slice, told, pending, asked>>

\* The field the setter of s assigns: its own; all of them the same one.
KeepInOne(o, s, b) == [slot[o] EXCEPT ![CHOOSE t \in Slots : TRUE] = b]
Keep(o, s, b) == [slot[o] EXCEPT ![s] = b]

\* SetIterateUpperBound(key) and its like, up to the C call.  The caller's
\* variable holds the array, unless the key is empty.
SetSlice(o, s, b) ==
  /\ Settable(o)
  /\ b \in held \cup {Nil}
  /\ slot' = [slot EXCEPT ![o] = Keep(o, s, b)]
  /\ pending' = [pending EXCEPT ![o] = [slot |-> s, array |-> b, fill |-> Nil]]
  /\ asked' = [asked EXCEPT ![o][s] = IF b = Nil THEN Nil ELSE heap[b]]
  /\ UNCHANGED <<heap, held, known, c, slice, told>>

\* SetTimestampUint64(ts) and SetIterStartTimestampUint64(ts): the array is
\* made in the setter and C will write the timestamp into it.
SetUint64(o, s, b, ts) ==
  /\ Settable(o)
  /\ s \in Timestamps
  /\ heap[b] = Nil
  /\ heap' = [heap EXCEPT ![b] = Zero]
  /\ slot' = [slot EXCEPT ![o] = Keep(o, s, b)]
  /\ pending' = [pending EXCEPT ![o] = [slot |-> s, array |-> b, fill |-> ts]]
  /\ asked' = [asked EXCEPT ![o][s] = ts]
  /\ UNCHANGED <<held, known, c, slice, told>>

\* rocksdb_readoptions_set_iterate_upper_bound, ..., _set_timestamp_uint64: the
\* Slice in rocksdb_readoptions_t, and the pointer to that Slice in rep, which
\* is what RocksDB is given; an empty key makes the Slice empty and the pointer
\* null.
SetNative(o) ==
  /\ pending[o] # Nil
  /\ LET p == pending[o]
     IN  /\ slice' = [slice EXCEPT ![o][p.slot] = p.array]
         /\ told' = [told EXCEPT ![o] = IF p.array = Nil THEN @ \ {p.slot} ELSE @ \cup {p.slot}]
         /\ heap' = IF p.fill = Nil THEN heap ELSE [heap EXCEPT ![p.array] = p.fill]
  /\ pending' = [pending EXCEPT ![o] = Nil]
  /\ UNCHANGED <<held, known, c, slot, asked>>

\* A Destroy that leaves the fields of the Go object alone.
KeptFields(o) == slot[o]
ClearedFields(o) == [s \in Slots |-> Nil]

Destroy(o) ==
  /\ Settable(o)
  /\ c' = [c EXCEPT ![o] = "freed"]
  /\ slot' = [slot EXCEPT ![o] = ClearedFields(o)]
  /\ UNCHANGED <<heap, held, known, slice, told, pending, asked>>

\* The client lets go of the Go object: its arrays go with it.  The native
\* options stay if they were not destroyed, there is no finalizer.
Forget(o) ==
  /\ o \in known /\ pending[o] = Nil
  /\ known' = known \ {o}
  /\ UNCHANGED <<heap, held, c, slot, slice, told, pending, asked>>

ClientStep ==
  \/ \E b \in Buffers : DropKey(b) \/ \E k \in Keys : MakeKey(b, k) \/ Overwrite(b, k)
  \/ \E o \in Options :
       \/ NewDefaultReadOptions(o)
       \/ \E s \in Slots, b \in Arrays : SetSlice(o, s, b)
       \/ \E s \in Slots, b \in Buffers, ts \in Keys : SetUint64(o, s, b, ts)
       \/ SetNative(o)

GarbageCollector == \E b \in Buffers : Collect(b)

-----------------------------------------------------------------------------
\* What C finds in a Slice; Nil in an empty one.
Bytes(p) == IF p = Nil THEN Nil ELSE heap[p]

\* In the Slice of s RocksDB finds the key that was set there last, or an empty
\* Slice if none is set any more.
FindsAsked(o, s) ==
  (slice[o][s] = Nil <=> asked[o][s] = Nil) /\ Bytes(slice[o][s]) = asked[o][s]
=============================================================================

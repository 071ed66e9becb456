--------------------------- MODULE IteratorsProofs ---------------------------
(***************************************************************************)
(* For any number of arrays, ReadOptions, slots and iterators: an iterator *)
(* that can be moved finds the keys its client set last, and a native      *)
(* iterator has one owner.  The argument: the fields of the Go object keep *)
(* what the native options point to; an array C is about to write is known *)
(* to nobody else; and what is kept is not collected and not overwritten.  *)
(***************************************************************************)
EXTENDS Iterators, TLAPS

\* What a variable or a field of a known Go object refers to is allocated.
Allocated ==
  /\ \A b \in held : heap[b] # Nil
  /\ \A o \in known, s \in Slots : slot[o][s] # Nil => heap[slot[o][s]] # Nil

\* A setter runs on options that are live and known; options that were not
\* made yet have nothing set.
Lifecycle ==
  \A o \in Options :
    /\ pending[o] # Nil => o \in known /\ c[o] = "live"
    /\ c[o] = "nil" => \A s \in Slots : /\ slot[o][s] = Nil
                                        /\ slice[o][s] = Nil /\ s \notin told[o]
                                        /\ asked[o][s] = Nil

Setting(o, s) == pending[o] # Nil /\ pending[o].slot = s

\* The field keeps the key that was set last.
Settled(o, s) ==
  (slot[o][s] = Nil <=> asked[o][s] = Nil) /\ Bytes(slot[o][s]) = asked[o][s]

\* Only this field refers to its array.
Private(o, s) ==
  /\ slot[o][s] \notin held
  /\ \A p \in known, t \in Slots : slot[p][t] = slot[o][s] => p = o /\ t = s

\* The Slices of the native options are over what the fields keep, and RocksDB is
\* pointed to those that are not empty, but for the slot that a setter is about
\* to pass to C.
KeptIsRead(o, s) ==
  /\ ~ Setting(o, s) => /\ slice[o][s] = slot[o][s] /\ Settled(o, s)
                        /\ s \in told[o] <=> slot[o][s] # Nil
  /\ Setting(o, s) =>
       /\ slot[o][s] = pending[o].array
       /\ pending[o].fill = Nil => Settled(o, s)
       /\ pending[o].fill # Nil =>
            slot[o][s] \in Buffers /\ asked[o][s] = pending[o].fill /\ Private(o, s)

\* The client keeps the Go object of every iterator that it can move; an
\* iterator that was not made yet has none.
ReadersKnown ==
  \A i \in Iters :
    /\ native[i] = "none" => via[i] = Nil
    /\ native[i] = "live" /\ via[i] # Nil => (c[via[i]] = "live" => via[i] \in known)

\* A native iterator copied the pointers for what was set then.
CopiedAsSet == \A i \in Iters : copied[i] = bounded[i]

ROInv ==
  /\ ReadOptionsTypeOK
  /\ Allocated
  /\ Lifecycle
  /\ \A o \in known : c[o] = "live" => \A s \in Slots : KeptIsRead(o, s)

\* Who owns which native iterator.
Ownership ==
  /\ \A i \in Iters : native[i] = "none" => ~ iter[i] /\ i \notin given /\ base[i] = Nil
  /\ \A i \in Iters : native[i] # "twice"
  /\ \A i \in Iters : Usable(i) => native[i] = "live"
  /\ \A i \in Iters : native[i] = "live" /\ i \notin given => iter[i]
  /\ \A i \in given : \E j \in Iters : base[j] = i
  /\ \A i \in Iters : base[i] # Nil => /\ base[i] \in given /\ base[base[i]] = Nil
                                       /\ i \notin given
                                       /\ native[i] = "live" <=> native[base[i]] = "live"
  /\ \A i, j \in Iters : base[i] = base[j] /\ base[i] # Nil => i = j

IInv == TypeOK /\ ROInv /\ ReadersKnown /\ CopiedAsSet /\ Ownership

-----------------------------------------------------------------------------

\* Nothing has been made.
LEMMA InitIInv == Init => IInv
<1> SUFFICES ASSUME Init PROVE IInv
  OBVIOUS
<1>1. TypeOK /\ ReadersKnown /\ CopiedAsSet /\ Ownership
  BY DEF Init, ReadOptionsInit, TypeOK, ReadOptionsTypeOK, ReadersKnown, CopiedAsSet,
     Ownership, Arrays, Usable
<1>2. ROInv
  BY <1>1 DEF Init, ReadOptionsInit, TypeOK, ROInv, Allocated, Lifecycle
<1>3. QED
  BY <1>1, <1>2 DEF IInv

-----------------------------------------------------------------------------
\* The steps on the Go heap.

\* An array that no field keeps may be made, written or collected: no kept key
\* changes.
LEMMA HeapStep ==
  ASSUME ROInv, NEW b \in Buffers, \A o \in Options : ~ Keeps(o, b),
         \A x \in Buffers : x # b => heap'[x] = heap[x],
         heap' \in [Buffers -> Keys \cup {Nil}],
         held' \subseteq held \cup {b}, \A x \in held' : heap'[x] # Nil,
         UNCHANGED <<known, c, slot, slice, told, pending, asked>>
  PROVE  ROInv'
<1> USE DEF ROInv
<1>1. \A o \in known, s \in Slots : slot[o][s] \in Arrays /\ slot[o][s] # b
  BY DEF Keeps, ReadOptionsTypeOK
<1>2. \A o \in known, s \in Slots : slot[o][s] # Nil => heap'[slot[o][s]] = heap[slot[o][s]]
  BY <1>1 DEF Arrays
<1>3. ReadOptionsTypeOK'
  BY DEF ReadOptionsTypeOK
<1>4. Allocated'
  BY <1>2 DEF Allocated
<1>5. Lifecycle'
  BY DEF Lifecycle
<1>6. ASSUME NEW o \in known, c[o] = "live", NEW s \in Slots PROVE KeptIsRead(o, s)'
  <2>1. Settled(o, s) => Settled(o, s)'
    BY <1>2 DEF Settled, Bytes
  <2>2. Private(o, s) => Private(o, s)'
    BY <1>1 DEF Private
  <2>3. KeptIsRead(o, s)
    BY <1>6
  <2>4. QED
    BY <2>1, <2>2, <2>3 DEF KeptIsRead, Setting
<1>7. QED
  BY <1>3, <1>4, <1>5, <1>6

LEMMA MakeKeyStep ==
  ASSUME ROInv, NEW b \in Buffers, NEW k \in Keys, MakeKey(b, k) PROVE ROInv'
<1>1. \A o \in Options : ~ Keeps(o, b)
  BY ReadOptionsAssumption DEF ROInv, MakeKey, Allocated, Keeps
<1>2. heap' = [heap EXCEPT ![b] = k] /\ held' = held \cup {b} /\ k # Nil
      /\ UNCHANGED <<known, c, slot, slice, told, pending, asked>>
  BY ReadOptionsAssumption DEF MakeKey
<1>3. /\ \A x \in Buffers : x # b => heap'[x] = heap[x]
      /\ heap' \in [Buffers -> Keys \cup {Nil}]
      /\ \A x \in held' : heap'[x] # Nil
  BY <1>2 DEF ROInv, ReadOptionsTypeOK, Allocated
<1>4. QED
  BY <1>1, <1>2, <1>3, HeapStep

LEMMA OverwriteStep ==
  ASSUME ROInv, NEW b \in Buffers, NEW k \in Keys, Overwrite(b, k) PROVE ROInv'
<1>1. heap' = [heap EXCEPT ![b] = k] /\ held' = held /\ k # Nil
      /\ UNCHANGED <<known, c, slot, slice, told, pending, asked>>
      /\ \A o \in Options : ~ Keeps(o, b)
  BY ReadOptionsAssumption DEF Overwrite
<1>2. /\ \A x \in Buffers : x # b => heap'[x] = heap[x]
      /\ heap' \in [Buffers -> Keys \cup {Nil}]
      /\ \A x \in held' : heap'[x] # Nil
  BY <1>1 DEF ROInv, ReadOptionsTypeOK, Allocated
<1>3. QED
  BY <1>1, <1>2, HeapStep

LEMMA CollectStep == ASSUME ROInv, NEW b \in Buffers, Collect(b) PROVE ROInv'
<1>1. heap' = [heap EXCEPT ![b] = Nil] /\ held' = held /\ b \notin held
      /\ UNCHANGED <<known, c, slot, slice, told, pending, asked>>
      /\ \A o \in Options : ~ Keeps(o, b)
  BY DEF Collect, Garbage
<1>2. /\ \A x \in Buffers : x # b => heap'[x] = heap[x]
      /\ heap' \in [Buffers -> Keys \cup {Nil}]
      /\ \A x \in held' : heap'[x] # Nil
  BY <1>1 DEF ROInv, ReadOptionsTypeOK, Allocated
<1>3. QED
  BY <1>1, <1>2, HeapStep

LEMMA DropKeyStep == ASSUME ROInv, NEW b \in Buffers, DropKey(b) PROVE ROInv'
<1> USE DEF ROInv
<1>1. held' = held \ {b} /\ UNCHANGED <<heap, known, c, slot, slice, told, pending, asked>>
  BY DEF DropKey
<1>2. ReadOptionsTypeOK' /\ Allocated' /\ Lifecycle'
  BY <1>1 DEF ReadOptionsTypeOK, Allocated, Lifecycle
<1>3. \A o \in known, s \in Slots : KeptIsRead(o, s) => KeptIsRead(o, s)'
  BY <1>1 DEF KeptIsRead, Setting, Settled, Bytes, Private
<1>4. QED
  BY <1>1, <1>2, <1>3

-----------------------------------------------------------------------------
\* The steps of ReadOptions.

\* New options have nothing set and nothing kept.
LEMMA NewOptionsStep ==
  ASSUME ROInv, NEW o \in Options, NewDefaultReadOptions(o) PROVE ROInv'
<1> USE DEF ROInv
<1>1. /\ c[o] = "nil" /\ o \notin known
      /\ c' = [c EXCEPT ![o] = "live"] /\ known' = known \cup {o}
      /\ UNCHANGED <<heap, held, slot, slice, told, pending, asked>>
  BY DEF NewDefaultReadOptions
<1>2. pending[o] = Nil
      /\ \A s \in Slots : 
           slot[o][s] = Nil /\ slice[o][s] = Nil /\ s \notin told[o] /\ asked[o][s] = Nil
  BY <1>1 DEF Lifecycle
<1>3. ReadOptionsTypeOK' /\ Allocated' /\ Lifecycle'
  BY <1>1, <1>2 DEF ReadOptionsTypeOK, Allocated, Lifecycle
<1>4. ASSUME NEW p \in known', c'[p] = "live", NEW s \in Slots PROVE KeptIsRead(p, s)'
  <2>1. CASE p = o
    BY <1>1, <1>2, <2>1 DEF KeptIsRead, Setting, Settled, Bytes
  <2>2. CASE p # o
    <3>1. c[p] = "live" /\ KeptIsRead(p, s)
      BY <1>1, <1>4, <2>2 DEF ReadOptionsTypeOK
    <3>2. Private(p, s) /\ slot[p][s] # Nil => Private(p, s)'
      BY <1>1, <1>2 DEF Private
    <3>3. slot[p][s] \in Buffers => slot[p][s] # Nil
      BY ReadOptionsAssumption
    <3>4. QED
      BY <1>1, <3>1, <3>2, <3>3 DEF KeptIsRead, Setting, Settled, Bytes
  <2>3. QED
    BY <2>1, <2>2
<1>5. QED
  BY <1>3, <1>4

\* The first half of a setter: array b goes to slot s of o, and is either one
\* the client holds or a new one.
LEMMA SetterStep ==
  ASSUME ROInv, NEW o \in Options, NEW s \in Slots, NEW b \in Arrays,
         NEW f \in Keys \cup {Nil}, NEW k \in Keys \cup {Nil}, Settable(o),
         slot' = [slot EXCEPT ![o] = [slot[o] EXCEPT ![s] = b]],
         pending' = [pending EXCEPT ![o] = [slot |-> s, array |-> b, fill |-> f]],
         asked' = [asked EXCEPT ![o][s] = k],
         heap' \in [Buffers -> Keys \cup {Nil}],
         \A x \in Buffers : heap[x] # Nil => heap'[x] = heap[x],
         b # Nil => heap'[b] # Nil,
         f = Nil => b \in held \cup {Nil} /\ k = Bytes(b),
         f # Nil => b # Nil /\ heap[b] = Nil /\ k = f,
         UNCHANGED <<held, known, c, slice, told>>
  PROVE  ROInv'
<1> USE DEF ROInv
<1>1. o \in known /\ c[o] = "live" /\ pending[o] = Nil
  BY DEF Settable
<1>2. /\ pending' \in [Options -> Args \cup {Nil}] /\ pending'[o].slot = s
      /\ pending'[o].array = b /\ pending'[o].fill = f /\ pending'[o] # Nil
      /\ \A p \in Options : p # o => pending'[p] = pending[p]
  <2>1. [slot |-> s, array |-> b, fill |-> f] \in Args
    BY DEF Args
  <2>2. [slot |-> s, array |-> b, fill |-> f] # Nil
    BY <2>1, ReadOptionsAssumption
  <2>3. QED
    BY <2>1, <2>2 DEF ReadOptionsTypeOK
<1>3. /\ slot' \in [Options -> [Slots -> Arrays]] /\ slot'[o][s] = b
      /\ \A p \in Options, t \in Slots : p # o \/ t # s => slot'[p][t] = slot[p][t]
  BY DEF ReadOptionsTypeOK
<1>4. /\ asked' \in [Options -> [Slots -> Keys \cup {Nil}]] /\ asked'[o][s] = k
      /\ \A p \in Options, t \in Slots : p # o \/ t # s => asked'[p][t] = asked[p][t]
  BY DEF ReadOptionsTypeOK
<1>5. ReadOptionsTypeOK'
  BY <1>1, <1>2, <1>3, <1>4 DEF ReadOptionsTypeOK
<1>6. Allocated'
  BY <1>3 DEF Allocated, ReadOptionsTypeOK, Arrays
<1>7. Lifecycle'
  BY <1>1, <1>2, <1>3, <1>4 DEF Lifecycle
<1>8. ASSUME NEW p \in known, NEW t \in Slots, slot[p][t] # Nil
      PROVE  slot[p][t] \in Buffers /\ heap[slot[p][t]] # Nil /\ heap'[slot[p][t]] = heap[slot[p][t]]
  BY <1>8 DEF Allocated, ReadOptionsTypeOK, Arrays
<1>9. ASSUME NEW p \in known', c'[p] = "live", NEW t \in Slots PROVE KeptIsRead(p, t)'
  <2>1. CASE p = o /\ t = s
    <3>1. CASE f = Nil
      <4>1. k = Nil <=> b = Nil
        BY <3>1 DEF Bytes, Allocated
      <4>2. Bytes(b)' = k
        BY <3>1, <4>1 DEF Bytes, Arrays
      <4>3. QED
        BY <2>1, <3>1, <4>1, <4>2, <1>2, <1>3, <1>4 DEF KeptIsRead, Setting, Settled
    <3>2. CASE f # Nil
      <4>1. b \in Buffers /\ b \notin held
        BY <3>2 DEF Arrays, Allocated
      <4>2. \A q \in known, u \in Slots : slot[q][u] # b
        BY <3>2, <4>1, <1>8
      <4>3. Private(o, s)'
        BY <4>1, <4>2, <1>3 DEF Private, ReadOptionsTypeOK
      <4>4. QED
        BY <2>1, <3>2, <4>1, <4>3, <1>2, <1>3, <1>4 DEF KeptIsRead, Setting
    <3>3. QED
      BY <3>1, <3>2
  <2>2. CASE p # o \/ t # s
    <3>1. KeptIsRead(p, t) /\ (p = o => ~ Setting(p, t))
      BY <1>1, <1>9 DEF Setting
    <3>2. Setting(p, t)' <=> Setting(p, t)
      BY <1>1, <1>2, <2>2, <3>1 DEF Setting, ReadOptionsTypeOK
    <3>3. Settled(p, t) => Settled(p, t)'
      BY <2>2, <1>3, <1>4, <1>8 DEF Settled, Bytes, ReadOptionsTypeOK
    <3>4. Setting(p, t) /\ slot[p][t] \in Buffers /\ Private(p, t) => Private(p, t)'
      <4>1. SUFFICES ASSUME Setting(p, t), slot[p][t] \in Buffers, Private(p, t)
                     PROVE  Private(p, t)'
        OBVIOUS
      <4>2. slot[p][t] # Nil /\ heap[slot[p][t]] # Nil /\ slot[p][t] \notin held
        BY <1>8, <4>1, ReadOptionsAssumption DEF Private
      <4>3. b # slot[p][t]
        BY <4>2
      <4>4. QED
        BY <4>1, <4>3, <1>3, <2>2 DEF Private, ReadOptionsTypeOK
    <3>5. p # o => pending'[p] = pending[p]
      BY <1>2, <1>9 DEF ReadOptionsTypeOK
    <3>6. p \in Options /\ slot'[p][t] = slot[p][t] /\ asked'[p][t] = asked[p][t]
      BY <1>3, <1>4, <1>9, <2>2 DEF ReadOptionsTypeOK
    <3>7. QED
      BY <3>1, <3>2, <3>3, <3>4, <3>5, <3>6 DEF KeptIsRead
  <2>3. QED
    BY <2>1, <2>2
<1>10. QED
  BY <1>5, <1>6, <1>7, <1>9

LEMMA SetSliceStep ==
  ASSUME ROInv, NEW o \in Options, NEW s \in Slots, NEW b \in Arrays, SetSlice(o, s, b)
  PROVE  ROInv'
<1> DEFINE k == Bytes(b)
<1>1. k \in Keys \cup {Nil}
  BY DEF Bytes, ROInv, ReadOptionsTypeOK, Arrays
<1>2. /\ Settable(o) /\ b \in held \cup {Nil}
      /\ slot' = [slot EXCEPT ![o] = [slot[o] EXCEPT ![s] = b]]
      /\ pending' = [pending EXCEPT ![o] = [slot |-> s, array |-> b, fill |-> Nil]]
      /\ asked' = [asked EXCEPT ![o][s] = k]
      /\ UNCHANGED <<heap, held, known, c, slice, told>>
  BY DEF SetSlice, Keep, Bytes
<1>3. heap' \in [Buffers -> Keys \cup {Nil}] /\ (b # Nil => heap'[b] # Nil)
  BY <1>2 DEF ROInv, ReadOptionsTypeOK, Allocated
<1> HIDE DEF k
<1>4. k = Bytes(b)
  BY DEF k
<1>5. QED
  BY <1>1, <1>2, <1>3, <1>4, SetterStep

LEMMA SetUint64Step ==
  ASSUME ROInv, NEW o \in Options, NEW s \in Slots, NEW b \in Buffers, NEW ts \in Keys,
         SetUint64(o, s, b, ts)
  PROVE  ROInv'
<1>1. /\ Settable(o) /\ heap[b] = Nil
      /\ heap' = [heap EXCEPT ![b] = Zero]
      /\ slot' = [slot EXCEPT ![o] = [slot[o] EXCEPT ![s] = b]]
      /\ pending' = [pending EXCEPT ![o] = [slot |-> s, array |-> b, fill |-> ts]]
      /\ asked' = [asked EXCEPT ![o][s] = ts]
      /\ UNCHANGED <<held, known, c, slice, told>>
  BY DEF SetUint64, Keep
<1>2. ts # Nil /\ b # Nil /\ Zero \in Keys /\ Zero # Nil /\ b \in Arrays
  BY ReadOptionsAssumption DEF Arrays
<1>3. /\ heap' \in [Buffers -> Keys \cup {Nil}] /\ heap'[b] # Nil
      /\ \A x \in Buffers : heap[x] # Nil => heap'[x] = heap[x]
  BY <1>1, <1>2 DEF ROInv, ReadOptionsTypeOK
<1>4. QED
  BY <1>1, <1>2, <1>3, SetterStep

\* The second half: C takes the pointer that the field keeps, and writes only
\* into an array nobody else refers to.
LEMMA SetNativeStep == ASSUME ROInv, NEW o \in Options, SetNative(o) PROVE ROInv'
<1> USE DEF ROInv
<1>0. PICK s \in Slots, b \in Arrays, f \in Keys \cup {Nil} :
        pending[o].slot = s /\ pending[o].array = b /\ pending[o].fill = f
  BY DEF SetNative, ReadOptionsTypeOK, Args
<1>1. pending[o] # Nil /\ o \in known /\ c[o] = "live" /\ Setting(o, s)
  BY <1>0 DEF SetNative, ReadOptionsTypeOK, Lifecycle, Setting
<1>2. KeptIsRead(o, s) /\ slot[o][s] = b
  BY <1>0, <1>1 DEF KeptIsRead
<1>3. /\ slice' = [slice EXCEPT ![o][s] = b]
      /\ told' = [told EXCEPT ![o] = IF b = Nil THEN told[o] \ {s} ELSE told[o] \cup {s}]
      /\ heap' = IF f = Nil THEN heap ELSE [heap EXCEPT ![b] = f]
      /\ pending' = [pending EXCEPT ![o] = Nil]
      /\ UNCHANGED <<held, known, c, slot, asked>>
  BY <1>0 DEF SetNative
<1>4. f # Nil => b \in Buffers /\ b # Nil /\ asked[o][s] = f /\ Private(o, s)
  BY <1>0, <1>1, <1>2, ReadOptionsAssumption DEF KeptIsRead
<1>5. /\ heap' \in [Buffers -> Keys \cup {Nil}]
      /\ \A x \in Buffers : heap[x] # Nil => heap'[x] # Nil
  BY <1>1, <1>3, <1>4 DEF ReadOptionsTypeOK
<1>6. ReadOptionsTypeOK'
  BY <1>1, <1>3, <1>5 DEF ReadOptionsTypeOK
<1>7. Allocated' /\ Lifecycle'
  BY <1>1, <1>3, <1>5 DEF Allocated, Lifecycle, ReadOptionsTypeOK, Arrays
<1>8. ASSUME NEW p \in known', c'[p] = "live", NEW t \in Slots PROVE KeptIsRead(p, t)'
  <2>1. CASE p = o /\ t = s
    <3>1. f = Nil => Settled(o, s)
      BY <1>0, <1>1, <1>2 DEF KeptIsRead
    <3>2. Bytes(b)' = asked[o][s] /\ (b = Nil <=> asked[o][s] = Nil)
      <4>1. CASE f = Nil
        BY <3>1, <4>1, <1>2, <1>3 DEF Settled, Bytes
      <4>2. CASE f # Nil
        BY <4>2, <1>3, <1>4 DEF Bytes, ReadOptionsTypeOK
      <4>3. QED
        BY <4>1, <4>2
    <3>3. ~ Setting(o, s)' /\ slice'[o][s] = b /\ (s \in told'[o] <=> b # Nil)
      BY <1>1, <1>3 DEF Setting, ReadOptionsTypeOK
    <3>4. QED
      BY <2>1, <3>2, <3>3, <1>2, <1>3 DEF KeptIsRead, Settled
  <2>2. CASE p # o \/ t # s
    <3>1. KeptIsRead(p, t) /\ p \in Options /\ slot[p][t] \in Arrays
      BY <1>3, <1>8 DEF ReadOptionsTypeOK
    <3>2. f # Nil => slot[p][t] # b
      BY <2>2, <1>2, <1>3, <1>4, <1>8 DEF Private
    <3>3. slot[p][t] # Nil => heap'[slot[p][t]] = heap[slot[p][t]]
      BY <1>3, <1>4, <3>1, <3>2 DEF Arrays, ReadOptionsTypeOK
    <3>4. Settled(p, t) => Settled(p, t)'
      BY <1>3, <3>3 DEF Settled, Bytes
    <3>5. Private(p, t) => Private(p, t)'
      BY <1>3 DEF Private
    <3>6. slice'[p][t] = slice[p][t] /\ (t \in told'[p] <=> t \in told[p])
      BY <1>1, <1>3, <2>2, <3>1 DEF ReadOptionsTypeOK
    <3>7. CASE p = o
      <4>1. ~ Setting(o, t) /\ ~ Setting(o, t)'
        BY <1>0, <1>1, <1>3, <2>2, <3>7 DEF Setting, ReadOptionsTypeOK
      <4>2. QED
        BY <1>3, <3>1, <3>4, <3>6, <3>7, <4>1 DEF KeptIsRead
    <3>8. CASE p # o
      <4>1. pending'[p] = pending[p]
        BY <1>1, <1>3, <3>1, <3>8 DEF ReadOptionsTypeOK
      <4>2. QED
        BY <1>3, <3>1, <3>4, <3>5, <3>6, <4>1 DEF KeptIsRead, Setting
    <3>9. QED
      BY <3>7, <3>8
  <2>3. QED
    BY <2>1, <2>2
<1>9. QED
  BY <1>6, <1>7, <1>8

\* Options that are destroyed or forgotten keep nothing; the others do not
\* change.
LEMMA EndStep == ASSUME ROInv, NEW o \in Options, Destroy(o) \/ Forget(o) PROVE ROInv'
<1> USE DEF ROInv
<1>1. UNCHANGED <<heap, held, slice, told, pending, asked>> /\ known' \subseteq known
      /\ pending[o] = Nil /\ o \in known
  BY DEF Destroy, Forget, Settable
<1>2. /\ c' \in [Options -> {"nil", "live", "freed"}]
      /\ slot' \in [Options -> [Slots -> Arrays]]
      /\ known' \subseteq Options
      /\ \A p \in Options : p # o => c'[p] = c[p] /\ slot'[p] = slot[p]
      /\ \A p \in Options : p # o => (p \in known' <=> p \in known)
      /\ o \in known' => c'[o] # "live"
      /\ \A s \in Slots : slot'[o][s] \in {slot[o][s], Nil}
      /\ c'[o] # "live" => \A s \in Slots : slot'[o][s] = Nil
      /\ c'[o] = "nil" => c[o] = "nil"
  <2>1. CASE Destroy(o)
    <3>1. c' = [c EXCEPT ![o] = "freed"] /\ known' = known
          /\ slot' = [slot EXCEPT ![o] = [s \in Slots |-> Nil]]
      BY <2>1 DEF Destroy, ClearedFields
    <3>2. [s \in Slots |-> Nil] \in [Slots -> Arrays]
      BY DEF Arrays
    <3>3. QED
      BY <3>1, <3>2 DEF ReadOptionsTypeOK
  <2>2. CASE Forget(o)
    BY <2>2 DEF Forget, ReadOptionsTypeOK
  <2>3. QED
    BY <2>1, <2>2
<1>3. ReadOptionsTypeOK'
  <2>1. ASSUME NEW p \in Options, NEW s \in Slots, slot'[p][s] # Nil PROVE c'[p] = "live"
    <3>1. CASE p = o
      BY <1>2, <2>1, <3>1
    <3>2. CASE p # o
      BY <1>2, <2>1, <3>2 DEF ReadOptionsTypeOK
    <3>3. QED
      BY <3>1, <3>2
  <2>2. /\ heap' \in [Buffers -> Keys \cup {Nil}] /\ held' \subseteq Buffers
        /\ known' \subseteq Options
        /\ c' \in [Options -> {"nil", "live", "freed"}]
        /\ slot' \in [Options -> [Slots -> Arrays]]
        /\ slice' \in [Options -> [Slots -> Arrays]]
        /\ told' \in [Options -> SUBSET Slots]
        /\ pending' \in [Options -> Args \cup {Nil}]
        /\ asked' \in [Options -> [Slots -> Keys \cup {Nil}]]
    BY <1>1, <1>2 DEF ReadOptionsTypeOK
  <2>3. QED
    BY <2>1, <2>2 DEF ReadOptionsTypeOK
<1>4. Allocated'
  <2>1. ASSUME NEW p \in known', NEW s \in Slots, slot'[p][s] # Nil
        PROVE  p \in known /\ slot'[p][s] = slot[p][s]
    <3>1. CASE p = o
      BY <1>1, <1>2, <2>1, <3>1
    <3>2. CASE p # o
      BY <1>1, <1>2, <3>2 DEF ReadOptionsTypeOK
    <3>3. QED
      BY <3>1, <3>2
  <2>2. QED
    BY <1>1, <2>1 DEF Allocated
<1>5. Lifecycle'
  BY <1>1, <1>2 DEF Lifecycle
<1>6. ASSUME NEW p \in known', c'[p] = "live", NEW s \in Slots PROVE KeptIsRead(p, s)'
  <2>1. p # o /\ p \in Options /\ p \in known /\ c[p] = "live"
    BY <1>1, <1>2, <1>6 DEF ReadOptionsTypeOK
  <2>2. KeptIsRead(p, s) /\ slot'[p] = slot[p]
    BY <1>2, <2>1
  <2>3. slot[p][s] # Nil /\ Private(p, s) => Private(p, s)'
    <3>1. ASSUME NEW q \in known', NEW u \in Slots, slot'[q][u] # Nil
          PROVE  q \in known /\ slot'[q][u] = slot[q][u]
      BY <1>1, <1>2, <3>1
    <3>2. QED
      BY <1>1, <2>2, <3>1 DEF Private
  <2>4. slot[p][s] \in Buffers => slot[p][s] # Nil
    BY ReadOptionsAssumption
  <2>5. QED
    BY <1>1, <2>2, <2>3, <2>4 DEF KeptIsRead, Setting, Settled, Bytes
<1>7. QED
  BY <1>3, <1>4, <1>5, <1>6

-----------------------------------------------------------------------------
\* The steps of the whole.

\* Steps of an iterator leave the options alone.
LEMMA OptionsUnchanged == ASSUME ROInv, UNCHANGED rovars PROVE ROInv'
  BY DEF ROInv, ReadOptionsTypeOK, Allocated, Lifecycle, KeptIsRead, Setting, Settled,
     Private, Bytes, rovars

\* A setter, a new ReadOptions and the client's keys do not touch an iterator
\* and take no options away from it.
LEMMA ClientStepKeeps ==
  ASSUME ROInv, ClientStep \/ GarbageCollector
  PROVE  /\ ROInv' /\ known \subseteq known'
         /\ \A o \in Options : c'[o] = "live" => c[o] = "live" \/ o \in known'
<1>1. CASE GarbageCollector
  <2>1. PICK b \in Buffers : Collect(b)
    BY <1>1 DEF GarbageCollector
  <2>2. QED
    BY <2>1, CollectStep DEF Collect
<1>2. CASE \E b \in Buffers : DropKey(b) \/ \E k \in Keys : MakeKey(b, k) \/ Overwrite(b, k)
  <2>1. PICK b \in Buffers : DropKey(b) \/ \E k \in Keys : MakeKey(b, k) \/ Overwrite(b, k)
    BY <1>2
  <2>2. CASE DropKey(b)
    BY <2>2, DropKeyStep DEF DropKey
  <2>3. ASSUME NEW k \in Keys, MakeKey(b, k)
        PROVE  ROInv' /\ known' = known /\ c' = c
    BY <2>3, MakeKeyStep DEF MakeKey
  <2>4. ASSUME NEW k \in Keys, Overwrite(b, k)
        PROVE  ROInv' /\ known' = known /\ c' = c
    BY <2>4, OverwriteStep DEF Overwrite
  <2>5. QED
    BY <2>1, <2>2, <2>3, <2>4
<1>3. ASSUME NEW o \in Options, NewDefaultReadOptions(o)
      PROVE  ROInv' /\ known' = known \cup {o} /\ \A p \in Options : p # o => c'[p] = c[p]
  <2>1. ROInv'
    BY <1>3, NewOptionsStep
  <2>2. QED
    BY <1>3, <2>1 DEF NewDefaultReadOptions, ROInv, ReadOptionsTypeOK
<1>4. ASSUME NEW o \in Options,
             \/ \E s \in Slots, b \in Arrays : SetSlice(o, s, b)
             \/ \E s \in Slots, b \in Buffers, ts \in Keys : SetUint64(o, s, b, ts)
             \/ SetNative(o)
      PROVE  ROInv' /\ known' = known /\ c' = c
  BY <1>4, SetSliceStep, SetUint64Step, SetNativeStep DEF SetSlice, SetUint64, SetNative
<1>5. QED
  BY <1>1, <1>2, <1>3, <1>4 DEF ClientStep

LEMMA ROInvStep == ASSUME ROInv, Next \/ UNCHANGED vars PROVE ROInv'
<1>1. CASE (ClientStep \/ GarbageCollector) /\ UNCHANGED itvars
  BY <1>1, ClientStepKeeps
<1>2. ASSUME NEW o \in Options, DestroyReadOptions(o) \/ ForgetReadOptions(o) PROVE ROInv'
  BY <1>2, EndStep DEF DestroyReadOptions, ForgetReadOptions
<1>3. CASE UNCHANGED rovars
  BY <1>3, OptionsUnchanged
<1>4. QED
  BY <1>1, <1>2, <1>3 DEF Next, vars, Close, NewIterator, NewIteratorWithBase

\* The client keeps the Go object while an iterator can be moved.
LEMMA ReadersKnownStep ==
  ASSUME TypeOK, ROInv, ReadersKnown, Next \/ UNCHANGED vars PROVE ReadersKnown'
<1>1. CASE (ClientStep \/ GarbageCollector) /\ UNCHANGED itvars
  BY <1>1, ClientStepKeeps DEF ReadersKnown, itvars, TypeOK
<1>2. ASSUME NEW o \in Options, DestroyReadOptions(o) PROVE ReadersKnown'
  BY <1>2 DEF DestroyReadOptions, Destroy, ReadersKnown, itvars, TypeOK, ReadOptionsTypeOK
<1>3. ASSUME NEW o \in Options, ForgetReadOptions(o) PROVE ReadersKnown'
  <2>1. c' = c /\ known' = known \ {o} /\ UNCHANGED <<native, via>>
        /\ (c[o] = "live" => \A i \in Iters : ~ (native[i] = "live" /\ via[i] = o))
    BY <1>3 DEF ForgetReadOptions, Forget, ReadersOf, itvars
  <2>2. QED
    BY <2>1 DEF ReadersKnown
<1>4. ASSUME NEW i \in Iters, Close(i) PROVE ReadersKnown'
  <2>1. /\ UNCHANGED <<c, known, via>>
        /\ \A j \in Iters : native'[j] \in {"live", "none"} => native[j] = native'[j]
    BY <1>4 DEF Close, Freed, rovars, TypeOK
  <2>2. QED
    BY <2>1 DEF ReadersKnown
<1>5. ASSUME NEW i \in Iters, NEW o \in Options, NewIterator(i, o) PROVE ReadersKnown'
  <2>1. /\ UNCHANGED <<c, known>> /\ o \in known
        /\ native' = [native EXCEPT ![i] = "live"] /\ via' = [via EXCEPT ![i] = o]
    BY <1>5 DEF NewIterator, Settable, rovars
  <2>2. QED
    BY <2>1 DEF ReadersKnown, TypeOK
<1>6. ASSUME NEW i \in Iters, NEW j \in Iters, NewIteratorWithBase(i, j) PROVE ReadersKnown'
  <2>1. UNCHANGED <<c, known, via>> /\ native[i] = "none"
        /\ native' = [native EXCEPT ![i] = "live"]
    BY <1>6 DEF NewIteratorWithBase, LeaveBase, rovars
  <2>2. QED
    BY <2>1 DEF ReadersKnown, TypeOK
<1>7. CASE UNCHANGED vars
  BY <1>7 DEF ReadersKnown, vars, rovars, itvars
<1>8. QED
  BY <1>1, <1>2, <1>3, <1>4, <1>5, <1>6, <1>7 DEF Next

\* An iterator is made when no setter runs: the pointers are not null for the
\* slots that the client has set.
LEMMA CopiedAsSetStep ==
  ASSUME TypeOK, ROInv, CopiedAsSet, Next \/ UNCHANGED vars PROVE CopiedAsSet'
<1> USE DEF CopiedAsSet
<1>1. CASE UNCHANGED itvars
  BY <1>1 DEF itvars
<1>2. ASSUME NEW i \in Iters, NEW o \in Options, NewIterator(i, o) PROVE CopiedAsSet'
  <2>1. o \in known /\ c[o] = "live" /\ pending[o] = Nil
        /\ copied' = [copied EXCEPT ![i] = told[o]]
        /\ bounded' = [bounded EXCEPT ![i] = {s \in Slots : asked[o][s] # Nil}]
    BY <1>2 DEF NewIterator, Settable
  <2>2. \A s \in Slots : s \in told[o] <=> asked[o][s] # Nil
    BY <2>1 DEF ROInv, KeptIsRead, Setting, Settled
  <2>3. told[o] = {s \in Slots : asked[o][s] # Nil}
    BY <2>2 DEF TypeOK, ReadOptionsTypeOK
  <2>4. QED
    BY <2>1, <2>3 DEF TypeOK
<1>3. ASSUME NEW i \in Iters, NEW j \in Iters, NewIteratorWithBase(i, j) PROVE CopiedAsSet'
  BY <1>3 DEF NewIteratorWithBase
<1>4. ASSUME NEW i \in Iters, Close(i) PROVE CopiedAsSet'
  BY <1>4 DEF Close, Without
<1>5. QED
  BY <1>1, <1>2, <1>3, <1>4 DEF Next, vars, DestroyReadOptions, ForgetReadOptions

-----------------------------------------------------------------------------
\* The owners of native iterators.

LEMMA TypeStep == ASSUME TypeOK, ROInv', Ownership, Next \/ UNCHANGED vars PROVE TypeOK'
<1> USE DEF TypeOK
<1>0. ReadOptionsTypeOK'
  BY DEF ROInv
<1>1. CASE UNCHANGED itvars
  BY <1>0, <1>1 DEF itvars
<1>2. ASSUME NEW i \in Iters, NEW o \in Options, NewIterator(i, o) PROVE TypeOK'
  <2>1. told[o] \in SUBSET Slots /\ {s \in Slots : asked[o][s] # Nil} \in SUBSET Slots
    BY DEF ReadOptionsTypeOK
  <2>2. QED
    BY <1>0, <1>2, <2>1 DEF NewIterator
<1>3. ASSUME NEW i \in Iters, NEW j \in Iters, NewIteratorWithBase(i, j) PROVE TypeOK'
  BY <1>0, <1>3 DEF NewIteratorWithBase, LeaveBase
<1>4. ASSUME NEW i \in Iters, Close(i) PROVE TypeOK'
  BY <1>0, <1>4 DEF Close, Freed, Without
<1>5. QED
  BY <1>1, <1>2, <1>3, <1>4 DEF Next, vars, DestroyReadOptions, ForgetReadOptions

LEMMA OwnershipStep == ASSUME TypeOK, Ownership, Next \/ UNCHANGED vars PROVE Ownership'
<1> USE ItersAssumption DEF TypeOK, Ownership, Usable
<1>1. CASE UNCHANGED itvars
  BY <1>1 DEF itvars
<1>2. ASSUME NEW i \in Iters, NEW o \in Options, NewIterator(i, o) PROVE Ownership'
  <2>1. /\ native[i] = "none" /\ UNCHANGED <<base, given>>
        /\ iter' = [iter EXCEPT ![i] = TRUE] /\ native' = [native EXCEPT ![i] = "live"]
    BY <1>2 DEF NewIterator
  <2>2. i \notin given /\ base[i] = Nil /\ \A j \in Iters : base[j] # i
    BY <2>1
  <2>3. QED
    BY <2>1, <2>2
<1>3. ASSUME NEW i \in Iters, NEW j \in Iters, NewIteratorWithBase(i, j) PROVE Ownership'
  <2>1. /\ native[i] = "none" /\ iter[j] /\ j \notin given /\ base[j] = Nil
        /\ iter' = [iter EXCEPT ![i] = TRUE] /\ native' = [native EXCEPT ![i] = "live"]
        /\ base' = [base EXCEPT ![i] = j] /\ given' = given \cup {j}
    BY <1>3 DEF NewIteratorWithBase, LeaveBase
  <2>2. /\ native[j] = "live" /\ i # j /\ i \notin given /\ base[i] = Nil
        /\ \A k \in Iters : base[k] # i /\ base[k] # j
    BY <2>1
  <2>3. /\ base'[i] = j /\ native'[i] = "live" /\ iter'[i]
        /\ \A k \in Iters : k # i => /\ base'[k] = base[k] /\ native'[k] = native[k]
                                     /\ iter'[k] = iter[k]
    BY <2>1
  <2>4. \A k \in given' : \E m \in Iters : base'[m] = k
    BY <2>1, <2>2, <2>3
  <2>5. ASSUME NEW k \in Iters, base'[k] # Nil
        PROVE  /\ base'[k] \in given' /\ base'[base'[k]] = Nil /\ k \notin given'
               /\ native'[k] = "live" <=> native'[base'[k]] = "live"
    <3>1. CASE k = i
      BY <2>1, <2>2, <2>3, <3>1
    <3>2. CASE k # i
      BY <2>1, <2>2, <2>3, <2>5, <3>2
    <3>3. QED
      BY <3>1, <3>2
  <2>6. \A k, m \in Iters : base'[k] = base'[m] /\ base'[k] # Nil => k = m
    BY <2>2, <2>3
  <2>7. /\ \A k \in Iters : native'[k] = "none" => ~ iter'[k] /\ k \notin given' /\ base'[k] = Nil
        /\ \A k \in Iters : native'[k] # "twice"
        /\ \A k \in Iters : iter'[k] /\ k \notin given' => native'[k] = "live"
        /\ \A k \in Iters : native'[k] = "live" /\ k \notin given' => iter'[k]
    BY <2>1, <2>2, <2>3
  <2>8. QED
    BY <2>4, <2>5, <2>6, <2>7
<1>4. ASSUME NEW i \in Iters, Close(i) PROVE Ownership'
  <2>1. /\ iter[i] /\ i \notin given /\ native[i] = "live"
        /\ native' = Freed(Owned(i)) /\ iter' = [iter EXCEPT ![i] = FALSE]
        /\ UNCHANGED <<base, given>>
    BY <1>4 DEF Close
  <2>2. \A k \in Iters : k \in Owned(i) <=> k = i \/ (base[i] # Nil /\ k = base[i])
    BY DEF Owned
  <2>3. \A k \in Iters : k \in Owned(i) => native[k] = "live" /\ native'[k] = "freed"
    BY <2>1, <2>2 DEF Freed
  <2>4. \A k \in Iters : k \notin Owned(i) => native'[k] = native[k]
    BY <2>1 DEF Freed
  <2>5. ASSUME NEW k \in Iters, base[k] # Nil
        PROVE  native'[k] = "live" <=> native'[base[k]] = "live"
    <3>1. k \in Owned(i) <=> base[k] \in Owned(i)
      BY <2>1, <2>2, <2>5
    <3>2. QED
      BY <2>3, <2>4, <2>5, <3>1
  <2>6. /\ \A k \in Iters : native'[k] = "none" => native[k] = "none" /\ k # i
        /\ \A k \in Iters : native'[k] # "twice"
        /\ \A k \in Iters : k # i => iter'[k] = iter[k]
        /\ ~ iter'[i] /\ native'[i] = "freed"
        /\ \A k \in Iters : k \in Owned(i) /\ k # i => k \in given
    BY <2>1, <2>2, <2>3, <2>4
  <2>7. \A k \in Iters : iter'[k] /\ k \notin given' => native'[k] = "live"
    BY <2>1, <2>4, <2>6
  <2>8. \A k \in Iters : native'[k] = "live" /\ k \notin given' => iter'[k]
    BY <2>1, <2>3, <2>4, <2>6
  <2>9. QED
    BY <2>1, <2>5, <2>6, <2>7, <2>8
<1>5. QED
  BY <1>1, <1>2, <1>3, <1>4 DEF Next, vars, DestroyReadOptions, ForgetReadOptions

LEMMA NextIInv == IInv /\ [Next]_vars => IInv'
<1> SUFFICES ASSUME IInv, Next \/ UNCHANGED vars PROVE IInv'
  OBVIOUS
<1>1. ROInv'
  BY ROInvStep DEF IInv
<1>2. QED
  BY <1>1, TypeStep, OwnershipStep, ReadersKnownStep, CopiedAsSetStep DEF IInv

LEMMA IInvAlways == Spec => []IInv
  BY InitIInv, NextIInv, PTL DEF Spec

-----------------------------------------------------------------------------

\* Every variable keeps its type, and only live options keep arrays: Destroy in
\* options_read.go clears the fields.
THEOREM TypeCorrect == Spec => []TypeOK
<1>1. IInv => TypeOK
  BY DEF IInv
<1>2. QED
  BY <1>1, IInvAlways, PTL

\* An iterator has a pointer for each slot that was set when it was made, and no
\* other.  What it reads through them was kept for it by the fields of the Go
\* object: whatever the collector does and whatever setters ran since, it is the
\* key the client set last, or an empty Slice where the client has cleared it.
THEOREM IteratorsReadAskedAlways == Spec => []IteratorsReadAsked
<1>1. ASSUME IInv, NEW o \in Options, c[o] = "live", pending[o] = Nil,
             NEW i \in ReadersOf(o)
      PROVE  copied[i] = bounded[i] /\ \A s \in copied[i] : FindsAsked(o, s)
  <2>1. o \in known
    BY <1>1, ItersAssumption DEF IInv, ReadersKnown, ReadersOf
  <2>2. \A s \in Slots : KeptIsRead(o, s)
    BY <1>1, <2>1 DEF IInv, ROInv
  <2>3. \A s \in Slots : slice[o][s] = slot[o][s] /\ Settled(o, s)
    BY <1>1, <2>2 DEF KeptIsRead, Setting
  <2>4. \A s \in Slots : FindsAsked(o, s)
    BY <2>3 DEF FindsAsked, Settled, Bytes
  <2>5. copied[i] = bounded[i] /\ copied[i] \subseteq Slots
    BY <1>1 DEF IInv, CopiedAsSet, ReadersOf, TypeOK
  <2>6. QED
    BY <2>4, <2>5
<1>2. IInv => IteratorsReadAsked
  BY <1>1 DEF IteratorsReadAsked
<1>3. QED
  BY <1>2, IInvAlways, PTL

\* No native iterator is freed twice, left without an owner, or freed while the
\* client can still use it: NewIteratorWithBase hands its base over and Close
\* frees what the iterator owns.
THEOREM OneOwnerAlways == Spec => []OneOwner
<1>1. ASSUME IInv, NEW i \in Iters, native[i] = "live"
      PROVE  IF Usable(i) THEN \A j \in Iters : native[j] = "live" => base[j] # i
             ELSE \E j \in Iters : native[j] = "live" /\ base[j] = i
  <2>1. CASE Usable(i)
    BY <1>1, <2>1, ItersAssumption DEF IInv, Ownership, Usable
  <2>2. CASE ~ Usable(i)
    <3>1. i \in given
      BY <1>1, <2>2 DEF IInv, Ownership, Usable
    <3>2. PICK j \in Iters : base[j] = i
      BY <1>1, <3>1 DEF IInv, Ownership
    <3>3. native[j] = "live"
      BY <1>1, <3>2, ItersAssumption DEF IInv, Ownership
    <3>4. QED
      BY <2>2, <3>2, <3>3
  <2>3. QED
    BY <2>1, <2>2
<1>2. IInv => OneOwner
  BY <1>1 DEF OneOwner, IInv, Ownership
<1>3. QED
  BY <1>2, IInvAlways, PTL

-----------------------------------------------------------------------------
(* Progress, for one array: the provers know neither ENABLED nor the        *)
(* instances of a quantified fairness condition.                           *)

\* The client has dropped the key in b and destroyed all ReadOptions.
Dropped(b) == b \notin held /\ \A o \in Options : c[o] = "freed"

\* From then on only the collector touches the array, unless it is free already.
LEMMA DroppedStays ==
  ASSUME TypeOK, NEW b \in Buffers, Dropped(b), [Next]_vars, heap[b] # Nil
  PROVE  Dropped(b)'
<1> USE DEF TypeOK, ReadOptionsTypeOK, Dropped
<1>1. CASE ClientStep /\ UNCHANGED itvars
  BY <1>1 DEF ClientStep, DropKey, MakeKey, Overwrite, NewDefaultReadOptions, SetSlice, SetUint64,
     SetNative
<1>2. CASE GarbageCollector /\ UNCHANGED itvars
  BY <1>2 DEF GarbageCollector, Collect
<1>3. CASE \E o \in Options : DestroyReadOptions(o) \/ ForgetReadOptions(o)
  BY <1>3 DEF DestroyReadOptions, Destroy, Settable, ForgetReadOptions, Forget
<1>4. CASE \E i \in Iters : Close(i) \/ \E o \in Options : NewIterator(i, o)
  BY <1>4 DEF Close, NewIterator, rovars
<1>5. CASE \E i, j \in Iters : NewIteratorWithBase(i, j)
  BY <1>5 DEF NewIteratorWithBase, rovars
<1>6. CASE UNCHANGED vars
  BY <1>6 DEF vars, rovars
<1>7. QED
  BY <1>1, <1>2, <1>3, <1>4, <1>5, <1>6 DEF Next

\* The array of a key is collected, if the collector gets round to it, once the
\* client has dropped the key and destroyed the ReadOptions it was set in: no
\* field of a Go object keeps it, whichever setters ran (options_read.go).
THEOREM KeyGoes ==
  ASSUME NEW b \in Buffers
  PROVE  /\ Spec /\ WF_vars(Collect(b) /\ UNCHANGED itvars)
         /\ [](heap[b] # Nil /\ Garbage(b) => ENABLED <<Collect(b) /\ UNCHANGED itvars>>_vars)
         => (Dropped(b) ~> heap[b] = Nil)
<1>1. TypeOK => (Dropped(b) => Garbage(b))
  BY ReadOptionsAssumption DEF TypeOK, ReadOptionsTypeOK, Garbage, Keeps, Dropped
<1>2. TypeOK /\ [Next]_vars => (Dropped(b) /\ heap[b] # Nil => Dropped(b)')
  BY DroppedStays
<1>3. TypeOK /\ <<Collect(b) /\ UNCHANGED itvars>>_vars => (heap[b] = Nil)'
  BY DEF Collect, TypeOK, ReadOptionsTypeOK
<1>4. heap[b] # Nil <=> ~ heap[b] = Nil
  OBVIOUS
<1>5. QED
  BY <1>1, <1>2, <1>3, <1>4, TypeCorrect, PTL DEF Spec
=============================================================================

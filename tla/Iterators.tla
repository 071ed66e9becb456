------------------------------ MODULE Iterators ------------------------------
(***************************************************************************)
(* Iterators of a database, an SST file or a transaction, and those of an  *)
(* indexed write batch on top of them.  A native iterator copies the       *)
(* rocksdb::ReadOptions it is made with, pointers to the Slices of the     *)
(* native options included, and reads those Slices whenever it moves.  It  *)
(* keeps neither them nor the Go object, which the client has to do.       *)
(***************************************************************************)
EXTENDS ReadOptions

CONSTANT
  Iters  \* the Iterator objects; a client makes each once

ASSUME ItersAssumption == Nil \notin Iters \cup Options

VARIABLES
  iter,    \* iter[i]: Iterator.c is not nil
  native,  \* native[i]: "none", "live", "freed" or "twice": the native iterator
  via,     \* via[i]: the ReadOptions it was made with, Nil for one on a base
  base,    \* base[i]: the iterator whose native one it owns, or Nil
  given,   \* the iterators the client has given away as a base
  copied,  \* copied[i]: the slots whose pointer in its copy of rep is not null
  bounded  \* bounded[i]: the slots its client had set when i was made (history)

itvars == <<iter, native, via, base, given, copied, bounded>>
vars == <<rovars, itvars>>

TypeOK ==
  /\ ReadOptionsTypeOK
  /\ iter \in [Iters -> BOOLEAN]
  /\ native \in [Iters -> {"none", "live", "freed", "twice"}]
  /\ via \in [Iters -> Options \cup {Nil}]
  /\ base \in [Iters -> Iters \cup {Nil}]
  /\ given \subseteq Iters
  /\ copied \in [Iters -> SUBSET Slots]
  /\ bounded \in [Iters -> SUBSET Slots]

Init ==
  /\ ReadOptionsInit
  /\ iter = [i \in Iters |-> FALSE]
  /\ native = [i \in Iters |-> "none"]
  /\ via = [i \in Iters |-> Nil]
  /\ base = [i \in Iters |-> Nil]
  /\ given = {}
  /\ copied = [i \in Iters |-> {}]
  /\ bounded = [i \in Iters |-> {}]

\* The client uses an iterator until it closes it or gives it away.
Usable(i) == iter[i] /\ i \notin given

\* The native iterators that go with i when it is deleted.
Owned(i) == {i} \cup (IF base[i] = Nil THEN {} ELSE {base[i]})

\* The native iterators whose copies point to Slices in the native options of o.
ReadersOf(o) == {i \in Iters : native[i] = "live" /\ via[i] = o}

Freed(I) == [i \in Iters |-> IF i \notin I THEN native[i]
                             ELSE IF native[i] = "live" THEN "freed" ELSE "twice"]

\* The copies go with their native iterators.
Without(f, I) == [i \in Iters |-> IF i \in I THEN {} ELSE f[i]]

-----------------------------------------------------------------------------
\* NewIterator(opts), NewIteratorCF, and each of the iterators of NewIterators.
NewIterator(i, o) ==
  /\ native[i] = "none"
  /\ Settable(o)
  /\ iter' = [iter EXCEPT ![i] = TRUE]
  /\ native' = [native EXCEPT ![i] = "live"]
  /\ via' = [via EXCEPT ![i] = o]
  /\ copied' = [copied EXCEPT ![i] = told[o]]
  /\ bounded' = [bounded EXCEPT ![i] = {s \in Slots : asked[o][s] # Nil}]
  /\ UNCHANGED <<rovars, base, given>>

\* What NewIteratorWithBase does with the base iterator it was given: nothing,
\* RocksDB owns it now.
CloseBase(j) == Freed({j})
LeaveBase(j) == native

NewIteratorWithBase(i, j) ==
  /\ native[i] = "none"
  /\ Usable(j) /\ base[j] = Nil
  /\ iter' = [iter EXCEPT ![i] = TRUE]
  /\ native' = [LeaveBase(j) EXCEPT ![i] = "live"]
  /\ base' = [base EXCEPT ![i] = j]
  /\ given' = given \cup {j}
  /\ UNCHANGED <<rovars, via, copied, bounded>>

Close(i) ==
  /\ Usable(i)
  /\ native' = Freed(Owned(i))
  /\ iter' = [iter EXCEPT ![i] = FALSE]
  /\ copied' = Without(copied, Owned(i))
  /\ bounded' = Without(bounded, Owned(i))
  /\ UNCHANGED <<rovars, via, base, given>>

-----------------------------------------------------------------------------
\* What the client owes its iterators: it keeps the Go object as long as one of
\* them, or of those that own one of them, is open; it may destroy the options
\* before it closes an iterator, but does not move that one any more.

DestroyReadOptions(o) == Destroy(o) /\ UNCHANGED itvars

ForgetReadOptions(o) ==
  /\ c[o] = "live" => ReadersOf(o) = {}
  /\ Forget(o)
  /\ UNCHANGED itvars

Next ==
  \/ ClientStep /\ UNCHANGED itvars
  \/ GarbageCollector /\ UNCHANGED itvars
  \/ \E o \in Options : DestroyReadOptions(o) \/ ForgetReadOptions(o)
  \/ \E i \in Iters : Close(i) \/ \E o \in Options : NewIterator(i, o)
  \/ \E i, j \in Iters : NewIteratorWithBase(i, j)

Spec == Init /\ [][Next]_vars

\* The garbage collector gets round to every array.
FairSpec == Spec /\ \A b \in Buffers : WF_vars(Collect(b) /\ UNCHANGED itvars)

-----------------------------------------------------------------------------
\* Whenever an iterator can be moved, it is bounded in the slots that were set
\* when it was made and in no others, and in each of those it finds what its
\* client has set last, or an empty Slice if the client has cleared it since:
\* nothing it reads was collected or belongs to another setter, although the
\* client has long dropped the keys, the collector runs and other keys are made.
IteratorsReadAsked ==
  \A o \in Options : c[o] = "live" /\ pending[o] = Nil =>
    \A i \in ReadersOf(o) :
      /\ copied[i] = bounded[i]
      /\ \A s \in copied[i] : FindsAsked(o, s)

\* A native iterator has one owner, a usable Iterator or the native iterator on
\* top of it: it is freed with its owner, once, and not before.
OneOwner ==
  \A i \in Iters :
    /\ native[i] # "twice"
    /\ native[i] = "live" =>
         IF Usable(i) THEN \A j \in Iters : native[j] = "live" => base[j] # i
         ELSE \E j \in Iters : native[j] = "live" /\ base[j] = i
    /\ Usable(i) => native[i] = "live"

\* Keys do not pile up: the array of a key that the client has dropped is
\* collected in the end, if every ReadOptions it was set in is destroyed, though
\* the client keeps the Go objects.
KeysGo ==
  \A b \in Buffers :
    (b \notin held /\ \A o \in Options : c[o] = "freed") ~> heap[b] = Nil
=============================================================================

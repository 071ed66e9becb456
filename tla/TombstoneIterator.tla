-------------------------- MODULE TombstoneIterator --------------------------
(***************************************************************************)
(* RangeTombstoneIterator of extend_inner.go: goroutines share a cursor    *)
(* under a mutex and read the native list outside it.                      *)
(*                                                                         *)
(* The module follows one iterator.  Its client calls Next from any        *)
(* goroutine and Close when no call of Next is running, the last time it   *)
(* touches the iterator: neither method checks for the other.              *)
(***************************************************************************)
EXTENDS Integers, Sequences

CONSTANTS
  Readers,     \* the goroutines that call Next
  Tombstones,  \* what a native list consists of
  Nil,         \* a nil pointer, "no holder", "no tombstone"
  Asked, End   \* answers of the feed that are not tombstones

ASSUME IteratorAssumption ==
  /\ Nil \notin Readers /\ Nil # Asked /\ Nil # End /\ Asked # End
  /\ Tombstones \cap {Nil, Asked, End} = {}

VARIABLES
  c,        \* RangeTombstoneIterator.c: the native list, Nil before it is made and after Close
  size,     \* RangeTombstoneIterator.size
  cur,      \* RangeTombstoneIterator.cur: the cursor the goroutines share
  mu,       \* RangeTombstoneIterator.mu: the goroutine that holds it, or Nil
  pc,       \* pc[r]: the statement of Next that r executes next, "out" outside Next
  mine,     \* mine[r]: the local variable cur of Next
  ok,       \* ok[r]: the result ok of Next
  result,   \* result[r]: the result tombstone of Next
  listed,   \* the list the iterator was made for (history)
  given     \* given[k]: how many calls have returned element k of it (history)

rvars == <<pc, mine, ok, result>>
ivars == <<c, size, cur, mu, rvars, listed, given>>

Steps == {"lock", "load", "check", "unlock", "read", "return"}

IteratorTypeOK ==
  /\ c \in Seq(Tombstones) \cup {Nil}
  /\ size \in Nat
  /\ cur \in 0..size
  /\ mu \in Readers \cup {Nil}
  /\ pc \in [Readers -> Steps \cup {"out"}]
  /\ mine \in [Readers -> Nat]
  /\ ok \in [Readers -> BOOLEAN]
  /\ result \in [Readers -> Tombstones \cup {Nil}]
  /\ listed \in Seq(Tombstones)
  /\ given \in [1..Len(listed) -> Nat]

IteratorInit ==
  /\ c = Nil /\ size = 0 /\ cur = 0 /\ mu = Nil
  /\ pc = [r \in Readers |-> "out"]
  /\ mine = [r \in Readers |-> 0]
  /\ ok = [r \in Readers |-> FALSE]
  /\ result = [r \in Readers |-> Nil]
  /\ listed = <<>>
  /\ given = <<>>

-----------------------------------------------------------------------------
\* NewRangeTombstoneIterator(cList) and Close.

Unopened == c = Nil /\ listed = <<>>

NewRangeTombstoneIterator(cList) ==
  /\ Unopened
  /\ c' = cList
  /\ size' = Len(cList)
  /\ listed' = cList
  /\ given' = [k \in 1..Len(cList) |-> 0]
  /\ UNCHANGED <<cur, mu, rvars>>

Close ==
  /\ c # Nil
  /\ \A r \in Readers : pc[r] = "out"
  /\ c' = Nil
  /\ UNCHANGED <<size, cur, mu, rvars, listed, given>>

-----------------------------------------------------------------------------
\* Next, called by r.

Step(r, from, to) == pc[r] = from /\ pc' = [pc EXCEPT ![r] = to]

Call(r) ==
  /\ c # Nil
  /\ Step(r, "out", "lock")
  /\ UNCHANGED <<c, size, cur, mu, mine, ok, result, listed, given>>

\* A mutex for reading, which does not keep the goroutines apart.
LockShared(r) ==
  /\ Step(r, "lock", "load")
  /\ mu' = r
  /\ UNCHANGED <<c, size, cur, mine, ok, result, listed, given>>
Lock(r) ==
  /\ Step(r, "lock", "load")
  /\ mu = Nil
  /\ mu' = r
  /\ UNCHANGED <<c, size, cur, mine, ok, result, listed, given>>

Load(r) ==
  /\ Step(r, "load", "check")
  /\ mine' = [mine EXCEPT ![r] = cur]
  /\ UNCHANGED <<c, size, cur, mu, ok, result, listed, given>>

\* The condition cur < iter.size, and one that lets the cursor pass the end.
InRangeOrNext(r) == mine[r] <= size
InRange(r) == mine[r] < size

\* ok = true; iter.cur++
Check(r) ==
  /\ Step(r, "check", "unlock")
  /\ ok' = [ok EXCEPT ![r] = InRange(r)]
  /\ cur' = IF InRange(r) THEN cur + 1 ELSE cur
  /\ UNCHANGED <<c, size, mu, mine, result, listed, given>>

\* A return at the end of the list that leaves the mutex locked.
UnlockWhenFound(r) ==
  /\ Step(r, "unlock", IF ok[r] THEN "read" ELSE "return")
  /\ mu' = IF ok[r] THEN Nil ELSE mu
  /\ UNCHANGED <<c, size, cur, mine, ok, result, listed, given>>
Unlock(r) ==
  /\ Step(r, "unlock", IF ok[r] THEN "read" ELSE "return")
  /\ mu' = Nil
  /\ UNCHANGED <<c, size, cur, mine, ok, result, listed, given>>

\* The index of the native list: the local copy, and the shared cursor itself.
SharedIndex(r) == cur
Index(r) == mine[r] + 1

\* The four C calls.  An index beyond the vector, or a list that is gone, is
\* undefined behaviour: no tombstone of the list.
Read(r) ==
  /\ Step(r, "read", "return")
  /\ result' = [result EXCEPT ![r] =
                  IF c # Nil /\ Index(r) \in 1..Len(c) THEN c[Index(r)] ELSE Nil]
  /\ UNCHANGED <<c, size, cur, mu, mine, ok, listed, given>>

Return(r) ==
  /\ Step(r, "return", "out")
  /\ given' = [k \in DOMAIN given |->
                 IF ok[r] /\ k = mine[r] + 1 THEN given[k] + 1 ELSE given[k]]
  /\ mine' = [mine EXCEPT ![r] = 0]
  /\ ok' = [ok EXCEPT ![r] = FALSE]
  /\ result' = [result EXCEPT ![r] = Nil]
  /\ UNCHANGED <<c, size, cur, mu, listed>>

NextStep(r) ==
  \/ Lock(r) \/ Load(r) \/ Check(r) \/ Unlock(r) \/ Read(r) \/ Return(r)

IteratorNext ==
  \/ \E l \in Seq(Tombstones) : NewRangeTombstoneIterator(l)
  \/ \E r \in Readers : Call(r) \/ NextStep(r)
  \/ Close

IteratorSpec == IteratorInit /\ [][IteratorNext]_ivars

-----------------------------------------------------------------------------
\* Call r of Next has moved the cursor past element k and has not returned yet.
Holds(r, k) == ok[r] /\ mine[r] + 1 = k

\* However the calls interleave, the elements up to the cursor have been
\* returned once or are on their way in one call, and none beyond it is:
\* Next neither repeats a tombstone nor leaves one out.
DeliveredOnce ==
  \A k \in 1..Len(listed) :
    /\ given[k] \in {0, 1}
    /\ \A r, s \in Readers : Holds(r, k) /\ Holds(s, k) => r = s
    /\ (k <= cur) <=> (given[k] = 1 \/ \E r \in Readers : Holds(r, k))
    /\ given[k] = 1 => \A r \in Readers : ~Holds(r, k)

\* The iterator implements the feed: a tombstone is taken, or the end found,
\* at Check, and the list read later, outside the mutex, still has it.
Left == IF c = Nil THEN <<>> ELSE SubSeq(listed, cur + 1, size)

Answer(r) ==
  CASE pc[r] = "out" -> Nil
    [] pc[r] \in {"lock", "load", "check"} -> Asked
    [] pc[r] \in {"unlock", "read"} -> IF ok[r] THEN listed[mine[r] + 1] ELSE End
    [] pc[r] = "return" -> IF ok[r] THEN result[r] ELSE End

Feed == INSTANCE TombstoneFeed WITH
          Idle <- Nil, left <- Left, answer <- [r \in Readers |-> Answer(r)]
ImplementsFeed == Feed!Spec
=============================================================================

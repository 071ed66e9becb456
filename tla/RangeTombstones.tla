--------------------------- MODULE RangeTombstones ---------------------------
(***************************************************************************)
(* ColumnFamilyHandle.NewRangeTombstoneIterator of extend_inner.go: calls  *)
(* that list range tombstones while the database goes on compacting, and   *)
(* goroutines that share the iterator over one of the lists.               *)
(***************************************************************************)
EXTENDS TombstoneList, TombstoneIterator

ASSUME StoredAssumption == Stored \subseteq Tombstones

VARIABLE
  crashed  \* the process has died

vars == <<lvars, ivars, crashed>>

TypeOK == ListTypeOK /\ IteratorTypeOK /\ crashed \in BOOLEAN

Init == ListInit /\ IteratorInit /\ crashed = FALSE

\* The Go method continues with the list it was returned.
Open(a) ==
  /\ at[a] = "listed"
  /\ NewRangeTombstoneIterator(tombstones[a])
  /\ UNCHANGED <<lvars, crashed>>

\* It does so after an error too: NewRangeTombstoneIterator asks a null list
\* for its size before the error is returned.
SizeOfNull(a) ==
  /\ at[a] = "failed"
  /\ crashed' = TRUE
  /\ UNCHANGED <<lvars, ivars>>

List(a) == CallStep(a) /\ UNCHANGED <<ivars, crashed>>

Background == RocksDBStep /\ UNCHANGED <<ivars, crashed>>

Iterate ==
  /\ (\E r \in Readers : Call(r) \/ NextStep(r)) \/ Close
  /\ UNCHANGED <<lvars, crashed>>

Next ==
  /\ ~crashed
  /\ \/ \E a \in Calls : List(a) \/ Open(a) \/ SizeOfNull(a)
     \/ Background
     \/ Iterate

\* A call goes on to its end, RocksDB purges what it can, a goroutine inside
\* Next runs on; the client need not call anything.  sync.Mutex hands itself to
\* a goroutine that has waited for a millisecond: one that finds the mutex free
\* again and again gets it.
Fairness ==
  /\ \A a \in Calls :
       /\ WF_vars(~crashed /\ at[a] = "listing" /\ List(a))
       /\ WF_vars(~crashed /\ SizeOfNull(a))
  /\ \A f \in Files : WF_vars(~crashed /\ Purge(f) /\ UNCHANGED <<ivars, crashed>>)
  /\ \A r \in Readers :
       /\ WF_vars(~crashed /\ NextStep(r) /\ UNCHANGED <<lvars, crashed>>)
       /\ SF_vars(~crashed /\ Lock(r) /\ UNCHANGED <<lvars, crashed>>)

Spec == Init /\ [][Next]_vars

FairSpec == Spec /\ Fairness

-----------------------------------------------------------------------------
\* Every call of Next returns, also at the end of the list, whatever the other
\* goroutines do, unless the process dies.
NextReturns ==
  \A r \in Readers : pc[r] = "lock" ~> (pc[r] = "out" \/ crashed)

\* A file that is no longer of the current version is deleted in the end,
\* although calls were reading it: each lets its version go.  A call that
\* failed does not, but the process does not survive that.
ObsoleteFilesGo ==
  \A f \in Files : f \notin FilesOf(current) ~> (f \notin disk \/ crashed)
=============================================================================

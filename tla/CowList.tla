------------------------------- MODULE CowList -------------------------------
(***************************************************************************)
(* The copy-on-write list of cow.go, step by step: the writers are         *)
(* serialised by a mutex, and each builds a new backing array and swings   *)
(* the atomic pointer to it; the readers take no lock, load the pointer    *)
(* and index the array they found.  The readers are the RocksDB threads    *)
(* that call back into Go with the index a native object was created with. *)
(***************************************************************************)
EXTENDS Integers, Sequences

CONSTANTS
  Calls,    \* the calls of Append, each on a goroutine of its own
  Readers,  \* the threads that call Get
  Nil       \* the nil interface, "no mutex holder" and "no entry"

ASSUME CowAssumption == Nil \notin Calls

VARIABLES
  arrays,   \* every backing array allocated so far (a slice is its position here)
  v,        \* COWList.v: the array the atomic value points to
  mu,       \* COWList.mu: the call that holds the mutex, or Nil
  pc,       \* pc[c]: the statement of Append that c executes next
  list,     \* list[c]: the local variable list of Append
  newList,  \* newList[c]: the local variable newList of Append
  index,    \* index[c]: the result of Append, -1 until it returns
  rpc,      \* rpc[r]: the statement of Get that r executes next
  rlist,    \* rlist[r]: the local variable list of Get
  ridx,     \* ridx[r]: the argument index of Get
  got       \* got[r]: the argument and the result of the last Get of r

wvars == <<mu, pc, list, newList, index>>
rvars == <<rpc, rlist, ridx, got>>
vars == <<arrays, v, wvars, rvars>>

\* Get's index expression panics outside the array.
Panic == "panic"

Steps == {"lock", "load", "make", "copy", "fill", "store", "unlock", "return", "done"}

Entries == Calls \cup {Nil}

TypeOK ==
  /\ arrays \in Seq(Seq(Entries))
  /\ v \in 1..Len(arrays)
  /\ mu \in Entries
  /\ pc \in [Calls -> Steps]
  /\ list \in [Calls -> 0..Len(arrays)]
  /\ newList \in [Calls -> 0..Len(arrays)]
  /\ index \in [Calls -> Nat \cup {-1}]
  /\ \A c \in Calls : pc[c] = "done" <=> index[c] # -1
  /\ rpc \in [Readers -> {"idle", "loaded"}]
  /\ rlist \in [Readers -> 0..Len(arrays)]
  /\ ridx \in [Readers -> Nat]
  /\ got \in [Readers -> (Nat \cup {-1}) \X (Entries \cup {Panic})]

Init ==
  /\ arrays = << <<>> >>
  /\ v = 1
  /\ mu = Nil
  /\ pc = [c \in Calls |-> "lock"]
  /\ list = [c \in Calls |-> 0]
  /\ newList = [c \in Calls |-> 0]
  /\ index = [c \in Calls |-> -1]
  /\ rpc = [r \in Readers |-> "idle"]
  /\ rlist = [r \in Readers |-> 0]
  /\ ridx = [r \in Readers |-> 0]
  /\ got = [r \in Readers |-> <<-1, Nil>>]

-----------------------------------------------------------------------------
\* Append(c)

Step(c, from, to) == pc[c] = from /\ pc' = [pc EXCEPT ![c] = to]

\* A list that forgot its mutex, or that was guarded by a read lock.
UnlockedAnyway == TRUE
Unlocked == mu = Nil

Lock(c) ==
  /\ Step(c, "lock", "load")
  /\ Unlocked
  /\ mu' = c
  /\ UNCHANGED <<arrays, v, list, newList, index, rvars>>

Load(c) ==
  /\ Step(c, "load", "make")
  /\ list' = [list EXCEPT ![c] = v]
  /\ UNCHANGED <<arrays, v, mu, newList, index, rvars>>

\* append(list, i) grows in place when the array has room to spare.
MakeInPlace(c) ==
  /\ Step(c, "make", "copy")
  /\ arrays' = [arrays EXCEPT ![list[c]] = Append(@, Nil)]
  /\ newList' = [newList EXCEPT ![c] = list[c]]
  /\ UNCHANGED <<v, mu, list, index, rvars>>
\* make([]interface{}, newLen): a fresh array of nil interfaces.
Make(c) ==
  /\ Step(c, "make", "copy")
  /\ arrays' = Append(arrays, [i \in 1..Len(arrays[list[c]]) + 1 |-> Nil])
  /\ newList' = [newList EXCEPT ![c] = Len(arrays) + 1]
  /\ UNCHANGED <<v, mu, list, index, rvars>>

\* copy(newList, list), and the copy that was forgotten.
CopiedNothing(new, old) == new
Copied(new, old) ==
  [i \in 1..Len(new) |-> IF i <= Len(old) THEN old[i] ELSE new[i]]

Copy(c) ==
  /\ Step(c, "copy", "fill")
  /\ arrays' = [arrays EXCEPT ![newList[c]] = Copied(@, arrays[list[c]])]
  /\ UNCHANGED <<v, mu, list, newList, index, rvars>>

Fill(c) ==
  /\ Step(c, "fill", "store")
  /\ arrays' = [arrays EXCEPT ![newList[c]] = [@ EXCEPT ![Len(@)] = c]]
  /\ UNCHANGED <<v, mu, list, newList, index, rvars>>

Store(c) ==
  /\ Step(c, "store", "unlock")
  /\ v' = newList[c]
  /\ UNCHANGED <<arrays, mu, list, newList, index, rvars>>

\* An early return that leaves the mutex locked.
ReturnLocked(c) ==
  /\ Step(c, "unlock", "return")
  /\ UNCHANGED <<arrays, v, mu, list, newList, index, rvars>>
Unlock(c) ==
  /\ Step(c, "unlock", "return")
  /\ mu' = Nil
  /\ UNCHANGED <<arrays, v, list, newList, index, rvars>>

\* index = newLen - 1, computed after the mutex was released: from the local
\* array, neither from the list it copied nor from the list published by now.
OldLength(c) == Len(arrays[list[c]]) - 1
PublishedLength(c) == Len(arrays[v]) - 1
LastIndex(c) == Len(arrays[newList[c]]) - 1

Return(c) ==
  /\ Step(c, "return", "done")
  /\ index' = [index EXCEPT ![c] = LastIndex(c)]
  /\ UNCHANGED <<arrays, v, mu, list, newList, rvars>>

AppendStep(c) ==
  \/ Lock(c) \/ Load(c) \/ Make(c) \/ Copy(c)
  \/ Fill(c) \/ Store(c) \/ Unlock(c) \/ Return(c)

-----------------------------------------------------------------------------
\* Get(i), which a native object does with the index it was created with: an
\* index that some Append returned.

GetLoad(r, i) ==
  /\ rpc[r] = "idle"
  /\ rpc' = [rpc EXCEPT ![r] = "loaded"]
  /\ ridx' = [ridx EXCEPT ![r] = i]
  /\ rlist' = [rlist EXCEPT ![r] = v]
  /\ UNCHANGED <<arrays, v, wvars, got>>

\* A Get that takes the mutex, as a list guarded by one lock would.
GetLocked(r) ==
  /\ rpc[r] = "loaded"
  /\ mu = Nil
  /\ rpc' = [rpc EXCEPT ![r] = "idle"]
  /\ UNCHANGED <<arrays, v, wvars, rlist, ridx, got>>
GetIndex(r) ==
  /\ rpc[r] = "loaded"
  /\ rpc' = [rpc EXCEPT ![r] = "idle"]
  /\ got' = [got EXCEPT ![r] = <<ridx[r], IF ridx[r] < Len(arrays[rlist[r]])
                                            THEN arrays[rlist[r]][ridx[r] + 1]
                                            ELSE Panic>>]
  /\ UNCHANGED <<arrays, v, wvars, rlist, ridx>>

Next ==
  \/ \E c \in Calls : AppendStep(c)
  \/ \E r \in Readers, c \in Calls : index[c] # -1 /\ GetLoad(r, index[c])
  \/ \E r \in Readers : GetIndex(r)

Spec == Init /\ [][Next]_vars

\* A thread inside Get is scheduled; nothing is assumed of the writers.
ReaderFairness == \A r \in Readers : WF_vars(GetIndex(r))

\* A goroutine inside Append is scheduled.  Each call locks once, so a weakly
\* fair mutex is enough (sync.Mutex's starvation mode gives more than that).
WriterFairness == \A c \in Calls : WF_vars(AppendStep(c))

ReaderFairSpec == Spec /\ ReaderFairness

-----------------------------------------------------------------------------
\* An index Append returned finds the entry of that very call in the list that
\* is published now, and goes on doing so whatever is appended later.
OwnIndex ==
  \A c \in Calls : index[c] # -1 =>
    /\ index[c] < Len(arrays[v])
    /\ arrays[v][index[c] + 1] = c

\* A Get between its load and its index expression holds an array in which its
\* index is in range and which has there what the current list has, however
\* many writers published a newer list in between.
GetSeesEntry ==
  \A r \in Readers : rpc[r] = "loaded" =>
    /\ ridx[r] < Len(arrays[rlist[r]])
    /\ arrays[rlist[r]][ridx[r] + 1] = arrays[v][ridx[r] + 1]

\* "Reads do not block; Writes do not block reads" (cow.go:10) is safe only
\* because no step writes an array that a reader can reach: the published
\* one, and the ones readers have loaded.
SharedFrozen ==
  [][\A a \in {v} \cup {rlist[r] : r \in {x \in Readers : rpc[x] = "loaded"}} :
       arrays'[a] = arrays[a]]_vars

\* The list implements the append-only log: an Append takes effect at Store,
\* with no entry lost or overwritten by a concurrent one.
Log == INSTANCE AppendLog WITH log <- arrays[v]
ImplementsLog == Log!Spec

\* Get returns although nothing is assumed of the writers: one that stops for
\* ever with the mutex held blocks no reader (cow.go:10).
ReadsDoNotBlock == \A r \in Readers : rpc[r] = "loaded" ~> rpc[r] = "idle"

\* When the writers are scheduled, every Append returns.
AppendsReturn == WriterFairness => \A c \in Calls : <>(pc[c] = "done")
=============================================================================

---------------------------- MODULE CowListProofs ----------------------------
(***************************************************************************)
(* Proofs about the copy-on-write list: for any set of Append calls and of *)
(* readers, types are respected, an index finds its own entry, a reader    *)
(* never leaves its array, shared arrays are frozen, and the list          *)
(* implements the append-only log.                                         *)
(***************************************************************************)
EXTENDS CowList, SequenceTheorems, TLAPS

\* The statements of Append between Lock and Unlock.
Inside == {"load", "make", "copy", "fill", "store", "unlock"}

\* Append has allocated its array and not published it.
Building == {"copy", "fill", "store"}

\* Append has published its array.
Landed == {"unlock", "return", "done"}

\* The mutex is held by the one call that is inside.
Exclusive ==
  /\ \A c \in Calls : pc[c] \in Inside <=> mu = c

\* Array a continues array b: it has the entries of b where b has some.
Continues(a, b) ==
  /\ Len(b) <= Len(a)
  /\ \A i \in 1..Len(b) : a[i] = b[i]

\* What the call that holds the mutex knows of the arrays it works on.
Progress ==
  \A c \in Calls :
    /\ pc[c] \in {"make"} \cup Building => list[c] = v
    /\ pc[c] \in Building =>
         /\ newList[c] \in 1..Len(arrays)
         /\ newList[c] # v
         /\ Len(arrays[newList[c]]) = Len(arrays[v]) + 1
         /\ \A r \in Readers : rlist[r] # newList[c]
         /\ \A d \in Calls \ {c} : newList[d] # newList[c]
    /\ pc[c] \in {"fill", "store"} => Continues(arrays[newList[c]], arrays[v])
    /\ pc[c] = "store" => arrays[newList[c]][Len(arrays[newList[c]])] = c

\* A published call is in the list at the place where its array ends; a call
\* that has not published is nowhere in the list.
Places ==
  \A c \in Calls :
    IF pc[c] \in Landed
    THEN /\ newList[c] \in 1..Len(arrays)
         /\ Len(arrays[newList[c]]) \in 1..Len(arrays[v])
         /\ arrays[v][Len(arrays[newList[c]])] = c
         /\ pc[c] = "done" => index[c] = Len(arrays[newList[c]]) - 1
    ELSE \A i \in 1..Len(arrays[v]) : arrays[v][i] # c

\* A reader in Get holds a former or the present list and an answered index.
ReadersHold ==
  \A r \in Readers : rpc[r] = "loaded" =>
    /\ rlist[r] \in 1..Len(arrays)
    /\ Continues(arrays[v], arrays[rlist[r]])
    /\ ridx[r] < Len(arrays[rlist[r]])
    /\ \E c \in Calls : index[c] # -1 /\ ridx[r] = index[c]

IInv == TypeOK /\ Exclusive /\ Progress /\ Places /\ ReadersHold

-----------------------------------------------------------------------------
\* make allocates an array of nils: the fresh array and the ones before it.
LEMMA MadeArray ==
  ASSUME TypeOK, NEW c \in Calls, Make(c), list[c] \in 1..Len(arrays)
  PROVE  /\ arrays' \in Seq(Seq(Entries))
         /\ Len(arrays') = Len(arrays) + 1
         /\ \A a \in 1..Len(arrays) : arrays'[a] = arrays[a]
         /\ newList'[c] = Len(arrays')
         /\ Len(arrays'[newList'[c]]) = Len(arrays[list[c]]) + 1
<1> DEFINE n == Len(arrays[list[c]]) + 1
           fresh == [i \in 1..n |-> Nil]
<1>1. n \in Nat
  BY DEF TypeOK
<1>2. fresh \in Seq(Entries) /\ Len(fresh) = n
  <2>1. fresh \in [1..n -> Entries]
    BY DEF Entries
  <2>2. fresh \in Seq(Entries)
    BY <1>1, <2>1, SeqDef
  <2>3. DOMAIN fresh = 1..n
    OBVIOUS
  <2>4. QED
    BY <1>1, <2>2, <2>3, LenProperties
<1> HIDE DEF fresh, n
<1>3. arrays' = Append(arrays, fresh) /\ newList'[c] = Len(arrays) + 1
  BY DEF Make, TypeOK, fresh, n
<1>4. QED
  BY <1>2, <1>3 DEF TypeOK, n

\* copy writes the entries of the old array over those of the new one.
LEMMA CopiedEntries ==
  ASSUME NEW S, NEW new \in Seq(S), NEW old \in Seq(S)
  PROVE  /\ Copied(new, old) \in Seq(S)
         /\ Len(Copied(new, old)) = Len(new)
         /\ \A i \in 1..Len(new) : i <= Len(old) => Copied(new, old)[i] = old[i]
<1>1. Len(new) \in Nat /\ Len(old) \in Nat
  BY LenProperties
<1>2. Copied(new, old) \in [1..Len(new) -> S]
  BY <1>1, ElementOfSeq DEF Copied
<1>3. Copied(new, old) \in Seq(S)
  BY <1>1, <1>2, SeqDef
<1>4. QED
  BY <1>1, <1>2, <1>3, LenProperties DEF Copied

-----------------------------------------------------------------------------
\* The initial state: one empty array, nobody inside.
LEMMA InitIInv == Init => IInv
<1> SUFFICES ASSUME Init PROVE IInv
  OBVIOUS
<1>1. arrays \in Seq(Seq(Entries)) /\ Len(arrays) = 1 /\ arrays[1] = <<>>
  BY DEF Init
<1>2. TypeOK
  BY <1>1 DEF Init, TypeOK, Steps, Entries
<1>3. Exclusive
  BY CowAssumption DEF Init, Exclusive, Inside
<1>4. Progress /\ Places /\ ReadersHold
  BY <1>1 DEF Init, Progress, Places, ReadersHold, Building, Landed
<1>5. QED
  BY <1>2, <1>3, <1>4 DEF IInv

\* Taking the free mutex.
LEMMA LockStep == ASSUME IInv, NEW c \in Calls, Lock(c) PROVE IInv'
<1> USE DEF IInv, Lock, Step, Unlocked, rvars
<1>1. TypeOK'
  BY DEF TypeOK, Steps, Entries
<1>2. Exclusive'
  BY CowAssumption DEF Exclusive, TypeOK, Inside
<1>3. Progress'
  BY DEF Progress, TypeOK, Building
<1>4. Places'
  BY DEF Places, TypeOK, Landed
<1>5. ReadersHold'
  BY DEF ReadersHold, Continues
<1>6. QED
  BY <1>1, <1>2, <1>3, <1>4, <1>5

\* Loading the published list: it stays the published one while c is inside.
LEMMA LoadStep == ASSUME IInv, NEW c \in Calls, Load(c) PROVE IInv'
<1> USE DEF IInv, Load, Step, rvars
<1>1. TypeOK'
  BY DEF TypeOK, Steps
<1>2. Exclusive'
  BY DEF Exclusive, TypeOK, Inside
<1>3. Progress'
  BY DEF Progress, TypeOK, Building
<1>4. Places'
  BY DEF Places, TypeOK, Landed
<1>5. ReadersHold'
  BY DEF ReadersHold, Continues
<1>6. QED
  BY <1>1, <1>2, <1>3, <1>4, <1>5

\* A step keeps the places of the published calls when it leaves the published
\* list, the lengths of their arrays and what is published alone.
LEMMA PlacesKept ==
  ASSUME TypeOK, Places,
         v' = v, index' = index, arrays'[v] = arrays[v], Len(arrays) <= Len(arrays'),
         Len(arrays') \in Nat,
         \A d \in Calls : pc'[d] \in Landed <=> pc[d] \in Landed,
         \A d \in Calls : pc[d] \in Landed =>
           /\ pc'[d] = pc[d] /\ newList'[d] = newList[d]
           /\ Len(arrays'[newList[d]]) = Len(arrays[newList[d]])
  PROVE  Places'
<1> SUFFICES ASSUME NEW d \in Calls
             PROVE IF pc'[d] \in Landed
                   THEN /\ newList'[d] \in 1..Len(arrays')
                        /\ Len(arrays'[newList'[d]]) \in 1..Len(arrays'[v'])
                        /\ arrays'[v'][Len(arrays'[newList'[d]])] = d
                        /\ pc'[d] = "done" => index'[d] = Len(arrays'[newList'[d]]) - 1
                   ELSE \A i \in 1..Len(arrays'[v']) : arrays'[v'][i] # d
  BY DEF Places, Landed
<1>1. CASE pc[d] \in Landed
  <2>1. newList[d] \in 1..Len(arrays)
    BY <1>1 DEF Places
  <2>2. Len(arrays) \in Nat
    BY LenProperties DEF TypeOK
  <2>3. newList'[d] \in 1..Len(arrays')
    BY <1>1, <2>1, <2>2
  <2>4. pc'[d] \in Landed /\ pc'[d] = pc[d] /\ newList'[d] = newList[d]
        /\ Len(arrays'[newList'[d]]) = Len(arrays[newList[d]]) /\ arrays'[v'] = arrays[v]
    BY <1>1
  <2>5. /\ Len(arrays[newList[d]]) \in 1..Len(arrays[v])
        /\ arrays[v][Len(arrays[newList[d]])] = d
        /\ pc[d] = "done" => index[d] = Len(arrays[newList[d]]) - 1
    BY <1>1 DEF Places
  <2>6. QED
    BY <2>3, <2>4, <2>5
<1>2. CASE pc[d] \notin Landed
  BY <1>2 DEF Places
<1>3. QED
  BY <1>1, <1>2

\* A step of the call that builds, writing its own array only, keeps what is
\* known of all calls and readers.
LEMMA PrivateWrite ==
  ASSUME IInv, NEW c \in Calls, pc[c] \in {"copy", "fill"},
         NEW t \in {"fill", "store"}, pc' = [pc EXCEPT ![c] = t],
         UNCHANGED <<v, list, newList, index, rpc, rlist, ridx>>,
         arrays' \in Seq(Seq(Entries)), Len(arrays') = Len(arrays),
         \A a \in 1..Len(arrays) : Len(arrays'[a]) = Len(arrays[a]),
         \A a \in 1..Len(arrays) : a # newList[c] => arrays'[a] = arrays[a],
         Continues(arrays'[newList[c]], arrays[v]),
         t = "store" => arrays'[newList[c]][Len(arrays'[newList[c]])] = c
  PROVE  Progress' /\ Places' /\ ReadersHold'
<1> USE DEF IInv
<1>1. /\ mu = c /\ list[c] = v
      /\ v \in 1..Len(arrays) /\ newList[c] \in 1..Len(arrays) /\ newList[c] # v
      /\ Len(arrays[newList[c]]) = Len(arrays[v]) + 1
      /\ \A r \in Readers : rlist[r] # newList[c]
      /\ \A d \in Calls \ {c} : newList[d] # newList[c]
  BY DEF Progress, Building, Exclusive, Inside, TypeOK
<1>2. arrays'[v] = arrays[v]
  BY <1>1
<1>3. pc'[c] = t /\ \A d \in Calls \ {c} : pc'[d] = pc[d]
  BY DEF TypeOK
<1>4. \A d \in Calls \ {c} : pc'[d] \notin {"make"} \cup Building
  BY <1>1, <1>3 DEF Exclusive, Inside, Building
<1>5. Progress'
  <2> SUFFICES ASSUME NEW d \in Calls PROVE Progress!(d)'
    BY DEF Progress
  <2>1. CASE d = c
    BY <1>1, <1>2, <1>3, <2>1
  <2>2. CASE d # c
    BY <1>4, <2>2 DEF Building
  <2>3. QED
    BY <2>1, <2>2
<1>6. Places'
  <2>1. Len(arrays) <= Len(arrays') /\ Len(arrays') \in Nat
    BY LenProperties
  <2>2. \A d \in Calls : pc'[d] \in Landed <=> pc[d] \in Landed
    BY <1>3 DEF Landed
  <2>3. \A d \in Calls : pc[d] \in Landed =>
          /\ pc'[d] = pc[d] /\ newList'[d] = newList[d]
          /\ Len(arrays'[newList[d]]) = Len(arrays[newList[d]])
    BY <1>3 DEF Landed, Places
  <2>4. v' = v /\ index' = index /\ TypeOK /\ Places
    OBVIOUS
  <2>5. QED
    BY <1>2, <2>1, <2>2, <2>3, <2>4, PlacesKept
<1>7. ReadersHold'
  <2> SUFFICES ASSUME NEW r \in Readers, rpc[r] = "loaded" PROVE ReadersHold!(r)!2'
    BY DEF ReadersHold
  <2>1. ReadersHold!(r)!2
    BY DEF ReadersHold
  <2>2. arrays'[rlist[r]] = arrays[rlist[r]]
    BY <1>1, <2>1
  <2>3. Continues(arrays'[v'], arrays'[rlist'[r]])
    BY <1>2, <2>1, <2>2 DEF Continues
  <2>4. QED
    BY <2>1, <2>2, <2>3
<1>8. QED
  BY <1>5, <1>6, <1>7

\* Allocating: the new array is unknown to everybody else.
LEMMA MakeStep == ASSUME IInv, NEW c \in Calls, Make(c) PROVE IInv'
<1> USE DEF IInv
<1>1. pc[c] = "make" /\ list[c] = v /\ v \in 1..Len(arrays)
  BY DEF Make, Step, Progress, TypeOK
<1>2. /\ arrays' \in Seq(Seq(Entries))
      /\ Len(arrays') = Len(arrays) + 1
      /\ \A a \in 1..Len(arrays) : arrays'[a] = arrays[a]
      /\ newList'[c] = Len(arrays')
      /\ Len(arrays'[newList'[c]]) = Len(arrays[v]) + 1
  BY <1>1, MadeArray
<1> USE DEF Make, Step, rvars
<1>3. TypeOK'
  <2>1. Len(arrays) \in Nat /\ 0..Len(arrays) \subseteq 0..Len(arrays')
        /\ 1..Len(arrays) \subseteq 1..Len(arrays') /\ Len(arrays') \in 0..Len(arrays')
    BY <1>1, <1>2
  <2>2. newList' = [newList EXCEPT ![c] = Len(arrays')]
    BY <1>2
  <2>3. /\ list' \in [Calls -> 0..Len(arrays')]
        /\ newList' \in [Calls -> 0..Len(arrays')]
        /\ rlist' \in [Readers -> 0..Len(arrays')]
    BY <2>1, <2>2 DEF TypeOK
  <2>4. pc' \in [Calls -> Steps] /\ \A d \in Calls : pc'[d] = "done" <=> index'[d] # -1
    BY <1>1 DEF TypeOK, Steps
  <2>5. QED
    BY <1>1, <1>2, <2>1, <2>3, <2>4 DEF TypeOK
<1>4. Exclusive'
  BY DEF Exclusive, TypeOK, Inside
<1>5. Progress'
  BY <1>1, <1>2 DEF Progress, TypeOK, Building, Continues, Exclusive, Inside
<1>6. Places'
  <2>1. arrays'[v] = arrays[v] /\ Len(arrays) <= Len(arrays') /\ Len(arrays') \in Nat
    BY <1>1, <1>2, LenProperties DEF TypeOK
  <2>2. \A d \in Calls : pc'[d] \in Landed <=> pc[d] \in Landed
    BY <1>1 DEF TypeOK, Landed
  <2>3. \A d \in Calls : pc[d] \in Landed => pc'[d] = pc[d] /\ newList'[d] = newList[d]
    BY <1>1 DEF TypeOK, Landed
  <2>4. \A d \in Calls : pc[d] \in Landed => newList[d] \in 1..Len(arrays)
    BY DEF Places
  <2>5. \A d \in Calls : pc[d] \in Landed =>
          Len(arrays'[newList[d]]) = Len(arrays[newList[d]])
    BY <1>2, <2>4
  <2>6. v' = v /\ index' = index /\ TypeOK /\ Places
    OBVIOUS
  <2>7. QED
    BY <2>1, <2>2, <2>3, <2>5, <2>6, PlacesKept
<1>7. ReadersHold'
  <2> SUFFICES ASSUME NEW r \in Readers, rpc[r] = "loaded" PROVE ReadersHold!(r)!2'
    BY DEF ReadersHold
  <2>1. ReadersHold!(r)!2
    BY DEF ReadersHold
  <2>2. /\ arrays'[rlist[r]] = arrays[rlist[r]] /\ arrays'[v] = arrays[v]
        /\ rlist[r] \in 1..Len(arrays')
    BY <1>1, <1>2, <2>1 DEF TypeOK
  <2>3. Continues(arrays'[v'], arrays'[rlist'[r]])
    BY <2>1, <2>2 DEF Continues
  <2>4. QED
    BY <2>1, <2>2, <2>3
<1>8. QED
  BY <1>3, <1>4, <1>5, <1>6, <1>7

\* Copying into the private array: afterwards it continues the published one.
LEMMA CopyStep == ASSUME IInv, NEW c \in Calls, Copy(c) PROVE IInv'
<1> USE DEF IInv
<1> DEFINE k == newList[c]
<1>1. /\ pc[c] = "copy" /\ k \in 1..Len(arrays) /\ list[c] = v /\ k # v
      /\ arrays \in Seq(Seq(Entries)) /\ arrays[k] \in Seq(Entries)
      /\ arrays[v] \in Seq(Entries) /\ Len(arrays[k]) = Len(arrays[v]) + 1
  BY DEF Copy, Step, Progress, TypeOK, Building
<1> DEFINE new == Copied(arrays[k], arrays[v])
<1>2. /\ new \in Seq(Entries) /\ Len(new) = Len(arrays[k])
      /\ Continues(new, arrays[v])
  <2>1. Len(arrays[k]) \in Nat /\ Len(arrays[v]) \in Nat
    BY <1>1, LenProperties
  <2> HIDE DEF k
  <2>2. /\ new \in Seq(Entries) /\ Len(new) = Len(arrays[k])
        /\ \A i \in 1..Len(arrays[k]) : i <= Len(arrays[v]) => new[i] = arrays[v][i]
    BY ONLY <1>1, CopiedEntries
  <2> HIDE DEF new
  <2>3. QED
    BY ONLY <1>1, <2>1, <2>2 DEF Continues
<1>a. arrays' = [arrays EXCEPT ![k] = new]
  BY <1>1 DEF Copy
<1> HIDE DEF k, new
<1>3. /\ arrays' \in Seq(Seq(Entries))
      /\ Len(arrays') = Len(arrays)
      /\ \A a \in 1..Len(arrays) : a # k => arrays'[a] = arrays[a]
      /\ arrays'[k] = new
  BY <1>1, <1>2, <1>a, ExceptSeq
<1>4. \A a \in 1..Len(arrays) : Len(arrays'[a]) = Len(arrays[a])
  BY <1>1, <1>2, <1>3
<1> USE DEF Copy, Step, rvars
<1>5. TypeOK'
  BY <1>1, <1>3 DEF TypeOK, Steps
<1>6. Exclusive'
  BY DEF Exclusive, TypeOK, Inside
<1>7. Continues(arrays'[newList[c]], arrays[v]) /\ pc' = [pc EXCEPT ![c] = "fill"]
  BY <1>2, <1>3 DEF k
<1>8. Progress' /\ Places' /\ ReadersHold'
  BY <1>1, <1>3, <1>4, <1>7, PrivateWrite DEF k
<1>9. QED
  BY <1>5, <1>6, <1>8

\* Filling the last place of the private array.
LEMMA FillStep == ASSUME IInv, NEW c \in Calls, Fill(c) PROVE IInv'
<1> USE DEF IInv
<1> DEFINE k == newList[c]
<1>1. /\ pc[c] = "fill" /\ k \in 1..Len(arrays) /\ list[c] = v /\ k # v
      /\ arrays \in Seq(Seq(Entries)) /\ arrays[k] \in Seq(Entries)
      /\ arrays[v] \in Seq(Entries) /\ Len(arrays[k]) = Len(arrays[v]) + 1
  BY DEF Fill, Step, Progress, TypeOK, Building
<1> DEFINE new == [arrays[k] EXCEPT ![Len(arrays[k])] = c]
<1>2. /\ new \in Seq(Entries) /\ Len(new) = Len(arrays[k])
      /\ new[Len(new)] = c /\ Continues(new, arrays[v])
  <2>1. Len(arrays[k]) \in 1..Len(arrays[k]) /\ c \in Entries
    BY <1>1 DEF Entries
  <2>2. Continues(arrays[k], arrays[v])
    BY DEF Progress, Fill, Step
  <2> HIDE DEF k
  <2>3. /\ new \in Seq(Entries) /\ Len(new) = Len(arrays[k]) /\ new[Len(arrays[k])] = c
        /\ \A i \in 1..Len(arrays[k]) : i # Len(arrays[k]) => new[i] = arrays[k][i]
    BY ONLY <1>1, <2>1, ExceptSeq
  <2>4. Len(arrays[v]) \in Nat
    BY <1>1, LenProperties
  <2> HIDE DEF new
  <2>5. \A i \in 1..Len(arrays[v]) : new[i] = arrays[v][i]
    BY ONLY <1>1, <2>2, <2>3, <2>4 DEF Continues
  <2>6. Len(arrays[v]) <= Len(new) /\ new[Len(new)] = c
    BY ONLY <1>1, <2>3, <2>4
  <2>7. QED
    BY ONLY <2>3, <2>5, <2>6 DEF Continues
<1>a. arrays' = [arrays EXCEPT ![k] = new]
  BY <1>1 DEF Fill
<1> HIDE DEF k, new
<1>3. /\ arrays' \in Seq(Seq(Entries))
      /\ Len(arrays') = Len(arrays)
      /\ \A a \in 1..Len(arrays) : a # k => arrays'[a] = arrays[a]
      /\ arrays'[k] = new
  BY <1>1, <1>2, <1>a, ExceptSeq
<1>4. \A a \in 1..Len(arrays) : Len(arrays'[a]) = Len(arrays[a])
  BY <1>1, <1>2, <1>3
<1> USE DEF Fill, Step, rvars
<1>5. TypeOK'
  BY <1>1, <1>3 DEF TypeOK, Steps
<1>6. Exclusive'
  BY DEF Exclusive, TypeOK, Inside
<1>7. /\ Continues(arrays'[newList[c]], arrays[v]) /\ pc' = [pc EXCEPT ![c] = "store"]
      /\ arrays'[newList[c]][Len(arrays'[newList[c]])] = c
  BY <1>2, <1>3 DEF k
<1>8. Progress' /\ Places' /\ ReadersHold'
  BY <1>1, <1>3, <1>4, <1>7, PrivateWrite DEF k
<1>9. QED
  BY <1>5, <1>6, <1>8

\* Publishing: the list grows by the entry of c, and all else stays in place.
LEMMA StoreStep == ASSUME IInv, NEW c \in Calls, Store(c) PROVE IInv'
<1> USE DEF IInv
<1>1. /\ pc[c] = "store" /\ newList[c] \in 1..Len(arrays) /\ mu = c
      /\ Len(arrays[newList[c]]) = Len(arrays[v]) + 1
      /\ Continues(arrays[newList[c]], arrays[v])
      /\ arrays[newList[c]][Len(arrays[v]) + 1] = c
  BY DEF Store, Step, Progress, TypeOK, Building, Exclusive, Inside
<1>2. v' = newList[c] /\ arrays' = arrays /\ newList' = newList
  BY DEF Store
<1>3. \A d \in Calls : d # c => pc[d] \notin {"make"} \cup Building
  BY <1>1 DEF Exclusive, Inside, Building
<1> USE DEF Store, Step, rvars
<1>4. TypeOK'
  BY <1>1 DEF TypeOK, Steps
<1>5. Exclusive'
  BY DEF Exclusive, TypeOK, Inside
<1>6. Progress'
  BY <1>1, <1>2, <1>3 DEF Progress, TypeOK, Building
<1>a. /\ Len(arrays[v]) \in Nat /\ Len(arrays'[v']) = Len(arrays[v]) + 1
      /\ \A i \in 1..Len(arrays[v]) : arrays'[v'][i] = arrays[v][i]
      /\ arrays'[v'][Len(arrays[v]) + 1] = c
  BY <1>1, <1>2 DEF TypeOK, Continues
<1>7. Places'
  <2> SUFFICES ASSUME NEW d \in Calls PROVE Places!(d)'
    BY DEF Places
  <2>1. CASE d = c
    <3>1. pc'[c] = "unlock" /\ arrays'[newList'[c]] = arrays'[v'] /\ newList'[c] \in 1..Len(arrays')
      BY <1>1, <1>2 DEF TypeOK
    <3>2. /\ Len(arrays'[v']) \in 1..Len(arrays'[v'])
          /\ arrays'[v'][Len(arrays'[v'])] = c
      BY <1>a
    <3>3. QED
      BY <2>1, <3>1, <3>2 DEF Landed
  <2>a. ASSUME d # c PROVE pc'[d] = pc[d] /\ newList'[d] = newList[d] /\ index'[d] = index[d]
    BY <2>a DEF TypeOK
  <2>2. CASE d # c /\ pc[d] \in Landed
    <3>1. /\ newList[d] \in 1..Len(arrays)
          /\ Len(arrays[newList[d]]) \in 1..Len(arrays[v])
          /\ arrays[v][Len(arrays[newList[d]])] = d
          /\ pc[d] = "done" => index[d] = Len(arrays[newList[d]]) - 1
      BY <2>2 DEF Places
    <3>2. Len(arrays[newList[d]]) \in 1..Len(arrays'[v'])
      BY <1>a, <3>1
    <3>3. arrays'[v'][Len(arrays[newList[d]])] = d
      BY <1>a, <3>1
    <3>4. QED
      BY <1>2, <2>2, <2>a, <3>1, <3>2, <3>3
  <2>3. CASE d # c /\ pc[d] \notin Landed
    <3>1. \A i \in 1..Len(arrays[v]) : arrays[v][i] # d
      BY <2>3 DEF Places
    <3>2. \A i \in 1..Len(arrays'[v']) : i \in 1..Len(arrays[v]) \/ i = Len(arrays[v]) + 1
      BY <1>a
    <3>3. \A i \in 1..Len(arrays'[v']) : arrays'[v'][i] # d
      BY <1>a, <2>3, <3>1, <3>2
    <3>4. QED
      BY <2>3, <2>a, <3>3
  <2>4. QED
    BY <2>1, <2>2, <2>3
<1>8. ReadersHold'
  <2> SUFFICES ASSUME NEW r \in Readers, rpc[r] = "loaded" PROVE ReadersHold!(r)!2'
    BY DEF ReadersHold
  <2>1. /\ rlist[r] \in 1..Len(arrays) /\ Len(arrays[rlist[r]]) \in Nat
        /\ Len(arrays[rlist[r]]) <= Len(arrays[v])
        /\ \A i \in 1..Len(arrays[rlist[r]]) : arrays[v][i] = arrays[rlist[r]][i]
    BY DEF ReadersHold, Continues, TypeOK
  <2>2. Continues(arrays'[v'], arrays'[rlist'[r]])
    BY <1>1, <1>2, <1>a, <2>1 DEF Continues
  <2>3. QED
    BY <1>2, <2>1, <2>2 DEF ReadersHold
<1>9. QED
  BY <1>4, <1>5, <1>6, <1>7, <1>8

\* Releasing the mutex.
LEMMA UnlockStep == ASSUME IInv, NEW c \in Calls, Unlock(c) PROVE IInv'
<1> USE DEF IInv, Unlock, Step, rvars
<1>1. TypeOK'
  BY DEF TypeOK, Steps, Entries
<1>2. Exclusive'
  BY CowAssumption DEF Exclusive, TypeOK, Inside
<1>3. Progress'
  BY DEF Progress, TypeOK, Building
<1>4. Places'
  BY DEF Places, TypeOK, Landed
<1>5. ReadersHold'
  BY DEF ReadersHold, Continues
<1>6. QED
  BY <1>1, <1>2, <1>3, <1>4, <1>5

\* Answering the index of the last place of the array c built.
LEMMA ReturnStep == ASSUME IInv, NEW c \in Calls, Return(c) PROVE IInv'
<1> USE DEF IInv
<1>1. pc[c] = "return" /\ Len(arrays[newList[c]]) \in 1..Len(arrays[v]) /\ index[c] = -1
  BY DEF Return, Step, Places, Landed, TypeOK
<1>2. LastIndex(c) \in Nat
  BY <1>1 DEF LastIndex, TypeOK
<1> USE DEF Return, Step, rvars
<1>3. TypeOK'
  <2>1. pc' \in [Calls -> Steps] /\ index' \in [Calls -> Nat \cup {-1}]
    BY <1>2 DEF TypeOK, Steps
  <2>2. \A d \in Calls : pc'[d] = "done" <=> index'[d] # -1
    BY <1>2 DEF TypeOK
  <2>3. QED
    BY <2>1, <2>2 DEF TypeOK
<1>4. Exclusive'
  BY DEF Exclusive, TypeOK, Inside
<1>5. Progress'
  BY DEF Progress, TypeOK, Building
<1>6. Places'
  BY <1>1 DEF Places, TypeOK, Landed, LastIndex
<1>7. ReadersHold'
  BY <1>1 DEF ReadersHold, Continues, TypeOK
<1>8. QED
  BY <1>3, <1>4, <1>5, <1>6, <1>7

\* A reader loads the published list; its index is one that was answered.
LEMMA GetLoadStep ==
  ASSUME IInv, NEW r \in Readers, NEW c \in Calls, index[c] # -1, GetLoad(r, index[c])
  PROVE  IInv'
<1> USE DEF IInv
<1>1. pc[c] = "done" /\ index[c] \in Nat
  BY DEF TypeOK
<1>a. index[c] < Len(arrays[v])
  <2>1. /\ Len(arrays[newList[c]]) \in 1..Len(arrays[v]) /\ Len(arrays[v]) \in Nat
        /\ index[c] = Len(arrays[newList[c]]) - 1
    BY <1>1 DEF Places, Landed, TypeOK
  <2>2. QED
    BY <2>1
<1> USE DEF GetLoad, wvars
<1>2. TypeOK'
  BY <1>1 DEF TypeOK
<1>3. Exclusive'
  BY DEF Exclusive
<1>4. Progress'
  BY DEF Progress, TypeOK, Building
<1>5. Places'
  BY DEF Places
<1>6. ReadersHold'
  <2> SUFFICES ASSUME NEW q \in Readers, rpc'[q] = "loaded" PROVE ReadersHold!(q)!2'
    BY DEF ReadersHold
  <2>1. CASE q = r
    <3>1. rlist'[q] = v /\ ridx'[q] = index[c] /\ v \in 1..Len(arrays)
      BY <2>1 DEF TypeOK
    <3>2. Len(arrays[v]) \in Nat
      BY DEF TypeOK
    <3>3. Continues(arrays[v], arrays[v])
      BY <3>2 DEF Continues
    <3>4. QED
      BY <1>a, <3>1, <3>3
  <2>2. CASE q # r
    <3>1. rpc[q] = "loaded" /\ rlist'[q] = rlist[q] /\ ridx'[q] = ridx[q]
      BY <2>2 DEF TypeOK
    <3>2. QED
      BY <3>1 DEF ReadersHold, Continues
  <2>3. QED
    BY <2>1, <2>2
<1>7. QED
  BY <1>2, <1>3, <1>4, <1>5, <1>6

\* A reader indexes the list it loaded.
LEMMA GetIndexStep == ASSUME IInv, NEW r \in Readers, GetIndex(r) PROVE IInv'
<1> USE DEF IInv
<1>1. /\ rlist[r] \in 1..Len(arrays) /\ ridx[r] \in Nat
      /\ ridx[r] < Len(arrays[rlist[r]])
  BY DEF ReadersHold, GetIndex, TypeOK
<1>2. arrays[rlist[r]][ridx[r] + 1] \in Entries
  BY <1>1 DEF TypeOK
<1> USE DEF GetIndex, wvars
<1>3. TypeOK'
  BY <1>1, <1>2 DEF TypeOK
<1>4. Exclusive'
  BY DEF Exclusive
<1>5. Progress'
  BY DEF Progress
<1>6. Places'
  BY DEF Places
<1>7. ReadersHold'
  BY DEF ReadersHold, TypeOK
<1>8. QED
  BY <1>3, <1>4, <1>5, <1>6, <1>7

\* The invariant is inductive: one case per statement of Append and of Get.
LEMMA NextIInv == IInv /\ [Next]_vars => IInv'
<1> SUFFICES ASSUME IInv, [Next]_vars PROVE IInv'
  OBVIOUS
<1>1. ASSUME NEW c \in Calls, AppendStep(c) PROVE IInv'
  BY <1>1, LockStep, LoadStep, MakeStep, CopyStep, FillStep, StoreStep, UnlockStep,
     ReturnStep DEF AppendStep
<1>2. ASSUME NEW r \in Readers, NEW c \in Calls, index[c] # -1, GetLoad(r, index[c])
      PROVE IInv'
  BY <1>2, GetLoadStep
<1>3. ASSUME NEW r \in Readers, GetIndex(r) PROVE IInv'
  BY <1>3, GetIndexStep
<1>4. CASE UNCHANGED vars
  BY <1>4 DEF vars, wvars, rvars, IInv, TypeOK, Exclusive, Progress, Places, ReadersHold,
     Continues
<1>5. QED
  BY <1>1, <1>2, <1>3, <1>4 DEF Next

\* The inductive invariant holds in every reachable state.
THEOREM Invariance == Spec => []IInv
  BY InitIInv, NextIInv, PTL DEF Spec

-----------------------------------------------------------------------------
\* Every variable keeps its type, for any number of calls and readers.
THEOREM TypeCorrect == Spec => []TypeOK
  BY Invariance, PTL DEF IInv

\* The index an Append returned finds that call's entry, for ever.
LEMMA IInvOwnIndex == IInv => OwnIndex
<1> SUFFICES ASSUME IInv, NEW c \in Calls, index[c] # -1 PROVE OwnIndex!(c)!2
  BY DEF OwnIndex
<1>1. /\ Len(arrays[newList[c]]) \in 1..Len(arrays[v]) /\ Len(arrays[v]) \in Nat
      /\ arrays[v][Len(arrays[newList[c]])] = c
      /\ index[c] = Len(arrays[newList[c]]) - 1
  BY DEF IInv, TypeOK, Places, Landed
<1>2. QED
  BY <1>1

\* The index an Append returned goes on finding that call's entry, whatever
\* other goroutines append afterwards.
THEOREM OwnIndexAlways == Spec => []OwnIndex
  BY Invariance, IInvOwnIndex, PTL

\* A reader between load and index never panics and sees the current entry.
LEMMA IInvGetSeesEntry == IInv => GetSeesEntry
<1> SUFFICES ASSUME IInv, NEW r \in Readers, rpc[r] = "loaded" PROVE GetSeesEntry!(r)!2
  BY DEF GetSeesEntry
<1>1. /\ ridx[r] \in Nat /\ ridx[r] < Len(arrays[rlist[r]])
      /\ Len(arrays[rlist[r]]) \in Nat
      /\ Continues(arrays[v], arrays[rlist[r]])
  BY DEF IInv, TypeOK, ReadersHold
<1>2. ridx[r] + 1 \in 1..Len(arrays[rlist[r]])
  BY <1>1
<1>3. QED
  BY <1>1, <1>2 DEF Continues

\* Get without the mutex is never out of range and never behind the list.
THEOREM GetSeesEntryAlways == Spec => []GetSeesEntry
  BY Invariance, IInvGetSeesEntry, PTL

\* No step writes an array a reader can reach: copy and assignment go to an
\* array that only the writer knows.
THEOREM SharedFrozenAlways == Spec => SharedFrozen
<1> DEFINE Reach == {v} \cup {rlist[r] : r \in {x \in Readers : rpc[x] = "loaded"}}
           Frozen == \A a \in Reach : arrays'[a] = arrays[a]
<1>1. IInv /\ [Next]_vars => [Frozen]_vars
  <2> SUFFICES ASSUME IInv, Next, NEW a \in Reach PROVE arrays'[a] = arrays[a]
    OBVIOUS
  <2>1. a \in 1..Len(arrays)
    BY DEF IInv, TypeOK, ReadersHold
  <2>2. ASSUME NEW c \in Calls, Make(c) PROVE arrays'[a] = arrays[a]
    BY <2>1, <2>2, MadeArray DEF IInv, Make, Step, Progress, TypeOK
  <2>3. ASSUME NEW c \in Calls, Copy(c) \/ Fill(c) PROVE arrays'[a] = arrays[a]
    <3>1. newList[c] # a
      BY <2>3 DEF IInv, Progress, Building, Copy, Fill, Step
    <3>2. QED
      BY <2>1, <2>3, <3>1 DEF Copy, Fill, IInv, TypeOK
  <2>4. QED
    BY <2>2, <2>3 DEF Next, AppendStep, Lock, Load, Store, Unlock, Return, GetLoad, GetIndex
<1>2. QED
  BY <1>1, Invariance, PTL DEF Spec, SharedFrozen

-----------------------------------------------------------------------------
\* Store is where an append takes effect: the entry of c becomes the last one.
LEMMA StoreAdds == ASSUME IInv, NEW c \in Calls, Store(c) PROVE Log!Add(c)
<1>1. /\ pc[c] = "store" /\ newList[c] \in 1..Len(arrays)
      /\ arrays[v] \in Seq(Entries) /\ arrays[newList[c]] \in Seq(Entries)
      /\ Len(arrays[newList[c]]) = Len(arrays[v]) + 1
      /\ Continues(arrays[newList[c]], arrays[v])
      /\ arrays[newList[c]][Len(arrays[v]) + 1] = c
  BY DEF IInv, Store, Step, Progress, TypeOK, Building
<1>2. arrays' = arrays /\ v' = newList[c] /\ UNCHANGED <<index, got>>
  BY DEF Store, rvars
<1>3. arrays[newList[c]] = Append(arrays[v], c)
  <2>1. /\ Append(arrays[v], c) \in Seq(Entries)
        /\ Len(Append(arrays[v], c)) = Len(arrays[v]) + 1
        /\ Len(arrays[v]) \in Nat
    BY <1>1 DEF Entries
  <2>2. \A i \in 1..Len(arrays[v]) + 1 :
          Append(arrays[v], c)[i] = arrays[newList[c]][i]
    BY <1>1, <2>1 DEF Continues
  <2>3. QED
    BY <1>1, <2>1, <2>2, SeqEqual
<1>4. \A i \in 1..Len(arrays[v]) : arrays[v][i] # c
  BY <1>1 DEF IInv, Places, Landed
<1>5. QED
  BY <1>2, <1>3, <1>4 DEF Log!Add

\* Return answers the place of the entry.
LEMMA ReturnAnswers == ASSUME IInv, NEW c \in Calls, Return(c) PROVE Log!Answer(c)
<1>1. /\ index[c] = -1
      /\ Len(arrays[newList[c]]) \in 1..Len(arrays[v])
      /\ arrays[v][Len(arrays[newList[c]])] = c
  BY DEF IInv, TypeOK, Return, Step, Places, Landed
<1>2. QED
  BY <1>1 DEF Log!Answer, Return, LastIndex, rvars

\* Get's index expression answers what the log has at that position now.
LEMMA GetLooksUp ==
  ASSUME IInv, NEW r \in Readers, GetIndex(r)
  PROVE  \E c \in Calls : Log!Lookup(r, c)
<1>1. rpc[r] = "loaded"
  BY DEF GetIndex
<1>2. PICK c \in Calls : index[c] # -1 /\ ridx[r] = index[c]
  BY <1>1 DEF IInv, ReadersHold
<1>3. /\ ridx[r] < Len(arrays[rlist[r]])
      /\ arrays[rlist[r]][ridx[r] + 1] = arrays[v][ridx[r] + 1]
  BY <1>1, IInvGetSeesEntry DEF GetSeesEntry
<1>4. Log!Lookup(r, c)
  BY <1>2, <1>3 DEF Log!Lookup, GetIndex, wvars
<1>5. QED
  BY <1>4

\* Every other step leaves the published list, the answers and the results
\* alone: it writes at most a private array.
LEMMA OthersStutter ==
  ASSUME IInv,
         \/ UNCHANGED vars
         \/ \E c \in Calls : \/ Lock(c) \/ Load(c) \/ Make(c) \/ Copy(c)
                           \/ Fill(c) \/ Unlock(c)
         \/ \E r \in Readers, i \in Nat \cup {-1} : GetLoad(r, i)
  PROVE  UNCHANGED Log!vars
<1> USE DEF Log!vars, vars, wvars, rvars
<1>1. v \in 1..Len(arrays)
  BY DEF IInv, TypeOK
<1>2. ASSUME NEW c \in Calls, Make(c) PROVE UNCHANGED Log!vars
  <2>1. arrays'[v] = arrays[v]
    BY <1>1, <1>2, MadeArray DEF IInv, Make, Step, Progress, TypeOK
  <2>2. QED
    BY <1>2, <2>1 DEF Make
<1>3. ASSUME NEW c \in Calls, Copy(c) \/ Fill(c) PROVE UNCHANGED Log!vars
  <2>1. newList[c] # v
    BY <1>3 DEF IInv, Progress, Building, Copy, Fill, Step
  <2>2. arrays'[v] = arrays[v]
    BY <1>1, <1>3, <2>1 DEF Copy, Fill, IInv, TypeOK
  <2>3. QED
    BY <1>3, <2>2 DEF Copy, Fill
<1>4. QED
  BY <1>2, <1>3 DEF Lock, Load, Unlock, GetLoad

\* The copy-on-write list implements the append-only log.
THEOREM Refinement == Spec => ImplementsLog
<1>1. Init => Log!Init
  BY DEF Init, Log!Init
<1>2. IInv /\ [Next]_vars => [Log!Next]_Log!vars
  <2> SUFFICES ASSUME IInv, [Next]_vars PROVE Log!Next \/ UNCHANGED Log!vars
    OBVIOUS
  <2>1. ASSUME NEW c \in Calls, Store(c) PROVE Log!Next
    BY <2>1, StoreAdds DEF Log!Next
  <2>2. ASSUME NEW c \in Calls, Return(c) PROVE Log!Next
    BY <2>2, ReturnAnswers DEF Log!Next
  <2>3. ASSUME NEW r \in Readers, GetIndex(r) PROVE Log!Next
    BY <2>3, GetLooksUp DEF Log!Next
  <2>4. ASSUME NEW r \in Readers, NEW c \in Calls, GetLoad(r, index[c])
        PROVE  UNCHANGED Log!vars
    <3>1. index[c] \in Nat \cup {-1}
      BY DEF IInv, TypeOK
    <3>2. QED
      BY <2>4, <3>1, OthersStutter
  <2>5. QED
    BY <2>1, <2>2, <2>3, <2>4, OthersStutter DEF Next, AppendStep
<1>3. QED
  BY <1>1, <1>2, Invariance, PTL DEF Spec, ImplementsLog, Log!Spec

-----------------------------------------------------------------------------
(* Progress, one thread at a time.  The provers know neither ENABLED nor    *)
(* the instances of a quantified fairness condition: a theorem is about one *)
(* thread, and has as a hypothesis where its step can be taken.            *)

\* A thread inside Get, scheduled, returns: no writer need move.
THEOREM GetReturns ==
  ASSUME NEW r \in Readers
  PROVE  /\ Spec /\ WF_vars(GetIndex(r))
         /\ [](rpc[r] = "loaded" => ENABLED <<GetIndex(r)>>_vars)
         => (rpc[r] = "loaded" ~> rpc[r] = "idle")
<1>1. TypeOK => rpc[r] = "loaded" \/ rpc[r] = "idle"
  BY DEF TypeOK
<1>2. TypeOK /\ <<GetIndex(r)>>_vars => (rpc[r] = "idle")'
  BY DEF TypeOK, GetIndex
<1>3. QED
  BY <1>1, <1>2, TypeCorrect, PTL

\* A step of Append takes its call from one statement to the next.
LEMMA Statements ==
  ASSUME TypeOK, NEW c \in Calls, AppendStep(c)
  PROVE  /\ pc[c] = "load" => pc'[c] = "make"
         /\ pc[c] = "make" => pc'[c] = "copy"
         /\ pc[c] = "copy" => pc'[c] = "fill"
         /\ pc[c] = "fill" => pc'[c] = "store"
         /\ pc[c] = "store" => pc'[c] = "unlock"
         /\ pc[c] = "unlock" => pc'[c] = "return"
         /\ pc[c] = "return" => pc'[c] = "done"
BY DEF TypeOK, AppendStep, Lock, Load, Make, Copy, Fill, Store, Unlock, Return, Step

\* Only its own steps move a call.
LEMMA OthersLeavePc ==
  ASSUME TypeOK, NEW c \in Calls, [Next]_vars
  PROVE  pc'[c] = pc[c] \/ AppendStep(c)
<1>1. ASSUME NEW d \in Calls, d # c, AppendStep(d) PROVE pc'[c] = pc[c]
  BY <1>1 DEF TypeOK, AppendStep, Lock, Load, Make, Copy, Fill, Store, Unlock, Return, Step
<1>2. ASSUME NEW r \in Readers, NEW i, GetLoad(r, i) \/ GetIndex(r) PROVE pc' = pc
  BY <1>2 DEF GetLoad, GetIndex, wvars
<1>3. QED
  BY <1>1, <1>2 DEF Next, vars, wvars

\* A call that has the mutex, scheduled, gives it back and returns, whatever
\* the readers and the calls that wait do.
THEOREM HolderReturns ==
  ASSUME NEW c \in Calls
  PROVE  /\ Spec /\ WF_vars(AppendStep(c))
         /\ [](pc[c] \in Inside \cup {"return"} => ENABLED <<AppendStep(c)>>_vars)
         => (mu = c ~> mu = Nil) /\ (mu = c ~> pc[c] = "done")
<1>1. IInv => (mu = c => \/ pc[c] = "load" \/ pc[c] = "make" \/ pc[c] = "copy" \/ pc[c] = "fill"
                         \/ pc[c] = "store" \/ pc[c] = "unlock")
  BY DEF IInv, Exclusive, Inside
<1>2. /\ IInv /\ <<AppendStep(c)>>_vars => (pc[c] = "unlock" => (mu = Nil)')
      /\ IInv /\ [Next]_vars => (pc[c] = "unlock" => (pc[c] = "unlock")' \/ (mu = Nil)')
  <2>1. ASSUME AppendStep(c), pc[c] = "unlock" PROVE mu' = Nil
    BY <2>1 DEF AppendStep, Lock, Load, Make, Copy, Fill, Store, Unlock, Return, Step
  <2>2. QED
    BY <2>1, OthersLeavePc DEF IInv
<1>3. \/ pc[c] = "load" \/ pc[c] = "make" \/ pc[c] = "copy" \/ pc[c] = "fill"
      \/ pc[c] = "store" \/ pc[c] = "unlock" \/ pc[c] = "return"
      => pc[c] \in Inside \cup {"return"}
  BY DEF Inside
<1>4. IInv /\ [Next]_vars =>
        /\ pc[c] = "load" => (pc[c] = "load")' \/ (pc[c] = "make")'
        /\ pc[c] = "make" => (pc[c] = "make")' \/ (pc[c] = "copy")'
        /\ pc[c] = "copy" => (pc[c] = "copy")' \/ (pc[c] = "fill")'
        /\ pc[c] = "fill" => (pc[c] = "fill")' \/ (pc[c] = "store")'
        /\ pc[c] = "store" => (pc[c] = "store")' \/ (pc[c] = "unlock")'
        /\ pc[c] = "unlock" => (pc[c] = "unlock")' \/ (pc[c] = "return")'
        /\ pc[c] = "return" => (pc[c] = "return")' \/ (pc[c] = "done")'
  BY Statements, OthersLeavePc DEF IInv
<1>5. IInv /\ <<AppendStep(c)>>_vars =>
        /\ pc[c] = "load" => (pc[c] = "make")'
        /\ pc[c] = "make" => (pc[c] = "copy")'
        /\ pc[c] = "copy" => (pc[c] = "fill")'
        /\ pc[c] = "fill" => (pc[c] = "store")'
        /\ pc[c] = "store" => (pc[c] = "unlock")'
        /\ pc[c] = "unlock" => (pc[c] = "return")'
        /\ pc[c] = "return" => (pc[c] = "done")'
  BY Statements DEF IInv
<1>6. QED
  BY <1>1, <1>2, <1>3, <1>4, <1>5, Invariance, PTL DEF Spec
=============================================================================

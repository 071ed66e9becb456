------------------------ MODULE RangeTombstonesProofs ------------------------
(***************************************************************************)
(* For any number of calls, files, versions and goroutines: the iterator   *)
(* over a list of tombstones, the calls that list them, and both together. *)
(***************************************************************************)
EXTENDS RangeTombstones, DataInduction, SequenceTheorems

(***************************************************************************)
(* The iterator.  Next neither repeats a tombstone nor leaves one out, and *)
(* the iterator implements the feed: the mutex lets one call at a time     *)
(* near the cursor, what it has loaded is still the cursor when it checks  *)
(* it, and the place it then takes is below the cursor, where no other     *)
(* call can take it.                                                       *)
(***************************************************************************)

\* The statements of Next between Lock and Unlock.
Inside == {"load", "check", "unlock"}

\* The mutex is held by the one call that is inside.
Exclusive == \A r \in Readers : pc[r] \in Inside <=> mu = r

\* What a call knows of the cursor, and of the place it has taken.
Taken(r) ==
  /\ pc[r] = "check" => mine[r] = cur
  /\ pc[r] = "read" => ok[r]
  /\ ok[r] => pc[r] \in {"unlock", "read", "return"} /\ mine[r] < cur
  /\ ok[r] /\ pc[r] = "return" => result[r] = listed[mine[r] + 1]

\* The native list is the one the iterator was made for, until Close, which
\* happens outside Next.
ListKept ==
  /\ size = Len(listed)
  /\ c # Nil => c = listed
  /\ c = Nil => \A r \in Readers : pc[r] = "out"

IInv ==
  /\ IteratorTypeOK
  /\ Exclusive
  /\ \A r \in Readers : Taken(r)
  /\ ListKept
  /\ DeliveredOnce

-----------------------------------------------------------------------------

\* Before the iterator is made, nothing has been handed out.
LEMMA InitIInv == IteratorInit => IInv
<1> SUFFICES ASSUME IteratorInit PROVE IInv
  OBVIOUS
<1>1. listed = <<>> /\ Len(listed) = 0 /\ given \in [1..Len(listed) -> Nat]
      /\ listed \in Seq(Tombstones)
  BY DEF IteratorInit
<1>2. IteratorTypeOK
  BY <1>1 DEF IteratorInit, IteratorTypeOK, Steps
<1>3. DeliveredOnce
  BY <1>1 DEF DeliveredOnce
<1>4. Exclusive /\ ListKept /\ \A r \in Readers : Taken(r)
  BY <1>1, IteratorAssumption DEF IteratorInit, Exclusive, Inside, ListKept, Taken
<1>5. QED
  BY <1>2, <1>3, <1>4 DEF IInv

\* A new iterator is at the start of its list; no call is running yet.
LEMMA NewStep ==
  ASSUME IInv, NEW l \in Seq(Tombstones), NewRangeTombstoneIterator(l)
  PROVE  IInv'
<1> USE DEF IInv
<1>1. /\ listed' = l /\ c' = l /\ size' = Len(l)
      /\ given' = [k \in 1..Len(l) |-> 0]
      /\ UNCHANGED <<cur, mu, pc, mine, ok, result>>
  BY DEF NewRangeTombstoneIterator, rvars
<1>2. cur = 0 /\ \A r \in Readers : pc[r] = "out" /\ ~ ok[r]
  BY DEF NewRangeTombstoneIterator, Unopened, IteratorTypeOK, ListKept, Taken
<1>3. IteratorTypeOK'
  BY <1>1, <1>2 DEF IteratorTypeOK
<1>4. Exclusive' /\ ListKept' /\ \A r \in Readers : Taken(r)'
  BY <1>1, <1>2 DEF Exclusive, ListKept, Taken
<1>5. DeliveredOnce'
  BY <1>1, <1>2 DEF DeliveredOnce, Holds
<1>6. QED
  BY <1>3, <1>4, <1>5

\* Close leaves the history alone, and no call is running.
LEMMA CloseStep == ASSUME IInv, Close PROVE IInv'
  BY DEF Close, rvars, IInv, IteratorTypeOK, Exclusive, Taken, ListKept,
     DeliveredOnce, Holds

\* The steps of Next that take no place and return none.
LEMMA QuietStep ==
  ASSUME IInv, NEW r \in Readers,
         Call(r) \/ Lock(r) \/ Load(r) \/ Unlock(r) \/ Read(r)
  PROVE  IInv'
<1> USE DEF IInv
<1>1. UNCHANGED <<c, size, cur, ok, listed, given>>
  BY DEF Call, Lock, Load, Unlock, Read
<1>2. \A s \in Readers : ok[s] => mine'[s] = mine[s]
  BY DEF Call, Lock, Load, Unlock, Read, Taken, Step, IteratorTypeOK
<1>3. mine' \in [Readers -> Nat]
  BY DEF Call, Lock, Load, Unlock, Read, IteratorTypeOK
<1>4. DeliveredOnce'
  BY <1>1, <1>2 DEF DeliveredOnce, Holds
<1>5. c # Nil /\ c = listed /\ ListKept'
  <2>1. c # Nil
    BY DEF Call, Lock, Load, Unlock, Read, Step, ListKept
  <2>2. QED
    BY <1>1, <2>1 DEF ListKept
<1>6. pc' \in [Readers -> Steps \cup {"out"}]
      /\ \A s \in Readers : s # r => pc'[s] = pc[s]
  BY DEF Call, Lock, Load, Unlock, Read, Step, IteratorTypeOK, Steps
<1>7. Exclusive'
  BY <1>6, IteratorAssumption
  DEF Call, Lock, Load, Unlock, Read, Step, IteratorTypeOK, Exclusive, Inside
<1>8. \A s \in Readers : Taken(s)'
  <2> SUFFICES ASSUME NEW s \in Readers PROVE Taken(s)'
    OBVIOUS
  <2>1. CASE Call(r) \/ Lock(r) \/ Unlock(r)
    BY <2>1, <1>6 DEF Call, Lock, Unlock, Step, IteratorTypeOK, Taken
  <2>2. CASE Load(r)
    BY <2>2, <1>6 DEF Load, Step, IteratorTypeOK, Taken
  <2>3. CASE Read(r)
    <3>1. ok[r] /\ mine[r] \in Nat /\ mine[r] + 1 \in 1..Len(c)
      BY <2>3, <1>5 DEF Read, Step, Taken, ListKept, IteratorTypeOK
    <3>2. result' = [result EXCEPT ![r] = listed[mine[r] + 1]]
      BY <2>3, <3>1, <1>5 DEF Read, Index
    <3>3. QED
      BY <2>3, <3>2, <1>6 DEF Read, Step, IteratorTypeOK, Taken
  <2>4. QED
    BY <2>1, <2>2, <2>3
<1>9. IteratorTypeOK'
  <2>1. result' \in [Readers -> Tombstones \cup {Nil}]
    <3>1. CASE Call(r) \/ Lock(r) \/ Load(r) \/ Unlock(r)
      BY <3>1 DEF Call, Lock, Load, Unlock, IteratorTypeOK
    <3>2. CASE Read(r)
      <4>1. c \in Seq(Tombstones)
        BY <1>5 DEF IteratorTypeOK
      <4>2. Index(r) \in 1..Len(c) => c[Index(r)] \in Tombstones
        BY <4>1
      <4>3. QED
        BY <3>2, <4>2 DEF Read, IteratorTypeOK
    <3>3. QED
      BY <3>1, <3>2
  <2>2. mu' \in Readers \cup {Nil}
    BY DEF Call, Lock, Load, Unlock, Read, IteratorTypeOK
  <2>3. QED
    BY <1>1, <1>3, <1>6, <2>1, <2>2 DEF IteratorTypeOK
<1>10. QED
  BY <1>4, <1>5, <1>7, <1>8, <1>9

\* Check takes the place at the cursor, which nobody has or had.
LEMMA CheckStep == ASSUME IInv, NEW r \in Readers, Check(r) PROVE IInv'
<1> USE DEF IInv
<1>1. pc[r] = "check" /\ mine[r] = cur /\ ~ ok[r] /\ mu = r
  BY DEF Check, Step, Taken, Exclusive, Inside
<1>2. /\ UNCHANGED <<c, size, mu, mine, result, listed, given>>
      /\ pc' = [pc EXCEPT ![r] = "unlock"]
  BY DEF Check, Step
<1>3. /\ cur \in Nat /\ size \in Nat /\ size = Len(listed)
      /\ mine \in [Readers -> Nat]
  BY DEF IteratorTypeOK, ListKept
<1>4. Exclusive'
  BY <1>1, <1>2 DEF Exclusive, Inside, IteratorTypeOK
<1>5. ListKept'
  BY <1>1, <1>2 DEF ListKept, IteratorTypeOK
<1>6. CASE cur < size
  <2>1. cur' = cur + 1 /\ ok' = [ok EXCEPT ![r] = TRUE]
    BY <1>1, <1>6 DEF Check, InRange
  <2>2. IteratorTypeOK'
    BY <1>2, <1>3, <1>6, <2>1 DEF IteratorTypeOK, Steps
  <2>3. ASSUME NEW s \in Readers PROVE Taken(s)'
    <3>1. CASE s = r
      BY <3>1, <1>1, <1>2, <1>3, <2>1 DEF Taken, IteratorTypeOK
    <3>2. CASE s # r
      <4>1. pc[s] # "check"
        BY <3>2, <1>1 DEF Exclusive, Inside
      <4>2. ok[s] => mine[s] < cur'
        BY <1>3, <2>1 DEF Taken
      <4>3. QED
        BY <3>2, <4>1, <4>2, <1>2, <2>1 DEF Taken, IteratorTypeOK
    <3>3. QED
      BY <3>1, <3>2
  <2>4. DeliveredOnce'
    <3>1. \A s \in Readers, k \in 1..Len(listed) :
            Holds(s, k)' <=> (Holds(s, k) \/ (s = r /\ k = cur + 1))
      BY <1>1, <1>2, <1>3, <2>1 DEF Holds, IteratorTypeOK
    <3>2. ASSUME NEW k \in 1..Len(listed), k = cur + 1
          PROVE  given[k] = 0 /\ \A s \in Readers : ~ Holds(s, k)
      BY <3>2, <1>3 DEF DeliveredOnce
    <3>3. \A k \in 1..Len(listed) : k <= cur' <=> (k <= cur \/ k = cur + 1)
      BY <1>3, <2>1
    <3>4. QED
      BY <3>1, <3>2, <3>3, <1>2 DEF DeliveredOnce
  <2>5. QED
    BY <1>4, <1>5, <2>2, <2>3, <2>4
<1>7. CASE ~ (cur < size)
  <2>1. cur' = cur /\ ok' = ok
    BY <1>1, <1>7 DEF Check, InRange, IteratorTypeOK
  <2>2. IteratorTypeOK'
    BY <1>2, <2>1 DEF IteratorTypeOK, Steps
  <2>3. \A s \in Readers : Taken(s)'
    BY <1>1, <1>2, <2>1 DEF Taken, IteratorTypeOK
  <2>4. DeliveredOnce'
    BY <1>2, <2>1 DEF DeliveredOnce, Holds
  <2>5. QED
    BY <1>4, <1>5, <2>2, <2>3, <2>4
<1>8. QED
  BY <1>6, <1>7

\* Return hands out the place that the call held, and it alone.
LEMMA ReturnStep == ASSUME IInv, NEW r \in Readers, Return(r) PROVE IInv'
<1> USE DEF IInv
<1>1. /\ pc[r] = "return"
      /\ pc' = [pc EXCEPT ![r] = "out"]
      /\ mine' = [mine EXCEPT ![r] = 0]
      /\ ok' = [ok EXCEPT ![r] = FALSE]
      /\ result' = [result EXCEPT ![r] = Nil]
      /\ UNCHANGED <<c, size, cur, mu, listed>>
  BY DEF Return, Step
<1>2. /\ given \in [1..Len(listed) -> Nat] /\ given' \in [1..Len(listed) -> Nat]
      /\ \A k \in 1..Len(listed) :
           given'[k] = IF Holds(r, k) THEN given[k] + 1 ELSE given[k]
  BY DEF Return, Holds, IteratorTypeOK
<1>3. IteratorTypeOK'
  BY <1>1, <1>2 DEF IteratorTypeOK
<1>4. Exclusive'
  BY <1>1, IteratorAssumption DEF Exclusive, Inside, IteratorTypeOK
<1>5. ListKept' /\ \A s \in Readers : Taken(s)'
  BY <1>1 DEF ListKept, Taken, IteratorTypeOK
<1>6. DeliveredOnce'
  <2>1. \A s \in Readers, k \in 1..Len(listed) :
          Holds(s, k)' <=> (Holds(s, k) /\ s # r)
    BY <1>1 DEF Holds, IteratorTypeOK
  <2>2. ASSUME NEW k \in 1..Len(listed), Holds(r, k)
        PROVE  given[k] = 0 /\ \A s \in Readers : s # r => ~ Holds(s, k)
    BY <2>2 DEF DeliveredOnce
  <2>3. QED
    BY <2>1, <2>2, <1>1, <1>2 DEF DeliveredOnce
<1>7. QED
  BY <1>3, <1>4, <1>5, <1>6

\* The invariant survives every step of the iterator.
LEMMA StepIInv == IInv /\ [IteratorNext]_ivars => IInv'
<1> SUFFICES ASSUME IInv, [IteratorNext]_ivars PROVE IInv'
  OBVIOUS
<1>1. CASE UNCHANGED ivars
  BY <1>1 DEF ivars, rvars, IInv, IteratorTypeOK, Exclusive, Inside, Taken, ListKept,
     DeliveredOnce, Holds
<1>2. CASE IteratorNext
  BY <1>2, NewStep, CloseStep, QuietStep, CheckStep, ReturnStep
  DEF IteratorNext, NextStep
<1>3. QED
  BY <1>1, <1>2

-----------------------------------------------------------------------------

\* Inside a call of Next, and as long as the iterator is open, what is left is
\* the list from the cursor on.
LEMMA LeftIsRest ==
  ASSUME IInv, c # Nil
  PROVE  /\ listed \in Seq(Tombstones) /\ size = Len(listed) /\ cur \in 0..size
         /\ Left = SubSeq(listed, cur + 1, size)
  BY DEF IInv, ListKept, IteratorTypeOK, Left

\* Making the iterator opens the feed with the list.
LEMMA NewOpens ==
  ASSUME IInv, NEW l \in Seq(Tombstones), NewRangeTombstoneIterator(l)
  PROVE  Feed!Open
<1>1. c = Nil /\ c' = l /\ listed' = l /\ size' = Len(l) /\ cur' = 0
      /\ UNCHANGED <<pc, mine, ok, result>>
  BY DEF NewRangeTombstoneIterator, Unopened, rvars, IInv, IteratorTypeOK, ListKept
<1>2. \A r \in Readers : pc[r] = "out"
  BY <1>1 DEF IInv, ListKept
<1>3. l # Nil => Left' = SubSeq(l, 1, Len(l))
  BY <1>1 DEF Left
<1>4. l # Nil => Left' \in Seq(Tombstones)
  BY <1>3, SubSeqFull
<1>5. Left = <<>> /\ Left' \in Seq(Tombstones)
  BY <1>1, <1>4 DEF Left
<1>6. \A r \in Readers : Answer(r)' = Answer(r)
  BY <1>1, <1>2 DEF Answer
<1>7. QED
  BY <1>5, <1>6 DEF Feed!Open

\* Closing it drops what is left.
LEMMA CloseCloses == ASSUME IInv, Close PROVE Feed!Close
  BY DEF Close, rvars, Left, Answer, Feed!Close

\* A step of one call leaves what the others are going to return.
LEMMA OthersAnswer ==
  ASSUME IInv, NEW r \in Readers, Call(r) \/ NextStep(r),
         NEW s \in Readers, s # r
  PROVE  Answer(s)' = Answer(s)
<1>1. /\ pc'[s] = pc[s] /\ mine'[s] = mine[s]
      /\ ok'[s] = ok[s] /\ result'[s] = result[s]
  BY DEF Call, NextStep, Lock, Load, Check, Unlock, Read, Return, Step, IInv, IteratorTypeOK
<1>2. listed' = listed
  BY DEF Call, NextStep, Lock, Load, Check, Unlock, Read, Return
<1>3. QED
  BY <1>1, <1>2 DEF Answer

\* What the feed does to the answer of one call.
LEMMA AnswerBecomes ==
  ASSUME IInv, NEW r \in Readers, Call(r) \/ NextStep(r), NEW x, Answer(r)' = x
  PROVE  [s \in Readers |-> Answer(s)'] =
           [[s \in Readers |-> Answer(s)] EXCEPT ![r] = x]
  BY OthersAnswer

\* A call asks when it begins.
LEMMA CallAsks == ASSUME IInv, NEW r \in Readers, Call(r) PROVE Feed!Ask(r)
<1>1. /\ pc[r] = "out" /\ pc'[r] = "lock"
      /\ UNCHANGED <<c, size, cur, listed>>
  BY DEF Call, Step, IInv, IteratorTypeOK
<1>2. Left' = Left
  BY <1>1 DEF Left
<1>3. Answer(r) = Nil /\ Answer(r)' = Asked
  BY <1>1 DEF Answer
<1>4. QED
  BY <1>2, <1>3, AnswerBecomes DEF Feed!Ask

\* Below the end, Check takes the first tombstone that is left; at the end it
\* finds that none is.
LEMMA CheckAnswers ==
  ASSUME IInv, NEW r \in Readers, Check(r)
  PROVE  Feed!Take(r) \/ Feed!Refuse(r)
<1>1. /\ pc[r] = "check" /\ pc'[r] = "unlock" /\ mine[r] = cur /\ mine'[r] = mine[r]
      /\ UNCHANGED <<c, size, listed>> /\ c # Nil
  BY DEF Check, Step, IInv, IteratorTypeOK, Taken, ListKept
<1>2. Answer(r) = Asked
  BY <1>1 DEF Answer
<1> DEFINE n == Len(listed)
<1>0. /\ listed \in Seq(Tombstones) /\ size = n /\ n \in Nat /\ cur \in Nat
      /\ Left = SubSeq(listed, cur + 1, n)
  BY <1>1, LeftIsRest
<1> HIDE DEF n
<1>3. CASE cur < size
  <2>1. cur' = cur + 1 /\ ok'[r] = TRUE
    BY <1>1, <1>3 DEF Check, InRange, IInv, IteratorTypeOK
  <2>2. cur + 1 \in 1..n /\ n \in cur + 1 .. n
    BY <1>0, <1>3
  <2>3. Head(Left) = listed[cur + 1] /\ Tail(Left) = SubSeq(listed, cur + 2, size)
    <3>1. /\ Head(SubSeq(listed, cur + 1, n)) = listed[cur + 1]
          /\ Tail(SubSeq(listed, cur + 1, n)) = SubSeq(listed, cur + 1 + 1, n)
      BY <1>0, <2>2, HeadTailOfSubSeq DEF n
    <3>2. cur + 1 + 1 = cur + 2
      BY <1>0
    <3>3. QED
      BY <1>0, <3>1, <3>2
  <2>4. Left # <<>>
    <3>1. \A i \in cur + 1 .. n : listed[i] \in Tombstones
      BY <1>0 DEF n
    <3>2. Len(Left) = n - (cur + 1) + 1
      BY <1>0, <2>2, <3>1, SubSeqProperties
    <3>3. Len(Left) # 0
      BY <1>0, <2>2, <3>2
    <3>4. QED
      BY <3>3, EmptySeq
  <2>5. Left' = Tail(Left)
    <3>1. Left' = SubSeq(listed, cur + 1 + 1, size)
      BY <1>1, <2>1 DEF Left
    <3>2. cur + 1 + 1 = cur + 2
      BY <1>0
    <3>3. QED
      BY <2>3, <3>1, <3>2
  <2>6. Answer(r)' = Head(Left)
    BY <1>1, <2>1, <2>3 DEF Answer
  <2>7. Feed!Take(r)
    BY <1>2, <2>4, <2>5, <2>6, AnswerBecomes DEF Feed!Take, NextStep
  <2>8. QED
    BY <2>7
<1>4. CASE ~ (cur < size)
  <2>1. cur' = cur /\ ~ ok'[r]
    BY <1>1, <1>4 DEF Check, InRange, IInv, IteratorTypeOK
  <2>2. Left = <<>> /\ Left' = Left
    <3>1. SubSeq(listed, cur + 1, n) = <<>>
      BY <1>0, <1>4, SubSeqEmpty
    <3>2. QED
      BY <1>0, <1>1, <2>1, <3>1 DEF Left
  <2>3. Answer(r)' = End
    BY <1>1, <2>1 DEF Answer
  <2>4. Feed!Refuse(r)
    BY <1>2, <2>2, <2>3, AnswerBecomes DEF Feed!Refuse, NextStep
  <2>5. QED
    BY <2>4
<1>5. QED
  BY <1>3, <1>4

\* A return gives the answer and forgets it.
LEMMA ReturnReturns == ASSUME IInv, NEW r \in Readers, Return(r) PROVE Feed!Return(r)
<1>1. /\ pc[r] = "return" /\ pc'[r] = "out"
      /\ UNCHANGED <<c, size, cur, listed>>
      /\ c # Nil
  BY DEF Return, Step, IInv, IteratorTypeOK, ListKept
<1>2. Left' = Left
  BY <1>1 DEF Left
<1>3. Answer(r) \in Tombstones \cup {End}
  <2>1. ok[r] => mine[r] + 1 \in 1..Len(listed) /\ result[r] = listed[mine[r] + 1]
    BY <1>1 DEF IInv, Taken, ListKept, IteratorTypeOK
  <2>2. QED
    BY <1>1, <2>1 DEF Answer, IInv, IteratorTypeOK
<1>4. Answer(r) \notin {Nil, Asked} /\ Answer(r)' = Nil
  BY <1>1, <1>3, IteratorAssumption DEF Answer
<1>5. QED
  BY <1>2, <1>4, AnswerBecomes DEF Feed!Return, NextStep

\* The other steps of Next do not show: the tombstone that was taken is still
\* in the list when it is read outside the mutex.
LEMMA InnerStutters ==
  ASSUME IInv, NEW r \in Readers, Lock(r) \/ Load(r) \/ Unlock(r) \/ Read(r)
  PROVE  UNCHANGED Feed!vars
<1>1. UNCHANGED <<c, size, cur, ok, listed>> /\ c # Nil /\ c = listed
  BY DEF Lock, Load, Unlock, Read, Step, IInv, ListKept
<1>2. Left' = Left
  BY <1>1 DEF Left
<1>3. Answer(r)' = Answer(r)
  <2>1. CASE Lock(r) \/ Load(r)
    <3>1. pc[r] \in {"lock", "load"} /\ pc'[r] \in {"load", "check"}
      BY <2>1 DEF Lock, Load, Step, IInv, IteratorTypeOK
    <3>2. QED
      BY <3>1 DEF Answer
  <2>2. CASE Unlock(r)
    <3>1. /\ pc[r] = "unlock" /\ pc'[r] = IF ok[r] THEN "read" ELSE "return"
          /\ mine'[r] = mine[r] /\ ok'[r] = ok[r]
      BY <2>2 DEF Unlock, Step, IInv, IteratorTypeOK
    <3>2. QED
      BY <1>1, <3>1 DEF Answer
  <2>3. CASE Read(r)
    <3>1. pc[r] = "read" /\ pc'[r] = "return" /\ ok[r] /\ ok'[r] /\ mine[r] \in Nat
      BY <2>3 DEF Read, Step, IInv, Taken, IteratorTypeOK
    <3>2. mine[r] + 1 \in 1..Len(c)
      BY <1>1, <3>1 DEF IInv, Taken, ListKept, IteratorTypeOK
    <3>3. result'[r] = listed[mine[r] + 1]
      BY <1>1, <2>3, <3>2 DEF Read, Index, IInv, IteratorTypeOK
    <3>4. QED
      BY <3>1, <3>3 DEF Answer
  <2>4. QED
    BY <2>1, <2>2, <2>3
<1>4. \A s \in Readers : Answer(s)' = Answer(s)
  BY <1>3, OthersAnswer DEF NextStep
<1>5. QED
  BY <1>2, <1>4 DEF Feed!vars

-----------------------------------------------------------------------------

\* The invariant of the iterator holds in every behaviour of it.
LEMMA Invariance == IteratorSpec => []IInv
<1>1. QED
  BY InitIInv, StepIInv, PTL DEF IteratorSpec

\* Next, called from any number of goroutines, returns every tombstone of the
\* list at most once and, up to the cursor, leaves none out.
THEOREM IteratorDeliversOnce == IteratorSpec => []DeliveredOnce
<1>1. IInv => DeliveredOnce
  BY DEF IInv
<1>2. QED
  BY <1>1, Invariance, PTL

\* The iterator implements the feed: the moment of Check is the one at which a
\* tombstone is taken or the end is found.
THEOREM IteratorImplementsFeed == IteratorSpec => ImplementsFeed
<1>1. IteratorInit => Feed!Init
  BY DEF IteratorInit, Feed!Init, Left, Answer
<1>2. IInv /\ [IteratorNext]_ivars => [Feed!Next]_Feed!vars
  <2> SUFFICES ASSUME IInv, [IteratorNext]_ivars
               PROVE  Feed!Next \/ UNCHANGED Feed!vars
    OBVIOUS
  <2>1. CASE UNCHANGED ivars
    BY <2>1 DEF ivars, rvars, Feed!vars, Left, Answer
  <2>2. ASSUME NEW l \in Seq(Tombstones), NewRangeTombstoneIterator(l)
        PROVE  Feed!Next
    BY <2>2, NewOpens DEF Feed!Next
  <2>3. ASSUME NEW r \in Readers, Call(r) \/ Check(r) \/ Return(r)
        PROVE  Feed!Next
    BY <2>3, CallAsks, CheckAnswers, ReturnReturns DEF Feed!Next
  <2>4. CASE Close
    BY <2>4, CloseCloses DEF Feed!Next
  <2>5. QED
    BY <2>1, <2>2, <2>3, <2>4, InnerStutters DEF IteratorNext, NextStep
<1>3. QED
  BY <1>1, <1>2, Invariance, PTL DEF IteratorSpec, ImplementsFeed, Feed!Spec

-----------------------------------------------------------------------------
(***************************************************************************)
(* The calls.  The files of a version are kept as long as a call reads it, *)
(* a list is that of one version, and what was proved of the iterator      *)
(* alone holds of the one the calls feed.                                  *)
(***************************************************************************)

\* A call that lists holds a reference to the version it has taken.
Referenced ==
  \A a \in Calls : at[a] = "listing" =>
    version[a] \in 1..Len(History) /\ a \in pins[version[a]]

\* The files of the versions in use are on disk.
InUseOnDisk == \A v \in InUse : FilesOf(v) \subseteq disk

LInv == ListTypeOK /\ Referenced /\ InUseOnDisk

-----------------------------------------------------------------------------

\* Files of a version, and the tombstones of a file.
LEMMA VersionFiles ==
  ASSUME NEW v \in 1..Len(History)
  PROVE  /\ History[v] \in Seq(Files) /\ FilesOf(v) \subseteq Files
         /\ \A i \in 1..Len(History[v]) :
              History[v][i] \in FilesOf(v) /\ TombstonesOf[History[v][i]] \in Seq(Stored)
<1>1. History[v] \in Seq(Files)
  BY ListAssumption
<1>2. \A i \in 1..Len(History[v]) : History[v][i] \in Files
  BY <1>1
<1>3. DOMAIN History[v] = 1..Len(History[v])
  BY <1>1
<1>4. QED
  BY <1>1, <1>2, <1>3, ListAssumption DEF FilesOf, Range

\* At the start one version is installed and its files are there.
LEMMA InitLInv == ListInit => LInv
<1> SUFFICES ASSUME ListInit PROVE LInv
  OBVIOUS
<1>1. 1 \in 1..Len(History)
  BY ListAssumption, EmptySeq
<1>2. InUse = {1}
  BY <1>1 DEF ListInit, InUse
<1>3. <<>> \in Seq(Stored)
  OBVIOUS
<1>4. ListTypeOK
  BY <1>1, <1>3, VersionFiles DEF ListInit, ListTypeOK
<1>5. QED
  BY <1>2, <1>4 DEF ListInit, LInv, Referenced, InUseOnDisk

\* A new version comes with its files.
LEMMA InstallStep == ASSUME LInv, Install PROVE LInv'
<1> USE DEF LInv
<1>1. /\ current' = current + 1 /\ current + 1 \in 1..Len(History)
      /\ disk' = disk \cup FilesOf(current + 1)
      /\ UNCHANGED <<pins, at, version, visited, tombstones>>
  BY DEF Install, ListTypeOK
<1>2. InUse' \subseteq InUse \cup {current + 1}
  BY <1>1 DEF InUse
<1>3. InUseOnDisk'
  BY <1>1, <1>2 DEF InUseOnDisk, FilesOf
<1>4. ListTypeOK'
  BY <1>1, VersionFiles DEF ListTypeOK
<1>5. Referenced'
  BY <1>1 DEF Referenced
<1>6. QED
  BY <1>3, <1>4, <1>5

\* A file is deleted when no version in use has it.
LEMMA PurgeStep == ASSUME LInv, NEW f \in Files, Purge(f) PROVE LInv'
  BY DEF LInv, Purge, Obsolete, ListTypeOK, Referenced, InUseOnDisk, InUse, FilesOf

\* A call refers to the current version, whose files are on disk.
LEMMA StartStep == ASSUME LInv, NEW a \in Calls, Start(a) PROVE LInv'
<1> USE DEF LInv
<1>1. /\ version' = [version EXCEPT ![a] = current]
      /\ pins' = [pins EXCEPT ![current] = @ \cup {a}]
      /\ at' = [at EXCEPT ![a] = "listing"]
      /\ UNCHANGED <<current, disk, visited, tombstones>>
  BY DEF Start, GetReferencedSuperVersion
<1>2. InUse' = InUse
  BY <1>1 DEF InUse, ListTypeOK
<1>3. InUseOnDisk'
  BY <1>1, <1>2 DEF InUseOnDisk, FilesOf
<1>4. ListTypeOK' /\ Referenced'
  BY <1>1 DEF ListTypeOK, Referenced
<1>5. QED
  BY <1>3, <1>4

\* Reading a file adds its tombstones to the vector.
LEMMA ReadFileStep == ASSUME LInv, NEW a \in Calls, ReadFile(a) PROVE LInv'
<1> USE DEF LInv
<1>1. PICK f \in Files :
        /\ tombstones' = [tombstones EXCEPT ![a] = @ \o TombstonesOf[f]]
        /\ TombstonesOf[f] \in Seq(Stored)
  <2>1. version[a] \in 1..Len(History) /\ visited[a] + 1 \in 1..Len(History[version[a]])
    BY VersionFiles DEF ReadFile, Unread, LevelFiles, Referenced, ListTypeOK
  <2>2. LevelFiles(a)[visited[a] + 1] \in Files
    BY <2>1, VersionFiles DEF LevelFiles
  <2>3. TombstonesOf[LevelFiles(a)[visited[a] + 1]] \in Seq(Stored)
    BY <2>2, ListAssumption
  <2>4. QED
    BY <2>2, <2>3 DEF ReadFile
<1>2. tombstones' \in [Calls -> Seq(Stored)]
  <2>1. tombstones[a] \o TombstonesOf[f] \in Seq(Stored)
    BY <1>1, ConcatProperties DEF ListTypeOK
  <2>2. QED
    BY <1>1, <2>1 DEF ListTypeOK
<1>3. UNCHANGED <<current, pins, disk, at, version>> /\ visited' \in [Calls -> Nat]
  BY DEF ReadFile, ListTypeOK
<1>4. QED
  BY <1>2, <1>3 DEF ListTypeOK, Referenced, InUseOnDisk, InUse

\* A call that fails keeps its reference, one that finishes lets it go; either
\* way it reads no more.
LEMMA EndStep == ASSUME LInv, NEW a \in Calls, FailFile(a) \/ Finish(a) PROVE LInv'
<1> USE DEF LInv
<1>1. /\ UNCHANGED <<current, disk, version, visited, tombstones>>
      /\ at' \in [Calls -> {"new", "listing", "listed", "failed"}]
      /\ \A b \in Calls : at'[b] = "listing" => b # a /\ at[b] = "listing"
  BY DEF FailFile, Finish, ListTypeOK
<1>2. /\ pins' \in [1..Len(History) -> SUBSET Calls]
      /\ \A v \in 1..Len(History) : pins[v] \ {a} \subseteq pins'[v] /\ pins'[v] \subseteq pins[v]
  <2>1. CASE FailFile(a)
    BY <2>1 DEF FailFile, ListTypeOK
  <2>2. CASE Finish(a)
    <3>1. version[a] \in 1..Len(History)
      BY <2>2 DEF Finish, Referenced
    <3>2. pins' = [pins EXCEPT ![version[a]] = @ \ {a}]
      BY <2>2 DEF Finish, CleanupSuperVersion
    <3>3. QED
      BY <3>1, <3>2 DEF ListTypeOK
  <2>3. QED
    BY <2>1, <2>2
<1>3. InUse' \subseteq InUse
  BY <1>1, <1>2 DEF InUse
<1>4. InUseOnDisk'
  BY <1>1, <1>3 DEF InUseOnDisk, FilesOf
<1>5. ListTypeOK' /\ Referenced'
  BY <1>1, <1>2 DEF ListTypeOK, Referenced
<1>6. QED
  BY <1>4, <1>5

\* The invariant of the lists survives every step of RocksDB and of the calls.
LEMMA StepLInv == LInv /\ [ListNext]_lvars => LInv'
<1> SUFFICES ASSUME LInv, [ListNext]_lvars PROVE LInv'
  OBVIOUS
<1>1. CASE UNCHANGED lvars
  BY <1>1 DEF lvars, LInv, ListTypeOK, Referenced, InUseOnDisk, InUse
<1>2. CASE ListNext
  BY <1>2, InstallStep, PurgeStep, StartStep, ReadFileStep, EndStep
  DEF ListNext, CallStep, RocksDBStep
<1>3. QED
  BY <1>1, <1>2

-----------------------------------------------------------------------------

\* A step of the composition is one of the lists or none, and one of the
\* iterator or none: the list it is opened with is a list of tombstones.
LEMMA StepsOfParts ==
  LInv /\ [Next]_vars => [ListNext]_lvars /\ [IteratorNext]_ivars
<1> SUFFICES ASSUME LInv, [Next]_vars PROVE [ListNext]_lvars /\ [IteratorNext]_ivars
  OBVIOUS
<1>1. ASSUME NEW a \in Calls, Open(a) PROVE UNCHANGED lvars /\ IteratorNext
  <2>1. tombstones[a] \in Seq(Tombstones)
    BY StoredAssumption, SeqMonotonic DEF LInv, ListTypeOK
  <2>2. QED
    BY <1>1, <2>1 DEF Open, IteratorNext
<1>2. CASE UNCHANGED vars
  BY <1>2 DEF vars
<1>3. QED
  BY <1>1, <1>2 DEF Next, List, SizeOfNull, Background, Iterate, ListNext, IteratorNext

\* Both parts run as they do alone.
THEOREM RunsBothParts == Spec => ListSpec /\ IteratorSpec
<1>1. Init => ListInit /\ IteratorInit
  BY DEF Init
<1>2. QED
  BY <1>1, InitLInv, StepLInv, StepsOfParts, PTL DEF Spec, ListSpec, IteratorSpec

\* The invariant of the calls and their lists.
LEMMA ListInvariance == ListSpec => []LInv
<1>1. QED
  BY InitLInv, StepLInv, PTL DEF ListSpec

-----------------------------------------------------------------------------

\* The tombstones of the first n files of a version, file by file.
FirstFiles(v, n) == [i \in 1..n |-> TombstonesOf[History[v][i]]]

\* A call has in its vector the tombstones of the files it has read, in order,
\* all of the version it took at the start.
ReadSoFar ==
  \A a \in Calls :
    /\ at[a] = "new" => visited[a] = 0 /\ tombstones[a] = <<>>
    /\ at[a] \in {"listing", "listed"} =>
         /\ version[a] \in 1..Len(History)
         /\ visited[a] \in 0..Len(History[version[a]])
         /\ tombstones[a] = FlattenSeq(FirstFiles(version[a], visited[a]))
    /\ at[a] = "listed" => visited[a] = Len(History[version[a]])

\* One file more.
LEMMA NextFile ==
  ASSUME NEW v \in 1..Len(History), NEW n \in Nat, n < Len(History[v])
  PROVE  FlattenSeq(FirstFiles(v, n + 1))
           = FlattenSeq(FirstFiles(v, n)) \o TombstonesOf[History[v][n + 1]]
<1> DEFINE t == TombstonesOf[History[v][n + 1]]
<1>1. \A i \in 1..n + 1 : i \in 1..Len(History[v])
  BY VersionFiles
<1>2. \A i \in 1..n + 1 : TombstonesOf[History[v][i]] \in Seq(Stored)
  BY <1>1, VersionFiles
<1>3. FirstFiles(v, n) \in Seq(Seq(Stored)) /\ t \in Seq(Stored)
  BY <1>2 DEF FirstFiles
<1>4. FirstFiles(v, n + 1) = Append(FirstFiles(v, n), t)
  BY <1>2 DEF FirstFiles
<1> HIDE DEF t
<1>5. QED
  BY <1>3, <1>4, FlattenAppend DEF t

LEMMA InitReadSoFar == ListInit => ReadSoFar
  BY DEF ListInit, ReadSoFar

LEMMA StepReadSoFar ==
  LInv /\ ReadSoFar /\ [ListNext]_lvars => ReadSoFar'
<1> SUFFICES ASSUME LInv, ReadSoFar, [ListNext]_lvars PROVE ReadSoFar'
  OBVIOUS
<1> USE DEF ReadSoFar
<1>1. ASSUME NEW a \in Calls, Start(a) PROVE ReadSoFar'
  <2>1. FlattenSeq(FirstFiles(current, 0)) = <<>>
    <3>1. FirstFiles(current, 0) = <<>>
      BY DEF FirstFiles
    <3>2. QED
      BY <3>1, FlattenEmpty
  <2>2. current \in 1..Len(History) /\ Len(History[current]) \in Nat
    BY VersionFiles DEF LInv, ListTypeOK
  <2>3. QED
    BY <1>1, <2>1, <2>2 DEF Start, LInv, ListTypeOK
<1>2. ASSUME NEW a \in Calls, ReadFile(a) PROVE ReadSoFar'
  <2>1. /\ at[a] = "listing" /\ visited[a] \in Nat /\ version[a] \in 1..Len(History)
        /\ visited[a] < Len(History[version[a]]) /\ Len(History[version[a]]) \in Nat
    BY <1>2, VersionFiles DEF ReadFile, Unread, LevelFiles, LInv, ListTypeOK
  <2>2. tombstones' = [tombstones EXCEPT ![a] =
                         FlattenSeq(FirstFiles(version[a], visited[a] + 1))]
    BY <1>2, <2>1, NextFile DEF ReadFile, LevelFiles
  <2>3. visited' = [visited EXCEPT ![a] = visited[a] + 1] /\ UNCHANGED <<at, version>>
    BY <1>2 DEF ReadFile
  <2>4. QED
    BY <2>1, <2>2, <2>3 DEF LInv, ListTypeOK
<1>3. ASSUME NEW a \in Calls, FailFile(a) \/ Finish(a) PROVE ReadSoFar'
  <2>1. UNCHANGED <<version, visited, tombstones>>
    BY <1>3 DEF FailFile, Finish
  <2>2. CASE FailFile(a)
    BY <2>1, <2>2 DEF FailFile, LInv, ListTypeOK
  <2>3. CASE Finish(a)
    <3>1. /\ at[a] = "listing" /\ at' = [at EXCEPT ![a] = "listed"]
          /\ visited[a] >= Len(History[version[a]])
      BY <2>3 DEF Finish, LevelFiles
    <3>2. Len(History[version[a]]) \in Nat
      BY <3>1, VersionFiles
    <3>3. QED
      BY <2>1, <3>1, <3>2 DEF LInv, ListTypeOK
  <2>4. QED
    BY <1>3, <2>2, <2>3
<1>4. CASE RocksDBStep \/ UNCHANGED lvars
  BY <1>4 DEF RocksDBStep, Install, Purge, lvars
<1>5. QED
  BY <1>1, <1>2, <1>3, <1>4 DEF ListNext, CallStep

\* What a call returns, while versions come and go, is the list of one version:
\* the tombstones of all its files, in their order, and of no other file.
THEOREM ListIsOneVersionAlways == Spec => []ListIsOneVersion
<1>1. LInv /\ ReadSoFar => ListIsOneVersion
  BY DEF ReadSoFar, ListIsOneVersion, FirstFiles
<1>2. ListSpec => []ReadSoFar
  BY InitReadSoFar, StepReadSoFar, ListInvariance, PTL DEF ListSpec
<1>3. QED
  BY <1>1, <1>2, RunsBothParts, ListInvariance, PTL

-----------------------------------------------------------------------------

\* A call that has not begun has no version yet.
NewHasNone == \A a \in Calls : at[a] = "new" => version[a] = 0

\* Each step of a call moves its own reference with its own place.
LEMMA StepPins ==
  LInv /\ PinsAccounted /\ NewHasNone /\ [ListNext]_lvars => PinsAccounted' /\ NewHasNone'
<1> SUFFICES ASSUME LInv, PinsAccounted, NewHasNone, [ListNext]_lvars
             PROVE  PinsAccounted' /\ NewHasNone'
  OBVIOUS
<1> USE DEF PinsAccounted, NewHasNone
<1>1. /\ pins \in [1..Len(History) -> SUBSET Calls] /\ version \in [Calls -> 0..Len(History)]
      /\ at \in [Calls -> {"new", "listing", "listed", "failed"}] /\ current \in 1..Len(History)
  BY DEF LInv, ListTypeOK
<1>2. ASSUME NEW a \in Calls, Start(a) PROVE PinsAccounted' /\ NewHasNone'
  <2>1. /\ pins' = [pins EXCEPT ![current] = @ \cup {a}]
        /\ version' = [version EXCEPT ![a] = current] /\ at' = [at EXCEPT ![a] = "listing"]
    BY <1>2 DEF Start, GetReferencedSuperVersion
  <2>2. at[a] = "new" /\ version[a] = 0
    BY <1>2 DEF Start
  <2>3. QED
    BY <1>1, <2>1, <2>2
<1>3. ASSUME NEW a \in Calls, ReadFile(a) PROVE PinsAccounted' /\ NewHasNone'
  BY <1>3 DEF ReadFile
<1>4. ASSUME NEW a \in Calls, FailFile(a) PROVE PinsAccounted' /\ NewHasNone'
  BY <1>1, <1>4 DEF FailFile, Unread
<1>5. ASSUME NEW a \in Calls, Finish(a) PROVE PinsAccounted' /\ NewHasNone'
  <2>1. version[a] \in 1..Len(History) /\ at[a] = "listing"
    BY <1>5 DEF Finish, LInv, Referenced
  <2>2. /\ pins' = [pins EXCEPT ![version[a]] = @ \ {a}]
        /\ version' = version /\ at' = [at EXCEPT ![a] = "listed"]
    BY <1>5 DEF Finish, CleanupSuperVersion
  <2>3. QED
    BY <1>1, <2>1, <2>2
<1>6. CASE RocksDBStep \/ UNCHANGED lvars
  BY <1>6 DEF RocksDBStep, Install, Purge, lvars
<1>7. QED
  BY <1>2, <1>3, <1>4, <1>5, <1>6 DEF ListNext, CallStep

\* However many versions are installed while calls read, a version is
\* referenced by the calls that read it and by those that failed, and by no
\* other: but for the early return of a failed call no reference is left behind
\* (extend_inner.cc).
THEOREM PinsAccountedAlways == Spec => []PinsAccounted
<1>1. ListInit => PinsAccounted /\ NewHasNone
  BY DEF ListInit, PinsAccounted, NewHasNone
<1>2. ListSpec => []PinsAccounted
  BY <1>1, StepPins, ListInvariance, PTL DEF ListSpec
<1>3. QED
  BY <1>2, RunsBothParts, PTL

-----------------------------------------------------------------------------

\* The state of the calls, of RocksDB and of the iterator has its types; the
\* cursor never passes the size.
THEOREM TypeCorrect == Spec => []TypeOK
<1>1. Init => crashed \in BOOLEAN
  BY DEF Init
<1>2. crashed \in BOOLEAN /\ [Next]_vars => (crashed \in BOOLEAN)'
  BY DEF Next, vars, List, Open, SizeOfNull, Background, Iterate
<1>3. LInv /\ IInv /\ crashed \in BOOLEAN => TypeOK
  BY DEF LInv, IInv, TypeOK
<1>4. QED
  BY <1>1, <1>2, <1>3, RunsBothParts, ListInvariance, Invariance, PTL DEF Spec

\* While a call reads the files of a version, whatever is installed meanwhile,
\* none of them is deleted.
THEOREM FilesPinnedAlways == Spec => []FilesPinned
<1>1. LInv => FilesPinned
  <2> SUFFICES ASSUME LInv, NEW a \in Calls, at[a] = "listing"
               PROVE  Range(LevelFiles(a)) \subseteq disk
    BY DEF FilesPinned
  <2>1. version[a] \in InUse
    BY DEF LInv, Referenced, InUse
  <2>2. QED
    BY <2>1 DEF LInv, InUseOnDisk, FilesOf, LevelFiles
<1>2. QED
  BY <1>1, RunsBothParts, ListInvariance, PTL

\* Whatever list a call made, the goroutines that share its iterator are given
\* each of its tombstones once.
THEOREM DeliveredOnceAlways == Spec => []DeliveredOnce
<1>1. QED
  BY RunsBothParts, IteratorDeliversOnce, PTL

\* The iterator that the calls feed implements the feed.
THEOREM FeedRefinement == Spec => ImplementsFeed
<1>1. QED
  BY RunsBothParts, IteratorImplementsFeed, PTL

-----------------------------------------------------------------------------
(* Progress, for one goroutine: the provers know neither ENABLED nor the    *)
(* instances of a quantified fairness condition.                           *)

\* The steps of which Fairness speaks.
GoesOn(r) == ~crashed /\ NextStep(r) /\ UNCHANGED <<lvars, crashed>>
GetsMutex(r) == ~crashed /\ Lock(r) /\ UNCHANGED <<lvars, crashed>>

\* A step of Next takes its goroutine from one statement to the next.
LEMMA Statements ==
  ASSUME IInv, NEW r \in Readers, NextStep(r)
  PROVE  /\ pc[r] = "lock" => pc'[r] = "load"
         /\ pc[r] = "load" => pc'[r] = "check"
         /\ pc[r] = "check" => pc'[r] = "unlock"
         /\ pc[r] = "unlock" => mu' = Nil /\ (pc'[r] = "read" \/ pc'[r] = "return")
         /\ pc[r] = "read" => pc'[r] = "return"
         /\ pc[r] = "return" => pc'[r] = "out"
BY DEF IInv, IteratorTypeOK, NextStep, Lock, Load, Check, Unlock, Read, Return, Step

\* Only its own steps move a goroutine that is inside Next.
LEMMA OthersLeavePc ==
  ASSUME IInv, NEW r \in Readers, [Next]_vars, pc[r] # "out"
  PROVE  pc'[r] = pc[r] \/ NextStep(r)
<1>1. ASSUME NEW s \in Readers, s # r, Call(s) \/ NextStep(s) PROVE pc'[r] = pc[r]
  BY <1>1 DEF IInv, IteratorTypeOK, Call, NextStep, Lock, Load, Check, Unlock, Read, Return, Step
<1>2. ~ Call(r)
  BY DEF Call, Step
<1>3. CASE Iterate
  <2>1. CASE Close
    BY <2>1 DEF Close, rvars
  <2>2. QED
    BY <1>1, <1>2, <1>3, <2>1 DEF Iterate
<1>4. CASE \E a \in Calls : List(a) \/ Open(a) \/ SizeOfNull(a)
  BY <1>4 DEF List, Open, NewRangeTombstoneIterator, SizeOfNull, ivars, rvars
<1>5. CASE Background
  BY <1>5 DEF Background, ivars, rvars
<1>6. CASE UNCHANGED vars
  BY <1>6 DEF vars, ivars, rvars
<1>7. QED
  BY <1>3, <1>4, <1>5, <1>6 DEF Next

\* The way of a goroutine through Next, in any step and in one of its own.
Path(r) ==
  /\ pc[r] = "lock" => (pc[r] = "lock")' \/ (pc[r] = "load")'
  /\ pc[r] = "load" => (pc[r] = "load")' \/ (pc[r] = "check")'
  /\ pc[r] = "check" => (pc[r] = "check")' \/ (pc[r] = "unlock")'
  /\ pc[r] = "unlock" => \/ (pc[r] = "unlock")'
                         \/ (mu = Nil)' /\ ((pc[r] = "read")' \/ (pc[r] = "return")')
  /\ pc[r] = "read" => (pc[r] = "read")' \/ (pc[r] = "return")'
  /\ pc[r] = "return" => (pc[r] = "return")' \/ (pc[r] = "out")'

OwnPath(r) ==
  /\ pc[r] = "load" => (pc[r] = "check")'
  /\ pc[r] = "check" => (pc[r] = "unlock")'
  /\ pc[r] = "unlock" => (mu = Nil)' /\ ((pc[r] = "read")' \/ (pc[r] = "return")')
  /\ pc[r] = "read" => (pc[r] = "return")'
  /\ pc[r] = "return" => (pc[r] = "out")'

LEMMA Paths ==
  ASSUME NEW r \in Readers
  PROVE  /\ IInv /\ [Next]_vars => Path(r)
         /\ IInv /\ <<GoesOn(r)>>_vars => OwnPath(r)
BY Statements, OthersLeavePc DEF Path, OwnPath, GoesOn

LEMMA CompositionInvariance == Spec => []IInv
BY RunsBothParts, Invariance, PTL

\* A goroutine that has the mutex of the iterator, scheduled, gives it back,
\* also at the end of the list, and returns from Next, unless the process dies.
THEOREM HolderReturns ==
  ASSUME NEW r \in Readers
  PROVE  /\ Spec /\ WF_vars(GoesOn(r))
         /\ [](~crashed /\ pc[r] \in Inside \cup {"read", "return"} =>
                 ENABLED <<GoesOn(r)>>_vars)
         => /\ mu = r ~> (mu = Nil \/ crashed)
            /\ mu = r ~> (pc[r] = "out" \/ crashed)
<1>1. IInv => (mu = r => pc[r] = "load" \/ pc[r] = "check" \/ pc[r] = "unlock")
  BY DEF IInv, Exclusive, Inside
<1>2. \/ pc[r] = "load" \/ pc[r] = "check" \/ pc[r] = "unlock" \/ pc[r] = "read"
      \/ pc[r] = "return"
      => pc[r] \in Inside \cup {"read", "return"}
  BY DEF Inside
<1>3. /\ IInv /\ [Next]_vars => Path(r)
      /\ IInv /\ <<GoesOn(r)>>_vars => OwnPath(r)
  BY Paths
<1>4. QED
  BY <1>1, <1>2, <1>3, CompositionInvariance, PTL DEF Spec, Path, OwnPath

\* One that waits for the mutex gets it and returns, if the mutex is free
\* again and again.
THEOREM WaiterReturns ==
  ASSUME NEW r \in Readers
  PROVE  /\ Spec /\ WF_vars(GoesOn(r)) /\ SF_vars(GetsMutex(r))
         /\ [](~crashed /\ pc[r] \in Inside \cup {"read", "return"} =>
                 ENABLED <<GoesOn(r)>>_vars)
         /\ [](~crashed /\ pc[r] = "lock" /\ mu = Nil => ENABLED <<GetsMutex(r)>>_vars)
         /\ []<>(mu = Nil \/ crashed)
         => (pc[r] = "lock" ~> (pc[r] = "out" \/ crashed))
<1>1. IInv /\ <<GetsMutex(r)>>_vars => (pc[r] = "load")'
  BY DEF GetsMutex, Lock, Step, IInv, IteratorTypeOK
<1>2. \/ pc[r] = "load" \/ pc[r] = "check" \/ pc[r] = "unlock" \/ pc[r] = "read"
      \/ pc[r] = "return"
      => pc[r] \in Inside \cup {"read", "return"}
  BY DEF Inside
<1>3. /\ IInv /\ [Next]_vars => Path(r)
      /\ IInv /\ <<GoesOn(r)>>_vars => OwnPath(r)
  BY Paths
<1>4. QED
  BY <1>1, <1>2, <1>3, CompositionInvariance, PTL DEF Spec, Path, OwnPath
=============================================================================

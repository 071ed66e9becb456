------------------------ MODULE OptionsOwnershipProofs ------------------------
(***************************************************************************)
(* For any number of Options, wrappers and native objects: the client of   *)
(* Next, which leaves merge operators and prefix extractors where they     *)
(* are, never frees an object twice, loses none and never leaves an open   *)
(* database with a freed one.  GoOwner and NoLeak are what Destroy and   *)
(* the setters rely on; two facts make them inductive: the native options  *)
(* hold the pointers of the slots, and an open database holds those of its *)
(* Options, which the client leaves alone.  From these follows that no     *)
(* step drops the last native share of an object.                          *)
(***************************************************************************)
EXTENDS OptionsOwnership, TLAPS

\* The native options of h point to the objects that h will free, to no other.
RefIsSlot == \A h \in Handles : ref[h] = slot[h]

\* The open database points to the objects of the Options it was opened with.
DbFollows ==
  /\ dbOpts = Nil => db = Empty
  /\ dbOpts # Nil => c[dbOpts] /\ db = slot[dbOpts]

\* The wrappers whose pointer is nil once they were given away never keep it.
NilWhenMoved == \A k \in {"ccmp", "env", "copied"} : ~ moved[k]

\* Who holds and who points to what.
IInv ==
  /\ TypeOK
  /\ FreedOnce
  /\ GoOwner
  /\ NoLeak
  /\ RefIsSlot
  /\ DbFollows

Inv == IInv /\ NilWhenMoved

-----------------------------------------------------------------------------

\* A fresh or a destroyed set of slots is empty, in each of its places.
LEMMA EmptyIsNil == Empty \in [Slots -> Pointers] /\ \A s \in Slots : Empty[s] = Nil
  BY DEF Empty, Pointers

-----------------------------------------------------------------------------

\* When every share that native options or the database had is still there,
\* the native side deletes nothing.
LEMMA NothingDropped ==
  ASSUME IInv, NEW r, NEW d, NEW st \in [Objects -> {"none", "live", "freed", "twice"}],
         \A x \in Objects : x \in Shares(ref, db) => x \in Shares(r, d)
  PROVE  Freed(st, LastShares(r, d)) = st
  BY DEF Freed, LastShares

\* What the native side has a share of is in a Shared slot: what the database has
\* a share of, its Options have too.
LEMMA SharesOfSlots ==
  ASSUME IInv, NEW x \in Objects, x \in Shares(ref, db)
  PROVE  \E h \in Handles, s \in Shared : slot[h][s] = x /\ ref[h][s] = x
<1>1. CASE \E s \in Shared : db[s] = x
  <2>1. PICK s \in Shared : db[s] = x
    BY <1>1
  <2>2. x # Nil /\ s \in Slots
    BY OwnershipAssumption DEF Shared, Slots
  <2>3. dbOpts # Nil /\ dbOpts \in Handles /\ db = slot[dbOpts]
    BY <2>1, <2>2, EmptyIsNil DEF IInv, DbFollows, TypeOK
  <2> QED
    BY <2>1, <2>3 DEF IInv, RefIsSlot
<1>2. CASE \E h \in Handles, s \in Shared : ref[h][s] = x
  BY <1>2 DEF IInv, RefIsSlot
<1> QED
  BY <1>1, <1>2 DEF Shares

\* So no slot with a raw pointer and no wrapper holds what is shared.
LEMMA SharesAreOfSlots == IInv => NativeOwner
<1> SUFFICES ASSUME IInv PROVE NativeOwner
  OBVIOUS
<1>1. ASSUME NEW h \in Handles, NEW s \in Slots, slot[h][s] # Nil
      PROVE  slot[h][s] \in Shares(ref, db) <=> s \in Shared
  <2>1. slot[h][s] \in Objects
    BY <1>1 DEF IInv, TypeOK, Pointers
  <2>2. CASE s \in Shared
    BY <2>2 DEF Shares, IInv, RefIsSlot
  <2>3. ASSUME slot[h][s] \in Shares(ref, db) PROVE s \in Shared
    <3>1. PICK g \in Handles, t \in Shared : slot[g][t] = slot[h][s]
      BY <2>1, <2>3, SharesOfSlots
    <3> QED
      BY <1>1, <3>1 DEF IInv, GoOwner, Shared, Slots
  <2> QED
    BY <2>2, <2>3
<1>2. ASSUME NEW k \in Kinds, Held(k), wrap[k] \in Shares(ref, db) PROVE FALSE
  <2>1. wrap[k] \in Objects
    BY <1>2 DEF IInv, TypeOK, Pointers, Held
  <2>2. PICK g \in Handles, t \in Shared : slot[g][t] = wrap[k]
    BY <1>2, <2>1, SharesOfSlots
  <2> QED
    BY <1>2, <2>1, <2>2, OwnershipAssumption DEF IInv, GoOwner, Shared, Slots
<1> QED
  BY <1>1, <1>2 DEF NativeOwner

\* The invariant holds of the zero Options and of the unmade objects.
LEMMA InitIInv == Init => IInv
  BY EmptyIsNil DEF Init, IInv, TypeOK, FreedOnce, GoOwner, NoLeak, RefIsSlot,
     DbFollows, Held, Pointers

\* A new wrapper is the only holder of its object.
LEMMA NewWrapperStep ==
  ASSUME IInv, NEW k \in Kinds, NEW x \in Objects, NewWrapper(k, x)
  PROVE  IInv'
<1> USE DEF IInv
<1>1. /\ state' \in [Objects -> {"none", "live", "freed", "twice"}]
      /\ state'[x] = "live"
      /\ \A y \in Objects : y # x => state'[y] = state[y]
  BY DEF NewWrapper, Allocated, TypeOK
<1>2. /\ wrap' \in [Kinds -> Pointers] /\ moved' \in [Kinds -> BOOLEAN]
      /\ wrap'[k] = x /\ Held(k)'
      /\ \A j \in Kinds : j # k => wrap'[j] = wrap[j] /\ Held(j)' = Held(j)
  BY OwnershipAssumption DEF NewWrapper, TypeOK, Held, Pointers
<1>3. /\ \A h \in Handles, s \in Slots : slot[h][s] # x
      /\ \A j \in Kinds : Held(j) => wrap[j] # x
  BY OwnershipAssumption DEF NewWrapper, GoOwner, TypeOK
<1>4. UNCHANGED <<c, slot, ref, db, dbOpts>>
  BY DEF NewWrapper
<1>5. TypeOK'
  BY <1>1, <1>2, <1>4 DEF TypeOK
<1>6. FreedOnce'
  BY <1>1 DEF FreedOnce
<1>7. GoOwner'
  <2>1. \A h \in Handles, s \in Slots : slot[h][s] # Nil => slot[h][s] \in Objects
    BY DEF TypeOK, Pointers
  <2>2. \A j \in Kinds : Held(j) => wrap[j] \in Objects
    BY DEF TypeOK, Pointers, Held
  <2> QED
    BY <1>1, <1>2, <1>3, <1>4, <2>1, <2>2 DEF GoOwner
<1>8. NoLeak'
  <2>1. ASSUME NEW y \in Objects, state'[y] = "live", y # x
        PROVE  \/ \E h \in Handles, s \in Slots : slot'[h][s] = y
               \/ \E j \in Kinds : Held(j)' /\ wrap'[j] = y
    <3>1. CASE \E h \in Handles, s \in Slots : slot[h][s] = y
      BY <3>1, <1>4
    <3>2. CASE \E j \in Kinds : Held(j) /\ wrap[j] = y
      <4>1. PICK j \in Kinds : Held(j) /\ wrap[j] = y
        BY <3>2
      <4>2. j # k
        BY <4>1 DEF Held, NewWrapper
      <4> QED
        BY <4>1, <4>2, <1>2
    <3> QED
      BY <1>1, <2>1, <3>1, <3>2 DEF NoLeak
  <2> QED
    BY <1>2, <2>1 DEF NoLeak
<1>9. RefIsSlot' /\ DbFollows'
  BY <1>4 DEF RefIsSlot, DbFollows
<1> QED
  BY <1>5, <1>6, <1>7, <1>8, <1>9

\* A wrapper that is destroyed frees the object it holds, or nothing.
LEMMA DestroyWrapperStep ==
  ASSUME IInv, NEW k \in Kinds, DestroyWrapper(k), wrap[k] = Nil \/ Held(k)
  PROVE  IInv'
<1> USE DEF IInv
<1> DEFINE x == wrap[k]
<1>1. /\ state' \in [Objects -> {"none", "live", "freed", "twice"}]
      /\ \A y \in Objects : y # x => state'[y] = state[y]
      /\ x # Nil => x \in Objects /\ state'[x] = "freed"
  BY DEF DestroyWrapper, Freed, TypeOK, GoOwner, Held, Pointers
<1>2. /\ wrap' \in [Kinds -> Pointers] /\ ~ Held(k)'
      /\ \A j \in Kinds : j # k => wrap'[j] = wrap[j] /\ Held(j)' = Held(j)
  BY DEF DestroyWrapper, TypeOK, Held, Pointers
<1>3. /\ x # Nil => \A h \in Handles, s \in Slots : slot[h][s] # x
      /\ \A j \in Kinds : Held(j) /\ j # k => wrap[j] # x
  BY DEF GoOwner, Held
<1>4. UNCHANGED <<c, slot, ref, moved, db, dbOpts>>
  BY DEF DestroyWrapper
<1>5. TypeOK'
  BY <1>1, <1>2, <1>4 DEF TypeOK
<1>6. FreedOnce'
  BY <1>1, OwnershipAssumption DEF FreedOnce
<1>7. GoOwner'
  <2>1. \A h \in Handles, s \in Slots : slot[h][s] # Nil => slot[h][s] \in Objects
    BY DEF TypeOK, Pointers
  <2>2. \A j \in Kinds : Held(j) => wrap[j] \in Objects
    BY DEF TypeOK, Pointers, Held
  <2> QED
    BY <1>1, <1>2, <1>3, <1>4, <2>1, <2>2 DEF GoOwner
<1>8. NoLeak'
  <2>1. ASSUME NEW y \in Objects, state'[y] = "live"
        PROVE  \/ \E h \in Handles, s \in Slots : slot'[h][s] = y
               \/ \E j \in Kinds : Held(j)' /\ wrap'[j] = y
    <3>0. y # x /\ state[y] = "live"
      BY <1>1, <2>1, OwnershipAssumption
    <3>1. CASE \E h \in Handles, s \in Slots : slot[h][s] = y
      BY <3>1, <1>4
    <3>2. CASE \E j \in Kinds : Held(j) /\ wrap[j] = y
      BY <3>0, <3>2, <1>2
    <3> QED
      BY <3>0, <3>1, <3>2 DEF NoLeak
  <2> QED
    BY <2>1 DEF NoLeak
<1>9. RefIsSlot' /\ DbFollows'
  BY <1>4 DEF RefIsSlot, DbFollows
<1> QED
  BY <1>5, <1>6, <1>7, <1>8, <1>9

\* A handle that is given empty slots (a new Options, or a copy of Options
\* without objects) changes nothing that anyone holds.
LEMMA EmptyHandleStep ==
  ASSUME IInv, NEW k \in Handles, ~ c[k],
         c' \in [Handles -> BOOLEAN], \A g \in Handles : g # k => c'[g] = c[g],
         slot' = [slot EXCEPT ![k] = Empty], ref' = [ref EXCEPT ![k] = Empty],
         UNCHANGED <<state, wrap, moved, db, dbOpts>>
  PROVE  IInv'
<1> USE DEF IInv
<1>1. slot' = slot
  BY DEF TypeOK
<1>2. ref' = ref
  BY DEF TypeOK, RefIsSlot
<1>3. TypeOK' /\ FreedOnce' /\ RefIsSlot'
  BY <1>1, <1>2 DEF TypeOK, FreedOnce, RefIsSlot
<1>4. GoOwner' /\ NoLeak'
  BY <1>1 DEF GoOwner, NoLeak, Held
<1>5. DbFollows'
  BY <1>1 DEF DbFollows, TypeOK
<1> QED
  BY <1>3, <1>4, <1>5

\* Destroy frees the objects of the slots and of no one else.
LEMMA DestroyStep ==
  ASSUME IInv, NEW h \in Handles, dbOpts # h, Destroy(h), KeepsShared
  PROVE  IInv'
<1> USE DEF IInv
<1> DEFINE xs == {slot[h][s] : s \in Slots}
<1>0. NativeDestroyed(h) = state
  <2>1. \A s \in Shared : slot[h][s] = Nil
    BY EmptyIsNil DEF Destroy, KeepsShared, TypeOK, Shared, Slots
  <2>2. ASSUME NEW y \in Objects, y \in Shares(ref, db)
        PROVE  y \in Shares(ref', db)
    <3>1. PICK g \in Handles, s \in Shared : slot[g][s] = y /\ ref[g][s] = y
      BY <2>2, SharesOfSlots
    <3>2. g # h
      BY <2>1, <3>1, OwnershipAssumption
    <3> QED
      BY <3>1, <3>2 DEF Shares, Destroy, TypeOK
  <2> QED
    BY <2>2, NothingDropped DEF NativeDestroyed, Destroy, TypeOK
<1>1. /\ state' \in [Objects -> {"none", "live", "freed", "twice"}]
      /\ \A y \in Objects : y \notin xs => state'[y] = state[y]
      /\ \A y \in Objects : y \in xs => state'[y] = "freed"
  <2>1. \A y \in Objects : y \in xs => state[y] = "live"
    BY OwnershipAssumption DEF GoOwner
  <2> QED
    BY <1>0, <2>1 DEF Destroy, Freed, TypeOK
<1>2. /\ slot' \in [Handles -> [Slots -> Pointers]]
      /\ slot'[h] = Empty
      /\ \A g \in Handles : g # h => slot'[g] = slot[g]
  BY EmptyIsNil DEF Destroy, TypeOK
<1>3. /\ \A g \in Handles, t \in Slots :
           g # h /\ slot[g][t] # Nil => slot[g][t] \in Objects /\ slot[g][t] \notin xs
      /\ \A k \in Kinds : Held(k) => wrap[k] \in Objects /\ wrap[k] \notin xs
  BY DEF GoOwner, TypeOK, Pointers, Held
<1>4. UNCHANGED <<wrap, moved, db, dbOpts>>
  BY DEF Destroy
<1>5. TypeOK'
  BY <1>1, <1>2, <1>4, EmptyIsNil DEF TypeOK, Destroy
<1>6. FreedOnce'
  BY <1>1 DEF FreedOnce
<1>7. GoOwner'
  <2>1. ASSUME NEW g \in Handles, NEW t \in Slots, slot'[g][t] # Nil
        PROVE  /\ g # h
               /\ slot'[g][t] = slot[g][t]
               /\ state'[slot[g][t]] = state[slot[g][t]]
    BY <1>1, <1>2, <1>3, <2>1, EmptyIsNil
  <2>2. ASSUME NEW k \in Kinds, Held(k)'
        PROVE  Held(k) /\ wrap'[k] = wrap[k] /\ state'[wrap[k]] = state[wrap[k]]
    BY <1>1, <1>3, <1>4, <2>2 DEF Held
  <2>3. \A g \in Handles, t \in Slots : slot'[g][t] # Nil =>
          /\ state'[slot'[g][t]] = "live"
          /\ \A f \in Handles, s \in Slots :
               slot'[f][s] = slot'[g][t] => f = g /\ s = t
          /\ \A k \in Kinds : Held(k)' => wrap'[k] # slot'[g][t]
    BY <2>1, <2>2 DEF GoOwner
  <2>4. \A k \in Kinds : Held(k)' =>
          /\ state'[wrap'[k]] = "live"
          /\ \A j \in Kinds : Held(j)' /\ wrap'[j] = wrap'[k] => j = k
    BY <2>2 DEF GoOwner
  <2> QED
    BY <2>3, <2>4 DEF GoOwner
<1>8. NoLeak'
  <2>1. ASSUME NEW y \in Objects, state'[y] = "live"
        PROVE  \/ \E g \in Handles, s \in Slots : slot'[g][s] = y
               \/ \E j \in Kinds : Held(j)' /\ wrap'[j] = y
    <3>1. y \notin xs /\ state[y] = "live"
      BY <1>1, <2>1
    <3> QED
      BY <3>1, <1>2, <1>4 DEF NoLeak, Held
  <2> QED
    BY <2>1 DEF NoLeak
<1>9. RefIsSlot' /\ DbFollows'
  BY <1>2, <1>4 DEF RefIsSlot, DbFollows, Destroy, TypeOK
<1> QED
  BY <1>5, <1>6, <1>7, <1>8, <1>9

-----------------------------------------------------------------------------
\* The setters

\* Putting into a slot an object that no other slot and no wrapper will still
\* hold, in a memory st where it is live, keeps every holder the only one.
LEMMA ReplaceStep ==
  ASSUME IInv, NEW h \in Handles, NEW s \in Slots, NEW x \in Objects,
         c[h], dbOpts # h,
         NEW st \in [Objects -> {"none", "live", "freed"}], st[x] = "live",
         \A y \in Objects : y # x => st[y] = state[y],
         Replace(h, s, x, st),
         \A g \in Handles, t \in Slots : slot[g][t] # x,
         wrap' \in [Kinds -> Pointers], moved' \in [Kinds -> BOOLEAN],
         \A k \in Kinds : Held(k)' <=> Held(k) /\ wrap[k] # x,
         \A k \in Kinds : Held(k)' => wrap'[k] = wrap[k],
         UNCHANGED <<c, db, dbOpts>>, KeepsShared
  PROVE  IInv'
<1> USE DEF IInv
<1> DEFINE old == slot[h][s]
<1>1. /\ state' = Freed(st, {old})
      /\ slot' \in [Handles -> [Slots -> Pointers]]
      /\ slot'[h][s] = x
      /\ \A g \in Handles, t \in Slots :
           g # h \/ t # s => slot'[g][t] = slot[g][t]
      /\ \A g \in Handles : g # h => slot'[g] = slot[g]
      /\ ref' = slot'
  <2>1. slot' = [slot EXCEPT ![h] = [slot[h] EXCEPT ![s] = x]]
    BY DEF Replace, TypeOK
  <2>2. ref' = [ref EXCEPT ![h] = [ref[h] EXCEPT ![s] = x]]
    BY DEF Replace, TypeOK
  <2>3. ref = slot
    BY DEF RefIsSlot, TypeOK
  <2>4. slot' \in [Handles -> [Slots -> Pointers]]
    BY <2>1 DEF TypeOK, Pointers
  <2>5. slot'[h] = [slot[h] EXCEPT ![s] = x] /\ slot[h] \in [Slots -> Pointers]
    BY <2>1 DEF TypeOK
  <2>6. slot'[h][s] = x /\ \A t \in Slots : t # s => slot'[h][t] = slot[h][t]
    BY <2>5
  <2>7. \A g \in Handles : g # h => slot'[g] = slot[g]
    BY <2>1 DEF TypeOK
  <2>8. ref' = slot'
    BY <2>1, <2>2, <2>3
  <2>9. ASSUME NEW y \in Objects, y \in Shares(ref, db)
        PROVE  y \in Shares(ref', db)
    <3>1. PICK g \in Handles, t \in Shared : slot[g][t] = y
      BY <2>9, SharesOfSlots
    <3>2. slot[g][t] # Nil /\ t \in Slots
      BY <3>1, OwnershipAssumption DEF Shared, Slots
    <3>3. slot'[g][t] = y
      BY <3>1, <3>2 DEF KeepsShared
    <3> QED
      BY <2>8, <3>1, <3>3 DEF Shares
  <2>10. Freed(st, {old}) \in [Objects -> {"none", "live", "freed", "twice"}]
    BY DEF Freed
  <2>11. state' = Freed(st, {old})
    BY <2>9, <2>10, NothingDropped DEF Replace
  <2> QED
    BY <2>4, <2>6, <2>7, <2>8, <2>11
<1>2. old # x /\ x # Nil
  BY OwnershipAssumption
<1>3. old # Nil => old \in Objects /\ st[old] = "live"
  BY <1>2 DEF GoOwner, TypeOK, Pointers
<1>4. /\ state' \in [Objects -> {"none", "live", "freed", "twice"}]
      /\ state'[x] = "live"
      /\ \A y \in Objects : y # x /\ y # old => state'[y] = state[y]
      /\ old # Nil => state'[old] = "freed"
      /\ \A y \in Objects : state'[y] # "twice"
  <2>1. state' = [y \in Objects |-> IF y \notin {old} THEN st[y]
                                   ELSE IF st[y] = "live" THEN "freed" ELSE "twice"]
    BY <1>1 DEF Freed
  <2>2. \A y \in Objects : y # old => state'[y] = st[y]
    BY <2>1
  <2>3. old # Nil => state'[old] = "freed"
    BY <2>1, <1>3
  <2>4. \A y \in Objects : state'[y] \in {"none", "live", "freed"}
    BY <2>2, <2>3, OwnershipAssumption
  <2>5. state' \in [Objects -> {"none", "live", "freed", "twice"}]
    BY <2>1, <2>4
  <2> QED
    BY <1>2, <2>2, <2>3, <2>4, <2>5
<1>5. /\ \A g \in Handles, t \in Slots : slot[g][t] # Nil => slot[g][t] \in Objects
      /\ \A k \in Kinds : Held(k) => wrap[k] \in Objects
  BY DEF TypeOK, Pointers, Held
<1>6. TypeOK'
  <2>1. ref' \in [Handles -> [Slots -> Pointers]]
    BY <1>1
  <2>2. \A g \in Handles : ~ c'[g] => slot'[g] = Empty
    BY <1>1 DEF TypeOK
  <2> QED
    BY <1>1, <1>4, <2>1, <2>2 DEF TypeOK
<1>7. FreedOnce'
  BY <1>4 DEF FreedOnce
<1>8. GoOwner'
  <2>1. ASSUME NEW g \in Handles, NEW t \in Slots, g # h \/ t # s, slot'[g][t] # Nil
        PROVE  /\ slot'[g][t] = slot[g][t] /\ slot[g][t] # old /\ slot[g][t] # x
               /\ state'[slot[g][t]] = state[slot[g][t]]
    <3>1. slot'[g][t] = slot[g][t] /\ slot[g][t] \in Objects
      BY <1>1, <1>5, <2>1
    <3>2. slot[g][t] # old
      BY <2>1, <3>1 DEF GoOwner
    <3> QED
      BY <1>4, <3>1, <3>2
  <2>2. ASSUME NEW k \in Kinds, Held(k)'
        PROVE  /\ Held(k) /\ wrap'[k] = wrap[k] /\ wrap[k] # old /\ wrap[k] # x
               /\ state'[wrap[k]] = state[wrap[k]]
    <3>1. wrap[k] # old
      BY <2>2 DEF GoOwner, Held
    <3> QED
      BY <1>4, <1>5, <2>2, <3>1
  <2>3. \A g \in Handles, t \in Slots : slot'[g][t] # Nil =>
          /\ state'[slot'[g][t]] = "live"
          /\ \A f \in Handles, u \in Slots :
               slot'[f][u] = slot'[g][t] => f = g /\ u = t
          /\ \A k \in Kinds : Held(k)' => wrap'[k] # slot'[g][t]
    <3>1. ASSUME NEW g \in Handles, NEW t \in Slots, slot'[g][t] # Nil
          PROVE  state'[slot'[g][t]] = "live"
      <4>1. CASE g = h /\ t = s
        BY <1>1, <1>4, <4>1
      <4>2. CASE g # h \/ t # s
        BY <2>1, <3>1, <4>2 DEF GoOwner
      <4> QED
        BY <4>1, <4>2
    <3>2. ASSUME NEW g \in Handles, NEW t \in Slots, slot'[g][t] # Nil,
                 NEW f \in Handles, NEW u \in Slots, slot'[f][u] = slot'[g][t]
          PROVE  f = g /\ u = t
      <4>1. CASE g = h /\ t = s
        BY <1>1, <2>1, <3>2, <4>1
      <4>2. CASE f = h /\ u = s
        BY <1>1, <2>1, <3>2, <4>2
      <4>3. CASE (g # h \/ t # s) /\ (f # h \/ u # s)
        BY <1>1, <3>2, <4>3 DEF GoOwner
      <4> QED
        BY <4>1, <4>2, <4>3
    <3>3. ASSUME NEW g \in Handles, NEW t \in Slots, slot'[g][t] # Nil,
                 NEW k \in Kinds, Held(k)'
          PROVE  wrap'[k] # slot'[g][t]
      BY <1>1, <2>1, <2>2, <3>3 DEF GoOwner
    <3> QED
      BY <3>1, <3>2, <3>3
  <2>4. \A k \in Kinds : Held(k)' =>
          /\ state'[wrap'[k]] = "live"
          /\ \A j \in Kinds : Held(j)' /\ wrap'[j] = wrap'[k] => j = k
    BY <2>2 DEF GoOwner
  <2> QED
    BY <2>3, <2>4 DEF GoOwner
<1>9. NoLeak'
  <2>1. ASSUME NEW y \in Objects, state'[y] = "live", y # x
        PROVE  \/ \E g \in Handles, t \in Slots : slot'[g][t] = y
               \/ \E k \in Kinds : Held(k)' /\ wrap'[k] = y
    <3>1. y # old /\ state[y] = "live"
      BY <1>4, <2>1, OwnershipAssumption
    <3>2. CASE \E g \in Handles, t \in Slots : slot[g][t] = y
      BY <1>1, <3>1, <3>2
    <3>3. CASE \E k \in Kinds : Held(k) /\ wrap[k] = y
      BY <2>1, <3>3
    <3> QED
      BY <3>1, <3>2, <3>3 DEF NoLeak
  <2> QED
    BY <1>1, <2>1 DEF NoLeak
<1>10. RefIsSlot' /\ DbFollows'
  BY <1>1 DEF RefIsSlot, DbFollows, TypeOK
<1> QED
  BY <1>6, <1>7, <1>8, <1>9, <1>10

\* SetComparator and SetEnv: the wrapper's pointer is nil afterwards.
LEMMA MoveStep ==
  ASSUME IInv, NEW h \in Handles, NEW s \in {"ccmp", "env"}, c[h], dbOpts # h,
         ~ moved[s], Move(h, s), KeepsShared
  PROVE  IInv'
<1> USE DEF IInv
<1> DEFINE x == wrap[s]
<1>1. s \in Slots /\ s \in Kinds
  BY DEF Slots, Kinds
<1>2. x \in Objects /\ Held(s) /\ state[x] = "live"
  BY <1>1 DEF Move, Held, TypeOK, Pointers, GoOwner
<1>3. state \in [Objects -> {"none", "live", "freed"}]
  BY DEF TypeOK, FreedOnce
<1>4. \A g \in Handles, t \in Slots : slot[g][t] # x
  BY <1>1, <1>2, OwnershipAssumption DEF GoOwner
<1>5. /\ wrap' \in [Kinds -> Pointers] /\ moved' \in [Kinds -> BOOLEAN]
      /\ ~ Held(s)'
      /\ \A k \in Kinds : k # s => wrap'[k] = wrap[k] /\ Held(k)' = Held(k)
  BY <1>1 DEF Move, TypeOK, Held, Pointers
<1>6. \A k \in Kinds : Held(k) /\ wrap[k] = x => k = s
  BY <1>1, <1>2 DEF GoOwner
<1>7. /\ \A k \in Kinds : Held(k)' <=> Held(k) /\ wrap[k] # x
      /\ \A k \in Kinds : Held(k)' => wrap'[k] = wrap[k]
  BY <1>5, <1>6
<1>8. Replace(h, s, x, state) /\ UNCHANGED <<c, db, dbOpts>>
  BY DEF Move
<1> HIDE DEF x
<1> QED
  BY <1>1, <1>2, <1>3, <1>4, <1>5, <1>7, <1>8, ReplaceStep

\* The setters given a native wrapper, which is not nil afterwards.
LEMMA ShareStep ==
  ASSUME IInv, NEW h \in Handles, NEW s \in Slots, c[h], dbOpts # h, Share(h, s),
         KeepsShared
  PROVE  IInv'
<1> USE DEF IInv
<1> DEFINE x == wrap[s]
<1>1. s \in Kinds
  BY DEF Slots, Kinds
<1>2. x \in Objects /\ Held(s) /\ state[x] = "live"
  BY <1>1 DEF Share, Held, TypeOK, Pointers, GoOwner
<1>3. state \in [Objects -> {"none", "live", "freed"}]
  BY DEF TypeOK, FreedOnce
<1>4. \A g \in Handles, t \in Slots : slot[g][t] # x
  BY <1>1, <1>2, OwnershipAssumption DEF GoOwner
<1>5. /\ wrap' \in [Kinds -> Pointers] /\ moved' \in [Kinds -> BOOLEAN]
      /\ ~ Held(s)'
      /\ \A k \in Kinds : k # s => wrap'[k] = wrap[k] /\ Held(k)' = Held(k)
  BY <1>1 DEF Share, TypeOK, Held, Pointers
<1>6. \A k \in Kinds : Held(k) /\ wrap[k] = x => k = s
  BY <1>1, <1>2 DEF GoOwner
<1>7. /\ \A k \in Kinds : Held(k)' <=> Held(k) /\ wrap[k] # x
      /\ \A k \in Kinds : Held(k)' => wrap'[k] = wrap[k]
  BY <1>5, <1>6
<1>8. Replace(h, s, x, state) /\ UNCHANGED <<c, db, dbOpts>>
  BY DEF Share
<1> HIDE DEF x
<1> QED
  BY <1>2, <1>3, <1>4, <1>5, <1>7, <1>8, ReplaceStep

\* The setters given a Go object, and SetNativeComparator.
LEMMA AdoptStep ==
  ASSUME IInv, NEW h \in Handles, NEW s \in Slots, NEW x \in Objects,
         c[h], dbOpts # h, Adopt(h, s, x), KeepsShared
  PROVE  IInv'
<1> USE DEF IInv
<1>1. /\ Allocated(state, x) \in [Objects -> {"none", "live", "freed"}]
      /\ Allocated(state, x)[x] = "live"
      /\ \A y \in Objects : y # x => Allocated(state, x)[y] = state[y]
  BY DEF Allocated, TypeOK, FreedOnce
<1>2. /\ \A g \in Handles, t \in Slots : slot[g][t] # x
      /\ \A k \in Kinds : Held(k) => wrap[k] # x
  BY OwnershipAssumption DEF Adopt, GoOwner
<1>3. /\ wrap' \in [Kinds -> Pointers] /\ moved' \in [Kinds -> BOOLEAN]
      /\ \A k \in Kinds : Held(k)' <=> Held(k) /\ wrap[k] # x
      /\ \A k \in Kinds : Held(k)' => wrap'[k] = wrap[k]
  BY <1>2 DEF Adopt, TypeOK, Held
<1>4. Replace(h, s, x, Allocated(state, x)) /\ UNCHANGED <<c, db, dbOpts>>
  BY DEF Adopt
<1> QED
  BY <1>1, <1>2, <1>3, <1>4, ReplaceStep

-----------------------------------------------------------------------------
\* Every step

\* The invariant holds at first.
LEMMA InitInv == Init => Inv
<1>1. Init => NilWhenMoved
  BY DEF Init, NilWhenMoved, Kinds, Slots
<1> QED
  BY <1>1, InitIInv DEF Inv

\* Only the setters that share a pointer mark a wrapper as moved.
LEMMA NextNilWhenMoved == Inv /\ [Next]_vars => NilWhenMoved'
<1> SUFFICES ASSUME Inv, [Next]_vars
             PROVE  NilWhenMoved'
  OBVIOUS
<1> USE DEF Inv, IInv
<1>1. moved \in [Kinds -> BOOLEAN] /\ {"ccmp", "env", "copied"} \subseteq Kinds
  BY DEF TypeOK, Kinds, Slots
<1>2. CASE UNCHANGED moved
  BY <1>2 DEF NilWhenMoved
<1>3. ASSUME NEW k \in Kinds, NEW x \in Objects, NewWrapper(k, x)
      PROVE  NilWhenMoved'
  BY <1>1, <1>3 DEF NewWrapper, NilWhenMoved
<1>4. ASSUME NEW h \in Handles, NEW s \in {"ccf", "cmo", "cst"}, Share(h, s)
      PROVE  NilWhenMoved'
  BY <1>1, <1>4 DEF Share, NilWhenMoved
<1>5. ASSUME NEW h \in Handles, Set(h)
      PROVE  NilWhenMoved'
  <2>1. \/ UNCHANGED moved
        \/ \E s \in {"ccf", "cmo", "cst"} : Share(h, s)
    BY <1>5 DEF Set, SetComparator, SetEnv, SetCompactionFilter, SetMergeOperator,
       SetPrefixExtractor, SetByCopy, SetNativeComparator, Move, Adopt, DestroyWrapper
  <2> QED
    BY <2>1, <1>2, <1>4
<1>6. \/ UNCHANGED moved
      \/ \E k \in Kinds, x \in Objects : NewWrapper(k, x)
      \/ \E h \in Handles : Set(h)
  BY DEF Next, Steps, Copies, Clone, GetOptionsFromString, DestroyWrapper,
     NewDefaultOptions, OpenDb, Destroy, Close, vars
<1> QED
  BY <1>2, <1>3, <1>5, <1>6

\* Every setter, called on Options that no open database uses.
LEMMA SetStep ==
  ASSUME Inv, NEW h \in Handles, c[h], dbOpts # h, Set(h), KeepsShared
  PROVE  IInv'
<1> USE DEF Inv
<1>1. CASE SetComparator(h)
  BY <1>1, MoveStep DEF SetComparator, NilWhenMoved
<1>2. CASE SetEnv(h)
  BY <1>2, MoveStep DEF SetEnv, NilWhenMoved
<1>3. CASE SetCompactionFilter(h)
  BY <1>3, ShareStep, AdoptStep DEF SetCompactionFilter, Slots
<1>4. CASE SetMergeOperator(h)
  BY <1>4, ShareStep, AdoptStep DEF SetMergeOperator, Slots
<1>5. CASE SetPrefixExtractor(h)
  BY <1>5, ShareStep, AdoptStep DEF SetPrefixExtractor, Slots
<1>6. CASE SetByCopy(h)
  <2>1. "copied" \in Kinds /\ Held("copied")
    BY <1>6 DEF SetByCopy, Kinds, Held, NilWhenMoved
  <2> QED
    BY <1>6, <2>1, DestroyWrapperStep DEF SetByCopy
<1>7. CASE \E x \in Objects : SetNativeComparator(h, x)
  BY <1>7, AdoptStep DEF SetNativeComparator, Slots
<1> QED
  BY <1>1, <1>2, <1>3, <1>4, <1>5, <1>6, <1>7 DEF Set

\* Copies of Options that have no objects yet.
LEMMA CopiesStep ==
  ASSUME IInv, NEW h \in Handles, NEW k \in Handles, slot[h] = Empty, Copies(h, k)
  PROVE  IInv'
<1>1. ref[h] = Empty
  BY DEF IInv, RefIsSlot
<1>2. CASE Clone(h, k)
  <2>1. /\ c' \in [Handles -> BOOLEAN]
        /\ \A g \in Handles : g # k => c'[g] = c[g]
    BY <1>2 DEF Clone, IInv, TypeOK
  <2> QED
    BY <1>1, <1>2, <2>1, EmptyHandleStep DEF Clone
<1>3. CASE GetOptionsFromString(h, k)
  <2>1. PICK parsed \in BOOLEAN :
          /\ c' = [c EXCEPT ![k] = parsed]
          /\ ref' = [ref EXCEPT ![k] = IF parsed THEN ref[h] ELSE Empty]
    BY <1>3 DEF GetOptionsFromString
  <2>2. /\ c' \in [Handles -> BOOLEAN]
        /\ \A g \in Handles : g # k => c'[g] = c[g]
    BY <2>1 DEF IInv, TypeOK
  <2>3. ref' = [ref EXCEPT ![k] = Empty]
    BY <1>1, <2>1
  <2> QED
    BY <1>3, <2>2, <2>3, EmptyHandleStep DEF GetOptionsFromString
<1> QED
  BY <1>2, <1>3 DEF Copies

\* The invariant is inductive.
LEMMA NextInv == Inv /\ [Next]_vars => Inv'
<1> SUFFICES ASSUME Inv, [Next]_vars
             PROVE  IInv'
  BY NextNilWhenMoved DEF Inv
<1>0. IInv
  BY DEF Inv
<1>1. ASSUME NEW k \in Kinds, NEW x \in Objects, NewWrapper(k, x)
      PROVE  IInv'
  BY <1>0, <1>1, NewWrapperStep
<1>2. ASSUME NEW k \in Kinds, DestroysWrapper(k), DestroyWrapper(k)
      PROVE  IInv'
  <2>1. wrap[k] = Nil \/ Held(k)
    BY <1>2 DEF DestroysWrapper, Held, Inv, NilWhenMoved
  <2> QED
    BY <1>0, <1>2, <2>1, DestroyWrapperStep
<1>3. ASSUME NEW h \in Handles, NewDefaultOptions(h)
      PROVE  IInv'
  <2>1. /\ c' \in [Handles -> BOOLEAN]
        /\ \A g \in Handles : g # h => c'[g] = c[g]
    BY <1>0, <1>3 DEF NewDefaultOptions, IInv, TypeOK
  <2> QED
    BY <1>0, <1>3, <2>1, EmptyHandleStep DEF NewDefaultOptions
<1>4. ASSUME NEW h \in Handles, OpenDb(h)
      PROVE  IInv'
  BY <1>0, <1>4, OwnershipAssumption DEF OpenDb, IInv, TypeOK, FreedOnce, GoOwner,
     NoLeak, RefIsSlot, DbFollows, Held
<1>5. ASSUME NEW h \in Handles, dbOpts # h, c[h], Set(h), KeepsShared
      PROVE  IInv'
  BY <1>5, SetStep
<1>6. ASSUME NEW h \in Handles, dbOpts # h, Destroy(h), KeepsShared
      PROVE  IInv'
  BY <1>0, <1>6, DestroyStep
<1>7. CASE Close
  <2>1. ASSUME NEW x \in Objects, x \in Shares(ref, db)
        PROVE  x \in Shares(ref, Empty)
    BY <1>0, <2>1, SharesOfSlots DEF Shares
  <2>2. state' = state
    BY <1>0, <1>7, <2>1, NothingDropped DEF Close, IInv, TypeOK
  <2> QED
    BY <1>0, <1>7, <2>2, EmptyIsNil DEF Close, IInv, TypeOK, FreedOnce, GoOwner,
       NoLeak, RefIsSlot, DbFollows, Held
<1>8. ASSUME NEW h \in Handles, NEW k \in Handles, slot[h] = Empty, Copies(h, k)
      PROVE  IInv'
  BY <1>0, <1>8, CopiesStep
<1>9. CASE UNCHANGED vars
  BY <1>0, <1>9 DEF vars, IInv, TypeOK, FreedOnce, GoOwner, NoLeak, RefIsSlot,
     DbFollows, Held
<1> QED
  BY <1>1, <1>2, <1>3, <1>4, <1>5, <1>6, <1>7, <1>8, <1>9 DEF Next, Steps

\* The invariant holds in every state that a careful client reaches.
THEOREM Invariance == Spec => []Inv
<1>1. Init => Inv
  BY InitInv
<1>2. Inv /\ [Next]_vars => Inv'
  BY NextInv
<1> QED
  BY <1>1, <1>2, PTL DEF Spec

\* Type correctness: in particular, destroyed Options are zero again.
THEOREM TypeCorrect == Spec => []TypeOK
<1>1. Inv => TypeOK
  BY DEF Inv, IInv
<1> QED
  BY <1>1, Invariance, PTL

\* No native object is freed twice, by Go's destroy functions or by the native
\* side with its last share, as long as the client neither replaces a merge
\* operator or prefix extractor nor destroys the Options that have one: Destroy
\* and the setters of options.go do free those twice.
THEOREM FreedOnceAlways == Spec => []FreedOnce
<1>1. Inv => FreedOnce
  BY DEF Inv, IInv
<1> QED
  BY <1>1, Invariance, PTL

\* Every object has one owner, and the owner's object is there; a second one, the
\* native side, has a share of what is in the slots of SetMergeOperator and
\* SetPrefixExtractor and of nothing else.
THEOREM SoleOwnerAlways == Spec => []SoleOwner
<1>1. Inv => SoleOwner
  BY SharesAreOfSlots DEF Inv, IInv, SoleOwner
<1> QED
  BY <1>1, Invariance, PTL

\* No object is lost by those that should free it.
THEOREM NoLeakAlways == Spec => []NoLeak
<1>1. Inv => NoLeak
  BY DEF Inv, IInv
<1> QED
  BY <1>1, Invariance, PTL

\* The native options never point to freed memory.
THEOREM NativeSeesLiveAlways == Spec => []NativeSeesLive
<1>1. Inv => NativeSeesLive
  BY DEF Inv, IInv, RefIsSlot, GoOwner, NativeSeesLive
<1> QED
  BY <1>1, Invariance, PTL

\* An open database never calls back through freed memory.
THEOREM CallbacksAliveAlways == Spec => []CallbacksAlive
<1>1. Inv => CallbacksAlive
  <2> SUFFICES ASSUME Inv, NEW s \in Slots, db[s] # Nil
               PROVE  state[db[s]] = "live"
    BY DEF CallbacksAlive
  <2>1. dbOpts # Nil /\ dbOpts \in Handles /\ db = slot[dbOpts]
    BY EmptyIsNil DEF Inv, IInv, DbFollows, TypeOK
  <2> QED
    BY <2>1 DEF Inv, IInv, GoOwner
<1> QED
  BY <1>1, Invariance, PTL

=============================================================================

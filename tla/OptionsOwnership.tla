--------------------------- MODULE OptionsOwnership ---------------------------
(***************************************************************************)
(* Who frees which native object.  Go's collector does not see memory of   *)
(* the C heap: every object made by the C API has one holder that must     *)
(* free it, the Go wrapper it was made with or, once a setter of Options   *)
(* has moved it, the Options.  The native options and an open database     *)
(* keep raw pointers to the comparator, the compaction filter and the      *)
(* environment and free none of them; the merge operator and the prefix    *)
(* extractor they share with each other, and the last one deletes it.      *)
(*                                                                         *)
(* The client is one goroutine (Options has no lock).  NextCommented is a  *)
(* client that does what the comments say: it hands a wrapper over once    *)
(* and does not touch the Options of an open database.  Next does two      *)
(* things less, which no comment asks for: it copies Options only while    *)
(* they have no objects, and what the native options share it leaves       *)
(* alone: it neither sets it again nor destroys its Options.               *)
(***************************************************************************)
EXTENDS Naturals

CONSTANTS
  Handles,  \* variables of type Options
  Objects,  \* the native objects the client may make
  Nil       \* the nil pointer

ASSUME OwnershipAssumption == Nil \notin Objects \cup Handles

VARIABLES
  state,    \* state[x]: not allocated yet, live, freed, or freed again
  c,        \* c[h]: whether Options.c of h is not nil
  slot,     \* slot[h][s]: the pointers that Options.Destroy will free
  ref,      \* ref[h][s]: the pointers inside the native options of h
  wrap,     \* wrap[k]: the pointer in the client's wrapper of kind k
  moved,    \* moved[k]: the client gave that wrapper away, and it kept its pointer
  db,       \* db[s]: the pointers inside the open database
  dbOpts    \* the Options the database was opened with, or Nil

vars == <<state, c, slot, ref, wrap, moved, db, dbOpts>>

Slots == {"ccmp", "cmo", "cst", "ccf", "env"}

\* The slots whose setter wraps the pointer in a shared_ptr of the native options.
Shared == {"cmo", "cst"}

\* Wrappers of the objects of the slots, and of those a setter copies:
\* compaction options, rate limiter, cuckoo table options.
Kinds == Slots \cup {"copied"}

Pointers == Objects \cup {Nil}

Empty == [s \in Slots |-> Nil]

\* Every Go variable starts out zero; a destroyed Options is zero again.
TypeOK ==
  /\ state \in [Objects -> {"none", "live", "freed", "twice"}]
  /\ c \in [Handles -> BOOLEAN]
  /\ slot \in [Handles -> [Slots -> Pointers]]
  /\ \A h \in Handles : ~ c[h] => slot[h] = Empty
  /\ ref \in [Handles -> [Slots -> Pointers]]
  /\ wrap \in [Kinds -> Pointers]
  /\ moved \in [Kinds -> BOOLEAN]
  /\ db \in [Slots -> Pointers]
  /\ dbOpts \in Handles \cup {Nil}

Init ==
  /\ state = [x \in Objects |-> "none"]
  /\ c = [h \in Handles |-> FALSE]
  /\ slot = [h \in Handles |-> Empty]
  /\ ref = [h \in Handles |-> Empty]
  /\ wrap = [k \in Kinds |-> Nil]
  /\ moved = [k \in Kinds |-> FALSE]
  /\ db = Empty
  /\ dbOpts = Nil

-----------------------------------------------------------------------------
\* Memory

Allocated(st, x) == [st EXCEPT ![x] = "live"]

\* rocksdb_*_destroy of every pointer of a set; destroying nil does nothing.
Freed(st, xs) ==
  [x \in Objects |-> IF x \notin xs THEN st[x]
                     ELSE IF st[x] = "live" THEN "freed" ELSE "twice"]

\* The objects that native options, by r, or the database, by d, have a share of.
Shares(r, d) == {r[h][s] : h \in Handles, s \in Shared} \cup {d[s] : s \in Shared}

\* Those whose last share goes when the native pointers become r and d.  The
\* native side deletes them.
LastShares(r, d) == Shares(ref, db) \ Shares(r, d)

-----------------------------------------------------------------------------
\* The wrappers

\* NewComparator, NewNativeMergeOperator, NewFixedPrefixTransform, NewMemEnv...
NewWrapper(k, x) ==
  /\ wrap[k] = Nil \/ moved[k]
  /\ state[x] = "none"
  /\ state' = Allocated(state, x)
  /\ wrap' = [wrap EXCEPT ![k] = x]
  /\ moved' = [moved EXCEPT ![k] = FALSE]
  /\ UNCHANGED <<c, slot, ref, db, dbOpts>>

\* Destroy of a wrapper: frees its pointer, sets it to nil.
DestroyWrapper(k) ==
  /\ state' = Freed(state, {wrap[k]})
  /\ wrap' = [wrap EXCEPT ![k] = Nil]
  /\ UNCHANGED <<c, slot, ref, moved, db, dbOpts>>

-----------------------------------------------------------------------------
\* Making, copying and destroying Options

NewDefaultOptions(h) ==
  /\ ~ c[h]
  /\ c' = [c EXCEPT ![h] = TRUE]
  /\ slot' = [slot EXCEPT ![h] = Empty]
  /\ ref' = [ref EXCEPT ![h] = Empty]
  /\ UNCHANGED <<state, wrap, moved, db, dbOpts>>

\* cloned := *opts copies the slots; the native options copy their pointers.
Clone(h, k) ==
  /\ c[h] /\ ~ c[k]
  /\ c' = [c EXCEPT ![k] = TRUE]
  /\ slot' = [slot EXCEPT ![k] = slot[h]]
  /\ ref' = [ref EXCEPT ![k] = ref[h]]
  /\ UNCHANGED <<state, wrap, moved, db, dbOpts>>

\* GetOptionsFromString(base, optStr): the new Options have no slots, whatever
\* the native options took from base; when the string does not parse, the
\* caller is given Options that were destroyed already.
GetOptionsFromString(h, k) ==
  /\ c[h] /\ ~ c[k]
  /\ \E parsed \in BOOLEAN :
       /\ c' = [c EXCEPT ![k] = parsed]
       /\ ref' = [ref EXCEPT ![k] = IF parsed THEN ref[h] ELSE Empty]
  /\ slot' = [slot EXCEPT ![k] = Empty]
  /\ UNCHANGED <<state, wrap, moved, db, dbOpts>>

\* The native options go, with their shares; what the objects are then.
NativeDestroyed(h) == Freed(state, LastShares([ref EXCEPT ![h] = Empty], db))

\* A Destroy that frees the objects and forgets to reset the slots.
DestroyNoReset(h) ==
  /\ state' = Freed(NativeDestroyed(h), {slot[h][s] : s \in Slots})
  /\ c' = [c EXCEPT ![h] = FALSE]
  /\ ref' = [ref EXCEPT ![h] = Empty]
  /\ UNCHANGED <<slot, wrap, moved, db, dbOpts>>
\* A Destroy that forgets the environment.
DestroyNoEnv(h) ==
  /\ state' = Freed(NativeDestroyed(h), {slot[h][s] : s \in Slots \ {"env"}})
  /\ c' = [c EXCEPT ![h] = FALSE]
  /\ slot' = [slot EXCEPT ![h] = Empty]
  /\ ref' = [ref EXCEPT ![h] = Empty]
  /\ UNCHANGED <<wrap, moved, db, dbOpts>>
\* rocksdb_options_destroy, then the destroy function of each slot.
Destroy(h) ==
  /\ state' = Freed(NativeDestroyed(h), {slot[h][s] : s \in Slots})
  /\ c' = [c EXCEPT ![h] = FALSE]
  /\ slot' = [slot EXCEPT ![h] = Empty]
  /\ ref' = [ref EXCEPT ![h] = Empty]
  /\ UNCHANGED <<wrap, moved, db, dbOpts>>

-----------------------------------------------------------------------------
\* The setters of Options

\* The old object of the slot is destroyed, the new one stored and handed to
\* the native options, which drop their share of the old one if they have one.
\* st is the memory before the call, fresh objects included.
Replace(h, s, x, st) ==
  /\ state' = Freed(Freed(st, {slot[h][s]}), LastShares([ref EXCEPT ![h][s] = x], db))
  /\ slot' = [slot EXCEPT ![h][s] = x]
  /\ ref' = [ref EXCEPT ![h][s] = x]

\* A setter that forgets to tell the native options.
NativeNotTold(h, s) ==
  /\ wrap[s] # Nil
  /\ state' = Freed(state, {slot[h][s]})
  /\ slot' = [slot EXCEPT ![h][s] = wrap[s]]
  /\ wrap' = [wrap EXCEPT ![s] = Nil]
  /\ UNCHANGED <<c, ref, moved, db, dbOpts>>
\* A setter that leaves the pointer in the wrapper.
WrapperKept(h, s) ==
  /\ wrap[s] # Nil
  /\ Replace(h, s, wrap[s], state)
  /\ UNCHANGED <<c, wrap, moved, db, dbOpts>>
\* Moves the wrapper's object and sets the wrapper's pointer to nil.
Move(h, s) ==
  /\ wrap[s] # Nil
  /\ Replace(h, s, wrap[s], state)
  /\ wrap' = [wrap EXCEPT ![s] = Nil]
  /\ UNCHANGED <<c, moved, db, dbOpts>>

\* A setter that destroys its argument like those that copy it.
DestroyHanded(h, s) ==
  /\ wrap[s] # Nil /\ ~ moved[s]
  /\ Replace(h, s, wrap[s], Freed(state, {wrap[s]}))
  /\ moved' = [moved EXCEPT ![s] = TRUE]
  /\ UNCHANGED <<c, wrap, db, dbOpts>>
\* Moves the object of a native wrapper, which keeps the pointer.
Share(h, s) ==
  /\ wrap[s] # Nil /\ ~ moved[s]
  /\ Replace(h, s, wrap[s], state)
  /\ moved' = [moved EXCEPT ![s] = TRUE]
  /\ UNCHANGED <<c, wrap, db, dbOpts>>

\* Stores an object that the call is the first to hold: one made around a
\* registered Go object, or one the client made in C.
Adopt(h, s, x) ==
  /\ state[x] = "none"
  /\ Replace(h, s, x, Allocated(state, x))
  /\ UNCHANGED <<c, wrap, moved, db, dbOpts>>

SetComparator(h) == Move(h, "ccmp")
SetNativeComparator(h, x) == Adopt(h, "ccmp", x)
SetEnv(h) == Move(h, "env")
SetCompactionFilter(h) == Share(h, "ccf") \/ \E x \in Objects : Adopt(h, "ccf", x)
SetMergeOperator(h) == Share(h, "cmo") \/ \E x \in Objects : Adopt(h, "cmo", x)
SetPrefixExtractor(h) == Share(h, "cst") \/ \E x \in Objects : Adopt(h, "cst", x)

\* SetUniversalCompactionOptions, SetFIFOCompactionOptions, SetRateLimiter,
\* SetCuckooTableFactory: the native options copy, the argument is destroyed.
SetByCopy(h) == c[h] /\ wrap["copied"] # Nil /\ DestroyWrapper("copied")

-----------------------------------------------------------------------------
\* The database

OpenDb(h) ==
  /\ c[h]
  /\ dbOpts = Nil
  /\ db' = ref[h]
  /\ dbOpts' = h
  /\ UNCHANGED <<state, c, slot, ref, wrap, moved>>

Close ==
  /\ dbOpts # Nil
  /\ state' = Freed(state, LastShares(ref, Empty))
  /\ db' = Empty
  /\ dbOpts' = Nil
  /\ UNCHANGED <<c, slot, ref, wrap, moved>>

-----------------------------------------------------------------------------
\* The client

Set(h) ==
  \/ SetComparator(h)
  \/ SetEnv(h)
  \/ SetCompactionFilter(h)
  \/ SetMergeOperator(h)
  \/ SetPrefixExtractor(h)
  \/ SetByCopy(h)
  \/ \E x \in Objects : SetNativeComparator(h, x)

\* A moved comparator has a nil pointer that is safe to destroy.  The others
\* keep their pointer, and rocksdb_env_destroy does not accept nil.
DestroysWrapper(k) == k = "ccmp" \/ (wrap[k] # Nil /\ ~ moved[k])

Steps ==
  \/ \E k \in Kinds, x \in Objects : NewWrapper(k, x)
  \/ \E k \in Kinds : DestroysWrapper(k) /\ DestroyWrapper(k)
  \/ \E h \in Handles :
       \/ NewDefaultOptions(h)
       \/ OpenDb(h)
       \/ dbOpts # h /\ c[h] /\ Set(h)
       \/ dbOpts # h /\ Destroy(h)
  \/ Close

Copies(h, k) == Clone(h, k) \/ GetOptionsFromString(h, k)

NextCommented == Steps \/ \E h, k \in Handles : Copies(h, k)

\* A merge operator or prefix extractor stays where it was set.
KeepsShared ==
  \A h \in Handles, s \in Shared : slot[h][s] # Nil => slot'[h][s] = slot[h][s]

Next ==
  /\ Steps \/ \E h, k \in Handles : slot[h] = Empty /\ Copies(h, k)
  /\ KeepsShared

Spec == Init /\ [][Next]_vars
SpecCommented == Init /\ [][NextCommented]_vars

-----------------------------------------------------------------------------
\* Properties

\* No object is freed twice, whatever the client destroys and in which order:
\* setters that replace an object, a wrapper destroyed after it was moved,
\* Options destroyed again, a database closed before or after.
FreedOnce == \A x \in Objects : state[x] # "twice"

Held(k) == wrap[k] # Nil /\ ~ moved[k]

\* On the Go side, whoever is to free an object is the only one to hold it.
GoOwner ==
  /\ \A h \in Handles, s \in Slots : slot[h][s] # Nil =>
       /\ state[slot[h][s]] = "live"
       /\ \A g \in Handles, t \in Slots :
            slot[g][t] = slot[h][s] => g = h /\ t = s
       /\ \A k \in Kinds : Held(k) => wrap[k] # slot[h][s]
  /\ \A k \in Kinds : Held(k) =>
       /\ state[wrap[k]] = "live"
       /\ \A j \in Kinds : Held(j) /\ wrap[j] = wrap[k] => j = k

\* The native side has a share of the objects in the Shared slots, of no other
\* object in a slot, and of none that a wrapper holds.
NativeOwner ==
  /\ \A h \in Handles, s \in Slots :
       slot[h][s] # Nil => (slot[h][s] \in Shares(ref, db) <=> s \in Shared)
  /\ \A k \in Kinds : Held(k) => wrap[k] \notin Shares(ref, db)

\* Whoever is to free an object is the only one to hold it, and the object is
\* there: two Options, two slots, two wrappers, or an Options and a wrapper never
\* answer for the same one, and the native side answers for none of them, but
\* for the merge operator and the prefix extractor of Options, which have two
\* owners as long as they are set.
SoleOwner == GoOwner /\ NativeOwner

\* Every object that was not freed is still held by someone who will free it
\* (nothing leaks when an object is replaced, moved or destroyed).
NoLeak ==
  \A x \in Objects : state[x] = "live" =>
    \/ \E h \in Handles, s \in Slots : slot[h][s] = x
    \/ \E k \in Kinds : Held(k) /\ wrap[k] = x

\* The native options never keep a pointer to an object that Go has freed, so
\* that a database opened later finds none.
NativeSeesLive ==
  \A h \in Handles, s \in Slots : ref[h][s] # Nil => state[ref[h][s]] = "live"

\* The comparator, merge operator, prefix extractor, compaction filter and
\* environment that an open database calls were not freed.
CallbacksAlive == \A s \in Slots : db[s] # Nil => state[db[s]] = "live"

=============================================================================

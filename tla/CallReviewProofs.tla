-------------------------- MODULE CallReviewProofs --------------------------
(***************************************************************************)
(* What passes the review is free of the faults of NativeCall, for lists   *)
(* of any length.  The argument: at each line some view of it matches the  *)
(* state, whatever the C API has answered.  So the demands the review      *)
(* makes of every view hold of the state.                                  *)
(***************************************************************************)
EXTENDS CallReview, DataInduction

\* What is true of a pointer, by the variables of NativeCall.
NoteOf(o, p, l, m, r) ==
    (IF o \in p THEN {"set"} ELSE {})
      \cup (IF o \in l THEN {"live"} ELSE {})
      \cup (IF o \in m THEN {"made"} ELSE {})
      \cup (IF o \notin DOMAIN r THEN {}
            ELSE IF r[o].freed THEN {"lent"}
            ELSE IF r[o].data = Null THEN {"nil"}
            ELSE {"given"})

Note(o) == NoteOf(o, ptr, live, native.made, result)

Mine == Objects(Tags(call))

\* The view is one of this state.
Signs(w) ==
    /\ "none" \in w.now <=> len = 0
    /\ "err" \in w.now <=> err
    /\ "failed" \in w.now <=> native.failed

Matches(w) ==
    /\ w = [now |-> w.now, of |-> w.of]
    /\ DOMAIN w.of = Tags(call)
    /\ Signs(w)
    /\ \A o \in Mine : Note(o) \in w.of[o[1]]

\* The function owns what it touches, and its error is in its error variables.
Frame ==
    /\ len \in Nat
    /\ err \in BOOLEAN /\ native.failed \in BOOLEAN
    /\ ptr \subseteq Mine /\ live \subseteq Mine /\ native.made \subseteq Mine
    /\ DOMAIN result \subseteq Mine
    /\ native.failed <=> Objects(ErrorTags) \cap ptr # {}
    /\ \A s \in DOMAIN result :
          result[s].freed \in BOOLEAN /\ (~result[s].freed => result[s].data \in {s, Null})

InFunction ==
    /\ call \in DOMAIN Programs
    /\ at \in 1..Len(Programs[call]) + 1
    /\ Frame
    /\ \E w \in Views(call)[at] : Matches(w)

Done ==
    /\ len \in Nat
    /\ ErrorReported /\ NothingLost /\ ResultsMatch
    /\ \A s \in Unreleased : result[s].data = s /\ s \in live

\* No function of this instance fails the review.
AllPass == \A f \in DOMAIN Programs : Passes(f)

IInv ==
    /\ OnlyLiveMemory
    /\ at # 0 => InFunction
    /\ at = 0 => Done

-----------------------------------------------------------------------------
(* The views of a function, line after line. *)

AreViews(v, f, n) ==
    v = [i \in 1..n + 1 |->
            IF i = 1 THEN Entry(f)
            ELSE Onward(v[i - 1], Programs[f][i - 1])]

LEMMA ViewsExist ==
    ASSUME NEW f
    PROVE  \A n \in Nat : \E v : AreViews(v, f, n)
<1> DEFINE T == {n \in Nat : \E v : AreViews(v, f, n)}
<1>1. 0 \in T
  <2>1. AreViews([i \in 1..0 + 1 |-> Entry(f)], f, 0)
    BY DEF AreViews
  <2>2. QED
    BY <2>1
<1>2. ASSUME NEW n \in Nat, n \in T PROVE n + 1 \in T
  <2>1. PICK v : AreViews(v, f, n)
    BY <1>2
  <2> DEFINE last == Onward(v[n + 1], Programs[f][n + 1])
  <2> DEFINE u == [i \in 1..n + 1 + 1 |-> IF i = n + 1 + 1 THEN last ELSE v[i]]
  <2> HIDE DEF last
  <2>2. \A i \in 1..n + 1 : v[i] = IF i = 1 THEN Entry(f)
                                   ELSE Onward(v[i - 1], Programs[f][i - 1])
    BY <2>1 DEF AreViews
  <2>3. ASSUME NEW i \in 1..n + 1 + 1
        PROVE  u[i] = IF i = 1 THEN Entry(f)
                      ELSE Onward(u[i - 1], Programs[f][i - 1])
    <3>1. CASE i = n + 1 + 1
      <4>1. u[i] = last /\ i - 1 = n + 1 /\ u[i - 1] = v[n + 1] /\ i # 1
        BY <3>1
      <4>2. QED
        BY <4>1 DEF last
    <3>2. CASE i # n + 1 + 1
      <4>1. i \in 1..n + 1 /\ u[i] = v[i] /\ (i # 1 => u[i - 1] = v[i - 1])
        BY <3>2
      <4>2. QED
        BY <4>1, <2>2
    <3>3. QED
      BY <3>1, <3>2
  <2>4. AreViews(u, f, n + 1)
    BY <2>3 DEF AreViews
  <2>5. QED
    BY <2>4
<1>3. QED
  BY <1>1, <1>2, SetInduction

LEMMA ViewsAre ==
    ASSUME NEW f \in DOMAIN Programs
    PROVE  /\ Views(f)[1] = Entry(f)
           /\ \A i \in 1..Len(Programs[f]) :
                 Views(f)[i + 1] = Onward(Views(f)[i], Programs[f][i])
<1> DEFINE n == Len(Programs[f])
<1>1. n \in Nat
  BY ProgramsAssumption
<1>2. \E v : AreViews(v, f, n)
  BY <1>1, ViewsExist
<1> DEFINE v == CHOOSE v : AreViews(v, f, n)
<1>3. AreViews(v, f, n)
  BY <1>2
<1>4. Views(f) = v
  BY DEF Views, AreViews
<1> HIDE DEF v
<1>5. \A i \in 1..n + 1 : v[i] = IF i = 1 THEN Entry(f)
                                 ELSE Onward(v[i - 1], Programs[f][i - 1])
  BY <1>3 DEF AreViews
<1>6. v[1] = Entry(f)
  BY <1>1, <1>5
<1>7. ASSUME NEW i \in 1..n
      PROVE  v[i + 1] = Onward(v[i], Programs[f][i])
  <2>1. i + 1 \in 1..n + 1 /\ i + 1 # 1 /\ (i + 1) - 1 = i
    BY <1>1
  <2>2. QED
    BY <1>5, <2>1
<1>8. QED
  BY <1>4, <1>6, <1>7

-----------------------------------------------------------------------------
(* Pointers and what is noted of them. *)

Places(t) == IF t \in PerElement THEN 1..len ELSE {0}

LEMMA ObjectsAre ==
    ASSUME NEW tags
    PROVE  \A o : o \in Objects(tags) <=> \E t \in tags : \E i \in Places(t) : o = <<t, i>>
BY DEF Objects, Places

LEMMA ObjectsOf ==
    ASSUME NEW tags, NEW more, tags \subseteq more, NEW o \in Objects(more)
    PROVE  /\ o \in Objects(tags) <=> o[1] \in tags
           /\ o[1] \in more /\ o[2] \in Places(o[1]) /\ o = <<o[1], o[2]>>
<1>1. PICK t \in more : \E i \in Places(t) : o = <<t, i>>
  BY ObjectsAre
<1>2. PICK i \in Places(t) : o = <<t, i>>
  BY <1>1
<1>3. o[1] = t /\ o[2] = i
  BY <1>2
<1>4. o \in Objects(tags) => t \in tags
  <2> SUFFICES ASSUME o \in Objects(tags) PROVE t \in tags
    OBVIOUS
  <2>1. PICK u \in tags : \E j \in Places(u) : o = <<u, j>>
    BY ObjectsAre
  <2>2. QED
    BY <1>3, <2>1
<1>5. t \in tags => o \in Objects(tags)
  BY <1>2, ObjectsAre
<1>6. QED
  BY <1>2, <1>3, <1>4, <1>5

LEMMA ObjectsGrow ==
    ASSUME NEW tags, NEW more, tags \subseteq more
    PROVE  Objects(tags) \subseteq Objects(more)
BY ObjectsAre

LEMMA NoteIs ==
    ASSUME NEW o, NEW p, NEW l, NEW m, NEW r, NEW n, n = NoteOf(o, p, l, m, r)
    PROVE  /\ n \in SUBSET Marks
           /\ "set" \in n <=> o \in p
           /\ "live" \in n <=> o \in l
           /\ "made" \in n <=> o \in m
           /\ "lent" \in n <=> o \in DOMAIN r /\ r[o].freed
           /\ "nil" \in n <=> o \in DOMAIN r /\ ~r[o].freed /\ r[o].data = Null
           /\ "given" \in n <=> o \in DOMAIN r /\ ~r[o].freed /\ r[o].data # Null
BY DEF NoteOf, Marks, Returned

\* The changes of notes are what the statements do to the variables.
LEMMA NoteChanges ==
    ASSUME NEW o, NEW p, NEW l, NEW m, NEW r, NEW n, n = NoteOf(o, p, l, m, r),
           NEW q, NEW j, NEW k, NEW u, NEW x, x = NoteOf(o, q, j, k, u)
    PROVE  /\ n \in SUBSET Marks
           /\ u = r /\ (o \in q <=> o \in p) /\ (o \in j <=> o \in l) /\ (o \in k <=> o \in m) => x = n
           /\ u = r /\ o \in q /\ o \in j /\ (o \in k <=> o \in m) => x = Copied(n)
           /\ u = r /\ o \in q /\ o \in j /\ o \in k => x = Made(n)
           /\ u = r /\ (o \in q <=> o \in p) /\ (o \in j <=> o \in l /\ o \notin p) /\ (o \in k <=> o \in m)
                => x = Freed(n)
           /\ q = p /\ j = l /\ k = m /\ o \in DOMAIN u /\ ~u[o].freed /\ o # Null
                /\ u[o].data = (IF o \in p THEN o ELSE Null) => x = Given(n)
           /\ q = p /\ j = l /\ k = m /\ o \in DOMAIN u /\ u[o].freed => x = Lent(n)
           /\ q = p /\ j = l /\ k = m /\ (o \in DOMAIN u <=> o \in DOMAIN r) /\ u[o] = r[o] => x = n
<1>1. /\ n \in SUBSET Marks
      /\ "set" \in n <=> o \in p
      /\ "live" \in n <=> o \in l
      /\ "made" \in n <=> o \in m
      /\ "lent" \in n <=> o \in DOMAIN r /\ r[o].freed
      /\ "nil" \in n <=> o \in DOMAIN r /\ ~r[o].freed /\ r[o].data = Null
      /\ "given" \in n <=> o \in DOMAIN r /\ ~r[o].freed /\ r[o].data # Null
  BY NoteIs
<1>2. /\ x \in SUBSET Marks
      /\ "set" \in x <=> o \in q
      /\ "live" \in x <=> o \in j
      /\ "made" \in x <=> o \in k
      /\ "lent" \in x <=> o \in DOMAIN u /\ u[o].freed
      /\ "nil" \in x <=> o \in DOMAIN u /\ ~u[o].freed /\ u[o].data = Null
      /\ "given" \in x <=> o \in DOMAIN u /\ ~u[o].freed /\ u[o].data # Null
  BY NoteIs
<1>3. ASSUME u = r, o \in q <=> o \in p, o \in j <=> o \in l, o \in k <=> o \in m PROVE x = n
  BY <1>1, <1>2, <1>3 DEF Marks, Returned
<1>4. ASSUME u = r, o \in q, o \in j, o \in k <=> o \in m PROVE x = Copied(n)
  BY <1>1, <1>2, <1>4 DEF Marks, Returned, Copied
<1>5. ASSUME u = r, o \in q, o \in j, o \in k PROVE x = Made(n)
  BY <1>1, <1>2, <1>5 DEF Marks, Returned, Made
<1>6. ASSUME u = r, o \in q <=> o \in p, o \in j <=> o \in l /\ o \notin p, o \in k <=> o \in m
      PROVE  x = Freed(n)
  BY <1>1, <1>2, <1>6 DEF Marks, Returned, Freed
<1>7. ASSUME q = p, j = l, k = m, o \in DOMAIN u, ~u[o].freed, o # Null,
             u[o].data = (IF o \in p THEN o ELSE Null)
      PROVE  x = Given(n)
  BY <1>1, <1>2, <1>7 DEF Marks, Returned, Given
<1>8. ASSUME q = p, j = l, k = m, o \in DOMAIN u, u[o].freed PROVE x = Lent(n)
  BY <1>1, <1>2, <1>8 DEF Marks, Returned, Lent
<1>9. ASSUME q = p, j = l, k = m, o \in DOMAIN u <=> o \in DOMAIN r, u[o] = r[o] PROVE x = n
  BY <1>1, <1>2, <1>9 DEF Marks, Returned
<1>10. QED
  BY <1>1, <1>3, <1>4, <1>5, <1>6, <1>7, <1>8, <1>9

\* If each pointer undergoes one of the changes, the changed view has them.
LEMMA Becomes ==
    ASSUME NEW w, NEW tags, NEW changes, w = [now |-> w.now, of |-> w.of],
           NEW o, o[1] \in DOMAIN w.of, NEW x \in w.of[o[1]], NEW y,
           IF o[1] \in tags THEN <<x, y>> \in changes ELSE y = x
    PROVE  y \in Become(w, tags, changes).of[o[1]]
<1> DEFINE of == [t \in DOMAIN w.of |->
                    IF t \in tags THEN {c[2] : c \in {d \in changes : d[1] \in w.of[t]}} ELSE w.of[t]]
<1>1. Become(w, tags, changes).of = of
  BY DEF Become
<1>2. CASE o[1] \in tags
  <2>1. <<x, y>> \in {d \in changes : d[1] \in w.of[o[1]]}
    BY <1>2
  <2>2. QED
    BY <1>1, <1>2, <2>1
<1>3. CASE o[1] \notin tags
  BY <1>1, <1>3
<1>4. QED
  BY <1>2, <1>3

LEMMA BecomeIs ==
    ASSUME NEW w, NEW tags, NEW changes, w = [now |-> w.now, of |-> w.of], NEW v,
           v = Become(w, tags, changes)
    PROVE  v = [now |-> v.now, of |-> v.of] /\ v.now = w.now /\ DOMAIN v.of = DOMAIN w.of
BY DEF Become

\* The views after each kind of statement.
All(w, s)  == Become(w, s.tags, AreMade)
Some(w, s) == Become(w, s.tags, Stay \cup AreMade)
FailsFor(w) == Now(Become(w, {"errs"}, Stay \cup AreCopied), "failed")
Converted(w, s) ==
    [Become(w, s.tags, AreFreed) EXCEPT !.now = IF "failed" \in w.now THEN @ \cup {"err"}
                                                                      ELSE @ \ {"err"}]

LEMMA AfterIs ==
    ASSUME NEW w, NEW s
    PROVE  /\ s.do = "Copy" => After(w, s) = {Become(w, s.tags, AreCopied)}
           /\ s.do = "Ask" => After(w, s) = {All(w, s), Fails(w)}
           /\ s.do = "Find" => After(w, s) = {All(w, s), w, Fails(w)}
           /\ s.do = "List" => After(w, s) = {All(w, s), Fails(All(w, s))}
           /\ s.do = "Make" => After(w, s) = {All(w, s)}
           /\ s.do = "Tell" => After(w, s) = {All(w, s), w}
           /\ s.do = "Batch" => After(w, s) = {All(w, s), Fails(Some(w, s))}
           /\ s.do = "FindEach" => After(w, s) = {Some(w, s), FailsFor(Some(w, s))}
           /\ s.do = "FromCError" => After(w, s) = {Converted(w, s)}
           /\ s.do \in {"ShadowedError", "Free"} => After(w, s) = {Become(w, s.tags, AreFreed)}
           /\ s.do = "Give" => After(w, s) = {Become(w, s.tags, AreGiven)}
           /\ s.do = "Lend" => After(w, s) = {Become(w, s.tags, AreLent)}
           /\ s.do = "ReadOut" => After(w, s) = {w}
BY DEF After, All, Some, FailsFor, Converted

-----------------------------------------------------------------------------
(* One line. *)

\* The statement before which the function stands, and a view that matches.
LEMMA LineIs ==
    ASSUME InFunction, Running, AllPass
    PROVE  \E w \in Views(call)[at] :
              /\ Matches(w)
              /\ Faithful(w)
              /\ MayRun(w, Statement.when) =>
                    IF Statement.do = "Return" THEN Settled(w, call) ELSE Safe(w, Statement)
<1>1. PICK w \in Views(call)[at] : Matches(w)
  BY DEF InFunction
<1>2. call \in DOMAIN Programs /\ at \in DOMAIN Programs[call]
  BY ProgramsAssumption DEF InFunction, Running
<1>3. ReviewedLine(call, at)
  BY <1>2 DEF Passes, AllPass
<1>4. QED
  BY <1>1, <1>3 DEF ReviewedLine, Statement

LEMMA FaithfulSeen ==
    ASSUME InFunction, AllPass
    PROVE  \E w \in Views(call)[at] : Matches(w) /\ Faithful(w)
<1>1. call \in DOMAIN Programs /\ Len(Programs[call]) \in Nat
  BY ProgramsAssumption DEF InFunction
<1>2. CASE Running
  BY <1>2, LineIs
<1>3. CASE ~Running
  <2>1. at = Len(Programs[call]) + 1
    BY <1>1, <1>3 DEF InFunction, Running
  <2>2. QED
    BY <1>1, <2>1 DEF InFunction, AllPass, Passes
<1>4. QED
  BY <1>2, <1>3

LEMMA StatementIs ==
    ASSUME InFunction, Running
    PROVE  /\ Statement \in Statements
           /\ at \in 1..Len(Programs[call])
           /\ Statement.tags \subseteq Tags(call)
           /\ ErrorTags \subseteq Tags(call)
<1>1. Programs[call] \in Seq(Statements) /\ at \in 1..Len(Programs[call])
  BY ProgramsAssumption DEF InFunction, Running
<1>2. at \in DOMAIN Programs[call]
  BY <1>1
<1>3. QED
  BY <1>1, <1>2 DEF Statement, Tags

LEMMA ConditionSeen ==
    ASSUME InFunction, Running, NEW w, Matches(w)
    PROVE  /\ Taken => MayRun(w, Statement.when)
           /\ ~Taken => MaySkip(w, Statement.when)
<1> DEFINE when == Statement.when
<1>1. when \in Conditions
  BY StatementIs DEF Statements
<1>2. Signs(w) /\ DOMAIN w.of = Tags(call) /\ \A o \in Mine : Note(o) \in w.of[o[1]]
  BY DEF Matches
<1>3. CASE when = "always"
  BY <1>3 DEF Taken, MayRun, MaySkip
<1>4. CASE when = "ok"
  BY <1>2, <1>4 DEF Taken, MayRun, MaySkip, Signs
<1>5. CASE when = "err"
  BY <1>2, <1>5 DEF Taken, MayRun, MaySkip, Signs
<1>6. CASE when = "absent"
  <2>1. Taken <=> ~err /\ native.made = {}
    BY <1>6 DEF Taken
  <2>2. ASSUME native.made = {}, NEW t \in Tags(call) \ PerElement
        PROVE  \E x \in w.of[t] : "made" \notin x
    <3> DEFINE o == <<t, 0>>
    <3>1. o \in Mine
      BY <2>2, ObjectsAre DEF Mine, Places
    <3>2. "made" \notin Note(o)
      BY <2>2, NoteIs DEF Note
    <3>3. o[1] = t
      OBVIOUS
    <3>4. QED
      BY <1>2, <3>1, <3>2, <3>3
  <2>3. ASSUME native.made # {} PROVE \E t \in Tags(call) : \E x \in w.of[t] : "made" \in x
    <3>1. PICK o : o \in native.made
      BY <2>3
    <3>2. o \in Mine /\ o[1] \in Tags(call)
      BY <3>1, ObjectsOf DEF InFunction, Frame, Mine
    <3>3. "made" \in Note(o)
      BY <3>1, NoteIs DEF Note
    <3>4. QED
      BY <1>2, <3>2, <3>3
  <2>4. MayRun(w, when) <=> "err" \notin w.now /\ \A t \in Tags(call) \ PerElement :
                                                    \E x \in w.of[t] : "made" \notin x
    BY <1>2, <1>6 DEF MayRun
  <2>5. MaySkip(w, when) <=> "err" \in w.now \/ \E t \in Tags(call) : \E x \in w.of[t] : "made" \in x
    BY <1>2, <1>6 DEF MaySkip
  <2>6. QED
    BY <1>2, <2>1, <2>2, <2>3, <2>4, <2>5 DEF Signs
<1>7. CASE when = "none"
  BY <1>2, <1>7 DEF Taken, MayRun, MaySkip, Signs
<1>8. CASE when = "some"
  BY <1>2, <1>8 DEF Taken, MayRun, MaySkip, Signs, InFunction, Frame
<1>9. QED
  BY <1>1, <1>3, <1>4, <1>5, <1>6, <1>7, <1>8 DEF Conditions

LEMMA SamePlaces ==
    ASSUME UNCHANGED len
    PROVE  \A tags : Objects(tags)' = Objects(tags)
BY DEF Objects

LEMMA SameMine ==
    ASSUME Step
    PROVE  /\ Mine' = Mine /\ Tags(call)' = Tags(call) /\ Objects(ErrorTags)' = Objects(ErrorTags)
           /\ len' = len
BY DEF Step, Mine, Objects, Tags

\* The function goes on with a view that matches.
LEMMA StepOn ==
    ASSUME InFunction, Running, Step, Frame',
           NEW w \in Views(call)[at], NEW v \in Behind(w, Statement), Matches(v)'
    PROVE  InFunction'
<1>1. at \in 1..Len(Programs[call]) /\ call \in DOMAIN Programs
  BY StatementIs DEF InFunction
<1>2. Views(call)[at + 1] = Onward(Views(call)[at], Statement)
  BY <1>1, ViewsAre DEF Statement
<1>3. v \in Views(call)[at + 1]
  BY <1>2 DEF Onward
<1>4. at' = at + 1 /\ call' = call /\ Views(call)' = Views(call)
  BY DEF Step, Views, Entry, Tags
<1>5. v \in (Views(call)[at])'
  BY <1>3, <1>4
<1>6. Len(Programs[call]) \in Nat
  BY <1>1, ProgramsAssumption
<1>7. at' \in 1..Len(Programs[call']) + 1
  BY <1>1, <1>4, <1>6
<1>8. QED
  BY <1>1, <1>4, <1>5, <1>7 DEF InFunction

\* The notes of a state that matches, taken apart and put together.
LEMMA MatchesIs ==
    ASSUME NEW w, Matches(w), Frame
    PROVE  /\ w = [now |-> w.now, of |-> w.of]
           /\ DOMAIN w.of = Tags(call)
           /\ \A o \in Mine : o[1] \in DOMAIN w.of /\ Note(o) \in w.of[o[1]]
BY ObjectsOf DEF Matches, Mine

LEMMA MatchesNext ==
    ASSUME Step, NEW v, v = [now |-> v.now, of |-> v.of], DOMAIN v.of = Tags(call),
           "none" \in v.now <=> len = 0, "err" \in v.now <=> err',
           "failed" \in v.now <=> native'.failed,
           \A o \in Mine : Note(o)' \in v.of[o[1]]
    PROVE  Matches(v)'
<1>1. Signs(v)'
  BY SameMine DEF Signs
<1>2. (DOMAIN v.of = Tags(call))'
  BY SameMine
<1>3. (\A o \in Mine : Note(o) \in v.of[o[1]])'
  BY SameMine
<1>4. QED
  BY <1>1, <1>2, <1>3 DEF Matches

LEMMA ArgsAre ==
    ASSUME InFunction, Running
    PROVE  /\ Args \subseteq Mine
           /\ \A o \in Mine : o \in Args <=> o[1] \in Statement.tags
           /\ Objects(ErrorTags) \subseteq Mine
           /\ \A o \in Mine : o \in Objects(ErrorTags) <=> o[1] \in ErrorTags
<1>1. Statement.tags \subseteq Tags(call) /\ ErrorTags \subseteq Tags(call)
  BY StatementIs
<1>2. QED
  BY <1>1, ObjectsGrow, ObjectsOf DEF Args, Mine

\* What the statements that run have in common.
LEMMA RunIs ==
    ASSUME InFunction, AllPass, NEW do, Runs(do), do # "Return"
    PROVE  \E w \in Views(call)[at] :
              /\ Matches(w) /\ Faithful(w) /\ Safe(w, Statement)
              /\ After(w, Statement) \subseteq Behind(w, Statement)
<1>1. Running /\ Taken /\ Statement.do = do
  BY DEF Runs
<1>2. PICK w \in Views(call)[at] :
        /\ Matches(w)
        /\ Faithful(w)
        /\ MayRun(w, Statement.when) =>
              IF Statement.do = "Return" THEN Settled(w, call) ELSE Safe(w, Statement)
  BY <1>1, LineIs
<1>3. MayRun(w, Statement.when)
  BY <1>1, <1>2, ConditionSeen
<1>4. QED
  BY <1>1, <1>2, <1>3 DEF Behind

\* A line whose condition does not hold.
LEMMA SkipStep ==
    ASSUME InFunction, AllPass, OnlyLiveMemory, Skip
    PROVE  InFunction' /\ OnlyLiveMemory'
<1>1. Running /\ ~Taken /\ Step /\ UNCHANGED <<ptr, live, err, native, result, wrong>>
  BY DEF Skip
<1>2. PICK w \in Views(call)[at] : Matches(w)
  BY DEF InFunction
<1>3. w \in Behind(w, Statement)
  BY <1>1, <1>2, ConditionSeen DEF Behind
<1>4. Frame'
  BY <1>1, SameMine DEF InFunction, Frame
<1>5. \A o \in Mine : Note(o)' = Note(o)
  BY <1>1 DEF Note
<1>6. Matches(w)'
  BY <1>1, <1>2, <1>5, MatchesIs, MatchesNext DEF Matches, Signs, InFunction
<1>7. QED
  BY <1>1, <1>3, <1>4, <1>6, StepOn DEF OnlyLiveMemory

\* What is freed, read or handed over is allocated.
LEMMA ReadsLive ==
    ASSUME InFunction, Running, NEW w, Matches(w), Safe(w, Statement), Statement.do \in Reads
    PROVE  Args \cap ptr \subseteq live
<1> SUFFICES ASSUME NEW o \in Args \cap ptr PROVE o \in live
  OBVIOUS
<1>1. o \in Mine /\ o[1] \in Statement.tags
  BY ArgsAre
<1>2. Note(o) \in w.of[o[1]] /\ "set" \in Note(o)
  BY <1>1, NoteIs DEF Matches, Note
<1>3. "live" \in Note(o)
  BY <1>1, <1>2 DEF Safe
<1>4. QED
  BY <1>3, NoteIs DEF Note

LEMMA CallsLive ==
    ASSUME InFunction, Running, NEW w, Matches(w), Safe(w, Statement), Statement.do \in CCalls
    PROVE  ptr \ native.made \subseteq live
<1> SUFFICES ASSUME NEW o \in ptr \ native.made PROVE o \in live
  OBVIOUS
<1>1. o \in Mine
  BY DEF InFunction, Frame
<1>2. Note(o) \in w.of[o[1]] /\ "set" \in Note(o) /\ "made" \notin Note(o) /\ o[1] \in DOMAIN w.of
  BY <1>1, NoteIs, MatchesIs DEF Note, InFunction
<1>3. "live" \in Note(o)
  BY <1>2 DEF Safe
<1>4. QED
  BY <1>3, NoteIs DEF Note

\* A statement that does the same to each of its pointers.
LEMMA OneChange ==
    ASSUME InFunction, Running, Step, NEW w \in Views(call)[at], Matches(w), NEW changes,
           Become(w, Statement.tags, changes) \in Behind(w, Statement),
           \A o \in Mine : IF o \in Args THEN <<Note(o), Note(o)'>> \in changes
                                         ELSE Note(o)' = Note(o),
           UNCHANGED <<err, native>>, Frame'
    PROVE  InFunction'
<1>0. PICK v : v = Become(w, Statement.tags, changes)
  OBVIOUS
<1>1. w = [now |-> w.now, of |-> w.of] /\ DOMAIN w.of = Tags(call)
      /\ \A o \in Mine : o[1] \in DOMAIN w.of /\ Note(o) \in w.of[o[1]]
  BY MatchesIs DEF InFunction
<1>2. v = [now |-> v.now, of |-> v.of] /\ v.now = w.now /\ DOMAIN v.of = Tags(call)
  BY <1>0, <1>1, BecomeIs
<1>3. ASSUME NEW o \in Mine PROVE Note(o)' \in v.of[o[1]]
  <2>1. IF o[1] \in Statement.tags THEN <<Note(o), Note(o)'>> \in changes ELSE Note(o)' = Note(o)
    BY ArgsAre
  <2>2. QED
    BY <1>0, <1>1, <2>1, Becomes
<1>4. Matches(v)'
  <2>1. ("none" \in v.now <=> len = 0) /\ ("err" \in v.now <=> err')
        /\ ("failed" \in v.now <=> native'.failed)
    BY <1>2 DEF Matches, Signs
  <2>2. QED
    BY <1>2, <1>3, <2>1, MatchesNext
<1>5. v \in Behind(w, Statement)
  BY <1>0
<1>6. QED
  BY <1>4, <1>5, StepOn

LEMMA CopyStep ==
    ASSUME InFunction, AllPass, OnlyLiveMemory, DoCopy
    PROVE  InFunction' /\ OnlyLiveMemory'
<1>1. /\ Runs("Copy") /\ Running /\ Statement.do = "Copy" /\ Step
      /\ ptr' = ptr \cup Args /\ live' = live \cup Args
      /\ UNCHANGED <<err, native, result, wrong>>
  BY DEF DoCopy, Runs
<1>2. PICK w \in Views(call)[at] :
        /\ Matches(w) /\ Safe(w, Statement)
        /\ After(w, Statement) \subseteq Behind(w, Statement)
  BY <1>1, RunIs
<1>3. Become(w, Statement.tags, AreCopied) \in Behind(w, Statement)
  BY <1>1, <1>2, AfterIs
<1>4. Objects(ErrorTags) \cap Args = {}
  BY <1>1, <1>2, ArgsAre DEF Safe
<1>5. Frame'
  BY <1>1, <1>4, SameMine, ArgsAre DEF InFunction, Frame
<1>6. ASSUME NEW o \in Mine
      PROVE  IF o \in Args THEN <<Note(o), Note(o)'>> \in AreCopied ELSE Note(o)' = Note(o)
  <2>1. Note(o)' = NoteOf(o, ptr', live', native.made, result)
    BY <1>1 DEF Note
  <2>2. Note(o) = NoteOf(o, ptr, live, native.made, result)
    BY DEF Note
  <2>3. CASE o \in Args
    <3>1. o \in ptr' /\ o \in live'
      BY <1>1, <2>3
    <3>2. Note(o) \in SUBSET Marks /\ Note(o)' = Copied(Note(o))
      BY <2>1, <2>2, <3>1, NoteChanges
    <3>3. QED
      BY <2>3, <3>2 DEF AreCopied
  <2>4. CASE o \notin Args
    <3>1. (o \in ptr' <=> o \in ptr) /\ (o \in live' <=> o \in live)
      BY <1>1, <2>4
    <3>2. Note(o)' = Note(o)
      BY <2>1, <2>2, <3>1, NoteChanges
    <3>3. QED
      BY <2>4, <3>2
  <2>5. QED
    BY <2>3, <2>4
<1>7. InFunction'
  BY <1>1, <1>2, <1>3, <1>5, <1>6, OneChange
<1>8. QED
  BY <1>1, <1>7 DEF OnlyLiveMemory

LEMMA ReadOutStep ==
    ASSUME InFunction, AllPass, OnlyLiveMemory, DoReadOut
    PROVE  InFunction' /\ OnlyLiveMemory'
<1>1. /\ Runs("ReadOut") /\ Running /\ Statement.do = "ReadOut" /\ Step
      /\ UNCHANGED <<ptr, live, err, native, result>>
      /\ wrong' = wrong \cup ((Args \cap ptr) \ live)
  BY DEF DoReadOut, Runs
<1>2. PICK w \in Views(call)[at] :
        /\ Matches(w) /\ Safe(w, Statement)
        /\ After(w, Statement) \subseteq Behind(w, Statement)
  BY <1>1, RunIs
<1>3. w \in Behind(w, Statement)
  BY <1>1, <1>2, AfterIs
<1>4. Frame'
  BY <1>1, SameMine DEF InFunction, Frame
<1>5. \A o \in Mine : Note(o)' = Note(o)
  BY <1>1 DEF Note
<1>6. Matches(w)'
  BY <1>1, <1>2, <1>5, MatchesIs, MatchesNext DEF Matches, Signs, InFunction
<1>7. Args \cap ptr \subseteq live
  BY <1>1, <1>2, ReadsLive DEF Reads
<1>8. wrong' = {}
  BY <1>1, <1>7 DEF OnlyLiveMemory
<1>9. QED
  BY <1>1, <1>2, <1>3, <1>4, <1>6, <1>8, StepOn DEF OnlyLiveMemory

\* C.free of what is not NULL.
LEMMA FreesNotes ==
    ASSUME UNCHANGED <<ptr, native, result>>, live' = live \ (Args \cap ptr), NEW o
    PROVE  IF o \in Args THEN <<Note(o), Note(o)'>> \in AreFreed ELSE Note(o)' = Note(o)
<1>1. /\ Note(o) = NoteOf(o, ptr, live, native.made, result)
      /\ Note(o)' = NoteOf(o, ptr, live', native.made, result)
  BY DEF Note
<1>2. CASE o \in Args
  <2>1. o \in live' <=> o \in live /\ o \notin ptr
    BY <1>2
  <2>2. Note(o) \in SUBSET Marks /\ Note(o)' = Freed(Note(o))
    BY <1>1, <2>1, NoteChanges
  <2>3. QED
    BY <1>2, <2>2 DEF AreFreed
<1>3. CASE o \notin Args
  <2>1. o \in live' <=> o \in live
    BY <1>3
  <2>2. Note(o)' = Note(o)
    BY <1>1, <2>1, NoteChanges
  <2>3. QED
    BY <1>3, <2>2
<1>4. QED
  BY <1>2, <1>3

LEMMA FreeStep ==
    ASSUME InFunction, AllPass, OnlyLiveMemory, DoFree \/ DoShadowedError
    PROVE  InFunction' /\ OnlyLiveMemory'
<1>1. /\ Running /\ Statement.do \in {"Free", "ShadowedError"} /\ Step
      /\ live' = live \ (Args \cap ptr) /\ wrong' = wrong \cup ((Args \cap ptr) \ live)
      /\ UNCHANGED <<ptr, err, native, result>>
  BY DEF DoFree, DoShadowedError, Runs, Frees
<1>2. PICK w \in Views(call)[at] :
        /\ Matches(w) /\ Safe(w, Statement)
        /\ After(w, Statement) \subseteq Behind(w, Statement)
  BY RunIs DEF DoFree, DoShadowedError
<1>3. Become(w, Statement.tags, AreFreed) \in Behind(w, Statement)
  BY <1>1, <1>2, AfterIs
<1>4. Frame'
  BY <1>1, SameMine DEF InFunction, Frame
<1>5. \A o \in Mine : IF o \in Args THEN <<Note(o), Note(o)'>> \in AreFreed ELSE Note(o)' = Note(o)
  BY <1>1, FreesNotes
<1>6. InFunction'
  BY <1>1, <1>2, <1>3, <1>4, <1>5, OneChange
<1>7. Args \cap ptr \subseteq live
  BY <1>1, <1>2, ReadsLive DEF Reads
<1>8. wrong' = {}
  BY <1>1, <1>7 DEF OnlyLiveMemory
<1>9. QED
  BY <1>6, <1>8 DEF OnlyLiveMemory

\* The error of the C API becomes the Go error: it is in the variables asked.
LEMMA FromCErrorStep ==
    ASSUME InFunction, AllPass, OnlyLiveMemory, DoFromCError
    PROVE  InFunction' /\ OnlyLiveMemory'
<1>1. /\ Running /\ Statement.do = "FromCError" /\ Step /\ Runs("FromCError")
      /\ err' = (Args \cap ptr # {})
      /\ live' = live \ (Args \cap ptr) /\ wrong' = wrong \cup ((Args \cap ptr) \ live)
      /\ UNCHANGED <<ptr, native, result>>
  BY DEF DoFromCError, Runs, Frees
<1>2. PICK w \in Views(call)[at] :
        /\ Matches(w) /\ Safe(w, Statement)
        /\ After(w, Statement) \subseteq Behind(w, Statement)
  BY <1>1, RunIs
<1>3. Args \cap ptr = Objects(ErrorTags) \cap ptr
  <2>1. /\ Statement.tags \subseteq ErrorTags
        /\ \A t \in ErrorTags \ Statement.tags : \A x \in w.of[t] : "set" \notin x
    BY <1>1, <1>2 DEF Safe
  <2>2. ASSUME NEW o \in Objects(ErrorTags) \cap ptr PROVE o \in Args
    <3>1. o \in Mine /\ o[1] \in ErrorTags
      BY <1>1, ArgsAre
    <3>2. "set" \in Note(o) /\ Note(o) \in w.of[o[1]]
      BY <1>2, <3>1, NoteIs DEF Matches, Note
    <3>3. o[1] \in Statement.tags
      BY <2>1, <3>1, <3>2
    <3>4. QED
      BY <1>1, <3>1, <3>3, ArgsAre
  <2>3. Args \subseteq Objects(ErrorTags)
    BY <2>1, ObjectsGrow DEF Args
  <2>4. QED
    BY <2>2, <2>3
<1>4. err' \in BOOLEAN /\ (err' <=> native.failed)
  BY <1>1, <1>3 DEF InFunction, Frame
<1>5. Frame'
  BY <1>1, <1>4, SameMine DEF InFunction, Frame
<1>6. PICK f, v : f = Become(w, Statement.tags, AreFreed) /\ v = Converted(w, Statement)
  OBVIOUS
<1>7. w = [now |-> w.now, of |-> w.of] /\ DOMAIN w.of = Tags(call)
      /\ \A o \in Mine : o[1] \in DOMAIN w.of /\ Note(o) \in w.of[o[1]]
  BY <1>2, MatchesIs DEF InFunction
<1>8. f = [now |-> f.now, of |-> f.of] /\ f.now = w.now /\ DOMAIN f.of = Tags(call)
  BY <1>6, <1>7, BecomeIs
<1>9. /\ v = [now |-> v.now, of |-> v.of] /\ v.of = f.of
      /\ v.now = IF "failed" \in w.now THEN w.now \cup {"err"} ELSE w.now \ {"err"}
  <2>1. v = [f EXCEPT !.now = IF "failed" \in w.now THEN @ \cup {"err"} ELSE @ \ {"err"}]
    BY <1>6 DEF Converted
  <2>2. QED
    BY <1>8, <2>1
<1>10. ASSUME NEW o \in Mine PROVE Note(o)' \in v.of[o[1]]
  <2>1. IF o[1] \in Statement.tags THEN <<Note(o), Note(o)'>> \in AreFreed ELSE Note(o)' = Note(o)
    BY <1>1, ArgsAre, FreesNotes
  <2>2. QED
    BY <1>6, <1>7, <1>9, <2>1, Becomes
<1>11. Matches(v)'
  <2>1. ("none" \in v.now <=> len = 0) /\ ("err" \in v.now <=> err')
        /\ ("failed" \in v.now <=> native'.failed)
    BY <1>1, <1>2, <1>4, <1>9 DEF Matches, Signs
  <2>2. QED
    BY <1>1, <1>8, <1>9, <1>10, <2>1, MatchesNext
<1>12. v \in Behind(w, Statement)
  BY <1>1, <1>2, <1>6, AfterIs
<1>13. Args \cap ptr \subseteq live
  BY <1>1, <1>2, ReadsLive DEF Reads
<1>14. wrong' = {}
  BY <1>1, <1>13 DEF OnlyLiveMemory
<1>15. QED
  BY <1>1, <1>5, <1>11, <1>12, <1>14, StepOn DEF OnlyLiveMemory

LEMMA NullIsNone ==
    ASSUME InFunction, AllPass
    PROVE  Null \notin Mine
<1>1. "NULL" \notin Tags(call)
  BY DEF InFunction, AllPass, Passes
<1>2. QED
  BY <1>1, ObjectsOf DEF Null, Mine

LEMMA ResultsAre ==
    ASSUME NEW f
    PROVE  /\ DOMAIN Results(f) = DOMAIN f \cup DOMAIN result
           /\ \A x \in DOMAIN f : Results(f)[x] = f[x]
           /\ \A x \in DOMAIN result \ DOMAIN f : Results(f)[x] = result[x]
BY DEF Results

\* What the caller is given, or lent.
LEMMA GiveStep ==
    ASSUME InFunction, AllPass, OnlyLiveMemory, DoGive
    PROVE  InFunction' /\ OnlyLiveMemory'
<1>1. /\ Running /\ Statement.do = "Give" /\ Step /\ Runs("Give")
      /\ result' = Results([s \in Args |-> [data |-> Pointer(s), freed |-> FALSE]])
      /\ UNCHANGED <<ptr, live, err, native, wrong>>
  BY DEF DoGive, Runs
<1>2. PICK w \in Views(call)[at] :
        /\ Matches(w) /\ Safe(w, Statement)
        /\ After(w, Statement) \subseteq Behind(w, Statement)
  BY <1>1, RunIs
<1>3. Become(w, Statement.tags, AreGiven) \in Behind(w, Statement)
  BY <1>1, <1>2, AfterIs
<1>4. /\ DOMAIN result' = Args \cup DOMAIN result
      /\ \A o \in Args : result'[o] = [data |-> Pointer(o), freed |-> FALSE]
      /\ \A o \in DOMAIN result \ Args : result'[o] = result[o]
  <2>1. PICK f : f = [s \in Args |-> [data |-> Pointer(s), freed |-> FALSE]]
    OBVIOUS
  <2>2. result' = Results(f)
    BY <1>1, <2>1
  <2>3. DOMAIN f = Args /\ \A o \in Args : f[o] = [data |-> Pointer(o), freed |-> FALSE]
    BY <2>1
  <2>4. QED
    BY <2>2, <2>3, ResultsAre
<1>5. Frame'
  <2>1. DOMAIN result' \subseteq Mine
    BY <1>1, <1>4, ArgsAre DEF InFunction, Frame
  <2>2. ASSUME NEW s \in DOMAIN result'
        PROVE  result'[s].freed \in BOOLEAN /\ (~result'[s].freed => result'[s].data \in {s, Null})
    <3>1. CASE s \in Args
      <4>1. result'[s].freed = FALSE /\ result'[s].data = Pointer(s)
        BY <1>4, <3>1
      <4>2. Pointer(s) \in {s, Null}
        BY DEF Pointer
      <4>3. QED
        BY <4>1, <4>2
    <3>2. CASE s \notin Args
      BY <1>4, <3>2 DEF InFunction, Frame
    <3>3. QED
      BY <3>1, <3>2
  <2>3. QED
    BY <1>1, <2>1, <2>2, SameMine DEF InFunction, Frame
<1>6. ASSUME NEW o \in Mine
      PROVE  IF o \in Args THEN <<Note(o), Note(o)'>> \in AreGiven ELSE Note(o)' = Note(o)
  <2>1. /\ Note(o) = NoteOf(o, ptr, live, native.made, result)
        /\ Note(o)' = NoteOf(o, ptr, live, native.made, result')
    BY <1>1 DEF Note
  <2>2. CASE o \in Args
    <3>1. /\ o \in DOMAIN result' /\ result'[o].freed = FALSE /\ o # Null
          /\ result'[o].data = IF o \in ptr THEN o ELSE Null
      BY <1>4, <2>2, NullIsNone DEF Pointer
    <3>2. Note(o) \in SUBSET Marks /\ Note(o)' = Given(Note(o))
      BY <2>1, <3>1, NoteChanges
    <3>3. QED
      BY <2>2, <3>2 DEF AreGiven
  <2>3. CASE o \notin Args
    <3>1. (o \in DOMAIN result' <=> o \in DOMAIN result)
          /\ (o \in DOMAIN result => result'[o] = result[o])
      BY <1>4, <2>3
    <3>2. Note(o)' = Note(o)
      BY <2>1, <3>1 DEF NoteOf
    <3>3. QED
      BY <2>3, <3>2
  <2>4. QED
    BY <2>2, <2>3
<1>7. InFunction'
  BY <1>1, <1>2, <1>3, <1>5, <1>6, OneChange
<1>8. QED
  BY <1>1, <1>7 DEF OnlyLiveMemory

LEMMA LendStep ==
    ASSUME InFunction, AllPass, OnlyLiveMemory, DoLend
    PROVE  InFunction' /\ OnlyLiveMemory'
<1>1. /\ Running /\ Statement.do = "Lend" /\ Step /\ Runs("Lend")
      /\ result' = Results([s \in Args |-> [data |-> s, freed |-> TRUE]])
      /\ UNCHANGED <<ptr, live, err, native, wrong>>
  BY DEF DoLend, Runs
<1>2. PICK w \in Views(call)[at] :
        /\ Matches(w) /\ Safe(w, Statement)
        /\ After(w, Statement) \subseteq Behind(w, Statement)
  BY <1>1, RunIs
<1>3. Become(w, Statement.tags, AreLent) \in Behind(w, Statement)
  BY <1>1, <1>2, AfterIs
<1>4. /\ DOMAIN result' = Args \cup DOMAIN result
      /\ \A o \in Args : result'[o] = [data |-> o, freed |-> TRUE]
      /\ \A o \in DOMAIN result \ Args : result'[o] = result[o]
  <2>1. PICK f : f = [s \in Args |-> [data |-> s, freed |-> TRUE]]
    OBVIOUS
  <2>2. result' = Results(f)
    BY <1>1, <2>1
  <2>3. DOMAIN f = Args /\ \A o \in Args : f[o] = [data |-> o, freed |-> TRUE]
    BY <2>1
  <2>4. QED
    BY <2>2, <2>3, ResultsAre
<1>5. Frame'
  <2>1. DOMAIN result' \subseteq Mine
    BY <1>1, <1>4, ArgsAre DEF InFunction, Frame
  <2>2. ASSUME NEW s \in DOMAIN result'
        PROVE  result'[s].freed \in BOOLEAN /\ (~result'[s].freed => result'[s].data \in {s, Null})
    <3>1. CASE s \in Args
      <4>1. result'[s].freed = TRUE
        BY <1>4, <3>1
      <4>2. QED
        BY <4>1
    <3>2. CASE s \notin Args
      BY <1>4, <3>2 DEF InFunction, Frame
    <3>3. QED
      BY <3>1, <3>2
  <2>3. QED
    BY <1>1, <2>1, <2>2, SameMine DEF InFunction, Frame
<1>6. ASSUME NEW o \in Mine
      PROVE  IF o \in Args THEN <<Note(o), Note(o)'>> \in AreLent ELSE Note(o)' = Note(o)
  <2>1. /\ Note(o) = NoteOf(o, ptr, live, native.made, result)
        /\ Note(o)' = NoteOf(o, ptr, live, native.made, result')
    BY <1>1 DEF Note
  <2>2. CASE o \in Args
    <3>1. o \in DOMAIN result' /\ result'[o].freed
      BY <1>4, <2>2
    <3>2. Note(o) \in SUBSET Marks /\ Note(o)' = Lent(Note(o))
      BY <2>1, <3>1, NoteChanges
    <3>3. QED
      BY <2>2, <3>2 DEF AreLent
  <2>3. CASE o \notin Args
    <3>1. (o \in DOMAIN result' <=> o \in DOMAIN result)
          /\ (o \in DOMAIN result => result'[o] = result[o])
      BY <1>4, <2>3
    <3>2. Note(o)' = Note(o)
      BY <2>1, <3>1 DEF NoteOf
    <3>3. QED
      BY <2>3, <3>2
  <2>4. QED
    BY <2>2, <2>3
<1>7. InFunction'
  BY <1>1, <1>2, <1>3, <1>5, <1>6, OneChange
<1>8. QED
  BY <1>1, <1>7 DEF OnlyLiveMemory

-----------------------------------------------------------------------------
(* The calls of the C API. *)

\* A view between the results of a call and its errors: "v" has the notes of
\* the pointers with those of the results.
Between(w, v, made) ==
    /\ v = [now |-> v.now, of |-> v.of] /\ v.now = w.now /\ DOMAIN v.of = Tags(call)
    /\ \A o \in Mine : (IF o \in made THEN Made(Note(o)) ELSE Note(o)) \in v.of[o[1]]

LEMMA ReportsIs ==
    ASSUME InFunction, Running, OnlyLiveMemory, NEW w, Matches(w), Safe(w, Statement),
           Statement.do \in CCalls, NEW errors, NEW made,
           made \subseteq Args, errors \subseteq Objects(ErrorTags), Reports(errors, made)
    PROVE  /\ Frame' /\ OnlyLiveMemory' /\ Step /\ err' = err
           /\ native'.failed <=> errors # {} \/ native.failed
           /\ \A o \in Mine : Note(o)' = IF o \in errors THEN Copied(Note(o))
                                         ELSE IF o \in made THEN Made(Note(o)) ELSE Note(o)
<1>1. /\ ptr' = ptr \cup errors \cup made /\ live' = live \cup errors \cup made
      /\ wrong' = wrong \cup ((ptr \ native.made) \ live)
      /\ native' = [failed |-> errors # {} \/ native.failed, made |-> native.made \cup made]
      /\ Step /\ UNCHANGED <<err, result>>
  BY DEF Reports
<1>2. Args \cap Objects(ErrorTags) = {}
  BY ArgsAre DEF Safe
<1>3. native'.failed = (errors # {} \/ native.failed) /\ native'.made = native.made \cup made
  BY <1>1
<1>4. errors \subseteq Mine /\ made \subseteq Mine /\ errors \cap made = {}
  BY <1>2, ArgsAre
<1>5. wrong' = {}
  BY <1>1, CallsLive DEF OnlyLiveMemory
<1>6. Objects(ErrorTags) \cap ptr' = (Objects(ErrorTags) \cap ptr) \cup errors
  BY <1>1, <1>2
<1>7. Frame'
  <2>1. (native'.failed) \in BOOLEAN
    BY <1>3
  <2>2. native'.failed <=> Objects(ErrorTags) \cap ptr' # {}
    BY <1>3, <1>6 DEF InFunction, Frame
  <2>3. ptr' \subseteq Mine /\ live' \subseteq Mine /\ native'.made \subseteq Mine
    BY <1>1, <1>3, <1>4 DEF InFunction, Frame
  <2>4. QED
    BY <1>1, <2>1, <2>2, <2>3, SameMine DEF InFunction, Frame
<1>8. ASSUME NEW o \in Mine
      PROVE  Note(o)' = IF o \in errors THEN Copied(Note(o))
                        ELSE IF o \in made THEN Made(Note(o)) ELSE Note(o)
  <2>1. /\ Note(o) = NoteOf(o, ptr, live, native.made, result)
        /\ Note(o)' = NoteOf(o, ptr', live', native'.made, result)
    BY <1>1 DEF Note
  <2>2. CASE o \in errors
    <3>1. o \in ptr' /\ o \in live' /\ (o \in native'.made <=> o \in native.made)
      BY <1>1, <1>3, <1>4, <2>2
    <3>2. Note(o)' = Copied(Note(o))
      BY <2>1, <3>1, NoteChanges
    <3>3. QED
      BY <2>2, <3>2
  <2>3. CASE o \in made
    <3>1. o \in ptr' /\ o \in live' /\ o \in native'.made /\ o \notin errors
      BY <1>1, <1>3, <1>4, <2>3
    <3>2. Note(o)' = Made(Note(o))
      BY <2>1, <3>1, NoteChanges
    <3>3. QED
      BY <2>3, <3>1, <3>2
  <2>4. CASE o \notin errors /\ o \notin made
    <3>1. (o \in ptr' <=> o \in ptr) /\ (o \in live' <=> o \in live)
          /\ (o \in native'.made <=> o \in native.made)
      BY <1>1, <1>3, <2>4
    <3>2. Note(o)' = Note(o)
      BY <2>1, <3>1, NoteChanges
    <3>3. QED
      BY <2>4, <3>2
  <2>5. QED
    BY <2>2, <2>3, <2>4
<1>9. QED
  BY <1>1, <1>3, <1>5, <1>7, <1>8 DEF OnlyLiveMemory

\* None, all or some of the results were made.
LEMMA BetweenIs ==
    ASSUME InFunction, Running, NEW w, Matches(w), NEW made, made \subseteq Args
    PROVE  /\ made = {} => Between(w, w, made)
           /\ made = Args => Between(w, All(w, Statement), made)
           /\ Between(w, Some(w, Statement), made)
<1>1. w = [now |-> w.now, of |-> w.of] /\ DOMAIN w.of = Tags(call)
      /\ \A o \in Mine : o[1] \in DOMAIN w.of /\ Note(o) \in w.of[o[1]]
  BY MatchesIs DEF InFunction
<1>2. \A o : Note(o) \in SUBSET Marks
  BY NoteIs DEF Note
<1>3. ASSUME made = {} PROVE Between(w, w, made)
  BY <1>1, <1>3 DEF Between
<1>4. ASSUME made = Args PROVE Between(w, All(w, Statement), made)
  <2>1. PICK v : v = Become(w, Statement.tags, AreMade)
    OBVIOUS
  <2>2. v = [now |-> v.now, of |-> v.of] /\ v.now = w.now /\ DOMAIN v.of = Tags(call)
    BY <1>1, <2>1, BecomeIs
  <2>3. ASSUME NEW o \in Mine PROVE (IF o \in made THEN Made(Note(o)) ELSE Note(o)) \in v.of[o[1]]
    <3>1. PICK y : y = IF o \in made THEN Made(Note(o)) ELSE Note(o)
      OBVIOUS
    <3>2. IF o[1] \in Statement.tags THEN <<Note(o), y>> \in AreMade ELSE y = Note(o)
      BY <1>2, <1>4, <3>1, ArgsAre DEF AreMade
    <3>3. y \in v.of[o[1]]
      BY <1>1, <2>1, <3>2, Becomes
    <3>4. QED
      BY <3>1, <3>3
  <2>4. QED
    BY <2>1, <2>2, <2>3 DEF Between, All
<1>5. Between(w, Some(w, Statement), made)
  <2>1. PICK v : v = Become(w, Statement.tags, Stay \cup AreMade)
    OBVIOUS
  <2>2. v = [now |-> v.now, of |-> v.of] /\ v.now = w.now /\ DOMAIN v.of = Tags(call)
    BY <1>1, <2>1, BecomeIs
  <2>3. ASSUME NEW o \in Mine PROVE (IF o \in made THEN Made(Note(o)) ELSE Note(o)) \in v.of[o[1]]
    <3>1. PICK y : y = IF o \in made THEN Made(Note(o)) ELSE Note(o)
      OBVIOUS
    <3>2. IF o[1] \in Statement.tags THEN <<Note(o), y>> \in Stay \cup AreMade ELSE y = Note(o)
      BY <1>2, <3>1, ArgsAre DEF AreMade, Stay
    <3>3. y \in v.of[o[1]]
      BY <1>1, <2>1, <3>2, Becomes
    <3>4. QED
      BY <3>1, <3>3
  <2>4. QED
    BY <2>1, <2>2, <2>3 DEF Between, Some
<1>6. QED
  BY <1>3, <1>4, <1>5

LEMMA Succeeds ==
    ASSUME InFunction, Running, OnlyLiveMemory, NEW w \in Views(call)[at], Matches(w),
           Safe(w, Statement), Statement.do \in CCalls, NEW made, made \subseteq Args,
           NEW v \in Behind(w, Statement), Between(w, v, made), Reports({}, made)
    PROVE  InFunction' /\ OnlyLiveMemory'
<1>1. /\ Frame' /\ OnlyLiveMemory' /\ Step /\ err' = err
      /\ native'.failed <=> native.failed
      /\ \A o \in Mine : Note(o)' = IF o \in made THEN Made(Note(o)) ELSE Note(o)
  <2>1. {} \subseteq Objects(ErrorTags)
    OBVIOUS
  <2>2. QED
    BY <2>1, ReportsIs
<1>2. v = [now |-> v.now, of |-> v.of] /\ DOMAIN v.of = Tags(call)
      /\ \A o \in Mine : Note(o)' \in v.of[o[1]]
  BY <1>1 DEF Between
<1>3. ("none" \in v.now <=> len = 0) /\ ("err" \in v.now <=> err')
      /\ ("failed" \in v.now <=> native'.failed)
  BY <1>1 DEF Between, Matches, Signs
<1>4. Matches(v)'
  BY <1>1, <1>2, <1>3, MatchesNext
<1>5. QED
  BY <1>1, <1>4, StepOn

LEMMA FailsWith ==
    ASSUME InFunction, Running, OnlyLiveMemory, NEW w \in Views(call)[at], Matches(w),
           Safe(w, Statement), Statement.do \in CCalls, NEW made, made \subseteq Args,
           NEW v, Between(w, v, made),
           NEW t \in ErrorTags, NEW errors, errors \subseteq Objects({t}), errors # {},
           NEW changes, AreCopied \subseteq changes,
           errors = Objects({t}) \/ Stay \subseteq changes,
           NEW u \in Behind(w, Statement), u = Now(Become(v, {t}, changes), "failed"),
           Reports(errors, made)
    PROVE  InFunction' /\ OnlyLiveMemory'
<1>1. errors \subseteq Objects(ErrorTags)
  BY ObjectsGrow
<1>2. /\ Frame' /\ OnlyLiveMemory' /\ Step /\ err' = err
      /\ native'.failed
      /\ \A o \in Mine : Note(o)' = IF o \in errors THEN Copied(Note(o))
                                    ELSE IF o \in made THEN Made(Note(o)) ELSE Note(o)
  BY <1>1, ReportsIs
<1>3. Args \cap Objects(ErrorTags) = {}
  BY ArgsAre DEF Safe
<1>4. PICK f : f = Become(v, {t}, changes)
  OBVIOUS
<1>5. f = [now |-> f.now, of |-> f.of] /\ f.now = w.now /\ DOMAIN f.of = Tags(call)
  <2>1. v = [now |-> v.now, of |-> v.of] /\ v.now = w.now /\ DOMAIN v.of = Tags(call)
    BY DEF Between
  <2>2. QED
    BY <1>4, <2>1, BecomeIs
<1>6. u = [now |-> u.now, of |-> u.of] /\ u.now = w.now \cup {"failed"} /\ u.of = f.of
  BY <1>4, <1>5 DEF Now
<1>7. ASSUME NEW o \in Mine PROVE Note(o)' \in u.of[o[1]]
  <2>1. PICK x, y : x = (IF o \in made THEN Made(Note(o)) ELSE Note(o)) /\ y = Note(o)'
    OBVIOUS
  <2>2. x \in v.of[o[1]] /\ o[1] \in DOMAIN v.of /\ v = [now |-> v.now, of |-> v.of]
    BY <2>1, ObjectsOf DEF Between, Mine
  <2>3. o \in Objects({t}) <=> o[1] = t
    <3>1. {t} \subseteq Tags(call)
      BY DEF Tags
    <3>2. QED
      BY <3>1, ObjectsOf DEF Mine
  <2>4. x \in SUBSET Marks
    BY <2>1, NoteIs DEF Note, Made, Marks
  <2>5. CASE o \in errors
    <3>1. o \notin made /\ o[1] = t
      BY <1>1, <1>3, <2>3, <2>5
    <3>2. y = Copied(x)
      BY <1>2, <2>1, <2>5, <3>1
    <3>3. <<x, y>> \in changes
      BY <2>4, <3>2 DEF AreCopied
    <3>4. y \in f.of[o[1]]
      BY <1>4, <2>2, <3>1, <3>3, Becomes
    <3>5. QED
      BY <1>6, <2>1, <3>4
  <2>6. CASE o \notin errors
    <3>1. y = x
      BY <1>2, <2>1, <2>6
    <3>2. o[1] = t => <<x, y>> \in changes
      BY <2>3, <2>4, <2>6, <3>1 DEF Stay
    <3>3. IF o[1] \in {t} THEN <<x, y>> \in changes ELSE y = x
      BY <3>1, <3>2
    <3>4. y \in f.of[o[1]]
      BY <1>4, <2>2, <3>3, Becomes
    <3>5. QED
      BY <1>6, <2>1, <3>4
  <2>7. QED
    BY <2>5, <2>6
<1>8. ("none" \in u.now <=> len = 0) /\ ("err" \in u.now <=> err')
      /\ ("failed" \in u.now <=> native'.failed)
  BY <1>2, <1>6 DEF Matches, Signs
<1>9. DOMAIN u.of = Tags(call)
  BY <1>5, <1>6
<1>10. Matches(u)'
  BY <1>2, <1>6, <1>7, <1>8, <1>9, MatchesNext
<1>11. QED
  BY <1>2, <1>10, StepOn

LEMMA ErrorIs == CError = Objects({"cErr"}) /\ CError # {}
BY ObjectsAre DEF CError, Places, PerElement

\* Every call of the C API, for each of its answers.
LEMMA CallStep ==
    ASSUME InFunction, AllPass, OnlyLiveMemory,
           DoAsk \/ DoFind \/ DoFindEach \/ DoList \/ DoBatch \/ DoTell \/ DoMake
    PROVE  InFunction' /\ OnlyLiveMemory'
<1> DEFINE do == Statement.do
<1>1. do \in CCalls /\ do # "Return" /\ Runs(do) /\ Running
  BY DEF DoAsk, DoFind, DoFindEach, DoList, DoBatch, DoTell, DoMake, Runs, CCalls
<1>2. PICK w \in Views(call)[at] :
        /\ Matches(w) /\ Safe(w, Statement)
        /\ After(w, Statement) \subseteq Behind(w, Statement)
  BY <1>1, RunIs
<1>3. PICK none, all, some :
        /\ none = w /\ all = All(w, Statement) /\ some = Some(w, Statement)
  OBVIOUS
<1>4. /\ Between(w, none, {}) /\ Between(w, all, Args)
      /\ \A made \in SUBSET Args : Between(w, some, made)
  BY <1>1, <1>2, <1>3, BetweenIs
<1>5. ASSUME Reports({}, {}), none \in After(w, Statement) PROVE InFunction' /\ OnlyLiveMemory'
  BY <1>1, <1>2, <1>4, <1>5, Succeeds
<1>6. ASSUME Reports({}, Args), all \in After(w, Statement) PROVE InFunction' /\ OnlyLiveMemory'
  <2>1. PICK made : made = Args
    OBVIOUS
  <2>2. QED
    BY <1>1, <1>2, <1>4, <1>6, <2>1, Succeeds
<1>7. ASSUME NEW v, NEW made \in SUBSET Args, Between(w, v, made), Reports(CError, made),
             Fails(v) \in After(w, Statement)
      PROVE  InFunction' /\ OnlyLiveMemory'
  <2>1. PICK u, errors : u = Fails(v) /\ errors = CError
    OBVIOUS
  <2>2. /\ u \in Behind(w, Statement) /\ u = Now(Become(v, {"cErr"}, AreCopied), "failed")
        /\ errors = Objects({"cErr"}) /\ errors # {} /\ Reports(errors, made) /\ "cErr" \in ErrorTags
    BY <1>2, <1>7, <2>1, ErrorIs DEF Fails, ErrorTags
  <2>3. QED
    BY <1>1, <1>2, <1>7, <2>2, FailsWith
<1>8. CASE DoAsk
  <2>1. do = "Ask" /\ (Reports({}, Args) \/ Reports(CError, {}))
    BY <1>8 DEF DoAsk, Runs
  <2>2. After(w, Statement) = {all, Fails(none)}
    BY <1>3, <2>1, AfterIs
  <2>3. QED
    BY <1>4, <1>6, <1>7, <2>1, <2>2
<1>9. CASE DoFind
  <2>1. do = "Find" /\ (Reports({}, Args) \/ Reports({}, {}) \/ Reports(CError, {}))
    BY <1>9 DEF DoFind, Runs
  <2>2. After(w, Statement) = {all, none, Fails(none)}
    BY <1>3, <2>1, AfterIs
  <2>3. QED
    BY <1>4, <1>5, <1>6, <1>7, <2>1, <2>2
<1>10. CASE DoList
  <2>1. do = "List" /\ (Reports({}, Args) \/ Reports(CError, Args))
    BY <1>10 DEF DoList, Runs
  <2>2. After(w, Statement) = {all, Fails(all)}
    BY <1>3, <2>1, AfterIs
  <2>3. QED
    BY <1>4, <1>6, <1>7, <2>1, <2>2
<1>11. CASE DoMake
  <2>1. do = "Make" /\ Reports({}, Args)
    BY <1>11 DEF DoMake, Runs
  <2>2. After(w, Statement) = {all}
    BY <1>3, <2>1, AfterIs
  <2>3. QED
    BY <1>6, <2>1, <2>2
<1>12. CASE DoTell
  <2>1. do = "Tell" /\ (Reports({}, Args) \/ Reports({}, {}))
    BY <1>12 DEF DoTell, Runs
  <2>2. After(w, Statement) = {all, none}
    BY <1>3, <2>1, AfterIs
  <2>3. QED
    BY <1>5, <1>6, <2>1, <2>2
<1>13. CASE DoBatch
  <2>1. do = "Batch" /\ (\/ Reports({}, Args)
                         \/ \E k \in 0..len - 1 : Reports(CError, {o \in Args : o[2] <= k}))
    BY <1>13 DEF DoBatch, Runs
  <2>2. After(w, Statement) = {all, Fails(some)}
    BY <1>3, <2>1, AfterIs
  <2>3. CASE \E k \in 0..len - 1 : Reports(CError, {o \in Args : o[2] <= k})
    <3>1. PICK k \in 0..len - 1 : Reports(CError, {o \in Args : o[2] <= k})
      BY <2>3
    <3>2. PICK made : made = {o \in Args : o[2] <= k}
      OBVIOUS
    <3>3. made \in SUBSET Args /\ Reports(CError, made)
      BY <3>1, <3>2
    <3>4. QED
      BY <1>4, <1>7, <2>2, <3>3
  <2>4. QED
    BY <1>6, <2>1, <2>2, <2>3
<1>14. CASE DoFindEach
  <2>1. PICK outcome \in [1..len -> {"value", "absent", "error"}] :
          Reports({<<"errs", i>> : i \in {j \in 1..len : outcome[j] = "error"}},
                  {o \in Args : outcome[o[2]] = "value"})
    BY <1>14 DEF DoFindEach
  <2>2. do = "FindEach"
    BY <1>14 DEF DoFindEach, Runs
  <2>3. PICK made, errors :
          /\ made = {o \in Args : outcome[o[2]] = "value"}
          /\ errors = {<<"errs", i>> : i \in {j \in 1..len : outcome[j] = "error"}}
    OBVIOUS
  <2>4. made \in SUBSET Args /\ Reports(errors, made)
    BY <2>1, <2>3
  <2>5. errors \subseteq Objects({"errs"})
    BY <2>3, ObjectsAre DEF Places, PerElement
  <2>6. PICK u : u = FailsFor(some)
    OBVIOUS
  <2>7. After(w, Statement) = {some, u}
    BY <1>3, <2>2, <2>6, AfterIs
  <2>8. CASE errors = {}
    BY <1>1, <1>2, <1>4, <2>4, <2>7, <2>8, Succeeds
  <2>9. CASE errors # {}
    <3>1. /\ "errs" \in ErrorTags /\ u \in Behind(w, Statement)
          /\ u = Now(Become(some, {"errs"}, Stay \cup AreCopied), "failed")
      BY <1>2, <2>6, <2>7 DEF ErrorTags, FailsFor
    <3>2. PICK changes : changes = Stay \cup AreCopied
      OBVIOUS
    <3>3. AreCopied \subseteq changes /\ Stay \subseteq changes
      BY <3>2
    <3>4. QED
      BY <1>1, <1>2, <1>4, <2>4, <2>5, <2>9, <3>1, <3>2, <3>3, FailsWith
  <2>10. QED
    BY <2>8, <2>9
<1>15. QED
  BY <1>8, <1>9, <1>10, <1>11, <1>12, <1>13, <1>14

-----------------------------------------------------------------------------
(* The return of a function, and its caller. *)

LEMMA SettledIs ==
    ASSUME InFunction, AllPass, NEW w, Matches(w), Faithful(w), Settled(w, call)
    PROVE  /\ err = (native.failed /\ call \notin Swallows)
           /\ live \subseteq Held \cup Objects(Loses[call])
           /\ err => \A s \in DOMAIN result : call \in Wraps /\ result[s].data = Null
           /\ \A s \in DOMAIN result :
                 ~result[s].freed => result[s].data = IF s \in native.made THEN s ELSE Null
           /\ \A s \in Unreleased : result[s].data = s /\ s \in live
<1>1. \A o \in Mine : o[1] \in DOMAIN w.of /\ Note(o) \in w.of[o[1]]
  BY MatchesIs DEF InFunction
<1>2. ASSUME NEW o \in Mine
      PROVE  /\ "set" \in Note(o) <=> o \in ptr
             /\ "live" \in Note(o) <=> o \in live
             /\ "made" \in Note(o) <=> o \in native.made
             /\ "lent" \in Note(o) <=> o \in DOMAIN result /\ result[o].freed
             /\ "nil" \in Note(o) <=> o \in DOMAIN result /\ ~result[o].freed /\ result[o].data = Null
             /\ "given" \in Note(o) <=> o \in DOMAIN result /\ ~result[o].freed /\ result[o].data # Null
  BY NoteIs DEF Note
<1>3. err \in BOOLEAN /\ native.failed \in BOOLEAN
      /\ ("err" \in w.now <=> err) /\ ("failed" \in w.now <=> native.failed)
  BY DEF InFunction, Frame, Matches, Signs
<1>4. err = (native.failed /\ call \notin Swallows)
  BY <1>3 DEF Settled
<1>5. /\ DOMAIN result \subseteq Mine /\ live \subseteq Mine
      /\ \A s \in DOMAIN result : ~result[s].freed => result[s].data \in {s, Null}
  BY DEF InFunction, Frame
<1>6. ASSUME NEW o \in live PROVE o \in Held \cup Objects(Loses[call])
  <2>1. "given" \in Note(o) \/ o[1] \in Loses[call]
    BY <1>1, <1>2, <1>5 DEF Settled
  <2>2. CASE "given" \in Note(o)
    <3>1. o \in DOMAIN result /\ ~result[o].freed /\ result[o].data # Null
      BY <1>2, <1>5, <2>2
    <3>2. o \in Unreleased /\ result[o].data = o
      BY <1>5, <3>1 DEF Unreleased
    <3>3. QED
      BY <3>2 DEF Held
  <2>3. CASE o[1] \in Loses[call]
    <3>1. o[1] \in Tags(call) /\ o[2] \in Places(o[1]) /\ o = <<o[1], o[2]>>
      BY <1>5, ObjectsOf DEF Mine
    <3>2. o \in Objects(Loses[call])
      BY <2>3, <3>1, ObjectsAre
    <3>3. QED
      BY <3>2
  <2>4. QED
    BY <2>1, <2>2, <2>3
<1>7. ASSUME err, NEW s \in DOMAIN result PROVE call \in Wraps /\ result[s].data = Null
  <2>1. Note(s) \cap Returned = {} \/ ("nil" \in Note(s) /\ call \in Wraps)
    BY <1>1, <1>3, <1>5, <1>7 DEF Settled
  <2>2. Note(s) \cap Returned # {}
    BY <1>2, <1>5 DEF Returned
  <2>3. QED
    BY <1>2, <1>5, <2>1, <2>2
<1>8. ASSUME NEW s \in DOMAIN result, ~result[s].freed
      PROVE  /\ result[s].data = IF s \in native.made THEN s ELSE Null
             /\ result[s].data # Null => result[s].data = s /\ s \in live
  <2>1. ("given" \in Note(s) => "made" \in Note(s)) /\ ("nil" \in Note(s) => "made" \notin Note(s))
    BY <1>1, <1>5 DEF Faithful
  <2>2. "given" \in Note(s) => "live" \in Note(s)
    BY <1>1, <1>5 DEF Settled
  <2>3. QED
    BY <1>2, <1>5, <1>8, <2>1, <2>2
<1>9. QED
  BY <1>4, <1>6, <1>7, <1>8 DEF Unreleased

LEMMA ReturnStep ==
    ASSUME InFunction, AllPass, OnlyLiveMemory, DoReturn
    PROVE  Done' /\ OnlyLiveMemory' /\ at' = 0
<1>1. /\ at # 0 /\ (Running => Runs("Return")) /\ at' = 0
      /\ UNCHANGED <<call, len, ptr, live, err, native, result, wrong>>
  BY DEF DoReturn
<1>2. \E w : Matches(w) /\ Faithful(w) /\ Settled(w, call)
  <2>1. CASE Running
    <3>1. Taken /\ Statement.do = "Return"
      BY <1>1, <2>1 DEF Runs
    <3>2. PICK w \in Views(call)[at] :
            /\ Matches(w)
            /\ Faithful(w)
            /\ MayRun(w, Statement.when) =>
                  IF Statement.do = "Return" THEN Settled(w, call) ELSE Safe(w, Statement)
      BY <2>1, LineIs
    <3>3. MayRun(w, Statement.when)
      BY <2>1, <3>1, <3>2, ConditionSeen
    <3>4. QED
      BY <3>1, <3>2, <3>3
  <2>2. CASE ~Running
    <3>1. call \in DOMAIN Programs /\ Len(Programs[call]) \in Nat
      BY ProgramsAssumption DEF InFunction
    <3>2. at = Len(Programs[call]) + 1
      BY <2>2, <3>1 DEF InFunction, Running
    <3>3. PICK w \in Views(call)[at] : Matches(w)
      BY DEF InFunction
    <3>4. Faithful(w) /\ Settled(w, call)
      BY <3>1, <3>2, <3>3 DEF AllPass, Passes
    <3>5. QED
      BY <3>3, <3>4
  <2>3. QED
    BY <2>1, <2>2
<1>3. /\ err = (native.failed /\ call \notin Swallows)
      /\ live \subseteq Held \cup Objects(Loses[call])
      /\ err => \A s \in DOMAIN result : call \in Wraps /\ result[s].data = Null
      /\ \A s \in DOMAIN result :
            ~result[s].freed => result[s].data = IF s \in native.made THEN s ELSE Null
      /\ \A s \in Unreleased : result[s].data = s /\ s \in live
  BY <1>2, SettledIs
<1>4. Held' = Held /\ Unreleased' = Unreleased /\ Objects(Loses[call])' = Objects(Loses[call])
  BY <1>1 DEF Held, Unreleased, Objects
<1>5. (ErrorReported /\ NothingLost /\ ResultsMatch)'
  BY <1>1, <1>3, <1>4 DEF ErrorReported, NothingLost, ResultsMatch
<1>6. QED
  BY <1>1, <1>3, <1>4, <1>5 DEF Done, InFunction, Frame, OnlyLiveMemory

LEMMA EmptyNote ==
    ASSUME NEW o
    PROVE  NoteOf(o, {}, {}, {}, <<>>) = {}
BY DEF NoteOf

LEMMA BeginStep ==
    ASSUME OnlyLiveMemory, NEW f \in DOMAIN Programs, NEW n \in 0..MaxLen, Call(f, n)
    PROVE  InFunction' /\ OnlyLiveMemory' /\ at' = 1
<1>1. /\ call' = f /\ len' = n /\ at' = 1 /\ ptr' = {} /\ live' = {} /\ err' = FALSE
      /\ native' = [failed |-> FALSE, made |-> {}] /\ result' = <<>> /\ UNCHANGED wrong
      /\ f \in NeedsOne => n > 0
  BY DEF Call
<1>2. n \in Nat /\ native'.failed = FALSE /\ native'.made = {} /\ DOMAIN result' = {}
  BY <1>1, BoundAssumption
<1>3. Frame'
  BY <1>1, <1>2 DEF Frame
<1> DEFINE now == IF n = 0 THEN {"none"} ELSE {}
<1>4. PICK w : w = [now |-> now, of |-> [t \in Tags(f) |-> {{}}]]
  OBVIOUS
<1>5. now \in IF f \in NeedsOne THEN {{}} ELSE {{}, {"none"}}
  BY <1>1
<1>6. w \in Entry(f)
  BY <1>4, <1>5 DEF Entry
<1>7. w \in Views(f)[1]
  BY <1>6, ViewsAre
<1>8. w \in (Views(call)[at])'
  <2>1. Views(call)' = Views(f)
    BY <1>1 DEF Views, Entry, Tags
  <2>2. QED
    BY <1>1, <1>7, <2>1
<1>9. Signs(w)'
  BY <1>1, <1>2, <1>4 DEF Signs
<1>10. ASSUME NEW o \in Mine' PROVE Note(o)' \in w.of[o[1]]
  <2>1. Note(o)' = {}
    BY <1>1, <1>2, EmptyNote DEF Note
  <2>2. o[1] \in Tags(f)
    <3>1. \E t \in Tags(f) : \E i : o = <<t, i>>
      BY <1>1, <1>10 DEF Mine, Objects, Tags
    <3>2. QED
      BY <3>1
  <2>3. QED
    BY <1>4, <2>1, <2>2
<1>11. (Tags(call))' = Tags(f)
  BY <1>1 DEF Tags
<1>12. Matches(w)'
  BY <1>4, <1>9, <1>10, <1>11 DEF Matches
<1>13. Len(Programs[f]) \in Nat
  BY ProgramsAssumption
<1>14. InFunction'
  BY <1>1, <1>3, <1>8, <1>12, <1>13 DEF InFunction
<1>15. QED
  BY <1>1, <1>14 DEF OnlyLiveMemory

\* The caller frees what it was given, or tries it again.
LEMMA ReleaseStep ==
    ASSUME Done, OnlyLiveMemory, NEW s, Release(s)
    PROVE  Done' /\ OnlyLiveMemory' /\ at' = 0
<1>1. /\ at = 0 /\ s \in DOMAIN result /\ UNCHANGED <<call, len, at, ptr, err, native>>
      /\ IF result[s].freed
         THEN UNCHANGED <<live, wrong, result>>
         ELSE /\ live' = live \ ({result[s].data} \ {Null})
              /\ wrong' = wrong \cup (({result[s].data} \ {Null}) \ live)
              /\ result' = [result EXCEPT ![s] = [data |-> Null, freed |-> TRUE]]
  BY DEF Release, Frees
<1>2. Objects(Loses[call])' = Objects(Loses[call])
  BY <1>1 DEF Objects
<1>3. /\ err = (native.failed /\ call \notin Swallows)
      /\ call # Idle => live \subseteq Held \cup Objects(Loses[call])
      /\ err => \A x \in DOMAIN result : call \in Wraps /\ result[x].data = Null
      /\ \A x \in DOMAIN result :
            ~result[x].freed => result[x].data = IF x \in native.made THEN x ELSE Null
      /\ \A x \in Unreleased : result[x].data = x /\ x \in live
  BY <1>1 DEF Done, ErrorReported, NothingLost, ResultsMatch
<1>4. CASE result[s].freed
  <2>1. UNCHANGED <<live, wrong, result>>
    BY <1>1, <1>4
  <2>2. Held' = Held /\ Unreleased' = Unreleased
    BY <2>1 DEF Held, Unreleased
  <2>3. (ErrorReported /\ NothingLost /\ ResultsMatch)'
    BY <1>1, <1>2, <1>3, <2>1, <2>2 DEF ErrorReported, NothingLost, ResultsMatch
  <2>4. QED
    BY <1>1, <1>3, <2>1, <2>2, <2>3 DEF Done, OnlyLiveMemory
<1>5. CASE ~result[s].freed
  <2>1. DOMAIN result' = DOMAIN result /\ result'[s] = [data |-> Null, freed |-> TRUE]
        /\ \A x \in DOMAIN result \ {s} : result'[x] = result[x]
    BY <1>1, <1>5
  <2>2. result'[s].data = Null /\ result'[s].freed = TRUE
    BY <2>1
  <2>3. Unreleased' = Unreleased \ {s}
    BY <2>1, <2>2 DEF Unreleased
  <2>4. result[s].data # Null => s \in Unreleased /\ result[s].data = s /\ s \in live
    BY <1>1, <1>3, <1>5 DEF Unreleased
  <2>5. wrong' = {}
    BY <1>1, <1>5, <2>4 DEF OnlyLiveMemory
  <2>6. live' = IF result[s].data = Null THEN live ELSE live \ {s}
    BY <1>1, <1>5, <2>4
  <2>7. \A x \in Unreleased' : result'[x].data = x /\ x \in live'
    BY <1>3, <2>1, <2>3, <2>6 DEF Unreleased
  <2>8. call # Idle => live' \subseteq Held' \cup Objects(Loses[call])
    <3> SUFFICES ASSUME call # Idle, NEW o \in live', o \notin Objects(Loses[call])
                 PROVE  o \in Held'
      OBVIOUS
    <3>1. o \in Held
      BY <1>3, <2>6
    <3>2. PICK x \in Unreleased : o = result[x].data
      BY <3>1 DEF Held
    <3>3. x = o
      BY <1>3, <3>2
    <3>4. x # s
      <4>1. SUFFICES ASSUME x = s PROVE FALSE
        OBVIOUS
      <4>2. result[s].data # Null
        BY <3>2, <4>1 DEF Unreleased
      <4>3. QED
        BY <2>6, <3>3, <4>1, <4>2
    <3>5. x \in Unreleased' /\ x \in DOMAIN result
      BY <2>3, <3>2, <3>4 DEF Unreleased
    <3>6. result'[x].data = o
      BY <2>1, <3>2, <3>4, <3>5
    <3>7. QED
      BY <3>5, <3>6 DEF Held
  <2>9. /\ err => \A x \in DOMAIN result' : call \in Wraps /\ result'[x].data = Null
        /\ \A x \in DOMAIN result' :
              ~result'[x].freed => result'[x].data = IF x \in native.made THEN x ELSE Null
    BY <1>3, <2>1, <2>2
  <2>10. (ErrorReported /\ NothingLost /\ ResultsMatch)'
    BY <1>1, <1>2, <1>3, <2>8, <2>9 DEF ErrorReported, NothingLost, ResultsMatch
  <2>11. QED
    BY <1>1, <2>5, <2>7, <2>10 DEF Done, OnlyLiveMemory
<1>6. QED
  BY <1>4, <1>5

-----------------------------------------------------------------------------
(* The invariant. *)

LEMMA InitIInv == Init => IInv
<1> SUFFICES ASSUME Init PROVE IInv
  OBVIOUS
<1>1. /\ call = Idle /\ len = 0 /\ at = 0 /\ live = {} /\ err = FALSE /\ wrong = {}
      /\ native.failed = FALSE /\ DOMAIN result = {}
  BY DEF Init
<1>2. Unreleased = {}
  BY <1>1 DEF Unreleased
<1>3. ErrorReported /\ NothingLost /\ ResultsMatch
  BY <1>1 DEF ErrorReported, NothingLost, ResultsMatch
<1>4. QED
  BY <1>1, <1>2, <1>3 DEF IInv, Done, OnlyLiveMemory

LEMMA NextIInv ==
    ASSUME AllPass, IInv, [Next]_vars
    PROVE  IInv'
<1>1. ASSUME InFunction', OnlyLiveMemory', at' # 0 PROVE IInv'
  BY <1>1 DEF IInv
<1>2. ASSUME Done', OnlyLiveMemory', at' = 0 PROVE IInv'
  BY <1>2 DEF IInv
<1>3. ASSUME at # 0, Step PROVE InFunction /\ at' # 0
  BY <1>3 DEF IInv, Step, InFunction
<1>4. OnlyLiveMemory
  BY DEF IInv
<1>5. ASSUME NEW f \in DOMAIN Programs, NEW n \in 0..MaxLen, Call(f, n) PROVE IInv'
  <2>1. InFunction' /\ OnlyLiveMemory' /\ at' = 1
    BY <1>4, <1>5, BeginStep
  <2>2. QED
    BY <1>1, <2>1
<1>6. CASE Skip
  <2>1. at # 0 /\ Step
    BY <1>6 DEF Skip
  <2>2. QED
    BY <1>1, <1>3, <1>4, <1>6, <2>1, SkipStep
<1>7. CASE DoCopy
  <2>1. at # 0 /\ Step
    BY <1>7 DEF DoCopy, Runs
  <2>2. QED
    BY <1>1, <1>3, <1>4, <1>7, <2>1, CopyStep
<1>8. CASE DoAsk \/ DoFind \/ DoFindEach \/ DoList \/ DoBatch \/ DoTell \/ DoMake
  <2>1. at # 0 /\ Step
    BY <1>8 DEF DoAsk, DoFind, DoFindEach, DoList, DoBatch, DoTell, DoMake, Runs, Reports
  <2>2. QED
    BY <1>1, <1>3, <1>4, <1>8, <2>1, CallStep
<1>9. CASE DoFromCError
  <2>1. at # 0 /\ Step
    BY <1>9 DEF DoFromCError, Runs
  <2>2. QED
    BY <1>1, <1>3, <1>4, <1>9, <2>1, FromCErrorStep
<1>10. CASE DoFree \/ DoShadowedError
  <2>1. at # 0 /\ Step
    BY <1>10 DEF DoFree, DoShadowedError, Runs
  <2>2. QED
    BY <1>1, <1>3, <1>4, <1>10, <2>1, FreeStep
<1>11. CASE DoReadOut
  <2>1. at # 0 /\ Step
    BY <1>11 DEF DoReadOut, Runs
  <2>2. QED
    BY <1>1, <1>3, <1>4, <1>11, <2>1, ReadOutStep
<1>12. CASE DoGive
  <2>1. at # 0 /\ Step
    BY <1>12 DEF DoGive, Runs
  <2>2. QED
    BY <1>1, <1>3, <1>4, <1>12, <2>1, GiveStep
<1>13. CASE DoLend
  <2>1. at # 0 /\ Step
    BY <1>13 DEF DoLend, Runs
  <2>2. QED
    BY <1>1, <1>3, <1>4, <1>13, <2>1, LendStep
<1>14. CASE DoReturn
  <2>1. InFunction
    BY <1>14 DEF IInv, DoReturn
  <2>2. QED
    BY <1>2, <1>4, <1>14, <2>1, ReturnStep
<1>15. ASSUME NEW s, Release(s) PROVE IInv'
  <2>1. Done
    BY <1>15 DEF IInv, Release
  <2>2. QED
    BY <1>2, <1>4, <1>15, <2>1, ReleaseStep
<1>16. CASE UNCHANGED vars
  <2>1. /\ Objects(ErrorTags)' = Objects(ErrorTags) /\ Mine' = Mine
        /\ Views(call)' = Views(call) /\ Tags(call)' = Tags(call)
        /\ Objects(Loses[call])' = Objects(Loses[call])
    BY <1>16 DEF vars, Objects, Mine, Views, Entry, Tags
  <2>2. (\A o : Note(o)' = Note(o)) /\ Unreleased' = Unreleased /\ Held' = Held
    BY <1>16 DEF vars, Note, Unreleased, Held
  <2>3. InFunction => InFunction'
    BY <1>16, <2>1, <2>2 DEF vars, InFunction, Frame, Matches, Signs
  <2>4. Done => Done'
    BY <1>16, <2>1, <2>2 DEF vars, Done, ErrorReported, NothingLost, ResultsMatch
  <2>5. QED
    BY <1>16, <2>3, <2>4 DEF vars, IInv, OnlyLiveMemory
<1>17. QED
  BY <1>5, <1>6, <1>7, <1>8, <1>9, <1>10, <1>11, <1>12, <1>13, <1>14, <1>15, <1>16 DEF Next

LEMMA IInvAlways ==
    ASSUME AllPass
    PROVE  Spec => []IInv
<1>1. IInv /\ [Next]_vars => IInv'
  BY NextIInv
<1>2. QED
  BY <1>1, InitIInv, PTL DEF Spec

\* With lists of any length and whatever the C API answers, a function that
\* passes the review frees, reads and hands over nothing that is not allocated.
THEOREM OnlyLiveMemoryAlways ==
    ASSUME \A f \in DOMAIN Programs : Passes(f)
    PROVE  Spec => []OnlyLiveMemory
<1>1. AllPass
  BY DEF AllPass
<1>2. IInv => OnlyLiveMemory
  BY DEF IInv
<1>3. QED
  BY <1>1, <1>2, IInvAlways, PTL

\* With lists of any length, what is allocated when such a function has
\* returned is the caller's to free, or a loss its instance names.
THEOREM NothingLostAlways ==
    ASSUME \A f \in DOMAIN Programs : Passes(f)
    PROVE  Spec => []NothingLost
<1>1. AllPass
  BY DEF AllPass
<1>2. IInv => NothingLost
  BY DEF IInv, Done, NothingLost
<1>3. QED
  BY <1>1, <1>2, IInvAlways, PTL

\* Such a function returns an error just when the C API has reported one, but
\* for those that are named as swallowing it.
THEOREM ErrorReportedAlways ==
    ASSUME \A f \in DOMAIN Programs : Passes(f)
    PROVE  Spec => []ErrorReported
<1>1. AllPass
  BY DEF AllPass
<1>2. IInv => ErrorReported
  BY DEF IInv, Done, ErrorReported
<1>3. QED
  BY <1>1, <1>2, IInvAlways, PTL

\* Each slot of its results has what the C API returned for that element of
\* the list, however long the list, and there are no results next to an error.
THEOREM ResultsMatchAlways ==
    ASSUME \A f \in DOMAIN Programs : Passes(f)
    PROVE  Spec => []ResultsMatch
<1>1. AllPass
  BY DEF AllPass
<1>2. IInv => ResultsMatch
  <2>1. SUFFICES ASSUME IInv PROVE ResultsMatch
    OBVIOUS
  <2>2. CASE at = 0
    BY <2>1, <2>2 DEF IInv, Done
  <2>3. CASE at # 0
    <3>1. InFunction
      BY <2>1, <2>3 DEF IInv
    <3>2. ASSUME NEW s \in DOMAIN result, ~result[s].freed
          PROVE  result[s].data = IF s \in native.made THEN s ELSE Null
      <4>1. PICK w \in Views(call)[at] : Matches(w) /\ Faithful(w)
        BY <3>1, FaithfulSeen, <1>1
      <4>2. s \in Mine /\ result[s].data \in {s, Null}
        BY <3>1, <3>2 DEF InFunction, Frame
      <4>3. Note(s) \in w.of[s[1]] /\ s[1] \in DOMAIN w.of
        BY <3>1, <4>1, <4>2, MatchesIs DEF InFunction
      <4>4. /\ "given" \in Note(s) => "made" \in Note(s)
            /\ "nil" \in Note(s) => "made" \notin Note(s)
        BY <4>1, <4>3 DEF Faithful
      <4>5. QED
        BY <3>2, <4>2, <4>4, NoteIs DEF Note
    <3>3. QED
      BY <2>3, <3>2 DEF ResultsMatch
  <2>4. QED
    BY <2>2, <2>3
<1>3. QED
  BY <1>1, <1>2, IInvAlways, PTL
===============================================================================

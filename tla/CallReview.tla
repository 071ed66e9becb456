----------------------------- MODULE CallReview -----------------------------
(***************************************************************************)
(* The functions of NativeCall read as a reviewer reads them: line by      *)
(* line, for every answer of the C API, with a note of what may have       *)
(* become of each C variable and without the length of the list.  One note *)
(* stands for all elements of a list.  What passes this review is free of  *)
(* the faults NativeCall looks for, however long its lists are.            *)
(***************************************************************************)
EXTENDS NativeCall

\* What can be noted of a pointer: it is not NULL, what it points to is
\* allocated, it came from the C API, and how it was returned.
Returned == {"given", "nil", "lent"}
Marks    == {"set", "live", "made"} \cup Returned

Copied(x) == x \cup {"set", "live"}
Made(x)   == x \cup {"set", "live", "made"}
Freed(x)  == IF "set" \in x THEN x \ {"live"} ELSE x
Given(x)  == (x \ Returned) \cup {IF "set" \in x THEN "given" ELSE "nil"}
Lent(x)   == (x \ Returned) \cup {"lent"}

\* Changes of notes as sets of pairs: each pointer undergoes one of them.
AreCopied == {<<x, Copied(x)>> : x \in SUBSET Marks}
AreMade   == {<<x, Made(x)>> : x \in SUBSET Marks}
AreFreed  == {<<x, Freed(x)>> : x \in SUBSET Marks}
AreGiven  == {<<x, Given(x)>> : x \in SUBSET Marks}
AreLent   == {<<x, Lent(x)>> : x \in SUBSET Marks}
Stay      == {<<x, x>> : x \in SUBSET Marks}

ErrorTags == {"cErr", "errs"}

Tags(f) == ErrorTags \cup UNION {Programs[f][i].tags : i \in DOMAIN Programs[f]}

(* A view is the set of conditions that hold ("none": the list is empty,   *)
(* "err": the Go error is not nil, "failed": the C API has reported an     *)
(* error) and, for each tag, the notes its pointers may have.              *)
Entry(f) ==
    {[now |-> now, of |-> [t \in Tags(f) |-> {{}}]] :
        now \in IF f \in NeedsOne THEN {{}} ELSE {{}, {"none"}}}

Become(w, tags, changes) ==
    [w EXCEPT !.of = [t \in DOMAIN w.of |->
        IF t \in tags THEN {c[2] : c \in {d \in changes : d[1] \in w.of[t]}} ELSE w.of[t]]]

Now(w, sign) == [w EXCEPT !.now = @ \cup {sign}]

Fails(w) == Now(Become(w, {"cErr"}, AreCopied), "failed")

\* The views after a statement that is executed.
After(w, s) ==
    LET all  == Become(w, s.tags, AreMade)
        some == Become(w, s.tags, Stay \cup AreMade)
    IN  CASE s.do = "Copy"     -> {Become(w, s.tags, AreCopied)}
          [] s.do = "Ask"      -> {all, Fails(w)}
          [] s.do = "Find"     -> {all, w, Fails(w)}
          [] s.do = "List"     -> {all, Fails(all)}
          [] s.do = "Make"     -> {all}
          [] s.do = "Tell"     -> {all, w}
          [] s.do = "Batch"    -> {all, Fails(some)}
          [] s.do = "FindEach" ->
                {some, Now(Become(some, {"errs"}, Stay \cup AreCopied), "failed")}
          [] s.do = "FromCError" ->
                LET freed == Become(w, s.tags, AreFreed)
                IN  {[freed EXCEPT !.now = IF "failed" \in w.now THEN @ \cup {"err"}
                                                                  ELSE @ \ {"err"}]}
          [] s.do \in {"ShadowedError", "Free"} -> {Become(w, s.tags, AreFreed)}
          [] s.do = "Give" -> {Become(w, s.tags, AreGiven)}
          [] s.do = "Lend" -> {Become(w, s.tags, AreLent)}
          [] OTHER         -> {w}

\* The condition around a statement may be true, or may be false.
MayRun(w, when) ==
    CASE when = "always" -> TRUE
      [] when = "ok"     -> "err" \notin w.now
      [] when = "err"    -> "err" \in w.now
      [] when = "absent" -> /\ "err" \notin w.now
                            /\ \A t \in DOMAIN w.of \ PerElement :
                                  \E x \in w.of[t] : "made" \notin x
      [] when = "none"   -> "none" \in w.now
      [] when = "some"   -> "none" \notin w.now

MaySkip(w, when) ==
    CASE when = "always" -> FALSE
      [] when = "ok"     -> "err" \in w.now
      [] when = "err"    -> "err" \notin w.now
      [] when = "absent" -> \/ "err" \in w.now
                            \/ \E t \in DOMAIN w.of : \E x \in w.of[t] : "made" \in x
      [] when = "none"   -> "none" \notin w.now
      [] when = "some"   -> "none" \in w.now

Behind(w, s) ==
    (IF MayRun(w, s.when) /\ s.do # "Return" THEN After(w, s) ELSE {})
        \cup (IF MaySkip(w, s.when) THEN {w} ELSE {})

Onward(views, s) == UNION {Behind(w, s) : w \in views}

\* The views before each statement, and after the last.
Views(f) ==
    LET before[i \in 1..Len(Programs[f]) + 1] ==
            IF i = 1 THEN Entry(f)
            ELSE Onward(before[i - 1], Programs[f][i - 1])
    IN  before

-----------------------------------------------------------------------------
(* What the review demands.                                                *)

CCalls == {"Ask", "Find", "FindEach", "List", "Batch", "Tell", "Make"}
Reads  == {"FromCError", "ShadowedError", "ReadOut", "Free"}

\* Nothing is read, handed over or freed that is not allocated; an error is
\* taken from the variable that has it.
Safe(w, s) ==
    /\ s.do \in CCalls => \A t \in DOMAIN w.of : \A x \in w.of[t] :
                            "set" \in x /\ "made" \notin x => "live" \in x
    /\ s.do \in CCalls \cup {"Copy"} => s.tags \cap ErrorTags = {}
    /\ s.do = "FindEach" => s.tags \subseteq PerElement
    /\ s.do \in Reads => \A t \in s.tags : \A x \in w.of[t] : "set" \in x => "live" \in x
    /\ s.do = "FromCError" => /\ s.tags \subseteq ErrorTags
                              /\ \A t \in ErrorTags \ s.tags : \A x \in w.of[t] : "set" \notin x

\* A result is what the C API returned, or nil where it returned nothing.
Faithful(w) ==
    \A t \in DOMAIN w.of : \A x \in w.of[t] :
        ("given" \in x => "made" \in x) /\ ("nil" \in x => "made" \notin x)

\* When the function returns, what is allocated is the caller's and what the
\* caller is given is allocated, or Loses has it; and the error is returned,
\* without results.
Settled(w, f) ==
    /\ "err" \in w.now <=> "failed" \in w.now /\ f \notin Swallows
    /\ \A t \in DOMAIN w.of : \A x \in w.of[t] :
          /\ "live" \in x => "given" \in x \/ t \in Loses[f]
          /\ "given" \in x => "live" \in x
          /\ "err" \in w.now => x \cap Returned = {} \/ ("nil" \in x /\ f \in Wraps)

ReviewedLine(f, i) ==
    \A w \in Views(f)[i] :
        /\ Faithful(w)
        /\ MayRun(w, Programs[f][i].when) =>
              IF Programs[f][i].do = "Return" THEN Settled(w, f) ELSE Safe(w, Programs[f][i])

Passes(f) ==
    /\ "NULL" \notin Tags(f)
    /\ \A i \in DOMAIN Programs[f] : ReviewedLine(f, i)
    /\ \A w \in Views(f)[Len(Programs[f]) + 1] : Faithful(w) /\ Settled(w, f)

\* Every function that is called frees, returns and reports what it should
\* on every path through its lines, for lists of any length.
Reviewed == at = 1 => Passes(call)
=============================================================================

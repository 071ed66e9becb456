----------------------------- MODULE NativeCall -----------------------------
(***************************************************************************)
(* One goroutine calls functions of the binding, one after the other, and  *)
(* frees what they hand to it.  The module is a ledger of the C heap: what *)
(* a function allocates, reads, frees and returns on each of its paths,    *)
(* for every outcome the C API allows.                                     *)
(*                                                                         *)
(* Functions are independent of one another here: what they do to the      *)
(* database is RocksDB's matter.                                           *)
(***************************************************************************)
EXTENDS CallStatements, Integers, FiniteSets

CONSTANTS
    Programs,   \* [name of a function |-> its statements]
    NeedsOne,   \* the functions a caller must not give an empty list
    MaxLen,     \* the longest list a function is given
    Loses,      \* [name of a function |-> the variables whose memory it may lose]
    Swallows,   \* the functions that do not return the error they are told
    Wraps       \* the functions that return an empty wrapper with an error

ASSUME ProgramsAssumption == \A f \in DOMAIN Programs : Programs[f] \in Seq(Statements)
ASSUME BoundAssumption == MaxLen \in Nat

VARIABLES
    call,     \* the function that runs, or ran last
    len,      \* the length of the list it was given
    at,       \* its next statement; 0 when it has returned
    ptr,      \* the C variables of the function that are not NULL
    live,     \* the C heap: what is allocated
    err,      \* the function's Go error is not nil
    native,   \* what the C function reported: an error, and what it found
    result,   \* [slot of the results |-> the Go object in it]
    wrong     \* what was freed though not allocated, or read after it was freed

vars == <<call, len, at, ptr, live, err, native, result, wrong>>

Idle == "idle"

Objects(tags) ==
    UNION {IF t \in PerElement THEN {t} \X (1..len) ELSE {<<t, 0>>} : t \in tags}

Null == <<"NULL", 0>>

Init ==
    /\ call = Idle /\ len = 0 /\ at = 0
    /\ ptr = {} /\ live = {}
    /\ err = FALSE
    /\ native = [failed |-> FALSE, made |-> {}]
    /\ result = <<>>
    /\ wrong = {}

Unreleased == {s \in DOMAIN result : ~result[s].freed /\ result[s].data # Null}

(* The caller has freed the results of its last call.  What that call lost *)
(* stays lost; the ledger starts afresh.                                   *)
Call(f, n) ==
    /\ at = 0 /\ Unreleased = {}
    /\ f \in NeedsOne => n > 0
    /\ call' = f /\ len' = n /\ at' = 1
    /\ ptr' = {} /\ live' = {}
    /\ err' = FALSE
    /\ native' = [failed |-> FALSE, made |-> {}]
    /\ result' = <<>>
    /\ UNCHANGED wrong

-----------------------------------------------------------------------------
(* Statements.                                                             *)

Running == at \in 1..Len(Programs[call])

Statement == Programs[call][at]

Taken ==
    CASE Statement.when = "always" -> TRUE
      [] Statement.when = "ok"     -> ~err
      [] Statement.when = "err"    -> err
      [] Statement.when = "absent" -> ~err /\ native.made = {}
      [] Statement.when = "none"   -> len = 0
      [] Statement.when = "some"   -> len > 0

Runs(what) == at # 0 /\ Running /\ Taken /\ Statement.do = what

Args == Objects(Statement.tags)

Step == at' = at + 1 /\ UNCHANGED <<call, len>>

Skip ==
    /\ at # 0 /\ Running /\ ~Taken
    /\ Step
    /\ UNCHANGED <<ptr, live, err, native, result, wrong>>

DoCopy ==
    /\ Runs("Copy")
    /\ ptr' = ptr \cup Args /\ live' = live \cup Args
    /\ Step
    /\ UNCHANGED <<err, native, result, wrong>>

(* The C function reads the copies of the arguments, and allocates its     *)
(* error strings and results.                                              *)
Reports(errors, made) ==
    /\ ptr' = ptr \cup errors \cup made
    /\ live' = live \cup errors \cup made
    /\ wrong' = wrong \cup ((ptr \ native.made) \ live)
    /\ native' = [failed |-> errors # {} \/ native.failed, made |-> native.made \cup made]
    /\ Step
    /\ UNCHANGED <<err, result>>

CError == {<<"cErr", 0>>}

DoAsk  == Runs("Ask")  /\ (Reports({}, Args) \/ Reports(CError, {}))
DoFind == Runs("Find") /\ (Reports({}, Args) \/ Reports({}, {}) \/ Reports(CError, {}))
DoList == Runs("List") /\ (Reports({}, Args) \/ Reports(CError, Args))
DoMake == Runs("Make") /\ Reports({}, Args)
DoTell == Runs("Tell") /\ (Reports({}, Args) \/ Reports({}, {}))

DoBatch ==
    /\ Runs("Batch")
    /\ \/ Reports({}, Args)
       \/ \E k \in 0..len - 1 : Reports(CError, {o \in Args : o[2] <= k})

DoFindEach ==
    /\ Runs("FindEach")
    /\ \E outcome \in [1..len -> {"value", "absent", "error"}] :
          Reports({<<"errs", i>> : i \in {j \in 1..len : outcome[j] = "error"}},
                  {o \in Args : outcome[o[2]] = "value"})

(* C.free and its like do nothing with NULL.                               *)
Frees(objects) ==
    /\ live' = live \ objects
    /\ wrong' = wrong \cup (objects \ live)

(* fromCError: copies the message, frees the C string.  FromEach is the    *)
(* loop that calls it for every element and collects the errors.           *)
DoFromCError ==
    /\ Runs("FromCError")
    /\ err' = (Args \cap ptr # {})
    /\ Frees(Args \cap ptr)
    /\ Step
    /\ UNCHANGED <<ptr, native, result>>

DoReadOut ==
    /\ Runs("ReadOut")
    /\ wrong' = wrong \cup ((Args \cap ptr) \ live)
    /\ Step
    /\ UNCHANGED <<ptr, live, err, native, result>>

DoFree ==
    /\ Runs("Free")
    /\ Frees(Args \cap ptr)
    /\ Step
    /\ UNCHANGED <<ptr, err, native, result>>

(* fromCError in an inner scope: "if err := fromCError(cErr)".             *)
DoShadowedError ==
    /\ Runs("ShadowedError")
    /\ Frees(Args \cap ptr)
    /\ Step
    /\ UNCHANGED <<ptr, err, native, result>>

(* Mutant: the results are packed, without those that were not found.      *)
PackedPointer(slot) ==
    LET Found(n) == {o \in ptr : o[1] = slot[1] /\ o[2] \in 1..n}
        reach == {n \in 1..len : Cardinality(Found(n)) >= slot[2]}
    IN  IF slot[2] = 0 /\ slot \in ptr THEN slot
        ELSE IF slot[2] = 0 \/ reach = {} THEN Null
        ELSE <<slot[1], CHOOSE n \in reach : \A m \in reach : n <= m>>

(* The slot of element i receives the pointer of element i, NULL or not.   *)
Pointer(slot) == IF slot \in ptr THEN slot ELSE Null

\* New results next to the ones there are.
Results(slots) ==
    [s \in DOMAIN slots \cup DOMAIN result |-> IF s \in DOMAIN slots THEN slots[s] ELSE result[s]]

DoGive ==
    /\ Runs("Give")
    /\ result' = Results([s \in Args |-> [data |-> Pointer(s), freed |-> FALSE]])
    /\ Step
    /\ UNCHANGED <<ptr, live, err, native, wrong>>

DoLend ==
    /\ Runs("Lend")
    /\ result' = Results([s \in Args |-> [data |-> s, freed |-> TRUE]])
    /\ Step
    /\ UNCHANGED <<ptr, live, err, native, wrong>>

DoReturn ==
    /\ at # 0
    /\ Running => Runs("Return")
    /\ at' = 0
    /\ UNCHANGED <<call, len, ptr, live, err, native, result, wrong>>
-----------------------------------------------------------------------------
(* The caller frees a result: Slice.Free, perhaps again, or Destroy.       *)
Release(s) ==
    /\ at = 0 /\ s \in DOMAIN result
    /\ IF result[s].freed
       THEN UNCHANGED <<live, wrong, result>>
       ELSE /\ Frees({result[s].data} \ {Null})
            /\ result' = [result EXCEPT ![s] = [data |-> Null, freed |-> TRUE]]
    /\ UNCHANGED <<call, len, at, ptr, err, native>>

Next ==
    \/ \E f \in DOMAIN Programs, n \in 0..MaxLen : Call(f, n)
    \/ Skip
    \/ DoCopy
    \/ DoAsk \/ DoFind \/ DoFindEach \/ DoList \/ DoBatch \/ DoTell \/ DoMake
    \/ DoFromCError \/ DoShadowedError
    \/ DoReadOut \/ DoFree
    \/ DoGive \/ DoLend
    \/ DoReturn
    \/ \E s \in DOMAIN result : Release(s)

Spec == Init /\ [][Next]_vars

-----------------------------------------------------------------------------
(* Properties.                                                             *)

Held == {result[s].data : s \in Unreleased}

(* No function of the binding, and no Free or Destroy of what it returned, *)
(* frees memory that is not allocated or not the caller's, hands freed     *)
(* memory to the C API or reads it: on every path, also after an error and *)
(* when the caller frees a Slice twice. *)
OnlyLiveMemory == wrong = {}

(* When a function has returned, every allocation it made is freed or is   *)
(* the caller's to free, whatever failed and wherever it returned; Loses   *)
(* names the functions and variables for which that is not so. *)
NothingLost ==
    at = 0 /\ call # Idle => live \subseteq Held \cup Objects(Loses[call])

(* A function returns an error exactly when the C API reported one, for    *)
(* any of the elements it was asked for. *)
ErrorReported ==
    at = 0 => err = (native.failed /\ call \notin Swallows)

(* With an error a function returns no object, or a wrapper around a nil   *)
(* pointer if Wraps names it; without one the object in                    *)
(* the slot of an element is the one the C API returned for this element,  *)
(* and a nil one exactly where the C API found nothing. *)
ResultsMatch ==
    /\ at = 0 /\ err =>
          \A s \in DOMAIN result : call \in Wraps /\ result[s].data = Null
    /\ \A s \in DOMAIN result :
          ~result[s].freed => result[s].data = IF s \in native.made THEN s ELSE Null
=============================================================================

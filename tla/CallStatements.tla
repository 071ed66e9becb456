--------------------------- MODULE CallStatements ---------------------------
(***************************************************************************)
(* The statements that the functions of the binding are made of, where     *)
(* they touch memory of the C heap.  The functions of db.go, transaction*, *)
(* extend.go, ... allocate C copies of their arguments, call one function  *)
(* of RocksDB's C API, turn the C error into a Go error, wrap or copy what *)
(* came back, and free the copies: all by hand, on every path, because the *)
(* code base uses no defer.                                                *)
(*                                                                         *)
(* A function is a sequence of statements.  A statement names C variables  *)
(* of the function by tags; a tag of PerElement stands for one pointer for *)
(* every element of the list the function was given (a key, a column       *)
(* family, a file path), the others for one pointer.                       *)
(***************************************************************************)
EXTENDS Sequences

PerElement == {"names", "keys", "values", "vals", "times", "handles", "iters",
               "starts", "limits", "paths", "errs",
               "levels", "files", "fileNames", "smallest", "largest"}

(* "when": the condition the Go code puts around the statement. *)
Do(what, tags) == [do |-> what, tags |-> tags, when |-> "always"]
OnOk(s)     == [s EXCEPT !.when = "ok"]        \* if err == nil { ... }
OnErr(s)    == [s EXCEPT !.when = "err"]       \* if len(errs) > 0 { ... }
OnAbsent(s) == [s EXCEPT !.when = "absent"]    \* if cValue == nil { ... }
OnNone(s)   == [s EXCEPT !.when = "none"]      \* if len(names) == 0 { ... }
OnSome(s)   == [s EXCEPT !.when = "some"]      \* if n := len(cfs); n > 0 { ... }

(* C copies of Go strings and slices: C.CString, C.CBytes. *)
Copy(tags) == Do("Copy", tags)

(* One call of the C API; the tags are what it allocates for its caller.   *)
Ask(tags)      == Do("Ask", tags)       \* all of them, or cErr
Find(tags)     == Do("Find", tags)      \* all, none (not found), or cErr
FindEach(tags) == Do("FindEach", tags)  \* a value, nothing or an error for each element
List(tags)     == Do("List", tags)      \* allocated whether or not cErr is set
Batch(tags)    == Do("Batch", tags)     \* on failure only those made before it
Tell(tags)     == Do("Tell", tags)      \* found or not: the function has no cErr
Make(tags)     == Do("Make", tags)      \* always: the function has no cErr

FromCError == Do("FromCError", {"cErr"})     \* err = fromCError(cErr)
FromEach   == Do("FromCError", {"errs"})     \* for i, rocksErr := range rocksErrs { ... }
Shadowed   == Do("ShadowedError", {"cErr"})  \* if err := fromCError(cErr); err == nil { ... }
ReadOut(tags) == Do("ReadOut", tags)         \* C.GoString, C.GoBytes
Free(tags)    == Do("Free", tags)            \* C.free, C.rocksdb_free, ..._destroy
Give(tags)    == Do("Give", tags)            \* wrapped in a Go object the caller must free
Lend(tags)    == Do("Lend", tags)            \* a Slice marked freed: not the caller's to free
Return        == Do("Return", {})

Kinds == {"Copy", "Ask", "Find", "FindEach", "List", "Batch", "Tell", "Make", "FromCError",
          "ShadowedError", "ReadOut", "Free", "Give", "Lend", "Return"}

Conditions == {"always", "ok", "err", "absent", "none", "some"}

Statements == [do : Kinds, tags : SUBSET STRING, when : Conditions]
=============================================================================

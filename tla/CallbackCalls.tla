---------------------------- MODULE CallbackCalls ----------------------------
(***************************************************************************)
(* The functions RocksDB calls back, and the registrations before them, as *)
(* statements over the C heap.  Here the caller is RocksDB: it frees what  *)
(* it was given a destructor for, which is the value of a merge operator.  *)
(***************************************************************************)
EXTENDS CallStatements

(* cByteSlice of the application's answer: a C copy, NULL if it is empty.  *)
Answer(tags) == Tell(tags)

(* registerComperator and its like: the name stays in the registry.        *)
Register == <<Copy({"name"}), Lend({"name"})>>

(* RocksDB frees the value with gorocksdb_mergeoperator_delete_value.      *)
FullMerge == <<Answer({"newValue"}), Give({"newValue"})>>

PartialMergeMulti == FullMerge

(* The function table of a slice transform has no destructor for results.  *)
Transform == <<Answer({"dst"}), Lend({"dst"})>>

CallbackLosses == [Register |-> {"name"}, Transform |-> {"dst"}]

CallbackPrograms ==
    [Register |-> Register, FullMerge |-> FullMerge,
     PartialMergeMulti |-> PartialMergeMulti, Transform |-> Transform]
=============================================================================

------------------------------ MODULE TxnCalls ------------------------------
(***************************************************************************)
(* The functions of transactiondb.go, transaction.go and                   *)
(* optimistic_transaction_db.go as statements over the C heap.  The life   *)
(* of the transactions and databases they return is not the matter here.   *)
(***************************************************************************)
EXTENDS DbCalls

-----------------------------------------------------------------------------
(* TransactionDB.                                                          *)
OpenTransactionDb == OpenDb

OpenTransactionDbColumnFamilies == OpenDbColumnFamilies

TxnDbNewSnapshot == NewSnapshot

TxnDbGetProperty == GetProperty

TxnDbGet == <<Find({"value"}), FromCError, OnOk(Give({"value"}))>>

TxnDbMultiGet == MultiGet

(* Put, PutCF, Merge, MergeCF, Delete, DeleteCF. *)
TxnDbWrite == StatusCall

TxnDbNewCheckpoint == NewCheckpoint

TxnDbCreateColumnFamily == CreateColumnFamily

TxnDbFlush == StatusCall

TxnDbNewIterator == NewIterator

-----------------------------------------------------------------------------
(* Transaction.                                                            *)

(* SetName passes a reference to a copy Go keeps. *)
SetName == StatusCall

(* toString copies the C string and frees it. *)
GetName == <<Make({"cValue"}), ReadOut({"cValue"}), Free({"cValue"})>>

(* Prepare, Commit, Rollback. *)
Commit == StatusCall

TxnGet == <<Find({"value"}), FromCError, OnOk(Give({"value"}))>>

TxnGetForUpdate == TxnGet

TxnMultiGet == MultiGet

TxnWrite == StatusCall

TxnNewIterator == NewIterator

RollbackToSavePoint == StatusCall

(* Snapshot.Destroy frees the wrapper the C API has allocated. *)
GetSnapshot == <<Make({"snap"}), Give({"snap"})>>

(* The C API allocates a wrapper around the batch of the transaction.      *)
(* WriteBatchWI.Destroy would free the batch with it: nothing can free the *)
(* wrapper alone.                                                          *)
GetWriteBatchWI == <<Make({"wi"}), Lend({"wi"})>>

-----------------------------------------------------------------------------
(* OptimisticTransactionDB.                                                *)
OpenOptimisticTransactionDb == OpenDb

OpenOptimisticTransactionDbColumnFamilies == OpenDbColumnFamilies

OptimisticWrite == StatusCall
-----------------------------------------------------------------------------
(* The functions of this module by name. *)
TxnPrograms ==
    [OpenTransactionDb |-> OpenTransactionDb,
     OpenTransactionDbColumnFamilies |-> OpenTransactionDbColumnFamilies,
     TxnDbNewSnapshot |-> TxnDbNewSnapshot, TxnDbGetProperty |-> TxnDbGetProperty,
     TxnDbGet |-> TxnDbGet, TxnDbMultiGet |-> TxnDbMultiGet,
     TxnDbWrite |-> TxnDbWrite, TxnDbNewCheckpoint |-> TxnDbNewCheckpoint,
     TxnDbCreateColumnFamily |-> TxnDbCreateColumnFamily, TxnDbFlush |-> TxnDbFlush,
     TxnDbNewIterator |-> TxnDbNewIterator, SetName |-> SetName, GetName |-> GetName,
     Commit |-> Commit, TxnGet |-> TxnGet, TxnGetForUpdate |-> TxnGetForUpdate,
     TxnMultiGet |-> TxnMultiGet, TxnWrite |-> TxnWrite,
     TxnNewIterator |-> TxnNewIterator, RollbackToSavePoint |-> RollbackToSavePoint,
     GetSnapshot |-> GetSnapshot, GetWriteBatchWI |-> GetWriteBatchWI,
     OpenOptimisticTransactionDb |-> OpenOptimisticTransactionDb,
     OpenOptimisticTransactionDbColumnFamilies |-> OpenOptimisticTransactionDbColumnFamilies,
     OptimisticWrite |-> OptimisticWrite]
=============================================================================

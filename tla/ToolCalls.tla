------------------------------ MODULE ToolCalls ------------------------------
(***************************************************************************)
(* The functions of backup.go, checkpoint.go, sst_file_writer.go,          *)
(* extend.go, extend_inner.go, cf_handle.go, wal_iterator.go,              *)
(* memory_usage.go, dbpath.go, write_batch_wi.go and those of the option   *)
(* files that take or return C memory, as statements over the C heap.      *)
(***************************************************************************)
EXTENDS DbCalls

-----------------------------------------------------------------------------
(* Backups and checkpoints.                                                *)
OpenBackupEngine == <<Copy({"cpath"}), Ask({"be"}), FromCError, OnOk(Give({"be"})), Free({"cpath"})>>

OpenBackupEngineWithOpt == <<Ask({"be"}), FromCError, OnOk(Give({"be"}))>>

(* For a database: its own options, and its name or another path. *)
CreateBackupEngine == OpenBackupEngine

CreateNewBackup == StatusCall

CreateNewBackupFlush == StatusCall

(* Mutant: the metadata is freed before the backup engine has read it. *)
FreesMetadataFirst == <<Copy({"cmeta"}), Free({"cmeta"}), Ask({}), FromCError>>

CreateNewBackupWithMetadata == <<Copy({"cmeta"}), Ask({}), Free({"cmeta"}), FromCError>>

CreateNewBackupFlushWithMetadata == CreateNewBackupWithMetadata

(* PurgeOldBackups, VerifyBackup. *)
VerifyBackup == StatusCall

(* One metadata string for every backup; the engine's list is destroyed    *)
(* after the loop.                                                         *)
GetInfo ==
    <<Make({"info"}), ReadOut({"info"}), Make({"names"}), ReadOut({"names"}), Free({"names"}),
      Free({"info"})>>

RestoreDBFromBackup ==
    <<Copy({"cDbDir", "cWalDir"}), Ask({}), FromCError, Free({"cDbDir"}), Free({"cWalDir"})>>

CreateCheckpoint == <<Copy({"cDir"}), Ask({}), FromCError, Free({"cDir"})>>

-----------------------------------------------------------------------------
(* SST files.                                                              *)
NewSSTFileWriter == <<Make({"writer"}), Give({"writer"})>>

SSTFileWriterOpen == <<Copy({"cPath"}), Ask({}), FromCError, Free({"cPath"})>>

SSTFileWriterAdd == StatusCall

SSTFileReaderOpen == SSTFileWriterOpen

SSTFileReaderNewIterator == NewIterator

-----------------------------------------------------------------------------
(* Timestamps, column family handles, WAL, memory usage.                   *)
EncodeUint64TS == <<Make({"cTs"}), Give({"cTs"})>>

(* Mutant: the error is assigned to a variable of the if. *)
DecodeShadowed == <<Ask({}), Shadowed>>

DecodeUint64TS == <<Ask({}), FromCError>>

(* The inner err shadows the result err, which stays nil. *)
GetTimestampUint64 == <<Ask({}), Shadowed>>

Name == <<Make({"cValue"}), ReadOut({"cValue"}), Free({"cValue"})>>

WalIteratorErr == StatusCall

GetBatch == <<Make({"batch"}), Give({"batch"})>>

GetApproximateMemoryUsageByType ==
    <<Make({"consumers"}), Ask({"usage"}), FromCError, OnOk(ReadOut({"usage"})),
      Free({"usage"}), Free({"consumers"})>>

-----------------------------------------------------------------------------
(* Options, paths, indexed write batches.                                  *)

(* SetDbLogDir, SetWalDir. *)
SetDbLogDir == <<Copy({"cvalue"}), Make({}), Free({"cvalue"})>>

(* The LatestOptions it returns are destroyed as a whole; Free of cPath is *)
(* the one deferred statement of the code base.                            *)
LoadLatestOptions ==
    <<Copy({"cPath"}), Ask({"opts", "cfNames", "cfOpts"}), FromCError,
      OnOk(ReadOut({"cfNames"})), OnOk(Give({"opts", "cfNames", "cfOpts"})), Free({"cPath"})>>

NewDBPath == <<Copy({"cpath"}), Make({"dbpath"}), Give({"dbpath"}), Free({"cpath"})>>

NewBackupableDBOptions == <<Copy({"cDir"}), Make({"op"}), Free({"cDir"}), Give({"op"})>>

CreateJemallocNodumpAllocator == <<Ask({"c"}), FromCError, OnErr(Return), Give({"c"})>>

WriteBatchWIGet == <<Find({"value"}), FromCError, OnOk(Give({"value"}))>>

WriteBatchWIRollback == StatusCall

-----------------------------------------------------------------------------
(* extend_inner.go: the iterators over keys with their sequence numbers,   *)
(* and the fields of a range tombstone.                                    *)

(* Of a memtable, a column family's memtable, a database.  The ledger follows   *)
(* the wrapper; the iterator in it lies in an arena that ends with the C call.  *)
NewInternalIterator == <<Make({"ite"}), Give({"ite"})>>

(* An iterator of the database over the internal one.  The environment it is *)
(* made with is a wrapper that the C++ function allocates and forgets.       *)
NewWrappedInternalIterator == <<Make({"env", "iter"}), Give({"iter"})>>

(* The wrapper is returned also with an error, around a nil pointer.  The    *)
(* iterator in it is on the heap and has no other holder: Close, made for    *)
(* those of an arena, runs its destructor and frees the wrapper alone.       *)
NewRangeTombstoneIterator == <<Ask({"ite", "rep"}), FromCError, Give({"ite"})>>

InternalIteratorKey == IteratorKey

InternalIteratorErr == StatusCall

MemtableAdd == StatusCall

(* RangeTombstoneIterator.Next: toGoBytes copies a field and frees it. *)
TombstoneFields ==
    <<Make({"startKey"}), ReadOut({"startKey"}), Free({"startKey"}),
      Make({"endKey"}), ReadOut({"endKey"}), Free({"endKey"}),
      Make({"ts"}), ReadOut({"ts"}), Free({"ts"})>>
-----------------------------------------------------------------------------
(* The functions of this module by name. *)
ToolPrograms ==
    [CreateBackupEngine |-> CreateBackupEngine,
     CreateNewBackupFlush |-> CreateNewBackupFlush, WalIteratorErr |-> WalIteratorErr,
     WriteBatchWIRollback |-> WriteBatchWIRollback,
     OpenBackupEngine |-> OpenBackupEngine,
     OpenBackupEngineWithOpt |-> OpenBackupEngineWithOpt,
     CreateNewBackup |-> CreateNewBackup,
     CreateNewBackupWithMetadata |-> CreateNewBackupWithMetadata,
     CreateNewBackupFlushWithMetadata |-> CreateNewBackupFlushWithMetadata,
     VerifyBackup |-> VerifyBackup, GetInfo |-> GetInfo,
     RestoreDBFromBackup |-> RestoreDBFromBackup,
     CreateCheckpoint |-> CreateCheckpoint, NewSSTFileWriter |-> NewSSTFileWriter,
     SSTFileWriterOpen |-> SSTFileWriterOpen, SSTFileWriterAdd |-> SSTFileWriterAdd,
     SSTFileReaderOpen |-> SSTFileReaderOpen,
     SSTFileReaderNewIterator |-> SSTFileReaderNewIterator,
     EncodeUint64TS |-> EncodeUint64TS, DecodeUint64TS |-> DecodeUint64TS,
     GetTimestampUint64 |-> GetTimestampUint64, Name |-> Name, GetBatch |-> GetBatch,
     GetApproximateMemoryUsageByType |-> GetApproximateMemoryUsageByType,
     SetDbLogDir |-> SetDbLogDir, LoadLatestOptions |-> LoadLatestOptions,
     NewDBPath |-> NewDBPath, NewBackupableDBOptions |-> NewBackupableDBOptions,
     CreateJemallocNodumpAllocator |-> CreateJemallocNodumpAllocator,
     WriteBatchWIGet |-> WriteBatchWIGet,
     NewInternalIterator |-> NewInternalIterator,
     NewWrappedInternalIterator |-> NewWrappedInternalIterator,
     NewRangeTombstoneIterator |-> NewRangeTombstoneIterator,
     InternalIteratorKey |-> InternalIteratorKey,
     InternalIteratorErr |-> InternalIteratorErr, MemtableAdd |-> MemtableAdd,
     TombstoneFields |-> TombstoneFields]
=============================================================================

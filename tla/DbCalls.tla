------------------------------- MODULE DbCalls -------------------------------
(***************************************************************************)
(* The functions of db.go, array.go and cf_metadata.go as statements over  *)
(* the C heap.  A definition stands for all the Go functions that have the *)
(* same statements (OpenDb, OpenDbWithTTL and OpenDbForReadOnly, say).     *)
(* What a function only passes through (keys and values by reference,      *)
(* numbers, option objects it borrows) is left out.                        *)
(***************************************************************************)
EXTENDS CallStatements, TLC

-----------------------------------------------------------------------------
(* Opening and administration.                                             *)
(* Mutant: the early return loses the copy of the name. *)
OpenDbForgetsName == <<Copy({"cName"}), Ask({"db"}), FromCError, OnErr(Return),
                       Give({"db"}), Free({"cName"})>>

OpenDb == <<Copy({"cName"}), Ask({"db"}), FromCError, OnOk(Give({"db"})), Free({"cName"})>>

OpenDbAsSecondary ==
    <<Copy({"cName", "cPath"}), Ask({"db"}), FromCError, OnOk(Give({"db"})),
      Free({"cName", "cPath"})>>

OpenDbColumnFamilies ==
    <<Copy({"cName", "names"}), Ask({"db", "handles"}), FromCError,
      OnOk(Give({"db", "handles"})), Free({"cName"}), Free({"names"})>>

OpenDbAsSecondaryColumnFamilies ==
    <<Copy({"cName", "cPath", "names"}), Ask({"db", "handles"}), FromCError,
      OnOk(Give({"db", "handles"})), Free({"cPath"}), Free({"cName"}), Free({"names"})>>

OpenDbAndTrimHistory == OpenDbColumnFamilies

ListColumnFamilies ==
    <<Copy({"cName"}), List({"cNames"}), FromCError, OnOk(ReadOut({"cNames"})),
      Free({"cNames"}), Free({"cName"})>>

CreateColumnFamily ==
    <<Copy({"cName"}), Ask({"handle"}), FromCError, OnOk(Give({"handle"})), Free({"cName"})>>

CreateColumnFamilyWithTTL == CreateColumnFamily

(* The array cHandles itself is not freed, nor, on an error, the handles   *)
(* of the families that were created before it.                            *)
CreateColumnFamilies ==
    <<OnNone(Return), Copy({"names"}), Batch({"cHandles", "handles"}), FromCError,
      OnOk(Give({"handles"})), Free({"names"})>>

(* A function that passes references and returns the C error.              *)
StatusCall == <<Ask({}), FromCError>>

DropColumnFamily == StatusCall

(* DestroyDb, RepairDb. *)
DestroyDb == <<Copy({"cName"}), Ask({}), FromCError, Free({"cName"})>>

DeleteFile == <<Copy({"cName"}), Make({}), Free({"cName"})>>

-----------------------------------------------------------------------------
(* Reads.                                                                  *)
KeyMayExists == <<Tell({"value"}), Give({"value"})>>

Get == <<Find({"value"}), FromCError, OnOk(Give({"value"}))>>

GetWithTS == <<Find({"value", "ts"}), FromCError, OnOk(Give({"value", "ts"}))>>

GetBytes == <<Find({"value"}), FromCError, OnAbsent(Return),
              OnOk(ReadOut({"value"})), OnOk(Free({"value"}))>>

GetBytesWithTS == <<Find({"value", "ts"}), FromCError, OnAbsent(Return),
                    OnOk(ReadOut({"value", "ts"})), OnOk(Free({"value"})), OnOk(Free({"ts"}))>>

GetCF == Get

GetCFWithTS == GetWithTS

GetPinned == <<Find({"pinned"}), FromCError, OnOk(Give({"pinned"}))>>

(* On an error the values that were found are dropped, not freed. *)
MultiGet ==
    <<Copy({"keys"}), FindEach({"vals"}), FromEach,
      OnErr(Free({"keys"})), OnErr(Return),
      Give({"vals"}), Free({"keys"})>>

MultiGetWithTS ==
    <<Copy({"keys"}), FindEach({"vals", "times"}), FromEach,
      OnErr(Free({"keys"})), OnErr(Return),
      Give({"vals"}), Give({"times"}), Free({"keys"})>>

MultiGetCF == MultiGet

MultiGetMultiCFWithTS == MultiGetWithTS

(* The second fromCError gets the pointer the first one has freed. *)
GetFullHistoryTsLow == <<Ask({"ts"}), FromCError, OnOk(Give({"ts"})), FromCError>>

-----------------------------------------------------------------------------
(* Writes: keys and values go by reference.                                *)
Put == StatusCall

Delete == StatusCall

DeleteRange == StatusCall

SingleDelete == StatusCall

SingleDeleteWithTS == StatusCall

Merge == StatusCall

Write == StatusCall

-----------------------------------------------------------------------------
(* Iterators, snapshots, properties.                                       *)
NewIterator == <<Make({"iter"}), Give({"iter"})>>

NewIterators == <<OnNone(Return), Ask({"iters"}), FromCError, OnOk(Give({"iters"}))>>

(* Iterator.Key, Value, Timestamp: Slices that belong to the iterator. *)
IteratorKey == <<Lend({"key"})>>

IteratorErr == StatusCall

GetUpdatesSince == <<Ask({"iter"}), FromCError, OnOk(Give({"iter"}))>>

NewSnapshot == <<Make({"snap"}), Give({"snap"})>>

GetProperty == <<Copy({"cprop"}), Tell({"value"}), ReadOut({"value"}), Free({"value"}), Free({"cprop"})>>

GetPropertyCF == GetProperty

GetIntProperty == <<Copy({"cProp"}), Tell({}), Free({"cProp"})>>

GetApproximateSizes ==
    <<OnNone(Return), Copy({"starts", "limits"}), Ask({}), FromCError,
      Free({"starts", "limits"})>>

(* The copies of the keys and values are not freed. *)
SetOptions == <<OnNone(Return), Copy({"keys", "values"}), Ask({}), FromCError>>

GetLiveFilesMetaData == <<Make({"lf"}), ReadOut({"lf"}), Free({"lf"})>>

(* newColumnFamilyMetadata, levelMetas and sstMetas for a family with one  *)
(* file on each of its levels: the C strings of the names are not freed.   *)
GetColumnFamilyMetadata ==
    <<Make({"c"}), ReadOut({"c"}), Make({"cfName"}), ReadOut({"cfName"}),
      Make({"levels"}), ReadOut({"levels"}),
      Make({"files"}), Make({"fileNames"}), ReadOut({"fileNames"}), ReadOut({"files"}),
      Make({"smallest"}), ReadOut({"smallest"}), Free({"smallest"}),
      Make({"largest"}), ReadOut({"largest"}), Free({"largest"}),
      Free({"files"}), Free({"levels"}), Free({"c"})>>

-----------------------------------------------------------------------------
(* Compaction, flush, files.                                               *)
CompactRange == <<Make({})>>

SuggestCompactRange == StatusCall

Flush == StatusCall

FlushCFs == <<OnNone(Return), Ask({}), FromCError>>

FileDeletions == StatusCall

DeleteFileInRange == StatusCall

IncreaseFullHistoryTsLow == StatusCall

(* Mutant: the early return loses the copies of the paths. *)
IngestForgetsPaths ==
    <<Copy({"paths"}), Ask({}), FromCError, OnErr(Return), Free({"paths"})>>

IngestExternalFile == <<Copy({"paths"}), Ask({}), FromCError, Free({"paths"})>>

NewCheckpoint == <<Ask({"cp"}), FromCError, OnOk(Give({"cp"}))>>

WaitForCompact == StatusCall

TryCatchUpWithPrimary == StatusCall
-----------------------------------------------------------------------------
(* What the functions above are known to lose: the C variables whose       *)
(* memory nobody frees.  The others lose nothing.                          *)
KnownLosses ==
    [MultiGet                |-> {"vals"},              \* when another key fails
     MultiGetCF              |-> {"vals"},
     TxnMultiGet             |-> {"vals"},
     TxnDbMultiGet           |-> {"vals"},
     MultiGetWithTS          |-> {"vals", "times"},
     MultiGetMultiCFWithTS   |-> {"vals", "times"},
     CreateColumnFamilies    |-> {"cHandles", "handles"},
     SetOptions              |-> {"keys", "values"},
     GetColumnFamilyMetadata |-> {"cfName", "fileNames"},
     GetWriteBatchWI         |-> {"wi"},
     NewWrappedInternalIterator |-> {"env"},
     NewRangeTombstoneIterator  |-> {"rep"}]

(* What they may rely on: db.go takes the address of the first element of  *)
(* these lists, which panics when there is none.                           *)
TakesFirst ==
    {"OpenDbColumnFamilies", "OpenDbAsSecondaryColumnFamilies", "OpenDbAndTrimHistory",
     "IngestExternalFile", "OpenTransactionDbColumnFamilies",
     "OpenOptimisticTransactionDbColumnFamilies"}

-----------------------------------------------------------------------------
(* The functions of this module by name. *)
DbPrograms ==
    [IteratorErr |-> IteratorErr, GetPropertyCF |-> GetPropertyCF,
     SingleDeleteWithTS |-> SingleDeleteWithTS,
     TryCatchUpWithPrimary |-> TryCatchUpWithPrimary,
     OpenDb |-> OpenDb, OpenDbAsSecondary |-> OpenDbAsSecondary,
     OpenDbColumnFamilies |-> OpenDbColumnFamilies,
     OpenDbAsSecondaryColumnFamilies |-> OpenDbAsSecondaryColumnFamilies,
     OpenDbAndTrimHistory |-> OpenDbAndTrimHistory,
     ListColumnFamilies |-> ListColumnFamilies,
     CreateColumnFamily |-> CreateColumnFamily,
     CreateColumnFamilyWithTTL |-> CreateColumnFamilyWithTTL,
     CreateColumnFamilies |-> CreateColumnFamilies,
     DropColumnFamily |-> DropColumnFamily, DestroyDb |-> DestroyDb,
     DeleteFile |-> DeleteFile, KeyMayExists |-> KeyMayExists, Get |-> Get,
     GetWithTS |-> GetWithTS, GetBytes |-> GetBytes,
     GetBytesWithTS |-> GetBytesWithTS, GetCF |-> GetCF, GetCFWithTS |-> GetCFWithTS,
     GetPinned |-> GetPinned, MultiGet |-> MultiGet,
     MultiGetWithTS |-> MultiGetWithTS, MultiGetCF |-> MultiGetCF,
     MultiGetMultiCFWithTS |-> MultiGetMultiCFWithTS,
     GetFullHistoryTsLow |-> GetFullHistoryTsLow, Put |-> Put, Delete |-> Delete,
     DeleteRange |-> DeleteRange, SingleDelete |-> SingleDelete, Merge |-> Merge,
     Write |-> Write, NewIterator |-> NewIterator, NewIterators |-> NewIterators,
     IteratorKey |-> IteratorKey, GetUpdatesSince |-> GetUpdatesSince,
     NewSnapshot |-> NewSnapshot, GetProperty |-> GetProperty,
     GetIntProperty |-> GetIntProperty, GetApproximateSizes |-> GetApproximateSizes,
     SetOptions |-> SetOptions, GetLiveFilesMetaData |-> GetLiveFilesMetaData,
     GetColumnFamilyMetadata |-> GetColumnFamilyMetadata,
     CompactRange |-> CompactRange, SuggestCompactRange |-> SuggestCompactRange,
     Flush |-> Flush, FlushCFs |-> FlushCFs, FileDeletions |-> FileDeletions,
     DeleteFileInRange |-> DeleteFileInRange,
     IncreaseFullHistoryTsLow |-> IncreaseFullHistoryTsLow,
     IngestExternalFile |-> IngestExternalFile, NewCheckpoint |-> NewCheckpoint,
     WaitForCompact |-> WaitForCompact]
=============================================================================

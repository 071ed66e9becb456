# grocksdb in TLA+

grocksdb is a Go binding of RocksDB. The database itself is C++ behind
`rocksdb/c.h`; the code of this repository moves arguments, results, errors and
callbacks across that border. There is little data structure in it and much
protocol: who owns a piece of C memory, on which path it is freed, what a
callback that runs on one of RocksDB's threads can see, what a reader makes of a
serialised batch. The modules here state that protocol, TLC checks it on small
instances, and TLAPS proves their safety properties for all values of the constants. RocksDB is
modelled only from how the Go code uses it ("external" in `PROJECT.json`).

## The system

| part | files | state | operations and who calls them |
|---|---|---|---|
| callback registries | `cow.go` | a copy-on-write list behind an atomic pointer and a mutex | `Append` at registration, by any goroutine; `Get` in every callback, on RocksDB's threads |
| callbacks | `comparator.go`, `compaction_filter.go`, `merge_operator.go`, `slice_transform.go`, `grocksdb.c` | the four registries | C function tables call the exported Go functions with an index into a registry |
| options | `options*.go`, `env.go`, `cache.go`, `ratelimiter.go`, ... | one native object each; `Options` also holds five pointers it frees | setters that move, share, adopt or copy an object; `Clone`, `GetOptionsFromString`, `Destroy`; `OpenDb` reads the native options |
| database | `db.go`, `cf_handle.go`, `cf_metadata.go`, `snapshot.go` | the native handle, name and options | about 150 calls, each: copy arguments to C, call, convert the error, wrap results, free the copies |
| iterators and slices | `iterator.go`, `slice.go`, `array.go`, `util.go` | a native iterator; a `Slice` that owns or borrows C memory | `Key`/`Value` lend, `Get` gives, `Free` frees once |
| read options | `options_read.go`, the timestamp setters of `extend.go` | native options with pointers into Go arrays, and the fields that keep those arrays | setters; made into iterators; `Destroy` |
| write batches | `write_batch.go`, `write_batch_wi.go` | the native batch, its save points; the iterator's rest of the bytes, record and error | queue, roll back, clear; decode with `Next`, `Record`, `Error` |
| transactions | `transaction.go`, `transactiondb.go`, `optimistic_transaction_db.go` | native transactions and databases | reads for update, save points, commit, rollback, rebuild from a batch |
| tools | `backup.go`, `checkpoint.go`, `sst_file_writer.go`, `wal_iterator.go`, `memory_usage.go`, `extend.go`, `dbpath.go`, `jemalloc.go` | native handles | as for the database |
| internals | `extend_inner.go`, `extend_inner.cc`, `extend.cc` | memtables, internal iterators, a list of range tombstones with a cursor under a mutex, time stamps | direct access to RocksDB's C++ classes |
| counters and tables | `perf_context.go`, `perf_level.go`, `stats.go`, `filter_policy.go`, `cuckoo_table.go`, ... | none of their own | forward to C |

What is hard here: callbacks interleave with registrations; objects are handed
from one Go wrapper to another by setters, and copied by `Clone`, while a
database goes on using them; RocksDB keeps pointers into Go memory, which the
collector frees when only Go fields kept it; goroutines share a cursor over a list that
was read while files came and went; there is no `defer` in most functions ("loose
convention of how/when to free c-mem", says the repository's own README), so
each error path frees by hand; a multi-element C call fails for some elements;
a batch read from elsewhere may end in the middle of a record; merge operands are
combined in any grouping. `PROJECT.json` lists these at their lines, with the
properties that cover them or the reason why none does yet.

## Modules

```
AppendLog <---refined by--- CowList <- MCCowList, CowListProofs
WriteBatchCodec <- WriteBatch <- MCWriteBatch, WriteBatchProofs
OptionsOwnership <- MCOptionsOwnership, OptionsOwnershipProofs
CallStatements <- NativeCall <- CallReview <- CallReviewProofs
CallStatements <- DbCalls, TxnCalls, ToolCalls, CallbackCalls;  these and CallReview <- MCCalls
KeyHistory <---refined by--- MergeStack <- MCMergeStack, MergeStackProofs
ReadOptions <- Iterators <- MCIterators, IteratorsProofs
TombstoneFeed <---refined by--- TombstoneIterator
TombstoneList, TombstoneIterator <- RangeTombstones <- MCRangeTombstones, RangeTombstonesProofs
DataInduction <- WriteBatchProofs, MergeStackProofs, RangeTombstonesProofs, CallReviewProofs
```

**AppendLog, CowList** (`cow.go`). `AppendLog` is what a registry promises: an
append-only log with atomic `Add`, `Answer` and lookups. `CowList` takes `Append` one
statement at a time (`Lock`, `Load`, `Make`, `Copy`, `Fill`, `Store`, `Unlock`,
`Return`) for any number of concurrent calls, and `Get` as its load and its index
expression, so that writers can publish between the two. `arrays` is the Go heap: a
slice is a position in it, `v` is the atomic value. Reader threads ask for
indices that some `Append` has returned, because a native object is created with
one. In the refinement a log entry appears at `Store`.

**WriteBatchCodec, WriteBatch** (`write_batch.go`). The codec has the iterator's
decoding (`Uvarint`, `decodeVarint`, `decodeSlice`, `Advance` for the switch of
`Next`) over sequences of digits, and RocksDB's encoding as the external other
side. Digits are scaled: base 16 and three digits to a varint in place of 128 and ten, keeping
the overflow of the last digit and the conversion of a 64-bit length to `int`.
`WriteBatch` has the batch with save points and an iterator over its bytes,
over every prefix of them, and over damaged copies of short batches. A record's
time stamp, count and sequence number are not represented.

**OptionsOwnership** (`options.go` and the wrappers). Who will free each native
object: an `Options` slot, a wrapper, or nobody. A setter *moves* (comparator,
environment: the wrapper's pointer becomes nil), *shares* (native filter, merge
operator, prefix extractor: the wrapper keeps its pointer), *adopts* (the object was made
for the call), or *copies* (the argument is destroyed). `ref` is what the native
options point to and `db` what an open database points to. The native side frees nothing of that, with two
exceptions (`Shared`): the C setters of merge operator and prefix extractor wrap their pointer in a
`shared_ptr`, which the native options and the database copy, and the object is deleted when the last of these shares
goes (`LastShares`), whether Go still holds it or not. `NextCommented` is a client that
does what the comments say: it hands a wrapper over once and leaves the Options of an open
database alone. `Next` does two things less. It copies Options only while they
own nothing, and it leaves a merge operator or prefix extractor where it was set (`KeepsShared`):
it neither sets another nor destroys those Options. No comment asks for either, and `options_shared` shows
what happens without.

**CallStatements, NativeCall, DbCalls, TxnCalls, ToolCalls, CallbackCalls**. Every function that
moves memory or errors is a short program in the alphabet of `CallStatements`:
`Copy` arguments to C; call it (`Ask`, `Find`, `FindEach`, `List`, `Batch`, `Tell`,
`Make`, by what it may answer); `FromCError`, `FromEach`, `Shadowed`; `ReadOut`, `Free`;
`Give` (the caller must free), `Lend` (it must not), `Return`; each possibly under
`OnOk`, `OnErr`, `OnAbsent`, `OnNone` or `OnSome`. The order of statements is the order of the
Go lines. `NativeCall` runs one program at a time and keeps the ledger of the C
heap; between calls the client frees what it was given, or tries it twice. One program stands for all
functions that have the same statements, and `map` names them all. Functions that only forward numbers are not programs.
In `CallbackCalls` the roles are swapped: the caller is RocksDB, and what the Go
function answers is freed by the destructor in its function table, if it has one.
The ledger follows what malloc and the wrappers hold. It does not follow the inside of a native object,
such as the arena of an internal iterator, which is local to the C function that
makes it (`extend_inner.cc:215`), nor the bytes of a string, such as the backup metadata that is copied without its NUL
and read up to one (`extend.cc:70`, `backup.go:139`): those are hazards without a property.

**CallReview** reads the same programs without running them: line by line, with a note of
what may have become of each C variable (set, allocated, from the C API, how returned) and of
which conditions hold. One note stands for every element of a list, so the review does not know how
long lists are. It demands at each line what a careful reader would: nothing freed or handed over
that may be gone, the error taken from its variable, and at each return nothing allocated that the caller
does not get. It forgets how elements are related and may reject a function that is right; none of the
binding's is rejected but those with findings.

**KeyHistory, MergeStack** (`merge_operator.go`). One key: writes, snapshots, reads and
RocksDB's compactions, which merge operands with each other, onto a value or onto
nothing, but never across a snapshot. The two exported Go functions are the
operators through which all merging goes; the registered operator's optional methods (`methods`) decide
the arm of the type switch, and it may refuse at any operand. A value is the
sequence of the writes it was made from, the strictest client there is: any
loss, repetition or change of order shows. `FullMerge` always succeeds here; the
Go code passes a failure on unchanged. `KeyHistory` is what a client of one key is promised: a write
changes what is read there and then, a snapshot reads for ever what it read when it was taken, and
nothing else changes what anyone reads. In the refinement (`ImplementsKey`) what is visible is what the
stack reads as, so that every compaction, whatever it merges, must be a step in which no reader sees a change.

**ReadOptions, Iterators** (`options_read.go`, the setters in `extend.go`, `iterator.go`,
`NewIteratorWithBase` of `write_batch_wi.go`). A bound or a timestamp of native read options has two levels: a Slice
in `rocksdb_readoptions_t` over a Go array (`slice`), and the pointer to that Slice in the `rocksdb::ReadOptions` inside (`told`),
which is null while the slot is not set. The Go object keeps the same array in a field (`slot`). A setter
is two steps, the field and then the C call (`SetSlice` or `SetUint64`, then
`SetNative`, which changes both levels), and `Collect` is the garbage collector, which may run between any
two steps and whose free arrays become other keys (`MakeKey`). `Iterators` adds the native iterators:
each copies the `rocksdb::ReadOptions` when it is made (`copied` has the slots whose pointer it copied, `bounded` those the client
had set then), and reads the Slices those pointers lead to each time it moves. So a bound that is changed
later is seen, one that is cleared becomes an empty Slice, and one that was not set when the iterator was made never
reaches it, which is what `IteratorsReadAsked` says; `NewIteratorWithBase`
hands a native iterator to the one on top of it; `Close` frees what it owns. One
level of bases is modelled, which is what an indexed batch has.

**TombstoneFeed, TombstoneList, TombstoneIterator, RangeTombstones** (`extend_inner.go`,
`extend_inner.cc`). `TombstoneList` is the C++ function one file at a time: take a
reference to the current super version, read its files, let it go, while RocksDB
installs versions (`Install`) and deletes files that no version in use has
(`Purge`). A file may fail to read (`FailFile`): the early return skips the cleanup and
the version stays referenced. `PinsAccounted` says that this is the one way to leave a version
referenced: whoever holds a reference is reading, or has failed. `TombstoneIterator` is `Next`, statement by statement, for
any number of goroutines: the cursor is read and moved under the mutex, the list is read
outside it. It implements `TombstoneFeed`, one list handed out front to back, with
`Check` the moment at which an element is taken. `RangeTombstones` composes them. After a
failed listing the Go method asks the null list for its size before it looks at the
error (`SizeOfNull`): the process dies, `crashed`.

What these two families take from the client is what the code does not check. It keeps the Go `ReadOptions`
while iterators made with it are open; after `Destroy` it only closes them; it runs no setter
next to a move of an iterator, nor two setters at once; it does not overwrite a key that is set; it
does not use a base iterator after handing it over; it closes a tombstone iterator
once, when no `Next` runs. Setters after the iterator was made are allowed, with the effect described above.

## Runs

| run | instance | question |
|---|---|---|
| `cow` | 3 calls of `Append`, 2 readers | do callbacks always find their entry, without locks, and is the list a log? |
| `write_batch` | 19 operations of every record type, up to 2 of them, 1 save point, every cut, damage of two bytes | is what the iterator delivers what was queued, and does `Error` tell? |
| `write_batch_panic` | the same | finding: a length above the largest `int` makes `Next` panic |
| `options` | the client of `Next`, 2 Options, 4 objects (interchangeable, as are the Options) | is each object freed exactly once, by one holder, and not while it is in use? |
| `options_shared` | the client of `NextCommented`, 3 objects | finding: objects are freed twice |
| `calls` | about 120 programs, lists of 0 to 2 elements, every outcome | does every path free, report and return what it should, and does every function pass the review? |
| `calls_freed_twice` | `GetFullHistoryTsLow` | finding: the error is freed twice |
| `calls_lost` | `MultiGet` | finding: values are lost when another key fails |
| `merge` | operators with each set of methods, 4 writes, 2 snapshots | do reads agree with the writes applied one by one, and is the stack a key with an atomic history? |
| `range_tombstones` | 3 versions of 4 files, 2 calls, 2 goroutines | is a list one version's, are files kept while read and deleted afterwards, who keeps a version referenced, is each tombstone handed out once? |
| `iterators` | 1 ReadOptions with 2 slots, 2 arrays, 2 keys, 3 iterators | are iterators bounded where they were when made, and do they find there the keys that were set last, under garbage collection; has each native iterator one owner; do keys go? |
| `merge_without_destroy` | an operator with `PartialMergeMulti` only | finding: it is never asked |

Why the bounds are enough. *cow*: an append interferes with at most the one that
overtook it and the one that follows; two readers are independent. The proofs
lift the bound. *write_batch*: a decoding error shifts the record that follows,
so that two records show it; keys are long enough for lengths of one and of two
digits, and family identifiers cross the base; proved for all bases from 10, lengths of varints and operations. *options*: an object meets at most
two Options, another object that replaces it, and one that shares its slot's name
elsewhere; proved for all sets. *calls*: functions share nothing, elements of a list are
treated alike, and two of them allow one to fail and the other not; proved for lists of any length,
from the review.  *merge*: three
operands on a base are the least for which grouping, order, a refusal half way and a
snapshot in between differ; proved for any number. *range_tombstones*: the first version has two files, one of them without tombstones, the second replaces both and the
third adds a file in front of the one it keeps, so that a call that mixes versions, lets one
go early or counts files across two of them is seen; two goroutines race for the last element. *iterators*: two arrays suffice for one to be collected and
to become another key while a slot points to it, two slots for a setter to touch
the wrong field; of three iterators one can be the base of another and the third read the
same options. ReadOptions share nothing but arrays; any number is covered by the proof. Only
`range_tombstones` runs without the check for deadlocks: its process may crash, and its
behaviours end when the iterator is closed.

What the passing runs exempt, by name. `calls` runs without
`GetFullHistoryTsLow` (its own finding). `KnownLosses` (DbCalls) lists the functions and
variables whose memory is lost on some path: the multi-gets, `CreateColumnFamilies`
(its array, and the handles made before a failure), `SetOptions` and `SetOptionsCF`
(their copies on an error), `GetColumnFamilyMetadata` (strings read out and never
freed), `GetWriteBatchWI` of a transaction (the wrapper C allocates), `NewWrappedInternalIterator` (the environment
wrapper its C++ allocates, `extend_inner.cc:227`), and the range tombstone iterators of memtables (`Close` runs the destructor of the
native iterator and frees the wrapper only, `extend_inner.cc:142`). `CallbackLosses`
does so for callbacks: the name of a registered callback, which stays in the registry
for good, and each result of a slice transform. `Wraps` is `NewRangeTombstoneIterator`, which
returns a wrapper around nothing along with its error. `Swallows` is `GetTimestampUint64`, whose inner `err` hides the outer one: it returns a
zero time stamp and no error. `TakesFirst` lists functions that panic when given an
empty list, which callers must not do. Arguments that the Go side itself refuses before any
allocation (names and options of different lengths, a nil environment) are not given either.
`options` has the client of `Next`: it never copies Options that own objects, and it keeps merge operators and prefix extractors as
`KeepsShared` says. A hazard that a run exempts by name names no property in `PROJECT.json`.

Fairness. In `cow`, `ReadsDoNotBlock` assumes that a thread inside
`Get` is scheduled and nothing about the writers: one may stop for ever while it holds the
mutex. `AppendsReturn` also assumes weak fairness of each call; each locks once,
and `sync.Mutex` hands over to a waiter after a millisecond, which is more than
this asks. In `iterators`, `KeysGo` assumes that the collector gets round to every
array. In `range_tombstones`, a call goes on to its end, RocksDB purges what it can, and a goroutine
inside `Next` runs on; `Lock` is strongly fair, for the reason given. Nothing makes the
client call anything, and nothing makes RocksDB install a version. No other module has liveness.

## Proofs

`CowListProofs` proves, for every set of calls and readers: `TypeOK`, `OwnIndex`,
`GetSeesEntry`, `SharedFrozen` and the refinement of `AppendLog`. The properties are not
inductive: that the published array has every returned entry depends on what an
appender in the middle has in its private array. The invariant `IInv` adds
mutual exclusion between `Lock` and `Unlock`; that between `Load` and `Store` the holder's
`list` is still the published one; that its `newList` is a fresh array which nobody
else can reach, one longer than `list` and, from `Copy` on, an extension of it; that
what a reader has loaded is a prefix of what is published. One lemma for each
action shows that it preserves `IInv`; the refinement has one lemma for
each visible step and one for the steps that stutter. `GetReturns` and `HolderReturns` are about progress; see below.

`OptionsOwnershipProofs` proves for every set of Options and objects, of `Spec`
(the client of `Next`; of `SpecCommented` they are false): `TypeOK`, `FreedOnce`, `SoleOwner`, `NoLeak`,
`NativeSeesLive`, `CallbacksAlive`. The invariant joins them with two facts they
depend on: what the native options point to is what the slots own, and an open
database's pointers are those of its Options, which the client leaves alone
meanwhile; besides, a moved comparator or environment leaves a nil wrapper. `SoleOwner` says of the Go side that each
object has one holder, and of the native side that it is a second owner of the merge operators and prefix extractors that are set, and of nothing
else (`SharesOfSlots`). From this and `KeepsShared` no step of that client takes the last share of an object (`NothingDropped`): that is
the fact the code depends on and the comments leave out.

`RangeTombstonesProofs` begins with the iterator alone, for any goroutines and any list: `IteratorDeliversOnce` and
`IteratorImplementsFeed`. `DeliveredOnce` says nothing of a goroutine that has read the
cursor and not yet moved it; the invariant adds that only the holder of the mutex is
between `Lock` and `Unlock`, that its local copy equals the cursor after `Load`, that the list and the size stay those of the
iterator until `Close`, and that what was read is the element the copy names.
It then shows that the composition runs both parts as they run alone
(`RunsBothParts`), lifts both theorems to it, and proves `TypeCorrect`, `FilesPinnedAlways` and
`ListIsOneVersionAlways` for every history
of versions (and `PinsAccountedAlways`, with the fact that a call that has not begun holds no version): a version a call is reading is pinned by it, the files of every
version in use are on disk, and while a call reads, its list is the tombstones of the first `visited`
files of its version, whatever is installed meanwhile.

`IteratorsProofs` proves for any numbers of ReadOptions, arrays and iterators: `TypeCorrect`,
`IteratorsReadAskedAlways` and `OneOwnerAlways`. The argument: what the Slices of live native options are over is
in the field of the same slot, or a setter of it is pending; what a field keeps is
neither collected nor overwritten; an array that C is going to write a timestamp into is in no other
field and no variable of the client; and options with open iterators are
known to the client, so that their fields keep anything at all; and, outside setters, the pointers that are not null are those of
the slots the client has set (`CopiedAsSet`), so that an iterator copies no other. The ownership part is an
invariant of its own, of who was given away and who was made on it.

`DataInduction` has what the next three need. The library's induction theorems take an
operator as a parameter, which the provers cannot instantiate; a property of numbers can be given
as a set of them instead. `NatLessThanWellFounded` and `WFMin` give the least member of a set of
naturals, from which `SetInduction` follows, and from it that a function defined by recursion on a number
exists and obeys its equation. On that rest the lemmas about `FlattenSeq` (`FlattenAppend`,
`FlattenOne`, ...), by which operands, the bytes of a batch and lists of files are put together.

`MergeStackProofs` proves `ReadsAgreeAlways` for every set of operators, number of writes
and snapshots, and choice of compactions. `ReadsAgree` is not inductive: that a read comes out right says
nothing of the operands a later compaction will join. The invariant (`InvariantAlways`, which also has the types) says
that every entry of the stack stands for the writes after the entry below it up to its own number: a value or
deletion is what all writes up to there make, operands are what takes the value of the entry below to this one; that
entries are in the order of the writes; and that every snapshot, and the present, ends with an
entry. Merging neighbours keeps this because appending operands is associative; this is where
the order in the Go fold, its refusals and the empty base matter. `KeyIsImplemented` is the refinement of
`KeyHistory`: from the invariant each read is the writes up to its snapshot, so that a write shows to the
present only, taking a snapshot freezes the present, and a compaction changes nothing. `OffersReachOperatorAlways` has the hypothesis that an
operator with `PartialMergeMulti` also has `Destroy`: without it the property is the finding of `merge_without_destroy`.

`WriteBatchProofs` proves `TypeOKAlways`, `DeliversBatchAlways`, `ErrorTellsCutAlways` and
`ConsumesFrontAlways`, for every base of at least 10 and so for the real 128, any number of digits and so for ten, any operations
whose lengths fit an `int`, any sequence of writes and save points, every cut and every damage.
First the varints: decoding what was encoded gives the number and leaves the rest; a varint cut
short reads as no bytes and sets the error. Then fields, then records: `Advance` over a whole
operation gives it back (`Expected`); over a cut one it sets the error. The two cases are all there
are, since a front of `a \o b` ends inside `a` or after it (`BytesEnd`). The invariant says of an
iterator over a front of the batch's bytes that the bytes end within the header, or the rest begins
where the bytes of the delivered records end (`BetweenRecords`), or the error is set and no number of
whole records makes up the bytes (`InRecord`). `NeverPanics` is false of damaged bytes, as
`write_batch_panic` shows; of whole and cut batches it holds (`UndamagedNeverPanics`). Two
consequences are stated for themselves. `RoundTripAlways`: a batch read whole comes back whole, since a shorter
run of records has fewer bytes. `DeliveriesBounded`: over any bytes, what is delivered and what is left never exceed
the bytes given, so that a loop over `Next` ends.

`CallReviewProofs` proves `OnlyLiveMemoryAlways`, `NothingLostAlways`, `ErrorReportedAlways`
and `ResultsMatchAlways` for lists of any length and any programs, under the hypothesis that each
program passes the review. That is a statement about finite data, which TLC evaluates: `Reviewed`, in
the run `calls`, for every program. The invariant: at each line one of the review's views matches the state, that is,
every pointer of the function has, by the ledger, one of the notes the view allows for its tag, and the
conditions are those the view has. Each kind of statement takes a matching view to a matching one,
whichever answer the C API chooses; the demands at a line, made of all views, so hold of the state. After the return
only the client's `Release` remains, and `Settled` says that what it frees is allocated.

The assumptions are those the modules name (`CowAssumption`, `OwnershipAssumption`,
`IteratorAssumption`, `ListAssumption`, `StoredAssumption`, `ReadOptionsAssumption`, `ItersAssumption`,
`OperatorsAssumption`, `AnswerAssumption`, `CodecAssumption`, `OpsAssumption`,
`ProgramsAssumption` and the `BoundAssumption`s): nil and
the other special values are not objects or values, and constants have their shapes. `CodecAssumption` wants a base of at least 10
because every type, at most 18, is one byte, and bytes are below twice the base.

Progress is proved for one thread at a time. The provers know neither ENABLED nor the instances of
a fairness condition under a quantifier, so that each of these theorems assumes the fairness of one thread's step and, as a hypothesis,
that the step can be taken wherever the thread's program counter (for `KeyGoes`, the garbage test) says
so, which is what the guards of its actions say; the argument from there, that nobody else moves the thread, undoes its
progress or takes its mutex, is proved for any number of others. `CowListProofs`: `GetReturns`, a reader inside `Get` returns with no
fairness of any writer, and `HolderReturns`, an appender that holds the mutex gives it back and returns.
`RangeTombstonesProofs`: `HolderReturns`, the same of a goroutine in the iterator's `Next`, and `WaiterReturns`, of one that waits for the
mutex, if it is handed over fairly (SF) and is free again and again. `IteratorsProofs`: `KeyGoes`, a
key that the client has dropped stays dropped, whatever setters run, until the collector takes it.
These are not the runs' liveness properties, which quantify over all threads under one specification.

All invariants, action properties and refinements that the passing runs check are proved, but for `Reviewed`.
Only model-checked are: `Reviewed`, which is about the particular programs; the liveness properties
in full (`ReadsDoNotBlock`, `AppendsReturn`, `NextReturns`, `ObsoleteFilesGo`, `KeysGo`), for the reasons given;
and of course the findings, which are counterexamples.

## Findings

Five, each the counterexample of a run: the panic of the batch iterator on a
length beyond `int`; merge operators and prefix extractors, which Go frees and the native options that share them delete too, at
`Options.Destroy` or when a second one is set (the same run's client can also free objects twice through `Clone`, which copies the
pointers that both Options free; TLC stops at the shorter trace); the error freed twice by
`GetFullHistoryTsLow`; the values lost by a multi-get; `MultiMerger`, which its comment says
is one method and which demands two, so that the operator of `merge_operator_test.go` is
never asked and the test passes for another reason.

## Not modelled

Setters and getters that forward one number to C, constants, counters and
statistics: there is no state on this side. RocksDB's storage, recovery and
compaction choice: not in this repository.

Relations the code does not keep: a database and the iterators, snapshots, transactions and handles made from it;
`Close` and the calls of other goroutines; a base database and the wrapper around it;
`LatestOptions` and the wrappers that share its pointers; two wrappers around the transaction
that was begun again. Each is a duty of the client that no line here guards or
records, so that a model of it would have a property only by stating the duty. They are
hazards with that note.

The compaction filter's new value, a pointer into Go memory that RocksDB reads after the
callback has returned, and the arenas of the internal iterators, which end before the
iterators in them: undefined behaviour whose outcome depends on the Go
collector and the C++ compiler, and which nothing in this repository orders. A key longer
than a C `int` can count, which a comparator receives cut: one conversion, with no state.
All three are listed as hazards.

What could follow: the timestamped writers of a batch; two ReadOptions in one TLC instance of `iterators`, should
it become small enough; bases on bases in `Iterators`.

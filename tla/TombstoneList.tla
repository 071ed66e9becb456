---------------------------- MODULE TombstoneList ----------------------------
(***************************************************************************)
(* rocksdb_column_family_handle_range_tombstone_list of extend_inner.cc:   *)
(* a call takes a reference to the current super version, reads the range  *)
(* tombstones of its files one file after the other, and lets the version  *)
(* go.  Meanwhile flushes and compactions install other versions, and      *)
(* RocksDB deletes the files that no version in use has.                   *)
(***************************************************************************)
EXTENDS Integers, Sequences, SequencesExt

CONSTANTS
  Calls,         \* the calls; each makes one list
  Files,         \* the table files
  TombstonesOf,  \* [file |-> its range tombstones, in order]
  History        \* the versions in the order they are installed, each the
                 \* sequence of its files, level by level

Stored == UNION {Range(TombstonesOf[f]) : f \in Files}

ASSUME ListAssumption ==
  /\ History \in Seq(Seq(Files)) /\ History # <<>>
  /\ TombstonesOf \in [Files -> Seq(Stored)]

VARIABLES
  current,     \* the version installed last
  pins,        \* pins[v]: the calls that hold a reference to version v
  disk,        \* the files that have not been deleted
  at,          \* at[a]: "new", "listing", "listed" or "failed"
  version,     \* version[a]: the version call a has taken, 0 before that
  visited,     \* visited[a]: the number of files read
  tombstones   \* tombstones[a]: the vector of the call, and then its list

lvars == <<current, pins, disk, at, version, visited, tombstones>>

FilesOf(v) == Range(History[v])

InUse == {current} \cup {v \in 1..Len(History) : pins[v] # {}}

ListTypeOK ==
  /\ current \in 1..Len(History)
  /\ pins \in [1..Len(History) -> SUBSET Calls]
  /\ disk \subseteq Files
  /\ at \in [Calls -> {"new", "listing", "listed", "failed"}]
  /\ version \in [Calls -> 0..Len(History)]
  /\ visited \in [Calls -> Nat]
  /\ tombstones \in [Calls -> Seq(Stored)]

ListInit ==
  /\ current = 1
  /\ pins = [v \in 1..Len(History) |-> {}]
  /\ disk = FilesOf(1)
  /\ at = [a \in Calls |-> "new"]
  /\ version = [a \in Calls |-> 0]
  /\ visited = [a \in Calls |-> 0]
  /\ tombstones = [a \in Calls |-> <<>>]

-----------------------------------------------------------------------------
\* RocksDB.

\* A flush or a compaction installs the next version; its files are new or
\* those of the current one.
Install ==
  /\ current < Len(History)
  /\ current' = current + 1
  /\ disk' = disk \cup FilesOf(current + 1)
  /\ UNCHANGED <<pins, at, version, visited, tombstones>>

Obsolete(f) == \A v \in InUse : f \notin FilesOf(v)

Purge(f) ==
  /\ f \in disk
  /\ Obsolete(f)
  /\ disk' = disk \ {f}
  /\ UNCHANGED <<current, pins, at, version, visited, tombstones>>

-----------------------------------------------------------------------------
\* A call.

\* cfd->GetReferencedSuperVersion(dbi), and cfd->GetSuperVersion().
GetSuperVersion(a) == pins
GetReferencedSuperVersion(a) == [pins EXCEPT ![current] = @ \cup {a}]

Start(a) ==
  /\ at[a] = "new"
  /\ at' = [at EXCEPT ![a] = "listing"]
  /\ version' = [version EXCEPT ![a] = current]
  /\ pins' = GetReferencedSuperVersion(a)
  /\ UNCHANGED <<current, disk, visited, tombstones>>

\* version->storage_info()->LevelFiles(level), over all levels.  The mutant
\* asks the column family for its current version each time.
CurrentFiles(a) == History[current]
LevelFiles(a) == History[version[a]]

Unread(a) == at[a] = "listing" /\ visited[a] < Len(LevelFiles(a))

ReadFile(a) ==
  /\ Unread(a)
  /\ LET f == LevelFiles(a)[visited[a] + 1]
     IN  /\ f \in disk
         /\ tombstones' = [tombstones EXCEPT ![a] = @ \o TombstonesOf[f]]
  /\ visited' = [visited EXCEPT ![a] = @ + 1]
  /\ UNCHANGED <<current, pins, disk, at, version>>

\* The file cannot be read.  The early return skips CleanupSuperVersion: the
\* version stays referenced.
FailFile(a) ==
  /\ Unread(a)
  /\ at' = [at EXCEPT ![a] = "failed"]
  /\ UNCHANGED <<current, pins, disk, version, visited, tombstones>>

\* dbi->CleanupSuperVersion(super_version), and a version let go by nobody.
KeepSuperVersion(a) == pins
CleanupSuperVersion(a) == [pins EXCEPT ![version[a]] = @ \ {a}]

Finish(a) ==
  /\ at[a] = "listing"
  /\ visited[a] >= Len(LevelFiles(a))
  /\ at' = [at EXCEPT ![a] = "listed"]
  /\ pins' = CleanupSuperVersion(a)
  /\ UNCHANGED <<current, disk, version, visited, tombstones>>

CallStep(a) == Start(a) \/ ReadFile(a) \/ FailFile(a) \/ Finish(a)

RocksDBStep == Install \/ \E f \in Files : Purge(f)

ListNext == (\E a \in Calls : CallStep(a)) \/ RocksDBStep

ListSpec == ListInit /\ [][ListNext]_lvars

-----------------------------------------------------------------------------
\* While a call reads a version, none of the version's files is deleted,
\* whatever has been installed meanwhile.
FilesPinned ==
  \A a \in Calls : at[a] = "listing" => Range(LevelFiles(a)) \subseteq disk

\* The references to a version are those of the calls that read it and of the
\* calls that failed at it: FailFile is the one way to leave a version, and so
\* its files, referenced for ever, however the calls and the installations of
\* versions follow each other.
PinsAccounted ==
  \A v \in 1..Len(History) :
    pins[v] = {a \in Calls : version[a] = v /\ at[a] \in {"listing", "failed"}}

\* A list has the tombstones of all files of one version, which was current
\* when the call began, and of no other, in the order of the files: never some
\* of a version and some of the next.
ListIsOneVersion ==
  \A a \in Calls : at[a] = "listed" =>
    tombstones[a] = FlattenSeq([i \in 1..Len(History[version[a]]) |->
                                  TombstonesOf[History[version[a]][i]]])
=============================================================================

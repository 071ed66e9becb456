CONSTANTS
  Nil = Nil
  Asked = Asked
  End = End
  Calls = {a1, a2}
  Readers = {r1, r2}
  Files <- MCFiles
  Tombstones <- MCTombstones
  TombstonesOf <- MCTombstonesOf
  History <- MCHistory
SPECIFICATION FairSpec
INVARIANTS TypeOK DeliveredOnce FilesPinned PinsAccounted ListIsOneVersion
PROPERTIES ImplementsFeed NextReturns ObsoleteFilesGo
\* The process may crash.
CHECK_DEADLOCK FALSE

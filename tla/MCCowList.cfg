CONSTANTS
  Nil = Nil
  Calls = {c1, c2, c3}
  Readers = {r1, r2}
SPECIFICATION ReaderFairSpec
INVARIANTS TypeOK OwnIndex GetSeesEntry
PROPERTIES SharedFrozen ImplementsLog ReadsDoNotBlock AppendsReturn

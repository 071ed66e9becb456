CONSTANTS
  Nil = Nil
  Zero = Zero
  Buffers = {b1, b2}
  Keys = {Zero, k1}
  Options = {o1}
  Iters = {i1, i2, i3}
  Slots <- MCSlots
  Timestamps <- MCTimestamps
SPECIFICATION FairSpec
INVARIANTS TypeOK IteratorsReadAsked OneOwner
PROPERTIES KeysGo

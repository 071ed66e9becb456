CONSTANTS
  Base = 16
  MaxVarintLen = 3
  MaxOps = 2
  MaxSaves = 1
  Ops <- MCOps
  Damage <- MCDamage
SPECIFICATION Spec
INVARIANTS TypeOK DeliversBatch ErrorTellsCut
PROPERTIES ConsumesFront

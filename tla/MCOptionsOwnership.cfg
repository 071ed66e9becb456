CONSTANTS
  Handles = {o1, o2}
  Objects = {x1, x2, x3, x4}
  Nil = Nil
SPECIFICATION Spec
SYMMETRY Symmetry
INVARIANTS TypeOK FreedOnce SoleOwner NoLeak NativeSeesLive CallbacksAlive

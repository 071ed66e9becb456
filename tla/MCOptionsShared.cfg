CONSTANTS
  Handles = {o1, o2}
  Objects = {x1, x2, x3}
  Nil = Nil
SPECIFICATION SpecCommented
SYMMETRY Symmetry
INVARIANTS FreedOnce

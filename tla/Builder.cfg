CONSTANTS
  Cont = {c1, c2, c3}
  Name = {a, b}
  Scalar = {s}
  NULL = NULL
  Hole = Hole
  MaxItems = 2
  MaxHandles = 1
SPECIFICATION Spec
SYMMETRY Symmetry
INVARIANTS TypeOK RefsExact SealedClosed SealedTree OpenPrivate
PROPERTIES SealedFrozen Document

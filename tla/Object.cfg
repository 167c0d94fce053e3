CONSTANTS
  Name = {a, b, c}
  Node = {x, y}
  Key = {k1, k2, k3, k4}
  Link = {l1, l2, l3}
  NULL = NULL
  MaxAge = 5
SPECIFICATION Spec
SYMMETRY Symmetry
INVARIANTS KeysAgree InOrder
PROPERTIES Ordered

CONSTANTS
  Node = {n1, n2, n3}
  Container = {c1, c2}
  Value = {v1}
  Datum = {d}
  Zero = Zero
  NULL = NULL
  MaxItems = 1
  MaxHeld = 1
SPECIFICATION Spec
SYMMETRY Symmetry
PROPERTIES SealedValue

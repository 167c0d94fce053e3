CONSTANTS
  r = r  o = o  p = p  q = q  s = s  t = t  u = u  a = a  b = b
  Node <- MCNode
  Name = {a, b}
  Kind <- MCKind
  Kids <- MCKids
  Parent <- BuiltParent
  Copy = Copy
  NULL = NULL
  MaxMembers = 4
SPECIFICATION Spec
INVARIANTS CursorOnTrail

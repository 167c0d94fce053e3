CONSTANTS
  r = r  o = o  p = p  q = q  s = s  t = t  u = u  a = a  b = b
  Node <- MCNode
  Name = {a, b}
  Kind <- MCKind
  Kids <- MCKids
  Parent <- ParsedParent
  Copy = Copy
  NULL = NULL
  MaxMembers = 4
  MaxContainer = 3
  Names = {"m", "n"}
  Values <- MCValues
  MaxItems = 2
SPECIFICATION QueriesSpec
INVARIANTS TypeOK CursorOnTrail NameOfPlace EqualHash CacheFresh

CONSTANTS
  r = r  p = p  q = q  s = s  v = v  m = m  w = w  u = u  t = t  a = a  b = b
  Node <- MCNode
  Name = {a, b}
  Kind <- MCKind
  Kids <- MCKids
  NULL = NULL
  Length = 3
  Expression <- MCExpression
  Again <- MCAgain
SPECIFICATION Spec
INVARIANTS TypeOK  InDocumentOrder DescentLeads
PROPERTIES KeepsPrevious Returns

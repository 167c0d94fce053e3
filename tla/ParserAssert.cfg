CONSTANTS
  NULL = NULL
  MaxText = 4
  MaxDepth = 2
SPECIFICATION Spec
INVARIANTS SanityCheck

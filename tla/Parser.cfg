CONSTANTS
  NULL = NULL
  MaxText = 7
  MaxDepth = 2
SPECIFICATION Spec
INVARIANTS TypeOK Understood RefusedInTime SealedAsBuilt 
PROPERTIES Returns

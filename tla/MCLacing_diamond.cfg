SPECIFICATION Spec
CONSTANTS
  N = 2
  Null = Null
  Problems <- Lacings
INVARIANT SearchFindsAll

SPECIFICATION Spec
CONSTANTS
  N = 4
  Null = Null
  Problems <- Lacings
INVARIANTS NeverAborts RangesExact CompareAgrees
PROPERTY LacingEnds

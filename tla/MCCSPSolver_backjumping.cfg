CONSTANTS
  c1 = c1
  c2 = c2
  c3 = c3
  Value = {v1, v2}
  Constraint = {c1, c2, c3}
  Plans <- MCPlans
  Backjumping = TRUE
SPECIFICATION Spec
INVARIANTS
  SearchInvariant
  OnlySolutions
  Exhaustive
  RejectedIsExhausted
PROPERTIES
  ReportedOnce
  PromiseKept
  RunEnds

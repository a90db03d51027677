SPECIFICATION Spec
CONSTANTS
  Identifiers <- OneIdentifier
  Shapes <- SomeShapes
  Declarer = 3
  MaxTerminii = 2
  MaxBuilt = 2
  MaxSwaps = 2
INVARIANTS NeverFaults TablesMatchTrees OrderingsMatchTrees

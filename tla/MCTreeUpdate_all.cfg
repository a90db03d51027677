SPECIFICATION Spec
CONSTANTS
  Family = "layouts"
  Updates <- AllUpdates
INVARIANTS OnlyKnownFaults BuildsWantedTree AssignmentsRight SurvivorsKept PassesHandOver KeepsLongestRun RelationIsDepthFirst NothingLeftBehind ExtensionTreesKept
PROPERTIES WorkRunsOut

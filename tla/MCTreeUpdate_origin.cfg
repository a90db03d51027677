SPECIFICATION Spec
CONSTANTS
  Family = "origin"
  Updates <- AllUpdates
INVARIANT BuildsWantedTree

CONSTANTS
    Patterns <- TamePatterns
    StopCounts <- MCStopCounts
    MaxReps <- MCMaxReps
SPECIFICATION Spec
INVARIANTS EngineInvariant CouplingsKeyed StopsAtCount
PROPERTIES Balanced TransformEnds

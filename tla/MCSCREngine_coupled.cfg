CONSTANTS
    Patterns <- CoupledPatterns
    StopCounts <- NoCounts
    MaxReps <- OneMaxReps
SPECIFICATION Spec
PROPERTIES Balanced

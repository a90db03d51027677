CONSTANTS
    Solution <- TwoSolutions
    N = 2
    NumDecisions <- TwoDecisions
    Worlds <- AllWorlds
SPECIFICATION Spec
INVARIANTS RegenerationInvariant IteratorsValid MatchIsReal MismatchIsReal
PROPERTIES TriesAll CompareEnds

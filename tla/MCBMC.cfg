CONSTANTS
    NumVars = 2
    Inputs = {0, 1}
    Systems <- MCSystems
    SolverRefreshRate = 2
    Bounds = {1, 5}
SPECIFICATION FairSpec
INVARIANTS
    QueryIsExact
    ShortestCounterexample
    UnknownUpToBound
    WitnessReplays
PROPERTY
    AnswersSoundly

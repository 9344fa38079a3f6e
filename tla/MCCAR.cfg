CONSTANTS
    NumVars = 2
    Inputs = {0, 1}
    Systems <- MCSystems
    SharedGates <- MCSharedGates
    Solvers = {"basic", "trans", "error"}
    Configurations <- MCOptions
SPECIFICATION FairSpec
INVARIANTS
    StepsStayInTrace
    SolversAgreeWithFrames
    NothingForgotten
    ColevelsAreDistances
    WitnessReplays
PROPERTIES
    ScannedCoframeStable
    AnswersSoundly
    Termination

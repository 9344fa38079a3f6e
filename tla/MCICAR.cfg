CONSTANTS
    NumVars = 2
    Inputs = {0, 1}
    Systems <- MCSystems
    SharedGates <- NoSharedGates
    Solvers = {"basic", "trans"}
    Configurations <- MCOptions
SPECIFICATION FairSpec
INVARIANT
    ObligationsOpen
PROPERTIES
    AnswersSoundly
    Termination

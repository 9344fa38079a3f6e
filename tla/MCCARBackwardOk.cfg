CONSTANTS
    NumVars = 2
    Inputs = {0, 1}
    Systems <- MCSystems
    SharedGates <- MCSharedGates
    Solvers = {"basic", "trans", "error"}
    Configurations <- BackwardOptions
SPECIFICATION Spec
INVARIANT
    OkMeansSafe

CONSTANTS
    NumVars = 2
    Inputs = {0, 1}
    Systems <- MCSystems
    SolverRefreshRate = 2
    Bounds = {1, 5}
SPECIFICATION Spec
INVARIANTS
    ActivatorPerStep

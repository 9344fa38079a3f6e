CONSTANTS
    NumVars = 2
    Inputs = {0}
    Systems <- MCSystems
    RefreshRate = 2
SPECIFICATION Spec
INVARIANTS
    WitnessStartsInInit

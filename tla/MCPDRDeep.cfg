CONSTANTS
    NumVars = 3
    Inputs = {0, 1}
    Systems <- MCSystems
    RefreshRate = 2
SPECIFICATION Spec
INVARIANTS
    InitInTrace
    StepsStayInTrace
    ObligationsOutsideLowerLevel
    GeneralizationSound
    WitnessReplays

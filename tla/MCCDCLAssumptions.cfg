CONSTANTS
    NumVars = 4
    Problems <- RefutedAssumptions
    Options <- MCOptions
SPECIFICATION Spec
INVARIANT
    ModelsRespectAssumptions

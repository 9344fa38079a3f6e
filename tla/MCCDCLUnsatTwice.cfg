CONSTANTS
    NumVars = 4
    Problems <- ThriceUnsatisfiable
    Options <- MCOptions
SPECIFICATION Spec
INVARIANT
    ModelsSatisfyFormula

CONSTANTS
    NumInputs = 1
    NumLatches = 2
    NumAnds = 2
    Circuits <- MCCircuits
SPECIFICATION FairBuilderSpec
INVARIANTS
    NoConstantInClauses
    FormulasAreExact
    SafetyPreserved
PROPERTY
    SystemIsBuilt

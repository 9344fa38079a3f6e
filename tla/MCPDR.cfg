CONSTANTS
    NumVars = 2
    Inputs = {0}
    Systems <- MCSystems
    RefreshRate = 2
SPECIFICATION FairSpec
INVARIANTS
    TypeOK
    TraceSafe
    SolversAgreeWithFrames
PROPERTIES
    LevelsOnlyShrink
    AnswersSoundly
    Termination

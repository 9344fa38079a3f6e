CONSTANTS
    NumVars = 4
    Problems <- MCProblems
    Options <- MCOptions
SPECIFICATION FairSpec
INVARIANTS
    TypeOK
    DatabaseEquivalent
    ReasonsImply
    WatchesConsistent
    NothingMissed
    CoreImplied
PROPERTIES
    AnswersSoundly
    Termination

SPECIFICATION FairSpec
CONSTANTS
    Kinds <- AllKinds
    Schemes <- AllSchemes
    MaxRedirects = 2
    MaxIdle = 1
INVARIANTS CallContract UnsentDialFailureMoves
PROPERTIES CallReturns
CHECK_DEADLOCK FALSE

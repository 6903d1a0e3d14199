CONSTANTS
    N = 3
    Reasons <- MCReasons
SPECIFICATION Spec
INVARIANTS
    TypeOK
    Consistent
    NothingSkipped
    LowerLevelsPropagated
    OnlyLiteralsHandedOut
PROPERTIES
    LevelZeroKept
CHECK_DEADLOCK FALSE

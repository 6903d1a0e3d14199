CONSTANTS
    N = 6
    Workers <- OneWorker
    Formulas <- LongFormulas
    InitPhases <- PhaseExtremes
    DecisionOrders <- Rotations
    RandomVars = {2}
    RandomTries = 5
    FractionRandomDecisions = 5
    DLBelowWhichRandomDecisions = 2
    lubyNumbersMultiplier = 3
    InitialCleanupLimit = 2
    ActivityThreshold = 1
SPECIFICATION Spec
INVARIANTS
    LemmasEntailed
    AnswersSound
    TrailsConsistent
    ReasonsJustify
    PropagationComplete
    WatchesLinked
    WatchesSafe
    LemmaAsserts
    LemmaIsNew
    InputInForce
    FlagsMatch
PROPERTIES
    Terminates
    FollowsTrail

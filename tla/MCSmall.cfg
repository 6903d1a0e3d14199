CONSTANTS
    N = 4
    Workers <- OneWorker
    Formulas <- SmallFormulas
    InitPhases <- AllPhases
    DecisionOrders <- AllOrders
    RandomVars = {1, 2}
    RandomTries = 5
    FractionRandomDecisions = 3
    DLBelowWhichRandomDecisions = 2
    lubyNumbersMultiplier = 2
    InitialCleanupLimit = 3
    ActivityThreshold = 1
SPECIFICATION Spec
INVARIANTS
    TypeOK
    AnswersSound
    PropagationComplete
    HeapComplete
    MarksExact
PROPERTIES
    Terminates
    LevelZeroKept
    KeepsPromise

CONSTANTS
    N = 6
    Workers <- TwoWorkers
    Formulas <- NoUnitsFormula
    InitPhases <- Negative
    DecisionOrders <- OneOrder
    RandomVars = {2}
    RandomTries = 5
    FractionRandomDecisions = 200
    DLBelowWhichRandomDecisions = 0
    lubyNumbersMultiplier = 3
    InitialCleanupLimit = 3
    ActivityThreshold = 1
SPECIFICATION SafeSpec
INVARIANTS
    SameSearch
    AnswersSound
    ReasonsJustify

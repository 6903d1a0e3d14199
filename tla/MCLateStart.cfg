CONSTANTS
    N = 3
    Workers <- TwoWorkers
    Formulas <- TernariesFormula
    InitPhases <- Negative
    DecisionOrders <- OneOrder
    RandomVars = {2}
    RandomTries = 5
    FractionRandomDecisions = 200
    DLBelowWhichRandomDecisions = 0
    lubyNumbersMultiplier = 3
    InitialCleanupLimit = 3
    ActivityThreshold = 1
SPECIFICATION SafeSpec
INVARIANT SameSearch

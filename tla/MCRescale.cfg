CONSTANTS
    NumElems = 4
    InitialBonus = 1
    Inflation = 2
    MaxScore = 2
    Scale = 2
    MaxBonus = 2
    MaxRescales = 1
SPECIFICATION Spec
INVARIANT AlwaysCorrect

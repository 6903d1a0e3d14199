CONSTANTS
    N = 4
    Workers <- MCWorkers
    Inputs <- MCInputs
    Lemmas <- MCLemmas
    MaxTernaryClauses = 10
    MaxNaryClauses = 10
    Nobody = Nobody
SPECIFICATION Spec
INVARIANTS
    AssertionsHold
    AddressesGood
    CountersMatch
PROPERTIES
    AsIfAlone
    AllBrought
CHECK_DEADLOCK FALSE

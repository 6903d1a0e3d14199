CONSTANTS
    N = 4
    InputClauses <- MCInputClauses
    Lemmas <- MCLemmas
    MaxThClauses = 3
SPECIFICATION Spec
INVARIANTS
    ListsIntact
PROPERTIES
    VisitsAll

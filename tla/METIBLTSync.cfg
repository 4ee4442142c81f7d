SPECIFICATION FairSpec
CONSTANTS
    e_a = e_a
    e_b = e_b
    e_c = e_c
    Elem <- MCElem
    CellCount = 3
    Places <- MCPlaces
    Sessions = 2
    MaxTables = 3
    MaxCopies = 2
INVARIANTS
    PeelsTogether
    OneSidedExact
PROPERTY Termination
CHECK_DEADLOCK FALSE

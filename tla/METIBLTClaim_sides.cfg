SPECIFICATION PeelSpec
CONSTANTS
    e_a = e_a
    e_b = e_b
    e_c = e_c
    Elem <- MCElem
    CellCount = 3
    Places <- MCPlaces
    Sessions = 1
    MaxTables = 3
    MaxCopies = 2
INVARIANT SidesRight
CHECK_DEADLOCK FALSE

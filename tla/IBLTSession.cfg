SPECIFICATION FairSpec
CONSTANTS
    e_a = e_a
    e_b = e_b
    e_c = e_c
    Elem <- MCElem
    Tokens <- MCTokens
    Cells <- MCCells
    Places <- MCPlaces
    Pairings <- MCPairings
    Sessions = 2
INVARIANTS
    ListsExact
    ServerKnows
    CoreRemains
PROPERTY Termination
CHECK_DEADLOCK FALSE

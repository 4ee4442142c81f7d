SPECIFICATION FairSpec
CONSTANTS
    e_a = e_a
    e_b = e_b
    e_c = e_c
    Elem <- MCElem
    Tokens <- MCTokens
    Marks <- MCMarks
    Setups <- MCSetups
    Sessions = 2
INVARIANTS
    MissedOnlyMasked
    NoEcho
PROPERTY Termination
CHECK_DEADLOCK FALSE

SPECIFICATION FairSpec
CONSTANTS
    e_a = e_a
    e_b = e_b
    e_c = e_c
    e_d = e_d
    Elem <- MCElem
    Tokens <- MCTokens
    DATA_MAX = 8
    Setups <- MCSetups
    Sessions = 2
INVARIANTS
    SameCalls
    LostOnlyInCrowds
PROPERTY Termination
CHECK_DEADLOCK FALSE

SPECIFICATION FairSpec
CONSTANTS
    e_a = e_a
    e_b = e_b
    e_c = e_c
    e_d = e_d
    Elem <- MCElem
    Tokens <- MCTokens
    Pairings <- MCPairings
    Sessions = 2
    Buf = 1
INVARIANTS
    LockStep
    OutcomesExact
PROPERTIES
    Reconciliation
    Termination
CHECK_DEADLOCK FALSE

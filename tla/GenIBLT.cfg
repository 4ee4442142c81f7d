SPECIFICATION FairSpec
CONSTANTS
    k1 = k1
    k2 = k2
    k3 = k3
    k4 = k4
    Key <- MCFour
    Size <- MCSize
    HashCount <- MCMixed
    HashRange <- MCHashRange
    Nets <- MCBags
INVARIANTS
    Residual
    PeelsExactly
    GetSound
PROPERTY Terminates
CHECK_DEADLOCK FALSE

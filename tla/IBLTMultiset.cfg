SPECIFICATION FairSpec
CONSTANTS
    k0 = k0
    k1 = k1
    k2 = k2
    Key <- MCKey
    Zero = k0
    NumHashes = 2
    Buckets = 2
    Nets <- MCNets
INVARIANTS
    PeelsExactly
    HeldKeysRight
PROPERTIES
    MergesExactly
    Terminates
CHECK_DEADLOCK FALSE

SPECIFICATION Spec
CONSTANTS
    a1 = a1
    a2 = a2
    a3 = a3
    a4 = a4
    a5 = a5
    b = b
    Object <- MCObject
    val <- MCval
    DataMax = 8
    FieldSize = 11
    FirstKinds <- MCFirstKinds
    LaterKinds <- MCLaterKinds
    MaxAgents = 2
    MaxDeletions = 2
    MaxRefused = 1
SYMMETRY Copy
INVARIANTS
    AgentsAgree
    RootsExact
    SummaryExact
    HashesByValue
    LoopsOnlyBeyond
CHECK_DEADLOCK FALSE

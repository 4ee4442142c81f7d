SPECIFICATION FilterSpec
CONSTANTS
    Item <- MCItem
    Fingerprint <- MCFingerprint
    FilterSize = 3
    BucketSize = 2
    MaxKicks = 3
    fp <- MCfp
    hash <- MChash
    alternative <- MCAlternative
INVARIANTS
    NoFalseNegatives
    CopiesExact
PROPERTY FailureRestores

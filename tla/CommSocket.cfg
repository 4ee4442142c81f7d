SPECIFICATION FairSpec
CONSTANTS
    Lengths = {0, 1, 3}
    Strings = 3
    XmitLong = 2
    MaxConnects = 2
    Capacity = 4
INVARIANTS
    Intact
    CountersAgree
PROPERTY Ends
CHECK_DEADLOCK FALSE

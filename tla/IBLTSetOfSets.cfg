SPECIFICATION ParentsFairSpec
CONSTANTS
    x = x
    y = y
    z = z
    Item <- MCItem
    Child <- MCChild
    Stuck <- MCStuck
    Sizes <- MCSizes
    Sessions = 2
    MaxChildren = 3
    MaxUpdates = 1
INVARIANTS
    Aligned
    Converges
PROPERTIES
    NothingLost
    Termination
CHECK_DEADLOCK FALSE

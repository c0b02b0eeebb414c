SPECIFICATION RetainSpec
CONSTANTS
    k1 = k1
    k2 = k2
    Keys <- TwoKeys
    MaxSubs = 3
    MaxDepth = 2
SYMMETRY Symmetry
INVARIANTS NoSubscriberLost
PROPERTIES SilentAfterDrop
CHECK_DEADLOCK FALSE

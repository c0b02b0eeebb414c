SPECIFICATION DrainSpec
CONSTANTS
    k1 = k1
    k2 = k2
    Keys <- OneKey
    MaxSubs = 3
    MaxDepth = 2
PROPERTIES SilentAfterDropInRemove
CHECK_DEADLOCK FALSE

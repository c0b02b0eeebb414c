SPECIFICATION FairSpec
CONSTANTS
    s1 = s1
    s2 = s2
    r1 = r1
    r2 = r2
    r3 = r3
    Senders <- TwoSenders
    Receivers <- ThreeReceivers
    MaxItems = 3
INVARIANTS FifoPerPriority NoLostWakeup
PROPERTIES EveryItemReceived
CHECK_DEADLOCK FALSE

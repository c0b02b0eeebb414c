SPECIFICATION Spec
CONSTANTS
    s1 = s1
    s2 = s2
    Loop = Loop
    Senders <- TwoSenders
    MaxItems = 3
INVARIANTS ClosedIsFinal
PROPERTIES EveryRunnableDelivered
CHECK_DEADLOCK FALSE

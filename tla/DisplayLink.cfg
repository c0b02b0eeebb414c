SPECIFICATION FairSpec
CONSTANTS
    w1 = w1
    w2 = w2
    d1 = d1
    d2 = d2
    Windows <- TwoWindows
    Displays <- TwoDisplays
    None = None
    MaxOps = 3
INVARIANTS LinkRunsIffSubscribed WorkHasFrames GoneIsUnreachable
PROPERTIES DirtyIsPresented IdleStops
CHECK_DEADLOCK FALSE

SPECIFICATION ShutdownSpec
CONSTANTS
    e1 = e1
    e2 = e2
    g1 = g1
    w1 = w1
    None = None
    Entities <- TwoEntities
    Globals <- OneGlobal
    Windows <- OneWindow
    MaxSubs = 1
    MaxEvents = 1
    MaxOps = 6
INVARIANTS PendingExact SettledAtRest AnnouncedBeforeReleased

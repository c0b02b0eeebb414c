SPECIFICATION Spec
CONSTANTS
    e1 = e1
    e2 = e2
    g1 = g1
    w1 = w1
    None = None
    Entities <- OneEntity
    Globals = {}
    Windows = {}
    MaxSubs = 2
    MaxEvents = 2
    MaxOps = 9
INVARIANTS NoNotificationLost NoEventLost FlushIsOutermost
PROPERTIES EventsInOrder

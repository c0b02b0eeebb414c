SPECIFICATION FairSpec
CONSTANTS
    Main = Main
    worker = worker
    e1 = e1
    h1 = h1
    h2 = h2
    h3 = h3
    NoEntity = NoEntity
    NoHandle = NoHandle
    Threads <- ThreadSet
    Ids <- OneId
    Handles <- HandleSet
INVARIANTS NoOverRelease CountIsHandles HandleFindsEntity
PROPERTIES ImplementsOwnership EventuallyReleased
CHECK_DEADLOCK FALSE

SPECIFICATION FairSpec
CONSTANTS
    r = r
    a = a
    b = b
    None = None
    Root = r
    Views = {a, b}
    Parent <- Tree
    Ancestors <- TreeAncestors
    MaxOps = 2
INVARIANTS NoInvalidationLost NextDrawRenders ListenersKnowFocus FocusIsKnown
PROPERTIES NotifiedIsRedrawn
CHECK_DEADLOCK FALSE

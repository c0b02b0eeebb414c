SPECIFICATION Spec
CONSTANTS
    r = r
    a = a
    b = b
    None = None
    Root = r
    Views = {a}
    Parent <- Tree
    Ancestors <- TreeAncestors
    MaxOps = 3
PROPERTIES RecycledIsFresh
CHECK_DEADLOCK FALSE

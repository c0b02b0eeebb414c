SPECIFICATION FairSpec
CONSTANTS
    inner = inner
    outer = outer
    None = None
    NoPredicate = NoPredicate
    Predicates <- PredicatesInUse
    MaxHeight = 1
    Keys = {"a", "b"}
    Focuses = {inner, outer}
    Contexts <- ContextsOfFocus
    Bindings <- SmallBindings
    MaxBindings = 3
    MaxKeys = 3
INVARIANTS KeystrokesInOrder OneFocus MatchFollowsPrecedence HiddenNeverFires
PROPERTIES TimeoutIsFresh CompleteBindingResolves

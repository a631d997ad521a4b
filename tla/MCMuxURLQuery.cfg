SPECIFICATION Spec
CONSTANTS
    Root = Root
    Inner = Inner
    Alphabet <- Characters
    Written <- Patterns
    Calls <- EveryCall
    Transform <- Exchange
    Given <- Ampersands
    Escapes <- NoEscapes
    Texts = {}
    MaxRoutes = 1
    MaxCalls = 2
CHECK_DEADLOCK FALSE
INVARIANT BuiltURLsLeadBack

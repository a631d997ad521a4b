SPECIFICATION Spec
CONSTANTS
    Root = Root
    Inner = Inner
    Alphabet <- Characters
    Written <- Patterns
    Calls <- EveryCall
    Transform <- Exchange
    Given <- PlainValues
    Escapes <- NoEscapes
    Texts <- SomeTexts
    MaxRoutes = 2
    MaxCalls = 3
CHECK_DEADLOCK FALSE
INVARIANTS
    TypeOK
    BuiltURLsLeadBack
    ShortcutsAreExact
    SlashRedirectsSettle
    VariablesHaveOnePlace

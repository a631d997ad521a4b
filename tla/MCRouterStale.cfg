SPECIFICATION Spec
CONSTANTS
    p1 = p1
    p2 = p2
    p3 = p3
    g0 = g0
    g1 = g1
    r1 = r1
    r2 = r2
    Procs <- TwoProcs
    Builders <- TwoBuilders
    First = g0
    Routes <- OneRoute
    Online <- OnlyStale
    Offline <- Nothing
    MaxUse = 1
    MayPanic = FALSE
    Free = Free
    NoTable = NoTable
    NoBuilder = NoBuilder
    NoChain = NoChain
    NoView = NoView
    NoAnswer = NoAnswer
PROPERTIES
    StaleHasNoEffect

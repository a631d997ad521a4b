SPECIFICATION Spec
CONSTANTS
    p1 = p1
    p2 = p2
    p3 = p3
    g0 = g0
    g1 = g1
    r1 = r1
    r2 = r2
    Procs <- ThreeProcs
    Builders <- TwoBuilders
    First = g0
    Routes <- TwoRoutes
    Online <- Nothing
    Offline <- Documented
    MaxUse = 1
    MayPanic = FALSE
    Free = Free
    NoTable = NoTable
    NoBuilder = NoBuilder
    NoChain = NoChain
    NoView = NoView
    NoAnswer = NoAnswer
SYMMETRY Symmetry
INVARIANTS
    TypeOK
    Coherent
    NoMapRace
    NoNilHandler
    AnswersOwnTable
    UnderConstructionHidden
PROPERTIES
    ImplementsAtomicRouter

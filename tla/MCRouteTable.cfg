SPECIFICATION TableSpec
CONSTANTS
    Accepts <- NoTypes
    Calls <- AllCalls
    Requests <- AllRequests
    MaxRoutes = 3
    MaxErrs = 1
    SpecDepth = 4
CHECK_DEADLOCK FALSE
INVARIANTS
    TableOK
    FindsBestRoute
    MissIsClassified
    AllowIsExact
    AdditionsOnlyClaim
    PatternsMeanTheirForms
PROPERTY RefusedChangesNothing

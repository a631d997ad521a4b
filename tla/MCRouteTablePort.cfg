SPECIFICATION TableSpec
CONSTANTS
    Accepts <- NoTypes
    Calls <- PortCalls
    Requests <- AllRequests
    MaxRoutes = 2
    MaxErrs = 1
    SpecDepth = 4
CHECK_DEADLOCK FALSE
INVARIANT PortRespected

SPECIFICATION GroupSpec
CONSTANTS
    Accepts <- NoTypes
    Calls <- SomeCalls
    Requests <- SomeRequests
    MaxRoutes = 3
    MaxErrs = 1
    SpecDepth = 6
    GroupPaths <- SomePaths
    HostLists <- SomeHosts
    Priorities <- SomePriorities
    Patterns <- SomePatterns
    Methods = {"GET"}
    MountPoints <- SomeMountPoints
    Placeholder <- Wildcards2
    MaxGroups = 2
    MaxUses = 2
    Budget = 5
CHECK_DEADLOCK FALSE
INVARIANTS
    TypeOK
    MiddlewareFollowsScope
    RoutesStayInTheirGroups
    MountsOwnTheirSubtree
PROPERTIES
    NoHalfMountInstalled

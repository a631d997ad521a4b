SPECIFICATION Spec
CONSTANTS
    Root = "root"
    Inner = "inner"
    Accepts <- IsNumber
    Begins <- StartsWith
    IndexThreshold = 2
    RootSetup <- SetupOfRoot
    Setups <- SetupsOfInner
    Chains <- RootChains
    OpenChains <- ParentChains
    InnerChains <- SubChains
    Calls <- LaterCalls
    Requests <- AllRequests
    MaxRoutes = 3
    StrictAfter = 1
INVARIANTS
    IndexAgreesWithScan
    FirstMatchWins
    RefusalIsJust
    MiddlewareWrapsMatches
    VariablesAreTheRoutes
    AnnouncedMethodsAreServed
\* Registration ends at its bound; a request may change nothing.
CHECK_DEADLOCK FALSE

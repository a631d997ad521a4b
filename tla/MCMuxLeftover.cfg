SPECIFICATION Spec
CONSTANTS
    Root = "root"
    Inner = "inner"
    Accepts <- IsNumber
    Begins <- StartsWith
    IndexThreshold = 2
    RootSetup <- SetupOfRoot
    Setups <- SetupsOfInner
    Chains <- RootChains
    OpenChains <- RefusingParents
    InnerChains <- SubChains
    Calls <- LaterCalls
    Requests <- AllRequests
    MaxRoutes = 3
    StrictAfter = 1
INVARIANT FirstMatchWins
CHECK_DEADLOCK FALSE

SPECIFICATION Spec
CONSTANTS
    Accepts <- NoTypes
    Calls <- DispatchCalls
    Requests <- DispatchRequests
    Rewritten <- Untouched
    MaxRoutes = 2
    MaxErrs = 0
    SpecDepth = 4
\* The client stops once it has an answer that is not a redirect.
CHECK_DEADLOCK FALSE
INVARIANT RedirectsToOnlyForm

\* Safety: eviction, exhaustion, window and concurrency limits all occur.
CONSTANTS
    Calls = {c1, c2, c3, c4}
    Principals = {p1}
    Clients = {k1}
    Operations = {op}
    Nobody = Nobody
    NoState = NoState
    MAX_TRACKED_SCOPES = 2
    maxConcurrentExecutions = 1
    maxRequestsPerWindow = 2
    requestWindow = 2
    MaxTime = 2
    ToolSettlements <- SuccessOrFailure
SPECIFICATION Spec
SYMMETRY CallSymmetry
INVARIANTS
    ConcurrencyBound
    WindowBudget
PROPERTIES
    EvictsOnlyLeastRecentlyUsed
    DeniesFreshScopeOnlyWhenAllBusy
CHECK_DEADLOCK FALSE

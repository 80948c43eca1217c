\* Liveness and every way a tool settles, with two calls.
CONSTANTS
    Calls = {c1, c2}
    Principals = {p1}
    Clients = {}
    Operations = {op}
    Nobody = Nobody
    NoState = NoState
    MAX_TRACKED_SCOPES = 1
    maxConcurrentExecutions = 1
    maxRequestsPerWindow = 2
    requestWindow = 1
    MaxTime = 1
    ToolSettlements <- Settlements
SPECIFICATION FairSpec
PROPERTIES
    AdmittedCallsSettle
CHECK_DEADLOCK FALSE

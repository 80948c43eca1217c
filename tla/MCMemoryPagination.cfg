\* Safety and liveness: pages of one or two rows over three rows, two changes.
CONSTANTS
    Ids = {1, 2, 3}
    Times = {1, 2}
    Workspaces = {"w1", "w2"}
    WorkspaceOf <- TwoWorkspaces
    Queries = {"q"}
    NoQuery = ""
    Criteria <- SomeFilters
    Populations <- FullTable
    MaxChanges = 2
    Walks = {a}
    Limits = {1, 2}
    CodeUnits <- SwappedCodeUnits
SPECIFICATION FairSpec
INVARIANTS
    TypeOK
    ListNeverRepeats
    SteadyRowsExactlyOnce
PROPERTIES
    FailsOnlyOnCollation
    WalksEnd
CHECK_DEADLOCK FALSE

\* One retrieval, with or without a cursor, two changes of rows or authority; upstream may
\* never answer.
CONSTANTS
    Ids = {1, 2}
    Times = {1, 2}
    Workspaces = {"w"}
    WorkspaceOf <- OneWorkspace
    Queries = {"q  x", "q x"}
    NoQuery = ""
    Criteria <- BothForms
    Populations <- Tables
    MaxChanges = 2
    Retrievals = {r}
    Limits = {1, 2}
    Cursors <- SomeCursors
    normalized <- NormalForm
    NoMemory = 0
SPECIFICATION FairSpec
INVARIANTS
    TypeOK
    AnswersTrueOfSnapshot
    NoMatchInEitherForm
    AcceptedCursorNotRefused
PROPERTIES
    ReturnsOnce
    RetrievalsReturn
CHECK_DEADLOCK FALSE

\* A request cancelled before its handler runs, refused before any await.
CONSTANTS
    Calls = {c1}
    Versions = {v1}
    NoVersion = NoVersion
SPECIFICATION Spec
INVARIANTS
    AbortEmitsOnlyDeadline
CHECK_DEADLOCK FALSE

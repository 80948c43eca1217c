\* Safety, refinement and liveness: two calls, two versions, adapters that may never settle.
CONSTANTS
    Calls = {c1, c2}
    Versions = {v1, v2}
    NoVersion = NoVersion
SPECIFICATION FairSpec
INVARIANTS
    EvidenceBeforeReturn
    SuccessIsSourceBound
    ObserversSeeAnsweredReceipts
    AtMostOneReceipt
    EventMatchesAnswer
PROPERTIES
    ReturnIsFinal
    KeepsEvidencePromise
    CallsAreAnswered
CHECK_DEADLOCK FALSE

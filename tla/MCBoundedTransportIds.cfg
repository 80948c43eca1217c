\* Two calls with a numeric id or a UUID: an artifact answer near the ceiling.
CONSTANTS
    Files = {f}
    Regular = {f}
    NoFile = NoFile
    MAX_CREDENTIAL_BYTES = 1
    MaxSize = 1
    MaxChanges = 0
    Calls = {c1, c2}
    RequestIds = {1, 38}
    RequestBytes = {200}
    Outputs <- MCOutputs
    BareBytes <- MCBareBytes
    ErrorBytes <- MCErrorBytes
    MAX_RESPONSE_BYTES = 65536
    MAX_REQUEST_ID_BYTES = 1024
SPECIFICATION WireSpec
INVARIANTS
    ArtifactAnswersFit
CHECK_DEADLOCK FALSE

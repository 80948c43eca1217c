\* Safety and liveness: a regular file and a directory, changed twice while they are read,
\* then a call over the transport.
CONSTANTS
    Files = {f, d}
    Regular = {f}
    NoFile = NoFile
    MAX_CREDENTIAL_BYTES = 2
    MaxSize = 3
    MaxChanges = 2
    Calls = {c1}
    RequestIds = {1, 1024, 1025}
    RequestBytes = {200, 65000}
    Outputs <- MCOutputs
    BareBytes <- MCBareBytes
    ErrorBytes <- MCErrorBytes
    MAX_RESPONSE_BYTES = 65536
    MAX_REQUEST_ID_BYTES = 1024
SPECIFICATION WireFairSpec
INVARIANTS
    ServesCheckedCredential
    BodyIsWhole
    ExitCodeTellsFailure
    ClosesOnce
    ReadToolAnswersFit
    WithheldOnlyAtCeiling
PROPERTIES
    StartupEnds
CHECK_DEADLOCK FALSE

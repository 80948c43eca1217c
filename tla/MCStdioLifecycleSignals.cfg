\* The same signal twice.
CONSTANTS
    Files = {f}
    Regular = {f}
    NoFile = NoFile
    MAX_CREDENTIAL_BYTES = 2
    MaxSize = 3
    MaxChanges = 1
SPECIFICATION Spec
INVARIANTS
    RepeatedSignalsShareClose
CHECK_DEADLOCK FALSE

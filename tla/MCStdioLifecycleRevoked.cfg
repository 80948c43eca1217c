\* A token that is revoked while the process serves.
CONSTANTS
    Files = {f}
    Regular = {f}
    NoFile = NoFile
    MAX_CREDENTIAL_BYTES = 2
    MaxSize = 3
    MaxChanges = 1
SPECIFICATION Spec
INVARIANTS
    RefusedCredentialNotServed
CHECK_DEADLOCK FALSE

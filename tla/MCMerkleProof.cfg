\* Sources of up to six bytes, chunks of one and two, one alteration of the proof.
CONSTANTS
    Bytes = {"a", "b"}
    Sources <- SmallSources
    AskedChunkSizes = {1, 2, 3}
    ALLOWED_CHUNK_SIZES = {1, 2}
    MAX_CALIBRATION_SOURCE_BYTES = 1048576
    MAX_CHUNK_COUNT = 4096
    MAX_MERKLE_PROOF_DEPTH = 32
    Presentations <- AnyPresentation
SPECIFICATION Spec
INVARIANTS
    VerifiedIsIncluded
    OwnProofVerifies
    SafetyNetUnreachable
CHECK_DEADLOCK FALSE

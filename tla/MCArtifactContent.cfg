SPECIFICATION Spec
CONSTANTS
    Artifacts <- MCArtifacts
    Requests <- MCRequests
    Alterations <- MCAlterations
    ALLOWED_CHUNK_SIZES = {2, 4}
    MAX_RANGE_BYTES = 8
    MAX_COVERING_FETCH_BYTES = 10
    MAX_LINE_SOURCE_SCAN_BYTES = 20
    MAX_EXACT_SEARCH_SOURCE_BYTES = 8
    MAX_VERIFIED_CHUNKS_PER_READ = 4
    MAX_INLINE_CHUNK_HASHES = 3
    MAX_CALIBRATION_SOURCE_BYTES = 21
    MAX_CHUNK_COUNT = 6
    MAX_TEXT_INDEX_BYTES = 20
    MAX_TEXT_INDEX_LINES = 4
    MAX_TEXT_INDEX_HEADINGS = 3
    MAX_HEADING_LEVEL = 2
    MAX_HEADING_TEXT_CHARS = 4
    MAX_HEADING_ID_LENGTH = 7
    MAX_LINE_READ_COUNT = 2
    MAX_TEXT_READ_BYTES = 8
INVARIANTS
    SuccessIsSourceBytes
    LinesAreTheLines
    HeadingsAreAddressed
    HitsAreLeftmost
    IntegrityFailureHasACause
    CandidatesFitTheSchema
CHECK_DEADLOCK FALSE

CONSTANTS
    None = None
    Torn = Torn
    ShapedPolicyIds = {"web-content-v1"}
    Policies = {"web-content-v1", "Web Content"}
    Pages <- AllPages
    MAX_DECODED_BYTES = 8
    MAX_DECODE_EXPANSION = 2
    MIN_DECODE_CEILING = 1
    MAX_SCAN_INPUT_BYTES = 64
    MAX_CONTENT_CHARS = 8
SPECIFICATION Spec
INVARIANT TypeOK
INVARIANT ReleasedWasCleared
INVARIANT AuditAgrees
INVARIANT RemovedIsOnRecord
INVARIANT ReleasedInTime
INVARIANT CompactPagesComplete
PROPERTY InspectionEnds
CHECK_DEADLOCK FALSE

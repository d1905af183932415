CONSTANTS
    None = None
    Torn = Torn
    ShapedPolicyIds = {"web-content-v1"}
    Policies = {"web-content-v1"}
    Pages <- ClosePages
    MAX_DECODED_BYTES = 8
    MAX_DECODE_EXPANSION = 2
    MIN_DECODE_CEILING = 1
    MAX_SCAN_INPUT_BYTES = 64
    MAX_CONTENT_CHARS = 8
SPECIFICATION Spec
INVARIANT PagesWithinLimitsComplete
CHECK_DEADLOCK FALSE

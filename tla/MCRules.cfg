SPECIFICATION Spec
CONSTANTS
    None = None
    Malformed = Malformed
    ShapedPolicyIds = {"shaped"}
    MAX_URL_CHARS = 3
    MAX_CONTENT_TYPE_CHARS = 3
    MAX_CONTENT = 3
    Addresses <- MCAddresses
    Files <- MCFiles
    Envelopes <- MCEnvelopes
    Payloads <- MCPayloads
    Entries <- MCEntries
    Char <- MCChar
INVARIANTS
    VerdictIsOfPlainAddress
    RoundTrip
    
    WrittenIsAdmitted
CHECK_DEADLOCK FALSE

CONSTANTS
    Admissions = {"a1", "a2", "a3", "a4", "a5", "a6", "a7"}
    Call <- RefusedCall
    Identities = {"key1", "key2", "braced", "unknown", "no_profile", "no_view"}
    CanonicalKey = {"key1", "key2", "unknown", "no_profile", "no_view"}
    Registered = {"key1", "key2", "no_profile", "no_view"}
    Profiled = {"key1", "key2", "no_view"}
    Viewed = {"key1", "key2"}
    Payloads = {"plain", "invalid"}
    Requests = {"request1"}
    Validated <- MCValidated
    Ids = {"i1"}
    Drivers = {"d1", "d2"}
    None = None
SPECIFICATION Spec
INVARIANT TypeOK
INVARIANT TrailIsLegal
 
CHECK_DEADLOCK FALSE

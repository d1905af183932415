CONSTANTS
    Admissions = {"a1", "a2", "a3", "a4"}
    Call <- MCCall
    Identities = {"key1", "key2"}
    CanonicalKey = {"key1", "key2"}
    Registered = {"key1", "key2"}
    Profiled = {"key1", "key2"}
    Viewed = {"key1", "key2"}
    Payloads = {"plain", "padded", "other"}
    Requests = {"request1", "request2"}
    Validated <- MCValidated
    Ids = {"i1", "i2", "i3"}
    Drivers = {}
    None = None
SPECIFICATION Spec
INVARIANT OneWorkerPerIdentity
INVARIANT ReturnsTheOneRun
INVARIANT UnstartedRunsAreAccountedFor
CHECK_DEADLOCK FALSE

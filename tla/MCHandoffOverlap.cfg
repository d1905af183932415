CONSTANTS
    Runs = {"run1", "run2"}
    Keys = {"key"}
    KeyOf <- MCKeyOf
    ForeignKeys = {"foreign"}
    Fetchers = {"f1", "f2"}
    FetcherRun <- AllRun1
    FetcherVersion <- AllVersion1
    Readers = {"r1"}
    ReaderRun <- ReadersRun1
    Version = 1
    Versions = {1}
    Empty = Empty
    Bodies = {b1, b2}
    Codes = {"fetch_failed", "internal_error"}
    InternalError = "internal_error"
    None = None
    Absent = Absent
    Torn = Torn
    Pending = Pending
    Refused = Refused
    Overlapping = TRUE
    MaxFaults = 0
SPECIFICATION Spec
PROPERTY ImplementsContract
CHECK_DEADLOCK FALSE

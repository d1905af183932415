CONSTANTS
    Runs = {"run1", "run2"}
    Keys = {"key"}
    KeyOf <- MCKeyOf
    ForeignKeys = {"foreign"}
    Fetchers = {"f1", "f2", "f3"}
    FetcherRun <- TwoRuns
    FetcherVersion <- TwoVersions
    Readers = {"r1"}
    ReaderRun <- ReadersRun1
    Version = 1
    Versions = {1, 2}
    Empty = Empty
    Bodies = {Empty, b1}
    Codes = {"fetch_failed", "internal_error"}
    InternalError = "internal_error"
    None = None
    Absent = Absent
    Torn = Torn
    Pending = Pending
    Refused = Refused
    Overlapping = FALSE
    MaxFaults = 1
SPECIFICATION Spec
INVARIANT TypeOK
INVARIANT AnswersWereRecorded
 
CHECK_DEADLOCK FALSE

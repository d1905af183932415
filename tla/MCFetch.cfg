CONSTANTS
    Urls = {"u1", "u2", "port", "scheme"}
    Sound = {"u1", "u2", "port"}
    PortPermitted = {"u1", "u2", "scheme"}
    Addresses = {"public1", "public2", "cluster"}
    Permitted = {"public1", "public2"}
    HeaderSizes = {0, 1, 2}
    BodySizes = {0, 2, 3}
    MAX_REDIRECTS = 2
    MAX_HEADER_BYTES = 3
    MAX_WIRE_BYTES = 2
    Deadline = 2
    MaxLookup = 1
    None = None
SPECIFICATION Spec
INVARIANT TypeOK
INVARIANT ConnectionsAreApproved
INVARIANT LimitsAreCumulative
INVARIANT FetchedDescribesLastHop
INVARIANT OverrunIsOneLookup
PROPERTY FetchEnds
CHECK_DEADLOCK FALSE

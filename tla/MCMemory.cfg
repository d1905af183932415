CONSTANTS
    Stores = {"s1"}
    Stray = "stray"
    Contents = {"c1", "c2"}
    Blank = "blank"
    Authors = {"alice", "bob"}
    Titles <- MCTitles
    TitleOf <- OwnTitles
    LastDay = 1
    Threads = {t1, t2}
    Varied = {t2}
    Sharings <- MCSharings
    MaxFaults = 1
    None = None
SPECIFICATION Spec
INVARIANT TypeOK
INVARIANT CommitsAreWhole
INVARIANT CreatedIsCommitted
INVARIANT ReadersMissNothing
PROPERTY ImplementsContract
PROPERTY RequestsEnd
CHECK_DEADLOCK FALSE

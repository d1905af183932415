CONSTANTS
    Stores = {"s1"}
    Stray = "stray"
    Contents = {"c1", "c2"}
    Blank = "blank"
    Authors = {"alice", "bob"}
    Titles <- MCTitles
    TitleOf <- SameTitle
    LastDay = 0
    Threads = {t1, t2}
    Varied = {}
    Sharings <- MCSharings
    MaxFaults = 0
    None = None
SPECIFICATION Spec
PROPERTY NothingIsEdited
CHECK_DEADLOCK FALSE

CONSTANTS
    Stores = {"s1"}
    Stray = "stray"
    Contents = {"c1", "c2"}
    Blank = "blank"
    Authors = {"alice", "bob"}
    Titles <- MCTitles
    TitleOf <- OwnTitles
    LastDay = 0
    Threads = {t1, t2}
    Varied = {}
    Sharings <- MCSharings
    MaxFaults = 1
    None = None
SPECIFICATION Spec
INVARIANT DrainFinishesWrites
CHECK_DEADLOCK FALSE

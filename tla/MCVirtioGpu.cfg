CONSTANTS
    t1 = t1  t2 = t2
    Size = 4
    Wrap = 8
    Threads = {t1, t2}
    MaxFrame = 1
    None = None
SPECIFICATION FairSpec
INVARIANTS CommandsSound RefreshShowsFrame
PROPERTIES OverlookedByTwo CommandReturns
CHECK_DEADLOCK FALSE

CONSTANTS
    t1 = t1  t2 = t2
    Size = 3
    Wrap = 3
    N = 2
    T <- MCT
    Threads = {t1, t2}
    Draining = {t1}
    Pollers = {t2}
    Polls <- MCPolls
    ClockWrap = 3
    MaxElapsed = 2
    MaxKeys = 3
    ReadSizes = {2}
    None = None
SPECIFICATION FairSpec
INVARIANTS BuffersSound EventsInOrder
PROPERTIES PollTimesOut KeysArrive
CHECK_DEADLOCK FALSE

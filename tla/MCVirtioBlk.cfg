CONSTANTS
    s1 = s1  s2 = s2  f1 = f1  f2 = f2
    Size = 3
    Wrap = 6
    Tickets = {1, 2}
    Sectors = {s1, s2}
    Frames = {f1, f2}
    MaxAbandoned = 2
    None = None
SPECIFICATION FairSpec
INVARIANTS RequestsSound ReadsRightSector
PROPERTY ReadReturns
CHECK_DEADLOCK FALSE

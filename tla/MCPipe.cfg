CONSTANTS
    r = r  w = w  x = x  b0 = b0  b1 = b1
    N = 3
    T = {b0, b1}
    Threads = {r, w, x}
    None = None
    NonBlocking = {x}
    Draining = {r}
    MaxSize = 2
    MaxSent = 4
SPECIFICATION FairSpec
PROPERTIES ChannelSpec BytesArrive
CHECK_DEADLOCK FALSE

CONSTANTS
    N = 3
    T = {"nl", "cr", "del"}
    LineSize = 2
    EchoSize = 1
    Settings <- MixedSettings
    Sizes = {1, 3}
    MaxLines = 3
SPECIFICATION FairSpec
INVARIANTS IInv BlockingReadDelivers
PROPERTY LineWakesReader
CHECK_DEADLOCK FALSE

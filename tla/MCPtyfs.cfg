CONSTANTS
    MaxPtys = 2
    MaxOpens = 3
SPECIFICATION Spec
INVARIANTS PairsSound OpenFilesHaveDevice

CONSTANTS
    Names = {n1, n2}
    NoName = NoName
    Slots = 2
    BLOCK_SIZE = 2
    Capacity = 4
    Modulus = 16
    Fds = {f1, f2}
    Writes <- MCWrites
    Sizes = {3}
    Offsets <- MCOffsets
SPECIFICATION Spec
INVARIANTS MemoryAccounted ListingComplete
PROPERTY FilesSpec

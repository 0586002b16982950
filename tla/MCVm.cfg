CONSTANTS
    p1 = p1
    p2 = p2
    Procs <- MCProcs
    Registers <- MCRegisters
    SbrkSizes <- MCSbrkSizes
    Programs <- MCPrograms
    MmapVas <- MCMmapVas
    Frames = 22
    MaxCalls = 4
    HeapSlots = 2
    Chunk = 2
SPECIFICATION Spec
INVARIANTS MemorySound Isolation KernelAreaAgrees ActiveTableIntact
PROPERTIES ForkMapsTheSame
SYMMETRY MCSymmetry
CHECK_DEADLOCK FALSE

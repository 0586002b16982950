CONSTANTS
    SectorSize = 3
    SectorCount = 18
    Offsets <- MCOffsets
    Sizes <- MCSizes
    Media <- MCMedia
    None = None
    RsvdSecCnt = 3
    FATSz32 = 3
    SecPerClus = 2
    BootSignature = 103
    InfoSignature = 106
    EndOfChain = 510
    SectorWrap = 1024
    EndOfDir = 0
    DirEntry <- MCDirEntry
    Names <- MCNames
    FileOffsets <- MCFileOffsets
    FileSizes <- MCFileSizes
    Counts <- MCCounts
    MaxCalls = 3
SPECIFICATION Spec
INVARIANTS TransfersSound CacheHonest ReadsFile DirectoryAnswers
CHECK_DEADLOCK FALSE

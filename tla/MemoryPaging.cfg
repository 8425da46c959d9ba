CONSTANTS
    FileTags <- OneTag
    Protected <- Base
    Bytes = {"0", "1"}
    Zero = "0"
    PageSize = 2
    MaxBlocks = 2
    FrameCount = 2
    Policies = {"LRU", "CLOCK_M"}
    StorageFull = TRUE
    Bases = {1, 2}
    MaxAccess = 2
    Careless = {}
    NoFile = NoFile
    NoFrame = NoFrame
    Idle = Idle
SPECIFICATION FairSpec
INVARIANTS
    TypeOK
    FramesExclusive
    CleanMatches
    CommittedFlushed
PROPERTIES
    ImplementsFileStore
    WritesExact
    InstructionEnds

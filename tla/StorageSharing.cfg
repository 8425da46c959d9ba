CONSTANTS
    FileTags <- OneFile
    Protected <- Base
    Contents = {"zero", "x"}
    Zeros = "zero"
    MaxBlocks = 2
    PhysicalBlocks = 4
    BitmapBits = 5
    ChangeCommitted = FALSE
    NoFile = NoFile
    NoBlock = NoBlock
SPECIFICATION MCSpec
INVARIANTS
    TypeOK
    BlocksAccounted
    LinksExact
    IndexExact
PROPERTIES
    CommittedUnchanged
    ImplementsFileStore

CONSTANTS
    FileTags <- OneFile
    Protected <- Base
    Contents = {"zero", "x"}
    Zeros = "zero"
    MaxBlocks = 2
    PhysicalBlocks = 5
    BitmapBits = 5
    ChangeCommitted = TRUE
    NoFile = NoFile
    NoBlock = NoBlock
SPECIFICATION MCSpec
PROPERTIES
    CommitKeepsData

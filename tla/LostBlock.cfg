CONSTANTS
    w1 = w1
    w2 = w2
    Workers = {w1, w2}
    Deployments <- OnlyApart
    MaxStops = 0
    StopsBeside = FALSE
    FreesRace = TRUE
    Free = Free
    Waiting = Waiting
    FileTags <- OneFile
    Protected <- Base
    Contents = {"zero", "x"}
    Zeros = "zero"
    MaxBlocks = 1
    PhysicalBlocks = 3
    BitmapBits = 4
    ChangeCommitted = FALSE
    NoFile = NoFile
    NoBlock = NoBlock
SPECIFICATION ThreadsSpec
INVARIANTS
    BlocksKept

CONSTANTS
    w1 = w1
    w2 = w2
    Workers = {w1, w2}
    Deployments <- AloneOrApart
    MaxStops = 1
    StopsBeside = FALSE
    FreesRace = FALSE
    Free = Free
    Waiting = Waiting
    FileTags <- OneFile
    Protected <- Base
    Contents = {"zero", "x"}
    Zeros = "zero"
    MaxBlocks = 1
    PhysicalBlocks = 3
    BitmapBits = 4
    ChangeCommitted = FALSE
    NoFile = NoFile
    NoBlock = NoBlock
SPECIFICATION ThreadsSpec
INVARIANTS
    BlocksKept
    MutexesReleased
    QuietDiskExact
PROPERTIES
    CommittedKept
    RequestsAtomic

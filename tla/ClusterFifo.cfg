CONSTANTS
    q1 = q1
    q2 = q2
    w1 = w1
    w2 = w2
    NoQuery = NoQuery
    NoWorker = NoWorker
    Queries = {q1, q2}
    Workers = {w1}
    Quitters = {}
    Crashers = {}
    Fallible = {w1}
    InOrder = TRUE
    Algorithm = "FIFO"
    MaxPriority = 0
    ProgramLength = 1
    MaxIntervals = 1
SPECIFICATION FairSpec
CHECK_DEADLOCK FALSE
INVARIANTS
    AssignmentKept
    ReadyByArrival
    WorkConserving
PROPERTIES
    EveryQueryEnds

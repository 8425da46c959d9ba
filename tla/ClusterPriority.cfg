CONSTANTS
    q1 = q1
    q2 = q2
    w1 = w1
    w2 = w2
    NoQuery = NoQuery
    NoWorker = NoWorker
    Queries = {q1, q2}
    Workers = {w1, w2}
    Quitters = {}
    Crashers = {w1}
    Fallible = {}
    InOrder = TRUE
    Algorithm = "PRIORITY"
    MaxPriority = 1
    ProgramLength = 1
    MaxIntervals = 1
SPECIFICATION Spec
CHECK_DEADLOCK FALSE
SYMMETRY Alike
INVARIANTS
    TypeOK
    ExecutesInOrder
    ExecutesOnce
    PcPreserved

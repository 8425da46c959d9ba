CONSTANTS
    q1 = q1
    q2 = q2
    w1 = w1
    w2 = w2
    NoQuery = NoQuery
    NoWorker = NoWorker
    Queries = {q1, q2}
    Workers = {w1}
    Quitters = {}
    Crashers = {}
    Fallible = {}
    InOrder = TRUE
    Algorithm = "PRIORITY"
    MaxPriority = 1
    ProgramLength = 1
    MaxIntervals = 1
SPECIFICATION Spec
CHECK_DEADLOCK FALSE
INVARIANTS
    AssignmentKept

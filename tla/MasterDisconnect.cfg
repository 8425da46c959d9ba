CONSTANTS
    q1 = q1
    q2 = q2
    w1 = w1
    w2 = w2
    NoQuery = NoQuery
    NoWorker = NoWorker
    Queries = {q1, q2}
    Workers = {w1, w2}
    Quitters = {q1, q2}
    Crashers = {w1, w2}
    Fallible = {}
    InOrder = FALSE
    Algorithm = "PRIORITY"
    MaxPriority = 1
    ProgramLength = 0
    MaxIntervals = 1
SPECIFICATION Spec
CHECK_DEADLOCK FALSE
SYMMETRY Alike
INVARIANTS
    QueryTables
    WorkerTables
    EndReported
    RunningHasWorker
    SingleExecution

CONSTANTS
    q1 = q1
    q2 = q2
    w1 = w1
    w2 = w2
    NoQuery = NoQuery
    NoWorker = NoWorker
    Queries = {q1, q2}
    Workers = {w1, w2}
    Quitters = {}
    Crashers = {}
    Fallible = {w1}
    InOrder = TRUE
    Algorithm = "PRIORITY"
    MaxPriority = 1
    ProgramLength = 1
    MaxIntervals = 1
SPECIFICATION Spec
CHECK_DEADLOCK FALSE
INVARIANTS
    TypeOK
    EndReported
    SingleExecution
    PcPreserved
    PreemptOnce
    ReadyByPriority

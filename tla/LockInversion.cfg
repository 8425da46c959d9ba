CONSTANTS
    c1 = c1
    c2 = c2
    w1 = w1
    w2 = w2
    aging = aging
    QueryThreads = {c1, c2}
    WorkerThreads = {w1, w2}
    AgingThreads = {aging}
    Cancellers = {c1}
SPECIFICATION Spec
INVARIANTS
    NoCircularWait

SPECIFICATION Spec
CONSTANTS
    Workers = {w1, w2, w3}
    MinThreadNum = 1
    MaxTaskQueueSize = 2
    Producers = {p1, p2}
    Tasks = {t1, t2, t3, t4}
    NoTask = NoTask
    CreateFails = FALSE
    SpuriousWakeups = TRUE
SYMMETRY Symmetric
INVARIANTS
    TypeInv
    QueueFifo
    LiveExact
    MinKeptAlive
    NoWorkerOnFreedPool
    NoStrandedProducer

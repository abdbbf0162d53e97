SPECIFICATION FairSpec
CONSTANTS
    Workers = {w1, w2}
    MinThreadNum = 2
    MaxTaskQueueSize = 1
    Producers = {p1, p2}
    Tasks = {t1, t2, t3}
    NoTask = NoTask
    CreateFails = TRUE
    SpuriousWakeups = TRUE
INVARIANT NoStrandedTask
PROPERTIES AcceptedTasksAreTaken DestroyReturns BlockedProducersReturn

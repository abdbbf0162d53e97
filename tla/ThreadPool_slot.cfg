SPECIFICATION Spec
CONSTANTS
    Workers = {w1, w2}
    MinThreadNum = 2
    MaxTaskQueueSize = 1
    Producers = {p1}
    Tasks = {t1, t2}
    NoTask = NoTask
    CreateFails = FALSE
    SpuriousWakeups = FALSE
INVARIANT RunsTheTaskTaken

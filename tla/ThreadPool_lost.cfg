SPECIFICATION FairSpec
CONSTANTS
    Workers = {w1, w2}
    MinThreadNum = 1
    MaxTaskQueueSize = 1
    Producers = {p1}
    Tasks = {t1, t2, t3}
    NoTask = NoTask
    CreateFails = FALSE
    SpuriousWakeups = FALSE
PROPERTY AcceptedTasksAreTaken

SPECIFICATION Spec
CONSTANTS
    SysvTypes = {0, 1, 2, 3, 4}
    SysvCapacity = 2
    SysvSends = 3
    PosixMax = 2
    PosixPriorities = {0, 1}
    PosixInputs = 4
    RingBlocks = 2
    RingPuts = 5
    MutexBound1 = 3
    MutexBound2 = 6
    SemRounds = 4
    SemSignals = 2
    ChatClients = {c1, c2}
    ChatListnum = 2
    ChatCrashes = 1
    none = none
PROPERTY
    QidSurvives
CHECK_DEADLOCK FALSE

SPECIFICATION ContainersSpec
CONSTANTS
    Items = {x, y}
    Producers = {p1, p2}
    Consumers = {c1, c2}
    Addrs = {a1, a2, a3, a4}
    node = a1
    Size = 3
    Wild = Wild
    PoolSize = 5
    Bytes = {b1, b2}
    NoByte = NoByte
    MaxBlock = 5
    k1 = k1
    k2 = k2
    k3 = k3
    k4 = k4
    Keys = {k1, k2, k3, k4}
    Vals = {NULL, v1}
    NULL = NULL
    Absent = Absent
    Hash <- MCHash
    DictMinSz = 2
    MaxSize = 4
INVARIANTS
    ChainSound
    NoStrandedConsumer
    MirrorsAgree
    CountExact
    InsertTerminates
    KeysUnique
PROPERTIES
    ImplementsFifo
    ImplementsByteFifo
    ImplementsKeyMap
\* A program that used freed memory has no defined next step.
CHECK_DEADLOCK FALSE

SPECIFICATION Spec
CONSTANTS
    PoolSize = 5
    Bytes = {b1, b2}
    NoByte = NoByte
    MaxBlock = 3
PROPERTY ForceDiscardsOldData

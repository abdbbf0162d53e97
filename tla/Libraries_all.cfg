SPECIFICATION LibrariesSpec
CONSTANTS
    TimerIds = {t1, t2, t3}
    Nodes = {a1, a2, a3}
    head = head
    NULL = NULL
    FREE = FREE
    MaxSec = 2
    ListSet = {l1, l2}
    DeviceSet = {d1, d2}
    ListCalls = 6
    ListNodes = {n1, n2, n3}
    MaxValue = 4
    MaxText = 4
    Second = 2
    Era = 16
    Jan1970 = 11
    TIMEOUT = 3
    Starts = {9, 26}
    Clocks = {1, 8, 24, 31}
    MaxTicks = 7
    MaxCalls = 6
    RichTokens = 6
    PoorTokens = 9
    MaxLexemes = 3
    MaxChars = 6
SYMMETRY Symmetry
INVARIANTS
    TimersListed
    SavedIsLoaded
    ListIsTable
    ClockSetRight
    ParserExact
    CopiesCompareEqual
    RoundTrip
    PrintSafe
    LiteralsExact
    MinifyExact
PROPERTIES
    RoundComplete
    MemorySound
CHECK_DEADLOCK FALSE

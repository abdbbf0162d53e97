SPECIFICATION Spec
CONSTANTS
    Files <- MCOneFile
    Mem = {"MEM"}
    Keys <- MCKeys
    Values <- MCLongValues
    Default <- MCDefault
    Padding = 2
    Timers = {"timer"}
    NULL = NULL
PROPERTY SavedComesBack

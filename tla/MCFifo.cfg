SPECIFICATION LiveSpec
CONSTANTS
    Threads = {t1, t2, t3}
    Cells = {c1, c2, c3}
    NULL = NULL
    MaxItems = 3
    MaxUInt = 3
    MaxRaces = 1
    MaxTaken = 3
INVARIANTS ListIsWellFormed FirstInFirstOut EnoughAwake
PROPERTIES BlockedRetrieverServed

\* Three callers, two projects of one file.
SPECIFICATION FairSpec
CONSTANTS
    t1 = t1
    t2 = t2
    t3 = t3
    lib = lib
    None = None
    Threads <- MCThreads
    Keys <- MCKeys
    Files <- MCFiles
    ReadBy <- MCReadBy
    MaxWrites = 1
    MaxGets = 3
    MaxClears = 1
INVARIANTS TypeOK SingleFlight NobodyForgotten
PROPERTIES Implements GetsReturn

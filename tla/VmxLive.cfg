SPECIFICATION FairSpec
CONSTANTS
    a = a
    b = b
    c = c
    sem = sem
    NULL = NULL
    Tasks = {a, b}
    Sems = {sem}
    FifoSems <- All
    MaxTimeout = 2
    Priorities = {1}
    RoundRobinSlice = 2
    MaxLock = 0
    SemType <- Binary
    DeleteSafe <- None
    MaxCount = 0
    MaxRecurse = 0
    UnsignedMax = 7
    MaxSafe = 0
    InitialPriority <- Equal
    TaskCalls = {"take", "give", "delay"}
    IsrCalls = {"tick", "give"}
    MaxWork = 1
PROPERTIES
    DelayEnds
    TurnComes

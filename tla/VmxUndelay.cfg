SPECIFICATION Spec
CONSTANTS
    a = a
    b = b
    c = c
    sem = sem
    NULL = NULL
    Tasks = {a, b}
    Sems = {sem}
    FifoSems <- None
    MaxTimeout = 2
    Priorities = {1, 2}
    RoundRobinSlice = 0
    MaxLock = 0
    SemType <- Binary
    DeleteSafe <- None
    MaxCount = 0
    MaxRecurse = 0
    UnsignedMax = 7
    MaxSafe = 0
    InitialPriority <- Urgent
    TaskCalls = {"delay", "undelay"}
    IsrCalls = {"tick"}
    MaxWork = 1
INVARIANTS
    TickQMatches

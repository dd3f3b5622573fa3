SPECIFICATION Spec
CONSTANTS
    a = a
    b = b
    c = c
    sem = sem
    NULL = NULL
    Tasks = {a, b}
    Sems = {sem}
    FifoSems <- None
    MaxTimeout = 1
    Priorities = {1, 2}
    RoundRobinSlice = 0
    MaxLock = 0
    SemType <- Mutex
    DeleteSafe <- None
    MaxCount = 0
    MaxRecurse = 0
    UnsignedMax = 7
    MaxSafe = 0
    InitialPriority <- Urgent
    TaskCalls = {"take", "takeNoWait", "delay"}
    IsrCalls = {"tick"}
    MaxWork = 1
INVARIANTS
    CallsUnlock

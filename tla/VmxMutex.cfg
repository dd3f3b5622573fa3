SPECIFICATION Spec
CONSTANTS
    a = a
    b = b
    c = c
    sem = sem
    NULL = NULL
    Tasks = {a, b, c}
    Sems = {sem}
    FifoSems <- None
    MaxTimeout = 1
    Priorities = {1, 2}
    RoundRobinSlice = 0
    MaxLock = 0
    SemType <- Mutex
    DeleteSafe <- All
    MaxCount = 0
    MaxRecurse = 1
    UnsignedMax = 7
    MaxSafe = 1
    InitialPriority <- Urgent
    TaskCalls = {"take", "giveM", "destroy", "delay", "delete"}
    IsrCalls = {"tick", "give"}
    MaxWork = 1
INVARIANTS
    TakeTellsOwner
    SafeCountBalanced
    OneKiller
    DeleterHasReason

SPECIFICATION Spec
CONSTANTS
    a = a
    b = b
    c = c
    sem = sem
    NULL = NULL
    Tasks = {a, b}
    Sems = {sem}
    FifoSems <- None
    MaxTimeout = 1
    Priorities = {1, 2}
    RoundRobinSlice = 0
    MaxLock = 1
    SemType <- Mutex
    DeleteSafe <- All
    MaxCount = 0
    MaxRecurse = 0
    UnsignedMax = 3
    MaxSafe = 0
    InitialPriority <- Urgent
    TaskCalls = {"take", "giveM", "takeNoWait", "suspend", "delay", "destroy", "force"}
    IsrCalls = {"tick", "suspend", "resume"}
    MaxWork = 1
INVARIANTS
    QueuesMatchStatus
    HighestRuns

SPECIFICATION Spec
CONSTANTS
    a = a
    b = b
    c = c
    sem = sem
    NULL = NULL
    Tasks = {a, b, c}
    Sems = {sem}
    FifoSems <- None
    MaxTimeout = 2
    Priorities = {1, 2}
    RoundRobinSlice = 0
    MaxLock = 0
    SemType <- Counting
    DeleteSafe <- None
    MaxCount = 1
    MaxRecurse = 0
    UnsignedMax = 7
    MaxSafe = 0
    InitialPriority <- Urgent
    TaskCalls = {"take", "give", "flush", "delete", "priority"}
    IsrCalls = {"tick", "give", "flush"}
    MaxWork = 1
INVARIANTS
    TypeOK
    NoJobLeft
    JobTargetsAlive
    QueuesSorted
    NoNeedlessWait
SYMMETRY Interchangeable

SPECIFICATION Spec
CONSTANTS
    a = a
    b = b
    c = c
    NULL = NULL
    Tasks = {a, b, c}
    Sems = {"free", "msg"}
    FifoSems <- None
    MaxTimeout = 1
    Priorities = {1, 2}
    RoundRobinSlice = 0
    MaxLock = 1
    Nodes = {n1, n2}
    Data = {x, y}
    InitialPriority <- Urgent
    MaxWork = 1
INVARIANTS
    Consistent
    NobodyForgotten
    GatherComplete
PROPERTIES
    KeepsMessages
SYMMETRY Interchangeable

SPECIFICATION Spec
CONSTANTS
    a = a
    b = b
    c = c
    pipe = pipe
    disk = disk
    exc = exc
    NULL = NULL
    Tasks = {a, b, c}
    Selecting = {a, b}
    Victims = {b}
    Pipes = {pipe}
    Plain = {disk}
    Requests <- Some
    MaxMsg = 1
    EXC_MAX_MSGS = 1
INVARIANTS
    NodesOfLiveTasks
CHECK_DEADLOCK FALSE

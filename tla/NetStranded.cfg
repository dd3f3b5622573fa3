SPECIFICATION Spec
CONSTANTS
    Senders = {s}
    Readers = {r}
    netTask = netTask
    Timers = {slow}
    NodeSize = 2
    Nodes = 2
    ifq_maxlen = 2
    sb_max = 1
    MaxBurst = 2
    MaxReplies = 1
    NULL = NULL
INVARIANTS
    NoStrandedPacket

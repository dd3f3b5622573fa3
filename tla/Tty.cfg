SPECIFICATION Spec
CONSTANTS
    ReadSize = 4
    WriteSize = 2
    MaxLine = 2
    XoffTreshold = 1
    XonTreshold = 1
    WriteTreshold = 1
    Chars = {"plain", "newline", "backspace", "xoff"}
    CharCode = 3
    AllOptions <- SomeOptions
    ReadLens = {1}
    WriteLens = {2}
    reader = reader
    writer = writer
    NULL = NULL
INVARIANTS
    Consistent
    NobodyStuck
    TransmitterSafe
    PeerIsReleased

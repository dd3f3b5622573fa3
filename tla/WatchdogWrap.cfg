SPECIFICATION Spec
CONSTANTS
    own = own
    any = any
    Wds = {own, any}
    Private = {own}
    Delays = {1, 2}
    WORD = 4
    MaxTicks = 2
    MaxWork = 2
    MaxFrames = 5
INVARIANTS
    NotEarly

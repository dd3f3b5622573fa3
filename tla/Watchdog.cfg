SPECIFICATION Spec
CONSTANTS
    own = own
    any = any
    Wds = {own, any}
    Private = {own}
    Delays = {0, 2}
    WORD = 16
    MaxTicks = 2
    MaxWork = 2
    MaxFrames = 5
INVARIANTS
    Consistent
    NotEarly
    NotLate
    CalledAsAsked
    DeletedIsUnused

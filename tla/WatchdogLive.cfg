SPECIFICATION FairSpec
CONSTANTS
    own = own
    any = any
    Wds = {any}
    Private = {}
    Delays = {2}
    WORD = 16
    MaxTicks = 2
    MaxWork = 2
    MaxFrames = 4
PROPERTIES
    StartsAreCalled

CONSTANTS
    Size = 2
    MaxPush = 4
    InterruptiblePop = TRUE
    None = None

SPECIFICATION Spec

INVARIANT FifoPops

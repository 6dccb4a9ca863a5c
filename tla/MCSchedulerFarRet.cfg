CONSTANTS
    term = term
    w1 = w1
    Terminal <- term
    Workers <- MCWorkers
    BootOrder <- MCBootOrder
    Idle = Idle
    Boot = Boot
    NoTask = NoTask
    NoScancode = NoScancode
    KbdCap = 2
    MaxKeys = 1

SPECIFICATION Spec


INVARIANT RegistersRestored

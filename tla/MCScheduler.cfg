CONSTANTS
    term = term
    w1 = w1
    Terminal <- term
    Workers <- MCWorkers
    BootOrder <- MCBootOrder
    Idle = Idle
    Boot = Boot
    NoTask = NoTask
    NoScancode = NoScancode
    KbdCap = 2
    MaxKeys = 4

SPECIFICATION Spec

INVARIANT TypeOK
INVARIANT NoLostWakeup
INVARIANT TaskAccounting
INVARIANT CpuRunsCurrent
INVARIANT PopsDistinct

 
PROPERTY ParkedTerminalWoken
PROPERTY ReadyTaskRuns

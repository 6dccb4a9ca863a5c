CONSTANTS
    UseTsc = TRUE
    Default = 4
    Quantum = 3
    Script <- ApiScript
    KbdWakes = 2
    KbdAnywhere = FALSE
    None = None

SPECIFICATION Spec

INVARIANT TypeOK
INVARIANT TimerCoversAlarms
PROPERTY WaitReturns

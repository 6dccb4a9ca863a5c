CONSTANTS
    UseTsc = FALSE
    Default = 4
    Quantum = 3
    Script <- BspScript
    KbdWakes = 2
    KbdAnywhere = FALSE
    None = None

SPECIFICATION Spec

INVARIANT RuntimeNeverAhead

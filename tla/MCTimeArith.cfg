CONSTANT TicksPerMs = 2000000
SPECIFICATION Spec
INVARIANTS
    AddAgrees
    SubAgrees
    FromUnitsAgree
    TicksNotLate

CONSTANT TicksPerMs = 6000
SPECIFICATION Spec
INVARIANT TicksNotLate

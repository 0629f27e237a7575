SPECIFICATION Spec
CONSTANTS
    HasFallback = TRUE
    MaxWork = 1
    MaxPending = 3
    MaxStarts = 1
INVARIANTS
    MainStopsFallback

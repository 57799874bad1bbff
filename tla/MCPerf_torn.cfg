SPECIFICATION Spec
CONSTANTS
    Tasks = {t1, t2}
    None = None
    Range = 64
    MaxTime = 4
    MaxNest = 2
    MaxCalls = 2
INVARIANT LineOfSamples
CHECK_DEADLOCK FALSE

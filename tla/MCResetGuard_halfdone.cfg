SPECIFICATION Spec
CONSTANTS
    g1 = g1
    g2 = g2
    f1 = f1
    Guards <- TwoGuards
    Foreign <- OneForeign
    None = None
    Rom = Rom
    EarlyReset = FALSE
CHECK_DEADLOCK FALSE
INVARIANT
    DoneAfterPrepare

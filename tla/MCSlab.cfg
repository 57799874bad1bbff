SPECIFICATION Spec
CONSTANTS
    Configs <- MCConfigs
    PtrSize = 2
    Line = 4
    DefaultSize = 12
    MaxSlabs = 2
    Area <- MCArea
    Space = 40
    LongSize = 2
    BlockSize = 4
    Junk = Junk
INVARIANTS
    FreeListExact
    ObjectsApart

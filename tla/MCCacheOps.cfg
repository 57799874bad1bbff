SPECIFICATION Spec
CONSTANTS
    Buffers <- TwoBuffers
    Neighbours <- SecondSizeWord
    Values = {0, 1}
    Any = Any
    PtrSize = 1
    LongSize = 1
    BlockSize = 1
    Line = 2
INVARIANTS
    CpuSeesDevice
    DeviceSeesCpu
    NeighbourKept

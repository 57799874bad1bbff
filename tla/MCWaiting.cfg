SPECIFICATION MCSpec
CONSTANTS
    t1 = t1
    t2 = t2
    t3 = t3
    Tasks <- ThreeTasks
    Nobody = Nobody
    MsPerSec = 2
    MaxMs = 3
    MixSleep = FALSE
INVARIANTS
    NoLostWakeup
    FreedBitClean
    RequestOnLiveStack
    CollectNeverBlocks
    TruthfulReturn
    TickIsCompleted
    TimeoutMeansElapsed
PROPERTIES
    AbsSpec
    TimerCallsReturn

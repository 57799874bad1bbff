SPECIFICATION Spec
CONSTANTS
    Cell = 16
    Buses <- MCBuses
    MapCalls <- MCMapCalls
    NodeCalls <- MCNodeCalls
    Missing = Missing
    SPI = 4
    PPI = 2
    Trees <- MCTrees
    MemLists <- MCMemLists
    MaxRegions = 2
    ChipEnd = 1
INVARIANTS
    MapExact
    WindowIsRecord
    LookupExact
    RegionsExact
    ReachableExact
CHECK_DEADLOCK FALSE

SPECIFICATION FairSpec
CONSTANTS
    p1 = p1
    p2 = p2
    w1 = w1
    w2 = w2
    Parents <- TwoParents
    Workers <- TwoWorkers
    None = None
    Interactive = {}
PROPERTY
    CallsReturn

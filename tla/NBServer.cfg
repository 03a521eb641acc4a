CONSTANTS
    k1 = k1  k2 = k2  o1 = o1  o2 = o2  w1 = w1
    None = None
    Conns = {k1, k2}
    Objects = {o1, o2}
    NumIOThreads = 2
    Workers = {w1}
    PipeSize = 3
    StackLimit = 1
    MaxProcessors = 0
    MaxConnections = 2
    Hysteresis = 8
    Configurations <- MCConfigurations
    MaxRequests = 1
    Faults = {"notify", "context", "refused", "expired", "frame"}
SPECIFICATION FairSpec
INVARIANTS OneHolder CountersExact OwnReply
PROPERTIES RequestAnswered StopEndsServe
CHECK_DEADLOCK FALSE

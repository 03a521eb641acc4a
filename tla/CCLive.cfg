CONSTANTS
    p1 = p1
    p2 = p2
    p3 = p3
    None = None
    Threads = {p1, p2, p3}
    OnewayCallers = {p1}
    MaxCalls = 1
    SeqMin <- MCSeqMin
    SeqMax <- MCSeqMax
    FirstSeqId = 2
    MONITOR_CACHE_SIZE = 1
    Faults = {"write", "close", "body", "type", "stray"}
    StraySeqIds = {99}
SPECIFICATION FairSpec
INVARIANTS CallsDistinct OwnReply SomeoneReads
PROPERTIES EveryCallReturns
CHECK_DEADLOCK FALSE

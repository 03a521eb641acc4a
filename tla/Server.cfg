CONSTANTS
    k1 = k1  k2 = k2
    Serve = Serve
    None = None
    Conns = {k1, k2}
    Addresses = {1, 2}
    ServerKinds = {"simple", "threaded", "pool"}
    Limits = {1, 2}
    FirstLimit = 1
    PoolWorkers = 1
    PoolQueue = 1
    Faults = {"accept", "setup", "start"}
SPECIFICATION FairSpec
INVARIANTS ClientCountExact LimitRespected NoThreadForgotten ServePostcondition
PROPERTIES StopEndsServe
CHECK_DEADLOCK FALSE

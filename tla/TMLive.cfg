CONSTANTS
    w1 = w1  w2 = w2  c1 = c1  c2 = c2  a1 = a1
    t1 = t1  t2 = t2  t3 = t3  r1 = r1  r2 = r2
    NoThread = NoThread
    NoTask = NoTask
    Workers = {w1, w2}
    Callers = {c1, c2}
    Admins = {a1}
    AdminCalls <- OneAdmin
    Removers = {}
    Sweepers = {}
    SweepsAlone = TRUE
    Tasks = {t1, t2, t3}
    Runnables = {r1, r2}
    RunnableOf <- MCRunnableOf
    Expiring = {}
    Timeouts = {"forever"}
    PendingTaskCountMax = 1
    ExpireCallback = TRUE
    SizeMax = 15
SPECIFICATION FairSpec
PROPERTIES PendingTaskIsTaken CallsReturn StopDrainsQueue
CHECK_DEADLOCK FALSE

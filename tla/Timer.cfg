CONSTANTS
    u1 = u1  u2 = u2  m1 = m1  m2 = m2  m3 = m3  r1 = r1  r2 = r2
    Dispatcher = Dispatcher
    None = None
    Users = {u1, u2}
    Timers = {m1, m2}
    Runnables = {r1}
    Times = {1, 2, 3}
    MaxClock = 5
    MS = 2
SPECIFICATION FairSpec
INVARIANTS TypeOK CountMatchesMap NeverOversleeps StoppedIsQuiet
PROPERTIES CallsReturn TimersFire

SPECIFICATION Spec
CONSTANTS
    ChunkSize = 10
    ReadBuffSize = 7
    MaxEventSize = 0
    MaxCorruptedEvents = 0
    Lengths <- AllLengths
    MaxWrites = 2
    MaxFlushes = 0
    MaxRestarts = 1
    MaxFaults = 1
    Faults = {"power"}
    EventBufferSize = 1
    FlushMaxBytes = 10
    ReadTimeouts = {"tail"}
    ReadLengths = {3}
INVARIANT PartialEventsDiscarded
CHECK_DEADLOCK FALSE

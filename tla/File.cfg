SPECIFICATION Spec
CONSTANTS
    ChunkSize = 15
    ReadBuffSize = 5
    MaxEventSize = 0
    MaxCorruptedEvents = 0
    Lengths <- FittingLengths
    MaxWrites = 3
    MaxFlushes = 1
    MaxRestarts = 1
    MaxFaults = 1
    Faults = {"kill", "io"}
    EventBufferSize = 1
    FlushMaxBytes = 5
    ReadTimeouts = {"notail"}
    ReadLengths = {3}
INVARIANTS ReaderFollows
CHECK_DEADLOCK FALSE
PROPERTIES FlushedIsDurable CallsReturn EventsWritten

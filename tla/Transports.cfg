CONSTANTS
    Kinds = {"buffered", "framed"}
    RBufSize = 2
    WBufSize = 2
    DefaultBufferSize = 5
    MaxMessageSize = 3
    MaxFrameSize = 4
    Thresholds = {3, 99}
    NoThreshold = 99
    Pipelined = FALSE
    WriteLengths = {1, 2, 3}
    ReadLengths = {1, 3}
    MaxBytes = 5
SPECIFICATION FairSpec
INVARIANTS BudgetBindsFrame FailuresJustified
PROPERTIES ImplementsStream FlushedArrives
CHECK_DEADLOCK FALSE

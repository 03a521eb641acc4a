CONSTANTS
    Kinds = {"buffered", "framed"}
    RBufSize = 2
    WBufSize = 3
    DefaultBufferSize = 5
    MaxMessageSize = 4
    MaxFrameSize = 5
    Thresholds = {3, 99}
    NoThreshold = 99
    Pipelined = TRUE
    WriteLengths = {2, 3}
    ReadLengths = {1, 4}
    MaxBytes = 6
SPECIFICATION Spec
PROPERTIES ImplementsStream
CHECK_DEADLOCK FALSE

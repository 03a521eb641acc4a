CONSTANTS
    MaxMessageSize = 40
    InitialSize = 2
    MaxBufferSize = 60
    I16Bits = 16
    I32Bits = 20
    I64Bits = 30
    Headers <- MCHeaders
    Fields <- MCFields
    Values <- MCValues
    Lists <- MCLists
    Maps <- MCMaps
    string_limit_ = 3
    container_limit_ = 15
    MaxMessages = 2
    MaxFields = 2
SPECIFICATION Spec
INVARIANTS RoundTrip OnlyLimitsRefuse MessageLeavesNothing
CHECK_DEADLOCK FALSE

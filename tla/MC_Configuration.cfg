SPECIFICATION AllSpec
CONSTANTS
    Writes <- EdgeWrites
    OldImages <- Images
    MaxOps = 2
    MaxFails = 1
    MaxLosses = 1
    MemRequests <- EdgeRequests
    MaxRequests = 3
    CDI_SIZE = 10
INVARIANTS AllTypeOK RequestsAreServed ImageIsUsable
PROPERTY RequestsComplete
CHECK_DEADLOCK FALSE

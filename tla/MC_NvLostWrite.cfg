SPECIFICATION Spec
CONSTANTS
    Writes <- TwoWrites
    OldImages <- Saved
    MaxOps = 2
    MaxFails = 0
    MaxLosses = 0
INVARIANT WritesReachFlash
CHECK_DEADLOCK FALSE

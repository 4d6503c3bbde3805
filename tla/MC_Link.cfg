SPECIFICATION Spec
CONSTANTS
    MaxFrames = 4
    MaxSends = 3
    Standard = {2}
    Overlap = FALSE
    IdDigits = 2
    MaxData = 2
    MaxSent = 4
    Frames <- SomeFrames
    Senders = {"a", "b", "c"}
    Lengths <- FrameCounts
    Tries <- Attempts
    BufferFrames = 3
    RxQueueLength = 3
INVARIANTS TypeOK FramesAreTrue MessagesAreWhole
PROPERTY FramesGetThrough
CHECK_DEADLOCK FALSE

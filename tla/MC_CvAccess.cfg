SPECIFICATION Spec
CONSTANTS
    Bits = 2
    READ_ATTEMPTS = 2
    POWER_ON_SETTLE_MS = 200
    IDLE_RECHECK_STEP_MS = 50
    RECOVERY_MS = 50
    WRITE_HOLD_MS = 100
    IDLE_RECHECKS = 1
    MIN_BACKOFF_MS = 40
    MaxSpurious = 2
    MaxJobs = 2
    SVC_ACK_AVG_SAMPLES = 2
    SVC_ACK_MIN_US = 2
    SVC_ACK_MAX_US = 3
    SVC_ACK_WINDOW_US = 2
    ACK_TAIL_US = 4
    Floor = 1
    Levels = {0, 1, 5}
    Periods = {1, 2}
    MaxBaseline = 3
    MaxSamples = 7
    Reads <- SomeReads
    Long = {1000}
    RING_SIZE = 2
    IndexModulus = 4
    POM_READ_COPIES = 2
    POM_READ_ATTEMPTS = 2
    MaxAir = 2
    MaxReads = 2
    MaxOther = 1
    None = None
    NoData = NoData
    NoValue = NoValue
    FIFO_DEPTH = 4
    Lengths = {1, 2, 3}
    BogusCounts = {0, 1, 3}
    MaxPackets = 3
    MaxReinits = 2
INVARIANTS 
    TypeOK ServiceModeIsTrue AcksAreRecognised ReadsDoNotMix FramedUnlessTorn
PROPERTY AccessesEnd
CHECK_DEADLOCK FALSE

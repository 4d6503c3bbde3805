SPECIFICATION Spec
CONSTANTS
    Addrs = {3}
    Throttles = {5, 129}
    NumGroups = 0
    MaxLocos = 1
    PoolSize = 4
    InputDepth = 1
    HeapCapacity = 2
    OutputDepth = 1
    Repeats = 1
    Railcom = TRUE
    MaxCommands = 3
    MaxTimeouts = 1
INVARIANTS TypeOK HeapHasNoDuplicates HeldSendersAreStill LastThrottleAgrees

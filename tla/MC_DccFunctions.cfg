SPECIFICATION FairSpec
CONSTANTS
    Addrs = {3}
    Throttles = {5}
    NumGroups = 1
    MaxLocos = 1
    PoolSize = 6
    InputDepth = 1
    HeapCapacity = 3
    OutputDepth = 1
    Repeats = 0
    Railcom = FALSE
    MaxCommands = 2
    MaxTimeouts = 0
PROPERTIES FunctionsConverge

SPECIFICATION FairSpec
CONSTANTS
    Addrs = {3}
    Throttles = {5, 129}
    NumGroups = 0
    MaxLocos = 1
    PoolSize = 5
    InputDepth = 1
    HeapCapacity = 2
    OutputDepth = 1
    Repeats = 1
    Railcom = FALSE
    MaxCommands = 2
    MaxTimeouts = 1
PROPERTIES SpeedConverges PipelineFlows

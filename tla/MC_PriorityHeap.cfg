SPECIFICATION Spec
CONSTANTS
    Packets <- MCPackets
    NULL = 0
    Priority <- MCPriority
    Capacity = 7
INVARIANTS TypeOK NoPointerLost HeapOrder
PROPERTY ImplementsPriorityQueue

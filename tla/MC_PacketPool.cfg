SPECIFICATION Spec
CONSTANTS
    Slots = {s1, s2, s3, s4, s5}
    None = None
    InputDepth = 2
    HeapCapacity = 2
    OutputDepth = 2
    Repeats = 1
SYMMETRY SlotSymmetry
INVARIANTS TypeOK PoolOwnership InUseIsCounted

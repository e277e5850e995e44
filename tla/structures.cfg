CONSTANTS
    d1 = d1  d2 = d2
    k1 = k1  k2 = k2  k3 = k3
    o1 = o1  o2 = o2  o3 = o3
    null = null
    Value = {d1, d2}
    Junk = Junk
    FirstAllocation = 2
    MaxSize = 3
    Addresses = {1, 2, 3}
    Assigns = TRUE
    ForcesAfterClear = FALSE
SPECIFICATION Suite
CHECK_DEADLOCK FALSE
INVARIANTS
    TypeOK
    TreesRight
    SearchesRight
    MemoryRight
    GraphsRight
    RangesRight
PROPERTIES
    ImplementsSequence
    TreesChangeOneKey
    SequencesImplemented
    StoresImplemented

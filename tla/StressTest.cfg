\* One worker runs a transaction of three operations and one a transaction of one,
\* on two rows.
SPECIFICATION Spec
CONSTANTS
    Segments = {1, 2}
    Capacity = 2
    Heap = Heap
    NoSegment = NoSegment
    Workers = {v, w}
    Checkpointer = Checkpointer
    Invalidator = Invalidator
    Main = Main
    Keys = {1, 2}
    Addresses = {a1, a2}
    v = v
    w = w
    LoopSize <- OneEach
    OpsPerTxn <- ThreeAndOne
    MaxInvalidations = 2
    MaxFailures = 1
    Null = Null
    NoRow = NoRow
    Gone = Gone
CHECK_DEADLOCK FALSE
INVARIANTS
    DatabaseIsShared
PROPERTIES
    NothingIsDoneTwice ProgramEnds

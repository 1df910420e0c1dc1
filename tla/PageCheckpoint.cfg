\* Two threads in two processes, two pages with one mutex.
SPECIFICATION FairSpec
CONSTANTS
    t1 = t1  t2 = t2
    p1 = p1  p2 = p2
    Nobody = Nobody Nowhere = Nowhere
    Threads = {t1, t2}
    Procs = {p1, p2}
    Home <- OneEach
    N = 2
    MutexCount = 1
    MaxStores = 4
    MaxCheckpoints = 2
INVARIANTS
    CheckpointIsInOrder
PROPERTIES
    SnapshotKept

\* Three threads and four nodes, tags that do not wrap around.  When all calls are made, the
\* system ends.
SPECIFICATION Spec
CONSTANTS
    t1 = t1  t2 = t2  t3 = t3
    NULL = NULL  Nothing = Nothing  NoThread = NoThread
    Threads = {t1, t2, t3}
    Nodes = {1, 2, 3, 4}
    TagModulus = 64
    Values = {1, 2}
    Workloads <- Work
CHECK_DEADLOCK FALSE
INVARIANTS
    NodesAreSound
PROPERTIES
    Linearizable OthersFinish

\* Two processes, two strings of the region and one in a heap, up to three calls.
SPECIFICATION Spec
CONSTANTS
    t1 = t1  t2 = t2  p1 = p1  p2 = p2  r1 = r1  r2 = r2  h = h
    None = None  Region = Region
    Threads = {t1, t2}
    Processes = {p1, p2}
    ProcessOf <- TwoProcesses
    Scoped = {t2}
    Names = {r1, r2, h}
    Place <- RegionAndHeap
    Reps = {1, 2, 3, 4, 5, 6, 7}
    Literals <- Texts2
    Given <- One
    Chars = {1, 2}
    NPos = 1000
    MaxSize = 4
    Spans = {0, 2}
    MaxCalls = 3
    Offset <- Layout
    Base <- TwoBases
    Word = 128
    Stack = {4, 100}
CHECK_DEADLOCK FALSE
INVARIANTS
    SharingDoesNotShow SearchesFindAsSaid PointersAreKept

\* Three transactions in two processes; files that two records fill or go beyond, synchronous and
\* asynchronous logging; one failure of t1 to open a log file or to write
\* to it.
SPECIFICATION FairSpec
CONSTANTS
    p1 = p1  p2 = p2
    t1 = t1  t2 = t2  t3 = t3
    NoTxn = NoTxn
    Txns = {t1, t2, t3}
    Procs = {p1, p2}
    Home <- Home3
    MaxTxnPerWrite = 2
    LogMaxLens = {3}
    Size <- Size3
    Header = 2
    Alignment = 2
    LockOnly = {t2}
    LogSyncs = {TRUE, FALSE}
    MaxOpenFaults = 1
    MaxWriteFaults = 1
ACTION_CONSTRAINT OneFault
INVARIANTS
    LengthsKept
    QueueInOrder
    FilesNamedByLsn
    BufferOwnership
    CommitIsLogged
    DurableUnlessRolledOver
PROPERTIES
    LogIsWriteOnce
    CommitReturns
    Promise

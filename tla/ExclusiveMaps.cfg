\* Two transactions on three rows, two of them there from the start, and a walk;
\* or an exclusive transaction of four calls on two maps.
SPECIFICATION ExclusiveSpec
CONSTANTS
    a = a
    b = b
    Txns = {a, b}
    Keys = {1, 2, 3}
    Recovered <- TwoRecovered
    MaxOps <- TwoAndOne
    NoTxn = NoTxn
    NoValue = NoValue
    Readers = {a, NoTxn}
    MaxWalks = 1
    MaxCalls = 4
INVARIANTS
    WalksShowTheRows RollbackRestoresMaps RecoveredMapsAreCommitted

\* Three transactions on a row that is there and one that is not.
SPECIFICATION Spec
CONSTANTS
    a = a
    b = b
    c = c
    Txns = {a, b, c}
    Keys = {1, 2}
    Recovered <- OneRecovered
    MaxOps <- UnequalLists
    NoTxn = NoTxn
    NoValue = NoValue
INVARIANTS
    RowLocksHold MapIsWhatTheLogSays NoIteratorDangles

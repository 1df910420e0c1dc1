\* Three transactions on a tree of two rows and a key without one.
SPECIFICATION Spec
CONSTANTS
    a = a
    b = b
    c = c
    Txns = {a, b, c}
    Keys = {1, 2, 3}
    FirstKeys = {1, 3}
    MaxOps <- UnequalLists
    NoTxn = NoTxn
    NoNode = NoNode
    NoValue = NoValue
    Halted = Halted
INVARIANTS
    TransactionsAreIsolated LogBringsRowsBack

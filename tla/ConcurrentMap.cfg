\* Two transactions on four rows with two mutexes, three of them recovered.  The process of a may die.
SPECIFICATION FairSpec
CONSTANTS
    a = a  b = b
    Txns = {a, b}
    N = 4
    Picket <- TwoPickets
    Recovered = {1, 3, 4}
    Calls <- SomeCalls
    MaxOps <- TwoEach
    Mortal = {a}
    NoTxn = NoTxn
    NoValue = NoValue
CHECK_DEADLOCK FALSE
INVARIANTS
    RowLocksHold CommitsAreFaithful
PROPERTIES
    IteratorsAreSafe TransactionsEnd

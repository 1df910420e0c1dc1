\* Two containers, one of them with two rows, and three transactions; a crash that may
\* do anything to the record being written, and a second that tears nothing.  The
\* transactions and the crashes are bounded, so the system ends.
SPECIFICATION Spec
CONSTANTS
    a = a  b = b
    t1 = t1  t2 = t2  t3 = t3
    NoTxn = NoTxn NoContainer = NoContainer
    Txns = {t1, t2, t3}
    Containers = {a, b}
    Keys = {1, 2}
    Holder <- Holder1
    Changes <- Erases
    LogMaxLen = 2
    Locations = {1, 2, 3, 4, 5}
    MaxCrashes = 2
    Fates = {"absent", "whole", "empty", "torn"}
CHECK_DEADLOCK FALSE
CONSTRAINT LastRecovery
ACTION_CONSTRAINTS SecondCrash InOrder
INVARIANTS
    NothingLostUnlessExposed LogServesRecovery CheckpointsHoldTheirRows
PROPERTIES
    CurrentCheckpointIntact

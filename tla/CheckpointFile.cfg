\* Rows of one unit and of four, a file that grows by three or by what a row needs.  All is
\* bounded, so the system ends.
SPECIFICATION Spec
CONSTANTS
    Keys = {1, 2}
    Sizes = {56, 185}
    Alignment = 64
    Header = 8
    Extension = 3
    MaxChanges = 4
    MaxCheckpoints = 3
    MaxTroubles = 1
CHECK_DEADLOCK FALSE
INVARIANTS
    RecoveredIsCommitted SpaceIsKept

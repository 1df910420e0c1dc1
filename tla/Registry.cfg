\* Three process ids, one of which removes the region; one death.
SPECIFICATION FairSpec
CONSTANTS
    a = a  b = b  c = c
    Procs = {a, b, c}
    Removers = {c}
    MaxRegions = 4
    MaxOpens = 3
    MaxDeaths = 1
    MaxWrites = 1
    Nobody = Nobody
CHECK_DEADLOCK FALSE
INVARIANTS
    RegionsAreSound
PROPERTIES
    OpeningEnds

--------------------------- MODULE ExclusiveMapsMC ---------------------------
\* Instances of ExclusiveMaps for TLC.
EXTENDS ExclusiveMaps

CONSTANTS a, b

\* Two rows with a gap that an insert may fill, before and behind.
TwoRecovered == [k \in {2, 3} |-> 2]
TwoAndOne == a :> 2 @@ b :> 1

=============================================================================

--------------------------- MODULE ConcurrentMapMC ---------------------------
\* Instances of ConcurrentMap for TLC.
EXTENDS ConcurrentMap

CONSTANTS a, b

\* Four rows, two to a mutex: transactions on different rows want the same
\* mutexes.
TwoPickets == [k \in 1 .. 4 |-> k % 2]
\* Both do anything to the rows 1 and 2; b updates 3 and 4, too.
Contended == {"scan", "lock", "update", "erase", "insert"} \X {1, 2}
SomeCalls == a :> Contended @@ b :> Contended \cup ({"update"} \X {3, 4})
TwoEach == a :> 2 @@ b :> 2

=============================================================================

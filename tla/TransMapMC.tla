----------------------------- MODULE TransMapMC -----------------------------
\* Instances of TransMap for TLC.
EXTENDS TransMap

CONSTANTS a, b, c

\* A row that recovery left, with an LSN that an id of a transaction also takes,
\* and a key without a row.
OneRecovered == [k \in {1} |-> 2]
\* Enough for erase, insert, erase of one row by a against a call of b that
\* waits, and a change by c in between.
UnequalLists == a :> 3 @@ b :> 1 @@ c :> 1

=============================================================================

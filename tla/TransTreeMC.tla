---------------------------- MODULE TransTreeMC ----------------------------
\* Instances of TransTree for TLC.
EXTENDS TransTree

CONSTANTS a, b, c

\* Enough for insert, update and erase of one row by a against one operation of
\* each of the others.
UnequalLists == a :> 3 @@ b :> 1 @@ c :> 1

=============================================================================

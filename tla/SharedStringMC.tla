--------------------------- MODULE SharedStringMC ---------------------------
(***************************************************************************)
(* Instances of SharedString for TLC.                                      *)
(***************************************************************************)
EXTENDS SharedString, TLC

CONSTANTS t1, t2, p1, p2, r1, r2, h

\* Two threads of two processes share two strings of the region; the first has one of its own.
TwoProcesses == t1 :> p1 @@ t2 :> p2
RegionAndHeap == r1 :> Region @@ r2 :> Region @@ h :> p1
Texts2 == {<<2>>, <<1, 2>>}
\* The strings are pointers, of the size of two characters, between and after the texts.
Layout == (r1 :> 0 @@ r2 :> 6 @@ h :> 0) @@ [x \in Reps |-> IF x = 1 THEN 2 ELSE 4 * x]
\* In one of the processes half of the region is past the middle of the address space.
TwoBases == p1 :> 20 @@ p2 :> 48
One == {r1 :> <<1, 2>> @@ r2 :> None @@ h :> None}
=============================================================================

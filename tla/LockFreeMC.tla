----------------------------- MODULE LockFreeMC -----------------------------
(***************************************************************************)
(* Instances of LockFree for TLC.                                          *)
(***************************************************************************)
EXTENDS LockFree, TLC

CONSTANTS t1, t2, t3

\* A slow get beside puts and gets that bring its node back, and three threads at the same end.
Reuse == t1 :> <<Nothing>> @@ t2 :> <<1, Nothing, 2, Nothing>> @@ t3 :> <<>>
Crowd == t1 :> <<1>> @@ t2 :> <<2, Nothing>> @@ t3 :> <<Nothing>>
Work == [lifo : BOOLEAN, static : {FALSE}, calls : {Reuse, Crowd}]
          \cup [lifo : BOOLEAN, static : {TRUE}, calls : {Reuse}]
=============================================================================

-------------------------- MODULE PageCheckpointMC --------------------------
(***************************************************************************)
(* Instances of PageCheckpoint for TLC.                                    *)
(***************************************************************************)
EXTENDS PageCheckpoint, TLC

CONSTANTS t1, t2, p1, p2

OneEach == (t1 :> p1) @@ (t2 :> p2)

=============================================================================

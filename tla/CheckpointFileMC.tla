-------------------------- MODULE CheckpointFileMC --------------------------
(***************************************************************************)
(* Instances of CheckpointFile for TLC.                                    *)
(***************************************************************************)
EXTENDS CheckpointFile
=============================================================================

----------------------------- MODULE CommitLogMC -----------------------------
(***************************************************************************)
(* An instance of CommitLog for TLC.                                       *)
(***************************************************************************)
EXTENDS CommitLog, TLC

CONSTANTS p1, p2, t1, t2, t3

\* Process p1 runs more than one thread, p2 a single one.
Home3 == t1 :> p1 @@ t2 :> p1 @@ t3 :> p2

\* Records of different lengths: behind some the file ends on a boundary of the alignment,
\* behind others it is too close to the next one for the header of a padding record.
Size3 == t1 :> 2 @@ t2 :> 3 @@ t3 :> 2

\* Bound: one fault in all, of t1, with synchronous logging, and no checkpoints after it.
\* With synchronous logging a checkpoint starts new files, with asynchronous logging it syncs
\* (with synchronous logging it finds something to sync after a fault alone).
OneFault ==
    /\ faults' # faults => log_sync /\ faults = <<0, 0>> /\ file_mutex = t1
    /\ faults # <<0, 0>> => pc' # pc
    /\ log_sync \/ pc' # pc \/ last_sync' # last_sync
=============================================================================

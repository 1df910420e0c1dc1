-------------------------- MODULE SnapshotPromise --------------------------
(***************************************************************************)
(* What a page checkpoint promises: the pages on disk are those of the     *)
(* region at one moment at which no transaction was running, and they stay *)
(* so until the next checkpoint is complete.  Pages of the region change   *)
(* at any time.  The promise is for the pages that are trusted: those of   *)
(* which no change has escaped notice.                                     *)
(***************************************************************************)
CONSTANTS Pages, Contents, First

VARIABLES
    region,        \* the contents of each page
    snapshot,      \* those at the start of the checkpoint in progress
    checkpoint,    \* those that a loader of the last complete checkpoint gets
    running,       \* a checkpoint is in progress
    trusted        \* the pages of which no change escaped notice

vars == <<region, snapshot, checkpoint, running, trusted>>

Init ==
    /\ region = [p \in Pages |-> First]
    /\ snapshot = region
    /\ checkpoint = region
    /\ running = FALSE
    /\ trusted = Pages

\* A page changes; trust is lost at the same time or not at all.
Change ==
    /\ \E p \in Pages :
          /\ region'[p] \in Contents
          /\ region' = [region EXCEPT ![p] = region'[p]]
    /\ trusted' \in SUBSET trusted
    /\ UNCHANGED <<snapshot, checkpoint, running>>

Start ==
    /\ ~running
    /\ running' = TRUE
    /\ snapshot' = region
    /\ UNCHANGED <<region, checkpoint, trusted>>

Finish ==
    /\ running
    /\ running' = FALSE
    /\ \A p \in trusted : checkpoint'[p] = snapshot[p]
    /\ UNCHANGED <<region, snapshot, trusted>>

Next == Change \/ Start \/ Finish

\* What is on disk.
Spec == Init /\ [][Next]_vars

\* And a checkpoint that has started is completed.
LiveSpec == Spec /\ (running ~> ~running)

=============================================================================

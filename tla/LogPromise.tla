----------------------------- MODULE LogPromise -----------------------------
(***************************************************************************)
(* What the write-ahead log of STLdb promises to Transaction::commit,      *)
(* without files, mutexes or buffers: transactions get consecutive places  *)
(* in one order, the log holds a prefix of that order which only grows,    *)
(* and log() returns to a transaction only when that prefix covers it.     *)
(* Once a write to the log has failed nothing is promised any more.        *)
(* CommitLog implements this (CommitLog!Promise).                          *)
(***************************************************************************)
EXTENDS Naturals, Sequences

CONSTANT Txns

VARIABLES
    order,      \* the transactions in the order of their LSNs
    written,    \* how long a prefix of order can be read back from the log
    returned,   \* the transactions for which log() has returned
    broken      \* a write to the log has failed

vars == <<order, written, returned, broken>>

Placed(t) == \E i \in 1..Len(order) : order[i] = t

Init ==
    /\ order = <<>>
    /\ written = 0
    /\ returned = {}
    /\ broken = FALSE

\* queue_for_commit(): the next place in the sequence of the log.
Assign(t) ==
    /\ ~Placed(t)
    /\ order' = Append(order, t)
    /\ UNCHANGED <<written, returned, broken>>

\* One gathered write: any number of the transactions that are next in order.
Write ==
    /\ \E n \in (written + 1)..Len(order) : written' = n
    /\ UNCHANGED <<order, returned, broken>>

Return(t) ==
    /\ t \notin returned
    /\ \E i \in 1..written : order[i] = t
    /\ returned' = returned \cup {t}
    /\ UNCHANGED <<order, written, broken>>

\* The others may then be anything.
Broken == broken' = TRUE

Next ==
    \/ Write
    \/ Broken
    \/ \E t \in Txns : Assign(t) \/ Return(t)

Spec == Init /\ [][Next]_vars
=============================================================================

---------------------------- MODULE DurabilityMC ----------------------------
(***************************************************************************)
(* Instances of Durability for TLC.                                        *)
(***************************************************************************)
EXTENDS Durability

CONSTANTS a, b, t1, t2, t3

Holder1 == 1 :> a @@ 2 :> a
\* Transactions that insert, erase and insert again.
Erases == t1 :> (1 :> "put" @@ 2 :> "put") @@ t2 :> (1 :> "erase") @@ t3 :> (1 :> "put")

\* Bound: the second crash comes when none before left a record torn, and the name that
\* is not recognized is not taken ...
SecondCrash == crashes = 1 /\ crashes' = 2 =>
    Misnamed \notin DOMAIN files' /\ \A n \in DOMAIN files' : Whole(files'[n]) = 0
\* ... and nothing but the recovery follows it.
LastRecovery == crashes = 2 => phase = "down"
\* The checkpoint goes through the containers by their addresses: a lies before b.
InOrder == ckpt.at = "next" /\ a \in ckpt.todo /\ phase' = "open" /\ ckpt' # ckpt =>
    ckpt'.c = a \/ a \notin ckpt'.todo
=============================================================================

-------------------------- MODULE DurabilityProofs --------------------------
(***************************************************************************)
(* Two things about Durability.  The online checkpoint never damages the   *)
(* checkpoint that it will replace, and each location of a checkpoint file *)
(* has one use and holds the row that is there, for any transactions,      *)
(* containers, keys and crashes.                                           *)
(*                                                                         *)
(* And nothing is lost: what the transactions in the log have made of the  *)
(* rows is what the rows have, before and after any number of crashes and  *)
(* recoveries, checkpoints and archiving; and recovery finds in the log    *)
(* what it needs.  So for any transactions, containers, keys and sizes of  *)
(* the files, but for the rows that one of three known flaws has got hold  *)
(* of, and as long as recovery is up to the crashes, as it always is when  *)
(* a crash leaves the record being written whole or not at all.            *)
(*                                                                         *)
(* The checkpoints are behind what recovery finds: so the types say of all *)
(* that a crash may leave, records and images included, what recovery has  *)
(* to make of it (IsDb), and what is known of the space before a crash     *)
(* follows again from the metafiles after it.                              *)
(***************************************************************************)
EXTENDS Durability, TLAPS, WellFoundedInduction

Writing == {"scan", "copied", "saved", "noted"}

(***************************************************************************)
(* The inductive invariant: a checkpoint that is being written counts as   *)
(* taken what the current metafile of its container does, and all that is  *)
(* taken has an image in the checkpoint file.                              *)
(***************************************************************************)
TakenInv ==
    /\ DOMAIN meta = Containers
    /\ DOMAIN image = Containers
    /\ \A c \in Containers : meta[c].used \subseteq Locations \cap DOMAIN image[c]
    /\ DOMAIN ckpt = DOMAIN Idle
    /\ ckpt.at \in Writing =>
          /\ ckpt.c \in Containers
          /\ ckpt.used \subseteq Locations \cap DOMAIN image[ckpt.c]
          /\ meta[ckpt.c].used \subseteq ckpt.used

\* FreePlace finds a place that is not taken, when there is one.
LEMMA FreePlaceIsFree ==
    ASSUME NEW used \in SUBSET Locations, used # Locations
    PROVE  FreePlace(used) \in Locations \ used
BY DEF FreePlace

\* Initially nothing is taken.
LEMMA TakenInvInit == Init => TakenInv
BY DEF Init, TakenInv, NoMeta, Idle, Writing

\* What the steps that neither write nor take up a checkpoint leave alone.
LEMMA TakenInvKept ==
    ASSUME TakenInv, UNCHANGED <<meta, image>>,
           \/ UNCHANGED ckpt
           \/ DOMAIN ckpt' = DOMAIN Idle /\ ckpt'.at \notin Writing
    PROVE  TakenInv'
BY DEF TakenInv

\* Taking up a container: what is taken is what the current metafile says.
LEMMA TakenInvContainer ==
    ASSUME TakenInv, NEW c \in Containers, CkptContainer(c)
    PROVE  TakenInv'
<1>1. CASE last_write > ckpt_history[c]
  <2>1. ckpt' = [ckpt EXCEPT !.at = "scan", !.c = c, !.start = last_write,
                             !.keys = {k \in Keys : Holder[k] = c}, !.used = meta[c].used]
    BY <1>1 DEF CkptContainer
  <2>2. ckpt'.c = c /\ ckpt'.used = meta[c].used /\ DOMAIN ckpt' = DOMAIN Idle
    BY <2>1 DEF TakenInv, Idle
  <2>. QED BY <2>2 DEF TakenInv, CkptContainer, disk
<1>2. CASE ~(last_write > ckpt_history[c])
  <2>1. ckpt' = Continue(ckpt.todo \ {c}) /\ UNCHANGED <<meta, image>>
    BY <1>2 DEF CkptContainer, disk
  <2>2. DOMAIN ckpt' = DOMAIN Idle /\ ckpt'.at \notin Writing
    BY <2>1 DEF Continue, Idle, Writing
  <2>. QED BY <2>1, <2>2, TakenInvKept
<1>. QED BY <1>1, <1>2

\* Writing a row: the place is added to what is taken, and the image to the file.
LEMMA TakenInvCopy ==
    ASSUME TakenInv, CkptCopy
    PROVE  /\ TakenInv'
           /\ \A c \in Containers : \A l \in meta[c].used : image'[c][l] = image[c][l]
<1>. DEFINE d == ckpt.c
            k == Min(ckpt.keys)
            new == FreePlace(ckpt.used)
<1>1. /\ ckpt.at = "scan"
      /\ ckpt.used # Locations
      /\ UNCHANGED meta
  BY DEF CkptCopy
<1>2. d \in Containers /\ ckpt.used \subseteq Locations \cap DOMAIN image[d]
  BY <1>1 DEF TakenInv, Writing
<1>3. new \in Locations \ ckpt.used
  BY <1>1, <1>2, FreePlaceIsFree
<1>4. CASE IsDue(rows[k], d)
  <2>1. /\ image' = [image EXCEPT ![d] = Overlaid(@, new, ImageOf(k))]
        /\ ckpt' = [ckpt EXCEPT !.at = "copied", !.keys = @ \ {k}, !.key = k,
                                !.prev = rows[k].loc, !.new = new, !.used = @ \cup {new}]
    BY <1>4 DEF CkptCopy
  <2>2. /\ DOMAIN image' = Containers
        /\ DOMAIN image'[d] = DOMAIN image[d] \cup {new}
        /\ \A l \in DOMAIN image[d] \ {new} : image'[d][l] = image[d][l]
        /\ \A c \in Containers \ {d} : image'[c] = image[c]
    BY <2>1, <1>2 DEF TakenInv, Overlaid
  <2>3. /\ ckpt'.c = d /\ ckpt'.used = ckpt.used \cup {new}
        /\ DOMAIN ckpt' = DOMAIN Idle
    BY <2>1 DEF TakenInv, Idle
  <2>4. meta[d].used \subseteq ckpt.used
    BY <1>1 DEF TakenInv, Writing
  <2>5. TakenInv'
    BY <1>1, <1>2, <1>3, <2>2, <2>3, <2>4 DEF TakenInv
  <2>6. ASSUME NEW c \in Containers, NEW l \in meta[c].used
        PROVE  image'[c][l] = image[c][l]
    BY <1>2, <1>3, <2>2, <2>4 DEF TakenInv
  <2>. QED BY <2>5, <2>6
<1>5. CASE ~IsDue(rows[k], d)
  <2>1. ckpt' = [ckpt EXCEPT !.keys = @ \ {k}] /\ UNCHANGED image
    BY <1>5 DEF CkptCopy
  <2>2. /\ ckpt'.at = ckpt.at /\ ckpt'.c = d /\ ckpt'.used = ckpt.used
        /\ DOMAIN ckpt' = DOMAIN Idle
    BY <2>1 DEF TakenInv, Idle
  <2>. QED BY <1>1, <2>1, <2>2 DEF TakenInv
<1>. QED BY <1>4, <1>5

\* Placing the row, taking over freed space and noting the checkpoint leave alone what
\* is taken.
LEMMA TakenInvProgress ==
    ASSUME TakenInv, CkptPlace \/ CkptTakeFreed \/ CkptNote
    PROVE  TakenInv'
<1>1. UNCHANGED <<meta, image>> /\ ckpt.at \in Writing
  BY DEF CkptPlace, CkptTakeFreed, CkptNote, disk, Writing
<1>2. ckpt'.c = ckpt.c /\ ckpt'.used = ckpt.used /\ DOMAIN ckpt' = DOMAIN Idle
  BY DEF TakenInv, Idle, CkptPlace, CkptTakeFreed, CkptNote
<1>. QED BY <1>1, <1>2 DEF TakenInv

\* The new metafile counts as taken no more than the checkpoint did.
LEMMA TakenInvCommit ==
    ASSUME TakenInv, CkptCommit
    PROVE  TakenInv'
<1>1. ckpt.at \in Writing
  BY DEF CkptCommit, Writing
<1>2. /\ meta' = [meta EXCEPT ![ckpt.c] =
              [start |-> ckpt.start, end |-> ckpt.end, used |-> ckpt.used \ ckpt.free]]
      /\ UNCHANGED image
  BY DEF CkptCommit
<1>3. DOMAIN ckpt' = DOMAIN Idle /\ ckpt'.at \notin Writing
  BY DEF CkptCommit, Continue, Idle, Writing
<1>. QED BY <1>1, <1>2, <1>3 DEF TakenInv

\* The steps that touch neither the metafiles nor the checkpoint files.
LEMMA TakenInvElsewhere ==
    ASSUME TakenInv,
           \/ \E t \in Txns : Transact(t)
           \/ CkptStart \/ Archive \/ Crash \/ Recover \/ UNCHANGED vars
    PROVE  TakenInv' /\ UNCHANGED <<meta, image>>
<1>1. CASE \E t \in Txns : Transact(t)
  <2>1. UNCHANGED <<meta, image, ckpt>>
    BY <1>1 DEF Transact, Operate, Rollback, OpenLog, WriteLog, Apply, disk
  <2>. QED BY <2>1, TakenInvKept
<1>2. CASE CkptStart \/ Crash
  <2>1. UNCHANGED <<meta, image>>
    BY <1>2 DEF CkptStart, Crash, disk
  <2>2. DOMAIN ckpt' = DOMAIN Idle /\ ckpt'.at \notin Writing
    <3>1. CASE CkptStart
      <4>1. ckpt' = [Idle EXCEPT !.at = "next", !.todo = Containers]
        BY <3>1 DEF CkptStart
      <4>. QED BY <4>1 DEF Idle, Writing
    <3>2. CASE Crash
      <4>1. ckpt' = Idle
        BY <3>2 DEF Crash
      <4>. QED BY <4>1 DEF Idle, Writing
    <3>. QED BY <1>2, <3>1, <3>2
  <2>. QED BY <2>1, <2>2, TakenInvKept
<1>3. CASE Archive \/ Recover \/ UNCHANGED vars
  <2>1. UNCHANGED <<meta, image, ckpt>>
    BY <1>3 DEF Archive, Recover, vars, disk
  <2>. QED BY <2>1, TakenInvKept
<1>. QED BY <1>1, <1>2, <1>3

\* Every step preserves the invariant and overwrites nothing that counts as taken.
LEMMA TakenInvStep ==
    ASSUME TakenInv, [Next]_vars
    PROVE  /\ TakenInv'
           /\ \A c \in Containers : \A l \in meta[c].used : image'[c][l] = image[c][l]
<1>1. CASE CkptCopy
  BY <1>1, TakenInvCopy
<1>2. CASE \E c \in Containers : CkptContainer(c)
  <2>1. TakenInv' BY <1>2, TakenInvContainer
  <2>2. UNCHANGED image BY <1>2 DEF CkptContainer, disk
  <2>. QED BY <2>1, <2>2
<1>3. CASE CkptPlace \/ CkptTakeFreed \/ CkptNote
  <2>1. TakenInv' BY <1>3, TakenInvProgress
  <2>2. UNCHANGED image BY <1>3 DEF CkptPlace, CkptTakeFreed, CkptNote, disk
  <2>. QED BY <2>1, <2>2
<1>4. CASE CkptCommit
  <2>1. TakenInv' BY <1>4, TakenInvCommit
  <2>2. UNCHANGED image BY <1>4 DEF CkptCommit
  <2>. QED BY <2>1, <2>2
<1>5. CASE \/ \E t \in Txns : Transact(t)
           \/ CkptStart \/ Archive \/ Crash \/ Recover \/ UNCHANGED vars
  BY <1>5, TakenInvElsewhere
<1>. QED BY <1>1, <1>2, <1>3, <1>4, <1>5 DEF Next, Checkpoint

\* What a checkpoint in progress writes never overlaps what the current one counts as
\* taken, and both have their images in the file (allocate() and add_free_space()).
THEOREM TakenIsKept == Spec => []TakenInv
BY TakenInvInit, TakenInvStep, PTL DEF Spec

\* Whatever the transactions do, whenever a process dies: the current checkpoint of a
\* container is intact until the metafile of the next one takes its place.
THEOREM OnlineCheckpointIsSafe == Spec => CurrentCheckpointIntact
<1>1. TakenInv /\ [Next]_vars =>
        [\A c \in Containers : \A l \in meta[c].used : image'[c][l] = image[c][l]]_vars
  BY TakenInvStep
<1>. QED BY <1>1, TakenIsKept, PTL DEF Spec, CurrentCheckpointIntact

-----------------------------------------------------------------------------
\* Numbers and sets of them

\* A set of numbers that is not empty has a least element.
LEMMA LeastOfNats ==
    ASSUME NEW S, S \subseteq Nat, S # {}
    PROVE  \E x \in S : \A y \in S : x <= y
<1> DEFINE R == {m \in Nat \X Nat : m[1] < m[2]}
<1>1. IsWellFoundedOn(R, Nat)
  BY NatLessThanWellFounded DEF OpToRel
<1> HIDE DEF R
<1>2. PICK x \in S : \A y \in S : ~(<<y, x>> \in R)
  BY <1>1, WFMin
<1>3. \A y \in S : ~(y < x)
  BY <1>2 DEF R
<1>. QED BY <1>3

\* Min finds it.
LEMMA MinOfNats ==
    ASSUME NEW S, S \subseteq Nat, S # {}
    PROVE  Min(S) \in S /\ \A y \in S : Min(S) <= y
BY LeastOfNats DEF Min

\* A set of numbers that is bounded and not empty has a greatest element, which Max finds.
LEMMA MaxOfNats ==
    ASSUME NEW S, S \subseteq Nat, S # {}, NEW b \in Nat, \A y \in S : y <= b
    PROVE  Max(S) \in S /\ \A y \in S : y <= Max(S)
<1>. DEFINE T == {n \in Nat : b - n \in S}
<1>1. T # {}
  <2>1. PICK s \in S : TRUE
    OBVIOUS
  <2>2. b - s \in Nat /\ b - (b - s) = s
    BY <2>1
  <2>. QED BY <2>1, <2>2
<1>2. PICK x \in T : \A y \in T : x <= y
  BY <1>1, LeastOfNats
<1>3. \A y \in S : b - y \in T /\ y <= b - x
  <2>1. TAKE y \in S
  <2>2. b - y \in Nat /\ b - (b - y) = y
    BY <2>1
  <2>3. b - y \in T
    BY <2>2
  <2>4. x \in Nat /\ x <= b - y
    BY <1>2, <2>3
  <2>5. y \in Nat
    BY <2>1
  <2>. QED BY <2>3, <2>4, <2>5
<1>4. b - x \in S
  BY <1>2
<1>. QED BY <1>3, <1>4 DEF Max

\* What holds of the first of some numbers, and of the one after each that it holds of,
\* holds of all.
LEMMA UpTo ==
    ASSUME NEW a \in Nat, NEW n \in Nat, NEW S, a \in S,
           \A i \in a .. n : i \in S /\ i < n => i + 1 \in S
    PROVE  a .. n \subseteq S
<1>. SUFFICES ASSUME (a .. n) \ S # {} PROVE FALSE
  OBVIOUS
<1>. DEFINE C == (a .. n) \ S
<1>1. C \subseteq Nat /\ C # {}
  OBVIOUS
<1>2. PICK x \in C : \A y \in C : x <= y
  <2>. HIDE DEF C
  <2>. QED BY <1>1, LeastOfNats
<1>3. x - 1 \in a .. n /\ x - 1 < n /\ x - 1 \notin C
  BY <1>2
<1>4. (x - 1) + 1 \in S
  BY <1>3
<1>. QED BY <1>2, <1>4

-----------------------------------------------------------------------------
\* The records of a log file

Ops == UNION {[S -> Kinds] : S \in SUBSET Keys}
Records == [lsn : Nat, txn : Txns, ops : Ops, torn : BOOLEAN]

\* A record changes some of the keys, each in one of three ways.
LEMMA RecordHasOps ==
    ASSUME NEW r \in Records
    PROVE  /\ DOMAIN r.ops \subseteq Keys
           /\ \A k \in DOMAIN r.ops : r.ops[k] \in Kinds
BY DEF Records, Ops

\* The first element that passes a test, here whether a record is torn.
LEMMA WholeFinds ==
    ASSUME NEW f \in Seq(Records)
    PROVE  /\ Whole(f) \in 0 .. Len(f)
           /\ Whole(f) = 0 => \A i \in 1 .. Len(f) : ~f[i].torn
           /\ Whole(f) # 0 => f[Whole(f)].torn /\ \A i \in 1 .. Whole(f) - 1 : ~f[i].torn
<1>. DEFINE I == {i \in 1 .. Len(f) : f[i].torn}
<1>1. Whole(f) = IF I # {} THEN Min(I) ELSE 0
  BY DEF Whole, SelectInSeq
<1>2. CASE I = {}
  BY <1>1, <1>2
<1>3. CASE I # {}
  <2>1. I \subseteq Nat
    OBVIOUS
  <2>2. Min(I) \in I /\ \A y \in I : Min(I) <= y
    <3>. HIDE DEF I
    <3>. QED BY <1>3, <2>1, MinOfNats
  <2>3. Whole(f) \in I /\ Whole(f) # 0 /\ \A y \in I : Whole(f) <= y
    BY <1>1, <1>3, <2>2
  <2>. QED BY <2>3
<1>. QED BY <1>2, <1>3

\* The whole part of a file is a beginning of it without a torn record.
LEMMA WholePartIs ==
    ASSUME NEW f \in Seq(Records)
    PROVE  /\ WholePart(f) \in Seq(Records)
           /\ Len(WholePart(f)) <= Len(f)
           /\ \A i \in 1 .. Len(WholePart(f)) : WholePart(f)[i] = f[i] /\ ~f[i].torn
           /\ Whole(f) = 0 => WholePart(f) = f
           /\ Whole(f) # 0 => Len(WholePart(f)) = Whole(f) - 1
<1>1. CASE Whole(f) = 0
  BY <1>1, WholeFinds DEF WholePart
<1>2. CASE Whole(f) # 0
  <2>1. Whole(f) - 1 \in 0 .. Len(f)
    BY <1>2, WholeFinds
  <2>2. WholePart(f) = SubSeq(f, 1, Whole(f) - 1)
    BY <1>2 DEF WholePart
  <2>3. /\ WholePart(f) \in Seq(Records)
        /\ Len(WholePart(f)) = Whole(f) - 1
        /\ \A i \in 1 .. Whole(f) - 1 : WholePart(f)[i] = f[i]
    BY <2>1, <2>2
  <2>. QED BY <1>2, <2>1, <2>3, WholeFinds
<1>. QED BY <1>1, <1>2

\* What is sought in a file is an end of it.
LEMMA FromIs ==
    ASSUME NEW f \in Seq(Records), NEW start \in Int
    PROVE  /\ From(f, start) \in Seq(Records)
           /\ \/ From(f, start) = <<>> /\ \A i \in 1 .. Len(f) : f[i].lsn < start
              \/ \E j \in 1 .. Len(f) :
                    /\ From(f, start) = SubSeq(f, j, Len(f))
                    /\ f[j].lsn >= start /\ \A i \in 1 .. j - 1 : f[i].lsn < start
<1>. DEFINE I == {i \in 1 .. Len(f) : f[i].lsn >= start}
            j == SelectInSeq(f, LAMBDA r : r.lsn >= start)
<1>1. j = IF I # {} THEN Min(I) ELSE 0
  BY DEF SelectInSeq
<1>2. From(f, start) = IF j = 0 THEN <<>> ELSE SubSeq(f, j, Len(f))
  BY DEF From
<1>3. \A i \in 1 .. Len(f) : f[i].lsn \in Nat
  <2>1. \A i \in 1 .. Len(f) : f[i] \in Records
    OBVIOUS
  <2>. QED BY <2>1 DEF Records
<1>4. CASE I = {}
  <2>1. From(f, start) = <<>>
    BY <1>1, <1>2, <1>4
  <2>. QED BY <1>3, <1>4, <2>1
<1>5. CASE I # {}
  <2>1. I \subseteq Nat
    OBVIOUS
  <2>2. Min(I) \in I /\ \A y \in I : Min(I) <= y
    <3>. HIDE DEF I
    <3>. QED BY <1>5, <2>1, MinOfNats
  <2>. HIDE DEF j
  <2>3. j \in 1 .. Len(f) /\ f[j].lsn >= start /\ \A i \in 1 .. Len(f) : f[i].lsn >= start => j <= i
    BY <1>1, <1>5, <2>2
  <2>4. From(f, start) = SubSeq(f, j, Len(f))
    <3>1. j # 0
      BY <2>3
    <3>. QED BY <1>2, <3>1
  <2>5. SubSeq(f, j, Len(f)) \in Seq(Records)
    BY <2>3
  <2>6. \A i \in 1 .. j - 1 : f[i].lsn < start
    BY <1>3, <2>3
  <2>. QED BY <2>3, <2>4, <2>5, <2>6
<1>. QED BY <1>4, <1>5

-----------------------------------------------------------------------------
\* Types, and what the database is like while no process has it open

RowType == [val : Txns \cup {NoTxn}, lsn : Lsns, loc : Locations \cup {NoLoc},
            locker : Txns \cup {NoTxn}]
Images == [key : Keys, val : Txns, lsn : Lsns]
Metas == [start : Lsns, end : Lsns, used : SUBSET Locations]
Ckpts == [at : {"off", "next"} \cup Writing, todo : SUBSET Containers,
          c : Containers \cup {NoContainer}, start : Lsns, end : Lsns,
          keys : SUBSET Keys, key : Keys \cup {0}, prev : Locations \cup {NoLoc},
          new : Locations \cup {NoLoc}, used : SUBSET Locations, free : SUBSET Locations]

RegionTyped ==
    /\ phase \in {"open", "down", "refused"}
    /\ rows \in [Keys -> RowType]
    /\ freed \in [Containers -> SUBSET Locations]
    /\ ckpt_history \in [Containers -> Nat]
    /\ exposed \subseteq Keys
    /\ crashes \in 0 .. MaxCrashes
LogTyped ==
    /\ last_write \in Lsns
    /\ log_filename \in Lsns \cup {NoFile}
    /\ log_len \in 0 .. LogMaxLen
    /\ writer \in Txns \cup {NoTxn}
    /\ writer # NoTxn => log_len < LogMaxLen /\ pc[writer] = "logging"
TxnsTyped ==
    /\ pc \in [Txns -> Stages]
    /\ lsn \in [Txns -> Nat]
    /\ DOMAIN kind = Txns
    /\ \A t \in Txns : \A k \in DOMAIN kind[t] : kind[t][k] \in Kinds
    /\ \A t \in Txns : pc[t] \in {"pending", "logging", "logged"} =>
          kind[t] \in [KeysOf(t) -> Kinds]
FilesTyped ==
    /\ DOMAIN files \subseteq Lsns
    /\ \E b \in Nat : \A n \in DOMAIN files : n <= b
    /\ \A n \in DOMAIN files : files[n] \in Seq(Records)
CkptTyped ==
    /\ meta \in [Containers -> Metas]
    /\ \A c \in Containers : /\ meta[c].start <= meta[c].end
                             /\ meta[c] # NoMeta => meta[c].start \in Nat
    /\ \A c \in Containers : \A l \in DOMAIN image[c] : image[c][l] \in Images
    /\ ckpt \in Ckpts
    /\ ckpt.at \in Writing => ckpt.start \in Nat /\ ckpt.start <= last_write
    /\ ckpt.at = "noted" => ckpt.start <= ckpt.end
    /\ ckpt.at = "copied" => ckpt.key \in Keys /\ ckpt.new \in Locations
Closed ==
    phase # "open" => /\ ckpt.at = "off" /\ writer = NoTxn
                      /\ \A k \in Keys : rows[k] = NoRow
                      /\ \A c \in Containers : freed[c] = {}
TypeInv ==
    /\ TakenInv
    /\ RegionTyped /\ LogTyped /\ TxnsTyped /\ FilesTyped /\ CkptTyped
    /\ Closed

\* NoRow is a row, of no value and no location.
LEMMA NoRowIs ==
    /\ NoRow \in RowType
    /\ NoRow.val = NoTxn /\ NoRow.loc = NoLoc /\ NoRow.locker = NoTxn
    /\ ~Committed(NoRow)
BY DEF NoRow, RowType, Lsns, NoLoc, Committed

-----------------------------------------------------------------------------
\* What recovery makes of the checkpoints and the log

\* A row that a checkpoint holds is a row, and its location holds it.
LEMMA LoadedFromIs ==
    ASSUME TypeInv, NEW k \in Keys,
           NEW used, used \subseteq Locations \cap DOMAIN image[Holder[k]]
    PROVE  LET row == LoadedFrom(k, used) IN
           /\ row \in RowType /\ row.locker = NoTxn
           /\ row.loc = NoLoc => row = NoRow /\ \A l \in used : image[Holder[k]][l].key # k
           /\ row.loc # NoLoc =>
                 /\ row.loc \in used /\ Committed(row)
                 /\ image[Holder[k]][row.loc].key = k
                 /\ row.val = image[Holder[k]][row.loc].val
<1>. DEFINE file == image[Holder[k]]
            locs == {l \in used : file[l].key = k}
<1>0. Holder[k] \in Containers
  BY KeysAssumption
<1>1. CASE locs = {}
  <2>1. LoadedFrom(k, used) = NoRow
    BY <1>1 DEF LoadedFrom
  <2>. QED BY <1>1, <2>1, NoRowIs
<1>2. CASE locs # {}
  <2>1. locs \subseteq Nat
    BY SizesAssumption
  <2>2. Min(locs) \in locs
    <3>. HIDE DEF locs
    <3>. QED BY <1>2, <2>1, MinOfNats
  <2>3. PICK l \in locs : l = Min(locs)
    BY <2>2
  <2>4. LoadedFrom(k, used) = Row(file[l].val, file[l].lsn, l)
    BY <1>2, <2>3 DEF LoadedFrom
  <2>5. file[l] \in Images /\ l \in Locations /\ l # NoLoc /\ l \in used /\ file[l].key = k
    BY <1>0, SizesAssumption DEF TypeInv, CkptTyped, NoLoc
  <2>6. file[l].val \in Txns /\ file[l].lsn \in Lsns /\ file[l].val # NoTxn
    BY <2>5, NobodyAssumption DEF Images
  <2>. HIDE DEF file, locs
  <2>7. /\ Row(file[l].val, file[l].lsn, l) \in RowType
        /\ Row(file[l].val, file[l].lsn, l).loc = l
        /\ Row(file[l].val, file[l].lsn, l).val = file[l].val
        /\ Row(file[l].val, file[l].lsn, l).locker = NoTxn
    BY <2>5, <2>6 DEF Row, RowType
  <2>. QED BY <2>4, <2>5, <2>6, <2>7 DEF Committed, file
<1>. QED BY <1>1, <1>2

\* So of the rows that the current checkpoints hold: each has a location of its own.
LEMMA LoadedIs ==
    ASSUME TypeInv, NEW k \in Keys
    PROVE  /\ Loaded(k) \in RowType /\ Loaded(k).locker = NoTxn
           /\ Loaded(k).loc = NoLoc =>
                 /\ Loaded(k) = NoRow
                 /\ \A l \in meta[Holder[k]].used : image[Holder[k]][l].key # k
           /\ Loaded(k).loc # NoLoc =>
                 /\ Loaded(k).loc \in meta[Holder[k]].used /\ Committed(Loaded(k))
                 /\ image[Holder[k]][Loaded(k).loc].key = k
                 /\ Loaded(k).val = image[Holder[k]][Loaded(k).loc].val
<1>1. meta[Holder[k]].used \subseteq Locations \cap DOMAIN image[Holder[k]]
  BY KeysAssumption DEF TypeInv, TakenInv
<1>. QED BY <1>1, LoadedFromIs DEF Loaded

\* Two of them have two locations.
LEMMA LoadedApart ==
    ASSUME TypeInv, NEW j \in Keys, NEW k \in Keys, Holder[j] = Holder[k],
           Loaded(j).loc = Loaded(k).loc, Loaded(k).loc # NoLoc
    PROVE  j = k
BY LoadedIs

\* A database in the making: the rows with the locations they were loaded from, but for
\* those that redo has erased, whose locations are free.
IsDb(db) ==
    /\ db.rows \in [Keys -> RowType]
    /\ db.freed \in [Containers -> SUBSET Locations]
    /\ \A k \in Keys : db.rows[k].locker = NoTxn
    /\ \A k \in Keys : db.rows[k].loc # NoLoc =>
          /\ Committed(db.rows[k])
          /\ db.rows[k].loc = Loaded(k).loc
          /\ db.rows[k].loc \notin db.freed[Holder[k]]
    /\ \A k \in Keys : Loaded(k).loc # NoLoc =>
          db.rows[k].loc = Loaded(k).loc \/ Loaded(k).loc \in db.freed[Holder[k]]
    /\ \A c \in Containers : \A l \in db.freed[c] :
          \E k \in Keys : Holder[k] = c /\ l = Loaded(k).loc

\* The checkpoints are one.
LEMMA CheckpointsAreDb ==
    ASSUME TypeInv
    PROVE  IsDb(Checkpoints)
<1>1. /\ Checkpoints.rows = [k \in Keys |-> Loaded(k)]
      /\ Checkpoints.freed = [c \in Containers |-> {}]
  BY DEF Checkpoints
<1>2. \A k \in Keys : /\ Loaded(k) \in RowType /\ Loaded(k).locker = NoTxn
                      /\ Loaded(k).loc # NoLoc => Committed(Loaded(k))
  BY LoadedIs
<1>. HIDE DEF Checkpoints
<1>. QED BY <1>1, <1>2, KeysAssumption DEF IsDb

\* recover() of one operation leaves a row at its location, or without one.
LEMMA RedoneIs ==
    ASSUME NEW row \in RowType, row.locker = NoTxn, NEW r \in Records, NEW k \in DOMAIN r.ops
    PROVE  /\ Redone(row, r, k) \in RowType /\ Redone(row, r, k).locker = NoTxn
           /\ r.ops[k] = "erase" => Redone(row, r, k) = NoRow
           /\ r.ops[k] = "insert" /\ Committed(row) => Redone(row, r, k) = row
           /\ r.ops[k] = "insert" /\ ~Committed(row) =>
                 Redone(row, r, k) = Row(r.txn, r.lsn, NoLoc)
           /\ r.ops[k] = "update" => Redone(row, r, k) = Row(r.txn, r.lsn, row.loc)
<1>1. r.ops[k] \in {"insert", "update", "erase"}
  BY RecordHasOps DEF Kinds
<1>2. r.txn \in Txns /\ r.lsn \in Lsns
  BY DEF Records, Lsns
<1>3. \A l \in Locations \cup {NoLoc} :
        Row(r.txn, r.lsn, l) \in RowType /\ Row(r.txn, r.lsn, l).locker = NoTxn
  BY <1>2 DEF Row, RowType
<1>4. row.loc \in Locations \cup {NoLoc}
  BY DEF RowType
<1>. HIDE DEF RowType, Row, Records
<1>5. CASE r.ops[k] = "erase"
  <2>1. Redone(row, r, k) = NoRow
    BY <1>5 DEF Redone
  <2>. QED BY <1>5, <2>1, NoRowIs
<1>6. CASE r.ops[k] = "insert"
  <2>1. Redone(row, r, k) = IF Committed(row) THEN row ELSE Row(r.txn, r.lsn, NoLoc)
    BY <1>6 DEF Redone
  <2>. QED BY <1>3, <1>6, <2>1
<1>7. CASE r.ops[k] = "update"
  <2>1. Redone(row, r, k) = Row(r.txn, r.lsn, row.loc)
    BY <1>7 DEF Redone
  <2>. QED BY <1>3, <1>4, <1>7, <2>1
<1>. QED BY <1>1, <1>5, <1>6, <1>7

\* Redoing a record erases, changes or inserts the rows that it names.
LEMMA RedoneIsDb ==
    ASSUME TypeInv, NEW db, IsDb(db), NEW r \in Records
    PROVE  IsDb(Redo(db, r))
<1>. DEFINE new == Redo(db, r)
            erased(c) == {db.rows[k].loc : k \in {j \in DOMAIN r.ops :
                             r.ops[j] = "erase" /\ Holder[j] = c}} \ {NoLoc}
<1>1. /\ new.rows = [k \in Keys |->
              IF k \in DOMAIN r.ops THEN Redone(db.rows[k], r, k) ELSE db.rows[k]]
      /\ new.freed = [c \in Containers |-> db.freed[c] \cup erased(c)]
  BY DEF Redo
<1>2. DOMAIN r.ops \subseteq Keys
  BY RecordHasOps
<1>3. \A k \in Keys : db.rows[k] \in RowType /\ db.rows[k].locker = NoTxn
  BY DEF IsDb
<1>4. \A k \in DOMAIN r.ops :
        /\ Redone(db.rows[k], r, k) \in RowType
        /\ Redone(db.rows[k], r, k).locker = NoTxn
        /\ r.ops[k] = "erase" => Redone(db.rows[k], r, k) = NoRow
        /\ r.ops[k] # "erase" /\ Redone(db.rows[k], r, k).loc # NoLoc =>
              /\ Committed(Redone(db.rows[k], r, k))
              /\ Redone(db.rows[k], r, k).loc = db.rows[k].loc
        /\ r.ops[k] # "erase" /\ db.rows[k].loc # NoLoc =>
              Redone(db.rows[k], r, k).loc = db.rows[k].loc
  <2>1. TAKE k \in DOMAIN r.ops
  <2>2. db.rows[k] \in RowType /\ db.rows[k].locker = NoTxn
    BY <1>2, <1>3
  <2>3. db.rows[k].loc # NoLoc => Committed(db.rows[k])
    BY <1>2 DEF IsDb
  <2>4. r.ops[k] \in {"insert", "update", "erase"} /\ r.txn \in Txns
    BY RecordHasOps DEF Kinds, Records
  <2>5. \A l : Row(r.txn, r.lsn, l).loc = l /\ Committed(Row(r.txn, r.lsn, l))
    BY <2>4, NobodyAssumption DEF Row, Committed
  <2>. HIDE DEF Records, RowType
  <2>. QED BY <2>2, <2>3, <2>4, <2>5, RedoneIs
<1>5. \A c \in Containers : erased(c) \subseteq Locations
  BY <1>2, <1>3 DEF RowType
<1>. HIDE DEF new
<1>6. new.rows \in [Keys -> RowType] /\ \A k \in Keys : new.rows[k].locker = NoTxn
  <2>. HIDE DEF RowType
  <2>. QED BY <1>1, <1>3, <1>4
<1>7. new.freed \in [Containers -> SUBSET Locations]
  <2>. HIDE DEF erased
  <2>. QED BY <1>1, <1>5 DEF IsDb
<1>8. ASSUME NEW k \in Keys, new.rows[k].loc # NoLoc
      PROVE  /\ Committed(new.rows[k])
             /\ new.rows[k].loc = Loaded(k).loc
             /\ new.rows[k].loc \notin new.freed[Holder[k]]
  <2>1. /\ Committed(new.rows[k])
        /\ new.rows[k].loc = db.rows[k].loc
        /\ k \in DOMAIN r.ops => r.ops[k] # "erase"
    BY <1>1, <1>4, <1>8, NoRowIs DEF IsDb
  <2>2. db.rows[k].loc = Loaded(k).loc /\ db.rows[k].loc \notin db.freed[Holder[k]]
    BY <1>8, <2>1 DEF IsDb
  <2>3. Holder[k] \in Containers
    BY KeysAssumption
  <2>4. ASSUME db.rows[k].loc \in erased(Holder[k]) PROVE FALSE
    <3>1. PICK j \in DOMAIN r.ops : /\ r.ops[j] = "erase" /\ Holder[j] = Holder[k]
                                   /\ db.rows[j].loc = db.rows[k].loc
      BY <2>4
    <3>2. j \in Keys /\ db.rows[j].loc = Loaded(j).loc
      BY <1>2, <1>8, <2>1, <3>1 DEF IsDb
    <3>3. j = k
      BY <1>8, <2>1, <2>2, <3>1, <3>2, LoadedApart
    <3>. QED BY <2>1, <3>1, <3>3
  <2>. HIDE DEF erased
  <2>. QED BY <1>1, <2>1, <2>2, <2>3, <2>4
<1>9. ASSUME NEW k \in Keys, Loaded(k).loc # NoLoc
      PROVE  new.rows[k].loc = Loaded(k).loc \/ Loaded(k).loc \in new.freed[Holder[k]]
  <2>1. Holder[k] \in Containers
    BY KeysAssumption
  <2>2. CASE Loaded(k).loc \in db.freed[Holder[k]]
    BY <1>1, <2>1, <2>2
  <2>3. CASE Loaded(k).loc \notin db.freed[Holder[k]]
    <3>1. db.rows[k].loc = Loaded(k).loc
      BY <1>9, <2>3 DEF IsDb
    <3>2. CASE k \in DOMAIN r.ops /\ r.ops[k] = "erase"
      <4>1. Loaded(k).loc \in erased(Holder[k])
        BY <1>9, <3>1, <3>2
      <4>. HIDE DEF erased
      <4>. QED BY <1>1, <2>1, <4>1
    <3>3. CASE ~(k \in DOMAIN r.ops /\ r.ops[k] = "erase")
      BY <1>1, <1>4, <1>9, <3>1, <3>3
    <3>. QED BY <3>2, <3>3
  <2>. QED BY <2>2, <2>3
<1>10. ASSUME NEW c \in Containers, NEW l \in new.freed[c]
       PROVE  \E k \in Keys : Holder[k] = c /\ l = Loaded(k).loc
  <2>1. CASE l \in db.freed[c]
    BY <2>1 DEF IsDb
  <2>2. CASE l \in erased(c)
    <3>1. PICK j \in DOMAIN r.ops : Holder[j] = c /\ l = db.rows[j].loc /\ l # NoLoc
      BY <2>2
    <3>. QED BY <1>2, <3>1 DEF IsDb
  <2>3. new.freed[c] = db.freed[c] \cup erased(c)
    BY <1>1
  <2>. QED BY <1>10, <2>1, <2>2, <2>3
<1>. HIDE DEF erased
<1>. QED BY <1>6, <1>7, <1>8, <1>9, <1>10 DEF IsDb, new

\* The databases that come up while some records are redone, from the first to the last.
Redoes(after, db, records) ==
    /\ after[0] = db
    /\ \A i \in 1 .. Len(records) : after[i] = Redo(after[i - 1], records[i])

\* Redo of a list of records redoes one after the other.
LEMMA RedoAllIs ==
    ASSUME NEW db, NEW records, Len(records) \in Nat
    PROVE  \E after : Redoes(after, db, records) /\ RedoAll(db, records) = after[Len(records)]
<1>. DEFINE len == Len(records)
            Goes(f, n) == f = [i \in 0 .. n |-> IF i = 0 THEN db ELSE Redo(f[i - 1], records[i])]
            T == {n \in 0 .. len : \E f : Goes(f, n)}
<1>1. 0 \in T
  <2>1. Goes([i \in 0 .. 0 |-> db], 0)
    OBVIOUS
  <2>. HIDE DEF Goes
  <2>2. 0 \in 0 .. len /\ \E f : Goes(f, 0)
    BY <2>1
  <2>. QED BY <2>2
<1>2. ASSUME NEW n \in 0 .. len, n \in T, n < len
      PROVE  n + 1 \in T
  <2>1. PICK f : Goes(f, n)
    BY <1>2
  <2>. DEFINE last == Redo(f[n], records[n + 1])
              g == [i \in 0 .. n + 1 |-> IF i = n + 1 THEN last ELSE f[i]]
  <2>2. \A i \in 0 .. n : f[i] = IF i = 0 THEN db ELSE Redo(f[i - 1], records[i])
    BY <2>1
  <2>3. \A i \in 0 .. n + 1 : g[i] = IF i = 0 THEN db ELSE Redo(g[i - 1], records[i])
    <3>1. TAKE i \in 0 .. n + 1
    <3>2. CASE i = n + 1
      <4>1. g[i] = last /\ g[i - 1] = f[n] /\ i # 0
        BY <3>2
      <4>. QED BY <3>2, <4>1
    <3>3. CASE i # n + 1
      <4>1. i \in 0 .. n /\ g[i] = f[i] /\ i # 0 => g[i - 1] = f[i - 1]
        BY <3>3
      <4>2. i \in 0 .. n /\ g[i] = f[i]
        BY <3>3
      <4>3. i # 0 => g[i - 1] = f[i - 1]
        BY <4>2
      <4>. QED BY <2>2, <4>2, <4>3
    <3>. QED BY <3>2, <3>3
  <2>. HIDE DEF last
  <2>4. Goes(g, n + 1)
    <3>1. g = [i \in 0 .. n + 1 |-> g[i]]
      OBVIOUS
    <3>. HIDE DEF g
    <3>. QED BY <2>3, <3>1
  <2>. HIDE DEF Goes, g
  <2>5. n + 1 \in 0 .. len /\ \E x : Goes(x, n + 1)
    BY <1>2, <2>4
  <2>. QED BY <2>5
<1>3. PICK f : Goes(f, len)
  <2>1. 0 .. len \subseteq T
    <3>. HIDE DEF T
    <3>. QED BY <1>1, <1>2, UpTo
  <2>. QED BY <2>1
<1>. DEFINE h == CHOOSE x : Goes(x, len)
<1>4. Goes(h, len)
  BY <1>3
<1>5. RedoAll(db, records) = h[len]
  BY DEF RedoAll
<1>. HIDE DEF h
<1>6. Redoes(h, db, records)
  BY <1>4 DEF Redoes
<1>. QED BY <1>5, <1>6

\* So it leaves a database.
LEMMA RedoAllIsDb ==
    ASSUME TypeInv, NEW db, IsDb(db), NEW records \in Seq(Records)
    PROVE  IsDb(RedoAll(db, records))
<1>1. PICK after : /\ Redoes(after, db, records)
                   /\ RedoAll(db, records) = after[Len(records)]
  BY RedoAllIs
<1>. DEFINE T == {i \in 0 .. Len(records) : IsDb(after[i])}
<1>2. 0 \in T
  BY <1>1 DEF Redoes
<1>3. ASSUME NEW i \in 0 .. Len(records), i \in T, i < Len(records)
      PROVE  i + 1 \in T
  <2>1. records[i + 1] \in Records /\ i + 1 \in 1 .. Len(records) /\ (i + 1) - 1 = i
    BY <1>3
  <2>2. after[i + 1] = Redo(after[i], records[i + 1])
    BY <1>1, <2>1 DEF Redoes
  <2>. QED BY <1>3, <2>1, <2>2, RedoneIsDb
<1>. HIDE DEF T
<1>4. 0 .. Len(records) \subseteq T
  <2>1. Len(records) \in Nat
    OBVIOUS
  <2>. QED BY <1>2, <1>3, <2>1, UpTo
<1>5. Len(records) \in T
  <2>1. Len(records) \in 0 .. Len(records)
    OBVIOUS
  <2>. QED BY <1>4, <2>1
<1>. QED BY <1>1, <1>5 DEF T

-----------------------------------------------------------------------------
\* The files that recovery reads

\* Redo starts at some LSN.
LEMMA RedoStartIs ==
    ASSUME TypeInv
    PROVE  /\ \A c \in Containers : StartOf(c) \in Nat /\ RedoStart <= StartOf(c)
           /\ RedoStart \in Nat /\ \E c \in Containers : RedoStart = StartOf(c)
<1>. DEFINE S == {StartOf(c) : c \in Containers}
<1>1. \A c \in Containers : StartOf(c) \in Nat
  BY DEF TypeInv, CkptTyped, StartOf
<1>2. S \subseteq Nat /\ S # {}
  BY <1>1, ContainersAssumption
<1>3. RedoStart = Min(S)
  BY DEF RedoStart
<1>4. Min(S) \in S /\ \A y \in S : Min(S) <= y
  <2>. HIDE DEF S
  <2>. QED BY <1>2, MinOfNats
<1>. QED BY <1>1, <1>2, <1>3, <1>4

\* The files that are read have numbers for names, of which one is the last.
LEMMA FilesReadAre ==
    ASSUME TypeInv
    PROVE  /\ FilesRead \subseteq LogNames
           /\ LogNames \subseteq Nat \cap DOMAIN files
           /\ \E b \in Nat : \A n \in LogNames : n <= b
           /\ \A n \in LogNames : WholePart(files[n]) \in Seq(Records)
           /\ \A n \in LogNames : ToRedo(n) \in Seq(Records)
<1>1. FilesRead \subseteq LogNames
  BY DEF FilesRead, FilesFrom
<1>2. LogNames \subseteq Nat \cap DOMAIN files
  BY DEF LogNames, Misnamed, TypeInv, FilesTyped, Lsns
<1>3. \E b \in Nat : \A n \in LogNames : n <= b
  BY <1>2 DEF TypeInv, FilesTyped
<1>4. \A n \in LogNames : WholePart(files[n]) \in Seq(Records)
  <2>1. \A n \in LogNames : files[n] \in Seq(Records)
    BY <1>2 DEF TypeInv, FilesTyped
  <2>. QED BY <2>1, WholePartIs
<1>5. \A n \in LogNames : ToRedo(n) \in Seq(Records)
  <2>1. RedoStart \in Int
    BY RedoStartIs
  <2>2. \A n \in LogNames : From(WholePart(files[n]), RedoStart) \in Seq(Records)
    BY <1>4, <2>1, FromIs
  <2>. HIDE DEF Records
  <2>. QED BY <1>4, <2>2 DEF ToRedo
<1>. QED BY <1>1, <1>2, <1>3, <1>4, <1>5

\* Some of them are the last of all.
LEMMA LastOfFiles ==
    ASSUME TypeInv, NEW S, S \subseteq LogNames, S # {}
    PROVE  Max(S) \in S /\ \A n \in S : n <= Max(S)
BY FilesReadAre, MaxOfNats

\* Recovery gets to the LSN of some record, or to one of two that stand for none.
LEMMA ReachedIs ==
    ASSUME TypeInv
    PROVE  Reached \in Lsns
<1>. DEFINE full == {n \in FilesRead : WholePart(files[n]) # <<>>}
<1>1. CASE full = {}
  BY <1>1 DEF Reached, Lsns
<1>2. CASE full # {}
  <2>1. Max(full) \in full
    <3>1. full \subseteq LogNames
      BY FilesReadAre
    <3>. HIDE DEF full
    <3>. QED BY <1>2, <3>1, LastOfFiles
  <2>. DEFINE f == WholePart(files[Max(full)])
  <2>2. f \in Seq(Records) /\ f # <<>>
    BY <2>1, FilesReadAre
  <2>. HIDE DEF f
  <2>3. Len(f) \in 1 .. Len(f)
    BY <2>2
  <2>4. Last(f).lsn \in Nat
    <3>1. f[Len(f)] \in Records
      BY <2>2, <2>3
    <3>. QED BY <3>1 DEF Last, Records
  <2>5. Reached \in {0, -1, Last(f).lsn}
    BY DEF Reached, f
  <2>. QED BY <2>4, <2>5 DEF Lsns
<1>. QED BY <1>1, <1>2

\* The name of the last file that is read, and the databases that come up while the files
\* are read, from the first to the last.
LastRead == IF FilesRead = {} THEN 0 ELSE Max(FilesRead)
Reading(n, before) == IF n \in FilesRead THEN RedoAll(before, ToRedo(n)) ELSE before
Reads(after) ==
    /\ after[0] = Reading(0, Checkpoints)
    /\ \A n \in 1 .. LastRead : after[n] = Reading(n, after[n - 1])

\* No file that is read is behind it.
LEMMA LastReadIs ==
    ASSUME TypeInv
    PROVE  LastRead \in Nat /\ \A n \in FilesRead : n <= LastRead
<1>1. CASE FilesRead = {}
  BY <1>1 DEF LastRead
<1>2. CASE FilesRead # {}
  BY <1>2, LastOfFiles, FilesReadAre DEF LastRead
<1>. QED BY <1>1, <1>2

\* Recovery reads one after the other.
LEMMA RecoveredIs ==
    ASSUME TypeInv
    PROVE  \E after : Reads(after) /\ Recovered = after[LastRead]
<1>. DEFINE Goes(f, m) == f = [n \in 0 .. m |-> Reading(n, IF n = 0 THEN Checkpoints ELSE f[n - 1])]
            T == {m \in 0 .. LastRead : \E f : Goes(f, m)}
<1>0. LastRead \in Nat
  BY LastReadIs
<1>1. 0 \in T
  <2>1. Goes([n \in 0 .. 0 |-> Reading(0, Checkpoints)], 0)
    OBVIOUS
  <2>. HIDE DEF Goes
  <2>2. 0 \in 0 .. LastRead /\ \E f : Goes(f, 0)
    BY <1>0, <2>1
  <2>. QED BY <2>2
<1>2. ASSUME NEW m \in 0 .. LastRead, m \in T, m < LastRead
      PROVE  m + 1 \in T
  <2>1. PICK f : Goes(f, m)
    BY <1>2
  <2>. DEFINE last == Reading(m + 1, f[m])
              g == [n \in 0 .. m + 1 |-> IF n = m + 1 THEN last ELSE f[n]]
  <2>2. \A n \in 0 .. m : f[n] = Reading(n, IF n = 0 THEN Checkpoints ELSE f[n - 1])
    BY <2>1
  <2>3. \A n \in 0 .. m + 1 : g[n] = Reading(n, IF n = 0 THEN Checkpoints ELSE g[n - 1])
    <3>1. TAKE n \in 0 .. m + 1
    <3>2. CASE n = m + 1
      <4>1. g[n] = last /\ g[n - 1] = f[m] /\ n # 0
        BY <1>0, <3>2
      <4>. QED BY <3>2, <4>1
    <3>3. CASE n # m + 1
      <4>1. n \in 0 .. m /\ g[n] = f[n]
        BY <1>0, <3>3
      <4>2. n # 0 => g[n - 1] = f[n - 1]
        BY <1>0, <4>1
      <4>. QED BY <2>2, <4>1, <4>2
    <3>. QED BY <3>2, <3>3
  <2>. HIDE DEF last
  <2>4. Goes(g, m + 1)
    <3>1. g = [n \in 0 .. m + 1 |-> g[n]]
      OBVIOUS
    <3>. HIDE DEF g
    <3>. QED BY <2>3, <3>1
  <2>. HIDE DEF Goes, g
  <2>5. m + 1 \in 0 .. LastRead /\ \E x : Goes(x, m + 1)
    BY <1>0, <1>2, <2>4
  <2>. QED BY <2>5
<1>3. PICK f : Goes(f, LastRead)
  <2>1. 0 .. LastRead \subseteq T
    <3>. HIDE DEF T
    <3>. QED BY <1>0, <1>1, <1>2, UpTo
  <2>. QED BY <1>0, <2>1
<1>. DEFINE h == CHOOSE x : Goes(x, LastRead)
<1>4. Goes(h, LastRead)
  BY <1>3
<1>5. Recovered = h[LastRead]
  <2>. DEFINE last == IF FilesRead = {} THEN 0 ELSE Max(FilesRead)
              Goes2(x) == x = [n \in 0 .. last |->
                  IF n \in FilesRead
                  THEN RedoAll(IF n = 0 THEN Checkpoints ELSE x[n - 1], ToRedo(n))
                  ELSE IF n = 0 THEN Checkpoints ELSE x[n - 1]]
  <2>1. Recovered = (CHOOSE x : Goes2(x))[last]
    BY DEF Recovered
  <2>2. last = LastRead
    BY DEF LastRead
  <2>3. \A x : Goes2(x) <=> Goes(x, LastRead)
    BY DEF Reading, LastRead
  <2>. HIDE DEF Goes, Goes2, last
  <2>4. (CHOOSE x : Goes2(x)) = (CHOOSE x : Goes(x, LastRead))
    BY <2>3
  <2>. QED BY <2>1, <2>2, <2>4 DEF h
<1>. HIDE DEF h
<1>6. Reads(h)
  BY <1>0, <1>4 DEF Reads
<1>. QED BY <1>5, <1>6

\* So it leaves a database.
LEMMA RecoveredIsDb ==
    ASSUME TypeInv
    PROVE  IsDb(Recovered)
<1>0. LastRead \in Nat
  BY LastReadIs
<1>1. PICK after : Reads(after) /\ Recovered = after[LastRead]
  BY RecoveredIs
<1>. DEFINE T == {n \in 0 .. LastRead : IsDb(after[n])}
<1>2. ASSUME NEW n, NEW db, IsDb(db)
      PROVE  IsDb(Reading(n, db))
  <2>1. CASE n \in FilesRead
    <3>1. ToRedo(n) \in Seq(Records)
      BY <2>1, FilesReadAre
    <3>. QED BY <1>2, <2>1, <3>1, RedoAllIsDb DEF Reading
  <2>2. CASE n \notin FilesRead
    BY <1>2, <2>2 DEF Reading
  <2>. QED BY <2>1, <2>2
<1>3. 0 \in T
  BY <1>0, <1>1, <1>2, CheckpointsAreDb DEF Reads
<1>4. ASSUME NEW n \in 0 .. LastRead, n \in T, n < LastRead
      PROVE  n + 1 \in T
  <2>1. n + 1 \in 1 .. LastRead /\ (n + 1) - 1 = n
    BY <1>0, <1>4
  <2>2. after[n + 1] = Reading(n + 1, after[n])
    BY <1>1, <2>1 DEF Reads
  <2>3. n + 1 \in 0 .. LastRead
    BY <2>1
  <2>. QED BY <1>2, <1>4, <2>2, <2>3
<1>. HIDE DEF T
<1>5. 0 .. LastRead \subseteq T
  BY <1>0, <1>3, <1>4, UpTo
<1>6. LastRead \in T
  BY <1>0, <1>5
<1>. QED BY <1>1, <1>6 DEF T

-----------------------------------------------------------------------------
\* Types are kept

\* Initially they are right.
LEMMA TypeInvInit == Init => TypeInv
<1>. SUFFICES ASSUME Init PROVE TypeInv
  OBVIOUS
<1>1. TakenInv
  BY TakenInvInit
<1>2. RegionTyped
  <2>1. \A k \in Keys : rows[k] \in RowType
    BY NoRowIs DEF Init
  <2>. HIDE DEF RowType
  <2>. QED BY <2>1, SizesAssumption DEF Init, RegionTyped
<1>3. LogTyped
  BY SizesAssumption DEF Init, LogTyped, NoFile, Lsns
<1>4. TxnsTyped
  BY DEF Init, TxnsTyped, Stages
<1>5. FilesTyped
  BY DEF Init, FilesTyped
<1>6. CkptTyped
  <2>1. NoMeta \in Metas /\ NoMeta.start <= NoMeta.end
    BY DEF NoMeta, Metas, Lsns
  <2>2. Idle \in Ckpts
    BY DEF Idle, Ckpts, Lsns, Writing
  <2>3. ckpt.at = "off"
    BY DEF Init, Idle
  <2>. HIDE DEF NoMeta, Idle, Metas, Ckpts
  <2>. QED BY <2>1, <2>2, <2>3 DEF Init, CkptTyped, Writing
<1>7. Closed
  BY DEF Init, Closed
<1>. QED BY <1>1, <1>2, <1>3, <1>4, <1>5, <1>6, <1>7 DEF TypeInv

\* What leaves the variables of a part alone keeps its types.
LEMMA PartsKept ==
    /\ RegionTyped /\ UNCHANGED <<phase, rows, freed, ckpt_history, exposed, crashes>> => RegionTyped'
    /\ LogTyped /\ UNCHANGED <<last_write, log_filename, log_len, writer, pc>> => LogTyped'
    /\ TxnsTyped /\ UNCHANGED <<pc, lsn, kind>> => TxnsTyped'
    /\ FilesTyped /\ UNCHANGED files => FilesTyped'
    /\ CkptTyped /\ UNCHANGED <<meta, image, ckpt, last_write>> => CkptTyped'
    /\ Closed /\ UNCHANGED <<phase, ckpt, writer, rows, freed>> => Closed'
<1>. USE DEF RegionTyped, LogTyped, TxnsTyped, FilesTyped, CkptTyped, Closed
<1>1. RegionTyped /\ UNCHANGED <<phase, rows, freed, ckpt_history, exposed, crashes>> => RegionTyped'
  OBVIOUS
<1>2. LogTyped /\ UNCHANGED <<last_write, log_filename, log_len, writer, pc>> => LogTyped'
  OBVIOUS
<1>3. TxnsTyped /\ UNCHANGED <<pc, lsn, kind>> => TxnsTyped'
  OBVIOUS
<1>4. FilesTyped /\ UNCHANGED files => FilesTyped'
  OBVIOUS
<1>5. CkptTyped /\ UNCHANGED <<meta, image, ckpt, last_write>> => CkptTyped'
  OBVIOUS
<1>6. Closed /\ UNCHANGED <<phase, ckpt, writer, rows, freed>> => Closed'
  OBVIOUS
<1>. QED BY <1>1, <1>2, <1>3, <1>4, <1>5, <1>6

\* A transaction changes keys of the database, each by "put" or "erase".
LEMMA KeysOfIs ==
    ASSUME NEW t \in Txns
    PROVE  KeysOf(t) \subseteq Keys
BY ChangesAssumption DEF KeysOf

\* Operations leave row locks.
LEMMA OperateTypes ==
    ASSUME TypeInv, NEW t \in Txns, Operate(t)
    PROVE  RegionTyped' /\ LogTyped' /\ TxnsTyped' /\ FilesTyped' /\ CkptTyped' /\ Closed'
<1>1. RegionTyped'
  <2>1. \A k \in Keys : rows[k] \in RowType /\ [rows[k] EXCEPT !.locker = t] \in RowType
    BY DEF TypeInv, RegionTyped, RowType
  <2>2. rows' \in [Keys -> RowType]
    <3>. HIDE DEF RowType
    <3>. QED BY <2>1 DEF Operate
  <2>. QED BY <2>2 DEF Operate, TypeInv, RegionTyped, disk
<1>2. LogTyped'
  <2>1. writer # NoTxn => writer # t
    BY DEF Operate, TypeInv, LogTyped, TxnsTyped
  <2>2. pc' = [pc EXCEPT ![t] = "pending"] /\ UNCHANGED log
    BY DEF Operate, Goto
  <2>. QED BY <2>1, <2>2 DEF TypeInv, LogTyped, TxnsTyped, log
<1>3. TxnsTyped'
  <2>. DEFINE new == [k \in KeysOf(t) |-> IF Changes[t][k] = "erase" THEN "erase"
                               ELSE IF Committed(rows[k]) THEN "update" ELSE "insert"]
  <2>1. new \in [KeysOf(t) -> Kinds]
    BY DEF Kinds
  <2>2. kind' = [kind EXCEPT ![t] = new] /\ UNCHANGED lsn /\ pc' = [pc EXCEPT ![t] = "pending"]
    BY DEF Operate, Goto
  <2>. HIDE DEF new
  <2>3. DOMAIN kind' = Txns /\ kind'[t] = new /\ \A u \in Txns \ {t} : kind'[u] = kind[u]
    BY <2>2 DEF TypeInv, TxnsTyped
  <2>4. pc' \in [Txns -> Stages] /\ \A u \in Txns \ {t} : pc'[u] = pc[u]
    BY <2>2 DEF TypeInv, TxnsTyped, Stages
  <2>5. \A u \in Txns : \A k \in DOMAIN kind'[u] : kind'[u][k] \in Kinds
    BY <2>1, <2>3 DEF TypeInv, TxnsTyped
  <2>6. \A u \in Txns : pc'[u] \in {"pending", "logging", "logged"} =>
            kind'[u] \in [KeysOf(u) -> Kinds]
    BY <2>1, <2>3, <2>4 DEF TypeInv, TxnsTyped
  <2>. QED BY <2>2, <2>3, <2>4, <2>5, <2>6 DEF TypeInv, TxnsTyped
<1>4. FilesTyped' /\ CkptTyped'
  BY PartsKept DEF Operate, TypeInv, disk, log
<1>5. Closed'
  BY DEF Operate, Closed
<1>. QED BY <1>1, <1>2, <1>3, <1>4, <1>5

\* Rollback takes them back.
LEMMA RollbackTypes ==
    ASSUME TypeInv, NEW t \in Txns, Rollback(t)
    PROVE  RegionTyped' /\ LogTyped' /\ TxnsTyped' /\ FilesTyped' /\ CkptTyped' /\ Closed'
<1>1. RegionTyped'
  <2>1. \A k \in Keys : rows[k] \in RowType /\ [rows[k] EXCEPT !.locker = NoTxn] \in RowType
    BY DEF TypeInv, RegionTyped, RowType
  <2>2. rows' \in [Keys -> RowType]
    <3>. HIDE DEF RowType
    <3>. QED BY <2>1, NoRowIs DEF Rollback
  <2>. QED BY <2>2 DEF Rollback, TypeInv, RegionTyped, disk
<1>2. LogTyped'
  <2>1. writer # NoTxn => writer # t
    BY DEF Rollback, TypeInv, LogTyped, TxnsTyped
  <2>2. pc' = [pc EXCEPT ![t] = "rolledback"] /\ UNCHANGED log
    BY DEF Rollback, Goto
  <2>. QED BY <2>1, <2>2 DEF TypeInv, LogTyped, TxnsTyped, log
<1>3. TxnsTyped'
  <2>1. UNCHANGED <<kind, lsn>> /\ pc' = [pc EXCEPT ![t] = "rolledback"]
    BY DEF Rollback, Goto
  <2>2. pc' \in [Txns -> Stages] /\ pc'[t] = "rolledback" /\ \A u \in Txns \ {t} : pc'[u] = pc[u]
    BY <2>1 DEF TypeInv, TxnsTyped, Stages
  <2>. QED BY <2>1, <2>2 DEF TypeInv, TxnsTyped
<1>4. FilesTyped' /\ CkptTyped'
  BY PartsKept DEF Rollback, TypeInv, disk, log
<1>5. Closed'
  BY DEF Rollback, Closed
<1>. QED BY <1>1, <1>2, <1>3, <1>4, <1>5

\* Opening the log may create a file.
LEMMA OpenLogTypes ==
    ASSUME TypeInv, NEW t \in Txns, OpenLog(t)
    PROVE  RegionTyped' /\ LogTyped' /\ TxnsTyped' /\ FilesTyped' /\ CkptTyped' /\ Closed'
<1>0. /\ writer = NoTxn /\ writer' = t /\ pc[t] = "pending" /\ pc' = [pc EXCEPT ![t] = "logging"]
      /\ UNCHANGED <<last_write, lsn, kind>>
  BY DEF OpenLog, Goto
<1>1. NextFile \in Lsns
  BY DEF NextFile, Rolls, TypeInv, LogTyped
<1>2. LogTyped'
  <2>1. log_filename' = NextFile /\ log_len' = IF Rolls THEN 0 ELSE log_len
    BY DEF OpenLog
  <2>2. log_len' \in 0 .. LogMaxLen /\ log_len' < LogMaxLen
    BY <2>1, SizesAssumption DEF Rolls, TypeInv, LogTyped
  <2>3. pc'[t] = "logging"
    BY <1>0 DEF TypeInv, TxnsTyped
  <2>. QED BY <1>0, <1>1, <2>1, <2>2, <2>3 DEF TypeInv, LogTyped
<1>3. TxnsTyped'
  <2>1. pc' \in [Txns -> Stages] /\ \A u \in Txns \ {t} : pc'[u] = pc[u]
    BY <1>0 DEF TypeInv, TxnsTyped, Stages
  <2>. QED BY <1>0, <2>1 DEF TypeInv, TxnsTyped
<1>4. FilesTyped'
  <2>1. /\ DOMAIN files' = DOMAIN files \cup {NextFile}
        /\ \A n \in DOMAIN files' : files'[n] = IF n \in DOMAIN files THEN files[n] ELSE <<>>
    BY DEF OpenLog
  <2>2. PICK b \in Nat : \A n \in DOMAIN files : n <= b
    BY DEF TypeInv, FilesTyped
  <2>3. \E d \in Nat : \A n \in DOMAIN files' : n <= d
    <3>1. DOMAIN files \subseteq Int /\ NextFile \in Int
      BY <1>1 DEF TypeInv, FilesTyped, Lsns
    <3>2. CASE NextFile <= b
      BY <2>1, <2>2, <3>2
    <3>3. CASE b < NextFile
      <4>1. NextFile \in Nat /\ \A n \in DOMAIN files' : n <= NextFile
        BY <2>1, <2>2, <3>1, <3>3
      <4>. QED BY <4>1
    <3>. QED BY <3>1, <3>2, <3>3
  <2>4. \A n \in DOMAIN files' : files'[n] \in Seq(Records)
    <3>1. \A n \in DOMAIN files : files[n] \in Seq(Records)
      BY DEF TypeInv, FilesTyped
    <3>2. <<>> \in Seq(Records)
      OBVIOUS
    <3>. QED BY <2>1, <3>1, <3>2
  <2>. QED BY <1>1, <2>1, <2>3, <2>4 DEF TypeInv, FilesTyped
<1>5. RegionTyped' /\ CkptTyped'
  BY PartsKept DEF OpenLog, TypeInv, memory
<1>6. Closed'
  BY DEF OpenLog, Closed
<1>. QED BY <1>2, <1>3, <1>4, <1>5, <1>6

\* A record that gets into a file, whole or torn, is one more or takes the place of one.
LEMMA WrittenIs ==
    ASSUME TypeInv, writer # NoTxn, NEW torn \in BOOLEAN
    PROVE  /\ DOMAIN Written(writer, torn) = DOMAIN files
           /\ \A n \in DOMAIN files \ {log_filename} : Written(writer, torn)[n] = files[n]
           /\ log_filename \in DOMAIN files =>
                LET f == files[log_filename]
                    g == Written(writer, torn)[log_filename]
                    r == Record(writer, torn) IN
                /\ r \in Records /\ g \in Seq(Records)
                /\ g[log_len + 1] = r \/ Len(f) < log_len
                /\ Len(f) = log_len => g = Append(f, r)
<1>1. writer \in Txns /\ pc[writer] = "logging" /\ kind[writer] \in [KeysOf(writer) -> Kinds]
  BY DEF TypeInv, LogTyped, TxnsTyped
<1>2. Record(writer, torn) \in Records
  <2>1. kind[writer] \in Ops
    BY <1>1, KeysOfIs DEF Ops
  <2>2. last_write + 1 \in Nat
    BY DEF TypeInv, LogTyped, Lsns
  <2>. QED BY <1>1, <2>1, <2>2 DEF Record, Records
<1>. DEFINE f == files[log_filename]
            r == Record(writer, torn)
            g == IF log_len + 1 <= Len(f) THEN [f EXCEPT ![log_len + 1] = r] ELSE Append(f, r)
<1>3. Written(writer, torn) = [files EXCEPT ![log_filename] = g]
  BY DEF Written
<1>4. ASSUME log_filename \in DOMAIN files
      PROVE  /\ g \in Seq(Records)
             /\ g[log_len + 1] = r \/ Len(f) < log_len
             /\ Len(f) = log_len => g = Append(f, r)
  <2>1. f \in Seq(Records) /\ log_len \in Nat
    BY <1>4 DEF TypeInv, FilesTyped, LogTyped
  <2>. HIDE DEF f, r
  <2>2. r \in Records
    BY <1>2 DEF r
  <2>. HIDE DEF Records
  <2>3. CASE log_len + 1 <= Len(f)
    <3>1. log_len + 1 \in 1 .. Len(f)
      BY <2>1, <2>3
    <3>2. [f EXCEPT ![log_len + 1] = r] \in Seq(Records)
      BY <2>1, <2>2, <3>1
    <3>3. [f EXCEPT ![log_len + 1] = r][log_len + 1] = r
      BY <2>1, <3>1
    <3>. QED BY <2>1, <2>3, <3>2, <3>3
  <2>4. CASE ~(log_len + 1 <= Len(f))
    <3>1. Len(f) <= log_len /\ Len(f) \in Nat
      BY <2>1, <2>4
    <3>2. Append(f, r) \in Seq(Records) /\ Append(f, r)[Len(f) + 1] = r
      BY <2>1, <2>2
    <3>. QED BY <2>1, <2>4, <3>1, <3>2
  <2>. QED BY <2>3, <2>4
<1>. HIDE DEF g
<1>. QED BY <1>2, <1>3, <1>4

\* So the files stay files.
LEMMA WrittenTypes ==
    ASSUME TypeInv, writer # NoTxn, NEW torn \in BOOLEAN, files' = Written(writer, torn)
    PROVE  FilesTyped'
<1>1. DOMAIN files' = DOMAIN files
  BY WrittenIs
<1>2. \A n \in DOMAIN files : files'[n] \in Seq(Records)
  <2>1. \A n \in DOMAIN files : n # log_filename => files'[n] = files[n]
    BY WrittenIs
  <2>2. log_filename \in DOMAIN files => files'[log_filename] \in Seq(Records)
    BY WrittenIs
  <2>. QED BY <2>1, <2>2 DEF TypeInv, FilesTyped
<1>. QED BY <1>1, <1>2 DEF TypeInv, FilesTyped

\* Writing the record ends with an LSN for the transaction.
LEMMA WriteLogTypes ==
    ASSUME TypeInv, NEW t \in Txns, WriteLog(t)
    PROVE  RegionTyped' /\ LogTyped' /\ TxnsTyped' /\ FilesTyped' /\ CkptTyped' /\ Closed'
<1>0. /\ writer = t /\ writer' = NoTxn /\ pc' = [pc EXCEPT ![t] = "logged"]
      /\ lsn' = [lsn EXCEPT ![t] = last_write + 1]
      /\ last_write' = last_write + 1 /\ log_len' = log_len + 1
      /\ files' = Written(t, FALSE)
      /\ UNCHANGED <<log_filename, kind>>
      /\ writer # NoTxn
  BY NobodyAssumption DEF WriteLog, Goto
<1>1. last_write \in Lsns /\ last_write' \in Nat /\ last_write <= last_write'
  BY <1>0 DEF TypeInv, LogTyped, Lsns
<1>2. LogTyped'
  BY <1>0, <1>1, SizesAssumption DEF TypeInv, LogTyped, Lsns
<1>3. TxnsTyped'
  <2>1. pc[t] = "logging"
    BY <1>0 DEF TypeInv, LogTyped
  <2>2. pc' \in [Txns -> Stages] /\ lsn' \in [Txns -> Nat] /\ \A u \in Txns \ {t} : pc'[u] = pc[u]
    BY <1>0, <1>1 DEF TypeInv, TxnsTyped, Stages
  <2>. QED BY <1>0, <2>1, <2>2 DEF TypeInv, TxnsTyped
<1>4. FilesTyped'
  BY <1>0, WrittenTypes
<1>5. CkptTyped'
  <2>1. UNCHANGED <<meta, image, ckpt>>
    BY DEF WriteLog
  <2>2. ckpt.at \in Writing => ckpt.start \in Nat /\ ckpt.start <= last_write'
    BY <1>0, <1>1 DEF TypeInv, CkptTyped, Lsns
  <2>. QED BY <2>1, <2>2 DEF TypeInv, CkptTyped
<1>6. RegionTyped'
  BY PartsKept DEF WriteLog, TypeInv, memory
<1>7. Closed'
  BY DEF WriteLog, Closed
<1>. QED BY <1>2, <1>3, <1>4, <1>5, <1>6, <1>7

\* Phase 3 of commit makes rows of the pending changes.
LEMMA ApplyTypes ==
    ASSUME TypeInv, NEW t \in Txns, Apply(t)
    PROVE  RegionTyped' /\ LogTyped' /\ TxnsTyped' /\ FilesTyped' /\ CkptTyped' /\ Closed'
<1>1. RegionTyped'
  <2>1. \A k \in Keys : rows[k] \in RowType
    BY DEF TypeInv, RegionTyped
  <2>2. \A k \in Keys : Applied(rows[k], kind[t][k], t, lsn[t]) \in RowType
    <3>1. lsn[t] \in Lsns
      BY DEF TypeInv, TxnsTyped, Lsns
    <3>2. \A k \in Keys : Row(t, lsn[t], rows[k].loc) \in RowType
      BY <2>1, <3>1 DEF Row, RowType
    <3>. HIDE DEF RowType
    <3>. QED BY <3>2, NoRowIs DEF Applied
  <2>3. rows' \in [Keys -> RowType]
    <3>. HIDE DEF RowType
    <3>. QED BY <2>1, <2>2 DEF Apply
  <2>4. \A c \in Containers : FreedBy(t, c) \subseteq Locations
    BY <2>1, KeysOfIs DEF FreedBy, RowType
  <2>5. freed' \in [Containers -> SUBSET Locations]
    <3>. HIDE DEF FreedBy
    <3>. QED BY <2>4 DEF Apply, TypeInv, RegionTyped
  <2>. QED BY <2>3, <2>5 DEF Apply, TypeInv, RegionTyped, disk
<1>0. pc[t] = "logged" /\ pc' = [pc EXCEPT ![t] = "committed"] /\ UNCHANGED <<log, lsn, kind>>
  BY DEF Apply, Goto
<1>2. LogTyped'
  <2>1. writer # NoTxn => writer # t
    BY <1>0 DEF TypeInv, LogTyped, TxnsTyped
  <2>. QED BY <1>0, <2>1 DEF TypeInv, LogTyped, TxnsTyped, log
<1>3. TxnsTyped'
  <2>1. pc' \in [Txns -> Stages] /\ pc'[t] = "committed" /\ \A u \in Txns \ {t} : pc'[u] = pc[u]
    BY <1>0 DEF TypeInv, TxnsTyped, Stages
  <2>. QED BY <1>0, <2>1 DEF TypeInv, TxnsTyped
<1>4. FilesTyped' /\ CkptTyped'
  BY PartsKept DEF Apply, TypeInv, disk, log
<1>5. Closed'
  BY DEF Apply, Closed
<1>. QED BY <1>1, <1>2, <1>3, <1>4, <1>5

\* A checkpoint record, with some fields changed as a checkpoint changes them.
LEMMA CkptsHave ==
    ASSUME NEW s \in Ckpts
    PROVE  /\ s.at \in {"off", "next"} \cup Writing /\ s.todo \subseteq Containers
           /\ s.c \in Containers \cup {NoContainer} /\ s.start \in Lsns /\ s.end \in Lsns
           /\ s.keys \subseteq Keys /\ s.key \in Keys \cup {0}
           /\ s.prev \in Locations \cup {NoLoc} /\ s.new \in Locations \cup {NoLoc}
           /\ s.used \subseteq Locations /\ s.free \subseteq Locations
BY DEF Ckpts

\* Going on to the next container, or to the end.
LEMMA ContinueIs ==
    ASSUME NEW todo \in SUBSET Containers
    PROVE  /\ Continue(todo) \in Ckpts /\ Continue(todo).at \in {"off", "next"}
           /\ Continue(todo).free = {}
BY DEF Continue, Idle, Ckpts, Lsns, Writing

\* The start of a checkpoint, and the choice of a container.
LEMMA CkptStartTypes ==
    ASSUME TypeInv, CkptStart
    PROVE  RegionTyped' /\ LogTyped' /\ TxnsTyped' /\ FilesTyped' /\ CkptTyped' /\ Closed'
<1>1. LogTyped'
  BY SizesAssumption DEF CkptStart, TypeInv, LogTyped, txns
<1>2. CkptTyped'
  <2>1. ckpt' \in Ckpts /\ ckpt'.at = "next"
    <3>1. ckpt' = [Idle EXCEPT !.at = "next", !.todo = Containers]
      BY DEF CkptStart
    <3>. QED BY <3>1 DEF Idle, Ckpts, Lsns, Writing
  <2>. HIDE DEF Ckpts
  <2>. QED BY <2>1 DEF CkptStart, TypeInv, CkptTyped, Writing, disk
<1>3. RegionTyped' /\ TxnsTyped' /\ FilesTyped'
  BY PartsKept DEF CkptStart, TypeInv, memory, txns, disk
<1>4. Closed'
  BY DEF CkptStart, Closed
<1>. QED BY <1>1, <1>2, <1>3, <1>4

\* The next container is scanned from its first row on, or passed over.
LEMMA CkptContainerTypes ==
    ASSUME TypeInv, NEW c \in Containers, CkptContainer(c)
    PROVE  RegionTyped' /\ LogTyped' /\ TxnsTyped' /\ FilesTyped' /\ CkptTyped' /\ Closed'
<1>1. CkptTyped'
  <2>1. UNCHANGED <<meta, image, last_write>> /\ ckpt.todo \subseteq Containers
    BY DEF CkptContainer, disk, log, TypeInv, CkptTyped, Ckpts
  <2>2. CASE last_write > ckpt_history[c]
    <3>1. ckpt' = [ckpt EXCEPT !.at = "scan", !.c = c, !.start = last_write,
                        !.keys = {k \in Keys : Holder[k] = c}, !.used = meta[c].used]
      BY <2>2 DEF CkptContainer
    <3>2. last_write \in Nat /\ last_write \in Lsns
      BY <2>2 DEF TypeInv, LogTyped, RegionTyped, Lsns
    <3>3. meta[c].used \subseteq Locations
      BY DEF TypeInv, TakenInv
    <3>4. ckpt' \in Ckpts /\ ckpt'.at = "scan" /\ ckpt'.start = last_write
      BY <3>1, <3>2, <3>3 DEF TypeInv, CkptTyped, Ckpts, Writing
    <3>. HIDE DEF Ckpts
    <3>. QED BY <2>1, <3>2, <3>4 DEF TypeInv, CkptTyped
  <2>3. CASE ~(last_write > ckpt_history[c])
    <3>1. ckpt' = Continue(ckpt.todo \ {c})
      BY <2>3 DEF CkptContainer
    <3>2. ckpt' \in Ckpts /\ ckpt'.at \notin Writing
      BY <2>1, <3>1, ContinueIs DEF Writing
    <3>. HIDE DEF Ckpts
    <3>. QED BY <2>1, <3>2 DEF TypeInv, CkptTyped, Writing
  <2>. QED BY <2>2, <2>3
<1>2. RegionTyped' /\ LogTyped' /\ TxnsTyped' /\ FilesTyped'
  BY PartsKept DEF CkptContainer, TypeInv, memory, log, txns, disk
<1>3. Closed'
  BY DEF CkptContainer, Closed
<1>. QED BY <1>1, <1>2, <1>3

\* The next row of a container is one of its keys.
LEMMA NextKeyIs ==
    ASSUME TypeInv, ckpt.keys # {}
    PROVE  Min(ckpt.keys) \in ckpt.keys /\ Min(ckpt.keys) \in Keys
<1>1. ckpt.keys \subseteq Keys
  BY CkptsHave DEF TypeInv, CkptTyped
<1>. QED BY <1>1, KeysAssumption, MinOfNats

\* Copying a row.
LEMMA CkptCopyTypes ==
    ASSUME TypeInv, CkptCopy
    PROVE  RegionTyped' /\ LogTyped' /\ TxnsTyped' /\ FilesTyped' /\ CkptTyped' /\ Closed'
<1>. DEFINE d == ckpt.c
            k == Min(ckpt.keys)
            new == FreePlace(ckpt.used)
<1>1. k \in Keys
  BY NextKeyIs DEF CkptCopy
<1>2. d \in Containers /\ new \in Locations
  <2>1. d \in Containers /\ ckpt.used \subseteq Locations /\ ckpt.used # Locations
    BY DEF CkptCopy, TypeInv, TakenInv, Writing
  <2>. QED BY <2>1, FreePlaceIsFree
<1>3. ckpt \in Ckpts /\ ckpt.at = "scan" /\ UNCHANGED <<meta, last_write>>
  BY DEF CkptCopy, TypeInv, CkptTyped, log
<1>4. rows[k] \in RowType
  BY <1>1 DEF TypeInv, RegionTyped
<1>5. CkptTyped'
  <2>1. CASE IsDue(rows[k], d)
    <3>1. /\ image' = [image EXCEPT ![d] = Overlaid(@, new, ImageOf(k))]
          /\ ckpt' = [ckpt EXCEPT !.at = "copied", !.keys = @ \ {k}, !.key = k,
                                  !.prev = rows[k].loc, !.new = new, !.used = @ \cup {new}]
      BY <2>1 DEF CkptCopy
    <3>2. ImageOf(k) \in Images
      <4>1. rows[k].val \in Txns
        BY <1>4, <2>1 DEF IsDue, Committed, RowType
      <4>2. rows[k].lsn \in Lsns /\ ckpt_history[Holder[k]] + 1 \in Lsns
        <5>1. ckpt_history \in [Containers -> Nat] /\ Holder[k] \in Containers
          BY <1>1, KeysAssumption DEF TypeInv, RegionTyped
        <5>2. ckpt_history[Holder[k]] \in Nat
          BY <5>1
        <5>. QED BY <1>4, <5>2 DEF RowType, Lsns
      <4>. QED BY <1>1, <4>1, <4>2 DEF ImageOf, Images
    <3>3. \A c \in Containers : \A l \in DOMAIN image'[c] : image'[c][l] \in Images
      <4>1. \A l \in DOMAIN image'[d] : image'[d][l] \in {image[d][l], ImageOf(k)} /\
                (image'[d][l] = ImageOf(k) \/ l \in DOMAIN image[d])
        BY <1>2, <3>1 DEF Overlaid, TypeInv, TakenInv
      <4>2. \A c \in Containers \ {d} : image'[c] = image[c]
        BY <3>1
      <4>. HIDE DEF Images, ImageOf, d, k, new
      <4>. QED BY <1>2, <3>2, <4>1, <4>2 DEF TypeInv, CkptTyped
    <3>4. /\ ckpt' \in Ckpts /\ ckpt'.at = "copied" /\ ckpt'.start = ckpt.start
          /\ ckpt'.key = k /\ ckpt'.new = new
      <4>1. rows[k].loc \in Locations \cup {NoLoc}
        BY <1>4 DEF RowType
      <4>. HIDE DEF k, new
      <4>. QED BY <1>1, <1>2, <1>3, <3>1, <4>1 DEF Ckpts, Writing
    <3>. HIDE DEF Ckpts, Images, k, new, d
    <3>. QED BY <1>1, <1>2, <1>3, <3>3, <3>4 DEF TypeInv, CkptTyped, Writing
  <2>2. CASE ~IsDue(rows[k], d)
    <3>1. ckpt' = [ckpt EXCEPT !.keys = @ \ {k}] /\ UNCHANGED image
      BY <2>2 DEF CkptCopy
    <3>2. ckpt' \in Ckpts /\ ckpt'.at = "scan" /\ ckpt'.start = ckpt.start
      BY <1>3, <3>1 DEF Ckpts
    <3>. HIDE DEF Ckpts
    <3>. QED BY <1>3, <3>1, <3>2 DEF TypeInv, CkptTyped, Writing
  <2>. QED BY <2>1, <2>2
<1>6. RegionTyped'
  <2>1. exposed' \subseteq Keys
    BY <1>1 DEF CkptCopy, TypeInv, RegionTyped
  <2>. QED BY <2>1 DEF CkptCopy, TypeInv, RegionTyped, memory
<1>7. LogTyped' /\ TxnsTyped' /\ FilesTyped'
  BY PartsKept DEF CkptCopy, TypeInv, log, txns
<1>8. Closed'
  BY DEF CkptCopy, Closed
<1>. QED BY <1>5, <1>6, <1>7, <1>8

\* Giving the row its new location, taking over freed space, noting the checkpoint.
LEMMA CkptPlaceTypes ==
    ASSUME TypeInv, CkptPlace
    PROVE  RegionTyped' /\ LogTyped' /\ TxnsTyped' /\ FilesTyped' /\ CkptTyped' /\ Closed'
<1>1. /\ ckpt \in Ckpts /\ ckpt.at = "copied" /\ ckpt.key \in Keys /\ ckpt.new \in Locations
      /\ UNCHANGED <<meta, image, last_write>>
  BY DEF CkptPlace, TypeInv, CkptTyped, log, disk
<1>. DEFINE same == Present(rows[ckpt.key]) /\ Offset(rows[ckpt.key].loc) = Offset(ckpt.prev)
<1>2. /\ rows' = IF same THEN [rows EXCEPT ![ckpt.key].loc = ckpt.new] ELSE rows
      /\ ckpt' = [ckpt EXCEPT !.at = "scan", !.free = @ \cup ({Superseded(same)} \ {NoLoc})]
      /\ exposed' = IF same /\ ~Committed(rows[ckpt.key]) THEN exposed \cup {ckpt.key} ELSE exposed
  BY DEF CkptPlace
<1>. HIDE DEF same
<1>3. RegionTyped'
  <2>1. rows[ckpt.key] \in RowType
    BY <1>1 DEF TypeInv, RegionTyped
  <2>2. [rows[ckpt.key] EXCEPT !.loc = ckpt.new] \in RowType
    BY <1>1, <2>1 DEF RowType
  <2>3. rows' \in [Keys -> RowType]
    <3>. HIDE DEF RowType
    <3>. QED BY <1>1, <1>2, <2>2 DEF TypeInv, RegionTyped
  <2>4. exposed' \subseteq Keys
    BY <1>1, <1>2 DEF TypeInv, RegionTyped
  <2>. QED BY <2>3, <2>4 DEF CkptPlace, TypeInv, RegionTyped
<1>4. CkptTyped'
  <2>1. Superseded(same) \in Locations \cup {NoLoc}
    BY <1>1, CkptsHave DEF Superseded
  <2>2. ckpt' \in Ckpts /\ ckpt'.at = "scan" /\ ckpt'.start = ckpt.start
    BY <1>1, <1>2, <2>1 DEF Ckpts, Writing
  <2>. HIDE DEF Ckpts
  <2>. QED BY <1>1, <2>2 DEF TypeInv, CkptTyped, Writing
<1>5. LogTyped' /\ TxnsTyped' /\ FilesTyped'
  BY PartsKept DEF CkptPlace, TypeInv, log, txns, disk
<1>6. Closed'
  BY DEF CkptPlace, Closed
<1>. QED BY <1>3, <1>4, <1>5, <1>6

\* The end of save_checkpoint().
LEMMA CkptTakeFreedTypes ==
    ASSUME TypeInv, CkptTakeFreed
    PROVE  RegionTyped' /\ LogTyped' /\ TxnsTyped' /\ FilesTyped' /\ CkptTyped' /\ Closed'
<1>1. /\ ckpt \in Ckpts /\ ckpt.at = "scan" /\ ckpt.c \in Containers
      /\ UNCHANGED <<meta, image, last_write>>
  BY DEF CkptTakeFreed, TypeInv, CkptTyped, TakenInv, Writing, log, disk
<1>2. freed[ckpt.c] \subseteq Locations
  BY <1>1 DEF TypeInv, RegionTyped
<1>3. RegionTyped'
  BY <1>1 DEF CkptTakeFreed, TypeInv, RegionTyped
<1>4. CkptTyped'
  <2>1. ckpt' = [ckpt EXCEPT !.at = "saved", !.free = @ \cup freed[ckpt.c]]
    BY DEF CkptTakeFreed, TakenOver
  <2>2. ckpt' \in Ckpts /\ ckpt'.at = "saved" /\ ckpt'.start = ckpt.start
    BY <1>1, <1>2, <2>1 DEF Ckpts, Writing
  <2>. HIDE DEF Ckpts
  <2>. QED BY <1>1, <2>2 DEF TypeInv, CkptTyped, Writing
<1>5. LogTyped' /\ TxnsTyped' /\ FilesTyped'
  BY PartsKept DEF CkptTakeFreed, TypeInv, log, txns, disk
<1>6. Closed'
  BY DEF CkptTakeFreed, Closed
<1>. QED BY <1>3, <1>4, <1>5, <1>6

\* The checkpoint is noted ...
LEMMA CkptNoteTypes ==
    ASSUME TypeInv, CkptNote
    PROVE  RegionTyped' /\ LogTyped' /\ TxnsTyped' /\ FilesTyped' /\ CkptTyped' /\ Closed'
<1>1. /\ ckpt \in Ckpts /\ ckpt.at = "saved" /\ ckpt.start \in Nat /\ ckpt.start <= last_write
      /\ last_write \in Lsns /\ UNCHANGED <<meta, image, last_write>>
  BY DEF CkptNote, TypeInv, CkptTyped, LogTyped, Writing, log, disk
<1>2. RegionTyped'
  BY <1>1 DEF CkptNote, TypeInv, RegionTyped
<1>3. CkptTyped'
  <2>1. ckpt' = [ckpt EXCEPT !.at = "noted", !.end = last_write]
    BY DEF CkptNote
  <2>2. /\ ckpt' \in Ckpts /\ ckpt'.at = "noted" /\ ckpt'.start = ckpt.start
        /\ ckpt'.end = last_write
    BY <1>1, <2>1 DEF Ckpts, Writing
  <2>. HIDE DEF Ckpts
  <2>. QED BY <1>1, <2>2 DEF TypeInv, CkptTyped, Writing
<1>4. LogTyped' /\ TxnsTyped' /\ FilesTyped'
  BY PartsKept DEF CkptNote, TypeInv, log, txns, disk
<1>5. Closed'
  BY DEF CkptNote, Closed
<1>. QED BY <1>2, <1>3, <1>4, <1>5

\* ... and committed.
LEMMA CkptCommitTypes ==
    ASSUME TypeInv, CkptCommit
    PROVE  RegionTyped' /\ LogTyped' /\ TxnsTyped' /\ FilesTyped' /\ CkptTyped' /\ Closed'
<1>1. /\ ckpt \in Ckpts /\ ckpt.at = "noted" /\ ckpt.start \in Nat /\ ckpt.start <= ckpt.end
      /\ ckpt.c \in Containers /\ UNCHANGED <<image, last_write>>
  BY DEF CkptCommit, TypeInv, CkptTyped, TakenInv, Writing, log
<1>2. CkptTyped'
  <2>. DEFINE m == [start |-> ckpt.start, end |-> ckpt.end, used |-> ckpt.used \ ckpt.free]
  <2>1. meta' = [meta EXCEPT ![ckpt.c] = m]
    BY DEF CkptCommit
  <2>2. m \in Metas /\ m.start <= m.end /\ m.start \in Nat
    BY <1>1, CkptsHave DEF Metas
  <2>3. ckpt' \in Ckpts /\ ckpt'.at \notin Writing
    <3>1. ckpt' = Continue(ckpt.todo \ {ckpt.c}) /\ ckpt.todo \ {ckpt.c} \in SUBSET Containers
      BY <1>1, CkptsHave DEF CkptCommit
    <3>. QED BY <3>1, ContinueIs DEF Writing
  <2>. HIDE DEF m, Ckpts, Metas
  <2>. QED BY <1>1, <2>1, <2>2, <2>3 DEF TypeInv, CkptTyped, Writing
<1>3. RegionTyped' /\ LogTyped' /\ TxnsTyped' /\ FilesTyped'
  BY PartsKept DEF CkptCommit, TypeInv, memory, log, txns
<1>4. Closed'
  BY DEF CkptCommit, Closed
<1>. QED BY <1>2, <1>3, <1>4

\* A crash leaves of a record what it will.
CrashesTo(newfiles, neworder) ==
    \/ newfiles = files /\ neworder = order
    \/ writer # NoTxn /\ newfiles = Written(writer, TRUE) /\ neworder = order
    \/ writer # NoTxn /\ newfiles = Written(writer, FALSE) /\ neworder = Append(order, writer)
\* It loses all that is in the region.
LEMMA CrashTypes ==
    ASSUME TypeInv, Crash
    PROVE  /\ RegionTyped' /\ LogTyped' /\ TxnsTyped' /\ FilesTyped' /\ CkptTyped' /\ Closed'
           /\ CrashesTo(files', order')
<1>1. CrashesTo(files', order')
  BY DEF Crash, CrashesTo
<1>2. FilesTyped'
  <2>1. CASE files' = files
    BY <2>1, PartsKept DEF TypeInv
  <2>2. CASE writer # NoTxn /\ \E torn \in BOOLEAN : files' = Written(writer, torn)
    BY <2>2, WrittenTypes
  <2>. QED BY <1>1, <2>1, <2>2 DEF CrashesTo
<1>3. /\ rows' = [k \in Keys |-> NoRow] /\ freed' = [c \in Containers |-> {}]
      /\ ckpt_history' = [c \in Containers |-> 0] /\ ckpt' = Idle /\ writer' = NoTxn
      /\ log_filename' = NoFile /\ log_len' = 0 /\ phase' = "down" /\ crashes' = crashes + 1
      /\ crashes < MaxCrashes
      /\ UNCHANGED <<last_write, lsn, kind, meta, image, exposed>>
      /\ pc' = [t \in Txns |-> IF pc[t] \in {"pending", "logging", "logged"} THEN "dead" ELSE pc[t]]
  BY DEF Crash
<1>4. RegionTyped'
  <2>1. rows' \in [Keys -> RowType]
    <3>. HIDE DEF RowType
    <3>. QED BY <1>3, NoRowIs
  <2>. QED BY <1>3, <2>1, SizesAssumption DEF TypeInv, RegionTyped
<1>5. LogTyped'
  BY <1>3, SizesAssumption DEF TypeInv, LogTyped
<1>6. TxnsTyped'
  BY <1>3 DEF TypeInv, TxnsTyped, Stages
<1>7. CkptTyped'
  <2>1. Idle \in Ckpts /\ Idle.at = "off"
    BY DEF Idle, Ckpts, Lsns, Writing
  <2>. HIDE DEF Ckpts, Idle
  <2>. QED BY <1>3, <2>1 DEF TypeInv, CkptTyped, Writing
<1>8. Closed'
  BY <1>3 DEF Closed, Idle
<1>. QED BY <1>1, <1>2, <1>4, <1>5, <1>6, <1>7, <1>8

\* Recovery builds rows again, if it does not refuse.
LEMMA RecoverTypes ==
    ASSUME TypeInv, Recover
    PROVE  RegionTyped' /\ LogTyped' /\ TxnsTyped' /\ FilesTyped' /\ CkptTyped' /\ Closed'
<1>1. /\ phase = "down" /\ ckpt.at = "off" /\ writer = NoTxn
      /\ UNCHANGED <<log_filename, log_len, writer, txns, ckpt, disk, order, crashes>>
  BY DEF Recover, TypeInv, Closed
<1>2. TxnsTyped' /\ FilesTyped'
  BY <1>1, PartsKept DEF TypeInv, txns, disk
<1>3. CASE Refuses
  <2>1. phase' = "refused" /\ UNCHANGED <<memory, last_write, exposed>>
    BY <1>3 DEF Recover
  <2>2. RegionTyped'
    BY <1>1, <2>1 DEF TypeInv, RegionTyped, memory
  <2>3. LogTyped' /\ CkptTyped'
    BY <1>1, <2>1, PartsKept DEF TypeInv, txns, disk
  <2>4. Closed'
    BY <1>1, <2>1 DEF TypeInv, Closed, memory
  <2>. QED BY <1>2, <2>2, <2>3, <2>4
<1>4. CASE ~Refuses
  <2>1. /\ phase' = "open" /\ rows' = Recovered.rows /\ freed' = Recovered.freed
        /\ ckpt_history' = [c \in Containers |-> StartOf(c)]
        /\ last_write' = Reached /\ exposed' \subseteq exposed \cup Keys
    BY <1>4 DEF Recover
  <2>2. RegionTyped'
    BY <1>1, <2>1, RecoveredIsDb, RedoStartIs DEF TypeInv, RegionTyped, IsDb
  <2>3. LogTyped'
    BY <1>1, <2>1, ReachedIs DEF TypeInv, LogTyped, txns
  <2>4. CkptTyped'
    BY <1>1 DEF TypeInv, CkptTyped, Writing, disk
  <2>5. Closed'
    BY <2>1 DEF Closed
  <2>. QED BY <1>2, <2>2, <2>3, <2>4, <2>5
<1>. QED BY <1>3, <1>4

\* Archiving takes files away.
LEMMA ArchiveTypes ==
    ASSUME TypeInv, Archive
    PROVE  RegionTyped' /\ LogTyped' /\ TxnsTyped' /\ FilesTyped' /\ CkptTyped' /\ Closed'
<1>1. files' = [n \in DOMAIN files \ Archivable |-> files[n]]
  BY DEF Archive
<1>2. FilesTyped'
  <2>. HIDE DEF Records
  <2>. QED BY <1>1 DEF TypeInv, FilesTyped
<1>3. RegionTyped' /\ LogTyped' /\ TxnsTyped' /\ CkptTyped'
  BY PartsKept DEF Archive, TypeInv, memory, log, txns
<1>4. Closed'
  BY DEF Archive, Closed
<1>. QED BY <1>2, <1>3, <1>4

\* Every step keeps the types.
LEMMA TypeInvStep ==
    ASSUME TypeInv, [Next]_vars
    PROVE  TypeInv'
<1>1. TakenInv'
  BY TakenInvStep DEF TypeInv
<1>2. RegionTyped' /\ LogTyped' /\ TxnsTyped' /\ FilesTyped' /\ CkptTyped' /\ Closed'
  <2>1. CASE \E t \in Txns : Transact(t)
    BY <2>1, OperateTypes, RollbackTypes, OpenLogTypes, WriteLogTypes, ApplyTypes DEF Transact
  <2>2. CASE Checkpoint
    BY <2>2, CkptStartTypes, CkptContainerTypes, CkptCopyTypes, CkptPlaceTypes,
       CkptTakeFreedTypes, CkptNoteTypes, CkptCommitTypes DEF Checkpoint
  <2>3. CASE Archive \/ Crash \/ Recover
    BY <2>3, ArchiveTypes, CrashTypes, RecoverTypes
  <2>4. CASE UNCHANGED vars
    BY <2>4, PartsKept DEF vars, memory, log, txns, disk, TypeInv
  <2>. QED BY <2>1, <2>2, <2>3, <2>4 DEF Next
<1>. QED BY <1>1, <1>2 DEF TypeInv

\* The types that the runs check.
LEMMA TypeInvGivesTypeOK == TypeInv => TypeOK
<1>. SUFFICES ASSUME TypeInv PROVE TypeOK
  OBVIOUS
<1>1. /\ phase \in {"open", "down", "refused"} /\ exposed \subseteq Keys /\ crashes \in 0 .. MaxCrashes
      /\ rows \in [Keys -> [val : Txns \cup {NoTxn}, lsn : Lsns,
                            loc : Locations \cup {NoLoc}, locker : Txns \cup {NoTxn}]]
      /\ freed \in [Containers -> SUBSET Locations]
      /\ ckpt_history \in [Containers -> Nat]
  BY DEF TypeInv, RegionTyped, RowType
<1>2. DOMAIN files \subseteq Lsns
  BY DEF TypeInv, FilesTyped
<1>3. \A c \in Containers : meta[c].used \subseteq Locations /\ meta[c].start <= meta[c].end
  BY DEF TypeInv, CkptTyped, TakenInv
<1>. QED BY <1>1, <1>2, <1>3 DEF TypeInv, LogTyped, TxnsTyped, TypeOK

-----------------------------------------------------------------------------
\* The space of the checkpoint files

On(c) == ckpt.at \in Writing /\ ckpt.c = c
UsedBy(c) == IF On(c) THEN ckpt.used ELSE meta[c].used
FreeOf(c) == IF On(c) THEN ckpt.free ELSE {}

(***************************************************************************)
(* The inductive invariant: the location of a row is taken and neither     *)
(* free nor about to be, and the checkpoint file has the row there; what   *)
(* is free or about to be was taken before; and a row that was copied, but *)
(* is not placed yet, has its copy at a location that no row has.          *)
(***************************************************************************)
RowsHeld ==
    \A k \in Keys : rows[k].loc # NoLoc =>
        /\ rows[k].loc \in UsedBy(Holder[k])
        /\ rows[k].loc \notin FreeOf(Holder[k])
        /\ rows[k].loc \notin freed[Holder[k]]
        /\ image[Holder[k]][rows[k].loc].key = k
FreeHeld ==
    /\ \A c \in Containers : freed[c] \subseteq UsedBy(c)
    /\ ckpt.at \in Writing => /\ ckpt.free \subseteq ckpt.used
                              /\ ckpt.keys \subseteq {k \in Keys : Holder[k] = ckpt.c}
    /\ ckpt.at = "next" => ckpt.free = {}
    /\ ckpt.at \in {"saved", "noted"} =>
          ckpt.keys = {} /\ freed[ckpt.c] \cap ckpt.free = {}
CopyHeld ==
    ckpt.at = "copied" =>
        /\ Holder[ckpt.key] = ckpt.c /\ ckpt.key \notin ckpt.keys
        /\ ckpt.new \in ckpt.used
        /\ ckpt.new \notin ckpt.free
        /\ ckpt.new \notin freed[ckpt.c]
        /\ image[ckpt.c][ckpt.new].key = ckpt.key
        /\ rows[ckpt.key].loc # ckpt.new
        /\ ckpt.prev # ckpt.new
        /\ ckpt.prev # NoLoc => /\ ckpt.prev \in ckpt.used
                                /\ image[ckpt.c][ckpt.prev].key = ckpt.key
SpaceInv == RowsHeld /\ FreeHeld /\ CopyHeld

\* Initially no row has a location.
LEMMA SpaceInvInit == Init => SpaceInv
<1>. SUFFICES ASSUME Init PROVE SpaceInv
  OBVIOUS
<1>1. RowsHeld
  BY NoRowIs DEF Init, RowsHeld
<1>2. ckpt.at = "off"
  BY DEF Init, Idle
<1>3. FreeHeld /\ CopyHeld
  BY <1>2 DEF Init, FreeHeld, CopyHeld, Writing
<1>. QED BY <1>1, <1>3 DEF SpaceInv

\* Two rows of a container have two locations.
LEMMA RowsApart ==
    ASSUME RowsHeld, NEW j \in Keys, NEW k \in Keys, Holder[j] = Holder[k],
           rows[j].loc = rows[k].loc, rows[k].loc # NoLoc
    PROVE  j = k
BY DEF RowsHeld

\* What leaves the checkpoint and the free space alone may take locations from rows.
LEMMA SpaceInvKept ==
    ASSUME SpaceInv, UNCHANGED <<meta, image, ckpt, freed>>,
           \A k \in Keys : rows'[k].loc = rows[k].loc \/ rows'[k].loc = NoLoc,
           ckpt.at = "copied" => ckpt.key \in Keys /\ ckpt.new # NoLoc
    PROVE  SpaceInv'
<1>1. \A c \in Containers : UsedBy(c)' = UsedBy(c) /\ FreeOf(c)' = FreeOf(c)
  BY DEF UsedBy, FreeOf, On
<1>2. RowsHeld'
  BY <1>1, KeysAssumption DEF SpaceInv, RowsHeld
<1>3. FreeHeld'
  BY <1>1 DEF SpaceInv, FreeHeld
<1>4. CopyHeld'
  BY DEF SpaceInv, CopyHeld
<1>. QED BY <1>2, <1>3, <1>4 DEF SpaceInv

\* The steps of transactions up to phase 3 leave rows where they are, or roll them back.
LEMMA SpaceInvElsewhere ==
    ASSUME TypeInv, SpaceInv,
           \/ \E t \in Txns : Operate(t) \/ Rollback(t) \/ OpenLog(t) \/ WriteLog(t)
           \/ Archive \/ UNCHANGED vars
    PROVE  SpaceInv'
<1>1. UNCHANGED <<meta, image, ckpt, freed>>
  BY DEF Operate, Rollback, OpenLog, WriteLog, Archive, vars, disk, memory
<1>2. \A k \in Keys : rows'[k].loc = rows[k].loc \/ rows'[k].loc = NoLoc
  <2>1. \A k \in Keys : rows[k] \in RowType
    BY DEF TypeInv, RegionTyped
  <2>2. \A k \in Keys, u \in Txns \cup {NoTxn} : [rows[k] EXCEPT !.locker = u].loc = rows[k].loc
    BY <2>1 DEF RowType
  <2>. HIDE DEF RowType
  <2>3. CASE \E t \in Txns : Operate(t)
    <3>1. PICK t \in Txns : Operate(t)
      BY <2>3
    <3>2. rows' = [k \in Keys |-> IF k \in KeysOf(t) THEN [rows[k] EXCEPT !.locker = t] ELSE rows[k]]
      BY <3>1 DEF Operate
    <3>. QED BY <2>2, <3>2
  <2>4. CASE \E t \in Txns : Rollback(t)
    <3>1. PICK t \in Txns : Rollback(t)
      BY <2>4
    <3>2. rows' = [k \in Keys |->
              IF rows[k].locker # t THEN rows[k]
              ELSE IF kind[t][k] = "insert" THEN NoRow ELSE [rows[k] EXCEPT !.locker = NoTxn]]
      BY <3>1 DEF Rollback
    <3>. QED BY <2>2, <3>2, NoRowIs
  <2>5. CASE (\E t \in Txns : OpenLog(t) \/ WriteLog(t)) \/ Archive \/ UNCHANGED vars
    <3>1. UNCHANGED rows
      BY <2>5 DEF OpenLog, WriteLog, Archive, vars, memory
    <3>. QED BY <3>1
  <2>. QED BY <2>3, <2>4, <2>5
<1>3. ckpt.at = "copied" => ckpt.key \in Keys /\ ckpt.new # NoLoc
  BY SizesAssumption DEF TypeInv, CkptTyped, NoLoc
<1>. QED BY <1>1, <1>2, <1>3, SpaceInvKept

\* Phase 3 frees the locations of the rows it erases.
LEMMA SpaceInvApply ==
    ASSUME TypeInv, SpaceInv, NEW t \in Txns, Apply(t)
    PROVE  SpaceInv'
<1>1. /\ UNCHANGED <<meta, image, ckpt>>
      /\ rows' = [k \in Keys |-> IF k \in KeysOf(t)
                                 THEN Applied(rows[k], kind[t][k], t, lsn[t]) ELSE rows[k]]
      /\ freed' = [c \in Containers |-> freed[c] \cup FreedBy(t, c)]
  BY DEF Apply, disk
<1>2. \A k \in Keys :
        /\ rows'[k].loc = rows[k].loc \/ rows'[k].loc = NoLoc
        /\ rows'[k].loc # NoLoc => ~(k \in KeysOf(t) /\ kind[t][k] = "erase")
  <2>1. \A k \in Keys : Row(t, lsn[t], rows[k].loc).loc = rows[k].loc
    BY DEF Row
  <2>. QED BY <1>1, <2>1, NoRowIs DEF Applied
<1>3. \A c \in Containers : UsedBy(c)' = UsedBy(c) /\ FreeOf(c)' = FreeOf(c)
  BY <1>1 DEF UsedBy, FreeOf, On
<1>4. ASSUME NEW c \in Containers, NEW l \in FreedBy(t, c)
      PROVE  \E j \in Keys : /\ j \in KeysOf(t) /\ kind[t][j] = "erase" /\ Holder[j] = c
                             /\ rows[j].loc = l /\ l # NoLoc
  BY <1>4, KeysOfIs DEF FreedBy
<1>. HIDE DEF FreedBy
<1>5. RowsHeld'
  <2>1. SUFFICES ASSUME NEW k \in Keys, rows'[k].loc # NoLoc
                 PROVE  /\ rows'[k].loc \in UsedBy(Holder[k])'
                        /\ rows'[k].loc \notin FreeOf(Holder[k])'
                        /\ rows'[k].loc \notin freed'[Holder[k]]
                        /\ image'[Holder[k]][rows'[k].loc].key = k
    BY DEF RowsHeld
  <2>2. rows'[k].loc = rows[k].loc /\ Holder[k] \in Containers
    BY <1>2, <2>1, KeysAssumption
  <2>3. rows[k].loc \notin FreedBy(t, Holder[k])
    <3>1. SUFFICES ASSUME rows[k].loc \in FreedBy(t, Holder[k]) PROVE FALSE
      OBVIOUS
    <3>2. PICK j \in Keys : /\ j \in KeysOf(t) /\ kind[t][j] = "erase" /\ Holder[j] = Holder[k]
                            /\ rows[j].loc = rows[k].loc
      BY <1>4, <2>2, <3>1
    <3>3. j = k
      BY <2>1, <2>2, <3>2, RowsApart DEF SpaceInv
    <3>. QED BY <1>2, <2>1, <3>2, <3>3
  <2>4. freed'[Holder[k]] = freed[Holder[k]] \cup FreedBy(t, Holder[k])
    BY <1>1, <2>2
  <2>. QED BY <1>1, <1>3, <2>1, <2>2, <2>3, <2>4 DEF SpaceInv, RowsHeld
<1>6. \A c \in Containers : FreedBy(t, c) \subseteq UsedBy(c) /\ FreedBy(t, c) \cap FreeOf(c) = {}
  BY <1>4 DEF SpaceInv, RowsHeld
<1>7. FreeHeld'
  <2>1. \A c \in Containers : freed'[c] \subseteq UsedBy(c)'
    BY <1>1, <1>3, <1>6 DEF SpaceInv, FreeHeld
  <2>2. ckpt.at \in {"saved", "noted"} => freed'[ckpt.c] \cap ckpt.free = {}
    <3>1. SUFFICES ASSUME ckpt.at \in {"saved", "noted"} PROVE freed'[ckpt.c] \cap ckpt.free = {}
      OBVIOUS
    <3>2. ckpt.c \in Containers /\ FreeOf(ckpt.c) = ckpt.free
      BY <3>1 DEF TypeInv, TakenInv, Writing, FreeOf, On
    <3>. QED BY <1>1, <1>6, <3>1, <3>2 DEF SpaceInv, FreeHeld
  <2>. QED BY <1>1, <2>1, <2>2 DEF SpaceInv, FreeHeld
<1>8. CopyHeld'
  <2>1. SUFFICES ASSUME ckpt.at = "copied"
                 PROVE  ckpt.new \notin FreedBy(t, ckpt.c) /\ rows'[ckpt.key].loc # ckpt.new
                        /\ ckpt.c \in Containers
    BY <1>1 DEF SpaceInv, CopyHeld
  <2>2. ckpt.c \in Containers /\ ckpt.key \in Keys /\ ckpt.new # NoLoc
    BY <2>1, SizesAssumption DEF TypeInv, CkptTyped, TakenInv, Writing, NoLoc
  <2>3. rows'[ckpt.key].loc # ckpt.new
    BY <1>2, <2>1, <2>2 DEF SpaceInv, CopyHeld
  <2>4. ckpt.new \notin FreedBy(t, ckpt.c)
    <3>1. SUFFICES ASSUME ckpt.new \in FreedBy(t, ckpt.c) PROVE FALSE
      OBVIOUS
    <3>2. PICK j \in Keys : Holder[j] = ckpt.c /\ rows[j].loc = ckpt.new
      BY <1>4, <2>2, <3>1
    <3>3. j = ckpt.key
      BY <2>1, <2>2, <3>2 DEF SpaceInv, RowsHeld, CopyHeld
    <3>. QED BY <2>1, <3>2, <3>3 DEF SpaceInv, CopyHeld
  <2>. QED BY <2>2, <2>3, <2>4
<1>. QED BY <1>5, <1>7, <1>8 DEF SpaceInv

\* The start of a checkpoint, and the choice of a container.
LEMMA SpaceInvStart ==
    ASSUME TypeInv, SpaceInv, CkptStart
    PROVE  SpaceInv'
<1>1. /\ UNCHANGED <<rows, freed, meta, image>> /\ ckpt.at = "off" /\ ckpt'.at = "next"
      /\ ckpt'.free = {}
  BY DEF CkptStart, memory, disk, Idle
<1>2. \A c \in Containers : UsedBy(c)' = UsedBy(c) /\ FreeOf(c)' = FreeOf(c)
  BY <1>1 DEF UsedBy, FreeOf, On, Writing
<1>3. RowsHeld'
  BY <1>1, <1>2, KeysAssumption DEF SpaceInv, RowsHeld
<1>4. FreeHeld' /\ CopyHeld'
  BY <1>1, <1>2 DEF SpaceInv, FreeHeld, CopyHeld, Writing
<1>. QED BY <1>3, <1>4 DEF SpaceInv

\* A container that is passed over, or has been dealt with, is like one to come.
LEMMA SpaceInvContainer ==
    ASSUME TypeInv, SpaceInv, NEW d \in Containers, CkptContainer(d)
    PROVE  SpaceInv'
<1>1. /\ UNCHANGED <<rows, freed, meta, image>> /\ ckpt.at = "next" /\ ckpt.free = {}
      /\ ckpt \in Ckpts
  BY DEF CkptContainer, memory, disk, SpaceInv, FreeHeld, TypeInv, CkptTyped
<1>2. /\ ckpt'.at \in {"off", "next", "scan"} /\ ckpt'.free = {}
      /\ ckpt'.at = "scan" => /\ ckpt'.c = d /\ ckpt'.used = meta[d].used
                              /\ ckpt'.keys = {k \in Keys : Holder[k] = d}
  <2>1. CASE last_write > ckpt_history[d]
    <3>1. ckpt' = [ckpt EXCEPT !.at = "scan", !.c = d, !.start = last_write,
                        !.keys = {k \in Keys : Holder[k] = d}, !.used = meta[d].used]
      BY <2>1 DEF CkptContainer
    <3>. QED BY <1>1, <3>1 DEF Ckpts
  <2>2. CASE ~(last_write > ckpt_history[d])
    <3>1. ckpt' = Continue(ckpt.todo \ {d}) /\ ckpt.todo \ {d} \in SUBSET Containers
      BY <1>1, <2>2, CkptsHave DEF CkptContainer
    <3>2. ckpt'.at \in {"off", "next"} /\ ckpt'.free = {}
      BY <3>1, ContinueIs
    <3>. QED BY <3>2
  <2>. QED BY <2>1, <2>2
<1>3. \A c \in Containers : UsedBy(c)' = UsedBy(c) /\ FreeOf(c)' = FreeOf(c)
  BY <1>1, <1>2 DEF UsedBy, FreeOf, On, Writing
<1>4. RowsHeld'
  BY <1>1, <1>3, KeysAssumption DEF SpaceInv, RowsHeld
<1>5. FreeHeld' /\ CopyHeld'
  BY <1>1, <1>2, <1>3 DEF SpaceInv, FreeHeld, CopyHeld, Writing
<1>. QED BY <1>4, <1>5 DEF SpaceInv

\* Copying a row writes it to a location that no row has.
LEMMA SpaceInvCopy ==
    ASSUME TypeInv, SpaceInv, CkptCopy
    PROVE  SpaceInv'
<1>0. PICK d, k, new : d = ckpt.c /\ k = Min(ckpt.keys) /\ new = FreePlace(ckpt.used)
  OBVIOUS
<1>1. /\ ckpt \in Ckpts /\ ckpt.at = "scan" /\ UNCHANGED <<rows, freed, meta>>
      /\ d \in Containers /\ ckpt.used \subseteq Locations \cap DOMAIN image[d]
      /\ ckpt.used # Locations /\ ckpt.keys # {}
      /\ DOMAIN image = Containers
  BY <1>0 DEF CkptCopy, memory, TypeInv, CkptTyped, TakenInv, Writing
<1>2. k \in ckpt.keys /\ k \in Keys /\ Holder[k] = d
  BY <1>0, <1>1, NextKeyIs DEF SpaceInv, FreeHeld, Writing
<1>3. new \in Locations \ ckpt.used /\ new # NoLoc
  BY <1>0, <1>1, FreePlaceIsFree, SizesAssumption DEF NoLoc
<1>4. CASE IsDue(rows[k], d)
  <2>1. /\ image' = [image EXCEPT ![d] = Overlaid(@, new, ImageOf(k))]
        /\ ckpt' = [ckpt EXCEPT !.at = "copied", !.keys = @ \ {k}, !.key = k,
                                !.prev = rows[k].loc, !.new = new, !.used = @ \cup {new}]
    BY <1>0, <1>4 DEF CkptCopy
  <2>2. /\ ckpt'.at = "copied" /\ ckpt'.c = d /\ ckpt'.keys = ckpt.keys \ {k} /\ ckpt'.key = k
        /\ ckpt'.prev = rows[k].loc /\ ckpt'.new = new /\ ckpt'.used = ckpt.used \cup {new}
        /\ ckpt'.free = ckpt.free
    BY <1>0, <1>1, <2>1 DEF Ckpts
  <2>3. /\ \A c \in Containers \ {d} : image'[c] = image[c]
        /\ image'[d][new].key = k
        /\ \A l \in ckpt.used : image'[d][l] = image[d][l]
    <3>1. ImageOf(k).key = k
      BY DEF ImageOf
    <3>2. \A l \in DOMAIN image[d] \cup {new} :
            image'[d][l] = IF l = new THEN ImageOf(k) ELSE image[d][l]
      BY <1>1, <2>1 DEF Overlaid
    <3>. HIDE DEF ImageOf
    <3>. QED BY <1>1, <1>3, <2>1, <3>1, <3>2
  <2>4. /\ UsedBy(d) = ckpt.used /\ UsedBy(d)' = ckpt.used \cup {new}
        /\ FreeOf(d) = ckpt.free /\ FreeOf(d)' = ckpt.free
        /\ \A c \in Containers \ {d} : UsedBy(c)' = UsedBy(c) /\ FreeOf(c)' = FreeOf(c)
    BY <1>0, <1>1, <2>2 DEF UsedBy, FreeOf, On, Writing
  <2>5. RowsHeld'
    <3>1. SUFFICES ASSUME NEW j \in Keys, rows[j].loc # NoLoc
                   PROVE  /\ rows[j].loc \in UsedBy(Holder[j])'
                          /\ rows[j].loc \notin FreeOf(Holder[j])'
                          /\ rows[j].loc \notin freed[Holder[j]]
                          /\ image'[Holder[j]][rows[j].loc].key = j
      BY <1>1 DEF RowsHeld
    <3>2. /\ rows[j].loc \in UsedBy(Holder[j])
          /\ rows[j].loc \notin FreeOf(Holder[j])
          /\ rows[j].loc \notin freed[Holder[j]]
          /\ image[Holder[j]][rows[j].loc].key = j
          /\ Holder[j] \in Containers
      BY <3>1, KeysAssumption DEF SpaceInv, RowsHeld
    <3>. QED BY <2>3, <2>4, <3>2
  <2>6. FreeHeld'
    <3>1. \A c \in Containers : freed'[c] \subseteq UsedBy(c)'
      BY <1>1, <2>4 DEF SpaceInv, FreeHeld
    <3>. QED BY <1>0, <1>1, <2>2, <3>1 DEF SpaceInv, FreeHeld, Writing
  <2>7. CopyHeld'
    <3>1. new \notin ckpt.free /\ new \notin freed[d]
      BY <1>0, <1>1, <1>3, <2>4 DEF SpaceInv, FreeHeld, Writing
    <3>2. rows[k].loc # NoLoc => rows[k].loc \in ckpt.used /\ image'[d][rows[k].loc].key = k
      BY <1>2, <2>3, <2>4 DEF SpaceInv, RowsHeld
    <3>3. rows[k].loc # new
      BY <1>3, <3>2
    <3>. QED BY <1>1, <1>2, <2>2, <2>3, <3>1, <3>2, <3>3 DEF CopyHeld
  <2>. QED BY <2>5, <2>6, <2>7 DEF SpaceInv
<1>5. CASE ~IsDue(rows[k], d)
  <2>1. ckpt' = [ckpt EXCEPT !.keys = @ \ {k}] /\ UNCHANGED image
    BY <1>0, <1>5 DEF CkptCopy
  <2>2. /\ ckpt'.at = "scan" /\ ckpt'.c = d /\ ckpt'.keys = ckpt.keys \ {k}
        /\ ckpt'.used = ckpt.used /\ ckpt'.free = ckpt.free
    BY <1>0, <1>1, <2>1 DEF Ckpts
  <2>3. \A c \in Containers : UsedBy(c)' = UsedBy(c) /\ FreeOf(c)' = FreeOf(c)
    BY <1>0, <1>1, <2>2 DEF UsedBy, FreeOf, On, Writing
  <2>4. RowsHeld'
    BY <1>1, <2>1, <2>3, KeysAssumption DEF SpaceInv, RowsHeld
  <2>5. FreeHeld' /\ CopyHeld'
    BY <1>0, <1>1, <2>2, <2>3 DEF SpaceInv, FreeHeld, CopyHeld, Writing
  <2>. QED BY <2>4, <2>5 DEF SpaceInv
<1>. QED BY <1>4, <1>5

\* The row gets the location of its copy, and its old one becomes free; or the copy's
\* becomes free, when it is not the row that was copied.
LEMMA SpaceInvPlace ==
    ASSUME TypeInv, SpaceInv, CkptPlace
    PROVE  SpaceInv'
<1>0. PICK d, key, new, prev :
        d = ckpt.c /\ key = ckpt.key /\ new = ckpt.new /\ prev = ckpt.prev
  OBVIOUS
<1>. DEFINE same == Present(rows[ckpt.key]) /\ Offset(rows[ckpt.key].loc) = Offset(ckpt.prev)
<1>1. /\ ckpt \in Ckpts /\ ckpt.at = "copied" /\ UNCHANGED <<freed, meta, image>>
      /\ d \in Containers /\ key \in Keys /\ new \in Locations /\ new # NoLoc
      /\ rows[key] \in RowType
  BY <1>0, SizesAssumption DEF CkptPlace, disk, TypeInv, CkptTyped, TakenInv, RegionTyped, Writing, NoLoc
<1>2. /\ Holder[key] = d /\ key \notin ckpt.keys
      /\ new \in ckpt.used /\ new \notin ckpt.free /\ new \notin freed[d]
      /\ image[d][new].key = key /\ rows[key].loc # new /\ prev # new
      /\ prev # NoLoc => prev \in ckpt.used /\ image[d][prev].key = key
  BY <1>0, <1>1 DEF SpaceInv, CopyHeld
<1>3. /\ rows' = IF same THEN [rows EXCEPT ![key].loc = new] ELSE rows
      /\ ckpt' = [ckpt EXCEPT !.at = "scan", !.free = @ \cup ({Superseded(same)} \ {NoLoc})]
  BY <1>0 DEF CkptPlace
<1>4. Superseded(same) = IF same THEN prev ELSE new
  BY <1>0 DEF Superseded
<1>. HIDE DEF same
<1>5. /\ ckpt'.at = "scan" /\ ckpt'.c = d /\ ckpt'.keys = ckpt.keys /\ ckpt'.used = ckpt.used
      /\ ckpt'.free = ckpt.free \cup ({Superseded(same)} \ {NoLoc})
  BY <1>0, <1>1, <1>3 DEF Ckpts
<1>6. /\ UsedBy(d) = ckpt.used /\ UsedBy(d)' = ckpt.used
      /\ FreeOf(d) = ckpt.free /\ FreeOf(d)' = ckpt.free \cup ({Superseded(same)} \ {NoLoc})
      /\ \A c \in Containers \ {d} : UsedBy(c)' = UsedBy(c) /\ FreeOf(c)' = FreeOf(c)
  BY <1>0, <1>1, <1>5 DEF UsedBy, FreeOf, On, Writing
<1>7. \A j \in Keys : rows'[j].loc = IF same /\ j = key THEN new ELSE rows[j].loc
  <2>1. rows \in [Keys -> RowType]
    BY DEF TypeInv, RegionTyped
  <2>2. [rows[key] EXCEPT !.loc = new].loc = new
    BY <1>1 DEF RowType
  <2>. HIDE DEF RowType
  <2>. QED BY <1>1, <1>3, <2>1, <2>2
<1>8. RowsHeld'
  <2>1. SUFFICES ASSUME NEW j \in Keys, rows'[j].loc # NoLoc
                 PROVE  /\ rows'[j].loc \in UsedBy(Holder[j])'
                        /\ rows'[j].loc \notin FreeOf(Holder[j])'
                        /\ rows'[j].loc \notin freed[Holder[j]]
                        /\ image[Holder[j]][rows'[j].loc].key = j
    BY <1>1 DEF RowsHeld
  <2>2. CASE same /\ j = key
    BY <1>1, <1>2, <1>4, <1>6, <1>7, <2>2
  <2>3. CASE ~(same /\ j = key)
    <3>1. /\ rows'[j].loc = rows[j].loc /\ Holder[j] \in Containers
          /\ rows[j].loc \in UsedBy(Holder[j])
          /\ rows[j].loc \notin FreeOf(Holder[j])
          /\ rows[j].loc \notin freed[Holder[j]]
          /\ image[Holder[j]][rows[j].loc].key = j
      BY <1>7, <2>1, <2>3, KeysAssumption DEF SpaceInv, RowsHeld
    <3>2. CASE Holder[j] = d
      <4>1. rows[j].loc # Superseded(same)
        <5>1. CASE same
          BY <1>2, <1>4, <2>1, <2>3, <3>1, <3>2, <5>1
        <5>2. CASE ~same
          BY <1>2, <1>4, <2>1, <2>3, <3>1, <3>2, <5>2
        <5>. QED BY <5>1, <5>2
      <4>. QED BY <1>6, <3>1, <3>2, <4>1
    <3>3. CASE Holder[j] # d
      BY <1>6, <3>1, <3>3
    <3>. QED BY <3>2, <3>3
  <2>. QED BY <2>2, <2>3
<1>9. FreeHeld'
  <2>1. \A c \in Containers : freed'[c] \subseteq UsedBy(c)'
    BY <1>1, <1>6 DEF SpaceInv, FreeHeld
  <2>2. ckpt'.free \subseteq ckpt'.used
    BY <1>0, <1>1, <1>2, <1>4, <1>5 DEF SpaceInv, FreeHeld, Writing
  <2>. QED BY <1>0, <1>1, <1>5, <2>1, <2>2 DEF SpaceInv, FreeHeld, Writing
<1>10. CopyHeld'
  BY <1>5 DEF CopyHeld
<1>. QED BY <1>8, <1>9, <1>10 DEF SpaceInv

\* Taking over what erases have freed: no row is there.
LEMMA SpaceInvTakeFreed ==
    ASSUME TypeInv, SpaceInv, CkptTakeFreed
    PROVE  SpaceInv'
<1>0. PICK d : d = ckpt.c
  OBVIOUS
<1>1. /\ ckpt \in Ckpts /\ ckpt.at = "scan" /\ d \in Containers /\ ckpt.keys = {}
      /\ UNCHANGED <<rows, meta, image>>
      /\ freed' = [freed EXCEPT ![d] = {}] /\ freed \in [Containers -> SUBSET Locations]
      /\ ckpt' = [ckpt EXCEPT !.at = "saved", !.free = @ \cup freed[d]]
  BY <1>0 DEF CkptTakeFreed, TakenOver, TypeInv, CkptTyped, RegionTyped, TakenInv, Writing, disk
<1>2. /\ ckpt'.at = "saved" /\ ckpt'.c = d /\ ckpt'.keys = {} /\ ckpt'.used = ckpt.used
      /\ ckpt'.free = ckpt.free \cup freed[d]
  BY <1>0, <1>1 DEF Ckpts
<1>3. /\ UsedBy(d) = ckpt.used /\ UsedBy(d)' = ckpt.used
      /\ FreeOf(d) = ckpt.free /\ FreeOf(d)' = ckpt.free \cup freed[d]
      /\ \A c \in Containers \ {d} : UsedBy(c)' = UsedBy(c) /\ FreeOf(c)' = FreeOf(c)
      /\ freed'[d] = {} /\ \A c \in Containers \ {d} : freed'[c] = freed[c]
  BY <1>0, <1>1, <1>2 DEF UsedBy, FreeOf, On, Writing
<1>4. RowsHeld'
  <2>1. SUFFICES ASSUME NEW j \in Keys, rows[j].loc # NoLoc, NEW c \in Containers, c = Holder[j]
                 PROVE  /\ rows[j].loc \in UsedBy(c)' /\ rows[j].loc \notin FreeOf(c)'
                        /\ rows[j].loc \notin freed'[c] /\ image[c][rows[j].loc].key = j
    BY <1>1, KeysAssumption DEF RowsHeld
  <2>2. /\ rows[j].loc \in UsedBy(c) /\ rows[j].loc \notin FreeOf(c)
        /\ rows[j].loc \notin freed[c] /\ image[c][rows[j].loc].key = j
    BY <2>1 DEF SpaceInv, RowsHeld
  <2>. QED BY <1>3, <2>2
<1>5. FreeHeld'
  <2>1. \A c \in Containers : freed[c] \subseteq UsedBy(c)
    BY DEF SpaceInv, FreeHeld
  <2>2. \A c \in Containers : freed'[c] \subseteq UsedBy(c)'
    BY <1>3, <2>1
  <2>3. ckpt'.free \subseteq ckpt'.used
    BY <1>1, <1>2, <1>3, <2>1 DEF SpaceInv, FreeHeld, Writing
  <2>. QED BY <1>2, <1>3, <2>2, <2>3 DEF FreeHeld
<1>6. CopyHeld'
  BY <1>2 DEF CopyHeld
<1>. QED BY <1>4, <1>5, <1>6 DEF SpaceInv

\* Noting the checkpoint touches no space.
LEMMA SpaceInvNote ==
    ASSUME TypeInv, SpaceInv, CkptNote
    PROVE  SpaceInv'
<1>1. /\ ckpt \in Ckpts /\ ckpt.at = "saved" /\ UNCHANGED <<rows, freed, meta, image>>
      /\ ckpt' = [ckpt EXCEPT !.at = "noted", !.end = last_write]
  BY DEF CkptNote, TypeInv, CkptTyped, disk
<1>2. /\ ckpt'.at = "noted" /\ ckpt'.c = ckpt.c /\ ckpt'.keys = ckpt.keys
      /\ ckpt'.used = ckpt.used /\ ckpt'.free = ckpt.free
  BY <1>1 DEF Ckpts
<1>3. \A c \in Containers : UsedBy(c)' = UsedBy(c) /\ FreeOf(c)' = FreeOf(c)
  BY <1>1, <1>2 DEF UsedBy, FreeOf, On, Writing
<1>4. RowsHeld'
  BY <1>1, <1>3, KeysAssumption DEF SpaceInv, RowsHeld
<1>5. FreeHeld' /\ CopyHeld'
  BY <1>1, <1>2, <1>3 DEF SpaceInv, FreeHeld, CopyHeld, Writing
<1>. QED BY <1>4, <1>5 DEF SpaceInv

\* The new metafile leaves out what has become free.
LEMMA SpaceInvCommit ==
    ASSUME TypeInv, SpaceInv, CkptCommit
    PROVE  SpaceInv'
<1>0. PICK d : d = ckpt.c
  OBVIOUS
<1>1. /\ ckpt \in Ckpts /\ ckpt.at = "noted" /\ d \in Containers
      /\ UNCHANGED <<rows, freed, image>> /\ DOMAIN meta = Containers
      /\ meta' = [meta EXCEPT ![d] =
            [start |-> ckpt.start, end |-> ckpt.end, used |-> ckpt.used \ ckpt.free]]
      /\ ckpt' = Continue(ckpt.todo \ {d})
  BY <1>0 DEF CkptCommit, memory, TypeInv, CkptTyped, TakenInv, Writing
<1>2. ckpt'.at \in {"off", "next"} /\ ckpt'.free = {}
  BY <1>1, CkptsHave, ContinueIs
<1>3. /\ meta'[d].used = ckpt.used \ ckpt.free
      /\ \A c \in Containers \ {d} : meta'[c] = meta[c]
  BY <1>1
<1>4. /\ UsedBy(d) = ckpt.used /\ UsedBy(d)' = ckpt.used \ ckpt.free
      /\ FreeOf(d) = ckpt.free /\ FreeOf(d)' = {}
      /\ \A c \in Containers \ {d} : UsedBy(c)' = UsedBy(c) /\ FreeOf(c)' = {}
  BY <1>0, <1>1, <1>2, <1>3 DEF UsedBy, FreeOf, On, Writing
<1>5. RowsHeld'
  <2>1. SUFFICES ASSUME NEW j \in Keys, rows[j].loc # NoLoc, NEW c \in Containers, c = Holder[j]
                 PROVE  /\ rows[j].loc \in UsedBy(c)' /\ rows[j].loc \notin FreeOf(c)'
                        /\ rows[j].loc \notin freed[c] /\ image[c][rows[j].loc].key = j
    BY <1>1, KeysAssumption DEF RowsHeld
  <2>2. /\ rows[j].loc \in UsedBy(c) /\ rows[j].loc \notin FreeOf(c)
        /\ rows[j].loc \notin freed[c] /\ image[c][rows[j].loc].key = j
    BY <2>1 DEF SpaceInv, RowsHeld
  <2>. QED BY <1>4, <2>2
<1>6. FreeHeld'
  <2>1. \A c \in Containers : freed[c] \subseteq UsedBy(c)
    BY DEF SpaceInv, FreeHeld
  <2>2. freed[d] \cap ckpt.free = {}
    BY <1>0, <1>1 DEF SpaceInv, FreeHeld
  <2>3. \A c \in Containers : freed'[c] \subseteq UsedBy(c)'
    BY <1>1, <1>4, <2>1, <2>2
  <2>. QED BY <1>2, <2>3 DEF FreeHeld, Writing
<1>7. CopyHeld'
  BY <1>2 DEF CopyHeld
<1>. QED BY <1>5, <1>6, <1>7 DEF SpaceInv

\* A crash leaves no row, and recovery gives the rows the locations of the checkpoints,
\* or frees them.
LEMMA SpaceInvCrash ==
    ASSUME TypeInv, SpaceInv, Crash
    PROVE  SpaceInv'
<1>1. /\ rows' = [k \in Keys |-> NoRow] /\ freed' = [c \in Containers |-> {}]
      /\ ckpt'.at = "off"
  BY DEF Crash, Idle
<1>2. RowsHeld'
  BY <1>1, NoRowIs DEF RowsHeld
<1>3. FreeHeld' /\ CopyHeld'
  BY <1>1 DEF FreeHeld, CopyHeld, Writing
<1>. QED BY <1>2, <1>3 DEF SpaceInv

\* So of recovery.
LEMMA SpaceInvRecover ==
    ASSUME TypeInv, SpaceInv, Recover
    PROVE  SpaceInv'
<1>1. phase = "down" /\ ckpt.at = "off" /\ UNCHANGED <<ckpt, meta, image>>
  BY DEF Recover, TypeInv, Closed, disk
<1>2. CASE Refuses
  <2>1. UNCHANGED <<rows, freed>>
    BY <1>2 DEF Recover, memory
  <2>. QED BY <1>1, <2>1, SpaceInvKept
<1>3. CASE ~Refuses
  <2>1. rows' = Recovered.rows /\ freed' = Recovered.freed
    BY <1>3 DEF Recover
  <2>2. \A c \in Containers : UsedBy(c)' = meta[c].used /\ FreeOf(c)' = {}
    BY <1>1 DEF UsedBy, FreeOf, On, Writing
  <2>3. /\ \A k \in Keys : rows'[k].loc # NoLoc =>
              rows'[k].loc = Loaded(k).loc /\ rows'[k].loc \notin freed'[Holder[k]]
        /\ \A c \in Containers : \A l \in freed'[c] :
              l \in Locations /\ \E k \in Keys : Holder[k] = c /\ l = Loaded(k).loc
    <3>. HIDE DEF RowType
    <3>. QED BY <2>1, RecoveredIsDb DEF IsDb
  <2>4. \A k \in Keys : Loaded(k).loc # NoLoc =>
           /\ Loaded(k).loc \in meta[Holder[k]].used
           /\ image[Holder[k]][Loaded(k).loc].key = k
    BY LoadedIs
  <2>5. RowsHeld'
    <3>1. SUFFICES ASSUME NEW j \in Keys, rows'[j].loc # NoLoc,
                          NEW c \in Containers, c = Holder[j]
                   PROVE  /\ rows'[j].loc \in UsedBy(c)' /\ rows'[j].loc \notin FreeOf(c)'
                          /\ rows'[j].loc \notin freed'[c] /\ image[c][rows'[j].loc].key = j
      BY <1>1, KeysAssumption DEF RowsHeld
    <3>. QED BY <2>2, <2>3, <2>4, <3>1
  <2>6. \A c \in Containers : freed'[c] \subseteq UsedBy(c)'
    <3>1. SUFFICES ASSUME NEW c \in Containers, NEW l \in freed'[c] PROVE l \in meta[c].used
      BY <2>2
    <3>2. PICK k \in Keys : Holder[k] = c /\ l = Loaded(k).loc
      BY <2>3, <3>1
    <3>3. l # NoLoc
      BY <2>3, <3>1, SizesAssumption DEF NoLoc
    <3>. QED BY <2>4, <3>2, <3>3
  <2>7. FreeHeld' /\ CopyHeld'
    BY <1>1, <2>6 DEF FreeHeld, CopyHeld, Writing
  <2>. QED BY <2>5, <2>7 DEF SpaceInv
<1>. QED BY <1>2, <1>3

\* Every step keeps the space as it is said to be.
LEMMA SpaceInvStep ==
    ASSUME TypeInv, SpaceInv, [Next]_vars
    PROVE  SpaceInv'
<1>1. CASE \E t \in Txns : Transact(t)
  BY <1>1, SpaceInvElsewhere, SpaceInvApply DEF Transact
<1>2. CASE Checkpoint
  BY <1>2, SpaceInvStart, SpaceInvContainer, SpaceInvCopy, SpaceInvPlace, SpaceInvTakeFreed,
     SpaceInvNote, SpaceInvCommit DEF Checkpoint
<1>3. CASE Archive \/ Crash \/ Recover \/ UNCHANGED vars
  BY <1>3, SpaceInvElsewhere, SpaceInvCrash, SpaceInvRecover
<1>. QED BY <1>1, <1>2, <1>3 DEF Next

\* The locations of the rows are right when the invariant holds.
LEMMA SpaceInvHolds == TypeInv /\ SpaceInv => CheckpointsHoldTheirRows
<1>. SUFFICES ASSUME TypeInv, SpaceInv PROVE LocationsHeld
  BY TypeInvGivesTypeOK DEF CheckpointsHoldTheirRows
<1>. SUFFICES ASSUME NEW k \in Keys, rows[k].loc # NoLoc
              PROVE  /\ image[Holder[k]][rows[k].loc].key = k
                     /\ \A j \in Keys \ {k} : Holder[j] = Holder[k] => rows[j].loc # rows[k].loc
  BY DEF LocationsHeld
<1>. QED BY RowsApart DEF SpaceInv, RowsHeld

\* The types, and the space of the checkpoint files: each location holds the row that is
\* there, and no other row has it.  Checkpoints, the erases that go on beside them, crashes
\* and recoveries keep it so, for all rows.
THEOREM SpaceIsSound == Spec => []CheckpointsHoldTheirRows
<1>1. Init => TypeInv /\ SpaceInv
  BY TypeInvInit, SpaceInvInit
<1>2. TypeInv /\ SpaceInv /\ [Next]_vars => TypeInv' /\ SpaceInv'
  BY TypeInvStep, SpaceInvStep
<1>3. TypeInv /\ SpaceInv => CheckpointsHoldTheirRows
  BY SpaceInvHolds
<1>. QED BY <1>1, <1>2, <1>3, PTL DEF Spec

-----------------------------------------------------------------------------
\* What recovery brings back

(***************************************************************************)
(* The crashes that recovery is up to: none comes while the log still has  *)
(* a torn record from an earlier one, which would hide all that was logged *)
(* behind it, none tears the first record of a file, and none comes        *)
(* between the creation of the very first log file and the first record in *)
(* it: recovery takes the end of that log for LSN -1.  A later file that   *)
(* the crash leaves without a record it is up to.                          *)
(***************************************************************************)
LogHasBegun == Crash => DOMAIN files' = {} \/ order' # <<>>
CrashIsBearable ==
    /\ Crash => /\ \A n \in DOMAIN files : Whole(files[n]) = 0
                /\ \A n \in DOMAIN files' : files'[n] = <<>> \/ WholePart(files'[n]) # <<>>
    /\ LogHasBegun

-----------------------------------------------------------------------------
\* The values that the transactions in the log give to a row

\* What the first n transactions of a log make of the row of k.
ValueIn(o, k, n) ==
    LET writers == {i \in 1 .. n : k \in KeysOf(o[i])}
        last == o[Max(writers)] IN
    IF writers = {} THEN NoTxn
    ELSE IF Changes[last][k] = "erase" THEN NoTxn ELSE last

\* The value changes with each transaction that changes the row.
LEMMA ValueInIs ==
    ASSUME NEW o \in Seq(Txns), NEW k \in Keys, NEW n \in 0 .. Len(o)
    PROVE  /\ n = 0 => ValueIn(o, k, n) = NoTxn
           /\ n > 0 /\ k \notin KeysOf(o[n]) => ValueIn(o, k, n) = ValueIn(o, k, n - 1)
           /\ n > 0 /\ k \in KeysOf(o[n]) =>
                 ValueIn(o, k, n) = IF Changes[o[n]][k] = "erase" THEN NoTxn ELSE o[n]
<1>. DEFINE W(m) == {i \in 1 .. m : k \in KeysOf(o[i])}
<1>1. ASSUME n = 0
      PROVE  ValueIn(o, k, n) = NoTxn
  <2>1. W(n) = {}
    BY <1>1
  <2>. QED BY <2>1 DEF ValueIn
<1>2. ASSUME n > 0, k \notin KeysOf(o[n])
      PROVE  ValueIn(o, k, n) = ValueIn(o, k, n - 1)
  <2>1. W(n) = W(n - 1)
    BY <1>2
  <2>. QED BY <2>1 DEF ValueIn
<1>3. ASSUME n > 0, k \in KeysOf(o[n])
      PROVE  ValueIn(o, k, n) = IF Changes[o[n]][k] = "erase" THEN NoTxn ELSE o[n]
  <2>1. W(n) \subseteq Nat /\ n \in W(n) /\ n \in Nat /\ \A y \in W(n) : y <= n
    BY <1>3
  <2>2. Max(W(n)) = n
    <3>. HIDE DEF W
    <3>1. Max(W(n)) \in W(n) /\ \A y \in W(n) : y <= Max(W(n))
      BY <2>1, MaxOfNats
    <3>. QED BY <2>1, <3>1
  <2>3. W(n) # {}
    BY <2>1
  <2>. QED BY <2>2, <2>3 DEF ValueIn
<1>. QED BY <1>1, <1>2, <1>3

\* It stays while nobody changes the row.
LEMMA UntouchedKeeps ==
    ASSUME NEW o \in Seq(Txns), NEW k \in Keys, NEW a \in 0 .. Len(o), NEW b \in a .. Len(o),
           \A i \in a + 1 .. b : k \notin KeysOf(o[i])
    PROVE  ValueIn(o, k, a) = ValueIn(o, k, b)
<1>. DEFINE W(m) == {i \in 1 .. m : k \in KeysOf(o[i])}
<1>1. W(a) = W(b)
  OBVIOUS
<1>. QED BY <1>1 DEF ValueIn

\* Values of the past stay as they are when the log grows.
LEMMA ValueKept ==
    ASSUME NEW o \in Seq(Txns), NEW p \in Seq(Txns), \A i \in 1 .. Len(o) : p[i] = o[i],
           NEW k \in Keys, NEW n \in 0 .. Len(o)
    PROVE  ValueIn(p, k, n) = ValueIn(o, k, n)
<1>. DEFINE W == {i \in 1 .. n : k \in KeysOf(o[i])}
            X == {i \in 1 .. n : k \in KeysOf(p[i])}
<1>1. X = W
  OBVIOUS
<1>2. ValueIn(p, k, n) = IF X = {} THEN NoTxn
                         ELSE IF Changes[p[Max(X)]][k] = "erase" THEN NoTxn ELSE p[Max(X)]
  BY DEF ValueIn
<1>3. ValueIn(o, k, n) = IF W = {} THEN NoTxn
                         ELSE IF Changes[o[Max(W)]][k] = "erase" THEN NoTxn ELSE o[Max(W)]
  BY DEF ValueIn
<1>4. CASE W # {}
  <2>1. W \subseteq Nat /\ n \in Nat /\ \A y \in W : y <= n
    OBVIOUS
  <2>2. Max(W) \in W
    <3>. HIDE DEF W
    <3>. QED BY <1>4, <2>1, MaxOfNats
  <2>3. p[Max(W)] = o[Max(W)]
    BY <2>2
  <2>. HIDE DEF W, X
  <2>. QED BY <1>1, <1>2, <1>3, <2>3
<1>. HIDE DEF W, X
<1>. QED BY <1>1, <1>2, <1>3, <1>4

\* A value that the row had at some place of the log behind another.
Was(o, k, from, v) == \E p \in from .. Len(o) : v = ValueIn(o, k, p)

\* It had it, however the log goes on.
LEMMA WasKept ==
    ASSUME NEW o \in Seq(Txns), NEW p \in Seq(Txns), \A i \in 1 .. Len(o) : p[i] = o[i],
           Len(o) <= Len(p), NEW k \in Keys, NEW from \in Nat, NEW v, Was(o, k, from, v)
    PROVE  Was(p, k, from, v)
<1>1. PICK n \in from .. Len(o) : v = ValueIn(o, k, n)
  BY DEF Was
<1>2. n \in 0 .. Len(o) /\ n \in from .. Len(p)
  OBVIOUS
<1>3. ValueIn(p, k, n) = ValueIn(o, k, n)
  BY <1>2, ValueKept
<1>. QED BY <1>1, <1>2, <1>3 DEF Was

(***************************************************************************)
(* What a checkpoint file shows of a row at the given places: its value at *)
(* the one place that has the row, or nobody's.                            *)
(***************************************************************************)
Shows(file, used, k, v) ==
    IF \E l \in used : file[l].key = k THEN \E l \in used : file[l].key = k /\ file[l].val = v
                                       ELSE v = NoTxn
Only(file, used, k) ==
    \A l, m \in used : file[l].key = k /\ file[m].key = k => l = m

\* It is the row as it was at some place of the log behind another.
Depicts(file, used, k, from, o) ==
    Only(file, used, k) /\ \E v : Shows(file, used, k, v) /\ Was(o, k, from, v)

\* What is in the log stays there.
LogGrows == order' = order \/ \E t \in Txns : order' = Append(order, t)

\* So do the values that it gives.
LEMMA LogGrowsIs ==
    ASSUME order \in Seq(Txns), LogGrows
    PROVE  /\ order' \in Seq(Txns) /\ Len(order') \in {Len(order), Len(order) + 1}
           /\ \A i \in 1 .. Len(order) : order'[i] = order[i]
BY DEF LogGrows

-----------------------------------------------------------------------------
\* The transactions: who is in the log, and who has locked rows

Live == {"pending", "logging", "logged"}

\* The transactions in the log are those that got so far, each at the place of its LSN.
OrderInv ==
    /\ order \in Seq(Txns)
    /\ \A i \in 1 .. Len(order) : pc[order[i]] \in {"logged", "committed", "dead"}
    /\ \A t \in Txns : pc[t] \in {"logged", "committed"} =>
          lsn[t] \in 1 .. Len(order) /\ order[lsn[t]] = t

\* Each row that a live transaction changes is locked by it, and no other row is locked.
LockInv ==
    /\ phase = "open" => \A k \in Keys, t \in Txns :
          rows[k].locker = t <=> pc[t] \in Live /\ k \in KeysOf(t)
    /\ phase # "open" => \A t \in Txns : pc[t] \notin Live
    /\ writer # NoTxn => phase = "open"

TxnInv == OrderInv /\ LockInv

\* Two live transactions change different rows.
LEMMA OneChanger ==
    ASSUME TxnInv, phase = "open", NEW t \in Txns, NEW u \in Txns, NEW k \in Keys,
           pc[t] \in Live, pc[u] \in Live, k \in KeysOf(t), k \in KeysOf(u)
    PROVE  t = u
BY DEF TxnInv, LockInv

\* Initially nobody is in the log.
LEMMA TxnInvInit == Init => TxnInv
<1>. SUFFICES ASSUME Init PROVE TxnInv
  OBVIOUS
<1>1. OrderInv
  BY DEF Init, OrderInv
<1>2. LockInv
  BY NoRowIs, NobodyAssumption DEF Init, LockInv, Live
<1>. QED BY <1>1, <1>2 DEF TxnInv

\* Nothing happens to the transactions.
LEMMA TxnInvKept ==
    ASSUME TxnInv, UNCHANGED <<phase, pc, lsn, order, writer>>,
           \A k \in Keys : rows'[k].locker = rows[k].locker
    PROVE  TxnInv'
<1>1. OrderInv'
  BY DEF TxnInv, OrderInv
<1>2. LockInv'
  BY DEF TxnInv, LockInv
<1>. QED BY <1>1, <1>2 DEF TxnInv

\* The steps of a transaction: its first locks rows, its last unlocks them.
LEMMA OperateLocks ==
    ASSUME TypeInv, TxnInv, NEW t \in Txns, Operate(t)
    PROVE  TxnInv'
<1>1. /\ UNCHANGED <<phase, lsn, order, writer>> /\ phase = "open" /\ pc[t] = "begin"
      /\ pc' = [pc EXCEPT ![t] = "pending"] /\ pc \in [Txns -> Stages]
      /\ \A k \in KeysOf(t) : rows[k].locker = NoTxn
      /\ rows' = [k \in Keys |-> IF k \in KeysOf(t) THEN [rows[k] EXCEPT !.locker = t] ELSE rows[k]]
  BY DEF Operate, Goto, log, TypeInv, TxnsTyped
<1>2. OrderInv'
  BY <1>1 DEF TxnInv, OrderInv
<1>3. \A k \in Keys : rows'[k].locker = IF k \in KeysOf(t) THEN t ELSE rows[k].locker
  <2>1. \A k \in Keys : rows[k] \in RowType
    BY DEF TypeInv, RegionTyped
  <2>2. \A k \in Keys : [rows[k] EXCEPT !.locker = t].locker = t
    BY <2>1 DEF RowType
  <2>. QED BY <1>1, <2>2
<1>4. LockInv'
  <2>1. SUFFICES ASSUME NEW k \in Keys, NEW u \in Txns
                 PROVE  rows'[k].locker = u <=> pc'[u] \in Live /\ k \in KeysOf(u)
    BY <1>1 DEF TxnInv, LockInv
  <2>2. rows[k].locker = u <=> pc[u] \in Live /\ k \in KeysOf(u)
    BY <1>1 DEF TxnInv, LockInv
  <2>3. CASE u = t
    BY <1>1, <1>3, <2>2, <2>3, NobodyAssumption DEF Live
  <2>4. CASE u # t
    BY <1>1, <1>3, <2>2, <2>4, NobodyAssumption DEF Live
  <2>. QED BY <2>3, <2>4
<1>. QED BY <1>2, <1>4 DEF TxnInv

\* Rollback unlocks all that it has locked.
LEMMA RollbackLocks ==
    ASSUME TypeInv, TxnInv, NEW t \in Txns, Rollback(t)
    PROVE  TxnInv'
<1>1. /\ UNCHANGED <<phase, lsn, order, writer>> /\ phase = "open" /\ pc[t] = "pending"
      /\ pc' = [pc EXCEPT ![t] = "rolledback"] /\ pc \in [Txns -> Stages]
      /\ rows' = [k \in Keys |->
            IF rows[k].locker # t THEN rows[k]
            ELSE IF kind[t][k] = "insert" THEN NoRow ELSE [rows[k] EXCEPT !.locker = NoTxn]]
  BY DEF Rollback, Goto, log, TypeInv, TxnsTyped
<1>2. OrderInv'
  BY <1>1 DEF TxnInv, OrderInv
<1>3. \A k \in Keys : rows'[k].locker = IF rows[k].locker = t THEN NoTxn ELSE rows[k].locker
  <2>1. \A k \in Keys : rows[k] \in RowType
    BY DEF TypeInv, RegionTyped
  <2>2. \A k \in Keys : [rows[k] EXCEPT !.locker = NoTxn].locker = NoTxn
    BY <2>1 DEF RowType
  <2>. QED BY <1>1, <2>2, NoRowIs
<1>4. LockInv'
  <2>1. SUFFICES ASSUME NEW k \in Keys, NEW u \in Txns
                 PROVE  rows'[k].locker = u <=> pc'[u] \in Live /\ k \in KeysOf(u)
    BY <1>1 DEF TxnInv, LockInv
  <2>2. rows[k].locker = u <=> pc[u] \in Live /\ k \in KeysOf(u)
    BY <1>1 DEF TxnInv, LockInv
  <2>3. CASE u = t
    BY <1>1, <1>3, <2>2, <2>3, NobodyAssumption DEF Live
  <2>4. CASE u # t
    BY <1>1, <1>3, <2>2, <2>4, NobodyAssumption DEF Live
  <2>. QED BY <2>3, <2>4
<1>. QED BY <1>2, <1>4 DEF TxnInv

\* The log is opened, ...
LEMMA OpenLogLocks ==
    ASSUME TypeInv, TxnInv, NEW t \in Txns, OpenLog(t)
    PROVE  TxnInv'
<1>1. /\ UNCHANGED <<phase, lsn, order, rows>> /\ phase = "open" /\ pc[t] = "pending"
      /\ pc' = [pc EXCEPT ![t] = "logging"] /\ pc \in [Txns -> Stages]
  BY DEF OpenLog, Goto, memory, TypeInv, TxnsTyped
<1>2. OrderInv'
  BY <1>1 DEF TxnInv, OrderInv
<1>3. LockInv'
  BY <1>1 DEF TxnInv, LockInv, Live
<1>. QED BY <1>2, <1>3 DEF TxnInv

\* The writer is a transaction that is about to log.
LEMMA WriterIs ==
    ASSUME TypeInv, writer # NoTxn
    PROVE  writer \in Txns /\ pc[writer] = "logging"
BY DEF TypeInv, LogTyped

\* ... the record is written, which puts the transaction into the log, ...
LEMMA WriteLogLocks ==
    ASSUME TypeInv, TxnInv, last_write = Len(order), NEW t \in Txns, WriteLog(t)
    PROVE  TxnInv'
<1>1. /\ UNCHANGED <<phase, rows>> /\ phase = "open" /\ pc[t] = "logging"
      /\ pc' = [pc EXCEPT ![t] = "logged"] /\ pc \in [Txns -> Stages]
      /\ lsn' = [lsn EXCEPT ![t] = Len(order) + 1] /\ lsn \in [Txns -> Nat]
      /\ order' = Append(order, t)
  BY NobodyAssumption DEF WriteLog, Goto, memory, TypeInv, TxnsTyped, LogTyped
<1>2. order \in Seq(Txns)
  BY DEF TxnInv, OrderInv
<1>3. /\ order' \in Seq(Txns) /\ Len(order') = Len(order) + 1 /\ order'[Len(order) + 1] = t
      /\ \A i \in 1 .. Len(order) : order'[i] = order[i]
  BY <1>1, <1>2
<1>4. OrderInv'
  <2>1. \A i \in 1 .. Len(order') : pc'[order'[i]] \in {"logged", "committed", "dead"}
    <3>1. SUFFICES ASSUME NEW i \in 1 .. Len(order')
                   PROVE  pc'[order'[i]] \in {"logged", "committed", "dead"}
      OBVIOUS
    <3>2. CASE i = Len(order) + 1
      BY <1>1, <1>3, <3>2
    <3>3. CASE i \in 1 .. Len(order)
      <4>1. pc[order[i]] \in {"logged", "committed", "dead"} /\ order[i] \in Txns
        BY <1>2, <3>3 DEF TxnInv, OrderInv
      <4>. QED BY <1>1, <1>3, <3>3, <4>1
    <3>. QED BY <1>2, <1>3, <3>2, <3>3
  <2>2. ASSUME NEW u \in Txns, pc'[u] \in {"logged", "committed"}
        PROVE  lsn'[u] \in 1 .. Len(order') /\ order'[lsn'[u]] = u
    <3>1. CASE u = t
      BY <1>1, <1>2, <1>3, <3>1
    <3>2. CASE u # t
      <4>1. lsn'[u] = lsn[u] /\ lsn[u] \in 1 .. Len(order) /\ order[lsn[u]] = u
        BY <1>1, <2>2, <3>2 DEF TxnInv, OrderInv
      <4>. QED BY <1>2, <1>3, <4>1
    <3>. QED BY <3>1, <3>2
  <2>. QED BY <1>3, <2>1, <2>2 DEF OrderInv
<1>5. LockInv'
  BY <1>1 DEF TxnInv, LockInv, Live
<1>. QED BY <1>4, <1>5 DEF TxnInv

\* ... and phase 3 unlocks the rows.
LEMMA ApplyLocks ==
    ASSUME TypeInv, TxnInv, NEW t \in Txns, Apply(t)
    PROVE  TxnInv'
<1>1. /\ UNCHANGED <<phase, lsn, order, writer>> /\ phase = "open" /\ pc[t] = "logged"
      /\ pc' = [pc EXCEPT ![t] = "committed"] /\ pc \in [Txns -> Stages]
      /\ rows' = [k \in Keys |-> IF k \in KeysOf(t)
                                 THEN Applied(rows[k], kind[t][k], t, lsn[t]) ELSE rows[k]]
  BY DEF Apply, Goto, log, TypeInv, TxnsTyped
<1>2. OrderInv'
  BY <1>1 DEF TxnInv, OrderInv
<1>3. \A k \in Keys : rows'[k].locker = IF k \in KeysOf(t) THEN NoTxn ELSE rows[k].locker
  BY <1>1, NoRowIs DEF Applied, Row
<1>4. LockInv'
  <2>1. SUFFICES ASSUME NEW k \in Keys, NEW u \in Txns
                 PROVE  rows'[k].locker = u <=> pc'[u] \in Live /\ k \in KeysOf(u)
    BY <1>1 DEF TxnInv, LockInv
  <2>2. rows[k].locker = u <=> pc[u] \in Live /\ k \in KeysOf(u)
    BY <1>1 DEF TxnInv, LockInv
  <2>3. CASE u = t
    BY <1>1, <1>3, <2>2, <2>3, NobodyAssumption DEF Live
  <2>4. CASE u # t
    <3>1. k \in KeysOf(t) => rows[k].locker = t
      BY <1>1 DEF TxnInv, LockInv, Live
    <3>. QED BY <1>1, <1>3, <2>2, <2>4, <3>1, NobodyAssumption DEF Live
  <2>. QED BY <2>3, <2>4
<1>. QED BY <1>2, <1>4 DEF TxnInv

\* A crash leaves nobody alive, and may put one more into the log.
LEMMA CrashLocks ==
    ASSUME TypeInv, TxnInv, Crash
    PROVE  TxnInv' /\ LogGrows
<1>1. /\ phase' = "down" /\ writer' = NoTxn /\ UNCHANGED lsn /\ pc \in [Txns -> Stages]
      /\ pc' = [t \in Txns |-> IF pc[t] \in Live THEN "dead" ELSE pc[t]]
  BY DEF Crash, Live, TypeInv, TxnsTyped
<1>2. order' = order \/ (writer # NoTxn /\ order' = Append(order, writer))
  BY CrashTypes DEF CrashesTo
<1>3. writer # NoTxn => writer \in Txns /\ pc[writer] = "logging"
  BY WriterIs
<1>4. LogGrows
  BY <1>2, <1>3 DEF LogGrows
<1>5. order \in Seq(Txns)
  BY DEF TxnInv, OrderInv
<1>6. /\ order' \in Seq(Txns) /\ Len(order') \in {Len(order), Len(order) + 1}
      /\ \A i \in 1 .. Len(order) : order'[i] = order[i]
      /\ Len(order') = Len(order) + 1 => order'[Len(order) + 1] = writer /\ writer # NoTxn
  BY <1>2, <1>3, <1>5
<1>7. OrderInv'
  <2>1. ASSUME NEW i \in 1 .. Len(order')
        PROVE  pc'[order'[i]] \in {"logged", "committed", "dead"}
    <3>2. CASE i \in 1 .. Len(order)
      <4>1. pc[order[i]] \in {"logged", "committed", "dead"} /\ order[i] \in Txns
        BY <1>5, <3>2 DEF TxnInv, OrderInv
      <4>. QED BY <1>1, <1>6, <3>2, <4>1
    <3>3. CASE i \notin 1 .. Len(order)
      <4>1. i = Len(order) + 1 /\ Len(order') = Len(order) + 1
        BY <1>5, <1>6, <3>3
      <4>. QED BY <1>1, <1>3, <1>6, <4>1 DEF Live
    <3>. QED BY <3>2, <3>3
  <2>2. ASSUME NEW u \in Txns, pc'[u] \in {"logged", "committed"}
        PROVE  lsn'[u] \in 1 .. Len(order') /\ order'[lsn'[u]] = u
    <3>1. pc[u] = "committed"
      BY <1>1, <2>2 DEF Live
    <3>2. lsn[u] \in 1 .. Len(order) /\ order[lsn[u]] = u
      BY <3>1 DEF TxnInv, OrderInv
    <3>. QED BY <1>1, <1>5, <1>6, <3>2
  <2>. QED BY <1>6, <2>1, <2>2 DEF OrderInv
<1>8. LockInv'
  BY <1>1 DEF LockInv, Live
<1>. QED BY <1>4, <1>7, <1>8 DEF TxnInv

\* Recovery finds nobody alive and leaves no row locked.
LEMMA RecoverLocks ==
    ASSUME TypeInv, TxnInv, Recover
    PROVE  TxnInv'
<1>1. phase = "down" /\ UNCHANGED <<pc, lsn, order, writer>> /\ writer = NoTxn
  BY DEF Recover, txns, TypeInv, Closed
<1>2. OrderInv'
  BY <1>1 DEF TxnInv, OrderInv
<1>3. \A t \in Txns : pc[t] \notin Live
  BY <1>1 DEF TxnInv, LockInv
<1>4. CASE Refuses
  <2>1. phase' = "refused"
    BY <1>4 DEF Recover
  <2>. QED BY <1>1, <1>2, <1>3, <2>1 DEF TxnInv, LockInv
<1>5. CASE ~Refuses
  <2>1. rows' = Recovered.rows
    BY <1>5 DEF Recover
  <2>2. \A k \in Keys : rows'[k].locker = NoTxn
    BY <2>1, RecoveredIsDb DEF IsDb
  <2>3. LockInv'
    BY <1>1, <1>3, <2>2, NobodyAssumption DEF LockInv
  <2>. QED BY <1>2, <2>3 DEF TxnInv
<1>. QED BY <1>4, <1>5

-----------------------------------------------------------------------------
\* The log files

\* The LSN of the last whole record of a file, or its name, when there is none.
End(fs, n) == n + Len(WholePart(fs[n]))

(***************************************************************************)
(* The files hold the log without gaps: each starts where an earlier one   *)
(* ends, and only one that starts at the end of the log may be empty.      *)
(***************************************************************************)
Contiguous ==
    /\ DOMAIN files \subseteq 0 .. Len(order)
    /\ \A n \in DOMAIN files :
          /\ End(files, n) <= Len(order)
          /\ End(files, n) = Len(order) \/ End(files, n) \in DOMAIN files
          /\ \A m \in DOMAIN files : m > n => m >= End(files, n)
          /\ End(files, n) = n => n = Len(order) /\ files[n] = <<>>
    /\ Len(order) > 0 => DOMAIN files # {}

\* The records are those of the transactions in the log.
Recorded ==
    \A n \in DOMAIN files : \A i \in 1 .. Len(WholePart(files[n])) :
        /\ files[n][i].lsn = n + i
        /\ files[n][i].txn = order[n + i]
        /\ files[n][i].ops = kind[order[n + i]]

\* The current file is the last one, complete up to the end of the log; after a crash none
\* is current, and where there is a file there is a record.
Current ==
    /\ phase = "open" => last_write = Len(order)
    /\ writer # NoTxn => log_filename # NoFile
    /\ phase = "down" /\ DOMAIN files # {} => Len(order) > 0
    /\ log_filename # NoFile =>
          /\ phase = "open"
          /\ log_filename \in 0 .. Len(order) /\ log_filename + log_len = Len(order)
          /\ \A n \in DOMAIN files : n <= log_filename
          /\ log_filename \in DOMAIN files =>
                Whole(files[log_filename]) = 0 /\ Len(files[log_filename]) = log_len
          /\ log_len > 0 \/ writer # NoTxn => log_filename \in DOMAIN files

\* What a crash has torn is at the end of the last file.
TornAtEnd ==
    phase # "open" => \A n, m \in DOMAIN files : Whole(files[n]) # 0 => m <= n

\* The log reaches back to where the checkpoints need it.
Reachable ==
    DOMAIN files # {} =>
        /\ \E n \in DOMAIN files : \A c \in Checked : n <= meta[c].start
        /\ Checked = {} => 0 \in DOMAIN files

\* The checkpoints are not ahead of the log, and the one in progress is ahead of all others.
Starts ==
    /\ \A c \in Containers : /\ meta[c].start <= Len(order) /\ meta[c].end <= Len(order)
                             /\ ckpt_history[c] <= Len(order)
    /\ ckpt.at \in Writing => /\ \A c \in Containers : meta[c].start <= ckpt.start
                              /\ ckpt_history[ckpt.c] <= ckpt.start
    /\ ckpt.at = "noted" => ckpt.end <= Len(order)

FilesInv == Contiguous /\ Recorded /\ Current /\ TornAtEnd
LogInv == FilesInv /\ Reachable /\ Starts

\* Initially there are no files.
LEMMA LogInvInit == Init => LogInv
<1>. SUFFICES ASSUME Init PROVE LogInv
  OBVIOUS
<1>1. DOMAIN files = {} /\ Len(order) = 0 /\ log_filename = NoFile /\ ckpt.at = "off"
  BY DEF Init, Idle
<1>2. FilesInv
  BY <1>1 DEF Init, FilesInv, Contiguous, Recorded, Current, TornAtEnd
<1>3. Reachable
  BY <1>1 DEF Reachable
<1>4. Starts
  BY <1>1 DEF Init, Starts, Writing, NoMeta
<1>. QED BY <1>2, <1>3, <1>4 DEF LogInv

\* What the files are, in numbers.
LEMMA FilesAre ==
    ASSUME TypeInv, NEW n \in DOMAIN files
    PROVE  /\ files[n] \in Seq(Records) /\ n \in Lsns
           /\ Len(WholePart(files[n])) \in Nat /\ Len(WholePart(files[n])) <= Len(files[n])
           /\ Whole(files[n]) = 0 => WholePart(files[n]) = files[n]
           /\ \A i \in 1 .. Len(WholePart(files[n])) :
                 WholePart(files[n])[i] = files[n][i] /\ files[n][i] \in Records
<1>1. files[n] \in Seq(Records) /\ n \in Lsns
  BY DEF TypeInv, FilesTyped
<1>2. /\ WholePart(files[n]) \in Seq(Records) /\ Len(WholePart(files[n])) <= Len(files[n])
      /\ \A i \in 1 .. Len(WholePart(files[n])) : WholePart(files[n])[i] = files[n][i]
      /\ Whole(files[n]) = 0 => WholePart(files[n]) = files[n]
  BY <1>1, WholePartIs
<1>. HIDE DEF Records
<1>. QED BY <1>1, <1>2

\* Nothing happens to the log.
LEMMA FilesInvKept ==
    ASSUME FilesInv, UNCHANGED <<phase, last_write, order, files, writer, log_filename, log_len>>,
           \A n \in DOMAIN files : \A i \in 1 .. Len(WholePart(files[n])) :
              kind'[order[n + i]] = kind[order[n + i]]
    PROVE  FilesInv'
<1>1. \A n : WholePart(files[n])' = WholePart(files[n]) /\ Whole(files[n])' = Whole(files[n])
  OBVIOUS
<1>2. \A n : End(files, n)' = End(files, n)
  BY DEF End
<1>3. Contiguous'
  BY <1>2 DEF FilesInv, Contiguous
<1>4. Recorded'
  BY <1>1 DEF FilesInv, Recorded
<1>5. Current' /\ TornAtEnd'
  BY <1>1 DEF FilesInv, Current, TornAtEnd
<1>. QED BY <1>3, <1>4, <1>5 DEF FilesInv

\* A new transaction has no record in the log yet.
LEMMA FilesInvOperate ==
    ASSUME TypeInv, TxnInv, FilesInv, NEW t \in Txns, Operate(t)
    PROVE  FilesInv'
<1>1. /\ UNCHANGED <<phase, last_write, order, files, writer, log_filename, log_len>>
      /\ pc[t] = "begin" /\ DOMAIN kind = Txns
      /\ \A u \in Txns \ {t} : kind'[u] = kind[u]
  BY DEF Operate, log, disk, TypeInv, TxnsTyped
<1>2. ASSUME NEW n \in DOMAIN files, NEW i \in 1 .. Len(WholePart(files[n]))
      PROVE  kind'[order[n + i]] = kind[order[n + i]]
  <2>1. n + i \in 1 .. Len(order)
    BY <1>2, FilesAre DEF FilesInv, Contiguous, End
  <2>2. order[n + i] \in Txns /\ pc[order[n + i]] # "begin"
    BY <2>1 DEF TxnInv, OrderInv
  <2>. QED BY <1>1, <2>2
<1>. QED BY <1>1, <1>2, FilesInvKept

\* A file without records has none that is torn.
LEMMA EmptyIsWhole == Whole(<<>>) = 0 /\ WholePart(<<>>) = <<>> /\ Len(<<>>) = 0
<1>1. <<>> \in Seq(Records) /\ Len(<<>>) = 0
  OBVIOUS
<1>2. PICK e : e = <<>>
  OBVIOUS
<1>. HIDE DEF Records
<1>3. e \in Seq(Records) /\ Len(e) = 0
  BY <1>1, <1>2
<1>4. Whole(e) \in 0 .. Len(e)
  BY <1>3, WholeFinds
<1>5. Whole(e) = 0
  BY <1>3, <1>4
<1>6. WholePart(e) = e
  BY <1>3, <1>5, WholePartIs
<1>. QED BY <1>1, <1>2, <1>5, <1>6

\* A file that is named by the end of the log has nothing in it yet.
LEMMA EndIsEmpty ==
    ASSUME TypeInv, TxnInv, FilesInv, Len(order) \in DOMAIN files
    PROVE  files[Len(order)] = <<>>
<1>1. PICK n : n = Len(order)
  OBVIOUS
<1>2. n \in Nat /\ n \in DOMAIN files
  BY <1>1 DEF TxnInv, OrderInv
<1>3. Len(WholePart(files[n])) \in Nat /\ n + Len(WholePart(files[n])) <= n
  BY <1>1, <1>2, FilesAre DEF FilesInv, Contiguous, End
<1>4. End(files, n) = n
  BY <1>2, <1>3 DEF End
<1>. QED BY <1>1, <1>2, <1>4 DEF FilesInv, Contiguous

\* A file that is created is named by the end of the log.
LEMMA FilesInvOpenLog ==
    ASSUME TypeInv, TxnInv, FilesInv, NEW t \in Txns, OpenLog(t)
    PROVE  /\ FilesInv' /\ DOMAIN files \subseteq DOMAIN files'
           /\ DOMAIN files = {} => 0 \in DOMAIN files'
<1>0. PICK name : name = NextFile
  OBVIOUS
<1>1. /\ phase = "open" /\ writer = NoTxn /\ writer' = t /\ t # NoTxn
      /\ log_filename' = name /\ log_len' = IF Rolls THEN 0 ELSE log_len
      /\ UNCHANGED <<phase, last_write, order, kind>>
      /\ last_write = Len(order) /\ order \in Seq(Txns)
  BY <1>0, NobodyAssumption DEF OpenLog, FilesInv, Current, TxnInv, OrderInv
<1>2. files' = [n \in DOMAIN files \cup {name} |-> IF n \in DOMAIN files THEN files[n] ELSE <<>>]
  BY <1>0 DEF OpenLog
<1>3. /\ DOMAIN files' = DOMAIN files \cup {name}
      /\ \A n \in DOMAIN files : files'[n] = files[n] /\ End(files', n) = End(files, n)
      /\ name \notin DOMAIN files => files'[name] = <<>>
  BY <1>2 DEF End
<1>4. name = Len(order) /\ name \in DOMAIN files => files[name] = <<>>
  BY EndIsEmpty
<1>5. \/ name = Len(order) /\ files'[name] = <<>> /\ log_len' = 0
      \/ name = log_filename /\ name \in DOMAIN files /\ log_len' = log_len /\ log_filename # NoFile
  <2>1. CASE Rolls
    BY <1>0, <1>1, <1>3, <1>4, <2>1 DEF NextFile
  <2>2. CASE ~Rolls
    <3>1. name = log_filename /\ log_len' = log_len /\ log_filename # NoFile
      BY <1>0, <1>1, <2>2 DEF NextFile, Rolls
    <3>2. log_filename \in 0 .. Len(order) /\ log_filename + log_len = Len(order) /\ log_len \in Nat
      BY <3>1 DEF FilesInv, Current, TypeInv, LogTyped
    <3>3. CASE log_len > 0
      BY <3>1, <3>3 DEF FilesInv, Current
    <3>4. CASE log_len = 0
      BY <1>3, <1>4, <3>1, <3>2, <3>4
    <3>. QED BY <3>2, <3>3, <3>4
  <2>. QED BY <2>1, <2>2
<1>6. Whole(<<>>) = 0 /\ WholePart(<<>>) = <<>>
  BY EmptyIsWhole
<1>7. \A n \in DOMAIN files : n \in Int /\ End(files, n) \in Int
  BY FilesAre DEF End, Lsns
<1>8. /\ files'[name] = <<>> => End(files', name) = name /\ Whole(files'[name]) = 0
                                 /\ WholePart(files'[name]) = <<>> /\ Len(files'[name]) = 0
      /\ name \notin DOMAIN files => files'[name] = <<>> /\ name = Len(order)
  <2>1. name \in Int
    BY <1>1, <1>5, <1>7
  <2>2. ASSUME files'[name] = <<>>
        PROVE  End(files', name) = name
    <3>1. End(files', name) = name + 0
      BY <2>2, EmptyIsWhole DEF End
    <3>. QED BY <2>1, <3>1
  <2>. QED BY <1>3, <1>5, <2>2, EmptyIsWhole
<1>9. Contiguous'
  <2>1. DOMAIN files' \subseteq 0 .. Len(order)
    BY <1>1, <1>3, <1>5 DEF FilesInv, Contiguous
  <2>2. ASSUME NEW n \in DOMAIN files'
        PROVE  /\ End(files', n) <= Len(order)
               /\ End(files', n) = Len(order) \/ End(files', n) \in DOMAIN files'
               /\ \A m \in DOMAIN files' : m > n => m >= End(files', n)
               /\ End(files', n) = n => n = Len(order) /\ files'[n] = <<>>
    <3>1. CASE n \in DOMAIN files
      <4>1. /\ End(files, n) <= Len(order)
            /\ End(files, n) = Len(order) \/ End(files, n) \in DOMAIN files
            /\ \A m \in DOMAIN files : m > n => m >= End(files, n)
            /\ End(files, n) = n => n = Len(order) /\ files[n] = <<>>
        BY <1>1, <3>1 DEF FilesInv, Contiguous
      <4>2. name \notin DOMAIN files => name >= End(files, n)
        BY <1>1, <1>8, <1>7, <3>1, <4>1
      <4>. QED BY <1>3, <3>1, <4>1, <4>2
    <3>2. CASE n \notin DOMAIN files
      <4>1. n = name /\ n = Len(order) /\ End(files', n) = n /\ files'[n] = <<>>
        BY <1>3, <1>5, <1>8, <3>2
      <4>. QED BY <1>1, <2>1, <4>1
    <3>. QED BY <3>1, <3>2
  <2>. QED BY <1>1, <1>3, <2>1, <2>2 DEF Contiguous
<1>10. Recorded'
  <2>1. SUFFICES ASSUME NEW n \in DOMAIN files', NEW i \in 1 .. Len(WholePart(files'[n]))
                 PROVE  /\ files'[n][i].lsn = n + i /\ files'[n][i].txn = order[n + i]
                        /\ files'[n][i].ops = kind[order[n + i]]
    BY <1>1 DEF Recorded
  <2>2. n \in DOMAIN files
    BY <1>3, <1>8, <2>1
  <2>. QED BY <1>3, <2>1, <2>2 DEF FilesInv, Recorded
<1>11. Current'
  <2>1. name \in 0 .. Len(order) /\ name + log_len' = Len(order) /\ name # NoFile
    BY <1>1, <1>5 DEF FilesInv, Current, NoFile
  <2>2. \A n \in DOMAIN files' : n <= name
    BY <1>1, <1>3, <1>5, <2>1 DEF FilesInv, Contiguous, Current
  <2>3. Whole(files'[name]) = 0 /\ Len(files'[name]) = log_len'
    BY <1>3, <1>5, <1>8 DEF FilesInv, Current
  <2>. QED BY <1>1, <1>3, <2>1, <2>2, <2>3 DEF Current
<1>12. TornAtEnd'
  BY <1>1 DEF TornAtEnd
<1>13. DOMAIN files = {} => 0 \in DOMAIN files'
  BY <1>1, <1>3, <1>5 DEF FilesInv, Contiguous
<1>. QED BY <1>3, <1>9, <1>10, <1>11, <1>12, <1>13 DEF FilesInv

\* A record at the end of a file is its last whole one, or is torn.
LEMMA AppendedIs ==
    ASSUME NEW f \in Seq(Records), Whole(f) = 0, NEW r \in Records, NEW g, g = Append(f, r)
    PROVE  /\ r.torn = FALSE => Whole(g) = 0 /\ WholePart(g) = g
           /\ r.torn = TRUE => Whole(g) # 0 /\ Len(WholePart(g)) = Len(f)
<1>0. r.torn \in BOOLEAN
  BY DEF Records
<1>. HIDE DEF Records
<1>1. /\ g \in Seq(Records) /\ Len(g) = Len(f) + 1 /\ g[Len(f) + 1] = r /\ Len(f) \in Nat
      /\ \A i \in 1 .. Len(f) : g[i] = f[i]
  OBVIOUS
<1>2. \A i \in 1 .. Len(f) : ~f[i].torn
  BY WholeFinds
<1>3. /\ Whole(g) \in 0 .. Len(g)
      /\ Whole(g) = 0 => \A i \in 1 .. Len(g) : ~g[i].torn
      /\ Whole(g) # 0 => g[Whole(g)].torn
  BY <1>1, WholeFinds
<1>4. /\ Whole(g) = 0 => WholePart(g) = g
      /\ Whole(g) # 0 => Len(WholePart(g)) = Whole(g) - 1
  BY <1>1, WholePartIs
<1>5. Len(f) + 1 \in 1 .. Len(g)
  BY <1>1
<1>6. CASE r.torn
  <2>1. Whole(g) # 0
    BY <1>1, <1>3, <1>5, <1>6
  <2>2. Whole(g) \notin 1 .. Len(f)
    BY <1>1, <1>2, <1>3, <2>1
  <2>3. Whole(g) = Len(f) + 1
    BY <1>1, <1>3, <2>1, <2>2
  <2>. QED BY <1>1, <1>4, <1>6, <2>1, <2>3
<1>7. CASE ~r.torn
  <2>1. Whole(g) = 0
    BY <1>1, <1>2, <1>3, <1>7
  <2>. QED BY <1>1, <1>4, <1>7, <2>1
<1>. QED BY <1>0, <1>6, <1>7

\* What the current file is like when its writer's record has got there, whole or torn.
LEMMA FilesInvWritten ==
    ASSUME TypeInv, TxnInv, FilesInv, phase = "open", writer # NoTxn,
           NEW torn \in BOOLEAN, files' = Written(writer, torn), UNCHANGED kind,
           order' = IF torn THEN order ELSE Append(order, writer)
    PROVE  /\ DOMAIN files' = DOMAIN files /\ DOMAIN files' \subseteq 0 .. Len(order')
           /\ log_filename \in DOMAIN files' /\ \A n \in DOMAIN files' : n <= log_filename
           /\ \A n \in DOMAIN files' :
                 /\ End(files', n) <= Len(order')
                 /\ End(files', n) = Len(order') \/ End(files', n) \in DOMAIN files'
                 /\ \A m \in DOMAIN files' : m > n => m >= End(files', n)
                 /\ End(files', n) = n => torn /\ n = log_filename
           /\ End(files', log_filename) = Len(order')
           /\ Recorded'
           /\ ~torn => /\ Whole(files'[log_filename]) = 0
                       /\ Len(files'[log_filename]) = log_len + 1
                       /\ Len(order') = Len(order) + 1
<1>0. PICK w, f, g, r : /\ w = log_filename /\ f = files[w] /\ g = files'[w]
                        /\ r = Record(writer, torn)
  OBVIOUS
<1>1. /\ w \in DOMAIN files /\ w \in 0 .. Len(order) /\ w + log_len = Len(order)
      /\ \A n \in DOMAIN files : n <= w
      /\ Whole(f) = 0 /\ Len(f) = log_len /\ log_len \in Nat
      /\ last_write = Len(order) /\ order \in Seq(Txns) /\ writer \in Txns
  BY <1>0, WriterIs DEF FilesInv, Current, TypeInv, LogTyped, TxnInv, OrderInv
<1>2. /\ DOMAIN files' = DOMAIN files
      /\ \A n \in DOMAIN files \ {w} : files'[n] = files[n]
      /\ r \in Records /\ g = Append(f, r)
  BY <1>0, <1>1, WrittenIs
<1>3. r.lsn = Len(order) + 1 /\ r.txn = writer /\ r.ops = kind[writer] /\ r.torn = torn
  BY <1>0, <1>1 DEF Record
<1>4. f \in Seq(Records) /\ WholePart(f) = f
  BY <1>0, <1>1, FilesAre
<1>. HIDE DEF Records
<1>5. /\ Len(g) = Len(f) + 1 /\ g[Len(f) + 1] = r
      /\ \A i \in 1 .. Len(f) : g[i] = f[i]
      /\ ~torn => Whole(g) = 0 /\ WholePart(g) = g
      /\ torn => Whole(g) # 0 /\ Len(WholePart(g)) = Len(f)
  <2>1. f \in Seq(Records) /\ Whole(f) = 0 /\ r \in Records /\ g = Append(f, r)
    BY <1>1, <1>2, <1>4
  <2>2. /\ Len(g) = Len(f) + 1 /\ g[Len(f) + 1] = r
        /\ \A i \in 1 .. Len(f) : g[i] = f[i]
    BY <2>1
  <2>3. /\ r.torn = FALSE => Whole(g) = 0 /\ WholePart(g) = g
        /\ r.torn = TRUE => Whole(g) # 0 /\ Len(WholePart(g)) = Len(f)
    BY <2>1, AppendedIs
  <2>. QED BY <1>3, <2>2, <2>3
<1>6. /\ Len(order') = IF torn THEN Len(order) ELSE Len(order) + 1
      /\ \A i \in 1 .. Len(order) : order'[i] = order[i]
      /\ ~torn => order'[Len(order) + 1] = writer
  BY <1>1
<1>7. End(files', w) = Len(order') /\ End(files, w) = Len(order)
  BY <1>0, <1>1, <1>2, <1>4, <1>5, <1>6 DEF End
<1>8. \A n \in DOMAIN files \ {w} : End(files', n) = End(files, n)
  BY <1>2 DEF End
<1>9. \A n \in DOMAIN files : n \in 0 .. Len(order) /\ End(files, n) \in Int
  BY FilesAre DEF End, Lsns, FilesInv, Contiguous
<1>10. ASSUME NEW n \in DOMAIN files, n # w
       PROVE  /\ End(files', n) \in DOMAIN files /\ End(files', n) <= Len(order')
              /\ End(files', n) # n
              /\ \A m \in DOMAIN files : m > n => m >= End(files', n)
  <2>1. w > n
    BY <1>1, <1>9, <1>10
  <2>2. /\ End(files, n) <= Len(order) /\ End(files, n) # n
        /\ End(files, n) = Len(order) \/ End(files, n) \in DOMAIN files
        /\ \A m \in DOMAIN files : m > n => m >= End(files, n)
    <3>1. n # Len(order)
      BY <1>1, <1>9, <1>10, <2>1
    <3>. QED BY <1>10, <3>1 DEF FilesInv, Contiguous
  <2>3. w >= End(files, n)
    BY <1>1, <2>1, <2>2
  <2>4. End(files, n) = Len(order) => End(files, n) = w
    BY <1>1, <1>9, <2>3
  <2>5. End(files', n) = End(files, n)
    BY <1>8, <1>10
  <2>6. Len(order) <= Len(order') /\ Len(order) \in Nat /\ Len(order') \in Nat
    BY <1>1, <1>6
  <2>7. End(files', n) <= Len(order')
    BY <1>9, <1>10, <2>2, <2>5, <2>6
  <2>. QED BY <1>1, <2>2, <2>4, <2>5, <2>7
<1>11. DOMAIN files' \subseteq 0 .. Len(order')
  BY <1>1, <1>2, <1>6, <1>9
<1>12. \A m \in DOMAIN files : ~(m > w)
  BY <1>1, <1>9
<1>13. End(files', w) = w => torn
  BY <1>1, <1>6, <1>7
<1>14. Recorded'
  <2>1. SUFFICES ASSUME NEW n \in DOMAIN files', NEW i \in 1 .. Len(WholePart(files'[n]))
                 PROVE  /\ files'[n][i].lsn = n + i /\ files'[n][i].txn = order'[n + i]
                        /\ files'[n][i].ops = kind[order'[n + i]]
    BY DEF Recorded
  <2>2. ASSUME i \in 1 .. Len(WholePart(files[n])), files'[n][i] = files[n][i]
        PROVE  /\ files'[n][i].lsn = n + i /\ files'[n][i].txn = order'[n + i]
               /\ files'[n][i].ops = kind[order'[n + i]]
    <3>1. n + i \in 1 .. Len(order)
      BY <1>2, <2>2, FilesAre DEF FilesInv, Contiguous, End
    <3>. QED BY <1>2, <1>6, <2>2, <3>1 DEF FilesInv, Recorded
  <2>3. CASE n # w
    BY <1>2, <2>1, <2>2, <2>3
  <2>4. CASE n = w /\ i \in 1 .. Len(f)
    <3>1. i \in 1 .. Len(WholePart(files[n])) /\ n \in DOMAIN files
      BY <1>0, <1>1, <1>4, <2>4
    <3>2. files'[n][i] = files[n][i]
      BY <1>0, <1>5, <2>4
    <3>. QED BY <1>2, <2>2, <3>1, <3>2
  <2>5. CASE n = w /\ i \notin 1 .. Len(f)
    <3>1. ~torn /\ i = Len(f) + 1 /\ files'[n][i] = r /\ n + i = Len(order) + 1
      BY <1>0, <1>1, <1>5, <2>1, <2>5
    <3>. QED BY <1>3, <1>6, <3>1
  <2>. QED BY <2>3, <2>4, <2>5
<1>15. \A n \in DOMAIN files' :
         /\ End(files', n) <= Len(order')
         /\ End(files', n) = Len(order') \/ End(files', n) \in DOMAIN files'
         /\ \A m \in DOMAIN files' : m > n => m >= End(files', n)
         /\ End(files', n) = n => torn /\ n = w
  BY <1>1, <1>2, <1>6, <1>7, <1>10, <1>12, <1>13
<1>. QED BY <1>0, <1>1, <1>2, <1>5, <1>6, <1>7, <1>11, <1>14, <1>15

\* So when the record is written ...
LEMMA FilesInvWriteLog ==
    ASSUME TypeInv, TxnInv, FilesInv, NEW t \in Txns, WriteLog(t)
    PROVE  FilesInv' /\ DOMAIN files' = DOMAIN files /\ LogGrows
<1>1. /\ phase = "open" /\ writer = t /\ writer # NoTxn /\ UNCHANGED <<phase, kind, log_filename>>
      /\ files' = Written(writer, FALSE) /\ order' = Append(order, writer)
      /\ last_write' = last_write + 1 /\ log_len' = log_len + 1 /\ writer' = NoTxn
  BY NobodyAssumption DEF WriteLog
<1>2. /\ log_filename # NoFile /\ log_filename \in 0 .. Len(order)
      /\ log_filename + log_len = Len(order) /\ log_len \in Nat
      /\ last_write = Len(order) /\ Len(order) \in Nat
  BY <1>1 DEF FilesInv, Current, TypeInv, LogTyped, TxnInv, OrderInv
<1>3. /\ DOMAIN files' = DOMAIN files /\ DOMAIN files' \subseteq 0 .. Len(order')
      /\ log_filename \in DOMAIN files' /\ \A n \in DOMAIN files' : n <= log_filename
      /\ \A n \in DOMAIN files' :
            /\ End(files', n) <= Len(order')
            /\ End(files', n) = Len(order') \/ End(files', n) \in DOMAIN files'
            /\ \A m \in DOMAIN files' : m > n => m >= End(files', n)
            /\ End(files', n) # n
      /\ Recorded'
      /\ Whole(files'[log_filename]) = 0 /\ Len(files'[log_filename]) = log_len + 1
      /\ Len(order') = Len(order) + 1
  <2>1. PICK torn \in BOOLEAN : torn = FALSE
    OBVIOUS
  <2>. QED BY <1>1, <2>1, FilesInvWritten
<1>4. Contiguous'
  BY <1>3 DEF Contiguous
<1>5. Current'
  <2>1. /\ log_filename' \in 0 .. Len(order') /\ log_filename' + log_len' = Len(order')
        /\ last_write' = Len(order') /\ log_filename' # NoFile
    BY <1>1, <1>2, <1>3
  <2>2. /\ Whole(files'[log_filename']) = 0 /\ Len(files'[log_filename']) = log_len'
        /\ log_filename' \in DOMAIN files' /\ \A n \in DOMAIN files' : n <= log_filename'
    BY <1>1, <1>3
  <2>. QED BY <1>1, <2>1, <2>2 DEF Current
<1>6. TornAtEnd'
  BY <1>1 DEF TornAtEnd
<1>. QED BY <1>1, <1>3, <1>4, <1>5, <1>6 DEF FilesInv, LogGrows

\* ... and when the crash comes in between.
LEMMA FilesInvCrash ==
    ASSUME TypeInv, TxnInv, FilesInv, Crash, CrashIsBearable
    PROVE  FilesInv' /\ DOMAIN files' = DOMAIN files
<1>1. /\ phase = "open" /\ phase' = "down" /\ writer' = NoTxn /\ log_filename' = NoFile
      /\ UNCHANGED kind
      /\ \A n \in DOMAIN files : Whole(files[n]) = 0
      /\ \A n \in DOMAIN files' : files'[n] = <<>> \/ WholePart(files'[n]) # <<>>
      /\ DOMAIN files' # {} => order' # <<>>
  BY DEF Crash, CrashIsBearable, LogHasBegun
<1>2. CrashesTo(files', order') /\ order \in Seq(Txns)
  BY CrashTypes DEF TxnInv, OrderInv
<1>3. \A n \in DOMAIN files' : End(files', n) = n => files'[n] = <<>>
  <2>1. FilesTyped'
    BY CrashTypes
  <2>2. SUFFICES ASSUME NEW n \in DOMAIN files', NEW f, f = files'[n], f # <<>>
                 PROVE  n + Len(WholePart(f)) # n
    BY DEF End
  <2>3. f \in Seq(Records) /\ n \in Lsns
    BY <2>1, <2>2 DEF FilesTyped
  <2>4. WholePart(f) \in Seq(Records)
    BY <2>3, WholePartIs
  <2>5. WholePart(f) # <<>>
    BY <1>1, <2>2
  <2>. HIDE DEF Records
  <2>6. Len(WholePart(f)) \in Nat /\ Len(WholePart(f)) # 0
    BY <2>4, <2>5
  <2>. QED BY <2>3, <2>6 DEF Lsns
<1>4. /\ DOMAIN files' = DOMAIN files /\ DOMAIN files' \subseteq 0 .. Len(order')
      /\ \A n \in DOMAIN files' :
            /\ End(files', n) <= Len(order')
            /\ End(files', n) = Len(order') \/ End(files', n) \in DOMAIN files'
            /\ \A m \in DOMAIN files' : m > n => m >= End(files', n)
            /\ End(files', n) = n => n = Len(order')
      /\ Len(order') > 0 => DOMAIN files' # {}
      /\ Recorded'
      /\ \A n, m \in DOMAIN files' : Whole(files'[n]) # 0 => m <= n
  <2>1. CASE files' = files /\ order' = order
    <3>1. \A n : End(files', n) = End(files, n)
      BY <2>1 DEF End
    <3>2. Recorded'
      BY <1>1, <2>1 DEF FilesInv, Recorded
    <3>. QED BY <1>1, <2>1, <3>1, <3>2 DEF FilesInv, Contiguous
  <2>2. ASSUME writer # NoTxn, NEW torn \in BOOLEAN, files' = Written(writer, torn),
               order' = IF torn THEN order ELSE Append(order, writer)
        PROVE  /\ DOMAIN files' = DOMAIN files /\ DOMAIN files' \subseteq 0 .. Len(order')
               /\ \A n \in DOMAIN files' :
                     /\ End(files', n) <= Len(order')
                     /\ End(files', n) = Len(order') \/ End(files', n) \in DOMAIN files'
                     /\ \A m \in DOMAIN files' : m > n => m >= End(files', n)
                     /\ End(files', n) = n => n = Len(order')
               /\ Len(order') > 0 => DOMAIN files' # {}
               /\ Recorded'
               /\ \A n, m \in DOMAIN files' : Whole(files'[n]) # 0 => m <= n
    <3>1. /\ DOMAIN files' = DOMAIN files /\ DOMAIN files' \subseteq 0 .. Len(order')
          /\ log_filename \in DOMAIN files' /\ \A n \in DOMAIN files' : n <= log_filename
          /\ \A n \in DOMAIN files' :
                /\ End(files', n) <= Len(order')
                /\ End(files', n) = Len(order') \/ End(files', n) \in DOMAIN files'
                /\ \A m \in DOMAIN files' : m > n => m >= End(files', n)
                /\ End(files', n) = n => n = log_filename
          /\ End(files', log_filename) = Len(order')
          /\ Recorded'
      BY <1>1, <2>2, FilesInvWritten
    <3>2. \A n \in DOMAIN files' : Whole(files'[n]) # 0 => n = log_filename
      <4>1. \A n \in DOMAIN files \ {log_filename} : files'[n] = files[n]
        BY <2>2, WrittenIs
      <4>. QED BY <1>1, <3>1, <4>1
    <3>. QED BY <3>1, <3>2
  <2>3. CASE writer # NoTxn /\ files' = Written(writer, TRUE) /\ order' = order
    <3>1. PICK torn \in BOOLEAN : torn = TRUE
      OBVIOUS
    <3>. QED BY <2>2, <2>3, <3>1
  <2>4. CASE writer # NoTxn /\ files' = Written(writer, FALSE) /\ order' = Append(order, writer)
    <3>1. PICK torn \in BOOLEAN : torn = FALSE
      OBVIOUS
    <3>. QED BY <2>2, <2>4, <3>1
  <2>. QED BY <1>2, <2>1, <2>3, <2>4 DEF CrashesTo
<1>5. Contiguous'
  BY <1>3, <1>4 DEF Contiguous
<1>6. DOMAIN files' # {} => Len(order') > 0
  <2>1. order' \in Seq(Txns)
    BY CrashLocks DEF TxnInv, OrderInv
  <2>. QED BY <1>1, <2>1
<1>7. Current'
  BY <1>1, <1>6 DEF Current
<1>8. TornAtEnd'
  BY <1>4 DEF TornAtEnd
<1>. QED BY <1>4, <1>5, <1>7, <1>8 DEF FilesInv

\* A checkpoint makes the end of the log the name of the next file.
LEMMA FilesInvCkptStart ==
    ASSUME TypeInv, TxnInv, FilesInv, CkptStart
    PROVE  FilesInv'
<1>1. /\ phase = "open" /\ writer = NoTxn /\ log_filename' = Len(order) /\ log_len' = 0
      /\ last_write = Len(order) /\ order \in Seq(Txns)
      /\ UNCHANGED <<phase, last_write, order, files, writer, kind>>
  BY DEF CkptStart, txns, disk, FilesInv, Current, TxnInv, OrderInv
<1>2. Len(order) \in DOMAIN files =>
         Whole(files[Len(order)]) = 0 /\ Len(files[Len(order)]) = 0
  BY EndIsEmpty, EmptyIsWhole
<1>3. \A n : End(files, n)' = End(files, n)
  BY <1>1 DEF End
<1>4. Contiguous'
  BY <1>1, <1>3 DEF FilesInv, Contiguous
<1>5. Recorded'
  BY <1>1 DEF FilesInv, Recorded
<1>6. Current'
  <2>1. \A n \in DOMAIN files : n <= Len(order)
    BY <1>1 DEF FilesInv, Contiguous
  <2>. QED BY <1>1, <1>2, <2>1 DEF Current, NoFile
<1>7. TornAtEnd'
  BY <1>1 DEF TornAtEnd
<1>. QED BY <1>4, <1>5, <1>6, <1>7 DEF FilesInv

\* All files have names that are recognized.
LEMMA LogNamesAre ==
    ASSUME FilesInv
    PROVE  LogNames = DOMAIN files
<1>1. \A n \in 0 .. Len(order) : n # -1
  OBVIOUS
<1>2. -1 \notin DOMAIN files
  BY <1>1 DEF FilesInv, Contiguous
<1>. QED BY <1>2 DEF LogNames, Misnamed

\* The file to start with is the last that is not named behind the start.
LEMMA FirstFileIs ==
    ASSUME TypeInv, NEW start \in Nat, NEW m \in LogNames, m <= start
    PROVE  /\ FirstFile(start) \in LogNames /\ FirstFile(start) <= start
           /\ \A n \in LogNames : n <= start => n <= FirstFile(start)
<1>1. LogNames \subseteq Nat
  BY FilesReadAre
<1>2. CASE start \in LogNames
  BY <1>1, <1>2 DEF FirstFile
<1>3. CASE start \notin LogNames
  <2>1. Below(start) \subseteq LogNames /\ m \in Below(start)
    BY <1>1, <1>3 DEF Below
  <2>2. FirstFile(start) = Max(Below(start))
    BY <1>3, <2>1 DEF FirstFile
  <2>3. Max(Below(start)) \in Below(start) /\ \A n \in Below(start) : n <= Max(Below(start))
    BY <2>1, LastOfFiles
  <2>4. \A n \in LogNames : n <= start => n \in Below(start)
    BY <1>1, <1>3 DEF Below
  <2>5. Max(Below(start)) \in LogNames /\ Max(Below(start)) < start
    BY <2>3 DEF Below
  <2>6. Max(Below(start)) <= start
    <3>1. PICK x : x = Max(Below(start))
      OBVIOUS
    <3>2. x \in Nat /\ x < start
      BY <1>1, <2>5, <3>1
    <3>. QED BY <3>1, <3>2
  <2>. QED BY <2>2, <2>3, <2>4, <2>5, <2>6
<1>. QED BY <1>2, <1>3

\* Archiving starts from the first LSN that a checkpoint needs.
LEMMA NeededFromIs ==
    ASSUME TypeInv, Checked # {}
    PROVE  /\ NeededFrom \in Nat
           /\ \A c \in Checked : NeededFrom <= meta[c].start
           /\ \E c \in Checked : NeededFrom = meta[c].start
<1>. DEFINE S == {meta[c].start : c \in Checked}
<1>1. S \subseteq Nat /\ S # {}
  BY DEF TypeInv, CkptTyped, Checked
<1>2. Min(S) \in S /\ \A y \in S : Min(S) <= y
  <2>. HIDE DEF S
  <2>. QED BY <1>1, MinOfNats
<1>. QED BY <1>1, <1>2 DEF NeededFrom

\* What archiving leaves.
LEMMA ArchiveLeaves ==
    ASSUME TypeInv, FilesInv, Reachable, Archive
    PROVE  \E first \in DOMAIN files :
              /\ files' = [n \in {m \in DOMAIN files : m >= first} |-> files[n]]
              /\ \A c \in Checked : first <= meta[c].start
<1>1. /\ Checked # {} /\ Archivable # {}
      /\ files' = [n \in DOMAIN files \ Archivable |-> files[n]]
  BY DEF Archive
<1>2. LogNames = DOMAIN files /\ LogNames \subseteq Nat
  BY LogNamesAre, FilesReadAre
<1>3. DOMAIN files # {}
  BY <1>1, <1>2 DEF Archivable
<1>4. PICK m \in DOMAIN files : m <= NeededFrom
  BY <1>1, <1>3, NeededFromIs DEF Reachable
<1>5. PICK first : first = FirstFile(NeededFrom)
  OBVIOUS
<1>6. first \in LogNames /\ first <= NeededFrom
  BY <1>1, <1>2, <1>4, <1>5, NeededFromIs, FirstFileIs
<1>7. DOMAIN files \ Archivable = {n \in DOMAIN files : n >= first}
  BY <1>2, <1>5, <1>6 DEF Archivable
<1>8. \A c \in Checked : first <= meta[c].start
  <2>1. \A c \in Checked : meta[c].start \in Nat
    BY DEF TypeInv, CkptTyped, Checked
  <2>. QED BY <1>1, <1>2, <1>6, <2>1, NeededFromIs
<1>. QED BY <1>1, <1>2, <1>6, <1>7, <1>8

\* The current file stays, and so do all that follow the first.
LEMMA FilesInvArchive ==
    ASSUME TypeInv, TxnInv, FilesInv, Reachable, Archive
    PROVE  FilesInv' /\ Reachable'
<1>1. PICK first \in DOMAIN files :
        /\ files' = [n \in {m \in DOMAIN files : m >= first} |-> files[n]]
        /\ \A c \in Checked : first <= meta[c].start
  BY ArchiveLeaves
<1>2. /\ DOMAIN files' = {m \in DOMAIN files : m >= first}
      /\ \A n \in DOMAIN files' : files'[n] = files[n]
      /\ DOMAIN files \subseteq 0 .. Len(order) /\ order \in Seq(Txns)
  BY <1>1 DEF FilesInv, Contiguous, TxnInv, OrderInv
<1>3. /\ UNCHANGED <<phase, last_write, order, writer, log_filename, log_len, kind, meta>>
      /\ phase = "open" /\ Checked # {}
  BY DEF Archive, log, txns
<1>4. \A n \in DOMAIN files' : /\ n \in DOMAIN files
                               /\ End(files', n) = End(files, n) /\ End(files, n) >= n
                               /\ End(files, n) \in Int /\ n \in Int
  BY <1>2, FilesAre DEF End, Lsns
<1>5. first \in DOMAIN files' /\ first \in Int
  BY <1>2
<1>6. Contiguous'
  <2>1. ASSUME NEW n \in DOMAIN files'
        PROVE  /\ End(files', n) <= Len(order)
               /\ End(files', n) = Len(order) \/ End(files', n) \in DOMAIN files'
               /\ \A m \in DOMAIN files' : m > n => m >= End(files', n)
               /\ End(files', n) = n => n = Len(order) /\ files'[n] = <<>>
    <3>1. /\ End(files, n) <= Len(order)
          /\ End(files, n) = Len(order) \/ End(files, n) \in DOMAIN files
          /\ \A m \in DOMAIN files : m > n => m >= End(files, n)
          /\ End(files, n) = n => n = Len(order) /\ files[n] = <<>>
      BY <1>4, <2>1 DEF FilesInv, Contiguous
    <3>2. End(files, n) >= first
      BY <1>2, <1>4, <1>5, <2>1
    <3>. QED BY <1>2, <1>4, <2>1, <3>1, <3>2
  <2>2. DOMAIN files' \subseteq 0 .. Len(order)
    BY <1>2
  <2>. QED BY <1>3, <1>5, <2>1, <2>2 DEF Contiguous
<1>7. Recorded'
  BY <1>2, <1>3, <1>4 DEF FilesInv, Recorded
<1>8. Current'
  <2>1. log_filename \in DOMAIN files => log_filename \in DOMAIN files'
    BY <1>2 DEF FilesInv, Current, NoFile
  <2>2. \A n \in DOMAIN files' : n \in DOMAIN files
    BY <1>2
  <2>. QED BY <1>2, <1>3, <2>1, <2>2 DEF FilesInv, Current
<1>9. TornAtEnd'
  BY <1>3 DEF TornAtEnd
<1>10. Reachable'
  BY <1>1, <1>3, <1>5 DEF Reachable, Checked
<1>. QED BY <1>6, <1>7, <1>8, <1>9, <1>10 DEF FilesInv

\* Records of the log between two LSNs.
IsLogPart(records, from, to) ==
    /\ records \in Seq(Records) /\ Len(records) = to - from
    /\ \A i \in 1 .. Len(records) : /\ records[i].lsn = from + i
                                    /\ records[i].txn = order[from + i]
                                    /\ records[i].ops = kind[order[from + i]]

\* A file holds those from its name to its end.
LEMMA WholePartIsPart ==
    ASSUME TypeInv, FilesInv, NEW n \in DOMAIN files
    PROVE  IsLogPart(WholePart(files[n]), n, End(files, n))
<1>1. PICK f : f = WholePart(files[n])
  OBVIOUS
<1>2. /\ f \in Seq(Records) /\ Len(f) \in Nat /\ n \in Int
      /\ \A i \in 1 .. Len(f) : f[i] = files[n][i]
  <2>1. files[n] \in Seq(Records) /\ n \in Int
    BY FilesAre DEF Lsns
  <2>2. f \in Seq(Records)
    BY <1>1, <2>1, WholePartIs
  <2>. QED BY <1>1, <2>1, <2>2, FilesAre
<1>3. \A i \in 1 .. Len(f) : /\ f[i].lsn = n + i /\ f[i].txn = order[n + i]
                             /\ f[i].ops = kind[order[n + i]]
  <2>1. SUFFICES ASSUME NEW i \in 1 .. Len(f)
                 PROVE  f[i].lsn = n + i /\ f[i].txn = order[n + i] /\ f[i].ops = kind[order[n + i]]
    OBVIOUS
  <2>2. /\ files[n][i].lsn = n + i /\ files[n][i].txn = order[n + i]
        /\ files[n][i].ops = kind[order[n + i]]
    BY <1>1 DEF FilesInv, Recorded
  <2>. QED BY <1>2, <2>2
<1>. HIDE DEF Records
<1>4. Len(f) = End(files, n) - n
  BY <1>1, <1>2 DEF End
<1>. QED BY <1>1, <1>2, <1>3, <1>4 DEF IsLogPart

\* What is redone of a file: all of it, or in the first file that from the start on, or
\* from before.
LEMMA ToRedoIs ==
    ASSUME TypeInv, FilesInv, NEW n \in DOMAIN files
    PROVE  /\ n # FirstFile(RedoStart) => IsLogPart(ToRedo(n), n, End(files, n))
           /\ n = FirstFile(RedoStart) /\ n <= RedoStart =>
                 \E b \in n .. End(files, n) :
                    b <= RedoStart /\ IsLogPart(ToRedo(n), b, End(files, n))
<1>0. PICK f, s : f = WholePart(files[n]) /\ s = RedoStart
  OBVIOUS
<1>1. IsLogPart(f, n, End(files, n))
  BY <1>0, WholePartIsPart
<1>2. /\ f \in Seq(Records) /\ Len(f) \in Nat /\ End(files, n) = n + Len(f) /\ n \in Int /\ s \in Nat
      /\ \A i \in 1 .. Len(f) : /\ f[i].lsn = n + i /\ f[i].txn = order[n + i]
                                /\ f[i].ops = kind[order[n + i]]
  <2>1. n \in Int /\ s \in Nat
    BY <1>0, FilesAre, RedoStartIs DEF Lsns
  <2>. QED BY <1>0, <1>1, <2>1, FilesAre DEF IsLogPart, End
<1>3. CASE n # FirstFile(RedoStart)
  BY <1>0, <1>1, <1>3 DEF ToRedo
<1>4. ASSUME n = FirstFile(RedoStart), n <= RedoStart
      PROVE  \E b \in n .. End(files, n) :
                b <= RedoStart /\ IsLogPart(ToRedo(n), b, End(files, n))
  <2>1. PICK g : g = ToRedo(n) /\ g = From(f, s)
    BY <1>0, <1>4 DEF ToRedo
  <2>2. /\ g \in Seq(Records)
        /\ \/ g = <<>> /\ \A i \in 1 .. Len(f) : f[i].lsn < s
           \/ \E j \in 1 .. Len(f) :
                 /\ g = SubSeq(f, j, Len(f))
                 /\ f[j].lsn >= s /\ \A i \in 1 .. j - 1 : f[i].lsn < s
    <3>. HIDE DEF Records
    <3>1. f \in Seq(Records) /\ s \in Int
      BY <1>2
    <3>. QED BY <2>1, <3>1, FromIs
  <2>3. CASE g = <<>> /\ \A i \in 1 .. Len(f) : f[i].lsn < s
    <3>1. PICK b : b = End(files, n)
      OBVIOUS
    <3>2. b \in n .. End(files, n) /\ b <= s
      <4>1. CASE Len(f) = 0
        BY <1>0, <1>2, <1>4, <3>1, <4>1
      <4>2. CASE Len(f) # 0
        BY <1>2, <2>3, <3>1, <4>2
      <4>. QED BY <4>1, <4>2
    <3>3. IsLogPart(g, b, End(files, n))
      <4>. HIDE DEF Records
      <4>1. Len(g) = 0 /\ b \in Int
        BY <1>2, <2>3, <3>1
      <4>. QED BY <2>2, <3>1, <4>1 DEF IsLogPart
    <3>. QED BY <1>0, <2>1, <3>2, <3>3
  <2>4. ASSUME NEW j \in 1 .. Len(f), g = SubSeq(f, j, Len(f)), \A i \in 1 .. j - 1 : f[i].lsn < s
        PROVE  \E b \in n .. End(files, n) :
                  b <= RedoStart /\ IsLogPart(ToRedo(n), b, End(files, n))
    <3>1. PICK b : b = n + (j - 1)
      OBVIOUS
    <3>2. b \in n .. End(files, n)
      BY <1>2, <3>1
    <3>3. b <= s
      <4>1. CASE j = 1
        BY <1>0, <1>2, <1>4, <3>1, <4>1
      <4>2. CASE j # 1
        <5>1. PICK i : i = j - 1
          OBVIOUS
        <5>2. i \in 1 .. j - 1 /\ i \in 1 .. Len(f)
          BY <1>2, <4>2, <5>1
        <5>3. f[i].lsn < s /\ f[i].lsn = n + i
          BY <1>2, <2>4, <5>2
        <5>. QED BY <1>2, <3>1, <5>1, <5>2, <5>3
      <4>. QED BY <4>1, <4>2
    <3>4. Len(g) = End(files, n) - b
      <4>. HIDE DEF Records
      <4>. QED BY <1>2, <2>4, <3>1
    <3>5. \A i \in 1 .. Len(g) : g[i] = f[j - 1 + i] /\ j - 1 + i \in 1 .. Len(f)
      <4>. HIDE DEF Records
      <4>. QED BY <1>2, <2>4
    <3>6. \A i \in 1 .. Len(g) : b + i = n + (j - 1 + i)
      BY <1>2, <3>1
    <3>7. IsLogPart(g, b, End(files, n))
      <4>. HIDE DEF Records
      <4>1. \A i \in 1 .. Len(g) : /\ g[i].lsn = b + i /\ g[i].txn = order[b + i]
                                    /\ g[i].ops = kind[order[b + i]]
        <5>1. SUFFICES ASSUME NEW i \in 1 .. Len(g), NEW h, h = j - 1 + i
                       PROVE  /\ g[i].lsn = b + i /\ g[i].txn = order[b + i]
                              /\ g[i].ops = kind[order[b + i]]
          OBVIOUS
        <5>2. g[i] = f[h] /\ h \in 1 .. Len(f) /\ b + i = n + h
          BY <3>5, <3>6, <5>1
        <5>. QED BY <1>2, <5>2
      <4>. QED BY <2>2, <3>4, <4>1 DEF IsLogPart
    <3>. QED BY <1>0, <2>1, <3>2, <3>3, <3>7
  <2>. QED BY <2>2, <2>3, <2>4
<1>. QED BY <1>3, <1>4

-----------------------------------------------------------------------------
\* How far recovery gets

\* Each file ends behind its name, or is empty at the end of the log.
LEMMA FilesAreIn ==
    ASSUME TypeInv, FilesInv, NEW n \in DOMAIN files
    PROVE  /\ n \in Nat /\ End(files, n) \in Nat /\ n <= End(files, n)
           /\ End(files, n) = n => n = Len(order) /\ files[n] = <<>>
           /\ End(files, n) # n => WholePart(files[n]) # <<>>
<1>1. n \in 0 .. Len(order) /\ (End(files, n) = n => n = Len(order) /\ files[n] = <<>>)
  BY DEF FilesInv, Contiguous
<1>2. WholePart(files[n]) = <<>> => Len(WholePart(files[n])) = 0
  OBVIOUS
<1>. QED BY <1>1, <1>2, FilesAre DEF End

\* It reads all files from one that is not behind the start, to the last, which has the
\* end of the log.
LEMMA ReadsToTheEnd ==
    ASSUME TypeInv, FilesInv, phase = "down", DOMAIN files # {}, ~LogsAreMissing
    PROVE  /\ FirstFile(RedoStart) \in DOMAIN files /\ FirstFile(RedoStart) <= RedoStart
           /\ FilesRead = {n \in DOMAIN files : n >= FirstFile(RedoStart)}
           /\ LastRead \in FilesRead /\ \A n \in DOMAIN files : n <= LastRead
           /\ End(files, LastRead) = Len(order)
<1>0. PICK first, s : first = FirstFile(RedoStart) /\ s = RedoStart
  OBVIOUS
<1>1. LogNames = DOMAIN files /\ LogNames \subseteq Nat /\ s \in Nat
  BY <1>0, LogNamesAre, FilesReadAre, RedoStartIs
<1>2. PICK m \in LogNames : m <= s
  <2>1. PICK m : m = Min(LogNames)
    OBVIOUS
  <2>2. m \in LogNames /\ ~(m > s)
    BY <1>0, <1>1, <2>1, MinOfNats DEF LogsAreMissing
  <2>. QED BY <1>1, <2>2
<1>3. first \in LogNames /\ first <= s /\ \A n \in LogNames : n <= s => n <= first
  BY <1>0, <1>1, <1>2, FirstFileIs
<1>4. FilesRead = {n \in DOMAIN files : n >= first}
  <2>1. \A n, k \in DOMAIN files : k < n => Whole(files[k]) = 0
    BY <1>1 DEF FilesInv, TornAtEnd
  <2>. QED BY <1>0, <1>1, <2>1 DEF FilesRead, FilesFrom
<1>5. PICK last : last = LastRead
  OBVIOUS
<1>6. last \in FilesRead /\ \A n \in FilesRead : n <= last
  <2>1. FilesRead # {} /\ FilesRead \subseteq LogNames
    BY <1>1, <1>3, <1>4
  <2>. QED BY <1>5, <2>1, LastOfFiles DEF LastRead
<1>7. \A n \in DOMAIN files : n <= last
  BY <1>1, <1>3, <1>4, <1>6
<1>8. End(files, last) = Len(order)
  <2>1. last \in DOMAIN files
    BY <1>4, <1>6
  <2>2. /\ End(files, last) \in Nat /\ last <= End(files, last) /\ last \in Nat
        /\ End(files, last) = last => last = Len(order)
    BY <2>1, FilesAreIn
  <2>3. End(files, last) \notin DOMAIN files \/ End(files, last) = last
    BY <1>7, <2>2
  <2>. QED BY <2>1, <2>2, <2>3 DEF FilesInv, Contiguous
<1>. QED BY <1>0, <1>1, <1>3, <1>4, <1>5, <1>6, <1>7, <1>8

\* The checkpoints do not start behind the end of the log.
LEMMA StartsAre ==
    ASSUME TypeInv, TxnInv, Starts
    PROVE  /\ \A c \in Containers : StartOf(c) \in Nat /\ StartOf(c) <= Len(order)
           /\ RedoStart \in Nat /\ RedoStart <= Len(order)
<1>1. \A c \in Containers : StartOf(c) \in Nat
  BY RedoStartIs
<1>2. Len(order) \in Nat
  BY DEF TxnInv, OrderInv
<1>3. \A c \in Containers : StartOf(c) <= Len(order)
  BY <1>2 DEF Starts, StartOf
<1>. QED BY <1>1, <1>3, RedoStartIs

\* The files that are read end with the end of the log, in the last that is not empty.
LEMMA LastFullIs ==
    ASSUME TypeInv, TxnInv, FilesInv, phase = "down", DOMAIN files # {}, ~LogsAreMissing,
           NEW m \in FilesRead, WholePart(files[m]) # <<>>,
           \A n \in FilesRead : WholePart(files[n]) # <<>> => n <= m
    PROVE  End(files, m) = Len(order) /\ m < End(files, m)
<1>0. PICK e, first : e = End(files, m) /\ first = FirstFile(RedoStart)
  OBVIOUS
<1>1. FilesRead = {n \in DOMAIN files : n >= first} /\ first \in DOMAIN files
  BY <1>0, ReadsToTheEnd
<1>2. m \in DOMAIN files /\ m \in Nat /\ e \in Nat /\ m <= e /\ first \in Nat
  BY <1>0, <1>1, FilesAreIn
<1>3. m # e
  BY <1>0, <1>2, FilesAreIn, EmptyIsWhole
<1>4. CASE e \in DOMAIN files
  <2>1. e \in FilesRead /\ ~(e <= m)
    BY <1>1, <1>2, <1>3, <1>4
  <2>2. End(files, e) = e
    BY <1>4, <2>1, FilesAreIn
  <2>3. e = Len(order)
    BY <1>4, <2>2, FilesAreIn
  <2>. QED BY <1>0, <1>2, <1>3, <2>3
<1>5. CASE e \notin DOMAIN files
  BY <1>0, <1>2, <1>3, <1>5 DEF FilesInv, Contiguous
<1>. QED BY <1>4, <1>5

\* Recovery gets to the end of the log, unless all the files that it reads are empty.
LEMMA ReachedIsEnd ==
    ASSUME TypeInv, TxnInv, FilesInv, Starts, phase = "down", ~LogsAreMissing
    PROVE  \/ Reached = Len(order)
           \/ /\ Reached = -1 /\ DOMAIN files # {}
              /\ \A n \in FilesRead : WholePart(files[n]) = <<>>
<1>1. order \in Seq(Txns) /\ LogNames = DOMAIN files
  BY LogNamesAre DEF TxnInv, OrderInv
<1>2. CASE DOMAIN files = {}
  <2>1. Reached = 0
    BY <1>1, <1>2 DEF Reached
  <2>. QED BY <1>1, <1>2, <2>1 DEF FilesInv, Contiguous
<1>3. ASSUME DOMAIN files # {}, \A n \in FilesRead : WholePart(files[n]) = <<>>
      PROVE  Reached = -1
  <2>1. {n \in FilesRead : WholePart(files[n]) # <<>>} = {}
    BY <1>3
  <2>. QED BY <1>1, <1>3, <2>1 DEF Reached
<1>4. ASSUME DOMAIN files # {}, ~(\A n \in FilesRead : WholePart(files[n]) = <<>>)
      PROVE  Reached = Len(order)
  <2>. DEFINE full == {n \in FilesRead : WholePart(files[n]) # <<>>}
  <2>0. PICK first, last, f : first = FirstFile(RedoStart) /\ last = Max(full)
                              /\ f = WholePart(files[last])
    OBVIOUS
  <2>1. /\ first \in DOMAIN files /\ FilesRead = {n \in DOMAIN files : n >= first}
        /\ LogNames \subseteq Nat
    BY <1>4, <2>0, ReadsToTheEnd, FilesReadAre
  <2>2. last \in full /\ \A n \in full : n <= last
    <3>1. full # {} /\ full \subseteq LogNames
      BY <1>1, <1>4, <2>1
    <3>. HIDE DEF full
    <3>. QED BY <2>0, <3>1, LastOfFiles
  <2>3. /\ last \in DOMAIN files /\ last \in Nat /\ last < End(files, last)
        /\ End(files, last) = Len(order)
    BY <1>1, <1>4, <2>1, <2>2, LastFullIs
  <2>4. /\ f \in Seq(Records) /\ Len(f) = Len(order) - last
        /\ \A i \in 1 .. Len(f) : f[i].lsn = last + i
    BY <2>0, <2>3, WholePartIsPart DEF IsLogPart
  <2>5. Len(f) \in 1 .. Len(f) /\ f[Len(f)].lsn = Len(order)
    <3>1. PICK i : i = Len(f)
      OBVIOUS
    <3>2. i \in 1 .. Len(f) /\ last + i = Len(order)
      BY <1>1, <2>3, <2>4, <3>1
    <3>. QED BY <2>4, <3>1, <3>2
  <2>6. ~(Whole(files[first]) # 0 /\ ToRedo(first) = <<>>)
    <3>1. SUFFICES ASSUME Whole(files[first]) # 0, ToRedo(first) = <<>> PROVE FALSE
      OBVIOUS
    <3>2. \A n \in DOMAIN files : n <= first
      BY <2>1, <3>1 DEF FilesInv, TornAtEnd
    <3>3. first = last
      BY <2>1, <2>2, <2>3, <3>2, FilesAreIn
    <3>4. PICK s : s = RedoStart /\ s \in Nat /\ s <= Len(order)
      BY StartsAre
    <3>5. From(f, s) = <<>>
      BY <2>0, <3>1, <3>3, <3>4 DEF ToRedo
    <3>6. \/ \A i \in 1 .. Len(f) : f[i].lsn < s
          \/ \E j \in 1 .. Len(f) : From(f, s) = SubSeq(f, j, Len(f))
      <4>. HIDE DEF Records
      <4>1. f \in Seq(Records) /\ s \in Int
        BY <2>4, <3>4
      <4>. QED BY <4>1, FromIs
    <3>7. CASE \A i \in 1 .. Len(f) : f[i].lsn < s
      <4>1. f[Len(f)].lsn < s
        BY <2>5, <3>7
      <4>. QED BY <1>1, <2>5, <3>4, <4>1
    <3>8. CASE \E j \in 1 .. Len(f) : From(f, s) = SubSeq(f, j, Len(f))
      <4>. HIDE DEF Records
      <4>1. PICK j \in 1 .. Len(f) : SubSeq(f, j, Len(f)) = <<>>
        BY <3>5, <3>8
      <4>2. Len(SubSeq(f, j, Len(f))) = Len(f) - j + 1 /\ Len(f) \in Nat
        BY <2>4
      <4>3. Len(SubSeq(f, j, Len(f))) = 0
        BY <4>1
      <4>. QED BY <4>2, <4>3
    <3>. QED BY <3>6, <3>7, <3>8
  <2>7. Reached = Last(f).lsn
    <3>1. full # {} /\ LogNames # {}
      BY <1>1, <1>4, <2>2
    <3>. QED BY <2>0, <2>6, <3>1 DEF Reached
  <2>. QED BY <2>5, <2>7 DEF Last
<1>. QED BY <1>2, <1>3, <1>4

\* If they are, it refuses: a container has a checkpoint that got further.
LEMMA EmptyIsRefused ==
    ASSUME TypeInv, TxnInv, FilesInv, Starts, phase = "down", DOMAIN files # {}, ~LogsAreMissing,
           \A n \in FilesRead : WholePart(files[n]) = <<>>
    PROVE  RedoEnd \in Nat
<1>0. PICK first, s : first = FirstFile(RedoStart) /\ s = RedoStart
  OBVIOUS
<1>1. /\ first \in FilesRead /\ first \in DOMAIN files /\ first <= s /\ s \in Nat
  BY <1>0, ReadsToTheEnd, FilesAreIn, RedoStartIs
<1>2. first = Len(order) /\ Len(order) > 0 /\ first \in Nat
  <2>1. WholePart(files[first]) = <<>>
    BY <1>1
  <2>2. End(files, first) = first
    BY <1>1, <2>1, FilesAreIn
  <2>. QED BY <1>1, <2>2, FilesAreIn DEF FilesInv, Current
<1>3. PICK c \in Containers : s = StartOf(c)
  BY <1>0, RedoStartIs
<1>4. meta[c].start \in Nat /\ meta[c].end \in Int /\ meta[c].start <= meta[c].end
  <2>1. meta[c] # NoMeta
    BY <1>1, <1>2, <1>3 DEF StartOf
  <2>. QED BY <2>1 DEF TypeInv, CkptTyped, Metas, Lsns
<1>5. RedoEnd \in Int /\ meta[c].end <= RedoEnd
  <2>. DEFINE S == {meta[d].end : d \in Containers}
  <2>1. S \subseteq Lsns /\ meta[c].end \in S
    BY DEF TypeInv, CkptTyped, Metas
  <2>. DEFINE N == {y \in S : y \in Nat}
  <2>2. Len(order) \in Nat /\ \A y \in S : y <= Len(order)
    BY DEF Starts, TxnInv, OrderInv
  <2>3. meta[c].end \in N
    BY <1>4, <2>1
  <2>4. PICK m : m = Max(N)
    OBVIOUS
  <2>5. m \in N /\ \A y \in N : y <= m
    <3>1. N \subseteq Nat /\ N # {} /\ \A y \in N : y <= Len(order)
      BY <2>2, <2>3
    <3>. HIDE DEF N
    <3>. QED BY <2>2, <2>4, <3>1, MaxOfNats
  <2>6. m \in S /\ m \in Nat /\ \A y \in S : m >= y
    BY <2>1, <2>5 DEF Lsns
  <2>7. Max(S) \in S /\ \A y \in S : Max(S) >= y
    <3>. HIDE DEF S
    <3>. QED BY <2>6 DEF Max
  <2>. QED BY <2>1, <2>7 DEF RedoEnd, Lsns
<1>. QED BY <1>4, <1>5

\* It does not refuse the database when all containers have checkpoints and no file is empty.
LEMMA NothingToRefuse ==
    ASSUME TypeInv, TxnInv, LogInv, phase = "down", Refuses
    PROVE  \/ \E c \in Containers : meta[c] = NoMeta
           \/ \E n \in DOMAIN files : WholePart(files[n]) = <<>>
<1>1. SUFFICES ASSUME \A c \in Containers : meta[c] # NoMeta,
                      \A n \in DOMAIN files : WholePart(files[n]) # <<>>
               PROVE  FALSE
  OBVIOUS
<1>2. /\ FilesInv /\ Reachable /\ Starts /\ LogNames = DOMAIN files /\ LogNames \subseteq Nat
      /\ Len(order) \in Nat
  BY LogNamesAre, FilesReadAre DEF LogInv, TxnInv, OrderInv
<1>3. PICK d \in Containers : RedoStart = meta[d].start /\ d \in Checked /\ RedoStart \in Nat
  BY <1>1, RedoStartIs DEF StartOf, Checked
<1>4. ~LogsAreMissing
  <2>1. SUFFICES ASSUME LogNames # {}, Min(LogNames) > RedoStart PROVE FALSE
    BY DEF LogsAreMissing
  <2>2. PICK n \in LogNames : n <= RedoStart
    BY <1>2, <1>3, <2>1 DEF Reachable
  <2>3. PICK m : m = Min(LogNames)
    OBVIOUS
  <2>4. m \in LogNames /\ m <= n
    BY <1>2, <2>1, <2>3, MinOfNats
  <2>. QED BY <1>2, <1>3, <2>1, <2>2, <2>3, <2>4
<1>5. Reached = Len(order)
  <2>1. DOMAIN files # {} => \E n \in FilesRead : n \in DOMAIN files
    BY <1>2, <1>4, ReadsToTheEnd
  <2>. QED BY <1>1, <1>2, <1>4, <2>1, ReachedIsEnd
<1>6. RedoEnd <= Len(order) /\ RedoEnd \in Nat
  <2>. DEFINE S == {meta[c].end : c \in Containers}
  <2>1. \A c \in Containers : meta[c].end \in Nat /\ meta[c].end <= Len(order)
    BY <1>1, <1>2 DEF TypeInv, CkptTyped, Metas, Lsns, Starts
  <2>2. S \subseteq Nat /\ S # {} /\ \A y \in S : y <= Len(order)
    BY <2>1, ContainersAssumption
  <2>3. Max(S) \in S
    <3>. HIDE DEF S
    <3>. QED BY <1>2, <2>2, MaxOfNats
  <2>. QED BY <2>2, <2>3 DEF RedoEnd
<1>. QED BY <1>2, <1>4, <1>5, <1>6 DEF Refuses

\* A database that is opened again goes on behind the end of the log.
LEMMA FilesInvRecover ==
    ASSUME TypeInv, TxnInv, FilesInv, Starts, Recover
    PROVE  FilesInv' /\ UNCHANGED <<files, meta, order, ckpt>>
<1>1. /\ phase = "down" /\ phase' \in {"open", "refused"}
      /\ UNCHANGED <<log_filename, log_len, writer, kind, ckpt, files, meta, order>>
      /\ phase' = "open" => last_write' = Reached /\ ~Refuses
  BY DEF Recover, txns, disk
<1>2. phase' = "open" => last_write' = Len(order)
  <2>1. SUFFICES ASSUME phase' = "open", Reached # Len(order) PROVE FALSE
    BY <1>1
  <2>2. ~LogsAreMissing /\ ~(Reached < RedoEnd)
    BY <1>1, <2>1 DEF Refuses
  <2>3. /\ Reached = -1 /\ DOMAIN files # {}
        /\ \A n \in FilesRead : WholePart(files[n]) = <<>>
    BY <1>1, <2>1, <2>2, ReachedIsEnd
  <2>4. RedoEnd \in Nat
    BY <1>1, <2>2, <2>3, EmptyIsRefused
  <2>. QED BY <2>2, <2>3, <2>4
<1>3. \A n : End(files, n)' = End(files, n)
  BY <1>1 DEF End
<1>4. Contiguous'
  BY <1>1, <1>3 DEF FilesInv, Contiguous
<1>5. Recorded'
  BY <1>1 DEF FilesInv, Recorded
<1>6. Current'
  BY <1>1, <1>2 DEF FilesInv, Current
<1>7. TornAtEnd'
  BY <1>1 DEF FilesInv, TornAtEnd
<1>. QED BY <1>1, <1>4, <1>5, <1>6, <1>7 DEF FilesInv

-----------------------------------------------------------------------------
\* The log and the checkpoints

\* What leaves the metafiles alone takes no file away.
LEMMA ReachableKept ==
    ASSUME TypeInv, Reachable, UNCHANGED meta, DOMAIN files \subseteq DOMAIN files',
           DOMAIN files = {} => DOMAIN files' = {} \/ 0 \in DOMAIN files'
    PROVE  Reachable'
<1>1. Checked' = Checked
  BY DEF Checked
<1>2. CASE DOMAIN files = {} /\ 0 \in DOMAIN files'
  <2>1. \A c \in Checked : meta[c].start \in Nat /\ 0 <= meta[c].start
    BY DEF Checked, TypeInv, CkptTyped
  <2>. QED BY <1>1, <1>2, <2>1 DEF Reachable
<1>3. CASE DOMAIN files # {}
  BY <1>1, <1>3 DEF Reachable
<1>. QED BY <1>2, <1>3 DEF Reachable

\* A new metafile starts no earlier than the others.
LEMMA ReachableCommit ==
    ASSUME TypeInv, TxnInv, LogInv, CkptCommit
    PROVE  Reachable'
<1>0. PICK d, m : d = ckpt.c /\ m = [start |-> ckpt.start, end |-> ckpt.end,
                                      used |-> ckpt.used \ ckpt.free]
  OBVIOUS
<1>1. /\ meta' = [meta EXCEPT ![d] = m] /\ UNCHANGED files /\ ckpt.at \in Writing
      /\ d \in Containers /\ DOMAIN meta = Containers
      /\ ckpt.start \in Nat /\ \A c \in Containers : meta[c].start <= ckpt.start
      /\ \A c \in Checked : meta[c].start \in Nat /\ c \in Containers
  BY <1>0 DEF CkptCommit, Writing, TypeInv, CkptTyped, TakenInv, LogInv, Starts, Checked
<1>2. m # NoMeta /\ m.start = ckpt.start
  BY <1>0, <1>1 DEF NoMeta
<1>3. Checked' = Checked \cup {d}
  BY <1>1, <1>2 DEF Checked
<1>4. /\ \A c \in Checked \ {d} : meta'[c].start = meta[c].start
      /\ meta'[d].start = ckpt.start
  BY <1>1, <1>2
<1>5. ASSUME DOMAIN files # {}
      PROVE  \E n \in DOMAIN files : \A c \in Checked' : n <= meta'[c].start
  <2>1. CASE Checked = {}
    <3>1. 0 \in DOMAIN files
      BY <1>5, <2>1 DEF LogInv, Reachable
    <3>2. 0 <= ckpt.start
      BY <1>1
    <3>. QED BY <1>3, <1>4, <2>1, <3>1, <3>2
  <2>2. CASE Checked # {}
    <3>1. PICK n \in DOMAIN files : \A c \in Checked : n <= meta[c].start
      BY <1>5 DEF LogInv, Reachable
    <3>2. PICK e \in Checked : TRUE
      BY <2>2
    <3>3. n \in Int
      BY FilesAre DEF Lsns
    <3>4. n <= ckpt.start
      BY <1>1, <3>1, <3>2, <3>3
    <3>. QED BY <1>3, <1>4, <3>1, <3>4
  <2>. QED BY <2>1, <2>2
<1>. QED BY <1>1, <1>3, <1>5 DEF Reachable

\* What leaves the checkpoints alone does not make the log shorter.
LEMMA StartsKept ==
    ASSUME TypeInv, TxnInv, Starts, UNCHANGED <<meta, ckpt_history>>,
           \/ UNCHANGED ckpt
           \/ ckpt'.at \notin Writing
           \/ /\ ckpt'.c = ckpt.c /\ ckpt'.start = ckpt.start /\ ckpt.at \in Writing
              /\ ckpt'.at # "noted",
           LogGrows
    PROVE  Starts'
<1>1. Len(order) \in Nat /\ Len(order') \in {Len(order), Len(order) + 1}
  BY LogGrowsIs DEF TxnInv, OrderInv
<1>2. \A c \in Containers : /\ meta[c].start \in Int /\ meta[c].end \in Int
                            /\ ckpt_history[c] \in Int
  BY DEF TypeInv, CkptTyped, RegionTyped, Metas, Lsns
<1>3. ckpt.end \in Int
  BY CkptsHave DEF TypeInv, CkptTyped, Lsns
<1>4. \A c \in Containers : /\ meta'[c].start <= Len(order') /\ meta'[c].end <= Len(order')
                            /\ ckpt_history'[c] <= Len(order')
  BY <1>1, <1>2 DEF Starts
<1>5. ckpt'.at \in Writing => /\ \A c \in Containers : meta'[c].start <= ckpt'.start
                              /\ ckpt_history'[ckpt'.c] <= ckpt'.start
  BY DEF Starts
<1>6. ckpt'.at = "noted" => ckpt'.end <= Len(order')
  BY <1>1, <1>3 DEF Starts, Writing
<1>. QED BY <1>4, <1>5, <1>6 DEF Starts

\* A container is taken up at the end of the log, ...
LEMMA StartsContainer ==
    ASSUME TypeInv, TxnInv, LogInv, NEW c \in Containers, CkptContainer(c)
    PROVE  Starts'
<1>1. /\ phase = "open" /\ last_write = Len(order) /\ Len(order) \in Nat
      /\ UNCHANGED <<meta, ckpt_history, order>>
  BY DEF CkptContainer, memory, disk, LogInv, FilesInv, Current, TxnInv, OrderInv
<1>2. CASE last_write > ckpt_history[c]
  <2>1. /\ DOMAIN ckpt = DOMAIN Idle
        /\ ckpt' = [ckpt EXCEPT !.at = "scan", !.c = c, !.start = last_write,
                                 !.keys = {k \in Keys : Holder[k] = c}, !.used = meta[c].used]
    BY <1>2 DEF CkptContainer, TypeInv, TakenInv
  <2>2. ckpt'.c = c /\ ckpt'.start = last_write /\ ckpt'.at = "scan"
    BY <2>1 DEF Idle
  <2>3. ckpt_history[c] <= last_write
    BY <1>1 DEF LogInv, Starts
  <2>. QED BY <1>1, <2>2, <2>3 DEF LogInv, Starts
<1>3. CASE ~(last_write > ckpt_history[c])
  <2>1. ckpt' = Continue(ckpt.todo \ {c})
    BY <1>3 DEF CkptContainer
  <2>2. ckpt.todo \ {c} \in SUBSET Containers
    BY CkptsHave DEF TypeInv, CkptTyped
  <2>3. ckpt'.at \notin Writing
    BY <2>1, <2>2, ContinueIs DEF Writing
  <2>. QED BY <1>1, <2>3, StartsKept DEF LogInv, LogGrows
<1>. QED BY <1>2, <1>3

\* ... noted with the LSN it started with, ...
LEMMA StartsNote ==
    ASSUME TypeInv, TxnInv, LogInv, CkptNote
    PROVE  Starts'
<1>1. /\ phase = "open" /\ last_write = Len(order) /\ Len(order) \in Nat
      /\ ckpt.at = "saved" /\ ckpt.at \in Writing /\ UNCHANGED <<meta, order>>
      /\ ckpt_history' = [ckpt_history EXCEPT ![ckpt.c] = ckpt.start]
      /\ ckpt_history \in [Containers -> Nat] /\ ckpt.start \in Nat /\ ckpt.start <= Len(order)
  BY DEF CkptNote, disk, LogInv, FilesInv, Current, TxnInv, OrderInv, TypeInv, RegionTyped,
         CkptTyped, Writing
<1>2. ckpt'.c = ckpt.c /\ ckpt'.start = ckpt.start /\ ckpt'.end = last_write
  BY DEF CkptNote, TypeInv, TakenInv, Idle
<1>3. \A c \in Containers : ckpt_history'[c] <= Len(order)
  BY <1>1 DEF LogInv, Starts
<1>4. ckpt.c \in Containers
  BY <1>1 DEF TypeInv, TakenInv
<1>5. ckpt_history'[ckpt.c] <= ckpt.start
  BY <1>1, <1>4
<1>. QED BY <1>1, <1>2, <1>3, <1>5 DEF LogInv, Starts

\* ... and committed with it.
LEMMA StartsCommit ==
    ASSUME TypeInv, TxnInv, LogInv, CkptCommit
    PROVE  Starts'
<1>0. PICK d, m : d = ckpt.c /\ m = [start |-> ckpt.start, end |-> ckpt.end,
                                      used |-> ckpt.used \ ckpt.free]
  OBVIOUS
<1>1. /\ meta' = [meta EXCEPT ![d] = m] /\ UNCHANGED <<ckpt_history, order>>
      /\ phase = "open" /\ last_write = Len(order)
      /\ ckpt.at \in Writing /\ DOMAIN meta = Containers
      /\ ckpt.start \in Nat /\ ckpt.start <= Len(order) /\ ckpt.end <= Len(order)
      /\ ckpt'.at \notin Writing
  <2>1. ckpt.at = "noted" /\ phase = "open" /\ ckpt.at \in Writing
    BY DEF CkptCommit, Writing
  <2>2. last_write = Len(order) /\ ckpt.end <= Len(order)
    BY <2>1 DEF LogInv, FilesInv, Current, Starts
  <2>3. ckpt'.at \notin Writing
    <3>1. ckpt.todo \ {ckpt.c} \in SUBSET Containers
      BY CkptsHave DEF TypeInv, CkptTyped
    <3>. QED BY <3>1, ContinueIs DEF CkptCommit, Writing
  <2>. QED BY <1>0, <2>1, <2>2, <2>3 DEF CkptCommit, memory, TypeInv, CkptTyped, TakenInv
<1>2. m.start = ckpt.start /\ m.end = ckpt.end
  BY <1>0
<1>3. \A c \in Containers : meta'[c].start <= Len(order) /\ meta'[c].end <= Len(order)
  BY <1>1, <1>2 DEF LogInv, Starts
<1>. QED BY <1>1, <1>3 DEF LogInv, Starts, Writing

\* Recovery takes the checkpoints for what they are.
LEMMA StartsRecover ==
    ASSUME TypeInv, TxnInv, LogInv, Recover
    PROVE  Starts'
<1>1. UNCHANGED <<meta, order, ckpt>> /\ ckpt.at = "off"
  BY DEF Recover, disk, TypeInv, Closed
<1>2. \A c \in Containers : ckpt_history'[c] <= Len(order)
  <2>1. CASE Refuses
    BY <2>1 DEF Recover, memory, LogInv, Starts
  <2>2. CASE ~Refuses
    <3>1. ckpt_history' = [c \in Containers |-> StartOf(c)]
      BY <2>2 DEF Recover
    <3>. QED BY <3>1, StartsAre DEF LogInv
  <2>. QED BY <2>1, <2>2
<1>. QED BY <1>1, <1>2 DEF LogInv, Starts, Writing

\* A crash loses the progress of a checkpoint.
LEMMA StartsCrash ==
    ASSUME TypeInv, TxnInv, Starts, Crash
    PROVE  Starts'
<1>1. Len(order) \in Nat /\ Len(order') \in {Len(order), Len(order) + 1}
  BY CrashLocks, LogGrowsIs DEF TxnInv, OrderInv
<1>2. UNCHANGED meta /\ ckpt'.at = "off" /\ ckpt_history' = [c \in Containers |-> 0]
  BY DEF Crash, Idle
<1>3. \A c \in Containers : meta[c].start \in Int /\ meta[c].end \in Int
  BY DEF TypeInv, CkptTyped, Metas, Lsns
<1>4. \A c \in Containers : /\ meta'[c].start <= Len(order') /\ meta'[c].end <= Len(order')
                            /\ ckpt_history'[c] <= Len(order')
  BY <1>1, <1>2, <1>3 DEF Starts
<1>. QED BY <1>2, <1>4 DEF Starts, Writing

\* A transaction keeps the log, and what is known of it, in shape, ...
LEMMA LogInvTransact ==
    ASSUME TypeInv, TxnInv, LogInv, NEW t \in Txns, Transact(t)
    PROVE  TxnInv' /\ LogInv' /\ LogGrows
<1>1. CASE Operate(t) \/ Rollback(t) \/ Apply(t)
  <2>1. TxnInv'
    BY <1>1, OperateLocks, RollbackLocks, ApplyLocks
  <2>2. UNCHANGED <<phase, last_write, log_filename, log_len, writer, order, files, meta,
                    ckpt_history, ckpt>>
    BY <1>1 DEF Operate, Rollback, Apply, log, disk
  <2>3. FilesInv'
    <3>1. CASE Operate(t)
      BY <3>1, FilesInvOperate DEF LogInv
    <3>2. CASE Rollback(t) \/ Apply(t)
      <4>1. UNCHANGED kind
        BY <3>2 DEF Rollback, Apply
      <4>. QED BY <2>2, <4>1, FilesInvKept DEF LogInv
    <3>. QED BY <1>1, <3>1, <3>2
  <2>4. Reachable'
    BY <2>2, ReachableKept DEF LogInv
  <2>5. Starts' /\ LogGrows
    BY <2>2, StartsKept DEF LogInv, LogGrows
  <2>. QED BY <2>1, <2>3, <2>4, <2>5 DEF LogInv
<1>2. CASE OpenLog(t)
  <2>1. UNCHANGED <<order, meta, ckpt_history, ckpt>>
    BY <1>2 DEF OpenLog, memory
  <2>2. TxnInv'
    BY <1>2, OpenLogLocks
  <2>3. /\ FilesInv' /\ DOMAIN files \subseteq DOMAIN files'
        /\ DOMAIN files = {} => 0 \in DOMAIN files'
    BY <1>2, FilesInvOpenLog DEF LogInv
  <2>4. Reachable'
    BY <2>1, <2>3, ReachableKept DEF LogInv
  <2>5. Starts' /\ LogGrows
    BY <2>1, StartsKept DEF LogInv, LogGrows
  <2>. QED BY <2>2, <2>3, <2>4, <2>5 DEF LogInv
<1>3. CASE WriteLog(t)
  <2>1. UNCHANGED <<meta, ckpt_history, ckpt>> /\ phase = "open"
    BY <1>3 DEF WriteLog, memory
  <2>2. TxnInv'
    BY <1>3, <2>1, WriteLogLocks DEF LogInv, FilesInv, Current
  <2>3. FilesInv' /\ DOMAIN files' = DOMAIN files /\ LogGrows
    BY <1>3, FilesInvWriteLog DEF LogInv
  <2>4. Reachable'
    BY <2>1, <2>3, ReachableKept DEF LogInv
  <2>5. Starts'
    BY <2>1, <2>3, StartsKept DEF LogInv
  <2>. QED BY <2>2, <2>3, <2>4, <2>5 DEF LogInv
<1>. QED BY <1>1, <1>2, <1>3 DEF Transact

\* ... so does a checkpoint, ...
LEMMA LogInvCheckpoint ==
    ASSUME TypeInv, TxnInv, LogInv, Checkpoint
    PROVE  TxnInv' /\ LogInv' /\ LogGrows
<1>1. UNCHANGED <<phase, pc, lsn, kind, order, writer, files, last_write>>
  BY DEF Checkpoint, CkptStart, CkptContainer, CkptCopy, CkptPlace, CkptTakeFreed, CkptNote,
         CkptCommit, txns, disk, log
<1>2. TxnInv'
  <2>1. \A k \in Keys : rows'[k].locker = rows[k].locker
    <3>1. CASE CkptPlace
      <4>1. rows \in [Keys -> RowType]
        BY DEF TypeInv, RegionTyped
      <4>2. rows' = rows \/ rows' = [rows EXCEPT ![ckpt.key].loc = ckpt.new]
        BY <3>1 DEF CkptPlace
      <4>. QED BY <4>1, <4>2 DEF RowType
    <3>2. CASE ~CkptPlace
      BY <3>2 DEF Checkpoint, CkptStart, CkptContainer, CkptCopy, CkptTakeFreed, CkptNote,
                  CkptCommit, memory
    <3>. QED BY <3>1, <3>2
  <2>. QED BY <1>1, <2>1, TxnInvKept
<1>3. FilesInv'
  <2>1. CASE CkptStart
    BY <2>1, FilesInvCkptStart DEF LogInv
  <2>2. CASE ~CkptStart
    <3>1. UNCHANGED <<log_filename, log_len>>
      BY <2>2 DEF Checkpoint, CkptContainer, CkptCopy, CkptPlace, CkptTakeFreed, CkptNote,
                  CkptCommit, log
    <3>. QED BY <1>1, <3>1, FilesInvKept DEF LogInv
  <2>. QED BY <2>1, <2>2
<1>4. Reachable'
  <2>1. CASE CkptCommit
    BY <2>1, ReachableCommit
  <2>2. CASE ~CkptCommit
    <3>1. UNCHANGED meta
      BY <2>2 DEF Checkpoint, CkptStart, CkptContainer, CkptCopy, CkptPlace, CkptTakeFreed,
                  CkptNote, disk
    <3>. QED BY <1>1, <3>1, ReachableKept DEF LogInv
  <2>. QED BY <2>1, <2>2
<1>5. LogGrows
  BY <1>1 DEF LogGrows
<1>6. Starts'
  <2>1. CASE CkptStart
    <3>1. UNCHANGED <<meta, ckpt_history>> /\ ckpt'.at = "next"
      BY <2>1 DEF CkptStart, memory, disk, Idle
    <3>. QED BY <1>5, <3>1, StartsKept DEF LogInv, Writing
  <2>2. CASE CkptCopy \/ CkptPlace \/ CkptTakeFreed
    <3>1. UNCHANGED <<meta, ckpt_history>> /\ ckpt.at \in Writing
      BY <2>2 DEF CkptCopy, CkptPlace, CkptTakeFreed, memory, disk, Writing
    <3>2. ckpt'.c = ckpt.c /\ ckpt'.start = ckpt.start /\ ckpt'.at # "noted"
      BY <2>2 DEF CkptCopy, CkptPlace, CkptTakeFreed, TypeInv, TakenInv, Idle
    <3>3. Starts
      BY DEF LogInv
    <3>. QED BY <1>5, <3>1, <3>2, <3>3, StartsKept
  <2>. QED BY <2>1, <2>2, StartsContainer, StartsNote, StartsCommit DEF Checkpoint
<1>. QED BY <1>2, <1>3, <1>4, <1>5, <1>6 DEF LogInv

\* ... a crash, ...
LEMMA LogInvCrash ==
    ASSUME TypeInv, TxnInv, LogInv, Crash, CrashIsBearable
    PROVE  TxnInv' /\ LogInv' /\ LogGrows
<1>1. TxnInv' /\ LogGrows
  BY CrashLocks
<1>2. FilesInv' /\ DOMAIN files' = DOMAIN files /\ UNCHANGED meta
  BY FilesInvCrash DEF LogInv, Crash
<1>3. Reachable'
  BY <1>2, ReachableKept DEF LogInv
<1>4. Starts'
  BY StartsCrash DEF LogInv
<1>. QED BY <1>1, <1>2, <1>3, <1>4 DEF LogInv

\* ... recovery and archiving, and nothing that happens.
LEMMA LogInvOthers ==
    ASSUME TypeInv, TxnInv, LogInv, Recover \/ Archive \/ UNCHANGED vars
    PROVE  TxnInv' /\ LogInv' /\ LogGrows
<1>1. CASE Recover
  <2>1. FilesInv' /\ UNCHANGED <<files, meta, order, ckpt>>
    BY <1>1, FilesInvRecover DEF LogInv
  <2>2. Reachable' /\ LogGrows
    BY <2>1, ReachableKept DEF LogInv, LogGrows
  <2>. QED BY <1>1, <2>1, <2>2, RecoverLocks, StartsRecover DEF LogInv
<1>2. CASE Archive
  <2>1. FilesInv' /\ Reachable'
    BY <1>2, FilesInvArchive DEF LogInv
  <2>2. UNCHANGED <<phase, rows, pc, lsn, order, writer, meta, ckpt_history, ckpt>>
    BY <1>2 DEF Archive, memory, log, txns
  <2>3. TxnInv' /\ LogGrows
    BY <2>2, TxnInvKept DEF LogGrows
  <2>4. Starts'
    BY <2>2, <2>3, StartsKept DEF LogInv
  <2>. QED BY <2>1, <2>3, <2>4 DEF LogInv
<1>3. CASE UNCHANGED vars
  <2>1. UNCHANGED <<phase, rows, ckpt_history, last_write, log_filename, log_len, writer, pc,
                    lsn, kind, ckpt, files, meta, order>>
    BY <1>3 DEF vars, memory, log, txns, disk
  <2>2. TxnInv' /\ LogGrows
    BY <2>1, TxnInvKept DEF LogGrows
  <2>3. FilesInv' /\ Reachable'
    BY <2>1, FilesInvKept, ReachableKept DEF LogInv
  <2>4. Starts'
    BY <2>1, <2>2, StartsKept DEF LogInv
  <2>. QED BY <2>2, <2>3, <2>4 DEF LogInv
<1>. QED BY <1>1, <1>2, <1>3

\* Every step keeps the log in shape, but for crashes that recovery is not up to.
LEMMA LogInvStep ==
    ASSUME TypeInv, TxnInv, LogInv, [Next]_vars, [CrashIsBearable]_vars
    PROVE  TxnInv' /\ LogInv' /\ LogGrows
<1>1. CASE UNCHANGED vars
  BY <1>1, LogInvOthers
<1>2. CASE Next /\ CrashIsBearable
  <2>1. CASE \E t \in Txns : Transact(t)
    BY <2>1, LogInvTransact
  <2>2. CASE Checkpoint
    BY <2>2, LogInvCheckpoint
  <2>3. CASE Crash
    BY <1>2, <2>3, LogInvCrash
  <2>. QED BY <1>2, <2>1, <2>2, <2>3, LogInvOthers DEF Next
<1>. QED BY <1>1, <1>2

-----------------------------------------------------------------------------
\* What the log is good for

\* Recovery has refused only when it could not do better.
RefusedInv ==
    phase = "refused" => \/ \E c \in Containers : meta[c] = NoMeta
                         \/ \E n \in DOMAIN files : WholePart(files[n]) = <<>>

\* That it is to refuse shows when it starts; nothing happens after it.
LEMMA RefusedInvStep ==
    ASSUME TypeInv, TxnInv, LogInv, RefusedInv, [Next]_vars
    PROVE  RefusedInv'
<1>1. CASE Recover
  <2>1. phase = "down" /\ UNCHANGED <<meta, files>> /\ (phase' = "refused" => Refuses)
    BY <1>1 DEF Recover, disk
  <2>. QED BY <2>1, NothingToRefuse DEF RefusedInv
<1>2. CASE UNCHANGED vars
  BY <1>2 DEF vars, disk, RefusedInv
<1>3. CASE Next /\ ~Recover
  <2>1. phase = "open"
    BY <1>3 DEF Next, Transact, Checkpoint, Operate, Rollback, OpenLog, WriteLog, Apply,
                CkptStart, CkptContainer, CkptCopy, CkptPlace, CkptTakeFreed, CkptNote,
                CkptCommit, Archive, Crash
  <2>2. phase' # "refused"
    BY <1>3, <2>1 DEF Next, Transact, Checkpoint, Operate, Rollback, OpenLog, WriteLog, Apply,
                CkptStart, CkptContainer, CkptCopy, CkptPlace, CkptTakeFreed, CkptNote,
                CkptCommit, Archive, Crash
  <2>. QED BY <2>2 DEF RefusedInv
<1>. QED BY <1>1, <1>2, <1>3

\* Every place of the log behind the start of a file is in a file.
LEMMA PlaceIsInFile ==
    ASSUME TypeInv, TxnInv, FilesInv, NEW first \in DOMAIN files, NEW i \in 1 .. Len(order),
           first < i
    PROVE  \E n \in DOMAIN files : first <= n /\ n < i /\ i <= End(files, n)
<1>. DEFINE S == {m \in DOMAIN files : m < i}
<1>1. order \in Seq(Txns) /\ DOMAIN files \subseteq 0 .. Len(order)
  BY DEF TxnInv, OrderInv, FilesInv, Contiguous
<1>2. S \subseteq Nat /\ first \in S /\ i \in Nat /\ \A y \in S : y <= i
  BY <1>1
<1>3. PICK n : n = Max(S)
  OBVIOUS
<1>4. n \in S /\ \A y \in S : y <= n
  <2>. HIDE DEF S
  <2>1. S # {}
    BY <1>2
  <2>. QED BY <1>2, <1>3, <2>1, MaxOfNats
<1>5. n \in DOMAIN files /\ n < i /\ first <= n /\ n \in Nat
  BY <1>2, <1>4
<1>6. PICK e : e = End(files, n)
  OBVIOUS
<1>7. /\ e \in Nat /\ n <= e /\ e = n + Len(WholePart(files[n]))
      /\ e = Len(order) \/ e \in DOMAIN files
      /\ e = n => e = Len(order)
  <2>1. Len(WholePart(files[n])) \in Nat
    BY <1>5, FilesAre
  <2>2. /\ e = Len(order) \/ e \in DOMAIN files
        /\ e = n => e = Len(order)
    BY <1>5, <1>6 DEF FilesInv, Contiguous
  <2>. QED BY <1>5, <1>6, <2>1, <2>2 DEF End
<1>8. CASE e = n
  <2>1. i <= e
    BY <1>7, <1>8
  <2>. QED BY <1>5, <1>6, <2>1
<1>9. CASE e # n
  <2>1. ~(e < i) \/ e = Len(order)
    <3>1. SUFFICES ASSUME e < i, e \in DOMAIN files PROVE FALSE
      BY <1>7
    <3>2. e <= n
      BY <1>4, <3>1
    <3>. QED BY <1>5, <1>7, <1>9, <3>2
  <2>2. i <= e
    BY <1>1, <1>7, <2>1
  <2>. QED BY <1>5, <1>6, <2>2
<1>. QED BY <1>8, <1>9

\* Redo of a file has the records from the start of recovery, or of the file, to its end.
LEMMA RedoneOfFile ==
    ASSUME TypeInv, FilesInv, NEW n \in DOMAIN files,
           FirstFile(RedoStart) \in DOMAIN files, FirstFile(RedoStart) <= RedoStart
    PROVE  \E b \in n .. End(files, n) :
              /\ IsLogPart(ToRedo(n), b, End(files, n))
              /\ b = n \/ (b <= RedoStart /\ n = FirstFile(RedoStart))
<1>1. n \in Int /\ End(files, n) \in Int /\ n <= End(files, n)
  BY FilesAre DEF End, Lsns
<1>2. CASE n = FirstFile(RedoStart)
  BY <1>2, ToRedoIs
<1>3. CASE n # FirstFile(RedoStart)
  BY <1>1, <1>3, ToRedoIs
<1>. QED BY <1>2, <1>3

\* What was logged behind the start of recovery is redone by it.
LEMMA LogInvRecovers ==
    ASSUME TypeInv, TxnInv, LogInv
    PROVE  LoggedIsRecoverable
<1>. SUFFICES ASSUME LogIsClean, Checked = Containers, NEW t \in Txns,
                     pc[t] \in {"logged", "committed"}, lsn[t] > RedoStart
              PROVE  \E n \in FilesRead : \E r \in Range(ToRedo(n)) : r.txn = t
  BY DEF LoggedIsRecoverable
<1>0. PICK i, s, first : i = lsn[t] /\ s = RedoStart /\ first = FirstFile(RedoStart)
  OBVIOUS
<1>1. /\ i \in 1 .. Len(order) /\ order[i] = t /\ order \in Seq(Txns) /\ s \in Nat /\ s < i
      /\ LogNames = DOMAIN files /\ LogNames \subseteq Nat
  BY <1>0, LogNamesAre, FilesReadAre, RedoStartIs DEF TxnInv, OrderInv, LogInv
<1>2. first \in DOMAIN files /\ first <= s /\ first \in Nat
  <2>1. DOMAIN files # {}
    BY <1>1 DEF LogInv, FilesInv, Contiguous
  <2>2. PICK m \in DOMAIN files : \A c \in Checked : m <= meta[c].start
    BY <2>1 DEF LogInv, Reachable
  <2>3. PICK c \in Containers : s = meta[c].start
    BY <1>0, RedoStartIs DEF Checked, StartOf
  <2>4. m <= s
    BY <2>2, <2>3
  <2>. QED BY <1>0, <1>1, <2>4, FirstFileIs
<1>3. PICK n \in DOMAIN files : first <= n /\ n < i /\ i <= End(files, n)
  BY <1>1, <1>2, PlaceIsInFile DEF LogInv
<1>4. n \in FilesRead
  BY <1>0, <1>1, <1>3 DEF FilesRead, FilesFrom, LogIsClean
<1>5. PICK b \in n .. End(files, n) : /\ IsLogPart(ToRedo(n), b, End(files, n))
                                      /\ b = n \/ b <= s
  BY <1>0, <1>2, RedoneOfFile DEF LogInv
<1>6. PICK g, j : g = ToRedo(n) /\ j = i - b
  OBVIOUS
<1>7. n \in Nat /\ End(files, n) \in Int
  BY <1>1, <1>3, FilesAre DEF End
<1>8. j \in 1 .. Len(g) /\ b + j = i
  BY <1>1, <1>3, <1>5, <1>6, <1>7 DEF IsLogPart
<1>9. g[j].txn = order[b + j] /\ j \in DOMAIN g
  BY <1>5, <1>6, <1>8 DEF IsLogPart
<1>10. g[j] \in Range(g) /\ g[j].txn = t
  BY <1>1, <1>8, <1>9 DEF Range
<1>. QED BY <1>4, <1>6, <1>10

\* The log serves recovery when the invariant holds.
LEMMA LogInvServes ==
    ASSUME TypeInv, TxnInv, LogInv, RefusedInv
    PROVE  LogServesRecovery
<1>1. RefusedOnlyUnchecked
  BY DEF RefusedInv, RefusedOnlyUnchecked
<1>2. WriterHasItsFile
  BY DEF LogInv, FilesInv, Current, WriterHasItsFile
<1>. QED BY <1>1, <1>2, LogInvRecovers DEF LogServesRecovery

\* Recovery finds in the log what it needs, whatever was archived and however often it was
\* done before: each transaction that got through its commit behind the start of the
\* checkpoints.  It refuses a database only when a container has no checkpoint yet, or a
\* crash has left a log file without a record.  So as long as no crash comes on top of a
\* torn record, tears the first of a file, or leaves the very first file without one.
THEOREM LogIsThereForRecovery ==
    Spec /\ [][CrashIsBearable]_vars => []LogServesRecovery
<1>1. Init => TypeInv /\ TxnInv /\ LogInv /\ RefusedInv
  BY TypeInvInit, TxnInvInit, LogInvInit DEF Init, RefusedInv
<1>2. TypeInv /\ TxnInv /\ LogInv /\ RefusedInv /\ [Next]_vars /\ [CrashIsBearable]_vars
         => TypeInv' /\ TxnInv' /\ LogInv' /\ RefusedInv'
  BY TypeInvStep, LogInvStep, RefusedInvStep
<1>3. TypeInv /\ TxnInv /\ LogInv /\ RefusedInv => LogServesRecovery
  BY LogInvServes
<1>. QED BY <1>1, <1>2, <1>3, PTL DEF Spec

-----------------------------------------------------------------------------
\* What the rows, the checkpoints and the log have to do with each other

\* How a change is logged that finds a row with a given value.
KindFor(t, k, v) ==
    IF Changes[t][k] = "erase" THEN "erase" ELSE IF v = NoTxn THEN "insert" ELSE "update"

\* Each transaction logs what it changes, ...
OpsAre == \A t \in Txns : pc[t] # "begin" => DOMAIN kind[t] = KeysOf(t)

\* ... and as a change of the row that is there.
KindRight(k) ==
    /\ \A i \in 1 .. Len(order) : k \in KeysOf(order[i]) =>
          kind[order[i]][k] = KindFor(order[i], k, ValueIn(order, k, i - 1))
    /\ \A t \in Txns : pc[t] \in {"pending", "logging"} /\ k \in KeysOf(t) =>
          kind[t][k] = KindFor(t, k, rows[k].val)

\* The row is what the log says, but for the transaction that is between its record and
\* phase 3: no other one has changed the row behind it, nor has a checkpoint passed.
RowCurrent(k) ==
    phase = "open" =>
        /\ Settled(k) => rows[k].val = ValueIn(order, k, Len(order))
        /\ \A t \in Txns : pc[t] = "logged" /\ k \in KeysOf(t) =>
              /\ rows[k].val = ValueIn(order, k, lsn[t] - 1)
              /\ \A i \in lsn[t] + 1 .. Len(order) : k \notin KeysOf(order[i])
              /\ lsn[t] > ckpt_history[Holder[k]]

\* What the last checkpoint has left out it has at the row's location already.
RowPlaced(k) ==
    phase = "open" =>
        /\ ~Committed(rows[k]) => rows[k].loc = NoLoc
        /\ Committed(rows[k]) /\ rows[k].lsn <= ckpt_history[Holder[k]] =>
              rows[k].loc # NoLoc /\ image[Holder[k]][rows[k].loc].val = rows[k].val

\* The current checkpoint shows the row as it was at some time after its start.
MetaRight(k) ==
    Depicts(image[Holder[k]], meta[Holder[k]].used, k, StartOf(Holder[k]), order)

\* The row was copied and is not placed yet.
Limbo(k) == ckpt.at = "copied" /\ ckpt.key = k

\* Of all places that are neither free nor about to be, the row is only where its location
\* says, or where it was just copied to.
NoLeak(k) ==
    phase = "open" =>
        \A l \in UsedBy(Holder[k]) :
            l \notin FreeOf(Holder[k]) /\ l \notin freed[Holder[k]]
              /\ image[Holder[k]][l].key = k
            => l = rows[k].loc \/ (Limbo(k) /\ l = ckpt.new)

\* A checkpoint that is complete shows the row as it was at some time after its start.
Frozen(k) ==
    ckpt.at \in {"saved", "noted"} /\ ckpt.c = Holder[k] =>
        Depicts(image[Holder[k]], ckpt.used \ ckpt.free, k, ckpt.start, order)

\* A checkpoint that has passed the row goes on to show it as it was after its start: if
\* it was placed, where its location says, ...
PlaceRight(k) ==
    /\ rows[k].loc = NoLoc => Was(order, k, ckpt.start, NoTxn)
    /\ rows[k].loc # NoLoc => Was(order, k, ckpt.start, image[Holder[k]][rows[k].loc].val)
    /\ Committed(rows[k]) /\ rows[k].lsn <= ckpt.start =>
          rows[k].loc # NoLoc /\ image[Holder[k]][rows[k].loc].val = rows[k].val

\* ... else where it was copied to, unless it was erased in the meantime.
CopyRight(k) ==
    /\ Was(order, k, ckpt.start, image[Holder[k]][ckpt.new].val)
    /\ \/ rows[k].loc = ckpt.prev /\ Committed(rows[k])
       \/ rows[k].loc = NoLoc /\ Was(order, k, ckpt.start, NoTxn)
    /\ Committed(rows[k]) /\ rows[k].lsn <= ckpt.start =>
          rows[k].loc = ckpt.prev /\ image[Holder[k]][ckpt.new].val = rows[k].val

Passed(k) ==
    ckpt.at \in Writing /\ ckpt.c = Holder[k] /\ k \notin ckpt.keys =>
        /\ \A t \in Txns : pc[t] = "logged" /\ k \in KeysOf(t) => lsn[t] > ckpt.start
        /\ Limbo(k) => CopyRight(k)
        /\ ~Limbo(k) => PlaceRight(k)

RowRight(k) == RowCurrent(k) /\ RowPlaced(k)
ShownRight(k) == MetaRight(k) /\ NoLeak(k) /\ Frozen(k) /\ Passed(k)

(***************************************************************************)
(* The inductive invariant, for all rows that are not exposed: with the    *)
(* value of the row goes what the checkpoints show of it, the current one, *)
(* the one that is complete but not committed, and the one in progress.    *)
(***************************************************************************)
History(k) == KindRight(k) /\ RowRight(k) /\ ShownRight(k)
HistoryInv == OpsAre /\ \A k \in Keys \ exposed : History(k)

\* Initially there is nothing.
LEMMA HistoryInvInit == Init => HistoryInv
<1>. SUFFICES ASSUME Init PROVE HistoryInv
  OBVIOUS
<1>1. OpsAre
  BY DEF Init, OpsAre
<1>2. SUFFICES ASSUME NEW k \in Keys PROVE History(k)
  BY <1>1 DEF HistoryInv
<1>3. /\ order = <<>> /\ Len(order) = 0 /\ order \in Seq(Txns) /\ ckpt.at = "off"
      /\ rows[k] = NoRow /\ \A t \in Txns : pc[t] = "begin"
      /\ Holder[k] \in Containers
  BY KeysAssumption DEF Init, Idle
<1>4. ValueIn(order, k, 0) = NoTxn
  <2>1. 0 \in 0 .. Len(order)
    BY <1>3
  <2>. QED BY <1>3, <2>1, ValueInIs
<1>5. KindRight(k) /\ RowRight(k)
  BY <1>3, <1>4, NoRowIs DEF KindRight, RowRight, RowCurrent, RowPlaced
<1>6. meta[Holder[k]] = NoMeta
  BY <1>3 DEF Init
<1>7. MetaRight(k)
  <2>1. Was(order, k, 0, NoTxn)
    BY <1>3, <1>4 DEF Was
  <2>2. meta[Holder[k]].used = {} /\ StartOf(Holder[k]) = 0
    BY <1>6 DEF NoMeta, StartOf
  <2>. QED BY <2>1, <2>2 DEF MetaRight, Depicts, Shows, Only
<1>8. NoLeak(k)
  BY <1>3, <1>6 DEF NoLeak, UsedBy, On, NoMeta, Writing
<1>9. Frozen(k) /\ Passed(k)
  BY <1>3 DEF Frozen, Passed, Writing
<1>. QED BY <1>5, <1>7, <1>8, <1>9 DEF History, ShownRight

\* What neither changes a row, but for its lock, nor goes on with the log or a checkpoint.
LEMMA HistoryKept ==
    ASSUME NEW k \in Keys, RowRight(k), ShownRight(k),
           UNCHANGED <<phase, order, lsn, ckpt_history, freed, ckpt, meta, image>>,
           rows'[k].val = rows[k].val, rows'[k].loc = rows[k].loc,
           Committed(rows[k]) => rows'[k].lsn = rows[k].lsn,
           \A t \in Txns : pc'[t] = "logged" <=> pc[t] = "logged"
    PROVE  RowRight(k)' /\ ShownRight(k)'
<1>0. Settled(k)' <=> Settled(k)
  BY DEF Settled
<1>1. RowCurrent(k)'
  BY <1>0 DEF RowRight, RowCurrent
<1>2. RowPlaced(k)'
  BY DEF RowRight, RowPlaced, Committed
<1>3. MetaRight(k)'
  BY DEF ShownRight, MetaRight, StartOf
<1>4. NoLeak(k)'
  BY DEF ShownRight, NoLeak, UsedBy, FreeOf, On, Limbo
<1>5. Frozen(k)'
  BY DEF ShownRight, Frozen
<1>6. PlaceRight(k) => PlaceRight(k)'
  BY DEF PlaceRight, Committed
<1>7. CopyRight(k) => CopyRight(k)'
  BY DEF CopyRight, Committed
<1>8. Passed(k)'
  BY <1>6, <1>7 DEF ShownRight, Passed, Limbo
<1>. QED BY <1>1, <1>2, <1>3, <1>4, <1>5, <1>8 DEF RowRight, ShownRight

-----------------------------------------------------------------------------
\* How changes are logged

\* Only an operation decides what is logged.
LEMMA OpsAreStep ==
    ASSUME TypeInv, OpsAre, [Next]_vars
    PROVE  OpsAre'
<1>1. CASE \E t \in Txns : Operate(t)
  <2>1. PICK t \in Txns : Operate(t)
    BY <1>1
  <2>2. /\ kind' = [kind EXCEPT ![t] =
              [k \in KeysOf(t) |-> IF Changes[t][k] = "erase" THEN "erase"
                                   ELSE IF Committed(rows[k]) THEN "update" ELSE "insert"]]
        /\ pc' = [pc EXCEPT ![t] = "pending"] /\ DOMAIN kind = Txns /\ pc \in [Txns -> Stages]
    BY <2>1 DEF Operate, Goto, TypeInv, TxnsTyped
  <2>. QED BY <2>2 DEF OpsAre
<1>2. CASE ~ \E t \in Txns : Operate(t)
  <2>1. UNCHANGED kind
    BY <1>2 DEF Next, Transact, Checkpoint, Rollback, OpenLog, WriteLog, Apply, CkptStart,
                CkptContainer, CkptCopy, CkptPlace, CkptTakeFreed, CkptNote, CkptCommit, Archive,
                Crash, Recover, txns, vars
  <2>2. \A t \in Txns : pc'[t] # "begin" => pc[t] # "begin"
    <3>1. pc \in [Txns -> Stages]
      BY DEF TypeInv, TxnsTyped
    <3>2. CASE \E t \in Txns : Rollback(t) \/ OpenLog(t) \/ WriteLog(t) \/ Apply(t)
      <4>1. PICK t \in Txns : Rollback(t) \/ OpenLog(t) \/ WriteLog(t) \/ Apply(t)
        BY <3>2
      <4>2. \E point : pc' = [pc EXCEPT ![t] = point]
        BY <4>1 DEF Rollback, OpenLog, WriteLog, Apply, Goto
      <4>3. pc[t] # "begin"
        BY <4>1, WriterIs, NobodyAssumption DEF Rollback, OpenLog, WriteLog, Apply
      <4>. QED BY <3>1, <4>2, <4>3
    <3>3. CASE Crash
      BY <3>3 DEF Crash
    <3>4. CASE ~Crash /\ ~ \E t \in Txns : Rollback(t) \/ OpenLog(t) \/ WriteLog(t) \/ Apply(t)
      <4>1. UNCHANGED pc
        BY <1>2, <3>4 DEF Next, Transact, Checkpoint, CkptStart,
                CkptContainer, CkptCopy, CkptPlace, CkptTakeFreed, CkptNote, CkptCommit, Archive,
                Recover, txns, vars
      <4>. QED BY <4>1
    <3>. QED BY <3>2, <3>3, <3>4
  <2>. QED BY <2>1, <2>2 DEF OpsAre
<1>. QED BY <1>1, <1>2

\* A change of a row that is not in the log yet keeps the row from all other changes.
LEMMA KindKept ==
    ASSUME NEW k \in Keys, KindRight(k), UNCHANGED <<order, kind>>,
           \A t \in Txns : pc'[t] \in {"pending", "logging"} /\ k \in KeysOf(t) =>
              pc[t] \in {"pending", "logging"} /\ rows'[k].val = rows[k].val
    PROVE  KindRight(k)'
BY DEF KindRight

\* Operations see the row as it is, which they do not change.
LEMMA KindOperate ==
    ASSUME TypeInv, TxnInv, NEW k \in Keys, KindRight(k), NEW t \in Txns, Operate(t)
    PROVE  KindRight(k)'
<1>1. /\ kind' = [kind EXCEPT ![t] =
            [j \in KeysOf(t) |-> IF Changes[t][j] = "erase" THEN "erase"
                                 ELSE IF Committed(rows[j]) THEN "update" ELSE "insert"]]
      /\ pc' = [pc EXCEPT ![t] = "pending"] /\ DOMAIN kind = Txns /\ pc \in [Txns -> Stages]
      /\ pc[t] = "begin" /\ UNCHANGED order
      /\ rows' = [j \in Keys |-> IF j \in KeysOf(t) THEN [rows[j] EXCEPT !.locker = t] ELSE rows[j]]
  BY DEF Operate, Goto, TypeInv, TxnsTyped
<1>2. rows'[k].val = rows[k].val
  <2>1. rows[k] \in RowType
    BY DEF TypeInv, RegionTyped
  <2>. QED BY <1>1, <2>1 DEF RowType
<1>3. \A u \in Txns \ {t} : kind'[u] = kind[u] /\ pc'[u] = pc[u]
  BY <1>1
<1>4. \A i \in 1 .. Len(order) : order[i] \in Txns \ {t}
  BY <1>1 DEF TxnInv, OrderInv
<1>5. k \in KeysOf(t) => kind'[t][k] = KindFor(t, k, rows[k].val)
  BY <1>1 DEF KindFor, Committed
<1>6. ASSUME NEW u \in Txns, pc'[u] \in {"pending", "logging"}, k \in KeysOf(u)
      PROVE  kind'[u][k] = KindFor(u, k, rows'[k].val)
  <2>1. CASE u = t
    BY <1>2, <1>5, <1>6, <2>1
  <2>2. CASE u # t
    BY <1>2, <1>3, <1>6, <2>2 DEF KindRight
  <2>. QED BY <2>1, <2>2
<1>7. ASSUME NEW i \in 1 .. Len(order), k \in KeysOf(order[i])
      PROVE  kind'[order[i]][k] = KindFor(order[i], k, ValueIn(order, k, i - 1))
  BY <1>3, <1>4, <1>7 DEF KindRight
<1>. QED BY <1>1, <1>6, <1>7 DEF KindRight

\* A row that a writer has locked is what the log says.
LEMMA WriterSees ==
    ASSUME TypeInv, TxnInv, phase = "open", NEW t \in Txns, pc[t] = "logging",
           NEW k \in KeysOf(t), RowCurrent(k)
    PROVE  rows[k].val = ValueIn(order, k, Len(order))
<1>1. k \in Keys
  BY KeysOfIs
<1>2. Settled(k)
  <2>1. SUFFICES ASSUME NEW u \in Txns, pc[u] = "logged", k \in KeysOf(u) PROVE FALSE
    BY DEF Settled
  <2>2. u = t
    BY <1>1, <2>1, OneChanger DEF Live
  <2>. QED BY <2>1, <2>2
<1>. QED BY <1>2 DEF RowCurrent

\* A transaction gets into the log with its changes as they are.
LEMMA KindGrows ==
    ASSUME TypeInv, TxnInv, phase = "open", NEW k \in Keys, KindRight(k), RowCurrent(k),
           NEW t \in Txns, pc[t] = "logging", order' = Append(order, t), UNCHANGED kind,
           \A u \in Txns : pc'[u] \in {"pending", "logging"} /\ k \in KeysOf(u) =>
              pc[u] \in {"pending", "logging"} /\ rows'[k].val = rows[k].val
    PROVE  KindRight(k)'
<1>1. order \in Seq(Txns) /\ order' \in Seq(Txns) /\ Len(order') = Len(order) + 1
      /\ order'[Len(order) + 1] = t /\ \A i \in 1 .. Len(order) : order'[i] = order[i]
  BY DEF TxnInv, OrderInv
<1>2. ASSUME NEW i \in 1 .. Len(order'), k \in KeysOf(order'[i])
      PROVE  kind'[order'[i]][k] = KindFor(order'[i], k, ValueIn(order', k, i - 1))
  <2>1. i - 1 \in 0 .. Len(order)
    BY <1>1
  <2>2. ValueIn(order', k, i - 1) = ValueIn(order, k, i - 1)
    BY <1>1, <2>1, ValueKept
  <2>3. CASE i \in 1 .. Len(order)
    BY <1>1, <1>2, <2>2, <2>3 DEF KindRight
  <2>4. CASE i = Len(order) + 1
    <3>1. rows[k].val = ValueIn(order, k, Len(order)) /\ order'[i] = t /\ k \in KeysOf(t)
      BY <1>1, <1>2, <2>4, WriterSees
    <3>2. kind[t][k] = KindFor(t, k, rows[k].val)
      BY <3>1 DEF KindRight
    <3>3. i - 1 = Len(order)
      BY <1>1, <2>4
    <3>. QED BY <2>2, <3>1, <3>2, <3>3
  <2>. QED BY <1>1, <2>3, <2>4
<1>3. ASSUME NEW u \in Txns, pc'[u] \in {"pending", "logging"}, k \in KeysOf(u)
      PROVE  kind'[u][k] = KindFor(u, k, rows'[k].val)
  BY <1>3 DEF KindRight
<1>. QED BY <1>2, <1>3 DEF KindRight

-----------------------------------------------------------------------------
\* Transactions keep the invariant

\* An operation leaves a lock and no more, ...
LEMMA HistoryOperate ==
    ASSUME TypeInv, TxnInv, NEW k \in Keys, History(k), NEW t \in Txns, Operate(t)
    PROVE  History(k)'
<1>1. KindRight(k)'
  BY KindOperate DEF History
<1>2. rows'[k].val = rows[k].val /\ rows'[k].loc = rows[k].loc /\ rows'[k].lsn = rows[k].lsn
  <2>1. rows[k] \in RowType
    BY DEF TypeInv, RegionTyped
  <2>2. rows'[k] = rows[k] \/ rows'[k] = [rows[k] EXCEPT !.locker = t]
    BY DEF Operate
  <2>. QED BY <2>1, <2>2 DEF RowType
<1>3. \A u \in Txns : pc'[u] = "logged" <=> pc[u] = "logged"
  BY DEF Operate, Goto, TypeInv, TxnsTyped
<1>4. UNCHANGED <<phase, order, lsn, ckpt_history, freed, ckpt, meta, image>>
  BY DEF Operate, disk
<1>5. RowRight(k)' /\ ShownRight(k)'
  BY <1>2, <1>3, <1>4, HistoryKept DEF History
<1>. QED BY <1>1, <1>5 DEF History

\* ... which rollback takes away: a row that it erases had no value and no location.
LEMMA HistoryRollback ==
    ASSUME TypeInv, TxnInv, NEW k \in Keys, History(k), NEW t \in Txns, Rollback(t)
    PROVE  History(k)'
<1>1. /\ phase = "open" /\ pc[t] = "pending" /\ pc \in [Txns -> Stages] /\ rows[k] \in RowType
      /\ pc' = [pc EXCEPT ![t] = "rolledback"] /\ UNCHANGED <<order, kind>>
  BY DEF Rollback, Goto, TypeInv, TxnsTyped, RegionTyped
<1>2. rows'[k] = IF rows[k].locker # t THEN rows[k]
                 ELSE IF kind[t][k] = "insert" THEN NoRow ELSE [rows[k] EXCEPT !.locker = NoTxn]
  BY DEF Rollback
<1>3. ASSUME rows[k].locker = t, kind[t][k] = "insert"
      PROVE  rows[k].val = NoTxn /\ rows[k].loc = NoLoc
  <2>1. k \in KeysOf(t)
    BY <1>1, <1>3 DEF TxnInv, LockInv
  <2>2. KindFor(t, k, rows[k].val) = "insert"
    BY <1>1, <1>3, <2>1 DEF History, KindRight
  <2>3. rows[k].val = NoTxn
    BY <2>2 DEF KindFor
  <2>. QED BY <1>1, <2>3 DEF History, RowRight, RowPlaced, Committed
<1>4. /\ rows'[k].val = rows[k].val /\ rows'[k].loc = rows[k].loc
      /\ Committed(rows[k]) => rows'[k].lsn = rows[k].lsn
  BY <1>1, <1>2, <1>3, NoRowIs DEF RowType, Committed
<1>5. KindRight(k)'
  BY <1>1, <1>4, KindKept DEF History
<1>6. \A u \in Txns : pc'[u] = "logged" <=> pc[u] = "logged"
  BY <1>1
<1>7. UNCHANGED <<phase, order, lsn, ckpt_history, freed, ckpt, meta, image>>
  BY DEF Rollback, disk
<1>8. RowRight(k)' /\ ShownRight(k)'
  BY <1>4, <1>6, <1>7, HistoryKept DEF History
<1>. QED BY <1>5, <1>8 DEF History

\* Opening the log, archiving, and nothing: no row is concerned.
LEMMA HistoryElsewhere ==
    ASSUME TypeInv, NEW k \in Keys, History(k),
           (\E t \in Txns : OpenLog(t)) \/ Archive \/ UNCHANGED vars
    PROVE  History(k)'
<1>1. UNCHANGED <<phase, order, lsn, kind, rows, ckpt_history, freed, ckpt, meta, image>>
  BY DEF OpenLog, Archive, vars, memory, log, txns, disk
<1>2. /\ \A t \in Txns : pc'[t] = "logged" <=> pc[t] = "logged"
      /\ \A t \in Txns : pc'[t] \in {"pending", "logging"} => pc[t] \in {"pending", "logging"}
  BY DEF OpenLog, Goto, Archive, vars, txns, TypeInv, TxnsTyped
<1>3. KindRight(k)'
  BY <1>1, <1>2, KindKept DEF History
<1>4. RowRight(k)' /\ ShownRight(k)'
  BY <1>1, <1>2, HistoryKept DEF History
<1>. QED BY <1>3, <1>4 DEF History

\* A row that was shown stays shown, however the log goes on.
LEMMA DepictsKept ==
    ASSUME NEW o \in Seq(Txns), NEW p \in Seq(Txns), \A i \in 1 .. Len(o) : p[i] = o[i],
           Len(o) <= Len(p), NEW k \in Keys, NEW from \in Nat, NEW file, NEW used,
           Depicts(file, used, k, from, o)
    PROVE  Depicts(file, used, k, from, p)
BY WasKept DEF Depicts

\* The checkpoints are what they were when a record gets into the log.
LEMMA ShownGrows ==
    ASSUME TypeInv, TxnInv, NEW k \in Keys, MetaRight(k), LogGrows, UNCHANGED <<meta, image>>
    PROVE  /\ MetaRight(k)'
           /\ UNCHANGED ckpt /\ Frozen(k) => Frozen(k)'
<1>1. /\ order \in Seq(Txns) /\ order' \in Seq(Txns) /\ Len(order) <= Len(order')
      /\ \A i \in 1 .. Len(order) : order'[i] = order[i]
  BY LogGrowsIs DEF TxnInv, OrderInv
<1>2. MetaRight(k)'
  <2>1. PICK c \in Containers : c = Holder[k]
    BY KeysAssumption
  <2>2. StartOf(c) \in Nat /\ StartOf(c)' = StartOf(c)
    BY RedoStartIs DEF StartOf
  <2>3. Depicts(image[c], meta[c].used, k, StartOf(c), order)
    BY <2>1 DEF MetaRight
  <2>4. Depicts(image[c], meta[c].used, k, StartOf(c), order')
    BY <1>1, <2>2, <2>3, DepictsKept
  <2>. QED BY <2>1, <2>2, <2>4 DEF MetaRight
<1>3. ASSUME UNCHANGED ckpt, Frozen(k)
      PROVE  Frozen(k)'
  <2>1. CASE ckpt.at \in {"saved", "noted"} /\ ckpt.c = Holder[k]
    <3>1. ckpt.start \in Nat
      BY <2>1 DEF TypeInv, CkptTyped, Writing
    <3>2. Depicts(image[Holder[k]], ckpt.used \ ckpt.free, k, ckpt.start, order')
      BY <1>1, <1>3, <2>1, <3>1, DepictsKept DEF Frozen
    <3>. QED BY <1>3, <3>2 DEF Frozen
  <2>2. CASE ~(ckpt.at \in {"saved", "noted"} /\ ckpt.c = Holder[k])
    BY <1>3, <2>2 DEF Frozen
  <2>. QED BY <2>1, <2>2
<1>. QED BY <1>2, <1>3

\* With its record a transaction gets between the log and its rows.
LEMMA HistoryWriteLog ==
    ASSUME TypeInv, TxnInv, LogInv, NEW k \in Keys, History(k), NEW t \in Txns, WriteLog(t)
    PROVE  History(k)'
<1>1. /\ phase = "open" /\ pc[t] = "logging" /\ pc \in [Txns -> Stages] /\ lsn \in [Txns -> Nat]
      /\ pc' = [pc EXCEPT ![t] = "logged"] /\ order' = Append(order, t)
      /\ last_write = Len(order) /\ lsn' = [lsn EXCEPT ![t] = Len(order) + 1]
      /\ UNCHANGED <<phase, rows, freed, ckpt_history, kind, ckpt, meta, image>>
  BY NobodyAssumption DEF WriteLog, Goto, memory, TypeInv, TxnsTyped, LogTyped, LogInv, FilesInv,
     Current
<1>2. /\ order \in Seq(Txns) /\ order' \in Seq(Txns) /\ Len(order') = Len(order) + 1
      /\ order'[Len(order) + 1] = t /\ \A i \in 1 .. Len(order) : order'[i] = order[i]
      /\ Len(order) \in Nat /\ Len(order) <= Len(order')
  BY <1>1 DEF TxnInv, OrderInv
<1>3. LogGrows
  BY <1>1 DEF LogGrows
<1>4. KindRight(k)'
  BY <1>1, KindGrows DEF History, RowRight
<1>5. lsn'[t] = Len(order) + 1 /\ \A u \in Txns \ {t} : lsn'[u] = lsn[u] /\ pc'[u] = pc[u]
  BY <1>1
<1>6. RowCurrent(k)'
  <2>1. ASSUME Settled(k)'
        PROVE  rows[k].val = ValueIn(order', k, Len(order'))
    <3>1. k \notin KeysOf(t) /\ Settled(k)
      BY <1>1, <1>5, <2>1 DEF Settled
    <3>2. rows[k].val = ValueIn(order, k, Len(order))
      BY <1>1, <3>1 DEF History, RowRight, RowCurrent
    <3>3. ValueIn(order', k, Len(order)) = ValueIn(order, k, Len(order))
      BY <1>2, ValueKept
    <3>4. PICK n : n = Len(order')
      OBVIOUS
    <3>5. n \in 0 .. Len(order') /\ n > 0 /\ n - 1 = Len(order) /\ order'[n] = t
      BY <1>2, <3>4
    <3>6. ValueIn(order', k, n) = ValueIn(order', k, n - 1)
      BY <1>2, <3>1, <3>5, ValueInIs
    <3>. QED BY <3>2, <3>3, <3>4, <3>5, <3>6
  <2>2. ASSUME NEW u \in Txns, pc'[u] = "logged", k \in KeysOf(u)
        PROVE  /\ rows[k].val = ValueIn(order', k, lsn'[u] - 1)
               /\ \A i \in lsn'[u] + 1 .. Len(order') : k \notin KeysOf(order'[i])
               /\ lsn'[u] > ckpt_history[Holder[k]]
    <3>1. CASE u = t
      <4>1. rows[k].val = ValueIn(order, k, Len(order))
        BY <1>1, <2>2, <3>1, WriterSees DEF History, RowRight
      <4>2. ValueIn(order', k, Len(order)) = ValueIn(order, k, Len(order))
        BY <1>2, ValueKept
      <4>3. lsn'[u] - 1 = Len(order) /\ lsn'[u] = Len(order')
        BY <1>2, <1>5, <3>1
      <4>4. ckpt_history[Holder[k]] \in Nat /\ ckpt_history[Holder[k]] <= Len(order)
        BY KeysAssumption DEF TypeInv, RegionTyped, LogInv, Starts
      <4>. QED BY <1>2, <4>1, <4>2, <4>3, <4>4
    <3>2. CASE u # t
      <4>1. pc[u] = "logged" /\ lsn'[u] = lsn[u]
        BY <1>5, <2>2, <3>2
      <4>2. k \notin KeysOf(t)
        BY <1>1, <2>2, <3>2, <4>1, OneChanger DEF Live
      <4>3. /\ rows[k].val = ValueIn(order, k, lsn[u] - 1)
            /\ \A i \in lsn[u] + 1 .. Len(order) : k \notin KeysOf(order[i])
            /\ lsn[u] > ckpt_history[Holder[k]]
        BY <1>1, <2>2, <4>1 DEF History, RowRight, RowCurrent
      <4>4. lsn[u] \in 1 .. Len(order)
        BY <4>1 DEF TxnInv, OrderInv
      <4>5. lsn[u] - 1 \in 0 .. Len(order)
        BY <1>2, <4>4
      <4>6. ValueIn(order', k, lsn[u] - 1) = ValueIn(order, k, lsn[u] - 1)
        BY <1>2, <4>5, ValueKept
      <4>7. ASSUME NEW i \in lsn[u] + 1 .. Len(order')
            PROVE  k \notin KeysOf(order'[i])
        <5>1. CASE i = Len(order) + 1
          BY <1>2, <4>2, <5>1
        <5>2. CASE i # Len(order) + 1
          <6>1. i \in lsn[u] + 1 .. Len(order) /\ i \in 1 .. Len(order)
            BY <1>2, <4>4, <4>7, <5>2
          <6>. QED BY <1>2, <4>3, <6>1
        <5>. QED BY <5>1, <5>2
      <4>. QED BY <4>1, <4>3, <4>6, <4>7
    <3>. QED BY <3>1, <3>2
  <2>. QED BY <1>1, <2>1, <2>2 DEF RowCurrent
<1>7. RowPlaced(k)' /\ NoLeak(k)'
  BY <1>1 DEF History, RowRight, ShownRight, RowPlaced, NoLeak, UsedBy, FreeOf, On, Limbo
<1>8. MetaRight(k)' /\ Frozen(k)'
  BY <1>1, <1>3, ShownGrows DEF History, ShownRight
<1>9. Passed(k)'
  <2>1. SUFFICES ASSUME ckpt.at \in Writing, ckpt.c = Holder[k], k \notin ckpt.keys
                 PROVE  /\ \A u \in Txns : pc'[u] = "logged" /\ k \in KeysOf(u) => lsn'[u] > ckpt.start
                        /\ Limbo(k) => CopyRight(k)'
                        /\ ~Limbo(k) => PlaceRight(k)'
    BY <1>1 DEF Passed, Limbo
  <2>2. /\ \A u \in Txns : pc[u] = "logged" /\ k \in KeysOf(u) => lsn[u] > ckpt.start
        /\ Limbo(k) => CopyRight(k)
        /\ ~Limbo(k) => PlaceRight(k)
    BY <2>1 DEF History, ShownRight, Passed
  <2>3. ckpt.start \in Nat /\ ckpt.start <= Len(order)
    BY <1>1, <2>1 DEF TypeInv, CkptTyped
  <2>4. \A v : Was(order, k, ckpt.start, v) => Was(order', k, ckpt.start, v)
    BY <1>2, <2>3, WasKept
  <2>5. PlaceRight(k) => PlaceRight(k)'
    BY <1>1, <2>4 DEF PlaceRight
  <2>6. CopyRight(k) => CopyRight(k)'
    BY <1>1, <2>4 DEF CopyRight
  <2>7. \A u \in Txns : pc'[u] = "logged" /\ k \in KeysOf(u) => lsn'[u] > ckpt.start
    BY <1>2, <1>5, <2>2, <2>3
  <2>. QED BY <2>2, <2>5, <2>6, <2>7
<1>. QED BY <1>4, <1>6, <1>7, <1>8, <1>9 DEF History, RowRight, ShownRight

\* What phase 3 makes of a row that the transaction has changed.
LEMMA ApplyMakes ==
    ASSUME TypeInv, TxnInv, NEW t \in Txns, Apply(t), NEW k \in KeysOf(t),
           KindRight(k), RowCurrent(k)
    PROVE  /\ Changes[t][k] = "erase" => rows'[k] = NoRow /\ kind[t][k] = "erase"
           /\ Changes[t][k] # "erase" => rows'[k] = Row(t, lsn[t], rows[k].loc)
           /\ rows'[k].val = ValueIn(order, k, Len(order))
<1>1. /\ phase = "open" /\ pc[t] = "logged" /\ k \in Keys
      /\ rows'[k] = Applied(rows[k], kind[t][k], t, lsn[t])
  BY KeysOfIs DEF Apply
<1>2. PICK n : n = lsn[t]
  OBVIOUS
<1>3. n \in 1 .. Len(order) /\ order[n] = t /\ order \in Seq(Txns)
  BY <1>1, <1>2 DEF TxnInv, OrderInv
<1>4. kind[t][k] = KindFor(t, k, ValueIn(order, k, n - 1))
  BY <1>3 DEF KindRight
<1>5. kind[t][k] = "erase" <=> Changes[t][k] = "erase"
  BY <1>4 DEF KindFor
<1>6. ValueIn(order, k, n) = IF Changes[t][k] = "erase" THEN NoTxn ELSE t
  <2>1. n \in 0 .. Len(order) /\ n > 0
    BY <1>3
  <2>. QED BY <1>1, <1>3, <2>1, ValueInIs
<1>7. ValueIn(order, k, n) = ValueIn(order, k, Len(order))
  <2>1. \A i \in n + 1 .. Len(order) : k \notin KeysOf(order[i])
    BY <1>1, <1>2 DEF RowCurrent
  <2>2. n \in 0 .. Len(order) /\ Len(order) \in n .. Len(order)
    BY <1>3
  <2>. QED BY <1>1, <1>3, <2>1, <2>2, UntouchedKeeps
<1>8. CASE Changes[t][k] = "erase"
  BY <1>1, <1>5, <1>6, <1>7, <1>8, NoRowIs DEF Applied
<1>9. CASE Changes[t][k] # "erase"
  BY <1>1, <1>5, <1>6, <1>7, <1>9 DEF Applied, Row
<1>. QED BY <1>8, <1>9

\* A row without a location is in no place that is taken.
LEMMA UsedAreLocations ==
    ASSUME TypeInv, NEW c \in Containers
    PROVE  UsedBy(c) \subseteq Locations /\ NoLoc \notin UsedBy(c)
<1>1. UsedBy(c) \subseteq Locations
  BY DEF TypeInv, TakenInv, UsedBy, On
<1>2. NoLoc \notin Locations
  BY SizesAssumption DEF NoLoc
<1>. QED BY <1>1, <1>2

\* Phase 3 brings the row to what the log says, and frees the location of an erased one.
LEMMA HistoryApply ==
    ASSUME TypeInv, TxnInv, LogInv, NEW k \in Keys, History(k), NEW t \in Txns, Apply(t)
    PROVE  History(k)'
<1>1. /\ phase = "open" /\ pc[t] = "logged" /\ pc \in [Txns -> Stages]
      /\ pc' = [pc EXCEPT ![t] = "committed"]
      /\ UNCHANGED <<phase, ckpt_history, order, lsn, kind, ckpt, meta, image>>
      /\ order \in Seq(Txns)
  BY DEF Apply, Goto, disk, TypeInv, TxnsTyped, TxnInv, OrderInv
<1>2. PICK c \in Containers : c = Holder[k]
  BY KeysAssumption
<1>3. freed'[c] = freed[c] \cup FreedBy(t, c)
  BY DEF Apply
<1>4. k \notin KeysOf(t) => rows'[k] = rows[k]
  BY DEF Apply
<1>5. ASSUME k \in KeysOf(t)
      PROVE  /\ Changes[t][k] = "erase" => rows'[k] = NoRow /\ kind[t][k] = "erase"
             /\ Changes[t][k] # "erase" => rows'[k] = Row(t, lsn[t], rows[k].loc)
             /\ rows'[k].val = ValueIn(order, k, Len(order))
  BY <1>5, ApplyMakes DEF History, RowRight
<1>6. ASSUME k \in KeysOf(t), NEW u \in Txns \ {t}, k \in KeysOf(u)
      PROVE  pc[u] \notin Live
  BY <1>1, <1>6, OneChanger DEF Live
<1>7. KindRight(k)'
  <2>1. ASSUME NEW u \in Txns, pc'[u] \in {"pending", "logging"}, k \in KeysOf(u)
        PROVE  pc[u] \in {"pending", "logging"} /\ rows'[k].val = rows[k].val
    <3>1. u # t /\ pc[u] \in {"pending", "logging"}
      BY <1>1, <2>1
    <3>2. k \notin KeysOf(t)
      BY <1>6, <2>1, <3>1 DEF Live
    <3>. QED BY <1>4, <3>1, <3>2
  <2>. QED BY <1>1, <2>1, KindKept DEF History
<1>8. RowCurrent(k)'
  <2>1. CASE k \in KeysOf(t)
    <3>1. \A u \in Txns : pc'[u] = "logged" => k \notin KeysOf(u)
      BY <1>1, <1>6, <2>1 DEF Live
    <3>. QED BY <1>1, <1>5, <2>1, <3>1 DEF RowCurrent
  <2>2. CASE k \notin KeysOf(t)
    <3>1. \A u \in Txns : pc'[u] = "logged" => pc[u] = "logged"
      BY <1>1
    <3>2. Settled(k)' => Settled(k)
      BY <1>1, <2>2 DEF Settled
    <3>. QED BY <1>1, <1>4, <2>2, <3>1, <3>2 DEF History, RowRight, RowCurrent
  <2>. QED BY <2>1, <2>2
<1>9. rows'[k].loc \in {rows[k].loc, NoLoc} /\ (rows'[k].loc # rows[k].loc => rows'[k] = NoRow)
  BY <1>4, <1>5, NoRowIs DEF Row
<1>10. RowPlaced(k)'
  <2>1. CASE k \in KeysOf(t) /\ Changes[t][k] # "erase"
    <3>1. rows'[k].val = t /\ rows'[k].lsn = lsn[t] /\ t # NoTxn
      BY <1>5, <2>1, NobodyAssumption DEF Row
    <3>2. lsn[t] > ckpt_history[Holder[k]] /\ lsn[t] \in Nat /\ ckpt_history[Holder[k]] \in Nat
      BY <1>1, <1>2, <2>1 DEF History, RowRight, RowCurrent, TypeInv, TxnsTyped, RegionTyped
    <3>. QED BY <1>1, <3>1, <3>2 DEF RowPlaced, Committed
  <2>2. CASE k \in KeysOf(t) /\ Changes[t][k] = "erase"
    BY <1>5, <2>2, NoRowIs DEF RowPlaced
  <2>3. CASE k \notin KeysOf(t)
    BY <1>1, <1>4, <2>3 DEF History, RowRight, RowPlaced
  <2>. QED BY <2>1, <2>2, <2>3
<1>11. MetaRight(k)' /\ Frozen(k)'
  BY <1>1 DEF History, ShownRight, MetaRight, StartOf, Frozen
<1>12. NoLeak(k)'
  <2>1. UsedBy(c)' = UsedBy(c) /\ FreeOf(c)' = FreeOf(c)
    BY <1>1 DEF UsedBy, FreeOf, On
  <2>2. SUFFICES ASSUME NEW l \in UsedBy(c), l \notin FreeOf(c), l \notin freed'[c],
                        image[c][l].key = k, ~(Limbo(k) /\ l = ckpt.new)
                 PROVE  l = rows'[k].loc
    BY <1>1, <1>2, <2>1 DEF NoLeak, Limbo
  <2>3. l = rows[k].loc
    BY <1>1, <1>2, <1>3, <2>2 DEF History, ShownRight, NoLeak
  <2>4. l # NoLoc
    BY <2>2, UsedAreLocations
  <2>5. rows'[k] = NoRow /\ rows[k].loc # NoLoc => rows[k].loc \in FreedBy(t, c)
    <3>1. SUFFICES ASSUME rows'[k] = NoRow, rows[k].loc # NoLoc
                   PROVE  rows[k].loc \in FreedBy(t, c)
      OBVIOUS
    <3>2. k \in KeysOf(t) /\ kind[t][k] = "erase"
      BY <1>4, <1>5, <3>1, NoRowIs DEF Row
    <3>. QED BY <1>2, <3>1, <3>2 DEF FreedBy
  <2>. QED BY <1>3, <1>9, <2>2, <2>3, <2>4, <2>5
<1>13. Passed(k)'
  <2>1. SUFFICES ASSUME ckpt.at \in Writing, ckpt.c = Holder[k], k \notin ckpt.keys
                 PROVE  /\ \A u \in Txns : pc'[u] = "logged" /\ k \in KeysOf(u) => lsn[u] > ckpt.start
                        /\ Limbo(k) => CopyRight(k)'
                        /\ ~Limbo(k) => PlaceRight(k)'
    BY <1>1 DEF Passed, Limbo
  <2>2. /\ \A u \in Txns : pc[u] = "logged" /\ k \in KeysOf(u) => lsn[u] > ckpt.start
        /\ Limbo(k) => CopyRight(k)
        /\ ~Limbo(k) => PlaceRight(k)
    BY <2>1 DEF History, ShownRight, Passed
  <2>3. \A u \in Txns : pc'[u] = "logged" => pc[u] = "logged"
    BY <1>1
  <2>4. CASE k \notin KeysOf(t)
    <3>1. (PlaceRight(k) => PlaceRight(k)') /\ (CopyRight(k) => CopyRight(k)')
      BY <1>1, <1>4, <2>4 DEF PlaceRight, CopyRight
    <3>. QED BY <2>2, <2>3, <3>1
  <2>5. CASE k \in KeysOf(t) /\ Changes[t][k] # "erase"
    <3>1. /\ rows'[k].loc = rows[k].loc /\ rows'[k].lsn = lsn[t] /\ Committed(rows'[k])
          /\ ~(lsn[t] <= ckpt.start)
      <4>1. lsn[t] > ckpt.start /\ ckpt.start \in Nat /\ lsn[t] \in Nat
        BY <1>1, <2>1, <2>2, <2>5 DEF TypeInv, CkptTyped, TxnsTyped
      <4>. QED BY <1>5, <2>5, <4>1, NobodyAssumption DEF Row, Committed
    <3>2. PlaceRight(k) => PlaceRight(k)'
      BY <1>1, <3>1 DEF PlaceRight
    <3>3. CopyRight(k) => CopyRight(k)'
      BY <1>1, <3>1 DEF CopyRight
    <3>. QED BY <2>2, <2>3, <3>2, <3>3
  <2>6. CASE k \in KeysOf(t) /\ Changes[t][k] = "erase"
    <3>1. rows'[k] = NoRow /\ ValueIn(order, k, Len(order)) = NoTxn
      BY <1>5, <2>6, NoRowIs
    <3>2. Was(order, k, ckpt.start, NoTxn)
      <4>1. last_write = Len(order)
        BY <1>1 DEF LogInv, FilesInv, Current
      <4>2. ckpt.start \in Nat /\ ckpt.start <= last_write
        BY <2>1 DEF TypeInv, CkptTyped
      <4>3. Len(order) \in ckpt.start .. Len(order)
        BY <1>1, <4>1, <4>2
      <4>. QED BY <3>1, <4>3 DEF Was
    <3>3. PlaceRight(k)'
      BY <1>1, <3>1, <3>2, NoRowIs DEF PlaceRight
    <3>4. CopyRight(k) => CopyRight(k)'
      BY <1>1, <3>1, <3>2, NoRowIs DEF CopyRight
    <3>. QED BY <2>2, <2>3, <3>3, <3>4
  <2>. QED BY <2>4, <2>5, <2>6
<1>. QED BY <1>7, <1>8, <1>10, <1>11, <1>12, <1>13 DEF History, RowRight, ShownRight

-----------------------------------------------------------------------------
\* A checkpoint keeps the invariant

\* The rows and the current checkpoints are what they were.
LEMMA RowsStay ==
    ASSUME NEW k \in Keys, KindRight(k), RowRight(k), MetaRight(k),
           UNCHANGED <<phase, rows, order, lsn, kind, pc, ckpt_history, meta, image>>
    PROVE  KindRight(k)' /\ RowRight(k)' /\ MetaRight(k)'
<1>1. KindRight(k)' /\ MetaRight(k)'
  BY DEF KindRight, MetaRight, StartOf
<1>2. RowRight(k)'
  BY DEF RowRight, RowCurrent, RowPlaced, Settled
<1>. QED BY <1>1, <1>2

\* A checkpoint that has not taken up a container has passed no row.
LEMMA HistoryStart ==
    ASSUME TypeInv, NEW k \in Keys, History(k), CkptStart
    PROVE  History(k)'
<1>1. /\ UNCHANGED <<phase, rows, freed, order, lsn, kind, pc, ckpt_history, meta, image>>
      /\ ckpt.at = "off" /\ ckpt'.at = "next"
  BY DEF CkptStart, memory, disk, txns, Idle
<1>2. KindRight(k)' /\ RowRight(k)' /\ MetaRight(k)'
  BY <1>1, RowsStay DEF History, ShownRight
<1>3. NoLeak(k)'
  BY <1>1 DEF History, ShownRight, NoLeak, UsedBy, FreeOf, On, Limbo, Writing
<1>4. Frozen(k)' /\ Passed(k)'
  BY <1>1 DEF Frozen, Passed, Writing
<1>. QED BY <1>2, <1>3, <1>4 DEF History, ShownRight

\* Nor has one that just did.
LEMMA HistoryContainer ==
    ASSUME TypeInv, SpaceInv, NEW k \in Keys, History(k), NEW d \in Containers, CkptContainer(d)
    PROVE  History(k)'
<1>1. /\ UNCHANGED <<phase, rows, freed, order, lsn, kind, pc, ckpt_history, meta, image>>
      /\ ckpt.at = "next" /\ ckpt.free = {} /\ ckpt \in Ckpts
  BY DEF CkptContainer, memory, disk, txns, SpaceInv, FreeHeld, TypeInv, CkptTyped
<1>2. /\ ckpt'.at \in {"off", "next", "scan"} /\ ckpt'.free = {}
      /\ ckpt'.at = "scan" => /\ ckpt'.c = d /\ ckpt'.used = meta[d].used
                              /\ ckpt'.keys = {j \in Keys : Holder[j] = d}
  <2>1. CASE last_write > ckpt_history[d]
    <3>1. ckpt' = [ckpt EXCEPT !.at = "scan", !.c = d, !.start = last_write,
                        !.keys = {j \in Keys : Holder[j] = d}, !.used = meta[d].used]
      BY <2>1 DEF CkptContainer
    <3>. QED BY <1>1, <3>1 DEF Ckpts
  <2>2. CASE ~(last_write > ckpt_history[d])
    <3>1. ckpt' = Continue(ckpt.todo \ {d}) /\ ckpt.todo \ {d} \in SUBSET Containers
      BY <1>1, <2>2, CkptsHave DEF CkptContainer
    <3>2. ckpt'.at \in {"off", "next"} /\ ckpt'.free = {}
      BY <3>1, ContinueIs
    <3>. QED BY <3>2
  <2>. QED BY <2>1, <2>2
<1>3. KindRight(k)' /\ RowRight(k)' /\ MetaRight(k)'
  BY <1>1, RowsStay DEF History, ShownRight
<1>4. NoLeak(k)'
  BY <1>1, <1>2 DEF History, ShownRight, NoLeak, UsedBy, FreeOf, On, Limbo, Writing
<1>5. Frozen(k)' /\ Passed(k)'
  BY <1>1, <1>2 DEF Frozen, Passed, Writing
<1>. QED BY <1>3, <1>4, <1>5 DEF History, ShownRight

\* A row that is not missed has a value that it had after the start of the checkpoint.
LEMMA NotMissedIs ==
    ASSUME TypeInv, TxnInv, LogInv, NEW k \in Keys, RowCurrent(k), phase = "open",
           ckpt.at = "scan", ~Missed(rows[k])
    PROVE  /\ \A t \in Txns : pc[t] = "logged" /\ k \in KeysOf(t) => lsn[t] > ckpt.start
           /\ Was(order, k, ckpt.start, rows[k].val)
<1>1. /\ ckpt.start \in Nat /\ ckpt.start <= Len(order) /\ order \in Seq(Txns)
      /\ lsn \in [Txns -> Nat]
  BY DEF TypeInv, CkptTyped, TxnsTyped, Writing, LogInv, FilesInv, Current, TxnInv, OrderInv
<1>2. ASSUME NEW t \in Txns, pc[t] = "logged", k \in KeysOf(t)
      PROVE  lsn[t] > ckpt.start
  <2>1. rows[k].locker = t
    BY <1>2 DEF TxnInv, LockInv, Live
  <2>2. ~(lsn[t] <= ckpt.start)
    BY <1>2, <2>1, NobodyAssumption DEF Missed
  <2>. QED BY <1>1, <2>2
<1>3. Was(order, k, ckpt.start, rows[k].val)
  <2>1. CASE Settled(k)
    <3>1. rows[k].val = ValueIn(order, k, Len(order)) /\ Len(order) \in ckpt.start .. Len(order)
      BY <1>1, <2>1 DEF RowCurrent
    <3>. QED BY <3>1 DEF Was
  <2>2. CASE ~Settled(k)
    <3>1. PICK t \in Txns : pc[t] = "logged" /\ k \in KeysOf(t)
      BY <2>2 DEF Settled
    <3>2. rows[k].val = ValueIn(order, k, lsn[t] - 1)
      BY <3>1 DEF RowCurrent
    <3>3. lsn[t] > ckpt.start /\ lsn[t] \in 1 .. Len(order)
      BY <1>2, <3>1 DEF TxnInv, OrderInv
    <3>4. lsn[t] - 1 \in ckpt.start .. Len(order)
      BY <1>1, <3>3
    <3>. QED BY <3>2, <3>4 DEF Was
  <2>. QED BY <2>1, <2>2
<1>. QED BY <1>2, <1>3

\* What a file shows depends on the places that are given, and on no others.
LEMMA DepictsSame ==
    ASSUME NEW f, NEW g, NEW used, \A l \in used : g[l] = f[l], NEW k, NEW from, NEW o,
           Depicts(f, used, k, from, o)
    PROVE  Depicts(g, used, k, from, o)
BY DEF Depicts, Only, Shows

\* The row is copied as it is, or is where it was before as it is.
LEMMA HistoryCopy ==
    ASSUME TypeInv, SpaceInv, TxnInv, LogInv, NEW k \in Keys, History(k), CkptCopy,
           k \notin exposed'
    PROVE  History(k)'
<1>0. PICK d, j, new : d = ckpt.c /\ j = Min(ckpt.keys) /\ new = FreePlace(ckpt.used)
  OBVIOUS
<1>1. /\ ckpt \in Ckpts /\ ckpt.at = "scan" /\ phase = "open"
      /\ UNCHANGED <<phase, rows, freed, order, lsn, kind, pc, ckpt_history, meta>>
      /\ d \in Containers /\ ckpt.used \subseteq Locations \cap DOMAIN image[d]
      /\ ckpt.used # Locations /\ ckpt.keys # {} /\ meta[d].used \subseteq ckpt.used
      /\ DOMAIN image = Containers /\ rows[k] \in RowType
  BY <1>0 DEF CkptCopy, memory, txns, TypeInv, CkptTyped, TakenInv, RegionTyped, Writing
<1>2. j \in ckpt.keys /\ j \in Keys /\ Holder[j] = d
  BY <1>0, <1>1, NextKeyIs DEF SpaceInv, FreeHeld, Writing
<1>3. new \in Locations \ ckpt.used
  BY <1>0, <1>1, FreePlaceIsFree
<1>4. PICK c \in Containers : c = Holder[k]
  BY KeysAssumption
<1>5. ~Limbo(k) /\ UsedBy(d) = ckpt.used /\ FreeOf(d) = ckpt.free
  BY <1>0, <1>1 DEF Limbo, UsedBy, FreeOf, On, Writing
<1>6. KindRight(k)' /\ RowCurrent(k)'
  BY <1>1 DEF History, KindRight, RowRight, RowCurrent, Settled
<1>7. k = j => /\ \A t \in Txns : pc[t] = "logged" /\ k \in KeysOf(t) => lsn[t] > ckpt.start
               /\ Was(order, k, ckpt.start, rows[k].val)
  <2>1. k = j => ~Missed(rows[k])
    BY <1>0 DEF CkptCopy
  <2>. QED BY <1>1, <2>1, NotMissedIs DEF History, RowRight
<1>8. rows[k].loc # NoLoc => rows[k].loc \in UsedBy(c)
  BY <1>4 DEF SpaceInv, RowsHeld
<1>9. d = c /\ k \notin ckpt.keys =>
        /\ \A t \in Txns : pc[t] = "logged" /\ k \in KeysOf(t) => lsn[t] > ckpt.start
        /\ PlaceRight(k)
  BY <1>0, <1>1, <1>4, <1>5 DEF History, ShownRight, Passed, Writing
<1>10. CASE IsDue(rows[j], d)
  <2>1. /\ image' = [image EXCEPT ![d] = Overlaid(@, new, ImageOf(j))]
        /\ ckpt' = [ckpt EXCEPT !.at = "copied", !.keys = @ \ {j}, !.key = j,
                                !.prev = rows[j].loc, !.new = new, !.used = @ \cup {new}]
    BY <1>0, <1>10 DEF CkptCopy
  <2>2. /\ ckpt'.at = "copied" /\ ckpt'.c = d /\ ckpt'.keys = ckpt.keys \ {j} /\ ckpt'.key = j
        /\ ckpt'.prev = rows[j].loc /\ ckpt'.new = new /\ ckpt'.used = ckpt.used \cup {new}
        /\ ckpt'.free = ckpt.free /\ ckpt'.start = ckpt.start
    BY <1>0, <1>1, <2>1 DEF Ckpts
  <2>3. /\ \A e \in Containers \ {d} : image'[e] = image[e]
        /\ image'[d][new].key = j /\ image'[d][new].val = rows[j].val
        /\ \A l \in ckpt.used : image'[d][l] = image[d][l]
    <3>1. ImageOf(j).key = j /\ ImageOf(j).val = rows[j].val
      BY DEF ImageOf
    <3>2. \A l \in DOMAIN image[d] \cup {new} :
            image'[d][l] = IF l = new THEN ImageOf(j) ELSE image[d][l]
      BY <1>1, <2>1 DEF Overlaid
    <3>. HIDE DEF ImageOf
    <3>. QED BY <1>1, <1>3, <2>1, <3>1, <3>2
  <2>4. /\ UsedBy(d)' = ckpt.used \cup {new} /\ FreeOf(d)' = ckpt.free
        /\ \A e \in Containers \ {d} : UsedBy(e)' = UsedBy(e) /\ FreeOf(e)' = FreeOf(e)
    BY <1>0, <1>1, <2>2 DEF UsedBy, FreeOf, On, Writing
  <2>5. \A l \in UsedBy(c) : image'[c][l] = image[c][l]
    BY <1>5, <2>3
  <2>6. RowPlaced(k)'
    BY <1>1, <1>4, <1>8, <2>5 DEF History, RowRight, RowPlaced
  <2>7. MetaRight(k)'
    <3>1. meta[c].used \subseteq UsedBy(c)
      BY <1>0, <1>1, <1>5 DEF UsedBy, On
    <3>2. \A l \in meta[c].used : image'[c][l] = image[c][l]
      BY <2>5, <3>1
    <3>3. Depicts(image[c], meta[c].used, k, StartOf(c), order)
      BY <1>4 DEF History, ShownRight, MetaRight
    <3>4. Depicts(image'[c], meta[c].used, k, StartOf(c), order)
      BY <3>2, <3>3, DepictsSame
    <3>. QED BY <1>1, <1>4, <3>4 DEF MetaRight, StartOf
  <2>8. NoLeak(k)'
    <3>1. SUFFICES ASSUME NEW l \in UsedBy(c)', l \notin FreeOf(c)', l \notin freed[c],
                          image'[c][l].key = k
                   PROVE  l = rows[k].loc \/ (Limbo(k)' /\ l = new)
      BY <1>1, <1>4, <2>2 DEF NoLeak
    <3>2. CASE l \in UsedBy(c)
      <4>1. l \notin FreeOf(c) /\ image[c][l].key = k
        BY <1>5, <2>4, <2>5, <3>1, <3>2
      <4>. QED BY <1>1, <1>4, <1>5, <3>1, <3>2, <4>1 DEF History, ShownRight, NoLeak
    <3>3. CASE l \notin UsedBy(c)
      <4>1. c = d /\ l = new
        BY <1>5, <2>4, <3>1, <3>3
      <4>. QED BY <2>2, <2>3, <3>1, <4>1 DEF Limbo
    <3>. QED BY <3>2, <3>3
  <2>9. Frozen(k)'
    BY <2>2 DEF Frozen
  <2>10. Passed(k)'
    <3>1. SUFFICES ASSUME d = c, k \notin ckpt.keys \ {j}
                   PROVE  /\ \A t \in Txns : pc[t] = "logged" /\ k \in KeysOf(t) => lsn[t] > ckpt.start
                          /\ Limbo(k)' => CopyRight(k)'
                          /\ ~Limbo(k)' => PlaceRight(k)'
      BY <1>1, <1>4, <2>2 DEF Passed
    <3>2. CASE k = j
      <4>1. Limbo(k)'
        BY <2>2, <3>2 DEF Limbo
      <4>2. CopyRight(k)'
        BY <1>1, <1>4, <1>7, <1>10, <2>2, <2>3, <3>1, <3>2 DEF CopyRight, IsDue
      <4>. QED BY <1>7, <3>2, <4>1, <4>2
    <3>3. CASE k # j
      <4>1. ~Limbo(k)' /\ PlaceRight(k) /\ k \notin ckpt.keys
        BY <1>9, <2>2, <3>1, <3>3 DEF Limbo
      <4>2. PlaceRight(k)'
        BY <1>1, <1>4, <1>8, <2>2, <2>5, <4>1 DEF PlaceRight
      <4>. QED BY <1>9, <3>1, <4>1, <4>2
    <3>. QED BY <3>2, <3>3
  <2>. QED BY <1>6, <2>6, <2>7, <2>8, <2>9, <2>10 DEF History, RowRight, ShownRight
<1>11. CASE ~IsDue(rows[j], d)
  <2>1. ckpt' = [ckpt EXCEPT !.keys = @ \ {j}] /\ UNCHANGED image
    BY <1>0, <1>11 DEF CkptCopy
  <2>2. /\ ckpt'.at = "scan" /\ ckpt'.c = d /\ ckpt'.keys = ckpt.keys \ {j}
        /\ ckpt'.used = ckpt.used /\ ckpt'.free = ckpt.free /\ ckpt'.start = ckpt.start
    BY <1>0, <1>1, <2>1 DEF Ckpts
  <2>3. \A e \in Containers : UsedBy(e)' = UsedBy(e) /\ FreeOf(e)' = FreeOf(e)
    BY <1>0, <1>1, <2>2 DEF UsedBy, FreeOf, On, Writing
  <2>4. RowRight(k)' /\ MetaRight(k)'
    BY <1>1, <2>1, RowsStay DEF History, ShownRight
  <2>5. NoLeak(k)'
    BY <1>1, <1>4, <1>5, <2>1, <2>3 DEF History, ShownRight, NoLeak
  <2>6. Frozen(k)' /\ ~Limbo(k)'
    BY <2>2 DEF Frozen, Limbo
  <2>7. Passed(k)'
    <3>1. SUFFICES ASSUME d = c, k \notin ckpt.keys \ {j}
                   PROVE  /\ \A t \in Txns : pc[t] = "logged" /\ k \in KeysOf(t) => lsn[t] > ckpt.start
                          /\ PlaceRight(k)'
      BY <1>1, <1>4, <2>2, <2>6 DEF Passed
    <3>2. CASE k = j
      <4>1. ckpt_history[c] \in Nat /\ rows[k].lsn \in Int
        BY <1>1 DEF TypeInv, RegionTyped, RowType, Lsns
      <4>2. Committed(rows[k]) => rows[k].lsn <= ckpt_history[c]
        BY <1>11, <3>1, <3>2, <4>1 DEF IsDue
      <4>3. /\ ~Committed(rows[k]) => rows[k].loc = NoLoc
            /\ Committed(rows[k]) => rows[k].loc # NoLoc /\ image[c][rows[k].loc].val = rows[k].val
        BY <1>1, <1>4, <4>2 DEF History, RowRight, RowPlaced
      <4>4. ~Committed(rows[k]) => rows[k].val = NoTxn
        BY DEF Committed
      <4>5. PlaceRight(k)'
        BY <1>1, <1>4, <1>7, <2>1, <2>2, <3>2, <4>3, <4>4 DEF PlaceRight
      <4>. QED BY <1>7, <3>2, <4>5
    <3>3. CASE k # j
      <4>1. PlaceRight(k) /\ k \notin ckpt.keys
        BY <1>9, <3>1, <3>3
      <4>2. PlaceRight(k)'
        BY <1>1, <2>1, <2>2, <4>1 DEF PlaceRight
      <4>. QED BY <1>9, <3>1, <4>1, <4>2
    <3>. QED BY <3>2, <3>3
  <2>. QED BY <1>6, <2>4, <2>5, <2>6, <2>7 DEF History, ShownRight
<1>. QED BY <1>10, <1>11

\* The row that was copied is placed, if it is still the same: or else it was erased.
LEMMA HistoryPlace ==
    ASSUME TypeInv, SpaceInv, TxnInv, LogInv, NEW k \in Keys, History(k), CkptPlace,
           k \notin exposed'
    PROVE  History(k)'
<1>0. PICK d, key, new, prev :
        d = ckpt.c /\ key = ckpt.key /\ new = ckpt.new /\ prev = ckpt.prev
  OBVIOUS
<1>. DEFINE same == Present(rows[ckpt.key]) /\ Offset(rows[ckpt.key].loc) = Offset(ckpt.prev)
<1>1. /\ ckpt \in Ckpts /\ ckpt.at = "copied" /\ phase = "open"
      /\ UNCHANGED <<phase, freed, order, lsn, kind, pc, ckpt_history, meta, image>>
      /\ d \in Containers /\ key \in Keys /\ new \in Locations /\ new # NoLoc
      /\ rows \in [Keys -> RowType] /\ rows[k] \in RowType
  BY <1>0, SizesAssumption DEF CkptPlace, disk, txns, TypeInv, CkptTyped, TakenInv, RegionTyped,
     Writing, NoLoc
<1>2. Holder[key] = d /\ key \notin ckpt.keys
  BY <1>0, <1>1 DEF SpaceInv, CopyHeld
<1>3. /\ rows' = IF same THEN [rows EXCEPT ![key].loc = new] ELSE rows
      /\ ckpt' = [ckpt EXCEPT !.at = "scan", !.free = @ \cup ({Superseded(same)} \ {NoLoc})]
      /\ same /\ ~Committed(rows[key]) => key \in exposed'
  BY <1>0 DEF CkptPlace
<1>4. Superseded(same) = IF same THEN prev ELSE new
  BY <1>0 DEF Superseded
<1>5. same <=> Present(rows[key]) /\ Offset(rows[key].loc) = Offset(prev)
  BY <1>0
<1>. HIDE DEF same
<1>6. /\ ckpt'.at = "scan" /\ ckpt'.c = d /\ ckpt'.keys = ckpt.keys /\ ckpt'.used = ckpt.used
      /\ ckpt'.free = ckpt.free \cup ({Superseded(same)} \ {NoLoc}) /\ ckpt'.start = ckpt.start
  BY <1>0, <1>1, <1>3 DEF Ckpts
<1>7. /\ UsedBy(d) = ckpt.used /\ UsedBy(d)' = ckpt.used
      /\ FreeOf(d) = ckpt.free /\ FreeOf(d)' = ckpt.free \cup ({Superseded(same)} \ {NoLoc})
      /\ \A e \in Containers \ {d} : UsedBy(e)' = UsedBy(e) /\ FreeOf(e)' = FreeOf(e)
  BY <1>0, <1>1, <1>6 DEF UsedBy, FreeOf, On, Writing
<1>8. /\ rows'[k].val = rows[k].val /\ rows'[k].lsn = rows[k].lsn
      /\ rows'[k].loc = IF same /\ k = key THEN new ELSE rows[k].loc
  BY <1>1, <1>3 DEF RowType
<1>9. KindRight(k)'
  BY <1>1, <1>8, KindKept DEF History
<1>10. RowCurrent(k)'
  BY <1>1, <1>8 DEF History, RowRight, RowCurrent, Settled
<1>11. MetaRight(k)' /\ Frozen(k)' /\ ~Limbo(k)'
  BY <1>1, <1>6 DEF History, ShownRight, MetaRight, StartOf, Frozen, Limbo
<1>12. CASE k # key
  <2>1. rows'[k].loc = rows[k].loc /\ ~Limbo(k)
    BY <1>0, <1>8, <1>12 DEF Limbo
  <2>2. RowPlaced(k)'
    BY <1>1, <1>8, <2>1 DEF History, RowRight, RowPlaced, Committed
  <2>3. NoLeak(k)'
    <3>1. PICK c \in Containers : c = Holder[k]
      BY KeysAssumption
    <3>2. UsedBy(c)' = UsedBy(c) /\ FreeOf(c) \subseteq FreeOf(c)'
      BY <1>7
    <3>. QED BY <1>1, <2>1, <3>1, <3>2 DEF History, ShownRight, NoLeak
  <2>4. PlaceRight(k) => PlaceRight(k)'
    BY <1>1, <1>6, <1>8, <2>1 DEF PlaceRight, Committed
  <2>5. Passed(k)'
    BY <1>0, <1>1, <1>6, <1>11, <2>1, <2>4 DEF History, ShownRight, Passed, Writing
  <2>. QED BY <1>9, <1>10, <1>11, <2>2, <2>3, <2>5 DEF History, RowRight, ShownRight
<1>13. CASE k = key
  <2>1. /\ \A t \in Txns : pc[t] = "logged" /\ k \in KeysOf(t) => lsn[t] > ckpt.start
        /\ CopyRight(k) /\ Limbo(k)
    BY <1>0, <1>1, <1>2, <1>13 DEF History, ShownRight, Passed, Limbo, Writing
  <2>2. /\ Was(order, k, ckpt.start, image[d][new].val)
        /\ \/ rows[k].loc = prev /\ Committed(rows[k])
           \/ rows[k].loc = NoLoc /\ Was(order, k, ckpt.start, NoTxn)
        /\ Committed(rows[k]) /\ rows[k].lsn <= ckpt.start =>
              rows[k].loc = prev /\ image[d][new].val = rows[k].val
    BY <1>0, <1>2, <1>13, <2>1 DEF CopyRight
  <2>3. \A l \in ckpt.used : l \notin ckpt.free /\ l \notin freed[d] /\ image[d][l].key = k
          => l = rows[k].loc \/ l = new
    BY <1>0, <1>1, <1>2, <1>7, <1>13 DEF History, ShownRight, NoLeak
  <2>4. NoLoc \notin ckpt.used
    BY <1>1, <1>7, UsedAreLocations
  <2>5. CASE same
    <3>1. Committed(rows[k]) /\ rows'[k].loc = new /\ Committed(rows'[k])
      BY <1>3, <1>8, <1>13, <2>5 DEF Committed
    <3>2. RowPlaced(k)'
      <4>1. ckpt_history[d] <= ckpt.start /\ ckpt_history[d] \in Nat /\ ckpt.start \in Nat
            /\ rows[k].lsn \in Int
        BY <1>0, <1>1 DEF LogInv, Starts, Writing, TypeInv, RegionTyped, CkptTyped, RowType, Lsns
      <4>2. rows[k].lsn <= ckpt_history[d] => rows[k].lsn <= ckpt.start
        BY <4>1
      <4>. QED BY <1>1, <1>2, <1>8, <1>13, <2>2, <3>1, <4>2 DEF RowPlaced
    <3>3. NoLeak(k)'
      <4>1. SUFFICES ASSUME NEW l \in ckpt.used, l \notin FreeOf(d)', l \notin freed[d],
                            image[d][l].key = k
                     PROVE  l = new
        BY <1>1, <1>2, <1>7, <1>13, <3>1 DEF NoLeak
      <4>2. l = rows[k].loc \/ l = new
        BY <1>7, <2>3, <4>1
      <4>3. l # NoLoc /\ (prev # NoLoc => l # prev)
        BY <1>4, <1>7, <2>4, <2>5, <4>1
      <4>. QED BY <2>2, <4>2, <4>3
    <3>4. PlaceRight(k)'
      BY <1>1, <1>2, <1>6, <1>8, <1>13, <2>2, <3>1 DEF PlaceRight
    <3>5. Passed(k)'
      BY <1>1, <1>6, <1>11, <2>1, <3>4 DEF Passed
    <3>. QED BY <1>9, <1>10, <1>11, <3>2, <3>3, <3>5 DEF History, RowRight, ShownRight
  <2>6. CASE ~same
    <3>1. rows'[k].loc = rows[k].loc
      BY <1>8, <2>6
    <3>2. ~(rows[k].loc = prev /\ Committed(rows[k]))
      BY <1>5, <1>13, <2>6 DEF Present
    <3>3. RowPlaced(k)'
      BY <1>1, <1>8, <3>1 DEF History, RowRight, RowPlaced, Committed
    <3>4. NoLeak(k)'
      <4>1. SUFFICES ASSUME NEW l \in ckpt.used, l \notin FreeOf(d)', l \notin freed[d],
                            image[d][l].key = k
                     PROVE  l = rows[k].loc
        BY <1>1, <1>2, <1>7, <1>13, <3>1 DEF NoLeak
      <4>2. l # new
        BY <1>1, <1>4, <1>7, <2>6, <4>1
      <4>. QED BY <1>7, <2>3, <4>1, <4>2
    <3>5. PlaceRight(k)'
      BY <1>1, <1>2, <1>6, <1>8, <1>13, <2>2, <3>1, <3>2 DEF PlaceRight, Committed
    <3>6. Passed(k)'
      BY <1>1, <1>6, <1>11, <2>1, <3>5 DEF Passed
    <3>. QED BY <1>9, <1>10, <1>11, <3>3, <3>4, <3>6 DEF History, RowRight, ShownRight
  <2>. QED BY <2>5, <2>6
<1>. QED BY <1>12, <1>13

\* When all rows of the container are passed, what is taken and not free shows them.
LEMMA HistoryTakeFreed ==
    ASSUME TypeInv, SpaceInv, NEW k \in Keys, History(k), CkptTakeFreed
    PROVE  History(k)'
<1>0. PICK d : d = ckpt.c
  OBVIOUS
<1>1. /\ ckpt \in Ckpts /\ ckpt.at = "scan" /\ d \in Containers /\ ckpt.keys = {}
      /\ phase = "open"
      /\ UNCHANGED <<phase, rows, order, lsn, kind, pc, ckpt_history, meta, image>>
      /\ freed' = [freed EXCEPT ![d] = {}] /\ freed \in [Containers -> SUBSET Locations]
      /\ ckpt' = [ckpt EXCEPT !.at = "saved", !.free = @ \cup freed[d]]
  BY <1>0 DEF CkptTakeFreed, TakenOver, TypeInv, CkptTyped, RegionTyped, TakenInv, Writing, disk,
     txns
<1>2. /\ ckpt'.at = "saved" /\ ckpt'.c = d /\ ckpt'.keys = {} /\ ckpt'.used = ckpt.used
      /\ ckpt'.free = ckpt.free \cup freed[d] /\ ckpt'.start = ckpt.start
  BY <1>0, <1>1 DEF Ckpts
<1>3. /\ UsedBy(d) = ckpt.used /\ UsedBy(d)' = ckpt.used
      /\ FreeOf(d) = ckpt.free /\ FreeOf(d)' = ckpt.free \cup freed[d]
      /\ \A c \in Containers \ {d} : UsedBy(c)' = UsedBy(c) /\ FreeOf(c)' = FreeOf(c)
      /\ freed'[d] = {} /\ \A c \in Containers \ {d} : freed'[c] = freed[c]
  BY <1>0, <1>1, <1>2 DEF UsedBy, FreeOf, On, Writing
<1>4. PICK c \in Containers : c = Holder[k]
  BY KeysAssumption
<1>5. KindRight(k)' /\ RowRight(k)' /\ MetaRight(k)'
  BY <1>1, RowsStay DEF History, ShownRight
<1>6. ~Limbo(k) /\ ~Limbo(k)'
  BY <1>1, <1>2 DEF Limbo
<1>7. \A l \in UsedBy(c) : l \notin FreeOf(c) /\ l \notin freed[c] /\ image[c][l].key = k
        => l = rows[k].loc
  BY <1>1, <1>4, <1>6 DEF History, ShownRight, NoLeak
<1>8. NoLeak(k)'
  <2>1. UsedBy(c)' = UsedBy(c)
        /\ \A l : l \notin FreeOf(c)' /\ l \notin freed'[c] <=> l \notin FreeOf(c) /\ l \notin freed[c]
    BY <1>3
  <2>. QED BY <1>1, <1>4, <1>7, <2>1 DEF NoLeak
<1>9. d = c => /\ \A t \in Txns : pc[t] = "logged" /\ k \in KeysOf(t) => lsn[t] > ckpt.start
               /\ PlaceRight(k)
  BY <1>0, <1>1, <1>4, <1>6 DEF History, ShownRight, Passed, Writing
<1>10. Passed(k)'
  <2>1. PlaceRight(k) => PlaceRight(k)'
    BY <1>1, <1>2 DEF PlaceRight
  <2>. QED BY <1>1, <1>2, <1>4, <1>6, <1>9, <2>1 DEF Passed
<1>11. Frozen(k)'
  <2>1. SUFFICES ASSUME d = c, NEW used, used = ckpt.used \ (ckpt.free \cup freed[d])
                 PROVE  Depicts(image[c], used, k, ckpt.start, order)
    BY <1>1, <1>2, <1>4 DEF Frozen
  <2>2. \A l \in used : image[c][l].key = k => l = rows[k].loc
    BY <1>3, <1>7, <2>1
  <2>3. rows[k].loc # NoLoc => rows[k].loc \in used /\ image[c][rows[k].loc].key = k
    BY <1>3, <1>4, <2>1 DEF SpaceInv, RowsHeld
  <2>4. Only(image[c], used, k)
    BY <2>2 DEF Only
  <2>5. CASE rows[k].loc = NoLoc
    <3>1. \A l \in used : l # NoLoc
      BY <1>3, <2>1, UsedAreLocations
    <3>2. Shows(image[c], used, k, NoTxn)
      BY <2>2, <2>5, <3>1 DEF Shows
    <3>3. Was(order, k, ckpt.start, NoTxn)
      BY <1>9, <2>1, <2>5 DEF PlaceRight
    <3>. QED BY <2>4, <3>2, <3>3 DEF Depicts
  <2>6. CASE rows[k].loc # NoLoc
    <3>1. Shows(image[c], used, k, image[c][rows[k].loc].val)
      BY <2>3, <2>6 DEF Shows
    <3>2. Was(order, k, ckpt.start, image[c][rows[k].loc].val)
      BY <1>4, <1>9, <2>1, <2>6 DEF PlaceRight
    <3>. QED BY <2>4, <3>1, <3>2 DEF Depicts
  <2>. QED BY <2>5, <2>6
<1>. QED BY <1>5, <1>8, <1>10, <1>11 DEF History, ShownRight

\* What the next checkpoint may leave out is what this one shows.
LEMMA HistoryNote ==
    ASSUME TypeInv, SpaceInv, NEW k \in Keys, History(k), CkptNote
    PROVE  History(k)'
<1>0. PICK d : d = ckpt.c
  OBVIOUS
<1>1. /\ ckpt \in Ckpts /\ ckpt.at = "saved" /\ phase = "open" /\ d \in Containers
      /\ UNCHANGED <<phase, rows, freed, order, lsn, kind, pc, meta, image>>
      /\ ckpt_history' = [ckpt_history EXCEPT ![d] = ckpt.start]
      /\ ckpt_history \in [Containers -> Nat] /\ ckpt.keys = {}
      /\ ckpt' = [ckpt EXCEPT !.at = "noted", !.end = last_write]
  BY <1>0 DEF CkptNote, TypeInv, CkptTyped, RegionTyped, TakenInv, SpaceInv, FreeHeld, Writing,
     disk, txns
<1>2. /\ ckpt'.at = "noted" /\ ckpt'.c = ckpt.c /\ ckpt'.keys = ckpt.keys
      /\ ckpt'.used = ckpt.used /\ ckpt'.free = ckpt.free /\ ckpt'.start = ckpt.start
  BY <1>1 DEF Ckpts
<1>3. PICK c \in Containers : c = Holder[k]
  BY KeysAssumption
<1>4. KindRight(k)' /\ MetaRight(k)'
  BY <1>1 DEF History, ShownRight, KindRight, MetaRight, StartOf
<1>5. ~Limbo(k) /\ ~Limbo(k)'
  BY <1>1, <1>2 DEF Limbo
<1>6. NoLeak(k)' /\ Frozen(k)'
  BY <1>1, <1>2, <1>5 DEF History, ShownRight, NoLeak, Frozen, UsedBy, FreeOf, On, Writing
<1>7. d = c => /\ \A t \in Txns : pc[t] = "logged" /\ k \in KeysOf(t) => lsn[t] > ckpt.start
               /\ PlaceRight(k)
  BY <1>0, <1>1, <1>3, <1>5 DEF History, ShownRight, Passed, Writing
<1>8. Passed(k)'
  <2>1. PlaceRight(k) => PlaceRight(k)'
    BY <1>1, <1>2 DEF PlaceRight
  <2>. QED BY <1>0, <1>1, <1>2, <1>3, <1>5, <1>7, <2>1 DEF Passed
<1>9. ckpt_history'[c] = IF d = c THEN ckpt.start ELSE ckpt_history[c]
  BY <1>1
<1>10. RowCurrent(k)'
  <2>1. /\ Settled(k) => rows[k].val = ValueIn(order, k, Len(order))
        /\ \A t \in Txns : pc[t] = "logged" /\ k \in KeysOf(t) =>
              /\ rows[k].val = ValueIn(order, k, lsn[t] - 1)
              /\ \A i \in lsn[t] + 1 .. Len(order) : k \notin KeysOf(order[i])
              /\ lsn[t] > ckpt_history[c]
    BY <1>1, <1>3 DEF History, RowRight, RowCurrent
  <2>2. Settled(k)' <=> Settled(k)
    BY <1>1 DEF Settled
  <2>3. \A t \in Txns : pc[t] = "logged" /\ k \in KeysOf(t) => lsn[t] > ckpt_history'[c]
    BY <1>7, <1>9, <2>1
  <2>. QED BY <1>1, <1>3, <2>1, <2>2, <2>3 DEF RowCurrent
<1>11. RowPlaced(k)'
  <2>1. /\ ~Committed(rows[k]) => rows[k].loc = NoLoc
        /\ Committed(rows[k]) /\ rows[k].lsn <= ckpt_history[c] =>
              rows[k].loc # NoLoc /\ image[c][rows[k].loc].val = rows[k].val
    BY <1>1, <1>3 DEF History, RowRight, RowPlaced
  <2>2. d = c => (Committed(rows[k]) /\ rows[k].lsn <= ckpt.start =>
                    rows[k].loc # NoLoc /\ image[c][rows[k].loc].val = rows[k].val)
    BY <1>3, <1>7 DEF PlaceRight
  <2>. QED BY <1>1, <1>3, <1>9, <2>1, <2>2 DEF RowPlaced
<1>. QED BY <1>4, <1>6, <1>8, <1>10, <1>11 DEF History, RowRight, ShownRight

\* The new metafile shows what the checkpoint did.
LEMMA HistoryCommit ==
    ASSUME TypeInv, NEW k \in Keys, History(k), CkptCommit
    PROVE  History(k)'
<1>0. PICK d : d = ckpt.c
  OBVIOUS
<1>1. /\ ckpt \in Ckpts /\ ckpt.at = "noted" /\ d \in Containers /\ phase = "open"
      /\ UNCHANGED <<phase, rows, freed, order, lsn, kind, pc, ckpt_history, image>>
      /\ DOMAIN meta = Containers
      /\ meta' = [meta EXCEPT ![d] =
            [start |-> ckpt.start, end |-> ckpt.end, used |-> ckpt.used \ ckpt.free]]
      /\ ckpt' = Continue(ckpt.todo \ {d}) /\ ckpt.start \in Nat
  BY <1>0 DEF CkptCommit, memory, txns, TypeInv, CkptTyped, TakenInv, Writing
<1>2. ckpt'.at \in {"off", "next"} /\ ckpt'.free = {}
  BY <1>1, CkptsHave, ContinueIs
<1>3. /\ meta'[d].used = ckpt.used \ ckpt.free /\ meta'[d].start = ckpt.start
      /\ \A c \in Containers \ {d} : meta'[c] = meta[c]
  BY <1>1
<1>4. /\ UsedBy(d) = ckpt.used /\ UsedBy(d)' = ckpt.used \ ckpt.free
      /\ FreeOf(d) = ckpt.free /\ FreeOf(d)' = {}
      /\ \A c \in Containers \ {d} : UsedBy(c)' = UsedBy(c) /\ FreeOf(c)' = FreeOf(c)
  BY <1>0, <1>1, <1>2, <1>3 DEF UsedBy, FreeOf, On, Writing
<1>5. PICK c \in Containers : c = Holder[k]
  BY KeysAssumption
<1>6. KindRight(k)' /\ RowRight(k)'
  BY <1>1 DEF History, KindRight, RowRight, RowCurrent, RowPlaced, Settled
<1>7. MetaRight(k)'
  <2>1. CASE c = d
    <3>1. Depicts(image[c], ckpt.used \ ckpt.free, k, ckpt.start, order)
      BY <1>0, <1>1, <1>5, <2>1 DEF History, ShownRight, Frozen
    <3>2. StartOf(c)' = ckpt.start
      BY <1>1, <1>3, <2>1 DEF StartOf, NoMeta
    <3>. QED BY <1>1, <1>3, <1>5, <2>1, <3>1, <3>2 DEF MetaRight
  <2>2. CASE c # d
    <3>1. meta'[c] = meta[c] /\ StartOf(c)' = StartOf(c)
      BY <1>3, <2>2 DEF StartOf
    <3>. QED BY <1>1, <1>5, <3>1 DEF History, ShownRight, MetaRight
  <2>. QED BY <2>1, <2>2
<1>8. NoLeak(k)'
  <2>1. ~Limbo(k)
    BY <1>1 DEF Limbo
  <2>2. \A l \in UsedBy(c) : l \notin FreeOf(c) /\ l \notin freed[c] /\ image[c][l].key = k
          => l = rows[k].loc
    BY <1>1, <1>5, <2>1 DEF History, ShownRight, NoLeak
  <2>3. \A l \in UsedBy(c)' : l \in UsedBy(c) /\ (l \notin FreeOf(c)' => l \notin FreeOf(c))
    BY <1>4
  <2>. QED BY <1>1, <1>5, <2>2, <2>3 DEF NoLeak
<1>9. Frozen(k)' /\ Passed(k)'
  BY <1>2 DEF Frozen, Passed, Writing
<1>. QED BY <1>6, <1>7, <1>8, <1>9 DEF History, ShownRight
-----------------------------------------------------------------------------
\* Crashes and recovery keep the invariant

\* After a crash there are no rows: the checkpoints show what they did.
LEMMA HistoryCrash ==
    ASSUME TypeInv, TxnInv, NEW k \in Keys, History(k), Crash
    PROVE  History(k)'
<1>1. /\ phase = "open" /\ phase' = "down" /\ ckpt' = Idle /\ UNCHANGED <<kind, meta, image>>
      /\ \A t \in Txns : pc'[t] \notin {"pending", "logging"}
      /\ order' = order \/ (writer # NoTxn /\ order' = Append(order, writer))
  BY DEF Crash
<1>2. KindRight(k)'
  <2>1. CASE order' = order
    BY <1>1, <2>1, KindKept DEF History
  <2>2. CASE writer # NoTxn /\ order' = Append(order, writer)
    <3>1. writer \in Txns /\ pc[writer] = "logging"
      BY <2>2, WriterIs
    <3>. QED BY <1>1, <2>2, <3>1, KindGrows DEF History, RowRight
  <2>. QED BY <1>1, <2>1, <2>2
<1>3. RowRight(k)'
  BY <1>1 DEF RowRight, RowCurrent, RowPlaced
<1>4. MetaRight(k)'
  BY <1>1, CrashLocks, ShownGrows DEF History, ShownRight
<1>5. NoLeak(k)' /\ Frozen(k)' /\ Passed(k)'
  BY <1>1 DEF NoLeak, Frozen, Passed, Idle, Writing
<1>. QED BY <1>2, <1>3, <1>4, <1>5 DEF History, ShownRight

\* Redo has brought the row up to a place of the log, where nobody has changed it behind
\* its LSN, or it is as it was loaded, with what it got up to there or behind.
BroughtTo(row, k, q) ==
    \/ /\ row = Loaded(k)
       /\ \E p \in q .. Len(order) :
             p >= StartOf(Holder[k]) /\ row.val = ValueIn(order, k, p)
    \/ /\ row.val = ValueIn(order, k, q)
       /\ \/ row = Loaded(k) \/ ~Committed(row)
          \/ \A i \in row.lsn + 1 .. q : k \notin KeysOf(order[i])

\* The value that was loaded is one that the row had.
LEMMA LoadedWas ==
    ASSUME TypeInv, NEW k \in Keys, MetaRight(k)
    PROVE  Was(order, k, StartOf(Holder[k]), Loaded(k).val)
<1>1. PICK file, used : file = image[Holder[k]] /\ used = meta[Holder[k]].used
  OBVIOUS
<1>2. PICK v : Shows(file, used, k, v) /\ Was(order, k, StartOf(Holder[k]), v)
  BY <1>1 DEF MetaRight, Depicts
<1>3. Only(file, used, k)
  BY <1>1 DEF MetaRight, Depicts
<1>4. v = Loaded(k).val
  <2>1. CASE Loaded(k).loc = NoLoc
    <3>1. Loaded(k).val = NoTxn /\ ~ \E l \in used : file[l].key = k
      BY <1>1, <2>1, LoadedIs, NoRowIs
    <3>. QED BY <1>2, <3>1 DEF Shows
  <2>2. CASE Loaded(k).loc # NoLoc
    <3>1. PICK m \in used : file[m].key = k /\ Loaded(k).val = file[m].val
      BY <1>1, <2>2, LoadedIs
    <3>2. PICK l \in used : file[l].key = k /\ file[l].val = v
      BY <1>2, <3>1 DEF Shows
    <3>3. l = m
      BY <1>3, <3>1, <3>2 DEF Only
    <3>. QED BY <3>1, <3>2, <3>3
  <2>. QED BY <2>1, <2>2
<1>. QED BY <1>2, <1>4

\* So it is up to where redo starts.
LEMMA LoadedIsUp ==
    ASSUME TypeInv, NEW k \in Keys, MetaRight(k), NEW b \in Nat, b <= RedoStart
    PROVE  BroughtTo(Loaded(k), k, b)
<1>1. PICK p \in StartOf(Holder[k]) .. Len(order) : Loaded(k).val = ValueIn(order, k, p)
  BY LoadedWas DEF Was
<1>2. StartOf(Holder[k]) \in Nat /\ RedoStart \in Nat /\ RedoStart <= StartOf(Holder[k])
  BY RedoStartIs, KeysAssumption
<1>3. p \in b .. Len(order) /\ p >= StartOf(Holder[k])
  BY <1>1, <1>2
<1>. QED BY <1>1, <1>3 DEF BroughtTo

\* A record that does not name the row leaves it up to there.
LEMMA BroughtPast ==
    ASSUME order \in Seq(Txns), NEW k \in Keys, NEW row \in RowType, NEW q \in Nat, q < Len(order),
           BroughtTo(row, k, q), k \notin KeysOf(order[q + 1])
    PROVE  BroughtTo(row, k, q + 1)
<1>1. ValueIn(order, k, q + 1) = ValueIn(order, k, q)
  <2>1. q + 1 \in 0 .. Len(order) /\ q + 1 > 0 /\ (q + 1) - 1 = q
    OBVIOUS
  <2>. QED BY <2>1, ValueInIs
<1>2. ASSUME row = Loaded(k), NEW p \in q .. Len(order), p >= StartOf(Holder[k]),
             row.val = ValueIn(order, k, p)
      PROVE  BroughtTo(row, k, q + 1)
  <2>1. CASE p = q
    BY <1>1, <1>2, <2>1 DEF BroughtTo
  <2>2. CASE p # q
    <3>1. p \in q + 1 .. Len(order)
      BY <2>2
    <3>. QED BY <1>2, <3>1 DEF BroughtTo
  <2>. QED BY <2>1, <2>2
<1>3. ASSUME row.val = ValueIn(order, k, q),
             row = Loaded(k) \/ ~Committed(row)
               \/ \A i \in row.lsn + 1 .. q : k \notin KeysOf(order[i])
      PROVE  BroughtTo(row, k, q + 1)
  <2>1. row.lsn \in Int
    BY DEF RowType, Lsns
  <2>2. \A i \in row.lsn + 1 .. q + 1 : i \in row.lsn + 1 .. q \/ i = q + 1
    BY <2>1
  <2>. QED BY <1>1, <1>3, <2>2 DEF BroughtTo
<1>. QED BY <1>2, <1>3 DEF BroughtTo

\* One that does brings it there: an insert is ignored only when it was loaded with what
\* it got later.
LEMMA BroughtBy ==
    ASSUME TypeInv, order \in Seq(Txns), NEW k \in Keys, KindRight(k), NEW row \in RowType,
           row.locker = NoTxn, NEW q \in Nat, q < Len(order), BroughtTo(row, k, q),
           k \in KeysOf(order[q + 1]), NEW r \in Records, r.lsn = q + 1, r.txn = order[q + 1],
           r.ops = kind[order[q + 1]], k \in DOMAIN r.ops
    PROVE  BroughtTo(Redone(row, r, k), k, q + 1)
<1>0. PICK t \in Txns : t = order[q + 1]
  OBVIOUS
<1>1. q + 1 \in 0 .. Len(order) /\ q + 1 \in 1 .. Len(order) /\ q + 1 > 0 /\ (q + 1) - 1 = q
  OBVIOUS
<1>2. ValueIn(order, k, q + 1) = IF Changes[t][k] = "erase" THEN NoTxn ELSE t
  BY <1>0, <1>1, ValueInIs
<1>3. r.ops[k] = KindFor(t, k, ValueIn(order, k, q))
  BY <1>0, <1>1 DEF KindRight
<1>4. \A l : LET new == Row(t, q + 1, l) IN new.val = t /\ new.lsn = q + 1
  BY DEF Row
<1>5. ASSUME NEW l, Changes[t][k] # "erase"
      PROVE  BroughtTo(Row(t, q + 1, l), k, q + 1)
  <2>1. ~ \E i \in (q + 1) + 1 .. q + 1 : TRUE
    OBVIOUS
  <2>. QED BY <1>2, <1>4, <1>5, <2>1 DEF BroughtTo
<1>. HIDE DEF RowType, Records, Row
<1>6. CASE r.ops[k] = "erase"
  <2>1. Redone(row, r, k) = NoRow
    BY <1>6, RedoneIs
  <2>2. Changes[t][k] = "erase"
    BY <1>3, <1>6 DEF KindFor
  <2>. QED BY <1>2, <2>1, <2>2, NoRowIs DEF BroughtTo
<1>7. CASE r.ops[k] = "insert"
  <2>1. Changes[t][k] # "erase" /\ ValueIn(order, k, q) = NoTxn
    BY <1>3, <1>7 DEF KindFor
  <2>2. CASE ~Committed(row)
    <3>1. Redone(row, r, k) = Row(t, q + 1, NoLoc)
      BY <1>0, <1>7, <2>2, RedoneIs
    <3>. QED BY <1>5, <2>1, <3>1
  <2>3. CASE Committed(row)
    <3>1. Redone(row, r, k) = row
      BY <1>7, <2>3, RedoneIs
    <3>2. row.val # NoTxn
      BY <2>3 DEF Committed
    <3>3. PICK p \in q .. Len(order) : /\ row = Loaded(k) /\ p >= StartOf(Holder[k])
                                       /\ row.val = ValueIn(order, k, p)
      BY <2>1, <3>2 DEF BroughtTo
    <3>4. p \in q + 1 .. Len(order)
      BY <2>1, <3>2, <3>3
    <3>. QED BY <3>1, <3>3, <3>4 DEF BroughtTo
  <2>. QED BY <2>2, <2>3
<1>8. CASE r.ops[k] = "update"
  <2>1. Changes[t][k] # "erase"
    BY <1>3, <1>8 DEF KindFor
  <2>2. Redone(row, r, k) = Row(t, q + 1, row.loc)
    BY <1>0, <1>8, RedoneIs
  <2>. QED BY <1>5, <2>1, <2>2
<1>9. r.ops[k] \in {"erase", "insert", "update"}
  BY <1>3 DEF KindFor
<1>. QED BY <1>6, <1>7, <1>8, <1>9

\* One record after the other brings the row to the last of them.
LEMMA BroughtByAll ==
    ASSUME TypeInv, TxnInv, OpsAre, NEW k \in Keys, KindRight(k),
           NEW from \in Nat, NEW to \in from .. Len(order), NEW records,
           IsLogPart(records, from, to), NEW db, IsDb(db), BroughtTo(db.rows[k], k, from)
    PROVE  BroughtTo(RedoAll(db, records).rows[k], k, to)
<1>1. /\ records \in Seq(Records) /\ Len(records) \in Nat /\ Len(records) = to - from
      /\ \A i \in 1 .. Len(records) : /\ records[i] \in Records /\ records[i].lsn = from + i
                                      /\ records[i].txn = order[from + i]
                                      /\ records[i].ops = kind[order[from + i]]
  <2>. HIDE DEF Records
  <2>. QED BY DEF IsLogPart
<1>2. PICK len : len = Len(records)
  OBVIOUS
<1>3. PICK after : Redoes(after, db, records) /\ RedoAll(db, records) = after[len]
  BY <1>1, <1>2, RedoAllIs
<1>4. order \in Seq(Txns) /\ \A i \in 1 .. Len(order) : pc[order[i]] # "begin"
  BY DEF TxnInv, OrderInv
<1>. DEFINE T == {i \in 0 .. len : IsDb(after[i]) /\ BroughtTo(after[i].rows[k], k, from + i)}
<1>5. 0 \in T
  BY <1>1, <1>2, <1>3 DEF Redoes
<1>6. ASSUME NEW i \in 0 .. len, i \in T, i < len
      PROVE  i + 1 \in T
  <2>1. PICK r, q : r = records[i + 1] /\ q = from + i
    OBVIOUS
  <2>2. /\ i + 1 \in 1 .. len /\ (i + 1) - 1 = i /\ q \in Nat /\ q < Len(order)
        /\ from + (i + 1) = q + 1 /\ q + 1 \in 1 .. Len(order)
    BY <1>1, <1>2, <1>6, <2>1
  <2>3. r \in Records /\ r.lsn = q + 1 /\ r.txn = order[q + 1] /\ r.ops = kind[order[q + 1]]
    BY <1>1, <1>2, <2>1, <2>2
  <2>4. after[i + 1] = Redo(after[i], r) /\ IsDb(after[i]) /\ BroughtTo(after[i].rows[k], k, q)
    BY <1>2, <1>3, <1>6, <2>1, <2>2 DEF Redoes
  <2>5. IsDb(after[i + 1])
    BY <2>3, <2>4, RedoneIsDb
  <2>6. DOMAIN r.ops = KeysOf(order[q + 1])
    BY <1>4, <2>2, <2>3 DEF OpsAre
  <2>7. PICK row : row = after[i].rows[k] /\ row \in RowType /\ row.locker = NoTxn
    BY <2>4 DEF IsDb
  <2>8. after[i + 1].rows[k] = IF k \in DOMAIN r.ops THEN Redone(row, r, k) ELSE row
    BY <2>4, <2>7 DEF Redo
  <2>9. BroughtTo(after[i + 1].rows[k], k, q + 1)
    <3>. HIDE DEF RowType, Records
    <3>1. CASE k \in DOMAIN r.ops
      BY <1>4, <2>2, <2>3, <2>4, <2>6, <2>7, <2>8, <3>1, BroughtBy
    <3>2. CASE k \notin DOMAIN r.ops
      BY <1>4, <2>2, <2>4, <2>6, <2>7, <2>8, <3>2, BroughtPast
    <3>. QED BY <3>1, <3>2
  <2>10. BroughtTo(after[i + 1].rows[k], k, from + (i + 1))
    BY <2>2, <2>9
  <2>11. i + 1 \in 0 .. len
    BY <1>1, <1>2, <2>2
  <2>. QED BY <2>5, <2>10, <2>11
<1>. HIDE DEF T
<1>7. 0 .. len \subseteq T
  BY <1>1, <1>2, <1>5, <1>6, UpTo
<1>8. len \in T
  BY <1>1, <1>2, <1>7
<1>9. from + len = to
  BY <1>1, <1>2
<1>. QED BY <1>3, <1>8, <1>9 DEF T

\* Behind a file name recovery has a database with the row brought to the end of the last
\* file that was read.
BroughtBehind(n, db, k) ==
    /\ IsDb(db)
    /\ n < FirstFile(RedoStart) => db = Checkpoints
    /\ n >= FirstFile(RedoStart) =>
          \E m \in FilesRead : /\ m <= n /\ \A j \in FilesRead : j <= n => j <= m
                               /\ BroughtTo(db.rows[k], k, End(files, m))

\* The next file starts where the last one ended.
LEMMA NextFileIs ==
    ASSUME TypeInv, TxnInv, FilesInv, phase = "down", DOMAIN files # {}, ~LogsAreMissing,
           NEW m \in FilesRead, NEW n \in FilesRead, m < n,
           \A j \in FilesRead : j < n => j <= m
    PROVE  End(files, m) = n
<1>0. PICK e, first : e = End(files, m) /\ first = FirstFile(RedoStart)
  OBVIOUS
<1>1. FilesRead = {j \in DOMAIN files : j >= first} /\ first \in DOMAIN files
  BY <1>0, ReadsToTheEnd
<1>2. m \in Nat /\ e \in Nat /\ m <= e /\ n \in Nat /\ n <= End(files, n) /\ End(files, n) \in Nat
      /\ (e = m => m = Len(order)) /\ n \in DOMAIN files
  BY <1>0, <1>1, FilesAreIn
<1>3. /\ e = Len(order) \/ e \in DOMAIN files
      /\ e <= n /\ End(files, n) <= Len(order) /\ Len(order) \in Nat
  BY <1>0, <1>1, <1>2 DEF FilesInv, Contiguous, TxnInv, OrderInv
<1>4. e \in DOMAIN files
  BY <1>2, <1>3
<1>5. e \in FilesRead
  BY <1>1, <1>2, <1>4, FilesAreIn
<1>6. ~(e < n)
  BY <1>2, <1>3, <1>5
<1>. QED BY <1>0, <1>2, <1>3, <1>6

\* Reading it goes on to its end.
LEMMA BroughtByFile ==
    ASSUME TypeInv, TxnInv, FilesInv, phase = "down", DOMAIN files # {}, ~LogsAreMissing,
           OpsAre, NEW k \in Keys, KindRight(k), MetaRight(k),
           NEW n \in Nat, NEW before, BroughtBehind(n - 1, before, k)
    PROVE  BroughtBehind(n, Reading(n, before), k)
<1>0. PICK first : first = FirstFile(RedoStart)
  OBVIOUS
<1>1. /\ first \in DOMAIN files /\ first <= RedoStart
      /\ FilesRead = {j \in DOMAIN files : j >= first} /\ first \in FilesRead
      /\ DOMAIN files \subseteq Nat /\ RedoStart \in Nat /\ IsDb(before)
  BY <1>0, ReadsToTheEnd, FilesAreIn, RedoStartIs DEF BroughtBehind
<1>2. CASE n \notin FilesRead
  <2>1. Reading(n, before) = before
    BY <1>2 DEF Reading
  <2>2. ASSUME n >= first
        PROVE  \E m \in FilesRead : /\ m <= n /\ \A j \in FilesRead : j <= n => j <= m
                                    /\ BroughtTo(before.rows[k], k, End(files, m))
    <3>1. n - 1 >= first
      BY <1>1, <1>2, <2>2
    <3>2. PICK m \in FilesRead : /\ m <= n - 1 /\ \A j \in FilesRead : j <= n - 1 => j <= m
                                 /\ BroughtTo(before.rows[k], k, End(files, m))
      BY <1>0, <3>1 DEF BroughtBehind
    <3>3. m <= n /\ \A j \in FilesRead : j <= n => j <= m
      BY <1>1, <1>2, <3>2
    <3>. QED BY <3>2, <3>3
  <2>3. ASSUME n < first
        PROVE  before = Checkpoints
    <3>1. n - 1 < first
      BY <1>1, <2>3
    <3>. QED BY <1>0, <3>1 DEF BroughtBehind
  <2>. QED BY <1>0, <1>1, <2>1, <2>2, <2>3 DEF BroughtBehind
<1>3. CASE n \in FilesRead
  <2>1. PICK e : e = End(files, n) /\ e \in Nat /\ e <= Len(order) /\ n <= e
    BY <1>1, <1>3, FilesAreIn DEF FilesInv, Contiguous
  <2>2. PICK b \in n .. e : /\ IsLogPart(ToRedo(n), b, e)
                            /\ b = n \/ (b <= RedoStart /\ n = first)
    BY <1>0, <1>1, <1>3, <2>1, RedoneOfFile
  <2>3. BroughtTo(before.rows[k], k, b)
    <3>1. CASE n = first
      <4>1. n - 1 < first /\ b <= RedoStart /\ b \in Nat
        BY <1>1, <2>1, <2>2, <3>1
      <4>2. before.rows[k] = Loaded(k)
        BY <1>0, <4>1 DEF BroughtBehind, Checkpoints
      <4>. QED BY <4>1, <4>2, LoadedIsUp
    <3>2. CASE n # first
      <4>1. n - 1 >= first /\ b = n
        BY <1>1, <1>3, <2>2, <3>2
      <4>2. PICK m \in FilesRead : /\ m <= n - 1 /\ \A j \in FilesRead : j <= n - 1 => j <= m
                                   /\ BroughtTo(before.rows[k], k, End(files, m))
        BY <1>0, <4>1 DEF BroughtBehind
      <4>3. m < n /\ \A j \in FilesRead : j < n => j <= m
        BY <1>1, <4>2
      <4>. QED BY <1>3, <4>1, <4>2, <4>3, NextFileIs
    <3>. QED BY <3>1, <3>2
  <2>4. Reading(n, before) = RedoAll(before, ToRedo(n))
    BY <1>3 DEF Reading
  <2>5. b \in Nat /\ e \in b .. Len(order) /\ ToRedo(n) \in Seq(Records)
    BY <2>1, <2>2, FilesReadAre, <1>3 DEF TxnInv, OrderInv
  <2>6. BroughtTo(Reading(n, before).rows[k], k, e)
    BY <1>1, <2>2, <2>3, <2>4, <2>5, BroughtByAll
  <2>7. IsDb(Reading(n, before))
    BY <1>1, <2>4, <2>5, RedoAllIsDb
  <2>8. n >= first /\ n <= n /\ \A j \in FilesRead : j <= n => j <= n
    BY <1>1, <1>3
  <2>. QED BY <1>0, <1>1, <1>3, <2>1, <2>6, <2>7, <2>8 DEF BroughtBehind
<1>. QED BY <1>2, <1>3

\* So recovery brings the row to the end of the log.
LEMMA RecoveredIsBrought ==
    ASSUME TypeInv, TxnInv, FilesInv, phase = "down", ~LogsAreMissing,
           OpsAre, NEW k \in Keys, KindRight(k), MetaRight(k)
    PROVE  BroughtTo(Recovered.rows[k], k, Len(order))
<1>1. PICK after, last : Reads(after) /\ last = LastRead /\ Recovered = after[last]
  BY RecoveredIs
<1>2. last \in Nat
  BY <1>1, LastReadIs
<1>3. CASE DOMAIN files = {}
  <2>1. FilesRead = {} /\ last = 0
    BY <1>1, <1>3, FilesReadAre DEF LastRead
  <2>2. Recovered = Checkpoints
    BY <1>1, <2>1 DEF Reads, Reading
  <2>3. Len(order) = 0
    BY <1>3 DEF FilesInv, Contiguous, TxnInv, OrderInv
  <2>4. Recovered.rows[k] = Loaded(k)
    BY <2>2 DEF Checkpoints
  <2>5. RedoStart \in Nat
    BY RedoStartIs
  <2>. QED BY <2>3, <2>4, <2>5, LoadedIsUp
<1>4. CASE DOMAIN files # {}
  <2>0. PICK first : first = FirstFile(RedoStart)
    OBVIOUS
  <2>1. /\ first \in DOMAIN files /\ first \in Nat /\ first \in FilesRead /\ first <= last
        /\ last \in FilesRead /\ End(files, last) = Len(order)
        /\ FilesRead \subseteq Nat
    <3>1. FilesRead = {n \in DOMAIN files : n >= first} /\ first \in DOMAIN files
          /\ last \in FilesRead /\ \A n \in DOMAIN files : n <= last
          /\ End(files, last) = Len(order)
      BY <1>1, <1>4, <2>0, ReadsToTheEnd
    <3>. QED BY <3>1, FilesAreIn
  <2>. DEFINE T == {n \in 0 .. last : BroughtBehind(n, after[n], k)}
  <2>2. 0 \in T
    <3>1. IsDb(Checkpoints)
      BY CheckpointsAreDb
    <3>2. 0 - 1 < first /\ ~(0 - 1 >= first)
      BY <2>1
    <3>3. BroughtBehind(0 - 1, Checkpoints, k)
      BY <2>0, <3>1, <3>2 DEF BroughtBehind
    <3>4. BroughtBehind(0, Reading(0, Checkpoints), k)
      BY <1>4, <3>3, BroughtByFile
    <3>. QED BY <1>1, <1>2, <3>4 DEF Reads
  <2>3. ASSUME NEW n \in 0 .. last, n \in T, n < last
        PROVE  n + 1 \in T
    <3>1. n + 1 \in 1 .. last /\ (n + 1) - 1 = n /\ n + 1 \in Nat
      BY <1>2, <2>3
    <3>2. after[n + 1] = Reading(n + 1, after[n])
      BY <1>1, <3>1 DEF Reads
    <3>3. BroughtBehind(n + 1, Reading(n + 1, after[n]), k)
      BY <1>4, <2>3, <3>1, BroughtByFile
    <3>. QED BY <1>2, <3>1, <3>2, <3>3
  <2>. HIDE DEF T
  <2>4. 0 .. last \subseteq T
    BY <1>2, <2>2, <2>3, UpTo
  <2>5. BroughtBehind(last, after[last], k)
    BY <1>2, <2>4 DEF T
  <2>6. PICK m \in FilesRead : /\ m <= last /\ \A j \in FilesRead : j <= last => j <= m
                               /\ BroughtTo(after[last].rows[k], k, End(files, m))
    BY <1>2, <2>0, <2>1, <2>5 DEF BroughtBehind
  <2>7. m = last
    BY <1>2, <2>1, <2>6
  <2>. QED BY <1>1, <2>1, <2>6, <2>7
<1>. QED BY <1>3, <1>4

\* Recovery makes of the rows what the log says, in the space of the current checkpoints.
LEMMA HistoryRecover ==
    ASSUME TypeInv, TxnInv, LogInv, OpsAre, NEW k \in Keys, History(k), Recover, k \notin exposed'
    PROVE  History(k)'
<1>1. /\ phase = "down" /\ ckpt.at = "off"
      /\ UNCHANGED <<lsn, kind, pc, ckpt, meta, image, order>>
      /\ \A t \in Txns : pc[t] \notin Live
  BY DEF Recover, txns, disk, TypeInv, Closed, TxnInv, LockInv
<1>2. KindRight(k)'
  BY <1>1, KindKept DEF History, Live
<1>3. MetaRight(k) /\ MetaRight(k)'
  BY <1>1 DEF History, ShownRight, MetaRight, StartOf
<1>4. Frozen(k)' /\ Passed(k)'
  BY <1>1 DEF Frozen, Passed, Writing
<1>5. RowRight(k)' /\ NoLeak(k)'
  <2>1. CASE Refuses
    <3>1. phase' = "refused"
      BY <2>1 DEF Recover
    <3>. QED BY <3>1 DEF RowRight, RowCurrent, RowPlaced, NoLeak
  <2>2. CASE ~Refuses
    <3>1. /\ rows' = Recovered.rows /\ freed' = Recovered.freed
          /\ ckpt_history' = [c \in Containers |-> StartOf(c)]
          /\ exposed' = exposed \cup {j \in Keys : Unplaced(Recovered.rows[j], Holder[j])}
          /\ ~LogsAreMissing
      BY <2>2 DEF Recover, Refuses
    <3>2. PICK row, c : row = rows'[k] /\ c = Holder[k]
      OBVIOUS
    <3>3. IsDb(Recovered) /\ row \in RowType /\ c \in Containers
      BY <3>1, <3>2, RecoveredIsDb, KeysAssumption DEF IsDb
    <3>4. BroughtTo(row, k, Len(order))
      BY <1>1, <1>3, <3>1, <3>2, RecoveredIsBrought DEF LogInv, History
    <3>5. order \in Seq(Txns) /\ Len(order) \in Nat /\ StartOf(c) \in Nat
      BY <3>3, RedoStartIs DEF TxnInv, OrderInv
    <3>6. row.val = ValueIn(order, k, Len(order))
      <4>1. \A p \in Len(order) .. Len(order) : p = Len(order)
        BY <3>5
      <4>. QED BY <3>4, <4>1 DEF BroughtTo
    <3>7. RowCurrent(k)'
      BY <1>1, <3>2, <3>6 DEF RowCurrent, Live
    <3>8. ~Committed(row) => row.loc = NoLoc
      BY <3>1, <3>2, <3>3 DEF IsDb
    <3>9. ASSUME Committed(row), row.lsn <= StartOf(c)
          PROVE  row.loc # NoLoc /\ image[c][row.loc].val = row.val
      <4>1. row.loc # NoLoc
        BY <3>1, <3>2, <3>9 DEF Unplaced
      <4>2. row.loc = Loaded(k).loc
        BY <3>1, <3>2, <3>3, <4>1 DEF IsDb
      <4>3. Loaded(k).val = image[c][row.loc].val
        BY <3>2, <4>1, <4>2, LoadedIs
      <4>4. CASE row = Loaded(k)
        BY <4>1, <4>3, <4>4
      <4>5. CASE row # Loaded(k)
        <5>1. \A i \in row.lsn + 1 .. Len(order) : k \notin KeysOf(order[i])
          BY <3>4, <3>9, <4>5 DEF BroughtTo
        <5>2. PICK p \in StartOf(c) .. Len(order) : Loaded(k).val = ValueIn(order, k, p)
          BY <1>3, <3>2, LoadedWas DEF Was
        <5>3. row.lsn \in Int
          BY <3>3 DEF RowType, Lsns
        <5>4. p \in 0 .. Len(order) /\ Len(order) \in p .. Len(order)
              /\ \A i \in p + 1 .. Len(order) : i \in row.lsn + 1 .. Len(order)
          BY <3>5, <3>9, <5>2, <5>3
        <5>5. ValueIn(order, k, p) = ValueIn(order, k, Len(order))
          BY <3>5, <5>1, <5>4, UntouchedKeeps
        <5>. QED BY <3>6, <4>1, <4>3, <5>2, <5>5
      <4>. QED BY <4>4, <4>5
    <3>10. RowPlaced(k)'
      BY <1>1, <3>1, <3>2, <3>3, <3>8, <3>9 DEF RowPlaced
    <3>11. NoLeak(k)'
      <4>1. SUFFICES ASSUME NEW l \in meta[c].used, l \notin freed'[c], image[c][l].key = k
                     PROVE  l = row.loc
        BY <1>1, <3>2 DEF NoLeak, UsedBy, FreeOf, On, Writing
      <4>2. Loaded(k).loc # NoLoc
        BY <3>2, <4>1, LoadedIs
      <4>3. Loaded(k).loc \in meta[c].used /\ image[c][Loaded(k).loc].key = k
        BY <3>2, <4>2, LoadedIs
      <4>4. l = Loaded(k).loc
        BY <1>3, <3>2, <4>1, <4>3 DEF MetaRight, Depicts, Only
      <4>. QED BY <3>1, <3>2, <3>3, <4>1, <4>2, <4>4 DEF IsDb
    <3>. QED BY <3>7, <3>10, <3>11 DEF RowRight
  <2>. QED BY <2>1, <2>2
<1>. QED BY <1>2, <1>3, <1>4, <1>5 DEF History, ShownRight

\* No row is exposed less than before.
LEMMA ExposedStay ==
    ASSUME [Next]_vars
    PROVE  exposed \subseteq exposed'
BY DEF Next, Transact, Checkpoint, Operate, Rollback, OpenLog, WriteLog, Apply, CkptStart,
       CkptContainer, CkptCopy, CkptPlace, CkptTakeFreed, CkptNote, CkptCommit, Archive, Crash,
       Recover, vars

\* Each step keeps the invariant, for the rows that are not exposed by it either.
LEMMA HistoryInvStep ==
    ASSUME TypeInv, SpaceInv, TxnInv, LogInv, HistoryInv, [Next]_vars
    PROVE  HistoryInv'
<1>1. OpsAre /\ OpsAre' /\ exposed \subseteq exposed'
  BY OpsAreStep, ExposedStay DEF HistoryInv
<1>2. SUFFICES ASSUME NEW k \in Keys, k \notin exposed', History(k)
               PROVE  History(k)'
  BY <1>1 DEF HistoryInv
<1>3. CASE \E t \in Txns : Transact(t)
  <2>1. PICK t \in Txns : Transact(t)
    BY <1>3
  <2>. QED BY <1>2, <2>1, HistoryOperate, HistoryRollback, HistoryElsewhere, HistoryWriteLog,
              HistoryApply DEF Transact
<1>4. CASE Checkpoint
  BY <1>2, <1>4, HistoryStart, HistoryContainer, HistoryCopy, HistoryPlace, HistoryTakeFreed,
     HistoryNote, HistoryCommit DEF Checkpoint
<1>5. CASE Archive \/ UNCHANGED vars
  BY <1>2, <1>5, HistoryElsewhere
<1>6. CASE Crash
  BY <1>2, <1>6, HistoryCrash
<1>7. CASE Recover
  BY <1>1, <1>2, <1>7, HistoryRecover
<1>. QED BY <1>3, <1>4, <1>5, <1>6, <1>7 DEF Next

\* What the transactions in the log have made of the rows is what the rows have.
LEMMA HistoryTells ==
    ASSUME HistoryInv
    PROVE  NothingLostUnlessExposed
<1>. SUFFICES ASSUME phase = "open", NEW k \in Keys \ exposed, Settled(k)
              PROVE  rows[k].val = Expected(k)
  BY DEF NothingLostUnlessExposed
<1>1. rows[k].val = ValueIn(order, k, Len(order))
  BY DEF HistoryInv, History, RowRight, RowCurrent
<1>2. Expected(k) = ValueIn(order, k, Len(order))
  BY DEF Expected, ValueAfter, ValueIn
<1>. QED BY <1>1, <1>2

\* No committed change is lost: not when a checkpoint is cut short, not when logs are
\* archived that no checkpoint needs, not when recovery starts from checkpoints of
\* containers that were made at different times and redoes what some of them have already,
\* however many crashes there are.  Not so of the rows that one of the known flaws has got
\* hold of; and as long as no crash comes on top of a torn record, tears the first of a
\* file, or leaves the very first file without one.
THEOREM NothingIsLost ==
    Spec /\ [][CrashIsBearable]_vars => []NothingLostUnlessExposed
<1>1. Init => TypeInv /\ SpaceInv /\ TxnInv /\ LogInv /\ HistoryInv
  BY TypeInvInit, SpaceInvInit, TxnInvInit, LogInvInit, HistoryInvInit
<1>2. TypeInv /\ SpaceInv /\ TxnInv /\ LogInv /\ HistoryInv /\ [Next]_vars /\ [CrashIsBearable]_vars
         => TypeInv' /\ SpaceInv' /\ TxnInv' /\ LogInv' /\ HistoryInv'
  BY TypeInvStep, SpaceInvStep, LogInvStep, HistoryInvStep
<1>3. HistoryInv => NothingLostUnlessExposed
  BY HistoryTells
<1>. QED BY <1>1, <1>2, <1>3, PTL DEF Spec

-----------------------------------------------------------------------------
\* A file system where a crash leaves the record being written whole or not at all

NoneTorn == \A n \in DOMAIN files : Whole(files[n]) = 0

\* The record that is written whole leaves no file torn.
LEMMA WrittenWhole ==
    ASSUME TypeInv, TxnInv, FilesInv, phase = "open", writer # NoTxn, NoneTorn,
           files' = Written(writer, FALSE), order' = Append(order, writer), UNCHANGED kind
    PROVE  NoneTorn'
<1>1. PICK torn \in BOOLEAN : torn = FALSE
  OBVIOUS
<1>2. DOMAIN files' = DOMAIN files /\ Whole(files'[log_filename]) = 0
  BY <1>1, FilesInvWritten
<1>3. \A n \in DOMAIN files \ {log_filename} : files'[n] = files[n]
  BY <1>1, WrittenIs
<1>. QED BY <1>2, <1>3 DEF NoneTorn

\* No crash leaves a torn record there.
LEMMA CleanCrashes ==
    ASSUME TypeInv, TxnInv, FilesInv, NoneTorn, Crash, LogHasBegun, "torn" \notin Fates
    PROVE  NoneTorn' /\ CrashIsBearable
<1>1. /\ phase = "open" /\ UNCHANGED kind
      /\ \/ files' = files
         \/ /\ writer # NoTxn
            /\ files' = Written(writer, FALSE) /\ order' = Append(order, writer)
  BY DEF Crash
<1>2. NoneTorn'
  BY <1>1, WrittenWhole DEF NoneTorn
<1>3. \A n \in DOMAIN files' : files'[n] = <<>> \/ WholePart(files'[n]) # <<>>
  BY <1>2 DEF NoneTorn, WholePart
<1>. QED BY <1>2, <1>3 DEF CrashIsBearable, NoneTorn

\* Nor does anything else.
LEMMA CleanSteps ==
    ASSUME TypeInv, TxnInv, FilesInv, NoneTorn, [Next]_vars, [LogHasBegun]_vars,
           "torn" \notin Fates
    PROVE  NoneTorn' /\ [CrashIsBearable]_vars
<1>1. CASE Crash
  <2>1. CASE LogHasBegun
    BY <1>1, <2>1, CleanCrashes
  <2>2. CASE UNCHANGED vars
    <3>1. phase' = phase
      BY <2>2 DEF vars
    <3>. QED BY <1>1, <3>1 DEF Crash
  <2>. QED BY <2>1, <2>2
<1>2. CASE ~Crash
  <2>1. [CrashIsBearable]_vars
    BY <1>2 DEF CrashIsBearable, LogHasBegun
  <2>2. CASE \E t \in Txns : OpenLog(t)
    <3>1. files' = [n \in DOMAIN files \cup {NextFile} |->
                       IF n \in DOMAIN files THEN files[n] ELSE <<>>]
      BY <2>2 DEF OpenLog
    <3>. QED BY <2>1, <3>1, EmptyIsWhole DEF NoneTorn
  <2>3. CASE \E t \in Txns : WriteLog(t)
    <3>1. /\ phase = "open" /\ writer # NoTxn /\ UNCHANGED kind
          /\ files' = Written(writer, FALSE) /\ order' = Append(order, writer)
      BY <2>3, NobodyAssumption DEF WriteLog
    <3>. QED BY <2>1, <3>1, WrittenWhole
  <2>4. CASE Archive
    <3>1. files' = [n \in DOMAIN files \ Archivable |-> files[n]]
      BY <2>4 DEF Archive
    <3>. QED BY <2>1, <3>1 DEF NoneTorn
  <2>5. CASE UNCHANGED files
    BY <2>1, <2>5 DEF NoneTorn
  <2>6. UNCHANGED files \/ Archive \/ \E t \in Txns : OpenLog(t) \/ WriteLog(t)
    BY <1>2 DEF Next, Transact, Checkpoint, Operate, Rollback, Apply, CkptStart, CkptContainer,
                CkptCopy, CkptPlace, CkptTakeFreed, CkptNote, CkptCommit, Recover, vars, disk
  <2>. QED BY <2>2, <2>3, <2>4, <2>5, <2>6
<1>. QED BY <1>1, <1>2

\* There a crash leaves the record that is being written whole or not at all, also when the
\* file has just been created for it, and recovery is up to that however often it happens:
\* no committed change is lost, and recovery finds in the log what it needs.  Not so when a
\* crash leaves the very first log file without a record: that is what LogHasBegun says.
THEOREM NothingIsLostOfWholeRecords ==
    ASSUME "torn" \notin Fates
    PROVE  Spec /\ [][LogHasBegun]_vars => []NothingLostUnlessExposed /\ []LogServesRecovery
<1>1. Init => TypeInv /\ TxnInv /\ LogInv /\ NoneTorn
  BY TypeInvInit, TxnInvInit, LogInvInit DEF Init, NoneTorn
<1>2. TypeInv /\ TxnInv /\ LogInv /\ NoneTorn /\ [Next]_vars /\ [LogHasBegun]_vars
         => TypeInv' /\ TxnInv' /\ LogInv' /\ NoneTorn' /\ [CrashIsBearable]_vars
  <2>. SUFFICES ASSUME TypeInv, TxnInv, LogInv, NoneTorn, [Next]_vars, [LogHasBegun]_vars
                PROVE  TypeInv' /\ TxnInv' /\ LogInv' /\ NoneTorn' /\ [CrashIsBearable]_vars
    OBVIOUS
  <2>1. NoneTorn' /\ [CrashIsBearable]_vars
    BY CleanSteps DEF LogInv
  <2>. QED BY <2>1, TypeInvStep, LogInvStep
<1>3. Spec /\ [][LogHasBegun]_vars => [][CrashIsBearable]_vars
  BY <1>1, <1>2, PTL DEF Spec
<1>. QED BY <1>3, NothingIsLost, LogIsThereForRecovery, PTL

=============================================================================

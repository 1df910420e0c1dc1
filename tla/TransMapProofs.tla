--------------------------- MODULE TransMapProofs ---------------------------
(***************************************************************************)
(* Proofs about TransMap: row locks are exclusive, asked for ones are      *)
(* taken, and nobody who waits for one is forgotten; no call goes on with  *)
(* an iterator to an entry that is gone; and what readers see of the map   *)
(* is what recovery would make of the log of the transactions that have    *)
(* changed it.                                                             *)
(***************************************************************************)
EXTENDS TransMap, TLAPS, NaturalsInduction, WellFoundedInduction, FiniteSetTheorems

RowKinds == {"lock", "update", "erase"}
Waiting(t) == pc[t] \in {"dozing", "asleep", "woken"}
Lsns == Range(Recovered) \cup {r.lsn : r \in Range(log)}

\* Every variable has its type, and the log is a list of records.
Typed == TypeOK /\ log \in Seq(Range(log)) /\ \A r \in Range(log) : r.lsn \in Nat

\* No two transactions have the same id.
IdsAreDistinct ==
    /\ next_txn_id >= 1
    /\ \A t \in Txns : pc[t] # "begin" => id[t] \in 1 .. next_txn_id - 1
    /\ \A s, t \in Txns : s # t /\ pc[s] # "begin" /\ pc[t] # "begin" => id[s] # id[t]

\* What is so of a transaction at each point.
PointOf(t) ==
    /\ pc[t] \in {"begin", "done"} => ops[t] = <<>>
    /\ pc[t] = "begin" => asked[t] = {}
    /\ pc[t] = "changed" <=> container = t
    /\ pc[t] = "dozing" => row_mutex = t
    /\ pc[t] = "logged" => \E r \in Range(log) : r.txn = t
    /\ IF Waiting(t) THEN wait[t].kind \in Kinds /\ wait[t].key \in Keys ELSE wait[t] = NoCall
    /\ wait[t].stale => wait[t].kind \in RowKinds
    /\ wait[t].ver <= ver_num
PointsAreReal == \A t \in Txns : PointOf(t)

\* The places in its list at which t has an operation on k.
On(t, k) == {i \in DOMAIN ops[t] : ops[t][i].key = k}
IsFirst(t, i) == \A j \in On(t, ops[t][i].key) : i <= j
IsLast(t, i) == \A j \in On(t, ops[t][i].key) : j <= i

\* The row of each operation is there and bears the mark that the transaction's last
\* operation on it has left; the first has found it unmarked.  An insert comes first, a
\* lock finds no mark, and nothing comes after a deleted insert.
IsTraced(t, i) ==
    LET o == ops[t][i] IN
    /\ Present(rows[o.key]) /\ rows[o.key].op # "none" /\ rows[o.key].id = id[t]
    /\ o.val # NoValue
    /\ IsLast(t, i) => rows[o.key].op = o.kind
    /\ IsFirst(t, i) => o.op = "none"
    /\ o.op = "none" /\ o.kind # "insert" => o.id \in Lsns
    /\ o.kind = "lock" => o.op = "none"
    /\ o.kind = "insert" => rows[o.key].op \in {"insert", "deleted_insert"} /\ IsFirst(t, i)
    /\ o.kind = "deleted_insert" =>
          IsLast(t, i) /\ \E j \in On(t, o.key) : ops[t][j].kind = "insert"
OpsAreTraced ==
    ~corrupt => \A t \in Txns : Unfinished(t) => \A i \in DOMAIN ops[t] : IsTraced(t, i)

\* A mark is that of an operation of an unfinished transaction; a row without one carries
\* the LSN of a commit.
MarkIsHeld(k) ==
    /\ rows[k].op # "none" => \E t \in Txns : Unfinished(t) /\ k \in KeysOf(t)
    /\ rows[k].op = "none" /\ Present(rows[k]) => rows[k].id \in Lsns
MarksAreHeld == ~corrupt => \A k \in Keys : MarkIsHeld(k)

\* Who is about to sleep or sleeps has a reason to.
HasReason(t) ==
    pc[t] \in {"dozing", "asleep"} => container # NoTxn \/ HeldByOther(t, rows[wait[t].key])
SleepersHaveReason == ~corrupt => \A t \in Txns : HasReason(t)

\* The iterator of a call that waits points to a row that is there, until it is stale.
\* Over a deleted insert the row stays one; otherwise nobody has inserted it since.
IteratorPoints(t) ==
    Waiting(t) /\ wait[t].kind \in RowKinds /\ ~wait[t].stale =>
        /\ Present(rows[wait[t].key])
        /\ IF wait[t].over = "deleted_insert"
           THEN rows[wait[t].key].op = "deleted_insert" /\ rows[wait[t].key].id # id[t]
           ELSE \A u \in Txns : Unfinished(u) => Listed(u, wait[t].key, "insert") = {}
IteratorsPoint == ~corrupt => \A t \in Txns : IteratorPoints(t)

\* What has led to a use of an iterator to an erased entry.
Twice(t, k) == \E i, j \in Listed(t, k, "delete") : i # j
CorruptionHasACause ==
    corrupt => \/ \E t \in Txns, k \in Keys : Twice(t, k)
               \/ \E t \in Txns : pc[t] = "woken" /\ wait[t].stale /\ wait[t].over = "deleted_insert"

MapInv ==
    /\ Typed /\ IdsAreDistinct /\ PointsAreReal
    /\ OpsAreTraced /\ MarksAreHeld /\ AskedIsLocked
    /\ SleepersHaveReason /\ IteratorsPoint
    /\ StaleIteratorsAreNoticed /\ CorruptionHasACause

-----------------------------------------------------------------------------
\* Lemmas about numbers, lists and iterations

USE DEF Kinds, RowKinds

\* A set of numbers has a least element.
LEMMA LeastOfNats ==
    ASSUME NEW S, S \subseteq Nat, S # {}
    PROVE  \E x \in S : \A y \in S : x <= y
<1> DEFINE R == {m \in Nat \X Nat : m[1] < m[2]}
<1>1. IsWellFoundedOn(R, Nat)
  BY NatLessThanWellFounded DEF OpToRel
<1> HIDE DEF R
<1>2. PICK x \in S : \A y \in S : ~(<<y, x>> \in R)
  BY <1>1, WFMin
<1>3. \A y \in S : ~(y < x)
  BY <1>2 DEF R
<1> QED
  BY <1>3

\* What holds of 0 and of the number after each that it holds of, holds up to n.
LEMMA UpTo ==
    ASSUME NEW n \in Nat, NEW S, S \subseteq 0 .. n, 0 \in S,
           \A i \in 0 .. n : i \in S /\ i < n => i + 1 \in S
    PROVE  S = 0 .. n
<1> SUFFICES ASSUME (0 .. n) \ S # {} PROVE FALSE
  OBVIOUS
<1> DEFINE C == (0 .. n) \ S
<1>0. C \subseteq Nat /\ C # {}
  OBVIOUS
<1>1. PICK x \in C : \A y \in C : x <= y
  <2> HIDE DEF C
  <2> QED
    BY <1>0, LeastOfNats
<1>2. x - 1 \in 0 .. n /\ x - 1 < n /\ x - 1 \notin (0 .. n) \ S
  BY <1>1
<1>3. (x - 1) + 1 \in S
  BY <1>2
<1> QED
  BY <1>1, <1>3

\* A step for each of n numbers can be iterated.
CanIterate(n, V, base, step) ==
    \E g \in [0 .. n -> V] : g[0] = base /\ \A i \in 1 .. n : g[i] = step[i][g[i - 1]]
\* Such an iteration exists.
LEMMA Iteration ==
    ASSUME NEW n \in Nat, NEW V, NEW base \in V, NEW step \in [1 .. n -> [V -> V]]
    PROVE  CanIterate(n, V, base, step)
<1> DEFINE Iterates(m, g) == g[0] = base /\ \A i \in 1 .. m : g[i] = step[i][g[i - 1]]
           S == {m \in 0 .. n : \E g \in [0 .. m -> V] : Iterates(m, g)}
<1>1. 0 \in S
  <2>1. [i \in 0 .. 0 |-> base] \in [0 .. 0 -> V] /\ Iterates(0, [i \in 0 .. 0 |-> base])
    OBVIOUS
  <2>2. 0 \in 0 .. n
    OBVIOUS
  <2> QED
    BY <2>1, <2>2
<1>2. ASSUME NEW m \in 0 .. n, m \in S, m < n
      PROVE  m + 1 \in S
  <2>1. PICK g \in [0 .. m -> V] : Iterates(m, g)
    BY <1>2
  <2> DEFINE f == [i \in 0 .. m + 1 |-> IF i <= m THEN g[i] ELSE step[i][g[i - 1]]]
  <2>2. m + 1 \in 1 .. n /\ step[m + 1] \in [V -> V] /\ g[m] \in V
    BY <1>2
  <2>3. f \in [0 .. m + 1 -> V]
    BY <2>1, <2>2
  <2>4. f[0] = base
    BY <2>1
  <2>5. \A i \in 1 .. m + 1 : f[i] = step[i][f[i - 1]]
    BY <2>1, <2>2
  <2>6. Iterates(m + 1, f)
    BY <2>4, <2>5
  <2>7. \E h \in [0 .. m + 1 -> V] : Iterates(m + 1, h)
    BY <2>3, <2>6
  <2>8. m + 1 \in 0 .. n
    BY <2>2
  <2> QED
    BY <2>7, <2>8
<1>3. n \in S
  <2> HIDE DEF S
  <2>1. S \subseteq 0 .. n
    BY DEF S
  <2>2. \A i \in 0 .. n : i \in S /\ i < n => i + 1 \in S
    BY <1>2
  <2>3. S = 0 .. n
    BY <1>1, <2>1, <2>2, UpTo
  <2> QED
    BY <2>3
<1> QED
  BY <1>3 DEF CanIterate

\* The greatest of finitely many numbers is one of them.
LEMMA MaxIsANumber ==
    ASSUME NEW S, S \subseteq Nat, IsFiniteSet(S), S # {}
    PROVE  Max(S) \in S /\ \A y \in S : y <= Max(S)
<1>1. PICK n \in Nat : ExistsSurjection(1 .. n, S)
  BY FS_NatSurjection
<1>2. PICK f \in Surjection(1 .. n, S) : TRUE
  BY <1>1 DEF ExistsSurjection
<1>3. f \in [1 .. n -> S] /\ \A x \in S : \E i \in 1 .. n : f[i] = x
  BY <1>2 DEF Surjection
<1>a. \A i \in 1 .. n : f[i] \in Nat
  BY <1>3
<1> DEFINE B == {m \in 0 .. n : \E b \in Nat : \A i \in 1 .. m : f[i] <= b}
<1>4. 0 \in B
  OBVIOUS
<1>5. ASSUME NEW m \in 0 .. n, m \in B, m < n
      PROVE  m + 1 \in B
  <2>1. PICK b \in Nat : \A i \in 1 .. m : f[i] <= b
    BY <1>5
  <2>0. m + 1 \in 1 .. n /\ \A i \in 1 .. m : i \in 1 .. n
    BY <1>5
  <2>2. m + 1 \in 1 .. n /\ f[m + 1] \in Nat
    BY <1>a, <2>0
  <2> DEFINE c == b + f[m + 1]
  <2>a. \A i \in 1 .. m : i \in 1 .. n /\ f[i] \in Nat
    BY <1>a, <2>0
  <2>3. c \in Nat /\ \A i \in 1 .. m + 1 : f[i] <= c
    BY <2>1, <2>2, <2>a
  <2>4. m + 1 \in 0 .. n
    BY <2>2
  <2> QED
    BY <2>3, <2>4
<1>6. n \in B
  <2> HIDE DEF B
  <2>1. B \subseteq 0 .. n
    BY DEF B
  <2>2. \A i \in 0 .. n : i \in B /\ i < n => i + 1 \in B
    BY <1>5
  <2>3. B = 0 .. n
    BY <1>4, <2>1, <2>2, UpTo
  <2> QED
    BY <2>3
<1>7. PICK b \in Nat : \A x \in S : x <= b
  BY <1>3, <1>6
<1> DEFINE U == {u \in Nat : \A x \in S : x <= u}
<1>8. PICK u \in U : \A v \in U : u <= v
  BY <1>7, LeastOfNats
<1>9. u \in S
  <2> SUFFICES ASSUME u \notin S PROVE FALSE
    OBVIOUS
  <2>1. u > 0
    <3>1. PICK x \in S : TRUE
      OBVIOUS
    <3>2. x <= u /\ x # u /\ x \in Nat /\ u \in Nat
      BY <1>8, <3>1
    <3> QED
      BY <3>2
  <2>2. u - 1 \in U
    BY <1>8, <2>1
  <2> QED
    BY <1>8, <2>2
<1>10. \A y \in S : u >= y
  BY <1>8
<1>11. Max(S) \in S /\ \A y \in S : Max(S) >= y
  BY <1>9, <1>10 DEF Max
<1> QED
  BY <1>11

\* What is in a list that is one longer.
LEMMA RangeOfAppend ==
    ASSUME NEW S, NEW q \in Seq(S), NEW e
    PROVE  Append(q, e) \in Seq(S \cup {e}) /\ Range(Append(q, e)) = Range(q) \cup {e}
<1>1. /\ Append(q, e) \in Seq(S \cup {e}) /\ DOMAIN Append(q, e) = 1 .. Len(q) + 1
      /\ \A i \in 1 .. Len(q) : Append(q, e)[i] = q[i]
      /\ Append(q, e)[Len(q) + 1] = e /\ DOMAIN q = 1 .. Len(q) /\ Len(q) \in Nat
  OBVIOUS
<1> QED
  BY <1>1 DEF Range

-----------------------------------------------------------------------------
\* Lemmas about commit and rollback

\* The maps that there can be between the operations of a commit or rollback.
Maps == [rows : [Keys -> Rows], ver : Nat, bad : BOOLEAN]
SoundMaps == {m \in Maps : \A k \in Keys : ~Present(m.rows[k]) => m.rows[k] = NoRow}

\* A map with another row for k.
LEMMA MapWithARow ==
    ASSUME NEW m \in SoundMaps, NEW k \in Keys, NEW row \in Rows,
           ~Present(row) => row = NoRow
    PROVE  LET c == [m EXCEPT !.rows[k] = row] IN
           /\ c \in SoundMaps /\ c.ver = m.ver /\ c.bad = m.bad
           /\ c.rows = [m.rows EXCEPT ![k] = row]
<1> DEFINE c == [m EXCEPT !.rows[k] = row]
<1>1. m \in Maps /\ m.rows \in [Keys -> Rows]
  BY DEF SoundMaps, Maps
<1>2. c.ver = m.ver /\ c.bad = m.bad /\ c.rows = [m.rows EXCEPT ![k] = row]
  BY <1>1 DEF Maps
<1>3. [m.rows EXCEPT ![k] = row] \in [Keys -> Rows]
  BY <1>1
<1>4. c \in Maps
  BY <1>1, <1>3 DEF Maps
<1>5. \A x \in Keys : ~Present(c.rows[x]) => c.rows[x] = NoRow
  BY <1>1, <1>2 DEF SoundMaps
<1> QED
  BY <1>2, <1>4, <1>5 DEF SoundMaps

\* A row without a mark.
LEMMA UnmarkedRow ==
    ASSUME NEW v \in Values, v # NoValue, NEW n \in Nat, NEW op \in Marks
    PROVE  LET row == [val |-> v, op |-> op, id |-> n] IN
           row \in Rows /\ Present(row) /\ row.val = v /\ row.op = op /\ row.id = n
BY DEF Rows, Present

\* The row that is not there.
LEMMA NoRowIsARow == NoRow \in Rows /\ ~Present(NoRow) /\ NoRow.op = "none" /\ NoRow.id = 0
BY DEF NoRow, Rows, Values, Marks, Present

\* What becomes of the row of o when the commit of o finds its mark there.
Committed(row, o, lsn) ==
    IF o.kind \in {"delete", "deleted_insert"} THEN NoRow
    ELSE [val |-> IF o.kind = "update" THEN o.val ELSE row.val, op |-> "none",
          id |-> IF o.kind = "lock" THEN o.id ELSE lsn]

\* The commit of one operation changes nothing but the row that it is on, if it finds its
\* own mark there; it takes the map to a new version if it is a delete.
LEMMA CommitOfOne ==
    ASSUME NEW m \in SoundMaps, NEW o \in Ops, o.val # NoValue, NEW lsn \in Nat
    PROVE  LET c == CommitOp(m, o, lsn)
               applies == Present(m.rows[o.key]) /\ m.rows[o.key].op = o.kind IN
           /\ c \in SoundMaps
           /\ c.bad = (m.bad \/ ~Present(m.rows[o.key]))
           /\ c.rows = IF applies
                       THEN [m.rows EXCEPT ![o.key] = Committed(m.rows[o.key], o, lsn)]
                       ELSE m.rows
           /\ c.ver = IF applies /\ o.kind = "delete" THEN m.ver + 1 ELSE m.ver
<1> DEFINE k == o.key
           row == Committed(m.rows[k], o, lsn)
           c == CommitOp(m, o, lsn)
           e == [m EXCEPT !.rows[k] = row]
<1>1. /\ k \in Keys /\ o.val \in Values /\ o.id \in Nat /\ o.kind \in Marks \ {"none"}
      /\ m \in Maps /\ m.rows[k] \in Rows /\ m.bad \in BOOLEAN /\ m.ver \in Nat
  BY DEF Ops, SoundMaps, Maps
<1>2. CASE ~Present(m.rows[k])
  <2>1. c = [m EXCEPT !.bad = TRUE]
    BY <1>2 DEF CommitOp
  <2>2. c \in Maps /\ c.rows = m.rows /\ c.ver = m.ver /\ c.bad = TRUE
    BY <1>1, <2>1 DEF Maps
  <2>3. c \in SoundMaps
    BY <2>2 DEF SoundMaps
  <2>4. c.bad = (m.bad \/ ~Present(m.rows[k]))
    BY <1>2, <2>2
  <2> QED
    BY <1>2, <2>2, <2>3, <2>4
<1>3. CASE Present(m.rows[k]) /\ m.rows[k].op # o.kind
  <2>1. c = m
    BY <1>3 DEF CommitOp
  <2> QED
    BY <1>1, <1>3, <2>1
<1>4. CASE Present(m.rows[k]) /\ m.rows[k].op = o.kind
  <2>1. row \in Rows /\ (~Present(row) => row = NoRow)
    <3>1. CASE o.kind \in {"delete", "deleted_insert"}
      BY <3>1, NoRowIsARow DEF Committed
    <3>2. CASE o.kind \notin {"delete", "deleted_insert"}
      <4>1. m.rows[k].val \in Values /\ m.rows[k].val # NoValue
        BY <1>1, <1>4 DEF Rows, Present
      <4>2. (IF o.kind = "update" THEN o.val ELSE m.rows[k].val) \in Values
        BY <1>1, <4>1
      <4>3. (IF o.kind = "lock" THEN o.id ELSE lsn) \in Nat /\ "none" \in Marks
        BY <1>1 DEF Marks
      <4>4. (IF o.kind = "update" THEN o.val ELSE m.rows[k].val) # NoValue
        BY <4>1
      <4> QED
        BY <3>2, <4>2, <4>3, <4>4, UnmarkedRow DEF Committed
    <3> QED
      BY <3>1, <3>2
  <2>2. /\ e \in SoundMaps /\ e.ver = m.ver /\ e.bad = m.bad
        /\ e.rows = [m.rows EXCEPT ![k] = row]
    BY <1>1, <2>1, MapWithARow
  <2>3. CASE o.kind = "delete"
    <3>1. c = [e EXCEPT !.ver = @ + 1]
      BY <1>4, <2>3 DEF CommitOp, CommitDelete, Erased, Committed
    <3>2. e \in Maps /\ e.ver + 1 \in Nat
      BY <1>1, <2>2 DEF SoundMaps
    <3>3. c \in Maps /\ c.rows = e.rows /\ c.bad = e.bad /\ c.ver = e.ver + 1
      BY <3>1, <3>2 DEF Maps
    <3>4. c \in SoundMaps
      BY <2>2, <3>3 DEF SoundMaps
    <3>5. c.bad = (m.bad \/ ~Present(m.rows[k]))
      BY <1>1, <1>4, <2>2, <3>3
    <3> HIDE DEF e, row
    <3> QED
      BY <1>4, <2>2, <2>3, <3>3, <3>4, <3>5 DEF row
  <2>4. CASE o.kind # "delete"
    <3>1. c = e
      BY <1>1, <1>4, <2>4
      DEF CommitOp, CommitInsert, CommitUpdate, CommitLock, CommitDeletedInsert, Erased,
          Unlocked, Committed, Marks
    <3>2. c.bad = (m.bad \/ ~Present(m.rows[k]))
      BY <1>1, <1>4, <2>2, <3>1
    <3> HIDE DEF e, row
    <3> QED
      BY <1>4, <2>2, <2>4, <3>1, <3>2 DEF row
  <2> QED
    BY <2>3, <2>4
<1> QED
  BY <1>2, <1>3, <1>4

\* What becomes of the row of o when o is rolled back.
Restored(row, o) ==
    IF o.kind = "insert" THEN NoRow ELSE [val |-> row.val, op |-> o.op, id |-> o.id]

\* The rollback of one operation changes nothing but the row that it is on.
LEMMA RollbackOfOne ==
    ASSUME NEW m \in SoundMaps, NEW o \in Ops
    PROVE  LET c == RollbackOp(m, o) IN
           /\ c \in SoundMaps
           /\ c.bad = (m.bad \/ ~Present(m.rows[o.key]))
           /\ c.rows = IF Present(m.rows[o.key])
                       THEN [m.rows EXCEPT ![o.key] = Restored(m.rows[o.key], o)] ELSE m.rows
           /\ c.ver = m.ver
<1> DEFINE k == o.key
           row == Restored(m.rows[k], o)
           c == RollbackOp(m, o)
           e == [m EXCEPT !.rows[k] = row]
<1>1. /\ k \in Keys /\ o.id \in Nat /\ o.op \in Marks
      /\ m \in Maps /\ m.rows[k] \in Rows /\ m.bad \in BOOLEAN /\ m.ver \in Nat
  BY DEF Ops, SoundMaps, Maps
<1>2. CASE ~Present(m.rows[k])
  <2>1. c = [m EXCEPT !.bad = TRUE]
    BY <1>2 DEF RollbackOp
  <2>2. c \in Maps /\ c.rows = m.rows /\ c.ver = m.ver /\ c.bad = TRUE
    BY <1>1, <2>1 DEF Maps
  <2>3. c \in SoundMaps
    BY <2>2 DEF SoundMaps
  <2>4. c.bad = (m.bad \/ ~Present(m.rows[k]))
    BY <1>2, <2>2
  <2> QED
    BY <1>2, <2>2, <2>3, <2>4
<1>3. CASE Present(m.rows[k])
  <2>1. row \in Rows /\ (~Present(row) => row = NoRow)
    <3>1. CASE o.kind = "insert"
      BY <3>1, NoRowIsARow DEF Restored
    <3>2. CASE o.kind # "insert"
      <4>1. m.rows[k].val \in Values /\ m.rows[k].val # NoValue
        BY <1>1, <1>3 DEF Rows, Present
      <4> QED
        BY <1>1, <3>2, <4>1, UnmarkedRow DEF Restored
    <3> QED
      BY <3>1, <3>2
  <2>2. /\ e \in SoundMaps /\ e.ver = m.ver /\ e.bad = m.bad
        /\ e.rows = [m.rows EXCEPT ![k] = row]
    BY <1>1, <2>1, MapWithARow
  <2>3. c = e
    BY <1>3 DEF RollbackOp, RollbackInsert, RollbackMark, Erased, Unlocked, Restored
  <2>4. c.bad = (m.bad \/ ~Present(m.rows[k]))
    BY <1>1, <1>3, <2>2, <2>3
  <2> HIDE DEF e, row
  <2> QED
    BY <1>3, <2>2, <2>3, <2>4 DEF row
<1> QED
  BY <1>2, <1>3

\* The first and the last operation of t on a key.
LEMMA EndsOfList ==
    ASSUME NEW t \in Txns, ops \in [Txns -> Seq(Ops)], NEW k \in KeysOf(t)
    PROVE  /\ \E i \in On(t, k) : IsFirst(t, i)
           /\ \E i \in On(t, k) : IsLast(t, i)
           /\ k \in Keys /\ On(t, k) \subseteq 1 .. Len(ops[t]) /\ Len(ops[t]) \in Nat
<1> DEFINE n == Len(ops[t])
<1>1. /\ n \in Nat /\ DOMAIN ops[t] = 1 .. n
      /\ \A i \in 1 .. n : ops[t][i] \in Ops
  OBVIOUS
<1>2. On(t, k) \subseteq 1 .. n /\ On(t, k) # {} /\ k \in Keys
  BY <1>1 DEF On, KeysOf, Ops
<1>3. PICK i \in On(t, k) : \A j \in On(t, k) : i <= j
  <2>1. On(t, k) \subseteq Nat
    BY <1>2
  <2> QED
    BY <1>2, <2>1, LeastOfNats
<1> DEFINE D == {n - j : j \in On(t, k)}
<1>4. PICK d \in D : \A e \in D : d <= e
  <2>1. D \subseteq Nat /\ D # {}
    BY <1>1, <1>2
  <2> QED
    BY <2>1, LeastOfNats
<1>5. PICK l \in On(t, k) : d = n - l
  BY <1>4
<1>6. \A j \in On(t, k) : j <= l
  <2> TAKE j \in On(t, k)
  <2>1. n - j \in D
    OBVIOUS
  <2>2. n - l <= n - j
    BY <1>4, <1>5, <2>1
  <2> QED
    BY <1>1, <1>2, <2>2
<1>7. IsFirst(t, i) /\ IsLast(t, l)
  BY <1>3, <1>5, <1>6 DEF IsFirst, IsLast, On
<1> QED
  BY <1>1, <1>2, <1>3, <1>5, <1>7

\* Commit goes through the list in its order.
LEMMA CommitInSteps ==
    ASSUME Typed, NEW t \in Txns, NEW lsn \in Nat,
           \A i \in DOMAIN ops[t] : ops[t][i].val # NoValue
    PROVE  \E h \in [0 .. Len(ops[t]) -> SoundMaps] :
              /\ h[0] = TheMap
              /\ \A i \in 1 .. Len(ops[t]) : h[i] = CommitOp(h[i - 1], ops[t][i], lsn)
              /\ CommittedMap(t, lsn) = h[Len(ops[t])]
<1> DEFINE n == Len(ops[t])
<1>1. /\ n \in Nat /\ DOMAIN ops[t] = 1 .. n
      /\ \A i \in 1 .. n : ops[t][i] \in Ops /\ ops[t][i].val # NoValue
  BY DEF Typed, TypeOK
<1>2. TheMap \in SoundMaps
  BY DEF Typed, TypeOK, TheMap, SoundMaps, Maps
<1> DEFINE step == [i \in 1 .. n |-> [m \in SoundMaps |-> CommitOp(m, ops[t][i], lsn)]]
<1>3. \A i \in 1 .. n, m \in SoundMaps : CommitOp(m, ops[t][i], lsn) \in SoundMaps
  BY <1>1, CommitOfOne
<1>4. step \in [1 .. n -> [SoundMaps -> SoundMaps]]
  BY <1>3
<1>5. PICK g \in [0 .. n -> SoundMaps] :
         g[0] = TheMap /\ \A i \in 1 .. n : g[i] = step[i][g[i - 1]]
  <2>1. n \in Nat
    BY <1>1
  <2> HIDE DEF step, n
  <2>2. CanIterate(n, SoundMaps, TheMap, step)
    BY <1>2, <1>4, <2>1, Iteration
  <2> QED
    BY <2>2 DEF CanIterate
<1>6. \A i \in 1 .. n : g[i] = CommitOp(g[i - 1], ops[t][i], lsn)
  <2> TAKE i \in 1 .. n
  <2>1. i - 1 \in 0 .. n
    BY <1>1
  <2>2. g[i - 1] \in SoundMaps
    BY <1>5, <2>1
  <2> QED
    BY <1>5, <2>2
<1> DEFINE Works(f) ==
        f = [i \in 0 .. n |-> IF i = 0 THEN TheMap ELSE CommitOp(f[i - 1], ops[t][i], lsn)]
<1>7. Works(g)
  <2>1. \A i \in 0 .. n :
          g[i] = IF i = 0 THEN TheMap ELSE CommitOp(g[i - 1], ops[t][i], lsn)
    BY <1>1, <1>5, <1>6
  <2> QED
    BY <1>5, <2>1
<1> DEFINE h == CHOOSE f : Works(f)
<1>8. Works(h)
  BY <1>7
<1>9. CommittedMap(t, lsn) = h[n]
  BY DEF CommittedMap
<1>10. h[0] = TheMap /\ \A i \in 1 .. n : h[i] = CommitOp(h[i - 1], ops[t][i], lsn)
  <2> HIDE DEF h
  <2>1. 0 \in 0 .. n /\ \A i \in 1 .. n : i \in 0 .. n /\ i # 0
    BY <1>1
  <2>2. \A i \in 0 .. n :
          h[i] = IF i = 0 THEN TheMap ELSE CommitOp(h[i - 1], ops[t][i], lsn)
    BY <1>8
  <2> QED
    BY <2>1, <2>2
<1>11. \A i \in 0 .. n : h[i] \in SoundMaps
  <2> HIDE DEF h
  <2> DEFINE S == {i \in 0 .. n : h[i] \in SoundMaps}
  <2>1. 0 \in S
    BY <1>1, <1>2, <1>10
  <2>2. ASSUME NEW i \in 0 .. n, i \in S, i < n
        PROVE  i + 1 \in S
    <3>1. i + 1 \in 1 .. n /\ i + 1 \in 0 .. n /\ (i + 1) - 1 = i
      BY <1>1, <2>2
    <3>2. h[i + 1] = CommitOp(h[i], ops[t][i + 1], lsn)
      BY <1>10, <3>1
    <3> QED
      BY <1>3, <2>2, <3>1, <3>2
  <2> HIDE DEF S
  <2>3. S = 0 .. n
    <3>1. S \subseteq 0 .. n
      BY DEF S
    <3>2. \A i \in 0 .. n : i \in S /\ i < n => i + 1 \in S
      BY <2>2
    <3> QED
      BY <1>1, <2>1, <3>1, <3>2, UpTo
  <2> QED
    BY <2>3 DEF S
<1>12. DOMAIN h = 0 .. n
  <2> HIDE DEF h
  <2> QED
    BY <1>8
<1>13. h \in [0 .. n -> SoundMaps]
  <2> HIDE DEF h
  <2>1. h = [i \in 0 .. n |-> h[i]]
    BY <1>8, <1>12
  <2> QED
    BY <1>11, <2>1
<1> QED
  BY <1>9, <1>10, <1>13

\* Rollback goes through the list in the reverse order.
LEMMA RollbackInSteps ==
    ASSUME Typed, NEW t \in Txns
    PROVE  \E h \in [0 .. Len(ops[t]) -> SoundMaps] :
              /\ h[0] = TheMap
              /\ \A i \in 1 .. Len(ops[t]) :
                    h[i] = RollbackOp(h[i - 1], ops[t][Len(ops[t]) + 1 - i])
              /\ RolledBackMap(t) = h[Len(ops[t])]
<1> DEFINE n == Len(ops[t])
<1>1. /\ n \in Nat /\ DOMAIN ops[t] = 1 .. n
      /\ \A i \in 1 .. n : n + 1 - i \in 1 .. n /\ ops[t][n + 1 - i] \in Ops
  BY DEF Typed, TypeOK
<1>2. TheMap \in SoundMaps
  BY DEF Typed, TypeOK, TheMap, SoundMaps, Maps
<1> DEFINE step == [i \in 1 .. n |-> [m \in SoundMaps |-> RollbackOp(m, ops[t][n + 1 - i])]]
<1>3. \A i \in 1 .. n, m \in SoundMaps : RollbackOp(m, ops[t][n + 1 - i]) \in SoundMaps
  BY <1>1, RollbackOfOne
<1>4. step \in [1 .. n -> [SoundMaps -> SoundMaps]]
  BY <1>3
<1>5. PICK g \in [0 .. n -> SoundMaps] :
         g[0] = TheMap /\ \A i \in 1 .. n : g[i] = step[i][g[i - 1]]
  <2>1. n \in Nat
    BY <1>1
  <2> HIDE DEF step, n
  <2>2. CanIterate(n, SoundMaps, TheMap, step)
    BY <1>2, <1>4, <2>1, Iteration
  <2> QED
    BY <2>2 DEF CanIterate
<1>6. \A i \in 1 .. n : g[i] = RollbackOp(g[i - 1], ops[t][n + 1 - i])
  <2> TAKE i \in 1 .. n
  <2>1. i - 1 \in 0 .. n
    BY <1>1
  <2>2. g[i - 1] \in SoundMaps
    BY <1>5, <2>1
  <2> QED
    BY <1>5, <2>2
<1> DEFINE Works(f) ==
        f = [i \in 0 .. n |-> IF i = 0 THEN TheMap ELSE RollbackOp(f[i - 1], ops[t][n + 1 - i])]
<1>7. Works(g)
  <2>1. \A i \in 0 .. n :
          g[i] = IF i = 0 THEN TheMap ELSE RollbackOp(g[i - 1], ops[t][n + 1 - i])
    BY <1>1, <1>5, <1>6
  <2> QED
    BY <1>5, <2>1
<1> DEFINE h == CHOOSE f : Works(f)
<1>8. Works(h)
  BY <1>7
<1>9. RolledBackMap(t) = h[n]
  BY DEF RolledBackMap
<1>10. h[0] = TheMap /\ \A i \in 1 .. n : h[i] = RollbackOp(h[i - 1], ops[t][n + 1 - i])
  <2> HIDE DEF h
  <2>1. 0 \in 0 .. n /\ \A i \in 1 .. n : i \in 0 .. n /\ i # 0
    BY <1>1
  <2>2. \A i \in 0 .. n :
          h[i] = IF i = 0 THEN TheMap ELSE RollbackOp(h[i - 1], ops[t][n + 1 - i])
    BY <1>8
  <2> QED
    BY <2>1, <2>2
<1>11. \A i \in 0 .. n : h[i] \in SoundMaps
  <2> HIDE DEF h
  <2> DEFINE S == {i \in 0 .. n : h[i] \in SoundMaps}
  <2>1. 0 \in S
    BY <1>1, <1>2, <1>10
  <2>2. ASSUME NEW i \in 0 .. n, i \in S, i < n
        PROVE  i + 1 \in S
    <3>1. i + 1 \in 1 .. n /\ i + 1 \in 0 .. n /\ (i + 1) - 1 = i
      BY <1>1, <2>2
    <3>2. h[i + 1] = RollbackOp(h[i], ops[t][n + 1 - (i + 1)])
      BY <1>10, <3>1
    <3> QED
      BY <1>3, <2>2, <3>1, <3>2
  <2> HIDE DEF S
  <2>3. S = 0 .. n
    <3>1. S \subseteq 0 .. n
      BY DEF S
    <3>2. \A i \in 0 .. n : i \in S /\ i < n => i + 1 \in S
      BY <2>2
    <3> QED
      BY <1>1, <2>1, <3>1, <3>2, UpTo
  <2> QED
    BY <2>3 DEF S
<1>12. DOMAIN h = 0 .. n
  <2> HIDE DEF h
  <2> QED
    BY <1>8
<1>13. h \in [0 .. n -> SoundMaps]
  <2> HIDE DEF h
  <2>1. h = [i \in 0 .. n |-> h[i]]
    BY <1>8, <1>12
  <2> QED
    BY <1>11, <2>1
<1> QED
  BY <1>9, <1>10, <1>13

\* The row of k in m when a commit of t with this LSN has come past its mark, at the
\* latest at the i-th operation.
Settled(t, m, k, lsn, i) ==
    /\ m.rows[k].op = "none"
    /\ Present(m.rows[k]) => m.rows[k].id \in Lsns \cup {lsn}
    /\ rows[k].op \in {"delete", "deleted_insert"} <=> ~Present(m.rows[k])
    /\ rows[k].op = "delete" => m.ver > ver_num
    /\ \E j \in On(t, k) : /\ j <= i /\ ops[t][j].kind = rows[k].op
                          /\ m.rows[k] = Committed(rows[k], ops[t][j], lsn)

\* The map m after the first i operations of t's commit.
Committing(t, m, lsn, i) ==
    /\ m.ver >= ver_num
    /\ \A k \in Keys \ KeysOf(t) : m.rows[k] = rows[k]
    /\ \A k \in KeysOf(t) : m.rows[k] = rows[k] \/ Settled(t, m, k, lsn, i)
    /\ \A j \in 1 .. i :
          ops[t][j].kind = rows[ops[t][j].key].op => Settled(t, m, ops[t][j].key, lsn, i)
    /\ m.bad => \E k \in Keys : Twice(t, k)

\* An operation whose row has gone comes after a delete of that row, and so does another.
LEMMA GoneByADelete ==
    ASSUME Typed, NEW t \in Txns, \A i \in DOMAIN ops[t] : IsTraced(t, i),
           NEW i \in DOMAIN ops[t], NEW m \in SoundMaps, NEW lsn \in Nat, NEW l \in Nat, l < i,
           Settled(t, m, ops[t][i].key, lsn, l), ~Present(m.rows[ops[t][i].key])
    PROVE  ops[t][i].key \in Keys /\ Twice(t, ops[t][i].key)
<1> DEFINE k == ops[t][i].key
<1>1. /\ k \in KeysOf(t) /\ i \in On(t, k) /\ ops \in [Txns -> Seq(Ops)]
      /\ On(t, k) \subseteq DOMAIN ops[t] /\ DOMAIN ops[t] = 1 .. Len(ops[t])
      /\ \A j \in On(t, k) : ops[t][j].key = k
  BY DEF KeysOf, On, Typed, TypeOK
<1>2. PICK j \in On(t, k) : j <= l /\ ops[t][j].kind = rows[k].op
  BY DEF Settled
<1>3. PICK e \in On(t, k) : IsLast(t, e)
  BY <1>1, EndsOfList
<1>4. /\ e \in DOMAIN ops[t] /\ j \in DOMAIN ops[t]
      /\ ops[t][e].key = k /\ ops[t][j].key = k
  BY <1>1
<1>5. ops[t][e].kind = rows[k].op
  BY <1>3, <1>4 DEF IsTraced
<1>6. i <= e /\ j < i /\ i \in Nat /\ e \in Nat /\ j \in Nat
  BY <1>1, <1>2, <1>3, <1>4 DEF IsLast
<1>7. rows[k].op \in {"delete", "deleted_insert"}
  BY DEF Settled
<1>8. rows[k].op # "deleted_insert"
  <2> SUFFICES ASSUME rows[k].op = "deleted_insert" PROVE FALSE
    OBVIOUS
  <2>1. IsLast(t, j)
    BY <1>2, <1>4 DEF IsTraced
  <2> QED
    BY <1>1, <1>4, <1>6, <2>1 DEF IsLast
<1>9. j \in Listed(t, k, "delete") /\ e \in Listed(t, k, "delete") /\ j # e
  BY <1>2, <1>4, <1>5, <1>6, <1>7, <1>8 DEF Listed
<1>10. k \in Keys
  BY <1>1, EndsOfList
<1> QED
  BY <1>9, <1>10 DEF Twice

\* What is so of the map before the commit of an operation is so of the one after it.
LEMMA CommittingGoesOn ==
    ASSUME Typed, NEW t \in Txns, \A i \in DOMAIN ops[t] : IsTraced(t, i),
           NEW lsn \in Nat, NEW m \in SoundMaps, NEW i \in Nat, i + 1 \in DOMAIN ops[t],
           Committing(t, m, lsn, i)
    PROVE  Committing(t, CommitOp(m, ops[t][i + 1], lsn), lsn, i + 1)
<1> DEFINE o == ops[t][i + 1]
           k == o.key
           c == CommitOp(m, o, lsn)
<1>0. o \in Ops /\ DOMAIN ops[t] = 1 .. Len(ops[t]) /\ \A j \in DOMAIN ops[t] : ops[t][j] \in Ops
  BY DEF Typed, TypeOK
<1>1. /\ o \in Ops /\ o.val # NoValue /\ k \in Keys /\ k \in KeysOf(t)
      /\ o.kind \in Marks \ {"none"} /\ Present(rows[k]) /\ rows[k].op # "none"
      /\ i + 1 \in On(t, k) /\ DOMAIN ops[t] = 1 .. Len(ops[t])
  <2>1. o.val # NoValue /\ Present(rows[k]) /\ rows[k].op # "none"
    BY DEF IsTraced
  <2>2. k \in Keys /\ o.kind \in Marks \ {"none"}
    BY <1>0 DEF Ops
  <2> QED
    BY <1>0, <2>1, <2>2 DEF KeysOf, On
<1>2. /\ m.ver \in Nat /\ ver_num \in Nat /\ m.rows \in [Keys -> Rows] /\ m.bad \in BOOLEAN
      /\ rows \in [Keys -> Rows]
  BY DEF SoundMaps, Maps, Typed, TypeOK
<1>3. /\ c \in SoundMaps
      /\ c.bad = (m.bad \/ ~Present(m.rows[k]))
      /\ c.rows = IF Present(m.rows[k]) /\ m.rows[k].op = o.kind
                  THEN [m.rows EXCEPT ![k] = Committed(m.rows[k], o, lsn)] ELSE m.rows
      /\ c.ver = IF Present(m.rows[k]) /\ m.rows[k].op = o.kind /\ o.kind = "delete"
                 THEN m.ver + 1 ELSE m.ver
  BY <1>1, CommitOfOne
<1> HIDE DEF c
<1>4. c.ver >= ver_num /\ c.ver >= m.ver /\ c.ver \in Nat
  <2>1. c.ver = m.ver \/ c.ver = m.ver + 1
    BY <1>3
  <2>2. m.ver >= ver_num
    BY DEF Committing
  <2> QED
    BY <1>2, <2>1, <2>2
\* A settled row stays so.
<1>5. ASSUME NEW x \in KeysOf(t), Settled(t, m, x, lsn, i), c.rows[x] = m.rows[x]
      PROVE  Settled(t, c, x, lsn, i + 1)
  <2>1. \E j \in On(t, x) : /\ j <= i + 1 /\ ops[t][j].kind = rows[x].op
                            /\ c.rows[x] = Committed(rows[x], ops[t][j], lsn)
    <3>1. PICK j \in On(t, x) : /\ j <= i /\ ops[t][j].kind = rows[x].op
                                /\ c.rows[x] = Committed(rows[x], ops[t][j], lsn)
      BY <1>5 DEF Settled
    <3>2. j \in Nat
      BY <1>1 DEF On
    <3> QED
      BY <3>1, <3>2
  <2> QED
    BY <1>2, <1>4, <1>5, <2>1 DEF Settled
<1>6. \A x \in Keys \ {k} : c.rows[x] = m.rows[x]
  BY <1>1, <1>2, <1>3
<1>7. KeysOf(t) \subseteq Keys
  BY <1>0 DEF KeysOf, Ops
<1>8. c.rows[k] = rows[k] \/ Settled(t, c, k, lsn, i + 1)
  <2>1. CASE Present(m.rows[k]) /\ m.rows[k].op = o.kind
    <3>1. m.rows[k] = rows[k]
      BY <1>1, <2>1 DEF Committing, Settled
    <3>2. c.rows[k] = Committed(rows[k], o, lsn) /\ rows[k].op = o.kind
      BY <1>1, <1>2, <1>3, <2>1, <3>1
    <3>3. o.kind = "lock" => o.id \in Lsns
      BY <1>1 DEF IsTraced
    <3>4. o.kind = "delete" => c.ver > ver_num
      BY <1>2, <1>3, <2>1 DEF Committing
    <3>5. \E j \in On(t, k) : /\ j <= i + 1 /\ ops[t][j].kind = rows[k].op
                              /\ c.rows[k] = Committed(rows[k], ops[t][j], lsn)
      <4>1. i + 1 \in On(t, k) /\ i + 1 <= i + 1 /\ ops[t][i + 1] = o
        BY <1>1
      <4> QED
        BY <3>2, <4>1
    <3>6. CASE o.kind \in {"delete", "deleted_insert"}
      <4>1. c.rows[k] = NoRow
        BY <3>2, <3>6 DEF Committed
      <4> QED
        BY <3>2, <3>4, <3>5, <3>6, <4>1, NoRowIsARow DEF Settled
    <3>7. CASE o.kind \notin {"delete", "deleted_insert"}
      <4>1. /\ c.rows[k].op = "none"
            /\ c.rows[k].val = (IF o.kind = "update" THEN o.val ELSE rows[k].val)
            /\ c.rows[k].id = (IF o.kind = "lock" THEN o.id ELSE lsn)
        BY <3>2, <3>7 DEF Committed
      <4>2. Present(c.rows[k]) /\ c.rows[k].id \in Lsns \cup {lsn}
        BY <1>1, <3>3, <4>1 DEF Present
      <4> QED
        BY <3>2, <3>5, <3>7, <4>1, <4>2 DEF Settled
    <3> QED
      BY <3>6, <3>7
  <2>2. CASE ~(Present(m.rows[k]) /\ m.rows[k].op = o.kind)
    <3>1. c.rows[k] = m.rows[k]
      BY <1>3, <2>2
    <3> QED
      BY <1>1, <1>5, <3>1 DEF Committing
  <2> QED
    BY <2>1, <2>2
<1>9. \A x \in KeysOf(t) : c.rows[x] = rows[x] \/ Settled(t, c, x, lsn, i + 1)
  BY <1>5, <1>6, <1>7, <1>8 DEF Committing
<1>10. ASSUME NEW j \in 1 .. i + 1, ops[t][j].kind = rows[ops[t][j].key].op
       PROVE  Settled(t, c, ops[t][j].key, lsn, i + 1)
  <2> DEFINE x == ops[t][j].key
  <2>1. j \in DOMAIN ops[t] /\ x \in KeysOf(t) /\ x \in Keys
    <3>1. j \in DOMAIN ops[t]
      BY <1>1
    <3> QED
      BY <1>7, <3>1 DEF KeysOf
  <2>2. CASE x # k
    <3>1. j \in 1 .. i
      BY <2>2
    <3>2. Settled(t, m, x, lsn, i)
      BY <1>10, <3>1 DEF Committing
    <3> QED
      BY <1>5, <1>6, <2>1, <2>2, <3>2
  <2>3. CASE x = k
    <3>1. c.rows[k] # rows[k]
      <4> SUFFICES ASSUME c.rows[k] = rows[k] PROVE FALSE
        OBVIOUS
      <4>1. j = i + 1
        <5>1. j \in 1 .. i => Settled(t, m, k, lsn, i)
          BY <1>10, <2>3 DEF Committing
        <5>2. Settled(t, m, k, lsn, i) => m.rows[k].op = "none" /\ c.rows[k].op = "none"
          <6>1. Settled(t, m, k, lsn, i) => m.rows[k].op = "none"
            BY DEF Settled
          <6>2. m.rows[k].op = "none" => c.rows[k] = m.rows[k]
            BY <1>1, <1>3
          <6> QED
            BY <6>1, <6>2
        <5> QED
          BY <1>1, <5>1, <5>2
      <4>2. rows[k].op = o.kind
        BY <1>10, <4>1
      <4>3. Present(m.rows[k]) /\ m.rows[k].op = o.kind
        <5>1. CASE m.rows[k] = rows[k]
          BY <1>1, <4>2, <5>1
        <5>2. CASE m.rows[k] # rows[k]
          <6>1. c.rows[k] = m.rows[k]
            BY <1>1, <1>3, <5>2 DEF Committing, Settled
          <6> QED
            BY <5>2, <6>1
        <5> QED
          BY <5>1, <5>2
      <4>4. c.rows[k] = Committed(m.rows[k], o, lsn)
        BY <1>1, <1>2, <1>3, <4>3
      <4>5. c.rows[k].op = "none"
        BY <4>4, NoRowIsARow DEF Committed
      <4> QED
        BY <1>1, <4>5
    <3> QED
      BY <1>8, <2>3, <3>1
  <2> QED
    BY <2>2, <2>3
<1>11. c.bad => \E x \in Keys : Twice(t, x)
  <2>1. CASE m.bad
    BY <2>1 DEF Committing
  <2>2. CASE ~Present(m.rows[k])
    <3>1. Settled(t, m, k, lsn, i)
      BY <1>1, <2>2 DEF Committing
    <3> QED
      BY <2>2, <3>1, GoneByADelete
  <2> QED
    BY <1>3, <2>1, <2>2
<1>12. \A x \in Keys \ KeysOf(t) : c.rows[x] = rows[x]
  BY <1>1, <1>6 DEF Committing
<1> QED
  BY <1>4, <1>9, <1>10, <1>11, <1>12 DEF Committing, c

\* Commit gives the rows of its transaction up and leaves the others alone; those that it
\* erases with a delete take the map to a new version.
LEMMA CommitOfAll ==
    ASSUME Typed, NEW t \in Txns, \A i \in DOMAIN ops[t] : IsTraced(t, i), NEW lsn \in Nat
    PROVE  LET m == CommittedMap(t, lsn) IN
           /\ m \in SoundMaps /\ m.ver >= ver_num
           /\ \A k \in Keys \ KeysOf(t) : m.rows[k] = rows[k]
           /\ \A k \in KeysOf(t) : Settled(t, m, k, lsn, Len(ops[t]))
           /\ m.bad => \E k \in Keys : Twice(t, k)
<1> DEFINE n == Len(ops[t])
<1>1. /\ n \in Nat /\ DOMAIN ops[t] = 1 .. n /\ ops \in [Txns -> Seq(Ops)]
      /\ \A i \in DOMAIN ops[t] : ops[t][i].val # NoValue
  BY DEF Typed, TypeOK, IsTraced
<1>2. PICK h \in [0 .. n -> SoundMaps] :
         /\ h[0] = TheMap
         /\ \A i \in 1 .. n : h[i] = CommitOp(h[i - 1], ops[t][i], lsn)
         /\ CommittedMap(t, lsn) = h[n]
  BY <1>1, CommitInSteps
<1> DEFINE S == {i \in 0 .. n : Committing(t, h[i], lsn, i)}
<1>3. 0 \in S
  <2>1. TheMap.rows = rows /\ TheMap.ver = ver_num /\ TheMap.bad = FALSE
    BY DEF TheMap
  <2>2. Committing(t, TheMap, lsn, 0)
    BY <2>1 DEF Committing, Typed, TypeOK
  <2> QED
    BY <1>1, <1>2, <2>2
<1>4. ASSUME NEW i \in 0 .. n, i \in S, i < n
      PROVE  i + 1 \in S
  <2>1. i \in Nat /\ i + 1 \in 1 .. n /\ i + 1 \in 0 .. n /\ (i + 1) - 1 = i
    BY <1>1, <1>4
  <2>2. h[i + 1] = CommitOp(h[i], ops[t][i + 1], lsn) /\ h[i] \in SoundMaps
    BY <1>2, <2>1
  <2>3. Committing(t, h[i], lsn, i)
    BY <1>4
  <2>4. Committing(t, h[i + 1], lsn, i + 1)
    <3>1. i + 1 \in DOMAIN ops[t]
      BY <1>1, <2>1
    <3>2. Committing(t, CommitOp(h[i], ops[t][i + 1], lsn), lsn, i + 1)
      BY <2>1, <2>2, <2>3, <3>1, CommittingGoesOn
    <3> QED
      BY <2>2, <3>2
  <2> QED
    BY <2>1, <2>4
<1>5. Committing(t, h[n], lsn, n)
  <2> HIDE DEF S
  <2>1. S \subseteq 0 .. n
    BY DEF S
  <2>2. \A i \in 0 .. n : i \in S /\ i < n => i + 1 \in S
    BY <1>4
  <2>3. S = 0 .. n
    BY <1>1, <1>3, <2>1, <2>2, UpTo
  <2>4. n \in S
    BY <1>1, <2>3
  <2> QED
    BY <2>4 DEF S
<1>6. ASSUME NEW k \in KeysOf(t)
      PROVE  Settled(t, h[n], k, lsn, n)
  <2>1. PICK e \in On(t, k) : IsLast(t, e)
    BY <1>1, EndsOfList
  <2>2. e \in 1 .. n /\ ops[t][e].key = k
    BY <1>1, <2>1 DEF On
  <2>3. ops[t][e].kind = rows[k].op
    BY <1>1, <2>1, <2>2 DEF IsTraced
  <2> QED
    BY <1>5, <2>2, <2>3 DEF Committing
<1>7. h[n] \in SoundMaps
  BY <1>1, <1>2
<1> QED
  BY <1>2, <1>5, <1>6, <1>7 DEF Committing

\* The map m after the rollback of the operations of t after the first n: a row has become
\* what the first of these on it has found.
RollingBack(t, m, n) ==
    /\ m.ver = ver_num /\ m.bad = FALSE
    /\ \A k \in Keys : (\A j \in On(t, k) : j <= n) => m.rows[k] = rows[k]
    /\ \A j \in DOMAIN ops[t] :
          n < j /\ (\A l \in On(t, ops[t][j].key) : n < l => j <= l) =>
             m.rows[ops[t][j].key] = Restored(rows[ops[t][j].key], ops[t][j])

\* What is so of the map before the rollback of an operation is so of the one after it.
LEMMA RollingBackGoesOn ==
    ASSUME Typed, NEW t \in Txns, \A i \in DOMAIN ops[t] : IsTraced(t, i),
           NEW m \in SoundMaps, NEW n \in DOMAIN ops[t], RollingBack(t, m, n)
    PROVE  RollingBack(t, RollbackOp(m, ops[t][n]), n - 1)
<1> DEFINE o == ops[t][n]
           k == o.key
           c == RollbackOp(m, o)
<1>0. /\ DOMAIN ops[t] = 1 .. Len(ops[t]) /\ ops \in [Txns -> Seq(Ops)]
      /\ \A j \in DOMAIN ops[t] : ops[t][j] \in Ops
  BY DEF Typed, TypeOK
<1>1. /\ o \in Ops /\ k \in Keys /\ n \in On(t, k) /\ k \in KeysOf(t)
      /\ Present(rows[k]) /\ n \in Nat /\ On(t, k) \subseteq DOMAIN ops[t]
  <2>1. Present(rows[k])
    BY DEF IsTraced
  <2> QED
    BY <1>0, <2>1 DEF Ops, On, KeysOf
<1>2. m.rows \in [Keys -> Rows] /\ rows \in [Keys -> Rows]
  BY DEF SoundMaps, Maps, Typed, TypeOK
<1>3. Present(m.rows[k]) /\ m.rows[k].val = rows[k].val
  <2>1. CASE \A j \in On(t, k) : j <= n
    BY <1>1, <2>1 DEF RollingBack
  <2>2. CASE \E j \in On(t, k) : ~(j <= n)
    <3> DEFINE L == {j \in On(t, k) : n < j}
    <3>1. L \subseteq Nat /\ L # {}
      BY <1>0, <1>1, <2>2
    <3>2. PICK l \in L : \A j \in L : l <= j
      <4> HIDE DEF L
      <4> QED
        BY <3>1, LeastOfNats
    <3>3. l \in DOMAIN ops[t] /\ ops[t][l].key = k /\ n < l
      BY <1>1 DEF On
    <3>4. m.rows[k] = Restored(rows[k], ops[t][l])
      BY <3>2, <3>3 DEF RollingBack
    <3>5. ops[t][l].kind # "insert"
      <4> SUFFICES ASSUME ops[t][l].kind = "insert" PROVE FALSE
        OBVIOUS
      <4>1. IsFirst(t, l)
        BY <3>3 DEF IsTraced
      <4>2. l <= n
        BY <1>1, <3>3, <4>1 DEF IsFirst
      <4> QED
        BY <1>0, <1>1, <3>3, <4>2
    <3>6. m.rows[k].val = rows[k].val
      BY <3>4, <3>5 DEF Restored
    <3> QED
      BY <1>1, <3>6 DEF Present
  <2> QED
    BY <2>1, <2>2
<1>4. /\ c.bad = FALSE /\ c.ver = ver_num
      /\ c.rows = [m.rows EXCEPT ![k] = Restored(m.rows[k], o)]
  <2>1. c.bad = (m.bad \/ ~Present(m.rows[k]))
    BY <1>1, RollbackOfOne
  <2>2. c.ver = m.ver
    BY <1>1, RollbackOfOne
  <2>3. c.rows = [m.rows EXCEPT ![k] = Restored(m.rows[k], o)]
    BY <1>1, <1>3, RollbackOfOne
  <2>4. c.bad = FALSE
    BY <1>3, <2>1 DEF RollingBack
  <2> QED
    BY <2>2, <2>3, <2>4 DEF RollingBack
<1>5. Restored(m.rows[k], o) = Restored(rows[k], o)
  BY <1>3 DEF Restored
<1>6. c.rows[k] = Restored(rows[k], o) /\ \A x \in Keys \ {k} : c.rows[x] = m.rows[x]
  BY <1>1, <1>2, <1>4, <1>5
<1> HIDE DEF c
<1>7. ASSUME NEW x \in Keys, \A j \in On(t, x) : j <= n - 1
      PROVE  c.rows[x] = rows[x]
  <2>1. x # k
    BY <1>1, <1>7
  <2>2. \A j \in On(t, x) : j <= n
    BY <1>0, <1>1, <1>7 DEF On
  <2> QED
    BY <1>6, <2>1, <2>2 DEF RollingBack
<1>8. ASSUME NEW j \in DOMAIN ops[t], n - 1 < j,
             \A l \in On(t, ops[t][j].key) : n - 1 < l => j <= l
      PROVE  c.rows[ops[t][j].key] = Restored(rows[ops[t][j].key], ops[t][j])
  <2> DEFINE x == ops[t][j].key
  <2>1. x \in Keys /\ j \in Nat /\ j \in On(t, x)
    BY <1>0 DEF Ops, On
  <2>2. CASE x = k
    <3>1. j <= n
      BY <1>1, <1>8, <2>2
    <3>2. j = n
      BY <1>1, <1>8, <2>1, <3>1
    <3> QED
      BY <1>6, <3>2
  <2>3. CASE x # k
    <3>1. n < j
      BY <1>1, <1>8, <2>1, <2>3
    <3>2. \A l \in On(t, x) : n < l => j <= l
      BY <1>0, <1>1, <1>8 DEF On
    <3> QED
      BY <1>6, <2>1, <2>3, <3>1, <3>2 DEF RollingBack
  <2> QED
    BY <2>2, <2>3
<1> QED
  BY <1>4, <1>7, <1>8 DEF RollingBack, c

\* Rollback leaves a row as the transaction's first operation on it has found it.
LEMMA RollbackOfAll ==
    ASSUME Typed, NEW t \in Txns, \A i \in DOMAIN ops[t] : IsTraced(t, i)
    PROVE  LET m == RolledBackMap(t) IN
           /\ m \in SoundMaps /\ m.ver = ver_num /\ m.bad = FALSE
           /\ \A k \in Keys \ KeysOf(t) : m.rows[k] = rows[k]
           /\ \A k \in KeysOf(t) : \E j \in On(t, k) :
                 IsFirst(t, j) /\ m.rows[k] = Restored(rows[k], ops[t][j])
<1> DEFINE n == Len(ops[t])
<1>1. n \in Nat /\ DOMAIN ops[t] = 1 .. n /\ ops \in [Txns -> Seq(Ops)]
  BY DEF Typed, TypeOK
<1>2. PICK h \in [0 .. n -> SoundMaps] :
         /\ h[0] = TheMap
         /\ \A i \in 1 .. n : h[i] = RollbackOp(h[i - 1], ops[t][n + 1 - i])
         /\ RolledBackMap(t) = h[n]
  BY RollbackInSteps
<1> DEFINE S == {i \in 0 .. n : RollingBack(t, h[i], n - i)}
<1>3. 0 \in S
  <2>1. TheMap.rows = rows /\ TheMap.ver = ver_num /\ TheMap.bad = FALSE
    BY DEF TheMap
  <2>2. \A j \in DOMAIN ops[t] : ~(n < j)
    BY <1>1
  <2>3. RollingBack(t, TheMap, n)
    BY <2>1, <2>2 DEF RollingBack
  <2>4. n - 0 = n /\ 0 \in 0 .. n
    BY <1>1
  <2> QED
    BY <1>2, <2>3, <2>4
<1>4. ASSUME NEW i \in 0 .. n, i \in S, i < n
      PROVE  i + 1 \in S
  <2>a. i \in Nat /\ n \in Nat /\ i < n
    BY <1>1, <1>4
  <2>b. /\ i + 1 \in 1 .. n /\ i + 1 \in 0 .. n /\ (i + 1) - 1 = i /\ n - i \in 1 .. n
        /\ n + 1 - (i + 1) = n - i /\ (n - i) - 1 = n - (i + 1)
    <3> HIDE DEF n, S
    <3> QED
      BY <2>a
  <2>1. /\ i + 1 \in 1 .. n /\ i + 1 \in 0 .. n /\ (i + 1) - 1 = i /\ n - i \in DOMAIN ops[t]
        /\ n + 1 - (i + 1) = n - i /\ (n - i) - 1 = n - (i + 1)
    BY <1>1, <2>b
  <2>2. h[i + 1] = RollbackOp(h[i], ops[t][n - i]) /\ h[i] \in SoundMaps
    BY <1>2, <2>1
  <2>3. RollingBack(t, h[i], n - i)
    BY <1>4
  <2>4. RollingBack(t, RollbackOp(h[i], ops[t][n - i]), (n - i) - 1)
    BY <2>1, <2>2, <2>3, RollingBackGoesOn
  <2> QED
    BY <2>1, <2>2, <2>4
<1>5. RollingBack(t, h[n], 0)
  <2> HIDE DEF S
  <2>1. S \subseteq 0 .. n
    BY DEF S
  <2>2. \A i \in 0 .. n : i \in S /\ i < n => i + 1 \in S
    BY <1>4
  <2>3. S = 0 .. n
    BY <1>1, <1>3, <2>1, <2>2, UpTo
  <2>4. n \in S /\ n - n = 0
    BY <1>1, <2>3
  <2> QED
    BY <2>4 DEF S
<1>6. ASSUME NEW k \in KeysOf(t)
      PROVE  \E j \in On(t, k) : IsFirst(t, j) /\ h[n].rows[k] = Restored(rows[k], ops[t][j])
  <2>1. PICK j \in On(t, k) : IsFirst(t, j)
    BY <1>1, EndsOfList
  <2>2. j \in DOMAIN ops[t] /\ ops[t][j].key = k /\ 0 < j
    BY <1>1, <2>1 DEF On
  <2>3. \A l \in On(t, k) : j <= l
    BY <2>1, <2>2 DEF IsFirst
  <2>4. h[n].rows[k] = Restored(rows[k], ops[t][j])
    BY <1>5, <2>2, <2>3 DEF RollingBack
  <2> QED
    BY <2>1, <2>4
<1>7. \A k \in Keys \ KeysOf(t) : h[n].rows[k] = rows[k]
  <2>1. \A k \in Keys \ KeysOf(t) : On(t, k) = {}
    BY DEF On, KeysOf
  <2> QED
    BY <1>5, <2>1 DEF RollingBack
<1>8. h[n] \in SoundMaps
  BY <1>1, <1>2
<1> QED
  BY <1>2, <1>5, <1>6, <1>7, <1>8 DEF RollingBack

-----------------------------------------------------------------------------
\* Steps

USE DEF map, locks, txns

\* What an operation or a retry amounts to when its iterator is good.
Works(t, kind, k) ==
    /\ ~corrupt /\ pc[t] \in {"active", "woken"} /\ container = NoTxn
    /\ kind # "insert" =>
          Present(rows[k]) /\ (rows[k].op = "insert" => rows[k].id = id[t])
    /\ Attempt(t, kind, k)
    /\ made' \in [Txns -> Nat]
    /\ UNCHANGED <<ver_num, container, next_txn_id, next_lsn, log, id, retouched, corrupt>>

\* A retry that finds its row gone.
GivesUp(t) ==
    /\ ~corrupt /\ pc[t] = "woken"
    /\ Goto(t, "active")
    /\ wait' = [wait EXCEPT ![t] = NoCall]
    /\ UNCHANGED <<map, locks, next_txn_id, next_lsn, log, id, ops, made, asked, retouched,
                   corrupt>>

\* A retry that goes on with an iterator to an erased entry.
Dangles(t) ==
    /\ pc[t] = "woken" /\ wait[t].stale /\ ~MustFindAgain(t)
    /\ corrupt' = TRUE
    /\ UNCHANGED <<map, locks, next_txn_id, next_lsn, log, txns, asked, retouched>>

\* A step that is neither an operation nor one that changes rows.
Quiet(t) ==
    \/ Begin(t) \/ Sleep(t) \/ Timeout(t) \/ WriteRecord(t) \/ Notify(t)
    \/ GivesUp(t) \/ Dangles(t)

Steps(t) ==
    \/ Quiet(t) \/ Commit(t) \/ Rollback(t)
    \/ \E kind \in Kinds, k \in Keys : Works(t, kind, k)

\* An iterator that is not stale points to a row that the call could find.
LEMMA IteratorsAreGood ==
    ASSUME MapInv, ~corrupt, NEW t \in Txns, pc[t] = "woken", ~wait[t].stale,
           wait[t].kind # "insert"
    PROVE  /\ Present(rows[wait[t].key])
           /\ rows[wait[t].key].op = "insert" => rows[wait[t].key].id = id[t]
<1> DEFINE k == wait[t].key
<1>1. Waiting(t) /\ wait[t].kind \in RowKinds /\ k \in Keys
  BY DEF MapInv, PointsAreReal, PointOf, Waiting
<1>2. IteratorPoints(t)
  BY DEF MapInv, IteratorsPoint
<1>3. ASSUME rows[k].op = "insert" PROVE FALSE
  <2>1. \A u \in Txns : Unfinished(u) => Listed(u, k, "insert") = {}
    BY <1>1, <1>2, <1>3 DEF IteratorPoints
  <2>2. PICK u \in Txns : Unfinished(u) /\ k \in KeysOf(u)
    BY <1>1, <1>3 DEF MapInv, MarksAreHeld, MarkIsHeld
  <2>3. ops \in [Txns -> Seq(Ops)]
    BY DEF MapInv, Typed, TypeOK
  <2>4. PICK i \in On(u, k) : IsLast(u, i)
    BY <2>2, <2>3, EndsOfList
  <2>5. i \in DOMAIN ops[u] /\ ops[u][i].key = k
    BY <2>4 DEF On
  <2>6. ops[u][i].kind = "insert"
    BY <1>3, <2>2, <2>4, <2>5 DEF MapInv, OpsAreTraced, IsTraced
  <2> QED
    BY <2>1, <2>2, <2>5, <2>6 DEF Listed
<1> QED
  BY <1>1, <1>2, <1>3 DEF IteratorPoints

\* An operation has an iterator to a row that it can work on.
LEMMA OperationsWork ==
    ASSUME MapInv, NEW t \in Txns, NEW kind \in Kinds, NEW k \in Keys, Operate(t, kind, k)
    PROVE  Works(t, kind, k)
<1>1. kind # "insert" => Present(rows[k]) /\ (rows[k].op = "insert" => rows[k].id = id[t])
  BY DEF Operate, Found
<1>2. made' \in [Txns -> Nat]
  BY DEF Operate, MapInv, Typed, TypeOK
<1> QED
  BY <1>1, <1>2 DEF Operate, Works, MayLook

\* A retry has one, too, or gives up, or uses one that is stale.
LEMMA RetriesWork ==
    ASSUME MapInv, NEW t \in Txns, Retry(t)
    PROVE  Steps(t)
<1> DEFINE kind == wait[t].kind
           k == wait[t].key
<1>1. kind \in Kinds /\ k \in Keys /\ (wait[t].stale => kind \in RowKinds)
  BY DEF MapInv, PointsAreReal, PointOf, Waiting, Retry
<1>2. ~corrupt /\ pc[t] = "woken" /\ container = NoTxn
      /\ UNCHANGED <<ver_num, container, next_txn_id, next_lsn, log, id, made, retouched>>
  BY DEF Retry, MayLook
<1>3. made' \in [Txns -> Nat]
  BY <1>2 DEF MapInv, Typed, TypeOK
<1>4. CASE /\ IF MustFindAgain(t) THEN Found(t, rows[k]) ELSE ~wait[t].stale
           /\ Attempt(t, kind, k)
           /\ UNCHANGED corrupt
  <2>1. kind # "insert" => Present(rows[k]) /\ (rows[k].op = "insert" => rows[k].id = id[t])
    <3>1. CASE MustFindAgain(t)
      BY <1>4, <3>1 DEF Found
    <3>2. CASE ~MustFindAgain(t)
      BY <1>2, <1>4, <3>2, IteratorsAreGood
    <3> QED
      BY <3>1, <3>2
  <2>2. Works(t, kind, k)
    BY <1>2, <1>3, <1>4, <2>1 DEF Works
  <2> QED
    BY <1>1, <2>2 DEF Steps
<1>5. CASE /\ Goto(t, "active")
           /\ wait' = [wait EXCEPT ![t] = NoCall]
           /\ UNCHANGED <<rows, ops, row_mutex, asked, corrupt>>
  BY <1>2, <1>5 DEF GivesUp, Quiet, Steps
<1>6. CASE /\ ~MustFindAgain(t) /\ wait[t].stale
           /\ corrupt' = TRUE
           /\ UNCHANGED <<rows, row_mutex, pc, ops, wait, asked>>
  BY <1>2, <1>6 DEF Dangles, Quiet, Steps
<1> QED
  BY <1>4, <1>5, <1>6 DEF Retry

\* Every step is one of these.
LEMMA NextSteps ==
    ASSUME MapInv, Next
    PROVE  UNCHANGED vars \/ \E t \in Txns : Steps(t)
<1>1. CASE Ended
  BY <1>1 DEF Ended
<1>2. ASSUME NEW t \in Txns, NEW kind \in Kinds, NEW k \in Keys, Operate(t, kind, k)
      PROVE  Steps(t)
  BY <1>2, OperationsWork DEF Steps
<1>3. ASSUME NEW t \in Txns, Retry(t)
      PROVE  Steps(t)
  BY <1>3, RetriesWork
<1>4. ASSUME NEW t \in Txns, \/ Begin(t) \/ Sleep(t) \/ Timeout(t)
                             \/ WriteRecord(t) \/ Commit(t) \/ Rollback(t) \/ Notify(t)
      PROVE  Steps(t)
  BY <1>4 DEF Steps, Quiet
<1> QED
  BY <1>1, <1>2, <1>3, <1>4 DEF Next

\* What an operation makes of rows and lists.
Marked(t, k, op) ==
    /\ Mark(t, k, op) /\ Present(rows[k]) /\ op \in {"lock", "update", "delete", "deleted_insert"}
    /\ rows[k].op = "none" \/ rows[k].id = id[t]
    /\ rows[k].op # "deleted_insert"
    /\ op = "lock" => rows[k].op = "none"
    /\ op = "deleted_insert" <=> rows[k].op = "insert"
Rewritten(t, k) ==
    /\ rows[k].op = "insert" /\ rows[k].id = id[t]
    /\ rows' = [rows EXCEPT ![k].val = Value(t)]
    /\ UNCHANGED ops
Inserted(t, k) ==
    /\ ~Present(rows[k])
    /\ rows' = [rows EXCEPT ![k] = [val |-> Value(t), op |-> "insert", id |-> id[t]]]
    /\ ops' = [ops EXCEPT ![t] = Append(@, [kind |-> "insert", key |-> k, val |-> Value(t),
                                            id |-> 0, op |-> "none"])]
Changes(t, k) ==
    Rewritten(t, k) \/ Inserted(t, k) \/ \E op \in Marks : Marked(t, k, op)

\* A call that does not doze is done; a lock has its row.
Performed(t, kind, k) ==
    /\ UNCHANGED <<rows, ops>> \/ Changes(t, k)
    /\ pc' = [pc EXCEPT ![t] = "active"]
    /\ wait' = [wait EXCEPT ![t] = NoCall]
    /\ IF kind = "lock" THEN asked' = [asked EXCEPT ![t] = @ \cup {k}] ELSE asked' = asked
    /\ kind = "lock" => rows[k].id = id[t] \/ Marked(t, k, "lock")
    /\ UNCHANGED row_mutex

\* A call that works on a row does it at once, or has a reason to doze.
LEMMA CallsPerform ==
    ASSUME Typed, NEW t \in Txns, NEW kind \in Kinds, NEW k \in Keys, Works(t, kind, k)
    PROVE  Performed(t, kind, k) \/ (Contends(t, kind, k) /\ Doze(t, kind, k))
<1> SUFFICES ASSUME ~Contends(t, kind, k) PROVE Performed(t, kind, k)
  BY DEF Works, Attempt
<1>0. Perform(t, kind, k) /\ (kind # "insert" => Present(rows[k]))
  BY DEF Works, Attempt
<1>1. CASE kind = "lock"
  <2>1. Present(rows[k]) /\ ~HeldByOther(t, rows[k]) /\ Lock(t, k)
    BY <1>0, <1>1 DEF Contends, Perform
  <2>2. rows[k].id = id[t] \/ Marked(t, k, "lock")
    BY <2>1 DEF Lock, HeldByOther, Marked
  <2>3. UNCHANGED <<rows, ops>> \/ Changes(t, k)
    <3>1. "lock" \in Marks
      BY DEF Marks
    <3> QED
      BY <2>1, <2>2, <3>1 DEF Lock, Changes
  <2> QED
    BY <1>0, <1>1, <2>1, <2>2, <2>3 DEF Performed, Perform, Goto, Lock
<1>2. CASE kind = "update"
  <2>1. Present(rows[k]) /\ ~HeldByOther(t, rows[k]) /\ Update(t, k)
    BY <1>0, <1>2 DEF Contends, Perform
  <2>2. UNCHANGED <<rows, ops>> \/ Changes(t, k)
    <3>1. "update" \in Marks
      BY DEF Marks
    <3>2. Mark(t, k, "update") /\ rows[k].op \in {"none", "lock", "update"} => Marked(t, k, "update")
      BY <2>1 DEF HeldByOther, Marked
    <3> QED
      BY <2>1, <3>1, <3>2 DEF Update, Changes, Rewritten, HeldByOther
  <2> QED
    BY <1>0, <1>2, <2>1, <2>2 DEF Performed, Perform, Goto, Update
<1>3. CASE kind = "erase"
  <2>1. Present(rows[k]) /\ ~HeldByOther(t, rows[k]) /\ Erase(t, k)
    BY <1>0, <1>3 DEF Contends, Perform
  <2>2. UNCHANGED <<rows, ops>> \/ Changes(t, k)
    <3>1. "delete" \in Marks /\ "deleted_insert" \in Marks
      BY DEF Marks
    <3>2. Mark(t, k, "delete") /\ rows[k].op \in {"none", "lock", "update"} => Marked(t, k, "delete")
      BY <2>1 DEF HeldByOther, Marked
    <3>3. Mark(t, k, "deleted_insert") /\ rows[k].op = "insert" => Marked(t, k, "deleted_insert")
      BY <2>1 DEF HeldByOther, Marked
    <3> QED
      BY <2>1, <3>1, <3>2, <3>3 DEF Erase, Changes
  <2> QED
    BY <1>0, <1>3, <2>1, <2>2 DEF Performed, Perform, Goto, Erase
<1>4. CASE kind = "insert"
  <2>1. ~(rows[k].op \in {"insert", "delete"} /\ rows[k].id # id[t]) /\ Insert(t, k)
    BY <1>0, <1>4 DEF Contends, Perform
  <2>2. UNCHANGED <<rows, ops>> \/ Changes(t, k)
    <3>1. "update" \in Marks
      BY DEF Marks
    <3>2. rows[k].op = "delete" => Present(rows[k])
      BY NoRowIsARow DEF Typed, TypeOK
    <3>3. rows[k].op = "delete" /\ Mark(t, k, "update") => Marked(t, k, "update")
      BY <2>1, <3>2 DEF Marked
    <3> QED
      BY <2>1, <3>1, <3>3 DEF Insert, Inserted, Changes
  <2> QED
    BY <1>0, <1>4, <2>1, <2>2 DEF Performed, Perform, Goto, Insert
<1> QED
  BY <1>1, <1>2, <1>3, <1>4

-----------------------------------------------------------------------------
\* Types

\* A transaction's value is a value, and is not that of an absent row.
LEMMA ValuesAre ==
    ASSUME Typed, NEW t \in Txns
    PROVE  Value(t) \in Values /\ Value(t) # NoValue
BY NobodyAssumption DEF Typed, TypeOK, Value, Values

RowsTyped ==
    /\ rows \in [Keys -> Rows] /\ ver_num \in Nat
    /\ \A k \in Keys : ~Present(rows[k]) => rows[k] = NoRow
LocksTyped ==
    /\ container \in Txns \cup {NoTxn} /\ row_mutex \in Txns \cup {NoTxn}
    /\ next_txn_id \in Nat /\ next_lsn \in Nat
    /\ log \in Seq(Range(log)) /\ \A r \in Range(log) : r.lsn \in Nat
TxnsTyped ==
    /\ pc \in [Txns -> Points] /\ id \in [Txns -> Nat] /\ made \in [Txns -> Nat]
    /\ asked \in [Txns -> SUBSET Keys] /\ retouched \in SUBSET Keys /\ corrupt \in BOOLEAN
ListsTyped == ops \in [Txns -> Seq(Ops)]
WaitsTyped == wait \in [Txns -> Waits]

\* Typed, part by part.
LEMMA TypedParts ==
    Typed <=> RowsTyped /\ LocksTyped /\ TxnsTyped /\ ListsTyped /\ WaitsTyped
BY DEF Typed, TypeOK, RowsTyped, LocksTyped, TxnsTyped, ListsTyped, WaitsTyped

\* The same after a step.
LEMMA NextTypedParts ==
    Typed' <=> RowsTyped' /\ LocksTyped' /\ TxnsTyped' /\ ListsTyped' /\ WaitsTyped'
BY DEF Typed, TypeOK, RowsTyped, LocksTyped, TxnsTyped, ListsTyped, WaitsTyped

\* Who waits for nothing has a call of the type.
LEMMA NoCallIsACall == NoCall \in Waits
BY DEF NoCall, Waits, Marks

\* At the start every list is empty and the rows are those of recovery.
LEMMA TypesAtTheStart == Init => Typed
<1> SUFFICES ASSUME Init PROVE Typed
  OBVIOUS
<1>1. \A k \in DOMAIN Recovered :
         Recoveree(k) \in Rows /\ Present(Recoveree(k)) /\ Recoveree(k).op = "none"
  BY RecoveredAssumption, NobodyAssumption DEF Recoveree, Rows, Values, Marks, Present
<1>2. RowsTyped
  BY <1>1, NoRowIsARow DEF Init, RowsTyped, FirstRows
<1>3. LocksTyped
  <2>1. next_lsn \in Nat
    <3> DEFINE S == {0} \cup Range(Recovered)
    <3>1. S \subseteq Nat /\ S # {}
      BY RecoveredAssumption DEF Range
    <3>2. IsFiniteSet(Range(Recovered))
      <4> DEFINE f == [k \in DOMAIN Recovered |-> Recovered[k]]
      <4>1. f \in Surjection(DOMAIN Recovered, Range(Recovered))
        BY DEF Surjection, Range
      <4> HIDE DEF f
      <4> QED
        BY <4>1, RecoveredAssumption, FS_Surjection
    <3>3. IsFiniteSet(S)
      BY <3>2, FS_Singleton, FS_Union
    <3>4. Max(S) \in Nat
      <4> HIDE DEF S
      <4> QED
        BY <3>1, <3>3, MaxIsANumber
    <3> QED
      BY <3>4 DEF Init
  <2> QED
    BY <2>1 DEF Init, LocksTyped, Range
<1>4. TxnsTyped
  BY DEF Init, TxnsTyped, Points
<1>5. ListsTyped
  BY DEF Init, ListsTyped
<1>6. WaitsTyped
  BY NoCallIsACall DEF Init, WaitsTyped
<1> QED
  BY <1>2, <1>3, <1>4, <1>5, <1>6, TypedParts

\* What an operation makes of rows and lists has their types.
LEMMA ChangesAreTyped ==
    ASSUME Typed, NEW t \in Txns, NEW k \in Keys, Changes(t, k)
    PROVE  /\ rows' \in [Keys -> Rows] /\ (\A x \in Keys : ~Present(rows'[x]) => rows'[x] = NoRow)
           /\ ops' \in [Txns -> Seq(Ops)]
<1>1. rows \in [Keys -> Rows] /\ ops \in [Txns -> Seq(Ops)] /\ id[t] \in Nat
      /\ \A x \in Keys : ~Present(rows[x]) => rows[x] = NoRow
  BY DEF Typed, TypeOK
<1>2. /\ rows[k].val \in Values /\ rows[k].op \in Marks /\ rows[k].id \in Nat
      /\ rows[k] \in [val : Values, op : Marks, id : Nat]
  BY <1>1 DEF Rows
<1>3. Value(t) \in Values /\ Value(t) # NoValue
  BY ValuesAre
<1>4. CASE Rewritten(t, k)
  <2>1. [rows EXCEPT ![k].val = Value(t)] \in [Keys -> Rows]
    BY <1>1, <1>3 DEF Rows
  <2>2. rows'[k].val = Value(t) /\ \A x \in Keys \ {k} : rows'[x] = rows[x]
    BY <1>1, <1>2, <1>4 DEF Rewritten
  <2> QED
    BY <1>1, <1>3, <1>4, <2>1, <2>2 DEF Rewritten, Present
<1>5. CASE Inserted(t, k)
  <2> DEFINE row == [val |-> Value(t), op |-> "insert", id |-> id[t]]
             o == [kind |-> "insert", key |-> k, val |-> Value(t), id |-> 0, op |-> "none"]
  <2>1. row \in Rows /\ Present(row)
    BY <1>1, <1>3 DEF Rows, Marks, Present
  <2>2. o \in Ops
    BY <1>3 DEF Ops, Marks
  <2>3. ops[t] \in Seq(Ops) /\ Append(ops[t], o) \in Seq(Ops)
    BY <1>1, <2>2
  <2> HIDE DEF row, o
  <2>4. rows' = [rows EXCEPT ![k] = row] /\ ops' = [ops EXCEPT ![t] = Append(@, o)]
    BY <1>5 DEF Inserted, row, o
  <2> QED
    BY <1>1, <2>1, <2>3, <2>4
<1>6. ASSUME NEW op \in Marks, Marked(t, k, op)
      PROVE  /\ rows' \in [Keys -> Rows]
             /\ \A x \in Keys : ~Present(rows'[x]) => rows'[x] = NoRow
             /\ ops' \in [Txns -> Seq(Ops)]
  <2> DEFINE o == [kind |-> op, key |-> k, val |-> Value(t), id |-> rows[k].id, op |-> rows[k].op]
  <2>1. [rows EXCEPT ![k].op = op, ![k].id = id[t]] \in [Keys -> Rows]
    BY <1>1 DEF Rows
  <2>2. rows' = [rows EXCEPT ![k].op = op, ![k].id = id[t]] /\ Present(rows[k])
        /\ ops' = [ops EXCEPT ![t] = Append(@, o)]
    BY <1>6 DEF Marked, Mark
  <2>3. rows'[k].val = rows[k].val /\ \A x \in Keys \ {k} : rows'[x] = rows[x]
    BY <1>1, <1>2, <2>2
  <2>4. op # "none"
    BY <1>6 DEF Marked
  <2>5. o \in Ops
    BY <1>2, <1>3, <2>4 DEF Ops
  <2>6. ops[t] \in Seq(Ops) /\ Append(ops[t], o) \in Seq(Ops)
    BY <1>1, <2>5
  <2> HIDE DEF o
  <2> QED
    BY <1>1, <2>1, <2>2, <2>3, <2>6 DEF Present
<1> QED
  BY <1>4, <1>5, <1>6 DEF Changes

\* An end of a transaction makes its rows and its list what the map says.
LEMMA EndsAreTyped ==
    ASSUME Typed, NEW t \in Txns, NEW m \in SoundMaps, Change(t, m)
    PROVE  RowsTyped' /\ WaitsTyped'
<1>1. /\ m.rows \in [Keys -> Rows] /\ m.ver \in Nat
      /\ \A k \in Keys : ~Present(m.rows[k]) => m.rows[k] = NoRow
  BY DEF SoundMaps, Maps
<1>2. RowsTyped'
  BY <1>1 DEF Change, RowsTyped, Present
<1>3. \A s \in Txns : wait[s] \in Waits /\ [wait[s] EXCEPT !.stale = TRUE] \in Waits
  BY ZenonT(60) DEF Typed, TypeOK, Waits
<1>4. wait' \in [Txns -> Waits]
  BY <1>3 DEF Change
<1> QED
  BY <1>2, <1>4 DEF WaitsTyped

\* Every step leaves every variable with its type, if commit and rollback make sound maps.
LEMMA TypesStay ==
    ASSUME MapInv, NEW t \in Txns, Steps(t)
    PROVE  Typed'
<1>0. Typed
  BY DEF MapInv
<1>a. /\ RowsTyped /\ LocksTyped /\ TxnsTyped /\ ListsTyped /\ WaitsTyped
      /\ wait \in [Txns -> Waits] /\ t # NoTxn
  BY <1>0, TypedParts, NobodyAssumption DEF WaitsTyped
<1>b. \A e : Append(log, e) \in Seq(Range(log) \cup {e})
             /\ Range(Append(log, e)) = Range(log) \cup {e}
  BY <1>a, RangeOfAppend DEF LocksTyped
<1>1. ASSUME Quiet(t) PROVE Typed'
  <2>1. RowsTyped'
    BY <1>a, <1>1
    DEF Quiet, Begin, Sleep, Timeout, WriteRecord, Notify, GivesUp, Dangles, RowsTyped, Present
  <2>2. LocksTyped'
    <3>1. CASE WriteRecord(t)
      <4> DEFINE e == [txn |-> t, lsn |-> next_lsn, changes |-> Logged(t)]
      <4>1. log' = Append(log, e) /\ next_lsn' = next_lsn + 1 /\ e.lsn = next_lsn
            /\ UNCHANGED <<container, row_mutex, next_txn_id>>
        BY <3>1 DEF WriteRecord
      <4> HIDE DEF e
      <4>2. log' \in Seq(Range(log')) /\ Range(log') = Range(log) \cup {e}
        BY <1>b, <4>1
      <4> QED
        BY <1>a, <4>1, <4>2 DEF LocksTyped
    <3>2. CASE ~WriteRecord(t)
      <4>1. /\ log' = log /\ next_lsn' = next_lsn /\ next_txn_id' \in Nat
            /\ container' \in Txns \cup {NoTxn} /\ row_mutex' \in Txns \cup {NoTxn}
        BY <1>a, <1>1, <3>2
        DEF Quiet, Begin, Sleep, Timeout, Notify, GivesUp, Dangles, LocksTyped
      <4> QED
        BY <1>a, <4>1 DEF LocksTyped
    <3> QED
      BY <3>1, <3>2
  <2>3. TxnsTyped'
    <3>1. pc' \in [Txns -> Points]
      BY <1>a, <1>1
      DEF Quiet, Begin, Sleep, Timeout, WriteRecord, Notify, GivesUp, Dangles, TxnsTyped, Goto,
          Points
    <3>2. id' \in [Txns -> Nat] /\ made' \in [Txns -> Nat]
      BY <1>a, <1>1
      DEF Quiet, Begin, Sleep, Timeout, WriteRecord, Notify, GivesUp, Dangles, TxnsTyped,
          LocksTyped
    <3>3. asked' \in [Txns -> SUBSET Keys] /\ retouched' \in SUBSET Keys
      BY <1>a, <1>1
      DEF Quiet, Begin, Sleep, Timeout, WriteRecord, Notify, GivesUp, Dangles, TxnsTyped
    <3>4. corrupt' \in BOOLEAN
      BY <1>a, <1>1
      DEF Quiet, Begin, Sleep, Timeout, WriteRecord, Notify, GivesUp, Dangles, TxnsTyped
    <3> QED
      BY <3>1, <3>2, <3>3, <3>4 DEF TxnsTyped
  <2>4. ListsTyped'
    <3>1. UNCHANGED ops \/ ops' = [ops EXCEPT ![t] = <<>>]
      BY <1>1 DEF Quiet, Begin, Sleep, Timeout, WriteRecord, Notify, GivesUp, Dangles
    <3>2. <<>> \in Seq(Ops)
      OBVIOUS
    <3> QED
      BY <1>a, <3>1, <3>2 DEF ListsTyped
  <2>5. WaitsTyped'
    BY <1>a, <1>1, NoCallIsACall
    DEF Quiet, Begin, Sleep, Timeout, WriteRecord, Notify, GivesUp, Dangles, WaitsTyped
  <2> QED
    BY <2>1, <2>2, <2>3, <2>4, <2>5, NextTypedParts
<1>2. ASSUME NEW kind \in Kinds, NEW k \in Keys, Works(t, kind, k) PROVE Typed'
  <2>0. /\ made' \in [Txns -> Nat]
        /\ UNCHANGED <<ver_num, container, next_txn_id, next_lsn, log, id, retouched, corrupt>>
    BY <1>2 DEF Works
  <2>1. CASE Performed(t, kind, k)
    <3>1. RowsTyped' /\ ListsTyped'
      <4>1. CASE UNCHANGED <<rows, ops>>
        BY <1>a, <2>0, <4>1 DEF RowsTyped, ListsTyped, Present
      <4>2. CASE Changes(t, k)
        <5>1. /\ rows' \in [Keys -> Rows] /\ ops' \in [Txns -> Seq(Ops)]
              /\ \A x \in Keys : ~Present(rows'[x]) => rows'[x] = NoRow
          BY <1>0, <4>2, ChangesAreTyped
        <5> QED
          BY <1>a, <2>0, <5>1 DEF RowsTyped, ListsTyped, Present
      <4> QED
        BY <2>1, <4>1, <4>2 DEF Performed
    <3>2. LocksTyped'
      BY <1>a, <2>0, <2>1 DEF LocksTyped, Performed
    <3>3. TxnsTyped'
      BY <1>a, <2>0, <2>1 DEF TxnsTyped, Performed, Points
    <3>4. WaitsTyped'
      BY <1>a, <2>1, NoCallIsACall DEF WaitsTyped, Performed
    <3> QED
      BY <3>1, <3>2, <3>3, <3>4, NextTypedParts
  <2>2. CASE Doze(t, kind, k)
    <3>1. RowsTyped' /\ ListsTyped' /\ LocksTyped'
      BY <1>a, <2>0, <2>2 DEF RowsTyped, ListsTyped, LocksTyped, Doze, Present
    <3>2. TxnsTyped'
      BY <1>a, <2>0, <2>2 DEF TxnsTyped, Doze, Points, Goto
    <3>3. WaitsTyped'
      <4> DEFINE w == [kind |-> kind, key |-> k, ver |-> ver_num, over |-> rows[k].op,
                       stale |-> FALSE]
      <4>1. rows[k].op \in Marks /\ ver_num \in Nat
        BY <1>a DEF RowsTyped, Rows
      <4>2. w \in Waits
        BY <4>1 DEF Waits
      <4>3. wait' = [wait EXCEPT ![t] = w]
        BY <2>2 DEF Doze
      <4> HIDE DEF w
      <4> QED
        BY <1>a, <4>2, <4>3 DEF WaitsTyped
    <3> QED
      BY <3>1, <3>2, <3>3, NextTypedParts
  <2> QED
    BY <1>0, <1>2, <2>1, <2>2, CallsPerform
<1>3. ASSUME NEW m \in SoundMaps, Change(t, m), retouched' \in SUBSET Keys PROVE Typed'
  <2>1. RowsTyped' /\ WaitsTyped'
    BY <1>0, <1>3, EndsAreTyped
  <2>2. LocksTyped'
    BY <1>a, <1>3 DEF LocksTyped, Change
  <2>3. TxnsTyped'
    <3>1. m.bad \in BOOLEAN
      BY DEF SoundMaps, Maps
    <3>2. corrupt' \in BOOLEAN
      BY <1>3, <3>1 DEF Change
    <3>3. pc' \in [Txns -> Points] /\ id' \in [Txns -> Nat] /\ made' \in [Txns -> Nat]
          /\ asked' \in [Txns -> SUBSET Keys]
      BY <1>a, <1>3 DEF TxnsTyped, Change, Goto, Points
    <3> QED
      BY <1>3, <3>2, <3>3 DEF TxnsTyped
  <2>4. ListsTyped'
    BY <1>a, <1>3 DEF ListsTyped, Change
  <2> QED
    BY <2>1, <2>2, <2>3, <2>4, NextTypedParts
<1>4. KeysOf(t) \subseteq Keys
  <2>1. \A i \in DOMAIN ops[t] : ops[t][i] \in Ops
    BY <1>a DEF ListsTyped
  <2> QED
    BY <2>1 DEF KeysOf, Ops
<1>5. CASE Commit(t)
  <2>1. \A i \in DOMAIN ops[t] : IsTraced(t, i)
    BY <1>5 DEF Commit, MapInv, OpsAreTraced, Unfinished
  <2>2. PICK r \in Range(log) : r.txn = t
    BY <1>5 DEF Commit, MapInv, PointsAreReal, PointOf
  <2> DEFINE lsn == (CHOOSE x \in Range(log) : x.txn = t).lsn
  <2>3. lsn \in Nat
    BY <1>a, <2>2 DEF LocksTyped
  <2> HIDE DEF lsn
  <2>4. CommittedMap(t, lsn) \in SoundMaps
    BY <1>0, <2>1, <2>3, CommitOfAll
  <2>5. retouched' \in SUBSET Keys
    BY <1>a, <1>4, <1>5 DEF Commit, Retouched, TxnsTyped
  <2>6. Change(t, CommittedMap(t, lsn))
    BY <1>5 DEF Commit, lsn
  <2> QED
    BY <1>3, <2>4, <2>5, <2>6
<1>6. CASE Rollback(t)
  <2>1. CASE ops[t] # <<>>
    <3>1. \A i \in DOMAIN ops[t] : IsTraced(t, i)
      BY <1>6 DEF Rollback, MapInv, OpsAreTraced, Unfinished
    <3>2. RolledBackMap(t) \in SoundMaps
      BY <1>0, <3>1, RollbackOfAll
    <3>3. retouched' \in SUBSET Keys
      BY <1>a, <1>6 DEF Rollback, TxnsTyped
    <3>4. Change(t, RolledBackMap(t))
      BY <1>6, <2>1 DEF Rollback
    <3> QED
      BY <1>3, <3>2, <3>3, <3>4
  <2>2. CASE ops[t] = <<>>
    <3>1. UNCHANGED <<map, locks, next_txn_id, next_lsn, log, id, ops, made, wait, asked,
                      corrupt, retouched>> /\ Goto(t, "done")
      BY <1>6, <2>2 DEF Rollback
    <3>2. RowsTyped' /\ LocksTyped' /\ ListsTyped' /\ WaitsTyped'
      BY <1>a, <3>1 DEF RowsTyped, LocksTyped, ListsTyped, WaitsTyped, Present
    <3>3. TxnsTyped'
      BY <1>a, <3>1 DEF TxnsTyped, Goto, Points
    <3> QED
      BY <3>2, <3>3, NextTypedParts
  <2> QED
    BY <2>1, <2>2
<1> QED
  BY <1>1, <1>2, <1>5, <1>6 DEF Steps

-----------------------------------------------------------------------------
\* What steps leave alone

\* Transactions are told apart by their ids.
LEMMA IdsTell ==
    ASSUME MapInv, NEW s \in Txns, NEW t \in Txns, Unfinished(s), Unfinished(t), id[s] = id[t]
    PROVE  s = t
BY DEF MapInv, IdsAreDistinct, Unfinished

\* A row that is marked with an id has an operation of that transaction.
LEMMA MarksTell ==
    ASSUME MapInv, ~corrupt, NEW t \in Txns, NEW k \in Keys, rows[k].op # "none"
    PROVE  /\ k \in KeysOf(t) /\ Unfinished(t) => rows[k].id = id[t]
           /\ Unfinished(t) /\ rows[k].id = id[t] => k \in KeysOf(t)
           /\ rows[k].id = id[t] /\ pc[t] # "begin" => Unfinished(t)
<1>1. \A s \in Txns : Unfinished(s) /\ k \in KeysOf(s) => rows[k].id = id[s]
  BY DEF KeysOf, MapInv, OpsAreTraced, IsTraced
<1>2. PICK s \in Txns : Unfinished(s) /\ k \in KeysOf(s)
  BY DEF MapInv, MarksAreHeld, MarkIsHeld
<1>3. pc[s] # "begin"
  BY <1>2 DEF Unfinished
<1>4. rows[k].id = id[t] /\ pc[t] # "begin" => s = t
  BY <1>1, <1>2, <1>3 DEF MapInv, IdsAreDistinct
<1> QED
  BY <1>1, <1>2, <1>4 DEF Unfinished

\* A row that a transaction has an operation on is marked.
LEMMA OpsMark ==
    ASSUME MapInv, ~corrupt, NEW t \in Txns, Unfinished(t), NEW k \in KeysOf(t)
    PROVE  k \in Keys /\ Present(rows[k]) /\ rows[k].op # "none" /\ rows[k].id = id[t]
<1>1. PICK i \in DOMAIN ops[t] : ops[t][i].key = k
  BY DEF KeysOf
<1>2. ops[t][i] \in Ops
  BY <1>1 DEF MapInv, Typed, TypeOK
<1>3. IsTraced(t, i)
  BY DEF MapInv, OpsAreTraced
<1> QED
  BY <1>1, <1>2, <1>3 DEF IsTraced, Ops

\* What commit and rollback alike make of the map.
Ends(t, m) ==
    /\ m \in SoundMaps /\ m.ver >= ver_num
    /\ \A k \in Keys \ KeysOf(t) : m.rows[k] = rows[k]
    /\ \A k \in KeysOf(t) :
          /\ m.rows[k].op = "none"
          /\ Present(m.rows[k]) => m.rows[k].id \in Lsns
          /\ rows[k].op = "deleted_insert" => ~Present(m.rows[k])
          /\ ~Present(m.rows[k]) => m.ver > ver_num \/ Listed(t, k, "insert") # {}
    /\ m.bad => \E k \in Keys : Twice(t, k)

\* Over a deleted insert there is an insert.
LEMMA DeletedInserts ==
    ASSUME MapInv, ~corrupt, NEW t \in Txns, Unfinished(t), NEW k \in KeysOf(t),
           rows[k].op = "deleted_insert"
    PROVE  \E j \in On(t, k) : ops[t][j].kind = "insert" /\ IsFirst(t, j)
<1>1. ops \in [Txns -> Seq(Ops)]
  BY DEF MapInv, Typed, TypeOK
<1>2. PICK e \in On(t, k) : IsLast(t, e)
  BY <1>1, EndsOfList
<1>3. e \in DOMAIN ops[t] /\ ops[t][e].key = k
  BY DEF On
<1>4. ops[t][e].kind = "deleted_insert"
  BY <1>2, <1>3 DEF MapInv, OpsAreTraced, IsTraced
<1>5. PICK j \in On(t, k) : ops[t][j].kind = "insert"
  BY <1>3, <1>4 DEF MapInv, OpsAreTraced, IsTraced
<1>6. IsFirst(t, j)
  BY <1>5 DEF MapInv, OpsAreTraced, IsTraced, On
<1> QED
  BY <1>5, <1>6

\* A commit changes the map as Ends says.
LEMMA CommitEnds ==
    ASSUME MapInv, NEW t \in Txns, Commit(t)
    PROVE  \E m : Ends(t, m) /\ Change(t, m)
<1>0. Typed /\ ~corrupt /\ Unfinished(t)
  BY DEF Commit, MapInv, Unfinished
<1>1. \A i \in DOMAIN ops[t] : IsTraced(t, i)
  BY <1>0 DEF MapInv, OpsAreTraced
<1>2. PICK r \in Range(log) : r.txn = t
  BY DEF Commit, MapInv, PointsAreReal, PointOf
<1> DEFINE lsn == (CHOOSE x \in Range(log) : x.txn = t).lsn
           m == CommittedMap(t, lsn)
           n == Len(ops[t])
<1>3. lsn \in Nat /\ lsn \in Lsns
  BY <1>0, <1>2 DEF Typed, Lsns
<1>4. Change(t, m)
  BY DEF Commit
<1> HIDE DEF lsn
<1>5. /\ m \in SoundMaps /\ m.ver >= ver_num
      /\ \A k \in Keys \ KeysOf(t) : m.rows[k] = rows[k]
      /\ \A k \in KeysOf(t) : Settled(t, m, k, lsn, n)
      /\ m.bad => \E k \in Keys : Twice(t, k)
  BY <1>0, <1>1, <1>3, CommitOfAll
<1> HIDE DEF m
<1>6. ASSUME NEW k \in KeysOf(t), ~Present(m.rows[k])
      PROVE  m.ver > ver_num \/ Listed(t, k, "insert") # {}
  <2>1. rows[k].op = "delete" \/ rows[k].op = "deleted_insert"
    BY <1>5, <1>6 DEF Settled
  <2>2. CASE rows[k].op = "delete"
    BY <1>5, <2>2 DEF Settled
  <2>3. CASE rows[k].op = "deleted_insert"
    BY <1>0, <2>3, DeletedInserts DEF Listed, On
  <2> QED
    BY <2>1, <2>2, <2>3
<1>7. Ends(t, m)
  BY <1>3, <1>5, <1>6 DEF Ends, Settled
<1> QED
  BY <1>4, <1>7

\* So does the rollback of a list that is not empty.
LEMMA RollbackEnds ==
    ASSUME MapInv, NEW t \in Txns, Rollback(t), ops[t] # <<>>
    PROVE  \E m : Ends(t, m) /\ Change(t, m)
<1>0. Typed /\ ~corrupt /\ Unfinished(t)
  BY DEF Rollback, MapInv, Unfinished
<1>1. \A i \in DOMAIN ops[t] : IsTraced(t, i)
  BY <1>0 DEF MapInv, OpsAreTraced
<1> DEFINE m == RolledBackMap(t)
<1>2. Change(t, m)
  BY DEF Rollback
<1>3. /\ m \in SoundMaps /\ m.ver = ver_num /\ m.bad = FALSE
      /\ \A k \in Keys \ KeysOf(t) : m.rows[k] = rows[k]
      /\ \A k \in KeysOf(t) : \E j \in On(t, k) :
            IsFirst(t, j) /\ m.rows[k] = Restored(rows[k], ops[t][j])
  BY <1>0, <1>1, RollbackOfAll
<1> HIDE DEF m
<1>4. ASSUME NEW k \in KeysOf(t)
      PROVE  /\ m.rows[k].op = "none"
             /\ Present(m.rows[k]) => m.rows[k].id \in Lsns
             /\ rows[k].op = "deleted_insert" => ~Present(m.rows[k])
             /\ ~Present(m.rows[k]) => Listed(t, k, "insert") # {}
  <2>1. PICK j \in On(t, k) : IsFirst(t, j) /\ m.rows[k] = Restored(rows[k], ops[t][j])
    BY <1>3
  <2>2. j \in DOMAIN ops[t] /\ ops[t][j].key = k
    BY DEF On
  <2>3. Present(rows[k]) /\ IsTraced(t, j)
    BY <1>0, <1>1, <2>2, OpsMark
  <2>4. CASE ops[t][j].kind = "insert"
    <3>1. m.rows[k] = NoRow
      BY <2>1, <2>4 DEF Restored
    <3>2. j \in Listed(t, k, "insert")
      BY <2>2, <2>4 DEF Listed
    <3> QED
      BY <3>1, <3>2, NoRowIsARow
  <2>5. CASE ops[t][j].kind # "insert"
    <3>1. /\ m.rows[k].val = rows[k].val /\ m.rows[k].op = ops[t][j].op
          /\ m.rows[k].id = ops[t][j].id
      BY <2>1, <2>5 DEF Restored
    <3>2. ops[t][j].op = "none" /\ ops[t][j].id \in Lsns
      BY <2>1, <2>3, <2>5 DEF IsTraced
    <3>3. rows[k].op # "deleted_insert"
      <4> SUFFICES ASSUME rows[k].op = "deleted_insert" PROVE FALSE
        OBVIOUS
      <4>1. PICK l \in On(t, k) : ops[t][l].kind = "insert" /\ IsFirst(t, l)
        BY <1>0, DeletedInserts
      <4>2. l \in DOMAIN ops[t] /\ ops[t][l].key = k
        BY DEF On
      <4>3. l <= j /\ j <= l
        BY <2>1, <2>2, <4>1, <4>2 DEF IsFirst
      <4>4. DOMAIN ops[t] = 1 .. Len(ops[t])
        BY <1>0 DEF Typed, TypeOK
      <4>5. l = j
        BY <2>2, <4>2, <4>3, <4>4
      <4> QED
        BY <2>5, <4>1, <4>5
    <3>4. Present(m.rows[k])
      BY <2>3, <3>1 DEF Present
    <3> QED
      BY <3>1, <3>2, <3>3, <3>4
  <2> QED
    BY <2>4, <2>5
<1>5. m.ver >= ver_num
  BY <1>0, <1>3 DEF Typed, TypeOK
<1>6. Ends(t, m)
  BY <1>3, <1>4, <1>5 DEF Ends
<1> QED
  BY <1>2, <1>6

\* A transaction that ends and changes the map; one that has nothing to roll back.
EndsIn(t) ==
    /\ ~corrupt /\ pc[t] \in {"active", "logged"}
    /\ \E m : Ends(t, m) /\ Change(t, m)
Leaves(t) ==
    /\ ~corrupt /\ pc[t] = "active" /\ ops[t] = <<>>
    /\ Goto(t, "done")
    /\ UNCHANGED <<map, locks, next_txn_id, next_lsn, log, id, ops, made, wait, asked,
                   corrupt, retouched>>

\* Every step is of one of five kinds.
LEMMA StepKinds ==
    ASSUME MapInv, NEW t \in Txns, Steps(t)
    PROVE  \/ Quiet(t) \/ EndsIn(t) \/ Leaves(t)
           \/ \E kind \in Kinds, k \in Keys :
                Works(t, kind, k) /\ (Performed(t, kind, k) \/ (Contends(t, kind, k) /\ Doze(t, kind, k)))
<1>1. CASE Commit(t)
  <2>1. ~corrupt /\ pc[t] \in {"active", "logged"}
    BY <1>1 DEF Commit
  <2> QED
    BY <1>1, <2>1, CommitEnds DEF EndsIn
<1>2. CASE Rollback(t)
  <2>1. ~corrupt /\ pc[t] = "active"
    BY <1>2 DEF Rollback
  <2>2. CASE ops[t] = <<>>
    BY <1>2, <2>1, <2>2 DEF Rollback, Leaves
  <2>3. CASE ops[t] # <<>>
    BY <1>2, <2>1, <2>3, RollbackEnds DEF EndsIn
  <2> QED
    BY <2>2, <2>3
<1>3. ASSUME NEW kind \in Kinds, NEW k \in Keys, Works(t, kind, k)
      PROVE  Performed(t, kind, k) \/ (Contends(t, kind, k) /\ Doze(t, kind, k))
  <2>1. Typed
    BY DEF MapInv
  <2> QED
    BY <1>3, <2>1, CallsPerform
<1> QED
  BY <1>1, <1>2, <1>3 DEF Steps

\* What a step of t does to the list of another and to what that one has asked for.
LEMMA OthersStay ==
    ASSUME MapInv, NEW t \in Txns, Steps(t), NEW s \in Txns, s # t
    PROVE  /\ ops'[s] = ops[s] /\ id'[s] = id[s] /\ asked'[s] = asked[s]
           /\ pc'[s] = pc[s] \/ (Notify(t) /\ pc[s] = "asleep" /\ pc'[s] = "woken")
           /\ wait'[s] = wait[s] \/ EndsIn(t)
           /\ Unfinished(s)' = Unfinished(s) /\ Waiting(s)' = Waiting(s)
<1>0. /\ ops \in [Txns -> Seq(Ops)] /\ id \in [Txns -> Nat] /\ asked \in [Txns -> SUBSET Keys]
      /\ pc \in [Txns -> Points] /\ wait \in [Txns -> Waits]
  BY DEF MapInv, Typed, TypeOK
<1>1. /\ ops'[s] = ops[s] /\ id'[s] = id[s] /\ asked'[s] = asked[s]
      /\ pc'[s] = pc[s] \/ (Notify(t) /\ pc[s] = "asleep" /\ pc'[s] = "woken")
      /\ wait'[s] = wait[s] \/ EndsIn(t)
  <2>1. CASE Quiet(t)
    <3>1. UNCHANGED ops \/ ops' = [ops EXCEPT ![t] = <<>>]
      BY <2>1 DEF Quiet, Begin, Sleep, Timeout, WriteRecord, Notify, GivesUp, Dangles
    <3>2. UNCHANGED asked \/ asked' = [asked EXCEPT ![t] = {}]
      BY <2>1 DEF Quiet, Begin, Sleep, Timeout, WriteRecord, Notify, GivesUp, Dangles
    <3>3. UNCHANGED id \/ id' = [id EXCEPT ![t] = next_txn_id]
      BY <2>1 DEF Quiet, Begin, Sleep, Timeout, WriteRecord, Notify, GivesUp, Dangles
    <3>4. UNCHANGED wait \/ wait' = [wait EXCEPT ![t] = NoCall]
      BY <2>1 DEF Quiet, Begin, Sleep, Timeout, WriteRecord, Notify, GivesUp, Dangles
    <3>5. pc'[s] = pc[s] \/ (Notify(t) /\ pc[s] = "asleep" /\ pc'[s] = "woken")
      BY <1>0, <2>1
      DEF Quiet, Begin, Sleep, Timeout, WriteRecord, Notify, GivesUp, Dangles, Goto
    <3> QED
      BY <1>0, <3>1, <3>2, <3>3, <3>4, <3>5
  <2>2. CASE EndsIn(t)
    BY <1>0, <2>2 DEF EndsIn, Change, Goto
  <2>3. CASE Leaves(t)
    BY <1>0, <2>3 DEF Leaves, Goto
  <2>4. ASSUME NEW kind \in Kinds, NEW k \in Keys, Works(t, kind, k), Performed(t, kind, k)
        PROVE  /\ ops'[s] = ops[s] /\ id'[s] = id[s] /\ asked'[s] = asked[s]
               /\ pc'[s] = pc[s] /\ wait'[s] = wait[s]
    <3>1. id'[s] = id[s]
      BY <2>4 DEF Works
    <3>2. /\ asked'[s] = asked[s] /\ pc'[s] = pc[s] /\ wait'[s] = wait[s]
      BY <1>0, <2>4 DEF Performed
    <3>3. ops'[s] = ops[s]
      BY <1>0, <2>4 DEF Performed, Changes, Rewritten, Inserted, Marked, Mark
    <3> QED
      BY <3>1, <3>2, <3>3
  <2>5. ASSUME NEW kind \in Kinds, NEW k \in Keys, Works(t, kind, k), Doze(t, kind, k)
        PROVE  /\ ops'[s] = ops[s] /\ id'[s] = id[s] /\ asked'[s] = asked[s]
               /\ pc'[s] = pc[s] /\ wait'[s] = wait[s]
    BY <1>0, <2>5 DEF Works, Doze, Goto
  <2> QED
    BY <2>1, <2>2, <2>3, <2>4, <2>5, StepKinds
<1>2. Unfinished(s)' = Unfinished(s) /\ Waiting(s)' = Waiting(s)
  BY <1>1 DEF Unfinished, Waiting
<1> QED
  BY <1>1, <1>2

\* Records stay in the log, and a map in which an erased entry was used stays so.
LEMMA LogStays ==
    ASSUME MapInv, NEW t \in Txns, Steps(t)
    PROVE  Range(log) \subseteq Range(log') /\ Lsns \subseteq Lsns' /\ (corrupt => corrupt')
<1>1. log \in Seq(Range(log))
  BY DEF MapInv, Typed
<1>2. UNCHANGED log \/ \E e : log' = Append(log, e)
  BY DEF Steps, Quiet, Begin, Sleep, Timeout, WriteRecord, Notify, GivesUp, Dangles, Commit,
         Rollback, Change, Works
<1>3. Range(log) \subseteq Range(log')
  <2>1. ASSUME NEW e, log' = Append(log, e) PROVE Range(log') = Range(log) \cup {e}
    <3>1. Range(Append(log, e)) = Range(log) \cup {e}
      BY <1>1, RangeOfAppend
    <3> QED
      BY <2>1, <3>1
  <2> QED
    BY <1>2, <2>1
<1>4. corrupt => corrupt'
  BY DEF Steps, Quiet, Begin, Sleep, Timeout, WriteRecord, Notify, GivesUp, Dangles, Commit,
         Rollback, Change, Works
<1> QED
  BY <1>3, <1>4 DEF Lsns

\* Ids stay distinct.
LEMMA IdsStay ==
    ASSUME MapInv, NEW t \in Txns, Steps(t)
    PROVE  IdsAreDistinct'
<1>0. /\ IdsAreDistinct /\ next_txn_id \in Nat /\ id \in [Txns -> Nat] /\ pc \in [Txns -> Points]
  BY DEF MapInv, Typed, TypeOK
<1>1. CASE Begin(t)
  <2>1. /\ id' = [id EXCEPT ![t] = next_txn_id] /\ next_txn_id' = next_txn_id + 1
        /\ pc' = [pc EXCEPT ![t] = "active"]
    BY <1>1 DEF Begin, Goto
  <2>2. /\ id'[t] = next_txn_id
        /\ \A s \in Txns \ {t} : id'[s] = id[s] /\ pc'[s] = pc[s]
    BY <1>0, <2>1
  <2>3. \A s \in Txns \ {t} : pc'[s] # "begin" => id'[s] < next_txn_id /\ id'[s] \in Nat /\ id'[s] >= 1
    BY <1>0, <2>2 DEF IdsAreDistinct
  <2>4. \A s \in Txns : pc'[s] # "begin" => id'[s] \in 1 .. next_txn_id' - 1
    BY <1>0, <2>1, <2>2, <2>3 DEF IdsAreDistinct
  <2>5. \A s, u \in Txns : s # u /\ pc'[s] # "begin" /\ pc'[u] # "begin" => id'[s] # id'[u]
    <3>1. \A s \in Txns \ {t} : pc'[s] # "begin" => id'[s] # next_txn_id
      BY <1>0, <2>3
    <3> QED
      BY <1>0, <2>2, <3>1 DEF IdsAreDistinct
  <2> QED
    BY <1>0, <2>1, <2>4, <2>5 DEF IdsAreDistinct
<1>2. CASE ~Begin(t)
  <2>1. next_txn_id' = next_txn_id /\ id' = id
    BY <1>2
    DEF Steps, Quiet, Sleep, Timeout, WriteRecord, Notify, GivesUp, Dangles, Commit, Rollback,
        Change, Works
  <2>2. pc[t] # "begin"
    BY <1>2
    DEF Steps, Quiet, Sleep, Timeout, WriteRecord, Notify, CanNotify, GivesUp, Dangles, Commit,
        Rollback, Works
  <2>3. \A s \in Txns : pc'[s] # "begin" => pc[s] # "begin"
    <3> TAKE s \in Txns
    <3>1. CASE s # t
      BY <3>1, OthersStay
    <3> QED
      BY <2>2, <3>1
  <2> QED
    BY <1>0, <2>1, <2>3 DEF IdsAreDistinct
<1> QED
  BY <1>1, <1>2

\* Each transaction is at a point that it can be at.
LEMMA PointsStay ==
    ASSUME MapInv, NEW t \in Txns, Steps(t)
    PROVE  PointsAreReal'
<1>0. /\ ops \in [Txns -> Seq(Ops)] /\ id \in [Txns -> Nat] /\ asked \in [Txns -> SUBSET Keys]
      /\ pc \in [Txns -> Points] /\ wait \in [Txns -> Waits] /\ ver_num \in Nat
      /\ t # NoTxn /\ container \in Txns \cup {NoTxn}
  BY NobodyAssumption DEF MapInv, Typed, TypeOK
<1>1. \A s \in Txns : PointOf(s)
  BY DEF MapInv, PointsAreReal
<1>2. ver_num' \in Nat /\ ver_num <= ver_num'
  <2>1. EndsIn(t) => ver_num' >= ver_num /\ ver_num' \in Nat
    <3>1. ASSUME NEW m, Ends(t, m), Change(t, m) PROVE ver_num' >= ver_num /\ ver_num' \in Nat
      BY <1>0, <3>1 DEF Ends, Change, SoundMaps, Maps
    <3> QED
      BY <3>1 DEF EndsIn
  <2>2. ~EndsIn(t) => ver_num' = ver_num
    BY StepKinds
    DEF Quiet, Begin, Sleep, Timeout, WriteRecord, Notify, GivesUp, Dangles, Leaves, Works
  <2> QED
    BY <1>0, <2>1, <2>2
<1>3. NoCall.kind = "none" /\ NoCall.stale = FALSE /\ NoCall.ver = 0
  BY DEF NoCall
\* The others.
<1>4. ASSUME NEW s \in Txns, s # t PROVE PointOf(s)'
  <2>1. /\ ops'[s] = ops[s] /\ asked'[s] = asked[s] /\ Waiting(s)' = Waiting(s)
        /\ pc'[s] = pc[s] \/ (pc[s] = "asleep" /\ pc'[s] = "woken")
        /\ wait'[s] = wait[s] \/ EndsIn(t)
    BY <1>4, OthersStay
  <2>2. PointOf(s)
    BY <1>1
  <2>3. pc'[s] = "changed" <=> container' = s
    <3>1. container' = container \/ (container = NoTxn /\ container' = t)
            \/ (container = t /\ container' = NoTxn)
      BY <1>1, StepKinds
      DEF Quiet, Begin, Sleep, Timeout, WriteRecord, Notify, CanNotify, GivesUp, Dangles,
          EndsIn, Change, Leaves, Works, PointOf
    <3>2. pc'[s] = "changed" <=> pc[s] = "changed"
      BY <2>1
    <3> QED
      BY <1>0, <1>4, <2>2, <3>1, <3>2, NobodyAssumption DEF PointOf
  <2>4. pc'[s] = "dozing" => row_mutex' = s
    <3> SUFFICES ASSUME pc'[s] = "dozing" PROVE row_mutex' = s
      OBVIOUS
    <3>1. row_mutex = s
      BY <2>1, <2>2 DEF PointOf
    <3>2. row_mutex' = row_mutex \/ row_mutex = NoTxn \/ (pc[t] = "dozing")
      BY StepKinds
      DEF Quiet, Begin, Sleep, Timeout, WriteRecord, Notify, GivesUp, Dangles,
          EndsIn, Change, Leaves, Works, Performed, Doze
    <3>3. row_mutex # NoTxn
      BY <3>1, NobodyAssumption
    <3>4. pc[t] # "dozing"
      BY <1>1, <1>4, <3>1 DEF PointOf
    <3> QED
      BY <3>1, <3>2, <3>3, <3>4
  <2>5. pc'[s] = "logged" => \E r \in Range(log') : r.txn = s
    BY <2>1, <2>2, LogStays DEF PointOf
  <2>6. /\ wait'[s].kind = wait[s].kind /\ wait'[s].key = wait[s].key /\ wait'[s].ver = wait[s].ver
        /\ wait'[s] = wait[s] \/ wait[s].kind \in RowKinds
        /\ wait'[s].stale => wait[s].stale \/ wait[s].kind \in RowKinds
    <3>1. CASE wait'[s] = wait[s]
      BY <3>1
    <3>2. CASE EndsIn(t)
      <4>1. wait[s] \in [kind : Kinds \cup {"none"}, key : Keys \cup {0}, ver : Nat, over : Marks,
                         stale : BOOLEAN]
        BY <1>0 DEF Waits
      <4>2. wait'[s] = wait[s] \/ (wait[s].kind \in RowKinds
                                   /\ wait'[s] = [wait[s] EXCEPT !.stale = TRUE])
        BY <3>2 DEF EndsIn, Change
      <4> QED
        BY <4>1, <4>2
    <3> QED
      BY <2>1, <3>1, <3>2
  <2>7. IF Waiting(s)' THEN wait'[s].kind \in Kinds /\ wait'[s].key \in Keys ELSE wait'[s] = NoCall
    <3>1. CASE Waiting(s)
      BY <2>1, <2>2, <2>6, <3>1 DEF PointOf
    <3>2. CASE ~Waiting(s)
      BY <1>3, <2>1, <2>2, <2>6, <3>2 DEF PointOf
    <3> QED
      BY <3>1, <3>2
  <2>8. wait'[s].ver <= ver_num'
    <3>1. wait[s].ver \in Nat /\ wait[s].ver <= ver_num
      BY <1>0, <2>2 DEF PointOf, Waits
    <3> QED
      BY <1>0, <1>2, <2>6, <3>1
  <2>9. wait'[s].stale => wait'[s].kind \in RowKinds
    BY <2>2, <2>6 DEF PointOf
  <2>10. pc'[s] \in {"begin", "done"} => ops'[s] = <<>>
    BY <2>1, <2>2 DEF PointOf
  <2>11. pc'[s] = "begin" => asked'[s] = {}
    BY <2>1, <2>2 DEF PointOf
  <2> QED
    BY <2>3, <2>4, <2>5, <2>7, <2>8, <2>9, <2>10, <2>11 DEF PointOf
\* Its own.
<1>5. PointOf(t)'
  <2>0. PointOf(t)
    BY <1>1
  <2>a. wait[t].ver \in Nat
    BY <1>0 DEF Waits
  <2>1. CASE Begin(t)
    <3>1. /\ pc'[t] = "active" /\ pc[t] = "begin" /\ wait' = wait /\ container' = container
          /\ ver_num' = ver_num
      BY <1>0, <2>1 DEF Begin, Goto
    <3> QED
      BY <2>0, <3>1 DEF PointOf, Waiting
  <2>2. CASE Sleep(t)
    <3>1. /\ pc'[t] = "asleep" /\ pc[t] = "dozing" /\ wait' = wait /\ container' = container
          /\ ver_num' = ver_num
      BY <1>0, <2>2 DEF Sleep, Goto
    <3> QED
      BY <2>0, <3>1 DEF PointOf, Waiting
  <2>3. CASE Timeout(t) \/ GivesUp(t)
    <3>1. /\ pc'[t] = "active" /\ pc[t] \in {"asleep", "woken"} /\ wait'[t] = NoCall
          /\ container' = container /\ ver_num' = ver_num
      BY <1>0, <2>3 DEF Timeout, GivesUp, Goto
    <3> QED
      BY <1>0, <1>3, <2>0, <3>1 DEF PointOf, Waiting
  <2>4. CASE WriteRecord(t)
    <3>1. /\ pc'[t] = "logged" /\ pc[t] = "active" /\ wait' = wait /\ container' = container
          /\ ver_num' = ver_num
      BY <1>0, <2>4 DEF WriteRecord, Goto
    <3>2. \E r \in Range(log') : r.txn = t
      <4> DEFINE e == [txn |-> t, lsn |-> next_lsn, changes |-> Logged(t)]
      <4>1. log' = Append(log, e) /\ e.txn = t
        BY <2>4 DEF WriteRecord
      <4>2. log \in Seq(Range(log))
        BY DEF MapInv, Typed
      <4> HIDE DEF e
      <4>3. Range(log') = Range(log) \cup {e}
        BY <4>1, <4>2, RangeOfAppend
      <4> QED
        BY <4>1, <4>3
    <3> QED
      BY <2>0, <3>1, <3>2 DEF PointOf, Waiting
  <2>5. CASE Notify(t)
    <3>1. /\ pc'[t] = "done" /\ pc[t] = "changed" /\ wait' = wait /\ container' = NoTxn
          /\ ops'[t] = <<>> /\ ver_num' = ver_num
      BY <1>0, <2>5 DEF Notify, CanNotify
    <3> QED
      BY <1>0, <2>0, <3>1 DEF PointOf, Waiting
  <2>6. CASE Dangles(t)
    <3>1. /\ pc'[t] = "woken" /\ pc[t] = "woken" /\ wait' = wait /\ container' = container
          /\ ver_num' = ver_num
      BY <2>6 DEF Dangles
    <3> QED
      BY <2>0, <3>1 DEF PointOf, Waiting
  <2>7. CASE EndsIn(t)
    <3>1. /\ pc'[t] = "changed" /\ pc[t] \in {"active", "logged"} /\ container' = t
      BY <1>0, <2>7 DEF EndsIn, Change, Goto
    <3>2. wait[t] = NoCall
      BY <2>0, <3>1 DEF PointOf, Waiting
    <3>3. wait'[t] = NoCall
      BY <1>3, <2>7, <3>2 DEF EndsIn, Change
    <3> QED
      BY <1>0, <1>2, <1>3, <3>1, <3>3 DEF PointOf, Waiting
  <2>8. CASE Leaves(t)
    <3>1. /\ pc'[t] = "done" /\ pc[t] = "active" /\ wait' = wait /\ container' = container
          /\ ops'[t] = <<>> /\ ver_num' = ver_num
      BY <1>0, <2>8 DEF Leaves, Goto
    <3> QED
      BY <2>0, <3>1 DEF PointOf, Waiting
  <2>9. ASSUME NEW kind \in Kinds, NEW k \in Keys, Works(t, kind, k), Performed(t, kind, k)
        PROVE  PointOf(t)'
    <3>1. /\ pc'[t] = "active" /\ pc[t] \in {"active", "woken"} /\ container' = container
          /\ wait'[t] = NoCall /\ ver_num' = ver_num
      BY <1>0, <2>9 DEF Works, Performed
    <3> QED
      BY <1>0, <1>3, <2>0, <3>1 DEF PointOf, Waiting
  <2>10. ASSUME NEW kind \in Kinds, NEW k \in Keys, Works(t, kind, k), Doze(t, kind, k)
         PROVE  PointOf(t)'
    <3>1. /\ pc'[t] = "dozing" /\ pc[t] \in {"active", "woken"} /\ container' = container
          /\ row_mutex' = t /\ ver_num' = ver_num
      BY <1>0, <2>10 DEF Works, Doze, Goto
    <3>2. wait'[t].kind = kind /\ wait'[t].key = k /\ wait'[t].ver = ver_num /\ ~wait'[t].stale
      BY <1>0, <2>10 DEF Doze
    <3> QED
      BY <1>0, <2>0, <3>1, <3>2 DEF PointOf, Waiting
  <2> QED
    BY <2>1, <2>2, <2>3, <2>4, <2>5, <2>6, <2>7, <2>8, <2>9, <2>10, StepKinds DEF Quiet
<1> QED
  BY <1>4, <1>5 DEF PointsAreReal

-----------------------------------------------------------------------------
\* Operations and marks

\* The list of a transaction whose rows keep their marks stays traced.
LEMMA TraceStays ==
    ASSUME MapInv, ~corrupt, NEW s \in Txns, Unfinished(s), ops'[s] = ops[s], id'[s] = id[s],
           \A k \in KeysOf(s) : /\ Present(rows'[k]) /\ rows'[k].op = rows[k].op
                                /\ rows'[k].id = rows[k].id,
           Lsns \subseteq Lsns'
    PROVE  \A i \in DOMAIN ops'[s] : IsTraced(s, i)'
<1> TAKE i \in DOMAIN ops'[s]
<1> DEFINE o == ops[s][i]
<1>1. i \in DOMAIN ops[s] /\ o.key \in KeysOf(s)
  BY DEF KeysOf
<1>2. IsTraced(s, i)
  BY <1>1 DEF MapInv, OpsAreTraced
<1>3. \A k : On(s, k)' = On(s, k)
  BY DEF On
<1>4. IsFirst(s, i)' = IsFirst(s, i) /\ IsLast(s, i)' = IsLast(s, i)
  BY <1>3 DEF IsFirst, IsLast
<1> QED
  BY <1>1, <1>2, <1>3, <1>4 DEF IsTraced

\* A list that has become longer by o, whose row bears the mark of o now.
Extends(t, k, o) ==
    /\ ops' = [ops EXCEPT ![t] = Append(@, o)]
    /\ o \in Ops /\ o.key = k /\ o.val # NoValue
    /\ Present(rows'[k]) /\ rows'[k].op = o.kind /\ rows'[k].id = id[t]
    /\ \A x \in Keys \ {k} : rows'[x] = rows[x]
    /\ rows[k].op = o.op
    /\ rows[k].op = "none" \/ rows[k].id = id[t]
    /\ o.kind = "insert" => ~Present(rows[k])
    /\ o.kind # "insert" => Present(rows[k]) /\ o.id = rows[k].id
    /\ o.kind = "lock" => rows[k].op = "none"
    /\ o.kind = "deleted_insert" <=> rows[k].op = "insert"
    /\ rows[k].op # "deleted_insert"

\* A change adds one operation to the list, or gives a row that the transaction has
\* inserted another value.
LEMMA ChangesExtend ==
    ASSUME MapInv, NEW t \in Txns, NEW k \in Keys, Changes(t, k)
    PROVE  Rewritten(t, k) \/ \E o : Extends(t, k, o)
<1>0. Typed
  BY DEF MapInv
<1>1. rows \in [Keys -> Rows] /\ id[t] \in Nat /\ \A x \in Keys : ~Present(rows[x]) => rows[x] = NoRow
  BY <1>0 DEF Typed, TypeOK
<1>2. /\ rows[k].val \in Values /\ rows[k].op \in Marks /\ rows[k].id \in Nat
      /\ rows[k] \in [val : Values, op : Marks, id : Nat]
  BY <1>1 DEF Rows
<1>3. Value(t) \in Values /\ Value(t) # NoValue
  BY <1>0, ValuesAre
<1>4. CASE Inserted(t, k)
  <2> DEFINE row == [val |-> Value(t), op |-> "insert", id |-> id[t]]
             o == [kind |-> "insert", key |-> k, val |-> Value(t), id |-> 0, op |-> "none"]
  <2>1. Present(row) /\ row.op = "insert" /\ row.id = id[t]
    BY <1>3 DEF Present
  <2>2. /\ o \in Ops /\ o.key = k /\ o.kind = "insert" /\ o.val = Value(t) /\ o.op = "none"
    BY <1>3 DEF Ops, Marks
  <2>3. rows' = [rows EXCEPT ![k] = row] /\ ops' = [ops EXCEPT ![t] = Append(@, o)]
        /\ ~Present(rows[k])
    BY <1>4 DEF Inserted
  <2> HIDE DEF row, o
  <2>4. rows'[k] = row /\ \A x \in Keys \ {k} : rows'[x] = rows[x]
    BY <1>1, <2>3
  <2>5. rows[k].op = "none"
    BY <1>1, <2>3, NoRowIsARow
  <2>6. Extends(t, k, o)
    BY <1>3, <2>1, <2>2, <2>3, <2>4, <2>5 DEF Extends
  <2> QED
    BY <2>6
<1>5. ASSUME NEW op \in Marks, Marked(t, k, op) PROVE \E o : Extends(t, k, o)
  <2> DEFINE o == [kind |-> op, key |-> k, val |-> Value(t), id |-> rows[k].id, op |-> rows[k].op]
  <2>1. /\ rows' = [rows EXCEPT ![k].op = op, ![k].id = id[t]] /\ Present(rows[k])
        /\ ops' = [ops EXCEPT ![t] = Append(@, o)]
        /\ op \in {"lock", "update", "delete", "deleted_insert"}
    BY <1>5 DEF Marked, Mark
  <2>2. /\ rows'[k].val = rows[k].val /\ rows'[k].op = op /\ rows'[k].id = id[t]
        /\ \A x \in Keys \ {k} : rows'[x] = rows[x]
    BY <1>1, <1>2, <2>1
  <2>3. /\ o \in Ops /\ o.key = k /\ o.kind = op /\ o.val = Value(t) /\ o.op = rows[k].op
        /\ o.id = rows[k].id
    BY <1>2, <1>3, <2>1 DEF Ops
  <2> HIDE DEF o
  <2>4. Present(rows'[k])
    BY <2>1, <2>2 DEF Present
  <2>5. Extends(t, k, o)
    BY <1>3, <1>5, <2>1, <2>2, <2>3, <2>4 DEF Extends, Marked
  <2> QED
    BY <2>5
<1> QED
  BY <1>4, <1>5 DEF Changes

\* A list that has become longer is traced.
LEMMA LongerTrace ==
    ASSUME MapInv, ~corrupt, NEW t \in Txns, Unfinished(t), NEW k \in Keys, NEW o,
           Extends(t, k, o), id'[t] = id[t], Lsns \subseteq Lsns'
    PROVE  \A i \in DOMAIN ops'[t] : IsTraced(t, i)'
<1>1. ops \in [Txns -> Seq(Ops)] /\ ops[t] \in Seq(Ops) /\ o \in Ops
  BY DEF MapInv, Typed, TypeOK, Extends
<1>n. PICK n \in Nat : n = Len(ops[t])
  BY <1>1
<1>2. ops'[t] = Append(ops[t], o)
  BY <1>1 DEF Extends
<1>3. /\ n \in Nat /\ DOMAIN ops[t] = 1 .. n /\ DOMAIN ops'[t] = 1 .. n + 1
      /\ ops'[t][n + 1] = o /\ \A i \in 1 .. n : ops'[t][i] = ops[t][i]
  BY <1>1, <1>2, <1>n
<1>4. \A x : On(t, x)' = IF x = k THEN On(t, x) \cup {n + 1} ELSE On(t, x)
  <2> TAKE x
  <2>1. On(t, x)' = {i \in 1 .. n + 1 : ops'[t][i].key = x}
    BY <1>3 DEF On
  <2>2. On(t, x) = {i \in 1 .. n : ops[t][i].key = x}
    BY <1>3 DEF On
  <2>3. o.key = k
    BY DEF Extends
  <2> QED
    BY <1>3, <2>1, <2>2, <2>3
<1>5. \A i \in 1 .. n : IsTraced(t, i) /\ ops[t][i].key \in Keys
  <2>1. \A i \in 1 .. n : IsTraced(t, i)
    BY <1>3 DEF MapInv, OpsAreTraced
  <2>2. \A i \in 1 .. n : ops[t][i] \in Ops
    BY <1>1, <1>3
  <2> QED
    BY <2>1, <2>2 DEF Ops
<1>6. k \notin KeysOf(t) <=> rows[k].op = "none"
  BY OpsMark, MarksTell DEF Extends
\* The operations that were there.
<1>7. ASSUME NEW i \in 1 .. n PROVE IsTraced(t, i)'
  <2> DEFINE p == ops[t][i]
  <2>1. IsTraced(t, i) /\ p.key \in Keys /\ ops'[t][i] = p /\ i \in On(t, p.key) /\ i < n + 1
    BY <1>3, <1>5 DEF On
  <2>2. IsFirst(t, i)' = IsFirst(t, i)
    BY <1>3, <1>4, <2>1 DEF IsFirst
  <2>3. CASE p.key # k
    <3>1. On(t, p.key)' = On(t, p.key) /\ rows'[p.key] = rows[p.key]
      BY <1>4, <2>1, <2>3 DEF Extends
    <3>2. IsLast(t, i)' = IsLast(t, i)
      BY <2>1, <3>1 DEF IsLast
    <3>3. \A j \in On(t, p.key) : ops'[t][j].kind = ops[t][j].kind
      BY <1>3 DEF On
    <3> QED
      BY <2>1, <2>2, <3>1, <3>2, <3>3 DEF IsTraced, Present
  <2>4. CASE p.key = k
    <3>1. n + 1 \in On(t, k)' /\ ~(n + 1 <= i)
      BY <1>3, <1>4
    <3>2. ~IsLast(t, i)'
      BY <2>1, <2>4, <3>1 DEF IsLast
    <3>3. p.kind = "insert" => o.kind = "deleted_insert"
      BY <2>1, <2>4 DEF IsTraced, Extends
    <3>4. p.kind # "deleted_insert"
      BY <2>1, <2>4 DEF IsTraced, Extends
    <3>5. /\ Present(rows'[k]) /\ rows'[k].op = o.kind /\ rows'[k].id = id[t] /\ o.kind # "none"
      BY <1>1 DEF Extends, Ops
    <3> QED
      BY <2>1, <2>2, <2>4, <3>2, <3>3, <3>4, <3>5 DEF IsTraced
  <2> QED
    BY <2>3, <2>4
\* The new one.
<1>8. IsTraced(t, n + 1)'
  <2>1. ops'[t][n + 1] = o /\ o.key = k
    BY <1>3 DEF Extends
  <2>2. /\ Present(rows'[k]) /\ rows'[k].op = o.kind /\ rows'[k].id = id[t] /\ o.kind # "none"
        /\ o.val # NoValue
    BY <1>1 DEF Extends, Ops
  <2>3. IsFirst(t, n + 1)' <=> k \notin KeysOf(t)
    <3>1. \A i \in On(t, k) : i \in 1 .. n
      BY <1>3 DEF On
    <3>a. On(t, k)' = On(t, k) \cup {n + 1}
      BY <1>4
    <3>b. IsFirst(t, n + 1)' <=> \A j \in On(t, k) \cup {n + 1} : n + 1 <= j
      BY <2>1, <3>a DEF IsFirst
    <3>2. IsFirst(t, n + 1)' <=> On(t, k) = {}
      BY <1>3, <3>1, <3>b
    <3>3. On(t, k) = {} <=> k \notin KeysOf(t)
      BY DEF On, KeysOf
    <3> QED
      BY <3>2, <3>3
  <2>4. IsFirst(t, n + 1)' <=> o.op = "none"
    BY <1>6, <2>3 DEF Extends
  <2>5. o.op = "none" /\ o.kind # "insert" => o.id \in Lsns'
    BY DEF MapInv, MarksAreHeld, MarkIsHeld, Extends
  <2>6. o.kind = "lock" => o.op = "none"
    BY DEF Extends
  <2>7. o.kind = "insert" => o.op = "none"
    BY NoRowIsARow DEF Extends, MapInv, Typed, TypeOK
  <2>8. o.kind = "deleted_insert" =>
           IsLast(t, n + 1)' /\ \E j \in On(t, k)' : ops'[t][j].kind = "insert"
    <3> SUFFICES ASSUME o.kind = "deleted_insert"
                 PROVE  IsLast(t, n + 1)' /\ \E j \in On(t, k)' : ops'[t][j].kind = "insert"
      OBVIOUS
    <3>1. k \in KeysOf(t) /\ rows[k].op = "insert"
      BY <1>6 DEF Extends
    <3>2. PICK e \in On(t, k) : IsLast(t, e)
      BY <1>1, <3>1, EndsOfList
    <3>3. e \in 1 .. n /\ ops[t][e].key = k
      BY <1>3 DEF On
    <3>4. ops[t][e].kind = "insert"
      BY <1>5, <3>1, <3>2, <3>3 DEF IsTraced
    <3>5. IsLast(t, n + 1)'
      BY <1>3, <1>4, <2>1 DEF IsLast, On
    <3> QED
      BY <1>3, <1>4, <3>2, <3>3, <3>4, <3>5
  <2> QED
    BY <2>1, <2>2, <2>4, <2>5, <2>6, <2>7, <2>8 DEF IsTraced
<1>9. \A i \in 1 .. n + 1 : i \in 1 .. n \/ i = n + 1
  BY <1>3
<1> QED
  BY <1>3, <1>7, <1>8, <1>9

\* A step of t leaves the rows alone that another has operations on.
LEMMA RowsOfOthersStay ==
    ASSUME MapInv, ~corrupt, NEW t \in Txns, Steps(t), NEW s \in Txns, s # t, Unfinished(s),
           NEW k \in KeysOf(s)
    PROVE  rows'[k] = rows[k]
<1>1. k \in Keys /\ rows[k].op # "none" /\ rows[k].id = id[s] /\ Present(rows[k])
  BY OpsMark
<1>2. rows \in [Keys -> Rows]
  BY DEF MapInv, Typed, TypeOK
<1>3. CASE Quiet(t) \/ Leaves(t)
  BY <1>3 DEF Quiet, Begin, Sleep, Timeout, WriteRecord, Notify, GivesUp, Dangles, Leaves
<1>4. CASE EndsIn(t)
  <2>1. Unfinished(t)
    BY <1>4 DEF EndsIn, Unfinished
  <2>2. k \notin KeysOf(t)
    <3> SUFFICES ASSUME k \in KeysOf(t) PROVE FALSE
      OBVIOUS
    <3>1. id[s] = id[t]
      BY <1>1, <2>1, OpsMark
    <3> QED
      BY <2>1, <3>1, IdsTell
  <2> QED
    BY <1>1, <1>4, <2>2 DEF EndsIn, Ends, Change
<1>5. ASSUME NEW kind \in Kinds, NEW x \in Keys, Works(t, kind, x), Performed(t, kind, x)
      PROVE  rows'[k] = rows[k]
  <2>1. pc[t] # "begin" /\ pc[s] # "begin"
    BY <1>5 DEF Works, Unfinished
  <2>2. id[t] # id[s]
    BY <2>1 DEF MapInv, IdsAreDistinct
  <2>3. CASE UNCHANGED <<rows, ops>>
    BY <2>3
  <2>4. CASE Rewritten(t, x)
    BY <1>1, <1>2, <2>2, <2>4 DEF Rewritten
  <2>5. ASSUME NEW o, Extends(t, x, o) PROVE rows'[k] = rows[k]
    BY <1>1, <2>2, <2>5 DEF Extends
  <2> QED
    BY <1>5, <2>3, <2>4, <2>5, ChangesExtend DEF Performed
<1>6. ASSUME NEW kind \in Kinds, NEW x \in Keys, Doze(t, kind, x)
      PROVE  rows'[k] = rows[k]
  BY <1>6 DEF Doze
<1> QED
  BY <1>3, <1>4, <1>5, <1>6, StepKinds

\* Until it ends a transaction stays unfinished and keeps its keys.
LEMMA KeysStay ==
    ASSUME MapInv, NEW t \in Txns, Steps(t), ~EndsIn(t), NEW u \in Txns, Unfinished(u),
           NEW k \in KeysOf(u)
    PROVE  Unfinished(u)' /\ k \in KeysOf(u)'
<1>1. CASE u # t
  <2>1. ops'[u] = ops[u] /\ Unfinished(u)'
    BY <1>1, OthersStay
  <2> QED
    BY <2>1 DEF KeysOf
<1>2. CASE u = t
  <2>0. ops \in [Txns -> Seq(Ops)] /\ pc \in [Txns -> Points] /\ ops[t] \in Seq(Ops)
    BY DEF MapInv, Typed, TypeOK
  <2>1. CASE Quiet(t)
    <3>1. ops' = ops
      BY <1>2, <2>1
      DEF Quiet, Begin, Sleep, Timeout, WriteRecord, Notify, CanNotify, GivesUp, Dangles,
          Unfinished
    <3>2. Unfinished(t)'
      BY <1>2, <2>0, <2>1
      DEF Quiet, Begin, Sleep, Timeout, WriteRecord, Notify, CanNotify, GivesUp, Dangles,
          Unfinished, Goto
    <3> QED
      BY <1>2, <3>1, <3>2 DEF KeysOf
  <2>2. CASE Leaves(t)
    BY <1>2, <2>2 DEF Leaves, KeysOf
  <2>3. ASSUME NEW kind \in Kinds, NEW x \in Keys, Works(t, kind, x), Performed(t, kind, x)
        PROVE  Unfinished(t)' /\ k \in KeysOf(t)'
    <3>1. Unfinished(t)'
      BY <2>0, <2>3 DEF Performed, Unfinished
    <3>2. ops' = ops \/ \E o \in Ops : ops'[t] = Append(ops[t], o)
      <4>1. ops' = ops \/ \E o : Extends(t, x, o)
        BY <2>3, ChangesExtend DEF Performed, Rewritten
      <4> QED
        BY <2>0, <4>1 DEF Extends
    <3>3. PICK i \in DOMAIN ops[t] : ops[t][i].key = k
      BY <1>2 DEF KeysOf
    <3>4. i \in DOMAIN ops'[t] /\ ops'[t][i] = ops[t][i]
      BY <2>0, <3>2, <3>3
    <3> QED
      BY <3>1, <3>3, <3>4 DEF KeysOf
  <2>4. ASSUME NEW kind \in Kinds, NEW x \in Keys, Works(t, kind, x), Doze(t, kind, x)
        PROVE  Unfinished(t)' /\ k \in KeysOf(t)'
    BY <1>2, <2>0, <2>4 DEF Doze, Unfinished, Goto, KeysOf
  <2> QED
    BY <1>2, <2>1, <2>2, <2>3, <2>4, StepKinds
<1> QED
  BY <1>1, <1>2

\* Every operation of an unfinished transaction stays traced.
LEMMA TracesStay ==
    ASSUME MapInv, NEW t \in Txns, Steps(t)
    PROVE  OpsAreTraced'
<1> SUFFICES ASSUME ~corrupt', NEW s \in Txns, Unfinished(s)'
             PROVE  \A i \in DOMAIN ops'[s] : IsTraced(s, i)'
  BY DEF OpsAreTraced
<1>0. ~corrupt /\ Lsns \subseteq Lsns'
  BY LogStays
<1>1. /\ ops \in [Txns -> Seq(Ops)] /\ pc \in [Txns -> Points] /\ rows \in [Keys -> Rows]
      /\ id \in [Txns -> Nat]
  BY DEF MapInv, Typed, TypeOK
<1>2. CASE s # t
  <2>1. ops'[s] = ops[s] /\ id'[s] = id[s] /\ Unfinished(s)
    BY <1>2, OthersStay
  <2>2. \A k \in KeysOf(s) : Present(rows'[k]) /\ rows'[k] = rows[k]
    <3> TAKE k \in KeysOf(s)
    <3>1. rows'[k] = rows[k]
      BY <1>0, <1>2, <2>1, RowsOfOthersStay
    <3>2. Present(rows[k])
      BY <1>0, <2>1, OpsMark
    <3> QED
      BY <3>1, <3>2
  <2> QED
    BY <1>0, <2>1, <2>2, TraceStays
<1>3. CASE s = t
  <2>1. CASE Begin(t)
    <3>1. ops'[t] = <<>>
      BY <2>1 DEF Begin, MapInv, PointsAreReal, PointOf
    <3> QED
      BY <1>3, <3>1
  <2>2. ASSUME rows' = rows, ops' = ops, id' = id, Unfinished(t)
        PROVE  \A i \in DOMAIN ops'[t] : IsTraced(t, i)'
    <3>1. \A k \in KeysOf(t) : Present(rows[k])
      BY <1>0, <2>2, OpsMark
    <3>2. \A k \in KeysOf(t) : Present(rows'[k])
      BY <2>2, <3>1
    <3> QED
      BY <1>0, <2>2, <3>2, TraceStays
  <2>3. CASE Sleep(t) \/ Timeout(t) \/ GivesUp(t) \/ WriteRecord(t)
    <3>1. rows' = rows /\ ops' = ops /\ id' = id /\ Unfinished(t)
      BY <2>3 DEF Sleep, Timeout, GivesUp, WriteRecord, Unfinished
    <3> QED
      BY <1>3, <2>2, <3>1
  <2>4. CASE Notify(t)
    BY <1>1, <1>3, <2>4 DEF Notify, Unfinished
  <2>5. CASE Dangles(t)
    BY <2>5 DEF Dangles
  <2>6. CASE EndsIn(t) \/ Leaves(t)
    BY <1>1, <1>3, <2>6 DEF EndsIn, Change, Leaves, Goto, Unfinished
  <2>7. ASSUME NEW kind \in Kinds, NEW k \in Keys, Works(t, kind, k), Performed(t, kind, k)
        PROVE  \A i \in DOMAIN ops'[t] : IsTraced(t, i)'
    <3>1. Unfinished(t) /\ id' = id
      BY <2>7 DEF Works, Unfinished
    <3>2. CASE UNCHANGED <<rows, ops>>
      BY <2>2, <3>1, <3>2
    <3>3. CASE Rewritten(t, k)
      <4>1. \A x \in KeysOf(t) : x \in Keys /\ Present(rows[x])
        BY <1>0, <3>1, OpsMark
      <4>2. rows[k] \in [val : Values, op : Marks, id : Nat]
        BY <1>1 DEF Rows
      <4>3. rows'[k].op = rows[k].op /\ rows'[k].id = rows[k].id /\ rows'[k].val = Value(t)
            /\ \A x \in Keys \ {k} : rows'[x] = rows[x]
        BY <1>1, <3>3, <4>2 DEF Rewritten
      <4>4. Value(t) # NoValue
        BY ValuesAre DEF MapInv
      <4>5. \A x \in KeysOf(t) : /\ Present(rows'[x]) /\ rows'[x].op = rows[x].op
                                 /\ rows'[x].id = rows[x].id
        BY <4>1, <4>3, <4>4 DEF Present
      <4>6. ops'[t] = ops[t] /\ id'[t] = id[t]
        BY <3>1, <3>3 DEF Rewritten
      <4> QED
        BY <1>0, <3>1, <4>5, <4>6, TraceStays
    <3>4. ASSUME NEW o, Extends(t, k, o) PROVE \A i \in DOMAIN ops'[t] : IsTraced(t, i)'
      BY <1>0, <3>1, <3>4, LongerTrace
    <3> QED
      BY <2>7, <3>2, <3>3, <3>4, ChangesExtend DEF Performed
  <2>8. ASSUME NEW kind \in Kinds, NEW k \in Keys, Works(t, kind, k), Doze(t, kind, k)
        PROVE  \A i \in DOMAIN ops'[t] : IsTraced(t, i)'
    <3>1. rows' = rows /\ ops' = ops /\ id' = id /\ Unfinished(t)
      BY <2>8 DEF Works, Doze, Unfinished
    <3> QED
      BY <2>2, <3>1
  <2> QED
    BY <1>3, <2>1, <2>3, <2>4, <2>5, <2>6, <2>7, <2>8, StepKinds DEF Quiet
<1> QED
  BY <1>2, <1>3

\* Every mark stays held, and an unmarked row has the LSN of a commit.
LEMMA MarksStay ==
    ASSUME MapInv, NEW t \in Txns, Steps(t)
    PROVE  MarksAreHeld'
<1> SUFFICES ASSUME ~corrupt', NEW k \in Keys PROVE MarkIsHeld(k)'
  BY DEF MarksAreHeld
<1>0. ~corrupt /\ Lsns \subseteq Lsns'
  BY LogStays
<1>1. MarkIsHeld(k)
  BY <1>0 DEF MapInv, MarksAreHeld
<1>2. rows \in [Keys -> Rows]
  BY DEF MapInv, Typed, TypeOK
<1>3. ASSUME ~EndsIn(t), rows'[k].op = rows[k].op, rows'[k].id = rows[k].id,
             Present(rows'[k]) = Present(rows[k])
      PROVE  MarkIsHeld(k)'
  <2>1. ASSUME rows[k].op # "none"
        PROVE  \E u \in Txns : Unfinished(u)' /\ k \in KeysOf(u)'
    <3>1. PICK u \in Txns : Unfinished(u) /\ k \in KeysOf(u)
      BY <1>1, <2>1 DEF MarkIsHeld
    <3> QED
      BY <1>3, <3>1, KeysStay
  <2>2. rows[k].op = "none" /\ Present(rows[k]) => rows[k].id \in Lsns'
    BY <1>0, <1>1 DEF MarkIsHeld
  <2>3. rows'[k].op = "none" /\ Present(rows'[k]) => rows'[k].id \in Lsns'
    BY <1>3, <2>2
  <2>4. rows'[k].op # "none" => \E u \in Txns : Unfinished(u)' /\ k \in KeysOf(u)'
    BY <1>3, <2>1
  <2> QED
    BY <2>3, <2>4 DEF MarkIsHeld
<1>4. CASE EndsIn(t)
  <2>1. PICK m : Ends(t, m) /\ Change(t, m)
    BY <1>4 DEF EndsIn
  <2>2. rows' = m.rows
    BY <2>1 DEF Change
  <2>3. CASE k \in KeysOf(t)
    <3>1. m.rows[k].op = "none" /\ (Present(m.rows[k]) => m.rows[k].id \in Lsns)
      BY <2>1, <2>3 DEF Ends
    <3>2. rows'[k].op = "none" /\ (Present(rows'[k]) => rows'[k].id \in Lsns')
      BY <1>0, <2>2, <3>1
    <3> QED
      BY <3>2 DEF MarkIsHeld
  <2>4. CASE k \notin KeysOf(t)
    <3>1. rows'[k] = rows[k]
      BY <2>1, <2>2, <2>4 DEF Ends
    <3>2. ASSUME rows[k].op # "none"
          PROVE  \E u \in Txns : Unfinished(u)' /\ k \in KeysOf(u)'
      <4>1. PICK u \in Txns : Unfinished(u) /\ k \in KeysOf(u)
        BY <1>1, <3>2 DEF MarkIsHeld
      <4>2. u # t
        BY <2>4, <4>1
      <4>3. ops'[u] = ops[u] /\ Unfinished(u)'
        BY <4>1, <4>2, OthersStay
      <4> QED
        BY <4>1, <4>3 DEF KeysOf
    <3>3. rows[k].op = "none" /\ Present(rows[k]) => rows[k].id \in Lsns'
      BY <1>0, <1>1 DEF MarkIsHeld
    <3>4. rows'[k].op = "none" /\ Present(rows'[k]) => rows'[k].id \in Lsns'
      BY <3>1, <3>3
    <3>5. rows'[k].op # "none" => \E u \in Txns : Unfinished(u)' /\ k \in KeysOf(u)'
      BY <3>1, <3>2
    <3> QED
      BY <3>4, <3>5 DEF MarkIsHeld
  <2> QED
    BY <2>3, <2>4
<1>5. CASE ~EndsIn(t) /\ rows' = rows
  <2>1. rows'[k] = rows[k]
    BY <1>5
  <2> QED
    BY <1>3, <1>5, <2>1
<1>6. ASSUME NEW kind \in Kinds, NEW x \in Keys, Works(t, kind, x), Performed(t, kind, x),
             ~EndsIn(t)
      PROVE  MarkIsHeld(k)'
  <2>1. CASE UNCHANGED <<rows, ops>>
    BY <1>5, <1>6, <2>1
  <2>2. CASE Rewritten(t, x)
    <3>1. rows[x] \in [val : Values, op : Marks, id : Nat] /\ Present(rows[x])
      BY <1>2, <2>2, NoRowIsARow DEF Rows, Rewritten, MapInv, Typed, TypeOK
    <3>2. rows'[x].op = rows[x].op /\ rows'[x].id = rows[x].id /\ rows'[x].val = Value(t)
          /\ \A y \in Keys \ {x} : rows'[y] = rows[y]
      BY <1>2, <2>2, <3>1 DEF Rewritten
    <3>3. Value(t) # NoValue
      BY ValuesAre DEF MapInv
    <3>4. Present(rows'[x])
      BY <3>2, <3>3 DEF Present
    <3>5. CASE k = x
      BY <1>3, <1>6, <3>1, <3>2, <3>4, <3>5
    <3>6. CASE k # x
      <4>1. rows'[k] = rows[k]
        BY <3>2, <3>6
      <4> QED
        BY <1>3, <1>6, <4>1
    <3> QED
      BY <3>5, <3>6
  <2>3. ASSUME NEW o, Extends(t, x, o) PROVE MarkIsHeld(k)'
    <3>1. CASE k # x
      <4>1. rows'[k] = rows[k]
        BY <2>3, <3>1 DEF Extends
      <4> QED
        BY <1>3, <1>6, <4>1
    <3>2. CASE k = x
      <4>1. rows'[k].op # "none"
        BY <2>3, <3>2 DEF Extends, Ops
      <4>2. ops[t] \in Seq(Ops) /\ ops \in [Txns -> Seq(Ops)] /\ pc \in [Txns -> Points]
        BY DEF MapInv, Typed, TypeOK
      <4>3. ops'[t] = Append(ops[t], o) /\ o.key = k
        BY <2>3, <3>2, <4>2 DEF Extends
      <4>4. Len(ops[t]) + 1 \in DOMAIN ops'[t] /\ ops'[t][Len(ops[t]) + 1] = o
        BY <2>3, <4>2, <4>3 DEF Extends
      <4>5. k \in KeysOf(t)'
        BY <4>3, <4>4 DEF KeysOf
      <4>6. Unfinished(t)'
        BY <1>6, <4>2 DEF Performed, Unfinished
      <4> QED
        BY <4>1, <4>5, <4>6 DEF MarkIsHeld
    <3> QED
      BY <3>1, <3>2
  <2> QED
    BY <1>6, <2>1, <2>2, <2>3, ChangesExtend DEF Performed
<1>7. Quiet(t) \/ Leaves(t) => rows' = rows
  BY DEF Quiet, Begin, Sleep, Timeout, WriteRecord, Notify, GivesUp, Dangles, Leaves
<1>8. ASSUME NEW kind \in Kinds, NEW x \in Keys, Doze(t, kind, x)
      PROVE  rows' = rows
  BY <1>8 DEF Doze
<1> QED
  BY <1>4, <1>5, <1>6, <1>7, <1>8, StepKinds

-----------------------------------------------------------------------------
\* Locks, sleepers and iterators

\* Only the end of its transaction takes a mark off a row, and only an insert that was erased
\* by its own keeps an operation from marking it anew.
LEMMA MarksLast ==
    ASSUME MapInv, ~corrupt, NEW t \in Txns, Steps(t), ~EndsIn(t), NEW k \in Keys
    PROVE  /\ rows[k].op # "none" => rows'[k].op # "none" /\ rows'[k].id = rows[k].id
           /\ rows[k].op = "deleted_insert" => rows'[k] = rows[k]
           /\ Present(rows[k]) => Present(rows'[k])
<1>0. rows \in [Keys -> Rows]
  BY DEF MapInv, Typed, TypeOK
<1>1. CASE rows' = rows
  <2>1. rows'[k] = rows[k]
    BY <1>1
  <2> QED
    BY <2>1
<1>2. ASSUME NEW kind \in Kinds, NEW x \in Keys, Performed(t, kind, x)
      PROVE  /\ rows[k].op # "none" => rows'[k].op # "none" /\ rows'[k].id = rows[k].id
             /\ rows[k].op = "deleted_insert" => rows'[k] = rows[k]
             /\ Present(rows[k]) => Present(rows'[k])
  <2>1. CASE Rewritten(t, x)
    <3>1. rows[x] \in [val : Values, op : Marks, id : Nat]
      BY <1>0 DEF Rows
    <3>2. rows'[x].op = rows[x].op /\ rows'[x].id = rows[x].id /\ rows'[x].val = Value(t)
          /\ \A y \in Keys \ {x} : rows'[y] = rows[y]
      BY <1>0, <2>1, <3>1 DEF Rewritten
    <3>3. Value(t) # NoValue
      BY ValuesAre DEF MapInv
    <3>4. Present(rows'[x]) /\ rows[x].op = "insert"
      BY <2>1, <3>2, <3>3 DEF Present, Rewritten
    <3>5. CASE k = x
      BY <3>2, <3>4, <3>5
    <3>6. CASE k # x
      <4>1. rows'[k] = rows[k]
        BY <3>2, <3>6
      <4> QED
        BY <4>1
    <3> QED
      BY <3>5, <3>6
  <2>2. ASSUME NEW o, Extends(t, x, o)
        PROVE  /\ rows[k].op # "none" => rows'[k].op # "none" /\ rows'[k].id = rows[k].id
               /\ rows[k].op = "deleted_insert" => rows'[k] = rows[k]
               /\ Present(rows[k]) => Present(rows'[k])
    <3>1. CASE k = x
      <4>1. o.kind # "none"
        BY <2>2 DEF Extends, Ops
      <4> QED
        BY <2>2, <3>1, <4>1 DEF Extends
    <3>2. CASE k # x
      <4>1. rows'[k] = rows[k]
        BY <2>2, <3>2 DEF Extends
      <4> QED
        BY <4>1
    <3> QED
      BY <3>1, <3>2
  <2>3. CASE UNCHANGED <<rows, ops>>
    BY <1>1, <2>3
  <2> QED
    BY <1>2, <2>1, <2>2, <2>3, ChangesExtend DEF Performed
<1>3. Quiet(t) \/ Leaves(t) => rows' = rows
  BY DEF Quiet, Begin, Sleep, Timeout, WriteRecord, Notify, GivesUp, Dangles, Leaves
<1>4. ASSUME NEW kind \in Kinds, NEW x \in Keys, Doze(t, kind, x)
      PROVE  rows' = rows
  BY <1>4 DEF Doze
<1> QED
  BY <1>1, <1>2, <1>3, <1>4, StepKinds

\* The property, for one row that one transaction has asked for.
LockIsKept(s, k) ==
    \/ pc[s] = "changed"
    \/ rows[k].op # "none" /\ rows[k].id = id[s]
    \/ id[s] \in Lsns

\* A step leaves every transaction the locks that it has asked for.
LEMMA AskedStay ==
    ASSUME MapInv, NEW t \in Txns, Steps(t)
    PROVE  AskedIsLocked'
<1> SUFFICES ASSUME ~corrupt', NEW s \in Txns, NEW k \in asked'[s] PROVE LockIsKept(s, k)'
  BY DEF AskedIsLocked, LockIsKept, Lsns
<1>0. ~corrupt /\ Lsns \subseteq Lsns'
  BY LogStays
<1>1. /\ pc \in [Txns -> Points] /\ rows \in [Keys -> Rows] /\ id \in [Txns -> Nat]
      /\ asked \in [Txns -> SUBSET Keys]
  BY DEF MapInv, Typed, TypeOK
<1>2. \A u \in Txns : \A x \in asked[u] : LockIsKept(u, x) /\ x \in Keys /\ pc[u] # "begin"
  BY <1>0, <1>1 DEF MapInv, AskedIsLocked, LockIsKept, Lsns, PointsAreReal, PointOf
<1>3. CASE s # t
  <2>1. k \in asked[s] /\ id'[s] = id[s] /\ (pc[s] = "changed" => pc'[s] = "changed")
    BY <1>3, OthersStay
  <2>2. LockIsKept(s, k) /\ k \in Keys /\ pc[s] # "begin"
    BY <1>2, <2>1
  <2>3. CASE pc[s] = "changed" \/ id[s] \in Lsns
    BY <1>0, <2>1, <2>3 DEF LockIsKept
  <2>4. CASE rows[k].op # "none" /\ rows[k].id = id[s]
    <3>1. CASE ~EndsIn(t)
      <4>1. rows'[k].op # "none" /\ rows'[k].id = rows[k].id
        BY <1>0, <2>2, <2>4, <3>1, MarksLast
      <4> QED
        BY <2>1, <2>4, <4>1 DEF LockIsKept
    <3>2. CASE EndsIn(t)
      <4>1. Unfinished(s)
        BY <1>0, <2>2, <2>4, MarksTell
      <4>2. k \in KeysOf(s)
        BY <1>0, <2>2, <2>4, <4>1, MarksTell
      <4>3. rows'[k] = rows[k]
        BY <1>0, <1>3, <4>1, <4>2, RowsOfOthersStay
      <4> QED
        BY <2>1, <2>4, <4>3 DEF LockIsKept
    <3> QED
      BY <3>1, <3>2
  <2> QED
    BY <2>2, <2>3, <2>4 DEF LockIsKept
<1>4. CASE s = t
  <2>1. ASSUME k \in asked[t], rows' = rows, id' = id, pc[t] # "changed" PROVE LockIsKept(t, k)'
    <3>1. LockIsKept(t, k)
      BY <1>2, <2>1
    <3> QED
      BY <1>0, <2>1, <3>1 DEF LockIsKept
  <2>2. CASE Begin(t)
    BY <1>2, <1>4, <2>2 DEF Begin
  <2>3. CASE Sleep(t) \/ Timeout(t) \/ GivesUp(t) \/ WriteRecord(t) \/ Leaves(t)
    <3>1. rows' = rows /\ id' = id /\ asked' = asked /\ pc[t] # "changed"
      BY <2>3 DEF Sleep, Timeout, GivesUp, WriteRecord, Leaves
    <3> QED
      BY <1>4, <2>1, <3>1
  <2>4. CASE Notify(t)
    BY <1>1, <1>4, <2>4 DEF Notify
  <2>5. CASE Dangles(t)
    BY <2>5 DEF Dangles
  <2>6. CASE EndsIn(t)
    BY <1>1, <1>4, <2>6 DEF EndsIn, Change, Goto, LockIsKept
  <2>7. ASSUME NEW kind \in Kinds, NEW x \in Keys, Works(t, kind, x), Performed(t, kind, x),
               ~EndsIn(t)
        PROVE  LockIsKept(t, k)'
    <3>0. id' = id /\ pc[t] # "changed"
      BY <2>7 DEF Works
    <3>1. CASE k \in asked[t]
      <4>1. LockIsKept(t, k) /\ k \in Keys
        BY <1>2, <3>1
      <4>2. CASE id[t] \in Lsns
        BY <1>0, <3>0, <4>2 DEF LockIsKept
      <4>3. CASE rows[k].op # "none" /\ rows[k].id = id[t]
        <5>1. rows'[k].op # "none" /\ rows'[k].id = rows[k].id
          BY <1>0, <2>7, <4>1, <4>3, MarksLast
        <5> QED
          BY <3>0, <4>3, <5>1 DEF LockIsKept
      <4> QED
        BY <3>0, <4>1, <4>2, <4>3 DEF LockIsKept
    <3>2. CASE k \notin asked[t]
      <4>1. kind = "lock" /\ k = x
        BY <1>1, <1>4, <2>7, <3>2 DEF Performed
      <4>2. CASE Marked(t, k, "lock")
        <5>1. /\ rows' = [rows EXCEPT ![k].op = "lock", ![k].id = id[t]]
              /\ rows[k] \in [val : Values, op : Marks, id : Nat] /\ k \in Keys
          BY <1>1, <4>1, <4>2 DEF Marked, Mark, Rows
        <5>2. rows'[k].op = "lock" /\ rows'[k].id = id[t]
          BY <1>1, <5>1
        <5> QED
          BY <3>0, <5>2 DEF LockIsKept
      <4>3. CASE rows[k].id = id[t]
        <5>1. CASE rows[k].op # "none"
          <6>1. rows'[k].op # "none" /\ rows'[k].id = rows[k].id
            BY <1>0, <2>7, <4>1, <5>1, MarksLast
          <6> QED
            BY <3>0, <4>3, <6>1 DEF LockIsKept
        <5>2. CASE rows[k].op = "none"
          <6>1. Present(rows[k])
            BY <2>7, <4>1 DEF Works
          <6>2. rows[k].id \in Lsns
            BY <1>0, <4>1, <5>2, <6>1 DEF MapInv, MarksAreHeld, MarkIsHeld
          <6> QED
            BY <1>0, <3>0, <4>3, <6>2 DEF LockIsKept
        <5> QED
          BY <5>1, <5>2
      <4> QED
        BY <2>7, <4>1, <4>2, <4>3 DEF Performed
    <3> QED
      BY <3>1, <3>2
  <2>8. ASSUME NEW kind \in Kinds, NEW x \in Keys, Works(t, kind, x), Doze(t, kind, x)
        PROVE  LockIsKept(t, k)'
    <3>1. rows' = rows /\ id' = id /\ asked' = asked /\ pc[t] # "changed"
      BY <2>8 DEF Works, Doze
    <3> QED
      BY <1>4, <2>1, <3>1
  <2> QED
    BY <1>4, <2>2, <2>3, <2>4, <2>5, <2>6, <2>7, <2>8, StepKinds DEF Quiet
<1> QED
  BY <1>3, <1>4

-----------------------------------------------------------------------------
\* Those who wait

\* After each step whoever sleeps still has a reason to.
LEMMA SleepersStay ==
    ASSUME MapInv, NEW t \in Txns, Steps(t)
    PROVE  SleepersHaveReason'
<1> SUFFICES ASSUME ~corrupt', NEW s \in Txns, pc'[s] \in {"dozing", "asleep"}
             PROVE  container' # NoTxn \/ HeldByOther(s, rows[wait[s].key])'
  BY DEF SleepersHaveReason, HasReason
<1>0. ~corrupt
  BY LogStays
<1>1. /\ pc \in [Txns -> Points] /\ wait \in [Txns -> Waits] /\ t # NoTxn /\ s # NoTxn
  BY NobodyAssumption DEF MapInv, Typed, TypeOK
<1>2. \A u \in Txns : HasReason(u) /\ PointOf(u)
  BY <1>0 DEF MapInv, SleepersHaveReason, PointsAreReal
<1>3. CASE s # t
  <2>1. CASE EndsIn(t)
    <3>1. container' = t
      BY <2>1 DEF EndsIn, Change
    <3> QED
      BY <1>1, <3>1
  <2>2. CASE Notify(t)
    <3>1. pc'[s] = IF pc[s] = "asleep" THEN "woken" ELSE pc[s]
      BY <1>1, <1>3, <2>2 DEF Notify
    <3>2. pc[s] = "dozing"
      BY <3>1
    <3>3. row_mutex = s /\ row_mutex = NoTxn
      BY <1>2, <2>2, <3>2 DEF PointOf, Notify, CanNotify
    <3> QED
      BY <1>1, <3>3
  <2>3. CASE ~EndsIn(t) /\ ~Notify(t)
    <3>1. id'[s] = id[s] /\ pc'[s] = pc[s] /\ wait'[s] = wait[s]
      BY <1>3, <2>3, OthersStay
    <3>2. container' = container
      BY <2>3, StepKinds
      DEF Quiet, Begin, Sleep, Timeout, WriteRecord, GivesUp, Dangles, Leaves, Works
    <3>3. container # NoTxn \/ HeldByOther(s, rows[wait[s].key])
      BY <1>2, <3>1 DEF HasReason
    <3> DEFINE k == wait[s].key
    <3>4. k \in Keys
      BY <1>2, <3>1 DEF PointOf, Waiting
    <3>5. rows[k].op # "none" => rows'[k].op # "none" /\ rows'[k].id = rows[k].id
      BY <1>0, <2>3, <3>4, MarksLast
    <3> QED
      BY <3>1, <3>2, <3>3, <3>5 DEF HeldByOther
  <2> QED
    BY <2>1, <2>2, <2>3
<1>4. CASE s = t
  <2>1. CASE Sleep(t)
    <3>1. /\ pc[t] = "dozing" /\ rows' = rows /\ wait' = wait /\ id' = id
          /\ container' = container
      BY <2>1 DEF Sleep
    <3> QED
      BY <1>2, <1>4, <3>1 DEF HasReason, HeldByOther
  <2>2. ASSUME NEW kind \in Kinds, NEW k \in Keys, Works(t, kind, k),
               Contends(t, kind, k), Doze(t, kind, k)
        PROVE  HeldByOther(t, rows[wait[t].key])'
    <3>1. rows' = rows /\ id' = id /\ wait'[t].key = k
      BY <1>1, <2>2 DEF Works, Doze
    <3> QED
      BY <2>2, <3>1 DEF Contends, HeldByOther
  <2>3. ASSUME NEW kind \in Kinds, NEW k \in Keys, Performed(t, kind, k)
        PROVE  FALSE
    BY <1>1, <1>4, <2>3 DEF Performed
  <2>4. ~Begin(t) /\ ~Timeout(t) /\ ~WriteRecord(t) /\ ~Notify(t) /\ ~GivesUp(t) /\ ~Dangles(t)
    BY <1>0, <1>1, <1>4 DEF Begin, Timeout, WriteRecord, Notify, GivesUp, Dangles, Goto
  <2>5. ~EndsIn(t) /\ ~Leaves(t)
    BY <1>1, <1>4 DEF EndsIn, Change, Leaves, Goto
  <2> QED
    BY <1>4, <2>1, <2>2, <2>3, <2>4, <2>5, StepKinds DEF Quiet
<1> QED
  BY <1>3, <1>4

\* Nobody inserts a row that is there.
LEMMA NoNewInserts ==
    ASSUME MapInv, ~corrupt, NEW t \in Txns, Steps(t), ~EndsIn(t), NEW k \in Keys,
           Present(rows[k]), NEW u \in Txns, Unfinished(u)',
           Unfinished(u) => Listed(u, k, "insert") = {}
    PROVE  Listed(u, k, "insert")' = {}
<1>1. /\ pc \in [Txns -> Points] /\ ops \in [Txns -> Seq(Ops)]
  BY DEF MapInv, Typed, TypeOK
<1>2. ASSUME Unfinished(u), ops'[u] = ops[u] PROVE Listed(u, k, "insert")' = {}
  BY <1>2 DEF Listed
<1>3. CASE u # t
  BY <1>2, <1>3, OthersStay
<1>4. CASE u = t
  <2>1. CASE Begin(t)
    <3>1. ops'[t] = <<>>
      BY <2>1 DEF Begin, MapInv, PointsAreReal, PointOf
    <3> QED
      BY <1>4, <3>1 DEF Listed
  <2>2. CASE Sleep(t) \/ Timeout(t) \/ GivesUp(t) \/ WriteRecord(t) \/ Dangles(t)
    <3>1. ops' = ops /\ Unfinished(t)
      BY <2>2 DEF Sleep, Timeout, GivesUp, WriteRecord, Dangles, Unfinished
    <3> QED
      BY <1>2, <1>4, <3>1
  <2>3. ~Notify(t) /\ ~Leaves(t)
    BY <1>1, <1>4 DEF Notify, Leaves, Goto, Unfinished
  <2>4. ASSUME NEW kind \in Kinds, NEW x \in Keys, Works(t, kind, x), Performed(t, kind, x)
        PROVE  Listed(t, k, "insert")' = {}
    <3>1. Unfinished(t)
      BY <2>4 DEF Works, Unfinished
    <3>2. CASE ops' = ops
      BY <1>2, <1>4, <3>1, <3>2
    <3>3. ASSUME NEW o, Extends(t, x, o)
          PROVE  Listed(t, k, "insert")' = {}
      <4>1. PICK q \in Seq(Ops) : ops[t] = q
        BY <1>1
      <4>2. ops'[t] = Append(q, o) /\ o.key = x /\ (o.kind = "insert" => x # k)
        BY <1>1, <3>3, <4>1 DEF Extends
      <4>3. /\ DOMAIN Append(q, o) = 1 .. Len(q) + 1 /\ DOMAIN q = 1 .. Len(q) /\ Len(q) \in Nat
            /\ \A i \in 1 .. Len(q) : Append(q, o)[i] = q[i]
            /\ Append(q, o)[Len(q) + 1] = o
        BY <4>1
      <4>4. \A i \in DOMAIN q : ~(q[i].key = k /\ q[i].kind = "insert")
        BY <1>4, <3>1, <4>1 DEF Listed
      <4>5. ~(o.key = k /\ o.kind = "insert")
        BY <4>2
      <4>6. \A i \in DOMAIN Append(q, o) : i \in DOMAIN q \/ i = Len(q) + 1
        BY <4>3
      <4>7. \A i \in DOMAIN Append(q, o) : ~(Append(q, o)[i].key = k /\ Append(q, o)[i].kind = "insert")
        BY <4>3, <4>4, <4>5, <4>6
      <4> QED
        BY <4>2, <4>7 DEF Listed
    <3>4. CASE Changes(t, x)
      BY <3>2, <3>3, <3>4, ChangesExtend DEF Rewritten
    <3> QED
      BY <2>4, <3>2, <3>4 DEF Performed
  <2>5. ASSUME NEW kind \in Kinds, NEW x \in Keys, Works(t, kind, x), Doze(t, kind, x)
        PROVE  Listed(t, k, "insert")' = {}
    <3>1. Unfinished(t) /\ ops' = ops
      BY <2>5 DEF Works, Unfinished, Doze
    <3> QED
      BY <1>2, <1>4, <3>1
  <2> QED
    BY <1>4, <2>1, <2>2, <2>3, <2>4, <2>5, StepKinds DEF Quiet
<1> QED
  BY <1>3, <1>4

\* What IteratorPoints says of a row and the call that waits for it.
PointsTo(s, k, over) ==
    /\ Present(rows[k])
    /\ IF over = "deleted_insert" THEN rows[k].op = "deleted_insert" /\ rows[k].id # id[s]
       ELSE \A u \in Txns : Unfinished(u) => Listed(u, k, "insert") = {}

\* A step that ends no transaction leaves good iterators good.
LEMMA PointersStay ==
    ASSUME MapInv, ~corrupt, NEW t \in Txns, Steps(t), ~EndsIn(t), NEW s \in Txns,
           NEW k \in Keys, NEW over, PointsTo(s, k, over), id'[s] = id[s]
    PROVE  PointsTo(s, k, over)'
<1>1. Present(rows[k])
  BY DEF PointsTo
<1>2. Present(rows'[k]) /\ (rows[k].op = "deleted_insert" => rows'[k] = rows[k])
  BY <1>1, MarksLast
<1>3. CASE over = "deleted_insert"
  BY <1>2, <1>3 DEF PointsTo
<1>4. CASE over # "deleted_insert"
  <2>1. ASSUME NEW u \in Txns, Unfinished(u)' PROVE Listed(u, k, "insert")' = {}
    BY <1>1, <1>4, <2>1, NoNewInserts DEF PointsTo
  <2> QED
    BY <1>2, <1>4, <2>1 DEF PointsTo
<1> QED
  BY <1>3, <1>4

\* After each step the iterators of those who wait are good, or marked stale.
LEMMA IteratorsStay ==
    ASSUME MapInv, NEW t \in Txns, Steps(t)
    PROVE  IteratorsPoint'
<1> SUFFICES ASSUME ~corrupt', NEW s \in Txns, Waiting(s)', wait'[s].kind \in RowKinds,
                    ~wait'[s].stale
             PROVE  PointsTo(s, wait[s].key, wait[s].over)'
  BY DEF IteratorsPoint, IteratorPoints, PointsTo
<1>0. ~corrupt
  BY LogStays
<1>1. /\ pc \in [Txns -> Points] /\ wait \in [Txns -> Waits] /\ ops \in [Txns -> Seq(Ops)]
      /\ rows \in [Keys -> Rows]
  BY DEF MapInv, Typed, TypeOK
<1>2. \A u \in Txns : PointOf(u)
  BY DEF MapInv, PointsAreReal
<1>3. ASSUME Waiting(s), wait[s].kind \in RowKinds, ~wait[s].stale
      PROVE  PointsTo(s, wait[s].key, wait[s].over) /\ wait[s].key \in Keys
  <2>1. IteratorPoints(s)
    BY <1>0 DEF MapInv, IteratorsPoint
  <2> QED
    BY <1>2, <1>3, <2>1 DEF IteratorPoints, PointsTo, PointOf
<1>4. CASE s # t
  <2>1. Waiting(s) /\ id'[s] = id[s] /\ (wait'[s] = wait[s] \/ EndsIn(t))
    BY <1>4, OthersStay
  <2>2. CASE ~EndsIn(t)
    BY <1>0, <1>3, <2>1, <2>2, PointersStay
  <2>3. CASE EndsIn(t)
    <3>1. PICK m : Ends(t, m) /\ Change(t, m)
      BY <2>3 DEF EndsIn
    <3> DEFINE k == wait[s].key
    <3>2. wait'[s] = IF wait[s].kind \in RowKinds /\ Present(rows[k]) /\ ~Present(m.rows[k])
                     THEN [wait[s] EXCEPT !.stale = TRUE] ELSE wait[s]
      BY <3>1 DEF Change
    <3>3. wait[s] \in [kind : Kinds \cup {"none"}, key : Keys \cup {0}, ver : Nat, over : Marks,
                       stale : BOOLEAN]
      BY <1>1 DEF Waits
    <3>4. /\ ~(wait[s].kind \in RowKinds /\ Present(rows[k]) /\ ~Present(m.rows[k]))
          /\ wait'[s] = wait[s]
      BY <3>2, <3>3
    <3>5. PointsTo(s, k, wait[s].over) /\ k \in Keys
      BY <1>3, <2>1, <3>4
    <3>6. Present(rows[k])
      BY <3>5 DEF PointsTo
    <3>7. Present(m.rows[k]) /\ rows'[k] = m.rows[k]
      BY <3>1, <3>4, <3>6 DEF Change
    <3>8. CASE wait[s].over = "deleted_insert"
      <4>1. rows[k].op = "deleted_insert" /\ rows[k].id # id[s]
        BY <3>5, <3>8 DEF PointsTo
      <4>2. k \notin KeysOf(t)
        BY <3>1, <3>7, <4>1 DEF Ends
      <4>3. rows'[k] = rows[k]
        BY <3>1, <3>5, <3>7, <4>2 DEF Ends
      <4> QED
        BY <2>1, <3>4, <3>6, <3>8, <4>1, <4>3 DEF PointsTo
    <3>9. CASE wait[s].over # "deleted_insert"
      <4>1. ASSUME NEW u \in Txns, Unfinished(u)' PROVE Listed(u, k, "insert")' = {}
        <5>1. u # t
          BY <1>1, <3>1, <4>1 DEF Change, Goto, Unfinished
        <5>2. Unfinished(u) /\ ops'[u] = ops[u]
          BY <4>1, <5>1, OthersStay
        <5>3. Listed(u, k, "insert") = {}
          BY <3>5, <3>9, <5>2 DEF PointsTo
        <5> QED
          BY <3>4, <5>2, <5>3 DEF Listed
      <4> QED
        BY <3>4, <3>7, <3>9, <4>1 DEF PointsTo
    <3> QED
      BY <3>8, <3>9
  <2> QED
    BY <2>2, <2>3
<1>5. CASE s = t
  <2>1. CASE Sleep(t)
    <3>1. pc[t] = "dozing" /\ wait' = wait /\ id' = id
      BY <2>1 DEF Sleep
    <3>2. PointsTo(t, wait[t].key, wait[t].over) /\ wait[t].key \in Keys
      BY <1>3, <1>5, <3>1 DEF Waiting
    <3>3. ~EndsIn(t)
      BY <3>1 DEF EndsIn
    <3> QED
      BY <1>0, <1>5, <3>1, <3>2, <3>3, PointersStay
  <2>2. ASSUME NEW kind \in Kinds, NEW x \in Keys, Works(t, kind, x),
               Contends(t, kind, x), Doze(t, kind, x)
        PROVE  PointsTo(t, wait[t].key, wait[t].over)'
    <3>1. /\ rows' = rows /\ id' = id /\ ops' = ops /\ wait'[t].key = x /\ wait'[t].kind = kind
          /\ wait'[t].over = rows[x].op /\ pc' = [pc EXCEPT ![t] = "dozing"]
      BY <1>1, <2>2 DEF Works, Doze, Goto
    <3>2. /\ kind # "insert" /\ Present(rows[x]) /\ rows[x].op # "none" /\ rows[x].id # id[t]
          /\ rows[x].op # "insert"
      BY <1>5, <2>2, <3>1 DEF Works, Contends, HeldByOther
    <3>3. ASSUME rows[x].op # "deleted_insert", NEW u \in Txns, Unfinished(u)',
                 NEW i \in Listed(u, x, "insert")
          PROVE  FALSE
      <4>1. Unfinished(u)
        BY <1>1, <2>2, <3>1, <3>3 DEF Unfinished, Works
      <4>2. i \in DOMAIN ops[u] /\ ops[u][i].key = x /\ ops[u][i].kind = "insert"
        BY <3>3 DEF Listed
      <4>3. IsTraced(u, i)
        BY <1>0, <4>1, <4>2 DEF MapInv, OpsAreTraced
      <4>4. rows[x].op \in {"insert", "deleted_insert"}
        BY <4>2, <4>3 DEF IsTraced
      <4> QED
        BY <3>2, <3>3, <4>4
    <3>4. \A u \in Txns : Listed(u, x, "insert")' = Listed(u, x, "insert")
      BY <3>1 DEF Listed
    <3>5. CASE rows[x].op = "deleted_insert"
      BY <3>1, <3>2, <3>5 DEF PointsTo
    <3>6. CASE rows[x].op # "deleted_insert"
      <4>1. \A u \in Txns : Unfinished(u)' => Listed(u, x, "insert") = {}
        BY <3>3, <3>6
      <4> QED
        BY <3>1, <3>2, <3>4, <3>6, <4>1 DEF PointsTo
    <3> QED
      BY <3>5, <3>6
  <2>3. ASSUME NEW kind \in Kinds, NEW k \in Keys, Performed(t, kind, k)
        PROVE  FALSE
    BY <1>1, <1>5, <2>3 DEF Performed, Waiting
  <2>4. ~Begin(t) /\ ~Timeout(t) /\ ~WriteRecord(t) /\ ~Notify(t) /\ ~GivesUp(t) /\ ~Dangles(t)
    BY <1>0, <1>1, <1>5 DEF Begin, Timeout, WriteRecord, Notify, GivesUp, Dangles, Goto, Waiting
  <2>5. ~EndsIn(t) /\ ~Leaves(t)
    BY <1>1, <1>5 DEF EndsIn, Change, Leaves, Goto, Waiting
  <2> QED
    BY <1>5, <2>1, <2>2, <2>3, <2>4, <2>5, StepKinds DEF Quiet
<1> QED
  BY <1>4, <1>5

\* An iterator that becomes stale does so in a new version of the map, or is one to a
\* deleted insert.
LEMMA StaleStays ==
    ASSUME MapInv, NEW t \in Txns, Steps(t)
    PROVE  StaleIteratorsAreNoticed'
<1> SUFFICES ASSUME NEW s \in Txns, wait'[s].stale, wait'[s].over # "deleted_insert"
             PROVE  wait'[s].ver # ver_num'
  BY DEF StaleIteratorsAreNoticed
<1>1. wait \in [Txns -> Waits] /\ ver_num \in Nat /\ pc \in [Txns -> Points]
  BY DEF MapInv, Typed, TypeOK
<1>2. \A u \in Txns :
         PointOf(u) /\ (wait[u].stale /\ wait[u].over # "deleted_insert" => wait[u].ver # ver_num)
  BY DEF MapInv, PointsAreReal, StaleIteratorsAreNoticed
<1>3. CASE ~EndsIn(t)
  <2>1. ver_num' = ver_num
    BY <1>3, StepKinds
    DEF Quiet, Begin, Sleep, Timeout, WriteRecord, Notify, GivesUp, Dangles, Leaves, Works
  <2>2. ASSUME NEW u \in Txns, wait' = [wait EXCEPT ![t] = NoCall] PROVE wait'[u] = wait[u] \/ ~wait'[u].stale
    BY <1>1, <2>2 DEF NoCall
  <2>3. ASSUME NEW kind \in Kinds, NEW k \in Keys, Doze(t, kind, k)
        PROVE  wait'[s] = wait[s] \/ ~wait'[s].stale
    BY <1>1, <2>3 DEF Doze
  <2>4. wait'[s] = wait[s] \/ ~wait'[s].stale
    BY <1>3, <2>2, <2>3, StepKinds
    DEF Quiet, Begin, Sleep, Timeout, WriteRecord, Notify, GivesUp, Dangles, Leaves, Performed
  <2> QED
    BY <1>2, <2>1, <2>4
<1>4. CASE EndsIn(t)
  <2>1. PICK m : Ends(t, m) /\ Change(t, m)
    BY <1>4 DEF EndsIn
  <2> DEFINE k == wait[s].key
  <2>2. wait[s] \in [kind : Kinds \cup {"none"}, key : Keys \cup {0}, ver : Nat, over : Marks,
                     stale : BOOLEAN]
    BY <1>1 DEF Waits
  <2>3. wait'[s] = IF wait[s].kind \in RowKinds /\ Present(rows[k]) /\ ~Present(m.rows[k])
                   THEN [wait[s] EXCEPT !.stale = TRUE] ELSE wait[s]
    BY <2>1 DEF Change
  <2>4. wait'[s].ver = wait[s].ver /\ wait'[s].over = wait[s].over
    BY <2>2, <2>3
  <2>5. ver_num' = m.ver /\ m.ver \in Nat /\ m.ver >= ver_num
    BY <2>1 DEF Change, Ends, SoundMaps, Maps
  <2>6. wait[s].ver \in Nat /\ wait[s].ver <= ver_num
    BY <1>2, <2>2 DEF PointOf
  <2>7. CASE wait[s].stale
    <3>1. wait[s].ver # ver_num
      BY <1>2, <2>4, <2>7
    <3> QED
      BY <1>1, <2>4, <2>5, <2>6, <3>1
  <2>8. CASE ~wait[s].stale
    <3>1. wait[s].kind \in RowKinds /\ Present(rows[k]) /\ ~Present(m.rows[k])
      BY <2>3, <2>8
    <3>2. Waiting(s) /\ k \in Keys
      BY <1>2, <3>1 DEF PointOf, NoCall
    <3>3. ~corrupt /\ Unfinished(t)
      BY <1>4 DEF EndsIn, Unfinished
    <3>4. IteratorPoints(s)
      BY <3>3 DEF MapInv, IteratorsPoint
    <3>5. Listed(t, k, "insert") = {}
      BY <2>4, <2>8, <3>1, <3>2, <3>3, <3>4 DEF IteratorPoints
    <3>6. k \in KeysOf(t)
      <4> SUFFICES ASSUME k \notin KeysOf(t) PROVE FALSE
        OBVIOUS
      <4>1. m.rows[k] = rows[k]
        BY <2>1, <3>2 DEF Ends
      <4> QED
        BY <3>1, <4>1
    <3>7. m.ver > ver_num
      BY <2>1, <3>1, <3>5, <3>6 DEF Ends
    <3> QED
      BY <1>1, <2>4, <2>5, <2>6, <3>7
  <2> QED
    BY <2>7, <2>8
<1> QED
  BY <1>3, <1>4

\* A step that uses an iterator to an erased entry has a cause that lasts.
LEMMA CauseStays ==
    ASSUME MapInv, NEW t \in Txns, Steps(t)
    PROVE  CorruptionHasACause'
<1> SUFFICES ASSUME corrupt' PROVE CorruptionHasACause'
  BY DEF CorruptionHasACause
<1>1. wait \in [Txns -> Waits] /\ pc \in [Txns -> Points]
  BY DEF MapInv, Typed, TypeOK
<1>2. ops' = ops => \A u \in Txns, k \in Keys : Twice(u, k)' = Twice(u, k)
  BY DEF Twice, Listed
<1>3. ASSUME NEW u \in Txns, NEW k \in Keys, Twice(u, k), ops' = ops PROVE CorruptionHasACause'
  BY <1>2, <1>3 DEF CorruptionHasACause
<1>4. CASE corrupt
  <2>1. Begin(t) \/ Sleep(t) \/ Timeout(t) \/ Dangles(t)
    BY <1>4, StepKinds DEF Quiet, WriteRecord, Notify, GivesUp, EndsIn, Leaves, Works
  <2>2. ops' = ops
    BY <2>1 DEF Begin, Sleep, Timeout, Dangles
  <2>3. CASE \E u \in Txns, k \in Keys : Twice(u, k)
    BY <1>3, <2>2, <2>3
  <2>4. ASSUME NEW u \in Txns, pc[u] = "woken", wait[u].stale, wait[u].over = "deleted_insert"
        PROVE  CorruptionHasACause'
    <3>1. pc'[u] = "woken" /\ wait'[u] = wait[u]
      BY <1>1, <2>1, <2>4 DEF Begin, Sleep, Timeout, Dangles, Goto
    <3>2. wait'[u].stale /\ wait'[u].over = "deleted_insert"
      BY <2>4, <3>1
    <3> QED
      BY <3>1, <3>2 DEF CorruptionHasACause
  <2> QED
    BY <1>4, <2>3, <2>4 DEF MapInv, CorruptionHasACause
<1>5. CASE ~corrupt
  <2>1. Dangles(t) \/ EndsIn(t)
    BY <1>5, StepKinds
    DEF Quiet, Begin, Sleep, Timeout, WriteRecord, Notify, GivesUp, Leaves, Works
  <2>2. CASE Dangles(t)
    <3>1. /\ pc[t] = "woken" /\ wait[t].stale /\ pc' = pc /\ wait' = wait
          /\ (wait[t].kind = "insert" \/ wait[t].ver = ver_num)
      BY <2>2 DEF Dangles, MustFindAgain
    <3>2. wait[t].kind \in RowKinds
      BY <3>1 DEF MapInv, PointsAreReal, PointOf
    <3>3. wait[t].over = "deleted_insert"
      BY <3>1, <3>2 DEF MapInv, StaleIteratorsAreNoticed
    <3> QED
      BY <3>1, <3>3 DEF CorruptionHasACause
  <2>3. CASE EndsIn(t)
    <3>1. PICK m : Ends(t, m) /\ Change(t, m)
      BY <2>3 DEF EndsIn
    <3>2. m.bad /\ ops' = ops
      BY <3>1 DEF Change
    <3>3. PICK k \in Keys : Twice(t, k)
      BY <3>1, <3>2 DEF Ends
    <3> QED
      BY <1>3, <3>2, <3>3
  <2> QED
    BY <2>1, <2>2, <2>3
<1> QED
  BY <1>4, <1>5

-----------------------------------------------------------------------------
\* The invariant

\* The invariant holds of the map that recovery has left.
LEMMA MapInvAtTheStart == Init => MapInv
<1> SUFFICES ASSUME Init PROVE MapInv
  OBVIOUS
<1>1. Typed
  BY TypesAtTheStart
<1>2. /\ \A t \in Txns : /\ pc[t] = "begin" /\ ops[t] = <<>> /\ asked[t] = {} /\ t # NoTxn
                         /\ wait[t] = NoCall
      /\ next_txn_id = 1 /\ container = NoTxn /\ corrupt = FALSE /\ ver_num = 0
      /\ rows = FirstRows
  BY NobodyAssumption DEF Init
<1>3. NoCall.stale = FALSE /\ NoCall.ver = 0
  BY DEF NoCall
<1>4. IdsAreDistinct
  BY <1>2 DEF IdsAreDistinct
<1>5. PointsAreReal
  BY <1>2, <1>3 DEF PointsAreReal, PointOf, Waiting
<1>6. OpsAreTraced
  BY <1>2 DEF OpsAreTraced, Unfinished
<1>7. ASSUME NEW k \in Keys PROVE MarkIsHeld(k)
  <2>1. rows[k] = IF k \in DOMAIN Recovered THEN Recoveree(k) ELSE NoRow
    BY <1>2 DEF FirstRows
  <2>2. rows[k].op = "none"
    BY <2>1 DEF Recoveree, NoRow
  <2>3. Present(rows[k]) => k \in DOMAIN Recovered /\ rows[k].id = Recovered[k]
    BY <2>1, NoRowIsARow DEF Recoveree
  <2>4. Present(rows[k]) => rows[k].id \in Lsns
    BY <2>3 DEF Lsns, Range
  <2> QED
    BY <2>2, <2>4 DEF MarkIsHeld
<1>8. AskedIsLocked /\ SleepersHaveReason /\ IteratorsPoint
  BY <1>2 DEF AskedIsLocked, SleepersHaveReason, HasReason, IteratorsPoint, IteratorPoints, Waiting
<1>9. StaleIteratorsAreNoticed /\ CorruptionHasACause
  BY <1>2, <1>3 DEF StaleIteratorsAreNoticed, CorruptionHasACause
<1> QED
  BY <1>1, <1>4, <1>5, <1>6, <1>7, <1>8, <1>9 DEF MapInv, MarksAreHeld

\* A step that changes nothing keeps the invariant.
LEMMA MapInvStutters ==
    ASSUME MapInv, UNCHANGED vars
    PROVE  MapInv'
<1>1. /\ rows' = rows /\ ver_num' = ver_num /\ container' = container /\ row_mutex' = row_mutex
      /\ next_txn_id' = next_txn_id /\ next_lsn' = next_lsn /\ log' = log /\ pc' = pc
      /\ id' = id /\ ops' = ops /\ made' = made /\ wait' = wait /\ asked' = asked
      /\ retouched' = retouched /\ corrupt' = corrupt
  BY DEF vars
<1>2. /\ Lsns' = Lsns
      /\ \A t \in Txns : Unfinished(t)' = Unfinished(t) /\ Waiting(t)' = Waiting(t)
      /\ \A t \in Txns : KeysOf(t)' = KeysOf(t)
      /\ \A t \in Txns : \A k : On(t, k)' = On(t, k)
      /\ \A t \in Txns : \A k, kind : Listed(t, k, kind)' = Listed(t, k, kind)
  BY <1>1 DEF Lsns, Unfinished, Waiting, KeysOf, On, Listed
<1>3. Typed'
  BY <1>1 DEF MapInv, Typed, TypeOK
<1>4. IdsAreDistinct'
  BY <1>1 DEF MapInv, IdsAreDistinct
<1>5. PointsAreReal'
  BY <1>1, <1>2 DEF MapInv, PointsAreReal, PointOf
<1>6. OpsAreTraced'
  <2>1. \A t \in Txns : \A i : IsFirst(t, i)' = IsFirst(t, i) /\ IsLast(t, i)' = IsLast(t, i)
    BY <1>1, <1>2 DEF IsFirst, IsLast
  <2>2. \A t \in Txns : \A i : IsTraced(t, i) => IsTraced(t, i)'
    BY <1>1, <1>2, <2>1 DEF IsTraced
  <2> QED
    BY <1>1, <1>2, <2>2 DEF MapInv, OpsAreTraced
<1>7. MarksAreHeld'
  BY <1>1, <1>2 DEF MapInv, MarksAreHeld, MarkIsHeld
<1>8. AskedIsLocked'
  BY <1>1 DEF MapInv, AskedIsLocked
<1>9. SleepersHaveReason'
  BY <1>1 DEF MapInv, SleepersHaveReason, HasReason, HeldByOther
<1>10. IteratorsPoint'
  BY <1>1, <1>2 DEF MapInv, IteratorsPoint, IteratorPoints
<1>11. StaleIteratorsAreNoticed'
  BY <1>1 DEF MapInv, StaleIteratorsAreNoticed
<1>12. CorruptionHasACause'
  BY <1>1, <1>2 DEF MapInv, CorruptionHasACause, Twice
<1> QED
  BY <1>3, <1>4, <1>5, <1>6, <1>7, <1>8, <1>9, <1>10, <1>11, <1>12 DEF MapInv

\* Every step keeps the invariant.
LEMMA MapInvIsKept == MapInv /\ [Next]_vars => MapInv'
<1>1. ASSUME MapInv, NEW t \in Txns, Steps(t)
      PROVE  MapInv'
  <2>1. Typed' /\ IdsAreDistinct' /\ PointsAreReal'
    BY <1>1, TypesStay, IdsStay, PointsStay
  <2>2. OpsAreTraced' /\ MarksAreHeld' /\ AskedIsLocked'
    BY <1>1, TracesStay, MarksStay, AskedStay
  <2>3. SleepersHaveReason' /\ IteratorsPoint'
    BY <1>1, SleepersStay, IteratorsStay
  <2>4. StaleIteratorsAreNoticed' /\ CorruptionHasACause'
    BY <1>1, StaleStays, CauseStays
  <2> QED
    BY <2>1, <2>2, <2>3, <2>4 DEF MapInv
<1> QED
  BY <1>1, NextSteps, MapInvStutters

\* The invariant holds in every state that is reached.
LEMMA MapInvHolds == Spec => []MapInv
<1> QED
  BY MapInvAtTheStart, MapInvIsKept, PTL DEF Spec

-----------------------------------------------------------------------------
\* What follows

\* The mark of a row is that of the only unfinished transaction with an operation on it.
LEMMA LocksAreExclusive == MapInv => RowLocksAreExclusive
<1> SUFFICES ASSUME MapInv, ~corrupt, NEW k \in Keys
             PROVE  IF rows[k].op = "none" THEN \A t \in Txns : Unfinished(t) => k \notin KeysOf(t)
                    ELSE \E t \in Txns :
                            /\ Unfinished(t) /\ rows[k].id = id[t] /\ k \in KeysOf(t)
                            /\ \A s \in Txns \ {t} : Unfinished(s) => k \notin KeysOf(s)
  BY DEF RowLocksAreExclusive
<1>1. CASE rows[k].op = "none"
  BY <1>1, OpsMark
<1>2. CASE rows[k].op # "none"
  <2>1. PICK t \in Txns : Unfinished(t) /\ k \in KeysOf(t)
    BY <1>2 DEF MapInv, MarksAreHeld, MarkIsHeld
  <2>2. rows[k].id = id[t]
    BY <1>2, <2>1, MarksTell
  <2>3. ASSUME NEW s \in Txns, Unfinished(s), k \in KeysOf(s) PROVE s = t
    <3>1. rows[k].id = id[s]
      BY <1>2, <2>3, MarksTell
    <3> QED
      BY <2>1, <2>2, <2>3, <3>1, IdsTell
  <2> QED
    BY <1>2, <2>1, <2>2, <2>3
<1> QED
  BY <1>1, <1>2

\* Two places in a list are more than one.
LEMMA TwoAreMoreThanOne ==
    ASSUME Typed, NEW t \in Txns, NEW k \in Keys, NEW kind,
           NEW i \in Listed(t, k, kind), NEW j \in Listed(t, k, kind), i # j
    PROVE  Cardinality(Listed(t, k, kind)) > 1
<1> DEFINE L == Listed(t, k, kind)
<1>1. i \in L /\ j \in L
  OBVIOUS
<1>2. ops[t] \in Seq(Ops)
  BY DEF Typed, TypeOK
<1>3. L \subseteq 1 .. Len(ops[t]) /\ Len(ops[t]) \in Nat
  BY <1>2 DEF Listed
<1> HIDE DEF L
<1>4. IsFiniteSet(1 .. Len(ops[t]))
  BY <1>3, FS_Interval
<1>5. IsFiniteSet(L)
  BY <1>3, <1>4, FS_Subset
<1>6. IsFiniteSet({i}) /\ Cardinality({i}) = 1
  BY FS_Singleton
<1>7. Cardinality({i} \cup {j}) = 2
  <2>1. Cardinality({i} \cup {j}) = IF j \in {i} THEN Cardinality({i}) ELSE Cardinality({i}) + 1
    BY <1>6, FS_AddElement, Zenon
  <2>2. j \notin {i}
    OBVIOUS
  <2> QED
    BY <1>6, <2>1, <2>2
<1>8. {i} \cup {j} \subseteq L
  BY <1>1
<1>9. Cardinality({i} \cup {j}) <= Cardinality(L) /\ Cardinality(L) \in Nat
  BY <1>5, <1>8, FS_Subset, FS_CardinalityType
<1> QED
  BY <1>7, <1>9 DEF L

\* The row locks of trans_map: a row has one holder, from its first operation until the
\* end; lock() takes what it is asked for; and whoever waits for a row has another
\* transaction to wait for, which will notify.
THEOREM RowLocksAreKept == Spec => []RowLocksHold
<1>1. MapInv => RowLocksHold
  <2> SUFFICES ASSUME MapInv PROVE RowLocksHold
    OBVIOUS
  <2>1. SleepersAreLockedOut
    BY DEF MapInv, SleepersHaveReason, HasReason, SleepersAreLockedOut
  <2>2. TypeOK /\ AskedIsLocked
    BY DEF MapInv, Typed
  <2> QED
    BY <2>1, <2>2, LocksAreExclusive DEF RowLocksHold
<1> QED
  BY <1>1, MapInvHolds, PTL

\* No operation goes on with an iterator to an entry that is gone, in commit, in rollback
\* or after a wait, but where one transaction has erased a row twice or a call has waited
\* for an insert that its own transaction has erased.
THEOREM IteratorsDoNotDangle == Spec => []NoIteratorDangles
<1>1. MapInv => NoIteratorDangles
  <2> SUFFICES ASSUME MapInv PROVE NoIteratorDangles
    OBVIOUS
  <2>1. Typed /\ StaleIteratorsAreNoticed /\ CorruptionHasACause
    BY DEF MapInv
  <2>2. \A t \in Txns, k \in Keys : Twice(t, k) => Cardinality(Listed(t, k, "delete")) > 1
    BY <2>1, TwoAreMoreThanOne DEF Twice
  <2>3. OnlyErasedTwiceCorrupts
    BY <2>1, <2>2 DEF CorruptionHasACause, OnlyErasedTwiceCorrupts
  <2> QED
    BY <2>1, <2>3 DEF NoIteratorDangles
<1> QED
  BY <1>1, MapInvHolds, PTL

-----------------------------------------------------------------------------
\* What the log says

LoggedOps == [kind : {"insert", "update", "delete"}, key : Keys, val : Values]
Records == [txn : Txns, lsn : Nat, changes : Seq(LoggedOps)]
Founds == [val : Values, lsn : Nat]

Touches(r, k) == \E i \in DOMAIN r.changes : r.changes[i].key = k

\* The log is a list of records, of at most one for each transaction, which has one from
\* its commit on.
LogIsTyped == log \in Seq(Records)
RecordsAreKept ==
    /\ \A i, j \in DOMAIN log : log[i].txn = log[j].txn => i = j
    /\ \A i \in DOMAIN log : pc[log[i].txn] \in {"logged", "changed", "done"}

\* A record that the map has yet to follow says what its transaction has done, and no later
\* one touches its rows.
IsPending(i) ==
    LET t == log[i].txn IN
    /\ log[i].changes = Logged(t)
    /\ \A j \in DOMAIN log : j > i => \A k \in KeysOf(t) : ~Touches(log[j], k)
PendingAreCurrent ==
    ~corrupt => \A i \in DOMAIN log : pc[log[i].txn] = "logged" => IsPending(i)

\* Only the first operation of a transaction on a row finds no mark; it remembers the LSN
\* of the commit that the row comes from.
FindsFirst(t, i) ==
    LET o == ops[t][i] IN
    o.op = "none" =>
       /\ IsFirst(t, i)
       /\ o.kind # "insert" => \A k \in Keys : o.key = k => o.id = Recoverable(k).lsn
FirstsAreFaithful ==
    ~corrupt => \A t \in Txns : Unfinished(t) => \A i \in DOMAIN ops[t] : FindsFirst(t, i)

\* What readers see of a row is what the log says; of one updated twice by a transaction
\* they see another value.
Agrees(k, row, found, twice) ==
    /\ found.val = NoValue => found = NotThere
    /\ row.op = "deleted_insert" => found.val = NoValue
    /\ row.op # "deleted_insert" =>
          /\ Shown(row) <=> found.val # NoValue
          /\ Shown(row) /\ ~twice => row.val = found.val
    /\ Present(row) /\ row.op = "none" => row.id = found.lsn
RowsAgree == ~corrupt => \A k \in Keys : Agrees(k, rows[k], Recoverable(k), k \in retouched)

LogInv ==
    /\ MapInv /\ LogIsTyped /\ RecordsAreKept
    /\ PendingAreCurrent /\ FirstsAreFaithful /\ RowsAgree

-----------------------------------------------------------------------------
\* Lemmas about redo

\* A row that a map is recovered with.
LEMMA FirstFounds ==
    ASSUME NEW k \in Keys
    PROVE  /\ FirstFound(k) \in Founds
           /\ FirstFound(k).val = NoValue => FirstFound(k) = NotThere
<1>1. CASE k \in DOMAIN Recovered
  <2>1. FirstFound(k) = [val |-> <<NoTxn, 0>>, lsn |-> Recovered[k]] /\ Recovered[k] \in Nat
    BY <1>1, RecoveredAssumption DEF FirstFound, FirstRows, Recoveree
  <2>2. <<NoTxn, 0>> \in Values /\ <<NoTxn, 0>> # NoValue
    BY NobodyAssumption DEF Values
  <2> QED
    BY <2>1, <2>2 DEF Founds
<1>2. CASE k \notin DOMAIN Recovered
  <2>1. FirstFound(k) = [val |-> NoValue, lsn |-> 0]
    BY <1>2 DEF FirstFound, FirstRows, NoRow
  <2> QED
    BY <2>1 DEF Founds, Values, NotThere
<1> QED
  BY <1>1, <1>2

\* Redo of one change leaves the rows of other keys alone; that of an update or a delete
\* does not look at the row.
LEMMA RedoOfOne ==
    ASSUME NEW r \in Records, NEW k \in Keys, NEW row \in Founds, NEW c \in LoggedOps
    PROVE  /\ RedoOne(k, r, row, c) \in Founds
           /\ c.key # k => RedoOne(k, r, row, c) = row
           /\ c.key = k /\ c.kind = "delete" => RedoOne(k, r, row, c) = NotThere
           /\ c.key = k /\ c.kind = "update" =>
                 RedoOne(k, r, row, c) = [val |-> c.val, lsn |-> r.lsn]
           /\ c.key = k /\ c.kind = "insert" /\ row = NotThere =>
                 RedoOne(k, r, row, c) = [val |-> c.val, lsn |-> r.lsn]
<1>1. c.kind \in {"insert", "update", "delete"} /\ c.val \in Values /\ r.lsn \in Nat
  BY DEF LoggedOps, Records
<1>2. NotThere \in Founds /\ [val |-> c.val, lsn |-> r.lsn] \in Founds
  BY <1>1 DEF Founds, NotThere, Values
<1> QED
  BY <1>1, <1>2 DEF RedoOne

\* Redo of a record goes from change to change.
RedoneBy(k, row, r, h) ==
    /\ h \in [0 .. Len(r.changes) -> Founds]
    /\ h[0] = row
    /\ \A i \in 1 .. Len(r.changes) : h[i] = RedoOne(k, r, h[i - 1], r.changes[i])
LEMMA RedoInSteps ==
    ASSUME NEW r \in Records, NEW k \in Keys, NEW row \in Founds
    PROVE  \E h : RedoneBy(k, row, r, h) /\ RedoRecord(k, row, r) = h[Len(r.changes)]
<1> DEFINE n == Len(r.changes)
<1>1. /\ n \in Nat /\ DOMAIN r.changes = 1 .. n
      /\ \A i \in 1 .. n : r.changes[i] \in LoggedOps
  BY DEF Records
<1> DEFINE step == [i \in 1 .. n |-> [w \in Founds |-> RedoOne(k, r, w, r.changes[i])]]
<1>3. \A i \in 1 .. n, w \in Founds : RedoOne(k, r, w, r.changes[i]) \in Founds
  BY <1>1, RedoOfOne
<1>4. step \in [1 .. n -> [Founds -> Founds]]
  BY <1>3
<1>5. PICK g \in [0 .. n -> Founds] :
         g[0] = row /\ \A i \in 1 .. n : g[i] = step[i][g[i - 1]]
  <2>1. n \in Nat
    BY <1>1
  <2> HIDE DEF step, n
  <2>2. CanIterate(n, Founds, row, step)
    BY <1>4, <2>1, Iteration
  <2> QED
    BY <2>2 DEF CanIterate
<1>6. \A i \in 1 .. n : g[i] = RedoOne(k, r, g[i - 1], r.changes[i])
  <2> TAKE i \in 1 .. n
  <2>1. i - 1 \in 0 .. n
    BY <1>1
  <2>2. g[i - 1] \in Founds
    BY <1>5, <2>1
  <2> QED
    BY <1>5, <2>2
<1> DEFINE Goes(f) ==
        f = [i \in 0 .. n |-> IF i = 0 THEN row ELSE RedoOne(k, r, f[i - 1], r.changes[i])]
<1>7. Goes(g)
  <2>1. \A i \in 0 .. n : g[i] = IF i = 0 THEN row ELSE RedoOne(k, r, g[i - 1], r.changes[i])
    BY <1>1, <1>5, <1>6
  <2> QED
    BY <1>5, <2>1
<1> DEFINE h == CHOOSE f : Goes(f)
<1>8. Goes(h)
  BY <1>7
<1>9. RedoRecord(k, row, r) = h[n]
  BY DEF RedoRecord
<1>10. h[0] = row /\ \A i \in 1 .. n : h[i] = RedoOne(k, r, h[i - 1], r.changes[i])
  <2> HIDE DEF h
  <2>1. 0 \in 0 .. n /\ \A i \in 1 .. n : i \in 0 .. n /\ i # 0
    BY <1>1
  <2>2. \A i \in 0 .. n : h[i] = IF i = 0 THEN row ELSE RedoOne(k, r, h[i - 1], r.changes[i])
    BY <1>8
  <2> QED
    BY <2>1, <2>2
<1>11. \A i \in 0 .. n : h[i] \in Founds
  <2> HIDE DEF h
  <2> DEFINE S == {i \in 0 .. n : h[i] \in Founds}
  <2>1. 0 \in S
    BY <1>1, <1>10
  <2>2. ASSUME NEW i \in 0 .. n, i \in S, i < n
        PROVE  i + 1 \in S
    <3>1. i + 1 \in 1 .. n /\ i + 1 \in 0 .. n /\ (i + 1) - 1 = i
      BY <1>1, <2>2
    <3>2. h[i + 1] = RedoOne(k, r, h[i], r.changes[i + 1])
      BY <1>10, <3>1
    <3> QED
      BY <1>3, <2>2, <3>1, <3>2
  <2> HIDE DEF S
  <2>3. S = 0 .. n
    <3>1. S \subseteq 0 .. n
      BY DEF S
    <3>2. \A i \in 0 .. n : i \in S /\ i < n => i + 1 \in S
      BY <2>2
    <3> QED
      BY <1>1, <2>1, <3>1, <3>2, UpTo
  <2> QED
    BY <2>3 DEF S
<1>12. h \in [0 .. n -> Founds]
  <2> HIDE DEF h
  <2>1. DOMAIN h = 0 .. n
    BY <1>8
  <2>2. h = [i \in 0 .. n |-> h[i]]
    BY <1>8, <2>1
  <2> QED
    BY <1>11, <2>2
<1> QED
  BY <1>9, <1>10, <1>12 DEF RedoneBy

\* What is the same from step to step is the same at the end.
LEMMA Unmoved ==
    ASSUME NEW h, NEW a \in Nat, NEW b \in Nat, a <= b, \A i \in a + 1 .. b : h[i] = h[i - 1]
    PROVE  h[b] = h[a]
<1> DEFINE S == {d \in 0 .. b - a : h[a + d] = h[a]}
<1>1. b - a \in Nat /\ S \subseteq 0 .. b - a /\ 0 \in S
  OBVIOUS
<1>2. ASSUME NEW d \in 0 .. b - a, d \in S, d < b - a
      PROVE  d + 1 \in S
  <2>1. a + (d + 1) \in a + 1 .. b /\ (a + (d + 1)) - 1 = a + d /\ d + 1 \in 0 .. b - a
    BY <1>2
  <2> QED
    BY <1>2, <2>1
<1>3. S = 0 .. b - a
  <2> HIDE DEF S
  <2> QED
    BY <1>1, <1>2, UpTo
<1>4. b - a \in S /\ a + (b - a) = b
  <2>1. b - a \in 0 .. b - a /\ a + (b - a) = b
    BY <1>1
  <2> HIDE DEF S
  <2> QED
    BY <1>3, <2>1
<1> QED
  BY <1>4

\* Redo of a record leaves the rows alone that it does not touch; the last change to a row
\* tells what it makes of that one, if it is not an insert over a row that is there.
LEMMA RedoOfRecord ==
    ASSUME NEW r \in Records, NEW k \in Keys, NEW row \in Founds
    PROVE  /\ RedoRecord(k, row, r) \in Founds
           /\ ~Touches(r, k) => RedoRecord(k, row, r) = row
           /\ \A d \in DOMAIN r.changes :
                 r.changes[d].key = k /\ (\A e \in DOMAIN r.changes : e > d => r.changes[e].key # k) =>
                   /\ r.changes[d].kind = "delete" => RedoRecord(k, row, r) = NotThere
                   /\ r.changes[d].kind = "update" =>
                         RedoRecord(k, row, r) = [val |-> r.changes[d].val, lsn |-> r.lsn]
                   /\ r.changes[d].kind = "insert" /\ row = NotThere
                      /\ (\A e \in DOMAIN r.changes : e < d => r.changes[e].key # k) =>
                         RedoRecord(k, row, r) = [val |-> r.changes[d].val, lsn |-> r.lsn]
<1> DEFINE n == Len(r.changes)
<1>1. /\ n \in Nat /\ DOMAIN r.changes = 1 .. n
      /\ \A i \in 1 .. n : r.changes[i] \in LoggedOps
  BY DEF Records
<1>2. PICK h : RedoneBy(k, row, r, h) /\ RedoRecord(k, row, r) = h[n]
  BY RedoInSteps
<1>3. /\ h[0] = row /\ \A i \in 0 .. n : h[i] \in Founds
      /\ \A i \in 1 .. n : h[i] = RedoOne(k, r, h[i - 1], r.changes[i])
  BY <1>2 DEF RedoneBy
<1>4. \A i \in 1 .. n : r.changes[i].key # k => h[i] = h[i - 1]
  <2> TAKE i \in 1 .. n
  <2>1. i - 1 \in 0 .. n
    BY <1>1
  <2> QED
    BY <1>1, <1>3, <2>1, RedoOfOne
<1>5. h[n] \in Founds
  BY <1>1, <1>3
<1>6. ASSUME ~Touches(r, k)
      PROVE  h[n] = row
  <2>1. \A i \in 0 + 1 .. n : h[i] = h[i - 1]
    BY <1>1, <1>4, <1>6 DEF Touches
  <2>2. 0 \in Nat /\ 0 <= n
    BY <1>1
  <2>3. h[n] = h[0]
    <3> HIDE DEF n
    <3> QED
      BY <1>1, <2>1, <2>2, Unmoved
  <2> QED
    BY <1>3, <2>3
<1>7. ASSUME NEW d \in 1 .. n, r.changes[d].key = k, \A e \in 1 .. n : e > d => r.changes[e].key # k
      PROVE  /\ r.changes[d].kind = "delete" => h[n] = NotThere
             /\ r.changes[d].kind = "update" => h[n] = [val |-> r.changes[d].val, lsn |-> r.lsn]
             /\ r.changes[d].kind = "insert" /\ row = NotThere
                /\ (\A e \in 1 .. n : e < d => r.changes[e].key # k) =>
                   h[n] = [val |-> r.changes[d].val, lsn |-> r.lsn]
  <2>1. d \in Nat /\ d - 1 \in Nat /\ d <= n /\ d - 1 \in 0 .. n /\ r.changes[d] \in LoggedOps
    BY <1>1
  <2>2. h[n] = h[d]
    <3>1. \A i \in d + 1 .. n : h[i] = h[i - 1]
      BY <1>1, <1>4, <1>7, <2>1
    <3> HIDE DEF n
    <3> QED
      BY <1>1, <2>1, <3>1, Unmoved
  <2>3. h[d] = RedoOne(k, r, h[d - 1], r.changes[d]) /\ h[d - 1] \in Founds
    BY <1>3, <2>1
  <2>4. (\A e \in 1 .. n : e < d => r.changes[e].key # k) => h[d - 1] = row
    <3> SUFFICES ASSUME \A e \in 1 .. n : e < d => r.changes[e].key # k
                 PROVE  h[d - 1] = row
      OBVIOUS
    <3>1. \A i \in 0 + 1 .. d - 1 : h[i] = h[i - 1]
      BY <1>1, <1>4, <2>1
    <3>2. h[d - 1] = h[0]
      <4>1. 0 \in Nat /\ 0 <= d - 1
        BY <2>1
      <4> QED
        BY <2>1, <3>1, <4>1, Unmoved
    <3> QED
      BY <1>3, <3>2
  <2> QED
    BY <1>7, <2>1, <2>2, <2>3, <2>4, RedoOfOne
<1> HIDE DEF n
<1> QED
  BY <1>1, <1>2, <1>5, <1>6, <1>7

\* Redo of the log goes from record to record.
RedoneAlong(k, records, applied, h) ==
    /\ h \in [0 .. Len(records) -> Founds]
    /\ h[0] = FirstFound(k)
    /\ \A i \in 1 .. Len(records) :
          h[i] = IF i \in applied THEN RedoRecord(k, h[i - 1], records[i]) ELSE h[i - 1]
LEMMA RedoLogInSteps ==
    ASSUME NEW records \in Seq(Records), NEW applied, NEW k \in Keys
    PROVE  \E h : RedoneAlong(k, records, applied, h) /\ RedoLog(k, records, applied) = h[Len(records)]
<1> DEFINE n == Len(records)
           Next1(w, i) == IF i \in applied THEN RedoRecord(k, w, records[i]) ELSE w
<1>1. /\ n \in Nat /\ DOMAIN records = 1 .. n
      /\ \A i \in 1 .. n : records[i] \in Records
  OBVIOUS
<1>2. FirstFound(k) \in Founds
  BY FirstFounds
<1> DEFINE step == [i \in 1 .. n |-> [w \in Founds |-> Next1(w, i)]]
<1>3. \A i \in 1 .. n, w \in Founds : Next1(w, i) \in Founds
  BY <1>1, RedoOfRecord
<1>4. step \in [1 .. n -> [Founds -> Founds]]
  BY <1>3
<1>5. PICK g \in [0 .. n -> Founds] :
         g[0] = FirstFound(k) /\ \A i \in 1 .. n : g[i] = step[i][g[i - 1]]
  <2>1. n \in Nat
    BY <1>1
  <2> HIDE DEF step, n
  <2>2. CanIterate(n, Founds, FirstFound(k), step)
    BY <1>2, <1>4, <2>1, Iteration
  <2> QED
    BY <2>2 DEF CanIterate
<1>6. \A i \in 1 .. n : g[i] = Next1(g[i - 1], i)
  <2> TAKE i \in 1 .. n
  <2>1. i - 1 \in 0 .. n
    BY <1>1
  <2>2. g[i - 1] \in Founds
    BY <1>5, <2>1
  <2> HIDE DEF Next1
  <2> QED
    BY <1>5, <2>2
<1> DEFINE Goes(f) == f = [i \in 0 .. n |-> IF i = 0 THEN FirstFound(k) ELSE Next1(f[i - 1], i)]
<1>7. Goes(g)
  <2> HIDE DEF Next1
  <2>1. \A i \in 0 .. n : g[i] = IF i = 0 THEN FirstFound(k) ELSE Next1(g[i - 1], i)
    BY <1>1, <1>5, <1>6
  <2> QED
    BY <1>5, <2>1
<1> DEFINE h == CHOOSE f : Goes(f)
<1>8. Goes(h)
  BY <1>7
<1>9. RedoLog(k, records, applied) = h[n]
  <2> DEFINE Goes2(f) ==
        f = [i \in 0 .. n |-> IF i = 0 THEN FirstFound(k)
                              ELSE IF i \in applied THEN RedoRecord(k, f[i - 1], records[i])
                              ELSE f[i - 1]]
  <2>1. \A f : Goes(f) <=> Goes2(f)
    OBVIOUS
  <2>2. (CHOOSE f : Goes(f)) = (CHOOSE f : Goes2(f))
    <3> HIDE DEF Goes, Goes2
    <3> QED
      BY <2>1
  <2>3. RedoLog(k, records, applied) = (CHOOSE f : Goes2(f))[n]
    BY DEF RedoLog
  <2> QED
    BY <2>2, <2>3
<1>10. h[0] = FirstFound(k) /\ \A i \in 1 .. n : h[i] = Next1(h[i - 1], i)
  <2> HIDE DEF h, Next1
  <2>1. 0 \in 0 .. n /\ \A i \in 1 .. n : i \in 0 .. n /\ i # 0
    BY <1>1
  <2>2. \A i \in 0 .. n : h[i] = IF i = 0 THEN FirstFound(k) ELSE Next1(h[i - 1], i)
    BY <1>8
  <2> QED
    BY <2>1, <2>2
<1>11. \A i \in 0 .. n : h[i] \in Founds
  <2> HIDE DEF h, Next1
  <2> DEFINE S == {i \in 0 .. n : h[i] \in Founds}
  <2>1. 0 \in S
    BY <1>1, <1>2, <1>10
  <2>2. ASSUME NEW i \in 0 .. n, i \in S, i < n
        PROVE  i + 1 \in S
    <3>1. i + 1 \in 1 .. n /\ i + 1 \in 0 .. n /\ (i + 1) - 1 = i
      BY <1>1, <2>2
    <3>2. h[i + 1] = Next1(h[i], i + 1)
      BY <1>10, <3>1
    <3> QED
      BY <1>3, <2>2, <3>1, <3>2
  <2> HIDE DEF S
  <2>3. S = 0 .. n
    <3>1. S \subseteq 0 .. n
      BY DEF S
    <3>2. \A i \in 0 .. n : i \in S /\ i < n => i + 1 \in S
      BY <2>2
    <3> QED
      BY <1>1, <2>1, <3>1, <3>2, UpTo
  <2> QED
    BY <2>3 DEF S
<1>12. h \in [0 .. n -> Founds]
  <2> HIDE DEF h, Next1
  <2>1. DOMAIN h = 0 .. n
    BY <1>8
  <2>2. h = [i \in 0 .. n |-> h[i]]
    BY <1>8, <2>1
  <2> QED
    BY <1>11, <2>2
<1>13. RedoneAlong(k, records, applied, h)
  <2> HIDE DEF h
  <2> QED
    BY <1>10, <1>12 DEF RedoneAlong
<1> QED
  BY <1>9, <1>13

\* Redo of two logs goes the same way as far as they are the same.
LEMMA RedoneTheSame ==
    ASSUME NEW q1 \in Seq(Records), NEW q2 \in Seq(Records), NEW a1, NEW a2, NEW k \in Keys,
           NEW h1, NEW h2, RedoneAlong(k, q1, a1, h1), RedoneAlong(k, q2, a2, h2),
           NEW n \in Nat, n <= Len(q1), n <= Len(q2),
           \A i \in 1 .. n : q1[i] = q2[i] /\ (i \in a1 <=> i \in a2)
    PROVE  h1[n] = h2[n]
<1> DEFINE S == {i \in 0 .. n : h1[i] = h2[i]}
<1>1. S \subseteq 0 .. n /\ 0 \in S
  BY DEF RedoneAlong
<1>2. ASSUME NEW i \in 0 .. n, i \in S, i < n
      PROVE  i + 1 \in S
  <2>1. /\ i + 1 \in 1 .. n /\ i + 1 \in 0 .. n /\ (i + 1) - 1 = i
        /\ i + 1 \in 1 .. Len(q1) /\ i + 1 \in 1 .. Len(q2)
    BY <1>2
  <2>2. h1[i + 1] = IF i + 1 \in a1 THEN RedoRecord(k, h1[i], q1[i + 1]) ELSE h1[i]
    BY <2>1 DEF RedoneAlong
  <2>3. h2[i + 1] = IF i + 1 \in a2 THEN RedoRecord(k, h2[i], q2[i + 1]) ELSE h2[i]
    BY <2>1 DEF RedoneAlong
  <2>4. h1[i] = h2[i] /\ q1[i + 1] = q2[i + 1] /\ (i + 1 \in a1 <=> i + 1 \in a2)
    BY <1>2, <2>1
  <2> QED
    BY <2>1, <2>2, <2>3, <2>4
<1>3. n \in S
  <2> HIDE DEF S
  <2>1. S = 0 .. n
    BY <1>1, <1>2, UpTo
  <2> QED
    BY <2>1
<1> QED
  BY <1>3

\* A record that the map has yet to follow changes nothing in what would be recovered.
LEMMA RedoOfMore ==
    ASSUME NEW records \in Seq(Records), NEW applied, applied \subseteq DOMAIN records,
           NEW r \in Records, NEW k \in Keys
    PROVE  RedoLog(k, Append(records, r), applied) = RedoLog(k, records, applied)
<1> DEFINE n == Len(records)
           more == Append(records, r)
<1>1. /\ n \in Nat /\ DOMAIN records = 1 .. n /\ more \in Seq(Records) /\ Len(more) = n + 1
      /\ \A i \in 1 .. n : more[i] = records[i]
  OBVIOUS
<1>2. PICK h : RedoneAlong(k, records, applied, h) /\ RedoLog(k, records, applied) = h[n]
  BY RedoLogInSteps
<1>3. PICK g : RedoneAlong(k, more, applied, g) /\ RedoLog(k, more, applied) = g[n + 1]
  <2> HIDE DEF more, n
  <2>1. PICK g : RedoneAlong(k, more, applied, g) /\ RedoLog(k, more, applied) = g[Len(more)]
    BY <1>1, RedoLogInSteps
  <2> QED
    BY <1>1, <2>1
<1>4. g[n] = h[n]
  <2>1. n <= Len(more) /\ n <= n /\ \A i \in 1 .. n : more[i] = records[i]
    BY <1>1
  <2> HIDE DEF more
  <2> QED
    BY <1>1, <1>2, <1>3, <2>1, RedoneTheSame
<1>5. g[n + 1] = g[n]
  <2>1. n + 1 \in 1 .. Len(more) /\ (n + 1) - 1 = n /\ n + 1 \notin applied
    BY <1>1
  <2> HIDE DEF more, n
  <2> QED
    BY <1>3, <2>1 DEF RedoneAlong
<1> QED
  BY <1>2, <1>3, <1>4, <1>5

\* When the map follows one more record, that is redone last, if no later one touches its
\* rows.
LEMMA RedoOfOneMore ==
    ASSUME NEW records \in Seq(Records), NEW applied, NEW k \in Keys,
           NEW p \in DOMAIN records, p \notin applied,
           Touches(records[p], k) => \A j \in DOMAIN records : j > p => ~Touches(records[j], k)
    PROVE  RedoLog(k, records, applied \cup {p})
              = RedoRecord(k, RedoLog(k, records, applied), records[p])
<1> DEFINE n == Len(records)
           more == applied \cup {p}
<1>1. /\ n \in Nat /\ DOMAIN records = 1 .. n /\ p \in 1 .. n /\ p - 1 \in Nat /\ p \in Nat
      /\ p - 1 <= n /\ p <= n
      /\ \A i \in 1 .. n : records[i] \in Records
  OBVIOUS
<1>2. PICK h : RedoneAlong(k, records, applied, h) /\ RedoLog(k, records, applied) = h[n]
  BY RedoLogInSteps
<1>3. PICK g : RedoneAlong(k, records, more, g) /\ RedoLog(k, records, more) = g[n]
  BY RedoLogInSteps
<1>4. g[p - 1] = h[p - 1]
  <2>1. \A i \in 1 .. p - 1 : records[i] = records[i] /\ (i \in more <=> i \in applied)
    BY <1>1
  <2>2. p - 1 \in Nat /\ p - 1 <= Len(records)
    BY <1>1
  <2> HIDE DEF more, n
  <2> QED
    BY <1>2, <1>3, <2>1, <2>2, RedoneTheSame
<1>5. h[p] = h[p - 1] /\ g[p] = RedoRecord(k, g[p - 1], records[p])
  BY <1>1, <1>2, <1>3 DEF RedoneAlong
<1>6. \A i \in 0 .. n : h[i] \in Founds /\ g[i] \in Founds
  BY <1>2, <1>3 DEF RedoneAlong
<1>7. CASE Touches(records[p], k)
  <2>1. \A i \in p + 1 .. n : h[i] = h[i - 1] /\ g[i] = g[i - 1]
    <3> TAKE i \in p + 1 .. n
    <3>1. i \in 1 .. n /\ i > p /\ i - 1 \in 0 .. n
      BY <1>1
    <3>2. records[i] \in Records /\ ~Touches(records[i], k)
      BY <1>1, <1>7, <3>1
    <3>3. h[i - 1] \in Founds /\ g[i - 1] \in Founds
      BY <1>6, <3>1
    <3>4. /\ RedoRecord(k, h[i - 1], records[i]) = h[i - 1]
          /\ RedoRecord(k, g[i - 1], records[i]) = g[i - 1]
      BY <3>2, <3>3, RedoOfRecord
    <3> HIDE DEF more
    <3> QED
      BY <1>2, <1>3, <3>1, <3>4 DEF RedoneAlong
  <2>2. h[n] = h[p] /\ g[n] = g[p]
    <3> HIDE DEF n, more
    <3> QED
      BY <1>1, <2>1, Unmoved
  <2> QED
    BY <1>2, <1>3, <1>4, <1>5, <2>2
<1>8. CASE ~Touches(records[p], k)
  <2>1. g[p] = h[p]
    <3>1. g[p - 1] \in Founds /\ records[p] \in Records
      BY <1>1, <1>6
    <3> QED
      BY <1>4, <1>5, <1>8, <3>1, RedoOfRecord
  <2> DEFINE S == {d \in 0 .. n - p : g[p + d] = h[p + d]}
  <2>2. S \subseteq 0 .. n - p /\ 0 \in S /\ n - p \in Nat
    BY <1>1, <2>1
  <2>3. ASSUME NEW d \in 0 .. n - p, d \in S, d < n - p
        PROVE  d + 1 \in S
    <3>1. /\ p + (d + 1) \in 1 .. n /\ (p + (d + 1)) - 1 = p + d /\ d + 1 \in 0 .. n - p
          /\ p + (d + 1) # p
      BY <1>1, <2>3
    <3>2. p + (d + 1) \in more <=> p + (d + 1) \in applied
      BY <3>1
    <3>3. h[p + (d + 1)] = IF p + (d + 1) \in applied
                           THEN RedoRecord(k, h[p + d], records[p + (d + 1)]) ELSE h[p + d]
      BY <1>2, <3>1 DEF RedoneAlong
    <3>4. g[p + (d + 1)] = IF p + (d + 1) \in more
                           THEN RedoRecord(k, g[p + d], records[p + (d + 1)]) ELSE g[p + d]
      <4> HIDE DEF more
      <4> QED
        BY <1>3, <3>1 DEF RedoneAlong
    <3> QED
      BY <2>3, <3>1, <3>2, <3>3, <3>4
  <2>4. n - p \in S
    <3>1. n - p \in 0 .. n - p
      BY <2>2
    <3> HIDE DEF S, n
    <3>2. S = 0 .. n - p
      BY <2>2, <2>3, UpTo
    <3> QED
      BY <3>1, <3>2
  <2>5. g[n] = h[n]
    BY <1>1, <2>4
  <2>6. RedoRecord(k, h[n], records[p]) = h[n]
    <3>1. h[n] \in Founds /\ records[p] \in Records
      BY <1>1, <1>6
    <3> QED
      BY <1>8, <3>1, RedoOfRecord
  <2> QED
    BY <1>2, <1>3, <2>5, <2>6
<1> QED
  BY <1>7, <1>8

-----------------------------------------------------------------------------
\* Lemmas about what a transaction writes to the log

\* An operation that is written is one of those that redo knows.
LEMMA LoggedOpsAreTyped ==
    ASSUME Typed, NEW o \in Ops, o.kind # "lock"
    PROVE  LoggedOp(o) \in LoggedOps
<1>1. o.kind \in Marks \ {"none"} /\ o.key \in Keys /\ o.val \in Values
  BY DEF Ops
<1>2. LoggedKind(o) \in {"insert", "update", "delete"}
  BY <1>1 DEF LoggedKind, Marks
<1>3. rows[o.key].val \in Values
  BY <1>1 DEF Typed, TypeOK, Rows
<1> QED
  BY <1>1, <1>2, <1>3 DEF LoggedOp, LoggedOps

\* q holds what the first m operations of t write: f tells the operation of each change.
IsCopied(t, m, q, f) ==
    /\ q \in Seq(LoggedOps)
    /\ f \in [1 .. Len(q) -> 1 .. m]
    /\ \A d, e \in 1 .. Len(q) : d < e => f[d] < f[e]
    /\ \A d \in 1 .. Len(q) : ops[t][f[d]].kind # "lock" /\ q[d] = LoggedOp(ops[t][f[d]])
    /\ \A i \in 1 .. m : ops[t][i].kind # "lock" => \E d \in 1 .. Len(q) : f[d] = i

\* The next operation is written after the others.
LEMMA CopiesGoOn ==
    ASSUME Typed, NEW t \in Txns, NEW m \in Nat, m + 1 \in DOMAIN ops[t], NEW q, NEW f,
           IsCopied(t, m, q, f), ops[t][m + 1].kind # "lock"
    PROVE  \E g : IsCopied(t, m + 1, Append(q, LoggedOp(ops[t][m + 1])), g)
<1> DEFINE o == ops[t][m + 1]
           c == LoggedOp(o)
           n == Len(q)
           more == Append(q, c)
           g == [d \in 1 .. n + 1 |-> IF d = n + 1 THEN m + 1 ELSE f[d]]
<1>1. o \in Ops
  BY DEF Typed, TypeOK
<1>2. c \in LoggedOps
  BY <1>1, LoggedOpsAreTyped
<1>3. q \in Seq(LoggedOps) /\ n \in Nat
  BY DEF IsCopied
<1>4. /\ more \in Seq(LoggedOps) /\ Len(more) = n + 1 /\ more[n + 1] = c
      /\ \A d \in 1 .. n : more[d] = q[d]
  <2> HIDE DEF c
  <2> QED
    BY <1>2, <1>3
<1> HIDE DEF c, more, n
<1>5. \A d \in 1 .. n : f[d] \in 1 .. m /\ g[d] = f[d] /\ d \in 1 .. n + 1 /\ d # n + 1
  BY <1>3 DEF IsCopied, n
<1>6. g[n + 1] = m + 1 /\ \A d \in 1 .. n + 1 : d \in 1 .. n \/ d = n + 1
  BY <1>3
<1>7. g \in [1 .. n + 1 -> 1 .. m + 1]
  <2>1. \A d \in 1 .. n + 1 : g[d] \in 1 .. m + 1
    BY <1>5, <1>6
  <2> QED
    BY <2>1
<1> HIDE DEF g
<1>8. ASSUME NEW d \in 1 .. n + 1, NEW e \in 1 .. n + 1, d < e
      PROVE  g[d] < g[e]
  <2>1. d \in 1 .. n
    BY <1>3, <1>8
  <2>2. CASE e \in 1 .. n
    BY <1>5, <1>8, <2>1, <2>2 DEF IsCopied, n
  <2>3. CASE e = n + 1
    BY <1>5, <1>6, <2>1, <2>3
  <2> QED
    BY <1>6, <2>2, <2>3
<1>9. \A d \in 1 .. n + 1 : ops[t][g[d]].kind # "lock" /\ more[d] = LoggedOp(ops[t][g[d]])
  <2> TAKE d \in 1 .. n + 1
  <2>1. CASE d \in 1 .. n
    BY <1>4, <1>5, <2>1 DEF IsCopied, n
  <2>2. CASE d = n + 1
    BY <1>4, <1>6, <2>2 DEF c
  <2> QED
    BY <1>6, <2>1, <2>2
<1>10. ASSUME NEW i \in 1 .. m + 1, ops[t][i].kind # "lock"
       PROVE  \E d \in 1 .. n + 1 : g[d] = i
  <2>1. CASE i \in 1 .. m
    <3>1. PICK d \in 1 .. n : f[d] = i
      BY <1>10, <2>1 DEF IsCopied, n
    <3> QED
      BY <1>5, <3>1
  <2>2. CASE i = m + 1
    <3>1. n + 1 \in 1 .. n + 1
      BY <1>3
    <3> QED
      BY <1>6, <2>2, <3>1
  <2>3. i \in 1 .. m \/ i = m + 1
    OBVIOUS
  <2> QED
    BY <2>1, <2>2, <2>3
<1>11. IsCopied(t, m + 1, more, g)
  BY <1>4, <1>7, <1>8, <1>9, <1>10 DEF IsCopied
<1> QED
  BY <1>11 DEF more, c

\* What is written goes from operation to operation.
LEMMA LoggedInSteps ==
    ASSUME Typed, NEW t \in Txns
    PROVE  \E h : /\ h[0] = <<>>
                  /\ \A i \in 1 .. Len(ops[t]) :
                        h[i] = IF ops[t][i].kind = "lock" THEN h[i - 1]
                               ELSE Append(h[i - 1], LoggedOp(ops[t][i]))
                  /\ Logged(t) = h[Len(ops[t])]
<1> DEFINE n == Len(ops[t])
           V == Seq(LoggedOps)
           Next1(w, i) == IF ops[t][i].kind = "lock" THEN w ELSE Append(w, LoggedOp(ops[t][i]))
<1>1. n \in Nat /\ \A i \in 1 .. n : ops[t][i] \in Ops
  BY DEF Typed, TypeOK
<1> DEFINE step == [i \in 1 .. n |-> [w \in V |-> Next1(w, i)]]
<1>3. \A i \in 1 .. n, w \in V : Next1(w, i) \in V
  <2> TAKE i \in 1 .. n, w \in V
  <2>1. CASE ops[t][i].kind # "lock"
    <3>1. LoggedOp(ops[t][i]) \in LoggedOps
      BY <1>1, <2>1, LoggedOpsAreTyped
    <3> HIDE DEF n
    <3> QED
      BY <2>1, <3>1
  <2> QED
    BY <2>1
<1>4. step \in [1 .. n -> [V -> V]]
  <2> HIDE DEF Next1, V
  <2> QED
    BY <1>3
<1>5. PICK g \in [0 .. n -> V] : g[0] = <<>> /\ \A i \in 1 .. n : g[i] = step[i][g[i - 1]]
  <2>1. n \in Nat /\ <<>> \in V
    BY <1>1
  <2> HIDE DEF step, n, V
  <2>2. CanIterate(n, V, <<>>, step)
    BY <1>4, <2>1, Iteration
  <2> QED
    BY <2>2 DEF CanIterate
<1>6. \A i \in 1 .. n : g[i] = Next1(g[i - 1], i)
  <2> TAKE i \in 1 .. n
  <2>1. i - 1 \in 0 .. n
    BY <1>1
  <2> HIDE DEF V, Next1
  <2>2. g[i - 1] \in V
    BY <1>5, <2>1
  <2> QED
    BY <1>5, <2>2
<1> DEFINE Goes(f) == f = [i \in 0 .. n |-> IF i = 0 THEN <<>> ELSE Next1(f[i - 1], i)]
<1>7. Goes(g)
  <2> HIDE DEF Next1, V
  <2>1. \A i \in 0 .. n : g[i] = IF i = 0 THEN <<>> ELSE Next1(g[i - 1], i)
    BY <1>1, <1>5, <1>6
  <2> QED
    BY <1>5, <2>1
<1> DEFINE h == CHOOSE f : Goes(f)
<1>8. Goes(h)
  BY <1>7
<1>9. Logged(t) = h[n]
  <2> DEFINE Goes2(f) ==
        f = [i \in 0 .. n |-> IF i = 0 THEN <<>>
                              ELSE IF ops[t][i].kind = "lock" THEN f[i - 1]
                              ELSE Append(f[i - 1], LoggedOp(ops[t][i]))]
  <2>1. \A f : Goes(f) <=> Goes2(f)
    OBVIOUS
  <2>2. (CHOOSE f : Goes(f)) = (CHOOSE f : Goes2(f))
    <3> HIDE DEF Goes, Goes2
    <3> QED
      BY <2>1
  <2>3. Logged(t) = (CHOOSE f : Goes2(f))[n]
    BY DEF Logged
  <2> QED
    BY <2>2, <2>3
<1>10. h[0] = <<>> /\ \A i \in 1 .. n : h[i] = Next1(h[i - 1], i)
  <2> HIDE DEF h, Next1
  <2>1. 0 \in 0 .. n /\ \A i \in 1 .. n : i \in 0 .. n /\ i # 0
    BY <1>1
  <2>2. \A i \in 0 .. n : h[i] = IF i = 0 THEN <<>> ELSE Next1(h[i - 1], i)
    BY <1>8
  <2> QED
    BY <2>1, <2>2
<1> HIDE DEF h
<1> QED
  BY <1>9, <1>10

\* The list of changes holds, in their order, all operations but the locks.
LEMMA LoggedCopies ==
    ASSUME Typed, NEW t \in Txns
    PROVE  \E f : IsCopied(t, Len(ops[t]), Logged(t), f)
<1> DEFINE n == Len(ops[t])
<1>1. n \in Nat /\ DOMAIN ops[t] = 1 .. n
  BY DEF Typed, TypeOK
<1>2. PICK h : /\ h[0] = <<>>
               /\ \A i \in 1 .. n : h[i] = IF ops[t][i].kind = "lock" THEN h[i - 1]
                                           ELSE Append(h[i - 1], LoggedOp(ops[t][i]))
               /\ Logged(t) = h[n]
  BY LoggedInSteps
<1> HIDE DEF n
<1> DEFINE Holds(m) == \E f : IsCopied(t, m, h[m], f)
           S == {m \in 0 .. n : Holds(m)}
<1>3. Holds(0)
  <2> DEFINE f == [d \in 1 .. 0 |-> 0]
  <2>1. IsCopied(t, 0, <<>>, f)
    BY DEF IsCopied
  <2> QED
    BY <1>2, <2>1
<1>4. ASSUME NEW m \in 0 .. n, m \in S, m < n
      PROVE  m + 1 \in S
  <2>1. m + 1 \in 1 .. n /\ m + 1 \in 0 .. n /\ (m + 1) - 1 = m /\ m \in Nat
    BY <1>1, <1>4
  <2>2. PICK f : IsCopied(t, m, h[m], f)
    BY <1>4
  <2>3. CASE ops[t][m + 1].kind = "lock"
    <3>1. h[m + 1] = h[m]
      BY <1>2, <2>1, <2>3
    <3>2. f \in [1 .. Len(h[m]) -> 1 .. m + 1]
      BY <2>1, <2>2 DEF IsCopied
    <3>3. \A i \in 1 .. m + 1 : ops[t][i].kind # "lock" => i \in 1 .. m
      BY <2>1, <2>3
    <3>4. IsCopied(t, m + 1, h[m], f)
      BY <2>2, <3>2, <3>3 DEF IsCopied
    <3> QED
      BY <2>1, <3>1, <3>4
  <2>4. CASE ops[t][m + 1].kind # "lock"
    <3>1. h[m + 1] = Append(h[m], LoggedOp(ops[t][m + 1]))
      BY <1>2, <2>1, <2>4
    <3>2. \E g : IsCopied(t, m + 1, Append(h[m], LoggedOp(ops[t][m + 1])), g)
      BY <1>1, <2>1, <2>2, <2>4, CopiesGoOn
    <3> QED
      BY <2>1, <3>1, <3>2
  <2> QED
    BY <2>3, <2>4
<1>5. S = 0 .. n
  <2>1. 0 \in S /\ S \subseteq 0 .. n
    BY <1>1, <1>3
  <2> HIDE DEF S
  <2> QED
    BY <1>1, <1>4, <2>1, UpTo
<1>6. n \in 0 .. n
  BY <1>1
<1>7. Holds(n)
  BY <1>5, <1>6
<1> QED
  BY <1>2, <1>7 DEF n

\* Of the changes on a row the last is that of the transaction's last operation on it; it is
\* the only one if that is the first operation, too.
IsLastChange(q, d, k) == \A e \in DOMAIN q : e > d => q[e].key # k
IsFirstChange(q, d, k) == \A e \in DOMAIN q : e < d => q[e].key # k
LEMMA LoggedTells ==
    ASSUME Typed, NEW t \in Txns, NEW r, r.changes = Logged(t), NEW k \in Keys
    PROVE  /\ Touches(r, k) => \E i \in On(t, k) : ops[t][i].kind # "lock"
           /\ \A e \in On(t, k) : IsLast(t, e) /\ ops[t][e].kind # "lock" =>
                 \E d \in DOMAIN r.changes :
                    /\ r.changes[d] = LoggedOp(ops[t][e]) /\ IsLastChange(r.changes, d, k)
                    /\ IsFirst(t, e) => IsFirstChange(r.changes, d, k)
<1> DEFINE n == Len(ops[t])
           q == Logged(t)
<1>1. n \in Nat /\ DOMAIN ops[t] = 1 .. n
  BY DEF Typed, TypeOK
<1>2. PICK f : IsCopied(t, n, q, f)
  BY LoggedCopies
<1> HIDE DEF q, n
<1>3. /\ q \in Seq(LoggedOps) /\ DOMAIN q = 1 .. Len(q) /\ Len(q) \in Nat
      /\ \A d \in 1 .. Len(q) :
            /\ f[d] \in 1 .. n /\ ops[t][f[d]].kind # "lock" /\ q[d] = LoggedOp(ops[t][f[d]])
            /\ \A e \in 1 .. Len(q) : d < e => f[d] < f[e]
      /\ \A i \in 1 .. n : ops[t][i].kind # "lock" => \E d \in 1 .. Len(q) : f[d] = i
  BY <1>2 DEF IsCopied
<1>4. \A d \in 1 .. Len(q) : q[d].key = ops[t][f[d]].key
  BY <1>3 DEF LoggedOp
<1>5. \A d \in 1 .. Len(q) : q[d].key = k => f[d] \in On(t, k)
  BY <1>1, <1>3, <1>4 DEF On
<1>6. Touches(r, k) => \E i \in On(t, k) : ops[t][i].kind # "lock"
  BY <1>3, <1>5 DEF Touches, q
<1>7. ASSUME NEW e \in On(t, k), IsLast(t, e), ops[t][e].kind # "lock"
      PROVE  \E d \in 1 .. Len(q) :
                /\ q[d] = LoggedOp(ops[t][e]) /\ IsLastChange(q, d, k)
                /\ IsFirst(t, e) => IsFirstChange(q, d, k)
  <2>1. e \in 1 .. n /\ ops[t][e].key = k /\ \A i \in On(t, k) : i <= e
    BY <1>1, <1>7 DEF On, IsLast
  <2>2. PICK d \in 1 .. Len(q) : f[d] = e
    BY <1>3, <1>7, <2>1
  <2>3. q[d] = LoggedOp(ops[t][e])
    BY <1>3, <2>2
  <2>4. IsLastChange(q, d, k)
    <3> SUFFICES ASSUME NEW c \in 1 .. Len(q), c > d, q[c].key = k PROVE FALSE
      BY <1>3 DEF IsLastChange
    <3>1. f[c] <= e /\ f[d] < f[c]
      BY <1>3, <1>5, <2>1
    <3> QED
      BY <1>3, <2>1, <2>2, <3>1
  <2>5. IsFirst(t, e) => IsFirstChange(q, d, k)
    <3> SUFFICES ASSUME IsFirst(t, e), NEW c \in 1 .. Len(q), c < d, q[c].key = k PROVE FALSE
      BY <1>3 DEF IsFirstChange
    <3>1. e <= f[c] /\ f[c] < f[d]
      BY <1>3, <1>5, <2>1 DEF IsFirst
    <3> QED
      BY <1>3, <2>1, <2>2, <3>1
  <2> QED
    BY <2>3, <2>4, <2>5
<1> QED
  BY <1>3, <1>6, <1>7 DEF q

\* What redo makes of a row that a transaction has changed, told by its last operation on
\* that row.
LEMMA RedoOfLogged ==
    ASSUME MapInv, ~corrupt, NEW t \in Txns, Unfinished(t), \A i \in DOMAIN ops[t] : FindsFirst(t, i),
           NEW r \in Records, r.changes = Logged(t), NEW k \in Keys, NEW found \in Founds
    PROVE  /\ k \notin KeysOf(t) => RedoRecord(k, found, r) = found
           /\ \A e \in On(t, k) : IsLast(t, e) =>
                 /\ ops[t][e].kind = "lock" => RedoRecord(k, found, r) = found
                 /\ ops[t][e].kind \in {"delete", "deleted_insert"} =>
                       RedoRecord(k, found, r) = NotThere
                 /\ ops[t][e].kind = "update" =>
                       RedoRecord(k, found, r) = [val |-> ops[t][e].val, lsn |-> r.lsn]
                 /\ ops[t][e].kind = "insert" /\ found = NotThere =>
                       RedoRecord(k, found, r) = [val |-> rows[k].val, lsn |-> r.lsn]
<1>0. Typed /\ \A i \in DOMAIN ops[t] : IsTraced(t, i)
  BY DEF MapInv, OpsAreTraced
<1>1. /\ DOMAIN ops[t] = 1 .. Len(ops[t]) /\ Len(ops[t]) \in Nat
      /\ \A i \in DOMAIN ops[t] : ops[t][i] \in Ops
  BY <1>0 DEF Typed, TypeOK
<1>2. Touches(r, k) => \E i \in On(t, k) : ops[t][i].kind # "lock"
  BY <1>0, LoggedTells
<1>3. k \notin KeysOf(t) => RedoRecord(k, found, r) = found
  BY <1>2, RedoOfRecord DEF On, KeysOf
<1>4. ASSUME NEW e \in On(t, k), IsLast(t, e), ops[t][e].kind = "lock"
      PROVE  RedoRecord(k, found, r) = found
  <2>1. e \in DOMAIN ops[t] /\ ops[t][e].key = k
    BY DEF On
  <2>2. IsFirst(t, e)
    BY <1>0, <1>4, <2>1 DEF IsTraced, FindsFirst
  <2>3. \A i \in On(t, k) : i = e
    BY <1>1, <1>4, <2>1, <2>2 DEF IsFirst, IsLast, On
  <2> QED
    BY <1>2, <1>4, <2>3, RedoOfRecord
<1>5. ASSUME NEW e \in On(t, k), IsLast(t, e), ops[t][e].kind # "lock"
      PROVE  /\ ops[t][e].kind \in {"delete", "deleted_insert"} =>
                   RedoRecord(k, found, r) = NotThere
             /\ ops[t][e].kind = "update" =>
                   RedoRecord(k, found, r) = [val |-> ops[t][e].val, lsn |-> r.lsn]
             /\ ops[t][e].kind = "insert" /\ found = NotThere =>
                   RedoRecord(k, found, r) = [val |-> rows[k].val, lsn |-> r.lsn]
  <2> DEFINE o == ops[t][e]
  <2>1. e \in DOMAIN ops[t] /\ o.key = k /\ o \in Ops
    BY <1>1 DEF On
  <2>2. PICK d \in DOMAIN r.changes :
           /\ r.changes[d] = LoggedOp(o) /\ IsLastChange(r.changes, d, k)
           /\ IsFirst(t, e) => IsFirstChange(r.changes, d, k)
    BY <1>0, <1>5, LoggedTells
  <2>3. /\ r.changes[d].key = k
        /\ o.kind \in {"delete", "deleted_insert"} => r.changes[d].kind = "delete"
        /\ o.kind = "update" => r.changes[d].kind = "update" /\ r.changes[d].val = o.val
        /\ o.kind = "insert" => r.changes[d].kind = "insert" /\ r.changes[d].val = rows[k].val
    BY <2>1, <2>2 DEF LoggedOp, LoggedKind
  <2>4. o.kind = "insert" => IsFirst(t, e)
    BY <1>0, <2>1 DEF IsTraced
  <2> HIDE DEF o
  <2>5. /\ r.changes[d].kind = "delete" => RedoRecord(k, found, r) = NotThere
        /\ r.changes[d].kind = "update" =>
              RedoRecord(k, found, r) = [val |-> r.changes[d].val, lsn |-> r.lsn]
        /\ r.changes[d].kind = "insert" /\ found = NotThere /\ IsFirstChange(r.changes, d, k) =>
              RedoRecord(k, found, r) = [val |-> r.changes[d].val, lsn |-> r.lsn]
    BY <2>2, <2>3, RedoOfRecord DEF IsLastChange, IsFirstChange
  <2>6. /\ o.kind \in {"delete", "deleted_insert"} => RedoRecord(k, found, r) = NotThere
        /\ o.kind = "update" => RedoRecord(k, found, r) = [val |-> o.val, lsn |-> r.lsn]
        /\ o.kind = "insert" /\ found = NotThere =>
              RedoRecord(k, found, r) = [val |-> rows[k].val, lsn |-> r.lsn]
    BY <2>2, <2>3, <2>4, <2>5
  <2> QED
    BY <2>6 DEF o
<1> QED
  BY <1>3, <1>4, <1>5

-----------------------------------------------------------------------------
\* How a step changes the log

\* Who has a record in the log goes on with commit and notification.
LEMMA RecordedGoOn ==
    ASSUME MapInv, NEW t \in Txns, Steps(t), pc[t] \in {"logged", "changed", "done"}
    PROVE  Commit(t) \/ (Notify(t) /\ pc[t] = "changed" /\ pc'[t] = "done")
<1>1. pc \in [Txns -> Points]
  BY DEF MapInv, Typed, TypeOK
<1>2. ~(\E kind \in Kinds, k \in Keys : Works(t, kind, k)) /\ ~Rollback(t)
  BY DEF Works, Rollback
<1>3. Quiet(t) => Notify(t)
  BY DEF Quiet, Begin, Sleep, Timeout, WriteRecord, GivesUp, Dangles
<1>4. Notify(t) => pc[t] = "changed" /\ pc'[t] = "done"
  BY <1>1 DEF Notify, CanNotify
<1> QED
  BY <1>2, <1>3, <1>4 DEF Steps

\* The record that a transaction writes.
NewRecord(t) == [txn |-> t, lsn |-> next_lsn, changes |-> Logged(t)]
LEMMA NewRecords ==
    ASSUME MapInv, LogIsTyped, NEW t \in Txns, WriteRecord(t)
    PROVE  /\ NewRecord(t) \in Records /\ log' = Append(log, NewRecord(t))
           /\ Len(log) \in Nat /\ DOMAIN log = 1 .. Len(log) /\ DOMAIN log' = 1 .. Len(log) + 1
           /\ \A i \in DOMAIN log : log[i] \in Records /\ log'[i] = log[i]
           /\ log'[Len(log) + 1] = NewRecord(t)
           /\ pc[t] = "active" /\ pc'[t] = "logged" /\ \A s \in Txns \ {t} : pc'[s] = pc[s]
<1>1. Typed
  BY DEF MapInv
<1>2. pc \in [Txns -> Points] /\ next_lsn \in Nat
  BY <1>1 DEF Typed, TypeOK
<1>3. PICK f : IsCopied(t, Len(ops[t]), Logged(t), f)
  BY <1>1, LoggedCopies
<1>4. NewRecord(t) \in Records
  BY <1>2, <1>3 DEF IsCopied, NewRecord, Records
<1>5. log' = Append(log, NewRecord(t))
  BY DEF WriteRecord, NewRecord
<1>6. log \in Seq(Records)
  BY DEF LogIsTyped
<1>7. pc[t] = "active" /\ pc'[t] = "logged" /\ \A s \in Txns \ {t} : pc'[s] = pc[s]
  BY <1>2 DEF WriteRecord, Goto
<1> HIDE DEF NewRecord
<1> QED
  BY <1>4, <1>5, <1>6, <1>7

\* The records of the log are those of transactions.
LEMMA RecordsHaveOwners ==
    ASSUME LogIsTyped
    PROVE  /\ log \in Seq(Records) /\ DOMAIN log = 1 .. Len(log) /\ Len(log) \in Nat
           /\ \A i \in DOMAIN log : log[i] \in Records /\ log[i].txn \in Txns
<1>1. log \in Seq(Records)
  BY DEF LogIsTyped
<1>2. \A i \in DOMAIN log : log[i] \in Records
  BY <1>1
<1>3. \A r \in Records : r.txn \in Txns
  BY DEF Records
<1> QED
  BY <1>1, <1>2, <1>3

\* No step but the writing of a record changes the log.
LEMMA OtherStepsKeepTheLog ==
    ASSUME NEW t \in Txns, Steps(t), ~WriteRecord(t)
    PROVE  log' = log
BY DEF Steps, Quiet, Begin, Sleep, Timeout, Notify, GivesUp, Dangles, Commit, Rollback, Change, Works

\* The log stays a list of records.
LEMMA LogTypeStays ==
    ASSUME MapInv, LogIsTyped, NEW t \in Txns, Steps(t)
    PROVE  LogIsTyped'
<1>1. CASE WriteRecord(t)
  <2>1. NewRecord(t) \in Records /\ log' = Append(log, NewRecord(t)) /\ log \in Seq(Records)
    BY <1>1, NewRecords DEF LogIsTyped
  <2> QED
    BY <2>1 DEF LogIsTyped
<1>2. CASE ~WriteRecord(t)
  BY <1>2, OtherStepsKeepTheLog DEF LogIsTyped
<1> QED
  BY <1>1, <1>2

\* The log keeps at most one record of each transaction.
LEMMA RecordsStay ==
    ASSUME MapInv, LogIsTyped, RecordsAreKept, NEW t \in Txns, Steps(t)
    PROVE  RecordsAreKept'
<1>0. /\ \A i \in DOMAIN log : log[i].txn \in Txns
      /\ pc \in [Txns -> Points]
  BY RecordsHaveOwners DEF MapInv, Typed, TypeOK
<1>1. CASE WriteRecord(t)
  <2>1. /\ Len(log) \in Nat /\ DOMAIN log = 1 .. Len(log) /\ DOMAIN log' = 1 .. Len(log) + 1
        /\ \A i \in DOMAIN log : log'[i] = log[i]
        /\ log'[Len(log) + 1].txn = t
        /\ pc[t] = "active" /\ pc'[t] = "logged" /\ \A s \in Txns \ {t} : pc'[s] = pc[s]
    <3>1. NewRecord(t).txn = t
      BY DEF NewRecord
    <3> QED
      BY <1>1, <3>1, NewRecords
  <2>2. \A i \in DOMAIN log : log[i].txn # t
    BY <2>1 DEF RecordsAreKept
  <2>3. \A i \in DOMAIN log' : i \in DOMAIN log \/ i = Len(log) + 1
    BY <2>1
  <2>4. \A i, j \in DOMAIN log' : log'[i].txn = log'[j].txn => i = j
    BY <2>1, <2>2, <2>3 DEF RecordsAreKept
  <2>5. \A i \in DOMAIN log' : pc'[log'[i].txn] \in {"logged", "changed", "done"}
    BY <1>0, <2>1, <2>2, <2>3 DEF RecordsAreKept
  <2> QED
    BY <2>4, <2>5 DEF RecordsAreKept
<1>2. CASE ~WriteRecord(t)
  <2>1. log' = log
    BY <1>2, OtherStepsKeepTheLog
  <2>2. ASSUME NEW i \in DOMAIN log
        PROVE  pc'[log[i].txn] \in {"logged", "changed", "done"}
    <3>1. log[i].txn \in Txns /\ pc[log[i].txn] \in {"logged", "changed", "done"}
      BY <1>0 DEF RecordsAreKept
    <3>2. CASE log[i].txn = t
      <4>1. Commit(t) => pc'[t] = "changed"
        BY <1>0 DEF Commit, Change, Goto
      <4> QED
        BY <3>1, <3>2, <4>1, RecordedGoOn
    <3>3. CASE log[i].txn # t
      BY <3>1, <3>3, OthersStay
    <3> QED
      BY <3>2, <3>3
  <2> QED
    BY <2>1, <2>2 DEF RecordsAreKept
<1> QED
  BY <1>1, <1>2

\* A step that is no commit leaves alone what would be recovered.
LEMMA RecoverableStays ==
    ASSUME MapInv, LogIsTyped, RecordsAreKept, NEW t \in Txns, Steps(t), ~Commit(t), NEW k \in Keys
    PROVE  Recoverable(k)' = Recoverable(k)
<1>0. /\ \A i \in DOMAIN log : log[i].txn \in Txns
      /\ log \in Seq(Records)
  BY RecordsHaveOwners
<1>1. ASSUME NEW i \in DOMAIN log
      PROVE  pc'[log[i].txn] \in {"changed", "done"} <=> pc[log[i].txn] \in {"changed", "done"}
  <2>1. log[i].txn \in Txns /\ pc[log[i].txn] \in {"logged", "changed", "done"}
    BY <1>0 DEF RecordsAreKept
  <2>2. CASE log[i].txn = t
    BY <2>1, <2>2, RecordedGoOn
  <2>3. CASE log[i].txn # t
    BY <2>1, <2>3, OthersStay
  <2> QED
    BY <2>2, <2>3
<1>2. CASE WriteRecord(t)
  <2>1. /\ NewRecord(t) \in Records /\ log' = Append(log, NewRecord(t))
        /\ Len(log) \in Nat /\ DOMAIN log = 1 .. Len(log) /\ DOMAIN log' = 1 .. Len(log) + 1
        /\ \A i \in DOMAIN log : log'[i] = log[i]
        /\ log'[Len(log) + 1].txn = t /\ pc'[t] = "logged"
    BY <1>2, NewRecords DEF NewRecord
  <2>2. Applied' = Applied
    <3>1. \A i \in DOMAIN log' : i \in DOMAIN log \/ i = Len(log) + 1
      BY <2>1
    <3>2. \A i \in DOMAIN log : i \in DOMAIN log'
      BY <2>1
    <3> QED
      BY <1>1, <2>1, <3>1, <3>2 DEF Applied
  <2>3. Applied \subseteq DOMAIN log
    BY DEF Applied
  <2>4. RedoLog(k, Append(log, NewRecord(t)), Applied) = RedoLog(k, log, Applied)
    <3> HIDE DEF NewRecord
    <3> QED
      BY <1>0, <2>1, <2>3, RedoOfMore
  <2>5. Recoverable(k)' = RedoLog(k, log', Applied')
    BY DEF Recoverable
  <2> QED
    BY <2>1, <2>2, <2>4, <2>5 DEF Recoverable
<1>3. CASE ~WriteRecord(t)
  <2>1. log' = log
    BY <1>3, OtherStepsKeepTheLog
  <2>2. Applied' = Applied
    BY <1>1, <2>1 DEF Applied
  <2>3. Recoverable(k)' = RedoLog(k, log', Applied')
    BY DEF Recoverable
  <2> QED
    BY <2>1, <2>2, <2>3 DEF Recoverable
<1> QED
  BY <1>2, <1>3

\* What a transaction would write depends on its list and on the rows of its keys.
LEMMA LoggedStays ==
    ASSUME Typed, NEW u \in Txns, ops'[u] = ops[u], \A k \in KeysOf(u) : rows'[k] = rows[k]
    PROVE  Logged(u)' = Logged(u)
<1> DEFINE n == Len(ops[u])
           Goes1(f) == f = [i \in 0 .. n |->
                              IF i = 0 THEN <<>>
                              ELSE IF ops[u][i].kind = "lock" THEN f[i - 1]
                              ELSE Append(f[i - 1], LoggedOp(ops[u][i]))]
           Goes2(f) == f = [i \in 0 .. n |->
                              IF i = 0 THEN <<>>
                              ELSE IF ops[u][i].kind = "lock" THEN f[i - 1]
                              ELSE Append(f[i - 1], LoggedOp(ops[u][i])')]
<1>1. n \in Nat /\ DOMAIN ops[u] = 1 .. n
  BY DEF Typed, TypeOK
<1>2. \A i \in 1 .. n : LoggedOp(ops[u][i])' = LoggedOp(ops[u][i])
  <2> TAKE i \in 1 .. n
  <2>1. ops[u][i].key \in KeysOf(u)
    BY <1>1 DEF KeysOf
  <2>2. rows'[ops[u][i].key] = rows[ops[u][i].key]
    BY <2>1
  <2> HIDE DEF n
  <2> QED
    BY <2>2 DEF LoggedOp
<1>3. \A f : Goes1(f) <=> Goes2(f)
  <2> HIDE DEF n
  <2>1. \A i \in 0 .. n : i = 0 \/ i \in 1 .. n
    BY <1>1
  <2> QED
    BY <1>2, <2>1
<1>4. (CHOOSE f : Goes1(f)) = (CHOOSE f : Goes2(f))
  <2> HIDE DEF Goes1, Goes2
  <2> QED
    BY <1>3
<1>5. Logged(u) = (CHOOSE f : Goes1(f))[n]
  BY DEF Logged
<1>6. Logged(u)' = (CHOOSE f : Goes2(f))[n]
  BY DEF Logged
<1> QED
  BY <1>4, <1>5, <1>6

\* A record that the map has yet to follow stays what its transaction has done.
LEMMA PendingStay ==
    ASSUME MapInv, LogIsTyped, RecordsAreKept, PendingAreCurrent, NEW t \in Txns, Steps(t)
    PROVE  PendingAreCurrent'
<1> SUFFICES ASSUME ~corrupt', NEW i \in DOMAIN log', pc'[log'[i].txn] = "logged"
             PROVE  IsPending(i)'
  BY DEF PendingAreCurrent
<1>0. ~corrupt /\ Typed /\ pc \in [Txns -> Points]
  BY LogStays DEF MapInv, Typed, TypeOK
<1>1. /\ DOMAIN log = 1 .. Len(log) /\ Len(log) \in Nat
      /\ \A j \in DOMAIN log : log[j] \in Records /\ log[j].txn \in Txns
  BY RecordsHaveOwners
<1>2. ASSUME NEW j \in DOMAIN log, NEW u \in Txns, log[j].txn = u, u # t, pc'[u] = "logged"
      PROVE  /\ Unfinished(u)
             /\ log[j].changes = Logged(u)' /\ KeysOf(u)' = KeysOf(u)
             /\ \A l \in DOMAIN log : l > j => \A k \in KeysOf(u) : ~Touches(log[l], k)
  <2>1. ops'[u] = ops[u] /\ pc[u] = "logged"
    BY <1>2, OthersStay
  <2>2. Unfinished(u)
    BY <2>1 DEF Unfinished
  <2>3. \A k \in KeysOf(u) : rows'[k] = rows[k]
    BY <1>0, <1>2, <2>2, RowsOfOthersStay
  <2>4. Logged(u)' = Logged(u)
    BY <1>0, <2>1, <2>3, LoggedStays
  <2>5. KeysOf(u)' = KeysOf(u)
    BY <2>1 DEF KeysOf
  <2>6. IsPending(j)
    BY <1>0, <1>2, <2>1 DEF PendingAreCurrent
  <2> QED
    BY <1>2, <2>2, <2>4, <2>5, <2>6 DEF IsPending
<1>3. CASE WriteRecord(t)
  <2> DEFINE n == Len(log)
  <2>1. /\ DOMAIN log' = 1 .. n + 1 /\ \A j \in DOMAIN log : log'[j] = log[j]
        /\ log'[n + 1] = NewRecord(t) /\ pc[t] = "active"
    BY <1>3, NewRecords
  <2>2. NewRecord(t).txn = t /\ NewRecord(t).changes = Logged(t)
    BY DEF NewRecord
  <2>3. CASE i = n + 1
    <3>1. Logged(t)' = Logged(t)
      <4>1. ops'[t] = ops[t] /\ \A k \in KeysOf(t) : rows'[k] = rows[k]
        BY <1>3 DEF WriteRecord, map
      <4> QED
        BY <1>0, <4>1, LoggedStays
    <3>2. \A j \in DOMAIN log' : ~(j > i)
      BY <1>1, <2>1, <2>3
    <3>3. log'[i].txn = t /\ log'[i].changes = Logged(t)'
      BY <2>1, <2>2, <2>3, <3>1
    <3> QED
      BY <3>2, <3>3 DEF IsPending
  <2>4. CASE i \in DOMAIN log
    <3>1. log'[i] = log[i]
      BY <2>1, <2>4
    <3> PICK u \in Txns : log[i].txn = u
      BY <1>1, <2>4
    <3>2. u # t
      BY <2>1, <2>4 DEF RecordsAreKept
    <3>3. /\ Unfinished(u) /\ log[i].changes = Logged(u)' /\ KeysOf(u)' = KeysOf(u)
          /\ \A l \in DOMAIN log : l > i => \A k \in KeysOf(u) : ~Touches(log[l], k)
      BY <1>2, <2>4, <3>1, <3>2
    <3>4. ASSUME NEW k \in KeysOf(u) PROVE ~Touches(NewRecord(t), k)
      <4>1. Unfinished(t)
        BY <2>1 DEF Unfinished
      <4>2. k \in Keys /\ rows[k].id = id[u]
        BY <1>0, <3>3, <3>4, OpsMark
      <4>3. k \notin KeysOf(t)
        <5> SUFFICES ASSUME k \in KeysOf(t) PROVE FALSE
          OBVIOUS
        <5>1. rows[k].id = id[t]
          BY <1>0, <4>1, OpsMark
        <5> QED
          BY <3>2, <3>3, <4>1, <4>2, <5>1, IdsTell
      <4>4. Touches(NewRecord(t), k) => k \in KeysOf(t)
        <5>1. Touches(NewRecord(t), k) => \E l \in On(t, k) : ops[t][l].kind # "lock"
          BY <1>0, <2>2, <4>2, LoggedTells
        <5> QED
          BY <5>1 DEF On, KeysOf
      <4> QED
        BY <4>3, <4>4
    <3>5. \A l \in DOMAIN log' : l \in DOMAIN log \/ l = n + 1
      BY <1>1, <2>1
    <3>6. \A l \in DOMAIN log' : l > i => \A k \in KeysOf(u)' : ~Touches(log'[l], k)
      <4> HIDE DEF n
      <4> QED
        BY <2>1, <3>3, <3>4, <3>5
    <3> QED
      BY <3>1, <3>3, <3>6 DEF IsPending, Touches
  <2> QED
    BY <1>1, <2>1, <2>3, <2>4
<1>4. CASE ~WriteRecord(t)
  <2>1. log' = log
    BY <1>4, OtherStepsKeepTheLog
  <2>2. log[i].txn # t
    <3>1. pc[log[i].txn] \in {"logged", "changed", "done"}
      BY <2>1 DEF RecordsAreKept
    <3>2. Commit(t) => pc'[t] = "changed"
      BY <1>0 DEF Commit, Change, Goto
    <3> QED
      BY <2>1, <3>1, <3>2, RecordedGoOn
  <2>3. i \in DOMAIN log /\ pc'[log[i].txn] = "logged"
    BY <2>1
  <2> PICK u \in Txns : log[i].txn = u
    BY <1>1, <2>3
  <2>4. /\ log[i].changes = Logged(u)' /\ KeysOf(u)' = KeysOf(u)
        /\ \A l \in DOMAIN log : l > i => \A k \in KeysOf(u) : ~Touches(log[l], k)
    BY <1>2, <2>2, <2>3
  <2> QED
    BY <2>1, <2>4 DEF IsPending
<1> QED
  BY <1>3, <1>4

\* What would be recovered is a row.
LEMMA RecoverablesAre ==
    ASSUME LogIsTyped, NEW k \in Keys
    PROVE  Recoverable(k) \in Founds
<1>1. log \in Seq(Records) /\ Len(log) \in Nat
  BY RecordsHaveOwners
<1>2. PICK h : RedoneAlong(k, log, Applied, h) /\ RedoLog(k, log, Applied) = h[Len(log)]
  BY <1>1, RedoLogInSteps
<1>3. Len(log) \in 0 .. Len(log)
  BY <1>1
<1> QED
  BY <1>2, <1>3 DEF RedoneAlong, Recoverable

\* A commit redoes its transaction's record over what would have been recovered before it.
IsRecordOf(r, t) ==
    /\ r \in Records /\ r.changes = Logged(t)
    /\ r.lsn = (CHOOSE x \in Range(log) : x.txn = t).lsn
LEMMA RecoverableAfterCommit ==
    ASSUME MapInv, LogIsTyped, RecordsAreKept, PendingAreCurrent, NEW t \in Txns, Commit(t)
    PROVE  \E r : /\ IsRecordOf(r, t)
                  /\ \A k \in Keys : Recoverable(k)' = RedoRecord(k, Recoverable(k), r)
<1>0. Typed /\ ~corrupt /\ pc[t] = "logged" /\ log' = log
  BY DEF MapInv, Commit, Change
<1>1. pc \in [Txns -> Points]
  BY <1>0 DEF Typed, TypeOK
<1>2. /\ log \in Seq(Records) /\ DOMAIN log = 1 .. Len(log)
      /\ \A i \in DOMAIN log : log[i] \in Records /\ log[i].txn \in Txns
  BY RecordsHaveOwners
<1>3. \E x \in Range(log) : x.txn = t
  BY <1>0 DEF MapInv, PointsAreReal, PointOf
<1>4. PICK p \in DOMAIN log : log[p] = CHOOSE x \in Range(log) : x.txn = t
  BY <1>3 DEF Range
<1>5. log[p].txn = t
  BY <1>3, <1>4
<1>6. IsPending(p)
  BY <1>0, <1>5 DEF PendingAreCurrent
<1>7. IsRecordOf(log[p], t)
  BY <1>2, <1>4, <1>5, <1>6 DEF IsPending, IsRecordOf
<1>8. Applied' = Applied \cup {p} /\ p \notin Applied
  <2>1. pc' = [pc EXCEPT ![t] = "changed"]
    BY DEF Commit, Change, Goto
  <2>2. \A i \in DOMAIN log : log[i].txn = t => i = p
    BY <1>5 DEF RecordsAreKept
  <2>3. \A i \in DOMAIN log : pc'[log[i].txn] = IF i = p THEN "changed" ELSE pc[log[i].txn]
    BY <1>1, <1>2, <1>5, <2>1, <2>2
  <2> QED
    BY <1>0, <1>5, <2>3 DEF Applied
<1>9. ASSUME NEW k \in Keys
      PROVE  Recoverable(k)' = RedoRecord(k, Recoverable(k), log[p])
  <2>1. Touches(log[p], k) => \A j \in DOMAIN log : j > p => ~Touches(log[j], k)
    <3>1. log[p].changes = Logged(t)
      BY <1>7 DEF IsRecordOf
    <3>2. Touches(log[p], k) => k \in KeysOf(t)
      BY <1>0, <3>1, LoggedTells DEF On, KeysOf
    <3> QED
      BY <1>5, <1>6, <3>2 DEF IsPending
  <2>2. RedoLog(k, log, Applied \cup {p}) = RedoRecord(k, RedoLog(k, log, Applied), log[p])
    BY <1>2, <1>8, <2>1, RedoOfOneMore
  <2>3. Recoverable(k)' = RedoLog(k, log', Applied')
    BY DEF Recoverable
  <2> QED
    BY <1>0, <1>8, <2>2, <2>3 DEF Recoverable
<1> QED
  BY <1>7, <1>9

\* A step of t leaves alone what would be recovered of the rows that another has operations on.
LEMMA RecoverablesOfOthersStay ==
    ASSUME LogInv, ~corrupt, NEW t \in Txns, Steps(t), NEW s \in Txns, s # t, Unfinished(s),
           NEW k \in KeysOf(s)
    PROVE  Recoverable(k)' = Recoverable(k)
<1>0. MapInv /\ LogIsTyped /\ RecordsAreKept /\ PendingAreCurrent
  BY DEF LogInv
<1>1. k \in Keys
  BY <1>0, OpsMark
<1>2. CASE Commit(t)
  <2>1. Unfinished(t)
    BY <1>2 DEF Commit, Unfinished
  <2>2. k \notin KeysOf(t)
    <3> SUFFICES ASSUME k \in KeysOf(t) PROVE FALSE
      OBVIOUS
    <3>1. id[s] = id[t]
      BY <1>0, <2>1, OpsMark
    <3> QED
      BY <1>0, <2>1, <3>1, IdsTell
  <2>3. PICK r : /\ IsRecordOf(r, t)
                 /\ \A x \in Keys : Recoverable(x)' = RedoRecord(x, Recoverable(x), r)
    BY <1>0, <1>2, RecoverableAfterCommit
  <2>4. \A i \in DOMAIN ops[t] : FindsFirst(t, i)
    BY <2>1 DEF LogInv, FirstsAreFaithful
  <2>5. Recoverable(k) \in Founds
    BY <1>0, <1>1, RecoverablesAre
  <2>6. r \in Records /\ r.changes = Logged(t)
    BY <2>3 DEF IsRecordOf
  <2>7. RedoRecord(k, Recoverable(k), r) = Recoverable(k)
    BY <1>0, <1>1, <2>1, <2>2, <2>4, <2>5, <2>6, RedoOfLogged
  <2> QED
    BY <1>1, <2>3, <2>7
<1>3. CASE ~Commit(t)
  BY <1>0, <1>1, <1>3, RecoverableStays
<1> QED
  BY <1>2, <1>3

\* The first operation on a row stays the one that has found no mark there.
LEMMA FirstsStay ==
    ASSUME LogInv, NEW t \in Txns, Steps(t)
    PROVE  FirstsAreFaithful'
<1> SUFFICES ASSUME ~corrupt', NEW s \in Txns, Unfinished(s)', NEW i \in DOMAIN ops'[s]
             PROVE  FindsFirst(s, i)'
  BY DEF FirstsAreFaithful
<1>0. MapInv /\ LogIsTyped /\ RecordsAreKept
  BY DEF LogInv
<1>1. ~corrupt
  BY <1>0, LogStays
<1>2. /\ ops \in [Txns -> Seq(Ops)] /\ pc \in [Txns -> Points]
  BY <1>0 DEF MapInv, Typed, TypeOK
<1>3. ASSUME Unfinished(s), ops'[s] = ops[s],
             \A k \in KeysOf(s) : Recoverable(k)' = Recoverable(k)
      PROVE  FindsFirst(s, i)'
  <2>1. FindsFirst(s, i)
    BY <1>1, <1>3 DEF LogInv, FirstsAreFaithful
  <2>2. ops[s][i].key \in KeysOf(s)
    BY <1>3 DEF KeysOf
  <2>3. \A j : IsFirst(s, j)' <=> IsFirst(s, j)
    BY <1>3 DEF IsFirst, On
  <2>4. \A k \in Keys : ops[s][i].key = k => Recoverable(k)' = Recoverable(k)
    BY <1>3, <2>2
  <2> QED
    BY <1>3, <2>1, <2>3, <2>4 DEF FindsFirst
<1>4. CASE s # t
  <2>1. Unfinished(s) /\ ops'[s] = ops[s]
    BY <1>0, <1>4, OthersStay
  <2>2. \A k \in KeysOf(s) : Recoverable(k)' = Recoverable(k)
    BY <1>1, <1>4, <2>1, RecoverablesOfOthersStay
  <2> QED
    BY <1>3, <2>1, <2>2
<1>5. CASE s = t
  <2>0. ~Commit(t)
    BY <1>2, <1>5 DEF Commit, Change, Goto, Unfinished
  <2>1. \A k \in Keys : Recoverable(k)' = Recoverable(k)
    BY <1>0, <2>0, RecoverableStays
  <2>2. CASE ops'[t] = ops[t]
    <3>1. CASE Unfinished(t)
      <4>1. \A k \in KeysOf(t) : k \in Keys
        BY <1>0, <1>1, <3>1, OpsMark
      <4> QED
        BY <1>3, <1>5, <2>1, <2>2, <3>1, <4>1
    <3>2. CASE ~Unfinished(t)
      <4>1. pc[t] \in {"begin", "changed", "done"} /\ pc[t] # "changed" /\ pc[t] # "done"
        <5>1. pc[t] \in {"changed", "done"} => pc'[t] \in {"changed", "done"}
          BY <1>0, <2>0, RecordedGoOn
        <5> QED
          BY <1>5, <3>2, <5>1 DEF Unfinished
      <4>2. ops[t] = <<>>
        BY <1>0, <4>1 DEF MapInv, PointsAreReal, PointOf
      <4> QED
        BY <1>5, <2>2, <4>2
    <3> QED
      BY <3>1, <3>2
  <2>3. ASSUME NEW k \in Keys, NEW o, Extends(t, k, o), Unfinished(t)
        PROVE  FindsFirst(t, i)'
    <3> DEFINE n == Len(ops[t])
    <3>1. /\ n \in Nat /\ DOMAIN ops[t] = 1 .. n /\ DOMAIN ops'[t] = 1 .. n + 1
          /\ \A j \in 1 .. n : ops'[t][j] = ops[t][j]
          /\ ops'[t][n + 1] = o /\ o.key = k
      <4>1. ops[t] \in Seq(Ops) /\ ops'[t] = Append(ops[t], o) /\ o \in Ops /\ o.key = k
        BY <1>2, <2>3 DEF Extends
      <4> QED
        BY <4>1
    <3> HIDE DEF n
    <3>2. CASE i \in 1 .. n
      <4>1. FindsFirst(t, i)
        BY <1>1, <2>3, <3>1, <3>2 DEF LogInv, FirstsAreFaithful
      <4>3. IsFirst(t, i) => IsFirst(t, i)'
        <5> SUFFICES ASSUME IsFirst(t, i), NEW j \in 1 .. n + 1, ops'[t][j].key = ops[t][i].key
                     PROVE  i <= j
          BY <3>1, <3>2 DEF IsFirst, On
        <5>1. CASE j \in 1 .. n
          BY <3>1, <5>1 DEF IsFirst, On
        <5>2. CASE j = n + 1
          BY <3>1, <3>2, <5>2
        <5> QED
          BY <3>1, <5>1, <5>2
      <4>4. ops'[t][i] = ops[t][i]
        BY <3>1, <3>2
      <4> QED
        BY <2>1, <4>1, <4>3, <4>4 DEF FindsFirst
    <3>3. CASE i = n + 1
      <4> SUFFICES ASSUME o.op = "none"
                   PROVE  IsFirst(t, i)' /\ (o.kind # "insert" => o.id = Recoverable(k)'.lsn)
        BY <3>1, <3>3 DEF FindsFirst
      <4>1. rows[k].op = "none"
        BY <2>3 DEF Extends
      <4>2. k \notin KeysOf(t)
        BY <1>0, <1>1, <2>3, <4>1, OpsMark
      <4>3. IsFirst(t, i)'
        <5>1. \A j \in 1 .. n : ops[t][j].key # k
          BY <3>1, <4>2 DEF KeysOf
        <5>2. \A j \in 1 .. n + 1 : ops'[t][j].key = k => j = n + 1
          BY <3>1, <5>1
        <5> QED
          BY <3>1, <3>3, <5>2 DEF IsFirst, On
      <4>4. o.kind # "insert" => o.id = Recoverable(k).lsn
        <5>1. o.kind # "insert" => Present(rows[k]) /\ o.id = rows[k].id
          BY <2>3 DEF Extends
        <5>2. Agrees(k, rows[k], Recoverable(k), k \in retouched)
          BY <1>1 DEF LogInv, RowsAgree
        <5> QED
          BY <4>1, <5>1, <5>2 DEF Agrees
      <4> QED
        BY <2>1, <4>3, <4>4
    <3>4. i \in 1 .. n \/ i = n + 1
      BY <1>5, <3>1
    <3> QED
      BY <3>2, <3>3, <3>4
  <2>4. ops'[t] = ops[t] \/ \E k \in Keys : \E o : Extends(t, k, o) /\ Unfinished(t)
    <3>1. CASE Quiet(t)
      <4>1. ~Notify(t)
        BY <1>2, <1>5 DEF Notify, CanNotify, Unfinished
      <4> QED
        BY <3>1, <4>1 DEF Quiet, Begin, Sleep, Timeout, WriteRecord, GivesUp, Dangles, txns
    <3>2. CASE EndsIn(t) \/ Leaves(t)
      BY <3>2 DEF EndsIn, Change, Leaves
    <3>3. ASSUME NEW kind \in Kinds, NEW k \in Keys, Works(t, kind, k), Performed(t, kind, k)
          PROVE  ops'[t] = ops[t] \/ \E o : Extends(t, k, o) /\ Unfinished(t)
      <4>1. Unfinished(t)
        BY <3>3 DEF Works, Unfinished
      <4> QED
        BY <1>0, <3>3, <4>1, ChangesExtend DEF Performed, Rewritten
    <3>4. ASSUME NEW kind \in Kinds, NEW k \in Keys, Doze(t, kind, k)
          PROVE  ops'[t] = ops[t]
      BY <3>4 DEF Doze
    <3> QED
      BY <1>0, <3>1, <3>2, <3>3, <3>4, StepKinds
  <2> QED
    BY <1>5, <2>2, <2>3, <2>4
<1> QED
  BY <1>4, <1>5

-----------------------------------------------------------------------------
\* What becomes of the rows

\* A call changes a row so that readers go on to see what the log says.
LEMMA ChangeAgrees ==
    ASSUME MapInv, NEW t \in Txns, NEW x \in Keys, Changes(t, x),
           NEW k \in Keys, NEW found, NEW twice, Agrees(k, rows[k], found, twice)
    PROVE  Agrees(k, rows'[k], found, twice)
<1>1. Typed /\ rows \in [Keys -> Rows] /\ Value(t) # NoValue
  BY ValuesAre DEF MapInv, Typed, TypeOK
<1>2. CASE k # x
  <2>1. rows'[k] = rows[k]
    BY <1>1, <1>2 DEF Changes, Rewritten, Inserted, Marked, Mark
  <2> QED
    BY <2>1
<1>3. CASE k = x /\ Rewritten(t, k)
  <2>1. rows'[k].op = "insert" /\ rows[k].op = "insert"
    BY <1>1, <1>3 DEF Rewritten, Rows
  <2> QED
    BY <2>1 DEF Agrees, Shown
<1>4. CASE k = x /\ Inserted(t, k)
  <2>1. rows'[k].op = "insert" /\ ~Present(rows[k]) /\ rows[k] = NoRow
    BY <1>1, <1>4 DEF Inserted, Typed, TypeOK
  <2>2. rows[k].op = "none"
    BY <2>1, NoRowIsARow
  <2> QED
    BY <2>1, <2>2 DEF Agrees, Shown
<1>5. ASSUME NEW op \in Marks, k = x, Marked(t, k, op)
      PROVE  Agrees(k, rows'[k], found, twice)
  <2>1. rows'[k].op = op /\ rows'[k].val = rows[k].val
    BY <1>1, <1>5 DEF Marked, Mark, Rows
  <2>2. /\ op \in {"lock", "update", "delete", "deleted_insert"} /\ Present(rows[k])
        /\ rows[k].op # "deleted_insert" /\ (op = "deleted_insert" <=> rows[k].op = "insert")
    BY <1>5 DEF Marked
  <2>3. Present(rows'[k])
    BY <2>1, <2>2 DEF Present
  <2> QED
    BY <2>1, <2>2, <2>3 DEF Agrees, Shown
<1> QED
  BY <1>2, <1>3, <1>4, <1>5 DEF Changes

\* A rollback leaves each row as the log says it is.
LEMMA RollbackAgrees ==
    ASSUME LogInv, NEW t \in Txns, Rollback(t), ops[t] # <<>>, NEW k \in KeysOf(t)
    PROVE  Agrees(k, rows'[k], Recoverable(k), k \in retouched)
<1>0. Typed /\ MapInv /\ ~corrupt /\ Unfinished(t)
  BY DEF Rollback, LogInv, MapInv, Unfinished
<1>1. /\ \A i \in DOMAIN ops[t] : IsTraced(t, i) /\ FindsFirst(t, i)
      /\ DOMAIN ops[t] = 1 .. Len(ops[t])
  BY <1>0 DEF LogInv, FirstsAreFaithful, MapInv, OpsAreTraced, Typed, TypeOK
<1>2. k \in Keys /\ Present(rows[k])
  BY <1>0, OpsMark
<1>3. Agrees(k, rows[k], Recoverable(k), k \in retouched)
  BY <1>0, <1>2 DEF LogInv, RowsAgree
<1>4. rows' = RolledBackMap(t).rows
  BY DEF Rollback, Change
<1>5. PICK j \in On(t, k) : IsFirst(t, j) /\ rows'[k] = Restored(rows[k], ops[t][j])
  BY <1>0, <1>1, <1>4, RollbackOfAll
<1> DEFINE o == ops[t][j]
<1>6. j \in DOMAIN ops[t] /\ o.key = k
  BY DEF On
<1>7. CASE o.kind = "insert"
  <2>1. rows'[k] = NoRow
    BY <1>5, <1>7 DEF Restored
  <2>2. rows[k].op \in {"insert", "deleted_insert"}
    BY <1>1, <1>6, <1>7 DEF IsTraced
  <2>3. Recoverable(k).val = NoValue
    BY <1>3, <2>2 DEF Agrees, Shown
  <2> QED
    BY <1>3, <2>1, <2>3, NoRowIsARow DEF Agrees, Shown
<1>8. CASE o.kind # "insert"
  <2>1. rows'[k].val = rows[k].val /\ rows'[k].op = o.op /\ rows'[k].id = o.id
    BY <1>5, <1>8 DEF Restored
  <2>2. o.op = "none" /\ o.id = Recoverable(k).lsn
    BY <1>1, <1>2, <1>5, <1>6, <1>8 DEF IsTraced, FindsFirst
  <2>3. rows[k].op # "deleted_insert"
    <3> SUFFICES ASSUME rows[k].op = "deleted_insert" PROVE FALSE
      OBVIOUS
    <3>1. PICK l \in On(t, k) : ops[t][l].kind = "insert" /\ IsFirst(t, l)
      BY <1>0, DeletedInserts
    <3>2. l \in DOMAIN ops[t] /\ ops[t][l].key = k
      BY DEF On
    <3>3. l <= j /\ j <= l
      BY <1>5, <1>6, <3>1, <3>2 DEF IsFirst
    <3>4. l = j
      BY <1>1, <1>6, <3>2, <3>3
    <3> QED
      BY <1>8, <3>1, <3>4
  <2>4. rows[k].op # "insert"
    <3> SUFFICES ASSUME rows[k].op = "insert" PROVE FALSE
      OBVIOUS
    <3>1. PICK l \in On(t, k) : IsLast(t, l)
      BY <1>0, EndsOfList DEF Typed, TypeOK
    <3>2. l \in DOMAIN ops[t] /\ ops[t][l].key = k
      BY DEF On
    <3>3. ops[t][l].kind = "insert"
      BY <1>1, <3>1, <3>2 DEF IsTraced
    <3>4. l <= j /\ j <= l
      BY <1>1, <1>5, <1>6, <3>2, <3>3 DEF IsFirst, IsTraced
    <3>5. l = j
      BY <1>1, <1>6, <3>2, <3>4
    <3> QED
      BY <1>8, <3>3, <3>5
  <2> HIDE DEF o
  <2>5. Present(rows'[k])
    BY <1>2, <2>1 DEF Present
  <2> QED
    BY <1>2, <1>3, <2>1, <2>2, <2>3, <2>4, <2>5 DEF Agrees, Shown
<1> QED
  BY <1>7, <1>8

\* A commit leaves each row that its transaction has operations on as redo leaves it.
LEMMA CommitAgrees ==
    ASSUME LogInv, NEW t \in Txns, Commit(t), ~corrupt', NEW k \in KeysOf(t)
    PROVE  Agrees(k, rows'[k], Recoverable(k)', k \in retouched')
<1>0. Typed /\ MapInv /\ ~corrupt /\ Unfinished(t) /\ LogIsTyped /\ RecordsAreKept /\ PendingAreCurrent
  BY DEF Commit, LogInv, MapInv, Unfinished
<1>1. /\ \A i \in DOMAIN ops[t] : IsTraced(t, i) /\ FindsFirst(t, i)
      /\ DOMAIN ops[t] = 1 .. Len(ops[t])
  BY <1>0 DEF LogInv, FirstsAreFaithful, MapInv, OpsAreTraced, Typed, TypeOK
<1>2. k \in Keys /\ Present(rows[k]) /\ rows[k].op # "none"
  BY <1>0, OpsMark
<1>3. Agrees(k, rows[k], Recoverable(k), k \in retouched)
  BY <1>0, <1>2 DEF LogInv, RowsAgree
<1>4. PICK r : IsRecordOf(r, t) /\ Recoverable(k)' = RedoRecord(k, Recoverable(k), r)
  BY <1>0, <1>2, RecoverableAfterCommit
<1>5. r \in Records /\ r.changes = Logged(t) /\ r.lsn \in Nat
  BY <1>4 DEF IsRecordOf, Records
<1>6. rows' = CommittedMap(t, r.lsn).rows
  BY <1>4 DEF Commit, Change, IsRecordOf
<1>7. Settled(t, CommittedMap(t, r.lsn), k, r.lsn, Len(ops[t]))
  BY <1>0, <1>1, <1>5, CommitOfAll
<1>8. PICK j \in On(t, k) : ops[t][j].kind = rows[k].op /\ rows'[k] = Committed(rows[k], ops[t][j], r.lsn)
  BY <1>6, <1>7 DEF Settled
<1>9. PICK e \in On(t, k) : IsLast(t, e)
  BY <1>0, EndsOfList DEF Typed, TypeOK
<1>10. /\ j \in DOMAIN ops[t] /\ ops[t][j].key = k
       /\ e \in DOMAIN ops[t] /\ ops[t][e].key = k /\ ops[t][e].kind = rows[k].op
  <2>1. e \in DOMAIN ops[t] /\ ops[t][e].key = k /\ j \in DOMAIN ops[t] /\ ops[t][j].key = k
    BY DEF On
  <2> QED
    BY <1>1, <1>9, <2>1 DEF IsTraced
<1>11. Recoverable(k) \in Founds
  BY <1>0, <1>2, RecoverablesAre
<1>12. /\ ops[t][e].kind = "lock" => Recoverable(k)' = Recoverable(k)
       /\ ops[t][e].kind \in {"delete", "deleted_insert"} => Recoverable(k)' = NotThere
       /\ ops[t][e].kind = "update" => Recoverable(k)' = [val |-> ops[t][e].val, lsn |-> r.lsn]
       /\ ops[t][e].kind = "insert" /\ Recoverable(k) = NotThere =>
             Recoverable(k)' = [val |-> rows[k].val, lsn |-> r.lsn]
  BY <1>0, <1>1, <1>2, <1>4, <1>5, <1>9, <1>11, RedoOfLogged
<1>13. ops[t][j].val # NoValue /\ ops[t][e].val # NoValue
  BY <1>1, <1>10 DEF IsTraced
<1>14. retouched' = (retouched \ (KeysOf(t) \ Locked(t))) \cup Retouched(t)
  BY DEF Commit
<1>15. CASE rows[k].op = "lock"
  <2>1. rows'[k] = [val |-> rows[k].val, op |-> "none", id |-> ops[t][j].id]
    BY <1>8, <1>15 DEF Committed
  <2>2. ops[t][j].id = Recoverable(k).lsn
    BY <1>1, <1>2, <1>8, <1>10, <1>15 DEF IsTraced, FindsFirst
  <2>3. Recoverable(k)' = Recoverable(k)
    BY <1>10, <1>12, <1>15
  <2>4. k \in retouched => k \in retouched'
    BY <1>14, <1>15 DEF Locked
  <2>5. Present(rows'[k]) /\ Shown(rows'[k]) /\ Shown(rows[k])
    BY <1>2, <1>15, <2>1 DEF Present, Shown
  <2> QED
    BY <1>3, <1>15, <2>1, <2>2, <2>3, <2>4, <2>5 DEF Agrees
<1>16. CASE rows[k].op \in {"delete", "deleted_insert"}
  <2>1. rows'[k] = NoRow /\ Recoverable(k)' = NotThere
    BY <1>8, <1>10, <1>12, <1>16 DEF Committed
  <2> QED
    BY <2>1, NoRowIsARow DEF Agrees, Shown, NotThere
<1>17. CASE rows[k].op = "update"
  <2>1. rows'[k] = [val |-> ops[t][j].val, op |-> "none", id |-> r.lsn]
    BY <1>8, <1>17 DEF Committed
  <2>2. Recoverable(k)' = [val |-> ops[t][e].val, lsn |-> r.lsn]
    BY <1>10, <1>12, <1>17
  <2>3. k \notin retouched' => j = e
    <3> SUFFICES ASSUME j # e PROVE k \in Retouched(t)
      BY <1>14
    <3>1. j \in Listed(t, k, "update") /\ e \in Listed(t, k, "update")
      BY <1>8, <1>10, <1>17 DEF Listed
    <3> QED
      BY <1>0, <1>2, <3>1, TwoAreMoreThanOne DEF Retouched
  <2>4. Present(rows'[k]) /\ Shown(rows'[k])
    BY <1>13, <2>1 DEF Present, Shown
  <2> QED
    BY <1>13, <2>1, <2>2, <2>3, <2>4 DEF Agrees
<1>18. CASE rows[k].op = "insert"
  <2>1. rows'[k] = [val |-> rows[k].val, op |-> "none", id |-> r.lsn]
    BY <1>8, <1>18 DEF Committed
  <2>2. Recoverable(k) = NotThere
    BY <1>3, <1>18 DEF Agrees, Shown
  <2>3. Recoverable(k)' = [val |-> rows[k].val, lsn |-> r.lsn]
    BY <1>10, <1>12, <1>18, <2>2
  <2>4. Present(rows'[k]) /\ Shown(rows'[k])
    BY <1>2, <2>1 DEF Present, Shown
  <2>5. rows[k].val # NoValue
    BY <1>2 DEF Present
  <2> QED
    BY <2>1, <2>3, <2>4, <2>5 DEF Agrees
<1>19. rows[k].op \in Marks
  BY <1>0, <1>2 DEF Typed, TypeOK, Rows
<1> QED
  BY <1>2, <1>15, <1>16, <1>17, <1>18, <1>19 DEF Marks

\* Readers go on to see what the log says.
LEMMA RowsStay ==
    ASSUME LogInv, NEW t \in Txns, Steps(t)
    PROVE  RowsAgree'
<1> SUFFICES ASSUME ~corrupt', NEW k \in Keys
             PROVE  Agrees(k, rows'[k], Recoverable(k)', k \in retouched')
  BY DEF RowsAgree
<1>0. MapInv /\ LogIsTyped /\ RecordsAreKept /\ PendingAreCurrent
  BY DEF LogInv
<1>1. ~corrupt
  BY <1>0, LogStays
<1>2. Agrees(k, rows[k], Recoverable(k), k \in retouched)
  BY <1>1 DEF LogInv, RowsAgree
<1>3. CASE Commit(t)
  <2>1. CASE k \in KeysOf(t)
    BY <1>3, <2>1, CommitAgrees
  <2>2. CASE k \notin KeysOf(t)
    <3>1. rows'[k] = rows[k]
      <4>1. PICK m : Ends(t, m) /\ Change(t, m)
        BY <1>0, <1>3, CommitEnds
      <4> QED
        BY <2>2, <4>1 DEF Ends, Change
    <3>2. Unfinished(t)
      BY <1>3 DEF Commit, Unfinished
    <3>3. PICK r : IsRecordOf(r, t) /\ Recoverable(k)' = RedoRecord(k, Recoverable(k), r)
      BY <1>0, <1>3, RecoverableAfterCommit
    <3>4. \A i \in DOMAIN ops[t] : FindsFirst(t, i)
      BY <1>1, <3>2 DEF LogInv, FirstsAreFaithful
    <3>5. Recoverable(k) \in Founds /\ r \in Records /\ r.changes = Logged(t)
      BY <1>0, <3>3, RecoverablesAre DEF IsRecordOf
    <3>6. Recoverable(k)' = Recoverable(k)
      BY <1>0, <1>1, <2>2, <3>2, <3>3, <3>4, <3>5, RedoOfLogged
    <3>7. k \in retouched' <=> k \in retouched
      BY <1>3, <2>2 DEF Commit, Retouched
    <3> QED
      BY <1>2, <3>1, <3>6, <3>7
  <2> QED
    BY <2>1, <2>2
<1>4. CASE ~Commit(t)
  <2>1. Recoverable(k)' = Recoverable(k)
    BY <1>0, <1>4, RecoverableStays
  <2>2. retouched' = retouched
    BY <1>4 DEF Steps, Quiet, Begin, Sleep, Timeout, WriteRecord, Notify, GivesUp, Dangles,
                Rollback, Works
  <2>3. CASE Rollback(t)
    <3>1. CASE ops[t] # <<>> /\ k \in KeysOf(t)
      <4>1. Agrees(k, rows'[k], Recoverable(k), k \in retouched)
        BY <2>3, <3>1, RollbackAgrees
      <4> QED
        BY <2>1, <2>2, <4>1
    <3>2. CASE ops[t] # <<>> /\ k \notin KeysOf(t)
      <4>1. PICK m : Ends(t, m) /\ Change(t, m)
        BY <1>0, <2>3, <3>2, RollbackEnds
      <4>2. rows'[k] = rows[k]
        BY <3>2, <4>1 DEF Ends, Change
      <4> QED
        BY <1>2, <2>1, <2>2, <4>2
    <3>3. CASE ops[t] = <<>>
      <4>1. rows' = rows
        BY <2>3, <3>3 DEF Rollback, map
      <4> QED
        BY <1>2, <2>1, <2>2, <4>1
    <3> QED
      BY <3>1, <3>2, <3>3
  <2>4. CASE Quiet(t)
    <3>1. rows' = rows
      BY <2>4 DEF Quiet, Begin, Sleep, Timeout, WriteRecord, Notify, GivesUp, Dangles, map
    <3> QED
      BY <1>2, <2>1, <2>2, <3>1
  <2>5. ASSUME NEW kind \in Kinds, NEW x \in Keys, Works(t, kind, x)
        PROVE  Agrees(k, rows'[k], Recoverable(k), k \in retouched)
    <3>1. Performed(t, kind, x) \/ Doze(t, kind, x)
      BY <1>0, <2>5, CallsPerform DEF MapInv
    <3>2. rows' = rows \/ Changes(t, x)
      BY <3>1 DEF Performed, Doze
    <3> QED
      BY <1>0, <1>2, <3>2, ChangeAgrees
  <2> QED
    BY <1>4, <2>1, <2>2, <2>3, <2>4, <2>5 DEF Steps
<1> QED
  BY <1>3, <1>4

-----------------------------------------------------------------------------
\* The invariant

\* What recovery has left agrees with an empty log.
LEMMA LogInvAtTheStart == Init => LogInv
<1> SUFFICES ASSUME Init PROVE LogInv
  OBVIOUS
<1>1. MapInv
  BY MapInvAtTheStart
<1>2. /\ log = <<>> /\ rows = FirstRows /\ \A t \in Txns : pc[t] = "begin"
  BY DEF Init
<1>3. LogIsTyped /\ RecordsAreKept /\ PendingAreCurrent
  BY <1>2 DEF LogIsTyped, RecordsAreKept, PendingAreCurrent
<1>4. FirstsAreFaithful
  BY <1>2 DEF FirstsAreFaithful, Unfinished
<1>5. ASSUME NEW k \in Keys
      PROVE  Agrees(k, rows[k], Recoverable(k), k \in retouched)
  <2>1. Recoverable(k) = FirstFound(k)
    <3>1. PICK h : RedoneAlong(k, log, Applied, h) /\ RedoLog(k, log, Applied) = h[Len(log)]
      BY <1>3, RecordsHaveOwners, RedoLogInSteps
    <3>2. Len(log) = 0
      BY <1>2
    <3> QED
      BY <3>1, <3>2 DEF RedoneAlong, Recoverable
  <2>2. rows[k] = FirstRows[k] /\ FirstFound(k) = [val |-> FirstRows[k].val, lsn |-> FirstRows[k].id]
    BY <1>2 DEF FirstFound
  <2>3. FirstFound(k).val = NoValue => FirstFound(k) = NotThere
    BY FirstFounds
  <2>4. rows[k].op = "none"
    BY <1>2 DEF FirstRows, Recoveree, NoRow
  <2> QED
    BY <2>1, <2>2, <2>3, <2>4 DEF Agrees, Shown, Present
<1> QED
  BY <1>1, <1>3, <1>4, <1>5 DEF LogInv, RowsAgree

\* A step that changes nothing keeps the invariant.
LEMMA LogInvStutters ==
    ASSUME LogInv, UNCHANGED vars
    PROVE  LogInv'
<1>1. MapInv'
  BY MapInvStutters DEF LogInv
<1>2. /\ rows' = rows /\ log' = log /\ pc' = pc /\ ops' = ops /\ retouched' = retouched
      /\ corrupt' = corrupt
  BY DEF vars, map, txns
<1>3. /\ Applied' = Applied
      /\ \A t \in Txns : Unfinished(t)' = Unfinished(t) /\ KeysOf(t)' = KeysOf(t)
      /\ \A t \in Txns : \A i : IsFirst(t, i)' = IsFirst(t, i)
  BY <1>2 DEF Applied, Unfinished, KeysOf, IsFirst, On
<1>4. ASSUME NEW k \in Keys PROVE Recoverable(k)' = Recoverable(k)
  <2>1. Recoverable(k)' = RedoLog(k, log', Applied')
    BY DEF Recoverable
  <2> QED
    BY <1>2, <1>3, <2>1 DEF Recoverable
<1>5. \A t \in Txns : Logged(t)' = Logged(t)
  BY <1>2, LoggedStays DEF LogInv, MapInv
<1>6. LogIsTyped' /\ RecordsAreKept'
  BY <1>2 DEF LogInv, LogIsTyped, RecordsAreKept
<1>7. PendingAreCurrent'
  <2> SUFFICES ASSUME ~corrupt, NEW i \in DOMAIN log, pc[log[i].txn] = "logged"
               PROVE  IsPending(i)'
    BY <1>2 DEF PendingAreCurrent
  <2>1. IsPending(i)
    BY DEF LogInv, PendingAreCurrent
  <2> PICK t \in Txns : log[i].txn = t
    BY RecordsHaveOwners DEF LogInv
  <2>2. log'[i].txn = t /\ Logged(t)' = Logged(t) /\ KeysOf(t)' = KeysOf(t)
    BY <1>2, <1>3, <1>5
  <2> QED
    BY <1>2, <2>1, <2>2 DEF IsPending
<1>8. FirstsAreFaithful'
  <2>1. \A t \in Txns : \A i : FindsFirst(t, i) => FindsFirst(t, i)'
    BY <1>2, <1>3, <1>4 DEF FindsFirst
  <2> QED
    BY <1>2, <1>3, <2>1 DEF LogInv, FirstsAreFaithful
<1>9. RowsAgree'
  BY <1>2, <1>4 DEF LogInv, RowsAgree
<1> QED
  BY <1>1, <1>6, <1>7, <1>8, <1>9 DEF LogInv

\* Every step keeps the invariant.
LEMMA LogInvIsKept == LogInv /\ [Next]_vars => LogInv'
<1>1. ASSUME LogInv, NEW t \in Txns, Steps(t)
      PROVE  LogInv'
  <2>1. MapInv /\ LogIsTyped /\ RecordsAreKept /\ PendingAreCurrent
    BY <1>1 DEF LogInv
  <2>2. MapInv'
    <3>1. Typed' /\ IdsAreDistinct' /\ PointsAreReal' /\ OpsAreTraced' /\ MarksAreHeld'
      BY <1>1, <2>1, TypesStay, IdsStay, PointsStay, TracesStay, MarksStay
    <3>2. /\ AskedIsLocked' /\ SleepersHaveReason' /\ IteratorsPoint'
          /\ StaleIteratorsAreNoticed' /\ CorruptionHasACause'
      BY <1>1, <2>1, AskedStay, SleepersStay, IteratorsStay, StaleStays, CauseStays
    <3> QED
      BY <3>1, <3>2 DEF MapInv
  <2>3. LogIsTyped' /\ RecordsAreKept' /\ PendingAreCurrent'
    BY <1>1, <2>1, LogTypeStays, RecordsStay, PendingStay
  <2>4. FirstsAreFaithful' /\ RowsAgree'
    BY <1>1, FirstsStay, RowsStay
  <2> QED
    BY <2>2, <2>3, <2>4 DEF LogInv
<1>2. LogInv => MapInv
  BY DEF LogInv
<1> QED
  BY <1>1, <1>2, NextSteps, LogInvStutters

\* The map that readers without a transaction see is the one that recovery would make of
\* the log of the transactions that have committed to it: no change of an unfinished or
\* rolled back transaction shows, every committed one does, and an unmarked row carries
\* the LSN of the commit it comes from.
THEOREM MapFollowsTheLog == Spec => []MapIsWhatTheLogSays
<1>1. LogInv => MapIsWhatTheLogSays
  <2> SUFFICES ASSUME LogInv, ~corrupt, NEW k \in Keys \ retouched, rows[k].op # "deleted_insert"
               PROVE  Faithful(k)
    BY DEF MapIsWhatTheLogSays
  <2>1. Agrees(k, rows[k], Recoverable(k), FALSE)
    BY DEF LogInv, RowsAgree, Agrees
  <2> QED
    BY <2>1 DEF Agrees, Faithful, Visible
<1> QED
  BY <1>1, LogInvAtTheStart, LogInvIsKept, PTL DEF Spec

=============================================================================

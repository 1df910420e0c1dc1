--------------------------- MODULE TransTreeProofs ---------------------------
(***************************************************************************)
(* Proofs about TransTree: transactions on the tree are isolated, their    *)
(* pointers stay good, and the log brings the rows back as far as recovery *)
(* gets, but for the known departures.                                     *)
(***************************************************************************)
EXTENDS TransTree, TLAPS, NaturalsInduction, WellFoundedInduction

Names == (Txns \cup {NoTxn}) \X Nat
Marks == {"insert", "update", "delete", "deleted_insert"}
Nodes == [key : Keys, val : Names, op : Marks \cup {"none"}, id : Txns \cup {NoTxn}]
Operations ==
    [kind : Marks, entry : Names, new : Names \cup {NoNode}, op : Marks \cup {"none"},
     id : Txns \cup {NoTxn}]
LoggedChanges == [kind : {"insert", "update", "delete"}, key : Keys, val : Names]

Typed ==
    /\ tree \in [Keys -> Names \cup {NoNode}]
    /\ log \in Seq(Seq(LoggedChanges))
    /\ pc \in [Txns -> {"active", "logged", "done"}]
    /\ changes \in [Txns -> [Keys -> Names \cup {NoNode}]]
    /\ ops \in [Txns -> Seq(Operations)]
    /\ made \in [Txns -> Nat]
    /\ looked \in [Txns -> SUBSET Operations]
    /\ DOMAIN intent = Txns
    /\ \A t \in Txns : DOMAIN intent[t] \subseteq Keys
    /\ DOMAIN committed = Keys

\* The names that have been given to nodes, and that none will be given again.
Given(n) == n[1] \in Txns => n[2] <= made[n[1]]
IsMarkedRight(node) == node.op = "none" <=> node.id = NoTxn
HeapOK ==
    /\ DOMAIN heap \subseteq Names
    /\ \A n \in DOMAIN heap : heap[n] \in Nodes /\ IsMarkedRight(heap[n]) /\ Given(n)
TreeOK == \A k \in Keys : Linked(k) => tree[k] \in DOMAIN heap /\ Row(k).key = k
ChangesOK ==
    \A t \in Txns, k \in Keys : changes[t][k] # NoNode =>
        /\ changes[t][k] \in DOMAIN heap /\ heap[changes[t][k]].key = k
        /\ changes[t][k][1] = t /\ changes[t][k] # tree[k] /\ Unfinished(t)
UpdatesOK ==
    \A n \in DOMAIN heap, t \in Txns :
        heap[n].op = "update" /\ heap[n].id = t /\ Unfinished(t) => changes[t][heap[n].key] # NoNode

OpsOK(t) ==
    /\ \A i \in DOMAIN ops[t] :
          LET o == ops[t][i]
          IN /\ IsMarkedRight(o) /\ o.id \in {t, NoTxn} /\ Given(o.entry)
             /\ o.kind = "update" => o.new \in Names
             /\ (\A k \in Keys : ~Wild(k)) => o.entry \in DOMAIN heap
    /\ ~Unfinished(t) => ops[t] = <<>> /\ ChangedKeys(t) = {}
\* Who has looked at a node and not marked it yet holds the tree's lock: the node
\* stays in its place, in the tree or among the pending changes.
IsShown(t, o, k) ==
    \/ o.entry = tree[k] /\ o.op # "update"
    \/ o.entry = changes[t][k] /\ o.entry # tree[k]
LookedOK(t) ==
    \A o \in looked[t] :
        /\ pc[t] = "active" /\ IsMarkedRight(o) /\ o.id \in {t, NoTxn}
        /\ o.entry \in DOMAIN heap
        /\ \E k \in Keys : IsAbout(o, k) /\ IsShown(t, o, k)
        /\ \/ o.kind = "update" /\ o.op \in {"none", "update"} /\ o.new = New(t)
           \/ o.kind = "deleted_insert" /\ o.op = "insert"
           \/ o.kind = "delete" /\ o.op \in {"none", "update"}

\* The operations of t on the nodes of a key.
On(t, k) ==
    {i \in DOMAIN ops[t] : ops[t][i].entry \in DOMAIN heap /\ heap[ops[t][i].entry].key = k}
Holds(t, k) == Linked(k) /\ Row(k).id = t
KeyOK(k) ==
    \A t \in Txns :
        /\ Holds(t, k) <=> k \in ChangedKeys(t)
        /\ Holds(t, k) => Unfinished(t)
        /\ Holds(t, k) => \E i \in On(t, k) : ops[t][i].entry = tree[k] /\ ops[t][i].kind = Row(k).op
        /\ Holds(t, k) /\ Row(k).op = "deleted_insert" =>
              \E i \in On(t, k) : ops[t][i].entry = tree[k] /\ ops[t][i].kind = "insert"
        /\ changes[t][k] # NoNode =>
              Holds(t, k) /\ Row(k).op = "update" /\ heap[changes[t][k]].op \in {"none", "delete"}
\* What an operation of t on a row that t holds can be.
Fits(t, o, k) ==
    /\ Holds(t, k)
    /\ \/ /\ o.entry = tree[k]
          /\ \/ o.kind = "insert" /\ Row(k).op \in {"insert", "deleted_insert"}
             \/ o.kind = "deleted_insert" /\ Row(k).op = "deleted_insert"
             \/ o.kind = "delete" /\ Row(k).op = "delete" /\ o.op = "none"
             \/ o.kind = "update" /\ Row(k).op = "update" /\ o.op = "none" /\ o.new = changes[t][k]
       \/ /\ o.kind \in {"update", "delete"} /\ o.entry = changes[t][k] /\ Row(k).op = "update"
          /\ o.kind = "delete" => heap[changes[t][k]].op = "delete"
ListOK(t, k) ==
    \A i \in On(t, k) :
        /\ Fits(t, ops[t][i], k)
        /\ \A j \in On(t, k) : i < j /\ ops[t][j].entry = tree[k] =>
              ops[t][i].kind = "insert" /\ ops[t][j].kind = "deleted_insert"

\* What the row of a key is like for readers, for the transaction that holds it, and for recovery.
Shows(k) ==
    /\ committed[k] = IF ErasedInsert(k) THEN NoValue ELSE Visible(k)
    /\ \A t \in Txns : k \in ChangedKeys(t) =>
          /\ Row(k).op = "insert" => intent[t][k] = Row(k).val
          /\ Row(k).op = "update" =>
                intent[t][k] = heap[changes[t][k]].val /\ heap[changes[t][k]].op = "none"
          /\ Row(k).op \in {"delete", "deleted_insert"} => intent[t][k] = NoValue
BroughtBack(k, v) ==
    IF LoggedDelete(k) THEN Recovered(k) = Halted
    ELSE /\ Recovered(k) # Halted
         /\ Recovered(k) = v \/ (LastIsUpdate(k) /\ Recovered(k) # NoValue /\ v # NoValue)
HasLogged(t, k) == pc[t] = "logged" /\ k \in ChangedKeys(t)
LogOK(k) ==
    /\ (\A t \in Txns : ~HasLogged(t, k)) => BroughtBack(k, committed[k])
    /\ \A t \in Txns : HasLogged(t, k) => BroughtBack(k, intent[t][k])

Sound ==
    /\ Typed /\ HeapOK /\ TreeOK /\ ChangesOK /\ UpdatesOK
    /\ \A t \in Txns : OpsOK(t) /\ LookedOK(t)
    /\ \A k \in Keys : ~Wild(k) => KeyOK(k) /\ \A t \in Txns : ListOK(t, k)
    /\ \A k \in Keys : ~Departed(k) => Shows(k) /\ LogOK(k)
Known == {"rewritten", "raced", "half_erased"} \X Keys
TreeInv ==
    /\ corrupt \in BOOLEAN /\ departed \subseteq Known
    /\ corrupt => \E k \in Keys : Wild(k)
    /\ ~corrupt => Sound

\* What nobody is: a name.
LEMMA NobodyIsNamed ==
    /\ NoNode \notin Names /\ NoValue \notin Names /\ NoTxn \notin Txns
    /\ Halted \notin Names /\ NoValue # Halted
BY NobodyAssumption DEF Names

-----------------------------------------------------------------------------
\* Lemmas about iterations

\* The least of some numbers.
LEMMA LeastOfNats ==
    ASSUME NEW S, S \subseteq Nat, S # {}
    PROVE  \E x \in S : \A y \in S : x <= y
<1> DEFINE R == {m \in Nat \X Nat : m[1] < m[2]}
<1>1. IsWellFoundedOn(R, Nat)
  BY NatLessThanWellFounded DEF OpToRel
<1> HIDE DEF R
<1>2. PICK x \in S : \A y \in S : ~(<<y, x>> \in R)
  BY <1>1, WFMin
<1>3. \A y \in S : ~(y < x)
  BY <1>2 DEF R
<1> QED
  BY <1>3

\* What holds of 0 and of the number after each that it holds of, holds up to n.
LEMMA UpTo ==
    ASSUME NEW n \in Nat, NEW S, S \subseteq 0 .. n, 0 \in S,
           \A i \in 0 .. n : i \in S /\ i < n => i + 1 \in S
    PROVE  S = 0 .. n
<1> SUFFICES ASSUME (0 .. n) \ S # {} PROVE FALSE
  OBVIOUS
<1> DEFINE C == (0 .. n) \ S
<1>0. C \subseteq Nat /\ C # {}
  OBVIOUS
<1>1. PICK x \in C : \A y \in C : x <= y
  <2> HIDE DEF C
  <2> QED
    BY <1>0, LeastOfNats
<1>2. x - 1 \in 0 .. n /\ x - 1 < n /\ x - 1 \notin (0 .. n) \ S
  BY <1>1
<1>3. (x - 1) + 1 \in S
  BY <1>2
<1> QED
  BY <1>1, <1>3

\* The iterations of the model: over the operations of a list, over the changes of a record,
\* and over the records of the log.
Step(w, x, i) ==
    CASE w.kind = "commit"   -> CommitOp(x, w.list[i])
      [] w.kind = "rollback" -> RollbackOp(x, w.list[Len(w.list) + 1 - i])
      [] w.kind = "record"   -> IF w.list[i].key = w.key THEN Redone(x, w.list[i]) ELSE x
      [] w.kind = "log"      -> RedoRecord(w.key, x, w.list[i])
Work(kind, list, key) == [kind |-> kind, list |-> list, key |-> key]
Runs(w, n, base, g) == g[0] = base /\ \A i \in 1 .. n : g[i] = Step(w, g[i - 1], i)
Goes(w, n, base, f) == f = [i \in 0 .. n |-> IF i = 0 THEN base ELSE Step(w, f[i - 1], i)]

\* Such an iteration exists, and goes from step to step.
LEMMA ItRuns ==
    ASSUME NEW w, NEW n \in Nat, NEW base
    PROVE  Runs(w, n, base, CHOOSE f : Goes(w, n, base, f))
<1> DEFINE Partial(m, g) == DOMAIN g = 0 .. m /\ Runs(w, m, base, g)
           S == {m \in 0 .. n : \E g : Partial(m, g)}
<1>1. 0 \in S
  <2>1. Partial(0, [i \in 0 .. 0 |-> base])
    BY DEF Runs
  <2>2. 0 \in 0 .. n
    OBVIOUS
  <2> QED
    BY <2>1, <2>2
<1>2. ASSUME NEW m \in 0 .. n, m \in S, m < n
      PROVE  m + 1 \in S
  <2>1. PICK g : Partial(m, g)
    BY <1>2
  <2> DEFINE f == [i \in 0 .. m + 1 |-> IF i <= m THEN g[i] ELSE Step(w, g[i - 1], i)]
  <2>2. DOMAIN f = 0 .. m + 1 /\ f[0] = base
    BY <2>1 DEF Runs
  <2>3. \A i \in 1 .. m + 1 : f[i] = Step(w, f[i - 1], i)
    <3> TAKE i \in 1 .. m + 1
    <3>1. i - 1 \in 0 .. m /\ i \in 0 .. m + 1 /\ i - 1 \in 0 .. m + 1
      OBVIOUS
    <3>2. f[i - 1] = g[i - 1]
      BY <3>1
    <3>3. CASE i <= m
      <4>1. i \in 1 .. m /\ f[i] = g[i]
        BY <3>1, <3>3
      <4> HIDE DEF f
      <4> QED
        BY <2>1, <3>2, <4>1 DEF Runs
    <3>4. CASE ~(i <= m)
      <4>1. f[i] = Step(w, g[i - 1], i)
        BY <3>1, <3>4
      <4> HIDE DEF f
      <4> QED
        BY <3>2, <4>1
    <3> QED
      BY <3>3, <3>4
  <2>4. m + 1 \in 0 .. n
    BY <1>2
  <2>5. Partial(m + 1, f)
    <3> HIDE DEF f
    <3> QED
      BY <2>2, <2>3 DEF Runs
  <2> QED
    BY <2>4, <2>5
<1>3. PICK g : Partial(n, g)
  <2> HIDE DEF S
  <2>1. S \subseteq 0 .. n
    BY DEF S
  <2>2. \A i \in 0 .. n : i \in S /\ i < n => i + 1 \in S
    BY <1>2
  <2>3. S = 0 .. n
    BY <1>1, <2>1, <2>2, UpTo
  <2>4. n \in S
    BY <2>3
  <2> QED
    BY <2>4 DEF S
<1>4. Goes(w, n, base, [i \in 0 .. n |-> g[i]])
  <2> DEFINE f == [i \in 0 .. n |-> g[i]]
  <2>1. \A i \in 0 .. n : f[i] = IF i = 0 THEN base ELSE Step(w, f[i - 1], i)
    <3> TAKE i \in 0 .. n
    <3>1. CASE i = 0
      BY <1>3, <3>1 DEF Runs
    <3>2. CASE i # 0
      <4>1. i \in 1 .. n /\ i - 1 \in 0 .. n
        BY <3>2
      <4>2. f[i] = g[i] /\ f[i - 1] = g[i - 1]
        BY <4>1
      <4>3. g[i] = Step(w, g[i - 1], i)
        BY <1>3, <4>1 DEF Runs
      <4> HIDE DEF f
      <4> QED
        BY <3>2, <4>2, <4>3
    <3> QED
      BY <3>1, <3>2
  <2>2. f = [i \in 0 .. n |-> f[i]]
    OBVIOUS
  <2>3. Goes(w, n, base, f)
    <3> HIDE DEF f
    <3> QED
      BY <2>1, <2>2 DEF Goes
  <2> QED
    BY <2>3
<1> DEFINE h == CHOOSE f : Goes(w, n, base, f)
<1>5. Goes(w, n, base, h)
  BY <1>4
<1> HIDE DEF h
<1>6. \A i \in 0 .. n : h[i] = IF i = 0 THEN base ELSE Step(w, h[i - 1], i)
  BY <1>5 DEF Goes
<1>7. 0 \in 0 .. n /\ \A i \in 1 .. n : i \in 0 .. n /\ i # 0
  OBVIOUS
<1>8. Runs(w, n, base, h)
  BY <1>6, <1>7 DEF Runs
<1> QED
  BY <1>8 DEF h

\* Two iterations are the same as long as their steps are.
LEMMA RunsAlike ==
    ASSUME NEW v, NEW w, NEW n \in Nat, NEW base, NEW g, NEW h,
           Runs(v, n, base, g), Runs(w, n, base, h),
           \A i \in 1 .. n : \A x : Step(v, x, i) = Step(w, x, i)
    PROVE  g[n] = h[n]
<1> DEFINE S == {i \in 0 .. n : g[i] = h[i]}
<1>1. 0 \in S /\ S \subseteq 0 .. n
  BY DEF Runs
<1>2. ASSUME NEW i \in 0 .. n, i \in S, i < n
      PROVE  i + 1 \in S
  <2>1. i + 1 \in 1 .. n /\ (i + 1) - 1 = i /\ i + 1 \in 0 .. n
    BY <1>2
  <2>2. g[i + 1] = Step(v, g[i], i + 1) /\ h[i + 1] = Step(w, h[i], i + 1)
    BY <2>1 DEF Runs
  <2> QED
    BY <1>2, <2>1, <2>2
<1>3. S = 0 .. n
  <2> HIDE DEF S
  <2> QED
    BY <1>1, <1>2, UpTo
<1>4. n \in S
  <2> HIDE DEF S
  <2> QED
    BY <1>3
<1> QED
  BY <1>4

\* What is the same from step to step is the same at the end.
LEMMA Unmoved ==
    ASSUME NEW h, NEW a \in Nat, NEW b \in Nat, a <= b, \A i \in a + 1 .. b : h[i] = h[i - 1]
    PROVE  h[b] = h[a]
<1> DEFINE S == {d \in 0 .. b - a : h[a + d] = h[a]}
<1>1. b - a \in Nat /\ S \subseteq 0 .. b - a /\ 0 \in S
  OBVIOUS
<1>2. ASSUME NEW d \in 0 .. b - a, d \in S, d < b - a
      PROVE  d + 1 \in S
  <2>1. a + (d + 1) \in a + 1 .. b /\ (a + (d + 1)) - 1 = a + d /\ d + 1 \in 0 .. b - a
    BY <1>2
  <2> QED
    BY <1>2, <2>1
<1>3. S = 0 .. b - a
  <2> HIDE DEF S
  <2> QED
    BY <1>1, <1>2, UpTo
<1>4. b - a \in S /\ a + (b - a) = b
  <2>1. b - a \in 0 .. b - a /\ a + (b - a) = b
    BY <1>1
  <2> HIDE DEF S
  <2> QED
    BY <1>3, <2>1
<1> QED
  BY <1>4

\* What holds at a step and then at each that follows one where it holds, holds at the end.
LEMMA AllTheWay ==
    ASSUME NEW R, NEW a \in Nat, NEW b \in Nat, a <= b, a \in R, \A i \in a + 1 .. b : i - 1 \in R => i \in R
    PROVE  b \in R
<1> DEFINE S == {d \in 0 .. b - a : a + d \in R}
<1>1. b - a \in Nat /\ S \subseteq 0 .. b - a /\ 0 \in S
  OBVIOUS
<1>2. ASSUME NEW d \in 0 .. b - a, d \in S, d < b - a
      PROVE  d + 1 \in S
  <2>1. a + (d + 1) \in a + 1 .. b /\ (a + (d + 1)) - 1 = a + d /\ d + 1 \in 0 .. b - a
    BY <1>2
  <2>2. a + (d + 1) \in R
    BY <1>2, <2>1
  <2> QED
    BY <2>1, <2>2
<1>3. S = 0 .. b - a
  <2> HIDE DEF S
  <2> QED
    BY <1>1, <1>2, UpTo
<1>4. b - a \in S /\ a + (b - a) = b
  <2>1. b - a \in 0 .. b - a /\ a + (b - a) = b
    BY <1>1
  <2> HIDE DEF S
  <2> QED
    BY <1>3, <2>1
<1> QED
  BY <1>4


-----------------------------------------------------------------------------
\* Lemmas about redo

Touches(rec, k) == \E i \in DOMAIN rec : rec[i].key = k

\* Redo of a record goes from change to change.
LEMMA RedoInSteps ==
    ASSUME NEW k, NEW row, NEW rec, Len(rec) \in Nat
    PROVE  \E h : /\ Runs(Work("record", rec, k), Len(rec), row, h)
                  /\ RedoRecord(k, row, rec) = h[Len(rec)]
<1> DEFINE n == Len(rec)
           w == Work("record", rec, k)
           G(f) == f = [i \in 0 .. n |-> IF i = 0 THEN row
                                         ELSE IF rec[i].key = k THEN Redone(f[i - 1], rec[i])
                                         ELSE f[i - 1]]
<1>1. \A x, i : Step(w, x, i) = IF rec[i].key = k THEN Redone(x, rec[i]) ELSE x
  BY DEF Step, Work
<1>2. \A f : Goes(w, n, row, f) <=> G(f)
  <2> HIDE DEF w
  <2> QED
    BY <1>1 DEF Goes
<1>3. (CHOOSE f : Goes(w, n, row, f)) = (CHOOSE f : G(f))
  <2> HIDE DEF G, w, n
  <2> QED
    BY <1>2
<1>4. RedoRecord(k, row, rec) = (CHOOSE f : G(f))[n]
  BY DEF RedoRecord
<1>5. Runs(w, n, row, CHOOSE f : Goes(w, n, row, f))
  <2> HIDE DEF w
  <2> QED
    BY ItRuns
<1> QED
  BY <1>3, <1>4, <1>5

\* What the redo of one change makes of a row.
LEMMA RedoneIs ==
    ASSUME NEW c \in LoggedChanges, NEW row
    PROVE  /\ row = Halted => Redone(row, c) = Halted
           /\ row # NoValue => Redone(row, c) # NoValue
           /\ row # Halted => /\ c.kind = "insert" => Redone(row, c) = IF row = NoValue THEN c.val ELSE row
                              /\ c.kind = "update" => Redone(row, c) = c.val
                              /\ c.kind = "delete" => Redone(row, c) = IF row = NoValue THEN NoValue ELSE Halted
                              /\ c.kind # "delete" => Redone(row, c) # Halted
           /\ c.kind = "insert" => Redone(row, c) # NoValue
           /\ c.kind = "delete" /\ row # NoValue => Redone(row, c) = Halted
<1>1. c.kind \in {"insert", "update", "delete"} /\ c.val \in Names
  BY DEF LoggedChanges
<1>2. c.val # NoValue /\ c.val # Halted /\ NoValue # Halted
  BY <1>1, NobodyIsNamed
<1>3. CASE row = Halted
  <2>1. Redone(row, c) = Halted
    BY <1>3 DEF Redone
  <2> QED
    BY <1>2, <1>3, <2>1
<1>4. CASE row # Halted
  <2>1. /\ c.kind = "insert" => Redone(row, c) = IF row = NoValue THEN c.val ELSE row
        /\ c.kind = "update" => Redone(row, c) = c.val
        /\ c.kind = "delete" => Redone(row, c) = IF row = NoValue THEN NoValue ELSE Halted
    BY <1>4 DEF Redone, RedoneInsert, RedoneUpdate, RedoneDelete
  <2> QED
    BY <1>1, <1>2, <1>4, <2>1
<1> QED
  BY <1>3, <1>4

\* Redo of a record leaves the rows alone that it does not touch, and ends for good at a delete
\* of a row that is there; without a delete the last change to a row tells what it makes of that
\* one, if it is not an insert over a row that is there.
LEMMA RedoOfRecord ==
    ASSUME NEW k, NEW row, NEW rec \in Seq(LoggedChanges)
    PROVE  /\ ~Touches(rec, k) => RedoRecord(k, row, rec) = row
           /\ row = Halted => RedoRecord(k, row, rec) = Halted
           /\ \A d \in DOMAIN rec :
                 rec[d].key = k /\ rec[d].kind = "delete"
                 /\ (row # NoValue \/ \E e \in DOMAIN rec : e < d /\ rec[e].key = k /\ rec[e].kind = "insert") =>
                   RedoRecord(k, row, rec) = Halted
           /\ row # Halted /\ (\A e \in DOMAIN rec : rec[e].key = k => rec[e].kind # "delete") =>
                 /\ RedoRecord(k, row, rec) # Halted
                 /\ \A d \in DOMAIN rec :
                       rec[d].key = k /\ (\A e \in DOMAIN rec : e > d => rec[e].key # k) =>
                         /\ rec[d].kind = "update" => RedoRecord(k, row, rec) = rec[d].val
                         /\ rec[d].kind = "insert" /\ row = NoValue
                            /\ (\A e \in DOMAIN rec : e < d => rec[e].key # k) =>
                               RedoRecord(k, row, rec) = rec[d].val
<1> DEFINE n == Len(rec)
<1>1. n \in Nat /\ DOMAIN rec = 1 .. n /\ \A i \in 1 .. n : rec[i] \in LoggedChanges
  OBVIOUS
<1>2. PICK h : Runs(Work("record", rec, k), n, row, h) /\ RedoRecord(k, row, rec) = h[n]
  BY <1>1, RedoInSteps
<1>3. /\ h[0] = row
      /\ \A i \in 1 .. n : h[i] = IF rec[i].key = k THEN Redone(h[i - 1], rec[i]) ELSE h[i - 1]
  BY <1>2 DEF Runs, Step, Work
<1>4. \A i \in 1 .. n : rec[i].key # k => h[i] = h[i - 1]
  BY <1>3
<1> HIDE DEF n
<1>5. ASSUME ~Touches(rec, k)
      PROVE  h[n] = row
  <2>1. \A i \in 0 + 1 .. n : h[i] = h[i - 1]
    BY <1>1, <1>4, <1>5 DEF Touches
  <2>2. 0 \in Nat /\ 0 <= n
    BY <1>1
  <2>3. h[n] = h[0]
    BY <1>1, <2>1, <2>2, Unmoved
  <2> QED
    BY <1>3, <2>3
\* What is halted stays so, and what is there does not go.
<1>6. ASSUME NEW d \in 0 .. n
      PROVE  /\ h[d] = Halted => h[n] = Halted
             /\ h[d] # NoValue => \A f \in d .. n : h[f] # NoValue
  <2>0. d \in Nat /\ d <= n
    BY <1>1
  <2>1. ASSUME NEW i \in d + 1 .. n
        PROVE  /\ h[i - 1] = Halted => h[i] = Halted
               /\ h[i - 1] # NoValue => h[i] # NoValue
    <3>1. i \in 1 .. n /\ rec[i] \in LoggedChanges
      BY <1>1, <2>0
    <3>2. /\ h[i - 1] = Halted => Redone(h[i - 1], rec[i]) = Halted
          /\ h[i - 1] # NoValue => Redone(h[i - 1], rec[i]) # NoValue
      BY <3>1, RedoneIs
    <3> QED
      BY <1>3, <3>1, <3>2
  <2>2. ASSUME h[d] = Halted PROVE h[n] = Halted
    <3> DEFINE R == {i \in d .. n : h[i] = Halted}
    <3>1. d \in R /\ \A i \in d + 1 .. n : i - 1 \in R => i \in R
      BY <1>1, <2>0, <2>1, <2>2
    <3>2. n \in R
      <4> HIDE DEF R
      <4> QED
        BY <1>1, <2>0, <3>1, AllTheWay
    <3> QED
      BY <3>2
  <2>3. ASSUME h[d] # NoValue, NEW f \in d .. n PROVE h[f] # NoValue
    <3> DEFINE R == {i \in d .. f : h[i] # NoValue}
    <3>0. f \in Nat /\ d <= f /\ \A i \in d + 1 .. f : i \in d + 1 .. n
      BY <1>1, <2>0, <2>3
    <3>1. d \in R
      BY <2>0, <2>3, <3>0
    <3>2. ASSUME NEW i \in d + 1 .. f, i - 1 \in R PROVE i \in R
      <4>1. i \in d .. f /\ i \in d + 1 .. n
        BY <2>0, <3>0
      <4>2. h[i - 1] # NoValue
        BY <3>2
      <4> QED
        BY <2>1, <4>1, <4>2
    <3>3. f \in R
      <4> HIDE DEF R
      <4> QED
        BY <2>0, <3>0, <3>1, <3>2, AllTheWay
    <3> QED
      BY <3>3
  <2> QED
    BY <2>2, <2>3
<1>7. ASSUME NEW d \in 1 .. n, rec[d].key = k, rec[d].kind = "delete",
             row # NoValue \/ \E e \in 1 .. n : e < d /\ rec[e].key = k /\ rec[e].kind = "insert"
      PROVE  h[n] = Halted
  <2>1. d \in Nat /\ d - 1 \in Nat /\ d - 1 \in 0 .. n /\ d \in 0 .. n /\ 0 \in 0 .. n /\ d - 1 \in 0 .. d - 1
    BY <1>1
  <2>2. h[d - 1] # NoValue
    <3>1. CASE row # NoValue
      <4>1. d - 1 \in 0 .. n /\ h[0] # NoValue
        BY <1>3, <2>1, <3>1
      <4> QED
        BY <1>6, <2>1, <4>1
    <3>2. CASE \E e \in 1 .. n : e < d /\ rec[e].key = k /\ rec[e].kind = "insert"
      <4>1. PICK e \in 1 .. n : e < d /\ rec[e].key = k /\ rec[e].kind = "insert"
        BY <3>2
      <4>2. h[e] = Redone(h[e - 1], rec[e]) /\ rec[e] \in LoggedChanges
        BY <1>1, <1>3, <4>1
      <4>3. h[e] # NoValue
        BY <4>1, <4>2, RedoneIs
      <4>4. e \in 0 .. n /\ d - 1 \in e .. n
        BY <1>1, <2>1, <4>1
      <4> QED
        BY <1>6, <4>3, <4>4
    <3> QED
      BY <1>7, <3>1, <3>2
  <2>3. h[d] = Redone(h[d - 1], rec[d]) /\ rec[d] \in LoggedChanges
    BY <1>1, <1>3, <1>7
  <2>4. h[d] = Halted
    BY <1>7, <2>2, <2>3, RedoneIs
  <2> QED
    BY <1>6, <2>1, <2>4
<1>8. ASSUME row # Halted, \A e \in 1 .. n : rec[e].key = k => rec[e].kind # "delete"
      PROVE  /\ \A f \in 0 .. n : h[f] # Halted
             /\ \A d \in 1 .. n :
                   rec[d].key = k /\ (\A e \in 1 .. n : e > d => rec[e].key # k) =>
                     /\ rec[d].kind = "update" => h[n] = rec[d].val
                     /\ rec[d].kind = "insert" /\ row = NoValue
                        /\ (\A e \in 1 .. n : e < d => rec[e].key # k) => h[n] = rec[d].val
  <2>1. ASSUME NEW f \in 0 .. n PROVE h[f] # Halted
    <3> DEFINE R == {i \in 0 .. f : h[i] # Halted}
    <3>0. f \in Nat /\ 0 \in Nat /\ 0 <= f /\ \A i \in 0 + 1 .. f : i \in 1 .. n /\ i \in 0 .. f
      BY <1>1
    <3>1. 0 \in R
      BY <1>3, <1>8, <3>0
    <3>2. ASSUME NEW i \in 0 + 1 .. f, i - 1 \in R PROVE i \in R
      <4>1. i \in 0 .. f /\ i \in 1 .. n /\ rec[i] \in LoggedChanges
        BY <1>1, <3>0
      <4>2. h[i - 1] # Halted
        BY <3>2
      <4>3. rec[i].key = k => Redone(h[i - 1], rec[i]) # Halted
        BY <1>8, <4>1, <4>2, RedoneIs
      <4>4. h[i] # Halted
        BY <1>3, <4>1, <4>2, <4>3
      <4> QED
        BY <4>1, <4>4
    <3>3. f \in R
      <4> HIDE DEF R
      <4> QED
        BY <3>0, <3>1, <3>2, AllTheWay
    <3> QED
      BY <3>3
  <2>2. ASSUME NEW d \in 1 .. n, rec[d].key = k, \A e \in 1 .. n : e > d => rec[e].key # k
        PROVE  /\ rec[d].kind = "update" => h[n] = rec[d].val
               /\ rec[d].kind = "insert" /\ row = NoValue
                  /\ (\A e \in 1 .. n : e < d => rec[e].key # k) => h[n] = rec[d].val
    <3>1. d \in Nat /\ d - 1 \in Nat /\ d - 1 \in 0 .. n /\ d <= n /\ rec[d] \in LoggedChanges
      BY <1>1
    <3>2. h[n] = h[d]
      <4>1. \A i \in d + 1 .. n : h[i] = h[i - 1]
        BY <1>1, <1>4, <2>2, <3>1
      <4> QED
        BY <1>1, <3>1, <4>1, Unmoved
    <3>3. h[d] = Redone(h[d - 1], rec[d]) /\ h[d - 1] # Halted
      BY <1>3, <2>1, <2>2, <3>1
    <3>4. (\A e \in 1 .. n : e < d => rec[e].key # k) => h[d - 1] = row
      <4> SUFFICES ASSUME \A e \in 1 .. n : e < d => rec[e].key # k
                   PROVE  h[d - 1] = row
        OBVIOUS
      <4>1. \A i \in 0 + 1 .. d - 1 : h[i] = h[i - 1]
        BY <1>1, <1>4, <3>1
      <4>2. 0 \in Nat /\ 0 <= d - 1
        BY <3>1
      <4>3. h[d - 1] = h[0]
        BY <3>1, <4>1, <4>2, Unmoved
      <4> QED
        BY <1>3, <4>3
    <3>5. /\ rec[d].kind = "update" => h[d] = rec[d].val
          /\ rec[d].kind = "insert" => h[d] = IF h[d - 1] = NoValue THEN rec[d].val ELSE h[d - 1]
      BY <3>1, <3>3, RedoneIs
    <3> QED
      BY <3>2, <3>4, <3>5
  <2> QED
    BY <2>1, <2>2
<1>9. row = Halted => h[n] = Halted
  BY <1>1, <1>3, <1>6
<1>10. n \in 0 .. n
  BY <1>1
<1> QED
  BY <1>1, <1>2, <1>5, <1>7, <1>8, <1>9, <1>10

\* Recovery goes through the records of the log.
AtFirst(k) == IF k \in FirstKeys THEN FirstNode(k) ELSE NoValue
RedoLog(k, records) ==
    LET redone[i \in 0 .. Len(records)] ==
            IF i = 0 THEN AtFirst(k) ELSE RedoRecord(k, redone[i - 1], records[i])
    IN redone[Len(records)]
LEMMA RecoveredIs ==
    ASSUME NEW k
    PROVE  Recovered(k) = RedoLog(k, log)
BY DEF Recovered, RedoLog, AtFirst
LEMMA NextRecoveredIs ==
    ASSUME NEW k
    PROVE  Recovered(k)' = RedoLog(k, log')
BY DEF Recovered, RedoLog, AtFirst
LEMMA RedoLogInSteps ==
    ASSUME NEW k, NEW records, Len(records) \in Nat
    PROVE  \E h : /\ Runs(Work("log", records, k), Len(records), AtFirst(k), h)
                  /\ RedoLog(k, records) = h[Len(records)]
<1> DEFINE n == Len(records)
           w == Work("log", records, k)
           G(f) == f = [i \in 0 .. n |-> IF i = 0 THEN AtFirst(k)
                                         ELSE RedoRecord(k, f[i - 1], records[i])]
<1>1. \A x, i : Step(w, x, i) = RedoRecord(k, x, records[i])
  BY DEF Step, Work
<1>2. \A f : Goes(w, n, AtFirst(k), f) <=> G(f)
  <2> HIDE DEF w
  <2> QED
    BY <1>1 DEF Goes
<1>3. (CHOOSE f : Goes(w, n, AtFirst(k), f)) = (CHOOSE f : G(f))
  <2> HIDE DEF G, w, n
  <2> QED
    BY <1>2
<1>4. RedoLog(k, records) = (CHOOSE f : G(f))[n]
  BY DEF RedoLog
<1>5. Runs(w, n, AtFirst(k), CHOOSE f : Goes(w, n, AtFirst(k), f))
  <2> HIDE DEF w
  <2> QED
    BY ItRuns
<1> QED
  BY <1>3, <1>4, <1>5

\* A record more is redone on top.
LEMMA RedoOfMore ==
    ASSUME NEW k, NEW records \in Seq(Seq(LoggedChanges)), NEW rec
    PROVE  RedoLog(k, Append(records, rec)) = RedoRecord(k, RedoLog(k, records), rec)
<1> DEFINE n == Len(records)
           more == Append(records, rec)
<1>1. /\ n \in Nat /\ Len(more) = n + 1 /\ more[n + 1] = rec
      /\ \A i \in 1 .. n : more[i] = records[i]
  OBVIOUS
<1>2. PICK g : Runs(Work("log", records, k), n, AtFirst(k), g) /\ RedoLog(k, records) = g[n]
  BY <1>1, RedoLogInSteps
<1>3. PICK h : Runs(Work("log", more, k), n + 1, AtFirst(k), h) /\ RedoLog(k, more) = h[n + 1]
  <2> HIDE DEF more
  <2>1. Len(more) \in Nat
    BY <1>1
  <2> QED
    BY <1>1, <2>1, RedoLogInSteps
<1>4. Runs(Work("log", more, k), n, AtFirst(k), h)
  <2>1. \A i \in 1 .. n : i \in 1 .. n + 1
    BY <1>1
  <2> HIDE DEF more, n
  <2> QED
    BY <1>3, <2>1 DEF Runs
<1>5. g[n] = h[n]
  <2>1. \A i \in 1 .. n : \A x : Step(Work("log", records, k), x, i) = Step(Work("log", more, k), x, i)
    <3> HIDE DEF more, n
    <3> QED
      BY <1>1 DEF Step, Work
  <2> HIDE DEF more, n
  <2> QED
    BY <1>1, <1>2, <1>4, <2>1, RunsAlike
<1>6. h[n + 1] = RedoRecord(k, h[n], more[n + 1])
  <2>1. n + 1 \in 1 .. n + 1 /\ (n + 1) - 1 = n
    BY <1>1
  <2> HIDE DEF more, n
  <2> QED
    BY <1>3, <2>1 DEF Runs, Step, Work
<1> HIDE DEF more, n
<1>7. RedoLog(k, more) = RedoRecord(k, RedoLog(k, records), rec)
  BY <1>1, <1>2, <1>3, <1>5, <1>6
<1> QED
  BY <1>7 DEF more

\* Whether the last change to a row is an update is told by the last record that touches it.
LEMMA LastOfMore ==
    ASSUME NEW k, Typed, NEW rec \in Seq(LoggedChanges), log' = Append(log, rec)
    PROVE  /\ ~Touches(rec, k) /\ LastIsUpdate(k) => LastIsUpdate(k)'
           /\ \A d \in DOMAIN rec :
                 /\ rec[d].key = k /\ rec[d].kind = "update"
                 /\ \A e \in DOMAIN rec : e > d => rec[e].key # k
                 => LastIsUpdate(k)'
<1> DEFINE n == Len(log)
<1>1. /\ n \in Nat /\ DOMAIN log = 1 .. n /\ DOMAIN log' = 1 .. n + 1 /\ log'[n + 1] = rec
      /\ \A i \in 1 .. n : log'[i] = log[i]
  BY DEF Typed
<1>2. \A c : c \in Changes(k)' <=> /\ \E i \in 1 .. n + 1 : \E j \in DOMAIN log'[i] : c = <<i, j>>
                                   /\ log'[c[1]][c[2]].key = k
  BY <1>1 DEF Changes
<1>3. \A c : c \in Changes(k) <=> /\ \E i \in 1 .. n : \E j \in DOMAIN log[i] : c = <<i, j>>
                                  /\ log[c[1]][c[2]].key = k
  BY <1>1 DEF Changes
<1> HIDE DEF n
<1>4. ASSUME ~Touches(rec, k), LastIsUpdate(k)
      PROVE  LastIsUpdate(k)'
  <2>1. PICK c \in Changes(k) : /\ log[c[1]][c[2]].kind = "update"
                                /\ \A d \in Changes(k) : ~Precedes(c, d)
    BY <1>4 DEF LastIsUpdate
  <2>2. \A d : d \in Changes(k)' <=> d \in Changes(k)
    <3> TAKE d
    <3>1. ASSUME d \in Changes(k)' PROVE d \in Changes(k)
      <4>1. PICK i \in 1 .. n + 1 : \E j \in DOMAIN log'[i] : d = <<i, j>>
        BY <1>2, <3>1
      <4>2. PICK j \in DOMAIN log'[i] : d = <<i, j>>
        BY <4>1
      <4>3. log'[i][j].key = k
        <5>1. d[1] = i /\ d[2] = j /\ log'[d[1]][d[2]].key = k
          BY <1>2, <3>1, <4>2
        <5> QED
          BY <5>1
      <4>4. i # n + 1
        BY <1>1, <1>4, <4>2, <4>3 DEF Touches
      <4>5. i \in 1 .. n /\ log'[i] = log[i]
        BY <1>1, <4>4
      <4> QED
        BY <1>3, <4>2, <4>3, <4>5
    <3>2. ASSUME d \in Changes(k) PROVE d \in Changes(k)'
      <4>1. PICK i \in 1 .. n : \E j \in DOMAIN log[i] : d = <<i, j>>
        BY <1>3, <3>2
      <4>2. PICK j \in DOMAIN log[i] : d = <<i, j>>
        BY <4>1
      <4>3. log[i][j].key = k /\ log'[i] = log[i] /\ i \in 1 .. n + 1
        BY <1>1, <1>3, <3>2, <4>2
      <4> QED
        BY <1>2, <4>2, <4>3
    <3> QED
      BY <3>1, <3>2
  <2>3. log'[c[1]] = log[c[1]]
    BY <1>1, <1>3, <2>1
  <2> QED
    BY <2>1, <2>2, <2>3 DEF LastIsUpdate, Precedes
<1>5. ASSUME NEW d \in DOMAIN rec, rec[d].key = k, rec[d].kind = "update",
             \A e \in DOMAIN rec : e > d => rec[e].key # k
      PROVE  LastIsUpdate(k)'
  <2> DEFINE c == <<n + 1, d>>
  <2>1. c \in Changes(k)' /\ log'[c[1]][c[2]].kind = "update"
    <3>1. n + 1 \in 1 .. n + 1
      BY <1>1
    <3> QED
      BY <1>1, <1>2, <1>5, <3>1
  <2>2. \A e \in Changes(k)' : ~Precedes(c, e)
    <3> TAKE e \in Changes(k)'
    <3>1. PICK i \in 1 .. n + 1 : \E j \in DOMAIN log'[i] : e = <<i, j>>
      BY <1>2
    <3>2. PICK j \in DOMAIN log'[i] : e = <<i, j>>
      BY <3>1
    <3>3. log'[i][j].key = k
      <4>1. e[1] = i /\ e[2] = j /\ log'[e[1]][e[2]].key = k
        BY <1>2, <3>2
      <4> QED
        BY <4>1
    <3>4. i = n + 1 => ~(d < j)
      BY <1>1, <1>5, <3>2, <3>3
    <3>5. ~(n + 1 < i)
      BY <1>1
    <3> QED
      BY <3>2, <3>4, <3>5 DEF Precedes
  <2> QED
    BY <2>1, <2>2 DEF LastIsUpdate, Precedes
<1> QED
  BY <1>4, <1>5

\* Whether a delete of a row is in the log.
LEMMA DeletesOfMore ==
    ASSUME NEW k, Typed, NEW rec, rec \in Seq(LoggedChanges), log' = Append(log, rec)
    PROVE  /\ LoggedDelete(k) => LoggedDelete(k)'
           /\ \A d \in DOMAIN rec : rec[d].key = k /\ rec[d].kind = "delete" => LoggedDelete(k)'
           /\ ~LoggedDelete(k) /\ (\A d \in DOMAIN rec : rec[d].key = k => rec[d].kind # "delete") => ~LoggedDelete(k)'
<1> DEFINE n == Len(log)
<1>1. /\ n \in Nat /\ DOMAIN log = 1 .. n /\ DOMAIN log' = 1 .. n + 1 /\ log'[n + 1] = rec
      /\ \A i \in 1 .. n : log'[i] = log[i]
  BY DEF Typed
<1>a. \A c : c \in Changes(k)' <=> /\ \E i \in 1 .. n + 1 : \E j \in DOMAIN log'[i] : c = <<i, j>>
                                   /\ log'[c[1]][c[2]].key = k
  BY <1>1 DEF Changes
<1>b. \A c : c \in Changes(k) <=> /\ \E i \in 1 .. n : \E j \in DOMAIN log[i] : c = <<i, j>>
                                  /\ log[c[1]][c[2]].key = k
  BY <1>1 DEF Changes
<1> HIDE DEF n
<1>2. LoggedDelete(k) <=>
         \E i \in 1 .. n : \E j \in DOMAIN log[i] : log[i][j].key = k /\ log[i][j].kind = "delete"
  <2>1. ASSUME LoggedDelete(k)
        PROVE  \E i \in 1 .. n : \E j \in DOMAIN log[i] : log[i][j].key = k /\ log[i][j].kind = "delete"
    <3>1. PICK c \in Changes(k) : log[c[1]][c[2]].kind = "delete"
      BY <2>1 DEF LoggedDelete
    <3>2. PICK i \in 1 .. n : \E j \in DOMAIN log[i] : c = <<i, j>>
      BY <1>b, <3>1
    <3>3. PICK j \in DOMAIN log[i] : c = <<i, j>>
      BY <3>2
    <3>4. c[1] = i /\ c[2] = j /\ log[c[1]][c[2]].key = k
      BY <1>b, <3>1, <3>3
    <3> QED
      BY <3>1, <3>3, <3>4
  <2>2. ASSUME NEW i \in 1 .. n, NEW j \in DOMAIN log[i], log[i][j].key = k, log[i][j].kind = "delete"
        PROVE  LoggedDelete(k)
    <3>1. PICK c : c = <<i, j>>
      OBVIOUS
    <3>2. c[1] = i /\ c[2] = j
      BY <3>1
    <3>3. c \in Changes(k)
      BY <1>b, <2>2, <3>1, <3>2
    <3> QED
      BY <2>2, <3>2, <3>3 DEF LoggedDelete
  <2> QED
    BY <2>1, <2>2
<1>3. LoggedDelete(k)' <=>
         \E i \in 1 .. n + 1 : \E j \in DOMAIN log'[i] : log'[i][j].key = k /\ log'[i][j].kind = "delete"
  <2>1. ASSUME LoggedDelete(k)'
        PROVE  \E i \in 1 .. n + 1 : \E j \in DOMAIN log'[i] : log'[i][j].key = k /\ log'[i][j].kind = "delete"
    <3>1. PICK c \in Changes(k)' : log'[c[1]][c[2]].kind = "delete"
      BY <2>1 DEF LoggedDelete
    <3>2. PICK i \in 1 .. n + 1 : \E j \in DOMAIN log'[i] : c = <<i, j>>
      BY <1>a, <3>1
    <3>3. PICK j \in DOMAIN log'[i] : c = <<i, j>>
      BY <3>2
    <3>4. c[1] = i /\ c[2] = j /\ log'[c[1]][c[2]].key = k
      BY <1>a, <3>1, <3>3
    <3> QED
      BY <3>1, <3>3, <3>4
  <2>2. ASSUME NEW i \in 1 .. n + 1, NEW j \in DOMAIN log'[i], log'[i][j].key = k, log'[i][j].kind = "delete"
        PROVE  LoggedDelete(k)'
    <3>1. PICK c : c = <<i, j>>
      OBVIOUS
    <3>2. c[1] = i /\ c[2] = j
      BY <3>1
    <3>3. c \in Changes(k)'
      BY <1>a, <2>2, <3>1, <3>2
    <3> QED
      BY <2>2, <3>2, <3>3 DEF LoggedDelete
  <2> QED
    BY <2>1, <2>2
<1>4. \A i : i \in 1 .. n + 1 <=> i \in 1 .. n \/ i = n + 1
  BY <1>1
<1> QED
  BY <1>1, <1>2, <1>3, <1>4

-----------------------------------------------------------------------------
\* Lemmas about nodes

LEMMA MarkedIs ==
    ASSUME NEW h, NEW n \in DOMAIN h, h[n] \in Nodes, NEW t, NEW op
    PROVE  /\ DOMAIN Marked(h, t, n, op) = DOMAIN h
           /\ \A x \in DOMAIN h : x # n => Marked(h, t, n, op)[x] = h[x]
           /\ Marked(h, t, n, op)[n] = [key |-> h[n].key, val |-> h[n].val, op |-> op, id |-> t]
<1>1. h[n] = [key |-> h[n].key, val |-> h[n].val, op |-> h[n].op, id |-> h[n].id]
  BY DEF Nodes
<1> QED
  BY <1>1 DEF Marked

LEMMA UnmarkedIs ==
    ASSUME NEW h, NEW n \in DOMAIN h, h[n] \in Nodes
    PROVE  /\ DOMAIN Unmarked(h, n) = DOMAIN h
           /\ \A x \in DOMAIN h : x # n => Unmarked(h, n)[x] = h[x]
           /\ Unmarked(h, n)[n] =
                 [key |-> h[n].key, val |-> h[n].val, op |-> "none", id |-> NoTxn]
<1>1. h[n] = [key |-> h[n].key, val |-> h[n].val, op |-> h[n].op, id |-> h[n].id]
  BY DEF Nodes
<1> QED
  BY <1>1 DEF Unmarked

LEMMA AssignedIs ==
    ASSUME NEW h, NEW n \in DOMAIN h, h[n] \in Nodes, NEW v \in Names
    PROVE  /\ DOMAIN Assigned(h, n, v) = DOMAIN h
           /\ \A x \in DOMAIN h : x # n => Assigned(h, n, v)[x] = h[x]
           /\ Assigned(h, n, v)[n] =
                 [key |-> h[n].key, val |-> v, op |-> "none", id |-> NoTxn]
<1>1. h[n] = [key |-> h[n].key, val |-> h[n].val, op |-> h[n].op, id |-> h[n].id]
  BY DEF Nodes
<1>2. PICK g : g = [h EXCEPT ![n].val = v]
  OBVIOUS
<1>3. /\ DOMAIN g = DOMAIN h /\ \A x \in DOMAIN h : x # n => g[x] = h[x]
      /\ g[n] = [key |-> h[n].key, val |-> v, op |-> h[n].op, id |-> h[n].id]
  BY <1>1, <1>2
<1>4. g[n] \in Nodes
  BY <1>3 DEF Nodes
<1>5. Assigned(h, n, v) = Unmarked(g, n)
  BY <1>2 DEF Assigned
<1> QED
  BY <1>3, <1>4, <1>5, UnmarkedIs

LEMMA MarkBackIs ==
    ASSUME NEW h, NEW n \in DOMAIN h, h[n] \in Nodes, NEW op, NEW id
    PROVE  /\ DOMAIN MarkBack(h, n, op, id) = DOMAIN h
           /\ \A x \in DOMAIN h : x # n => MarkBack(h, n, op, id)[x] = h[x]
           /\ MarkBack(h, n, op, id)[n] =
                 [key |-> h[n].key, val |-> h[n].val, op |-> op, id |-> id]
<1>1. h[n] = [key |-> h[n].key, val |-> h[n].val, op |-> h[n].op, id |-> h[n].id]
  BY DEF Nodes
<1> QED
  BY <1>1 DEF MarkBack

\* A name is given once.
LEMMA NewIsNew ==
    ASSUME Typed, HeapOK, NEW t \in Txns
    PROVE  New(t) \in Names /\ New(t) \notin DOMAIN heap /\ ~Given(New(t)) /\ New(t)[1] = t
<1>1. made[t] \in Nat
  BY DEF Typed
<1>2. New(t)[1] = t /\ New(t)[2] = made[t] + 1 /\ New(t) \in Names
  BY <1>1 DEF New, Names
<1>3. ~Given(New(t))
  BY <1>1, <1>2 DEF Given
<1> QED
  BY <1>2, <1>3 DEF HeapOK

-----------------------------------------------------------------------------
\* Steps that leave a key alone

\* Nothing of what concerns a key is changed in the step.
Untouched(j) ==
    /\ \A n \in DOMAIN heap : heap[n].key = j => n \in DOMAIN heap' /\ heap'[n] = heap[n]
    /\ tree'[j] = tree[j] /\ committed'[j] = committed[j]
    /\ \A s \in Txns :
          /\ changes'[s][j] = changes[s][j]
          /\ On(s, j)' = On(s, j) /\ \A i \in On(s, j) : ops'[s][i] = ops[s][i]
          /\ j \in ChangedKeys(s)' <=> j \in ChangedKeys(s)
          /\ j \in ChangedKeys(s) => intent'[s][j] = intent[s][j] /\ pc'[s] = pc[s]
\* Nor what recovery makes of it.
Unlogged(j) ==
    /\ Recovered(j)' = Recovered(j) /\ (LastIsUpdate(j) => LastIsUpdate(j)')
    /\ LoggedDelete(j)' <=> LoggedDelete(j)

LEMMA LogIsLeft ==
    ASSUME log' = log, NEW j
    PROVE  Unlogged(j)
<1>1. Recovered(j)' = Recovered(j)
  BY RecoveredIs, NextRecoveredIs
<1>2. (LastIsUpdate(j)' <=> LastIsUpdate(j)) /\ (LoggedDelete(j)' <=> LoggedDelete(j))
  BY DEF LastIsUpdate, LoggedDelete, Changes, Precedes
<1> QED
  BY <1>1, <1>2 DEF Unlogged

\* The row of an untouched key, and the pending nodes of it, are what they were.
LEMMA UntouchedRow ==
    ASSUME TreeOK, ChangesOK, NEW j \in Keys, Untouched(j)
    PROVE  /\ Linked(j)' <=> Linked(j)
           /\ Linked(j) => Row(j)' = Row(j)
           /\ \A s \in Txns : Holds(s, j)' <=> Holds(s, j)
           /\ \A s \in Txns : changes[s][j] # NoNode => heap'[changes[s][j]] = heap[changes[s][j]]
<1>1. Linked(j)' <=> Linked(j)
  BY DEF Untouched, Linked
<1>2. Linked(j) => Row(j)' = Row(j)
  BY DEF Untouched, TreeOK, Linked, Row
<1>3. \A s \in Txns : Holds(s, j)' <=> Holds(s, j)
  BY <1>1, <1>2 DEF Holds
<1>4. \A s \in Txns : changes[s][j] # NoNode => heap'[changes[s][j]] = heap[changes[s][j]]
  BY DEF Untouched, ChangesOK
<1> QED
  BY <1>1, <1>2, <1>3, <1>4

LEMMA UntouchedKeyOK ==
    ASSUME TreeOK, ChangesOK, NEW j \in Keys, Untouched(j), KeyOK(j)
    PROVE  KeyOK(j)'
<1> SUFFICES ASSUME NEW s \in Txns
             PROVE  /\ Holds(s, j)' <=> j \in ChangedKeys(s)'
                    /\ Holds(s, j)' => Unfinished(s)'
                    /\ Holds(s, j)' => \E i \in On(s, j)' : ops'[s][i].entry = tree'[j] /\ ops'[s][i].kind = Row(j)'.op
                    /\ Holds(s, j)' /\ Row(j)'.op = "deleted_insert" =>
                          \E i \in On(s, j)' : ops'[s][i].entry = tree'[j] /\ ops'[s][i].kind = "insert"
                    /\ changes'[s][j] # NoNode =>
                          /\ Holds(s, j)' /\ Row(j)'.op = "update"
                          /\ heap'[changes'[s][j]].op \in {"none", "delete"}
  BY DEF KeyOK
<1>1. /\ Linked(j)' <=> Linked(j)
      /\ Linked(j) => Row(j)' = Row(j)
      /\ Holds(s, j)' <=> Holds(s, j)
      /\ changes[s][j] # NoNode => heap'[changes[s][j]] = heap[changes[s][j]]
  BY UntouchedRow
<1>2. /\ tree'[j] = tree[j] /\ changes'[s][j] = changes[s][j]
      /\ On(s, j)' = On(s, j) /\ \A i \in On(s, j) : ops'[s][i] = ops[s][i]
      /\ j \in ChangedKeys(s)' <=> j \in ChangedKeys(s)
      /\ j \in ChangedKeys(s) => pc'[s] = pc[s]
  BY DEF Untouched
<1>3. Holds(s, j) => Linked(j)
  BY DEF Holds
<1>4. /\ Holds(s, j) <=> j \in ChangedKeys(s)
      /\ Holds(s, j) => Unfinished(s)
      /\ Holds(s, j) => \E i \in On(s, j) : ops[s][i].entry = tree[j] /\ ops[s][i].kind = Row(j).op
      /\ Holds(s, j) /\ Row(j).op = "deleted_insert" =>
            \E i \in On(s, j) : ops[s][i].entry = tree[j] /\ ops[s][i].kind = "insert"
      /\ changes[s][j] # NoNode =>
            Holds(s, j) /\ Row(j).op = "update" /\ heap[changes[s][j]].op \in {"none", "delete"}
  BY DEF KeyOK
<1>5. Holds(s, j)' => Unfinished(s)'
  BY <1>1, <1>2, <1>4 DEF Unfinished
<1>6. Holds(s, j)' => \E i \in On(s, j)' : ops'[s][i].entry = tree'[j] /\ ops'[s][i].kind = Row(j)'.op
  BY <1>1, <1>2, <1>3, <1>4
<1>7. Holds(s, j)' /\ Row(j)'.op = "deleted_insert" =>
         \E i \in On(s, j)' : ops'[s][i].entry = tree'[j] /\ ops'[s][i].kind = "insert"
  BY <1>1, <1>2, <1>3, <1>4
<1>8. changes'[s][j] # NoNode =>
         /\ Holds(s, j)' /\ Row(j)'.op = "update"
         /\ heap'[changes'[s][j]].op \in {"none", "delete"}
  BY <1>1, <1>2, <1>3, <1>4
<1> QED
  BY <1>1, <1>2, <1>4, <1>5, <1>6, <1>7, <1>8

LEMMA UntouchedListOK ==
    ASSUME HeapOK, TreeOK, ChangesOK, NEW j \in Keys, Untouched(j), NEW s \in Txns, ListOK(s, j)
    PROVE  ListOK(s, j)'
<1>1. /\ Linked(j) => Row(j)' = Row(j)
      /\ Holds(s, j)' <=> Holds(s, j)
      /\ changes[s][j] # NoNode => heap'[changes[s][j]] = heap[changes[s][j]]
  BY UntouchedRow
<1>2. /\ tree'[j] = tree[j] /\ changes'[s][j] = changes[s][j]
      /\ On(s, j)' = On(s, j) /\ \A i \in On(s, j) : ops'[s][i] = ops[s][i]
  BY DEF Untouched
<1>3. ASSUME NEW o, Fits(s, o, j), o.entry # NoNode
      PROVE  Fits(s, o, j)'
  <2>1. Linked(j)
    BY <1>3 DEF Fits, Holds
  <2>2. CASE changes[s][j] # NoNode
    BY <1>1, <1>2, <1>3, <2>1, <2>2 DEF Fits
  <2>3. CASE changes[s][j] = NoNode /\ o.entry = tree[j]
    BY <1>1, <1>2, <1>3, <2>1, <2>3 DEF Fits, Linked
  <2>4. o.entry # NoNode
    BY <1>3
  <2> QED
    BY <1>3, <2>2, <2>3, <2>4 DEF Fits
<1>4. ASSUME NEW i \in On(s, j)
      PROVE  Fits(s, ops[s][i], j)'
  <2>1. PICK o : o = ops[s][i]
    OBVIOUS
  <2>2. ops'[s][i] = o /\ Fits(s, o, j) /\ o.entry # NoNode
    <3>1. o.entry \in DOMAIN heap
      BY <1>4, <2>1 DEF On
    <3> QED
      BY <1>2, <1>4, <2>1, <3>1, NobodyIsNamed DEF ListOK, HeapOK
  <2>3. Fits(s, o, j)'
    BY <1>3, <2>2
  <2> QED
    BY <2>2, <2>3 DEF Fits
<1>5. \A i, d \in On(s, j)' : i < d /\ ops'[s][d].entry = tree'[j] =>
         ops'[s][i].kind = "insert" /\ ops'[s][d].kind = "deleted_insert"
  BY <1>2 DEF ListOK
<1>6. \A i \in On(s, j)' : Fits(s, ops[s][i], j)'
  BY <1>2, <1>4
<1> QED
  BY <1>5, <1>6 DEF ListOK

LEMMA UntouchedShows ==
    ASSUME TreeOK, ChangesOK, UpdatesOK, NEW j \in Keys, Untouched(j), Shows(j), KeyOK(j)
    PROVE  Shows(j)'
<1>1. /\ Linked(j)' <=> Linked(j)
      /\ Linked(j) => Row(j)' = Row(j)
      /\ \A s \in Txns : changes[s][j] # NoNode => heap'[changes[s][j]] = heap[changes[s][j]]
  BY UntouchedRow
<1>2. Visible(j)' = Visible(j) /\ (ErasedInsert(j)' <=> ErasedInsert(j))
  BY <1>1 DEF Visible, ErasedInsert
<1>3. committed'[j] = committed[j]
  BY DEF Untouched
<1>4. ASSUME NEW s \in Txns, j \in ChangedKeys(s)'
      PROVE  /\ Row(j)'.op = "insert" => intent'[s][j] = Row(j)'.val
             /\ Row(j)'.op = "update" =>
                   intent'[s][j] = heap'[changes'[s][j]].val /\ heap'[changes'[s][j]].op = "none"
             /\ Row(j)'.op \in {"delete", "deleted_insert"} => intent'[s][j] = NoValue
  <2>1. j \in ChangedKeys(s) /\ intent'[s][j] = intent[s][j] /\ changes'[s][j] = changes[s][j]
    BY <1>4 DEF Untouched
  <2>2. Linked(j) /\ Row(j)' = Row(j)
    BY <1>1, <2>1 DEF KeyOK, Holds
  <2>3. /\ Row(j).op = "insert" => intent[s][j] = Row(j).val
        /\ Row(j).op = "update" =>
              intent[s][j] = heap[changes[s][j]].val /\ heap[changes[s][j]].op = "none"
        /\ Row(j).op \in {"delete", "deleted_insert"} => intent[s][j] = NoValue
    BY <2>1 DEF Shows
  <2>4. Row(j).op = "update" => heap'[changes[s][j]] = heap[changes[s][j]]
    <3>1. Holds(s, j) /\ Unfinished(s)
      BY <2>1 DEF KeyOK
    <3>2. Row(j).op = "update" => changes[s][j] # NoNode
      BY <2>2, <3>1 DEF Holds, UpdatesOK, TreeOK, Row
    <3> QED
      BY <1>1, <3>2
  <2> QED
    BY <2>1, <2>2, <2>3, <2>4
<1> QED
  BY <1>2, <1>3, <1>4 DEF Shows

LEMMA UntouchedLogOK ==
    ASSUME NEW j \in Keys, Untouched(j), Unlogged(j), LogOK(j)
    PROVE  LogOK(j)'
<1>1. \A s \in Txns : HasLogged(s, j)' <=> HasLogged(s, j)
  BY DEF Untouched, HasLogged
<1>2. \A v : BroughtBack(j, v) => BroughtBack(j, v)'
  BY DEF BroughtBack, Unlogged
<1>3. committed'[j] = committed[j]
  BY DEF Untouched
<1>4. (\A s \in Txns : ~HasLogged(s, j)') => BroughtBack(j, committed[j])'
  <2>1. PICK v : v = committed[j]
    OBVIOUS
  <2>2. (\A s \in Txns : ~HasLogged(s, j)') => BroughtBack(j, v)'
    BY <1>1, <1>2, <2>1 DEF LogOK
  <2> QED
    BY <1>3, <2>1, <2>2 DEF BroughtBack
<1>5. ASSUME NEW s \in Txns, HasLogged(s, j)'
      PROVE  BroughtBack(j, intent[s][j])'
  <2>1. HasLogged(s, j) /\ intent'[s][j] = intent[s][j]
    BY <1>1, <1>5 DEF HasLogged, Untouched
  <2>2. PICK v : v = intent[s][j]
    OBVIOUS
  <2>3. BroughtBack(j, v)'
    BY <1>2, <2>1, <2>2 DEF LogOK
  <2> QED
    BY <2>1, <2>2, <2>3 DEF BroughtBack
<1> QED
  BY <1>4, <1>5 DEF LogOK, BroughtBack

-----------------------------------------------------------------------------
\* Operations on a row

\* What insert, update and erase have in common: t changes the row k, and no other.
GoodNode(node) == node \in Nodes /\ IsMarkedRight(node)
HeapStep(t, k) ==
    /\ DOMAIN heap \subseteq DOMAIN heap' /\ DOMAIN heap' \subseteq DOMAIN heap \cup {New(t)}
    /\ \A n \in DOMAIN heap' : GoodNode(heap'[n])
    /\ New(t) \in DOMAIN heap' => heap'[New(t)].key = k
    /\ \A n \in DOMAIN heap : heap'[n].key = heap[n].key /\ (heap[n].key # k => heap'[n] = heap[n])
    /\ \A n \in DOMAIN heap', s \in Txns :
          heap'[n].op = "update" /\ heap'[n].id = s =>
             \/ n \in DOMAIN heap /\ heap[n].op = "update" /\ heap[n].id = s
             \/ s = t /\ heap'[n].key = k /\ changes'[t][k] # NoNode
TreeStep(t, k) ==
    \/ tree' = tree
    \/ New(t) \in DOMAIN heap' /\ tree' = [tree EXCEPT ![k] = New(t)] /\ changes' = changes /\ TreeIsFree
ChangesStep(t, k) ==
    \/ changes' = changes
    \/ New(t) \in DOMAIN heap' /\ changes' = [changes EXCEPT ![t][k] = New(t)] /\ tree' = tree
IsOpOf(t, k, o) ==
    /\ o \in Operations /\ IsMarkedRight(o) /\ o.id \in {t, NoTxn}
    /\ o.entry \in DOMAIN heap' /\ heap'[o.entry].key = k
    /\ o.kind = "update" => o.new \in Names
OpsStep(t, k) ==
    \/ ops' = ops
    \/ \E o : IsOpOf(t, k, o) /\ ops' = [ops EXCEPT ![t] = Append(@, o)]
RowStep(t, k) ==
    /\ pc[t] = "active" /\ log' = log /\ pc' = pc /\ committed' = committed
    /\ made' = [made EXCEPT ![t] = @ + 1]
    /\ \E v \in Names \cup {NoValue} : intent' = [intent EXCEPT ![t] = With(@, k, v)]
    /\ departed \subseteq departed'
    /\ looked' = [looked EXCEPT ![t] = {}]
    /\ HeapStep(t, k) /\ TreeStep(t, k) /\ ChangesStep(t, k) /\ OpsStep(t, k)

LEMMA ChangesStepIs ==
    ASSUME Typed, HeapOK, NEW t \in Txns, NEW k \in Keys, ChangesStep(t, k)
    PROVE  /\ changes' \in [Txns -> [Keys -> Names \cup {NoNode}]]
           /\ \A s \in Txns, j \in Keys : s # t \/ j # k => changes'[s][j] = changes[s][j]
           /\ changes' = changes \/ (New(t) \in DOMAIN heap' /\ changes'[t][k] = New(t) /\ tree' = tree)
<1>1. New(t) \in Names
  BY NewIsNew
<1>2. changes \in [Txns -> [Keys -> Names \cup {NoNode}]]
  BY DEF Typed
<1>3. CASE New(t) \in DOMAIN heap' /\ changes' = [changes EXCEPT ![t][k] = New(t)] /\ tree' = tree
  <2>1. PICK f : f = [changes[t] EXCEPT ![k] = New(t)]
    OBVIOUS
  <2>2. f \in [Keys -> Names \cup {NoNode}] /\ f[k] = New(t) /\ \A j \in Keys : j # k => f[j] = changes[t][j]
    BY <1>1, <1>2, <2>1
  <2>3. changes' = [changes EXCEPT ![t] = f]
    BY <1>3, <2>1
  <2> QED
    BY <1>2, <1>3, <2>2, <2>3
<1> QED
  BY <1>2, <1>3 DEF ChangesStep

LEMMA StepTyped ==
    ASSUME Typed, HeapOK, NEW t \in Txns, NEW k \in Keys, RowStep(t, k)
    PROVE  Typed'
<1>1. New(t) \in Names
  BY NewIsNew
<1>2. tree' \in [Keys -> Names \cup {NoNode}]
  <2>1. TreeStep(t, k) /\ tree \in [Keys -> Names \cup {NoNode}]
    BY DEF RowStep, Typed
  <2> QED
    BY <1>1, <2>1 DEF TreeStep
<1>3. changes' \in [Txns -> [Keys -> Names \cup {NoNode}]]
  BY ChangesStepIs DEF RowStep
<1>4. ops' \in [Txns -> Seq(Operations)]
  <2>1. CASE ops' = ops
    BY <2>1 DEF Typed
  <2>2. CASE \E o : IsOpOf(t, k, o) /\ ops' = [ops EXCEPT ![t] = Append(@, o)]
    <3>1. PICK o \in Operations : ops' = [ops EXCEPT ![t] = Append(@, o)]
      BY <2>2 DEF IsOpOf
    <3>2. ops \in [Txns -> Seq(Operations)] /\ Append(ops[t], o) \in Seq(Operations)
      BY DEF Typed
    <3> QED
      BY <3>1, <3>2
  <2> QED
    BY <2>1, <2>2 DEF RowStep, OpsStep
<1>5. made' \in [Txns -> Nat]
  BY DEF RowStep, Typed
<1>6. DOMAIN intent' = Txns /\ \A s \in Txns : DOMAIN intent'[s] \subseteq Keys
  BY DEF RowStep, Typed, With
<1>7. looked' \in [Txns -> SUBSET Operations]
  BY DEF RowStep, Typed
<1> QED
  BY <1>2, <1>3, <1>4, <1>5, <1>6, <1>7 DEF RowStep, Typed

LEMMA StepHeapOK ==
    ASSUME Typed, HeapOK, NEW t \in Txns, NEW k \in Keys, RowStep(t, k)
    PROVE  /\ HeapOK'
           /\ \A n \in Names : Given(n) => Given(n)'
<1>1. New(t) \in Names /\ New(t)[1] = t /\ New(t)[2] = made[t] + 1
  BY NewIsNew DEF New
<1>2. made \in [Txns -> Nat] /\ made' = [made EXCEPT ![t] = @ + 1]
  BY DEF RowStep, Typed
<1>3. \A n \in Names : Given(n) => Given(n)'
  <2> SUFFICES ASSUME NEW n \in Names, n[1] \in Txns, n[2] <= made[n[1]]
               PROVE  n[2] <= made'[n[1]]
    BY DEF Given
  <2>1. n[2] \in Nat
    BY DEF Names
  <2>2. made'[n[1]] \in Nat /\ made[n[1]] \in Nat /\ made[n[1]] <= made'[n[1]]
    BY <1>2
  <2> QED
    BY <2>1, <2>2
<1>5. DOMAIN heap' \subseteq Names /\ \A n \in DOMAIN heap' : GoodNode(heap'[n])
  BY <1>1 DEF RowStep, HeapStep, HeapOK
<1>6. \A n \in DOMAIN heap' : Given(n)'
  <2> TAKE n \in DOMAIN heap'
  <2>1. CASE n \in DOMAIN heap
    BY <1>3, <2>1 DEF HeapOK
  <2>2. CASE n = New(t)
    <3>1. n[1] = t /\ n[2] = made[t] + 1
      BY <1>1, <2>2
    <3> QED
      BY <1>2, <3>1 DEF Given
  <2> QED
    BY <2>1, <2>2 DEF RowStep, HeapStep
<1> QED
  BY <1>3, <1>5, <1>6 DEF HeapOK, GoodNode

LEMMA StepTreeOK ==
    ASSUME Typed, HeapOK, TreeOK, ChangesOK, NEW t \in Txns, NEW k \in Keys, RowStep(t, k)
    PROVE  TreeOK' /\ ChangesOK'
<1>1. New(t) \in Names /\ New(t) \notin DOMAIN heap /\ New(t)[1] = t
  BY NewIsNew
<1>2. /\ DOMAIN heap \subseteq DOMAIN heap'
      /\ \A n \in DOMAIN heap : heap'[n].key = heap[n].key
      /\ New(t) \in DOMAIN heap' => heap'[New(t)].key = k
      /\ pc' = pc /\ pc[t] = "active"
  BY DEF RowStep, HeapStep
<1>3. \A j \in Keys : tree'[j] # NoNode => tree'[j] \in DOMAIN heap' /\ heap'[tree'[j]].key = j
  <2> TAKE j \in Keys
  <2>1. tree[j] # NoNode => tree[j] \in DOMAIN heap' /\ heap'[tree[j]].key = j
    BY <1>2 DEF TreeOK, Linked, Row
  <2>2. CASE tree' = tree
    BY <2>1, <2>2
  <2>3. CASE New(t) \in DOMAIN heap' /\ tree' = [tree EXCEPT ![k] = New(t)]
    <3>1. tree'[k] = New(t) /\ (j # k => tree'[j] = tree[j])
      BY <2>3 DEF Typed
    <3> QED
      BY <1>2, <2>1, <2>3, <3>1
  <2> QED
    BY <2>2, <2>3 DEF RowStep, TreeStep
<1>4. ASSUME NEW s \in Txns, NEW j \in Keys, changes'[s][j] # NoNode
      PROVE  /\ changes'[s][j] \in DOMAIN heap' /\ heap'[changes'[s][j]].key = j
             /\ changes'[s][j][1] = s /\ changes'[s][j] # tree'[j] /\ pc'[s] # "done"
  <2>1. tree[j] = NoNode \/ tree[j] \in DOMAIN heap
    BY DEF TreeOK, Linked
  <2>2. changes[s][j] # NoNode =>
           /\ changes[s][j] \in DOMAIN heap' /\ heap'[changes[s][j]].key = j
           /\ changes[s][j][1] = s /\ changes[s][j] # tree[j] /\ pc'[s] # "done"
           /\ changes[s][j] \in DOMAIN heap
    BY <1>2 DEF ChangesOK, Unfinished
  <2>3. CASE changes' = changes
    <3>1. tree'[j] = tree[j] \/ tree'[j] = New(t)
      BY DEF RowStep, TreeStep, Typed
    <3> QED
      BY <1>1, <1>4, <2>2, <2>3, <3>1
  <2>4. CASE New(t) \in DOMAIN heap' /\ changes' = [changes EXCEPT ![t][k] = New(t)] /\ tree' = tree
    <3>1. CASE s = t /\ j = k
      <4>1. changes'[s][j] = New(t)
        BY <2>4, <3>1 DEF Typed
      <4>2. New(t) # tree'[j]
        BY <1>1, <2>1, <2>4, NobodyIsNamed
      <4> QED
        BY <1>1, <1>2, <2>4, <3>1, <4>1, <4>2
    <3>2. CASE ~(s = t /\ j = k)
      <4>1. changes'[s][j] = changes[s][j]
        BY <2>4, <3>2 DEF Typed
      <4> QED
        BY <1>4, <2>2, <2>4, <4>1
    <3> QED
      BY <3>1, <3>2
  <2> QED
    BY <2>3, <2>4 DEF RowStep, ChangesStep
<1> QED
  BY <1>3, <1>4 DEF TreeOK, ChangesOK, Linked, Row, Unfinished

LEMMA StepUpdatesOK ==
    ASSUME Typed, HeapOK, UpdatesOK, NEW t \in Txns, NEW k \in Keys, RowStep(t, k)
    PROVE  UpdatesOK'
<1>1. New(t) \in Names /\ New(t) # NoNode
  BY NewIsNew, NobodyIsNamed
<1>2. ASSUME NEW n \in DOMAIN heap', NEW s \in Txns, heap'[n].op = "update", heap'[n].id = s, pc'[s] # "done"
      PROVE  changes'[s][heap'[n].key] # NoNode
  <2>1. CASE n \in DOMAIN heap /\ heap[n].op = "update" /\ heap[n].id = s
    <3>1. heap'[n].key = heap[n].key /\ heap[n].key \in Keys /\ pc[s] # "done"
      BY <1>2, <2>1 DEF RowStep, HeapStep, HeapOK, Nodes
    <3>2. changes[s][heap[n].key] # NoNode
      BY <2>1, <3>1 DEF UpdatesOK, Unfinished
    <3>3. changes'[s][heap[n].key] = changes[s][heap[n].key] \/ changes'[s][heap[n].key] = New(t)
      BY <3>1, ChangesStepIs DEF RowStep
    <3> QED
      BY <1>1, <3>1, <3>2, <3>3
  <2>2. CASE s = t /\ heap'[n].key = k /\ changes'[t][k] # NoNode
    BY <2>2
  <2> QED
    BY <1>2, <2>1, <2>2 DEF RowStep, HeapStep
<1> QED
  BY <1>2 DEF UpdatesOK, Unfinished

LEMMA StepOpsOK ==
    ASSUME Typed, HeapOK, NEW t \in Txns, NEW k \in Keys, RowStep(t, k), NEW s \in Txns, OpsOK(s)
    PROVE  OpsOK(s)'
<1>1. \A n \in Names : Given(n) => Given(n)'
  BY StepHeapOK
<1>2. \A n \in DOMAIN heap' : Given(n)'
  BY StepHeapOK DEF HeapOK
<1>3. (\A j \in Keys : ~Wild(j)') => \A j \in Keys : ~Wild(j)
  BY DEF RowStep, Wild
<1>4. DOMAIN heap \subseteq DOMAIN heap'
  BY DEF RowStep, HeapStep
<1>5. ASSUME NEW i \in DOMAIN ops[s]
      PROVE  /\ IsMarkedRight(ops[s][i]) /\ ops[s][i].id \in {s, NoTxn} /\ \E n : n = ops[s][i].entry /\ Given(n)'
             /\ ops[s][i].kind = "update" => ops[s][i].new \in Names
             /\ (\A j \in Keys : ~Wild(j)') => ops[s][i].entry \in DOMAIN heap'
  <2>1. ops[s][i] \in Operations
    BY DEF Typed
  <2>2. ops[s][i].entry \in Names
    BY <2>1 DEF Operations
  <2> QED
    BY <1>1, <1>3, <1>4, <2>2 DEF OpsOK
<1>6. ASSUME NEW i \in DOMAIN ops'[s]
      PROVE  \E o : /\ o = ops'[s][i] /\ IsMarkedRight(o) /\ o.id \in {s, NoTxn}
                    /\ \E n : n = o.entry /\ Given(n)'
                    /\ o.kind = "update" => o.new \in Names
                    /\ (\A j \in Keys : ~Wild(j)') => o.entry \in DOMAIN heap'
  <2>1. CASE ops'[s] = ops[s]
    BY <1>5, <1>6, <2>1
  <2>2. CASE s = t /\ \E o : IsOpOf(t, k, o) /\ ops'[t] = Append(ops[t], o)
    <3>1. PICK o : IsOpOf(t, k, o) /\ ops'[t] = Append(ops[t], o)
      BY <2>2
    <3>2. ops[t] \in Seq(Operations) /\ o \in Operations
      BY <3>1 DEF Typed, IsOpOf
    <3>3. \/ i \in DOMAIN ops[s] /\ ops'[s][i] = ops[s][i]
          \/ ops'[s][i] = o
      BY <1>6, <2>2, <3>1, <3>2
    <3>4. CASE i \in DOMAIN ops[s] /\ ops'[s][i] = ops[s][i]
      BY <1>5, <3>4
    <3>5. CASE ops'[s][i] = o
      BY <1>2, <2>2, <3>1, <3>5 DEF IsOpOf
    <3> QED
      BY <3>3, <3>4, <3>5
  <2>3. \/ ops'[s] = ops[s]
        \/ s = t /\ \E o : IsOpOf(t, k, o) /\ ops'[t] = Append(ops[t], o)
    BY DEF RowStep, OpsStep, Typed
  <2> QED
    BY <2>1, <2>2, <2>3
<1>7. pc'[s] = "done" => ops'[s] = <<>> /\ DOMAIN intent'[s] = {}
  BY DEF RowStep, OpsStep, Typed, OpsOK, Unfinished, ChangedKeys
<1> QED
  BY <1>6, <1>7 DEF OpsOK, Unfinished, ChangedKeys, Given, IsMarkedRight

\* Who else is between a look and a mark finds the node in its place.
LEMMA StepLookedOK ==
    ASSUME Typed, HeapOK, NEW t \in Txns, NEW k \in Keys, RowStep(t, k), NEW s \in Txns, LookedOK(s)
    PROVE  LookedOK(s)'
<1>1. looked' = [looked EXCEPT ![t] = {}] /\ DOMAIN looked = Txns
  BY DEF RowStep, Typed
<1>2. CASE s = t
  BY <1>1, <1>2 DEF LookedOK
<1>3. CASE s # t
  <2>1. looked'[s] = looked[s] /\ pc' = pc /\ New(s)' = New(s)
    BY <1>1, <1>3 DEF RowStep, New, Typed
  <2> SUFFICES ASSUME NEW o \in looked[s]
               PROVE  /\ pc'[s] = "active" /\ IsMarkedRight(o) /\ o.id \in {s, NoTxn}
                      /\ o.entry \in DOMAIN heap'
                      /\ \E j \in Keys : /\ heap'[o.entry].key = j
                                         /\ \/ o.entry = tree'[j] /\ o.op # "update"
                                            \/ o.entry = changes'[s][j] /\ o.entry # tree'[j]
                      /\ \/ o.kind = "update" /\ o.op \in {"none", "update"} /\ o.new = New(s)
                         \/ o.kind = "deleted_insert" /\ o.op = "insert"
                         \/ o.kind = "delete" /\ o.op \in {"none", "update"}
    BY <2>1 DEF LookedOK, IsMarkedRight, IsAbout, IsShown
  <2>2. /\ pc[s] = "active" /\ IsMarkedRight(o) /\ o.id \in {s, NoTxn} /\ o.entry \in DOMAIN heap
        /\ \/ o.kind = "update" /\ o.op \in {"none", "update"} /\ o.new = New(s)
           \/ o.kind = "deleted_insert" /\ o.op = "insert"
           \/ o.kind = "delete" /\ o.op \in {"none", "update"}
    BY DEF LookedOK
  <2>3. PICK j \in Keys : /\ heap[o.entry].key = j
                         /\ \/ o.entry = tree[j] /\ o.op # "update"
                            \/ o.entry = changes[s][j] /\ o.entry # tree[j]
    BY DEF LookedOK, IsAbout, IsShown
  <2>4. tree' = tree
    BY DEF RowStep, TreeStep, TreeIsFree
  <2>5. changes'[s][j] = changes[s][j]
    BY <1>3, ChangesStepIs DEF RowStep
  <2>6. o.entry \in DOMAIN heap' /\ heap'[o.entry].key = j
    BY <2>2, <2>3 DEF RowStep, HeapStep
  <2> QED
    BY <2>1, <2>2, <2>3, <2>4, <2>5, <2>6
<1> QED
  BY <1>2, <1>3

LEMMA StepUntouched ==
    ASSUME Typed, HeapOK, NEW t \in Txns, NEW k \in Keys, RowStep(t, k), \A s \in Txns : OpsOK(s),
           NEW j \in Keys, j # k
    PROVE  Untouched(j)
<1>1. \A n \in DOMAIN heap : heap[n].key = j => n \in DOMAIN heap' /\ heap'[n] = heap[n]
  BY DEF RowStep, HeapStep
<1>2. tree'[j] = tree[j] /\ committed'[j] = committed[j] /\ \A s \in Txns : changes'[s][j] = changes[s][j]
  BY ChangesStepIs DEF RowStep, TreeStep, Typed
<1>3. ASSUME NEW s \in Txns
      PROVE  On(s, j)' = On(s, j) /\ \A i \in On(s, j) : ops'[s][i] = ops[s][i]
  <2>1. \A i \in DOMAIN ops[s] : ops[s][i].entry # New(t)
    BY NewIsNew DEF OpsOK
  <2>2. \A n : n # New(t) => (n \in DOMAIN heap' <=> n \in DOMAIN heap)
    BY DEF RowStep, HeapStep
  <2>3. \A n \in DOMAIN heap : heap'[n].key = heap[n].key
    BY DEF RowStep, HeapStep
  <2>4. \A i \in DOMAIN ops[s] :
           /\ ops[s][i].entry \in DOMAIN heap' <=> ops[s][i].entry \in DOMAIN heap
           /\ ops[s][i].entry \in DOMAIN heap => heap'[ops[s][i].entry].key = heap[ops[s][i].entry].key
    BY <2>1, <2>2, <2>3
  <2>5. CASE ops'[s] = ops[s]
    BY <2>4, <2>5 DEF On
  <2>6. CASE s = t /\ \E o : IsOpOf(t, k, o) /\ ops'[t] = Append(ops[t], o)
    <3>1. PICK o : IsOpOf(t, k, o) /\ ops'[t] = Append(ops[t], o)
      BY <2>6
    <3>2. ops[t] \in Seq(Operations) /\ o \in Operations
      BY <3>1 DEF Typed, IsOpOf
    <3>3. /\ DOMAIN ops'[t] = DOMAIN ops[t] \cup {Len(ops[t]) + 1}
          /\ Len(ops[t]) + 1 \notin DOMAIN ops[t] /\ ops'[t][Len(ops[t]) + 1] = o
          /\ \A i \in DOMAIN ops[t] : ops'[t][i] = ops[t][i]
      BY <3>1, <3>2
    <3>4. heap'[o.entry].key # j
      BY <3>1 DEF IsOpOf
    <3>5. \A i : i \in On(s, j)' <=> i \in On(s, j)
      BY <2>4, <2>6, <3>3, <3>4 DEF On
    <3>6. \A i \in On(s, j) : i \in DOMAIN ops[t]
      BY <2>6 DEF On
    <3> QED
      BY <2>6, <3>3, <3>5, <3>6
  <2>7. \/ ops'[s] = ops[s]
        \/ s = t /\ \E o : IsOpOf(t, k, o) /\ ops'[t] = Append(ops[t], o)
    BY DEF RowStep, OpsStep, Typed
  <2> QED
    BY <2>5, <2>6, <2>7
<1>4. ASSUME NEW s \in Txns
      PROVE  /\ j \in DOMAIN intent'[s] <=> j \in DOMAIN intent[s]
             /\ j \in DOMAIN intent[s] => intent'[s][j] = intent[s][j] /\ pc'[s] = pc[s]
  <2>1. PICK v : intent' = [intent EXCEPT ![t] = With(@, k, v)]
    BY DEF RowStep
  <2>2. DOMAIN intent = Txns /\ pc' = pc
    BY DEF RowStep, Typed
  <2> QED
    BY <2>1, <2>2 DEF With
<1> QED
  BY <1>1, <1>2, <1>3, <1>4 DEF Untouched, ChangedKeys

\* The invariant after such a step, but for what it says of the row itself.
Rest(k) ==
    /\ ~Wild(k) => KeyOK(k) /\ \A t \in Txns : ListOK(t, k)
    /\ ~Departed(k) => Shows(k) /\ LogOK(k)
LEMMA StepIsSound ==
    ASSUME Sound, NEW t \in Txns, NEW k \in Keys, RowStep(t, k), Rest(k)'
    PROVE  Sound'
<1>1. /\ Typed /\ HeapOK /\ TreeOK /\ ChangesOK /\ UpdatesOK
      /\ \A s \in Txns : OpsOK(s) /\ LookedOK(s)
  BY DEF Sound
<1>2. Typed' /\ HeapOK' /\ TreeOK' /\ ChangesOK' /\ UpdatesOK' /\ \A s \in Txns : OpsOK(s)'
  BY <1>1, StepTyped, StepHeapOK, StepTreeOK, StepUpdatesOK, StepOpsOK
<1>3. \A s \in Txns : LookedOK(s)'
  BY <1>1, StepLookedOK
<1>4. ASSUME NEW j \in Keys, j # k
      PROVE  Rest(j)'
  <2>1. Untouched(j)
    BY <1>1, <1>4, StepUntouched
  <2>2. Unlogged(j)
    BY LogIsLeft DEF RowStep
  <2>3. (~Wild(j)' => ~Wild(j)) /\ (~Departed(j)' => ~Departed(j)) /\ (~Departed(j) => ~Wild(j))
    BY DEF RowStep, Wild, Departed
  <2>4. ~Wild(j) => KeyOK(j) /\ KeyOK(j)' /\ \A s \in Txns : ListOK(s, j)'
    BY <1>1, <2>1, UntouchedKeyOK, UntouchedListOK DEF Sound
  <2>5. ~Departed(j) => Shows(j)' /\ LogOK(j)'
    BY <1>1, <2>1, <2>2, <2>3, <2>4, UntouchedShows, UntouchedLogOK DEF Sound
  <2> QED
    BY <2>3, <2>4, <2>5 DEF Rest
<1>5. \A j \in Keys : Rest(j)'
  BY <1>4
<1> QED
  BY <1>2, <1>3, <1>5 DEF Sound, Rest

\* The list of the operations on the row, one longer or the same.
LEMMA ListGrows ==
    ASSUME Typed, HeapOK, NEW t \in Txns, NEW k \in Keys, RowStep(t, k), \A s \in Txns : OpsOK(s),
           NEW o, IsOpOf(t, k, o), Noted(t, o)
    PROVE  /\ \A s \in Txns : s # t => On(s, k)' = On(s, k) /\ ops'[s] = ops[s]
           /\ \E l : /\ l \notin On(t, k) /\ On(t, k)' = On(t, k) \cup {l} /\ ops'[t][l] = o
                     /\ \A i \in On(t, k) : i < l /\ ~(l < i) /\ ops'[t][i] = ops[t][i]
                     /\ ~(l < l)
<1>1. /\ ops[t] \in Seq(Operations) /\ o \in Operations /\ ops'[t] = Append(ops[t], o)
      /\ \A s \in Txns : s # t => ops'[s] = ops[s]
  BY DEF Typed, IsOpOf, Noted
<1>2. PICK l : l = Len(ops[t]) + 1
  OBVIOUS
<1>3. /\ DOMAIN ops'[t] = DOMAIN ops[t] \cup {l} /\ l \notin DOMAIN ops[t] /\ ops'[t][l] = o
      /\ \A i \in DOMAIN ops[t] : ops'[t][i] = ops[t][i] /\ i < l /\ ~(l < i)
      /\ ~(l < l)
  BY <1>1, <1>2
<1>4. ASSUME NEW s \in Txns, NEW i \in DOMAIN ops[s]
      PROVE  /\ ops[s][i].entry \in DOMAIN heap' <=> ops[s][i].entry \in DOMAIN heap
             /\ ops[s][i].entry \in DOMAIN heap => heap'[ops[s][i].entry].key = heap[ops[s][i].entry].key
  <2>1. ops[s][i].entry # New(t)
    BY <1>4, NewIsNew DEF OpsOK
  <2> QED
    BY <2>1 DEF RowStep, HeapStep
<1>5. \A s \in Txns : s # t => On(s, k)' = On(s, k)
  BY <1>1, <1>4 DEF On
<1>6. \A i : i \in On(t, k)' <=> i \in On(t, k) \/ i = l
  BY <1>1, <1>3, <1>4 DEF On, IsOpOf
<1>7. \A i \in On(t, k) : i \in DOMAIN ops[t]
  BY DEF On
<1> QED
  BY <1>1, <1>3, <1>5, <1>6, <1>7

LEMMA ListRests ==
    ASSUME Typed, HeapOK, NEW t \in Txns, NEW k \in Keys, RowStep(t, k), \A s \in Txns : OpsOK(s),
           ops' = ops, NEW s \in Txns
    PROVE  On(s, k)' = On(s, k)
<1>1. ASSUME NEW i \in DOMAIN ops[s]
      PROVE  /\ ops[s][i].entry \in DOMAIN heap' <=> ops[s][i].entry \in DOMAIN heap
             /\ ops[s][i].entry \in DOMAIN heap => heap'[ops[s][i].entry].key = heap[ops[s][i].entry].key
  <2>1. ops[s][i].entry # New(t)
    BY <1>1, NewIsNew DEF OpsOK
  <2> QED
    BY <2>1 DEF RowStep, HeapStep
<1> QED
  BY <1>1 DEF On

\* What t wants of its row, and what the others want of theirs.
Wanted(t, k, v) == intent' = [intent EXCEPT ![t] = With(@, k, v)]
LEMMA StepIntents ==
    ASSUME Typed, NEW t \in Txns, NEW k \in Keys, NEW v, Wanted(t, k, v)
    PROVE  /\ k \in ChangedKeys(t)' /\ intent'[t][k] = v
           /\ \A s \in Txns : s # t => (k \in ChangedKeys(s)' <=> k \in ChangedKeys(s)) /\ intent'[s] = intent[s]
<1>1. DOMAIN intent = Txns
  BY DEF Typed
<1> QED
  BY <1>1 DEF With, ChangedKeys, Wanted

\* The log is as right about a row as before its transaction has logged.
LEMMA StepLogOK ==
    ASSUME Sound, NEW t \in Txns, NEW k \in Keys, RowStep(t, k), ~Departed(k)',
           \A s \in Txns \ {t} : k \notin ChangedKeys(s)
    PROVE  LogOK(k)'
<1>1. ~Departed(k) /\ LogOK(k)
  BY DEF RowStep, Departed, Sound
<1>2. pc' = pc /\ pc[t] = "active" /\ committed' = committed /\ log' = log
  BY DEF RowStep
<1>3. \A s \in Txns : ~HasLogged(s, k)
  BY <1>2 DEF HasLogged
<1>4. \A s \in Txns : ~HasLogged(s, k)'
  <2>1. PICK v : Wanted(t, k, v)
    BY DEF RowStep, Wanted
  <2>2. \A s \in Txns : s # t => (k \in ChangedKeys(s)' <=> k \in ChangedKeys(s))
    <3>1. Typed
      BY DEF Sound
    <3>2. /\ k \in ChangedKeys(t)' /\ intent'[t][k] = v
          /\ \A s \in Txns : s # t => (k \in ChangedKeys(s)' <=> k \in ChangedKeys(s)) /\ intent'[s] = intent[s]
      BY <2>1, <3>1, StepIntents
    <3> QED
      BY <3>2
  <2> QED
    BY <1>2, <2>2 DEF HasLogged
<1>5. PICK v : v = committed[k]
  OBVIOUS
<1>6. BroughtBack(k, v)'
  <2>1. BroughtBack(k, v)
    BY <1>1, <1>3, <1>5 DEF LogOK
  <2>2. Unlogged(k)
    BY <1>2, LogIsLeft
  <2> QED
    BY <2>1, <2>2 DEF BroughtBack, Unlogged
<1>7. BroughtBack(k, committed[k])'
  BY <1>2, <1>5, <1>6 DEF BroughtBack
<1> QED
  BY <1>4, <1>7 DEF LogOK

\* A row that nobody has changed has no operations, and no pending nodes.
LEMMA FreeRow ==
    ASSUME Sound, NEW k \in Keys, ~Wild(k), Linked(k) => Row(k).op = "none"
    PROVE  \A s \in Txns : ~Holds(s, k) /\ k \notin ChangedKeys(s) /\ changes[s][k] = NoNode /\ On(s, k) = {}
<1>1. KeyOK(k) /\ \A s \in Txns : ListOK(s, k)
  BY DEF Sound
<1>2. \A s \in Txns : ~Holds(s, k)
  <2>1. Linked(k) => Row(k).id = NoTxn
    BY DEF Sound, TreeOK, HeapOK, IsMarkedRight, Row
  <2> QED
    BY <2>1, NobodyIsNamed DEF Holds
<1> QED
  BY <1>1, <1>2 DEF KeyOK, ListOK, Fits

\* Who looks at nothing stays so.
LEMMA LookedNothing ==
    ASSUME Typed, NEW t \in Txns, looked[t] = {}
    PROVE  looked = [looked EXCEPT ![t] = {}]
BY DEF Typed

LEMMA InsertIsSound ==
    ASSUME Sound, NEW t \in Txns, NEW k \in Keys, Insert(t, k)
    PROVE  Sound' /\ departed' = departed /\ corrupt' = FALSE
<1>0. /\ Typed /\ HeapOK /\ TreeOK /\ \A s \in Txns : OpsOK(s)
      /\ pc[t] = "active" /\ TreeIsFree
      /\ ~Linked(k) /\ departed' = departed /\ corrupt' = FALSE
      /\ UNCHANGED <<log, pc, changes, committed>> /\ looked' = [looked EXCEPT ![t] = {}]
  <2>1. corrupt' = corrupt /\ ~corrupt /\ corrupt \in BOOLEAN => corrupt' = FALSE
    OBVIOUS
  <2>2. looked' = looked /\ looked[t] = {} /\ DOMAIN looked = Txns
    BY DEF Sound, Typed, Insert, Active
  <2>3. looked' = [looked EXCEPT ![t] = {}]
    BY <2>2, LookedNothing DEF Sound
  <2>4. corrupt' = FALSE
    BY <2>1 DEF Sound, Typed, Insert, Active
  <2> QED
    BY <2>3, <2>4 DEF Sound, Insert, Active
<1>1. PICK n : n = New(t)
  OBVIOUS
<1>2. n \in Names /\ n \notin DOMAIN heap /\ n # NoNode
  BY <1>0, <1>1, NewIsNew, NobodyIsNamed
<1>3. PICK h : h = With(heap, n, Node(k, n))
  OBVIOUS
<1>4. /\ DOMAIN h = DOMAIN heap \cup {n} /\ \A x \in DOMAIN heap : h[x] = heap[x]
      /\ h[n] = [key |-> k, val |-> n, op |-> "none", id |-> NoTxn] /\ h[n] \in Nodes
  BY <1>2, <1>3 DEF With, Node, Nodes
<1>5. heap' = Marked(h, t, n, "insert")
  BY <1>1, <1>3 DEF Insert, LinkNew
<1>6. /\ DOMAIN heap' = DOMAIN heap \cup {n} /\ \A x \in DOMAIN heap : heap'[x] = heap[x]
      /\ heap'[n] = [key |-> k, val |-> n, op |-> "insert", id |-> t]
  BY <1>2, <1>4, <1>5, MarkedIs
<1>7. tree' = [tree EXCEPT ![k] = n] /\ tree'[k] = n
  BY <1>0, <1>1 DEF Insert, LinkNew, Typed
<1>8. PICK o : o = InsertOperation(n)
  OBVIOUS
<1>9. /\ o.kind = "insert" /\ o.entry = n /\ o.op = "none" /\ o.id = NoTxn
      /\ o \in Operations
  BY <1>2, <1>8 DEF InsertOperation, Operation, Operations, Marks
<1>10. Noted(t, o) /\ IsOpOf(t, k, o)
  BY <1>1, <1>6, <1>8, <1>9 DEF Insert, LinkNew, IsOpOf, IsMarkedRight
<1>11. Wanted(t, k, n) /\ made' = [made EXCEPT ![t] = @ + 1]
  BY <1>1 DEF Insert, Wants, Wanted
<1>12. RowStep(t, k)
  <2>1. HeapStep(t, k)
    <3>1. GoodNode(heap'[n])
      BY <1>2, <1>6, NobodyIsNamed DEF GoodNode, Nodes, IsMarkedRight, Marks
    <3>2. \A x \in DOMAIN heap : GoodNode(heap'[x])
      BY <1>0, <1>6 DEF GoodNode, HeapOK
    <3>3. \A x \in DOMAIN heap' : GoodNode(heap'[x])
      BY <1>6, <3>1, <3>2
    <3> QED
      BY <1>1, <1>2, <1>6, <3>3 DEF HeapStep
  <2>2. TreeStep(t, k) /\ ChangesStep(t, k) /\ OpsStep(t, k)
    BY <1>0, <1>1, <1>6, <1>7, <1>10 DEF TreeStep, ChangesStep, OpsStep, Noted
  <2> QED
    BY <1>0, <1>2, <1>11, <2>1, <2>2 DEF RowStep, Typed, Wanted
<1>13. Linked(k)' /\ Row(k)' = [key |-> k, val |-> n, op |-> "insert", id |-> t]
  BY <1>2, <1>6, <1>7 DEF Linked, Row
<1>14. /\ k \in ChangedKeys(t)' /\ intent'[t][k] = n
       /\ \A s \in Txns : s # t => (k \in ChangedKeys(s)' <=> k \in ChangedKeys(s))
  BY <1>0, <1>11, StepIntents
<1>15. \A s \in Txns : Holds(s, k)' <=> s = t
  BY <1>13 DEF Holds
<1>16. ASSUME ~Wild(k)
       PROVE  KeyOK(k)' /\ \A s \in Txns : ListOK(s, k)'
  <2>1. \A s \in Txns : k \notin ChangedKeys(s) /\ changes[s][k] = NoNode /\ On(s, k) = {}
    BY <1>0, <1>16, FreeRow
  <2>2. \A s \in Txns : s # t => On(s, k)' = {}
    BY <1>0, <1>10, <1>12, <2>1, ListGrows
  <2>3. PICK l : On(t, k)' = {l} /\ ops'[t][l] = o /\ ~(l < l)
    BY <1>0, <1>10, <1>12, <2>1, ListGrows
  <2>4. KeyOK(k)'
    <3>1. \A s \in Txns : changes'[s][k] = NoNode /\ (k \in ChangedKeys(s)' <=> s = t)
      BY <1>0, <1>14, <2>1
    <3>2. Unfinished(t)'
      BY <1>0 DEF Unfinished
    <3> QED
      BY <1>7, <1>9, <1>13, <1>15, <2>3, <3>1, <3>2 DEF KeyOK
  <2>5. Fits(t, o, k)'
    BY <1>7, <1>9, <1>13, <1>15 DEF Fits
  <2>6. ListOK(t, k)'
    BY <2>3, <2>5 DEF ListOK, Fits
  <2> QED
    BY <2>2, <2>4, <2>6 DEF ListOK
<1>17. ASSUME ~Departed(k)
       PROVE  Shows(k)' /\ LogOK(k)'
  <2>1. ~Wild(k)
    BY <1>17 DEF Departed, Wild
  <2>2. \A s \in Txns : k \notin ChangedKeys(s)
    BY <1>0, <2>1, FreeRow
  <2>3. LogOK(k)'
    BY <1>0, <1>12, <1>17, <2>2, StepLogOK DEF Departed
  <2>4. committed'[k] = NoValue /\ Visible(k)' = NoValue
    <3>1. committed[k] = NoValue
      BY <1>0, <1>17 DEF Sound, Shows, Visible, ErasedInsert
    <3> QED
      BY <1>0, <1>13, <3>1 DEF Visible
  <2>5. \A s \in Txns : k \in ChangedKeys(s)' => s = t
    BY <1>14, <2>2
  <2> QED
    BY <1>13, <1>14, <2>3, <2>4, <2>5 DEF Shows
<1>18. Rest(k)'
  BY <1>0, <1>16, <1>17 DEF Rest, Wild, Departed
<1> QED
  BY <1>0, <1>12, <1>18, StepIsSound

\* What an iterator of t shows is the row, or the pending node of a row that t updates.
LEMMA CurrentIs ==
    ASSUME Sound, NEW t \in Txns, NEW k \in Keys, pc[t] = "active", Found(t, k), NEW n, n = Current(t, k)
    PROVE  /\ n \in DOMAIN heap /\ heap[n] \in Nodes /\ heap[n].key = k /\ IsMarkedRight(heap[n])
           /\ Linked(k) /\ tree[k] \in DOMAIN heap /\ Row(k).key = k
           /\ \/ n = tree[k]
              \/ n = changes[t][k] /\ n # tree[k] /\ n # NoNode /\ Row(k).op = "update" /\ Row(k).id = t
           /\ n = tree[k] /\ ~HeldByOther(t, n) => heap[n].op # "update"
<1>1. Linked(k)
  BY DEF Found
<1>2. tree[k] \in DOMAIN heap /\ heap[tree[k]].key = k
  BY <1>1 DEF Sound, TreeOK, Row
<1>3. Row(k).op = "update" /\ Mine(t, tree[k]) => changes[t][k] # NoNode
  BY <1>2 DEF Sound, UpdatesOK, Unfinished, Row, Mine
<1>4. changes[t][k] # NoNode => changes[t][k] \in DOMAIN heap /\ heap[changes[t][k]].key = k /\ changes[t][k] # tree[k]
  BY DEF Sound, ChangesOK
<1>5. \A x \in DOMAIN heap : heap[x] \in Nodes /\ IsMarkedRight(heap[x])
  BY DEF Sound, HeapOK
<1>6. CASE Row(k).op = "update" /\ Mine(t, tree[k])
  <2>1. n = changes[t][k]
    BY <1>6 DEF Current, PendingUpdate
  <2> QED
    BY <1>1, <1>2, <1>3, <1>4, <1>5, <1>6, <2>1 DEF Mine, Row
<1>7. CASE ~(Row(k).op = "update" /\ Mine(t, tree[k]))
  <2>1. n = tree[k]
    BY <1>7 DEF Current
  <2>2. ~HeldByOther(t, n) => heap[n].op # "update"
    BY <1>7, <2>1 DEF HeldByOther, Row
  <2> QED
    BY <1>1, <1>2, <1>5, <2>1, <2>2 DEF Row
<1> QED
  BY <1>6, <1>7

\* An update of a row that t has inserted makes it wild.
LEMMA RewritingIsSound ==
    ASSUME Sound, NEW t \in Txns, NEW k \in Keys, Rewrite(t, k)
    PROVE  Sound' /\ departed' = departed \cup {<<"rewritten", k>>} /\ corrupt' = FALSE
<1>1. PICK n : n = Current(t, k)
  OBVIOUS
<1>2. PICK v : v = New(t)
  OBVIOUS
<1>0. /\ Typed /\ HeapOK /\ TreeOK /\ \A s \in Txns : OpsOK(s)
      /\ pc[t] = "active" /\ looked' = [looked EXCEPT ![t] = {}]
      /\ Found(t, k) /\ UNCHANGED <<tree, log, pc, committed, corrupt>> /\ ~corrupt
  <2>1. Typed /\ looked' = looked /\ looked[t] = {}
    BY DEF Sound, Rewrite, Active
  <2>2. looked' = [looked EXCEPT ![t] = {}]
    BY <2>1, LookedNothing
  <2> QED
    BY <2>2 DEF Sound, Rewrite, Active
<1>3. /\ heap' = Assigned(heap, n, v) /\ departed' = departed \cup {<<"rewritten", k>>}
      /\ UNCHANGED <<changes, ops>>
  BY <1>1, <1>2 DEF Rewrite
<1>4. n \in DOMAIN heap /\ heap[n] \in Nodes /\ heap[n].key = k
  BY <1>0, <1>1, CurrentIs
<1>5. v \in Names /\ v \notin DOMAIN heap
  BY <1>0, <1>2, NewIsNew
<1>6. /\ DOMAIN heap' = DOMAIN heap /\ \A x \in DOMAIN heap : x # n => heap'[x] = heap[x]
      /\ heap'[n] = [key |-> k, val |-> v, op |-> "none", id |-> NoTxn]
  BY <1>3, <1>4, <1>5, AssignedIs
<1>7. RowStep(t, k)
  <2>1. HeapStep(t, k)
    <3>1. GoodNode(heap'[n])
      BY <1>5, <1>6 DEF GoodNode, Nodes, IsMarkedRight
    <3>2. \A x \in DOMAIN heap : x # n => GoodNode(heap'[x])
      BY <1>0, <1>6 DEF GoodNode, HeapOK
    <3>3. \A x \in DOMAIN heap' : GoodNode(heap'[x])
      BY <1>6, <3>1, <3>2
    <3> QED
      BY <1>2, <1>4, <1>5, <1>6, <3>3 DEF HeapStep
  <2>2. TreeStep(t, k) /\ ChangesStep(t, k) /\ OpsStep(t, k)
    BY <1>0, <1>3 DEF TreeStep, ChangesStep, OpsStep
  <2>3. intent' = [intent EXCEPT ![t] = With(@, k, v)] /\ made' = [made EXCEPT ![t] = @ + 1]
    BY <1>2 DEF Rewrite, Wants
  <2> QED
    BY <1>0, <1>3, <1>5, <2>1, <2>2, <2>3 DEF RowStep, Typed
<1>8. Rest(k)'
  <2>1. PICK d : d = <<"rewritten", k>>
    OBVIOUS
  <2>2. d[1] = "rewritten" /\ d[2] = k /\ d \in departed'
    BY <1>3, <2>1
  <2>3. Wild(k)' /\ Departed(k)'
    BY <2>2 DEF Wild, Departed
  <2> QED
    BY <2>3 DEF Rest
<1>9. Sound'
  BY <1>7, <1>8, StepIsSound
<1> QED
  BY <1>0, <1>3, <1>9

\* What the operation is of which t has looked at the node: the node is still the one of
\* the row that an iterator of t shows, and if the mark is, too, t may have it.
LEMMA LookedIs ==
    ASSUME Sound, NEW t \in Txns, NEW k \in Keys, NEW o, o \in looked[t], IsAbout(o, k), NEW n, n = o.entry
    PROVE  /\ pc[t] = "active" /\ o \in Operations /\ IsMarkedRight(o) /\ o.id \in {t, NoTxn}
           /\ n \in DOMAIN heap /\ heap[n] \in Nodes /\ heap[n].key = k /\ n \in Names /\ n # NoNode
           /\ n = tree[k] \/ (n = changes[t][k] /\ n # tree[k])
           /\ \/ o.kind = "update" /\ o.op \in {"none", "update"} /\ o.new = New(t)
              \/ o.kind = "deleted_insert" /\ o.op = "insert"
              \/ o.kind = "delete" /\ o.op \in {"none", "update"}
           /\ ~Wild(k) /\ ~MarkedMeanwhile(o) =>
                 /\ heap[n].op = o.op /\ heap[n].id = o.id /\ ~HeldByOther(t, n)
                 /\ Linked(k) /\ tree[k] \in DOMAIN heap /\ Row(k).key = k
                 /\ \/ n = tree[k] /\ heap[n].op # "update"
                    \/ n = changes[t][k] /\ n # tree[k] /\ Row(k).op = "update" /\ Row(k).id = t
<1>1. /\ pc[t] = "active" /\ o \in Operations /\ IsMarkedRight(o) /\ o.id \in {t, NoTxn} /\ n \in DOMAIN heap
      /\ \/ o.kind = "update" /\ o.op \in {"none", "update"} /\ o.new = New(t)
         \/ o.kind = "deleted_insert" /\ o.op = "insert"
         \/ o.kind = "delete" /\ o.op \in {"none", "update"}
  BY DEF Sound, Typed, LookedOK
<1>2. (n = tree[k] /\ o.op # "update") \/ (n = changes[t][k] /\ n # tree[k])
  BY DEF Sound, LookedOK, IsAbout, IsShown
<1>3. heap[n] \in Nodes /\ heap[n].key = k /\ n \in Names /\ n # NoNode
  BY <1>1, NobodyIsNamed DEF Sound, HeapOK, IsAbout
<1>4. ASSUME ~Wild(k), ~MarkedMeanwhile(o)
      PROVE  /\ heap[n].op = o.op /\ heap[n].id = o.id /\ ~HeldByOther(t, n)
             /\ Linked(k) /\ tree[k] \in DOMAIN heap /\ Row(k).key = k
             /\ \/ n = tree[k] /\ heap[n].op # "update"
                \/ n = changes[t][k] /\ n # tree[k] /\ Row(k).op = "update" /\ Row(k).id = t
  <2>1. heap[n].op = o.op /\ heap[n].id = o.id
    BY <1>4 DEF MarkedMeanwhile
  <2>2. ~HeldByOther(t, n)
    BY <1>1, <2>1 DEF HeldByOther, Mine, IsMarkedRight
  <2>3. KeyOK(k)
    BY <1>4 DEF Sound
  <2>4. n = changes[t][k] /\ n # tree[k] => Row(k).op = "update" /\ Row(k).id = t /\ Linked(k)
    BY <1>3, <2>3 DEF KeyOK, Holds
  <2>5. Linked(k)
    BY <1>2, <1>3, <2>4 DEF Linked
  <2>6. tree[k] \in DOMAIN heap /\ Row(k).key = k
    BY <2>5 DEF Sound, TreeOK
  <2> QED
    BY <1>2, <2>1, <2>2, <2>4, <2>5, <2>6
<1> QED
  BY <1>1, <1>2, <1>3, <1>4

\* If the row is not wild after the second half, it was not before, and the mark had not changed.
LEMMA NotRaced ==
    ASSUME NEW k, NEW o, departed \subseteq departed', Races(o, k) \subseteq departed', ~Wild(k)'
    PROVE  ~Wild(k) /\ ~MarkedMeanwhile(o)
<1>1. ~Wild(k)
  BY DEF Wild
<1>2. ASSUME MarkedMeanwhile(o) PROVE FALSE
  <2>1. PICK d : d = <<"raced", k>>
    OBVIOUS
  <2>2. d \in departed' /\ d[1] = "raced" /\ d[2] = k
    BY <1>2, <2>1 DEF Races
  <2> QED
    BY <2>2 DEF Wild
<1> QED
  BY <1>1, <1>2

\* The nodes of an update: the row is marked, and has a pending node with the new value.
LEMMA UpdatedNodes ==
    ASSUME Sound, NEW t \in Txns, NEW k \in Keys, NEW n \in DOMAIN heap, heap[n] \in Nodes, heap[n].key = k,
           AddPendingUpdate(t, k, Marked(heap, t, n, "update")), NEW v, v = New(t)
    PROVE  /\ DOMAIN heap \subseteq DOMAIN heap' /\ DOMAIN heap' \subseteq DOMAIN heap \cup {v}
           /\ \A x \in DOMAIN heap : x # n /\ x # changes[t][k] => heap'[x] = heap[x]
           /\ n # changes[t][k] => heap'[n] = [key |-> k, val |-> heap[n].val, op |-> "update", id |-> t]
           /\ changes[t][k] = NoNode =>
                 /\ v \in DOMAIN heap' /\ heap'[v] = [key |-> k, val |-> v, op |-> "none", id |-> NoTxn]
                 /\ changes' = [changes EXCEPT ![t][k] = v]
           /\ changes[t][k] # NoNode =>
                 /\ heap'[changes[t][k]] = [key |-> k, val |-> v, op |-> "none", id |-> NoTxn]
                 /\ DOMAIN heap' = DOMAIN heap /\ changes' = changes
<1>0. Typed /\ HeapOK
  BY DEF Sound
<1>3. v \in Names /\ v \notin DOMAIN heap
  BY <1>0, NewIsNew
<1>4. PICK h : h = Marked(heap, t, n, "update")
  OBVIOUS
<1>5. /\ DOMAIN h = DOMAIN heap /\ \A x \in DOMAIN heap : x # n => h[x] = heap[x]
      /\ h[n] = [key |-> k, val |-> heap[n].val, op |-> "update", id |-> t]
  BY <1>4, MarkedIs
<1>6. PICK p : p = changes[t][k]
  OBVIOUS
<1>7. CASE p = NoNode
  <2>1. heap' = With(h, v, Node(k, v)) /\ changes' = [changes EXCEPT ![t][k] = v]
    BY <1>4, <1>6, <1>7 DEF AddPendingUpdate, PendingUpdate
  <2>2. n # p
    BY <1>0, <1>7, NobodyIsNamed DEF HeapOK
  <2>3. /\ DOMAIN heap' = DOMAIN heap \cup {v} /\ \A x \in DOMAIN heap : heap'[x] = h[x]
        /\ heap'[v] = [key |-> k, val |-> v, op |-> "none", id |-> NoTxn]
    BY <1>3, <1>5, <2>1 DEF With, Node
  <2> QED
    BY <1>5, <1>6, <1>7, <2>1, <2>2, <2>3
<1>8. CASE p # NoNode
  <2>1. heap' = Assigned(h, p, v) /\ changes' = changes
    BY <1>4, <1>6, <1>8 DEF AddPendingUpdate, PendingUpdate
  <2>2. p \in DOMAIN heap /\ heap[p].key = k /\ heap[p] \in Nodes
    BY <1>6, <1>8 DEF Sound, ChangesOK, HeapOK
  <2>3. h[p] \in Nodes /\ h[p].key = k
    BY <1>5, <2>2 DEF Nodes, Marks
  <2>4. /\ DOMAIN heap' = DOMAIN heap /\ \A x \in DOMAIN heap : x # p => heap'[x] = h[x]
        /\ heap'[p] = [key |-> k, val |-> v, op |-> "none", id |-> NoTxn]
    BY <1>3, <1>5, <2>1, <2>2, <2>3, AssignedIs
  <2> QED
    BY <1>5, <1>6, <1>8, <2>1, <2>4
<1> QED
  BY <1>7, <1>8

LEMMA UpdateIsSound ==
    ASSUME Sound, NEW t \in Txns, NEW k \in Keys, MarkUpdated(t, k)
    PROVE  Sound' /\ corrupt' = FALSE /\ \E o \in looked[t] : departed' = departed \cup Races(o, k)
<1>1. PICK o \in looked[t] :
         /\ o.kind = "update" /\ IsAbout(o, k)
         /\ AddPendingUpdate(t, k, Marked(heap, t, o.entry, "update"))
         /\ departed' = departed \cup Races(o, k)
         /\ Wants(t, k, New(t))
         /\ SetsMark(t, o)
  BY DEF MarkUpdated
<1>2. PICK n : n = o.entry
  OBVIOUS
<1>2a. PICK v : v = New(t)
  OBVIOUS
<1>3. PICK p : p = changes[t][k]
  OBVIOUS
<1>0. /\ Typed /\ HeapOK /\ TreeOK /\ ChangesOK /\ \A s \in Txns : OpsOK(s)
      /\ looked' = [looked EXCEPT ![t] = {}] /\ Noted(t, o)
      /\ UNCHANGED <<tree, log, pc, committed, corrupt>> /\ ~corrupt
  BY <1>1 DEF Sound, SetsMark
<1>5. /\ pc[t] = "active" /\ o \in Operations /\ IsMarkedRight(o) /\ o.id \in {t, NoTxn}
      /\ n \in DOMAIN heap /\ heap[n] \in Nodes /\ heap[n].key = k /\ n \in Names /\ n # NoNode
      /\ o.op \in {"none", "update"} /\ o.new = New(t)
      /\ ~Wild(k) /\ ~MarkedMeanwhile(o) =>
            /\ heap[n].op = o.op /\ heap[n].id = o.id
            /\ Linked(k) /\ tree[k] \in DOMAIN heap /\ Row(k).key = k
            /\ \/ n = tree[k] /\ heap[n].op # "update"
               \/ n = changes[t][k] /\ n # tree[k] /\ Row(k).op = "update" /\ Row(k).id = t
  BY <1>1, <1>2, LookedIs
<1>4. /\ DOMAIN heap \subseteq DOMAIN heap' /\ DOMAIN heap' \subseteq DOMAIN heap \cup {v}
      /\ \A x \in DOMAIN heap : x # n /\ x # p => heap'[x] = heap[x]
      /\ n # p => heap'[n] = [key |-> k, val |-> heap[n].val, op |-> "update", id |-> t]
      /\ p = NoNode =>
            /\ v \in DOMAIN heap' /\ heap'[v] = [key |-> k, val |-> v, op |-> "none", id |-> NoTxn]
            /\ changes' = [changes EXCEPT ![t][k] = v]
      /\ p # NoNode =>
            /\ heap'[p] = [key |-> k, val |-> v, op |-> "none", id |-> NoTxn]
            /\ DOMAIN heap' = DOMAIN heap /\ changes' = changes
  BY <1>1, <1>2, <1>2a, <1>3, <1>5, UpdatedNodes
<1>6. /\ v \in Names /\ v \notin DOMAIN heap /\ v # NoNode
      /\ p # NoNode => p \in DOMAIN heap /\ heap[p].key = k /\ p # tree[k]
      /\ heap[n].val \in Names
  BY <1>0, <1>2a, <1>3, <1>5, NewIsNew, NobodyIsNamed DEF ChangesOK, Nodes, HeapOK
<1>7. changes'[t][k] = (IF p = NoNode THEN v ELSE p) /\ \A s \in Txns : s # t => changes'[s] = changes[s]
  BY <1>0, <1>3, <1>4 DEF Typed
<1>9. /\ o.kind = "update" /\ o.entry = n /\ o.new = v
      /\ o.id \in {t, NoTxn} /\ IsMarkedRight(o) /\ o \in Operations
  BY <1>1, <1>2, <1>2a, <1>5
<1>10a. ASSUME NEW x \in DOMAIN heap'
        PROVE  \/ x \in DOMAIN heap /\ x # n /\ x # p /\ heap'[x] = heap[x]
               \/ x = n /\ x # p /\ heap'[x] = [key |-> k, val |-> heap[n].val, op |-> "update", id |-> t]
               \/ /\ (x = p /\ p # NoNode) \/ (x = v /\ x \notin DOMAIN heap /\ p = NoNode)
                  /\ heap'[x] = [key |-> k, val |-> v, op |-> "none", id |-> NoTxn]
  <2>1. x \in DOMAIN heap \/ x = v
    BY <1>4
  <2>2. CASE x \in DOMAIN heap
    <3>1. CASE x = p
      <4>1. p # NoNode
        BY <2>2, <3>1, NobodyIsNamed, <1>0 DEF HeapOK
      <4> QED
        BY <1>4, <3>1, <4>1
    <3>2. CASE x # p /\ x = n
      BY <1>4, <3>2
    <3>3. CASE x # p /\ x # n
      BY <1>4, <2>2, <3>3
    <3> QED
      BY <3>1, <3>2, <3>3
  <2>3. CASE x \notin DOMAIN heap /\ x = v
    <3>1. p = NoNode
      BY <1>4, <2>3
    <3> QED
      BY <1>4, <2>3, <3>1
  <2> QED
    BY <2>1, <2>2, <2>3
<1>10. heap'[n].key = k /\ IsOpOf(t, k, o) /\ Noted(t, o)
  <2>1. n \in DOMAIN heap'
    BY <1>4, <1>5
  <2>2. heap'[n].key = k
    BY <1>4, <1>10a, <2>1
  <2> QED
    BY <1>0, <1>6, <1>9, <2>1, <2>2 DEF IsOpOf
<1>11. Wanted(t, k, v) /\ made' = [made EXCEPT ![t] = @ + 1]
  BY <1>1, <1>2a DEF Wants, Wanted
<1>12. RowStep(t, k)
  <2>1. HeapStep(t, k)
    <3>1. \A x \in DOMAIN heap' : GoodNode(heap'[x])
      <4>1. \A x \in DOMAIN heap : GoodNode(heap[x])
        BY <1>0 DEF HeapOK, GoodNode
      <4>2. GoodNode([key |-> k, val |-> heap[n].val, op |-> "update", id |-> t])
        BY <1>6, NobodyIsNamed DEF GoodNode, Nodes, Marks, IsMarkedRight
      <4>3. GoodNode([key |-> k, val |-> v, op |-> "none", id |-> NoTxn])
        BY <1>6 DEF GoodNode, Nodes, IsMarkedRight
      <4> QED
        BY <1>4, <1>10a, <4>1, <4>2, <4>3
    <3>2. \A x \in DOMAIN heap : heap'[x].key = heap[x].key /\ (heap[x].key # k => heap'[x] = heap[x])
      <4> TAKE x \in DOMAIN heap
      <4>1. x \in DOMAIN heap'
        BY <1>4
      <4>2. CASE x = n \/ x = p
        <5>1. heap[x].key = k
          BY <1>5, <1>6, <4>2, NobodyIsNamed, <1>0 DEF HeapOK
        <5>2. heap'[x].key = k
          BY <1>10a, <4>1, <4>2
        <5> QED
          BY <5>1, <5>2
      <4>3. CASE x # n /\ x # p
        BY <1>4, <4>3
      <4> QED
        BY <4>2, <4>3
    <3>3. \A x \in DOMAIN heap', s \in Txns :
             heap'[x].op = "update" /\ heap'[x].id = s =>
                \/ x \in DOMAIN heap /\ heap[x].op = "update" /\ heap[x].id = s
                \/ s = t /\ heap'[x].key = k /\ changes'[t][k] # NoNode
      <4> TAKE x \in DOMAIN heap', s \in Txns
      <4>1. changes'[t][k] # NoNode
        BY <1>6, <1>7
      <4>2. \/ x \in DOMAIN heap /\ heap'[x] = heap[x]
            \/ heap'[x] = [key |-> k, val |-> heap[n].val, op |-> "update", id |-> t]
            \/ heap'[x] = [key |-> k, val |-> v, op |-> "none", id |-> NoTxn]
        BY <1>10a
      <4> QED
        BY <4>1, <4>2
    <3> QED
      BY <1>2a, <1>4, <1>6, <3>1, <3>2, <3>3 DEF HeapStep
  <2>2. ChangesStep(t, k)
    BY <1>0, <1>2a, <1>4 DEF ChangesStep
  <2>3. TreeStep(t, k) /\ OpsStep(t, k)
    BY <1>0, <1>10 DEF TreeStep, OpsStep, Noted
  <2> QED
    BY <1>0, <1>1, <1>5, <1>6, <1>11, <2>1, <2>2, <2>3 DEF RowStep, Wanted
<1>13. /\ k \in ChangedKeys(t)' /\ intent'[t][k] = v
       /\ \A s \in Txns : s # t => (k \in ChangedKeys(s)' <=> k \in ChangedKeys(s))
  BY <1>0, <1>11, StepIntents
<1>14. /\ \A s \in Txns : s # t => On(s, k)' = On(s, k) /\ ops'[s] = ops[s]
       /\ \E l : /\ l \notin On(t, k) /\ On(t, k)' = On(t, k) \cup {l} /\ ops'[t][l] = o
                 /\ \A i \in On(t, k) : i < l /\ ~(l < i) /\ ops'[t][i] = ops[t][i]
                 /\ ~(l < l)
  BY <1>0, <1>10, <1>12, ListGrows
<1>15. PICK l : /\ l \notin On(t, k) /\ On(t, k)' = On(t, k) \cup {l} /\ ops'[t][l] = o
                /\ \A i \in On(t, k) : i < l /\ ~(l < i) /\ ops'[t][i] = ops[t][i]
                /\ ~(l < l)
  BY <1>14
\* What holds unless the row is wild from now on.
<1>16a. ASSUME ~Wild(k)'
        PROVE  /\ ~Wild(k) /\ heap[n].op \in {"none", "update"} /\ heap[n].op = o.op
               /\ Linked(k) /\ tree[k] \in DOMAIN heap
               /\ \/ n = tree[k] /\ heap[n].op = "none"
                  \/ n = p /\ n # tree[k] /\ Row(k).op = "update" /\ Row(k).id = t
  <2>1. ~Wild(k) /\ ~MarkedMeanwhile(o)
    BY <1>1, <1>16a, NotRaced
  <2> QED
    BY <1>3, <1>5, <2>1
\* The first update of the row.
<1>16. ASSUME ~Wild(k)', n = tree[k]
       PROVE  /\ \A s \in Txns : ~Holds(s, k) /\ k \notin ChangedKeys(s) /\ changes[s][k] = NoNode /\ On(s, k) = {}
              /\ Linked(k)' /\ Row(k)' = [key |-> k, val |-> Row(k).val, op |-> "update", id |-> t]
              /\ tree'[k] = n /\ changes'[t][k] = v /\ heap'[v] = [key |-> k, val |-> v, op |-> "none", id |-> NoTxn]
              /\ Row(k).op = "none"
  <2>1. Row(k).op = "none" /\ ~Wild(k)
    BY <1>16, <1>16a DEF Row
  <2>2. \A s \in Txns : ~Holds(s, k) /\ k \notin ChangedKeys(s) /\ changes[s][k] = NoNode /\ On(s, k) = {}
    BY <2>1, FreeRow
  <2>3. p = NoNode
    BY <1>3, <2>2
  <2>4. tree'[k] = n /\ Linked(k)'
    BY <1>0, <1>5, <1>16 DEF Linked
  <2>5. n # p
    BY <1>5, <2>3
  <2>6. Row(k)' = [key |-> k, val |-> Row(k).val, op |-> "update", id |-> t]
    BY <1>4, <1>16, <2>4, <2>5 DEF Row
  <2> QED
    BY <1>4, <1>7, <2>1, <2>2, <2>3, <2>4, <2>6
\* A later one.
<1>17. ASSUME ~Wild(k)', n # tree[k]
       PROVE  /\ n = p /\ Row(k)' = Row(k) /\ Linked(k)' /\ tree'[k] = tree[k] /\ changes' = changes
              /\ heap'[p] = [key |-> k, val |-> v, op |-> "none", id |-> NoTxn]
              /\ Row(k).op = "update" /\ Row(k).id = t /\ heap[p].op # "delete"
  <2>0. /\ Linked(k) /\ tree[k] \in DOMAIN heap /\ heap[n].op \in {"none", "update"}
        /\ n = p /\ Row(k).op = "update" /\ Row(k).id = t
    BY <1>16a, <1>17
  <2>1. tree'[k] = tree[k] /\ heap'[tree[k]] = heap[tree[k]]
    BY <1>0, <1>4, <1>17, <2>0
  <2>2. Row(k)' = Row(k) /\ Linked(k)'
    BY <2>0, <2>1 DEF Row, Linked
  <2>3. p # NoNode
    BY <1>5, <2>0
  <2> QED
    BY <1>4, <2>0, <2>1, <2>2, <2>3
<1>18. ASSUME ~Wild(k)'
       PROVE  /\ KeyOK(k)' /\ \A s \in Txns : ListOK(s, k)'
              /\ \A s \in Txns \ {t} : k \notin ChangedKeys(s)
  <2>0. KeyOK(k) /\ \A s \in Txns : ListOK(s, k)
    BY <1>16a, <1>18 DEF Sound
  <2>1. CASE n = tree[k]
    <3>1. /\ \A s \in Txns : ~Holds(s, k) /\ k \notin ChangedKeys(s) /\ changes[s][k] = NoNode /\ On(s, k) = {}
          /\ Linked(k)' /\ Row(k)' = [key |-> k, val |-> Row(k).val, op |-> "update", id |-> t]
          /\ tree'[k] = n /\ changes'[t][k] = v /\ heap'[v] = [key |-> k, val |-> v, op |-> "none", id |-> NoTxn]
          /\ Row(k).op = "none"
      BY <1>16, <1>18, <2>1
    <3>2. \A s \in Txns : Holds(s, k)' <=> s = t
      BY <3>1 DEF Holds
    <3>3. On(t, k)' = {l} /\ ops'[t][l] = o /\ o.op = "none"
      BY <1>9, <1>15, <1>16a, <1>18, <2>1, <3>1
    <3>4. KeyOK(k)'
      <4>1. \A s \in Txns : /\ k \in ChangedKeys(s)' <=> s = t
                            /\ s # t => changes'[s][k] = NoNode
        BY <1>7, <1>13, <3>1
      <4>2. Unfinished(t)'
        BY <1>0, <1>5 DEF Unfinished
      <4> QED
        BY <1>9, <3>1, <3>2, <3>3, <4>1, <4>2 DEF KeyOK
    <3>5. Fits(t, o, k)'
      BY <1>9, <3>1, <3>2, <3>3 DEF Fits
    <3>6. ListOK(t, k)'
      BY <1>15, <3>3, <3>5 DEF ListOK, Fits
    <3>7. \A s \in Txns : s # t => ListOK(s, k)'
      BY <1>14, <3>1 DEF ListOK
    <3> QED
      BY <3>1, <3>4, <3>6, <3>7
  <2>2. CASE n # tree[k]
    <3>1. /\ n = p /\ Row(k)' = Row(k) /\ Linked(k)' /\ tree'[k] = tree[k] /\ changes' = changes
          /\ heap'[p] = [key |-> k, val |-> v, op |-> "none", id |-> NoTxn]
          /\ Row(k).op = "update" /\ Row(k).id = t /\ heap[p].op # "delete"
      BY <1>17, <1>18, <2>2
    <3>2. \A s \in Txns : (Holds(s, k)' <=> s = t) /\ (Holds(s, k) <=> s = t)
      BY <1>16a, <1>18, <3>1 DEF Holds
    <3>3. \A s \in Txns : (k \in ChangedKeys(s) <=> s = t) /\ (k \in ChangedKeys(s)' <=> s = t)
      BY <1>13, <2>0, <3>2 DEF KeyOK
    <3>4. \A s \in Txns : changes[s][k] # NoNode => s = t
      BY <2>0, <3>2 DEF KeyOK
    <3>5. \E i \in On(t, k) : ops[t][i].entry = tree[k] /\ ops[t][i].kind = Row(k).op
      BY <2>0, <3>2 DEF KeyOK
    <3>6. KeyOK(k)'
      <4>1. Unfinished(t)'
        BY <1>0, <1>5 DEF Unfinished
      <4>2. \E i \in On(t, k)' : ops'[t][i].entry = tree'[k] /\ ops'[t][i].kind = Row(k)'.op
        BY <1>15, <3>1, <3>5
      <4>3. \A s \in Txns : changes'[s][k] # NoNode =>
               s = t /\ heap'[changes'[s][k]].op \in {"none", "delete"}
        BY <1>3, <3>1, <3>4
      <4>4. Row(k)'.op = "update"
        BY <3>1
      <4> QED
        BY <3>2, <3>3, <4>1, <4>2, <4>3, <4>4 DEF KeyOK
    <3>7. \A i \in On(t, k) : Fits(t, ops[t][i], k)
      BY <2>0 DEF ListOK
    <3>8. \A x : Fits(t, x, k) => Fits(t, x, k)'
      BY <1>3, <3>1, <3>2 DEF Fits
    <3>9. Fits(t, o, k)'
      BY <1>3, <1>9, <3>1, <3>2 DEF Fits
    <3>10. \A i \in On(t, k)' : Fits(t, ops[t][i], k)'
      <4> TAKE i \in On(t, k)'
      <4>1. PICK x : x = ops'[t][i]
        OBVIOUS
      <4>2. Fits(t, x, k)'
        <5>1. CASE i = l
          BY <1>15, <3>9, <4>1, <5>1
        <5>2. CASE i # l
          <6>1. i \in On(t, k) /\ x = ops[t][i]
            BY <1>15, <4>1, <5>2
          <6>2. Fits(t, x, k)
            BY <3>7, <6>1
          <6> QED
            BY <3>8, <6>2
        <5> QED
          BY <5>1, <5>2
      <4> QED
        BY <4>1, <4>2 DEF Fits
    <3>11. \A i, j \in On(t, k)' : i < j /\ ops'[t][j].entry = tree'[k] =>
              ops'[t][i].kind = "insert" /\ ops'[t][j].kind = "deleted_insert"
      <4>1. \A i, j \in On(t, k) : i < j /\ ops[t][j].entry = tree[k] =>
               ops[t][i].kind = "insert" /\ ops[t][j].kind = "deleted_insert"
        BY <2>0 DEF ListOK
      <4>2. ops'[t][l].entry # tree'[k]
        BY <1>9, <1>15, <2>2, <3>1
      <4> QED
        BY <1>15, <3>1, <4>1, <4>2
    <3>12. ListOK(t, k)'
      BY <3>10, <3>11 DEF ListOK
    <3>13. \A s \in Txns : s # t => ListOK(s, k)'
      <4>1. \A s \in Txns : s # t => On(s, k) = {}
        BY <2>0, <3>2 DEF ListOK, Fits
      <4> QED
        BY <1>14, <4>1 DEF ListOK
    <3> QED
      BY <3>3, <3>6, <3>12, <3>13
  <2> QED
    BY <2>1, <2>2
<1>19. ASSUME ~Departed(k)'
       PROVE  Shows(k)' /\ LogOK(k)'
  <2>0. ~Wild(k)' /\ ~Departed(k)
    BY <1>1, <1>19 DEF Departed, Wild
  <2>1. ~Wild(k) /\ Shows(k) /\ Linked(k)
    BY <1>16a, <2>0 DEF Sound
  <2>2. \A s \in Txns \ {t} : k \notin ChangedKeys(s)
    BY <1>18, <2>0
  <2>3. LogOK(k)'
    BY <1>12, <1>19, <2>2, StepLogOK
  <2>4. /\ Linked(k)' /\ Row(k)'.op = "update" /\ Row(k)'.val = Row(k).val /\ Row(k).op \in {"none", "update"}
        /\ heap'[changes'[t][k]] = [key |-> k, val |-> v, op |-> "none", id |-> NoTxn]
    BY <1>3, <1>16, <1>17, <2>0
  <2>5. Visible(k)' = Visible(k) /\ ~ErasedInsert(k) /\ ~ErasedInsert(k)'
    BY <2>1, <2>4 DEF Visible, ErasedInsert
  <2>6. \A s \in Txns : k \in ChangedKeys(s)' => s = t
    BY <1>13, <2>2
  <2> QED
    BY <1>0, <1>13, <2>1, <2>3, <2>4, <2>5, <2>6 DEF Shows
<1>20. Rest(k)'
  BY <1>18, <1>19 DEF Rest
<1>21. Sound'
  BY <1>12, <1>20, StepIsSound
<1> QED
  BY <1>0, <1>1, <1>21

LEMMA MarkErasedIsSound ==
    ASSUME Sound, NEW t \in Txns, NEW k \in Keys, MarkErased(t, k)
    PROVE  /\ Sound' /\ corrupt' = FALSE
           /\ \E o \in looked[t] : departed' = departed \cup Races(o, k) \cup HalfErases(o, k)
<1>1. PICK o \in looked[t] :
         /\ o.kind # "update" /\ IsAbout(o, k)
         /\ heap' = Marked(heap, t, o.entry, o.kind)
         /\ departed' = departed \cup Races(o, k) \cup HalfErases(o, k)
         /\ Wants(t, k, NoValue)
         /\ SetsMark(t, o)
         /\ UNCHANGED changes
  BY DEF MarkErased
<1>0. /\ Typed /\ HeapOK /\ TreeOK /\ ChangesOK /\ \A s \in Txns : OpsOK(s)
      /\ looked' = [looked EXCEPT ![t] = {}]
      /\ UNCHANGED <<tree, log, pc, changes, committed>>
      /\ corrupt' = corrupt /\ ~corrupt
  BY <1>1 DEF Sound, SetsMark
<1>1a. PICK n : n = o.entry
  OBVIOUS
<1>2. PICK p : p = changes[t][k]
  OBVIOUS
<1>3. PICK kind : kind = o.kind
  OBVIOUS
<1>4. /\ pc[t] = "active" /\ o \in Operations /\ IsMarkedRight(o) /\ o.id \in {t, NoTxn}
      /\ n \in DOMAIN heap /\ heap[n] \in Nodes /\ heap[n].key = k /\ n \in Names
      /\ \/ kind = "deleted_insert" /\ o.op = "insert"
         \/ kind = "delete" /\ o.op \in {"none", "update"}
      /\ ~Wild(k) /\ ~MarkedMeanwhile(o) =>
            /\ heap[n].op = o.op /\ ~HeldByOther(t, n) /\ Linked(k) /\ tree[k] \in DOMAIN heap
            /\ \/ n = tree[k] /\ heap[n].op # "update"
               \/ n = changes[t][k] /\ n # tree[k] /\ Row(k).op = "update" /\ Row(k).id = t
  BY <1>1, <1>1a, <1>3, LookedIs
\* What holds unless the row is wild from now on.
<1>5. ASSUME ~Wild(k)'
      PROVE  /\ ~Wild(k) /\ ~HeldByOther(t, n) /\ Linked(k) /\ tree[k] \in DOMAIN heap
             /\ IsMarkedRight(heap[n])
             /\ \/ n = tree[k]
                \/ n = p /\ n # tree[k] /\ n # NoNode /\ Row(k).op = "update" /\ Row(k).id = t
             /\ n = tree[k] => heap[n].op # "update"
             /\ heap[n].op = o.op
             /\ \/ kind = "deleted_insert" /\ heap[n].op = "insert"
                \/ kind = "delete" /\ heap[n].op \in {"none", "update"}
  <2>1. departed \subseteq departed' /\ Races(o, k) \subseteq departed'
    BY <1>1
  <2>2. ~Wild(k) /\ ~MarkedMeanwhile(o)
    BY <1>5, <2>1, NotRaced
  <2>3. IsMarkedRight(heap[n]) /\ n # NoNode
    BY <1>0, <1>4, NobodyIsNamed DEF HeapOK
  <2> QED
    BY <1>2, <1>4, <2>2, <2>3
<1>7. heap' = Marked(heap, t, n, kind) /\ Noted(t, o) /\ Wants(t, k, NoValue)
  BY <1>1, <1>1a, <1>3 DEF SetsMark
<1>8. /\ DOMAIN heap' = DOMAIN heap /\ \A x \in DOMAIN heap : x # n => heap'[x] = heap[x]
      /\ heap'[n] = [key |-> k, val |-> heap[n].val, op |-> kind, id |-> t]
  BY <1>4, <1>7, MarkedIs
<1>9. heap[n].val \in Names /\ kind \in {"delete", "deleted_insert"}
  BY <1>4 DEF Nodes
<1>10. o.kind = kind /\ o.entry = n
  BY <1>1a, <1>3
<1>11. IsOpOf(t, k, o)
  <2>1. n \in DOMAIN heap' /\ heap'[n].key = k
    BY <1>4, <1>8
  <2> QED
    BY <1>4, <1>9, <1>10, <2>1 DEF IsOpOf
<1>12. Wanted(t, k, NoValue) /\ made' = [made EXCEPT ![t] = @ + 1]
  BY <1>7 DEF Wants, Wanted
<1>13. RowStep(t, k)
  <2>1. HeapStep(t, k)
    <3>1. GoodNode(heap'[n])
      BY <1>8, <1>9, NobodyIsNamed DEF GoodNode, Nodes, Marks, IsMarkedRight
    <3>2. \A x \in DOMAIN heap : GoodNode(heap[x])
      BY <1>0 DEF HeapOK, GoodNode
    <3>3. \A x \in DOMAIN heap' : GoodNode(heap'[x])
      BY <1>8, <3>1, <3>2
    <3>4. New(t) \notin DOMAIN heap'
      BY <1>0, <1>8, NewIsNew
    <3>5. \A x \in DOMAIN heap : heap'[x].key = heap[x].key /\ (heap[x].key # k => heap'[x] = heap[x])
      BY <1>4, <1>8
    <3>6. \A x \in DOMAIN heap' : heap'[x].op = "update" => heap'[x] = heap[x]
      BY <1>8, <1>9
    <3> QED
      BY <1>8, <3>3, <3>4, <3>5, <3>6 DEF HeapStep
  <2>2. TreeStep(t, k) /\ ChangesStep(t, k) /\ OpsStep(t, k)
    BY <1>0, <1>7, <1>11 DEF TreeStep, ChangesStep, OpsStep, Noted
  <2>3. departed \subseteq departed'
    BY <1>1
  <2> QED
    BY <1>0, <1>4, <1>12, <2>1, <2>2, <2>3 DEF RowStep, Wanted
<1>14. /\ k \in ChangedKeys(t)' /\ intent'[t][k] = NoValue
       /\ \A s \in Txns : s # t => (k \in ChangedKeys(s)' <=> k \in ChangedKeys(s))
  BY <1>0, <1>12, StepIntents
<1>15. /\ \A s \in Txns : s # t => On(s, k)' = On(s, k) /\ ops'[s] = ops[s]
       /\ \E l : /\ l \notin On(t, k) /\ On(t, k)' = On(t, k) \cup {l} /\ ops'[t][l] = o
                 /\ \A i \in On(t, k) : i < l /\ ~(l < i) /\ ops'[t][i] = ops[t][i]
                 /\ ~(l < l)
  BY <1>0, <1>7, <1>11, <1>13, ListGrows
<1>16. PICK l : /\ l \notin On(t, k) /\ On(t, k)' = On(t, k) \cup {l} /\ ops'[t][l] = o
                /\ \A i \in On(t, k) : i < l /\ ~(l < i) /\ ops'[t][i] = ops[t][i]
                /\ ~(l < l)
  BY <1>15
<1>17. tree'[k] = tree[k] /\ (Linked(k)' <=> Linked(k))
  BY <1>0 DEF Linked
\* Who holds the row, if it is not wild.
<1>18. ASSUME ~Wild(k)'
       PROVE  /\ KeyOK(k) /\ \A s \in Txns : ListOK(s, k)
              /\ \A s \in Txns : s # t => ~Holds(s, k) /\ k \notin ChangedKeys(s) /\ changes[s][k] = NoNode
                                          /\ On(s, k) = {}
              /\ n = tree[k] => changes[t][k] = NoNode
              /\ n = tree[k] /\ heap[n].op = "insert" => Holds(t, k)
              /\ n = tree[k] /\ heap[n].op = "none" => On(t, k) = {}
  <2>a. /\ ~Wild(k) /\ ~HeldByOther(t, n) /\ Linked(k) /\ tree[k] \in DOMAIN heap
        /\ IsMarkedRight(heap[n])
        /\ \/ n = tree[k]
           \/ n = p /\ n # tree[k] /\ n # NoNode /\ Row(k).op = "update" /\ Row(k).id = t
        /\ n = tree[k] => heap[n].op # "update"
    BY <1>5, <1>18
  <2>0. KeyOK(k) /\ \A s \in Txns : ListOK(s, k)
    BY <2>a DEF Sound
  <2>1. \A s \in Txns : s # t => ~Holds(s, k)
    <3>1. CASE n = tree[k]
      BY <2>a, <3>1, NobodyIsNamed DEF Holds, Row, HeldByOther, Mine, IsMarkedRight
    <3>2. CASE n # tree[k]
      BY <2>a, <3>2 DEF Holds
    <3> QED
      BY <3>1, <3>2
  <2>2. \A s \in Txns : s # t => k \notin ChangedKeys(s) /\ changes[s][k] = NoNode /\ On(s, k) = {}
    BY <2>0, <2>1 DEF KeyOK, ListOK, Fits
  <2>3. n = tree[k] => changes[t][k] = NoNode
    BY <2>a, <2>0 DEF KeyOK, Row
  <2>4. n = tree[k] /\ heap[n].op = "insert" => Holds(t, k)
    BY <2>a DEF Holds, Row, HeldByOther, Mine
  <2>5. n = tree[k] /\ heap[n].op = "none" => On(t, k) = {}
    BY <2>a, FreeRow DEF Row
  <2> QED
    BY <2>0, <2>1, <2>2, <2>3, <2>4, <2>5
<1>19. ASSUME ~Wild(k)', n = tree[k]
       PROVE  /\ Linked(k)'
              /\ Row(k)' = [key |-> k, val |-> Row(k).val, op |-> kind, id |-> t]
              /\ \/ Row(k).op = "insert" /\ kind = "deleted_insert"
                 \/ Row(k).op = "none" /\ kind = "delete"
              /\ \A s \in Txns : Holds(s, k)' <=> s = t
  <2>0. /\ Linked(k) /\ heap[n].op # "update"
        /\ \/ kind = "deleted_insert" /\ heap[n].op = "insert"
           \/ kind = "delete" /\ heap[n].op \in {"none", "update"}
    BY <1>5, <1>19
  <2>1. Row(k)' = [key |-> k, val |-> Row(k).val, op |-> kind, id |-> t]
    BY <1>8, <1>17, <1>19 DEF Row
  <2>3. Row(k).op = heap[n].op
    BY <1>19 DEF Row
  <2>4. \A s \in Txns : Holds(s, k)' <=> s = t
    BY <1>17, <2>0, <2>1 DEF Holds
  <2> QED
    BY <1>17, <2>0, <2>1, <2>3, <2>4
<1>20. ASSUME ~Wild(k)', n # tree[k]
       PROVE  /\ n = p /\ Row(k)' = Row(k) /\ Row(k).op = "update" /\ Row(k).id = t
              /\ \A s \in Txns : (Holds(s, k)' <=> s = t) /\ (Holds(s, k) <=> s = t)
  <2>0. Linked(k) /\ tree[k] \in DOMAIN heap /\ n = p /\ Row(k).op = "update" /\ Row(k).id = t
    BY <1>5, <1>20
  <2>1. Row(k)' = Row(k)
    BY <1>8, <1>17, <1>20, <2>0 DEF Row
  <2> QED
    BY <1>17, <2>0, <2>1 DEF Holds
<1>21. Unfinished(t)'
  BY <1>0, <1>4 DEF Unfinished
<1>22. ASSUME ~Wild(k)'
       PROVE  KeyOK(k)'
  <2>0. /\ KeyOK(k)
        /\ \A s \in Txns : s # t => ~Holds(s, k) /\ k \notin ChangedKeys(s) /\ changes[s][k] = NoNode
                                    /\ On(s, k) = {}
        /\ n = tree[k] => changes[t][k] = NoNode
        /\ n = tree[k] /\ heap[n].op = "insert" => Holds(t, k)
    BY <1>18, <1>22
  <2>1. \A s \in Txns : /\ k \in ChangedKeys(s)' <=> s = t
                        /\ s # t => changes'[s][k] = NoNode
    BY <1>0, <1>14, <2>0
  <2>2. CASE n = tree[k]
    <3>1. \E i \in On(t, k)' : ops'[t][i].entry = tree'[k] /\ ops'[t][i].kind = Row(k)'.op
      BY <1>10, <1>16, <1>17, <1>19, <1>22, <2>2
    <3>2. Row(k)'.op = "deleted_insert" =>
             \E i \in On(t, k)' : ops'[t][i].entry = tree'[k] /\ ops'[t][i].kind = "insert"
      <4> SUFFICES ASSUME Row(k)'.op = "deleted_insert"
                   PROVE  \E i \in On(t, k)' : ops'[t][i].entry = tree'[k] /\ ops'[t][i].kind = "insert"
        OBVIOUS
      <4>1. heap[n].op = "insert" /\ Row(k).op = "insert"
        BY <1>19, <1>22, <2>2 DEF Row
      <4>2. PICK i \in On(t, k) : ops[t][i].entry = tree[k] /\ ops[t][i].kind = "insert"
        BY <2>0, <2>2, <4>1 DEF KeyOK
      <4> QED
        BY <1>16, <1>17, <4>2
    <3>3. changes'[t][k] = NoNode
      BY <1>0, <2>0, <2>2
    <3> QED
      BY <1>19, <1>22, <1>21, <2>1, <2>2, <3>1, <3>2, <3>3 DEF KeyOK
  <2>3. CASE n # tree[k]
    <3>0. /\ n = p /\ Row(k)' = Row(k) /\ Row(k).op = "update" /\ Row(k).id = t
          /\ \A s \in Txns : (Holds(s, k)' <=> s = t) /\ (Holds(s, k) <=> s = t)
      BY <1>20, <1>22, <2>3
    <3>1. \E i \in On(t, k) : ops[t][i].entry = tree[k] /\ ops[t][i].kind = Row(k).op
      BY <2>0, <3>0 DEF KeyOK
    <3>2. \E i \in On(t, k)' : ops'[t][i].entry = tree'[k] /\ ops'[t][i].kind = Row(k)'.op
      BY <1>16, <1>17, <3>0, <3>1
    <3>3. heap'[changes'[t][k]].op = "delete"
      <4>1. kind = "delete"
        <5>1. heap[n].op # "insert"
          BY <1>2, <1>5, <1>22, <2>0, <2>3, <3>0 DEF KeyOK
        <5> QED
          BY <1>5, <1>22, <5>1
      <4> QED
        BY <1>0, <1>2, <1>8, <3>0, <4>1
    <3>4. Row(k)'.op = "update"
      BY <3>0
    <3> QED
      BY <1>21, <2>1, <3>0, <3>2, <3>3, <3>4 DEF KeyOK
  <2> QED
    BY <2>2, <2>3
<1>23. ASSUME ~Wild(k)', NEW s \in Txns
       PROVE  ListOK(s, k)'
  <2>0. /\ KeyOK(k) /\ ListOK(t, k)
        /\ \A r \in Txns : r # t => On(r, k) = {}
        /\ n = tree[k] /\ heap[n].op = "none" => On(t, k) = {}
        /\ n = tree[k] => changes[t][k] = NoNode
    BY <1>18, <1>23
  <2>1. CASE s # t
    BY <1>15, <2>0, <2>1 DEF ListOK
  <2>2. Fits(t, o, k)'
    <3>1. CASE n = tree[k]
      <4>1. /\ o.entry = tree'[k] /\ Holds(t, k)' /\ o.kind = kind /\ Row(k)'.op = kind
        BY <1>10, <1>17, <1>19, <1>23, <3>1
      <4>2. \/ kind = "deleted_insert"
            \/ kind = "delete" /\ o.op = "none"
        BY <1>5, <1>19, <1>23, <3>1 DEF Row
      <4> QED
        BY <4>1, <4>2 DEF Fits
    <3>2. CASE n # tree[k]
      <4>1. kind = "delete"
        BY <1>2, <1>3, <1>5, <1>23, <1>20, <1>23, <2>0, <3>2 DEF KeyOK
      <4>2. /\ Row(k)'.op = "update" /\ Holds(t, k)' /\ o.entry = changes'[t][k]
            /\ heap'[changes'[t][k]].op = kind
        BY <1>0, <1>2, <1>8, <1>10, <1>20, <1>23, <3>2
      <4> QED
        BY <1>10, <4>1, <4>2 DEF Fits
    <3> QED
      BY <3>1, <3>2
  <2>3. ASSUME NEW i \in On(t, k)
        PROVE  /\ Fits(t, ops[t][i], k)'
               /\ n = tree[k] => ops[t][i].kind = "insert" /\ o.kind = "deleted_insert"
    <3>1. PICK x : x = ops[t][i]
      OBVIOUS
    <3>2. ops'[t][i] = x /\ Fits(t, x, k)
      BY <1>16, <2>0, <2>3, <3>1 DEF ListOK
    <3>3. CASE n = tree[k]
      <4>1. Row(k).op = "insert" /\ kind = "deleted_insert"
        BY <1>19, <1>23, <2>0, <2>3, <3>3 DEF Row
      <4>2. x.kind = "insert" /\ x.entry = tree[k]
        BY <3>2, <4>1 DEF Fits
      <4>3. Fits(t, x, k)'
        BY <1>17, <1>19, <1>23, <3>3, <4>1, <4>2 DEF Fits
      <4> QED
        BY <1>10, <3>1, <3>2, <4>1, <4>2, <4>3 DEF Fits
    <3>4. CASE n # tree[k]
      <4>0. kind = "delete"
        BY <1>2, <1>3, <1>5, <1>23, <1>20, <1>23, <2>0, <3>4 DEF KeyOK
      <4>1. Fits(t, x, k)'
        BY <1>0, <1>2, <1>8, <1>17, <1>20, <1>23, <3>2, <3>4, <4>0 DEF Fits
      <4> QED
        BY <3>2, <3>4, <4>1 DEF Fits
    <3> QED
      BY <3>3, <3>4
  <2>4. \A i \in On(t, k)' : Fits(t, ops[t][i], k)'
    <3> TAKE i \in On(t, k)'
    <3>1. CASE i = l
      BY <1>16, <2>2, <3>1 DEF Fits
    <3>2. CASE i # l
      BY <1>16, <2>3, <3>2
    <3> QED
      BY <3>1, <3>2
  <2>5. \A i, j \in On(t, k)' : i < j /\ ops'[t][j].entry = tree'[k] =>
           ops'[t][i].kind = "insert" /\ ops'[t][j].kind = "deleted_insert"
    <3> TAKE i, j \in On(t, k)'
    <3> HAVE i < j /\ ops'[t][j].entry = tree'[k]
    <3>1. i # l /\ i \in On(t, k) /\ ops'[t][i] = ops[t][i]
      BY <1>16
    <3>2. CASE j = l
      <4>1. n = tree[k] /\ ops'[t][j] = o
        BY <1>10, <1>16, <1>17, <3>2
      <4> QED
        BY <2>3, <3>1, <4>1
    <3>3. CASE j # l
      <4>1. j \in On(t, k) /\ ops'[t][j] = ops[t][j]
        BY <1>16, <3>3
      <4> QED
        BY <1>17, <2>0, <3>1, <4>1 DEF ListOK
    <3> QED
      BY <3>2, <3>3
  <2>6. ListOK(t, k)'
    BY <2>4, <2>5 DEF ListOK
  <2> QED
    BY <2>1, <2>6
<1>24. ASSUME ~Departed(k)'
       PROVE  Shows(k)' /\ LogOK(k)'
  <2>0. ~Wild(k)'
    BY <1>24 DEF Wild, Departed
  <2>1. ~Departed(k) /\ ~Wild(k) /\ Shows(k) /\ n = tree[k]
    <3>1. ~Departed(k)
      BY <1>1, <1>24 DEF Departed
    <3>2. n = tree[k]
      <4> SUFFICES ASSUME n # tree[k] PROVE FALSE
        OBVIOUS
      <4>1. PICK d : d = <<"half_erased", k>>
        OBVIOUS
      <4>2. d \in departed' /\ d[2] = k
        BY <1>1, <1>10, <4>1 DEF HalfErases
      <4> QED
        BY <1>24, <4>2 DEF Departed
    <3> QED
      BY <3>1, <3>2 DEF Departed, Wild, Sound
  <2>2. /\ Row(k)' = [key |-> k, val |-> Row(k).val, op |-> kind, id |-> t]
        /\ \/ Row(k).op = "insert" /\ kind = "deleted_insert"
           \/ Row(k).op = "none" /\ kind = "delete"
    BY <1>19, <2>0, <2>1
  <2>3. \A s \in Txns : s # t => k \notin ChangedKeys(s)
    BY <1>18, <2>0
  <2>4. LogOK(k)'
    BY <1>13, <1>24, <2>3, StepLogOK
  <2>5. committed'[k] = IF ErasedInsert(k)' THEN NoValue ELSE Visible(k)'
    <3>1. committed'[k] = committed[k] /\ Linked(k)
      BY <1>0, <1>5, <2>0
    <3>2. CASE Row(k).op = "insert"
      <4>1. committed[k] = NoValue
        BY <2>1, <3>2 DEF Shows, Visible, ErasedInsert
      <4>2. ErasedInsert(k)'
        BY <1>17, <2>2, <3>1, <3>2 DEF ErasedInsert
      <4> QED
        BY <3>1, <4>1, <4>2
    <3>3. CASE Row(k).op = "none"
      <4>1. Visible(k)' = Row(k).val /\ Visible(k) = Row(k).val
        BY <1>17, <2>2, <3>1, <3>3 DEF Visible
      <4>2. ~ErasedInsert(k) /\ ~ErasedInsert(k)'
        BY <2>2, <3>3 DEF ErasedInsert
      <4> QED
        BY <2>1, <3>1, <4>1, <4>2 DEF Shows
    <3> QED
      BY <2>2, <3>2, <3>3
  <2>6. \A s \in Txns : k \in ChangedKeys(s)' => s = t
    BY <1>14, <2>3
  <2> QED
    BY <1>14, <2>2, <2>4, <2>5, <2>6 DEF Shows
<1>25. Rest(k)'
  BY <1>22, <1>23, <1>24 DEF Rest
<1>26. Sound'
  BY <1>13, <1>25, StepIsSound
<1> QED
  BY <1>0, <1>1, <1>26

\* The first halves change nothing but what their transaction has looked at.
LEMMA LooksIsSound ==
    ASSUME Sound, NEW t \in Txns, NEW k \in Keys, pc[t] = "active", ~corrupt, looked[t] = {}, Found(t, k),
           NEW n, n = Current(t, k), NEW o, Looks(t, o),
           o.entry = n /\ o.op = heap[n].op /\ o.id = heap[n].id /\ o.new \in Names \cup {NoNode},
           \/ o.kind = "update" /\ o.op \in {"none", "update"} /\ o.new = New(t)
           \/ o.kind = "deleted_insert" /\ o.op = "insert"
           \/ o.kind = "delete" /\ o.op \in {"none", "update"},
           o = [kind |-> o.kind, entry |-> o.entry, new |-> o.new, op |-> o.op, id |-> o.id]
    PROVE  Sound' /\ UNCHANGED <<departed, corrupt>> /\ ~corrupt
<1>1. /\ UNCHANGED <<heap, tree, log, pc, changes, ops, made, intent, committed, departed, corrupt>>
      /\ looked' = [looked EXCEPT ![t] = {o}] /\ looked \in [Txns -> SUBSET Operations]
      /\ ~HeldByOther(t, n)
  BY DEF Sound, Typed, Looks, region, wishes
<1>2. /\ n \in DOMAIN heap /\ heap[n] \in Nodes /\ heap[n].key = k /\ IsMarkedRight(heap[n])
      /\ \/ n = tree[k] /\ heap[n].op # "update"
         \/ n = changes[t][k] /\ n # tree[k]
  BY <1>1, CurrentIs
<1>3. o \in Operations
  <2>1. n \in Names /\ heap[n].op \in Marks \cup {"none"} /\ heap[n].id \in Txns \cup {NoTxn}
    BY <1>2 DEF Sound, HeapOK, Nodes
  <2>2. o.kind \in Marks
    BY DEF Marks
  <2> QED
    BY <2>1, <2>2 DEF Operations
<1>4. Typed'
  <2>1. looked' \in [Txns -> SUBSET Operations]
    BY <1>1, <1>3
  <2> QED
    BY <1>1, <2>1 DEF Sound, Typed
<1>5. HeapOK' /\ TreeOK' /\ ChangesOK' /\ UpdatesOK'
  BY <1>1 DEF Sound, HeapOK, TreeOK, ChangesOK, UpdatesOK, Given, Linked, Row, Unfinished
<1>6. \A s \in Txns : OpsOK(s)'
  BY <1>1 DEF Sound, OpsOK, Given, Unfinished, ChangedKeys, Wild
<1>7. IsMarkedRight(o) /\ o.id \in {t, NoTxn} /\ IsShown(t, o, k) /\ IsAbout(o, k)
  BY <1>1, <1>2 DEF HeldByOther, Mine, IsMarkedRight, IsShown, IsAbout
<1>8. \A s \in Txns : LookedOK(s)'
  <2> TAKE s \in Txns
  <2>1. LookedOK(s)
    BY DEF Sound
  <2>2. CASE s # t
    <3>1. looked'[s] = looked[s]
      BY <1>1, <2>2
    <3> QED
      BY <1>1, <2>1, <3>1 DEF LookedOK, IsShown, IsAbout, New
  <2>3. CASE s = t
    <3>1. looked'[t] = {o}
      BY <1>1
    <3> QED
      BY <1>1, <1>2, <1>7, <2>3, <3>1 DEF LookedOK, IsShown, IsAbout, New
  <2> QED
    BY <2>2, <2>3
<1>9. ASSUME NEW j \in Keys
      PROVE  Rest(j)'
  <2>1. Untouched(j)
    BY <1>1 DEF Untouched, On, ChangedKeys
  <2>2. Unlogged(j)
    BY <1>1, LogIsLeft
  <2>3. (Wild(j)' <=> Wild(j)) /\ (Departed(j)' <=> Departed(j)) /\ (~Departed(j) => ~Wild(j))
    BY <1>1 DEF Wild, Departed
  <2>4. TreeOK /\ ChangesOK /\ UpdatesOK
    BY DEF Sound
  <2>5. ~Wild(j) => KeyOK(j) /\ KeyOK(j)' /\ \A s \in Txns : ListOK(s, j)'
    BY <2>1, <2>4, UntouchedKeyOK, UntouchedListOK DEF Sound
  <2>6. ~Departed(j) => Shows(j)' /\ LogOK(j)'
    BY <2>1, <2>2, <2>3, <2>4, <2>5, UntouchedShows, UntouchedLogOK DEF Sound
  <2> QED
    BY <2>3, <2>5, <2>6 DEF Rest
<1> QED
  BY <1>1, <1>4, <1>5, <1>6, <1>8, <1>9 DEF Sound, Rest

LEMMA CheckUpdateIsSound ==
    ASSUME Sound, NEW t \in Txns, NEW k \in Keys, CheckUpdate(t, k)
    PROVE  Sound' /\ UNCHANGED <<departed, corrupt>> /\ ~corrupt
<1>1. PICK n : n = Current(t, k)
  OBVIOUS
<1>2. PICK o : o = UpdateOperation(n, New(t))
  OBVIOUS
<1>3. /\ pc[t] = "active" /\ ~corrupt /\ looked[t] = {} /\ Found(t, k)
      /\ heap[n].op \in {"none", "update"} /\ Looks(t, o)
  BY <1>1, <1>2 DEF CheckUpdate, Active
<1>4. New(t) \in Names
  BY NewIsNew DEF Sound
<1>5. /\ o.kind = "update" /\ o.entry = n /\ o.new = New(t) /\ o.op = heap[n].op /\ o.id = heap[n].id
      /\ o = [kind |-> o.kind, entry |-> o.entry, new |-> o.new, op |-> o.op, id |-> o.id]
  BY <1>2 DEF UpdateOperation, Operation
<1> QED
  BY <1>1, <1>3, <1>4, <1>5, LooksIsSound

LEMMA CheckEraseIsSound ==
    ASSUME Sound, NEW t \in Txns, NEW k \in Keys, CheckErase(t, k)
    PROVE  Sound' /\ UNCHANGED <<departed, corrupt>> /\ ~corrupt
<1>1. PICK n : n = Current(t, k)
  OBVIOUS
<1>2. pc[t] = "active" /\ ~corrupt /\ looked[t] = {} /\ Found(t, k)
  BY DEF CheckErase, Active
<1>3. PICK kind : /\ \/ kind = "deleted_insert" /\ heap[n].op = "insert"
                     \/ kind = "delete" /\ heap[n].op \in {"none", "update"}
                  /\ Looks(t, EraseOperation(kind, n))
  BY <1>1 DEF CheckErase
<1>4. PICK o : o = EraseOperation(kind, n)
  OBVIOUS
<1>5. /\ o.kind = kind /\ o.entry = n /\ o.new = NoNode /\ o.op = heap[n].op /\ o.id = heap[n].id
      /\ o = [kind |-> o.kind, entry |-> o.entry, new |-> o.new, op |-> o.op, id |-> o.id]
  BY <1>4 DEF EraseOperation, Operation
<1>6. Looks(t, o)
  BY <1>3, <1>4
<1> QED
  BY <1>1, <1>2, <1>3, <1>5, <1>6, LooksIsSound

-----------------------------------------------------------------------------
\* The record of a transaction

\* The list has a last operation on each row that it changes.
LEMMA LastOn ==
    ASSUME NEW S, NEW n \in Nat, S \subseteq 1 .. n, S # {}
    PROVE  \E x \in S : \A y \in S : y <= x
<1> DEFINE R == {n - i : i \in S}
<1>0. \A i \in S : n - i \in Nat
  OBVIOUS
<1>1. R \subseteq Nat /\ R # {}
  BY <1>0
<1>2. PICK z \in R : \A y \in R : z <= y
  <2> HIDE DEF R
  <2> QED
    BY <1>1, LeastOfNats
<1>3. PICK x \in S : z = n - x
  OBVIOUS
<1>4. \A y \in S : y <= x
  <2> TAKE y \in S
  <2>1. n - x <= n - y
    BY <1>2, <1>3
  <2>2. x \in Nat /\ y \in Nat
    BY <1>0
  <2> QED
    BY <2>1, <2>2
<1> QED
  BY <1>4

LEMMA RecordIs ==
    ASSUME Sound, NEW t \in Txns, ~Dangling(t), NEW rec, rec = AddToLog(ops[t])
    PROVE  /\ rec \in Seq(LoggedChanges) /\ DOMAIN rec = DOMAIN ops[t]
           /\ \A i \in DOMAIN rec :
                 /\ rec[i].key = heap[ops[t][i].entry].key /\ rec[i].val = heap[ops[t][i].entry].val
                 /\ rec[i].kind = IF ops[t][i].kind = "deleted_insert" THEN "delete" ELSE ops[t][i].kind
           /\ \A i, k : i \in On(t, k) <=> i \in DOMAIN rec /\ rec[i].key = k
<1>1. Typed /\ HeapOK
  BY DEF Sound
<1>2. ops[t] \in Seq(Operations) /\ DOMAIN ops[t] = 1 .. Len(ops[t]) /\ Len(ops[t]) \in Nat
  BY <1>1 DEF Typed
<1>3. \A i \in DOMAIN ops[t] : ops[t][i].entry \in DOMAIN heap
  BY DEF Dangling
<1>4. /\ DOMAIN rec = DOMAIN ops[t]
      /\ \A i \in DOMAIN ops[t] : rec[i] = LoggedOp(ops[t][i])
  BY DEF AddToLog
<1>5. ASSUME NEW i \in DOMAIN ops[t]
      PROVE  /\ rec[i].key = heap[ops[t][i].entry].key /\ rec[i].val = heap[ops[t][i].entry].val
             /\ rec[i].kind = (IF ops[t][i].kind = "deleted_insert" THEN "delete" ELSE ops[t][i].kind)
             /\ rec[i] \in LoggedChanges
  <2>1. ops[t][i].kind \in Marks
    <3>1. ops[t][i] \in Operations
      BY <1>2
    <3> QED
      BY <3>1 DEF Operations
  <2>2. heap[ops[t][i].entry].key \in Keys /\ heap[ops[t][i].entry].val \in Names
    BY <1>1, <1>3 DEF HeapOK, Nodes
  <2>3. rec[i] = [kind |-> LoggedKind(ops[t][i]), key |-> heap[ops[t][i].entry].key,
                  val |-> heap[ops[t][i].entry].val]
    BY <1>4 DEF LoggedOp, LoggedNode
  <2>4. LoggedKind(ops[t][i]) = IF ops[t][i].kind = "deleted_insert" THEN "delete" ELSE ops[t][i].kind
    BY DEF LoggedKind
  <2>5. LoggedKind(ops[t][i]) \in {"insert", "update", "delete"}
    BY <2>1, <2>4 DEF Marks
  <2> QED
    BY <2>2, <2>3, <2>4, <2>5 DEF LoggedChanges
<1>6. rec \in Seq(LoggedChanges)
  <2>1. rec = [i \in 1 .. Len(ops[t]) |-> LoggedOp(ops[t][i])]
    BY <1>2 DEF AddToLog
  <2>2. rec \in [1 .. Len(ops[t]) -> LoggedChanges]
    BY <1>2, <1>4, <1>5, <2>1
  <2> QED
    BY <1>2, <2>2
<1>7. \A i, k : i \in On(t, k) <=> i \in DOMAIN rec /\ rec[i].key = k
  BY <1>3, <1>4, <1>5 DEF On
<1> QED
  BY <1>4, <1>5, <1>6, <1>7

\* What the record makes of a row that t has changed.
LEMMA RecordBringsBack ==
    ASSUME Sound, NEW t \in Txns, pc[t] = "active", ~Dangling(t), log' = Append(log, AddToLog(ops[t])),
           NEW k \in Keys, ~Departed(k), k \in ChangedKeys(t)
    PROVE  IF LoggedDelete(k)' THEN Recovered(k)' = Halted
           ELSE /\ Recovered(k)' # Halted
                /\ \/ Recovered(k)' = intent[t][k]
                   \/ LastIsUpdate(k)' /\ Recovered(k)' # NoValue /\ intent[t][k] # NoValue
<1>1. /\ Typed /\ HeapOK /\ TreeOK /\ ChangesOK /\ UpdatesOK
      /\ KeyOK(k) /\ ListOK(t, k) /\ Shows(k) /\ LogOK(k)
  BY DEF Sound, Departed, Wild
<1>2. PICK rec : rec = AddToLog(ops[t])
  OBVIOUS
<1>3. /\ rec \in Seq(LoggedChanges) /\ DOMAIN rec = DOMAIN ops[t]
      /\ \A i \in DOMAIN rec :
            /\ rec[i].key = heap[ops[t][i].entry].key /\ rec[i].val = heap[ops[t][i].entry].val
            /\ rec[i].kind = IF ops[t][i].kind = "deleted_insert" THEN "delete" ELSE ops[t][i].kind
      /\ \A i, j : i \in On(t, j) <=> i \in DOMAIN rec /\ rec[i].key = j
  BY <1>2, RecordIs
<1>4. log \in Seq(Seq(LoggedChanges)) /\ log' = Append(log, rec)
  BY <1>1, <1>2 DEF Typed
<1>5. Recovered(k)' = RedoRecord(k, Recovered(k), rec)
  BY <1>3, <1>4, RecoveredIs, NextRecoveredIs, RedoOfMore
<1>6. Holds(t, k) /\ Linked(k) /\ Row(k).id = t /\ tree[k] \in DOMAIN heap /\ Row(k) = heap[tree[k]]
  BY <1>1 DEF KeyOK, Holds, TreeOK, Row
<1>7. \A s \in Txns : ~HasLogged(s, k)
  <2>1. \A s \in Txns : k \in ChangedKeys(s) => s = t
    BY <1>1, <1>6 DEF KeyOK, Holds
  <2> QED
    BY <2>1 DEF HasLogged
<1>8. BroughtBack(k, committed[k])
  BY <1>1, <1>7 DEF LogOK
<1>9. PICK last \in On(t, k) : \A i \in On(t, k) : i <= last
  <2>1. On(t, k) # {}
    BY <1>1, <1>6 DEF KeyOK
  <2>2. On(t, k) \subseteq 1 .. Len(ops[t]) /\ Len(ops[t]) \in Nat
    BY <1>1 DEF On, Typed
  <2> QED
    BY <2>1, <2>2, LastOn
<1>10. /\ last \in DOMAIN rec /\ rec[last].key = k
       /\ \A e \in DOMAIN rec : e > last => rec[e].key # k
       /\ \A e \in DOMAIN rec : e < last => (rec[e].key = k => e \in On(t, k))
  <2>1. DOMAIN rec = 1 .. Len(rec) /\ Len(rec) \in Nat
    BY <1>3
  <2>2. \A e \in DOMAIN rec : rec[e].key = k => e <= last
    BY <1>3, <1>9
  <2>3. last \in DOMAIN rec
    BY <1>3, <1>9
  <2>4. \A e \in DOMAIN rec : e > last => ~(e <= last)
    BY <2>1, <2>3
  <2> QED
    BY <1>3, <1>9, <2>2, <2>3, <2>4
<1>11. PICK o : o = ops[t][last]
  OBVIOUS
<1>12. /\ Fits(t, o, k)
       /\ \A i \in On(t, k) : i < last /\ o.entry = tree[k] => ops[t][i].kind = "insert" /\ o.kind = "deleted_insert"
       /\ rec[last].kind = (IF o.kind = "deleted_insert" THEN "delete" ELSE o.kind)
       /\ rec[last].val = heap[o.entry].val
       /\ o.entry \in DOMAIN heap
  BY <1>1, <1>3, <1>9, <1>10, <1>11 DEF ListOK, On
<1>13. /\ Recovered(k) = Halted => Recovered(k)' = Halted
       /\ \A d \in DOMAIN rec :
             rec[d].key = k /\ rec[d].kind = "delete"
             /\ (Recovered(k) # NoValue \/ \E e \in DOMAIN rec : e < d /\ rec[e].key = k /\ rec[e].kind = "insert") =>
               Recovered(k)' = Halted
       /\ Recovered(k) # Halted /\ (\A e \in DOMAIN rec : rec[e].key = k => rec[e].kind # "delete") =>
             /\ Recovered(k)' # Halted
             /\ rec[last].kind = "update" => Recovered(k)' = rec[last].val
             /\ rec[last].kind = "insert" /\ Recovered(k) = NoValue
                /\ (\A e \in DOMAIN rec : e < last => rec[e].key # k) => Recovered(k)' = rec[last].val
  <2>1. PICK row : row = Recovered(k)
    OBVIOUS
  <2>2. PICK after : after = RedoRecord(k, row, rec)
    OBVIOUS
  <2>3. /\ row = Halted => after = Halted
        /\ \A d \in DOMAIN rec :
              rec[d].key = k /\ rec[d].kind = "delete"
              /\ (row # NoValue \/ \E e \in DOMAIN rec : e < d /\ rec[e].key = k /\ rec[e].kind = "insert") =>
                after = Halted
        /\ row # Halted /\ (\A e \in DOMAIN rec : rec[e].key = k => rec[e].kind # "delete") =>
              /\ after # Halted
              /\ rec[last].kind = "update" => after = rec[last].val
              /\ rec[last].kind = "insert" /\ row = NoValue
                 /\ (\A e \in DOMAIN rec : e < last => rec[e].key # k) => after = rec[last].val
    BY <1>3, <1>10, <2>2, RedoOfRecord
  <2>4. Recovered(k)' = after
    BY <1>5, <2>1, <2>2
  <2> QED
    BY <2>1, <2>3, <2>4
<1>14. /\ rec[last].kind = "update" => LastIsUpdate(k)'
       /\ LoggedDelete(k)' <=> LoggedDelete(k) \/ \E d \in DOMAIN rec : rec[d].key = k /\ rec[d].kind = "delete"
  <2>1. rec[last].kind = "update" => LastIsUpdate(k)'
    BY <1>1, <1>3, <1>4, <1>10, LastOfMore
  <2>2. LoggedDelete(k)' <=> (LoggedDelete(k) \/ \E d \in DOMAIN rec : rec[d].key = k /\ rec[d].kind = "delete")
    <3>1. Typed /\ rec \in Seq(LoggedChanges) /\ log' = Append(log, rec)
      BY <1>1, <1>2, <1>3
    <3> QED
      BY <3>1, DeletesOfMore, Zenon
  <2> QED
    BY <2>1, <2>2
<1>15. /\ Row(k).op = "insert" => intent[t][k] = Row(k).val
       /\ Row(k).op = "update" =>
             intent[t][k] = heap[changes[t][k]].val /\ heap[changes[t][k]].op = "none"
       /\ Row(k).op \in {"delete", "deleted_insert"} => intent[t][k] = NoValue
  BY <1>1 DEF Shows
<1>16. \A n \in DOMAIN heap : heap[n].val \in Names /\ heap[n].val # NoValue
  BY <1>1, NobodyIsNamed DEF HeapOK, Nodes
<1>17. Row(k).op = "update" => changes[t][k] \in DOMAIN heap
  <2>1. Unfinished(t)
    BY DEF Unfinished
  <2>2. Row(k).op = "update" => changes[t][k] # NoNode
    BY <1>1, <1>6, <2>1 DEF UpdatesOK, TreeOK
  <2> QED
    BY <1>1, <2>2 DEF ChangesOK
<1>18. CASE LoggedDelete(k)
  BY <1>8, <1>13, <1>14, <1>18 DEF BroughtBack
<1>19. CASE ~LoggedDelete(k)
  <2>0. /\ Recovered(k) # Halted
        /\ Recovered(k) = committed[k] \/ (Recovered(k) # NoValue /\ committed[k] # NoValue)
    BY <1>8, <1>19 DEF BroughtBack
  <2>1. CASE o.entry = tree[k] /\ o.kind = "insert" /\ Row(k).op \in {"insert", "deleted_insert"}
    <3>1. \A i \in On(t, k) : ~(i < last)
      BY <1>12, <2>1
    <3>2. \A i \in On(t, k) : i = last
      <4> TAKE i \in On(t, k)
      <4>1. i <= last /\ i \in Nat /\ last \in Nat
        BY <1>1, <1>9 DEF On, Typed
      <4> QED
        BY <3>1, <4>1
    <3>3. Row(k).op = "insert"
      <4> SUFFICES ASSUME Row(k).op = "deleted_insert" PROVE FALSE
        BY <2>1
      <4>1. PICK i \in On(t, k) : ops[t][i].kind = "deleted_insert"
        BY <1>1, <1>6 DEF KeyOK
      <4> QED
        BY <1>11, <2>1, <3>2, <4>1
    <3>4. Recovered(k) = NoValue
      <4>1. committed[k] = NoValue
        BY <1>1, <3>3 DEF Shows, Visible
      <4> QED
        BY <2>0, <4>1
    <3>5. /\ \A e \in DOMAIN rec : e < last => rec[e].key # k
          /\ \A e \in DOMAIN rec : rec[e].key = k => rec[e].kind # "delete"
      BY <1>3, <1>10, <1>12, <2>1, <3>1, <3>2
    <3>6. Recovered(k)' = heap[tree[k]].val /\ Recovered(k)' # Halted /\ ~LoggedDelete(k)'
      BY <1>12, <1>13, <1>14, <1>19, <2>0, <2>1, <3>4, <3>5
    <3> QED
      BY <1>6, <1>15, <3>3, <3>6
  <2>2. CASE o.kind \in {"delete", "deleted_insert"} /\ o.entry = tree[k] /\ Row(k).op = o.kind
    <3>1. rec[last].kind = "delete" /\ LoggedDelete(k)'
      BY <1>10, <1>12, <1>14, <2>2
    <3>2. CASE o.kind = "delete"
      <4>1. committed[k] # NoValue
        <5>1. committed[k] = Visible(k) /\ Visible(k) = Row(k).val
          BY <1>1, <1>6, <2>2, <3>2 DEF Shows, ErasedInsert, Visible
        <5> QED
          BY <1>6, <1>16, <5>1
      <4>2. Recovered(k) # NoValue
        BY <2>0, <4>1
      <4> QED
        BY <1>10, <1>13, <3>1, <4>2
    <3>3. CASE o.kind = "deleted_insert"
      <4>1. PICK i \in On(t, k) : ops[t][i].entry = tree[k] /\ ops[t][i].kind = "insert"
        BY <1>1, <1>6, <2>2, <3>3 DEF KeyOK
      <4>2. i # last /\ i <= last /\ i \in Nat /\ last \in Nat
        BY <1>1, <1>9, <1>11, <3>3, <4>1 DEF On, Typed
      <4>3. i < last /\ i \in DOMAIN rec /\ rec[i].key = k /\ rec[i].kind = "insert"
        BY <1>3, <4>1, <4>2
      <4> QED
        BY <1>10, <1>13, <3>1, <4>3
    <3> QED
      BY <2>2, <3>2, <3>3
  <2>3. CASE o.kind = "update" /\ Row(k).op = "update"
    <3>1. \A e \in DOMAIN rec : rec[e].key = k => rec[e].kind # "delete"
      <4> SUFFICES ASSUME NEW e \in DOMAIN rec, rec[e].key = k PROVE rec[e].kind # "delete"
        OBVIOUS
      <4>1. e \in On(t, k)
        BY <1>3
      <4>2. PICK x : x = ops[t][e]
        OBVIOUS
      <4>3. Fits(t, x, k)
        BY <1>1, <4>1, <4>2 DEF ListOK
      <4>4. x.kind \notin {"delete", "deleted_insert"}
        BY <1>15, <2>3, <4>3 DEF Fits
      <4> QED
        BY <1>3, <4>2, <4>4
    <3>2. LastIsUpdate(k)' /\ ~LoggedDelete(k)' /\ Recovered(k)' # Halted /\ Recovered(k)' = heap[o.entry].val
      BY <1>12, <1>13, <1>14, <1>19, <2>0, <2>3, <3>1
    <3> QED
      BY <1>12, <1>15, <1>16, <1>17, <2>3, <3>2
  <2>4. CASE o.kind = "delete" /\ Row(k).op = "update" /\ heap[changes[t][k]].op = "delete"
    BY <1>15, <2>4
  <2> QED
    BY <1>12, <2>1, <2>2, <2>3, <2>4 DEF Fits
<1> QED
  BY <1>18, <1>19

LEMMA WriteRecordIsSound ==
    ASSUME Sound, NEW t \in Txns, WriteRecord(t)
    PROVE  /\ departed' = departed
           /\ \/ Sound' /\ corrupt' = FALSE
              \/ corrupt' = TRUE /\ \E k \in Keys : Wild(k)
<1>1. /\ Typed /\ HeapOK /\ TreeOK /\ ChangesOK /\ UpdatesOK /\ \A s \in Txns : OpsOK(s) /\ LookedOK(s)
      /\ \A k \in Keys : ~Wild(k) => KeyOK(k) /\ \A s \in Txns : ListOK(s, k)
      /\ \A k \in Keys : ~Departed(k) => Shows(k) /\ LogOK(k)
  BY DEF Sound
<1>2. /\ heap' = heap /\ tree' = tree /\ changes' = changes /\ ops' = ops /\ made' = made
      /\ looked' = looked /\ intent' = intent /\ committed' = committed /\ departed' = departed
      /\ pc[t] = "active" /\ looked[t] = {} /\ ~corrupt
  BY DEF WriteRecord, region, wishes
<1>3. CASE Dangling(t) /\ corrupt' = TRUE
  <2>1. PICK i \in DOMAIN ops[t] : ops[t][i].entry \notin DOMAIN heap
    BY <1>3 DEF Dangling
  <2>2. \E k \in Keys : Wild(k)
    BY <1>1, <2>1 DEF OpsOK
  <2> QED
    BY <1>2, <1>3, <2>2
<1>4. CASE /\ ~Dangling(t) /\ log' = Append(log, AddToLog(ops[t]))
           /\ pc' = [pc EXCEPT ![t] = "logged"] /\ UNCHANGED corrupt
  <2>1. PICK rec : rec = AddToLog(ops[t])
    OBVIOUS
  <2>2. /\ rec \in Seq(LoggedChanges) /\ DOMAIN rec = DOMAIN ops[t]
        /\ \A i, k : i \in On(t, k) <=> i \in DOMAIN rec /\ rec[i].key = k
    BY <1>4, <2>1, RecordIs
  <2>3. /\ \A s \in Txns : Unfinished(s)' <=> Unfinished(s)
        /\ \A s \in Txns : pc'[s] = IF s = t THEN "logged" ELSE pc[s]
        /\ pc' \in [Txns -> {"active", "logged", "done"}]
    BY <1>1, <1>2, <1>4 DEF Unfinished, Typed
  <2>4. Typed'
    <3>1. log' \in Seq(Seq(LoggedChanges))
      BY <1>1, <1>4, <2>1, <2>2 DEF Typed
    <3> QED
      BY <1>1, <1>2, <2>3, <3>1 DEF Typed
  <2>5. HeapOK' /\ TreeOK'
    BY <1>1, <1>2 DEF HeapOK, TreeOK, Given, Linked, Row
  <2>6. ChangesOK' /\ UpdatesOK'
    BY <1>1, <1>2, <2>3 DEF ChangesOK, UpdatesOK
  <2>7. \A s \in Txns : OpsOK(s)'
    BY <1>1, <1>2, <2>3 DEF OpsOK, Given, Wild, ChangedKeys
  <2>8. \A s \in Txns : LookedOK(s)'
    <3> TAKE s \in Txns
    <3>1. CASE s = t
      BY <1>2, <3>1 DEF LookedOK
    <3>2. CASE s # t
      BY <1>1, <1>2, <2>3, <3>2 DEF LookedOK, IsAbout, IsShown, New
    <3> QED
      BY <3>1, <3>2
  <2>9. /\ \A s \in Txns, k \in Keys : On(s, k)' = On(s, k) /\ (Holds(s, k)' <=> Holds(s, k))
        /\ \A k \in Keys : (Linked(k)' <=> Linked(k)) /\ Row(k)' = Row(k)
        /\ \A s \in Txns : ChangedKeys(s)' = ChangedKeys(s)
    BY <1>2 DEF On, Holds, Linked, Row, ChangedKeys
  <2>10. ASSUME NEW k \in Keys, ~Wild(k)'
         PROVE  KeyOK(k)' /\ \A s \in Txns : ListOK(s, k)'
    <3>1. KeyOK(k) /\ \A s \in Txns : ListOK(s, k)
      BY <1>1, <1>2, <2>10 DEF Wild
    <3>2. KeyOK(k)'
      BY <1>2, <2>3, <2>9, <3>1 DEF KeyOK
    <3>3. \A s \in Txns : ListOK(s, k)'
      BY <1>2, <2>9, <3>1 DEF ListOK, Fits
    <3> QED
      BY <3>2, <3>3
  <2>11. ASSUME NEW k \in Keys, ~Departed(k)'
         PROVE  Shows(k)' /\ LogOK(k)'
    <3>1. ~Departed(k) /\ ~Wild(k) /\ Shows(k) /\ LogOK(k) /\ KeyOK(k) /\ ListOK(t, k)
      BY <1>1, <1>2, <2>11 DEF Departed, Wild
    <3>2. Shows(k)'
      BY <1>2, <2>9, <3>1 DEF Shows, Visible, ErasedInsert
    <3>3. CASE k \notin ChangedKeys(t)
      <4>1. On(t, k) = {}
        BY <3>1, <3>3 DEF KeyOK, ListOK, Fits
      <4>2. ~Touches(rec, k)
        BY <2>2, <4>1 DEF Touches
      <4>3. Unlogged(k)
        <5>1. Recovered(k)' = RedoRecord(k, Recovered(k), rec)
          BY <1>1, <1>4, <2>1, <2>2, RecoveredIs, NextRecoveredIs, RedoOfMore DEF Typed
        <5>2. RedoRecord(k, Recovered(k), rec) = Recovered(k)
          BY <2>2, <4>2, RedoOfRecord
        <5>3. LastIsUpdate(k) => LastIsUpdate(k)'
          BY <1>1, <1>4, <2>1, <2>2, <4>2, LastOfMore
        <5>4. LoggedDelete(k)' <=> LoggedDelete(k)
          BY <1>1, <1>4, <2>1, <2>2, <4>2, DeletesOfMore DEF Touches
        <5> QED
          BY <5>1, <5>2, <5>3, <5>4 DEF Unlogged
      <4>4. Untouched(k)
        BY <1>2, <2>3, <2>9, <3>3 DEF Untouched
      <4>5. LogOK(k)'
        BY <3>1, <4>3, <4>4, UntouchedLogOK
      <4> QED
        BY <3>2, <4>5
    <3>4. CASE k \in ChangedKeys(t)
      <4>1. HasLogged(t, k)'
        BY <2>3, <2>9, <3>4 DEF HasLogged
      <4>2. \A s \in Txns : k \in ChangedKeys(s) => s = t
        BY <3>1, <3>4 DEF KeyOK, Holds
      <4>3. \A s \in Txns : HasLogged(s, k)' => s = t
        BY <2>9, <4>2 DEF HasLogged
      <4>4. BroughtBack(k, intent[t][k])'
        BY <1>2, <1>4, <3>1, <3>4, RecordBringsBack DEF BroughtBack
      <4>5. LogOK(k)'
        BY <4>1, <4>3, <4>4 DEF LogOK
      <4> QED
        BY <3>2, <4>5
    <3> QED
      BY <3>3, <3>4
  <2>12. Sound'
    BY <2>4, <2>5, <2>6, <2>7, <2>8, <2>10, <2>11 DEF Sound
  <2> QED
    BY <1>2, <1>4, <2>12
<1> QED
  BY <1>3, <1>4 DEF WriteRecord

-----------------------------------------------------------------------------
\* The tree as the operations of a transaction are worked off

Shape(m) == DOMAIN m = {"heap", "tree", "changes", "bad"} /\ m.bad \in BOOLEAN
\* How far the tree of t can have got, as long as nothing went wrong.
Along(t, m) ==
    /\ DOMAIN m.heap \subseteq DOMAIN heap
    /\ \A n \in DOMAIN m.heap :
          /\ GoodNode(m.heap[n]) /\ m.heap[n].key = heap[n].key /\ m.heap[n].val = heap[n].val
          /\ m.heap[n] = heap[n] \/ m.heap[n].id \in {t, NoTxn}
    /\ m.tree \in [Keys -> Names \cup {NoNode}] /\ m.changes \in [Keys -> Names \cup {NoNode}]
    /\ \A k \in Keys :
          /\ m.tree[k] \in {tree[k], changes[t][k], NoNode}
          /\ m.tree[k] # NoNode => m.tree[k] \in DOMAIN m.heap
          /\ m.changes[k] \in {changes[t][k], NoNode}
          /\ m.changes[k] # NoNode => m.changes[k] \in DOMAIN m.heap /\ m.tree[k] # changes[t][k]
    /\ \A n \in DOMAIN heap \ DOMAIN m.heap : n \in {tree[heap[n].key], changes[t][heap[n].key]}
\* A step that changes the row of one key.
Only(m, q, k) ==
    /\ \A n \in DOMAIN m.heap : m.heap[n].key # k => n \in DOMAIN q.heap /\ q.heap[n] = m.heap[n]
    /\ \A j \in Keys : j # k => q.tree[j] = m.tree[j] /\ q.changes[j] = m.changes[j]

\* What the operations do to the tree.
Unmarks(m, q, n) ==
    /\ Shape(q) /\ q.bad = m.bad /\ q.heap = Unmarked(m.heap, n)
    /\ q.tree = m.tree /\ q.changes = m.changes
Erases(m, q, n, k) ==
    /\ Shape(q) /\ q.bad = m.bad /\ q.heap = Freed(m.heap, n)
    /\ q.tree = [m.tree EXCEPT ![k] = NoNode] /\ q.changes = m.changes
Replaces(m, q, n, new, k) ==
    /\ Shape(q) /\ q.bad = m.bad /\ q.heap = Unmarked(Freed(m.heap, n), new)
    /\ q.tree = [m.tree EXCEPT ![k] = new] /\ q.changes = [m.changes EXCEPT ![k] = NoNode]
MarksBack(m, q, n, op, id) ==
    /\ Shape(q) /\ q.bad = m.bad /\ q.heap = MarkBack(m.heap, n, op, id)
    /\ q.tree = m.tree /\ q.changes = m.changes

LEMMA BadIs ==
    ASSUME NEW m, Shape(m)
    PROVE  Shape(Bad(m)) /\ Bad(m).bad = TRUE
BY DEF Shape, Bad

LEMMA ErasedIs ==
    ASSUME NEW m, Shape(m), NEW n
    PROVE  \/ m.tree[KeyOf(m, n)] # n /\ Erased(m, n) = Bad(m)
           \/ m.tree[KeyOf(m, n)] = n /\ Erases(m, Erased(m, n), n, KeyOf(m, n))
<1>1. PICK k : k = KeyOf(m, n)
  OBVIOUS
<1>2. CASE m.tree[k] = n
  <2>1. Erased(m, n) = [m EXCEPT !.heap = Freed(@, n), !.tree[k] = NoNode]
    BY <1>1, <1>2 DEF Erased
  <2>2. PICK q : q = [m EXCEPT !.heap = Freed(@, n), !.tree[k] = NoNode]
    OBVIOUS
  <2>3. DOMAIN q = DOMAIN m /\ q.bad = m.bad
    BY <2>2 DEF Shape
  <2>4. q.heap = Freed(m.heap, n) /\ q.changes = m.changes
    BY <2>2 DEF Shape
  <2>5. q.tree = [m.tree EXCEPT ![k] = NoNode]
    BY <2>2 DEF Shape
  <2> QED
    BY <1>1, <1>2, <2>1, <2>2, <2>3, <2>4, <2>5 DEF Erases, Shape
<1>3. CASE m.tree[k] # n
  BY <1>1, <1>3 DEF Erased
<1> QED
  BY <1>1, <1>2, <1>3

LEMMA ReplacedIs ==
    ASSUME NEW m, Shape(m), NEW n, NEW new
    PROVE  \/ /\ m.tree[KeyOf(m, n)] # n \/ m.changes[KeyOf(m, n)] # new
              /\ Shape(Replaced(m, n, new)) /\ Replaced(m, n, new).bad
           \/ /\ m.tree[KeyOf(m, n)] = n /\ m.changes[KeyOf(m, n)] = new
              /\ Replaces(m, Replaced(m, n, new), n, new, KeyOf(m, n))
<1>1. PICK k : k = KeyOf(m, n)
  OBVIOUS
<1>2. CASE m.changes[k] # new
  BY <1>1, <1>2, BadIs DEF Replaced
<1>3. CASE m.changes[k] = new
  <2>1. PICK e : e = Erased(m, n)
    OBVIOUS
  <2>2. PICK q : q = [e EXCEPT !.heap = Unmarked(Freed(@, n), new), !.tree[k] = new, !.changes[k] = NoNode]
    OBVIOUS
  <2>3. Replaced(m, n, new) = q
    BY <1>1, <1>3, <2>1, <2>2 DEF Replaced
  <2>4. Shape(e)
    <3>1. e = Bad(m) \/ Erases(m, e, n, k)
      BY <1>1, <2>1, ErasedIs
    <3> QED
      BY <3>1, BadIs DEF Erases
  <2>5. DOMAIN q = DOMAIN e /\ q.bad = e.bad
    BY <2>2, <2>4 DEF Shape
  <2>6. q.heap = Unmarked(Freed(e.heap, n), new)
    BY <2>2, <2>4 DEF Shape
  <2>7. q.tree = [e.tree EXCEPT ![k] = new]
    BY <2>2, <2>4 DEF Shape
  <2>8. q.changes = [e.changes EXCEPT ![k] = NoNode]
    BY <2>2, <2>4 DEF Shape
  <2>9. Shape(q)
    BY <2>4, <2>5 DEF Shape
  <2>10. CASE m.tree[k] # n
    <3>1. e.bad = TRUE
      BY <1>1, <2>1, <2>10, BadIs, ErasedIs
    <3> QED
      BY <1>1, <2>3, <2>5, <2>9, <2>10, <3>1
  <2>11. CASE m.tree[k] = n
    <3>1. Erases(m, e, n, k)
      BY <1>1, <2>1, <2>11, ErasedIs
    <3>2. Freed(Freed(m.heap, n), n) = Freed(m.heap, n)
      BY DEF Freed
    <3>3. q.heap = Unmarked(Freed(m.heap, n), new)
      BY <2>6, <3>1, <3>2 DEF Erases
    <3>4. [[m.tree EXCEPT ![k] = NoNode] EXCEPT ![k] = new] = [m.tree EXCEPT ![k] = new]
      OBVIOUS
    <3>5. q.tree = [m.tree EXCEPT ![k] = new] /\ q.changes = [m.changes EXCEPT ![k] = NoNode]
      BY <2>7, <2>8, <3>1, <3>4 DEF Erases
    <3>6. q.bad = m.bad
      BY <2>5, <3>1 DEF Erases
    <3>7. Replaces(m, q, n, new, k)
      BY <2>9, <3>3, <3>5, <3>6 DEF Replaces
    <3> QED
      BY <1>1, <1>3, <2>3, <2>11, <3>7
  <2> QED
    BY <2>10, <2>11
<1> QED
  BY <1>1, <1>2, <1>3

\* What committing an operation does.
CommitOpDoes(m, q, o, n, k) ==
    /\ Shape(q) /\ (m.bad => q.bad)
    /\ q.bad /\ ~m.bad =>
          \/ n \notin DOMAIN m.heap
          \/ /\ m.heap[n].op = o.kind
             /\ \/ o.kind # "insert" /\ m.tree[k] # n
                \/ o.kind = "update" /\ m.changes[k] # o.new
    /\ ~q.bad => /\ n \in DOMAIN m.heap
                 /\ m.heap[n].op # o.kind => q = m
                 /\ m.heap[n].op = o.kind =>
                       /\ o.kind = "insert" => Unmarks(m, q, n)
                       /\ o.kind = "update" =>
                             /\ m.tree[k] = n /\ m.changes[k] = o.new
                             /\ Replaces(m, q, n, o.new, k)
                       /\ o.kind \in {"delete", "deleted_insert"} =>
                             m.tree[k] = n /\ Erases(m, q, n, k)
LEMMA CommitOpIs ==
    ASSUME NEW m, Shape(m), NEW o, o.kind \in Marks, NEW n, n = o.entry, NEW k, k = KeyOf(m, n),
           NEW q, q = CommitOp(m, o)
    PROVE  CommitOpDoes(m, q, o, n, k)
<1>1. CASE n \notin DOMAIN m.heap
  <2>1. q = Bad(m)
    BY <1>1 DEF CommitOp
  <2> QED
    BY <1>1, <2>1, BadIs DEF CommitOpDoes
<1>2. CASE n \in DOMAIN m.heap /\ m.heap[n].op # o.kind
  <2>1. q = m
    BY <1>2 DEF CommitOp
  <2> QED
    BY <1>2, <2>1 DEF CommitOpDoes
<1>3. CASE n \in DOMAIN m.heap /\ m.heap[n].op = o.kind
  <2>1. CASE o.kind = "insert"
    <3>1. q = [m EXCEPT !.heap = Unmarked(@, n)]
      BY <1>3, <2>1 DEF CommitOp, CommitInsert
    <3>2. Unmarks(m, q, n)
      BY <3>1 DEF Unmarks, Shape
    <3> QED
      BY <1>3, <2>1, <3>2 DEF Unmarks, CommitOpDoes
  <2>2. CASE o.kind = "update"
    <3>1. q = Replaced(m, n, o.new)
      BY <1>3, <2>2 DEF CommitOp
    <3> QED
      <4>1. \/ (m.tree[k] # n \/ m.changes[k] # o.new) /\ Shape(q) /\ q.bad
            \/ m.tree[k] = n /\ m.changes[k] = o.new /\ Replaces(m, q, n, o.new, k)
        BY <3>1, ReplacedIs
      <4>2. CASE (m.tree[k] # n \/ m.changes[k] # o.new) /\ Shape(q) /\ q.bad
        BY <1>3, <2>2, <4>2 DEF CommitOpDoes
      <4>3. CASE m.tree[k] = n /\ m.changes[k] = o.new /\ Replaces(m, q, n, o.new, k)
        <5>1. Shape(q) /\ q.bad = m.bad
          BY <4>3 DEF Replaces
        <5> QED
          BY <1>3, <2>2, <4>3, <5>1 DEF CommitOpDoes
      <4> QED
        BY <4>1, <4>2, <4>3
  <2>3. CASE o.kind \in {"delete", "deleted_insert"}
    <3>1. q = Erased(m, n)
      BY <1>3, <2>3 DEF CommitOp, CommitDelete, CommitDeletedInsert
    <3> QED
      <4>1. \/ m.tree[k] # n /\ q = Bad(m)
            \/ m.tree[k] = n /\ Erases(m, q, n, k)
        BY <3>1, ErasedIs
      <4>2. CASE m.tree[k] # n /\ q = Bad(m)
        <5>1. Shape(q) /\ q.bad
          BY <4>2, BadIs
        <5> QED
          BY <1>3, <2>3, <4>2, <5>1 DEF CommitOpDoes
      <4>3. CASE m.tree[k] = n /\ Erases(m, q, n, k)
        <5>1. Shape(q) /\ q.bad = m.bad
          BY <4>3 DEF Erases
        <5> QED
          BY <1>3, <2>3, <4>3, <5>1 DEF CommitOpDoes
      <4> QED
        BY <4>1, <4>2, <4>3
  <2> QED
    BY <2>1, <2>2, <2>3 DEF Marks
<1> QED
  BY <1>1, <1>2, <1>3 DEF CommitOpDoes

\* What undoing one does.
RollbackOpDoes(m, q, o, n, k) ==
    /\ Shape(q) /\ (m.bad => q.bad)
    /\ q.bad /\ ~m.bad => n \notin DOMAIN m.heap \/ (o.kind = "insert" /\ m.tree[k] # n)
    /\ ~q.bad => /\ n \in DOMAIN m.heap
                 /\ o.kind = "insert" => m.tree[k] = n /\ Erases(m, q, n, k)
                 /\ o.kind # "insert" => MarksBack(m, q, n, o.op, o.id)
LEMMA RollbackOpIs ==
    ASSUME NEW m, Shape(m), NEW o, NEW n, n = o.entry, NEW k, k = KeyOf(m, n),
           NEW q, q = RollbackOp(m, o)
    PROVE  RollbackOpDoes(m, q, o, n, k)
<1>1. CASE n \notin DOMAIN m.heap
  <2>1. q = Bad(m)
    BY <1>1 DEF RollbackOp
  <2> QED
    BY <1>1, <2>1, BadIs DEF RollbackOpDoes
<1>2. CASE n \in DOMAIN m.heap /\ o.kind = "insert"
  <2>1. q = Erased(m, n)
    BY <1>2 DEF RollbackOp, RollbackInsert
  <2>2. \/ m.tree[k] # n /\ q = Bad(m)
        \/ m.tree[k] = n /\ Erases(m, q, n, k)
    BY <2>1, ErasedIs
  <2>3. CASE m.tree[k] # n /\ q = Bad(m)
    <3>1. Shape(q) /\ q.bad
      BY <2>3, BadIs
    <3> QED
      BY <1>2, <2>3, <3>1 DEF RollbackOpDoes
  <2>4. CASE m.tree[k] = n /\ Erases(m, q, n, k)
    <3>1. Shape(q) /\ q.bad = m.bad
      BY <2>4 DEF Erases
    <3> QED
      BY <1>2, <2>4, <3>1 DEF RollbackOpDoes
  <2> QED
    BY <2>2, <2>3, <2>4
<1>3. CASE n \in DOMAIN m.heap /\ o.kind # "insert"
  <2>1. q = [m EXCEPT !.heap = MarkBack(@, n, o.op, o.id)]
    BY <1>3 DEF RollbackOp, RollbackMark
  <2>2. MarksBack(m, q, n, o.op, o.id)
    BY <2>1 DEF MarksBack, Shape
  <2> QED
    BY <1>3, <2>2 DEF MarksBack, RollbackOpDoes
<1> QED
  BY <1>1, <1>2, <1>3

\* What is linked is a node of its key, and not among the pending nodes.
LEMMA AlongKeys ==
    ASSUME HeapOK, TreeOK, ChangesOK, NEW t \in Txns, NEW m, Along(t, m), NEW k \in Keys
    PROVE  /\ m.tree[k] # NoNode => m.heap[m.tree[k]].key = k
           /\ m.changes[k] # NoNode =>
                 m.heap[m.changes[k]].key = k /\ m.changes[k] # m.tree[k] /\ m.changes[k] = changes[t][k]
<1>1. /\ m.tree[k] \in {tree[k], changes[t][k], NoNode}
      /\ m.tree[k] # NoNode => m.tree[k] \in DOMAIN m.heap
      /\ m.changes[k] \in {changes[t][k], NoNode}
      /\ m.changes[k] # NoNode => m.changes[k] \in DOMAIN m.heap /\ m.tree[k] # changes[t][k]
      /\ \A n \in DOMAIN m.heap : m.heap[n].key = heap[n].key
  BY DEF Along
<1>2. tree[k] # NoNode => heap[tree[k]].key = k
  BY DEF TreeOK, Linked, Row
<1>3. changes[t][k] # NoNode => heap[changes[t][k]].key = k
  BY DEF ChangesOK
<1> QED
  BY <1>1, <1>2, <1>3

\* A step that changes the marks of one node.
LEMMA MarksAlong ==
    ASSUME HeapOK, TreeOK, ChangesOK, NEW t \in Txns, NEW m, Along(t, m), NEW q, NEW n \in DOMAIN m.heap,
           q.tree = m.tree, q.changes = m.changes, DOMAIN q.heap = DOMAIN m.heap,
           \A x \in DOMAIN m.heap : x # n => q.heap[x] = m.heap[x],
           GoodNode(q.heap[n]), q.heap[n].key = m.heap[n].key, q.heap[n].val = m.heap[n].val,
           q.heap[n].id \in {t, NoTxn}
    PROVE  Along(t, q) /\ Only(m, q, m.heap[n].key)
<1>1. \A x \in DOMAIN q.heap :
         /\ GoodNode(q.heap[x]) /\ q.heap[x].key = heap[x].key /\ q.heap[x].val = heap[x].val
         /\ q.heap[x] = heap[x] \/ q.heap[x].id \in {t, NoTxn}
  <2> TAKE x \in DOMAIN q.heap
  <2>1. x \in DOMAIN m.heap
    OBVIOUS
  <2>2. /\ GoodNode(m.heap[x]) /\ m.heap[x].key = heap[x].key /\ m.heap[x].val = heap[x].val
        /\ m.heap[x] = heap[x] \/ m.heap[x].id \in {t, NoTxn}
    BY <2>1 DEF Along
  <2>3. CASE x = n
    BY <2>2, <2>3
  <2>4. CASE x # n
    <3>1. q.heap[x] = m.heap[x]
      BY <2>1, <2>4
    <3> QED
      BY <2>2, <3>1
  <2> QED
    BY <2>3, <2>4
<1>2. Along(t, q)
  BY <1>1 DEF Along
<1>3. Only(m, q, m.heap[n].key)
  BY DEF Only
<1> QED
  BY <1>2, <1>3

LEMMA UnmarksAlong ==
    ASSUME HeapOK, TreeOK, ChangesOK, NEW t \in Txns, NEW m, Along(t, m), NEW q, NEW n \in DOMAIN m.heap,
           Unmarks(m, q, n)
    PROVE  Along(t, q) /\ Only(m, q, m.heap[n].key)
<1>1. m.heap[n] \in Nodes
  BY DEF Along, GoodNode
<1>2. /\ DOMAIN q.heap = DOMAIN m.heap
      /\ \A x \in DOMAIN m.heap : x # n => q.heap[x] = m.heap[x]
      /\ q.heap[n] = [key |-> m.heap[n].key, val |-> m.heap[n].val, op |-> "none", id |-> NoTxn]
  BY <1>1, UnmarkedIs DEF Unmarks
<1>3. q.tree = m.tree /\ q.changes = m.changes
  BY DEF Unmarks
<1>4. GoodNode(q.heap[n])
  BY <1>1, <1>2 DEF GoodNode, Nodes, IsMarkedRight
<1>5. q.heap[n].key = m.heap[n].key /\ q.heap[n].val = m.heap[n].val /\ q.heap[n].id \in {t, NoTxn}
  BY <1>2
<1> QED
  BY <1>2, <1>3, <1>4, <1>5, MarksAlong

LEMMA MarksBackAlong ==
    ASSUME HeapOK, TreeOK, ChangesOK, NEW t \in Txns, NEW m, Along(t, m), NEW q, NEW n \in DOMAIN m.heap,
           NEW op \in Marks \cup {"none"}, NEW id \in {t, NoTxn}, op = "none" <=> id = NoTxn,
           MarksBack(m, q, n, op, id)
    PROVE  Along(t, q) /\ Only(m, q, m.heap[n].key)
<1>1. m.heap[n] \in Nodes
  BY DEF Along, GoodNode
<1>2. /\ DOMAIN q.heap = DOMAIN m.heap
      /\ \A x \in DOMAIN m.heap : x # n => q.heap[x] = m.heap[x]
      /\ q.heap[n] = [key |-> m.heap[n].key, val |-> m.heap[n].val, op |-> op, id |-> id]
  BY <1>1, MarkBackIs DEF MarksBack
<1>3. q.tree = m.tree /\ q.changes = m.changes
  BY DEF MarksBack
<1>4. GoodNode(q.heap[n])
  BY <1>1, <1>2 DEF GoodNode, Nodes, IsMarkedRight
<1>5. q.heap[n].key = m.heap[n].key /\ q.heap[n].val = m.heap[n].val /\ q.heap[n].id \in {t, NoTxn}
  BY <1>2
<1> QED
  BY <1>2, <1>3, <1>4, <1>5, MarksAlong

LEMMA ErasesAlong ==
    ASSUME HeapOK, TreeOK, ChangesOK, NEW t \in Txns, NEW m, Along(t, m), NEW q, NEW n \in DOMAIN m.heap,
           NEW k, k = m.heap[n].key, m.tree[k] = n, Erases(m, q, n, k)
    PROVE  Along(t, q) /\ Only(m, q, k)
<1>1. /\ m.tree \in [Keys -> Names \cup {NoNode}] /\ m.changes \in [Keys -> Names \cup {NoNode}]
      /\ n \in DOMAIN heap /\ k = heap[n].key /\ k \in Keys /\ n # NoNode
  BY NobodyIsNamed DEF Along, HeapOK, GoodNode, Nodes
<1>2. /\ DOMAIN q.heap = DOMAIN m.heap \ {n} /\ q.changes = m.changes
      /\ \A x \in DOMAIN m.heap : x # n => q.heap[x] = m.heap[x]
  BY DEF Erases, Freed
<1>3. q.tree[k] = NoNode /\ \A j \in Keys : j # k => q.tree[j] = m.tree[j]
  BY <1>1 DEF Erases
<1>4. q.tree \in [Keys -> Names \cup {NoNode}]
  BY <1>1 DEF Erases
<1>5. \A j \in Keys :
         /\ m.tree[j] # NoNode => m.heap[m.tree[j]].key = j
         /\ m.changes[j] # NoNode =>
               m.heap[m.changes[j]].key = j /\ m.changes[j] # m.tree[j] /\ m.changes[j] = changes[t][j]
  BY AlongKeys
<1>6. ASSUME NEW j \in Keys
      PROVE  /\ q.tree[j] \in {tree[j], changes[t][j], NoNode}
             /\ q.tree[j] # NoNode => q.tree[j] \in DOMAIN q.heap
             /\ q.changes[j] \in {changes[t][j], NoNode}
             /\ q.changes[j] # NoNode => q.changes[j] \in DOMAIN q.heap /\ q.tree[j] # changes[t][j]
  <2>1. /\ m.tree[j] \in {tree[j], changes[t][j], NoNode}
        /\ m.tree[j] # NoNode => m.tree[j] \in DOMAIN m.heap
        /\ m.changes[j] \in {changes[t][j], NoNode}
        /\ m.changes[j] # NoNode => m.changes[j] \in DOMAIN m.heap /\ m.tree[j] # changes[t][j]
    BY DEF Along
  <2>2. m.changes[j] # n
    BY <1>1, <1>5
  <2>3. CASE j = k
    BY <1>2, <1>3, <1>5, <2>1, <2>2, <2>3
  <2>4. CASE j # k
    <3>1. m.tree[j] # n
      BY <1>1, <1>5, <2>4
    <3> QED
      BY <1>2, <1>3, <2>1, <2>2, <2>4, <3>1
  <2> QED
    BY <2>3, <2>4
<1>7. \A x \in DOMAIN q.heap :
         /\ GoodNode(q.heap[x]) /\ q.heap[x].key = heap[x].key /\ q.heap[x].val = heap[x].val
         /\ q.heap[x] = heap[x] \/ q.heap[x].id \in {t, NoTxn}
  BY <1>2 DEF Along
<1>8. \A x \in DOMAIN heap \ DOMAIN q.heap : x \in {tree[heap[x].key], changes[t][heap[x].key]}
  <2>1. n \in {tree[k], changes[t][k]}
    BY <1>1 DEF Along
  <2> QED
    BY <1>1, <1>2, <2>1 DEF Along
<1>9. DOMAIN q.heap \subseteq DOMAIN heap
  BY <1>2 DEF Along
<1>10. Along(t, q)
  BY <1>1, <1>2, <1>4, <1>6, <1>7, <1>8, <1>9 DEF Along
<1>11. Only(m, q, k)
  BY <1>2, <1>3 DEF Only
<1> QED
  BY <1>10, <1>11

LEMMA ReplacesAlong ==
    ASSUME HeapOK, TreeOK, ChangesOK, NEW t \in Txns, NEW m, Along(t, m), NEW q, NEW n \in DOMAIN m.heap,
           NEW k, k = m.heap[n].key, m.tree[k] = n, NEW new \in Names, m.changes[k] = new,
           Replaces(m, q, n, new, k)
    PROVE  /\ Along(t, q) /\ Only(m, q, k)
           /\ new = changes[t][k] /\ q.tree[k] = new /\ q.heap[new].op = "none"
<1>1. /\ m.tree \in [Keys -> Names \cup {NoNode}] /\ m.changes \in [Keys -> Names \cup {NoNode}]
      /\ n \in DOMAIN heap /\ k = heap[n].key /\ k \in Keys /\ n # NoNode /\ new # NoNode
  BY NobodyIsNamed DEF Along, HeapOK, GoodNode, Nodes
<1>2. \A j \in Keys :
         /\ m.tree[j] # NoNode => m.heap[m.tree[j]].key = j
         /\ m.changes[j] # NoNode =>
               m.heap[m.changes[j]].key = j /\ m.changes[j] # m.tree[j] /\ m.changes[j] = changes[t][j]
  BY AlongKeys
<1>3. /\ new \in DOMAIN m.heap /\ new # n /\ m.heap[new].key = k /\ new = changes[t][k]
      /\ m.heap[new] \in Nodes
  BY <1>1, <1>2 DEF Along, GoodNode
<1>4. PICK h : h = Freed(m.heap, n)
  OBVIOUS
<1>5. /\ DOMAIN h = DOMAIN m.heap \ {n} /\ \A x \in DOMAIN m.heap : x # n => h[x] = m.heap[x]
      /\ new \in DOMAIN h /\ h[new] = m.heap[new]
  BY <1>3, <1>4 DEF Freed
<1>6. q.heap = Unmarked(h, new)
  BY <1>4 DEF Replaces
<1>7. /\ DOMAIN q.heap = DOMAIN m.heap \ {n}
      /\ \A x \in DOMAIN m.heap : x # n /\ x # new => q.heap[x] = m.heap[x]
      /\ q.heap[new] = [key |-> k, val |-> m.heap[new].val, op |-> "none", id |-> NoTxn]
  <2>1. h[new] \in Nodes /\ h[new].key = k
    BY <1>3, <1>5
  <2>2. /\ DOMAIN Unmarked(h, new) = DOMAIN h
        /\ \A x \in DOMAIN h : x # new => Unmarked(h, new)[x] = h[x]
        /\ Unmarked(h, new)[new] = [key |-> h[new].key, val |-> h[new].val, op |-> "none", id |-> NoTxn]
    BY <1>5, <2>1, UnmarkedIs
  <2> QED
    BY <1>5, <1>6, <2>1, <2>2
<1>8. /\ q.tree[k] = new /\ \A j \in Keys : j # k => q.tree[j] = m.tree[j]
      /\ q.changes[k] = NoNode /\ \A j \in Keys : j # k => q.changes[j] = m.changes[j]
  BY <1>1 DEF Replaces
<1>9. q.tree \in [Keys -> Names \cup {NoNode}] /\ q.changes \in [Keys -> Names \cup {NoNode}]
  BY <1>1 DEF Replaces
<1>10. ASSUME NEW j \in Keys
       PROVE  /\ q.tree[j] \in {tree[j], changes[t][j], NoNode}
              /\ q.tree[j] # NoNode => q.tree[j] \in DOMAIN q.heap
              /\ q.changes[j] \in {changes[t][j], NoNode}
              /\ q.changes[j] # NoNode => q.changes[j] \in DOMAIN q.heap /\ q.tree[j] # changes[t][j]
  <2>1. /\ m.tree[j] \in {tree[j], changes[t][j], NoNode}
        /\ m.tree[j] # NoNode => m.tree[j] \in DOMAIN m.heap
        /\ m.changes[j] \in {changes[t][j], NoNode}
        /\ m.changes[j] # NoNode => m.changes[j] \in DOMAIN m.heap /\ m.tree[j] # changes[t][j]
    BY DEF Along
  <2>2. m.changes[j] # n
    BY <1>1, <1>2
  <2>3. CASE j = k
    BY <1>3, <1>7, <1>8, <2>3
  <2>4. CASE j # k
    <3>1. m.tree[j] # n
      BY <1>1, <1>2, <2>4
    <3> QED
      BY <1>7, <1>8, <2>1, <2>2, <2>4, <3>1
  <2> QED
    BY <2>3, <2>4
<1>11. \A x \in DOMAIN q.heap :
          /\ GoodNode(q.heap[x]) /\ q.heap[x].key = heap[x].key /\ q.heap[x].val = heap[x].val
          /\ q.heap[x] = heap[x] \/ q.heap[x].id \in {t, NoTxn}
  <2> TAKE x \in DOMAIN q.heap
  <2>1. /\ x \in DOMAIN m.heap /\ x # n
        /\ GoodNode(m.heap[x]) /\ m.heap[x].key = heap[x].key /\ m.heap[x].val = heap[x].val
        /\ m.heap[x] = heap[x] \/ m.heap[x].id \in {t, NoTxn}
    BY <1>7 DEF Along
  <2>2. CASE x = new
    <3>1. GoodNode(q.heap[x])
      BY <1>1, <1>3, <1>7, <2>2 DEF GoodNode, Nodes, IsMarkedRight
    <3>2. q.heap[x].key = k /\ q.heap[x].val = m.heap[x].val /\ q.heap[x].id = NoTxn
      BY <1>7, <2>2
    <3> QED
      BY <1>3, <2>1, <2>2, <3>1, <3>2
  <2>3. CASE x # new
    <3>1. q.heap[x] = m.heap[x]
      BY <1>7, <2>1, <2>3
    <3> QED
      BY <2>1, <3>1
  <2> QED
    BY <2>2, <2>3
<1>12. \A x \in DOMAIN heap \ DOMAIN q.heap : x \in {tree[heap[x].key], changes[t][heap[x].key]}
  <2>1. n \in {tree[k], changes[t][k]}
    BY <1>1 DEF Along
  <2> QED
    BY <1>1, <1>7, <2>1 DEF Along
<1>13. DOMAIN q.heap \subseteq DOMAIN heap
  BY <1>7 DEF Along
<1>14. Along(t, q)
  BY <1>9, <1>10, <1>11, <1>12, <1>13 DEF Along
<1>15. Only(m, q, k)
  BY <1>3, <1>7, <1>8 DEF Only
<1>16. q.heap[new].op = "none"
  BY <1>7
<1> QED
  BY <1>3, <1>8, <1>14, <1>15, <1>16

-----------------------------------------------------------------------------
\* Commit

\* The row of a key as the transaction has left it.
Alone(t, m, k) ==
    /\ \A n \in DOMAIN heap : heap[n].key = k => n \in DOMAIN m.heap /\ m.heap[n] = heap[n]
    /\ m.tree[k] = tree[k] /\ m.changes[k] = changes[t][k]
\* The row of a key with the node that it will have, unmarked, or with none.
Settled(m, k, n) == m.tree[k] = n /\ (n # NoNode => m.heap[n].op = "none")

LEMMA OnlyLeavesTheRest ==
    ASSUME HeapOK, TreeOK, ChangesOK, NEW t \in Txns, NEW m, Along(t, m), NEW q, NEW j, Only(m, q, j),
           NEW k \in Keys, k # j
    PROVE  /\ q.tree[k] = m.tree[k] /\ q.changes[k] = m.changes[k]
           /\ Alone(t, m, k) => Alone(t, q, k)
           /\ \A n : Settled(m, k, n) => Settled(q, k, n)
<1>1. q.tree[k] = m.tree[k] /\ q.changes[k] = m.changes[k]
  BY DEF Only
<1>2. Alone(t, m, k) => Alone(t, q, k)
  BY <1>1 DEF Alone, Only
<1>3. ASSUME NEW n, Settled(m, k, n)
      PROVE  Settled(q, k, n)
  <2>1. m.tree[k] # NoNode => m.tree[k] \in DOMAIN m.heap /\ m.heap[m.tree[k]].key = k
    BY AlongKeys DEF Along
  <2>2. n # NoNode => q.heap[n] = m.heap[n]
    BY <1>3, <2>1 DEF Settled, Only
  <2> QED
    BY <1>1, <1>3, <2>2 DEF Settled
<1> QED
  BY <1>1, <1>2, <1>3

LEMMA CommitOpAlong ==
    ASSUME Typed, HeapOK, TreeOK, ChangesOK, NEW t \in Txns, OpsOK(t), NEW i \in DOMAIN ops[t],
           NEW m, Shape(m), Along(t, m), NEW q, q = CommitOp(m, ops[t][i]), ~q.bad
    PROVE  /\ ops[t][i].entry \in DOMAIN heap /\ Along(t, q)
           /\ Only(m, q, heap[ops[t][i].entry].key)
<1>1. PICK o : o = ops[t][i]
  OBVIOUS
<1>2. PICK n : n = o.entry
  OBVIOUS
<1>3. PICK k : k = KeyOf(m, n)
  OBVIOUS
<1>4. o.kind \in Marks /\ (o.kind = "update" => o.new \in Names)
  <2>1. o \in Operations
    BY <1>1 DEF Typed
  <2> QED
    BY <1>1, <2>1 DEF Operations, OpsOK
<1>5. /\ n \in DOMAIN m.heap
      /\ m.heap[n].op # o.kind => q = m
      /\ m.heap[n].op = o.kind =>
            /\ o.kind = "insert" => Unmarks(m, q, n)
            /\ o.kind = "update" =>
                  /\ m.tree[k] = n /\ m.changes[k] = o.new
                  /\ Replaces(m, q, n, o.new, k)
            /\ o.kind \in {"delete", "deleted_insert"} =>
                  m.tree[k] = n /\ Erases(m, q, n, k)
  <2>1. CommitOpDoes(m, q, o, n, k)
    BY <1>1, <1>2, <1>3, <1>4, CommitOpIs
  <2> QED
    BY <2>1 DEF CommitOpDoes
<1>6. n \in DOMAIN heap /\ m.heap[n].key = heap[n].key /\ k = m.heap[n].key
  BY <1>3, <1>5 DEF Along, KeyOf
<1>7. CASE m.heap[n].op # o.kind
  BY <1>1, <1>2, <1>5, <1>6, <1>7 DEF Only
<1>8. CASE m.heap[n].op = o.kind /\ o.kind = "insert"
  <2>1. Along(t, q) /\ Only(m, q, m.heap[n].key)
    BY <1>5, <1>8, UnmarksAlong
  <2> QED
    BY <1>1, <1>2, <1>6, <2>1
<1>9. CASE m.heap[n].op = o.kind /\ o.kind = "update"
  <2>1. Along(t, q) /\ Only(m, q, k)
    BY <1>4, <1>5, <1>6, <1>9, ReplacesAlong
  <2> QED
    BY <1>1, <1>2, <1>6, <2>1
<1>10. CASE m.heap[n].op = o.kind /\ o.kind \in {"delete", "deleted_insert"}
  <2>1. Along(t, q) /\ Only(m, q, k)
    BY <1>5, <1>6, <1>10, ErasesAlong
  <2> QED
    BY <1>1, <1>2, <1>6, <2>1
<1> QED
  BY <1>4, <1>7, <1>8, <1>9, <1>10 DEF Marks

\* The node that the commit of t leaves to a row, and the operation that does it.
Commits(t, k) ==
    CASE Row(k).op = "insert" -> tree[k]
      [] Row(k).op = "update" -> changes[t][k]
      [] OTHER -> NoNode
Does(t, k, i) == i \in On(t, k) /\ ops[t][i].entry = tree[k] /\ ops[t][i].kind = Row(k).op
DoneBy(t, k, i) == \E j \in On(t, k) : j <= i /\ Does(t, k, j)
CommitView(t, m, k, i) ==
    IF DoneBy(t, k, i) THEN Settled(m, k, Commits(t, k)) ELSE Alone(t, m, k)
CommitSoFar(t, m, i) ==
    /\ Shape(m)
    /\ m.bad => \E k \in Keys : Wild(k)
    /\ ~m.bad => Along(t, m) /\ \A k \in Keys : ~Wild(k) => CommitView(t, m, k, i)

\* An operation on the row of a key changes it as it should, and finds what it needs.
LEMMA CommitOpOfKey ==
    ASSUME Sound, NEW t \in Txns, NEW m, Shape(m), ~m.bad, Along(t, m), NEW i \in DOMAIN ops[t],
           NEW q, q = CommitOp(m, ops[t][i]),
           NEW k \in Keys, ~Wild(k), i \in On(t, k), CommitView(t, m, k, i - 1)
    PROVE  ~q.bad /\ CommitView(t, q, k, i)
<1>1. PICK o : o = ops[t][i]
  OBVIOUS
<1>2. PICK n : n = o.entry
  OBVIOUS
<1>3. /\ Typed /\ HeapOK /\ TreeOK /\ ChangesOK /\ UpdatesOK /\ OpsOK(t)
      /\ KeyOK(k) /\ ListOK(t, k)
  BY DEF Sound
<1>4. /\ n \in DOMAIN heap /\ heap[n].key = k /\ n \in Names /\ n # NoNode /\ n = ops[t][i].entry
      /\ o.kind \in Marks /\ (o.kind = "update" => o.new \in Names)
      /\ \A j \in On(t, k) : j \in Nat /\ i \in Nat
  <2>1. o \in Operations
    BY <1>1, <1>3 DEF Typed
  <2>2. n \in DOMAIN heap /\ heap[n].key = k
    BY <1>1, <1>2 DEF On
  <2>3. DOMAIN ops[t] \subseteq Nat
    BY <1>3 DEF Typed
  <2>4. n \in Names /\ n # NoNode
    BY <1>3, <2>2, NobodyIsNamed DEF HeapOK
  <2>5. o.kind \in Marks /\ (o.kind = "update" => o.new \in Names)
    BY <1>1, <1>3, <2>1 DEF Operations, OpsOK
  <2> QED
    BY <1>1, <1>2, <2>2, <2>3, <2>4, <2>5 DEF On
<1>5. Fits(t, o, k)
  BY <1>1, <1>3 DEF ListOK
<1>6. Holds(t, k) /\ tree[k] \in DOMAIN heap /\ tree[k] # NoNode /\ Row(k) = heap[tree[k]]
      /\ Row(k).key = k /\ (changes[t][k] # NoNode => changes[t][k] # tree[k])
  BY <1>3, <1>5 DEF Fits, Holds, TreeOK, ChangesOK, Linked, Row
<1>7. n \in DOMAIN m.heap => m.heap[n].key = k /\ KeyOf(m, n) = k
  BY <1>4 DEF Along, KeyOf
<1>8. ASSUME n \in DOMAIN m.heap
      PROVE  /\ m.heap[n].op # o.kind => q = m /\ ~q.bad
             /\ /\ m.heap[n].op = o.kind /\ (o.kind # "insert" => m.tree[k] = n)
                /\ o.kind = "update" => m.changes[k] = o.new
                => ~q.bad
             /\ ~q.bad /\ m.heap[n].op = o.kind =>
                   /\ o.kind = "insert" => Unmarks(m, q, n)
                   /\ o.kind = "update" =>
                         /\ m.tree[k] = n /\ m.changes[k] = o.new
                         /\ Replaces(m, q, n, o.new, k)
                   /\ o.kind \in {"delete", "deleted_insert"} =>
                         m.tree[k] = n /\ Erases(m, q, n, k)
  <2>1. q = CommitOp(m, o) /\ k = KeyOf(m, n)
    BY <1>1, <1>7, <1>8
  <2>2. CommitOpDoes(m, q, o, n, k)
    BY <1>2, <1>4, <2>1, CommitOpIs
  <2> QED
    BY <1>8, <2>2 DEF CommitOpDoes
\* The operation that changes the row comes before those on its new node.
<1>9. \A j \in On(t, k) : Does(t, k, j) /\ j # i /\ o.entry = tree[k] => ~(j < i)
  <2> TAKE j \in On(t, k)
  <2> SUFFICES ASSUME Does(t, k, j), o.entry = tree[k], j < i PROVE FALSE
    OBVIOUS
  <2>1. ops[t][j].kind = "insert" /\ o.kind = "deleted_insert"
    BY <1>1, <1>3 DEF ListOK
  <2>2. Row(k).op = "insert"
    BY <2>1 DEF Does
  <2> QED
    BY <1>5, <2>1, <2>2 DEF Fits
<1>10. CASE DoneBy(t, k, i - 1)
  <2>1. PICK j \in On(t, k) : j <= i - 1 /\ Does(t, k, j)
    BY <1>10 DEF DoneBy
  <2>2. j < i /\ j <= i
    BY <1>4, <2>1
  <2>3. o.entry # tree[k]
    BY <1>4, <1>9, <2>1, <2>2
  <2>4. /\ o.kind \in {"update", "delete"} /\ n = changes[t][k] /\ Row(k).op = "update"
    BY <1>2, <1>5, <2>3 DEF Fits
  <2>5. Commits(t, k) = n
    BY <2>4 DEF Commits
  <2>6. m.tree[k] = n /\ m.heap[n].op = "none"
    BY <1>4, <1>10, <2>5 DEF CommitView, Settled
  <2>7. n \in DOMAIN m.heap
    BY <1>4, <2>6 DEF Along
  <2>8. m.heap[n].op # o.kind
    BY <2>4, <2>6
  <2>9. q = m /\ ~q.bad
    BY <1>8, <2>7, <2>8
  <2>10. DoneBy(t, k, i)
    BY <2>1, <2>2 DEF DoneBy
  <2> QED
    BY <1>10, <2>9, <2>10 DEF CommitView
<1>11. CASE ~DoneBy(t, k, i - 1)
  <2>1. Alone(t, m, k)
    BY <1>11 DEF CommitView
  <2>2. n \in DOMAIN m.heap /\ m.heap[n] = heap[n] /\ m.tree[k] = tree[k] /\ m.changes[k] = changes[t][k]
    BY <1>4, <2>1 DEF Alone
  <2>3. CASE Does(t, k, i)
    <3>1. n = tree[k] /\ o.kind = Row(k).op /\ m.heap[n].op = o.kind
      BY <1>1, <1>2, <1>6, <2>2, <2>3 DEF Does
    <3>2. o.kind = "update" => o.new = changes[t][k]
      BY <1>2, <1>4, <1>5, <1>6, <3>1 DEF Fits
    <3>3. ~q.bad
      BY <1>8, <2>2, <3>1, <3>2
    <3>4. DoneBy(t, k, i)
      <4>1. i <= i
        BY <1>4
      <4> QED
        BY <2>3, <4>1 DEF DoneBy
    <3>5. Settled(q, k, Commits(t, k))
      <4>1. CASE o.kind = "insert"
        <5>1. Unmarks(m, q, n)
          BY <1>8, <2>2, <3>1, <3>3, <4>1
        <5>2. m.heap[n] \in Nodes
          BY <2>2, <1>3, <1>4 DEF HeapOK
        <5>3. q.tree = m.tree /\ q.heap = Unmarked(m.heap, n)
          BY <5>1 DEF Unmarks
        <5>4. q.heap[n].op = "none"
          <6>1. Unmarked(m.heap, n)[n] = [key |-> m.heap[n].key, val |-> m.heap[n].val, op |-> "none", id |-> NoTxn]
            BY <2>2, <5>2, UnmarkedIs
          <6> QED
            BY <5>3, <6>1
        <5>5. Commits(t, k) = n
          BY <3>1, <4>1 DEF Commits
        <5> QED
          BY <2>2, <3>1, <5>3, <5>4, <5>5 DEF Settled
      <4>2. CASE o.kind = "update"
        <5>1. m.tree[k] = n /\ m.changes[k] = o.new /\ Replaces(m, q, n, o.new, k)
          BY <1>8, <2>2, <3>1, <3>3, <4>2
        <5>2. o.new \in Names
          BY <1>4, <4>2
        <5>3. o.new = changes[t][k] /\ q.tree[k] = o.new /\ q.heap[o.new].op = "none"
          BY <1>3, <1>7, <2>2, <5>1, <5>2, ReplacesAlong
        <5>4. Commits(t, k) = changes[t][k]
          BY <3>1, <4>2 DEF Commits
        <5> QED
          BY <5>3, <5>4 DEF Settled
      <4>3. CASE o.kind \in {"delete", "deleted_insert"}
        <5>1. Erases(m, q, n, k)
          BY <1>8, <2>2, <3>1, <3>3, <4>3
        <5>2. q.tree = [m.tree EXCEPT ![k] = NoNode] /\ m.tree \in [Keys -> Names \cup {NoNode}]
          BY <5>1 DEF Erases, Along
        <5>3. q.tree[k] = NoNode
          BY <5>2
        <5>4. Commits(t, k) = NoNode
          BY <3>1, <4>3 DEF Commits
        <5> QED
          BY <5>3, <5>4 DEF Settled
      <4> QED
        BY <1>4, <4>1, <4>2, <4>3 DEF Marks
    <3> QED
      BY <3>3, <3>4, <3>5 DEF CommitView
  <2>4. CASE ~Does(t, k, i)
    <3>1. ~DoneBy(t, k, i)
      <4> SUFFICES ASSUME DoneBy(t, k, i) PROVE FALSE
        OBVIOUS
      <4>1. PICK j \in On(t, k) : j <= i /\ Does(t, k, j)
        BY DEF DoneBy
      <4>2. j # i
        BY <2>4, <4>1
      <4>3. j <= i - 1
        BY <1>4, <4>1, <4>2
      <4> QED
        BY <1>11, <4>1, <4>3 DEF DoneBy
    <3>2. m.heap[n].op # o.kind
      <4>1. CASE o.entry = tree[k]
        <5>1. o.kind # Row(k).op
          BY <1>1, <2>4, <4>1 DEF Does
        <5> QED
          BY <1>2, <1>6, <2>2, <4>1, <5>1
      <4>2. CASE o.entry # tree[k]
        <5>1. Row(k).op = "update"
          BY <1>5, <4>2 DEF Fits
        <5>2. PICK j \in On(t, k) : ops[t][j].entry = tree[k] /\ ops[t][j].kind = "update"
          BY <1>3, <1>6, <5>1 DEF KeyOK
        <5>3. Does(t, k, j)
          BY <5>1, <5>2 DEF Does
        <5>4. j # i
          BY <2>4, <5>3
        <5>5. ~(i < j)
          BY <1>3, <5>2 DEF ListOK
        <5>6. j <= i
          BY <1>4, <5>4, <5>5
        <5> QED
          BY <3>1, <5>3, <5>6 DEF DoneBy
      <4> QED
        BY <4>1, <4>2
    <3>3. q = m /\ ~q.bad
      BY <1>8, <2>2, <3>2
    <3> QED
      BY <2>1, <3>1, <3>3 DEF CommitView
  <2> QED
    BY <2>3, <2>4
<1> QED
  BY <1>10, <1>11

\* So the commit of the whole list settles every row that is not wild.
LEMMA CommitGoesOn ==
    ASSUME Sound, NEW t \in Txns, NEW i \in DOMAIN ops[t], NEW m, CommitSoFar(t, m, i - 1),
           NEW q, q = CommitOp(m, ops[t][i])
    PROVE  CommitSoFar(t, q, i)
<1>1. PICK o : o = ops[t][i]
  OBVIOUS
<1>2. PICK n : n = o.entry
  OBVIOUS
<1>3. Typed /\ HeapOK /\ TreeOK /\ ChangesOK /\ OpsOK(t) /\ Shape(m)
  BY DEF Sound, CommitSoFar
<1>4. o.kind \in Marks /\ DOMAIN ops[t] \subseteq Nat
  <2>1. o \in Operations
    BY <1>1, <1>3 DEF Typed
  <2> QED
    BY <1>3, <2>1 DEF Operations, Typed
<1>5. Shape(q) /\ (m.bad => q.bad)
  <2>1. PICK k : k = KeyOf(m, n)
    OBVIOUS
  <2> QED
    BY <1>1, <1>2, <1>3, <1>4, <2>1, CommitOpIs DEF CommitOpDoes
<1>6. CASE m.bad
  BY <1>5, <1>6 DEF CommitSoFar
<1>7. CASE ~m.bad
  <2>0. Along(t, m) /\ \A k \in Keys : ~Wild(k) => CommitView(t, m, k, i - 1)
    BY <1>7 DEF CommitSoFar
  <2>1. q.bad => \E k \in Keys : Wild(k)
    <3> SUFFICES ASSUME \A k \in Keys : ~Wild(k) PROVE ~q.bad
      OBVIOUS
    <3>1. n \in DOMAIN heap
      BY <1>1, <1>2, <1>3 DEF OpsOK
    <3>2. PICK k \in Keys : heap[n].key = k
      BY <1>3, <3>1 DEF HeapOK, Nodes
    <3>3. i \in On(t, k)
      BY <1>1, <1>2, <3>1, <3>2 DEF On
    <3> QED
      BY <1>3, <1>7, <2>0, <3>3, CommitOpOfKey
  <2>2. ASSUME ~q.bad
        PROVE  Along(t, q) /\ \A k \in Keys : ~Wild(k) => CommitView(t, q, k, i)
    <3>1. n \in DOMAIN heap /\ Along(t, q) /\ Only(m, q, heap[n].key)
      BY <1>1, <1>2, <1>3, <2>0, <2>2, CommitOpAlong
    <3>2. ASSUME NEW k \in Keys, ~Wild(k)
          PROVE  CommitView(t, q, k, i)
      <4>1. CASE i \in On(t, k)
        BY <1>3, <1>7, <2>0, <3>2, <4>1, CommitOpOfKey
      <4>2. CASE i \notin On(t, k)
        <5>1. heap[n].key # k
          BY <1>1, <1>2, <3>1, <4>2 DEF On
        <5>2. DoneBy(t, k, i) <=> DoneBy(t, k, i - 1)
          <6>1. \A j \in On(t, k) : j \in Nat /\ j # i
            BY <1>4, <4>2 DEF On
          <6>2. i \in Nat
            BY <1>4
          <6>3. \A j \in On(t, k) : j <= i <=> j <= i - 1
            BY <6>1, <6>2
          <6> QED
            BY <6>3 DEF DoneBy
        <5>3. Alone(t, m, k) => Alone(t, q, k)
          BY <1>3, <2>0, <3>1, <5>1, OnlyLeavesTheRest
        <5>4. \A x : Settled(m, k, x) => Settled(q, k, x)
          BY <1>3, <2>0, <3>1, <5>1, OnlyLeavesTheRest
        <5> QED
          BY <2>0, <3>2, <5>2, <5>3, <5>4 DEF CommitView
      <4> QED
        BY <4>1, <4>2
    <3> QED
      BY <3>1, <3>2
  <2> QED
    BY <1>5, <2>1, <2>2 DEF CommitSoFar
<1> QED
  BY <1>6, <1>7

-----------------------------------------------------------------------------
\* Rollback

LEMMA RollbackOpAlong ==
    ASSUME Typed, HeapOK, TreeOK, ChangesOK, NEW t \in Txns, OpsOK(t), NEW i \in DOMAIN ops[t],
           NEW m, Shape(m), Along(t, m), NEW q, q = RollbackOp(m, ops[t][i]), ~q.bad
    PROVE  /\ ops[t][i].entry \in DOMAIN heap /\ Along(t, q)
           /\ Only(m, q, heap[ops[t][i].entry].key)
<1>1. PICK o : o = ops[t][i]
  OBVIOUS
<1>2. PICK n : n = o.entry
  OBVIOUS
<1>3. PICK k : k = KeyOf(m, n)
  OBVIOUS
<1>4. /\ o.op \in Marks \cup {"none"} /\ o.id \in {t, NoTxn} /\ (o.op = "none" <=> o.id = NoTxn)
  <2>1. o \in Operations
    BY <1>1 DEF Typed
  <2> QED
    BY <1>1, <2>1 DEF Operations, OpsOK, IsMarkedRight
<1>5. /\ n \in DOMAIN m.heap
      /\ o.kind = "insert" => m.tree[k] = n /\ Erases(m, q, n, k)
      /\ o.kind # "insert" => MarksBack(m, q, n, o.op, o.id)
  <2>1. RollbackOpDoes(m, q, o, n, k)
    BY <1>1, <1>2, <1>3, RollbackOpIs
  <2> QED
    BY <2>1 DEF RollbackOpDoes
<1>6. n \in DOMAIN heap /\ m.heap[n].key = heap[n].key /\ k = m.heap[n].key
  BY <1>3, <1>5 DEF Along, KeyOf
<1>7. CASE o.kind = "insert"
  <2>1. Along(t, q) /\ Only(m, q, k)
    BY <1>5, <1>6, <1>7, ErasesAlong
  <2> QED
    BY <1>1, <1>2, <1>6, <2>1
<1>8. CASE o.kind # "insert"
  <2>1. Along(t, q) /\ Only(m, q, m.heap[n].key)
    BY <1>4, <1>5, <1>8, MarksBackAlong
  <2> QED
    BY <1>1, <1>2, <1>6, <2>1
<1> QED
  BY <1>7, <1>8

\* The node that the rollback of t leaves to a row, and the operation whose undoing does it.
RollsBack(k) == IF Row(k).op \in {"insert", "deleted_insert"} THEN NoNode ELSE tree[k]
FirstKind(k) == IF Row(k).op = "deleted_insert" THEN "insert" ELSE Row(k).op
Undoes(t, k, i) == i \in On(t, k) /\ ops[t][i].entry = tree[k] /\ ops[t][i].kind = FirstKind(k)
UndoneFrom(t, k, i) == \E j \in On(t, k) : i <= j /\ Undoes(t, k, j)
RollbackView(t, m, k, i) ==
    /\ On(t, k) = {} => Alone(t, m, k)
    /\ IF UndoneFrom(t, k, i) THEN Settled(m, k, RollsBack(k))
       ELSE m.tree[k] = tree[k] /\ m.changes[k] = changes[t][k]
RollbackSoFar(t, m, i) ==
    /\ Shape(m)
    /\ m.bad => \E k \in Keys : Wild(k)
    /\ ~m.bad => Along(t, m) /\ \A k \in Keys : ~Wild(k) => RollbackView(t, m, k, i)

LEMMA RollbackOpOfKey ==
    ASSUME Sound, NEW t \in Txns, NEW m, Shape(m), ~m.bad, Along(t, m), NEW i \in DOMAIN ops[t],
           NEW q, q = RollbackOp(m, ops[t][i]),
           NEW k \in Keys, ~Wild(k), i \in On(t, k), RollbackView(t, m, k, i + 1)
    PROVE  ~q.bad /\ RollbackView(t, q, k, i)
<1>1. PICK o : o = ops[t][i]
  OBVIOUS
<1>2. PICK n : n = o.entry
  OBVIOUS
<1>3. /\ Typed /\ HeapOK /\ TreeOK /\ ChangesOK /\ UpdatesOK /\ OpsOK(t)
      /\ KeyOK(k) /\ ListOK(t, k)
  BY DEF Sound
<1>4. /\ n \in DOMAIN heap /\ heap[n].key = k /\ n # NoNode /\ n = ops[t][i].entry
      /\ o.kind \in Marks
      /\ \A j \in On(t, k) : j \in Nat /\ i \in Nat
  <2>1. o \in Operations
    BY <1>1, <1>3 DEF Typed
  <2>2. n \in DOMAIN heap /\ heap[n].key = k
    BY <1>1, <1>2 DEF On
  <2>3. DOMAIN ops[t] \subseteq Nat
    BY <1>3 DEF Typed
  <2>4. n \in Names /\ n # NoNode
    BY <1>3, <2>2, NobodyIsNamed DEF HeapOK
  <2>5. o.kind \in Marks
    BY <2>1 DEF Operations
  <2> QED
    BY <1>1, <1>2, <2>2, <2>3, <2>4, <2>5 DEF On
<1>5. Fits(t, o, k)
  BY <1>1, <1>3 DEF ListOK
<1>6. Holds(t, k) /\ tree[k] \in DOMAIN heap /\ tree[k] # NoNode /\ Row(k) = heap[tree[k]]
      /\ Row(k).key = k /\ (changes[t][k] # NoNode => changes[t][k] # tree[k])
  BY <1>3, <1>5 DEF Fits, Holds, TreeOK, ChangesOK, Linked, Row
\* No operation on the row comes before the one whose undoing settles it.
<1>7. ~UndoneFrom(t, k, i + 1)
  <2> SUFFICES ASSUME UndoneFrom(t, k, i + 1) PROVE FALSE
    OBVIOUS
  <2>1. PICK j \in On(t, k) : i + 1 <= j /\ Undoes(t, k, j)
    BY DEF UndoneFrom
  <2>2. i < j
    BY <1>4, <2>1
  <2>3. ops[t][j].kind = "deleted_insert" /\ ops[t][j].kind = FirstKind(k)
    BY <1>3, <2>1, <2>2 DEF ListOK, Undoes
  <2> QED
    BY <2>3 DEF FirstKind
<1>8. m.tree[k] = tree[k] /\ m.changes[k] = changes[t][k]
  BY <1>7 DEF RollbackView
<1>9. n \in DOMAIN m.heap /\ (n = tree[k] \/ n = changes[t][k])
  BY <1>2, <1>4, <1>5, <1>8 DEF Fits, Along
<1>10. KeyOf(m, n) = k /\ m.heap[n].key = k
  BY <1>4, <1>9 DEF KeyOf, Along
<1>11. RollbackOpDoes(m, q, o, n, k)
  <2>1. q = RollbackOp(m, o) /\ k = KeyOf(m, n)
    BY <1>1, <1>10
  <2> QED
    BY <1>2, <2>1, RollbackOpIs
<1>12. o.kind = "insert" => n = tree[k] /\ Row(k).op \in {"insert", "deleted_insert"}
  BY <1>2, <1>5 DEF Fits
<1>13. ~q.bad
  BY <1>8, <1>9, <1>11, <1>12 DEF RollbackOpDoes
<1>14. UndoneFrom(t, k, i) <=> Undoes(t, k, i)
  <2>1. ASSUME UndoneFrom(t, k, i) PROVE Undoes(t, k, i)
    <3>1. PICK j \in On(t, k) : i <= j /\ Undoes(t, k, j)
      BY <2>1 DEF UndoneFrom
    <3>2. ~(i + 1 <= j)
      BY <1>7, <3>1 DEF UndoneFrom
    <3>3. i = j
      BY <1>4, <3>1, <3>2
    <3> QED
      BY <3>1, <3>3
  <2>2. i <= i
    BY <1>4
  <2> QED
    BY <2>1, <2>2 DEF UndoneFrom
<1>15. CASE o.kind = "insert"
  <2>1. Erases(m, q, n, k)
    BY <1>11, <1>13, <1>15 DEF RollbackOpDoes
  <2>2. q.tree = [m.tree EXCEPT ![k] = NoNode] /\ m.tree \in [Keys -> Names \cup {NoNode}]
    BY <2>1 DEF Erases, Along
  <2>3. q.tree[k] = NoNode
    BY <2>2
  <2>4. Undoes(t, k, i)
    BY <1>1, <1>2, <1>12, <1>15 DEF Undoes, FirstKind
  <2>5. RollsBack(k) = NoNode
    BY <1>12, <1>15 DEF RollsBack
  <2> QED
    BY <1>13, <1>14, <2>3, <2>4, <2>5 DEF RollbackView, Settled
<1>16. CASE o.kind # "insert"
  <2>1. MarksBack(m, q, n, o.op, o.id)
    BY <1>11, <1>13, <1>16 DEF RollbackOpDoes
  <2>2. q.tree = m.tree /\ q.changes = m.changes /\ q.heap = MarkBack(m.heap, n, o.op, o.id)
    BY <2>1 DEF MarksBack
  <2>3. ASSUME Undoes(t, k, i)
        PROVE  Settled(q, k, RollsBack(k))
    <3>1. n = tree[k] /\ o.kind = FirstKind(k)
      BY <1>1, <1>2, <2>3 DEF Undoes
    <3>2. Row(k).op = o.kind /\ o.kind # "deleted_insert"
      BY <1>16, <3>1 DEF FirstKind
    <3>3. o.op = "none"
      BY <1>2, <1>4, <1>5, <1>6, <1>16, <3>1, <3>2 DEF Fits
    <3>4. m.heap[n] \in Nodes
      BY <1>9 DEF Along, GoodNode
    <3>5. q.heap[n].op = "none"
      <4>1. MarkBack(m.heap, n, o.op, o.id)[n] =
               [key |-> m.heap[n].key, val |-> m.heap[n].val, op |-> o.op, id |-> o.id]
        BY <1>9, <3>4, MarkBackIs
      <4> QED
        BY <2>2, <3>3, <4>1
    <3>6. RollsBack(k) = tree[k]
      BY <1>16, <3>2 DEF RollsBack
    <3> QED
      BY <1>8, <2>2, <3>1, <3>5, <3>6 DEF Settled
  <2> QED
    BY <1>8, <1>13, <1>14, <2>2, <2>3 DEF RollbackView
<1> QED
  BY <1>15, <1>16

LEMMA RollbackGoesOn ==
    ASSUME Sound, NEW t \in Txns, NEW i \in DOMAIN ops[t], NEW m, RollbackSoFar(t, m, i + 1),
           NEW q, q = RollbackOp(m, ops[t][i])
    PROVE  RollbackSoFar(t, q, i)
<1>1. PICK o : o = ops[t][i]
  OBVIOUS
<1>2. PICK n : n = o.entry
  OBVIOUS
<1>3. Typed /\ HeapOK /\ TreeOK /\ ChangesOK /\ OpsOK(t) /\ Shape(m)
  BY DEF Sound, RollbackSoFar
<1>4. DOMAIN ops[t] \subseteq Nat
  BY <1>3 DEF Typed
<1>5. Shape(q) /\ (m.bad => q.bad)
  <2>1. PICK k : k = KeyOf(m, n)
    OBVIOUS
  <2> QED
    BY <1>1, <1>2, <1>3, <2>1, RollbackOpIs DEF RollbackOpDoes
<1>6. CASE m.bad
  BY <1>5, <1>6 DEF RollbackSoFar
<1>7. CASE ~m.bad
  <2>0. Along(t, m) /\ \A k \in Keys : ~Wild(k) => RollbackView(t, m, k, i + 1)
    BY <1>7 DEF RollbackSoFar
  <2>1. q.bad => \E k \in Keys : Wild(k)
    <3> SUFFICES ASSUME \A k \in Keys : ~Wild(k) PROVE ~q.bad
      OBVIOUS
    <3>1. n \in DOMAIN heap
      BY <1>1, <1>2, <1>3 DEF OpsOK
    <3>2. PICK k \in Keys : heap[n].key = k
      BY <1>3, <3>1 DEF HeapOK, Nodes
    <3>3. i \in On(t, k)
      BY <1>1, <1>2, <3>1, <3>2 DEF On
    <3> QED
      BY <1>3, <1>7, <2>0, <3>3, RollbackOpOfKey
  <2>2. ASSUME ~q.bad
        PROVE  Along(t, q) /\ \A k \in Keys : ~Wild(k) => RollbackView(t, q, k, i)
    <3>1. n \in DOMAIN heap /\ Along(t, q) /\ Only(m, q, heap[n].key)
      BY <1>1, <1>2, <1>3, <2>0, <2>2, RollbackOpAlong
    <3>2. ASSUME NEW k \in Keys, ~Wild(k)
          PROVE  RollbackView(t, q, k, i)
      <4>1. CASE i \in On(t, k)
        BY <1>3, <1>7, <2>0, <3>2, <4>1, RollbackOpOfKey
      <4>2. CASE i \notin On(t, k)
        <5>1. heap[n].key # k
          BY <1>1, <1>2, <3>1, <4>2 DEF On
        <5>2. UndoneFrom(t, k, i) <=> UndoneFrom(t, k, i + 1)
          <6>1. \A j \in On(t, k) : j \in Nat /\ j # i
            BY <1>4, <4>2 DEF On
          <6>2. i \in Nat
            BY <1>4
          <6>3. \A j \in On(t, k) : i <= j <=> i + 1 <= j
            BY <6>1, <6>2
          <6> QED
            BY <6>3 DEF UndoneFrom
        <5>3. /\ q.tree[k] = m.tree[k] /\ q.changes[k] = m.changes[k]
              /\ Alone(t, m, k) => Alone(t, q, k)
          BY <1>3, <2>0, <3>1, <5>1, OnlyLeavesTheRest
        <5>4. \A x : Settled(m, k, x) => Settled(q, k, x)
          BY <1>3, <2>0, <3>1, <5>1, OnlyLeavesTheRest
        <5> QED
          BY <2>0, <3>2, <5>2, <5>3, <5>4 DEF RollbackView
      <4> QED
        BY <4>1, <4>2
    <3> QED
      BY <3>1, <3>2
  <2> QED
    BY <1>5, <2>1, <2>2 DEF RollbackSoFar
<1> QED
  BY <1>6, <1>7

-----------------------------------------------------------------------------
\* From the first operation to the last

LEMMA CommitInSteps ==
    ASSUME NEW t, Len(ops[t]) \in Nat
    PROVE  \E h : /\ h[0] = TheTree(t)
                  /\ \A i \in 1 .. Len(ops[t]) : h[i] = CommitOp(h[i - 1], ops[t][i])
                  /\ CommittedTree(t) = h[Len(ops[t])]
<1> DEFINE n == Len(ops[t])
           w == Work("commit", ops[t], NoNode)
           G(f) == f = [i \in 0 .. n |-> IF i = 0 THEN TheTree(t) ELSE CommitOp(f[i - 1], ops[t][i])]
<1>1. \A x, i : Step(w, x, i) = CommitOp(x, ops[t][i])
  BY DEF Step, Work
<1>2. \A f : Goes(w, n, TheTree(t), f) <=> G(f)
  <2> HIDE DEF w
  <2> QED
    BY <1>1 DEF Goes
<1>3. (CHOOSE f : Goes(w, n, TheTree(t), f)) = (CHOOSE f : G(f))
  <2> HIDE DEF G, w, n
  <2> QED
    BY <1>2
<1>4. CommittedTree(t) = (CHOOSE f : G(f))[n]
  BY DEF CommittedTree
<1>5. Runs(w, n, TheTree(t), CHOOSE f : Goes(w, n, TheTree(t), f))
  <2> HIDE DEF w
  <2> QED
    BY ItRuns
<1>6. PICK h : h = (CHOOSE f : G(f))
  OBVIOUS
<1>7. Runs(w, n, TheTree(t), h)
  <2> HIDE DEF G, w, n
  <2> QED
    BY <1>3, <1>5, <1>6
<1>8. h[0] = TheTree(t) /\ \A i \in 1 .. n : h[i] = CommitOp(h[i - 1], ops[t][i])
  <2> HIDE DEF w
  <2> QED
    BY <1>1, <1>7 DEF Runs
<1> HIDE DEF G
<1> QED
  BY <1>4, <1>6, <1>8

LEMMA RollbackInSteps ==
    ASSUME NEW t, Len(ops[t]) \in Nat
    PROVE  \E h : /\ h[0] = TheTree(t)
                  /\ \A i \in 1 .. Len(ops[t]) :
                        h[i] = RollbackOp(h[i - 1], ops[t][Len(ops[t]) + 1 - i])
                  /\ RolledBackTree(t) = h[Len(ops[t])]
<1> DEFINE n == Len(ops[t])
           w == Work("rollback", ops[t], NoNode)
           G(f) == f = [i \in 0 .. n |-> IF i = 0 THEN TheTree(t)
                                         ELSE RollbackOp(f[i - 1], ops[t][n + 1 - i])]
<1>1. \A x, i : Step(w, x, i) = RollbackOp(x, ops[t][n + 1 - i])
  BY DEF Step, Work
<1>2. \A f : Goes(w, n, TheTree(t), f) <=> G(f)
  <2> HIDE DEF w
  <2> QED
    BY <1>1 DEF Goes
<1>3. (CHOOSE f : Goes(w, n, TheTree(t), f)) = (CHOOSE f : G(f))
  <2> HIDE DEF G, w, n
  <2> QED
    BY <1>2
<1>4. RolledBackTree(t) = (CHOOSE f : G(f))[n]
  BY DEF RolledBackTree
<1>5. Runs(w, n, TheTree(t), CHOOSE f : Goes(w, n, TheTree(t), f))
  <2> HIDE DEF w
  <2> QED
    BY ItRuns
<1>6. PICK h : h = (CHOOSE f : G(f))
  OBVIOUS
<1>7. Runs(w, n, TheTree(t), h)
  <2> HIDE DEF G, w, n
  <2> QED
    BY <1>3, <1>5, <1>6
<1>8. h[0] = TheTree(t) /\ \A i \in 1 .. n : h[i] = RollbackOp(h[i - 1], ops[t][n + 1 - i])
  <2> HIDE DEF w
  <2> QED
    BY <1>1, <1>7 DEF Runs
<1> HIDE DEF G
<1> QED
  BY <1>4, <1>6, <1>8

LEMMA AlongAtFirst ==
    ASSUME Sound, NEW t \in Txns
    PROVE  /\ Shape(TheTree(t)) /\ ~TheTree(t).bad /\ Along(t, TheTree(t))
           /\ \A k \in Keys : Alone(t, TheTree(t), k)
<1>1. Typed /\ HeapOK /\ TreeOK /\ ChangesOK
  BY DEF Sound
<1>2. PICK m : m = TheTree(t)
  OBVIOUS
<1>3. /\ m.heap = heap /\ m.tree = tree /\ m.changes = changes[t] /\ m.bad = FALSE
      /\ DOMAIN m = {"heap", "tree", "changes", "bad"}
  BY <1>2 DEF TheTree
<1>4. \A k \in Keys :
         /\ m.tree[k] # NoNode => m.tree[k] \in DOMAIN m.heap
         /\ m.changes[k] # NoNode => m.changes[k] \in DOMAIN m.heap /\ m.tree[k] # changes[t][k]
  BY <1>1, <1>3 DEF TreeOK, ChangesOK, Linked
<1>5. m.tree \in [Keys -> Names \cup {NoNode}] /\ m.changes \in [Keys -> Names \cup {NoNode}]
  BY <1>1, <1>3 DEF Typed
<1>6. \A n \in DOMAIN m.heap : GoodNode(m.heap[n])
  BY <1>1, <1>3 DEF HeapOK, GoodNode
<1>7. Along(t, m)
  BY <1>3, <1>4, <1>5, <1>6 DEF Along
<1>8. \A k \in Keys : Alone(t, m, k)
  BY <1>3 DEF Alone
<1> QED
  BY <1>2, <1>3, <1>7, <1>8 DEF Shape

LEMMA CommittedTreeIs ==
    ASSUME Sound, NEW t \in Txns
    PROVE  CommitSoFar(t, CommittedTree(t), Len(ops[t]))
<1> DEFINE n == Len(ops[t])
<1>1. n \in Nat /\ DOMAIN ops[t] = 1 .. n
  BY DEF Sound, Typed
<1>2. PICK h : /\ h[0] = TheTree(t)
               /\ \A i \in 1 .. n : h[i] = CommitOp(h[i - 1], ops[t][i])
               /\ CommittedTree(t) = h[n]
  BY <1>1, CommitInSteps
<1> HIDE DEF n
<1> DEFINE S == {i \in 0 .. n : CommitSoFar(t, h[i], i)}
<1>3. 0 \in S
  <2>1. Shape(h[0]) /\ ~h[0].bad /\ Along(t, h[0]) /\ \A k \in Keys : Alone(t, h[0], k)
    BY <1>2, AlongAtFirst
  <2>2. \A k \in Keys : ~DoneBy(t, k, 0)
    <3>1. \A k \in Keys : \A j \in On(t, k) : ~(j <= 0)
      BY <1>1 DEF On
    <3> QED
      BY <3>1 DEF DoneBy
  <2>3. CommitSoFar(t, h[0], 0)
    BY <2>1, <2>2 DEF CommitSoFar, CommitView
  <2> QED
    BY <1>1, <2>3
<1>4. ASSUME NEW i \in 0 .. n, i \in S, i < n
      PROVE  i + 1 \in S
  <2>1. i + 1 \in 1 .. n /\ (i + 1) - 1 = i /\ i + 1 \in 0 .. n
    BY <1>1, <1>4
  <2>2. h[i + 1] = CommitOp(h[i], ops[t][i + 1])
    BY <1>2, <2>1
  <2>3. CommitSoFar(t, h[i], (i + 1) - 1)
    BY <1>4, <2>1
  <2>4. CommitSoFar(t, h[i + 1], i + 1)
    BY <1>1, <2>1, <2>2, <2>3, CommitGoesOn
  <2> QED
    BY <2>1, <2>4
<1>5. S = 0 .. n
  <2> HIDE DEF S
  <2>1. S \subseteq 0 .. n
    BY DEF S
  <2> QED
    BY <1>1, <1>3, <1>4, <2>1, UpTo
<1>6. n \in S
  <2> HIDE DEF S
  <2> QED
    BY <1>1, <1>5
<1> QED
  BY <1>2, <1>6 DEF n

LEMMA RolledBackTreeIs ==
    ASSUME Sound, NEW t \in Txns
    PROVE  RollbackSoFar(t, RolledBackTree(t), 1)
<1> DEFINE n == Len(ops[t])
<1>1. n \in Nat /\ DOMAIN ops[t] = 1 .. n
  BY DEF Sound, Typed
<1>2. PICK h : /\ h[0] = TheTree(t)
               /\ \A i \in 1 .. n : h[i] = RollbackOp(h[i - 1], ops[t][n + 1 - i])
               /\ RolledBackTree(t) = h[n]
  BY <1>1, RollbackInSteps
<1> HIDE DEF n
<1> DEFINE S == {i \in 0 .. n : RollbackSoFar(t, h[i], n + 1 - i)}
<1>3. 0 \in S
  <2>1. Shape(h[0]) /\ ~h[0].bad /\ Along(t, h[0]) /\ \A k \in Keys : Alone(t, h[0], k)
    BY <1>2, AlongAtFirst
  <2>2. \A k \in Keys : ~UndoneFrom(t, k, n + 1)
    <3>1. \A k \in Keys : \A j \in On(t, k) : ~(n + 1 <= j)
      BY <1>1 DEF On
    <3> QED
      BY <3>1 DEF UndoneFrom
  <2>3. RollbackSoFar(t, h[0], n + 1)
    BY <2>1, <2>2 DEF RollbackSoFar, RollbackView, Alone
  <2>4. n + 1 - 0 = n + 1 /\ 0 \in 0 .. n
    BY <1>1
  <2> QED
    BY <2>3, <2>4
<1>4. ASSUME NEW i \in 0 .. n, i \in S, i < n
      PROVE  i + 1 \in S
  <2>1. /\ i + 1 \in 1 .. n /\ (i + 1) - 1 = i /\ i + 1 \in 0 .. n
        /\ n - i \in 1 .. n /\ n + 1 - (i + 1) = n - i /\ n + 1 - i = (n - i) + 1
    BY <1>1, <1>4
  <2>2. h[i + 1] = RollbackOp(h[i], ops[t][n - i])
    BY <1>2, <2>1
  <2>3. RollbackSoFar(t, h[i], (n - i) + 1)
    BY <1>4, <2>1
  <2>4. RollbackSoFar(t, h[i + 1], n - i)
    BY <1>1, <2>1, <2>2, <2>3, RollbackGoesOn
  <2>5. RollbackSoFar(t, h[i + 1], n + 1 - (i + 1))
    BY <2>1, <2>4
  <2> QED
    BY <2>1, <2>5
<1>5. S = 0 .. n
  <2> HIDE DEF S
  <2>1. S \subseteq 0 .. n
    BY DEF S
  <2> QED
    BY <1>1, <1>3, <1>4, <2>1, UpTo
<1>6. n \in S
  <2> HIDE DEF S
  <2> QED
    BY <1>1, <1>5
<1>7. n + 1 - n = 1
  BY <1>1
<1> QED
  BY <1>2, <1>6, <1>7

-----------------------------------------------------------------------------
\* The end of a transaction

\* What the end is given: rows that the transaction has not changed are alone, and those that it
\* has changed are settled with what is committed of them.
Finished(t, m) ==
    /\ Shape(m) /\ ~m.bad /\ Along(t, m)
    /\ DOMAIN committed' = Keys
    /\ \A k \in Keys : k \notin ChangedKeys(t) => committed'[k] = committed[k]
    /\ \A k \in Keys : ~Wild(k) =>
          /\ On(t, k) = {} => Alone(t, m, k)
          /\ k \in ChangedKeys(t) => Settled(m, k, m.tree[k])
    /\ \A k \in Keys : ~Departed(k) /\ k \in ChangedKeys(t) =>
          /\ committed'[k] = IF m.tree[k] = NoNode THEN NoValue ELSE m.heap[m.tree[k]].val
          /\ BroughtBack(k, committed'[k])
EndsWith(t, m) == End(t, m) /\ pc[t] # "done"

\* What is left when the pending nodes are freed.
LEMMA EndLeaves ==
    ASSUME Sound, NEW t \in Txns, NEW m, EndsWith(t, m), Finished(t, m)
    PROVE  /\ DOMAIN heap' \subseteq DOMAIN m.heap /\ \A n \in DOMAIN heap' : heap'[n] = m.heap[n]
           /\ \A n \in DOMAIN m.heap :
                 n \notin DOMAIN heap' => n = m.changes[heap[n].key] /\ n = changes[t][heap[n].key]
           /\ \A k \in Keys : m.tree[k] # NoNode => m.tree[k] \in DOMAIN heap' /\ heap'[m.tree[k]].key = k
           /\ tree' = m.tree
<1>1. HeapOK /\ TreeOK /\ ChangesOK /\ Along(t, m) /\ DOMAIN m.changes = Keys
  BY DEF Sound, Finished, Along
<1>2. heap' = [n \in DOMAIN m.heap \ Range(m.changes) |-> m.heap[n]] /\ tree' = m.tree
  BY DEF EndsWith, End
<1>3. \A n : n \in Range(m.changes) <=> \E k \in Keys : n = m.changes[k]
  BY <1>1 DEF Range
<1>4. \A k \in Keys :
         /\ m.tree[k] # NoNode => m.heap[m.tree[k]].key = k /\ m.tree[k] \in DOMAIN m.heap
         /\ m.changes[k] # NoNode =>
               m.heap[m.changes[k]].key = k /\ m.changes[k] # m.tree[k] /\ m.changes[k] = changes[t][k]
  BY <1>1, AlongKeys DEF Along
<1>5. \A n \in DOMAIN m.heap : n # NoNode /\ m.heap[n].key = heap[n].key
  BY <1>1, NobodyIsNamed DEF Along, HeapOK
<1>6. DOMAIN heap' \subseteq DOMAIN m.heap /\ \A n \in DOMAIN heap' : heap'[n] = m.heap[n]
  BY <1>2
<1>7. ASSUME NEW n \in DOMAIN m.heap, n \notin DOMAIN heap'
      PROVE  n = m.changes[heap[n].key] /\ n = changes[t][heap[n].key]
  <2>1. PICK k \in Keys : n = m.changes[k]
    BY <1>2, <1>3, <1>7
  <2> QED
    BY <1>4, <1>5, <2>1
<1>8. ASSUME NEW k \in Keys, m.tree[k] # NoNode
      PROVE  m.tree[k] \in DOMAIN heap' /\ heap'[m.tree[k]].key = k
  <2>1. m.tree[k] \in DOMAIN m.heap /\ m.heap[m.tree[k]].key = k
    BY <1>4, <1>8
  <2>2. m.tree[k] \notin Range(m.changes)
    <3> SUFFICES ASSUME m.tree[k] \in Range(m.changes) PROVE FALSE
      OBVIOUS
    <3>1. PICK j \in Keys : m.tree[k] = m.changes[j]
      BY <1>3
    <3> QED
      BY <1>4, <1>8, <3>1
  <2> QED
    BY <1>2, <2>1, <2>2
<1> QED
  BY <1>2, <1>6, <1>7, <1>8

\* A row that is not wild and that t has not changed is left alone.
LEMMA EndUntouched ==
    ASSUME Sound, NEW t \in Txns, NEW m, EndsWith(t, m), Finished(t, m),
           NEW k \in Keys, ~Wild(k), k \notin ChangedKeys(t)
    PROVE  Untouched(k)
<1>1. /\ Typed /\ HeapOK /\ TreeOK /\ ChangesOK /\ KeyOK(k) /\ ListOK(t, k)
      /\ \A s \in Txns : OpsOK(s)
  BY DEF Sound
<1>2. ~Holds(t, k) /\ On(t, k) = {} /\ changes[t][k] = NoNode
  BY <1>1 DEF KeyOK, ListOK, Fits
<1>3. Alone(t, m, k) /\ Along(t, m)
  BY <1>2 DEF Finished
<1>4. /\ DOMAIN heap' \subseteq DOMAIN m.heap /\ \A n \in DOMAIN heap' : heap'[n] = m.heap[n]
      /\ \A n \in DOMAIN m.heap :
            n \notin DOMAIN heap' => n = m.changes[heap[n].key] /\ n = changes[t][heap[n].key]
      /\ tree' = m.tree
  BY EndLeaves
<1>5. /\ ops' = [ops EXCEPT ![t] = <<>>] /\ changes' = [changes EXCEPT ![t] = NoChanges]
      /\ intent' = [intent EXCEPT ![t] = <<>>] /\ pc' = [pc EXCEPT ![t] = "done"]
  BY DEF EndsWith, End, Cleared
<1>6. \A n \in DOMAIN heap : heap[n].key = k => n \in DOMAIN heap' /\ heap'[n] = heap[n]
  <2> TAKE n \in DOMAIN heap
  <2> HAVE heap[n].key = k
  <2>1. n \in DOMAIN m.heap /\ m.heap[n] = heap[n]
    BY <1>3 DEF Alone
  <2>2. n # NoNode
    BY <1>1, NobodyIsNamed DEF HeapOK
  <2> QED
    BY <1>2, <1>4, <2>1, <2>2
<1>7. tree'[k] = tree[k] /\ committed'[k] = committed[k]
  BY <1>3, <1>4 DEF Alone, Finished
<1>8. \A n \in DOMAIN heap' : n \in DOMAIN heap /\ heap'[n].key = heap[n].key
  BY <1>3, <1>4 DEF Along
<1>9. ASSUME NEW s \in Txns
      PROVE  /\ changes'[s][k] = changes[s][k]
             /\ On(s, k)' = On(s, k) /\ \A i \in On(s, k) : ops'[s][i] = ops[s][i]
             /\ k \in ChangedKeys(s)' <=> k \in ChangedKeys(s)
             /\ k \in ChangedKeys(s) => intent'[s][k] = intent[s][k] /\ pc'[s] = pc[s]
  <2>1. CASE s = t
    <3>1. ops'[t] = <<>> /\ changes'[t] = NoChanges /\ intent'[t] = <<>>
      BY <1>1, <1>5 DEF Typed
    <3>2. On(t, k)' = {} /\ k \notin ChangedKeys(t)' /\ changes'[t][k] = NoNode
      BY <3>1 DEF On, ChangedKeys, NoChanges
    <3> QED
      BY <1>2, <2>1, <3>2
  <2>2. CASE s # t
    <3>1. ops'[s] = ops[s] /\ changes'[s] = changes[s] /\ intent'[s] = intent[s] /\ pc'[s] = pc[s]
      BY <1>1, <1>5, <2>2 DEF Typed
    <3>2. On(s, k)' = On(s, k)
      BY <1>6, <1>8, <3>1 DEF On
    <3> QED
      BY <3>1, <3>2 DEF ChangedKeys
  <2> QED
    BY <2>1, <2>2
<1> QED
  BY <1>6, <1>7, <1>9 DEF Untouched

\* A row that t has changed is nobody's afterwards.
LEMMA EndFrees ==
    ASSUME Sound, NEW t \in Txns, NEW m, EndsWith(t, m), Finished(t, m),
           NEW k \in Keys, ~Wild(k), k \in ChangedKeys(t)
    PROVE  /\ KeyOK(k)' /\ \A s \in Txns : ListOK(s, k)'
           /\ \A s \in Txns : k \notin ChangedKeys(s)'
           /\ Linked(k)' => Row(k)' = m.heap[m.tree[k]] /\ Row(k)'.op = "none"
           /\ Linked(k)' <=> m.tree[k] # NoNode
<1>1. Typed /\ HeapOK /\ TreeOK /\ ChangesOK /\ KeyOK(k) /\ \A s \in Txns : ListOK(s, k)
  BY DEF Sound
<1>2. Holds(t, k) /\ \A s \in Txns : s # t => ~Holds(s, k)
  BY <1>1 DEF KeyOK, Holds
<1>3. Along(t, m) /\ Settled(m, k, m.tree[k])
  BY DEF Finished
<1>4. /\ DOMAIN heap' \subseteq DOMAIN m.heap /\ \A n \in DOMAIN heap' : heap'[n] = m.heap[n]
      /\ m.tree[k] # NoNode => m.tree[k] \in DOMAIN heap' /\ heap'[m.tree[k]].key = k
      /\ tree' = m.tree
  BY EndLeaves
<1>5. /\ ops' = [ops EXCEPT ![t] = <<>>] /\ changes' = [changes EXCEPT ![t] = NoChanges]
      /\ intent' = [intent EXCEPT ![t] = <<>>]
  BY DEF EndsWith, End, Cleared
<1>6. /\ Linked(k)' => Row(k)' = m.heap[m.tree[k]] /\ Row(k)'.op = "none"
      /\ Linked(k)' <=> m.tree[k] # NoNode
  BY <1>3, <1>4 DEF Linked, Row, Settled
<1>7. Linked(k)' => Row(k)'.id = NoTxn
  <2>1. Linked(k)' => GoodNode(Row(k)')
    BY <1>3, <1>4, <1>6 DEF Along
  <2> QED
    BY <1>6, <2>1 DEF GoodNode, IsMarkedRight
<1>8. \A s \in Txns : ~Holds(s, k)'
  BY <1>7, NobodyIsNamed DEF Holds
<1>9. \A n \in DOMAIN heap' : n \in DOMAIN heap /\ heap'[n].key = heap[n].key
  BY <1>3, <1>4 DEF Along
<1>10. \A s \in Txns : k \notin ChangedKeys(s)' /\ changes'[s][k] = NoNode /\ On(s, k)' = {}
  <2> TAKE s \in Txns
  <2>1. CASE s = t
    <3>1. ops'[t] = <<>> /\ changes'[t] = NoChanges /\ intent'[t] = <<>>
      BY <1>1, <1>5 DEF Typed
    <3> QED
      BY <2>1, <3>1 DEF On, ChangedKeys, NoChanges
  <2>2. CASE s # t
    <3>1. ops'[s] = ops[s] /\ changes'[s] = changes[s] /\ intent'[s] = intent[s]
      BY <1>1, <1>5, <2>2 DEF Typed
    <3>2. k \notin ChangedKeys(s) /\ changes[s][k] = NoNode /\ On(s, k) = {}
      BY <1>1, <1>2, <2>2 DEF KeyOK, ListOK, Fits
    <3>3. On(s, k)' = {}
      BY <1>9, <3>1, <3>2 DEF On
    <3> QED
      BY <3>1, <3>2, <3>3 DEF ChangedKeys
  <2> QED
    BY <2>1, <2>2
<1>11. KeyOK(k)' /\ \A s \in Txns : ListOK(s, k)'
  BY <1>8, <1>10 DEF KeyOK, ListOK
<1> QED
  BY <1>6, <1>10, <1>11

LEMMA EndIsSound ==
    ASSUME Sound, NEW t \in Txns, NEW m, EndsWith(t, m), Finished(t, m)
    PROVE  Sound' /\ corrupt' = FALSE /\ departed' = departed
<1>1. /\ Typed /\ HeapOK /\ TreeOK /\ ChangesOK /\ UpdatesOK /\ \A s \in Txns : OpsOK(s)
      /\ \A k \in Keys : ~Wild(k) => KeyOK(k) /\ \A s \in Txns : ListOK(s, k)
      /\ \A k \in Keys : ~Departed(k) => Shows(k) /\ LogOK(k)
  BY DEF Sound
<1>2. /\ ops' = [ops EXCEPT ![t] = <<>>] /\ changes' = [changes EXCEPT ![t] = NoChanges]
      /\ intent' = [intent EXCEPT ![t] = <<>>] /\ pc' = [pc EXCEPT ![t] = "done"]
      /\ log' = log /\ made' = made /\ looked' = looked /\ departed' = departed /\ corrupt' = m.bad
      /\ \A s \in Txns : looked[s] = {}
  BY DEF EndsWith, End, Cleared, TreeIsFree
<1>3. /\ Shape(m) /\ ~m.bad /\ Along(t, m) /\ corrupt' = FALSE
      /\ DOMAIN committed' = Keys
  BY <1>2 DEF Finished, Shape
<1>4. /\ DOMAIN heap' \subseteq DOMAIN m.heap /\ \A n \in DOMAIN heap' : heap'[n] = m.heap[n]
      /\ \A n \in DOMAIN m.heap :
            n \notin DOMAIN heap' => n = m.changes[heap[n].key] /\ n = changes[t][heap[n].key]
      /\ \A k \in Keys : m.tree[k] # NoNode => m.tree[k] \in DOMAIN heap' /\ heap'[m.tree[k]].key = k
      /\ tree' = m.tree
  BY EndLeaves
<1>5. /\ pc' \in [Txns -> {"active", "logged", "done"}] /\ pc'[t] = "done"
      /\ \A s \in Txns : s # t => pc'[s] = pc[s] /\ ops'[s] = ops[s] /\ changes'[s] = changes[s]
                                  /\ intent'[s] = intent[s]
      /\ ops'[t] = <<>> /\ changes'[t] = NoChanges /\ intent'[t] = <<>>
  BY <1>1, <1>2 DEF Typed
<1>6. Typed'
  <2>1. changes' \in [Txns -> [Keys -> Names \cup {NoNode}]]
    BY <1>1, <1>2 DEF Typed, NoChanges
  <2>2. ops' \in [Txns -> Seq(Operations)]
    <3>1. <<>> \in Seq(Operations)
      OBVIOUS
    <3> QED
      BY <1>1, <1>2, <3>1 DEF Typed
  <2>3. DOMAIN intent' = Txns /\ \A s \in Txns : DOMAIN intent'[s] \subseteq Keys
    BY <1>1, <1>2 DEF Typed
  <2>4. tree' \in [Keys -> Names \cup {NoNode}]
    BY <1>3, <1>4 DEF Along
  <2> QED
    BY <1>1, <1>2, <1>3, <1>5, <2>1, <2>2, <2>3, <2>4 DEF Typed
<1>7. \A n \in DOMAIN heap' :
         /\ n \in DOMAIN heap /\ heap'[n].key = heap[n].key /\ GoodNode(heap'[n])
         /\ heap'[n] = heap[n] \/ heap'[n].id \in {t, NoTxn}
  BY <1>3, <1>4 DEF Along
<1>8. HeapOK'
  BY <1>1, <1>2, <1>7 DEF HeapOK, GoodNode, Given
<1>9. TreeOK'
  BY <1>4 DEF TreeOK, Linked, Row
<1>10. ChangesOK'
  <2> SUFFICES ASSUME NEW s \in Txns, NEW k \in Keys, changes'[s][k] # NoNode
               PROVE  /\ changes'[s][k] \in DOMAIN heap' /\ heap'[changes'[s][k]].key = k
                      /\ changes'[s][k][1] = s /\ changes'[s][k] # tree'[k] /\ pc'[s] # "done"
    BY DEF ChangesOK, Unfinished
  <2>1. s # t /\ changes'[s][k] = changes[s][k] /\ pc'[s] = pc[s]
    BY <1>5 DEF NoChanges
  <2>2. PICK n : n = changes[s][k]
    OBVIOUS
  <2>3. n \in DOMAIN heap /\ heap[n].key = k /\ n[1] = s /\ n # tree[k] /\ pc[s] # "done" /\ n # NoNode
    BY <1>1, <2>1, <2>2 DEF ChangesOK, Unfinished
  <2>4. n # changes[t][k]
    <3>1. changes[t][k] # NoNode => changes[t][k][1] = t
      BY <1>1 DEF ChangesOK
    <3> QED
      BY <2>1, <2>3, <3>1
  <2>5. n \in DOMAIN m.heap
    BY <1>3, <2>3, <2>4 DEF Along
  <2>6. n \in DOMAIN heap'
    BY <1>4, <2>3, <2>4, <2>5
  <2>7. n # tree'[k]
    BY <1>3, <1>4, <2>3, <2>4 DEF Along
  <2> QED
    BY <1>7, <2>1, <2>2, <2>3, <2>6, <2>7
<1>11. UpdatesOK'
  <2> SUFFICES ASSUME NEW n \in DOMAIN heap', NEW s \in Txns, heap'[n].op = "update", heap'[n].id = s, pc'[s] # "done"
               PROVE  changes'[s][heap'[n].key] # NoNode
    BY DEF UpdatesOK, Unfinished
  <2>1. s # t
    BY <1>5
  <2>2. n \in DOMAIN heap /\ heap'[n] = heap[n]
    BY <1>7, <2>1, NobodyIsNamed
  <2> QED
    BY <1>1, <1>5, <2>1, <2>2 DEF UpdatesOK, Unfinished
<1>12. \A k \in Keys : ~Wild(k) /\ k \notin ChangedKeys(t) => Untouched(k)
  BY EndUntouched
<1>13. ASSUME NEW s \in Txns
       PROVE  OpsOK(s)'
  <2>1. CASE s = t
    BY <1>5, <2>1 DEF OpsOK, Unfinished, ChangedKeys
  <2>2. CASE s # t
    <3>1. ASSUME NEW i \in DOMAIN ops[s], \A k \in Keys : ~Wild(k)
          PROVE  ops[s][i].entry \in DOMAIN heap'
      <4>1. PICK n : n = ops[s][i].entry
        OBVIOUS
      <4>2. n \in DOMAIN heap
        BY <1>1, <3>1, <4>1 DEF OpsOK
      <4>3. PICK k \in Keys : heap[n].key = k
        BY <1>1, <4>2 DEF HeapOK, Nodes
      <4>4. i \in On(s, k)
        BY <4>1, <4>2, <4>3 DEF On
      <4>5. Holds(s, k) /\ KeyOK(k)
        BY <1>1, <3>1, <4>4 DEF ListOK, Fits
      <4>6. ~Holds(t, k)
        BY <2>2, <4>5 DEF Holds
      <4>7. k \notin ChangedKeys(t)
        BY <4>5, <4>6 DEF KeyOK
      <4>8. Untouched(k)
        BY <1>12, <3>1, <4>7
      <4> QED
        BY <4>1, <4>2, <4>3, <4>8 DEF Untouched
    <3>2. OpsOK(s)
      BY <1>1
    <3>3. (\A k \in Keys : ~Wild(k)') => \A k \in Keys : ~Wild(k)
      BY <1>2 DEF Wild
    <3>4. \A i \in DOMAIN ops[s] :
             /\ IsMarkedRight(ops[s][i]) /\ ops[s][i].id \in {s, NoTxn}
             /\ ops[s][i].kind = "update" => ops[s][i].new \in Names
      BY <3>2 DEF OpsOK
    <3>5. \A i \in DOMAIN ops[s] : ops[s][i].entry[1] \in Txns => ops[s][i].entry[2] <= made'[ops[s][i].entry[1]]
      BY <1>2, <3>2 DEF OpsOK, Given
    <3>6. pc'[s] = "done" => ops'[s] = <<>> /\ DOMAIN intent'[s] = {}
      BY <1>5, <2>2, <3>2 DEF OpsOK, Unfinished, ChangedKeys
    <3>7. ops'[s] = ops[s]
      BY <1>5, <2>2
    <3> QED
      BY <3>1, <3>3, <3>4, <3>5, <3>6, <3>7 DEF OpsOK, Unfinished, ChangedKeys, Given, IsMarkedRight
  <2> QED
    BY <2>1, <2>2
<1>14. \A s \in Txns : LookedOK(s)'
  BY <1>2 DEF LookedOK
<1>15. ASSUME NEW k \in Keys, ~Wild(k)'
       PROVE  KeyOK(k)' /\ \A s \in Txns : ListOK(s, k)'
  <2>1. ~Wild(k)
    BY <1>2, <1>15 DEF Wild
  <2>2. CASE k \in ChangedKeys(t)
    BY <2>1, <2>2, EndFrees
  <2>3. CASE k \notin ChangedKeys(t)
    BY <1>1, <1>12, <2>1, <2>3, UntouchedKeyOK, UntouchedListOK
  <2> QED
    BY <2>2, <2>3
<1>16. ASSUME NEW k \in Keys, ~Departed(k)'
       PROVE  Shows(k)' /\ LogOK(k)'
  <2>1. ~Wild(k) /\ ~Departed(k)
    BY <1>2, <1>16 DEF Wild, Departed
  <2>2. CASE k \notin ChangedKeys(t)
    <3>1. Untouched(k) /\ Unlogged(k)
      BY <1>2, <1>12, <2>1, <2>2, LogIsLeft
    <3> QED
      BY <1>1, <2>1, <3>1, UntouchedShows, UntouchedLogOK
  <2>3. CASE k \in ChangedKeys(t)
    <3>1. /\ committed'[k] = IF m.tree[k] = NoNode THEN NoValue ELSE m.heap[m.tree[k]].val
          /\ BroughtBack(k, committed'[k])
      BY <2>1, <2>3 DEF Finished
    <3>2. /\ \A s \in Txns : k \notin ChangedKeys(s)'
          /\ Linked(k)' => Row(k)' = m.heap[m.tree[k]] /\ Row(k)'.op = "none"
          /\ Linked(k)' <=> m.tree[k] # NoNode
      BY <2>1, <2>3, EndFrees
    <3>3. committed'[k] = Visible(k)' /\ ~ErasedInsert(k)'
      BY <3>1, <3>2 DEF Visible, ErasedInsert
    <3>4. Shows(k)'
      BY <3>2, <3>3 DEF Shows
    <3>5. PICK v : v = committed'[k]
      OBVIOUS
    <3>6. BroughtBack(k, v)'
      <4>1. Unlogged(k)
        BY <1>2, LogIsLeft
      <4> QED
        BY <3>1, <3>5, <4>1 DEF BroughtBack, Unlogged
    <3>7. LogOK(k)'
      BY <3>2, <3>5, <3>6 DEF LogOK, HasLogged, BroughtBack
    <3> QED
      BY <3>4, <3>7
  <2> QED
    BY <2>2, <2>3
<1> QED
  BY <1>2, <1>3, <1>6, <1>8, <1>9, <1>10, <1>11, <1>13, <1>14, <1>15, <1>16 DEF Sound

-----------------------------------------------------------------------------
\* Commit and rollback

\* A commit does all that its transaction wants, and finds every node that it needs, but for the
\* nodes of rewritten rows.
LEMMA CommitFinishes ==
    ASSUME Sound, NEW t \in Txns, Commit(t), NEW m, m = CommittedTree(t), ~m.bad
    PROVE  Finished(t, m)
<1>1. /\ Typed /\ HeapOK /\ TreeOK /\ ChangesOK /\ UpdatesOK
      /\ \A k \in Keys : ~Wild(k) => KeyOK(k) /\ ListOK(t, k)
      /\ \A k \in Keys : ~Departed(k) => Shows(k) /\ LogOK(k)
  BY DEF Sound
<1>2. CommitSoFar(t, m, Len(ops[t]))
  BY CommittedTreeIs
<1>3. /\ Shape(m) /\ Along(t, m)
      /\ \A k \in Keys : ~Wild(k) => CommitView(t, m, k, Len(ops[t]))
  BY <1>2 DEF CommitSoFar
<1>4. pc[t] = "logged" /\ \A i \in DOMAIN ops[t] : i <= Len(ops[t])
  BY <1>1 DEF Commit, Typed
<1>5. /\ DOMAIN committed' = Keys
      /\ \A k \in Keys : committed'[k] = IF k \in ChangedKeys(t) THEN intent[t][k] ELSE committed[k]
  BY DEF Commit, ChangedKeys
<1>6. ASSUME NEW k \in Keys, ~Wild(k), On(t, k) = {}
      PROVE  Alone(t, m, k)
  BY <1>3, <1>6 DEF CommitView, DoneBy
<1>7. ASSUME NEW k \in Keys, ~Wild(k), k \in ChangedKeys(t)
      PROVE  Settled(m, k, Commits(t, k)) /\ Holds(t, k)
  <2>1. PICK i \in On(t, k) : Holds(t, k) /\ ops[t][i].entry = tree[k] /\ ops[t][i].kind = Row(k).op
    BY <1>1, <1>7 DEF KeyOK
  <2>2. i <= Len(ops[t])
    BY <1>4 DEF On
  <2>3. DoneBy(t, k, Len(ops[t]))
    BY <2>1, <2>2 DEF DoneBy, Does
  <2> QED
    BY <1>3, <1>7, <2>1, <2>3 DEF CommitView
<1>8. ASSUME NEW k \in Keys, ~Departed(k), k \in ChangedKeys(t)
      PROVE  /\ committed'[k] = IF m.tree[k] = NoNode THEN NoValue ELSE m.heap[m.tree[k]].val
             /\ BroughtBack(k, committed'[k])
  <2>1. ~Wild(k)
    BY <1>8 DEF Wild, Departed
  <2>2. m.tree[k] = Commits(t, k) /\ Holds(t, k)
    BY <1>7, <1>8, <2>1 DEF Settled
  <2>3. Shows(k) /\ LogOK(k) /\ committed'[k] = intent[t][k]
    BY <1>1, <1>5, <1>8
  <2>4. BroughtBack(k, committed'[k])
    BY <1>4, <1>8, <2>3 DEF LogOK, HasLogged
  <2>5. /\ tree[k] \in DOMAIN heap /\ Row(k) \in Nodes /\ IsMarkedRight(Row(k)) /\ Row(k).id = t
        /\ tree[k] # NoNode /\ Row(k) = heap[tree[k]]
    BY <1>1, <2>2 DEF TreeOK, HeapOK, Holds, Linked, Row
  <2>6. Row(k).op \in {"insert", "update", "delete", "deleted_insert"}
    BY <2>5, NobodyIsNamed DEF Nodes, Marks, IsMarkedRight
  <2>7. \A n \in DOMAIN m.heap : m.heap[n].val = heap[n].val
    BY <1>3 DEF Along
  <2>8. m.tree[k] # NoNode => m.tree[k] \in DOMAIN m.heap
    BY <1>3 DEF Along
  <2>9. CASE Row(k).op = "insert"
    <3>1. m.tree[k] = tree[k] /\ intent[t][k] = Row(k).val
      BY <1>8, <2>2, <2>3, <2>9 DEF Commits, Shows
    <3> QED
      BY <2>3, <2>4, <2>5, <2>7, <2>8, <3>1
  <2>10. CASE Row(k).op = "update"
    <3>1. m.tree[k] = changes[t][k] /\ intent[t][k] = heap[changes[t][k]].val
      BY <1>8, <2>2, <2>3, <2>10 DEF Commits, Shows
    <3>2. changes[t][k] # NoNode
      <4>1. heap[tree[k]].key = k /\ Unfinished(t)
        BY <1>1, <1>4, <2>2 DEF TreeOK, Holds, Row, Unfinished
      <4> QED
        BY <1>1, <2>5, <2>10, <4>1 DEF UpdatesOK
    <3> QED
      BY <2>3, <2>4, <2>7, <2>8, <3>1, <3>2
  <2>11. CASE Row(k).op \in {"delete", "deleted_insert"}
    <3>1. m.tree[k] = NoNode /\ intent[t][k] = NoValue
      BY <1>8, <2>2, <2>3, <2>11 DEF Commits, Shows
    <3> QED
      BY <2>3, <2>4, <3>1
  <2> QED
    BY <2>6, <2>9, <2>10, <2>11
<1>9. \A k \in Keys : ~Wild(k) /\ k \in ChangedKeys(t) => Settled(m, k, m.tree[k])
  BY <1>7 DEF Settled
<1> QED
  BY <1>3, <1>5, <1>6, <1>8, <1>9 DEF Finished

LEMMA CommitIsSound ==
    ASSUME Sound, NEW t \in Txns, Commit(t)
    PROVE  /\ departed' = departed
           /\ \/ Sound' /\ corrupt' = FALSE
              \/ corrupt' = TRUE /\ \E k \in Keys : Wild(k)
<1>1. PICK m : m = CommittedTree(t)
  OBVIOUS
<1>2. EndsWith(t, m) /\ departed' = departed /\ corrupt' = m.bad
  BY <1>1 DEF Commit, End, EndsWith
<1>3. CASE m.bad
  <2>1. CommitSoFar(t, m, Len(ops[t]))
    BY <1>1, CommittedTreeIs
  <2> QED
    BY <1>2, <1>3, <2>1 DEF CommitSoFar, Shape
<1>4. CASE ~m.bad
  <2>1. Finished(t, m)
    BY <1>1, <1>4, CommitFinishes
  <2> QED
    BY <1>2, <2>1, EndIsSound
<1> QED
  BY <1>3, <1>4

\* A rollback leaves every row that its transaction has changed as it found it.
LEMMA RollbackFinishes ==
    ASSUME Sound, NEW t \in Txns, Rollback(t), NEW m, m = RolledBackTree(t), ~m.bad
    PROVE  Finished(t, m)
<1>1. /\ Typed /\ HeapOK /\ TreeOK /\ ChangesOK /\ UpdatesOK
      /\ \A k \in Keys : ~Wild(k) => KeyOK(k) /\ ListOK(t, k)
      /\ \A k \in Keys : ~Departed(k) => Shows(k) /\ LogOK(k)
  BY DEF Sound
<1>2. RollbackSoFar(t, m, 1)
  BY RolledBackTreeIs
<1>3. /\ Shape(m) /\ Along(t, m)
      /\ \A k \in Keys : ~Wild(k) => RollbackView(t, m, k, 1)
  BY <1>2 DEF RollbackSoFar
<1>4. pc[t] = "active" /\ committed' = committed /\ \A i \in DOMAIN ops[t] : 1 <= i
  BY <1>1 DEF Rollback, Typed
<1>5. DOMAIN committed' = Keys
  BY <1>1, <1>4 DEF Typed
<1>6. ASSUME NEW k \in Keys, ~Wild(k), On(t, k) = {}
      PROVE  Alone(t, m, k)
  BY <1>3, <1>6 DEF RollbackView
<1>7. ASSUME NEW k \in Keys, ~Wild(k), k \in ChangedKeys(t)
      PROVE  Settled(m, k, RollsBack(k)) /\ Holds(t, k)
  <2>1. Holds(t, k)
    BY <1>1, <1>7 DEF KeyOK
  <2>2. PICK i \in On(t, k) : ops[t][i].entry = tree[k] /\ ops[t][i].kind = FirstKind(k)
    <3>1. CASE Row(k).op = "deleted_insert"
      BY <1>1, <1>7, <2>1, <3>1 DEF KeyOK, FirstKind
    <3>2. CASE Row(k).op # "deleted_insert"
      BY <1>1, <1>7, <2>1, <3>2 DEF KeyOK, FirstKind
    <3> QED
      BY <3>1, <3>2
  <2>3. 1 <= i
    BY <1>4 DEF On
  <2>4. UndoneFrom(t, k, 1)
    BY <2>2, <2>3 DEF UndoneFrom, Undoes
  <2> QED
    BY <1>3, <1>7, <2>1, <2>4 DEF RollbackView
<1>8. ASSUME NEW k \in Keys, ~Departed(k), k \in ChangedKeys(t)
      PROVE  /\ committed[k] = IF m.tree[k] = NoNode THEN NoValue ELSE m.heap[m.tree[k]].val
             /\ BroughtBack(k, committed[k])
  <2>1. ~Wild(k)
    BY <1>8 DEF Wild, Departed
  <2>2. m.tree[k] = RollsBack(k) /\ Holds(t, k)
    BY <1>7, <1>8, <2>1 DEF Settled
  <2>3. Shows(k) /\ LogOK(k) /\ KeyOK(k)
    BY <1>1, <1>8, <2>1
  <2>4. \A s \in Txns : ~HasLogged(s, k)
    <3> SUFFICES ASSUME NEW s \in Txns, HasLogged(s, k) PROVE FALSE
      OBVIOUS
    <3>1. Holds(s, k) /\ pc[s] = "logged"
      BY <2>3 DEF HasLogged, KeyOK
    <3>2. s = t
      BY <2>2, <3>1 DEF Holds
    <3> QED
      BY <1>4, <3>1, <3>2
  <2>5. BroughtBack(k, committed[k])
    BY <2>3, <2>4 DEF LogOK
  <2>6. \A n \in DOMAIN m.heap : m.heap[n].val = heap[n].val
    BY <1>3 DEF Along
  <2>7. m.tree[k] # NoNode => m.tree[k] \in DOMAIN m.heap
    BY <1>3 DEF Along
  <2>8. Linked(k) /\ tree[k] # NoNode
    BY <2>2 DEF Holds, Linked
  <2>9. CASE Row(k).op \in {"insert", "deleted_insert"}
    <3>1. m.tree[k] = NoNode
      BY <2>2, <2>9 DEF RollsBack
    <3>2. committed[k] = NoValue
      BY <2>3, <2>8, <2>9 DEF Shows, ErasedInsert, Visible
    <3> QED
      BY <2>5, <3>1, <3>2
  <2>10. CASE Row(k).op \notin {"insert", "deleted_insert"}
    <3>1. m.tree[k] = tree[k]
      BY <2>2, <2>10 DEF RollsBack
    <3>2. committed[k] = heap[tree[k]].val
      BY <2>3, <2>8, <2>10 DEF Shows, ErasedInsert, Visible, Row
    <3> QED
      BY <2>5, <2>6, <2>7, <2>8, <3>1, <3>2
  <2> QED
    BY <2>9, <2>10
<1>9. \A k \in Keys : ~Wild(k) /\ k \in ChangedKeys(t) => Settled(m, k, m.tree[k])
  BY <1>7 DEF Settled
<1> QED
  BY <1>3, <1>4, <1>5, <1>6, <1>8, <1>9 DEF Finished

LEMMA RollbackIsSound ==
    ASSUME Sound, NEW t \in Txns, Rollback(t)
    PROVE  /\ departed' = departed
           /\ \/ Sound' /\ corrupt' = FALSE
              \/ corrupt' = TRUE /\ \E k \in Keys : Wild(k)
<1>1. PICK m : m = RolledBackTree(t)
  OBVIOUS
<1>2. EndsWith(t, m) /\ departed' = departed /\ corrupt' = m.bad
  BY <1>1 DEF Rollback, End, EndsWith
<1>3. CASE m.bad
  <2>1. RollbackSoFar(t, m, 1)
    BY <1>1, RolledBackTreeIs
  <2> QED
    BY <1>2, <1>3, <2>1 DEF RollbackSoFar, Shape
<1>4. CASE ~m.bad
  <2>1. Finished(t, m)
    BY <1>1, <1>4, RollbackFinishes
  <2> QED
    BY <1>2, <2>1, EndIsSound
<1> QED
  BY <1>3, <1>4

-----------------------------------------------------------------------------
\* The invariant

LEMMA NothingLogged ==
    ASSUME NEW k, log = <<>>
    PROVE  Recovered(k) = AtFirst(k)
<1>1. PICK h : Runs(Work("log", log, k), Len(log), AtFirst(k), h) /\ RedoLog(k, log) = h[Len(log)]
  BY RedoLogInSteps
<1>2. Len(log) = 0
  OBVIOUS
<1> QED
  BY <1>1, <1>2, RecoveredIs DEF Runs

LEMMA FirstNodes ==
    ASSUME Init
    PROVE  /\ DOMAIN heap \subseteq Names
           /\ \A n \in DOMAIN heap : heap[n] \in Nodes /\ heap[n].op = "none" /\ heap[n].id = NoTxn /\ Given(n)
           /\ \A k \in FirstKeys : /\ FirstNode(k) \in Names /\ FirstNode(k) # NoNode
                                   /\ FirstNode(k) \in DOMAIN heap
                                   /\ heap[FirstNode(k)].key = k /\ heap[FirstNode(k)].val = FirstNode(k)
<1>1. /\ DOMAIN heap = {FirstNode(k) : k \in FirstKeys}
      /\ \A n \in DOMAIN heap : heap[n] = Node(n[2], n)
  BY DEF Init
<1>2. \A k \in FirstKeys : k \in Keys /\ k \in Nat
  BY KeysAssumption
<1>3. \A k \in FirstKeys : FirstNode(k)[1] = NoTxn /\ FirstNode(k)[2] = k /\ FirstNode(k) \in Names
  BY <1>2 DEF FirstNode, Names
<1>4. \A k \in FirstKeys : FirstNode(k) \in DOMAIN heap /\ heap[FirstNode(k)] = Node(k, FirstNode(k))
  BY <1>1, <1>3
<1>5. ASSUME NEW n \in DOMAIN heap
      PROVE  n \in Names /\ heap[n] \in Nodes /\ heap[n].op = "none" /\ heap[n].id = NoTxn /\ Given(n)
  <2>1. PICK k \in FirstKeys : n = FirstNode(k)
    BY <1>1
  <2>2. n[1] = NoTxn /\ n \in Names /\ heap[n] = Node(k, n) /\ k \in Keys
    BY <1>2, <1>3, <1>4, <2>1
  <2>3. heap[n] \in Nodes
    BY <2>2 DEF Node, Nodes
  <2> QED
    BY <2>2, <2>3, NobodyIsNamed DEF Node, Given
<1>6. \A k \in FirstKeys : heap[FirstNode(k)].key = k /\ heap[FirstNode(k)].val = FirstNode(k)
  <2>1. \A k, n : Node(k, n).key = k /\ Node(k, n).val = n
    BY DEF Node
  <2> QED
    BY <1>4, <2>1
<1> QED
  BY <1>3, <1>4, <1>5, <1>6, NobodyIsNamed

LEMMA TreeInvAtFirst == Init => TreeInv
<1> SUFFICES ASSUME Init PROVE TreeInv
  OBVIOUS
<1>1. /\ DOMAIN heap \subseteq Names
      /\ \A n \in DOMAIN heap : heap[n] \in Nodes /\ heap[n].op = "none" /\ heap[n].id = NoTxn /\ Given(n)
      /\ \A k \in FirstKeys : /\ FirstNode(k) \in Names /\ FirstNode(k) # NoNode
                              /\ FirstNode(k) \in DOMAIN heap
                              /\ heap[FirstNode(k)].key = k /\ heap[FirstNode(k)].val = FirstNode(k)
  BY FirstNodes
<1>2. /\ tree = [k \in Keys |-> IF k \in FirstKeys THEN FirstNode(k) ELSE NoNode]
      /\ committed = [k \in Keys |-> IF k \in FirstKeys THEN FirstNode(k) ELSE NoValue]
      /\ log = <<>> /\ departed = {} /\ corrupt = FALSE
      /\ pc = [t \in Txns |-> "active"] /\ changes = [t \in Txns |-> NoChanges]
      /\ ops = [t \in Txns |-> <<>>] /\ made = [t \in Txns |-> 0]
      /\ looked = [t \in Txns |-> {}] /\ intent = [t \in Txns |-> <<>>]
  BY DEF Init
<1>3. FirstKeys \subseteq Keys
  BY KeysAssumption
<1>4. \A k \in Keys : Linked(k) => /\ k \in FirstKeys /\ tree[k] = FirstNode(k) /\ tree[k] \in DOMAIN heap
                                   /\ Row(k).key = k /\ Row(k).op = "none" /\ Row(k).id = NoTxn
  BY <1>1, <1>2 DEF Linked, Row
<1>5. Typed
  <2>1. tree \in [Keys -> Names \cup {NoNode}]
    BY <1>1, <1>2
  <2>2. log \in Seq(Seq(LoggedChanges))
    BY <1>2
  <2>3. ops \in [Txns -> Seq(Operations)]
    <3>1. <<>> \in Seq(Operations)
      OBVIOUS
    <3> QED
      BY <1>2, <3>1
  <2>4. changes \in [Txns -> [Keys -> Names \cup {NoNode}]]
    BY <1>2 DEF NoChanges
  <2>5. DOMAIN intent = Txns /\ \A t \in Txns : DOMAIN intent[t] \subseteq Keys
    BY <1>2
  <2>6. /\ pc \in [Txns -> {"active", "logged", "done"}] /\ made \in [Txns -> Nat]
        /\ looked \in [Txns -> SUBSET Operations] /\ DOMAIN committed = Keys
    BY <1>2
  <2> QED
    BY <2>1, <2>2, <2>3, <2>4, <2>5, <2>6 DEF Typed
<1>6. HeapOK
  BY <1>1 DEF HeapOK, IsMarkedRight
<1>7. TreeOK
  BY <1>4 DEF TreeOK
<1>8. ChangesOK
  BY <1>2 DEF ChangesOK, NoChanges
<1>9. UpdatesOK
  BY <1>1 DEF UpdatesOK
<1>10. \A t \in Txns : ops[t] = <<>> /\ ChangedKeys(t) = {} /\ pc[t] = "active" /\ looked[t] = {}
  BY <1>2 DEF ChangedKeys
<1>11. \A t \in Txns : OpsOK(t) /\ LookedOK(t)
  BY <1>10 DEF OpsOK, LookedOK
<1>12. ASSUME NEW k \in Keys
       PROVE  KeyOK(k) /\ \A t \in Txns : ListOK(t, k)
  <2>1. \A t \in Txns : On(t, k) = {} /\ ~Holds(t, k)
    BY <1>4, <1>10, NobodyIsNamed DEF On, Holds
  <2>2. \A t \in Txns : changes[t][k] = NoNode
    BY <1>2 DEF NoChanges
  <2> QED
    BY <1>10, <2>1, <2>2 DEF KeyOK, ListOK
<1>13. ASSUME NEW k \in Keys
       PROVE  Shows(k) /\ LogOK(k)
  <2>1. ~ErasedInsert(k)
    BY <1>4 DEF ErasedInsert
  <2>2. committed[k] = Visible(k)
    <3>1. CASE k \in FirstKeys
      <4>1. Linked(k) /\ Row(k).val = FirstNode(k) /\ Row(k).op = "none"
        BY <1>1, <1>2, <3>1 DEF Linked, Row
      <4> QED
        BY <1>2, <3>1, <4>1 DEF Visible
    <3>2. CASE k \notin FirstKeys
      BY <1>2, <3>2 DEF Visible, Linked
    <3> QED
      BY <3>1, <3>2
  <2>3. Shows(k)
    BY <1>10, <2>1, <2>2 DEF Shows
  <2>4. Recovered(k) = committed[k]
    BY <1>2, NothingLogged DEF AtFirst
  <2>5. ~LoggedDelete(k)
    BY <1>2 DEF LoggedDelete, Changes
  <2>6. Recovered(k) # Halted
    <3>1. committed[k] \in Names \/ committed[k] = NoValue
      BY <1>1, <1>2
    <3> QED
      BY <2>4, <3>1, NobodyIsNamed
  <2>7. LogOK(k)
    BY <1>10, <2>4, <2>5, <2>6 DEF LogOK, HasLogged, BroughtBack
  <2> QED
    BY <2>3, <2>7
<1>14. Sound
  BY <1>5, <1>6, <1>7, <1>8, <1>9, <1>11, <1>12, <1>13 DEF Sound
<1> QED
  BY <1>2, <1>14 DEF TreeInv

\* No step breaks it.
LEMMA TreeInvGoesOn == TreeInv /\ [Next]_vars => TreeInv'
<1> SUFFICES ASSUME TreeInv, [Next]_vars PROVE TreeInv'
  OBVIOUS
<1> DEFINE Goes2 == /\ departed' = departed
                    /\ \/ Sound' /\ corrupt' = FALSE
                       \/ corrupt' = TRUE /\ \E k \in Keys : Wild(k)
<1>1. corrupt \in BOOLEAN /\ departed \subseteq Known /\ (~corrupt => Sound)
  BY DEF TreeInv
<1>2. CASE UNCHANGED vars
  <2>1. UNCHANGED <<heap, tree, log, pc, changes, ops, made, looked, intent, committed, departed, corrupt>>
    BY <1>2 DEF vars, region, txns, wishes
  <2>2. TreeInv' <=> TreeInv
    BY <2>1 DEF TreeInv, Sound, Typed, HeapOK, TreeOK, ChangesOK, UpdatesOK, OpsOK, LookedOK, KeyOK, ListOK,
                Shows, LogOK, Given, Linked, Row, Unfinished, Wild, Departed, On, Holds, Fits, ErasedInsert,
                Visible, HasLogged, BroughtBack, ChangedKeys, IsAbout, IsShown, New, LoggedDelete,
                Recovered, LastIsUpdate, Changes
  <2> QED
    BY <2>2
<1>3. CASE Ended
  BY <1>2, <1>3 DEF Ended
<1>4. CASE Goes2
  <2>1. departed' \subseteq Known /\ corrupt' \in BOOLEAN /\ (~corrupt' => Sound')
    BY <1>1, <1>4
  <2>2. corrupt' => \E k \in Keys : Wild(k)'
    BY <1>4 DEF Wild
  <2> QED
    BY <2>1, <2>2 DEF TreeInv
<1>5. ASSUME NEW t \in Txns, WriteRecord(t) \/ Commit(t) \/ Rollback(t)
      PROVE  Goes2
  <2>1. Sound
    BY <1>1, <1>5 DEF WriteRecord, Commit, Rollback
  <2> QED
    BY <1>5, <2>1, WriteRecordIsSound, CommitIsSound, RollbackIsSound
<1>6. ASSUME NEW t \in Txns, NEW k \in Keys,
             \/ Insert(t, k) \/ Rewrite(t, k)
             \/ CheckUpdate(t, k) \/ MarkUpdated(t, k) \/ CheckErase(t, k) \/ MarkErased(t, k)
      PROVE  TreeInv'
  <2>1. Sound
    BY <1>1, <1>6 DEF Insert, Rewrite, CheckUpdate, MarkUpdated, CheckErase, MarkErased, Active, SetsMark
  <2>2. /\ Sound' /\ corrupt' = FALSE
        /\ \E S \in SUBSET Known : departed' = departed \cup S
    <3>0. /\ {<<"rewritten", k>>} \in SUBSET Known /\ {} \in SUBSET Known
          /\ \A o : Races(o, k) \in SUBSET Known /\ Races(o, k) \cup HalfErases(o, k) \in SUBSET Known
      <4>1. \A o : Races(o, k) \subseteq {<<"raced", k>>} /\ HalfErases(o, k) \subseteq {<<"half_erased", k>>}
        BY DEF Races, HalfErases
      <4>2. <<"raced", k>> \in Known /\ <<"half_erased", k>> \in Known /\ <<"rewritten", k>> \in Known
        BY DEF Known
      <4> QED
        BY <4>1, <4>2
    <3>1. CASE Insert(t, k)
      BY <2>1, <3>0, <3>1, InsertIsSound
    <3>2. CASE Rewrite(t, k)
      BY <2>1, <3>0, <3>2, RewritingIsSound
    <3>3. CASE CheckUpdate(t, k)
      BY <1>1, <2>1, <3>0, <3>3, CheckUpdateIsSound
    <3>4. CASE MarkUpdated(t, k)
      BY <2>1, <3>0, <3>4, UpdateIsSound
    <3>5. CASE CheckErase(t, k)
      BY <1>1, <2>1, <3>0, <3>5, CheckEraseIsSound
    <3>6. CASE MarkErased(t, k)
      <4>1. Sound' /\ corrupt' = FALSE
        BY <2>1, <3>6, MarkErasedIsSound
      <4>2. PICK o \in looked[t] : departed' = departed \cup Races(o, k) \cup HalfErases(o, k)
        BY <2>1, <3>6, MarkErasedIsSound
      <4>3. departed' = departed \cup (Races(o, k) \cup HalfErases(o, k))
        BY <4>2
      <4> QED
        BY <3>0, <4>1, <4>3
    <3> QED
      BY <1>6, <3>1, <3>2, <3>3, <3>4, <3>5, <3>6
  <2>3. departed' \subseteq Known
    BY <1>1, <2>2
  <2> QED
    BY <2>2, <2>3 DEF TreeInv
<1> QED
  BY <1>2, <1>3, <1>4, <1>5, <1>6 DEF Next

\* What the invariant says.

LEMMA TreeInvIsolates == TreeInv => TransactionsAreIsolated
<1> SUFFICES ASSUME TreeInv PROVE TransactionsAreIsolated
  OBVIOUS
<1>1. OnlyWildRowsCorrupt
  BY DEF TreeInv, OnlyWildRowsCorrupt
<1>2. CASE corrupt
  BY <1>1, <1>2 DEF TransactionsAreIsolated, TypeOK, RowLocksAreExclusive, VisibleIsCommitted, OwnChangesAreFound
<1>3. CASE ~corrupt
  <2>1. /\ Typed /\ HeapOK /\ TreeOK /\ ChangesOK /\ UpdatesOK
        /\ \A k \in Keys : ~Wild(k) => KeyOK(k)
        /\ \A k \in Keys : ~Departed(k) => Shows(k)
    BY <1>3 DEF TreeInv, Sound
  <2>2. \A k \in Keys : ~Departed(k) => ~Wild(k)
    BY DEF Departed, Wild
  <2>3. TypeOK
    <3>1. \A n \in DOMAIN heap : /\ heap[n].key \in Keys /\ heap[n].id \in Txns \cup {NoTxn}
                                 /\ heap[n].op = "none" <=> heap[n].id = NoTxn
      BY <2>1 DEF HeapOK, Nodes, IsMarkedRight
    <3>2. pc \in [Txns -> {"active", "logged", "done"}]
      BY <2>1 DEF Typed
    <3> QED
      BY <2>1, <3>1, <3>2 DEF TypeOK, TreeOK, ChangesOK
  <2>4. ASSUME NEW k \in Keys, NEW t \in Txns, k \in ChangedKeys(t), ~Wild(k)
        PROVE  /\ Linked(k) /\ Row(k).id = t /\ Row(k).op \in {"insert", "update", "delete", "deleted_insert"}
               /\ Unfinished(t) /\ \A s \in Txns \ {t} : k \notin ChangedKeys(s)
    <3>1. KeyOK(k)
      BY <2>1, <2>4
    <3>2. Linked(k) /\ Row(k).id = t /\ Unfinished(t)
      BY <2>4, <3>1 DEF KeyOK, Holds
    <3>3. Row(k) \in Nodes /\ IsMarkedRight(Row(k))
      BY <2>1, <3>2 DEF TreeOK, HeapOK, Row
    <3>4. Row(k).op \in {"insert", "update", "delete", "deleted_insert"}
      BY <3>2, <3>3, NobodyIsNamed DEF Nodes, Marks, IsMarkedRight
    <3> QED
      BY <3>1, <3>2, <3>4 DEF KeyOK, Holds
  <2>5. RowLocksAreExclusive
    BY <2>4 DEF RowLocksAreExclusive, Mine, Row, Wild
  <2>6. VisibleIsCommitted
    BY <2>1 DEF VisibleIsCommitted, Shows
  <2>7. ASSUME NEW t \in Txns, NEW k \in ChangedKeys(t), ~Departed(k), ~ErasedInsert(k)
        PROVE  IF Found(t, k) THEN heap[Current(t, k)].val = intent[t][k] ELSE intent[t][k] = NoValue
    <3>1. k \in Keys
      BY <2>1 DEF Typed, ChangedKeys
    <3>2. /\ Linked(k) /\ Row(k).id = t /\ heap[tree[k]].id = t /\ Row(k) = heap[tree[k]]
          /\ Row(k).op \in {"insert", "update", "delete"}
      BY <2>2, <2>4, <2>7, <3>1 DEF ErasedInsert, Row
    <3>3. Shows(k)
      BY <2>1, <2>7, <3>1
    <3>4. CASE Row(k).op = "delete"
      BY <2>7, <3>2, <3>3, <3>4 DEF Shows, Found, Mine
    <3>5. CASE Row(k).op = "insert"
      <4>1. Found(t, k) /\ Current(t, k) = tree[k]
        BY <3>2, <3>5 DEF Found, Current, Mine
      <4> QED
        BY <2>7, <3>2, <3>3, <3>5, <4>1 DEF Shows
    <3>6. CASE Row(k).op = "update"
      <4>1. Found(t, k) /\ Current(t, k) = changes[t][k]
        BY <3>2, <3>6 DEF Found, Current, Mine, PendingUpdate
      <4> QED
        BY <2>7, <3>2, <3>3, <3>6, <4>1 DEF Shows
    <3> QED
      BY <3>2, <3>4, <3>5, <3>6
  <2>8. OwnChangesAreFound
    BY <2>7 DEF OwnChangesAreFound
  <2> QED
    BY <1>1, <2>3, <2>5, <2>6, <2>8 DEF TransactionsAreIsolated
<1> QED
  BY <1>2, <1>3

LEMMA TreeInvRecovers == TreeInv => LogBringsRowsBack
<1> SUFFICES ASSUME TreeInv, ~corrupt, \A t \in Txns : pc[t] = "done"
             PROVE  /\ RecoveryEnds \/ \A k \in Keys :
                          \/ Departed(k)
                          \/ Recovered(k) = committed[k]
                          \/ LastIsUpdate(k) /\ Recovered(k) # NoValue /\ committed[k] # NoValue
                    /\ \A k \in Keys : LoggedDelete(k) /\ ~Departed(k) => Recovered(k) = Halted
  BY DEF LogBringsRowsBack
<1>1. \A k \in Keys : ~Departed(k) => LogOK(k)
  BY DEF TreeInv, Sound
<1>2. \A k \in Keys, t \in Txns : ~HasLogged(t, k)
  BY DEF HasLogged
<1>3. \A k \in Keys : ~Departed(k) => BroughtBack(k, committed[k])
  BY <1>1, <1>2 DEF LogOK
<1> QED
  BY <1>3 DEF BroughtBack, RecoveryEnds

LEMMA TreeInvAlways == Spec => []TreeInv
<1>1. TreeInv /\ [Next]_vars => TreeInv'
  BY TreeInvGoesOn
<1> QED
  BY <1>1, TreeInvAtFirst, PTL DEF Spec

\* Whatever the transactions do, each row has one writer, readers see what is committed, a
\* transaction finds its own changes, and no pointer of its list is left dangling, but for the
\* rows that are rewritten, raced or half erased, and pointers dangle only through wild ones.
THEOREM TransactionsStayIsolated == Spec => []TransactionsAreIsolated
BY TreeInvAlways, TreeInvIsolates, PTL

\* Whatever order they commit in, recovery ends at a delete in the log; of a log without one it
\* makes the rows that the commits and rollbacks have left, but for the departed rows and for the
\* value of a row whose last change is an update.
THEOREM LogBringsThemBack == Spec => []LogBringsRowsBack
BY TreeInvAlways, TreeInvRecovers, PTL

=============================================================================

------------------------- MODULE ConcurrentMapProofs -------------------------
(***************************************************************************)
(* Proofs about ConcurrentMap: row locks are exclusive and nobody who      *)
(* waits for one is forgotten; rows do not change under who looks at them; *)
(* and commits and rollbacks, an operation at a time among the calls of    *)
(* the others, make of the map what recovery would make of the log, keep   *)
(* the places of its rows in the checkpoint file or hand them back, and    *)
(* use no iterator to a row that is gone.                                  *)
(***************************************************************************)
EXTENDS ConcurrentMap, TLAPS, NaturalsInduction, WellFoundedInduction, FiniteSetTheorems

RowCalls == {"lock", "update", "erase"}

\* The lists of operations and the log are sequences; who ends a transaction goes through
\* the operations that it has made, and who commits has written its record.
ListsOf(t) ==
    /\ \A o \in Range(ops[t]) : o.val # NoValue
    /\ pc[t] \in {"commit", "rollback", "committing", "rolling back"} =>
          Range(todo[t]) \subseteq Range(ops[t])
    /\ pc[t] = "done" => todo[t] = <<>>
    /\ pc[t] \in {"commit", "committing"} => \E r \in Range(log) : r.txn = t
Lists ==
    /\ log \in Seq(Range(log)) /\ \A r \in Range(log) : r.lsn \in Nat
    /\ \A t \in Txns : ListsOf(t)

\* A call is at a point that it can reach.
CallsAre ==
    \A t \in Txns :
        /\ pc[t] = "in" => call[t].kind \in Kinds
        /\ pc[t] = "at" => call[t].kind \in RowCalls \cup {"scan"}
        /\ pc[t] = "back" => call[t].kind \in RowCalls
        /\ pc[t] \in {"dozing", "asleep", "woken"} => call[t].kind \in RowCalls \cup {"insert"}

\* Every variable has its type, and so has every list and every call in progress.
Typed == TypeOK /\ Lists /\ CallsAre

\* Who holds which locks, at each point.
HoldsOf(t) ==
    /\ pc[t] \in {"at", "back"} \/ (pc[t] = "in" /\ call[t].kind # "insert") => t \in sharers
    /\ pc[t] = "in" /\ call[t].kind = "insert" => exclusive = t
    /\ pc[t] \in {"at", "dozing"} => mutex[MutexOf(t)] = t
    /\ to_lock[t] # {} => pc[t] \in {"committing", "rolling back", "failed"}
    /\ Ending(t) =>
          \/ exclusive = t /\ to_lock[t] = {}
          \/ /\ t \in sharers
             /\ \A k \in KeysOf(t) : Picket[k] \in to_lock[t] \/ mutex[Picket[k]] = t
    /\ \A o \in Range(ops[t]) :
          /\ pc[t] = "committing" /\ o.kind = "delete" => exclusive = t
          /\ pc[t] = "rolling back" /\ o.kind = "insert" => exclusive = t
Holds == (exclusive # NoTxn => sharers = {}) /\ \A t \in Txns : HoldsOf(t)

\* Iterators point to rows that are there, unless they are stale.
RowsAreThere ==
    \A t \in Txns :
        /\ pc[t] = "at" => Present(rows[call[t].key])
        /\ pc[t] \in {"dozing", "asleep", "woken", "back"} /\ call[t].kind \in RowCalls
              /\ ~call[t].stale => Present(rows[call[t].key])

\* Until it has all its mutexes a transaction has a claim on each row that it has an
\* operation on; then on those that it has yet to commit or roll back.
Unsettled(t) == Unfinished(t) \/ to_lock[t] # {}
KeysToDo(t) == {todo[t][i].key : i \in DOMAIN todo[t]}
Claimed(t) == IF Unsettled(t) THEN KeysOf(t) ELSE KeysToDo(t)

\* Claims are exclusive, and the row bears the mark of who has not begun to give it up.
ClaimsAreExclusive ==
    ~corrupt => \A t \in Txns :
        /\ \A s \in Txns \ {t} : Claimed(s) \cap Claimed(t) = {}
        /\ Unsettled(t) => \A k \in KeysOf(t) : rows[k].op # "none" /\ rows[k].id = t

\* Who is about to sleep or sleeps has a reason to: the mark of another, or one who is
\* giving up its marks and will notify.
WaitersAreLockedOut ==
    ~corrupt => \A t \in Txns :
        /\ pc[t] = "dozing" =>
              \/ HeldByOther(t, rows[call[t].key]) \/ t \in missed
              \/ \E s \in Txns : Ending(s) /\ exclusive = s
        /\ pc[t] = "asleep" =>
              \/ HeldByOther(t, rows[call[t].key]) \/ t \in missed
              \/ \E s \in Txns : Ending(s) /\ to_lock[s] = {}

LockInv == Typed /\ Holds /\ RowsAreThere /\ ClaimsAreExclusive /\ WaitersAreLockedOut

-----------------------------------------------------------------------------
\* Lemmas about the operators of the model

USE DEF Keys, Pickets, Kinds, RowCalls

\* A set of numbers has a least element, and Min is one.
LEMMA MinIsIn ==
    ASSUME NEW S, S \subseteq Nat, S # {}
    PROVE  Min(S) \in S
<1> DEFINE R == {m \in Nat \X Nat : m[1] < m[2]}
<1>1. IsWellFoundedOn(R, Nat)
  BY NatLessThanWellFounded DEF OpToRel
<1> HIDE DEF R
<1>2. PICK x \in S : \A y \in S : ~(<<y, x>> \in R)
  BY <1>1, WFMin
<1>3. \A y \in S : ~(y < x)
  BY <1>2 DEF R
<1>4. \A y \in S : x <= y
  BY <1>3
<1> QED
  BY <1>4 DEF Min

\* What is in a list, and in one that is longer, shorter or the other way round.
LEMMA RangeOfList ==
    ASSUME NEW S, NEW q \in Seq(S)
    PROVE  Range(q) \subseteq S
BY DEF Range

\* What is in a list that is one longer.
LEMMA RangeOfAppend ==
    ASSUME NEW S, NEW q \in Seq(S), NEW e \in S
    PROVE  Append(q, e) \in Seq(S) /\ Range(Append(q, e)) = Range(q) \cup {e}
<1>1. /\ Append(q, e) \in Seq(S) /\ DOMAIN Append(q, e) = 1 .. Len(q) + 1
      /\ \A i \in 1 .. Len(q) : Append(q, e)[i] = q[i]
      /\ Append(q, e)[Len(q) + 1] = e /\ DOMAIN q = 1 .. Len(q) /\ Len(q) \in Nat
  OBVIOUS
<1> QED
  BY <1>1 DEF Range

\* What is in a list without its head.
LEMMA RangeOfTail ==
    ASSUME NEW S, NEW q \in Seq(S), q # <<>>
    PROVE  Tail(q) \in Seq(S) /\ Range(Tail(q)) \subseteq Range(q)
<1>1. /\ Tail(q) \in Seq(S) /\ DOMAIN Tail(q) = 1 .. Len(q) - 1
      /\ \A i \in 1 .. Len(q) - 1 : Tail(q)[i] = q[i + 1]
      /\ DOMAIN q = 1 .. Len(q) /\ Len(q) \in Nat
  OBVIOUS
<1> QED
  BY <1>1 DEF Range

\* A list in reverse has the same elements.
LEMMA RangeOfReverse ==
    ASSUME NEW S, NEW q \in Seq(S)
    PROVE  Reverse(q) \in Seq(S) /\ Range(Reverse(q)) \subseteq Range(q)
<1>1. DOMAIN q = 1 .. Len(q) /\ Len(q) \in Nat /\ \A i \in 1 .. Len(q) : q[i] \in S
  OBVIOUS
<1>2. \A i \in 1 .. Len(q) : (Len(q) - i) + 1 \in 1 .. Len(q)
  BY <1>1
<1> QED
  BY <1>1, <1>2 DEF Reverse, Range

\* A transaction's value is a value, and is not that of an absent row.
LEMMA ValuesAre ==
    ASSUME TypeOK, NEW t \in Txns
    PROVE  Value(t) \in Values /\ Value(t) # NoValue
BY NobodyAssumption DEF TypeOK, Value, Values

\* An iterator's way forward leads to a key.
LEMMA KeysAhead ==
    ASSUME NEW t \in Txns, NEW k, Later(t) \ {k} # {}
    PROVE  Min(Later(t) \ {k}) \in Keys
<1>1. Later(t) \ {k} \subseteq Nat /\ Later(t) \subseteq Keys
  BY KeysAssumption DEF Later
<1> QED
  BY <1>1, MinIsIn

-----------------------------------------------------------------------------
\* Types

\* At the start every list is empty and nobody calls.
LEMMA TypesAtTheStart == Init => Typed
<1> SUFFICES ASSUME Init PROVE Typed
  OBVIOUS
<1>1. NoRow \in Rows /\ Recoveree \in Rows /\ Recoveree # NoRow /\ Present(Recoveree)
  BY NobodyAssumption DEF NoRow, Recoveree, Rows, Values, Marks, Present, FirstLsn
<1>2. TypeOK
  <2>1. rows \in [Keys -> Rows] /\ \A k \in Keys : ~Present(rows[k]) => rows[k] = NoRow
    BY <1>1 DEF Init
  <2>2. call \in [Txns -> [kind : Kinds \cup {"none"}, key : Keys, ver : Nat, stale : BOOLEAN]]
    BY KeysAssumption DEF Init, NoCall
  <2>3. ops \in [Txns -> Seq(Ops)] /\ todo \in [Txns -> Seq(Ops)]
    BY DEF Init
  <2>4. pc \in [Txns -> Points] /\ made \in [Txns -> Nat] /\ to_lock \in [Txns -> SUBSET Pickets]
    BY DEF Init, Points
  <2>5. /\ exclusive \in Txns \cup {NoTxn} /\ sharers \in SUBSET Txns
        /\ mutex \in [Pickets -> Txns \cup {NoTxn}]
    BY DEF Init
  <2>6. next_lsn \in Nat /\ ver_num \in Nat /\ corrupt \in BOOLEAN
    <3>1. corrupt \in BOOLEAN
      BY DEF Init
    <3>2. next_lsn = FirstLsn + 1 /\ ver_num = 0
      BY DEF Init
    <3> QED
      BY <3>1, <3>2 DEF FirstLsn
  <2>7. /\ freed \in SUBSET Keys /\ missed \in SUBSET Txns /\ dead \in SUBSET Mortal
        /\ retouched \in SUBSET Keys /\ twisted \in SUBSET Keys
    <3>1. \A S : {} \in SUBSET S
      OBVIOUS
    <3>2. freed = {} /\ missed = {} /\ dead = {} /\ retouched = {} /\ twisted = {}
      BY DEF Init
    <3> QED
      BY <3>1, <3>2
  <2> QED
    BY <2>1, <2>2, <2>3, <2>4, <2>5, <2>6, <2>7 DEF TypeOK
<1>3. Lists
  BY DEF Init, Lists, ListsOf, Range
<1>4. CallsAre
  BY DEF Init, CallsAre
<1> QED
  BY <1>2, <1>3, <1>4 DEF Typed

\* The region's part of TypeOK.
RowsTyped ==
    /\ rows \in [Keys -> Rows]
    /\ \A k \in Keys : ~Present(rows[k]) => rows[k] = NoRow
    /\ ver_num \in Nat /\ freed \in SUBSET Keys
LocksTyped ==
    /\ exclusive \in Txns \cup {NoTxn} /\ sharers \in SUBSET Txns
    /\ mutex \in [Pickets -> Txns \cup {NoTxn}]
\* The calls that there can be.
Called == [kind : Kinds \cup {"none"}, key : Keys, ver : Nat, stale : BOOLEAN]
\* The threads' part, beside their lists.
ThreadsTyped ==
    /\ pc \in [Txns -> Points]
    /\ call \in [Txns -> Called]
    /\ made \in [Txns -> Nat] /\ to_lock \in [Txns -> SUBSET Pickets]
    /\ missed \in SUBSET Txns
    /\ retouched \in SUBSET Keys /\ twisted \in SUBSET Keys /\ corrupt \in BOOLEAN
ListsTyped ==
    /\ next_lsn \in Nat /\ Lists
    /\ ops \in [Txns -> Seq(Ops)] /\ todo \in [Txns -> Seq(Ops)]

\* Typed, part by part.
LEMMA TypedParts ==
    Typed <=>
        /\ RowsTyped /\ LocksTyped /\ ThreadsTyped /\ ListsTyped /\ CallsAre
        /\ dead \in SUBSET Mortal
BY DEF Typed, TypeOK, RowsTyped, LocksTyped, ThreadsTyped, ListsTyped, Called

\* The same after a step.
LEMMA NextTypedParts ==
    Typed' <=>
        /\ RowsTyped' /\ LocksTyped' /\ ThreadsTyped' /\ ListsTyped' /\ CallsAre'
        /\ dead' \in SUBSET Mortal
BY DEF Typed, TypeOK, RowsTyped, LocksTyped, ThreadsTyped, ListsTyped, Called

USE DEF map, locks, txn, ending, marks

\* Steps that leave rows alone.
LEMMA LocksStayTyped ==
    ASSUME Typed, NEW t \in Txns, Proceed(t) \/ Ask(t) \/ Die(t)
    PROVE  LocksTyped'
<1>1. MutexOf(t) \in Pickets /\ t # NoTxn
  BY NobodyAssumption DEF Typed, TypeOK, MutexOf
<1>2. LocksTyped
  BY DEF Typed, TypeOK, LocksTyped
<1> USE DEF LocksTyped
<1>3. CASE Seek(t)
  BY <1>1, <1>2, <1>3 DEF Seek, Leave, DropContainer
<1>4. CASE Advance(t)
  BY <1>1, <1>2, <1>4 DEF Advance, Leave, DropContainer
<1>5. CASE Act(t)
  BY <1>1, <1>2, <1>5 DEF Act, Leave, DropContainer
<1>6. CASE Insert(t)
  BY <1>1, <1>2, <1>6 DEF Insert, Leave, DropContainer
<1>7. CASE Sleep(t)
  BY <1>1, <1>2, <1>7 DEF Sleep
<1>8. CASE Reenter(t)
  BY <1>1, <1>2, <1>8 DEF Reenter, TakeContainer
<1>9. CASE Relock(t)
  BY <1>1, <1>2, <1>9 DEF Relock
<1>10. CASE Initialize(t)
  BY <1>1, <1>2, <1>10 DEF Initialize, TakeContainer
<1>11. CASE LockNext(t)
  BY <1>1, <1>2, <1>11 DEF LockNext
<1>12. CASE Apply(t)
  BY <1>2, <1>12 DEF Apply
<1>13. CASE Complete(t)
  BY <1>1, <1>2, <1>13 DEF Complete, DropContainer
<1>14. CASE CallFails(t)
  BY <1>1, <1>2, <1>14 DEF CallFails, Leave, DropContainer
<1>15. CASE CommitFails(t) \/ RollbackFails(t) \/ Die(t)
  BY <1>2, <1>15 DEF CommitFails, RollbackFails, Fail, Die
<1>16. CASE Ask(t)
  <2>1. PICK kind \in Kinds, k \in Keys :
          Timeout(t) \/ WriteRecord(t) \/ Rollback(t) \/ Enter(t, kind, k)
    BY <1>16, KeysAssumption DEF Ask
  <2> QED
    BY <1>1, <1>2, <2>1 DEF Timeout, WriteRecord, Rollback, Enter, TakeContainer
<1> QED
  BY <1>3, <1>4, <1>5, <1>6, <1>7, <1>8, <1>9, <1>10, <1>11, <1>12, <1>13, <1>14, <1>15,
     <1>16
  DEF Proceed

\* Each thread's point, call and bookkeeping.
LEMMA ThreadsStayTyped ==
    ASSUME Typed, NEW t \in Txns, Proceed(t) \/ Ask(t) \/ Die(t)
    PROVE  ThreadsTyped'
<1>1. ThreadsTyped /\ ver_num \in Nat
  BY DEF Typed, TypeOK, ThreadsTyped, Called
<1>2. NoCall \in Called /\ call \in [Txns -> Called]
  BY <1>1, KeysAssumption DEF NoCall, Called, ThreadsTyped
<1>a. \A s \in Txns : call[s].key \in Keys
  BY <1>2 DEF Called
<1>3. CASE Seek(t)
  <2>1. \A m \in Keys : [call EXCEPT ![t].key = m] \in [Txns -> Called]
    BY <1>2 DEF Called
  <2>2. [call EXCEPT ![t].stale = FALSE] \in [Txns -> Called]
    BY <1>2 DEF Called
  <2>3. call' \in [Txns -> Called]
    BY <1>2, <1>3, <2>1, <2>2, KeysAhead DEF Seek, Leave
  <2>4. pc' \in [Txns -> Points]
    BY <1>1, <1>3 DEF Seek, Leave, Goto, Points, ThreadsTyped
  <2> QED
    BY <1>1, <1>3, <2>3, <2>4 DEF Seek, ThreadsTyped
<1>4. CASE Advance(t)
  <2>1. \A m \in Keys : [call EXCEPT ![t].key = m] \in [Txns -> Called]
    BY <1>2 DEF Called
  <2>3. call' \in [Txns -> Called]
    BY <1>2, <1>4, <2>1, KeysAhead DEF Advance, Leave
  <2>4. pc' \in [Txns -> Points]
    BY <1>1, <1>4 DEF Advance, Leave, Goto, Points, ThreadsTyped
  <2> QED
    BY <1>1, <1>4, <2>3, <2>4 DEF Advance, ThreadsTyped
<1>5. CASE Act(t)
  <2>1. [call EXCEPT ![t].ver = ver_num] \in [Txns -> Called]
    BY <1>1, <1>2 DEF Called
  <2>3. call' \in [Txns -> Called]
    BY <1>2, <1>5, <2>1 DEF Act, Leave
  <2>4. pc' \in [Txns -> Points]
    BY <1>1, <1>5 DEF Act, Leave, Goto, Points, ThreadsTyped
  <2>5. twisted' \in SUBSET Keys
    BY <1>1, <1>a, <1>5 DEF Act, ThreadsTyped
  <2> QED
    BY <1>1, <1>5, <2>3, <2>4, <2>5 DEF Act, ThreadsTyped
<1>6. CASE Insert(t)
  BY <1>1, <1>2, <1>a, <1>6, ZenonT(60) DEF Insert, Leave, Points, ThreadsTyped, Goto
<1>7. CASE Sleep(t)
  BY <1>1, <1>7 DEF Sleep, Points, ThreadsTyped, Goto
<1>8. CASE Reenter(t)
  BY <1>1, <1>8 DEF Reenter, Points, ThreadsTyped, Goto
<1>9. CASE Relock(t)
  BY <1>1, <1>9 DEF Relock, Points, ThreadsTyped, Goto
<1>10. CASE Initialize(t)
  <2>1. Needed(t) \in SUBSET Pickets
    <3>1. \A i \in DOMAIN ops[t] : ops[t][i] \in Ops
      <4>1. ops[t] \in Seq(Ops)
        BY DEF Typed, TypeOK
      <4> QED
        BY <4>1
    <3>2. KeysOf(t) \subseteq Keys
      BY <3>1 DEF KeysOf, Ops
    <3> QED
      BY <3>2 DEF Needed
  <2> QED
    BY <1>1, <1>10, <2>1 DEF Initialize, Points, During, ThreadsTyped, Goto
<1>11. CASE LockNext(t)
  BY <1>1, <1>11 DEF LockNext, ThreadsTyped
<1>12. CASE Apply(t)
  <2>0. \A s \in Txns : [call[s] EXCEPT !.stale = TRUE] \in Called
    BY <1>2 DEF Called
  <2>1. call' \in [Txns -> Called]
    BY <1>2, <1>12, <2>0 DEF Apply
  <2>2. Head(todo[t]).key \in Keys
    <3>1. Head(todo[t]) \in Ops
      <4>1. todo[t] \in Seq(Ops) /\ todo[t] # <<>>
        BY <1>12 DEF Apply, Typed, TypeOK
      <4> QED
        BY <4>1
    <3> QED
      BY <3>1 DEF Ops
  <2>3. retouched' \in SUBSET Keys
    BY <1>1, <1>12, <2>2 DEF Apply, ThreadsTyped
  <2> QED
    BY <1>1, <1>12, <2>1, <2>3 DEF Apply, ThreadsTyped
<1>13. CASE Complete(t)
  BY <1>1, <1>13 DEF Complete, Points, ThreadsTyped
<1>14. CASE CallFails(t)
  BY <1>1, <1>2, <1>14 DEF CallFails, Leave, Points, ThreadsTyped, Goto
<1>15. CASE CommitFails(t) \/ RollbackFails(t) \/ Die(t)
  BY <1>1, <1>15 DEF CommitFails, RollbackFails, Fail, Die, Points, ThreadsTyped, Goto
<1>16. CASE Timeout(t) \/ WriteRecord(t) \/ Rollback(t)
  BY <1>1, <1>2, <1>16 DEF Timeout, WriteRecord, Rollback, Points, ThreadsTyped, Goto
<1>17. ASSUME NEW kind \in Kinds, NEW k \in Keys, Enter(t, kind, k)
       PROVE  ThreadsTyped'
  <2>1. [kind |-> kind, key |-> k, ver |-> ver_num, stale |-> FALSE] \in Called
    BY <1>1 DEF Called
  <2>2. call' \in [Txns -> Called]
    BY <1>2, <1>17, <2>1 DEF Enter
  <2>3. pc' \in [Txns -> Points]
    BY <1>1, <1>17 DEF Enter, ThreadsTyped, Goto, Points
  <2>4. made' \in [Txns -> Nat]
    <3>1. made \in [Txns -> Nat] /\ made[t] + 1 \in Nat
      BY <1>1 DEF ThreadsTyped
    <3> QED
      BY <1>17, <3>1 DEF Enter
  <2> QED
    BY <1>1, <1>17, <2>2, <2>3, <2>4 DEF Enter, ThreadsTyped
<1> QED
  BY <1>3, <1>4, <1>5, <1>6, <1>7, <1>8, <1>9, <1>10, <1>11, <1>12, <1>13, <1>14, <1>15,
     <1>16,
     <1>17
  DEF Proceed, Ask

\* The points of calls.
LEMMA CallsStay ==
    ASSUME Typed, NEW t \in Txns, Proceed(t) \/ Ask(t) \/ Die(t)
    PROVE  CallsAre'
<1>1. ThreadsTyped /\ CallsAre
  BY DEF Typed, TypeOK, ThreadsTyped, Called
<1> USE DEF ThreadsTyped, Goto, CallsAre, Called
<1>3. CASE Seek(t)
  BY <1>1, <1>3 DEF Seek, Leave
<1>4. CASE Advance(t)
  BY <1>1, <1>4 DEF Advance, Leave
<1>5. CASE Act(t)
  BY <1>1, <1>5 DEF Act, Leave
<1>6. CASE Insert(t)
  BY <1>1, <1>6 DEF Insert, Leave
<1>7. CASE Sleep(t)
  BY <1>1, <1>7 DEF Sleep
<1>8. CASE Reenter(t)
  BY <1>1, <1>8 DEF Reenter
<1>9. CASE Relock(t)
  BY <1>1, <1>9 DEF Relock
<1>10. CASE Initialize(t)
  BY <1>1, <1>10 DEF Initialize, During
<1>11. CASE LockNext(t)
  BY <1>1, <1>11 DEF LockNext
<1>12. CASE Apply(t)
  BY <1>1, <1>12, ZenonT(60) DEF Apply
<1>13. CASE Complete(t)
  BY <1>1, <1>13 DEF Complete
<1>14. CASE CallFails(t)
  BY <1>1, <1>14 DEF CallFails, Leave
<1>15. CASE CommitFails(t) \/ RollbackFails(t) \/ Die(t)
  BY <1>1, <1>15 DEF CommitFails, RollbackFails, Fail, Die
<1>16. CASE Ask(t)
  <2>1. PICK kind \in Kinds, k \in Keys :
          Timeout(t) \/ WriteRecord(t) \/ Rollback(t) \/ Enter(t, kind, k)
    BY <1>16, KeysAssumption DEF Ask
  <2> QED
    BY <1>1, <2>1 DEF Timeout, WriteRecord, Rollback, Enter
<1> QED
  BY <1>3, <1>4, <1>5, <1>6, <1>7, <1>8, <1>9, <1>10, <1>11, <1>12, <1>13, <1>14, <1>15,
     <1>16
  DEF Proceed

\* Lists that nobody touches stay as they are, whatever is added to the log.
LEMMA UntouchedLists ==
    ASSUME NEW s \in Txns, ListsOf(s), ops'[s] = ops[s], todo'[s] = todo[s],
           \/ pc'[s] = pc[s]
           \/ pc'[s] \notin {"commit", "rollback", "committing", "rolling back", "done"},
           Range(log) \subseteq Range(log')
    PROVE  ListsOf(s)'
BY DEF ListsOf

\* Nor does the list of a thread that does one of its operations lose its type.
LEMMA OpsAreOps ==
    ASSUME Typed, NEW t \in Txns, NEW kind \in Marks \ {"none"}, NEW k \in Keys
    PROVE  Op(t, kind, k) \in Ops /\ Op(t, kind, k).val # NoValue
<1>1. rows[k] \in Rows
  BY DEF Typed, TypeOK
<1>2. rows[k].id \in Txns \cup Nat /\ rows[k].op \in Marks
  BY <1>1 DEF Rows
<1> QED
  BY <1>2, ValuesAre DEF Typed, Op, Ops

\* Lists of operations: each is made of operations, and what is still to be done is taken
\* from what has been done.
LEMMA ListsStayTyped ==
    ASSUME Typed, NEW t \in Txns, Proceed(t) \/ Ask(t) \/ Die(t)
    PROVE  ListsTyped'
<1>1. /\ next_lsn \in Nat /\ pc \in [Txns -> Points] /\ \A s \in Txns : ListsOf(s)
      /\ log \in Seq(Range(log)) /\ \A r \in Range(log) : r.lsn \in Nat
      /\ ops \in [Txns -> Seq(Ops)] /\ todo \in [Txns -> Seq(Ops)]
  BY DEF Typed, TypeOK, Lists
<1>2. ASSUME UNCHANGED <<next_lsn, log>>, \A s \in Txns : ListsOf(s)',
             ops' \in [Txns -> Seq(Ops)], todo' \in [Txns -> Seq(Ops)]
      PROVE  ListsTyped'
  BY <1>1, <1>2 DEF ListsTyped, Lists
<1>3. ASSUME UNCHANGED <<next_lsn, log, ops, todo>>,
             \A s \in Txns :
                \/ pc'[s] = pc[s]
                \/ pc'[s] \notin {"commit", "rollback", "committing", "rolling back", "done"}
      PROVE  ListsTyped'
  BY <1>1, <1>2, <1>3, UntouchedLists
<1>4. ASSUME NEW o \in Ops, o.val # NoValue, UNCHANGED <<next_lsn, log, todo>>,
             ops' = [ops EXCEPT ![t] = Append(@, o)], pc' = [pc EXCEPT ![t] = "active"]
      PROVE  ListsTyped'
  <2>1. ListsOf(t)'
    <3>1. ops[t] \in Seq(Ops) /\ \A p \in Range(ops[t]) : p.val # NoValue
      BY <1>1 DEF ListsOf
    <3>2. ops'[t] \in Seq(Ops) /\ Range(ops'[t]) = Range(ops[t]) \cup {o}
      BY <1>1, <1>4, <3>1, RangeOfAppend
    <3>3. pc'[t] = "active"
      BY <1>1, <1>4
    <3> QED
      BY <1>4, <3>1, <3>2, <3>3 DEF ListsOf
  <2>2. \A s \in Txns \ {t} : ListsOf(s)'
    BY <1>1, <1>4, UntouchedLists
  <2>3. Append(ops[t], o) \in Seq(Ops)
    BY <1>1, <1>4
  <2>4. ops' \in [Txns -> Seq(Ops)]
    BY <1>1, <1>4, <2>3
  <2> QED
    BY <1>1, <1>2, <1>4, <2>1, <2>2, <2>4
<1> USE DEF Goto
<1>5. CASE Seek(t) \/ Advance(t)
  BY <1>1, <1>3, <1>5 DEF Seek, Advance, Leave
<1>6. CASE Act(t)
  <2>1. CASE UNCHANGED ops
    BY <1>1, <1>3, <1>6, <2>1 DEF Act, Leave
  <2>2. ASSUME NEW kind \in {"lock", "update", "delete"}, Mark(t, call[t].key, kind),
               pc' = [pc EXCEPT ![t] = "active"]
        PROVE  ListsTyped'
    <3>1. kind \in Marks \ {"none"}
      BY DEF Marks
    <3>2. call[t].key \in Keys
      BY DEF Typed, TypeOK
    <3> QED
      <4> DEFINE o == Op(t, kind, call[t].key)
      <4>1. o \in Ops /\ o.val # NoValue
        BY <3>1, <3>2, OpsAreOps
      <4>2. ops' = [ops EXCEPT ![t] = Append(@, o)]
        BY <2>2 DEF Mark
      <4>3. UNCHANGED <<next_lsn, log, todo>>
        BY <1>6 DEF Act
      <4> QED
        BY <1>4, <2>2, <4>1, <4>2, <4>3
  <2> QED
    BY <1>6, <2>1, <2>2 DEF Act, Perform, Lock, Update, Erase, Leave
<1>7. CASE Insert(t)
  <2>1. CASE UNCHANGED ops
    BY <1>1, <1>3, <1>7, <2>1 DEF Insert, Leave
  <2>2. CASE ~UNCHANGED ops
    <3> DEFINE o == [Op(t, "insert", call[t].key) EXCEPT !.id = 0, !.op = "none"]
    <3>1. o \in Ops /\ o.val # NoValue
      BY ValuesAre DEF Typed, TypeOK, Op, Ops, Marks
    <3>2. ops' = [ops EXCEPT ![t] = Append(@, o)] /\ pc' = [pc EXCEPT ![t] = "active"]
      BY <1>7, <2>2 DEF Insert, Leave
    <3> QED
      BY <1>4, <1>7, <3>1, <3>2 DEF Insert
  <2> QED
    BY <2>1, <2>2
<1>8. CASE Sleep(t) \/ Reenter(t) \/ Relock(t)
  BY <1>1, <1>3, <1>8 DEF Sleep, Reenter, Relock
<1>9. CASE Initialize(t)
  <2>1. \A s \in Txns \ {t} : ListsOf(s)'
    BY <1>1, <1>9, UntouchedLists DEF Initialize
  <2>2. ListsOf(t)'
    <3>1. /\ ops'[t] = ops[t] /\ todo'[t] = todo[t] /\ log' = log
          /\ pc[t] \in {"commit", "rollback"}
          /\ pc'[t] = IF pc[t] = "commit" THEN "committing" ELSE "rolling back"
      BY <1>1, <1>9 DEF Initialize, During
    <3> QED
      BY <1>1, <3>1 DEF ListsOf
  <2> QED
    BY <1>1, <1>2, <1>9, <2>1, <2>2 DEF Initialize
<1>10. CASE LockNext(t)
  BY <1>1, <1>3, <1>10 DEF LockNext
<1>11. CASE Apply(t)
  <2>1. \A s \in Txns \ {t} : ListsOf(s)'
    BY <1>1, <1>11, UntouchedLists DEF Apply
  <2>2. ListsOf(t)'
    <3>1. /\ ops'[t] = ops[t] /\ todo'[t] = Tail(todo[t]) /\ log' = log /\ pc'[t] = pc[t]
          /\ pc[t] \in {"committing", "rolling back"} /\ todo[t] # <<>>
      BY <1>1, <1>11 DEF Apply, Ending
    <3>2. Tail(todo[t]) \in Seq(Ops) /\ Range(Tail(todo[t])) \subseteq Range(todo[t])
      BY <1>1, <3>1, RangeOfTail DEF ListsOf
    <3> QED
      BY <1>1, <3>1, <3>2 DEF ListsOf
  <2> QED
    <3>1. Tail(todo[t]) \in Seq(Ops)
      BY <1>1, <1>11, RangeOfTail DEF Apply
    <3>2. todo' \in [Txns -> Seq(Ops)] /\ UNCHANGED <<next_lsn, log, ops>>
      BY <1>1, <1>11, <3>1 DEF Apply
    <3> QED
      BY <1>1, <1>2, <2>1, <2>2, <3>2
<1>12. CASE Complete(t)
  <2>1. \A s \in Txns \ {t} : ListsOf(s)'
    BY <1>1, <1>12, UntouchedLists DEF Complete
  <2>2. ListsOf(t)'
    <3>1. ops'[t] = <<>> /\ todo'[t] = <<>> /\ pc'[t] = "done"
      BY <1>1, <1>12 DEF Complete
    <3> QED
      BY <3>1 DEF ListsOf, Range
  <2> QED
    BY <1>1, <1>2, <1>12, <2>1, <2>2 DEF Complete
<1>13. CASE CallFails(t) \/ CommitFails(t) \/ RollbackFails(t) \/ Die(t)
  BY <1>1, <1>3, <1>13 DEF CallFails, CommitFails, RollbackFails, Fail, Die, Leave
<1>14. CASE Timeout(t)
  BY <1>1, <1>3, <1>14 DEF Timeout
<1>15. CASE WriteRecord(t)
  <2> DEFINE r == [txn |-> t, lsn |-> next_lsn, changes |-> Logged(t)]
  <2>1. log \in Seq(Range(log) \cup {r})
    BY <1>1
  <2>2. log' = Append(log, r) /\ next_lsn' = next_lsn + 1 /\ r.txn = t /\ r.lsn \in Nat
    BY <1>1, <1>15 DEF WriteRecord
  <2> HIDE DEF r
  <2>3. log' \in Seq(Range(log) \cup {r}) /\ Range(log') = Range(log) \cup {r}
    BY <2>1, <2>2, RangeOfAppend
  <2>4. \A s \in Txns \ {t} : ListsOf(s)'
    BY <1>1, <1>15, <2>3, UntouchedLists DEF WriteRecord
  <2>5. ListsOf(t)'
    <3>1. ops'[t] = ops[t] /\ todo'[t] = ops[t] /\ pc'[t] = "commit"
      BY <1>1, <1>15 DEF WriteRecord
    <3> QED
      BY <1>1, <2>2, <2>3, <3>1 DEF ListsOf
  <2>6. next_lsn' \in Nat
    BY <1>1, <2>2
  <2> QED
    BY <1>1, <1>15, <2>2, <2>3, <2>4, <2>5, <2>6 DEF ListsTyped, Lists, WriteRecord
<1>16. CASE Rollback(t)
  <2>1. \A s \in Txns \ {t} : ListsOf(s)'
    BY <1>1, <1>16, UntouchedLists DEF Rollback
  <2>2. ListsOf(t)'
    <3>1. /\ ops'[t] = ops[t] /\ todo'[t] = Reverse(ops[t]) /\ log' = log
          /\ pc'[t] = IF ops[t] = <<>> THEN "done" ELSE "rollback"
      BY <1>1, <1>16 DEF Rollback
    <3>2. Reverse(ops[t]) \in Seq(Ops) /\ Range(Reverse(ops[t])) \subseteq Range(ops[t])
      BY <1>1, RangeOfReverse DEF ListsOf
    <3>3. ops[t] = <<>> => Reverse(ops[t]) = <<>>
      BY DEF Reverse
    <3> QED
      BY <1>1, <3>1, <3>2, <3>3 DEF ListsOf
  <2> QED
    BY <1>1, <1>2, <1>16, <2>1, <2>2, RangeOfReverse DEF Rollback
<1>17. ASSUME NEW kind \in Kinds, NEW k \in Keys, Enter(t, kind, k)
       PROVE  ListsTyped'
  BY <1>1, <1>3, <1>17 DEF Enter
<1> QED
  BY <1>5, <1>6, <1>7, <1>8, <1>9, <1>10, <1>11, <1>12, <1>13, <1>14, <1>15, <1>16, <1>17
  DEF Proceed, Ask

\* Rows: one that is not there has no mark, and no mark is set on such a one.
LEMMA RowsStayTyped ==
    ASSUME Typed, RowsAreThere, NEW t \in Txns, Proceed(t) \/ Ask(t) \/ Die(t)
    PROVE  RowsTyped'
<1>1. RowsTyped /\ call[t].key \in Keys
  BY DEF Typed, TypeOK, RowsTyped
<1>2. NoRow \in Rows /\ ~Present(NoRow)
  BY DEF NoRow, Rows, Values, Marks, Present
<1>3. ASSUME NEW k \in Keys, NEW w \in Rows, Present(w) \/ w = NoRow,
             rows' = [rows EXCEPT ![k] = w]
      PROVE  rows' \in [Keys -> Rows] /\ \A j \in Keys : ~Present(rows'[j]) => rows'[j] = NoRow
  BY <1>1, <1>3 DEF RowsTyped
<1>4. ASSUME NEW k \in Keys, Present(rows[k]), NEW v \in Values \ {NoValue}, NEW m \in Marks,
             NEW n \in Txns \cup Nat
      PROVE  /\ [rows[k] EXCEPT !.op = m, !.id = n] \in Rows
             /\ Present([rows[k] EXCEPT !.op = m, !.id = n])
             /\ [rows[k] EXCEPT !.val = v] \in Rows /\ Present([rows[k] EXCEPT !.val = v])
             /\ [rows[k] EXCEPT !.val = v, !.op = m, !.id = n] \in Rows
             /\ Present([rows[k] EXCEPT !.val = v, !.op = m, !.id = n])
  <2>1. rows[k] \in Rows
    BY <1>1 DEF RowsTyped
  <2> QED
    BY <1>4, <2>1 DEF Rows, Present
<1>5. Value(t) \in Values \ {NoValue}
  BY ValuesAre DEF Typed
<1>6. CASE UNCHANGED map
  BY <1>1, <1>6 DEF RowsTyped, Present
<1>7. CASE Act(t)
  <2> DEFINE k == call[t].key
  <2>1. Present(rows[k]) /\ UNCHANGED <<ver_num, freed>>
    BY <1>7 DEF Act, RowsAreThere
  <2>2. ASSUME NEW m \in Marks, Mark(t, k, m)
        PROVE  RowsTyped'
    <3>1. rows' = [rows EXCEPT ![k] = [rows[k] EXCEPT !.op = m, !.id = t]]
      BY <1>1, <2>2 DEF Mark, RowsTyped
    <3> QED
      BY <1>1, <1>3, <1>4, <1>5, <2>1, <3>1 DEF RowsTyped
  <2>3. ASSUME rows' = [rows EXCEPT ![k].val = Value(t)]
        PROVE  RowsTyped'
    <3>1. rows' = [rows EXCEPT ![k] = [rows[k] EXCEPT !.val = Value(t)]]
      BY <1>1, <2>3 DEF RowsTyped
    <3> QED
      BY <1>1, <1>3, <1>4, <1>5, <2>1, <3>1 DEF RowsTyped, Marks
  <2> QED
    BY <1>6, <1>7, <2>1, <2>2, <2>3 DEF Act, Perform, Lock, Update, Erase, Marks
<1>8. CASE Insert(t)
  <2> DEFINE new == [val |-> Value(t), op |-> "insert", id |-> t, placed |-> FALSE]
  <2>1. new \in Rows /\ Present(new)
    BY <1>5 DEF Rows, Present, Marks
  <2> QED
    BY <1>1, <1>3, <1>6, <1>8, <2>1 DEF Insert, RowsTyped
<1>9. CASE Apply(t)
  <2> DEFINE o == Head(todo[t])  k == o.key
  <2>1. o \in Ops /\ o \in Range(todo[t])
    <3>1. todo[t] \in Seq(Ops) /\ todo[t] # <<>>
      BY <1>9 DEF Apply, Typed, TypeOK
    <3> QED
      BY <3>1 DEF Range
  <2>2. k \in Keys /\ o.val \in Values /\ o.id \in Txns \cup Nat /\ o.op \in Marks
    BY <2>1 DEF Ops
  <2>3. o.val # NoValue
    BY <1>9, <2>1 DEF Apply, Ending, Typed, Lists, ListsOf
  <2> HIDE DEF o
  <2>4. ASSUME Present(rows[k]), NEW v \in Values \ {NoValue}, NEW m \in Marks,
               NEW n \in Txns \cup Nat, Unlocked(k, v, n, m)
        PROVE  RowsTyped'
    <3>1. rows' = [rows EXCEPT ![k] = [rows[k] EXCEPT !.val = v, !.op = m, !.id = n]]
      BY <1>1, <2>2, <2>4 DEF Unlocked, RowsTyped
    <3>2. /\ [rows[k] EXCEPT !.val = v, !.op = m, !.id = n] \in Rows
          /\ Present([rows[k] EXCEPT !.val = v, !.op = m, !.id = n])
      BY <1>4, <2>2, <2>4
    <3>3. UNCHANGED <<ver_num, freed>>
      BY <2>4 DEF Unlocked
    <3> QED
      BY <1>1, <1>3, <2>2, <3>1, <3>2, <3>3 DEF RowsTyped
  <2>5. ASSUME Removed(k), ver_num' \in Nat, freed' \in SUBSET Keys
        PROVE  RowsTyped'
    BY <1>1, <1>2, <1>3, <2>2, <2>5 DEF Removed, RowsTyped
  <2>6. Present(rows[k]) => rows[k].val \in Values \ {NoValue}
    BY <1>1, <2>2 DEF RowsTyped, Rows, Present
  <2>7. CASE ~Present(rows[k])
    BY <1>6, <1>9, <2>7 DEF Apply, o
  <2>8. CASE Present(rows[k]) /\ pc[t] = "committing"
    <3> DEFINE lsn == (CHOOSE r \in Range(log) : r.txn = t).lsn
    <3>1. lsn \in Nat
      BY <2>8 DEF Typed, Lists, ListsOf
    <3> HIDE DEF lsn
    <3>2. CommitOp(t, o)
      BY <1>9, <2>8 DEF Apply, o
    <3>3. CASE UNCHANGED map
      BY <1>6, <3>3
    <3>4. CASE Unlocked(k, rows[k].val, lsn, "none") \/ Unlocked(k, o.val, lsn, "none")
      BY <2>2, <2>3, <2>4, <2>6, <2>8, <3>1, <3>4 DEF Marks
    <3>5. CASE Unlocked(k, rows[k].val, o.id, "none")
      BY <2>2, <2>4, <2>6, <2>8, <3>5 DEF Marks
    <3>6. CASE Removed(k) /\ freed' = freed \cup FreedBy(k) /\ ver_num' = ver_num + 1
      <4>1. FreedBy(k) \in SUBSET Keys
        BY <2>2 DEF FreedBy
      <4>2. ver_num' \in Nat
        BY <1>1, <3>6 DEF RowsTyped
      <4>3. freed' = freed \cup FreedBy(k) /\ freed \in SUBSET Keys
        BY <1>1, <3>6 DEF RowsTyped
      <4>4. freed' \in SUBSET Keys
        BY <4>1, <4>3
      <4> QED
        BY <2>5, <3>6, <4>2, <4>4
    <3> QED
      BY <3>2, <3>3, <3>4, <3>5, <3>6 DEF CommitOp, lsn
  <2>9. CASE Present(rows[k]) /\ pc[t] # "committing"
    <3>1. RollbackOp(o)
      BY <1>9, <2>9 DEF Apply, o
    <3>2. CASE o.kind = "insert"
      BY <1>1, <2>5, <3>1, <3>2 DEF RollbackOp, RowsTyped
    <3>3. CASE o.kind # "insert"
      BY <2>2, <2>4, <2>6, <2>9, <3>1, <3>3 DEF RollbackOp
    <3> QED
      BY <3>2, <3>3
  <2> QED
    BY <2>7, <2>8, <2>9
<1> QED
  BY <1>6, <1>7, <1>8, <1>9
  DEF Proceed, Ask, Seek, Advance, Sleep, Timeout, Reenter, Relock, WriteRecord, Rollback,
      Initialize, LockNext, Complete, Die, CallFails, CommitFails, RollbackFails, Fail, Enter

\* What a thread or its caller does, and the death of its process, keep all types.
LEMMA TypesHold ==
    ASSUME Typed, RowsAreThere, NEW t \in Txns, Proceed(t) \/ Ask(t) \/ Die(t)
    PROVE  Typed'
<1>1. dead' \in SUBSET Mortal
  BY DEF Proceed, Ask, Die, Typed, TypeOK
<1>2. RowsTyped' /\ LocksTyped' /\ ThreadsTyped' /\ ListsTyped' /\ CallsAre'
  BY RowsStayTyped, LocksStayTyped, ThreadsStayTyped, ListsStayTyped, CallsStay
<1> QED
  BY <1>1, <1>2, NextTypedParts

-----------------------------------------------------------------------------
\* Locks

\* A thread that does nothing keeps what it holds, if others take only what is free and
\* release only what is theirs.
LEMMA OthersHold ==
    ASSUME NEW s \in Txns, HoldsOf(s),
           pc'[s] = pc[s] \/ (pc[s] = "asleep" /\ pc'[s] = "woken"),
           call'[s].kind = call[s].kind, call'[s].key = call[s].key,
           ops'[s] = ops[s], to_lock'[s] = to_lock[s],
           exclusive = s => exclusive' = s, s \in sharers => s \in sharers',
           \A n \in Pickets : mutex[n] = s => mutex'[n] = s,
           MutexOf(s) \in Pickets, KeysOf(s) \subseteq Keys
    PROVE  HoldsOf(s)'
<1>1. MutexOf(s)' = MutexOf(s) /\ KeysOf(s)' = KeysOf(s)
  BY DEF MutexOf, KeysOf
<1>2. \A k \in KeysOf(s) : Picket[k] \in Pickets
  OBVIOUS
<1> QED
  BY <1>1, <1>2 DEF HoldsOf, Ending

\* Rows of which there are operations are rows, and so is the row that is called.
LEMMA KeysAreKeys ==
    ASSUME Typed, NEW t \in Txns
    PROVE  /\ KeysOf(t) \subseteq Keys /\ KeysToDo(t) \subseteq Keys
           /\ MutexOf(t) \in Pickets /\ call[t].key \in Keys
<1>1. ops[t] \in Seq(Ops) /\ todo[t] \in Seq(Ops) /\ call[t].key \in Keys
  BY DEF Typed, TypeOK
<1>2. /\ \A i \in DOMAIN ops[t] : ops[t][i] \in Ops
      /\ (\A i \in DOMAIN todo[t] : todo[t][i] \in Ops)
  BY <1>1
<1> QED
  BY <1>1, <1>2 DEF KeysOf, KeysToDo, MutexOf, Ops

\* The container's lock is held by one, or shared.
LEMMA ContainerIsLocked ==
    ASSUME Typed, Holds, NEW t \in Txns, Proceed(t) \/ Ask(t) \/ Die(t)
    PROVE  exclusive' # NoTxn => sharers' = {}
BY DEF Holds, Proceed, Ask, Seek, Advance, Act, Insert, Sleep, Timeout, Reenter, Relock,
   WriteRecord,
       Rollback, Initialize, LockNext, Apply, Complete, Die, CallFails, CommitFails, RollbackFails,
       Fail, Enter, Leave, DropContainer, TakeContainer, MayShare, MayExclude

\* What a step does to the locks of others: nothing.
LEMMA OthersStay ==
    ASSUME Typed, Holds, NEW t \in Txns, Proceed(t) \/ Ask(t) \/ Die(t), NEW s \in Txns \ {t}
    PROVE  /\ pc'[s] = pc[s] \/ (pc[s] = "asleep" /\ pc'[s] = "woken")
           /\ call'[s].kind = call[s].kind /\ call'[s].key = call[s].key
           /\ ops'[s] = ops[s] /\ to_lock'[s] = to_lock[s]
           /\ exclusive = s => exclusive' = s
           /\ s \in sharers => s \in sharers'
           /\ \A n \in Pickets : mutex[n] = s => mutex'[n] = s
<1>1. /\ pc \in [Txns -> Points] /\ DOMAIN call = Txns /\ DOMAIN ops = Txns
      /\ DOMAIN to_lock = Txns
      /\ mutex \in [Pickets -> Txns \cup {NoTxn}] /\ MutexOf(t) \in Pickets /\ NoTxn # s
      /\ pc[t] \in {"at", "dozing"} => mutex[MutexOf(t)] = t
  BY NobodyAssumption, KeysAreKeys DEF Typed, TypeOK, Holds, HoldsOf
<1> USE DEF Goto
<1>2. CASE Seek(t)
  BY <1>1, <1>2 DEF Seek, Leave, DropContainer
<1>3. CASE Advance(t)
  BY <1>1, <1>3 DEF Advance, Leave, DropContainer
<1>4. CASE Act(t)
  <2>1. ops'[s] = ops[s]
    <3>1. CASE UNCHANGED ops
      BY <3>1
    <3>2. CASE \E o : ops' = [ops EXCEPT ![t] = Append(@, o)]
      BY <1>1, <3>2
    <3> QED
      BY <1>4, <3>1, <3>2 DEF Act, Perform, Lock, Update, Erase, Mark
  <2>2. call'[s] = call[s] /\ pc'[s] = pc[s] /\ to_lock' = to_lock
    BY <1>1, <1>4 DEF Act, Leave
  <2>3. /\ exclusive = s => exclusive' = s
        /\ s \in sharers => s \in sharers'
        /\ \A n \in Pickets : mutex[n] = s => mutex'[n] = s
    BY <1>1, <1>4 DEF Act, Leave, DropContainer
  <2> QED
    BY <2>1, <2>2, <2>3
<1>5. CASE Insert(t)
  BY <1>1, <1>5 DEF Insert, Leave, DropContainer
<1>6. CASE Sleep(t)
  BY <1>1, <1>6 DEF Sleep
<1>7. CASE Timeout(t)
  BY <1>1, <1>7 DEF Timeout
<1>8. CASE Reenter(t)
  BY <1>1, <1>8 DEF Reenter, TakeContainer, MayShare, MayExclude
<1>9. CASE Relock(t)
  BY <1>1, <1>9 DEF Relock
<1>10. CASE WriteRecord(t) \/ Rollback(t)
  BY <1>1, <1>10 DEF WriteRecord, Rollback
<1>11. CASE Initialize(t)
  BY <1>1, <1>11 DEF Initialize, TakeContainer, MayShare, MayExclude
<1>12. CASE LockNext(t)
  BY <1>1, <1>12 DEF LockNext
<1>13. CASE Apply(t)
  <2>1. call \in [Txns -> Called]
    BY DEF Typed, TypeOK, Called
  <2>2. [call[s] EXCEPT !.stale = TRUE].kind = call[s].kind
    BY <2>1 DEF Called
  <2>3. [call[s] EXCEPT !.stale = TRUE].key = call[s].key
    BY <2>1 DEF Called
  <2>4. call'[s] \in {call[s], [call[s] EXCEPT !.stale = TRUE]}
    BY <1>13 DEF Apply
  <2> QED
    BY <1>13, <2>2, <2>3, <2>4 DEF Apply
<1>14. CASE Complete(t)
  BY <1>1, <1>14 DEF Complete, DropContainer
<1>15. CASE CallFails(t)
  BY <1>1, <1>15 DEF CallFails, Leave, DropContainer
<1>16. CASE CommitFails(t) \/ RollbackFails(t) \/ Die(t)
  BY <1>1, <1>16 DEF CommitFails, RollbackFails, Fail, Die
<1>17. ASSUME NEW kind \in Kinds, NEW k \in Keys, Enter(t, kind, k)
       PROVE  /\ pc'[s] = pc[s] /\ call'[s] = call[s] /\ UNCHANGED <<ops, to_lock, mutex>>
              /\ exclusive = s => exclusive' = s
              /\ s \in sharers => s \in sharers'
  BY <1>1, <1>17 DEF Enter, TakeContainer, MayShare, MayExclude
<1> QED
  BY <1>2, <1>3, <1>4, <1>5, <1>6, <1>7, <1>8, <1>9, <1>10, <1>11, <1>12, <1>13, <1>14,
     <1>15, <1>16,
     <1>17
  DEF Proceed, Ask

\* A step does what its thread's locks allow, and leaves it with those that its point asks for.
LEMMA OwnLocks ==
    ASSUME Typed, Holds, NEW t \in Txns, Proceed(t) \/ Ask(t) \/ Die(t)
    PROVE  HoldsOf(t)'
<1>1. /\ pc \in [Txns -> Points] /\ DOMAIN call = Txns /\ DOMAIN ops = Txns
      /\ to_lock \in [Txns -> SUBSET Pickets]
      /\ mutex \in [Pickets -> Txns \cup {NoTxn}] /\ MutexOf(t) \in Pickets /\ NoTxn # t
  BY NobodyAssumption, KeysAreKeys DEF Typed, TypeOK
<1>2. HoldsOf(t)
  BY DEF Holds
<1> USE DEF Goto
<1>3. ASSUME pc'[t] \in {"active", "asleep", "woken", "commit", "rollback", "done"},
             to_lock'[t] = {}
      PROVE  HoldsOf(t)'
  BY <1>3 DEF HoldsOf, Ending
<1>4. pc[t] \notin {"committing", "rolling back", "failed"} => to_lock[t] = {}
  BY <1>2 DEF HoldsOf
<1>5. call \in [Txns -> Called]
  BY DEF Typed, TypeOK, Called
<1>6. CASE Seek(t)
  <2>1. to_lock'[t] = {}
    BY <1>4, <1>6 DEF Seek
  <2>2. CASE pc'[t] = "active"
    BY <1>3, <2>1, <2>2
  <2>3. CASE pc'[t] = "at"
    <3>1. t \in sharers /\ sharers' = sharers
      BY <1>1, <1>2, <1>6, <2>3 DEF Seek, HoldsOf, Leave
    <3>2. mutex'[MutexOf(t)] = t /\ call' = [call EXCEPT ![t].stale = FALSE]
      BY <1>1, <1>6, <2>3 DEF Seek, Leave
    <3>3. MutexOf(t)' = MutexOf(t)
      BY <1>5, <3>2 DEF MutexOf, Called
    <3> QED
      BY <2>1, <2>3, <3>1, <3>2, <3>3 DEF HoldsOf, Ending
  <2>4. CASE pc'[t] = "in"
    <3>1. t \in sharers /\ sharers' = sharers /\ call[t].kind # "insert"
      BY <1>1, <1>2, <1>6, <2>4 DEF Seek, HoldsOf, Leave
    <3>2. PICK k : call' = [call EXCEPT ![t].key = k]
      BY <1>1, <1>6, <2>4 DEF Seek, Leave
    <3>3. call'[t].kind = call[t].kind
      BY <1>5, <3>2 DEF Called
    <3> QED
      BY <2>1, <2>4, <3>1, <3>3 DEF HoldsOf, Ending
  <2> QED
    BY <1>1, <1>6, <2>2, <2>3, <2>4 DEF Seek, Leave
<1>7. CASE Advance(t)
  <2>1. to_lock'[t] = {}
    BY <1>4, <1>7 DEF Advance
  <2>2. CASE pc'[t] = "active"
    BY <1>3, <2>1, <2>2
  <2>3. CASE pc'[t] = "in"
    <3>1. t \in sharers /\ sharers' = sharers /\ call[t].kind = "scan"
      BY <1>1, <1>2, <1>7, <2>3 DEF Advance, HoldsOf, Leave
    <3>2. PICK k : call' = [call EXCEPT ![t].key = k]
      BY <1>1, <1>7, <2>3 DEF Advance, Leave
    <3>3. call'[t].kind = call[t].kind
      BY <1>5, <3>2 DEF Called
    <3> QED
      BY <2>1, <2>3, <3>1, <3>3 DEF HoldsOf, Ending
  <2> QED
    BY <1>1, <1>7, <2>2, <2>3 DEF Advance, Leave
<1>8. CASE Act(t)
  <2>1. to_lock'[t] = {}
    BY <1>4, <1>8 DEF Act
  <2>2. CASE pc'[t] = "active"
    BY <1>3, <2>1, <2>2
  <2>3. CASE pc'[t] = "dozing"
    <3>1. mutex'[MutexOf(t)] = t /\ call' = [call EXCEPT ![t].ver = ver_num]
      BY <1>1, <1>2, <1>8, <2>3 DEF Act, HoldsOf, Leave
    <3>2. MutexOf(t)' = MutexOf(t)
      BY <1>5, <3>1 DEF MutexOf, Called
    <3> QED
      BY <2>1, <2>3, <3>1, <3>2 DEF HoldsOf, Ending
  <2> QED
    BY <1>1, <1>8, <2>2, <2>3 DEF Act, Leave
<1>9. CASE Insert(t)
  <2>1. to_lock'[t] = {}
    BY <1>4, <1>9 DEF Insert
  <2>2. CASE pc'[t] = "active"
    BY <1>3, <2>1, <2>2
  <2>3. CASE pc'[t] = "dozing"
    <3>1. mutex'[MutexOf(t)] = t /\ call' = call
      BY <1>1, <1>9, <2>3 DEF Insert, Leave
    <3> QED
      BY <2>1, <2>3, <3>1 DEF HoldsOf, Ending, MutexOf
  <2> QED
    BY <1>1, <1>9, <2>2, <2>3 DEF Insert, Leave
<1>10. CASE Sleep(t)
  BY <1>1, <1>3, <1>4, <1>10 DEF Sleep
<1>11. CASE Timeout(t)
  BY <1>1, <1>3, <1>4, <1>11 DEF Timeout
<1>12. CASE Reenter(t)
  BY <1>1, <1>4, <1>12 DEF Reenter, TakeContainer, HoldsOf, Ending
<1>13. CASE Relock(t)
  <2>1. CASE pc' = pc
    BY <1>2, <1>13, <2>1 DEF Relock, HoldsOf, Ending
  <2>2. CASE pc'[t] = "at"
    BY <1>1, <1>2, <1>4, <1>13, <2>2 DEF Relock, HoldsOf, Ending, MutexOf
  <2> QED
    BY <1>1, <1>13, <2>1, <2>2 DEF Relock
<1>14. CASE WriteRecord(t) \/ Rollback(t)
  BY <1>1, <1>3, <1>4, <1>14 DEF WriteRecord, Rollback
<1>15. CASE Initialize(t)
  <2>1. /\ pc[t] \in {"commit", "rollback"} /\ ops' = ops
        /\ pc'[t] = IF pc[t] = "commit" THEN "committing" ELSE "rolling back"
    BY <1>1, <1>15 DEF Initialize, During
  <2>2. /\ Exclusive(t) => exclusive' = t /\ to_lock'[t] = {}
        /\ ~Exclusive(t) => t \in sharers' /\ to_lock'[t] = Needed(t)
    BY <1>1, <1>15 DEF Initialize, TakeContainer
  <2>3. \A o \in Range(ops[t]) :
           o.kind = (IF pc[t] = "commit" THEN "delete" ELSE "insert") => Exclusive(t)
    BY DEF Exclusive, Range
  <2>4. KeysOf(t)' = KeysOf(t) /\ \A k \in KeysOf(t) : Picket[k] \in Needed(t)
    BY <2>1 DEF KeysOf, Needed
  <2> QED
    BY <2>1, <2>2, <2>3, <2>4 DEF HoldsOf, Ending
<1>16. CASE LockNext(t)
  <2> DEFINE n == NextMutex(t)
  <2>1. /\ Ending(t) /\ to_lock[t] # {} /\ UNCHANGED <<pc, ops, exclusive, sharers, call>>
        /\ mutex' = [mutex EXCEPT ![n] = t] /\ to_lock'[t] = to_lock[t] \ {n}
    BY <1>1, <1>16 DEF LockNext
  <2>2. t \in sharers /\ \A k \in KeysOf(t) : Picket[k] \in to_lock[t] \/ mutex[Picket[k]] = t
    BY <1>2, <2>1 DEF HoldsOf
  <2> HIDE DEF n
  <2>3. \A k \in KeysOf(t) : Picket[k] \in to_lock'[t] \/ mutex'[Picket[k]] = t
    <3>1. KeysOf(t) \subseteq Keys
      BY KeysAreKeys
    <3>2. \A k \in KeysOf(t) : Picket[k] \in Pickets
      BY <3>1
    <3> QED
      BY <1>1, <2>1, <2>2, <3>2
  <2>4. KeysOf(t)' = KeysOf(t)
    BY <2>1 DEF KeysOf
  <2> QED
    BY <1>2, <2>1, <2>2, <2>3, <2>4 DEF HoldsOf, Ending
<1>17. CASE Apply(t)
  <2>1. UNCHANGED <<locks, pc, ops, to_lock>> /\ Ending(t)
    BY <1>17 DEF Apply
  <2>2. KeysOf(t)' = KeysOf(t)
    BY <2>1 DEF KeysOf
  <2> QED
    BY <1>2, <2>1, <2>2 DEF HoldsOf, Ending
<1>18. CASE Complete(t)
  BY <1>1, <1>3, <1>18 DEF Complete
<1>19. CASE CallFails(t)
  BY <1>1, <1>3, <1>4, <1>19 DEF CallFails, Leave
<1>20. CASE CommitFails(t) \/ RollbackFails(t)
  BY <1>1, <1>20 DEF CommitFails, RollbackFails, Fail, HoldsOf, Ending
<1>21. CASE Die(t)
  <2>1. UNCHANGED <<locks, pc, ops, to_lock, call>>
    BY <1>21 DEF Die
  <2> QED
    BY <1>2, <2>1 DEF HoldsOf, Ending, KeysOf, MutexOf
<1>22. ASSUME NEW kind \in Kinds, NEW k \in Keys, Enter(t, kind, k)
       PROVE  HoldsOf(t)'
  <2>1. pc'[t] = "in" /\ call'[t].kind = kind /\ to_lock'[t] = {}
    BY <1>1, <1>4, <1>22 DEF Enter
  <2>2. (kind = "insert" => exclusive' = t) /\ (kind # "insert" => t \in sharers')
    BY <1>22 DEF Enter, TakeContainer
  <2> QED
    BY <2>1, <2>2 DEF HoldsOf, Ending
<1> QED
  BY <1>6, <1>7, <1>8, <1>9, <1>10, <1>11, <1>12, <1>13, <1>14, <1>15, <1>16,
     <1>17, <1>18, <1>19, <1>20, <1>21, <1>22
  DEF Proceed, Ask

\* So everybody holds the locks that his point asks for.
LEMMA LocksAreHeld ==
    ASSUME Typed, Holds, NEW t \in Txns, Proceed(t) \/ Ask(t) \/ Die(t)
    PROVE  Holds'
<1>1. \A s \in Txns \ {t} : HoldsOf(s)'
  <2> SUFFICES ASSUME NEW s \in Txns \ {t} PROVE HoldsOf(s)'
    OBVIOUS
  <2>1. HoldsOf(s) /\ MutexOf(s) \in Pickets /\ KeysOf(s) \subseteq Keys
    BY KeysAreKeys DEF Holds
  <2> QED
    BY <2>1, OthersStay, OthersHold
<1> QED
  BY <1>1, OwnLocks, ContainerIsLocked DEF Holds

-----------------------------------------------------------------------------
\* Rows

\* The operation that Apply does next is of a row that its transaction has a claim on.
LEMMA NextOperation ==
    ASSUME Typed, NEW t \in Txns, Ending(t), todo[t] # <<>>
    PROVE  /\ Head(todo[t]) \in Ops /\ Head(todo[t]).key \in KeysToDo(t)
           /\ Head(todo[t]) \in Range(ops[t]) /\ Head(todo[t]).key \in KeysOf(t)
           /\ Head(todo[t]).val # NoValue
<1>1. todo[t] \in Seq(Ops) /\ Range(todo[t]) \subseteq Range(ops[t])
  BY DEF Typed, TypeOK, Lists, ListsOf, Ending
<1>2. 1 \in DOMAIN todo[t] /\ Head(todo[t]) = todo[t][1] /\ todo[t][1] \in Ops
  BY <1>1
<1>3. Head(todo[t]).key \in KeysToDo(t)
  BY <1>2 DEF KeysToDo
<1>4. Head(todo[t]) \in Range(ops[t])
  BY <1>1, <1>2 DEF Range
<1>5. Head(todo[t]).key \in KeysOf(t)
  BY <1>4 DEF KeysOf, Range
<1> QED
  BY <1>2, <1>3, <1>4, <1>5 DEF Typed, Lists, ListsOf

\* Three steps change rows: a call that has the mutex of the row and shares the container,
\* an insert that has the container, and a step of the end of a transaction.
MayMark(t, j) ==
    \/ /\ pc[t] = "at" /\ call[t].key = j /\ t \in sharers /\ mutex[Picket[j]] = t
       /\ ~HeldByOther(t, rows[j])
    \/ /\ pc[t] = "in" /\ call[t].key = j /\ exclusive = t
       /\ ~Present(rows[j]) \/ (rows[j].op = "delete" /\ rows[j].id = t)
Marked(t, j) ==
    /\ pc[t] = "at" /\ MayMark(t, j)
    /\ Present(rows[j]) /\ Present(rows'[j]) /\ rows'[j].op # "none" /\ rows'[j].id = t
Inserted(t, j) ==
    /\ pc[t] = "in" /\ MayMark(t, j)
    /\ Present(rows'[j]) /\ rows'[j].op # "none" /\ rows'[j].id = t
Applied(t, j) ==
    /\ Ending(t) /\ to_lock[t] = {} /\ todo[t] # <<>> /\ j = Head(todo[t]).key
    /\ Present(rows[j])
    /\ ~Present(rows'[j]) => exclusive = t

\* Nothing else changes a row.
LEMMA RowsChange ==
    ASSUME Typed, Holds, RowsAreThere, NEW t \in Txns, Proceed(t) \/ Ask(t) \/ Die(t),
           NEW j \in Keys, rows'[j] # rows[j]
    PROVE  \/ Act(t) /\ Marked(t, j)
           \/ Insert(t) /\ Inserted(t, j)
           \/ Apply(t) /\ Applied(t, j)
<1>1. rows \in [Keys -> Rows] /\ rows[j] \in Rows /\ HoldsOf(t) /\ call[t].key \in Keys
  BY DEF Typed, TypeOK, Holds
<1>2. Act(t) \/ Insert(t) \/ Apply(t)
  BY DEF Proceed, Ask, Seek, Advance, Sleep, Timeout, Reenter, Relock, WriteRecord,
     Rollback,
         Initialize, LockNext, Complete, Die, CallFails, CommitFails, RollbackFails, Fail, Enter
<1>3. CASE Act(t)
  <2>1. j = call[t].key
    BY <1>1, <1>3 DEF Act, Perform, Lock, Update, Erase, Mark
  <2>2. pc[t] = "at" /\ t \in sharers /\ mutex[Picket[j]] = t /\ Present(rows[j])
    BY <1>1, <1>3, <2>1 DEF Act, HoldsOf, MutexOf, RowsAreThere
  <2>3. ~HeldByOther(t, rows[j]) /\ Perform(t)
    BY <1>3, <2>1, <2>2 DEF Act, Contends, Typed, CallsAre, Perform
  <2>4. rows'[j].op # "none" /\ rows'[j].id = t /\ Present(rows'[j])
    <3>1. ASSUME NEW kind \in {"lock", "update", "delete"}, Mark(t, j, kind)
          PROVE  rows'[j].op = kind /\ rows'[j].id = t /\ Present(rows'[j])
      BY <1>1, <2>2, <3>1 DEF Mark, Rows, Present
    <3>2. ASSUME rows' = [rows EXCEPT ![j].val = Value(t)], rows[j].op = "insert"
          PROVE  rows'[j].op # "none" /\ rows'[j].id = t /\ Present(rows'[j])
      BY <1>1, <2>3, <3>2, ValuesAre DEF Rows, Present, HeldByOther, Typed
    <3> QED
      BY <2>1, <2>3, <3>1, <3>2 DEF Perform, Lock, Update, Erase
  <2> QED
    BY <1>3, <2>1, <2>2, <2>3, <2>4 DEF Marked, MayMark
<1>4. CASE Insert(t)
  <2> DEFINE new == [val |-> Value(t), op |-> "insert", id |-> t, placed |-> FALSE]
  <2>1. /\ pc[t] = "in" /\ call[t].kind = "insert" /\ ~Contends(t)
        /\ rows' = [rows EXCEPT ![call[t].key] = new]
        /\ ~Present(rows[call[t].key]) \/ rows[call[t].key].op = "delete"
    BY <1>4 DEF Insert
  <2>2. j = call[t].key /\ rows'[j] = new
    BY <1>1, <2>1
  <2>3. Present(new) /\ new.op # "none" /\ new.id = t
    BY ValuesAre DEF Present, Typed
  <2>4. exclusive = t
    BY <1>1, <2>1 DEF HoldsOf
  <2> QED
    BY <1>4, <2>1, <2>2, <2>3, <2>4 DEF Inserted, MayMark, Contends
<1>5. CASE Apply(t)
  <2> DEFINE o == Head(todo[t])
  <2>1. /\ Ending(t) /\ to_lock[t] = {} /\ todo[t] # <<>> /\ Present(rows[o.key])
        /\ IF pc[t] = "committing" THEN CommitOp(t, o) ELSE RollbackOp(o)
    BY <1>5 DEF Apply
  <2>2. /\ o.key \in Keys /\ o.val # NoValue
        /\ pc[t] = "committing" /\ o.kind = "delete" => exclusive = t
        /\ pc[t] = "rolling back" /\ o.kind = "insert" => exclusive = t
    <3>1. o \in Ops /\ o \in Range(ops[t]) /\ o.val # NoValue
      BY <2>1, NextOperation
    <3> QED
      BY <1>1, <3>1 DEF HoldsOf, Ops
  <2> HIDE DEF o
  <2>3. j = o.key
    BY <1>1, <2>1, <2>2 DEF CommitOp, RollbackOp, Unlocked, Removed
  <2>4. ASSUME NEW v, NEW n, NEW op, v # NoValue, Unlocked(o.key, v, n, op)
        PROVE  Present(rows'[j])
    BY <1>1, <2>3, <2>4 DEF Unlocked, Present, Rows
  <2>5. rows[j].val # NoValue
    BY <2>1, <2>3 DEF Present
  <2>6. ~Present(rows'[j]) => exclusive = t
    <3>1. CASE pc[t] = "committing"
      BY <2>1, <2>2, <2>3, <2>4, <2>5, <3>1 DEF CommitOp
    <3>2. CASE pc[t] # "committing"
      BY <2>1, <2>2, <2>3, <2>4, <2>5, <3>2 DEF RollbackOp, Ending
    <3> QED
      BY <3>1, <3>2
  <2> QED
    BY <1>5, <2>1, <2>3, <2>6 DEF Applied, o
<1> QED
  BY <1>2, <1>3, <1>4, <1>5

\* Only a commit or rollback touches the iterators of others.
LEMMA CallsOfOthers ==
    ASSUME Typed, NEW t \in Txns, Proceed(t) \/ Ask(t) \/ Die(t), NEW s \in Txns \ {t}
    PROVE  call'[s] = call[s] \/ Apply(t)
<1>1. DOMAIN call = Txns
  BY DEF Typed, TypeOK
<1>2. CASE call' = call
  BY <1>2
<1>3. CASE \E c : call' = [call EXCEPT ![t] = c]
  BY <1>1, <1>3
<1>4. CASE \E k : call' = [call EXCEPT ![t].key = k]
  BY <1>1, <1>4
<1>5. CASE \E b : call' = [call EXCEPT ![t].stale = b]
  BY <1>1, <1>5
<1>6. CASE \E v : call' = [call EXCEPT ![t].ver = v]
  BY <1>1, <1>6
<1>7. Seek(t) \/ Advance(t) =>
          \/ call' = call
          \/ \E c : call' = [call EXCEPT ![t] = c]
          \/ \E k : call' = [call EXCEPT ![t].key = k]
          \/ \E b : call' = [call EXCEPT ![t].stale = b]
  BY DEF Seek, Advance, Leave
<1>8. Act(t) \/ Insert(t) \/ Timeout(t) \/ CallFails(t) =>
          \/ call' = call
          \/ \E c : call' = [call EXCEPT ![t] = c]
          \/ \E v : call' = [call EXCEPT ![t].ver = v]
  BY DEF Act, Insert, Timeout, CallFails, Leave
<1>9. \A kind, k : Enter(t, kind, k) => \E c : call' = [call EXCEPT ![t] = c]
  BY DEF Enter
<1> QED
  BY <1>2, <1>3, <1>4, <1>5, <1>6, <1>7, <1>8, <1>9
  DEF Proceed, Ask, Sleep, Reenter, Relock, WriteRecord, Rollback,
      Initialize, LockNext, Complete, Die, CommitFails, RollbackFails, Fail

\* A row goes only by a step of the end of a transaction that has the container.
LEMMA RowsGo ==
    ASSUME Typed, Holds, RowsAreThere, NEW t \in Txns, Proceed(t) \/ Ask(t) \/ Die(t),
           NEW j \in Keys, Present(rows[j]), ~Present(rows'[j])
    PROVE  Apply(t) /\ exclusive = t /\ sharers = {} /\ j = Head(todo[t]).key
<1>1. rows'[j] # rows[j] /\ t # NoTxn
  BY NobodyAssumption
<1> QED
  BY <1>1, RowsChange DEF Applied, Marked, Inserted, Holds

\* So the iterators that are not stale keep their rows.
LEMMA RowsStayThere ==
    ASSUME Typed, Holds, RowsAreThere, NEW t \in Txns, Proceed(t) \/ Ask(t) \/ Die(t)
    PROVE  RowsAreThere'
<1> DEFINE There(s) ==
      /\ pc[s] = "at" => Present(rows[call[s].key])
      /\ pc[s] \in {"dozing", "asleep", "woken", "back"} /\ call[s].kind \in RowCalls
            /\ ~call[s].stale => Present(rows[call[s].key])
<1>1. \A s \in Txns : There(s) /\ HoldsOf(s) /\ call[s].key \in Keys
  BY KeysAreKeys DEF RowsAreThere, Holds
<1>2. call \in [Txns -> Called] /\ pc \in [Txns -> Points] /\ rows \in [Keys -> Rows]
  BY DEF Typed, TypeOK, Called
<1>3. ASSUME NEW s \in Txns \ {t}
      PROVE  There(s)'
  <2>1. /\ pc'[s] = pc[s] \/ (pc[s] = "asleep" /\ pc'[s] = "woken")
        /\ call'[s].kind = call[s].kind /\ call'[s].key = call[s].key
    BY OthersStay
  <2>2. CASE Present(rows[call[s].key]) => Present(rows'[call[s].key])
    <3>1. call[s].stale => call'[s].stale
      <4>1. [call[s] EXCEPT !.stale = TRUE].stale = TRUE
        BY <1>2 DEF Called
      <4>2. Apply(t) => call'[s] \in {call[s], [call[s] EXCEPT !.stale = TRUE]}
        BY DEF Apply
      <4> QED
        BY <4>1, <4>2, CallsOfOthers
    <3> QED
      BY <1>1, <2>1, <2>2, <3>1
  <2>3. CASE Present(rows[call[s].key]) /\ ~Present(rows'[call[s].key])
    <3>1. Apply(t) /\ sharers = {} /\ call[s].key = Head(todo[t]).key /\ pc' = pc
      BY <1>1, <2>3, RowsGo DEF Apply
    <3>2. pc[s] \notin {"at", "back"}
      BY <1>1, <3>1 DEF HoldsOf
    <3>3. call[s].kind \in RowCalls /\ pc[s] \in {"dozing", "asleep", "woken"} =>
             call'[s] = [call[s] EXCEPT !.stale = TRUE]
      BY <2>3, <3>1 DEF Apply
    <3>4. [call[s] EXCEPT !.stale = TRUE].stale = TRUE
      BY <1>2 DEF Called
    <3> QED
      BY <2>1, <3>1, <3>2, <3>3, <3>4
  <2> QED
    BY <2>2, <2>3
<1>4. There(t)'
  <2>1. CASE pc'[t] \notin {"at", "dozing", "asleep", "woken", "back"}
    BY <2>1
  <2>2. CASE UNCHANGED <<rows, call>> /\ (pc' = pc \/ Sleep(t))
    BY <1>1, <1>2, <2>2 DEF Sleep, Goto
  <2> USE DEF Goto
  <2>3. CASE Seek(t)
    <3>1. CASE pc'[t] = "at"
      <4>1. /\ Present(rows[call[t].key]) /\ rows' = rows
            /\ call' = [call EXCEPT ![t].stale = FALSE]
        BY <1>2, <2>3, <3>1 DEF Seek, Leave
      <4>2. call'[t].key = call[t].key
        BY <1>2, <4>1 DEF Called
      <4> QED
        BY <3>1, <4>1, <4>2
    <3>2. CASE pc'[t] # "at"
      BY <1>2, <2>1, <2>3, <3>2 DEF Seek, Leave
    <3> QED
      BY <3>1, <3>2
  <2>4. CASE Advance(t) \/ Timeout(t) \/ CallFails(t)
    BY <1>2, <2>1, <2>4 DEF Advance, Timeout, CallFails, Leave
  <2>5. CASE Act(t)
    <3>1. CASE pc'[t] = "active"
      BY <2>1, <3>1
    <3>2. CASE pc'[t] # "active"
      <4>1. /\ pc[t] = "at" /\ pc'[t] = "dozing" /\ rows' = rows
            /\ call' = [call EXCEPT ![t].ver = ver_num]
        BY <1>2, <2>5, <3>2 DEF Act, Leave
      <4>2. call'[t].key = call[t].key
        BY <1>2, <4>1 DEF Called
      <4> QED
        BY <1>1, <4>1, <4>2
    <3> QED
      BY <3>1, <3>2
  <2>6. CASE Insert(t)
    <3>1. CASE pc'[t] = "active"
      BY <2>1, <3>1
    <3>2. CASE pc'[t] # "active"
      <4>1. pc'[t] = "dozing" /\ call' = call /\ call[t].kind = "insert"
        BY <1>2, <2>6, <3>2 DEF Insert, Leave
      <4> QED
        BY <4>1
    <3> QED
      BY <3>1, <3>2
  <2>7. CASE Sleep(t)
    BY <2>2, <2>7 DEF Sleep
  <2>8. CASE Reenter(t)
    BY <1>1, <1>2, <2>8 DEF Reenter
  <2>9. CASE Relock(t)
    BY <1>1, <1>2, <2>9 DEF Relock, Typed, CallsAre
  <2>10. CASE WriteRecord(t) \/ Rollback(t) \/ Initialize(t) \/ CommitFails(t) \/ RollbackFails(t)
    BY <1>2, <2>1, <2>10
       DEF WriteRecord, Rollback, Initialize, During, CommitFails, RollbackFails, Fail
  <2>11. CASE LockNext(t) \/ Apply(t)
    BY <2>1, <2>11 DEF LockNext, Apply, Ending
  <2>12. CASE Complete(t)
    BY <1>2, <2>1, <2>12 DEF Complete
  <2>13. CASE Die(t)
    BY <2>2, <2>13 DEF Die
  <2>14. ASSUME NEW kind \in Kinds, NEW k \in Keys, Enter(t, kind, k)
         PROVE  pc'[t] = "in"
    BY <1>2, <2>14 DEF Enter
  <2> QED
    BY <2>1, <2>3, <2>4, <2>5, <2>6, <2>7, <2>8, <2>9, <2>10, <2>11, <2>12, <2>13, <2>14
    DEF Proceed, Ask
<1> QED
  BY <1>3, <1>4 DEF RowsAreThere

-----------------------------------------------------------------------------
\* Claims

\* Who may mark a row, or commits or rolls back its own operation on it, is the only one
\* with a claim on it.
LEMMA ClaimsAreRespected ==
    ASSUME Typed, Holds, ClaimsAreExclusive, ~corrupt, NEW j \in Keys,
           NEW t \in Txns, MayMark(t, j) \/ Applied(t, j), NEW s \in Txns \ {t}
    PROVE  j \notin Claimed(s)
<1>1. HoldsOf(s) /\ HoldsOf(t) /\ (exclusive # NoTxn => sharers = {}) /\ t # NoTxn /\ s # NoTxn
  BY NobodyAssumption DEF Holds
<1>2. Unsettled(s) /\ j \in KeysOf(s) => rows[j].op # "none" /\ rows[j].id = s
  BY DEF ClaimsAreExclusive
<1>3. ~Unsettled(s) /\ j \in KeysToDo(s) => Ending(s) /\ to_lock[s] = {} /\ j \in KeysOf(s)
  <2> SUFFICES ASSUME ~Unsettled(s), j \in KeysToDo(s)
               PROVE  Ending(s) /\ to_lock[s] = {} /\ j \in KeysOf(s)
    OBVIOUS
  <2>1. todo[s] # <<>> /\ todo[s] \in Seq(Ops)
    BY DEF KeysToDo, Typed, TypeOK
  <2>2. pc[s] \in {"committing", "rolling back"} /\ to_lock[s] = {}
    BY <2>1 DEF Unsettled, Unfinished, Typed, Lists, ListsOf
  <2>3. Range(todo[s]) \subseteq Range(ops[s])
    BY <2>2 DEF Typed, Lists, ListsOf
  <2>4. j \in KeysOf(s)
    BY <2>3 DEF KeysToDo, KeysOf, Range
  <2> QED
    BY <2>2, <2>4 DEF Ending
<1>4. CASE MayMark(t, j)
  <2>1. ~(Unsettled(s) /\ j \in KeysOf(s))
    <3>1. ~Present(rows[j]) => rows[j].op = "none"
      BY DEF Typed, TypeOK, NoRow
    <3> QED
      BY <1>2, <1>4, <3>1 DEF MayMark, HeldByOther
  <2>2. ~(~Unsettled(s) /\ j \in KeysToDo(s))
    BY <1>1, <1>3, <1>4 DEF MayMark, HoldsOf
  <2> QED
    BY <2>1, <2>2 DEF Claimed
<1>5. CASE Applied(t, j)
  <2>1. j \in KeysToDo(t)
    BY <1>5, NextOperation DEF Applied
  <2>2. Claimed(t) = KeysToDo(t)
    BY <1>5 DEF Claimed, Unsettled, Unfinished, Ending, Applied
  <2> QED
    BY <2>1, <2>2 DEF ClaimsAreExclusive
<1> QED
  BY <1>4, <1>5

\* What a transaction has a claim on after a step it had a claim on before, or may mark; and
\* it has marked what it has operations on, until it gives them up.
LEMMA OwnClaims ==
    ASSUME Typed, Holds, RowsAreThere, ClaimsAreExclusive, ~corrupt,
           NEW t \in Txns, Proceed(t) \/ Ask(t) \/ Die(t)
    PROVE  /\ \A j \in Claimed(t)' : j \in Claimed(t) \/ (j \in Keys /\ MayMark(t, j))
           /\ Unsettled(t)' => \A j \in KeysOf(t)' : rows'[j].op # "none" /\ rows'[j].id = t
<1>1. /\ KeysOf(t) \subseteq Keys /\ KeysToDo(t) \subseteq Keys /\ call[t].key \in Keys /\ HoldsOf(t)
      /\ ListsOf(t) /\ ops \in [Txns -> Seq(Ops)] /\ todo \in [Txns -> Seq(Ops)]
      /\ pc \in [Txns -> Points] /\ rows \in [Keys -> Rows] /\ to_lock \in [Txns -> SUBSET Pickets]
  BY KeysAreKeys DEF Holds, Typed, TypeOK, Lists
<1>2. Unsettled(t) => \A j \in KeysOf(t) : rows[j].op # "none" /\ rows[j].id = t
  BY DEF ClaimsAreExclusive
<1>3. \/ KeysToDo(t) \subseteq KeysOf(t)
      \/ pc[t] \notin {"commit", "rollback", "committing", "rolling back"}
  <2>1. /\ KeysOf(t) = {p.key : p \in Range(ops[t])}
        /\ KeysToDo(t) = {p.key : p \in Range(todo[t])}
    BY DEF KeysOf, KeysToDo, Range
  <2> QED
    BY <1>1, <2>1 DEF ListsOf
<1>4. ASSUME KeysOf(t)' = KeysOf(t), KeysToDo(t)' = KeysToDo(t), rows' = rows,
             Unsettled(t)' = Unsettled(t)
      PROVE  /\ \A j \in Claimed(t)' : j \in Claimed(t) \/ (j \in Keys /\ MayMark(t, j))
             /\ Unsettled(t)' => \A j \in KeysOf(t)' : rows'[j].op # "none" /\ rows'[j].id = t
  BY <1>2, <1>4 DEF Claimed
<1>5. ASSUME ops' = ops, todo' = todo
      PROVE  KeysOf(t)' = KeysOf(t) /\ KeysToDo(t)' = KeysToDo(t)
  BY <1>5 DEF KeysOf, KeysToDo
<1>a. ASSUME NEW o, o.key = call[t].key, ops' = [ops EXCEPT ![t] = Append(@, o)]
      PROVE  KeysOf(t)' = KeysOf(t) \cup {call[t].key}
  <2>1. ops[t] \in Seq(Ops \cup {o}) /\ ops'[t] = Append(ops[t], o)
    BY <1>1, <1>a
  <2>2. Range(ops'[t]) = Range(ops[t]) \cup {o}
    BY <2>1, RangeOfAppend
  <2>3. KeysOf(t) = {p.key : p \in Range(ops[t])} /\ KeysOf(t)' = {p.key : p \in Range(ops'[t])}
    BY DEF KeysOf, Range
  <2> QED
    BY <1>a, <2>2, <2>3
<1>b. ASSUME KeysOf(t)' = KeysOf(t) \cup {call[t].key}, MayMark(t, call[t].key),
             Unsettled(t), Unsettled(t)',
             \A k \in Keys \ {call[t].key} : rows'[k] = rows[k],
             rows'[call[t].key].op # "none", rows'[call[t].key].id = t
      PROVE  /\ \A j \in Claimed(t)' : j \in Claimed(t) \/ (j \in Keys /\ MayMark(t, j))
             /\ Unsettled(t)' => \A j \in KeysOf(t)' : rows'[j].op # "none" /\ rows'[j].id = t
  BY <1>1, <1>2, <1>b DEF Claimed
<1>6. CASE Act(t)
  <2>1. Unsettled(t) /\ Unsettled(t)' /\ todo' = todo /\ pc[t] = "at"
    BY <1>1, <1>6 DEF Act, Unsettled, Unfinished, Leave, Goto
  <2>2. CASE rows' = rows /\ ops' = ops
    BY <1>4, <1>5, <2>1, <2>2
  <2>3. CASE ~(rows' = rows /\ ops' = ops)
    <3>1. ~Contends(t) /\ Perform(t)
      BY <1>6, <2>3 DEF Act
    <3>2. MayMark(t, call[t].key)
      BY <1>1, <2>1, <3>1 DEF HoldsOf, MutexOf, MayMark, Contends, Typed, CallsAre
    <3>3. ASSUME NEW kind, Mark(t, call[t].key, kind), kind \in {"lock", "update", "delete"}
          PROVE  /\ KeysOf(t)' = KeysOf(t) \cup {call[t].key}
                 /\ \A k \in Keys \ {call[t].key} : rows'[k] = rows[k]
                 /\ rows'[call[t].key].op # "none" /\ rows'[call[t].key].id = t
      <4>1. Op(t, kind, call[t].key).key = call[t].key
        BY DEF Op
      <4>2. KeysOf(t)' = KeysOf(t) \cup {call[t].key}
        BY <1>a, <3>3, <4>1 DEF Mark
      <4>3. rows[call[t].key] \in Rows
        BY <1>1
      <4> QED
        BY <1>1, <3>3, <4>2, <4>3 DEF Mark, Rows
    <3>4. CASE \E kind \in {"lock", "update", "delete"} : Mark(t, call[t].key, kind)
      BY <1>b, <2>1, <3>2, <3>3, <3>4
    <3>5. CASE rows' = [rows EXCEPT ![call[t].key].val = Value(t)] /\ ops' = ops
      <4>1. rows[call[t].key] \in Rows
        BY <1>1
      <4>2. \A k \in Keys : rows'[k].op = rows[k].op /\ rows'[k].id = rows[k].id
        BY <1>1, <3>5, <4>1 DEF Rows
      <4> QED
        BY <1>1, <1>2, <1>5, <2>1, <3>5, <4>2 DEF Claimed
    <3> QED
      BY <2>3, <3>1, <3>4, <3>5 DEF Perform, Lock, Update, Erase
  <2> QED
    BY <2>2, <2>3
<1>7. CASE Insert(t)
  <2>1. Unsettled(t) /\ Unsettled(t)' /\ todo' = todo /\ pc[t] = "in" /\ call[t].kind = "insert"
    BY <1>1, <1>7 DEF Insert, Unsettled, Unfinished, Leave, Goto
  <2>2. CASE rows' = rows /\ ops' = ops
    BY <1>4, <1>5, <2>1, <2>2
  <2>3. CASE ~(rows' = rows /\ ops' = ops)
    <3> DEFINE new == [val |-> Value(t), op |-> "insert", id |-> t, placed |-> FALSE]
               o == [Op(t, "insert", call[t].key) EXCEPT !.id = 0, !.op = "none"]
    <3>1. /\ ~Contends(t) /\ rows' = [rows EXCEPT ![call[t].key] = new]
          /\ ops' = [ops EXCEPT ![t] = Append(@, o)]
          /\ ~Present(rows[call[t].key]) \/ rows[call[t].key].op = "delete"
      BY <1>7, <2>3 DEF Insert
    <3>2. MayMark(t, call[t].key)
      BY <1>1, <2>1, <3>1 DEF HoldsOf, MayMark, Contends
    <3>3. o.key = call[t].key
      BY DEF Op
    <3>4. KeysOf(t)' = KeysOf(t) \cup {call[t].key}
      BY <1>a, <3>1, <3>3
    <3> QED
      BY <1>1, <1>b, <2>1, <3>1, <3>2, <3>4
  <2> QED
    BY <2>2, <2>3
<1>8. CASE Initialize(t)
  <2>1. KeysOf(t)' = KeysOf(t) /\ KeysToDo(t)' = KeysToDo(t) /\ rows' = rows
    BY <1>5, <1>8 DEF Initialize
  <2>2. Unsettled(t) /\ KeysToDo(t) \subseteq KeysOf(t)
    BY <1>3, <1>8 DEF Initialize, Unsettled, Unfinished
  <2> QED
    BY <1>2, <2>1, <2>2 DEF Claimed
<1>9. CASE LockNext(t)
  <2>1. KeysOf(t)' = KeysOf(t) /\ KeysToDo(t)' = KeysToDo(t) /\ rows' = rows
    BY <1>5, <1>9 DEF LockNext
  <2>2. Unsettled(t) /\ KeysToDo(t) \subseteq KeysOf(t)
    BY <1>3, <1>9 DEF LockNext, Ending, Unsettled, Unfinished
  <2> QED
    BY <1>2, <2>1, <2>2 DEF Claimed
<1>10. CASE Apply(t)
  <2>1. todo'[t] = Tail(todo[t]) /\ todo[t] # <<>> /\ ~Unsettled(t) /\ ~Unsettled(t)'
    BY <1>1, <1>10 DEF Apply, Ending, Unsettled, Unfinished
  <2>2. Range(Tail(todo[t])) \subseteq Range(todo[t])
    BY <1>1, <2>1, RangeOfTail
  <2>3. KeysToDo(t) = {p.key : p \in Range(todo[t])} /\ KeysToDo(t)' = {p.key : p \in Range(todo'[t])}
    BY DEF KeysToDo, Range
  <2> QED
    BY <2>1, <2>2, <2>3 DEF Claimed
<1>11. CASE Complete(t)
  <2>1. todo'[t] = <<>> /\ pc'[t] = "done" /\ to_lock'[t] = {}
    BY <1>1, <1>11 DEF Complete
  <2> QED
    BY <2>1 DEF Claimed, Unsettled, Unfinished, KeysToDo
<1>12. CASE WriteRecord(t) \/ Rollback(t)
  <2>1. ops' = ops /\ rows' = rows /\ Unsettled(t) /\ pc'[t] \in {"commit", "rollback", "done"}
    BY <1>1, <1>12 DEF WriteRecord, Rollback, Unsettled, Unfinished, Goto
  <2>2. KeysOf(t)' = KeysOf(t)
    BY <2>1 DEF KeysOf
  <2>3. pc'[t] = "done" => todo'[t] = <<>>
    BY <1>1, <1>12 DEF WriteRecord, Rollback, Goto, Reverse
  <2>4. pc'[t] = "done" => KeysToDo(t)' = {}
    BY <2>3 DEF KeysToDo
  <2>5. pc'[t] # "done" => Unsettled(t)'
    BY <2>1 DEF Unsettled, Unfinished
  <2> QED
    BY <1>2, <2>1, <2>2, <2>4, <2>5 DEF Claimed
<1>13. CASE \/ Seek(t) \/ Advance(t) \/ Sleep(t) \/ Timeout(t) \/ Reenter(t) \/ Relock(t)
            \/ CallFails(t)
  <2>1. ops' = ops /\ todo' = todo /\ rows' = rows
    BY <1>13 DEF Seek, Advance, Sleep, Timeout, Reenter, Relock, CallFails
  <2>2. Unsettled(t) /\ Unsettled(t)'
    BY <1>1, <1>13
       DEF Seek, Advance, Sleep, Timeout, Reenter, Relock, CallFails, Leave, Goto,
                       Unsettled, Unfinished
  <2> QED
    BY <1>4, <1>5, <2>1, <2>2
<1>14. CASE CommitFails(t) \/ RollbackFails(t) \/ Die(t)
  <2>1. ops' = ops /\ todo' = todo /\ rows' = rows
    BY <1>14 DEF CommitFails, RollbackFails, Fail, Die
  <2>2. Unsettled(t) = Unsettled(t)'
    BY <1>1, <1>14
       DEF CommitFails, RollbackFails, Fail, Die, EndIsStuck, Goto, Unsettled, Unfinished
  <2> QED
    BY <1>4, <1>5, <2>1, <2>2
<1>15. ASSUME NEW kind \in Kinds, NEW k \in Keys, Enter(t, kind, k)
       PROVE  ops' = ops /\ todo' = todo /\ rows' = rows /\ Unsettled(t)' = Unsettled(t)
  BY <1>1, <1>15 DEF Enter, Goto, Unsettled, Unfinished
<1> QED
  BY <1>4, <1>5, <1>6, <1>7, <1>8, <1>9, <1>10, <1>11, <1>12, <1>13, <1>14, <1>15
  DEF Proceed, Ask

\* Others keep their claims.
LEMMA OthersClaims ==
    ASSUME Typed, Holds, NEW t \in Txns, Proceed(t) \/ Ask(t) \/ Die(t), NEW s \in Txns \ {t}
    PROVE  /\ KeysOf(s)' = KeysOf(s) /\ KeysToDo(s)' = KeysToDo(s) /\ Claimed(s)' = Claimed(s)
           /\ Unsettled(s)' = Unsettled(s)
<1>1. pc'[s] = pc[s] \/ (pc[s] = "asleep" /\ pc'[s] = "woken")
  BY OthersStay
<1>2. ops'[s] = ops[s] /\ to_lock'[s] = to_lock[s]
  BY OthersStay
<1>3. todo'[s] = todo[s]
  BY DEF Typed, TypeOK, Proceed, Ask, Seek, Advance, Act, Insert, Sleep, Timeout, Reenter,
     Relock,
         WriteRecord, Rollback, Initialize, LockNext, Apply, Complete, Die, CallFails, CommitFails,
         RollbackFails, Fail, Enter
<1>4. Unsettled(s)' = Unsettled(s)
  BY <1>1, <1>2 DEF Unsettled, Unfinished
<1> QED
  BY <1>2, <1>3, <1>4 DEF KeysOf, KeysToDo, Claimed

\* Claims stay exclusive.
LEMMA ClaimsStayExclusive ==
    ASSUME Typed, Holds, RowsAreThere, ClaimsAreExclusive,
           NEW t \in Txns, Proceed(t) \/ Ask(t) \/ Die(t)
    PROVE  ClaimsAreExclusive'
<1> SUFFICES ASSUME ~corrupt'
             PROVE  \A s \in Txns :
                       /\ \A r \in Txns \ {s} : Claimed(r)' \cap Claimed(s)' = {}
                       /\ Unsettled(s)' =>
                             \A k \in KeysOf(s)' : rows'[k].op # "none" /\ rows'[k].id = s
  BY DEF ClaimsAreExclusive
<1>1. ~corrupt
  BY DEF Proceed, Ask, Seek, Advance, Act, Insert, Sleep, Timeout, Reenter, Relock,
         WriteRecord, Rollback, Initialize, LockNext, Apply, Complete, Die, CallFails, CommitFails,
         RollbackFails, Fail, Enter
<1>2. \A s \in Txns \ {t} : Claimed(s)' \cap Claimed(t)' = {}
  BY <1>1, OwnClaims, OthersClaims, ClaimsAreRespected DEF ClaimsAreExclusive
<1>3. \A s \in Txns \ {t} : \A r \in Txns \ {s, t} : Claimed(r)' \cap Claimed(s)' = {}
  BY <1>1, OthersClaims DEF ClaimsAreExclusive
<1>4. ASSUME NEW s \in Txns \ {t}, Unsettled(s)', NEW k \in KeysOf(s)'
      PROVE  rows'[k].op # "none" /\ rows'[k].id = s
  <2>1. Unsettled(s) /\ k \in KeysOf(s) /\ k \in Claimed(s) /\ k \in Keys
    BY <1>4, OthersClaims, KeysAreKeys DEF Claimed
  <2>2. rows'[k] = rows[k]
    BY <1>1, <2>1, RowsChange, ClaimsAreRespected DEF Marked, Inserted
  <2> QED
    BY <1>1, <2>1, <2>2 DEF ClaimsAreExclusive
<1> QED
  BY <1>1, <1>2, <1>3, <1>4, OwnClaims

-----------------------------------------------------------------------------
\* Waiting

\* Who is about to notify stays so until it does.
LEMMA EndingsGoOn ==
    ASSUME Typed, Holds, NEW t \in Txns, Proceed(t) \/ Ask(t) \/ Die(t), ~Complete(t),
           NEW s \in Txns, Ending(s), to_lock[s] = {}
    PROVE  Ending(s)' /\ to_lock'[s] = {} /\ (exclusive = s => exclusive' = s)
<1>1. CASE s # t
  BY <1>1, OthersStay DEF Ending
<1>2. CASE s = t
  <2>1. pc[t] \in {"committing", "rolling back"} /\ to_lock[t] = {} /\ HoldsOf(t)
    BY <1>2 DEF Ending, Holds
  <2>2. Apply(t) \/ Die(t)
    BY <2>1
    DEF Proceed, Ask, Seek, Advance, Act, Insert, Sleep, Timeout, Reenter, Relock,
        WriteRecord,
        Rollback, Initialize, LockNext, CallFails, CommitFails, RollbackFails, EndIsStuck, Enter
  <2> QED
    BY <1>2, <2>1, <2>2 DEF Apply, Die, Ending
<1> QED
  BY <1>1, <1>2

\* A row that another holds remains held by another, but for the end of a transaction.
LEMMA HeldStaysHeld ==
    ASSUME Typed, Holds, RowsAreThere, NEW t \in Txns, Proceed(t) \/ Ask(t) \/ Die(t),
           NEW s \in Txns \ {t}, NEW j \in Keys, HeldByOther(s, rows[j]), ~HeldByOther(s, rows'[j])
    PROVE  Apply(t) /\ Applied(t, j)
BY RowsChange DEF HeldByOther, Marked, Inserted

\* Who is about to sleep or sleeps keeps a reason to.
LEMMA WaitersStayLockedOut ==
    ASSUME Typed, Holds, RowsAreThere, WaitersAreLockedOut,
           NEW t \in Txns, Proceed(t) \/ Ask(t) \/ Die(t)
    PROVE  WaitersAreLockedOut'
<1> SUFFICES ASSUME ~corrupt', NEW s \in Txns
             PROVE  /\ pc'[s] = "dozing" =>
                          \/ HeldByOther(s, rows'[call'[s].key]) \/ s \in missed'
                          \/ \E r \in Txns : Ending(r)' /\ exclusive' = r
                    /\ pc'[s] = "asleep" =>
                          \/ HeldByOther(s, rows'[call'[s].key]) \/ s \in missed'
                          \/ \E r \in Txns : Ending(r)' /\ to_lock'[r] = {}
  BY DEF WaitersAreLockedOut, HeldByOther
<1>1. ~corrupt
  BY DEF Proceed, Ask, Seek, Advance, Act, Insert, Sleep, Timeout, Reenter, Relock,
         WriteRecord, Rollback, Initialize, LockNext, Apply, Complete, Die, CallFails, CommitFails,
         RollbackFails, Fail, Enter
<1>2. /\ pc[s] = "dozing" =>
            \/ HeldByOther(s, rows[call[s].key]) \/ s \in missed
            \/ \E r \in Txns : Ending(r) /\ exclusive = r
      /\ pc[s] = "asleep" =>
            \/ HeldByOther(s, rows[call[s].key]) \/ s \in missed
            \/ \E r \in Txns : Ending(r) /\ to_lock[r] = {}
  BY <1>1 DEF WaitersAreLockedOut
<1>3. \A r \in Txns : Ending(r) /\ exclusive = r => to_lock[r] = {}
  BY NobodyAssumption DEF Holds, HoldsOf
<1>4. /\ pc \in [Txns -> Points] /\ call \in [Txns -> Called] /\ call[s].key \in Keys
      /\ missed \in SUBSET Txns /\ rows \in [Keys -> Rows]
  BY KeysAreKeys DEF Typed, TypeOK, Called
<1>5. CASE s # t /\ ~Complete(t)
  <2>1. /\ pc'[s] \in {"dozing", "asleep"} => pc'[s] = pc[s]
        /\ call'[s].key = call[s].key
    BY <1>5, OthersStay
  <2>2. s \in missed => s \in missed'
    BY <1>5 DEF Proceed, Ask, Seek, Advance, Act, Insert, Sleep, Timeout, Reenter, Relock,
         WriteRecord, Rollback, Initialize, LockNext, Apply, Die, CallFails, CommitFails,
         RollbackFails, Fail, Enter
  <2>3. \A r \in Txns : Ending(r) /\ to_lock[r] = {} =>
           Ending(r)' /\ to_lock'[r] = {} /\ (exclusive = r => exclusive' = r)
    BY <1>5, EndingsGoOn
  <2>4. CASE HeldByOther(s, rows[call[s].key]) => HeldByOther(s, rows'[call[s].key])
    BY <1>2, <1>3, <2>1, <2>2, <2>3, <2>4
  <2>5. CASE HeldByOther(s, rows[call[s].key]) /\ ~HeldByOther(s, rows'[call[s].key])
    <3>1. Applied(t, call[s].key)
      BY <1>4, <1>5, <2>5, HeldStaysHeld
    <3>2. Ending(t)' /\ to_lock'[t] = {} /\ (exclusive = t => exclusive' = t)
      BY <2>3, <3>1 DEF Applied
    <3>3. pc[s] = "dozing" => exclusive = t
      <4>1. Ending(t) /\ call[s].key \in KeysOf(t) /\ to_lock[t] = {}
        BY <3>1, NextOperation DEF Applied
      <4> QED
        BY <1>5, <4>1 DEF Holds, HoldsOf, MutexOf
    <3> QED
      BY <2>1, <3>2, <3>3
  <2> QED
    BY <2>4, <2>5
<1>6. CASE Complete(t)
  <2>1. /\ pc'[s] # "asleep" /\ (pc'[s] = "dozing" => pc[s] = "dozing" /\ s # t)
        /\ rows' = rows /\ call' = call
        /\ pc[s] = "dozing" /\ (s \in missed \/ exclusive = t) => s \in missed'
    BY <1>4, <1>6 DEF Complete
  <2>2. \A r \in Txns \ {t} : Ending(r) /\ exclusive = r => Ending(r)' /\ exclusive' = r
    BY OthersStay DEF Ending
  <2> QED
    BY <1>2, <2>1, <2>2
<1>7. CASE s = t /\ ~Complete(t)
  <2> USE DEF Goto
  <2>1. CASE pc'[t] \notin {"dozing", "asleep"}
    BY <1>7, <2>1
  <2>2. CASE Act(t)
    <3>1. pc'[t] = "dozing" =>
             Contends(t) /\ rows' = rows /\ call' = [call EXCEPT ![t].ver = ver_num]
      BY <1>4, <2>2 DEF Act, Leave
    <3>2. pc'[t] = "dozing" => call'[t].key = call[t].key
      BY <1>4, <3>1 DEF Called
    <3>3. pc'[t] # "asleep" /\ call[t].kind # "insert"
      BY <1>4, <2>2 DEF Act, Leave, Typed, CallsAre
    <3> QED
      BY <1>7, <3>1, <3>2, <3>3 DEF Contends
  <2>3. CASE Insert(t)
    <3>1. /\ pc'[t] = "dozing" => Contends(t) /\ rows' = rows /\ call' = call
          /\ pc'[t] # "asleep" /\ call[t].kind = "insert"
      BY <1>4, <2>3 DEF Insert, Leave
    <3> QED
      BY <1>7, <3>1 DEF Contends, HeldByOther
  <2>4. CASE Sleep(t)
    <3>1. pc[t] = "dozing" /\ pc'[t] = "asleep" /\ UNCHANGED <<rows, call, missed, to_lock>>
      BY <1>4, <2>4 DEF Sleep
    <3>2. \A r \in Txns : Ending(r) => Ending(r)'
      BY <1>4, <2>4 DEF Sleep, Ending
    <3> QED
      BY <1>2, <1>3, <1>7, <3>1, <3>2
  <2>5. CASE Seek(t) \/ Advance(t) \/ Timeout(t) \/ Reenter(t) \/ Relock(t) \/ CallFails(t)
    BY <1>4, <2>1, <2>5 DEF Seek, Advance, Timeout, Reenter, Relock, CallFails, Leave
  <2>6. CASE WriteRecord(t) \/ Rollback(t) \/ Initialize(t) \/ LockNext(t) \/ Apply(t)
    BY <1>4, <2>1, <2>6
       DEF WriteRecord, Rollback, Initialize, During, LockNext, Apply, Ending
  <2>7. CASE CommitFails(t) \/ RollbackFails(t)
    BY <1>4, <2>1, <2>7 DEF CommitFails, RollbackFails, Fail
  <2>8. CASE Die(t)
    <3>1. UNCHANGED <<rows, call, missed, to_lock, pc, exclusive>>
      BY <2>8 DEF Die
    <3> QED
      BY <1>2, <3>1 DEF Ending
  <2>9. ASSUME NEW kind \in Kinds, NEW k \in Keys, Enter(t, kind, k)
        PROVE  pc'[t] = "in"
    BY <1>4, <2>9 DEF Enter
  <2> QED
    BY <1>7, <2>1, <2>2, <2>3, <2>4, <2>5, <2>6, <2>7, <2>8, <2>9 DEF Proceed, Ask
<1> QED
  BY <1>5, <1>6, <1>7

-----------------------------------------------------------------------------
\* The theorems

\* LockInv holds at the start,
LEMMA LockInvAtTheStart == Init => LockInv
<1> SUFFICES ASSUME Init PROVE LockInv
  OBVIOUS
<1>1. Typed
  BY TypesAtTheStart
<1>2. \A t \in Txns : pc[t] = "active" /\ ops[t] = <<>> /\ todo[t] = <<>> /\ to_lock[t] = {}
  BY DEF Init
<1>3. Holds
  BY <1>2 DEF Init, Holds, HoldsOf, Ending, Range
<1>4. RowsAreThere
  BY <1>2 DEF RowsAreThere
<1>5. ClaimsAreExclusive
  BY <1>2 DEF ClaimsAreExclusive, Claimed, KeysOf, KeysToDo
<1>6. WaitersAreLockedOut
  BY <1>2 DEF WaitersAreLockedOut
<1> QED
  BY <1>1, <1>3, <1>4, <1>5, <1>6 DEF LockInv

\* and every step keeps it.
LEMMA LockInvIsKept == LockInv /\ [Next]_vars => LockInv'
<1> SUFFICES ASSUME LockInv, [Next]_vars PROVE LockInv'
  OBVIOUS
<1>1. CASE Next
  <2>1. PICK t \in Txns : Proceed(t) \/ Ask(t) \/ Die(t)
    BY <1>1 DEF Next
  <2> QED
    BY <2>1, TypesHold, LocksAreHeld, RowsStayThere, ClaimsStayExclusive,
       WaitersStayLockedOut
    DEF LockInv
<1>2. CASE UNCHANGED vars
  <2>1. Typed'
    BY <1>2 DEF vars, LockInv, Typed, TypeOK, Lists, ListsOf, CallsAre, Present
  <2>2. \A t \in Txns :
           /\ KeysOf(t)' = KeysOf(t) /\ KeysToDo(t)' = KeysToDo(t) /\ MutexOf(t)' = MutexOf(t)
           /\ Ending(t)' = Ending(t) /\ Unsettled(t)' = Unsettled(t)
    BY <1>2 DEF vars, KeysOf, KeysToDo, MutexOf, Ending, Unsettled, Unfinished
  <2>3. Holds'
    BY <1>2, <2>2 DEF vars, LockInv, Holds, HoldsOf
  <2>4. RowsAreThere'
    BY <1>2 DEF vars, LockInv, RowsAreThere, Present
  <2>5. ClaimsAreExclusive'
    BY <1>2, <2>2 DEF vars, LockInv, ClaimsAreExclusive, Claimed
  <2>6. WaitersAreLockedOut'
    BY <1>2, <2>2 DEF vars, LockInv, WaitersAreLockedOut, HeldByOther
  <2> QED
    BY <2>1, <2>3, <2>4, <2>5, <2>6 DEF LockInv
<1> QED
  BY <1>1, <1>2

\* LockInv is what a run checks, and more.
LEMMA LockInvSuffices == LockInv => RowLocksHold
<1> SUFFICES ASSUME LockInv PROVE RowLocksHold
  OBVIOUS
<1>1. RowLocksAreExclusive
  <2> SUFFICES ASSUME ~corrupt, NEW k \in Keys, NEW t \in Txns, Unfinished(t), k \in KeysOf(t)
               PROVE  /\ rows[k].op # "none" /\ rows[k].id = t
                      /\ \A s \in Txns \ {t} : Unfinished(s) => k \notin KeysOf(s)
    BY DEF RowLocksAreExclusive
  <2>1. \A s \in Txns : Unfinished(s) => Unsettled(s) /\ Claimed(s) = KeysOf(s)
    BY DEF Claimed, Unsettled
  <2> QED
    BY <2>1 DEF LockInv, ClaimsAreExclusive
<1>2. SleepersAreLockedOut
  BY DEF LockInv, WaitersAreLockedOut, SleepersAreLockedOut, LockedOut
<1> QED
  BY <1>1, <1>2 DEF LockInv, Typed, RowLocksHold

\* A row that a transaction has an operation on bears its mark and no other transaction has
\* one on it, until the transaction begins to give the row up; and who sleeps for a row waits
\* for another transaction's mark, for one that will notify, or was passed by a notification
\* without the mutex (the row locks of trans_map with row_level_locks, concurrent_trans_map.h).
THEOREM RowLocksAreKept == Spec => []RowLocksHold
<1>1. Spec => []LockInv
  BY LockInvAtTheStart, LockInvIsKept, PTL DEF Spec
<1> QED
  BY <1>1, LockInvSuffices, PTL

\* A row that a thread looks at is not changed under it, and rows come and go only while one
\* thread has the container to itself.
THEOREM IteratorsStaySafe == Spec => IteratorsAreSafe
<1>1. Spec => []LockInv
  BY LockInvAtTheStart, LockInvIsKept, PTL DEF Spec
<1>2. ASSUME LockInv, NEW t \in Txns, Proceed(t) \/ Ask(t) \/ Die(t),
             NEW s \in Txns
      PROVE  RowIsStable(s)
  <2>1. SUFFICES ASSUME pc[s] = "at", pc'[s] = "at", rows'[call[s].key] # rows[call[s].key]
                 PROVE  FALSE
    BY DEF RowIsStable
  <2> DEFINE k == call[s].key
  <2>2. k \in Keys /\ s \in sharers /\ mutex[Picket[k]] = s /\ pc \in [Txns -> Points]
    BY <1>2, <2>1, KeysAreKeys DEF LockInv, Typed, TypeOK, Holds, HoldsOf, MutexOf
  <2>3. (Act(t) /\ Marked(t, k)) \/ (Insert(t) /\ Inserted(t, k)) \/ (Apply(t) /\ Applied(t, k))
    BY <1>2, <2>1, <2>2, RowsChange DEF LockInv
  <2>4. exclusive = NoTxn /\ t # NoTxn
    BY <1>2, <2>2, NobodyAssumption DEF LockInv, Holds
  <2>5. ~(Insert(t) /\ Inserted(t, k))
    BY <2>4 DEF Inserted, MayMark
  <2>6. ~(Act(t) /\ Marked(t, k))
    <3>1. Act(t) /\ Marked(t, k) => t = s
      BY <2>2 DEF Marked, MayMark
    <3>2. Act(t) => pc'[t] # "at"
      BY <2>2 DEF Act, Leave, Goto
    <3> QED
      BY <2>1, <3>1, <3>2
  <2>7. ~(Apply(t) /\ Applied(t, k))
    <3> SUFFICES ASSUME Applied(t, k) PROVE FALSE
      OBVIOUS
    <3>1. Ending(t) /\ k \in KeysOf(t) /\ to_lock[t] = {}
      BY <1>2, NextOperation DEF Applied, LockInv
    <3>2. mutex[Picket[k]] = t
      BY <1>2, <2>4, <3>1 DEF LockInv, Holds, HoldsOf
    <3> QED
      BY <2>1, <2>2, <3>1, <3>2 DEF Ending
  <2> QED
    BY <2>3, <2>5, <2>6, <2>7
<1>3. ASSUME LockInv, NEW t \in Txns, Proceed(t) \/ Ask(t) \/ Die(t),
             NEW k \in Keys, Present(rows'[k]) # Present(rows[k])
      PROVE  exclusive # NoTxn /\ sharers = {}
  <2>1. rows'[k] # rows[k]
    BY <1>3
  <2>2. (Act(t) /\ Marked(t, k)) \/ (Insert(t) /\ Inserted(t, k)) \/ (Apply(t) /\ Applied(t, k))
    BY <1>3, <2>1, RowsChange DEF LockInv
  <2>3. exclusive = t
    BY <1>3, <2>2 DEF Marked, Inserted, MayMark, Applied, Present
  <2> QED
    BY <1>3, <2>3, NobodyAssumption DEF LockInv, Holds
<1>4. LockInv /\ [Next]_vars =>
          [\A t \in Txns : RowIsStable(t)]_vars
  BY <1>2 DEF Next
<1>5. LockInv /\ [Next]_vars =>
          [\A k \in Keys : Present(rows'[k]) # Present(rows[k]) =>
             exclusive # NoTxn /\ sharers = {}]_vars
  BY <1>3 DEF Next
<1>6. Spec => RowsAreStable
  BY <1>1, <1>4, PTL DEF Spec, RowsAreStable
<1>7. Spec => ShapeIsExclusive
  BY <1>1, <1>5, PTL DEF Spec, ShapeIsExclusive
<1> QED
  BY <1>6, <1>7 DEF IteratorsAreSafe

-----------------------------------------------------------------------------
HIDE DEF Keys, Pickets, Kinds, RowCalls, map, locks, txn, ending, marks

\* What the log holds, and what redo makes of a row.
LoggedOps == [kind : {"insert", "update", "delete"}, key : Keys, val : Values]
Records == [txn : Txns, lsn : Nat, changes : Seq(LoggedOps)]
Founds == [val : Values, lsn : Nat]
Touches(r, k) == \E i \in DOMAIN r.changes : r.changes[i].key = k

\* The operations of a transaction on a row, and those that it has not yet committed or
\* rolled back.
On(t, k) == {i \in DOMAIN ops[t] : ops[t][i].key = k}
IsFirst(t, i) == \A j \in On(t, ops[t][i].key) : i <= j
IsLast(t, i) == \A j \in On(t, ops[t][i].key) : j <= i
Left(t) ==
    {i \in DOMAIN ops[t] :
        /\ pc[t] = "committing" => i > Len(ops[t]) - Len(todo[t])
        /\ pc[t] = "rolling back" => i <= Len(todo[t])}
IsLastLeft(t, i) == i \in Left(t) /\ \A j \in Left(t) : ops[t][j].key = ops[t][i].key => j <= i

\* Properties are about the rows that no transaction has both inserted and erased.
Tracked(k) == k \notin twisted

\* A transaction has at most one record in the log, from its commit on.
RecordsAreKept ==
    /\ \A i, j \in DOMAIN log : log[i].txn = log[j].txn => i = j
    /\ \A i \in DOMAIN log : pc[log[i].txn] \in {"commit", "committing", "failed", "done"}

\* Who commits goes through the list of its operations, and who rolls back through the list
\* in reverse, from its beginning.
TodoIs(t) ==
    LET n == Len(ops[t])
        m == Len(todo[t])
    IN /\ pc[t] \in {"commit", "committing"} =>
             m <= n /\ \A d \in 1 .. m : todo[t][d] = ops[t][n - m + d]
       /\ pc[t] \in {"rollback", "rolling back"} =>
             m <= n /\ \A d \in 1 .. m : todo[t][d] = ops[t][m + 1 - d]
       /\ pc[t] \in {"commit", "rollback"} \/ (Ending(t) /\ to_lock[t] # {}) => m = n
       /\ pc[t] = "done" => ops[t] = <<>>

\* The operations of a transaction on a row: an insert alone; or a lock first, then updates,
\* then a delete, each of which remembers the kind of the one before it.
Shaped(t, j) ==
    LET o == ops[t][j]
    IN /\ o.kind # "insert" => o.op \notin {"insert", "delete"}
       /\ o.kind = "lock" => o.op = "none"
       /\ \A i \in On(t, o.key) : i < j =>
             /\ ops[t][i].kind \in {"lock", "update"} /\ o.kind \in {"update", "delete"}
             /\ o.op # "none"
             /\ (\A l \in On(t, o.key) : l < j => l <= i) => o.op = ops[t][i].kind /\ o.id = t
\* The row has the mark of the last operation left on it, or that has gone with an update
\* before it.
Traced(t, i) ==
    LET row == rows[ops[t][i].key]
    IN /\ Present(row)
       /\ \/ row.op = ops[t][i].kind /\ row.id = t
          \/ /\ pc[t] = "committing" /\ row.op = "none" /\ ops[t][i].key \in retouched
             /\ ops[t][i].kind = "update"
\* The operation that has found no mark remembers the LSN of the commit that the row is from.
FindsFirst(t, i) ==
    LET o == ops[t][i]
    IN o.key \notin retouched /\ o.kind # "insert" /\ o.op = "none" =>
          \A k \in Keys : o.key = k => o.id = Recoverable(k).lsn
OpsAreSound(t) ==
    /\ TodoIs(t)
    /\ \A i \in DOMAIN ops[t] : Tracked(ops[t][i].key) => Shaped(t, i)
    /\ \A i \in Left(t) : Tracked(ops[t][i].key) => FindsFirst(t, i)
    /\ \A i \in Left(t) : Tracked(ops[t][i].key) /\ IsLastLeft(t, i) => Traced(t, i)

\* What redo makes of the record r of t, told by the last operation of t on each row.
TellsOf(r, t, i) ==
    LET o == ops[t][i]
    IN /\ o.kind = "lock" => ~Touches(r, o.key)
       /\ o.kind = "delete" => \A row \in Founds : RedoRecord(o.key, row, r) = NotThere
       /\ o.kind = "update" =>
             \A row \in Founds : RedoRecord(o.key, row, r) = [val |-> o.val, lsn |-> r.lsn]
       /\ o.kind = "insert" /\ i \in Left(t) =>
             RedoRecord(o.key, NotThere, r) = [val |-> rows[o.key].val, lsn |-> r.lsn]
Tells(r, t) ==
    /\ \A k \in Keys : Touches(r, k) => \E i \in On(t, k) : ops[t][i].kind # "lock"
    /\ \A i \in DOMAIN ops[t] : IsLast(t, i) /\ Tracked(ops[t][i].key) => TellsOf(r, t, i)
\* A record that the map has yet to follow does so, and no later one touches the rows.
IsPending(i) ==
    LET t == log[i].txn
    IN /\ Tells(log[i], t)
       /\ \A j \in DOMAIN log : j > i => \A d \in Left(t) : ~Touches(log[j], ops[t][d].key)
PendingAreCurrent ==
    \A i \in DOMAIN log : pc[log[i].txn] \in {"commit", "committing"} => IsPending(i)

\* What readers see of a row is what the log says, but for the value and the LSN of one
\* updated twice.
Shown(row) == Present(row) /\ row.op # "insert"
Agrees(row, found, twice) ==
    /\ found.val = NoValue => found = NotThere
    /\ Shown(row) <=> found.val # NoValue
    /\ Shown(row) /\ ~twice => row.val = found.val
    /\ Present(row) /\ row.op = "none" /\ ~twice => row.id = found.lsn
RowsAgree == \A k \in Keys : Tracked(k) => Agrees(rows[k], Recoverable(k), k \in retouched)

\* An iterator to a row that has not gone is to one that its transaction may see, and none
\* has gone while the map has its version.
NotStale(t) ==
    LET row == rows[call[t].key]
    IN Tracked(call[t].key) /\ call[t].kind \in RowCalls =>
          /\ pc[t] \in {"at", "back"} => ~call[t].stale /\ ~Hidden(t, row)
          /\ pc[t] \in {"dozing", "asleep", "woken"} =>
                /\ call[t].ver <= ver_num
                /\ call[t].ver = ver_num => ~call[t].stale /\ ~Hidden(t, row) /\ Present(row)

\* A row that is being inserted has no place in the checkpoint file.
PlacesInv ==
    /\ PlacesAreKept
    /\ \A k \in Keys : Tracked(k) /\ rows[k].op = "insert" => ~rows[k].placed

Sound ==
    /\ RecordsAreKept /\ PendingAreCurrent /\ RowsAgree
    /\ \A t \in Txns : OpsAreSound(t) /\ NotStale(t)
LogIsTyped == log \in Seq(Records)
CommitInv ==
    /\ LockInv /\ LogIsTyped /\ PlacesInv /\ OnlyTwistedRowsCorrupt
    /\ ~corrupt => Sound

-----------------------------------------------------------------------------
\* Lemmas about redo

\* The least of some numbers.
LEMMA LeastOfNats ==
    ASSUME NEW S, S \subseteq Nat, S # {}
    PROVE  \E x \in S : \A y \in S : x <= y
<1> DEFINE R == {m \in Nat \X Nat : m[1] < m[2]}
<1>1. IsWellFoundedOn(R, Nat)
  BY NatLessThanWellFounded DEF OpToRel
<1> HIDE DEF R
<1>2. PICK x \in S : \A y \in S : ~(<<y, x>> \in R)
  BY <1>1, WFMin
<1>3. \A y \in S : ~(y < x)
  BY <1>2 DEF R
<1> QED
  BY <1>3

\* What holds of 0 and of the number after each that it holds of, holds up to n.
LEMMA UpTo ==
    ASSUME NEW n \in Nat, NEW S, S \subseteq 0 .. n, 0 \in S,
           \A i \in 0 .. n : i \in S /\ i < n => i + 1 \in S
    PROVE  S = 0 .. n
<1> SUFFICES ASSUME (0 .. n) \ S # {} PROVE FALSE
  OBVIOUS
<1> DEFINE C == (0 .. n) \ S
<1>0. C \subseteq Nat /\ C # {}
  OBVIOUS
<1>1. PICK x \in C : \A y \in C : x <= y
  <2> HIDE DEF C
  <2> QED
    BY <1>0, LeastOfNats
<1>2. x - 1 \in 0 .. n /\ x - 1 < n /\ x - 1 \notin (0 .. n) \ S
  BY <1>1
<1>3. (x - 1) + 1 \in S
  BY <1>2
<1> QED
  BY <1>1, <1>3

\* A step for each of n numbers can be iterated.
CanIterate(n, V, base, step) ==
    \E g \in [0 .. n -> V] : g[0] = base /\ \A i \in 1 .. n : g[i] = step[i][g[i - 1]]
\* Such an iteration exists.
LEMMA Iteration ==
    ASSUME NEW n \in Nat, NEW V, NEW base \in V, NEW step \in [1 .. n -> [V -> V]]
    PROVE  CanIterate(n, V, base, step)
<1> DEFINE Iterates(m, g) == g[0] = base /\ \A i \in 1 .. m : g[i] = step[i][g[i - 1]]
           S == {m \in 0 .. n : \E g \in [0 .. m -> V] : Iterates(m, g)}
<1>1. 0 \in S
  <2>1. [i \in 0 .. 0 |-> base] \in [0 .. 0 -> V] /\ Iterates(0, [i \in 0 .. 0 |-> base])
    OBVIOUS
  <2>2. 0 \in 0 .. n
    OBVIOUS
  <2> QED
    BY <2>1, <2>2
<1>2. ASSUME NEW m \in 0 .. n, m \in S, m < n
      PROVE  m + 1 \in S
  <2>1. PICK g \in [0 .. m -> V] : Iterates(m, g)
    BY <1>2
  <2> DEFINE f == [i \in 0 .. m + 1 |-> IF i <= m THEN g[i] ELSE step[i][g[i - 1]]]
  <2>2. m + 1 \in 1 .. n /\ step[m + 1] \in [V -> V] /\ g[m] \in V
    BY <1>2
  <2>3. f \in [0 .. m + 1 -> V]
    BY <2>1, <2>2
  <2>4. f[0] = base
    BY <2>1
  <2>5. \A i \in 1 .. m + 1 : f[i] = step[i][f[i - 1]]
    BY <2>1, <2>2
  <2>6. Iterates(m + 1, f)
    BY <2>4, <2>5
  <2>7. \E h \in [0 .. m + 1 -> V] : Iterates(m + 1, h)
    BY <2>3, <2>6
  <2>8. m + 1 \in 0 .. n
    BY <2>2
  <2> QED
    BY <2>7, <2>8
<1>3. n \in S
  <2> HIDE DEF S
  <2>1. S \subseteq 0 .. n
    BY DEF S
  <2>2. \A i \in 0 .. n : i \in S /\ i < n => i + 1 \in S
    BY <1>2
  <2>3. S = 0 .. n
    BY <1>1, <2>1, <2>2, UpTo
  <2> QED
    BY <2>3
<1> QED
  BY <1>3 DEF CanIterate

\* A row that a map is recovered with.
LEMMA FirstFounds ==
    ASSUME NEW k \in Keys
    PROVE  /\ First(k) \in Founds
           /\ First(k).val = NoValue => First(k) = NotThere
<1>1. <<NoTxn, 0>> \in Values /\ <<NoTxn, 0>> # NoValue /\ NotThere \in Founds
  BY NobodyAssumption DEF Values, NotThere, Founds
<1>2. FirstLsn \in Nat
  BY DEF FirstLsn
<1> QED
  BY <1>1, <1>2 DEF First, Recoveree, Founds

\* Redo of one change leaves the rows of other keys alone; that of an update or a delete
\* does not look at the row.
LEMMA RedoOfOne ==
    ASSUME NEW r \in Records, NEW k \in Keys, NEW row \in Founds, NEW c \in LoggedOps
    PROVE  /\ RedoOne(k, r, row, c) \in Founds
           /\ c.key # k => RedoOne(k, r, row, c) = row
           /\ c.key = k /\ c.kind = "delete" => RedoOne(k, r, row, c) = NotThere
           /\ c.key = k /\ c.kind = "update" =>
                 RedoOne(k, r, row, c) = [val |-> c.val, lsn |-> r.lsn]
           /\ c.key = k /\ c.kind = "insert" /\ row = NotThere =>
                 RedoOne(k, r, row, c) = [val |-> c.val, lsn |-> r.lsn]
<1>1. c.kind \in {"insert", "update", "delete"} /\ c.val \in Values /\ r.lsn \in Nat
  BY DEF LoggedOps, Records
<1>2. NotThere \in Founds /\ [val |-> c.val, lsn |-> r.lsn] \in Founds
  BY <1>1 DEF Founds, NotThere, Values
<1> QED
  BY <1>1, <1>2 DEF RedoOne

\* Redo of a record goes from change to change.
RedoneBy(k, row, r, h) ==
    /\ h \in [0 .. Len(r.changes) -> Founds]
    /\ h[0] = row
    /\ \A i \in 1 .. Len(r.changes) : h[i] = RedoOne(k, r, h[i - 1], r.changes[i])

\* Redo of a record goes through its changes in steps, each of which leaves something to find.
LEMMA RedoInSteps ==
    ASSUME NEW r \in Records, NEW k \in Keys, NEW row \in Founds
    PROVE  \E h : RedoneBy(k, row, r, h) /\ RedoRecord(k, row, r) = h[Len(r.changes)]
<1> DEFINE n == Len(r.changes)
<1>1. /\ n \in Nat /\ DOMAIN r.changes = 1 .. n
      /\ \A i \in 1 .. n : r.changes[i] \in LoggedOps
  BY DEF Records
<1> DEFINE step == [i \in 1 .. n |-> [w \in Founds |-> RedoOne(k, r, w, r.changes[i])]]
<1>3. \A i \in 1 .. n, w \in Founds : RedoOne(k, r, w, r.changes[i]) \in Founds
  BY <1>1, RedoOfOne
<1>4. step \in [1 .. n -> [Founds -> Founds]]
  BY <1>3
<1>5. PICK g \in [0 .. n -> Founds] :
         g[0] = row /\ \A i \in 1 .. n : g[i] = step[i][g[i - 1]]
  <2>1. n \in Nat
    BY <1>1
  <2> HIDE DEF step, n
  <2>2. CanIterate(n, Founds, row, step)
    BY <1>4, <2>1, Iteration
  <2> QED
    BY <2>2 DEF CanIterate
<1>6. \A i \in 1 .. n : g[i] = RedoOne(k, r, g[i - 1], r.changes[i])
  <2> TAKE i \in 1 .. n
  <2>1. i - 1 \in 0 .. n
    BY <1>1
  <2>2. g[i - 1] \in Founds
    BY <1>5, <2>1
  <2> QED
    BY <1>5, <2>2
<1> DEFINE Goes(f) ==
        f = [i \in 0 .. n |-> IF i = 0 THEN row ELSE RedoOne(k, r, f[i - 1], r.changes[i])]
<1>7. Goes(g)
  <2>1. \A i \in 0 .. n : g[i] = IF i = 0 THEN row ELSE RedoOne(k, r, g[i - 1], r.changes[i])
    BY <1>1, <1>5, <1>6
  <2> QED
    BY <1>5, <2>1
<1> DEFINE h == CHOOSE f : Goes(f)
<1>8. Goes(h)
  BY <1>7
<1>9. RedoRecord(k, row, r) = h[n]
  BY DEF RedoRecord
<1>10. h[0] = row /\ \A i \in 1 .. n : h[i] = RedoOne(k, r, h[i - 1], r.changes[i])
  <2> HIDE DEF h
  <2>1. 0 \in 0 .. n /\ \A i \in 1 .. n : i \in 0 .. n /\ i # 0
    BY <1>1
  <2>2. \A i \in 0 .. n : h[i] = IF i = 0 THEN row ELSE RedoOne(k, r, h[i - 1], r.changes[i])
    BY <1>8
  <2> QED
    BY <2>1, <2>2
<1>11. \A i \in 0 .. n : h[i] \in Founds
  <2> HIDE DEF h
  <2> DEFINE S == {i \in 0 .. n : h[i] \in Founds}
  <2>1. 0 \in S
    BY <1>1, <1>10
  <2>2. ASSUME NEW i \in 0 .. n, i \in S, i < n
        PROVE  i + 1 \in S
    <3>1. i + 1 \in 1 .. n /\ i + 1 \in 0 .. n /\ (i + 1) - 1 = i
      BY <1>1, <2>2
    <3>2. h[i + 1] = RedoOne(k, r, h[i], r.changes[i + 1])
      BY <1>10, <3>1
    <3> QED
      BY <1>3, <2>2, <3>1, <3>2
  <2> HIDE DEF S
  <2>3. S = 0 .. n
    <3>1. S \subseteq 0 .. n
      BY DEF S
    <3>2. \A i \in 0 .. n : i \in S /\ i < n => i + 1 \in S
      BY <2>2
    <3> QED
      BY <1>1, <2>1, <3>1, <3>2, UpTo
  <2> QED
    BY <2>3 DEF S
<1>12. h \in [0 .. n -> Founds]
  <2> HIDE DEF h
  <2>1. DOMAIN h = 0 .. n
    BY <1>8
  <2>2. h = [i \in 0 .. n |-> h[i]]
    BY <1>8, <2>1
  <2> QED
    BY <1>11, <2>2
<1> QED
  BY <1>9, <1>10, <1>12 DEF RedoneBy

\* What is the same from step to step is the same at the end.
LEMMA Unmoved ==
    ASSUME NEW h, NEW a \in Nat, NEW b \in Nat, a <= b, \A i \in a + 1 .. b : h[i] = h[i - 1]
    PROVE  h[b] = h[a]
<1> DEFINE S == {d \in 0 .. b - a : h[a + d] = h[a]}
<1>1. b - a \in Nat /\ S \subseteq 0 .. b - a /\ 0 \in S
  OBVIOUS
<1>2. ASSUME NEW d \in 0 .. b - a, d \in S, d < b - a
      PROVE  d + 1 \in S
  <2>1. a + (d + 1) \in a + 1 .. b /\ (a + (d + 1)) - 1 = a + d /\ d + 1 \in 0 .. b - a
    BY <1>2
  <2> QED
    BY <1>2, <2>1
<1>3. S = 0 .. b - a
  <2> HIDE DEF S
  <2> QED
    BY <1>1, <1>2, UpTo
<1>4. b - a \in S /\ a + (b - a) = b
  <2>1. b - a \in 0 .. b - a /\ a + (b - a) = b
    BY <1>1
  <2> HIDE DEF S
  <2> QED
    BY <1>3, <2>1
<1> QED
  BY <1>4

\* Redo of a record leaves the rows alone that it does not touch; the last change to a row
\* tells what it makes of that one, if it is not an insert over a row that is there.
LEMMA RedoOfRecord ==
    ASSUME NEW r \in Records, NEW k \in Keys, NEW row \in Founds
    PROVE  /\ RedoRecord(k, row, r) \in Founds
           /\ ~Touches(r, k) => RedoRecord(k, row, r) = row
           /\ \A d \in DOMAIN r.changes :
                 r.changes[d].key = k /\ (\A e \in DOMAIN r.changes : e > d => r.changes[e].key # k) =>
                   /\ r.changes[d].kind = "delete" => RedoRecord(k, row, r) = NotThere
                   /\ r.changes[d].kind = "update" =>
                         RedoRecord(k, row, r) = [val |-> r.changes[d].val, lsn |-> r.lsn]
                   /\ r.changes[d].kind = "insert" /\ row = NotThere
                      /\ (\A e \in DOMAIN r.changes : e < d => r.changes[e].key # k) =>
                         RedoRecord(k, row, r) = [val |-> r.changes[d].val, lsn |-> r.lsn]
<1> DEFINE n == Len(r.changes)
<1>1. /\ n \in Nat /\ DOMAIN r.changes = 1 .. n
      /\ \A i \in 1 .. n : r.changes[i] \in LoggedOps
  BY DEF Records
<1>2. PICK h : RedoneBy(k, row, r, h) /\ RedoRecord(k, row, r) = h[n]
  BY RedoInSteps
<1>3. /\ h[0] = row /\ \A i \in 0 .. n : h[i] \in Founds
      /\ \A i \in 1 .. n : h[i] = RedoOne(k, r, h[i - 1], r.changes[i])
  BY <1>2 DEF RedoneBy
<1>4. \A i \in 1 .. n : r.changes[i].key # k => h[i] = h[i - 1]
  <2> TAKE i \in 1 .. n
  <2>1. i - 1 \in 0 .. n
    BY <1>1
  <2> QED
    BY <1>1, <1>3, <2>1, RedoOfOne
<1>5. h[n] \in Founds
  BY <1>1, <1>3
<1>6. ASSUME ~Touches(r, k)
      PROVE  h[n] = row
  <2>1. \A i \in 0 + 1 .. n : h[i] = h[i - 1]
    BY <1>1, <1>4, <1>6 DEF Touches
  <2>2. 0 \in Nat /\ 0 <= n
    BY <1>1
  <2>3. h[n] = h[0]
    <3> HIDE DEF n
    <3> QED
      BY <1>1, <2>1, <2>2, Unmoved
  <2> QED
    BY <1>3, <2>3
<1>7. ASSUME NEW d \in 1 .. n, r.changes[d].key = k, \A e \in 1 .. n : e > d => r.changes[e].key # k
      PROVE  /\ r.changes[d].kind = "delete" => h[n] = NotThere
             /\ r.changes[d].kind = "update" => h[n] = [val |-> r.changes[d].val, lsn |-> r.lsn]
             /\ r.changes[d].kind = "insert" /\ row = NotThere
                /\ (\A e \in 1 .. n : e < d => r.changes[e].key # k) =>
                   h[n] = [val |-> r.changes[d].val, lsn |-> r.lsn]
  <2>1. d \in Nat /\ d - 1 \in Nat /\ d <= n /\ d - 1 \in 0 .. n /\ r.changes[d] \in LoggedOps
    BY <1>1
  <2>2. h[n] = h[d]
    <3>1. \A i \in d + 1 .. n : h[i] = h[i - 1]
      BY <1>1, <1>4, <1>7, <2>1
    <3> HIDE DEF n
    <3> QED
      BY <1>1, <2>1, <3>1, Unmoved
  <2>3. h[d] = RedoOne(k, r, h[d - 1], r.changes[d]) /\ h[d - 1] \in Founds
    BY <1>3, <2>1
  <2>4. (\A e \in 1 .. n : e < d => r.changes[e].key # k) => h[d - 1] = row
    <3> SUFFICES ASSUME \A e \in 1 .. n : e < d => r.changes[e].key # k
                 PROVE  h[d - 1] = row
      OBVIOUS
    <3>1. \A i \in 0 + 1 .. d - 1 : h[i] = h[i - 1]
      BY <1>1, <1>4, <2>1
    <3>2. h[d - 1] = h[0]
      <4>1. 0 \in Nat /\ 0 <= d - 1
        BY <2>1
      <4> QED
        BY <2>1, <3>1, <4>1, Unmoved
    <3> QED
      BY <1>3, <3>2
  <2> QED
    BY <1>7, <2>1, <2>2, <2>3, <2>4, RedoOfOne
<1> HIDE DEF n
<1> QED
  BY <1>1, <1>2, <1>5, <1>6, <1>7

\* Redo of the log goes from record to record.
RedoneAlong(k, records, applied, h) ==
    /\ h \in [0 .. Len(records) -> Founds]
    /\ h[0] = First(k)
    /\ \A i \in 1 .. Len(records) :
          h[i] = IF i \in applied THEN RedoRecord(k, h[i - 1], records[i]) ELSE h[i - 1]

\* Redo of the log goes through its records in steps.
LEMMA RedoLogInSteps ==
    ASSUME NEW records \in Seq(Records), NEW applied, NEW k \in Keys
    PROVE  \E h : RedoneAlong(k, records, applied, h) /\ RedoLog(k, records, applied) = h[Len(records)]
<1> DEFINE n == Len(records)
           Next1(w, i) == IF i \in applied THEN RedoRecord(k, w, records[i]) ELSE w
<1>1. /\ n \in Nat /\ DOMAIN records = 1 .. n
      /\ \A i \in 1 .. n : records[i] \in Records
  OBVIOUS
<1>2. First(k) \in Founds
  BY FirstFounds
<1> DEFINE step == [i \in 1 .. n |-> [w \in Founds |-> Next1(w, i)]]
<1>3. \A i \in 1 .. n, w \in Founds : Next1(w, i) \in Founds
  BY <1>1, RedoOfRecord
<1>4. step \in [1 .. n -> [Founds -> Founds]]
  BY <1>3
<1>5. PICK g \in [0 .. n -> Founds] :
         g[0] = First(k) /\ \A i \in 1 .. n : g[i] = step[i][g[i - 1]]
  <2>1. n \in Nat
    BY <1>1
  <2> HIDE DEF step, n
  <2>2. CanIterate(n, Founds, First(k), step)
    BY <1>2, <1>4, <2>1, Iteration
  <2> QED
    BY <2>2 DEF CanIterate
<1>6. \A i \in 1 .. n : g[i] = Next1(g[i - 1], i)
  <2> TAKE i \in 1 .. n
  <2>1. i - 1 \in 0 .. n
    BY <1>1
  <2>2. g[i - 1] \in Founds
    BY <1>5, <2>1
  <2> HIDE DEF Next1
  <2> QED
    BY <1>5, <2>2
<1> DEFINE Goes(f) == f = [i \in 0 .. n |-> IF i = 0 THEN First(k) ELSE Next1(f[i - 1], i)]
<1>7. Goes(g)
  <2> HIDE DEF Next1
  <2>1. \A i \in 0 .. n : g[i] = IF i = 0 THEN First(k) ELSE Next1(g[i - 1], i)
    BY <1>1, <1>5, <1>6
  <2> QED
    BY <1>5, <2>1
<1> DEFINE h == CHOOSE f : Goes(f)
<1>8. Goes(h)
  BY <1>7
<1>9. RedoLog(k, records, applied) = h[n]
  <2> DEFINE Goes2(f) ==
        f = [i \in 0 .. n |-> IF i = 0 THEN First(k)
                              ELSE IF i \in applied THEN RedoRecord(k, f[i - 1], records[i])
                              ELSE f[i - 1]]
  <2>1. \A f : Goes(f) <=> Goes2(f)
    OBVIOUS
  <2>2. (CHOOSE f : Goes(f)) = (CHOOSE f : Goes2(f))
    <3> HIDE DEF Goes, Goes2
    <3> QED
      BY <2>1
  <2>3. RedoLog(k, records, applied) = (CHOOSE f : Goes2(f))[n]
    BY DEF RedoLog
  <2> QED
    BY <2>2, <2>3
<1>10. h[0] = First(k) /\ \A i \in 1 .. n : h[i] = Next1(h[i - 1], i)
  <2> HIDE DEF h, Next1
  <2>1. 0 \in 0 .. n /\ \A i \in 1 .. n : i \in 0 .. n /\ i # 0
    BY <1>1
  <2>2. \A i \in 0 .. n : h[i] = IF i = 0 THEN First(k) ELSE Next1(h[i - 1], i)
    BY <1>8
  <2> QED
    BY <2>1, <2>2
<1>11. \A i \in 0 .. n : h[i] \in Founds
  <2> HIDE DEF h, Next1
  <2> DEFINE S == {i \in 0 .. n : h[i] \in Founds}
  <2>1. 0 \in S
    BY <1>1, <1>2, <1>10
  <2>2. ASSUME NEW i \in 0 .. n, i \in S, i < n
        PROVE  i + 1 \in S
    <3>1. i + 1 \in 1 .. n /\ i + 1 \in 0 .. n /\ (i + 1) - 1 = i
      BY <1>1, <2>2
    <3>2. h[i + 1] = Next1(h[i], i + 1)
      BY <1>10, <3>1
    <3> QED
      BY <1>3, <2>2, <3>1, <3>2
  <2> HIDE DEF S
  <2>3. S = 0 .. n
    <3>1. S \subseteq 0 .. n
      BY DEF S
    <3>2. \A i \in 0 .. n : i \in S /\ i < n => i + 1 \in S
      BY <2>2
    <3> QED
      BY <1>1, <2>1, <3>1, <3>2, UpTo
  <2> QED
    BY <2>3 DEF S
<1>12. h \in [0 .. n -> Founds]
  <2> HIDE DEF h, Next1
  <2>1. DOMAIN h = 0 .. n
    BY <1>8
  <2>2. h = [i \in 0 .. n |-> h[i]]
    BY <1>8, <2>1
  <2> QED
    BY <1>11, <2>2
<1>13. RedoneAlong(k, records, applied, h)
  <2> HIDE DEF h
  <2> QED
    BY <1>10, <1>12 DEF RedoneAlong
<1> QED
  BY <1>9, <1>13

\* Redo of two logs goes the same way as far as they are the same.
LEMMA RedoneTheSame ==
    ASSUME NEW q1 \in Seq(Records), NEW q2 \in Seq(Records), NEW a1, NEW a2, NEW k \in Keys,
           NEW h1, NEW h2, RedoneAlong(k, q1, a1, h1), RedoneAlong(k, q2, a2, h2),
           NEW n \in Nat, n <= Len(q1), n <= Len(q2),
           \A i \in 1 .. n : q1[i] = q2[i] /\ (i \in a1 <=> i \in a2)
    PROVE  h1[n] = h2[n]
<1> DEFINE S == {i \in 0 .. n : h1[i] = h2[i]}
<1>1. S \subseteq 0 .. n /\ 0 \in S
  BY DEF RedoneAlong
<1>2. ASSUME NEW i \in 0 .. n, i \in S, i < n
      PROVE  i + 1 \in S
  <2>1. /\ i + 1 \in 1 .. n /\ i + 1 \in 0 .. n /\ (i + 1) - 1 = i
        /\ i + 1 \in 1 .. Len(q1) /\ i + 1 \in 1 .. Len(q2)
    BY <1>2
  <2>2. h1[i + 1] = IF i + 1 \in a1 THEN RedoRecord(k, h1[i], q1[i + 1]) ELSE h1[i]
    BY <2>1 DEF RedoneAlong
  <2>3. h2[i + 1] = IF i + 1 \in a2 THEN RedoRecord(k, h2[i], q2[i + 1]) ELSE h2[i]
    BY <2>1 DEF RedoneAlong
  <2>4. h1[i] = h2[i] /\ q1[i + 1] = q2[i + 1] /\ (i + 1 \in a1 <=> i + 1 \in a2)
    BY <1>2, <2>1
  <2> QED
    BY <2>1, <2>2, <2>3, <2>4
<1>3. n \in S
  <2> HIDE DEF S
  <2>1. S = 0 .. n
    BY <1>1, <1>2, UpTo
  <2> QED
    BY <2>1
<1> QED
  BY <1>3

\* A record that the map has yet to follow changes nothing in what would be recovered.
LEMMA RedoOfMore ==
    ASSUME NEW records \in Seq(Records), NEW applied, applied \subseteq DOMAIN records,
           NEW r \in Records, NEW k \in Keys
    PROVE  RedoLog(k, Append(records, r), applied) = RedoLog(k, records, applied)
<1> DEFINE n == Len(records)
           more == Append(records, r)
<1>1. /\ n \in Nat /\ DOMAIN records = 1 .. n /\ more \in Seq(Records) /\ Len(more) = n + 1
      /\ \A i \in 1 .. n : more[i] = records[i]
  OBVIOUS
<1>2. PICK h : RedoneAlong(k, records, applied, h) /\ RedoLog(k, records, applied) = h[n]
  BY RedoLogInSteps
<1>3. PICK g : RedoneAlong(k, more, applied, g) /\ RedoLog(k, more, applied) = g[n + 1]
  <2> HIDE DEF more, n
  <2>1. PICK g : RedoneAlong(k, more, applied, g) /\ RedoLog(k, more, applied) = g[Len(more)]
    BY <1>1, RedoLogInSteps
  <2> QED
    BY <1>1, <2>1
<1>4. g[n] = h[n]
  <2>1. n <= Len(more) /\ n <= n /\ \A i \in 1 .. n : more[i] = records[i]
    BY <1>1
  <2> HIDE DEF more
  <2> QED
    BY <1>1, <1>2, <1>3, <2>1, RedoneTheSame, SMTT(30)
<1>5. g[n + 1] = g[n]
  <2>1. n + 1 \in 1 .. Len(more) /\ (n + 1) - 1 = n /\ n + 1 \notin applied
    BY <1>1
  <2> HIDE DEF more, n
  <2> QED
    BY <1>3, <2>1 DEF RedoneAlong
<1> QED
  BY <1>2, <1>3, <1>4, <1>5

\* When the map follows one more record, that is redone last, if no later one touches its
\* rows.
LEMMA RedoOfOneMore ==
    ASSUME NEW records \in Seq(Records), NEW applied, NEW k \in Keys,
           NEW p \in DOMAIN records, p \notin applied,
           Touches(records[p], k) => \A j \in DOMAIN records : j > p => ~Touches(records[j], k)
    PROVE  RedoLog(k, records, applied \cup {p})
              = RedoRecord(k, RedoLog(k, records, applied), records[p])
<1> DEFINE n == Len(records)
           more == applied \cup {p}
<1>1. /\ n \in Nat /\ DOMAIN records = 1 .. n /\ p \in 1 .. n /\ p - 1 \in Nat /\ p \in Nat
      /\ p - 1 <= n /\ p <= n
      /\ \A i \in 1 .. n : records[i] \in Records
  OBVIOUS
<1>2. PICK h : RedoneAlong(k, records, applied, h) /\ RedoLog(k, records, applied) = h[n]
  BY RedoLogInSteps
<1>3. PICK g : RedoneAlong(k, records, more, g) /\ RedoLog(k, records, more) = g[n]
  BY RedoLogInSteps
<1>4. g[p - 1] = h[p - 1]
  <2>1. \A i \in 1 .. p - 1 : records[i] = records[i] /\ (i \in more <=> i \in applied)
    BY <1>1
  <2>2. p - 1 \in Nat /\ p - 1 <= Len(records)
    BY <1>1
  <2> HIDE DEF more, n
  <2> QED
    BY <1>2, <1>3, <2>1, <2>2, RedoneTheSame, SMTT(30)
<1>5. h[p] = h[p - 1] /\ g[p] = RedoRecord(k, g[p - 1], records[p])
  BY <1>1, <1>2, <1>3 DEF RedoneAlong
<1>6. \A i \in 0 .. n : h[i] \in Founds /\ g[i] \in Founds
  BY <1>2, <1>3 DEF RedoneAlong
<1>7. CASE Touches(records[p], k)
  <2>1. \A i \in p + 1 .. n : h[i] = h[i - 1] /\ g[i] = g[i - 1]
    <3> TAKE i \in p + 1 .. n
    <3>1. i \in 1 .. n /\ i > p /\ i - 1 \in 0 .. n
      BY <1>1
    <3>2. records[i] \in Records /\ ~Touches(records[i], k)
      BY <1>1, <1>7, <3>1
    <3>3. h[i - 1] \in Founds /\ g[i - 1] \in Founds
      BY <1>6, <3>1
    <3>4. /\ RedoRecord(k, h[i - 1], records[i]) = h[i - 1]
          /\ RedoRecord(k, g[i - 1], records[i]) = g[i - 1]
      BY <3>2, <3>3, RedoOfRecord
    <3> HIDE DEF more
    <3> QED
      BY <1>2, <1>3, <3>1, <3>4 DEF RedoneAlong
  <2>2. h[n] = h[p] /\ g[n] = g[p]
    <3> HIDE DEF n, more
    <3> QED
      BY <1>1, <2>1, Unmoved
  <2> QED
    BY <1>2, <1>3, <1>4, <1>5, <2>2
<1>8. CASE ~Touches(records[p], k)
  <2>1. g[p] = h[p]
    <3>1. g[p - 1] \in Founds /\ records[p] \in Records
      BY <1>1, <1>6
    <3> QED
      BY <1>4, <1>5, <1>8, <3>1, RedoOfRecord
  <2> DEFINE S == {d \in 0 .. n - p : g[p + d] = h[p + d]}
  <2>2. S \subseteq 0 .. n - p /\ 0 \in S /\ n - p \in Nat
    BY <1>1, <2>1
  <2>3. ASSUME NEW d \in 0 .. n - p, d \in S, d < n - p
        PROVE  d + 1 \in S
    <3>1. /\ p + (d + 1) \in 1 .. n /\ (p + (d + 1)) - 1 = p + d /\ d + 1 \in 0 .. n - p
          /\ p + (d + 1) # p
      BY <1>1, <2>3
    <3>2. p + (d + 1) \in more <=> p + (d + 1) \in applied
      BY <3>1
    <3>3. h[p + (d + 1)] = IF p + (d + 1) \in applied
                           THEN RedoRecord(k, h[p + d], records[p + (d + 1)]) ELSE h[p + d]
      BY <1>2, <3>1 DEF RedoneAlong
    <3>4. g[p + (d + 1)] = IF p + (d + 1) \in more
                           THEN RedoRecord(k, g[p + d], records[p + (d + 1)]) ELSE g[p + d]
      <4> HIDE DEF more
      <4> QED
        BY <1>3, <3>1 DEF RedoneAlong
    <3> QED
      BY <2>3, <3>1, <3>2, <3>3, <3>4
  <2>4. n - p \in S
    <3>1. n - p \in 0 .. n - p
      BY <2>2
    <3> HIDE DEF S, n
    <3>2. S = 0 .. n - p
      BY <2>2, <2>3, UpTo
    <3> QED
      BY <3>1, <3>2
  <2>5. g[n] = h[n]
    BY <1>1, <2>4
  <2>6. RedoRecord(k, h[n], records[p]) = h[n]
    <3>1. h[n] \in Founds /\ records[p] \in Records
      BY <1>1, <1>6
    <3> QED
      BY <1>8, <3>1, RedoOfRecord
  <2> QED
    BY <1>2, <1>3, <2>5, <2>6
<1> QED
  BY <1>7, <1>8

-----------------------------------------------------------------------------
\* Lemmas about what a transaction writes to the log

\* An operation that is written is one of those that redo knows.
LEMMA LoggedOpsAreTyped ==
    ASSUME Typed, NEW o \in Ops, o.kind # "lock"
    PROVE  LoggedOp(o) \in LoggedOps
<1>1. o.kind \in Marks \ {"none"} /\ o.key \in Keys /\ o.val \in Values
  BY DEF Ops
<1>2. o.kind \in {"insert", "update", "delete"}
  BY <1>1 DEF Marks
<1>3. rows[o.key].val \in Values
  BY <1>1 DEF Typed, TypeOK, Rows
<1> QED
  BY <1>1, <1>2, <1>3 DEF LoggedOp, LoggedOps

\* q holds what the first m operations of t write: f tells the operation of each change.
IsCopied(t, m, q, f) ==
    /\ q \in Seq(LoggedOps)
    /\ f \in [1 .. Len(q) -> 1 .. m]
    /\ \A d, e \in 1 .. Len(q) : d < e => f[d] < f[e]
    /\ \A d \in 1 .. Len(q) : ops[t][f[d]].kind # "lock" /\ q[d] = LoggedOp(ops[t][f[d]])
    /\ \A i \in 1 .. m : ops[t][i].kind # "lock" => \E d \in 1 .. Len(q) : f[d] = i

\* The next operation is written after the others.
LEMMA CopiesGoOn ==
    ASSUME Typed, NEW t \in Txns, NEW m \in Nat, m + 1 \in DOMAIN ops[t], NEW q, NEW f,
           IsCopied(t, m, q, f), ops[t][m + 1].kind # "lock"
    PROVE  \E g : IsCopied(t, m + 1, Append(q, LoggedOp(ops[t][m + 1])), g)
<1> DEFINE o == ops[t][m + 1]
           c == LoggedOp(o)
           n == Len(q)
           more == Append(q, c)
           g == [d \in 1 .. n + 1 |-> IF d = n + 1 THEN m + 1 ELSE f[d]]
<1>1. o \in Ops
  BY DEF Typed, TypeOK
<1>2. c \in LoggedOps
  BY <1>1, LoggedOpsAreTyped
<1>3. q \in Seq(LoggedOps) /\ n \in Nat
  BY DEF IsCopied
<1>4. /\ more \in Seq(LoggedOps) /\ Len(more) = n + 1 /\ more[n + 1] = c
      /\ \A d \in 1 .. n : more[d] = q[d]
  <2> HIDE DEF c
  <2> QED
    BY <1>2, <1>3
<1> HIDE DEF c, more, n
<1>5. \A d \in 1 .. n : f[d] \in 1 .. m /\ g[d] = f[d] /\ d \in 1 .. n + 1 /\ d # n + 1
  BY <1>3 DEF IsCopied, n
<1>6. g[n + 1] = m + 1 /\ \A d \in 1 .. n + 1 : d \in 1 .. n \/ d = n + 1
  BY <1>3
<1>7. g \in [1 .. n + 1 -> 1 .. m + 1]
  <2>1. \A d \in 1 .. n + 1 : g[d] \in 1 .. m + 1
    BY <1>5, <1>6
  <2> QED
    BY <2>1
<1> HIDE DEF g
<1>8. ASSUME NEW d \in 1 .. n + 1, NEW e \in 1 .. n + 1, d < e
      PROVE  g[d] < g[e]
  <2>1. d \in 1 .. n
    BY <1>3, <1>8
  <2>2. CASE e \in 1 .. n
    BY <1>5, <1>8, <2>1, <2>2 DEF IsCopied, n
  <2>3. CASE e = n + 1
    BY <1>5, <1>6, <2>1, <2>3
  <2> QED
    BY <1>6, <2>2, <2>3
<1>9. \A d \in 1 .. n + 1 : ops[t][g[d]].kind # "lock" /\ more[d] = LoggedOp(ops[t][g[d]])
  <2> TAKE d \in 1 .. n + 1
  <2>1. CASE d \in 1 .. n
    BY <1>4, <1>5, <2>1 DEF IsCopied, n
  <2>2. CASE d = n + 1
    BY <1>4, <1>6, <2>2 DEF c
  <2> QED
    BY <1>6, <2>1, <2>2
<1>10. ASSUME NEW i \in 1 .. m + 1, ops[t][i].kind # "lock"
       PROVE  \E d \in 1 .. n + 1 : g[d] = i
  <2>1. CASE i \in 1 .. m
    <3>1. PICK d \in 1 .. n : f[d] = i
      BY <1>10, <2>1 DEF IsCopied, n
    <3> QED
      BY <1>5, <3>1
  <2>2. CASE i = m + 1
    <3>1. n + 1 \in 1 .. n + 1
      BY <1>3
    <3> QED
      BY <1>6, <2>2, <3>1
  <2>3. i \in 1 .. m \/ i = m + 1
    OBVIOUS
  <2> QED
    BY <2>1, <2>2, <2>3
<1>11. IsCopied(t, m + 1, more, g)
  BY <1>4, <1>7, <1>8, <1>9, <1>10 DEF IsCopied
<1> QED
  BY <1>11 DEF more, c

\* What is written goes from operation to operation.
LEMMA LoggedInSteps ==
    ASSUME Typed, NEW t \in Txns
    PROVE  \E h : /\ h[0] = <<>>
                  /\ \A i \in 1 .. Len(ops[t]) :
                        h[i] = IF ops[t][i].kind = "lock" THEN h[i - 1]
                               ELSE Append(h[i - 1], LoggedOp(ops[t][i]))
                  /\ Logged(t) = h[Len(ops[t])]
<1> DEFINE n == Len(ops[t])
           V == Seq(LoggedOps)
           Next1(w, i) == IF ops[t][i].kind = "lock" THEN w ELSE Append(w, LoggedOp(ops[t][i]))
<1>1. n \in Nat /\ \A i \in 1 .. n : ops[t][i] \in Ops
  BY DEF Typed, TypeOK
<1> DEFINE step == [i \in 1 .. n |-> [w \in V |-> Next1(w, i)]]
<1>3. \A i \in 1 .. n, w \in V : Next1(w, i) \in V
  <2> TAKE i \in 1 .. n, w \in V
  <2>1. CASE ops[t][i].kind # "lock"
    <3>1. LoggedOp(ops[t][i]) \in LoggedOps
      BY <1>1, <2>1, LoggedOpsAreTyped
    <3> HIDE DEF n
    <3> QED
      BY <2>1, <3>1
  <2> QED
    BY <2>1
<1>4. step \in [1 .. n -> [V -> V]]
  <2> HIDE DEF Next1, V
  <2> QED
    BY <1>3
<1>5. PICK g \in [0 .. n -> V] : g[0] = <<>> /\ \A i \in 1 .. n : g[i] = step[i][g[i - 1]]
  <2>1. n \in Nat /\ <<>> \in V
    BY <1>1
  <2> HIDE DEF step, n, V
  <2>2. CanIterate(n, V, <<>>, step)
    BY <1>4, <2>1, Iteration
  <2> QED
    BY <2>2 DEF CanIterate
<1>6. \A i \in 1 .. n : g[i] = Next1(g[i - 1], i)
  <2> TAKE i \in 1 .. n
  <2>1. i - 1 \in 0 .. n
    BY <1>1
  <2> HIDE DEF V, Next1
  <2>2. g[i - 1] \in V
    BY <1>5, <2>1
  <2> QED
    BY <1>5, <2>2
<1> DEFINE Goes(f) == f = [i \in 0 .. n |-> IF i = 0 THEN <<>> ELSE Next1(f[i - 1], i)]
<1>7. Goes(g)
  <2> HIDE DEF Next1, V
  <2>1. \A i \in 0 .. n : g[i] = IF i = 0 THEN <<>> ELSE Next1(g[i - 1], i)
    BY <1>1, <1>5, <1>6
  <2> QED
    BY <1>5, <2>1
<1> DEFINE h == CHOOSE f : Goes(f)
<1>8. Goes(h)
  BY <1>7
<1>9. Logged(t) = h[n]
  <2> DEFINE Goes2(f) ==
        f = [i \in 0 .. n |-> IF i = 0 THEN <<>>
                              ELSE IF ops[t][i].kind = "lock" THEN f[i - 1]
                              ELSE Append(f[i - 1], LoggedOp(ops[t][i]))]
  <2>1. \A f : Goes(f) <=> Goes2(f)
    OBVIOUS
  <2>2. (CHOOSE f : Goes(f)) = (CHOOSE f : Goes2(f))
    <3> HIDE DEF Goes, Goes2
    <3> QED
      BY <2>1
  <2>3. Logged(t) = (CHOOSE f : Goes2(f))[n]
    BY DEF Logged
  <2> QED
    BY <2>2, <2>3
<1>10. h[0] = <<>> /\ \A i \in 1 .. n : h[i] = Next1(h[i - 1], i)
  <2> HIDE DEF h, Next1
  <2>1. 0 \in 0 .. n /\ \A i \in 1 .. n : i \in 0 .. n /\ i # 0
    BY <1>1
  <2>2. \A i \in 0 .. n : h[i] = IF i = 0 THEN <<>> ELSE Next1(h[i - 1], i)
    BY <1>8
  <2> QED
    BY <2>1, <2>2
<1> HIDE DEF h
<1> QED
  BY <1>9, <1>10

\* The list of changes holds, in their order, all operations but the locks.
LEMMA LoggedCopies ==
    ASSUME Typed, NEW t \in Txns
    PROVE  \E f : IsCopied(t, Len(ops[t]), Logged(t), f)
<1> DEFINE n == Len(ops[t])
<1>1. n \in Nat /\ DOMAIN ops[t] = 1 .. n
  BY DEF Typed, TypeOK
<1>2. PICK h : /\ h[0] = <<>>
               /\ \A i \in 1 .. n : h[i] = IF ops[t][i].kind = "lock" THEN h[i - 1]
                                           ELSE Append(h[i - 1], LoggedOp(ops[t][i]))
               /\ Logged(t) = h[n]
  BY LoggedInSteps
<1> HIDE DEF n
<1> DEFINE Copied(m) == \E f : IsCopied(t, m, h[m], f)
           S == {m \in 0 .. n : Copied(m)}
<1>3. Copied(0)
  <2> DEFINE f == [d \in 1 .. 0 |-> 0]
  <2>1. IsCopied(t, 0, <<>>, f)
    BY DEF IsCopied
  <2> QED
    BY <1>2, <2>1
<1>4. ASSUME NEW m \in 0 .. n, m \in S, m < n
      PROVE  m + 1 \in S
  <2>1. m + 1 \in 1 .. n /\ m + 1 \in 0 .. n /\ (m + 1) - 1 = m /\ m \in Nat
    BY <1>1, <1>4
  <2>2. PICK f : IsCopied(t, m, h[m], f)
    BY <1>4
  <2>3. CASE ops[t][m + 1].kind = "lock"
    <3>1. h[m + 1] = h[m]
      BY <1>2, <2>1, <2>3
    <3>2. f \in [1 .. Len(h[m]) -> 1 .. m + 1]
      BY <2>1, <2>2 DEF IsCopied
    <3>3. \A i \in 1 .. m + 1 : ops[t][i].kind # "lock" => i \in 1 .. m
      BY <2>1, <2>3
    <3>4. IsCopied(t, m + 1, h[m], f)
      BY <2>2, <3>2, <3>3 DEF IsCopied
    <3> QED
      BY <2>1, <3>1, <3>4
  <2>4. CASE ops[t][m + 1].kind # "lock"
    <3>1. h[m + 1] = Append(h[m], LoggedOp(ops[t][m + 1]))
      BY <1>2, <2>1, <2>4
    <3>2. \E g : IsCopied(t, m + 1, Append(h[m], LoggedOp(ops[t][m + 1])), g)
      BY <1>1, <2>1, <2>2, <2>4, CopiesGoOn
    <3> QED
      BY <2>1, <3>1, <3>2
  <2> QED
    BY <2>3, <2>4
<1>5. S = 0 .. n
  <2>1. 0 \in S /\ S \subseteq 0 .. n
    BY <1>1, <1>3
  <2> HIDE DEF S
  <2> QED
    BY <1>1, <1>4, <2>1, UpTo
<1>6. n \in 0 .. n
  BY <1>1
<1>7. Copied(n)
  BY <1>5, <1>6
<1> QED
  BY <1>2, <1>7 DEF n

\* Of the changes on a row the last is that of the transaction's last operation on it; it is
\* the only one if that is the first operation, too.
IsLastChange(q, d, k) == \A e \in DOMAIN q : e > d => q[e].key # k
IsFirstChange(q, d, k) == \A e \in DOMAIN q : e < d => q[e].key # k

\* The record of a transaction tells what redo makes of each row by the last operation on it.
LEMMA LoggedTells ==
    ASSUME Typed, NEW t \in Txns, NEW r, r.changes = Logged(t), NEW k \in Keys
    PROVE  /\ Touches(r, k) => \E i \in On(t, k) : ops[t][i].kind # "lock"
           /\ \A e \in On(t, k) : IsLast(t, e) /\ ops[t][e].kind # "lock" =>
                 \E d \in DOMAIN r.changes :
                    /\ r.changes[d] = LoggedOp(ops[t][e]) /\ IsLastChange(r.changes, d, k)
                    /\ IsFirst(t, e) => IsFirstChange(r.changes, d, k)
<1> DEFINE n == Len(ops[t])
           q == Logged(t)
<1>1. n \in Nat /\ DOMAIN ops[t] = 1 .. n
  BY DEF Typed, TypeOK
<1>2. PICK f : IsCopied(t, n, q, f)
  BY LoggedCopies
<1> HIDE DEF q, n
<1>3. /\ q \in Seq(LoggedOps) /\ DOMAIN q = 1 .. Len(q) /\ Len(q) \in Nat
      /\ \A d \in 1 .. Len(q) :
            /\ f[d] \in 1 .. n /\ ops[t][f[d]].kind # "lock" /\ q[d] = LoggedOp(ops[t][f[d]])
            /\ \A e \in 1 .. Len(q) : d < e => f[d] < f[e]
      /\ \A i \in 1 .. n : ops[t][i].kind # "lock" => \E d \in 1 .. Len(q) : f[d] = i
  BY <1>2 DEF IsCopied
<1>4. \A d \in 1 .. Len(q) : q[d].key = ops[t][f[d]].key
  BY <1>3 DEF LoggedOp
<1>5. \A d \in 1 .. Len(q) : q[d].key = k => f[d] \in On(t, k)
  BY <1>1, <1>3, <1>4 DEF On
<1>6. Touches(r, k) => \E i \in On(t, k) : ops[t][i].kind # "lock"
  BY <1>3, <1>5 DEF Touches, q
<1>7. ASSUME NEW e \in On(t, k), IsLast(t, e), ops[t][e].kind # "lock"
      PROVE  \E d \in 1 .. Len(q) :
                /\ q[d] = LoggedOp(ops[t][e]) /\ IsLastChange(q, d, k)
                /\ IsFirst(t, e) => IsFirstChange(q, d, k)
  <2>1. e \in 1 .. n /\ ops[t][e].key = k /\ \A i \in On(t, k) : i <= e
    BY <1>1, <1>7 DEF On, IsLast
  <2>2. PICK d \in 1 .. Len(q) : f[d] = e
    BY <1>3, <1>7, <2>1
  <2>3. q[d] = LoggedOp(ops[t][e])
    BY <1>3, <2>2
  <2>4. IsLastChange(q, d, k)
    <3> SUFFICES ASSUME NEW c \in 1 .. Len(q), c > d, q[c].key = k PROVE FALSE
      BY <1>3 DEF IsLastChange
    <3>1. f[c] <= e /\ f[d] < f[c]
      BY <1>3, <1>5, <2>1
    <3> QED
      BY <1>3, <2>1, <2>2, <3>1
  <2>5. IsFirst(t, e) => IsFirstChange(q, d, k)
    <3> SUFFICES ASSUME IsFirst(t, e), NEW c \in 1 .. Len(q), c < d, q[c].key = k PROVE FALSE
      BY <1>3 DEF IsFirstChange
    <3>1. e <= f[c] /\ f[c] < f[d]
      BY <1>3, <1>5, <2>1 DEF IsFirst
    <3> QED
      BY <1>3, <2>1, <2>2, <3>1
  <2> QED
    BY <2>3, <2>4, <2>5
<1> QED
  BY <1>3, <1>6, <1>7 DEF q

USE DEF Keys, Pickets, Kinds, RowCalls, map, locks, txn, ending, marks

-----------------------------------------------------------------------------
\* Lists of operations, and what is left of them

\* The greatest of some places in a list.
LEMMA Greatest ==
    ASSUME NEW n \in Nat, NEW S, S \subseteq 1 .. n, S # {}
    PROVE  \E x \in S : \A y \in S : y <= x
<1> DEFINE D == {n - y : y \in S}
<1>0. \A y \in S : n - y \in Nat
  OBVIOUS
<1>1. D \subseteq Nat /\ D # {}
  BY <1>0
<1>2. PICK d \in D : \A e \in D : d <= e
  <2> HIDE DEF D
  <2> QED
    BY <1>1, LeastOfNats
<1>3. PICK x \in S : d = n - x
  BY <1>2
<1>4. \A y \in S : y <= x
  <2> TAKE y \in S
  <2>1. n - x <= n - y
    BY <1>2, <1>3
  <2> QED
    BY <2>1
<1> QED
  BY <1>4

\* What is left of a list of operations is a part of it.
LEMMA LeftIsAPart ==
    ASSUME Typed, NEW t \in Txns
    PROVE  /\ ops[t] \in Seq(Ops) /\ DOMAIN ops[t] = 1 .. Len(ops[t]) /\ Len(ops[t]) \in Nat
           /\ todo[t] \in Seq(Ops) /\ DOMAIN todo[t] = 1 .. Len(todo[t]) /\ Len(todo[t]) \in Nat
           /\ \A i \in DOMAIN ops[t] :
                 /\ ops[t][i] \in Ops /\ ops[t][i].key \in Keys /\ ops[t][i].key \in KeysOf(t)
                 /\ ops[t][i].kind \in {"lock", "insert", "update", "delete"}
                 /\ ops[t][i].val # NoValue /\ ops[t][i].val \in Values
           /\ Left(t) \subseteq DOMAIN ops[t]
<1>1. ops[t] \in Seq(Ops) /\ todo[t] \in Seq(Ops) /\ \A o \in Range(ops[t]) : o.val # NoValue
  BY DEF Typed, TypeOK, Lists, ListsOf
<1>2. \A i \in DOMAIN ops[t] : ops[t][i] \in Ops /\ ops[t][i] \in Range(ops[t])
  BY <1>1 DEF Range
<1>3. \A i \in DOMAIN ops[t] : ops[t][i].key \in KeysOf(t)
  BY DEF KeysOf
<1>4. \A o \in Ops : /\ o.key \in Keys /\ o.kind \in {"lock", "insert", "update", "delete"}
                     /\ o.val \in Values
  BY DEF Ops, Marks
<1>5. /\ DOMAIN ops[t] = 1 .. Len(ops[t]) /\ Len(ops[t]) \in Nat
      /\ DOMAIN todo[t] = 1 .. Len(todo[t]) /\ Len(todo[t]) \in Nat
  BY <1>1
<1>6. Left(t) \subseteq DOMAIN ops[t]
  BY DEF Left
<1> QED
  BY <1>1, <1>2, <1>3, <1>4, <1>5, <1>6

\* All is left until the commit or rollback has its locks.
LEMMA AllIsLeft ==
    ASSUME Typed, NEW t \in Txns, TodoIs(t), ~Ending(t) \/ to_lock[t] # {}
    PROVE  Left(t) = DOMAIN ops[t]
<1>1. /\ DOMAIN ops[t] = 1 .. Len(ops[t]) /\ Len(ops[t]) \in Nat
  BY LeftIsAPart
<1>2. CASE ~Ending(t)
  BY <1>2 DEF Left, Ending
<1>3. CASE Ending(t) /\ to_lock[t] # {}
  <2>1. Len(todo[t]) = Len(ops[t])
    BY <1>3 DEF TodoIs
  <2>2. \A i \in DOMAIN ops[t] : i > Len(ops[t]) - Len(todo[t]) /\ i <= Len(todo[t])
    BY <1>1, <2>1
  <2> QED
    BY <2>2 DEF Left
<1> QED
  BY <1>2, <1>3

\* What is left is what the list to do is made of.
LEMMA LeftIsToDo ==
    ASSUME Typed, NEW t \in Txns, TodoIs(t), Ending(t)
    PROVE  KeysToDo(t) = {ops[t][i].key : i \in Left(t)}
<1> DEFINE n == Len(ops[t])
           m == Len(todo[t])
<1>1. /\ DOMAIN ops[t] = 1 .. n /\ n \in Nat /\ DOMAIN todo[t] = 1 .. m /\ m \in Nat
  BY LeftIsAPart
<1>2. CASE pc[t] = "committing"
  <2>1. m <= n /\ \A d \in 1 .. m : todo[t][d] = ops[t][n - m + d]
    BY <1>2 DEF TodoIs
  <2>2. \A i : i \in Left(t) <=> i \in 1 .. n /\ i > n - m
    BY <1>1, <1>2 DEF Left
  <2> HIDE DEF n, m
  <2>a. \A d \in 1 .. m : n - m + d \in 1 .. n /\ n - m + d > n - m
    BY <1>1, <2>1
  <2>3. \A d \in 1 .. m : n - m + d \in Left(t) /\ todo[t][d].key = ops[t][n - m + d].key
    BY <2>1, <2>2, <2>a
  <2>4. \A i \in Left(t) : i - (n - m) \in 1 .. m /\ todo[t][i - (n - m)].key = ops[t][i].key
    <3> TAKE i \in Left(t)
    <3>1. i - (n - m) \in 1 .. m /\ n - m + (i - (n - m)) = i
      BY <1>1, <2>1, <2>2
    <3> QED
      BY <2>1, <3>1
  <2>5. KeysToDo(t) = {todo[t][d].key : d \in 1 .. m}
    BY <1>1 DEF KeysToDo
  <2>6. KeysToDo(t) \subseteq {ops[t][i].key : i \in Left(t)}
    BY <2>3, <2>5
  <2>7. {ops[t][i].key : i \in Left(t)} \subseteq KeysToDo(t)
    BY <2>4, <2>5
  <2> QED
    BY <2>6, <2>7
<1>3. CASE pc[t] = "rolling back"
  <2>1. m <= n /\ \A d \in 1 .. m : todo[t][d] = ops[t][m + 1 - d]
    BY <1>3 DEF TodoIs
  <2>2. \A i : i \in Left(t) <=> i \in 1 .. n /\ i <= m
    BY <1>1, <1>3 DEF Left
  <2> HIDE DEF n, m
  <2>a. \A d \in 1 .. m : m + 1 - d \in 1 .. n /\ m + 1 - d <= m
    BY <1>1, <2>1
  <2>3. \A d \in 1 .. m : m + 1 - d \in Left(t) /\ todo[t][d].key = ops[t][m + 1 - d].key
    BY <2>1, <2>2, <2>a
  <2>4. \A i \in Left(t) : m + 1 - i \in 1 .. m /\ todo[t][m + 1 - i].key = ops[t][i].key
    <3> TAKE i \in Left(t)
    <3>1. m + 1 - i \in 1 .. m /\ m + 1 - (m + 1 - i) = i
      BY <1>1, <2>1, <2>2
    <3> QED
      BY <2>1, <3>1
  <2>5. KeysToDo(t) = {todo[t][d].key : d \in 1 .. m}
    BY <1>1 DEF KeysToDo
  <2>6. KeysToDo(t) \subseteq {ops[t][i].key : i \in Left(t)}
    BY <2>3, <2>5
  <2>7. {ops[t][i].key : i \in Left(t)} \subseteq KeysToDo(t)
    BY <2>4, <2>5
  <2> QED
    BY <2>6, <2>7
<1> QED
  BY <1>2, <1>3 DEF Ending

\* Who has an operation left on a row has a claim on it.
LEMMA LeftIsClaimed ==
    ASSUME Typed, NEW t \in Txns, TodoIs(t), NEW i \in Left(t)
    PROVE  ops[t][i].key \in Claimed(t)
<1>1. i \in DOMAIN ops[t] /\ ops[t][i].key \in KeysOf(t)
  BY LeftIsAPart
<1>2. CASE Unsettled(t)
  BY <1>1, <1>2 DEF Claimed
<1>3. CASE ~Unsettled(t)
  <2>1. pc[t] \in {"committing", "rolling back", "done"}
    BY <1>3 DEF Unsettled, Unfinished
  <2>2. pc[t] # "done"
    <3>1. ops[t] # <<>>
      BY <1>1
    <3> QED
      BY <3>1 DEF TodoIs
  <2> QED
    BY <1>3, <2>1, <2>2, LeftIsToDo DEF Claimed, Ending
<1> QED
  BY <1>2, <1>3

\* Apply takes the first of what is left to commit, or the last of what is left to roll back.
IsNext(t, p) ==
    /\ p \in Left(t) /\ Head(todo[t]) = ops[t][p] /\ Left(t)' = Left(t) \ {p}
    /\ pc[t] = "committing" => \A i \in DOMAIN ops[t] : i >= p => i \in Left(t)
    /\ pc[t] = "committing" => \A i \in Left(t) : i >= p
    /\ pc[t] = "rolling back" => \A i \in Left(t) : i <= p

\* There is such an operation, and the list goes on to be what is left.
LEMMA ApplyTakesOne ==
    ASSUME Typed, NEW t \in Txns, Apply(t), TodoIs(t)
    PROVE  /\ \E p : IsNext(t, p)
           /\ TodoIs(t)' /\ ops' = ops /\ pc' = pc /\ to_lock[t] = {} /\ Ending(t)
<1> DEFINE n == Len(ops[t])
           m == Len(todo[t])
<1>1. /\ DOMAIN ops[t] = 1 .. n /\ n \in Nat /\ todo[t] \in Seq(Ops) /\ m \in Nat
  BY LeftIsAPart
<1>2. /\ Ending(t) /\ to_lock[t] = {} /\ todo[t] # <<>> /\ todo'[t] = Tail(todo[t])
      /\ ops' = ops /\ pc' = pc /\ to_lock' = to_lock
  <2>1. DOMAIN todo = Txns
    BY DEF Typed, TypeOK
  <2> QED
    BY <2>1 DEF Apply
<1>3. /\ m > 0 /\ Len(Tail(todo[t])) = m - 1 /\ Head(todo[t]) = todo[t][1]
      /\ \A d \in 1 .. m - 1 : Tail(todo[t])[d] = todo[t][d + 1]
  BY <1>1, <1>2
<1>4. CASE pc[t] = "committing"
  <2>1. m <= n /\ \A d \in 1 .. m : todo[t][d] = ops[t][n - m + d]
    BY <1>4 DEF TodoIs
  <2>2. \A i : i \in Left(t) <=> i \in 1 .. n /\ i > n - m
    BY <1>1, <1>4 DEF Left
  <2>3. \A i : i \in Left(t)' <=> i \in 1 .. n /\ i > n - (m - 1)
    BY <1>1, <1>2, <1>3, <1>4 DEF Left
  <2> HIDE DEF n, m
  <2>4. \A d \in 1 .. m - 1 : Tail(todo[t])[d] = ops[t][n - (m - 1) + d]
    <3> TAKE d \in 1 .. m - 1
    <3>1. d + 1 \in 1 .. m /\ n - m + (d + 1) = n - (m - 1) + d
      BY <1>1, <2>1
    <3> QED
      BY <1>3, <2>1, <3>1
  <2>5. TodoIs(t)'
    <3>1. Len(todo'[t]) = m - 1 /\ m - 1 <= n /\ Len(ops'[t]) = n
      BY <1>1, <1>2, <1>3, <2>1 DEF n
    <3>2. \A d \in 1 .. m - 1 : todo'[t][d] = ops'[t][n - (m - 1) + d]
      BY <1>2, <2>4
    <3>3. pc'[t] = "committing" /\ to_lock'[t] = {}
      BY <1>2, <1>4
    <3> QED
      BY <3>1, <3>2, <3>3 DEF TodoIs
  <2>6. IsNext(t, n - m + 1)
    <3>1. 1 \in 1 .. m /\ n - m + 1 \in 1 .. n
      BY <1>1, <1>3, <2>1
    <3>2. Head(todo[t]) = ops[t][n - m + 1]
      BY <1>3, <2>1, <3>1
    <3>3. Left(t)' = Left(t) \ {n - m + 1}
      BY <1>1, <2>1, <2>2, <2>3
    <3>4. /\ n - m + 1 \in Left(t)
          /\ \A i \in 1 .. n : i >= n - m + 1 => i \in Left(t)
          /\ \A i \in Left(t) : i >= n - m + 1
      BY <1>1, <2>1, <2>2, <3>1
    <3> QED
      BY <1>1, <1>4, <3>2, <3>3, <3>4 DEF IsNext
  <2> QED
    BY <1>2, <2>5, <2>6
<1>5. CASE pc[t] = "rolling back"
  <2>1. m <= n /\ \A d \in 1 .. m : todo[t][d] = ops[t][m + 1 - d]
    BY <1>5 DEF TodoIs
  <2>2. \A i : i \in Left(t) <=> i \in 1 .. n /\ i <= m
    BY <1>1, <1>5 DEF Left
  <2>3. \A i : i \in Left(t)' <=> i \in 1 .. n /\ i <= m - 1
    BY <1>1, <1>2, <1>3, <1>5 DEF Left
  <2> HIDE DEF n, m
  <2>4. \A d \in 1 .. m - 1 : Tail(todo[t])[d] = ops[t][(m - 1) + 1 - d]
    <3> TAKE d \in 1 .. m - 1
    <3>1. d + 1 \in 1 .. m /\ m + 1 - (d + 1) = (m - 1) + 1 - d
      BY <1>1, <2>1
    <3> QED
      BY <1>3, <2>1, <3>1
  <2>5. TodoIs(t)'
    <3>1. Len(todo'[t]) = m - 1 /\ m - 1 <= n /\ Len(ops'[t]) = n
      BY <1>1, <1>2, <1>3, <2>1 DEF n
    <3>2. \A d \in 1 .. m - 1 : todo'[t][d] = ops'[t][(m - 1) + 1 - d]
      BY <1>2, <2>4
    <3>3. pc'[t] = "rolling back" /\ to_lock'[t] = {}
      BY <1>2, <1>5
    <3> QED
      BY <3>1, <3>2, <3>3 DEF TodoIs
  <2>6. IsNext(t, m)
    <3>1. 1 \in 1 .. m /\ m \in 1 .. n /\ m + 1 - 1 = m
      BY <1>1, <1>3, <2>1
    <3>2. Head(todo[t]) = ops[t][m]
      BY <1>3, <2>1, <3>1
    <3>3. Left(t)' = Left(t) \ {m}
      BY <1>1, <2>1, <2>2, <2>3
    <3>4. m \in Left(t) /\ \A i \in Left(t) : i <= m
      BY <1>1, <2>2, <3>1
    <3> QED
      BY <1>5, <3>2, <3>3, <3>4 DEF IsNext
  <2> QED
    BY <1>2, <2>5, <2>6
<1> QED
  BY <1>2, <1>4, <1>5 DEF Ending

-----------------------------------------------------------------------------
\* What steps do

Steps(t) == Proceed(t) \/ Ask(t) \/ Die(t)

\* A new operation of t on the row of k, with its mark, or with the new row.
Extended(t, k, o) ==
    /\ k \in Keys /\ MayMark(t, k)
    /\ pc[t] \in {"at", "in"} /\ pc' = [pc EXCEPT ![t] = "active"]
    /\ o \in Ops /\ o.key = k /\ o.val # NoValue
    /\ ops' = [ops EXCEPT ![t] = Append(@, o)]
    /\ rows'[k].op = o.kind /\ rows'[k].id = t /\ Present(rows'[k])
    /\ \A j \in Keys \ {k} : rows'[j] = rows[j]
    /\ o.kind = "insert" =>
          /\ pc[t] = "in" /\ o.op = "none" /\ ~rows'[k].placed
          /\ Present(rows[k]) => k \in twisted'
    /\ o.kind # "insert" =>
          /\ pc[t] = "at" /\ call[t].kind \in RowCalls /\ call[t].key = k
          /\ o.op = rows[k].op /\ o.id = rows[k].id /\ Present(rows[k])
          /\ rows'[k].val = rows[k].val /\ rows'[k].placed = rows[k].placed
          /\ o.kind = "lock" => rows[k].id # t
          /\ rows[k].op = "insert" => k \in twisted'
    /\ twisted \subseteq twisted'
    /\ UNCHANGED <<ver_num, freed, log, todo, retouched>>

\* Another value for a row that t has inserted.
Rewritten(t, k) ==
    /\ k \in Keys /\ MayMark(t, k) /\ rows[k].op = "insert"
    /\ pc[t] = "at" /\ pc' = [pc EXCEPT ![t] = "active"]
    /\ rows'[k].op = "insert" /\ rows'[k].id = rows[k].id /\ rows'[k].placed = rows[k].placed
    /\ Present(rows[k]) /\ Present(rows'[k])
    /\ \A j \in Keys \ {k} : rows'[j] = rows[j]
    /\ UNCHANGED <<ver_num, freed, log, ops, todo, retouched, twisted>>

\* All other steps but those that write the record or give the rows up leave rows and lists
\* alone.
Quiet(t) ==
    /\ UNCHANGED <<rows, ver_num, freed, log, ops, retouched, twisted>>
    /\ ~Apply(t) /\ ~Complete(t) /\ ~WriteRecord(t)

\* What Mark does.
LEMMA MarksExtend ==
    ASSUME Typed, Holds, RowsAreThere, NEW t \in Txns, Act(t), ~Contends(t),
           NEW kind \in {"lock", "update", "delete"}, Mark(t, call[t].key, kind), Leave(t),
           kind = "lock" => rows[call[t].key].id # t,
           rows[call[t].key].op = "insert" => call[t].key \in twisted'
    PROVE  Extended(t, call[t].key, Op(t, kind, call[t].key))
<1> DEFINE k == call[t].key
           o == Op(t, kind, k)
<1>1. /\ k \in Keys /\ rows \in [Keys -> Rows] /\ HoldsOf(t) /\ pc[t] = "at"
      /\ call[t].kind \in RowCalls
  BY KeysAreKeys DEF Typed, TypeOK, Holds, Act, CallsAre
<1>2. MayMark(t, k) /\ Present(rows[k])
  BY <1>1 DEF HoldsOf, MutexOf, MayMark, Contends, RowsAreThere
<1>3. o \in Ops /\ o.val # NoValue
  BY <1>1, OpsAreOps DEF Marks
<1>4. o.key = k /\ o.op = rows[k].op /\ o.id = rows[k].id /\ o.kind = kind
  BY DEF Op
<1>5. /\ rows' = [rows EXCEPT ![k] = [rows[k] EXCEPT !.op = kind, !.id = t]]
      /\ ops' = [ops EXCEPT ![t] = Append(@, o)]
  BY <1>1 DEF Mark
<1>6. /\ rows'[k].op = kind /\ rows'[k].id = t /\ rows'[k].val = rows[k].val
      /\ rows'[k].placed = rows[k].placed /\ \A j \in Keys \ {k} : rows'[j] = rows[j]
  BY <1>1, <1>5 DEF Rows
<1>7. /\ pc' = [pc EXCEPT ![t] = "active"] /\ twisted \subseteq twisted'
      /\ UNCHANGED <<ver_num, freed, log, todo, retouched>>
  BY DEF Act, Leave, Goto
<1>8. Present(rows'[k]) /\ kind # "insert" /\ (kind = "lock" => rows[k].id # t)
  BY <1>2, <1>6 DEF Present
<1>9. rows[k].op = "insert" => k \in twisted'
  OBVIOUS
<1>10. ops' = [ops EXCEPT ![t] = Append(@, o)]
  BY <1>5
<1> QED
  BY <1>1, <1>2, <1>3, <1>4, <1>6, <1>7, <1>8, <1>9, <1>10 DEF Extended

\* What a call on a row does when it need not wait.
LEMMA ActIs ==
    ASSUME Typed, Holds, RowsAreThere, NEW t \in Txns, Act(t)
    PROVE  Quiet(t) \/ Rewritten(t, call[t].key) \/ \E o : Extended(t, call[t].key, o)
<1> DEFINE k == call[t].key
<1>1. /\ k \in Keys /\ rows \in [Keys -> Rows] /\ HoldsOf(t) /\ pc[t] = "at"
      /\ ~Apply(t) /\ ~Complete(t) /\ ~WriteRecord(t)
  BY KeysAreKeys DEF Typed, TypeOK, Holds, Act, Apply, Complete, WriteRecord, Ending
<1>2. CASE UNCHANGED <<rows, ops, twisted>>
  BY <1>1, <1>2 DEF Act, Quiet
<1>3. CASE ~UNCHANGED <<rows, ops, twisted>>
  <2>1. /\ ~Contends(t) /\ Perform(t) /\ Leave(t)
        /\ twisted' = IF call[t].kind = "erase" /\ rows[k].op = "insert"
                      THEN twisted \cup {k} ELSE twisted
    BY <1>3 DEF Act
  <2>2. CASE call[t].kind = "lock"
    <3>1. rows[k].id # t /\ Mark(t, k, "lock")
      BY <1>3, <2>1, <2>2 DEF Perform, Lock
    <3>2. ~(rows[k].op = "insert")
      BY <2>1, <2>2, <3>1 DEF Contends, HeldByOther
    <3> QED
      BY <2>1, <3>1, <3>2, MarksExtend
  <2>3. CASE call[t].kind = "update" /\ rows[k].op # "insert"
    BY <2>1, <2>3, MarksExtend DEF Perform, Update
  <2>4. CASE call[t].kind = "erase"
    BY <2>1, <2>4, MarksExtend DEF Perform, Erase
  <2>5. CASE call[t].kind = "update" /\ rows[k].op = "insert"
    <3>1. rows' = [rows EXCEPT ![k] = [rows[k] EXCEPT !.val = Value(t)]] /\ ops' = ops
      BY <1>1, <2>1, <2>5 DEF Perform, Update
    <3>2. /\ rows'[k].op = rows[k].op /\ rows'[k].id = rows[k].id /\ rows'[k].val = Value(t)
          /\ rows'[k].placed = rows[k].placed /\ \A j \in Keys \ {k} : rows'[j] = rows[j]
      BY <1>1, <3>1 DEF Rows
    <3>3. Present(rows[k]) /\ Present(rows'[k])
      BY <1>1, <3>2, ValuesAre DEF Typed, RowsAreThere, Present
    <3>4. MayMark(t, k)
      BY <1>1, <2>1, <2>5 DEF HoldsOf, MutexOf, MayMark, Contends
    <3>5. /\ pc' = [pc EXCEPT ![t] = "active"] /\ twisted' = twisted
          /\ UNCHANGED <<ver_num, freed, log, todo, retouched>>
      BY <2>1, <2>5 DEF Act, Leave, Goto
    <3> QED
      BY <1>1, <2>5, <3>1, <3>2, <3>3, <3>4, <3>5 DEF Rewritten
  <2> QED
    BY <1>1, <2>1, <2>2, <2>3, <2>4, <2>5 DEF Perform
<1> QED
  BY <1>2, <1>3

\* What an insert does.
LEMMA InsertIs ==
    ASSUME Typed, Holds, NEW t \in Txns, Insert(t)
    PROVE  Quiet(t) \/ \E o : Extended(t, call[t].key, o)
<1> DEFINE k == call[t].key
           new == [val |-> Value(t), op |-> "insert", id |-> t, placed |-> FALSE]
           o == [Op(t, "insert", k) EXCEPT !.id = 0, !.op = "none"]
<1>1. /\ k \in Keys /\ rows \in [Keys -> Rows] /\ HoldsOf(t) /\ pc[t] = "in"
      /\ call[t].kind = "insert" /\ ~Apply(t) /\ ~Complete(t) /\ ~WriteRecord(t)
  BY KeysAreKeys DEF Typed, TypeOK, Holds, Insert, Apply, Complete, WriteRecord, Ending
<1>2. CASE UNCHANGED <<rows, ops, twisted>>
  BY <1>1, <1>2 DEF Insert, Quiet
<1>3. CASE ~UNCHANGED <<rows, ops, twisted>>
  <2>1. /\ ~Contends(t) /\ Leave(t)
        /\ ~Present(rows[k]) \/ rows[k].op = "delete"
        /\ rows' = [rows EXCEPT ![k] = new]
        /\ ops' = [ops EXCEPT ![t] = Append(@, o)]
        /\ twisted' = IF Present(rows[k]) THEN twisted \cup {k} ELSE twisted
    BY <1>3 DEF Insert
  <2>2. MayMark(t, k)
    BY <1>1, <2>1 DEF HoldsOf, MayMark, Contends
  <2>3. o \in Ops /\ o.val # NoValue /\ o.kind = "insert" /\ o.key = k /\ o.op = "none"
    BY <1>1, ValuesAre DEF Typed, Op, Ops, Marks
  <2>4. /\ rows'[k] = new /\ \A j \in Keys \ {k} : rows'[j] = rows[j]
        /\ new.op = "insert" /\ new.id = t /\ Present(new) /\ ~new.placed
    BY <1>1, <2>1, ValuesAre DEF Typed, Present
  <2>5. /\ pc' = [pc EXCEPT ![t] = "active"] /\ twisted \subseteq twisted'
        /\ Present(rows[k]) => k \in twisted'
        /\ UNCHANGED <<ver_num, freed, log, todo, retouched>>
    BY <2>1 DEF Insert, Leave, Goto
  <2> HIDE DEF o, new
  <2> QED
    BY <1>1, <2>1, <2>2, <2>3, <2>4, <2>5 DEF Extended
<1> QED
  BY <1>2, <1>3

\* The kinds of steps.
LEMMA StepKinds ==
    ASSUME Typed, Holds, RowsAreThere, NEW t \in Txns, Steps(t)
    PROVE  \/ Quiet(t) \/ Apply(t) \/ Complete(t) \/ WriteRecord(t)
           \/ Rewritten(t, call[t].key) \/ \E o : Extended(t, call[t].key, o)
<1>1. CASE Act(t)
  BY <1>1, ActIs
<1>2. CASE Insert(t)
  BY <1>2, InsertIs
<1>3. CASE ~Act(t) /\ ~Insert(t) /\ ~Apply(t) /\ ~Complete(t) /\ ~WriteRecord(t)
  <2>1. UNCHANGED <<rows, ver_num, freed, log, ops, retouched, twisted>>
    BY <1>3 DEF Steps, Proceed, Ask, Seek, Advance, Sleep, Timeout, Reenter, Relock, Rollback,
         Initialize, LockNext, Die, CallFails, CommitFails, RollbackFails, Fail, Enter
  <2> QED
    BY <1>3, <2>1 DEF Quiet
<1> QED
  BY <1>1, <1>2, <1>3

\* Who does nothing keeps its list, and what is left of it.
LEMMA OthersLists ==
    ASSUME Typed, Holds, NEW t \in Txns, Steps(t), NEW s \in Txns \ {t}
    PROVE  /\ ops'[s] = ops[s] /\ todo'[s] = todo[s] /\ Left(s)' = Left(s)
           /\ pc'[s] = pc[s] \/ (pc[s] = "asleep" /\ pc'[s] = "woken")
           /\ TodoIs(s) => TodoIs(s)'
           /\ \A k : On(s, k)' = On(s, k)
<1>1. /\ pc'[s] = pc[s] \/ (pc[s] = "asleep" /\ pc'[s] = "woken")
      /\ ops'[s] = ops[s] /\ to_lock'[s] = to_lock[s]
  BY OthersStay DEF Steps
<1>2. todo'[s] = todo[s]
  BY DEF Steps, Typed, TypeOK, Proceed, Ask, Seek, Advance, Act, Insert, Sleep, Timeout, Reenter,
         Relock, WriteRecord, Rollback, Initialize, LockNext, Apply, Complete, Die, CallFails,
         CommitFails, RollbackFails, Fail, Enter
<1>3. Left(s)' = Left(s)
  BY <1>1, <1>2 DEF Left
<1>4. TodoIs(s) => TodoIs(s)'
  BY <1>1, <1>2 DEF TodoIs, Ending
<1>5. \A k : On(s, k)' = On(s, k)
  BY <1>1 DEF On
<1> QED
  BY <1>1, <1>2, <1>3, <1>4, <1>5

\* A list in reverse.
LEMMA Reversed ==
    ASSUME NEW S, NEW q \in Seq(S)
    PROVE  /\ Len(Reverse(q)) = Len(q) /\ Len(q) \in Nat
           /\ \A d \in 1 .. Len(q) : Reverse(q)[d] = q[Len(q) + 1 - d]
           /\ q = <<>> => Reverse(q) = <<>>
<1>1. Len(q) \in Nat /\ DOMAIN q = 1 .. Len(q) /\ \A i \in 1 .. Len(q) : q[i] \in S
  OBVIOUS
<1>2. \A i \in 1 .. Len(q) : (Len(q) - i) + 1 \in 1 .. Len(q) /\ (Len(q) - i) + 1 = Len(q) + 1 - i
  BY <1>1
<1> QED
  BY <1>1, <1>2 DEF Reverse

\* What is left of its list stays for who neither works nor gives rows up.
LEMMA ListsStay ==
    ASSUME Typed, Holds, NEW t \in Txns, Steps(t), TodoIs(t), ops'[t] = ops[t], ~Apply(t), ~Complete(t)
    PROVE  TodoIs(t)' /\ Left(t)' = Left(t) /\ \A k : On(t, k)' = On(t, k)
<1>0. /\ DOMAIN ops[t] = 1 .. Len(ops[t]) /\ Len(ops[t]) \in Nat /\ ops[t] \in Seq(Ops)
      /\ pc \in [Txns -> Points] /\ DOMAIN todo = Txns /\ DOMAIN to_lock = Txns
  BY LeftIsAPart DEF Typed, TypeOK
<1>a. \A k : On(t, k)' = On(t, k)
  BY DEF On
<1>b. ~Ending(t) => Left(t) = DOMAIN ops[t]
  BY DEF Ending, Left
<1>1. CASE pc'[t] \notin {"commit", "rollback", "committing", "rolling back", "done"} /\ ~Ending(t)
  <2>1. TodoIs(t)'
    BY <1>1 DEF TodoIs, Ending
  <2>2. Left(t)' = DOMAIN ops[t]
    BY <1>1 DEF Left
  <2> QED
    BY <1>1, <1>a, <1>b, <2>1, <2>2
<1>2. CASE UNCHANGED <<pc, todo>> /\ (to_lock' = to_lock \/ LockNext(t))
  <2>1. TodoIs(t)'
    BY <1>2 DEF TodoIs, Ending, LockNext
  <2>2. Left(t)' = Left(t)
    BY <1>2 DEF Left
  <2> QED
    BY <1>a, <2>1, <2>2
<1>3. CASE WriteRecord(t)
  <2>1. pc'[t] = "commit" /\ todo'[t] = ops[t] /\ ~Ending(t)
    BY <1>0, <1>3 DEF WriteRecord, Goto, Ending
  <2>2. /\ Len(todo'[t]) = Len(ops[t]) /\ Len(ops'[t]) = Len(ops[t])
        /\ \A d \in 1 .. Len(ops[t]) : todo'[t][d] = ops'[t][Len(ops[t]) - Len(ops[t]) + d]
    BY <1>0, <2>1
  <2>3. TodoIs(t)'
    <3> DEFINE n == Len(ops[t])
    <3>1. Len(todo'[t]) = n /\ Len(ops'[t]) = n /\ n <= n
      BY <1>0, <2>2
    <3>2. \A d \in 1 .. n : todo'[t][d] = ops'[t][n - n + d]
      BY <2>2
    <3> HIDE DEF n
    <3> QED
      BY <3>1, <3>2, <2>1 DEF TodoIs, Ending
  <2>4. Left(t)' = DOMAIN ops[t]
    BY <2>1 DEF Left
  <2> QED
    BY <1>a, <1>b, <2>1, <2>3, <2>4
<1>4. CASE Rollback(t)
  <2>1. /\ pc'[t] = IF ops[t] = <<>> THEN "done" ELSE "rollback"
        /\ todo'[t] = Reverse(ops[t]) /\ ~Ending(t)
    BY <1>0, <1>4 DEF Rollback, Goto, Ending
  <2>2. /\ Len(todo'[t]) = Len(ops[t]) /\ Len(ops'[t]) = Len(ops[t])
        /\ \A d \in 1 .. Len(ops[t]) : todo'[t][d] = ops'[t][Len(ops[t]) + 1 - d]
    BY <1>0, <2>1, Reversed
  <2>a. pc'[t] = "done" => ops'[t] = <<>>
    BY <2>1
  <2>b. pc'[t] \notin {"commit", "committing", "rolling back"}
    BY <2>1
  <2>3. TodoIs(t)'
    <3> DEFINE n == Len(ops[t])
    <3>1. Len(todo'[t]) = n /\ Len(ops'[t]) = n /\ n <= n
      BY <1>0, <2>2
    <3>2. \A d \in 1 .. n : todo'[t][d] = ops'[t][n + 1 - d]
      BY <2>2
    <3> HIDE DEF n
    <3> QED
      BY <3>1, <3>2, <2>a, <2>b DEF TodoIs, Ending
  <2>4. Left(t)' = DOMAIN ops[t]
    BY <2>1 DEF Left
  <2> QED
    BY <1>a, <1>b, <2>1, <2>3, <2>4
<1>5. CASE Initialize(t)
  <2>1. /\ pc[t] \in {"commit", "rollback"} /\ todo' = todo /\ ~Ending(t)
        /\ pc'[t] = IF pc[t] = "commit" THEN "committing" ELSE "rolling back"
    BY <1>0, <1>5 DEF Initialize, Goto, During, Ending
  <2>2. Len(todo[t]) = Len(ops[t])
    BY <2>1 DEF TodoIs
  <2>3. TodoIs(t)'
    BY <2>1, <2>2 DEF TodoIs
  <2>4. \A i \in DOMAIN ops[t] : i > Len(ops[t]) - Len(todo[t]) /\ i <= Len(todo[t])
    BY <1>0, <2>2
  <2>5. Left(t)' = DOMAIN ops[t]
    BY <2>1, <2>4 DEF Left
  <2> QED
    BY <1>a, <1>b, <2>1, <2>3, <2>5
<1>6. CASE CommitFails(t) \/ RollbackFails(t)
  <2>1. pc'[t] = "failed" /\ (~Ending(t) \/ to_lock[t] # {})
    BY <1>0, <1>6 DEF CommitFails, RollbackFails, Fail, Goto, EndIsStuck, During, Ending
  <2>2. Left(t)' = DOMAIN ops[t] /\ TodoIs(t)'
    BY <2>1 DEF Left, TodoIs, Ending
  <2> QED
    BY <1>a, <2>1, <2>2, AllIsLeft
<1>7. CASE Seek(t) \/ Advance(t) \/ Act(t) \/ Insert(t) \/ Sleep(t) \/ Reenter(t) \/ Relock(t)
           \/ Timeout(t) \/ CallFails(t) \/ \E kind \in Kinds, k \in Keys : Enter(t, kind, k)
  <2>1. pc[t] \in {"in", "at", "dozing", "asleep", "woken", "back", "active"}
    BY <1>7 DEF Seek, Advance, Act, Insert, Sleep, Reenter, Relock, Timeout, CallFails, Enter
  <2>2. pc'[t] \in {"in", "at", "dozing", "asleep", "woken", "back", "active"}
    BY <1>0, <1>7, <2>1
       DEF Seek, Advance, Act, Insert, Sleep, Reenter, Relock, Timeout, CallFails, Enter, Leave, Goto
  <2> QED
    BY <1>1, <2>1, <2>2 DEF Ending
<1>8. CASE LockNext(t) \/ Die(t)
  BY <1>2, <1>8 DEF LockNext, Die
<1> QED
  BY <1>3, <1>4, <1>5, <1>6, <1>7, <1>8 DEF Steps, Proceed, Ask

\* The list of who works.
LEMMA ListsGrow ==
    ASSUME Typed, NEW t \in Txns, NEW k, NEW o, Extended(t, k, o)
    PROVE  /\ DOMAIN ops'[t] = DOMAIN ops[t] \cup {Len(ops[t]) + 1} /\ ops'[t][Len(ops[t]) + 1] = o
           /\ \A i \in DOMAIN ops[t] : ops'[t][i] = ops[t][i] /\ i < Len(ops[t]) + 1
           /\ Left(t) = DOMAIN ops[t] /\ Left(t)' = DOMAIN ops'[t] /\ TodoIs(t)'
           /\ Unsettled(t) /\ Claimed(t) = KeysOf(t)
<1>1. ops[t] \in Seq(Ops) /\ pc \in [Txns -> Points] /\ ops \in [Txns -> Seq(Ops)]
  BY DEF Typed, TypeOK
<1>2. ops'[t] = Append(ops[t], o) /\ pc'[t] = "active" /\ pc[t] \in {"at", "in"} /\ o \in Ops
  BY <1>1 DEF Extended
<1>3. /\ DOMAIN ops'[t] = 1 .. Len(ops[t]) + 1 /\ ops'[t][Len(ops[t]) + 1] = o
      /\ \A i \in 1 .. Len(ops[t]) : ops'[t][i] = ops[t][i]
      /\ DOMAIN ops[t] = 1 .. Len(ops[t]) /\ Len(ops[t]) \in Nat
  BY <1>1, <1>2
<1>4. 1 .. Len(ops[t]) + 1 = (1 .. Len(ops[t])) \cup {Len(ops[t]) + 1}
  BY <1>3
<1>5. Left(t) = DOMAIN ops[t] /\ Left(t)' = DOMAIN ops'[t] /\ TodoIs(t)'
  BY <1>2 DEF Left, TodoIs, Ending
<1>6. Unsettled(t) /\ Claimed(t) = KeysOf(t)
  BY <1>2 DEF Unsettled, Unfinished, Claimed
<1>7. \A i \in DOMAIN ops[t] : i < Len(ops[t]) + 1
  BY <1>3
<1> QED
  BY <1>3, <1>4, <1>5, <1>6, <1>7


-----------------------------------------------------------------------------
\* The log, and what recovery would make of it

\* Redo needs to know of the records that touch a row alone.
LEMMA RedoAsFarAs ==
    ASSUME NEW records \in Seq(Records), NEW a1, NEW a2, NEW k \in Keys,
           \A i \in DOMAIN records : Touches(records[i], k) => (i \in a1 <=> i \in a2)
    PROVE  RedoLog(k, records, a1) = RedoLog(k, records, a2)
<1>1. PICK h1 : RedoneAlong(k, records, a1, h1) /\ RedoLog(k, records, a1) = h1[Len(records)]
  BY RedoLogInSteps
<1>2. PICK h2 : RedoneAlong(k, records, a2, h2) /\ RedoLog(k, records, a2) = h2[Len(records)]
  BY RedoLogInSteps
<1> DEFINE n == Len(records)
           D == {i \in 0 .. n : h1[i] = h2[i]}
<1>3. n \in Nat /\ DOMAIN records = 1 .. n /\ \A i \in 1 .. n : records[i] \in Records
  OBVIOUS
<1>4. \A i \in 0 .. n : i \in D /\ i < n => i + 1 \in D
  <2> SUFFICES ASSUME NEW i \in 0 .. n, h1[i] = h2[i], i < n
               PROVE  h1[i + 1] = h2[i + 1]
    BY <1>3
  <2>1. i + 1 \in 1 .. n /\ i + 1 - 1 = i
    BY <1>3
  <2>2. /\ h1[i + 1] = IF i + 1 \in a1 THEN RedoRecord(k, h1[i], records[i + 1]) ELSE h1[i]
        /\ h2[i + 1] = IF i + 1 \in a2 THEN RedoRecord(k, h2[i], records[i + 1]) ELSE h2[i]
        /\ h1[i] \in Founds
    BY <1>1, <1>2, <2>1 DEF RedoneAlong
  <2>3. ~Touches(records[i + 1], k) => RedoRecord(k, h1[i], records[i + 1]) = h1[i]
    BY <1>3, <2>1, <2>2, RedoOfRecord
  <2>4. Touches(records[i + 1], k) => (i + 1 \in a1 <=> i + 1 \in a2)
    BY <1>3, <2>1
  <2> QED
    BY <2>2, <2>3, <2>4
<1>5. 0 \in D
  BY <1>1, <1>2, <1>3 DEF RedoneAlong
<1>6. D = 0 .. n
  <2>1. D \subseteq 0 .. n
    OBVIOUS
  <2> HIDE DEF D
  <2> QED
    BY <1>3, <1>4, <1>5, <2>1, UpTo
<1> QED
  BY <1>1, <1>2, <1>3, <1>6

\* Only who writes a record changes the log.
LEMMA LogStays ==
    ASSUME NEW t \in Txns, Steps(t), ~WriteRecord(t)
    PROVE  log' = log
BY DEF Steps, Proceed, Ask, Seek, Advance, Act, Insert, Sleep, Timeout, Reenter, Relock, Rollback,
       Initialize, LockNext, Apply, Complete, Die, CallFails, CommitFails, RollbackFails, Fail, Enter

\* The record that a commit writes.
LEMMA RecordIs ==
    ASSUME Typed, LogIsTyped, NEW t \in Txns, WriteRecord(t)
    PROVE  \E r \in Records :
              /\ r.txn = t /\ r.changes = Logged(t) /\ log' = Append(log, r)
              /\ DOMAIN log' = DOMAIN log \cup {Len(log) + 1} /\ log'[Len(log) + 1] = r
              /\ \A i \in DOMAIN log : log'[i] = log[i] /\ i < Len(log) + 1
              /\ \A i \in DOMAIN log : log[i] \in Records
<1> DEFINE r == [txn |-> t, lsn |-> next_lsn, changes |-> Logged(t)]
<1>1. Logged(t) \in Seq(LoggedOps)
  BY LoggedCopies DEF IsCopied
<1>2. next_lsn \in Nat /\ log' = Append(log, r) /\ log \in Seq(Records)
  BY DEF Typed, TypeOK, WriteRecord, LogIsTyped
<1>3. r \in Records /\ r.txn = t /\ r.changes = Logged(t)
  BY <1>1, <1>2 DEF Records
<1> HIDE DEF r
<1>4. /\ DOMAIN log' = 1 .. Len(log) + 1 /\ log'[Len(log) + 1] = r /\ Len(log) \in Nat
      /\ DOMAIN log = 1 .. Len(log) /\ \A i \in 1 .. Len(log) : log'[i] = log[i]
      /\ \A i \in 1 .. Len(log) : log[i] \in Records
  BY <1>2, <1>3
<1>5. 1 .. Len(log) + 1 = (1 .. Len(log)) \cup {Len(log) + 1}
  BY <1>4
<1>6. \A i \in DOMAIN log : i < Len(log) + 1
  BY <1>4
<1> QED
  BY <1>2, <1>3, <1>4, <1>5, <1>6

\* The log keeps its type.
LEMMA LogStaysTyped ==
    ASSUME Typed, LogIsTyped, NEW t \in Txns, Steps(t)
    PROVE  LogIsTyped'
<1>1. CASE WriteRecord(t)
  <2>1. PICK r \in Records : log' = Append(log, r)
    BY <1>1, RecordIs
  <2> QED
    BY <2>1 DEF LogIsTyped
<1> QED
  BY <1>1, LogStays DEF LogIsTyped

\* Who has a record in the log goes on to have one.
InLog == {"commit", "committing", "failed", "done"}

\* So it stays.
LEMMA WriterGoesOn ==
    ASSUME Typed, NEW t \in Txns, Steps(t), pc[t] \in InLog
    PROVE  /\ pc'[t] \in InLog /\ ~WriteRecord(t)
           /\ pc'[t] = "commit" => pc[t] = "commit"
           /\ pc'[t] = "committing" => pc[t] \in {"commit", "committing"}
<1>1. pc \in [Txns -> Points]
  BY DEF Typed, TypeOK
<1> QED
  BY <1>1 DEF InLog, Steps, Proceed, Ask, Seek, Advance, Act, Insert, Sleep, Timeout, Reenter, Relock,
       Rollback, WriteRecord, Initialize, LockNext, Apply, Complete, Die, CallFails, CommitFails,
       RollbackFails, Fail, Enter, Goto, During, EndIsStuck, Ending

\* A transaction writes one record.
LEMMA RecordsStayKept ==
    ASSUME Typed, Holds, LogIsTyped, RecordsAreKept, NEW t \in Txns, Steps(t)
    PROVE  RecordsAreKept'
<1>1. \A i \in DOMAIN log : log[i].txn \in Txns /\ pc[log[i].txn] \in InLog
  <2>1. \A r \in Records : r.txn \in Txns
    BY DEF Records
  <2> QED
    BY <2>1 DEF LogIsTyped, RecordsAreKept, InLog
<1>2. \A i \in DOMAIN log : pc'[log[i].txn] \in InLog
  <2> TAKE i \in DOMAIN log
  <2>1. CASE log[i].txn = t
    BY <1>1, <2>1, WriterGoesOn
  <2>2. CASE log[i].txn # t
    BY <1>1, <2>2, OthersLists DEF InLog
  <2> QED
    BY <2>1, <2>2
<1>3. CASE ~WriteRecord(t)
  <2>1. log' = log
    BY <1>3, LogStays
  <2> QED
    BY <1>2, <2>1 DEF RecordsAreKept, InLog
<1>4. CASE WriteRecord(t)
  <2>1. PICK r \in Records :
              /\ r.txn = t
              /\ DOMAIN log' = DOMAIN log \cup {Len(log) + 1} /\ log'[Len(log) + 1] = r
              /\ \A i \in DOMAIN log : log'[i] = log[i]
    BY <1>4, RecordIs
  <2>2. pc[t] = "active" /\ pc'[t] = "commit"
    BY <1>4 DEF WriteRecord, Goto, Typed, TypeOK
  <2>3. \A i \in DOMAIN log : log[i].txn # t
    BY <1>1, <2>2 DEF InLog
  <2>4. \A i, j \in DOMAIN log : log[i].txn = log[j].txn => i = j
    BY DEF RecordsAreKept
  <2>5. \A i, j \in DOMAIN log' : log'[i].txn = log'[j].txn => i = j
    BY <2>1, <2>3, <2>4
  <2>6. \A i \in DOMAIN log' : pc'[log'[i].txn] \in InLog
    BY <1>2, <2>1, <2>2 DEF InLog
  <2> QED
    BY <2>5, <2>6 DEF RecordsAreKept, InLog
<1> QED
  BY <1>3, <1>4

\* Before a commit has its locks it has all its rows to do.
LEMMA AllIsToDo ==
    ASSUME Typed, NEW t \in Txns, TodoIs(t),
           pc[t] = "commit" \/ (pc[t] = "committing" /\ to_lock[t] # {})
    PROVE  KeysOf(t) \subseteq KeysToDo(t)
<1>1. /\ DOMAIN ops[t] = 1 .. Len(ops[t]) /\ Len(ops[t]) \in Nat
      /\ DOMAIN todo[t] = 1 .. Len(todo[t])
  BY LeftIsAPart
<1>2. Len(todo[t]) = Len(ops[t])
      /\ \A d \in 1 .. Len(todo[t]) : todo[t][d] = ops[t][Len(ops[t]) - Len(todo[t]) + d]
  BY DEF TodoIs, Ending
<1>3. \A d \in 1 .. Len(ops[t]) : Len(ops[t]) - Len(ops[t]) + d = d
  BY <1>1
<1>4. \A d \in 1 .. Len(ops[t]) : todo[t][d] = ops[t][d]
  BY <1>2, <1>3
<1> QED
  BY <1>1, <1>2, <1>4 DEF KeysOf, KeysToDo

\* What is to do after Apply.
LEMMA ToDoAfterApply ==
    ASSUME Typed, NEW t \in Txns, Apply(t)
    PROVE  /\ KeysToDo(t)' \cup {Head(todo[t]).key} = KeysToDo(t)
           /\ pc' = pc /\ log' = log /\ Ending(t) /\ to_lock[t] = {} /\ todo[t] # <<>>
<1>1. /\ todo[t] # <<>> /\ todo'[t] = Tail(todo[t]) /\ todo[t] \in Seq(Ops)
      /\ pc' = pc /\ log' = log /\ Ending(t) /\ to_lock[t] = {}
  BY DEF Typed, TypeOK, Apply
<1> DEFINE m == Len(todo[t])
<1>2. /\ m \in Nat \ {0} /\ DOMAIN todo[t] = 1 .. m /\ DOMAIN Tail(todo[t]) = 1 .. m - 1
      /\ Head(todo[t]) = todo[t][1]
      /\ \A d \in 1 .. m - 1 : Tail(todo[t])[d] = todo[t][d + 1]
  BY <1>1
<1>3. KeysToDo(t)' = {Tail(todo[t])[d].key : d \in 1 .. m - 1}
  BY <1>1, <1>2 DEF KeysToDo
<1>4. KeysToDo(t) = {todo[t][d].key : d \in 1 .. m}
  BY <1>2 DEF KeysToDo
<1> HIDE DEF m
<1>5. \A d \in 1 .. m - 1 : d + 1 \in 1 .. m
  BY <1>2
<1>6. \A d \in 1 .. m : d = 1 \/ (d - 1 \in 1 .. m - 1 /\ d - 1 + 1 = d)
  BY <1>2
<1>7. KeysToDo(t)' \cup {Head(todo[t]).key} \subseteq KeysToDo(t)
  BY <1>2, <1>3, <1>4, <1>5
<1>8. KeysToDo(t) \subseteq KeysToDo(t)' \cup {Head(todo[t]).key}
  <2>1. \A d \in 1 .. m : d = 1 \/ \E e \in 1 .. m - 1 : Tail(todo[t])[e] = todo[t][d]
    BY <1>2, <1>6
  <2>2. ASSUME NEW d \in 1 .. m
        PROVE  todo[t][d].key \in KeysToDo(t)' \cup {Head(todo[t]).key}
    BY <1>2, <1>3, <2>1
  <2> QED
    BY <1>4, <2>2
<1> QED
  BY <1>1, <1>7, <1>8

\* A record goes through when its transaction is done with the row.
Settles(t, k) ==
    /\ Apply(t) /\ pc[t] = "committing" /\ Head(todo[t]).key = k /\ k \notin KeysToDo(t)'
IsDoneWith(s, k) == pc[s] = "done" \/ (pc[s] = "committing" /\ k \notin KeysToDo(s))

\* A transaction is done with the rows that it was done with, and with those it gives up.
LEMMA DoneStaysDone ==
    ASSUME Typed, Holds, LogIsTyped, RecordsAreKept, PendingAreCurrent,
           NEW t \in Txns, Steps(t), TodoIs(t), NEW k \in Keys, ~Settles(t, k),
           NEW s, NEW i \in DOMAIN log, log[i].txn = s, Touches(log[i], k)
    PROVE  IsDoneWith(s, k)' <=> IsDoneWith(s, k)
<1>0. log[i] \in Records
  BY DEF LogIsTyped
<1>1. s \in Txns /\ pc[s] \in InLog
  BY <1>0 DEF Records, RecordsAreKept, InLog
<1>2. CASE s # t
  <2>1. /\ todo'[s] = todo[s]
        /\ pc'[s] = pc[s] \/ (pc[s] = "asleep" /\ pc'[s] = "woken")
    BY <1>1, <1>2, OthersLists
  <2>2. KeysToDo(s)' = KeysToDo(s)
    BY <2>1 DEF KeysToDo
  <2> QED
    BY <2>1, <2>2 DEF IsDoneWith
<1>3. CASE s = t
  <2>1. pc[t] \in {"commit", "committing"} => k \in KeysOf(t)
    BY <1>3 DEF PendingAreCurrent, IsPending, Tells, On, KeysOf
  <2>2. pc \in [Txns -> Points]
    BY DEF Typed, TypeOK
  <2>3. CASE Initialize(t)
    <3>1. pc[t] = "commit" /\ pc'[t] = "committing" /\ todo' = todo
      BY <1>1, <1>3, <2>2, <2>3 DEF Initialize, InLog, Goto, During
    <3>2. k \in KeysToDo(t) /\ KeysToDo(t)' = KeysToDo(t)
      BY <2>1, <3>1, AllIsToDo DEF KeysToDo
    <3> QED
      BY <1>3, <3>1, <3>2 DEF IsDoneWith
  <2>4. CASE LockNext(t) \/ Die(t)
    <3>1. pc' = pc /\ todo' = todo
      BY <2>4 DEF LockNext, Die
    <3> QED
      BY <3>1 DEF IsDoneWith, KeysToDo
  <2>5. CASE CommitFails(t) \/ RollbackFails(t)
    <3>1. /\ pc[t] = "commit" \/ (pc[t] = "committing" /\ to_lock[t] # {})
          /\ pc'[t] = "failed"
      BY <1>1, <1>3, <2>2, <2>5 DEF CommitFails, RollbackFails, Fail, EndIsStuck, Goto, InLog, During
    <3>2. k \in KeysToDo(t)
      BY <2>1, <3>1, AllIsToDo
    <3> QED
      BY <1>3, <3>1, <3>2 DEF IsDoneWith
  <2>6. CASE Complete(t)
    <3>1. pc[t] = "committing" /\ todo[t] = <<>> /\ pc'[t] = "done"
      BY <1>1, <1>3, <2>2, <2>6 DEF Complete, Ending, InLog
    <3> QED
      BY <1>3, <3>1 DEF IsDoneWith, KeysToDo
  <2>7. CASE Apply(t)
    <3>1. /\ KeysToDo(t)' \cup {Head(todo[t]).key} = KeysToDo(t)
          /\ pc' = pc
      BY <2>7, ToDoAfterApply
    <3>2. pc[t] = "committing" => (k \in KeysToDo(t)' <=> k \in KeysToDo(t))
      BY <2>7, <3>1 DEF Settles
    <3> QED
      BY <1>3, <3>1, <3>2 DEF IsDoneWith
  <2>8. pc[t] \in {"commit", "committing", "failed", "done"}
    BY <1>1, <1>3 DEF InLog
  <2> QED
    BY <2>3, <2>4, <2>5, <2>6, <2>7, <2>8
       DEF Steps, Proceed, Ask, Seek, Advance, Act, Insert, Sleep, Timeout, Reenter, Relock,
           Rollback, WriteRecord, CallFails, Enter
<1> QED
  BY <1>2, <1>3

\* The records that recovery goes by.
AppliedTo(k) == {i \in DOMAIN log : IsDoneWith(log[i].txn, k)}

\* What recovery would make of a row, from those records,
LEMMA RecoverableIs ==
    ASSUME NEW k
    PROVE  Recoverable(k) = RedoLog(k, log, AppliedTo(k))
BY DEF Recoverable, AppliedTo, Through, IsDoneWith, KeysToDo

\* and after a step.
LEMMA NextRecoverableIs ==
    ASSUME NEW k
    PROVE  Recoverable(k)' = RedoLog(k, log', AppliedTo(k)')
BY DEF Recoverable, AppliedTo, Through, IsDoneWith, KeysToDo

\* What recovery would make of a row changes when a commit is done with it, and not before.
LEMMA RecoverableStays ==
    ASSUME Typed, Holds, LogIsTyped, RecordsAreKept, PendingAreCurrent,
           NEW t \in Txns, Steps(t), TodoIs(t), NEW k \in Keys, ~Settles(t, k)
    PROVE  Recoverable(k)' = Recoverable(k)
<1> DEFINE c == {i \in DOMAIN log : \E s : s = log[i].txn /\ IsDoneWith(s, k)'}
<1>1. log \in Seq(Records)
  BY DEF LogIsTyped
<1>2. \A i \in DOMAIN log : Touches(log[i], k) => (i \in AppliedTo(k) <=> i \in c)
  BY DoneStaysDone DEF AppliedTo
<1>3. RedoLog(k, log, AppliedTo(k)) = RedoLog(k, log, c)
  <2> HIDE DEF c
  <2> QED
    BY <1>1, <1>2, RedoAsFarAs
<1>4. CASE ~WriteRecord(t)
  <2>1. log' = log
    BY <1>4, LogStays
  <2>2. AppliedTo(k)' = c
    BY <2>1 DEF AppliedTo, IsDoneWith
  <2> QED
    BY <1>3, <2>1, <2>2, RecoverableIs, NextRecoverableIs
<1>5. CASE WriteRecord(t)
  <2>1. PICK r \in Records :
              /\ r.txn = t /\ log' = Append(log, r)
              /\ DOMAIN log' = DOMAIN log \cup {Len(log) + 1} /\ log'[Len(log) + 1] = r
              /\ \A i \in DOMAIN log : log'[i] = log[i]
    BY <1>5, RecordIs
  <2>2. pc'[t] = "commit"
    BY <1>5 DEF WriteRecord, Goto, Typed, TypeOK
  <2>3. AppliedTo(k)' = c
    <3>1. ~IsDoneWith(t, k)'
      BY <2>2 DEF IsDoneWith
    <3>2. \A i \in DOMAIN log' : i \in AppliedTo(k)' <=> \E s : s = log'[i].txn /\ IsDoneWith(s, k)'
      BY DEF AppliedTo, IsDoneWith
    <3>3. Len(log) + 1 \notin AppliedTo(k)'
      BY <2>1, <3>1, <3>2
    <3>4. AppliedTo(k)' \subseteq DOMAIN log'
      BY DEF AppliedTo
    <3> QED
      BY <2>1, <3>2, <3>3, <3>4
  <2>4. Recoverable(k)' = RedoLog(k, Append(log, r), c)
    BY <2>1, <2>3, NextRecoverableIs
  <2>5. RedoLog(k, Append(log, r), c) = RedoLog(k, log, c)
    <3>1. c \subseteq DOMAIN log
      OBVIOUS
    <3> HIDE DEF c
    <3> QED
      BY <1>1, <2>1, <3>1, RedoOfMore
  <2> QED
    BY <1>3, <2>4, <2>5, RecoverableIs
<1> QED
  BY <1>4, <1>5

\* The commit that is done with a row redoes it.
LEMMA RecoverableMoves ==
    ASSUME Typed, Holds, LogIsTyped, RecordsAreKept, PendingAreCurrent,
           NEW t \in Txns, TodoIs(t), NEW k \in Keys, Settles(t, k)
    PROVE  \E i \in DOMAIN log :
              /\ log[i].txn = t /\ log[i] \in Records /\ Tells(log[i], t)
              /\ (CHOOSE r \in Range(log) : r.txn = t) = log[i]
              /\ Recoverable(k)' = RedoRecord(k, Recoverable(k), log[i])
<1>1. /\ log \in Seq(Records) /\ DOMAIN log = 1 .. Len(log) /\ Len(log) \in Nat
      /\ \A j \in DOMAIN log : log[j] \in Records
  BY DEF LogIsTyped
<1>2. /\ KeysToDo(t)' \cup {k} = KeysToDo(t) /\ k \notin KeysToDo(t)'
      /\ pc' = pc /\ log' = log /\ pc[t] = "committing" /\ Ending(t)
  BY ToDoAfterApply DEF Settles
<1>3. PICK i \in DOMAIN log : log[i].txn = t
  <2>1. \E r \in Range(log) : r.txn = t
    BY <1>2 DEF Typed, Lists, ListsOf
  <2> QED
    BY <2>1 DEF Range
<1>4. \A j \in DOMAIN log : log[j].txn = t => j = i
  BY <1>3 DEF RecordsAreKept
<1>5. (CHOOSE r \in Range(log) : r.txn = t) = log[i]
  <2>1. \A r \in Range(log) : r.txn = t <=> r = log[i]
    BY <1>3, <1>4 DEF Range
  <2>2. log[i] \in Range(log)
    BY DEF Range
  <2> QED
    BY <2>1, <2>2
<1>6. IsPending(i)
  BY <1>2, <1>3 DEF PendingAreCurrent
<1>7. \A j \in DOMAIN log : j > i => ~Touches(log[j], k)
  <2>1. PICK d \in Left(t) : ops[t][d].key = k
    BY <1>2, LeftIsToDo
  <2> QED
    BY <1>3, <1>6, <2>1 DEF IsPending
<1>8. AppliedTo(k)' = AppliedTo(k) \cup {i} /\ i \notin AppliedTo(k)
  <2>1. IsDoneWith(t, k)' /\ ~IsDoneWith(t, k)
    BY <1>2 DEF IsDoneWith
  <2>2. ASSUME NEW s \in Txns, s # t
        PROVE  IsDoneWith(s, k)' <=> IsDoneWith(s, k)
    <3>1. todo'[s] = todo[s]
      BY <2>2 DEF Settles, Apply, Typed, TypeOK
    <3>2. KeysToDo(s)' = KeysToDo(s)
      BY <3>1 DEF KeysToDo
    <3> QED
      BY <1>2, <3>2 DEF IsDoneWith
  <2>3. \A j \in DOMAIN log : j \in AppliedTo(k) <=> IsDoneWith(log[j].txn, k)
    BY DEF AppliedTo
  <2>4. \A j \in DOMAIN log : j \in AppliedTo(k)' <=> \E s : s = log[j].txn /\ IsDoneWith(s, k)'
    BY <1>2 DEF AppliedTo, IsDoneWith
  <2>5. \A j \in DOMAIN log : log[j].txn \in Txns
    BY <1>1 DEF Records
  <2>6. \A j \in DOMAIN log : j # i => (j \in AppliedTo(k)' <=> j \in AppliedTo(k))
    BY <1>4, <2>2, <2>3, <2>4, <2>5
  <2>7. i \in AppliedTo(k)' /\ i \notin AppliedTo(k)
    BY <1>3, <2>1, <2>3, <2>4
  <2>8. AppliedTo(k) \subseteq DOMAIN log /\ AppliedTo(k)' \subseteq DOMAIN log
    BY <1>2 DEF AppliedTo
  <2> QED
    BY <2>6, <2>7, <2>8
<1>9. RedoLog(k, log, AppliedTo(k) \cup {i}) = RedoRecord(k, RedoLog(k, log, AppliedTo(k)), log[i])
  BY <1>1, <1>7, <1>8, RedoOfOneMore
<1>10. Recoverable(k)' = RedoRecord(k, Recoverable(k), log[i])
  BY <1>2, <1>8, <1>9, RecoverableIs, NextRecoverableIs
<1> QED
  BY <1>1, <1>3, <1>5, <1>6, <1>10 DEF IsPending

-----------------------------------------------------------------------------
\* Whose rows a step changes

\* A commit or rollback takes an operation that it has left, on a row that is there.
LEMMA AppliedIs ==
    ASSUME LockInv, NEW t \in Txns, Apply(t), ~corrupt', TodoIs(t), NEW p, IsNext(t, p)
    PROVE  /\ ~corrupt /\ Ending(t) /\ to_lock[t] = {} /\ ops' = ops /\ pc' = pc
           /\ p \in DOMAIN ops[t] /\ ops[t][p].key \in Keys /\ Applied(t, ops[t][p].key)
           /\ Present(rows[ops[t][p].key]) /\ todo[t] # <<>>
           /\ IF pc[t] = "committing" THEN CommitOp(t, ops[t][p]) ELSE RollbackOp(ops[t][p])
           /\ twisted' = twisted /\ log' = log
           /\ retouched' = IF \/ pc[t] = "rolling back" \/ ops[t][p].kind = "lock"
                              \/ ~Effective(ops[t][p])
                           THEN retouched
                           ELSE (retouched \ {ops[t][p].key}) \cup (Retouched(t) \cap {ops[t][p].key})
           /\ \A j \in Keys \ {ops[t][p].key} :
                 /\ rows'[j] = rows[j] /\ (j \in retouched' <=> j \in retouched)
                 /\ (j \in freed' <=> j \in freed)
<1>0. Typed /\ Holds /\ RowsAreThere
  BY DEF LockInv
<1>1. p \in DOMAIN ops[t] /\ ops[t][p] \in Ops /\ ops[t][p].key \in Keys
  BY <1>0, LeftIsAPart DEF IsNext
<1>2. /\ Head(todo[t]) = ops[t][p] /\ Ending(t) /\ to_lock[t] = {} /\ todo[t] # <<>>
      /\ ops' = ops /\ pc' = pc /\ twisted' = twisted /\ log' = log /\ ~corrupt
  BY DEF IsNext, Apply
<1>3. /\ Present(rows[ops[t][p].key])
      /\ IF pc[t] = "committing" THEN CommitOp(t, ops[t][p]) ELSE RollbackOp(ops[t][p])
      /\ retouched' = IF \/ pc[t] = "rolling back" \/ ops[t][p].kind = "lock"
                         \/ ~Effective(ops[t][p])
                      THEN retouched
                      ELSE (retouched \ {ops[t][p].key}) \cup (Retouched(t) \cap {ops[t][p].key})
  BY <1>2 DEF Apply
<1>4. \A j \in Keys \ {ops[t][p].key} : rows'[j] = rows[j]
  <2> TAKE j \in Keys \ {ops[t][p].key}
  <2> QED
    BY <1>3, <1>1, <1>0 DEF CommitOp, RollbackOp, Unlocked, Removed, Typed, TypeOK
<1>5. \A j \in Keys \ {ops[t][p].key} :
         (j \in retouched' <=> j \in retouched) /\ (j \in freed' <=> j \in freed)
  BY <1>3 DEF CommitOp, RollbackOp, Unlocked, Removed, FreedBy
<1>6. Applied(t, ops[t][p].key)
  <2>1. ~Present(rows'[ops[t][p].key]) => exclusive = t
    <3>1. /\ pc[t] = "committing" /\ ops[t][p].kind = "delete" => exclusive = t
          /\ pc[t] = "rolling back" /\ ops[t][p].kind = "insert" => exclusive = t
      <4>1. ops[t][p] \in Range(ops[t])
        BY <1>1 DEF Range
      <4> QED
        BY <1>0, <4>1 DEF Holds, HoldsOf
    <3>2. ops[t][p].val # NoValue
      BY <1>0, LeftIsAPart DEF IsNext
    <3>3. rows \in [Keys -> Rows]
      BY <1>0 DEF Typed, TypeOK
    <3> DEFINE o == ops[t][p]
    <3>4. ASSUME NEW v, NEW n, NEW op, Unlocked(o.key, v, n, op), v # NoValue
          PROVE  Present(rows'[o.key])
      BY <1>1, <3>3, <3>4 DEF Unlocked, Present, Rows
    <3>5. rows[o.key].val # NoValue
      BY <1>3 DEF Present
    <3>6. CASE pc[t] = "committing"
      <4>1. o.kind = "delete" \/ Present(rows'[o.key])
        BY <1>3, <3>2, <3>4, <3>5, <3>6 DEF CommitOp
      <4> QED
        BY <3>1, <3>6, <4>1
    <3>7. CASE pc[t] # "committing"
      <4>1. pc[t] = "rolling back"
        BY <1>2, <3>7 DEF Ending
      <4>2. o.kind = "insert" \/ Present(rows'[o.key])
        BY <1>3, <3>4, <3>5, <3>7 DEF RollbackOp
      <4> QED
        BY <3>1, <4>1, <4>2
    <3> QED
      BY <3>6, <3>7
  <2> QED
    BY <1>2, <1>3, <2>1 DEF Applied
<1> QED
  BY <1>1, <1>2, <1>3, <1>4, <1>5, <1>6

\* The rows that others have operations left on stay as they are.
LEMMA OthersRows ==
    ASSUME LockInv, ~corrupt, NEW t \in Txns, Steps(t), NEW s \in Txns \ {t}, TodoIs(s), TodoIs(t),
           NEW i \in Left(s), ~corrupt'
    PROVE  /\ ops[s][i].key \in Keys /\ rows'[ops[s][i].key] = rows[ops[s][i].key]
           /\ ops[s][i].key \in retouched' <=> ops[s][i].key \in retouched
           /\ ~Settles(t, ops[s][i].key)
<1> DEFINE k == ops[s][i].key
<1>0. Typed /\ Holds /\ RowsAreThere /\ ClaimsAreExclusive
  BY DEF LockInv
<1>1. k \in Keys /\ k \in Claimed(s)
  BY <1>0, LeftIsAPart, LeftIsClaimed
<1>2. rows'[k] = rows[k]
  BY <1>0, <1>1, RowsChange, ClaimsAreRespected DEF Steps, Marked, Inserted
<1>3. CASE Apply(t)
  <2>1. PICK p : IsNext(t, p)
    BY <1>0, <1>3, ApplyTakesOne
  <2>2. /\ Applied(t, ops[t][p].key) /\ ops[t][p].key \in Keys /\ Head(todo[t]) = ops[t][p]
        /\ \A j \in Keys \ {ops[t][p].key} : j \in retouched' <=> j \in retouched
    BY <1>3, <2>1, AppliedIs DEF IsNext
  <2>3. k # ops[t][p].key
    BY <1>0, <1>1, <2>2, ClaimsAreRespected
  <2> QED
    BY <1>1, <1>2, <2>2, <2>3 DEF Settles
<1>4. CASE ~Apply(t)
  <2>1. retouched' = retouched
    BY <1>4 DEF Steps, Proceed, Ask, Seek, Advance, Act, Insert, Sleep, Timeout, Reenter, Relock,
         Rollback, WriteRecord, Initialize, LockNext, Complete, Die, CallFails, CommitFails,
         RollbackFails, Fail, Enter
  <2> QED
    BY <1>1, <1>2, <1>4, <2>1 DEF Settles
<1> QED
  BY <1>3, <1>4

\* No key is untwisted.
LEMMA TwistedStays ==
    ASSUME NEW t \in Txns, Steps(t), NEW k, Tracked(k)'
    PROVE  Tracked(k)
BY DEF Tracked, Steps, Proceed, Ask, Seek, Advance, Act, Insert, Sleep, Timeout, Reenter, Relock,
         Rollback, WriteRecord, Initialize, LockNext, Apply, Complete, Die, CallFails, CommitFails,
         RollbackFails, Fail, Enter

\* Who has inserted a row has no other operation on it.
LEMMA InsertsAreAlone ==
    ASSUME Typed, NEW t \in Txns, NEW i \in DOMAIN ops[t], NEW j \in DOMAIN ops[t], i # j,
           ops[t][j].key = ops[t][i].key, Shaped(t, i), Shaped(t, j)
    PROVE  ops[t][i].kind # "insert"
<1>1. i \in Nat /\ j \in Nat
  BY LeftIsAPart
<1>2. i \in On(t, ops[t][j].key) /\ j \in On(t, ops[t][i].key)
  BY DEF On
<1> QED
  BY <1>1, <1>2 DEF Shaped

-----------------------------------------------------------------------------
\* Records that the map has yet to follow

Kept == LockInv /\ LogIsTyped /\ Sound /\ ~corrupt

\* What of that the lemmas use.
LEMMA KeptParts ==
    ASSUME Kept
    PROVE  /\ LockInv /\ Typed /\ Holds /\ RowsAreThere /\ ClaimsAreExclusive /\ LogIsTyped /\ ~corrupt
           /\ RecordsAreKept /\ PendingAreCurrent /\ RowsAgree
           /\ \A t \in Txns : TodoIs(t) /\ NotStale(t)
           /\ \A t \in Txns : \A i \in DOMAIN ops[t] : Tracked(ops[t][i].key) => Shaped(t, i)
           /\ \A t \in Txns : \A i \in Left(t) : Tracked(ops[t][i].key) => FindsFirst(t, i)
           /\ \A t \in Txns : \A i \in Left(t) :
                 Tracked(ops[t][i].key) /\ IsLastLeft(t, i) => Traced(t, i)
BY DEF Kept, LockInv, Sound, OpsAreSound

\* What redo makes of a record is told by the same operations after a step that keeps them.
LEMMA TellsStays ==
    ASSUME NEW r, NEW s \in Txns, Tells(r, s), ops'[s] = ops[s], Left(s)' \subseteq Left(s),
           \A i \in Left(s)' : ops[s][i].kind = "insert" /\ Tracked(ops[s][i].key) =>
              rows'[ops[s][i].key].val = rows[ops[s][i].key].val,
           \A k : Tracked(k)' => Tracked(k)
    PROVE  Tells(r, s)'
<1>1. \A k : On(s, k)' = On(s, k)
  BY DEF On
<1>2. \A k \in Keys : Touches(r, k) => \E i \in On(s, k)' : ops'[s][i].kind # "lock"
  BY <1>1 DEF Tells
<1>3. ASSUME NEW i \in DOMAIN ops[s], IsLast(s, i)', NEW k, k = ops[s][i].key, Tracked(k)'
      PROVE  TellsOf(r, s, i)'
  <2>1. IsLast(s, i) /\ Tracked(k)
    BY <1>1, <1>3 DEF IsLast
  <2>2. TellsOf(r, s, i)
    BY <1>3, <2>1 DEF Tells
  <2>3. i \in Left(s)' /\ ops[s][i].kind = "insert" => rows'[k].val = rows[k].val /\ i \in Left(s)
    BY <1>3, <2>1
  <2>4. /\ ops[s][i].kind = "lock" => ~Touches(r, k)
        /\ ops[s][i].kind = "delete" => \A row \in Founds : RedoRecord(k, row, r) = NotThere
        /\ ops[s][i].kind = "update" =>
             \A row \in Founds : RedoRecord(k, row, r) = [val |-> ops[s][i].val, lsn |-> r.lsn]
        /\ ops[s][i].kind = "insert" /\ i \in Left(s)' =>
             RedoRecord(k, NotThere, r) = [val |-> rows'[k].val, lsn |-> r.lsn]
    BY <1>3, <2>2, <2>3 DEF TellsOf
  <2> QED
    BY <1>3, <2>4 DEF TellsOf
<1>4. ASSUME NEW i \in DOMAIN ops'[s], NEW k, k = ops'[s][i].key, IsLast(s, i)', Tracked(k)'
      PROVE  TellsOf(r, s, i)'
  BY <1>3, <1>4
<1> QED
  BY <1>2, <1>4 DEF Tells

\* The lists that a step leaves to those that have one.
LEMMA LeftShrinks ==
    ASSUME Kept, NEW t \in Txns, Steps(t), NEW s \in Txns, pc'[s] \in {"commit", "committing"}
    PROVE  ops'[s] = ops[s] /\ Left(s)' \subseteq Left(s)
<1>0. Typed /\ Holds /\ RowsAreThere /\ TodoIs(s) /\ pc \in [Txns -> Points]
  BY KeptParts DEF Typed, TypeOK
<1>1. CASE s # t
  BY <1>0, <1>1, OthersLists
<1>2. CASE s = t
  <2>1. ~Complete(t)
    BY <1>0, <1>2 DEF Complete
  <2>2. CASE Apply(t)
    BY <1>0, <1>2, <2>2, ApplyTakesOne DEF IsNext
  <2>3. CASE ~Apply(t)
    <3>1. ~(\E k, o : Extended(t, k, o))
      BY <1>0, <1>2 DEF Extended
    <3>2. ops'[t] = ops[t]
      BY <1>0, <2>1, <2>3, <3>1, StepKinds DEF Quiet, Rewritten, WriteRecord
    <3> QED
      BY <1>0, <1>2, <2>1, <2>3, <3>2, ListsStay
  <2> QED
    BY <2>2, <2>3
<1> QED
  BY <1>1, <1>2

\* The value of an inserted row is there to see until its commit.
LEMMA InsertedStay ==
    ASSUME Kept, NEW t \in Txns, Steps(t), ~corrupt', NEW s \in Txns,
           pc'[s] \in {"commit", "committing"}, NEW i \in Left(s)',
           ops[s][i].kind = "insert", Tracked(ops[s][i].key)
    PROVE  rows'[ops[s][i].key] = rows[ops[s][i].key]
<1>0. /\ LockInv /\ Typed /\ Holds /\ RowsAreThere /\ TodoIs(s) /\ TodoIs(t) /\ ~corrupt
      /\ pc \in [Txns -> Points] /\ i \in Left(s) /\ i \in DOMAIN ops[s] /\ ops[s][i].key \in Keys
  <2>1. i \in Left(s)
    BY LeftShrinks
  <2> QED
    BY <2>1, KeptParts, LeftIsAPart DEF Typed, TypeOK
<1>1. CASE s # t
  BY <1>0, <1>1, OthersRows
<1>2. CASE s = t
  <2>1. CASE Apply(t)
    <3>1. PICK p : IsNext(t, p)
      BY <1>0, <2>1, ApplyTakesOne
    <3>2. /\ p \in DOMAIN ops[t] /\ i # p
          /\ \A j \in Keys \ {ops[t][p].key} : rows'[j] = rows[j]
      BY <1>0, <1>2, <2>1, <3>1, AppliedIs DEF IsNext
    <3>3. CASE ops[t][p].key = ops[t][i].key
      <4>1. Shaped(t, i) /\ Shaped(t, p)
        BY <1>0, <1>2, <3>2, <3>3, KeptParts
      <4> QED
        BY <1>0, <1>2, <3>2, <3>3, <4>1, InsertsAreAlone
    <3> QED
      BY <1>0, <1>2, <3>2, <3>3
  <2>2. CASE ~Apply(t)
    <3>1. ~Act(t) /\ ~Insert(t)
      BY <1>0, <1>2 DEF Act, Insert, Leave, Goto
    <3> QED
      BY <1>0, <2>2, <3>1, RowsChange DEF Steps
  <2> QED
    BY <2>1, <2>2
<1> QED
  BY <1>1, <1>2

\* The record that is written tells what the operations do.
LEMMA WrittenTells ==
    ASSUME Kept, NEW t \in Txns, NEW r \in Records, r.changes = Logged(t), ~Ending(t)
    PROVE  Tells(r, t)
<1>0. Typed
  BY KeptParts
<1>1. \A k \in Keys : Touches(r, k) => \E i \in On(t, k) : ops[t][i].kind # "lock"
  BY <1>0, LoggedTells
<1>2. ASSUME NEW i \in DOMAIN ops[t], IsLast(t, i), Tracked(ops[t][i].key)
      PROVE  TellsOf(r, t, i)
  <2> DEFINE o == ops[t][i]
             k == o.key
  <2>1. k \in Keys /\ i \in On(t, k) /\ i \in Nat
    BY <1>0, LeftIsAPart DEF On
  <2>2. CASE o.kind = "lock"
    <3>1. \A j \in On(t, k) : j <= i /\ Shaped(t, j) /\ j \in Nat
      BY <1>0, <1>2, <2>1, KeptParts, LeftIsAPart DEF IsLast, On
    <3>2. \A j \in On(t, k) : j = i
      BY <1>2, <2>1, <2>2, <3>1, KeptParts DEF Shaped
    <3>3. ~Touches(r, k)
      BY <1>1, <2>1, <2>2, <3>2
    <3> QED
      BY <2>2, <3>3 DEF TellsOf
  <2>3. CASE o.kind # "lock"
    <3>1. PICK d \in DOMAIN r.changes :
                    /\ r.changes[d] = LoggedOp(o) /\ IsLastChange(r.changes, d, k)
                    /\ IsFirst(t, i) => IsFirstChange(r.changes, d, k)
      BY <1>0, <1>2, <2>1, <2>3, LoggedTells
    <3>2. /\ r.changes[d].kind = o.kind /\ r.changes[d].key = k
          /\ r.changes[d].val = IF o.kind = "insert" THEN rows[k].val ELSE o.val
          /\ \A e \in DOMAIN r.changes : e > d => r.changes[e].key # k
      BY <3>1 DEF LoggedOp, IsLastChange
    <3>3. o.kind = "delete" => \A row \in Founds : RedoRecord(k, row, r) = NotThere
      BY <2>1, <3>2, RedoOfRecord
    <3>4. o.kind = "update" =>
             \A row \in Founds : RedoRecord(k, row, r) = [val |-> o.val, lsn |-> r.lsn]
      BY <2>1, <3>2, RedoOfRecord
    <3>5. o.kind = "insert" => RedoRecord(k, NotThere, r) = [val |-> rows[k].val, lsn |-> r.lsn]
      <4> SUFFICES ASSUME o.kind = "insert"
                   PROVE  RedoRecord(k, NotThere, r) = [val |-> rows[k].val, lsn |-> r.lsn]
        OBVIOUS
      <4>1. \A j \in On(t, k) : j = i
        BY <1>0, <1>2, <2>1, KeptParts, InsertsAreAlone DEF On
      <4>2. IsFirst(t, i)
        BY <2>1, <4>1 DEF IsFirst
      <4>3. \A e \in DOMAIN r.changes : e < d => r.changes[e].key # k
        BY <3>1, <4>2 DEF IsFirstChange
      <4>4. NotThere \in Founds
        BY DEF NotThere, Founds, Values
      <4> QED
        BY <2>1, <3>2, <4>3, <4>4, RedoOfRecord
    <3> QED
      BY <2>3, <3>3, <3>4, <3>5 DEF TellsOf
  <2> QED
    BY <2>2, <2>3
<1> QED
  BY <1>1, <1>2 DEF Tells

\* The records that the map has yet to follow go on to tell what redo will make of their rows.
LEMMA PendingStaysCurrent ==
    ASSUME Kept, NEW t \in Txns, Steps(t), ~corrupt'
    PROVE  PendingAreCurrent'
<1>0. /\ LockInv /\ Typed /\ Holds /\ RowsAreThere /\ ClaimsAreExclusive /\ LogIsTyped /\ ~corrupt
      /\ RecordsAreKept /\ PendingAreCurrent /\ \A s \in Txns : TodoIs(s)
      /\ pc \in [Txns -> Points]
  BY KeptParts DEF Typed, TypeOK
<1>1. \A i \in DOMAIN log : log[i] \in Records /\ log[i].txn \in Txns /\ i \in Nat
  <2>1. \A i \in DOMAIN log : log[i] \in Records /\ i \in Nat
    BY <1>0 DEF LogIsTyped
  <2> QED
    BY <2>1 DEF Records
<1>2. /\ DOMAIN log \subseteq DOMAIN log' /\ \A i \in DOMAIN log : log'[i] = log[i]
      /\ \A i \in DOMAIN log' \ DOMAIN log :
            /\ WriteRecord(t) /\ log'[i].txn = t /\ log'[i].changes = Logged(t) /\ log'[i] \in Records
            /\ \A j \in DOMAIN log' : j <= i /\ j \in Nat
  <2>1. CASE WriteRecord(t)
    <3>1. PICK r \in Records :
              /\ r.txn = t /\ r.changes = Logged(t) /\ log' = Append(log, r)
              /\ DOMAIN log' = DOMAIN log \cup {Len(log) + 1} /\ log'[Len(log) + 1] = r
              /\ \A i \in DOMAIN log : log'[i] = log[i] /\ i < Len(log) + 1
      BY <1>0, <2>1, RecordIs
    <3>2. Len(log) + 1 \in Nat
      BY <1>0 DEF LogIsTyped
    <3> QED
      BY <1>1, <2>1, <3>1, <3>2
  <2> QED
    BY <2>1, LogStays
<1>3. \A k : Tracked(k)' => Tracked(k)
  BY TwistedStays
<1>4. ASSUME NEW i \in DOMAIN log, NEW s, s = log[i].txn, pc'[s] \in {"commit", "committing"},
             NEW r, r = log[i]
      PROVE  /\ Tells(r, s)'
             /\ \A j \in DOMAIN log' : j > i => \A d \in Left(s)' : ~Touches(log'[j], ops'[s][d].key)
  <2>1. s \in Txns
    BY <1>1, <1>4
  <2>2. pc[s] \in {"commit", "committing"}
    <3>1. pc[s] \in InLog
      BY <1>0, <1>4 DEF RecordsAreKept, InLog
    <3>2. CASE s = t
      BY <1>0, <1>4, <3>1, <3>2, WriterGoesOn
    <3>3. CASE s # t
      BY <1>0, <1>4, <2>1, <3>3, OthersLists
    <3> QED
      BY <3>2, <3>3
  <2>3. Tells(log[i], s) /\ \A j \in DOMAIN log : j > i => \A d \in Left(s) : ~Touches(log[j], ops[s][d].key)
    BY <1>0, <1>4, <2>2 DEF PendingAreCurrent, IsPending
  <2>4. ops'[s] = ops[s] /\ Left(s)' \subseteq Left(s)
    BY <1>4, <2>1, LeftShrinks
  <2>5. \A d \in Left(s)' : ops[s][d].kind = "insert" /\ Tracked(ops[s][d].key) =>
              rows'[ops[s][d].key].val = rows[ops[s][d].key].val
    BY <1>3, <1>4, <2>1, InsertedStay
  <2>6. Tells(r, s) => Tells(r, s)'
    BY <1>3, <2>1, <2>4, <2>5, TellsStays
  <2>7. ASSUME NEW j \in DOMAIN log', j > i, NEW d \in Left(s)'
        PROVE  ~Touches(log'[j], ops'[s][d].key)
    <3>1. CASE j \in DOMAIN log
      <4>1. \A k : Touches(log[j], k) <=> Touches(log'[j], k)
        BY <1>2, <3>1
      <4> QED
        BY <2>3, <2>4, <2>7, <3>1, <4>1
    <3>2. CASE j \notin DOMAIN log
      <4>1. /\ WriteRecord(t) /\ log'[j].changes = Logged(t) /\ log'[j] \in Records
            /\ pc[t] = "active" /\ s # t
        BY <1>2, <2>2, <3>2 DEF WriteRecord
      <4>2. \A k \in Keys : Touches(log'[j], k) => k \in KeysOf(t)
        BY <1>0, <4>1, LoggedTells DEF On, KeysOf
      <4>3. ops[s][d].key \in Keys /\ ops[s][d].key \in Claimed(s)
        BY <1>0, <2>1, <2>4, LeftIsAPart, LeftIsClaimed
      <4>4. Claimed(t) = KeysOf(t)
        BY <4>1 DEF Claimed, Unsettled, Unfinished
      <4>5. ops[s][d].key \notin KeysOf(t)
        BY <1>0, <2>1, <4>1, <4>3, <4>4 DEF ClaimsAreExclusive
      <4> QED
        BY <2>4, <4>2, <4>3, <4>5
    <3> QED
      BY <3>1, <3>2
  <2> QED
    BY <1>4, <2>3, <2>6, <2>7
<1>5. ASSUME NEW i \in DOMAIN log', i \notin DOMAIN log, NEW r, r = log'[i]
      PROVE  /\ Tells(r, t)' /\ r.txn = t
             /\ \A j \in DOMAIN log' : ~(j > i)
  <2>1. /\ WriteRecord(t) /\ log'[i].txn = t /\ log'[i].changes = Logged(t) /\ log'[i] \in Records
        /\ \A j \in DOMAIN log' : ~(j > i)
    BY <1>2, <1>5
  <2>2. pc[t] = "active" /\ pc'[t] = "commit"
    BY <1>0, <2>1 DEF WriteRecord, Goto
  <2>3. r \in Records /\ r.changes = Logged(t) => Tells(r, t)
    BY <2>2, WrittenTells DEF Ending
  <2>4. ops'[t] = ops[t] /\ Left(t)' \subseteq Left(t)
    BY <2>2, LeftShrinks
  <2>5. \A d \in Left(t)' : ops[t][d].kind = "insert" /\ Tracked(ops[t][d].key) =>
              rows'[ops[t][d].key].val = rows[ops[t][d].key].val
    BY <1>3, <2>2, InsertedStay
  <2>6. Tells(r, t) => Tells(r, t)'
    BY <1>3, <2>4, <2>5, TellsStays
  <2> QED
    BY <1>5, <2>1, <2>3, <2>6
<1>6. ASSUME NEW i \in DOMAIN log', NEW r, r = log'[i], pc'[r.txn] \in {"commit", "committing"}
      PROVE  IsPending(i)'
  <2>1. CASE i \in DOMAIN log
    <3>1. r = log[i]
      BY <1>2, <1>6, <2>1
    <3>2. /\ Tells(r, r.txn)'
          /\ \A j \in DOMAIN log' : j > i => \A d \in Left(r.txn)' : ~Touches(log'[j], ops'[r.txn][d].key)
      BY <1>4, <1>6, <2>1, <3>1
    <3> QED
      BY <1>6, <3>2 DEF IsPending
  <2>2. CASE i \notin DOMAIN log
    <3>1. Tells(r, r.txn)' /\ \A j \in DOMAIN log' : ~(j > i)
      BY <1>5, <1>6, <2>2
    <3> QED
      BY <1>6, <3>1 DEF IsPending
  <2> QED
    BY <2>1, <2>2
<1> QED
  BY <1>6 DEF PendingAreCurrent

-----------------------------------------------------------------------------
\* Operations, and the rows that they are on

\* An operation that marks a row follows the one that has marked it before.
LEMMA MarksFollow ==
    ASSUME Kept, NEW t \in Txns, NEW k \in Keys, NEW o, Extended(t, k, o), Tracked(k)'
    PROVE  /\ o.kind # "insert" => o.op \notin {"insert", "delete"}
           /\ o.kind = "lock" => o.op = "none"
           /\ \A i \in On(t, k) :
                 /\ ops[t][i].kind \in {"lock", "update"} /\ o.kind \in {"update", "delete"}
                 /\ o.op # "none"
                 /\ (\A l \in On(t, k) : l <= i) => o.op = ops[t][i].kind /\ o.id = t
<1>0. /\ Typed /\ RowsAreThere /\ ClaimsAreExclusive /\ NotStale(t) /\ ~corrupt
      /\ rows \in [Keys -> Rows] /\ (~Present(rows[k]) => rows[k] = NoRow)
  BY KeptParts DEF Typed, TypeOK
<1>a. pc[t] \in {"at", "in"}
  BY DEF Extended
<1>1. /\ Left(t) = DOMAIN ops[t] /\ Unsettled(t) /\ DOMAIN ops[t] = 1 .. Len(ops[t])
      /\ Len(ops[t]) \in Nat /\ pc[t] \in {"at", "in"}
  BY <1>0, <1>a, ListsGrow, LeftIsAPart
<1>2. Tracked(k)
  BY DEF Extended, Tracked
<1>3. o.kind # "insert" => o.op \notin {"insert", "delete"} /\ o.op = rows[k].op /\ o.id = rows[k].id
  <2> SUFFICES ASSUME o.kind # "insert"
               PROVE  o.op \notin {"insert", "delete"} /\ o.op = rows[k].op /\ o.id = rows[k].id
    OBVIOUS
  <2>1. /\ pc[t] = "at" /\ call[t].kind \in RowCalls /\ call[t].key = k
        /\ o.op = rows[k].op /\ o.id = rows[k].id
        /\ rows[k].op = "insert" => k \in twisted'
        /\ ~HeldByOther(t, rows[k])
    BY DEF Extended, MayMark
  <2>2. ~Hidden(t, rows[k])
    BY <1>0, <1>2, <2>1 DEF NotStale
  <2>3. rows[k].op # "insert"
    BY <2>1 DEF Tracked
  <2>4. rows[k].op # "delete"
    BY <2>1, <2>2 DEF Hidden, HeldByOther
  <2> QED
    BY <2>1, <2>3, <2>4
<1>4. o.kind = "lock" => o.op = "none" /\ rows[k].id # t
  BY <1>1 DEF Extended, MayMark, HeldByOther
<1>5. o.kind \in {"lock", "insert", "update", "delete"}
  BY DEF Extended, Ops, Marks
<1>6. ASSUME NEW i \in On(t, k)
      PROVE  /\ ops[t][i].kind \in {"lock", "update"} /\ o.kind \in {"update", "delete"}
             /\ o.op # "none"
             /\ (\A l \in On(t, k) : l <= i) => o.op = ops[t][i].kind /\ o.id = t
  <2>1. k \in KeysOf(t) /\ i \in DOMAIN ops[t] /\ ops[t][i].key = k
    BY DEF On, KeysOf
  <2>2. rows[k].op # "none" /\ rows[k].id = t
    BY <1>0, <1>1, <2>1 DEF ClaimsAreExclusive
  <2>3. o.kind # "insert"
    <3>1. o.kind = "insert" => ~Present(rows[k])
      BY DEF Extended, Tracked
    <3>2. NoRow.op = "none"
      BY DEF NoRow
    <3> QED
      BY <1>0, <2>2, <3>1, <3>2
  <2>4. o.kind # "lock"
    BY <1>4, <2>2
  <2>5. PICK m \in On(t, k) : \A l \in On(t, k) : l <= m
    <3>1. On(t, k) \subseteq 1 .. Len(ops[t]) /\ On(t, k) # {}
      BY <1>1 DEF On
    <3> HIDE DEF On
    <3> QED
      BY <1>1, <3>1, Greatest
  <2>6. m \in DOMAIN ops[t] /\ ops[t][m].key = k /\ m \in Left(t)
    BY <1>1, <2>5 DEF On
  <2>7. IsLastLeft(t, m)
    BY <1>1, <2>5, <2>6 DEF IsLastLeft, On
  <2>8. rows[k].op = ops[t][m].kind
    <3>1. Traced(t, m)
      BY <1>2, <2>6, <2>7, KeptParts
    <3> QED
      BY <1>1, <2>6, <3>1 DEF Traced
  <2>9. ops[t][m].kind \in {"lock", "update"}
    <3>1. ops[t][m].kind \in {"lock", "insert", "update", "delete"}
      BY <1>0, <2>6, LeftIsAPart
    <3> QED
      BY <1>3, <2>3, <2>8, <3>1
  <2>10. ops[t][i].kind \in {"lock", "update"}
    <3>1. CASE i = m
      BY <2>9, <3>1
    <3>2. CASE i # m
      <4>1. Shaped(t, m)
        BY <1>2, <2>6, KeptParts
      <4>2. i < m
        BY <1>1, <2>1, <2>5, <2>6, <3>2
      <4> QED
        BY <2>6, <4>1, <4>2 DEF Shaped
    <3> QED
      BY <3>1, <3>2
  <2>11. (\A l \in On(t, k) : l <= i) => i = m
    BY <1>1, <2>1, <2>5, <2>6
  <2> QED
    BY <1>3, <1>5, <2>2, <2>3, <2>4, <2>8, <2>10, <2>11
<1> QED
  BY <1>3, <1>4, <1>6

\* What is said of a list of operations alone is kept with the list.
LEMMA ShapesStay ==
    ASSUME NEW s \in Txns, ops'[s] = ops[s], NEW i \in DOMAIN ops[s], Shaped(s, i)
    PROVE  Shaped(s, i)'
<1>1. \A k : On(s, k)' = On(s, k)
  BY DEF On
<1> QED
  BY <1>1 DEF Shaped

\* A new operation on a row fits those before it.
LEMMA ShapesGrow ==
    ASSUME Kept, NEW t \in Txns, NEW k \in Keys, NEW o, Extended(t, k, o),
           NEW j \in DOMAIN ops'[t], NEW q, q = ops'[t][j].key, Tracked(q)'
    PROVE  Shaped(t, j)'
<1>0. Typed
  BY KeptParts
<1> DEFINE n == Len(ops[t]) + 1
<1>a. o.key = k /\ twisted \subseteq twisted'
  BY DEF Extended
<1>1. /\ DOMAIN ops'[t] = DOMAIN ops[t] \cup {n} /\ ops'[t][n] = o /\ o.key = k
      /\ \A i \in DOMAIN ops[t] : ops'[t][i] = ops[t][i] /\ i < n
      /\ n \in Nat /\ DOMAIN ops[t] \subseteq Nat /\ twisted \subseteq twisted'
  BY <1>0, <1>a, ListsGrow, LeftIsAPart
<1> HIDE DEF n
<1>2. \A x : On(t, x)' = On(t, x) \cup (IF x = k THEN {n} ELSE {})
  <2>1. \A x : On(t, x)' = {i \in DOMAIN ops'[t] : ops'[t][i].key = x}
    BY DEF On
  <2> QED
    BY <1>1, <2>1 DEF On
<1>3. \A x : \A i \in On(t, x) : i \in DOMAIN ops[t] /\ i < n
  BY <1>1 DEF On
<1>4. CASE j = n
  <2>1. Tracked(k)'
    BY <1>1, <1>4
  <2>2. /\ o.kind # "insert" => o.op \notin {"insert", "delete"}
        /\ o.kind = "lock" => o.op = "none"
        /\ \A i \in On(t, k) :
              /\ ops[t][i].kind \in {"lock", "update"} /\ o.kind \in {"update", "delete"}
              /\ o.op # "none"
              /\ (\A l \in On(t, k) : l <= i) => o.op = ops[t][i].kind /\ o.id = t
    BY <2>1, MarksFollow
  <2>3. \A i \in On(t, k)' : i < n => i \in On(t, k) /\ ops'[t][i] = ops[t][i]
    BY <1>1, <1>2, <1>3
  <2>4. On(t, k) \subseteq On(t, k)' /\ \A l \in On(t, k) : l < n
    BY <1>2, <1>3
  <2> QED
    BY <1>1, <1>4, <2>2, <2>3, <2>4 DEF Shaped
<1>5. CASE j # n
  <2>1. j \in DOMAIN ops[t] /\ ops'[t][j] = ops[t][j] /\ j < n /\ j \in Nat
    BY <1>1, <1>5
  <2>2. Shaped(t, j)
    <3>1. q = ops[t][j].key /\ Tracked(q)
      BY <1>1, <2>1 DEF Tracked
    <3> QED
      BY <2>1, <3>1, KeptParts
  <2>3. \A i \in On(t, q)' : i < j => i \in On(t, q) /\ ops'[t][i] = ops[t][i]
    BY <1>1, <1>2, <1>3, <2>1
  <2>4. On(t, q) \subseteq On(t, q)'
    BY <1>2
  <2>5. /\ ops'[t][j].kind # "insert" => ops'[t][j].op \notin {"insert", "delete"}
        /\ ops'[t][j].kind = "lock" => ops'[t][j].op = "none"
        /\ \A i \in On(t, q)' : i < j =>
              /\ ops'[t][i].kind \in {"lock", "update"} /\ ops'[t][j].kind \in {"update", "delete"}
              /\ ops'[t][j].op # "none"
              /\ (\A l \in On(t, q)' : l < j => l <= i) =>
                    ops'[t][j].op = ops'[t][i].kind /\ ops'[t][j].id = t
    BY <2>1, <2>2, <2>3, <2>4 DEF Shaped
  <2> QED
    BY <2>1, <2>5 DEF Shaped
<1> QED
  BY <1>4, <1>5

-----------------------------------------------------------------------------
\* Apply

\* What Apply leaves on the row whose operation it takes.
Became(k, v, op, n) ==
    /\ rows'[k].val = v /\ rows'[k].op = op /\ rows'[k].id = n
    /\ rows'[k].placed = rows[k].placed /\ freed' = freed /\ ver_num' = ver_num

\* An operation that is over leaves that.
LEMMA UnlockedBecomes ==
    ASSUME rows \in [Keys -> Rows], NEW k \in Keys, NEW v, NEW n, NEW op, Unlocked(k, v, n, op)
    PROVE  Became(k, v, op, n)
<1>1. rows' = [rows EXCEPT ![k] = [rows[k] EXCEPT !.val = v, !.op = op, !.id = n]]
  BY DEF Unlocked
<1>2. rows'[k] = [rows[k] EXCEPT !.val = v, !.op = op, !.id = n] /\ rows[k] \in Rows
  BY <1>1
<1> QED
  BY <1>2 DEF Unlocked, Became, Rows

\* What a commit leaves, by the operation,
LEMMA CommitOpIs ==
    ASSUME Kept, NEW t \in Txns, Apply(t), ~corrupt', NEW p, IsNext(t, p), pc[t] = "committing",
           NEW lsn, lsn = (CHOOSE r \in Range(log) : r.txn = t).lsn,
           NEW k, k = ops[t][p].key, NEW o, o = ops[t][p]
    PROVE  \/ ~Effective(o) /\ rows' = rows /\ retouched' = retouched /\ freed' = freed /\ ver_num' = ver_num
           \/ Effective(o) /\ o.kind = "insert" /\ Became(k, rows[k].val, "none", lsn)
           \/ /\ Effective(o) /\ o.kind = "update" /\ Became(k, o.val, "none", lsn)
              /\ k \in Retouched(t) => k \in retouched'
           \/ /\ Effective(o) /\ o.kind = "lock" /\ Became(k, rows[k].val, "none", o.id)
              /\ retouched' = retouched
           \/ /\ Effective(o) /\ o.kind = "delete" /\ rows'[k] = NoRow
              /\ ver_num' = ver_num + 1 /\ freed' = freed \cup FreedBy(k)
<1>1. /\ CommitOp(t, o) /\ k \in Keys /\ o.key = k
      /\ retouched' = IF \/ pc[t] = "rolling back" \/ o.kind = "lock" \/ ~Effective(o)
                      THEN retouched
                      ELSE (retouched \ {k}) \cup (Retouched(t) \cap {k})
  BY KeptParts, AppliedIs
<1>2. rows \in [Keys -> Rows]
  BY KeptParts DEF Typed, TypeOK
<1>3. \A v, n, op : Unlocked(k, v, n, op) => Became(k, v, op, n)
  BY <1>1, <1>2, UnlockedBecomes
<1>4. Removed(k) => rows'[k] = NoRow
  BY <1>1, <1>2 DEF Removed
<1>5. CASE ~Effective(o) /\ UNCHANGED map
  BY <1>1, <1>5
<1>6. CASE Effective(o) /\ o.kind = "insert" /\ Unlocked(k, rows[k].val, lsn, "none")
  BY <1>3, <1>6
<1>7. CASE Effective(o) /\ o.kind = "update" /\ Unlocked(k, o.val, lsn, "none")
  <2>1. k \in Retouched(t) => k \in retouched'
    BY <1>1, <1>7
  <2> QED
    BY <1>3, <1>7, <2>1
<1>8. CASE Effective(o) /\ o.kind = "lock" /\ Unlocked(k, rows[k].val, o.id, "none")
  BY <1>1, <1>3, <1>8
<1>9. CASE /\ Effective(o) /\ o.kind = "delete" /\ Removed(k)
           /\ ver_num' = ver_num + 1 /\ freed' = freed \cup FreedBy(k)
  BY <1>4, <1>9
<1> QED
  BY <1>1, <1>5, <1>6, <1>7, <1>8, <1>9 DEF CommitOp

\* and what a rollback leaves.
LEMMA RollbackOpIs ==
    ASSUME Kept, NEW t \in Txns, Apply(t), ~corrupt', NEW p, IsNext(t, p), pc[t] # "committing",
           NEW k, k = ops[t][p].key, NEW o, o = ops[t][p]
    PROVE  /\ pc[t] = "rolling back" /\ retouched' = retouched /\ ver_num' = ver_num /\ freed' = freed
           /\ o.kind = "insert" => rows'[k] = NoRow
           /\ o.kind # "insert" => Became(k, rows[k].val, o.op, o.id)
<1>1. /\ RollbackOp(o) /\ k \in Keys /\ Ending(t) /\ o.key = k
      /\ retouched' = IF \/ pc[t] = "rolling back" \/ o.kind = "lock" \/ ~Effective(o)
                      THEN retouched
                      ELSE (retouched \ {k}) \cup (Retouched(t) \cap {k})
  BY KeptParts, AppliedIs, ZenonT(60)
<1>2. rows \in [Keys -> Rows]
  BY KeptParts DEF Typed, TypeOK
<1>3. pc[t] = "rolling back"
  BY <1>1 DEF Ending
<1>4. o.kind = "insert" => rows'[k] = NoRow
  BY <1>1, <1>2 DEF RollbackOp, Removed
<1>5. o.kind # "insert" => Became(k, rows[k].val, o.op, o.id)
  BY <1>1, <1>2, UnlockedBecomes DEF RollbackOp
<1>6. ver_num' = ver_num /\ freed' = freed
  BY <1>1 DEF RollbackOp, Unlocked
<1> QED
  BY <1>1, <1>3, <1>4, <1>5, <1>6

\* The last operation left on the row of the one that Apply takes.
LEMMA LastLeftOnRow ==
    ASSUME Kept, NEW t \in Txns, Apply(t), ~corrupt', NEW p, IsNext(t, p), Tracked(ops[t][p].key)
    PROVE  \E m \in Left(t) :
              /\ ops[t][m].key = ops[t][p].key /\ IsLastLeft(t, m) /\ Traced(t, m) /\ Shaped(t, m)
              /\ m \in DOMAIN ops[t] /\ m \in Nat /\ p \in Nat
              /\ pc[t] = "committing" =>
                    /\ p <= m /\ IsLast(t, m) /\ (IsLast(t, p) => m = p)
                    /\ p < m => ops[t][m].kind \in {"update", "delete"}
                                /\ ops[t][p].kind \in {"lock", "update"} /\ ops[t][m].op # "none"
              /\ pc[t] # "committing" => m = p
<1> DEFINE k == ops[t][p].key
<1>1. /\ Typed /\ p \in Left(t) /\ p \in DOMAIN ops[t] /\ DOMAIN ops[t] = 1 .. Len(ops[t])
      /\ Len(ops[t]) \in Nat /\ Left(t) \subseteq DOMAIN ops[t]
  BY KeptParts, LeftIsAPart DEF IsNext
<1>2. /\ pc[t] = "committing" => \A i \in DOMAIN ops[t] : i >= p => i \in Left(t)
      /\ pc[t] = "committing" => \A i \in Left(t) : i >= p
      /\ pc[t] = "rolling back" => \A i \in Left(t) : i <= p
      /\ pc[t] \in {"committing", "rolling back"}
  BY DEF IsNext, Apply, Ending
<1> DEFINE S == {i \in Left(t) : ops[t][i].key = k}
<1>3. PICK m \in S : \A i \in S : i <= m
  <2>1. S \subseteq 1 .. Len(ops[t]) /\ S # {}
    BY <1>1
  <2> HIDE DEF S
  <2> QED
    BY <1>1, <2>1, Greatest
<1>4. m \in Left(t) /\ ops[t][m].key = k /\ IsLastLeft(t, m) /\ p <= m
  BY <1>1, <1>3 DEF IsLastLeft
<1>5. Traced(t, m) /\ Shaped(t, m)
  BY <1>1, <1>4, KeptParts
<1>6. ASSUME pc[t] = "committing"
      PROVE  /\ IsLast(t, m) /\ (IsLast(t, p) => m = p)
             /\ p < m => ops[t][m].kind \in {"update", "delete"}
                         /\ ops[t][p].kind \in {"lock", "update"} /\ ops[t][m].op # "none"
  <2>1. \A j \in On(t, k) : j <= m
    <3> TAKE j \in On(t, k)
    <3>1. j \in DOMAIN ops[t] /\ ops[t][j].key = k
      BY DEF On
    <3>2. CASE j >= p
      BY <1>2, <1>3, <1>6, <3>1, <3>2
    <3>3. CASE ~(j >= p)
      BY <1>1, <1>4, <3>1, <3>3
    <3> QED
      BY <3>2, <3>3
  <2>2. m \in On(t, k) /\ p \in On(t, k)
    BY <1>1, <1>4 DEF On
  <2>3. IsLast(t, p) => m <= p
    BY <2>2 DEF IsLast
  <2>4. p < m => ops[t][m].kind \in {"update", "delete"}
                 /\ ops[t][p].kind \in {"lock", "update"} /\ ops[t][m].op # "none"
    BY <1>4, <1>5, <2>2 DEF Shaped
  <2> QED
    BY <1>1, <1>4, <2>1, <2>3, <2>4 DEF IsLast
<1>7. pc[t] # "committing" => m = p
  <2>1. pc[t] # "committing" => m <= p
    BY <1>2, <1>4
  <2>2. m \in Nat /\ p \in Nat
    BY <1>1, <1>4
  <2> QED
    BY <1>4, <2>1, <2>2
<1> QED
  BY <1>1, <1>4, <1>5, <1>6, <1>7

\* A row that a commit updates again has been updated twice.
LEMMA TwoAreMoreThanOne ==
    ASSUME Typed, NEW t \in Txns, NEW i \in DOMAIN ops[t], NEW j \in DOMAIN ops[t], i # j,
           ops[t][i].kind = "update", ops[t][j].kind = "update", ops[t][j].key = ops[t][i].key
    PROVE  ops[t][i].key \in Retouched(t)
<1> DEFINE k == ops[t][i].key
           S == Listed(t, k, "update")
<1>1. i \in S /\ j \in S /\ S \subseteq 1 .. Len(ops[t]) /\ Len(ops[t]) \in Nat /\ k \in KeysOf(t)
  BY LeftIsAPart DEF Listed
<1> HIDE DEF S
<1>2. IsFiniteSet(1 .. Len(ops[t]))
  <2>1. 1 \in Int /\ Len(ops[t]) \in Int
    BY <1>1
  <2> QED
    BY <2>1, FS_Interval
<1>3. IsFiniteSet(S)
  BY <1>1, <1>2, FS_Subset
<1>4. Cardinality({i, j}) = 2
  <2>1. Cardinality({i}) = 1 /\ IsFiniteSet({i})
    BY FS_Singleton
  <2>2. Cardinality({i} \cup {j}) = Cardinality({i}) + 1
    BY <2>1, FS_AddElement
  <2>3. {i} \cup {j} = {i, j}
    OBVIOUS
  <2> QED
    BY <2>1, <2>2, <2>3
<1>5. Cardinality({i, j}) <= Cardinality(S) /\ Cardinality(S) \in Nat
  <2>1. {i, j} \subseteq S
    BY <1>1
  <2> QED
    BY <1>3, <2>1, FS_Subset, FS_CardinalityType
<1>6. Cardinality(Listed(t, k, "update")) > 1
  BY <1>4, <1>5 DEF S
<1> QED
  BY <1>1, <1>6 DEF Retouched

-----------------------------------------------------------------------------
\* The operations that are left, and what they find on their rows

\* Once a commit has its locks it goes on to its end.
LEMMA CommitGoesOn ==
    ASSUME Typed, NEW t \in Txns, Steps(t), pc[t] = "committing", to_lock[t] = {}, ~Complete(t)
    PROVE  pc'[t] = "committing"
<1>1. pc \in [Txns -> Points]
  BY DEF Typed, TypeOK
<1> QED
  BY <1>1 DEF Steps, Proceed, Ask, Seek, Advance, Act, Insert, Sleep, Timeout, Reenter, Relock,
       Rollback, WriteRecord, Initialize, LockNext, Apply, Die, CallFails, CommitFails,
       RollbackFails, EndIsStuck, During, Fail, Enter, Goto, Ending

\* At its end a transaction has no operation left.
LEMMA NothingLeft ==
    ASSUME Typed, NEW t \in Txns, Complete(t)
    PROVE  Left(t)' = {} /\ DOMAIN ops'[t] = {} /\ pc'[t] = "done" /\ TodoIs(t)'
<1>1. /\ ops'[t] = <<>> /\ pc'[t] = "done" /\ pc[t] \in {"committing", "rolling back"}
  BY DEF Typed, TypeOK, Complete, Ending
<1>a. DOMAIN ops'[t] = {}
  <2>1. ops'[t] = <<>>
    BY <1>1
  <2>2. Len(<<>>) = 0 /\ DOMAIN <<>> = 1 .. 0 /\ 1 .. 0 = {}
    OBVIOUS
  <2> QED
    BY <2>1, <2>2
<1>2. Left(t)' = {} /\ DOMAIN ops'[t] = {}
  BY <1>a DEF Left
<1> QED
  BY <1>1, <1>2 DEF TodoIs, Ending

\* A step that neither gives a row up nor adds an operation, by who has some left.
LEMMA CalmSteps ==
    ASSUME Kept, NEW t \in Txns, Steps(t), ~Apply(t), ~Complete(t), ~(\E o, j : Extended(t, j, o))
    PROVE  /\ ops'[t] = ops[t] /\ Left(t)' = Left(t) /\ TodoIs(t)' /\ retouched' = retouched
           /\ \A k \in Keys : /\ rows'[k].op = rows[k].op /\ rows'[k].id = rows[k].id
                              /\ Present(rows'[k]) <=> Present(rows[k])
<1>0. Typed /\ Holds /\ RowsAreThere /\ TodoIs(t) /\ rows \in [Keys -> Rows]
  BY KeptParts DEF Typed, TypeOK
<1>1. Quiet(t) \/ WriteRecord(t) \/ Rewritten(t, call[t].key)
  BY <1>0, StepKinds
<1>2. /\ ops'[t] = ops[t] /\ retouched' = retouched
      /\ \A k \in Keys : /\ rows'[k].op = rows[k].op /\ rows'[k].id = rows[k].id
                         /\ Present(rows'[k]) <=> Present(rows[k])
  <2>1. CASE Quiet(t)
    BY <2>1 DEF Quiet
  <2>2. CASE WriteRecord(t)
    BY <2>2 DEF WriteRecord
  <2>3. CASE Rewritten(t, call[t].key)
    BY <2>3 DEF Rewritten
  <2> QED
    BY <1>1, <2>1, <2>2, <2>3
<1>3. Left(t)' = Left(t) /\ TodoIs(t)'
  BY <1>0, <1>2, ListsStay
<1> QED
  BY <1>2, <1>3

\* After Apply the row has the mark of the next operation left on it, or none.
LEMMA TracesAfterApply ==
    ASSUME Kept, NEW t \in Txns, Apply(t), ~corrupt', NEW i \in Left(t)', NEW k, k = ops[t][i].key,
           Tracked(k), IsLastLeft(t, i)'
    PROVE  Traced(t, i)'
<1>0. /\ LockInv /\ Typed /\ Holds /\ RowsAreThere /\ TodoIs(t) /\ rows \in [Keys -> Rows]
  BY KeptParts DEF Typed, TypeOK
<1>1. PICK p : IsNext(t, p)
  BY <1>0, ApplyTakesOne
<1> DEFINE o == ops[t][p]
<1>a. /\ p \in Left(t) /\ Left(t)' = Left(t) \ {p}
      /\ pc[t] = "committing" => \A j \in Left(t) : j >= p
      /\ pc[t] = "rolling back" => \A j \in Left(t) : j <= p
  BY <1>1 DEF IsNext
<1>b. i \in Left(t) /\ i # p
  BY <1>a
<1>c. /\ ops' = ops /\ pc' = pc /\ Present(rows[o.key]) /\ Ending(t)
      /\ \A j \in Keys \ {o.key} : rows'[j] = rows[j] /\ (j \in retouched' <=> j \in retouched)
  BY <1>0, <1>1, AppliedIs
<1>d. pc[t] \in {"committing", "rolling back"}
  BY <1>c DEF Ending
<1>e. \A j \in Left(t) : /\ j \in DOMAIN ops[t] /\ j \in Nat /\ ops[t][j].key \in Keys
                         /\ ops[t][j].val # NoValue
  BY <1>0, LeftIsAPart
<1>2. /\ p \in Left(t) /\ i \in Left(t) /\ i # p /\ Left(t)' = Left(t) \ {p} /\ ops' = ops /\ pc' = pc
      /\ i \in DOMAIN ops[t] /\ p \in DOMAIN ops[t] /\ i \in Nat /\ p \in Nat
      /\ ops[t][i].key \in Keys /\ o.key \in Keys /\ Present(rows[o.key])
      /\ \A j \in Keys \ {o.key} : rows'[j] = rows[j] /\ (j \in retouched' <=> j \in retouched)
      /\ pc[t] \in {"committing", "rolling back"}
      /\ ops[t][i].val # NoValue /\ o.val # NoValue
  BY <1>a, <1>b, <1>c, <1>d, <1>e
<1>n. i \in Nat /\ p \in Nat /\ i # p
  BY <1>2
<1>3. \A j \in Left(t) : j # p /\ ops[t][j].key = k => j <= i
  BY <1>2 DEF IsLastLeft
<1>4. CASE k # o.key
  <2>1. IsLastLeft(t, i)
    BY <1>2, <1>3, <1>4 DEF IsLastLeft
  <2>2. Traced(t, i)
    BY <1>2, <2>1, KeptParts
  <2>3. rows'[k] = rows[k] /\ (k \in retouched' <=> k \in retouched) /\ k \in Keys
    BY <1>2, <1>4
  <2> QED
    BY <1>2, <2>2, <2>3 DEF Traced, Present
<1>5. CASE k = o.key
  <2>1. PICK m \in Left(t) :
              /\ ops[t][m].key = k /\ Traced(t, m) /\ Shaped(t, m) /\ IsLastLeft(t, m)
              /\ m \in DOMAIN ops[t] /\ m \in Nat
              /\ pc[t] = "committing" =>
                    /\ p <= m
                    /\ p < m => ops[t][m].kind \in {"update", "delete"}
                                /\ ops[t][p].kind \in {"lock", "update"} /\ ops[t][m].op # "none"
              /\ pc[t] # "committing" => m = p
    BY <1>0, <1>1, <1>5, LastLeftOnRow
  <2>2. CASE pc[t] = "committing"
    <3>1. i > p
      BY <1>a, <1>2, <2>2
    <3>2. i <= m
      BY <1>2, <2>1 DEF IsLastLeft
    <3>3. m = i /\ p < m
      <4>a. m \in Nat /\ p <= m /\ m \in Left(t) /\ ops[t][m].key = k
        BY <2>1, <2>2
      <4>1. m # p
        BY <1>n, <3>1, <3>2, <4>a
      <4>2. m <= i
        BY <1>3, <4>1, <4>a
      <4> QED
        BY <1>n, <3>1, <3>2, <4>2, <4>a
    <3>4. /\ Present(rows[k])
          /\ \/ rows[k].op = ops[t][i].kind /\ rows[k].id = t
             \/ rows[k].op = "none" /\ k \in retouched /\ ops[t][i].kind = "update"
      BY <2>1, <3>3 DEF Traced
    <3>5. PICK lsn : lsn = (CHOOSE r \in Range(log) : r.txn = t).lsn
      OBVIOUS
    <3>6. \/ ~Effective(o) /\ rows' = rows /\ retouched' = retouched
          \/ /\ Effective(o) /\ o.kind = "update" /\ Became(k, o.val, "none", lsn)
             /\ k \in Retouched(t) => k \in retouched'
          \/ Effective(o) /\ o.kind = "lock"
      BY <1>1, <1>5, <2>1, <2>2, <3>3, <3>5, CommitOpIs
    <3>7. CASE ~Effective(o) /\ rows' = rows /\ retouched' = retouched
      BY <1>2, <2>2, <3>4, <3>7 DEF Traced
    <3>8. CASE Effective(o)
      <4>1. o.kind = ops[t][i].kind /\ o.kind = "update"
        BY <1>5, <2>1, <3>3, <3>4, <3>8 DEF Effective
      <4>2. k \in Retouched(t)
        BY <1>0, <1>2, <1>5, <4>1, TwoAreMoreThanOne
      <4>3. Became(k, o.val, "none", lsn) /\ k \in retouched'
        BY <3>6, <3>8, <4>1, <4>2
      <4> QED
        BY <1>2, <2>2, <4>1, <4>3 DEF Traced, Became, Present
    <3> QED
      BY <3>6, <3>7, <3>8
  <2>3. CASE pc[t] # "committing"
    <3>1. pc[t] = "rolling back" /\ m = p /\ i < p
      <4>1. pc[t] = "rolling back" /\ m = p
        BY <1>d, <2>1, <2>3
      <4>2. i <= p
        BY <1>a, <1>b, <4>1
      <4>3. i < p
        BY <1>n, <4>2
      <4> QED
        BY <4>1, <4>3
    <3>2. i \in On(t, k) /\ p \in On(t, k)
      BY <1>2, <1>5 DEF On
    <3>3. \A l \in On(t, k) : l < p => l <= i
      <4> SUFFICES ASSUME NEW l \in On(t, k), l < p PROVE l <= i
        OBVIOUS
      <4>1. l \in Left(t)
        <5>1. l \in DOMAIN ops[t] /\ ops[t][l].key = k
          BY DEF On
        <5>2. p <= Len(todo[t])
          BY <1>2, <3>1 DEF Left
        <5>3. DOMAIN ops[t] = 1 .. Len(ops[t]) /\ Len(ops[t]) \in Nat /\ Len(todo[t]) \in Nat
          BY <1>0, LeftIsAPart
        <5>4. l <= Len(todo[t])
          BY <1>n, <5>1, <5>2, <5>3
        <5> QED
          BY <3>1, <5>1, <5>4 DEF Left
      <4>2. ops[t][l].key = k /\ l # p
        <5>1. l \in Nat
          BY <1>e, <4>1
        <5> QED
          BY <1>n, <5>1 DEF On
      <4> QED
        BY <1>3, <4>1, <4>2
    <3>4. /\ o.kind \in {"update", "delete"} /\ o.op = ops[t][i].kind /\ o.id = t
      BY <1>5, <2>1, <3>1, <3>2, <3>3 DEF Shaped
    <3>5. Became(k, rows[k].val, o.op, o.id)
      BY <1>1, <1>5, <2>3, <3>4, RollbackOpIs
    <3> QED
      BY <1>2, <1>5, <3>4, <3>5 DEF Traced, Became, Present
  <2> QED
    BY <2>2, <2>3
<1> QED
  BY <1>4, <1>5

\* Each last operation left on a row goes on to have its mark there.
LEMMA TracesStay ==
    ASSUME Kept, NEW t \in Txns, Steps(t), ~corrupt', NEW s \in Txns, NEW i \in Left(s)',
           NEW k, k = ops'[s][i].key, Tracked(k)', IsLastLeft(s, i)'
    PROVE  Traced(s, i)'
<1>0. /\ LockInv /\ Typed /\ Holds /\ RowsAreThere /\ ClaimsAreExclusive /\ TodoIs(t) /\ TodoIs(s)
      /\ Tracked(k) /\ ~corrupt
  BY KeptParts, TwistedStays
<1>1. CASE s # t
  <2>1. /\ ops'[s] = ops[s] /\ Left(s)' = Left(s)
        /\ pc'[s] = pc[s] \/ (pc[s] = "asleep" /\ pc'[s] = "woken")
    BY <1>0, <1>1, OthersLists
  <2>2. k = ops[s][i].key /\ IsLastLeft(s, i)
    BY <2>1 DEF IsLastLeft
  <2>3. Traced(s, i)
    BY <1>0, <2>1, <2>2, KeptParts
  <2>4. k \in Keys /\ rows'[k] = rows[k] /\ (k \in retouched' <=> k \in retouched)
    BY <1>0, <1>1, <2>1, <2>2, OthersRows
  <2> QED
    BY <2>1, <2>2, <2>3, <2>4 DEF Traced, Present
<1>2. CASE s = t
  <2>1. CASE Apply(t)
    <3>1. ops' = ops
      BY <2>1 DEF Apply
    <3> QED
      BY <1>0, <1>2, <2>1, <3>1, TracesAfterApply
  <2>2. CASE Complete(t)
    BY <1>0, <1>2, <2>2, NothingLeft
  <2>3. CASE \E o, j : Extended(t, j, o)
    <3>1. PICK o, j : Extended(t, j, o)
      BY <2>3
    <3> DEFINE n == Len(ops[t]) + 1
    <3>2. /\ DOMAIN ops'[t] = DOMAIN ops[t] \cup {n} /\ ops'[t][n] = o
          /\ \A e \in DOMAIN ops[t] : ops'[t][e] = ops[t][e] /\ e < n
          /\ Left(t) = DOMAIN ops[t] /\ Left(t)' = DOMAIN ops'[t] /\ Unsettled(t)
      BY <1>0, <3>1, ListsGrow
    <3>3. /\ o.key = j /\ j \in Keys /\ rows'[j].op = o.kind /\ rows'[j].id = t /\ Present(rows'[j])
          /\ \A q \in Keys \ {j} : rows'[q] = rows[q]
          /\ pc[t] # "committing"
      BY <3>1 DEF Extended
    <3> HIDE DEF n
    <3>4. CASE i = n
      <4>1. ops'[t][i] = o /\ k = j
        BY <1>2, <3>2, <3>3, <3>4
      <4> QED
        BY <1>2, <3>3, <4>1 DEF Traced, Present
    <3>5. CASE i # n
      <4>1. i \in DOMAIN ops[t] /\ ops'[t][i] = ops[t][i] /\ i < n /\ k = ops[t][i].key /\ k \in Keys
        <5>1. i \in DOMAIN ops[t] /\ ops'[t][i] = ops[t][i] /\ i < n
          BY <1>2, <3>2, <3>5
        <5> QED
          BY <1>0, <1>2, <5>1, LeftIsAPart
      <4>2. k # j
        <5>1. n \in Left(t)' /\ (ops'[t][n].key = k => n <= i)
          BY <1>2, <3>2 DEF IsLastLeft
        <5>2. i \in Nat /\ n \in Nat
          BY <1>0, <4>1, LeftIsAPart DEF n
        <5> QED
          BY <3>2, <3>3, <4>1, <5>1, <5>2
      <4>3. IsLastLeft(t, i)
        BY <1>2, <3>2, <4>1 DEF IsLastLeft
      <4>4. Traced(t, i)
        BY <1>0, <3>2, <4>1, <4>3, KeptParts
      <4>5. rows'[k] = rows[k]
        BY <3>3, <4>1, <4>2
      <4> QED
        BY <1>2, <3>3, <4>1, <4>4, <4>5 DEF Traced, Present
    <3> QED
      BY <3>4, <3>5
  <2>4. CASE ~Apply(t) /\ ~Complete(t) /\ ~(\E o, j : Extended(t, j, o))
    <3>1. /\ ops'[t] = ops[t] /\ Left(t)' = Left(t) /\ retouched' = retouched
          /\ \A q \in Keys : /\ rows'[q].op = rows[q].op /\ rows'[q].id = rows[q].id
                             /\ Present(rows'[q]) <=> Present(rows[q])
      BY <2>4, CalmSteps
    <3>2. k = ops[t][i].key /\ IsLastLeft(t, i) /\ i \in Left(t)
      BY <1>2, <3>1 DEF IsLastLeft
    <3>3. Traced(t, i) /\ k \in Keys /\ k \in KeysOf(t)
      BY <1>0, <3>2, KeptParts, LeftIsAPart
    <3>4. CASE rows[k].op = ops[t][i].kind /\ rows[k].id = t
      BY <1>2, <3>1, <3>2, <3>3, <3>4 DEF Traced
    <3>5. CASE ~(rows[k].op = ops[t][i].kind /\ rows[k].id = t)
      <4>1. pc[t] = "committing" /\ rows[k].op = "none" /\ k \in retouched /\ ops[t][i].kind = "update"
        BY <3>2, <3>3, <3>5 DEF Traced
      <4>2. ~Unsettled(t)
        BY <1>0, <3>3, <4>1 DEF ClaimsAreExclusive
      <4>3. pc'[t] = "committing"
        BY <1>0, <2>4, <4>1, <4>2, CommitGoesOn DEF Unsettled
      <4> QED
        BY <1>2, <3>1, <3>2, <3>3, <4>1, <4>3 DEF Traced
    <3> QED
      BY <3>4, <3>5
  <2> QED
    BY <2>1, <2>2, <2>3, <2>4
<1> QED
  BY <1>1, <1>2

\* What an operation remembers of the row that it has found without a mark.
LEMMA FindsStay ==
    ASSUME Kept, NEW t \in Txns, Steps(t), ~corrupt', NEW s \in Txns, NEW i \in Left(s)',
           NEW k, k = ops'[s][i].key, Tracked(k)'
    PROVE  FindsFirst(s, i)'
<1>0. /\ LockInv /\ Typed /\ Holds /\ RowsAreThere /\ TodoIs(t) /\ TodoIs(s) /\ LogIsTyped
      /\ RecordsAreKept /\ PendingAreCurrent /\ Tracked(k) /\ ~corrupt
  BY KeptParts, TwistedStays
<1>1. ASSUME k \in Keys, ~Settles(t, k)
      PROVE  Recoverable(k)' = Recoverable(k)
  BY <1>0, <1>1, RecoverableStays
<1>2. ASSUME ops'[s][i] = ops[s][i], i \in Left(s), k \in retouched' <=> k \in retouched, ~Settles(t, k)
      PROVE  FindsFirst(s, i)'
  <2>1. k = ops[s][i].key /\ k \in Keys
    BY <1>0, <1>2, LeftIsAPart
  <2>2. FindsFirst(s, i)
    BY <1>0, <1>2, <2>1, KeptParts
  <2>3. Recoverable(k)' = Recoverable(k)
    BY <1>1, <1>2, <2>1
  <2>4. /\ k \notin retouched' /\ ops'[s][i].kind # "insert" /\ ops'[s][i].op = "none"
           => ops'[s][i].id = Recoverable(k)'.lsn
    BY <1>2, <2>1, <2>2, <2>3 DEF FindsFirst
  <2>5. \A j : ops'[s][i].key = j => j = k
    OBVIOUS
  <2> QED
    BY <2>4, <2>5 DEF FindsFirst
<1>3. CASE s # t
  <2>1. ops'[s] = ops[s] /\ Left(s)' = Left(s)
    BY <1>0, <1>3, OthersLists
  <2>2. (k \in retouched' <=> k \in retouched) /\ ~Settles(t, k)
    BY <1>0, <1>3, <2>1, OthersRows
  <2> QED
    BY <1>2, <2>1, <2>2
<1>4. CASE s = t
  <2>1. CASE Apply(t)
    <3>1. PICK p : IsNext(t, p)
      BY <1>0, <2>1, ApplyTakesOne
    <3>2. /\ p \in Left(t) /\ Left(t)' = Left(t) \ {p} /\ Head(todo[t]) = ops[t][p]
          /\ pc[t] = "committing" => \A j \in Left(t) : j >= p
      BY <3>1 DEF IsNext
    <3>3. /\ ops' = ops
          /\ \A j \in Keys \ {ops[t][p].key} : j \in retouched' <=> j \in retouched
      BY <1>0, <2>1, <3>1, AppliedIs
    <3>4. i \in Left(t) /\ i # p /\ k = ops[t][i].key
      BY <1>4, <3>2, <3>3
    <3>5. /\ i \in DOMAIN ops[t] /\ p \in DOMAIN ops[t] /\ i \in Nat /\ p \in Nat /\ k \in Keys
      BY <1>0, <3>2, <3>4, LeftIsAPart
    <3>6. CASE k # ops[t][p].key
      <4>1. ~Settles(t, k)
        BY <3>2, <3>6 DEF Settles
      <4>2. k \in retouched' <=> k \in retouched
        BY <3>3, <3>5, <3>6
      <4> QED
        BY <1>2, <1>4, <3>3, <3>4, <4>1, <4>2
    <3>7. CASE k = ops[t][p].key /\ pc[t] = "committing"
      <4>1. Shaped(t, i) /\ p \in On(t, k) /\ p < i
        <5>1. Shaped(t, i)
          BY <1>0, <3>4, <3>5, KeptParts
        <5>2. p \in On(t, k)
          BY <3>5, <3>7 DEF On
        <5>3. p <= i
          BY <3>2, <3>4, <3>7
        <5>4. p < i
          BY <3>4, <3>5, <5>3
        <5> QED
          BY <5>1, <5>2, <5>4
      <4>2. ops[t][i].op # "none"
        BY <3>4, <4>1 DEF Shaped
      <4> QED
        BY <1>4, <3>3, <4>2 DEF FindsFirst
    <3>8. CASE k = ops[t][p].key /\ pc[t] # "committing"
      <4>1. retouched' = retouched
        BY <2>1, <3>1, <3>8, RollbackOpIs
      <4>2. ~Settles(t, k)
        BY <3>8 DEF Settles
      <4> QED
        BY <1>2, <1>4, <3>3, <3>4, <4>1, <4>2
    <3> QED
      BY <3>6, <3>7, <3>8
  <2>2. CASE Complete(t)
    BY <1>0, <1>4, <2>2, NothingLeft
  <2>3. CASE \E o, j : Extended(t, j, o)
    <3>1. PICK o, j : Extended(t, j, o)
      BY <2>3
    <3> DEFINE n == Len(ops[t]) + 1
    <3>2. /\ DOMAIN ops'[t] = DOMAIN ops[t] \cup {n} /\ ops'[t][n] = o
          /\ \A e \in DOMAIN ops[t] : ops'[t][e] = ops[t][e]
          /\ Left(t) = DOMAIN ops[t] /\ Left(t)' = DOMAIN ops'[t]
      BY <1>0, <3>1, ListsGrow
    <3>3. /\ o.key = j /\ j \in Keys /\ retouched' = retouched /\ ~Apply(t)
          /\ o.kind # "insert" => o.op = rows[j].op /\ o.id = rows[j].id /\ Present(rows[j])
      BY <3>1 DEF Extended, Apply, Ending
    <3>4. ~Settles(t, k)
      BY <3>3 DEF Settles
    <3> HIDE DEF n
    <3>5. CASE i = n
      <4>1. ops'[t][i] = o /\ k = j
        BY <1>4, <3>2, <3>3, <3>5
      <4>2. Recoverable(k)' = Recoverable(k)
        BY <1>1, <3>3, <3>4, <4>1
      <4>3. Agrees(rows[k], Recoverable(k), k \in retouched)
        BY <1>0, <3>3, <4>1, KeptParts DEF RowsAgree
      <4>4. /\ k \notin retouched /\ o.kind # "insert" /\ o.op = "none"
               => o.id = Recoverable(k)'.lsn
        BY <3>3, <4>1, <4>2, <4>3 DEF Agrees
      <4>5. \A q : ops'[t][i].key = q => q = k
        BY <1>4
      <4> QED
        BY <1>4, <3>3, <4>1, <4>4, <4>5 DEF FindsFirst
    <3>6. CASE i # n
      <4>1. i \in Left(t) /\ ops'[t][i] = ops[t][i]
        BY <1>4, <3>2, <3>6
      <4> QED
        BY <1>2, <1>4, <3>3, <3>4, <4>1
    <3> QED
      BY <3>5, <3>6
  <2>4. CASE ~Apply(t) /\ ~Complete(t) /\ ~(\E o, j : Extended(t, j, o))
    <3>1. ops'[t] = ops[t] /\ Left(t)' = Left(t) /\ retouched' = retouched
      BY <2>4, CalmSteps
    <3>2. ~Settles(t, k)
      BY <2>4 DEF Settles
    <3> QED
      BY <1>2, <1>4, <3>1, <3>2
  <2> QED
    BY <2>1, <2>2, <2>3, <2>4
<1> QED
  BY <1>3, <1>4

\* The operations of each transaction stay sound.
LEMMA OpsStaySound ==
    ASSUME Kept, NEW t \in Txns, Steps(t), ~corrupt', NEW s \in Txns
    PROVE  OpsAreSound(s)'
<1>0. /\ LockInv /\ Typed /\ Holds /\ RowsAreThere /\ TodoIs(t) /\ TodoIs(s)
  BY KeptParts
<1>1. TodoIs(s)' /\ \A i \in DOMAIN ops'[s] : \A k : k = ops'[s][i].key /\ Tracked(k)' => Shaped(s, i)'
  <2>1. ASSUME ops'[s] = ops[s], NEW i \in DOMAIN ops'[s], NEW k, k = ops'[s][i].key, Tracked(k)'
        PROVE  Shaped(s, i)'
    <3>1. Tracked(k) /\ k = ops[s][i].key /\ i \in DOMAIN ops[s]
      BY <2>1, TwistedStays
    <3>2. Shaped(s, i)
      BY <3>1, KeptParts
    <3> QED
      BY <2>1, <3>1, <3>2, ShapesStay
  <2>2. CASE s # t
    BY <1>0, <2>1, <2>2, OthersLists
  <2>3. CASE s = t /\ Apply(t)
    BY <1>0, <2>1, <2>3, ApplyTakesOne
  <2>4. CASE s = t /\ Complete(t)
    BY <1>0, <2>4, NothingLeft
  <2>5. CASE s = t /\ \E o, j : Extended(t, j, o)
    <3>1. PICK o, j : Extended(t, j, o)
      BY <2>5
    <3>2. j \in Keys
      BY <3>1 DEF Extended
    <3>3. TodoIs(t)'
      BY <1>0, <3>1, ListsGrow
    <3> QED
      BY <2>5, <3>1, <3>2, <3>3, ShapesGrow
  <2>6. CASE s = t /\ ~Apply(t) /\ ~Complete(t) /\ ~(\E o, j : Extended(t, j, o))
    BY <2>1, <2>6, CalmSteps
  <2> QED
    BY <2>2, <2>3, <2>4, <2>5, <2>6
<1>2. ASSUME NEW i \in Left(s)', NEW k, k = ops'[s][i].key, Tracked(k)'
      PROVE  FindsFirst(s, i)' /\ (IsLastLeft(s, i)' => Traced(s, i)')
  BY <1>2, FindsStay, TracesStay
<1>3. \A i \in DOMAIN ops'[s] : \A k : k = ops'[s][i].key /\ k \notin twisted' => Shaped(s, i)'
  BY <1>1 DEF Tracked
<1>4. \A i \in Left(s)' : \A k : k = ops'[s][i].key /\ k \notin twisted' =>
         FindsFirst(s, i)' /\ (IsLastLeft(s, i)' => Traced(s, i)')
  BY <1>2 DEF Tracked
<1> QED
  BY <1>1, <1>3, <1>4 DEF OpsAreSound, Tracked

-----------------------------------------------------------------------------
\* The rows and the log

\* Recovery makes rows of redo's kind.
LEMMA RecoverableIsFound ==
    ASSUME LogIsTyped, NEW k \in Keys
    PROVE  Recoverable(k) \in Founds
<1>1. log \in Seq(Records)
  BY DEF LogIsTyped
<1>2. PICK h : RedoneAlong(k, log, AppliedTo(k), h) /\ RedoLog(k, log, AppliedTo(k)) = h[Len(log)]
  BY <1>1, RedoLogInSteps
<1>3. Len(log) \in 0 .. Len(log)
  BY <1>1
<1> QED
  BY <1>2, <1>3, RecoverableIs DEF RedoneAlong

\* The keys to do are those of the operations left, in the next state too.
LeftMatches ==
    \A t \in Txns : Typed /\ TodoIs(t) /\ Ending(t) => KeysToDo(t) = {ops[t][i].key : i \in Left(t)}

\* That is so in every state,
LEMMA LeftAlwaysMatches == LeftMatches
BY LeftIsToDo DEF LeftMatches

\* so in the next.
LEMMA LeftMatchesNext == LeftMatches'
BY LeftAlwaysMatches, PTL

\* A commit is through with a row at the last operation on it.
LEMMA LastSettles ==
    ASSUME Kept, NEW t \in Txns, Steps(t), Apply(t), ~corrupt', NEW p, IsNext(t, p),
           pc[t] = "committing", NEW k, k = ops[t][p].key
    PROVE  Settles(t, k) <=> IsLast(t, p)
<1>0. /\ LockInv /\ Typed /\ Holds /\ RowsAreThere /\ TodoIs(t)
  BY KeptParts
<1>1. /\ p \in Left(t) /\ Head(todo[t]) = ops[t][p] /\ Left(t)' = Left(t) \ {p}
      /\ \A i \in Left(t) : i >= p
      /\ \A i \in DOMAIN ops[t] : i >= p => i \in Left(t)
  BY DEF IsNext
<1>2. \A i \in Left(t) : i \in DOMAIN ops[t] /\ i \in Nat
  BY <1>0, LeftIsAPart
<1>3. ops' = ops /\ pc' = pc /\ Ending(t) /\ Ending(t)'
  BY <1>0, AppliedIs DEF Ending
<1>4. Typed' /\ TodoIs(t)'
  BY <1>0, ApplyTakesOne, TypesHold DEF Steps
<1>5. KeysToDo(t)' = {ops[t][i].key : i \in Left(t) \ {p}}
  <2>1. KeysToDo(t)' = {ops'[t][i].key : i \in Left(t)'}
    BY <1>3, <1>4, LeftMatchesNext DEF LeftMatches
  <2> QED
    BY <1>1, <1>3, <2>1
<1>6. ASSUME IsLast(t, p)
      PROVE  k \notin KeysToDo(t)'
  <2>1. \A i \in Left(t) : i # p => ops[t][i].key # k
    <3> SUFFICES ASSUME NEW i \in Left(t), i # p, ops[t][i].key = k PROVE FALSE
      OBVIOUS
    <3>1. i \in On(t, k)
      BY <1>2 DEF On
    <3>2. i <= p
      BY <1>6, <3>1 DEF IsLast
    <3>3. i >= p /\ i \in Nat /\ p \in Nat
      BY <1>1, <1>2
    <3> QED
      BY <3>2, <3>3
  <2> QED
    BY <1>5, <2>1
<1>7. ASSUME ~IsLast(t, p)
      PROVE  k \in KeysToDo(t)'
  <2>1. PICK j \in On(t, k) : ~(j <= p)
    BY <1>7 DEF IsLast
  <2>2. j \in DOMAIN ops[t] /\ ops[t][j].key = k /\ j \in Nat /\ p \in Nat
    <3>1. DOMAIN ops[t] \subseteq Nat
      BY <1>0, LeftIsAPart
    <3> QED
      BY <1>1, <1>2, <3>1 DEF On
  <2>3. j >= p /\ j # p
    BY <2>1, <2>2
  <2> QED
    BY <1>1, <1>5, <2>2, <2>3
<1> QED
  BY <1>1, <1>6, <1>7 DEF Settles

\* A commit that is through with a row has made of it what redo makes of its record.
LEMMA CommitAgrees ==
    ASSUME Kept, NEW t \in Txns, Steps(t), Apply(t), ~corrupt', NEW p, IsNext(t, p),
           pc[t] = "committing", NEW k, k = ops[t][p].key, Tracked(k), IsLast(t, p)
    PROVE  Agrees(rows'[k], Recoverable(k)', k \in retouched')
<1>0. /\ LockInv /\ Typed /\ Holds /\ RowsAreThere /\ TodoIs(t) /\ LogIsTyped
      /\ RecordsAreKept /\ PendingAreCurrent
  BY KeptParts
<1> DEFINE o == ops[t][p]
<1>a. p \in Left(t)
  BY DEF IsNext
<1>b. Present(rows[k])
  BY <1>0, AppliedIs
<1>1. p \in Left(t) /\ p \in DOMAIN ops[t] /\ k \in Keys /\ o.val # NoValue /\ Present(rows[k])
  BY <1>0, <1>a, <1>b, LeftIsAPart
<1>2. PICK i \in DOMAIN log :
              /\ log[i] \in Records /\ Tells(log[i], t)
              /\ (CHOOSE r \in Range(log) : r.txn = t) = log[i]
              /\ Recoverable(k)' = RedoRecord(k, Recoverable(k), log[i])
  BY <1>0, <1>1, LastSettles, RecoverableMoves
<1> DEFINE lsn == log[i].lsn
           found == Recoverable(k)
<1>3. TellsOf(log[i], t, p)
  BY <1>1, <1>2 DEF Tells
<1>4. found \in Founds
  BY <1>0, <1>1, RecoverableIsFound
<1>5. /\ o.kind = "lock" => Recoverable(k)' = found
      /\ o.kind = "delete" => Recoverable(k)' = NotThere
      /\ o.kind = "update" => Recoverable(k)' = [val |-> o.val, lsn |-> lsn]
      /\ o.kind = "insert" /\ found = NotThere => Recoverable(k)' = [val |-> rows[k].val, lsn |-> lsn]
  <2>1. o.kind = "lock" => ~Touches(log[i], k)
    BY <1>3 DEF TellsOf
  <2>2. o.kind = "lock" => Recoverable(k)' = found
    BY <1>1, <1>2, <1>4, <2>1, RedoOfRecord
  <2> QED
    BY <1>1, <1>2, <1>3, <1>4, <2>2 DEF TellsOf
<1>6. Agrees(rows[k], found, k \in retouched)
  BY <1>0, <1>1, KeptParts DEF RowsAgree
<1>7. Traced(t, p) /\ Shaped(t, p) /\ FindsFirst(t, p)
  BY <1>0, <1>1, KeptParts, LastLeftOnRow
<1>8. PICK n : n = (CHOOSE r \in Range(log) : r.txn = t).lsn
  OBVIOUS
<1>9. n = lsn
  BY <1>2, <1>8
<1>10. CASE ~Effective(o) /\ rows' = rows /\ retouched' = retouched
  <2>1. rows[k].op = "none" /\ k \in retouched /\ o.kind = "update"
    BY <1>7, <1>10 DEF Traced, Effective
  <2>2. Shown(rows'[k]) /\ k \in retouched'
    BY <1>1, <1>10, <2>1 DEF Shown
  <2> QED
    BY <1>1, <1>5, <2>1, <2>2 DEF Agrees
<1>11. CASE Effective(o) /\ o.kind = "insert" /\ Became(k, rows[k].val, "none", n)
  <2>1. rows[k].op = "insert"
    BY <1>11 DEF Effective
  <2>2. found = NotThere
    BY <1>6, <2>1 DEF Agrees, Shown
  <2>3. Recoverable(k)' = [val |-> rows[k].val, lsn |-> lsn]
    BY <1>5, <1>11, <2>2
  <2> QED
    BY <1>1, <1>9, <1>11, <2>3 DEF Agrees, Became, Shown, Present
<1>12. CASE Effective(o) /\ o.kind = "update" /\ Became(k, o.val, "none", n)
  BY <1>1, <1>5, <1>9, <1>12 DEF Agrees, Became, Shown, Present
<1>13. CASE Effective(o) /\ o.kind = "lock" /\ Became(k, rows[k].val, "none", o.id) /\ retouched' = retouched
  <2>1. rows[k].op = "lock" /\ o.op = "none"
    BY <1>7, <1>13 DEF Effective, Shaped
  <2>2. k \notin retouched => o.id = found.lsn
    BY <1>1, <1>7, <1>13, <2>1 DEF FindsFirst
  <2>3. Shown(rows[k]) /\ Shown(rows'[k]) /\ rows'[k].val = rows[k].val /\ rows'[k].id = o.id
    BY <1>1, <1>13, <2>1 DEF Shown, Became, Present
  <2> QED
    BY <1>5, <1>6, <1>13, <2>2, <2>3 DEF Agrees
<1>14. CASE o.kind = "delete" /\ rows'[k] = NoRow
  <2>1. ~Present(rows'[k]) /\ Recoverable(k)' = NotThere
    BY <1>5, <1>14 DEF Present, NoRow
  <2> QED
    BY <2>1 DEF Agrees, Shown, NotThere
<1> QED
  BY <1>8, <1>10, <1>11, <1>12, <1>13, <1>14, CommitOpIs

\* What Apply makes of its row agrees with the log.
LEMMA AppliedAgrees ==
    ASSUME Kept, NEW t \in Txns, Steps(t), Apply(t), ~corrupt', NEW p, IsNext(t, p),
           NEW k, k = ops[t][p].key, Tracked(k)
    PROVE  Agrees(rows'[k], Recoverable(k)', k \in retouched')
<1>0. /\ LockInv /\ Typed /\ Holds /\ RowsAreThere /\ TodoIs(t) /\ LogIsTyped
      /\ RecordsAreKept /\ PendingAreCurrent
  BY KeptParts
<1> DEFINE o == ops[t][p]
<1>a. p \in Left(t)
  BY DEF IsNext
<1>b. Present(rows[k])
  BY <1>0, AppliedIs
<1>1. /\ p \in Left(t) /\ p \in DOMAIN ops[t] /\ k \in Keys /\ o.val # NoValue /\ Present(rows[k])
      /\ o.kind \in {"lock", "insert", "update", "delete"}
  BY <1>0, <1>a, <1>b, LeftIsAPart
<1>2. Agrees(rows[k], Recoverable(k), k \in retouched)
  BY <1>0, <1>1, KeptParts DEF RowsAgree
<1>3. PICK m \in Left(t) :
              /\ ops[t][m].key = k /\ Traced(t, m) /\ Shaped(t, m)
              /\ m \in DOMAIN ops[t] /\ m \in Nat /\ p \in Nat
              /\ pc[t] = "committing" =>
                    /\ p <= m /\ IsLast(t, m)
                    /\ p < m => ops[t][m].kind \in {"update", "delete"}
                                /\ ops[t][p].kind \in {"lock", "update"} /\ ops[t][m].op # "none"
              /\ pc[t] # "committing" => m = p
  BY LastLeftOnRow
<1>4. CASE pc[t] = "committing" /\ IsLast(t, p)
  BY <1>4, CommitAgrees
<1>5. CASE pc[t] = "committing" /\ ~IsLast(t, p)
  <2>1. Recoverable(k)' = Recoverable(k)
    BY <1>0, <1>1, <1>5, LastSettles, RecoverableStays
  <2>2. p < m
    <3>1. m # p
      BY <1>3, <1>5
    <3>2. p <= m /\ p \in Nat /\ m \in Nat
      BY <1>3, <1>5
    <3> QED
      BY <3>1, <3>2
  <2>3. ops[t][m].kind \in {"update", "delete"} /\ o.kind \in {"lock", "update"}
    BY <1>3, <1>5, <2>2
  <2>4. PICK n : n = (CHOOSE r \in Range(log) : r.txn = t).lsn
    OBVIOUS
  <2>5. \/ ~Effective(o) /\ rows' = rows /\ retouched' = retouched
        \/ /\ Effective(o) /\ o.kind = "update" /\ Became(k, o.val, "none", n)
           /\ k \in Retouched(t) => k \in retouched'
        \/ Effective(o) /\ o.kind = "lock"
    BY <1>5, <2>3, <2>4, CommitOpIs
  <2>6. CASE ~Effective(o) /\ rows' = rows /\ retouched' = retouched
    BY <1>2, <2>1, <2>6
  <2>7. CASE Effective(o)
    <3>1. rows[k].op = o.kind
      BY <2>7 DEF Effective
    <3>2. o.kind = "update" /\ ops[t][m].kind = "update" /\ rows[k].op = "update"
      BY <1>3, <2>3, <3>1 DEF Traced
    <3>3. k \in Retouched(t)
      BY <1>0, <1>1, <1>3, <2>2, <3>2, TwoAreMoreThanOne
    <3>4. Became(k, o.val, "none", n) /\ k \in retouched'
      BY <2>5, <2>7, <3>2, <3>3
    <3>5. Shown(rows[k]) /\ Shown(rows'[k])
      BY <1>1, <3>2, <3>4 DEF Shown, Became, Present
    <3> QED
      BY <1>2, <2>1, <3>4, <3>5 DEF Agrees
  <2> QED
    BY <2>5, <2>6, <2>7
<1>6. CASE pc[t] # "committing"
  <2>1. Recoverable(k)' = Recoverable(k)
    BY <1>0, <1>1, <1>6, RecoverableStays DEF Settles
  <2>2. /\ retouched' = retouched
        /\ o.kind = "insert" => rows'[k] = NoRow
        /\ o.kind # "insert" => Became(k, rows[k].val, o.op, o.id)
    <3>1. PICK q : q = o
      OBVIOUS
    <3>2. /\ retouched' = retouched
          /\ q.kind = "insert" => rows'[k] = NoRow
          /\ q.kind # "insert" => Became(k, rows[k].val, q.op, q.id)
      BY <1>6, <3>1, RollbackOpIs, ZenonT(60)
    <3> QED
      BY <3>1, <3>2
  <2>3. rows[k].op = o.kind /\ Shaped(t, p) /\ FindsFirst(t, p)
    BY <1>0, <1>1, <1>3, <1>6, KeptParts DEF Traced
  <2>4. CASE o.kind = "insert"
    <3>1. ~Shown(rows[k]) /\ ~Shown(rows'[k]) /\ ~Present(rows'[k])
      BY <2>2, <2>3, <2>4 DEF Shown, Present, NoRow
    <3> QED
      BY <1>2, <2>1, <2>2, <3>1 DEF Agrees
  <2>5. CASE o.kind # "insert"
    <3>1. o.op # "insert"
      BY <2>3, <2>5 DEF Shaped
    <3>2. Shown(rows[k]) /\ Shown(rows'[k]) /\ rows'[k].val = rows[k].val
          /\ rows'[k].op = o.op /\ rows'[k].id = o.id
      BY <1>1, <2>2, <2>3, <2>5, <3>1 DEF Shown, Became, Present
    <3>3. o.op = "none" /\ k \notin retouched => o.id = Recoverable(k).lsn
      BY <1>1, <2>3, <2>5 DEF FindsFirst
    <3> QED
      BY <1>2, <2>1, <2>2, <3>2, <3>3 DEF Agrees
  <2> QED
    BY <2>4, <2>5
<1> QED
  BY <1>4, <1>5, <1>6

\* The map goes on to say what the log says.
LEMMA RowsStayAgreed ==
    ASSUME Kept, NEW t \in Txns, Steps(t), ~corrupt'
    PROVE  RowsAgree'
<1>0. /\ LockInv /\ Typed /\ Holds /\ RowsAreThere /\ TodoIs(t) /\ LogIsTyped
      /\ RecordsAreKept /\ PendingAreCurrent
  BY KeptParts
<1>1. ASSUME NEW k \in Keys, Tracked(k)'
      PROVE  Agrees(rows'[k], Recoverable(k)', k \in retouched')
  <2>1. Tracked(k) /\ Agrees(rows[k], Recoverable(k), k \in retouched)
    BY <1>0, <1>1, TwistedStays, KeptParts DEF RowsAgree
  <2>2. CASE Apply(t)
    <3>1. PICK p : IsNext(t, p)
      BY <1>0, <2>2, ApplyTakesOne
    <3>2. CASE k = ops[t][p].key
      BY <2>1, <2>2, <3>1, <3>2, AppliedAgrees
    <3>3. CASE k # ops[t][p].key
      <4>a. \A j \in Keys \ {ops[t][p].key} :
               rows'[j] = rows[j] /\ (j \in retouched' <=> j \in retouched)
        BY <1>0, <2>2, <3>1, AppliedIs
      <4>1. rows'[k] = rows[k] /\ (k \in retouched' <=> k \in retouched)
        BY <3>3, <4>a
      <4>2. ~Settles(t, k)
        BY <3>1, <3>3 DEF IsNext, Settles
      <4>3. Recoverable(k)' = Recoverable(k)
        BY <1>0, <4>2, RecoverableStays
      <4> QED
        BY <2>1, <4>1, <4>3
    <3> QED
      BY <3>2, <3>3
  <2>3. CASE ~Apply(t)
    <3>1. Recoverable(k)' = Recoverable(k)
      BY <1>0, <2>3, RecoverableStays DEF Settles
    <3>2. CASE \E o, j : Extended(t, j, o)
      <4>1. PICK o, j : Extended(t, j, o)
        BY <3>2
      <4>2. retouched' = retouched /\ (k # j => rows'[k] = rows[k])
        BY <4>1 DEF Extended
      <4>3. CASE k = j
        <5>1. /\ rows'[k].op = o.kind /\ Present(rows'[k]) /\ o.kind # "none"
              /\ o.kind = "insert" => ~Present(rows[k])
              /\ o.kind # "insert" => /\ Present(rows[k]) /\ rows'[k].val = rows[k].val
                                      /\ rows[k].op # "insert"
          BY <1>1, <4>1, <4>3 DEF Extended, Tracked, Ops, Marks
        <5> QED
          BY <2>1, <3>1, <4>2, <5>1 DEF Agrees, Shown
      <4> QED
        BY <2>1, <3>1, <4>2, <4>3
    <3>3. CASE Rewritten(t, call[t].key)
      <4>1. /\ retouched' = retouched
            /\ rows'[k] = rows[k] \/ (rows'[k].op = "insert" /\ rows[k].op = "insert")
        BY <3>3 DEF Rewritten
      <4> QED
        BY <2>1, <3>1, <4>1 DEF Agrees, Shown
    <3>4. CASE Quiet(t) \/ WriteRecord(t) \/ Complete(t)
      <4>1. retouched' = retouched /\ rows' = rows
        BY <3>4 DEF Quiet, WriteRecord, Complete
      <4> QED
        BY <2>1, <3>1, <4>1
    <3> QED
      BY <1>0, <2>3, <3>2, <3>3, <3>4, StepKinds
  <2> QED
    BY <2>2, <2>3
<1> QED
  BY <1>1 DEF RowsAgree

-----------------------------------------------------------------------------
\* Iterators

\* What Apply does to its row.
LEMMA AppliedRow ==
    ASSUME Kept, NEW t \in Txns, Apply(t), ~corrupt', NEW p, IsNext(t, p),
           NEW k, k = ops[t][p].key, Tracked(k)
    PROVE  /\ rows'[k].op \notin {"insert", "delete"} \/ rows'[k] = rows[k]
           /\ Present(rows[k]) /\ k \in Keys
           /\ ~Present(rows'[k]) =>
                 ver_num' = ver_num + 1 \/ (rows[k].op = "insert" /\ rows[k].id = t)
           /\ ver_num' \in {ver_num, ver_num + 1}
           /\ \/ rows'[k].placed = rows[k].placed /\ (k \in freed' <=> k \in freed)
              \/ /\ rows'[k] = NoRow
                 /\ IF k \in freed' THEN k \in freed \/ rows[k].placed
                                    ELSE k \notin freed /\ ~rows[k].placed
              \/ /\ rows'[k] = NoRow /\ (k \in freed' <=> k \in freed)
                 /\ rows[k].op = "insert"
<1>0. /\ LockInv /\ Typed /\ Holds /\ RowsAreThere /\ TodoIs(t)
  BY KeptParts
<1>a. p \in Left(t) /\ pc[t] \in {"committing", "rolling back"}
  BY DEF IsNext, Apply, Ending
<1>b. Present(rows[k])
  BY <1>0, AppliedIs
<1>1. PICK o : o = ops[t][p]
  OBVIOUS
<1>2. p \in DOMAIN ops[t] /\ k \in Keys /\ o.val # NoValue /\ Present(rows[k])
  BY <1>0, <1>1, <1>a, <1>b, LeftIsAPart
<1>3. ~Present(NoRow) /\ NoRow.op = "none"
  BY DEF Present, NoRow
<1>4. CASE pc[t] = "committing"
  <2>1. PICK n : n = (CHOOSE r \in Range(log) : r.txn = t).lsn
    OBVIOUS
  <2>2. \/ rows' = rows /\ freed' = freed /\ ver_num' = ver_num
        \/ Became(k, rows[k].val, "none", n)
        \/ Became(k, o.val, "none", n)
        \/ Became(k, rows[k].val, "none", o.id)
        \/ rows'[k] = NoRow /\ ver_num' = ver_num + 1 /\ freed' = freed \cup FreedBy(k)
    BY <1>1, <1>4, <2>1, CommitOpIs
  <2>3. CASE rows' = rows /\ freed' = freed /\ ver_num' = ver_num
    BY <1>2, <2>3
  <2>4. CASE \E v, m : v # NoValue /\ Became(k, v, "none", m)
    BY <1>2, <2>4 DEF Became, Present
  <2>5. CASE rows'[k] = NoRow /\ ver_num' = ver_num + 1 /\ freed' = freed \cup FreedBy(k)
    BY <1>2, <1>3, <2>5 DEF FreedBy
  <2>6. rows[k].val # NoValue
    BY <1>2 DEF Present
  <2> QED
    BY <1>2, <2>2, <2>3, <2>4, <2>5, <2>6
<1>5. CASE pc[t] # "committing"
  <2>1. /\ ver_num' = ver_num /\ freed' = freed
        /\ o.kind = "insert" => rows'[k] = NoRow
        /\ o.kind # "insert" => Became(k, rows[k].val, o.op, o.id)
    BY <1>1, <1>5, RollbackOpIs, ZenonT(60)
  <2>2. Traced(t, p) /\ Shaped(t, p)
    BY <1>5, LastLeftOnRow
  <2>3. rows[k].op = o.kind /\ rows[k].id = t
    BY <1>1, <1>5, <2>2 DEF Traced
  <2>4. CASE o.kind = "insert"
    BY <1>2, <1>3, <2>1, <2>3, <2>4
  <2>5. CASE o.kind # "insert"
    <3>1. o.op \notin {"insert", "delete"}
      BY <1>1, <2>2, <2>5 DEF Shaped
    <3> QED
      BY <1>2, <2>1, <2>5, <3>1 DEF Became, Present
  <2> QED
    BY <2>4, <2>5
<1> QED
  BY <1>4, <1>5

\* What a step of t hides from s was hidden before, or not there.
LEMMA HiddenWas ==
    ASSUME Kept, NEW t \in Txns, Steps(t), ~corrupt', NEW s \in Txns \ {t},
           NEW j \in Keys, Tracked(j), j \notin twisted', Hidden(s, rows'[j])
    PROVE  Hidden(s, rows[j]) \/ ~Present(rows[j])
<1>0. Typed /\ Holds /\ RowsAreThere /\ TodoIs(t) /\ LockInv
  BY KeptParts
<1>1. CASE Apply(t)
  <2>1. PICK p : IsNext(t, p)
    BY <1>0, <1>1, ApplyTakesOne
  <2>2. CASE j = ops[t][p].key
    <3>1. rows'[j].op \notin {"insert", "delete"} \/ rows'[j] = rows[j]
      BY <1>1, <2>1, <2>2, AppliedRow
    <3> QED
      BY <3>1 DEF Hidden
  <2>3. CASE j # ops[t][p].key
    <3>1. \A q \in Keys \ {ops[t][p].key} : rows'[q] = rows[q]
      BY <1>0, <1>1, <2>1, AppliedIs
    <3> QED
      BY <2>3, <3>1
  <2> QED
    BY <2>2, <2>3
<1>2. CASE \E o, k : Extended(t, k, o)
  <2>1. PICK o, k : Extended(t, k, o)
    BY <1>2
  <2>2. CASE j = k
    <3>1. /\ rows'[j].op = o.kind /\ rows'[j].id = t
          /\ o.kind = "insert" => ~Present(rows[j])
      BY <2>1, <2>2 DEF Extended
    <3> QED
      BY <3>1 DEF Hidden
  <2>3. CASE j # k
    <3>1. rows'[j] = rows[j]
      BY <2>1, <2>3 DEF Extended
    <3> QED
      BY <3>1
  <2> QED
    BY <2>2, <2>3
<1>3. CASE ~Apply(t) /\ ~(\E o, k : Extended(t, k, o))
  <2>1. CASE Complete(t)
    BY <2>1 DEF Complete
  <2>2. CASE ~Complete(t)
    <3>1. rows'[j].op = rows[j].op /\ rows'[j].id = rows[j].id
      BY <1>3, <2>2, CalmSteps
    <3> QED
      BY <3>1 DEF Hidden
  <2> QED
    BY <2>1, <2>2
<1> QED
  BY <1>1, <1>2, <1>3

\* The map's version tells of the rows that have gone.
LEMMA VersionTells ==
    ASSUME Kept, NEW t \in Txns, Steps(t), ~corrupt'
    PROVE  /\ ver_num \in Nat /\ ver_num' \in Nat /\ ver_num <= ver_num'
           /\ \A j \in Keys : Tracked(j) /\ Present(rows[j]) /\ ~Present(rows'[j]) =>
                 ver_num' = ver_num + 1 \/ (rows[j].op = "insert" /\ rows[j].id = t)
<1>0. Typed /\ Holds /\ RowsAreThere /\ TodoIs(t) /\ LockInv /\ ver_num \in Nat
  BY KeptParts DEF Typed, TypeOK
<1>1. CASE Apply(t)
  <2>1. PICK p : IsNext(t, p)
    BY <1>0, <1>1, ApplyTakesOne
  <2>2. \A q \in Keys \ {ops[t][p].key} : rows'[q] = rows[q]
    BY <1>0, <1>1, <2>1, AppliedIs
  <2>3. \A k : k = ops[t][p].key /\ Tracked(k) =>
           (~Present(rows'[k]) => ver_num' = ver_num + 1 \/ (rows[k].op = "insert" /\ rows[k].id = t))
    BY <1>1, <2>1, AppliedRow
  <2>4. ver_num' \in {ver_num, ver_num + 1}
    BY <1>1 DEF Apply, CommitOp, RollbackOp, Unlocked
  <2> QED
    BY <1>0, <2>2, <2>3, <2>4
<1>2. CASE ~Apply(t)
  <2>1. ver_num' = ver_num
    BY <1>2 DEF Steps, Proceed, Ask, Seek, Advance, Act, Insert, Sleep, Timeout, Reenter, Relock,
         Rollback, WriteRecord, Initialize, LockNext, Complete, Die, CallFails, CommitFails,
         RollbackFails, Fail, Enter
  <2>2. \A j \in Keys : Present(rows[j]) => Present(rows'[j])
    BY <1>0, <1>2, RowsGo DEF Steps
  <2> QED
    BY <1>0, <2>1, <2>2
<1> QED
  BY <1>1, <1>2

\* The iterators of the others.
LEMMA OthersNotStale ==
    ASSUME Kept, NEW t \in Txns, Steps(t), ~corrupt', NEW s \in Txns \ {t}
    PROVE  NotStale(s)'
<1>0. /\ Typed /\ Holds /\ RowsAreThere /\ NotStale(s) /\ call[s].key \in Keys
      /\ call \in [Txns -> Called] /\ call[s].ver \in Nat
  BY KeptParts, KeysAreKeys DEF Typed, TypeOK, Called
<1>1. /\ pc'[s] = pc[s] \/ (pc[s] = "asleep" /\ pc'[s] = "woken")
      /\ call'[s].kind = call[s].kind /\ call'[s].key = call[s].key
  BY <1>0, OthersStay DEF Steps
<1> DEFINE j == call[s].key
           seeks == {"dozing", "asleep", "woken"}
<1>2. /\ call'[s].ver = call[s].ver
      /\ \/ call'[s].stale = call[s].stale
         \/ pc[s] \in seeks /\ ~Present(rows'[j])
  <2>1. CASE call'[s] = call[s]
    BY <2>1
  <2>2. CASE Apply(t) /\ call'[s] # call[s]
    <3>1. /\ call'[s] = [call[s] EXCEPT !.stale = TRUE]
          /\ ~Present(rows'[j]) /\ pc[s] \in seeks
      BY <2>2 DEF Apply
    <3>2. call[s] \in Called
      BY <1>0
    <3> QED
      BY <3>1, <3>2 DEF Called
  <2> QED
    BY <1>0, <2>1, <2>2, CallsOfOthers DEF Steps
<1> SUFFICES ASSUME j \notin twisted', call[s].kind \in RowCalls
             PROVE  /\ pc'[s] \in {"at", "back"} => ~call'[s].stale /\ ~Hidden(s, rows'[j])
                    /\ pc'[s] \in seeks =>
                          /\ call[s].ver <= ver_num'
                          /\ call[s].ver = ver_num' =>
                                ~call'[s].stale /\ ~Hidden(s, rows'[j]) /\ Present(rows'[j])
  BY <1>1, <1>2 DEF NotStale, Tracked, Hidden
<1>3. Tracked(j)
  <2>1. \A k : k \notin twisted' => Tracked(k)
    BY TwistedStays DEF Tracked
  <2> QED
    BY <2>1
<1>4. Present(rows[j]) /\ ~Hidden(s, rows[j]) => ~Hidden(s, rows'[j])
  BY <1>0, <1>3, HiddenWas
<1>5. ASSUME pc'[s] \in {"at", "back"}
      PROVE  ~call'[s].stale /\ ~Hidden(s, rows'[j])
  <2>1. pc[s] \in {"at", "back"}
    BY <1>1, <1>5
  <2>2. ~call[s].stale /\ ~Hidden(s, rows[j])
    BY <1>0, <1>3, <2>1 DEF NotStale
  <2>3. Present(rows[j])
    BY <1>0, <2>1, <2>2 DEF RowsAreThere
  <2> QED
    BY <1>2, <1>4, <2>1, <2>2, <2>3
<1>6. ASSUME pc'[s] \in seeks
      PROVE  /\ call[s].ver <= ver_num'
             /\ call[s].ver = ver_num' =>
                   ~call'[s].stale /\ ~Hidden(s, rows'[j]) /\ Present(rows'[j])
  <2>1. pc[s] \in seeks
    BY <1>1, <1>6
  <2>2. /\ call[s].ver <= ver_num
        /\ call[s].ver = ver_num => ~call[s].stale /\ ~Hidden(s, rows[j]) /\ Present(rows[j])
    BY <1>0, <1>3, <2>1 DEF NotStale
  <2>3. /\ ver_num \in Nat /\ ver_num' \in Nat /\ ver_num <= ver_num'
        /\ Present(rows[j]) /\ ~Present(rows'[j]) =>
              ver_num' = ver_num + 1 \/ (rows[j].op = "insert" /\ rows[j].id = t)
    BY <1>0, <1>3, VersionTells
  <2>4. call[s].ver <= ver_num'
    BY <1>0, <2>2, <2>3
  <2>5. ASSUME call[s].ver = ver_num'
        PROVE  ~call'[s].stale /\ ~Hidden(s, rows'[j]) /\ Present(rows'[j])
    <3>1. call[s].ver = ver_num /\ ver_num' = ver_num /\ ver_num' # ver_num + 1
      BY <1>0, <2>2, <2>3, <2>5
    <3>2. ~call[s].stale /\ ~Hidden(s, rows[j]) /\ Present(rows[j])
      BY <2>2, <3>1
    <3>3. ~(rows[j].op = "insert" /\ rows[j].id = t)
      BY <3>2 DEF Hidden
    <3>4. Present(rows'[j])
      BY <2>3, <3>1, <3>2, <3>3
    <3> QED
      BY <1>2, <1>4, <3>2, <3>4
  <2> QED
    BY <2>4, <2>5
<1> QED
  BY <1>5, <1>6

\* The iterator of who works.
LEMMA OwnNotStale ==
    ASSUME Kept, NEW t \in Txns, Steps(t), ~corrupt'
    PROVE  NotStale(t)'
<1>0. /\ Typed /\ Holds /\ RowsAreThere /\ NotStale(t) /\ call[t].key \in Keys /\ CallsAre
      /\ call \in [Txns -> Called] /\ call[t].ver \in Nat /\ pc \in [Txns -> Points] /\ ver_num \in Nat
      /\ call[t] \in Called
  BY KeptParts, KeysAreKeys DEF Typed, TypeOK, Called
<1> DEFINE seeks == {"at", "back", "dozing", "asleep", "woken"}
<1>1. CASE pc'[t] \notin seeks
  BY <1>1 DEF NotStale
<1>2. CASE call'[t].kind \notin RowCalls
  BY <1>2 DEF NotStale
<1>3. CASE pc'[t] \in seeks /\ call'[t].kind \in RowCalls
  <2>1. CASE Seek(t)
    <3>1. /\ pc'[t] = "at" /\ call' = [call EXCEPT ![t].stale = FALSE] /\ ~Hidden(t, rows[call[t].key])
          /\ rows' = rows
      BY <1>0, <1>3, <2>1 DEF Seek, Leave, Goto
    <3>2. ~call'[t].stale /\ call'[t].key = call[t].key
      BY <1>0, <3>1 DEF Called
    <3> QED
      BY <3>1, <3>2 DEF NotStale, Hidden
  <2>2. CASE Act(t)
    <3>1. /\ pc[t] = "at" /\ pc'[t] = "dozing" /\ call' = [call EXCEPT ![t].ver = ver_num]
          /\ UNCHANGED <<rows, twisted, ver_num>>
      BY <1>0, <1>3, <2>2 DEF Act, Leave, Goto
    <3>2. /\ call'[t].stale = call[t].stale /\ call'[t].key = call[t].key /\ call'[t].kind = call[t].kind
          /\ call'[t].ver = ver_num
      BY <1>0, <3>1 DEF Called
    <3>3. Present(rows[call[t].key])
      BY <1>0, <3>1 DEF RowsAreThere
    <3>4. Tracked(call[t].key) => ~call[t].stale /\ ~Hidden(t, rows[call[t].key])
      BY <1>0, <1>3, <3>1, <3>2 DEF NotStale
    <3> QED
      BY <1>0, <3>1, <3>2, <3>3, <3>4 DEF NotStale, Hidden, Tracked, Present
  <2>3. CASE Insert(t)
    <3>1. call'[t].kind \notin RowCalls
      BY <1>0, <2>3 DEF Insert, Leave, NoCall
    <3> QED
      BY <1>3, <3>1
  <2>4. CASE Sleep(t) \/ Relock(t) \/ Die(t)
    <3>1. /\ UNCHANGED <<rows, twisted, ver_num, call>>
          /\ \/ pc'[t] = pc[t]
             \/ pc[t] = "dozing" /\ pc'[t] = "asleep"
             \/ pc[t] = "back" /\ pc'[t] = "at"
      BY <1>0, <2>4 DEF Sleep, Relock, Die, Goto
    <3> QED
      BY <1>0, <3>1 DEF NotStale, Hidden, Tracked, Present
  <2>5. CASE Reenter(t)
    <3>1. /\ UNCHANGED <<rows, twisted, ver_num, call>>
          /\ pc[t] = "woken" /\ pc'[t] = "back" /\ call[t].ver = ver_num
      BY <1>0, <1>3, <2>5 DEF Reenter, Goto, MayBeGone
    <3> QED
      BY <1>0, <3>1 DEF NotStale, Hidden, Tracked
  <2>6. CASE Advance(t) \/ Timeout(t) \/ CallFails(t) \/ WriteRecord(t) \/ Rollback(t) \/ Initialize(t)
             \/ LockNext(t) \/ Apply(t) \/ Complete(t) \/ CommitFails(t) \/ RollbackFails(t)
             \/ \E kind \in Kinds, k \in Keys : Enter(t, kind, k)
    <3>1. pc'[t] \notin seeks
      BY <1>0, <2>6 DEF Advance, Timeout, CallFails, WriteRecord, Rollback, Initialize, LockNext, Apply,
           Complete, CommitFails, RollbackFails, Fail, Enter, Leave, Goto, During, Ending
    <3> QED
      BY <1>3, <3>1
  <2> QED
    BY <2>1, <2>2, <2>3, <2>4, <2>5, <2>6 DEF Steps, Proceed, Ask
<1> QED
  BY <1>1, <1>2, <1>3

-----------------------------------------------------------------------------
\* Places in the checkpoint file, and the use of rows that are gone

\* No step brings a row back that was twisted.
LEMMA TwistedGrows ==
    ASSUME NEW t \in Txns, Steps(t)
    PROVE  twisted \subseteq twisted'
BY DEF Steps, Proceed, Ask, Seek, Advance, Act, Insert, Sleep, Timeout, Reenter, Relock,
         Rollback, WriteRecord, Initialize, LockNext, Apply, Complete, Die, CallFails, CommitFails,
         RollbackFails, Fail, Enter

\* No step makes good what was corrupt, and who commits or rolls back does so no more.
LEMMA CorruptStays ==
    ASSUME NEW t \in Txns, Steps(t)
    PROVE  /\ corrupt => corrupt'
           /\ Apply(t) => ~corrupt
           /\ Apply(t) /\ corrupt' => rows' = rows /\ freed' = freed
<1>1. CASE Apply(t)
  <2>1. ~corrupt /\ (UNCHANGED <<rows, freed>> \/ UNCHANGED corrupt)
    <3>1. ~corrupt
      BY <1>1 DEF Apply
    <3>2. CASE ~Present(rows[Head(todo[t]).key])
      BY <1>1, <3>1, <3>2 DEF Apply
    <3>3. CASE Present(rows[Head(todo[t]).key])
      <4>1. UNCHANGED corrupt
        BY <1>1, <3>3 DEF Apply
      <4> QED
        BY <3>1, <4>1
    <3> QED
      BY <3>2, <3>3
  <2> QED
    BY <1>1, <2>1
<1>2. CASE ~Apply(t)
  <2>1. corrupt' = TRUE \/ corrupt' = corrupt
    BY <1>2 DEF Steps, Proceed, Ask, Seek, Advance, Act, Insert, Sleep, Timeout, Reenter, Relock,
         Rollback, WriteRecord, Initialize, LockNext, Complete, Die, CallFails, CommitFails,
         RollbackFails, Fail, Enter
  <2> QED
    BY <1>2, <2>1
<1> QED
  BY <1>1, <1>2

\* What a step does to a row and its place, when the row goes or not.
LEMMA PlacesMove ==
    ASSUME CommitInv, NEW t \in Txns, Steps(t), NEW k \in Keys, k \notin twisted'
    PROVE  /\ \/ rows'[k].placed = rows[k].placed /\ (k \in freed' <=> k \in freed)
              \/ /\ ~rows'[k].placed
                 /\ IF k \in freed' THEN k \in freed \/ rows[k].placed
                                    ELSE k \notin freed /\ ~rows[k].placed
              \/ /\ ~rows'[k].placed /\ (k \in freed' <=> k \in freed)
                 /\ rows[k].op = "insert" \/ ~Present(rows[k])
           /\ rows'[k].op = "insert" => ~rows'[k].placed \/ rows'[k] = rows[k]
                                        \/ (rows[k].op = "insert" /\ rows'[k].placed = rows[k].placed)
<1>0. LockInv /\ Typed /\ Holds /\ RowsAreThere /\ k \notin twisted
  BY TwistedGrows DEF CommitInv, LockInv
<1>1. CASE Quiet(t) \/ WriteRecord(t) \/ Complete(t)
  <2>1. rows' = rows /\ freed' = freed
    BY <1>1 DEF Quiet, WriteRecord, Complete
  <2> QED
    BY <2>1
<1>2. CASE \E o, j : Extended(t, j, o)
  <2>1. PICK o, j : Extended(t, j, o)
    BY <1>2
  <2>2. CASE j # k
    BY <2>1, <2>2 DEF Extended
  <2>3. CASE j = k /\ o.kind = "insert"
    BY <2>1, <2>3 DEF Extended
  <2>4. CASE j = k /\ o.kind # "insert"
    BY <2>1, <2>4 DEF Extended
  <2> QED
    BY <2>2, <2>3, <2>4
<1>3. CASE Rewritten(t, call[t].key)
  <2>1. freed' = freed /\ (k # call[t].key => rows'[k] = rows[k])
        /\ (k = call[t].key => rows[k].op = "insert" /\ rows'[k].placed = rows[k].placed)
    BY <1>3 DEF Rewritten
  <2> QED
    BY <2>1
<1>4. CASE Apply(t)
  <2>1. CASE corrupt'
    <3>1. rows' = rows /\ freed' = freed
      BY <1>4, <2>1, CorruptStays
    <3> QED
      BY <3>1
  <2>2. CASE ~corrupt'
    <3>1. Kept /\ TodoIs(t)
      <4>1. Kept
        BY <2>2, CorruptStays DEF CommitInv, Kept
      <4> QED
        BY <4>1, KeptParts
    <3>2. PICK p : IsNext(t, p)
      BY <1>0, <1>4, <3>1, ApplyTakesOne
    <3>3. CASE k = ops[t][p].key
      <4>1. /\ rows'[k].op \notin {"insert", "delete"} \/ rows'[k] = rows[k]
            /\ \/ rows'[k].placed = rows[k].placed /\ (k \in freed' <=> k \in freed)
               \/ /\ rows'[k] = NoRow
                  /\ IF k \in freed' THEN k \in freed \/ rows[k].placed
                                     ELSE k \notin freed /\ ~rows[k].placed
               \/ /\ rows'[k] = NoRow /\ (k \in freed' <=> k \in freed)
                  /\ rows[k].op = "insert"
        BY <1>0, <1>4, <2>2, <3>1, <3>2, <3>3, AppliedRow DEF Tracked
      <4>2. ~NoRow.placed
        BY DEF NoRow
      <4> QED
        BY <4>1, <4>2
    <3>4. CASE k # ops[t][p].key
      <4>1. \A j \in Keys \ {ops[t][p].key} : rows'[j] = rows[j] /\ (j \in freed' <=> j \in freed)
        BY <1>0, <1>4, <2>2, <3>1, <3>2, AppliedIs
      <4>2. rows'[k] = rows[k] /\ (k \in freed' <=> k \in freed)
        BY <3>4, <4>1
      <4> QED
        BY <4>2
    <3> QED
      BY <3>3, <3>4
  <2> QED
    BY <2>1, <2>2
<1> QED
  BY <1>0, <1>1, <1>2, <1>3, <1>4, StepKinds

\* Each place goes on to be a row's or to be handed back.
LEMMA PlacesStay ==
    ASSUME CommitInv, NEW t \in Txns, Steps(t)
    PROVE  PlacesInv'
<1>1. /\ \A k \in Recovered \ twisted : rows[k].placed # (k \in freed)
      /\ \A k \in Keys \ twisted : rows[k].op = "insert" => ~rows[k].placed
      /\ \A k \in Keys : ~Present(rows[k]) => ~rows[k].placed
  BY DEF CommitInv, LockInv, Typed, TypeOK, PlacesInv, PlacesAreKept, Tracked, NoRow
<1>2. /\ rows \in [Keys -> Rows] /\ rows' \in [Keys -> Rows]
      /\ \A row \in Rows : row.placed \in BOOLEAN
  BY TypesHold DEF CommitInv, LockInv, Typed, TypeOK, Steps, Rows
<1>3. \A k \in Keys \ twisted' : rows'[k].op = "insert" => ~rows'[k].placed
  <2> TAKE k \in Keys \ twisted'
  <2>1. k \notin twisted
    BY TwistedGrows
  <2>2. rows'[k].op = "insert" => ~rows'[k].placed \/ rows'[k] = rows[k]
                                  \/ (rows[k].op = "insert" /\ rows'[k].placed = rows[k].placed)
    BY PlacesMove
  <2> QED
    BY <1>1, <2>1, <2>2
<1>4. \A k \in Recovered \ twisted' : rows'[k].placed # (k \in freed')
  <2> TAKE k \in Recovered \ twisted'
  <2>1. k \notin twisted /\ k \in Keys
    BY TwistedGrows, RecoveredAssumption
  <2>2. rows[k].placed \in BOOLEAN /\ rows'[k].placed \in BOOLEAN
    BY <1>2, <2>1
  <2>3. \/ rows'[k].placed = rows[k].placed /\ (k \in freed' <=> k \in freed)
        \/ /\ ~rows'[k].placed
           /\ IF k \in freed' THEN k \in freed \/ rows[k].placed
                              ELSE k \notin freed /\ ~rows[k].placed
        \/ /\ ~rows'[k].placed /\ (k \in freed' <=> k \in freed)
           /\ rows[k].op = "insert" \/ ~Present(rows[k])
    BY <2>1, PlacesMove
  <2>4. rows[k].placed # (k \in freed)
    BY <1>1, <2>1
  <2>5. rows[k].op = "insert" \/ ~Present(rows[k]) => ~rows[k].placed
    BY <1>1, <2>1
  <2>6. CASE rows'[k].placed = rows[k].placed /\ (k \in freed' <=> k \in freed)
    BY <2>4, <2>6
  <2>7. CASE k \in freed'
    <3>1. ~rows'[k].placed
      BY <2>2, <2>3, <2>4, <2>5, <2>7
    <3> QED
      BY <2>7, <3>1
  <2>8. CASE k \notin freed'
    <3>1. rows'[k].placed
      BY <2>2, <2>3, <2>4, <2>5, <2>8
    <3> QED
      BY <2>8, <3>1
  <2> QED
    BY <2>7, <2>8
<1> QED
  BY <1>3, <1>4 DEF PlacesInv, PlacesAreKept, Tracked

\* Only a row that was twisted is used when it is gone.
LEMMA StaysSafe ==
    ASSUME CommitInv, NEW t \in Txns, Steps(t)
    PROVE  OnlyTwistedRowsCorrupt'
<1>1. CASE corrupt
  <2>1. twisted # {}
    BY <1>1 DEF CommitInv, OnlyTwistedRowsCorrupt
  <2> QED
    BY <2>1, TwistedGrows DEF OnlyTwistedRowsCorrupt
<1>2. CASE ~corrupt
  <2>0. /\ Kept /\ Typed /\ Holds /\ RowsAreThere /\ CallsAre /\ TodoIs(t) /\ NotStale(t)
        /\ Left(t) \subseteq DOMAIN ops[t] /\ DOMAIN ops[t] = 1 .. Len(ops[t]) /\ Len(ops[t]) \in Nat
    <3>1. Kept
      BY <1>2 DEF CommitInv, Kept
    <3> QED
      BY <3>1, KeptParts, LeftIsAPart DEF Typed
  <2>1. CASE Relock(t) /\ call[t].stale
    <3>1. pc[t] = "back" /\ call[t].kind \in RowCalls
      BY <2>0, <2>1 DEF Relock, CallsAre
    <3>2. ~Tracked(call[t].key)
      BY <2>0, <2>1, <3>1 DEF NotStale
    <3> QED
      BY <3>2, TwistedGrows DEF OnlyTwistedRowsCorrupt, Tracked
  <2>2. CASE Apply(t) /\ ~Present(rows[Head(todo[t]).key])
    <3>1. PICK p : IsNext(t, p)
      BY <2>0, <2>2, ApplyTakesOne
    <3>2. p \in Left(t) /\ Head(todo[t]) = ops[t][p]
      BY <3>1 DEF IsNext
    <3> DEFINE S == {i \in Left(t) : ops[t][i].key = ops[t][p].key}
    <3>3. PICK m \in S : \A i \in S : i <= m
      <4>1. S \subseteq 1 .. Len(ops[t]) /\ S # {}
        BY <2>0, <3>2
      <4> HIDE DEF S
      <4> QED
        BY <2>0, <4>1, Greatest
    <3>4. IsLastLeft(t, m) /\ m \in Left(t) /\ ops[t][m].key = ops[t][p].key
      BY <3>3 DEF IsLastLeft
    <3>5. ~Tracked(ops[t][p].key)
      <4>1. Tracked(ops[t][m].key) => Traced(t, m)
        BY <2>0, <3>4, KeptParts
      <4>2. Tracked(ops[t][m].key) => Present(rows[ops[t][m].key])
        BY <4>1 DEF Traced
      <4> QED
        BY <2>2, <3>2, <3>4, <4>2
    <3> QED
      BY <3>5, TwistedGrows DEF OnlyTwistedRowsCorrupt, Tracked
  <2>3. CASE ~(Relock(t) /\ call[t].stale) /\ ~(Apply(t) /\ ~Present(rows[Head(todo[t]).key]))
    <3>1. ~corrupt'
      BY <1>2, <2>3, ZenonT(60) DEF Steps, Proceed, Ask, Seek, Advance, Act, Insert, Sleep, Timeout, Reenter,
         Relock, Rollback, WriteRecord, Initialize, LockNext, Apply, Complete, Die, CallFails,
         CommitFails, RollbackFails, Fail, Enter
    <3> QED
      BY <3>1 DEF OnlyTwistedRowsCorrupt
  <2> QED
    BY <2>1, <2>2, <2>3
<1> QED
  BY <1>1, <1>2

-----------------------------------------------------------------------------
\* Commits are faithful

\* At the start the log is empty and the rows are what the checkpoint had,
LEMMA CommitInvAtTheStart == Init => CommitInv
<1> SUFFICES ASSUME Init PROVE CommitInv
  OBVIOUS
<1>1. LockInv /\ log = <<>> /\ freed = {} /\ twisted = {} /\ retouched = {} /\ ~corrupt
  BY LockInvAtTheStart DEF Init
<1>2. /\ rows = [k \in Keys |-> IF k \in Recovered THEN Recoveree ELSE NoRow]
      /\ \A t \in Txns : pc[t] = "active" /\ ops[t] = <<>>
  BY DEF Init
<1>3. LogIsTyped /\ Len(log) = 0 /\ DOMAIN log = {}
  <2>1. Len(<<>>) = 0 /\ DOMAIN <<>> = 1 .. 0 /\ 1 .. 0 = {} /\ <<>> \in Seq(Records)
    OBVIOUS
  <2> QED
    BY <1>1, <2>1 DEF LogIsTyped
<1>4. PlacesInv
  BY <1>1, <1>2, RecoveredAssumption DEF PlacesInv, PlacesAreKept, Recoveree, NoRow
<1>5. RecordsAreKept /\ PendingAreCurrent
  BY <1>3 DEF RecordsAreKept, PendingAreCurrent
<1>6. RowsAgree
  <2> SUFFICES ASSUME NEW k \in Keys
               PROVE  Agrees(rows[k], Recoverable(k), k \in retouched)
    BY DEF RowsAgree
  <2>1. Recoverable(k) = First(k)
    <3>1. PICK h : RedoneAlong(k, log, AppliedTo(k), h) /\ RedoLog(k, log, AppliedTo(k)) = h[Len(log)]
      BY <1>3, RedoLogInSteps DEF LogIsTyped
    <3>2. h[0] = First(k)
      BY <3>1 DEF RedoneAlong
    <3> QED
      BY <1>3, <3>1, <3>2, RecoverableIs
  <2>2. <<NoTxn, 0>> # NoValue
    BY NobodyAssumption
  <2>3. CASE k \in Recovered
    BY <1>1, <1>2, <2>1, <2>2, <2>3 DEF Agrees, First, Recoveree, Shown, Present
  <2>4. CASE k \notin Recovered
    BY <1>1, <1>2, <2>1, <2>4 DEF Agrees, First, NoRow, NotThere, Shown, Present
  <2> QED
    BY <2>3, <2>4
<1>7. \A t \in Txns : OpsAreSound(t) /\ NotStale(t)
  <2> TAKE t \in Txns
  <2>1. Left(t) = {} /\ DOMAIN ops[t] = {}
    <3>1. DOMAIN ops[t] = {}
      BY <1>1, <1>2, <1>3
    <3> QED
      BY <3>1 DEF Left
  <2>2. TodoIs(t) /\ NotStale(t)
    BY <1>2 DEF TodoIs, Ending, NotStale
  <2> QED
    BY <2>1, <2>2 DEF OpsAreSound
<1> QED
  BY <1>1, <1>3, <1>4, <1>5, <1>6, <1>7 DEF CommitInv, Sound, OnlyTwistedRowsCorrupt

\* Nothing changes when nothing changes.
LEMMA RecoverableRests ==
    ASSUME UNCHANGED vars, NEW k \in Keys
    PROVE  Recoverable(k)' = Recoverable(k)
<1>1. log' = log /\ pc' = pc /\ todo' = todo
  BY DEF vars
<1>2. AppliedTo(k)' = AppliedTo(k)
  BY <1>1 DEF AppliedTo, IsDoneWith, KeysToDo
<1> QED
  BY <1>1, <1>2, RecoverableIs, NextRecoverableIs

\* and so all of the invariant stays.
LEMMA CommitInvRests ==
    ASSUME CommitInv, UNCHANGED vars
    PROVE  CommitInv'
<1>1. /\ UNCHANGED <<rows, freed, log, pc, ops, call, todo, to_lock, retouched, twisted, corrupt, ver_num>>
      /\ LockInv' /\ LogIsTyped' /\ PlacesInv' /\ OnlyTwistedRowsCorrupt'
  BY LockInvIsKept DEF CommitInv, vars, LogIsTyped, PlacesInv, PlacesAreKept, Tracked,
     OnlyTwistedRowsCorrupt
<1> SUFFICES ASSUME ~corrupt PROVE Sound'
  BY <1>1 DEF CommitInv
<1>2. Kept
  BY DEF CommitInv, Kept
<1>3. /\ \A t \in Txns : Left(t)' = Left(t)
      /\ \A t, k : On(t, k)' = On(t, k)
      /\ \A k : Tracked(k)' <=> Tracked(k)
  BY <1>1 DEF Left, On, Tracked
<1>4. RecordsAreKept'
  BY <1>1, <1>2, KeptParts DEF RecordsAreKept
<1>5. PendingAreCurrent'
  <2> SUFFICES ASSUME NEW i \in DOMAIN log, pc[log[i].txn] \in {"commit", "committing"}
               PROVE  IsPending(i)'
    BY <1>1 DEF PendingAreCurrent
  <2>1. IsPending(i)
    BY <1>2, KeptParts DEF PendingAreCurrent
  <2>2. PICK s : s = log[i].txn
    OBVIOUS
  <2>3. s \in Txns
    <3>1. log \in Seq(Records)
      BY <1>2, KeptParts DEF LogIsTyped
    <3>2. log[i] \in Records
      BY <3>1
    <3> QED
      BY <2>2, <3>2 DEF Records
  <2>4. Tells(log[i], s)'
    <3>1. PICK r : r = log[i]
      OBVIOUS
    <3>2. Tells(r, s)
      BY <2>1, <2>2, <3>1 DEF IsPending
    <3>3. Tells(r, s)'
      BY <1>1, <1>3, <2>3, <3>2, TellsStays
    <3> QED
      BY <1>1, <3>1, <3>3
  <2> QED
    BY <1>1, <1>3, <2>1, <2>2, <2>3, <2>4 DEF IsPending
<1>6. RowsAgree'
  <2> SUFFICES ASSUME NEW k \in Keys, Tracked(k)
               PROVE  Agrees(rows[k], Recoverable(k)', k \in retouched)
    BY <1>1, <1>3 DEF RowsAgree
  <2>1. Recoverable(k)' = Recoverable(k)
    BY RecoverableRests
  <2> QED
    BY <1>2, <2>1, KeptParts DEF RowsAgree
<1>7. ASSUME NEW t \in Txns PROVE OpsAreSound(t)'
  <2>1. TodoIs(t)'
    BY <1>1, <1>2, KeptParts DEF TodoIs, Ending
  <2>2. ASSUME NEW i \in DOMAIN ops[t], Tracked(ops[t][i].key) PROVE Shaped(t, i)'
    BY <1>1, <1>2, <2>2, KeptParts, ShapesStay
  <2>3. ASSUME NEW i \in Left(t), Tracked(ops[t][i].key) PROVE FindsFirst(t, i)'
    <3>1. FindsFirst(t, i)
      BY <1>2, <2>3, KeptParts
    <3>2. \A k \in Keys : Recoverable(k)' = Recoverable(k)
      BY RecoverableRests
    <3> QED
      BY <1>1, <3>1, <3>2 DEF FindsFirst
  <2>4. ASSUME NEW i \in Left(t), Tracked(ops[t][i].key), IsLastLeft(t, i)' PROVE Traced(t, i)'
    <3>1. IsLastLeft(t, i)
      BY <1>1, <1>3, <2>4 DEF IsLastLeft
    <3>2. Traced(t, i)
      BY <1>2, <2>4, <3>1, KeptParts
    <3> QED
      BY <1>1, <3>2 DEF Traced
  <2> QED
    BY <1>1, <1>3, <2>1, <2>2, <2>3, <2>4 DEF OpsAreSound
<1>8. \A t \in Txns : NotStale(t)'
  BY <1>1, <1>2, KeptParts DEF NotStale, Tracked, Hidden, Present
<1> QED
  BY <1>4, <1>5, <1>6, <1>7, <1>8 DEF Sound

\* Every step keeps the invariant.
LEMMA CommitInvIsKept == CommitInv /\ [Next]_vars => CommitInv'
<1> SUFFICES ASSUME CommitInv, [Next]_vars PROVE CommitInv'
  OBVIOUS
<1>1. CASE Next
  <2>1. PICK t \in Txns : Steps(t)
    BY <1>1 DEF Next, Steps
  <2>2. LockInv'
    BY LockInvIsKept DEF CommitInv
  <2>3. LogIsTyped'
    BY <2>1, LogStaysTyped DEF CommitInv, LockInv
  <2>4. PlacesInv' /\ OnlyTwistedRowsCorrupt'
    BY <2>1, PlacesStay, StaysSafe
  <2>5. ASSUME ~corrupt' PROVE Sound'
    <3>1. ~corrupt
      BY <2>1, <2>5, CorruptStays
    <3>2. Kept
      BY <3>1 DEF CommitInv, Kept
    <3>3. RecordsAreKept'
      BY <2>1, <3>2, KeptParts, RecordsStayKept
    <3>4. PendingAreCurrent' /\ RowsAgree'
      BY <2>1, <2>5, <3>2, PendingStaysCurrent, RowsStayAgreed
    <3>5. \A s \in Txns : OpsAreSound(s)'
      BY <2>1, <2>5, <3>2, OpsStaySound
    <3>6. \A s \in Txns : NotStale(s)'
      BY <2>1, <2>5, <3>2, OwnNotStale, OthersNotStale
    <3> QED
      BY <3>3, <3>4, <3>5, <3>6 DEF Sound
  <2> QED
    BY <2>2, <2>3, <2>4, <2>5 DEF CommitInv
<1>2. CASE UNCHANGED vars
  BY <1>2, CommitInvRests
<1> QED
  BY <1>1, <1>2

\* The invariant is what a run checks, and more.
LEMMA CommitInvSuffices == CommitInv => CommitsAreFaithful
<1> SUFFICES ASSUME CommitInv PROVE CommitsAreFaithful
  OBVIOUS
<1>1. MapIsWhatTheLogSays
  <2> SUFFICES ASSUME ~corrupt, NEW k \in Keys \ (retouched \cup twisted)
               PROVE  /\ Visible(k) = Recoverable(k).val
                      /\ Present(rows[k]) /\ rows[k].op = "none" => rows[k].id = Recoverable(k).lsn
    BY DEF MapIsWhatTheLogSays
  <2>1. Agrees(rows[k], Recoverable(k), k \in retouched)
    BY DEF CommitInv, Sound, RowsAgree, Tracked
  <2> QED
    BY <2>1 DEF Agrees, Visible, Shown
<1> QED
  BY <1>1 DEF CommitInv, PlacesInv, CommitsAreFaithful

\* Readers without a transaction see what recovery would make of the log, at every step of every
\* commit and rollback; a place in the checkpoint file is a row's or is handed back; and no
\* transaction uses an iterator to a row that is gone: all of it but for rows that one transaction
\* has both inserted and erased, and values and LSNs but for rows that one has updated twice
\* (initializeCommit to completeRollback and the operations of concurrent_trans_map.h).
THEOREM CommitsStayFaithful == Spec => []CommitsAreFaithful
<1>1. Spec => []CommitInv
  BY CommitInvAtTheStart, CommitInvIsKept, PTL DEF Spec
<1> QED
  BY <1>1, CommitInvSuffices, PTL

=============================================================================

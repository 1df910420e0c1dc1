------------------------------ MODULE Iterators ------------------------------
(***************************************************************************)
(* The iterators with which an application reads a container of STLdb      *)
(* while transactions are at work on it.  The rows, and what the           *)
(* transactions do to them, are those of TransMap; this module adds one    *)
(* walk: an iterator that begin(), end() or a search of the container      *)
(* returns, with a transaction or without, and that the application then   *)
(* moves with ++ or with --.                                               *)
(*                                                                         *)
(* Three templates make iterators: trans_assoc_iterator of trans_map,      *)
(* trans_iterator of rbtree, and the trans_assoc_iterator of               *)
(* concurrent::trans_map, which moves by a loop of its own.  The walk      *)
(* keeps the container's lock shared, which leaves others their locks,     *)
(* updates and erasures, and keeps away inserts, commits and rollbacks;    *)
(* but concurrent::trans_map commits what erases nothing, and rolls back   *)
(* what inserts nothing, under the shared lock and the mutexes of its      *)
(* rows.  Two of these come one after the other here, with no call or      *)
(* beginning of a walk before the notification.                            *)
(* The waiting of TransMap is left out: who meets a locked row goes away.  *)
(*                                                                         *)
(* Beside a few operators X stands X_Name, the same with a plausible slip  *)
(* of the code.  Nothing uses those: put in the place of X each one breaks *)
(* the property that is there to catch it, as PROJECT.json records.        *)
(***************************************************************************)
EXTENDS TransMap

CONSTANTS
    Readers,       \* bound: who walks, among the transactions and NoTxn
    MaxWalks       \* bound: how many walks there are

ASSUME OrderedAssumption == Keys \subseteq Nat \ {0} /\ IsFiniteSet(Keys)
ASSUME WalksAssumption ==
    /\ Readers \subseteq Txns \cup {NoTxn}
    /\ MaxWalks \in Nat

\* The position of end(), and none: where an iterator is that left the container.
End == Max({0} \cup Keys) + 1
Lost == 0

VARIABLES
    walk,          \* the iterator, and the container's lock that its owner holds
    walks,         \* how many walks there were
    \* bookkeeping for the properties
    throughout,    \* keys that the reader could have seen at any time since the walk began
    atSomeTime,    \* keys that it could have seen at some time
    passed,        \* keys on which the iterator was
    departed       \* the walk has met a known departure

view == <<walk, walks, throughout, atSomeTime, passed, departed>>

Makes == {"none", "map", "tree", "concurrent"}
NoWalk == [open |-> FALSE, make |-> "none", reader |-> NoTxn, back |-> FALSE,
           start |-> End, pos |-> End, pending |-> FALSE]

-----------------------------------------------------------------------------
\* What an iterator sees

\* The ids of transactions begin with 1; an iterator without one has 0.
Locker(r) == IF r = NoTxn THEN 0 ELSE id[r]

Hides(r, row) ==
    \/ row.op = "insert" /\ row.id # Locker(r)
    \/ row.op = "delete" /\ row.id = Locker(r)

\* The tree's iterator has the transaction itself, or none, instead of an id.
IsOwn(r, row) == r # NoTxn /\ row.id = id[r]
TreeHides_AnyErased(r, row) == row.op = "delete" \/ (row.op = "insert" /\ ~IsOwn(r, row))
TreeHides(r, row) ==
    \/ row.op = "insert" /\ ~IsOwn(r, row)
    \/ row.op = "delete" /\ IsOwn(r, row)

HiddenFrom(make, r, k) == IF make = "tree" THEN TreeHides(r, rows[k]) ELSE Hides(r, rows[k])

Entries == {k \in Keys : Present(rows[k])}
First == Min(Entries \cup {End})
After(p) == Min({k \in Entries : k > p} \cup {End})
Before(p) == Max({k \in Entries : k < p} \cup {Lost})

\* To the first row at p or after it that the reader may see, or to the end.
SkipForward(make, r, p) ==
    Min({k \in Entries : k >= p /\ ~HiddenFrom(make, r, k)} \cup {End})

\* To the last row at p or before it that the reader may see, or to the first of
\* all, seen or not.  At the end this looks at the mark of a row that is none:
\* hollow says whether the memory there looks like a mark to be skipped.
SkipBackward(make, r, p, hollow) ==
    IF Entries = {} \/ (p = End /\ ~hollow) THEN p
    ELSE Max({k \in Entries : k <= p /\ (k = First \/ ~HiddenFrom(make, r, k))})

\* ++ and --: from a row to be skipped to the next that is not, one row on, and
\* on again to one that is not to be skipped.
Forward(make, r, p) ==
    LET here == SkipForward(make, r, p)
    IN IF here = End THEN Lost ELSE SkipForward(make, r, After(here))
BackOne(make, r, p) == IF Before(p) = Lost THEN Lost ELSE SkipBackward(make, r, Before(p), FALSE)
Backward(make, r, p, hollow) == BackOne(make, r, SkipBackward(make, r, p, hollow))

\* -- of concurrent::trans_map, whose loop goes round once more.
ConcurrentBackward(make, r, p, hollow) ==
    LET one == Backward(make, r, p, hollow)
    IN IF one = Lost THEN Lost ELSE BackOne(make, r, one)

\* set_current(): the iterator shows the update that its own transaction keeps
\* aside for the row, or else the row.
HasPending(r, p) ==
    p \in Entries /\ rows[p].op = "update" /\ IsOwn(r, rows[p])

\* The newest of the updates of k by t, which is the one that is kept aside.
KeptAside(t, k) == ops[t][Max(Listed(t, k, "update"))].val

\* What * and -> give.
Deref == IF walk.pending THEN KeptAside(walk.reader, walk.pos) ELSE rows[walk.pos].val

-----------------------------------------------------------------------------
\* Walks

\* What find() gives the reader.
Findable(r) == {k \in Keys : IF r = NoTxn THEN Shown(rows[k]) ELSE Found(r, rows[k])}

\* Where the base iterators of the searches are.
LowerBound(k) == Min({j \in Entries : j >= k} \cup {End})
UpperBound(k) == After(k)
Searches == {LowerBound(k) : k \in Keys} \cup {UpperBound(k) : k \in Keys}

\* The iterator goes to the first row at the bound or after it that it may show.
Open(r, make, back, bound) ==
    LET p == SkipForward(make, r, bound)
    IN /\ ~corrupt
       /\ ~walk.open /\ walks < MaxWalks
       /\ r # NoTxn => pc[r] = "active"
       /\ container = NoTxn
       /\ walk' = [open |-> TRUE, make |-> make, reader |-> r, back |-> back, start |-> bound,
                   pos |-> p, pending |-> HasPending(r, p)]
       /\ walks' = walks + 1
       /\ throughout' = Findable(r) /\ atSomeTime' = Findable(r)
       /\ passed' = {p}
       /\ departed' = FALSE
       /\ UNCHANGED vars

\* begin(), end(), rbegin(), rend() and, in the maps, lower_bound() and
\* upper_bound(): those of the tree, and its equal_range(), no compiler takes.
OpenMap(r, back) == \E bound \in {First, End} \cup Searches : Open(r, "map", back, bound)
OpenTree(r, back) == \E bound \in {First, End} : Open(r, "tree", back, bound)
OpenConcurrent(r, back) ==
    \E bound \in {First, End} \cup Searches : Open(r, "concurrent", back, bound)

MoveTo(p, known) ==
    /\ walk' = [walk EXCEPT !.pos = p, !.pending = HasPending(walk.reader, p)]
    /\ passed' = passed \cup {p}
    /\ departed' = (departed \/ known)
    /\ UNCHANGED <<vars, walks, throughout, atSomeTime>>

\* The application stops at what end() and begin() give.
AtEnd == walk.pos = End
AtBegin == walk.pos = SkipForward(walk.make, walk.reader, First)
OnHidden == walk.pos \in Entries /\ HiddenFrom(walk.make, walk.reader, walk.pos)

\* The known departures: a step from a row that the reader has erased since it
\* came there; a step back from the end, where the mark is no mark; every step
\* back of concurrent::trans_map.
StepForward ==
    /\ walk.open /\ ~walk.back /\ walk.pos # Lost
    /\ ~AtEnd
    /\ MoveTo(Forward(walk.make, walk.reader, walk.pos), OnHidden)

StepBackward ==
    /\ walk.open /\ walk.back /\ walk.pos # Lost
    /\ ~AtBegin
    /\ \E hollow \in BOOLEAN :
          MoveTo(IF walk.make = "concurrent"
                 THEN ConcurrentBackward(walk.make, walk.reader, walk.pos, hollow)
                 ELSE Backward(walk.make, walk.reader, walk.pos, hollow),
                 OnHidden \/ (AtEnd /\ hollow) \/ walk.make = "concurrent")

Close ==
    /\ walk.open
    /\ walk' = NoWalk
    /\ passed' = {} /\ throughout' = {} /\ atSomeTime' = {} /\ departed' = FALSE
    /\ UNCHANGED <<vars, walks>>

-----------------------------------------------------------------------------
\* What the transactions do meanwhile

Watch ==
    /\ UNCHANGED <<walk, walks, passed, departed>>
    /\ IF walk.open
       THEN /\ throughout' = throughout \cap Findable(walk.reader)'
            /\ atSomeTime' = atSomeTime \cup Findable(walk.reader)'
       ELSE UNCHANGED <<throughout, atSomeTime>>

\* A call that does not wait: it throws when the row is locked.
Call(t, kind, k) ==
    /\ ~Contends(t, kind, k)
    /\ kind = "insert" => ~walk.open
    /\ Operate(t, kind, k)
    /\ Watch

\* The iterator of concurrent::trans_map holds the mutex of the last row that it has
\* looked at or shown.
HeldRow == IF walk.pos = End /\ walk.start # End THEN Before(End) ELSE walk.pos
Erases(o) == o.kind \in {"delete", "deleted_insert"}
Inserts(o) == o.kind = "insert" \/ (o.kind = "update" /\ o.op = "delete")
SharesTheLock(t) == walk.make = "concurrent" /\ HeldRow \notin KeysOf(t)

\* The reader's transaction does not end before its walk does.
Finish(t) ==
    /\ \/ walk.reader # t /\ WriteRecord(t)
       \/ /\ ~walk.open \/ (walk.reader # t /\ SharesTheLock(t))
          /\ \/ Commit(t) /\ (walk.open => \A i \in DOMAIN ops[t] : ~Erases(ops[t][i]))
             \/ Rollback(t) /\ (walk.open => \A i \in DOMAIN ops[t] : ~Inserts(ops[t][i]))
       \/ Notify(t)
    /\ Watch

Start(t) == Begin(t) /\ Watch

Finished ==
    /\ corrupt \/ \A t \in Txns : pc[t] = "done"
    /\ ~walk.open
    /\ UNCHANGED <<vars, view>>

WalkInit ==
    /\ Init
    /\ walk = NoWalk /\ walks = 0
    /\ throughout = {} /\ atSomeTime = {} /\ passed = {} /\ departed = FALSE

WalkNext ==
    \/ Finished
    \/ StepForward \/ StepBackward \/ Close
    \/ \E r \in Readers, back \in BOOLEAN :
        OpenMap(r, back) \/ OpenTree(r, back) \/ OpenConcurrent(r, back)
    \/ \E t \in Txns :
        \/ Start(t) \/ Finish(t)
        \/ \E kind \in Kinds, k \in Keys : Call(t, kind, k)

WalkSpec == WalkInit /\ [][WalkNext]_<<vars, view>>

-----------------------------------------------------------------------------
\* Properties

\* Every variable of the walk has its type, and an iterator that points to an
\* update kept aside belongs to a transaction that keeps one.
WalkTypeOK ==
    /\ walk \in [open : BOOLEAN, make : Makes, reader : Txns \cup {NoTxn},
                 back : BOOLEAN, start : Keys \cup {End}, pos : Keys \cup {End, Lost},
                 pending : BOOLEAN]
    /\ walk.pending => walk.reader # NoTxn /\ Listed(walk.reader, walk.pos, "update") # {}
    /\ walks \in 0 .. MaxWalks
    /\ throughout \subseteq atSomeTime /\ atSomeTime \subseteq Keys
    /\ departed \in BOOLEAN

\* What an iterator shows is the value that recovery would make of the log of the
\* committed transactions, or the newest that the reader's own transaction has
\* given the row: never a change of another transaction.  Known departures are
\* those of TransMap and the steps that StepForward and StepBackward name.
Own(r, k) ==
    IF r = NoTxn THEN {}
    ELSE {rows[k].val : o \in Listed(r, k, "insert")}
         \cup {KeptAside(r, k) : o \in Listed(r, k, "update")}
ShowsCommittedOrOwn ==
    LET k == walk.pos
    IN /\ walk.open /\ k \in Entries /\ ~departed
       /\ k \notin retouched /\ rows[k].op # "deleted_insert"
       => Deref \in {Recoverable(k).val} \cup Own(walk.reader, k)

\* An iterator misses no row: those that find() would have given the reader ever
\* since the walk began, from where it began to where it is, have had the
\* iterator on them.  Known departures are left out.
Covered == {k \in Keys : IF walk.back THEN k >= walk.pos /\ k < walk.start
                                       ELSE k < walk.pos /\ k >= walk.start}
NothingIsPassedOver ==
    ~departed => walk.pos # Lost /\ throughout \cap Covered \subseteq passed

\* An iterator comes to no row that find() would have hidden from the reader all
\* through the walk.
HiddenIsNotShown == ~departed => passed \subseteq atSomeTime \cup {End}

\* A walk shows the reader the rows that there are for it, each once passed, and no other.
\* (That ++ and -- move by one entry that the reader may see the code does not keep: see the
\* departures of StepForward and StepBackward.)
WalksShowTheRows ==
    WalkTypeOK /\ ShowsCommittedOrOwn /\ NothingIsPassedOver /\ HiddenIsNotShown

=============================================================================

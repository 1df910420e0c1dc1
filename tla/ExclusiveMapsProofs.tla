------------------------ MODULE ExclusiveMapsProofs ------------------------
(***************************************************************************)
(* Proofs about Iterators: a walk shows the rows that there are for its    *)
(* reader, each with a committed value or one of the reader's own, passes  *)
(* over none that it could have seen all along and comes to none that it   *)
(* could never have seen.                                                  *)
(*                                                                         *)
(* And about the exclusive transaction of ExclusiveMaps: rollback puts     *)
(* every map back as the transaction has found it, and recovery makes of   *)
(* the record what commit has made of the maps, but for the known          *)
(* departures.                                                             *)
(***************************************************************************)
EXTENDS ExclusiveMaps, TransMapProofs

\* The walk has its type.
WalkIsTyped ==
    /\ walk \in [open : BOOLEAN, make : Makes, reader : Txns \cup {NoTxn},
                 back : BOOLEAN, start : Keys \cup {End}, pos : Keys \cup {End, Lost},
                 pending : BOOLEAN]
    /\ walks \in 0 .. MaxWalks
    /\ throughout \subseteq atSomeTime /\ atSomeTime \subseteq Keys
    /\ departed \in BOOLEAN

Resting ==
    /\ walk = NoWalk
    /\ throughout = {} /\ atSomeTime = {} /\ passed = {} /\ ~departed

\* A walk keeps inserts and what ends with one or with an erasure away, so that its iterator
\* stays on an entry; one that has met no departure is on a row that is not another's insert, and all
\* that its reader could see all along and that lies behind it has been passed.
KeepsOthersAway ==
    /\ ~corrupt /\ (walk.make = "concurrent" \/ container = NoTxn)
    /\ walk.reader # NoTxn => pc[walk.reader] = "active"
PositionIsSound ==
    /\ walk.pos \in Entries \cup {End, Lost} /\ walk.pos \in passed
    /\ walk.pending => walk.reader # NoTxn /\ Listed(walk.reader, walk.pos, "update") # {}
    /\ ~departed /\ walk.pos \in Entries /\ rows[walk.pos].op = "insert" =>
          IsOwn(walk.reader, rows[walk.pos])
SightIsRecorded ==
    /\ throughout \subseteq Findable(walk.reader)
    /\ Findable(walk.reader) \subseteq atSomeTime
Walking ==
    /\ walk.open /\ walks # 0
    /\ KeepsOthersAway /\ PositionIsSound /\ SightIsRecorded
    /\ NothingIsPassedOver /\ HiddenIsNotShown

WalkInv == LogInv /\ WalkIsTyped /\ (Resting \/ Walking)

-----------------------------------------------------------------------------
\* Positions

\* The least of a set of numbers.
LEMMA LeastIsThere ==
    ASSUME NEW S, S \subseteq Nat, S # {}
    PROVE  Min(S) \in S /\ \A y \in S : Min(S) <= y
BY LeastOfNats DEF Min

\* end() is behind all keys, and what is no position before them.
LEMMA EndIsBehind ==
    /\ End \in Nat /\ End # Lost /\ Lost = 0
    /\ \A k \in Keys : k \in Nat /\ k > 0 /\ k < End /\ k # End /\ k # Lost
<1> DEFINE S == {0} \cup Keys
<1>1. S \subseteq Nat /\ S # {} /\ Keys \subseteq S
  BY OrderedAssumption
<1>2. IsFiniteSet(S)
  <2>1. IsFiniteSet({0})
    BY FS_Singleton
  <2> QED
    BY <2>1, OrderedAssumption, FS_Union
<1>3. End = Max(S) + 1
  BY DEF End
<1> HIDE DEF S
<1>4. Max(S) \in S /\ \A y \in S : y <= Max(S)
  BY <1>1, <1>2, MaxIsANumber
<1>5. PICK n \in Nat : n = Max(S)
  BY <1>1, <1>4
<1>6. End = n + 1 /\ End \in Nat /\ End > 0
  BY <1>3, <1>5
<1>7. ASSUME NEW k \in Keys PROVE k \in Nat /\ k > 0 /\ k <= n
  BY <1>1, <1>4, <1>5, OrderedAssumption
<1> QED
  BY <1>6, <1>7 DEF Lost

\* The greatest of a set of keys, and of what is no position.
LEMMA GreatestIsThere ==
    ASSUME NEW S, S \subseteq Keys \cup {Lost}, S # {}
    PROVE  Max(S) \in S /\ \A y \in S : y <= Max(S)
<1>1. IsFiniteSet(Keys \cup {Lost})
  <2>1. IsFiniteSet({Lost})
    BY FS_Singleton
  <2> QED
    BY <2>1, OrderedAssumption, FS_Union
<1>2. IsFiniteSet(S)
  BY <1>1, FS_Subset
<1>3. S \subseteq Nat
  BY EndIsBehind
<1> QED
  BY <1>2, <1>3, MaxIsANumber

\* The entries are keys; the first of them, and those next to a position.
LEMMA EntriesAreKeys == Entries \subseteq Keys
BY DEF Entries

LEMMA FirstIsThere ==
    /\ First \in Entries \cup {End}
    /\ \A k \in Entries : First <= k
<1> DEFINE S == Entries \cup {End}
<1>1. S \subseteq Nat /\ S # {}
  BY EntriesAreKeys, EndIsBehind
<1>2. First = Min(S)
  BY DEF First
<1> HIDE DEF S
<1>3. Min(S) \in S /\ \A y \in S : Min(S) <= y
  BY <1>1, LeastIsThere
<1> QED
  BY <1>2, <1>3 DEF S

LEMMA AfterIsThere ==
    ASSUME NEW p
    PROVE  /\ After(p) \in Entries \cup {End}
           /\ After(p) \in Entries => After(p) > p
           /\ \A k \in Entries : k > p => After(p) <= k
<1> DEFINE S == {k \in Entries : k > p} \cup {End}
<1>1. S \subseteq Nat /\ S # {}
  BY EntriesAreKeys, EndIsBehind
<1>2. After(p) = Min(S)
  BY DEF After
<1>a. \A k \in S : k \in Entries => k > p
  BY EntriesAreKeys, EndIsBehind
<1>b. S \subseteq Entries \cup {End} /\ \A k \in Entries : k > p => k \in S
  OBVIOUS
<1> HIDE DEF S
<1>3. Min(S) \in S /\ \A y \in S : Min(S) <= y
  BY <1>1, LeastIsThere
<1> QED
  BY <1>2, <1>3, <1>a, <1>b

LEMMA BeforeIsThere ==
    ASSUME NEW p
    PROVE  /\ Before(p) \in Entries \cup {Lost}
           /\ Before(p) \in Entries => Before(p) < p
           /\ \A k \in Entries : k < p => k <= Before(p)
<1> DEFINE S == {k \in Entries : k < p} \cup {Lost}
<1>1. S \subseteq Keys \cup {Lost} /\ S # {}
  BY EntriesAreKeys
<1>2. Before(p) = Max(S)
  BY DEF Before
<1>a. \A k \in S : k \in Entries => k < p
  BY EntriesAreKeys, EndIsBehind
<1>b. S \subseteq Entries \cup {Lost} /\ \A k \in Entries : k < p => k \in S
  OBVIOUS
<1> HIDE DEF S
<1>3. Max(S) \in S /\ \A y \in S : y <= Max(S)
  BY <1>1, GreatestIsThere
<1> QED
  BY <1>2, <1>3, <1>a, <1>b

-----------------------------------------------------------------------------
\* What a reader may see

\* An iterator hides the rows that find() does not give its reader.
LEMMA HiddenAreNotFound ==
    ASSUME MapInv, ~corrupt, NEW make, NEW r \in Txns \cup {NoTxn}, NEW k \in Entries
    PROVE  HiddenFrom(make, r, k) <=> k \notin Findable(r)
<1>1. k \in Keys /\ Present(rows[k])
  BY DEF Entries
<1>2. CASE r = NoTxn
  <2>1. rows[k].op # "none" => rows[k].id # 0
    <3> SUFFICES ASSUME rows[k].op # "none" PROVE rows[k].id # 0
      OBVIOUS
    <3>1. PICK t \in Txns : Unfinished(t) /\ k \in KeysOf(t)
      BY <1>1 DEF MapInv, MarksAreHeld, MarkIsHeld
    <3>2. rows[k].id = id[t]
      BY <3>1, OpsMark
    <3>3. id[t] \in 1 .. next_txn_id - 1
      BY <3>1 DEF MapInv, IdsAreDistinct, Unfinished
    <3>4. next_txn_id \in Nat
      BY DEF MapInv, Typed, TypeOK
    <3> QED
      BY <3>2, <3>3, <3>4
  <2> QED
    BY <1>1, <1>2, <2>1 DEF HiddenFrom, TreeHides, Hides, Locker, IsOwn, Findable, Shown
<1>3. CASE r # NoTxn
  BY <1>1, <1>3 DEF HiddenFrom, TreeHides, Hides, Locker, IsOwn, Findable, Found
<1> QED
  BY <1>2, <1>3

LEMMA FindableAreEntries ==
    ASSUME NEW r
    PROVE  Findable(r) \subseteq Entries
BY DEF Findable, Entries, Shown, Found

\* To skip forward is to go to the next row that the reader could find, or to the end.
LEMMA SkipsToTheNext ==
    ASSUME MapInv, ~corrupt, NEW make, NEW r \in Txns \cup {NoTxn}, NEW p
    PROVE  /\ SkipForward(make, r, p) \in Findable(r) \cup {End}
           /\ SkipForward(make, r, p) \in Findable(r) => SkipForward(make, r, p) >= p
           /\ \A k \in Findable(r) : k >= p => SkipForward(make, r, p) <= k
<1> DEFINE S == {k \in Entries : k >= p /\ ~HiddenFrom(make, r, k)} \cup {End}
<1>1. S \subseteq Nat /\ S # {}
  BY EntriesAreKeys, EndIsBehind
<1>2. SkipForward(make, r, p) = Min(S)
  BY DEF SkipForward
<1>3. S \subseteq Findable(r) \cup {End}
  BY HiddenAreNotFound
<1>4. \A k \in S : k \in Findable(r) => k >= p
  BY FindableAreEntries, EntriesAreKeys, EndIsBehind
<1>5. \A k \in Findable(r) : k >= p => k \in S
  BY FindableAreEntries, HiddenAreNotFound
<1> HIDE DEF S
<1>6. Min(S) \in S /\ \A y \in S : Min(S) <= y
  BY <1>1, LeastIsThere
<1> QED
  BY <1>2, <1>3, <1>4, <1>5, <1>6

\* ++ goes from a row that the reader could find to the next such row.
LEMMA StepsToTheNext ==
    ASSUME MapInv, ~corrupt, NEW make, NEW r \in Txns \cup {NoTxn}, NEW p
    PROVE  /\ Forward(make, r, p) \in Findable(r) \cup {End, Lost}
           /\ p \in Findable(r) =>
                 /\ Forward(make, r, p) \in Findable(r) \cup {End}
                 /\ Forward(make, r, p) > p
                 /\ \A k \in Findable(r) : k > p => Forward(make, r, p) <= k
<1> DEFINE here == SkipForward(make, r, p)
           there == SkipForward(make, r, After(here))
<1>1. Forward(make, r, p) = IF here = End THEN Lost ELSE there
  BY DEF Forward
<1>2. /\ here \in Findable(r) \cup {End}
      /\ here \in Findable(r) => here >= p
      /\ \A k \in Findable(r) : k >= p => here <= k
  BY SkipsToTheNext
<1>3. /\ there \in Findable(r) \cup {End}
      /\ there \in Findable(r) => there >= After(here)
      /\ \A k \in Findable(r) : k >= After(here) => there <= k
  BY SkipsToTheNext
<1>4. /\ After(here) \in Entries \cup {End}
      /\ After(here) \in Entries => After(here) > here
      /\ \A k \in Entries : k > here => After(here) <= k
  BY AfterIsThere
<1> HIDE DEF here, there
<1>5. ASSUME p \in Findable(r)
      PROVE  /\ Forward(make, r, p) \in Findable(r) \cup {End}
             /\ Forward(make, r, p) > p
             /\ \A k \in Findable(r) : k > p => Forward(make, r, p) <= k
  <2>1. \A k \in Findable(r) : k \in Entries /\ k \in Nat /\ k < End
    BY FindableAreEntries, EntriesAreKeys, EndIsBehind
  <2>2. here = p
    <3>1. here <= p /\ here \in Nat /\ p \in Nat
      BY <1>2, <1>5, <2>1, EndIsBehind
    <3>2. here # End
      BY <1>5, <2>1, <3>1, EndIsBehind
    <3> QED
      BY <1>2, <3>1, <3>2
  <2>3. Forward(make, r, p) = there
    BY <1>1, <1>5, <2>1, <2>2, EndIsBehind
  <2>4. After(p) \in Nat /\ After(p) > p
    <3>1. CASE After(p) \in Entries
      BY <1>4, <2>2, <3>1, EntriesAreKeys, EndIsBehind
    <3>2. CASE After(p) = End
      BY <1>5, <2>1, <3>2, EndIsBehind
    <3> QED
      BY <1>4, <2>2, <3>1, <3>2
  <2>5. there > p
    <3>1. CASE there \in Findable(r)
      BY <1>3, <1>5, <2>1, <2>2, <2>4, <3>1
    <3>2. CASE there = End
      BY <1>5, <2>1, <3>2
    <3> QED
      BY <1>3, <3>1, <3>2
  <2>6. ASSUME NEW k \in Findable(r), k > p PROVE there <= k
    <3>1. After(p) <= k
      BY <1>4, <2>1, <2>2, <2>6
    <3> QED
      BY <1>3, <2>1, <2>2, <2>4, <3>1
  <2> QED
    BY <1>3, <2>3, <2>5, <2>6
<1> QED
  BY <1>1, <1>3, <1>5

\* To skip backward from an entry is to go to the last that the reader could find, or to
\* the first of all.
LEMMA SkipsToAnEntry ==
    ASSUME NEW make, NEW r, NEW p \in Entries, NEW hollow \in BOOLEAN,
           NEW q, q = SkipBackward(make, r, p, hollow)
    PROVE  /\ q \in Entries /\ q <= p
           /\ q = First \/ ~HiddenFrom(make, r, q)
           /\ \A k \in Entries : k <= p /\ ~HiddenFrom(make, r, k) => k <= q
<1> DEFINE S == {k \in Entries : k <= p /\ (k = First \/ ~HiddenFrom(make, r, k))}
<1>1. Entries # {} /\ p # End
  BY EntriesAreKeys, EndIsBehind
<1>2. q = Max(S)
  BY <1>1 DEF SkipBackward
<1>3. First \in S
  <2>1. First <= p /\ p < End /\ First \in Nat /\ p \in Nat
    BY FirstIsThere, EntriesAreKeys, EndIsBehind
  <2>2. First \in Entries
    BY <2>1, FirstIsThere, EndIsBehind
  <2> QED
    BY <2>1, <2>2
<1>4. S \subseteq Keys \cup {Lost} /\ S # {} /\ S \subseteq Entries
  BY <1>3, EntriesAreKeys
<1>5. \A k \in S : k <= p /\ (k = First \/ ~HiddenFrom(make, r, k))
  OBVIOUS
<1>6. \A k \in Entries : k <= p /\ ~HiddenFrom(make, r, k) => k \in S
  OBVIOUS
<1> HIDE DEF S
<1>7. Max(S) \in S /\ \A y \in S : y <= Max(S)
  BY <1>4, GreatestIsThere
<1> QED
  BY <1>2, <1>4, <1>5, <1>6, <1>7

LEMMA OneBackIsAnEntry ==
    ASSUME NEW make, NEW r, NEW p
    PROVE  BackOne(make, r, p) \in Entries \cup {Lost}
<1>1. Before(p) \in Entries \cup {Lost}
  BY BeforeIsThere
<1>2. CASE Before(p) = Lost
  BY <1>2 DEF BackOne
<1>3. CASE Before(p) # Lost
  <2>1. Before(p) \in Entries /\ Before(p) # End
    BY <1>1, <1>3, EntriesAreKeys, EndIsBehind
  <2>2. SkipBackward(make, r, Before(p), FALSE) \in Entries
    BY <2>1, SkipsToAnEntry
  <2> QED
    BY <1>3, <2>2 DEF BackOne
<1> QED
  BY <1>2, <1>3

LEMMA BackIsAnEntry ==
    ASSUME NEW make, NEW r, NEW p, NEW hollow \in BOOLEAN
    PROVE  /\ Backward(make, r, p, hollow) \in Entries \cup {Lost}
           /\ ConcurrentBackward(make, r, p, hollow) \in Entries \cup {Lost}
BY OneBackIsAnEntry DEF Backward, ConcurrentBackward

\* -- goes from a row that the reader could find, or from the end where nothing looks like a
\* mark, to the row before that the reader could find, if there is one.
LEMMA StepsToTheLast ==
    ASSUME MapInv, ~corrupt, NEW make, NEW r \in Txns \cup {NoTxn},
           NEW hollow \in BOOLEAN, NEW p, p \in Findable(r) \/ (p = End /\ ~hollow),
           NEW f \in Findable(r), f < p
    PROVE  /\ Backward(make, r, p, hollow) \in Findable(r)
           /\ Backward(make, r, p, hollow) < p
           /\ \A k \in Findable(r) : k < p => k <= Backward(make, r, p, hollow)
<1> DEFINE b == Before(p)
           q == SkipBackward(make, r, b, FALSE)
<1>1. \A k \in Findable(r) : k \in Entries /\ k \in Nat /\ k < End /\ k # Lost
  BY FindableAreEntries, EntriesAreKeys, EndIsBehind
<1>2. \A k \in Findable(r) : ~HiddenFrom(make, r, k)
  BY <1>1, HiddenAreNotFound
<1>3. SkipBackward(make, r, p, hollow) = p
  <2>1. CASE p = End /\ ~hollow
    BY <2>1 DEF SkipBackward
  <2>2. CASE p \in Findable(r)
    <3> PICK here : here = SkipBackward(make, r, p, hollow)
      OBVIOUS
    <3>1. p \in Entries /\ p # End /\ p \in Nat /\ ~HiddenFrom(make, r, p)
      BY <1>1, <1>2, <2>2, EndIsBehind
    <3>2. /\ here \in Entries /\ here <= p
          /\ \A k \in Entries : k <= p /\ ~HiddenFrom(make, r, k) => k <= here
      BY <3>1, SkipsToAnEntry
    <3>a. p <= p
      BY <3>1
    <3>3. here \in Nat /\ p <= here
      BY <3>1, <3>2, <3>a, EntriesAreKeys, EndIsBehind
    <3> QED
      BY <3>1, <3>2, <3>3
  <2> QED
    BY <2>1, <2>2
<1>4. /\ b \in Entries /\ b < p /\ b \in Nat /\ b # End /\ b # Lost /\ f <= b
      /\ \A k \in Findable(r) : k < p => k <= b
  <2>1. /\ b \in Entries \cup {Lost}
        /\ b \in Entries => b < p
        /\ \A k \in Entries : k < p => k <= b
    BY BeforeIsThere
  <2>2. f <= b /\ f > 0 /\ f \in Nat /\ b \in Nat
    <3>1. f \in Keys
      BY FindableAreEntries, EntriesAreKeys
    <3> QED
      BY <1>1, <2>1, <3>1, EntriesAreKeys, EndIsBehind
  <2>3. b # Lost
    BY <2>2, EndIsBehind
  <2> QED
    BY <1>1, <2>1, <2>2, <2>3, EntriesAreKeys, EndIsBehind
<1>5. Backward(make, r, p, hollow) = q
  BY <1>3, <1>4 DEF Backward, BackOne
<1>6. /\ q \in Entries /\ q <= b
      /\ q = First \/ ~HiddenFrom(make, r, q)
      /\ \A k \in Entries : k <= b /\ ~HiddenFrom(make, r, k) => k <= q
  BY <1>4, SkipsToAnEntry
<1> HIDE DEF b, q
<1>7. q \in Nat /\ p \in Nat
  BY <1>1, <1>6, EntriesAreKeys, EndIsBehind
<1>8. \A k \in Findable(r) : k < p => k <= q
  BY <1>1, <1>2, <1>4, <1>6
<1>9. q \in Findable(r)
  <2>1. CASE ~HiddenFrom(make, r, q)
    BY <1>6, <2>1, HiddenAreNotFound
  <2>2. CASE q = First
    <3>1. q <= f /\ f <= q
      BY <1>1, <1>8, <2>2, FirstIsThere
    <3>2. q = f
      BY <1>1, <1>7, <3>1
    <3> QED
      BY <3>2
  <2> QED
    BY <1>6, <2>1, <2>2
<1> QED
  BY <1>4, <1>5, <1>6, <1>7, <1>8, <1>9

-----------------------------------------------------------------------------
\* What holds all through a walk

\* A row that an active reader has updated is in its list.
LEMMA PendingIsListed ==
    ASSUME MapInv, ~corrupt, NEW r \in Txns \cup {NoTxn}, r # NoTxn => pc[r] = "active",
           NEW p, HasPending(r, p)
    PROVE  r # NoTxn /\ Listed(r, p, "update") # {}
<1>1. p \in Keys /\ rows[p].op = "update" /\ r \in Txns /\ r # NoTxn /\ rows[p].id = id[r]
  BY EntriesAreKeys DEF HasPending, IsOwn
<1>2. Unfinished(r)
  BY <1>1 DEF Unfinished
<1>3. p \in KeysOf(r)
  BY <1>1, <1>2, MarksTell
<1>4. ops \in [Txns -> Seq(Ops)]
  BY DEF MapInv, Typed, TypeOK
<1>5. PICK i \in On(r, p) : IsLast(r, i)
  BY <1>1, <1>3, <1>4, EndsOfList
<1>6. i \in DOMAIN ops[r] /\ ops[r][i].key = p
  BY <1>5 DEF On
<1>7. ops[r][i].kind = "update"
  BY <1>1, <1>2, <1>5, <1>6 DEF MapInv, OpsAreTraced, IsTraced
<1> QED
  BY <1>1, <1>6, <1>7 DEF Listed

\* The same of a row that it has inserted.
LEMMA InsertIsListed ==
    ASSUME MapInv, ~corrupt, NEW r \in Txns, pc[r] = "active",
           NEW p \in Keys, rows[p].op = "insert", rows[p].id = id[r]
    PROVE  Listed(r, p, "insert") # {}
<1>1. Unfinished(r)
  BY DEF Unfinished
<1>2. p \in KeysOf(r)
  BY <1>1, MarksTell
<1>3. ops \in [Txns -> Seq(Ops)]
  BY DEF MapInv, Typed, TypeOK
<1>4. PICK i \in On(r, p) : IsLast(r, i)
  BY <1>2, <1>3, EndsOfList
<1>5. i \in DOMAIN ops[r] /\ ops[r][i].key = p
  BY <1>4 DEF On
<1>6. ops[r][i].kind = "insert"
  BY <1>1, <1>4, <1>5 DEF MapInv, OpsAreTraced, IsTraced
<1> QED
  BY <1>5, <1>6 DEF Listed

\* The searches begin at a key or at the end.
LEMMA BoundsAreKeys == {First, End} \cup Searches \subseteq Keys \cup {End}
<1>1. First \in Keys \cup {End}
  BY FirstIsThere, EntriesAreKeys
<1>2. ASSUME NEW k \in Keys PROVE UpperBound(k) \in Keys \cup {End}
  BY AfterIsThere, EntriesAreKeys DEF UpperBound
<1>3. ASSUME NEW k \in Keys PROVE LowerBound(k) \in Keys \cup {End}
  <2> DEFINE S == {j \in Entries : j >= k} \cup {End}
  <2>1. S \subseteq Nat /\ S # {} /\ S \subseteq Keys \cup {End}
    BY EntriesAreKeys, EndIsBehind
  <2>2. LowerBound(k) = Min(S)
    BY DEF LowerBound
  <2> HIDE DEF S
  <2> QED
    BY <2>1, <2>2, LeastIsThere
<1> QED
  BY <1>1, <1>2, <1>3 DEF Searches

\* A reader that stays, with its rows and its id, sees the same.
LEMMA SightStays ==
    ASSUME NEW s, walk'.reader = s, UNCHANGED <<rows, id>>
    PROVE  Findable(walk.reader)' = Findable(s)
BY DEF Findable, Shown, Found, Present

\* A walk begins soundly.
LEMMA OpensSoundly ==
    ASSUME WalkInv, NEW r \in Readers, NEW make \in Makes, NEW back \in BOOLEAN,
           NEW bound \in Keys \cup {End}, Open(r, make, back, bound)
    PROVE  WalkIsTyped' /\ Walking'
<1> PICK p : p = SkipForward(make, r, bound)
  OBVIOUS
<1>0. MapInv /\ ~corrupt /\ r \in Txns \cup {NoTxn} /\ (r # NoTxn => pc[r] = "active")
  BY WalksAssumption DEF WalkInv, LogInv, Open
<1>1. /\ container = NoTxn
      /\ walk' = [open |-> TRUE, make |-> make, reader |-> r, back |-> back, start |-> bound,
                  pos |-> p, pending |-> HasPending(r, p)]
      /\ walks' = walks + 1 /\ walks < MaxWalks
      /\ throughout' = Findable(r) /\ atSomeTime' = Findable(r)
      /\ passed' = {p} /\ departed' = FALSE
      /\ rows' = rows /\ id' = id /\ pc' = pc /\ ops' = ops /\ corrupt' = corrupt
      /\ container' = container
  BY DEF Open, vars, map, locks, txns
<1>2. /\ p \in Findable(r) \cup {End}
      /\ p \in Findable(r) => p >= bound
      /\ \A k \in Findable(r) : k >= bound => p <= k
  BY <1>0, SkipsToTheNext
<1>3. Findable(r) \subseteq Entries /\ Entries \subseteq Keys
  BY FindableAreEntries, EntriesAreKeys
<1>4. \A k \in Keys \cup {End} : k \in Nat /\ k <= End
  BY EndIsBehind
<1>5. Findable(walk.reader)' = Findable(r) /\ Entries' = Entries
  <2>1. walk'.reader = r
    BY <1>1
  <2> QED
    BY <1>1, <2>1, SightStays DEF Entries, Present
<1>6. HasPending(r, p) \in BOOLEAN
  BY DEF HasPending
<1>7. WalkIsTyped'
  <2>1. walks' \in 0 .. MaxWalks
    BY <1>1, WalksAssumption DEF WalkInv, WalkIsTyped
  <2> QED
    BY <1>0, <1>1, <1>2, <1>3, <1>6, <2>1 DEF WalkIsTyped
<1>8. KeepsOthersAway' /\ SightIsRecorded'
  BY <1>0, <1>1, <1>5 DEF KeepsOthersAway, SightIsRecorded
<1>9. PositionIsSound'
  <2>1. p \in Entries \cup {End, Lost}
    BY <1>2, <1>3
  <2>2. HasPending(r, p) => r # NoTxn /\ Listed(r, p, "update")' # {}
    <3>1. HasPending(r, p) => r # NoTxn /\ Listed(r, p, "update") # {}
      BY <1>0, PendingIsListed
    <3> QED
      BY <1>1, <3>1 DEF Listed
  <2>3. p \in Entries /\ rows[p].op = "insert" => IsOwn(r, rows[p])
    <3>1. p \in Entries => p \in Findable(r)
      BY <1>2, <1>3, EndIsBehind
    <3> QED
      BY <3>1 DEF Findable, Shown, Found, IsOwn
  <2> QED
    BY <1>1, <1>5, <2>1, <2>2, <2>3 DEF PositionIsSound, IsOwn, Listed
<1>10. NothingIsPassedOver'
  <2>1. p # Lost
    BY <1>2, <1>3, EndIsBehind
  <2>2. ASSUME NEW k \in Findable(r), k \in Keys,
               IF back THEN k >= p /\ k < bound ELSE k < p /\ k >= bound
        PROVE  k \in {p}
    <3>1. k \in Nat /\ p \in Nat /\ bound \in Nat
      BY <1>2, <1>3, <1>4
    <3>2. CASE back
      <4>1. p >= bound
        BY <1>2, <1>4, <3>1
      <4> QED
        BY <2>2, <3>1, <3>2, <4>1
    <3>3. CASE ~back
      BY <1>2, <2>2, <3>1, <3>3
    <3> QED
      BY <3>2, <3>3
  <2>3. throughout' \cap Covered' \subseteq passed'
    BY <1>1, <2>2 DEF Covered
  <2> QED
    BY <1>1, <2>1, <2>3 DEF NothingIsPassedOver
<1>11. HiddenIsNotShown'
  BY <1>1, <1>2 DEF HiddenIsNotShown
<1>12. walk'.open /\ walks' # 0
  BY <1>1 DEF WalkInv, WalkIsTyped
<1> QED
  BY <1>7, <1>8, <1>9, <1>10, <1>11, <1>12 DEF Walking

\* Where a move may lead: after none of the known departures, to the next row that the
\* reader could find, or the last before, or to an end.
LeadsToTheNext(q) ==
    LET r == walk.reader IN
    /\ q \in Findable(r) \cup {End}
    /\ \A k \in Findable(r) :
          IF walk.back THEN k >= q /\ k < walk.pos => k = q
                       ELSE k < q /\ k >= walk.pos => k = walk.pos

\* A move leaves the walk sound.
LEMMA MovesSoundly ==
    ASSUME WalkInv, Walking, NEW q, NEW known \in BOOLEAN, MoveTo(q, known),
           q \in Entries \cup {End, Lost}, ~departed /\ ~known => LeadsToTheNext(q)
    PROVE  WalkIsTyped' /\ Walking'
<1> PICK r : r = walk.reader
  OBVIOUS
<1>0. /\ MapInv /\ ~corrupt /\ (walk.make = "concurrent" \/ container = NoTxn) /\ WalkIsTyped
      /\ r \in Txns \cup {NoTxn} /\ (r # NoTxn => pc[r] = "active")
  BY DEF WalkInv, LogInv, Walking, KeepsOthersAway, WalkIsTyped
<1>1. /\ walk' = [walk EXCEPT !.pos = q, !.pending = HasPending(r, q)]
      /\ passed' = passed \cup {q} /\ departed' = (departed \/ known)
      /\ walks' = walks /\ throughout' = throughout /\ atSomeTime' = atSomeTime
      /\ rows' = rows /\ id' = id /\ pc' = pc /\ ops' = ops /\ corrupt' = corrupt
      /\ container' = container
  BY DEF MoveTo, vars, map, locks, txns
<1>2. /\ walk'.open = walk.open /\ walk'.make = walk.make /\ walk'.reader = r
      /\ walk'.back = walk.back /\ walk'.start = walk.start
      /\ walk'.pos = q /\ walk'.pending = HasPending(r, q)
  BY <1>0, <1>1 DEF WalkIsTyped
<1>3. Findable(r) \subseteq Entries /\ Entries \subseteq Keys
  BY FindableAreEntries, EntriesAreKeys
<1>4. Findable(walk.reader)' = Findable(r) /\ Entries' = Entries
  BY <1>1, <1>2, SightStays DEF Entries, Present
<1>5. HasPending(r, q) \in BOOLEAN
  BY DEF HasPending
<1>6. WalkIsTyped'
  BY <1>0, <1>1, <1>3, <1>5 DEF WalkIsTyped
<1>7. KeepsOthersAway' /\ SightIsRecorded'
  BY <1>0, <1>1, <1>2, <1>4 DEF Walking, KeepsOthersAway, SightIsRecorded
<1>8. ~departed' => LeadsToTheNext(q) /\ ~departed
  BY <1>1
<1>9. PositionIsSound'
  <2>1. HasPending(r, q) => r # NoTxn /\ Listed(r, q, "update") # {}
    BY <1>0, PendingIsListed
  <2>2. ~departed' /\ q \in Entries /\ rows[q].op = "insert" => IsOwn(r, rows[q])
    <3>1. ~departed' /\ q \in Entries => q \in Findable(r)
      BY <1>3, <1>8, EndIsBehind DEF LeadsToTheNext
    <3> QED
      BY <3>1 DEF Findable, Shown, Found, IsOwn
  <2> QED
    BY <1>1, <1>2, <1>4, <2>1, <2>2 DEF PositionIsSound, IsOwn, Listed
<1>10. ASSUME ~departed' PROVE q # Lost /\ throughout \cap Covered' \subseteq passed'
  <2>1. q # Lost
    BY <1>3, <1>8, <1>10, EndIsBehind DEF LeadsToTheNext
  <2>2. /\ throughout \subseteq Findable(r) /\ walk.pos \in passed
        /\ throughout \cap Covered \subseteq passed
    BY <1>8, <1>10 DEF Walking, SightIsRecorded, PositionIsSound, NothingIsPassedOver
  <2>3. ASSUME NEW k \in throughout,
               k \in Keys /\ IF walk.back THEN k >= q /\ k < walk.start
                                          ELSE k < q /\ k >= walk.start
        PROVE  k \in passed'
    <3>1. k \in Findable(r) /\ k \in Nat /\ q \in Nat /\ walk.pos \in Nat
      BY <1>0, <1>3, <2>2, <2>3, EndIsBehind DEF WalkIsTyped
    <3>2. CASE walk.back
      <4>1. CASE k < walk.pos
        BY <1>1, <1>8, <1>10, <2>3, <3>1, <3>2, <4>1 DEF LeadsToTheNext
      <4>2. CASE k >= walk.pos
        BY <1>1, <2>2, <2>3, <3>2, <4>2 DEF Covered
      <4> QED
        BY <3>1, <4>1, <4>2
    <3>3. CASE ~walk.back
      <4>1. CASE k >= walk.pos
        BY <1>1, <1>8, <1>10, <2>2, <2>3, <3>1, <3>3, <4>1 DEF LeadsToTheNext
      <4>2. CASE k < walk.pos
        BY <1>1, <2>2, <2>3, <3>3, <4>2 DEF Covered
      <4> QED
        BY <3>1, <4>1, <4>2
    <3> QED
      BY <3>2, <3>3
  <2> QED
    BY <1>2, <2>1, <2>3 DEF Covered
<1>11. NothingIsPassedOver'
  BY <1>1, <1>2, <1>10 DEF NothingIsPassedOver
<1>12. HiddenIsNotShown'
  BY <1>1, <1>8 DEF HiddenIsNotShown, LeadsToTheNext, Walking, SightIsRecorded
<1>13. walk'.open /\ walks' # 0
  BY <1>1, <1>2 DEF Walking
<1> QED
  BY <1>6, <1>7, <1>9, <1>11, <1>12, <1>13 DEF Walking

\* Where a walk is that has met no departure and is on no row hidden from its reader.
LEMMA PositionIsFindable ==
    ASSUME WalkInv, Walking, ~departed, ~OnHidden
    PROVE  walk.pos \in Findable(walk.reader) \cup {End}
<1>1. MapInv /\ ~corrupt /\ walk.reader \in Txns \cup {NoTxn}
  BY DEF WalkInv, LogInv, Walking, KeepsOthersAway, WalkIsTyped
<1>2. walk.pos \in Entries \cup {End}
  BY DEF Walking, PositionIsSound, NothingIsPassedOver
<1> QED
  BY <1>1, <1>2, HiddenAreNotFound DEF OnHidden

LEMMA StepsForwardSoundly ==
    ASSUME WalkInv, StepForward
    PROVE  WalkIsTyped' /\ Walking'
<1> PICK r : r = walk.reader
  OBVIOUS
<1> PICK p : p = walk.pos
  OBVIOUS
<1> PICK q : q = Forward(walk.make, r, p)
  OBVIOUS
<1>1. /\ Walking /\ ~walk.back /\ p # End /\ MoveTo(q, OnHidden)
  BY DEF StepForward, AtEnd, WalkInv, Resting, NoWalk
<1>2. MapInv /\ ~corrupt /\ r \in Txns \cup {NoTxn}
  BY <1>1 DEF WalkInv, LogInv, Walking, KeepsOthersAway, WalkIsTyped
<1>3. /\ q \in Findable(r) \cup {End, Lost}
      /\ p \in Findable(r) =>
            /\ q \in Findable(r) \cup {End} /\ q > p
            /\ \A k \in Findable(r) : k > p => q <= k
  BY <1>2, StepsToTheNext
<1>4. \A k \in Findable(r) : k \in Entries /\ k \in Nat
  BY FindableAreEntries, EntriesAreKeys, EndIsBehind
<1>5. ~departed /\ ~OnHidden => LeadsToTheNext(q)
  <2> SUFFICES ASSUME ~departed, ~OnHidden PROVE LeadsToTheNext(q)
    OBVIOUS
  <2>1. p \in Findable(r)
    BY <1>1, PositionIsFindable
  <2>4. q \in Findable(r) \cup {End} /\ \A k \in Findable(r) : k > p => q <= k
    BY <1>3, <2>1
  <2>2. q \in Nat /\ p \in Nat
    <3>1. End \in Nat
      BY EndIsBehind
    <3> QED
      BY <1>4, <2>1, <2>4, <3>1
  <2>3. ASSUME NEW k \in Findable(r), k < q, k >= p PROVE k = p
    BY <1>4, <2>2, <2>3, <2>4
  <2> QED
    BY <1>1, <2>4, <2>3 DEF LeadsToTheNext
<1>6. q \in Entries \cup {End, Lost} /\ OnHidden \in BOOLEAN
  <2>1. OnHidden \in BOOLEAN
    BY DEF OnHidden
  <2> QED
    BY <1>3, <1>4, <2>1
<1> QED
  BY <1>1, <1>5, <1>6, MovesSoundly

LEMMA StepsBackSoundly ==
    ASSUME WalkInv, StepBackward
    PROVE  WalkIsTyped' /\ Walking'
<1> PICK r : r = walk.reader
  OBVIOUS
<1> PICK p : p = walk.pos
  OBVIOUS
<1>1. PICK hollow \in BOOLEAN :
          MoveTo(IF walk.make = "concurrent"
                 THEN ConcurrentBackward(walk.make, r, p, hollow)
                 ELSE Backward(walk.make, r, p, hollow),
                 OnHidden \/ (AtEnd /\ hollow) \/ walk.make = "concurrent")
  BY DEF StepBackward
<1> PICK q : q = IF walk.make = "concurrent"
                 THEN ConcurrentBackward(walk.make, r, p, hollow)
                 ELSE Backward(walk.make, r, p, hollow)
  OBVIOUS
<1> PICK known : known = (OnHidden \/ (AtEnd /\ hollow) \/ walk.make = "concurrent")
  OBVIOUS
<1>2. Walking /\ walk.back /\ ~AtBegin /\ MoveTo(q, known)
  BY <1>1 DEF StepBackward, WalkInv, Resting, NoWalk
<1>3. MapInv /\ ~corrupt /\ r \in Txns \cup {NoTxn}
  BY <1>2 DEF WalkInv, LogInv, Walking, KeepsOthersAway, WalkIsTyped
<1>4. q \in Entries \cup {End, Lost} /\ known \in BOOLEAN
  <2>1. OnHidden \in BOOLEAN
    BY DEF OnHidden
  <2>2. known \in BOOLEAN
    BY <2>1
  <2> QED
    BY <2>2, BackIsAnEntry
<1>5. \A k \in Findable(r) : k \in Entries /\ k \in Nat /\ k < End
  BY FindableAreEntries, EntriesAreKeys, EndIsBehind
<1>6. ~departed /\ ~known => LeadsToTheNext(q)
  <2> SUFFICES ASSUME ~departed, ~OnHidden, ~(p = End /\ hollow), walk.make # "concurrent"
               PROVE  LeadsToTheNext(q)
    BY DEF AtEnd
  <2>1. p \in Findable(r) \/ (p = End /\ ~hollow)
    BY <1>2, PositionIsFindable
  <2>2. p \in Nat
    BY <1>5, <2>1, EndIsBehind
  <2>3. PICK f \in Findable(r) : f < p
    <3> PICK first : first = SkipForward(walk.make, r, First)
      OBVIOUS
    <3>1. /\ first # p
          /\ first \in Findable(r) \cup {End}
          /\ \A k \in Findable(r) : k >= First => first <= k
      BY <1>2, <1>3, SkipsToTheNext DEF AtBegin
    <3>2. \A k \in Findable(r) : k >= First
      BY <1>5, FirstIsThere, EndIsBehind, EntriesAreKeys
    <3>3. CASE p \in Findable(r)
      BY <1>5, <3>1, <3>2, <3>3, EndIsBehind
    <3>4. CASE p = End
      BY <1>5, <3>1, <3>4
    <3> QED
      BY <2>1, <3>3, <3>4
  <2>4. /\ q \in Findable(r) /\ q < p
        /\ \A k \in Findable(r) : k < p => k <= q
    BY <1>3, <2>1, <2>3, StepsToTheLast
  <2>5. \A k \in Findable(r) : k >= q /\ k < p => k = q
    BY <1>5, <2>4
  <2> QED
    BY <1>2, <2>4, <2>5 DEF LeadsToTheNext
<1> QED
  BY <1>2, <1>4, <1>6, MovesSoundly

-----------------------------------------------------------------------------
\* What the transactions do meanwhile

\* A step that takes no row away, makes none an insert and leaves the reader its list.
IsHarmless(r) ==
    /\ ~corrupt' /\ (walk.make = "concurrent" \/ container' = NoTxn)
    /\ r # NoTxn =>
          /\ pc'[r] = "active" /\ id'[r] = id[r]
          /\ \A p : Listed(r, p, "update") # {} => Listed(r, p, "update")' # {}
    /\ Entries' = Entries
    /\ \A k \in Entries : rows'[k].op = "insert" => rows[k].op = "insert" /\ rows'[k].id = rows[k].id

LEMMA WatchedSoundly ==
    ASSUME WalkInv, Walking, Watch, NEW r, r = walk.reader, IsHarmless(r)
    PROVE  WalkIsTyped' /\ Walking'
<1> PICK p : p = walk.pos
  OBVIOUS
<1>1. /\ walk' = walk /\ walks' = walks /\ passed' = passed /\ departed' = departed
      /\ throughout' = throughout \cap Findable(walk.reader)'
      /\ atSomeTime' = atSomeTime \cup Findable(walk.reader)'
  BY DEF Watch, Walking
<1>2. WalkIsTyped'
  <2>1. Findable(walk.reader)' \subseteq Keys
    BY DEF Findable
  <2> QED
    BY <1>1, <2>1 DEF WalkInv, WalkIsTyped
<1>3. KeepsOthersAway' /\ SightIsRecorded'
  BY <1>1 DEF IsHarmless, KeepsOthersAway, SightIsRecorded
<1>4. PositionIsSound'
  <2>1. /\ p \in Entries' \cup {End, Lost} /\ p \in passed
        /\ walk.pending => r # NoTxn /\ Listed(r, p, "update") # {}
        /\ ~departed /\ p \in Entries /\ rows[p].op = "insert" =>
              IsOwn(r, rows[p])
    BY DEF IsHarmless, Walking, PositionIsSound
  <2>2. walk.pending => r # NoTxn /\ Listed(r, p, "update")' # {}
    BY <2>1 DEF IsHarmless
  <2>3. ~departed /\ p \in Entries /\ rows'[p].op = "insert" =>
              r # NoTxn /\ rows'[p].id = id'[r]
    BY <2>1 DEF IsHarmless, IsOwn
  <2>4. Entries' = Entries /\ walk'.pos = p /\ walk'.reader = r /\ walk'.pending = walk.pending
    BY <1>1 DEF IsHarmless
  <2> QED
    BY <1>1, <2>1, <2>2, <2>3, <2>4 DEF PositionIsSound, IsOwn, Listed
<1>5. NothingIsPassedOver' /\ HiddenIsNotShown'
  BY <1>1 DEF Walking, NothingIsPassedOver, HiddenIsNotShown, Covered
<1> QED
  BY <1>1, <1>2, <1>3, <1>4, <1>5 DEF Walking

\* A list that only grows keeps its updates.
LEMMA ListedStays ==
    ASSUME Typed, NEW r \in Txns, NEW t \in Txns, NEW o,
           UNCHANGED ops \/ ops' = [ops EXCEPT ![t] = Append(@, o)],
           NEW p, Listed(r, p, "update") # {}
    PROVE  Listed(r, p, "update")' # {}
<1>1. PICK i \in DOMAIN ops[r] : ops[r][i].key = p /\ ops[r][i].kind = "update"
  BY DEF Listed
<1>2. ops[r] \in Seq(Ops) /\ ops \in [Txns -> Seq(Ops)]
  BY DEF Typed, TypeOK
<1>3. ops'[r] = ops[r] \/ ops'[r] = Append(ops[r], o)
  BY <1>2
<1>4. i \in DOMAIN ops'[r] /\ ops'[r][i] = ops[r][i]
  BY <1>1, <1>2, <1>3
<1> QED
  BY <1>1, <1>4 DEF Listed

\* Rows of which only the mark or the value of an insert changes are as many as before.
LEMMA MarkedRowsStay ==
    ASSUME Typed, NEW t \in Txns, NEW k \in Keys, Present(rows[k]),
           \/ rows' = rows
           \/ Rewritten(t, k)
           \/ \E op \in Marks : Marked(t, k, op)
    PROVE  /\ Entries' = Entries
           /\ \A j \in Entries : rows'[j].op = "insert" =>
                 rows[j].op = "insert" /\ rows'[j].id = rows[j].id
<1>1. rows \in [Keys -> Rows] /\ rows[k].val # NoValue
  BY DEF Typed, TypeOK, Present
<1>2. \A j \in Keys : j # k => rows'[j] = rows[j]
  BY <1>1 DEF Rewritten, Marked, Mark
<1>3. /\ rows'[k].val # NoValue
      /\ rows'[k].op = "insert" => rows[k].op = "insert" /\ rows'[k].id = rows[k].id
  <2>1. CASE rows' = rows
    BY <1>1, <2>1
  <2>2. CASE Rewritten(t, k)
    <3>1. Value(t) # NoValue
      BY ValuesAre
    <3>2. rows' = [rows EXCEPT ![k].val = Value(t)]
      BY <2>2 DEF Rewritten
    <3>3. rows'[k].val = Value(t) /\ rows'[k].op = rows[k].op /\ rows'[k].id = rows[k].id
      BY <1>1, <3>2 DEF Rows
    <3> QED
      BY <2>2, <3>1, <3>3 DEF Rewritten
  <2>3. ASSUME NEW op \in Marks, Marked(t, k, op)
        PROVE  rows'[k].val # NoValue /\ rows'[k].op # "insert"
    <3>1. rows' = [rows EXCEPT ![k].op = op, ![k].id = id[t]] /\ op # "insert"
      BY <2>3 DEF Marked, Mark
    <3>2. rows'[k].val = rows[k].val /\ rows'[k].op = op
      BY <1>1, <3>1 DEF Rows
    <3> QED
      BY <1>1, <3>1, <3>2
  <2> QED
    BY <2>1, <2>2, <2>3
<1> QED
  BY <1>1, <1>2, <1>3 DEF Entries, Present

\* The calls during a walk do no harm, nor does writing the record of one who is not the
\* reader, or beginning a transaction.
LEMMA CallsAreHarmless ==
    ASSUME WalkInv, Walking, NEW r, r = walk.reader,
           NEW t \in Txns, NEW kind \in Kinds, NEW k \in Keys, Call(t, kind, k)
    PROVE  IsHarmless(r)
<1>2. ~Contends(t, kind, k) /\ kind # "insert" /\ Operate(t, kind, k)
  BY DEF Call, Walking
<1>1. /\ MapInv /\ Typed /\ ~corrupt /\ container = NoTxn
      /\ r \in Txns \cup {NoTxn} /\ (r # NoTxn => pc[r] = "active")
  BY <1>2 DEF WalkInv, LogInv, MapInv, Walking, KeepsOthersAway, WalkIsTyped, Operate, MayLook
<1>3. Works(t, kind, k)
  BY <1>1, <1>2, OperationsWork
<1>4. Performed(t, kind, k) /\ Present(rows[k])
  BY <1>1, <1>2, <1>3, CallsPerform DEF Works
<1>5. corrupt' = corrupt /\ container' = container /\ id' = id
  BY <1>3 DEF Works
<1>6. r # NoTxn => pc'[r] = "active"
  <2>1. pc \in [Txns -> Points]
    BY <1>1 DEF Typed, TypeOK
  <2> QED
    BY <1>1, <1>4, <2>1 DEF Performed
<1>7. UNCHANGED <<rows, ops>> \/ Rewritten(t, k) \/ \E op \in Marks : Marked(t, k, op)
  BY <1>4 DEF Performed, Changes, Inserted
<1>8. /\ Entries' = Entries
      /\ \A j \in Entries : rows'[j].op = "insert" =>
            rows[j].op = "insert" /\ rows'[j].id = rows[j].id
  BY <1>1, <1>4, <1>7, MarkedRowsStay
<1>9. PICK o : UNCHANGED ops \/ ops' = [ops EXCEPT ![t] = Append(@, o)]
  BY <1>7 DEF Rewritten, Marked, Mark
<1>10. \A p : r # NoTxn /\ Listed(r, p, "update") # {} => Listed(r, p, "update")' # {}
  BY <1>1, <1>9, ListedStays
<1> QED
  BY <1>1, <1>5, <1>6, <1>8, <1>10 DEF IsHarmless

\* A transaction that gives its rows up and takes none of them away does none either.
LEMMA EndsAreHarmless ==
    ASSUME WalkInv, Walking, NEW r, r = walk.reader, walk.make = "concurrent",
           NEW t \in Txns, r # t, NEW m, Change(t, m), ~m.bad, m \in SoundMaps,
           \A k \in Keys \ KeysOf(t) : m.rows[k] = rows[k],
           \A k \in KeysOf(t) :
              Present(rows[k]) /\ Present(m.rows[k]) /\ m.rows[k].op = "none"
    PROVE  IsHarmless(r)
<1>1. /\ r \in Txns \cup {NoTxn} /\ (r # NoTxn => pc[r] = "active")
      /\ pc \in [Txns -> Points]
  BY DEF WalkInv, LogInv, MapInv, Walking, KeepsOthersAway, WalkIsTyped, Typed, TypeOK
<1>2. rows' = m.rows /\ corrupt' = m.bad /\ ops' = ops /\ id' = id
  BY DEF Change
<1>3. r # NoTxn => pc'[r] = "active"
  BY <1>1 DEF Change, Goto
<1>4. \A k \in Keys : Present(rows'[k]) <=> Present(rows[k])
  BY <1>2
<1>5. Entries' = Entries
  BY <1>4 DEF Entries, Present
<1>6. \A k \in Entries : rows'[k].op = "insert" =>
          rows[k].op = "insert" /\ rows'[k].id = rows[k].id
  BY <1>2, EntriesAreKeys
<1>7. \A p : Listed(r, p, "update")' = Listed(r, p, "update")
  BY <1>2 DEF Listed
<1> QED
  BY <1>2, <1>3, <1>5, <1>6, <1>7 DEF IsHarmless

\* Such is a commit without an erasure.
LEMMA CommitsAreHarmless ==
    ASSUME WalkInv, Walking, NEW r, r = walk.reader, walk.make = "concurrent",
           NEW t \in Txns, r # t, Commit(t), \A i \in DOMAIN ops[t] : ~Erases(ops[t][i])
    PROVE  IsHarmless(r)
<1>0. MapInv /\ Typed /\ ~corrupt /\ Unfinished(t)
  BY DEF Commit, WalkInv, LogInv, MapInv, Unfinished
<1>1. \A i \in DOMAIN ops[t] : IsTraced(t, i)
  BY <1>0 DEF MapInv, OpsAreTraced
<1>2. PICK q \in Range(log) : q.txn = t
  BY <1>0 DEF Commit, MapInv, PointsAreReal, PointOf
<1> DEFINE lsn == (CHOOSE x \in Range(log) : x.txn = t).lsn
           m == CommittedMap(t, lsn)
           n == Len(ops[t])
<1>3. lsn \in Nat
  BY <1>0, <1>2 DEF Typed
<1>4. Change(t, m)
  BY DEF Commit
<1> HIDE DEF lsn
<1>5. /\ m \in SoundMaps
      /\ \A k \in Keys \ KeysOf(t) : m.rows[k] = rows[k]
      /\ \A k \in KeysOf(t) : Settled(t, m, k, lsn, n)
      /\ m.bad => \E k \in Keys : Twice(t, k)
  BY <1>0, <1>1, <1>3, CommitOfAll
<1> HIDE DEF m
<1>6. ~m.bad
  BY <1>5 DEF Twice, Listed, Erases
<1>7. ASSUME NEW k \in KeysOf(t)
      PROVE  Present(rows[k]) /\ Present(m.rows[k]) /\ m.rows[k].op = "none"
  <2>1. PICK j \in On(t, k) : ops[t][j].kind = rows[k].op
    BY <1>5 DEF Settled
  <2>2. j \in DOMAIN ops[t] /\ ops[t][j].key = k
    BY DEF On
  <2>3. Present(rows[k])
    BY <1>1, <2>2 DEF IsTraced
  <2>4. rows[k].op \notin {"delete", "deleted_insert"}
    BY <2>1, <2>2 DEF Erases
  <2> QED
    BY <1>5, <2>3, <2>4 DEF Settled
<1> QED
  BY <1>4, <1>5, <1>6, <1>7, EndsAreHarmless

\* Such is a rollback without an insert.
LEMMA RollbacksAreHarmless ==
    ASSUME WalkInv, Walking, NEW r, r = walk.reader, walk.make = "concurrent",
           NEW t \in Txns, r # t, Rollback(t), ops[t] # <<>>,
           \A i \in DOMAIN ops[t] : ~Inserts(ops[t][i])
    PROVE  IsHarmless(r)
<1>0. MapInv /\ Typed /\ ~corrupt /\ Unfinished(t)
  BY DEF Rollback, WalkInv, LogInv, MapInv, Unfinished
<1>1. \A i \in DOMAIN ops[t] : IsTraced(t, i)
  BY <1>0 DEF MapInv, OpsAreTraced
<1> DEFINE m == RolledBackMap(t)
<1>2. Change(t, m)
  BY DEF Rollback
<1>3. /\ m \in SoundMaps /\ m.bad = FALSE
      /\ \A k \in Keys \ KeysOf(t) : m.rows[k] = rows[k]
      /\ \A k \in KeysOf(t) : \E j \in On(t, k) :
            IsFirst(t, j) /\ m.rows[k] = Restored(rows[k], ops[t][j])
  BY <1>0, <1>1, RollbackOfAll
<1> HIDE DEF m
<1>4. ASSUME NEW k \in KeysOf(t)
      PROVE  Present(rows[k]) /\ Present(m.rows[k]) /\ m.rows[k].op = "none"
  <2>1. PICK j \in On(t, k) : IsFirst(t, j) /\ m.rows[k] = Restored(rows[k], ops[t][j])
    BY <1>3
  <2>2. j \in DOMAIN ops[t] /\ ops[t][j].key = k
    BY DEF On
  <2>3. Present(rows[k]) /\ IsTraced(t, j)
    BY <1>1, <2>2 DEF IsTraced
  <2>4. ops[t][j].kind # "insert"
    BY <2>2 DEF Inserts
  <2>5. m.rows[k].val = rows[k].val /\ m.rows[k].op = ops[t][j].op
    BY <2>1, <2>4 DEF Restored
  <2>6. ops[t][j].op = "none"
    BY <2>1, <2>3 DEF IsTraced
  <2> QED
    BY <2>3, <2>5, <2>6 DEF Present
<1> QED
  BY <1>2, <1>3, <1>4, EndsAreHarmless

LEMMA OthersAreHarmless ==
    ASSUME WalkInv, Walking, NEW r, r = walk.reader,
           NEW t \in Txns, Start(t) \/ Finish(t)
    PROVE  IsHarmless(r)
<1>1. /\ MapInv /\ Typed /\ ~corrupt /\ (walk.make = "concurrent" \/ container = NoTxn)
      /\ pc \in [Txns -> Points] /\ id \in [Txns -> Nat] /\ ops \in [Txns -> Seq(Ops)]
      /\ r \in Txns \cup {NoTxn} /\ (r # NoTxn => pc[r] = "active")
  BY DEF WalkInv, LogInv, MapInv, Walking, KeepsOthersAway, WalkIsTyped, Typed, TypeOK
<1>2. CASE walk.make = "concurrent" /\ r # t /\ Commit(t)
           /\ \A i \in DOMAIN ops[t] : ~Erases(ops[t][i])
  BY <1>2, CommitsAreHarmless
<1>3. CASE walk.make = "concurrent" /\ r # t /\ Rollback(t) /\ ops[t] # <<>>
           /\ \A i \in DOMAIN ops[t] : ~Inserts(ops[t][i])
  BY <1>3, RollbacksAreHarmless
<1>4. ASSUME /\ rows' = rows /\ corrupt' = corrupt /\ (container' = container \/ container' = NoTxn)
             /\ r # NoTxn => pc'[r] = pc[r] /\ id'[r] = id[r] /\ ops'[r] = ops[r]
      PROVE  IsHarmless(r)
  <2>1. Entries' = Entries
    BY <1>4 DEF Entries, Present
  <2>2. r # NoTxn => \A p : Listed(r, p, "update")' = Listed(r, p, "update")
    BY <1>4 DEF Listed
  <2> QED
    BY <1>1, <1>4, <2>1, <2>2 DEF IsHarmless
<1>5. CASE Begin(t)
  BY <1>1, <1>4, <1>5 DEF Begin, Goto, map, locks
<1>6. CASE r # t /\ WriteRecord(t)
  BY <1>1, <1>4, <1>6 DEF WriteRecord, Goto, map, locks
<1>7. CASE r # t /\ Rollback(t) /\ ops[t] = <<>>
  BY <1>1, <1>4, <1>7 DEF Rollback, Goto, map, locks
<1>8. CASE Notify(t)
  BY <1>1, <1>4, <1>8 DEF Notify, CanNotify, map
<1> QED
  BY <1>2, <1>3, <1>5, <1>6, <1>7, <1>8 DEF Start, Finish, Walking, SharesTheLock

-----------------------------------------------------------------------------
\* Walks are sound

LEMMA WalkInvAtTheStart == WalkInit => WalkInv
<1> SUFFICES ASSUME WalkInit PROVE WalkInv
  OBVIOUS
<1>1. LogInv
  BY LogInvAtTheStart DEF WalkInit
<1>2. WalkIsTyped
  <2>1. NoWalk \in [open : BOOLEAN, make : Makes, reader : Txns \cup {NoTxn},
                    back : BOOLEAN, start : Keys \cup {End}, pos : Keys \cup {End, Lost},
                    pending : BOOLEAN]
    BY DEF NoWalk, Makes
  <2>2. walk = NoWalk /\ walks = 0 /\ throughout = {} /\ atSomeTime = {} /\ departed = FALSE
    BY DEF WalkInit
  <2>3. 0 \in 0 .. MaxWalks
    BY WalksAssumption
  <2> QED
    BY <2>1, <2>2, <2>3 DEF WalkIsTyped
<1> QED
  BY <1>1, <1>2 DEF WalkInit, WalkInv, Resting

\* The steps of the walk leave the transactions alone; the others are steps of TransMap.
LEMMA WalkStepsAreSteps ==
    ASSUME [WalkNext]_<<vars, view>>
    PROVE  [Next]_vars
<1>1. ASSUME NEW t \in Txns, Start(t) \/ Finish(t)
      PROVE  Next
  BY <1>1 DEF Start, Finish, Next
<1>2. ASSUME NEW t \in Txns, NEW kind \in Kinds, NEW k \in Keys, Call(t, kind, k)
      PROVE  Next
  BY <1>2 DEF Call, Next
<1>3. ASSUME NEW r \in Readers, NEW back \in BOOLEAN,
             OpenMap(r, back) \/ OpenTree(r, back) \/ OpenConcurrent(r, back)
      PROVE  UNCHANGED vars
  BY <1>3 DEF OpenMap, OpenTree, OpenConcurrent, Open
<1>4. Finished \/ StepForward \/ StepBackward \/ Close => UNCHANGED vars
  BY DEF Finished, StepForward, StepBackward, MoveTo, Close
<1> QED
  BY <1>1, <1>2, <1>3, <1>4 DEF WalkNext

\* Every step keeps a walk sound, or there is none.
LEMMA WalkInvIsKept == WalkInv /\ [WalkNext]_<<vars, view>> => WalkInv'
<1> SUFFICES ASSUME WalkInv, [WalkNext]_<<vars, view>> PROVE WalkInv'
  OBVIOUS
<1>1. LogInv'
  BY WalkStepsAreSteps, LogInvIsKept DEF WalkInv
<1>2. WalkIsTyped /\ (Resting \/ Walking)
  BY DEF WalkInv
<1>3. CASE Finished \/ UNCHANGED <<vars, view>>
  <2>1. /\ walk' = walk /\ walks' = walks /\ throughout' = throughout
        /\ atSomeTime' = atSomeTime /\ passed' = passed /\ departed' = departed
        /\ rows' = rows /\ id' = id /\ pc' = pc /\ ops' = ops /\ corrupt' = corrupt
        /\ container' = container
    BY <1>3 DEF Finished, vars, view, map, locks, txns
  <2>2. WalkIsTyped' /\ (Resting => Resting')
    BY <1>2, <2>1 DEF WalkIsTyped, Resting
  <2>3. ASSUME Walking PROVE Walking'
    <3>1. Findable(walk.reader)' = Findable(walk.reader) /\ Entries' = Entries
      BY <2>1 DEF Findable, Shown, Found, Entries, Present
    <3>2. KeepsOthersAway' /\ SightIsRecorded' /\ NothingIsPassedOver' /\ HiddenIsNotShown'
      BY <2>1, <2>3, <3>1
         DEF Walking, KeepsOthersAway, SightIsRecorded, NothingIsPassedOver,
             HiddenIsNotShown, Covered
    <3>3. PositionIsSound'
      BY <2>1, <2>3, <3>1 DEF Walking, PositionIsSound, IsOwn, Listed
    <3> QED
      BY <2>1, <2>3, <3>2, <3>3 DEF Walking
  <2> QED
    BY <1>1, <1>2, <2>2, <2>3 DEF WalkInv
<1>4. CASE StepForward \/ StepBackward
  BY <1>1, <1>4, StepsForwardSoundly, StepsBackSoundly DEF WalkInv
<1>5. CASE Close
  <2>1. WalkIsTyped'
    BY <1>2, <1>5 DEF Close, WalkIsTyped, NoWalk, Makes
  <2>2. Resting'
    BY <1>5 DEF Close, Resting
  <2> QED
    BY <1>1, <2>1, <2>2 DEF WalkInv
<1>6. ASSUME NEW r \in Readers, NEW back \in BOOLEAN,
             OpenMap(r, back) \/ OpenTree(r, back) \/ OpenConcurrent(r, back)
      PROVE  WalkInv'
  <2>1. PICK make \in Makes, bound \in Keys \cup {End} : Open(r, make, back, bound)
    <3>1. {First, End} \cup Searches \subseteq Keys \cup {End}
      BY BoundsAreKeys
    <3>2. {"map", "tree", "concurrent"} \subseteq Makes
      BY DEF Makes
    <3> QED
      BY <1>6, <3>1, <3>2 DEF OpenMap, OpenTree, OpenConcurrent
  <2> QED
    BY <1>1, <2>1, OpensSoundly DEF WalkInv
<1>7. ASSUME NEW t \in Txns, Watch,
             \/ Start(t) \/ Finish(t)
             \/ \E kind \in Kinds, k \in Keys : Call(t, kind, k)
      PROVE  WalkInv'
  <2>1. CASE Walking
    <3> PICK r : r = walk.reader
      OBVIOUS
    <3>1. IsHarmless(r)
      BY <1>7, <2>1, CallsAreHarmless, OthersAreHarmless
    <3> QED
      BY <1>1, <1>7, <2>1, <3>1, WatchedSoundly DEF WalkInv
  <2>2. CASE Resting
    <3>1. /\ walk' = walk /\ walks' = walks /\ throughout' = throughout
          /\ atSomeTime' = atSomeTime /\ passed' = passed /\ departed' = departed
      BY <1>7, <2>2 DEF Watch, Resting, NoWalk
    <3> QED
      BY <1>1, <1>2, <2>2, <3>1 DEF WalkInv, WalkIsTyped, Resting
  <2> QED
    BY <1>2, <2>1, <2>2
<1>8. \A t \in Txns : Start(t) \/ Finish(t) => Watch
  BY DEF Start, Finish
<1>9. \A t \in Txns, kind \in Kinds, k \in Keys : Call(t, kind, k) => Watch
  BY DEF Call
<1> QED
  BY <1>3, <1>4, <1>5, <1>6, <1>7, <1>8, <1>9 DEF WalkNext

\* What a walk without departures is on is committed, or its reader's own.
LEMMA CommittedOrOwnIsShown ==
    ASSUME WalkInv
    PROVE  ShowsCommittedOrOwn
<1> PICK k : k = walk.pos
  OBVIOUS
<1> PICK r : r = walk.reader
  OBVIOUS
<1> SUFFICES ASSUME walk.open, k \in Entries, ~departed, k \notin retouched,
                    rows[k].op # "deleted_insert"
             PROVE  Deref \in {Recoverable(k).val} \cup Own(r, k)
  BY DEF ShowsCommittedOrOwn
<1>1. Walking
  BY DEF WalkInv, Resting, NoWalk
<1>2. /\ LogInv /\ MapInv /\ ~corrupt /\ k \in Keys /\ Present(rows[k])
      /\ r \in Txns \cup {NoTxn} /\ (r # NoTxn => pc[r] = "active")
  BY <1>1 DEF WalkInv, LogInv, Walking, KeepsOthersAway, WalkIsTyped, Entries
<1>3. CASE walk.pending
  <2>1. r # NoTxn /\ Listed(r, k, "update") # {} /\ Deref = KeptAside(r, k)
    BY <1>1, <1>3 DEF Walking, PositionIsSound, Deref
  <2> QED
    BY <2>1 DEF Own
<1>4. CASE ~walk.pending /\ rows[k].op = "insert"
  <2>1. IsOwn(r, rows[k]) /\ Deref = rows[k].val
    BY <1>1, <1>4 DEF Walking, PositionIsSound, Deref
  <2>2. r \in Txns /\ r # NoTxn /\ Listed(r, k, "insert") # {}
    BY <1>2, <1>4, <2>1, InsertIsListed DEF IsOwn
  <2> QED
    BY <2>1, <2>2 DEF Own
<1>5. CASE ~walk.pending /\ rows[k].op # "insert"
  <2>1. Deref = rows[k].val /\ Shown(rows[k])
    BY <1>2, <1>5 DEF Deref, Shown
  <2>2. Agrees(k, rows[k], Recoverable(k), k \in retouched)
    BY <1>2 DEF LogInv, RowsAgree
  <2>3. rows[k].val = Recoverable(k).val
    BY <2>1, <2>2 DEF Agrees
  <2> QED
    BY <2>1, <2>3
<1> QED
  BY <1>3, <1>4, <1>5

LEMMA SoundWalksShowTheRows ==
    ASSUME WalkInv
    PROVE  WalksShowTheRows
<1>1. NothingIsPassedOver /\ HiddenIsNotShown
  BY EndIsBehind DEF WalkInv, Walking, Resting, NoWalk, NothingIsPassedOver, HiddenIsNotShown
<1>2. WalkTypeOK
  BY DEF WalkInv, WalkIsTyped, WalkTypeOK, Walking, PositionIsSound, Resting, NoWalk
<1> QED
  BY <1>1, <1>2, CommittedOrOwnIsShown DEF WalksShowTheRows

\* A walk shows its reader, whatever the other transactions do meanwhile, the rows that
\* there are for it: with a committed value or one of its own, none left out that it could
\* have found all along, and none that it could never have found.
THEOREM WalksAreFaithful == WalkSpec => []WalksShowTheRows
<1>1. WalkInv => WalksShowTheRows
  BY SoundWalksShowTheRows
<1> QED
  BY <1>1, WalkInvAtTheStart, WalkInvIsKept, PTL DEF WalkSpec

\* The same where an exclusive transaction may come before all walks: from then on there
\* are none.
WalksEnd == stage # "idle" /\ WalkIsTyped /\ Resting
THEOREM ExclusiveWalksAreFaithful == ExclusiveSpec => []WalksShowTheRows
<1> DEFINE Inv == (stage = "idle" /\ WalkInv) \/ WalksEnd
<1>1. ExclusiveInit => Inv
  BY WalkInvAtTheStart DEF ExclusiveInit
<1>2. Inv /\ [ExclusiveNext]_<<vars, view, exclusive>> => Inv'
  <2> SUFFICES ASSUME Inv, [ExclusiveNext]_<<vars, view, exclusive>> PROVE Inv'
    OBVIOUS
  <2>1. ASSUME UNCHANGED view, WalksEnd, stage' # "idle" PROVE WalksEnd'
    BY <2>1 DEF WalksEnd, WalkIsTyped, Resting, view
  <2>2. CASE stage = "idle" /\ WalkNext /\ UNCHANGED exclusive
    BY <2>2, WalkInvIsKept DEF WalksEnd, exclusive
  <2>3. CASE BeginExclusive
    <3>1. WalkInv /\ walks = 0
      BY <2>3 DEF BeginExclusive, WalksEnd
    <3>2. WalkIsTyped /\ Resting
      BY <3>1 DEF WalkInv, Walking
    <3> QED
      BY <2>3, <3>2 DEF BeginExclusive, WalksEnd, WalkIsTyped, Resting, view
  <2>4. CASE CallMap \/ WriteExclusive \/ CommitExclusive \/ RollbackExclusive
    <3>1. UNCHANGED view /\ stage # "idle" /\ stage' # "idle"
      BY <2>4 DEF CallMap, Working, WriteExclusive, CommitExclusive, RollbackExclusive,
                  EndExclusive
    <3> QED
      BY <2>1, <3>1
  <2>5. CASE UNCHANGED <<vars, view, exclusive>> \/ ExclusiveEnded
    <3>1. UNCHANGED <<vars, view, exclusive>>
      BY <2>5 DEF ExclusiveEnded
    <3> QED
      BY <3>1, WalkInvIsKept DEF WalksEnd, exclusive, WalkIsTyped, Resting, view
  <2> QED
    BY <2>2, <2>3, <2>4, <2>5 DEF ExclusiveNext
<1>3. Inv => WalksShowTheRows
  <2>1. WalksEnd => WalksShowTheRows
    <3> SUFFICES ASSUME WalksEnd PROVE WalksShowTheRows
      OBVIOUS
    <3>1. NothingIsPassedOver /\ HiddenIsNotShown
      BY EndIsBehind DEF WalksEnd, Resting, NoWalk, NothingIsPassedOver, HiddenIsNotShown
    <3>2. WalkTypeOK /\ ShowsCommittedOrOwn
      BY DEF WalksEnd, WalkIsTyped, WalkTypeOK, Resting, NoWalk, ShowsCommittedOrOwn
    <3> QED
      BY <3>1, <3>2 DEF WalksShowTheRows
  <2> QED
    BY <2>1, SoundWalksShowTheRows
<1> QED
  BY <1>1, <1>2, <1>3, PTL DEF ExclusiveSpec

-----------------------------------------------------------------------------
\* The exclusive transaction

\* The operations of the exclusive transaction, on rows and on maps.
RowOps == [kind : {"insert", "update", "delete", "deleted_insert"}, key : Keys,
           val : Values \ {NoValue}, id : Nat, op : Marks, at : Nat, home : Nat]
MapOps == [kind : {"clear", "swap"}, map : Names, old : Nat]

\* The list and the maps have their types; each clear() has kept the rows at a place of its
\* own.
CallsTyped ==
    /\ calls \in Seq(RowOps \cup MapOps)
    /\ \A i \in Calls({"clear"}) : calls[i].old = 2 + i
    /\ \A i \in Calls({"swap"}) : calls[i].old = Other(calls[i].map)
TreesTyped ==
    /\ lock_id \in Nat
    /\ trees \in [DOMAIN trees -> [Keys -> Rows]]
    /\ Names \subseteq DOMAIN trees /\ DOMAIN trees \subseteq 1 .. 2 + Len(calls)
    /\ \A x \in DOMAIN trees, k \in Keys : ~Present(trees[x][k]) => trees[x][k] = NoRow

\* Each operation leads to its row, which is marked.
RowsAreFollowed ==
    \A i \in RowCalls :
        /\ calls[i].at = calls[i].home /\ calls[i].home \in DOMAIN trees
        /\ Present(trees[calls[i].home][calls[i].key])
        /\ trees[calls[i].home][calls[i].key].op # "none"

\* The rows but for the value of what the transaction has inserted, which it changes without
\* leaving an operation.
Fresh == {"insert", "deleted_insert"}
Mask(row) == IF row.op \in Fresh THEN [val |-> NoValue, op |-> row.op, id |-> row.id] ELSE row
Masked(ts) == [x \in DOMAIN ts |-> [k \in Keys |-> Mask(ts[x][k])]]

\* Without the i-th operation, o, the maps t and the places h of the rows of the operations
\* before it are s and g: what rollback makes of them.
UndoesRow(o, i, s, t, g, h) ==
    /\ h[i] \in DOMAIN t /\ DOMAIN s = DOMAIN t
    /\ \A x \in DOMAIN s, k \in Keys :
          s[x][k] = IF x = h[i] /\ k = o.key
                    THEN IF o.kind = "insert" THEN NoRow
                         ELSE Mask([val |-> t[x][k].val, op |-> o.op, id |-> o.id])
                    ELSE t[x][k]
    /\ o.kind # "insert" /\ t[h[i]][o.key].op \in Fresh => o.op \in Fresh
    /\ \A j \in 1 .. i - 1 : g[j] = h[j]
UndoesMap(o, i, s, t, g, h) ==
    /\ o.old \in DOMAIN t /\ o.map \in DOMAIN t /\ o.old # o.map
    /\ \A x \in DOMAIN s :
          /\ x \in DOMAIN t
          /\ s[x] = t[MovedTo(x, o.map, o.old)]
    /\ \A j \in 1 .. i - 1 : g[j] = MovedTo(h[j], o.map, o.old)
Undoes(o, i, s, t, g, h) ==
    IF IsOnRow(o) THEN UndoesRow(o, i, s, t, g, h) ELSE UndoesMap(o, i, s, t, g, h)

\* The maps t[i] and the places h[i] after each operation, as rollback will find them again.
IsHistory(t, h) ==
    LET n == Len(calls) IN
    /\ t[0] = Masked(FirstTrees) /\ t[n] = Masked(trees)
    /\ \A j \in RowCalls : h[n][j] = calls[j].home
    /\ \A i \in 1 .. n : Undoes(calls[i], i, t[i - 1], t[i], h[i - 1], h[i])
CanBeUndone == \E t, h : IsHistory(t, h)

\* As long as no maps are swapped, a row has had its operations since its map was last
\* cleared; the last one has its mark on it, and an insert comes first and finds no row.
OnPlace(m, k) == {i \in RowCalls : calls[i].home = m /\ calls[i].key = k}
ClearsOf(m) == {i \in Calls({"clear"}) : calls[i].map = m}
Base(m, k) == IF ClearsOf(m) # {} THEN NoRow ELSE FirstTrees[m][k]
IsLastOn(i) == \A j \in OnPlace(calls[i].home, calls[i].key) : j <= i
IsFirstOn(i) == \A j \in OnPlace(calls[i].home, calls[i].key) : i <= j
IsShaped(i) ==
    /\ IsLastOn(i) => trees[calls[i].home][calls[i].key].op = calls[i].kind
    /\ calls[i].kind = "insert" => IsFirstOn(i) /\ Base(calls[i].home, calls[i].key) = NoRow
    /\ calls[i].kind = "deleted_insert" => IsLastOn(i)
CallsAreShaped ==
    Calls({"swap"}) = {} =>
        /\ \A i \in RowCalls : \A l \in ClearsOf(calls[i].home) : l < i
        /\ \A m \in Names, k \in Keys : OnPlace(m, k) = {} => trees[m][k] = Base(m, k)
        /\ \A i \in RowCalls : calls[i].home \in Names => IsShaped(i)

Sound == CallsTyped /\ TreesTyped /\ RowsAreFollowed /\ CanBeUndone /\ CallsAreShaped

-----------------------------------------------------------------------------
\* Maps, rows and calls

LEMMA NamesAre ==
    /\ 1 \in Names /\ 2 \in Names
    /\ \A m \in Names : m \in Nat /\ Other(m) \in Names /\ Other(m) # m /\ Other(Other(m)) = m
<1>1. \A m \in Names : \E n \in Names : n # m
  BY DEF Names
<1>2. \A m \in Names : Other(m) \in Names /\ Other(m) # m
  BY <1>1 DEF Other
<1> QED
  BY <1>2 DEF Names

\* A call is on a row or on a map.
LEMMA CallsAreTwo ==
    ASSUME NEW o \in RowOps \cup MapOps
    PROVE  /\ IsOnRow(o) => o \in RowOps
           /\ ~IsOnRow(o) => o \in MapOps
BY DEF IsOnRow, RowOps, MapOps

LEMMA FirstTreesAre ==
    /\ DOMAIN FirstTrees = Names
    /\ FirstTrees \in [Names -> [Keys -> Rows]]
    /\ \A m \in Names, k \in Keys :
          /\ FirstTrees[m][k].op = "none"
          /\ ~Present(FirstTrees[m][k]) => FirstTrees[m][k] = NoRow
<1>1. ASSUME NEW k \in Keys
      PROVE  /\ FirstRows[k] \in Rows /\ OtherRows[k] \in Rows
             /\ FirstRows[k].op = "none" /\ OtherRows[k].op = "none"
             /\ ~Present(FirstRows[k]) => FirstRows[k] = NoRow
             /\ ~Present(OtherRows[k]) => OtherRows[k] = NoRow
  <2>1. /\ NoRow \in Rows /\ NoRow.op = "none"
        /\ \A i \in {0, 1}, n \in Nat : [val |-> <<NoTxn, i>>, op |-> "none", id |-> n] \in Rows
    <3>1. \A i \in {0, 1} : <<NoTxn, i>> \in Values
      BY DEF Values
    <3> QED
      BY <3>1, NoRowIsARow DEF Rows, Marks
  <2>2. k \in DOMAIN Recovered => Recovered[k] \in Nat
    BY RecoveredAssumption
  <2>3. FirstRows[k] \in Rows /\ FirstRows[k].op = "none"
    BY <2>1, <2>2 DEF FirstRows, Recoveree
  <2>4. OtherRows[k] \in Rows /\ OtherRows[k].op = "none"
    BY <2>1 DEF OtherRows
  <2>5. <<NoTxn, 0>> # NoValue /\ <<NoTxn, 1>> # NoValue
    BY NobodyAssumption
  <2> QED
    BY <2>3, <2>4, <2>5 DEF FirstRows, OtherRows, Recoveree, Present
<1>2. FirstRows \in [Keys -> Rows] /\ OtherRows \in [Keys -> Rows]
  BY <1>1 DEF FirstRows, OtherRows
<1> QED
  BY <1>1, <1>2 DEF FirstTrees, Names

\* What is masked of a row does not tell apart the values of inserts.
LEMMA MaskTells ==
    ASSUME NEW row \in Rows
    PROVE  /\ Mask(row).op = row.op /\ Mask(row).id = row.id
           /\ row.op \notin Fresh => Mask(row) = row
           /\ \A op \in Marks, n \in Nat :
                 (row.op \in Fresh => op \in Fresh) =>
                    Mask([val |-> Mask(row).val, op |-> op, id |-> n])
                       = Mask([val |-> row.val, op |-> op, id |-> n])
BY DEF Mask, Rows

\* A map moved to another's place is the other, and the other way round.
LEMMA MovesBack ==
    ASSUME NEW c, NEW m, NEW n
    PROVE  /\ MovedTo(MovedTo(c, m, n), m, n) = c
           /\ MovedTo(m, m, n) = n /\ MovedTo(n, m, n) = m
           /\ c # m /\ c # n => MovedTo(c, m, n) = c
           /\ MovedTo(c, m, n) \in {c, m, n}
BY DEF MovedTo

-----------------------------------------------------------------------------
\* Calls on a row

\* The maps ts with q as the row of k in m.
Put(ts, m, k, q) == [ts EXCEPT ![m][k] = q]
MapsTyped(ts) ==
    /\ ts \in [DOMAIN ts -> [Keys -> Rows]]
    /\ \A x \in DOMAIN ts, k \in Keys : ~Present(ts[x][k]) => ts[x][k] = NoRow

LEMMA PutIs ==
    ASSUME NEW ts, NEW m, NEW k, m \in DOMAIN ts, k \in Keys, NEW q, NEW us, us = Put(ts, m, k, q),
           ts \in [DOMAIN ts -> [Keys -> Rows]]
    PROVE  /\ DOMAIN us = DOMAIN ts
           /\ \A x \in DOMAIN ts : DOMAIN us[x] = Keys
           /\ \A x \in DOMAIN ts, j \in Keys : us[x][j] = IF x = m /\ j = k THEN q ELSE ts[x][j]
           /\ q \in Rows => us \in [DOMAIN us -> [Keys -> Rows]]
<1>1. DOMAIN us = DOMAIN ts /\ us = [x \in DOMAIN ts |-> IF x = m THEN [ts[m] EXCEPT ![k] = q] ELSE ts[x]]
  BY DEF Put
<1>2. \A x \in DOMAIN ts : ts[x] \in [Keys -> Rows]
  OBVIOUS
<1>3. \A x \in DOMAIN ts, j \in Keys : us[x][j] = IF x = m /\ j = k THEN q ELSE ts[x][j]
  BY <1>1, <1>2
<1>4. \A x \in DOMAIN ts : DOMAIN us[x] = Keys
  BY <1>1, <1>2
<1>5. ASSUME q \in Rows, NEW x \in DOMAIN ts PROVE us[x] \in [Keys -> Rows]
  BY <1>1, <1>2, <1>5
<1> QED
  BY <1>1, <1>3, <1>4, <1>5

\* What a call does to a row: q is the new one, o the operation.
RowIsCalled(m, k, q, o) ==
    /\ trees' = Put(trees, m, k, q) /\ calls' = Append(calls, o)
    /\ q \in Rows /\ o \in RowOps /\ o.key = k /\ o.at = m /\ o.home = m
    /\ Present(q) /\ q.op = o.kind
    /\ IF o.kind = "insert" THEN trees[m][k] = NoRow
       ELSE /\ q.val = trees[m][k].val /\ Present(trees[m][k])
            /\ o.op = trees[m][k].op /\ o.id = trees[m][k].id
            /\ o.op # "deleted_insert"
            /\ o.kind \in Fresh <=> o.op \in Fresh
\* An inserted row has another value from then on.
RowIsRewritten(m, k, q) ==
    /\ trees' = Put(trees, m, k, q) /\ UNCHANGED calls
    /\ q \in Rows /\ Present(q) /\ q.op = "insert"
    /\ trees[m][k].op = "insert" /\ q.id = trees[m][k].id

LEMMA NewValueIsOne ==
    ASSUME CallsTyped
    PROVE  NewValue \in Values /\ NewValue # NoValue
<1>1. Len(calls) \in Nat
  BY DEF CallsTyped
<1> QED
  BY <1>1, NobodyAssumption DEF NewValue, Values

LEMMA MarkRowIs ==
    ASSUME CallsTyped, TreesTyped, NEW m \in Names, NEW k \in Keys, NEW op \in {"update", "delete", "deleted_insert"},
           MarkRow(m, k, op), Present(trees[m][k]), trees[m][k].op # "deleted_insert",
           op \in Fresh <=> trees[m][k].op \in Fresh
    PROVE  \E q, o : RowIsCalled(m, k, q, o)
<1> DEFINE row == trees[m][k]
           q == [val |-> row.val, op |-> op, id |-> lock_id]
           o == OnRow(op, m, k, row)
<1>1. m \in DOMAIN trees /\ row \in Rows /\ lock_id \in Nat /\ m \in Nat
  BY NamesAre DEF TreesTyped
<1>2. q \in Rows /\ Present(q) /\ q.op = op /\ q.val = row.val
  BY <1>1 DEF Rows, Marks, Present
<1>3. o \in RowOps /\ o.kind = op /\ o.key = k /\ o.at = m /\ o.home = m /\ o.op = row.op /\ o.id = row.id
  BY <1>1, NewValueIsOne DEF OnRow, RowOps, Rows
<1>4. trees' = Put(trees, m, k, q)
  <2>1. trees[m] \in [Keys -> Rows]
    BY <1>1 DEF TreesTyped
  <2>2. q = [row EXCEPT !.op = op, !.id = lock_id]
    <3>1. PICK r \in Rows : r = row
      BY <1>1
    <3>2. PICK u : u = [r EXCEPT !.op = op]
      OBVIOUS
    <3>3. u = [val |-> r.val, op |-> op, id |-> r.id]
      BY <3>2 DEF Rows
    <3>4. [u EXCEPT !.id = lock_id] = [val |-> r.val, op |-> op, id |-> lock_id]
      BY <3>3
    <3>5. [r EXCEPT !.op = op, !.id = lock_id] = [u EXCEPT !.id = lock_id]
      BY <3>2
    <3> QED
      BY <3>1, <3>4, <3>5
  <2>3. trees' = [trees EXCEPT ![m][k].op = op, ![m][k].id = lock_id]
    BY DEF MarkRow
  <2> QED
    BY <1>1, <2>1, <2>2, <2>3 DEF Put
<1>5. calls' = Append(calls, o)
  BY DEF MarkRow
<1> HIDE DEF q, o
<1>6. RowIsCalled(m, k, q, o)
  BY <1>2, <1>3, <1>4, <1>5 DEF RowIsCalled
<1> QED
  BY <1>6

LEMMA RowCallsAre ==
    ASSUME CallsTyped, TreesTyped, NEW m \in Names, NEW k \in Keys,
           InsertRow(m, k) \/ UpdateRow(m, k) \/ EraseRow(m, k)
    PROVE  (\E q, o : RowIsCalled(m, k, q, o)) \/ (\E q : RowIsRewritten(m, k, q))
<1> DEFINE row == trees[m][k]
<1>1. m \in DOMAIN trees /\ row \in Rows /\ lock_id \in Nat /\ m \in Nat
  BY NamesAre DEF TreesTyped
<1>2. ~Present(row) => row = NoRow
  BY <1>1 DEF TreesTyped
<1>3. CASE row.op \in {"none", "update", "delete"} /\ Present(row) /\ (MarkRow(m, k, "update") \/ MarkRow(m, k, "delete"))
  <2>1. \A op \in {"update", "delete"} : op \in Fresh <=> row.op \in Fresh
    BY <1>3 DEF Fresh
  <2> QED
    BY <1>3, <2>1, MarkRowIs
<1>4. CASE row.op = "insert" /\ Present(row) /\ MarkRow(m, k, "deleted_insert")
  <2>1. "deleted_insert" \in Fresh <=> row.op \in Fresh
    BY <1>4 DEF Fresh
  <2> QED
    BY <1>4, <2>1, MarkRowIs
<1>5. CASE /\ ~Present(row)
           /\ trees' = [trees EXCEPT ![m][k] = [val |-> NewValue, op |-> "insert", id |-> lock_id]]
           /\ calls' = Append(calls, OnRow("insert", m, k, NoRow))
  <2> DEFINE q == [val |-> NewValue, op |-> "insert", id |-> lock_id]
             o == OnRow("insert", m, k, NoRow)
  <2>1. q \in Rows /\ Present(q) /\ q.op = "insert"
    BY <1>1, NewValueIsOne DEF Rows, Marks, Present
  <2>2. o \in RowOps /\ o.kind = "insert" /\ o.key = k /\ o.at = m /\ o.home = m
    BY <1>1, NewValueIsOne, NoRowIsARow DEF OnRow, RowOps, Marks
  <2>3. trees' = Put(trees, m, k, q) /\ calls' = Append(calls, o)
    BY <1>5 DEF Put
  <2> HIDE DEF q, o
  <2>4. RowIsCalled(m, k, q, o)
    BY <1>2, <1>5, <2>1, <2>2, <2>3 DEF RowIsCalled
  <2> QED
    BY <2>4
<1>6. CASE row.op = "insert" /\ trees' = [trees EXCEPT ![m][k].val = NewValue] /\ UNCHANGED calls
  <2> DEFINE q == [val |-> NewValue, op |-> "insert", id |-> row.id]
  <2>1. q \in Rows /\ Present(q) /\ q.op = "insert" /\ q.id = row.id
    BY <1>1, NewValueIsOne DEF Rows, Marks, Present
  <2>2. trees' = Put(trees, m, k, q)
    <3>1. q = [row EXCEPT !.val = NewValue]
      BY <1>1, <1>6 DEF Rows
    <3>2. trees[m] \in [Keys -> Rows]
      BY <1>1 DEF TreesTyped
    <3> QED
      BY <1>1, <1>6, <3>1, <3>2 DEF Put
  <2> HIDE DEF q
  <2>3. RowIsRewritten(m, k, q)
    BY <1>6, <2>1, <2>2 DEF RowIsRewritten
  <2> QED
    BY <2>3
<1>7. row.op = "delete" => Present(row)
  BY <1>2, NoRowIsARow
<1> QED
  BY <1>3, <1>4, <1>5, <1>6, <1>7 DEF InsertRow, UpdateRow, EraseRow

LEMMA AppendedIs ==
    ASSUME NEW S, NEW c \in Seq(S), NEW o, NEW d, d = Append(c, o)
    PROVE  /\ Len(c) \in Nat /\ Len(d) = Len(c) + 1
           /\ DOMAIN c = 1 .. Len(c) /\ DOMAIN d = 1 .. Len(c) + 1
           /\ \A i \in 1 .. Len(c) : d[i] = c[i] /\ c[i] \in S
           /\ d[Len(c) + 1] = o
           /\ o \in S => d \in Seq(S)
OBVIOUS

\* What there is in the list, and where.
LEMMA ListIs ==
    ASSUME CallsTyped
    PROVE  /\ Len(calls) \in Nat /\ DOMAIN calls = 1 .. Len(calls)
           /\ \A i \in RowCalls : i \in 1 .. Len(calls) /\ calls[i] \in RowOps
           /\ \A i \in 1 .. Len(calls) : i \notin RowCalls => calls[i] \in MapOps
           /\ \A S : Calls(S) \subseteq 1 .. Len(calls)
<1>1. \A i \in DOMAIN calls : calls[i] \in RowOps \cup MapOps
  BY DEF CallsTyped
<1>2. Len(calls) \in Nat /\ DOMAIN calls = 1 .. Len(calls)
  BY DEF CallsTyped
<1> QED
  BY <1>1, <1>2, CallsAreTwo DEF RowCalls, Calls

LEMMA RowIsCalledIn ==
    ASSUME CallsTyped, TreesTyped, NEW m \in Names, NEW k \in Keys, NEW q, NEW o,
           RowIsCalled(m, k, q, o)
    PROVE  LET n == Len(calls) IN
           /\ n \in Nat /\ Len(calls') = n + 1
           /\ calls' \in Seq(RowOps \cup MapOps)
           /\ DOMAIN calls = 1 .. n /\ DOMAIN calls' = 1 .. n + 1
           /\ \A i \in 1 .. n : calls'[i] = calls[i]
           /\ calls'[n + 1] = o /\ IsOnRow(o)
           /\ RowCalls' = RowCalls \cup {n + 1} /\ RowCalls \subseteq 1 .. n
           /\ Calls({"clear"})' = Calls({"clear"}) /\ Calls({"swap"})' = Calls({"swap"})
<1> DEFINE n == Len(calls)
<1>1. /\ n \in Nat /\ Len(calls') = n + 1
      /\ DOMAIN calls = 1 .. n /\ DOMAIN calls' = 1 .. n + 1
      /\ \A i \in 1 .. n : calls'[i] = calls[i]
      /\ calls'[n + 1] = o /\ calls' \in Seq(RowOps \cup MapOps)
  BY AppendedIs DEF CallsTyped, RowIsCalled
<1>2. IsOnRow(o) /\ o.kind \notin {"clear", "swap"}
  BY DEF RowIsCalled, RowOps, IsOnRow
<1> HIDE DEF n
<1>3. RowCalls' = {i \in DOMAIN calls' : IsOnRow(calls'[i])}
  BY DEF RowCalls, IsOnRow
<1>4. RowCalls' = RowCalls \cup {n + 1} /\ RowCalls \subseteq 1 .. n
  BY <1>1, <1>2, <1>3 DEF RowCalls
<1>5. Calls({"clear"})' = Calls({"clear"}) /\ Calls({"swap"})' = Calls({"swap"})
  BY <1>1, <1>2 DEF Calls
<1> QED
  BY <1>1, <1>2, <1>4, <1>5 DEF n

LEMMA RowIsPutIn ==
    ASSUME TreesTyped, NEW m \in Names, NEW k \in Keys, NEW q \in Rows, trees' = Put(trees, m, k, q),
           Present(q)
    PROVE  /\ m \in DOMAIN trees /\ DOMAIN trees' = DOMAIN trees
           /\ trees' \in [DOMAIN trees' -> [Keys -> Rows]]
           /\ \A x \in DOMAIN trees, j \in Keys :
                trees'[x][j] = IF x = m /\ j = k THEN q ELSE trees[x][j]
           /\ \A x \in DOMAIN trees', j \in Keys : ~Present(trees'[x][j]) => trees'[x][j] = NoRow
<1>1. m \in DOMAIN trees /\ trees \in [DOMAIN trees -> [Keys -> Rows]]
  BY DEF TreesTyped
<1>2. /\ DOMAIN trees' = DOMAIN trees
      /\ trees' \in [DOMAIN trees' -> [Keys -> Rows]]
      /\ \A x \in DOMAIN trees, j \in Keys :
                trees'[x][j] = IF x = m /\ j = k THEN q ELSE trees[x][j]
  BY <1>1, PutIs
<1> QED
  BY <1>1, <1>2 DEF TreesTyped

LEMMA TypedAfterRow ==
    ASSUME CallsTyped, TreesTyped, RowsAreFollowed, NEW m \in Names, NEW k \in Keys, NEW q, NEW o,
           RowIsCalled(m, k, q, o), lock_id' = lock_id
    PROVE  CallsTyped' /\ TreesTyped' /\ RowsAreFollowed'
<1> DEFINE n == Len(calls)
<1>1. /\ n \in Nat /\ Len(calls') = n + 1
      /\ calls' \in Seq(RowOps \cup MapOps)
      /\ \A i \in 1 .. n : calls'[i] = calls[i]
      /\ calls'[n + 1] = o
      /\ DOMAIN calls = 1 .. n /\ RowCalls' = RowCalls \cup {n + 1} /\ RowCalls \subseteq 1 .. n
      /\ Calls({"clear"})' = Calls({"clear"}) /\ Calls({"swap"})' = Calls({"swap"})
  BY RowIsCalledIn
<1>0. o.key = k /\ o.at = m /\ o.home = m /\ Present(q) /\ q.op = o.kind /\ o \in RowOps
  BY DEF RowIsCalled
<1>2. /\ m \in DOMAIN trees /\ DOMAIN trees' = DOMAIN trees
      /\ trees' \in [DOMAIN trees' -> [Keys -> Rows]]
      /\ \A x \in DOMAIN trees, j \in Keys :
                trees'[x][j] = IF x = m /\ j = k THEN q ELSE trees[x][j]
      /\ \A x \in DOMAIN trees', j \in Keys : ~Present(trees'[x][j]) => trees'[x][j] = NoRow
  BY RowIsPutIn DEF RowIsCalled
<1>3. CallsTyped'
  <2>1. \A i \in Calls({"clear"}) \cup Calls({"swap"}) : i \in 1 .. n
    BY <1>1 DEF Calls
  <2> HIDE DEF n
  <2> QED
    BY <1>1, <2>1 DEF CallsTyped
<1>4. TreesTyped'
  BY <1>1, <1>2 DEF TreesTyped
<1>5. RowsAreFollowed'
  <2> HIDE DEF n
  <2>1. ASSUME NEW i \in RowCalls'
        PROVE  /\ calls'[i].at = calls'[i].home /\ calls'[i].home \in DOMAIN trees
               /\ Present(trees'[calls'[i].home][calls'[i].key])
               /\ trees'[calls'[i].home][calls'[i].key].op # "none"
    <3>1. CASE i = n + 1
      <4>1. q.op # "none"
        BY <1>0 DEF RowOps
      <4> QED
        BY <1>0, <1>1, <1>2, <3>1, <4>1
    <3>2. CASE i # n + 1
      <4>1. i \in RowCalls /\ calls'[i] = calls[i]
        BY <1>1, <3>2
      <4>2. calls[i].key \in Keys
        BY <4>1, ListIs DEF RowOps
      <4>3. q.op # "none"
        BY <1>0 DEF RowOps
      <4> QED
        BY <1>0, <1>2, <4>1, <4>2, <4>3 DEF RowsAreFollowed
    <3> QED
      BY <3>1, <3>2
  <2> QED
    BY <1>2, <2>1 DEF RowsAreFollowed
<1> QED
  BY <1>3, <1>4, <1>5

LEMMA UndoneAfterRow ==
    ASSUME CallsTyped, TreesTyped, NEW m \in Names, NEW k \in Keys, NEW q, NEW o,
           RowIsCalled(m, k, q, o), CanBeUndone
    PROVE  CanBeUndone'
<1> DEFINE n == Len(calls)
<1>1. PICK t, h : IsHistory(t, h)
  BY DEF CanBeUndone
<1>2. /\ n \in Nat /\ Len(calls') = n + 1
      /\ \A i \in 1 .. n : calls'[i] = calls[i]
      /\ calls'[n + 1] = o /\ IsOnRow(o)
      /\ RowCalls' = RowCalls \cup {n + 1} /\ RowCalls \subseteq 1 .. n
  BY RowIsCalledIn
<1>3. o.key = k /\ o.home = m /\ q.op = o.kind /\ q \in Rows
  BY DEF RowIsCalled
<1>4. /\ m \in DOMAIN trees /\ DOMAIN trees' = DOMAIN trees
      /\ trees' \in [DOMAIN trees' -> [Keys -> Rows]]
      /\ \A x \in DOMAIN trees, j \in Keys :
                trees'[x][j] = IF x = m /\ j = k THEN q ELSE trees[x][j]
  BY RowIsPutIn DEF RowIsCalled
<1>n. PICK t2 : t2 = [i \in 0 .. n + 1 |-> IF i = n + 1 THEN Masked(trees)' ELSE t[i]]
  OBVIOUS
<1>h. PICK h2 : h2 = [i \in 0 .. n + 1 |-> IF i = n + 1 THEN [j \in 1 .. n + 1 |-> IF j = n + 1 THEN m ELSE h[n][j]]
                                       ELSE h[i]]
  OBVIOUS
<1>5. /\ t2[n + 1] = Masked(trees)' /\ h2[n + 1][n + 1] = m
      /\ \A j \in 1 .. n : h2[n + 1][j] = h[n][j]
      /\ \A i \in 0 .. n : t2[i] = t[i] /\ h2[i] = h[i]
      /\ 0 \in 0 .. n /\ n \in 0 .. n
  BY <1>2, <1>n, <1>h
<1>6. t[0] = Masked(FirstTrees) /\ t[n] = Masked(trees)
  BY <1>1 DEF IsHistory
<1> HIDE DEF n
<1>7. Masked(trees)' = [x \in DOMAIN trees |-> [j \in Keys |-> Mask(trees'[x][j])]]
  BY <1>4 DEF Masked, Mask
<1>8. UndoesRow(o, n + 1, t2[n], t2[n + 1], h2[n], h2[n + 1])
  <2>1. /\ t2[n] = Masked(trees) /\ DOMAIN t2[n] = DOMAIN trees /\ DOMAIN t2[n + 1] = DOMAIN trees
        /\ \A x \in DOMAIN trees, j \in Keys : t2[n][x][j] = Mask(trees[x][j]) /\ t2[n + 1][x][j] = Mask(trees'[x][j])
    BY <1>5, <1>6, <1>7 DEF Masked
  <2>2. ASSUME NEW x \in DOMAIN trees, NEW j \in Keys, ~(x = m /\ j = k)
        PROVE  t2[n][x][j] = t2[n + 1][x][j]
    BY <1>4, <2>1, <2>2
  <2>3. t2[n + 1][m][k] = Mask(q) /\ t2[n][m][k] = Mask(trees[m][k])
    BY <1>4, <2>1
  <2>4. o.kind = "insert" => t2[n][m][k] = NoRow
    BY <2>3, NoRowIsARow DEF RowIsCalled, Mask, Fresh
  <2>5. o.kind # "insert" => t2[n][m][k] = Mask([val |-> Mask(q).val, op |-> o.op, id |-> o.id])
    <3> SUFFICES ASSUME o.kind # "insert"
                 PROVE  t2[n][m][k] = Mask([val |-> Mask(q).val, op |-> o.op, id |-> o.id])
      OBVIOUS
    <3>1. /\ q.val = trees[m][k].val /\ o.op = trees[m][k].op /\ o.id = trees[m][k].id
          /\ o.kind \in Fresh <=> o.op \in Fresh
      BY DEF RowIsCalled
    <3>2. trees[m][k] \in Rows
      BY <1>4 DEF TreesTyped
    <3>3. o.op \in Marks /\ o.id \in Nat
      BY <3>1, <3>2 DEF Rows
    <3>4. Mask([val |-> Mask(q).val, op |-> o.op, id |-> o.id]) = Mask([val |-> q.val, op |-> o.op, id |-> o.id])
      BY <1>3, <3>1, <3>3, MaskTells
    <3>5. [val |-> q.val, op |-> o.op, id |-> o.id] = trees[m][k]
      BY <3>1, <3>2 DEF Rows
    <3> QED
      BY <2>3, <3>4, <3>5
  <2>6. o.kind # "insert" /\ t2[n + 1][m][k].op \in Fresh => o.op \in Fresh
    BY <1>3, <2>3, MaskTells DEF RowIsCalled
  <2>7. h2[n + 1][n + 1] = m /\ \A j \in 1 .. n : h2[n][j] = h2[n + 1][j]
    BY <1>5
  <2>8. (n + 1) - 1 = n
    BY <1>2
  <2> QED
    BY <1>3, <1>4, <2>1, <2>2, <2>3, <2>4, <2>5, <2>6, <2>7, <2>8 DEF UndoesRow
<1>9. ASSUME NEW i \in 1 .. n + 1
      PROVE  Undoes(calls'[i], i, t2[i - 1], t2[i], h2[i - 1], h2[i])
  <2>1. CASE i = n + 1
    <3>1. i - 1 = n
      BY <1>2, <2>1
    <3> QED
      BY <1>2, <1>8, <2>1, <3>1 DEF Undoes
  <2>2. CASE i # n + 1
    <3>1. i \in 1 .. n /\ i \in 0 .. n /\ i - 1 \in 0 .. n
      BY <1>2, <2>2
    <3>2. Undoes(calls[i], i, t[i - 1], t[i], h[i - 1], h[i])
      BY <1>1, <3>1 DEF IsHistory, n
    <3> QED
      BY <1>2, <1>5, <3>1, <3>2
  <2> QED
    BY <2>1, <2>2
<1>10. \A j \in RowCalls' : h2[n + 1][j] = calls'[j].home
  <2>1. \A j \in RowCalls : h[n][j] = calls[j].home
    BY <1>1 DEF IsHistory, n
  <2> QED
    BY <1>2, <1>3, <1>5, <2>1
<1>11. t2[0] = Masked(FirstTrees)
  BY <1>5, <1>6
<1>12. IsHistory(t2, h2)'
  BY <1>2, <1>5, <1>9, <1>10, <1>11 DEF IsHistory, Undoes, UndoesRow, UndoesMap, MovedTo, Masked
<1> QED
  BY <1>12 DEF CanBeUndone

\* As long as no maps are swapped: the shape of what there is to the row of k in m.
PlaceIsShaped(m, k) ==
    /\ OnPlace(m, k) = {} => trees[m][k] = Base(m, k)
    /\ \A i \in OnPlace(m, k) : IsShaped(i)

LEMMA ShapedPlaces ==
    ASSUME CallsTyped, Calls({"swap"}) = {}, CallsAreShaped, NEW m \in Names, NEW k \in Keys
    PROVE  PlaceIsShaped(m, k)
BY DEF CallsAreShaped, PlaceIsShaped, OnPlace

\* A row that nothing was done to is unmarked.
LEMMA BaseIsUnmarked ==
    ASSUME NEW m \in Names, NEW k \in Keys
    PROVE  Base(m, k).op = "none"
BY FirstTreesAre, NoRowIsARow DEF Base

LEMMA ShapedAfterRow ==
    ASSUME CallsTyped, TreesTyped, RowsAreFollowed, NEW m \in Names, NEW k \in Keys, NEW q, NEW o,
           RowIsCalled(m, k, q, o), CallsAreShaped
    PROVE  CallsAreShaped'
<1> DEFINE n == Len(calls)
<1>1. /\ n \in Nat
      /\ \A i \in 1 .. n : calls'[i] = calls[i]
      /\ calls'[n + 1] = o
      /\ RowCalls' = RowCalls \cup {n + 1} /\ RowCalls \subseteq 1 .. n
      /\ DOMAIN calls = 1 .. n
      /\ Calls({"clear"})' = Calls({"clear"}) /\ Calls({"swap"})' = Calls({"swap"})
  BY RowIsCalledIn
<1>2. o.key = k /\ o.at = m /\ o.home = m /\ Present(q) /\ q.op = o.kind /\ o \in RowOps
  BY DEF RowIsCalled
<1>3. /\ m \in DOMAIN trees
      /\ \A x \in DOMAIN trees, j \in Keys :
                trees'[x][j] = IF x = m /\ j = k THEN q ELSE trees[x][j]
  BY RowIsPutIn DEF RowIsCalled
<1>4. SUFFICES ASSUME Calls({"swap"})' = {}, Calls({"swap"}) = {}
               PROVE  CallsAreShaped'
  BY <1>1 DEF CallsAreShaped
<1> HIDE DEF n
<1>5. ASSUME NEW i \in RowCalls PROVE calls'[i] = calls[i] /\ i \in 1 .. n /\ i # n + 1
  <2>1. i \in 1 .. n
    BY <1>1
  <2>2. i # n + 1
    BY <1>1, <2>1
  <2> QED
    BY <1>1, <2>1, <2>2
<1>6. /\ \A x : ClearsOf(x)' = ClearsOf(x) /\ ClearsOf(x) \subseteq 1 .. n
      /\ \A x, j : Base(x, j)' = Base(x, j)
  <2>1. \A l \in Calls({"clear"}) : l \in 1 .. n
    BY <1>1 DEF Calls
  <2>2. \A x : ClearsOf(x)' = ClearsOf(x) /\ ClearsOf(x) \subseteq 1 .. n
    BY <1>1, <2>1 DEF ClearsOf
  <2> QED
    BY <2>2 DEF Base
<1>7. \A x, j : OnPlace(x, j)' = IF x = m /\ j = k THEN OnPlace(x, j) \cup {n + 1} ELSE OnPlace(x, j)
  <2> TAKE x, j
  <2>1. OnPlace(x, j)' = {i \in RowCalls' : calls'[i].home = x /\ calls'[i].key = j}
    BY DEF OnPlace
  <2> QED
    BY <1>1, <1>2, <1>5, <2>1 DEF OnPlace
<1>8. \A x, j : OnPlace(x, j) \subseteq 1 .. n
  BY <1>1 DEF OnPlace
<1>9. PlaceIsShaped(m, k)
  BY <1>4, ShapedPlaces
\* What was done to the row before is not the last, and an insert only when nothing was.
<1>10. o.kind = "insert" => OnPlace(m, k) = {} /\ Base(m, k) = NoRow
  <2>1. SUFFICES ASSUME o.kind = "insert" PROVE OnPlace(m, k) = {}
    BY <1>9 DEF PlaceIsShaped, RowIsCalled
  <2>2. ASSUME NEW i \in OnPlace(m, k) PROVE FALSE
    BY <2>1, <2>2, NoRowIsARow DEF RowIsCalled, OnPlace, RowsAreFollowed
  <2> QED
    BY <2>2
<1>11. ASSUME NEW i \in OnPlace(m, k) PROVE calls[i].kind # "deleted_insert"
  <2>1. SUFFICES ASSUME calls[i].kind = "deleted_insert" PROVE FALSE
    OBVIOUS
  <2>2. i \in RowCalls /\ calls[i].home = m /\ calls[i].key = k /\ IsShaped(i)
    BY <1>9 DEF PlaceIsShaped, OnPlace
  <2>3. trees[m][k].op = "deleted_insert"
    BY <2>1, <2>2 DEF IsShaped
  <2>4. o.kind # "insert"
    BY <1>10
  <2> QED
    BY <2>3, <2>4 DEF RowIsCalled
<1>12. ASSUME NEW i \in RowCalls', NEW l \in Calls({"clear"})', calls'[l].map = calls'[i].home
       PROVE  l < i
  <2>1. CASE i = n + 1
    <3>1. l \in 1 .. n
      BY <1>1 DEF Calls
    <3> QED
      BY <1>1, <2>1, <3>1
  <2>2. CASE i \in RowCalls
    <3>1. l \in Calls({"clear"}) /\ calls'[l] = calls[l]
      BY <1>1 DEF Calls
    <3>2. calls'[i] = calls[i]
      BY <1>5, <2>2
    <3>3. l \in ClearsOf(calls[i].home)
      BY <1>12, <3>1, <3>2 DEF ClearsOf
    <3> QED
      BY <1>4, <2>2, <3>3 DEF CallsAreShaped
  <2> QED
    BY <1>1, <2>1, <2>2
<1>13. \A x \in Names, j \in Keys : OnPlace(x, j)' = {} => trees'[x][j] = Base(x, j)'
  <2> TAKE x \in Names, j \in Keys
  <2>1. x \in DOMAIN trees
    BY DEF TreesTyped
  <2>2. x = m /\ j = k => OnPlace(x, j)' # {}
    BY <1>7
  <2> QED
    BY <1>3, <1>4, <1>6, <1>7, <2>1, <2>2 DEF CallsAreShaped
<1>14. ASSUME NEW i \in RowCalls', calls'[i].home \in Names
       PROVE  IsShaped(i)'
  <2>1. CASE i = n + 1
    <3>1. calls'[i] = o /\ trees'[m][k] = q
      BY <1>1, <1>3, <2>1
    <3>2. \A j \in OnPlace(m, k)' : j <= i
      BY <1>1, <1>7, <1>8, <2>1
    <3>3. o.kind = "insert" => \A j \in OnPlace(m, k)' : i <= j
      BY <1>7, <1>10, <1>1, <2>1
    <3> QED
      BY <1>2, <1>6, <1>10, <3>1, <3>2, <3>3 DEF IsShaped, IsLastOn, IsFirstOn
  <2>2. CASE i \in RowCalls /\ calls[i].home = m /\ calls[i].key = k
    <3>1. calls'[i] = calls[i] /\ i \in OnPlace(m, k) /\ i \in 1 .. n
      BY <1>5, <2>2 DEF OnPlace
    <3>2. IsShaped(i)
      BY <1>9, <3>1 DEF PlaceIsShaped
    <3>3. ~IsLastOn(i)'
      <4>1. n + 1 \in OnPlace(m, k)' /\ ~(n + 1 <= i)
        BY <1>1, <1>7, <3>1
      <4> QED
        BY <2>2, <3>1, <4>1 DEF IsLastOn
    <3>4. IsFirstOn(i) => IsFirstOn(i)'
      <4>1. i <= n + 1
        BY <1>1, <3>1
      <4>2. IsFirstOn(i) => \A j \in OnPlace(m, k)' : i <= j
        BY <1>7, <2>2, <4>1 DEF IsFirstOn
      <4> QED
        BY <2>2, <3>1, <4>2 DEF IsFirstOn
    <3> QED
      BY <1>6, <1>11, <2>2, <3>1, <3>2, <3>3, <3>4 DEF IsShaped
  <2>3. CASE i \in RowCalls /\ ~(calls[i].home = m /\ calls[i].key = k)
    <3>1. calls'[i] = calls[i] /\ calls[i].key \in Keys /\ calls[i].home \in DOMAIN trees
      BY <1>5, <2>3, ListIs DEF RowOps, RowsAreFollowed
    <3>2. trees'[calls[i].home][calls[i].key] = trees[calls[i].home][calls[i].key]
      BY <1>3, <2>3, <3>1
    <3>3. PICK x, j : x = calls[i].home /\ j = calls[i].key
      OBVIOUS
    <3>6. OnPlace(x, j)' = OnPlace(x, j)
      BY <1>7, <2>3, <3>3
    <3>4. (IsLastOn(i)' <=> IsLastOn(i)) /\ (IsFirstOn(i)' <=> IsFirstOn(i))
      <4>1. IsLastOn(i)' <=> \A l \in OnPlace(x, j)' : l <= i
        BY <3>1, <3>3 DEF IsLastOn, OnPlace
      <4>2. IsFirstOn(i)' <=> \A l \in OnPlace(x, j)' : i <= l
        BY <3>1, <3>3 DEF IsFirstOn, OnPlace
      <4> QED
        BY <3>3, <3>6, <4>1, <4>2 DEF IsLastOn, IsFirstOn
    <3>5. IsShaped(i)
      BY <1>4, <1>14, <2>3, <3>1 DEF CallsAreShaped
    <3> QED
      BY <1>6, <3>1, <3>2, <3>4, <3>5 DEF IsShaped
  <2> QED
    BY <1>1, <2>1, <2>2, <2>3
<1> QED
  BY <1>12, <1>13, <1>14 DEF CallsAreShaped, ClearsOf

\* All of it, when a row is called or rewritten.
LEMMA SoundAfterRow ==
    ASSUME Sound, NEW m \in Names, NEW k \in Keys, NEW q, NEW o,
           RowIsCalled(m, k, q, o), lock_id' = lock_id
    PROVE  Sound'
BY TypedAfterRow, UndoneAfterRow, ShapedAfterRow DEF Sound

LEMMA SoundAfterRewriting ==
    ASSUME Sound, NEW m \in Names, NEW k \in Keys, NEW q, RowIsRewritten(m, k, q), lock_id' = lock_id
    PROVE  Sound'
<1>1. CallsTyped /\ TreesTyped /\ RowsAreFollowed /\ CanBeUndone /\ CallsAreShaped
  BY DEF Sound
<1>2. calls' = calls /\ Present(q) /\ q.op = "insert" /\ trees[m][k].op = "insert" /\ q.id = trees[m][k].id
  BY DEF RowIsRewritten
<1>3. /\ m \in DOMAIN trees /\ DOMAIN trees' = DOMAIN trees
      /\ trees' \in [DOMAIN trees' -> [Keys -> Rows]]
      /\ \A x \in DOMAIN trees, j \in Keys :
                trees'[x][j] = IF x = m /\ j = k THEN q ELSE trees[x][j]
      /\ \A x \in DOMAIN trees', j \in Keys : ~Present(trees'[x][j]) => trees'[x][j] = NoRow
  BY <1>1, RowIsPutIn DEF RowIsRewritten
<1>4. CallsTyped'
  BY <1>1, <1>2 DEF CallsTyped, Calls
<1>5. TreesTyped'
  BY <1>1, <1>2, <1>3 DEF TreesTyped
<1>6. \A i \in RowCalls : calls[i].key \in Keys /\ calls[i].home \in DOMAIN trees
  BY <1>1, ListIs DEF RowOps, RowsAreFollowed
<1>7. \A x \in DOMAIN trees, j \in Keys : trees'[x][j].op = trees[x][j].op
  BY <1>2, <1>3
<1>8. RowsAreFollowed'
  <2>1. \A i \in RowCalls : Present(trees'[calls[i].home][calls[i].key])
    BY <1>1, <1>2, <1>3, <1>6 DEF RowsAreFollowed
  <2> QED
    BY <1>1, <1>2, <1>3, <1>6, <1>7, <2>1 DEF RowsAreFollowed, RowCalls
<1>9. CanBeUndone'
  <2>1. \A x \in DOMAIN trees, j \in Keys : Mask(trees'[x][j]) = Mask(trees[x][j])
    <3>1. Mask(q) = Mask(trees[m][k])
      BY <1>2 DEF Mask, Fresh
    <3> QED
      BY <1>3, <3>1
  <2>2. Masked(trees)' = [x \in DOMAIN trees |-> [j \in Keys |-> Mask(trees'[x][j])]]
    BY <1>3 DEF Masked, Mask
  <2>3. Masked(trees)' = Masked(trees)
    BY <2>1, <2>2 DEF Masked
  <2>4. PICK t, h : IsHistory(t, h)
    BY <1>1 DEF CanBeUndone
  <2>5. IsHistory(t, h)'
    BY <1>2, <2>3, <2>4 DEF IsHistory, RowCalls
  <2> QED
    BY <2>5 DEF CanBeUndone
<1>10. CallsAreShaped'
  <2>1. SUFFICES ASSUME Calls({"swap"}) = {} PROVE CallsAreShaped'
    BY <1>2 DEF CallsAreShaped, Calls
  <2>2. /\ RowCalls' = RowCalls
        /\ \A x : ClearsOf(x)' = ClearsOf(x)
        /\ \A x, j : OnPlace(x, j)' = OnPlace(x, j) /\ Base(x, j)' = Base(x, j)
    BY <1>2 DEF RowCalls, ClearsOf, Calls, OnPlace, Base
  <2>3. PlaceIsShaped(m, k)
    BY <1>1, <2>1, ShapedPlaces
  <2>4. OnPlace(m, k) # {}
    BY <1>2, <2>3, BaseIsUnmarked DEF PlaceIsShaped
  <2>5. \A x \in Names, j \in Keys : OnPlace(x, j) = {} => trees'[x][j] = Base(x, j)
    <3> TAKE x \in Names, j \in Keys
    <3>1. x \in DOMAIN trees
      BY <1>1 DEF TreesTyped
    <3> QED
      BY <1>1, <1>3, <2>1, <2>4, <3>1 DEF CallsAreShaped
  <2>6. ASSUME NEW i \in RowCalls, calls[i].home \in Names PROVE IsShaped(i)'
    <3>1. IsShaped(i)
      BY <1>1, <2>1, <2>6 DEF CallsAreShaped
    <3>2. trees'[calls[i].home][calls[i].key].op = trees[calls[i].home][calls[i].key].op
      BY <1>6, <1>7
    <3>3. (IsLastOn(i)' <=> IsLastOn(i)) /\ (IsFirstOn(i)' <=> IsFirstOn(i))
      BY <1>2 DEF IsLastOn, IsFirstOn, OnPlace, RowCalls
    <3> QED
      BY <1>2, <2>2, <3>1, <3>2, <3>3 DEF IsShaped
  <2>7. \A i \in RowCalls : \A l \in ClearsOf(calls[i].home) : l < i
    BY <1>1, <2>1 DEF CallsAreShaped
  <2> QED
    BY <1>2, <2>2, <2>5, <2>6, <2>7 DEF CallsAreShaped
<1> QED
  BY <1>4, <1>5, <1>8, <1>9, <1>10 DEF Sound

-----------------------------------------------------------------------------
\* Calls on a map

\* The same operation, wherever its row is.
SameCall(o, r) ==
    o.kind = r.kind /\ o.key = r.key /\ o.val = r.val /\ o.id = r.id /\ o.op = r.op
PlacedAt(r, x, y) == [r EXCEPT !.at = x, !.home = y]
LEMMA PlacesAreSet ==
    ASSUME NEW r \in RowOps, NEW x, NEW y, x \in Nat, y \in Nat, NEW u,
           u = PlacedAt(r, x, y)
    PROVE  u \in RowOps /\ SameCall(u, r) /\ u.at = x /\ u.home = y
<1>1. PICK v : v = [r EXCEPT !.at = x]
  OBVIOUS
<1>2. v \in RowOps /\ SameCall(v, r) /\ v.at = x
  BY <1>1 DEF RowOps, SameCall
<1>3. u = [v EXCEPT !.home = y]
  BY <1>1 DEF PlacedAt
<1>4. u \in RowOps /\ SameCall(u, v) /\ u.at = v.at /\ u.home = y
  BY <1>2, <1>3 DEF RowOps, SameCall
<1> QED
  BY <1>2, <1>4 DEF SameCall

LEMMA RedirectedIs ==
    ASSUME CallsTyped, NEW m, NEW w, m \in Nat, w \in Nat, NEW d, d = Redirected(calls, m, w)
    PROVE  /\ d \in Seq(RowOps \cup MapOps) /\ Len(d) = Len(calls)
           /\ \A i \in 1 .. Len(calls) : i \notin RowCalls => d[i] = calls[i]
           /\ \A i \in RowCalls :
                /\ d[i] \in RowOps /\ SameCall(d[i], calls[i])
                /\ d[i].at = MovedTo(calls[i].at, m, w) /\ d[i].home = MovedTo(calls[i].home, m, w)
<1>1. /\ Len(calls) \in Nat /\ DOMAIN calls = 1 .. Len(calls)
      /\ \A i \in RowCalls : i \in 1 .. Len(calls) /\ calls[i] \in RowOps
      /\ \A i \in 1 .. Len(calls) : i \notin RowCalls => calls[i] \in MapOps
  BY ListIs
<1>2. ASSUME NEW i \in 1 .. Len(calls), i \notin RowCalls PROVE d[i] = calls[i] /\ d[i] \in MapOps
  BY <1>1, <1>2 DEF Redirected, RowCalls
<1>3. ASSUME NEW i \in RowCalls
      PROVE  /\ d[i] \in RowOps /\ SameCall(d[i], calls[i])
             /\ d[i].at = MovedTo(calls[i].at, m, w) /\ d[i].home = MovedTo(calls[i].home, m, w)
  <2>1. PICK x, y : x = MovedTo(calls[i].at, m, w) /\ y = MovedTo(calls[i].home, m, w)
    OBVIOUS
  <2>2. calls[i] \in RowOps /\ calls[i].at \in Nat /\ calls[i].home \in Nat /\ IsOnRow(calls[i])
    BY <1>1 DEF RowOps, RowCalls
  <2>3. x \in Nat /\ y \in Nat
    BY <2>1, <2>2 DEF MovedTo
  <2>4. d[i] = PlacedAt(calls[i], x, y)
    BY <1>1, <2>1, <2>2 DEF Redirected, PlacedAt
  <2> QED
    <3>1. d[i] \in RowOps /\ SameCall(d[i], calls[i]) /\ d[i].at = x /\ d[i].home = y
      <4>1. PICK r : r = calls[i]
        OBVIOUS
      <4>2. PICK u : u = d[i]
        OBVIOUS
      <4>3. r \in RowOps /\ u = PlacedAt(r, x, y)
        BY <2>2, <2>4, <4>1, <4>2
      <4>4. u \in RowOps /\ SameCall(u, r) /\ u.at = x /\ u.home = y
        BY <2>3, <4>3, PlacesAreSet
      <4> QED
        BY <4>1, <4>2, <4>4
    <3> QED
      BY <2>1, <3>1
<1>4. DOMAIN d = 1 .. Len(calls)
  BY <1>1 DEF Redirected
<1>5. \A i \in 1 .. Len(calls) : d[i] \in RowOps \cup MapOps
  BY <1>2, <1>3
<1>6. d = [i \in 1 .. Len(calls) |-> d[i]]
  BY <1>1 DEF Redirected
<1> QED
  BY <1>1, <1>2, <1>3, <1>4, <1>5, <1>6

\* What clear() and swap() do: what was in one map is in the other.
MapIsCalled(c) ==
    /\ calls' = Append(Redirected(calls, c.map, c.old), c)
    /\ c \in MapOps /\ c.old # c.map
    /\ IF c.kind = "clear" THEN c.old = 3 + Len(calls) ELSE c.old = Other(c.map)
    /\ DOMAIN trees' = DOMAIN trees \cup {c.old}
    /\ trees' \in [DOMAIN trees' -> [Keys -> Rows]]
    /\ \A x \in DOMAIN trees', k \in Keys : ~Present(trees'[x][k]) => trees'[x][k] = NoRow
    /\ \A x \in DOMAIN trees : trees'[MovedTo(x, c.map, c.old)] = trees[x]
    /\ c.kind = "clear" => trees'[c.map] = NoRows

LEMMA MapIsCalledIn ==
    ASSUME CallsTyped, NEW c, MapIsCalled(c)
    PROVE  LET n == Len(calls) IN
           /\ n \in Nat /\ Len(calls') = n + 1
           /\ calls' \in Seq(RowOps \cup MapOps)
           /\ DOMAIN calls = 1 .. n /\ DOMAIN calls' = 1 .. n + 1
           /\ \A i \in 1 .. n : i \notin RowCalls => calls'[i] = calls[i]
           /\ \A i \in RowCalls :
                /\ calls'[i] \in RowOps /\ SameCall(calls'[i], calls[i])
                /\ calls'[i].at = MovedTo(calls[i].at, c.map, c.old)
                /\ calls'[i].home = MovedTo(calls[i].home, c.map, c.old)
           /\ calls'[n + 1] = c /\ ~IsOnRow(c) /\ n + 1 \notin 1 .. n
           /\ RowCalls' = RowCalls /\ RowCalls \subseteq 1 .. n
           /\ \A kind \in {"clear", "swap"} :
                Calls({kind})' = Calls({kind}) \cup IF c.kind = kind THEN {n + 1} ELSE {}
<1> DEFINE n == Len(calls)
<1>1. c.map \in Nat /\ c.old \in Nat /\ c \in RowOps \cup MapOps /\ ~IsOnRow(c)
  BY NamesAre DEF MapIsCalled, MapOps, IsOnRow
<1>2. PICK d : d = Redirected(calls, c.map, c.old)
  OBVIOUS
<1>3. /\ d \in Seq(RowOps \cup MapOps) /\ Len(d) = Len(calls)
      /\ \A i \in 1 .. Len(calls) : i \notin RowCalls => d[i] = calls[i]
      /\ \A i \in RowCalls :
           /\ d[i] \in RowOps /\ SameCall(d[i], calls[i])
           /\ d[i].at = MovedTo(calls[i].at, c.map, c.old)
           /\ d[i].home = MovedTo(calls[i].home, c.map, c.old)
  <2>1. PICK m, w : m = c.map /\ w = c.old
    OBVIOUS
  <2>2. m \in Nat /\ w \in Nat /\ d = Redirected(calls, m, w)
    BY <1>1, <1>2, <2>1
  <2>3. /\ d \in Seq(RowOps \cup MapOps) /\ Len(d) = Len(calls)
        /\ \A i \in 1 .. Len(calls) : i \notin RowCalls => d[i] = calls[i]
        /\ \A i \in RowCalls :
             /\ d[i] \in RowOps /\ SameCall(d[i], calls[i])
             /\ d[i].at = MovedTo(calls[i].at, m, w) /\ d[i].home = MovedTo(calls[i].home, m, w)
    BY <2>2, RedirectedIs
  <2> QED
    BY <2>1, <2>3
<1>4. /\ n \in Nat /\ Len(calls') = n + 1
      /\ DOMAIN calls' = 1 .. n + 1
      /\ \A i \in 1 .. n : calls'[i] = d[i]
      /\ calls'[n + 1] = c /\ calls' \in Seq(RowOps \cup MapOps)
  <2>1. calls' = Append(d, c)
    BY <1>2 DEF MapIsCalled
  <2> QED
    BY <1>1, <1>3, <2>1, AppendedIs
<1>5. DOMAIN calls = 1 .. n /\ RowCalls \subseteq 1 .. n /\ n + 1 \notin 1 .. n
  <2>1. DOMAIN calls = 1 .. n
    BY ListIs
  <2>2. n + 1 \notin 1 .. n
    BY <1>4
  <2> QED
    BY <2>1, <2>2 DEF RowCalls
<1> HIDE DEF n
<1>6. /\ \A i \in 1 .. n : i \notin RowCalls => calls'[i] = calls[i]
      /\ \A i \in RowCalls :
           /\ calls'[i] \in RowOps /\ SameCall(calls'[i], calls[i])
           /\ calls'[i].at = MovedTo(calls[i].at, c.map, c.old)
           /\ calls'[i].home = MovedTo(calls[i].home, c.map, c.old)
  <2>1. ASSUME NEW i \in 1 .. n, i \notin RowCalls PROVE calls'[i] = calls[i]
    BY <1>3, <1>4, <2>1 DEF n
  <2>2. ASSUME NEW i \in RowCalls
        PROVE  /\ calls'[i] \in RowOps /\ SameCall(calls'[i], calls[i])
               /\ calls'[i].at = MovedTo(calls[i].at, c.map, c.old)
               /\ calls'[i].home = MovedTo(calls[i].home, c.map, c.old)
    <3>1. calls'[i] = d[i]
      BY <1>4, <1>5
    <3> QED
      BY <1>3, <3>1
  <2> QED
    BY <2>1, <2>2
<1>7. \A i \in 1 .. n : calls'[i].kind = calls[i].kind
  BY <1>6 DEF SameCall
<1>8. RowCalls' = RowCalls
  <2>1. RowCalls' = {i \in DOMAIN calls' : calls'[i].kind \notin {"clear", "swap"}}
    BY DEF RowCalls, IsOnRow
  <2>2. c.kind \in {"clear", "swap"}
    BY <1>1 DEF IsOnRow
  <2>3. \A i \in 1 .. n + 1 : i = n + 1 \/ i \in 1 .. n
    BY <1>4
  <2>4. \A i \in 1 .. n : i \in 1 .. n + 1
    BY <1>4
  <2> QED
    BY <1>4, <1>5, <1>7, <2>1, <2>2, <2>3, <2>4 DEF RowCalls, IsOnRow
<1>9. ASSUME NEW kind
      PROVE  Calls({kind})' = Calls({kind}) \cup IF c.kind = kind THEN {n + 1} ELSE {}
  <2>1. Calls({kind})' = {i \in DOMAIN calls' : calls'[i].kind \in {kind}}
    BY DEF Calls
  <2>3. \A i \in 1 .. n + 1 : i = n + 1 \/ i \in 1 .. n
    BY <1>4
  <2>4. \A i \in 1 .. n : i \in 1 .. n + 1
    BY <1>4
  <2>5. n + 1 \in 1 .. n + 1
    BY <1>4
  <2> QED
    BY <1>4, <1>5, <1>7, <2>1, <2>3, <2>4, <2>5 DEF Calls
<1> QED
  BY <1>1, <1>4, <1>5, <1>6, <1>8, <1>9 DEF n

LEMMA TypedAfterMap ==
    ASSUME CallsTyped, TreesTyped, RowsAreFollowed, NEW c, MapIsCalled(c), lock_id' = lock_id
    PROVE  CallsTyped' /\ TreesTyped' /\ RowsAreFollowed'
<1> DEFINE n == Len(calls)
<1>1. /\ n \in Nat /\ Len(calls') = n + 1
      /\ calls' \in Seq(RowOps \cup MapOps)
      /\ DOMAIN calls = 1 .. n /\ DOMAIN calls' = 1 .. n + 1
      /\ \A i \in 1 .. n : i \notin RowCalls => calls'[i] = calls[i]
      /\ \A i \in RowCalls :
           /\ calls'[i] \in RowOps /\ SameCall(calls'[i], calls[i])
           /\ calls'[i].at = MovedTo(calls[i].at, c.map, c.old)
           /\ calls'[i].home = MovedTo(calls[i].home, c.map, c.old)
      /\ calls'[n + 1] = c /\ ~IsOnRow(c) /\ n + 1 \notin 1 .. n
      /\ RowCalls' = RowCalls /\ RowCalls \subseteq 1 .. n
      /\ \A kind \in {"clear", "swap"} :
           Calls({kind})' = Calls({kind}) \cup IF c.kind = kind THEN {n + 1} ELSE {}
  BY MapIsCalledIn
<1>2. /\ c \in MapOps /\ c.kind \in {"clear", "swap"} /\ c.map \in Names /\ c.old \in Nat
      /\ IF c.kind = "clear" THEN c.old = 3 + n ELSE c.old = Other(c.map)
      /\ DOMAIN trees' = DOMAIN trees \cup {c.old}
      /\ trees' \in [DOMAIN trees' -> [Keys -> Rows]]
      /\ \A x \in DOMAIN trees', k \in Keys : ~Present(trees'[x][k]) => trees'[x][k] = NoRow
      /\ \A x \in DOMAIN trees : trees'[MovedTo(x, c.map, c.old)] = trees[x]
  BY DEF MapIsCalled, MapOps
<1> HIDE DEF n
<1>3. CallsTyped'
  <2>1. ASSUME NEW i \in 1 .. n, calls[i].kind \in {"clear", "swap"} PROVE calls'[i] = calls[i]
    BY <1>1, <2>1 DEF RowCalls, IsOnRow
  <2>2. ASSUME NEW i \in Calls({"clear"})' PROVE calls'[i].old = 2 + i
    <3>1. CASE i = n + 1
      BY <1>1, <1>2, <3>1 DEF Calls
    <3>2. CASE i # n + 1
      <4>1. i \in Calls({"clear"}) /\ i \in 1 .. n
        BY <1>1, <2>2, <3>2 DEF Calls
      <4> QED
        BY <2>1, <4>1 DEF CallsTyped, Calls
    <3> QED
      BY <3>1, <3>2
  <2>3. ASSUME NEW i \in Calls({"swap"})' PROVE calls'[i].old = Other(calls'[i].map)
    <3>1. CASE i = n + 1
      BY <1>1, <1>2, <3>1 DEF Calls
    <3>2. CASE i # n + 1
      <4>1. i \in Calls({"swap"}) /\ i \in 1 .. n
        BY <1>1, <2>3, <3>2 DEF Calls
      <4> QED
        BY <2>1, <4>1 DEF CallsTyped, Calls
    <3> QED
      BY <3>1, <3>2
  <2> QED
    BY <1>1, <2>2, <2>3 DEF CallsTyped
<1>4. TreesTyped'
  <2>1. c.old \in 1 .. 3 + n
    BY <1>1, <1>2, NamesAre DEF Names
  <2>2. DOMAIN trees \subseteq 1 .. 2 + n
    BY DEF TreesTyped, n
  <2>3. DOMAIN trees' \subseteq 1 .. 2 + (n + 1)
    BY <1>1, <1>2, <2>1, <2>2
  <2> QED
    BY <1>1, <1>2, <2>3 DEF TreesTyped
<1>5. RowsAreFollowed'
  <2>1. ASSUME NEW i \in RowCalls
        PROVE  /\ calls'[i].at = calls'[i].home /\ calls'[i].home \in DOMAIN trees'
               /\ Present(trees'[calls'[i].home][calls'[i].key])
               /\ trees'[calls'[i].home][calls'[i].key].op # "none"
    <3>1. PICK x : x = calls[i].home
      OBVIOUS
    <3>2. /\ calls[i].at = x /\ x \in DOMAIN trees
          /\ Present(trees[x][calls[i].key]) /\ trees[x][calls[i].key].op # "none"
      BY <3>1 DEF RowsAreFollowed
    <3>3. calls'[i].at = MovedTo(x, c.map, c.old) /\ calls'[i].home = MovedTo(x, c.map, c.old)
      BY <1>1, <3>1, <3>2
    <3>4. trees'[MovedTo(x, c.map, c.old)] = trees[x]
      BY <1>2, <3>2
    <3>5. MovedTo(x, c.map, c.old) \in DOMAIN trees'
      BY <1>2, <3>2 DEF MovedTo, TreesTyped
    <3>6. calls'[i].key = calls[i].key
      BY <1>1 DEF SameCall
    <3> QED
      BY <3>2, <3>3, <3>4, <3>5, <3>6
  <2> QED
    BY <1>1, <2>1 DEF RowsAreFollowed
<1> QED
  BY <1>3, <1>4, <1>5

LEMMA UndoneAfterMap ==
    ASSUME CallsTyped, TreesTyped, NEW c, MapIsCalled(c), CanBeUndone
    PROVE  CanBeUndone'
<1> DEFINE n == Len(calls)
<1>1. PICK t, h : IsHistory(t, h)
  BY DEF CanBeUndone
<1>2. /\ n \in Nat /\ Len(calls') = n + 1
      /\ DOMAIN calls = 1 .. n /\ DOMAIN calls' = 1 .. n + 1
      /\ \A i \in 1 .. n : i \notin RowCalls => calls'[i] = calls[i]
      /\ \A i \in RowCalls :
           /\ calls'[i] \in RowOps /\ SameCall(calls'[i], calls[i])
           /\ calls'[i].at = MovedTo(calls[i].at, c.map, c.old)
           /\ calls'[i].home = MovedTo(calls[i].home, c.map, c.old)
      /\ calls'[n + 1] = c /\ ~IsOnRow(c) /\ n + 1 \notin 1 .. n
      /\ RowCalls' = RowCalls /\ RowCalls \subseteq 1 .. n
  BY MapIsCalledIn
<1>3. /\ c.old # c.map /\ c.map \in DOMAIN trees
      /\ DOMAIN trees' = DOMAIN trees \cup {c.old}
      /\ \A x \in DOMAIN trees : trees'[MovedTo(x, c.map, c.old)] = trees[x]
  BY DEF MapIsCalled, MapOps, TreesTyped
<1>n. PICK t2 : t2 = [i \in 0 .. n + 1 |-> IF i = n + 1 THEN Masked(trees)' ELSE t[i]]
  OBVIOUS
<1>h. PICK h2 : h2 = [i \in 0 .. n + 1 |->
                        IF i = n + 1 THEN [j \in 1 .. n |-> MovedTo(h[n][j], c.map, c.old)] ELSE h[i]]
  OBVIOUS
<1>5. /\ t2[n + 1] = Masked(trees)'
      /\ \A j \in 1 .. n : h2[n + 1][j] = MovedTo(h[n][j], c.map, c.old)
      /\ \A i \in 0 .. n : t2[i] = t[i] /\ h2[i] = h[i]
      /\ 0 \in 0 .. n /\ n \in 0 .. n
  BY <1>2, <1>n, <1>h
<1>6. t[0] = Masked(FirstTrees) /\ t[n] = Masked(trees)
  BY <1>1 DEF IsHistory
<1> HIDE DEF n
<1>7. Masked(trees)' = [x \in DOMAIN trees' |-> [j \in Keys |-> Mask(trees'[x][j])]]
  BY DEF Masked, Mask
<1>8. UndoesMap(c, n + 1, t2[n], t2[n + 1], h2[n], h2[n + 1])
  <2>1. /\ t2[n] = Masked(trees) /\ DOMAIN t2[n] = DOMAIN trees /\ DOMAIN t2[n + 1] = DOMAIN trees'
        /\ \A x \in DOMAIN trees : t2[n][x] = [j \in Keys |-> Mask(trees[x][j])]
        /\ \A x \in DOMAIN trees' : t2[n + 1][x] = [j \in Keys |-> Mask(trees'[x][j])]
    BY <1>5, <1>6, <1>7 DEF Masked
  <2>2. ASSUME NEW x \in DOMAIN t2[n]
        PROVE  x \in DOMAIN t2[n + 1] /\ t2[n][x] = t2[n + 1][MovedTo(x, c.map, c.old)]
    <3>1. PICK y : y = MovedTo(x, c.map, c.old)
      OBVIOUS
    <3>2. y \in DOMAIN trees' /\ x \in DOMAIN trees
      BY <1>3, <2>1, <3>1 DEF MovedTo
    <3>3. trees'[y] = trees[x]
      BY <1>3, <3>1, <3>2
    <3> QED
      BY <1>3, <2>1, <3>1, <3>2, <3>3
  <2>3. \A j \in 1 .. (n + 1) - 1 : h2[n][j] = MovedTo(h2[n + 1][j], c.map, c.old)
    <3>1. (n + 1) - 1 = n
      BY <1>2
    <3> QED
      BY <1>5, <3>1, MovesBack
  <2>4. c.old \in DOMAIN t2[n + 1] /\ c.map \in DOMAIN t2[n + 1]
    BY <1>3, <2>1
  <2> QED
    BY <1>3, <2>2, <2>3, <2>4 DEF UndoesMap
<1>9. ASSUME NEW i \in 1 .. n + 1
      PROVE  Undoes(calls'[i], i, t2[i - 1], t2[i], h2[i - 1], h2[i])
  <2>1. CASE i = n + 1
    <3>1. i - 1 = n
      BY <1>2, <2>1
    <3> QED
      BY <1>2, <1>8, <2>1, <3>1 DEF Undoes
  <2>2. CASE i # n + 1
    <3>1. i \in 1 .. n /\ i \in 0 .. n /\ i - 1 \in 0 .. n
      BY <1>2, <2>2
    <3>2. Undoes(calls[i], i, t[i - 1], t[i], h[i - 1], h[i])
      BY <1>1, <3>1 DEF IsHistory, n
    <3>3. Undoes(calls'[i], i, t[i - 1], t[i], h[i - 1], h[i])
      <4>1. CASE i \notin RowCalls
        BY <1>2, <3>1, <3>2, <4>1
      <4>2. CASE i \in RowCalls
        <5>1. SameCall(calls'[i], calls[i]) /\ IsOnRow(calls'[i]) /\ IsOnRow(calls[i])
          BY <1>2, <4>2 DEF RowCalls, SameCall, IsOnRow
        <5>2. UndoesRow(calls[i], i, t[i - 1], t[i], h[i - 1], h[i])
          BY <3>2, <5>1 DEF Undoes
        <5>3. UndoesRow(calls'[i], i, t[i - 1], t[i], h[i - 1], h[i])
          BY <5>1, <5>2 DEF UndoesRow, SameCall
        <5> QED
          BY <5>1, <5>3 DEF Undoes
      <4> QED
        BY <4>1, <4>2
    <3> QED
      BY <1>5, <3>1, <3>3
  <2> QED
    BY <2>1, <2>2
<1>10. \A j \in RowCalls' : h2[n + 1][j] = calls'[j].home
  <2>1. \A j \in RowCalls : h[n][j] = calls[j].home
    BY <1>1 DEF IsHistory, n
  <2> QED
    BY <1>2, <1>5, <2>1
<1>11. t2[0] = Masked(FirstTrees)
  BY <1>5, <1>6
<1>12. IsHistory(t2, h2)'
  BY <1>2, <1>5, <1>9, <1>10, <1>11 DEF IsHistory, Undoes, UndoesRow, UndoesMap, MovedTo, Masked
<1> QED
  BY <1>12 DEF CanBeUndone

LEMMA ShapedAfterMap ==
    ASSUME CallsTyped, TreesTyped, RowsAreFollowed, NEW c, MapIsCalled(c), CallsAreShaped
    PROVE  CallsAreShaped'
<1> DEFINE n == Len(calls)
<1>1. /\ n \in Nat /\ Len(calls') = n + 1
      /\ DOMAIN calls = 1 .. n /\ DOMAIN calls' = 1 .. n + 1
      /\ \A i \in 1 .. n : i \notin RowCalls => calls'[i] = calls[i]
      /\ \A i \in RowCalls :
           /\ calls'[i] \in RowOps /\ SameCall(calls'[i], calls[i])
           /\ calls'[i].at = MovedTo(calls[i].at, c.map, c.old)
           /\ calls'[i].home = MovedTo(calls[i].home, c.map, c.old)
      /\ calls'[n + 1] = c /\ ~IsOnRow(c) /\ n + 1 \notin 1 .. n
      /\ RowCalls' = RowCalls /\ RowCalls \subseteq 1 .. n
      /\ \A kind \in {"clear", "swap"} :
           Calls({kind})' = Calls({kind}) \cup IF c.kind = kind THEN {n + 1} ELSE {}
  BY MapIsCalledIn
<1>2. /\ c.kind \in {"clear", "swap"} /\ c.map \in Names
      /\ c.kind = "clear" => c.old = 3 + n
      /\ DOMAIN trees' = DOMAIN trees \cup {c.old} /\ c.old # c.map
      /\ \A x \in DOMAIN trees : trees'[MovedTo(x, c.map, c.old)] = trees[x]
      /\ c.kind = "clear" => trees'[c.map] = NoRows
  BY DEF MapIsCalled, MapOps
<1>3. DOMAIN trees \subseteq 1 .. 2 + n /\ Names \subseteq DOMAIN trees
  BY DEF TreesTyped
<1> HIDE DEF n
<1>4. SUFFICES ASSUME Calls({"swap"})' = {}, Calls({"swap"}) = {}, c.kind = "clear"
               PROVE  CallsAreShaped'
  <2>1. Calls({"swap"})' = Calls({"swap"}) \cup IF c.kind = "swap" THEN {n + 1} ELSE {}
    BY <1>1
  <2> QED
    BY <1>2, <2>1 DEF CallsAreShaped
<1>5. c.old = 3 + n /\ c.old \notin DOMAIN trees /\ c.old \notin Names
  BY <1>1, <1>2, <1>3, <1>4
<1>6. /\ \A i \in RowCalls : calls'[i].home \in Names =>
            /\ calls'[i].home = calls[i].home /\ calls[i].home # c.map
      /\ \A i \in RowCalls : calls[i].home \in Names /\ calls[i].home # c.map =>
            calls'[i].home = calls[i].home
      /\ \A i \in RowCalls : calls'[i].home # c.map
  <2> SUFFICES ASSUME NEW i \in RowCalls
               PROVE  /\ calls'[i].home \in Names =>
                            calls'[i].home = calls[i].home /\ calls[i].home # c.map
                      /\ calls[i].home \in Names /\ calls[i].home # c.map =>
                            calls'[i].home = calls[i].home
                      /\ calls'[i].home # c.map
    OBVIOUS
  <2>1. calls[i].home # c.old
    BY <1>5 DEF RowsAreFollowed
  <2>2. calls'[i].home = MovedTo(calls[i].home, c.map, c.old)
    BY <1>1
  <2> QED
    BY <1>2, <1>5, <2>1, <2>2 DEF MovedTo
<1>7. Calls({"clear"})' = Calls({"clear"}) \cup {n + 1}
  BY <1>1, <1>4
<1>8. \A i \in Calls({"clear"}) : calls'[i] = calls[i] /\ i \in 1 .. n
  BY <1>1 DEF Calls, RowCalls, IsOnRow
<1>9. /\ \A x : x # c.map => ClearsOf(x)' = ClearsOf(x)
      /\ \A x : ClearsOf(x)' # {} <=> ClearsOf(x) # {} \/ x = c.map
  <2>1. \A x : ClearsOf(x)' = ClearsOf(x) \cup IF x = c.map THEN {n + 1} ELSE {}
    <3> TAKE x
    <3>1. ClearsOf(x)' = {l \in Calls({"clear"})' : calls'[l].map = x}
      BY DEF ClearsOf
    <3> QED
      BY <1>1, <1>7, <1>8, <3>1 DEF ClearsOf
  <2> QED
    BY <2>1
<1>10. \A x, j : x \in Names /\ x # c.map => OnPlace(x, j)' = OnPlace(x, j) /\ Base(x, j)' = Base(x, j)
  <2> TAKE x, j
  <2> SUFFICES ASSUME x \in Names, x # c.map
               PROVE  OnPlace(x, j)' = OnPlace(x, j) /\ Base(x, j)' = Base(x, j)
    OBVIOUS
  <2>1. OnPlace(x, j)' = {i \in RowCalls : calls'[i].home = x /\ calls'[i].key = j}
    BY <1>1 DEF OnPlace
  <2>2. \A i \in RowCalls : calls'[i].key = calls[i].key
    BY <1>1 DEF SameCall
  <2>3. \A i \in RowCalls : calls'[i].home = x <=> calls[i].home = x
    BY <1>6
  <2> QED
    BY <1>9, <2>1, <2>2, <2>3 DEF OnPlace, Base
<1>11. ASSUME NEW i \in RowCalls', NEW l \in Calls({"clear"})', calls'[l].map = calls'[i].home
       PROVE  l < i
  <2>1. i \in RowCalls
    BY <1>1
  <2>2. calls'[l].map \in Names
    <3>1. l = n + 1 => calls'[l].map \in Names
      BY <1>1, <1>2
    <3>2. l # n + 1 => calls'[l].map \in Names
      <4> SUFFICES ASSUME l # n + 1 PROVE calls'[l].map \in Names
        OBVIOUS
      <4>1. l \in Calls({"clear"}) /\ calls'[l] = calls[l] /\ l \in 1 .. n
        BY <1>7, <1>8
      <4>2. l \notin RowCalls
        BY <4>1 DEF Calls, RowCalls, IsOnRow
      <4>3. calls[l] \in MapOps
        BY <4>1, <4>2, ListIs DEF n
      <4> QED
        BY <4>1, <4>3 DEF MapOps
    <3> QED
      BY <3>1, <3>2
  <2>3. calls'[i].home = calls[i].home /\ calls[i].home # c.map
    BY <1>6, <1>11, <2>1, <2>2
  <2>4. l # n + 1
    BY <1>1, <1>11, <2>3
  <2>5. l \in Calls({"clear"}) /\ calls'[l] = calls[l]
    BY <1>7, <1>8, <2>4
  <2>6. l \in ClearsOf(calls[i].home)
    BY <1>11, <2>3, <2>5 DEF ClearsOf
  <2> QED
    BY <1>4, <2>1, <2>6 DEF CallsAreShaped
<1>12. ASSUME NEW x \in Names, NEW j \in Keys, OnPlace(x, j)' = {}
       PROVE  trees'[x][j] = Base(x, j)'
  <2>1. CASE x = c.map
    <3>1. trees'[x][j] = NoRow
      BY <1>2, <1>4, <2>1 DEF NoRows
    <3>2. Base(x, j)' = NoRow
      BY <1>9, <2>1 DEF Base
    <3> QED
      BY <3>1, <3>2
  <2>2. CASE x # c.map
    <3>1. OnPlace(x, j) = {} /\ Base(x, j)' = Base(x, j)
      BY <1>10, <1>12, <2>2
    <3>2. trees'[x] = trees[x]
      <4>1. MovedTo(x, c.map, c.old) = x /\ x \in DOMAIN trees
        BY <1>3, <1>5, <2>2 DEF MovedTo
      <4> QED
        BY <1>2, <4>1
    <3> QED
      BY <1>4, <3>1, <3>2 DEF CallsAreShaped
  <2> QED
    BY <2>1, <2>2
<1>13. ASSUME NEW i \in RowCalls', calls'[i].home \in Names
       PROVE  IsShaped(i)'
  <2>1. i \in RowCalls /\ SameCall(calls'[i], calls[i])
    BY <1>1
  <2>2. PICK x, j : x = calls[i].home /\ j = calls[i].key
    OBVIOUS
  <2>3. calls'[i].home = x /\ x # c.map /\ x \in Names /\ calls'[i].key = j /\ calls'[i].kind = calls[i].kind
    BY <1>6, <1>13, <2>1, <2>2 DEF SameCall
  <2>4. OnPlace(x, j)' = OnPlace(x, j) /\ Base(x, j)' = Base(x, j)
    BY <1>10, <2>3
  <2>5. (IsLastOn(i)' <=> IsLastOn(i)) /\ (IsFirstOn(i)' <=> IsFirstOn(i))
    <3>1. IsLastOn(i)' <=> \A l \in OnPlace(x, j)' : l <= i
      BY <2>3 DEF IsLastOn, OnPlace
    <3>2. IsFirstOn(i)' <=> \A l \in OnPlace(x, j)' : i <= l
      BY <2>3 DEF IsFirstOn, OnPlace
    <3> QED
      BY <2>2, <2>4, <3>1, <3>2 DEF IsLastOn, IsFirstOn
  <2>6. IsShaped(i)
    BY <1>4, <2>1, <2>2, <2>3 DEF CallsAreShaped
  <2>7. trees'[x] = trees[x]
    <3>1. MovedTo(x, c.map, c.old) = x /\ x \in DOMAIN trees
      BY <1>3, <1>5, <2>3 DEF MovedTo
    <3> QED
      BY <1>2, <3>1
  <2>8. /\ IsLastOn(i)' => trees'[x][j].op = calls[i].kind
        /\ calls[i].kind = "insert" => IsFirstOn(i)' /\ Base(x, j)' = NoRow
        /\ calls[i].kind = "deleted_insert" => IsLastOn(i)'
    BY <2>2, <2>4, <2>5, <2>6, <2>7 DEF IsShaped
  <2> QED
    BY <2>3, <2>8 DEF IsShaped, Base, ClearsOf, Calls
<1> QED
  BY <1>11, <1>12, <1>13 DEF CallsAreShaped, ClearsOf

LEMMA SoundAfterMap ==
    ASSUME Sound, NEW c, MapIsCalled(c), lock_id' = lock_id
    PROVE  Sound'
BY TypedAfterMap, UndoneAfterMap, ShapedAfterMap DEF Sound

LEMMA ClearIsCalled ==
    ASSUME CallsTyped, TreesTyped, NEW m \in Names, ClearMap(m)
    PROVE  \E c : MapIsCalled(c)
<1>1. PICK c : c = [kind |-> "clear", map |-> m, old |-> OldValues]
  OBVIOUS
<1>2. Len(calls) \in Nat /\ OldValues = 3 + Len(calls) /\ m \in DOMAIN trees /\ DOMAIN trees \subseteq 1 .. 2 + Len(calls)
  BY ListIs DEF OldValues, TreesTyped
<1>3. OldValues \in Nat /\ OldValues \notin DOMAIN trees
  BY <1>2
<1>4. c \in MapOps /\ c.kind = "clear" /\ c.old = OldValues /\ c.map = m /\ c.old # c.map
  BY <1>1, <1>2, <1>3 DEF MapOps
<1>5. trees' = [x \in DOMAIN trees \cup {OldValues} |->
                    IF x = m THEN NoRows ELSE IF x = OldValues THEN trees[m] ELSE trees[x]]
  BY DEF ClearMap
<1>6. NoRows \in [Keys -> Rows]
  BY NoRowIsARow DEF NoRows
<1>7. \A x \in DOMAIN trees : trees[x] \in [Keys -> Rows]
  BY DEF TreesTyped
<1>8. DOMAIN trees' = DOMAIN trees \cup {c.old} /\ trees'[m] = NoRows
  BY <1>2, <1>4, <1>5
<1>9. trees' \in [DOMAIN trees' -> [Keys -> Rows]]
  BY <1>2, <1>4, <1>5, <1>6, <1>7, <1>8
<1>10. \A x \in DOMAIN trees : trees'[MovedTo(x, m, OldValues)] = trees[x]
  BY <1>2, <1>3, <1>5 DEF MovedTo
<1>11. \A x \in DOMAIN trees', k \in Keys : ~Present(trees'[x][k]) => trees'[x][k] = NoRow
  <2>1. \A k \in Keys : NoRows[k] = NoRow
    BY DEF NoRows
  <2> QED
    BY <1>2, <1>5, <2>1 DEF TreesTyped
<1>12. calls' = Append(Redirected(calls, c.map, c.old), c)
  BY <1>1, <1>4 DEF ClearMap
<1> QED
  BY <1>2, <1>4, <1>8, <1>9, <1>10, <1>11, <1>12 DEF MapIsCalled

LEMMA SwapIsCalled ==
    ASSUME CallsTyped, TreesTyped, NEW m \in Names, SwapMaps(m)
    PROVE  \E c : MapIsCalled(c)
<1>1. PICK c : c = [kind |-> "swap", map |-> m, old |-> Other(m)]
  OBVIOUS
<1>2. Other(m) \in Names /\ Other(m) # m /\ Other(m) \in Nat /\ m \in DOMAIN trees /\ Other(m) \in DOMAIN trees
  BY NamesAre DEF TreesTyped
<1>3. c \in MapOps /\ c.kind = "swap" /\ c.old = Other(m) /\ c.map = m /\ c.old # c.map
  BY <1>1, <1>2 DEF MapOps
<1>4. PICK w : w = Other(m)
  OBVIOUS
<1>5. trees' = [trees EXCEPT ![m] = trees[w], ![w] = trees[m]]
  BY <1>4 DEF SwapMaps
<1>6. /\ DOMAIN trees' = DOMAIN trees
      /\ \A x \in DOMAIN trees : trees'[x] = IF x = w THEN trees[m] ELSE IF x = m THEN trees[w] ELSE trees[x]
  BY <1>2, <1>4, <1>5
<1>7. \A x \in DOMAIN trees : trees[x] \in [Keys -> Rows]
  BY DEF TreesTyped
<1>8. trees' \in [DOMAIN trees' -> [Keys -> Rows]]
  BY <1>2, <1>4, <1>5, <1>6, <1>7
<1>9. \A x \in DOMAIN trees : trees'[MovedTo(x, m, w)] = trees[x]
  BY <1>2, <1>4, <1>6 DEF MovedTo
<1>10. \A x \in DOMAIN trees', k \in Keys : ~Present(trees'[x][k]) => trees'[x][k] = NoRow
  BY <1>2, <1>4, <1>6 DEF TreesTyped
<1>11. calls' = Append(Redirected(calls, c.map, c.old), c)
  BY <1>1, <1>3 DEF SwapMaps
<1>12. DOMAIN trees' = DOMAIN trees \cup {c.old}
  BY <1>2, <1>3, <1>6
<1> QED
  BY <1>3, <1>4, <1>8, <1>9, <1>10, <1>11, <1>12 DEF MapIsCalled

\* Every call keeps the transaction sound.
LEMMA SoundAfterCall ==
    ASSUME Sound, CallMap
    PROVE  Sound'
<1>1. CallsTyped /\ TreesTyped
  BY DEF Sound
<1>2. lock_id' = lock_id
  BY DEF CallMap
<1>3. PICK m \in Names :
        \/ \E k \in Keys : InsertRow(m, k) \/ UpdateRow(m, k) \/ EraseRow(m, k)
        \/ ClearMap(m) \/ SwapMaps(m)
  BY DEF CallMap
<1>4. CASE \E k \in Keys : InsertRow(m, k) \/ UpdateRow(m, k) \/ EraseRow(m, k)
  <2>1. PICK k \in Keys : InsertRow(m, k) \/ UpdateRow(m, k) \/ EraseRow(m, k)
    BY <1>4
  <2>2. CASE \E q, o : RowIsCalled(m, k, q, o)
    BY <1>2, <2>2, SoundAfterRow
  <2>3. CASE \E q : RowIsRewritten(m, k, q)
    BY <1>2, <2>3, SoundAfterRewriting
  <2> QED
    BY <1>1, <2>1, <2>2, <2>3, RowCallsAre
<1>5. CASE ClearMap(m)
  BY <1>1, <1>2, <1>5, ClearIsCalled, SoundAfterMap
<1>6. CASE SwapMaps(m)
  BY <1>1, <1>2, <1>6, SwapIsCalled, SoundAfterMap
<1> QED
  BY <1>3, <1>4, <1>5, <1>6

\* At the start there are no calls.
LEMMA SoundAtTheStart ==
    ASSUME calls = <<>>, trees = FirstTrees, lock_id \in Nat
    PROVE  Sound
<1>1. /\ Len(calls) = 0 /\ DOMAIN calls = {} /\ RowCalls = {} /\ \A S : Calls(S) = {}
  BY DEF RowCalls, Calls
<1>2. CallsTyped
  BY <1>1 DEF CallsTyped
<1>3. TreesTyped
  <2>1. Names = 1 .. 2
    BY DEF Names
  <2> QED
    BY <1>1, <2>1, FirstTreesAre DEF TreesTyped
<1>4. CanBeUndone
  <2>1. IsHistory([i \in {0} |-> Masked(trees)], <<>>)
    <3>1. 1 .. 0 = {}
      OBVIOUS
    <3> QED
      BY <1>1, <3>1 DEF IsHistory
  <2> QED
    BY <2>1 DEF CanBeUndone
<1>5. CallsAreShaped
  BY <1>1 DEF CallsAreShaped, Base, ClearsOf
<1>6. RowsAreFollowed
  BY <1>1 DEF RowsAreFollowed
<1> QED
  BY <1>2, <1>3, <1>4, <1>5, <1>6 DEF Sound

-----------------------------------------------------------------------------
\* Commit, rollback and redo go through the list

RedoStep(x, i) == IF Unreadable(i) THEN x ELSE RedoCall(x, record[i])
Worked(w, x, i) ==
    CASE w = "commit"   -> CommitCall(x, calls[i])
      [] w = "rollback" -> RollbackCall(x, Len(calls) + 1 - i)
      [] w = "redo"     -> RedoStep(x, i)
Runs(w, n, base, g) == g[0] = base /\ \A i \in 1 .. n : g[i] = Worked(w, g[i - 1], i)
Goes(w, n, base, f) == f = [i \in 0 .. n |-> IF i = 0 THEN base ELSE Worked(w, f[i - 1], i)]

LEMMA ItRuns ==
    ASSUME NEW w, NEW n \in Nat, NEW base
    PROVE  Runs(w, n, base, CHOOSE f : Goes(w, n, base, f))
<1> DEFINE Partial(m, g) == DOMAIN g = 0 .. m /\ Runs(w, m, base, g)
           S == {m \in 0 .. n : \E g : Partial(m, g)}
<1>1. 0 \in S
  <2>1. Partial(0, [i \in 0 .. 0 |-> base])
    BY DEF Runs
  <2>2. 0 \in 0 .. n
    OBVIOUS
  <2> QED
    BY <2>1, <2>2
<1>2. ASSUME NEW m \in 0 .. n, m \in S, m < n
      PROVE  m + 1 \in S
  <2>1. PICK g : Partial(m, g)
    BY <1>2
  <2> DEFINE f == [i \in 0 .. m + 1 |-> IF i <= m THEN g[i] ELSE Worked(w, g[i - 1], i)]
  <2>2. DOMAIN f = 0 .. m + 1 /\ f[0] = base
    BY <2>1 DEF Runs
  <2>3. \A i \in 1 .. m + 1 : f[i] = Worked(w, f[i - 1], i)
    <3> TAKE i \in 1 .. m + 1
    <3>1. i - 1 \in 0 .. m /\ i \in 0 .. m + 1 /\ i - 1 \in 0 .. m + 1
      OBVIOUS
    <3>2. f[i - 1] = g[i - 1]
      BY <3>1
    <3>3. CASE i <= m
      <4>1. i \in 1 .. m /\ f[i] = g[i]
        BY <3>1, <3>3
      <4> HIDE DEF f
      <4> QED
        BY <2>1, <3>2, <4>1 DEF Runs
    <3>4. CASE ~(i <= m)
      <4>1. f[i] = Worked(w, g[i - 1], i)
        BY <3>1, <3>4
      <4> HIDE DEF f
      <4> QED
        BY <3>2, <4>1
    <3> QED
      BY <3>3, <3>4
  <2>4. m + 1 \in 0 .. n
    BY <1>2
  <2>5. Partial(m + 1, f)
    <3> HIDE DEF f
    <3> QED
      BY <2>2, <2>3 DEF Runs
  <2> QED
    BY <2>4, <2>5
<1>3. PICK g : Partial(n, g)
  <2> HIDE DEF S
  <2>1. S \subseteq 0 .. n
    BY DEF S
  <2>2. \A i \in 0 .. n : i \in S /\ i < n => i + 1 \in S
    BY <1>2
  <2>3. S = 0 .. n
    BY <1>1, <2>1, <2>2, UpTo
  <2>4. n \in S
    BY <2>3
  <2> QED
    BY <2>4 DEF S
<1>4. Goes(w, n, base, [i \in 0 .. n |-> g[i]])
  <2> DEFINE f == [i \in 0 .. n |-> g[i]]
  <2>1. \A i \in 0 .. n : f[i] = IF i = 0 THEN base ELSE Worked(w, f[i - 1], i)
    <3> TAKE i \in 0 .. n
    <3>1. CASE i = 0
      BY <1>3, <3>1 DEF Runs
    <3>2. CASE i # 0
      <4>1. i \in 1 .. n /\ i - 1 \in 0 .. n
        BY <3>2
      <4>2. f[i] = g[i] /\ f[i - 1] = g[i - 1]
        BY <4>1
      <4>3. g[i] = Worked(w, g[i - 1], i)
        BY <1>3, <4>1 DEF Runs
      <4> HIDE DEF f
      <4> QED
        BY <3>2, <4>2, <4>3
    <3> QED
      BY <3>1, <3>2
  <2>2. f = [i \in 0 .. n |-> f[i]]
    OBVIOUS
  <2>3. Goes(w, n, base, f)
    <3> HIDE DEF f
    <3> QED
      BY <2>1, <2>2 DEF Goes
  <2> QED
    BY <2>3
<1> DEFINE h == CHOOSE f : Goes(w, n, base, f)
<1>5. Goes(w, n, base, h)
  BY <1>4
<1> HIDE DEF h
<1>6. \A i \in 0 .. n : h[i] = IF i = 0 THEN base ELSE Worked(w, h[i - 1], i)
  BY <1>5 DEF Goes
<1>7. 0 \in 0 .. n /\ \A i \in 1 .. n : i \in 0 .. n /\ i # 0
  OBVIOUS
<1>8. Runs(w, n, base, h)
  BY <1>6, <1>7 DEF Runs
<1> QED
  BY <1>8 DEF h

LEMMA RollbackRuns ==
    ASSUME Len(calls) \in Nat
    PROVE  \E g : /\ g[0] = AllMaps
                  /\ \A i \in 1 .. Len(calls) : g[i] = RollbackCall(g[i - 1], Len(calls) + 1 - i)
                  /\ RolledBackMaps = g[Len(calls)]
<1> DEFINE n == Len(calls)
           G(f) == f = [i \in 0 .. n |-> IF i = 0 THEN AllMaps ELSE RollbackCall(f[i - 1], n + 1 - i)]
<1>1. \A x, i : Worked("rollback", x, i) = RollbackCall(x, n + 1 - i)
  BY DEF Worked
<1>2. \A f : Goes("rollback", n, AllMaps, f) <=> G(f)
  BY <1>1 DEF Goes
<1>3. (CHOOSE f : Goes("rollback", n, AllMaps, f)) = (CHOOSE f : G(f))
  <2> HIDE DEF G, n
  <2> QED
    BY <1>2
<1>4. RolledBackMaps = (CHOOSE f : G(f))[n]
  BY DEF RolledBackMaps
<1>5. Runs("rollback", n, AllMaps, CHOOSE f : Goes("rollback", n, AllMaps, f))
  BY ItRuns
<1>6. PICK g : g = (CHOOSE f : G(f))
  OBVIOUS
<1>7. Runs("rollback", n, AllMaps, g)
  <2> HIDE DEF G, n
  <2> QED
    BY <1>3, <1>5, <1>6
<1>8. g[0] = AllMaps /\ \A i \in 1 .. n : g[i] = RollbackCall(g[i - 1], n + 1 - i)
  BY <1>1, <1>7 DEF Runs
<1> HIDE DEF G
<1> QED
  BY <1>4, <1>6, <1>8

LEMMA CommitRuns ==
    ASSUME Len(calls) \in Nat
    PROVE  \E g : /\ g[0] = AllMaps
                  /\ \A i \in 1 .. Len(calls) : g[i] = CommitCall(g[i - 1], calls[i])
                  /\ CommittedMaps = g[Len(calls)]
<1> DEFINE n == Len(calls)
           G(f) == f = [i \in 0 .. n |-> IF i = 0 THEN AllMaps ELSE CommitCall(f[i - 1], calls[i])]
<1>1. \A x, i : Worked("commit", x, i) = CommitCall(x, calls[i])
  BY DEF Worked
<1>2. \A f : Goes("commit", n, AllMaps, f) <=> G(f)
  BY <1>1 DEF Goes
<1>3. (CHOOSE f : Goes("commit", n, AllMaps, f)) = (CHOOSE f : G(f))
  <2> HIDE DEF G, n
  <2> QED
    BY <1>2
<1>4. CommittedMaps = (CHOOSE f : G(f))[n]
  BY DEF CommittedMaps
<1>5. Runs("commit", n, AllMaps, CHOOSE f : Goes("commit", n, AllMaps, f))
  BY ItRuns
<1>6. PICK g : g = (CHOOSE f : G(f))
  OBVIOUS
<1>7. Runs("commit", n, AllMaps, g)
  <2> HIDE DEF G, n
  <2> QED
    BY <1>3, <1>5, <1>6
<1>8. g[0] = AllMaps /\ \A i \in 1 .. n : g[i] = CommitCall(g[i - 1], calls[i])
  BY <1>1, <1>7 DEF Runs
<1> HIDE DEF G
<1> QED
  BY <1>4, <1>6, <1>8

FirstFoundMaps == [m \in Names |-> [k \in Keys |-> FirstFoundIn(m, k)]]
LEMMA RedoRuns ==
    ASSUME Len(record) \in Nat
    PROVE  \E g : /\ g[0] = FirstFoundMaps
                  /\ \A i \in 1 .. Len(record) : g[i] = RedoStep(g[i - 1], i)
                  /\ RecoveredMaps = g[Len(record)]
<1> DEFINE n == Len(record)
           G(f) == f = [i \in 0 .. n |-> IF i = 0 THEN FirstFoundMaps ELSE RedoStep(f[i - 1], i)]
<1>1. \A x, i : Worked("redo", x, i) = RedoStep(x, i)
  BY DEF Worked
<1>2. \A f : Goes("redo", n, FirstFoundMaps, f) <=> G(f)
  BY <1>1 DEF Goes
<1>3. (CHOOSE f : Goes("redo", n, FirstFoundMaps, f)) = (CHOOSE f : G(f))
  <2> HIDE DEF G, n
  <2> QED
    BY <1>2
<1>4. RecoveredMaps = (CHOOSE f : G(f))[n]
  BY DEF RecoveredMaps, FirstFoundMaps, RedoStep
<1>5. Runs("redo", n, FirstFoundMaps, CHOOSE f : Goes("redo", n, FirstFoundMaps, f))
  BY ItRuns
<1>6. PICK g : g = (CHOOSE f : G(f))
  OBVIOUS
<1>7. Runs("redo", n, FirstFoundMaps, g)
  <2> HIDE DEF G, n
  <2> QED
    BY <1>3, <1>5, <1>6
<1>8. g[0] = FirstFoundMaps /\ \A i \in 1 .. n : g[i] = RedoStep(g[i - 1], i)
  BY <1>1, <1>7 DEF Runs
<1> HIDE DEF G
<1> QED
  BY <1>4, <1>6, <1>8


\* Recovery depends on the record alone.
LEMMA RecoveryStays ==
    ASSUME record' = record, next_lsn' = next_lsn
    PROVE  RecoveredMaps' = RecoveredMaps
<1> DEFINE n == Len(record)
           G(f) == f = [i \in 0 .. n |-> IF i = 0 THEN FirstFoundMaps ELSE RedoStep(f[i - 1], i)]
           H(f) == f = [i \in 0 .. Len(record') |-> IF i = 0 THEN FirstFoundMaps ELSE RedoStep(f[i - 1], i)']
<1>1. RecoveredMaps = (CHOOSE f : G(f))[n]
  BY DEF RecoveredMaps, FirstFoundMaps, RedoStep
<1>2. RecoveredMaps' = (CHOOSE f : H(f))[n]
  BY DEF RecoveredMaps, FirstFoundMaps, RedoStep
<1>3. \A f, i : RedoStep(f, i)' = RedoStep(f, i)
  BY DEF RedoStep, RedoCall, RedoOne, Unreadable, LeavesUnread
<1>4. \A f : G(f) <=> H(f)
  BY <1>3
<1>5. (CHOOSE f : G(f)) = (CHOOSE f : H(f))
  <2> HIDE DEF G, H
  <2> QED
    BY <1>4
<1> QED
  BY <1>1, <1>2, <1>5

-----------------------------------------------------------------------------
\* Rollback

\* The maps a and the list c on the way, and b: whether a wrong map was met.
Way(a, c, b) == [trees |-> a, calls |-> c, bad |-> b]
Swapped(a, m, w) == [a EXCEPT ![m] = a[w], ![w] = a[m]]
RehomedList(c, i, m, w) ==
    [j \in DOMAIN c |->
        IF IsOnRow(c[j]) /\ j < i THEN [c[j] EXCEPT !.home = MovedTo(@, m, w)] ELSE c[j]]
ReplacedList(c, i, m, w) ==
    [j \in DOMAIN c |-> IF IsOnRow(c[j]) /\ j < i /\ c[j].at = w THEN [c[j] EXCEPT !.at = m] ELSE c[j]]

LEMMA ErasedOnTheWay ==
    ASSUME NEW a, NEW c, NEW b, NEW s, s = Way(a, c, b), NEW o, o.at = o.home
    PROVE  RowErased(s, o) = Way(Put(a, o.home, o.key, NoRow), c, b)
<1>1. RowErased(s, o) = [s EXCEPT !.trees[o.home][o.key] = NoRow]
  BY DEF RowErased
<1> QED
  BY <1>1 DEF Way, Put

LEMMA AstrayOnTheWay ==
    ASSUME NEW a, NEW c, NEW b, NEW s, s = Way(a, c, b), NEW o
    PROVE  /\ Astray(s).bad /\ \E y : Astray(s) = Way(a, c, y)
           /\ o.at # o.home => RowErased(s, o) = Astray(s)
<1>1. o.at # o.home => RowErased(s, o) = Astray(s)
  BY DEF RowErased
<1>2. \A x : [s EXCEPT !.bad = x] = Way(a, c, x)
  BY DEF Way
<1>3. [s EXCEPT !.bad = TRUE].bad
  BY DEF Way
<1> QED
  BY <1>1, <1>2, <1>3 DEF Astray

LEMMA UnlockedOnTheWay ==
    ASSUME NEW a, NEW c, NEW b, NEW s, s = Way(a, c, b), NEW o, NEW v, NEW n, NEW op
    PROVE  RowUnlocked(s, o, v, n, op)
              = Way(Put(a, o.home, o.key, [val |-> v, op |-> op, id |-> n]), c, b)
BY DEF Way, RowUnlocked, Put

LEMMA ExchangedOnTheWay ==
    ASSUME NEW a, NEW c, NEW b, NEW s, s = Way(a, c, b), NEW m, NEW w
    PROVE  Exchanged(s, m, w) = Way(Swapped(a, m, w), c, b)
<1>1. PICK x, y : x = a[w] /\ y = a[m]
  OBVIOUS
<1>2. Exchanged(s, m, w) = [s EXCEPT !.trees[m] = x, !.trees[w] = y]
  BY <1>1 DEF Exchanged, Way
<1>3. PICK u : u = [s EXCEPT !.trees[m] = x]
  OBVIOUS
<1>4. u = Way([a EXCEPT ![m] = x], c, b)
  BY <1>3 DEF Way
<1>5. [u EXCEPT !.trees[w] = y] = Way([a EXCEPT ![m] = x, ![w] = y], c, b)
  BY <1>4 DEF Way
<1>6. [s EXCEPT !.trees[m] = x, !.trees[w] = y] = [u EXCEPT !.trees[w] = y]
  BY <1>3
<1> QED
  BY <1>1, <1>2, <1>5, <1>6 DEF Swapped

LEMMA RehomedOnTheWay ==
    ASSUME NEW a, NEW c, NEW b, NEW s, s = Way(a, c, b), NEW i, NEW m, NEW w
    PROVE  Rehomed(s, i, m, w) = Way(a, RehomedList(c, i, m, w), b)
<1>0. s.calls = c
  BY DEF Way
<1>1. RehomedList(c, i, m, w) =
        [j \in DOMAIN c |-> IF IsOnRow(c[j]) /\ j < i
                           THEN [c[j] EXCEPT !.home = MovedTo(c[j].home, m, w)] ELSE c[j]]
  BY DEF RehomedList
<1>2. Rehomed(s, i, m, w) = [s EXCEPT !.calls = RehomedList(c, i, m, w)]
  BY <1>0, <1>1 DEF Rehomed
<1>3. \A x : [s EXCEPT !.calls = x] = Way(a, x, b)
  BY DEF Way
<1> QED
  BY <1>2, <1>3

LEMMA ReplacedOnTheWay ==
    ASSUME NEW a, NEW c, NEW b, NEW s, s = Way(a, c, b), NEW i, NEW m, NEW w
    PROVE  SwappedBack(s, i, m, w) = Way(a, ReplacedList(c, i, m, w), b)
<1>1. SwappedBack(s, i, m, w) = [s EXCEPT !.calls = ReplacedList(c, i, m, w)]
  BY DEF Way, SwappedBack, ReplacedList
<1>2. \A x : [s EXCEPT !.calls = x] = Way(a, x, b)
  BY DEF Way
<1> QED
  BY <1>1, <1>2

\* An insert that a clear() or a swap() follows.
WentWrong == \E i \in Calls({"insert"}), j \in Calls({"clear", "swap"}) : i < j

\* After the operations behind the i-th: the maps are as they have been after the i-th, and
\* each operation has its row where it has been.
ListIsKept(h, c, i) ==
    /\ DOMAIN c = DOMAIN calls
    /\ \A j \in DOMAIN calls : j \notin RowCalls => c[j] = calls[j]
    /\ \A j \in RowCalls :
         /\ c[j] \in RowOps /\ SameCall(c[j], calls[j])
         /\ j <= i => c[j].home = h[i][j]
         /\ j <= i /\ (\A l \in Calls({"clear", "swap"}) : l <= i) => c[j].at = c[j].home
MapsAreAgain(t, a, i) ==
    /\ a \in [DOMAIN a -> [Keys -> Rows]] /\ DOMAIN t[i] \subseteq DOMAIN a
    /\ \A x \in DOMAIN t[i], k \in Keys : Mask(a[x][k]) = t[i][x][k]
OnTheWay(t, h, s, i) ==
    \E a, c, b :
       /\ s = Way(a, c, b)
       /\ s.bad => WentWrong
       /\ ~s.bad => ListIsKept(h, c, i) /\ MapsAreAgain(t, a, i)

LEMMA OnTheWayAtFirst ==
    ASSUME CallsTyped, TreesTyped, RowsAreFollowed, NEW t, NEW h, IsHistory(t, h)
    PROVE  OnTheWay(t, h, AllMaps, Len(calls))
<1> DEFINE n == Len(calls)
<1>1. AllMaps = Way(trees, calls, FALSE) /\ ~AllMaps.bad
  BY DEF AllMaps, Way
<1>2. /\ n \in Nat /\ DOMAIN calls = 1 .. n
      /\ \A i \in RowCalls : i \in 1 .. n /\ calls[i] \in RowOps
  BY ListIs
<1>3. t[n] = Masked(trees) /\ \A j \in RowCalls : h[n][j] = calls[j].home
  BY DEF IsHistory
<1>4. ListIsKept(h, calls, n)
  BY <1>2, <1>3 DEF ListIsKept, RowsAreFollowed, SameCall
<1>5. MapsAreAgain(t, trees, n)
  BY <1>3 DEF MapsAreAgain, TreesTyped, Masked
<1> QED
  BY <1>1, <1>4, <1>5 DEF OnTheWay

\* A row is put back.
LEMMA RowPutBack ==
    ASSUME CallsTyped, NEW t, NEW h, NEW a, NEW c, NEW i \in RowCalls, NEW q \in Rows,
           ListIsKept(h, c, i), MapsAreAgain(t, a, i),
           UndoesRow(calls[i], i, t[i - 1], t[i], h[i - 1], h[i]),
           Mask(q) = t[i - 1][c[i].home][c[i].key],
           i - 1 \in 0 .. Len(calls)
    PROVE  MapsAreAgain(t, Put(a, c[i].home, c[i].key, q), i - 1) /\ ListIsKept(h, c, i - 1)
<1>1. /\ c[i] \in RowOps /\ SameCall(c[i], calls[i]) /\ c[i].home = h[i][i]
      /\ c[i].key \in Keys /\ c[i].key = calls[i].key
  <2>1. i \in Nat
    BY ListIs
  <2> QED
    BY <2>1 DEF ListIsKept, RowOps, SameCall
<1>2. PICK x, k, p : x = c[i].home /\ k = c[i].key /\ p = Put(a, x, k, q)
  OBVIOUS
<1>3. /\ x \in DOMAIN t[i] /\ DOMAIN t[i - 1] = DOMAIN t[i] /\ k \in Keys /\ x = h[i][i] /\ k = calls[i].key
      /\ \A y \in DOMAIN t[i], j \in Keys : ~(y = x /\ j = k) => t[i - 1][y][j] = t[i][y][j]
  BY <1>1, <1>2 DEF UndoesRow
<1>4. /\ DOMAIN p = DOMAIN a /\ p \in [DOMAIN p -> [Keys -> Rows]]
      /\ \A y \in DOMAIN a, j \in Keys : p[y][j] = IF y = x /\ j = k THEN q ELSE a[y][j]
  <2>1. x \in DOMAIN a /\ a \in [DOMAIN a -> [Keys -> Rows]]
    BY <1>3 DEF MapsAreAgain
  <2>2. k \in Keys
    BY <1>3
  <2>3. p = Put(a, x, k, q)
    BY <1>2
  <2> QED
    BY <2>1, <2>2, <2>3, PutIs
<1>5. MapsAreAgain(t, p, i - 1)
  <2>1. \A y \in DOMAIN t[i - 1], j \in Keys : Mask(p[y][j]) = t[i - 1][y][j]
    BY <1>2, <1>3, <1>4 DEF MapsAreAgain
  <2> QED
    BY <1>3, <1>4, <2>1 DEF MapsAreAgain
<1>6. ListIsKept(h, c, i - 1)
  <2>1. \A j \in RowCalls : j \in 1 .. Len(calls)
    BY ListIs
  <2>2. ASSUME NEW j \in RowCalls, j <= i - 1 PROVE j <= i /\ h[i - 1][j] = h[i][j]
    BY <2>1, <2>2 DEF UndoesRow
  <2>3. i \notin Calls({"clear", "swap"})
    BY DEF RowCalls, Calls, IsOnRow
  <2>4. \A l \in Calls({"clear", "swap"}) : l \in 1 .. Len(calls)
    BY ListIs
  <2>5. \A l \in Calls({"clear", "swap"}) : l <= i - 1 => l <= i
    BY <2>1, <2>4
  <2> QED
    BY <2>2, <2>5 DEF ListIsKept
<1> QED
  BY <1>2, <1>5, <1>6

LEMMA RollsBackRow ==
    ASSUME CallsTyped, NEW t, NEW h, NEW s, NEW i \in RowCalls, OnTheWay(t, h, s, i),
           UndoesRow(calls[i], i, t[i - 1], t[i], h[i - 1], h[i]), i - 1 \in 0 .. Len(calls)
    PROVE  OnTheWay(t, h, RollbackCall(s, i), i - 1)
<1>1. PICK a, c, b :
         /\ s = Way(a, c, b)
         /\ s.bad => WentWrong
         /\ ~s.bad => ListIsKept(h, c, i) /\ MapsAreAgain(t, a, i)
  BY DEF OnTheWay
<1>w. s = Way(a, c, b)
  BY <1>1
<1>2. s.calls = c /\ s.trees = a
  BY <1>w DEF Way
<1>3. CASE s.bad
  <2>1. RollbackCall(s, i) = s
    BY <1>2, <1>3 DEF RollbackCall
  <2> QED
    BY <1>1, <1>3, <2>1 DEF OnTheWay
<1>4. CASE ~s.bad
  <2>1. ListIsKept(h, c, i) /\ MapsAreAgain(t, a, i)
    BY <1>1, <1>4
  <2>2. i \in 1 .. Len(calls) /\ calls[i] \in RowOps /\ IsOnRow(calls[i])
    BY ListIs DEF RowCalls
  <2>3. PICK o : o = c[i]
    OBVIOUS
  <2>4. o \in RowOps /\ SameCall(o, calls[i]) /\ o.home = h[i][i] /\ IsOnRow(o)
    <3>1. i <= i
      BY <2>2
    <3> QED
      BY <2>1, <2>2, <2>3, <3>1 DEF ListIsKept, SameCall, IsOnRow
  <2>5. RollbackCall(s, i) = RollbackRow(s, o)
    BY <1>2, <1>4, <2>3, <2>4 DEF RollbackCall, IsOnRow
  <2>6. o.home \in DOMAIN t[i] /\ o.home \in DOMAIN t[i - 1] /\ o.key \in Keys /\ o.key = calls[i].key
    BY <2>4 DEF UndoesRow, RowOps, SameCall
  <2>7. CASE o.kind = "insert" /\ o.at = o.home
    <3>1. RollbackCall(s, i) = Way(Put(a, o.home, o.key, NoRow), c, b)
      <4>1. RollbackCall(s, i) = RowErased(s, o)
        BY <2>5, <2>7 DEF RollbackRow
      <4> QED
        BY <1>w, <2>7, <4>1, ErasedOnTheWay
    <3>a. ~RollbackCall(s, i).bad
      BY <1>1, <1>4, <3>1 DEF Way
    <3>2. Mask(NoRow) = NoRow /\ NoRow \in Rows
      BY NoRowIsARow DEF Mask, Fresh
    <3>3. t[i - 1][o.home][o.key] = NoRow
      BY <2>4, <2>6, <2>7 DEF UndoesRow, SameCall
    <3>4. MapsAreAgain(t, Put(a, o.home, o.key, NoRow), i - 1) /\ ListIsKept(h, c, i - 1)
      BY <2>1, <2>3, <3>2, <3>3, RowPutBack
    <3> QED
      BY <3>1, <3>a, <3>4 DEF OnTheWay
  <2>8. CASE o.kind = "insert" /\ o.at # o.home
    <3>1. RollbackCall(s, i).bad /\ \E y : RollbackCall(s, i) = Way(a, c, y)
      <4>1. RollbackCall(s, i) = RowErased(s, o)
        BY <2>5, <2>8 DEF RollbackRow
      <4> QED
        BY <1>w, <2>8, <4>1, AstrayOnTheWay
    <3>2. PICK l \in Calls({"clear", "swap"}) : ~(l <= i)
      <4>1. i <= i
        BY <2>2
      <4> QED
        BY <2>1, <2>3, <2>8, <4>1 DEF ListIsKept
    <3>3. i < l
      BY <2>2, <3>2, ListIs
    <3>4. i \in Calls({"insert"})
      BY <2>2, <2>4, <2>8, ListIs DEF Calls, SameCall
    <3>5. WentWrong
      BY <3>2, <3>3, <3>4 DEF WentWrong
    <3> QED
      BY <3>1, <3>5 DEF OnTheWay
  <2>9. CASE o.kind # "insert"
    <3>1. PICK r, q : r = a[o.home][o.key] /\ q = [val |-> r.val, op |-> o.op, id |-> o.id]
      OBVIOUS
    <3>2. RollbackCall(s, i) = Way(Put(a, o.home, o.key, q), c, b)
      <4>1. RollbackRow(s, o) = RowUnlocked(s, o, r.val, o.id, o.op)
        BY <1>2, <2>9, <3>1 DEF RollbackRow
      <4> QED
        BY <1>w, <2>5, <3>1, <4>1, UnlockedOnTheWay
    <3>a. ~RollbackCall(s, i).bad
      BY <1>1, <1>4, <3>2 DEF Way
    <3>3. r \in Rows /\ Mask(r) = t[i][o.home][o.key]
      BY <2>1, <2>6, <3>1 DEF MapsAreAgain
    <3>4. q \in Rows /\ o.op \in Marks /\ o.id \in Nat
      BY <2>4, <3>1, <3>3 DEF RowOps, Rows
    <3>5. t[i - 1][o.home][o.key] = Mask([val |-> Mask(r).val, op |-> o.op, id |-> o.id])
      <4>1. calls[i].kind # "insert" /\ calls[i].op = o.op /\ calls[i].id = o.id
        BY <2>4, <2>9 DEF SameCall
      <4> QED
        BY <2>4, <2>6, <3>3, <4>1 DEF UndoesRow
    <3>6. r.op \in Fresh => o.op \in Fresh
      <4>1. calls[i].kind # "insert" /\ calls[i].op = o.op
        BY <2>4, <2>9 DEF SameCall
      <4>2. Mask(r).op = r.op
        BY <3>3, MaskTells
      <4> QED
        BY <2>4, <2>6, <3>3, <4>1, <4>2 DEF UndoesRow
    <3>7. Mask(q) = t[i - 1][o.home][o.key]
      BY <3>1, <3>3, <3>4, <3>5, <3>6, MaskTells
    <3>8. MapsAreAgain(t, Put(a, o.home, o.key, q), i - 1) /\ ListIsKept(h, c, i - 1)
      BY <2>1, <2>3, <3>4, <3>7, RowPutBack
    <3> QED
      BY <3>2, <3>a, <3>8 DEF OnTheWay
  <2> QED
    BY <2>7, <2>8, <2>9
<1> QED
  BY <1>1, <1>3, <1>4

\* The list before the i-th operation, when the rows of m and w have been exchanged back.
LEMMA ListPutBack ==
    ASSUME CallsTyped, NEW t, NEW h, NEW c, NEW d, NEW i \in 1 .. Len(calls), i \notin RowCalls,
           NEW m, NEW w, m \in Nat, w \in Nat,
           ListIsKept(h, c, i), UndoesMap(calls[i], i, t[i - 1], t[i], h[i - 1], h[i]),
           m = calls[i].map, w = calls[i].old,
           d = RehomedList(c, i, m, w)
    PROVE  ListIsKept(h, d, i - 1)
<1>1. /\ Len(calls) \in Nat /\ DOMAIN calls = 1 .. Len(calls)
      /\ \A j \in RowCalls : j \in 1 .. Len(calls) /\ calls[j] \in RowOps
      /\ \A j \in 1 .. Len(calls) : j \notin RowCalls => calls[j] \in MapOps
  BY ListIs
<1>2. DOMAIN d = DOMAIN calls
  BY DEF ListIsKept, RehomedList
<1>3. ASSUME NEW j \in DOMAIN calls, j \notin RowCalls PROVE d[j] = calls[j]
  BY <1>3 DEF ListIsKept, RehomedList, RowCalls
<1>4. ASSUME NEW j \in RowCalls
      PROVE  /\ d[j] \in RowOps /\ SameCall(d[j], calls[j])
             /\ j <= i - 1 => d[j].home = h[i - 1][j]
  <2>1. j \in 1 .. Len(calls) /\ c[j] \in RowOps /\ SameCall(c[j], calls[j]) /\ IsOnRow(c[j])
    BY <1>1 DEF ListIsKept, RowOps, IsOnRow
  <2>2. CASE j < i
    <3>1. PICK y : y = MovedTo(c[j].home, m, w)
      OBVIOUS
    <3>2. c[j].home \in Nat
      BY <2>1 DEF RowOps
    <3>3. y \in Nat
      BY <3>1, <3>2 DEF MovedTo
    <3>4. d[j] = [c[j] EXCEPT !.home = y]
      BY <1>1, <1>2, <2>1, <2>2, <3>1 DEF RehomedList, ListIsKept
    <3>5. d[j] \in RowOps /\ SameCall(d[j], c[j]) /\ d[j].home = y
      BY <2>1, <3>3, <3>4 DEF RowOps, SameCall
    <3>6. j \in 1 .. i - 1 /\ j <= i
      BY <2>1, <2>2
    <3>7. c[j].home = h[i][j]
      BY <3>6 DEF ListIsKept
    <3>8. h[i - 1][j] = MovedTo(h[i][j], m, w)
      BY <3>6 DEF UndoesMap
    <3> QED
      BY <2>1, <3>1, <3>5, <3>7, <3>8 DEF SameCall
  <2>3. CASE ~(j < i)
    <3>1. d[j] = c[j]
      BY <1>1, <1>2, <2>1, <2>3 DEF RehomedList, ListIsKept
    <3>2. ~(j <= i - 1)
      BY <2>1, <2>3
    <3> QED
      BY <2>1, <3>1, <3>2
  <2> QED
    BY <2>2, <2>3
<1>5. i \in Calls({"clear", "swap"}) /\ ~(i <= i - 1)
  BY <1>1 DEF RowCalls, Calls, IsOnRow
<1> QED
  BY <1>2, <1>3, <1>4, <1>5 DEF ListIsKept

\* The same when swap() then looks for what is at w.
LEMMA ListReplaced ==
    ASSUME CallsTyped, NEW h, NEW c, NEW d, NEW i \in 1 .. Len(calls), i \notin RowCalls,
           NEW m, NEW w, m \in Nat, ListIsKept(h, c, i - 1), d = ReplacedList(c, i, m, w)
    PROVE  ListIsKept(h, d, i - 1)
<1>1. /\ Len(calls) \in Nat /\ DOMAIN calls = 1 .. Len(calls)
      /\ \A j \in RowCalls : j \in 1 .. Len(calls) /\ calls[j] \in RowOps
  BY ListIs
<1>2. DOMAIN d = DOMAIN calls
  BY DEF ListIsKept, ReplacedList
<1>3. ASSUME NEW j \in DOMAIN calls, j \notin RowCalls PROVE d[j] = calls[j]
  BY <1>3 DEF ListIsKept, ReplacedList, RowCalls
<1>4. ASSUME NEW j \in RowCalls
      PROVE  /\ d[j] \in RowOps /\ SameCall(d[j], calls[j]) /\ d[j].home = c[j].home
  <2>1. j \in 1 .. Len(calls) /\ c[j] \in RowOps /\ SameCall(c[j], calls[j]) /\ IsOnRow(c[j])
    BY <1>1 DEF ListIsKept, RowOps, IsOnRow
  <2>2. d[j] = [c[j] EXCEPT !.at = m] \/ d[j] = c[j]
    BY <1>1 DEF ReplacedList, ListIsKept
  <2> QED
    BY <2>1, <2>2 DEF RowOps, SameCall
<1>5. i \in Calls({"clear", "swap"}) /\ ~(i <= i - 1)
  BY <1>1 DEF RowCalls, Calls, IsOnRow
<1>6. ~(\A l \in Calls({"clear", "swap"}) : l <= i - 1)
  BY <1>5
<1> QED
  BY <1>2, <1>3, <1>4, <1>6 DEF ListIsKept

LEMMA MapsPutBack ==
    ASSUME NEW t, NEW a, NEW e, NEW i, NEW m, NEW w, NEW o, NEW g, NEW h, MapsAreAgain(t, a, i),
           UndoesMap(o, i, t[i - 1], t[i], g, h), m = o.map, w = o.old, e = Swapped(a, m, w)
    PROVE  MapsAreAgain(t, e, i - 1)
<1>1. m \in DOMAIN a /\ w \in DOMAIN a /\ m # w /\ a \in [DOMAIN a -> [Keys -> Rows]]
  BY DEF MapsAreAgain, UndoesMap
<1>2. /\ DOMAIN e = DOMAIN a
      /\ \A x \in DOMAIN a : e[x] = IF x = m THEN a[w] ELSE IF x = w THEN a[m] ELSE a[x]
  BY <1>1 DEF Swapped
<1>3. \A x \in DOMAIN a : e[x] = a[MovedTo(x, m, w)]
  BY <1>2 DEF MovedTo
<1>4. \A x \in DOMAIN a : a[x] \in [Keys -> Rows]
  BY <1>1
<1>5. e \in [DOMAIN e -> [Keys -> Rows]]
  <2>1. \A x \in DOMAIN a : e[x] \in [Keys -> Rows]
    BY <1>1, <1>2, <1>4
  <2>2. e = [x \in DOMAIN a |-> e[x]]
    BY <1>2 DEF Swapped
  <2> QED
    BY <1>2, <2>1, <2>2
<1>6. ASSUME NEW x \in DOMAIN t[i - 1]
      PROVE  x \in DOMAIN e /\ \A k \in Keys : Mask(e[x][k]) = t[i - 1][x][k]
  <2>1. PICK y : y = MovedTo(x, m, w)
    OBVIOUS
  <2>2. x \in DOMAIN t[i] /\ y \in DOMAIN t[i] /\ t[i - 1][x] = t[i][y]
    BY <2>1 DEF UndoesMap, MovedTo
  <2>3. x \in DOMAIN a /\ e[x] = a[y]
    BY <1>3, <2>1, <2>2 DEF MapsAreAgain
  <2> QED
    BY <1>2, <2>2, <2>3 DEF MapsAreAgain
<1> QED
  BY <1>5, <1>6 DEF MapsAreAgain

LEMMA RollsBackMap ==
    ASSUME CallsTyped, NEW t, NEW h, NEW s, NEW i \in 1 .. Len(calls), i \notin RowCalls,
           OnTheWay(t, h, s, i), UndoesMap(calls[i], i, t[i - 1], t[i], h[i - 1], h[i])
    PROVE  OnTheWay(t, h, RollbackCall(s, i), i - 1)
<1>1. PICK a, c, b :
         /\ s = Way(a, c, b)
         /\ s.bad => WentWrong
         /\ ~s.bad => ListIsKept(h, c, i) /\ MapsAreAgain(t, a, i)
  BY DEF OnTheWay
<1>w. s = Way(a, c, b)
  BY <1>1
<1>2. s.calls = c /\ s.trees = a /\ s.bad = b
  BY <1>w DEF Way
<1>3. CASE s.bad
  <2>1. RollbackCall(s, i) = s
    BY <1>3 DEF RollbackCall
  <2> QED
    BY <1>1, <1>3, <2>1 DEF OnTheWay
<1>4. CASE ~s.bad
  <2>1. ListIsKept(h, c, i) /\ MapsAreAgain(t, a, i)
    BY <1>1, <1>4
  <2>2. calls[i] \in MapOps /\ DOMAIN calls = 1 .. Len(calls)
    BY ListIs
  <2>3. c[i] = calls[i]
    BY <2>1, <2>2 DEF ListIsKept
  <2>4. PICK m, w : m = calls[i].map /\ w = calls[i].old
    OBVIOUS
  <2>5. m \in Nat /\ w \in Nat /\ calls[i].kind \in {"clear", "swap"} /\ ~IsOnRow(calls[i])
    BY <2>2, <2>4, NamesAre DEF MapOps, IsOnRow
  <2>6. PICK e, d, f : e = Swapped(a, m, w) /\ d = RehomedList(c, i, m, w) /\ f = ReplacedList(d, i, m, w)
    OBVIOUS
  <2>7. ListIsKept(h, d, i - 1)
    BY <2>1, <2>4, <2>5, <2>6, ListPutBack
  <2>8. ListIsKept(h, f, i - 1)
    BY <2>5, <2>6, <2>7, ListReplaced
  <2>9. MapsAreAgain(t, e, i - 1)
    BY <2>1, <2>4, <2>6, MapsPutBack
  <2>10. PICK u : u = Rehomed(Exchanged(s, m, w), i, m, w)
    OBVIOUS
  <2>11. u = Way(e, d, b)
    <3>1. Exchanged(s, m, w) = Way(e, c, b)
      BY <1>w, <2>6, ExchangedOnTheWay
    <3> QED
      BY <2>6, <2>10, <3>1, RehomedOnTheWay
  <2>12. SwappedBack(u, i, m, w) = Way(e, f, b)
    BY <2>6, <2>11, ReplacedOnTheWay
  <2>13. CASE calls[i].kind = "clear"
    <3>1. RollbackCall(s, i) = u
      BY <1>2, <1>4, <2>3, <2>4, <2>5, <2>10, <2>13 DEF RollbackCall, RollbackClear
    <3>2. ~u.bad
      BY <1>2, <1>4, <2>11 DEF Way
    <3> QED
      BY <2>7, <2>9, <2>11, <3>1, <3>2 DEF OnTheWay
  <2>14. CASE calls[i].kind = "swap"
    <3>1. RollbackCall(s, i) = SwappedBack(u, i, m, w)
      BY <1>2, <1>4, <2>3, <2>4, <2>5, <2>10, <2>14 DEF RollbackCall, RollbackSwap
    <3>2. ~RollbackCall(s, i).bad
      BY <1>2, <1>4, <2>12, <3>1 DEF Way
    <3> QED
      BY <2>8, <2>9, <2>12, <3>1, <3>2 DEF OnTheWay
  <2> QED
    BY <2>5, <2>13, <2>14
<1> QED
  BY <1>3, <1>4

\* Rollback comes to the maps of the start, or has met an insert in a wrong map.
LEMMA RollbackComesBack ==
    ASSUME Sound
    PROVE  IF RolledBackMaps.bad THEN WentWrong
           ELSE [m \in Names |-> RolledBackMaps.trees[m]] = FirstTrees
<1> DEFINE n == Len(calls)
<1>1. CallsTyped /\ TreesTyped /\ RowsAreFollowed /\ CanBeUndone
  BY DEF Sound
<1>2. PICK t, h : IsHistory(t, h)
  BY <1>1 DEF CanBeUndone
<1>3. n \in Nat /\ DOMAIN calls = 1 .. n
  BY <1>1, ListIs
<1>4. PICK g : /\ g[0] = AllMaps
               /\ \A i \in 1 .. n : g[i] = RollbackCall(g[i - 1], n + 1 - i)
               /\ RolledBackMaps = g[n]
  BY <1>3, RollbackRuns
<1> DEFINE S == {i \in 0 .. n : OnTheWay(t, h, g[i], n - i)}
<1>5. 0 \in S
  <2>1. OnTheWay(t, h, AllMaps, n)
    BY <1>1, <1>2, OnTheWayAtFirst
  <2>2. n - 0 = n /\ 0 \in 0 .. n
    BY <1>3
  <2> QED
    BY <1>4, <2>1, <2>2
<1>6. ASSUME NEW i \in 0 .. n, i \in S, i < n
      PROVE  i + 1 \in S
  <2>1. PICK j : j = n - i
    OBVIOUS
  <2>2. /\ i + 1 \in 1 .. n /\ (i + 1) - 1 = i /\ i + 1 \in 0 .. n
        /\ j \in 1 .. n /\ n + 1 - (i + 1) = j /\ n - (i + 1) = j - 1 /\ j - 1 \in 0 .. n
    <3>1. i \in 0 .. n /\ i < n
      BY <1>6
    <3> HIDE DEF n, S
    <3> QED
      BY <1>3, <2>1, <3>1
  <2>3. g[i + 1] = RollbackCall(g[i], j)
    BY <1>4, <2>2
  <2>4. OnTheWay(t, h, g[i], j)
    BY <1>6, <2>1
  <2>5. Undoes(calls[j], j, t[j - 1], t[j], h[j - 1], h[j])
    BY <1>2, <2>2 DEF IsHistory
  <2>6. OnTheWay(t, h, RollbackCall(g[i], j), j - 1)
    <3>1. CASE j \in RowCalls
      <4>1. UndoesRow(calls[j], j, t[j - 1], t[j], h[j - 1], h[j])
        BY <2>5, <3>1 DEF Undoes, RowCalls
      <4> QED
        BY <1>1, <2>2, <2>4, <3>1, <4>1, RollsBackRow
    <3>2. CASE j \notin RowCalls
      <4>1. UndoesMap(calls[j], j, t[j - 1], t[j], h[j - 1], h[j])
        BY <1>3, <2>2, <2>5, <3>2 DEF Undoes, RowCalls
      <4> QED
        BY <1>1, <2>2, <2>4, <3>2, <4>1, RollsBackMap
    <3> QED
      BY <3>1, <3>2
  <2> QED
    BY <2>2, <2>3, <2>6
<1>7. n \in S
  <2> HIDE DEF S
  <2>1. S \subseteq 0 .. n
    BY DEF S
  <2>2. S = 0 .. n
    BY <1>3, <1>5, <1>6, <2>1, UpTo
  <2> QED
    BY <1>3, <2>2
<1>8. OnTheWay(t, h, RolledBackMaps, 0)
  <2>1. n - n = 0
    BY <1>3
  <2> QED
    BY <1>4, <1>7, <2>1
<1>9. PICK a, c, b :
         /\ RolledBackMaps = Way(a, c, b)
         /\ RolledBackMaps.bad => WentWrong
         /\ ~RolledBackMaps.bad => ListIsKept(h, c, 0) /\ MapsAreAgain(t, a, 0)
  BY <1>8 DEF OnTheWay
<1> HIDE DEF n, S
<1>10. ASSUME ~RolledBackMaps.bad
       PROVE  [m \in Names |-> RolledBackMaps.trees[m]] = FirstTrees
  <2>1. MapsAreAgain(t, a, 0) /\ t[0] = Masked(FirstTrees)
    BY <1>2, <1>9, <1>10 DEF IsHistory
  <2>2. RolledBackMaps.trees = a
    BY <1>9 DEF Way
  <2>3. ASSUME NEW m \in Names PROVE a[m] = FirstTrees[m]
    <3>1. m \in DOMAIN t[0] /\ a[m] \in [Keys -> Rows] /\ FirstTrees[m] \in [Keys -> Rows]
      BY <2>1, FirstTreesAre DEF Masked, MapsAreAgain
    <3>2. ASSUME NEW k \in Keys PROVE a[m][k] = FirstTrees[m][k]
      <4>1. Mask(a[m][k]) = Mask(FirstTrees[m][k])
        BY <2>1, <3>1, FirstTreesAre DEF Masked, MapsAreAgain
      <4>2. FirstTrees[m][k].op = "none" /\ FirstTrees[m][k] \in Rows /\ a[m][k] \in Rows
        BY <3>1, FirstTreesAre
      <4>3. Mask(FirstTrees[m][k]) = FirstTrees[m][k]
        BY <4>2 DEF Mask, Fresh
      <4>4. a[m][k].op = "none"
        BY <4>1, <4>2, <4>3, MaskTells
      <4> QED
        BY <4>1, <4>3, <4>4 DEF Mask, Fresh
    <3> QED
      BY <3>1, <3>2
  <2>4. FirstTrees = [m \in Names |-> FirstTrees[m]]
    BY FirstTreesAre
  <2> QED
    BY <2>2, <2>3, <2>4
<1> QED
  BY <1>9, <1>10

-----------------------------------------------------------------------------
\* Commit

\* No swap, and no row changed before a clear() of its map.
AllNamed == Calls({"swap"}) = {} /\ \A i \in RowCalls : calls[i].at \in Names

\* What commit makes of a row with the mark of o.
CommittedRow(o, row) ==
    IF o.kind \in {"delete", "deleted_insert"} THEN NoRow
    ELSE [val |-> IF o.kind = "update" THEN o.val ELSE row.val, op |-> "none", id |-> next_lsn - 1]

\* After the i-th operation a row is as it was, unless one of the operations has its mark.
HasItsMark(j, m, k) == calls[j].kind = trees[m][k].op
RowIsUnderWay(a, m, k, i) ==
    /\ (\A j \in OnPlace(m, k) : j <= i => ~HasItsMark(j, m, k)) => a[m][k] = trees[m][k]
    /\ (\E j \in OnPlace(m, k) : j <= i /\ HasItsMark(j, m, k)) =>
          \E j \in OnPlace(m, k) : HasItsMark(j, m, k) /\ a[m][k] = CommittedRow(calls[j], trees[m][k])
SomeErasedTwice == \E m \in Names, k \in Keys : ErasedTwice(m, k)
MapsCommitting(s, i) ==
    \E a, b : /\ s = Way(a, calls, b) /\ (s.bad => SomeErasedTwice)
              /\ a \in [DOMAIN a -> [Keys -> Rows]] /\ DOMAIN a = DOMAIN trees
              /\ ~s.bad => \A m \in Names, k \in Keys : RowIsUnderWay(a, m, k, i)

\* The last operation on a row that has one.
LEMMA LastIsThere ==
    ASSUME CallsTyped, NEW m, NEW k, OnPlace(m, k) # {}
    PROVE  \E j \in OnPlace(m, k) : \A l \in OnPlace(m, k) : l <= j
<1>1. OnPlace(m, k) \subseteq 1 .. Len(calls) /\ Len(calls) \in Nat
  BY ListIs DEF OnPlace
<1> DEFINE T == {Len(calls) - j : j \in OnPlace(m, k)}
<1>2. T \subseteq Nat /\ T # {}
  BY <1>1
<1>3. PICK z \in T : \A y \in T : z <= y
  <2> HIDE DEF T
  <2> QED
    BY <1>2, LeastOfNats
<1>4. PICK j \in OnPlace(m, k) : z = Len(calls) - j
  BY <1>3
<1>5. ASSUME NEW l \in OnPlace(m, k) PROVE l <= j
  <2>1. Len(calls) - l \in T
    OBVIOUS
  <2>2. Len(calls) - j <= Len(calls) - l
    BY <1>3, <1>4, <2>1
  <2> QED
    BY <1>1, <2>2
<1> QED
  BY <1>5

\* A row that commit has erased before it comes to the i-th operation was erased again.
LEMMA MissingIsErasedTwice ==
    ASSUME CallsTyped, RowsAreFollowed, CallsAreShaped, AllNamed, next_lsn \in Nat, next_lsn # 0,
           TreesTyped, NEW m \in Names, NEW k \in Keys, NEW i \in OnPlace(m, k), NEW a,
           RowIsUnderWay(a, m, k, i - 1), ~Present(a[m][k])
    PROVE  SomeErasedTwice
<1>1. OnPlace(m, k) \subseteq RowCalls /\ OnPlace(m, k) \subseteq 1 .. Len(calls) /\ Len(calls) \in Nat
  BY ListIs DEF OnPlace
<1>2. \A j \in OnPlace(m, k) : /\ calls[j] \in RowOps /\ calls[j].home = m /\ calls[j].key = k
                                 /\ IsShaped(j)
  BY <1>1, ListIs DEF OnPlace, CallsAreShaped, AllNamed
<1>3. Present(trees[m][k]) /\ trees[m][k] \in Rows
  BY <1>1, <1>2 DEF RowsAreFollowed, TreesTyped
<1>4. PICK j \in OnPlace(m, k) : j <= i - 1 /\ HasItsMark(j, m, k)
  BY <1>3 DEF RowIsUnderWay
<1>5. PICK g \in OnPlace(m, k) : HasItsMark(g, m, k) /\ a[m][k] = CommittedRow(calls[g], trees[m][k])
  BY <1>4 DEF RowIsUnderWay
<1>6. calls[g].kind \in {"delete", "deleted_insert"}
  <2>1. CASE calls[g].kind = "update"
    <3>1. calls[g].val # NoValue
      BY <1>2 DEF RowOps
    <3> QED
      BY <1>5, <2>1, <3>1 DEF CommittedRow, Present
  <2>2. CASE calls[g].kind = "insert"
    BY <1>3, <1>5, <2>2 DEF CommittedRow, Present
  <2> QED
    BY <1>2, <2>1, <2>2 DEF RowOps
<1>7. calls[j].kind = calls[g].kind
  BY <1>4, <1>5 DEF HasItsMark
\* The last operation on the row has the mark of this erasure, and is a later one.
<1>8. PICK l \in OnPlace(m, k) : \A n \in OnPlace(m, k) : n <= l
  BY LastIsThere
<1>9. j # l /\ ~(l <= j)
  <2>1. i <= l
    BY <1>8
  <2> QED
    BY <1>1, <1>4, <2>1
<1>10. HasItsMark(l, m, k)
  <2>1. IsLastOn(l)
    BY <1>2, <1>8 DEF IsLastOn
  <2> QED
    BY <1>2, <2>1 DEF IsShaped, HasItsMark
<1>11. calls[l].kind = calls[j].kind
  BY <1>4, <1>10 DEF HasItsMark
<1>12. calls[j].kind = "delete"
  <2>1. calls[j].kind = "deleted_insert" => IsLastOn(j)
    BY <1>2 DEF IsShaped
  <2>2. ~IsLastOn(j)
    BY <1>2, <1>9 DEF IsLastOn
  <2> QED
    BY <1>6, <1>7, <2>1, <2>2
<1>13. ErasedTwice(m, k)
  <2>1. j \in Calls({"delete"}) /\ l \in Calls({"delete"})
    BY <1>1, <1>11, <1>12 DEF Calls, RowCalls
  <2> QED
    BY <1>2, <1>9, <2>1 DEF ErasedTwice, DoneTwice
<1> QED
  BY <1>13 DEF SomeErasedTwice

LEMMA CommittedRowIsARow ==
    ASSUME next_lsn \in Nat, next_lsn # 0, NEW o \in RowOps, NEW row \in Rows
    PROVE  CommittedRow(o, row) \in Rows /\ CommittedRow(o, row).op = "none"
<1>1. next_lsn - 1 \in Nat
  OBVIOUS
<1> QED
  BY <1>1, NoRowIsARow DEF CommittedRow, Rows, RowOps, Marks

\* One operation, on a row.
LEMMA CommitsRow ==
    ASSUME CallsTyped, TreesTyped, RowsAreFollowed, CallsAreShaped, AllNamed,
           next_lsn \in Nat, next_lsn # 0, NEW s, NEW i \in RowCalls, MapsCommitting(s, i - 1)
    PROVE  MapsCommitting(CommitCall(s, calls[i]), i)
<1>0. CASE s.bad
  <2>1. CommitCall(s, calls[i]) = s
    BY <1>0 DEF CommitCall
  <2> QED
    BY <1>0, <2>1 DEF MapsCommitting
<1>n. SUFFICES ASSUME ~s.bad PROVE MapsCommitting(CommitCall(s, calls[i]), i)
  BY <1>0
<1>1. PICK a, b : /\ s = Way(a, calls, b) /\ ~s.bad
                  /\ a \in [DOMAIN a -> [Keys -> Rows]] /\ DOMAIN a = DOMAIN trees
                  /\ \A m \in Names, k \in Keys : RowIsUnderWay(a, m, k, i - 1)
  BY <1>n DEF MapsCommitting
<1>2. PICK o : o = calls[i]
  OBVIOUS
<1>3. PICK x, y : x = o.home /\ y = o.key
  OBVIOUS
<1>4. /\ o \in RowOps /\ IsOnRow(o) /\ o.at = x /\ x \in Names /\ x \in DOMAIN a /\ y \in Keys
      /\ i \in 1 .. Len(calls) /\ i \in OnPlace(x, y) /\ Len(calls) \in Nat
  BY <1>1, <1>2, <1>3, ListIs DEF RowsAreFollowed, RowCalls, OnPlace, RowOps, AllNamed
<1>5. PICK r : r = a[x][y]
  OBVIOUS
<1>6. PICK row : row = trees[x][y]
  OBVIOUS
<1>7. r \in Rows /\ row \in Rows /\ s.trees[x][y] = r
  <2>1. s.trees = a
    BY <1>1 DEF Way
  <2> QED
    BY <1>1, <1>4, <1>5, <1>6, <2>1 DEF TreesTyped
<1>8. \A m, k, j : j \in OnPlace(m, k) => j \in 1 .. Len(calls)
  BY ListIs DEF OnPlace
\* A row that commit has erased is not looked at.
<1>m. CASE ~Present(r)
  <2>1. CommitCall(s, o) = Astray(s)
    BY <1>1, <1>3, <1>4, <1>7, <1>m DEF CommitCall
  <2>2. SomeErasedTwice
    <3>1. RowIsUnderWay(a, x, y, i - 1)
      BY <1>1, <1>4
    <3> QED
      BY <1>4, <1>5, <1>m, <3>1, MissingIsErasedTwice
  <2>3. \E z : Astray(s) = Way(a, calls, z) /\ Astray(s).bad
    BY <1>1, AstrayOnTheWay
  <2> QED
    BY <1>1, <1>2, <2>1, <2>2, <2>3 DEF MapsCommitting
\* A row that has been committed has no mark.
<1>9. CASE Present(r) /\ r.op = o.kind
  <2>1. PICK q : q = CommittedRow(o, row)
    OBVIOUS
  <2>2. q \in Rows
    BY <1>4, <1>7, <2>1, CommittedRowIsARow
  <2>3. r = row /\ \A j \in OnPlace(x, y) : j <= i - 1 => ~HasItsMark(j, x, y)
    <3>1. SUFFICES ASSUME \E j \in OnPlace(x, y) : j <= i - 1 /\ HasItsMark(j, x, y) PROVE FALSE
      BY <1>1, <1>4, <1>5, <1>6 DEF RowIsUnderWay
    <3>2. PICK j \in OnPlace(x, y) : r = CommittedRow(calls[j], row)
      BY <1>1, <1>4, <1>5, <1>6, <3>1 DEF RowIsUnderWay
    <3>3. calls[j] \in RowOps
      BY <3>2, ListIs DEF OnPlace
    <3>4. r.op = "none"
      BY <1>7, <3>2, <3>3, CommittedRowIsARow
    <3> QED
      BY <1>4, <1>9, <3>4 DEF RowOps
  <2>4. PICK e : e = Put(a, x, y, q)
    OBVIOUS
  <2>5. s = Way(a, calls, b)
    BY <1>1
  <2>6. CommitCall(s, o) = Way(e, calls, b)
    <3>1. CASE o.kind \in {"insert", "update"}
      <4>1. q = [val |-> IF o.kind = "update" THEN o.val ELSE r.val, op |-> "none", id |-> next_lsn - 1]
        BY <2>1, <2>3, <3>1 DEF CommittedRow
      <4>2. CASE o.kind = "insert"
        <5>1. CommitCall(s, o) = RowUnlocked(s, o, r.val, next_lsn - 1, "none")
          BY <1>1, <1>3, <1>4, <1>7, <1>9, <4>2 DEF CommitCall, CommitRow
        <5> QED
          BY <1>3, <2>4, <2>5, <4>1, <4>2, <5>1, UnlockedOnTheWay
      <4>3. CASE o.kind = "update"
        <5>1. CommitCall(s, o) = RowUnlocked(s, o, o.val, next_lsn - 1, "none")
          BY <1>1, <1>3, <1>4, <1>7, <1>9, <4>3 DEF CommitCall, CommitRow
        <5> QED
          BY <1>3, <2>4, <2>5, <4>1, <4>3, <5>1, UnlockedOnTheWay
      <4> QED
        BY <3>1, <4>2, <4>3
    <3>2. CASE o.kind \in {"delete", "deleted_insert"}
      <4>1. CommitCall(s, o) = RowErased(s, o)
        BY <1>1, <1>3, <1>4, <1>7, <1>9, <3>2 DEF CommitCall, CommitRow
      <4>2. q = NoRow /\ o.at = o.home
        BY <1>3, <1>4, <2>1, <3>2 DEF CommittedRow
      <4> QED
        BY <1>3, <2>4, <2>5, <4>1, <4>2, ErasedOnTheWay
    <3> QED
      BY <1>4, <3>1, <3>2 DEF RowOps
  <2>7. ~CommitCall(s, o).bad
    BY <1>1, <2>5, <2>6 DEF Way
  <2>8. /\ DOMAIN e = DOMAIN a /\ e \in [DOMAIN e -> [Keys -> Rows]]
        /\ \A m \in DOMAIN a, k \in Keys : e[m][k] = IF m = x /\ k = y THEN q ELSE a[m][k]
    <3>1. x \in DOMAIN a /\ y \in Keys /\ a \in [DOMAIN a -> [Keys -> Rows]]
      BY <1>1, <1>4
    <3> QED
      BY <2>2, <2>4, <3>1, PutIs
  <2>9. ASSUME NEW m \in Names, NEW k \in Keys PROVE RowIsUnderWay(e, m, k, i)
    <3>0. m \in DOMAIN a
      BY <1>1 DEF TreesTyped
    <3>1. CASE m = x /\ k = y
      <4>1. e[m][k] = CommittedRow(calls[i], trees[m][k]) /\ HasItsMark(i, m, k) /\ i <= i
        BY <1>2, <1>4, <1>6, <1>9, <2>1, <2>3, <2>8, <3>0, <3>1 DEF HasItsMark
      <4> QED
        BY <1>4, <3>1, <4>1 DEF RowIsUnderWay
    <3>2. CASE ~(m = x /\ k = y)
      <4>1. e[m][k] = a[m][k] /\ i \notin OnPlace(m, k)
        BY <1>2, <1>3, <2>8, <3>0, <3>2 DEF OnPlace
      <4>2. \A j \in OnPlace(m, k) : j <= i <=> j <= i - 1
        BY <1>4, <1>8, <4>1
      <4> QED
        BY <1>1, <4>1, <4>2 DEF RowIsUnderWay
    <3> QED
      BY <3>1, <3>2
  <2> QED
    BY <1>1, <1>2, <2>6, <2>7, <2>8, <2>9 DEF MapsCommitting
<1>10. CASE Present(r) /\ r.op # o.kind
  <2>1. CommitCall(s, o) = s
    BY <1>1, <1>3, <1>4, <1>7, <1>10 DEF CommitCall
  <2>2. ASSUME NEW m \in Names, NEW k \in Keys PROVE RowIsUnderWay(a, m, k, i)
    <3>1. CASE m = x /\ k = y
      <4>1. \A j \in OnPlace(m, k) : j <= i => j <= i - 1 \/ j = i
        BY <1>4, <1>8
      <4>2. \A j \in OnPlace(m, k) : j <= i - 1 => j <= i
        BY <1>4, <1>8
      <4>3. RowIsUnderWay(a, m, k, i - 1)
        BY <1>1
      <4>4. CASE \E j \in OnPlace(m, k) : j <= i - 1 /\ HasItsMark(j, m, k)
        BY <4>2, <4>3, <4>4 DEF RowIsUnderWay
      <4>5. CASE \A j \in OnPlace(m, k) : j <= i - 1 => ~HasItsMark(j, m, k)
        <5>1. r = row
          BY <1>5, <1>6, <3>1, <4>3, <4>5 DEF RowIsUnderWay
        <5>2. ~HasItsMark(i, m, k)
          BY <1>2, <1>6, <1>10, <3>1, <5>1 DEF HasItsMark
        <5> QED
          BY <4>1, <4>3, <4>5, <5>2 DEF RowIsUnderWay
      <4> QED
        BY <4>4, <4>5
    <3>2. CASE ~(m = x /\ k = y)
      <4>1. i \notin OnPlace(m, k)
        BY <1>2, <1>3, <3>2 DEF OnPlace
      <4>2. \A j \in OnPlace(m, k) : j <= i <=> j <= i - 1
        BY <1>4, <1>8, <4>1
      <4> QED
        BY <1>1, <4>2 DEF RowIsUnderWay
    <3> QED
      BY <3>1, <3>2
  <2> QED
    BY <1>1, <1>2, <2>1, <2>2 DEF MapsCommitting
<1> QED
  BY <1>m, <1>9, <1>10

LEMMA CommitsMap ==
    ASSUME CallsTyped, NEW s, NEW i \in 1 .. Len(calls), i \notin RowCalls, MapsCommitting(s, i - 1)
    PROVE  MapsCommitting(CommitCall(s, calls[i]), i)
<1>1. PICK a, b : /\ s = Way(a, calls, b) /\ (s.bad => SomeErasedTwice)
                  /\ a \in [DOMAIN a -> [Keys -> Rows]] /\ DOMAIN a = DOMAIN trees
                  /\ ~s.bad => \A m \in Names, k \in Keys : RowIsUnderWay(a, m, k, i - 1)
  BY DEF MapsCommitting
<1>2. CommitCall(s, calls[i]) = s
  BY ListIs DEF CommitCall, RowCalls
<1>3. ASSUME ~s.bad, NEW m \in Names, NEW k \in Keys PROVE RowIsUnderWay(a, m, k, i)
  <2>1. i \notin OnPlace(m, k) /\ \A j \in OnPlace(m, k) : j \in 1 .. Len(calls)
    BY ListIs DEF OnPlace
  <2>2. Len(calls) \in Nat
    BY ListIs
  <2>3. \A j \in OnPlace(m, k) : j <= i <=> j <= i - 1
    BY <2>1, <2>2
  <2> QED
    BY <1>1, <1>3, <2>3 DEF RowIsUnderWay
<1> QED
  BY <1>1, <1>2, <1>3 DEF MapsCommitting

LEMMA CommitComesTo ==
    ASSUME Sound, AllNamed, next_lsn \in Nat, next_lsn # 0
    PROVE  MapsCommitting(CommittedMaps, Len(calls))
<1> DEFINE n == Len(calls)
<1>1. CallsTyped /\ TreesTyped /\ RowsAreFollowed /\ CallsAreShaped
  BY DEF Sound
<1>2. n \in Nat /\ DOMAIN calls = 1 .. n
  BY <1>1, ListIs
<1>3. PICK g : /\ g[0] = AllMaps
               /\ \A i \in 1 .. n : g[i] = CommitCall(g[i - 1], calls[i])
               /\ CommittedMaps = g[n]
  BY <1>2, CommitRuns
<1> DEFINE S == {i \in 0 .. n : MapsCommitting(g[i], i)}
<1>4. 0 \in S
  <2>1. AllMaps = Way(trees, calls, FALSE) /\ ~AllMaps.bad
    BY DEF AllMaps, Way
  <2>2. \A m, k : \A j \in OnPlace(m, k) : ~(j <= 0)
    BY <1>1, <1>2, ListIs DEF OnPlace
  <2>3. \A m \in Names, k \in Keys : RowIsUnderWay(trees, m, k, 0)
    BY <2>2 DEF RowIsUnderWay
  <2>4. trees \in [DOMAIN trees -> [Keys -> Rows]]
    BY <1>1 DEF TreesTyped
  <2>5. MapsCommitting(AllMaps, 0)
    BY <2>1, <2>3, <2>4 DEF MapsCommitting
  <2>6. 0 \in 0 .. n
    BY <1>2
  <2> QED
    BY <1>3, <2>5, <2>6
<1>5. ASSUME NEW i \in 0 .. n, i \in S, i < n
      PROVE  i + 1 \in S
  <2>0. i \in 0 .. n /\ i < n
    BY <1>5
  <2>1. PICK j : j = i + 1
    OBVIOUS
  <2>2. j \in 1 .. n /\ j - 1 = i /\ j \in 0 .. n
    <3> HIDE DEF n, S
    <3> QED
      BY <1>2, <2>0, <2>1
  <2>3. g[j] = CommitCall(g[i], calls[j]) /\ MapsCommitting(g[i], j - 1)
    BY <1>3, <1>5, <2>2
  <2>5. MapsCommitting(g[j], j)
    BY <1>1, <2>2, <2>3, CommitsRow, CommitsMap
  <2> QED
    BY <2>1, <2>2, <2>5
<1>6. n \in S
  <2> HIDE DEF S
  <2>1. S \subseteq 0 .. n
    BY DEF S
  <2>2. S = 0 .. n
    BY <1>2, <1>4, <1>5, <2>1, UpTo
  <2> QED
    BY <1>2, <2>2
<1> QED
  BY <1>3, <1>6

-----------------------------------------------------------------------------
\* Redo

IsLogged == record = [i \in DOMAIN calls |-> AddedToLog(calls[i])]

\* What the operation o leaves of the row of k in m, and what there is before any.
RedoneRow(o, m, k) ==
    IF o.kind \in {"delete", "deleted_insert"} THEN NotThere
    ELSE [val |-> IF o.kind = "insert" THEN trees[m][k].val ELSE o.val, lsn |-> next_lsn - 1]
Untouched(m, k, i) == IF \E l \in ClearsOf(m) : l <= i THEN NotThere ELSE FirstFoundIn(m, k)
RowIsRedone(r, m, k, i) ==
    /\ (\A j \in OnPlace(m, k) : ~(j <= i)) => r[m][k] = Untouched(m, k, i)
    /\ \A j \in OnPlace(m, k) :
          j <= i /\ (\A l \in OnPlace(m, k) : l <= i => l <= j) => r[m][k] = RedoneRow(calls[j], m, k)
Redoing(r, i) ==
    /\ DOMAIN r = Names /\ \A m \in Names : DOMAIN r[m] = Keys
    /\ \A m \in Names, k \in Keys : RowIsRedone(r, m, k, i)

\* All of the record can be read.
LEMMA AllIsReadable ==
    ASSUME CallsTyped, AllNamed, IsLogged, NEW i \in DOMAIN calls
    PROVE  /\ ~LeavesUnread(record[i]) /\ record[i].map \in Names /\ i \in DOMAIN record
           /\ IsOnRow(calls[i]) => record[i] = LoggedRow(calls[i])
           /\ ~IsOnRow(calls[i]) =>
                /\ record[i].kind = "clear" /\ calls[i].kind = "clear"
                /\ record[i].map = calls[i].map /\ calls[i] \in MapOps
<1>1. record[i] = AddedToLog(calls[i]) /\ i \in DOMAIN record
  BY DEF IsLogged
<1>2. CASE IsOnRow(calls[i])
  <2>1. record[i] = LoggedRow(calls[i])
    BY <1>1, <1>2 DEF AddedToLog, IsOnRow
  <2>2. calls[i].at \in Names /\ calls[i] \in RowOps
    BY <1>2, ListIs DEF AllNamed, RowCalls
  <2>3. record[i].map \in Names
    BY <1>2, <2>1, <2>2 DEF LoggedRow, HeaderName
  <2>4. record[i].kind # "clear"
    BY <2>1, <2>2 DEF LoggedRow, LoggedKind, RowOps
  <2> QED
    BY <1>1, <1>2, <2>1, <2>3, <2>4 DEF LeavesUnread
<1>3. CASE ~IsOnRow(calls[i])
  <2>1. calls[i] \in MapOps /\ calls[i].kind # "swap"
    BY <1>3, ListIs DEF AllNamed, RowCalls, Calls
  <2>2. calls[i].kind = "clear" /\ calls[i].map \in Names
    BY <2>1 DEF MapOps
  <2>3. record[i] = LoggedClear(calls[i])
    BY <1>1, <1>3, <2>2 DEF AddedToLog
  <2>4. record[i].kind = "clear" /\ record[i].map = calls[i].map /\ ~record[i].body
    BY <1>3, <2>3 DEF LoggedClear, HeaderName
  <2> QED
    BY <1>1, <1>3, <2>1, <2>2, <2>4 DEF LeavesUnread
<1> QED
  BY <1>2, <1>3

\* One operation, on a row.
LEMMA RedoesRow ==
    ASSUME Sound, AllNamed, IsLogged, NEW r, NEW i \in RowCalls, Redoing(r, i - 1)
    PROVE  Redoing(RedoCall(r, record[i]), i)
<1>0. CallsTyped /\ RowsAreFollowed /\ CallsAreShaped
  BY DEF Sound
<1>1. PICK o, x, y, p : o = calls[i] /\ x = o.home /\ y = o.key /\ p = RedoCall(r, record[i])
  OBVIOUS
<1>2. /\ o \in RowOps /\ IsOnRow(o) /\ o.at = x /\ x \in Names /\ y \in Keys /\ i \in DOMAIN calls
      /\ i \in 1 .. Len(calls) /\ i \in OnPlace(x, y) /\ Len(calls) \in Nat
  BY <1>0, <1>1, ListIs DEF RowsAreFollowed, RowCalls, OnPlace, RowOps, AllNamed
<1>3. \A m, k, j : j \in OnPlace(m, k) => j \in 1 .. Len(calls)
  BY <1>0, ListIs DEF OnPlace
<1>4. PICK c : c = record[i]
  OBVIOUS
<1>5. c.map = x /\ c.key = y /\ c.kind = LoggedKind(o)
      /\ c.val = IF o.kind = "insert" THEN trees[x][y].val ELSE o.val
  <2>1. c = LoggedRow(o)
    BY <1>0, <1>1, <1>2, <1>4, AllIsReadable
  <2>2. c.map = HeaderName(o) /\ c.key = o.key /\ c.kind = LoggedKind(o)
    BY <2>1 DEF LoggedRow
  <2>3. c.val = IF o.kind = "insert" THEN trees[o.home][o.key].val ELSE o.val
    BY <2>1 DEF LoggedRow
  <2>4. HeaderName(o) = x
    BY <1>2 DEF HeaderName
  <2> QED
    BY <1>1, <2>2, <2>3, <2>4
<1>6. PICK q : q = RedoOne(y, [lsn |-> next_lsn - 1], r[x][y], c)
  OBVIOUS
<1>7. p = [r EXCEPT ![x][y] = q]
  <2>1. c.map \in Names /\ c.kind # "clear"
    BY <1>2, <1>5 DEF LoggedKind, RowOps
  <2> QED
    BY <1>1, <1>4, <1>5, <1>6, <2>1 DEF RedoCall
<1>8. /\ DOMAIN p = Names /\ \A m \in Names : DOMAIN p[m] = Keys
      /\ \A m \in Names, k \in Keys : p[m][k] = IF m = x /\ k = y THEN q ELSE r[m][k]
  BY <1>2, <1>7 DEF Redoing
\* An insert finds no row: it comes first, and what was there was cleared or never was.
<1>9. q = RedoneRow(o, x, y)
  <2>1. CASE o.kind \in {"delete", "deleted_insert"}
    BY <1>5, <1>6, <2>1 DEF RedoOne, LoggedKind, RedoneRow
  <2>2. CASE o.kind = "update"
    BY <1>5, <1>6, <2>2 DEF RedoOne, LoggedKind, RedoneRow
  <2>3. CASE o.kind = "insert"
    <3>1. IsShaped(i)
      BY <1>0, <1>1, <1>2 DEF CallsAreShaped, AllNamed
    <3>2. IsFirstOn(i) /\ Base(x, y) = NoRow
      BY <1>1, <2>3, <3>1 DEF IsShaped
    <3>3. \A j \in OnPlace(x, y) : ~(j <= i - 1)
      BY <1>1, <1>2, <1>3, <3>2 DEF IsFirstOn
    <3>4. r[x][y] = Untouched(x, y, i - 1)
      BY <1>2, <3>3 DEF Redoing, RowIsRedone
    <3>5. Untouched(x, y, i - 1) = NotThere
      <4>1. CASE ClearsOf(x) # {}
        <5>1. PICK l \in ClearsOf(x) : l < i
          BY <1>0, <1>1, <4>1 DEF CallsAreShaped, AllNamed
        <5>2. l \in 1 .. Len(calls)
          BY <1>0, ListIs DEF ClearsOf
        <5>3. l <= i - 1
          BY <1>2, <5>1, <5>2
        <5> QED
          BY <5>3 DEF Untouched
      <4>2. CASE ClearsOf(x) = {}
        <5>1. FirstTrees[x][y] = NoRow
          BY <3>2, <4>2 DEF Base
        <5> QED
          BY <4>2, <5>1 DEF Untouched, FirstFoundIn, NoRow, NotThere
      <4> QED
        BY <4>1, <4>2
    <3> QED
      BY <1>5, <1>6, <2>3, <3>4, <3>5 DEF RedoOne, LoggedKind, RedoneRow
  <2> QED
    BY <1>2, <2>1, <2>2, <2>3 DEF RowOps
<1>10. ASSUME NEW m \in Names, NEW k \in Keys PROVE RowIsRedone(p, m, k, i)
  <2>1. CASE m = x /\ k = y
    <3>1. i <= i /\ p[m][k] = RedoneRow(calls[i], m, k)
      BY <1>1, <1>2, <1>8, <1>9, <2>1
    <3>2. ASSUME NEW j \in OnPlace(m, k), j <= i, \A l \in OnPlace(m, k) : l <= i => l <= j
          PROVE  j = i
      <4>1. i <= j
        BY <1>2, <2>1, <3>1, <3>2
      <4> QED
        BY <1>2, <1>3, <3>2, <4>1
    <3> QED
      BY <1>2, <2>1, <3>1, <3>2 DEF RowIsRedone
  <2>2. CASE ~(m = x /\ k = y)
    <3>1. p[m][k] = r[m][k] /\ i \notin OnPlace(m, k)
      BY <1>1, <1>8, <2>2 DEF OnPlace
    <3>2. \A j \in OnPlace(m, k) : j <= i <=> j <= i - 1
      BY <1>2, <1>3, <3>1
    <3>3. \A l \in ClearsOf(m) : l <= i <=> l <= i - 1
      <4>1. \A l \in ClearsOf(m) : l \in 1 .. Len(calls) /\ l # i
        BY <1>0, ListIs DEF ClearsOf, Calls, RowCalls, IsOnRow
      <4> QED
        BY <1>2, <4>1
    <3>4. Untouched(m, k, i) = Untouched(m, k, i - 1)
      BY <3>3 DEF Untouched
    <3>5. RowIsRedone(r, m, k, i - 1)
      BY DEF Redoing
    <3> QED
      BY <3>1, <3>2, <3>4, <3>5 DEF RowIsRedone
  <2> QED
    BY <2>1, <2>2
<1> QED
  BY <1>1, <1>8, <1>10 DEF Redoing

\* One clear().
LEMMA RedoesClear ==
    ASSUME Sound, AllNamed, IsLogged, NEW r, NEW i \in 1 .. Len(calls), i \notin RowCalls,
           Redoing(r, i - 1)
    PROVE  Redoing(RedoCall(r, record[i]), i)
<1>0. CallsTyped /\ CallsAreShaped
  BY DEF Sound
<1>1. PICK x, p : x = calls[i].map /\ p = RedoCall(r, record[i])
  OBVIOUS
<1>2. i \in DOMAIN calls /\ ~IsOnRow(calls[i]) /\ Len(calls) \in Nat
  BY <1>0, ListIs DEF RowCalls
<1>3. record[i].kind = "clear" /\ calls[i].kind = "clear" /\ record[i].map = x /\ x \in Names
  BY <1>0, <1>1, <1>2, AllIsReadable
<1>4. p = [r EXCEPT ![x] = [k \in Keys |-> NotThere]]
  BY <1>1, <1>3 DEF RedoCall, RedoClear
<1>5. /\ DOMAIN p = Names /\ \A m \in Names : DOMAIN p[m] = Keys
      /\ \A m \in Names, k \in Keys : p[m][k] = IF m = x THEN NotThere ELSE r[m][k]
  BY <1>3, <1>4 DEF Redoing
<1>6. i \in ClearsOf(x)
  BY <1>1, <1>2, <1>3 DEF ClearsOf, Calls
<1>7. ASSUME NEW m \in Names, NEW k \in Keys PROVE RowIsRedone(p, m, k, i)
  <2>0. \A j \in OnPlace(m, k) : j \in 1 .. Len(calls) /\ j # i
    BY <1>0, ListIs DEF OnPlace
  <2>1. CASE m = x
    <3>1. ASSUME NEW j \in OnPlace(m, k) PROVE ~(j <= i)
      <4>1. i < j
        BY <1>0, <1>6, <2>1 DEF CallsAreShaped, AllNamed, OnPlace
      <4> QED
        BY <1>2, <2>0, <4>1
    <3>2. Untouched(m, k, i) = NotThere
      <4>1. i <= i
        BY <1>2
      <4> QED
        BY <1>6, <2>1, <4>1 DEF Untouched
    <3> QED
      BY <1>5, <2>1, <3>1, <3>2 DEF RowIsRedone
  <2>2. CASE m # x
    <3>1. \A j \in OnPlace(m, k) : j <= i <=> j <= i - 1
      BY <1>2, <2>0
    <3>2. \A l \in ClearsOf(m) : l <= i <=> l <= i - 1
      <4>1. \A l \in ClearsOf(m) : l \in 1 .. Len(calls) /\ l # i
        BY <1>0, <1>1, <2>2, ListIs DEF ClearsOf
      <4> QED
        BY <1>2, <4>1
    <3>3. Untouched(m, k, i) = Untouched(m, k, i - 1)
      BY <3>2 DEF Untouched
    <3>4. RowIsRedone(r, m, k, i - 1)
      BY DEF Redoing
    <3> QED
      BY <1>5, <2>2, <3>1, <3>3, <3>4 DEF RowIsRedone
  <2> QED
    BY <2>1, <2>2
<1> QED
  BY <1>1, <1>5, <1>7 DEF Redoing

LEMMA RedoComesTo ==
    ASSUME Sound, AllNamed, IsLogged
    PROVE  Redoing(RecoveredMaps, Len(calls))
<1> DEFINE n == Len(calls)
<1>1. CallsTyped
  BY DEF Sound
<1>2. n \in Nat /\ DOMAIN calls = 1 .. n
  BY <1>1, ListIs
<1>3. Len(record) = n
  BY <1>2 DEF IsLogged
<1>4. PICK g : /\ g[0] = FirstFoundMaps
               /\ \A i \in 1 .. n : g[i] = RedoStep(g[i - 1], i)
               /\ RecoveredMaps = g[n]
  BY <1>2, <1>3, RedoRuns
<1>5. ASSUME NEW i \in 1 .. n PROVE ~Unreadable(i)
  <2>1. \A j \in 1 .. i - 1 : j \in DOMAIN calls
    BY <1>2
  <2> QED
    BY <1>1, <2>1, AllIsReadable DEF Unreadable
<1> DEFINE S == {i \in 0 .. n : Redoing(g[i], i)}
<1>6. 0 \in S
  <2>1. \A m, k : \A j \in OnPlace(m, k) : ~(j <= 0)
    BY <1>1, <1>2, ListIs DEF OnPlace
  <2>2. \A m : \A l \in ClearsOf(m) : ~(l <= 0)
    BY <1>1, <1>2, ListIs DEF ClearsOf
  <2>3. \A m \in Names, k \in Keys : RowIsRedone(FirstFoundMaps, m, k, 0)
    BY <2>1, <2>2 DEF RowIsRedone, FirstFoundMaps, Untouched
  <2>4. Redoing(FirstFoundMaps, 0)
    BY <2>3 DEF Redoing, FirstFoundMaps
  <2>5. 0 \in 0 .. n
    BY <1>2
  <2> QED
    BY <1>4, <2>4, <2>5
<1>7. ASSUME NEW i \in 0 .. n, i \in S, i < n
      PROVE  i + 1 \in S
  <2>0. i \in 0 .. n /\ i < n
    BY <1>7
  <2>1. PICK j : j = i + 1
    OBVIOUS
  <2>2. j \in 1 .. n /\ j - 1 = i /\ j \in 0 .. n
    <3> HIDE DEF n, S
    <3> QED
      BY <1>2, <2>0, <2>1
  <2>3. g[j] = RedoCall(g[i], record[j]) /\ Redoing(g[i], j - 1)
    BY <1>4, <1>5, <1>7, <2>2 DEF RedoStep
  <2>4. Redoing(g[j], j)
    BY <2>2, <2>3, RedoesRow, RedoesClear
  <2> QED
    BY <2>1, <2>2, <2>4
<1>8. n \in S
  <2> HIDE DEF S
  <2>1. S \subseteq 0 .. n
    BY DEF S
  <2>2. S = 0 .. n
    BY <1>2, <1>6, <1>7, <2>1, UpTo
  <2> QED
    BY <1>2, <2>2
<1> QED
  BY <1>4, <1>8

-----------------------------------------------------------------------------
\* The end of the transaction

\* Commit and redo come to the same row.
LEMMA CommitAgreesWithRedo ==
    ASSUME Sound, AllNamed, IsLogged, next_lsn \in Nat, next_lsn # 0, NEW m \in Names, NEW k \in Keys,
           ~UpdatedTwice(m, k), ~CommittedMaps.bad, NEW row, row = CommittedMaps.trees[m][k]
    PROVE  RecoveredMaps[m][k] = [val |-> row.val, lsn |-> row.id]
<1>1. CallsTyped /\ TreesTyped /\ RowsAreFollowed /\ CallsAreShaped
  BY DEF Sound
<1>2. PICK a, b : /\ CommittedMaps = Way(a, calls, b)
                  /\ RowIsUnderWay(a, m, k, Len(calls))
  BY CommitComesTo DEF MapsCommitting
<1>3. row = a[m][k]
  BY <1>2 DEF Way
<1>4. RowIsRedone(RecoveredMaps, m, k, Len(calls))
  BY RedoComesTo DEF Redoing
<1>5. /\ \A j \in OnPlace(m, k) : j \in 1 .. Len(calls) /\ j <= Len(calls) /\ j \in RowCalls
      /\ \A l \in ClearsOf(m) : l <= Len(calls)
  BY <1>1, ListIs DEF OnPlace, ClearsOf
<1>6. CASE OnPlace(m, k) = {}
  <2>1. row = trees[m][k] /\ trees[m][k] = Base(m, k)
    BY <1>1, <1>2, <1>3, <1>6 DEF RowIsUnderWay, CallsAreShaped, AllNamed
  <2>2. RecoveredMaps[m][k] = Untouched(m, k, Len(calls))
    BY <1>4, <1>6 DEF RowIsRedone
  <2>3. CASE ClearsOf(m) # {}
    BY <1>5, <2>1, <2>2, <2>3 DEF Untouched, Base, NoRow, NotThere
  <2>4. CASE ClearsOf(m) = {}
    BY <2>1, <2>2, <2>4 DEF Untouched, Base, FirstFoundIn
  <2> QED
    BY <2>3, <2>4
<1>7. CASE OnPlace(m, k) # {}
  <2>1. PICK j \in OnPlace(m, k) : \A l \in OnPlace(m, k) : l <= j
    BY <1>1, <1>7, LastIsThere
  <2>2. j \in RowCalls /\ calls[j].home = m /\ calls[j].key = k /\ calls[j] \in RowOps
    BY <1>1, ListIs DEF OnPlace
  <2>3. HasItsMark(j, m, k)
    <3>1. IsShaped(j) /\ IsLastOn(j)
      BY <1>1, <2>1, <2>2 DEF CallsAreShaped, AllNamed, IsLastOn
    <3> QED
      BY <2>2, <3>1 DEF IsShaped, HasItsMark
  <2>4. PICK i \in OnPlace(m, k) : HasItsMark(i, m, k) /\ row = CommittedRow(calls[i], trees[m][k])
    BY <1>2, <1>3, <1>5, <2>3 DEF RowIsUnderWay
  <2>5. RecoveredMaps[m][k] = RedoneRow(calls[j], m, k)
    BY <1>4, <1>5, <2>1 DEF RowIsRedone
  <2>6. calls[i].kind = calls[j].kind
    BY <2>3, <2>4 DEF HasItsMark
  <2>7. CASE calls[j].kind = "update"
    <3>1. i = j
      BY <1>5, <2>1, <2>4, <2>6, <2>7 DEF UpdatedTwice, DoneTwice, Calls, OnPlace, RowCalls
    <3> QED
      BY <2>4, <2>5, <2>7, <3>1 DEF CommittedRow, RedoneRow
  <2>8. CASE calls[j].kind = "insert"
    BY <2>4, <2>5, <2>6, <2>8 DEF CommittedRow, RedoneRow
  <2>9. CASE calls[j].kind \in {"delete", "deleted_insert"}
    BY <2>4, <2>5, <2>6, <2>9 DEF CommittedRow, RedoneRow, NoRow, NotThere
  <2> QED
    BY <2>2, <2>7, <2>8, <2>9 DEF RowOps
<1> QED
  BY <1>6, <1>7

LEMMA SoundStays ==
    ASSUME Sound, calls' = calls, trees' = trees, lock_id' \in Nat
    PROVE  Sound'
<1>1. CallsTyped /\ TreesTyped /\ RowsAreFollowed /\ CanBeUndone /\ CallsAreShaped
  BY DEF Sound
<1>2. CallsTyped' /\ TreesTyped'
  BY <1>1 DEF CallsTyped, TreesTyped, Calls
<1>3. RowsAreFollowed'
  BY <1>1 DEF RowsAreFollowed, RowCalls
<1>4. CanBeUndone'
  <2>1. PICK t, h : IsHistory(t, h)
    BY <1>1 DEF CanBeUndone
  <2>2. Masked(trees)' = Masked(trees)
    BY DEF Masked
  <2>3. IsHistory(t, h)'
    BY <2>1, <2>2 DEF IsHistory, RowCalls
  <2> QED
    BY <2>3 DEF CanBeUndone
<1>5. CallsAreShaped'
  <2>1. /\ Calls({"swap"})' = Calls({"swap"}) /\ RowCalls' = RowCalls
        /\ \A x : ClearsOf(x)' = ClearsOf(x)
        /\ \A x, j : OnPlace(x, j)' = OnPlace(x, j) /\ Base(x, j)' = Base(x, j)
    BY DEF RowCalls, ClearsOf, Calls, OnPlace, Base
  <2>2. \A i : IsShaped(i)' <=> IsShaped(i)
    BY DEF IsShaped, IsLastOn, IsFirstOn, OnPlace, RowCalls, Base, ClearsOf, Calls
  <2>3. SUFFICES ASSUME Calls({"swap"}) = {} PROVE CallsAreShaped'
    BY <2>1 DEF CallsAreShaped
  <2>4. ASSUME NEW i \in RowCalls, NEW l \in Calls({"clear"}), calls[l].map = calls[i].home PROVE l < i
    BY <1>1, <2>3, <2>4 DEF CallsAreShaped, ClearsOf
  <2>5. \A m \in Names, k \in Keys : OnPlace(m, k) = {} => trees[m][k] = Base(m, k)
    BY <1>1, <2>3 DEF CallsAreShaped
  <2>6. \A i \in RowCalls : calls[i].home \in Names => IsShaped(i)
    BY <1>1, <2>3 DEF CallsAreShaped
  <2>7. \A i \in RowCalls' : \A l \in ClearsOf(calls[i].home)' : l < i
    BY <2>1, <2>4 DEF ClearsOf, Calls
  <2> QED
    BY <2>1, <2>2, <2>5, <2>6, <2>7 DEF CallsAreShaped
<1> QED
  BY <1>2, <1>3, <1>4, <1>5 DEF Sound

LEMMA CommitComesToTheLog ==
    ASSUME Sound, IsLogged, next_lsn \in Nat, next_lsn # 0, CommitExclusive
    PROVE  RecoveredMapsAreCommitted'
<1>1. /\ trees' = [m \in Names |-> CommittedMaps.trees[m]] /\ broken' = CommittedMaps.bad
      /\ calls' = calls /\ record' = record /\ next_lsn' = next_lsn
  BY DEF CommitExclusive, EndExclusive, vars
<1>2. /\ Calls({"swap"})' = Calls({"swap"}) /\ RowCalls' = RowCalls
      /\ \A op, m, k : DoneTwice(op, m, k)' <=> DoneTwice(op, m, k)
      /\ RecoveredMaps' = RecoveredMaps
  BY <1>1, RecoveryStays DEF Calls, RowCalls, DoneTwice
<1>3. SUFFICES ASSUME AllNamed
               PROVE  IF CommittedMaps.bad THEN SomeErasedTwice
                      ELSE \A m \in Names, k \in Keys :
                           UpdatedTwice(m, k)
                           \/ RecoveredMaps'[m][k] = [val |-> trees'[m][k].val, lsn |-> trees'[m][k].id]
  BY <1>1, <1>2 DEF RecoveredMapsAreCommitted, AllNamed, SomeErasedTwice, UpdatedTwice, ErasedTwice
<1>4. CommittedMaps.bad => SomeErasedTwice
  BY <1>3, CommitComesTo DEF MapsCommitting
<1>5. ASSUME ~CommittedMaps.bad, NEW m \in Names, NEW k \in Keys, ~UpdatedTwice(m, k)
      PROVE  RecoveredMaps'[m][k] = [val |-> trees'[m][k].val, lsn |-> trees'[m][k].id]
  <2>1. PICK row : row = CommittedMaps.trees[m][k]
    OBVIOUS
  <2>2. RecoveredMaps[m][k] = [val |-> row.val, lsn |-> row.id]
    BY <1>3, <1>5, <2>1, CommitAgreesWithRedo
  <2>3. trees'[m][k] = row
    BY <1>1, <2>1
  <2> QED
    BY <1>2, <2>2, <2>3
<1> QED
  BY <1>4, <1>5

LEMMA RollbackRestores ==
    ASSUME Sound, RollbackExclusive
    PROVE  MapsAreRestored'
<1>1. /\ trees' = [m \in Names |-> RolledBackMaps.trees[m]] /\ broken' = RolledBackMaps.bad
      /\ calls' = calls
  BY DEF RollbackExclusive, EndExclusive
<1>2. WentWrong' <=> WentWrong
  BY <1>1 DEF WentWrong, Calls
<1>3. IF broken' THEN WentWrong' ELSE trees' = FirstTrees
  BY <1>1, <1>2, RollbackComesBack
<1> QED
  BY <1>3 DEF MapsAreRestored, WentWrong

\* What holds of the exclusive transaction on its way.
ExclusiveInv ==
    \/ stage = "idle" /\ Sound /\ calls = <<>> /\ WalkInv
    \/ stage = "active" /\ Sound /\ next_lsn \in Nat
    \/ stage = "logged" /\ Sound /\ next_lsn \in Nat /\ next_lsn # 0 /\ IsLogged
    \/ stage = "rolled back" /\ MapsAreRestored
    \/ stage = "committed" /\ RecoveredMapsAreCommitted

LEMMA ExclusiveInvAtTheStart == ExclusiveInit => ExclusiveInv
<1> SUFFICES ASSUME ExclusiveInit PROVE ExclusiveInv
  OBVIOUS
<1>1. stage = "idle" /\ calls = <<>> /\ trees = FirstTrees /\ lock_id \in Nat /\ WalkInit
  BY DEF ExclusiveInit
<1> QED
  BY <1>1, SoundAtTheStart, WalkInvAtTheStart DEF ExclusiveInv

LEMMA ExclusiveInvIsKept == ExclusiveInv /\ [ExclusiveNext]_<<vars, view, exclusive>> => ExclusiveInv'
<1> SUFFICES ASSUME ExclusiveInv, [ExclusiveNext]_<<vars, view, exclusive>> PROVE ExclusiveInv'
  OBVIOUS
<1>1. CASE stage = "idle" /\ WalkNext /\ UNCHANGED exclusive
  <2>1. Sound /\ calls = <<>> /\ WalkInv
    BY <1>1 DEF ExclusiveInv
  <2>2. WalkInv'
    BY <1>1, <2>1, WalkInvIsKept
  <2>3. stage' = "idle" /\ calls' = calls /\ trees' = trees /\ lock_id' = lock_id
    BY <1>1 DEF exclusive
  <2>4. lock_id \in Nat
    BY <2>1 DEF Sound, TreesTyped
  <2>5. Sound'
    BY <2>1, <2>3, <2>4, SoundStays
  <2> QED
    BY <2>1, <2>2, <2>3, <2>5 DEF ExclusiveInv
<1>2. CASE BeginExclusive
  <2>1. stage = "idle" /\ Sound /\ WalkInv
    BY <1>2 DEF BeginExclusive, ExclusiveInv
  <2>2. next_txn_id \in Nat /\ next_lsn \in Nat
    BY <2>1 DEF WalkInv, LogInv, MapInv, Typed, TypeOK
  <2>3. /\ stage' = "active" /\ calls' = calls /\ trees' = trees /\ lock_id' = next_txn_id
        /\ next_lsn' = next_lsn
    BY <1>2 DEF BeginExclusive
  <2>4. Sound'
    BY <2>1, <2>2, <2>3, SoundStays
  <2> QED
    BY <2>2, <2>3, <2>4 DEF ExclusiveInv
<1>3. CASE CallMap
  <2>1. stage = "active" /\ Sound /\ next_lsn \in Nat
    BY <1>3 DEF CallMap, Working, ExclusiveInv
  <2>2. stage' = "active" /\ next_lsn' = next_lsn
    BY <1>3, <2>1 DEF CallMap, vars
  <2> QED
    BY <1>3, <2>1, <2>2, SoundAfterCall DEF ExclusiveInv
<1>4. CASE WriteExclusive
  <2>1. stage = "active" /\ Sound /\ next_lsn \in Nat
    BY <1>4 DEF WriteExclusive, ExclusiveInv
  <2>2. /\ stage' = "logged" /\ next_lsn' = next_lsn + 1
        /\ calls' = calls /\ trees' = trees /\ lock_id' = lock_id
        /\ record' = [i \in DOMAIN calls |-> AddedToLog(calls[i])]
    BY <1>4 DEF WriteExclusive
  <2>3. Sound'
    BY <2>1, <2>2, SoundStays DEF Sound, TreesTyped
  <2>4. IsLogged'
    BY <2>2 DEF IsLogged, AddedToLog, LoggedClear, LoggedSwap, LoggedRow, HeaderName
  <2> QED
    BY <2>1, <2>2, <2>3, <2>4 DEF ExclusiveInv
<1>5. CASE CommitExclusive
  <2>1. Sound /\ next_lsn \in Nat /\ next_lsn # 0 /\ IsLogged
    BY <1>5 DEF CommitExclusive, ExclusiveInv
  <2>2. stage' = "committed"
    BY <1>5 DEF CommitExclusive, EndExclusive
  <2> QED
    BY <1>5, <2>1, <2>2, CommitComesToTheLog DEF ExclusiveInv
<1>6. CASE RollbackExclusive
  <2>1. Sound
    BY <1>6 DEF RollbackExclusive, ExclusiveInv
  <2>2. stage' = "rolled back"
    BY <1>6 DEF RollbackExclusive, EndExclusive
  <2> QED
    BY <1>6, <2>1, <2>2, RollbackRestores DEF ExclusiveInv
<1>7. CASE UNCHANGED <<vars, view, exclusive>> \/ ExclusiveEnded
  <2>0. UNCHANGED <<vars, view, exclusive>>
    BY <1>7 DEF ExclusiveEnded
  <2>1. /\ stage' = stage /\ calls' = calls /\ trees' = trees /\ lock_id' = lock_id
        /\ record' = record /\ broken' = broken /\ next_lsn' = next_lsn
    BY <2>0 DEF vars, exclusive
  <2>2. Sound => Sound'
    BY <2>1, SoundStays DEF Sound, TreesTyped
  <2>3. WalkInv => WalkInv'
    BY <2>0, WalkInvIsKept
  <2>4. IsLogged => IsLogged'
    BY <2>1 DEF IsLogged, AddedToLog, LoggedClear, LoggedSwap, LoggedRow, HeaderName
  <2>5. MapsAreRestored => MapsAreRestored'
    BY <2>1 DEF MapsAreRestored, Calls
  <2>6. RecoveredMapsAreCommitted => RecoveredMapsAreCommitted'
    <3>1. RecoveredMaps' = RecoveredMaps
      BY <2>1, RecoveryStays
    <3> QED
      BY <2>1, <3>1 DEF RecoveredMapsAreCommitted, Calls, RowCalls, UpdatedTwice, ErasedTwice, DoneTwice
  <2> QED
    BY <2>1, <2>2, <2>3, <2>4, <2>5, <2>6 DEF ExclusiveInv
<1> QED
  BY <1>1, <1>2, <1>3, <1>4, <1>5, <1>6, <1>7 DEF ExclusiveNext

\* An exclusive transaction finds each row that it has changed where it is, whatever maps it
\* has cleared and swapped since, and rollback brings both maps back, but for a row that was
\* inserted before a clear() or a swap().
THEOREM ExclusiveRollbackRestores == ExclusiveSpec => []RollbackRestoresMaps
<1>1. ExclusiveInv => RollbackRestoresMaps
  <2> SUFFICES ASSUME ExclusiveInv PROVE RollbackRestoresMaps
    OBVIOUS
  <2>1. stage \in {"active", "logged"} => RowsAreFollowed
    BY DEF ExclusiveInv, Sound
  <2>2. MapsAreRestored
    BY DEF ExclusiveInv, MapsAreRestored
  <2> QED
    BY <2>1, <2>2 DEF RollbackRestoresMaps, OperationsFollowTheirRows, RowsAreFollowed
<1> QED
  BY <1>1, ExclusiveInvAtTheStart, ExclusiveInvIsKept, PTL DEF ExclusiveSpec

\* The commit of an exclusive transaction and the redo of its record come to the same maps,
\* but where maps were swapped, a row was changed before a clear() of its map, or updated twice.
THEOREM ExclusiveCommitsAreRecovered == ExclusiveSpec => []RecoveredMapsAreCommitted
<1>1. ExclusiveInv => RecoveredMapsAreCommitted
  BY DEF ExclusiveInv, RecoveredMapsAreCommitted
<1> QED
  BY <1>1, ExclusiveInvAtTheStart, ExclusiveInvIsKept, PTL DEF ExclusiveSpec
=============================================================================

----------------------------- MODULE StressTest -----------------------------
(***************************************************************************)
(* stress_test_ckpt, the program that drives the library the way that its  *)
(* applications do: threads of one process share one open database through *)
(* a global pointer and a shared_mutex.  Workers run transactions on the   *)
(* rows of an rbtree; one thread takes checkpoints and one marks the       *)
(* region invalid, after which the first worker that is told so closes the *)
(* database and opens, hence recovers, it.  Every use of the pointer is    *)
(* under the shared mutex; whoever opens, recovers or closes releases it   *)
(* first, takes it exclusively and looks at the pointer again.             *)
(*                                                                         *)
(* An object is its address, which a later object may have again.  The     *)
(* mutex's shared holders are the threads at certain steps, and so are     *)
(* those of the tree's lock; the exclusive sections are single steps.  A   *)
(* row is what other rows of this library's trees are (TransTree), less    *)
(* its values; its key's text is a string of Allocators.  What ends the    *)
(* program or is beyond what its code determines ends the behaviour        *)
(* (ended): an opening that failed and is used all the same, memory that   *)
(* runs out, memory given back to the wrong manager, the updates and       *)
(* erases of a transaction's own changed rows that TransTree follows       *)
(* further, and an erasure of a row that another worker has marked since   *)
(* this one looked at its mark.  That last happens to this program: it     *)
(* erases under the sharable lock, where nothing keeps the look and the    *)
(* mark together; both transactions then commit an erasure of one row and  *)
(* free its node.  What is claimed below is claimed up to there.           *)
(*                                                                         *)
(* Beside a few operators X stands X_Name, the same with a plausible slip  *)
(* of the code, which nothing here uses.                                   *)
(***************************************************************************)
EXTENDS Allocators, FiniteSets

CONSTANTS
    Workers, Checkpointer, Invalidator, Main,
    Keys,
    Addresses,        \* bound: where the objects of the process may lie
    LoopSize,         \* bound: the transactions of each worker
    OpsPerTxn,        \* bound: the operations of each of its transactions
    MaxInvalidations, \* bound: how often the invalidator acts
    MaxFailures,      \* bound: the openings that fail
    Null, NoRow, Gone

ASSUME BoundsAssumption ==
    /\ LoopSize \in [Workers -> Nat] /\ OpsPerTxn \in [Workers -> Nat]
    /\ MaxInvalidations \in Nat /\ MaxFailures \in Nat
    /\ Keys \subseteq Nat

Threads == Workers \cup {Checkpointer, Invalidator}

VARIABLES
    \* the process
    database,     \* g_databases[0]
    objects,      \* the PartitionedTestDatabase objects: free, open, hollow
    pc, db,       \* each thread's step, and the object it has a pointer to
    loops,        \* the transactions that each worker has still to run
    key, found,   \* the operation that a worker is in
    hand,         \* the place of the key of its new node
    ops,          \* the operations that its transaction has finished
    pending,      \* the places of the keys of its pending updates
    \* the region
    valid,
    rows,
    leftLocks,    \* whether a transaction that nobody will end locks the database
    \* bounds
    invalidations, failures,
    \* bookkeeping
    knows,        \* the threads whose pointer was taken since the database was opened
    lost,         \* at each place, the keys of nodes that nobody will free
    ended

handles == <<database, objects>>
txns == <<key, found, hand, ops, pending>>
region == <<valid, rows, leftLocks>>
bounds == <<invalidations, failures>>
vars == <<memory, handles, pc, db, loops, txns, region, bounds, knows, lost, ended>>

Places == Segments \cup {Heap}
NoPending == [k \in Keys |-> Null]

Init ==
    /\ MemoryInit
    /\ database = Null
    /\ objects = [a \in Addresses |-> "free"]
    /\ pc = [t \in Threads |-> "get"] @@ (Main :> "join")
    /\ db = [t \in Threads |-> Null]
    /\ loops = LoopSize
    /\ key = [w \in Workers |-> Null]
    /\ found = [w \in Workers |-> FALSE]
    /\ hand = [w \in Workers |-> Null]
    /\ ops = [w \in Workers |-> 0]
    /\ pending = [w \in Workers |-> NoPending]
    /\ valid = TRUE
    /\ rows = [k \in Keys |-> NoRow]
    /\ leftLocks = FALSE
    /\ invalidations = 0 /\ failures = 0
    /\ knows = {}
    /\ lost = [p \in Places |-> 0]
    /\ ended = FALSE

-----------------------------------------------------------------------------
\* Locks

UsingDatabase_NeverReleased ==
    {"begin", "lock", "next", "allocate", "grow", "insert", "update", "erase", "recover",
     "use", "checkpoint"}
UsingDatabase == {"begin", "lock", "next", "allocate", "grow", "insert", "update", "erase",
                  "use", "checkpoint"}
UsingTree == {"allocate", "grow", "update", "erase"}
InTransaction == {"next", "allocate", "grow", "insert", "update", "erase"}

SharesDatabase(t) == pc[t] \in UsingDatabase
DatabaseIsFree == \A t \in Threads : ~SharesDatabase(t)
TreeIsFree == \A w \in Workers : pc[w] \notin UsingTree
\* The exclusive lock that a checkpoint waits for keeps others out already.
CheckpointWaits == pc[Checkpointer] = "checkpoint"
DatabaseIsIdle == ~leftLocks /\ \A w \in Workers : pc[w] \notin InTransaction

Running == ~ended /\ ~misdirected /\ pc[Main] # "exited"
At(t, step) == Running /\ pc[t] = step
Goto(t, step) == pc' = [pc EXCEPT ![t] = step]

-----------------------------------------------------------------------------
\* The rows and their keys

Row(op, by, place) == [op |-> op, by |-> by, place |-> place]
Exists(k) == rows[k] # NoRow
Is(k, w, kinds) == rows[k].op \in kinds /\ rows[k].by = w
HeldByOther(w, k) == rows[k].op # "none" /\ rows[k].by # w
FindsRow(w, k) ==
    /\ Exists(k)
    /\ ~(rows[k].op = "insert" /\ rows[k].by # w)
    /\ ~Is(k, w, {"delete"})

Changed(w) == {k \in Keys : Exists(k) /\ rows[k].op # "none" /\ rows[k].by = w}
\* Rows left marked, by a transaction that ends in no other way.
Abandoned(w) ==
    [k \in Keys |-> IF k \in Changed(w) THEN [rows[k] EXCEPT !.by = Gone] ELSE rows[k]]
PlacesOf(w) ==
    LET s == SetToSeq({k \in Keys : pending[w][k] # Null})
    IN [i \in DOMAIN s |-> pending[w][s[i]]]

Lost(places) == [p \in Places |-> lost[p] + CountAt(p, places)]

\* A worker learns that the region needs recovery, and leaves its transaction
\* as it is: its marks, its lock of the database and its pending nodes.
Abandon(w, nodes) ==
    /\ Goto(w, "recover")
    /\ rows' = Abandoned(w)
    /\ leftLocks' = TRUE
    /\ lost' = Lost(PlacesOf(w) \o nodes)
    /\ pending' = [pending EXCEPT ![w] = NoPending]
    /\ hand' = [hand EXCEPT ![w] = Null]
    /\ key' = [key EXCEPT ![w] = Null]
    /\ found' = [found EXCEPT ![w] = FALSE]
    /\ ops' = [ops EXCEPT ![w] = 0]
    /\ UNCHANGED <<memory, valid>>

-----------------------------------------------------------------------------
\* Opening, recovering, closing

\* What recovery keeps: the rows that some transaction has committed.
Kept == {k \in Keys : Exists(k) /\ rows[k].op \notin {"insert", "deleted_insert"}}
RecoverRegion ==
    \E place \in [Kept -> Segments] :
        /\ Rebuilt([i \in 1..Cardinality(Kept) |-> place[SetToSeq(Kept)[i]]])
        /\ rows' = [k \in Keys |-> IF k \in Kept THEN Row("none", Gone, place[k]) ELSE NoRow]
        /\ valid' = TRUE
        /\ leftLocks' = FALSE
        /\ lost' = [p \in Places |-> 0]

\* A Database object joins the region as it is, unless that needs recovery.
OpenRegion == IF valid THEN UNCHANGED <<memory, region, lost>> ELSE RecoverRegion

\* new PartitionedTestDatabase: an opening that fails leaves an object without
\* a database.
Construct(others) ==
    \E a \in Addresses :
        /\ objects[a] = "free"
        /\ database' = a
        /\ \/ /\ objects' = [others EXCEPT ![a] = "open"]
              /\ OpenRegion
              /\ UNCHANGED failures
           \/ /\ failures < MaxFailures
              /\ objects' = [others EXCEPT ![a] = "hollow"]
              /\ failures' = failures + 1
              /\ UNCHANGED <<memory, region, lost>>
        /\ knows' = {}

HasWork(t) ==
    /\ t \in Workers => loops[t] > 0
    /\ t = Invalidator => invalidations < MaxInvalidations

\* The destructor, or close().
Closed == [objects EXCEPT ![database] = "free"]

\* getDatabase(): with the shared lock, the object if there is one.
GetDatabase(t, step) ==
    /\ At(t, "get") /\ HasWork(t)
    /\ IF database = Null THEN /\ Goto(t, "open")
                               /\ UNCHANGED <<db, knows>>
       ELSE /\ Goto(t, step)
            /\ db' = [db EXCEPT ![t] = database]
            /\ knows' = knows \cup {t}
    /\ UNCHANGED <<memory, handles, loops, txns, region, bounds, lost, ended>>

NobodyOpened == database = Null

\* With the exclusive lock: somebody may have opened it meanwhile.
OpenDatabase(t) ==
    /\ At(t, "open")
    /\ DatabaseIsFree
    /\ IF NobodyOpened THEN Construct(objects)
       ELSE UNCHANGED <<memory, handles, region, failures, knows, lost>>
    /\ Goto(t, IF db[t] = Null THEN "get" ELSE "wait")
    /\ UNCHANGED <<db, loops, txns, invalidations, ended>>

StillTheSame(w) == database = db[w]

\* A worker's transaction is over, one way or the other.
Finish(w) ==
    /\ pc' = [pc EXCEPT ![w] = "get"]
    /\ db' = [db EXCEPT ![w] = Null]
    /\ loops' = [loops EXCEPT ![w] = @ - 1]

\* recoverDatabase(): the old object closes, a new one opens, and takes the
\* pointer's place before the old one's memory is free.
RecoverDatabase(w) ==
    /\ At(w, "recover")
    /\ DatabaseIsFree
    /\ ended' = (StillTheSame(w) /\ objects[database] = "hollow")
    /\ IF StillTheSame(w) /\ objects[database] = "open"
       THEN Construct(Closed)
       ELSE UNCHANGED <<memory, handles, region, failures, knows, lost>>
    /\ Finish(w)
    /\ UNCHANGED <<txns, invalidations>>

\* A method of an object that has no database.
UseHollow(t) ==
    /\ pc[t] \in {"begin", "use"} /\ Running
    /\ objects[db[t]] = "hollow"
    /\ ended' = TRUE
    /\ UNCHANGED <<memory, handles, pc, db, loops, txns, region, bounds, knows, lost>>

-----------------------------------------------------------------------------
\* A worker

unchangedElse == <<handles, db, loops, bounds, knows>>

\* beginTransaction(): the safety check, then the sharable lock.
Begin(w) ==
    /\ At(w, "begin") /\ objects[db[w]] = "open"
    /\ Goto(w, IF valid THEN "lock" ELSE "recover")
    /\ UNCHANGED <<memory, txns, region, lost, ended, unchangedElse>>
LockDatabase(w) ==
    /\ At(w, "lock") /\ ~CheckpointWaits
    /\ Goto(w, "next")
    /\ UNCHANGED <<memory, txns, region, lost, ended, unchangedElse>>

\* find(), under the tree's sharable lock, held to the end of the operation.
Find(w, k) ==
    /\ At(w, "next") /\ ops[w] < OpsPerTxn[w]
    /\ Goto(w, "allocate")
    /\ key' = [key EXCEPT ![w] = k]
    /\ found' = [found EXCEPT ![w] = FindsRow(w, k)]
    /\ UNCHANGED <<memory, hand, ops, pending, region, lost, ended, unchangedElse>>

\* The operation is over, and the tree's lock with it.
Done(w) ==
    /\ Goto(w, "next")
    /\ ops' = [ops EXCEPT ![w] = @ + 1]
    /\ key' = [key EXCEPT ![w] = Null]
    /\ found' = [found EXCEPT ![w] = FALSE]
Threw(w) == Abandon(w, <<>>)
Alone == UNCHANGED <<valid, leftLocks>> /\ UNCHANGED unchangedElse

\* Of a row that is there: nothing, or
ReadOnly(w) ==
    /\ At(w, "allocate") /\ found[w]
    /\ Done(w)
    /\ UNCHANGED <<memory, rows, hand, pending, lost, ended>> /\ Alone

\* erase_node(): the tree looks at the mark of the row, without a lock on it.  The
\* last case is that of a row which this transaction has inserted and erased: find()
\* shows it, and the tree reports corruption.
EraseNode(w) ==
    /\ At(w, "allocate") /\ found[w]
    /\ LET k == key[w]
       IN \/ /\ HeldByOther(w, k)
             /\ Done(w)
             /\ UNCHANGED <<memory, rows, leftLocks, valid, hand, pending, lost, ended>>
          \/ /\ rows[k].op = "none" \/ Is(k, w, {"insert"})
             /\ Goto(w, "erase")
             /\ UNCHANGED <<memory, txns, region, lost, ended>>
          \/ /\ Is(k, w, {"update"})
             /\ ended' = TRUE
             /\ UNCHANGED <<memory, pc, txns, region, lost>>
          \/ /\ Is(k, w, {"deleted_insert"})
             /\ Threw(w)
             /\ UNCHANGED ended
    /\ UNCHANGED unchangedElse

\* And marks it, whoever has marked it since.
MarkErased(w) ==
    /\ At(w, "erase")
    /\ LET k == key[w]
       IN IF HeldByOther(w, k)
          THEN /\ ended' = TRUE
               /\ UNCHANGED <<memory, pc, txns, region, lost>>
          ELSE /\ rows' = [rows EXCEPT ![k].by = w,
                           ![k].op = IF @ = "insert" THEN "deleted_insert" ELSE "delete"]
               /\ Done(w)
               /\ UNCHANGED <<memory, leftLocks, valid, hand, pending, lost, ended>>
    /\ UNCHANGED unchangedElse

\* The new node of insert_node() and update_node(), and the text of its key.
NodeFor(w) == IF found[w] THEN "update" ELSE "insert"
Allocated(w, s) ==
    /\ hand' = [hand EXCEPT ![w] = PlaceOf(s)]
    /\ Goto(w, NodeFor(w))
    /\ UNCHANGED <<key, found, ops, pending, rows, lost, ended>> /\ Alone
AllocateKey(w) ==
    /\ At(w, "allocate")
    /\ \/ AllocateFromLast /\ Allocated(w, lastalloc)
       \/ /\ ~LastHasRoom
          /\ Goto(w, "grow")
          /\ UNCHANGED <<memory, txns, rows, lost, ended>> /\ Alone
GrowSet(w) ==
    /\ At(w, "grow")
    /\ \/ \E s \in Segments : (AllocateFrom(s) \/ NewSegment(s)) /\ Allocated(w, s)
       \/ /\ OutOfMemory
          /\ ended' = TRUE
          /\ UNCHANGED <<memory, pc, txns, rows, lost>> /\ Alone

\* Contention: the node is destroyed and freed.
FreeNode_Forgotten(w) == UNCHANGED memory
FreeNode(w) == Deallocate(<<hand[w]>>)
GiveUp(w) ==
    /\ FreeNode(w)
    /\ Done(w)
    /\ UNCHANGED <<rows, lost, pending>>

\* insert_node(), with the tree's exclusive lock, having released the sharable
\* one.  A key that is there by now is refused, and then the node is forgotten; so
\* is one that the tree orders against a row erased by this transaction.  It
\* throws instead where it meets a row that another is inserting or erasing.
Others(k) == {j \in Keys \ {k} : Exists(j)}
Between(i, j, k) == (j < i /\ i < k) \/ (k < i /\ i < j)
Neighbours(k) == {j \in Others(k) : \A i \in Others(k) : ~Between(i, j, k)}
ErasedByIt(w, S) == \E j \in S : Is(j, w, {"delete", "deleted_insert"})
InTheWay(w, S) ==
    \E j \in S : rows[j].op \in {"insert", "delete", "deleted_insert"} /\ HeldByOther(w, j)
InsertNode(w) ==
    /\ At(w, "insert")
    /\ TreeIsFree
    /\ LET k == key[w]
       IN \/ /\ ~Exists(k) /\ ~ErasedByIt(w, Neighbours(k)) /\ ~InTheWay(w, Neighbours(k))
             /\ rows' = [rows EXCEPT ![k] = Row("insert", w, hand[w])]
             /\ Done(w)
             /\ UNCHANGED <<memory, pending, lost>>
          \/ /\ Exists(k) \/ ErasedByIt(w, Others(k))
             /\ lost' = Lost(<<hand[w]>>)
             /\ Done(w)
             /\ UNCHANGED <<memory, rows, pending>>
          \/ /\ InTheWay(w, Others(k))
             /\ GiveUp(w)
    /\ hand' = [hand EXCEPT ![w] = Null]
    /\ UNCHANGED ended /\ Alone

\* update_node().  The node of a row's second update is copied and forgotten.
UpdateNode(w) ==
    /\ At(w, "update")
    /\ LET k == key[w]
       IN \/ /\ HeldByOther(w, k)
             /\ GiveUp(w)
             /\ hand' = [hand EXCEPT ![w] = Null]
             /\ UNCHANGED <<valid, leftLocks, ended>>
          \/ /\ rows[k].op = "none" \/ Is(k, w, {"update"})
             /\ Done(w)
             /\ rows' = [rows EXCEPT ![k].op = "update", ![k].by = w]
             /\ IF pending[w][k] = Null
                THEN /\ pending' = [pending EXCEPT ![w][k] = hand[w]]
                     /\ UNCHANGED lost
                ELSE /\ lost' = Lost(<<hand[w]>>)
                     /\ UNCHANGED pending
             /\ hand' = [hand EXCEPT ![w] = Null]
             /\ UNCHANGED <<memory, valid, leftLocks, ended>>
          \/ /\ Is(k, w, {"insert"})
             /\ ended' = TRUE
             /\ UNCHANGED <<memory, pc, txns, region, lost>>
          \/ /\ Is(k, w, {"deleted_insert"})
             /\ Abandon(w, <<hand[w]>>)
             /\ UNCHANGED ended
    /\ UNCHANGED unchangedElse

\* commit(): the safety check; then, with the tree locked, each operation.
CommittedRow(w, k) ==
    IF k \notin Changed(w) THEN rows[k]
    ELSE CASE rows[k].op = "insert" -> Row("none", Gone, rows[k].place)
           [] rows[k].op = "update" -> Row("none", Gone, pending[w][k])
           [] OTHER                 -> NoRow
Replaced(w) == {k \in Changed(w) : rows[k].op # "insert"}
FreedPlaces(w) == LET s == SetToSeq(Replaced(w)) IN [i \in DOMAIN s |-> rows[s[i]].place]

Commit(w) ==
    /\ At(w, "next") /\ ops[w] = OpsPerTxn[w]
    /\ \/ /\ ~valid
          /\ Abandon(w, <<>>)
          /\ UNCHANGED <<db, loops>>
       \/ /\ valid /\ TreeIsFree
          /\ rows' = [k \in Keys |-> CommittedRow(w, k)]
          /\ Deallocate(FreedPlaces(w))
          /\ pending' = [pending EXCEPT ![w] = NoPending]
          /\ Finish(w)
          /\ ops' = [ops EXCEPT ![w] = 0]
          /\ UNCHANGED <<key, found, hand, valid, leftLocks, lost>>
    /\ UNCHANGED <<handles, bounds, knows, ended>>

-----------------------------------------------------------------------------
\* The checkpointer, the invalidator and the main thread

Release(t) ==
    /\ Goto(t, "get")
    /\ db' = [db EXCEPT ![t] = Null]

\* checkpoint_new(): the safety check, then the exclusive lock of the database.
StartCheckpoint ==
    /\ At(Checkpointer, "use") /\ objects[db[Checkpointer]] = "open"
    /\ IF valid THEN Goto(Checkpointer, "checkpoint") /\ UNCHANGED db ELSE Release(Checkpointer)
    /\ UNCHANGED <<memory, handles, loops, txns, region, bounds, knows, lost, ended>>
TakeCheckpoint ==
    /\ At(Checkpointer, "checkpoint")
    /\ DatabaseIsIdle
    /\ Release(Checkpointer)
    /\ UNCHANGED <<memory, handles, loops, txns, region, bounds, knows, lost, ended>>

SetInvalid ==
    /\ At(Invalidator, "use") /\ objects[db[Invalidator]] = "open"
    /\ valid' = FALSE
    /\ invalidations' = invalidations + 1
    /\ Goto(Invalidator, "wait")
    /\ UNCHANGED <<memory, handles, db, loops, txns, rows, leftLocks, failures, knows, lost,
                   ended>>
\* It polls until it sees another pointer (or opens a database itself).
PollDatabase ==
    /\ At(Invalidator, "wait")
    /\ \/ /\ database # Null /\ database # db[Invalidator]
          /\ Release(Invalidator)
       \/ /\ database = Null
          /\ Goto(Invalidator, "open")
          /\ UNCHANGED db
    /\ UNCHANGED <<memory, handles, loops, txns, region, bounds, knows, lost, ended>>

WorkersAreDone == \A w \in Workers : loops[w] = 0

\* What validate() finds on the way: text that is not in the region.
Misplaced == {k \in Keys : Exists(k) /\ rows[k].place = Heap}

\* main(): closeDatabase() once the workers are done, and the process exits.
CloseDatabase ==
    /\ At(Main, "join")
    /\ WorkersAreDone
    /\ DatabaseIsFree
    /\ Goto(Main, "exit")
    /\ IF database = Null THEN UNCHANGED <<handles, knows, ended>>
       ELSE /\ ended' = (objects[database] = "hollow")
            /\ objects' = Closed
            /\ database' = Null
            /\ knows' = {}
    /\ UNCHANGED <<memory, db, loops, txns, region, bounds, lost>>
Exit ==
    /\ At(Main, "exit")
    /\ Goto(Main, "exited")
    /\ UNCHANGED <<memory, txns, region, lost, ended, unchangedElse>>

\* The code has one way of standing still: a checkpoint that waits, under the
\* shared lock, for the end of a transaction whose worker has left it to recover
\* the database, for which it needs that lock exclusively.
StandsStill == CheckpointWaits /\ leftLocks

-----------------------------------------------------------------------------
Worker(w) ==
    \/ GetDatabase(w, "begin") \/ OpenDatabase(w) \/ UseHollow(w)
    \/ Begin(w) \/ LockDatabase(w) \/ Commit(w) \/ RecoverDatabase(w)
    \/ \E k \in Keys : Find(w, k)
    \/ ReadOnly(w) \/ EraseNode(w) \/ MarkErased(w) \/ UpdateNode(w) \/ InsertNode(w)
    \/ AllocateKey(w) \/ GrowSet(w)
UseByCheckpointer == StartCheckpoint \/ TakeCheckpoint \/ UseHollow(Checkpointer)
UseByInvalidator == SetInvalid \/ UseHollow(Invalidator)
MainThread == CloseDatabase \/ Exit

Next ==
    \/ \E w \in Workers : Worker(w)
    \/ \E t \in {Checkpointer, Invalidator} : GetDatabase(t, "use") \/ OpenDatabase(t)
    \/ UseByCheckpointer \/ UseByInvalidator \/ PollDatabase
    \/ MainThread

\* Nobody who waits for a lock is passed over for ever: the mutexes keep new
\* sharers out while one waits for exclusive access, and the other threads sleep
\* between two uses.  That these use the database at all is not assumed.
Fairness ==
    /\ \A w \in Workers : SF_vars(Worker(w))
    /\ WF_vars(UseByCheckpointer) /\ WF_vars(UseByInvalidator)
    /\ SF_vars(MainThread)

Spec == Init /\ [][Next]_vars /\ Fairness

-----------------------------------------------------------------------------
\* Properties

\* Every variable has its type; a worker that is in the tree has a key, and one
\* that inserts or updates a node for it.
TypeOK ==
    Running =>
      /\ database \in Addresses \cup {Null}
      /\ objects \in [Addresses -> {"free", "open", "hollow"}]
      /\ db \in [Threads -> Addresses \cup {Null}]
      /\ \A w \in Workers :
            /\ pc[w] \in {"insert", "update"} <=> hand[w] # Null
            /\ pc[w] \in UsingTree \cup {"insert"} => key[w] \in Keys
            /\ loops[w] \in 0..LoopSize[w] /\ ops[w] \in 0..OpsPerTxn[w]
      /\ \A s \in Segments : used[s] \in 0..Capacity /\ (used[s] > 0 => s \in segments)

\* There is one database object at most, that of the global pointer, and a thread
\* that uses one under the shared lock uses that: nobody opens, recovers or
\* closes it meanwhile, nor is a second one opened over the first.
PointersStayValid ==
    Running =>
      /\ {a \in Addresses : objects[a] # "free"} = {database} \ {Null}
      /\ \A t \in Threads : SharesDatabase(t) => db[t] = database /\ t \in knows

\* What the segments have given out is the text of the keys of the rows, of
\* pending updates, of the nodes in workers' hands and of the nodes known to be
\* lost (refused as duplicates, copied into a pending node, or left behind by an
\* abandoned transaction), once each, and all of it is in the region.  Two erasures of one
\* row that cross between look and mark are left out: they end the behaviour.
NodesHaveOneOwner ==
    LET Holds(p) == Cardinality({k \in Keys : Exists(k) /\ rows[k].place = p})
                    + Cardinality({w \in Workers : hand[w] = p})
                    + Cardinality({x \in Workers \X Keys : pending[x[1]][x[2]] = p})
    IN Running => /\ \A s \in Segments : used[s] = Holds(s) + lost[s]
                  /\ Misplaced = {}

\* A segment is added only when no other has room, whatever was added while the
\* thread waited for the exclusive lock.
SegmentsOnlyWhenFull ==
    [][segments' \subseteq segments \/ valid' # valid \/ \A s \in segments : ~HasRoom(s)]_vars

\* One invalidation makes one worker recover the database: the others find
\* another pointer.  Left out are the pointers that a later object has again and
\* the false alarm that erasing a row twice in its own transaction raises.
RecoveredOnce ==
    [][\A w \in Workers : pc[w] = "recover" /\ database' # database =>
          \/ ~valid
          \/ leftLocks
          \/ database = db[w] /\ w \notin knows]_vars

\* The program ends: the workers finish and main() closes the database, unless
\* it ends otherwise or stands still.
ProgramEnds == <>(~Running \/ StandsStill)

\* The threads share one database and its memory, whoever recovers it and whenever.
DatabaseIsShared == TypeOK /\ PointersStayValid /\ NodesHaveOneOwner

\* What one thread has done no other does again.
NothingIsDoneTwice == RecoveredOnce /\ SegmentsOnlyWhenFull

=============================================================================

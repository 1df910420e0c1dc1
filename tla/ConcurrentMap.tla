---------------------------- MODULE ConcurrentMap ----------------------------
(***************************************************************************)
(* One concurrent::trans_map of STLdb at the grain of its locks.  A thread *)
(* works on a row with the container's lock shared and the mutex of the    *)
(* row, one of a few that all rows share (picket_lock_set); insert() has   *)
(* the container's lock exclusively.  A commit or rollback that leaves the *)
(* shape of the map alone takes the container's lock shared and the        *)
(* mutexes of all its rows; one that removes rows takes the container's    *)
(* lock exclusively and no mutex.  Updates are kept aside until commit.    *)
(*                                                                         *)
(* A thread runs one transaction and has one iterator at a time, as the    *)
(* tests of the library do.  Marks, lists of operations and the log are    *)
(* those of TransMap; this module adds the locks, and steps between them.  *)
(*                                                                         *)
(* Locks are in the region and outlive whoever dies with them: those that  *)
(* wait for such a lock get lock_timeout_exception.  The time to wait is   *)
(* taken to be longer than any living thread keeps a lock.                 *)
(*                                                                         *)
(* Beside a few operators X stands X_Name, the same with a plausible slip  *)
(* of the code.  Nothing uses those: put in the place of X each one breaks *)
(* the property that is there to catch it, as PROJECT.json records.        *)
(***************************************************************************)
EXTENDS Integers, Sequences, FiniteSetsExt, Functions, SequencesExt

CONSTANTS
    Txns,
    N,             \* the keys are 1 .. N
    Picket,        \* the number of the mutex of each row
    Recovered,     \* keys whose rows came from a checkpoint, each with a place in it
    Calls,         \* bound: what each transaction may call, on which rows
    MaxOps,        \* bound: how many calls it makes
    Mortal,        \* bound: those whose process may die
    NoTxn, NoValue

Keys == 1 .. N
Pickets == {Picket[k] : k \in Keys}

ASSUME KeysAssumption == N \in Nat \ {0} /\ Picket \in [Keys -> Nat]
ASSUME RecoveredAssumption == Recovered \subseteq Keys
Kinds == {"scan", "lock", "update", "erase", "insert"}
ASSUME BoundsAssumption ==
    /\ MaxOps \in [Txns -> Nat] /\ Calls \in [Txns -> SUBSET (Kinds \X Keys)]
    /\ Mortal \subseteq Txns
ASSUME NobodyAssumption ==
    NoTxn \notin Txns /\ NoValue \notin (Txns \cup {NoTxn}) \X Nat

VARIABLES
    \* in the region
    rows,          \* value, pending operation, _txn_id (a transaction or an LSN), and
                   \* whether the row has a place in the checkpoint file
    ver_num,       \* _ver_num
    freed,         \* the keys of _freed_checkpoint_space
    exclusive,     \* the holder of the container's lock, if it is held exclusively
    sharers,       \* those that hold it shared
    mutex,         \* the holders of _row_level_locks
    next_lsn, log,
    \* each thread
    pc,
    ops,           \* _outstandingChanges
    call,          \* the call in progress: what, the iterator's row, and _ver_num seen
    made,
    todo,          \* the operations still to commit or roll back
    to_lock,       \* the numbers of mutexes still to take (_locks_held)
    dead,          \* those whose process has died
    \* bookkeeping for the properties
    missed,        \* sleepers that a notification without their mutex has passed
    retouched,     \* keys updated twice by the transaction that last changed them
    twisted,       \* keys that one transaction has both inserted and erased
    corrupt        \* an iterator to an erased entry was used

map == <<rows, ver_num, freed>>
locks == <<exclusive, sharers, mutex>>
txn == <<ops, made>>
ending == <<todo, to_lock>>
marks == <<retouched, twisted>>
vars == <<map, locks, next_lsn, log, pc, txn, call, ending, dead, missed, marks, corrupt>>

FirstLsn == 100
NoRow == [val |-> NoValue, op |-> "none", id |-> 0, placed |-> FALSE]
Recoveree == [val |-> <<NoTxn, 0>>, op |-> "none", id |-> FirstLsn, placed |-> TRUE]
Present(row) == row.val # NoValue
NoCall == [kind |-> "none", key |-> 1, ver |-> 0, stale |-> FALSE]

Init ==
    /\ rows = [k \in Keys |-> IF k \in Recovered THEN Recoveree ELSE NoRow]
    /\ ver_num = 0
    /\ freed = {}
    /\ exclusive = NoTxn /\ sharers = {}
    /\ mutex = [n \in Pickets |-> NoTxn]
    /\ next_lsn = FirstLsn + 1 /\ log = <<>>
    /\ pc = [t \in Txns |-> "active"]
    /\ ops = [t \in Txns |-> <<>>]
    /\ call = [t \in Txns |-> NoCall]
    /\ made = [t \in Txns |-> 0]
    /\ todo = [t \in Txns |-> <<>>] /\ to_lock = [t \in Txns |-> {}]
    /\ dead = {} /\ missed = {} /\ retouched = {} /\ twisted = {}
    /\ corrupt = FALSE

Goto(t, point) == pc' = [pc EXCEPT ![t] = point]
MutexOf(t) == Picket[call[t].key]

MayShare == exclusive = NoTxn
MayExclude == exclusive = NoTxn /\ sharers = {}
TakeContainer(t, alone) ==
    \/ alone /\ MayExclude /\ exclusive' = t /\ UNCHANGED sharers
    \/ ~alone /\ MayShare /\ sharers' = sharers \cup {t} /\ UNCHANGED exclusive
DropContainer(t) ==
    /\ exclusive' = IF exclusive = t THEN NoTxn ELSE exclusive
    /\ sharers' = sharers \ {t}

-----------------------------------------------------------------------------
\* Calls

\* The caller takes the container's lock as the call demands.
Enter(t, kind, k) ==
    /\ pc[t] = "active" /\ made[t] < MaxOps[t] /\ <<kind, k>> \in Calls[t]
    /\ TakeContainer(t, kind = "insert")
    /\ made' = [made EXCEPT ![t] = @ + 1]
    /\ call' = [call EXCEPT ![t] = [kind |-> kind, key |-> k, ver |-> ver_num, stale |-> FALSE]]
    /\ Goto(t, "in")
    /\ UNCHANGED <<map, mutex, next_lsn, log, ops, ending, missed, marks, corrupt>>

\* The iterator and the lock go, and the call returns.
Leave(t) ==
    /\ DropContainer(t)
    /\ Goto(t, "active")
    /\ call' = [call EXCEPT ![t] = NoCall]

Hidden(t, row) ==
    \/ row.op = "insert" /\ row.id # t
    \/ row.op = "delete" /\ row.id = t

Later(t) == {k \in Keys : k >= call[t].key /\ Present(rows[k])}

\* find(), or an iterator's way forward: to the row, its mutex, and a look at
\* the mark.  An iterator goes on from a row that it must not show.
Seek(t) ==
    LET k == call[t].key
    IN /\ pc[t] = "in" /\ call[t].kind # "insert"
       /\ ~corrupt
       /\ \/ /\ Present(rows[k]) /\ ~Hidden(t, rows[k])
             /\ mutex[MutexOf(t)] = NoTxn
             /\ mutex' = [mutex EXCEPT ![MutexOf(t)] = t]
             /\ call' = [call EXCEPT ![t].stale = FALSE]
             /\ Goto(t, "at")
             /\ UNCHANGED <<exclusive, sharers>>
          \/ /\ ~Present(rows[k]) \/ Hidden(t, rows[k])
             /\ IF call[t].kind = "scan" /\ Later(t) \ {k} # {}
                THEN /\ call' = [call EXCEPT ![t].key = Min(Later(t) \ {k})]
                     /\ UNCHANGED <<exclusive, sharers, pc>>
                ELSE Leave(t)
             /\ UNCHANGED mutex
       /\ UNCHANGED <<map, next_lsn, log, txn, ending, missed, marks, corrupt>>

\* operator++: the mutex of one row goes before that of the next is taken.
Advance(t) ==
    LET k == call[t].key
    IN /\ pc[t] = "at" /\ call[t].kind = "scan"
       /\ mutex' = [mutex EXCEPT ![MutexOf(t)] = NoTxn]
       /\ IF Later(t) \ {k} # {}
          THEN /\ call' = [call EXCEPT ![t].key = Min(Later(t) \ {k})]
               /\ Goto(t, "in")
               /\ UNCHANGED <<exclusive, sharers>>
          ELSE Leave(t)
       /\ UNCHANGED <<map, next_lsn, log, txn, ending, missed, marks, corrupt>>

HeldByOther_WhenChanged(t, row) == row.op \in {"insert", "update", "delete"} /\ row.id # t
HeldByOther(t, row) == row.op # "none" /\ row.id # t

\* A call on a row, or an insert, that finds another transaction's mark.
Contends(t) ==
    LET row == rows[call[t].key]
    IN IF call[t].kind = "insert" THEN row.op \in {"insert", "delete"} /\ row.id # t
                                  ELSE HeldByOther(t, row)

Value(t) == <<t, made[t]>>
Op(t, kind, k) ==
    [kind |-> kind, key |-> k, val |-> Value(t), id |-> rows[k].id, op |-> rows[k].op]
Mark(t, k, kind) ==
    /\ rows' = [rows EXCEPT ![k].op = kind, ![k].id = t]
    /\ ops' = [ops EXCEPT ![t] = Append(@, Op(t, kind, k))]

Lock(t, k) == IF rows[k].id = t THEN UNCHANGED <<rows, ops>> ELSE Mark(t, k, "lock")

\* The new value is kept aside, in the operation, but for a row that the transaction inserted.
Update(t, k) ==
    IF rows[k].op = "insert"
    THEN rows' = [rows EXCEPT ![k].val = Value(t)] /\ UNCHANGED ops
    ELSE Mark(t, k, "update")

Erase(t, k) == Mark(t, k, "delete")

Perform(t) ==
    LET k == call[t].key
    IN \/ call[t].kind = "lock" /\ Lock(t, k)
       \/ call[t].kind = "update" /\ Update(t, k)
       \/ call[t].kind = "erase" /\ Erase(t, k)

\* lock_i, update_i, erase_i: with the mutex from the look at the mark until the
\* call is done; a call that must wait keeps it, and lets go of the container.
Act(t) ==
    /\ pc[t] = "at" /\ call[t].kind # "scan"
    /\ \/ /\ ~Contends(t)
          /\ Perform(t)
          /\ twisted' = IF call[t].kind = "erase" /\ rows[call[t].key].op = "insert"
                        THEN twisted \cup {call[t].key} ELSE twisted
          /\ mutex' = [mutex EXCEPT ![MutexOf(t)] = NoTxn]
          /\ Leave(t)
       \/ /\ Contends(t)
          /\ DropContainer(t)
          /\ Goto(t, "dozing")
          /\ call' = [call EXCEPT ![t].ver = ver_num]
          /\ UNCHANGED <<rows, ops, mutex, twisted>>
    /\ UNCHANGED <<ver_num, freed, next_lsn, log, made, ending, missed, retouched, corrupt>>

\* insert(): a new row; or over a delete of its own, in place of the row; or
\* refused.  The iterator that it returns has taken the mutex of the row, as
\* has a call that must wait.
Insert(t) ==
    LET k == call[t].key
        new == [val |-> Value(t), op |-> "insert", id |-> t, placed |-> FALSE]
    IN /\ pc[t] = "in" /\ call[t].kind = "insert"
       /\ mutex[MutexOf(t)] = NoTxn
       /\ \/ /\ ~Contends(t)
             /\ \/ /\ ~Present(rows[k]) \/ rows[k].op = "delete"
                   /\ rows' = [rows EXCEPT ![k] = new]
                   /\ ops' = [ops EXCEPT ![t] = Append(@, [Op(t, "insert", k) EXCEPT
                                                              !.id = 0, !.op = "none"])]
                   /\ twisted' = IF Present(rows[k]) THEN twisted \cup {k} ELSE twisted
                \/ /\ Present(rows[k]) /\ rows[k].op # "delete"
                   /\ UNCHANGED <<rows, ops, twisted>>
             /\ Leave(t)
             /\ UNCHANGED mutex
          \/ /\ Contends(t)
             /\ mutex' = [mutex EXCEPT ![MutexOf(t)] = t]
             /\ DropContainer(t)
             /\ Goto(t, "dozing")
             /\ UNCHANGED <<rows, ops, call, twisted>>
       /\ UNCHANGED <<ver_num, freed, next_lsn, log, made, ending, missed,
                      retouched, corrupt>>

\* condition.wait() lets go of the mutex as it goes to sleep.
Sleep(t) ==
    /\ pc[t] = "dozing"
    /\ mutex' = [mutex EXCEPT ![MutexOf(t)] = NoTxn]
    /\ Goto(t, "asleep")
    /\ UNCHANGED <<map, exclusive, sharers, next_lsn, log, txn, call, ending, missed, marks,
                   corrupt>>

\* bounded_wait_policy: the call ends with lock_timeout_exception, once the wait has the
\* mutex back.
Timeout(t) ==
    /\ pc[t] = "asleep" /\ mutex[MutexOf(t)] = NoTxn
    /\ Goto(t, "active")
    /\ call' = [call EXCEPT ![t] = NoCall]
    /\ missed' = missed \ {t}
    /\ UNCHANGED <<map, locks, next_lsn, log, txn, ending, marks, corrupt>>

MayBeGone(t) == call[t].ver # ver_num

\* The wait takes the mutex back, and it goes again: the container first.  The entry is
\* looked up again if the map's version says that it may be gone.
Reenter(t) ==
    /\ pc[t] = "woken" /\ mutex[MutexOf(t)] = NoTxn
    /\ TakeContainer(t, call[t].kind = "insert")
    /\ Goto(t, IF call[t].kind = "insert" \/ MayBeGone(t) THEN "in" ELSE "back")
    /\ UNCHANGED <<map, mutex, next_lsn, log, txn, call, ending, missed, marks, corrupt>>

\* Then the mutex, through the iterator.
Relock(t) ==
    /\ pc[t] = "back"
    /\ IF call[t].stale
       THEN corrupt' = TRUE /\ UNCHANGED <<mutex, pc>>
       ELSE /\ mutex[MutexOf(t)] = NoTxn
            /\ mutex' = [mutex EXCEPT ![MutexOf(t)] = t]
            /\ Goto(t, "at")
            /\ UNCHANGED corrupt
    /\ UNCHANGED <<map, exclusive, sharers, next_lsn, log, txn, call, ending, missed, marks>>

-----------------------------------------------------------------------------
\* The end of a transaction

KeysOf(t) == {ops[t][i].key : i \in DOMAIN ops[t]}
Listed(t, k, kind) == {i \in DOMAIN ops[t] : ops[t][i].key = k /\ ops[t][i].kind = kind}

LoggedOp(o) ==
    [kind |-> o.kind, key |-> o.key, val |-> IF o.kind = "insert" THEN rows[o.key].val ELSE o.val]
Logged(t) ==
    LET written[i \in 0 .. Len(ops[t])] ==
            IF i = 0 THEN <<>>
            ELSE IF ops[t][i].kind = "lock" THEN written[i - 1]
            ELSE Append(written[i - 1], LoggedOp(ops[t][i]))
    IN written[Len(ops[t])]

WriteRecord(t) ==
    /\ pc[t] = "active" /\ ~corrupt
    /\ Logged(t) # <<>>
    /\ log' = Append(log, [txn |-> t, lsn |-> next_lsn, changes |-> Logged(t)])
    /\ next_lsn' = next_lsn + 1
    /\ todo' = [todo EXCEPT ![t] = ops[t]]
    /\ Goto(t, "commit")
    /\ UNCHANGED <<map, locks, txn, call, to_lock, missed, marks, corrupt>>

Rollback(t) ==
    /\ pc[t] = "active" /\ ~corrupt
    /\ todo' = [todo EXCEPT ![t] = Reverse(ops[t])]
    /\ Goto(t, IF ops[t] = <<>> THEN "done" ELSE "rollback")
    /\ UNCHANGED <<map, locks, next_lsn, log, txn, call, to_lock, missed, marks, corrupt>>

\* addPendingErase and addPendingInsert note which end needs the map for itself.
Exclusive_ForInserts(t) == \E i \in DOMAIN ops[t] : ops[t][i].kind = "insert"
Exclusive(t) ==
    \E i \in DOMAIN ops[t] :
        ops[t][i].kind = IF pc[t] = "commit" THEN "delete" ELSE "insert"

Needed(t) == {Picket[k] : k \in KeysOf(t)}

During(point) == IF point = "commit" THEN "committing" ELSE "rolling back"

\* initializeCommit, initializeRollback.
Initialize(t) ==
    /\ pc[t] \in {"commit", "rollback"}
    /\ TakeContainer(t, Exclusive(t))
    /\ to_lock' = [to_lock EXCEPT ![t] = IF Exclusive(t) THEN {} ELSE Needed(t)]
    /\ Goto(t, During(pc[t]))
    /\ UNCHANGED <<map, mutex, next_lsn, log, txn, call, todo, missed, marks, corrupt>>

Ending(t) == pc[t] \in {"committing", "rolling back"}

\* picket_lock_set::mutexes has sorted them.
NextMutex_InOrderOfUse(t) ==
    Picket[ops[t][Min({i \in DOMAIN ops[t] : Picket[ops[t][i].key] \in to_lock[t]})].key]
NextMutex(t) == Min(to_lock[t])

LockNext(t) ==
    /\ Ending(t) /\ to_lock[t] # {}
    /\ mutex[NextMutex(t)] = NoTxn
    /\ mutex' = [mutex EXCEPT ![NextMutex(t)] = t]
    /\ to_lock' = [to_lock EXCEPT ![t] = @ \ {NextMutex(t)}]
    /\ UNCHANGED <<map, exclusive, sharers, next_lsn, log, pc, txn, call, todo, missed, marks,
                   corrupt>>

Unlocked(k, v, n, op) ==
    /\ rows' = [rows EXCEPT ![k].val = v, ![k].op = op, ![k].id = n]
    /\ UNCHANGED <<ver_num, freed>>

FreedBy_Nothing(k) == {}
FreedBy(k) == IF rows[k].placed THEN {k} ELSE {}
Removed(k) == rows' = [rows EXCEPT ![k] = NoRow]

\* Each operation commits only the mark that it has itself left on the row.
Effective(o) == rows[o.key].op = o.kind
CommitOp(t, o) ==
    LET k == o.key
        lsn == (CHOOSE r \in Range(log) : r.txn = t).lsn
    IN \/ ~Effective(o) /\ UNCHANGED map
       \/ /\ Effective(o)
          /\ \/ o.kind = "insert" /\ Unlocked(k, rows[k].val, lsn, "none")
             \/ o.kind = "update" /\ Unlocked(k, o.val, lsn, "none")
             \/ o.kind = "lock" /\ Unlocked(k, rows[k].val, o.id, "none")
             \/ /\ o.kind = "delete"
                /\ Removed(k)
                /\ freed' = freed \cup FreedBy(k)
                /\ ver_num' = ver_num + 1

RollbackOp(o) ==
    IF o.kind = "insert" THEN Removed(o.key) /\ UNCHANGED <<ver_num, freed>>
                         ELSE Unlocked(o.key, rows[o.key].val, o.id, o.op)

Retouched(t) == {k \in KeysOf(t) : Cardinality(Listed(t, k, "update")) > 1}

\* One operation of the list; the rows that go take other threads' iterators along.
Apply(t) ==
    LET o == Head(todo[t])
    IN /\ Ending(t) /\ to_lock[t] = {} /\ todo[t] # <<>>
       /\ ~corrupt
       /\ todo' = [todo EXCEPT ![t] = Tail(@)]
       /\ \/ /\ ~Present(rows[o.key])
             /\ corrupt' = TRUE
             /\ UNCHANGED <<map, call, retouched>>
          \/ /\ Present(rows[o.key])
             /\ IF pc[t] = "committing" THEN CommitOp(t, o) ELSE RollbackOp(o)
             /\ call' = [s \in Txns |->
                   IF /\ call[s].kind \in {"lock", "update", "erase"} /\ call[s].key = o.key
                      /\ ~Present(rows'[o.key]) /\ pc[s] \in {"dozing", "asleep", "woken"}
                   THEN [call[s] EXCEPT !.stale = TRUE] ELSE call[s]]
             /\ retouched' = IF \/ pc[t] = "rolling back" \/ o.kind = "lock"
                                \/ ~Effective(o)
                             THEN retouched
                             ELSE (retouched \ {o.key}) \cup (Retouched(t) \cap {o.key})
             /\ UNCHANGED corrupt
       /\ UNCHANGED <<locks, next_lsn, log, pc, txn, to_lock, missed, twisted>>

\* completeCommit, completeRollback: everybody is woken; with the mutexes of the
\* rows, or with the container's lock alone, when some may be about to sleep.
Complete(t) ==
    /\ Ending(t) /\ to_lock[t] = {} /\ todo[t] = <<>>
    /\ pc' = [s \in Txns |-> IF s = t THEN "done"
                             ELSE IF pc[s] = "asleep" THEN "woken" ELSE pc[s]]
    /\ missed' = {s \in missed : pc[s] # "asleep"}
                    \cup {s \in Txns : pc[s] = "dozing" /\ exclusive = t}
    /\ DropContainer(t)
    /\ mutex' = [n \in Pickets |-> IF mutex[n] = t THEN NoTxn ELSE mutex[n]]
    /\ ops' = [ops EXCEPT ![t] = <<>>]
    /\ UNCHANGED <<map, next_lsn, log, made, call, ending, marks, corrupt>>

-----------------------------------------------------------------------------
\* Processes that die, and what the others then wait for in vain

\* A process that dies without a lock only does nothing more.
Die(t) ==
    /\ t \in Mortal \ dead
    /\ exclusive = t \/ t \in sharers \/ t \in Range(mutex)
    /\ dead' = dead \cup {t}
    /\ UNCHANGED <<map, locks, next_lsn, log, pc, txn, call, ending, missed, marks, corrupt>>

\* Those that will not release what they hold.
Gone == dead \cup {t \in Txns : pc[t] = "failed"}
ContainerIsStuck(alone) == exclusive \in Gone \/ (alone /\ sharers \cap Gone # {})

\* The mutex of a row, or the container's lock on the way back from a wait: the call ends.
CallFails(t) ==
    LET row == rows[call[t].key]
    IN /\ \/ /\ pc[t] \in {"in", "back"} /\ mutex[MutexOf(t)] \in Gone
             /\ pc[t] = "in" => call[t].kind = "insert" \/ (Present(row) /\ ~Hidden(t, row))
             /\ pc[t] = "back" => ~call[t].stale
          \/ pc[t] = "woken" /\ ContainerIsStuck(call[t].kind = "insert")
       /\ Leave(t)
       /\ UNCHANGED <<map, mutex, next_lsn, log, txn, ending, missed, marks, corrupt>>

\* A lock that initializeCommit or initializeRollback wants.
EndIsStuck(t, point) ==
    \/ pc[t] = point /\ ContainerIsStuck(Exclusive(t))
    \/ pc[t] = During(point) /\ to_lock[t] # {} /\ mutex[NextMutex(t)] \in Gone

\* Only the containers that initializeCommit is done with are released: this one keeps the
\* locks that it has been given.
Fail(t) ==
    /\ Goto(t, "failed")
    /\ UNCHANGED <<map, locks, next_lsn, log, txn, call, ending, missed, marks, corrupt>>
CommitFails(t) == EndIsStuck(t, "commit") /\ Fail(t)
RollbackFails(t) == EndIsStuck(t, "rollback") /\ Fail(t)

\* What a thread does without being asked.
Proceed(t) ==
    /\ t \notin dead
    /\ \/ Seek(t) \/ Advance(t) \/ Act(t) \/ Insert(t) \/ Sleep(t) \/ Reenter(t) \/ Relock(t)
       \/ Initialize(t) \/ LockNext(t) \/ Apply(t) \/ Complete(t)
       \/ CallFails(t) \/ CommitFails(t) \/ RollbackFails(t)
    /\ UNCHANGED dead

Ask(t) ==
    /\ t \notin dead
    /\ \/ Timeout(t) \/ WriteRecord(t) \/ Rollback(t)
       \/ \E kind \in Kinds, k \in Keys : Enter(t, kind, k)
    /\ UNCHANGED dead

Next == \E t \in Txns : Proceed(t) \/ Ask(t) \/ Die(t)

Spec == Init /\ [][Next]_vars

\* No thread stops on its own while it has locks or waits for them.
FairSpec == Spec /\ \A t \in Txns : WF_vars(Proceed(t))

-----------------------------------------------------------------------------
\* Properties

Points == {"active", "in", "at", "dozing", "asleep", "woken", "back", "commit", "rollback",
           "committing", "rolling back", "done", "failed"}
Marks == {"none", "lock", "insert", "update", "delete"}
Values == {NoValue} \cup ((Txns \cup {NoTxn}) \X Nat)
Rows == [val : Values, op : Marks, id : Txns \cup Nat, placed : BOOLEAN]
Ops == [kind : Marks \ {"none"}, key : Keys, val : Values, id : Txns \cup Nat, op : Marks]

\* Every variable has its type, and a row that is not there has no mark.
TypeOK ==
    /\ rows \in [Keys -> Rows]
    /\ \A k \in Keys : ~Present(rows[k]) => rows[k] = NoRow
    /\ ver_num \in Nat /\ freed \in SUBSET Keys
    /\ exclusive \in Txns \cup {NoTxn} /\ sharers \in SUBSET Txns
    /\ mutex \in [Pickets -> Txns \cup {NoTxn}]
    /\ next_lsn \in Nat
    /\ pc \in [Txns -> Points]
    /\ ops \in [Txns -> Seq(Ops)] /\ todo \in [Txns -> Seq(Ops)]
    /\ call \in [Txns -> [kind : Kinds \cup {"none"}, key : Keys, ver : Nat, stale : BOOLEAN]]
    /\ made \in [Txns -> Nat] /\ to_lock \in [Txns -> SUBSET Pickets]
    /\ missed \in SUBSET Txns /\ dead \in SUBSET Mortal
    /\ retouched \in SUBSET Keys /\ twisted \in SUBSET Keys /\ corrupt \in BOOLEAN

\* A row that a thread looks at, with the container shared and the row's mutex,
\* is changed by no other: neither a commit nor a rollback passes under it.
RowIsStable(t) ==
    pc[t] = "at" /\ pc'[t] = "at" /\ call'[t].key = call[t].key =>
        rows'[call[t].key] = rows[call[t].key]
RowsAreStable == [][\A t \in Txns : RowIsStable(t)]_vars

\* Rows come and go only while one thread has the container to itself, so that
\* the iterators of those that share it stay good.
ShapeIsExclusive ==
    [][\A k \in Keys : Present(rows'[k]) # Present(rows[k]) =>
          exclusive # NoTxn /\ sharers = {}]_vars

\* A marked row carries the id of an unfinished transaction that has an
\* operation on it, and no other unfinished transaction has one.
Unfinished(t) == pc[t] \notin {"committing", "rolling back", "done"}
RowLocksAreExclusive ==
    ~corrupt => \A k \in Keys : \A t \in Txns :
        Unfinished(t) /\ k \in KeysOf(t) =>
            /\ rows[k].op # "none" /\ rows[k].id = t
            /\ \A s \in Txns \ {t} : Unfinished(s) => k \notin KeysOf(s)

\* What redo makes of the row of k, from the records of the transactions that
\* have finished with that row.
NotThere == [val |-> NoValue, lsn |-> 0]
First(k) == IF k \in Recovered THEN [val |-> Recoveree.val, lsn |-> FirstLsn] ELSE NotThere
Through(k, r) ==
    \/ pc[r.txn] = "done"
    \/ pc[r.txn] = "committing" /\ \A i \in DOMAIN todo[r.txn] : todo[r.txn][i].key # k
RedoOne(k, r, row, c) ==
    IF c.key # k THEN row
    ELSE CASE c.kind = "delete" -> NotThere
           [] c.kind = "update" -> [val |-> c.val, lsn |-> r.lsn]
           [] c.kind = "insert" -> IF row = NotThere THEN [val |-> c.val, lsn |-> r.lsn] ELSE row
RedoRecord(k, row, r) ==
    LET redone[i \in 0 .. Len(r.changes)] ==
            IF i = 0 THEN row ELSE RedoOne(k, r, redone[i - 1], r.changes[i])
    IN redone[Len(r.changes)]
RedoLog(k, records, applied) ==
    LET redone[i \in 0 .. Len(records)] ==
            IF i = 0 THEN First(k)
            ELSE IF i \in applied THEN RedoRecord(k, redone[i - 1], records[i])
            ELSE redone[i - 1]
    IN redone[Len(records)]
Recoverable(k) == RedoLog(k, log, {i \in DOMAIN log : Through(k, log[i])})
Visible(k) == IF Present(rows[k]) /\ rows[k].op # "insert" THEN rows[k].val ELSE NoValue

\* Readers without a transaction see what recovery would make of the log, at
\* every step of every commit and rollback.  Left out are a row that one
\* transaction updated twice and one that it both inserted and erased.
MapIsWhatTheLogSays ==
    ~corrupt => \A k \in Keys \ (retouched \cup twisted) :
        /\ Visible(k) = Recoverable(k).val
        /\ Present(rows[k]) /\ rows[k].op = "none" => rows[k].id = Recoverable(k).lsn

\* Each place that the checkpoint file has given to a row is that row's, or is
\* handed back when the row goes.  An insert over the transaction's own delete
\* drops it, as trans_set_hook::operator= asserts that no assignment does.
PlacesAreKept ==
    \A k \in Recovered \ twisted : rows[k].placed # (k \in freed)

\* Whoever sleeps waits for a row that another transaction still holds, or for
\* one that is about to notify, or was passed by a notification that did not
\* wait for its mutex.  ("Need to get the mutex before releasing the container lock
\* in order to not miss a wake-up call", says the code, and a commit that erased
\* something notifies without the mutexes of its rows.)
LockedOut(t) ==
    \/ HeldByOther(t, rows[call[t].key])
    \/ \E s \in Txns : Ending(s)
SleepersAreLockedOut ==
    ~corrupt => \A t \in Txns : pc[t] = "asleep" => LockedOut(t) \/ t \in missed

\* A transaction uses an iterator to an entry that is gone only where one
\* transaction both inserted and erased a row, or erased it twice.
OnlyTwistedRowsCorrupt == corrupt => twisted # {}

\* A commit or rollback that has begun ends: no two of them, and no call on a
\* row, wait for each other's locks.  ("never blocks indefinitely if some process dies
\* while holding it", says the comment on the mutexes: then it ends with an exception.)
TransactionsEnd ==
    \A t \in Txns :
        pc[t] \in {"commit", "rollback"} ~> pc[t] = "done" \/ t \in Gone \/ corrupt

\* What row locks promise: they are exclusive, and who waits for one is not forgotten.
RowLocksHold == TypeOK /\ RowLocksAreExclusive /\ SleepersAreLockedOut

\* What commits promise: the map and the places of its rows in the checkpoint file are
\* what recovery would make of the log, but for the rows twisted as described above.
CommitsAreFaithful == MapIsWhatTheLogSays /\ PlacesAreKept /\ OnlyTwistedRowsCorrupt

\* What iterators rely on while they share the container.
IteratorsAreSafe == RowsAreStable /\ ShapeIsExclusive

=============================================================================

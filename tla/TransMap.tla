------------------------------ MODULE TransMap ------------------------------
(***************************************************************************)
(* One trans_map of STLdb and the transactions on it: the row locks with   *)
(* which each operation marks the row it changes, the list of operations   *)
(* that each transaction keeps, what commit, rollback and redo make of     *)
(* that list, and the protocol by which an operation that finds a row      *)
(* locked sleeps until a transaction completes (while_row_locked, the wait *)
(* policies, container_proxy::completeTxn).                                *)
(*                                                                         *)
(* An operation and the find() that gives it its iterator are one step:    *)
(* the application holds the container's lock over both.  Taking a place   *)
(* in the log, the changes to the map and the notification of those who    *)
(* sleep are steps of their own.  The log is modelled by CommitLog: here a *)
(* record is in it at once.                                                *)
(*                                                                         *)
(* Beside a few operators X stands X_Name, the same with a plausible slip  *)
(* of the code.  Nothing uses those: put in the place of X each one breaks *)
(* the property that is there to catch it, as PROJECT.json records.        *)
(***************************************************************************)
EXTENDS Integers, Sequences, FiniteSetsExt, Functions, SequencesExt

CONSTANTS
    Txns,          \* the transactions
    Keys,          \* the keys
    Recovered,     \* the LSNs of the rows that recovery left in the map, by key
    MaxOps,        \* bound: the operations each transaction attempts
    NoTxn, NoValue

ASSUME RecoveredAssumption ==
    /\ DOMAIN Recovered \subseteq Keys /\ IsFiniteSet(DOMAIN Recovered)
    /\ \A k \in DOMAIN Recovered : Recovered[k] \in Nat \ {0}
ASSUME BoundsAssumption == MaxOps \in [Txns -> Nat]
ASSUME NobodyAssumption ==
    NoTxn \notin Txns /\ NoValue \notin (Txns \cup {NoTxn}) \X Nat

VARIABLES
    \* in the region
    rows,          \* the entries: value, pending operation and _txn_id of each key
    ver_num,       \* _ver_num
    container,     \* the transaction with the exclusive lock on the container, from
                   \* its changes until its notification
    row_mutex,     \* the sleeper-to-be that holds _row_level_lock
    next_txn_id, next_lsn,
    log,           \* the records that commit wrote: what redo makes of the list
    \* each transaction
    pc,
    id,            \* _transId, which getLockId() returns
    ops,           \* _outstandingChanges
    made,          \* the operations attempted
    wait,          \* the call that a sleeper retries, and what it saw of the map
    \* bookkeeping for the properties
    asked,         \* the keys for which lock() has returned
    retouched,     \* keys updated more than once by the record that last changed them
    corrupt        \* an iterator to an erased entry was used

map == <<rows, ver_num>>
locks == <<container, row_mutex>>
txns == <<pc, id, ops, made, wait>>
vars == <<map, locks, next_txn_id, next_lsn, log, txns, asked, retouched, corrupt>>

NoRow == [val |-> NoValue, op |-> "none", id |-> 0]
Recoveree(k) == [val |-> <<NoTxn, 0>>, op |-> "none", id |-> Recovered[k]]
FirstRows == [k \in Keys |-> IF k \in DOMAIN Recovered THEN Recoveree(k) ELSE NoRow]
Present(row) == row.val # NoValue
\* What find() without a transaction shows.
Shown(row) == Present(row) /\ row.op # "insert"

NoCall == [kind |-> "none", key |-> 0, ver |-> 0, over |-> "none", stale |-> FALSE]

\* The counter of transactions starts afresh with the region; that of LSNs goes on.
Init ==
    /\ rows = FirstRows
    /\ ver_num = 0
    /\ container = NoTxn
    /\ row_mutex = NoTxn
    /\ next_txn_id = 1
    /\ next_lsn = 1 + Max({0} \cup Range(Recovered))
    /\ log = <<>>
    /\ pc = [t \in Txns |-> "begin"]
    /\ id = [t \in Txns |-> 0]
    /\ ops = [t \in Txns |-> <<>>]
    /\ made = [t \in Txns |-> 0]
    /\ wait = [t \in Txns |-> NoCall]
    /\ asked = [t \in Txns |-> {}]
    /\ retouched = {}
    /\ corrupt = FALSE

Goto(t, point) == pc' = [pc EXCEPT ![t] = point]

Begin(t) ==
    /\ pc[t] = "begin"
    /\ id' = [id EXCEPT ![t] = next_txn_id]
    /\ next_txn_id' = next_txn_id + 1
    /\ Goto(t, "active")
    /\ UNCHANGED <<map, locks, next_lsn, log, ops, made, wait, asked, retouched, corrupt>>

-----------------------------------------------------------------------------
\* Operations on rows

HeldByOther(t, row) == row.op # "none" /\ row.id # id[t]

\* find(key, trans) gives an iterator to the row.
Found(t, row) ==
    /\ Present(row)
    /\ ~ (row.op = "delete" /\ row.id = id[t])
    /\ ~ (row.op = "insert" /\ row.id # id[t])

Contends(t, kind, k) ==
    IF kind = "insert" THEN rows[k].op \in {"insert", "delete"} /\ rows[k].id # id[t]
                       ELSE HeldByOther(t, rows[k])

Value(t) == <<t, Len(ops[t])>>

\* t marks the row of k with an operation and adds one to its list, which
\* remembers the mark that it replaces.
Mark(t, k, op) ==
    /\ rows' = [rows EXCEPT ![k].op = op, ![k].id = id[t]]
    /\ ops' = [ops EXCEPT ![t] = Append(@, [kind |-> op, key |-> k, val |-> Value(t),
                                            id |-> rows[k].id, op |-> rows[k].op])]

\* A row whose _txn_id is that of t counts as locked by t, marked or not.
Lock(t, k) ==
    /\ IF rows[k].id = id[t] THEN UNCHANGED <<rows, ops>> ELSE Mark(t, k, "lock")
    /\ asked' = [asked EXCEPT ![t] = @ \cup {k}]

Update(t, k) ==
    /\ \/ /\ rows[k].op = "insert"
          /\ rows' = [rows EXCEPT ![k].val = Value(t)]
          /\ UNCHANGED ops
       \/ rows[k].op \in {"none", "lock", "update"} /\ Mark(t, k, "update")
       \/ rows[k].op = "deleted_insert" /\ UNCHANGED <<rows, ops>>
    /\ UNCHANGED asked

Erase(t, k) ==
    /\ \/ rows[k].op = "insert" /\ Mark(t, k, "deleted_insert")
       \/ rows[k].op \in {"none", "lock", "update"} /\ Mark(t, k, "delete")
       \/ rows[k].op = "deleted_insert" /\ UNCHANGED <<rows, ops>>
    /\ UNCHANGED asked

\* Over a delete of its own, an insert is an update; any other row refuses it.
Insert(t, k) ==
    /\ \/ /\ ~Present(rows[k])
          /\ rows' = [rows EXCEPT ![k] = [val |-> Value(t), op |-> "insert", id |-> id[t]]]
          /\ ops' = [ops EXCEPT ![t] = Append(@, [kind |-> "insert", key |-> k, val |-> Value(t),
                                                  id |-> 0, op |-> "none"])]
       \/ rows[k].op = "delete" /\ Mark(t, k, "update")
       \/ Present(rows[k]) /\ rows[k].op # "delete" /\ UNCHANGED <<rows, ops>>
    /\ UNCHANGED asked

Kinds == {"lock", "update", "erase", "insert"}
Perform(t, kind, k) ==
    /\ \/ kind = "lock" /\ Lock(t, k)
       \/ kind = "update" /\ Update(t, k)
       \/ kind = "erase" /\ Erase(t, k)
       \/ kind = "insert" /\ Insert(t, k)
    /\ Goto(t, "active")
    /\ wait' = [wait EXCEPT ![t] = NoCall]
    /\ UNCHANGED row_mutex

\* t keeps the row mutex while it lets go of the container, to miss no notification.
Doze(t, kind, k) ==
    /\ row_mutex = NoTxn
    /\ row_mutex' = t
    /\ wait' = [wait EXCEPT ![t] = [kind |-> kind, key |-> k, ver |-> ver_num,
                                    over |-> rows[k].op, stale |-> FALSE]]
    /\ Goto(t, "dozing")
    /\ UNCHANGED <<rows, ops, asked>>

Attempt(t, kind, k) ==
    IF Contends(t, kind, k) THEN Doze(t, kind, k) ELSE Perform(t, kind, k)

\* insert(), which holds the container exclusively, takes the row mutex only to sleep.
MayLook(kind) == container = NoTxn /\ (kind = "insert" \/ row_mutex = NoTxn)

Operate(t, kind, k) ==
    /\ ~corrupt
    /\ pc[t] = "active" /\ made[t] < MaxOps[t]
    /\ MayLook(kind)
    /\ kind = "insert" \/ Found(t, rows[k])
    /\ made' = [made EXCEPT ![t] = @ + 1]
    /\ Attempt(t, kind, k)
    /\ UNCHANGED <<ver_num, container, next_txn_id, next_lsn, log, id, retouched, corrupt>>

\* condition.wait() lets go of the row mutex as it goes to sleep.
Sleep(t) ==
    /\ pc[t] = "dozing"
    /\ row_mutex' = NoTxn
    /\ Goto(t, "asleep")
    /\ UNCHANGED <<map, container, next_txn_id, next_lsn, log, id, ops, made, wait,
                   asked, retouched, corrupt>>

\* The bounded wait policy gives up: the operation throws lock_timeout_exception.
Timeout(t) ==
    /\ pc[t] = "asleep"
    /\ Goto(t, "active")
    /\ wait' = [wait EXCEPT ![t] = NoCall]
    /\ UNCHANGED <<map, locks, next_txn_id, next_lsn, log, id, ops, made,
                   asked, retouched, corrupt>>

MustFindAgain(t) == wait[t].kind # "insert" /\ wait[t].ver # ver_num

\* Back in the container, the iterator is taken anew if the map's version says
\* that it may be gone; the entry may be gone, too (row_deleted_exception).
Retry(t) ==
    /\ ~corrupt
    /\ pc[t] = "woken"
    /\ MayLook(wait[t].kind)
    /\ \/ /\ IF MustFindAgain(t) THEN Found(t, rows[wait[t].key]) ELSE ~wait[t].stale
          /\ Attempt(t, wait[t].kind, wait[t].key)
          /\ UNCHANGED corrupt
       \/ /\ MustFindAgain(t) /\ ~Found(t, rows[wait[t].key])
          /\ Goto(t, "active")
          /\ wait' = [wait EXCEPT ![t] = NoCall]
          /\ UNCHANGED <<rows, ops, row_mutex, asked, corrupt>>
       \/ /\ ~MustFindAgain(t) /\ wait[t].stale
          /\ corrupt' = TRUE
          /\ UNCHANGED <<rows, row_mutex, pc, ops, wait, asked>>
    /\ UNCHANGED <<ver_num, container, next_txn_id, next_lsn, log, id, made, retouched>>

-----------------------------------------------------------------------------
\* The end of a transaction

\* What add_to_log() writes for t: an insert with the entry's value of now,
\* nothing for a lock, and a deleted insert under the code of a delete.
LoggedKind(o) == IF o.kind = "deleted_insert" THEN "delete" ELSE o.kind
LoggedOp(o) == [kind |-> LoggedKind(o), key |-> o.key,
                val |-> IF o.kind = "insert" THEN rows[o.key].val ELSE o.val]
Logged(t) ==
    LET written[i \in 0 .. Len(ops[t])] ==
            IF i = 0 THEN <<>>
            ELSE IF ops[t][i].kind = "lock" THEN written[i - 1]
            ELSE Append(written[i - 1], LoggedOp(ops[t][i]))
    IN written[Len(ops[t])]

\* Phases 1 and 2 of Transaction::commit.  A transaction of locks alone has an
\* empty record, which queue_for_commit refuses: it can only be rolled back.
WriteRecord(t) ==
    /\ ~corrupt
    /\ pc[t] = "active"
    /\ Logged(t) # <<>>
    /\ log' = Append(log, [txn |-> t, lsn |-> next_lsn, changes |-> Logged(t)])
    /\ next_lsn' = next_lsn + 1
    /\ Goto(t, "logged")
    /\ UNCHANGED <<map, locks, next_txn_id, id, ops, made, wait, asked, retouched, corrupt>>

\* The map after one operation: its rows, its version and whether the entry that
\* the operation points to was gone.
TheMap == [rows |-> rows, ver |-> ver_num, bad |-> FALSE]
Unlocked(m, k, v, n, op) == [m EXCEPT !.rows[k] = [val |-> v, op |-> op, id |-> n]]
Erased(m, k) == [m EXCEPT !.rows[k] = NoRow]

CommitDelete_OldVersion(m, k) == Erased(m, k)
CommitDelete(m, k) == [Erased(m, k) EXCEPT !.ver = @ + 1]

CommitInsert(m, k, lsn) == Unlocked(m, k, m.rows[k].val, lsn, "none")
CommitUpdate(m, o, lsn) == Unlocked(m, o.key, o.val, lsn, "none")
CommitLock(m, o) == Unlocked(m, o.key, m.rows[o.key].val, o.id, "none")
CommitDeletedInsert(m, k) == Erased(m, k)

\* Each operation commits only the mark that it has itself left on the row.
CommitOp_ErasesAnyway(m, o, lsn) ==
    IF o.kind = "delete" THEN CommitDelete(m, o.key)
    ELSE Unlocked(m, o.key, IF o.kind = "update" THEN o.val ELSE m.rows[o.key].val, lsn, "none")
CommitOp(m, o, lsn) ==
    IF ~Present(m.rows[o.key]) THEN [m EXCEPT !.bad = TRUE]
    ELSE IF m.rows[o.key].op # o.kind THEN m
    ELSE CASE o.kind = "insert"         -> CommitInsert(m, o.key, lsn)
           [] o.kind = "update"         -> CommitUpdate(m, o, lsn)
           [] o.kind = "lock"           -> CommitLock(m, o)
           [] o.kind = "delete"         -> CommitDelete(m, o.key)
           [] o.kind = "deleted_insert" -> CommitDeletedInsert(m, o.key)

RollbackInsert(m, k) == Erased(m, k)
RollbackMark(m, o) == Unlocked(m, o.key, m.rows[o.key].val, o.id, o.op)
RollbackOp(m, o) ==
    IF ~Present(m.rows[o.key]) THEN [m EXCEPT !.bad = TRUE]
    ELSE IF o.kind = "insert" THEN RollbackInsert(m, o.key)
    ELSE RollbackMark(m, o)

\* The operations are committed in their order, and rolled back in reverse.
CommittedMap(t, lsn) ==
    LET after[i \in 0 .. Len(ops[t])] ==
            IF i = 0 THEN TheMap ELSE CommitOp(after[i - 1], ops[t][i], lsn)
    IN after[Len(ops[t])]
RolledBackMap(t) ==
    LET n == Len(ops[t])
        after[i \in 0 .. n] ==
            IF i = 0 THEN TheMap ELSE RollbackOp(after[i - 1], ops[t][n + 1 - i])
    IN after[n]

\* t changes the map to m, with the container locked until it has notified.
Change(t, m) ==
    /\ container = NoTxn
    /\ container' = t
    /\ rows' = m.rows
    /\ ver_num' = m.ver
    /\ corrupt' = m.bad
    /\ wait' = [s \in Txns |->
          IF /\ wait[s].kind \in Kinds \ {"insert"}
             /\ Present(rows[wait[s].key]) /\ ~Present(m.rows[wait[s].key])
          THEN [wait[s] EXCEPT !.stale = TRUE] ELSE wait[s]]
    /\ Goto(t, "changed")
    /\ UNCHANGED <<row_mutex, next_txn_id, next_lsn, log, id, ops, made, asked>>

KeysOf(t) == {ops[t][i].key : i \in DOMAIN ops[t]}
Listed(t, k, kind) == {i \in DOMAIN ops[t] : ops[t][i].key = k /\ ops[t][i].kind = kind}
Retouched(t) == {k \in KeysOf(t) : Cardinality(Listed(t, k, "update")) > 1}
Locked(t) == {k \in KeysOf(t) : rows[k].op = "lock"}

\* Phase 3 of Transaction::commit.
Commit(t) ==
    /\ ~corrupt
    /\ pc[t] = "logged"
    /\ Change(t, CommittedMap(t, (CHOOSE r \in Range(log) : r.txn = t).lsn))
    /\ retouched' = (retouched \ (KeysOf(t) \ Locked(t))) \cup Retouched(t)

Rollback(t) ==
    /\ ~corrupt
    /\ pc[t] = "active"
    /\ IF ops[t] # <<>> THEN Change(t, RolledBackMap(t))
       ELSE /\ Goto(t, "done")
            /\ UNCHANGED <<map, locks, next_txn_id, next_lsn, log, id, ops, made, wait,
                           asked, corrupt>>
    /\ UNCHANGED retouched

\* completeTxn: everyone that sleeps is woken, under the row mutex.
CanNotify_WithoutTheMutex(t) == pc[t] = "changed"
CanNotify(t) == pc[t] = "changed" /\ row_mutex = NoTxn
Notify(t) ==
    /\ ~corrupt
    /\ CanNotify(t)
    /\ pc' = [s \in Txns |-> IF s = t THEN "done"
                             ELSE IF pc[s] = "asleep" THEN "woken" ELSE pc[s]]
    /\ container' = NoTxn
    /\ ops' = [ops EXCEPT ![t] = <<>>]
    /\ asked' = [asked EXCEPT ![t] = {}]
    /\ UNCHANGED <<map, row_mutex, next_txn_id, next_lsn, log, id, made, wait,
                   retouched, corrupt>>

Ended ==
    /\ corrupt \/ \A t \in Txns : pc[t] = "done"
    /\ UNCHANGED vars

Next ==
    \/ Ended
    \/ \E t \in Txns :
        \/ Begin(t) \/ Sleep(t) \/ Timeout(t) \/ Retry(t)
        \/ WriteRecord(t) \/ Commit(t) \/ Rollback(t) \/ Notify(t)
        \/ \E kind \in Kinds, k \in Keys : Operate(t, kind, k)

Spec == Init /\ [][Next]_vars

-----------------------------------------------------------------------------
\* Properties

Points == {"begin", "active", "dozing", "asleep", "woken", "logged", "changed", "done"}
Marks == {"none", "lock", "insert", "update", "delete", "deleted_insert"}
Values == {NoValue} \cup ((Txns \cup {NoTxn}) \X Nat)
Rows == [val : Values, op : Marks, id : Nat]
Ops == [kind : Marks \ {"none"}, key : Keys, val : Values, id : Nat, op : Marks]
Waits == [kind : Kinds \cup {"none"}, key : Keys \cup {0}, ver : Nat, over : Marks, stale : BOOLEAN]

\* Every variable has its type; a row that is not there is unmarked, and an
\* operation is kept until its transaction ends.
TypeOK ==
    /\ rows \in [Keys -> Rows]
    /\ \A k \in Keys : ~Present(rows[k]) => rows[k] = NoRow
    /\ ver_num \in Nat
    /\ container \in Txns \cup {NoTxn} /\ row_mutex \in Txns \cup {NoTxn}
    /\ next_txn_id \in Nat /\ next_lsn \in Nat
    /\ pc \in [Txns -> Points]
    /\ id \in [Txns -> Nat] /\ made \in [Txns -> Nat]
    /\ ops \in [Txns -> Seq(Ops)] /\ wait \in [Txns -> Waits]
    /\ asked \in [Txns -> SUBSET Keys] /\ retouched \in SUBSET Keys /\ corrupt \in BOOLEAN

\* A row lock has one holder, from its first operation until the end: a marked
\* row carries the id of an unfinished transaction, which has an operation on
\* that row in its list and is the only one that has.
Unfinished(t) == pc[t] \notin {"begin", "changed", "done"}
RowLocksAreExclusive ==
    ~corrupt => \A k \in Keys :
        IF rows[k].op = "none" THEN \A t \in Txns : Unfinished(t) => k \notin KeysOf(t)
        ELSE \E t \in Txns :
                /\ Unfinished(t) /\ rows[k].id = id[t] /\ k \in KeysOf(t)
                /\ \A s \in Txns \ {t} : Unfinished(s) => k \notin KeysOf(s)

\* What recovery would make of the row of k: the records of the transactions
\* that have changed the map, redone over what was recovered before.
NotThere == [val |-> NoValue, lsn |-> 0]
RedoOne(k, r, row, c) ==
    IF c.key # k THEN row
    ELSE CASE c.kind = "delete" -> NotThere
           [] c.kind = "update" -> [val |-> c.val, lsn |-> r.lsn]
           [] c.kind = "insert" -> IF row = NotThere THEN [val |-> c.val, lsn |-> r.lsn] ELSE row
RedoRecord(k, row, r) ==
    LET redone[i \in 0 .. Len(r.changes)] ==
            IF i = 0 THEN row ELSE RedoOne(k, r, redone[i - 1], r.changes[i])
    IN redone[Len(r.changes)]
FirstFound(k) == [val |-> FirstRows[k].val, lsn |-> FirstRows[k].id]
RedoLog(k, records, applied) ==
    LET redone[i \in 0 .. Len(records)] ==
            IF i = 0 THEN FirstFound(k)
            ELSE IF i \in applied THEN RedoRecord(k, redone[i - 1], records[i])
            ELSE redone[i - 1]
    IN redone[Len(records)]
Applied == {i \in DOMAIN log : pc[log[i].txn] \in {"changed", "done"}}
Recoverable(k) == RedoLog(k, log, Applied)
\* What a reader without a transaction sees of the row of k.
Visible(k) == IF Shown(rows[k]) THEN rows[k].val ELSE NoValue

Faithful(k) ==
    /\ Visible(k) = Recoverable(k).val
    /\ Present(rows[k]) /\ rows[k].op = "none" => rows[k].id = Recoverable(k).lsn

\* The map that readers see is the one that recovery would make of the log of
\* the committed transactions: neither a change of an unfinished transaction
\* nor one of those rolled back is visible, every committed one is, and an
\* unmarked row carries the LSN of the commit it comes from, which decides what
\* a checkpoint writes.  Known departures are left out: a row that one
\* transaction updates twice commits its first value and logs both, since
\* map_update_operation::commit does nothing when the mark is gone; and an insert
\* erased by its own transaction shows to every reader until that one ends.
MapIsWhatTheLogSays ==
    ~corrupt => \A k \in Keys \ retouched : rows[k].op # "deleted_insert" => Faithful(k)

\* Nobody misses the notification that could let it go on: whoever sleeps waits
\* for a row that another transaction still holds, or for one that is about to
\* notify.
SleepersAreLockedOut ==
    ~corrupt => \A t \in Txns :
        pc[t] = "asleep" => container # NoTxn \/ HeldByOther(t, rows[wait[t].key])

\* A sleeper whose iterator has become invalid finds out by the map's version,
\* unless it waits for an insert erased by its own transaction, which that
\* transaction's commit removes without a new version.
StaleIteratorsAreNoticed ==
    \A t \in Txns : wait[t].stale /\ wait[t].over # "deleted_insert" => wait[t].ver # ver_num

\* Commit and rollback leave no operation of a list with an iterator to an
\* entry that an earlier one of that list has erased, but in a transaction that
\* erased one row twice.
OnlyErasedTwiceCorrupts ==
    corrupt => \/ \E t \in Txns, k \in Keys : Cardinality(Listed(t, k, "delete")) > 1
               \/ \E t \in Txns : wait[t].stale /\ wait[t].over = "deleted_insert"

\* lock() keeps everyone else off the row until its transaction ends, unless the
\* transaction's id is also the LSN of a commit, since the two share a field of
\* the row.
AskedIsLocked ==
    ~corrupt => \A t \in Txns : \A k \in asked[t] :
        \/ pc[t] = "changed"
        \/ rows[k].op # "none" /\ rows[k].id = id[t]
        \/ id[t] \in Range(Recovered) \cup {r.lsn : r \in Range(log)}

\* What row locks promise: they are exclusive, lock() takes them, and who waits for one is
\* not forgotten.
RowLocksHold == TypeOK /\ RowLocksAreExclusive /\ AskedIsLocked /\ SleepersAreLockedOut

\* No call goes on with an iterator to an entry that is gone: neither after a sleep nor
\* in commit or rollback, but where a row was erased twice.
NoIteratorDangles == StaleIteratorsAreNoticed /\ OnlyErasedTwiceCorrupts

=============================================================================

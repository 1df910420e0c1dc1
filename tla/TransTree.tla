------------------------------ MODULE TransTree ------------------------------
(***************************************************************************)
(* stldb::rbtree, the transactional form of an intrusive red-black tree:   *)
(* the application allocates the nodes, the tree links them.  An update    *)
(* keeps the new node in a tree of the transaction's own (its pending      *)
(* changes) and commit puts it in the place of the old one, so that rows   *)
(* change their node and every operation of a transaction's list is a      *)
(* pointer that some other step may leave dangling.                        *)
(*                                                                         *)
(* Here a node is a name of the heap and a pointer to it is that name; a   *)
(* step that follows a pointer to a node that was freed, or takes a node   *)
(* out of a tree that it is not in, ends the behaviour (corrupt).  Unlike  *)
(* trans_map nothing waits: an operation on a row that another transaction *)
(* holds throws, and has changed nothing.  Updating and erasing share the  *)
(* tree's lock and are two steps each, the look at the mark of a node and  *)
(* the new mark: update() holds a mutex over both and erase() does not, so *)
(* that an erase comes between the steps of an update or of another erase. *)
(* A row whose mark was set so is a known departure (raced); from then on  *)
(* nothing is claimed of it.                                               *)
(*                                                                         *)
(* Beside a few operators X stands X_Name, the same with a plausible slip  *)
(* of the code, which nothing here uses.                                   *)
(***************************************************************************)
EXTENDS Integers, Sequences, FiniteSetsExt, Functions, SequencesExt

CONSTANTS
    Txns,
    Keys,          \* a set of numbers, in the order of the tree
    FirstKeys,     \* the keys that have a row at first
    MaxOps,        \* bound: the operations of each transaction that succeed
    NoTxn, NoNode, NoValue,
    Halted         \* what recovery makes of a row whose redo ends it

ASSUME KeysAssumption == Keys \subseteq Nat /\ IsFiniteSet(Keys) /\ FirstKeys \subseteq Keys
ASSUME OpsAssumption == MaxOps \in [Txns -> Nat]
ASSUME NobodyAssumption ==
    /\ NoTxn \notin Txns /\ NoValue # Halted
    /\ {NoNode, NoValue, Halted} \cap ((Txns \cup {NoTxn}) \X Nat) = {}

VARIABLES
    \* in the region
    heap,          \* the nodes: key, value, pending operation and its transaction
    tree,          \* the node linked under each key
    log,           \* the records written
    \* each transaction
    pc,
    changes,       \* its pending_change_map_t: the nodes of its updates, by key
    ops,           \* its operations, with the node that each points to
    made,          \* how many of its operations succeeded
    looked,        \* the update or erase whose node it has looked at, and will mark
    \* bookkeeping for the properties
    intent,        \* what each transaction wants of the keys it has changed
    committed,     \* what the finished transactions have made of each key
    departed,      \* the keys met by one of the known departures, and by which
    corrupt

region == <<heap, tree>>
txns == <<pc, changes, ops, made, looked>>
wishes == <<intent, committed, departed>>
vars == <<region, log, txns, wishes, corrupt>>

Node(k, v) == [key |-> k, val |-> v, op |-> "none", id |-> NoTxn]
FirstNode(k) == <<NoTxn, k>>
NoChanges == [k \in Keys |-> NoNode]

Init ==
    /\ heap = [n \in {FirstNode(k) : k \in FirstKeys} |-> Node(n[2], n)]
    /\ tree = [k \in Keys |-> IF k \in FirstKeys THEN FirstNode(k) ELSE NoNode]
    /\ log = <<>>
    /\ pc = [t \in Txns |-> "active"]
    /\ changes = [t \in Txns |-> NoChanges]
    /\ ops = [t \in Txns |-> <<>>]
    /\ made = [t \in Txns |-> 0]
    /\ looked = [t \in Txns |-> {}]
    /\ intent = [t \in Txns |-> <<>>]
    /\ committed = [k \in Keys |-> IF k \in FirstKeys THEN FirstNode(k) ELSE NoValue]
    /\ departed = {}
    /\ corrupt = FALSE

-----------------------------------------------------------------------------
\* Reading

Linked(k) == tree[k] # NoNode
Row(k) == heap[tree[k]]
Mine(t, n) == heap[n].id = t

\* find(key, trans): an iterator to the row, or to nothing.
Found(t, k) ==
    /\ Linked(k)
    /\ ~ (Row(k).op = "delete" /\ Mine(t, tree[k]))
    /\ ~ (Row(k).op = "insert" /\ ~Mine(t, tree[k]))
\* What the iterator shows: of a row that t updates, the pending node.
PendingUpdate(t, k) == changes[t][k]
Current(t, k) ==
    IF Row(k).op = "update" /\ Mine(t, tree[k]) THEN PendingUpdate(t, k) ELSE tree[k]

\* An iterator without a transaction.
Visible(k) == IF Linked(k) /\ Row(k).op # "insert" THEN Row(k).val ELSE NoValue

-----------------------------------------------------------------------------
\* Operations

\* update() and erase() look at the node that the iterator shows.
HeldByOther(t, n) == heap[n].op # "none" /\ ~Mine(t, n)

Marked(h, t, n, op) == [h EXCEPT ![n].op = op, ![n].id = t]
Unmarked(h, n) == [h EXCEPT ![n].op = "none", ![n].id = NoTxn]
\* Assigning a node copies the mark of the new value, too.
Assigned(h, n, v) == Unmarked([h EXCEPT ![n].val = v], n)

\* Whether the tree's lock can be had exclusively, and the mutex _row_level_lock.
TreeIsFree == \A t \in Txns : looked[t] = {}
RowMutexIsFree == \A t \in Txns : \A o \in looked[t] : o.kind # "update"
Active(t) == ~corrupt /\ pc[t] = "active" /\ looked[t] = {} /\ made[t] < MaxOps[t]

Operation(kind, n, new, op, id) ==
    [kind |-> kind, entry |-> n, new |-> new, op |-> op, id |-> id]
InsertOperation(n) == Operation("insert", n, NoNode, "none", NoTxn)
\* The others remember the mark that they have found.
UpdateOperation(n, new) == Operation("update", n, new, heap[n].op, heap[n].id)
EraseOperation(kind, n) == Operation(kind, n, NoNode, heap[n].op, heap[n].id)
With(f, x, v) == [y \in DOMAIN f \cup {x} |-> IF y = x THEN v ELSE f[y]]
Noted(t, o) == ops' = [ops EXCEPT ![t] = Append(@, o)]
New(t) == <<t, made[t] + 1>>
Wants(t, k, v) ==
    /\ intent' = [intent EXCEPT ![t] = With(@, k, v)]
    /\ made' = [made EXCEPT ![t] = @ + 1]

\* The comparison of insert_unique_check refuses a key or throws when it orders
\* it against a node that is being deleted, or inserted by another: the new
\* key's neighbours are always compared, larger keys may be.
InTheWay(t, k) ==
    Linked(k) /\ \/ Row(k).op \in {"delete", "deleted_insert"}
                 \/ Row(k).op = "insert" /\ ~Mine(t, tree[k])
Others(k) == {j \in Keys \ {k} : Linked(j)}
Between(i, j, k) == j < i /\ i < k
Neighbours(k) ==
    {j \in Others(k) : \A i \in Others(k) : ~Between(i, j, k) /\ ~Between(i, k, j)}
Compared(k, S) == Neighbours(k) \subseteq S /\ \A j \in S \ Neighbours(k) : j > k
MayInsert(t, k) ==
    \E S \in SUBSET Others(k) : Compared(k, S) /\ \A j \in S : ~InTheWay(t, j)

LinkNew(t, k) ==
    /\ heap' = Marked(With(heap, New(t), Node(k, New(t))), t, New(t), "insert")
    /\ tree' = [tree EXCEPT ![k] = New(t)]
    /\ Noted(t, InsertOperation(New(t)))
Insert(t, k) ==
    /\ Active(t) /\ TreeIsFree
    /\ ~Linked(k) /\ MayInsert(t, k)
    /\ LinkNew(t, k)
    /\ Wants(t, k, New(t))
    /\ UNCHANGED <<log, pc, changes, looked, committed, departed, corrupt>>

\* The first update of a row gives a pending node, a later one is assigned to it.
AddPendingUpdate(t, k, h) ==
    IF PendingUpdate(t, k) = NoNode
    THEN /\ heap' = With(h, New(t), Node(k, New(t)))
         /\ changes' = [changes EXCEPT ![t][k] = New(t)]
    ELSE /\ heap' = Assigned(h, PendingUpdate(t, k), New(t))
         /\ UNCHANGED changes

\* An update of a row that t has inserted is assigned to the row, mark and all.
Rewrite(t, k) ==
    /\ Active(t) /\ RowMutexIsFree
    /\ Found(t, k)
    /\ LET n == Current(t, k)
       IN /\ ~HeldByOther(t, n) /\ heap[n].op = "insert"
          /\ heap' = Assigned(heap, n, New(t))
    /\ departed' = departed \cup {<<"rewritten", k>>}
    /\ Wants(t, k, New(t))
    /\ UNCHANGED <<tree, log, pc, changes, ops, looked, committed, corrupt>>

\* The first half of private_update and private_erase: the mark allows it.
Looks(t, o) ==
    /\ ~HeldByOther(t, o.entry)
    /\ looked' = [looked EXCEPT ![t] = {o}]
    /\ UNCHANGED <<region, log, pc, changes, ops, made, wishes, corrupt>>
CheckUpdate(t, k) ==
    /\ Active(t) /\ RowMutexIsFree
    /\ Found(t, k)
    /\ LET n == Current(t, k)
       IN heap[n].op \in {"none", "update"} /\ Looks(t, UpdateOperation(n, New(t)))
CheckErase(t, k) ==
    /\ Active(t)
    /\ Found(t, k)
    /\ LET n == Current(t, k)
       IN \/ heap[n].op = "insert" /\ Looks(t, EraseOperation("deleted_insert", n))
          \/ heap[n].op \in {"none", "update"} /\ Looks(t, EraseOperation("delete", n))

\* The second half marks the node that the iterator shows, which after an update
\* by the same transaction is the pending one, whatever its mark is by now.
IsAbout(o, k) == heap[o.entry].key = k
MarkedMeanwhile(o) == heap[o.entry].op # o.op \/ heap[o.entry].id # o.id
Races(o, k) == {d \in {<<"raced", k>>} : MarkedMeanwhile(o)}
HalfErases(o, k) == {d \in {<<"half_erased", k>>} : o.entry # tree[k]}
SetsMark(t, o) ==
    /\ ~corrupt
    /\ looked' = [looked EXCEPT ![t] = {}]
    /\ Noted(t, o)
    /\ UNCHANGED <<tree, log, pc, committed, corrupt>>
MarkUpdated(t, k) == \E o \in looked[t] :
    /\ o.kind = "update" /\ IsAbout(o, k)
    /\ AddPendingUpdate(t, k, Marked(heap, t, o.entry, "update"))
    /\ departed' = departed \cup Races(o, k)
    /\ Wants(t, k, New(t))
    /\ SetsMark(t, o)
MarkErased(t, k) == \E o \in looked[t] :
    /\ o.kind # "update" /\ IsAbout(o, k)
    /\ heap' = Marked(heap, t, o.entry, o.kind)
    /\ departed' = departed \cup Races(o, k) \cup HalfErases(o, k)
    /\ Wants(t, k, NoValue)
    /\ SetsMark(t, o)
    /\ UNCHANGED changes

-----------------------------------------------------------------------------
\* The end of a transaction

\* What add_to_log() writes of each operation: the node that it points to, which
\* is the old one of an update.
LoggedKind(o) == IF o.kind = "deleted_insert" THEN "delete" ELSE o.kind
LoggedNode(o) == o.entry
LoggedOp(o) == [kind |-> LoggedKind(o), key |-> heap[LoggedNode(o)].key, val |-> heap[LoggedNode(o)].val]
AddToLog_Backwards(os) == [i \in DOMAIN os |-> LoggedOp(os[Len(os) + 1 - i])]
AddToLog(os) == [i \in DOMAIN os |-> LoggedOp(os[i])]
Dangling(t) == \E i \in DOMAIN ops[t] : ops[t][i].entry \notin DOMAIN heap

WriteRecord(t) ==
    /\ ~corrupt
    /\ pc[t] = "active" /\ looked[t] = {} /\ ops[t] # <<>>
    /\ \/ /\ ~Dangling(t)
          /\ log' = Append(log, AddToLog(ops[t]))
          /\ pc' = [pc EXCEPT ![t] = "logged"]
          /\ UNCHANGED corrupt
       \/ /\ Dangling(t)
          /\ corrupt' = TRUE
          /\ UNCHANGED <<log, pc>>
    /\ UNCHANGED <<region, changes, ops, made, looked, wishes>>

\* The region and the pending changes of t, as its operations are worked off.
TheTree(t) == [heap |-> heap, tree |-> tree, changes |-> changes[t], bad |-> FALSE]
Bad(m) == [m EXCEPT !.bad = TRUE]
KeyOf(m, n) == m.heap[n].key
Freed(h, n) == [x \in DOMAIN h \ {n} |-> h[x]]

\* Takes n out of the tree and frees it.
Erased(m, n) ==
    IF m.tree[KeyOf(m, n)] # n THEN Bad(m)
    ELSE [m EXCEPT !.heap = Freed(@, n), !.tree[KeyOf(m, n)] = NoNode]
\* Puts the pending node in the place of the old one.
Replaced_LeavesTheOld(m, n, new) ==
    [m EXCEPT !.heap = Unmarked(@, n), !.changes[KeyOf(m, n)] = NoNode]
Replaced(m, n, new) ==
    IF m.changes[KeyOf(m, n)] # new THEN Bad(m)
    ELSE [Erased(m, n) EXCEPT !.heap = Unmarked(Freed(@, n), new),
                              !.tree[KeyOf(m, n)] = new,
                              !.changes[KeyOf(m, n)] = NoNode]

CommitInsert(m, n) == [m EXCEPT !.heap = Unmarked(@, n)]
CommitDelete(m, n) == Erased(m, n)
CommitDeletedInsert(m, n) == Erased(m, n)
\* Each operation commits only the mark that it expects on its node.
CommitOp(m, o) ==
    IF o.entry \notin DOMAIN m.heap THEN Bad(m)
    ELSE IF m.heap[o.entry].op # o.kind THEN m
    ELSE CASE o.kind = "insert"         -> CommitInsert(m, o.entry)
           [] o.kind = "update"         -> Replaced(m, o.entry, o.new)
           [] o.kind = "delete"         -> CommitDelete(m, o.entry)
           [] o.kind = "deleted_insert" -> CommitDeletedInsert(m, o.entry)

RollbackInsert(m, n) == Erased(m, n)
MarkBack(h, n, op, id) == [h EXCEPT ![n].op = op, ![n].id = id]
RollbackMark(m, o) == [m EXCEPT !.heap = MarkBack(@, o.entry, o.op, o.id)]
RollbackOp(m, o) ==
    IF o.entry \notin DOMAIN m.heap THEN Bad(m)
    ELSE IF o.kind = "insert" THEN RollbackInsert(m, o.entry)
    ELSE RollbackMark(m, o)

CommittedTree(t) ==
    LET done[i \in 0 .. Len(ops[t])] ==
            IF i = 0 THEN TheTree(t) ELSE CommitOp(done[i - 1], ops[t][i])
    IN done[Len(ops[t])]
RolledBackTree(t) ==
    LET undone[i \in 0 .. Len(ops[t])] ==
            IF i = 0 THEN TheTree(t)
            ELSE RollbackOp(undone[i - 1], ops[t][Len(ops[t]) + 1 - i])
    IN undone[Len(ops[t])]

Cleared(t) ==
    /\ changes' = [changes EXCEPT ![t] = NoChanges]
    /\ ops' = [ops EXCEPT ![t] = <<>>]

\* t ends, with the tree locked exclusively, and its pending changes with it.
End(t, m) ==
    /\ TreeIsFree
    /\ heap' = [n \in DOMAIN m.heap \ Range(m.changes) |-> m.heap[n]]
    /\ tree' = m.tree
    /\ corrupt' = m.bad
    /\ pc' = [pc EXCEPT ![t] = "done"]
    /\ Cleared(t)
    /\ intent' = [intent EXCEPT ![t] = <<>>]
    /\ UNCHANGED <<log, made, looked, departed>>

Commit(t) ==
    /\ ~corrupt
    /\ pc[t] = "logged"
    /\ End(t, CommittedTree(t))
    /\ committed' = [k \in Keys |-> IF k \in DOMAIN intent[t] THEN intent[t][k] ELSE committed[k]]

Rollback(t) ==
    /\ ~corrupt
    /\ pc[t] = "active" /\ looked[t] = {}
    /\ End(t, RolledBackTree(t))
    /\ UNCHANGED committed

-----------------------------------------------------------------------------
\* What recovery makes of each row with the log.  The redo of a delete takes the
\* row that it finds out of the tree, and then frees not that row but what its
\* own iterator points to, which is null: recovery ends there (Halted), of all rows.
RedoneInsert(row, c) == IF row = NoValue THEN c.val ELSE row
RedoneUpdate(row, c) == c.val
RedoneDelete(row, c) == IF row = NoValue THEN NoValue ELSE Halted
Redone(row, c) ==
    CASE row = Halted                         -> Halted
      [] row # Halted /\ c.kind = "insert" -> RedoneInsert(row, c)
      [] row # Halted /\ c.kind = "update" -> RedoneUpdate(row, c)
      [] row # Halted /\ c.kind = "delete" -> RedoneDelete(row, c)

RedoRecord(k, row, record) ==
    LET redone[i \in 0 .. Len(record)] ==
            IF i = 0 THEN row
            ELSE IF record[i].key = k THEN Redone(redone[i - 1], record[i])
            ELSE redone[i - 1]
    IN redone[Len(record)]
Recovered(k) ==
    LET redone[i \in 0 .. Len(log)] ==
            IF i = 0 THEN IF k \in FirstKeys THEN FirstNode(k) ELSE NoValue
            ELSE RedoRecord(k, redone[i - 1], log[i])
    IN redone[Len(log)]

-----------------------------------------------------------------------------
Ended ==
    /\ corrupt \/ \A t \in Txns : pc[t] = "done"
    /\ UNCHANGED vars

Next ==
    \/ Ended
    \/ \E t \in Txns :
        \/ WriteRecord(t) \/ Commit(t) \/ Rollback(t)
        \/ \E k \in Keys : 
            \/ Insert(t, k) \/ Rewrite(t, k)
            \/ CheckUpdate(t, k) \/ MarkUpdated(t, k) \/ CheckErase(t, k) \/ MarkErased(t, k)

Spec == Init /\ [][Next]_vars

-----------------------------------------------------------------------------
\* Properties

Unfinished(t) == pc[t] # "done"
Departed(k) == \E d \in departed : d[2] = k
\* The row may have lost the mark of the transaction that changed it.
Wild(k) == \E d \in departed : d[2] = k /\ d[1] \in {"rewritten", "raced"}
ChangedKeys(t) == DOMAIN intent[t]
ErasedInsert(k) == Linked(k) /\ Row(k).op = "deleted_insert"

\* Every variable has its type; what is linked, in the tree or among pending
\* changes, is a live node of that key, and no node is linked twice.
TypeOK ==
    ~corrupt =>
      /\ \A n \in DOMAIN heap :
            /\ heap[n].key \in Keys /\ heap[n].id \in Txns \cup {NoTxn}
            /\ heap[n].op = "none" <=> heap[n].id = NoTxn
      /\ \A k \in Keys : Linked(k) => tree[k] \in DOMAIN heap /\ Row(k).key = k
      /\ \A t \in Txns, k \in Keys : changes[t][k] # NoNode =>
            /\ changes[t][k] \in DOMAIN heap /\ heap[changes[t][k]].key = k
            /\ changes[t][k] # tree[k] /\ Unfinished(t)
      /\ pc \in [Txns -> {"active", "logged", "done"}]

\* A row lock has one holder from its first operation until the end: the mark on
\* a row is that of the one unfinished transaction that has changed it.
\* Wild rows are the known departures: an update of a row that the same
\* transaction has inserted assigns the new node over the mark ("rewritten"),
\* and an erase and another operation set the mark that both have looked at
\* before ("raced").
RowLocksAreExclusive ==
    ~corrupt => \A k \in Keys : ~Wild(k) =>
        \A t \in Txns : k \in ChangedKeys(t) =>
            /\ Linked(k) /\ Row(k).op # "none" /\ Mine(t, tree[k])
            /\ \A s \in Txns \ {t} : k \notin ChangedKeys(s)

\* Readers see what the finished transactions made of each row, whatever the
\* unfinished ones are doing: commit applies all of a transaction's operations
\* in the end, and rollback none.  Left out are wild rows, rows that one
\* transaction updates and then erases, which survive its commit, and inserts
\* erased by their own transaction, which show until it ends.
VisibleIsCommitted ==
    ~corrupt => \A k \in Keys :
        \/ Departed(k) \/ ErasedInsert(k)
        \/ Visible(k) = committed[k]

\* A transaction that looks again finds its own changes, in the pending node of
\* a row that it has updated.  The same departures are left out.
OwnChangesAreFound ==
    ~corrupt => \A t \in Txns : \A k \in ChangedKeys(t) :
        \/ Departed(k) \/ ErasedInsert(k)
        \/ IF Found(t, k) THEN heap[Current(t, k)].val = intent[t][k]
                          ELSE intent[t][k] = NoValue

\* The pointers of every list stay good: no step follows one to a node that has
\* been freed or is not in the tree, unless a row has gone wild while its
\* transaction went on.
OnlyWildRowsCorrupt == corrupt => \E k \in Keys : Wild(k)

\* The log brings the rows back: once every transaction has ended, recovery makes
\* of it the rows that the finished transactions left, with their values.  There
\* are two known departures.  An update logs the node that it replaces, so that
\* recovery goes back to the value before the last update.  And recovery ends at
\* the redo of a delete of a row that is there, as every delete is that was
\* logged: it is for the logs without one that the rows come back.
Changes(k) == {c \in UNION {{i} \X DOMAIN log[i] : i \in DOMAIN log} : log[c[1]][c[2]].key = k}
Precedes(c, d) == c[1] < d[1] \/ (c[1] = d[1] /\ c[2] < d[2])
LastIsUpdate(k) ==
    \E c \in Changes(k) : /\ log[c[1]][c[2]].kind = "update"
                          /\ \A d \in Changes(k) : ~Precedes(c, d)
LoggedDelete(k) == \E c \in Changes(k) : log[c[1]][c[2]].kind = "delete"
RecoveryEnds == \E k \in Keys : Recovered(k) = Halted
LogBringsRowsBack ==
    ~corrupt /\ (\A t \in Txns : pc[t] = "done") =>
        /\ RecoveryEnds \/ \A k \in Keys :
              \/ Departed(k)
              \/ Recovered(k) = committed[k]
              \/ LastIsUpdate(k) /\ Recovered(k) # NoValue /\ committed[k] # NoValue
        /\ \A k \in Keys : LoggedDelete(k) /\ ~Departed(k) => Recovered(k) = Halted

\* Transactions on the tree are isolated: from each other by the row locks, from readers,
\* who see what is committed, and not from themselves.
TransactionsAreIsolated ==
    /\ TypeOK /\ OnlyWildRowsCorrupt
    /\ RowLocksAreExclusive /\ VisibleIsCommitted /\ OwnChangesAreFound

=============================================================================

---------------------------- MODULE ExclusiveMaps ----------------------------
(***************************************************************************)
(* An exclusive transaction of STLdb on two trans_maps: beside inserts,    *)
(* updates and erasures of rows it may clear() a map and swap() the two.   *)
(* Both take effect at once and are undone by rollback.  The transaction's *)
(* list then holds operations on rows that now are in another map, or in   *)
(* the map that keeps what was cleared (old_values), so that clear(),      *)
(* swap() and their rollbacks also redirect the operations of the list.    *)
(*                                                                         *)
(* Here "home" is the map in which an operation's row is, and "at" the     *)
(* map that the operation believes it is in, through which it erases.  An  *)
(* erasure through the wrong map ends the behaviour (broken), and so does  *)
(* a commit that comes to a row which it has already erased.               *)
(*                                                                         *)
(* The other transactions and the walks are those of Iterators.  The lock  *)
(* keeps them away from the exclusive transaction; that it comes first     *)
(* and nobody after it is a bound of this module.                          *)
(*                                                                         *)
(* Beside a few operators X stands X_Name, the same with a plausible slip  *)
(* of the code, which nothing here uses.                                   *)
(***************************************************************************)
EXTENDS Iterators

CONSTANT MaxCalls     \* bound: the calls of the exclusive transaction

ASSUME CallsAssumption == MaxCalls \in Nat

VARIABLES
    stage,         \* of the exclusive transaction
    lock_id,       \* its getLockId()
    trees,         \* the rows of each map, and of each old_values
    calls,         \* _outstandingChanges
    record,        \* what add_to_log() wrote
    broken

exclusive == <<stage, lock_id, trees, calls, record, broken>>

\* The two maps with a name; each old_values has a number of its own.
Names == {1, 2}
Other(m) == CHOOSE n \in Names : n # m
NoRows == [k \in Keys |-> NoRow]
OtherRows == [k \in Keys |-> IF k \in DOMAIN Recovered THEN NoRow
                             ELSE [val |-> <<NoTxn, 1>>, op |-> "none", id |-> 1]]
FirstTrees == [m \in Names |-> IF m = 1 THEN FirstRows ELSE OtherRows]

ExclusiveInit ==
    /\ WalkInit
    /\ stage = "idle" /\ lock_id = 0
    /\ trees = FirstTrees
    /\ calls = <<>> /\ record = <<>>
    /\ broken = FALSE

BeginExclusive ==
    /\ stage = "idle" /\ walks = 0
    /\ \A t \in Txns : pc[t] = "begin"
    /\ stage' = "active"
    /\ lock_id' = next_txn_id
    /\ next_txn_id' = next_txn_id + 1
    /\ UNCHANGED <<map, locks, next_lsn, log, txns, asked, retouched, corrupt, view,
                   trees, calls, record, broken>>

-----------------------------------------------------------------------------
\* Calls

Working == stage = "active" /\ Len(calls) < MaxCalls
NewValue == <<NoTxn, 2 + Len(calls)>>

OnRow(op, m, k, row) ==
    [kind |-> op, key |-> k, val |-> NewValue, id |-> row.id, op |-> row.op,
     at |-> m, home |-> m]
MarkRow(m, k, op) ==
    /\ trees' = [trees EXCEPT ![m][k].op = op, ![m][k].id = lock_id]
    /\ calls' = Append(calls, OnRow(op, m, k, trees[m][k]))

InsertRow(m, k) ==
    LET row == trees[m][k]
    IN \/ /\ ~Present(row)
          /\ trees' = [trees EXCEPT ![m][k] = [val |-> NewValue, op |-> "insert", id |-> lock_id]]
          /\ calls' = Append(calls, OnRow("insert", m, k, NoRow))
       \/ row.op = "delete" /\ MarkRow(m, k, "update")

\* The value of an updated row comes with the commit, that of an inserted one
\* at once.
UpdateRow(m, k) ==
    LET row == trees[m][k]
    IN /\ Present(row)
       /\ \/ /\ row.op = "insert"
             /\ trees' = [trees EXCEPT ![m][k].val = NewValue]
             /\ UNCHANGED calls
          \/ row.op \in {"none", "update"} /\ MarkRow(m, k, "update")

EraseRow(m, k) ==
    LET row == trees[m][k]
    IN /\ Present(row)
       /\ \/ row.op = "insert" /\ MarkRow(m, k, "deleted_insert")
          \/ row.op \in {"none", "update"} /\ MarkRow(m, k, "delete")

IsOnRow(o) == o.kind \notin {"clear", "swap"}
\* The list, with what is at m redirected to n, and at n (of two maps) to m.
MovedTo(c, m, n) == IF c = m THEN n ELSE IF c = n THEN m ELSE c
Redirected(list, m, n) ==
    [i \in DOMAIN list |->
        IF IsOnRow(list[i])
        THEN [list[i] EXCEPT !.at = MovedTo(@, m, n), !.home = MovedTo(@, m, n)]
        ELSE list[i]]

OldValues == 3 + Len(calls)
ClearMap(m) ==
    /\ trees' = [x \in DOMAIN trees \cup {OldValues} |->
                    IF x = m THEN NoRows ELSE IF x = OldValues THEN trees[m] ELSE trees[x]]
    /\ calls' = Append(Redirected(calls, m, OldValues),
                       [kind |-> "clear", map |-> m, old |-> OldValues])

SwapMaps(m) ==
    /\ trees' = [trees EXCEPT ![m] = trees[Other(m)], ![Other(m)] = trees[m]]
    /\ calls' = Append(Redirected(calls, m, Other(m)), [kind |-> "swap", map |-> m, old |-> Other(m)])

CallMap ==
    /\ Working
    /\ \E m \in Names :
        \/ \E k \in Keys : InsertRow(m, k) \/ UpdateRow(m, k) \/ EraseRow(m, k)
        \/ ClearMap(m) \/ SwapMaps(m)
    /\ UNCHANGED <<vars, view, stage, lock_id, record, broken>>

-----------------------------------------------------------------------------
\* The end of the transaction

\* The header of a record names the map that the operation believes to be in:
\* that of old_values has no name.  A swap has the code of a clear.
HeaderName(o) == IF IsOnRow(o) THEN o.at ELSE o.map
LoggedClear(o) == [kind |-> "clear", map |-> HeaderName(o), body |-> FALSE]
LoggedSwap(o) == [kind |-> "clear", map |-> HeaderName(o), body |-> TRUE]
LoggedRow_OldInsert(o) ==
    [kind |-> LoggedKind(o), map |-> HeaderName(o), key |-> o.key, val |-> o.val]
LoggedRow(o) ==
    [kind |-> LoggedKind(o), map |-> HeaderName(o), key |-> o.key,
     val |-> IF o.kind = "insert" THEN trees[o.home][o.key].val ELSE o.val]
AddedToLog(o) ==
    CASE o.kind = "clear" -> LoggedClear(o)
      [] o.kind = "swap"  -> LoggedSwap(o)
      [] IsOnRow(o)       -> LoggedRow(o)

WriteExclusive ==
    /\ stage = "active" /\ calls # <<>>
    /\ record' = [i \in DOMAIN calls |-> AddedToLog(calls[i])]
    /\ stage' = "logged"
    /\ next_lsn' = next_lsn + 1
    /\ UNCHANGED <<map, locks, next_txn_id, log, txns, asked, retouched, corrupt, view,
                   lock_id, trees, calls, broken>>

\* The maps and the list while the operations of the list are worked off.
AllMaps == [trees |-> trees, calls |-> calls, bad |-> FALSE]
Astray(s) == [s EXCEPT !.bad = TRUE]
RowErased(s, o) ==
    IF o.at = o.home THEN [s EXCEPT !.trees[o.home][o.key] = NoRow] ELSE Astray(s)
RowUnlocked(s, o, v, n, op) ==
    [s EXCEPT !.trees[o.home][o.key] = [val |-> v, op |-> op, id |-> n]]

\* Each operation looks at its row for its mark, and goes astray where an earlier one has
\* erased the row.
CommitRow(s, o, row) ==
    CASE o.kind = "insert" -> RowUnlocked(s, o, row.val, next_lsn - 1, "none")
      [] o.kind = "update" -> RowUnlocked(s, o, o.val, next_lsn - 1, "none")
      [] o.kind \in {"delete", "deleted_insert"} -> RowErased(s, o)
CommitCall(s, o) ==
    IF ~IsOnRow(o) \/ s.bad THEN s
    ELSE LET row == s.trees[o.home][o.key]
         IN IF ~Present(row) THEN Astray(s) ELSE IF row.op = o.kind THEN CommitRow(s, o, row) ELSE s

\* What clear() and swap() exchanged goes back.  The list is redirected by the
\* maps' names: after a clear() none matches that of old_values, and after a swap
\* what is first moved from m to the other is at once moved back again.
Exchanged(s, m, n) == [s EXCEPT !.trees[m] = s.trees[n], !.trees[n] = s.trees[m]]
Rehomed(s, i, m, n) ==
    [s EXCEPT !.calls = [j \in DOMAIN @ |->
        IF IsOnRow(@[j]) /\ j < i THEN [@[j] EXCEPT !.home = MovedTo(s.calls[j].home, m, n)]
        ELSE @[j]]]
SwappedBack(s, i, m, n) ==
    [s EXCEPT !.calls = [j \in DOMAIN @ |->
        IF IsOnRow(@[j]) /\ j < i /\ @[j].at = n THEN [@[j] EXCEPT !.at = m] ELSE @[j]]]

RollbackClear_Forgets(s, i) == s
RollbackClear(s, i) ==
    LET o == s.calls[i] IN Rehomed(Exchanged(s, o.map, o.old), i, o.map, o.old)
RollbackSwap(s, i) ==
    LET o == s.calls[i]
    IN SwappedBack(Rehomed(Exchanged(s, o.map, o.old), i, o.map, o.old), i, o.map, o.old)
RollbackRow(s, o) ==
    IF o.kind = "insert" THEN RowErased(s, o)
    ELSE RowUnlocked(s, o, s.trees[o.home][o.key].val, o.id, o.op)
RollbackCall(s, i) ==
    IF s.bad THEN s
    ELSE CASE s.calls[i].kind = "clear" -> RollbackClear(s, i)
           [] s.calls[i].kind = "swap"  -> RollbackSwap(s, i)
           [] IsOnRow(s.calls[i])       -> RollbackRow(s, s.calls[i])

\* The operations are committed in their order, and rolled back in reverse.
CommittedMaps ==
    LET after[i \in 0 .. Len(calls)] ==
            IF i = 0 THEN AllMaps ELSE CommitCall(after[i - 1], calls[i])
    IN after[Len(calls)]
RolledBackMaps ==
    LET n == Len(calls)
        after[i \in 0 .. n] == IF i = 0 THEN AllMaps ELSE RollbackCall(after[i - 1], n + 1 - i)
    IN after[n]

\* The list goes, and with it every old_values.
EndExclusive(s, how) ==
    /\ trees' = [m \in Names |-> s.trees[m]]
    /\ broken' = s.bad
    /\ stage' = how
    /\ UNCHANGED <<vars, view, lock_id, calls, record>>
CommitExclusive ==
    /\ stage = "logged"
    /\ EndExclusive(CommittedMaps, "committed")
RollbackExclusive ==
    /\ stage = "active"
    /\ EndExclusive(RolledBackMaps, "rolled back")

-----------------------------------------------------------------------------
\* What recovery makes of the record: an operation on a map that it does not know
\* leaves its value unread in the record, and so does a swap taken for a clear.
\* What follows in the record then cannot be read.
LeavesUnread(c) == c.map \notin Names \/ (c.kind = "clear" /\ c.body)
Unreadable(i) == \E j \in 1 .. i - 1 : LeavesUnread(record[j])
RedoClear(s, m) == [s EXCEPT ![m] = [k \in Keys |-> NotThere]]
RedoCall(s, c) ==
    IF c.map \notin Names THEN s
    ELSE IF c.kind = "clear" THEN RedoClear(s, c.map)
    ELSE [s EXCEPT ![c.map][c.key] = RedoOne(c.key, [lsn |-> next_lsn - 1], @, c)]
FirstFoundIn(m, k) == [val |-> FirstTrees[m][k].val, lsn |-> FirstTrees[m][k].id]
RecoveredMaps ==
    LET redone[i \in 0 .. Len(record)] ==
            IF i = 0 THEN [m \in Names |-> [k \in Keys |-> FirstFoundIn(m, k)]]
            ELSE IF Unreadable(i) THEN redone[i - 1] ELSE RedoCall(redone[i - 1], record[i])
    IN redone[Len(record)]

ExclusiveEnded ==
    /\ broken \/ stage \in {"committed", "rolled back"}
    /\ UNCHANGED <<vars, view, exclusive>>

ExclusiveNext ==
    \/ stage = "idle" /\ WalkNext /\ UNCHANGED exclusive
    \/ BeginExclusive \/ CallMap \/ WriteExclusive \/ CommitExclusive \/ RollbackExclusive
    \/ ExclusiveEnded

ExclusiveSpec == ExclusiveInit /\ [][ExclusiveNext]_<<vars, view, exclusive>>

-----------------------------------------------------------------------------
\* Properties

Calls(S) == {i \in DOMAIN calls : calls[i].kind \in S}
RowCalls == {i \in DOMAIN calls : IsOnRow(calls[i])}

\* Until it ends, each operation in the list of a transaction still leads to its
\* row, in the map through which it would erase it, whatever maps were cleared
\* and swapped since: the assumption that the comment in clear() calls important.
OperationsFollowTheirRows ==
    stage \in {"active", "logged"} =>
        \A i \in RowCalls :
            /\ calls[i].at = calls[i].home
            /\ Present(trees[calls[i].home][calls[i].key])
            /\ trees[calls[i].home][calls[i].key].op # "none"

\* Rollback brings both maps back, row by row and mark by mark.  The known
\* departure is a row inserted before a clear() or a swap() of the same
\* transaction, which rollback then erases through the wrong map.
MapsAreRestored ==
    stage = "rolled back" =>
        IF broken THEN \E i \in Calls({"insert"}), j \in Calls({"clear", "swap"}) : i < j
        ELSE trees = FirstTrees

\* ... for which it finds its rows where they are.
RollbackRestoresMaps == OperationsFollowTheirRows /\ MapsAreRestored

\* Commit comes to its end, and recovery to the same maps.  Known departures: any
\* swap(), which is logged under the code of a clear(); a row changed before a clear()
\* of its map, whose operation is logged with no map's name; a row that the
\* transaction updates twice; and a row that it erases twice, with an insert between,
\* without which no commit goes astray.
DoneTwice(op, m, k) ==
    \E i, j \in Calls({op}) : i # j /\ \A n \in {i, j} : calls[n].key = k /\ calls[n].home = m
UpdatedTwice(m, k) == DoneTwice("update", m, k)
ErasedTwice(m, k) == DoneTwice("delete", m, k)
RecoveredMapsAreCommitted ==
    /\ stage = "committed"
    /\ Calls({"swap"}) = {}
    /\ \A i \in RowCalls : calls[i].at \in Names
    => IF broken THEN \E m \in Names, k \in Keys : ErasedTwice(m, k)
       ELSE \A m \in Names, k \in Keys :
            UpdatedTwice(m, k) \/ RecoveredMaps[m][k] = [val |-> trees[m][k].val, lsn |-> trees[m][k].id]

=============================================================================

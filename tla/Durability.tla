----------------------------- MODULE Durability -----------------------------
(***************************************************************************)
(* What survives of a database of STLdb: committing transactions, the      *)
(* online checkpoint (Database::checkpoint, trans_map::save_checkpoint,    *)
(* checkpoint_ofstream), the archiving of log files, crashes of the        *)
(* processes, and recovery from the checkpoints and the log                *)
(* (Database::load_containers, recovery_manager, log_reader).              *)
(*                                                                         *)
(* The commit pipeline that CommitLog models in detail is here one step    *)
(* that opens the log file and one that writes the record; CommitLog shows *)
(* that records get to the files in the order of their LSNs, each file     *)
(* starting right behind the LSN that names it.  The rows of a container   *)
(* are locked by one transaction at a time, from its first operation until *)
(* phase 3 of its commit.  The checkpoint copies and places one row at a   *)
(* time where the code takes up to ten: two keys stand for rows of two     *)
(* such segments.                                                          *)
(*                                                                         *)
(* Beside a few operators X stands X_Name, the same with a plausible slip  *)
(* of the code.  Nothing uses those: put in the place of X each one breaks *)
(* the property that is there to catch it, as PROJECT.json records.        *)
(***************************************************************************)
EXTENDS Integers, Sequences, FiniteSetsExt, Functions, SequencesExt

CONSTANTS
    Txns,          \* the transactions
    Containers,    \* the containers of the database
    Keys,          \* the rows' keys, numbers in the order of the containers' scans
    Holder,        \* the container that each key belongs to
    Changes,       \* of each transaction, the keys it changes: "put" or "erase"
    LogMaxLen,     \* log_max_len, in records: they take one unit here, in CommitLog any
    Locations,     \* the places of a checkpoint file that hold one row each
    MaxCrashes,    \* bound: crashes
    Fates,         \* what a crash may make of the record being written
    NoTxn, NoContainer

ASSUME KeysAssumption == Keys \subseteq Nat /\ Holder \in [Keys -> Containers]
ASSUME ContainersAssumption == Containers # {}
ASSUME ChangesAssumption ==
    \A t \in Txns : /\ DOMAIN Changes[t] \subseteq Keys
                    /\ \A k \in DOMAIN Changes[t] : Changes[t][k] \in {"put", "erase"}
ASSUME SizesAssumption ==
    LogMaxLen \in Nat \ {0} /\ Locations \subseteq Nat \ {0} /\ MaxCrashes \in Nat
ASSUME FatesAssumption == Fates \subseteq {"empty", "absent", "torn", "whole"}
ASSUME NobodyAssumption == NoTxn \notin Txns /\ NoContainer \notin Containers

VARIABLES
    phase,         \* the region: "open", "down" (lost) or "refused" by recovery
    \* in the region
    rows,          \* of each key: committed value, LSN, checkpoint location, lock
    freed,         \* _freed_checkpoint_space of each container
    ckpt_history,  \* ckpt_history_map: the LSN of each container's last checkpoint
    last_write, log_filename, log_len,
    writer,        \* the transaction that holds _file_mutex, its log file open
    \* each transaction
    pc, lsn,
    kind,          \* how its changes are logged: insert, update or erase
    ckpt,          \* the progress of the checkpoint
    \* on disk
    files,         \* the log files: records by name, the LSN before their first
    meta,          \* the current metafile of each container
    image,         \* the content of each container's checkpoint file
    \* bookkeeping for the properties
    order,         \* the transactions whose records got into the log, in order
    exposed,       \* the rows that one of three known flaws has got hold of
    crashes

memory == <<rows, freed, ckpt_history>>
log == <<last_write, log_filename, log_len, writer>>
txns == <<pc, lsn, kind>>
disk == <<files, meta, image>>
vars == <<phase, memory, log, txns, ckpt, disk, order, exposed, crashes>>

NoFile == -2
Misnamed == -1   \* LFFFFFFFFFFFFFFFF.log, which get_log_files() does not recognize
NoLoc == 0       \* a row that is in no checkpoint: {0,0}, like the first place at offset 0
Offset(l) == IF l = NoLoc THEN 0 ELSE l - 1
NoMeta == [start |-> -1, end |-> -1, used |-> {}]

NoRow == [val |-> NoTxn, lsn |-> 0, loc |-> NoLoc, locker |-> NoTxn]
Row(t, n, l) == [val |-> t, lsn |-> n, loc |-> l, locker |-> NoTxn]
Committed(row) == row.val # NoTxn
Present(row) == Committed(row) \/ row.locker # NoTxn

KeysOf(t) == DOMAIN Changes[t]
Idle == [at |-> "off", todo |-> {}, c |-> NoContainer, start |-> 0, end |-> 0, keys |-> {},
         key |-> 0, prev |-> NoLoc, new |-> NoLoc, used |-> {}, free |-> {}]

Init ==
    /\ phase = "open"
    /\ rows = [k \in Keys |-> NoRow]
    /\ freed = [c \in Containers |-> {}]
    /\ ckpt_history = [c \in Containers |-> 0]
    /\ last_write = 0
    /\ log_filename = NoFile
    /\ log_len = 0
    /\ writer = NoTxn
    /\ pc = [t \in Txns |-> "begin"]
    /\ lsn = [t \in Txns |-> 0]
    /\ kind = [t \in Txns |-> <<>>]
    /\ ckpt = Idle
    /\ files = <<>>
    /\ meta = [c \in Containers |-> NoMeta]
    /\ image = [c \in Containers |-> <<>>]
    /\ order = <<>>
    /\ exposed = {}
    /\ crashes = 0

Goto(t, point) == pc' = [pc EXCEPT ![t] = point]

-----------------------------------------------------------------------------
\* Transactions

\* The operations of t on the containers leave pending changes under row locks.
\* Only a row that is there can be erased.
Operate(t) ==
    /\ phase = "open"
    /\ pc[t] = "begin"
    /\ \A k \in KeysOf(t) :
          /\ rows[k].locker = NoTxn
          /\ Changes[t][k] = "erase" => Committed(rows[k])
    /\ rows' = [k \in Keys |-> IF k \in KeysOf(t) THEN [rows[k] EXCEPT !.locker = t] ELSE rows[k]]
    /\ kind' = [kind EXCEPT ![t] =
          [k \in KeysOf(t) |-> IF Changes[t][k] = "erase" THEN "erase"
                               ELSE IF Committed(rows[k]) THEN "update" ELSE "insert"]]
    /\ Goto(t, "pending")
    /\ UNCHANGED <<phase, freed, ckpt_history, log, lsn, ckpt, disk, order, exposed, crashes>>

\* An insert that is rolled back is erased, with no thought to its location.
Rollback(t) ==
    /\ phase = "open"
    /\ pc[t] = "pending"
    /\ rows' = [k \in Keys |->
          IF rows[k].locker # t THEN rows[k]
          ELSE IF kind[t][k] = "insert" THEN NoRow ELSE [rows[k] EXCEPT !.locker = NoTxn]]
    /\ Goto(t, "rolledback")
    /\ UNCHANGED <<phase, freed, ckpt_history, log, lsn, kind, ckpt, disk, order, exposed, crashes>>

Rolls == log_filename = NoFile \/ log_len >= LogMaxLen
NextFile == IF Rolls THEN last_write ELSE log_filename

\* Logger::log takes _file_mutex and opens the current log file, or creates it.
OpenLog(t) ==
    /\ phase = "open"
    /\ pc[t] = "pending"
    /\ writer = NoTxn
    /\ writer' = t
    /\ Goto(t, "logging")
    /\ log_filename' = NextFile
    /\ log_len' = IF Rolls THEN 0 ELSE log_len
    /\ files' = [n \in DOMAIN files \cup {NextFile} |->
                    IF n \in DOMAIN files THEN files[n] ELSE <<>>]
    /\ UNCHANGED <<phase, memory, last_write, lsn, kind, ckpt, meta, image, order, exposed, crashes>>

\* The record of t, complete or torn, at the current end of the current file.  What
\* a file that was there already holds further on stays there.
Record(t, torn) == [lsn |-> last_write + 1, txn |-> t, ops |-> kind[t], torn |-> torn]
Written(t, torn) ==
    LET f == files[log_filename]
        i == log_len + 1 IN
    [files EXCEPT ![log_filename] =
        IF i <= Len(f) THEN [f EXCEPT ![i] = Record(t, torn)] ELSE Append(f, Record(t, torn))]

WriteLog(t) ==
    /\ phase = "open"
    /\ writer = t
    /\ files' = Written(t, FALSE)
    /\ lsn' = [lsn EXCEPT ![t] = last_write + 1]
    /\ last_write' = last_write + 1
    /\ log_len' = log_len + 1
    /\ writer' = NoTxn
    /\ order' = Append(order, t)
    /\ Goto(t, "logged")
    /\ UNCHANGED <<phase, memory, log_filename, kind, ckpt, meta, image, exposed, crashes>>

\* What a change of the given kind makes of a row.
Applied(row, op, t, n) == IF op = "erase" THEN NoRow ELSE Row(t, n, row.loc)

\* The locations that become free when t's erases are made permanent.
FreedBy(t, c) ==
    {rows[k].loc : k \in {j \in KeysOf(t) : kind[t][j] = "erase" /\ Holder[j] = c}} \ {NoLoc}

\* Phase 3 of Transaction::commit, under the exclusive locks of all containers.
Apply(t) ==
    /\ phase = "open"
    /\ pc[t] = "logged"
    /\ rows' = [k \in Keys |-> IF k \in KeysOf(t)
                               THEN Applied(rows[k], kind[t][k], t, lsn[t]) ELSE rows[k]]
    /\ freed' = [c \in Containers |-> freed[c] \cup FreedBy(t, c)]
    /\ Goto(t, "committed")
    /\ UNCHANGED <<phase, ckpt_history, log, lsn, kind, ckpt, disk, order, exposed, crashes>>

-----------------------------------------------------------------------------
\* Database::checkpoint

\* Under _file_mutex the log advances to a new file.
CkptStart ==
    /\ phase = "open"
    /\ ckpt.at = "off"
    /\ writer = NoTxn
    /\ log_filename' = last_write
    /\ log_len' = 0
    /\ ckpt' = [Idle EXCEPT !.at = "next", !.todo = Containers]
    /\ UNCHANGED <<phase, memory, last_write, writer, txns, disk, order, exposed, crashes>>

Continue(todo) == [Idle EXCEPT !.at = IF todo = {} THEN "off" ELSE "next", !.todo = todo]

\* The next container, unless nothing at all was logged since its last checkpoint.
\* The current metafile says which locations are taken.
CkptContainer(c) ==
    /\ phase = "open"
    /\ ckpt.at = "next"
    /\ c \in ckpt.todo
    /\ ckpt' = IF last_write > ckpt_history[c]
               THEN [ckpt EXCEPT !.at = "scan", !.c = c, !.start = last_write,
                                 !.keys = {k \in Keys : Holder[k] = c}, !.used = meta[c].used]
               ELSE Continue(ckpt.todo \ {c})
    /\ UNCHANGED <<phase, memory, log, txns, disk, order, exposed, crashes>>

\* A row is written when it changed since the last checkpoint, or has a pending
\* change that may turn out to be older than this checkpoint.
IsDue(row, c) == Committed(row) /\ (row.lsn > ckpt_history[c] \/ row.locker # NoTxn)

\* The pending change is in the log and older than the checkpoint, and yet it is not
\* the one that gets written: neither the image nor the log behind it has it.
Missed(row) ==
    row.locker # NoTxn /\ pc[row.locker] = "logged" /\ lsn[row.locker] <= ckpt.start

\* checkpoint_fstream_base::allocate: any place that is not taken.
FreePlace_CountsFreed(used) == CHOOSE l \in Locations : l \notin used \ ckpt.free
FreePlace(used) == CHOOSE l \in Locations : l \notin used

\* A pending change hides the LSN of the committed value: it is put at the earliest
\* that makes redo apply what follows.
ImageOf(k) ==
    [key |-> k, val |-> rows[k].val,
     lsn |-> IF rows[k].locker = NoTxn THEN rows[k].lsn ELSE ckpt_history[Holder[k]] + 1]

\* A checkpoint file with an image written to one of its places.
Overlaid(file, place, img) ==
    [l \in DOMAIN file \cup {place} |-> IF l = place THEN img ELSE file[l]]

\* A copy of the next row, taken under the container's lock, is written to a free
\* location.  The row is then unlocked.
CkptCopy ==
    LET c == ckpt.c
        k == Min(ckpt.keys)
        new == FreePlace(ckpt.used) IN
    /\ phase = "open"
    /\ ckpt.at = "scan"
    /\ ckpt.keys # {}
    /\ ckpt.used # Locations
    /\ exposed' = IF Missed(rows[k]) THEN exposed \cup {k} ELSE exposed
    /\ IF IsDue(rows[k], c)
         THEN /\ image' = [image EXCEPT ![c] = Overlaid(@, new, ImageOf(k))]
              /\ ckpt' = [ckpt EXCEPT !.at = "copied", !.keys = @ \ {k}, !.key = k,
                             !.prev = rows[k].loc, !.new = new, !.used = @ \cup {new}]
         ELSE /\ ckpt' = [ckpt EXCEPT !.keys = @ \ {k}]
              /\ UNCHANGED image
    /\ UNCHANGED <<phase, memory, log, txns, files, meta, order, crashes>>

\* What becomes free once the copied row is placed, or cannot be.
Superseded_Swapped(same) == IF same THEN ckpt.new ELSE ckpt.prev
Superseded(same) == IF same THEN ckpt.prev ELSE ckpt.new

\* The row, if it is still the one that was copied, as far as the offset tells, gets its
\* new location, and the old one becomes free: else the new one does.
CkptPlace ==
    LET row == rows[ckpt.key]
        same == Present(row) /\ Offset(row.loc) = Offset(ckpt.prev) IN
    /\ phase = "open"
    /\ ckpt.at = "copied"
    /\ rows' = IF same THEN [rows EXCEPT ![ckpt.key].loc = ckpt.new] ELSE rows
    /\ ckpt' = [ckpt EXCEPT !.at = "scan",
                            !.free = @ \cup ({Superseded(same)} \ {NoLoc})]
    /\ exposed' = IF same /\ ~Committed(row) THEN exposed \cup {ckpt.key} ELSE exposed
    /\ UNCHANGED <<phase, freed, ckpt_history, log, txns, disk, order, crashes>>

\* The end of save_checkpoint(): the space freed by erases is taken over.
TakenOver(c) == freed[c]
CkptTakeFreed ==
    LET c == ckpt.c IN
    /\ phase = "open"
    /\ ckpt.at = "scan"
    /\ ckpt.keys = {}
    /\ freed' = [freed EXCEPT ![c] = {}]
    /\ ckpt' = [ckpt EXCEPT !.at = "saved", !.free = @ \cup TakenOver(c)]
    /\ UNCHANGED <<phase, rows, ckpt_history, log, txns, disk, order, exposed, crashes>>

\* The checkpoint is noted as done before it is committed.
CkptNote ==
    /\ phase = "open"
    /\ ckpt.at = "saved"
    /\ ckpt_history' = [ckpt_history EXCEPT ![ckpt.c] = ckpt.start]
    /\ ckpt' = [ckpt EXCEPT !.at = "noted", !.end = last_write]
    /\ UNCHANGED <<phase, rows, freed, log, txns, disk, order, exposed, crashes>>

\* checkpoint_ofstream::commit: the new metafile replaces the old one.
CkptCommit ==
    /\ phase = "open"
    /\ ckpt.at = "noted"
    /\ meta' = [meta EXCEPT ![ckpt.c] =
          [start |-> ckpt.start, end |-> ckpt.end, used |-> ckpt.used \ ckpt.free]]
    /\ ckpt' = Continue(ckpt.todo \ {ckpt.c})
    /\ UNCHANGED <<phase, memory, log, txns, files, image, order, exposed, crashes>>

-----------------------------------------------------------------------------
\* Crash and recovery

\* All processes die.  A record that is being written may be found not at all, torn
\* or whole afterwards.
Crash ==
    /\ phase = "open"
    /\ crashes < MaxCrashes
    /\ crashes' = crashes + 1
    /\ phase' = "down"
    /\ rows' = [k \in Keys |-> NoRow]
    /\ freed' = [c \in Containers |-> {}]
    /\ ckpt_history' = [c \in Containers |-> 0]
    /\ ckpt' = Idle
    /\ writer' = NoTxn
    /\ log_filename' = NoFile
    /\ log_len' = 0
    /\ \/ /\ writer = NoTxn
          /\ UNCHANGED <<files, order>>
       \/ /\ writer # NoTxn
          /\ files[log_filename] = <<>> /\ "empty" \in Fates
          /\ UNCHANGED <<files, order>>
       \/ /\ writer # NoTxn
          /\ files[log_filename] # <<>> /\ "absent" \in Fates
          /\ UNCHANGED <<files, order>>
       \/ /\ writer # NoTxn
          /\ "torn" \in Fates
          /\ files' = Written(writer, TRUE)
          /\ UNCHANGED order
       \/ /\ writer # NoTxn
          /\ "whole" \in Fates
          /\ files' = Written(writer, FALSE)
          /\ order' = Append(order, writer)
    /\ pc' = [t \in Txns |-> IF pc[t] \in {"pending", "logging", "logged"} THEN "dead" ELSE pc[t]]
    /\ UNCHANGED <<last_write, lsn, kind, meta, image, exposed>>

\* get_log_files(): those whose names can be parsed.
LogNames == DOMAIN files \ {Misnamed}

\* The names of the log files that are read when recovery starts at a given LSN:
\* from the one that is named so, or else the last one named below.
Below(start) == {n \in LogNames : n < start}
FirstFile(start) ==
    IF start \in LogNames \/ Below(start) = {} THEN start ELSE Max(Below(start))
FilesFrom_Behind(start) == {n \in LogNames : n > FirstFile(start)}
FilesFrom(start) == LET first == FirstFile(start) IN {n \in LogNames : n >= first}

\* Database::load_containers: where redo has to start, and how far it has to get.
StartOf(c) == IF meta[c] = NoMeta THEN 0 ELSE meta[c].start
RedoStart_Latest == Max({StartOf(c) : c \in Containers})
RedoStart == Min({StartOf(c) : c \in Containers})
RedoEnd == Max({meta[c].end : c \in Containers})

\* The records of a file up to the first that is torn.
Whole(f) == SelectInSeq(f, LAMBDA r : r.torn)
WholePart(f) == IF Whole(f) = 0 THEN f ELSE SubSeq(f, 1, Whole(f) - 1)

\* In the first file seek_transaction() skips the records before the start.
From(f, start) ==
    LET i == SelectInSeq(f, LAMBDA r : r.lsn >= start) IN
    IF i = 0 THEN <<>> ELSE SubSeq(f, i, Len(f))
ToRedo(n) ==
    LET f == WholePart(files[n]) IN
    IF n = FirstFile(RedoStart) THEN From(f, RedoStart) ELSE f

\* The files that are read: none behind one with a torn record.
FilesRead ==
    LET names == FilesFrom(RedoStart) IN
    {n \in names : \A m \in names : m < n => Whole(files[m]) = 0}

\* The last LSN that recovery got to: 0 when there are no files, -1 when there is no
\* record in them, or a torn one ends the search for the first.
Reached ==
    LET full == {n \in FilesRead : WholePart(files[n]) # <<>>}
        first == FirstFile(RedoStart)
        lostInSeek == Whole(files[first]) # 0 /\ ToRedo(first) = <<>> IN
    IF LogNames = {} THEN 0
    ELSE IF lostInSeek \/ full = {} THEN -1
    ELSE Last(WholePart(files[Max(full)])).lsn

\* A row as the given locations of the checkpoint file have it.
LoadedFrom(k, used) ==
    LET file == image[Holder[k]]
        locs == {l \in used : file[l].key = k} IN
    IF locs = {} THEN NoRow ELSE Row(file[Min(locs)].val, file[Min(locs)].lsn, Min(locs))
Loaded(k) == LoadedFrom(k, meta[Holder[k]].used)

\* recover() of one operation: an insert is ignored when the row is there.
Redone(row, r, k) ==
    CASE r.ops[k] = "erase" -> NoRow
      [] r.ops[k] = "insert" -> IF Committed(row) THEN row ELSE Row(r.txn, r.lsn, NoLoc)
      [] r.ops[k] = "update" -> Row(r.txn, r.lsn, row.loc)

Redo(db, r) ==
    [rows |-> [k \in Keys |->
        IF k \in DOMAIN r.ops THEN Redone(db.rows[k], r, k) ELSE db.rows[k]],
     freed |-> [c \in Containers |-> db.freed[c] \cup
        ({db.rows[k].loc : k \in {j \in DOMAIN r.ops : r.ops[j] = "erase" /\ Holder[j] = c}}
            \ {NoLoc})]]

RedoAll(db, records) ==
    LET after[i \in 0 .. Len(records)] ==
            IF i = 0 THEN db ELSE Redo(after[i - 1], records[i])
    IN after[Len(records)]

\* The checkpoints, and then the files in the order of their names.
Checkpoints ==
    [rows |-> [k \in Keys |-> Loaded(k)], freed |-> [c \in Containers |-> {}]]
Recovered ==
    LET last == IF FilesRead = {} THEN 0 ELSE Max(FilesRead)
        after[n \in 0 .. last] ==
            LET before == IF n = 0 THEN Checkpoints ELSE after[n - 1] IN
            IF n \in FilesRead THEN RedoAll(before, ToRedo(n)) ELSE before
    IN after[last]

\* Log files that are needed are gone, or the log ends before what the checkpoints
\* may have seen.
LogsAreMissing == LogNames # {} /\ Min(LogNames) > RedoStart
Refuses == LogsAreMissing \/ Reached < RedoEnd

\* A recovered row that is in no checkpoint, with an LSN that keeps it out of all.
Unplaced(row, c) == Committed(row) /\ row.loc = NoLoc /\ row.lsn <= StartOf(c)

\* The next process that opens the database builds the region anew.
Recover ==
    LET db == Recovered IN
    /\ phase = "down"
    /\ IF Refuses
         THEN /\ phase' = "refused"
              /\ UNCHANGED <<memory, last_write, exposed>>
         ELSE /\ phase' = "open"
              /\ rows' = db.rows
              /\ freed' = db.freed
              /\ ckpt_history' = [c \in Containers |-> StartOf(c)]
              /\ last_write' = Reached
              /\ exposed' = exposed \cup {k \in Keys : Unplaced(db.rows[k], Holder[k])}
    /\ UNCHANGED <<log_filename, log_len, writer, txns, ckpt, disk, order, crashes>>

\* get_archivable_logs(): the files before the first that current checkpoints need.
Checked == {c \in Containers : meta[c] # NoMeta}
NeededFrom == Min({meta[c].start : c \in Checked})
Archivable == {n \in LogNames : n < FirstFile(NeededFrom)}

\* The operator moves them away.
Archive ==
    /\ phase = "open"
    /\ Checked # {}
    /\ Archivable # {}
    /\ files' = [n \in DOMAIN files \ Archivable |-> files[n]]
    /\ UNCHANGED <<phase, memory, log, txns, ckpt, meta, image, order, exposed, crashes>>
-----------------------------------------------------------------------------
Transact(t) ==
    Operate(t) \/ Rollback(t) \/ OpenLog(t) \/ WriteLog(t) \/ Apply(t)

Checkpoint ==
    \/ CkptStart \/ CkptCopy \/ CkptPlace \/ CkptTakeFreed \/ CkptNote \/ CkptCommit
    \/ \E c \in Containers : CkptContainer(c)

Next ==
    \/ \E t \in Txns : Transact(t)
    \/ Checkpoint
    \/ Archive
    \/ Crash
    \/ Recover

Spec == Init /\ [][Next]_vars
-----------------------------------------------------------------------------
\* Properties

Lsns == Nat \cup {-1}
Kinds == {"insert", "update", "erase"}
Stages == {"begin", "pending", "logging", "logged", "committed", "rolledback", "dead"}

\* Types, and that the writer is at its record.
TypeOK ==
    /\ phase \in {"open", "down", "refused"}
    /\ rows \in [Keys -> [val : Txns \cup {NoTxn}, lsn : Lsns,
                         loc : Locations \cup {NoLoc}, locker : Txns \cup {NoTxn}]]
    /\ freed \in [Containers -> SUBSET Locations]
    /\ ckpt_history \in [Containers -> Nat]
    /\ last_write \in Lsns
    /\ log_filename \in Lsns \cup {NoFile}
    /\ log_len \in Nat
    /\ writer \in Txns \cup {NoTxn}
    /\ writer # NoTxn => pc[writer] = "logging"
    /\ pc \in [Txns -> Stages]
    /\ lsn \in [Txns -> Nat]
    /\ \A t \in Txns : \A k \in DOMAIN kind[t] : kind[t][k] \in Kinds
    /\ DOMAIN files \subseteq Lsns
    /\ \A c \in Containers : meta[c].used \subseteq Locations /\ meta[c].start <= meta[c].end
    /\ exposed \subseteq Keys
    /\ crashes \in 0..MaxCrashes

\* What the first n transactions whose records got into the log make of the row of k.
ValueAfter(k, n) ==
    LET writers == {i \in 1 .. n : k \in KeysOf(order[i])}
        last == order[Max(writers)] IN
    IF writers = {} THEN NoTxn
    ELSE IF Changes[last][k] = "erase" THEN NoTxn ELSE last
Expected(k) == ValueAfter(k, Len(order))

\* No transaction is between its log record and phase 3 of its commit.
Settled(k) == \A t \in Txns : pc[t] = "logged" => k \notin KeysOf(t)

\* The rows have what the last transaction in the log made of them, also after crashes
\* and recoveries: neither the checkpoint nor recovery loses a committed change.  Not
\* so of the rows that a known flaw of the checkpoint or of recovery has got hold of:
\* save_checkpoint() passed them while a change was in the log and not in the row, or
\* gave a pending insert the location of the row erased before it, or redo inserted them
\* anew with an LSN that keeps them out of all checkpoints.
NothingLostUnlessExposed ==
    phase = "open" => \A k \in Keys \ exposed : Settled(k) => rows[k].val = Expected(k)

\* Recovery refuses the database only when a container had no checkpoint yet, so that
\* logs it needs could be archived, or when a crash left a log file without a whole
\* record, which recovery takes for LSN -1.
RefusedOnlyUnchecked ==
    phase = "refused" =>
        \/ \E c \in Containers : meta[c] = NoMeta
        \/ \E n \in DOMAIN files : WholePart(files[n]) = <<>>

\* The location of a row is its own, and what the checkpoint file has there is that row:
\* space is not given out twice and not freed while a row is in it.
LocationsHeld ==
    \A k \in Keys : Committed(rows[k]) /\ rows[k].loc # NoLoc =>
        /\ image[Holder[k]][rows[k].loc].key = k
        /\ \A j \in Keys \ {k} : Holder[j] = Holder[k] => rows[j].loc # rows[k].loc

\* No record in the log is torn, and no file has the name that is not recognized: a
\* crash that left either behind hides what is logged after it from the next recovery.
LogIsClean ==
    Misnamed \notin DOMAIN files /\ \A n \in DOMAIN files : Whole(files[n]) = 0

\* A transaction that got through its commit is found by the recovery that would follow,
\* unless the checkpoints make it start later: neither archiving nor the choice of the
\* files to read leaves out one that is still needed.  Not so before every container has
\* a checkpoint, nor behind a torn record, which recovery leaves where it is and stops at
\* again the next time.
LoggedIsRecoverable ==
    phase = "open" /\ LogIsClean /\ Checked = Containers =>
        LET start == RedoStart
            redo == UNION {Range(ToRedo(n)) : n \in FilesRead} IN
        \A t \in Txns : pc[t] \in {"logged", "committed"} /\ lsn[t] > start =>
            \E r \in redo : r.txn = t

\* No step overwrites a location that the current metafile counts as taken: a checkpoint
\* that a crash cuts short leaves the one before it intact.
CurrentCheckpointIntact ==
    [][\A c \in Containers : \A l \in meta[c].used : image'[c][l] = image[c][l]]_vars

\* A record is written to a file that is there: archiving does not take it away.
WriterHasItsFile == writer # NoTxn => log_filename \in DOMAIN files

\* What the log is good for: recovery finds in it what it needs, and refuses only when it
\* cannot.
LogServesRecovery == LoggedIsRecoverable /\ RefusedOnlyUnchecked /\ WriterHasItsFile

\* What a checkpoint file is good for: each location has one use, and holds its row.
CheckpointsHoldTheirRows == TypeOK /\ LocationsHeld

=============================================================================

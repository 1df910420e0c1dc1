------------------------------ MODULE CommitLog ------------------------------
(***************************************************************************)
(* The commit pipeline of STLdb: Database::commit, Transaction::commit and *)
(* the Logger (stldb/logger.h), run by several transactions at a time in   *)
(* several processes that share one region.  Each transaction is run by a  *)
(* thread of its own in the process Home[t].                               *)
(*                                                                         *)
(* A record in a log file is its place, its length and its owner.  The     *)
(* padding record that rounds a write up to the alignment counts as the    *)
(* tail of the last record of that write: the reader skips it.  The        *)
(* statistics are left out: nothing reads them.                            *)
(*                                                                         *)
(* Beside a few operators X stands X_Name, the same with a plausible slip  *)
(* of the code.  Nothing uses those: put in the place of X each one breaks *)
(* the property that is there to catch it, as PROJECT.json records.        *)
(***************************************************************************)
EXTENDS Integers, Sequences, FiniteSetsExt

CONSTANTS
    Txns,             \* the transactions
    Procs,            \* the processes attached to the region
    Home,             \* the process that runs each transaction
    MaxTxnPerWrite,   \* Logger::max_txn_per_write (7 in the code)
    LogMaxLens,       \* the log_max_len to configure
    Size,             \* the length of each transaction's record, header included
    Header,           \* sizeof(log_header)
    Alignment,        \* Logger::optimum_write_alignment (512 in the code)
    LogSyncs,         \* the log_sync to configure: synchronous logging or not
    LockOnly,         \* those whose changes may turn out to be locks alone
    MaxOpenFaults,    \* bound: failures to open a log file
    MaxWriteFaults,   \* bound: failed log writes
    NoTxn             \* the owner of an unlocked mutex

ASSUME HomeAssumption == Home \in [Txns -> Procs] /\ LockOnly \subseteq Txns
ASSUME SizeAssumption ==
    /\ MaxTxnPerWrite \in Nat \ {0}
    /\ LogMaxLens \subseteq Nat \ {0}
    /\ Size \in [Txns -> Nat \ {0}]
    /\ Header \in Nat \ {0} /\ Alignment \in Nat \ {0}
    /\ LogSyncs \subseteq BOOLEAN
ASSUME FaultAssumption == MaxOpenFaults \in Nat /\ MaxWriteFaults \in Nat
ASSUME NoTxnAssumption == NoTxn \notin Txns

VARIABLES
    \* SharedLogInfo and DatabaseInfo, in the shared region
    next_lsn, last_write, last_sync,
    waiting_txns,     \* queue of buffers waiting for the disk write
    log_filename,     \* the LSN that names the current file, or NoFile
    log_len,
    log_max_len, log_sync,  \* configured when the region is created
    file_mutex,       \* the transaction that holds _file_mutex, or NoTxn
    buffers,          \* the commit buffers constructed so far
    buffer_queue,     \* _buffer_queue: the buffers free for reuse
    \* the Logger object of each process
    my_log_filename, my_fp_offset,
    logfd,            \* the file that _logfd is open on, or NoFile
    fp,               \* where the OS would put the next write() of _logfd
    \* each transaction
    pc, lsn, buffer, batch,
    \* the log files: records in the OS cache, and those that fsync pushed out
    disk, durable,
    open_faults, write_faults

config == <<log_max_len, log_sync>>
shared == <<next_lsn, last_write, last_sync, log_filename, log_len>>
handles == <<my_log_filename, my_fp_offset, logfd, fp>>
pool == <<buffers, buffer_queue, buffer>>
files == <<disk, durable>>
faults == <<open_faults, write_faults>>
vars == <<config, shared, waiting_txns, file_mutex, pool, handles, pc, lsn, batch, files,
          faults>>

NoFile == -1
NoBuffer == 0

\* The points of Database::commit at which a thread can be between two steps.
Points == {"begin", "filled", "queued", "loop", "gather", "write", "logged",
           "committed", "failed", "rolledback", "diskless"}
\* ... those at which it is inside log() and holds _file_mutex.
InLog == {"loop", "gather", "write"}
\* ... those past log(): the transaction has been told that it is in the log.
Returned == {"logged", "committed"}

Goto(t, point) == pc' = [pc EXCEPT ![t] = point]

Init ==
    /\ log_max_len \in LogMaxLens
    /\ log_sync \in LogSyncs
    /\ next_lsn = 1
    /\ last_write = 0
    /\ last_sync = 0
    /\ waiting_txns = <<>>
    /\ log_filename = NoFile
    /\ log_len = 0
    /\ file_mutex = NoTxn
    /\ buffers = <<>>
    /\ buffer_queue = <<>>
    /\ my_log_filename = [p \in Procs |-> NoFile]
    /\ my_fp_offset = [p \in Procs |-> 0]
    /\ logfd = [p \in Procs |-> NoFile]
    /\ fp = [p \in Procs |-> 0]
    /\ pc = [t \in Txns |-> "begin"]
    /\ lsn = [t \in Txns |-> 0]
    /\ buffer = [t \in Txns |-> NoBuffer]
    /\ batch = [t \in Txns |-> <<>>]
    /\ disk = {}
    /\ durable = {}
    /\ open_faults = 0
    /\ write_faults = 0

-----------------------------------------------------------------------------
\* Database::commit and Transaction::commit up to the log

\* The buffers left in _buffer_queue when its first is taken.
BuffersLeft == Tail(buffer_queue)

\* Under the mutex of DatabaseInfo the buffer used last is taken back from the
\* front of the queue, or a new one is constructed; then the operations are
\* serialized into it.
TakeBuffer(t) ==
    /\ pc[t] = "begin"
    /\ \/ /\ buffer_queue # <<>>
          /\ buffer' = [buffer EXCEPT ![t] = Head(buffer_queue)]
          /\ buffer_queue' = BuffersLeft
          /\ buffers' = [buffers EXCEPT ![Head(buffer_queue)].txn = t]
       \/ /\ buffer_queue = <<>>
          /\ buffer' = [buffer EXCEPT ![t] = Len(buffers) + 1]
          /\ buffers' = Append(buffers, [txn |-> t, lsn |-> 0])
          /\ UNCHANGED buffer_queue
    /\ Goto(t, "filled")
    /\ UNCHANGED <<config, shared, waiting_txns, file_mutex, handles, lsn,
                   batch, files, faults>>

Enqueued_InFront(b) == <<b>> \o waiting_txns
Enqueued(b) == Append(waiting_txns, b)

\* Logger::queue_for_commit, under _queue_mutex: the LSN goes into the header
\* of the buffer, and the buffer to the back of the queue.
QueueForCommit(t) ==
    /\ pc[t] = "filled"
    /\ next_lsn' = next_lsn + 1
    /\ lsn' = [lsn EXCEPT ![t] = next_lsn]
    /\ buffers' = [buffers EXCEPT ![buffer[t]].lsn = next_lsn]
    /\ waiting_txns' = Enqueued(buffer[t])
    /\ Goto(t, "queued")
    /\ UNCHANGED <<config, last_write, last_sync, log_filename, log_len,
                   file_mutex, buffer, buffer_queue, handles, batch, files,
                   faults>>

\* A buffer without log content is refused: the operations were locks only.
QueueRefuses(t) ==
    /\ pc[t] = "filled"
    /\ t \in LockOnly
    /\ Goto(t, "failed")
    /\ UNCHANGED <<config, shared, waiting_txns, file_mutex, pool, handles, lsn,
                   batch, files, faults>>

-----------------------------------------------------------------------------
\* Logger::log

EnterLog(t) ==
    /\ pc[t] = "queued"
    /\ file_mutex = NoTxn
    /\ file_mutex' = t
    /\ Goto(t, "loop")
    /\ UNCHANGED <<config, shared, waiting_txns, pool, handles, lsn, batch,
                   files, faults>>

\* What log() waits for: a write, by whichever thread, that covers the LSN of t.
Covered_OneEarly(t) == lsn[t] <= last_write + 1
Covered(t) == lsn[t] <= last_write

\* ensure_open_logfile() rolls over to a new file when there is none yet or the
\* current one is full.
Rolls_NeverWhenFull == log_filename = NoFile
Rolls == log_filename = NoFile \/ log_len >= log_max_len

\* advance_logfile() only names the file; it is created when it is next opened.
NewName_Same == log_filename
NewName == last_write

NextFile == IF Rolls THEN NewName ELSE log_filename
MustOpen_IfItRolls(p) == Rolls
MustOpen(p) == Rolls \/ my_log_filename[p] # NextFile

NameNextFile ==
    /\ log_filename' = NextFile
    /\ log_len' = IF Rolls THEN 0 ELSE log_len

\* A newly opened file is grown to its full size: a zero byte is written at
\* log_max_len, whatever is there.
Grown(d, f) ==
    {IF r.file = f /\ r.pos <= log_max_len /\ log_max_len < r.pos + r.len
     THEN [r EXCEPT !.txn = NoTxn] ELSE r : r \in d}

EnsureOpen(t) ==
    LET p == Home[t] IN
    /\ pc[t] = "loop"
    /\ ~Covered(t)
    /\ NameNextFile
    /\ IF MustOpen(p)
         THEN /\ disk' = Grown(disk, NextFile)
              /\ my_log_filename' = [my_log_filename EXCEPT ![p] = NextFile]
              /\ my_fp_offset' = [my_fp_offset EXCEPT ![p] = log_max_len + 1]
              /\ logfd' = [logfd EXCEPT ![p] = NextFile]
              /\ fp' = [fp EXCEPT ![p] = log_max_len + 1]
         ELSE UNCHANGED <<handles, disk>>
    /\ Goto(t, "gather")
    /\ UNCHANGED <<config, next_lsn, last_write, last_sync, waiting_txns,
                   file_mutex, pool, lsn, batch, durable, faults>>

\* The open fails, or that one write does and leaves the new file open without a
\* note of it: log() leaves with an exception.
OpenFails(t) ==
    LET p == Home[t] IN
    /\ pc[t] = "loop"
    /\ ~Covered(t)
    /\ MustOpen(p)
    /\ open_faults < MaxOpenFaults
    /\ open_faults' = open_faults + 1
    /\ NameNextFile
    /\ \E f \in {NoFile, NextFile} : logfd' = [logfd EXCEPT ![p] = f]
    /\ file_mutex' = NoTxn
    /\ Goto(t, "failed")
    /\ UNCHANGED <<config, next_lsn, last_write, last_sync, waiting_txns, pool,
                   my_log_filename, my_fp_offset, fp, lsn, batch, files,
                   write_faults>>

\* The lengths of the records that the buffers make, and where each of them ends
\* behind the place that the first starts at.
Lengths(bs) == [i \in 1..Len(bs) |-> Size[buffers[bs[i]].txn]]
Ends(lens) ==
    LET end[i \in 0..Len(lens)] == IF i = 0 THEN 0 ELSE end[i - 1] + lens[i]
    IN end

\* Buffers are taken one after the other, as many as one write may hold, and as
\* long as what was taken before leaves the file below its maximum length.
GatherCount_NoFileLimit == Min({MaxTxnPerWrite, Len(waiting_txns)})
GatherCount ==
    Max({0} \cup {k \in 1..Min({MaxTxnPerWrite, Len(waiting_txns)}) :
                     log_len + Ends(Lengths(waiting_txns))[k - 1] < log_max_len})

\* Under _queue_mutex.
Gather(t) ==
    LET k == GatherCount IN
    /\ pc[t] = "gather"
    /\ batch' = [batch EXCEPT ![t] = SubSeq(waiting_txns, 1, k)]
    /\ waiting_txns' = SubSeq(waiting_txns, k + 1, Len(waiting_txns))
    /\ Goto(t, "write")
    /\ UNCHANGED <<config, shared, file_mutex, pool, handles, lsn, files,
                   faults>>

\* set_file_pointer is called only when this process believes it is elsewhere.
WriteOffset_NoSeek(p) == fp[p]
WriteOffset(p) == IF my_fp_offset[p] # log_len THEN log_len ELSE fp[p]

\* What brings a file of length n up to the alignment: a header and any number of
\* bytes behind it, or nothing.
Padding(n) ==
    LET short == Alignment - (n % Alignment) IN
    IF n % Alignment = 0 THEN 0 ELSE IF short < Header THEN short + Alignment ELSE short

\* How long t's batch is, with its padding.
Filled(t) == log_len + Ends(Lengths(batch[t]))[Len(batch[t])]
Bytes(t) == Filled(t) + Padding(Filled(t)) - log_len

\* The records that the first n bytes of t's batch make, at the offset that they are
\* written to: of the last of them perhaps a part, and behind it the padding.
Records(t, n) ==
    LET k == Len(batch[t])
        end == Ends(Lengths(batch[t])) IN
    {[file |-> logfd[Home[t]], pos |-> WriteOffset(Home[t]) + end[i - 1],
      len |-> (IF i = k \/ n < end[i] THEN n ELSE end[i]) - end[i - 1],
      txn |-> IF n < end[i] THEN NoTxn ELSE buffers[batch[t][i]].txn,
      lsn |-> buffers[batch[t][i]].lsn] : i \in {j \in 1..k : end[j - 1] < n}}

\* Records laid over what the file held in their place.
Overlap(q, r) == q.file = r.file /\ q.pos < r.pos + r.len /\ r.pos < q.pos + q.len
Over(d, new) == {r \in d : ~\E q \in new : Overlap(q, r)} \cup new

WriteBatch(t) ==
    LET p == Home[t]
        k == Len(batch[t]) IN
    /\ pc[t] = "write"
    /\ disk' = Over(disk, Records(t, Bytes(t)))
    /\ fp' = [fp EXCEPT ![p] = WriteOffset(p) + Bytes(t)]
    /\ my_fp_offset' = [my_fp_offset EXCEPT ![p] = log_len + Bytes(t)]
    /\ last_write' = IF k = 0 THEN last_write ELSE buffers[batch[t][k]].lsn
    /\ log_len' = log_len + Bytes(t)
    /\ batch' = [batch EXCEPT ![t] = <<>>]
    /\ Goto(t, "loop")
    /\ UNCHANGED <<config, next_lsn, last_sync, log_filename, waiting_txns,
                   file_mutex, pool, my_log_filename, logfd, lsn, durable, faults>>

\* writev() takes fewer bytes than it was given: records, the last of them perhaps
\* not as a whole.  The buffers that were gathered are in the queue no more.
WriteFails(t) ==
    LET p == Home[t] IN
    /\ pc[t] = "write"
    /\ write_faults < MaxWriteFaults
    /\ write_faults' = write_faults + 1
    /\ batch[t] # <<>>
    /\ \E n \in 0..(Bytes(t) - 1) :
          /\ fp' = [fp EXCEPT ![p] = WriteOffset(p) + n]
          /\ disk' = Over(disk, Records(t, n))
    /\ batch' = [batch EXCEPT ![t] = <<>>]
    /\ file_mutex' = NoTxn
    /\ Goto(t, "failed")
    /\ UNCHANGED <<config, shared, waiting_txns, pool, my_log_filename,
                   my_fp_offset, logfd, lsn, durable, open_faults>>

SyncLog_CreditsTheQueue(p) ==
    /\ durable' = {r \in durable : r.file # logfd[p]}
                    \cup {r \in disk : r.file = logfd[p]}
    /\ last_sync' = next_lsn - 1

\* sync_log(): fsync of the file this process has open, and no other.
SyncLog(p) ==
    /\ durable' = {r \in durable : r.file # logfd[p]}
                    \cup {r \in disk : r.file = logfd[p]}
    /\ last_sync' = last_write

\* The loop is over: the buffer of t has been written, by t or by another.
LeaveLog(t) ==
    /\ pc[t] = "loop"
    /\ Covered(t)
    /\ \/ /\ last_sync < lsn[t]
          /\ log_sync
          /\ SyncLog(Home[t])
       \/ /\ lsn[t] <= last_sync \/ ~log_sync
          /\ UNCHANGED <<last_sync, durable>>
    /\ file_mutex' = NoTxn
    /\ Goto(t, "logged")
    /\ UNCHANGED <<config, next_lsn, last_write, log_filename, log_len,
                   waiting_txns, pool, handles, lsn, batch, disk, faults>>

-----------------------------------------------------------------------------
\* After the log

\* Phase 3 of Transaction::commit: with all container locks held the changes
\* become visible (what they change is the matter of other modules).  Then the
\* buffer goes to the front of _buffer_queue.
Complete(t) ==
    /\ pc[t] = "logged"
    /\ buffer_queue' = <<buffer[t]>> \o buffer_queue
    /\ buffer' = [buffer EXCEPT ![t] = NoBuffer]
    /\ Goto(t, "committed")
    /\ UNCHANGED <<config, shared, waiting_txns, file_mutex, buffers, handles,
                   lsn, batch, files, faults>>

Rollback_FreesTheBuffer(t) ==
    /\ pc[t] = "failed"
    /\ buffer_queue' = <<buffer[t]>> \o buffer_queue
    /\ buffer' = [buffer EXCEPT ![t] = NoBuffer]
    /\ Goto(t, "rolledback")
    /\ UNCHANGED <<config, shared, waiting_txns, file_mutex, buffers, handles, lsn,
                   batch, files, faults>>

\* The caller of a commit() that threw may roll back, or commit without disk.
\* No path gives back the buffer.
Rollback(t) ==
    /\ pc[t] = "failed"
    /\ Goto(t, "rolledback")
    /\ UNCHANGED <<config, shared, waiting_txns, file_mutex, pool, handles,
                   lsn, batch, files, faults>>

\* commit(diskless = true), first or as a second attempt, takes a buffer all the
\* same, and returns it unused.
CommitDiskless(t) ==
    /\ pc[t] \in {"begin", "failed"}
    /\ IF buffer_queue = <<>>
         THEN /\ buffers' = Append(buffers, [txn |-> t, lsn |-> 0])
              /\ buffer_queue' = <<Len(buffers) + 1>>
         ELSE UNCHANGED <<buffers, buffer_queue>>
    /\ Goto(t, "diskless")
    /\ UNCHANGED <<config, shared, waiting_txns, file_mutex, buffer, handles,
                   lsn, batch, files, faults>>

-----------------------------------------------------------------------------
\* What Database::checkpoint does to the log, in any process

CheckpointAdvance ==
    /\ file_mutex = NoTxn
    /\ log_filename' = NewName
    /\ log_len' = 0
    /\ UNCHANGED <<config, next_lsn, last_write, last_sync, waiting_txns,
                   file_mutex, pool, handles, pc, lsn, batch, files, faults>>

CheckpointSync(p) ==
    /\ file_mutex = NoTxn
    /\ last_sync < last_write
    /\ SyncLog(p)
    /\ UNCHANGED <<config, next_lsn, last_write, log_filename, log_len,
                   waiting_txns, file_mutex, pool, handles, pc, lsn, batch,
                   disk, faults>>

-----------------------------------------------------------------------------
\* One step of the thread that runs t, inside Database::commit.
Commit(t) ==
    \/ TakeBuffer(t) \/ QueueForCommit(t)
    \/ EnterLog(t) \/ EnsureOpen(t) \/ Gather(t) \/ WriteBatch(t) \/ LeaveLog(t)
    \/ Complete(t)

Fault(t) == QueueRefuses(t) \/ OpenFails(t) \/ WriteFails(t)

Recourse(t) == Rollback(t) \/ CommitDiskless(t)

Next ==
    \/ \E t \in Txns : Commit(t) \/ Fault(t) \/ Recourse(t)
    \/ CheckpointAdvance
    \/ \E p \in Procs : CheckpointSync(p)

Spec == Init /\ [][Next]_vars

\* A thread inside commit() keeps running; the checkpoint need not, and nothing
\* has to fail.
FairSpec == Spec /\ \A t \in Txns : WF_vars(Commit(t))
-----------------------------------------------------------------------------
\* What a reader of the log finds

\* Whether whole records take up all of a file before a place.
Holds(q, f, i) == q.file = f /\ q.pos <= i /\ i < q.pos + q.len /\ q.txn # NoTxn
WholeUpTo(f, n, d) == \A i \in 0..(n - 1) : \E q \in d : Holds(q, f, i)

\* Reading a file stops at the first place that holds no whole record.
Readable(r, d) == r.txn # NoTxn /\ WholeUpTo(r.file, r.pos, d)

InReadableLog(t, d) ==
    \E r \in d : r.txn = t /\ r.lsn = lsn[t] /\ Readable(r, d)

\* How much of the log can be read back: all records up to this LSN.
ReadableUpTo ==
    Max({0} \cup {n \in 1..last_write :
                     \A l \in 1..n : \E r \in disk : r.lsn = l /\ Readable(r, disk)})

\* The buffers being written, and all that have an LSN and are not yet written,
\* in the order in which they will be.
Writing == IF file_mutex = NoTxn THEN <<>> ELSE batch[file_mutex]
Pending == Writing \o waiting_txns

-----------------------------------------------------------------------------
\* Properties

SharedTypes ==
    /\ log_max_len \in LogMaxLens /\ log_sync \in LogSyncs
    /\ next_lsn \in Nat /\ last_write \in Nat /\ last_sync \in Nat
    /\ log_filename \in Nat \cup {NoFile} /\ log_len \in Nat
    /\ file_mutex \in Txns \cup {NoTxn}

BufferIds == 1..Len(buffers)
BufferTypes ==
    /\ buffers \in Seq([txn : Txns, lsn : Nat])
    /\ waiting_txns \in Seq(BufferIds) /\ buffer_queue \in Seq(BufferIds)
    /\ buffer \in [Txns -> {NoBuffer} \cup BufferIds]
    /\ batch \in [Txns -> Seq(BufferIds)]

HandleTypes ==
    /\ my_log_filename \in [Procs -> Nat \cup {NoFile}]
    /\ logfd \in [Procs -> Nat \cup {NoFile}]
    /\ my_fp_offset \in [Procs -> Nat] /\ fp \in [Procs -> Nat]

LogRecords ==
    [file : Nat \cup {NoFile}, pos : Nat, len : Nat \ {0}, txn : Txns \cup {NoTxn},
     lsn : Nat]
FileTypes ==
    /\ disk \subseteq LogRecords /\ durable \subseteq LogRecords
    /\ open_faults \in 0..MaxOpenFaults /\ write_faults \in 0..MaxWriteFaults

\* Types of all variables.
TypeOK ==
    /\ SharedTypes
    /\ BufferTypes
    /\ HandleTypes
    /\ pc \in [Txns -> Points] /\ lsn \in [Txns -> Nat]
    /\ FileTypes

\* The file was below its maximum length before the last record in it, whatever the
\* lengths of the records are: it gets longer than that by one record and the padding.
OneRecordOver ==
    log_len = 0 \/ \E t \in Txns : log_len < log_max_len + Size[t] + Alignment + Header

\* Types of all variables.  Each write starts on a boundary of the alignment, as it is
\* meant to (logger.h:242), and no more than one record of a file is beyond log_max_len.
LengthsKept == TypeOK /\ log_len % Alignment = 0 /\ OneRecordOver

\* Transactions go to the disk in the order of their LSNs and none is skipped:
\* what is gathered and what still waits are, in this order, the LSNs up to the
\* last one handed out, and unless a write failed they start right after the
\* last one written.  The queue mutex is not held while the file is written, and
\* several processes take turns at writing for one another.
QueueInOrder ==
    /\ \A i \in 1..Len(Pending) :
          buffers[Pending[i]].lsn = next_lsn - 1 - Len(Pending) + i
    /\ last_write + Len(Pending) <= next_lsn - 1
    /\ write_faults = 0 => last_write + Len(Pending) = next_lsn - 1

\* Unless a write failed, a log file named after LSN x holds x+1, x+2, ... one behind the
\* other.  Recovery picks the files it reads by their names alone, and the writers of
\* one file are processes that each keep their own idea of the file offset.
Follows(q, r) == q.file = r.file /\ q.pos + q.len = r.pos /\ q.lsn + 1 = r.lsn
FilesNamedByLsn ==
    write_faults = 0 =>
        \A r \in disk : IF r.pos = 0 THEN r.lsn = r.file + 1 ELSE \E q \in disk : Follows(q, r)

\* Even when writes fail, no record is in a file named after its own or a later
\* LSN: recovery, which starts from the last file named below the LSN it needs,
\* does not start too late to meet it.
NoRecordBeforeItsFile == \A r \in disk : r.file < r.lsn

HeldByOne ==
    \A t, u \in Txns : buffer[t] = buffer[u] /\ buffer[t] # NoBuffer => t = u

FreeIsUnheld ==
    \A i \in 1..Len(buffer_queue) :
        /\ \A t \in Txns : buffer[t] # buffer_queue[i]
        /\ \A j \in 1..Len(buffer_queue) : buffer_queue[i] = buffer_queue[j] => i = j

PendingIsHeld ==
    \A i \in 1..Len(Pending) : \E t \in Txns :
        /\ buffer[t] = Pending[i]
        /\ buffers[Pending[i]] = [txn |-> t, lsn |-> lsn[t]]
        /\ pc[t] \notin {"begin", "filled"} \cup Returned

\* Recycled commit buffers are never shared: a buffer that is free for reuse,
\* or held by one transaction, is not also queued, being written or held for
\* another, and each pending buffer still has the content its owner gave it.
BufferOwnership == HeldByOne /\ FreeIsUnheld /\ PendingIsHeld

\* Unless a write failed, when log() has returned the record of the transaction is in a
\* log file and a reader of that file gets to it, whoever wrote it.  (Once a write has
\* failed, the buffers gathered for it are in the queue no more, and the next write moves
\* last_write past them: log() returns to transactions that are not in the log.)
CommitIsLogged ==
    write_faults = 0 => \A t \in Txns : pc[t] \in Returned => InReadableLog(t, disk)

\* With synchronous logging, and unless a write failed, a transaction for which log() has
\* returned is on the device, unless the file that holds it was filled up and left behind.
\* (databases.qbk promises "the persistence of transactions through all forms of failure,
\* including loss of power"; but sync_log() syncs the one file that is open.)
DurableUnlessRolledOver ==
    log_sync /\ write_faults = 0 =>
        \A t \in Txns : pc[t] \in Returned =>
            \/ InReadableLog(t, durable)
            \/ \E r \in disk : /\ r.txn = t
                               /\ r.file # log_filename
                               /\ \E q \in disk : /\ q.file = r.file
                                                  /\ q.pos + q.len >= log_max_len

\* Unless a write failed, what is in a log file is never overwritten, although advancing
\* to a new file resets log_len to 0 and a process seeks to log_len before it writes.
LogIsWriteOnce == [][write_faults' = 0 => disk \subseteq disk']_disk

\* Unless a write fails, every commit returns, or throws, although the thread may have to
\* write the buffers of any number of others before its own, and others may have thrown.
\* (One whose buffer went into a write that failed waits in log() until another commit
\* comes: it finds nothing to gather and last_write stays below its LSN.)
CommitReturns ==
    \A t \in Txns :
        pc[t] = "filled" ~> (pc[t] \in {"committed", "failed"} \/ write_faults > 0)

\* The log as LogPromise sees it.  What counts as written is what a reader of
\* the files would find, and not what last_write claims.
Order == [l \in 1..(next_lsn - 1) |-> CHOOSE t \in Txns : lsn[t] = l]
Promised == INSTANCE LogPromise WITH
                order <- Order,
                written <- ReadableUpTo,
                returned <- {t \in Txns : pc[t] \in Returned},
                broken <- write_faults > 0

\* The commit pipeline, as its files would be read back, keeps the promise of the log:
\* order, no gaps, nothing lost, until a write fails.
Promise == Promised!Spec

=============================================================================

# A verification of STLdb in TLA+

STLdb is a C++ library of transactional containers in shared memory: several
processes map one region and work in it with transactions, and a write-ahead log and
online checkpoints make the data outlive the region.  This directory models the
library, checks the models with TLC and proves properties of them with TLAPS.  Paths
below are relative to `src/stldb_lib/stldb/` unless they say otherwise.

Everything runs inside this directory: `tlc -config CommitLog.cfg CommitLogMC.tla`
checks a run (the table of runs names module and configuration of each),
`tlapm CommitLogProofs.tla` a module of proofs.  `PROJECT.json` lists the components
and what is modelled of each, the runs, the lines of code behind each definition, the
hazards of the code with the properties that would catch them, and the theorems.

## The system

| component | state | operations | module |
|---|---|---|---|
| Logger (`logger.h`) | in the region: next LSN, queue of commit buffers, last LSN written and synced, current file and length; per process: descriptor and offset | `queue_for_commit`, `log`, `sync_log`, rolling over | CommitLog |
| Transaction (`transaction.h`) | id, list of operations, containers touched | `commit` in three phases, `rollback` | CommitLog, TransMap, ConcurrentMap, ExclusiveMaps |
| Database (`Database.tcc`) | pool of commit buffers, `ckpt_history_map`, the containers | begin, commit, rollback, `checkpoint`, archiving, opening with recovery | Durability, Registry |
| Recovery (`recovery_manager.h`, `../src/log_reader.cpp`) | none | find the first log file, seek, redo | Durability |
| Checkpoint files (`../src/checkpoint.cpp`, `checkpoint.h`) | free space, images of rows, metafiles | allocate, write, merge, commit, load | CheckpointFile, Durability |
| `trans_map` (`containers/trans_map.h`, `.tcc`) | rows with a mark (operation and transaction id), `_ver_num`, container lock, row mutex, condition | lock, update, insert, erase, clear, swap | TransMap, ExclusiveMaps |
| `concurrent::trans_map` | the same; row mutexes shared by rows; changes kept aside until commit | the same | ConcurrentMap |
| `rbtree` (`containers/rbtree.h`) | nodes of the application, pending nodes per transaction | insert, update, erase | TransTree |
| Iterators (`containers/*iterator.h`) | a position | `++`, `--`, searches | Iterators |
| Page checkpoints (`../src/checkpoint_manager_impl.cpp`) | sets of changed pages, places of pages in a file | page fault handler, `checkpoint` | PageCheckpoint |
| Registry (`database_registry.tcc`, `Database.tcc`) | connected processes, validity of the region, file locks | open, register, look for the dead, check, close, remove | Registry |
| Lock-free containers (`sync/lockfree/`) | linked nodes, tagged pointers, a free list | enqueue, dequeue, push, pop | LockFree |
| Strings (`containers/gnu/`) | texts shared by reference count, in region or heap; relative pointers | construction, copy, change, search | SharedString, StringCalls, StringSearch, RelativePointer |
| Allocators (`allocators/`) | segments of a region | allocate, deallocate | Allocators |
| `stress_test_ckpt` (`../stldb_tests/src`) | worker, checkpointer and invalidator threads on one global database | the program | StressTest |

What is hard about them:

* **Concurrency.** One thread writes other threads' log records; a checkpoint runs among
  commits and unlocks the container between rows; row locks are marks on rows, and
  waiting for one gives up the container; pages are copied by page fault handlers
  while a checkpoint copies them, too.
* **Failure.** A log write or open may fail with other threads' records in hand; a
  process may die anywhere, with a record half written, a checkpoint half done, or a
  lock in the region that nobody will release.
* **Ordering.** LSNs are handed out under one mutex, written under another, and applied
  to the containers under a third.  Log files are named by LSNs, and recovery finds
  its way by the names.
* **Long sequences.** A row may occur several times in one transaction; a second recovery
  meets what the first one left; places in a checkpoint file are freed, merged and
  given out again.

## The modules

Beside some operators `X` stands an `X_Name`, for instance `NewName_Same` beside
`NewName`: the same operator with a slip that a programmer could plausibly make.
Nothing uses these.  Each property of a run fails when one of them takes the place of
its original (`PROJECT.json`, "mutants"), which shows that the property says something
about that code.  Each module with an `MC` module beside it is one that a run
instantiates.  A property that a run names is often the conjunction of a few parts,
each defined and explained on its own.

### CommitLog and LogPromise: from commit() to the files

One transaction per thread; each belongs to a process.  The variables are the
fields of `SharedLogInfo`, the descriptors of each process (`handles`), the pool of
commit buffers with their contents (`pool`), and the log files as sets of records with
their places.  A commit is `TakeBuffer`, `QueueForCommit`, `EnterLog` (the file mutex),
rounds of `EnsureOpen`, `Gather` and `WriteBatch` until its own LSN is written,
`LeaveLog` (which syncs) and `Complete`.  Faults are `QueueRefuses`, `OpenFails` and
`WriteFails`, which writes part of a batch; after them the caller rolls back or
commits without the disk.  A checkpoint advances and syncs the log.  Each transaction's
record has a length of its own.  `Gather` takes buffers as long as what it took before leaves the
file below `log_max_len`, and `WriteBatch` rounds the end of the write up to the alignment with a
padding record, which a header must fit into; so a file does get longer than `log_max_len`, by
one record and the padding.  A new file gets a byte at `log_max_len` first.  Contents and
checksums are abstracted to whether a record reads back whole.

`LogPromise` is what the rest of the system relies on: LSNs are assigned, the log holds
a prefix of their order that only grows, and no commit returns before that prefix
covers it, until a write fails.  `CommitLog!Promise` maps the files *as `log_reader`
would read them back* to it, not the code's own counters.

### Durability: checkpoints, crashes and recovery

The commit pipeline is two steps here (open the file, write the record), as CommitLog
justifies.  `Operate` marks a transaction's rows, `Apply` is phase 3 of commit.  The
checkpoint goes container by container and row by row: `CkptStart`, `CkptContainer` (the
start LSN), `CkptCopy` (a row's image, under the lock), `CkptPlace` (its place, in a
later critical section), `CkptTakeFreed`, `CkptNote`, `CkptCommit` (the metafile).
`Archive` removes log files no longer needed.  `Crash` loses the region and does to the
record being written one of: absent, whole, torn; or, before the first record of a file just created,
leaves that file empty.  `Recover` loads the
checkpoints, picks the first file by its name, redoes, and opens or refuses.

The history variable `order` is the log's true order; `exposed` holds the rows that a
known flaw has hit (see "Known departures"), so that `NothingLostUnlessExposed` still
says everything about all the other rows.

### CheckpointFile: rows of different sizes

One container's file with its best-fit allocator, extension, places that become free
only with the next metafile, merging of neighbours, `clear()` during a checkpoint, a
checkpoint that fails, old metafiles that stay, the iterator that loads, and the
consistency check of `ckpt_inspector`.  `RecoveredIsCommitted` compares what a load and
the log bring back with the rows; `SpaceIsKept` says that no unit of the file has two
uses or none.  Changes are committed and logged in one step here.

### TransMap, Iterators, ExclusiveMaps

`TransMap` has one map; rows carry the mark of their `TransEntry`.  `Operate` is a call of
`lock`, `update`, `erase` or `insert` together with the `find()` before it, under the
container's lock.  An operation that meets another's mark goes through `Doze` (row
mutex taken, container let go), `Sleep`, being woken by `Notify`, and `Retry`, which takes
the iterator anew if `_ver_num` moved; or it ends with `Timeout`.  `WriteRecord` is
phases 1 and 2 of commit; `Commit` and `Rollback` fold the operations of the list over
the map, forwards and backwards.  Using an entry that is gone sets `corrupt` and ends
the behaviour.  `Recoverable` redoes the log as recovery does.  A transaction id and
an LSN share `_txn_id`, and after a recovery ids start from 1 again: the model starts
with a row that recovery left with LSN 2.

`Iterators` adds a walk with one of the three kinds of iterators to the same rows.  While it is
open nobody inserts, and a commit or rollback must wait, but for those of `concurrent::trans_map`
that take its lock shared: commits without an erasure and rollbacks without an insert, on rows other
than the one whose mutex the iterator holds.
`ExclusiveMaps` extends it by an exclusive transaction that clears and swaps two maps
between changes of their rows.  An operation that commit or rollback comes to and whose entry is
gone is a use of an erased entry (`Astray`) and ends the behaviour (`broken`).

### ConcurrentMap

The map of `concurrent_trans_map.h` at the grain of its locks: the container's lock
shared or exclusive, and the mutexes of `picket_lock_set`, which rows share.  Commits
and rollbacks take locks one by one (`to_lock`), change the map one operation at a time
(`todo`), notify and let go.  One transaction's process may die anywhere, and whoever then waits
for one of its locks gets `lock_timeout_exception`, after which a commit has its record
in the log and a part of its locks taken.

### TransTree

The transactional red-black tree of nodes that the application allocates.  An update
keeps the new node aside and exchanges nodes at commit, so that every pointer of a
list of operations may be left dangling; who follows one sets `corrupt`.  Erasing and updating are
two steps each, the look at the mark and the new mark (`looked`): they share the tree's lock, and of the two only
`update()` holds a mutex over both, so that an erase comes between the steps of an update
or of another erase.  A row whose mark was set so is `raced`.  Recovery redoes the log record by record, and ends
(`Halted`) at the redo of a delete of a row that is there.

### PageCheckpoint and SnapshotPromise

Threads store to pages; the page fault handler is six steps (`HandlerLooks` to
`HandlerUnprotects`), `checkpoint()` is `CkptStart` and, per page, `CkptPage`, `CkptCopy`,
`CkptClear`, then `CkptComplete`.  Protection is per process, all else is shared.
`SnapshotPromise`: the checkpoint is the region at one moment without transactions, and
one that has begun ends.  The pages of which a store was missed are left out
(`untracked`), as the code protects only its own process' mapping again.

### Registry

Processes that open, recover, check, use, close and remove a database, with `.lock`,
`.reglock` and a `.pid` file each, and deaths anywhere.  A region keeps its identity when
its name is removed.  The history variables note in which regions a process has died with
work in progress (`tainted`), which openings missed that (`sawTaint`), which regions
were given up without a mark (`untold`), and of which regions another one's check has
removed the file of a dead process (`overlooked`).

### LockFree and QueuePromise

Queue, stack and free list with tagged pointers, one step per access to shared memory.
`QueuePromise` is a queue (or stack) in which a call takes effect at once; the
refinement shows linearizability with a history of the empty moments that a failing
call may report.  A thread may stop for good anywhere.

### SharedString, StringCalls, StringSearch, RelativePointer

Strings whose texts are shared by reference counts among threads of several processes,
in region and heap, with the steps of a change that others can see.  `StringCalls` is the
abstract string class.  `StringSearch` has the search loops of `basic_string.tcc` and what
their comments promise; `RelativePointer` the pointers kept as distances, with words that
wrap, in processes that map the region elsewhere.

### Allocators and StressTest

`Allocators` is the segment list of `variable_node_allocator`.  `StressTest` is the
program that drives the library as applications do: one global database pointer under a
shared mutex, workers told to recover, a checkpointer and an invalidator.  It erases under the
sharable lock, in two steps: `EraseNode` looks at the mark and `MarkErased` sets it.

## The runs

| run | configuration, module | what it asks | bounds |
|---|---|---|---|
| `commit_log` | CommitLog, CommitLogMC | types, order of the queue, file names, buffers, what a returned commit can count on, write-once files, termination, refinement of LogPromise | 3 transactions in 2 processes, one of which may be refused; records of 2, 3 and 2 units, alignment and header of 2, a maximum of 3 for a file, batches of 2; sync on (checkpoints start new files) and off (checkpoints sync); one failing open or write, of a thread whose process runs another |
| `durability` | Durability, DurabilityMC | nothing lost but exposed rows, when recovery refuses, places of rows, intact checkpoints | 3 transactions that insert, erase and insert again; 2 containers, one with 2 rows; log files of 2; 2 crashes, with all outcomes for the record being written, the second on no torn record |
| `checkpoint_file` | CheckpointFile, CheckpointFileMC | what a load and the log bring back, space, the inspector's check | 2 keys, rows of 1 or 4 units, 4 changes, 3 checkpoints, 1 crash, failure or clear |
| `trans_map` | TransMap, TransMapMC | row locks and wake-ups, map against log, iterators | 3 transactions with up to 3, 1 and 1 operations on 2 keys |
| `iterators` | ExclusiveMaps, ExclusiveMapsMC | walks against the rows; rollback, commit and recovery with clear and swap | 2 transactions on 3 rows and 1 walk; or an exclusive transaction of 4 calls on 2 maps |
| `concurrent_map` | ConcurrentMap, ConcurrentMapMC | locks, commits against the log, iterators, termination | 2 transactions of 2 calls, 4 rows on 2 mutexes, one of them may die |
| `trans_tree` | TransTree, TransTreeMC | isolation among updates and erases that cross, dangling nodes, recovery | 3 transactions with up to 3, 1 and 1 operations, 3 keys |
| `page_checkpoint` | PageCheckpoint, PageCheckpointMC | places, verifications, refinement of SnapshotPromise | 2 threads in 2 processes, 2 pages on 1 mutex, 4 stores, 2 checkpoints |
| `registry` | Registry, RegistryMC | no region joined that a death has spoilt, one usable region, every opening ends | 3 processes, one of which removes; 4 regions, 3 openings, 1 death, 1 commit |
| `lock_free` | LockFree, LockFreeMC | nodes in one use, linearizability, progress of others | 3 threads, 4 nodes, two workloads, caching and static free list |
| `shared_string` | SharedString, SharedStringMC | values, counts, searches, pointers | 2 threads of 2 processes, 2 strings in the region and 1 in a heap, 3 calls |
| `stress_test` | StressTest, StressTestMC | the global pointer, nothing done twice, the end of the program | 2 workers with transactions of 3 and 1 operations, 2 keys, 2 segments of 2, 2 invalidations, 1 failing open |

Why the bounds are enough.  *Commit log:* with batches of two records, and a maximum that one record reaches or two go
beyond, three transactions fill a file exactly or overrun it, end a write on a boundary or so close
to one that the padding needs another block, roll over in mid-batch or between batches, from either
process, and write for each other; two threads share a descriptor, the third has
another.  The fault meets a thread of the process that has two, so that the one that goes on shares its
descriptor; a checkpoint starts a new file only when logging is synchronous and syncs only when
it is not, where a fault apart there is nothing else to sync.  *Durability:* three transactions are what it takes to insert, erase and insert
a row again; with files of two records the log rolls and has a file to archive; two
crashes let one recovery meet what another left.  *CheckpointFile:* two sizes are
enough for regions to split, to be extended and to merge; three checkpoints give out
again what the first one freed.  *TransTree:* three operations insert, update and erase one row,
and two other transactions erase or update it between the steps of the first.  *TransMap:* three operations of one transaction on one
row are the shortest list on which commit can go wrong twice; a sleeper, the one that
holds the row and a third that changes it in between cover the wake-up.
*ConcurrentMap:* two mutexes for four rows make rows share one and lists take both in
either order.  *PageCheckpoint:* two pages on one mutex contend, and a second checkpoint
meets the places of the first.  *Registry:* one opener, one that finds the death and one
that removes.  *LockFree:* a thread stopped in mid-call while the others reuse its node
is an ABA.  *SharedString:* two owners of one text and a third string over another
allocator.  What lies beyond the bounds is what the proofs are for.

Deadlock is checked where the system runs on (`commit_log`, `trans_map`, `trans_tree`,
`iterators`, `page_checkpoint`); the other configurations say that they may end: all
transactions, calls, crashes or openings are used up.

**Fairness.**  `CommitLog`: `WF(Commit(t))`, a thread inside `commit()` runs on; each
transaction takes `_file_mutex` once and lets it go, so that weak fairness is enough.
`PageCheckpoint`: `WF` of the handler of each thread and of `checkpoint()`: neither stops in
the middle.  `ConcurrentMap`: `WF(Proceed(t))` for a thread inside a call, a commit or a
rollback, with the assumption that the time after which a lock is given up exceeds the
time for which a living thread holds one.  `Registry`: openings, log writes and removals
that have begun go on.  `LockFree`: every thread but the one that stopped takes its
steps.  `StressTest`: strong fairness of the workers and of `main`, since they take
mutexes again and again that others take, too, and `boost::shared_mutex` does not
starve a waiter; weak fairness of the checkpointer and the invalidator while they use the
database, none of what makes them use it.  No fairness is assumed of faults, deaths,
timeouts or of the beginning of anything.

## Known departures

The models follow the code, and the properties leave out, by name, what the code does
against its documentation or comments.  Each is explained at the property.

* *Log.*  `sync_log()` syncs the open file only and credits it with all that was written
  (`logger.h:292`): `DurableUnlessRolledOver`.  A write that fails takes the buffers of
  others with it (`logger.h:275`): after `write_faults > 0` nothing is promised.  After `log()`
  has thrown, the buffer stays queued and is written, although the caller may roll back
  (`transaction.h:464`).
* *Checkpoint and recovery.*  A checkpoint claims an LSN whose transaction may not have
  changed the container yet (`Database.tcc:793`); redo of delete and insert gives a row
  an LSN that the next checkpoint skips (`containers/detail/map_ops.h:223`); a row erased and
  inserted again between copy and note is told from the old one by its offset only
  (`containers/trans_map.tcc:737`): `exposed` holds these rows.  Recovery keeps a torn record and
  stops at it the next time, too (`recovery_manager.h:140`), so that LSNs are given out again and, two
  openings later, archiving may take the file being written by its name (`LogServesRecovery` is
  checked for crashes that tear no record behind a torn one); and a file whose first record is torn
  gives the next one a name that does not parse (`../src/db_file_util.cpp:230`).  A crash between the
  creation of the very first log file (`logger.h:381`) and its first record makes recovery take -1 for the
  end of the log.  A checkpoint
  iterator may miss the last row (`checkpoint.h:300`).  A `clear()` during a checkpoint hands back
  places twice (`containers/trans_map.tcc:739`).
* *Rows.*  Of two updates of a row in one transaction the first wins in memory and the
  last in the log (`map_ops.h:140`); an insert erased by its own transaction shows to
  readers (`trans_map.tcc:92`); a commit of the concurrent map with the exclusive lock may
  pass a sleeper between its look and its sleep (`concurrent_trans_map.h:563`); a commit whose lock times
  out releases nothing of its own container (`transaction.h:513`).
* *Exclusive transactions.*  Rollback of an insert before `clear()` or `swap()` erases
  through the wrong map (`map_ops.h:372`, `:437`); a row operation before `clear()` is logged
  under the empty name (`map_ops.h:352`) and recovery leaves its body unread; `swap()` is
  logged as a clear (`map_ops.h:421`).  A row erased, inserted and erased again leaves two operations of
  erasure, and commit looks at the entry that the first of them has erased (`map_ops.h:200`).
* *Tree.*  An update is logged from the old node (`containers/detail/rbtree_ops.h:154`).  The redo of
  a delete destroys and frees what an iterator points to that was never set, and not the node it has found
  (`rbtree_ops.h:242`), so that recovery ends at the first delete of a row that is there (`Halted`):
  `LogBringsRowsBack` says so, and that the rows come back from logs without one.  Under the shared
  lock, which a comment allows, an erase and another erase or update mark one row
  (`containers/rbtree.h:1614`): of such rows (`raced`) nothing is claimed, and of all others everything,
  whatever races there are.  An update of a row that the same transaction has inserted assigns the
  new node over the mark (`rewritten`), and one that it then erases survives its commit (`half_erased`).
* *Pages.*  Stores of other processes go unnoticed after a checkpoint
  (`../src/checkpoint_manager_impl.cpp:271`).
* *Regions.*  A commit that has passed `safety_check()` writes to the log after another
  process has recovered (`Database.tcc:143`, against `docs/database.html:39-42`).
  A process has one `.pid` file for all its regions, and whoever finds it dead removes it
  (`database_registry.tcc:19`); the check of another region then takes the missing file for a
  process that left, and does not mark the region: `overlooked`.
* *Inspector.*  Its check skips the last free region (`../src/ckpt_inspector.cpp:94`).
* *Stress test.*  A checkpointer that waits for the transaction lock with the global mutex
  held shared, and a worker that left its transaction to recover, wait for each other
  (`StandsStill`).  The program erases under the sharable lock, where two workers may both look at a mark
  before either sets one (`containers/rbtree.h:1614`); both commits then free one node.  The second mark ends
  the behaviour, and nothing is claimed of what comes after.

## The proofs

TLC looks at small instances; the theorems hold for every value of the constants.  Each
rests on an inductive invariant, which TLC has checked on the configuration of the run
before it was proved.  The assumptions are those named in the modules (`ASSUME`), which say
no more than that the constants have the types that the code gives them: finitely or
infinitely many transactions, keys, processes or pages, bounds that are numbers, and
values that stand for "nobody" and are nobody.

| module of proofs | theorem | what it establishes |
|---|---|---|
| CommitLogProofs | `LengthsAreKept` | whatever the lengths of records, header and alignment: types, every write starts on a boundary, and a file exceeds its maximum by one record and the padding at most |
| | `QueueIsInOrder`, `BuffersAreOwned` | what is written and what waits are consecutive LSNs in order; no commit buffer has two uses |
| | `FilesStartBeforeTheirRecords` | a file is named below the LSNs of its records, whatever fails |
| | `FilesAreNamedByLsn`, `LogIsWrittenOnce`, `CommitsAreLogged` | until a write fails: a file holds the LSNs from its name on, one behind the other, nothing is overwritten, who has returned from `log()` can be read back |
| | `CommitsAreDurable` | with sync on, who has returned is on the device or in a file left when it was full |
| | `LogKeepsItsPromise` | CommitLog implements LogPromise |
| DurabilityProofs | `TakenIsKept`, `OnlineCheckpointIsSafe` | a checkpoint never writes over an image that the current metafile refers to |
| | `SpaceIsSound` | types; the location of a row is its own and has that row's image, through checkpoints, erases, crashes and recoveries |
| | `NothingIsLost` | the rows have what the log says, after any number of crashes and recoveries, but for exposed rows; as long as recovery is up to the crashes (below) |
| | `LogIsThereForRecovery` | under the same condition, recovery finds in the log what it needs, whatever was archived |
| | `NothingIsLostOfWholeRecords` | both of them, when a crash tears no record but may leave any log file empty except the very first |
| RegistryProofs | `OpeningIsSound` | nobody works in a region that a death has spoilt, but for the named case; one usable region |
| PageCheckpointProofs | `CheckpointsAreInOrder` | places, sets of changed pages and mutexes fit together, verified pages have their content |
| | `CheckpointsAreSnapshots` | the safety part of PageCheckpoint's refinement of SnapshotPromise |
| ConcurrentMapProofs | `RowLocksAreKept` | exclusive row locks, no forgotten sleeper but the one of the known departure |
| | `IteratorsStaySafe` | no row changes under a thread that looks at it |
| | `CommitsStayFaithful` | at every step of every commit and rollback the map is what recovery would make of the log; places of rows are kept or handed back |
| TransMapProofs | `RowLocksAreKept` | exclusive row locks, `lock()` takes them, no forgotten sleeper |
| | `IteratorsDoNotDangle` | no use of an iterator to an erased entry but in the named cases |
| | `MapFollowsTheLog` | readers see of each row what recovery would make of the log |
| ExclusiveMapsProofs | `WalksAreFaithful`, `ExclusiveWalksAreFaithful` | a walk shows its reader the rows that there are for it, with committed values or its own, but for the known departures |
| | `ExclusiveRollbackRestores` | an exclusive transaction finds its rows whatever it cleared and swapped since; rollback brings every map back, but for an insert that a clear or swap follows |
| | `ExclusiveCommitsAreRecovered` | commit comes to its end but where one call erased a row that another had erased already, and redo of its record to the same maps, but for swaps, rows changed before a clear and rows updated twice |
| TransTreeProofs | `TransactionsStayIsolated` | row locks, readers, own changes and the nodes that pointers lead to, with erases and updates that cross, but for raced, rewritten and half erased rows |
| | `LogBringsThemBack` | when all have ended, recovery ends if a delete of a row is in the log, but for such rows; if it does not end, the log gives the rows back, but for such rows and the value of a row updated last |

Along which arguments:

* *CommitLog.*  `Locking`: whoever is inside `log()` has `_file_mutex`, and who is about to gather has found
  the file below its maximum.  `Queueing` adds the order of what is written and queued, and
  the owners of the buffers: the two need each other, since a record written for another
  transaction is that transaction's buffer.  `RoomLeft` adds that the file is below its maximum
  before the last record of what was gathered, from what the choice of the batch guarantees
  (`GatherCountBounds`) and from the sums of lengths (`EndsAdd`).  `Naming` adds that names of files do not run
  ahead of what is written and that a process is right about the file it has open; this much
  survives failing writes.  `FileInv` adds what holds until a write fails: the file holds
  exactly the LSNs from its name on, all of it is whole (`NoHoles`), and the length in shared memory is where
  its last record ends (`FileEnd`).  For durability `SyncInv` adds what each process still has to sync, and for the
  refinement `PromiseInv` the order in which LSNs were given.  That the prefix
  a reader would find only grows follows from `LogIsWrittenOnce`.
* *Durability.*  `TakenInv`: a checkpoint that is being written counts as taken all places of
  the metafile it will replace.  It is what makes the places that it frees useless until
  the next one.  `TypeInv` adds the types of all that a crash may leave on disk, and `SpaceInv`
  who uses which place: a row's place is taken, not free and not about to be (`RowsHeld`); what is
  about to be free was taken (`FreeHeld`); a row that is copied and not placed yet has its copy at a place
  that no row has (`CopyHeld`).  Recovery is an iteration over files, and in each over records; what it
  makes of the checkpoints has, of each row, the place it was loaded from, or that place is free
  (`IsDb`).  From that follows the invariant again after a crash.
* *Durability, what recovery brings back*.  `LogInv` says that the
  files hold the log without gaps, each beginning where one before it ends (`Contiguous`), back to where the
  checkpoints need it (`Reachable`), and that no checkpoint is ahead of the log (`Starts`); so what
  recovery redoes is the log from some place at or before the checkpoints' starts to its end
  (`RedoneOfFile`, `ReachedIsEnd`).  `History` says of each row that is not exposed what has become of
  it everywhere: the row has the value at the end of the log, or
  the one before the transaction that is between its record and phase 3 (`RowCurrent`); the
  current checkpoint has it at one place at most and shows it as it was at some time
  after the checkpoint's start (`MetaRight`); so does the one that is complete but not committed (`Frozen`);
  and the one in progress shows each row that it has passed as it was after its start, also
  when the row was copied, then changed or erased, and then placed (`Passed`).
  How a change is logged tells whether the row was there (`KindRight`).  Redo then goes
  through the log record by record and file by file: at each place a row is either still as it was
  loaded, with a value from further on, or has the value of that place (`BroughtTo`).
  An insert that is ignored because the row is there, an update of a row that was loaded newer,
  and an erase of one that is missing are the cases of that induction; it ends at the
  end of the log, where the two agree.
* *Registry.*  `Opened` follows each process from its look at the registry to its use of the region:
  whoever has a region mapped and is registered there either sees the mark
  that a death leaves or has died itself; a region without a name is given up.
* *PageCheckpoint.*  `InOrder`: a handler that copies holds the page's mutex; there are twice as
  many places as pages, and each page uses at most its place of the last checkpoint
  and the one of this (a counting argument over finite sets).  `Kept` adds where the content
  of each page is that the checkpoint must have: still in the region, in the handler's
  hand, or in the file.
* *ConcurrentMap.*  `LockInv`: who changes a row holds the row's mutex (or all, by the
  exclusive lock); a row that a list of operations names is there; at most one transaction
  claims it; and who is about to sleep on it holds its mutex or has a reason to sleep.
* *ConcurrentMap, what commits make of the map*.  Here a commit or rollback
  changes the map an operation at a time, among the steps of the others, so that the invariant,
  `CommitInv`, is about the operations that are left to each transaction (`Left`).  The list of what is to
  do is a tail of the operations, or the beginning in reverse (`TodoIs`).  On each row they are
  an insert alone, or a lock, updates and then an erase, each of which remembers the kind of
  the one before it (`Shaped`); the last one left has its mark on the row (`Traced`), which
  therefore tells what its commit or rollback will find; the first one remembers the LSN of the row it
  found unmarked (`FindsFirst`).  A record whose transaction is not through says of each row that is left
  what the commit will make of it, and no later record touches that row (`PendingAreCurrent`); so the rows
  follow the log though transactions commit in another order than they logged (`RowsAgree`).
  Of iterators it says that the one in use points to a row that its transaction may see, and
  that one made before a sleep does so if the version is still the same (`NotStale`), since nobody removes a row
  without a new version.  Rows that a transaction has both inserted and erased are left out
  of all of it, and an iterator that dangles is to one of those (`OnlyTwistedRowsCorrupt`).
* *TransMap.*  `MapInv` says of every operation on the list of an unfinished transaction what the
  row is like (`IsTraced`): there, marked by that transaction, with the kind
  of its last operation on it; the first has found the row unmarked.  Commit and
  rollback are iterations over the list.  The library's
  induction theorems cannot be used, as they take an operator; so that a step for each element can
  be iterated, and that what holds of 0 and of each successor holds up to n, is proved from the
  least element of a set of numbers (`Iteration`, `UpTo`).  What a commit makes of the map is then
  followed operation by operation (`Committing`, `RollingBack`): a row of the list ends as
  its last operation says (`Settled`), or as its first one found it (`Restored`), and is never missing
  when an operation comes to it unless the transaction erased it twice.  For
  iterators the invariant says that one that is not stale points to a row that nobody has
  inserted since, which is what a stale iterator needs to be told by the map's version.
  `LogInv` adds the log: who has a record in it (`RecordsAreKept`), that
  a record whose transaction has yet to change the map is still what its list
  would write and that no later record touches its rows (`PendingAreCurrent`), so that the map may follow
  the records in another order than that of the log; that only the first operation on a row finds it
  unmarked, and remembers the LSN of what is there (`FirstsAreFaithful`); and how each row relates to
  what recovery would find (`RowsAgree`), also for rows that are marked or were updated twice.
  Redo is an iteration over changes, and that over records (`RedoInSteps`, `RedoLogInSteps`).
* *Iterators.*  The steps of a walk leave the transactions alone, and theirs are steps of TransMap, so that
  `LogInv` holds all along; `WalkInv` adds the walk.  While it is open nobody inserts, and who
  commits or rolls back under the shared lock takes no entry away: a commit without an erasure leaves each of its
  rows there and unmarked (`CommitsAreHarmless`), and so does a rollback without an insert
  (`RollbacksAreHarmless`).  So the iterator stays on an entry and no row becomes another's insert under it
  (`PositionIsSound`, `IsHarmless`); and what its reader could see at one time lies between what it could see all along
  and what it could see ever (`SightIsRecorded`).  The rows that an iterator does not hide are
  those that `find()` gives (`HiddenAreNotFound`: a mark never has the id 0, that of an iterator
  without a transaction).  So `++` goes to the least findable row above (`StepsToTheNext`) and `--` to the greatest
  below (`StepsToTheLast`), of which there is one, as the iterator is not at `begin()`; nothing lies between.
  The order needs an end, so the keys are assumed to be finitely many positive numbers (`OrderedAssumption`).
* *ExclusiveMaps.*  That rollback will work is itself an invariant (`CanBeUndone`): there are maps
  `t[i]` and places `h[i]` of the operations' rows, one for each operation of the list, that lead from the maps
  that the transaction found to those that there are, and whatever the i-th operation did,
  its undoing leads from `t[i]` to `t[i - 1]` (`Undoes`).  A call on a row adds one to these histories;
  `clear()` and `swap()` do, too, and redirect the operations before, the rows of which have moved
  (`UndoneAfterMap`).  The values of rows that the transaction has inserted are left out (`Mask`), since it updates them
  without an operation.  Rollback then goes down the list: before it comes to the i-th operation the maps are
  `t[i]` and each operation has its row at `h[i]` (`ListIsKept`), until an insert is met that a clear or a swap follows,
  which may be the wrong map (`WentWrong`).
  For recovery `CallsAreShaped` says, as long as no maps are swapped, what there is to each row since its map was
  last cleared: an insert finds nothing, and the last operation has its mark on the row.  Commit goes through the list and
  redo through the record, and after each operation a row is what was there before or what its last operation made of it;
  at the end the two agree.  A row that is missing when commit comes to it was erased by an operation
  before, and is to be erased by a later one (`MissingIsErasedTwice`).
* *TransTree.*  `Sound` has two parts.  What holds of every row that is not wild, neither rewritten nor raced: whoever has its
  mark is the one unfinished transaction that has changed it (`KeyOK`), and each operation of that
  transaction on its nodes is one of the few that the row's mark allows, in an order in which only an
  insert is followed by another one on the node in the tree (`Fits`, `ListOK`): so the first operation
  that meets its mark settles the row, and those after it find nothing of theirs to do.  And what
  holds of every row that is in no known departure: what is committed of it is what it shows to
  readers, its holder finds what it wants, and the log brings it back (`Shows`, `LogOK`).  Commit and
  rollback are iterations over the list, each step of which leaves every other
  row alone (`CommitSoFar`, `RollbackSoFar`), and so is recovery over records and their
  changes, which stays ended once it has.  Between the two steps of an update or erase the mark may become
  another's; the second step then makes the row a wild one.  Wild rows (`Wild`) may be anything, and their list is the only one through which a step can
  go wrong; that an end has gone wrong therefore tells that there is one.

The theorems about recovery have a condition, `CrashIsBearable`, since without it they are
false, as the code is: recovery leaves a torn record where it is and stops there again the next
time, and takes a log file without a whole record for one that ends at LSN -1 (see
the departures above).  So no crash may come while a torn record of an earlier crash is still in the log,
none may tear the first record of a file, and none may leave the very first log file without a record
(`LogHasBegun`); a later file that a crash leaves empty recovery is up to.  Where the file system writes a
record whole or not at all, only the last of the three is left to assume (`CleanSteps`), which is how
`NothingIsLostOfWholeRecords` is stated; and a first crash that tears a record behind another is
covered, too.

Attempts that failed changed the models: overlapping arms of a CASE, of which TLC takes the
first and the semantics any, are conditions in their order now (`CommitOp`, `CommitCall`,
`RedoCall`); and the registry's proof found the region that is overlooked (above).

What is checked by TLC only:

* Liveness (termination, progress of others, the end of a checkpoint), since the provers
  have no ENABLED; so `CheckpointsAreSnapshots` leaves the leads-to of SnapshotPromise to TLC.
* The properties of CheckpointFile: its reference definition redoes the log with folds
  whose value for every list is an induction over data.
* Of Durability, what comes of a crash that `CrashIsBearable` excludes, as far as the run's
  bounds let it happen; `NodesAreSound`
  of LockFree, which does not hold for every modulus of the tags, and its refinement of QueuePromise, which rests on
  it; `DatabaseIsShared` and `NothingIsDoneTwice` of StressTest; and the
  properties of the strings and pointers, which are about values of bounded functions.

## Not modelled

* In CommitLog: contents and checksums; a loss of power (see the hazards).
* In Durability: two changes of one row by one transaction (TransMap), log records of different
  lengths (CommitLog), rows of different sizes, failing checkpoints, clear (CheckpointFile), diskless commits and their rows'
  LSNs, old metafiles removed by a prefix of the name.
* In TransMap: `insert` with a hint (nothing calls it, and it does not compile when
  instantiated), range erase (declared, never defined), commits over several maps one
  after the other, a wait that the condition ends by itself.  In ConcurrentMap: clear,
  swap and `save_checkpoint`; several iterators of one thread; a repeated rollback.
* In Iterators: calls and new walks between a commit under the shared lock and its notification; waiting
  for the row mutex that such a commit holds.
* In TransTree: what does not compile when instantiated (searches but `find`,
  `insert_equal`, hints, range erase, `clear`, the lock operation); balancing is boost's.
* In PageCheckpoint: loading the file into a new region and growing the region.
* In Registry: the rendezvous of `await_complete_disconnect` (Windows only).
* In LockFree: the class `freelist`, tags that wrap, an exhausted static free list, at
  which the code constructs at a null pointer (`sync/lockfree/fifo.hpp:172`).
* In the strings: input and output, hashing, rounding to pages; in the pointers the mixed
  signedness of 32-bit comparisons.
* In StressTest: statistics, options, the values of rows.
* Not at all: `intrusive_trans_map` and `trans_vector` (drafts that do not compile or have
  no operations), growing regions (unused, do not compile), string helpers, timing,
  tracing, statistics, `db_inspector` and `log_inspector`, the other tests.


--------------------------- MODULE PageCheckpoint ---------------------------
(***************************************************************************)
(* Checkpoints of a mapped region by copy on write                         *)
(* (checkpoint_manager_impl).  All pages are protected against writing; a  *)
(* thread that writes to one takes a fault, and the handler notes the page *)
(* as modified and lifts the protection.  checkpoint() exchanges the set   *)
(* of modified pages for an empty one, protects the pages again and copies *)
(* the modified ones to free pages of a file twice as large, while threads *)
(* go on: the handler first copies a page that the checkpoint in progress  *)
(* still needs.                                                            *)
(*                                                                         *)
(* Protection is a property of a process' mapping; the sets, the places of *)
(* the pages and the mutexes are in a region that all processes share.     *)
(* The contents of a page are the number of stores to it.  Threads store   *)
(* inside of transactions only, and checkpoints are made one at a time,    *)
(* both of which the code leaves to its caller.                            *)
(*                                                                         *)
(* Beside a few operators X stands X_Name, the same with a plausible slip  *)
(* of the code.  Nothing uses those: put in the place of X each one breaks *)
(* the property that is there to catch it, as PROJECT.json records.        *)
(***************************************************************************)
EXTENDS Integers, Sequences, FiniteSets

CONSTANTS
    Threads, Procs,
    Home,              \* the process of each thread
    N,                 \* the pages of the region; the file has twice as many
    MutexCount,        \* MUTEX_COUNT, the mutexes that the pages share
    MaxStores,         \* bound: the stores
    MaxCheckpoints,    \* bound: the checkpoints
    Nobody, Nowhere    \* no thread holds it; NULL_PAGE

ASSUME PagesAssumption == N \in Nat \ {0} /\ MutexCount \in Nat \ {0}
ASSUME ThreadsAssumption ==
    /\ Home \in [Threads -> Procs]
    /\ Nobody \notin Threads /\ "checkpoint" \notin Threads \cup {Nobody}
ASSUME BoundsAssumption == MaxStores \in Nat /\ MaxCheckpoints \in Nat
ASSUME NowhereAssumption == Nowhere \notin Nat

Pages == 0 .. N - 1
Places == 0 .. 2 * N - 1
Mutexes == 0 .. MutexCount - 1
MutexOf(p) == p % MutexCount

VARIABLES
    region,            \* the contents of the pages
    file,              \* the contents of the places in the checkpoint file
    \* checkpoint_info
    page_locs, ckpt_content, free_pages, pending_free_pages,
    change_info,       \* the pages modified since the last checkpoint began
    change_info_inprog,\* those that the checkpoint in progress has to copy
    mutex,             \* the holders of change_info_inprog->mutex[]
    readers,           \* the threads that hold transaction_lock shared
    \* of each process: has it the region open, and which pages may it write
    open, writable,
    \* of each thread: where it is, the page it writes, the place it copies to
    pc, at, got,
    ckpt,              \* the thread in checkpoint(): where, whose, entry_no, place
    \* bookkeeping for the properties
    stores, checkpoints,
    snapshot,          \* the region when the last checkpoint began
    saved,             \* page_locs when the last checkpoint was complete
    untracked          \* pages written without a fault though nobody had noted them

places == <<page_locs, ckpt_content, free_pages, pending_free_pages>>
infos == <<change_info, change_info_inprog>>
maps == <<open, writable>>
threads == <<pc, at, got>>
history == <<checkpoints, snapshot, saved>>
vars == <<region, file, places, infos, mutex, readers, maps, threads, ckpt,
          stores, history, untracked>>

NoChanges == [bits |-> {}, pages |-> <<>>, written |-> 0, demanded |-> 0]

Init ==
    /\ region = [p \in Pages |-> 0]
    /\ file = [c \in Places |-> 0]
    /\ page_locs = [p \in Pages |-> Nowhere]
    /\ ckpt_content = [c \in Places |-> Nowhere]
    /\ free_pages = Places
    /\ pending_free_pages = {}
    /\ change_info = NoChanges /\ change_info_inprog = NoChanges
    /\ mutex = [m \in Mutexes |-> Nobody]
    /\ readers = {}
    /\ open = Procs /\ writable = [q \in Procs |-> {}]
    /\ pc = [t \in Threads |-> "idle"]
    /\ at = [t \in Threads |-> 0] /\ got = [t \in Threads |-> 0]
    /\ ckpt = [pc |-> "idle", entry |-> 1, place |-> 0]
    /\ stores = 0 /\ checkpoints = 0
    /\ snapshot = region
    /\ saved = page_locs
    /\ untracked = {}

-----------------------------------------------------------------------------
\* Places in the file

\* How far place c is from page p, for comparison; of two at one distance the
\* lower one counts as nearer.
Distance(p, c) == IF c < p THEN 2 * (p - c) ELSE 2 * (c - p) + 1
NearestFree(p) ==
    CHOOSE c \in free_pages : \A d \in free_pages : Distance(p, c) <= Distance(p, d)

Vacated(p) == {page_locs[p]} \ {Nowhere}

FreeWithout(c) == free_pages \ {c}

\* checkpoint_info::allocate: page p moves to place c, and the place that it
\* had is free once the checkpoint is complete.
Allocate(p, c) ==
    /\ c = NearestFree(p)
    /\ pending_free_pages' = pending_free_pages \cup Vacated(p)
    /\ ckpt_content' = [d \in Places |-> IF d = c THEN p
                                         ELSE IF d = page_locs[p] THEN Nowhere
                                         ELSE ckpt_content[d]]
    /\ page_locs' = [page_locs EXCEPT ![p] = c]
    /\ free_pages' = FreeWithout(c)

CompleteCheckpoint ==
    /\ free_pages' = free_pages \cup pending_free_pages
    /\ pending_free_pages' = {}
    /\ UNCHANGED <<page_locs, ckpt_content>>

-----------------------------------------------------------------------------
\* Threads in transactions, and the handler of their page faults

Goto(t, point) == pc' = [pc EXCEPT ![t] = point]

BeginTxn(t) ==
    /\ pc[t] = "idle" /\ Home[t] \in open
    /\ readers' = readers \cup {t}
    /\ Goto(t, "txn")
    /\ UNCHANGED <<region, file, places, infos, mutex, maps, at, got, ckpt, stores,
                   history, untracked>>

EndTxn(t) ==
    /\ pc[t] = "txn"
    /\ readers' = readers \ {t}
    /\ Goto(t, "idle")
    /\ UNCHANGED <<region, file, places, infos, mutex, maps, at, got, ckpt, stores,
                   history, untracked>>

\* A store to page p: at its first attempt, or again after a fault.
Attempts(t, p) == (pc[t] = "txn" /\ stores < MaxStores) \/ (pc[t] = "retry" /\ at[t] = p)

Store(t, p) ==
    /\ Attempts(t, p)
    /\ p \in writable[Home[t]]
    /\ region' = [region EXCEPT ![p] = @ + 1]
    /\ stores' = IF pc[t] = "txn" THEN stores + 1 ELSE stores
    /\ untracked' = IF p \in change_info.bits THEN untracked ELSE untracked \cup {p}
    /\ Goto(t, "txn")
    /\ UNCHANGED <<file, places, infos, mutex, readers, maps, at, got, ckpt, history>>

Fault(t, p) ==
    /\ Attempts(t, p)
    /\ p \notin writable[Home[t]]
    /\ at' = [at EXCEPT ![t] = p]
    /\ stores' = IF pc[t] = "txn" THEN stores + 1 ELSE stores
    /\ Goto(t, "fault")
    /\ UNCHANGED <<region, file, places, infos, mutex, readers, maps, got, ckpt,
                   history, untracked>>

\* The look at the checkpoint in progress without a lock.
HandlerLooks(t) ==
    /\ pc[t] = "fault"
    /\ Goto(t, IF at[t] \in change_info_inprog.bits THEN "lock" ELSE "note")
    /\ UNCHANGED <<region, file, places, infos, mutex, readers, maps, at, got, ckpt,
                   stores, history, untracked>>

Needed_NotCheckedAgain(t) == TRUE
Needed(t) == at[t] \in change_info_inprog.bits
HandlerLocks(t) ==
    LET p == at[t]
    IN /\ pc[t] = "lock"
       /\ mutex[MutexOf(p)] = Nobody
       /\ \/ /\ Needed(t)
             /\ mutex' = [mutex EXCEPT ![MutexOf(p)] = t]
             /\ \E c \in Places : Allocate(p, c) /\ got' = [got EXCEPT ![t] = c]
             /\ Goto(t, "copy")
          \/ ~Needed(t) /\ Goto(t, "note") /\ UNCHANGED <<mutex, places, got>>
       /\ UNCHANGED <<region, file, infos, readers, maps, at, ckpt, stores, history,
                      untracked>>

HandlerCopies(t) ==
    /\ pc[t] = "copy"
    /\ file' = [file EXCEPT ![got[t]] = region[at[t]]]
    /\ Goto(t, "clear")
    /\ UNCHANGED <<region, places, infos, mutex, readers, maps, at, got, ckpt, stores,
                   history, untracked>>

HandlerClears(t) ==
    /\ pc[t] = "clear"
    /\ change_info_inprog' = [change_info_inprog EXCEPT !.bits = @ \ {at[t]},
                                                        !.demanded = @ + 1]
    /\ mutex' = [mutex EXCEPT ![MutexOf(at[t])] = Nobody]
    /\ Goto(t, "note")
    /\ UNCHANGED <<region, file, places, change_info, readers, maps, at, got, ckpt,
                   stores, history, untracked>>

Noted(info, p) ==
    IF p \in info.bits THEN info
    ELSE [info EXCEPT !.bits = @ \cup {p}, !.pages = Append(@, p)]

HandlerNotes(t) ==
    /\ pc[t] = "note"
    /\ change_info' = Noted(change_info, at[t])
    /\ Goto(t, "unprotect")
    /\ UNCHANGED <<region, file, places, change_info_inprog, mutex, readers, maps, at,
                   got, ckpt, stores, history, untracked>>

HandlerUnprotects(t) ==
    /\ pc[t] = "unprotect"
    /\ writable' = [writable EXCEPT ![Home[t]] = @ \cup {at[t]}]
    /\ Goto(t, "retry")
    /\ UNCHANGED <<region, file, places, infos, mutex, readers, open, at, got, ckpt,
                   stores, history, untracked>>

-----------------------------------------------------------------------------
\* checkpoint()

\* With transaction_lock held exclusively: no transaction is running.  Only the
\* mapping of the calling process is protected again.
MayStart_AmongTransactions == TRUE
MayStart == readers = {}
CkptStart(q) ==
    /\ ckpt.pc = "idle" /\ q \in open
    /\ checkpoints < MaxCheckpoints
    /\ MayStart
    /\ change_info' = change_info_inprog
    /\ change_info_inprog' = change_info
    /\ writable' = [writable EXCEPT ![q] = {}]
    /\ ckpt' = [pc |-> "next", entry |-> 1, place |-> 0]
    /\ checkpoints' = checkpoints + 1
    /\ snapshot' = region
    /\ UNCHANGED <<region, file, places, mutex, readers, open, threads, stores, saved,
                   untracked>>

Entry == change_info_inprog.pages[ckpt.entry]
MoreEntries == ckpt.entry <= Len(change_info_inprog.pages)

CkptPage ==
    /\ ckpt.pc = "next" /\ MoreEntries
    /\ mutex[MutexOf(Entry)] = Nobody
    /\ \/ /\ Entry \in change_info_inprog.bits
          /\ mutex' = [mutex EXCEPT ![MutexOf(Entry)] = "checkpoint"]
          /\ \E c \in Places :
                Allocate(Entry, c) /\ ckpt' = [ckpt EXCEPT !.pc = "copy", !.place = c]
       \/ /\ Entry \notin change_info_inprog.bits
          /\ ckpt' = [ckpt EXCEPT !.entry = @ + 1]
          /\ UNCHANGED <<mutex, places>>
    /\ UNCHANGED <<region, file, infos, readers, maps, threads, stores, history, untracked>>

CkptCopy ==
    /\ ckpt.pc = "copy"
    /\ file' = [file EXCEPT ![ckpt.place] = region[Entry]]
    /\ ckpt' = [ckpt EXCEPT !.pc = "clear"]
    /\ UNCHANGED <<region, places, infos, mutex, readers, maps, threads, stores, history,
                   untracked>>

CkptClear ==
    /\ ckpt.pc = "clear"
    /\ change_info_inprog' = [change_info_inprog EXCEPT !.bits = @ \ {Entry},
                                                        !.written = @ + 1]
    /\ mutex' = [mutex EXCEPT ![MutexOf(Entry)] = Nobody]
    /\ ckpt' = [ckpt EXCEPT !.pc = "next", !.entry = @ + 1]
    /\ UNCHANGED <<region, file, places, change_info, readers, maps, threads, stores,
                   history, untracked>>

CkptComplete ==
    /\ ckpt.pc = "next" /\ ~MoreEntries
    /\ CompleteCheckpoint
    /\ change_info_inprog' = [change_info_inprog EXCEPT !.pages = <<>>, !.written = 0,
                                                        !.demanded = 0]
    /\ ckpt' = [pc |-> "idle", entry |-> 1, place |-> 0]
    /\ saved' = page_locs
    /\ UNCHANGED <<region, file, change_info, mutex, readers, maps, threads, stores,
                   checkpoints, snapshot, untracked>>

-----------------------------------------------------------------------------
\* The destructor and the constructor of the manager in a process without
\* transactions; a process does not close during a checkpoint.

Close(q) ==
    /\ q \in open
    /\ ckpt.pc = "idle"
    /\ \A t \in Threads : Home[t] = q => pc[t] = "idle"
    /\ open' = open \ {q}
    /\ UNCHANGED <<region, file, places, infos, mutex, readers, writable, threads, ckpt,
                   stores, history, untracked>>

Open(q) ==
    /\ q \notin open
    /\ open' = open \cup {q}
    /\ writable' = [writable EXCEPT ![q] = {}]
    /\ UNCHANGED <<region, file, places, infos, mutex, readers, threads, ckpt, stores,
                   history, untracked>>

Handler(t) ==
    HandlerLooks(t) \/ HandlerLocks(t) \/ HandlerCopies(t) \/ HandlerClears(t)
    \/ HandlerNotes(t) \/ HandlerUnprotects(t)
Checkpoint == CkptPage \/ CkptCopy \/ CkptClear \/ CkptComplete

Next ==
    \/ \E t \in Threads :
        \/ BeginTxn(t) \/ EndTxn(t) \/ Handler(t)
        \/ \E p \in Pages : Store(t, p) \/ Fault(t, p)
    \/ \E q \in Procs : CkptStart(q) \/ Close(q) \/ Open(q)
    \/ Checkpoint

Spec == Init /\ [][Next]_vars

\* Neither a signal handler nor checkpoint() stops in the middle.
FairSpec == Spec /\ WF_vars(Checkpoint) /\ \A t \in Threads : WF_vars(Handler(t))

-----------------------------------------------------------------------------
\* Properties

Infos == [bits : SUBSET Pages, pages : Seq(Pages), written : Nat, demanded : Nat]
Somewhere == Places \cup {Nowhere}

\* Every variable has its type.
ContentTypes ==
    /\ region \in [Pages -> Nat] /\ snapshot \in [Pages -> Nat]
    /\ file \in [Places -> Nat]
    /\ saved \in [Pages -> Somewhere]
    /\ stores \in Nat /\ checkpoints \in Nat /\ untracked \in SUBSET Pages
PlaceTypes ==
    /\ page_locs \in [Pages -> Somewhere]
    /\ ckpt_content \in [Places -> Pages \cup {Nowhere}]
    /\ free_pages \in SUBSET Places /\ pending_free_pages \in SUBSET Places
InfoTypes ==
    /\ change_info \in Infos /\ change_info_inprog \in Infos
    /\ mutex \in [Mutexes -> Threads \cup {Nobody, "checkpoint"}]
ThreadTypes ==
    /\ readers \in SUBSET Threads
    /\ open \in SUBSET Procs /\ writable \in [Procs -> SUBSET Pages]
    /\ pc \in [Threads -> {"idle", "txn", "fault", "lock", "copy", "clear", "note",
                           "unprotect", "retry"}]
    /\ at \in [Threads -> Pages] /\ got \in [Threads -> Places]
    /\ ckpt \in [pc : {"idle", "next", "copy", "clear"}, entry : Nat \ {0}, place : Places]
TypeOK == ContentTypes /\ PlaceTypes /\ InfoTypes /\ ThreadTypes

Placed == {p \in Pages : page_locs[p] # Nowhere}

\* Each place of the file is in one use: it is free, it holds a page, or it
\* holds what the last complete checkpoint needs until this one is complete.
\* page_locs and ckpt_content are each other's inverses.
PlacesInOneUse ==
    /\ free_pages \cap pending_free_pages = {}
    /\ \A p \in Placed : /\ page_locs[p] \notin free_pages \cup pending_free_pages
                         /\ ckpt_content[page_locs[p]] = p
    /\ \A c \in Places : ckpt_content[c] # Nowhere => page_locs[ckpt_content[c]] = c

\* The pages whose copy is being made: they have their places, and are still
\* marked as needed.
BeingCopied ==
    {at[t] : t \in {u \in Threads : pc[u] \in {"copy", "clear"}}}
        \cup (IF ckpt.pc \in {"copy", "clear"} THEN {Entry} ELSE {})

\* allocate() always finds a free page: there are as many as there are pages
\* left to copy, and between checkpoints as many as the region has pages.
EnoughFreePages ==
    /\ Cardinality(free_pages) >= Cardinality(change_info_inprog.bits \ BeingCopied)
    /\ ckpt.pc = "idle" => Cardinality(free_pages) >= N

\* The two BOOST_VERIFYs of checkpoint(): nothing is left of the last checkpoint
\* when one starts, and each page was copied once, here or by the handler.
VerifiesHold ==
    /\ ckpt.pc = "idle" => change_info_inprog = NoChanges
    /\ ckpt.pc = "next" /\ ~MoreEntries =>
          Len(change_info_inprog.pages)
              = change_info_inprog.written + change_info_inprog.demanded

\* What a loader gets of the last complete checkpoint: no place, no contents.
Loaded == [p \in Pages |-> IF saved[p] = Nowhere THEN 0 ELSE file[saved[p]]]

\* The checkpoint keeps the promise for all pages of which no store was missed.  (Of
\* several processes that map the region checkpoint() protects only the mapping of its
\* own: the stores of the others are not noted in change_info, which "indicates pages
\* modified since the last checkpoint began".)
Promise == INSTANCE SnapshotPromise
    WITH Contents <- Nat, First <- 0, checkpoint <- Loaded,
         running <- ckpt.pc # "idle", trusted <- Pages \ untracked
SnapshotKept == Promise!LiveSpec

\* The file has room for each page, in a place of its own, at all times, and the assertions
\* of checkpoint() hold.
CheckpointIsInOrder == TypeOK /\ PlacesInOneUse /\ EnoughFreePages /\ VerifiesHold

=============================================================================

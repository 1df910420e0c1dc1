------------------------------ MODULE Registry ------------------------------
(***************************************************************************)
(* The processes of one STLdb database and its shared region: the          *)
(* constructor that opens, creates or replaces the region, the registry of *)
(* processes inside the region with its file of each process, commits,     *)
(* check_integrity(), close(), remove_region() and deaths.                 *)
(*                                                                         *)
(* A region keeps its identity when its name is removed: processes that    *)
(* map it go on with it.  A file lock goes with the process that holds it; *)
(* the file stays.  A process id may be used again after a death.  What    *)
(* recovery reads is in Durability; here it succeeds or not.  This is the  *)
(* library on a POSIX system, where nothing waits for a region to empty.   *)
(*                                                                         *)
(* Beside a few operators X stands X_Name, the same with a plausible slip  *)
(* of the code.  Nothing uses those: put in the place of X each one breaks *)
(* the property that is there to catch it, as PROJECT.json records.        *)
(***************************************************************************)
EXTENDS Naturals, FiniteSets

CONSTANTS
    Procs,         \* process ids
    Removers,      \* those that may call remove_region()
    MaxRegions,    \* bound: regions made; an opening begins only when two are left
    MaxOpens,      \* bound: openings of the database
    MaxDeaths,     \* bound: processes that die
    MaxWrites,     \* bound: commits written to the log
    Nobody

ASSUME RemoversAssumption == Removers \subseteq Procs
ASSUME BoundsAssumption ==
    /\ MaxRegions \in Nat /\ MaxOpens \in Nat /\ MaxDeaths \in Nat /\ MaxWrites \in Nat
ASSUME NobodyAssumption == Nobody \notin Procs

Regions == 1 .. MaxRegions

VARIABLES
    named,         \* the region under the database's name, or 0
    made,          \* how many regions have been made
    registry,      \* of each region: constructed, its pids, complete, invalid
    pid_file,      \* each process's .pid file: "none", "free" or "locked"
    flock,         \* the process that holds the .lock file
    reglock,       \* the process that holds the .reglock file
    pc,
    region,        \* the region each process maps, or 0
    creating,      \* creating_region
    openings, deaths, writes,
    \* bookkeeping for the properties
    tainted,       \* regions that a process has died in
    sawTaint,      \* processes whose look at the registry missed such a death
    untold,        \* regions given up although their registry is not marked
    overlooked     \* regions with a dead process whose file another's check removed

files == <<pid_file, flock, reglock>>
process == <<pc, region, creating>>
counters == <<openings, deaths, writes>>
history == <<tainted, sawTaint, untold, overlooked>>
vars == <<named, made, registry, files, process, counters, history>>

Blank == [constructed |-> FALSE, pids |-> {}, complete |-> FALSE, invalid |-> FALSE]

Init ==
    /\ named = 0 /\ made = 0
    /\ registry = [r \in Regions |-> Blank]
    /\ pid_file = [p \in Procs |-> "none"]
    /\ flock = Nobody /\ reglock = Nobody
    /\ pc = [p \in Procs |-> "out"]
    /\ region = [p \in Procs |-> 0]
    /\ creating = [p \in Procs |-> FALSE]
    /\ openings = 0 /\ deaths = 0 /\ writes = 0
    /\ tainted = {} /\ sawTaint = {} /\ untold = {} /\ overlooked = {}

Goto(p, point) == pc' = [pc EXCEPT ![p] = point]
Registry(p) == registry[region[p]]
Valid(r) == ~registry[r].constructed \/ ~registry[r].invalid
Usable(r) == registry[r].complete /\ Valid(r)

-----------------------------------------------------------------------------
\* File locks, of fcntl()

RegistryIsFree == reglock = Nobody
DropRegistry == reglock' = Nobody
LockPidFile(p) == pid_file' = [pid_file EXCEPT ![p] = "locked"]
\* A try to lock the file of q: nobody has it, or there is no file.
CanLock(q) == pid_file[q] # "locked"
Released(lock, p) == IF lock = p THEN Nobody ELSE lock

-----------------------------------------------------------------------------
\* The check of the registry

\* CheckLock: another process that does not hold the lock of its file, or
\* whose file is missing, is dead; only the file shows a death that matters.
Gone(p, r) == {q \in registry[r].pids \ {p} : CanLock(q)}
Improper(p, r) == {q \in Gone(p, r) : pid_file[q] = "free"}

NeedsRecovery(p, r) ==
    \/ ~registry[r].constructed
    \/ Gone(p, r) # {}
    \/ registry[r].invalid
    \/ ~registry[r].complete

\* What check_need_for_recovery() leaves in the registry, and of the files.  A process has
\* one file, however many regions it is registered in.
Checked(p, r) ==
    [registry[r] EXCEPT !.pids = @ \ Gone(p, r),
                        !.invalid = @ \/ Improper(p, r) # {}]
Check(p, r) ==
    IF ~registry[r].constructed
    THEN UNCHANGED <<registry, pid_file, overlooked>>
    ELSE /\ registry' = [registry EXCEPT ![r] = Checked(p, r)]
         /\ pid_file' = [q \in Procs |-> IF q \in Improper(p, r) THEN "none" ELSE pid_file[q]]
         /\ overlooked' = overlooked \cup
                {s \in Regions \ {r} : Improper(p, r) \cap registry[s].pids # {}}

-----------------------------------------------------------------------------
\* The constructor

MayOpen(p) == pc[p] = "out" /\ openings < MaxOpens /\ flock = Nobody

\* A region is made under the name if there is none.
Begin(p) ==
    /\ MayOpen(p) /\ made + 2 <= MaxRegions
    /\ flock' = p
    /\ openings' = openings + 1
    /\ IF named = 0
       THEN made' = made + 1 /\ named' = made'
       ELSE UNCHANGED <<made, named>>
    /\ region' = [region EXCEPT ![p] = named']
    /\ creating' = [creating EXCEPT ![p] = FALSE]
    /\ Goto(p, "look")
    /\ UNCHANGED <<registry, pid_file, reglock, deaths, writes, history>>

\* No registry: the region is new, or its creator died before it made one.
FindNoRegistry(p) ==
    /\ pc[p] = "look" /\ ~Registry(p).constructed
    /\ creating' = [creating EXCEPT ![p] = TRUE]
    /\ Goto(p, "construct")
    /\ UNCHANGED <<named, made, registry, files, region, counters, history>>

Look(p) ==
    /\ pc[p] = "look" /\ Registry(p).constructed /\ RegistryIsFree
    /\ Check(p, region[p])
    /\ IF NeedsRecovery(p, region[p])
       THEN /\ Goto(p, "remove")
            /\ untold' = IF registry'[region[p]].invalid THEN untold ELSE untold \cup {region[p]}
            /\ UNCHANGED sawTaint
       ELSE /\ Goto(p, "register")
            /\ sawTaint' = IF region[p] \in tainted THEN sawTaint \cup {p} ELSE sawTaint
            /\ UNCHANGED untold
    /\ UNCHANGED <<named, made, flock, reglock, region, creating, counters, tainted>>

\* RegionRemover::remove(); its errors are ignored.
Remove(p) ==
    /\ pc[p] = "remove"
    /\ named' = 0
    /\ region' = [region EXCEPT ![p] = 0]
    /\ Goto(p, "create")
    /\ UNCHANGED <<made, registry, files, creating, counters, history>>

Create(p) ==
    /\ pc[p] = "create" /\ made < MaxRegions
    /\ made' = made + 1
    /\ named' = made'
    /\ region' = [region EXCEPT ![p] = made']
    /\ creating' = [creating EXCEPT ![p] = TRUE]
    /\ Goto(p, "construct")
    /\ UNCHANGED <<registry, files, counters, history>>

Construct(p) ==
    /\ pc[p] = "construct"
    /\ registry' = [registry EXCEPT ![region[p]].constructed = TRUE]
    /\ Goto(p, "register")
    /\ UNCHANGED <<named, made, files, region, creating, counters, history>>

\* register_pid(): the process enters its id, then makes and locks its file.
\* It has the registry's file from here to the end of Lock.
Register(p) ==
    /\ pc[p] = "register" /\ RegistryIsFree
    /\ p \notin Registry(p).pids
    /\ reglock' = p
    /\ registry' = [registry EXCEPT ![region[p]].pids = @ \cup {p}]
    /\ Goto(p, "lock")
    /\ UNCHANGED <<named, made, pid_file, flock, region, creating, counters, history>>

\* Its id is there: the constructor throws.
AlreadyRegistered(p) ==
    /\ pc[p] = "register" /\ RegistryIsFree
    /\ p \in Registry(p).pids
    /\ flock' = Nobody
    /\ region' = [region EXCEPT ![p] = 0]
    /\ Goto(p, "out")
    /\ sawTaint' = sawTaint \ {p}
    /\ UNCHANGED <<named, made, registry, pid_file, reglock, creating, counters,
                   tainted, untold, overlooked>>

Lock_KeepRegistry(p) ==
    /\ pc[p] = "lock"
    /\ LockPidFile(p)
    /\ Goto(p, "fill")
    /\ UNCHANGED <<named, made, registry, flock, reglock, region, creating, counters, history>>
Lock(p) ==
    /\ pc[p] = "lock"
    /\ LockPidFile(p)
    /\ DropRegistry
    /\ Goto(p, "fill")
    /\ UNCHANGED <<named, made, registry, flock, region, creating, counters, history>>

\* A region that was there has its containers; the constructor returns.
Attach(p) ==
    /\ pc[p] = "fill" /\ ~creating[p]
    /\ flock' = Nobody
    /\ Goto(p, "open")
    /\ UNCHANGED <<named, made, registry, pid_file, reglock, region, creating, counters,
                   history>>

\* load_containers() and recover() have reached every LSN needed.
Recover(p) ==
    /\ pc[p] = "fill" /\ creating[p] /\ RegistryIsFree
    /\ registry' = [registry EXCEPT ![region[p]].complete = TRUE]
    /\ flock' = Nobody
    /\ Goto(p, "open")
    /\ UNCHANGED <<named, made, pid_file, reglock, region, creating, counters,
                   history>>

\* They have not: the region is marked, without the registry's file, and the
\* constructor throws.  The process stays registered and its file locked.
FailToRecover(p) ==
    /\ pc[p] = "fill" /\ creating[p]
    /\ registry' = [registry EXCEPT ![region[p]].invalid = TRUE]
    /\ flock' = Nobody
    /\ Goto(p, "stuck")
    /\ UNCHANGED <<named, made, pid_file, reglock, region, creating, counters,
                   history>>

-----------------------------------------------------------------------------
\* An open database

\* safety_check() at the start of a commit lets it through.
BeginCommit(p) ==
    /\ pc[p] = "open" /\ writes < MaxWrites /\ Valid(region[p])
    /\ Goto(p, "commit")
    /\ UNCHANGED <<named, made, registry, files, region, creating, counters, history>>

\* The log's files are the database's, whatever region the process maps.
WriteLog(p) ==
    /\ pc[p] = "commit" /\ writes < MaxWrites
    /\ writes' = writes + 1
    /\ Goto(p, "open")
    /\ UNCHANGED <<named, made, registry, files, region, creating, openings, deaths, history>>

\* A mark already there answers at once.
CheckIntegrity(p) ==
    /\ pc[p] = "open" /\ RegistryIsFree /\ Valid(region[p])
    /\ Check(p, region[p])
    /\ untold' = IF NeedsRecovery(p, region[p]) /\ ~registry'[region[p]].invalid
                 THEN untold \cup {region[p]} ELSE untold
    /\ UNCHANGED <<named, made, flock, reglock, process, counters, tainted, sawTaint>>

\* close(): the last process of a valid region checkpoints first, without
\* the registry's file.
CloseLast(p) ==
    /\ pc[p] = "open" /\ RegistryIsFree
    /\ Valid(region[p]) /\ Registry(p).pids = {p}
    /\ Goto(p, "checkpoint")
    /\ UNCHANGED <<named, made, registry, files, region, creating, counters, history>>

\* unregister_pid().  Its crashes are those of before or after: the entry
\* goes first, and a process without one is not looked for.
Unregister(p) ==
    /\ pc[p] \in {"open", "checkpoint"} /\ RegistryIsFree
    /\ registry' = [registry EXCEPT ![region[p]].pids = @ \ {p}]
    /\ pid_file' = [pid_file EXCEPT ![p] = "none"]
    /\ region' = [region EXCEPT ![p] = 0]
    /\ Goto(p, "out")
    /\ sawTaint' = sawTaint \ {p}
    /\ UNCHANGED <<named, made, flock, reglock, creating, counters, tainted, untold,
                   overlooked>>

-----------------------------------------------------------------------------
\* remove_region() locks another file than the constructor does (.flock), so
\* it may run at any moment of it.

BeginRemoval(p) ==
    /\ pc[p] = "out" /\ p \in Removers
    /\ named # 0
    /\ region' = [region EXCEPT ![p] = named]
    /\ Goto(p, "mark")
    /\ UNCHANGED <<named, made, registry, files, creating, counters, history>>

\* A region without a registry is removed as it is.
Mark_Nothing(p) ==
    /\ pc[p] = "mark" /\ RegistryIsFree
    /\ Goto(p, "unlink")
    /\ UNCHANGED <<named, made, registry, files, region, creating, counters, history>>
Mark(p) ==
    /\ pc[p] = "mark"
    /\ Registry(p).constructed => RegistryIsFree
    /\ registry' = IF Registry(p).constructed
                   THEN [registry EXCEPT ![region[p]].invalid = TRUE] ELSE registry
    /\ untold' = IF Registry(p).constructed THEN untold ELSE untold \cup {region[p]}
    /\ Goto(p, "unlink")
    /\ UNCHANGED <<named, made, files, region, creating, counters, tainted, sawTaint,
                   overlooked>>

\* The name goes, whichever region has it by now.
Unlink(p) ==
    /\ pc[p] = "unlink"
    /\ named' = 0
    /\ untold' = IF named \notin {0, region[p]} /\ ~registry[named].invalid
                 THEN untold \cup {named} ELSE untold
    /\ region' = [region EXCEPT ![p] = 0]
    /\ Goto(p, "out")
    /\ UNCHANGED <<made, registry, files, creating, counters, tainted, sawTaint,
                   overlooked>>

-----------------------------------------------------------------------------
\* Deaths, and processes that get the id of a dead one

\* A process that has only entered its id has changed nothing else.
Harmful(p) == pc[p] \in {"fill", "open", "commit", "checkpoint", "stuck"}

Die(p) ==
    /\ pc[p] # "out" /\ deaths < MaxDeaths
    /\ deaths' = deaths + 1
    /\ pid_file' = [pid_file EXCEPT ![p] = IF @ = "locked" THEN "free" ELSE @]
    /\ flock' = Released(flock, p)
    /\ reglock' = Released(reglock, p)
    /\ tainted' = IF Harmful(p) THEN tainted \cup {region[p]} ELSE tainted
    /\ region' = [region EXCEPT ![p] = 0]
    /\ Goto(p, "out")
    /\ sawTaint' = sawTaint \ {p}
    /\ UNCHANGED <<named, made, registry, creating, openings, writes, untold,
                   overlooked>>

Opening(p) ==
    \/ FindNoRegistry(p) \/ Look(p) \/ Remove(p) \/ Create(p) \/ Construct(p)
    \/ Register(p) \/ AlreadyRegistered(p) \/ Lock(p) \/ Attach(p) \/ Recover(p)
    \/ FailToRecover(p)
Using(p) ==
    BeginCommit(p) \/ WriteLog(p) \/ CheckIntegrity(p) \/ CloseLast(p) \/ Unregister(p)
Removing(p) == BeginRemoval(p) \/ Mark(p) \/ Unlink(p)

Step(p) == Begin(p) \/ Opening(p) \/ Using(p) \/ Removing(p) \/ Die(p)

Next == \E p \in Procs : Step(p)
Spec == Init /\ [][Next]_vars

\* A constructor, a commit and a removal that have begun go on.
Fairness == \A p \in Procs :
    /\ WF_vars(Opening(p)) /\ WF_vars(WriteLog(p)) /\ WF_vars(Mark(p)) /\ WF_vars(Unlink(p))
FairSpec == Spec /\ Fairness

-----------------------------------------------------------------------------
\* Properties

Inside(p) == pc[p] \in {"look", "remove", "create", "construct", "register", "lock", "fill"}

\* Types; the holder of the database's file is the one constructor that runs.
TypeOK ==
    /\ \A p \in Procs : Inside(p) <=> flock = p
    /\ named \in 0 .. made /\ made \in 0 .. MaxRegions
    /\ registry \in [Regions -> [constructed : BOOLEAN, pids : SUBSET Procs,
                                 complete : BOOLEAN, invalid : BOOLEAN]]
    /\ pid_file \in [Procs -> {"none", "free", "locked"}]
    /\ {flock, reglock} \subseteq Procs \cup {Nobody}
    /\ region \in [Procs -> 0 .. MaxRegions]
    /\ pc \in [Procs -> {"out", "look", "remove", "create", "construct", "register", "lock",
                         "fill", "open", "commit", "checkpoint", "stuck", "mark", "unlink"}]
    /\ tainted \subseteq Regions /\ untold \subseteq Regions /\ sawTaint \subseteq Procs
    /\ overlooked \subseteq Regions

\* A process never gets into a region that another has died in with work in
\* progress and that it may write to, unless the other died after the look at
\* the registry: the death is found, or whoever found it has left a mark, or
\* the dead process had the newcomer's id, and is still registered or marked.  Left out
\* are regions in which a process died that was registered in another region as well (one
\* removed while it was in use, say): a check of that region takes away the file, and with
\* the file missing CheckLock drops the dead process from this one without a mark.
JoinedClean ==
    \A p \in Procs :
        Harmful(p) /\ p \in sawTaint => ~Valid(region[p]) \/ region[p] \in overlooked

\* Two processes never work on two regions of the database that both pass
\* safety_check(), unless one of the regions was given up without a mark: for a
\* death between register_pid()'s entry and its file, or removed while it was
\* being opened.
Working(r) == Usable(r) /\ \E p \in Procs : region[p] = r /\ pc[p] \in {"open", "commit"}
OneUsableRegion ==
    \A r, s \in Regions : r # s /\ Working(r) /\ Working(s) => {r, s} \cap untold # {}

\* Every constructor comes to an end.
OpeningEnds == \A p \in Procs : Inside(p) ~> ~Inside(p)

\* Opening a database never ends in a region that a death has spoilt, nor beside another
\* one in use.  (That "no further transactional writes ... by processes connected to that
\* region will occur", as docs/database.html:39-42 promises, does not follow: a commit that
\* has passed safety_check() writes to the log after the recovery.)
RegionsAreSound == TypeOK /\ JoinedClean /\ OneUsableRegion

=============================================================================

--------------------------- MODULE RegistryProofs ---------------------------
(***************************************************************************)
(* Theorems about Registry, for any number of processes, regions,          *)
(* openings, deaths and removals: what a process that opens the database   *)
(* can rely on.                                                            *)
(***************************************************************************)
EXTENDS Registry, TLAPS

-----------------------------------------------------------------------------
\* The inductive invariant

\* Those who map a region map one that has been made.  Who runs the constructor works on
\* the region that has the name, if any has it: the file lock keeps away all that could
\* give the name to another.
Mapped ==
    /\ \A p \in Procs : region[p] \in 0 .. made
    /\ \A p \in Procs : pc[p] \notin {"out", "create"} => region[p] # 0
    /\ \A p \in Procs : pc[p] = "create" => region[p] = 0
    /\ \A p \in Procs : Inside(p) => named \in {0, region[p]}

\* A registry is there before anything is entered in it.
Constructed ==
    /\ \A r \in Regions : registry[r].complete => registry[r].constructed
    /\ \A p \in Procs : Harmful(p) \/ pc[p] \in {"register", "lock"} => Registry(p).constructed

\* A region that does not have the name any more was marked, or is among those
\* known to be given up without a mark.
GivenUp(r) == registry[r].invalid \/ r \in untold
NamelessIsGivenUp ==
    /\ \A r \in 1 .. made : r # named => GivenUp(r)
    /\ \A p \in Procs : pc[p] \in {"remove", "unlink"} => GivenUp(region[p])

\* Whoever could do harm by dying is registered, and holds the lock of its file.  Nobody
\* looks at the registry while an id is in it whose file is not locked yet.
Registered ==
    /\ \A p \in Procs : pc[p] = "lock" => reglock = p
    /\ \A p \in Procs : pc[p] = "lock" \/ Harmful(p) => p \in Registry(p).pids
    /\ \A p \in Procs : Harmful(p) => pid_file[p] = "locked"

\* Of a region that somebody may still come to know by its name: a death in it shows by the
\* unlocked file of a registered process, which is not one that is about to lock it.
Enterable(r) == r = named \/ \E p \in Procs : Inside(p) /\ region[p] = r
Witness(q, r) ==
    q \in registry[r].pids /\ pid_file[q] = "free" /\ ~(pc[q] = "lock" /\ region[q] = r)
DeathsShow ==
    /\ tainted \subseteq 1 .. made
    /\ \A r \in tainted :
          Enterable(r) => \/ registry[r].invalid \/ r \in overlooked
                          \/ \E q \in Procs : Witness(q, r)

\* A look that missed a death is that of a process with the id of the dead one, and
\* register_pid() finds the id in the registry.
MissedByItself ==
    \A p \in sawTaint :
        /\ Harmful(p) \/ pc[p] \in {"register", "lock"}
        /\ \/ Registry(p).invalid \/ region[p] \in overlooked
           \/ pc[p] = "register" /\ p \in Registry(p).pids /\ pid_file[p] = "free"

Opened ==
    TypeOK /\ Mapped /\ Constructed /\ NamelessIsGivenUp /\ Registered /\ DeathsShow
        /\ MissedByItself

-----------------------------------------------------------------------------
\* Lemmas about the operators of the model

\* What a check of the registry of region r by p may change.
CheckedOnly(p, r) ==
    /\ registry' \in [Regions -> [constructed : BOOLEAN, pids : SUBSET Procs,
                                  complete : BOOLEAN, invalid : BOOLEAN]]
    /\ pid_file' \in [Procs -> {"none", "free", "locked"}]
    /\ overlooked' \subseteq Regions /\ overlooked \subseteq overlooked'
    /\ \A s \in Regions \ {r} : registry'[s] = registry[s]
    /\ registry'[r].constructed = registry[r].constructed
    /\ registry'[r].complete = registry[r].complete
    /\ registry'[r].pids \subseteq registry[r].pids
    /\ registry[r].invalid => registry'[r].invalid
    /\ \A q \in registry[r].pids :
          q = p \/ pid_file[q] = "locked" => q \in registry'[r].pids
    /\ \A q \in Procs : q = p \/ pid_file[q] = "locked" => pid_file'[q] = pid_file[q]

\* A check of a registry enters nobody in it and unmarks nothing; it is about that one
\* region, and takes away files of dead processes only.
LEMMA CheckTypes ==
    ASSUME TypeOK, NEW p \in Procs, NEW r \in Regions, Check(p, r)
    PROVE  CheckedOnly(p, r)
<1>1. CASE ~registry[r].constructed
  BY <1>1 DEF Check, TypeOK, CheckedOnly
<1>2. CASE registry[r].constructed
  <2>1. /\ registry' = [registry EXCEPT ![r] = Checked(p, r)]
        /\ pid_file' = [q \in Procs |-> IF q \in Improper(p, r) THEN "none" ELSE pid_file[q]]
        /\ overlooked' = overlooked \cup
               {s \in Regions \ {r} : Improper(p, r) \cap registry[s].pids # {}}
    BY <1>2 DEF Check
  <2>2. registry[r] \in [constructed : BOOLEAN, pids : SUBSET Procs,
                         complete : BOOLEAN, invalid : BOOLEAN]
    BY DEF TypeOK
  <2>3. /\ Gone(p, r) \subseteq registry[r].pids \ {p}
        /\ \A q \in Gone(p, r) : pid_file[q] # "locked"
        /\ Improper(p, r) \subseteq Gone(p, r)
    BY DEF Gone, Improper, CanLock
  <2>4. /\ Checked(p, r) \in [constructed : BOOLEAN, pids : SUBSET Procs,
                               complete : BOOLEAN, invalid : BOOLEAN]
        /\ Checked(p, r).constructed = registry[r].constructed
        /\ Checked(p, r).complete = registry[r].complete
        /\ Checked(p, r).pids = registry[r].pids \ Gone(p, r)
        /\ registry[r].invalid => Checked(p, r).invalid
    BY <2>2 DEF Checked
  <2> HIDE DEF Checked, Gone, Improper
  <2> QED
    BY <2>1, <2>2, <2>3, <2>4 DEF TypeOK, CheckedOnly
<1> QED
  BY <1>1, <1>2

Registries == [Regions -> [constructed : BOOLEAN, pids : SUBSET Procs,
                           complete : BOOLEAN, invalid : BOOLEAN]]

\* Each way the code has to write into a registry leaves one.
LEMMA WrittenRegistries ==
    ASSUME registry \in Registries, NEW r \in Regions, NEW p \in Procs
    PROVE  /\ [registry EXCEPT ![r].constructed = TRUE] \in Registries
           /\ [registry EXCEPT ![r].complete = TRUE] \in Registries
           /\ [registry EXCEPT ![r].invalid = TRUE] \in Registries
           /\ [registry EXCEPT ![r].pids = @ \cup {p}] \in Registries
           /\ [registry EXCEPT ![r].pids = @ \ {p}] \in Registries
<1> DEFINE E == [constructed : BOOLEAN, pids : SUBSET Procs,
                 complete : BOOLEAN, invalid : BOOLEAN]
<1>1. registry[r] \in E
  BY DEF Registries
<1>2. /\ [registry[r] EXCEPT !.constructed = TRUE] \in E
      /\ [registry[r] EXCEPT !.complete = TRUE] \in E
      /\ [registry[r] EXCEPT !.invalid = TRUE] \in E
      /\ [registry[r] EXCEPT !.pids = @ \cup {p}] \in E
      /\ [registry[r] EXCEPT !.pids = @ \ {p}] \in E
  BY <1>1
<1> HIDE DEF E
<1> QED
  BY <1>2 DEF Registries, E

\* Both looks at the registry are checks of the region that is mapped.
LEMMA LooksAreChecks ==
    ASSUME TypeOK, Mapped, NEW p \in Procs, Look(p) \/ CheckIntegrity(p)
    PROVE  region[p] \in Regions /\ Check(p, region[p]) /\ CheckedOnly(p, region[p])
<1>1. region[p] \in Regions /\ Check(p, region[p])
  BY DEF Look, CheckIntegrity, Mapped, TypeOK, Regions
<1> QED
  BY <1>1, CheckTypes

-----------------------------------------------------------------------------
\* Every conjunct is kept

USE DEF Goto, Registry, Regions

\* The types, and the lock of the constructor: it is taken by Begin alone and goes with
\* every way out of the constructor.
LEMMA NextTypeOK ==
    ASSUME Opened, NEW p \in Procs, Step(p)
    PROVE  TypeOK'
<1> USE BoundsAssumption, NobodyAssumption
<1>0. TypeOK
  BY DEF Opened
<1>r. pc[p] \notin {"out", "create"} => region[p] \in Regions
  BY DEF Opened, Mapped, TypeOK
<1>1. CASE Begin(p)
  BY <1>0, <1>1 DEF Begin, MayOpen, TypeOK, Inside, history
<1>2. CASE FindNoRegistry(p)
  BY <1>0, <1>2 DEF FindNoRegistry, TypeOK, Inside, history, files
<1>3. CASE Look(p)
  <2>1. Check(p, region[p]) /\ region[p] \in Regions
    BY <1>3, <1>r DEF Look
  <2>2. CheckedOnly(p, region[p])
    BY <1>0, <2>1, CheckTypes
  <2>3. \A q \in Procs : (Inside(q) <=> flock = q)'
    BY <1>0, <1>3 DEF Look, TypeOK, Inside, counters
  <2>4. pc' = [pc EXCEPT ![p] = pc'[p]] /\ pc'[p] \in {"remove", "register"}
    BY <1>0, <1>3 DEF Look, TypeOK
  <2>5. untold' \subseteq Regions /\ sawTaint' \subseteq Procs
    BY <1>0, <1>3, <2>1, ZenonT(60) DEF Look, TypeOK
  <2>6. UNCHANGED <<named, made, flock, reglock, region, tainted>>
    BY <1>3 DEF Look
  <2> QED
    BY <1>0, <2>2, <2>3, <2>4, <2>5, <2>6 DEF CheckedOnly, TypeOK
<1>4. CASE Remove(p)
  BY <1>0, <1>4 DEF Remove, TypeOK, Inside, history, files
<1>5. CASE Create(p)
  BY <1>0, <1>5 DEF Create, TypeOK, Inside, history, files
<1>6. CASE Construct(p)
  BY <1>0, <1>6, <1>r, ZenonT(60) DEF Construct, TypeOK, Inside, history, files
<1>7. CASE Register(p)
  BY <1>0, <1>7, <1>r, ZenonT(60) DEF Register, TypeOK, Inside, history
<1>8. CASE AlreadyRegistered(p)
  BY <1>0, <1>8 DEF AlreadyRegistered, TypeOK, Inside
<1>9. CASE Lock(p)
  BY <1>0, <1>9 DEF Lock, LockPidFile, DropRegistry, TypeOK, Inside, history
<1>10. CASE Attach(p)
  BY <1>0, <1>10 DEF Attach, TypeOK, Inside, history
<1>11. CASE Recover(p)
  <2>1. \A q \in Procs : (Inside(q) <=> flock = q)'
    BY <1>0, <1>11 DEF Recover, TypeOK, Inside, history
  <2>2. registry' \in Registries
    BY <1>0, <1>11, <1>r, WrittenRegistries DEF Recover, TypeOK, Registries, history
  <2> QED
    BY <1>0, <1>11, <1>r, <2>1, <2>2 DEF Recover, TypeOK, Registries, history
<1>12. CASE FailToRecover(p)
  <2>1. \A q \in Procs : (Inside(q) <=> flock = q)'
    BY <1>0, <1>12 DEF FailToRecover, TypeOK, Inside, history
  <2>2. registry' \in Registries
    BY <1>0, <1>12, <1>r, WrittenRegistries DEF FailToRecover, TypeOK, Registries, history
  <2> QED
    BY <1>0, <1>12, <1>r, <2>1, <2>2 DEF FailToRecover, TypeOK, Registries, history
<1>13. CASE BeginCommit(p) \/ WriteLog(p) \/ CloseLast(p)
  <2>1. CASE BeginCommit(p)
    BY <1>0, <2>1 DEF BeginCommit, TypeOK, Inside, history, files
  <2>2. CASE WriteLog(p)
    BY <1>0, <2>2 DEF WriteLog, TypeOK, Inside, history, files
  <2>3. CASE CloseLast(p)
    BY <1>0, <2>3 DEF CloseLast, TypeOK, Inside, history, files
  <2> QED
    BY <1>13, <2>1, <2>2, <2>3
<1>14. CASE CheckIntegrity(p)
  <2>1. Check(p, region[p]) /\ region[p] \in Regions
    BY <1>14, <1>r DEF CheckIntegrity
  <2>2. CheckedOnly(p, region[p])
    BY <1>0, <2>1, CheckTypes
  <2>3. \A q \in Procs : (Inside(q) <=> flock = q)'
    BY <1>0, <1>14 DEF CheckIntegrity, TypeOK, Inside, process, counters
  <2> QED
    BY <1>0, <1>14, <2>1, <2>2, <2>3
       DEF CheckedOnly, CheckIntegrity, TypeOK, process, counters
<1>15. CASE Unregister(p)
  <2>1. \A q \in Procs : (Inside(q) <=> flock = q)'
    BY <1>0, <1>15 DEF Unregister, TypeOK, Inside
  <2>2. registry' \in Registries
    BY <1>0, <1>15, <1>r, WrittenRegistries DEF Unregister, TypeOK, Registries
  <2> QED
    BY <1>0, <1>15, <1>r, <2>1, <2>2 DEF Unregister, TypeOK, Registries
<1>16. CASE BeginRemoval(p)
  BY <1>0, <1>16 DEF BeginRemoval, TypeOK, Inside, history, files
<1>17. CASE Mark(p)
  <2>1. \A q \in Procs : (Inside(q) <=> flock = q)'
    BY <1>0, <1>17 DEF Mark, TypeOK, Inside, files
  <2>2. registry' \in Registries
    BY <1>0, <1>17, <1>r, WrittenRegistries DEF Mark, TypeOK, Registries, files
  <2> QED
    BY <1>0, <1>17, <1>r, <2>1, <2>2 DEF Mark, TypeOK, Registries, files
<1>18. CASE Unlink(p)
  <2>1. \A q \in Procs : (Inside(q) <=> flock = q)'
    BY <1>0, <1>18 DEF Unlink, TypeOK, Inside, files
  <2>2. registry' \in Registries
    BY <1>0, <1>18, <1>r, WrittenRegistries DEF Unlink, TypeOK, Registries, files
  <2> QED
    BY <1>0, <1>18, <1>r, <2>1, <2>2 DEF Unlink, TypeOK, Registries, files
<1>19. CASE Die(p)
  <2>1. Harmful(p) => region[p] \in Regions
    BY <1>r DEF Harmful
  <2>2. \A q \in Procs : (Inside(q) <=> flock = q)'
    BY <1>0, <1>19 DEF Die, Released, TypeOK, Inside
  <2>3. pid_file' \in [Procs -> {"none", "free", "locked"}]
    BY <1>0, <1>19 DEF Die, TypeOK
  <2>4. /\ UNCHANGED <<named, made, registry, untold, overlooked>>
        /\ pc' \in [Procs -> {"out", "look", "remove", "create", "construct", "register",
                              "lock", "fill", "open", "commit", "checkpoint", "stuck",
                              "mark", "unlink"}]
        /\ region' \in [Procs -> 0 .. MaxRegions]
    BY <1>0, <1>19 DEF Die, TypeOK
  <2>5. /\ {flock', reglock'} \subseteq Procs \cup {Nobody}
        /\ tainted' \subseteq Regions /\ sawTaint' \subseteq Procs
    BY <1>0, <1>19, <2>1 DEF Die, Released, TypeOK
  <2> QED
    BY <1>0, <2>2, <2>3, <2>4, <2>5 DEF TypeOK
<1> QED
  BY <1>1, <1>2, <1>3, <1>4, <1>5, <1>6, <1>7, <1>8, <1>9, <1>10, <1>11, <1>12, <1>13,
     <1>14, <1>15, <1>16, <1>17, <1>18, <1>19 DEF Step, Opening, Using, Removing

\* Nobody takes away what the others rely on: regions, marks and registered processes that
\* live stay, and so do their files; an id whose file is not locked yet stays since a look
\* needs the registry's file.
KeepsOthers(p) ==
    /\ \A q \in Procs \ {p} : pc'[q] = pc[q] /\ region'[q] = region[q]
    /\ sawTaint' \subseteq sawTaint \cup {p}
    /\ made <= made' /\ untold \subseteq untold' /\ overlooked \subseteq overlooked'
    /\ \A r \in Regions : /\ registry[r].constructed => registry'[r].constructed
                          /\ registry[r].invalid => registry'[r].invalid
    /\ \A q \in Procs \ {p} :
          /\ reglock = q => reglock' = q
          /\ pid_file[q] = "locked" => pid_file'[q] = "locked"
          /\ \A r \in Regions :
                q \in registry[r].pids /\ (pid_file[q] = "locked" \/ reglock = q)
                    => q \in registry'[r].pids

\* A step of one process leaves the others what they rely on.
LEMMA StepKeepsOthers ==
    ASSUME Opened, NEW p \in Procs, Step(p)
    PROVE  KeepsOthers(p)
<1> USE BoundsAssumption, NobodyAssumption
<1>0. TypeOK
  BY DEF Opened
<1>r. pc[p] \notin {"out", "create"} => region[p] \in Regions
  BY DEF Opened, Mapped, TypeOK
<1>l. pc[p] = "lock" => reglock = p
  BY DEF Opened, Registered
<1>1. CASE Begin(p)
  BY <1>0, <1>1, <1>r DEF Begin, MayOpen, history, KeepsOthers, TypeOK
<1>2. CASE FindNoRegistry(p)
  BY <1>0, <1>2, <1>r DEF FindNoRegistry, history, files, KeepsOthers, TypeOK
<1>3. CASE Look(p)
  <2>1. /\ Check(p, region[p]) /\ region[p] \in Regions /\ RegistryIsFree
        /\ \A q \in Procs \ {p} : pc'[q] = pc[q]
        /\ region' = region /\ made' = made /\ reglock' = reglock
        /\ untold \subseteq untold' /\ sawTaint' \subseteq sawTaint \cup {p}
    BY <1>0, <1>3, <1>r DEF Look, TypeOK
  <2>2. CheckedOnly(p, region[p])
    BY <1>0, <2>1, CheckTypes
  <2>3. \A r \in Regions : /\ registry[r].constructed => registry'[r].constructed
                           /\ registry[r].invalid => registry'[r].invalid
    BY <2>1, <2>2 DEF CheckedOnly
  <2>4. ASSUME NEW q \in Procs \ {p}
        PROVE  /\ pc'[q] = pc[q] /\ region'[q] = region[q]
               /\ reglock = q => reglock' = q
               /\ pid_file[q] = "locked" => pid_file'[q] = "locked"
               /\ \A r \in Regions :
                     q \in registry[r].pids /\ (pid_file[q] = "locked" \/ reglock = q)
                         => q \in registry'[r].pids
    BY <2>1, <2>2 DEF CheckedOnly, RegistryIsFree
  <2>5. made <= made' /\ overlooked \subseteq overlooked'
    BY <1>0, <2>1, <2>2 DEF CheckedOnly, TypeOK
  <2> QED
    BY <2>1, <2>3, <2>4, <2>5 DEF KeepsOthers
<1>4. CASE Remove(p)
  BY <1>0, <1>4, <1>r DEF Remove, history, files, KeepsOthers, TypeOK
<1>5. CASE Create(p)
  BY <1>0, <1>5, <1>r DEF Create, history, files, KeepsOthers, TypeOK
<1>6. CASE Construct(p)
  BY <1>0, <1>6, <1>r DEF Construct, history, files, KeepsOthers, TypeOK
<1>7. CASE Register(p)
  BY <1>0, <1>7, <1>r DEF Register, RegistryIsFree, history, KeepsOthers, TypeOK
<1>8. CASE AlreadyRegistered(p)
  BY <1>0, <1>8, <1>r DEF AlreadyRegistered, KeepsOthers, TypeOK
<1>9. CASE Lock(p)
  BY <1>0, <1>9, <1>r, <1>l
     DEF Lock, LockPidFile, DropRegistry, history, KeepsOthers, TypeOK
<1>10. CASE Attach(p)
  BY <1>0, <1>10, <1>r DEF Attach, history, KeepsOthers, TypeOK
<1>11. CASE Recover(p)
  BY <1>0, <1>11, <1>r DEF Recover, history, KeepsOthers, TypeOK
<1>12. CASE FailToRecover(p)
  BY <1>0, <1>12, <1>r DEF FailToRecover, history, KeepsOthers, TypeOK
<1>13. CASE BeginCommit(p)
  BY <1>0, <1>13, <1>r DEF BeginCommit, history, files, KeepsOthers, TypeOK
<1>14. CASE WriteLog(p)
  BY <1>0, <1>14, <1>r DEF WriteLog, history, files, KeepsOthers, TypeOK
<1>15. CASE CheckIntegrity(p)
  <2>1. /\ Check(p, region[p]) /\ region[p] \in Regions /\ RegistryIsFree
        /\ \A q \in Procs \ {p} : pc'[q] = pc[q]
        /\ region' = region /\ made' = made /\ reglock' = reglock
        /\ untold \subseteq untold' /\ sawTaint' \subseteq sawTaint \cup {p}
    BY <1>0, <1>15, <1>r DEF CheckIntegrity, process, TypeOK
  <2>2. CheckedOnly(p, region[p])
    BY <1>0, <2>1, CheckTypes
  <2>3. \A r \in Regions : /\ registry[r].constructed => registry'[r].constructed
                           /\ registry[r].invalid => registry'[r].invalid
    BY <2>1, <2>2 DEF CheckedOnly
  <2>4. ASSUME NEW q \in Procs \ {p}
        PROVE  /\ pc'[q] = pc[q] /\ region'[q] = region[q]
               /\ reglock = q => reglock' = q
               /\ pid_file[q] = "locked" => pid_file'[q] = "locked"
               /\ \A r \in Regions :
                     q \in registry[r].pids /\ (pid_file[q] = "locked" \/ reglock = q)
                         => q \in registry'[r].pids
    BY <2>1, <2>2 DEF CheckedOnly, RegistryIsFree
  <2>5. made <= made' /\ overlooked \subseteq overlooked'
    BY <1>0, <2>1, <2>2 DEF CheckedOnly, TypeOK
  <2> QED
    BY <2>1, <2>3, <2>4, <2>5 DEF KeepsOthers
<1>16. CASE CloseLast(p)
  BY <1>0, <1>16, <1>r DEF CloseLast, history, files, KeepsOthers, TypeOK
<1>17. CASE Unregister(p)
  BY <1>0, <1>17, <1>r DEF Unregister, RegistryIsFree, KeepsOthers, TypeOK
<1>18. CASE BeginRemoval(p)
  BY <1>0, <1>18, <1>r DEF BeginRemoval, history, files, KeepsOthers, TypeOK
<1>19. CASE Mark(p)
  BY <1>0, <1>19, <1>r DEF Mark, files, KeepsOthers, TypeOK
<1>20. CASE Unlink(p)
  BY <1>0, <1>20, <1>r DEF Unlink, files, KeepsOthers, TypeOK
<1>21. CASE Die(p)
  BY <1>0, <1>21, <1>r DEF Die, Released, KeepsOthers, TypeOK
<1> QED
  BY <1>1, <1>2, <1>3, <1>4, <1>5, <1>6, <1>7, <1>8, <1>9, <1>10, <1>11, <1>12, <1>13,
     <1>14, <1>15, <1>16, <1>17, <1>18, <1>19, <1>20, <1>21
     DEF Step, Opening, Using, Removing

\* Only the constructor gives the name to a region, and it is the one that works on it.
LEMMA NextMapped ==
    ASSUME Opened, NEW p \in Procs, Step(p)
    PROVE  Mapped'
<1> USE BoundsAssumption, NobodyAssumption
<1>0. TypeOK /\ KeepsOthers(p)
  BY StepKeepsOthers DEF Opened
<1>r. pc[p] \notin {"out", "create"} => region[p] \in Regions
  BY DEF Opened, Mapped, TypeOK
<1>m. Mapped
  BY DEF Opened
<1>1. CASE Begin(p)
  BY <1>0, <1>r, <1>m, <1>1
     DEF Begin, MayOpen, history, Mapped, Inside, KeepsOthers, TypeOK
<1>2. CASE FindNoRegistry(p)
  BY <1>0, <1>r, <1>m, <1>2
     DEF FindNoRegistry, history, files, Mapped, Inside, KeepsOthers, TypeOK
<1>3. CASE Look(p)
  BY <1>0, <1>r, <1>m, <1>3 DEF Look, Mapped, Inside, KeepsOthers, TypeOK
<1>4. CASE Remove(p)
  BY <1>0, <1>r, <1>m, <1>4
     DEF Remove, history, files, Mapped, Inside, KeepsOthers, TypeOK
<1>5. CASE Create(p)
  BY <1>0, <1>r, <1>m, <1>5
     DEF Create, history, files, Mapped, Inside, KeepsOthers, TypeOK
<1>6. CASE Construct(p)
  BY <1>0, <1>r, <1>m, <1>6
     DEF Construct, history, files, Mapped, Inside, KeepsOthers, TypeOK
<1>7. CASE Register(p)
  BY <1>0, <1>r, <1>m, <1>7
     DEF Register, RegistryIsFree, history, Mapped, Inside, KeepsOthers, TypeOK
<1>8. CASE AlreadyRegistered(p)
  BY <1>0, <1>r, <1>m, <1>8 DEF AlreadyRegistered, Mapped, Inside, KeepsOthers, TypeOK
<1>9. CASE Lock(p)
  BY <1>0, <1>r, <1>m, <1>9
     DEF Lock, LockPidFile, DropRegistry, history, Mapped, Inside, KeepsOthers, TypeOK
<1>10. CASE Attach(p)
  BY <1>0, <1>r, <1>m, <1>10 DEF Attach, history, Mapped, Inside, KeepsOthers, TypeOK
<1>11. CASE Recover(p)
  BY <1>0, <1>r, <1>m, <1>11 DEF Recover, history, Mapped, Inside, KeepsOthers, TypeOK
<1>12. CASE FailToRecover(p)
  BY <1>0, <1>r, <1>m, <1>12
     DEF FailToRecover, history, Mapped, Inside, KeepsOthers, TypeOK
<1>13. CASE BeginCommit(p)
  BY <1>0, <1>r, <1>m, <1>13
     DEF BeginCommit, history, files, Mapped, Inside, KeepsOthers, TypeOK
<1>14. CASE WriteLog(p)
  BY <1>0, <1>r, <1>m, <1>14
     DEF WriteLog, history, files, Mapped, Inside, KeepsOthers, TypeOK
<1>15. CASE CheckIntegrity(p)
  BY <1>0, <1>r, <1>m, <1>15
     DEF CheckIntegrity, process, Mapped, Inside, KeepsOthers, TypeOK
<1>16. CASE CloseLast(p)
  BY <1>0, <1>r, <1>m, <1>16
     DEF CloseLast, history, files, Mapped, Inside, KeepsOthers, TypeOK
<1>17. CASE Unregister(p)
  BY <1>0, <1>r, <1>m, <1>17
     DEF Unregister, RegistryIsFree, Mapped, Inside, KeepsOthers, TypeOK
<1>18. CASE BeginRemoval(p)
  BY <1>0, <1>r, <1>m, <1>18
     DEF BeginRemoval, history, files, Mapped, Inside, KeepsOthers, TypeOK
<1>19. CASE Mark(p)
  BY <1>0, <1>r, <1>m, <1>19 DEF Mark, files, Mapped, Inside, KeepsOthers, TypeOK
<1>20. CASE Unlink(p)
  BY <1>0, <1>r, <1>m, <1>20 DEF Unlink, files, Mapped, Inside, KeepsOthers, TypeOK
<1>21. CASE Die(p)
  BY <1>0, <1>r, <1>m, <1>21 DEF Die, Released, Mapped, Inside, KeepsOthers, TypeOK
<1> QED
  BY <1>1, <1>2, <1>3, <1>4, <1>5, <1>6, <1>7, <1>8, <1>9, <1>10, <1>11, <1>12, <1>13,
     <1>14, <1>15, <1>16, <1>17, <1>18, <1>19, <1>20, <1>21
     DEF Step, Opening, Using, Removing

\* Processes are entered only in a registry that is there, and a registry never goes.
LEMMA NextConstructed ==
    ASSUME Opened, NEW p \in Procs, Step(p)
    PROVE  Constructed'
<1> USE BoundsAssumption, NobodyAssumption
<1>0. TypeOK /\ KeepsOthers(p)
  BY StepKeepsOthers DEF Opened
<1>r. pc[p] \notin {"out", "create"} => region[p] \in Regions
  BY DEF Opened, Mapped, TypeOK
<1>m. Constructed
  BY DEF Opened
<1>c. Look(p) \/ CheckIntegrity(p) => CheckedOnly(p, region[p])
  BY LooksAreChecks DEF Opened
<1>1. CASE Begin(p)
  BY <1>0, <1>r, <1>m, <1>1
     DEF Begin, MayOpen, history, Constructed, Harmful, KeepsOthers, TypeOK
<1>2. CASE FindNoRegistry(p)
  BY <1>0, <1>r, <1>m, <1>2
     DEF FindNoRegistry, history, files, Constructed, Harmful, KeepsOthers, TypeOK
<1>3. CASE Look(p)
  <2>1. /\ region' = region /\ Registry(p).constructed
        /\ pc'[p] \in {"remove", "register"}
    BY <1>0, <1>3 DEF Look, TypeOK
  <2>2. \A r \in Regions : registry'[r].complete => registry[r].complete
    BY <1>c, <1>3, <1>r DEF CheckedOnly, Look
  <2>3. ASSUME NEW q \in Procs, (Harmful(q) \/ pc[q] \in {"register", "lock"})'
        PROVE  registry'[region'[q]].constructed
    <3>1. CASE q = p
      BY <1>0, <1>r, <2>1, <1>3, <3>1 DEF KeepsOthers, Look
    <3>2. CASE q # p
      BY <1>0, <1>m, <2>1, <2>3, <3>2, SMTT(30)
         DEF KeepsOthers, Harmful, Constructed, TypeOK, Opened, Mapped
    <3> QED
      BY <3>1, <3>2
  <2>4. ASSUME NEW r \in Regions, registry'[r].complete
        PROVE  registry'[r].constructed
    BY <1>0, <1>m, <2>2, <2>4 DEF KeepsOthers, Constructed
  <2> QED
    BY <2>3, <2>4 DEF Constructed
<1>4. CASE Remove(p)
  BY <1>0, <1>r, <1>m, <1>4
     DEF Remove, history, files, Constructed, Harmful, KeepsOthers, TypeOK
<1>5. CASE Create(p)
  BY <1>0, <1>r, <1>m, <1>5
     DEF Create, history, files, Constructed, Harmful, KeepsOthers, TypeOK
<1>6. CASE Construct(p)
  BY <1>0, <1>r, <1>m, <1>6
     DEF Construct, history, files, Constructed, Harmful, KeepsOthers, TypeOK
<1>7. CASE Register(p)
  BY <1>0, <1>r, <1>m, <1>7
     DEF Register, RegistryIsFree, history, Constructed, Harmful, KeepsOthers, TypeOK
<1>8. CASE AlreadyRegistered(p)
  BY <1>0, <1>r, <1>m, <1>8
     DEF AlreadyRegistered, Constructed, Harmful, KeepsOthers, TypeOK
<1>9. CASE Lock(p)
  BY <1>0, <1>r, <1>m, <1>9
     DEF Lock, LockPidFile, DropRegistry, history, Constructed, Harmful, KeepsOthers,
         TypeOK
<1>10. CASE Attach(p)
  BY <1>0, <1>r, <1>m, <1>10
     DEF Attach, history, Constructed, Harmful, KeepsOthers, TypeOK
<1>11. CASE Recover(p)
  BY <1>0, <1>r, <1>m, <1>11
     DEF Recover, history, Constructed, Harmful, KeepsOthers, TypeOK
<1>12. CASE FailToRecover(p)
  BY <1>0, <1>r, <1>m, <1>12
     DEF FailToRecover, history, Constructed, Harmful, KeepsOthers, TypeOK
<1>13. CASE BeginCommit(p)
  BY <1>0, <1>r, <1>m, <1>13
     DEF BeginCommit, history, files, Constructed, Harmful, KeepsOthers, TypeOK
<1>14. CASE WriteLog(p)
  BY <1>0, <1>r, <1>m, <1>14
     DEF WriteLog, history, files, Constructed, Harmful, KeepsOthers, TypeOK
<1>15. CASE CheckIntegrity(p)
  <2>1. region' = region /\ pc' = pc
    BY <1>15 DEF CheckIntegrity, process
  <2>2. \A r \in Regions : registry'[r].complete => registry[r].complete
    BY <1>c, <1>15, <1>r DEF CheckedOnly, CheckIntegrity
  <2>3. ASSUME NEW q \in Procs, (Harmful(q) \/ pc[q] \in {"register", "lock"})'
        PROVE  registry'[region'[q]].constructed
    BY <1>0, <1>m, <2>1, <2>3
       DEF KeepsOthers, Harmful, Constructed, TypeOK, Opened, Mapped
  <2>4. ASSUME NEW r \in Regions, registry'[r].complete
        PROVE  registry'[r].constructed
    BY <1>0, <1>m, <2>2, <2>4 DEF KeepsOthers, Constructed
  <2> QED
    BY <2>3, <2>4 DEF Constructed
<1>16. CASE CloseLast(p)
  BY <1>0, <1>r, <1>m, <1>16
     DEF CloseLast, history, files, Constructed, Harmful, KeepsOthers, TypeOK
<1>17. CASE Unregister(p)
  BY <1>0, <1>r, <1>m, <1>17
     DEF Unregister, RegistryIsFree, Constructed, Harmful, KeepsOthers, TypeOK
<1>18. CASE BeginRemoval(p)
  BY <1>0, <1>r, <1>m, <1>18
     DEF BeginRemoval, history, files, Constructed, Harmful, KeepsOthers, TypeOK
<1>19. CASE Mark(p)
  BY <1>0, <1>r, <1>m, <1>19 DEF Mark, files, Constructed, Harmful, KeepsOthers, TypeOK
<1>20. CASE Unlink(p)
  BY <1>0, <1>r, <1>m, <1>20 DEF Unlink, files, Constructed, Harmful, KeepsOthers, TypeOK
<1>21. CASE Die(p)
  BY <1>0, <1>r, <1>m, <1>21 DEF Die, Released, Constructed, Harmful, KeepsOthers, TypeOK
<1> QED
  BY <1>1, <1>2, <1>3, <1>4, <1>5, <1>6, <1>7, <1>8, <1>9, <1>10, <1>11, <1>12, <1>13,
     <1>14, <1>15, <1>16, <1>17, <1>18, <1>19, <1>20, <1>21
     DEF Step, Opening, Using, Removing

\* A region loses its name to the constructor that found something wrong with it, or to
\* remove_region(), which marks the region it saw but takes the name of whichever has it.
LEMMA NextNamelessIsGivenUp ==
    ASSUME Opened, NEW p \in Procs, Step(p)
    PROVE  NamelessIsGivenUp'
<1> USE BoundsAssumption, NobodyAssumption
<1>0. TypeOK /\ KeepsOthers(p)
  BY StepKeepsOthers DEF Opened
<1>r. pc[p] \notin {"out", "create"} => region[p] \in Regions
  BY DEF Opened, Mapped, TypeOK
<1>m. NamelessIsGivenUp /\ Mapped
  BY DEF Opened
<1>1. CASE Begin(p)
  BY <1>0, <1>r, <1>m, <1>1
     DEF Begin, MayOpen, history, NamelessIsGivenUp, GivenUp, Mapped, Inside, KeepsOthers,
         TypeOK
<1>2. CASE FindNoRegistry(p)
  BY <1>0, <1>r, <1>m, <1>2
     DEF FindNoRegistry, history, files, NamelessIsGivenUp, GivenUp, Mapped, Inside,
         KeepsOthers, TypeOK
<1>3. CASE Look(p)
  BY <1>0, <1>r, <1>m, <1>3
     DEF Look, NamelessIsGivenUp, GivenUp, Mapped, Inside, KeepsOthers, TypeOK
<1>4. CASE Remove(p)
  BY <1>0, <1>r, <1>m, <1>4
     DEF Remove, history, files, NamelessIsGivenUp, GivenUp, Mapped, Inside, KeepsOthers,
         TypeOK
<1>5. CASE Create(p)
  BY <1>0, <1>r, <1>m, <1>5
     DEF Create, history, files, NamelessIsGivenUp, GivenUp, Mapped, Inside, KeepsOthers,
         TypeOK
<1>6. CASE Construct(p)
  BY <1>0, <1>r, <1>m, <1>6
     DEF Construct, history, files, NamelessIsGivenUp, GivenUp, Mapped, Inside,
         KeepsOthers, TypeOK
<1>7. CASE Register(p)
  BY <1>0, <1>r, <1>m, <1>7
     DEF Register, RegistryIsFree, history, NamelessIsGivenUp, GivenUp, Mapped, Inside,
         KeepsOthers, TypeOK
<1>8. CASE AlreadyRegistered(p)
  BY <1>0, <1>r, <1>m, <1>8
     DEF AlreadyRegistered, NamelessIsGivenUp, GivenUp, Mapped, Inside, KeepsOthers,
         TypeOK
<1>9. CASE Lock(p)
  BY <1>0, <1>r, <1>m, <1>9
     DEF Lock, LockPidFile, DropRegistry, history, NamelessIsGivenUp, GivenUp, Mapped,
         Inside, KeepsOthers, TypeOK
<1>10. CASE Attach(p)
  BY <1>0, <1>r, <1>m, <1>10
     DEF Attach, history, NamelessIsGivenUp, GivenUp, Mapped, Inside, KeepsOthers, TypeOK
<1>11. CASE Recover(p)
  BY <1>0, <1>r, <1>m, <1>11
     DEF Recover, history, NamelessIsGivenUp, GivenUp, Mapped, Inside, KeepsOthers, TypeOK
<1>12. CASE FailToRecover(p)
  BY <1>0, <1>r, <1>m, <1>12
     DEF FailToRecover, history, NamelessIsGivenUp, GivenUp, Mapped, Inside, KeepsOthers,
         TypeOK
<1>13. CASE BeginCommit(p)
  BY <1>0, <1>r, <1>m, <1>13
     DEF BeginCommit, history, files, NamelessIsGivenUp, GivenUp, Mapped, Inside,
         KeepsOthers, TypeOK
<1>14. CASE WriteLog(p)
  BY <1>0, <1>r, <1>m, <1>14
     DEF WriteLog, history, files, NamelessIsGivenUp, GivenUp, Mapped, Inside,
         KeepsOthers, TypeOK
<1>15. CASE CheckIntegrity(p)
  BY <1>0, <1>r, <1>m, <1>15
     DEF CheckIntegrity, process, NamelessIsGivenUp, GivenUp, Mapped, Inside, KeepsOthers,
         TypeOK
<1>16. CASE CloseLast(p)
  BY <1>0, <1>r, <1>m, <1>16
     DEF CloseLast, history, files, NamelessIsGivenUp, GivenUp, Mapped, Inside,
         KeepsOthers, TypeOK
<1>17. CASE Unregister(p)
  BY <1>0, <1>r, <1>m, <1>17
     DEF Unregister, RegistryIsFree, NamelessIsGivenUp, GivenUp, Mapped, Inside,
         KeepsOthers, TypeOK
<1>18. CASE BeginRemoval(p)
  BY <1>0, <1>r, <1>m, <1>18
     DEF BeginRemoval, history, files, NamelessIsGivenUp, GivenUp, Mapped, Inside,
         KeepsOthers, TypeOK
<1>19. CASE Mark(p)
  BY <1>0, <1>r, <1>m, <1>19
     DEF Mark, files, NamelessIsGivenUp, GivenUp, Mapped, Inside, KeepsOthers, TypeOK
<1>20. CASE Unlink(p)
  BY <1>0, <1>r, <1>m, <1>20
     DEF Unlink, files, NamelessIsGivenUp, GivenUp, Mapped, Inside, KeepsOthers, TypeOK
<1>21. CASE Die(p)
  BY <1>0, <1>r, <1>m, <1>21
     DEF Die, Released, NamelessIsGivenUp, GivenUp, Mapped, Inside, KeepsOthers, TypeOK
<1> QED
  BY <1>1, <1>2, <1>3, <1>4, <1>5, <1>6, <1>7, <1>8, <1>9, <1>10, <1>11, <1>12, <1>13,
     <1>14, <1>15, <1>16, <1>17, <1>18, <1>19, <1>20, <1>21
     DEF Step, Opening, Using, Removing

\* A process is registered from register_pid() until it leaves or dies, and its file locked
\* from the end of register_pid().
LEMMA NextRegistered ==
    ASSUME Opened, NEW p \in Procs, Step(p)
    PROVE  Registered'
<1> USE BoundsAssumption, NobodyAssumption
<1>0. TypeOK /\ KeepsOthers(p)
  BY StepKeepsOthers DEF Opened
<1>r. pc[p] \notin {"out", "create"} => region[p] \in Regions
  BY DEF Opened, Mapped, TypeOK
<1>m. Registered
  BY DEF Opened
<1>c. Look(p) \/ CheckIntegrity(p) => CheckedOnly(p, region[p])
  BY LooksAreChecks DEF Opened
<1>1. CASE Begin(p)
  BY <1>0, <1>r, <1>m, <1>1
     DEF Begin, MayOpen, history, Registered, Harmful, KeepsOthers, TypeOK
<1>2. CASE FindNoRegistry(p)
  BY <1>0, <1>r, <1>m, <1>2
     DEF FindNoRegistry, history, files, Registered, Harmful, KeepsOthers, TypeOK
<1>3. CASE Look(p)
  <2>1. region' = region /\ reglock' = reglock /\ pc'[p] \in {"remove", "register"}
    BY <1>0, <1>3 DEF Look, TypeOK
  <2>2. ASSUME NEW q \in Procs, (pc[q] = "lock" \/ Harmful(q))'
        PROVE  /\ q # p /\ region'[q] \in Regions /\ pc'[q] = pc[q]
               /\ Harmful(q)' <=> Harmful(q)
    <3>1. q # p
      BY <2>1, <2>2 DEF Harmful
    <3>2. pc'[q] = pc[q] /\ region'[q] = region[q]
      BY <1>0, <3>1 DEF KeepsOthers
    <3> QED
      BY <1>0, <2>2, <3>1, <3>2 DEF Harmful, Opened, Mapped, TypeOK
  <2> QED
    BY <1>0, <1>m, <2>1, <2>2 DEF Registered, KeepsOthers
<1>4. CASE Remove(p)
  BY <1>0, <1>r, <1>m, <1>4
     DEF Remove, history, files, Registered, Harmful, KeepsOthers, TypeOK
<1>5. CASE Create(p)
  BY <1>0, <1>r, <1>m, <1>5
     DEF Create, history, files, Registered, Harmful, KeepsOthers, TypeOK
<1>6. CASE Construct(p)
  BY <1>0, <1>r, <1>m, <1>6
     DEF Construct, history, files, Registered, Harmful, KeepsOthers, TypeOK
<1>7. CASE Register(p)
  BY <1>0, <1>r, <1>m, <1>7
     DEF Register, RegistryIsFree, history, Registered, Harmful, KeepsOthers, TypeOK
<1>8. CASE AlreadyRegistered(p)
  BY <1>0, <1>r, <1>m, <1>8
     DEF AlreadyRegistered, Registered, Harmful, KeepsOthers, TypeOK
<1>9. CASE Lock(p)
  BY <1>0, <1>r, <1>m, <1>9
     DEF Lock, LockPidFile, DropRegistry, history, Registered, Harmful, KeepsOthers,
         TypeOK
<1>10. CASE Attach(p)
  BY <1>0, <1>r, <1>m, <1>10 DEF Attach, history, Registered, Harmful, KeepsOthers, TypeOK
<1>11. CASE Recover(p)
  BY <1>0, <1>r, <1>m, <1>11
     DEF Recover, history, Registered, Harmful, KeepsOthers, TypeOK
<1>12. CASE FailToRecover(p)
  BY <1>0, <1>r, <1>m, <1>12
     DEF FailToRecover, history, Registered, Harmful, KeepsOthers, TypeOK
<1>13. CASE BeginCommit(p)
  BY <1>0, <1>r, <1>m, <1>13
     DEF BeginCommit, history, files, Registered, Harmful, KeepsOthers, TypeOK
<1>14. CASE WriteLog(p)
  BY <1>0, <1>r, <1>m, <1>14
     DEF WriteLog, history, files, Registered, Harmful, KeepsOthers, TypeOK
<1>15. CASE CheckIntegrity(p)
  <2>1. region' = region /\ reglock' = reglock /\ pc' = pc /\ pc[p] = "open"
    BY <1>15 DEF CheckIntegrity, process
  <2>2. p \in registry'[region[p]].pids /\ pid_file'[p] = "locked"
    BY <1>c, <1>m, <1>15, <2>1 DEF CheckedOnly, Registered, Harmful
  <2>3. ASSUME NEW q \in Procs, pc[q] = "lock" \/ Harmful(q)
        PROVE  region[q] \in Regions
    BY <2>3 DEF Harmful, Opened, Mapped, TypeOK
  <2>4. \A q \in Procs : Harmful(q)' = Harmful(q)
    BY <2>1 DEF Harmful
  <2> QED
    BY <1>0, <1>m, <2>1, <2>2, <2>3, <2>4 DEF Registered, KeepsOthers
<1>16. CASE CloseLast(p)
  BY <1>0, <1>r, <1>m, <1>16
     DEF CloseLast, history, files, Registered, Harmful, KeepsOthers, TypeOK
<1>17. CASE Unregister(p)
  BY <1>0, <1>r, <1>m, <1>17
     DEF Unregister, RegistryIsFree, Registered, Harmful, KeepsOthers, TypeOK
<1>18. CASE BeginRemoval(p)
  BY <1>0, <1>r, <1>m, <1>18
     DEF BeginRemoval, history, files, Registered, Harmful, KeepsOthers, TypeOK
<1>19. CASE Mark(p)
  BY <1>0, <1>r, <1>m, <1>19 DEF Mark, files, Registered, Harmful, KeepsOthers, TypeOK
<1>20. CASE Unlink(p)
  BY <1>0, <1>r, <1>m, <1>20 DEF Unlink, files, Registered, Harmful, KeepsOthers, TypeOK
<1>21. CASE Die(p)
  BY <1>0, <1>r, <1>m, <1>21 DEF Die, Released, Registered, Harmful, KeepsOthers, TypeOK
<1> QED
  BY <1>1, <1>2, <1>3, <1>4, <1>5, <1>6, <1>7, <1>8, <1>9, <1>10, <1>11, <1>12, <1>13,
     <1>14, <1>15, <1>16, <1>17, <1>18, <1>19, <1>20, <1>21
     DEF Step, Opening, Using, Removing

\* Who could come to know a region by its name could do so before: a new one is the only one
\* that gets the name.
LEMMA NoWayBack ==
    ASSUME Opened, NEW p \in Procs, Step(p), NEW r \in 1 .. made, Enterable(r)'
    PROVE  Enterable(r)
<1> USE BoundsAssumption, NobodyAssumption
<1>0. TypeOK
  BY DEF Opened
<1>1. CASE Begin(p)
  BY <1>0, <1>1 DEF Begin, MayOpen, history, Enterable, Inside, TypeOK
<1>2. CASE FindNoRegistry(p)
  BY <1>0, <1>2 DEF FindNoRegistry, history, files, Enterable, Inside, TypeOK
<1>3. CASE Look(p)
  <2>1. named' = named /\ region' = region /\ pc[p] = "look"
        /\ \A q \in Procs \ {p} : pc'[q] = pc[q]
    BY <1>0, <1>3 DEF Look, TypeOK
  <2> QED
    BY <2>1 DEF Enterable, Inside
<1>4. CASE Remove(p)
  BY <1>0, <1>4 DEF Remove, history, files, Enterable, Inside, TypeOK
<1>5. CASE Create(p)
  BY <1>0, <1>5 DEF Create, history, files, Enterable, Inside, TypeOK
<1>6. CASE Construct(p)
  BY <1>0, <1>6 DEF Construct, history, files, Enterable, Inside, TypeOK
<1>7. CASE Register(p)
  BY <1>0, <1>7 DEF Register, RegistryIsFree, history, Enterable, Inside, TypeOK
<1>8. CASE AlreadyRegistered(p)
  BY <1>0, <1>8 DEF AlreadyRegistered, Enterable, Inside, TypeOK
<1>9. CASE Lock(p)
  BY <1>0, <1>9 DEF Lock, LockPidFile, DropRegistry, history, Enterable, Inside, TypeOK
<1>10. CASE Attach(p)
  BY <1>0, <1>10 DEF Attach, history, Enterable, Inside, TypeOK
<1>11. CASE Recover(p)
  BY <1>0, <1>11 DEF Recover, history, Enterable, Inside, TypeOK
<1>12. CASE FailToRecover(p)
  BY <1>0, <1>12 DEF FailToRecover, history, Enterable, Inside, TypeOK
<1>13. CASE BeginCommit(p)
  BY <1>0, <1>13 DEF BeginCommit, history, files, Enterable, Inside, TypeOK
<1>14. CASE WriteLog(p)
  BY <1>0, <1>14 DEF WriteLog, history, files, Enterable, Inside, TypeOK
<1>15. CASE CheckIntegrity(p)
  BY <1>0, <1>15 DEF CheckIntegrity, process, Enterable, Inside, TypeOK
<1>16. CASE CloseLast(p)
  BY <1>0, <1>16 DEF CloseLast, history, files, Enterable, Inside, TypeOK
<1>17. CASE Unregister(p)
  BY <1>0, <1>17 DEF Unregister, RegistryIsFree, Enterable, Inside, TypeOK
<1>18. CASE BeginRemoval(p)
  BY <1>0, <1>18 DEF BeginRemoval, history, files, Enterable, Inside, TypeOK
<1>19. CASE Mark(p)
  BY <1>0, <1>19 DEF Mark, files, Enterable, Inside, TypeOK
<1>20. CASE Unlink(p)
  BY <1>0, <1>20 DEF Unlink, files, Enterable, Inside, TypeOK
<1>21. CASE Die(p)
  BY <1>0, <1>21 DEF Die, Released, Enterable, Inside, TypeOK
<1> QED
  BY <1>1, <1>2, <1>3, <1>4, <1>5, <1>6, <1>7, <1>8, <1>9, <1>10, <1>11, <1>12, <1>13,
     <1>14, <1>15, <1>16, <1>17, <1>18, <1>19, <1>20, <1>21
     DEF Step, Opening, Using, Removing


\* A check by p never loses sight of a death in silence: what it drops from the registry it
\* looks at leaves a mark, and the other regions of whom it drops are overlooked.
LEMMA ChecksTell ==
    ASSUME TypeOK, NEW p \in Procs, NEW s \in Regions, Check(p, s),
           NEW q \in Procs, NEW r \in Regions, q \in registry[r].pids, pid_file[q] = "free"
    PROVE  \/ registry'[r].invalid \/ r \in overlooked'
           \/ q \in registry'[r].pids /\ pid_file'[q] = "free"
<1>1. CASE ~registry[s].constructed
  BY <1>1 DEF Check
<1>2. CASE registry[s].constructed
  <2>1. /\ registry' = [registry EXCEPT ![s] = Checked(p, s)]
        /\ pid_file' = [x \in Procs |-> IF x \in Improper(p, s) THEN "none" ELSE pid_file[x]]
        /\ overlooked' = overlooked \cup
               {x \in Regions \ {s} : Improper(p, s) \cap registry[x].pids # {}}
    BY <1>2 DEF Check
  <2>2. CASE q \in Improper(p, s)
    <3>1. CASE r = s
      <4>1. Checked(p, s).invalid
        BY <2>2 DEF Checked, TypeOK
      <4> QED
        BY <2>1, <3>1, <4>1 DEF TypeOK
    <3>2. CASE r # s
      BY <2>1, <2>2, <3>2
    <3> QED
      BY <3>1, <3>2
  <2>3. CASE q \notin Improper(p, s)
    <3>1. pid_file'[q] = "free"
      BY <2>1, <2>3
    <3>2. q \notin Gone(p, s)
      BY <2>3 DEF Improper
    <3>3. CASE r = s
      <4>1. Checked(p, s).pids = registry[s].pids \ Gone(p, s)
        BY DEF Checked, TypeOK
      <4> QED
        BY <2>1, <3>1, <3>2, <3>3, <4>1 DEF TypeOK
    <3>4. CASE r # s
      BY <2>1, <3>1, <3>4 DEF TypeOK
    <3> QED
      BY <3>3, <3>4
  <2> QED
    BY <2>2, <2>3
<1> QED
  BY <1>1, <1>2

\* A death that shows goes on to show.
LEMMA WitnessStays ==
    ASSUME Opened, NEW p \in Procs, Step(p),
           NEW q \in Procs, NEW r \in 1 .. made, Witness(q, r), Enterable(r)'
    PROVE  registry'[r].invalid \/ r \in overlooked' \/ Witness(q, r)'
<1> USE BoundsAssumption, NobodyAssumption
<1>0. TypeOK /\ KeepsOthers(p) /\ r \in Regions
  BY StepKeepsOthers DEF Opened, TypeOK
<1>w. q \in registry[r].pids /\ pid_file[q] = "free" /\ ~(pc[q] = "lock" /\ region[q] = r)
  BY DEF Witness
<1>1. CASE Begin(p)
  BY <1>0, <1>w, <1>1 DEF Begin, MayOpen, history, Witness, KeepsOthers, TypeOK
<1>2. CASE FindNoRegistry(p)
  BY <1>0, <1>w, <1>2 DEF FindNoRegistry, history, files, Witness, KeepsOthers, TypeOK
<1>3. CASE Look(p)
  <2>1. region[p] \in Regions /\ Check(p, region[p])
    BY <1>3, LooksAreChecks DEF Opened
  <2>2. \/ registry'[r].invalid \/ r \in overlooked'
        \/ q \in registry'[r].pids /\ pid_file'[q] = "free"
    BY <1>0, <1>w, <2>1, ChecksTell
  <2>3. region' = region /\ (pc'[q] = "lock" => pc[q] = "lock")
    BY <1>0, <1>3 DEF Look, TypeOK
  <2> QED
    BY <1>w, <2>2, <2>3 DEF Witness
<1>4. CASE Remove(p)
  BY <1>0, <1>w, <1>4 DEF Remove, history, files, Witness, KeepsOthers, TypeOK
<1>5. CASE Create(p)
  BY <1>0, <1>w, <1>5 DEF Create, history, files, Witness, KeepsOthers, TypeOK
<1>6. CASE Construct(p)
  BY <1>0, <1>w, <1>6 DEF Construct, history, files, Witness, KeepsOthers, TypeOK
<1>7. CASE Register(p)
  BY <1>0, <1>w, <1>7 DEF Register, RegistryIsFree, history, Witness, KeepsOthers, TypeOK
<1>8. CASE AlreadyRegistered(p)
  BY <1>0, <1>w, <1>8 DEF AlreadyRegistered, Witness, KeepsOthers, TypeOK
<1>9. CASE Lock(p)
  <2>1. CASE q # p
    BY <1>0, <1>w, <1>9, <2>1 DEF Lock, LockPidFile, Witness, KeepsOthers, TypeOK
  <2>2. CASE q = p
    \* It locks its file for another region: the name is not that of this one any more.
    <3>1. pc[p] = "lock" /\ region[p] # r /\ named \in {0, region[p]}
      BY <1>9, <1>w, <2>2 DEF Lock, Opened, Mapped, Inside
    <3>2. named' = named /\ region' = region /\ r # 0
      BY <1>9 DEF Lock
    <3>3. ASSUME NEW x \in Procs, Inside(x)', region'[x] = r
          PROVE  FALSE
      <4>1. x # p
        BY <3>1, <3>2, <3>3
      <4>2. Inside(x) /\ Inside(p)
        BY <1>0, <1>9, <3>3, <4>1 DEF KeepsOthers, Inside, Lock
      <4> QED
        BY <1>0, <4>1, <4>2 DEF TypeOK
    <3> QED
      BY <3>1, <3>2, <3>3 DEF Enterable
  <2> QED
    BY <2>1, <2>2
<1>10. CASE Attach(p)
  BY <1>0, <1>w, <1>10 DEF Attach, history, Witness, KeepsOthers, TypeOK
<1>11. CASE Recover(p)
  BY <1>0, <1>w, <1>11 DEF Recover, history, Witness, KeepsOthers, TypeOK
<1>12. CASE FailToRecover(p)
  BY <1>0, <1>w, <1>12 DEF FailToRecover, history, Witness, KeepsOthers, TypeOK
<1>13. CASE BeginCommit(p)
  BY <1>0, <1>w, <1>13 DEF BeginCommit, history, files, Witness, KeepsOthers, TypeOK
<1>14. CASE WriteLog(p)
  BY <1>0, <1>w, <1>14 DEF WriteLog, history, files, Witness, KeepsOthers, TypeOK
<1>15. CASE CheckIntegrity(p)
  <2>1. region[p] \in Regions /\ Check(p, region[p])
    BY <1>15, LooksAreChecks DEF Opened
  <2>2. \/ registry'[r].invalid \/ r \in overlooked'
        \/ q \in registry'[r].pids /\ pid_file'[q] = "free"
    BY <1>0, <1>w, <2>1, ChecksTell
  <2>3. region' = region /\ (pc'[q] = "lock" => pc[q] = "lock")
    BY <1>0, <1>15 DEF CheckIntegrity, process, TypeOK
  <2> QED
    BY <1>w, <2>2, <2>3 DEF Witness
<1>16. CASE CloseLast(p)
  BY <1>0, <1>w, <1>16 DEF CloseLast, history, files, Witness, KeepsOthers, TypeOK
<1>17. CASE Unregister(p)
  <2>1. pid_file[p] = "locked"
    BY <1>17 DEF Unregister, Opened, Registered, Harmful
  <2> QED
    BY <1>0, <1>w, <1>17, <2>1 DEF Unregister, Witness, KeepsOthers, TypeOK
<1>18. CASE BeginRemoval(p)
  BY <1>0, <1>w, <1>18 DEF BeginRemoval, history, files, Witness, KeepsOthers, TypeOK
<1>19. CASE Mark(p)
  BY <1>0, <1>w, <1>19 DEF Mark, files, Witness, KeepsOthers, TypeOK
<1>20. CASE Unlink(p)
  BY <1>0, <1>w, <1>20 DEF Unlink, files, Witness, KeepsOthers, TypeOK
<1>21. CASE Die(p)
  BY <1>0, <1>w, <1>21 DEF Die, Released, Witness, KeepsOthers, TypeOK
<1> QED
  BY <1>1, <1>2, <1>3, <1>4, <1>5, <1>6, <1>7, <1>8, <1>9, <1>10, <1>11, <1>12, <1>13,
     <1>14, <1>15, <1>16, <1>17, <1>18, <1>19, <1>20, <1>21
     DEF Step, Opening, Using, Removing

\* Deaths go on to show in every region that can still be entered.
LEMMA NextDeathsShow ==
    ASSUME Opened, NEW p \in Procs, Step(p)
    PROVE  DeathsShow'
<1>0. TypeOK /\ KeepsOthers(p) /\ DeathsShow /\ made <= made' /\ made' \in Nat
  <2>1. TypeOK /\ TypeOK' /\ KeepsOthers(p) /\ DeathsShow
    BY StepKeepsOthers, NextTypeOK DEF Opened
  <2> QED
    BY <2>1, SMTT(30) DEF KeepsOthers, TypeOK
<1>1. ASSUME NEW r \in tainted', r \notin tainted
      PROVE  r \in 1 .. made /\ Witness(p, r)'
  <2>1. Die(p) /\ Harmful(p) /\ r = region[p]
    BY <1>1
       DEF Step, Opening, Using, Removing, Begin, FindNoRegistry, Look, Remove, Create,
          Construct, Register, AlreadyRegistered, Lock, Attach, Recover, FailToRecover,
          BeginCommit, WriteLog, CheckIntegrity, CloseLast, Unregister, BeginRemoval, Mark,
          Unlink, Die, history
  <2>2. p \in registry[r].pids /\ pid_file[p] = "locked"
    BY <2>1 DEF Opened, Registered
  <2>3. r \in 1 .. made
    BY <1>0, <2>1 DEF Opened, Mapped, Harmful, TypeOK
  <2>4. p \in registry'[r].pids /\ pid_file'[p] = "free" /\ pc'[p] = "out"
    BY <1>0, <2>1, <2>2 DEF Die, TypeOK
  <2> QED
    BY <2>3, <2>4 DEF Witness
<1>2. ASSUME NEW r \in tainted, Enterable(r)'
      PROVE  \/ registry'[r].invalid \/ r \in overlooked'
             \/ \E q \in Procs : Witness(q, r)'
  <2>1. r \in 1 .. made /\ r \in Regions
    BY <1>0 DEF DeathsShow, TypeOK
  <2>2. Enterable(r)
    BY <1>2, <2>1, NoWayBack
  <2>3. CASE registry[r].invalid \/ r \in overlooked
    BY <1>0, <2>1, <2>3 DEF KeepsOthers
  <2>4. CASE \E q \in Procs : Witness(q, r)
    BY <1>2, <2>1, <2>4, WitnessStays
  <2> QED
    BY <1>0, <2>2, <2>3, <2>4 DEF DeathsShow
<1>3. tainted' \subseteq 1 .. made'
  <2>1. made \in Nat /\ 1 .. made \subseteq 1 .. made'
    BY <1>0 DEF TypeOK
  <2>2. ASSUME NEW r \in tainted'
        PROVE  r \in 1 .. made
    BY <1>0, <1>1 DEF DeathsShow
  <2> QED
    BY <2>1, <2>2
<1>4. ASSUME NEW r \in tainted', Enterable(r)'
      PROVE  \/ registry'[r].invalid \/ r \in overlooked'
             \/ \E q \in Procs : Witness(q, r)'
  <2>1. CASE r \notin tainted
    <3>1. Witness(p, r)'
      BY <1>1, <1>4, <2>1
    <3> QED
      BY <3>1
  <2>2. CASE r \in tainted
    BY <1>2, <1>4, <2>2
  <2> QED
    BY <2>1, <2>2
<1> QED
  BY <1>3, <1>4 DEF DeathsShow

\* A look that misses a death is that of a process with the id of the dead one.
LEMMA LookMissesItself ==
    ASSUME Opened, NEW p \in Procs, Look(p), region[p] \in tainted,
           ~NeedsRecovery(p, region[p])
    PROVE  \/ region[p] \in overlooked
           \/ p \in Registry(p).pids /\ pid_file[p] = "free"
<1>1. Enterable(region[p])
  BY DEF Look, Enterable, Inside
<1>2. ~registry[region[p]].invalid /\ Gone(p, region[p]) = {}
  BY DEF NeedsRecovery
<1>3. CASE \E q \in Procs : Witness(q, region[p])
  <2>1. PICK q \in Procs : Witness(q, region[p])
    BY <1>3
  <2>2. q = p
    BY <1>2, <2>1 DEF Witness, Gone, CanLock
  <2> QED
    BY <2>1, <2>2 DEF Witness
<1> QED
  BY <1>1, <1>2, <1>3 DEF Opened, DeathsShow

\* The id of the dead process goes on to stop who has it.
LEMMA NextMissedByItself ==
    ASSUME Opened, NEW p \in Procs, Step(p)
    PROVE  MissedByItself'
<1> USE BoundsAssumption, NobodyAssumption
<1>0. TypeOK /\ KeepsOthers(p) /\ MissedByItself
  BY StepKeepsOthers DEF Opened
<1>r. \A x \in sawTaint : x \in Procs /\ region[x] \in Regions
  BY <1>0 DEF Opened, MissedByItself, Mapped, Harmful, TypeOK
<1>x. ASSUME NEW x \in sawTaint, x # p
      PROVE  (/\ Harmful(x) \/ pc[x] \in {"register", "lock"}
              /\ \/ Registry(x).invalid \/ region[x] \in overlooked
                 \/ pc[x] = "register" /\ x \in Registry(x).pids /\ pid_file[x] = "free")'
  <2>1. pc'[x] = pc[x] /\ region'[x] = region[x]
    BY <1>0, <1>r, <1>x DEF KeepsOthers
  <2>2. CASE Registry(x).invalid \/ region[x] \in overlooked
    BY <1>0, <1>r, <1>x, <2>1, <2>2 DEF KeepsOthers, MissedByItself, Harmful
  <2>3. CASE pc[x] = "register" /\ x \in Registry(x).pids /\ pid_file[x] = "free"
    <3>1. \/ registry'[region[x]].invalid \/ region[x] \in overlooked'
          \/ x \in registry'[region[x]].pids /\ pid_file'[x] = "free"
      <4>1. PICK r \in Regions : r = region[x]
        BY <1>r
      <4>2. x \in Procs /\ r \in 1 .. made
        BY <1>0, <1>r, <4>1 DEF Opened, Mapped, TypeOK
      <4>3. Witness(x, r) /\ Enterable(r)'
        BY <1>r, <2>1, <2>3, <4>1 DEF Witness, Enterable, Inside
      <4> QED
        BY <4>1, <4>2, <4>3, WitnessStays DEF Witness
    <3> QED
      BY <2>1, <2>3, <3>1
  <2> QED
    BY <1>0, <2>2, <2>3 DEF MissedByItself
<1>p. ASSUME p \in sawTaint'
      PROVE  (/\ Harmful(p) \/ pc[p] \in {"register", "lock"}
              /\ \/ Registry(p).invalid \/ region[p] \in overlooked
                 \/ pc[p] = "register" /\ p \in Registry(p).pids /\ pid_file[p] = "free")'
  <2>1. CASE Begin(p)
    BY <1>0, <1>r, <1>p, <2>1
       DEF Begin, MayOpen, history, MissedByItself, Harmful, KeepsOthers, TypeOK
  <2>2. CASE FindNoRegistry(p)
    BY <1>0, <1>r, <1>p, <2>2
       DEF FindNoRegistry, history, files, MissedByItself, Harmful, KeepsOthers, TypeOK
  <2>3. CASE Look(p)
    <3>1. region[p] \in Regions /\ Check(p, region[p]) /\ CheckedOnly(p, region[p])
      BY <2>3, LooksAreChecks DEF Opened
    <3>2. p \notin sawTaint
      BY <1>0, <2>3 DEF Look, MissedByItself, Harmful
    <3>3. region[p] \in tainted /\ ~NeedsRecovery(p, region[p]) /\ pc'[p] = "register"
          /\ region' = region
      BY <1>0, <1>p, <2>3, <3>2 DEF Look, TypeOK
    <3>4. \/ region[p] \in overlooked
          \/ p \in Registry(p).pids /\ pid_file[p] = "free"
      BY <2>3, <3>3, LookMissesItself
    <3> QED
      BY <3>1, <3>3, <3>4 DEF CheckedOnly
  <2>4. CASE Remove(p)
    BY <1>0, <1>r, <1>p, <2>4
       DEF Remove, history, files, MissedByItself, Harmful, KeepsOthers, TypeOK
  <2>5. CASE Create(p)
    BY <1>0, <1>r, <1>p, <2>5
       DEF Create, history, files, MissedByItself, Harmful, KeepsOthers, TypeOK
  <2>6. CASE Construct(p)
    BY <1>0, <1>r, <1>p, <2>6
       DEF Construct, history, files, MissedByItself, Harmful, KeepsOthers, TypeOK
  <2>7. CASE Register(p)
    BY <1>0, <1>r, <1>p, <2>7
       DEF Register, RegistryIsFree, history, MissedByItself, Harmful, KeepsOthers, TypeOK
  <2>8. CASE AlreadyRegistered(p)
    BY <1>0, <1>r, <1>p, <2>8
       DEF AlreadyRegistered, MissedByItself, Harmful, KeepsOthers, TypeOK
  <2>9. CASE Lock(p)
    BY <1>0, <1>r, <1>p, <2>9
       DEF Lock, LockPidFile, DropRegistry, history, MissedByItself, Harmful, KeepsOthers,
           TypeOK
  <2>10. CASE Attach(p)
    BY <1>0, <1>r, <1>p, <2>10
       DEF Attach, history, MissedByItself, Harmful, KeepsOthers, TypeOK
  <2>11. CASE Recover(p)
    BY <1>0, <1>r, <1>p, <2>11
       DEF Recover, history, MissedByItself, Harmful, KeepsOthers, TypeOK
  <2>12. CASE FailToRecover(p)
    BY <1>0, <1>r, <1>p, <2>12
       DEF FailToRecover, history, MissedByItself, Harmful, KeepsOthers, TypeOK
  <2>13. CASE BeginCommit(p)
    BY <1>0, <1>r, <1>p, <2>13
       DEF BeginCommit, history, files, MissedByItself, Harmful, KeepsOthers, TypeOK
  <2>14. CASE WriteLog(p)
    BY <1>0, <1>r, <1>p, <2>14
       DEF WriteLog, history, files, MissedByItself, Harmful, KeepsOthers, TypeOK
  <2>15. CASE CheckIntegrity(p)
    BY <1>0, <1>r, <1>p, <2>15
       DEF CheckIntegrity, process, MissedByItself, Harmful, KeepsOthers, TypeOK
  <2>16. CASE CloseLast(p)
    BY <1>0, <1>r, <1>p, <2>16
       DEF CloseLast, history, files, MissedByItself, Harmful, KeepsOthers, TypeOK
  <2>17. CASE Unregister(p)
    BY <1>0, <1>r, <1>p, <2>17
       DEF Unregister, RegistryIsFree, MissedByItself, Harmful, KeepsOthers, TypeOK
  <2>18. CASE BeginRemoval(p)
    BY <1>0, <1>r, <1>p, <2>18
       DEF BeginRemoval, history, files, MissedByItself, Harmful, KeepsOthers, TypeOK
  <2>19. CASE Mark(p)
    BY <1>0, <1>r, <1>p, <2>19
       DEF Mark, files, MissedByItself, Harmful, KeepsOthers, TypeOK
  <2>20. CASE Unlink(p)
    BY <1>0, <1>r, <1>p, <2>20
       DEF Unlink, files, MissedByItself, Harmful, KeepsOthers, TypeOK
  <2>21. CASE Die(p)
    BY <1>0, <1>r, <1>p, <2>21
       DEF Die, Released, MissedByItself, Harmful, KeepsOthers, TypeOK
  <2> QED
    BY <2>1, <2>2, <2>3, <2>4, <2>5, <2>6, <2>7, <2>8, <2>9, <2>10, <2>11, <2>12, <2>13,
       <2>14, <2>15, <2>16, <2>17, <2>18, <2>19, <2>20, <2>21
       DEF Step, Opening, Using, Removing
<1> QED
  BY <1>0, <1>x, <1>p DEF MissedByItself, KeepsOthers

-----------------------------------------------------------------------------
\* The theorems

\* A database nobody has opened yet satisfies the invariant.
LEMMA InitOpened == Init => Opened
BY BoundsAssumption, NobodyAssumption
   DEF Init, Opened, TypeOK, Mapped, Constructed, NamelessIsGivenUp, Registered,
       DeathsShow,
       MissedByItself, Inside, Harmful, Blank

\* Every step of every process keeps it.
LEMMA NextOpened == Opened /\ [Next]_vars => Opened'
<1> SUFFICES ASSUME Opened, [Next]_vars
             PROVE  Opened'
  OBVIOUS
<1>1. ASSUME NEW p \in Procs, Step(p)
      PROVE  Opened'
  BY <1>1, NextTypeOK, NextMapped, NextConstructed, NextNamelessIsGivenUp, NextRegistered,
     NextDeathsShow, NextMissedByItself DEF Opened
<1>2. CASE UNCHANGED vars
  BY <1>2
     DEF vars, files, process, counters, history, Opened, TypeOK, Mapped, Constructed,
     NamelessIsGivenUp, GivenUp, Registered, DeathsShow, Witness, Enterable, MissedByItself,
     Inside, Harmful
<1> QED
  BY <1>1, <1>2 DEF Next

\* Who gets into a region that a death has spoilt finds it marked.
LEMMA OpenedIsClean == Opened => JoinedClean
<1> SUFFICES ASSUME Opened, NEW p \in Procs, Harmful(p), p \in sawTaint
             PROVE  ~Valid(region[p]) \/ region[p] \in overlooked
  BY DEF JoinedClean
<1>1. pc[p] # "register"
  BY DEF Harmful
<1>2. registry[region[p]].invalid \/ region[p] \in overlooked
  BY <1>1 DEF Opened, MissedByItself
<1>3. registry[region[p]].constructed
  BY DEF Opened, Constructed
<1> QED
  BY <1>2, <1>3 DEF Valid

\* Of two regions one does not have the name, and so was given up.
LEMMA OpenedIsOne == Opened => OneUsableRegion
<1> SUFFICES ASSUME Opened, NEW r, NEW s, r \in Regions, s \in Regions, r # s,
                    Working(r), Working(s)
             PROVE  {r, s} \cap untold # {}
  BY DEF OneUsableRegion
<1>1. ASSUME NEW x \in Regions, Working(x)
      PROVE  x \in 1 .. made /\ ~registry[x].invalid
  <2>1. PICK p \in Procs : region[p] = x /\ pc[p] \in {"open", "commit"}
    BY <1>1 DEF Working
  <2>2. x \in 1 .. made
    BY <2>1 DEF Opened, TypeOK, Mapped
  <2> QED
    BY <1>1, <2>2 DEF Working, Usable, Valid, Opened, Constructed
<1>2. PICK x \in {r, s} : x # named
  OBVIOUS
<1>3. GivenUp(x)
  BY <1>1, <1>2 DEF Opened, NamelessIsGivenUp
<1> QED
  BY <1>1, <1>2, <1>3 DEF GivenUp

\* For any number of processes, deaths and removals: opening never ends in a region that a
\* death has spoilt nor beside another one in use, as RegionsAreSound says it.
THEOREM OpeningIsSound == Spec => []RegionsAreSound
<1>1. Opened => RegionsAreSound
  BY OpenedIsClean, OpenedIsOne DEF Opened, RegionsAreSound
<1> QED
  BY <1>1, InitOpened, NextOpened, PTL DEF Spec

=============================================================================

--------------------------- MODULE CheckpointFile ---------------------------
(***************************************************************************)
(* The checkpoint file of one container: how checkpoint_ofstream gives     *)
(* rows of different sizes their places in it (best fit, extension of the  *)
(* file, places that become free only with the next metafile, merging of   *)
(* neighbours), how trans_map::save_checkpoint moves rows while others     *)
(* change them, and how checkpoint_iterator reads the file back.           *)
(*                                                                         *)
(* Durability takes the places of a checkpoint for given and asks what     *)
(* transactions survive; here changes are committed and logged in one      *)
(* step, and the places are the matter.  save_checkpoint takes up to ten   *)
(* rows at a time under the sharable lock and writes them without it; here *)
(* it takes one, so that few keys stand for rows of several such segments. *)
(* Offsets and lengths are counted in units of entry_alignment.            *)
(*                                                                         *)
(* Beside a few operators X stands X_Name, the same with a plausible slip  *)
(* of the code.  Nothing uses those: put in the place of X each one breaks *)
(* the property that is there to catch it, as PROJECT.json records.        *)
(***************************************************************************)
EXTENDS Integers, Sequences, FiniteSetsExt, Functions, SequencesExt

CONSTANTS
    Keys,           \* the rows' keys, numbers in the order of the container
    Sizes,          \* the sizes in bytes that a serialized row may have
    Alignment,      \* entry_alignment, in bytes
    Header,         \* sizeof(std::size_t), the length in front of every image
    Extension,      \* extension_size, in units
    MaxChanges,     \* bound: committed changes
    MaxCheckpoints, \* bound: checkpoints
    MaxTroubles     \* bound: crashes, checkpoints that fail and clear()s, all together

ASSUME SizesAssumption ==
    /\ Keys \subseteq Nat \ {0} /\ IsFiniteSet(Keys)
    /\ Sizes \subseteq Nat \ {0} /\ Alignment \in Nat \ {0} /\ Header \in Nat
    /\ Extension \in Nat \ {0}
ASSUME BoundsAssumption == {MaxChanges, MaxCheckpoints, MaxTroubles} \subseteq Nat

VARIABLES
    \* in the region
    rows,                  \* the container: of each key the LSN, size and checkpoint location
    freed,                 \* _freed_checkpoint_space
    uncheckpointed_clear,  \* _uncheckpointed_clear
    ckpt_history,          \* ckpt_history_map: the LSN of the last checkpoint
    ckpt,                  \* the checkpoint in progress: its checkpoint_ofstream and its scan
    \* on disk
    log,                   \* the changes in the order of their LSNs
    image,                 \* the images that are whole in the checkpoint file
    metas,                 \* the metafiles of the container
    \* bookkeeping for the properties
    departures,            \* which of the known departures have happened
    checkpoints, troubles

memory == <<rows, freed, uncheckpointed_clear, ckpt_history>>
disk == <<log, image, metas>>
vars == <<memory, ckpt, disk, departures, checkpoints, troubles>>

-----------------------------------------------------------------------------
\* Places: an offset and a length

Place(off, len) == [off |-> off, len |-> len]
Nowhere == Place(0, 0)
End(p) == p.off + p.len
UnitsOf(p) == p.off .. End(p) - 1
Units(places) == UNION {UnitsOf(p) : p \in places}

\* A std::map by offset keeps the place that it has when another comes with its offset.
With(places, p) == IF \E q \in places : q.off = p.off THEN places ELSE places \cup {p}
WithAll(places, others) == places \cup {p \in others : \A q \in places : q.off # p.off}

ByOffset(places) == SetToSortSeq(places, LAMBDA p, q : p.off < q.off)

\* add_free_space: places that touch become one.
Grown(merged, p) ==
    IF merged # <<>> /\ p.off <= End(Last(merged))
      THEN Append(Front(merged), Place(Last(merged).off, Last(merged).len + p.len))
      ELSE Append(merged, p)
Reconciled(places) == ToSet(FoldLeft(Grown, <<>>, ByOffset(places)))

\* The stretches of the file that are not free.
Occupied(free, length) ==
    {p \in {Place(from, to - from) : from \in {0} \cup {End(f) : f \in free},
                                     to \in {length} \cup {f.off : f \in free}} :
        p.len > 0 /\ \A f \in free : UnitsOf(f) \cap UnitsOf(p) = {}}

-----------------------------------------------------------------------------
NoRow == [lsn |-> 0, size |-> 0, loc |-> Nowhere]
Present(row) == row.lsn # 0
Nothing == [k \in Keys |-> NoRow]
LastWrite == Len(log)

NoMeta == [start |-> 0, free |-> {}, length |-> 0]
\* get_current_metafile: the one of the latest checkpoint.
meta ==
    IF metas = {} THEN NoMeta ELSE CHOOSE m \in metas : \A n \in metas : m.start >= n.start

\* ckpt.at: "off"; "start", the metafile read and save_checkpoint called; "write", a row copied;
\* "note", it is written; "commit", save_checkpoint is done; "clean", the metafile has its name.
Off == [at |-> "off", start |-> 0, last |-> 0, free |-> {}, length |-> 0, new_free |-> {},
        key |-> 0, lsn |-> 0, size |-> 0, prev |-> Nowhere, new |-> Nowhere, next |-> 0]

Init ==
    /\ rows = Nothing
    /\ freed = {}
    /\ uncheckpointed_clear = FALSE
    /\ ckpt_history = 0
    /\ ckpt = Off
    /\ log = <<>>
    /\ image = {}
    /\ metas = {}
    /\ departures = {}
    /\ checkpoints = 0
    /\ troubles = 0

-----------------------------------------------------------------------------
\* Changes of the container, committed and logged

Change(op, k, size) ==
    /\ LastWrite < MaxChanges
    /\ log' = Append(log, [op |-> op, key |-> k, size |-> size])

Put(k, size, loc) ==
    rows' = [rows EXCEPT ![k] = [lsn |-> LastWrite + 1, size |-> size, loc |-> loc]]

Trouble == troubles < MaxTroubles /\ troubles' = troubles + 1

Insert(k, size) ==
    /\ ~Present(rows[k])
    /\ Change("insert", k, size)
    /\ Put(k, size, Nowhere)
    /\ UNCHANGED <<freed, uncheckpointed_clear>>

\* An update leaves the location alone.
Update(k, size) ==
    /\ Present(rows[k])
    /\ Change("update", k, size)
    /\ Put(k, size, rows[k].loc)
    /\ UNCHANGED <<freed, uncheckpointed_clear>>

FreedBy(row) == IF row.loc.len > 0 THEN With(freed, row.loc) ELSE freed

Erase(k) ==
    /\ Present(rows[k])
    /\ Change("erase", k, 0)
    /\ freed' = FreedBy(rows[k])
    /\ rows' = [rows EXCEPT ![k] = NoRow]
    /\ UNCHANGED uncheckpointed_clear

Clear ==
    /\ Trouble
    /\ Change("clear", 0, 0)
    /\ rows' = Nothing
    /\ uncheckpointed_clear' = TRUE
    /\ departures' = IF ckpt.at = "off" THEN departures ELSE departures \cup {"clear"}
    /\ UNCHANGED freed

ChangeRows ==
    /\ \/ \E k \in Keys, size \in Sizes : Insert(k, size) \/ Update(k, size)
       \/ \E k \in Keys : Erase(k)
    /\ UNCHANGED <<departures, troubles>>

Work ==
    /\ ChangeRows \/ Clear
    /\ UNCHANGED <<ckpt_history, ckpt, image, metas, checkpoints>>

-----------------------------------------------------------------------------
\* The checkpoint

\* Database::checkpoint passes over a container that has seen no change since its last one.
OpenCheckpoint ==
    /\ ckpt.at = "off"
    /\ checkpoints < MaxCheckpoints
    /\ LastWrite > ckpt_history
    /\ ckpt' = [Off EXCEPT !.at = "start", !.start = LastWrite, !.last = ckpt_history,
                           !.free = meta.free, !.length = meta.length]
    /\ checkpoints' = checkpoints + 1
    /\ UNCHANGED <<memory, disk, departures, troubles>>

Due(s, k) == Present(rows[k]) /\ rows[k].lsn > s.last

\* Scanning goes on from the key k under the sharable lock until a row is due; at the end the
\* space that erased rows have left is taken along.  s is the checkpoint so far.
Scan(s, k) ==
    LET due == {j \in Keys : j >= k /\ Due(s, j)} IN
    IF due = {}
      THEN /\ ckpt' = [s EXCEPT !.at = "commit", !.new_free = WithAll(s.new_free, freed)]
           /\ freed' = {}
      ELSE LET j == Min(due)
               others == {i \in Keys : i > j /\ Present(rows[i])} IN
           /\ ckpt' = [s EXCEPT !.at = "write", !.key = j, !.lsn = rows[j].lsn,
                                !.size = rows[j].size, !.prev = rows[j].loc,
                                !.next = IF others = {} THEN 0 ELSE Min(others)]
           /\ UNCHANGED freed

\* After a clear() all that is not free becomes so.
TakeClear ==
    /\ ckpt.at = "start"
    /\ uncheckpointed_clear
    /\ ckpt' = [ckpt EXCEPT !.new_free = Occupied(ckpt.free, ckpt.length)]
    /\ freed' = {}
    /\ uncheckpointed_clear' = FALSE
    /\ UNCHANGED <<rows, ckpt_history, disk, departures, checkpoints, troubles>>

StartScan ==
    /\ ckpt.at = "start"
    /\ ~uncheckpointed_clear
    /\ Scan(ckpt, 1)
    /\ UNCHANGED <<rows, uncheckpointed_clear, ckpt_history, disk, departures, checkpoints,
                   troubles>>

Needed(size) == (size + Header + Alignment - 1) \div Alignment

\* The committed free space of the smallest length that is enough: any of those of that length.
Fits(free, units) ==
    LET enough == {p \in free : p.len >= units} IN
    {p \in enough : \A q \in enough : p.len <= q.len}

\* allocate: what it may make of the free space and the length of the file, and the place.
Allocations(s, units) ==
    LET grown == IF Fits(s.free, units) # {} THEN 0
                 ELSE IF Extension < units THEN units ELSE Extension
        free == IF grown = 0 THEN s.free ELSE With(s.free, Place(s.length, grown))
        rest(p) == Place(p.off + units, p.len - units) IN
    {[free |-> IF p.len = units THEN free \ {p} ELSE With(free \ {p}, rest(p)),
      length |-> s.length + grown, new |-> Place(p.off, units)] : p \in Fits(free, units)}

\* An image begins with its length: one that is written over is lost.
Written(p, k, n, size) ==
    {im \in image : UnitsOf(im.loc) \cap UnitsOf(p) = {}}
        \cup {[loc |-> p, key |-> k, lsn |-> n, size |-> size]}

\* write(obj): the image of a row gets its place and goes there.
Store(k, n, size) ==
    \E a \in Allocations(ckpt, Needed(size)) :
        /\ ckpt' = [ckpt EXCEPT !.at = "note", !.free = a.free, !.length = a.length, !.new = a.new]
        /\ image' = Written(a.new, k, n, size)

WriteRow ==
    /\ ckpt.at = "write"
    /\ Store(ckpt.key, ckpt.lsn, ckpt.size)
    /\ UNCHANGED <<memory, log, metas, departures, checkpoints, troubles>>

\* The row may be gone by now, or be another one of that key, which has no location.
Unmoved == Present(rows[ckpt.key]) /\ rows[ckpt.key].loc.off = ckpt.prev.off

Released_OnlyOld ==
    IF Unmoved /\ ckpt.prev.len > 0 THEN With(ckpt.new_free, ckpt.prev) ELSE ckpt.new_free
Released ==
    IF ~Unmoved THEN With(ckpt.new_free, ckpt.new)
    ELSE IF ckpt.prev.len > 0 THEN With(ckpt.new_free, ckpt.prev) ELSE ckpt.new_free

\* The stream after the row is noted.
Noted_FreeAtOnce == [ckpt EXCEPT !.free = WithAll(ckpt.free, Released)]
Noted == [ckpt EXCEPT !.new_free = Released]

NoteRow ==
    /\ ckpt.at = "note"
    /\ rows' = IF Unmoved THEN [rows EXCEPT ![ckpt.key].loc = ckpt.new] ELSE rows
    /\ IF ckpt.next # 0
         THEN Scan(Noted, ckpt.next)
         ELSE /\ ckpt' = [Noted EXCEPT !.at = "commit", !.new_free = WithAll(Released, freed)]
              /\ freed' = {}
    /\ UNCHANGED <<uncheckpointed_clear, ckpt_history, disk, departures, checkpoints,
                   troubles>>

\* The space that has become free is free for the next checkpoint.  Everything before the
\* renaming of the metafile leaves the current checkpoint alone.
NewMeta ==
    [start |-> ckpt.start, free |-> Reconciled(WithAll(ckpt.free, ckpt.new_free)),
     length |-> ckpt.length]

CommitCheckpoint ==
    /\ ckpt.at = "commit"
    /\ metas' = metas \cup {NewMeta}
    /\ ckpt_history' = ckpt.start
    /\ ckpt' = [Off EXCEPT !.at = "clean"]
    /\ UNCHANGED <<rows, freed, uncheckpointed_clear, log, image, departures, checkpoints, troubles>>

\* The metafiles from before are removed, those that can be.
CleanUp ==
    /\ ckpt.at = "clean"
    /\ \E left \in SUBSET (metas \ {meta}) :
          /\ left # {} => troubles < MaxTroubles
          /\ metas' = {meta} \cup left
          /\ troubles' = IF left = {} THEN troubles ELSE troubles + 1
    /\ ckpt' = Off
    /\ UNCHANGED <<memory, log, image, departures, checkpoints>>

Failing ==
    /\ Trouble
    /\ departures' = departures \cup {"failure"}
    /\ ckpt' = Off
    /\ UNCHANGED <<rows, freed, uncheckpointed_clear, disk, checkpoints>>

\* A write fails: the exception ends save_checkpoint, and the container is passed over.
FailWrite == ckpt.at = "write" /\ Failing /\ UNCHANGED ckpt_history

\* The metafile cannot be renamed: by then the checkpoint is in the history.
FailCommit == ckpt.at = "commit" /\ Failing /\ ckpt_history' = ckpt.start

Checkpoint ==
    \/ OpenCheckpoint \/ TakeClear \/ StartScan \/ WriteRow \/ NoteRow \/ CommitCheckpoint
    \/ CleanUp \/ FailWrite \/ FailCommit

-----------------------------------------------------------------------------
\* A crash, and what the next process makes of the files

\* The images that a load gets to from an offset on.  Free places are stepped over; an image is
\* handed over when the one behind it is asked for, unless the file ends right there.
AtEnd(m, off) == off = m.length
ImagesFrom(m) ==
    LET read[off \in 0..m.length] ==
          IF AtEnd(m, off) THEN {}
          ELSE IF \E p \in m.free : p.off = off /\ End(p) <= m.length
                 THEN read[End(CHOOSE p \in m.free : p.off = off)]
          ELSE IF \E im \in image : im.loc.off = off /\ End(im.loc) <= m.length /\ ~AtEnd(m, End(im.loc))
                 THEN LET im == CHOOSE i \in image : i.loc.off = off
                      IN {im} \cup read[End(im.loc)]
          ELSE {}
    IN read[0]

\* The first image of a key is inserted.
Loaded(m) ==
    LET images == ImagesFrom(m)
        of(k) == {im \in images : im.key = k}
    IN [k \in Keys |->
          IF of(k) = {} THEN NoRow
          ELSE LET im == CHOOSE i \in of(k) : \A j \in of(k) : i.loc.off <= j.loc.off
               IN [lsn |-> im.lsn, size |-> im.size, loc |-> im.loc]]

\* What recover() of an operation makes of a row of the loaded map.
Redone(change, n, loc) == [lsn |-> n, size |-> change.size, loc |-> loc]
RedoInsert(s, change, n) ==
    IF Present(s.rows[change.key]) THEN s
    ELSE [s EXCEPT !.rows[change.key] = Redone(change, n, Nowhere)]
RedoUpdate(s, change, n) == [s EXCEPT !.rows[change.key] = Redone(change, n, @.loc)]
RedoErase(s, change) ==
    LET left == s.rows[change.key].loc IN
    [s EXCEPT !.rows[change.key] = NoRow, !.freed = IF left.len > 0 THEN With(@, left) ELSE @]
RedoClear(s) == [s EXCEPT !.rows = Nothing, !.cleared = TRUE]

\* The changes behind the checkpoint's LSN are done again; n is the LSN of the change.
Redo(s, n) ==
    CASE log[n].op = "insert" -> RedoInsert(s, log[n], n)
      [] log[n].op = "update" -> RedoUpdate(s, log[n], n)
      [] log[n].op = "erase" -> RedoErase(s, log[n])
      [] log[n].op = "clear" -> RedoClear(s)

RedoFrom(m) == [i \in 1..(LastWrite - m.start) |-> m.start + i]
Recovered ==
    FoldLeft(Redo, [rows |-> Loaded(meta), freed |-> {}, cleared |-> FALSE], RedoFrom(meta))

\* The last image of a checkpoint ends where the file ends.
EndsFull(m) == m.length > 0 /\ \A p \in m.free : End(p) # m.length

Crash ==
    /\ Trouble
    /\ rows' = Recovered.rows
    /\ freed' = Recovered.freed
    /\ uncheckpointed_clear' = Recovered.cleared
    /\ ckpt_history' = meta.start
    /\ ckpt' = Off
    /\ departures' = IF EndsFull(meta) THEN departures \cup {"full"} ELSE departures
    /\ UNCHANGED <<disk, checkpoints>>

Next == Work \/ Checkpoint \/ Crash

-----------------------------------------------------------------------------
\* ckpt_inspector, a program that looks a checkpoint over

\* Free places that follow each other and touch or overlap.
Adjacent(m) ==
    LET places == ByOffset(m.free) IN
    {i \in 1 .. Len(places) - 1 : End(places[i]) >= places[i + 1].off}

\* The free place in front of an image is looked at where there is one at it or behind it.
Before(m, im) == {p \in m.free : p.off < im.loc.off}
Behind(m, im) == {p \in m.free : p.off > im.loc.off}
Overlaps(m, im) ==
    \/ /\ \E p \in m.free : p.off >= im.loc.off
       /\ \E p \in Before(m, im) : End(p) > im.loc.off
    \/ \E p \in Behind(m, im) : End(im.loc) > p.off

Redundant(m) ==
    {im \in ImagesFrom(m) : \E i \in ImagesFrom(m) : i.key = im.key /\ i.loc.off < im.loc.off}

Complains(m) ==
    Adjacent(m) # {} \/ Redundant(m) # {} \/ \E im \in ImagesFrom(m) : Overlaps(m, im)

Spec == Init /\ [][Next]_vars

-----------------------------------------------------------------------------
\* Properties

Places == [off : Nat, len : Nat]

\* Every variable has its type, and every image with the length in front of it has room in the
\* place that allocate gave it.
TypeOK ==
    /\ \A k \in Keys : rows[k].lsn \in 0..LastWrite /\ rows[k].loc \in Places
    /\ freed \subseteq Places
    /\ uncheckpointed_clear \in BOOLEAN
    /\ {ckpt_history, meta.start} \subseteq 0..LastWrite
    /\ ckpt.at \in {"off", "start", "write", "note", "commit", "clean"}
    /\ ckpt.free \cup ckpt.new_free \cup meta.free \subseteq Places
    /\ \A im \in image : im.size + Header <= im.loc.len * Alignment
    /\ departures \subseteq {"full", "failure", "clear"}

\* Recovery brings back exactly the rows that are committed: no place of the current checkpoint
\* is written over or skipped by the load, and none holds a row from before.  This is not so
\* once the last image ends at the end of the file, which the load reads and does not insert;
\* once a checkpoint has failed after rows got their new places; or once a clear() came during
\* a checkpoint, after which add_free_space merges places that overlap.
Content(rs) == [k \in Keys |-> <<rs[k].lsn, rs[k].size>>]
RecoveredIsCommitted ==
    departures = {} /\ ~EndsFull(meta) => Content(Recovered.rows) = Content(rows)

\* Every unit of the file has one use: it is free, or becomes free with the next metafile, or
\* was left by an erased row, or holds one row; none is used twice, and none is lost.
Moving == IF ckpt.at = "note" THEN {ckpt.new} ELSE {}
RowPlaces == {rows[k].loc : k \in {j \in Keys : Present(rows[j])}} \ {Nowhere}
Idle == ckpt.at \in {"off", "clean"}
FreePlaces == IF Idle THEN meta.free ELSE ckpt.free
Length == IF Idle THEN meta.length ELSE ckpt.length
SpaceHasOneUse ==
    departures = {} =>
        LET uses == <<Units(FreePlaces), Units(ckpt.new_free \cup freed), Units(RowPlaces), Units(Moving)>> IN
        /\ \A i, j \in DOMAIN uses : i < j => uses[i] \cap uses[j] = {}
        /\ \A j, k \in Keys : j # k => UnitsOf(rows[j].loc) \cap UnitsOf(rows[k].loc) = {}
        /\ ~uncheckpointed_clear => UNION ToSet(uses) = 0..Length - 1

\* The free places of a metafile do not touch, so that a row that needs their sum finds it.
FreeSpaceIsMerged ==
    \A p, q \in meta.free : End(p) # q.off

\* The inspector finds nothing to complain of in the current checkpoint: no image of a
\* row is left behind where the next one is loaded, too, and none lies in free space.
InspectorIsContent == departures = {} => ~Complains(meta)

\* The file's space is kept whole: what is free is known, merged, and free.
SpaceIsKept == TypeOK /\ SpaceHasOneUse /\ FreeSpaceIsMerged /\ InspectorIsContent

=============================================================================

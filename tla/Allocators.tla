----------------------------- MODULE Allocators -----------------------------
(***************************************************************************)
(* Where the text of a string in the region lives: in one of the segments  *)
(* of a variable_node_allocator, chunks of the region that each have a     *)
(* manager of their own, so that small strings cluster; or, for a string   *)
(* made while no scoped_allocation names a region, on the heap of the      *)
(* process.  allocate() tries the segment that served last under a shared  *)
(* lock; only if that fails does it look through the whole set with the    *)
(* lock held exclusively, and add a segment when none has room: two steps, *)
(* between which others allocate and add segments of their own.            *)
(*                                                                         *)
(* All strings are of one size here, at most that of a segment; a segment  *)
(* is the address of its chunk and has room for Capacity of them.  Memory  *)
(* of a segment that is not the one with the highest address is not        *)
(* recognised when it is given back: the manager of the region frees it    *)
(* inside a chunk of its own.  Nothing is promised after that              *)
(* (misdirected).                                                          *)
(*                                                                         *)
(* Beside a few operators X stands X_Name, the same with a plausible slip  *)
(* of the code, which nothing here uses.                                   *)
(***************************************************************************)
EXTENDS Integers, Sequences, FiniteSetsExt, SequencesExt

CONSTANTS
    Segments,   \* bound: the addresses at which the region has room for a chunk
    Capacity,   \* bound: the strings that a segment has room for
    Heap,       \* what stands for memory outside the region
    NoSegment

ASSUME SegmentsAssumption == Segments \subseteq Nat /\ IsFiniteSet(Segments)
ASSUME CapacityAssumption == Capacity \in Nat \ {0}

VARIABLES
    segments,     \* the segment_set of the region
    lastalloc,    \* m_lastalloc: the segment that served last
    used,         \* how many strings the manager of each segment has given out
    misdirected   \* whether memory of a segment went to the region's manager

memory == <<segments, lastalloc, used, misdirected>>

MemoryInit ==
    /\ segments = {}
    /\ lastalloc = NoSegment
    /\ used = [s \in Segments |-> 0]
    /\ misdirected = FALSE

HasRoom(s) == used[s] < Capacity
Given(s) == used' = [used EXCEPT ![s] = @ + 1]

\* A string's allocator is that of the region in scope when it is made.
PlaceOf(s) == s

\* Under the shared lock.
LastHasRoom == lastalloc # NoSegment /\ HasRoom(lastalloc)
AllocateFromLast ==
    /\ LastHasRoom
    /\ Given(lastalloc)
    /\ UNCHANGED <<segments, lastalloc, misdirected>>

\* Under the exclusive lock: the first segment with room, by address.
SegmentsWithRoom_NoRescan == {}
SegmentsWithRoom == {s \in segments : HasRoom(s)}
AllocateFrom(s) ==
    /\ s \in SegmentsWithRoom
    /\ s = Min(SegmentsWithRoom)
    /\ Given(s)
    /\ lastalloc' = s
    /\ UNCHANGED <<segments, misdirected>>

\* A new segment, wherever the region has room for it.
NewSegment(s) ==
    /\ SegmentsWithRoom = {}
    /\ s \in Segments \ segments
    /\ segments' = segments \cup {s}
    /\ Given(s)
    /\ lastalloc' = s
    /\ UNCHANGED misdirected
\* Or it has none: nodes and their values take room in it, too.
OutOfMemory == SegmentsWithRoom = {}

\* segment_containing(): the last segment, or none that the address lies in.
IsContained(s) == s \in segments /\ s = Max(segments)

\* Giving back the strings at these places.
CountAt(s, places) == Cardinality({i \in DOMAIN places : places[i] = s})
Deallocate(places) ==
    /\ used' = [s \in Segments |-> used[s] - CountAt(s, places)]
    /\ misdirected' = (\E i \in DOMAIN places : places[i] # Heap /\ ~IsContained(places[i]))
    /\ UNCHANGED <<segments, lastalloc>>

\* A region that recovery has built anew, with strings at these places.
Rebuilt(places) ==
    /\ used' = [s \in Segments |-> CountAt(s, places)]
    /\ \A s \in Segments : used'[s] <= Capacity
    /\ segments' = Range(places) /\ segments' \subseteq Segments
    /\ Cardinality(segments') * Capacity < Len(places) + Capacity
    /\ lastalloc' = IF places = <<>> THEN NoSegment ELSE Last(places)
    /\ misdirected' = FALSE

=============================================================================

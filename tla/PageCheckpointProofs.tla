------------------------ MODULE PageCheckpointProofs ------------------------
(***************************************************************************)
(* Theorems about PageCheckpoint, for any number of threads, processes,    *)
(* pages and mutexes: there is always a place for the next page, and what  *)
(* a loader gets is the region at one moment (SnapshotPromise).            *)
(***************************************************************************)
EXTENDS PageCheckpoint, TLAPS, SequenceTheorems, FiniteSetTheorems, WellFoundedInduction

-----------------------------------------------------------------------------
\* The inductive invariant of the places and the mutexes

\* Who copies a page holds its mutex, and the page has its place and is still needed.
Copying(t) == pc[t] \in {"copy", "clear"}
CkptCopying == ckpt.pc \in {"copy", "clear"}
CopiersHoldMutex ==
    /\ \A t \in Threads : Copying(t) =>
          /\ mutex[MutexOf(at[t])] = t
          /\ at[t] \in change_info_inprog.bits /\ page_locs[at[t]] = got[t]
    /\ CkptCopying =>
          /\ MoreEntries /\ mutex[MutexOf(Entry)] = "checkpoint"
          /\ Entry \in change_info_inprog.bits /\ page_locs[Entry] = ckpt.place

\* The pages of a checkpoint are listed once each, and those that are still needed are not
\* yet passed.  The counters make up for those that are not needed any more.
Listed(info) == {info.pages[i] : i \in 1 .. Len(info.pages)}
ListedOnce(info) ==
    \A i, j \in 1 .. Len(info.pages) : info.pages[i] = info.pages[j] => i = j
PagesAreCounted ==
    /\ ListedOnce(change_info) /\ ListedOnce(change_info_inprog)
    /\ change_info.bits = Listed(change_info)
    /\ change_info.written = 0 /\ change_info.demanded = 0
    /\ \A p \in change_info_inprog.bits :
          \E i \in ckpt.entry .. Len(change_info_inprog.pages) : change_info_inprog.pages[i] = p
    /\ Len(change_info.pages) = Cardinality(change_info.bits)
    /\ Len(change_info_inprog.pages) = change_info_inprog.written
           + change_info_inprog.demanded + Cardinality(change_info_inprog.bits)

\* A place that is not free, nor about to be, holds a page; between checkpoints none is
\* about to be free.
PlacesAreUsed ==
    /\ \A c \in Places \ (free_pages \cup pending_free_pages) : \E p \in Pages : page_locs[p] = c
    /\ ckpt.pc = "idle" => pending_free_pages = {} /\ change_info_inprog = NoChanges

\* A place is free for each page that still needs one.
PlacesLeft == Cardinality(free_pages) >= Cardinality(change_info_inprog.bits \ BeingCopied)

InOrder ==
    /\ TypeOK /\ CopiersHoldMutex /\ PagesAreCounted /\ PlacesInOneUse /\ PlacesAreUsed
    /\ PlacesLeft

-----------------------------------------------------------------------------
\* The inductive invariant of the contents

\* The handler runs inside of a transaction, so no checkpoint starts in the middle of it;
\* past its look the page is not needed any more.
HandlersAreInside ==
    /\ \A t \in Threads : pc[t] # "idle" => t \in readers
    /\ \A t \in Threads :
          pc[t] \in {"note", "unprotect", "retry"} => at[t] \notin change_info_inprog.bits
    /\ change_info.bits \cap change_info_inprog.bits = {}

\* What the last complete checkpoint needs is neither free nor copied to.
SavedIsKept ==
    \A p \in Pages : saved[p] # Nowhere =>
        /\ saved[p] \notin free_pages
        /\ \A t \in Threads : Copying(t) => got[t] # saved[p]
        /\ CkptCopying => ckpt.place # saved[p]

\* A page that nobody has noted is as it was when the checkpoint began, and so is the copy
\* of a page that is not needed any more.
Image(p) == IF page_locs[p] = Nowhere THEN 0 ELSE file[page_locs[p]]
ContentsAreKept ==
    /\ \A p \in Pages \ untracked :
          /\ p \notin change_info.bits => region[p] = snapshot[p]
          /\ p \notin change_info_inprog.bits => Image(p) = snapshot[p]
    /\ \A t \in Threads :
          pc[t] = "clear" /\ at[t] \notin untracked => file[got[t]] = snapshot[at[t]]
    /\ ckpt.pc = "clear" /\ Entry \notin untracked => file[ckpt.place] = snapshot[Entry]

Kept == InOrder /\ HandlersAreInside /\ SavedIsKept /\ ContentsAreKept

-----------------------------------------------------------------------------
\* Lemmas about the operators of the model

USE DEF Pages, Places, Mutexes

\* Every page has a mutex.
LEMMA MutexTypes == \A p \in Pages : MutexOf(p) \in Mutexes
BY PagesAssumption DEF MutexOf

\* A distance is a number, so that there is a least one.
LEMMA DistanceTypes == \A p \in Pages, c \in Places : Distance(p, c) \in Nat
BY PagesAssumption DEF Distance

\* A set of numbers has a least element.
LEMMA LeastOfNats ==
    ASSUME NEW S, S \subseteq Nat, S # {}
    PROVE  \E x \in S : \A y \in S : x <= y
<1> DEFINE R == {m \in Nat \X Nat : m[1] < m[2]}
<1>1. IsWellFoundedOn(R, Nat)
  BY NatLessThanWellFounded DEF OpToRel
<1> HIDE DEF R
<1>2. PICK x \in S : \A y \in S : ~(<<y, x>> \in R)
  BY <1>1, WFMin
<1>3. \A y \in S : ~(y < x)
  BY <1>2 DEF R
<1> QED
  BY <1>3

\* The search for the nearest free place ends at one if there is one.
LEMMA NearestIsFree ==
    ASSUME free_pages \subseteq Places, free_pages # {}, NEW p \in Pages
    PROVE  NearestFree(p) \in free_pages
<1> DEFINE S == {Distance(p, c) : c \in free_pages}
<1>1. S \subseteq Nat /\ S # {}
  BY DistanceTypes
<1>2. PICK x \in S : \A y \in S : x <= y
  BY <1>1, LeastOfNats
<1>3. \E c \in free_pages : \A d \in free_pages : Distance(p, c) <= Distance(p, d)
  BY <1>2
<1> QED
  BY <1>3 DEF NearestFree

\* The sets of pages and of places are finite.
LEMMA PagesAreFinite ==
    /\ \A S : S \subseteq Pages => IsFiniteSet(S) /\ Cardinality(S) \in 0 .. N
    /\ \A S : S \subseteq Places => IsFiniteSet(S) /\ Cardinality(S) \in Nat
    /\ IsFiniteSet(Places) /\ Cardinality(Places) = 2 * N
<1>1. IsFiniteSet(Pages) /\ Cardinality(Pages) = N
  BY PagesAssumption, FS_Interval
<1>2. IsFiniteSet(Places) /\ Cardinality(Places) = 2 * N
  BY PagesAssumption, FS_Interval
<1> QED
  BY <1>1, <1>2, FS_Subset, FS_CardinalityType, PagesAssumption

\* The entry that checkpoint() is at is a page.
LEMMA EntryTypes == TypeOK /\ MoreEntries => Entry \in Pages
<1> SUFFICES ASSUME TypeOK, MoreEntries
             PROVE  Entry \in Pages
  OBVIOUS
<1>1. change_info_inprog.pages \in Seq(Pages) /\ ckpt.entry \in Nat \ {0}
  BY DEF TypeOK, InfoTypes, ThreadTypes, Infos
<1>2. ckpt.entry \in 1 .. Len(change_info_inprog.pages)
  BY <1>1, LenProperties DEF MoreEntries
<1> QED
  BY <1>1, <1>2, ElementOfSeq DEF Entry

\* What the handler and checkpoint() make of the record of a checkpoint is one.
LEMMA InfoRecords ==
    ASSUME NEW info \in Infos, NEW p \in Pages
    PROVE  /\ Noted(info, p) \in Infos
           /\ [info EXCEPT !.bits = @ \ {p}, !.demanded = @ + 1] \in Infos
           /\ [info EXCEPT !.bits = @ \ {p}, !.written = @ + 1] \in Infos
           /\ [info EXCEPT !.pages = <<>>, !.written = 0, !.demanded = 0] \in Infos
<1>1. info.pages \in Seq(Pages) /\ Append(info.pages, p) \in Seq(Pages) /\ <<>> \in Seq(Pages)
  BY AppendProperties, EmptySeq DEF Infos
<1>2. Noted(info, p) \in Infos
  BY <1>1 DEF Noted, Infos
<1>3. /\ info.bits \ {p} \in SUBSET Pages
      /\ info.demanded + 1 \in Nat /\ info.written + 1 \in Nat
  BY DEF Infos
<1>4. /\ [info EXCEPT !.bits = @ \ {p}, !.demanded = @ + 1] \in Infos
      /\ [info EXCEPT !.bits = @ \ {p}, !.written = @ + 1] \in Infos
  BY <1>3 DEF Infos
<1>5. [info EXCEPT !.pages = <<>>, !.written = 0, !.demanded = 0] \in Infos
  BY <1>1 DEF Infos
<1> QED
  BY <1>2, <1>4, <1>5

\* Who copies a page it holds the mutex of: who finds the mutex free has a page that nobody
\* copies, and no two copy one page.
LEMMA FreeMutex ==
    ASSUME CopiersHoldMutex, NEW p \in Pages, mutex[MutexOf(p)] = Nobody
    PROVE  p \notin BeingCopied
BY ThreadsAssumption DEF CopiersHoldMutex, BeingCopied, Copying, CkptCopying

\* What allocate() does to the places.
AllocatesTo(p, c) ==
    /\ c \in free_pages /\ free_pages' = free_pages \ {c}
    /\ page_locs' = [page_locs EXCEPT ![p] = c]
    /\ page_locs' \in [Pages -> Somewhere] /\ ckpt_content' \in [Places -> Pages \cup {Nowhere}]
    /\ pending_free_pages' \in SUBSET Places
    /\ \A q \in Pages : page_locs[q] # c
    /\ PlacesInOneUse'
    /\ \A d \in Places \ (free_pages' \cup pending_free_pages') : \E q \in Pages : page_locs'[q] = d

\* A page that is still needed, and that nobody copies, gets a free place of its own; the one
\* it had is kept for a loader.
LEMMA AllocateWorks ==
    ASSUME InOrder, NEW p \in change_info_inprog.bits \ BeingCopied, NEW c \in Places,
           Allocate(p, c)
    PROVE  AllocatesTo(p, c)
<1> USE NowhereAssumption
<1>0. TypeOK /\ p \in Pages /\ c # Nowhere
  <2>1. TypeOK
    BY DEF InOrder
  <2>2. change_info_inprog.bits \subseteq Pages
    BY <2>1 DEF TypeOK, InfoTypes, Infos
  <2>3. Places \subseteq Nat
    BY PagesAssumption
  <2> QED
    BY <2>1, <2>2, <2>3
<1>1. c \in free_pages
  <2>1. change_info_inprog.bits \ BeingCopied \subseteq Pages /\ free_pages \subseteq Places
    BY <1>0 DEF TypeOK, InfoTypes, PlaceTypes, Infos
  <2>2. Cardinality(change_info_inprog.bits \ BeingCopied) # 0
    BY <2>1, PagesAreFinite, FS_EmptySet
  <2>3. free_pages # {}
    BY <2>1, <2>2, PagesAreFinite, FS_EmptySet DEF InOrder, PlacesLeft
  <2> QED
    BY <1>0, <2>1, <2>3, NearestIsFree DEF Allocate
<1>2. /\ free_pages' = free_pages \ {c}
      /\ pending_free_pages' = pending_free_pages \cup (IF page_locs[p] = Nowhere THEN {} ELSE {page_locs[p]})
      /\ page_locs' = [page_locs EXCEPT ![p] = c]
      /\ ckpt_content' = [d \in Places |-> IF d = c THEN p
                                           ELSE IF d = page_locs[p] THEN Nowhere
                                           ELSE ckpt_content[d]]
  BY DEF Allocate, FreeWithout, Vacated
<1>3. \A q \in Pages : page_locs[q] # c
  BY <1>0, <1>1 DEF InOrder, PlacesInOneUse, Placed
<1>4. /\ page_locs' \in [Pages -> Somewhere]
      /\ ckpt_content' \in [Places -> Pages \cup {Nowhere}]
      /\ pending_free_pages' \in SUBSET Places
  BY <1>0, <1>2 DEF TypeOK, PlaceTypes, Somewhere
<1>5. PlacesInOneUse'
  <2>1. free_pages' \cap pending_free_pages' = {}
    BY <1>0, <1>1, <1>2 DEF InOrder, PlacesInOneUse, Placed
  <2>2. ASSUME NEW q \in Pages, page_locs'[q] # Nowhere
        PROVE  /\ page_locs'[q] \notin free_pages' \cup pending_free_pages'
               /\ ckpt_content'[page_locs'[q]] = q
    <3>1. CASE q = p
      <4>1. page_locs'[q] = c /\ c \notin pending_free_pages
        BY <1>0, <1>1, <1>2, <3>1 DEF TypeOK, PlaceTypes, InOrder, PlacesInOneUse
      <4> QED
        BY <1>0, <1>2, <1>3, <3>1, <4>1
    <3>2. CASE q # p
      <4>1. page_locs'[q] = page_locs[q] /\ page_locs[q] \in Places /\ q \in Placed
        BY <1>0, <1>2, <2>2, <3>2 DEF TypeOK, PlaceTypes, Somewhere, Placed
      <4>2. /\ page_locs[q] \notin free_pages \cup pending_free_pages
            /\ ckpt_content[page_locs[q]] = q
        BY <4>1 DEF InOrder, PlacesInOneUse
      <4>3. page_locs[q] # page_locs[p]
        BY <1>0, <3>2, <4>1, <4>2 DEF InOrder, PlacesInOneUse, Placed
      <4> QED
        BY <1>2, <1>3, <4>1, <4>2, <4>3
    <3> QED
      BY <3>1, <3>2
  <2>3. ASSUME NEW d \in Places, ckpt_content'[d] # Nowhere
        PROVE  page_locs'[ckpt_content'[d]] = d
    <3>1. CASE d = c
      BY <1>0, <1>2, <3>1 DEF TypeOK, PlaceTypes
    <3>2. CASE d # c
      <4>1. d # page_locs[p] /\ ckpt_content'[d] = ckpt_content[d]
        BY <1>2, <2>3, <3>2
      <4>2. ckpt_content[d] \in Pages
        BY <1>0, <2>3, <4>1 DEF TypeOK, PlaceTypes
      <4>3. page_locs[ckpt_content[d]] = d
        BY <2>3, <4>1 DEF InOrder, PlacesInOneUse
      <4> QED
        BY <1>0, <1>2, <4>1, <4>2, <4>3 DEF TypeOK, PlaceTypes
    <3> QED
      BY <3>1, <3>2
  <2> QED
    BY <2>1, <2>2, <2>3 DEF PlacesInOneUse, Placed
<1>6. ASSUME NEW d \in Places \ (free_pages' \cup pending_free_pages')
      PROVE  \E q \in Pages : page_locs'[q] = d
  <2>1. CASE d = c
    BY <1>0, <1>2, <2>1 DEF TypeOK, PlaceTypes
  <2>2. CASE d # c
    <3>1. PICK q \in Pages : page_locs[q] = d
      BY <1>2, <2>2 DEF InOrder, PlacesAreUsed
    <3>2. q # p
      BY <1>2, <3>1, <1>0
    <3> QED
      BY <1>0, <1>2, <3>1, <3>2 DEF TypeOK, PlaceTypes
  <2> QED
    BY <2>1, <2>2
<1> QED
  BY <1>1, <1>2, <1>3, <1>4, <1>5, <1>6 DEF AllocatesTo

\* Where the handler and checkpoint() allocate, the page is needed and nobody copies it.
LEMMA HandlerAllocates ==
    ASSUME InOrder, NEW t \in Threads, HandlerLocks(t), Needed(t)
    PROVE  \E c \in Places :
              /\ AllocatesTo(at[t], c)
              /\ got' = [got EXCEPT ![t] = c] /\ Goto(t, "copy")
              /\ mutex' = [mutex EXCEPT ![MutexOf(at[t])] = t]
<1>1. at[t] \in change_info_inprog.bits \ BeingCopied
  BY FreeMutex DEF InOrder, TypeOK, ThreadTypes, HandlerLocks, Needed
<1>2. PICK c \in Places : Allocate(at[t], c) /\ got' = [got EXCEPT ![t] = c]
  BY DEF HandlerLocks, Needed
<1>3. AllocatesTo(at[t], c)
  BY <1>1, <1>2, AllocateWorks
<1> QED
  BY <1>2, <1>3 DEF HandlerLocks, Needed

\* The same of checkpoint().
LEMMA CheckpointAllocates ==
    ASSUME InOrder, CkptPage, Entry \in change_info_inprog.bits
    PROVE  \E c \in Places :
              /\ AllocatesTo(Entry, c)
              /\ ckpt' = [ckpt EXCEPT !.pc = "copy", !.place = c]
              /\ mutex' = [mutex EXCEPT ![MutexOf(Entry)] = "checkpoint"]
<1>1. Entry \in change_info_inprog.bits \ BeingCopied
  BY EntryTypes, FreeMutex DEF InOrder, CkptPage
<1>2. PICK c \in Places :
         Allocate(Entry, c) /\ ckpt' = [ckpt EXCEPT !.pc = "copy", !.place = c]
  BY DEF CkptPage
<1>3. AllocatesTo(Entry, c)
  BY <1>1, <1>2, AllocateWorks
<1> QED
  BY <1>2, <1>3 DEF CkptPage

\* Noting a page keeps the list of pages, each once.
LEMMA NotedIsListed ==
    ASSUME NEW info \in Infos, NEW p \in Pages, ListedOnce(info), info.bits = Listed(info),
           Len(info.pages) = Cardinality(info.bits)
    PROVE  /\ ListedOnce(Noted(info, p)) /\ Noted(info, p).bits = Listed(Noted(info, p))
           /\ Len(Noted(info, p).pages) = Cardinality(Noted(info, p).bits)
           /\ Noted(info, p).written = info.written /\ Noted(info, p).demanded = info.demanded
<1>1. CASE p \in info.bits
  BY <1>1 DEF Noted
<1>2. CASE p \notin info.bits
  <2> DEFINE new == Noted(info, p)
  <2>1. /\ info.pages \in Seq(Pages) /\ Len(info.pages) \in Nat
        /\ IsFiniteSet(info.bits)
    BY PagesAreFinite, LenProperties DEF Infos
  <2>2. /\ new.bits = info.bits \cup {p} /\ new.pages = Append(info.pages, p)
        /\ new.written = info.written /\ new.demanded = info.demanded
    BY <1>2 DEF Noted, Infos
  <2>3. /\ Len(new.pages) = Len(info.pages) + 1
        /\ \A i \in 1 .. Len(info.pages) : new.pages[i] = info.pages[i]
        /\ new.pages[Len(info.pages) + 1] = p
    BY <2>1, <2>2, AppendProperties
  <2> HIDE DEF new
  <2>4. \A i \in 1 .. Len(info.pages) : info.pages[i] # p
    BY <1>2 DEF Listed
  <2>5. 1 .. Len(new.pages) = 1 .. Len(info.pages) \cup {Len(info.pages) + 1}
    BY <2>1, <2>3
  <2>6. ListedOnce(new)
    BY <2>3, <2>4, <2>5 DEF ListedOnce
  <2>7. new.bits = Listed(new)
    <3>1. ASSUME NEW q \in new.bits
          PROVE  q \in Listed(new)
      <4>1. CASE q = p
        BY <2>1, <2>3, <2>5, <4>1 DEF Listed
      <4>2. CASE q # p
        <5>1. PICK i \in 1 .. Len(info.pages) : info.pages[i] = q
          BY <2>2, <3>1, <4>2 DEF Listed
        <5> QED
          BY <2>3, <2>5, <5>1 DEF Listed
      <4> QED
        BY <4>1, <4>2
    <3>2. ASSUME NEW q \in Listed(new)
          PROVE  q \in new.bits
      <4>1. PICK i \in 1 .. Len(new.pages) : new.pages[i] = q
        BY <3>2 DEF Listed
      <4> QED
        BY <2>2, <2>3, <2>5, <4>1 DEF Listed
    <3> QED
      BY <3>1, <3>2
  <2>8. Len(new.pages) = Cardinality(new.bits)
    BY <1>2, <2>1, <2>2, <2>3, FS_AddElement
  <2> QED
    BY <2>2, <2>6, <2>7, <2>8 DEF new
<1> QED
  BY <1>1, <1>2

-----------------------------------------------------------------------------
\* Every conjunct is kept

\* Contents are numbers of stores.
LEMMA NextContentTypes ==
    ASSUME InOrder, Next
    PROVE  ContentTypes'
<1> USE PagesAssumption, ThreadsAssumption, BoundsAssumption
<1>0. TypeOK
  BY DEF InOrder
<1>1. ASSUME NEW t \in Threads, BeginTxn(t)
      PROVE  ContentTypes'
  BY <1>0, <1>1
     DEF BeginTxn, Goto, places, infos, maps, history, TypeOK, ContentTypes, PlaceTypes,
         ThreadTypes
<1>2. ASSUME NEW t \in Threads, EndTxn(t)
      PROVE  ContentTypes'
  BY <1>0, <1>2
     DEF EndTxn, Goto, places, infos, maps, history, TypeOK, ContentTypes, PlaceTypes,
         ThreadTypes
<1>3. ASSUME NEW t \in Threads, HandlerLooks(t)
      PROVE  ContentTypes'
  BY <1>0, <1>3
     DEF HandlerLooks, Goto, places, infos, maps, history, TypeOK, ContentTypes,
         PlaceTypes, ThreadTypes
<1>4. ASSUME NEW t \in Threads, HandlerLocks(t)
      PROVE  ContentTypes'
  BY <1>0, <1>4
     DEF HandlerLocks, Goto, places, infos, maps, history, TypeOK, ContentTypes,
         PlaceTypes, ThreadTypes
<1>5. ASSUME NEW t \in Threads, HandlerCopies(t)
      PROVE  ContentTypes'
  BY <1>0, <1>5
     DEF HandlerCopies, Goto, places, infos, maps, history, TypeOK, ContentTypes,
         PlaceTypes, ThreadTypes
<1>6. ASSUME NEW t \in Threads, HandlerClears(t)
      PROVE  ContentTypes'
  BY <1>0, <1>6
     DEF HandlerClears, Goto, places, maps, history, TypeOK, ContentTypes, PlaceTypes,
         ThreadTypes
<1>7. ASSUME NEW t \in Threads, HandlerNotes(t)
      PROVE  ContentTypes'
  BY <1>0, <1>7
     DEF HandlerNotes, Goto, places, maps, history, TypeOK, ContentTypes, PlaceTypes,
         ThreadTypes
<1>8. ASSUME NEW t \in Threads, HandlerUnprotects(t)
      PROVE  ContentTypes'
  BY <1>0, <1>8
     DEF HandlerUnprotects, Goto, places, infos, history, TypeOK, ContentTypes,
         PlaceTypes, ThreadTypes
<1>9. ASSUME NEW t \in Threads, NEW p \in Pages, Store(t, p)
      PROVE  ContentTypes'
  <2>0. region \in [Pages -> Nat] /\ region' = [region EXCEPT ![p] = @ + 1]
    BY <1>0, <1>9 DEF Store, TypeOK, ContentTypes
  <2>1. region' \in [Pages -> Nat]
    BY <2>0
  <2>2. untracked' \in SUBSET Pages
    BY <1>0, <1>9 DEF Store, TypeOK, ContentTypes
  <2>3. stores' \in Nat
    BY <1>0, <1>9 DEF Store, TypeOK, ContentTypes
  <2> QED
    BY <1>0, <1>9, <2>1, <2>2, <2>3 DEF Store, history, TypeOK, ContentTypes
<1>10. ASSUME NEW t \in Threads, NEW p \in Pages, Fault(t, p)
      PROVE  ContentTypes'
  <2>1. stores' \in Nat
    BY <1>0, <1>10 DEF Fault, TypeOK, ContentTypes
  <2> QED
    BY <1>0, <1>10, <2>1 DEF Fault, history, TypeOK, ContentTypes
<1>11. ASSUME NEW q \in Procs, CkptStart(q)
      PROVE  ContentTypes'
  BY <1>0, <1>11, SMTT(30)
     DEF CkptStart, places, threads, TypeOK, ContentTypes, PlaceTypes, ThreadTypes
<1>12. ASSUME NEW q \in Procs, Close(q)
      PROVE  ContentTypes'
  BY <1>0, <1>12
     DEF Close, places, infos, threads, history, TypeOK, ContentTypes, PlaceTypes,
         ThreadTypes
<1>13. ASSUME NEW q \in Procs, Open(q)
      PROVE  ContentTypes'
  BY <1>0, <1>13
     DEF Open, places, infos, threads, history, TypeOK, ContentTypes, PlaceTypes,
         ThreadTypes
<1>14. ASSUME CkptPage
      PROVE  ContentTypes'
  BY <1>0, <1>14
     DEF CkptPage, places, infos, maps, threads, history, TypeOK, ContentTypes,
         PlaceTypes, ThreadTypes
<1>15. ASSUME CkptCopy
      PROVE  ContentTypes'
  <2>1. Entry \in Pages
    BY <1>0, <1>15, EntryTypes DEF CkptCopy, InOrder, CopiersHoldMutex, CkptCopying
  <2>2. file' \in [Places -> Nat]
    BY <1>0, <1>15, <2>1 DEF CkptCopy, TypeOK, ContentTypes
  <2> QED
    BY <1>0, <1>15, <2>2 DEF CkptCopy, history, TypeOK, ContentTypes
<1>16. ASSUME CkptClear
      PROVE  ContentTypes'
  BY <1>0, <1>16
     DEF CkptClear, places, maps, threads, history, TypeOK, ContentTypes, PlaceTypes,
         ThreadTypes
<1>17. ASSUME CkptComplete
      PROVE  ContentTypes'
  BY <1>0, <1>17
     DEF CkptComplete, CompleteCheckpoint, maps, threads, TypeOK, ContentTypes,
         PlaceTypes, ThreadTypes
<1> QED
  BY <1>1, <1>2, <1>3, <1>4, <1>5, <1>6, <1>7, <1>8, <1>9, <1>10, <1>11, <1>12, <1>13,
     <1>14, <1>15, <1>16, <1>17
     DEF Next, Handler, Checkpoint

\* Pages have places in the file.
LEMMA NextPlaceTypes ==
    ASSUME InOrder, Next
    PROVE  PlaceTypes'
<1> USE PagesAssumption, ThreadsAssumption, BoundsAssumption
<1>0. TypeOK
  BY DEF InOrder
<1>1. ASSUME NEW t \in Threads, BeginTxn(t)
      PROVE  PlaceTypes'
  BY <1>0, <1>1 DEF BeginTxn, Goto, places, infos, maps, history, TypeOK, PlaceTypes
<1>2. ASSUME NEW t \in Threads, EndTxn(t)
      PROVE  PlaceTypes'
  BY <1>0, <1>2 DEF EndTxn, Goto, places, infos, maps, history, TypeOK, PlaceTypes
<1>3. ASSUME NEW t \in Threads, HandlerLooks(t)
      PROVE  PlaceTypes'
  BY <1>0, <1>3 DEF HandlerLooks, Goto, places, infos, maps, history, TypeOK, PlaceTypes
<1>4. ASSUME NEW t \in Threads, HandlerLocks(t)
      PROVE  PlaceTypes'
  <2>1. CASE Needed(t)
    BY <1>0, <1>4, <2>1, HandlerAllocates DEF AllocatesTo, TypeOK, PlaceTypes
  <2>2. CASE ~Needed(t)
    BY <1>0, <1>4, <2>2 DEF HandlerLocks, places, TypeOK, PlaceTypes
  <2> QED
    BY <2>1, <2>2
<1>5. ASSUME NEW t \in Threads, HandlerCopies(t)
      PROVE  PlaceTypes'
  BY <1>0, <1>5 DEF HandlerCopies, Goto, places, infos, maps, history, TypeOK, PlaceTypes
<1>6. ASSUME NEW t \in Threads, HandlerClears(t)
      PROVE  PlaceTypes'
  BY <1>0, <1>6 DEF HandlerClears, Goto, places, maps, history, TypeOK, PlaceTypes
<1>7. ASSUME NEW t \in Threads, HandlerNotes(t)
      PROVE  PlaceTypes'
  BY <1>0, <1>7 DEF HandlerNotes, Goto, places, maps, history, TypeOK, PlaceTypes
<1>8. ASSUME NEW t \in Threads, HandlerUnprotects(t)
      PROVE  PlaceTypes'
  BY <1>0, <1>8 DEF HandlerUnprotects, Goto, places, infos, history, TypeOK, PlaceTypes
<1>9. ASSUME NEW t \in Threads, NEW p \in Pages, Store(t, p)
      PROVE  PlaceTypes'
  BY <1>0, <1>9 DEF Store, Goto, places, infos, maps, history, TypeOK, PlaceTypes
<1>10. ASSUME NEW t \in Threads, NEW p \in Pages, Fault(t, p)
      PROVE  PlaceTypes'
  BY <1>0, <1>10 DEF Fault, Goto, places, infos, maps, history, TypeOK, PlaceTypes
<1>11. ASSUME NEW q \in Procs, CkptStart(q)
      PROVE  PlaceTypes'
  BY <1>0, <1>11 DEF CkptStart, places, threads, TypeOK, PlaceTypes
<1>12. ASSUME NEW q \in Procs, Close(q)
      PROVE  PlaceTypes'
  BY <1>0, <1>12 DEF Close, places, infos, threads, history, TypeOK, PlaceTypes
<1>13. ASSUME NEW q \in Procs, Open(q)
      PROVE  PlaceTypes'
  BY <1>0, <1>13 DEF Open, places, infos, threads, history, TypeOK, PlaceTypes
<1>14. ASSUME CkptPage
      PROVE  PlaceTypes'
  <2>1. CASE Entry \in change_info_inprog.bits
    BY <1>0, <1>14, <2>1, CheckpointAllocates DEF AllocatesTo, TypeOK, PlaceTypes
  <2>2. CASE Entry \notin change_info_inprog.bits
    BY <1>0, <1>14, <2>2 DEF CkptPage, places, TypeOK, PlaceTypes
  <2> QED
    BY <2>1, <2>2
<1>15. ASSUME CkptCopy
      PROVE  PlaceTypes'
  BY <1>0, <1>15 DEF CkptCopy, places, infos, maps, threads, history, TypeOK, PlaceTypes
<1>16. ASSUME CkptClear
      PROVE  PlaceTypes'
  BY <1>0, <1>16 DEF CkptClear, places, maps, threads, history, TypeOK, PlaceTypes
<1>17. ASSUME CkptComplete
      PROVE  PlaceTypes'
  BY <1>0, <1>17 DEF CkptComplete, CompleteCheckpoint, maps, threads, TypeOK, PlaceTypes
<1> QED
  BY <1>1, <1>2, <1>3, <1>4, <1>5, <1>6, <1>7, <1>8, <1>9, <1>10, <1>11, <1>12, <1>13,
     <1>14, <1>15, <1>16, <1>17
     DEF Next, Handler, Checkpoint

\* The pages that are noted are listed as well.
LEMMA NextInfoTypes ==
    ASSUME InOrder, Next
    PROVE  InfoTypes'
<1> USE PagesAssumption, ThreadsAssumption, BoundsAssumption
<1>0. TypeOK
  BY DEF InOrder
<1>1. ASSUME NEW t \in Threads, BeginTxn(t)
      PROVE  InfoTypes'
  BY <1>0, <1>1
     DEF BeginTxn, Goto, places, infos, maps, history, TypeOK, InfoTypes, Infos,
         ThreadTypes
<1>2. ASSUME NEW t \in Threads, EndTxn(t)
      PROVE  InfoTypes'
  BY <1>0, <1>2
     DEF EndTxn, Goto, places, infos, maps, history, TypeOK, InfoTypes, Infos, ThreadTypes
<1>3. ASSUME NEW t \in Threads, HandlerLooks(t)
      PROVE  InfoTypes'
  BY <1>0, <1>3
     DEF HandlerLooks, Goto, places, infos, maps, history, TypeOK, InfoTypes, Infos,
         ThreadTypes
<1>4. ASSUME NEW t \in Threads, HandlerLocks(t)
      PROVE  InfoTypes'
  <2>1. at[t] \in Pages /\ MutexOf(at[t]) \in Mutexes
    BY <1>0, MutexTypes DEF TypeOK, ThreadTypes
  <2>2. mutex' = mutex \/ mutex' = [mutex EXCEPT ![MutexOf(at[t])] = t]
    BY <1>4 DEF HandlerLocks
  <2>3. UNCHANGED infos
    BY <1>4 DEF HandlerLocks
  <2> QED
    BY <1>0, <2>1, <2>2, <2>3 DEF infos, TypeOK, InfoTypes
<1>5. ASSUME NEW t \in Threads, HandlerCopies(t)
      PROVE  InfoTypes'
  BY <1>0, <1>5
     DEF HandlerCopies, Goto, places, infos, maps, history, TypeOK, InfoTypes, Infos,
         ThreadTypes
<1>6. ASSUME NEW t \in Threads, HandlerClears(t)
      PROVE  InfoTypes'
  <2>1. at[t] \in Pages
    BY <1>0 DEF TypeOK, ThreadTypes
  <2>2. change_info_inprog' \in Infos
    BY <1>0, <1>6, <2>1, InfoRecords DEF HandlerClears, TypeOK, InfoTypes
  <2> QED
    BY <1>0, <1>6, <2>2 DEF HandlerClears, TypeOK, InfoTypes
<1>7. ASSUME NEW t \in Threads, HandlerNotes(t)
      PROVE  InfoTypes'
  <2>1. at[t] \in Pages
    BY <1>0 DEF TypeOK, ThreadTypes
  <2>2. change_info' \in Infos
    BY <1>0, <1>7, <2>1, InfoRecords DEF HandlerNotes, TypeOK, InfoTypes
  <2> QED
    BY <1>0, <1>7, <2>2 DEF HandlerNotes, TypeOK, InfoTypes
<1>8. ASSUME NEW t \in Threads, HandlerUnprotects(t)
      PROVE  InfoTypes'
  BY <1>0, <1>8
     DEF HandlerUnprotects, Goto, places, infos, history, TypeOK, InfoTypes, Infos,
         ThreadTypes
<1>9. ASSUME NEW t \in Threads, NEW p \in Pages, Store(t, p)
      PROVE  InfoTypes'
  BY <1>0, <1>9
     DEF Store, Goto, places, infos, maps, history, TypeOK, InfoTypes, Infos, ThreadTypes
<1>10. ASSUME NEW t \in Threads, NEW p \in Pages, Fault(t, p)
      PROVE  InfoTypes'
  BY <1>0, <1>10
     DEF Fault, Goto, places, infos, maps, history, TypeOK, InfoTypes, Infos, ThreadTypes
<1>11. ASSUME NEW q \in Procs, CkptStart(q)
      PROVE  InfoTypes'
  BY <1>0, <1>11 DEF CkptStart, places, threads, TypeOK, InfoTypes, Infos, ThreadTypes
<1>12. ASSUME NEW q \in Procs, Close(q)
      PROVE  InfoTypes'
  BY <1>0, <1>12
     DEF Close, places, infos, threads, history, TypeOK, InfoTypes, Infos, ThreadTypes
<1>13. ASSUME NEW q \in Procs, Open(q)
      PROVE  InfoTypes'
  BY <1>0, <1>13
     DEF Open, places, infos, threads, history, TypeOK, InfoTypes, Infos, ThreadTypes
<1>14. ASSUME CkptPage
      PROVE  InfoTypes'
  BY <1>0, <1>14
     DEF CkptPage, places, infos, maps, threads, history, TypeOK, InfoTypes, Infos,
         ThreadTypes
<1>15. ASSUME CkptCopy
      PROVE  InfoTypes'
  BY <1>0, <1>15
     DEF CkptCopy, places, infos, maps, threads, history, TypeOK, InfoTypes, Infos,
         ThreadTypes
<1>16. ASSUME CkptClear
      PROVE  InfoTypes'
  <2>1. Entry \in Pages
    BY <1>0, <1>16, EntryTypes DEF CkptClear, InOrder, CopiersHoldMutex, CkptCopying
  <2>2. change_info_inprog' \in Infos
    BY <1>0, <1>16, <2>1, InfoRecords DEF CkptClear, TypeOK, InfoTypes
  <2> QED
    BY <1>0, <1>16, <2>2 DEF CkptClear, TypeOK, InfoTypes
<1>17. ASSUME CkptComplete
      PROVE  InfoTypes'
  <2>1. 0 \in Pages
    BY PagesAssumption
  <2>2. change_info_inprog' \in Infos
    BY <1>0, <1>17, <2>1, InfoRecords DEF CkptComplete, TypeOK, InfoTypes
  <2> QED
    BY <1>0, <1>17, <2>2 DEF CkptComplete, TypeOK, InfoTypes
<1> QED
  BY <1>1, <1>2, <1>3, <1>4, <1>5, <1>6, <1>7, <1>8, <1>9, <1>10, <1>11, <1>12, <1>13,
     <1>14, <1>15, <1>16, <1>17
     DEF Next, Handler, Checkpoint

\* Threads and checkpoint() are somewhere in their code.
LEMMA NextThreadTypes ==
    ASSUME InOrder, Next
    PROVE  ThreadTypes'
<1> USE PagesAssumption, ThreadsAssumption, BoundsAssumption
<1>0. TypeOK
  BY DEF InOrder
<1>1. ASSUME NEW t \in Threads, BeginTxn(t)
      PROVE  ThreadTypes'
  BY <1>0, <1>1 DEF BeginTxn, Goto, places, infos, maps, history, TypeOK, ThreadTypes
<1>2. ASSUME NEW t \in Threads, EndTxn(t)
      PROVE  ThreadTypes'
  BY <1>0, <1>2 DEF EndTxn, Goto, places, infos, maps, history, TypeOK, ThreadTypes
<1>3. ASSUME NEW t \in Threads, HandlerLooks(t)
      PROVE  ThreadTypes'
  BY <1>0, <1>3 DEF HandlerLooks, Goto, places, infos, maps, history, TypeOK, ThreadTypes
<1>4. ASSUME NEW t \in Threads, HandlerLocks(t)
      PROVE  ThreadTypes'
  BY <1>0, <1>4 DEF HandlerLocks, Goto, places, infos, maps, history, TypeOK, ThreadTypes
<1>5. ASSUME NEW t \in Threads, HandlerCopies(t)
      PROVE  ThreadTypes'
  BY <1>0, <1>5 DEF HandlerCopies, Goto, places, infos, maps, history, TypeOK, ThreadTypes
<1>6. ASSUME NEW t \in Threads, HandlerClears(t)
      PROVE  ThreadTypes'
  BY <1>0, <1>6 DEF HandlerClears, Goto, places, maps, history, TypeOK, ThreadTypes
<1>7. ASSUME NEW t \in Threads, HandlerNotes(t)
      PROVE  ThreadTypes'
  BY <1>0, <1>7 DEF HandlerNotes, Goto, places, maps, history, TypeOK, ThreadTypes
<1>8. ASSUME NEW t \in Threads, HandlerUnprotects(t)
      PROVE  ThreadTypes'
  BY <1>0, <1>8 DEF HandlerUnprotects, Goto, places, infos, history, TypeOK, ThreadTypes
<1>9. ASSUME NEW t \in Threads, NEW p \in Pages, Store(t, p)
      PROVE  ThreadTypes'
  BY <1>0, <1>9 DEF Store, Goto, places, infos, maps, history, TypeOK, ThreadTypes
<1>10. ASSUME NEW t \in Threads, NEW p \in Pages, Fault(t, p)
      PROVE  ThreadTypes'
  BY <1>0, <1>10 DEF Fault, Goto, places, infos, maps, history, TypeOK, ThreadTypes
<1>11. ASSUME NEW q \in Procs, CkptStart(q)
      PROVE  ThreadTypes'
  BY <1>0, <1>11 DEF CkptStart, places, threads, TypeOK, ThreadTypes
<1>12. ASSUME NEW q \in Procs, Close(q)
      PROVE  ThreadTypes'
  BY <1>0, <1>12 DEF Close, places, infos, threads, history, TypeOK, ThreadTypes
<1>13. ASSUME NEW q \in Procs, Open(q)
      PROVE  ThreadTypes'
  BY <1>0, <1>13 DEF Open, places, infos, threads, history, TypeOK, ThreadTypes
<1>14. ASSUME CkptPage
      PROVE  ThreadTypes'
  <2>1. ckpt' \in [pc : {"idle", "next", "copy", "clear"}, entry : Nat \ {0}, place : Places]
    <3> HIDE DEF Places
    <3>1. ASSUME NEW c \in Places, ckpt' = [ckpt EXCEPT !.pc = "copy", !.place = c]
          PROVE  ckpt' \in [pc : {"idle", "next", "copy", "clear"}, entry : Nat \ {0},
                           place : Places]
      BY <1>0, <3>1 DEF TypeOK, ThreadTypes
    <3>2. ASSUME ckpt' = [ckpt EXCEPT !.entry = @ + 1]
          PROVE  ckpt' \in [pc : {"idle", "next", "copy", "clear"}, entry : Nat \ {0},
                           place : Places]
      <4>1. ckpt.entry + 1 \in Nat \ {0}
        BY <1>0 DEF TypeOK, ThreadTypes
      <4> QED
        BY <1>0, <3>2, <4>1 DEF TypeOK, ThreadTypes
    <3> QED
      BY <1>14, <3>1, <3>2 DEF CkptPage
  <2> QED
    BY <1>0, <1>14, <2>1 DEF CkptPage, maps, threads, TypeOK, ThreadTypes
<1>15. ASSUME CkptCopy
      PROVE  ThreadTypes'
  BY <1>0, <1>15 DEF CkptCopy, places, infos, maps, threads, history, TypeOK, ThreadTypes
<1>16. ASSUME CkptClear
      PROVE  ThreadTypes'
  <2>1. ckpt' \in [pc : {"idle", "next", "copy", "clear"}, entry : Nat \ {0}, place : Places]
    <3>1. ckpt' = [ckpt EXCEPT !.pc = "next", !.entry = @ + 1]
      BY <1>16 DEF CkptClear
    <3>2. ckpt.entry + 1 \in Nat \ {0}
      BY <1>0 DEF TypeOK, ThreadTypes
    <3> HIDE DEF Places
    <3> QED
      BY <1>0, <3>1, <3>2 DEF TypeOK, ThreadTypes
  <2> QED
    BY <1>0, <1>16, <2>1 DEF CkptClear, maps, threads, TypeOK, ThreadTypes
<1>17. ASSUME CkptComplete
      PROVE  ThreadTypes'
  BY <1>0, <1>17 DEF CkptComplete, CompleteCheckpoint, maps, threads, TypeOK, ThreadTypes
<1> QED
  BY <1>1, <1>2, <1>3, <1>4, <1>5, <1>6, <1>7, <1>8, <1>9, <1>10, <1>11, <1>12, <1>13,
     <1>14, <1>15, <1>16, <1>17
     DEF Next, Handler, Checkpoint

\* Every step keeps the types.
LEMMA NextTypes ==
    ASSUME InOrder, Next
    PROVE  TypeOK'
BY NextContentTypes, NextPlaceTypes, NextInfoTypes, NextThreadTypes DEF TypeOK

\* Without entries left there are no pages left to copy.
LEMMA NothingLeft ==
    ASSUME InOrder, ~MoreEntries
    PROVE  change_info_inprog.bits = {} /\ ~CkptCopying /\ \A t \in Threads : ~Copying(t)
<1>1. TypeOK /\ Len(change_info_inprog.pages) \in Nat /\ ckpt.entry \in Nat
  BY LenProperties DEF InOrder, TypeOK, InfoTypes, Infos, ThreadTypes
<1>2. ckpt.entry .. Len(change_info_inprog.pages) = {}
  BY <1>1 DEF MoreEntries
<1>3. change_info_inprog.bits = {}
  BY <1>2 DEF InOrder, PagesAreCounted
<1> QED
  BY <1>3 DEF InOrder, CopiersHoldMutex

\* Copiers keep the mutex of their page to the end, and no two have one page.
LEMMA NextCopiersHoldMutex ==
    ASSUME InOrder, Next
    PROVE  CopiersHoldMutex'
<1> USE PagesAssumption, ThreadsAssumption
<1>0. TypeOK /\ CopiersHoldMutex
  BY DEF InOrder
<1>1. ASSUME NEW t \in Threads, BeginTxn(t)
      PROVE  CopiersHoldMutex'
  BY <1>0, <1>1
     DEF BeginTxn, Goto, places, infos, maps, history, TypeOK, InfoTypes, ThreadTypes,
         CopiersHoldMutex, Copying, CkptCopying, MoreEntries, Entry
<1>2. ASSUME NEW t \in Threads, EndTxn(t)
      PROVE  CopiersHoldMutex'
  BY <1>0, <1>2
     DEF EndTxn, Goto, places, infos, maps, history, TypeOK, InfoTypes, ThreadTypes,
         CopiersHoldMutex, Copying, CkptCopying, MoreEntries, Entry
<1>3. ASSUME NEW t \in Threads, HandlerLooks(t)
      PROVE  CopiersHoldMutex'
  BY <1>0, <1>3
     DEF HandlerLooks, Goto, places, infos, maps, history, TypeOK, InfoTypes, ThreadTypes,
         CopiersHoldMutex, Copying, CkptCopying, MoreEntries, Entry
<1>4. ASSUME NEW t \in Threads, HandlerLocks(t)
      PROVE  CopiersHoldMutex'
  <2>1. at[t] \in Pages /\ MutexOf(at[t]) \in Mutexes /\ mutex[MutexOf(at[t])] = Nobody
        /\ pc[t] = "lock"
    BY <1>0, <1>4, MutexTypes DEF HandlerLocks, TypeOK, ThreadTypes
  <2>2. UNCHANGED <<at, ckpt, change_info_inprog>>
    BY <1>4 DEF HandlerLocks, infos
  <2>3. CASE Needed(t)
    <3>1. PICK c \in Places :
             /\ AllocatesTo(at[t], c)
             /\ got' = [got EXCEPT ![t] = c] /\ pc' = [pc EXCEPT ![t] = "copy"]
             /\ mutex' = [mutex EXCEPT ![MutexOf(at[t])] = t]
      BY <1>4, <2>3, HandlerAllocates DEF Goto
    <3>2. page_locs' = [page_locs EXCEPT ![at[t]] = c]
      BY <3>1 DEF AllocatesTo
    <3>3. ASSUME NEW u \in Threads, pc'[u] \in {"copy", "clear"}
          PROVE  /\ mutex'[MutexOf(at[u])] = u
                 /\ at[u] \in change_info_inprog.bits /\ page_locs'[at[u]] = got'[u]
      <4>1. CASE u = t
        BY <1>0, <2>1, <2>3, <3>1, <3>2, <4>1
           DEF TypeOK, PlaceTypes, InfoTypes, ThreadTypes, Needed
      <4>2. CASE u # t
        <5>1. /\ mutex[MutexOf(at[u])] = u
              /\ at[u] \in change_info_inprog.bits /\ page_locs[at[u]] = got[u]
          BY <1>0, <3>1, <3>3, <4>2 DEF TypeOK, ThreadTypes, CopiersHoldMutex, Copying
        <5>2. MutexOf(at[u]) # MutexOf(at[t])
          BY <2>1, <5>1
        <5> QED
          BY <1>0, <3>1, <3>2, <4>2, <5>1, <5>2
             DEF TypeOK, PlaceTypes, InfoTypes, ThreadTypes
      <4> QED
        BY <4>1, <4>2
    <3>4. ASSUME CkptCopying
          PROVE  /\ MoreEntries /\ mutex'[MutexOf(Entry)] = "checkpoint"
                 /\ Entry \in change_info_inprog.bits /\ page_locs'[Entry] = ckpt.place
      <4>1. /\ MoreEntries /\ mutex[MutexOf(Entry)] = "checkpoint"
            /\ Entry \in change_info_inprog.bits /\ page_locs[Entry] = ckpt.place
        BY <1>0, <3>4 DEF CopiersHoldMutex
      <4>2. MutexOf(Entry) # MutexOf(at[t]) /\ Entry \in Pages
        BY <1>0, <2>1, <4>1, EntryTypes
      <4> QED
        BY <1>0, <3>1, <3>2, <4>1, <4>2 DEF TypeOK, PlaceTypes, InfoTypes
    <3> QED
      BY <2>2, <3>3, <3>4 DEF CopiersHoldMutex, Copying, CkptCopying, MoreEntries, Entry
  <2>4. CASE ~Needed(t)
    <3>1. UNCHANGED <<mutex, got, page_locs>> /\ pc' = [pc EXCEPT ![t] = "note"]
      BY <1>4, <2>4 DEF HandlerLocks, Goto, places
    <3> QED
      BY <1>0, <2>2, <3>1
         DEF TypeOK, ThreadTypes, CopiersHoldMutex, Copying, CkptCopying, MoreEntries,
             Entry
  <2> QED
    BY <2>3, <2>4
<1>5. ASSUME NEW t \in Threads, HandlerCopies(t)
      PROVE  CopiersHoldMutex'
  BY <1>0, <1>5
     DEF HandlerCopies, Goto, places, infos, maps, history, TypeOK, InfoTypes,
         ThreadTypes, CopiersHoldMutex, Copying, CkptCopying, MoreEntries, Entry
<1>6. ASSUME NEW t \in Threads, HandlerClears(t)
      PROVE  CopiersHoldMutex'
  BY <1>0, <1>6, SMTT(30)
     DEF HandlerClears, Goto, places, maps, history, TypeOK, InfoTypes, ThreadTypes,
         CopiersHoldMutex, Copying, CkptCopying, MoreEntries, Entry
<1>7. ASSUME NEW t \in Threads, HandlerNotes(t)
      PROVE  CopiersHoldMutex'
  BY <1>0, <1>7
     DEF HandlerNotes, Goto, places, maps, history, TypeOK, InfoTypes, ThreadTypes,
         CopiersHoldMutex, Copying, CkptCopying, MoreEntries, Entry
<1>8. ASSUME NEW t \in Threads, HandlerUnprotects(t)
      PROVE  CopiersHoldMutex'
  BY <1>0, <1>8
     DEF HandlerUnprotects, Goto, places, infos, history, TypeOK, InfoTypes, ThreadTypes,
         CopiersHoldMutex, Copying, CkptCopying, MoreEntries, Entry
<1>9. ASSUME NEW t \in Threads, NEW p \in Pages, Store(t, p)
      PROVE  CopiersHoldMutex'
  BY <1>0, <1>9
     DEF Store, Goto, places, infos, maps, history, TypeOK, InfoTypes, ThreadTypes,
         CopiersHoldMutex, Copying, CkptCopying, MoreEntries, Entry
<1>10. ASSUME NEW t \in Threads, NEW p \in Pages, Fault(t, p)
      PROVE  CopiersHoldMutex'
  BY <1>0, <1>10
     DEF Fault, Goto, places, infos, maps, history, TypeOK, InfoTypes, ThreadTypes,
         CopiersHoldMutex, Copying, CkptCopying, MoreEntries, Entry
<1>11. ASSUME NEW q \in Procs, CkptStart(q)
      PROVE  CopiersHoldMutex'
  <2>1. \A t \in Threads : ~Copying(t)
    BY <1>0, <1>11 DEF CkptStart, InOrder, PlacesAreUsed, NoChanges, CopiersHoldMutex
  <2> QED
    BY <1>11, <2>1 DEF CkptStart, threads, CopiersHoldMutex, Copying, CkptCopying
<1>12. ASSUME NEW q \in Procs, Close(q)
      PROVE  CopiersHoldMutex'
  BY <1>0, <1>12
     DEF Close, places, infos, threads, history, TypeOK, InfoTypes, ThreadTypes,
         CopiersHoldMutex, Copying, CkptCopying, MoreEntries, Entry
<1>13. ASSUME NEW q \in Procs, Open(q)
      PROVE  CopiersHoldMutex'
  BY <1>0, <1>13
     DEF Open, places, infos, threads, history, TypeOK, InfoTypes, ThreadTypes,
         CopiersHoldMutex, Copying, CkptCopying, MoreEntries, Entry
<1>14. ASSUME CkptPage
      PROVE  CopiersHoldMutex'
  <2>1. Entry \in Pages /\ MutexOf(Entry) \in Mutexes /\ mutex[MutexOf(Entry)] = Nobody
        /\ MoreEntries /\ ckpt.pc = "next"
    BY <1>0, <1>14, MutexTypes, EntryTypes DEF CkptPage
  <2>2. UNCHANGED <<pc, at, got, change_info_inprog>>
    BY <1>14 DEF CkptPage, infos, threads
  <2>3. CASE Entry \in change_info_inprog.bits
    <3>1. PICK c \in Places :
             /\ AllocatesTo(Entry, c)
             /\ ckpt' = [ckpt EXCEPT !.pc = "copy", !.place = c]
             /\ mutex' = [mutex EXCEPT ![MutexOf(Entry)] = "checkpoint"]
      BY <1>14, <2>3, CheckpointAllocates
    <3>2. page_locs' = [page_locs EXCEPT ![Entry] = c]
      BY <3>1 DEF AllocatesTo
    <3>3. ckpt'.pc = "copy" /\ ckpt'.entry = ckpt.entry /\ ckpt'.place = c
      BY <1>0, <3>1 DEF TypeOK, ThreadTypes
    <3>4. Entry' = Entry /\ (MoreEntries <=> MoreEntries')
      BY <2>2, <3>3 DEF Entry, MoreEntries
    <3>5. ASSUME NEW u \in Threads, Copying(u)
          PROVE  /\ mutex'[MutexOf(at[u])] = u
                 /\ at[u] \in change_info_inprog.bits /\ page_locs'[at[u]] = got[u]
      <4>1. /\ mutex[MutexOf(at[u])] = u
            /\ at[u] \in change_info_inprog.bits /\ page_locs[at[u]] = got[u]
        BY <1>0, <3>5 DEF CopiersHoldMutex
      <4>2. MutexOf(at[u]) # MutexOf(Entry)
        BY <2>1, <4>1
      <4> QED
        BY <1>0, <3>1, <3>2, <4>1, <4>2 DEF TypeOK, PlaceTypes, InfoTypes, ThreadTypes
    <3>6. mutex'[MutexOf(Entry)] = "checkpoint" /\ page_locs'[Entry] = c
      BY <1>0, <2>1, <3>1, <3>2 DEF TypeOK, PlaceTypes, InfoTypes
    <3> QED
      BY <2>1, <2>2, <2>3, <3>3, <3>4, <3>5, <3>6
         DEF CopiersHoldMutex, Copying, CkptCopying
  <2>4. CASE Entry \notin change_info_inprog.bits
    <3>1. UNCHANGED <<mutex, page_locs>> /\ ckpt'.pc = "next"
      BY <1>0, <1>14, <2>1, <2>4 DEF CkptPage, places, TypeOK, ThreadTypes
    <3> QED
      BY <1>0, <2>2, <3>1 DEF CopiersHoldMutex, Copying, CkptCopying
  <2> QED
    BY <2>3, <2>4
<1>15. ASSUME CkptCopy
      PROVE  CopiersHoldMutex'
  BY <1>0, <1>15
     DEF CkptCopy, places, infos, maps, threads, history, TypeOK, InfoTypes, ThreadTypes,
         CopiersHoldMutex, Copying, CkptCopying, MoreEntries, Entry
<1>16. ASSUME CkptClear
      PROVE  CopiersHoldMutex'
  BY <1>0, <1>16, SMTT(30)
     DEF CkptClear, places, maps, threads, history, TypeOK, InfoTypes, ThreadTypes,
         CopiersHoldMutex, Copying, CkptCopying, MoreEntries, Entry
<1>17. ASSUME CkptComplete
      PROVE  CopiersHoldMutex'
  BY <1>0, <1>17
     DEF CkptComplete, CompleteCheckpoint, maps, threads, TypeOK, InfoTypes, ThreadTypes,
         CopiersHoldMutex, Copying, CkptCopying, MoreEntries, Entry
<1> QED
  BY <1>1, <1>2, <1>3, <1>4, <1>5, <1>6, <1>7, <1>8, <1>9, <1>10, <1>11, <1>12, <1>13,
     <1>14, <1>15, <1>16, <1>17
     DEF Next, Handler, Checkpoint

\* No place gets a second use: a complete checkpoint frees what only the last one needed.
LEMMA NextPlacesInOneUse ==
    ASSUME InOrder, Next
    PROVE  PlacesInOneUse'
<1>0. TypeOK
  BY DEF InOrder
<1>1. ASSUME NEW t \in Threads, BeginTxn(t)
      PROVE  PlacesInOneUse'
  BY <1>0, <1>1
     DEF BeginTxn, Goto, places, infos, maps, history, InOrder, PlacesInOneUse, Placed
<1>2. ASSUME NEW t \in Threads, EndTxn(t)
      PROVE  PlacesInOneUse'
  BY <1>0, <1>2
     DEF EndTxn, Goto, places, infos, maps, history, InOrder, PlacesInOneUse, Placed
<1>3. ASSUME NEW t \in Threads, HandlerLooks(t)
      PROVE  PlacesInOneUse'
  BY <1>0, <1>3
     DEF HandlerLooks, Goto, places, infos, maps, history, InOrder, PlacesInOneUse, Placed
<1>4. ASSUME NEW t \in Threads, HandlerLocks(t)
      PROVE  PlacesInOneUse'
  <2>1. CASE Needed(t)
    BY <1>4, <2>1, HandlerAllocates DEF AllocatesTo
  <2>2. CASE ~Needed(t)
    BY <1>4, <2>2 DEF HandlerLocks, places, InOrder, PlacesInOneUse, Placed
  <2> QED
    BY <2>1, <2>2
<1>5. ASSUME NEW t \in Threads, HandlerCopies(t)
      PROVE  PlacesInOneUse'
  BY <1>0, <1>5
     DEF HandlerCopies, Goto, places, infos, maps, history, InOrder, PlacesInOneUse,
         Placed
<1>6. ASSUME NEW t \in Threads, HandlerClears(t)
      PROVE  PlacesInOneUse'
  BY <1>0, <1>6
     DEF HandlerClears, Goto, places, maps, history, InOrder, PlacesInOneUse, Placed
<1>7. ASSUME NEW t \in Threads, HandlerNotes(t)
      PROVE  PlacesInOneUse'
  BY <1>0, <1>7
     DEF HandlerNotes, Goto, places, maps, history, InOrder, PlacesInOneUse, Placed
<1>8. ASSUME NEW t \in Threads, HandlerUnprotects(t)
      PROVE  PlacesInOneUse'
  BY <1>0, <1>8
     DEF HandlerUnprotects, Goto, places, infos, history, InOrder, PlacesInOneUse, Placed
<1>9. ASSUME NEW t \in Threads, NEW p \in Pages, Store(t, p)
      PROVE  PlacesInOneUse'
  BY <1>0, <1>9
     DEF Store, Goto, places, infos, maps, history, InOrder, PlacesInOneUse, Placed
<1>10. ASSUME NEW t \in Threads, NEW p \in Pages, Fault(t, p)
      PROVE  PlacesInOneUse'
  BY <1>0, <1>10
     DEF Fault, Goto, places, infos, maps, history, InOrder, PlacesInOneUse, Placed
<1>11. ASSUME NEW q \in Procs, CkptStart(q)
      PROVE  PlacesInOneUse'
  BY <1>0, <1>11 DEF CkptStart, places, threads, InOrder, PlacesInOneUse, Placed
<1>12. ASSUME NEW q \in Procs, Close(q)
      PROVE  PlacesInOneUse'
  BY <1>0, <1>12
     DEF Close, places, infos, threads, history, InOrder, PlacesInOneUse, Placed
<1>13. ASSUME NEW q \in Procs, Open(q)
      PROVE  PlacesInOneUse'
  BY <1>0, <1>13
     DEF Open, places, infos, threads, history, InOrder, PlacesInOneUse, Placed
<1>14. ASSUME CkptPage
      PROVE  PlacesInOneUse'
  <2>1. CASE Entry \in change_info_inprog.bits
    BY <1>14, <2>1, CheckpointAllocates DEF AllocatesTo
  <2>2. CASE Entry \notin change_info_inprog.bits
    BY <1>14, <2>2 DEF CkptPage, places, InOrder, PlacesInOneUse, Placed
  <2> QED
    BY <2>1, <2>2
<1>15. ASSUME CkptCopy
      PROVE  PlacesInOneUse'
  BY <1>0, <1>15
     DEF CkptCopy, places, infos, maps, threads, history, InOrder, PlacesInOneUse, Placed
<1>16. ASSUME CkptClear
      PROVE  PlacesInOneUse'
  BY <1>0, <1>16
     DEF CkptClear, places, maps, threads, history, InOrder, PlacesInOneUse, Placed
<1>17. ASSUME CkptComplete
      PROVE  PlacesInOneUse'
  BY <1>0, <1>17
     DEF CkptComplete, CompleteCheckpoint, maps, threads, InOrder, PlacesInOneUse, Placed
<1> QED
  BY <1>1, <1>2, <1>3, <1>4, <1>5, <1>6, <1>7, <1>8, <1>9, <1>10, <1>11, <1>12, <1>13,
     <1>14, <1>15, <1>16, <1>17
     DEF Next, Handler, Checkpoint

\* No place gets lost.
LEMMA NextPlacesAreUsed ==
    ASSUME InOrder, Next
    PROVE  PlacesAreUsed'
<1>0. TypeOK
  BY DEF InOrder
<1>1. ASSUME NEW t \in Threads, BeginTxn(t)
      PROVE  PlacesAreUsed'
  BY <1>0, <1>1 DEF BeginTxn, Goto, places, infos, maps, history, InOrder, PlacesAreUsed
<1>2. ASSUME NEW t \in Threads, EndTxn(t)
      PROVE  PlacesAreUsed'
  BY <1>0, <1>2 DEF EndTxn, Goto, places, infos, maps, history, InOrder, PlacesAreUsed
<1>3. ASSUME NEW t \in Threads, HandlerLooks(t)
      PROVE  PlacesAreUsed'
  BY <1>0, <1>3
     DEF HandlerLooks, Goto, places, infos, maps, history, InOrder, PlacesAreUsed
<1>4. ASSUME NEW t \in Threads, HandlerLocks(t)
      PROVE  PlacesAreUsed'
  <2>1. UNCHANGED <<ckpt, change_info_inprog>>
    BY <1>4 DEF HandlerLocks, infos
  <2>2. CASE Needed(t)
    <3>1. ckpt.pc # "idle"
      BY <2>2 DEF Needed, InOrder, PlacesAreUsed, NoChanges
    <3> QED
      BY <1>4, <2>1, <2>2, <3>1, HandlerAllocates DEF AllocatesTo, PlacesAreUsed
  <2>3. CASE ~Needed(t)
    BY <1>4, <2>1, <2>3 DEF HandlerLocks, places, InOrder, PlacesAreUsed
  <2> QED
    BY <2>2, <2>3
<1>5. ASSUME NEW t \in Threads, HandlerCopies(t)
      PROVE  PlacesAreUsed'
  BY <1>0, <1>5
     DEF HandlerCopies, Goto, places, infos, maps, history, InOrder, PlacesAreUsed
<1>6. ASSUME NEW t \in Threads, HandlerClears(t)
      PROVE  PlacesAreUsed'
  <2>1. ckpt.pc # "idle"
    BY <1>6
       DEF HandlerClears, InOrder, CopiersHoldMutex, Copying, PlacesAreUsed, NoChanges
  <2> QED
    BY <1>6, <2>1 DEF HandlerClears, places, InOrder, PlacesAreUsed
<1>7. ASSUME NEW t \in Threads, HandlerNotes(t)
      PROVE  PlacesAreUsed'
  BY <1>0, <1>7 DEF HandlerNotes, Goto, places, maps, history, InOrder, PlacesAreUsed
<1>8. ASSUME NEW t \in Threads, HandlerUnprotects(t)
      PROVE  PlacesAreUsed'
  BY <1>0, <1>8
     DEF HandlerUnprotects, Goto, places, infos, history, InOrder, PlacesAreUsed
<1>9. ASSUME NEW t \in Threads, NEW p \in Pages, Store(t, p)
      PROVE  PlacesAreUsed'
  BY <1>0, <1>9 DEF Store, Goto, places, infos, maps, history, InOrder, PlacesAreUsed
<1>10. ASSUME NEW t \in Threads, NEW p \in Pages, Fault(t, p)
      PROVE  PlacesAreUsed'
  BY <1>0, <1>10 DEF Fault, Goto, places, infos, maps, history, InOrder, PlacesAreUsed
<1>11. ASSUME NEW q \in Procs, CkptStart(q)
      PROVE  PlacesAreUsed'
  BY <1>0, <1>11 DEF CkptStart, places, threads, InOrder, PlacesAreUsed
<1>12. ASSUME NEW q \in Procs, Close(q)
      PROVE  PlacesAreUsed'
  BY <1>0, <1>12 DEF Close, places, infos, threads, history, InOrder, PlacesAreUsed
<1>13. ASSUME NEW q \in Procs, Open(q)
      PROVE  PlacesAreUsed'
  BY <1>0, <1>13 DEF Open, places, infos, threads, history, InOrder, PlacesAreUsed
<1>14. ASSUME CkptPage
      PROVE  PlacesAreUsed'
  <2>1. ckpt'.pc # "idle"
    BY <1>0, <1>14 DEF CkptPage, TypeOK, ThreadTypes
  <2>2. CASE Entry \in change_info_inprog.bits
    BY <1>14, <2>1, <2>2, CheckpointAllocates DEF AllocatesTo, PlacesAreUsed
  <2>3. CASE Entry \notin change_info_inprog.bits
    BY <1>14, <2>1, <2>3 DEF CkptPage, places, InOrder, PlacesAreUsed
  <2> QED
    BY <2>2, <2>3
<1>15. ASSUME CkptCopy
      PROVE  PlacesAreUsed'
  <2>1. ckpt'.pc # "idle"
    BY <1>0, <1>15 DEF CkptCopy, TypeOK, ThreadTypes
  <2> QED
    BY <1>15, <2>1 DEF CkptCopy, places, InOrder, PlacesAreUsed
<1>16. ASSUME CkptClear
      PROVE  PlacesAreUsed'
  <2>1. ckpt'.pc # "idle"
    BY <1>0, <1>16 DEF CkptClear, TypeOK, ThreadTypes
  <2> QED
    BY <1>16, <2>1 DEF CkptClear, places, InOrder, PlacesAreUsed
<1>17. ASSUME CkptComplete
      PROVE  PlacesAreUsed'
  <2>1. change_info_inprog.bits = {}
    BY <1>17, NothingLeft DEF CkptComplete
  <2>2. change_info_inprog' = NoChanges
    BY <1>0, <1>17, <2>1 DEF CkptComplete, NoChanges, TypeOK, InfoTypes, Infos
  <2> QED
    BY <1>17, <2>2 DEF CkptComplete, CompleteCheckpoint, InOrder, PlacesAreUsed
<1> QED
  BY <1>1, <1>2, <1>3, <1>4, <1>5, <1>6, <1>7, <1>8, <1>9, <1>10, <1>11, <1>12, <1>13,
     <1>14, <1>15, <1>16, <1>17
     DEF Next, Handler, Checkpoint

\* Every page is listed once, and counted once when it is not needed any more.
LEMMA NextPagesAreCounted ==
    ASSUME InOrder, Next
    PROVE  PagesAreCounted'
<1>0. TypeOK /\ PagesAreCounted
  BY DEF InOrder
<1>f. /\ change_info_inprog.bits \subseteq Pages /\ IsFiniteSet(change_info_inprog.bits)
      /\ Cardinality(change_info_inprog.bits) \in Nat
      /\ change_info_inprog.written \in Nat /\ change_info_inprog.demanded \in Nat
      /\ Len(change_info_inprog.pages) \in Nat /\ ckpt.entry \in Nat \ {0}
  BY <1>0, PagesAreFinite, PagesAssumption, FS_CardinalityType, LenProperties
     DEF TypeOK, InfoTypes, ThreadTypes, Infos
<1>1. ASSUME NEW t \in Threads, BeginTxn(t)
      PROVE  PagesAreCounted'
  BY <1>0, <1>1
     DEF BeginTxn, Goto, places, infos, maps, history, TypeOK, ThreadTypes,
         PagesAreCounted
<1>2. ASSUME NEW t \in Threads, EndTxn(t)
      PROVE  PagesAreCounted'
  BY <1>0, <1>2
     DEF EndTxn, Goto, places, infos, maps, history, TypeOK, ThreadTypes, PagesAreCounted
<1>3. ASSUME NEW t \in Threads, HandlerLooks(t)
      PROVE  PagesAreCounted'
  BY <1>0, <1>3
     DEF HandlerLooks, Goto, places, infos, maps, history, TypeOK, ThreadTypes,
         PagesAreCounted
<1>4. ASSUME NEW t \in Threads, HandlerLocks(t)
      PROVE  PagesAreCounted'
  BY <1>0, <1>4
     DEF HandlerLocks, Goto, places, infos, maps, history, TypeOK, ThreadTypes,
         PagesAreCounted
<1>5. ASSUME NEW t \in Threads, HandlerCopies(t)
      PROVE  PagesAreCounted'
  BY <1>0, <1>5
     DEF HandlerCopies, Goto, places, infos, maps, history, TypeOK, ThreadTypes,
         PagesAreCounted
<1>6. ASSUME NEW t \in Threads, HandlerClears(t)
      PROVE  PagesAreCounted'
  <2>1. at[t] \in change_info_inprog.bits /\ UNCHANGED <<change_info, ckpt>>
    BY <1>6 DEF HandlerClears, InOrder, CopiersHoldMutex, Copying
  <2>2. /\ change_info_inprog'.bits = change_info_inprog.bits \ {at[t]}
        /\ change_info_inprog'.pages = change_info_inprog.pages
        /\ change_info_inprog'.written = change_info_inprog.written
        /\ change_info_inprog'.demanded = change_info_inprog.demanded + 1
    BY <1>0, <1>6 DEF HandlerClears, TypeOK, InfoTypes, Infos
  <2>3. Cardinality(change_info_inprog'.bits) = Cardinality(change_info_inprog.bits) - 1
    BY <1>f, <2>1, <2>2, FS_RemoveElement, ZenonT(60)
  <2>5. ListedOnce(change_info_inprog)'
    BY <1>0, <2>2 DEF PagesAreCounted, ListedOnce
  <2>6. Len(change_info_inprog'.pages) = change_info_inprog'.written
           + change_info_inprog'.demanded + Cardinality(change_info_inprog'.bits)
    BY <1>0, <1>f, <2>2, <2>3 DEF PagesAreCounted
  <2>7. \A p \in change_info_inprog'.bits :
           \E i \in ckpt'.entry .. Len(change_info_inprog'.pages) :
              change_info_inprog'.pages[i] = p
    BY <1>0, <2>1, <2>2 DEF PagesAreCounted
  <2> QED
    BY <1>0, <2>1, <2>5, <2>6, <2>7 DEF PagesAreCounted
<1>7. ASSUME NEW t \in Threads, HandlerNotes(t)
      PROVE  PagesAreCounted'
  <2>1. at[t] \in Pages /\ change_info \in Infos
    BY <1>0 DEF TypeOK, InfoTypes, ThreadTypes
  <2>2. change_info' = Noted(change_info, at[t]) /\ UNCHANGED <<change_info_inprog, ckpt>>
    BY <1>7 DEF HandlerNotes
  <2> QED
    BY <1>0, <2>1, <2>2, NotedIsListed DEF PagesAreCounted
<1>8. ASSUME NEW t \in Threads, HandlerUnprotects(t)
      PROVE  PagesAreCounted'
  BY <1>0, <1>8
     DEF HandlerUnprotects, Goto, places, infos, history, TypeOK, ThreadTypes,
         PagesAreCounted
<1>9. ASSUME NEW t \in Threads, NEW p \in Pages, Store(t, p)
      PROVE  PagesAreCounted'
  BY <1>0, <1>9
     DEF Store, Goto, places, infos, maps, history, TypeOK, ThreadTypes, PagesAreCounted
<1>10. ASSUME NEW t \in Threads, NEW p \in Pages, Fault(t, p)
      PROVE  PagesAreCounted'
  BY <1>0, <1>10
     DEF Fault, Goto, places, infos, maps, history, TypeOK, ThreadTypes, PagesAreCounted
<1>11. ASSUME NEW q \in Procs, CkptStart(q)
      PROVE  PagesAreCounted'
  <2>1. /\ change_info' = NoChanges /\ change_info_inprog' = change_info /\ ckpt'.entry = 1
    BY <1>11 DEF CkptStart, InOrder, PlacesAreUsed
  <2>2. Len(<<>>) = 0 /\ Cardinality({}) = 0
    BY EmptySeq, FS_EmptySet
  <2>3. /\ ListedOnce(change_info)' /\ change_info'.bits = Listed(change_info)'
        /\ change_info'.written = 0 /\ change_info'.demanded = 0
        /\ Len(change_info'.pages) = Cardinality(change_info'.bits)
    BY <2>1, <2>2 DEF NoChanges, ListedOnce, Listed
  <2>4. Cardinality(change_info.bits) \in Nat
    BY <1>0, PagesAreFinite, PagesAssumption DEF TypeOK, InfoTypes, Infos
  <2>5. \A p \in change_info.bits : \E i \in 1 .. Len(change_info.pages) : change_info.pages[i] = p
    BY <1>0 DEF PagesAreCounted, Listed
  <2> QED
    BY <1>0, <2>1, <2>3, <2>4, <2>5 DEF PagesAreCounted
<1>12. ASSUME NEW q \in Procs, Close(q)
      PROVE  PagesAreCounted'
  BY <1>0, <1>12
     DEF Close, places, infos, threads, history, TypeOK, ThreadTypes, PagesAreCounted
<1>13. ASSUME NEW q \in Procs, Open(q)
      PROVE  PagesAreCounted'
  BY <1>0, <1>13
     DEF Open, places, infos, threads, history, TypeOK, ThreadTypes, PagesAreCounted
<1>14. ASSUME CkptPage
      PROVE  PagesAreCounted'
  <2>1. UNCHANGED <<change_info, change_info_inprog>>
    BY <1>14 DEF CkptPage, infos
  <2>2. CASE Entry \in change_info_inprog.bits
    <3>1. ckpt'.entry = ckpt.entry
      BY <1>0, <1>14, <2>2, CheckpointAllocates DEF TypeOK, ThreadTypes
    <3> QED
      BY <1>0, <2>1, <3>1 DEF PagesAreCounted
  <2>3. CASE Entry \notin change_info_inprog.bits
    <3>1. ckpt'.entry = ckpt.entry + 1
      BY <1>0, <1>14, <2>3 DEF CkptPage, TypeOK, ThreadTypes
    <3>2. ASSUME NEW p \in change_info_inprog.bits
          PROVE  \E i \in ckpt.entry + 1 .. Len(change_info_inprog.pages) :
                    change_info_inprog.pages[i] = p
      <4>1. PICK i \in ckpt.entry .. Len(change_info_inprog.pages) :
                change_info_inprog.pages[i] = p
        BY <1>0 DEF PagesAreCounted
      <4>2. i # ckpt.entry
        BY <2>3, <4>1 DEF Entry
      <4> QED
        BY <1>f, <4>1, <4>2
    <3> QED
      BY <1>0, <2>1, <3>1, <3>2 DEF PagesAreCounted
  <2> QED
    BY <2>2, <2>3
<1>15. ASSUME CkptCopy
      PROVE  PagesAreCounted'
  BY <1>0, <1>15
     DEF CkptCopy, places, infos, maps, threads, history, TypeOK, ThreadTypes,
         PagesAreCounted
<1>16. ASSUME CkptClear
      PROVE  PagesAreCounted'
  <2>1. Entry \in change_info_inprog.bits /\ UNCHANGED change_info
        /\ ckpt'.entry = ckpt.entry + 1
    BY <1>0, <1>16
       DEF CkptClear, InOrder, CopiersHoldMutex, CkptCopying, TypeOK, ThreadTypes
  <2>2. /\ change_info_inprog'.bits = change_info_inprog.bits \ {Entry}
        /\ change_info_inprog'.pages = change_info_inprog.pages
        /\ change_info_inprog'.written = change_info_inprog.written + 1
        /\ change_info_inprog'.demanded = change_info_inprog.demanded
    BY <1>0, <1>16 DEF CkptClear, TypeOK, InfoTypes, Infos
  <2>3. Cardinality(change_info_inprog'.bits) = Cardinality(change_info_inprog.bits) - 1
    BY <1>f, <2>1, <2>2, FS_RemoveElement
  <2>4. ASSUME NEW p \in change_info_inprog.bits \ {Entry}
        PROVE  \E i \in ckpt.entry + 1 .. Len(change_info_inprog.pages) :
                  change_info_inprog.pages[i] = p
    <3>1. PICK i \in ckpt.entry .. Len(change_info_inprog.pages) :
              change_info_inprog.pages[i] = p
      BY <1>0 DEF PagesAreCounted
    <3>2. i # ckpt.entry
      BY <3>1 DEF Entry
    <3> QED
      BY <1>f, <3>1, <3>2
  <2>5. ListedOnce(change_info_inprog)'
    BY <1>0, <2>2 DEF PagesAreCounted, ListedOnce
  <2>6. Len(change_info_inprog'.pages) = change_info_inprog'.written
           + change_info_inprog'.demanded + Cardinality(change_info_inprog'.bits)
    <3>1. Len(change_info_inprog.pages) = change_info_inprog.written
             + change_info_inprog.demanded + Cardinality(change_info_inprog.bits)
      BY <1>0 DEF PagesAreCounted
    <3> QED
      BY <1>f, <2>2, <2>3, <3>1
  <2>7. \A p \in change_info_inprog'.bits :
           \E i \in ckpt'.entry .. Len(change_info_inprog'.pages) :
              change_info_inprog'.pages[i] = p
    BY <1>0, <2>1, <2>2, <2>4 DEF PagesAreCounted
  <2> QED
    BY <1>0, <2>1, <2>5, <2>6, <2>7 DEF PagesAreCounted
<1>17. ASSUME CkptComplete
      PROVE  PagesAreCounted'
  <2>1. change_info_inprog.bits = {}
    BY <1>17, NothingLeft DEF CkptComplete
  <2>2. change_info_inprog' = NoChanges /\ UNCHANGED change_info
    BY <1>0, <1>17, <2>1 DEF CkptComplete, NoChanges, TypeOK, InfoTypes, Infos
  <2>3. Len(<<>>) = 0 /\ Cardinality({}) = 0
    BY EmptySeq, FS_EmptySet
  <2>4. ListedOnce(change_info_inprog)'
    BY <2>2, <2>3 DEF NoChanges, ListedOnce
  <2>5. /\ change_info_inprog'.bits = {} /\ Len(change_info_inprog'.pages) = 0
        /\ change_info_inprog'.written = 0 /\ change_info_inprog'.demanded = 0
        /\ Cardinality(change_info_inprog'.bits) = 0
    BY <2>2, <2>3 DEF NoChanges
  <2> QED
    BY <1>0, <2>2, <2>4, <2>5 DEF PagesAreCounted
<1> QED
  BY <1>1, <1>2, <1>3, <1>4, <1>5, <1>6, <1>7, <1>8, <1>9, <1>10, <1>11, <1>12, <1>13,
     <1>14, <1>15, <1>16, <1>17
     DEF Next, Handler, Checkpoint

\* Between checkpoints there are as many free places as pages: a place that is not free holds
\* a page of its own.
LEMMA FreeBetween ==
    ASSUME InOrder, ckpt.pc = "idle"
    PROVE  Cardinality(free_pages) >= N
<1> DEFINE used == Places \ free_pages
<1>0. TypeOK /\ free_pages \subseteq Places /\ used \subseteq Places
  BY DEF InOrder, TypeOK, PlaceTypes
<1>1. /\ IsFiniteSet(used) /\ Cardinality(used) \in Nat
      /\ Cardinality(free_pages) \in Nat
      /\ IsFiniteSet(Pages) /\ Cardinality(Pages) = N
  <2> HIDE DEF used
  <2>1. IsFiniteSet(Pages) /\ Cardinality(Pages) = N
    BY PagesAssumption, FS_Interval
  <2> QED
    BY <1>0, <2>1, PagesAreFinite
<1>2. ASSUME NEW c \in used
      PROVE  /\ ckpt_content[c] \in Pages /\ page_locs[ckpt_content[c]] = c
  <2>1. PICK p \in Pages : page_locs[p] = c
    BY DEF InOrder, PlacesAreUsed
  <2>2. c # Nowhere /\ p \in Placed /\ page_locs[p] = c
    BY <2>1, NowhereAssumption, PagesAssumption DEF Placed
  <2>3. ckpt_content[c] = p
    BY <2>2 DEF InOrder, PlacesInOneUse
  <2> QED
    BY <2>2, <2>3
<1> DEFINE holds == [c \in used |-> ckpt_content[c]]
<1>3. holds \in [used -> Pages]
  BY <1>2
<1>4. \A c, d \in used : holds[c] = holds[d] => c = d
  BY <1>2
<1>5. ~(Cardinality(Pages) < Cardinality(used))
  <2> HIDE DEF holds, used
  <2> QED
    BY <1>1, <1>3, <1>4, FS_PigeonHole, ZenonT(60)
<1>6. Cardinality(used) = 2 * N - Cardinality(free_pages)
  <2>1. Places \cap free_pages = free_pages
    BY <1>0
  <2>2. IsFiniteSet(Places) /\ Cardinality(Places) = 2 * N
    BY PagesAreFinite
  <2> HIDE DEF Places
  <2> QED
    BY <2>1, <2>2, FS_Difference
<1> QED
  BY <1>1, <1>5, <1>6, PagesAssumption

\* The pages that still need a place.
Unplaced == change_info_inprog.bits \ BeingCopied

\* While no place is taken and no page more is needed, the free places remain enough.
LEMMA FreeAsBefore ==
    ASSUME InOrder, TypeOK', free_pages' = free_pages, Unplaced' \subseteq Unplaced
    PROVE  PlacesLeft'
<1>0. Unplaced \subseteq Pages /\ free_pages \subseteq Places
  BY DEF InOrder, TypeOK, InfoTypes, PlaceTypes, Infos, Unplaced
<1>1. /\ IsFiniteSet(Unplaced) /\ IsFiniteSet(free_pages)
      /\ Cardinality(Unplaced) \in Nat /\ Cardinality(free_pages) \in Nat
  BY <1>0, PagesAreFinite, FS_CardinalityType
<1>2. Cardinality(Unplaced') <= Cardinality(Unplaced) /\ Cardinality(Unplaced') \in Nat
  <2>1. Unplaced' \in SUBSET Unplaced
    OBVIOUS
  <2> QED
    BY <1>1, <2>1, FS_Subset, FS_CardinalityType
<1>3. Cardinality(free_pages) >= Cardinality(Unplaced)
  BY DEF InOrder, PlacesLeft, Unplaced
<1>4. Cardinality(free_pages') >= Cardinality(Unplaced')
  BY <1>1, <1>2, <1>3
<1> QED
  BY <1>4 DEF PlacesLeft, Unplaced

\* A page that gets a place needs none any more.
LEMMA OneFreeLess ==
    ASSUME InOrder, NEW p \in Unplaced, NEW c \in free_pages, free_pages' = free_pages \ {c},
           Unplaced' \subseteq Unplaced \ {p}
    PROVE  PlacesLeft'
<1>0. Unplaced \subseteq Pages /\ free_pages \subseteq Places
  BY DEF InOrder, TypeOK, InfoTypes, PlaceTypes, Infos, Unplaced
<1>1. /\ IsFiniteSet(Unplaced) /\ IsFiniteSet(free_pages)
      /\ Cardinality(Unplaced) \in Nat /\ Cardinality(free_pages) \in Nat
  BY <1>0, PagesAreFinite, FS_CardinalityType
<1>2. /\ Cardinality(Unplaced \ {p}) = Cardinality(Unplaced) - 1
      /\ IsFiniteSet(Unplaced \ {p})
      /\ Cardinality(free_pages') = Cardinality(free_pages) - 1
  BY <1>1, FS_RemoveElement
<1>3. Cardinality(Unplaced') <= Cardinality(Unplaced \ {p}) /\ Cardinality(Unplaced') \in Nat
  <2>1. Unplaced' \in SUBSET (Unplaced \ {p})
    OBVIOUS
  <2> QED
    BY <1>1, <1>2, <2>1, FS_Subset, FS_CardinalityType
<1>4. Cardinality(free_pages) >= Cardinality(Unplaced)
  BY DEF InOrder, PlacesLeft, Unplaced
<1>5. Cardinality(free_pages') >= Cardinality(Unplaced')
  BY <1>1, <1>2, <1>3, <1>4
<1> QED
  BY <1>5 DEF PlacesLeft, Unplaced

\* Places are taken one for a page that needed one, and a complete checkpoint frees as many
\* as the next one can need.
LEMMA NextPlacesLeft ==
    ASSUME InOrder, Next
    PROVE  PlacesLeft'
<1>0. TypeOK
  BY DEF InOrder
<1>t. TypeOK'
  BY NextTypes
<1>1. ASSUME NEW t \in Threads, BeginTxn(t)
      PROVE  PlacesLeft'
  <2>1. free_pages' = free_pages
    BY <1>1 DEF BeginTxn, Goto, places, infos, maps, history
  <2>2. Unplaced' \subseteq Unplaced
    BY <1>0, <1>1
       DEF BeginTxn, Goto, places, infos, maps, history, TypeOK, InfoTypes, ThreadTypes,
           Infos, Unplaced, BeingCopied, Entry
  <2> QED
    BY <1>t, <2>1, <2>2, FreeAsBefore
<1>2. ASSUME NEW t \in Threads, EndTxn(t)
      PROVE  PlacesLeft'
  <2>1. free_pages' = free_pages
    BY <1>2 DEF EndTxn, Goto, places, infos, maps, history
  <2>2. Unplaced' \subseteq Unplaced
    BY <1>0, <1>2
       DEF EndTxn, Goto, places, infos, maps, history, TypeOK, InfoTypes, ThreadTypes,
           Infos, Unplaced, BeingCopied, Entry
  <2> QED
    BY <1>t, <2>1, <2>2, FreeAsBefore
<1>3. ASSUME NEW t \in Threads, HandlerLooks(t)
      PROVE  PlacesLeft'
  <2>1. free_pages' = free_pages
    BY <1>3 DEF HandlerLooks, Goto, places, infos, maps, history
  <2>2. Unplaced' \subseteq Unplaced
    BY <1>0, <1>3
       DEF HandlerLooks, Goto, places, infos, maps, history, TypeOK, InfoTypes,
           ThreadTypes, Infos, Unplaced, BeingCopied, Entry
  <2> QED
    BY <1>t, <2>1, <2>2, FreeAsBefore
<1>4. ASSUME NEW t \in Threads, HandlerLocks(t)
      PROVE  PlacesLeft'
  <2>1. UNCHANGED <<ckpt, change_info_inprog, at>>
    BY <1>4 DEF HandlerLocks, infos
  <2>2. CASE Needed(t)
    <3>1. PICK c \in Places : AllocatesTo(at[t], c) /\ Goto(t, "copy")
      BY <1>4, <2>2, HandlerAllocates
    <3>2. at[t] \in Unplaced
      BY <1>0, <1>4, <2>2, FreeMutex
         DEF InOrder, HandlerLocks, Needed, Unplaced, TypeOK, ThreadTypes
    <3>3. at[t] \in BeingCopied' /\ BeingCopied \subseteq BeingCopied'
      BY <1>0, <2>1, <3>1 DEF Goto, BeingCopied, Entry, TypeOK, ThreadTypes
    <3>4. Unplaced' \subseteq Unplaced \ {at[t]}
      BY <2>1, <3>3 DEF Unplaced
    <3> QED
      BY <3>1, <3>2, <3>4, OneFreeLess DEF AllocatesTo
  <2>3. CASE ~Needed(t)
    <3>1. free_pages' = free_pages
      BY <1>4, <2>3 DEF HandlerLocks, places
    <3>2. Unplaced' \subseteq Unplaced
      BY <1>0, <1>4, <2>1, <2>3
         DEF HandlerLocks, Goto, TypeOK, ThreadTypes, Unplaced, BeingCopied, Entry
    <3> QED
      BY <1>t, <3>1, <3>2, FreeAsBefore
  <2> QED
    BY <2>2, <2>3
<1>5. ASSUME NEW t \in Threads, HandlerCopies(t)
      PROVE  PlacesLeft'
  <2>1. free_pages' = free_pages
    BY <1>5 DEF HandlerCopies, Goto, places, infos, maps, history
  <2>2. Unplaced' \subseteq Unplaced
    BY <1>0, <1>5
       DEF HandlerCopies, Goto, places, infos, maps, history, TypeOK, InfoTypes,
           ThreadTypes, Infos, Unplaced, BeingCopied, Entry
  <2> QED
    BY <1>t, <2>1, <2>2, FreeAsBefore
<1>6. ASSUME NEW t \in Threads, HandlerClears(t)
      PROVE  PlacesLeft'
  <2>1. free_pages' = free_pages
    BY <1>6 DEF HandlerClears, Goto, places, maps, history
  <2>2. Unplaced' \subseteq Unplaced
    BY <1>0, <1>6
       DEF HandlerClears, Goto, places, maps, history, TypeOK, InfoTypes, ThreadTypes,
           Infos, Unplaced, BeingCopied, Entry
  <2> QED
    BY <1>t, <2>1, <2>2, FreeAsBefore
<1>7. ASSUME NEW t \in Threads, HandlerNotes(t)
      PROVE  PlacesLeft'
  <2>1. free_pages' = free_pages
    BY <1>7 DEF HandlerNotes, Goto, places, maps, history
  <2>2. Unplaced' \subseteq Unplaced
    BY <1>0, <1>7
       DEF HandlerNotes, Goto, places, maps, history, TypeOK, InfoTypes, ThreadTypes,
           Infos, Unplaced, BeingCopied, Entry
  <2> QED
    BY <1>t, <2>1, <2>2, FreeAsBefore
<1>8. ASSUME NEW t \in Threads, HandlerUnprotects(t)
      PROVE  PlacesLeft'
  <2>1. free_pages' = free_pages
    BY <1>8 DEF HandlerUnprotects, Goto, places, infos, history
  <2>2. Unplaced' \subseteq Unplaced
    BY <1>0, <1>8
       DEF HandlerUnprotects, Goto, places, infos, history, TypeOK, InfoTypes,
           ThreadTypes, Infos, Unplaced, BeingCopied, Entry
  <2> QED
    BY <1>t, <2>1, <2>2, FreeAsBefore
<1>9. ASSUME NEW t \in Threads, NEW p \in Pages, Store(t, p)
      PROVE  PlacesLeft'
  <2>1. free_pages' = free_pages
    BY <1>9 DEF Store, Goto, places, infos, maps, history
  <2>2. Unplaced' \subseteq Unplaced
    BY <1>0, <1>9
       DEF Attempts, Store, Goto, places, infos, maps, history, TypeOK, InfoTypes,
           ThreadTypes, Infos, Unplaced, BeingCopied, Entry
  <2> QED
    BY <1>t, <2>1, <2>2, FreeAsBefore
<1>10. ASSUME NEW t \in Threads, NEW p \in Pages, Fault(t, p)
      PROVE  PlacesLeft'
  <2>1. free_pages' = free_pages
    BY <1>10 DEF Fault, Goto, places, infos, maps, history
  <2>2. Unplaced' \subseteq Unplaced
    BY <1>0, <1>10
       DEF Attempts, Fault, Goto, places, infos, maps, history, TypeOK, InfoTypes,
           ThreadTypes, Infos, Unplaced, BeingCopied, Entry
  <2> QED
    BY <1>t, <2>1, <2>2, FreeAsBefore
<1>11. ASSUME NEW q \in Procs, CkptStart(q)
      PROVE  PlacesLeft'
  <2>1. /\ UNCHANGED free_pages /\ change_info_inprog' = change_info
    BY <1>11 DEF CkptStart, places
  <2>2. Cardinality(free_pages) >= N /\ Cardinality(free_pages) \in Nat
    BY <1>0, <1>11, FreeBetween, PagesAreFinite DEF CkptStart, TypeOK, PlaceTypes
  <2>3. Unplaced' \subseteq Pages
    BY <1>t DEF Unplaced, TypeOK, InfoTypes, Infos
  <2>4. Cardinality(Unplaced') <= N /\ Cardinality(Unplaced') \in Nat
    <3>1. IsFiniteSet(Pages) /\ Cardinality(Pages) = N
      BY PagesAssumption, FS_Interval
    <3>2. Unplaced' \in SUBSET Pages
      BY <2>3
    <3> QED
      BY <3>1, <3>2, FS_Subset, FS_CardinalityType
  <2> QED
    BY <2>1, <2>2, <2>4, PagesAssumption DEF PlacesLeft, Unplaced
<1>12. ASSUME NEW q \in Procs, Close(q)
      PROVE  PlacesLeft'
  <2>1. free_pages' = free_pages
    BY <1>12 DEF Close, places, infos, threads, history
  <2>2. Unplaced' \subseteq Unplaced
    BY <1>0, <1>12
       DEF Close, places, infos, threads, history, TypeOK, InfoTypes, ThreadTypes, Infos,
           Unplaced, BeingCopied, Entry
  <2> QED
    BY <1>t, <2>1, <2>2, FreeAsBefore
<1>13. ASSUME NEW q \in Procs, Open(q)
      PROVE  PlacesLeft'
  <2>1. free_pages' = free_pages
    BY <1>13 DEF Open, places, infos, threads, history
  <2>2. Unplaced' \subseteq Unplaced
    BY <1>0, <1>13
       DEF Open, places, infos, threads, history, TypeOK, InfoTypes, ThreadTypes, Infos,
           Unplaced, BeingCopied, Entry
  <2> QED
    BY <1>t, <2>1, <2>2, FreeAsBefore
<1>14. ASSUME CkptPage
      PROVE  PlacesLeft'
  <2>1. UNCHANGED <<change_info_inprog, pc, at>>
    BY <1>14 DEF CkptPage, infos, threads
  <2>2. CASE Entry \in change_info_inprog.bits
    <3>1. PICK c \in Places :
             AllocatesTo(Entry, c) /\ ckpt' = [ckpt EXCEPT !.pc = "copy", !.place = c]
      BY <1>14, <2>2, CheckpointAllocates
    <3>2. Entry \in Unplaced
      BY <1>0, <1>14, <2>2, FreeMutex, EntryTypes DEF InOrder, CkptPage, Unplaced
    <3>3. Entry \in BeingCopied' /\ BeingCopied \subseteq BeingCopied'
      BY <1>0, <1>14, <2>1, <3>1, ZenonT(60) DEF CkptPage, BeingCopied, Entry, TypeOK, ThreadTypes
    <3>4. Unplaced' \subseteq Unplaced \ {Entry}
      BY <2>1, <3>3 DEF Unplaced
    <3> QED
      BY <3>1, <3>2, <3>4, OneFreeLess DEF AllocatesTo
  <2>3. CASE Entry \notin change_info_inprog.bits
    <3>1. free_pages' = free_pages
      BY <1>14, <2>3 DEF CkptPage, places
    <3>2. Unplaced' \subseteq Unplaced
      BY <1>0, <1>14, <2>1, <2>3 DEF CkptPage, TypeOK, ThreadTypes, Unplaced, BeingCopied
    <3> QED
      BY <1>t, <3>1, <3>2, FreeAsBefore
  <2> QED
    BY <2>2, <2>3
<1>15. ASSUME CkptCopy
      PROVE  PlacesLeft'
  <2>1. free_pages' = free_pages
    BY <1>15 DEF CkptCopy, places, infos, maps, threads, history
  <2>2. Unplaced' \subseteq Unplaced
    BY <1>0, <1>15
       DEF CkptCopy, places, infos, maps, threads, history, TypeOK, InfoTypes,
           ThreadTypes, Infos, Unplaced, BeingCopied, Entry
  <2> QED
    BY <1>t, <2>1, <2>2, FreeAsBefore
<1>16. ASSUME CkptClear
      PROVE  PlacesLeft'
  <2>1. free_pages' = free_pages
    BY <1>16 DEF CkptClear, places, maps, threads, history
  <2>2. Unplaced' \subseteq Unplaced
    BY <1>0, <1>16
       DEF CkptClear, places, maps, threads, history, TypeOK, InfoTypes, ThreadTypes,
           Infos, Unplaced, BeingCopied, Entry
  <2> QED
    BY <1>t, <2>1, <2>2, FreeAsBefore
<1>17. ASSUME CkptComplete
      PROVE  PlacesLeft'
  <2>1. change_info_inprog'.bits = {}
    BY <1>0, <1>17, NothingLeft DEF CkptComplete, TypeOK, InfoTypes, Infos
  <2>2. Cardinality(free_pages') \in Nat /\ Cardinality(Unplaced') = 0
    BY <1>t, <2>1, PagesAreFinite, FS_EmptySet DEF TypeOK, PlaceTypes, Unplaced
  <2> QED
    BY <2>2 DEF PlacesLeft, Unplaced
<1> QED
  BY <1>1, <1>2, <1>3, <1>4, <1>5, <1>6, <1>7, <1>8, <1>9, <1>10, <1>11, <1>12, <1>13,
     <1>14, <1>15, <1>16, <1>17
     DEF Next, Handler, Checkpoint

\* At the start every place is free and no page is noted.
LEMMA InitInOrder == Init => InOrder
<1> SUFFICES ASSUME Init
             PROVE  InOrder
  OBVIOUS
<1> USE PagesAssumption, ThreadsAssumption, BoundsAssumption
<1>1. /\ <<>> \in Seq(Pages) /\ Len(<<>>) = 0 /\ Cardinality({}) = 0
      /\ 0 \in Pages /\ 0 \in Places
  BY EmptySeq, FS_EmptySet
<1>2. NoChanges \in Infos /\ Listed(NoChanges) = {} /\ ListedOnce(NoChanges)
  BY <1>1 DEF NoChanges, Infos, Listed, ListedOnce
<1>3. TypeOK
  <2>1. ContentTypes
    BY DEF Init, ContentTypes, Somewhere
  <2>2. PlaceTypes
    BY DEF Init, PlaceTypes, Somewhere
  <2>3. InfoTypes
    BY <1>2 DEF Init, InfoTypes
  <2>4. ThreadTypes
    BY <1>1 DEF Init, ThreadTypes
  <2> QED
    BY <2>1, <2>2, <2>3, <2>4 DEF TypeOK
<1>4. CopiersHoldMutex
  BY DEF Init, CopiersHoldMutex, Copying, CkptCopying
<1>5. PagesAreCounted
  <2>1. change_info = NoChanges /\ change_info_inprog = NoChanges
    BY DEF Init
  <2>2. /\ NoChanges.bits = {} /\ Len(NoChanges.pages) = 0
        /\ NoChanges.written = 0 /\ NoChanges.demanded = 0
    BY <1>1 DEF NoChanges
  <2> QED
    BY <1>1, <1>2, <2>1, <2>2 DEF PagesAreCounted
<1>6. PlacesInOneUse
  BY DEF Init, PlacesInOneUse, Placed
<1>7. PlacesAreUsed
  BY DEF Init, PlacesAreUsed
<1>8. PlacesLeft
  <2>1. change_info_inprog.bits \ BeingCopied = {} /\ Cardinality(free_pages) \in Nat
    BY <1>3, PagesAreFinite DEF Init, NoChanges, TypeOK, PlaceTypes
  <2> QED
    BY <1>1, <2>1 DEF PlacesLeft
<1> QED
  BY <1>3, <1>4, <1>5, <1>6, <1>7, <1>8 DEF InOrder

\* Every step keeps the order of places and mutexes.
LEMMA NextInOrder == InOrder /\ [Next]_vars => InOrder'
<1>1. ASSUME InOrder, Next
      PROVE  InOrder'
  BY <1>1, NextTypes, NextCopiersHoldMutex, NextPagesAreCounted, NextPlacesInOneUse,
     NextPlacesAreUsed, NextPlacesLeft
     DEF InOrder
<1>2. ASSUME InOrder, UNCHANGED vars
      PROVE  InOrder'
  <2> USE <1>2 DEF InOrder, vars, places, infos, maps, threads, history
  <2>1. TypeOK'
    BY DEF TypeOK, ContentTypes, PlaceTypes, InfoTypes, ThreadTypes
  <2>2. CopiersHoldMutex'
    BY DEF CopiersHoldMutex, Copying, CkptCopying, MoreEntries, Entry
  <2>3. PagesAreCounted'
    BY DEF PagesAreCounted
  <2>4. PlacesInOneUse' /\ PlacesAreUsed'
    BY DEF PlacesInOneUse, Placed, PlacesAreUsed
  <2>5. PlacesLeft'
    BY DEF PlacesLeft, BeingCopied, Entry
  <2> QED
    BY <2>1, <2>2, <2>3, <2>4, <2>5
<1> QED
  BY <1>1, <1>2

\* The order is all that CheckpointIsInOrder says.
LEMMA OrderIsEnough == InOrder => CheckpointIsInOrder
<1> SUFFICES ASSUME InOrder
             PROVE  CheckpointIsInOrder
  OBVIOUS
<1>1. EnoughFreePages
  BY FreeBetween DEF InOrder, PlacesLeft, EnoughFreePages
<1>2. ASSUME ckpt.pc = "next", ~MoreEntries
      PROVE  Len(change_info_inprog.pages)
                = change_info_inprog.written + change_info_inprog.demanded
  <2>1. Cardinality(change_info_inprog.bits) = 0
    BY <1>2, NothingLeft, FS_EmptySet
  <2>2. change_info_inprog.written \in Nat /\ change_info_inprog.demanded \in Nat
    BY DEF InOrder, TypeOK, InfoTypes, Infos
  <2> QED
    BY <2>1, <2>2 DEF InOrder, PagesAreCounted
<1> QED
  BY <1>1, <1>2 DEF InOrder, PlacesAreUsed, CheckpointIsInOrder, VerifiesHold

\* checkpoint() and the handler of the page faults (checkpoint_manager_impl::checkpoint and
\* page_write_handler) always find a free place for a page, no two pages share a place, what
\* a loader needs is not written to, and the assertions of checkpoint() hold.
THEOREM CheckpointsAreInOrder == Spec => []CheckpointIsInOrder
<1>1. Spec => []InOrder
  BY InitInOrder, NextInOrder, PTL DEF Spec
<1> QED
  BY <1>1, OrderIsEnough, PTL

\* Each copier has the place of its page to itself.
LEMMA OwnPlaces ==
    ASSUME InOrder
    PROVE  /\ \A t \in Threads : Copying(t) =>
                 /\ at[t] \in Pages /\ at[t] \in change_info_inprog.bits
                 /\ got[t] \in Places /\ page_locs[at[t]] = got[t]
                 /\ \A p \in Pages : p # at[t] => page_locs[p] # got[t]
                 /\ \A u \in Threads : Copying(u) /\ u # t => got[u] # got[t]
           /\ CkptCopying =>
                 /\ Entry \in Pages /\ Entry \in change_info_inprog.bits
                 /\ ckpt.place \in Places /\ page_locs[Entry] = ckpt.place
                 /\ \A p \in Pages : p # Entry => page_locs[p] # ckpt.place
                 /\ \A t \in Threads : Copying(t) => got[t] # ckpt.place
<1>1. TypeOK /\ CopiersHoldMutex /\ PlacesInOneUse
  BY DEF InOrder
<1>2. \A p, q \in Pages : page_locs[p] \in Places /\ page_locs[q] = page_locs[p] => p = q
  BY <1>1, NowhereAssumption, PagesAssumption DEF PlacesInOneUse, Placed
<1>3. \A t \in Threads : Copying(t) =>
         /\ at[t] \in Pages /\ at[t] \in change_info_inprog.bits
         /\ got[t] \in Places /\ page_locs[at[t]] = got[t] /\ mutex[MutexOf(at[t])] = t
  BY <1>1 DEF TypeOK, ThreadTypes, CopiersHoldMutex
<1>4. CkptCopying =>
         /\ Entry \in Pages /\ Entry \in change_info_inprog.bits
         /\ ckpt.place \in Places /\ page_locs[Entry] = ckpt.place
         /\ mutex[MutexOf(Entry)] = "checkpoint"
  BY <1>1, EntryTypes DEF TypeOK, ThreadTypes, CopiersHoldMutex
<1> QED
  BY <1>2, <1>3, <1>4, ThreadsAssumption

\* What the handler has looked at stays so: no checkpoint starts before it has returned.
LEMMA NextHandlersAreInside ==
    ASSUME Kept, Next
    PROVE  HandlersAreInside'
<1>0. TypeOK /\ TypeOK' /\ InOrder /\ HandlersAreInside
  BY NextTypes DEF Kept, InOrder
<1>1. ASSUME NEW t \in Threads, BeginTxn(t)
      PROVE  HandlersAreInside'
  BY <1>0, <1>1
     DEF BeginTxn, Goto, places, infos, maps, history, TypeOK, InfoTypes, ThreadTypes,
         Infos, HandlersAreInside
<1>2. ASSUME NEW t \in Threads, EndTxn(t)
      PROVE  HandlersAreInside'
  BY <1>0, <1>2
     DEF EndTxn, Goto, places, infos, maps, history, TypeOK, InfoTypes, ThreadTypes,
         Infos, HandlersAreInside
<1>3. ASSUME NEW t \in Threads, HandlerLooks(t)
      PROVE  HandlersAreInside'
  BY <1>0, <1>3
     DEF HandlerLooks, Goto, places, infos, maps, history, TypeOK, InfoTypes, ThreadTypes,
         Infos, HandlersAreInside
<1>4. ASSUME NEW t \in Threads, HandlerLocks(t)
      PROVE  HandlersAreInside'
  <2>1. /\ UNCHANGED <<infos, readers, at>> /\ pc[t] = "lock"
        /\ Goto(t, "copy") \/ (~Needed(t) /\ Goto(t, "note"))
    BY <1>4 DEF HandlerLocks
  <2> QED
    BY <1>0, <2>1 DEF Goto, infos, Needed, TypeOK, ThreadTypes, HandlersAreInside
<1>5. ASSUME NEW t \in Threads, HandlerCopies(t)
      PROVE  HandlersAreInside'
  BY <1>0, <1>5
     DEF HandlerCopies, Goto, places, infos, maps, history, TypeOK, InfoTypes,
         ThreadTypes, Infos, HandlersAreInside
<1>6. ASSUME NEW t \in Threads, HandlerClears(t)
      PROVE  HandlersAreInside'
  BY <1>0, <1>6
     DEF HandlerClears, Goto, places, maps, history, TypeOK, InfoTypes, ThreadTypes,
         Infos, HandlersAreInside
<1>7. ASSUME NEW t \in Threads, HandlerNotes(t)
      PROVE  HandlersAreInside'
  <2>1. change_info'.bits \subseteq change_info.bits \cup {at[t]}
    BY <1>0, <1>7 DEF HandlerNotes, Noted, TypeOK, InfoTypes, Infos
  <2>2. pc[t] = "note" /\ Goto(t, "unprotect") /\ UNCHANGED <<change_info_inprog, readers, at>>
    BY <1>7 DEF HandlerNotes
  <2> QED
    BY <1>0, <2>1, <2>2 DEF Goto, TypeOK, ThreadTypes, HandlersAreInside
<1>8. ASSUME NEW t \in Threads, HandlerUnprotects(t)
      PROVE  HandlersAreInside'
  BY <1>0, <1>8
     DEF HandlerUnprotects, Goto, places, infos, history, TypeOK, InfoTypes, ThreadTypes,
         Infos, HandlersAreInside
<1>9. ASSUME NEW t \in Threads, NEW p \in Pages, Store(t, p)
      PROVE  HandlersAreInside'
  BY <1>0, <1>9
     DEF Attempts, Store, Goto, places, infos, maps, history, TypeOK, InfoTypes,
         ThreadTypes, Infos, HandlersAreInside
<1>10. ASSUME NEW t \in Threads, NEW p \in Pages, Fault(t, p)
      PROVE  HandlersAreInside'
  BY <1>0, <1>10
     DEF Attempts, Fault, Goto, places, infos, maps, history, TypeOK, InfoTypes,
         ThreadTypes, Infos, HandlersAreInside
<1>11. ASSUME NEW q \in Procs, CkptStart(q)
      PROVE  HandlersAreInside'
  <2>1. change_info' = NoChanges /\ NoChanges.bits = {} /\ UNCHANGED <<pc, readers>>
    BY <1>0, <1>11 DEF CkptStart, InOrder, PlacesAreUsed, threads, NoChanges
  <2>2. \A u \in Threads : pc[u] = "idle"
    BY <1>0, <1>11 DEF CkptStart, MayStart, HandlersAreInside
  <2> QED
    BY <2>1, <2>2 DEF HandlersAreInside
<1>12. ASSUME NEW q \in Procs, Close(q)
      PROVE  HandlersAreInside'
  BY <1>0, <1>12
     DEF Close, places, infos, threads, history, TypeOK, InfoTypes, ThreadTypes, Infos,
         HandlersAreInside
<1>13. ASSUME NEW q \in Procs, Open(q)
      PROVE  HandlersAreInside'
  BY <1>0, <1>13
     DEF Open, places, infos, threads, history, TypeOK, InfoTypes, ThreadTypes, Infos,
         HandlersAreInside
<1>14. ASSUME CkptPage
      PROVE  HandlersAreInside'
  <2>1. UNCHANGED <<infos, readers, threads>>
    BY <1>14 DEF CkptPage
  <2> QED
    BY <1>0, <2>1 DEF infos, threads, HandlersAreInside
<1>15. ASSUME CkptCopy
      PROVE  HandlersAreInside'
  BY <1>0, <1>15
     DEF CkptCopy, places, infos, maps, threads, history, TypeOK, InfoTypes, ThreadTypes,
         Infos, HandlersAreInside
<1>16. ASSUME CkptClear
      PROVE  HandlersAreInside'
  BY <1>0, <1>16
     DEF CkptClear, places, maps, threads, history, TypeOK, InfoTypes, ThreadTypes, Infos,
         HandlersAreInside
<1>17. ASSUME CkptComplete
      PROVE  HandlersAreInside'
  BY <1>0, <1>17
     DEF CkptComplete, CompleteCheckpoint, maps, threads, TypeOK, InfoTypes, ThreadTypes,
         Infos, HandlersAreInside
<1> QED
  BY <1>1, <1>2, <1>3, <1>4, <1>5, <1>6, <1>7, <1>8, <1>9, <1>10, <1>11, <1>12, <1>13,
     <1>14, <1>15, <1>16, <1>17
     DEF Next, Handler, Checkpoint

\* A copier takes a place that was free; what was saved by then is not.
LEMMA NextSavedIsKept ==
    ASSUME Kept, Next
    PROVE  SavedIsKept'
<1>0. TypeOK /\ InOrder /\ SavedIsKept
  BY DEF Kept, InOrder
<1>1. ASSUME NEW t \in Threads, BeginTxn(t)
      PROVE  SavedIsKept'
  BY <1>0, <1>1
     DEF BeginTxn, Goto, places, infos, maps, history, TypeOK, ThreadTypes, SavedIsKept,
         Copying, CkptCopying
<1>2. ASSUME NEW t \in Threads, EndTxn(t)
      PROVE  SavedIsKept'
  BY <1>0, <1>2
     DEF EndTxn, Goto, places, infos, maps, history, TypeOK, ThreadTypes, SavedIsKept,
         Copying, CkptCopying
<1>3. ASSUME NEW t \in Threads, HandlerLooks(t)
      PROVE  SavedIsKept'
  BY <1>0, <1>3
     DEF HandlerLooks, Goto, places, infos, maps, history, TypeOK, ThreadTypes,
         SavedIsKept, Copying, CkptCopying
<1>4. ASSUME NEW t \in Threads, HandlerLocks(t)
      PROVE  SavedIsKept'
  <2>1. CASE Needed(t)
    <3>1. PICK c \in Places :
             /\ AllocatesTo(at[t], c)
             /\ got' = [got EXCEPT ![t] = c] /\ Goto(t, "copy")
      BY <1>0, <1>4, <2>1, HandlerAllocates
    <3>2. c \in free_pages /\ free_pages' = free_pages \ {c} /\ UNCHANGED <<saved, ckpt>>
      BY <1>4, <3>1 DEF HandlerLocks, AllocatesTo, history
    <3> QED
      BY <1>0, <3>1, <3>2 DEF Goto, TypeOK, ThreadTypes, SavedIsKept, Copying, CkptCopying
  <2>2. CASE ~Needed(t)
    BY <1>0, <1>4, <2>2
       DEF HandlerLocks, Goto, places, history, TypeOK, ThreadTypes, SavedIsKept, Copying,
           CkptCopying
  <2> QED
    BY <2>1, <2>2
<1>5. ASSUME NEW t \in Threads, HandlerCopies(t)
      PROVE  SavedIsKept'
  BY <1>0, <1>5
     DEF HandlerCopies, Goto, places, infos, maps, history, TypeOK, ThreadTypes,
         SavedIsKept, Copying, CkptCopying
<1>6. ASSUME NEW t \in Threads, HandlerClears(t)
      PROVE  SavedIsKept'
  BY <1>0, <1>6
     DEF HandlerClears, Goto, places, maps, history, TypeOK, ThreadTypes, SavedIsKept,
         Copying, CkptCopying
<1>7. ASSUME NEW t \in Threads, HandlerNotes(t)
      PROVE  SavedIsKept'
  BY <1>0, <1>7
     DEF HandlerNotes, Goto, places, maps, history, TypeOK, ThreadTypes, SavedIsKept,
         Copying, CkptCopying
<1>8. ASSUME NEW t \in Threads, HandlerUnprotects(t)
      PROVE  SavedIsKept'
  BY <1>0, <1>8
     DEF HandlerUnprotects, Goto, places, infos, history, TypeOK, ThreadTypes,
         SavedIsKept, Copying, CkptCopying
<1>9. ASSUME NEW t \in Threads, NEW p \in Pages, Store(t, p)
      PROVE  SavedIsKept'
  BY <1>0, <1>9
     DEF Store, Goto, places, infos, maps, history, TypeOK, ThreadTypes, SavedIsKept,
         Copying, CkptCopying
<1>10. ASSUME NEW t \in Threads, NEW p \in Pages, Fault(t, p)
      PROVE  SavedIsKept'
  BY <1>0, <1>10
     DEF Fault, Goto, places, infos, maps, history, TypeOK, ThreadTypes, SavedIsKept,
         Copying, CkptCopying
<1>11. ASSUME NEW q \in Procs, CkptStart(q)
      PROVE  SavedIsKept'
  BY <1>0, <1>11
     DEF CkptStart, places, threads, TypeOK, ThreadTypes, SavedIsKept, Copying,
         CkptCopying
<1>12. ASSUME NEW q \in Procs, Close(q)
      PROVE  SavedIsKept'
  BY <1>0, <1>12
     DEF Close, places, infos, threads, history, TypeOK, ThreadTypes, SavedIsKept,
         Copying, CkptCopying
<1>13. ASSUME NEW q \in Procs, Open(q)
      PROVE  SavedIsKept'
  BY <1>0, <1>13
     DEF Open, places, infos, threads, history, TypeOK, ThreadTypes, SavedIsKept, Copying,
         CkptCopying
<1>14. ASSUME CkptPage
      PROVE  SavedIsKept'
  <2>1. CASE Entry \in change_info_inprog.bits
    <3>1. PICK c \in Places :
             AllocatesTo(Entry, c) /\ ckpt' = [ckpt EXCEPT !.pc = "copy", !.place = c]
      BY <1>0, <1>14, <2>1, CheckpointAllocates
    <3>2. /\ c \in free_pages /\ free_pages' = free_pages \ {c}
          /\ UNCHANGED <<saved, pc, got>> /\ ckpt'.place = c
      BY <1>0, <1>14, <3>1
         DEF CkptPage, AllocatesTo, history, threads, TypeOK, ThreadTypes
    <3> QED
      BY <1>0, <3>2 DEF SavedIsKept, Copying
  <2>2. CASE Entry \notin change_info_inprog.bits
    BY <1>0, <1>14, <2>2
       DEF CkptPage, places, history, threads, TypeOK, ThreadTypes, SavedIsKept, Copying,
           CkptCopying
  <2> QED
    BY <2>1, <2>2
<1>15. ASSUME CkptCopy
      PROVE  SavedIsKept'
  BY <1>0, <1>15
     DEF CkptCopy, places, infos, maps, threads, history, TypeOK, ThreadTypes,
         SavedIsKept, Copying, CkptCopying
<1>16. ASSUME CkptClear
      PROVE  SavedIsKept'
  BY <1>0, <1>16
     DEF CkptClear, places, maps, threads, history, TypeOK, ThreadTypes, SavedIsKept,
         Copying, CkptCopying
<1>17. ASSUME CkptComplete
      PROVE  SavedIsKept'
  <2>1. /\ saved' = page_locs /\ free_pages' = free_pages \cup pending_free_pages
        /\ ckpt'.pc = "idle" /\ UNCHANGED <<pc, got>>
    BY <1>17 DEF CkptComplete, CompleteCheckpoint, threads
  <2>2. \A u \in Threads : ~Copying(u)
    BY <1>0, <1>17, NothingLeft DEF CkptComplete
  <2>3. \A p \in Placed : page_locs[p] \notin free_pages \cup pending_free_pages
    BY <1>0 DEF InOrder, PlacesInOneUse
  <2> QED
    BY <2>1, <2>2, <2>3 DEF SavedIsKept, Copying, CkptCopying, Placed
<1> QED
  BY <1>1, <1>2, <1>3, <1>4, <1>5, <1>6, <1>7, <1>8, <1>9, <1>10, <1>11, <1>12, <1>13,
     <1>14, <1>15, <1>16, <1>17
     DEF Next, Handler, Checkpoint

\* A page is copied before the store that it was protected against, and the copies of other
\* pages are elsewhere.
LEMMA NextContentsAreKept ==
    ASSUME Kept, Next
    PROVE  ContentsAreKept'
<1>0. TypeOK /\ InOrder /\ HandlersAreInside /\ ContentsAreKept
  BY DEF Kept, InOrder
<1>c. change_info.bits \subseteq Pages /\ change_info_inprog.bits \subseteq Pages
  BY <1>0 DEF TypeOK, InfoTypes, Infos
<1>1. ASSUME NEW t \in Threads, BeginTxn(t)
      PROVE  ContentsAreKept'
  BY <1>0, <1>1
     DEF BeginTxn, Goto, places, infos, maps, history, TypeOK, ThreadTypes,
         ContentsAreKept, Image, Entry
<1>2. ASSUME NEW t \in Threads, EndTxn(t)
      PROVE  ContentsAreKept'
  BY <1>0, <1>2
     DEF EndTxn, Goto, places, infos, maps, history, TypeOK, ThreadTypes, ContentsAreKept,
         Image, Entry
<1>3. ASSUME NEW t \in Threads, HandlerLooks(t)
      PROVE  ContentsAreKept'
  BY <1>0, <1>3
     DEF HandlerLooks, Goto, places, infos, maps, history, TypeOK, ThreadTypes,
         ContentsAreKept, Image, Entry
<1>4. ASSUME NEW t \in Threads, HandlerLocks(t)
      PROVE  ContentsAreKept'
  <2>0. UNCHANGED <<region, file, infos, at, ckpt, snapshot, untracked>> /\ pc[t] = "lock"
    BY <1>4 DEF HandlerLocks, history
  <2>1. CASE Needed(t)
    <3>1. PICK c \in Places :
             /\ AllocatesTo(at[t], c)
             /\ got' = [got EXCEPT ![t] = c] /\ Goto(t, "copy")
      BY <1>0, <1>4, <2>1, HandlerAllocates
    <3>2. /\ \A q \in Pages \ {at[t]} : page_locs'[q] = page_locs[q]
          /\ \A u \in Threads \ {t} : pc'[u] = pc[u] /\ got'[u] = got[u]
          /\ pc'[t] = "copy"
      BY <1>0, <3>1 DEF AllocatesTo, Goto, TypeOK, ThreadTypes, PlaceTypes
    <3>3. \A q \in Pages \ {at[t]} : Image(q)' = Image(q)
      BY <2>0, <3>2 DEF Image
    <3>4. at[t] \in change_info_inprog.bits
      BY <2>1 DEF Needed
    <3> QED
      BY <1>0, <2>0, <3>2, <3>3, <3>4 DEF infos, ContentsAreKept, Entry
  <2>2. CASE ~Needed(t)
    <3>1. UNCHANGED <<places, got>> /\ Goto(t, "note")
      BY <1>4, <2>2 DEF HandlerLocks
    <3> QED
      BY <1>0, <2>0, <3>1
         DEF Goto, places, infos, TypeOK, ThreadTypes, ContentsAreKept, Image, Entry
  <2> QED
    BY <2>1, <2>2
<1>5. ASSUME NEW t \in Threads, HandlerCopies(t)
      PROVE  ContentsAreKept'
  <2>1. /\ pc[t] = "copy" /\ Goto(t, "clear") /\ file' = [file EXCEPT ![got[t]] = region[at[t]]]
        /\ UNCHANGED <<region, places, infos, at, got, ckpt, snapshot, untracked>>
    BY <1>5 DEF HandlerCopies, history
  <2>2. Copying(t)
    BY <2>1 DEF Copying
  <2>3. /\ file'[got[t]] = region[at[t]]
        /\ \A c \in Places \ {got[t]} : file'[c] = file[c]
        /\ pc'[t] = "clear" /\ \A u \in Threads \ {t} : pc'[u] = pc[u]
    BY <1>0, <2>1, <2>2, OwnPlaces DEF Goto, TypeOK, ContentTypes, ThreadTypes
  <2>4. ASSUME NEW q \in Pages \ untracked, q \notin change_info_inprog.bits
        PROVE  Image(q)' = Image(q)
    <3>1. q # at[t]
      BY <1>0, <2>2, <2>4, OwnPlaces
    <3>2. page_locs[q] \in Somewhere /\ page_locs[q] # got[t]
      BY <1>0, <2>2, <3>1, OwnPlaces DEF TypeOK, PlaceTypes
    <3> QED
      BY <2>1, <2>3, <3>2 DEF Image, places, Somewhere
  <2>5. \A u \in Threads \ {t} : pc[u] = "clear" => got[u] \in Places \ {got[t]}
    BY <1>0, <2>2, OwnPlaces DEF Copying
  <2>6. ckpt.pc = "clear" => ckpt.place \in Places \ {got[t]}
    BY <1>0, <2>2, OwnPlaces DEF CkptCopying
  <2>7. at[t] \notin untracked => region[at[t]] = snapshot[at[t]]
    BY <1>0, <2>2, OwnPlaces DEF HandlersAreInside, ContentsAreKept
  <2>8. \A q \in Pages \ untracked :
           /\ q \notin change_info.bits => region[q] = snapshot[q]
           /\ q \notin change_info_inprog.bits => Image(q)' = snapshot[q]
    BY <1>0, <2>4 DEF ContentsAreKept
  <2>9. \A u \in Threads :
           pc'[u] = "clear" /\ at[u] \notin untracked => file'[got[u]] = snapshot[at[u]]
    BY <1>0, <2>3, <2>5, <2>7 DEF ContentsAreKept
  <2>10. ckpt.pc = "clear" /\ Entry \notin untracked => file'[ckpt.place] = snapshot[Entry]
    BY <1>0, <2>3, <2>6 DEF ContentsAreKept
  <2> QED
    BY <2>1, <2>8, <2>9, <2>10 DEF infos, ContentsAreKept, Entry
<1>6. ASSUME NEW t \in Threads, HandlerClears(t)
      PROVE  ContentsAreKept'
  <2>1. /\ pc[t] = "clear" /\ Goto(t, "note")
        /\ UNCHANGED <<region, file, places, change_info, at, got, ckpt, snapshot, untracked>>
        /\ change_info_inprog'.bits = change_info_inprog.bits \ {at[t]}
        /\ change_info_inprog'.pages = change_info_inprog.pages
    BY <1>0, <1>6 DEF HandlerClears, history, TypeOK, InfoTypes, Infos
  <2>2. Copying(t) /\ page_locs[at[t]] = got[t] /\ got[t] # Nowhere
    BY <1>0, <2>1, OwnPlaces, NowhereAssumption, PagesAssumption DEF Copying
  <2>3. at[t] \notin untracked => Image(at[t]) = snapshot[at[t]]
    BY <1>0, <2>1, <2>2 DEF ContentsAreKept, Image
  <2>4. \A u \in Threads : pc'[u] = "clear" => pc[u] = "clear"
    BY <1>0, <2>1 DEF Goto, TypeOK, ThreadTypes
  <2>5. \A q \in Pages : Image(q)' = Image(q)
    BY <2>1 DEF Image, places
  <2> QED
    BY <1>0, <2>1, <2>3, <2>4, <2>5 DEF ContentsAreKept, Entry
<1>7. ASSUME NEW t \in Threads, HandlerNotes(t)
      PROVE  ContentsAreKept'
  <2>1. /\ pc[t] = "note" /\ Goto(t, "unprotect") /\ change_info.bits \subseteq change_info'.bits
        /\ UNCHANGED <<region, file, places, change_info_inprog, at, got, ckpt, snapshot, untracked>>
    BY <1>0, <1>7 DEF HandlerNotes, Noted, history, TypeOK, InfoTypes, Infos
  <2>2. \A u \in Threads : pc'[u] = "clear" => pc[u] = "clear"
    BY <1>0, <2>1 DEF Goto, TypeOK, ThreadTypes
  <2> QED
    BY <1>0, <2>1, <2>2 DEF ContentsAreKept, places, Image, Entry
<1>8. ASSUME NEW t \in Threads, HandlerUnprotects(t)
      PROVE  ContentsAreKept'
  BY <1>0, <1>8
     DEF HandlerUnprotects, Goto, places, infos, history, TypeOK, ThreadTypes,
         ContentsAreKept, Image, Entry
<1>9. ASSUME NEW t \in Threads, NEW p \in Pages, Store(t, p)
      PROVE  ContentsAreKept'
  <2>1. /\ UNCHANGED <<file, places, infos, at, got, ckpt, snapshot>>
        /\ untracked \subseteq untracked' /\ Goto(t, "txn")
        /\ p \notin change_info.bits => p \in untracked'
        /\ \A q \in Pages \ {p} : region'[q] = region[q]
    BY <1>0, <1>9 DEF Store, history, TypeOK, ContentTypes
  <2> QED
    BY <1>0, <2>1
       DEF Goto, places, infos, TypeOK, ThreadTypes, ContentsAreKept, Image, Entry
<1>10. ASSUME NEW t \in Threads, NEW p \in Pages, Fault(t, p)
      PROVE  ContentsAreKept'
  BY <1>0, <1>10
     DEF Fault, Goto, places, infos, maps, history, TypeOK, ThreadTypes, ContentsAreKept,
         Image, Entry
<1>11. ASSUME NEW q \in Procs, CkptStart(q)
      PROVE  ContentsAreKept'
  <2>1. /\ change_info' = change_info_inprog /\ change_info_inprog' = change_info
        /\ change_info_inprog.bits = {} /\ snapshot' = region /\ ckpt'.pc = "next"
        /\ UNCHANGED <<region, file, places, pc, at, got, untracked>>
    BY <1>0, <1>11 DEF CkptStart, InOrder, PlacesAreUsed, NoChanges, threads
  <2>2. \A u \in Threads : pc[u] = "idle"
    BY <1>0, <1>11 DEF CkptStart, MayStart, HandlersAreInside
  <2>3. \A p \in Pages : Image(p)' = Image(p)
    BY <2>1 DEF Image, places
  <2>4. \A p \in Pages \ untracked : p \notin change_info.bits => Image(p) = region[p]
    BY <1>0, <2>1 DEF ContentsAreKept
  <2> QED
    BY <2>1, <2>2, <2>3, <2>4 DEF ContentsAreKept
<1>12. ASSUME NEW q \in Procs, Close(q)
      PROVE  ContentsAreKept'
  BY <1>0, <1>12
     DEF Close, places, infos, threads, history, TypeOK, ThreadTypes, ContentsAreKept,
         Image, Entry
<1>13. ASSUME NEW q \in Procs, Open(q)
      PROVE  ContentsAreKept'
  BY <1>0, <1>13
     DEF Open, places, infos, threads, history, TypeOK, ThreadTypes, ContentsAreKept,
         Image, Entry
<1>14. ASSUME CkptPage
      PROVE  ContentsAreKept'
  <2>0. UNCHANGED <<region, file, infos, threads, snapshot, untracked>> /\ ckpt.pc = "next"
    BY <1>14 DEF CkptPage, history
  <2>1. CASE Entry \in change_info_inprog.bits
    <3>1. PICK c \in Places :
             AllocatesTo(Entry, c) /\ ckpt' = [ckpt EXCEPT !.pc = "copy", !.place = c]
      BY <1>0, <1>14, <2>1, CheckpointAllocates
    <3>2. /\ \A q \in Pages \ {Entry} : page_locs'[q] = page_locs[q]
          /\ ckpt'.pc = "copy"
      BY <1>0, <3>1 DEF AllocatesTo, TypeOK, ThreadTypes, PlaceTypes
    <3>3. \A q \in Pages \ {Entry} : Image(q)' = Image(q)
      BY <2>0, <3>2 DEF Image
    <3> QED
      BY <1>0, <2>0, <2>1, <3>2, <3>3 DEF infos, threads, ContentsAreKept
  <2>2. CASE Entry \notin change_info_inprog.bits
    <3>1. ckpt'.pc = "next" /\ UNCHANGED places
      BY <1>0, <1>14, <2>2 DEF CkptPage, TypeOK, ThreadTypes
    <3> QED
      BY <1>0, <2>0, <3>1 DEF places, infos, threads, ContentsAreKept, Image
  <2> QED
    BY <2>1, <2>2
<1>15. ASSUME CkptCopy
      PROVE  ContentsAreKept'
  <2>1. /\ ckpt.pc = "copy" /\ file' = [file EXCEPT ![ckpt.place] = region[Entry]]
        /\ ckpt' = [ckpt EXCEPT !.pc = "clear"]
        /\ UNCHANGED <<region, places, infos, threads, snapshot, untracked>>
    BY <1>15 DEF CkptCopy, history
  <2>2. CkptCopying /\ ckpt'.place = ckpt.place /\ ckpt'.entry = ckpt.entry
    BY <1>0, <2>1 DEF CkptCopying, TypeOK, ThreadTypes
  <2>3. /\ file'[ckpt.place] = region[Entry]
        /\ \A c \in Places \ {ckpt.place} : file'[c] = file[c]
    BY <1>0, <2>1, <2>2, OwnPlaces DEF TypeOK, ContentTypes
  <2>4. ASSUME NEW q \in Pages \ untracked, q \notin change_info_inprog.bits
        PROVE  Image(q)' = Image(q)
    <3>1. q # Entry
      BY <1>0, <2>2, <2>4, OwnPlaces
    <3>2. page_locs[q] \in Somewhere /\ page_locs[q] # ckpt.place
      BY <1>0, <2>2, <3>1, OwnPlaces DEF TypeOK, PlaceTypes
    <3> QED
      BY <2>1, <2>3, <3>2 DEF Image, places, Somewhere
  <2>5. \A u \in Threads : pc[u] = "clear" => got[u] \in Places \ {ckpt.place}
    BY <1>0, <2>2, OwnPlaces DEF Copying
  <2>6. Entry \notin untracked => region[Entry] = snapshot[Entry]
    BY <1>0, <2>2, OwnPlaces DEF HandlersAreInside, ContentsAreKept
  <2>7. \A q \in Pages \ untracked :
           /\ q \notin change_info.bits => region[q] = snapshot[q]
           /\ q \notin change_info_inprog.bits => Image(q)' = snapshot[q]
    BY <1>0, <2>4 DEF ContentsAreKept
  <2>8. \A u \in Threads :
           pc[u] = "clear" /\ at[u] \notin untracked => file'[got[u]] = snapshot[at[u]]
    BY <1>0, <2>3, <2>5 DEF ContentsAreKept
  <2> QED
    BY <2>1, <2>2, <2>3, <2>6, <2>7, <2>8 DEF infos, threads, ContentsAreKept, Entry
<1>16. ASSUME CkptClear
      PROVE  ContentsAreKept'
  <2>1. /\ ckpt.pc = "clear" /\ ckpt'.pc = "next"
        /\ UNCHANGED <<region, file, places, change_info, threads, snapshot, untracked>>
        /\ change_info_inprog'.bits = change_info_inprog.bits \ {Entry}
    BY <1>0, <1>16 DEF CkptClear, history, TypeOK, InfoTypes, ThreadTypes, Infos
  <2>2. page_locs[Entry] = ckpt.place /\ ckpt.place # Nowhere
    BY <1>0, <2>1, OwnPlaces, NowhereAssumption, PagesAssumption DEF CkptCopying
  <2>3. Entry \notin untracked => Image(Entry) = snapshot[Entry]
    BY <1>0, <2>1, <2>2 DEF ContentsAreKept, Image
  <2>4. \A q \in Pages : Image(q)' = Image(q)
    BY <2>1 DEF Image, places
  <2> QED
    BY <1>0, <2>1, <2>3, <2>4 DEF threads, ContentsAreKept
<1>17. ASSUME CkptComplete
      PROVE  ContentsAreKept'
  <2>1. /\ ckpt'.pc = "idle" /\ change_info_inprog'.bits = change_info_inprog.bits
        /\ UNCHANGED <<region, file, page_locs, change_info, threads, snapshot, untracked>>
    BY <1>0, <1>17 DEF CkptComplete, CompleteCheckpoint, TypeOK, InfoTypes, Infos
  <2>2. \A q \in Pages : Image(q)' = Image(q)
    BY <2>1 DEF Image
  <2> QED
    BY <1>0, <2>1, <2>2 DEF threads, ContentsAreKept
<1> QED
  BY <1>1, <1>2, <1>3, <1>4, <1>5, <1>6, <1>7, <1>8, <1>9, <1>10, <1>11, <1>12, <1>13,
     <1>14, <1>15, <1>16, <1>17
     DEF Next, Handler, Checkpoint

\* At the start there are no contents to keep but zeros.
LEMMA InitKept == Init => Kept
<1> SUFFICES ASSUME Init
             PROVE  Kept
  OBVIOUS
<1>1. InOrder
  BY InitInOrder
<1>2. HandlersAreInside /\ SavedIsKept
  BY DEF Init, HandlersAreInside, SavedIsKept, NoChanges
<1>3. ContentsAreKept
  BY DEF Init, ContentsAreKept, Image
<1> QED
  BY <1>1, <1>2, <1>3 DEF Kept

\* Whatever happens, they remain kept.
LEMMA NextKept == Kept /\ [Next]_vars => Kept'
<1>1. ASSUME Kept, Next
      PROVE  Kept'
  BY <1>1, NextInOrder, NextHandlersAreInside, NextSavedIsKept, NextContentsAreKept
     DEF Kept
<1>2. ASSUME Kept, UNCHANGED vars
      PROVE  Kept'
  <2> USE <1>2 DEF vars, places, infos, maps, threads, history
  <2>1. InOrder'
    BY NextInOrder DEF Kept
  <2>2. HandlersAreInside' /\ SavedIsKept'
    BY DEF Kept, HandlersAreInside, SavedIsKept, Copying, CkptCopying
  <2>3. ContentsAreKept'
    BY DEF Kept, ContentsAreKept, Image, Entry
  <2> QED
    BY <2>1, <2>2, <2>3 DEF Kept
<1> QED
  BY <1>1, <1>2

\* What a loader gets is what is on disk of the last complete checkpoint.
LEMMA LoadedIsKept ==
    ASSUME UNCHANGED saved,
           \A p \in Pages : saved[p] # Nowhere => file'[saved[p]] = file[saved[p]]
    PROVE  Loaded' = Loaded
BY DEF Loaded

\* Steps that show nothing of the promise.
LEMMA NothingShows ==
    ASSUME UNCHANGED <<region, snapshot, saved, untracked>>,
           (ckpt'.pc = "idle") <=> (ckpt.pc = "idle"),
           \A p \in Pages : saved[p] # Nowhere => file'[saved[p]] = file[saved[p]]
    PROVE  UNCHANGED Promise!vars
<1>1. Loaded' = Loaded
  BY LoadedIsKept
<1>2. (ckpt.pc # "idle")' = (ckpt.pc # "idle")
  OBVIOUS
<1> QED
  BY <1>1, <1>2 DEF Promise!vars

\* A store changes a page, checkpoint() starts and is complete; nothing else shows.
LEMMA NextIsPromised ==
    ASSUME Kept, Next
    PROVE  Promise!Next \/ UNCHANGED Promise!vars
<1>0. TypeOK /\ InOrder /\ SavedIsKept /\ ContentsAreKept
  BY DEF Kept, InOrder
<1> DEFINE Shown == Promise!Next \/ UNCHANGED Promise!vars
<1>1. ASSUME NEW t \in Threads, BeginTxn(t)
      PROVE  Shown
  <2>1. /\ UNCHANGED <<region, snapshot, saved, untracked, file>>
        /\ ckpt'.pc = "idle" <=> ckpt.pc = "idle"
    BY <1>0, <1>1 DEF BeginTxn, Goto, places, infos, maps, history, TypeOK, ThreadTypes
  <2> QED
    BY <2>1, NothingShows
<1>2. ASSUME NEW t \in Threads, EndTxn(t)
      PROVE  Shown
  <2>1. /\ UNCHANGED <<region, snapshot, saved, untracked, file>>
        /\ ckpt'.pc = "idle" <=> ckpt.pc = "idle"
    BY <1>0, <1>2 DEF EndTxn, Goto, places, infos, maps, history, TypeOK, ThreadTypes
  <2> QED
    BY <2>1, NothingShows
<1>3. ASSUME NEW t \in Threads, HandlerLooks(t)
      PROVE  Shown
  <2>1. /\ UNCHANGED <<region, snapshot, saved, untracked, file>>
        /\ ckpt'.pc = "idle" <=> ckpt.pc = "idle"
    BY <1>0, <1>3
       DEF HandlerLooks, Goto, places, infos, maps, history, TypeOK, ThreadTypes
  <2> QED
    BY <2>1, NothingShows
<1>4. ASSUME NEW t \in Threads, HandlerLocks(t)
      PROVE  Shown
  <2>1. /\ UNCHANGED <<region, snapshot, saved, untracked, file>>
        /\ ckpt'.pc = "idle" <=> ckpt.pc = "idle"
    BY <1>0, <1>4
       DEF HandlerLocks, Goto, places, infos, maps, history, TypeOK, ThreadTypes
  <2> QED
    BY <2>1, NothingShows
<1>5. ASSUME NEW t \in Threads, HandlerCopies(t)
      PROVE  Shown
  <2>1. /\ Copying(t) /\ file' = [file EXCEPT ![got[t]] = region[at[t]]]
        /\ UNCHANGED <<region, snapshot, saved, untracked, ckpt>>
    BY <1>5 DEF HandlerCopies, Copying, history
  <2>2. \A p \in Pages : saved[p] # Nowhere => file'[saved[p]] = file[saved[p]]
    BY <1>0, <2>1 DEF SavedIsKept, TypeOK, ContentTypes, Somewhere
  <2> QED
    BY <2>1, <2>2, NothingShows
<1>6. ASSUME NEW t \in Threads, HandlerClears(t)
      PROVE  Shown
  <2>1. /\ UNCHANGED <<region, snapshot, saved, untracked, file>>
        /\ ckpt'.pc = "idle" <=> ckpt.pc = "idle"
    BY <1>0, <1>6 DEF HandlerClears, Goto, places, maps, history, TypeOK, ThreadTypes
  <2> QED
    BY <2>1, NothingShows
<1>7. ASSUME NEW t \in Threads, HandlerNotes(t)
      PROVE  Shown
  <2>1. /\ UNCHANGED <<region, snapshot, saved, untracked, file>>
        /\ ckpt'.pc = "idle" <=> ckpt.pc = "idle"
    BY <1>0, <1>7 DEF HandlerNotes, Goto, places, maps, history, TypeOK, ThreadTypes
  <2> QED
    BY <2>1, NothingShows
<1>8. ASSUME NEW t \in Threads, HandlerUnprotects(t)
      PROVE  Shown
  <2>1. /\ UNCHANGED <<region, snapshot, saved, untracked, file>>
        /\ ckpt'.pc = "idle" <=> ckpt.pc = "idle"
    BY <1>0, <1>8 DEF HandlerUnprotects, Goto, places, infos, history, TypeOK, ThreadTypes
  <2> QED
    BY <2>1, NothingShows
<1>9. ASSUME NEW t \in Threads, NEW p \in Pages, Store(t, p)
      PROVE  Shown
  <2>1. /\ UNCHANGED <<snapshot, saved, file, ckpt>>
        /\ region' = [region EXCEPT ![p] = region'[p]] /\ region'[p] \in Nat
        /\ untracked \subseteq untracked'
    BY <1>0, <1>9 DEF Store, history, TypeOK, ContentTypes
  <2>2. Loaded' = Loaded
    BY <2>1, LoadedIsKept
  <2>3. (Pages \ untracked)' \in SUBSET (Pages \ untracked)
    BY <2>1
  <2>4. Promise!Change
    BY <2>1, <2>2, <2>3 DEF Promise!Change
  <2> QED
    BY <2>4 DEF Promise!Next
<1>10. ASSUME NEW t \in Threads, NEW p \in Pages, Fault(t, p)
      PROVE  Shown
  <2>1. /\ UNCHANGED <<region, snapshot, saved, untracked, file>>
        /\ ckpt'.pc = "idle" <=> ckpt.pc = "idle"
    BY <1>0, <1>10 DEF Fault, Goto, places, infos, maps, history, TypeOK, ThreadTypes
  <2> QED
    BY <2>1, NothingShows
<1>11. ASSUME NEW q \in Procs, CkptStart(q)
      PROVE  Shown
  <2>1. /\ ckpt.pc = "idle" /\ ckpt'.pc # "idle" /\ snapshot' = region
        /\ UNCHANGED <<region, saved, file, untracked>>
    BY <1>11 DEF CkptStart
  <2>2. Loaded' = Loaded
    BY <2>1, LoadedIsKept
  <2>3. Promise!Start
    BY <2>1, <2>2 DEF Promise!Start
  <2> QED
    BY <2>3 DEF Promise!Next
<1>12. ASSUME NEW q \in Procs, Close(q)
      PROVE  Shown
  <2>1. /\ UNCHANGED <<region, snapshot, saved, untracked, file>>
        /\ ckpt'.pc = "idle" <=> ckpt.pc = "idle"
    BY <1>0, <1>12 DEF Close, places, infos, threads, history, TypeOK, ThreadTypes
  <2> QED
    BY <2>1, NothingShows
<1>13. ASSUME NEW q \in Procs, Open(q)
      PROVE  Shown
  <2>1. /\ UNCHANGED <<region, snapshot, saved, untracked, file>>
        /\ ckpt'.pc = "idle" <=> ckpt.pc = "idle"
    BY <1>0, <1>13 DEF Open, places, infos, threads, history, TypeOK, ThreadTypes
  <2> QED
    BY <2>1, NothingShows
<1>14. ASSUME CkptPage
      PROVE  Shown
  <2>1. /\ UNCHANGED <<region, snapshot, saved, untracked, file>>
        /\ ckpt'.pc = "idle" <=> ckpt.pc = "idle"
    BY <1>0, <1>14
       DEF CkptPage, places, infos, maps, threads, history, TypeOK, ThreadTypes
  <2> QED
    BY <2>1, NothingShows
<1>15. ASSUME CkptCopy
      PROVE  Shown
  <2>1. /\ CkptCopying /\ file' = [file EXCEPT ![ckpt.place] = region[Entry]]
        /\ ckpt.pc # "idle" /\ ckpt'.pc # "idle"
        /\ UNCHANGED <<region, snapshot, saved, untracked>>
    BY <1>0, <1>15 DEF CkptCopy, CkptCopying, history, TypeOK, ThreadTypes
  <2>2. \A p \in Pages : saved[p] # Nowhere => file'[saved[p]] = file[saved[p]]
    BY <1>0, <2>1 DEF SavedIsKept, TypeOK, ContentTypes, Somewhere
  <2> QED
    BY <2>1, <2>2, NothingShows
<1>16. ASSUME CkptClear
      PROVE  Shown
  <2>1. /\ UNCHANGED <<region, snapshot, saved, untracked, file>>
        /\ ckpt'.pc = "idle" <=> ckpt.pc = "idle"
    BY <1>0, <1>16 DEF CkptClear, places, maps, threads, history, TypeOK, ThreadTypes
  <2> QED
    BY <2>1, NothingShows
<1>17. ASSUME CkptComplete
      PROVE  Shown
  <2>1. /\ ckpt.pc # "idle" /\ ckpt'.pc = "idle" /\ saved' = page_locs
        /\ UNCHANGED <<region, snapshot, file, untracked>>
    BY <1>17 DEF CkptComplete
  <2>2. change_info_inprog.bits = {}
    BY <1>0, <1>17, NothingLeft DEF CkptComplete
  <2>3. \A p \in Pages : Loaded'[p] = Image(p)
    BY <2>1 DEF Loaded, Image
  <2>4. \A p \in Pages \ untracked : Loaded'[p] = snapshot[p]
    BY <1>0, <2>2, <2>3 DEF ContentsAreKept
  <2>5. Promise!Finish
    BY <2>1, <2>4 DEF Promise!Finish
  <2> QED
    BY <2>5 DEF Promise!Next
<1> QED
  BY <1>1, <1>2, <1>3, <1>4, <1>5, <1>6, <1>7, <1>8, <1>9, <1>10, <1>11, <1>12, <1>13,
     <1>14, <1>15, <1>16, <1>17
     DEF Next, Handler, Checkpoint

\* At the start nothing is on disk and the region is as at the start of its file.
LEMMA InitIsPromised == Init => Promise!Init
<1> SUFFICES ASSUME Init
             PROVE  Promise!Init
  OBVIOUS
<1>1. Loaded = region
  BY DEF Init, Loaded
<1> QED
  BY <1>1 DEF Init, Promise!Init

\* checkpoint_manager_impl::checkpoint() with the handler of page faults keeps the promise of a
\* snapshot for every page of which no store went unnoticed: what a loader gets of it is the
\* region at the moment at which the last complete checkpoint began.
THEOREM CheckpointsAreSnapshots == Spec => Promise!Spec
<1>1. Kept /\ [Next]_vars => [Promise!Next]_(Promise!vars)
  <2>1. ASSUME Kept, Next
        PROVE  [Promise!Next]_(Promise!vars)
    BY <2>1, NextIsPromised
  <2>2. ASSUME UNCHANGED vars
        PROVE  UNCHANGED Promise!vars
    <3>1. /\ UNCHANGED <<region, snapshot, saved, untracked, file>>
          /\ ckpt'.pc = "idle" <=> ckpt.pc = "idle"
      BY <2>2 DEF vars, history
    <3> QED
      BY <3>1, NothingShows
  <2> QED
    BY <2>1, <2>2
<1> QED
  BY <1>1, InitKept, NextKept, InitIsPromised, PTL DEF Spec, Promise!Spec

=============================================================================

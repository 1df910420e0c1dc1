---------------------------- MODULE SharedString ----------------------------
(***************************************************************************)
(* stldb::basic_string (containers/gnu): strings that share the memory of  *)
(* their text until one of them is changed.  The strings and the memory    *)
(* are in the region, where threads of several processes use them, or in   *)
(* the heap of a process.                                                  *)
(*                                                                         *)
(* The text of a string and its count of references are in a rep.  A call  *)
(* that changes a string whose rep is shared goes through steps that other *)
(* threads can see: it looks at the count, makes a rep of its own, gives   *)
(* up its reference to the old one and writes.  When the rep is not shared *)
(* nobody else can reach it, and the call is one step.                     *)
(*                                                                         *)
(* The callers lock the strings (a container's mutex, say) so that a       *)
(* string that one thread changes is used by no other; a rep has no lock.  *)
(* Reading a rep that has been freed gives anything: the call ends there.  *)
(* The static empty rep of a process means nothing to the others: a string *)
(* that points to that of another process is not touched.                  *)
(*                                                                         *)
(* Beside a few operators X stands X_Name, the same with a plausible slip  *)
(* of the code.  Nothing uses those: put in the place of X each one breaks *)
(* the property that is there to catch it, as PROJECT.json records.        *)
(***************************************************************************)
EXTENDS Integers, Sequences, FiniteSets

CONSTANTS
    Threads, Processes,
    ProcessOf,   \* of each thread
    Scoped,      \* the threads in the scope of a scoped_allocation for the region
    Names, Place, \* the strings, and the memory their allocator takes from: Region or a process
    Region,
    Reps,
    Literals, Chars, MaxSize, Spans, None, NPos,
    Given,       \* the strings that are there at first
    MaxCalls,    \* bounds the calls made
    Offset,      \* of the strings and the texts of reps in the region
    Base,        \* the address at which a process maps the region
    Word, Stack  \* the number of addresses, and those of some temporary pointers

ASSUME PlacesAssumption ==
    /\ Region \notin Processes /\ None \notin Names \cup Reps \cup Processes
    /\ ProcessOf \in [Threads -> Processes]
    /\ Place \in [Names -> Processes \cup {Region}]
ASSUME SizesAssumption ==
    /\ MaxSize \in Nat /\ MaxCalls \in Nat /\ Spans \subseteq Nat
    /\ \A x \in Literals : Len(x) <= MaxSize
    /\ Given \subseteq [Names -> Literals \cup {None}]
    /\ Offset \in [Names \cup Reps -> Nat] /\ Base \in [Processes -> 1 .. Word - 1]
    \* A rep for each string, and two that each thread is making.
    /\ Cardinality(Reps) >= Cardinality(Names) + 2 * Cardinality(Threads)

VARIABLES
    reps,    \* the memory: the reps in use and the static empty rep of each process
    str,     \* _M_p of each string: its rep, None where there is no string
    ref,     \* the rep that the references last handed out by begin(), operator[] ... are into
    req,     \* the call each thread is in, a call of StringCalls
    pc, new, from,   \* of a call under way: its step, the reps it made, the rep it reads text from
    calls,
    value    \* what the calls that have ended promise for each string

vars == <<reps, str, ref, req, pc, new, from, calls, value>>

Places == Processes \cup {Region}
Free == [text |-> <<>>, cap |-> 0, count |-> 0, place |-> None]
Live(x) == reps[x].place # None
InUse == {x \in Reps : Live(x)}

Rep(n) == reps[str[n]]
Text(n) == IF str[n] = None THEN None ELSE Rep(n).text
Size(n) == Len(Rep(n).text)
IsLeaked(n) == Rep(n).count < 0
IsShared(n) == Rep(n).count > 0

S == INSTANCE StringCalls
Search == INSTANCE StringSearch
Pointer == INSTANCE RelativePointer WITH ElementSize <- 1
InCall == {t \in Threads : req[t] # None}
Texts == [n \in Names |-> Text(n)]

-----------------------------------------------------------------------------
\* Memory

\* The first reps that are not in use, nor pointed to by anybody.
Pointed == {ref[n] : n \in Names} \cup {from[t] : t \in Threads}
Unused == InUse \cup Pointed
Fresh == CHOOSE x \in Reps \ Unused : \A y \in Reps \ Unused : x <= y
Fresh2 == CHOOSE x \in Reps \ (Unused \cup {Fresh}) :
              \A y \in Reps \ (Unused \cup {Fresh}) : x <= y

\* _S_create: the capacity for cap characters in place of old ones.
Grown(cap, old) ==
    IF cap > old /\ cap < 2 * old
      THEN IF 2 * old > MaxSize THEN MaxSize ELSE 2 * old
      ELSE cap
Created(text, cap, place) == [text |-> text, cap |-> cap, count |-> 0, place |-> place]

\* _M_dispose of the rep x in the memory m.
Disposed_Slip(m, x) ==
    IF x \in Processes THEN m
    ELSE IF m[x].count < 0 THEN [m EXCEPT ![x] = Free]
    ELSE [m EXCEPT ![x].count = @ - 1]
Disposed(m, x) ==
    IF x \in Processes THEN m
    ELSE IF m[x].count <= 0 THEN [m EXCEPT ![x] = Free]
    ELSE [m EXCEPT ![x].count = @ - 1]

\* Whether _M_grab shares the rep of m for a string of the allocator of n, or makes a copy of it.
Shares(n, m) == ~IsLeaked(m) /\ Place[n] = Place[m]
Grabbed(n, m) == IF Shares(n, m) THEN str[m] ELSE Fresh
AfterGrab(n, m) ==
    IF ~Shares(n, m) THEN [reps EXCEPT ![Fresh] =
                             Created(Text(m), Grown(Size(m), Rep(m).cap), Place[n])]
    ELSE IF str[m] \in Processes THEN reps
    ELSE [reps EXCEPT ![str[m]].count = @ + 1]

\* The allocator that is default constructed: the region in scope, else the heap.
DefaultPlace(t) == IF t \in Scoped THEN Region ELSE ProcessOf[t]
\* _S_construct gives an empty text no rep if the allocator equals a default one.
NeedsRep(t, n, text) == text # <<>> \/ Place[n] # DefaultPlace(t)

-----------------------------------------------------------------------------
\* What calls write.  None marks characters that are not written yet.

\* _M_mutate: n2 characters in the place of the n1 at pos.
Opened(text, pos, n1, n2) == S!Replaced(text, pos, n1, [i \in 1 .. n2 |-> None])
Copied(text, pos, x) == S!Replaced(text, pos, Len(x), x)

\* insert(pos, s, n) when the n characters s are those at off in the string itself.
InsertedInPlace(text, pos, off, n) ==
    LET o == Opened(text, pos, 0, n)
        left == pos - off
    IN  Copied(o, pos,
               IF off + n <= pos THEN S!Piece(o, off, n)
               ELSE IF off >= pos THEN S!Piece(o, off + n, n)
               ELSE S!Piece(o, off, left) \o S!Piece(o, pos + n, n - left))

\* replace(pos, n1, s, n) in the same case; text that overlaps what it replaces is copied first.
ReplacedInPlace(text, pos, n1, off, n) ==
    LET o == Opened(text, pos, n1, n)
    IN  Copied(o, pos,
               IF off + n <= pos THEN S!Piece(o, off, n)
               ELSE IF pos + n1 <= off THEN S!Piece(o, off + n - n1, n)
               ELSE S!Piece(text, off, n))

\* Where a call writes, how many characters it replaces and by how many.
Pos(r) == IF r.k = "append" THEN Size(r.n) ELSE IF r.k \in {"insert", "replace"} THEN r.pos ELSE 0
Removed(r) ==
    IF r.k \in {"insert", "replace"} THEN S!Limit(Text(r.n), r.pos, r.n1)
    ELSE IF r.k = "set" THEN Size(r.n) ELSE 0
Added(r) ==
    IF ~S!Has(r, "src") THEN 0
    ELSE IF r.src.m = None THEN Len(r.src.text) ELSE r.src.len
NewSize(r) == Size(r.n) - Removed(r) + Added(r)
Writes(r) == r.k \in {"append", "set", "insert", "replace"}
Room(r) == IF r.k = "reserve" /\ r.size > NewSize(r) THEN r.size ELSE NewSize(r)

\* The rep that the call of t reads text from: append() looks the string up again.
SourceRep(t) == IF req[t].k = "append" THEN str[req[t].src.m] ELSE from[t]
Source(t) ==
    LET src == req[t].src
    IN  IF src.m = None THEN src.text ELSE S!Piece(reps[SourceRep(t)].text, src.off, src.len)
\* The text is still what the call was given.
SourceStays(t) ==
    Added(req[t]) > 0 /\ req[t].src.m # None =>
        /\ Live(SourceRep(t))
        /\ req[t].src.off + req[t].src.len <= Len(reps[SourceRep(t)].text)
        /\ Source(t) = S!TextOf(value, req[t].src)

-----------------------------------------------------------------------------
\* Calls

\* The lock rule of the callers, and what a process can reach.
Touched(r) == S!Written(r) \cup S!Read(r)
Excludes(r, q) == S!Written(r) \cap Touched(q) # {}
Reachable(t, n) ==
    /\ Place[n] \in {Region, ProcessOf[t]}
    /\ str[n] \in Processes => str[n] = ProcessOf[t]

Admits(t, r) ==
    /\ \A u \in InCall : ~Excludes(r, req[u]) /\ ~Excludes(req[u], r)
    /\ \A n \in Touched(r) : Reachable(t, n)

\* A call that changes a string makes the references into it invalid.
Unhanded(r) == [n \in Names |-> IF n \in S!Written(r) THEN None ELSE ref[n]]

\* The end of a call.
Ends(t, r) ==
    /\ req' = [req EXCEPT ![t] = None]
    /\ pc' = [pc EXCEPT ![t] = "idle"]
    /\ from' = [from EXCEPT ![t] = None]
    /\ value' = S!After(value, r)

\* A call that is one step.
Done(t, r) ==
    /\ calls' = calls + 1
    /\ Ends(t, r)
    /\ UNCHANGED new

\* The first step of a call that gets the reps made.
Begins(t, r, made) ==
    /\ req' = [req EXCEPT ![t] = r]
    /\ pc' = [pc EXCEPT ![t] = "drop"]
    /\ new' = [new EXCEPT ![t] = made]
    /\ ref' = Unhanded(r)
    /\ calls' = calls + 1
    /\ UNCHANGED <<str, value>>

Refuses(r) ==
    /\ Writes(r)
    /\ \/ Pos(r) > Size(r.n)
       \/ NewSize(r) > MaxSize

Refuse(t, r) ==
    /\ Refuses(r)
    /\ UNCHANGED <<reps, str, ref>>
    /\ Done(t, r)

\* Constructors and the destructor.
Make(t, r) ==
    LET text == IF r.k = "make" THEN S!TextOf(Texts, r.src) ELSE <<>>
    IN  /\ r.k \in {"make", "default"}
        /\ r.k = "default" => Place[r.n] = DefaultPlace(t)
        /\ IF NeedsRep(t, r.n, text)
             THEN /\ reps' = [reps EXCEPT ![Fresh] = Created(text, Len(text), Place[r.n])]
                  /\ str' = [str EXCEPT ![r.n] = Fresh]
             ELSE /\ str' = [str EXCEPT ![r.n] = ProcessOf[t]]
                  /\ UNCHANGED reps
        /\ UNCHANGED ref
        /\ Done(t, r)

Copy(t, r) ==
    /\ r.k = "copy"
    /\ Place[r.n] = Place[r.m]
    /\ reps' = AfterGrab(r.n, r.m)
    /\ str' = [str EXCEPT ![r.n] = Grabbed(r.n, r.m)]
    /\ UNCHANGED ref
    /\ Done(t, r)

Destroy(t, r) ==
    /\ r.k = "drop"
    /\ reps' = Disposed(reps, str[r.n])
    /\ str' = [str EXCEPT ![r.n] = None]
    /\ ref' = Unhanded(r)
    /\ Done(t, r)

\* assign(const basic_string&) takes a reference before it gives up its own.
Assign(t, r) ==
    /\ r.k = "assign"
    /\ IF str[r.n] = str[r.m]
         THEN UNCHANGED <<reps, str, ref>> /\ Done(t, r)
         ELSE /\ reps' = AfterGrab(r.n, r.m)
              /\ Begins(t, r, <<Grabbed(r.n, r.m)>>)
              /\ UNCHANGED from

\* swap(): pointers if the allocators are equal, else copies with the other's allocator.
Swap(t, r) ==
    LET sharable == [x \in DOMAIN reps |->
                       IF x \in {str[r.n], str[r.m]} /\ reps[x].count < 0
                         THEN [reps[x] EXCEPT !.count = 0] ELSE reps[x]]
        mine == IF NeedsRep(t, r.n, Text(r.m)) THEN Fresh ELSE ProcessOf[t]
        its == IF NeedsRep(t, r.m, Text(r.n)) THEN Fresh2 ELSE ProcessOf[t]
    IN  /\ r.k = "swap"
        /\ IF Place[r.n] = Place[r.m]
             THEN /\ reps' = sharable
                  /\ str' = [str EXCEPT ![r.n] = str[r.m], ![r.m] = str[r.n]]
                  /\ ref' = Unhanded(r)
                  /\ Done(t, r)
             ELSE /\ reps' = [x \in DOMAIN reps |->
                                IF x \notin {mine, its} \ Processes THEN sharable[x]
                                ELSE IF x = mine
                                       THEN Created(Text(r.m), Size(r.m), Place[r.n])
                                       ELSE Created(Text(r.n), Size(r.n), Place[r.m])]
                  /\ Begins(t, r, <<mine, its>>)
                  /\ UNCHANGED from

\* Calls that have nothing to do: append() of nothing, reserve() of what there is, begin() of a
\* string that is leaked already or has no rep.
Idle(r) ==
    \/ r.k = "append" /\ Added(r) = 0
    \/ r.k = "reserve" /\ r.size = Rep(r.n).cap /\ ~IsShared(r.n)
    \/ r.k = "leak" /\ (IsLeaked(r.n) \/ str[r.n] \in Processes)

\* References to the text are handed out when the call ends: it may not be shared.
Leaks(r) == r.k = "leak" \/ (S!Has(r, "it") /\ r.it)
CountAfter(r) == IF Leaks(r) THEN -1 ELSE 0
Handed(r, x) == IF Leaks(r) THEN [Unhanded(r) EXCEPT ![r.n] = x] ELSE Unhanded(r)

Changes(r) ==
    /\ Writes(r) \/ r.k \in {"reserve", "leak"}
    /\ ~Refuses(r)

Skip(t, r) ==
    /\ Changes(r) /\ Idle(r)
    /\ ref' = Handed(r, str[r.n])
    /\ UNCHANGED <<reps, str>>
    /\ Done(t, r)

\* _M_disjunct: the text comes from outside of the string.
Disjunct(r) == r.src.m # r.n

\* The text after the call when the rep is not shared.
Rewritten(r) ==
    LET text == Text(r.n)
    IN  IF ~Writes(r) THEN text
        ELSE IF ~Disjunct(r) /\ r.k = "insert"
          THEN InsertedInPlace(text, r.pos, r.src.off, r.src.len)
        ELSE IF ~Disjunct(r) /\ r.k = "replace"
          THEN ReplacedInPlace(text, r.pos, Removed(r), r.src.off, r.src.len)
        ELSE Copied(Opened(text, Pos(r), Removed(r), Added(r)), Pos(r), S!TextOf(Texts, r.src))

\* The rep is not shared: everything happens in it, or in a larger one that takes its place.
Alone(t, r) ==
    LET moves == Room(r) > Rep(r.n).cap \/ r.k = "reserve"
        x == IF moves THEN Fresh ELSE str[r.n]
    IN  /\ Changes(r) /\ ~Idle(r)
        /\ ~IsShared(r.n)
        /\ reps' = IF moves
                     THEN [Disposed(reps, str[r.n]) EXCEPT ![x] =
                             [Created(Rewritten(r), Grown(Room(r), Rep(r.n).cap), Place[r.n])
                                EXCEPT !.count = CountAfter(r)]]
                     ELSE [reps EXCEPT ![x].text = Rewritten(r), ![x].count = CountAfter(r)]
        /\ str' = [str EXCEPT ![r.n] = x]
        /\ ref' = Handed(r, x)
        /\ Done(t, r)

\* The rep is shared: a rep of its own ...
Build(t, r) ==
    LET text == IF r.k = "append" THEN Text(r.n)
                ELSE Opened(Text(r.n), Pos(r), Removed(r), Added(r))
    IN  /\ Changes(r) /\ ~Idle(r)
        /\ IsShared(r.n)
        /\ reps' = [reps EXCEPT ![Fresh] =
                      Created(text, Grown(Room(r), Rep(r.n).cap), Place[r.n])]
        /\ from' = IF S!Has(r, "src") /\ r.src.m # None
                     THEN [from EXCEPT ![t] = str[r.src.m]] ELSE from
        /\ Begins(t, r, <<Fresh>>)

\* ... in the place of the old one, which the others may have given up meanwhile ...
Drop(t) ==
    LET r == req[t]
        swaps == r.k = "swap"
    IN  /\ pc[t] = "drop"
        /\ reps' = IF swaps THEN Disposed(Disposed(reps, str[r.n]), str[r.m])
                   ELSE Disposed(reps, str[r.n])
        /\ str' = [n \in Names |-> IF n = r.n THEN new[t][1]
                                   ELSE IF swaps /\ n = r.m THEN new[t][2] ELSE str[n]]
        /\ new' = [new EXCEPT ![t] = <<>>]
        /\ UNCHANGED <<ref, calls>>
        /\ IF swaps \/ r.k = "assign"
             THEN Ends(t, r)
             ELSE pc' = [pc EXCEPT ![t] = "fill"] /\ UNCHANGED <<req, from, value>>

\* ... that gets the new text.
Fill(t) ==
    LET r == req[t]
        x == str[r.n]
    IN  /\ pc[t] = "fill"
        /\ Writes(r) => SourceStays(t)
        /\ reps' = [reps EXCEPT
                      ![x].text = IF ~Writes(r) THEN @
                                  ELSE IF r.k = "append" THEN @ \o Source(t)
                                  ELSE Copied(@, Pos(r), Source(t)),
                      ![x].count = CountAfter(r)]
        /\ ref' = Handed(r, x)
        /\ Ends(t, r)
        /\ UNCHANGED <<str, new, calls>>

\* A write through a reference that was handed out earlier.
Put(t, r) ==
    /\ r.k = "put"
    /\ ref[r.n] # None
    /\ reps' = [reps EXCEPT ![ref[r.n]].text[r.pos + 1] = r.c]
    /\ UNCHANGED <<str, ref>>
    /\ Done(t, r)

-----------------------------------------------------------------------------
\* Strings that were there before are in reps of their own.
FirstRep == CHOOSE f \in [Names -> Reps] : \A n, m \in Names : f[n] = f[m] => n = m

Init ==
    /\ value \in Given
    /\ str = [n \in Names |-> IF value[n] = None THEN None ELSE FirstRep[n]]
    /\ reps = [x \in Reps \cup Processes |->
                 IF x \in Processes THEN Created(<<>>, 0, x)
                 ELSE IF \E n \in Names : str[n] = x
                   THEN LET n == CHOOSE n \in Names : str[n] = x
                        IN Created(value[n], Len(value[n]), Place[n])
                   ELSE Free]
    /\ ref = [n \in Names |-> None]
    /\ req = [t \in Threads |-> None]
    /\ pc = [t \in Threads |-> "idle"]
    /\ new = [t \in Threads |-> <<>>]
    /\ from = [t \in Threads |-> None]
    /\ calls = 0

Call(t, r) ==
    /\ Admits(t, r)
    /\ \/ Refuse(t, r) \/ Make(t, r) \/ Copy(t, r) \/ Destroy(t, r) \/ Assign(t, r)
       \/ Swap(t, r) \/ Skip(t, r) \/ Alone(t, r) \/ Build(t, r) \/ Put(t, r)

Next ==
    \E t \in Threads :
        \/ /\ req[t] = None /\ calls < MaxCalls
           /\ \E r \in S!Calls(value) : Call(t, r)
        \/ Drop(t)
        \/ Fill(t)

Spec == Init /\ [][Next]_vars

-----------------------------------------------------------------------------
\* Every variable has its type.
TypeOK ==
    /\ \A x \in DOMAIN reps :
         /\ \A i \in DOMAIN reps[x].text : reps[x].text[i] \in Chars \cup {None}
         /\ Len(reps[x].text) <= reps[x].cap /\ reps[x].cap <= MaxSize
         /\ reps[x].count \in -1 .. Cardinality(Names) + Cardinality(Threads)
         /\ reps[x].place \in Places \cup {None}
    /\ DOMAIN reps = Reps \cup Processes
    /\ str \in [Names -> Reps \cup Processes \cup {None}]
    /\ ref \in [Names -> Reps \cup Processes \cup {None}]
    /\ \A t \in Threads : req[t] \in S!Calls(value) \cup {None}
    /\ pc \in [Threads -> {"idle", "drop", "fill"}]
    /\ \A t \in Threads : new[t] \in Seq(Reps \cup Processes)
    /\ from \in [Threads -> Reps \cup Processes \cup {None}]
    /\ calls \in 0 .. MaxCalls
    /\ DOMAIN value = Names

\* The count of a rep says how many point to it: -1 and 0 one, n > 0 n + 1, and a rep to which
\* nobody points is freed, at once and once.  This is the comment at basic_string.h:165, kept
\* with no lock while threads copy, change and drop strings of the same text.
Owners(x) == {n \in Names : str[n] = x} \cup {<<t, i>> \in Threads \X {1, 2} :
                                                i \in DOMAIN new[t] /\ new[t][i] = x}
CountsAreOwners ==
    \A x \in Reps :
        /\ Live(x) <=> Owners(x) # {}
        /\ Live(x) => Cardinality(Owners(x)) = (IF reps[x].count < 0 THEN 1 ELSE reps[x].count + 1)

\* A string is a value of its own (StringCalls): whatever the other threads and the other strings
\* with the same rep do, a string that no call is changing has the text that the calls on it promise.
StringsAreValues ==
    \A n \in Names : (\A t \in InCall : n \notin S!Written(req[t])) => Text(n) = value[n]

\* The memory of a string comes from the allocator of the string, whichever way it got its text:
\* what it gives back goes to where it came from.
StaysInItsPlace == \A n \in Names : str[n] \in Reps => Rep(n).place = Place[n]

\* The text that a call was given is there until it has been copied, but for a call that was given
\* a piece of the string it changes: _M_replace_safe gives up the rep before it reads from it, and
\* the other strings that share it may give it up, or change it, at the same moment.
OnlyOwnTextIsLost ==
    \A t \in Threads : pc[t] = "fill" /\ Writes(req[t]) /\ ~SourceStays(t) =>
                         req[t].src.m = req[t].n /\ req[t].k # "append"

\* What the searches find in one string of another, and how two strings compare, is what the comments
\* at their declarations say, at every position up to and past the end and at npos.
SearchesFindAsSaid ==
    \A n, m \in Names :
        n # m /\ Place[n] = Place[m] /\ str[n] # None /\ str[m] # None /\ InCall = {} =>
            /\ \A pos \in (0 .. Size(n) + 1) \cup {NPos} :
                 Search!FindsAsSaid(Text(n), Text(m), pos)
            /\ Search!ComparesAsSaid(Text(n), Text(m))

\* The pointer of a string of the region to its text leads every process to that text, wherever it
\* maps the region, as does the copy in a string that comes to share the text, whichever process
\* made it; and comparing, moving and casting it gives what plain pointers give.  (Not where the
\* sign bit lies between two addresses: < and <= disagree there.)
PointersAreKept ==
    LET Strings == {n \in Names : Place[n] = Region} IN
    InCall = {} =>
        \A n \in {x \in Strings : str[x] \in Reps}, p \in Processes : \A m \in Strings \ {n} :
            LET Address(x) == Base[p] + Offset[x]
                text == Address(str[n])
                other == IF str[m] \in Reps THEN Address(str[m]) ELSE Pointer!Null
            IN  /\ \A q \in Processes :
                      Pointer!MeansTheSame(Address(n), Address(m), text, Base[q] - Base[p])
                /\ \A temp \in Stack :
                      /\ Pointer!OrdersAlike(Address(n), temp, text, other)
                      /\ \A i \in {-1, 1} : Pointer!FollowsPlain(Address(n), temp, text, other, i)

\* Sharing does not show: strings are values, each with its memory in its place, and the memory
\* they share is kept for as long as anybody has it.  (The empty rep that the empty strings of a
\* process share is left out: erase() by iterators marks it as leaked, although the comment at
\* basic_string.h:213 says that it "is never modified".)
SharingDoesNotShow ==
    TypeOK /\ CountsAreOwners /\ StringsAreValues /\ StaysInItsPlace /\ OnlyOwnTextIsLost

=============================================================================

------------------------------ MODULE LockFree ------------------------------
(***************************************************************************)
(* The lock-free containers under sync/lockfree: the queue of fifo.hpp     *)
(* with its dummy node and its tail that may lag behind, the stack of      *)
(* stack.hpp, and the free list that both take their nodes from, caching   *)
(* or static, all swung by compare-and-swap on pointers with tags.         *)
(*                                                                         *)
(* Every access to memory that other threads can reach is a step of its    *)
(* own.  Tagged pointers are read and swapped as one word, as in the       *)
(* builds for x86_64 that pack the tag into the upper 16 bits of the       *)
(* pointer; a tag that wraps around within one call is out of the model's  *)
(* bounds.  A free node keeps its link in the memory of next, and with it  *)
(* the tag.  Memory is not given back, so that a stale pointer is always   *)
(* one to a node.                                                          *)
(*                                                                         *)
(* Beside a few operators X stands X_Name, the same with a plausible slip  *)
(* of the code.  Nothing uses those: put in the place of X each one breaks *)
(* the property that is there to catch it, as PROJECT.json records.        *)
(***************************************************************************)
EXTENDS Integers, Sequences, FiniteSets, SequencesExt

CONSTANTS
    Threads,
    Nodes,        \* memory for nodes: enough for every put and the dummy
    TagModulus,   \* 2^16 in the code
    Values, Nothing,
    Workloads,    \* what the threads do, with which container: one is chosen
    NULL, NoThread

\* A workload: whether the container is the stack, whether its free list is static, and each
\* thread's calls, a value to put or Nothing to get one.
ASSUME WorkloadsAssumption ==
    Workloads \subseteq [lifo : BOOLEAN, static : BOOLEAN,
                         calls : [Threads -> Seq(Values \cup {Nothing})]]
ASSUME NobodyAssumption == NULL \notin Nodes /\ Nothing \notin Values /\ NoThread \notin Threads

VARIABLES
    lifo,
    static,
    script,      \* the calls that each thread has yet to make
    stalled,     \* the thread that may stop for good in the middle of a call
    \* memory
    next, data,  \* of each node
    fresh,       \* the nodes that were never allocated
    pool,        \* pool_ of the free list
    head, tail,  \* head_ and tail_ of the queue
    tos,         \* of the stack
    \* each thread
    pc,
    reg,         \* its local variables
    \* bookkeeping for the properties
    content,     \* the values, oldest first, as the calls have taken effect
    seen, got    \* as in QueuePromise

memory == <<next, data, fresh, pool, head, tail, tos>>
vars == <<lifo, static, script, stalled, memory, pc, reg, content, seen, got>>

-----------------------------------------------------------------------------
\* Tagged pointers

Tagged(p, tag) == [ptr |-> p, tag |-> tag % TagModulus]
Null == Tagged(NULL, 0)

\* What a successful cas leaves behind.
Swung_SameTag(old, p) == Tagged(p, old.tag)
Swung(old, p) == Tagged(p, old.tag + 1)

\* set_ptr(): the tag stays.
Repointed(old, p) == Tagged(p, old.tag)

-----------------------------------------------------------------------------
NoReg == [node |-> NULL, old |-> Null, last |-> Null, new |-> NULL, val |-> Nothing]

\* The nodes as their memory lies.  A static free list frees all of them in that order, so that
\* each leads to the one before it; a caching one has none at first.
Chunks == SetToSeq(Nodes)
Freed ==
    [n \in Nodes |-> LET i == CHOOSE i \in DOMAIN Chunks : Chunks[i] = n IN
                      IF i = 1 THEN Null ELSE Tagged(Chunks[i - 1], 0)]

\* The constructor of the queue takes the last node for its dummy.  The stack leaves it alone.
Init ==
    /\ \E w \in Workloads : lifo = w.lifo /\ static = w.static /\ script = w.calls
    /\ stalled \in Threads \cup {NoThread}
    /\ data = [n \in Nodes |-> Nothing]
    /\ LET dummy == Last(Chunks) IN
          /\ next = [IF static THEN Freed ELSE [n \in Nodes |-> Null] EXCEPT ![dummy] = Null]
          /\ fresh = IF static THEN {} ELSE Nodes \ {dummy}
          /\ pool = IF static THEN Tagged(Freed[dummy].ptr, Len(Chunks) + 1) ELSE Null
          /\ head = Tagged(dummy, 0)
          /\ tail = Tagged(dummy, 0)
    /\ tos = Null
    /\ pc = [t \in Threads |-> "idle"]
    /\ reg = [t \in Threads |-> NoReg]
    /\ content = <<>>
    /\ seen = {}
    /\ got = [t \in Threads |-> <<>>]

Goto(t, label) == pc' = [pc EXCEPT ![t] = label]
At(t, label) == pc[t] = label
R(t) == reg[t]

\* Calls that have not taken effect yet.
Waiting(point) ==
    {t \in Threads : point[t] \notin {"idle", "swing", "free", "relink", "refill"}}

\* After every step: the calls during which the container has been empty.
Witness ==
    seen' = {t \in Waiting(pc') : t \in seen \/ content' = <<>>}

-----------------------------------------------------------------------------
\* The free list

\* allocate() without a free node: new memory, or none.
Allocated == IF static THEN NULL ELSE CHOOSE n \in fresh : TRUE

ReadPool(t) ==
    /\ At(t, "alloc")
    /\ IF pool.ptr = NULL
         THEN LET n == Allocated IN
              /\ fresh' = fresh \ {n}
              /\ reg' = [reg EXCEPT ![t].node = n]
              /\ Goto(t, "construct")
         ELSE /\ reg' = [reg EXCEPT ![t].old = pool]
              /\ Goto(t, "unlink")
              /\ UNCHANGED fresh
    /\ UNCHANGED <<next, data, pool, head, tail, tos, got, content>>

ReadFreeLink(t) ==
    /\ At(t, "unlink")
    /\ reg' = [reg EXCEPT ![t].new = next[R(t).old.ptr].ptr]
    /\ Goto(t, "take")
    /\ UNCHANGED <<memory, got, content>>

TakeNode(t) ==
    /\ At(t, "take")
    /\ IF pool = R(t).old
         THEN /\ pool' = Swung(pool, R(t).new)
              /\ reg' = [reg EXCEPT ![t].node = R(t).old.ptr]
              /\ Goto(t, "construct")
         ELSE /\ Goto(t, "alloc")
              /\ UNCHANGED <<pool, reg>>
    /\ UNCHANGED <<next, data, fresh, head, tail, tos, got, content>>

\* deallocate(), with the same loop for a node that nobody else refers to.
ReadPoolToFree(t) ==
    /\ At(t, "free")
    /\ reg' = [reg EXCEPT ![t].old = pool]
    /\ Goto(t, "relink")
    /\ UNCHANGED <<memory, got, content>>

LinkFree(t) ==
    /\ At(t, "relink")
    /\ next' = [next EXCEPT ![R(t).node] = Repointed(@, R(t).old.ptr)]
    /\ Goto(t, "refill")
    /\ UNCHANGED <<data, fresh, pool, head, tail, tos, reg, got, content>>

FreeNode(t) ==
    /\ At(t, "refill")
    /\ IF pool = R(t).old
         THEN /\ pool' = Swung(pool, R(t).node)
              /\ reg' = [reg EXCEPT ![t] = NoReg]
              /\ Goto(t, "idle")
         ELSE /\ Goto(t, "free")
              /\ UNCHANGED <<pool, reg>>
    /\ UNCHANGED <<next, data, fresh, head, tail, tos, got, content>>

-----------------------------------------------------------------------------
\* Calls

Call(t) ==
    /\ At(t, "idle")
    /\ script[t] # <<>>
    /\ reg' = [reg EXCEPT ![t] = [NoReg EXCEPT !.val = Head(script[t])]]
    /\ script' = [script EXCEPT ![t] = Tail(@)]
    /\ Goto(t, IF Head(script[t]) # Nothing THEN "alloc" ELSE IF lifo THEN "pop" ELSE "gethead")
    /\ UNCHANGED <<memory, got, content>>

\* The constructor of a queue's node goes on counting its tag; that of a stack's leaves it alone.
Construct(t) ==
    /\ At(t, "construct")
    /\ R(t).node # NULL   \* alloc_node does not look: TypeOK says that there is one
    /\ LET n == R(t).node IN
          /\ data' = [data EXCEPT ![n] = R(t).val]
          /\ next' = IF lifo THEN next ELSE [next EXCEPT ![n] = Tagged(NULL, @.tag + 1)]
    /\ Goto(t, IF lifo THEN "push" ELSE "puttail")
    /\ UNCHANGED <<fresh, pool, head, tail, tos, reg, got, content>>

\* A cas on the tail of the queue: whoever succeeds, the tail has moved on.
Advance(t, p) == tail' = IF tail = R(t).last THEN Swung(tail, p) ELSE tail

-----------------------------------------------------------------------------
\* enqueue()

ReadTail(t) ==
    /\ At(t, "puttail")
    /\ reg' = [reg EXCEPT ![t].last = tail]
    /\ Goto(t, "putnext")
    /\ UNCHANGED <<memory, got, content>>

ReadTailNext(t) ==
    /\ At(t, "putnext")
    /\ reg' = [reg EXCEPT ![t].old = next[R(t).last.ptr]]
    /\ Goto(t, "putcheck")
    /\ UNCHANGED <<memory, got, content>>

CheckTail_NeverHelp(t) ==
    /\ At(t, "putcheck")
    /\ Goto(t, IF tail = R(t).last /\ R(t).old.ptr = NULL THEN "link" ELSE "puttail")
    /\ UNCHANGED <<memory, reg, got, content>>
CheckTail(t) ==
    /\ At(t, "putcheck")
    /\ Goto(t, IF tail # R(t).last THEN "puttail"
               ELSE IF R(t).old.ptr = NULL THEN "link" ELSE "help")
    /\ UNCHANGED <<memory, reg, got, content>>

\* Here the put takes effect.
LinkNode(t) ==
    /\ At(t, "link")
    /\ LET last == R(t).last.ptr IN
       IF next[last] = R(t).old
         THEN /\ next' = [next EXCEPT ![last] = Swung(@, R(t).node)]
              /\ content' = Append(content, R(t).val)
              /\ Goto(t, "swing")
         ELSE /\ Goto(t, "puttail")
              /\ UNCHANGED <<next, content>>
    /\ UNCHANGED <<data, fresh, pool, head, tail, tos, reg, got>>

SwingTail(t) ==
    /\ At(t, "swing")
    /\ Advance(t, R(t).node)
    /\ reg' = [reg EXCEPT ![t] = NoReg]
    /\ Goto(t, "idle")
    /\ UNCHANGED <<next, data, fresh, pool, head, tos, got, content>>

HelpTail(t) ==
    /\ At(t, "help")
    /\ Advance(t, R(t).old.ptr)
    /\ Goto(t, "puttail")
    /\ UNCHANGED <<next, data, fresh, pool, head, tos, reg, got, content>>

-----------------------------------------------------------------------------
\* dequeue()

ReadHead(t) ==
    /\ At(t, "gethead")
    /\ reg' = [reg EXCEPT ![t].old = head]
    /\ Goto(t, "gettail")
    /\ UNCHANGED <<memory, got, content>>

ReadTailToGet(t) ==
    /\ At(t, "gettail")
    /\ reg' = [reg EXCEPT ![t].last = tail]
    /\ Goto(t, "getnext")
    /\ UNCHANGED <<memory, got, content>>

ReadHeadNext(t) ==
    /\ At(t, "getnext")
    /\ reg' = [reg EXCEPT ![t].new = next[R(t).old.ptr].ptr]
    /\ Goto(t, "getcheck")
    /\ UNCHANGED <<memory, got, content>>

Miss(t) ==
    /\ got' = [got EXCEPT ![t] = Append(@, Nothing)]
    /\ reg' = [reg EXCEPT ![t] = NoReg]
    /\ Goto(t, "idle")

CheckHead_EmptyWhenBehind(t) ==
    /\ At(t, "getcheck")
    /\ IF head = R(t).old /\ R(t).old.ptr = R(t).last.ptr
         THEN Miss(t)
         ELSE /\ Goto(t, IF head # R(t).old THEN "gethead" ELSE "getdata")
              /\ UNCHANGED <<reg, got, content>>
    /\ UNCHANGED <<memory, content>>
CheckHead(t) ==
    /\ At(t, "getcheck")
    /\ IF head = R(t).old /\ R(t).old.ptr = R(t).last.ptr /\ R(t).new = NULL
         THEN Miss(t)
         ELSE /\ Goto(t, IF head # R(t).old THEN "gethead"
                         ELSE IF R(t).old.ptr = R(t).last.ptr THEN "gethelp" ELSE "getdata")
              /\ UNCHANGED <<reg, got, content>>
    /\ UNCHANGED <<memory, content>>

HelpTailToGet(t) ==
    /\ At(t, "gethelp")
    /\ Advance(t, R(t).new)
    /\ Goto(t, "gethead")
    /\ UNCHANGED <<next, data, fresh, pool, head, tos, reg, got, content>>

\* The value is read before the node is taken: its successor keeps the value as the next dummy.
ReadData(t) ==
    /\ At(t, "getdata")
    /\ R(t).new # NULL   \* a null pointer would end the process: TypeOK says that there is none
    /\ reg' = [reg EXCEPT ![t].val = data[R(t).new]]
    /\ Goto(t, "swinghead")
    /\ UNCHANGED <<memory, got, content>>

SwingHead(t) ==
    /\ At(t, "swinghead")
    /\ IF head = R(t).old
         THEN /\ head' = Swung(head, R(t).new)
              /\ got' = [got EXCEPT ![t] = Append(@, R(t).val)]
              /\ reg' = [reg EXCEPT ![t].node = R(t).old.ptr]
              /\ content' = SubSeq(content, 2, Len(content))
              /\ Goto(t, "free")
         ELSE /\ Goto(t, "gethead")
              /\ UNCHANGED <<head, got, reg, content>>
    /\ UNCHANGED <<next, data, fresh, pool, tail, tos>>

-----------------------------------------------------------------------------
\* push() and pop() of the stack

ReadTopToPush(t) ==
    /\ At(t, "push")
    /\ reg' = [reg EXCEPT ![t].old = tos]
    /\ Goto(t, "pushlink")
    /\ UNCHANGED <<memory, got, content>>

LinkToTop(t) ==
    /\ At(t, "pushlink")
    /\ next' = [next EXCEPT ![R(t).node] = Repointed(@, R(t).old.ptr)]
    /\ Goto(t, "pushswing")
    /\ UNCHANGED <<data, fresh, pool, head, tail, tos, reg, got, content>>

Push(t) ==
    /\ At(t, "pushswing")
    /\ IF tos = R(t).old
         THEN /\ tos' = Swung(tos, R(t).node)
              /\ reg' = [reg EXCEPT ![t] = NoReg]
              /\ content' = Append(content, R(t).val)
              /\ Goto(t, "idle")
         ELSE /\ Goto(t, "push")
              /\ UNCHANGED <<tos, reg, content>>
    /\ UNCHANGED <<next, data, fresh, pool, head, tail, got>>

ReadTop(t) ==
    /\ At(t, "pop")
    /\ IF tos.ptr = NULL
         THEN Miss(t)
         ELSE /\ reg' = [reg EXCEPT ![t].old = tos]
              /\ Goto(t, "poplink")
              /\ UNCHANGED got
    /\ UNCHANGED <<memory, content>>

ReadTopLink(t) ==
    /\ At(t, "poplink")
    /\ reg' = [reg EXCEPT ![t].new = next[R(t).old.ptr].ptr]
    /\ Goto(t, "popswing")
    /\ UNCHANGED <<memory, got, content>>

\* The value is read once the node is the popping thread's own.
Pop(t) ==
    /\ At(t, "popswing")
    /\ IF tos = R(t).old
         THEN /\ tos' = Swung(tos, R(t).new)
              /\ got' = [got EXCEPT ![t] = Append(@, data[R(t).old.ptr])]
              /\ reg' = [reg EXCEPT ![t].node = R(t).old.ptr]
              /\ content' = SubSeq(content, 1, Len(content) - 1)
              /\ Goto(t, "free")
         ELSE /\ Goto(t, "pop")
              /\ UNCHANGED <<tos, got, reg, content>>
    /\ UNCHANGED <<next, data, fresh, pool, head, tail>>

-----------------------------------------------------------------------------
Run(t) ==
    \/ ReadPool(t) \/ ReadFreeLink(t) \/ TakeNode(t)
    \/ ReadPoolToFree(t) \/ LinkFree(t) \/ FreeNode(t)
    \/ Construct(t)
    \/ ReadTail(t) \/ ReadTailNext(t) \/ CheckTail(t) \/ LinkNode(t) \/ SwingTail(t) \/ HelpTail(t)
    \/ ReadHead(t) \/ ReadTailToGet(t) \/ ReadHeadNext(t) \/ CheckHead(t) \/ HelpTailToGet(t)
    \/ ReadData(t) \/ SwingHead(t)
    \/ ReadTopToPush(t) \/ LinkToTop(t) \/ Push(t)
    \/ ReadTop(t) \/ ReadTopLink(t) \/ Pop(t)

Step(t) ==
    /\ Call(t) \/ (Run(t) /\ UNCHANGED script)
    /\ UNCHANGED <<lifo, static, stalled>>
    /\ Witness

Next == \E t \in Threads : Step(t)

\* The scheduler runs every thread, except one that it may never run again.
Fairness == \A t \in Threads : WF_vars(stalled # t /\ Step(t))
Spec == Init /\ [][Next]_vars /\ Fairness

-----------------------------------------------------------------------------
\* Properties

TaggedPointers == [ptr : Nodes \cup {NULL}, tag : 0..TagModulus - 1]

\* Every variable has its type; nobody is about to follow a null pointer.
TypeOK ==
    /\ next \in [Nodes -> TaggedPointers]
    /\ data \in [Nodes -> Values \cup {Nothing}]
    /\ fresh \subseteq Nodes
    /\ {pool, head, tail, tos} \subseteq TaggedPointers
    /\ head.ptr # NULL /\ tail.ptr # NULL
    /\ reg \in [Threads -> [node : Nodes \cup {NULL}, old : TaggedPointers, last : TaggedPointers,
                            new : Nodes \cup {NULL}, val : Values \cup {Nothing}]]
    /\ \A t \in Threads : At(t, "getdata") => R(t).new # NULL
    /\ \A t \in Threads : At(t, "construct") => R(t).node # NULL

\* A node is in the container, or in the free list, or in the hands of one thread: it is given
\* out once however stale the pointers are that others hold to it.
Chain(p) ==
    LET upTo[i \in 0..Cardinality(Nodes)] ==
          IF i = 0 THEN <<p>>
          ELSE LET before == upTo[i - 1] IN
               IF Last(before) = NULL THEN before ELSE Append(before, next[Last(before)].ptr)
    IN Front(upTo[Cardinality(Nodes)])
Held(t) ==
    IF pc[t] \in {"construct", "puttail", "putnext", "putcheck", "link", "help",
                  "push", "pushlink", "pushswing", "free", "relink", "refill"}
      THEN {R(t).node} ELSE {}
NodesHaveOneOwner ==
    LET owned == <<ToSet(Chain(IF lifo THEN tos.ptr ELSE head.ptr)), ToSet(Chain(pool.ptr)), fresh>> IN
    /\ \A i, j \in DOMAIN owned : i # j => owned[i] \cap owned[j] = {}
    /\ \A t \in Threads :
          /\ \A i \in DOMAIN owned : Held(t) \cap owned[i] = {}
          /\ \A u \in Threads \ {t} : Held(t) \cap Held(u) = {}

\* The pointers followed from the head or the top lead to the values as they were put, and the
\* queue's tail is at the last node or at the one before it, never behind the head.
ContainerIsWhole ==
    LET chain == IF lifo THEN Reverse(Chain(tos.ptr)) ELSE Chain(head.ptr)
        nodes == IF lifo THEN chain ELSE Tail(chain) IN
    /\ content = [i \in DOMAIN nodes |-> data[nodes[i]]]
    /\ ~lifo => \E i \in {Len(chain) - 1, Len(chain)} \cap DOMAIN chain : chain[i] = tail.ptr

\* Putting and getting take effect at once between call and return, oldest first for the queue
\* and last first for the stack, and nobody is told of nothing when there was something all along.
Pending(t) ==
    IF t \notin Waiting(pc) THEN "none"
    ELSE IF pc[t] \in {"gethead", "gettail", "getnext", "getcheck", "gethelp", "getdata",
                       "swinghead", "pop", "poplink", "popswing"} THEN "get" ELSE "put"
Promise == INSTANCE QueuePromise WITH calls <- [t \in Threads |-> Pending(t)]
Linearizable == Promise!Spec

\* Whichever thread stops, and wherever, the others get through their calls.
OthersFinish ==
    <>(\A t \in Threads : t # stalled => At(t, "idle") /\ script[t] = <<>>)

\* Whatever stale pointers threads hold, nodes are owned once and linked as they should be.
NodesAreSound == TypeOK /\ NodesHaveOneOwner /\ ContainerIsWhole

=============================================================================

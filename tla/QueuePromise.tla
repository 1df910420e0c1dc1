---------------------------- MODULE QueuePromise ----------------------------
(***************************************************************************)
(* What a queue or a stack promises to the threads that share it, with no  *)
(* nodes and no pointers: putting a value and getting one take effect at   *)
(* once, somewhere between call and return, and a thread may be told that  *)
(* there is nothing only if that was so at some moment of its call.        *)
(* LockFree implements this (LockFree!Linearizable).                       *)
(***************************************************************************)
EXTENDS Naturals, Sequences

CONSTANTS Threads, Values, Nothing

VARIABLES
    lifo,      \* whether it is a stack
    content,   \* the values, oldest first
    calls,     \* of each thread: "put" or "get" until the call takes effect, else "none"
    seen,      \* the threads in a call during which there has been nothing
    got        \* what each thread has got so far

vars == <<lifo, content, calls, seen, got>>

InCall == {t \in Threads : calls[t] # "none"}

Init ==
    /\ lifo \in BOOLEAN
    /\ content = <<>>
    /\ calls = [t \in Threads |-> "none"]
    /\ seen = {}
    /\ got = [t \in Threads |-> <<>>]

Call(t, op) ==
    /\ calls[t] = "none"
    /\ calls' = [calls EXCEPT ![t] = op]
    /\ seen' = IF content = <<>> THEN seen \cup {t} ELSE seen
    /\ UNCHANGED <<lifo, content, got>>

Returns(t) == calls' = [calls EXCEPT ![t] = "none"]

Put(t, v) ==
    /\ calls[t] = "put"
    /\ Returns(t)
    /\ content' = Append(content, v)
    /\ seen' = seen \ {t}
    /\ UNCHANGED <<lifo, got>>

Get(t) ==
    /\ calls[t] = "get"
    /\ content # <<>>
    /\ Returns(t)
    /\ IF lifo
         THEN /\ got' = [got EXCEPT ![t] = Append(@, content[Len(content)])]
              /\ content' = SubSeq(content, 1, Len(content) - 1)
         ELSE /\ got' = [got EXCEPT ![t] = Append(@, Head(content))]
              /\ content' = Tail(content)
    /\ seen' = (IF content' = <<>> THEN InCall ELSE seen) \ {t}
    /\ UNCHANGED lifo

Miss(t) ==
    /\ calls[t] = "get"
    /\ t \in seen
    /\ Returns(t)
    /\ got' = [got EXCEPT ![t] = Append(@, Nothing)]
    /\ seen' = seen \ {t}
    /\ UNCHANGED <<lifo, content>>

Next ==
    \E t \in Threads :
        \/ \E op \in {"put", "get"} : Call(t, op)
        \/ \E v \in Values : Put(t, v)
        \/ Get(t)
        \/ Miss(t)

Spec == Init /\ [][Next]_vars
=============================================================================

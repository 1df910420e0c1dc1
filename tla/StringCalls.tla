----------------------------- MODULE StringCalls -----------------------------
(***************************************************************************)
(* The calls of a string class and what each promises, of strings that are *)
(* values of their own: what a call does to one string is seen in no       *)
(* other, a copy is a copy, and a call that throws has done nothing.       *)
(* SharedString keeps this promise with strings that share their memory    *)
(* (SharedString!StringsAreValues).                                        *)
(***************************************************************************)
EXTENDS Integers, Sequences

CONSTANTS
    Names,
    Literals,   \* the texts that come from outside of any string
    Chars,
    MaxSize,    \* max_size()
    Spans,      \* the numbers of characters that calls ask for
    None

\* v[n] is the text of the string n, None where there is no string.

Piece(text, off, len) == SubSeq(text, off + 1, off + len)
Replaced(text, pos, n, x) ==
    SubSeq(text, 1, pos) \o x \o SubSeq(text, pos + n + 1, Len(text))
\* _M_limit
Limit(text, pos, n) == IF n < Len(text) - pos THEN n ELSE Len(text) - pos

-----------------------------------------------------------------------------
\* The calls that can be made of strings with these values.  Text comes from outside or is a piece
\* of a string; a position may be one past the end and one more.

Outside == [m : {None}, text : Literals]
Pieces(v, there) ==
    UNION {{p \in [m : {m}, off : 0 .. Len(v[m]), len : Spans \ {0}] : p.off + p.len <= Len(v[m])} :
             m \in there}

There(v) == {n \in Names : v[n] # None}
Sources(v) == Outside \cup Pieces(v, There(v))
Nothing == [m |-> None, text |-> <<>>]
\* [k : ks, n : {n}, pos : ...] of every string and every position in it or past it.
AtPositions(v, past, calls(_, _)) ==
    UNION {calls(n, 0 .. Len(v[n]) + past) : n \in There(v)}

Constructions(v) ==
    [k : {"make"}, n : Names \ There(v), src : Sources(v)]
      \cup [k : {"default"}, n : Names \ There(v)]
      \cup [k : {"copy"}, n : Names \ There(v), m : There(v)]
Assignments(v) == [k : {"assign"}, n : There(v), m : There(v)]
Swaps(v) == [k : {"swap"}, n : There(v), m : There(v)]
Handouts(v) == [k : {"leak"}, n : There(v)]
Reservations(v) == [k : {"reserve"}, n : There(v), size : 0 .. MaxSize]
Puts(v) ==
    AtPositions(v, -1, LAMBDA n, ps : [k : {"put"}, n : {n}, pos : ps, c : Chars])
Appends(v) == [k : {"append"}, n : There(v), src : Sources(v)]
Settings(v) == [k : {"set"}, n : There(v), src : Sources(v)]
Insertions(v) ==
    AtPositions(v, 1, LAMBDA n, ps :
        [k : {"insert"}, n : {n}, pos : ps, n1 : {0}, src : Sources(v), it : {FALSE}])
\* it: by iterators, to which the call returns one.
Erasures(v) ==
    AtPositions(v, 1, LAMBDA n, ps :
        [k : {"replace"}, n : {n}, pos : ps, n1 : Spans, src : {Nothing}, it : BOOLEAN])
Replacements(v) ==
    AtPositions(v, 1, LAMBDA n, ps :
        [k : {"replace"}, n : {n}, pos : ps, n1 : Spans, src : Sources(v), it : {FALSE}]
          \cup [k : {"replace"}, n : {n}, pos : ps, n1 : Spans, src : Outside, it : {TRUE}])

Calls(v) ==
    UNION {Constructions(v), [k : {"drop"}, n : There(v)], Assignments(v), Swaps(v), Handouts(v),
           Reservations(v), Puts(v), Appends(v), Settings(v), Insertions(v), Erasures(v),
           Replacements(v)}

Has(r, f) == f \in DOMAIN r
\* The strings a call changes, and those it reads besides.
Written(r) == IF r.k = "swap" THEN {r.n, r.m} ELSE {r.n}
Read(r) ==
    IF r.k \in {"copy", "assign"} THEN {r.m}
    ELSE IF Has(r, "src") THEN {r.src.m} \ {None} ELSE {}

\* What a call makes of the string and the texts it is given.
TextOf(v, src) == IF src.m = None THEN src.text ELSE Piece(v[src.m], src.off, src.len)
Result(v, r) ==
    CASE r.k = "make" -> TextOf(v, r.src)
      [] r.k = "default" -> <<>>
      [] r.k = "drop" -> None
      [] r.k \in {"copy", "assign"} -> v[r.m]
      [] r.k = "set" -> TextOf(v, r.src)
      [] r.k = "append" -> v[r.n] \o TextOf(v, r.src)
      [] r.k \in {"insert", "replace"} ->
           Replaced(v[r.n], r.pos, Limit(v[r.n], r.pos, r.n1), TextOf(v, r.src))
      [] r.k \in {"reserve", "leak"} -> v[r.n]
      [] r.k = "put" -> [v[r.n] EXCEPT ![r.pos + 1] = r.c]
\* out_of_range, and length_error.
Throws(v, r) ==
    \/ r.k \in {"insert", "replace"} /\ r.pos > Len(v[r.n])
    \/ r.k \notin {"default", "drop", "swap"} /\ Len(Result(v, r)) > MaxSize

After(v, r) ==
    IF Throws(v, r) THEN v
    ELSE IF r.k = "swap"
      THEN [v EXCEPT ![r.n] = v[r.m], ![r.m] = v[r.n]]
      ELSE [v EXCEPT ![r.n] = Result(v, r)]
=============================================================================

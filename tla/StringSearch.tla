---------------------------- MODULE StringSearch ----------------------------
(***************************************************************************)
(* The searches and comparisons of stldb::basic_string, over texts: the    *)
(* loops of basic_string.tcc with their first and last positions, and what *)
(* the comments at the declarations say that they return.  Positions count *)
(* from 0; NPos stands for size_type(-1) and is past every position.       *)
(* find_Slip is find with a plausible slip; nothing uses it.               *)
(***************************************************************************)
EXTENDS Integers, Sequences

CONSTANT NPos

Least(x, y) == IF x < y THEN x ELSE y
Char(text, i) == text[i + 1]
CharsOf(text) == {text[i] : i \in DOMAIN text}
\* The text has s at position i.
Has(text, s, i) == i + Len(s) <= Len(text) /\ SubSeq(text, i + 1, i + Len(s)) = s

-----------------------------------------------------------------------------
\* The loops: upwards from a position, and downwards until 0 has been looked at.

Up(first, last, Good(_)) ==
    LET f[i \in Nat] == IF i > last THEN NPos ELSE IF Good(i) THEN i ELSE f[i + 1] IN f[first]
Down(first, Good(_)) ==
    LET f[i \in Nat] == IF Good(i) THEN i ELSE IF i = 0 THEN NPos ELSE f[i - 1] IN f[first]

find_Slip(text, s, pos) ==
    IF s = <<>> THEN IF pos <= Len(text) THEN pos ELSE NPos
    ELSE IF Len(s) > Len(text) THEN NPos
    ELSE Up(pos, Len(text) - Len(s) - 1, LAMBDA i : Has(text, s, i))
find(text, s, pos) ==
    IF s = <<>> THEN IF pos <= Len(text) THEN pos ELSE NPos
    ELSE IF Len(s) > Len(text) THEN NPos
    ELSE Up(pos, Len(text) - Len(s), LAMBDA i : Has(text, s, i))

rfind(text, s, pos) ==
    IF Len(s) > Len(text) THEN NPos
    ELSE Down(Least(Len(text) - Len(s), pos), LAMBDA i : Has(text, s, i))

find_first_of(text, s, pos) ==
    IF s = <<>> THEN NPos
    ELSE Up(pos, Len(text) - 1, LAMBDA i : Char(text, i) \in CharsOf(s))

find_last_of(text, s, pos) ==
    IF text = <<>> \/ s = <<>> THEN NPos
    ELSE Down(Least(Len(text) - 1, pos), LAMBDA i : Char(text, i) \in CharsOf(s))

find_first_not_of(text, s, pos) ==
    Up(pos, Len(text) - 1, LAMBDA i : Char(text, i) \notin CharsOf(s))

find_last_not_of(text, s, pos) ==
    IF text = <<>> THEN NPos
    ELSE Down(Least(Len(text) - 1, pos), LAMBDA i : Char(text, i) \notin CharsOf(s))

ByLength(x, y) == Len(x) - Len(y)
\* The first characters that differ decide, and then the lengths.
compare(x, y) ==
    LET n == Least(Len(x), Len(y))
        i == Up(0, n - 1, LAMBDA j : Char(x, j) # Char(y, j))
    IN  IF i # NPos THEN Char(x, i) - Char(y, i) ELSE ByLength(x, y)
\* ... of the n characters of x at pos, or those that there are.
compare_piece(x, pos, n, y) == compare(SubSeq(x, pos + 1, pos + Least(n, Len(x) - pos)), y)

\* operator== and its opposite, < and >, <= and >=.
Equal(x, y) == compare(x, y) = 0
Precedes(x, y) == compare(x, y) < 0
NotAfter(x, y) == compare(x, y) <= 0

-----------------------------------------------------------------------------
\* What the comments say: the first or the last position, at or beyond which, or at or before which.

FirstOf(P) == IF P = {} THEN NPos ELSE CHOOSE i \in P : \A j \in P : i <= j
LastOf(P) == IF P = {} THEN NPos ELSE CHOOSE i \in P : \A j \in P : i >= j
Positions(text) == 0 .. Len(text)
Inside(text) == 0 .. Len(text) - 1

FindsAsSaid(text, s, pos) ==
    LET from == {i \in Positions(text) : i >= pos}
        upto == {i \in Positions(text) : i <= pos}
    IN  /\ find(text, s, pos) = FirstOf({i \in from : Has(text, s, i)})
        /\ rfind(text, s, pos) = LastOf({i \in upto : Has(text, s, i)})
        /\ find_first_of(text, s, pos) =
             FirstOf({i \in from \cap Inside(text) : Char(text, i) \in CharsOf(s)})
        /\ find_last_of(text, s, pos) =
             LastOf({i \in upto \cap Inside(text) : Char(text, i) \in CharsOf(s)})
        /\ find_first_not_of(text, s, pos) =
             FirstOf({i \in from \cap Inside(text) : Char(text, i) \notin CharsOf(s)})
        /\ find_last_not_of(text, s, pos) =
             LastOf({i \in upto \cap Inside(text) : Char(text, i) \notin CharsOf(s)})

\* x comes before y in a dictionary.
Before(x, y) ==
    \/ Len(x) < Len(y) /\ x = SubSeq(y, 1, Len(x))
    \/ \E i \in DOMAIN x \cap DOMAIN y :
         x[i] < y[i] /\ \A j \in 1 .. i - 1 : x[j] = y[j]
ComparesAsSaid(x, y) ==
    /\ Precedes(x, y) <=> Before(x, y)
    /\ Equal(x, y) <=> x = y
    /\ NotAfter(x, y) <=> ~Before(y, x)
    /\ \A i \in Positions(x), n \in {1, 2, NPos} :
         compare_piece(x, i, n, y) < 0 <=>
           Before(IF n > Len(x) - i THEN SubSeq(x, i + 1, Len(x)) ELSE SubSeq(x, i + 1, i + n), y)
=============================================================================

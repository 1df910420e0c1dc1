--------------------------- MODULE CommitLogProofs ---------------------------
(***************************************************************************)
(* Theorems about CommitLog, for any number of transactions and processes, *)
(* any file length and any number of faults: about its queue and buffers,  *)
(* then about what it leaves in the log files and on the device, and that  *)
(* the pipeline implements LogPromise.                                     *)
(***************************************************************************)
EXTENDS CommitLog, TLAPS, SequenceTheorems, NaturalsInduction, WellFoundedInduction

-----------------------------------------------------------------------------
\* The inductive invariant

\* Who is inside log() holds _file_mutex.
LogMutex == \A t \in Txns : pc[t] \in InLog <=> file_mutex = t

\* Only the thread about to write has a batch, and the file had room when it was opened.
BatchFits ==
    \A t \in Txns :
        /\ pc[t] # "write" => batch[t] = <<>>
        /\ pc[t] = "gather" => log_len < log_max_len

\* A transaction holds a buffer from TakeBuffer until it is committed.
HoldsBuffer ==
    \A t \in Txns : pc[t] \in {"filled", "queued", "loop", "gather", "write", "logged"}
                        => buffer[t] # NoBuffer

\* Between TakeBuffer and QueueForCommit the content stays its owner's.
FilledContent ==
    \A t \in Txns : pc[t] = "filled" => buffers[buffer[t]].txn = t

-----------------------------------------------------------------------------
\* Lemmas about numbers, and about the ends of records that follow one another

\* A set of natural numbers has a least one.
LEMMA LeastOfNats ==
    ASSUME NEW S, S \subseteq Nat, S # {}
    PROVE  \E x \in S : \A y \in S : x <= y
<1> DEFINE R == {m \in Nat \X Nat : m[1] < m[2]}
<1>1. IsWellFoundedOn(R, Nat)
  BY NatLessThanWellFounded DEF OpToRel
<1> HIDE DEF R
<1>2. PICK x \in S : \A y \in S : ~(<<y, x>> \in R)
  BY <1>1, WFMin
<1>3. \A y \in S : ~(y < x)
  BY <1>2 DEF R
<1> QED
  BY <1>3

\* One that has an upper bound has a greatest.
LEMMA GreatestOfNats ==
    ASSUME NEW S, S \subseteq Nat, S # {}, NEW n \in Nat, \A x \in S : x <= n
    PROVE  Max(S) \in S /\ \A y \in S : y <= Max(S)
<1> DEFINE D == {n - x : x \in S}
<1>1. D \subseteq Nat /\ D # {}
  <2>1. PICK x \in S : TRUE
    OBVIOUS
  <2>2. n - x \in D
    BY <2>1
  <2> QED
    BY <2>2
<1>2. PICK d \in D : \A e \in D : d <= e
  <2> HIDE DEF D
  <2> QED
    BY <1>1, LeastOfNats
<1>3. PICK x \in S : d = n - x
  OBVIOUS
<1>4. \A y \in S : x >= y
  <2> TAKE y \in S
  <2>1. n - x <= n - y
    BY <1>2, <1>3
  <2> QED
    BY <2>1
<1>5. Max(S) \in S /\ \A y \in S : Max(S) >= y
  BY <1>4 DEF Max
<1> QED
  BY <1>5

\* What holds of 0 and of the number after each that it holds of, holds up to n.
LEMMA UpTo ==
    ASSUME NEW n \in Nat, NEW S, S \subseteq 0 .. n, 0 \in S,
           \A i \in 0 .. n : i \in S /\ i < n => i + 1 \in S
    PROVE  S = 0 .. n
<1> SUFFICES ASSUME (0 .. n) \ S # {} PROVE FALSE
  OBVIOUS
<1> DEFINE C == (0 .. n) \ S
<1>0. C \subseteq Nat /\ C # {}
  OBVIOUS
<1>1. PICK x \in C : \A y \in C : x <= y
  <2> HIDE DEF C
  <2> QED
    BY <1>0, LeastOfNats
<1>2. x - 1 \in 0 .. n /\ x - 1 < n /\ x - 1 \notin (0 .. n) \ S
  BY <1>1
<1>3. (x - 1) + 1 \in S
  BY <1>2
<1> QED
  BY <1>1, <1>3

\* Lengths can be added up one after the other.
LEMMA EndsExist ==
    ASSUME NEW s, s \in Seq(Nat \ {0})
    PROVE  \E g \in [0 .. Len(s) -> Nat] : g[0] = 0 /\ \A i \in 1 .. Len(s) : g[i] = g[i - 1] + s[i]
<1> DEFINE n == Len(s)
           Adds(m, g) == g[0] = 0 /\ \A i \in 1 .. m : g[i] = g[i - 1] + s[i]
           S == {m \in 0 .. n : \E g \in [0 .. m -> Nat] : Adds(m, g)}
<1>n. n \in Nat /\ \A i \in 1 .. n : s[i] \in Nat
  BY LenProperties, ElementOfSeq
<1> HIDE DEF n
<1>1. 0 \in S
  <2>1. [i \in 0 .. 0 |-> 0] \in [0 .. 0 -> Nat] /\ Adds(0, [i \in 0 .. 0 |-> 0])
    OBVIOUS
  <2>2. 0 \in 0 .. n
    BY <1>n
  <2> QED
    BY <2>1, <2>2
<1>2. ASSUME NEW m \in 0 .. n, m \in S, m < n
      PROVE  m + 1 \in S
  <2>1. PICK g \in [0 .. m -> Nat] : Adds(m, g)
    BY <1>2
  <2> DEFINE f == [i \in 0 .. m + 1 |-> IF i <= m THEN g[i] ELSE g[i - 1] + s[i]]
  <2>2. m + 1 \in 1 .. n /\ s[m + 1] \in Nat /\ g[m] \in Nat /\ m + 1 \in 0 .. n
    BY <1>2, <1>n
  <2>3. f \in [0 .. m + 1 -> Nat]
    BY <2>1, <2>2
  <2>4. f[0] = 0
    BY <2>1
  <2>5. \A i \in 1 .. m + 1 : f[i] = f[i - 1] + s[i]
    BY <2>1, <2>2
  <2>6. Adds(m + 1, f)
    BY <2>4, <2>5
  <2>7. \E h \in [0 .. m + 1 -> Nat] : Adds(m + 1, h)
    BY <2>3, <2>6
  <2> QED
    BY <2>2, <2>7
<1>3. n \in S
  <2> HIDE DEF S
  <2>1. S \subseteq 0 .. n
    BY DEF S
  <2>2. \A i \in 0 .. n : i \in S /\ i < n => i + 1 \in S
    BY <1>2
  <2>3. S = 0 .. n
    BY <1>1, <1>n, <2>1, <2>2, UpTo
  <2> QED
    BY <1>n, <2>3
<1> QED
  BY <1>3 DEF n

\* Each record ends as far behind the one before it as it is long.
LEMMA EndsAdd ==
    ASSUME NEW s, s \in Seq(Nat \ {0})
    PROVE  /\ Ends(s) \in [0 .. Len(s) -> Nat] /\ Ends(s)[0] = 0
           /\ \A i \in 1 .. Len(s) : Ends(s)[i] = Ends(s)[i - 1] + s[i]
<1> DEFINE n == Len(s)
           Body(g) == [i \in 0 .. n |-> IF i = 0 THEN 0 ELSE g[i - 1] + s[i]]
<1>n. n \in Nat
  BY LenProperties
<1>1. PICK g \in [0 .. n -> Nat] : g[0] = 0 /\ \A i \in 1 .. n : g[i] = g[i - 1] + s[i]
  BY EndsExist
<1>2. g = Body(g)
  BY <1>1, <1>n
<1>3. Ends(s) = CHOOSE h : h = Body(h)
  BY DEF Ends
<1>4. Ends(s) = Body(Ends(s))
  BY <1>2, <1>3
<1> DEFINE e == Ends(s)
<1> HIDE DEF e
<1>5. e = Body(e)
  BY <1>4 DEF e
<1>6. e[0] = 0 /\ \A i \in 1 .. n : e[i] = e[i - 1] + s[i]
  BY <1>5, <1>n
<1>7. e \in [0 .. n -> Nat]
  <2> DEFINE S == {i \in 0 .. n : e[i] \in Nat}
  <2>1. 0 \in S /\ S \subseteq 0 .. n
    BY <1>6, <1>n
  <2>2. \A i \in 0 .. n : i \in S /\ i < n => i + 1 \in S
    <3> SUFFICES ASSUME NEW i \in 0 .. n, e[i] \in Nat, i < n
                 PROVE  i + 1 \in 0 .. n /\ e[i + 1] \in Nat
      OBVIOUS
    <3>1. i + 1 \in 1 .. n /\ (i + 1) - 1 = i
      BY <1>n
    <3>2. s[i + 1] \in Nat
      BY <3>1, ElementOfSeq
    <3> QED
      BY <1>6, <1>n, <3>1, <3>2
  <2> HIDE DEF S
  <2>3. S = 0 .. n
    BY <1>n, <2>1, <2>2, UpTo
  <2>4. \A i \in 0 .. n : e[i] \in Nat
    BY <2>3 DEF S
  <2> QED
    BY <1>5, <2>4
<1> QED
  BY <1>6, <1>7 DEF e

\* Of the first lengths of a sequence the ends are the same.
LEMMA EndsOfFirst ==
    ASSUME NEW s, s \in Seq(Nat \ {0}), NEW q, q \in Seq(Nat \ {0}), Len(q) <= Len(s),
           \A i \in 1 .. Len(q) : q[i] = s[i]
    PROVE  \A i \in 0 .. Len(q) : Ends(q)[i] = Ends(s)[i]
<1> DEFINE n == Len(q)
           a == Ends(q)
           b == Ends(s)
           S == {i \in 0 .. n : a[i] = b[i]}
<1>1. n \in Nat /\ Len(s) \in Nat /\ n <= Len(s)
  BY LenProperties
<1>2. a[0] = 0 /\ \A i \in 1 .. n : a[i] = a[i - 1] + q[i]
  BY EndsAdd
<1>3. b[0] = 0 /\ \A i \in 1 .. Len(s) : b[i] = b[i - 1] + s[i]
  BY EndsAdd
<1>q. \A i \in 1 .. n : q[i] = s[i]
  OBVIOUS
<1> HIDE DEF n, a, b
<1>4. 0 \in S /\ S \subseteq 0 .. n
  BY <1>1, <1>2, <1>3
<1>5. \A i \in 0 .. n : i \in S /\ i < n => i + 1 \in S
  <2> SUFFICES ASSUME NEW i \in 0 .. n, a[i] = b[i], i < n
               PROVE  i + 1 \in 0 .. n /\ a[i + 1] = b[i + 1]
    OBVIOUS
  <2>1. i + 1 \in 1 .. n /\ i + 1 \in 1 .. Len(s) /\ (i + 1) - 1 = i /\ i + 1 \in 0 .. n
    BY <1>1
  <2>2. a[i + 1] = a[i] + q[i + 1] /\ b[i + 1] = b[i] + s[i + 1] /\ q[i + 1] = s[i + 1]
    BY <1>2, <1>3, <1>q, <2>1
  <2> QED
    BY <2>1, <2>2
<1> HIDE DEF S
<1>6. S = 0 .. n
  BY <1>1, <1>4, <1>5, UpTo
<1> QED
  BY <1>6 DEF S, n, a, b

\* A function of 0 .. n that grows at each step grows throughout.
LEMMA Grows ==
    ASSUME NEW n \in Nat, NEW c, c \in [0 .. n -> Nat], \A i \in 1 .. n : c[i - 1] < c[i]
    PROVE  \A i, j \in 0 .. n : i < j => c[i] < c[j]
<1> SUFFICES ASSUME NEW i \in 0 .. n PROVE \A j \in 0 .. n : i < j => c[i] < c[j]
  OBVIOUS
<1> DEFINE S == {j \in 0 .. n : i < j => c[i] < c[j]}
<1>1. 0 \in S /\ S \subseteq 0 .. n
  OBVIOUS
<1>2. \A j \in 0 .. n : j \in S /\ j < n => j + 1 \in S
  <2> SUFFICES ASSUME NEW j \in 0 .. n, i < j => c[i] < c[j], j < n, i < j + 1
               PROVE  c[i] < c[j + 1] /\ j + 1 \in 0 .. n
    OBVIOUS
  <2>1. j + 1 \in 1 .. n /\ (j + 1) - 1 = j /\ j + 1 \in 0 .. n
    OBVIOUS
  <2>2. c[j] < c[j + 1]
    <3>1. ASSUME NEW k \in 1 .. n, k - 1 = j
          PROVE  c[j] < c[k]
      <4>1. c[k - 1] < c[k]
        OBVIOUS
      <4> QED
        BY <3>1, <4>1
    <3> QED
      BY <2>1, <3>1
  <2>3. c[i] \in Nat /\ c[j] \in Nat /\ c[j + 1] \in Nat
    BY <2>1
  <2>4. i = j \/ i < j
    OBVIOUS
  <2>5. c[i] = c[j] \/ c[i] < c[j]
    BY <2>4
  <2>6. c[i] < c[j + 1]
    BY <2>2, <2>3, <2>5
  <2> QED
    BY <2>1, <2>6
<1> HIDE DEF S
<1>3. S = 0 .. n
  BY <1>1, <1>2, UpTo
<1> QED
  BY <1>3 DEF S

\* ... and leaves no gap.
LEMMA NoGap ==
    ASSUME NEW n \in Nat, NEW c, c \in [0 .. n -> Nat], c[0] = 0, NEW b \in Nat, b < c[n]
    PROVE  \E i \in 1 .. n : c[i - 1] <= b /\ b < c[i]
<1> DEFINE S == {i \in 0 .. n : b < c[i]}
<1>1. S \subseteq Nat /\ n \in S
  OBVIOUS
<1>2. PICK i \in S : \A j \in S : i <= j
  <2> HIDE DEF S
  <2> QED
    BY <1>1, LeastOfNats
<1>3. i \in 1 .. n /\ i - 1 \in 0 .. n /\ i - 1 \notin S
  BY <1>2
<1>4. c[i - 1] <= b
  BY <1>3
<1> QED
  BY <1>2, <1>3, <1>4

-----------------------------------------------------------------------------
\* The alignment

\* Padding is shorter than the alignment and a header, and there is none where none is needed.
LEMMA PaddingBounds ==
    ASSUME NEW n \in Nat
    PROVE  /\ Padding(n) \in Nat /\ Padding(n) < Alignment + Header
           /\ n % Alignment = 0 => Padding(n) = 0
<1>1. n % Alignment \in 0 .. Alignment - 1
  BY SizeAssumption
<1> QED
  BY <1>1, SizeAssumption DEF Padding

\* It brings the file to a boundary of the alignment.
LEMMA PaddingAligns ==
    ASSUME NEW n \in Nat
    PROVE  (n + Padding(n)) % Alignment = 0
<1> DEFINE q == n \div Alignment
           m == n % Alignment
<1>1. m \in 0 .. Alignment - 1 /\ n = Alignment * q + m /\ q \in Int
  BY SizeAssumption
<1>2. \A i \in Int : (Alignment * i) % Alignment = 0
  BY SizeAssumption
<1>3. n + Padding(n) \in {Alignment * q, Alignment * (q + 1), Alignment * (q + 2)}
  <2>1. Padding(n) \in {0 - m, Alignment - m, Alignment + Alignment - m}
    BY <1>1, SizeAssumption DEF Padding
  <2> HIDE DEF q, m
  <2>2. /\ Alignment * (q + 1) = Alignment * q + Alignment
        /\ Alignment * (q + 2) = Alignment * q + Alignment + Alignment
        /\ Alignment * q \in Int
    BY <1>1, SizeAssumption
  <2> DEFINE a == Alignment * q
  <2>3. n = a + m /\ a \in Int /\ m \in Int /\ Alignment \in Int
    BY <1>1, <2>2, SizeAssumption
  <2> HIDE DEF a
  <2>4. n + Padding(n) \in {a, a + Alignment, a + Alignment + Alignment}
    BY <2>1, <2>3
  <2> QED
    BY <2>2, <2>4 DEF a
<1> QED
  BY <1>1, <1>2, <1>3

-----------------------------------------------------------------------------
\* Lemmas about the operators of the model

\* The lengths of what a sequence of buffers makes.
LEMMA LengthsShape ==
    ASSUME TypeOK, NEW s, s \in Seq(BufferIds)
    PROVE  /\ Lengths(s) \in Seq(Nat \ {0}) /\ Len(Lengths(s)) = Len(s) /\ Len(s) \in Nat
           /\ \A i \in 1 .. Len(s) : /\ Lengths(s)[i] = Size[buffers[s[i]].txn]
                                     /\ Lengths(s)[i] \in Nat \ {0}
                                     /\ buffers[s[i]] \in [txn : Txns, lsn : Nat]
<1>1. Len(s) \in Nat /\ \A i \in 1 .. Len(s) : s[i] \in BufferIds
  BY LenProperties, ElementOfSeq
<1>2. \A i \in 1 .. Len(s) : buffers[s[i]] \in [txn : Txns, lsn : Nat]
  BY <1>1, ElementOfSeq DEF TypeOK, BufferTypes, BufferIds
<1>3. \A i \in 1 .. Len(s) : Size[buffers[s[i]].txn] \in Nat \ {0}
  BY <1>2, SizeAssumption
<1>4. Lengths(s) \in [1 .. Len(s) -> Nat \ {0}]
  BY <1>3 DEF Lengths
<1>5. Lengths(s) \in Seq(Nat \ {0})
  BY <1>1, <1>4
<1>6. Len(Lengths(s)) = Len(s)
  BY <1>1, <1>4, <1>5, LenProperties
<1>7. \A i \in 1 .. Len(s) : Lengths(s)[i] = Size[buffers[s[i]].txn]
  BY DEF Lengths
<1> QED
  BY <1>1, <1>2, <1>3, <1>5, <1>6, <1>7

\* The ends of what they make grow.
LEMMA EndsGrow ==
    ASSUME TypeOK, NEW s, s \in Seq(BufferIds)
    PROVE  /\ Ends(Lengths(s)) \in [0 .. Len(s) -> Nat] /\ Ends(Lengths(s))[0] = 0
           /\ \A i \in 1 .. Len(s) :
                 /\ Ends(Lengths(s))[i - 1] \in Nat /\ Ends(Lengths(s))[i] \in Nat
                 /\ Ends(Lengths(s))[i] = Ends(Lengths(s))[i - 1] + Size[buffers[s[i]].txn]
                 /\ Ends(Lengths(s))[i - 1] < Ends(Lengths(s))[i]
<1> DEFINE e == Ends(Lengths(s))
<1>1. /\ Lengths(s) \in Seq(Nat \ {0}) /\ Len(Lengths(s)) = Len(s) /\ Len(s) \in Nat
      /\ \A i \in 1 .. Len(s) : /\ Lengths(s)[i] = Size[buffers[s[i]].txn]
                                /\ Lengths(s)[i] \in Nat \ {0}
  BY LengthsShape
<1>2. /\ e \in [0 .. Len(s) -> Nat] /\ e[0] = 0
      /\ \A i \in 1 .. Len(s) : e[i] = e[i - 1] + Lengths(s)[i]
  BY <1>1, EndsAdd
<1> HIDE DEF e
<1>3. \A i \in 1 .. Len(s) : i \in 0 .. Len(s) /\ i - 1 \in 0 .. Len(s)
  BY <1>1
<1>4. ASSUME NEW i \in 1 .. Len(s)
      PROVE  /\ e[i - 1] \in Nat /\ e[i] \in Nat
             /\ e[i] = e[i - 1] + Size[buffers[s[i]].txn] /\ e[i - 1] < e[i]
  <2>1. e[i - 1] \in Nat /\ e[i] \in Nat
    BY <1>2, <1>3
  <2>2. e[i] = e[i - 1] + Lengths(s)[i]
    BY <1>2
  <2>3. Lengths(s)[i] = Size[buffers[s[i]].txn] /\ Lengths(s)[i] \in Nat \ {0}
    BY <1>1
  <2> QED
    BY <2>1, <2>2, <2>3
<1> QED
  BY <1>2, <1>4 DEF e

\* Gather takes no more than there is, and the file was below its maximum length before the
\* last that it takes.
LEMMA GatherCountBounds ==
    ASSUME TypeOK
    PROVE  /\ GatherCount \in 0..Len(waiting_txns)
           /\ GatherCount # 0 =>
                 log_len + Ends(Lengths(waiting_txns))[GatherCount - 1] < log_max_len
<1> DEFINE n == Len(waiting_txns)
           m == Min({MaxTxnPerWrite, n})
           S == {0} \cup {k \in 1..m : log_len + Ends(Lengths(waiting_txns))[k - 1] < log_max_len}
<1>1. n \in Nat
  BY LenProperties DEF TypeOK, BufferTypes
<1>2. m \in Nat /\ m <= n
  <2> HIDE DEF n
  <2>1. \E x \in {MaxTxnPerWrite, n} : \A y \in {MaxTxnPerWrite, n} : x =< y
    BY <1>1, SizeAssumption
  <2> QED
    BY <1>1, <2>1, SizeAssumption DEF Min
<1> HIDE DEF m, n
<1>3. S \subseteq Nat /\ S # {} /\ \A x \in S : x <= n
  BY <1>1, <1>2
<1>4. GatherCount = Max(S)
  BY DEF GatherCount, m, n
<1>5. Max(S) \in S
  <2> HIDE DEF S
  <2> QED
    BY <1>1, <1>3, GreatestOfNats
<1>6. /\ Max(S) \in 0 .. n
      /\ Max(S) # 0 => log_len + Ends(Lengths(waiting_txns))[Max(S) - 1] < log_max_len
  BY <1>1, <1>2, <1>5
<1> QED
  BY <1>4, <1>6 DEF n

\* What is written, in whole or in part, are records.
LEMMA RecordTypes ==
    ASSUME TypeOK, NEW t \in Txns, NEW n, n \in Nat
    PROVE  Records(t, n) \subseteq LogRecords
<1> DEFINE s == batch[t]
           k == Len(s)
           e == Ends(Lengths(s))
<1>1. s \in Seq(BufferIds)
  BY DEF TypeOK, BufferTypes
<1>2. \A i \in 1 .. k : /\ e[i - 1] \in Nat /\ e[i] \in Nat /\ e[i - 1] < e[i]
  BY <1>1, EndsGrow
<1>3. \A i \in 1 .. k : buffers[s[i]] \in [txn : Txns, lsn : Nat]
  BY <1>1, LengthsShape
<1>4. /\ logfd[Home[t]] \in Nat \cup {NoFile}
      /\ WriteOffset(Home[t]) \in Nat
  BY HomeAssumption DEF WriteOffset, TypeOK, SharedTypes, HandleTypes
<1> HIDE DEF e
<1> SUFFICES ASSUME NEW i \in 1 .. k, e[i - 1] < n
             PROVE  [file |-> logfd[Home[t]], pos |-> WriteOffset(Home[t]) + e[i - 1],
                     len |-> (IF i = k \/ n < e[i] THEN n ELSE e[i]) - e[i - 1],
                     txn |-> IF n < e[i] THEN NoTxn ELSE buffers[batch[t][i]].txn,
                     lsn |-> buffers[batch[t][i]].lsn] \in LogRecords
  BY DEF Records, e
<1>5. /\ WriteOffset(Home[t]) + e[i - 1] \in Nat
      /\ (IF i = k \/ n < e[i] THEN n ELSE e[i]) - e[i - 1] \in Nat \ {0}
  BY <1>2, <1>4
<1>6. buffers[batch[t][i]].txn \in Txns /\ buffers[batch[t][i]].lsn \in Nat
  BY <1>3
<1> QED
  BY <1>4, <1>5, <1>6 DEF LogRecords

\* A write has a length.
LEMMA BytesType ==
    ASSUME TypeOK, NEW t \in Txns
    PROVE  /\ Filled(t) \in Nat /\ Bytes(t) \in Nat
           /\ Filled(t) = log_len + Ends(Lengths(batch[t]))[Len(batch[t])]
           /\ log_len + Bytes(t) = Filled(t) + Padding(Filled(t))
           /\ Bytes(t) >= Ends(Lengths(batch[t]))[Len(batch[t])]
           /\ WriteOffset(Home[t]) \in Nat
<1> DEFINE e == Ends(Lengths(batch[t]))[Len(batch[t])]
<1>1. Len(batch[t]) \in Nat /\ e \in Nat
  <2>1. batch[t] \in Seq(BufferIds)
    BY DEF TypeOK, BufferTypes
  <2>2. Len(batch[t]) \in Nat
    BY <2>1, LenProperties
  <2>3. Ends(Lengths(batch[t])) \in [0 .. Len(batch[t]) -> Nat]
    BY <2>1, EndsGrow
  <2> QED
    BY <2>2, <2>3
<1>2. log_len \in Nat
  BY DEF TypeOK, SharedTypes
<1>3. Filled(t) = log_len + e
  BY DEF Filled
<1> HIDE DEF e
<1>4. Filled(t) \in Nat
  BY <1>1, <1>2, <1>3
<1>5. Padding(Filled(t)) \in Nat
  BY <1>4, PaddingBounds
<1>6. Bytes(t) = Filled(t) + Padding(Filled(t)) - log_len
  BY DEF Bytes
<1>8. Bytes(t) \in Nat /\ log_len + Bytes(t) = Filled(t) + Padding(Filled(t)) /\ Bytes(t) >= e
  BY <1>1, <1>2, <1>3, <1>4, <1>5, <1>6
<1>7. WriteOffset(Home[t]) \in Nat
  BY HomeAssumption DEF WriteOffset, TypeOK, SharedTypes, HandleTypes
<1> QED
  BY <1>3, <1>4, <1>7, <1>8 DEF e

-----------------------------------------------------------------------------
\* Types, the mutex and the room in the file

Locking == TypeOK /\ LogMutex /\ BatchFits /\ HoldsBuffer

\* A new region satisfies the invariant of the types and the file mutex.
LEMMA InitLocking == Init => Locking
BY EmptySeq, NoTxnAssumption, SizeAssumption, FaultAssumption
   DEF Init, Locking, TypeOK, SharedTypes, BufferTypes, HandleTypes, FileTypes,
       BufferIds, LogMutex, BatchFits, HoldsBuffer, InLog, Points

\* Every step keeps it: only log() takes _file_mutex, and who leaves log() by any
\* way out, exceptions included, gives it back with no batch in hand.
LEMMA NextLocking == Locking /\ [Next]_vars => Locking'
<1> SUFFICES ASSUME TypeOK, LogMutex, BatchFits, HoldsBuffer, [Next]_vars
             PROVE  Locking'
  BY DEF Locking
<1> USE NoTxnAssumption, SizeAssumption, FaultAssumption, HomeAssumption
<1> DEFINE Rec == [txn : Txns, lsn : Nat]
<1>l. Len(buffers) \in Nat /\ BufferIds = 1..Len(buffers)
  BY LenProperties DEF TypeOK, BufferTypes, BufferIds
<1>1. ASSUME NEW t \in Txns, TakeBuffer(t)
      PROVE  Locking'
  <2>1. LogMutex' /\ BatchFits'
    BY <1>1 DEF TakeBuffer, BuffersLeft, Goto, TypeOK, LogMutex, BatchFits, InLog,
       config, shared
  <2>6. HoldsBuffer'
    <3>1. buffer'[t] # NoBuffer
      <4>1. buffer_queue # <<>> => Head(buffer_queue) \in BufferIds
        BY HeadTailProperties DEF TypeOK, BufferTypes
      <4>2. Len(buffers) + 1 # NoBuffer /\ \A b \in BufferIds : b # NoBuffer
        BY <1>l DEF NoBuffer
      <4> QED
        BY <1>1, <4>1, <4>2 DEF TakeBuffer, BuffersLeft, TypeOK, BufferTypes
    <3> QED
      BY <1>1, <3>1 DEF TakeBuffer, BuffersLeft, Goto, TypeOK, BufferTypes, HoldsBuffer
  <2>2. SharedTypes' /\ HandleTypes' /\ FileTypes'
    BY <1>1 DEF TakeBuffer, BuffersLeft, TypeOK, SharedTypes, HandleTypes, FileTypes,
       config, shared, handles, files, faults
  <2>3. pc' \in [Txns -> Points] /\ lsn' \in [Txns -> Nat]
    BY <1>1 DEF TakeBuffer, BuffersLeft, Goto, TypeOK, Points
  <2>4. ASSUME buffer_queue # <<>>
        PROVE  BufferTypes'
    <3> DEFINE b == Head(buffer_queue)
    <3> DEFINE e == [buffers[b] EXCEPT !.txn = t]
    <3>1. b \in BufferIds /\ Tail(buffer_queue) \in Seq(BufferIds)
      BY <2>4, HeadTailProperties DEF TypeOK, BufferTypes
    <3>2. buffers[b] \in Rec
      BY <3>1, <1>l, ElementOfSeq DEF TypeOK, BufferTypes
    <3>3. e \in Rec
      BY <3>2
    <3>4. buffers' = [buffers EXCEPT ![b] = e]
      BY <1>1, <2>4 DEF TakeBuffer, BuffersLeft
    <3> HIDE DEF e
    <3>5. buffers' \in Seq(Rec) /\ Len(buffers') = Len(buffers)
      BY <3>1, <3>3, <3>4, <1>l, ExceptSeq DEF TypeOK, BufferTypes
    <3>6. BufferIds' = BufferIds
      BY <3>5 DEF BufferIds
    <3>7. buffer' \in [Txns -> {NoBuffer} \cup BufferIds]
      BY <1>1, <2>4, <3>1 DEF TakeBuffer, BuffersLeft, TypeOK, BufferTypes
    <3>8. buffer_queue' \in Seq(BufferIds) /\ UNCHANGED <<waiting_txns, batch>>
      BY <1>1, <2>4, <3>1 DEF TakeBuffer, BuffersLeft
    <3> QED
      BY <3>5, <3>6, <3>7, <3>8 DEF TypeOK, BufferTypes
  <2>5. ASSUME buffer_queue = <<>>
        PROVE  BufferTypes'
    <3> DEFINE e == [txn |-> t, lsn |-> 0]
    <3>1. e \in Rec /\ buffers' = Append(buffers, e)
      BY <1>1, <2>5 DEF TakeBuffer, BuffersLeft
    <3>b. buffers \in Seq(Rec)
      BY DEF TypeOK, BufferTypes
    <3> HIDE DEF e, Rec
    <3>2. buffers' \in Seq(Rec) /\ Len(buffers') = Len(buffers) + 1
      BY <3>1, <3>b, AppendProperties
    <3> USE DEF Rec
    <3>3. BufferIds \subseteq BufferIds' /\ Len(buffers) + 1 \in BufferIds'
      BY <1>l, <3>2 DEF BufferIds
    <3>4. Seq(BufferIds) \subseteq Seq(BufferIds')
      BY <3>3, SeqMonotonic
    <3>5. buffer' \in [Txns -> {NoBuffer} \cup BufferIds']
      BY <1>1, <2>5, <3>3 DEF TakeBuffer, BuffersLeft, TypeOK, BufferTypes
    <3>6. waiting_txns' \in Seq(BufferIds') /\ buffer_queue' \in Seq(BufferIds')
      BY <1>1, <2>5, <3>4 DEF TakeBuffer, BuffersLeft, TypeOK, BufferTypes
    <3>7. batch' \in [Txns -> Seq(BufferIds')]
      BY <1>1, <3>4 DEF TakeBuffer, BuffersLeft, TypeOK, BufferTypes
    <3> QED
      BY <3>2, <3>5, <3>6, <3>7 DEF BufferTypes
  <2> QED
    BY <2>1, <2>2, <2>3, <2>4, <2>5, <2>6 DEF Locking, TypeOK
<1>2. ASSUME NEW t \in Txns, QueueForCommit(t)
      PROVE  Locking'
  <2>1. LogMutex' /\ BatchFits' /\ HoldsBuffer'
    BY <1>2 DEF QueueForCommit, Enqueued, Goto, TypeOK, LogMutex, BatchFits,
       HoldsBuffer, InLog, config, pool
  <2>2. SharedTypes' /\ HandleTypes' /\ FileTypes'
    BY <1>2, SMTT(30) DEF QueueForCommit, Enqueued, TypeOK, SharedTypes, HandleTypes, FileTypes,
       config, handles, files, faults
  <2>3. pc' \in [Txns -> Points] /\ lsn' \in [Txns -> Nat]
    BY <1>2 DEF QueueForCommit, Enqueued, Goto, TypeOK, SharedTypes, Points
  <2>4. BufferTypes'
    <3> DEFINE b == buffer[t]
    <3> DEFINE e == [buffers[b] EXCEPT !.lsn = next_lsn]
    <3>1. b \in BufferIds
      BY <1>2 DEF QueueForCommit, Enqueued, HoldsBuffer, TypeOK, BufferTypes
    <3>2. buffers[b] \in Rec /\ next_lsn \in Nat
      BY <3>1, <1>l, ElementOfSeq DEF TypeOK, BufferTypes, SharedTypes
    <3>3. e \in Rec /\ buffers' = [buffers EXCEPT ![b] = e]
      BY <1>2, <3>2 DEF QueueForCommit, Enqueued
    <3> HIDE DEF e
    <3>4. buffers' \in Seq(Rec) /\ Len(buffers') = Len(buffers)
      BY <3>1, <3>3, <1>l, ExceptSeq DEF TypeOK, BufferTypes
    <3>5. BufferIds' = BufferIds
      BY <3>4 DEF BufferIds
    <3>6. waiting_txns' \in Seq(BufferIds)
      BY <1>2, <3>1, AppendProperties DEF QueueForCommit, Enqueued, TypeOK, BufferTypes
    <3> QED
      BY <1>2, <3>4, <3>5, <3>6 DEF QueueForCommit, Enqueued, TypeOK, BufferTypes
  <2> QED
    BY <2>1, <2>2, <2>3, <2>4 DEF Locking, TypeOK
<1>16. ASSUME NEW t \in Txns, QueueRefuses(t)
      PROVE  Locking'
  <2>1. LogMutex' /\ BatchFits' /\ HoldsBuffer'
    BY <1>16 DEF QueueRefuses, Goto, TypeOK, LogMutex, BatchFits, HoldsBuffer, InLog,
       config, pool, shared
  <2>2. SharedTypes' /\ BufferTypes' /\ HandleTypes' /\ FileTypes'
    BY <1>16 DEF QueueRefuses, TypeOK, SharedTypes, BufferTypes, BufferIds, HandleTypes,
       FileTypes, config, shared, pool, handles, files, faults
  <2>3. pc' \in [Txns -> Points] /\ lsn' \in [Txns -> Nat]
    BY <1>16 DEF QueueRefuses, Goto, TypeOK, Points
  <2> QED
    BY <2>1, <2>2, <2>3 DEF Locking, TypeOK
<1>3. ASSUME NEW t \in Txns, EnterLog(t)
      PROVE  Locking'
  <2>1. LogMutex' /\ BatchFits' /\ HoldsBuffer'
    BY <1>3 DEF EnterLog, Goto, TypeOK, LogMutex, BatchFits, HoldsBuffer, InLog, config,
       pool, shared
  <2>2. SharedTypes' /\ BufferTypes' /\ HandleTypes' /\ FileTypes'
    BY <1>3 DEF EnterLog, TypeOK, SharedTypes, BufferTypes, BufferIds, HandleTypes,
       FileTypes, config, shared, pool, handles, files, faults
  <2>3. pc' \in [Txns -> Points] /\ lsn' \in [Txns -> Nat]
    BY <1>3 DEF EnterLog, Goto, TypeOK, Points
  <2> QED
    BY <2>1, <2>2, <2>3 DEF Locking, TypeOK
<1>4. ASSUME NEW t \in Txns, EnsureOpen(t)
      PROVE  Locking'
  <2>0. log_filename' \in Nat /\ log_len' \in Nat /\ log_len' < log_max_len /\ NextFile \in Nat
    BY <1>4 DEF EnsureOpen, NameNextFile, NextFile, NewName, Rolls, TypeOK, SharedTypes
  <2>1. LogMutex' /\ BatchFits' /\ HoldsBuffer'
    BY <1>4, <2>0 DEF EnsureOpen, Goto, TypeOK, LogMutex, BatchFits, HoldsBuffer, InLog,
       config, pool
  <2>2. SharedTypes' /\ BufferTypes'
    BY <1>4, <2>0 DEF EnsureOpen, TypeOK, SharedTypes, BufferTypes, BufferIds, config, pool
  <2>5. FileTypes'
    <3>1. Grown(disk, NextFile) \subseteq LogRecords
      BY DEF Grown, TypeOK, FileTypes, LogRecords
    <3>2. disk' \subseteq LogRecords
      BY <1>4, <3>1 DEF EnsureOpen, TypeOK, FileTypes
    <3> QED
      BY <1>4, <3>2 DEF EnsureOpen, TypeOK, FileTypes, faults
  <2>3. HandleTypes'
    <3>1. log_max_len + 1 \in Nat
      BY DEF TypeOK, SharedTypes
    <3> QED
      BY <1>4, <2>0, <3>1 DEF EnsureOpen, TypeOK, HandleTypes, handles
  <2>4. pc' \in [Txns -> Points] /\ lsn' \in [Txns -> Nat]
    BY <1>4 DEF EnsureOpen, Goto, TypeOK, Points
  <2> QED
    BY <2>1, <2>2, <2>3, <2>4, <2>5 DEF Locking, TypeOK
<1>5. ASSUME NEW t \in Txns, OpenFails(t)
      PROVE  Locking'
  <2>0. log_filename' \in Nat /\ log_len' \in Nat /\ NextFile \in Nat
    BY <1>5 DEF OpenFails, NameNextFile, NextFile, NewName, Rolls, TypeOK, SharedTypes
  <2>1. LogMutex' /\ BatchFits' /\ HoldsBuffer'
    BY <1>5, <2>0 DEF OpenFails, Goto, TypeOK, LogMutex, BatchFits, HoldsBuffer, InLog,
       config, pool
  <2>2. SharedTypes' /\ BufferTypes'
    BY <1>5, <2>0 DEF OpenFails, TypeOK, SharedTypes, BufferTypes, BufferIds, config, pool
  <2>5. HandleTypes'
    BY <1>5, <2>0 DEF OpenFails, TypeOK, HandleTypes
  <2>3. FileTypes'
    BY <1>5 DEF OpenFails, TypeOK, FileTypes, files
  <2>4. pc' \in [Txns -> Points] /\ lsn' \in [Txns -> Nat]
    BY <1>5 DEF OpenFails, Goto, TypeOK, Points
  <2> QED
    BY <2>1, <2>2, <2>3, <2>4, <2>5 DEF Locking, TypeOK
<1>6. ASSUME NEW t \in Txns, Gather(t)
      PROVE  Locking'
  <2> DEFINE k == GatherCount
  <2>1. k \in 0..Len(waiting_txns)
    BY GatherCountBounds
  <2>2. /\ batch' = [batch EXCEPT ![t] = SubSeq(waiting_txns, 1, k)]
        /\ waiting_txns' = SubSeq(waiting_txns, k + 1, Len(waiting_txns))
    BY <1>6 DEF Gather
  <2> HIDE DEF k
  <2>3. Len(waiting_txns) \in Nat /\ \A i \in 1..Len(waiting_txns) : waiting_txns[i] \in BufferIds
    BY LenProperties, ElementOfSeq DEF TypeOK, BufferTypes
  <2>4. /\ SubSeq(waiting_txns, 1, k) \in Seq(BufferIds)
        /\ Len(SubSeq(waiting_txns, 1, k)) = k
        /\ SubSeq(waiting_txns, k + 1, Len(waiting_txns)) \in Seq(BufferIds)
    BY <2>1, <2>3, SubSeqProperties
  <2>5. LogMutex' /\ HoldsBuffer'
    BY <1>6 DEF Gather, Goto, TypeOK, LogMutex, HoldsBuffer, InLog, pool
  <2>9. BatchFits'
    <3>1. \A u \in Txns \ {t} : batch'[u] = batch[u] /\ pc'[u] = pc[u]
      BY <1>6, <2>2 DEF Gather, Goto, TypeOK, BufferTypes
    <3> QED
      BY <1>6, <3>1 DEF Gather, Goto, TypeOK, BatchFits, config, shared
  <2>6. BufferTypes'
    BY <1>6, <2>2, <2>4, ZenonT(60) DEF Gather, TypeOK, BufferTypes, BufferIds, pool
  <2>7. SharedTypes' /\ HandleTypes' /\ FileTypes'
    BY <1>6 DEF Gather, TypeOK, SharedTypes, HandleTypes, FileTypes, config, shared,
       handles, files, faults
  <2>8. pc' \in [Txns -> Points] /\ lsn' \in [Txns -> Nat]
    BY <1>6 DEF Gather, Goto, TypeOK, Points
  <2> QED
    BY <2>5, <2>6, <2>7, <2>8, <2>9 DEF Locking, TypeOK
<1>7. ASSUME NEW t \in Txns, WriteBatch(t)
      PROVE  Locking'
  <2> DEFINE k == Len(batch[t])
  <2>1. k \in Nat /\ \A i \in 1..k : batch[t][i] \in BufferIds
    BY LenProperties, ElementOfSeq DEF TypeOK, BufferTypes
  <2>2. \A i \in 1..k : buffers[batch[t][i]] \in Rec
    BY <2>1, <1>l, ElementOfSeq DEF TypeOK, BufferTypes
  <2>3. Bytes(t) \in Nat /\ log_len + Bytes(t) \in Nat /\ WriteOffset(Home[t]) + Bytes(t) \in Nat
    BY BytesType DEF TypeOK, SharedTypes
  <2>4. LogMutex' /\ BatchFits' /\ HoldsBuffer'
    BY <1>7 DEF WriteBatch, Goto, TypeOK, BufferTypes, LogMutex, BatchFits, HoldsBuffer,
       InLog, config, pool
  <2>5. SharedTypes'
    <3>0. k # 0 => buffers[batch[t][k]].lsn \in Nat
      <4>1. k # 0 => k \in 1..k
        BY <2>1
      <4> QED
        BY <2>2, <4>1
    <3>1. last_write' \in Nat
      BY <1>7, <3>0 DEF WriteBatch, TypeOK, SharedTypes
    <3> QED
      BY <1>7, <2>3, <3>1 DEF WriteBatch, TypeOK, SharedTypes, config
  <2>6. BufferTypes'
    <3>1. batch' \in [Txns -> Seq(BufferIds)]
      BY <1>7, EmptySeq DEF WriteBatch, TypeOK, BufferTypes
    <3> QED
      BY <1>7, <3>1 DEF WriteBatch, TypeOK, BufferTypes, BufferIds, pool
  <2>7. HandleTypes'
    BY <1>7, <2>3 DEF WriteBatch, TypeOK, HandleTypes
  <2>8. FileTypes'
    <3>1. Records(t, Bytes(t)) \subseteq LogRecords
      BY <2>3, RecordTypes
    <3> QED
      BY <1>7, <3>1 DEF WriteBatch, Over, TypeOK, FileTypes, faults
  <2>9. pc' \in [Txns -> Points] /\ lsn' \in [Txns -> Nat]
    BY <1>7 DEF WriteBatch, Goto, TypeOK, Points
  <2> QED
    BY <2>4, <2>5, <2>6, <2>7, <2>8, <2>9 DEF Locking, TypeOK
<1>8. ASSUME NEW t \in Txns, WriteFails(t)
      PROVE  Locking'
  <2>1. Bytes(t) \in Nat /\ WriteOffset(Home[t]) \in Nat
    BY BytesType
  <2>2. LogMutex' /\ BatchFits' /\ HoldsBuffer'
    BY <1>8 DEF WriteFails, Goto, TypeOK, BufferTypes, LogMutex, BatchFits, HoldsBuffer,
       InLog, config, shared, pool
  <2>3. SharedTypes'
    BY <1>8 DEF WriteFails, TypeOK, SharedTypes, config, shared
  <2>4. BufferTypes'
    <3>1. batch' \in [Txns -> Seq(BufferIds)]
      BY <1>8, EmptySeq DEF WriteFails, TypeOK, BufferTypes
    <3> QED
      BY <1>8, <3>1 DEF WriteFails, TypeOK, BufferTypes, BufferIds, pool
  <2>5. PICK j \in 0..(Bytes(t) - 1) :
           /\ fp' = [fp EXCEPT ![Home[t]] = WriteOffset(Home[t]) + j]
           /\ disk' \subseteq disk \cup Records(t, j)
    BY <1>8 DEF WriteFails, Over
  <2>6. HandleTypes'
    <3>1. WriteOffset(Home[t]) + j \in Nat
      BY <2>1
    <3>2. fp' \in [Procs -> Nat]
      BY <2>5, <3>1 DEF TypeOK, HandleTypes
    <3> QED
      BY <1>8, <3>2 DEF WriteFails, TypeOK, HandleTypes
  <2>7. FileTypes'
    <3>1. Records(t, j) \subseteq LogRecords
      BY <2>1, RecordTypes
    <3> QED
      BY <1>8, <2>5, <3>1 DEF WriteFails, TypeOK, FileTypes
  <2>8. pc' \in [Txns -> Points] /\ lsn' \in [Txns -> Nat]
    BY <1>8 DEF WriteFails, Goto, TypeOK, Points
  <2> QED
    BY <2>2, <2>3, <2>4, <2>6, <2>7, <2>8 DEF Locking, TypeOK
<1>9. ASSUME NEW t \in Txns, LeaveLog(t)
      PROVE  Locking'
  <2>1. LogMutex' /\ BatchFits' /\ HoldsBuffer'
    BY <1>9 DEF LeaveLog, Covered, Goto, TypeOK, LogMutex, BatchFits, HoldsBuffer,
       InLog, config, pool
  <2>2. SharedTypes' /\ BufferTypes' /\ HandleTypes'
    BY <1>9 DEF LeaveLog, Covered, SyncLog, TypeOK, SharedTypes, BufferTypes, BufferIds,
       HandleTypes, config, pool, handles
  <2>3. FileTypes'
    BY <1>9 DEF LeaveLog, Covered, SyncLog, TypeOK, FileTypes, faults
  <2>4. pc' \in [Txns -> Points] /\ lsn' \in [Txns -> Nat]
    BY <1>9 DEF LeaveLog, Covered, Goto, TypeOK, Points
  <2> QED
    BY <2>1, <2>2, <2>3, <2>4 DEF Locking, TypeOK
<1>10. ASSUME NEW t \in Txns, Complete(t)
      PROVE  Locking'
  <2>1. LogMutex' /\ BatchFits' /\ HoldsBuffer'
    BY <1>10 DEF Complete, Goto, TypeOK, BufferTypes, LogMutex, BatchFits, HoldsBuffer,
       InLog, config, shared
  <2>2. SharedTypes' /\ HandleTypes' /\ FileTypes'
    BY <1>10 DEF Complete, TypeOK, SharedTypes, HandleTypes, FileTypes, config, shared,
       handles, files, faults
  <2>3. BufferTypes'
    <3>1. buffer[t] \in BufferIds
      BY <1>10 DEF Complete, HoldsBuffer, TypeOK, BufferTypes
    <3>2. <<buffer[t]>> \in Seq(BufferIds)
      BY <3>1
    <3>3. buffer_queue' \in Seq(BufferIds)
      BY <1>10, <3>2, ConcatProperties DEF Complete, TypeOK, BufferTypes
    <3> QED
      BY <1>10, <3>3 DEF Complete, TypeOK, BufferTypes, BufferIds
  <2>4. pc' \in [Txns -> Points] /\ lsn' \in [Txns -> Nat]
    BY <1>10 DEF Complete, Goto, TypeOK, Points
  <2> QED
    BY <2>1, <2>2, <2>3, <2>4 DEF Locking, TypeOK
<1>11. ASSUME NEW t \in Txns, Rollback(t)
      PROVE  Locking'
  <2>1. LogMutex' /\ BatchFits' /\ HoldsBuffer'
    BY <1>11 DEF Rollback, Goto, TypeOK, LogMutex, BatchFits, HoldsBuffer, InLog,
       config, pool, shared
  <2>2. SharedTypes' /\ BufferTypes' /\ HandleTypes' /\ FileTypes'
    BY <1>11 DEF Rollback, TypeOK, SharedTypes, BufferTypes, BufferIds, HandleTypes,
       FileTypes, config, shared, pool, handles, files, faults
  <2>3. pc' \in [Txns -> Points] /\ lsn' \in [Txns -> Nat]
    BY <1>11 DEF Rollback, Goto, TypeOK, Points
  <2> QED
    BY <2>1, <2>2, <2>3 DEF Locking, TypeOK
<1>12. ASSUME NEW t \in Txns, CommitDiskless(t)
      PROVE  Locking'
  <2>1. LogMutex' /\ BatchFits' /\ HoldsBuffer'
    BY <1>12 DEF CommitDiskless, Goto, TypeOK, LogMutex, BatchFits, HoldsBuffer, InLog,
       config, shared
  <2>2. SharedTypes' /\ HandleTypes' /\ FileTypes'
    BY <1>12 DEF CommitDiskless, TypeOK, SharedTypes, HandleTypes, FileTypes, config,
       shared, handles, files, faults
  <2>3. ASSUME buffer_queue = <<>>
        PROVE  BufferTypes'
    <3> DEFINE e == [txn |-> t, lsn |-> 0]
    <3>1. e \in Rec /\ buffers' = Append(buffers, e)
      BY <1>12, <2>3 DEF CommitDiskless
    <3>2. buffers \in Seq(Rec)
      BY DEF TypeOK, BufferTypes
    <3> HIDE DEF e, Rec
    <3>3. buffers' \in Seq(Rec) /\ Len(buffers') = Len(buffers) + 1
      BY <3>1, <3>2, AppendProperties
    <3> USE DEF Rec
    <3>4. BufferIds \subseteq BufferIds' /\ Len(buffers) + 1 \in BufferIds'
      BY <1>l, <3>3 DEF BufferIds
    <3>5. Seq(BufferIds) \subseteq Seq(BufferIds')
      BY <3>4, SeqMonotonic
    <3>6. buffer_queue' \in Seq(BufferIds')
      <4>1. buffer_queue' = <<Len(buffers) + 1>>
        BY <1>12, <2>3 DEF CommitDiskless
      <4> QED
        BY <3>4, <4>1
    <3>7. /\ buffer' \in [Txns -> {NoBuffer} \cup BufferIds']
          /\ waiting_txns' \in Seq(BufferIds')
          /\ batch' \in [Txns -> Seq(BufferIds')]
      BY <1>12, <3>4, <3>5 DEF CommitDiskless, TypeOK, BufferTypes
    <3> QED
      BY <3>3, <3>6, <3>7 DEF BufferTypes
  <2>4. ASSUME buffer_queue # <<>>
        PROVE  BufferTypes'
    BY <1>12, <2>4 DEF CommitDiskless, TypeOK, BufferTypes, BufferIds
  <2>5. pc' \in [Txns -> Points] /\ lsn' \in [Txns -> Nat]
    BY <1>12 DEF CommitDiskless, Goto, TypeOK, Points
  <2> QED
    BY <2>1, <2>2, <2>3, <2>4, <2>5 DEF Locking, TypeOK
<1>13. ASSUME CheckpointAdvance
      PROVE  Locking'
  <2>1. LogMutex' /\ BatchFits' /\ HoldsBuffer'
    BY <1>13 DEF CheckpointAdvance, TypeOK, LogMutex, BatchFits, HoldsBuffer, InLog,
       config, pool
  <2>2. SharedTypes'
    BY <1>13 DEF CheckpointAdvance, NewName, TypeOK, SharedTypes, config
  <2>3. BufferTypes' /\ HandleTypes' /\ FileTypes'
    BY <1>13 DEF CheckpointAdvance, TypeOK, BufferTypes, BufferIds, HandleTypes,
       FileTypes, pool, handles, files, faults
  <2>4. pc' \in [Txns -> Points] /\ lsn' \in [Txns -> Nat]
    BY <1>13 DEF CheckpointAdvance, TypeOK
  <2> QED
    BY <2>1, <2>2, <2>3, <2>4 DEF Locking, TypeOK
<1>14. ASSUME NEW p \in Procs, CheckpointSync(p)
      PROVE  Locking'
  <2>1. LogMutex' /\ BatchFits' /\ HoldsBuffer'
    BY <1>14 DEF CheckpointSync, TypeOK, LogMutex, BatchFits, HoldsBuffer, InLog,
       config, pool
  <2>2. SharedTypes' /\ BufferTypes' /\ HandleTypes'
    BY <1>14 DEF CheckpointSync, SyncLog, TypeOK, SharedTypes, BufferTypes, BufferIds,
       HandleTypes, config, pool, handles
  <2>3. FileTypes'
    BY <1>14 DEF CheckpointSync, SyncLog, TypeOK, FileTypes, faults
  <2>4. pc' \in [Txns -> Points] /\ lsn' \in [Txns -> Nat]
    BY <1>14 DEF CheckpointSync, TypeOK
  <2> QED
    BY <2>1, <2>2, <2>3, <2>4 DEF Locking, TypeOK
<1>15. CASE UNCHANGED vars
  BY <1>15 DEF Locking, TypeOK, SharedTypes, BufferTypes, BufferIds, HandleTypes,
     FileTypes, LogMutex, BatchFits, HoldsBuffer, vars, config, shared, pool, handles,
     files, faults
<1> QED
  BY <1>1, <1>2, <1>3, <1>4, <1>5, <1>6, <1>7, <1>8, <1>9, <1>10, <1>11, <1>12, <1>13,
     <1>14, <1>15, <1>16
     DEF Next, Commit, Fault, Recourse

-----------------------------------------------------------------------------
\* The queue and the owners of its buffers

\* Pending is a sequence of buffers: those being written, then those that wait.
LEMMA PendingShape ==
    ASSUME Locking
    PROVE  /\ Writing \in Seq(BufferIds) /\ Len(Writing) \in Nat
           /\ Pending \in Seq(BufferIds)
           /\ Len(Pending) \in Nat /\ Len(Pending) = Len(Writing) + Len(waiting_txns)
           /\ \A i \in 1..Len(Pending) : Pending[i] \in BufferIds
<1>1. Writing \in Seq(BufferIds)
  BY EmptySeq DEF Writing, Locking, TypeOK, SharedTypes, BufferTypes
<1>2. waiting_txns \in Seq(BufferIds)
  BY DEF Locking, TypeOK, BufferTypes
<1>3. Pending \in Seq(BufferIds) /\ Len(Pending) = Len(Writing) + Len(waiting_txns)
  BY <1>1, <1>2, ConcatProperties DEF Pending
<1> QED
  BY <1>1, <1>3, LenProperties, ElementOfSeq

\* When the batch of the thread that writes is dropped, the rest moves up.
LEMMA BatchDone ==
    ASSUME Locking, NEW t \in Txns, pc[t] = "write",
           batch'[t] = <<>>, file_mutex' \in {t, NoTxn}, UNCHANGED waiting_txns
    PROVE  /\ Writing = batch[t] /\ Len(batch[t]) \in Nat
           /\ Pending' = waiting_txns
           /\ Len(Pending) = Len(batch[t]) + Len(Pending') /\ Len(Pending') \in Nat
           /\ \A i \in 1..Len(batch[t]) : Pending[i] = batch[t][i]
           /\ \A i \in 1..Len(Pending') : Pending'[i] = Pending[Len(batch[t]) + i]
<1>1. Writing = batch[t]
  BY NoTxnAssumption DEF Writing, Locking, LogMutex, InLog
<1>2. Writing' = <<>>
  BY NoTxnAssumption DEF Writing
<1>3. waiting_txns \in Seq(BufferIds) /\ Len(waiting_txns) \in Nat
  BY LenProperties DEF Locking, TypeOK, BufferTypes
<1>4. Pending' = waiting_txns
  BY <1>2, <1>3, ConcatEmptySeq DEF Pending
<1>5. batch[t] \in Seq(BufferIds) /\ Len(batch[t]) \in Nat
  BY LenProperties DEF Locking, TypeOK, BufferTypes
<1>6. /\ Len(Pending) = Len(batch[t]) + Len(waiting_txns)
      /\ \A i \in 1..(Len(batch[t]) + Len(waiting_txns)) :
            Pending[i] = IF i <= Len(batch[t]) THEN batch[t][i]
                                               ELSE waiting_txns[i - Len(batch[t])]
  BY <1>1, <1>3, <1>5, ConcatProperties DEF Pending
<1>7. \A i \in 1..Len(waiting_txns) :
         /\ Len(batch[t]) + i \in 1..(Len(batch[t]) + Len(waiting_txns))
         /\ ~(Len(batch[t]) + i <= Len(batch[t]))
         /\ Len(batch[t]) + i - Len(batch[t]) = i
  BY <1>3, <1>5
<1>8. \A i \in 1..Len(batch[t]) :
         i \in 1..(Len(batch[t]) + Len(waiting_txns)) /\ i <= Len(batch[t])
  BY <1>3, <1>5
<1>9. \A i \in 1..Len(batch[t]) : Pending[i] = batch[t][i]
  BY <1>6, <1>8
<1>10. ASSUME NEW i \in 1..Len(waiting_txns)
       PROVE  waiting_txns[i] = Pending[Len(batch[t]) + i]
  <2> DEFINE n == Len(batch[t]) + i
  <2>1. /\ n \in 1..(Len(batch[t]) + Len(waiting_txns)) /\ ~(n <= Len(batch[t]))
        /\ n - Len(batch[t]) = i
    BY <1>7
  <2> HIDE DEF n
  <2>2. Pending[n] = waiting_txns[n - Len(batch[t])]
    BY <1>6, <2>1
  <2>3. Pending[n] = waiting_txns[i]
    BY <2>1, <2>2
  <2> QED
    BY <2>3 DEF n
<1> QED
  BY <1>1, <1>3, <1>4, <1>5, <1>6, <1>9, <1>10

Queueing == Locking /\ QueueInOrder /\ BufferOwnership /\ FilledContent

\* A new region has nothing queued and owns no buffer.
LEMMA InitQueueing == Init => Queueing
<1> SUFFICES ASSUME Init
             PROVE  Queueing
  OBVIOUS
<1>1. Pending = <<>> /\ Len(Pending) = 0
  BY EmptySeq, ConcatEmptySeq DEF Init, Pending, Writing
<1>2. QueueInOrder
  BY <1>1 DEF Init, QueueInOrder
<1>3. BufferOwnership
  BY <1>1, EmptySeq DEF Init, BufferOwnership, HeldByOne, FreeIsUnheld, PendingIsHeld
<1> QED
  BY <1>2, <1>3, InitLocking DEF Init, Queueing, FilledContent

\* A step that changes no buffer and leaves the pending ones as they are: it only
\* moves a transaction to a point at which it may own one of these, or moves
\* buffers from the queue to a batch.
Quiet ==
    /\ UNCHANGED <<next_lsn, last_write, pool, lsn, write_faults>>
    /\ Pending' = Pending
    /\ \A u \in Txns :
          \/ pc'[u] = pc[u]
          \/ pc'[u] \notin {"begin", "filled"} \cup Returned

\* A step that leaves the buffers, the queue and what is being written alone
\* keeps the buffers where they are.
LEMMA QuietStep ==
    ASSUME Queueing, Quiet
    PROVE  QueueInOrder' /\ BufferOwnership' /\ FilledContent'
<1>1. QueueInOrder'
  BY DEF Queueing, QueueInOrder, Quiet, pool
<1>2. HeldByOne' /\ FreeIsUnheld'
  BY DEF Queueing, BufferOwnership, HeldByOne, FreeIsUnheld, Quiet, pool
<1>3. PendingIsHeld'
  BY DEF Queueing, BufferOwnership, PendingIsHeld, Quiet, pool
<1>4. FilledContent'
  BY DEF Queueing, FilledContent, Quiet, pool
<1> QED
  BY <1>1, <1>2, <1>3, <1>4 DEF BufferOwnership

\* Every step of every thread keeps the queue in order and its buffers owned.
LEMMA NextQueueing == Queueing /\ [Next]_vars => Queueing'
<1> SUFFICES ASSUME Queueing, [Next]_vars
             PROVE  QueueInOrder' /\ BufferOwnership' /\ FilledContent'
  BY NextLocking DEF Queueing
<1>a. Locking /\ Locking' /\ QueueInOrder /\ BufferOwnership /\ FilledContent
  BY NextLocking DEF Queueing
<1> USE <1>a
<1>l. Len(buffers) \in Nat /\ BufferIds = 1..Len(buffers)
  BY LenProperties DEF Locking, TypeOK, BufferTypes, BufferIds
<1>p. /\ \A i \in 1..Len(Pending) : Pending[i] \in BufferIds
      /\ Len(Pending) \in Nat /\ Pending \in Seq(BufferIds)
  BY PendingShape
<1>h. \A i \in 1..Len(Pending) : \E u \in Txns :
         /\ buffer[u] = Pending[i]
         /\ buffers[Pending[i]] = [txn |-> u, lsn |-> lsn[u]]
         /\ pc[u] \notin {"begin", "filled"} \cup Returned
  BY DEF BufferOwnership, PendingIsHeld
<1>1. ASSUME NEW t \in Txns, TakeBuffer(t)
      PROVE  QueueInOrder' /\ BufferOwnership' /\ FilledContent'
  <2> DEFINE b == buffer'[t]
  <2>1. Pending' = Pending
    BY <1>1 DEF TakeBuffer, BuffersLeft, Pending, Writing
  <2>2. /\ \A u \in Txns : buffer[u] # b
        /\ \A c \in BufferIds : c # b => buffers'[c] = buffers[c]
        /\ buffers'[b].txn = t
        /\ b # NoBuffer
    <3>1. CASE buffer_queue # <<>>
      <4>1. /\ 1 \in 1..Len(buffer_queue) /\ Head(buffer_queue) = buffer_queue[1]
            /\ buffer_queue[1] \in BufferIds
        BY <3>1, EmptySeq, LenProperties, ElementOfSeq DEF Locking, TypeOK, BufferTypes
      <4>2. b = buffer_queue[1]
        BY <1>1, <3>1, <4>1 DEF TakeBuffer, BuffersLeft, Locking, TypeOK, BufferTypes
      <4>3. buffers[b] \in [txn : Txns, lsn : Nat]
        BY <1>l, <4>1, <4>2, ElementOfSeq DEF Locking, TypeOK, BufferTypes
      <4>4. buffers' = [buffers EXCEPT ![b] = [buffers[b] EXCEPT !.txn = t]]
        BY <1>1, <3>1, <4>1, <4>2 DEF TakeBuffer, BuffersLeft
      <4>5. \A c \in BufferIds : c # b => buffers'[c] = buffers[c]
        BY <4>4, <1>l DEF Locking, TypeOK, BufferTypes
      <4>6. buffers'[b].txn = t
        BY <4>1, <4>2, <4>3, <4>4, <1>l DEF Locking, TypeOK, BufferTypes
      <4>7. b # NoBuffer
        BY <4>1, <4>2, <1>l DEF NoBuffer
      <4> QED
        BY <4>1, <4>2, <4>5, <4>6, <4>7 DEF BufferOwnership, FreeIsUnheld
    <3>2. CASE buffer_queue = <<>>
      <4>1. b = Len(buffers) + 1
        BY <1>1, <3>2 DEF TakeBuffer, BuffersLeft, Locking, TypeOK, BufferTypes
      <4>2. buffers' = Append(buffers, [txn |-> t, lsn |-> 0])
        BY <1>1, <3>2 DEF TakeBuffer, BuffersLeft
      <4>3. b \notin BufferIds /\ b # NoBuffer
        BY <4>1, <1>l DEF NoBuffer
      <4>4. \A u \in Txns : buffer[u] # b
        BY <4>3 DEF Locking, TypeOK, BufferTypes
      <4>5. /\ \A c \in BufferIds : buffers'[c] = buffers[c]
            /\ buffers'[b] = [txn |-> t, lsn |-> 0]
        BY <4>1, <4>2, <1>l DEF Locking, TypeOK, BufferTypes
      <4> QED
        BY <4>3, <4>4, <4>5
    <3> QED
      BY <3>1, <3>2
  <2>3. \A i \in 1..Len(Pending) : Pending[i] \in BufferIds /\ Pending[i] # b
    <3> SUFFICES ASSUME NEW i \in 1..Len(Pending)
                 PROVE  Pending[i] # b
      BY <1>p
    <3>1. PICK u \in Txns : buffer[u] = Pending[i]
      BY <1>h
    <3> QED
      BY <2>2, <3>1
  <2>4. \A i \in 1..Len(Pending) : buffers'[Pending[i]] = buffers[Pending[i]]
    BY <2>2, <2>3
  <2>5. QueueInOrder'
    BY <1>1, <2>1, <2>4 DEF TakeBuffer, BuffersLeft, QueueInOrder, shared, faults
  <2>6. HeldByOne'
    <3>1. \A u \in Txns : u # t => buffer'[u] = buffer[u]
      BY <1>1 DEF TakeBuffer, BuffersLeft, Locking, TypeOK, BufferTypes
    <3> QED
      BY <2>2, <3>1 DEF BufferOwnership, HeldByOne
  <2>7. FreeIsUnheld'
    <3>1. CASE buffer_queue # <<>>
      <4>1. /\ buffer_queue' = Tail(buffer_queue) /\ b = Head(buffer_queue)
            /\ \A u \in Txns : u # t => buffer'[u] = buffer[u]
        BY <1>1, <3>1 DEF TakeBuffer, BuffersLeft, Locking, TypeOK, BufferTypes
      <4>2. Len(buffer_queue') = Len(buffer_queue) - 1 /\ Len(buffer_queue) \in Nat
        BY <3>1, <4>1, HeadTailProperties, LenProperties DEF Locking, TypeOK, BufferTypes
      <4>3. \A i \in 1..Len(buffer_queue') : buffer_queue'[i] = buffer_queue[i + 1]
        BY <3>1, <4>1, HeadTailProperties DEF Locking, TypeOK, BufferTypes
      <4>4. b = buffer_queue[1] /\ 1 \in 1..Len(buffer_queue)
        BY <3>1, <4>1, <4>2, EmptySeq DEF Locking, TypeOK, BufferTypes
      <4>5. \A i \in 1..Len(buffer_queue') : i + 1 \in 1..Len(buffer_queue) /\ i + 1 # 1
        BY <4>2
      <4>6. /\ \A i \in 1..Len(buffer_queue) : \A u \in Txns : buffer[u] # buffer_queue[i]
            /\ \A i, j \in 1..Len(buffer_queue) : buffer_queue[i] = buffer_queue[j] => i = j
        BY DEF BufferOwnership, FreeIsUnheld
      <4>7. \A i \in 1..Len(buffer_queue') : \A u \in Txns : buffer'[u] # buffer_queue'[i]
        BY <4>1, <4>3, <4>4, <4>5, <4>6
      <4>8. \A i, j \in 1..Len(buffer_queue') : buffer_queue'[i] = buffer_queue'[j] => i = j
        <5>1. \A i, j \in 1..Len(buffer_queue') : buffer_queue'[i] = buffer_queue'[j] => i + 1 = j + 1
          BY <4>3, <4>5, <4>6
        <5> QED
          BY <5>1
      <4> QED
        BY <4>7, <4>8 DEF FreeIsUnheld
    <3>2. CASE buffer_queue = <<>>
      <4>1. buffer_queue' = <<>>
        BY <1>1, <3>2 DEF TakeBuffer, BuffersLeft
      <4> QED
        BY <4>1, EmptySeq DEF FreeIsUnheld
    <3> QED
      BY <3>1, <3>2
  <2>8. PendingIsHeld'
    <3>1. \A u \in Txns : u # t => buffer'[u] = buffer[u] /\ pc'[u] = pc[u] /\ lsn'[u] = lsn[u]
      BY <1>1 DEF TakeBuffer, BuffersLeft, Goto, Locking, TypeOK, BufferTypes
    <3>2. pc[t] = "begin"
      BY <1>1 DEF TakeBuffer, BuffersLeft
    <3>3. ASSUME NEW i \in 1..Len(Pending)
          PROVE  \E u \in Txns :
                    /\ buffer'[u] = Pending[i]
                    /\ buffers'[Pending[i]] = [txn |-> u, lsn |-> lsn'[u]]
                    /\ pc'[u] \notin {"begin", "filled"} \cup Returned
      <4>1. PICK u \in Txns : /\ buffer[u] = Pending[i]
                              /\ buffers[Pending[i]] = [txn |-> u, lsn |-> lsn[u]]
                              /\ pc[u] \notin {"begin", "filled"} \cup Returned
        BY <1>h
      <4>2. u # t
        BY <3>2, <4>1
      <4> QED
        BY <2>4, <3>1, <4>1, <4>2
    <3> QED
      BY <2>1, <3>3 DEF PendingIsHeld
  <2>9. FilledContent'
    <3>1. \A u \in Txns : u # t => buffer'[u] = buffer[u] /\ pc'[u] = pc[u]
      BY <1>1 DEF TakeBuffer, BuffersLeft, Goto, Locking, TypeOK, BufferTypes
    <3>2. \A u \in Txns : pc[u] = "filled" => buffer[u] \in BufferIds
      BY DEF Locking, TypeOK, BufferTypes, HoldsBuffer
    <3> QED
      BY <2>2, <3>1, <3>2 DEF FilledContent
  <2> QED
    BY <2>5, <2>6, <2>7, <2>8, <2>9 DEF BufferOwnership
<1>2. ASSUME NEW t \in Txns, QueueForCommit(t)
      PROVE  QueueInOrder' /\ BufferOwnership' /\ FilledContent'
  <2> DEFINE b == buffer[t]
  <2>1. b \in BufferIds /\ b # NoBuffer /\ pc[t] = "filled" /\ buffers[b].txn = t
    BY <1>2 DEF QueueForCommit, Enqueued, Locking, HoldsBuffer, TypeOK, BufferTypes,
       FilledContent
  <2>2. buffers[b] \in [txn : Txns, lsn : Nat]
    BY <1>l, <2>1, ElementOfSeq DEF Locking, TypeOK, BufferTypes
  <2>3. buffers' = [buffers EXCEPT ![b] = [buffers[b] EXCEPT !.lsn = next_lsn]]
    BY <1>2 DEF QueueForCommit, Enqueued
  <2>4. /\ \A c \in BufferIds : c # b => buffers'[c] = buffers[c]
        /\ buffers'[b] = [txn |-> t, lsn |-> next_lsn]
    <3> DEFINE e == [buffers[b] EXCEPT !.lsn = next_lsn]
    <3>1. e = [txn |-> t, lsn |-> next_lsn]
      BY <2>1, <2>2
    <3>2. e \in [txn : Txns, lsn : Nat]
      BY <3>1 DEF Locking, TypeOK, SharedTypes
    <3>3. buffers' = [buffers EXCEPT ![b] = e]
      BY <2>3
    <3> HIDE DEF e
    <3> QED
      BY <1>l, <2>1, <3>1, <3>2, <3>3, ExceptSeq DEF Locking, TypeOK, BufferTypes
  <2>5. Pending' = Append(Pending, b)
    <3>1. Writing' = Writing
      BY <1>2 DEF QueueForCommit, Enqueued, Writing
    <3>2. waiting_txns' = Append(waiting_txns, b)
      BY <1>2 DEF QueueForCommit, Enqueued
    <3>3. Writing \in Seq(BufferIds) /\ waiting_txns \in Seq(BufferIds)
      BY PendingShape DEF Locking, TypeOK, BufferTypes
    <3> QED
      BY <2>1, <3>1, <3>2, <3>3 DEF Pending
  <2>6. /\ Len(Pending') = Len(Pending) + 1 /\ Len(Pending) \in Nat
        /\ \A i \in 1..Len(Pending) : Pending'[i] = Pending[i]
        /\ Pending'[Len(Pending) + 1] = b
    BY <2>1, <2>5, PendingShape, AppendProperties
  <2>7. \A i \in 1..Len(Pending) : Pending[i] \in BufferIds /\ Pending[i] # b
    <3> SUFFICES ASSUME NEW i \in 1..Len(Pending)
                 PROVE  Pending[i] # b
      BY <1>p
    <3>1. PICK u \in Txns : buffer[u] = Pending[i] /\ pc[u] # "filled"
      BY <1>h
    <3> QED
      BY <2>1, <3>1 DEF BufferOwnership, HeldByOne
  <2>8. \A i \in 1..Len(Pending') : i \in 1..Len(Pending) \/ i = Len(Pending) + 1
    BY <2>6
  <2>9. QueueInOrder'
    <3>1. next_lsn' = next_lsn + 1 /\ last_write' = last_write /\ write_faults' = write_faults
      BY <1>2 DEF QueueForCommit, Enqueued, faults
    <3>2. next_lsn \in Nat /\ last_write \in Nat
      BY DEF Locking, TypeOK, SharedTypes
    <3>3. \A i \in 1..Len(Pending) : buffers'[Pending'[i]].lsn = next_lsn - 1 - Len(Pending) + i
      BY <2>4, <2>6, <2>7 DEF QueueInOrder
    <3>4. buffers'[Pending'[Len(Pending) + 1]].lsn = next_lsn
      BY <2>4, <2>6
    <3>5. ASSUME NEW i \in 1..Len(Pending')
          PROVE  buffers'[Pending'[i]].lsn = next_lsn' - 1 - Len(Pending') + i
      <4>1. next_lsn' - 1 - Len(Pending') = next_lsn - 1 - Len(Pending)
        BY <2>6, <3>1, <3>2
      <4>2. CASE i \in 1..Len(Pending)
        BY <3>3, <4>1, <4>2
      <4>3. CASE i = Len(Pending) + 1
        BY <2>6, <3>2, <3>4, <4>1, <4>3
      <4> QED
        BY <2>8, <4>2, <4>3
    <3>6. last_write' + Len(Pending') = last_write + Len(Pending) + 1
      BY <2>6, <3>1, <3>2
    <3> QED
      BY <2>6, <3>1, <3>2, <3>5, <3>6 DEF QueueInOrder
  <2>10. /\ UNCHANGED <<buffer, buffer_queue>>
         /\ pc'[t] = "queued" /\ lsn'[t] = next_lsn
         /\ \A u \in Txns : u # t => pc'[u] = pc[u] /\ lsn'[u] = lsn[u]
    BY <1>2 DEF QueueForCommit, Enqueued, Goto, Locking, TypeOK
  <2>11. HeldByOne' /\ FreeIsUnheld'
    BY <2>10 DEF BufferOwnership, HeldByOne, FreeIsUnheld
  <2>12. PendingIsHeld'
    <3>1. ASSUME NEW i \in 1..Len(Pending)
          PROVE  \E u \in Txns :
                    /\ buffer'[u] = Pending'[i]
                    /\ buffers'[Pending'[i]] = [txn |-> u, lsn |-> lsn'[u]]
                    /\ pc'[u] \notin {"begin", "filled"} \cup Returned
      <4>1. PICK u \in Txns : /\ buffer[u] = Pending[i]
                              /\ buffers[Pending[i]] = [txn |-> u, lsn |-> lsn[u]]
                              /\ pc[u] \notin {"begin", "filled"} \cup Returned
        BY DEF BufferOwnership, PendingIsHeld
      <4>2. u # t
        BY <2>1, <4>1
      <4> QED
        BY <2>4, <2>6, <2>7, <2>10, <4>1, <4>2
    <3>2. /\ buffer'[t] = Pending'[Len(Pending) + 1]
          /\ buffers'[Pending'[Len(Pending) + 1]] = [txn |-> t, lsn |-> lsn'[t]]
          /\ pc'[t] \notin {"begin", "filled"} \cup Returned
      BY <2>4, <2>6, <2>10 DEF Returned
    <3> QED
      BY <2>8, <3>1, <3>2 DEF PendingIsHeld
  <2>13. FilledContent'
    <3>1. \A u \in Txns : pc[u] = "filled" /\ u # t => buffer[u] \in BufferIds /\ buffer[u] # b
      BY <2>1 DEF BufferOwnership, HeldByOne, Locking, TypeOK, BufferTypes, HoldsBuffer
    <3> QED
      BY <2>4, <2>10, <3>1 DEF FilledContent
  <2> QED
    BY <2>9, <2>11, <2>12, <2>13 DEF BufferOwnership
<1>16. ASSUME NEW t \in Txns, QueueRefuses(t)
      PROVE  Quiet
  <2>1. Pending' = Pending
    BY <1>16 DEF QueueRefuses, Pending, Writing
  <2> QED
    BY <1>16, <2>1 DEF QueueRefuses, Goto, Quiet, Returned, Locking, TypeOK, shared, faults
<1>3. ASSUME NEW t \in Txns, EnterLog(t)
      PROVE  Quiet
  <2>1. Writing' = Writing
    BY <1>3 DEF EnterLog, Writing, Locking, BatchFits, LogMutex, InLog
  <2> QED
    BY <1>3, <2>1 DEF EnterLog, Goto, Quiet, Pending, Returned, Locking, TypeOK, shared,
       pool, faults
<1>4. ASSUME NEW t \in Txns, EnsureOpen(t)
      PROVE  Quiet
  <2>1. Writing' = Writing
    BY <1>4 DEF EnsureOpen, Writing
  <2> QED
    BY <1>4, <2>1 DEF EnsureOpen, Goto, Quiet, Pending, Returned, Locking, TypeOK, pool,
       faults
<1>5. ASSUME NEW t \in Txns, OpenFails(t)
      PROVE  Quiet
  <2>1. Writing = <<>> /\ Writing' = <<>>
    BY <1>5 DEF OpenFails, Writing, Locking, BatchFits, LogMutex, InLog
  <2> QED
    BY <1>5, <2>1 DEF OpenFails, Goto, Quiet, Pending, Returned, Locking, TypeOK, pool
<1>6. ASSUME NEW t \in Txns, Gather(t)
      PROVE  Quiet
  <2> DEFINE k == GatherCount
  <2>1. k \in 0..Len(waiting_txns)
    BY GatherCountBounds DEF Locking
  <2>2. /\ batch'[t] = SubSeq(waiting_txns, 1, k)
        /\ waiting_txns' = SubSeq(waiting_txns, k + 1, Len(waiting_txns))
    BY <1>6 DEF Gather, Locking, TypeOK, BufferTypes
  <2> HIDE DEF k
  <2>3. file_mutex = t /\ file_mutex' = t /\ t # NoTxn /\ batch[t] = <<>>
    BY <1>6, NoTxnAssumption DEF Gather, Locking, LogMutex, BatchFits, InLog
  <2>4. waiting_txns \in Seq(BufferIds) /\ Len(waiting_txns) \in Nat
    BY LenProperties DEF Locking, TypeOK, BufferTypes
  <2>5. Pending = waiting_txns
    BY <2>3, <2>4, ConcatEmptySeq DEF Pending, Writing
  <2>6. SubSeq(waiting_txns, 1, k) \o SubSeq(waiting_txns, k + 1, Len(waiting_txns)) = waiting_txns
    <3>1. /\ 1 \in 1..(Len(waiting_txns) + 1) /\ k \in (1 - 1)..Len(waiting_txns)
          /\ Len(waiting_txns) \in k..Len(waiting_txns)
      BY <2>1, <2>4
    <3>2. SubSeq(waiting_txns, 1, k) \o SubSeq(waiting_txns, k + 1, Len(waiting_txns))
            = SubSeq(waiting_txns, 1, Len(waiting_txns))
      BY <2>4, <3>1, ConcatAdjacentSubSeq
    <3> QED
      BY <2>4, <3>2, SubSeqFull
  <2>7. Pending' = Pending
    BY <2>2, <2>3, <2>5, <2>6 DEF Pending, Writing
  <2> QED
    BY <1>6, <2>7 DEF Gather, Goto, Quiet, Returned, Locking, TypeOK, shared, pool, faults
<1>7. ASSUME NEW t \in Txns, WriteBatch(t) \/ WriteFails(t)
      PROVE  QueueInOrder' /\ BufferOwnership' /\ FilledContent'
  <2> DEFINE k == Len(batch[t])
  <2>1. /\ pc[t] = "write" /\ pc'[t] \in {"loop", "failed"} /\ batch'[t] = <<>>
        /\ UNCHANGED <<waiting_txns, next_lsn, pool, lsn>>
        /\ \A u \in Txns : u # t => pc'[u] = pc[u]
    BY <1>7 DEF WriteBatch, WriteFails, Goto, Locking, TypeOK, BufferTypes, shared
  <2>2. file_mutex' \in {t, NoTxn}
    BY <1>7, <2>1 DEF WriteBatch, WriteFails, Locking, LogMutex, InLog
  <2>3. /\ k \in Nat /\ Len(Pending') \in Nat
        /\ Len(Pending) = k + Len(Pending')
        /\ \A i \in 1..k : Pending[i] = batch[t][i]
        /\ \A i \in 1..Len(Pending') : Pending'[i] = Pending[k + i]
    BY <2>1, <2>2, BatchDone
  <2> HIDE DEF k
  <2>4. \A i \in 1..Len(Pending') : k + i \in 1..Len(Pending)
    BY <2>3
  <2>5. next_lsn \in Nat /\ last_write \in Nat
    BY DEF Locking, TypeOK, SharedTypes
  <2>6. \A i \in 1..Len(Pending') :
           buffers'[Pending'[i]].lsn = next_lsn' - 1 - Len(Pending') + i
    <3> SUFFICES ASSUME NEW i \in 1..Len(Pending')
                 PROVE  buffers[Pending[k + i]].lsn = next_lsn - 1 - Len(Pending') + i
      BY <2>1, <2>3 DEF pool
    <3>1. buffers[Pending[k + i]].lsn = next_lsn - 1 - Len(Pending) + (k + i)
      BY <2>4 DEF QueueInOrder
    <3> QED
      BY <2>3, <2>5, <3>1
  <2>7. QueueInOrder'
    <3>1. CASE WriteFails(t)
      <4>1. last_write' = last_write /\ write_faults' # 0 /\ next_lsn' = next_lsn
        BY <3>1 DEF WriteFails, shared, Locking, TypeOK, FileTypes
      <4>2. last_write' + Len(Pending') <= next_lsn' - 1
        BY <2>3, <2>5, <4>1 DEF QueueInOrder
      <4> QED
        BY <2>6, <4>1, <4>2 DEF QueueInOrder
    <3>2. CASE WriteBatch(t)
      <4>1. /\ last_write' = IF k = 0 THEN last_write ELSE buffers[batch[t][k]].lsn
            /\ write_faults' = write_faults /\ next_lsn' = next_lsn
        BY <3>2 DEF WriteBatch, faults, k
      <4>2. CASE k = 0
        BY <2>3, <2>5, <2>6, <4>1, <4>2 DEF QueueInOrder
      <4>3. CASE k # 0
        <5>1. k \in 1..k /\ k \in 1..Len(Pending)
          BY <2>3, <4>3
        <5>2. last_write' = next_lsn - 1 - Len(Pending) + k
          BY <2>3, <4>1, <4>3, <5>1 DEF QueueInOrder
        <5>3. last_write' + Len(Pending') = next_lsn' - 1
          BY <2>3, <2>5, <4>1, <5>2
        <5> QED
          BY <2>3, <2>5, <2>6, <4>1, <5>2, <5>3 DEF QueueInOrder
      <4> QED
        BY <4>2, <4>3
    <3> QED
      BY <1>7, <3>1, <3>2
  <2>8. HeldByOne' /\ FreeIsUnheld' /\ FilledContent'
    BY <2>1 DEF BufferOwnership, HeldByOne, FreeIsUnheld, FilledContent, pool
  <2>9. PendingIsHeld'
    <3> SUFFICES ASSUME NEW i \in 1..Len(Pending')
                 PROVE  \E u \in Txns :
                           /\ buffer[u] = Pending[k + i]
                           /\ buffers[Pending[k + i]] = [txn |-> u, lsn |-> lsn[u]]
                           /\ pc'[u] \notin {"begin", "filled"} \cup Returned
      BY <2>1, <2>3 DEF PendingIsHeld, pool
    <3>1. PICK u \in Txns : /\ buffer[u] = Pending[k + i]
                            /\ buffers[Pending[k + i]] = [txn |-> u, lsn |-> lsn[u]]
                            /\ pc[u] \notin {"begin", "filled"} \cup Returned
      BY <1>h, <2>4
    <3> QED
      BY <2>1, <3>1 DEF Returned
  <2> QED
    BY <2>7, <2>8, <2>9 DEF BufferOwnership
<1>9. ASSUME NEW t \in Txns, LeaveLog(t)
      PROVE  QueueInOrder' /\ BufferOwnership' /\ FilledContent'
  <2>1. Writing = <<>> /\ Writing' = <<>>
    BY <1>9 DEF LeaveLog, Covered, Writing, Locking, BatchFits, LogMutex, InLog
  <2>2. Pending' = Pending
    BY <1>9, <2>1 DEF LeaveLog, Covered, Pending
  <2>3. UNCHANGED <<next_lsn, last_write, pool, lsn, write_faults>>
    BY <1>9 DEF LeaveLog, Covered, faults
  <2>4. /\ lsn[t] <= last_write /\ pc[t] = "loop" /\ pc'[t] = "logged"
        /\ \A u \in Txns : u # t => pc'[u] = pc[u]
    BY <1>9 DEF LeaveLog, Covered, Goto, Locking, TypeOK
  <2>5. QueueInOrder' /\ HeldByOne' /\ FreeIsUnheld' /\ FilledContent'
    BY <2>2, <2>3, <2>4 DEF QueueInOrder, BufferOwnership, HeldByOne, FreeIsUnheld,
       FilledContent, pool
  <2>6. ASSUME NEW i \in 1..Len(Pending), buffers[Pending[i]] = [txn |-> t, lsn |-> lsn[t]]
        PROVE  FALSE
    <3>1. lsn[t] = next_lsn - 1 - Len(Pending) + i
      BY <2>6 DEF QueueInOrder
    <3>2. next_lsn \in Nat /\ last_write \in Nat /\ Len(Pending) \in Nat
      BY PendingShape DEF Locking, TypeOK, SharedTypes
    <3> QED
      BY <2>4, <3>1, <3>2 DEF QueueInOrder
  <2>7. PendingIsHeld'
    BY <2>2, <2>3, <2>4, <2>6 DEF BufferOwnership, PendingIsHeld, pool
  <2> QED
    BY <2>5, <2>7 DEF BufferOwnership
<1>10. ASSUME NEW t \in Txns, Complete(t)
      PROVE  QueueInOrder' /\ BufferOwnership' /\ FilledContent'
  <2> DEFINE b == buffer[t]
  <2>1. Pending' = Pending
    BY <1>10 DEF Complete, Pending, Writing
  <2>2. /\ pc[t] = "logged" /\ pc'[t] = "committed" /\ buffer'[t] = NoBuffer
        /\ b \in BufferIds /\ b # NoBuffer
        /\ buffer_queue' = <<b>> \o buffer_queue
        /\ \A u \in Txns : u # t => pc'[u] = pc[u] /\ buffer'[u] = buffer[u]
        /\ UNCHANGED <<next_lsn, last_write, write_faults, buffers, lsn>>
    BY <1>10 DEF Complete, Goto, Locking, HoldsBuffer, TypeOK, BufferTypes, shared, faults
  <2>3. QueueInOrder'
    BY <2>1, <2>2 DEF QueueInOrder
  <2>4. HeldByOne' /\ FilledContent'
    BY <2>2 DEF BufferOwnership, HeldByOne, FilledContent
  <2>5. FreeIsUnheld'
    <3>1. buffer_queue \in Seq(BufferIds) /\ Len(buffer_queue) \in Nat
      BY LenProperties DEF Locking, TypeOK, BufferTypes
    <3>2. <<b>> \in Seq(BufferIds) /\ Len(<<b>>) = 1 /\ <<b>>[1] = b
      BY <2>2
    <3> HIDE DEF b
    <3>3. /\ Len(buffer_queue') = 1 + Len(buffer_queue)
          /\ \A i \in 1..(1 + Len(buffer_queue)) :
                buffer_queue'[i] = IF i <= 1 THEN <<b>>[i] ELSE buffer_queue[i - 1]
      BY <2>2, <3>1, <3>2, ConcatProperties
    <3>4. \A i \in 1..Len(buffer_queue') :
             \/ i = 1 /\ buffer_queue'[i] = b
             \/ i - 1 \in 1..Len(buffer_queue) /\ buffer_queue'[i] = buffer_queue[i - 1]
      BY <3>1, <3>2, <3>3
    <3>5. /\ \A i \in 1..Len(buffer_queue) : \A u \in Txns : buffer[u] # buffer_queue[i]
          /\ \A i, j \in 1..Len(buffer_queue) : buffer_queue[i] = buffer_queue[j] => i = j
      BY DEF BufferOwnership, FreeIsUnheld
    <3>6. \A i \in 1..Len(buffer_queue) : buffer_queue[i] \in BufferIds /\ buffer_queue[i] # b
      BY <3>1, <3>5, ElementOfSeq DEF b
    <3>7. \A c \in BufferIds : c # NoBuffer
      BY <1>l DEF NoBuffer
    <3>8. \A u \in Txns : buffer'[u] # b
      BY <2>2 DEF BufferOwnership, HeldByOne, b
    <3>9. \A i \in 1..Len(buffer_queue') : \A u \in Txns : buffer'[u] # buffer_queue'[i]
      BY <2>2, <3>4, <3>5, <3>6, <3>7, <3>8
    <3>10. ASSUME NEW i \in 1..Len(buffer_queue'), NEW j \in 1..Len(buffer_queue'),
                  buffer_queue'[i] = buffer_queue'[j]
           PROVE  i = j
      <4>1. CASE i = 1 \/ j = 1
        BY <3>4, <3>6, <3>10, <4>1
      <4>2. CASE i # 1 /\ j # 1
        <5>1. i - 1 = j - 1
          BY <3>4, <3>5, <3>10, <4>2, SMTT(30)
        <5> QED
          BY <5>1
      <4> QED
        BY <4>1, <4>2
    <3> QED
      BY <3>9, <3>10 DEF FreeIsUnheld
  <2>6. PendingIsHeld'
    <3> SUFFICES ASSUME NEW i \in 1..Len(Pending)
                 PROVE  \E u \in Txns :
                           /\ buffer'[u] = Pending[i]
                           /\ buffers'[Pending[i]] = [txn |-> u, lsn |-> lsn'[u]]
                           /\ pc'[u] \notin {"begin", "filled"} \cup Returned
      BY <2>1 DEF PendingIsHeld
    <3>1. PICK u \in Txns : /\ buffer[u] = Pending[i]
                            /\ buffers[Pending[i]] = [txn |-> u, lsn |-> lsn[u]]
                            /\ pc[u] \notin {"begin", "filled"} \cup Returned
      BY <1>h
    <3>2. u # t
      BY <2>2, <3>1 DEF Returned
    <3> QED
      BY <2>2, <3>1, <3>2
  <2> QED
    BY <2>3, <2>4, <2>5, <2>6 DEF BufferOwnership
<1>11. ASSUME NEW t \in Txns, Rollback(t)
      PROVE  Quiet
  <2>1. Pending' = Pending
    BY <1>11 DEF Rollback, Pending, Writing
  <2> QED
    BY <1>11, <2>1 DEF Rollback, Goto, Quiet, Returned, Locking, TypeOK, shared, faults
<1>12. ASSUME NEW t \in Txns, CommitDiskless(t)
      PROVE  QueueInOrder' /\ BufferOwnership' /\ FilledContent'
  <2>1. Pending' = Pending
    BY <1>12 DEF CommitDiskless, Pending, Writing
  <2>2. /\ pc'[t] = "diskless"
        /\ \A u \in Txns : u # t => pc'[u] = pc[u]
        /\ UNCHANGED <<next_lsn, last_write, write_faults, buffer, lsn>>
    BY <1>12 DEF CommitDiskless, Goto, Locking, TypeOK, shared, faults
  <2>3. \A c \in BufferIds : buffers'[c] = buffers[c]
    <3>1. CASE buffer_queue = <<>>
      <4>1. buffers' = Append(buffers, [txn |-> t, lsn |-> 0])
        BY <1>12, <3>1 DEF CommitDiskless
      <4> QED
        BY <1>l, <4>1 DEF Locking, TypeOK, BufferTypes
    <3>2. CASE buffer_queue # <<>>
      BY <1>12, <3>2 DEF CommitDiskless
    <3> QED
      BY <3>1, <3>2
  <2>4. QueueInOrder'
    BY <1>p, <2>1, <2>2, <2>3 DEF QueueInOrder
  <2>5. HeldByOne'
    BY <2>2 DEF BufferOwnership, HeldByOne
  <2>6. FreeIsUnheld'
    <3>1. CASE buffer_queue = <<>>
      <4>1. buffer_queue' = <<Len(buffers) + 1>>
        BY <1>12, <3>1 DEF CommitDiskless
      <4>2. Len(buffer_queue') = 1 /\ buffer_queue'[1] = Len(buffers) + 1
        BY <4>1
      <4>3. \A u \in Txns : buffer[u] # Len(buffers) + 1
        <5>1. Len(buffers) + 1 \notin {NoBuffer} \cup BufferIds
          BY <1>l DEF NoBuffer
        <5> QED
          BY <5>1 DEF Locking, TypeOK, BufferTypes
      <4> QED
        BY <2>2, <4>2, <4>3 DEF FreeIsUnheld
    <3>2. CASE buffer_queue # <<>>
      <4>1. buffer_queue' = buffer_queue
        BY <1>12, <3>2 DEF CommitDiskless
      <4> QED
        BY <2>2, <4>1 DEF BufferOwnership, FreeIsUnheld
    <3> QED
      BY <3>1, <3>2
  <2>7. PendingIsHeld'
    <3> SUFFICES ASSUME NEW i \in 1..Len(Pending)
                 PROVE  \E u \in Txns :
                           /\ buffer[u] = Pending[i]
                           /\ buffers'[Pending[i]] = [txn |-> u, lsn |-> lsn[u]]
                           /\ pc'[u] \notin {"begin", "filled"} \cup Returned
      BY <2>1, <2>2 DEF PendingIsHeld
    <3>1. PICK u \in Txns : /\ buffer[u] = Pending[i]
                            /\ buffers[Pending[i]] = [txn |-> u, lsn |-> lsn[u]]
                            /\ pc[u] \notin {"begin", "filled"} \cup Returned
      BY <1>h
    <3>2. buffers'[Pending[i]] = buffers[Pending[i]]
      BY <1>p, <2>3
    <3> QED
      BY <2>2, <3>1, <3>2 DEF Returned
  <2>8. FilledContent'
    <3>1. \A u \in Txns : pc[u] = "filled" => buffer[u] \in BufferIds
      BY DEF Locking, TypeOK, BufferTypes, HoldsBuffer
    <3> QED
      BY <2>2, <2>3, <3>1 DEF FilledContent
  <2> QED
    BY <2>4, <2>5, <2>6, <2>7, <2>8 DEF BufferOwnership
<1>13. ASSUME CheckpointAdvance
      PROVE  Quiet
  <2>1. Pending' = Pending
    BY <1>13 DEF CheckpointAdvance, Pending, Writing
  <2> QED
    BY <1>13, <2>1 DEF CheckpointAdvance, Quiet, faults
<1>14. ASSUME NEW p \in Procs, CheckpointSync(p)
      PROVE  Quiet
  <2>1. Pending' = Pending
    BY <1>14 DEF CheckpointSync, Pending, Writing
  <2> QED
    BY <1>14, <2>1 DEF CheckpointSync, Quiet, faults
<1>15. CASE UNCHANGED vars
  <2>1. Quiet
    BY <1>15 DEF Quiet, Pending, Writing, vars, shared, pool, faults
  <2> QED
    BY <2>1, QuietStep
<1> QED
  BY <1>1, <1>2, <1>3, <1>4, <1>5, <1>6, <1>7, <1>9, <1>10, <1>11, <1>12, <1>13, <1>14,
     <1>15, <1>16, QuietStep
     DEF Next, Commit, Fault, Recourse

\* Transactions go to the disk in the order of their LSNs, in every behaviour
\* (logger.h: queue_for_commit and the gathering loop of log).
THEOREM QueueIsInOrder == Spec => []QueueInOrder
<1>1. Queueing => QueueInOrder
  BY DEF Queueing
<1> QED
  BY <1>1, InitQueueing, NextQueueing, PTL DEF Spec

\* No commit buffer is shared, in every behaviour (Database::commit, which
\* recycles the buffers, and the queue of the Logger, which holds them).
THEOREM BuffersAreOwned == Spec => []BufferOwnership
<1>1. Queueing => BufferOwnership
  BY DEF Queueing
<1> QED
  BY <1>1, InitQueueing, NextQueueing, PTL DEF Spec


-----------------------------------------------------------------------------
\* The length of the file, with its padding and its last record

\* What a batch holds was gathered while the file was below its maximum length.
RoomLeft ==
    /\ log_len % Alignment = 0
    /\ OneRecordOver
    /\ \A t \in Txns : pc[t] = "write" /\ Len(batch[t]) # 0 =>
          log_len + Ends(Lengths(batch[t]))[Len(batch[t]) - 1] < log_max_len

\* A buffer that a transaction holds keeps its owner.
LEMMA HeldKeepsOwner ==
    ASSUME Queueing, [Next]_vars, NEW u \in Txns, NEW b \in BufferIds, buffer[u] = b
    PROVE  buffers'[b].txn = buffers[b].txn
<1>1. /\ Len(buffers) \in Nat /\ BufferIds = 1 .. Len(buffers)
      /\ buffers \in Seq([txn : Txns, lsn : Nat]) /\ buffers[b] \in [txn : Txns, lsn : Nat]
      /\ buffer_queue \in Seq(BufferIds) /\ Len(buffer_queue) \in Nat
  BY LenProperties, ElementOfSeq DEF Queueing, Locking, TypeOK, BufferTypes, BufferIds
<1>2. ASSUME NEW e, buffers' = Append(buffers, e)
      PROVE  buffers'[b] = buffers[b]
  BY <1>1, <1>2, AppendProperties
<1>3. ASSUME NEW t \in Txns, TakeBuffer(t)
      PROVE  buffers'[b].txn = buffers[b].txn
  <2>1. CASE buffer_queue # <<>>
    <3>1. Head(buffer_queue) = buffer_queue[1] /\ 1 \in 1 .. Len(buffer_queue)
      BY <1>1, <2>1, EmptySeq
    <3>2. Head(buffer_queue) # b
      BY <3>1 DEF Queueing, BufferOwnership, FreeIsUnheld
    <3> QED
      BY <1>1, <1>3, <2>1, <3>2 DEF TakeBuffer
  <2>2. CASE buffer_queue = <<>>
    BY <1>2, <1>3, <2>2 DEF TakeBuffer
  <2> QED
    BY <2>1, <2>2
<1>4. ASSUME NEW t \in Txns, QueueForCommit(t)
      PROVE  buffers'[b].txn = buffers[b].txn
  BY <1>1, <1>4 DEF QueueForCommit
<1>5. ASSUME NEW t \in Txns, CommitDiskless(t)
      PROVE  buffers'[b].txn = buffers[b].txn
  BY <1>2, <1>5 DEF CommitDiskless
<1>6. CASE UNCHANGED buffers
  BY <1>6
<1> QED
  BY <1>3, <1>4, <1>5, <1>6 DEF Next, Commit, Fault, Recourse, QueueRefuses, EnterLog,
     EnsureOpen, OpenFails, Gather, WriteBatch, WriteFails, LeaveLog, Complete, Rollback,
     CheckpointAdvance, CheckpointSync, vars, pool

\* So a batch keeps its length.
LEMMA BatchKeepsLength ==
    ASSUME Queueing, [Next]_vars, NEW t \in Txns, pc[t] = "write", batch'[t] = batch[t]
    PROVE  Lengths(batch[t])' = Lengths(batch[t])
<1>1. Writing = batch[t]
  BY NoTxnAssumption DEF Queueing, Writing, Locking, LogMutex, InLog
<1>2. /\ batch[t] \in Seq(BufferIds) /\ waiting_txns \in Seq(BufferIds)
      /\ Len(batch[t]) \in Nat /\ Len(waiting_txns) \in Nat
  BY LenProperties DEF Queueing, Locking, TypeOK, BufferTypes
<1>3. ASSUME NEW i \in 1 .. Len(batch[t])
      PROVE  buffers'[batch[t][i]].txn = buffers[batch[t][i]].txn
  <2>1. i \in 1 .. (Len(batch[t]) + Len(waiting_txns)) /\ i <= Len(batch[t])
    BY <1>2
  <2>2. i \in 1 .. Len(Pending) /\ Pending[i] = batch[t][i]
    BY <1>1, <1>2, <2>1, ConcatProperties DEF Pending
  <2>3. PICK u \in Txns : buffer[u] = batch[t][i]
    BY <2>2 DEF Queueing, BufferOwnership, PendingIsHeld
  <2>4. batch[t][i] \in BufferIds
    BY <1>2, ElementOfSeq
  <2> QED
    BY <2>3, <2>4, HeldKeepsOwner
<1>4. Lengths(batch[t])' = [i \in 1 .. Len(batch'[t]) |-> Size[buffers'[batch'[t][i]].txn]]
  BY DEF Lengths
<1>5. Lengths(batch[t])' = [i \in 1 .. Len(batch[t]) |-> Size[buffers'[batch[t][i]].txn]]
  BY <1>4
<1> QED
  BY <1>3, <1>5 DEF Lengths

\* Where a write ends.
LEMMA WriteEnds ==
    ASSUME TypeOK, RoomLeft, NEW t \in Txns
    PROVE  /\ log_len + Bytes(t) \in Nat /\ (log_len + Bytes(t)) % Alignment = 0
           /\ Len(batch[t]) = 0 => Bytes(t) = 0
           /\ pc[t] = "write" /\ Len(batch[t]) # 0 => \E u \in Txns :
                 log_len + Bytes(t) < log_max_len + Size[u] + Alignment + Header
<1> DEFINE k == Len(batch[t])
           e == Ends(Lengths(batch[t]))
           n == Filled(t)
<1>1. /\ batch[t] \in Seq(BufferIds) /\ k \in Nat /\ log_len \in Nat /\ log_max_len \in Nat
      /\ Alignment \in Nat /\ Header \in Nat /\ Size \in [Txns -> Nat \ {0}]
  BY LenProperties, SizeAssumption DEF TypeOK, SharedTypes, BufferTypes
<1>2. e[0] = 0 /\ \A i \in 1 .. k : e[i - 1] \in Nat /\ e[i] = e[i - 1] + Size[buffers[batch[t][i]].txn]
  BY <1>1, EndsGrow
<1>3. n \in Nat /\ Bytes(t) \in Nat /\ n = log_len + e[k] /\ log_len + Bytes(t) = n + Padding(n)
  BY BytesType
<1>4. Padding(n) \in Nat /\ Padding(n) < Alignment + Header /\ (n % Alignment = 0 => Padding(n) = 0)
  BY <1>3, PaddingBounds
<1>5. (n + Padding(n)) % Alignment = 0
  BY <1>3, PaddingAligns
<1>6. log_len % Alignment = 0
  BY DEF RoomLeft
<1>w. pc[t] = "write" /\ k # 0 => log_len + e[k - 1] < log_max_len
  BY DEF RoomLeft
<1>b. ASSUME k # 0
      PROVE  buffers[batch[t][k]].txn \in Txns
  BY <1>1, <1>b, LengthsShape
<1> HIDE DEF n, e, k
<1>7. ASSUME k = 0
      PROVE  Bytes(t) = 0
  <2>1. n = log_len
    BY <1>1, <1>2, <1>3, <1>7
  <2>2. Padding(n) = 0
    BY <1>4, <1>6, <2>1
  <2> QED
    BY <1>1, <1>3, <2>1, <2>2
<1>8. ASSUME pc[t] = "write", k # 0
      PROVE  \E u \in Txns : log_len + Bytes(t) < log_max_len + Size[u] + Alignment + Header
  <2> DEFINE u == buffers[batch[t][k]].txn
             s == Size[u]
             a == e[k - 1]
  <2>1. k \in 1 .. k
    BY <1>1, <1>8
  <2>2. a \in Nat /\ e[k] = a + s /\ log_len + a < log_max_len
    BY <1>2, <1>w, <1>8, <2>1
  <2>3. u \in Txns /\ s \in Nat
    BY <1>1, <1>b, <1>8
  <2> HIDE DEF s, a, u
  <2>4. n < log_max_len + s
    BY <1>1, <1>3, <2>2, <2>3
  <2>5. log_len + Bytes(t) < log_max_len + s + Alignment + Header
    BY <1>1, <1>3, <1>4, <2>3, <2>4
  <2> QED
    BY <2>3, <2>5 DEF s
<1> QED
  BY <1>1, <1>3, <1>5, <1>7, <1>8 DEF k

\* A new file is empty.
LEMMA InitRoomLeft == Init => RoomLeft
BY SizeAssumption DEF Init, RoomLeft, OneRecordOver

\* Every step keeps the bound: what is gathered starts below the maximum length, and who
\* holds the file mutex writes where it measured.
LEMMA NextRoomLeft == Queueing /\ RoomLeft /\ [Next]_vars => RoomLeft'
<1> SUFFICES ASSUME Queueing, RoomLeft, [Next]_vars
             PROVE  RoomLeft'
  OBVIOUS
<1>a. /\ Locking /\ TypeOK /\ LogMutex /\ pc \in [Txns -> Points]
      /\ log_len \in Nat /\ log_max_len \in Nat
      /\ log_len % Alignment = 0 /\ OneRecordOver
  BY SizeAssumption DEF Queueing, Locking, TypeOK, SharedTypes, RoomLeft
<1>z. 0 % Alignment = 0
  BY SizeAssumption
<1>1. ASSUME NEW t \in Txns, Gather(t)
      PROVE  RoomLeft'
  <2> DEFINE k == GatherCount
             s == SubSeq(waiting_txns, 1, k)
  <2>1. /\ k \in 0 .. Len(waiting_txns)
        /\ k # 0 => log_len + Ends(Lengths(waiting_txns))[k - 1] < log_max_len
    BY <1>a, GatherCountBounds
  <2>2. /\ batch' = [batch EXCEPT ![t] = s] /\ pc[t] = "gather"
        /\ UNCHANGED <<log_len, log_max_len, buffers>>
        /\ \A u \in Txns : u # t => pc'[u] = pc[u]
    BY <1>1, <1>a DEF Gather, Goto, shared, config, pool
  <2> HIDE DEF k
  <2>3. waiting_txns \in Seq(BufferIds) /\ Len(waiting_txns) \in Nat /\ batch \in [Txns -> Seq(BufferIds)]
    BY <1>a, LenProperties DEF TypeOK, BufferTypes
  <2>4. s \in Seq(BufferIds) /\ Len(s) = k /\ \A i \in 1 .. k : s[i] = waiting_txns[i]
    <3>1. \A i \in 1 .. Len(waiting_txns) : waiting_txns[i] \in BufferIds
      BY <2>3, ElementOfSeq
    <3> QED
      BY <2>1, <2>3, <3>1, SubSeqProperties
  <2>5. batch'[t] = s
    BY <2>2, <2>3
  <2> HIDE DEF s
  <2>6. Lengths(batch[t])' = Lengths(s)
    BY <2>2, <2>5 DEF Lengths
  <2>7. /\ Lengths(s) \in Seq(Nat \ {0}) /\ Len(Lengths(s)) = k
        /\ \A i \in 1 .. k : Lengths(s)[i] = Size[buffers[s[i]].txn]
    BY <1>a, <2>4, LengthsShape
  <2>8. /\ Lengths(waiting_txns) \in Seq(Nat \ {0})
        /\ Len(Lengths(waiting_txns)) = Len(waiting_txns)
        /\ \A i \in 1 .. Len(waiting_txns) :
              Lengths(waiting_txns)[i] = Size[buffers[waiting_txns[i]].txn]
    BY <1>a, <2>3, LengthsShape
  <2>9. \A i \in 1 .. k : Lengths(s)[i] = Lengths(waiting_txns)[i]
    <3>1. k \in Nat /\ k <= Len(waiting_txns)
      BY <2>1, <2>3
    <3> TAKE i \in 1 .. k
    <3>2. i \in 1 .. Len(waiting_txns)
      BY <2>3, <3>1
    <3> QED
      BY <2>4, <2>7, <2>8, <3>2
  <2>10. \A i \in 0 .. k : Ends(Lengths(s))[i] = Ends(Lengths(waiting_txns))[i]
    <3> DEFINE a == Lengths(s)
               b == Lengths(waiting_txns)
    <3>1. /\ a \in Seq(Nat \ {0}) /\ b \in Seq(Nat \ {0}) /\ Len(a) = k /\ Len(a) <= Len(b)
          /\ \A i \in 1 .. Len(a) : a[i] = b[i]
      BY <2>1, <2>3, <2>7, <2>8, <2>9
    <3> HIDE DEF a, b
    <3>2. \A i \in 0 .. Len(a) : Ends(a)[i] = Ends(b)[i]
      BY <3>1, EndsOfFirst
    <3> QED
      BY <3>1, <3>2 DEF a, b
  <2>11. ASSUME k # 0
         PROVE  log_len + Ends(Lengths(s))[k - 1] < log_max_len
    <3>1. k - 1 \in 0 .. k
      BY <2>1, <2>11
    <3> QED
      BY <2>1, <2>10, <2>11, <3>1
  <2>12. \A u \in Txns : u # t => pc'[u] # "write"
    BY <1>a, <2>2 DEF LogMutex, InLog
  <2>13. ASSUME NEW u \in Txns, pc'[u] = "write", Len(batch'[u]) # 0
         PROVE  log_len' + Ends(Lengths(batch[u])')[Len(batch'[u]) - 1] < log_max_len'
    <3>1. u = t
      BY <2>12, <2>13
    <3>2. Len(batch'[u]) = k
      BY <2>4, <2>5, <3>1
    <3> QED
      BY <2>2, <2>6, <2>11, <2>13, <3>1, <3>2
  <2>14. OneRecordOver'
    BY <1>a, <2>2 DEF OneRecordOver
  <2> QED
    BY <1>a, <2>2, <2>13, <2>14 DEF RoomLeft, Ends
<1>2. ASSUME NEW t \in Txns, WriteBatch(t)
      PROVE  RoomLeft'
  <2>1. /\ pc[t] = "write" /\ pc' = [pc EXCEPT ![t] = "loop"] /\ file_mutex = t
        /\ log_len' = log_len + Bytes(t) /\ log_max_len' = log_max_len
    BY <1>2, <1>a DEF WriteBatch, Goto, config, LogMutex, InLog
  <2>2. \A u \in Txns : pc'[u] # "write"
    BY <1>a, <2>1 DEF LogMutex, InLog
  <2>3. /\ (log_len + Bytes(t)) % Alignment = 0
        /\ Len(batch[t]) = 0 => Bytes(t) = 0
        /\ Len(batch[t]) # 0 => \E u \in Txns :
              log_len + Bytes(t) < log_max_len + Size[u] + Alignment + Header
    BY <1>a, <2>1, WriteEnds
  <2>4. OneRecordOver'
    BY <1>a, <2>1, <2>3 DEF OneRecordOver
  <2> QED
    BY <2>1, <2>2, <2>3, <2>4 DEF RoomLeft
<1>3. ASSUME log_len' \in {0, log_len}, log_max_len' = log_max_len,
             \A u \in Txns : pc'[u] # "write"
      PROVE  RoomLeft'
  BY <1>a, <1>z, <1>3 DEF RoomLeft, OneRecordOver
<1>4. ASSUME NEW t \in Txns, EnsureOpen(t) \/ OpenFails(t) \/ WriteFails(t)
      PROVE  RoomLeft'
  <2>1. /\ file_mutex = t /\ log_len' \in {0, log_len} /\ log_max_len' = log_max_len
        /\ \A u \in Txns : u # t => pc'[u] = pc[u]
        /\ pc'[t] # "write"
    BY <1>4, <1>a DEF EnsureOpen, OpenFails, WriteFails, NameNextFile, Goto, config, shared,
       LogMutex, InLog
  <2>2. \A u \in Txns : pc'[u] # "write"
    BY <1>a, <2>1 DEF LogMutex, InLog
  <2> QED
    BY <1>3, <2>1, <2>2
<1>5. CASE CheckpointAdvance
  <2>1. file_mutex = NoTxn /\ log_len' = 0 /\ log_max_len' = log_max_len /\ pc' = pc
    BY <1>5 DEF CheckpointAdvance, config
  <2>2. \A u \in Txns : pc'[u] # "write"
    BY <1>a, <2>1, NoTxnAssumption DEF LogMutex, InLog
  <2> QED
    BY <1>3, <2>1, <2>2
<1>6. ASSUME UNCHANGED <<log_len, log_max_len, batch>>,
             \A u \in Txns : pc'[u] = "write" => pc[u] = "write"
      PROVE  RoomLeft'
  <2>1. ASSUME NEW u \in Txns, pc'[u] = "write", Len(batch'[u]) # 0
        PROVE  log_len' + Ends(Lengths(batch[u])')[Len(batch'[u]) - 1] < log_max_len'
    <3>1. Lengths(batch[u])' = Lengths(batch[u])
      BY <1>6, <2>1, BatchKeepsLength
    <3> QED
      BY <1>6, <2>1, <3>1 DEF RoomLeft
  <2>2. OneRecordOver'
    BY <1>a, <1>6 DEF OneRecordOver
  <2> QED
    BY <1>a, <1>6, <2>1, <2>2 DEF RoomLeft, Ends
<1>7. ASSUME NEW t \in Txns,
             \/ TakeBuffer(t) \/ QueueForCommit(t) \/ QueueRefuses(t) \/ EnterLog(t)
             \/ LeaveLog(t) \/ Complete(t) \/ Rollback(t) \/ CommitDiskless(t)
      PROVE  RoomLeft'
  <2>1. UNCHANGED <<log_len, log_max_len, batch>>
    BY <1>7 DEF TakeBuffer, QueueForCommit, QueueRefuses, EnterLog, LeaveLog, Complete,
                Rollback, CommitDiskless, shared, config
  <2>2. \A u \in Txns : pc'[u] = "write" => pc[u] = "write"
    BY <1>7, <1>a DEF TakeBuffer, QueueForCommit, QueueRefuses, EnterLog, LeaveLog, Complete,
                Rollback, CommitDiskless, Goto
  <2> QED
    BY <1>6, <2>1, <2>2
<1>8. ASSUME NEW p \in Procs, CheckpointSync(p)
      PROVE  RoomLeft'
  BY <1>6, <1>8 DEF CheckpointSync, config
<1>9. CASE UNCHANGED vars
  BY <1>6, <1>9 DEF vars, shared, config
<1> QED
  BY <1>1, <1>2, <1>4, <1>5, <1>7, <1>8, <1>9 DEF Next, Commit, Fault, Recourse

\* Each write starts on a boundary of the alignment and no file gets longer than its
\* maximum by more than a record and the padding behind it, whatever the lengths of the
\* records are (logger.h: the gathering loop of log() and the padding behind it).
THEOREM LengthsAreKept == Spec => []LengthsKept
<1>1. Queueing /\ RoomLeft => LengthsKept
  BY DEF Queueing, Locking, RoomLeft, LengthsKept
<1> QED
  BY <1>1, InitQueueing, NextQueueing, InitRoomLeft, NextRoomLeft, PTL DEF Spec
-----------------------------------------------------------------------------
\* What is left in the log files and on the device: the inductive invariant, whatever fails

\* Names do not run ahead of what is written, and a file that has records has
\* an older name: advancing never yields the name of a file in use.
NamesInOrder ==
    /\ log_filename <= last_write
    /\ log_len > 0 => log_filename < last_write
    /\ \A p \in Procs : my_log_filename[p] <= log_filename

\* A process that believes it has the current file open has it open, and so has
\* the process whose thread is about to write.
OpenOnCurrent ==
    /\ \A p \in Procs : my_log_filename[p] = log_filename => logfd[p] = log_filename
    /\ \A t \in Txns : pc[t] \in {"gather", "write"} =>
          my_log_filename[Home[t]] = log_filename /\ log_filename # NoFile

\* ... and while no write has failed

\* Each process is right about its file offset.
OffsetsRight == \A p \in Procs : my_fp_offset[p] = fp[p]

\* The current file holds whole records up to its length, the last of them the last that
\* was written; a file that was only named, after that one, is empty.
FileEnd ==
    /\ WholeUpTo(log_filename, log_len, disk)
    /\ \A r \in disk : r.file = log_filename => r.pos + r.len <= log_len
    /\ log_len = 0 => log_filename \in {NoFile, last_write}
    /\ log_len # 0 => \E q \in disk : /\ q.file = log_filename
                                    /\ q.pos + q.len = log_len /\ q.lsn = last_write

\* A record is whole, as all is before it in its file, in the order of the LSNs, and none
\* is ahead of what was written.
NoHoles ==
    /\ \A r \in disk :
          /\ r.lsn <= last_write /\ r.txn # NoTxn /\ r.file < r.lsn
          /\ WholeUpTo(r.file, r.pos, disk)
    /\ \A q, r \in disk : q.file = r.file /\ q.pos <= r.pos => q.lsn <= r.lsn

\* LSNs are handed out once, before the queue, and log() returns with them.
LsnsUnique ==
    /\ \A t \in Txns : lsn[t] < next_lsn
    /\ \A t, u \in Txns : lsn[t] = lsn[u] /\ lsn[t] # 0 => t = u
    /\ \A t \in Txns :
          pc[t] \in {"queued"} \cup InLog \cup Returned => lsn[t] # 0
    /\ \A t \in Txns : pc[t] \in Returned => lsn[t] <= last_write

\* What last_write covers is in the log.
CoveredIsLogged ==
    \A t \in Txns : lsn[t] # 0 /\ lsn[t] <= last_write =>
        \E r \in disk : r.txn = t /\ r.lsn = lsn[t]

FaultFree == OffsetsRight /\ FileEnd /\ FilesNamedByLsn /\ NoHoles /\ CoveredIsLogged

-----------------------------------------------------------------------------
\* Lemmas

\* What a thread is about to write comes next in the order of LSNs, right after
\* the last one written when no write has failed, and carries its owner's LSN.
LEMMA BatchIsNext ==
    ASSUME Queueing, NEW t \in Txns, pc[t] = "write", NEW i \in 1..Len(batch[t])
    PROVE  /\ buffers[batch[t][i]].lsn \in Nat
           /\ buffers[batch[t][i]].lsn >= last_write + i
           /\ write_faults = 0 => buffers[batch[t][i]].lsn = last_write + i
           /\ \E u \in Txns : buffers[batch[t][i]] = [txn |-> u, lsn |-> lsn[u]]
<1> USE DEF Queueing
<1>1. Writing = batch[t]
  BY NoTxnAssumption DEF Writing, Locking, LogMutex, InLog
<1>2. /\ batch[t] \in Seq(BufferIds) /\ waiting_txns \in Seq(BufferIds)
      /\ Len(batch[t]) \in Nat /\ Len(waiting_txns) \in Nat
  BY LenProperties DEF Locking, TypeOK, BufferTypes
<1>3. /\ Len(Pending) = Len(batch[t]) + Len(waiting_txns)
      /\ i \in 1..Len(Pending) /\ Pending[i] = batch[t][i]
  <2>1. i \in 1..(Len(batch[t]) + Len(waiting_txns)) /\ i <= Len(batch[t])
    BY <1>2
  <2> QED
    BY <1>1, <1>2, <2>1, ConcatProperties DEF Pending
<1>4. buffers[batch[t][i]].lsn = next_lsn - 1 - Len(Pending) + i
  BY <1>3 DEF QueueInOrder
<1>5. next_lsn \in Nat /\ last_write \in Nat /\ Len(Pending) \in Nat
  BY <1>2, <1>3 DEF Locking, TypeOK, SharedTypes
<1>6. \E u \in Txns : buffers[batch[t][i]] = [txn |-> u, lsn |-> lsn[u]]
  BY <1>3 DEF BufferOwnership, PendingIsHeld
<1>7. buffers[batch[t][i]].lsn \in Nat
  BY <1>6 DEF Locking, TypeOK
<1>8. /\ last_write + Len(Pending) <= next_lsn - 1
      /\ write_faults = 0 => last_write + Len(Pending) = next_lsn - 1
  BY DEF QueueInOrder
<1> QED
  BY <1>4, <1>5, <1>6, <1>7, <1>8

\* A successful write moves last_write on exactly when it writes a record.
LEMMA WriteAdvances ==
    ASSUME Queueing, NEW t \in Txns, WriteBatch(t)
    PROVE  /\ Len(batch[t]) \in Nat
           /\ last_write' \in Nat /\ last_write' >= last_write + Len(batch[t])
           /\ write_faults = 0 => last_write' = last_write + Len(batch[t])
<1> DEFINE k == Len(batch[t])
<1>1. k \in Nat /\ last_write \in Nat
  BY LenProperties DEF Queueing, Locking, TypeOK, SharedTypes, BufferTypes
<1>2. pc[t] = "write" /\ last_write' = IF k = 0 THEN last_write ELSE buffers[batch[t][k]].lsn
  BY DEF WriteBatch
<1>3. CASE k = 0
  BY <1>1, <1>2, <1>3
<1>4. CASE k # 0
  <2>1. k \in 1..k
    BY <1>1, <1>4
  <2>2. /\ buffers[batch[t][k]].lsn \in Nat
        /\ buffers[batch[t][k]].lsn >= last_write + k
        /\ write_faults = 0 => buffers[batch[t][k]].lsn = last_write + k
    BY <1>2, <2>1, BatchIsNext
  <2> QED
    BY <1>1, <1>2, <1>4, <2>2
<1> QED
  BY <1>3, <1>4

-----------------------------------------------------------------------------
\* The names of the files, and the handles on them

Naming == Queueing /\ RoomLeft /\ NamesInOrder /\ OpenOnCurrent

\* In a new region there is no file.
LEMMA InitNaming == Init => Naming
BY InitQueueing, InitRoomLeft DEF Init, Naming, NamesInOrder, OpenOnCurrent, NoFile

\* Every step keeps names in order and processes right about what they have open.
LEMMA NextNaming == Naming /\ [Next]_vars => Naming'
<1> SUFFICES ASSUME Naming, [Next]_vars
             PROVE  NamesInOrder' /\ OpenOnCurrent'
  BY NextQueueing, NextRoomLeft DEF Naming
<1>a. Queueing /\ Locking /\ TypeOK /\ RoomLeft /\ NamesInOrder /\ OpenOnCurrent
  BY DEF Naming, Queueing, Locking
<1>b. /\ last_write \in Nat /\ log_filename \in Nat \cup {NoFile} /\ log_len \in Nat
      /\ log_max_len \in Nat \ {0}
      /\ my_log_filename \in [Procs -> Nat \cup {NoFile}]
      /\ logfd \in [Procs -> Nat \cup {NoFile}]
      /\ pc \in [Txns -> Points]
  BY <1>a, SizeAssumption DEF TypeOK, SharedTypes, HandleTypes
<1>c. NoFile = -1
  BY DEF NoFile
\* Steps that leave names and handles alone
<1>1. ASSUME UNCHANGED <<last_write, log_filename, log_len, my_log_filename, logfd>>,
             \A t \in Txns : pc'[t] \in {"gather", "write"} => pc[t] \in {"gather", "write"}
      PROVE  NamesInOrder' /\ OpenOnCurrent'
  BY <1>1, <1>a DEF NamesInOrder, OpenOnCurrent
\* The step that opens files, and the one that fails to
<1>2. ASSUME NEW t \in Txns, EnsureOpen(t)
      PROVE  NamesInOrder' /\ OpenOnCurrent'
  <2> DEFINE p == Home[t]
  <2>1. p \in Procs /\ pc[t] = "loop" /\ file_mutex = t
    BY <1>2, <1>a, HomeAssumption DEF EnsureOpen, Locking, LogMutex, InLog
  <2>2. /\ log_filename' = NextFile /\ log_len' = (IF Rolls THEN 0 ELSE log_len)
        /\ last_write' = last_write
    BY <1>2 DEF EnsureOpen, NameNextFile
  <2>3. NextFile = (IF Rolls THEN last_write ELSE log_filename) /\ NextFile # NoFile
    BY <1>b, <1>c DEF NextFile, NewName, Rolls
  <2>4. Rolls => \A q \in Procs : my_log_filename[q] < last_write
    BY <1>a, <1>b, <1>c DEF Rolls, NamesInOrder
  <2>5. NextFile <= last_write /\ log_filename <= NextFile
    BY <1>a, <1>b, <2>3 DEF NamesInOrder
  <2>6. \A u \in Txns : u # t => pc'[u] = pc[u] /\ pc[u] \notin {"gather", "write"}
    BY <1>2, <1>a, <1>b, <2>1 DEF EnsureOpen, Goto, Locking, LogMutex, InLog
  <2>7. CASE MustOpen(p)
    <3>1. /\ my_log_filename'[p] = NextFile /\ logfd'[p] = NextFile
          /\ \A q \in Procs : q # p => /\ my_log_filename'[q] = my_log_filename[q]
                                       /\ logfd'[q] = logfd[q]
      BY <1>2, <1>b, <2>1, <2>7 DEF EnsureOpen
    <3>2. NamesInOrder'
      BY <1>a, <1>b, <1>c, <2>2, <2>3, <2>4, <2>5, <3>1 DEF NamesInOrder
    <3>3. \A q \in Procs : my_log_filename'[q] = log_filename' => logfd'[q] = log_filename'
      BY <1>a, <1>b, <2>2, <2>3, <2>4, <3>1 DEF OpenOnCurrent
    <3> QED
      BY <2>1, <2>2, <2>3, <2>6, <3>1, <3>2, <3>3 DEF OpenOnCurrent
  <2>8. CASE ~MustOpen(p)
    <3>1. UNCHANGED <<my_log_filename, logfd>> /\ ~Rolls /\ my_log_filename[p] = NextFile
      BY <1>2, <2>8 DEF EnsureOpen, handles, MustOpen
    <3> QED
      BY <1>a, <2>1, <2>2, <2>3, <2>6, <3>1 DEF NamesInOrder, OpenOnCurrent
  <2> QED
    BY <2>7, <2>8
<1>3. ASSUME NEW t \in Txns, OpenFails(t)
      PROVE  NamesInOrder' /\ OpenOnCurrent'
  <2> DEFINE p == Home[t]
  <2>1. /\ p \in Procs /\ pc[t] = "loop" /\ file_mutex = t /\ MustOpen(p)
        /\ my_log_filename' = my_log_filename
        /\ \A q \in Procs : q # p => logfd'[q] = logfd[q]
    BY <1>3, <1>a, <1>b, HomeAssumption DEF OpenFails, Locking, LogMutex, InLog
  <2>2. /\ log_filename' = NextFile /\ log_len' = (IF Rolls THEN 0 ELSE log_len)
        /\ last_write' = last_write
    BY <1>3 DEF OpenFails, NameNextFile
  <2>3. NextFile = (IF Rolls THEN last_write ELSE log_filename) /\ NextFile # NoFile
    BY <1>b, <1>c DEF NextFile, NewName, Rolls
  <2>4. Rolls => \A q \in Procs : my_log_filename[q] < last_write
    BY <1>a, <1>b, <1>c DEF Rolls, NamesInOrder
  <2>5. my_log_filename[p] # NextFile
    BY <1>b, <2>1, <2>3, <2>4 DEF MustOpen
  <2>6. \A u \in Txns : pc'[u] \notin {"gather", "write"}
    BY <1>3, <1>a, <1>b, <2>1 DEF OpenFails, Goto, Locking, LogMutex, InLog
  <2>7. NamesInOrder'
    BY <1>a, <1>b, <1>c, <2>1, <2>2, <2>3, <2>4 DEF NamesInOrder
  <2> QED
    BY <1>a, <1>b, <2>1, <2>2, <2>3, <2>4, <2>5, <2>6, <2>7 DEF OpenOnCurrent
<1>4. ASSUME NEW t \in Txns, WriteBatch(t)
      PROVE  NamesInOrder' /\ OpenOnCurrent'
  <2>1. /\ Len(batch[t]) \in Nat /\ last_write' \in Nat
        /\ last_write' >= last_write + Len(batch[t])
    BY <1>4, <1>a, WriteAdvances
  <2>2. /\ log_len' = log_len + Bytes(t) /\ Bytes(t) \in Nat
        /\ Len(batch[t]) = 0 => Bytes(t) = 0
        /\ UNCHANGED <<log_filename, my_log_filename, logfd>>
        /\ \A u \in Txns : pc'[u] \in {"gather", "write"} => pc[u] \in {"gather", "write"}
    BY <1>4, <1>a, <1>b, BytesType, WriteEnds DEF WriteBatch, Goto
  <2>3. NamesInOrder'
    BY <1>a, <1>b, <1>c, <2>1, <2>2 DEF NamesInOrder
  <2> QED
    BY <1>a, <2>2, <2>3 DEF OpenOnCurrent
<1>5. ASSUME CheckpointAdvance
      PROVE  NamesInOrder' /\ OpenOnCurrent'
  <2>1. /\ log_filename' = last_write /\ log_len' = 0 /\ file_mutex = NoTxn
        /\ UNCHANGED <<last_write, my_log_filename, logfd, pc>>
    BY <1>5 DEF CheckpointAdvance, NewName, handles
  <2>2. \A u \in Txns : pc[u] \notin {"gather", "write"}
    BY <1>a, <2>1, NoTxnAssumption DEF Locking, LogMutex, InLog
  <2>3. NamesInOrder'
    BY <1>a, <1>b, <1>c, <2>1 DEF NamesInOrder
  <2>4. \A p \in Procs : my_log_filename[p] = last_write => log_filename = last_write
    BY <1>a, <1>b, <1>c DEF NamesInOrder
  <2> QED
    BY <1>a, <2>1, <2>2, <2>3, <2>4 DEF OpenOnCurrent
<1>6. ASSUME NEW t \in Txns,
             \/ TakeBuffer(t) \/ QueueForCommit(t) \/ QueueRefuses(t) \/ EnterLog(t)
             \/ Gather(t) \/ WriteFails(t) \/ LeaveLog(t) \/ Complete(t)
             \/ Rollback(t) \/ CommitDiskless(t)
      PROVE  NamesInOrder' /\ OpenOnCurrent'
  <2>1. UNCHANGED <<last_write, log_filename, log_len, my_log_filename, logfd>>
    BY <1>6 DEF TakeBuffer, QueueForCommit, QueueRefuses, EnterLog, Gather, WriteFails,
                LeaveLog, Complete, Rollback, CommitDiskless, shared, handles
  <2>2. \A u \in Txns : pc'[u] \in {"gather", "write"} => pc[u] \in {"gather", "write"}
    BY <1>6, <1>b DEF TakeBuffer, QueueForCommit, QueueRefuses, EnterLog, Gather,
                WriteFails, LeaveLog, Complete, Rollback, CommitDiskless, Goto
  <2> QED
    BY <1>1, <2>1, <2>2
<1>7. ASSUME NEW p \in Procs, CheckpointSync(p)
      PROVE  NamesInOrder' /\ OpenOnCurrent'
  BY <1>1, <1>7 DEF CheckpointSync, handles
<1>8. CASE UNCHANGED vars
  BY <1>1, <1>8 DEF vars, shared, handles
<1> QED
  BY <1>2, <1>3, <1>4, <1>5, <1>6, <1>7, <1>8 DEF Next, Commit, Fault, Recourse

-----------------------------------------------------------------------------
\* No record is in a file that is named after its own or a later LSN

\* What is written goes to the current file, with LSNs above its name.
LEMMA RecordsAboveName ==
    ASSUME Naming, NEW t \in Txns, pc[t] = "write",
           NEW n, NEW r \in Records(t, n)
    PROVE  r.file = log_filename /\ r.file < r.lsn
<1>1. Queueing /\ TypeOK /\ NamesInOrder /\ OpenOnCurrent
  BY DEF Naming, Queueing, Locking
<1>2. PICK i \in 1..Len(batch[t]) : r.file = logfd[Home[t]] /\ r.lsn = buffers[batch[t][i]].lsn
  BY DEF Records
<1>3. logfd[Home[t]] = log_filename
  BY <1>1, HomeAssumption DEF OpenOnCurrent
<1>4. buffers[batch[t][i]].lsn \in Nat /\ buffers[batch[t][i]].lsn >= last_write + i
  BY <1>1, BatchIsNext
<1>5. i \in 1..Len(batch[t]) /\ Len(batch[t]) \in Nat
  BY <1>1, LenProperties DEF TypeOK, BufferTypes
<1>6. /\ log_filename <= last_write /\ last_write \in Nat
      /\ log_filename \in Nat \cup {NoFile} /\ NoFile = -1
  BY <1>1 DEF NamesInOrder, TypeOK, SharedTypes, NoFile
<1>7. log_filename < buffers[batch[t][i]].lsn
  BY <1>4, <1>5, <1>6
<1> QED
  BY <1>2, <1>3, <1>7

\* Recovery, which picks the files to read by their names, never starts behind a
\* record it needs, whatever failed before (logger.h: advance_logfile, log).
THEOREM FilesStartBeforeTheirRecords == Spec => []NoRecordBeforeItsFile
<1>1. Init => NoRecordBeforeItsFile
  BY DEF Init, NoRecordBeforeItsFile
<1>2. Naming /\ NoRecordBeforeItsFile /\ [Next]_vars => NoRecordBeforeItsFile'
  <2> SUFFICES ASSUME Naming, NoRecordBeforeItsFile, [Next]_vars
               PROVE  NoRecordBeforeItsFile'
    OBVIOUS
  <2>1. ASSUME NEW t \in Txns, WriteBatch(t)
        PROVE  NoRecordBeforeItsFile'
    <3>1. pc[t] = "write" /\ disk' \subseteq disk \cup Records(t, Bytes(t))
      BY <2>1 DEF WriteBatch, Over
    <3>2. \A r \in Records(t, Bytes(t)) : r.file < r.lsn
      BY <3>1, RecordsAboveName
    <3> QED
      BY <3>1, <3>2 DEF NoRecordBeforeItsFile
  <2>2. ASSUME NEW t \in Txns, WriteFails(t)
        PROVE  NoRecordBeforeItsFile'
    <3>1. PICK n \in 0..(Bytes(t) - 1) : disk' \subseteq disk \cup Records(t, n)
      BY <2>2 DEF WriteFails, Over
    <3>2. \A r \in Records(t, n) : r.file < r.lsn
      BY <2>2, RecordsAboveName DEF WriteFails
    <3> QED
      BY <3>1, <3>2 DEF NoRecordBeforeItsFile
  <2>4. ASSUME NEW t \in Txns, EnsureOpen(t)
        PROVE  NoRecordBeforeItsFile'
    <3>1. disk \subseteq LogRecords
      BY DEF Naming, Queueing, Locking, TypeOK, FileTypes
    <3>2. ASSUME NEW r \in Grown(disk, NextFile)
          PROVE  r.file < r.lsn
      <4>1. PICK q \in disk : r = q \/ r = [q EXCEPT !.txn = NoTxn]
        BY DEF Grown
      <4>2. r.file = q.file /\ r.lsn = q.lsn
        BY <3>1, <4>1 DEF LogRecords
      <4> QED
        BY <4>2 DEF NoRecordBeforeItsFile
    <3>3. disk' = disk \/ disk' = Grown(disk, NextFile)
      BY <2>4 DEF EnsureOpen
    <3> QED
      BY <3>2, <3>3 DEF NoRecordBeforeItsFile
  <2>3. CASE UNCHANGED disk
    BY <2>3 DEF NoRecordBeforeItsFile
  <2> QED
    BY <2>1, <2>2, <2>3, <2>4 DEF Next, Commit, Fault, Recourse, TakeBuffer, QueueForCommit,
       QueueRefuses, EnterLog, OpenFails, Gather, LeaveLog, Complete, Rollback,
       CommitDiskless, CheckpointAdvance, CheckpointSync, vars, files
<1> QED
  BY <1>1, <1>2, InitNaming, NextNaming, PTL DEF Spec

-----------------------------------------------------------------------------
\* The LSNs of the transactions

\* What is covered stays covered.
LEMMA LastWriteGrows ==
    ASSUME Naming, [Next]_vars
    PROVE  last_write \in Nat /\ last_write' \in Nat /\ last_write <= last_write'
<1>1. last_write \in Nat
  BY DEF Naming, Queueing, Locking, TypeOK, SharedTypes
<1>2. ASSUME NEW t \in Txns, WriteBatch(t)
      PROVE  last_write' \in Nat /\ last_write <= last_write'
  BY <1>1, <1>2, WriteAdvances DEF Naming
<1>3. CASE UNCHANGED last_write
  BY <1>1, <1>3
<1> QED
  BY <1>1, <1>2, <1>3 DEF Next, Commit, Fault, Recourse, TakeBuffer, QueueForCommit,
     QueueRefuses, EnterLog, EnsureOpen, OpenFails, Gather, WriteFails, LeaveLog, Complete,
     Rollback, CommitDiskless, CheckpointAdvance, CheckpointSync, vars, shared

\* Every step keeps the LSNs of the transactions apart.
LEMMA NextLsnsUnique ==
    ASSUME Naming, LsnsUnique, [Next]_vars
    PROVE  LsnsUnique'
<1>1. /\ next_lsn \in Nat /\ lsn \in [Txns -> Nat] /\ pc \in [Txns -> Points]
      /\ last_write \in Nat /\ last_write' \in Nat /\ last_write <= last_write'
      /\ last_write + Len(Pending) <= next_lsn - 1 /\ Len(Pending) \in Nat
  BY LastWriteGrows, PendingShape
     DEF Naming, Queueing, QueueInOrder, Locking, TypeOK, SharedTypes
<1>2. ASSUME NEW t \in Txns, QueueForCommit(t)
      PROVE  LsnsUnique'
  <2>1. /\ next_lsn' = next_lsn + 1 /\ last_write' = last_write
        /\ lsn'[t] = next_lsn /\ pc'[t] = "queued"
        /\ \A u \in Txns : u # t => lsn'[u] = lsn[u] /\ pc'[u] = pc[u]
    BY <1>1, <1>2 DEF QueueForCommit, Goto
  <2>2. next_lsn # 0 /\ next_lsn < next_lsn + 1
    BY <1>1
  <2>3. \A u \in Txns : lsn'[u] < next_lsn'
    BY <1>1, <2>1 DEF LsnsUnique
  <2>4. \A u, v \in Txns : lsn'[u] = lsn'[v] /\ lsn'[u] # 0 => u = v
    <3>1. \A u \in Txns : u # t => lsn'[u] # next_lsn
      BY <1>1, <2>1 DEF LsnsUnique
    <3> QED
      BY <2>1, <3>1 DEF LsnsUnique
  <2>5. \A u \in Txns : pc'[u] \in {"queued"} \cup InLog \cup Returned => lsn'[u] # 0
    BY <2>1, <2>2 DEF LsnsUnique
  <2>6. \A u \in Txns : pc'[u] \in Returned => lsn'[u] <= last_write'
    BY <2>1 DEF LsnsUnique, Returned
  <2> QED
    BY <2>3, <2>4, <2>5, <2>6 DEF LsnsUnique
<1>3. ASSUME UNCHANGED <<next_lsn, lsn>>,
             \A u \in Txns :
                /\ pc'[u] \in {"queued"} \cup InLog \cup Returned =>
                      pc[u] \in {"queued"} \cup InLog \cup Returned
                /\ pc'[u] \in Returned => pc[u] \in Returned \/ lsn[u] <= last_write
      PROVE  LsnsUnique'
  <2>1. \A u \in Txns : lsn[u] <= last_write => lsn[u] <= last_write'
    BY <1>1
  <2> QED
    BY <1>3, <2>1 DEF LsnsUnique
<1>4. ASSUME NEW t \in Txns,
             \/ TakeBuffer(t) \/ QueueRefuses(t) \/ EnterLog(t) \/ EnsureOpen(t)
             \/ OpenFails(t) \/ Gather(t) \/ WriteBatch(t) \/ WriteFails(t)
             \/ Complete(t) \/ Rollback(t) \/ CommitDiskless(t)
      PROVE  LsnsUnique'
  <2>1. UNCHANGED <<next_lsn, lsn>>
    BY <1>4 DEF TakeBuffer, QueueRefuses, EnterLog, EnsureOpen, OpenFails, Gather,
                WriteBatch, WriteFails, Complete, Rollback, CommitDiskless, shared
  <2>2. \A u \in Txns :
           /\ pc'[u] \in {"queued"} \cup InLog \cup Returned =>
                 pc[u] \in {"queued"} \cup InLog \cup Returned
           /\ pc'[u] \in Returned => pc[u] \in Returned
    BY <1>1, <1>4 DEF TakeBuffer, QueueRefuses, EnterLog, EnsureOpen, OpenFails, Gather,
       WriteBatch, WriteFails, Complete, Rollback, CommitDiskless, Goto, InLog, Returned
  <2> QED
    BY <1>3, <2>1, <2>2
<1>5. ASSUME NEW t \in Txns, LeaveLog(t)
      PROVE  LsnsUnique'
  <2>1. /\ UNCHANGED <<next_lsn, lsn>> /\ pc[t] = "loop" /\ lsn[t] <= last_write
        /\ \A u \in Txns : u # t => pc'[u] = pc[u]
    BY <1>1, <1>5 DEF LeaveLog, Covered, Goto
  <2> QED
    BY <1>3, <2>1 DEF InLog
<1>6. CASE UNCHANGED <<next_lsn, lsn, pc>>
  BY <1>3, <1>6
<1> QED
  BY <1>2, <1>4, <1>5, <1>6
     DEF Next, Commit, Fault, Recourse, CheckpointAdvance, CheckpointSync, vars, shared

-----------------------------------------------------------------------------
\* The log while no write has failed

\* Steps that move no file, or only name a new one, leave the records right.
LEMMA FaultFreeStill ==
    ASSUME Naming, FaultFree, UNCHANGED <<last_write, disk>>,
           \/ UNCHANGED <<log_filename, log_len>>
           \/ log_filename' = last_write /\ log_len' = 0,
           \A p \in Procs : my_fp_offset'[p] = fp'[p],
           \A t \in Txns : lsn'[t] = lsn[t] \/ ~(lsn'[t] <= last_write),
           write_faults' = write_faults
    PROVE  FaultFree'
<1>1. last_write \in Nat /\ \A r \in disk : r.file \in Nat \cup {NoFile} /\ r.lsn \in Nat
  BY DEF Naming, Queueing, Locking, TypeOK, SharedTypes, FileTypes, LogRecords
<1>2. OffsetsRight'
  BY DEF OffsetsRight
<1>3. FilesNamedByLsn'
  BY DEF FaultFree, FilesNamedByLsn
<1>4. NoHoles'
  BY DEF FaultFree, NoHoles
<1>5. CoveredIsLogged'
  BY DEF FaultFree, CoveredIsLogged
<1>6. FileEnd'
  <2>1. CASE UNCHANGED <<log_filename, log_len>>
    BY <2>1 DEF FaultFree, FileEnd
  <2>2. CASE log_filename' = last_write /\ log_len' = 0
    <3>1. \A r \in disk : r.file # last_write
      BY <1>1 DEF FaultFree, NoHoles, NoFile
    <3>2. WholeUpTo(last_write, 0, disk)
      BY DEF WholeUpTo
    <3> QED
      BY <2>2, <3>1, <3>2 DEF FileEnd
  <2> QED
    BY <2>1, <2>2
<1> QED
  BY <1>2, <1>3, <1>4, <1>5, <1>6 DEF FaultFree

\* Opening a file overwrites nothing: no record reaches up to log_max_len.
LEMMA OpeningKeepsRecords ==
    ASSUME Naming, FaultFree, NEW t \in Txns, EnsureOpen(t)
    PROVE  disk' = disk
<1>1. /\ last_write \in Nat /\ log_len \in Nat /\ log_max_len \in Nat
      /\ \A r \in disk : /\ r.file \in Nat \cup {NoFile} /\ r.lsn \in Nat
                         /\ r.pos \in Nat /\ r.len \in Nat
  BY SizeAssumption
     DEF Naming, Queueing, Locking, TypeOK, SharedTypes, FileTypes, LogRecords
<1>2. ASSUME NEW r \in disk, r.file = NextFile
      PROVE  ~(log_max_len < r.pos + r.len)
  <2>1. ~Rolls
    <3>1. r.file # last_write
      BY <1>1 DEF FaultFree, NoHoles, NoFile
    <3> QED
      BY <1>2, <3>1 DEF NextFile, NewName
  <2>2. r.pos + r.len <= log_len /\ ~(log_len >= log_max_len)
    BY <1>2, <2>1 DEF NextFile, Rolls, FaultFree, FileEnd
  <2> QED
    BY <1>1, <2>2
<1>3. Grown(disk, NextFile) = disk
  BY <1>2 DEF Grown
<1> QED
  BY <1>3 DEF EnsureOpen

\* Where the records of a batch end, the padding included.
Cut(t) ==
    [i \in 0..Len(batch[t]) |->
        IF i = Len(batch[t]) THEN Bytes(t) ELSE Ends(Lengths(batch[t]))[i]]

\* The i-th record of a batch, in a process that is right about its file.
Written(t, i) ==
    [file |-> log_filename, pos |-> log_len + Cut(t)[i - 1],
     len |-> Cut(t)[i] - Cut(t)[i - 1],
     txn |-> buffers[batch[t][i]].txn, lsn |-> last_write + i]

\* Each record of a batch begins where the one before it ends.
LEMMA CutsGrow ==
    ASSUME TypeOK, RoomLeft, NEW t \in Txns
    PROVE  /\ Len(batch[t]) \in Nat /\ Bytes(t) \in Nat
           /\ Cut(t) \in [0..Len(batch[t]) -> Nat]
           /\ Cut(t)[0] = 0 /\ Cut(t)[Len(batch[t])] = Bytes(t)
           /\ \A i \in 1..Len(batch[t]) : Cut(t)[i - 1] < Cut(t)[i]
           /\ \A i \in 1..Len(batch[t]) :
                 /\ Ends(Lengths(batch[t]))[i - 1] = Cut(t)[i - 1]
                 /\ Ends(Lengths(batch[t]))[i] <= Bytes(t)
                 /\ Cut(t)[i] = IF i = Len(batch[t]) THEN Bytes(t)
                                                     ELSE Ends(Lengths(batch[t]))[i]
<1> DEFINE k == Len(batch[t])
           e == Ends(Lengths(batch[t]))
           c == Cut(t)
           b == Bytes(t)
<1>1. batch[t] \in Seq(BufferIds) /\ k \in Nat
  BY LenProperties DEF TypeOK, BufferTypes
<1>2. e \in [0..k -> Nat] /\ e[0] = 0 /\ \A i \in 1..k : e[i - 1] < e[i]
  BY <1>1, EndsGrow
<1>3. b \in Nat /\ b >= e[k]
  BY BytesType
<1>4. k = 0 => b = 0
  BY WriteEnds
<1>5. c = [i \in 0..k |-> IF i = k THEN b ELSE e[i]]
  BY DEF Cut
<1> HIDE DEF k, e, c, b
<1>6. \A i, j \in 0..k : i < j => e[i] < e[j]
  BY <1>1, <1>2, Grows
<1>7. c \in [0..k -> Nat] /\ c[0] = 0 /\ c[k] = b
  BY <1>1, <1>2, <1>3, <1>4, <1>5
<1>8. ASSUME NEW i \in 1..k
      PROVE  /\ e[i - 1] = c[i - 1] /\ e[i] <= b /\ c[i - 1] < c[i]
             /\ c[i] = IF i = k THEN b ELSE e[i]
  <2>1. i \in 0..k /\ i - 1 \in 0..k /\ i - 1 # k /\ k \in 0..k
    BY <1>1
  <2>2. e[i - 1] = c[i - 1] /\ c[i] = IF i = k THEN b ELSE e[i]
    BY <1>5, <2>1
  <2>3. e[i] <= e[k]
    <3>1. i = k \/ i < k
      BY <1>1
    <3>2. e[i] \in Nat /\ e[k] \in Nat
      BY <1>2, <2>1
    <3> QED
      BY <1>6, <2>1, <3>1, <3>2
  <2>4. e[i] \in Nat /\ e[i - 1] \in Nat /\ e[k] \in Nat /\ e[i - 1] < e[i]
    BY <1>2, <2>1
  <2> QED
    BY <1>3, <2>2, <2>3, <2>4
<1> QED
  BY <1>1, <1>3, <1>7, <1>8 DEF k, e, c, b

\* What a write adds: consecutive records behind those of the current file, which
\* stay as they are.
LEMMA WriteAppends ==
    ASSUME Naming, FaultFree, write_faults = 0, NEW t \in Txns, WriteBatch(t)
    PROVE  /\ WriteOffset(Home[t]) = log_len
           /\ log_filename \in Nat
           /\ disk' = disk \cup {Written(t, i) : i \in 1..Len(batch[t])}
           /\ \A i \in 1..Len(batch[t]) :
                 /\ buffers[batch[t][i]].txn \in Txns
                 /\ buffers[batch[t][i]].lsn = last_write + i
<1> DEFINE k == Len(batch[t])
           b == Bytes(t)
           e == Ends(Lengths(batch[t]))
<1>1. pc[t] = "write" /\ disk' = Over(disk, Records(t, b))
  BY DEF WriteBatch
<1>2. WriteOffset(Home[t]) = log_len
  BY HomeAssumption DEF WriteOffset, FaultFree, OffsetsRight
<1>3. /\ log_filename \in Nat /\ log_len \in Nat /\ logfd[Home[t]] = log_filename
      /\ \A r \in disk : /\ r.pos \in Nat /\ r.len \in Nat \ {0}
  BY <1>1, HomeAssumption DEF Naming, OpenOnCurrent, Queueing, Locking, TypeOK, SharedTypes,
     FileTypes, LogRecords
<1>4. \A i \in 1..k : /\ buffers[batch[t][i]].lsn = last_write + i
                      /\ buffers[batch[t][i]].txn \in Txns
  <2> TAKE i \in 1..k
  <2>1. /\ buffers[batch[t][i]].lsn = last_write + i
        /\ \E u \in Txns : buffers[batch[t][i]] = [txn |-> u, lsn |-> lsn[u]]
    BY <1>1, BatchIsNext DEF Naming
  <2> QED
    BY <2>1
<1>5. /\ k \in Nat /\ b \in Nat /\ Cut(t) \in [0..k -> Nat]
      /\ \A i \in 1..k : Cut(t)[i - 1] < Cut(t)[i]
      /\ \A i \in 1..k : /\ e[i - 1] = Cut(t)[i - 1] /\ e[i] <= b
                         /\ Cut(t)[i] = IF i = k THEN b ELSE e[i]
  BY CutsGrow DEF Naming, Queueing, Locking
<1>6. \A i \in 1..k : /\ i \in 0..k /\ i - 1 \in 0..k /\ Cut(t)[i - 1] \in Nat /\ Cut(t)[i] \in Nat
                      /\ e[i - 1] < b
  <2> TAKE i \in 1..k
  <2>1. i \in 0..k /\ i - 1 \in 0..k
    BY <1>5
  <2>2. Cut(t)[i - 1] \in Nat /\ Cut(t)[i] \in Nat
    BY <1>5, <2>1
  <2>3. e \in [0..k -> Nat] /\ e[i - 1] < e[i]
    BY EndsGrow DEF Naming, Queueing, Locking, TypeOK, BufferTypes
  <2>4. e[i - 1] \in Nat /\ e[i] \in Nat
    BY <2>1, <2>3
  <2>5. e[i] <= b
    BY <1>5
  <2>6. e[i - 1] < b
    <3> HIDE DEF e, b
    <3> QED
      BY <1>5, <2>3, <2>4, <2>5
  <2> QED
    BY <2>1, <2>2, <2>6
<1>7. Records(t, b) = {Written(t, i) : i \in 1..k}
  <2>1. {j \in 1..k : e[j - 1] < b} = 1..k
    BY <1>6
  <2>2. Records(t, b) =
           {[file |-> log_filename, pos |-> log_len + e[i - 1],
             len |-> (IF i = k \/ b < e[i] THEN b ELSE e[i]) - e[i - 1],
             txn |-> IF b < e[i] THEN NoTxn ELSE buffers[batch[t][i]].txn,
             lsn |-> buffers[batch[t][i]].lsn] : i \in 1..k}
    BY <1>2, <1>3, <2>1 DEF Records
  <2>3. ASSUME NEW i \in 1..k
        PROVE  [file |-> log_filename, pos |-> log_len + e[i - 1],
                len |-> (IF i = k \/ b < e[i] THEN b ELSE e[i]) - e[i - 1],
                txn |-> IF b < e[i] THEN NoTxn ELSE buffers[batch[t][i]].txn,
                lsn |-> buffers[batch[t][i]].lsn] = Written(t, i)
    <3>1. ~(b < e[i])
      <4>1. e[i] \in Nat
        <5>1. e \in [0..k -> Nat]
          BY EndsGrow DEF Naming, Queueing, Locking, TypeOK, BufferTypes
        <5> QED
          BY <1>6, <5>1
      <4> QED
        BY <1>5, <4>1
    <3>2. e[i - 1] = Cut(t)[i - 1] /\ (IF i = k THEN b ELSE e[i]) = Cut(t)[i]
      BY <1>5
    <3>3. buffers[batch[t][i]].lsn = last_write + i
      BY <1>4
    <3> HIDE DEF b, e, k
    <3> QED
      BY <3>1, <3>2, <3>3 DEF Written
  <2> HIDE DEF b, e, k
  <2> QED
    BY <2>2, <2>3
<1>8. ASSUME NEW r \in disk, NEW i \in 1..k
      PROVE  ~Overlap(Written(t, i), r)
  <2> SUFFICES ASSUME r.file = log_filename, log_len + Cut(t)[i - 1] < r.pos + r.len
               PROVE  FALSE
    BY DEF Overlap, Written
  <2>1. r.pos + r.len <= log_len
    BY DEF FaultFree, FileEnd
  <2> QED
    BY <1>3, <1>6, <2>1
<1>9. disk' = disk \cup {Written(t, i) : i \in 1..k}
  BY <1>1, <1>7, <1>8 DEF Over
<1> QED
  BY <1>2, <1>3, <1>4, <1>9

\* A write that does not fail keeps the files without holes and rightly named.
LEMMA FaultFreeWrite ==
    ASSUME Naming, LsnsUnique, FaultFree, write_faults = 0, NEW t \in Txns, WriteBatch(t)
    PROVE  FaultFree'
<1> DEFINE k == Len(batch[t])
           c == Cut(t)
           New == {Written(t, i) : i \in 1..k}
<1>1. /\ WriteOffset(Home[t]) = log_len /\ log_filename \in Nat
      /\ disk' = disk \cup New
      /\ \A i \in 1..k : /\ buffers[batch[t][i]].txn \in Txns
                         /\ buffers[batch[t][i]].lsn = last_write + i
  BY WriteAppends
<1>2. /\ k \in Nat /\ Bytes(t) \in Nat /\ c \in [0..k -> Nat] /\ c[0] = 0 /\ c[k] = Bytes(t)
      /\ \A i \in 1..k : c[i - 1] < c[i]
  BY CutsGrow DEF Naming, Queueing, Locking
<1>3. /\ log_len \in Nat /\ last_write \in Nat
      /\ last_write' = last_write + k /\ log_len' = log_len + c[k]
      /\ log_filename' = log_filename /\ log_filename # NoFile
      /\ lsn' = lsn /\ pc[t] = "write" /\ write_faults' = write_faults
      /\ log_filename <= last_write
  <2>1. last_write' = last_write + k
    BY WriteAdvances DEF Naming
  <2>2. log_len \in Nat /\ last_write \in Nat
    BY DEF Naming, Queueing, Locking, TypeOK, SharedTypes
  <2>3. log_filename # NoFile /\ log_filename <= last_write
    BY DEF WriteBatch, Naming, OpenOnCurrent, NamesInOrder
  <2> QED
    BY <1>2, <2>1, <2>2, <2>3 DEF WriteBatch, faults
<1>c. \A i, j \in 0..k : i < j => c[i] < c[j]
  BY <1>2, Grows
<1>4. \A i \in 1..k : i \in 0..k /\ i - 1 \in 0..k /\ c[i] \in Nat /\ c[i - 1] \in Nat
  <2> TAKE i \in 1..k
  <2>1. i \in 0..k /\ i - 1 \in 0..k
    BY <1>2
  <2> QED
    BY <1>2, <2>1
<1> HIDE DEF c, k
\* The records that are new
<1>5. ASSUME NEW i \in 1..k
      PROVE  /\ Written(t, i).file = log_filename
             /\ Written(t, i).pos = log_len + c[i - 1]
             /\ Written(t, i).pos + Written(t, i).len = log_len + c[i]
             /\ Written(t, i).txn = buffers[batch[t][i]].txn
             /\ Written(t, i).txn \in Txns /\ Written(t, i).txn # NoTxn
             /\ Written(t, i).lsn = last_write + i
  <2>1. Written(t, i) = [file |-> log_filename, pos |-> log_len + c[i - 1],
                         len |-> c[i] - c[i - 1],
                         txn |-> buffers[batch[t][i]].txn, lsn |-> last_write + i]
    BY DEF Written, c
  <2>2. buffers[batch[t][i]].txn \in Txns
    BY <1>1
  <2>3. (log_len + c[i - 1]) + (c[i] - c[i - 1]) = log_len + c[i]
    BY <1>3, <1>4
  <2> QED
    BY <2>1, <2>2, <2>3, NoTxnAssumption
<1>6. \A i \in 1..k : Written(t, i) \in disk'
  BY <1>1
\* The records of before
<1>7. ASSUME NEW r \in disk
      PROVE  /\ r \in disk' /\ r.file \in Nat \cup {NoFile} /\ r.pos \in Nat
             /\ r.len \in Nat \ {0} /\ r.lsn \in Nat
             /\ r.lsn <= last_write /\ r.txn # NoTxn /\ r.file < r.lsn
             /\ WholeUpTo(r.file, r.pos, disk)
             /\ r.file = log_filename => r.pos + r.len <= log_len
  BY <1>1 DEF FaultFree, NoHoles, FileEnd, Naming, Queueing, Locking, TypeOK, FileTypes,
              LogRecords
<1>8. \A f, n : WholeUpTo(f, n, disk) => WholeUpTo(f, n, disk')
  BY <1>1 DEF WholeUpTo
<1>9. OffsetsRight'
  <2>1. /\ my_fp_offset \in [Procs -> Nat] /\ fp \in [Procs -> Nat] /\ Home[t] \in Procs
    BY HomeAssumption DEF Naming, Queueing, Locking, TypeOK, HandleTypes
  <2> QED
    BY <1>1, <2>1 DEF WriteBatch, FaultFree, OffsetsRight
\* The file is whole up to its new end
<1>10. ASSUME NEW n \in Nat, n <= log_len + c[k]
       PROVE  WholeUpTo(log_filename, n, disk')
  <2> SUFFICES ASSUME NEW i \in 0..(n - 1)
               PROVE  \E q \in disk' : Holds(q, log_filename, i)
    BY DEF WholeUpTo
  <2>1. CASE i < log_len
    <3>1. i \in 0..(log_len - 1)
      BY <1>3, <2>1
    <3> QED
      BY <1>1, <3>1 DEF FaultFree, FileEnd, WholeUpTo
  <2>2. CASE ~(i < log_len)
    <3>0. c[k] \in Nat
      BY <1>2
    <3> DEFINE b == i - log_len
    <3>1. b \in Nat /\ b < c[k]
      BY <1>3, <1>10, <2>2, <3>0
    <3> HIDE DEF b
    <3>2. PICK j \in 1..k : c[j - 1] <= b /\ b < c[j]
      <4>1. k \in Nat /\ c \in [0..k -> Nat] /\ c[0] = 0
        BY <1>2
      <4> QED
        BY <3>1, <4>1, NoGap
    <3>3. log_len + c[j - 1] <= i /\ i < log_len + c[j]
      BY <1>3, <1>4, <3>2 DEF b
    <3> QED
      BY <1>5, <1>6, <3>3 DEF Holds
  <2> QED
    BY <2>1, <2>2
<1>11. FileEnd'
  <2>0. c[k] \in Nat
    BY <1>2
  <2>1. WholeUpTo(log_filename, log_len + c[k], disk')
    BY <1>3, <1>10, <2>0
  <2>2. ASSUME NEW r \in disk', r.file = log_filename
        PROVE  r.pos + r.len <= log_len + c[k]
    <3>1. CASE r \in disk
      BY <1>3, <1>7, <2>0, <2>2, <3>1
    <3>2. ASSUME NEW i \in 1..k, r = Written(t, i)
          PROVE  r.pos + r.len <= log_len + c[k]
      <4>1. i = k \/ i < k
        BY <1>2
      <4>2. c[i] <= c[k]
        BY <1>c, <1>2, <1>4, <2>0, <4>1
      <4> QED
        BY <1>3, <1>4, <1>5, <2>0, <3>2, <4>2
    <3> QED
      BY <1>1, <3>1, <3>2
  <2>3. CASE k = 0
    BY <1>1, <1>2, <1>3, <2>1, <2>2, <2>3 DEF FaultFree, FileEnd
  <2>4. CASE k # 0
    <3>1. k \in 1..k /\ 0 \in 0..k /\ k \in 0..k /\ 0 < k
      BY <1>2, <2>4
    <3>2. c[k] > 0
      BY <1>2, <1>c, <3>1
    <3>3. /\ Written(t, k) \in disk' /\ Written(t, k).file = log_filename
          /\ Written(t, k).pos + Written(t, k).len = log_len + c[k]
          /\ Written(t, k).lsn = last_write + k
      BY <1>5, <1>6, <3>1
    <3>4. log_len + c[k] # 0
      BY <1>3, <2>0, <3>2
    <3> QED
      BY <1>3, <2>1, <2>2, <3>3, <3>4 DEF FileEnd
  <2> QED
    BY <2>3, <2>4
\* Each record follows another
<1>12. FilesNamedByLsn'
  <2> SUFFICES ASSUME NEW r \in disk'
               PROVE  IF r.pos = 0 THEN r.lsn = r.file + 1 ELSE \E q \in disk' : Follows(q, r)
    BY DEF FilesNamedByLsn
  <2>1. CASE r \in disk
    BY <1>1, <2>1 DEF FaultFree, FilesNamedByLsn
  <2>2. ASSUME NEW i \in 1..k, r = Written(t, i)
        PROVE  IF r.pos = 0 THEN r.lsn = r.file + 1 ELSE \E q \in disk' : Follows(q, r)
    <3>1. r.file = log_filename /\ r.pos = log_len + c[i - 1] /\ r.lsn = last_write + i
      BY <1>5, <2>2
    <3>2. CASE i # 1
      <4>1. i - 1 \in 1..k /\ 0 \in 0..k /\ i - 1 \in 0..k /\ 0 < i - 1
        BY <1>2, <3>2
      <4>2. c[i - 1] > 0
        BY <1>2, <1>c, <4>1
      <4>3. r.pos # 0
        BY <1>3, <1>4, <3>1, <4>2
      <4>4. /\ Written(t, i - 1) \in disk' /\ Written(t, i - 1).file = log_filename
            /\ Written(t, i - 1).pos + Written(t, i - 1).len = log_len + c[i - 1]
            /\ Written(t, i - 1).lsn = last_write + (i - 1)
        BY <1>5, <1>6, <4>1
      <4>5. (last_write + (i - 1)) + 1 = last_write + i
        BY <1>3
      <4> QED
        BY <3>1, <4>3, <4>4, <4>5 DEF Follows
    <3>3. CASE i = 1 /\ log_len = 0
      BY <1>2, <1>3, <3>1, <3>3 DEF FaultFree, FileEnd
    <3>4. CASE i = 1 /\ log_len # 0
      <4>1. PICK q \in disk : q.file = log_filename /\ q.pos + q.len = log_len /\ q.lsn = last_write
        BY <3>4 DEF FaultFree, FileEnd
      <4>2. r.pos = log_len /\ r.lsn = last_write + 1
        BY <1>2, <1>3, <3>1, <3>4
      <4> QED
        BY <1>1, <3>1, <3>4, <4>1, <4>2 DEF Follows
    <3> QED
      BY <3>2, <3>3, <3>4
  <2> QED
    BY <1>1, <2>1, <2>2
<1>13. NoHoles'
  <2>1. ASSUME NEW r \in disk'
        PROVE  /\ r.lsn <= last_write' /\ r.txn # NoTxn /\ r.file < r.lsn
               /\ WholeUpTo(r.file, r.pos, disk')
    <3>1. CASE r \in disk
      <4>1. r.lsn <= last_write + k
        BY <1>2, <1>3, <1>7, <3>1
      <4> QED
        BY <1>3, <1>7, <1>8, <3>1, <4>1
    <3>2. ASSUME NEW i \in 1..k, r = Written(t, i)
          PROVE  /\ r.lsn <= last_write' /\ r.txn # NoTxn /\ r.file < r.lsn
                 /\ WholeUpTo(r.file, r.pos, disk')
      <4>1. /\ r.file = log_filename /\ r.pos = log_len + c[i - 1]
            /\ r.lsn = last_write + i /\ r.txn # NoTxn
        BY <1>5, <3>2
      <4>2. r.lsn <= last_write + k /\ log_filename < r.lsn
        BY <1>1, <1>2, <1>3, <4>1
      <4>3. c[i - 1] <= c[k] /\ c[k] \in Nat
        <5>1. i - 1 < k /\ k \in 0..k
          BY <1>2
        <5> QED
          BY <1>2, <1>c, <1>4, <5>1
      <4>4. log_len + c[i - 1] \in Nat /\ log_len + c[i - 1] <= log_len + c[k]
        BY <1>3, <1>4, <4>3
      <4>5. WholeUpTo(log_filename, log_len + c[i - 1], disk')
        BY <1>10, <4>4
      <4> QED
        BY <1>3, <4>1, <4>2, <4>5
    <3> QED
      BY <1>1, <3>1, <3>2
  <2>2. ASSUME NEW q \in disk', NEW r \in disk', q.file = r.file, q.pos <= r.pos
        PROVE  q.lsn <= r.lsn
    <3>1. CASE q \in disk /\ r \in disk
      BY <2>2, <3>1 DEF FaultFree, NoHoles
    <3>2. ASSUME NEW j \in 1..k, r = Written(t, j), q \in disk
          PROVE  q.lsn <= r.lsn
      <4>1. r.lsn = last_write + j /\ q.lsn <= last_write /\ q.lsn \in Nat
        BY <1>5, <1>7, <3>2
      <4> QED
        BY <1>3, <4>1
    <3>3. ASSUME NEW i \in 1..k, q = Written(t, i), r \in disk
          PROVE  FALSE
      <4>1. q.pos = log_len + c[i - 1] /\ r.file = log_filename
        BY <1>5, <2>2, <3>3
      <4>2. r.pos + r.len <= log_len /\ r.pos \in Nat /\ r.len \in Nat \ {0}
        BY <1>7, <3>3, <4>1
      <4> QED
        BY <1>3, <1>4, <2>2, <4>1, <4>2
    <3>4. ASSUME NEW i \in 1..k, NEW j \in 1..k, q = Written(t, i), r = Written(t, j)
          PROVE  q.lsn <= r.lsn
      <4>1. /\ q.pos = log_len + c[i - 1] /\ q.lsn = last_write + i
            /\ r.pos = log_len + c[j - 1] /\ r.lsn = last_write + j
        BY <1>5, <3>4
      <4>2. c[i - 1] <= c[j - 1]
        BY <1>3, <1>4, <2>2, <4>1
      <4>3. ~(j - 1 < i - 1)
        BY <1>c, <1>4, <4>2
      <4>4. i <= j
        BY <4>3
      <4> QED
        BY <1>3, <4>1, <4>4
    <3> QED
      BY <1>1, <3>1, <3>2, <3>3, <3>4
  <2> QED
    BY <2>1, <2>2 DEF NoHoles
<1>14. CoveredIsLogged'
  <2> SUFFICES ASSUME NEW u \in Txns, lsn[u] # 0, lsn[u] <= last_write + k
               PROVE  \E r \in disk' : r.txn = u /\ r.lsn = lsn[u]
    BY <1>3 DEF CoveredIsLogged
  <2>1. CASE lsn[u] <= last_write
    BY <1>1, <2>1 DEF FaultFree, CoveredIsLogged
  <2>2. CASE ~(lsn[u] <= last_write)
    <3> DEFINE i == lsn[u] - last_write
    <3>1. i \in 1..k /\ last_write + i = lsn[u]
      <4>1. lsn[u] \in Nat
        BY DEF Naming, Queueing, Locking, TypeOK
      <4> QED
        BY <1>2, <1>3, <2>2, <4>1
    <3> HIDE DEF i
    <3>2. /\ buffers[batch[t][i]].lsn = last_write + i
          /\ \E v \in Txns : buffers[batch[t][i]] = [txn |-> v, lsn |-> lsn[v]]
      BY <1>3, <3>1, BatchIsNext DEF Naming, k
    <3>3. PICK v \in Txns : buffers[batch[t][i]] = [txn |-> v, lsn |-> lsn[v]]
      BY <3>2
    <3>4. v = u
      BY <3>1, <3>2, <3>3 DEF LsnsUnique
    <3> QED
      BY <1>5, <1>6, <3>1, <3>3, <3>4
  <2> QED
    BY <2>1, <2>2
<1> QED
  BY <1>9, <1>11, <1>12, <1>13, <1>14 DEF FaultFree

FileInv == Naming /\ LsnsUnique /\ (write_faults = 0 => FaultFree)

\* In a new region nothing is in the log and nothing has to be.
LEMMA InitFileInv == Init => FileInv
<1> SUFFICES ASSUME Init
             PROVE  FileInv
  OBVIOUS
<1>1. Naming
  BY InitNaming
<1>2. LsnsUnique
  BY DEF Init, LsnsUnique, InLog, Returned
<1>3. FaultFree
  BY DEF Init, FaultFree, OffsetsRight, FileEnd, WholeUpTo, FilesNamedByLsn, NoHoles,
     CoveredIsLogged
<1> QED
  BY <1>1, <1>2, <1>3 DEF FileInv

\* Every step keeps the whole invariant.
LEMMA NextFileInv == FileInv /\ [Next]_vars => FileInv'
<1> SUFFICES ASSUME FileInv, [Next]_vars, write_faults' = 0
             PROVE  FaultFree'
  BY NextNaming, NextLsnsUnique DEF FileInv
<1>a. Naming /\ LsnsUnique
  BY DEF FileInv
<1>b. /\ last_write \in Nat /\ write_faults \in Nat
      /\ my_fp_offset \in [Procs -> Nat] /\ fp \in [Procs -> Nat]
      /\ lsn \in [Txns -> Nat] /\ next_lsn \in Nat
  BY <1>a, FaultAssumption
     DEF Naming, Queueing, Locking, TypeOK, SharedTypes, HandleTypes, FileTypes
<1>1. ASSUME NEW t \in Txns, WriteFails(t)
      PROVE  FALSE
  BY <1>1, <1>b DEF WriteFails
<1>2. ASSUME NEW t \in Txns, WriteBatch(t)
      PROVE  FaultFree'
  <2>1. write_faults = 0
    BY <1>2 DEF WriteBatch, faults
  <2> QED
    BY <1>2, <1>a, <2>1, FaultFreeWrite DEF FileInv
<1>3. ASSUME UNCHANGED <<last_write, disk, write_faults>>,
             \/ UNCHANGED <<log_filename, log_len>>
             \/ log_filename' = last_write /\ log_len' = 0,
             \/ UNCHANGED <<my_fp_offset, fp>>
             \/ \E p \in Procs, n \in Nat : /\ my_fp_offset' = [my_fp_offset EXCEPT ![p] = n]
                                            /\ fp' = [fp EXCEPT ![p] = n],
             \A t \in Txns : lsn'[t] = lsn[t] \/ ~(lsn'[t] <= last_write)
      PROVE  FaultFree'
  <2>1. FaultFree
    BY <1>3 DEF FileInv
  <2>2. \A p \in Procs : my_fp_offset'[p] = fp'[p]
    BY <1>3, <1>b, <2>1 DEF FaultFree, OffsetsRight
  <2> QED
    BY <1>3, <1>a, <2>1, <2>2, FaultFreeStill
<1>4. ASSUME NEW t \in Txns, QueueForCommit(t)
      PROVE  FaultFree'
  <2>1. \A u \in Txns : lsn'[u] = lsn[u] \/ ~(lsn'[u] <= last_write)
    <3>1. last_write + Len(Pending) <= next_lsn - 1 /\ Len(Pending) \in Nat
      BY <1>a, PendingShape DEF Naming, Queueing, QueueInOrder
    <3> QED
      BY <1>4, <1>b, <3>1 DEF QueueForCommit
  <2> QED
    BY <1>3, <1>4, <2>1 DEF QueueForCommit, handles, files, faults
<1>5. ASSUME NEW t \in Txns, EnsureOpen(t)
      PROVE  FaultFree'
  <2>1. Home[t] \in Procs /\ log_max_len + 1 \in Nat
    BY <1>a, HomeAssumption, SizeAssumption DEF Naming, Queueing, Locking, TypeOK,
       SharedTypes
  <2>2. UNCHANGED <<last_write, write_faults, lsn>>
    BY <1>5 DEF EnsureOpen, faults
  <2>5. disk' = disk
    BY <1>5, <1>a, <2>2, OpeningKeepsRecords DEF FileInv
  <2>3. \/ UNCHANGED <<log_filename, log_len>>
        \/ log_filename' = last_write /\ log_len' = 0
    BY <1>5 DEF EnsureOpen, NameNextFile, NextFile, NewName
  <2>4. \/ UNCHANGED <<my_fp_offset, fp>>
        \/ \E p \in Procs, n \in Nat : /\ my_fp_offset' = [my_fp_offset EXCEPT ![p] = n]
                                       /\ fp' = [fp EXCEPT ![p] = n]
    BY <1>5, <2>1 DEF EnsureOpen, handles
  <2> QED
    BY <1>3, <2>2, <2>3, <2>4, <2>5
<1>6. ASSUME NEW t \in Txns, OpenFails(t)
      PROVE  FaultFree'
  BY <1>3, <1>6 DEF OpenFails, NameNextFile, NextFile, NewName, files
<1>7. CASE CheckpointAdvance
  BY <1>3, <1>7 DEF CheckpointAdvance, NewName, handles, files, faults
<1>8. ASSUME NEW t \in Txns,
             \/ TakeBuffer(t) \/ QueueRefuses(t) \/ EnterLog(t) \/ Gather(t) \/ LeaveLog(t)
             \/ Complete(t) \/ Rollback(t) \/ CommitDiskless(t)
      PROVE  FaultFree'
  <2>1. UNCHANGED <<last_write, disk, write_faults, log_filename, log_len, my_fp_offset,
                    fp, lsn>>
    BY <1>8 DEF TakeBuffer, QueueRefuses, EnterLog, Gather, LeaveLog, Complete, Rollback,
                CommitDiskless, shared, handles, files, faults
  <2> QED
    BY <1>3, <2>1
<1>9. ASSUME NEW p \in Procs, CheckpointSync(p)
      PROVE  FaultFree'
  BY <1>3, <1>9 DEF CheckpointSync, handles, faults
<1>10. CASE UNCHANGED vars
  BY <1>3, <1>10 DEF vars, shared, handles, files, faults
<1> QED
  BY <1>1, <1>2, <1>4, <1>5, <1>6, <1>7, <1>8, <1>9, <1>10 DEF Next, Commit, Fault, Recourse

\* Unless a write failed, a record's place follows from its LSN and the name of
\* its file (logger.h: ensure_open_logfile, log).
THEOREM FilesAreNamedByLsn == Spec => []FilesNamedByLsn
<1>1. FileInv => FilesNamedByLsn
  BY DEF FileInv, FaultFree, FilesNamedByLsn
<1> QED
  BY <1>1, InitFileInv, NextFileInv, PTL DEF Spec

\* Unless a write failed, no byte of the log is written twice, although each process
\* positions its own handle on the shared files (logger.h: log).
THEOREM LogIsWrittenOnce == Spec => LogIsWriteOnce
<1>1. FileInv /\ [Next]_vars => [write_faults' = 0 => disk \subseteq disk']_disk
  <2> SUFFICES ASSUME FileInv, Next, write_faults' = 0
               PROVE  disk \subseteq disk'
    BY DEF vars, files
  <2>a. write_faults \in Nat
    BY DEF FileInv, Naming, Queueing, Locking, TypeOK, FileTypes
  <2>1. ASSUME NEW t \in Txns, WriteBatch(t)
        PROVE  disk \subseteq disk'
    <3>1. write_faults = 0
      BY <2>1 DEF WriteBatch, faults
    <3> QED
      BY <2>1, <3>1, WriteAppends DEF FileInv
  <2>2. ASSUME NEW t \in Txns, WriteFails(t)
        PROVE  FALSE
    BY <2>a, <2>2 DEF WriteFails
  <2>4. ASSUME NEW t \in Txns, EnsureOpen(t)
        PROVE  disk \subseteq disk'
    <3>1. write_faults = 0
      BY <2>4 DEF EnsureOpen, faults
    <3> QED
      BY <2>4, <3>1, OpeningKeepsRecords DEF FileInv
  <2>3. CASE UNCHANGED disk
    BY <2>3
  <2> QED
    BY <2>1, <2>2, <2>3, <2>4 DEF Next, Commit, Fault, Recourse, TakeBuffer, QueueForCommit,
       QueueRefuses, EnterLog, OpenFails, Gather, LeaveLog, Complete, Rollback,
       CommitDiskless, CheckpointAdvance, CheckpointSync, files
<1> QED
  BY <1>1, InitFileInv, NextFileInv, PTL DEF Spec, LogIsWriteOnce

\* Unless a write failed, log() returns to a transaction only when its record can be
\* read back, whichever thread of whichever process wrote it (logger.h: log).
THEOREM CommitsAreLogged == Spec => []CommitIsLogged
<1>1. FileInv => CommitIsLogged
  <2> SUFFICES ASSUME FileInv, write_faults = 0, NEW t \in Txns, pc[t] \in Returned
               PROVE  InReadableLog(t, disk)
    BY DEF CommitIsLogged
  <2>1. FaultFree /\ LsnsUnique
    BY DEF FileInv
  <2>2. lsn[t] # 0 /\ lsn[t] <= last_write
    BY <2>1 DEF LsnsUnique
  <2>3. PICK r \in disk : r.txn = t /\ r.lsn = lsn[t]
    BY <2>1, <2>2 DEF FaultFree, CoveredIsLogged
  <2>4. Readable(r, disk)
    BY <2>1 DEF FaultFree, NoHoles, Readable
  <2> QED
    BY <2>3, <2>4 DEF InReadableLog
<1> QED
  BY <1>1, InitFileInv, NextFileInv, PTL DEF Spec

-----------------------------------------------------------------------------
\* The inductive invariant of synchronous logging

\* Whoever is to write has something to sync after it, and who has returned is synced.
SyncKnown ==
    /\ last_sync <= last_write
    /\ \A t \in Txns : pc[t] \in {"gather", "write"} => lsn[t] > last_sync
    /\ \A t \in Txns : log_sync /\ pc[t] \in Returned => lsn[t] <= last_sync

\* The file was filled up and left behind.
LeftFull(f) ==
    f # log_filename /\ \E q \in disk : q.file = f /\ q.pos + q.len >= log_max_len

\* The thread inside log() will sync the record: its process has the current file open, and
\* knows it, and nobody has synced as far as the thread waits for.
ToBeSynced(r) ==
    /\ file_mutex # NoTxn /\ log_filename # NoFile
    /\ my_log_filename[Home[file_mutex]] = log_filename
    /\ logfd[Home[file_mutex]] = log_filename
    /\ r.file = log_filename
    /\ r.lsn > last_sync /\ lsn[file_mutex] > last_sync

SyncedOrFull ==
    log_sync /\ write_faults = 0 =>
        \A r \in disk : r \in durable \/ LeftFull(r.file) \/ ToBeSynced(r)

SyncInv == FileInv /\ SyncKnown /\ SyncedOrFull

-----------------------------------------------------------------------------
\* What is on the device

\* Types that the lemmas below use.
LEMMA SyncTypes ==
    ASSUME FileInv
    PROVE  /\ TypeOK /\ LogMutex /\ LsnsUnique /\ NamesInOrder /\ OpenOnCurrent
           /\ last_sync \in Nat /\ last_write \in Nat /\ log_len \in Nat /\ NoFile = -1
           /\ log_max_len \in Nat \ {0} /\ log_filename \in Nat \cup {NoFile}
           /\ lsn \in [Txns -> Nat] /\ pc \in [Txns -> Points]
           /\ my_log_filename \in [Procs -> Nat \cup {NoFile}]
           /\ logfd \in [Procs -> Nat \cup {NoFile}]
           /\ \A r \in disk : /\ r.lsn \in Nat /\ r.pos \in Nat /\ r.len \in Nat \ {0}
                              /\ r.file \in Nat \cup {NoFile}
<1>1. TypeOK /\ LogMutex /\ LsnsUnique /\ NamesInOrder /\ OpenOnCurrent
  BY DEF FileInv, Naming, Queueing, Locking
<1>2. /\ last_sync \in Nat /\ last_write \in Nat /\ log_filename \in Nat \cup {NoFile}
      /\ log_max_len \in Nat \ {0} /\ log_len \in Nat
  BY <1>1, SizeAssumption DEF TypeOK, SharedTypes
<1> QED
  BY <1>1, <1>2 DEF TypeOK, HandleTypes, FileTypes, LogRecords, NoFile

\* Threads outside of log(), and threads that stay where they are, know what they knew.
LEMMA NextSyncKnown ==
    ASSUME FileInv, SyncKnown, [Next]_vars
    PROVE  SyncKnown'
<1>a. /\ TypeOK /\ LogMutex /\ LsnsUnique
      /\ last_sync \in Nat /\ last_write \in Nat /\ lsn \in [Txns -> Nat]
      /\ pc \in [Txns -> Points]
  BY SyncTypes
<1>b. last_write' \in Nat /\ last_write <= last_write'
  BY LastWriteGrows DEF FileInv
<1>1. ASSUME UNCHANGED <<last_sync, log_sync>>,
             \A u \in Txns :
                /\ pc'[u] \in {"gather", "write"} => pc[u] \in {"gather", "write"}
                /\ pc'[u] \in Returned => pc[u] \in Returned
                /\ lsn'[u] = lsn[u] \/ pc'[u] = "queued"
      PROVE  SyncKnown'
  BY <1>1, <1>a, <1>b DEF SyncKnown, Returned
<1>2. ASSUME NEW t \in Txns,
             \/ TakeBuffer(t) \/ QueueForCommit(t) \/ QueueRefuses(t) \/ EnterLog(t)
             \/ OpenFails(t) \/ Gather(t) \/ WriteBatch(t) \/ WriteFails(t)
             \/ Complete(t) \/ Rollback(t) \/ CommitDiskless(t)
      PROVE  SyncKnown'
  <2>1. UNCHANGED <<last_sync, log_sync>>
    BY <1>2 DEF TakeBuffer, QueueForCommit, QueueRefuses, EnterLog, OpenFails, Gather,
       WriteBatch, WriteFails, Complete, Rollback, CommitDiskless, shared, config
  <2>2. \A u \in Txns :
           /\ pc'[u] \in {"gather", "write"} => pc[u] \in {"gather", "write"}
           /\ pc'[u] \in Returned => pc[u] \in Returned
    BY <1>2, <1>a
       DEF TakeBuffer, QueueForCommit, QueueRefuses, EnterLog, OpenFails, Gather,
       WriteBatch, WriteFails, Complete, Rollback, CommitDiskless, Goto, Returned
  <2>3. \A u \in Txns : lsn'[u] = lsn[u] \/ pc'[u] = "queued"
    BY <1>2, <1>a
       DEF TakeBuffer, QueueForCommit, QueueRefuses, EnterLog, OpenFails, Gather,
       WriteBatch, WriteFails, Complete, Rollback, CommitDiskless, Goto
  <2> QED
    BY <1>1, <2>1, <2>2, <2>3
<1>3. ASSUME NEW t \in Txns, EnsureOpen(t)
      PROVE  SyncKnown'
  <2>1. /\ UNCHANGED <<last_sync, last_write, log_sync, lsn>>
        /\ ~(lsn[t] <= last_write) /\ pc' = [pc EXCEPT ![t] = "gather"]
    BY <1>3 DEF EnsureOpen, Covered, Goto, config
  <2> QED
    BY <1>a, <2>1 DEF SyncKnown, Returned
<1>4. ASSUME NEW t \in Txns, LeaveLog(t)
      PROVE  SyncKnown'
  <2>1. /\ pc[t] = "loop" /\ lsn[t] <= last_write /\ pc' = [pc EXCEPT ![t] = "logged"]
        /\ UNCHANGED <<lsn, last_write, log_sync>>
        /\ \/ last_sync' = last_write
           \/ (lsn[t] <= last_sync \/ ~log_sync) /\ last_sync' = last_sync
    BY <1>4 DEF LeaveLog, Covered, Goto, SyncLog, config
  <2>2. \A u \in Txns : pc'[u] \notin {"gather", "write"}
    BY <1>a, <2>1, NoTxnAssumption DEF LogMutex, InLog
  <2> QED
    BY <1>a, <2>1, <2>2 DEF SyncKnown, Returned
<1>5. ASSUME NEW p \in Procs, CheckpointSync(p)
      PROVE  SyncKnown'
  <2>1. /\ last_sync' = last_write /\ UNCHANGED <<lsn, last_write, pc, log_sync>>
        /\ file_mutex = NoTxn
    BY <1>5 DEF CheckpointSync, SyncLog, config
  <2>2. \A u \in Txns : pc[u] \notin {"gather", "write"}
    BY <1>a, <2>1, NoTxnAssumption DEF LogMutex, InLog
  <2> QED
    BY <1>a, <2>1, <2>2 DEF SyncKnown, Returned
<1>6. CASE CheckpointAdvance
  BY <1>1, <1>6 DEF CheckpointAdvance, config
<1>7. CASE UNCHANGED vars
  BY <1>1, <1>7 DEF vars, config, shared
<1> QED
  BY <1>2, <1>3, <1>4, <1>5, <1>6, <1>7 DEF Next, Commit, Fault, Recourse

\* A file that was left when full stays left: no later file has its name.
LEMMA FullIsLeft ==
    ASSUME FileInv, write_faults = 0, UNCHANGED <<disk, log_max_len>>,
           log_filename' \in {log_filename, last_write}
    PROVE  \A r \in disk : LeftFull(r.file) => LeftFull(r.file)'
<1> SUFFICES ASSUME NEW r \in disk, LeftFull(r.file)
             PROVE  LeftFull(r.file)'
  OBVIOUS
<1>1. PICK q \in disk : q.file = r.file /\ q.pos + q.len >= log_max_len
  BY DEF LeftFull
<1>2. q.file < q.lsn /\ q.lsn <= last_write
  BY DEF FileInv, FaultFree, NoHoles
<1>3. q.file < last_write
  BY <1>1, <1>2, SyncTypes
<1> QED
  BY <1>1, <1>3, SyncTypes DEF LeftFull

\* When the log rolls over to a new file the current one is full.
LEMMA RollsWhenFull ==
    ASSUME FileInv, write_faults = 0, Rolls, NEW r \in disk, r.file = log_filename,
           log_filename # NoFile, disk' = disk, log_max_len' = log_max_len,
           log_filename' = last_write
    PROVE  LeftFull(r.file)'
<1>1. log_len >= log_max_len /\ log_len > 0
  BY SyncTypes DEF Rolls
<1>2. PICK q \in disk : q.file = log_filename /\ q.pos + q.len = log_len
  BY <1>1, SyncTypes DEF FileInv, FaultFree, FileEnd
<1>4. log_filename # last_write
  BY <1>1, SyncTypes DEF NamesInOrder
<1> QED
  BY <1>1, <1>2, <1>4 DEF LeftFull

\* What is not on the device is in a full file, or the thread inside log() is to sync it.
LEMMA NextSyncedOrFull ==
    ASSUME SyncInv, [Next]_vars
    PROVE  SyncedOrFull'
<1>a. /\ FileInv /\ SyncKnown /\ TypeOK /\ LogMutex /\ NamesInOrder /\ OpenOnCurrent
      /\ last_sync \in Nat /\ last_write \in Nat /\ lsn \in [Txns -> Nat]
      /\ pc \in [Txns -> Points] /\ NoFile = -1
      /\ my_log_filename \in [Procs -> Nat \cup {NoFile}]
      /\ logfd \in [Procs -> Nat \cup {NoFile}]
      /\ log_filename \in Nat \cup {NoFile}
  BY SyncTypes DEF SyncInv
<1> SUFFICES ASSUME log_sync', write_faults' = 0, NEW r \in disk'
             PROVE  r \in durable' \/ LeftFull(r.file)' \/ ToBeSynced(r)'
  BY DEF SyncedOrFull
<1> DEFINE Good == r \in durable \/ LeftFull(r.file) \/ ToBeSynced(r)
<1> DEFINE StillGood == r \in durable' \/ LeftFull(r.file)' \/ ToBeSynced(r)'
<1>b. log_sync /\ write_faults = 0
  <2>1. log_sync' = log_sync
    BY DEF Next, Commit, Fault, Recourse, TakeBuffer, QueueForCommit, QueueRefuses,
       EnterLog,
       EnsureOpen, OpenFails, Gather, WriteBatch, WriteFails, LeaveLog, Complete, Rollback,
       CommitDiskless, CheckpointAdvance, CheckpointSync, vars, config
  <2>2. write_faults \in Nat
    BY <1>a DEF TypeOK, FileTypes
  <2>3. write_faults' = write_faults \/ write_faults' = write_faults + 1
    BY DEF Next, Commit, Fault, Recourse, TakeBuffer, QueueForCommit, QueueRefuses,
       EnterLog,
       EnsureOpen, OpenFails, Gather, WriteBatch, WriteFails, LeaveLog, Complete, Rollback,
       CommitDiskless, CheckpointAdvance, CheckpointSync, vars, faults
  <2> QED
    BY <2>1, <2>2, <2>3
<1>c. r \in disk => Good
  BY <1>b DEF SyncInv, SyncedOrFull
<1>1. ASSUME UNCHANGED <<disk, durable, log_filename, log_max_len, my_log_filename, logfd,
                         last_sync>>,
             file_mutex = NoTxn \/ (file_mutex' = file_mutex
                                    /\ lsn'[file_mutex] = lsn[file_mutex])
      PROVE  StillGood
  BY <1>1, <1>c DEF LeftFull, ToBeSynced
<1>2. ASSUME NEW t \in Txns,
             \/ TakeBuffer(t) \/ QueueForCommit(t) \/ QueueRefuses(t) \/ EnterLog(t)
             \/ Gather(t) \/ Complete(t) \/ Rollback(t) \/ CommitDiskless(t)
      PROVE  StillGood
  <2>1. UNCHANGED <<disk, durable, log_filename, log_max_len, my_log_filename, logfd,
                    last_sync>>
    BY <1>2 DEF TakeBuffer, QueueForCommit, QueueRefuses, EnterLog, Gather, Complete,
       Rollback, CommitDiskless, shared, config, handles, files
  <2>2. file_mutex = NoTxn \/ file_mutex' = file_mutex
    BY <1>2 DEF TakeBuffer, QueueForCommit, QueueRefuses, EnterLog, Gather, Complete,
       Rollback, CommitDiskless
  <2>3. lsn' = lsn \/ (pc[t] = "filled" /\ \A u \in Txns : u # t => lsn'[u] = lsn[u])
    BY <1>2, <1>a
       DEF TakeBuffer, QueueForCommit, QueueRefuses, EnterLog, Gather, Complete,
       Rollback, CommitDiskless
  <2>4. file_mutex \in Txns \cup {NoTxn} /\ (pc[t] = "filled" => file_mutex # t)
    BY <1>a DEF TypeOK, SharedTypes, LogMutex, InLog
  <2> QED
    BY <1>1, <2>1, <2>2, <2>3, <2>4
<1>3. ASSUME NEW t \in Txns, EnsureOpen(t)
      PROVE  StillGood
  <2> DEFINE p == Home[t]
  <2>0. disk' = disk
    BY <1>3, <1>a, <1>b, OpeningKeepsRecords DEF FileInv
  <2>1. /\ UNCHANGED <<disk, durable, log_max_len, last_sync, file_mutex, lsn>>
        /\ file_mutex = t /\ p \in Procs
    BY <1>3, <1>a, <2>0, HomeAssumption
       DEF EnsureOpen, config, LogMutex, InLog
  <2>2. log_filename' = NextFile /\ NextFile \in {log_filename, last_write}
    BY <1>3 DEF EnsureOpen, NameNextFile, NextFile, NewName
  <2>3. CASE LeftFull(r.file)
    BY <1>a, <1>b, <2>1, <2>2, <2>3, FullIsLeft
  <2>4. CASE ToBeSynced(r) /\ Rolls
    <3>1. log_filename # NoFile
      BY <2>4 DEF ToBeSynced
    <3>2. log_filename' = last_write
      BY <2>2, <2>4 DEF NextFile, NewName
    <3> QED
      BY <1>a, <1>b, <2>1, <2>4, <3>1, <3>2, RollsWhenFull DEF ToBeSynced
  <2>5. CASE ToBeSynced(r) /\ ~Rolls
    <3>1. log_filename' = log_filename /\ ~MustOpen(p)
      BY <2>1, <2>2, <2>5 DEF ToBeSynced, NextFile, MustOpen
    <3>2. UNCHANGED <<my_log_filename, logfd>>
      BY <1>3, <3>1 DEF EnsureOpen, handles
    <3> QED
      BY <2>1, <2>5, <3>1, <3>2 DEF ToBeSynced
  <2> QED
    BY <1>c, <2>1, <2>3, <2>4, <2>5
<1>4. ASSUME NEW t \in Txns, OpenFails(t)
      PROVE  StillGood
  <2> DEFINE p == Home[t]
  <2>1. /\ UNCHANGED <<disk, durable, log_max_len>>
        /\ file_mutex = t /\ p \in Procs /\ MustOpen(p)
    BY <1>4, <1>a, HomeAssumption DEF OpenFails, config, files, LogMutex, InLog
  <2>2. log_filename' = NextFile /\ NextFile \in {log_filename, last_write}
    BY <1>4 DEF OpenFails, NameNextFile, NextFile, NewName
  <2>3. CASE LeftFull(r.file)
    BY <1>a, <1>b, <2>1, <2>2, <2>3, FullIsLeft
  <2>4. CASE ToBeSynced(r)
    <3>1. Rolls
      BY <2>1, <2>4 DEF ToBeSynced, MustOpen, NextFile
    <3>2. log_filename # NoFile
      BY <2>4 DEF ToBeSynced
    <3>3. log_filename' = last_write
      BY <2>2, <3>1 DEF NextFile, NewName
    <3> QED
      BY <1>a, <1>b, <2>1, <2>4, <3>1, <3>2, <3>3, RollsWhenFull DEF ToBeSynced
  <2> QED
    BY <1>c, <2>1, <2>3, <2>4
<1>5. ASSUME NEW t \in Txns, WriteBatch(t)
      PROVE  StillGood
  <2>1. /\ UNCHANGED <<durable, log_max_len, last_sync, file_mutex, lsn, log_filename,
                       my_log_filename, logfd>>
        /\ file_mutex = t /\ pc[t] = "write"
    BY <1>5, <1>a DEF WriteBatch, config, LogMutex, InLog
  <2> DEFINE New == {Written(t, i) : i \in 1..Len(batch[t])}
  <2>2. disk' = disk \cup New
    BY <1>5, <1>a, <1>b, WriteAppends DEF FileInv
  <2>3. CASE r \in disk
    <3>1. LeftFull(r.file) => LeftFull(r.file)'
      BY <2>1, <2>2 DEF LeftFull
    <3>2. ToBeSynced(r) => ToBeSynced(r)'
      BY <2>1 DEF ToBeSynced
    <3> QED
      BY <1>c, <2>1, <2>3, <3>1, <3>2
  <2>4. CASE r \in New
    <3>0. PICK i \in 1..Len(batch[t]) : r = Written(t, i)
      BY <2>4
    <3>1. r.file = log_filename /\ r.lsn = last_write + i
      BY <3>0 DEF Written
    <3>2. r.lsn > last_write /\ r.lsn \in Nat
      <4>1. Len(batch[t]) \in Nat
        BY <1>a, LenProperties DEF TypeOK, BufferTypes
      <4> QED
        BY <1>a, <3>1, <4>1
    <3>3. /\ my_log_filename[Home[t]] = log_filename /\ logfd[Home[t]] = log_filename
          /\ log_filename # NoFile
      BY <1>a, <2>1, HomeAssumption DEF OpenOnCurrent
    <3>4. r.lsn > last_sync /\ lsn[t] > last_sync
      BY <1>a, <2>1, <3>2 DEF SyncKnown
    <3> QED
      BY <2>1, <3>1, <3>3, <3>4, NoTxnAssumption DEF ToBeSynced
  <2> QED
    BY <2>2, <2>3, <2>4
<1>6. ASSUME NEW t \in Txns, LeaveLog(t)
      PROVE  StillGood
  <2>1. /\ UNCHANGED <<disk, log_max_len, log_filename>> /\ file_mutex = t
        /\ \/ lsn[t] <= last_sync /\ durable' = durable
           \/ durable' = {q \in durable : q.file # logfd[Home[t]]}
                            \cup {q \in disk : q.file = logfd[Home[t]]}
    BY <1>6, <1>a, <1>b DEF LeaveLog, SyncLog, config, LogMutex, InLog
  <2>2. ToBeSynced(r) => r \in durable'
    BY <1>a, <2>1 DEF ToBeSynced
  <2>3. r \in durable => r \in durable'
    BY <2>1
  <2>4. LeftFull(r.file) => LeftFull(r.file)'
    BY <2>1 DEF LeftFull
  <2> QED
    BY <1>c, <2>1, <2>2, <2>3, <2>4
<1>7. CASE CheckpointAdvance
  <2>1. /\ UNCHANGED <<disk, durable, log_max_len>> /\ log_filename' = last_write
        /\ file_mutex = NoTxn
    BY <1>7 DEF CheckpointAdvance, NewName, config, files
  <2>2. ~ToBeSynced(r)
    BY <2>1 DEF ToBeSynced
  <2> QED
    BY <1>a, <1>b, <1>c, <2>1, <2>2, FullIsLeft
<1>8. ASSUME NEW p \in Procs, CheckpointSync(p)
      PROVE  StillGood
  <2>1. /\ UNCHANGED <<disk, log_max_len, log_filename>> /\ file_mutex = NoTxn
        /\ durable' = {q \in durable : q.file # logfd[p]} \cup {q \in disk : q.file = logfd[p]}
    BY <1>8 DEF CheckpointSync, SyncLog, config
  <2>2. ~ToBeSynced(r)
    BY <2>1 DEF ToBeSynced
  <2>3. LeftFull(r.file) => LeftFull(r.file)'
    BY <2>1 DEF LeftFull
  <2> QED
    BY <1>c, <2>1, <2>2, <2>3
<1>9. ASSUME NEW t \in Txns, WriteFails(t)
      PROVE  FALSE
  BY <1>9, <1>b DEF WriteFails
<1>10. CASE UNCHANGED vars
  BY <1>1, <1>10 DEF vars, config, shared, handles, files
<1> QED
  BY <1>2, <1>3, <1>4, <1>5, <1>6, <1>7, <1>8, <1>9, <1>10
     DEF Next, Commit, Fault, Recourse

\* With synchronous logging, and unless a write failed, a transaction to which log() has
\* returned is on the device, or its file was filled up and left behind (logger.h: log,
\* sync_log, which syncs the one file that is open).
THEOREM CommitsAreDurable == Spec => []DurableUnlessRolledOver
<1>1. SyncInv => DurableUnlessRolledOver
  <2> SUFFICES ASSUME SyncInv, log_sync, write_faults = 0,
                      NEW t \in Txns, pc[t] \in Returned
               PROVE  \/ InReadableLog(t, durable)
                      \/ \E r \in disk : /\ r.txn = t /\ r.file # log_filename
                                         /\ \E q \in disk :
                                               /\ q.file = r.file
                                               /\ q.pos + q.len >= log_max_len
    BY DEF DurableUnlessRolledOver
  <2>1. FileInv /\ FaultFree /\ LsnsUnique /\ last_sync \in Nat /\ lsn[t] \in Nat
    BY SyncTypes DEF SyncInv, FileInv
  <2>2. lsn[t] # 0 /\ lsn[t] <= last_write /\ lsn[t] <= last_sync
    BY <2>1 DEF LsnsUnique, SyncInv, SyncKnown
  <2>3. PICK r \in disk : r.txn = t /\ r.lsn = lsn[t]
    BY <2>1, <2>2 DEF FaultFree, CoveredIsLogged
  <2>4. CASE LeftFull(r.file)
    BY <2>3, <2>4 DEF LeftFull
  <2>5. CASE ~LeftFull(r.file)
    <3>1. \A q \in disk : q.file = r.file /\ q.pos <= r.pos => q \in durable
      <4> SUFFICES ASSUME NEW q \in disk, q.file = r.file, q.pos <= r.pos
                   PROVE  q \in durable
        OBVIOUS
      <4>1. q.lsn <= r.lsn
        BY <2>3 DEF SyncInv, FileInv, FaultFree, NoHoles
      <4>2. q.lsn <= last_sync
        BY <2>1, <2>2, <2>3, <4>1, SyncTypes
      <4>3. ~ToBeSynced(q)
        BY <2>1, <4>2, SyncTypes DEF ToBeSynced
      <4> QED
        BY <2>5, <4>3 DEF SyncInv, SyncedOrFull
    <3>2. r \in durable
      BY <2>1, <3>1, SyncTypes
    <3>3. Readable(r, durable)
      <4>1. r.txn # NoTxn /\ WholeUpTo(r.file, r.pos, disk)
        BY <2>1, <2>3 DEF FaultFree, NoHoles
      <4>2. ASSUME NEW i \in 0..(r.pos - 1)
            PROVE  \E q \in durable : Holds(q, r.file, i)
        <5>1. PICK q \in disk : Holds(q, r.file, i)
          BY <4>1 DEF WholeUpTo
        <5>2. q.file = r.file /\ q.pos <= i /\ q.pos \in Nat /\ r.pos \in Nat
          BY <2>1, <5>1, SyncTypes DEF Holds
        <5>3. q.pos <= r.pos
          BY <5>2
        <5> QED
          BY <3>1, <5>1, <5>2, <5>3
      <4> QED
        BY <4>1, <4>2 DEF Readable, WholeUpTo
    <3> QED
      BY <2>3, <3>2, <3>3 DEF InReadableLog
  <2> QED
    BY <2>4, <2>5
<1>2. Init => SyncInv
  <2>1. Init => SyncKnown /\ SyncedOrFull
    BY DEF Init, SyncKnown, SyncedOrFull, Returned
  <2> QED
    BY <2>1, InitFileInv DEF SyncInv
<1>3. SyncInv /\ [Next]_vars => SyncInv'
  BY NextFileInv, NextSyncKnown, NextSyncedOrFull DEF SyncInv
<1> QED
  BY <1>1, <1>2, <1>3, PTL DEF Spec

-----------------------------------------------------------------------------
\* The inductive invariant of the order

\* Every LSN was given to a transaction, and who has not been in the queue has none.
LsnsGiven ==
    /\ \A l \in 1..(next_lsn - 1) : \E t \in Txns : lsn[t] = l
    /\ \A t \in Txns : pc[t] \in {"begin", "filled"} => lsn[t] = 0

PromiseInv == FileInv /\ LsnsGiven

-----------------------------------------------------------------------------
\* The pipeline implements LogPromise

\* Types that the lemmas below use.
LEMMA OrderTypes ==
    ASSUME PromiseInv
    PROVE  /\ FileInv /\ LsnsUnique /\ LogMutex /\ pc \in [Txns -> Points]
           /\ next_lsn \in Nat \ {0} /\ lsn \in [Txns -> Nat]
           /\ last_write \in Nat /\ last_write < next_lsn
           /\ write_faults \in Nat
<1>1. FileInv /\ TypeOK /\ LsnsUnique /\ LogMutex
  BY DEF PromiseInv, FileInv, Naming, Queueing, Locking
<1>2. last_write + Len(Pending) <= next_lsn - 1 /\ Len(Pending) \in Nat
  BY PendingShape DEF PromiseInv, FileInv, Naming, Queueing, QueueInOrder
<1>3. next_lsn \in Nat /\ last_write \in Nat
  BY <1>1 DEF TypeOK, SharedTypes
<1> QED
  BY <1>1, <1>2, <1>3 DEF TypeOK, FileTypes

\* ... and in the next state.
LEMMA OrderTypesNext ==
    PromiseInv' => last_write' < next_lsn' /\ write_faults' \in Nat
<1>1. PromiseInv => last_write < next_lsn /\ write_faults \in Nat
  BY OrderTypes
<1>2. (PromiseInv => last_write < next_lsn /\ write_faults \in Nat)'
  BY <1>1, PTL
<1> QED
  BY <1>2

\* In a new region no LSN has been given.
LEMMA InitPromiseInv == Init => PromiseInv
<1>1. Init => LsnsGiven
  BY DEF Init, LsnsGiven
<1> QED
  BY <1>1, InitFileInv DEF PromiseInv

\* LSNs are given one by one.
LEMMA NextPromiseInv == PromiseInv /\ [Next]_vars => PromiseInv'
<1> SUFFICES ASSUME PromiseInv, [Next]_vars
             PROVE  LsnsGiven'
  BY NextFileInv DEF PromiseInv
<1>a. next_lsn \in Nat \ {0} /\ lsn \in [Txns -> Nat] /\ pc \in [Txns -> Points]
  BY OrderTypes
<1>1. ASSUME NEW t \in Txns, QueueForCommit(t)
      PROVE  LsnsGiven'
  <2>1. /\ next_lsn' = next_lsn + 1 /\ lsn' = [lsn EXCEPT ![t] = next_lsn] /\ lsn[t] = 0
        /\ pc' = [pc EXCEPT ![t] = "queued"]
    BY <1>1, <1>a DEF QueueForCommit, Goto, PromiseInv, LsnsGiven
  <2>2. ASSUME NEW l \in 1..next_lsn
        PROVE  \E u \in Txns : lsn'[u] = l
    <3>1. CASE l = next_lsn
      BY <1>a, <2>1, <3>1
    <3>2. CASE l # next_lsn
      <4>1. PICK u \in Txns : lsn[u] = l
        BY <1>a, <3>2 DEF PromiseInv, LsnsGiven
      <4>2. u # t
        BY <2>1, <4>1
      <4> QED
        BY <1>a, <2>1, <4>1, <4>2
    <3> QED
      BY <3>1, <3>2
  <2>3. next_lsn' - 1 = next_lsn
    BY <1>a, <2>1
  <2>4. \A u \in Txns : pc'[u] \in {"begin", "filled"} => lsn'[u] = 0
    BY <1>a, <2>1 DEF PromiseInv, LsnsGiven
  <2> QED
    BY <2>2, <2>3, <2>4 DEF LsnsGiven
<1>2. ASSUME UNCHANGED <<next_lsn, lsn>>,
             \A u \in Txns : pc'[u] \in {"begin", "filled"} => pc[u] \in {"begin", "filled"}
      PROVE  LsnsGiven'
  BY <1>2 DEF PromiseInv, LsnsGiven
<1>3. ASSUME NEW t \in Txns,
             \/ TakeBuffer(t) \/ QueueRefuses(t) \/ EnterLog(t) \/ EnsureOpen(t)
             \/ OpenFails(t) \/ Gather(t) \/ WriteBatch(t) \/ WriteFails(t) \/ LeaveLog(t)
             \/ Complete(t) \/ Rollback(t) \/ CommitDiskless(t)
      PROVE  LsnsGiven'
  <2>1. UNCHANGED <<next_lsn, lsn>>
    BY <1>3 DEF TakeBuffer, QueueRefuses, EnterLog, EnsureOpen, OpenFails, Gather,
       WriteBatch, WriteFails, LeaveLog, Complete, Rollback, CommitDiskless, shared
  <2>2. \A u \in Txns : pc'[u] \in {"begin", "filled"} => pc[u] \in {"begin", "filled"}
    BY <1>3, <1>a DEF TakeBuffer, QueueRefuses, EnterLog, EnsureOpen, OpenFails, Gather,
       WriteBatch, WriteFails, LeaveLog, Complete, Rollback, CommitDiskless, Goto
  <2> QED
    BY <1>2, <2>1, <2>2
<1>4. CASE UNCHANGED <<next_lsn, lsn, pc>>
  BY <1>2, <1>4
<1> QED
  BY <1>1, <1>3, <1>4
     DEF Next, Commit, Fault, Recourse, CheckpointAdvance, CheckpointSync, vars, shared

\* The order of the LSNs is a sequence of transactions, each at the place of its LSN.
LEMMA OrderIsASequence ==
    ASSUME PromiseInv
    PROVE  /\ Order \in Seq(Txns) /\ Len(Order) = next_lsn - 1
           /\ \A l \in 1..(next_lsn - 1) : Order[l] \in Txns /\ lsn[Order[l]] = l
           /\ \A t \in Txns : lsn[t] # 0 => lsn[t] \in 1..(next_lsn - 1) /\ Order[lsn[t]] = t
<1>1. \A l \in 1..(next_lsn - 1) : Order[l] \in Txns /\ lsn[Order[l]] = l
  <2> SUFFICES ASSUME NEW l \in 1..(next_lsn - 1)
               PROVE  Order[l] \in Txns /\ lsn[Order[l]] = l
    OBVIOUS
  <2>1. \E t \in Txns : lsn[t] = l
    BY DEF PromiseInv, LsnsGiven
  <2> QED
    BY <2>1 DEF Order
<1>2. Order \in [1..(next_lsn - 1) -> Txns]
  BY <1>1 DEF Order
<1>3. next_lsn - 1 \in Nat
  BY OrderTypes
<1>4. Order \in Seq(Txns)
  BY <1>2, <1>3
<1>5. Len(Order) = next_lsn - 1
  BY <1>2, <1>3, <1>4, LenProperties
<1>6. ASSUME NEW t \in Txns, lsn[t] # 0
      PROVE  lsn[t] \in 1..(next_lsn - 1) /\ Order[lsn[t]] = t
  <2>1. lsn[t] \in 1..(next_lsn - 1)
    BY <1>6, OrderTypes DEF LsnsUnique
  <2> QED
    BY <1>1, <1>6, <2>1, OrderTypes DEF LsnsUnique
<1> QED
  BY <1>1, <1>4, <1>5, <1>6

\* ... in the next state as well.
LEMMA OrderIsASequenceNext ==
    PromiseInv' =>
        /\ Order' \in Seq(Txns) /\ Len(Order') = next_lsn' - 1
        /\ \A l \in 1..(next_lsn' - 1) : Order'[l] \in Txns /\ lsn'[Order'[l]] = l
<1>1. PromiseInv => /\ Order \in Seq(Txns) /\ Len(Order) = next_lsn - 1
                    /\ \A l \in 1..(next_lsn - 1) : Order[l] \in Txns /\ lsn[Order[l]] = l
  BY OrderIsASequence
<1>2. (PromiseInv => /\ Order \in Seq(Txns) /\ Len(Order) = next_lsn - 1
                     /\ \A l \in 1..(next_lsn - 1) :
                           Order[l] \in Txns /\ lsn[Order[l]] = l)'
  BY <1>1, PTL
<1> QED
  BY <1>2

\* Without a failed write all that was written can be read back.
LEMMA AllIsReadable == PromiseInv /\ write_faults = 0 => ReadableUpTo = last_write
<1> SUFFICES ASSUME PromiseInv, write_faults = 0
             PROVE  ReadableUpTo = last_write
  OBVIOUS
<1> DEFINE S == {0} \cup {n \in 1..last_write :
                     \A l \in 1..n : \E r \in disk : r.lsn = l /\ Readable(r, disk)}
<1>1. last_write \in Nat /\ \A n \in S : n \in Nat /\ n <= last_write
  BY OrderTypes
<1>2. ASSUME NEW l \in 1..last_write
      PROVE  \E r \in disk : r.lsn = l /\ Readable(r, disk)
  <2>1. l \in 1..(next_lsn - 1) /\ l # 0
    BY OrderTypes
  <2>2. PICK t \in Txns : lsn[t] = l
    BY <2>1 DEF PromiseInv, LsnsGiven
  <2>3. FaultFree
    BY DEF PromiseInv, FileInv
  <2>4. PICK r \in disk : r.lsn = l
    BY <1>1, <2>1, <2>2, <2>3 DEF FaultFree, CoveredIsLogged
  <2>5. Readable(r, disk)
    BY <2>3 DEF FaultFree, NoHoles, Readable
  <2> QED
    BY <2>4, <2>5
<1>3. last_write \in S
  BY <1>1, <1>2
<1> HIDE DEF S
<1>4. \E x \in S : \A y \in S : x >= y
  BY <1>1, <1>3
<1>5. Max(S) \in S /\ \A y \in S : Max(S) >= y
  BY <1>4 DEF Max
<1>6. Max(S) = last_write
  <2> DEFINE m == Max(S)
  <2>1. m \in Nat /\ m <= last_write
    BY <1>1, <1>5
  <2>2. m >= last_write
    BY <1>3, <1>5
  <2> HIDE DEF m
  <2>3. m = last_write
    BY <1>1, <2>1, <2>2
  <2> QED
    BY <2>3 DEF m
<1> QED
  BY <1>6 DEF ReadableUpTo, S

\* ... in the next state as well.
LEMMA AllIsReadableNext ==
    PromiseInv' /\ write_faults' = 0 => ReadableUpTo' = last_write'
<1>1. (PromiseInv /\ write_faults = 0 => ReadableUpTo = last_write)'
  BY AllIsReadable, PTL
<1> QED
  BY <1>1

\* Without a failed write each step is one of LogPromise, or shows nothing of it.
LEMMA NextIsPromised ==
    ASSUME PromiseInv, Next, write_faults' = 0
    PROVE  [Promised!Next]_(Promised!vars)
<1> DEFINE returned == {t \in Txns : pc[t] \in Returned}
<1>a. /\ next_lsn \in Nat \ {0} /\ lsn \in [Txns -> Nat] /\ pc \in [Txns -> Points]
      /\ last_write \in Nat /\ last_write < next_lsn /\ FileInv /\ LsnsUnique
  BY OrderTypes
<1>b. PromiseInv' /\ write_faults \in Nat
  BY NextPromiseInv, OrderTypes
<1>c. write_faults = 0
  <2>1. write_faults' = write_faults \/ write_faults' = write_faults + 1
    BY DEF Next, Commit, Fault, Recourse, TakeBuffer, QueueForCommit, QueueRefuses,
       EnterLog,
       EnsureOpen, OpenFails, Gather, WriteBatch, WriteFails, LeaveLog, Complete, Rollback,
       CommitDiskless, CheckpointAdvance, CheckpointSync, faults
  <2> QED
    BY <1>b, <2>1
<1>d. ReadableUpTo = last_write /\ ReadableUpTo' = last_write'
  BY <1>b, <1>c, AllIsReadable, AllIsReadableNext
<1>e. (write_faults > 0)' = (write_faults > 0)
  BY <1>c
<1>f. returned' = returned \/ \E t \in Txns : LeaveLog(t)
  <2>1. ASSUME \A u \in Txns : (pc'[u] \in Returned) <=> (pc[u] \in Returned)
        PROVE  returned' = returned
    BY <2>1
  <2>2. ASSUME NEW t \in Txns,
               \/ TakeBuffer(t) \/ QueueForCommit(t) \/ QueueRefuses(t) \/ EnterLog(t)
               \/ EnsureOpen(t) \/ OpenFails(t) \/ Gather(t) \/ WriteBatch(t)
               \/ WriteFails(t) \/ Complete(t) \/ Rollback(t) \/ CommitDiskless(t)
        PROVE  \A u \in Txns : (pc'[u] \in Returned) <=> (pc[u] \in Returned)
    BY <2>2, <1>a DEF TakeBuffer, QueueForCommit, QueueRefuses, EnterLog, EnsureOpen,
       OpenFails, Gather, WriteBatch, WriteFails, Complete, Rollback, CommitDiskless, Goto,
       Returned
  <2>3. CASE pc' = pc
    BY <2>1, <2>3
  <2> HIDE DEF returned
  <2> QED
    BY <2>1, <2>2, <2>3
       DEF Next, Commit, Fault, Recourse, CheckpointAdvance, CheckpointSync
<1>1. ASSUME UNCHANGED <<next_lsn, lsn, last_write, returned>>
      PROVE  UNCHANGED Promised!vars
  <2>1. Order' = Order
    BY <1>1 DEF Order
  <2> QED
    BY <1>1, <1>d, <1>e, <2>1 DEF Promised!vars
<1>2. ASSUME NEW t \in Txns, QueueForCommit(t)
      PROVE  Promised!Assign(t)
  <2>1. /\ next_lsn' = next_lsn + 1 /\ lsn' = [lsn EXCEPT ![t] = next_lsn]
        /\ last_write' = last_write /\ lsn[t] = 0
        /\ pc[t] = "filled" /\ pc' = [pc EXCEPT ![t] = "queued"]
    BY <1>2 DEF QueueForCommit, Goto, PromiseInv, LsnsGiven
  <2>2. /\ Order \in Seq(Txns) /\ Len(Order) = next_lsn - 1
        /\ \A l \in 1..(next_lsn - 1) : Order[l] \in Txns /\ lsn[Order[l]] = l
    BY OrderIsASequence
  <2>3. /\ Order' \in Seq(Txns) /\ Len(Order') = next_lsn
        /\ \A l \in 1..next_lsn : Order'[l] \in Txns /\ lsn'[Order'[l]] = l
    BY <1>a, <1>b, <2>1, OrderIsASequenceNext
  <2>4. ~Promised!Placed(t)
    BY <1>a, <2>1, <2>2 DEF Promised!Placed
  <2>5. Order' = Append(Order, t)
    <3>1. /\ Append(Order, t) \in Seq(Txns) /\ Len(Append(Order, t)) = next_lsn
          /\ \A l \in 1..(next_lsn - 1) : Append(Order, t)[l] = Order[l]
          /\ Append(Order, t)[next_lsn] = t
      BY <1>a, <2>2, AppendProperties
    <3>2. ASSUME NEW l \in 1..next_lsn
          PROVE  Order'[l] = Append(Order, t)[l]
      <4>1. lsn'[t] = next_lsn /\ \A u \in Txns : lsn'[u] = l /\ lsn'[t] = l => u = t
        BY <1>a, <2>1 DEF LsnsUnique
      <4>2. CASE l = next_lsn
        BY <1>a, <2>3, <3>1, <4>1, <4>2
      <4>3. CASE l # next_lsn
        <5>1. l \in 1..(next_lsn - 1) /\ Order[l] \in Txns /\ lsn[Order[l]] = l
          BY <1>a, <2>2, <4>3
        <5>2. Order'[l] \in Txns /\ Order'[l] # t /\ lsn[Order'[l]] = l
          BY <1>a, <2>1, <2>3, <4>3
        <5>3. Order'[l] = Order[l]
          BY <5>1, <5>2, <1>a DEF LsnsUnique
        <5> QED
          BY <3>1, <5>1, <5>3
      <4> QED
        BY <4>2, <4>3
    <3> HIDE DEF returned
    <3> QED
      BY <2>3, <3>1, <3>2, SeqEqual
  <2>6. returned' = returned
    BY <1>a, <2>1 DEF Returned
  <2> QED
    BY <1>d, <1>e, <2>1, <2>4, <2>5, <2>6 DEF Promised!Assign
<1>3. ASSUME NEW t \in Txns, WriteBatch(t)
      PROVE  Promised!Write \/ UNCHANGED Promised!vars
  <2>1. UNCHANGED <<next_lsn, lsn>> /\ returned' = returned
    BY <1>3, <1>a DEF WriteBatch, Goto, Returned
  <2>2. last_write' \in Nat /\ last_write <= last_write'
    BY <1>a, <1>3, LastWriteGrows DEF FileInv
  <2>3. last_write' < next_lsn'
    BY <1>b, OrderTypesNext
  <2>4. Order' = Order
    BY <2>1 DEF Order
  <2>5. Len(Order) = next_lsn - 1
    BY OrderIsASequence
  <2>6. CASE last_write' = last_write
    BY <1>1, <2>1, <2>6
  <2>7. CASE last_write' # last_write
    <3>1. last_write' \in (last_write + 1)..Len(Order)
      BY <1>a, <2>1, <2>2, <2>3, <2>5, <2>7
    <3> QED
      BY <1>d, <1>e, <2>1, <2>4, <3>1 DEF Promised!Write
  <2> QED
    BY <2>6, <2>7
<1>4. ASSUME NEW t \in Txns, LeaveLog(t)
      PROVE  Promised!Return(t)
  <2>1. /\ UNCHANGED <<next_lsn, lsn, last_write>> /\ lsn[t] <= last_write
        /\ pc[t] = "loop" /\ pc' = [pc EXCEPT ![t] = "logged"]
    BY <1>4 DEF LeaveLog, Covered, Goto
  <2>2. lsn[t] # 0
    BY <1>a, <2>1 DEF LsnsUnique, InLog
  <2>3. lsn[t] \in 1..last_write /\ Order[lsn[t]] = t
    BY <1>a, <2>1, <2>2, OrderIsASequence
  <2>4. t \notin returned /\ returned' = returned \cup {t}
    BY <1>a, <2>1 DEF Returned
  <2>5. Order' = Order
    BY <2>1 DEF Order
  <2> QED
    BY <1>d, <1>e, <2>1, <2>3, <2>4, <2>5 DEF Promised!Return
<1>5. CASE UNCHANGED <<next_lsn, lsn, last_write>> /\ returned' = returned
  BY <1>1, <1>5
<1>6. \/ UNCHANGED <<next_lsn, lsn, last_write>>
      \/ \E t \in Txns : QueueForCommit(t) \/ WriteBatch(t)
  BY ZenonT(60) DEF Next, Commit, Fault, Recourse, TakeBuffer, QueueRefuses,
     EnterLog, EnsureOpen, OpenFails, Gather, WriteFails, LeaveLog, Complete, Rollback,
     CommitDiskless, CheckpointAdvance, CheckpointSync, shared
<1> QED
  BY <1>2, <1>3, <1>4, <1>5, <1>6, <1>f DEF Promised!Next

\* The log as its files would be read back is what LogPromise says, until a write fails:
\* LSNs are given in one order, what can be read back is a prefix of it that only grows, and
\* log() returns to a transaction that this prefix covers (logger.h: queue_for_commit, log).
THEOREM LogKeepsItsPromise == Spec => Promise
<1>1. Init => Promised!Init
  <2> SUFFICES ASSUME Init
               PROVE  Promised!Init
    OBVIOUS
  <2>1. Order = <<>>
    <3>1. PromiseInv
      BY InitPromiseInv
    <3>2. Order \in Seq(Txns) /\ Len(Order) = 0
      BY <3>1, OrderIsASequence DEF Init
    <3> QED
      BY <3>2, EmptySeq
  <2>2. ReadableUpTo = 0
    BY InitPromiseInv, AllIsReadable DEF Init
  <2>3. {t \in Txns : pc[t] \in Returned} = {} /\ (write_faults > 0) = FALSE
    BY DEF Init, Returned
  <2> QED
    BY <2>1, <2>2, <2>3 DEF Promised!Init
<1>2. PromiseInv /\ [Next]_vars => [Promised!Next]_(Promised!vars)
  <2> SUFFICES ASSUME PromiseInv, [Next]_vars
               PROVE  [Promised!Next]_(Promised!vars)
    OBVIOUS
  <2>1. CASE Next /\ write_faults' = 0
    BY <2>1, NextIsPromised
  <2>2. CASE write_faults' > 0
    BY <2>2 DEF Promised!Next, Promised!Broken
  <2>3. CASE UNCHANGED vars
    <3>1. UNCHANGED <<next_lsn, lsn, last_write, disk, pc, write_faults>>
      BY <2>3 DEF vars, shared, files, faults
    <3> QED
      BY <3>1 DEF Promised!vars, Order, ReadableUpTo
  <2>4. write_faults' \in Nat
    BY NextPromiseInv, OrderTypesNext
  <2> QED
    BY <2>1, <2>2, <2>3, <2>4
<1> QED
  BY <1>1, <1>2, InitPromiseInv, NextPromiseInv, PTL DEF Spec, Promise, Promised!Spec
=============================================================================

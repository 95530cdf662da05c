-------------------------- MODULE MCExecutionProofs --------------------------
(***************************************************************************)
(* Theorems about MCExecution: a batch reader delivers the rows of its     *)
(* table in their order, for tables of any length and any limits; what a   *)
(* compiled program was given is what its reference was given, for         *)
(* programs of any length; and a plan is admitted only where it fits, for  *)
(* any machine, any request and any bounds of the reserves.                *)
(***************************************************************************)
EXTENDS MCExecution, FiniteSetTheorems, TLAPS

-----------------------------------------------------------------------------
(* Induction, in the form the proofs below use it: the least number for    *)
(* which a statement fails.                                                *)
LEMMA Least ==
  ASSUME NEW T \in SUBSET Nat, T # {}
  PROVE  \E m \in T : \A k \in T : m <= k
PROOF
<1> DEFINE U == {0..k : k \in T}
<1>1. U \subseteq FiniteSubsetsOf(Nat) /\ U # {}
  <2>1. ASSUME NEW k \in T PROVE 0..k \in FiniteSubsetsOf(Nat)
    <3>1. IsFiniteSet(0..k)
      BY FS_Interval
    <3>2. QED
      BY <3>1 DEF FiniteSubsetsOf
  <2>2. QED
    BY <2>1
<1>2. PICK m \in U : \A y \in U : ~(<<y, m>> \in StrictSubsetOrdering(Nat))
  <2>1. IsWellFoundedOn(StrictSubsetOrdering(Nat), FiniteSubsetsOf(Nat))
    BY FS_StrictSubsetOrderingWellFounded
  <2> HIDE DEF U
  <2>2. QED
    BY <1>1, <2>1, WFMin
<1>3. PICK k \in T : m = 0..k
  OBVIOUS
<1>4. ASSUME NEW j \in T PROVE k <= j
  <2>1. SUFFICES ASSUME j < k PROVE FALSE
    OBVIOUS
  <2>2. 0..j \subseteq 0..k /\ 0..j # 0..k
    <3>1. k \in 0..k /\ k \notin 0..j
      BY <2>1
    <3>2. QED
      BY <2>1, <3>1
  <2>3. <<0..j, 0..k>> \in StrictSubsetOrdering(Nat)
    BY <2>2 DEF StrictSubsetOrdering
  <2>4. QED
    BY <1>2, <1>3, <2>3
<1>5. QED
  BY <1>4

(* A set of numbers that has, with each of them, all that are smaller is   *)
(* an interval.                                                            *)
LEMMA InitialSegment ==
  ASSUME NEW M \in Nat, NEW S \in SUBSET (1..M), \A k \in S : 1..k \subseteq S
  PROVE  Cardinality(S) \in 0..M /\ S = 1..Cardinality(S)
PROOF
<1> DEFINE T == (1..(M + 1)) \ S
<1>1. PICK m \in T : \A k \in T : m <= k
  <2>1. T \in SUBSET Nat /\ M + 1 \in T
    OBVIOUS
  <2>2. QED
    BY <2>1, Least
<1>2. S = 1..(m - 1)
  <2>1. ASSUME NEW k \in S PROVE k < m
    <3>1. m \notin 1..k
      BY <1>1
    <3>2. QED
      BY <1>1, <3>1
  <2>2. ASSUME NEW k \in 1..(m - 1) PROVE k \in S
    BY <1>1
  <2>3. m \in 1..(M + 1) /\ S \subseteq 1..(m - 1)
    BY <1>1, <2>1
  <2>4. QED
    BY <2>2, <2>3
<1>3. Cardinality(1..(m - 1)) = m - 1
  BY <1>1, FS_Interval
<1>4. QED
  BY <1>1, <1>2, <1>3

-----------------------------------------------------------------------------
(* The sizes of the first rows of a sequence.                              *)
IsSums(f, sizes, k) == f \in [0..k -> Nat] /\ f[0] = 0 /\ \A i \in 1..k : f[i] = f[i - 1] + sizes[i]

LEMMA SumsExist ==
  ASSUME NEW sizes \in Seq(Nat), NEW k \in 0..Len(sizes)
  PROVE  \E f : IsSums(f, sizes, k)
PROOF
<1> DEFINE T == {j \in 0..Len(sizes) : ~\E f : IsSums(f, sizes, j)}
<1>1. SUFFICES ASSUME T # {} PROVE FALSE
  OBVIOUS
<1>2. PICK m \in T : \A j \in T : m <= j
  <2>1. T \in SUBSET Nat
    OBVIOUS
  <2>2. QED
    BY <1>1, <2>1, Least
<1>3. m # 0
  <2>1. IsSums([i \in 0..0 |-> 0], sizes, 0)
    BY DEF IsSums
  <2>2. QED
    BY <2>1
<1>4. PICK f : IsSums(f, sizes, m - 1)
  BY <1>2, <1>3
<1> DEFINE g == [i \in 0..m |-> IF i = m THEN f[m - 1] + sizes[m] ELSE f[i]]
<1>5. IsSums(g, sizes, m)
  <2>1. m \in 1..Len(sizes) /\ sizes[m] \in Nat /\ f[m - 1] \in Nat
    BY <1>3, <1>4 DEF IsSums
  <2>2. g \in [0..m -> Nat] /\ g[0] = 0
    BY <1>4, <2>1 DEF IsSums
  <2>3. ASSUME NEW i \in 1..m PROVE g[i] = g[i - 1] + sizes[i]
    BY <1>4, <2>1 DEF IsSums
  <2>4. QED
    BY <2>2, <2>3 DEF IsSums
<1>6. QED
  BY <1>5

LEMMA SumsDefined ==
  ASSUME NEW sizes \in Seq(Nat)
  PROVE  IsSums(Sums(sizes), sizes, Len(sizes))
PROOF
<1>1. PICK f : IsSums(f, sizes, Len(sizes))
  BY SumsExist
<1>2. f = [i \in 0..Len(sizes) |-> IF i = 0 THEN 0 ELSE f[i - 1] + sizes[i]]
  BY <1>1 DEF IsSums
<1>3. LET s == Sums(sizes) IN s = [i \in 0..Len(sizes) |-> IF i = 0 THEN 0 ELSE s[i - 1] + sizes[i]]
  BY <1>2 DEF Sums
<1> DEFINE s == Sums(sizes)
<1>4. s = [i \in 0..Len(sizes) |-> IF i = 0 THEN 0 ELSE s[i - 1] + sizes[i]]
  BY <1>3
<1> HIDE DEF s
<1>5. ASSUME NEW i \in 0..Len(sizes) PROVE s[i] \in Nat
  <2> DEFINE T == {j \in 0..Len(sizes) : s[j] \notin Nat}
  <2>1. SUFFICES ASSUME T # {} PROVE FALSE
    OBVIOUS
  <2>2. PICK m \in T : \A j \in T : m <= j
    <3>1. T \in SUBSET Nat
      OBVIOUS
    <3>2. QED
      BY <2>1, <3>1, Least
  <2>3. m # 0
    BY <1>4
  <2>4. s[m - 1] \in Nat
    BY <2>2, <2>3
  <2>5. s[m] = s[m - 1] + sizes[m] /\ sizes[m] \in Nat
    <3>1. m \in 0..Len(sizes) /\ m \in 1..Len(sizes)
      BY <2>3
    <3> HIDE DEF T
    <3>2. s[m] = IF m = 0 THEN 0 ELSE s[m - 1] + sizes[m]
      BY <1>4, <3>1
    <3>3. QED
      BY <2>3, <3>1, <3>2
  <2>6. QED
    BY <2>4, <2>5
<1>6. s[0] = 0 /\ \A i \in 1..Len(sizes) : s[i] = s[i - 1] + sizes[i]
  BY <1>4
<1>7. s \in [0..Len(sizes) -> Nat]
  BY <1>4, <1>5
<1>8. QED
  BY <1>6, <1>7 DEF s, IsSums

LEMMA SumsGrow ==
  ASSUME NEW sizes \in Seq(Nat), NEW i \in 0..Len(sizes), NEW j \in 0..i
  PROVE  Sums(sizes)[j] <= Sums(sizes)[i]
PROOF
<1> DEFINE s == Sums(sizes)
           T == {k \in 0..Len(sizes) : j <= k /\ ~(s[j] <= s[k])}
<1>1. IsSums(s, sizes, Len(sizes))
  BY SumsDefined
<1> HIDE DEF s
<1>2. SUFFICES ASSUME T # {} PROVE FALSE
  BY DEF s
<1>3. PICK m \in T : \A k \in T : m <= k
  <2>1. T \in SUBSET Nat
    OBVIOUS
  <2>2. QED
    BY <1>2, <2>1, Least
<1>4. m # j /\ m - 1 \in 0..Len(sizes) /\ j <= m - 1
  BY <1>1 DEF IsSums
<1>5. s[j] <= s[m - 1]
  BY <1>3, <1>4
<1>6. s[m] = s[m - 1] + sizes[m] /\ sizes[m] \in Nat /\ s[m - 1] \in Nat /\ s[j] \in Nat
  <2>1. m \in 1..Len(sizes) /\ j \in 0..Len(sizes)
    BY <1>3, <1>4
  <2>2. sizes[m] \in Nat
    BY <2>1
  <2>3. s \in [0..Len(sizes) -> Nat] /\ s[m] = s[m - 1] + sizes[m]
    BY <1>1, <2>1 DEF IsSums
  <2>4. QED
    BY <1>4, <2>1, <2>2, <2>3
<1>7. QED
  BY <1>5, <1>6

-----------------------------------------------------------------------------
(* A reader: it delivered the first rows of its table, and the deferred    *)
(* row, if there is one, is the next of them; its counts are within the    *)
(* limits of a batch.                                                      *)
Reader == [source : Inputs, read : Nat, pending : Seq(Nat), delivered : Seq(Nat), batches : Nat, peak : Nat,
           eof : BOOLEAN, failed : BOOLEAN, closed : BOOLEAN]
CountsFrom(s, k) == \A i \in 1..Len(s) : s[i] = k + i
InPlace(r) ==
  /\ Len(r.delivered) <= Len(Rows(r)) /\ CountsFrom(r.delivered, 0)
  /\ \/ r.pending = << >> /\ r.read = Len(r.delivered)
     \/ r.pending = <<r.read>> /\ r.read = Len(r.delivered) + 1 /\ r.read <= Len(Rows(r))
  /\ r.eof => Len(r.delivered) = Len(Rows(r))
  /\ r.closed => r.eof
Within(r) ==
  /\ r.peak <= BatchLimit
  /\ r.batches <= Len(r.delivered) /\ Len(r.delivered) <= r.batches * RowsPerBatch
ReaderOK(r) == r \in Reader /\ InPlace(r) /\ Within(r)

LEMMA RowsTyped ==
  ASSUME NEW r \in Reader
  PROVE  Rows(r) \in Seq(Nat) /\ Len(Rows(r)) \in Nat
PROOF
<1>1. Rows(r) \in Seq(Nat \ {0})
  BY BatchConstants DEF Rows, Reader
<1>2. QED
  BY <1>1

(* What a reader can still deliver: the rows after those it delivered.     *)
LEMMA QueueIsRest ==
  ASSUME NEW r, ReaderOK(r)
  PROVE  /\ Queue(r) \in Seq(Nat) /\ Len(Queue(r)) = Len(Rows(r)) - Len(r.delivered)
         /\ \A i \in 1..Len(Queue(r)) : Queue(r)[i] = Len(r.delivered) + i
PROOF
<1> DEFINE rest == [i \in 1..(Len(Rows(r)) - r.read) |-> r.read + i]
<1>1. Len(Rows(r)) \in Nat /\ r.read \in Nat /\ r.delivered \in Seq(Nat)
  BY RowsTyped DEF ReaderOK, Reader
<1>2. r.read <= Len(Rows(r))
  BY <1>1 DEF ReaderOK, InPlace
<1>3. rest \in Seq(Nat) /\ Len(rest) = Len(Rows(r)) - r.read
  BY <1>1, <1>2
<1>4. CASE r.pending = << >> /\ r.read = Len(r.delivered)
  <2>1. Queue(r) = rest
    BY <1>3, <1>4 DEF Queue
  <2>2. QED
    BY <1>1, <1>2, <1>3, <1>4, <2>1
<1>5. CASE r.pending = <<r.read>> /\ r.read = Len(r.delivered) + 1
  <2>1. Queue(r) = <<r.read>> \o rest
    BY <1>5 DEF Queue
  <2> HIDE DEF rest
  <2>2. Queue(r) \in Seq(Nat) /\ Len(Queue(r)) = 1 + Len(rest)
    BY <1>1, <1>3, <2>1
  <2>3. ASSUME NEW i \in 1..Len(Queue(r)) PROVE Queue(r)[i] = IF i = 1 THEN r.read ELSE rest[i - 1]
    BY <1>1, <1>3, <2>1, <2>2
  <2>4. Len(Queue(r)) = Len(Rows(r)) - Len(r.delivered)
    <3> DEFINE rows == Len(Rows(r))
               done == Len(r.delivered)
               left == Len(rest)
               queued == Len(Queue(r))
    <3>1. rows \in Nat /\ done \in Nat /\ left = rows - r.read
      BY <1>1, <1>3
    <3>2. r.read = done + 1
      BY <1>5
    <3>3. queued = 1 + left
      BY <2>2
    <3> HIDE DEF rows, done, left, queued
    <3>4. queued = rows - done
      BY <3>1, <3>2, <3>3
    <3>5. QED
      BY <3>4 DEF rows, done, queued
  <2>5. ASSUME NEW i \in 1..Len(Queue(r)) PROVE Queue(r)[i] = Len(r.delivered) + i
    <3>1. CASE i = 1
      BY <1>5, <2>3, <3>1
    <3>2. CASE i # 1
      <4>1. i - 1 \in 1..(Len(Rows(r)) - r.read)
        BY <1>1, <1>2, <1>5, <2>4, <3>2
      <4>2. rest[i - 1] = r.read + (i - 1)
        BY <4>1 DEF rest
      <4>3. QED
        BY <1>1, <1>5, <2>3, <3>2, <4>2
    <3>3. QED
      BY <3>1, <3>2
  <2>6. QED
    BY <2>2, <2>4, <2>5
<1>6. QED
  BY <1>4, <1>5 DEF ReaderOK, InPlace

LEMMA SizesTyped ==
  ASSUME NEW r, ReaderOK(r)
  PROVE  Sizes(r, Queue(r)) \in Seq(Nat) /\ Len(Sizes(r, Queue(r))) = Len(Queue(r))
PROOF
<1>1. Rows(r) \in Seq(Nat) /\ r.delivered \in Seq(Nat)
  BY RowsTyped DEF ReaderOK, Reader
<1>2. Queue(r) \in Seq(Nat)
  BY QueueIsRest
<1>3. ASSUME NEW i \in DOMAIN Queue(r) PROVE Rows(r)[Queue(r)[i]] \in Nat
  <2>1. Queue(r)[i] \in 1..Len(Rows(r))
    <3>1. i \in 1..Len(Queue(r)) /\ Len(r.delivered) <= Len(Rows(r))
      BY <1>2 DEF ReaderOK, InPlace
    <3>2. Queue(r)[i] = Len(r.delivered) + i /\ Len(Queue(r)) = Len(Rows(r)) - Len(r.delivered)
      BY <3>1, QueueIsRest
    <3>3. QED
      BY <1>1, <3>1, <3>2
  <2>2. QED
    BY <1>1, <2>1
<1>4. QED
  BY <1>2, <1>3 DEF Sizes

(* A batch takes rows from the front of them, no more than the limits of   *)
(* rows and of bytes allow.                                                *)
LEMMA TakenFits ==
  ASSUME NEW r, ReaderOK(r)
  PROVE  /\ Taken(r) \in 0..Len(Queue(r)) /\ Taken(r) <= RowsPerBatch
         /\ Sums(Sizes(r, Queue(r)))[Taken(r)] \in 0..BatchLimit
PROOF
<1> DEFINE sizes == Sizes(r, Queue(r))
           sum == Sums(sizes)
           M == Min({RowsPerBatch, Len(Queue(r))})
           S == {k \in 1..M : sum[k] <= BatchLimit}
<1>1. sizes \in Seq(Nat) /\ Len(sizes) = Len(Queue(r)) /\ Len(Queue(r)) \in Nat
  BY SizesTyped, QueueIsRest
<1>2. RowsPerBatch \in Nat /\ BatchLimit \in Nat
  BY BatchConstants
<1>3. M \in Nat /\ M <= RowsPerBatch /\ M <= Len(Queue(r))
  BY <1>1, <1>2 DEF Min
<1>4. IsSums(sum, sizes, Len(sizes))
  BY <1>1, SumsDefined
<1> HIDE DEF sizes, M
<1>5. ASSUME NEW k \in S, NEW j \in 1..k PROVE j \in S
  <2>1. k \in 0..Len(sizes) /\ j \in 0..k
    BY <1>1, <1>3
  <2>2. sum[j] <= sum[k]
    BY <1>1, <2>1, SumsGrow
  <2>3. sum[j] \in Nat /\ sum[k] \in Nat
    BY <1>4, <2>1 DEF IsSums
  <2>4. QED
    BY <1>2, <1>3, <2>1, <2>2, <2>3
<1>6. Cardinality(S) \in 0..M /\ S = 1..Cardinality(S)
  <2>1. S \in SUBSET (1..M) /\ \A k \in S : 1..k \subseteq S
    BY <1>5
  <2> HIDE DEF S
  <2>2. QED
    BY <1>3, <2>1, InitialSegment
<1>7. Taken(r) = Cardinality(S)
  BY DEF Taken, sizes, M
<1>8. Taken(r) \in 0..Len(sizes) /\ Taken(r) <= RowsPerBatch
  BY <1>1, <1>2, <1>3, <1>6, <1>7
<1>9. sum[Taken(r)] \in Nat
  BY <1>4, <1>8 DEF IsSums
<1>10. sum[Taken(r)] <= BatchLimit
  <2>1. CASE Taken(r) = 0
    BY <1>2, <1>4, <2>1 DEF IsSums
  <2>2. CASE Taken(r) # 0
    <3>1. Taken(r) \in S
      BY <1>6, <1>7, <1>8, <2>2
    <3>2. QED
      BY <3>1
  <2>3. QED
    BY <2>1, <2>2
<1>11. QED
  BY <1>1, <1>2, <1>8, <1>9, <1>10 DEF sizes

LEMMA Product ==
  ASSUME NEW a \in Nat, NEW n \in Nat, NEW b \in Nat, NEW l \in Nat, a <= b * l, n <= l
  PROVE  a + n <= (b + 1) * l
PROOF
<1>1. (b + 1) * l = b * l + l
  OBVIOUS
<1>2. b * l \in Nat
  OBVIOUS
<1>3. QED
  BY <1>1, <1>2

(* The rows of a batch follow those of the batches before it.              *)
LEMMA RowsFollow ==
  ASSUME NEW d \in Seq(Nat), NEW q \in Seq(Nat), NEW n \in 0..Len(q), CountsFrom(d, 0), CountsFrom(q, Len(d))
  PROVE  /\ d \o SubSeq(q, 1, n) \in Seq(Nat) /\ Len(d \o SubSeq(q, 1, n)) = Len(d) + n
         /\ CountsFrom(d \o SubSeq(q, 1, n), 0)
PROOF
<1> DEFINE s == SubSeq(q, 1, n)
<1>1. s \in Seq(Nat) /\ Len(s) = n /\ \A i \in 1..n : s[i] = q[i]
  OBVIOUS
<1> HIDE DEF s
<1>2. d \o s \in Seq(Nat) /\ Len(d \o s) = Len(d) + Len(s)
  BY <1>1
<1>3. ASSUME NEW i \in 1..(Len(d) + n) PROVE (d \o s)[i] = i
  <2> i \in Nat /\ Len(d) \in Nat /\ n \in Nat
    OBVIOUS
  <2>1. CASE i <= Len(d)
    BY <1>1, <2>1 DEF CountsFrom
  <2>2. CASE i > Len(d)
    <3>1. (d \o s)[i] = s[i - Len(d)] /\ i - Len(d) \in 1..n
      BY <1>1, <2>2
    <3>2. q[i - Len(d)] = Len(d) + (i - Len(d))
      BY <3>1 DEF CountsFrom
    <3>3. QED
      BY <1>1, <3>1, <3>2
  <2>3. i <= Len(d) \/ i > Len(d)
    OBVIOUS
  <2>4. QED
    BY ONLY <2>1, <2>2, <2>3
<1>4. Len(d \o s) = Len(d) + n
  BY <1>1, <1>2
<1>5. CountsFrom(d \o s, 0)
  BY <1>3, <1>4 DEF CountsFrom
<1>6. QED
  BY <1>2, <1>4, <1>5 DEF s

LEMMA NextBatchOK ==
  ASSUME NEW r, ReaderOK(r), ~r.eof
  PROVE  ReaderOK(NextBatch(r)) /\ NextBatch(r).source = r.source /\ NextBatch(r).failed = r.failed
PROOF
<1> DEFINE queue == Queue(r)
           n == Taken(r)
           size == Sums(Sizes(r, queue))[n]
           full == n = RowsPerBatch
           eof == ~full /\ n = Len(queue)
           done == Len(r.delivered)
           rows == Len(Rows(r))
           b == NextBatch(r)
<1>1. /\ r \in Reader /\ rows \in Nat /\ done \in Nat /\ r.delivered \in Seq(Nat) /\ done <= rows
      /\ RowsPerBatch \in Nat \ {0} /\ BatchLimit \in Nat /\ ~r.closed
  BY RowsTyped, BatchConstants DEF ReaderOK, Reader, InPlace
<1>2. queue \in Seq(Nat) /\ Len(queue) = rows - done
  BY QueueIsRest
<1>3. \A i \in 1..Len(queue) : queue[i] = done + i
  BY QueueIsRest
<1>4. n \in 0..Len(queue) /\ n <= RowsPerBatch /\ size \in 0..BatchLimit
  BY TakenFits
<1>5. b = [r EXCEPT !.delivered = r.delivered \o SubSeq(queue, 1, n),
                    !.pending = IF full \/ eof THEN << >> ELSE <<queue[n + 1]>>,
                    !.read = IF full THEN Max({r.read, queue[n]}) ELSE IF eof THEN rows ELSE queue[n + 1],
                    !.batches = IF n > 0 THEN r.batches + 1 ELSE r.batches,
                    !.peak = Max({r.peak, size}), !.eof = eof]
  BY DEF NextBatch
<1> HIDE DEF queue, n, size, b
<1>6. b.delivered \in Seq(Nat) /\ Len(b.delivered) = done + n /\ CountsFrom(b.delivered, 0)
  <2>1. b.delivered = r.delivered \o SubSeq(queue, 1, n)
    BY <1>1, <1>5 DEF Reader
  <2>2. CountsFrom(r.delivered, 0) /\ CountsFrom(queue, done)
    BY <1>3 DEF ReaderOK, InPlace, CountsFrom
  <2> DEFINE d == r.delivered
  <2>3. d \in Seq(Nat) /\ CountsFrom(d, 0) /\ CountsFrom(queue, Len(d)) /\ done = Len(d)
    BY <1>1, <2>2
  <2> HIDE DEF d, done
  <2>4. /\ d \o SubSeq(queue, 1, n) \in Seq(Nat) /\ Len(d \o SubSeq(queue, 1, n)) = Len(d) + n
        /\ CountsFrom(d \o SubSeq(queue, 1, n), 0)
    BY <1>2, <1>4, <2>3, RowsFollow
  <2>5. QED
    BY <2>1, <2>3, <2>4 DEF d
<1>7. /\ b.source = r.source /\ b.failed = r.failed /\ b.closed = r.closed /\ b.eof = eof
      /\ b.pending = IF full \/ eof THEN << >> ELSE <<queue[n + 1]>>
      /\ b.read = IF full THEN Max({r.read, queue[n]}) ELSE IF eof THEN rows ELSE queue[n + 1]
      /\ b.batches = IF n > 0 THEN r.batches + 1 ELSE r.batches
      /\ b.peak = Max({r.peak, size})
  BY <1>1, <1>5 DEF Reader
<1>8. Rows(b) = Rows(r)
  BY <1>7 DEF Rows
<1>9. r.read \in done..(done + 1)
  BY <1>1 DEF ReaderOK, Reader, InPlace
<1>10. InPlace(b) /\ b.read \in Nat /\ b.pending \in Seq(Nat)
  <2>1. done + n <= rows
    BY <1>1, <1>2, <1>4
  <2>2. CASE full
    <3>1. n \in 1..Len(queue) /\ queue[n] = done + n
      BY <1>1, <1>3, <1>4, <2>2
    <3>2. Max({r.read, queue[n]}) = done + n
      BY <1>1, <1>9, <3>1 DEF Max
    <3>3. b.read = done + n /\ b.pending = << >> /\ ~b.eof /\ ~b.closed
      BY <1>1, <1>7, <2>2, <3>2
    <3> HIDE DEF rows, done, full, eof
    <3>4. InPlace(b)
      BY <1>6, <1>8, <2>1, <3>3 DEF InPlace, rows
    <3>5. QED
      BY <1>1, <1>4, <3>3, <3>4
  <2>3. CASE eof
    <3>1. done + n = rows
      <4> HIDE DEF rows, done
      <4>1. QED
        BY <1>1, <1>2, <2>3
    <3>2. b.read = done + n /\ b.pending = << >> /\ ~b.closed
      <4> HIDE DEF rows, done
      <4>1. QED
        BY <1>1, <1>7, <2>3, <3>1
    <3> HIDE DEF rows, done, full, eof
    <3>3. InPlace(b)
      BY <1>6, <1>8, <2>1, <3>1, <3>2 DEF InPlace, rows
    <3>4. QED
      BY <1>1, <3>1, <3>2, <3>3
  <2>4. CASE ~full /\ ~eof
    <3>1. n + 1 \in 1..Len(queue) /\ queue[n + 1] = done + n + 1
      BY <1>1, <1>2, <1>3, <1>4, <2>4
    <3> HIDE DEF rows, done
    <3>2. b.read = done + n + 1 /\ b.pending = <<done + n + 1>> /\ ~b.closed /\ ~b.eof
      BY <1>1, <1>7, <2>4, <3>1
    <3>5. done + n + 1 <= rows
      <4>1. Len(queue) \in Nat /\ n + 1 <= Len(queue) /\ n \in Nat
        BY <1>2, <1>4, <3>1
      <4>2. QED
        BY <1>1, <1>2, <4>1
    <3> HIDE DEF full, eof
    <3>3. InPlace(b)
      BY <1>1, <1>4, <1>6, <1>8, <2>1, <3>2, <3>5 DEF InPlace, rows
    <3>4. QED
      BY <1>1, <1>4, <3>2, <3>3
  <2>5. QED
    BY <2>2, <2>3, <2>4
<1>11. Within(b) /\ b.batches \in Nat /\ b.peak \in Nat
  <2>1. r.batches \in Nat /\ r.peak \in 0..BatchLimit /\ r.batches <= done /\ done <= r.batches * RowsPerBatch
    BY <1>1 DEF ReaderOK, Reader, Within
  <2>2. b.peak \in 0..BatchLimit
    <3>1. size \in Nat /\ r.peak \in Nat
      BY <1>4, <2>1
    <3>2. Max({r.peak, size}) \in {r.peak, size}
      BY <3>1 DEF Max
    <3>3. QED
      BY <1>4, <1>7, <2>1, <3>2
  <2>3. b.batches \in Nat /\ b.batches <= done + n /\ done + n <= b.batches * RowsPerBatch
    <3>1. CASE n > 0
      <4>1. done + n <= (r.batches + 1) * RowsPerBatch
        BY <1>1, <1>4, <2>1, Product
      <4>2. b.batches = r.batches + 1 /\ n \in Nat /\ done \in Nat
        BY <1>1, <1>4, <1>7, <3>1
      <4> HIDE DEF done
      <4>3. r.batches + 1 <= done + n
        BY <2>1, <3>1, <4>2
      <4>4. QED
        BY <2>1, <4>1, <4>2, <4>3
    <3>2. CASE n = 0
      BY <1>1, <1>7, <2>1, <3>2
    <3>3. QED
      BY <1>4, <3>1, <3>2
  <2>4. QED
    BY <1>1, <1>6, <2>2, <2>3 DEF Within
<1>12. b \in Reader
  <2>1. b.eof \in BOOLEAN
    BY <1>7
  <2>2. QED
    BY <1>1, <1>5, <1>6, <1>10, <1>11, <2>1 DEF Reader
<1>13. QED
  BY <1>7, <1>10, <1>11, <1>12 DEF ReaderOK, b

-----------------------------------------------------------------------------
(* A writer: what it counted is in its file, and no more, unless it failed.*)
Writer == [name : Names, bytes : Nat, file : Nat, rows : Nat, failed : BOOLEAN, closed : BOOLEAN]
WriterOK(w) ==
  /\ w \in Writer
  /\ w.rows <= w.bytes /\ w.bytes <= w.file /\ w.file <= FileLimit
  /\ w.failed \/ (w.file = w.bytes /\ w.bytes = w.rows + 1)

(* The state of a program: every reader and writer is in order, none has   *)
(* failed while the program runs, and a program that passed closed them.   *)
Streams ==
  /\ readers \in Seq(Reader) /\ \A h \in DOMAIN readers : ReaderOK(readers[h])
  /\ writers \in Seq(Writer) /\ \A h \in DOMAIN writers : WriterOK(writers[h])
Outcome ==
  /\ program \in {"running", "failed", "PASS"}
  /\ Handles <= MaxHandles
  /\ program # "failed" => /\ \A h \in DOMAIN readers : ~readers[h].failed
                           /\ \A h \in DOMAIN writers : ~writers[h].failed
  /\ program = "PASS" => /\ \A h \in DOMAIN readers : readers[h].eof /\ readers[h].closed
                         /\ \A h \in DOMAIN writers : writers[h].closed
BatchInv == Streams /\ Outcome

LEMMA NewReaderOK ==
  ASSUME NEW source \in Inputs
  PROVE  /\ ReaderOK(NewReader(source)) /\ ~NewReader(source).failed
         /\ ReaderOK([NewReader(source) EXCEPT !.failed = TRUE])
PROOF
<1> DEFINE r == NewReader(source)
           f == [r EXCEPT !.failed = TRUE]
<1>1. r \in Reader /\ f \in Reader
  <2>1. r \in Reader
    <3>1. << >> \in Seq(Nat)
      OBVIOUS
    <3>2. QED
      BY <3>1 DEF NewReader, Reader
  <2> HIDE DEF r
  <2>2. QED
    BY <2>1 DEF Reader
<1>2. Len(Rows(r)) \in Nat /\ Len(Rows(f)) \in Nat
  BY <1>1, RowsTyped
<1>3. InPlace(r) /\ InPlace(f)
  BY <1>2 DEF InPlace, CountsFrom, NewReader
<1>4. Within(r) /\ Within(f)
  BY BatchConstants DEF Within, NewReader
<1>5. QED
  BY <1>1, <1>3, <1>4 DEF ReaderOK, NewReader

LEMMA ReaderEdited ==
  ASSUME NEW r, ReaderOK(r)
  PROVE  /\ ReaderOK([r EXCEPT !.failed = TRUE])
         /\ r.eof => ReaderOK([r EXCEPT !.closed = TRUE]) /\ [r EXCEPT !.closed = TRUE].failed = r.failed
PROOF
<1>1. ASSUME NEW e \in Reader, e.source = r.source, e.read = r.read, e.pending = r.pending, e.delivered = r.delivered,
             e.batches = r.batches, e.peak = r.peak, e.eof = r.eof, e.closed => e.eof
      PROVE  ReaderOK(e)
  <2>1. Rows(e) = Rows(r)
    BY <1>1 DEF Rows
  <2>2. QED
    BY <1>1, <2>1 DEF ReaderOK, InPlace, Within
<1>2. r \in Reader /\ (r.closed => r.eof)
  BY DEF ReaderOK, InPlace
<1>3. ReaderOK([r EXCEPT !.failed = TRUE])
  <2> DEFINE e == [r EXCEPT !.failed = TRUE]
  <2>1. e \in Reader /\ e.source = r.source /\ e.read = r.read /\ e.pending = r.pending /\ e.delivered = r.delivered
    BY <1>2 DEF Reader
  <2>2. e.batches = r.batches /\ e.peak = r.peak /\ e.eof = r.eof /\ e.closed = r.closed
    BY <1>2 DEF Reader
  <2>3. QED
    BY <1>1, <1>2, <2>1, <2>2
<1>4. ASSUME r.eof PROVE ReaderOK([r EXCEPT !.closed = TRUE]) /\ [r EXCEPT !.closed = TRUE].failed = r.failed
  <2> DEFINE e == [r EXCEPT !.closed = TRUE]
  <2>1. e \in Reader /\ e.source = r.source /\ e.read = r.read /\ e.pending = r.pending /\ e.delivered = r.delivered
    BY <1>2 DEF Reader
  <2>2. e.batches = r.batches /\ e.peak = r.peak /\ e.eof = r.eof /\ e.failed = r.failed
    BY <1>2 DEF Reader
  <2>3. QED
    BY <1>1, <1>2, <1>4, <2>1, <2>2
<1>5. QED
  BY <1>3, <1>4

(* A step that changes one reader, or one writer, or adds one.             *)
LEMMA OneReader ==
  ASSUME BatchInv, NEW h \in DOMAIN readers, NEW r, ReaderOK(r), readers' = [readers EXCEPT ![h] = r], UNCHANGED writers,
         program' = "failed" \/ (program' = program /\ Running /\ ~r.failed)
  PROVE  BatchInv'
PROOF
<1>1. readers' \in Seq(Reader) /\ DOMAIN readers' = DOMAIN readers /\ Len(readers') = Len(readers)
  BY DEF BatchInv, Streams, ReaderOK
<1>2. \A k \in DOMAIN readers : readers'[k] = IF k = h THEN r ELSE readers[k]
  BY DEF BatchInv, Streams
<1>3. Streams'
  BY <1>1, <1>2 DEF BatchInv, Streams
<1>4. Outcome'
  BY <1>1, <1>2 DEF BatchInv, Outcome, Handles, Running
<1>5. QED
  BY <1>3, <1>4 DEF BatchInv

LEMMA OneWriter ==
  ASSUME BatchInv, NEW h \in DOMAIN writers, NEW w, WriterOK(w), writers' = [writers EXCEPT ![h] = w], UNCHANGED readers,
         program' = "failed" \/ (program' = program /\ Running /\ ~w.failed)
  PROVE  BatchInv'
PROOF
<1>1. writers' \in Seq(Writer) /\ DOMAIN writers' = DOMAIN writers /\ Len(writers') = Len(writers)
  BY DEF BatchInv, Streams, WriterOK
<1>2. \A k \in DOMAIN writers : writers'[k] = IF k = h THEN w ELSE writers[k]
  BY DEF BatchInv, Streams
<1>3. Streams'
  BY <1>1, <1>2 DEF BatchInv, Streams
<1>4. Outcome'
  BY <1>1, <1>2 DEF BatchInv, Outcome, Handles, Running
<1>5. QED
  BY <1>3, <1>4 DEF BatchInv

LEMMA AddedReader ==
  ASSUME BatchInv, Handles < MaxHandles, NEW r, ReaderOK(r), readers' = Append(readers, r), UNCHANGED writers,
         program' = "failed" \/ (program' = program /\ Running /\ ~r.failed)
  PROVE  BatchInv'
PROOF
<1>1. readers \in Seq(Reader) /\ r \in Reader /\ writers \in Seq(Writer)
  BY DEF BatchInv, Streams, ReaderOK
<1>2. readers' \in Seq(Reader) /\ Len(readers') = Len(readers) + 1
  BY <1>1
<1>3. ASSUME NEW k \in DOMAIN readers' PROVE readers'[k] = r \/ (k \in DOMAIN readers /\ readers'[k] = readers[k])
  BY <1>1, <1>2
<1>4. Streams'
  BY <1>2, <1>3 DEF BatchInv, Streams
<1>5. Handles' <= MaxHandles
  <2>1. Handles' = Handles + 1 /\ Handles \in Nat
    BY <1>1, <1>2 DEF Handles
  <2>2. QED
    BY <2>1, BatchConstants
<1>6. Outcome'
  BY <1>3, <1>5 DEF BatchInv, Outcome, Running
<1>7. QED
  BY <1>4, <1>6 DEF BatchInv

LEMMA AddedWriter ==
  ASSUME BatchInv, Handles < MaxHandles, NEW w, WriterOK(w), writers' = Append(writers, w), UNCHANGED readers,
         program' = "failed" \/ (program' = program /\ Running /\ ~w.failed)
  PROVE  BatchInv'
PROOF
<1>1. readers \in Seq(Reader) /\ w \in Writer /\ writers \in Seq(Writer)
  BY DEF BatchInv, Streams, WriterOK
<1>2. writers' \in Seq(Writer) /\ Len(writers') = Len(writers) + 1
  BY <1>1
<1>3. ASSUME NEW k \in DOMAIN writers' PROVE writers'[k] = w \/ (k \in DOMAIN writers /\ writers'[k] = writers[k])
  BY <1>1, <1>2
<1>4. Streams'
  BY <1>2, <1>3 DEF BatchInv, Streams
<1>5. Handles' <= MaxHandles
  <2>1. Handles' = Handles + 1 /\ Handles \in Nat
    BY <1>1, <1>2 DEF Handles
  <2>2. QED
    BY <2>1, BatchConstants
<1>6. Outcome'
  BY <1>3, <1>5 DEF BatchInv, Outcome, Running
<1>7. QED
  BY <1>4, <1>6 DEF BatchInv

-----------------------------------------------------------------------------
(* What the operations of a stream make of a writer.                       *)
LEMMA NewWriterOK ==
  ASSUME NEW name \in Names
  PROVE  /\ WriterOK(NewWriter(name)) /\ ~NewWriter(name).failed
         /\ WriterOK([NewWriter(name) EXCEPT !.bytes = 0, !.file = 0, !.failed = TRUE])
PROOF
<1> DEFINE w == NewWriter(name)
           f == [w EXCEPT !.bytes = 0, !.file = 0, !.failed = TRUE]
<1>1. 1 <= FileLimit /\ FileLimit \in Nat
  BY BatchConstants
<1>2. w \in Writer /\ w.rows = 0 /\ w.bytes = 1 /\ w.file = 1 /\ ~w.failed
  BY DEF NewWriter, Writer
<1> HIDE DEF w
<1>3. f \in Writer /\ f.rows = 0 /\ f.bytes = 0 /\ f.file = 0 /\ f.failed
  BY <1>2 DEF Writer
<1> HIDE DEF f
<1>4. WriterOK(w) /\ ~w.failed /\ WriterOK(f)
  BY <1>1, <1>2, <1>3 DEF WriterOK
<1>5. QED
  BY <1>4 DEF w, f

LEMMA MinOfTwo ==
  ASSUME NEW a \in Nat, NEW b \in Nat
  PROVE  Min({a, b}) \in Nat /\ Min({a, b}) <= a /\ Min({a, b}) <= b
BY DEF Min

LEMMA WrittenOK ==
  ASSUME NEW w, WriterOK(w), ~w.failed, NEW n \in Nat
  PROVE  LET written == Min({n, FileLimit - w.bytes})
         IN WriterOK([w EXCEPT !.bytes = @ + written, !.file = @ + written, !.rows = @ + written, !.failed = written < n])
PROOF
<1> DEFINE written == Min({n, FileLimit - w.bytes})
           x == [w EXCEPT !.bytes = w.bytes + written, !.file = w.file + written, !.rows = w.rows + written,
                          !.failed = written < n]
<1>1. w \in Writer /\ w.bytes \in Nat /\ w.file = w.bytes /\ w.bytes = w.rows + 1 /\ w.bytes <= FileLimit /\ FileLimit \in Nat
  BY BatchConstants DEF WriterOK, Writer
<1>2. FileLimit - w.bytes \in Nat
  BY <1>1
<1>3. written \in Nat /\ written <= FileLimit - w.bytes
  BY <1>2, MinOfTwo
<1> HIDE DEF written
<1>4. x \in Writer
  <2>1. w.bytes + written \in Nat /\ w.file + written \in Nat /\ w.rows + written \in Nat /\ (written < n) \in BOOLEAN
    BY <1>1, <1>3 DEF Writer
  <2>2. QED
    BY <1>1, <2>1 DEF Writer
<1>5. x.bytes = w.bytes + written /\ x.file = w.file + written /\ x.rows = w.rows + written
  BY <1>1 DEF Writer
<1>6. w.rows \in Nat
  BY <1>1 DEF Writer
<1> HIDE DEF x
<1>7. WriterOK(x)
  BY <1>1, <1>3, <1>4, <1>5, <1>6 DEF WriterOK
<1>8. QED
  BY <1>7 DEF x, written

LEMMA WriterEdited ==
  ASSUME NEW w, WriterOK(w)
  PROVE  /\ WriterOK([w EXCEPT !.closed = TRUE]) /\ [w EXCEPT !.closed = TRUE].failed = w.failed
         /\ \A piece \in {0, 1} : w.bytes < FileLimit /\ ~w.failed
              => WriterOK([w EXCEPT !.file = @ + piece, !.failed = TRUE])
PROOF
<1>1. WriterOK([w EXCEPT !.closed = TRUE]) /\ [w EXCEPT !.closed = TRUE].failed = w.failed
  BY DEF WriterOK, Writer
<1>2. ASSUME NEW piece \in {0, 1}, w.bytes < FileLimit, ~w.failed
      PROVE  WriterOK([w EXCEPT !.file = @ + piece, !.failed = TRUE])
  <2> DEFINE x == [w EXCEPT !.file = w.file + piece, !.failed = TRUE]
  <2>1. w \in Writer /\ w.file = w.bytes /\ w.bytes = w.rows + 1 /\ w.file + piece \in Nat /\ FileLimit \in Nat
    BY <1>2, BatchConstants DEF WriterOK, Writer
  <2>2. x \in Writer /\ x.file = w.file + piece /\ x.bytes = w.bytes /\ x.rows = w.rows /\ x.failed
    BY <2>1 DEF Writer
  <2>3. w.rows \in Nat /\ w.bytes \in Nat
    BY <2>1 DEF Writer
  <2> HIDE DEF x
  <2>4. WriterOK(x)
    BY <1>2, <2>1, <2>2, <2>3 DEF WriterOK
  <2>5. QED
    BY <2>4 DEF x
<1>3. QED
  BY <1>1, <1>2

-----------------------------------------------------------------------------
(* No step of a program disturbs its readers and writers.                  *)
LEMMA BatchStep ==
  ASSUME BatchInv, Next
  PROVE  BatchInv'
PROOF
<1>1. ASSUME NEW source \in Inputs, OpenReader(source) PROVE BatchInv'
  <2>1. CASE readers' = Append(readers, NewReader(source)) /\ UNCHANGED program
    BY <1>1, <2>1, NewReaderOK, AddedReader DEF OpenReader
  <2>2. CASE readers' = Append(readers, [NewReader(source) EXCEPT !.failed = TRUE]) /\ program' = "failed"
    BY <1>1, <2>2, NewReaderOK, AddedReader DEF OpenReader
  <2>3. QED
    BY <1>1, <2>1, <2>2 DEF OpenReader
<1>2. ASSUME NEW h \in DOMAIN readers, BatchNext(h) PROVE BatchInv'
  <2> DEFINE r == readers[h]
             error == r.closed \/ (~r.eof /\ MeetsBadRow(r))
  <2>1. ReaderOK(r) /\ ~r.failed /\ UNCHANGED writers /\ Running
    BY <1>2 DEF BatchNext, BatchInv, Streams, Outcome, Running
  <2>2. CASE error
    <3>1. readers' = [readers EXCEPT ![h] = [r EXCEPT !.failed = TRUE]] /\ program' = "failed"
      BY <1>2, <2>2 DEF BatchNext
    <3>2. QED
      BY <2>1, <3>1, ReaderEdited, OneReader
  <2>3. CASE ~error /\ r.eof
    <3>1. readers' = [readers EXCEPT ![h] = r] /\ program' = program
      BY <1>2, <2>3 DEF BatchNext
    <3>2. QED
      BY <2>1, <3>1, OneReader
  <2>4. CASE ~error /\ ~r.eof
    <3>1. readers' = [readers EXCEPT ![h] = NextBatch(r)] /\ program' = program
      BY <1>2, <2>4 DEF BatchNext
    <3>2. ReaderOK(NextBatch(r)) /\ ~NextBatch(r).failed
      BY <2>1, <2>4, NextBatchOK
    <3>3. QED
      BY <2>1, <3>1, <3>2, OneReader
  <2>5. QED
    BY <2>2, <2>3, <2>4
<1>3. ASSUME NEW h \in DOMAIN readers, BatchClose(h) PROVE BatchInv'
  <2>1. ReaderOK(readers[h]) /\ ~readers[h].failed /\ readers[h].eof
    BY <1>3 DEF BatchClose, BatchInv, Streams, Outcome, Running
  <2>2. readers' = [readers EXCEPT ![h] = [readers[h] EXCEPT !.closed = TRUE]]
    BY <1>3 DEF BatchClose
  <2>3. QED
    BY <1>3, <2>1, <2>2, ReaderEdited, OneReader DEF BatchClose
<1>4. ASSUME NEW name \in Names, StreamOpen(name) PROVE BatchInv'
  <2>1. CASE writers' = Append(writers, NewWriter(name)) /\ UNCHANGED program
    BY <1>4, <2>1, NewWriterOK, AddedWriter DEF StreamOpen
  <2>2. CASE /\ writers' = Append(writers, [NewWriter(name) EXCEPT !.bytes = 0, !.file = 0, !.failed = TRUE])
             /\ program' = "failed"
    BY <1>4, <2>2, NewWriterOK, AddedWriter DEF StreamOpen
  <2>3. QED
    BY <1>4, <2>1, <2>2 DEF StreamOpen
<1>5. ASSUME NEW h \in DOMAIN writers, WriteError(h) PROVE BatchInv'
  <2>1. WriterOK(writers[h]) /\ ~writers[h].failed
    BY <1>5 DEF WriteError, BatchInv, Streams, Outcome, Running
  <2>2. PICK piece \in {0, 1} :
          writers' = [writers EXCEPT ![h].file = @ + piece, ![h].failed = TRUE]
    BY <1>5 DEF WriteError
  <2>3. writers' = [writers EXCEPT ![h] = [writers[h] EXCEPT !.file = @ + piece, !.failed = TRUE]]
    BY <2>2 DEF BatchInv, Streams, Writer
  <2>4. writers[h].bytes < FileLimit
    BY <1>5 DEF WriteError
  <2>5. WriterOK([writers[h] EXCEPT !.file = @ + piece, !.failed = TRUE])
    BY <2>1, <2>4, WriterEdited
  <2>6. QED
    BY <1>5, <2>3, <2>5, OneWriter DEF WriteError
<1>6. ASSUME NEW h \in DOMAIN writers, StreamClose(h) PROVE BatchInv'
  <2>1. WriterOK(writers[h]) /\ ~writers[h].failed
    BY <1>6 DEF StreamClose, BatchInv, Streams, Outcome, Running
  <2>2. writers' = [writers EXCEPT ![h] = [writers[h] EXCEPT !.closed = TRUE]]
    BY <1>6 DEF StreamClose
  <2>3. WriterOK([writers[h] EXCEPT !.closed = TRUE]) /\ ~[writers[h] EXCEPT !.closed = TRUE].failed
    BY <2>1, WriterEdited
  <2>4. QED
    BY <1>6, <2>2, <2>3, OneWriter DEF StreamClose
<1>7. ASSUME NEW h \in DOMAIN writers, NEW n \in 1..MaxWrite, StreamWrite(h, n) PROVE BatchInv'
  <2> DEFINE written == Min({n, FileLimit - writers[h].bytes})
             w == [writers[h] EXCEPT !.bytes = @ + written, !.file = @ + written, !.rows = @ + written,
                                     !.failed = written < n]
  <2>1. WriterOK(writers[h]) /\ ~writers[h].failed /\ Running /\ UNCHANGED readers
    BY <1>7 DEF StreamWrite, BatchInv, Streams, Outcome, Running
  <2>2. WriterOK(w)
    <3>1. n \in Nat
      BY BatchConstants
    <3>2. QED
      BY <2>1, <3>1, WrittenOK
  <2>3. writers' = [writers EXCEPT ![h] = w] /\ writers'[h].failed = w.failed
    BY <1>7 DEF StreamWrite, BatchInv, Streams, Writer
  <2>4. program' = IF w.failed THEN "failed" ELSE program
    BY <1>7, <2>3 DEF StreamWrite
  <2> HIDE DEF w
  <2>5. QED
    BY <2>1, <2>2, <2>3, <2>4, OneWriter
<1>8. CASE ProgramFails
  <2>1. Streams'
    BY <1>8 DEF ProgramFails, BatchInv, Streams
  <2>2. Outcome'
    BY <1>8 DEF ProgramFails, BatchInv, Outcome, Handles
  <2>3. QED
    BY <2>1, <2>2 DEF BatchInv
<1>9. CASE Finish
  <2>1. Streams'
    BY <1>9 DEF Finish, BatchInv, Streams
  <2>2. Outcome'
    BY <1>9 DEF Finish, BatchInv, Outcome, Handles
  <2>3. QED
    BY <2>1, <2>2 DEF BatchInv
<1>10. QED
  BY <1>1, <1>2, <1>3, <1>4, <1>5, <1>6, <1>7, <1>8, <1>9 DEF Next

-----------------------------------------------------------------------------
(* Every state of the composition has readers and writers in order.        *)
LEMMA BatchesInOrder == MCSpec => []BatchInv
PROOF
<1>1. MCInit => BatchInv
  BY BatchConstants DEF MCInit, Init, BatchInv, Streams, Outcome, Handles
<1>2. BatchInv /\ [MCNext]_all => BatchInv'
  <2> SUFFICES ASSUME BatchInv, [MCNext]_all PROVE BatchInv'
    OBVIOUS
  <2>1. CASE Batch
    BY <2>1, BatchStep DEF Batch
  <2>2. CASE UNCHANGED vars
    <3>1. Streams' /\ Outcome'
      BY <2>2 DEF vars, BatchInv, Streams, Outcome, Handles
    <3>2. QED
      BY <3>1 DEF BatchInv
  <2>3. QED
    BY <2>1, <2>2 DEF MCNext, Compiled, Planned, all
<1>3. QED
  BY <1>1, <1>2, PTL DEF MCSpec

(* Batches are the rows of the table in their order, none lost, skipped or *)
(* delivered twice (Reader::next with its deferred row), for tables of any *)
(* length, any sizes of rows and any limits of a batch.                    *)
THEOREM RowsAreInOrder == MCSpec => []RowsInOrder
PROOF
<1>1. BatchInv => RowsInOrder
  <2> SUFFICES ASSUME BatchInv, NEW h \in DOMAIN readers
               PROVE  readers[h].delivered \o readers[h].pending = [i \in 1..readers[h].read |-> i]
    BY DEF RowsInOrder
  <2> DEFINE r == readers[h]
             d == r.delivered
             First(n) == [i \in 1..n |-> i]
  <2>1. ReaderOK(r) /\ d \in Seq(Nat) /\ r.read \in Nat
    BY DEF BatchInv, Streams, ReaderOK, Reader
  <2>2. CountsFrom(d, 0)
    BY <2>1 DEF ReaderOK, InPlace
  <2>3. d = First(Len(d)) /\ d \o << >> = d
    <3>1. \A i \in 1..Len(d) : d[i] = i
      BY <2>1, <2>2 DEF CountsFrom
    <3> HIDE DEF d
    <3>2. d = First(Len(d))
      BY <2>1, <3>1
    <3>3. d \o << >> = d
      BY <2>1
    <3>4. QED
      BY <3>2, <3>3
  <2>4. d \o <<Len(d) + 1>> = First(Len(d) + 1)
    <3>1. d \o <<Len(d) + 1>> \in Seq(Nat) /\ Len(d \o <<Len(d) + 1>>) = Len(d) + 1
      BY <2>1
    <3>2. ASSUME NEW i \in 1..(Len(d) + 1) PROVE (d \o <<Len(d) + 1>>)[i] = i
      BY <2>1, <2>2 DEF CountsFrom
    <3>3. QED
      BY <3>1, <3>2
  <2>5. \/ r.pending = << >> /\ r.read = Len(d)
        \/ r.pending = <<r.read>> /\ r.read = Len(d) + 1
    BY <2>1 DEF ReaderOK, InPlace
  <2> HIDE DEF r, d, First
  <2>6. d \o r.pending = First(r.read)
    BY <2>3, <2>4, <2>5
  <2>7. QED
    BY <2>6 DEF r, d, First
<1>2. QED
  BY <1>1, BatchesInOrder, PTL

(* A program that passes was given every row and left its streams on disk  *)
(* as it wrote them, and what any program did before it stopped passes     *)
(* validate_evidence, unless it read on a reader it had closed.            *)
THEOREM EvidenceOfAnyEnd == MCSpec => []BatchEvidence
PROOF
<1>1. BatchInv => PassIsComplete
  <2> SUFFICES ASSUME BatchInv, program = "PASS" PROVE PassIsComplete
    BY DEF PassIsComplete
  <2>1. ASSUME NEW h \in DOMAIN readers PROVE Len(readers[h].delivered) = Len(Table[readers[h].source])
    BY DEF BatchInv, Streams, Outcome, ReaderOK, InPlace, Rows
  <2>2. ASSUME NEW h \in DOMAIN writers PROVE writers[h].file = writers[h].rows + 1
    BY DEF BatchInv, Streams, Outcome, WriterOK
  <2>3. QED
    BY <2>1, <2>2 DEF PassIsComplete
<1>2. BatchInv => EvidenceValid
  <2> SUFFICES ASSUME BatchInv, program # "running",
                      \A h \in DOMAIN readers : ~(readers[h].closed /\ readers[h].failed)
               PROVE  ValidEvidence
    BY DEF EvidenceValid
  <2>1. ASSUME NEW h \in DOMAIN readers
        PROVE  LET r == readers[h] IN
               /\ r.peak <= BatchLimit
               /\ r.batches <= Len(r.delivered) /\ Len(r.delivered) <= r.batches * RowsPerBatch
               /\ r.closed => r.eof /\ ~r.failed
               /\ program = "PASS" => r.closed /\ r.eof /\ ~r.failed
    BY DEF BatchInv, Streams, Outcome, ReaderOK, InPlace, Within
  <2>2. ASSUME NEW h \in DOMAIN writers
        PROVE  LET w == writers[h] IN
               /\ w.bytes <= FileLimit /\ w.rows <= w.bytes
               /\ w.bytes <= w.file /\ w.file <= FileLimit
               /\ program = "PASS" => w.closed /\ ~w.failed /\ w.file = w.bytes
    <3>1. WriterOK(writers[h])
      BY DEF BatchInv, Streams
    <3>2. writers[h].bytes <= FileLimit
      BY <3>1, BatchConstants DEF WriterOK, Writer
    <3>3. QED
      BY <3>1, <3>2 DEF BatchInv, Outcome, WriterOK
  <2>3. QED
    BY <2>1, <2>2 DEF ValidEvidence, BatchInv, Outcome
<1>3. QED
  BY <1>1, <1>2, BatchesInOrder, PTL DEF BatchEvidence

-----------------------------------------------------------------------------
(* How often a program calls any of calls before a place of its text, and  *)
(* what it had been told there.                                            *)
Count(prog, calls, p) == Cardinality({i \in 1..(p - 1) : prog[i] \in calls})
Told(prog, answers, i) == SubSeq(answers, 1, Count(prog, {"input"}, i))

(* What its calls write, if these are the answers it is given.             *)
Says(prog, answers) == [i \in 1..Len(prog) |-> R!Last(Told(prog, answers, i))]
Sees(prog, answers) ==
  [i \in 1..Len(prog) |-> R!Reading(Count(prog, R!Clocks, i), R!Mode(prog[i], Told(prog, answers, i)))]
Recorded(prog, calls, s, p, f) == \A i \in 1..(p - 1) : prog[i] \in calls => s[Count(prog, calls, i) + 1] = f[i]

Counted(prog, r) ==
  /\ Len(r.answers) = Count(prog, {"input"}, r.at) /\ Len(r.readings) = Count(prog, R!Clocks, r.at)
  /\ Len(r.said) = Count(prog, {"print"}, r.at) /\ Len(r.seals) = Count(prog, {"seal"}, r.at)

Lines == Answers \union {R!NoAnswer, "nothing"}
Readings == [index : Nat, mode : {"local", "utc"}]
Reference(prog) ==
  [at : 1..(Len(prog) + 1), answers : Seq(Answers), readings : Seq(Readings), said : Seq(Lines), seals : Seq(Lines),
   events : Seq(Lines), accessed : BOOLEAN]
Native(prog) ==
  [at : 1..(Len(prog) + 1), answers : Seq(Answers), readings : Seq(Readings), said : Seq(Lines), seals : Seq(Lines),
   state : {"off", "running", "success", "error"}]

(* The reference at a place of its text has done what the text before it   *)
(* says, within the limits.                                                *)
RefOK(prog, r) ==
  /\ r \in Reference(prog) /\ Counted(prog, r)
  /\ Len(r.answers) <= MaxInputs /\ Len(r.readings) <= MaxReadings
  /\ Recorded(prog, {"print"}, r.said, r.at, Says(prog, r.answers))
  /\ Recorded(prog, {"seal"}, r.seals, r.at, Says(prog, r.answers))
  /\ Recorded(prog, R!Clocks, r.readings, r.at, Sees(prog, r.answers))

-----------------------------------------------------------------------------
(* Counting.                                                               *)
LEMMA CountTyped ==
  ASSUME NEW prog, NEW calls, NEW p \in Nat
  PROVE  /\ IsFiniteSet({i \in 1..(p - 1) : prog[i] \in calls}) /\ Count(prog, calls, p) \in Nat
         /\ \A q \in 1..p : Count(prog, calls, q) \in Nat /\ Count(prog, calls, q) <= Count(prog, calls, p)
PROOF
<1> DEFINE B(q) == {i \in 1..(q - 1) : prog[i] \in calls}
<1>1. IsFiniteSet(B(p)) /\ Cardinality(B(p)) \in Nat
  <2>1. IsFiniteSet(1..(p - 1)) /\ B(p) \in SUBSET (1..(p - 1))
    BY FS_Interval
  <2>2. IsFiniteSet(B(p))
    BY <2>1, FS_Subset
  <2> HIDE DEF B
  <2>3. QED
    BY <2>2, FS_CardinalityType
<1>2. ASSUME NEW q \in 1..p PROVE Cardinality(B(q)) \in Nat /\ Cardinality(B(q)) <= Cardinality(B(p))
  <2>1. B(q) \in SUBSET B(p)
    OBVIOUS
  <2> HIDE DEF B
  <2>2. IsFiniteSet(B(q)) /\ Cardinality(B(q)) <= Cardinality(B(p))
    BY <1>1, <2>1, FS_Subset
  <2>3. QED
    BY <2>2, FS_CardinalityType
<1>3. QED
  BY <1>1, <1>2 DEF Count

LEMMA CountStep ==
  ASSUME NEW prog, NEW calls, NEW p \in Nat \ {0}
  PROVE  Count(prog, calls, p + 1) = IF prog[p] \in calls THEN Count(prog, calls, p) + 1 ELSE Count(prog, calls, p)
PROOF
<1> DEFINE B == {i \in 1..(p - 1) : prog[i] \in calls}
           C == {i \in 1..((p + 1) - 1) : prog[i] \in calls}
<1>1. IsFiniteSet(B) /\ p \notin B
  <2>1. p \in Nat
    OBVIOUS
  <2>2. IsFiniteSet(B)
    BY <2>1, CountTyped
  <2>3. QED
    BY <2>2
<1>2. CASE prog[p] \in calls
  <2>1. C = B \union {p}
    BY <1>2
  <2> HIDE DEF B, C
  <2>2. Cardinality(C) = Cardinality(B) + 1
    BY <1>1, <2>1, FS_AddElement
  <2>3. QED
    BY <1>2, <2>2 DEF Count, B, C
<1>3. CASE prog[p] \notin calls
  <2>1. C = B
    BY <1>3
  <2>2. QED
    BY <1>3, <2>1 DEF Count
<1>4. QED
  BY <1>2, <1>3

LEMMA CountStart ==
  ASSUME NEW prog, NEW calls
  PROVE  Count(prog, calls, 1) = 0
PROOF
<1>1. {i \in 1..(1 - 1) : prog[i] \in calls} = {}
  OBVIOUS
<1>2. QED
  BY <1>1, FS_EmptySet DEF Count

LEMMA CountBelow ==
  ASSUME NEW prog, NEW calls, NEW p \in Nat, NEW i \in 1..(p - 1), prog[i] \in calls
  PROVE  Count(prog, calls, i) \in Nat /\ Count(prog, calls, i) + 1 <= Count(prog, calls, p)
PROOF
<1>1. i \in Nat \ {0} /\ i + 1 \in 1..p /\ i \in 1..p
  OBVIOUS
<1>2. Count(prog, calls, i + 1) = Count(prog, calls, i) + 1
  BY <1>1, CountStep
<1>3. Count(prog, calls, i + 1) <= Count(prog, calls, p) /\ Count(prog, calls, i) \in Nat
  BY <1>1, CountTyped
<1>4. QED
  BY <1>2, <1>3

(* A call that writes, and one that does not.                              *)
LEMMA RecordedMore ==
  ASSUME NEW prog, NEW calls, NEW p \in Nat \ {0}, NEW f, NEW S, NEW s \in Seq(S), NEW v \in S,
         Recorded(prog, calls, s, p, f), Len(s) = Count(prog, calls, p), prog[p] \in calls, v = f[p]
  PROVE  Recorded(prog, calls, Append(s, v), p + 1, f) /\ Len(Append(s, v)) = Count(prog, calls, p + 1)
PROOF
<1>1. Len(Append(s, v)) = Len(s) + 1 /\ Append(s, v)[Len(s) + 1] = v /\ \A k \in 1..Len(s) : Append(s, v)[k] = s[k]
  OBVIOUS
<1>2. ASSUME NEW i \in 1..((p + 1) - 1), prog[i] \in calls PROVE Append(s, v)[Count(prog, calls, i) + 1] = f[i]
  <2>1. CASE i = p
    BY <1>1, <2>1
  <2>2. CASE i # p
    <3>1. i \in 1..(p - 1)
      BY <2>2
    <3>2. Count(prog, calls, i) \in Nat /\ Count(prog, calls, i) + 1 <= Len(s)
      BY <1>2, <3>1, CountBelow
    <3>3. Count(prog, calls, i) + 1 \in 1..Len(s)
      BY <3>2
    <3>4. s[Count(prog, calls, i) + 1] = f[i]
      BY <1>2, <3>1 DEF Recorded
    <3>5. QED
      BY <1>1, <3>3, <3>4
  <2>3. QED
    BY <2>1, <2>2
<1>3. Count(prog, calls, p + 1) = Count(prog, calls, p) + 1
  BY CountStep
<1>4. Recorded(prog, calls, Append(s, v), p + 1, f)
  BY <1>2 DEF Recorded
<1>5. QED
  BY <1>1, <1>3, <1>4

LEMMA RecordedSkip ==
  ASSUME NEW prog, NEW calls, NEW p \in Nat \ {0}, NEW f, NEW s,
         Recorded(prog, calls, s, p, f), Len(s) = Count(prog, calls, p), prog[p] \notin calls
  PROVE  Recorded(prog, calls, s, p + 1, f) /\ Len(s) = Count(prog, calls, p + 1)
PROOF
<1>1. Recorded(prog, calls, s, p + 1, f)
  BY DEF Recorded
<1>2. QED
  BY <1>1, CountStep

LEMMA RecordedSame ==
  ASSUME NEW prog, NEW calls, NEW p, NEW f, NEW g, NEW s, Recorded(prog, calls, s, p, f), \A i \in 1..(p - 1) : g[i] = f[i]
  PROVE  Recorded(prog, calls, s, p, g)
BY DEF Recorded

(* An answer changes nothing that was written before it.                   *)
LEMMA ToldBefore ==
  ASSUME NEW prog, NEW S, NEW answers \in Seq(S), NEW a \in S, NEW p \in Nat, Len(answers) = Count(prog, {"input"}, p),
         NEW i \in 1..p
  PROVE  Told(prog, Append(answers, a), i) = Told(prog, answers, i)
PROOF
<1> DEFINE n == Count(prog, {"input"}, i)
<1>1. n \in Nat /\ n <= Count(prog, {"input"}, p)
  BY CountTyped
<1> HIDE DEF n
<1>2. SubSeq(Append(answers, a), 1, n) = SubSeq(answers, 1, n)
  BY <1>1
<1>3. QED
  BY <1>2 DEF Told, n

LEMMA ToldAll ==
  ASSUME NEW prog, NEW S, NEW answers \in Seq(S), NEW p, Len(answers) = Count(prog, {"input"}, p)
  PROVE  Told(prog, answers, p) = answers
BY DEF Told

-----------------------------------------------------------------------------
(* The calls of the reference.                                             *)
LEMMA RefPlace ==
  ASSUME NEW prog \in Seq(R!Calls), NEW r, RefOK(prog, r), r.at <= Len(prog)
  PROVE  /\ r.at \in Nat \ {0} /\ r.at \in 1..Len(prog) /\ Len(prog) \in Nat
         /\ r.answers \in Seq(Answers) /\ r.readings \in Seq(Readings) /\ r.said \in Seq(Lines) /\ r.seals \in Seq(Lines)
         /\ Says(prog, r.answers)[r.at] = R!Last(r.answers)
         /\ Sees(prog, r.answers)[r.at] = R!Reading(Len(r.readings), R!Mode(prog[r.at], r.answers))
         /\ R!Last(r.answers) \in Lines
PROOF
<1>1. /\ r.at \in 1..Len(prog) /\ Len(prog) \in Nat
      /\ r.answers \in Seq(Answers) /\ r.readings \in Seq(Readings) /\ r.said \in Seq(Lines) /\ r.seals \in Seq(Lines)
  BY DEF RefOK, Reference
<1>2. Told(prog, r.answers, r.at) = r.answers
  BY <1>1, ToldAll DEF RefOK, Counted
<1>3. Says(prog, r.answers)[r.at] = R!Last(r.answers)
  BY <1>1, <1>2 DEF Says
<1>4. Sees(prog, r.answers)[r.at] = R!Reading(Len(r.readings), R!Mode(prog[r.at], r.answers))
  BY <1>1, <1>2 DEF Sees, RefOK, Counted
<1>5. R!Last(r.answers) \in Lines
  BY <1>1 DEF R!Last, Lines
<1>6. QED
  BY <1>1, <1>3, <1>4, <1>5

LEMMA RefHears ==
  ASSUME NEW prog \in Seq(R!Calls), NEW r, RefOK(prog, r), r.at <= Len(prog), prog[r.at] = "input",
         Len(r.answers) < MaxInputs, NEW a \in Answers, NEW x \in Reference(prog), x.at = r.at + 1,
         x.answers = Append(r.answers, a), x.readings = r.readings, x.said = r.said, x.seals = r.seals
  PROVE  RefOK(prog, x)
PROOF
<1> DEFINE p == r.at
<1>1. p \in Nat \ {0} /\ p \in 1..Len(prog) /\ Len(prog) \in Nat /\ r.answers \in Seq(Answers)
  BY RefPlace
<1>2. ASSUME NEW i \in 1..(p - 1) PROVE Told(prog, x.answers, i) = Told(prog, r.answers, i)
  <2>1. i \in 1..p /\ p \in Nat /\ Len(r.answers) = Count(prog, {"input"}, p)
    BY <1>1 DEF RefOK, Counted
  <2> HIDE DEF p
  <2>2. Told(prog, Append(r.answers, a), i) = Told(prog, r.answers, i)
    BY <1>1, <2>1, ToldBefore
  <2>3. QED
    BY <2>2
<1>3. \A i \in 1..(p - 1) : Says(prog, x.answers)[i] = Says(prog, r.answers)[i]
  BY <1>1, <1>2 DEF Says
<1>4. \A i \in 1..(p - 1) : Sees(prog, x.answers)[i] = Sees(prog, r.answers)[i]
  BY <1>1, <1>2 DEF Sees
<1>5. Recorded(prog, {"print"}, x.said, p, Says(prog, x.answers)) /\ Len(x.said) = Count(prog, {"print"}, p)
  BY <1>3, RecordedSame DEF RefOK, Counted
<1>6. Recorded(prog, {"seal"}, x.seals, p, Says(prog, x.answers)) /\ Len(x.seals) = Count(prog, {"seal"}, p)
  BY <1>3, RecordedSame DEF RefOK, Counted
<1>7. Recorded(prog, R!Clocks, x.readings, p, Sees(prog, x.answers)) /\ Len(x.readings) = Count(prog, R!Clocks, p)
  BY <1>4, RecordedSame DEF RefOK, Counted
<1>8. prog[p] \notin {"print"} /\ prog[p] \notin {"seal"} /\ prog[p] \notin R!Clocks /\ prog[p] \in {"input"}
  BY DEF R!Clocks
<1>9. Len(x.answers) = Count(prog, {"input"}, p + 1)
  <2>1. Len(x.answers) = Len(r.answers) + 1 /\ Len(r.answers) = Count(prog, {"input"}, p)
    BY <1>1 DEF RefOK, Counted
  <2>2. QED
    BY <1>1, <1>8, <2>1, CountStep
<1>10. Recorded(prog, {"print"}, x.said, p + 1, Says(prog, x.answers)) /\ Len(x.said) = Count(prog, {"print"}, p + 1)
  BY <1>1, <1>5, <1>8, RecordedSkip
<1>11. Recorded(prog, {"seal"}, x.seals, p + 1, Says(prog, x.answers)) /\ Len(x.seals) = Count(prog, {"seal"}, p + 1)
  BY <1>1, <1>6, <1>8, RecordedSkip
<1>12. Recorded(prog, R!Clocks, x.readings, p + 1, Sees(prog, x.answers)) /\ Len(x.readings) = Count(prog, R!Clocks, p + 1)
  <2> DEFINE s == x.readings
             calls == R!Clocks
             seen == Sees(prog, x.answers)
  <2>1. Recorded(prog, calls, s, p, seen) /\ Len(s) = Count(prog, calls, p) /\ prog[p] \notin calls
    BY <1>7, <1>8
  <2> HIDE DEF s, calls, seen, p
  <2>2. Recorded(prog, calls, s, p + 1, seen) /\ Len(s) = Count(prog, calls, p + 1)
    BY <1>1, <2>1, RecordedSkip
  <2>3. QED
    BY <2>2 DEF s, calls, seen
<1>13. Len(x.answers) <= MaxInputs /\ Len(x.readings) <= MaxReadings
  <2>1. Len(x.answers) = Len(r.answers) + 1 /\ Len(r.answers) \in Nat
    BY <1>1
  <2>2. MaxInputs \in Nat
    BY CompiledConstants DEF R!ReplayConstants
  <2>3. QED
    BY <2>1, <2>2 DEF RefOK
<1>14. QED
  BY <1>9, <1>10, <1>11, <1>12, <1>13 DEF RefOK, Counted

(* Every other call; calls says which list it writes to.                   *)
LEMMA RefWrites ==
  ASSUME NEW prog \in Seq(R!Calls), NEW r, RefOK(prog, r), r.at <= Len(prog), prog[r.at] # "input",
         NEW x \in Reference(prog), x.at = r.at + 1, x.answers = r.answers,
         x.said = IF prog[r.at] = "print" THEN Append(r.said, R!Last(r.answers)) ELSE r.said,
         x.seals = IF prog[r.at] = "seal" THEN Append(r.seals, R!Last(r.answers)) ELSE r.seals,
         x.readings = IF prog[r.at] \in R!Clocks
                      THEN Append(r.readings, R!Reading(Len(r.readings), R!Mode(prog[r.at], r.answers))) ELSE r.readings,
         prog[r.at] \in R!Clocks => Len(r.readings) < MaxReadings
  PROVE  RefOK(prog, x)
PROOF
<1> DEFINE p == r.at
           said == Says(prog, r.answers)
           seen == Sees(prog, r.answers)
<1>1. p \in Nat \ {0} /\ p \in 1..Len(prog) /\ Len(prog) \in Nat /\ r.answers \in Seq(Answers)
  BY RefPlace
<1>2. said[p] = R!Last(r.answers) /\ seen[p] = R!Reading(Len(r.readings), R!Mode(prog[p], r.answers)) /\ R!Last(r.answers) \in Lines
  BY RefPlace
<1>3. r.readings \in Seq(Readings) /\ r.said \in Seq(Lines) /\ r.seals \in Seq(Lines)
  BY RefPlace
<1>4. Recorded(prog, {"print"}, r.said, p, said) /\ Len(r.said) = Count(prog, {"print"}, p)
  BY DEF RefOK, Counted
<1>5. Recorded(prog, {"seal"}, r.seals, p, said) /\ Len(r.seals) = Count(prog, {"seal"}, p)
  BY DEF RefOK, Counted
<1>6. Recorded(prog, R!Clocks, r.readings, p, seen) /\ Len(r.readings) = Count(prog, R!Clocks, p)
  BY DEF RefOK, Counted
<1>7. Len(x.answers) = Count(prog, {"input"}, p + 1)
  <2>1. prog[p] \notin {"input"} /\ Len(r.answers) = Count(prog, {"input"}, p)
    BY DEF RefOK, Counted
  <2>2. QED
    BY <1>1, <2>1, CountStep
<1> HIDE DEF p, said, seen
<1>8. Recorded(prog, {"print"}, x.said, p + 1, said) /\ Len(x.said) = Count(prog, {"print"}, p + 1)
  <2>1. CASE prog[p] = "print"
    <3>1. x.said = Append(r.said, R!Last(r.answers)) /\ prog[p] \in {"print"}
      BY <2>1 DEF p
    <3>2. QED
      BY <1>1, <1>2, <1>3, <1>4, <3>1, RecordedMore
  <2>2. CASE prog[p] # "print"
    <3>1. x.said = r.said /\ prog[p] \notin {"print"}
      BY <2>2 DEF p
    <3>2. Recorded(prog, {"print"}, r.said, p + 1, said) /\ Len(r.said) = Count(prog, {"print"}, p + 1)
      BY <1>1, <1>4, <3>1, RecordedSkip
    <3>3. QED
      BY <3>1, <3>2
  <2>3. QED
    BY <2>1, <2>2
<1>9. Recorded(prog, {"seal"}, x.seals, p + 1, said) /\ Len(x.seals) = Count(prog, {"seal"}, p + 1)
  <2>1. CASE prog[p] = "seal"
    <3>1. x.seals = Append(r.seals, R!Last(r.answers)) /\ prog[p] \in {"seal"}
      BY <2>1 DEF p
    <3>2. QED
      BY <1>1, <1>2, <1>3, <1>5, <3>1, RecordedMore
  <2>2. CASE prog[p] # "seal"
    <3>1. x.seals = r.seals /\ prog[p] \notin {"seal"}
      BY <2>2 DEF p
    <3>2. Recorded(prog, {"seal"}, r.seals, p + 1, said) /\ Len(r.seals) = Count(prog, {"seal"}, p + 1)
      BY <1>1, <1>5, <3>1, RecordedSkip
    <3>3. QED
      BY <3>1, <3>2
  <2>3. QED
    BY <2>1, <2>2
<1>10. Recorded(prog, R!Clocks, x.readings, p + 1, seen) /\ Len(x.readings) = Count(prog, R!Clocks, p + 1)
  <2>1. CASE prog[p] \in R!Clocks
    <3> DEFINE v == R!Reading(Len(r.readings), R!Mode(prog[p], r.answers))
    <3>1. x.readings = Append(r.readings, v)
      BY <2>1 DEF p
    <3>2. v \in Readings
      <4>1. R!Mode(prog[p], r.answers) \in {"local", "utc"}
        BY <2>1 DEF R!Mode, R!Clocks
      <4>2. QED
        BY <1>3, <4>1 DEF R!Reading, Readings
    <3> HIDE DEF v
    <3>3. seen[p] = v
      BY <1>2 DEF v
    <3>4. /\ Recorded(prog, R!Clocks, Append(r.readings, v), p + 1, seen)
          /\ Len(Append(r.readings, v)) = Count(prog, R!Clocks, p + 1)
      <4> DEFINE s == r.readings
                 calls == R!Clocks
                 S == Readings
      <4>1. /\ Recorded(prog, calls, s, p, seen) /\ Len(s) = Count(prog, calls, p) /\ prog[p] \in calls
            /\ s \in Seq(S) /\ v \in S /\ v = seen[p]
        BY <1>3, <1>6, <2>1, <3>2, <3>3
      <4> HIDE DEF s, calls, S
      <4>2. Recorded(prog, calls, Append(s, v), p + 1, seen) /\ Len(Append(s, v)) = Count(prog, calls, p + 1)
        BY <1>1, <4>1, RecordedMore
      <4>3. QED
        BY <4>2 DEF s, calls
    <3>5. QED
      BY <3>1, <3>4
  <2>2. CASE prog[p] \notin R!Clocks
    <3>1. x.readings = r.readings
      BY <2>2 DEF p
    <3>2. Recorded(prog, R!Clocks, r.readings, p + 1, seen) /\ Len(r.readings) = Count(prog, R!Clocks, p + 1)
      BY <1>1, <1>6, <2>2, RecordedSkip
    <3>3. QED
      BY <3>1, <3>2
  <2>3. QED
    BY <2>1, <2>2
<1>11. Len(x.answers) <= MaxInputs
  BY DEF RefOK
<1>12. Len(x.readings) <= MaxReadings
  <2>1. MaxReadings \in Nat
    BY CompiledConstants DEF R!ReplayConstants
  <2>2. CASE prog[p] \in R!Clocks
    <3>1. Len(x.readings) = Len(r.readings) + 1 /\ Len(r.readings) < MaxReadings /\ Len(r.readings) \in Nat
      BY <1>3, <2>2 DEF p
    <3>2. QED
      BY <2>1, <3>1
  <2>3. CASE prog[p] \notin R!Clocks
    BY <2>3 DEF RefOK, p
  <2>4. QED
    BY <2>2, <2>3
<1>13. x.at = p + 1 /\ said = Says(prog, x.answers) /\ seen = Sees(prog, x.answers)
  BY DEF p, said, seen
<1>14. QED
  BY <1>7, <1>8, <1>9, <1>10, <1>11, <1>12, <1>13 DEF RefOK, Counted

-----------------------------------------------------------------------------
(* The invariant of a compiled run.                                        *)
Compiles ==
  /\ text \in Seq(R!Calls) /\ policy \in R!Policies /\ provided \in Seq(Answers)
  /\ phase \in {"reference", "native", "passed", "failed"} /\ thread \in {"idle", "writing", "done", "broken"}
  /\ stdin \in Seq(Answers) /\ unsent \in Seq(Answers) /\ stdout \in Seq(Lines) /\ output \in Seq(Lines)
  /\ RefOK(text, ref) /\ child \in Native(text) /\ Counted(text, child)

(* What the run keeps of its input.                                        *)
Kept ==
  /\ ref.events = ref.answers \/ (phase = "failed" /\ ref.events = Append(ref.answers, R!NoAnswer))
  /\ phase \in {"passed", "failed"} =>
       interaction = [kept |-> R!EvidenceNeeded(ref), events |-> IF R!EvidenceNeeded(ref) THEN ref.events ELSE << >>]

Stages ==
  /\ child.state = "off" => /\ phase \in {"reference", "failed"} /\ child = R!NewChild
                            /\ stdin = << >> /\ stdout = << >> /\ output = << >>
  /\ child.state # "off" => phase \in {"native", "passed", "failed"} /\ ref.at = Len(text) + 1
  /\ child.state = "success" => child.at = Len(text) + 1
  /\ phase = "passed" => child.state = "success" /\ R!Same

(* A line of the input is at one place of the pipe, or a block of Rust     *)
(* took it.                                                                *)
Lost == Len(ref.answers) - (Len(child.answers) + Len(stdin) + Len(unsent))
Piped ==
  child.state # "off" =>
    /\ Lost >= 0 /\ (Lost = 0 => child.answers \o stdin \o unsent = ref.answers)
    /\ thread = "done" => unsent = << >>

(* Without blocks of Rust the native program repeats the reference.        *)
Follows(c, s) == Len(c) <= Len(s) /\ \A k \in 1..Len(c) : c[k] = s[k]
Repeats ==
  /\ Lost = 0 /\ Follows(child.readings, ref.readings)
  /\ Follows(child.said, ref.said) /\ Follows(child.seals, ref.seals) /\ output \o stdout = child.said
  /\ child.state # "error" /\ thread \in {"writing", "done"} /\ phase # "failed"
Faithful == child.state # "off" /\ ~R!Uses({"inline"}) => Repeats

CompiledInv == Compiles /\ Kept /\ Stages /\ Piped /\ Faithful

-----------------------------------------------------------------------------
(* Lines that move from one end of a pipe to the other.                    *)
LEMMA MovedLeft ==
  ASSUME NEW S, NEW a \in Seq(S), NEW b \in Seq(S), NEW c \in Seq(S), b # << >>
  PROVE  /\ Head(b) \in S /\ Tail(b) \in Seq(S) /\ Len(Tail(b)) = Len(b) - 1 /\ Len(b) > 0
         /\ Append(a, Head(b)) \o Tail(b) = a \o b
         /\ Append(a, Head(b)) \o Tail(b) \o c = a \o b \o c
PROOF
<1>1. Head(b) \in S /\ Tail(b) \in Seq(S) /\ Len(Tail(b)) = Len(b) - 1 /\ Len(b) > 0
  OBVIOUS
<1>2. Append(a, Head(b)) \o Tail(b) = a \o b
  <2>1. ASSUME NEW i \in 1..(Len(a) + Len(b)) PROVE (Append(a, Head(b)) \o Tail(b))[i] = (a \o b)[i]
    OBVIOUS
  <2>2. Len(Append(a, Head(b)) \o Tail(b)) = Len(a) + Len(b) /\ Len(a \o b) = Len(a) + Len(b)
    BY <1>1
  <2>3. Append(a, Head(b)) \o Tail(b) \in Seq(S) /\ a \o b \in Seq(S)
    BY <1>1
  <2>4. QED
    BY <2>1, <2>2, <2>3
<1>3. QED
  BY <1>1, <1>2

LEMMA MovedThrough ==
  ASSUME NEW S, NEW a \in Seq(S), NEW b \in Seq(S), NEW c \in Seq(S), b # << >>
  PROVE  Append(a, Head(b)) \o Tail(b) \o c = a \o b \o c
BY MovedLeft

LEMMA Associative ==
  ASSUME NEW S, NEW a \in Seq(S), NEW b \in Seq(S), NEW c \in Seq(S)
  PROVE  a \o b \o c = a \o (b \o c)
PROOF
<1>1. Len(a \o b \o c) = Len(a) + Len(b) + Len(c) /\ Len(a \o (b \o c)) = Len(a) + Len(b) + Len(c)
  OBVIOUS
<1>2. ASSUME NEW i \in 1..(Len(a) + Len(b) + Len(c)) PROVE (a \o b \o c)[i] = (a \o (b \o c))[i]
  OBVIOUS
<1>3. a \o b \o c \in Seq(S) /\ a \o (b \o c) \in Seq(S)
  OBVIOUS
<1>4. QED
  BY <1>1, <1>2, <1>3

LEMMA AppendedLast ==
  ASSUME NEW S, NEW a \in Seq(S), NEW b \in Seq(S), NEW v \in S
  PROVE  a \o Append(b, v) = Append(a \o b, v)
PROOF
<1>1. Len(a \o Append(b, v)) = Len(a) + Len(b) + 1 /\ Len(Append(a \o b, v)) = Len(a) + Len(b) + 1
  OBVIOUS
<1>2. ASSUME NEW i \in 1..(Len(a) + Len(b) + 1) PROVE (a \o Append(b, v))[i] = Append(a \o b, v)[i]
  OBVIOUS
<1>3. a \o Append(b, v) \in Seq(S) /\ Append(a \o b, v) \in Seq(S)
  OBVIOUS
<1>4. QED
  BY <1>1, <1>2, <1>3

LEMMA FirstPart ==
  ASSUME NEW S, NEW a \in Seq(S), NEW v \in S
  PROVE  Append(a, v) # << >> /\ SubSeq(Append(a, v), 1, Len(a)) = a /\ SubSeq(a, 1, Len(a)) = a
PROOF
<1>1. Len(a) \in Nat /\ Len(Append(a, v)) = Len(a) + 1 /\ Append(a, v) \in Seq(S)
  OBVIOUS
<1>2. \A k \in 1..Len(a) : Append(a, v)[k] = a[k]
  OBVIOUS
<1>3. ASSUME NEW s \in Seq(S), Len(s) >= Len(a), \A k \in 1..Len(a) : s[k] = a[k]
      PROVE  SubSeq(s, 1, Len(a)) = a
  <2>1. SubSeq(s, 1, Len(a)) \in Seq(S) /\ Len(SubSeq(s, 1, Len(a))) = Len(a)
    BY <1>1, <1>3
  <2>2. \A k \in 1..Len(a) : SubSeq(s, 1, Len(a))[k] = a[k]
    BY <1>1, <1>3
  <2>3. QED
    BY <2>1, <2>2
<1>4. SubSeq(Append(a, v), 1, Len(a)) = a
  BY <1>1, <1>2, <1>3
<1>5. SubSeq(a, 1, Len(a)) = a
  BY <1>1, <1>3
<1>6. QED
  BY <1>1, <1>4, <1>5

LEMMA FollowsMore ==
  ASSUME NEW S, NEW c \in Seq(S), NEW s \in Seq(S), Follows(c, s), Len(c) < Len(s), NEW v, v = s[Len(c) + 1]
  PROVE  Follows(Append(c, v), s)
PROOF
<1>1. v \in S
  OBVIOUS
<1>2. Len(Append(c, v)) = Len(c) + 1 /\ \A k \in 1..(Len(c) + 1) : Append(c, v)[k] = IF k <= Len(c) THEN c[k] ELSE v
  BY <1>1
<1>3. QED
  BY <1>2 DEF Follows

LEMMA FollowsAll ==
  ASSUME NEW S, NEW c \in Seq(S), NEW s \in Seq(S), Follows(c, s)
  PROVE  /\ Len(c) = Len(s) => c = s
         /\ SubSeq(s, 1, Len(c)) = c
PROOF
<1>1. Len(c) \in Nat /\ Len(s) \in Nat /\ Len(c) <= Len(s) /\ \A k \in 1..Len(c) : c[k] = s[k]
  BY DEF Follows
<1>2. SubSeq(s, 1, Len(c)) \in Seq(S) /\ Len(SubSeq(s, 1, Len(c))) = Len(c)
  BY <1>1
<1>3. \A k \in 1..Len(c) : SubSeq(s, 1, Len(c))[k] = c[k]
  BY <1>1
<1>4. QED
  BY <1>1, <1>2, <1>3

-----------------------------------------------------------------------------
(* The reference runs.                                                     *)
LEMMA RefKeeps ==
  ASSUME NEW prog, NEW r, RefOK(prog, r), NEW x \in Reference(prog), x.at = r.at, x.answers = r.answers,
         x.readings = r.readings, x.said = r.said, x.seals = r.seals
  PROVE  RefOK(prog, x)
BY DEF RefOK, Counted

LEMMA WhileReference ==
  ASSUME CompiledInv, phase = "reference", R!NoChild, UNCHANGED <<text, policy, provided>>,
         phase' \in {"reference", "failed"}, RefOK(text, ref'), Kept'
  PROVE  CompiledInv'
PROOF
<1>1. UNCHANGED <<stdin, thread, unsent, child, stdout, output>>
  BY DEF R!NoChild
<1>2. child.state = "off"
  BY DEF CompiledInv, Compiles, Native, Stages
<1>3. Compiles'
  BY <1>1 DEF CompiledInv, Compiles
<1>4. Stages'
  BY <1>1, <1>2 DEF CompiledInv, Stages
<1>5. Piped' /\ Faithful'
  BY <1>1, <1>2 DEF Piped, Faithful
<1>6. QED
  BY <1>3, <1>4, <1>5 DEF CompiledInv

(* The reference fails, with what it was told last in its evidence.        *)
LEMMA ReferenceFails ==
  ASSUME CompiledInv, phase = "reference", R!NoChild, UNCHANGED <<text, policy, provided>>,
         R!End("failed", ref) \/ R!End("failed", R!Heard(R!NoAnswer))
  PROVE  CompiledInv'
PROOF
<1>1. RefOK(text, ref) /\ ref \in Reference(text) /\ ref.events = ref.answers /\ ref.events \in Seq(Lines)
  BY DEF CompiledInv, Compiles, RefOK, Kept, Reference
<1>2. CASE R!End("failed", ref)
  <2>1. ref' = ref /\ phase' = "failed"
    BY <1>2 DEF R!End
  <2>2. Kept'
    BY <1>1, <1>2 DEF R!End, Kept, R!EvidenceNeeded
  <2>3. QED
    BY <1>1, <2>1, <2>2, WhileReference
<1>3. CASE R!End("failed", R!Heard(R!NoAnswer))
  <2>1. phase' = "failed" /\ ref' = R!Heard(R!NoAnswer)
    BY <1>3 DEF R!End
  <2>2. R!Heard(R!NoAnswer) = [ref EXCEPT !.events = Append(ref.events, R!NoAnswer), !.answers = ref.answers]
    BY DEF R!Heard
  <2>3. Append(ref.events, R!NoAnswer) \in Seq(Lines) /\ ref.answers \in Seq(Answers)
    BY <1>1 DEF Lines, Reference
  <2>4. ref' \in Reference(text)
    BY <1>1, <2>1, <2>2, <2>3 DEF Reference
  <2>5. /\ ref'.at = ref.at /\ ref'.answers = ref.answers /\ ref'.readings = ref.readings
        /\ ref'.said = ref.said /\ ref'.seals = ref.seals /\ ref'.events = Append(ref.events, R!NoAnswer)
    BY <1>1, <2>1, <2>2 DEF Reference
  <2>6. RefOK(text, ref')
    BY <1>1, <2>4, <2>5, RefKeeps
  <2>7. interaction' = [kept |-> R!EvidenceNeeded(ref'), events |-> IF R!EvidenceNeeded(ref') THEN ref'.events ELSE << >>]
    BY <1>3, <2>1 DEF R!End, R!EvidenceNeeded
  <2>8. Kept'
    BY <1>1, <2>1, <2>5, <2>7 DEF Kept, R!EvidenceNeeded
  <2>9. QED
    BY <2>1, <2>6, <2>8, WhileReference
<1>4. QED
  BY <1>2, <1>3

LEMMA AskStep ==
  ASSUME CompiledInv, R!Ask
  PROVE  CompiledInv'
PROOF
<1>1. phase = "reference" /\ R!Call = "input" /\ UNCHANGED <<text, policy, provided>> /\ R!NoChild
  BY DEF R!Ask
<1>2. CASE Len(ref.events) >= MaxInputs \/ policy = "disabled"
  <2>1. R!End("failed", ref)
    BY <1>2 DEF R!Ask
  <2>2. QED
    BY <1>1, <2>1, ReferenceFails
<1>3. CASE ~(Len(ref.events) >= MaxInputs \/ policy = "disabled")
  <2>1. PICK answer \in R!Typed :
          CASE answer \in Refused -> R!End("failed", ref)
            [] answer = R!NoAnswer -> R!End("failed", R!Heard(answer))
            [] OTHER -> R!Goes(R!Heard(answer))
    BY <1>3 DEF R!Ask
  <2>2. \/ R!End("failed", ref) \/ R!End("failed", R!Heard(R!NoAnswer))
        \/ answer # R!NoAnswer /\ R!Goes(R!Heard(answer))
    BY <2>1
  <2>3. CASE answer # R!NoAnswer /\ R!Goes(R!Heard(answer))
    <3>1. answer \in Answers
      <4>1. policy \in R!Policies /\ provided \in Seq(Answers) /\ Len(ref.events) \in Nat
        BY DEF CompiledInv, Compiles, RefOK, Reference
      <4>2. CASE policy = "provided"
        <5>1. answer = IF Len(ref.events) < Len(provided) THEN provided[Len(ref.events) + 1] ELSE R!NoAnswer
          BY <2>1, <4>2 DEF R!Typed
        <5>2. QED
          BY <2>3, <4>1, <5>1
      <4>3. CASE policy = "interactive"
        BY <2>1, <2>3, <4>3 DEF R!Typed
      <4>4. QED
        BY <1>3, <4>1, <4>2, <4>3 DEF R!Policies
    <3>2. /\ RefOK(text, ref) /\ ref \in Reference(text) /\ ref.events = ref.answers /\ ref.events \in Seq(Lines)
          /\ ref.answers \in Seq(Answers) /\ text \in Seq(R!Calls)
      BY <1>1 DEF CompiledInv, Compiles, RefOK, Kept, Reference
    <3>3. ref.at <= Len(text) /\ text[ref.at] = "input" /\ ref.at + 1 \in 1..(Len(text) + 1)
      <4>1. ref.at \in 1..(Len(text) + 1) /\ Len(text) \in Nat
        BY <3>2 DEF Reference
      <4>2. QED
        BY <1>1, <4>1 DEF R!Call
    <3>4. Append(ref.events, answer) \in Seq(Lines) /\ Append(ref.answers, answer) \in Seq(Answers)
      BY <3>1, <3>2 DEF Lines
    <3>5. ref' = [[ref EXCEPT !.events = Append(ref.events, answer), !.answers = Append(ref.answers, answer)]
                   EXCEPT !.at = @ + 1]
      BY <2>3 DEF R!Goes, R!Heard
    <3>6. ref' = [ref EXCEPT !.events = Append(ref.events, answer), !.answers = Append(ref.answers, answer), !.at = ref.at + 1]
      BY <3>2, <3>5 DEF Reference
    <3>7. ref' \in Reference(text)
      BY <3>2, <3>3, <3>4, <3>6 DEF Reference
    <3>8. /\ ref'.at = ref.at + 1 /\ ref'.answers = Append(ref.answers, answer) /\ ref'.readings = ref.readings
          /\ ref'.said = ref.said /\ ref'.seals = ref.seals /\ ref'.events = Append(ref.events, answer)
      BY <3>2, <3>6 DEF Reference
    <3>9. Len(ref.answers) < MaxInputs
      <4>1. Len(ref.answers) \in Nat /\ MaxInputs \in Nat
        BY <3>2, CompiledConstants DEF R!ReplayConstants
      <4>2. QED
        BY <1>3, <3>2, <4>1
    <3>10. RefOK(text, ref')
      BY <3>1, <3>2, <3>3, <3>7, <3>8, <3>9, RefHears
    <3>11. phase' = "reference" /\ Kept'
      BY <2>3, <3>2, <3>8 DEF R!Goes, Kept
    <3>12. QED
      BY <1>1, <3>10, <3>11, WhileReference
  <2>4. QED
    BY <1>1, <2>2, <2>3, ReferenceFails
<1>4. QED
  BY <1>2, <1>3

(* Every other call that does not fail.                                    *)
LEMMA ReferenceGoes ==
  ASSUME CompiledInv, phase = "reference", R!NoChild, UNCHANGED <<text, policy, provided>>, R!Call \notin {"input", "none"},
         NEW x \in Reference(text), x.at = ref.at, R!Goes(x), x.answers = ref.answers, x.events = ref.events,
         x.said = IF R!Call = "print" THEN Append(ref.said, R!Last(ref.answers)) ELSE ref.said,
         x.seals = IF R!Call = "seal" THEN Append(ref.seals, R!Last(ref.answers)) ELSE ref.seals,
         x.readings = IF R!Call \in R!Clocks
                      THEN Append(ref.readings, R!Reading(Len(ref.readings), R!Mode(R!Call, ref.answers))) ELSE ref.readings,
         R!Call \in R!Clocks => Len(ref.readings) < MaxReadings
  PROVE  CompiledInv'
PROOF
<1>1. RefOK(text, ref) /\ ref \in Reference(text) /\ ref.events = ref.answers /\ text \in Seq(R!Calls)
  BY DEF CompiledInv, Compiles, RefOK, Kept
<1>2. ref.at <= Len(text) /\ text[ref.at] = R!Call /\ ref.at + 1 \in 1..(Len(text) + 1)
  <2>1. ref.at \in 1..(Len(text) + 1) /\ Len(text) \in Nat
    BY <1>1 DEF Reference
  <2>2. QED
    BY <2>1 DEF R!Call
<1> DEFINE y == [x EXCEPT !.at = x.at + 1]
<1>3. ref' = y /\ phase' = "reference"
  BY DEF R!Goes
<1>4. y \in Reference(text)
  BY <1>2 DEF Reference
<1>5. /\ y.at = ref.at + 1 /\ y.answers = x.answers /\ y.readings = x.readings /\ y.said = x.said /\ y.seals = x.seals
      /\ y.events = x.events
  BY DEF Reference
<1> DEFINE call == R!Call
<1> HIDE DEF y, call
<1>6. /\ x.said = IF call = "print" THEN Append(ref.said, R!Last(ref.answers)) ELSE ref.said
      /\ x.seals = IF call = "seal" THEN Append(ref.seals, R!Last(ref.answers)) ELSE ref.seals
      /\ x.readings = IF call \in R!Clocks
                      THEN Append(ref.readings, R!Reading(Len(ref.readings), R!Mode(call, ref.answers))) ELSE ref.readings
      /\ call \in R!Clocks => Len(ref.readings) < MaxReadings
      /\ call # "input" /\ call = text[ref.at]
  BY <1>2 DEF call
<1>7. RefOK(text, y)
  BY <1>1, <1>2, <1>4, <1>5, <1>6, RefWrites
<1>8. Kept'
  BY <1>1, <1>3, <1>5 DEF Kept
<1>9. QED
  BY <1>3, <1>7, <1>8, WhileReference

LEMMA LookStep ==
  ASSUME CompiledInv, R!LookAtClock
  PROVE  CompiledInv'
PROOF
<1>1. phase = "reference" /\ R!Call \in R!Clocks /\ UNCHANGED <<text, policy, provided>> /\ R!NoChild
  BY DEF R!LookAtClock
<1> DEFINE call == R!Call
           v == R!Reading(Len(ref.readings), R!Mode(call, ref.answers))
           x == [ref EXCEPT !.readings = Append(ref.readings, v)]
<1>2. CASE Len(ref.readings) >= MaxReadings
  <2>1. R!End("failed", ref)
    BY <1>2 DEF R!LookAtClock
  <2>2. QED
    BY <1>1, <2>1, ReferenceFails
<1>3. CASE ~(Len(ref.readings) >= MaxReadings)
  <2>1. R!Goes(x)
    BY <1>3 DEF R!LookAtClock
  <2>2. ref \in Reference(text) /\ ref.readings \in Seq(Readings)
    BY DEF CompiledInv, Compiles, RefOK, Reference
  <2>3. v \in Readings
    <3>1. R!Mode(call, ref.answers) \in {"local", "utc"}
      BY <1>1 DEF R!Mode, R!Clocks
    <3>2. QED
      BY <2>2, <3>1 DEF R!Reading, Readings
  <2> HIDE DEF v
  <2>4. x \in Reference(text)
    <3>1. Append(ref.readings, v) \in Seq(Readings)
      BY <2>2, <2>3
    <3>2. QED
      BY <2>2, <3>1 DEF Reference
  <2>5. /\ x.at = ref.at /\ x.answers = ref.answers /\ x.events = ref.events /\ x.said = ref.said /\ x.seals = ref.seals
        /\ x.readings = Append(ref.readings, v)
    BY <2>2 DEF Reference
  <2>6. call \notin {"input", "none", "print", "seal"} /\ call \in R!Clocks
    BY <1>1 DEF R!Clocks
  <2>7. Len(ref.readings) < MaxReadings
    <3>1. Len(ref.readings) \in Nat /\ MaxReadings \in Nat
      BY <2>2, CompiledConstants DEF R!ReplayConstants
    <3>2. QED
      BY <1>3, <3>1
  <2> HIDE DEF x
  <2>8. x.said = IF call = "print" THEN Append(ref.said, R!Last(ref.answers)) ELSE ref.said
    BY <2>5, <2>6
  <2>9. x.seals = IF call = "seal" THEN Append(ref.seals, R!Last(ref.answers)) ELSE ref.seals
    BY <2>5, <2>6
  <2>10. x.readings = IF call \in R!Clocks THEN Append(ref.readings, v) ELSE ref.readings
    BY <2>5, <2>6
  <2>11. QED
    BY <1>1, <2>1, <2>4, <2>5, <2>6, <2>7, <2>8, <2>9, <2>10, ReferenceGoes DEF v
<1>4. QED
  BY <1>2, <1>3

LEMMA OtherStep ==
  ASSUME CompiledInv, R!Other
  PROVE  CompiledInv'
PROOF
<1> DEFINE call == R!Call
           last == R!Last(ref.answers)
<1>1. /\ phase = "reference" /\ call \in {"print", "seal", "argc", "inline"} /\ UNCHANGED <<text, policy, provided>>
      /\ R!NoChild
  BY DEF R!Other
<1>2. PICK x : /\ R!Goes(x)
               /\ x = CASE call = "print" -> [ref EXCEPT !.said = Append(ref.said, last)]
                        [] call = "seal" -> [ref EXCEPT !.seals = Append(ref.seals, last)]
                        [] call = "argc" -> [ref EXCEPT !.accessed = TRUE]
                        [] OTHER -> ref
  BY DEF R!Other
<1>3. ref \in Reference(text) /\ ref.answers \in Seq(Answers) /\ ref.said \in Seq(Lines) /\ ref.seals \in Seq(Lines)
  BY DEF CompiledInv, Compiles, RefOK, Reference
<1>4. last \in Lines
  BY <1>3 DEF R!Last, Lines
<1>5. call \notin R!Clocks /\ call \notin {"input", "none"}
  BY <1>1 DEF R!Clocks
<1> HIDE DEF call, last
<1>6. /\ x \in Reference(text) /\ x.at = ref.at /\ x.answers = ref.answers /\ x.events = ref.events /\ x.readings = ref.readings
      /\ x.said = IF call = "print" THEN Append(ref.said, last) ELSE ref.said
      /\ x.seals = IF call = "seal" THEN Append(ref.seals, last) ELSE ref.seals
  <2>1. CASE call = "print"
    <3>1. x = [ref EXCEPT !.said = Append(ref.said, last)] /\ Append(ref.said, last) \in Seq(Lines)
      BY <1>2, <1>3, <1>4, <2>1
    <3>2. QED
      BY <1>3, <2>1, <3>1 DEF Reference
  <2>2. CASE call = "seal"
    <3>1. x = [ref EXCEPT !.seals = Append(ref.seals, last)] /\ Append(ref.seals, last) \in Seq(Lines)
      BY <1>2, <1>3, <1>4, <2>2
    <3>2. QED
      BY <1>3, <2>2, <3>1 DEF Reference
  <2>3. CASE call = "argc"
    <3>1. x = [ref EXCEPT !.accessed = TRUE]
      BY <1>2, <2>3
    <3>2. QED
      BY <1>3, <2>3, <3>1 DEF Reference
  <2>4. CASE call = "inline"
    <3>1. x = ref
      BY <1>2, <2>4
    <3>2. QED
      BY <1>3, <2>4, <3>1 DEF Reference
  <2>5. QED
    BY <1>1, <2>1, <2>2, <2>3, <2>4
<1>7. x.readings = IF call \in R!Clocks THEN Append(ref.readings, R!Reading(Len(ref.readings), R!Mode(call, ref.answers)))
                   ELSE ref.readings
  BY <1>5, <1>6
<1>8. call \in R!Clocks => Len(ref.readings) < MaxReadings
  BY <1>5
<1>9. QED
  BY <1>1, <1>2, <1>5, <1>6, <1>7, <1>8, ReferenceGoes DEF call, last

-----------------------------------------------------------------------------
(* The child is started with everything the reference was told.            *)
LEMMA SpawnStep ==
  ASSUME CompiledInv, R!Spawn
  PROVE  CompiledInv'
PROOF
<1>1. /\ phase = "reference" /\ R!Call = "none" /\ phase' = "native" /\ child' = [child EXCEPT !.state = "running"]
      /\ thread' = "writing" /\ unsent' = ref.answers
      /\ UNCHANGED <<text, policy, provided, ref, stdin, stdout, output, interaction>>
  BY DEF R!Spawn
<1>2. /\ text \in Seq(R!Calls) /\ RefOK(text, ref) /\ child \in Native(text) /\ ref \in Reference(text)
      /\ ref.answers \in Seq(Answers) /\ Len(text) \in Nat
  BY DEF CompiledInv, Compiles, RefOK, Reference
<1>3. child.state = "off" /\ child = R!NewChild /\ stdout = << >> /\ output = << >> /\ stdin = << >>
  BY <1>1, <1>2 DEF CompiledInv, Compiles, Stages, Native
<1>4. ref.at = Len(text) + 1
  <2>1. ref.at \in 1..(Len(text) + 1)
    BY <1>2 DEF Reference
  <2>2. ~(ref.at <= Len(text))
    <3>1. SUFFICES ASSUME ref.at <= Len(text) PROVE FALSE
      OBVIOUS
    <3>2. text[ref.at] \in R!Calls /\ text[ref.at] = "none"
      BY <1>1, <1>2, <2>1, <3>1 DEF R!Call
    <3>3. QED
      BY <3>2 DEF R!Calls
  <2>3. QED
    BY <1>2, <2>1, <2>2
<1>5. /\ child' \in Native(text) /\ child'.state = "running" /\ child'.at = child.at /\ child'.answers = child.answers
      /\ child'.readings = child.readings /\ child'.said = child.said /\ child'.seals = child.seals
  BY <1>1, <1>2 DEF Native
<1>6. child.answers = << >> /\ child.readings = << >> /\ child.said = << >> /\ child.seals = << >>
  BY <1>3 DEF R!NewChild
<1>7. Compiles'
  <2>1. Counted(text, child')
    BY <1>5 DEF CompiledInv, Compiles, Counted
  <2>2. QED
    BY <1>1, <1>2, <1>5, <2>1 DEF CompiledInv, Compiles
<1>8. Kept'
  BY <1>1 DEF CompiledInv, Kept
<1>9. Stages'
  BY <1>1, <1>4, <1>5 DEF Stages
<1>10. /\ Len(child'.answers) = 0 /\ Len(stdin') = 0 /\ Len(unsent') = Len(ref'.answers)
       /\ child'.answers \o stdin' \o unsent' = ref'.answers
  <2>1. << >> \o << >> \o ref.answers = ref.answers
    BY <1>2
  <2>2. child'.answers = << >> /\ stdin' = << >> /\ unsent' = ref.answers /\ ref' = ref
    BY <1>1, <1>3, <1>5, <1>6
  <2>3. Len(<< >>) = 0
    OBVIOUS
  <2>4. QED
    BY <2>1, <2>2, <2>3
<1>11. Lost' = 0
  <2>1. Len(ref'.answers) \in Nat
    BY <1>1, <1>2
  <2> DEFINE c == Len(child'.answers)
             i == Len(stdin')
             u == Len(unsent')
             n == Len(ref'.answers)
  <2>2. Lost' = n - (c + i + u)
    BY DEF Lost
  <2>3. c = 0 /\ i = 0 /\ u = n /\ n \in Nat
    BY <1>10, <2>1
  <2> HIDE DEF c, i, u, n
  <2>4. QED
    BY <2>2, <2>3
<1>12. Piped'
  <2>1. Lost' >= 0
    BY <1>11
  <2>2. thread' # "done"
    BY <1>1
  <2>3. QED
    BY <1>10, <2>1, <2>2 DEF Piped
<1>13. Faithful'
  <2>1. Follows(<< >>, ref.readings) /\ Follows(<< >>, ref.said) /\ Follows(<< >>, ref.seals)
    BY <1>2 DEF Follows, Reference
  <2>2. output' \o stdout' = child'.said
    BY <1>1, <1>3, <1>5, <1>6
  <2>3. QED
    BY <1>1, <1>5, <1>6, <1>11, <2>1, <2>2 DEF Faithful, Repeats
<1>14. QED
  BY <1>7, <1>8, <1>9, <1>12, <1>13 DEF CompiledInv

-----------------------------------------------------------------------------
(* The native program runs.                                                *)
LEMMA ChildPlace ==
  ASSUME CompiledInv, R!Running
  PROVE  /\ phase = "native" /\ child.state = "running" /\ text \in Seq(R!Calls) /\ Len(text) \in Nat
         /\ child \in Native(text) /\ ref \in Reference(text) /\ RefOK(text, ref) /\ Counted(text, child) /\ ref.at = Len(text) + 1
         /\ child.at \in 1..(Len(text) + 1)
         /\ child.answers \in Seq(Answers) /\ child.readings \in Seq(Readings) /\ child.said \in Seq(Lines) /\ child.seals \in Seq(Lines)
         /\ ref.answers \in Seq(Answers) /\ ref.readings \in Seq(Readings) /\ ref.said \in Seq(Lines) /\ ref.seals \in Seq(Lines)
         /\ stdin \in Seq(Answers) /\ unsent \in Seq(Answers) /\ stdout \in Seq(Lines) /\ output \in Seq(Lines)
         /\ Lost >= 0 /\ (Lost = 0 => child.answers \o stdin \o unsent = ref.answers)
         /\ thread = "done" => unsent = << >>
PROOF
<1>1. phase = "native" /\ child.state = "running"
  BY DEF R!Running
<1>2. /\ text \in Seq(R!Calls) /\ Len(text) \in Nat /\ child \in Native(text) /\ ref \in Reference(text) /\ RefOK(text, ref)
      /\ Counted(text, child)
      /\ stdin \in Seq(Answers) /\ unsent \in Seq(Answers) /\ stdout \in Seq(Lines) /\ output \in Seq(Lines)
  BY DEF CompiledInv, Compiles, RefOK
<1>3. /\ child.at \in 1..(Len(text) + 1)
      /\ child.answers \in Seq(Answers) /\ child.readings \in Seq(Readings) /\ child.said \in Seq(Lines) /\ child.seals \in Seq(Lines)
      /\ ref.answers \in Seq(Answers) /\ ref.readings \in Seq(Readings) /\ ref.said \in Seq(Lines) /\ ref.seals \in Seq(Lines)
  BY <1>2 DEF Native, Reference
<1>4. ref.at = Len(text) + 1
  BY <1>1 DEF CompiledInv, Stages
<1>5. Lost >= 0 /\ (Lost = 0 => child.answers \o stdin \o unsent = ref.answers) /\ (thread = "done" => unsent = << >>)
  BY <1>1 DEF CompiledInv, Piped
<1>6. QED
  BY <1>1, <1>2, <1>3, <1>4, <1>5

LEMMA ChildMoves ==
  ASSUME CompiledInv, R!Running, NEW x, R!Child(x), x \in Native(text), Counted(text, x),
         stdin' \in Seq(Answers), stdout' \in Seq(Lines), x.state \in {"running", "success", "error"},
         x.state = "success" => x.at = Len(text) + 1, Piped', Faithful'
  PROVE  CompiledInv'
PROOF
<1>1. child' = x /\ UNCHANGED <<text, policy, provided, phase, ref, thread, unsent, output, interaction>>
  BY DEF R!Child
<1>2. phase = "native" /\ ref.at = Len(text) + 1
  BY ChildPlace
<1>3. Compiles'
  BY <1>1 DEF CompiledInv, Compiles
<1>4. Kept'
  BY <1>1, <1>2 DEF CompiledInv, Kept
<1>5. Stages'
  BY <1>1, <1>2 DEF Stages
<1>6. QED
  BY <1>3, <1>4, <1>5 DEF CompiledInv

(* A program that ends in an error has a block of Rust.                    *)
LEMMA ChildExits ==
  ASSUME CompiledInv, R!Running, NEW code, R!Exit(code), UNCHANGED <<stdin, stdout>>,
         \/ code = "error" /\ R!Uses({"inline"})
         \/ code = "success" /\ child.at = Len(text) + 1
  PROVE  CompiledInv'
PROOF
<1> DEFINE x == [child EXCEPT !.state = code]
<1>1. R!Child(x) /\ child' = x /\ UNCHANGED <<text, ref, thread, unsent, output, phase>>
  BY DEF R!Exit, R!Child
<1>2. child \in Native(text) /\ Counted(text, child) /\ phase = "native" /\ child.state = "running"
  BY ChildPlace
<1>3. /\ x \in Native(text) /\ x.state = code /\ x.at = child.at /\ x.answers = child.answers /\ x.readings = child.readings
      /\ x.said = child.said /\ x.seals = child.seals
  BY <1>2 DEF Native
<1> HIDE DEF x
<1>4. Counted(text, x)
  BY <1>2, <1>3 DEF Counted
<1>5. Lost' = Lost
  BY <1>1, <1>3 DEF Lost
<1>6. Piped'
  BY <1>1, <1>2, <1>3, <1>5 DEF CompiledInv, Piped
<1>7. Faithful'
  <2>1. R!Uses({"inline"})' <=> R!Uses({"inline"})
    BY <1>1 DEF R!Uses
  <2>2. CASE code = "error"
    BY <2>1, <2>2 DEF Faithful
  <2>3. CASE code = "success"
    <3>1. SUFFICES ASSUME ~R!Uses({"inline"}) PROVE Repeats'
      BY <2>1 DEF Faithful
    <3>2. Repeats
      BY <1>2, <3>1 DEF CompiledInv, Faithful
    <3>3. QED
      BY <1>1, <1>3, <1>5, <2>3, <3>2 DEF Repeats
  <2>4. QED
    BY <2>2, <2>3
<1>8. QED
  BY <1>1, <1>3, <1>4, <1>6, <1>7, ChildPlace, ChildMoves

(* The native program is behind the reference, and without blocks of Rust  *)
(* it was told what the reference was told at the same place.              *)
LEMMA Ahead ==
  ASSUME CompiledInv, R!Running, child.at <= Len(text)
  PROVE  /\ text[child.at] = "input" => Len(child.answers) < Len(ref.answers)
         /\ text[child.at] = "print" => Len(child.said) < Len(ref.said)
         /\ text[child.at] = "seal" => Len(child.seals) < Len(ref.seals)
         /\ text[child.at] \in R!Clocks => Len(child.readings) < Len(ref.readings)
PROOF
<1>1. child.at \in 1..((Len(text) + 1) - 1) /\ Len(text) + 1 \in Nat
  BY ChildPlace
<1>2. ASSUME NEW calls, text[child.at] \in calls
      PROVE  Count(text, calls, child.at) \in Nat /\ Count(text, calls, child.at) + 1 <= Count(text, calls, Len(text) + 1)
             /\ Count(text, calls, Len(text) + 1) \in Nat
  BY <1>1, <1>2, CountBelow, CountTyped
<1>3. ASSUME NEW calls, text[child.at] \in calls
      PROVE  Count(text, calls, child.at) < Count(text, calls, Len(text) + 1)
  BY <1>2, <1>3
<1>4. ref.at = Len(text) + 1 /\ Counted(text, ref) /\ Counted(text, child)
  BY ChildPlace DEF RefOK
<1>5. QED
  BY <1>3, <1>4 DEF Counted

LEMMA FrontFollows ==
  ASSUME NEW S, NEW a \in Seq(S), NEW b \in Seq(S), NEW d \in Seq(S)
  PROVE  Follows(a, a \o b \o d) /\ Len(a \o b \o d) = Len(a) + Len(b) + Len(d)
PROOF
<1>1. Len(a \o b \o d) = Len(a) + Len(b) + Len(d)
  OBVIOUS
<1>2. \A k \in 1..Len(a) : a[k] = (a \o b \o d)[k]
  OBVIOUS
<1>3. Len(a) <= Len(a \o b \o d)
  BY <1>1
<1>4. Follows(a, a \o b \o d)
  BY <1>2, <1>3 DEF Follows
<1>5. QED
  BY <1>1, <1>4

LEMMA Alike ==
  ASSUME CompiledInv, R!Running, child.at <= Len(text), ~R!Uses({"inline"})
  PROVE  /\ text[child.at] = "print" => ref.said[Len(child.said) + 1] = R!Last(child.answers)
         /\ text[child.at] = "seal" => ref.seals[Len(child.seals) + 1] = R!Last(child.answers)
         /\ text[child.at] \in R!Clocks => ref.readings[Len(child.readings) + 1].mode = R!Mode(text[child.at], child.answers)
PROOF
<1> DEFINE i == child.at
<1>1. /\ i \in 1..Len(text) /\ i \in 1..(ref.at - 1)
      /\ child.answers \in Seq(Answers) /\ stdin \in Seq(Answers) /\ unsent \in Seq(Answers)
      /\ Counted(text, child)
  BY ChildPlace
<1>2. Repeats /\ RefOK(text, ref)
  BY ChildPlace DEF CompiledInv, Faithful
<1>3. child.answers \o stdin \o unsent = ref.answers
  BY <1>2, ChildPlace DEF Repeats
<1>4. Follows(child.answers, ref.answers)
  <2> DEFINE a == child.answers
  <2>1. a \in Seq(Answers)
    BY <1>1
  <2> HIDE DEF a
  <2>2. Follows(a, a \o stdin \o unsent)
    BY <1>1, <2>1, FrontFollows
  <2>3. Follows(child.answers, child.answers \o stdin \o unsent)
    BY <2>2 DEF a
  <2>4. QED
    BY <1>3, <2>3
<1>5. SubSeq(ref.answers, 1, Len(child.answers)) = child.answers
  <2>1. ref.answers \in Seq(Answers)
    BY ChildPlace
  <2>2. QED
    BY <1>1, <1>4, <2>1, FollowsAll
<1>6. Told(text, ref.answers, i) = child.answers
  BY <1>1, <1>5 DEF Told, Counted
<1>7. Says(text, ref.answers)[i] = R!Last(child.answers)
  BY <1>1, <1>6 DEF Says
<1>8. Sees(text, ref.answers)[i].mode = R!Mode(text[i], child.answers)
  BY <1>1, <1>6 DEF Sees, R!Reading
<1>9. ASSUME text[i] = "print" PROVE ref.said[Len(child.said) + 1] = R!Last(child.answers)
  BY <1>1, <1>2, <1>7, <1>9 DEF RefOK, Recorded, Counted
<1>10. ASSUME text[i] = "seal" PROVE ref.seals[Len(child.seals) + 1] = R!Last(child.answers)
  BY <1>1, <1>2, <1>7, <1>10 DEF RefOK, Recorded, Counted
<1>11. ASSUME text[i] \in R!Clocks PROVE ref.readings[Len(child.readings) + 1].mode = R!Mode(text[i], child.answers)
  BY <1>1, <1>2, <1>8, <1>11 DEF RefOK, Recorded, Counted
<1>12. QED
  BY <1>9, <1>10, <1>11

-----------------------------------------------------------------------------
(* The calls of the native program.                                        *)
LEMMA CountedNext ==
  ASSUME NEW prog, NEW c, Counted(prog, c), c.at \in Nat \ {0}, NEW x, x.at = c.at + 1,
         Len(x.answers) = IF prog[c.at] \in {"input"} THEN Len(c.answers) + 1 ELSE Len(c.answers),
         Len(x.readings) = IF prog[c.at] \in R!Clocks THEN Len(c.readings) + 1 ELSE Len(c.readings),
         Len(x.said) = IF prog[c.at] \in {"print"} THEN Len(c.said) + 1 ELSE Len(c.said),
         Len(x.seals) = IF prog[c.at] \in {"seal"} THEN Len(c.seals) + 1 ELSE Len(c.seals)
  PROVE  Counted(prog, x)
PROOF
<1>1. ASSUME NEW calls
      PROVE  Count(prog, calls, x.at) = IF prog[c.at] \in calls THEN Count(prog, calls, c.at) + 1 ELSE Count(prog, calls, c.at)
  BY CountStep
<1>2. Len(x.answers) = Count(prog, {"input"}, x.at) /\ Len(x.readings) = Count(prog, R!Clocks, x.at)
  BY <1>1 DEF Counted
<1>3. Len(x.said) = Count(prog, {"print"}, x.at) /\ Len(x.seals) = Count(prog, {"seal"}, x.at)
  BY <1>1 DEF Counted
<1>4. QED
  BY <1>2, <1>3 DEF Counted

(* At a call the child has another place before the end of its text.       *)
LEMMA ChildCalls ==
  ASSUME CompiledInv, R!Running, R!NativeCall # "none"
  PROVE  /\ child.at <= Len(text) /\ text[child.at] = R!NativeCall /\ child.at \in Nat \ {0} /\ child.at + 1 \in 1..(Len(text) + 1)
PROOF
<1>1. child.at \in 1..(Len(text) + 1) /\ Len(text) \in Nat
  BY ChildPlace
<1>2. child.at <= Len(text) /\ text[child.at] = R!NativeCall
  BY <1>1 DEF R!NativeCall
<1>3. QED
  BY <1>1, <1>2

(* goblin_input takes the next line.                                       *)
LEMMA AskTakes ==
  ASSUME CompiledInv, R!Running, R!NativeCall = "input", stdin # << >>, stdin' = Tail(stdin), UNCHANGED stdout,
         R!Child(R!Next1([child EXCEPT !.answers = Append(child.answers, Head(stdin))]))
  PROVE  CompiledInv'
PROOF
<1> DEFINE answers == Append(child.answers, Head(stdin))
           x == [child EXCEPT !.answers = answers, !.at = child.at + 1]
<1>1. /\ child \in Native(text) /\ Counted(text, child) /\ child.answers \in Seq(Answers) /\ stdin \in Seq(Answers)
      /\ unsent \in Seq(Answers) /\ stdout \in Seq(Lines) /\ child.state = "running" /\ ref.answers \in Seq(Answers)
      /\ Lost >= 0 /\ (Lost = 0 => child.answers \o stdin \o unsent = ref.answers) /\ (thread = "done" => unsent = << >>)
  BY ChildPlace
<1>2. child.at <= Len(text) /\ text[child.at] = "input" /\ child.at \in Nat \ {0} /\ child.at + 1 \in 1..(Len(text) + 1)
  BY ChildCalls
<1>3. /\ answers \in Seq(Answers) /\ Len(answers) = Len(child.answers) + 1 /\ Tail(stdin) \in Seq(Answers)
      /\ Len(Tail(stdin)) = Len(stdin) - 1
  BY <1>1, MovedLeft
<1>4. answers \o Tail(stdin) \o unsent = child.answers \o stdin \o unsent
  <2> DEFINE a == child.answers
  <2>1. a \in Seq(Answers) /\ stdin \in Seq(Answers) /\ unsent \in Seq(Answers) /\ stdin # << >>
    BY <1>1
  <2> HIDE DEF a
  <2>2. Append(a, Head(stdin)) \o Tail(stdin) \o unsent = a \o stdin \o unsent
    BY <2>1, MovedThrough
  <2>3. QED
    BY <2>2 DEF a
<1>5. R!Child(x)
  BY <1>1 DEF R!Next1, Native
<1> HIDE DEF answers
<1>6. /\ x \in Native(text) /\ x.at = child.at + 1 /\ x.answers = answers /\ x.readings = child.readings /\ x.said = child.said
      /\ x.seals = child.seals /\ x.state = "running"
  BY <1>1, <1>2, <1>3 DEF Native
<1> HIDE DEF x
<1>7. child' = x /\ UNCHANGED <<text, phase, ref, thread, unsent, output>>
  BY <1>5 DEF R!Child
<1>8. Counted(text, x)
  BY <1>1, <1>2, <1>3, <1>6, CountedNext DEF R!Clocks
<1>9. Lost' = Lost
  <2>1. Len(child.answers) \in Nat /\ Len(stdin) \in Nat /\ Len(unsent) \in Nat /\ Len(ref.answers) \in Nat
    BY <1>1
  <2> DEFINE a == Len(child.answers)
             i == Len(stdin)
             u == Len(unsent)
             n == Len(ref.answers)
  <2>2. Len(child'.answers) = a + 1 /\ Len(stdin') = i - 1 /\ Len(unsent') = u /\ Len(ref'.answers) = n
    BY <1>3, <1>6, <1>7
  <2>3. Lost' = n - ((a + 1) + (i - 1) + u) /\ Lost = n - (a + i + u)
    BY <2>2 DEF Lost
  <2>4. a \in Nat /\ i \in Nat /\ u \in Nat /\ n \in Nat
    BY <2>1
  <2> HIDE DEF a, i, u, n
  <2>5. QED
    BY <2>3, <2>4
<1>10. child'.answers \o stdin' \o unsent' = child.answers \o stdin \o unsent
  BY <1>4, <1>6, <1>7
<1>11. Piped'
  BY <1>1, <1>7, <1>9, <1>10 DEF Piped
<1>12. Faithful'
  <2>1. SUFFICES ASSUME ~R!Uses({"inline"}) PROVE Repeats'
    BY <1>7 DEF Faithful, R!Uses
  <2>2. Repeats
    BY <1>1, <2>1 DEF CompiledInv, Faithful
  <2>3. QED
    BY <1>6, <1>7, <1>9, <2>2 DEF Repeats
<1>13. QED
  BY <1>1, <1>3, <1>5, <1>6, <1>8, <1>11, <1>12, ChildMoves

LEMMA NativeAskStep ==
  ASSUME CompiledInv, R!NativeAsk
  PROVE  CompiledInv'
PROOF
<1>1. R!Running /\ R!NativeCall = "input"
  BY DEF R!NativeAsk
<1>2. child.at <= Len(text) /\ text[child.at] = "input"
  BY <1>1, ChildCalls
<1>3. /\ Len(child.answers) \in Nat /\ Len(ref.answers) \in Nat /\ MaxInputs \in Nat /\ Len(ref.answers) <= MaxInputs
      /\ Len(child.answers) < Len(ref.answers)
  <2>1. child.answers \in Seq(Answers) /\ ref.answers \in Seq(Answers) /\ Len(ref.answers) <= MaxInputs
    BY <1>1, ChildPlace DEF RefOK
  <2>2. MaxInputs \in Nat
    BY CompiledConstants DEF R!ReplayConstants
  <2>3. Len(child.answers) < Len(ref.answers)
    BY <1>1, <1>2, Ahead
  <2>4. QED
    BY <2>1, <2>2, <2>3
<1>4. R!More(Len(child.answers))
  BY <1>3 DEF R!More
<1>5. CASE stdin # << >>
  <2>1. /\ R!Child(R!Next1([child EXCEPT !.answers = Append(child.answers, Head(stdin))])) /\ stdin' = Tail(stdin)
        /\ UNCHANGED stdout
    BY <1>4, <1>5 DEF R!NativeAsk
  <2>2. QED
    BY <1>1, <1>5, <2>1, AskTakes
<1>6. CASE stdin = << >>
  <2>1. R!Drained /\ R!AtEnd
    BY <1>4, <1>6 DEF R!NativeAsk
  <2>2. R!Exit("error") /\ UNCHANGED <<stdin, stdout>> /\ thread # "writing"
    BY <2>1 DEF R!Drained, R!AtEnd, R!Exit
  <2>3. R!Uses({"inline"})
    <3>1. SUFFICES ASSUME ~R!Uses({"inline"}) PROVE FALSE
      OBVIOUS
    <3>2. Repeats
      BY <1>1, <3>1, ChildPlace DEF CompiledInv, Faithful
    <3>3. thread = "done"
      BY <2>2, <3>2 DEF Repeats
    <3>4. unsent = << >>
      BY <1>1, <3>3, ChildPlace
    <3>5. Len(ref.answers) - (Len(child.answers) + 0 + 0) = 0
      BY <1>6, <3>2, <3>4 DEF Repeats, Lost
    <3>6. QED
      BY <1>3, <3>5
  <2>4. QED
    BY <1>1, <2>2, <2>3, ChildExits
<1>7. QED
  BY <1>5, <1>6

(* A call that asks for nothing and takes nothing of the input.            *)
LEMMA ChildWrites ==
  ASSUME CompiledInv, R!Running, NEW x, R!Child(x), x \in Native(text), Counted(text, x), x.state = "running",
         x.answers = child.answers, UNCHANGED stdin, stdout' \in Seq(Lines),
         ~R!Uses({"inline"}) => /\ Follows(x.readings, ref.readings) /\ Follows(x.said, ref.said) /\ Follows(x.seals, ref.seals)
                                /\ output \o stdout' = x.said
  PROVE  CompiledInv'
PROOF
<1>1. child' = x /\ UNCHANGED <<text, phase, ref, thread, unsent, output>>
  BY DEF R!Child
<1>2. child.state = "running" /\ stdin \in Seq(Answers)
  BY ChildPlace
<1>3. Lost' = Lost
  BY <1>1 DEF Lost
<1>4. child'.answers \o stdin' \o unsent' = child.answers \o stdin \o unsent
  BY <1>1
<1>5. Piped'
  BY <1>1, <1>2, <1>3, <1>4 DEF CompiledInv, Piped
<1>6. Faithful'
  <2>1. SUFFICES ASSUME ~R!Uses({"inline"}) PROVE Repeats'
    BY <1>1 DEF Faithful, R!Uses
  <2>2. Repeats
    BY <1>2, <2>1 DEF CompiledInv, Faithful
  <2>3. QED
    BY <1>1, <1>3, <2>1, <2>2 DEF Repeats
<1>7. QED
  BY <1>2, <1>5, <1>6, ChildMoves

(* What it did so far repeats the reference.                               *)
LEMMA SoFar ==
  ASSUME CompiledInv, R!Running, ~R!Uses({"inline"})
  PROVE  /\ Lost = 0 /\ thread \in {"writing", "done"}
         /\ Follows(child.readings, ref.readings) /\ Follows(child.said, ref.said) /\ Follows(child.seals, ref.seals)
         /\ output \o stdout = child.said
BY ChildPlace DEF CompiledInv, Faithful, Repeats

(* Clock::capture with a replay.                                           *)
LEMMA LookTakes ==
  ASSUME CompiledInv, R!Running, R!NativeCall \in R!Clocks, Len(child.readings) < Len(ref.readings), UNCHANGED <<stdin, stdout>>,
         R!Child(R!Next1([child EXCEPT !.readings = Append(child.readings, ref.readings[Len(child.readings) + 1])]))
  PROVE  CompiledInv'
PROOF
<1> DEFINE v == ref.readings[Len(child.readings) + 1]
           readings == Append(child.readings, v)
           x == [child EXCEPT !.readings = readings, !.at = child.at + 1]
<1>1. /\ child \in Native(text) /\ Counted(text, child) /\ child.readings \in Seq(Readings) /\ ref.readings \in Seq(Readings)
      /\ child.state = "running" /\ stdout \in Seq(Lines)
  BY ChildPlace
<1>2. child.at <= Len(text) /\ text[child.at] \in R!Clocks /\ child.at \in Nat \ {0} /\ child.at + 1 \in 1..(Len(text) + 1)
  BY ChildCalls DEF R!Clocks
<1>3. v \in Readings
  BY <1>1
<1>4. readings \in Seq(Readings) /\ Len(readings) = Len(child.readings) + 1
  BY <1>1, <1>3
<1>5. R!Child(x)
  BY <1>1 DEF R!Next1, Native
<1>6. ~R!Uses({"inline"}) => Follows(readings, ref.readings)
  <2>1. SUFFICES ASSUME ~R!Uses({"inline"}) PROVE Follows(readings, ref.readings)
    OBVIOUS
  <2> DEFINE c == child.readings
             s == ref.readings
             S == Readings
  <2>2. c \in Seq(S) /\ s \in Seq(S) /\ Follows(c, s) /\ Len(c) < Len(s) /\ v = s[Len(c) + 1]
    BY <1>1, <2>1, SoFar
  <2> HIDE DEF c, s, S, v
  <2>3. Follows(Append(c, v), s)
    BY <2>2, FollowsMore
  <2>4. QED
    BY <2>3 DEF c, s
<1> HIDE DEF v, readings
<1>7. /\ x \in Native(text) /\ x.at = child.at + 1 /\ x.answers = child.answers /\ x.readings = readings /\ x.said = child.said
      /\ x.seals = child.seals /\ x.state = "running"
  BY <1>1, <1>2, <1>4 DEF Native
<1> HIDE DEF x
<1>8. Counted(text, x)
  BY <1>1, <1>2, <1>4, <1>7, CountedNext DEF R!Clocks
<1>9. ~R!Uses({"inline"}) => /\ Follows(x.readings, ref.readings) /\ Follows(x.said, ref.said) /\ Follows(x.seals, ref.seals)
                             /\ output \o stdout' = x.said
  BY <1>6, <1>7, SoFar
<1>10. QED
  BY <1>1, <1>5, <1>7, <1>8, <1>9, ChildWrites

LEMMA NativeLookStep ==
  ASSUME CompiledInv, R!NativeLook
  PROVE  CompiledInv'
PROOF
<1>1. R!Running /\ R!NativeCall \in R!Clocks
  BY DEF R!NativeLook
<1>2. child.at <= Len(text) /\ text[child.at] = R!NativeCall
  BY <1>1, ChildCalls DEF R!Clocks
<1>3. CASE R!Replayed(R!Mode(R!NativeCall, child.answers))
  <2>1. /\ R!Child(R!Next1([child EXCEPT !.readings = Append(child.readings, ref.readings[Len(child.readings) + 1])]))
        /\ UNCHANGED <<stdin, stdout>> /\ Len(child.readings) < Len(ref.readings)
    BY <1>3 DEF R!NativeLook, R!Replayed
  <2>2. QED
    BY <1>1, <2>1, LookTakes
<1>4. CASE ~R!Replayed(R!Mode(R!NativeCall, child.answers))
  <2>1. R!Exit("error") /\ UNCHANGED <<stdin, stdout>>
    BY <1>4 DEF R!NativeLook, R!Exit
  <2>2. R!Uses({"inline"})
    <3>1. SUFFICES ASSUME ~R!Uses({"inline"}) PROVE FALSE
      OBVIOUS
    <3>2. Len(child.readings) < Len(ref.readings)
      BY <1>1, <1>2, Ahead
    <3>3. child.readings \in Seq(Readings) /\ ref.readings \in Seq(Readings) /\ Len(ref.readings) <= MaxReadings
      BY <1>1, ChildPlace DEF RefOK
    <3>4. MaxReadings \in Nat
      BY CompiledConstants DEF R!ReplayConstants
    <3>5. Len(child.readings) < MaxReadings
      BY <3>2, <3>3, <3>4
    <3>6. ref.readings[Len(child.readings) + 1].mode = R!Mode(R!NativeCall, child.answers)
      BY <1>1, <1>2, <3>1, Alike
    <3>7. QED
      BY <1>4, <3>2, <3>5, <3>6 DEF R!Replayed
  <2>3. QED
    BY <1>1, <2>1, <2>2, ChildExits
<1>5. QED
  BY <1>3, <1>4

LEMMA NativePrintStep ==
  ASSUME CompiledInv, R!NativePrint
  PROVE  CompiledInv'
PROOF
<1> DEFINE v == R!Last(child.answers)
           said == Append(child.said, v)
           x == [child EXCEPT !.said = said, !.at = child.at + 1]
<1>1. R!Running /\ R!NativeCall = "print" /\ stdout' = Append(stdout, v) /\ UNCHANGED stdin
  BY DEF R!NativePrint
<1>2. /\ child \in Native(text) /\ Counted(text, child) /\ child.answers \in Seq(Answers) /\ child.said \in Seq(Lines)
      /\ ref.said \in Seq(Lines) /\ child.state = "running" /\ stdout \in Seq(Lines) /\ output \in Seq(Lines)
  BY <1>1, ChildPlace
<1>3. child.at <= Len(text) /\ text[child.at] = "print" /\ child.at \in Nat \ {0} /\ child.at + 1 \in 1..(Len(text) + 1)
  BY <1>1, ChildCalls
<1>4. v \in Lines
  BY <1>2 DEF R!Last, Lines
<1>5. said \in Seq(Lines) /\ Len(said) = Len(child.said) + 1 /\ stdout' \in Seq(Lines)
  BY <1>1, <1>2, <1>4
<1>6. R!Child(x)
  BY <1>2 DEF R!NativePrint, R!Next1, Native
<1>7. ~R!Uses({"inline"}) => Follows(said, ref.said)
  <2>1. SUFFICES ASSUME ~R!Uses({"inline"}) PROVE Follows(said, ref.said)
    OBVIOUS
  <2> DEFINE c == child.said
             s == ref.said
             S == Lines
  <2>2. c \in Seq(S) /\ s \in Seq(S) /\ Follows(c, s)
    BY <1>1, <1>2, <2>1, SoFar
  <2>3. Len(c) < Len(s)
    BY <1>1, <1>3, Ahead
  <2>4. v = s[Len(c) + 1]
    BY <1>1, <1>3, <2>1, Alike
  <2> HIDE DEF c, s, S, v
  <2>5. Follows(Append(c, v), s)
    BY <2>2, <2>3, <2>4, FollowsMore
  <2>6. QED
    BY <2>5 DEF c, s
<1>8. ~R!Uses({"inline"}) => output \o stdout' = said
  <2>1. SUFFICES ASSUME ~R!Uses({"inline"}) PROVE output \o stdout' = said
    OBVIOUS
  <2>2. output \o stdout = child.said
    BY <1>1, <2>1, SoFar
  <2> HIDE DEF v
  <2>3. output \o Append(stdout, v) = Append(output \o stdout, v)
    BY <1>2, <1>4, AppendedLast
  <2>4. QED
    BY <1>1, <2>2, <2>3
<1> HIDE DEF v, said
<1>9. /\ x \in Native(text) /\ x.at = child.at + 1 /\ x.answers = child.answers /\ x.readings = child.readings /\ x.said = said
      /\ x.seals = child.seals /\ x.state = "running"
  BY <1>2, <1>3, <1>5 DEF Native
<1> HIDE DEF x
<1>10. Counted(text, x)
  BY <1>2, <1>3, <1>5, <1>9, CountedNext DEF R!Clocks
<1>11. ~R!Uses({"inline"}) => /\ Follows(x.readings, ref.readings) /\ Follows(x.said, ref.said) /\ Follows(x.seals, ref.seals)
                             /\ output \o stdout' = x.said
  BY <1>1, <1>7, <1>8, <1>9, SoFar
<1>12. QED
  BY <1>1, <1>2, <1>5, <1>6, <1>9, <1>10, <1>11, ChildWrites

LEMMA NativeOtherStep ==
  ASSUME CompiledInv, R!NativeOther
  PROVE  CompiledInv'
PROOF
<1> DEFINE v == R!Last(child.answers)
           seals == IF R!NativeCall = "seal" THEN Append(child.seals, v) ELSE child.seals
           x == [child EXCEPT !.seals = seals, !.at = child.at + 1]
<1>1. R!Running /\ R!NativeCall \in {"seal", "argc"} /\ UNCHANGED <<stdin, stdout>>
  BY DEF R!NativeOther
<1>2. /\ child \in Native(text) /\ Counted(text, child) /\ child.answers \in Seq(Answers) /\ child.seals \in Seq(Lines)
      /\ ref.seals \in Seq(Lines) /\ child.state = "running" /\ stdout \in Seq(Lines)
  BY <1>1, ChildPlace
<1>3. /\ child.at <= Len(text) /\ text[child.at] = R!NativeCall /\ child.at \in Nat \ {0}
      /\ child.at + 1 \in 1..(Len(text) + 1)
  BY <1>1, ChildCalls
<1>4. v \in Lines
  BY <1>2 DEF R!Last, Lines
<1>5. seals \in Seq(Lines) /\ Len(seals) = IF text[child.at] \in {"seal"} THEN Len(child.seals) + 1 ELSE Len(child.seals)
  BY <1>1, <1>2, <1>3, <1>4
<1>6. R!Child(x)
  <2>1. R!Child(R!Next1(IF R!NativeCall = "seal" THEN [child EXCEPT !.seals = Append(child.seals, v)] ELSE child))
    BY DEF R!NativeOther
  <2>2. R!Next1(IF R!NativeCall = "seal" THEN [child EXCEPT !.seals = Append(child.seals, v)] ELSE child) = x
    BY <1>2 DEF R!Next1, Native
  <2>3. QED
    BY <2>1, <2>2
<1>7. ~R!Uses({"inline"}) => Follows(seals, ref.seals)
  <2>1. SUFFICES ASSUME ~R!Uses({"inline"}) PROVE Follows(seals, ref.seals)
    OBVIOUS
  <2>2. CASE R!NativeCall = "seal"
    <3> DEFINE c == child.seals
               s == ref.seals
               S == Lines
    <3>1. c \in Seq(S) /\ s \in Seq(S) /\ Follows(c, s)
      BY <1>1, <1>2, <2>1, SoFar
    <3>2. Len(c) < Len(s)
      BY <1>1, <1>3, <2>2, Ahead
    <3>3. v = s[Len(c) + 1]
      BY <1>1, <1>3, <2>1, <2>2, Alike
    <3> HIDE DEF c, s, S, v
    <3>4. Follows(Append(c, v), s)
      BY <3>1, <3>2, <3>3, FollowsMore
    <3>5. QED
      BY <2>2, <3>4 DEF c, s
  <2>3. CASE R!NativeCall # "seal"
    BY <1>1, <2>1, <2>3, SoFar
  <2>4. QED
    BY <2>2, <2>3
<1> HIDE DEF v, seals
<1>8. /\ x \in Native(text) /\ x.at = child.at + 1 /\ x.answers = child.answers /\ x.readings = child.readings
      /\ x.said = child.said /\ x.seals = seals /\ x.state = "running"
  BY <1>2, <1>3, <1>5 DEF Native
<1> HIDE DEF x
<1>9. Counted(text, x)
  BY <1>1, <1>2, <1>3, <1>5, <1>8, CountedNext DEF R!Clocks
<1>10. ~R!Uses({"inline"}) => /\ Follows(x.readings, ref.readings) /\ Follows(x.said, ref.said) /\ Follows(x.seals, ref.seals)
                              /\ output \o stdout' = x.said
  BY <1>1, <1>7, <1>8, SoFar
<1>11. QED
  BY <1>1, <1>2, <1>6, <1>8, <1>9, <1>10, ChildWrites

(* At the end of its text both made the same calls.                        *)
LEMMA AtTheEnd ==
  ASSUME RefOK(text, ref), Counted(text, child), ref.at = Len(text) + 1, child.at = Len(text) + 1
  PROVE  /\ Len(child.answers) = Len(ref.answers) /\ Len(child.readings) = Len(ref.readings)
         /\ Len(child.said) = Len(ref.said) /\ Len(child.seals) = Len(ref.seals)
BY DEF RefOK, Counted

LEMMA NativeEndStep ==
  ASSUME CompiledInv, R!NativeEnd
  PROVE  CompiledInv'
PROOF
<1>1. R!Running /\ R!NativeCall = "none"
  BY DEF R!NativeEnd
<1>2. /\ text \in Seq(R!Calls) /\ Len(text) \in Nat /\ child.at \in 1..(Len(text) + 1)
      /\ RefOK(text, ref) /\ Counted(text, child) /\ ref.at = Len(text) + 1
  BY <1>1, ChildPlace
<1>3. child.at = Len(text) + 1
  <2>1. ~(child.at <= Len(text))
    <3>1. SUFFICES ASSUME child.at <= Len(text) PROVE FALSE
      OBVIOUS
    <3>2. text[child.at] \in R!Calls /\ text[child.at] = "none"
      BY <1>1, <1>2, <3>1 DEF R!NativeCall
    <3>3. QED
      BY <3>2 DEF R!Calls
  <2>2. QED
    BY <1>2, <2>1
<1>4. Len(child.readings) = Len(ref.readings)
  BY <1>2, <1>3, AtTheEnd
<1>5. R!Exit("success") /\ UNCHANGED <<stdin, stdout>>
  BY <1>4 DEF R!NativeEnd, R!Exit
<1>6. QED
  BY <1>1, <1>3, <1>5, ChildExits

(* A block of Rust may take a line.                                        *)
LEMMA InlineStep ==
  ASSUME CompiledInv, R!Inline
  PROVE  CompiledInv'
PROOF
<1> DEFINE x == [child EXCEPT !.at = child.at + 1]
<1>1. /\ R!Running /\ R!NativeCall = "inline" /\ stdin' = (IF stdin = << >> THEN stdin ELSE Tail(stdin))
      /\ UNCHANGED stdout /\ R!Child(x)
  BY DEF R!Inline, R!Next1
<1>2. /\ child \in Native(text) /\ Counted(text, child) /\ child.state = "running" /\ stdout \in Seq(Lines)
      /\ stdin \in Seq(Answers) /\ unsent \in Seq(Answers) /\ child.answers \in Seq(Answers) /\ ref.answers \in Seq(Answers)
      /\ Lost >= 0 /\ (Lost = 0 => child.answers \o stdin \o unsent = ref.answers) /\ (thread = "done" => unsent = << >>)
      /\ text \in Seq(R!Calls) /\ Len(text) \in Nat
  BY <1>1, ChildPlace
<1>3. child.at <= Len(text) /\ text[child.at] = "inline" /\ child.at \in Nat \ {0} /\ child.at + 1 \in 1..(Len(text) + 1)
  BY <1>1, ChildCalls
<1>4. /\ x \in Native(text) /\ x.at = child.at + 1 /\ x.answers = child.answers /\ x.readings = child.readings
      /\ x.said = child.said /\ x.seals = child.seals /\ x.state = "running"
  BY <1>2, <1>3 DEF Native
<1> HIDE DEF x
<1>5. Counted(text, x)
  BY <1>2, <1>3, <1>4, CountedNext DEF R!Clocks
<1>6. child' = x /\ UNCHANGED <<text, phase, ref, thread, unsent, output>>
  BY <1>1 DEF R!Child
<1>7. R!Uses({"inline"})
  BY <1>2, <1>3 DEF R!Uses
<1>8. Faithful'
  BY <1>6, <1>7 DEF Faithful, R!Uses
<1>9. stdin' \in Seq(Answers)
  BY <1>1, <1>2
<1>10. Piped'
  <2>1. CASE stdin = << >>
    <3>1. UNCHANGED <<stdin, unsent, thread, ref>> /\ child'.answers = child.answers
      BY <1>1, <1>4, <1>6, <2>1
    <3>2. Lost' = Lost
      BY <3>1 DEF Lost
    <3>3. QED
      BY <1>2, <3>1, <3>2 DEF Piped
  <2>2. CASE stdin # << >>
    <3>1. Len(child.answers) \in Nat /\ Len(stdin) \in Nat /\ Len(unsent) \in Nat /\ Len(ref.answers) \in Nat
      BY <1>2
    <3>2. Len(Tail(stdin)) = Len(stdin) - 1 /\ stdin' = Tail(stdin)
      BY <1>1, <1>2, <2>2
    <3> DEFINE a == Len(child.answers)
               i == Len(stdin)
               u == Len(unsent)
               n == Len(ref.answers)
    <3>3. Len(child'.answers) = a /\ Len(stdin') = i - 1 /\ Len(unsent') = u /\ Len(ref'.answers) = n
      BY <1>4, <1>6, <3>2
    <3>4. Lost' = n - (a + (i - 1) + u) /\ Lost = n - (a + i + u)
      BY <3>3 DEF Lost
    <3>5. a \in Nat /\ i \in Nat /\ u \in Nat /\ n \in Nat
      BY <3>1
    <3>6. Lost' = Lost + 1 /\ Lost \in Int
      <4> HIDE DEF a, i, u, n
      <4>1. QED
        BY <3>4, <3>5
    <3>7. Lost' >= 0 /\ Lost' # 0
      BY <1>2, <3>6
    <3>8. thread' = "done" => unsent' = << >>
      BY <1>2, <1>6
    <3>9. QED
      BY <3>7, <3>8 DEF Piped
  <2>3. QED
    BY <2>1, <2>2
<1>11. QED
  BY <1>1, <1>2, <1>4, <1>5, <1>8, <1>9, <1>10, ChildMoves

-----------------------------------------------------------------------------
(* The threads of the run, and its decision.                               *)
NativePart ==
  /\ phase = "native" /\ child.state # "off" /\ text \in Seq(R!Calls) /\ Len(text) \in Nat
  /\ child \in Native(text) /\ RefOK(text, ref) /\ Counted(text, child) /\ ref.at = Len(text) + 1
  /\ child.answers \in Seq(Answers) /\ child.readings \in Seq(Readings) /\ child.said \in Seq(Lines) /\ child.seals \in Seq(Lines)
  /\ ref.answers \in Seq(Answers) /\ ref.readings \in Seq(Readings) /\ ref.said \in Seq(Lines) /\ ref.seals \in Seq(Lines)
  /\ stdin \in Seq(Answers) /\ unsent \in Seq(Answers) /\ stdout \in Seq(Lines) /\ output \in Seq(Lines)
  /\ Lost >= 0 /\ (Lost = 0 => child.answers \o stdin \o unsent = ref.answers)
  /\ thread = "done" => unsent = << >>

LEMMA WhileNative ==
  ASSUME CompiledInv, phase = "native"
  PROVE  NativePart
PROOF
<1>1. /\ text \in Seq(R!Calls) /\ Len(text) \in Nat /\ child \in Native(text) /\ ref \in Reference(text) /\ RefOK(text, ref)
      /\ Counted(text, child)
      /\ stdin \in Seq(Answers) /\ unsent \in Seq(Answers) /\ stdout \in Seq(Lines) /\ output \in Seq(Lines)
  BY DEF CompiledInv, Compiles, RefOK
<1>2. /\ child.answers \in Seq(Answers) /\ child.readings \in Seq(Readings) /\ child.said \in Seq(Lines) /\ child.seals \in Seq(Lines)
      /\ ref.answers \in Seq(Answers) /\ ref.readings \in Seq(Readings) /\ ref.said \in Seq(Lines) /\ ref.seals \in Seq(Lines)
  BY <1>1 DEF Native, Reference
<1>3. child.state # "off" /\ ref.at = Len(text) + 1
  BY DEF CompiledInv, Stages
<1>4. Lost >= 0 /\ (Lost = 0 => child.answers \o stdin \o unsent = ref.answers) /\ (thread = "done" => unsent = << >>)
  BY <1>3 DEF CompiledInv, Piped
<1>5. QED
  BY <1>1, <1>2, <1>3, <1>4 DEF NativePart

LEMMA WriteStep ==
  ASSUME CompiledInv, R!Write
  PROVE  CompiledInv'
PROOF
<1>1. /\ phase = "native" /\ thread = "writing"
      /\ UNCHANGED <<text, policy, provided, phase, ref, child, stdout, output, interaction>>
  BY DEF R!Write
<1>2. NativePart
  BY <1>1, WhileNative
<1>3. R!Uses({"inline"})' <=> R!Uses({"inline"})
  BY <1>1 DEF R!Uses
<1>4. Kept' /\ Stages'
  BY <1>1, <1>2 DEF CompiledInv, Kept, Stages, NativePart
<1>5. CASE unsent = << >>
  <2>1. thread' = "done" /\ UNCHANGED <<stdin, unsent>>
    BY <1>5 DEF R!Write
  <2>2. Compiles'
    BY <1>1, <2>1 DEF CompiledInv, Compiles
  <2>3. Lost' = Lost
    BY <1>1, <2>1 DEF Lost
  <2>4. Piped'
    BY <1>1, <1>2, <1>5, <2>1, <2>3 DEF Piped, NativePart
  <2>5. Faithful'
    <3>1. Repeats => Repeats'
      BY <1>1, <2>1, <2>3 DEF Repeats
    <3>2. QED
      BY <1>1, <1>3, <3>1 DEF CompiledInv, Faithful
  <2>6. QED
    BY <1>4, <2>2, <2>4, <2>5 DEF CompiledInv
<1>6. CASE unsent # << >> /\ child.state # "running"
  <2>1. thread' = "broken" /\ UNCHANGED <<stdin, unsent>>
    BY <1>6 DEF R!Write
  <2>2. Compiles'
    BY <1>1, <2>1 DEF CompiledInv, Compiles
  <2>3. Lost' = Lost
    BY <1>1, <2>1 DEF Lost
  <2>4. Piped'
    BY <1>1, <1>2, <2>1, <2>3 DEF Piped, NativePart
  <2>5. R!Uses({"inline"})
    <3>1. SUFFICES ASSUME ~R!Uses({"inline"}) PROVE FALSE
      OBVIOUS
    <3>2. Repeats
      BY <1>2, <3>1 DEF CompiledInv, Faithful, NativePart
    <3>3. child.state = "success"
      BY <1>2, <1>6, <3>2 DEF Repeats, NativePart, Native
    <3>4. child.at = Len(text) + 1
      BY <3>3 DEF CompiledInv, Stages
    <3>5. Len(child.answers) = Len(ref.answers)
      BY <1>2, <3>4, AtTheEnd DEF NativePart
    <3>6. Len(unsent) > 0
      BY <1>2, <1>6 DEF NativePart
    <3> DEFINE a == Len(child.answers)
               i == Len(stdin)
               u == Len(unsent)
               n == Len(ref.answers)
    <3>7. n - (a + i + u) = 0 /\ a = n /\ u > 0
      <4>1. Lost = 0
        BY <3>2 DEF Repeats
      <4>2. n - (a + i + u) = 0
        BY <4>1 DEF Lost
      <4>3. QED
        BY <3>5, <3>6, <4>2
    <3>8. a \in Nat /\ i \in Nat /\ u \in Nat /\ n \in Nat
      <4>1. /\ child.answers \in Seq(Answers) /\ ref.answers \in Seq(Answers)
            /\ stdin \in Seq(Answers) /\ unsent \in Seq(Answers)
        BY <1>2 DEF NativePart
      <4>2. QED
        BY <4>1
    <3> HIDE DEF a, i, u, n
    <3>9. QED
      BY <3>7, <3>8
  <2>6. Faithful'
    BY <1>3, <2>5 DEF Faithful
  <2>7. QED
    BY <1>4, <2>2, <2>4, <2>6 DEF CompiledInv
<1>7. CASE unsent # << >> /\ child.state = "running"
  <2>1. stdin' = Append(stdin, Head(unsent)) /\ unsent' = Tail(unsent) /\ UNCHANGED thread
    BY <1>7 DEF R!Write
  <2> DEFINE a == child.answers
             b == stdin
             c == unsent
             S == Answers
  <2>2. a \in Seq(S) /\ b \in Seq(S) /\ c \in Seq(S) /\ c # << >>
    BY <1>2, <1>7 DEF NativePart
  <2> HIDE DEF a, b, c, S
  <2>3. /\ Append(b, Head(c)) \in Seq(S) /\ Tail(c) \in Seq(S) /\ Len(Append(b, Head(c))) = Len(b) + 1
        /\ Len(Tail(c)) = Len(c) - 1 /\ Len(a) \in Nat /\ Len(b) \in Nat /\ Len(c) \in Nat
    BY <2>2
  <2>4. a \o Append(b, Head(c)) \o Tail(c) = a \o b \o c
    <3> DEFINE d == a \o b
               v == Head(c)
    <3>1. d \in Seq(S) /\ v \in S
      BY <2>2
    <3> HIDE DEF v
    <3>2. a \o Append(b, v) = Append(d, v)
      BY <2>2, <3>1, AppendedLast
    <3> HIDE DEF d
    <3>3. Append(d, Head(c)) \o Tail(c) = d \o c
      BY <2>2, <3>1, MovedLeft
    <3>4. a \o Append(b, v) \o Tail(c) = d \o c
      BY <3>2, <3>3 DEF v
    <3>5. QED
      BY <3>4 DEF d, v
  <2>5. stdin' \in Seq(Answers) /\ unsent' \in Seq(Answers)
    BY <2>1, <2>3 DEF b, c, S
  <2>6. child'.answers \o stdin' \o unsent' = child.answers \o stdin \o unsent
    BY <1>1, <2>1, <2>4 DEF a, b, c
  <2>7. Lost' = Lost
    <3> DEFINE la == Len(a)
               lb == Len(b)
               lc == Len(c)
               n == Len(ref.answers)
    <3>1. Len(child'.answers) = la /\ Len(stdin') = lb + 1 /\ Len(unsent') = lc - 1 /\ Len(ref'.answers) = n
      BY <1>1, <2>1, <2>3 DEF a, b, c
    <3>2. Lost' = n - (la + (lb + 1) + (lc - 1))
      BY <3>1 DEF Lost
    <3>3. Lost = n - (la + lb + lc)
      BY DEF Lost, a, b, c
    <3>4. la \in Nat /\ lb \in Nat /\ lc \in Nat /\ n \in Nat
      BY <1>2, <2>3 DEF NativePart
    <3> HIDE DEF la, lb, lc, n
    <3>5. QED
      BY <3>2, <3>3, <3>4
  <2>8. Compiles'
    BY <1>1, <2>1, <2>5 DEF CompiledInv, Compiles
  <2>9. Piped'
    BY <1>1, <1>2, <2>1, <2>6, <2>7 DEF Piped, NativePart
  <2>10. Faithful'
    <3>1. Repeats => Repeats'
      BY <1>1, <2>1, <2>7 DEF Repeats
    <3>2. QED
      BY <1>1, <1>3, <3>1 DEF CompiledInv, Faithful
  <2>11. QED
    BY <1>4, <2>8, <2>9, <2>10 DEF CompiledInv
<1>8. QED
  BY <1>5, <1>6, <1>7

LEMMA CollectStep ==
  ASSUME CompiledInv, R!Collect
  PROVE  CompiledInv'
PROOF
<1>1. /\ phase = "native" /\ stdout # << >> /\ output' = Append(output, Head(stdout)) /\ stdout' = Tail(stdout)
      /\ UNCHANGED <<text, policy, provided, phase, ref, stdin, thread, unsent, child, interaction>>
  BY DEF R!Collect, R!Readable
<1>2. NativePart
  BY <1>1, WhileNative
<1> DEFINE a == output
           b == stdout
           S == Lines
<1>3. a \in Seq(S) /\ b \in Seq(S) /\ b # << >>
  BY <1>1, <1>2 DEF NativePart
<1> HIDE DEF a, b, S
<1>4. Append(a, Head(b)) \in Seq(S) /\ Tail(b) \in Seq(S)
  BY <1>3
<1>5. Append(a, Head(b)) \o Tail(b) = a \o b
  BY <1>3, MovedLeft
<1>6. Compiles'
  <2>1. output' \in Seq(Lines) /\ stdout' \in Seq(Lines)
    BY <1>1, <1>4 DEF a, b, S
  <2>2. QED
    BY <1>1, <2>1 DEF CompiledInv, Compiles
<1>7. Kept' /\ Stages'
  BY <1>1, <1>2 DEF CompiledInv, Kept, Stages, NativePart
<1>8. Lost' = Lost
  BY <1>1 DEF Lost
<1>9. Piped'
  BY <1>1, <1>2, <1>8 DEF Piped, NativePart
<1>10. Faithful'
  <2>1. output' \o stdout' = output \o stdout
    BY <1>1, <1>5 DEF a, b
  <2>2. Repeats => Repeats'
    BY <1>1, <1>8, <2>1 DEF Repeats
  <2>3. R!Uses({"inline"})' <=> R!Uses({"inline"})
    BY <1>1 DEF R!Uses
  <2>4. QED
    BY <1>1, <2>2, <2>3 DEF CompiledInv, Faithful
<1>11. QED
  BY <1>6, <1>7, <1>9, <1>10 DEF CompiledInv

LEMMA DecideStep ==
  ASSUME CompiledInv, R!Decide
  PROVE  CompiledInv'
PROOF
<1> DEFINE p == IF child.state = "success" /\ thread = "done" /\ R!Same THEN "passed" ELSE "failed"
<1>1. /\ phase = "native" /\ child.state \notin {"off", "running"} /\ stdout = << >>
      /\ child.state = "error" \/ thread \in {"done", "broken"}
      /\ R!End(p, ref) /\ UNCHANGED <<text, policy, provided>> /\ R!NoChild
  BY DEF R!Decide
<1>2. NativePart
  BY <1>1, WhileNative
<1>3. /\ phase' = p /\ ref' = ref /\ UNCHANGED <<text, policy, provided, stdin, thread, unsent, child, stdout, output>>
      /\ interaction' = [kept |-> R!EvidenceNeeded(ref), events |-> IF R!EvidenceNeeded(ref) THEN ref.events ELSE << >>]
  BY <1>1 DEF R!End, R!NoChild
<1>4. p \in {"passed", "failed"} /\ (p = "passed" => child.state = "success" /\ R!Same)
  OBVIOUS
<1>5. ~R!Uses({"inline"}) => Repeats /\ p = "passed"
  <2>1. SUFFICES ASSUME ~R!Uses({"inline"}) PROVE Repeats /\ p = "passed"
    OBVIOUS
  <2>2. Repeats
    BY <1>1, <2>1 DEF CompiledInv, Faithful
  <2>3. child.state = "success" /\ thread = "done"
    <3>1. child.state \in {"off", "running", "success", "error"}
      BY <1>2 DEF NativePart, Native
    <3>2. QED
      BY <1>1, <2>2, <3>1 DEF Repeats
  <2>4. child.at = Len(text) + 1
    BY <2>3 DEF CompiledInv, Stages
  <2>5. Len(child.readings) = Len(ref.readings) /\ Len(child.said) = Len(ref.said) /\ Len(child.seals) = Len(ref.seals)
    BY <1>2, <2>4, AtTheEnd DEF NativePart
  <2>6. child.readings = ref.readings
    <3>1. child.readings \in Seq(Readings) /\ ref.readings \in Seq(Readings) /\ Follows(child.readings, ref.readings)
      BY <1>2, <2>2 DEF NativePart, Repeats
    <3>2. QED
      BY <2>5, <3>1, FollowsAll
  <2>7. child.said = ref.said
    <3>1. child.said \in Seq(Lines) /\ ref.said \in Seq(Lines) /\ Follows(child.said, ref.said)
      BY <1>2, <2>2 DEF NativePart, Repeats
    <3>2. QED
      BY <2>5, <3>1, FollowsAll
  <2>8. child.seals = ref.seals
    <3>1. child.seals \in Seq(Lines) /\ ref.seals \in Seq(Lines) /\ Follows(child.seals, ref.seals)
      BY <1>2, <2>2 DEF NativePart, Repeats
    <3>2. QED
      BY <2>5, <3>1, FollowsAll
  <2>9. output = ref.said
    <3>1. output \o << >> = output
      BY <1>2 DEF NativePart
    <3>2. QED
      BY <1>1, <2>2, <2>7, <3>1 DEF Repeats
  <2>10. R!Same
    BY <2>6, <2>8, <2>9 DEF R!Same
  <2>11. QED
    BY <2>2, <2>3, <2>10
<1> HIDE DEF p
<1>6. R!Same' <=> R!Same
  BY <1>3 DEF R!Same, R!Uses
<1>7. Compiles'
  BY <1>3, <1>4 DEF CompiledInv, Compiles
<1>8. Kept'
  <2>1. R!EvidenceNeeded(ref)' = R!EvidenceNeeded(ref)
    BY <1>3 DEF R!EvidenceNeeded
  <2>2. ref.events = ref.answers
    BY <1>1 DEF CompiledInv, Kept
  <2>3. QED
    BY <1>3, <2>1, <2>2 DEF Kept
<1>9. Stages'
  BY <1>2, <1>3, <1>4, <1>6, <1>1 DEF CompiledInv, Stages, NativePart
<1>10. Piped'
  <2>1. Lost' = Lost
    BY <1>3 DEF Lost
  <2>2. QED
    BY <1>2, <1>3, <2>1 DEF Piped, NativePart
<1>11. Faithful'
  <2>1. SUFFICES ASSUME ~R!Uses({"inline"}) PROVE Repeats'
    BY <1>3 DEF Faithful, R!Uses
  <2>2. Lost' = Lost
    BY <1>3 DEF Lost
  <2>3. QED
    BY <1>3, <1>5, <2>1, <2>2 DEF Repeats
<1>12. QED
  BY <1>7, <1>8, <1>9, <1>10, <1>11 DEF CompiledInv

LEMMA CompiledStep ==
  ASSUME CompiledInv, R!Next
  PROVE  CompiledInv'
PROOF
<1>1. CASE R!Ask
  BY <1>1, AskStep
<1>2. CASE R!LookAtClock
  BY <1>2, LookStep
<1>3. CASE R!Other
  BY <1>3, OtherStep
<1>4. CASE R!Spawn
  BY <1>4, SpawnStep
<1>5. CASE R!ChildStep
  BY <1>5, NativeAskStep, NativeLookStep, NativePrintStep, NativeOtherStep, NativeEndStep, InlineStep DEF R!ChildStep
<1>6. CASE R!Write
  BY <1>6, WriteStep
<1>7. CASE R!Collect
  BY <1>7, CollectStep
<1>8. CASE R!Decide
  BY <1>8, DecideStep
<1>9. QED
  BY <1>1, <1>2, <1>3, <1>4, <1>5, <1>6, <1>7, <1>8 DEF R!Next

LEMMA CompiledStays ==
  ASSUME CompiledInv, UNCHANGED compiled
  PROVE  CompiledInv'
PROOF
<1>1. UNCHANGED <<text, policy, provided, phase, ref, stdin, thread, unsent, child, stdout, output, interaction>>
  BY DEF compiled
<1>2. Lost' = Lost /\ (R!Same' <=> R!Same) /\ (R!Uses({"inline"})' <=> R!Uses({"inline"}))
  BY <1>1 DEF Lost, R!Same, R!Uses
<1>3. Compiles'
  BY <1>1 DEF CompiledInv, Compiles
<1>4. Kept'
  BY <1>1 DEF CompiledInv, Kept, R!EvidenceNeeded
<1>5. Stages'
  BY <1>1, <1>2 DEF CompiledInv, Stages
<1>6. Piped'
  BY <1>1, <1>2 DEF CompiledInv, Piped
<1>7. Faithful'
  <2>1. Repeats => Repeats'
    BY <1>1, <1>2 DEF Repeats
  <2>2. QED
    BY <1>1, <1>2, <2>1 DEF CompiledInv, Faithful
<1>8. QED
  BY <1>3, <1>4, <1>5, <1>6, <1>7 DEF CompiledInv

LEMMA CompiledStarts ==
  ASSUME R!Init
  PROVE  CompiledInv
PROOF
<1>1. /\ text \in Texts /\ policy \in R!Policies /\ phase = "reference" /\ ref = R!NewReference
      /\ stdin = << >> /\ thread = "idle" /\ unsent = << >> /\ child = R!NewChild /\ stdout = << >> /\ output = << >>
      /\ provided \in (IF policy = "provided" THEN {<<a>> : a \in Answers \ Refused} ELSE {<< >>})
  BY DEF R!Init
<1>2. text \in Seq(R!Calls) /\ Len(text) \in Nat /\ MaxInputs \in Nat /\ MaxReadings \in Nat
  BY <1>1, CompiledConstants DEF R!ReplayConstants
<1>3. provided \in Seq(Answers)
  <2>1. CASE policy = "provided"
    <3>1. PICK a \in Answers \ Refused : provided = <<a>>
      BY <1>1, <2>1
    <3>2. QED
      BY <3>1
  <2>2. CASE policy # "provided"
    <3>1. provided = << >>
      BY <1>1, <2>2
    <3>2. QED
      BY <3>1
  <2>3. QED
    BY <2>1, <2>2
<1>4. ref \in Reference(text) /\ child \in Native(text)
  <2>1. << >> \in Seq(Answers) /\ << >> \in Seq(Readings) /\ << >> \in Seq(Lines) /\ 1 \in 1..(Len(text) + 1)
    BY <1>2
  <2>2. QED
    BY <1>1, <2>1 DEF R!NewReference, R!NewChild, Reference, Native
<1>5. Counted(text, ref) /\ Counted(text, child)
  <2>1. /\ ref.at = 1 /\ ref.answers = << >> /\ ref.readings = << >> /\ ref.said = << >> /\ ref.seals = << >>
        /\ child.at = 1 /\ child.answers = << >> /\ child.readings = << >> /\ child.said = << >> /\ child.seals = << >>
    BY <1>1 DEF R!NewReference, R!NewChild
  <2>2. Len(<< >>) = 0
    OBVIOUS
  <2>3. \A calls : Count(text, calls, 1) = 0
    BY CountStart
  <2>4. QED
    BY <2>1, <2>2, <2>3 DEF Counted
<1>6. RefOK(text, ref)
  <2>1. ref.at = 1 /\ Len(ref.answers) = 0 /\ Len(ref.readings) = 0
    BY <1>1 DEF R!NewReference
  <2>2. \A calls, s, f : Recorded(text, calls, s, 1, f)
    BY DEF Recorded
  <2>3. QED
    BY <1>2, <1>4, <1>5, <2>1, <2>2 DEF RefOK
<1>7. Compiles
  BY <1>1, <1>2, <1>3, <1>4, <1>5, <1>6 DEF Compiles
<1>8. Kept /\ Stages
  BY <1>1 DEF R!NewReference, R!NewChild, Kept, Stages
<1>9. child.state = "off"
  BY <1>1 DEF R!NewChild
<1>10. QED
  BY <1>7, <1>8, <1>9 DEF CompiledInv, Piped, Faithful

LEMMA CompiledRuns == MCSpec => [](what = "compiled" => CompiledInv)
PROOF
<1> DEFINE I == what = "compiled" => CompiledInv
<1>1. MCInit => I
  BY CompiledStarts DEF MCInit
<1>2. I /\ [MCNext]_all => I'
  <2>1. SUFFICES ASSUME I, [MCNext]_all PROVE I'
    OBVIOUS
  <2>2. CASE Batch
    BY <2>2 DEF Batch
  <2>3. CASE Compiled(R!Next)
    BY <2>1, <2>3, CompiledStep DEF Compiled
  <2>4. CASE UNCHANGED all
    <3>1. what' = what /\ UNCHANGED compiled
      BY <2>4 DEF all
    <3>2. QED
      BY <2>1, <3>1, CompiledStays
  <2>5. CASE Planned
    <3>1. what' = what /\ UNCHANGED compiled
      BY <2>5 DEF Planned
    <3>2. QED
      BY <2>1, <3>1, CompiledStays
  <2>6. QED
    BY <2>1, <2>2, <2>3, <2>4, <2>5 DEF MCNext
<1>3. QED
  BY <1>1, <1>2, PTL DEF MCSpec

(* A compiled run passes only if its native program was given exactly the  *)
(* answers and the readings that the reference was given, although a block *)
(* of Rust may have taken lines from its input; and whatever the end, the  *)
(* answers that were given are in the evidence (interaction.rs, clock.rs). *)
THEOREM PassesAreReplayed == MCSpec => []PassIsReplayed
PROOF
<1>1. CompiledInv => R!PassIsReplayed
  <2>1. SUFFICES ASSUME CompiledInv PROVE R!PassIsReplayed
    OBVIOUS
  <2>2. RefOK(text, ref) /\ ref \in Reference(text) /\ child \in Native(text) /\ Counted(text, child) /\ text \in Seq(R!Calls)
    BY <2>1 DEF CompiledInv, Compiles, RefOK
  <2>3. /\ ref.answers \in Seq(Answers) /\ ref.readings \in Seq(Readings) /\ child.answers \in Seq(Answers)
        /\ child.readings \in Seq(Readings) /\ stdin \in Seq(Answers) /\ unsent \in Seq(Answers) /\ Len(text) \in Nat
    BY <2>1, <2>2 DEF Reference, Native, CompiledInv, Compiles
  <2>4. ASSUME phase = "passed"
        PROVE  child.answers = ref.answers /\ child.readings = ref.readings
    <3>1. child.state = "success" /\ R!Same /\ ref.at = Len(text) + 1 /\ child.at = Len(text) + 1
      BY <2>1, <2>4 DEF CompiledInv, Stages
    <3>2. Len(child.answers) = Len(ref.answers) /\ Len(child.readings) = Len(ref.readings)
      BY <2>2, <3>1, AtTheEnd
    <3>3. Lost >= 0 /\ (Lost = 0 => child.answers \o stdin \o unsent = ref.answers)
      BY <2>1, <3>1 DEF CompiledInv, Piped
    <3>4. Len(stdin) = 0 /\ Len(unsent) = 0 /\ Lost = 0
      <4> DEFINE a == Len(child.answers)
                 i == Len(stdin)
                 u == Len(unsent)
                 n == Len(ref.answers)
      <4>1. a \in Nat /\ i \in Nat /\ u \in Nat /\ n \in Nat /\ a = n
        BY <2>3, <3>2
      <4>2. Lost = n - (a + i + u)
        BY DEF Lost
      <4> HIDE DEF a, i, u, n
      <4>3. i = 0 /\ u = 0 /\ Lost = 0
        BY <3>3, <4>1, <4>2
      <4>4. QED
        BY <4>3 DEF i, u
    <3>5. stdin = << >> /\ unsent = << >>
      BY <2>3, <3>4
    <3>6. child.answers \o << >> \o << >> = child.answers
      BY <2>3
    <3>7. child.answers = ref.answers
      BY <3>3, <3>4, <3>5, <3>6
    <3>8. child.readings = ref.readings
      <4>1. CASE R!Uses(R!Clocks)
        BY <3>1, <4>1 DEF R!Same
      <4>2. CASE ~R!Uses(R!Clocks)
        <5>1. {i \in 1..((Len(text) + 1) - 1) : text[i] \in R!Clocks} = {}
          BY <2>2, <2>3, <4>2 DEF R!Uses
        <5>2. Count(text, R!Clocks, Len(text) + 1) = 0
          BY <5>1, FS_EmptySet DEF Count
        <5>3. Len(ref.readings) = 0 /\ Len(child.readings) = 0
          BY <2>2, <3>1, <5>2 DEF RefOK, Counted
        <5>4. QED
          BY <2>3, <5>3
      <4>3. QED
        BY <4>1, <4>2
    <3>9. QED
      BY <3>7, <3>8
  <2>5. ASSUME R!Ended, ref.answers # << >>
        PROVE  interaction.kept /\ SubSeq(interaction.events, 1, Len(ref.answers)) = ref.answers
    <3> DEFINE a == ref.answers
               S == Answers \union {R!NoAnswer}
    <3>1. a \in Seq(S) /\ a # << >> /\ R!NoAnswer \in S
      BY <2>3, <2>5
    <3>2. ref.events = a \/ ref.events = Append(a, R!NoAnswer)
      BY <2>1 DEF CompiledInv, Kept
    <3> HIDE DEF a, S
    <3>3. Append(a, R!NoAnswer) # << >> /\ SubSeq(Append(a, R!NoAnswer), 1, Len(a)) = a /\ SubSeq(a, 1, Len(a)) = a
      BY <3>1, FirstPart
    <3>4. R!EvidenceNeeded(ref)
      BY <3>1, <3>2, <3>3 DEF R!EvidenceNeeded
    <3>5. interaction = [kept |-> TRUE, events |-> ref.events]
      BY <2>1, <2>5, <3>4 DEF CompiledInv, Kept, R!Ended
    <3>6. interaction.kept /\ interaction.events = ref.events
      BY <3>5
    <3>7. QED
      BY <3>2, <3>3, <3>6 DEF a
  <2>6. QED
    BY <2>4, <2>5 DEF R!PassIsReplayed
<1>2. QED
  BY <1>1, CompiledRuns, PTL DEF PassIsReplayed

(* A run whose reference reached its end and whose program has no block of *)
(* Rust does not fail: neither the limits, nor the order in which the      *)
(* pipes are written and read, nor a pipe that is full can make the native *)
(* program fail or differ (goblin_input, Clock::finish, run_file).         *)
THEOREM FaithfulRunsDoPass == MCSpec => []FaithfulRunsPass
PROOF
<1>1. CompiledInv => R!FaithfulRunsPass
  BY DEF CompiledInv, Faithful, Repeats, R!FaithfulRunsPass
<1>2. QED
  BY <1>1, CompiledRuns, PTL DEF FaithfulRunsPass

-----------------------------------------------------------------------------
(* The largest and the smallest of a set of numbers.                       *)
LEMMA LeastOf ==
  ASSUME NEW S \in SUBSET Nat, S # {}
  PROVE  Plans!Min(S) \in S /\ \A x \in S : Plans!Min(S) <= x
PROOF
BY Least DEF Plans!Min

LEMMA Largest ==
  ASSUME NEW a \in Nat, NEW b \in Nat
  PROVE  Plans!Max({a, b}) = (IF a >= b THEN a ELSE b)
PROOF
<1>1. \E x \in {a, b} : \A y \in {a, b} : x >= y
  OBVIOUS
<1>2. Plans!Max({a, b}) \in {a, b} /\ \A y \in {a, b} : Plans!Max({a, b}) >= y
  BY <1>1 DEF Plans!Max
<1>3. QED
  BY <1>2

LEMMA Smallest ==
  ASSUME NEW a \in Nat, NEW b \in Nat
  PROVE  Plans!Min({a, b}) = (IF a <= b THEN a ELSE b)
PROOF
BY LeastOf

LEMMA Smallest3 ==
  ASSUME NEW a \in Nat, NEW b \in Nat, NEW c \in Nat
  PROVE  /\ Plans!Min({a, b, c}) \in Nat
         /\ \A n \in Nat : n <= Plans!Min({a, b, c}) <=> n <= a /\ n <= b /\ n <= c
PROOF
<1>1. Plans!Min({a, b, c}) \in {a, b, c} /\ \A x \in {a, b, c} : Plans!Min({a, b, c}) <= x
  BY LeastOf
<1>2. QED
  BY <1>1

LEMMA Clamped ==
  ASSUME NEW x \in Nat, NEW low \in Nat, NEW high \in Nat
  PROVE  Plans!Clamp(x, low, high) = (IF x <= high THEN IF low >= x THEN low ELSE x ELSE IF low >= high THEN low ELSE high)
PROOF
BY Largest, Smallest DEF Plans!Clamp

(* Products and quotients of larger numbers are not smaller.               *)
LEMMA Products ==
  ASSUME NEW a \in Nat, NEW b \in Nat, NEW c \in Nat, NEW d \in Nat, a <= c, b <= d
  PROVE  a * b \in Nat /\ c * d \in Nat /\ a * b <= c * d
PROOF
<1>1. PICK i \in Nat : c = a + i
  <2>1. c - a \in Nat /\ c = a + (c - a)
    OBVIOUS
  <2>2. QED
    BY <2>1
<1>2. PICK j \in Nat : d = b + j
  <2>1. d - b \in Nat /\ d = b + (d - b)
    OBVIOUS
  <2>2. QED
    BY <2>1
<1>3. c * d = a * b + a * j + i * b + i * j
  BY <1>1, <1>2
<1>4. a * b \in Nat /\ a * j \in Nat /\ i * b \in Nat /\ i * j \in Nat
  OBVIOUS
<1>5. QED
  BY <1>3, <1>4

(* A quantity that a ceiling bounds.                                       *)
LEMMA Capped ==
  ASSUME NEW x \in Nat, NEW y \in Nat, x <= y, NEW low \in Plans!Amounts, NEW high \in Plans!Amounts,
         Plans!Known(high) => Plans!Known(low) /\ low <= high
  PROVE  Plans!Cap(x, low) \in Nat /\ Plans!Cap(y, high) \in Nat /\ Plans!Cap(x, low) <= Plans!Cap(y, high)
PROOF
<1>1. Plans!Known(x) /\ Plans!Known(y)
  BY PlanConstants DEF Plans!PlanConstants, Plans!Known
<1>2. /\ ~Plans!Known(low) => Plans!Cap(x, low) = x
      /\ ~Plans!Known(high) => Plans!Cap(y, high) = y
  BY <1>1 DEF Plans!Cap
<1>3. /\ Plans!Known(low) => low \in Nat /\ Plans!Cap(x, low) = (IF x <= low THEN x ELSE low)
      /\ Plans!Known(high) => high \in Nat /\ Plans!Cap(y, high) = (IF y <= high THEN y ELSE high)
  BY <1>1, Smallest DEF Plans!Cap, Plans!Known, Plans!Amounts
<1>4. QED
  BY <1>2, <1>3

(* A ceiling only lowers.                                                  *)
LEMMA CapLowers ==
  ASSUME NEW x \in Nat, NEW low \in Plans!Amounts
  PROVE  Plans!Cap(x, low) \in Nat /\ Plans!Cap(x, low) <= x
PROOF
<1>1. CASE Plans!Known(low)
  BY <1>1, Smallest DEF Plans!Cap, Plans!Known, Plans!Amounts
<1>2. CASE ~Plans!Known(low)
  BY <1>2 DEF Plans!Cap
<1>3. QED
  BY <1>1, <1>2

-----------------------------------------------------------------------------
(* A request that asks for no less, keeps no less free and allows no more. *)
Lower(x, y) == Plans!Known(y) => Plans!Known(x) /\ x <= y
AsksMore(s, r) ==
  /\ \A f \in {"device", "method", "params", "trainable", "bits", "activation", "attention", "accumulation",
               "quantization", "percent", "headroom", "reserve_device", "max_device"} : s[f] = r[f]
  /\ \A f \in {"batch", "sequence", "runtime", "host", "extra", "reserve_ram", "reserve_disk"} : r[f] <= s[f]
  /\ Lower(s.max_memory, r.max_memory) /\ Lower(s.max_disk, r.max_disk)

LEMMA Quantities ==
  ASSUME NEW r, Plans!IsRequest(r)
  PROVE  /\ Plans!Base(r) \in Nat /\ Plans!Master(r) \in Nat /\ Plans!Gradients(r) \in Nat /\ Plans!Adam(r) \in Nat
         /\ r.activation * r.batch * r.sequence \in Nat /\ r.attention * r.batch \in Nat
         /\ Plans!Work(r) \in Nat
PROOF
<1>1. /\ r.params \in Nat /\ r.bits \in Nat /\ r.trainable \in Nat /\ r.activation \in Nat /\ r.batch \in Nat
      /\ r.sequence \in Nat /\ r.attention \in Nat /\ r.runtime \in Nat /\ r.quantization \in Nat
  BY DEF Plans!IsRequest
<1>2. /\ r.params * r.bits \in Nat /\ r.activation * r.batch \in Nat /\ r.attention * r.batch \in Nat
  BY <1>1, Products
<1>3. r.activation * r.batch * r.sequence \in Nat
  BY <1>1, <1>2, Products
<1>4. Plans!Base(r) \in Nat
  <2> DEFINE p == r.params * r.bits
  <2>1. Plans!Base(r) = (p + 8 - 1) \div 8
    BY DEF Plans!Base, Plans!CeilDiv
  <2> HIDE DEF p
  <2>2. p \in Nat
    BY <1>2 DEF p
  <2>3. QED
    BY <2>1, <2>2
<1>5. Plans!Master(r) \in Nat /\ Plans!Gradients(r) \in Nat /\ Plans!Adam(r) \in Nat
  BY <1>1 DEF Plans!Master, Plans!Gradients, Plans!Adam
<1>6. Plans!Work(r) \in Nat
  BY <1>1, <1>2, <1>3, <1>4, <1>5 DEF Plans!Work
<1>7. QED
  BY <1>2, <1>3, <1>4, <1>5, <1>6

LEMMA WorkGrows ==
  ASSUME NEW r, NEW s, Plans!IsRequest(r), Plans!IsRequest(s), AsksMore(s, r)
  PROVE  /\ Plans!Work(r) <= Plans!Work(s)
         /\ Plans!Base(s) = Plans!Base(r) /\ Plans!Master(s) = Plans!Master(r) /\ Plans!Adam(s) = Plans!Adam(r)
PROOF
<1>1. /\ Plans!Base(s) = Plans!Base(r) /\ Plans!Master(s) = Plans!Master(r) /\ Plans!Adam(s) = Plans!Adam(r)
      /\ Plans!Gradients(s) = Plans!Gradients(r)
  BY DEF AsksMore, Plans!Base, Plans!Master, Plans!Adam, Plans!Gradients
<1>2. /\ r.activation \in Nat /\ r.batch \in Nat /\ r.sequence \in Nat /\ r.attention \in Nat /\ r.runtime \in Nat
      /\ s.batch \in Nat /\ s.sequence \in Nat /\ s.runtime \in Nat /\ r.quantization \in Nat
  BY DEF Plans!IsRequest
<1>3. /\ s.activation = r.activation /\ s.attention = r.attention /\ s.quantization = r.quantization
      /\ r.batch <= s.batch /\ r.sequence <= s.sequence /\ r.runtime <= s.runtime
  BY DEF AsksMore
<1>4. r.activation * r.batch \in Nat /\ s.activation * s.batch \in Nat /\ r.activation * r.batch <= s.activation * s.batch
  BY <1>2, <1>3, Products
<1>5. r.activation * r.batch * r.sequence <= s.activation * s.batch * s.sequence
  BY <1>2, <1>3, <1>4, Products
<1>6. r.attention * r.batch <= s.attention * s.batch
  BY <1>2, <1>3, Products
<1> DEFINE ra == r.activation * r.batch * r.sequence
           sa == s.activation * s.batch * s.sequence
           rb == r.attention * r.batch
           sb == s.attention * s.batch
<1>7. ra \in Nat /\ sa \in Nat /\ rb \in Nat /\ sb \in Nat /\ ra <= sa /\ rb <= sb
  BY <1>5, <1>6, Quantities
<1>8. /\ Plans!Work(r) = Plans!Base(r) + Plans!Master(r) + Plans!Gradients(r) + Plans!Adam(r) + ra + rb + r.runtime + r.quantization
      /\ Plans!Work(s) = Plans!Base(s) + Plans!Master(s) + Plans!Gradients(s) + Plans!Adam(s) + sa + sb + s.runtime + s.quantization
  BY DEF Plans!Work
<1>9. /\ Plans!Base(r) \in Nat /\ Plans!Master(r) \in Nat /\ Plans!Gradients(r) \in Nat /\ Plans!Adam(r) \in Nat
  BY Quantities
<1> HIDE DEF ra, sa, rb, sb
<1>10. Plans!Work(r) <= Plans!Work(s)
  BY <1>1, <1>2, <1>3, <1>7, <1>8, <1>9
<1>11. QED
  BY <1>1, <1>10

LEMMA HeadroomGrows ==
  ASSUME NEW r, NEW s, Plans!IsRequest(r), Plans!IsRequest(s), s.headroom = r.headroom, NEW a \in Nat, NEW b \in Nat, a <= b
  PROVE  /\ Plans!WithHeadroom(a, r) \in Nat /\ Plans!WithHeadroom(b, s) \in Nat
         /\ Plans!WithHeadroom(a, r) <= Plans!WithHeadroom(b, s) /\ a <= Plans!WithHeadroom(a, r)
PROOF
<1> DEFINE p == a * (100 + r.headroom)
           q == b * (100 + s.headroom)
<1>1. 100 + r.headroom \in Nat /\ 100 + r.headroom >= 100 /\ 100 + s.headroom = 100 + r.headroom
  BY DEF Plans!IsRequest
<1>2. p \in Nat /\ q \in Nat /\ p <= q /\ a * 100 <= p
  BY <1>1, Products
<1>3. Plans!WithHeadroom(a, r) = (p + 100 - 1) \div 100 /\ Plans!WithHeadroom(b, s) = (q + 100 - 1) \div 100
  BY DEF Plans!WithHeadroom, Plans!CeilDiv
<1> HIDE DEF p, q
<1>4. (p + 100 - 1) \div 100 \in Nat /\ (q + 100 - 1) \div 100 \in Nat /\ (p + 100 - 1) \div 100 <= (q + 100 - 1) \div 100
  BY <1>2
<1>5. a <= (p + 100 - 1) \div 100
  BY <1>2
<1>6. QED
  BY <1>3, <1>4, <1>5

LEMMA Checkpoints ==
  ASSUME NEW r, Plans!IsRequest(r)
  PROVE  Plans!Checkpoint(r) \in Nat /\ (r.trainable >= 1 => Plans!Checkpoint(r) >= 1)
PROOF
<1> DEFINE weights == IF r.method = "full" THEN Plans!Base(r) + Plans!Master(r) ELSE 4 * r.trainable
           n == (weights + Plans!Adam(r)) * 110
           m == Plans!CeilDiv(n, 100)
<1>1. r.trainable \in Nat /\ Slack \in Nat
  BY PlanConstants DEF Plans!IsRequest, Plans!PlanConstants
<1>2. weights \in Nat /\ Plans!Adam(r) \in Nat /\ (r.trainable >= 1 => Plans!Adam(r) >= 1)
  BY <1>1, Quantities DEF Plans!Adam
<1> HIDE DEF weights
<1>3. n \in Nat /\ (r.trainable >= 1 => n >= 1)
  BY <1>2
<1> HIDE DEF n
<1>4. m \in Nat /\ (r.trainable >= 1 => m >= 1)
  BY <1>3 DEF Plans!CeilDiv
<1> HIDE DEF m
<1>5. Plans!Checkpoint(r) = 2 * (m + Slack)
  BY DEF Plans!Checkpoint, m, n, weights
<1>6. QED
  BY <1>1, <1>4, <1>5

(* What is needed of the machine is no less.                               *)
LEMMA NeedsGrow ==
  ASSUME NEW r, NEW s, Plans!IsRequest(r), Plans!IsRequest(s), AsksMore(s, r)
  PROVE  /\ Plans!Training(r) \in Nat /\ Plans!Training(s) \in Nat /\ Plans!Training(r) <= Plans!Training(s)
         /\ Plans!Host(r) \in Nat /\ Plans!Host(s) \in Nat /\ Plans!Host(r) <= Plans!Host(s)
         /\ Plans!DiskNeed(r) \in Nat /\ Plans!DiskNeed(s) \in Nat /\ Plans!DiskNeed(r) <= Plans!DiskNeed(s)
         /\ r.batch * r.accumulation \in Nat /\ s.batch * s.accumulation \in Nat
         /\ r.batch * r.accumulation <= s.batch * s.accumulation
PROOF
<1>1. /\ Plans!Work(r) \in Nat /\ Plans!Work(s) \in Nat /\ Plans!Work(r) <= Plans!Work(s)
      /\ r.host \in Nat /\ s.host \in Nat /\ r.host <= s.host /\ s.headroom = r.headroom
      /\ Plans!Cpu(s) = Plans!Cpu(r)
  <2>1. r.host \in Nat /\ s.host \in Nat
    BY DEF Plans!IsRequest
  <2>2. r.host <= s.host /\ s.headroom = r.headroom /\ s.device = r.device
    BY DEF AsksMore
  <2>3. QED
    BY <2>1, <2>2, Quantities, WorkGrows DEF Plans!Cpu
<1>2. Plans!Training(r) \in Nat /\ Plans!Training(s) \in Nat /\ Plans!Training(r) <= Plans!Training(s)
  BY <1>1, HeadroomGrows DEF Plans!Training
<1>3. Plans!Host(r) \in Nat /\ Plans!Host(s) \in Nat /\ Plans!Host(r) <= Plans!Host(s)
  <2> DEFINE a == IF Plans!Cpu(r) THEN Plans!Work(r) + r.host ELSE r.host
             b == IF Plans!Cpu(s) THEN Plans!Work(s) + s.host ELSE s.host
  <2>1. a \in Nat /\ b \in Nat /\ a <= b
    BY <1>1
  <2>2. Plans!Host(r) = Plans!WithHeadroom(a, r) /\ Plans!Host(s) = Plans!WithHeadroom(b, s)
    BY DEF Plans!Host
  <2> HIDE DEF a, b
  <2>3. QED
    BY <1>1, <2>1, <2>2, HeadroomGrows
<1>4. Plans!DiskNeed(r) \in Nat /\ Plans!DiskNeed(s) \in Nat /\ Plans!DiskNeed(r) <= Plans!DiskNeed(s)
  <2>1. /\ Plans!Base(s) = Plans!Base(r) /\ Plans!Master(s) = Plans!Master(r) /\ Plans!Adam(s) = Plans!Adam(r)
        /\ s.method = r.method /\ s.trainable = r.trainable /\ r.extra <= s.extra
    BY WorkGrows DEF AsksMore
  <2>2. Plans!Checkpoint(s) = Plans!Checkpoint(r)
    BY <2>1 DEF Plans!Checkpoint
  <2>3. Plans!Checkpoint(r) \in Nat
    BY Checkpoints
  <2>4. r.extra \in Nat /\ s.extra \in Nat
    BY DEF Plans!IsRequest
  <2>5. QED
    BY <2>1, <2>2, <2>3, <2>4 DEF Plans!DiskNeed
<1>5. /\ r.batch * r.accumulation \in Nat /\ s.batch * s.accumulation \in Nat
      /\ r.batch * r.accumulation <= s.batch * s.accumulation
  <2>1. r.batch \in Nat /\ r.accumulation \in Nat /\ s.batch \in Nat /\ s.accumulation \in Nat
    BY DEF Plans!IsRequest
  <2>2. r.batch <= s.batch /\ r.accumulation = s.accumulation
    BY DEF AsksMore
  <2>3. QED
    BY <2>1, <2>2, Products
<1>6. QED
  BY <1>2, <1>3, <1>4, <1>5

-----------------------------------------------------------------------------
(* A machine of which no more is known and on which no more is free.       *)
Less(x, y) == Plans!Known(x) => Plans!Known(y) /\ x <= y
Poorer(g, h) ==
  /\ (Plans!Known(g.total) => h.total = g.total) /\ Less(g.available, h.available) /\ Less(g.disk, h.disk)
  /\ g.threads \in {0, h.threads}
  /\ DOMAIN g.limits = DOMAIN h.limits
  /\ \A c \in DOMAIN h.limits : /\ g.limits[c].limit = h.limits[c].limit
                                /\ Lower(h.limits[c].used, g.limits[c].used)
  /\ DOMAIN g.devices = DOMAIN h.devices
  /\ \A d \in DOMAIN h.devices : /\ \A f \in {"unified", "total", "recommended"} : g.devices[d][f] = h.devices[d][f]
                                 /\ Less(g.devices[d].available, h.devices[d].available)

(* What ram_budget starts from: the least total and the least that is left.*)
LeastTotal(h) == Plans!Min({h.total} \union {h.limits[c].limit : c \in DOMAIN h.limits})
LeastLeft(h) == Plans!Min({h.available} \union {x \in Plans!Range(Plans!Remaining(h)) : Plans!Known(x)})
Budget(total, available, r) ==
  Plans!Min({Plans!SatSub(available, Plans!RamReserve(total, r)), Plans!SatSub(total, Plans!RamReserve(total, r)),
             (total * r.percent) \div 100})

LEMMA RamBudgetIs ==
  ASSUME NEW h, NEW r, Plans!RamKnown(h, r)
  PROVE  Plans!RamBudget(h, r) = Plans!Cap(Budget(LeastTotal(h), LeastLeft(h), r), r.max_memory)
PROOF
BY DEF Plans!RamBudget, Budget, LeastTotal, LeastLeft

LEMMA TotalsAre ==
  ASSUME NEW h, Plans!IsMachine(h), Plans!Known(h.total)
  PROVE  /\ LeastTotal(h) \in Nat /\ LeastTotal(h) <= h.total
         /\ \A c \in DOMAIN h.limits : LeastTotal(h) <= h.limits[c].limit
PROOF
<1> DEFINE S == {h.total} \union {h.limits[c].limit : c \in DOMAIN h.limits}
<1>1. S \in SUBSET Nat /\ S # {}
  BY DEF Plans!IsMachine, Plans!Known, Plans!Amounts
<1>2. Plans!Min(S) \in S /\ \A x \in S : Plans!Min(S) <= x
  BY <1>1, LeastOf
<1>3. LeastTotal(h) = Plans!Min(S)
  BY DEF LeastTotal
<1>4. QED
  BY <1>1, <1>2, <1>3

LEMMA LeftsAre ==
  ASSUME NEW h, NEW r, Plans!IsMachine(h), Plans!RamKnown(h, r)
  PROVE  LET left(c) == Plans!SatSub(h.limits[c].limit, h.limits[c].used)
         IN /\ h.available \in Nat /\ \A c \in DOMAIN h.limits : h.limits[c].used \in Nat /\ left(c) \in Nat
            /\ LeastLeft(h) \in Nat /\ LeastLeft(h) <= h.available
            /\ \A c \in DOMAIN h.limits : LeastLeft(h) <= left(c)
            /\ LeastLeft(h) = h.available \/ \E c \in DOMAIN h.limits : LeastLeft(h) = left(c)
PROOF
<1> DEFINE left(c) == Plans!SatSub(h.limits[c].limit, h.limits[c].used)
           T == {left(c) : c \in DOMAIN h.limits}
           S == {h.available} \union T
<1>1. /\ h.available \in Nat
      /\ \A c \in DOMAIN h.limits : h.limits[c].used \in Nat /\ h.limits[c].limit \in Nat /\ Plans!Known(h.limits[c].used)
  BY DEF Plans!IsMachine, Plans!RamKnown, Plans!Known, Plans!Amounts
<1>2. \A c \in DOMAIN h.limits : left(c) \in Nat /\ Plans!Known(left(c))
  BY <1>1, PlanConstants DEF Plans!SatSub, Plans!PlanConstants, Plans!Known
<1>3. Plans!Remaining(h) = [c \in DOMAIN h.limits |-> left(c)]
  BY <1>1 DEF Plans!Remaining
<1> HIDE DEF left
<1>4. {x \in Plans!Range(Plans!Remaining(h)) : Plans!Known(x)} = T
  BY <1>2, <1>3 DEF Plans!Range
<1>5. S \in SUBSET Nat /\ S # {}
  BY <1>1, <1>2
<1>6. LeastLeft(h) = Plans!Min(S)
  BY <1>4 DEF LeastLeft
<1>7. Plans!Min(S) \in S /\ \A x \in S : Plans!Min(S) <= x
  BY <1>5, LeastOf
<1>8. QED
  BY <1>1, <1>2, <1>5, <1>6, <1>7 DEF left

LEMMA ReservesAre ==
  ASSUME NEW r, NEW s, Plans!IsRequest(r), Plans!IsRequest(s), AsksMore(s, r), NEW n \in Nat
  PROVE  /\ Plans!RamReserve(n, r) \in Nat /\ Plans!RamReserve(n, s) \in Nat
         /\ Plans!RamReserve(n, r) <= Plans!RamReserve(n, s)
         /\ RamLow <= Plans!RamReserve(n, r) /\ r.reserve_ram <= Plans!RamReserve(n, r)
PROOF
<1>1. r.reserve_ram \in Nat /\ s.reserve_ram \in Nat /\ r.reserve_ram <= s.reserve_ram
  BY DEF Plans!IsRequest, AsksMore
<1>2. RamLow \in Nat /\ RamHigh \in Nat /\ n \div 4 \in Nat
  BY PlanConstants DEF Plans!PlanConstants
<1> DEFINE c == Plans!Clamp(n \div 4, RamLow, RamHigh)
<1>3. c \in Nat /\ RamLow <= c
  BY <1>2, Clamped
<1> HIDE DEF c
<1>4. /\ Plans!RamReserve(n, r) = (IF c >= r.reserve_ram THEN c ELSE r.reserve_ram)
      /\ Plans!RamReserve(n, s) = (IF c >= s.reserve_ram THEN c ELSE s.reserve_ram)
  BY <1>1, <1>3, Largest DEF Plans!RamReserve, c
<1>5. QED
  BY <1>1, <1>2, <1>3, <1>4

(* The budget of RAM before a ceiling is put on it.                        *)
LEMMA BudgetIs ==
  ASSUME NEW t \in Nat, NEW a \in Nat, NEW b \in Nat, a <= b, NEW r, NEW s, Plans!IsRequest(r), Plans!IsRequest(s), AsksMore(s, r)
  PROVE  /\ Budget(t, a, s) \in Nat /\ Budget(t, b, r) \in Nat /\ Budget(t, a, s) <= Budget(t, b, r)
         /\ \A n \in Nat : n > 0 /\ n <= Budget(t, b, r) =>
              n + RamLow <= b /\ n + r.reserve_ram <= b /\ n + RamLow <= t /\ n + r.reserve_ram <= t
PROOF
<1> DEFINE u == Plans!RamReserve(t, r)
           v == Plans!RamReserve(t, s)
           p == (t * r.percent) \div 100
<1>1. u \in Nat /\ v \in Nat /\ u <= v /\ RamLow <= u /\ r.reserve_ram <= u /\ RamLow \in Nat /\ r.reserve_ram \in Nat
  BY ReservesAre, PlanConstants DEF Plans!PlanConstants, Plans!IsRequest
<1>2. p \in Nat /\ s.percent = r.percent
  <2>1. r.percent \in Nat /\ s.percent = r.percent
    BY DEF Plans!IsRequest, AsksMore
  <2>2. t * r.percent \in Nat
    BY <2>1, Products
  <2> DEFINE m == t * r.percent
  <2> HIDE DEF m
  <2>3. m \in Nat
    BY <2>2 DEF m
  <2>4. m \div 100 \in Nat
    BY <2>3
  <2>5. QED
    BY <2>1, <2>4 DEF m
<1>3. /\ Budget(t, a, s) = Plans!Min({Plans!SatSub(a, v), Plans!SatSub(t, v), p})
      /\ Budget(t, b, r) = Plans!Min({Plans!SatSub(b, u), Plans!SatSub(t, u), p})
  BY <1>2 DEF Budget
<1> HIDE DEF u, v, p
<1>4. /\ Plans!SatSub(a, v) \in Nat /\ Plans!SatSub(t, v) \in Nat /\ Plans!SatSub(b, u) \in Nat /\ Plans!SatSub(t, u) \in Nat
      /\ Plans!SatSub(a, v) <= Plans!SatSub(b, u) /\ Plans!SatSub(t, v) <= Plans!SatSub(t, u)
      /\ \A n \in Nat : n > 0 /\ n <= Plans!SatSub(b, u) /\ n <= Plans!SatSub(t, u) => n + u <= b /\ n + u <= t
  BY <1>1 DEF Plans!SatSub
<1> DEFINE av == Plans!SatSub(a, v)
           tv == Plans!SatSub(t, v)
           bu == Plans!SatSub(b, u)
           tu == Plans!SatSub(t, u)
           mv == Plans!Min({av, tv, p})
           mu == Plans!Min({bu, tu, p})
<1>5. /\ mv \in Nat /\ \A n \in Nat : n <= mv <=> n <= av /\ n <= tv /\ n <= p
      /\ mu \in Nat /\ \A n \in Nat : n <= mu <=> n <= bu /\ n <= tu /\ n <= p
  BY <1>2, <1>4, Smallest3
<1> HIDE DEF mv, mu
<1>6. mv <= mu
  BY <1>4, <1>5
<1>7. \A n \in Nat : n > 0 /\ n <= mu => n + u <= b /\ n + u <= t
  BY <1>4, <1>5
<1>8. QED
  BY <1>1, <1>3, <1>5, <1>6, <1>7 DEF mv, mu

(* The budget of RAM of a poorer machine is no larger.                     *)
LEMMA RamShrinks ==
  ASSUME NEW g, NEW h, NEW r, NEW s, Plans!IsMachine(g), Plans!IsMachine(h), Plans!IsRequest(r), Plans!IsRequest(s),
         Poorer(g, h), AsksMore(s, r), Plans!Known(Plans!RamBudget(g, s))
  PROVE  /\ Plans!Known(Plans!RamBudget(h, r)) /\ Plans!RamBudget(h, r) \in Nat /\ Plans!RamBudget(g, s) \in Nat
         /\ Plans!RamBudget(g, s) <= Plans!RamBudget(h, r)
PROOF
<1>1. Plans!RamKnown(g, s)
  BY DEF Plans!RamBudget, Plans!Known
<1>2. Plans!RamKnown(h, r) /\ h.total = g.total /\ Plans!Known(g.total) /\ Plans!Known(h.total)
  BY <1>1 DEF Poorer, Less, Lower, Plans!RamKnown
<1>3. LeastTotal(g) = LeastTotal(h)
  <2>1. {g.limits[c].limit : c \in DOMAIN g.limits} = {h.limits[c].limit : c \in DOMAIN h.limits}
    BY DEF Poorer
  <2>2. QED
    BY <1>2, <2>1 DEF LeastTotal
<1>4. LeastLeft(g) \in Nat /\ LeastLeft(h) \in Nat /\ LeastLeft(g) <= LeastLeft(h)
  <2>1. LeastLeft(g) \in Nat /\ LeastLeft(h) \in Nat
    BY <1>1, <1>2, LeftsAre
  <2>2. CASE LeastLeft(h) = h.available
    <3>1. LeastLeft(g) <= g.available /\ g.available \in Nat /\ h.available \in Nat
      BY <1>1, <1>2, LeftsAre
    <3>2. g.available <= h.available
      BY <1>1 DEF Poorer, Less, Plans!RamKnown
    <3>3. QED
      BY <2>1, <2>2, <3>1, <3>2
  <2>3. CASE \E c \in DOMAIN h.limits : LeastLeft(h) = Plans!SatSub(h.limits[c].limit, h.limits[c].used)
    <3>1. PICK c \in DOMAIN h.limits : LeastLeft(h) = Plans!SatSub(h.limits[c].limit, h.limits[c].used)
      BY <2>3
    <3>2. c \in DOMAIN g.limits /\ g.limits[c].limit = h.limits[c].limit /\ Lower(h.limits[c].used, g.limits[c].used)
      BY DEF Poorer
    <3>3. /\ g.limits[c].used \in Nat /\ h.limits[c].used \in Nat /\ h.limits[c].limit \in Nat
          /\ LeastLeft(g) <= Plans!SatSub(g.limits[c].limit, g.limits[c].used)
      <4>1. g.limits[c].used \in Nat /\ LeastLeft(g) <= Plans!SatSub(g.limits[c].limit, g.limits[c].used)
        BY <1>1, <3>2, LeftsAre
      <4>2. h.limits[c].used \in Nat
        BY <1>2, LeftsAre
      <4>3. h.limits[c].limit \in Nat
        BY DEF Plans!IsMachine
      <4>4. QED
        BY <4>1, <4>2, <4>3
    <3>4. h.limits[c].used <= g.limits[c].used
      BY <3>2, <3>3, PlanConstants DEF Lower, Plans!Known, Plans!PlanConstants
    <3>5. Plans!SatSub(g.limits[c].limit, g.limits[c].used) <= Plans!SatSub(h.limits[c].limit, h.limits[c].used)
      BY <3>2, <3>3, <3>4 DEF Plans!SatSub
    <3>6. Plans!SatSub(g.limits[c].limit, g.limits[c].used) \in Nat /\ Plans!SatSub(h.limits[c].limit, h.limits[c].used) \in Nat
      BY <3>2, <3>3 DEF Plans!SatSub
    <3>7. QED
      BY <2>1, <3>1, <3>3, <3>5, <3>6
  <2>4. QED
    BY <1>2, <2>2, <2>3, LeftsAre
<1>5. LeastTotal(h) \in Nat
  BY <1>2, TotalsAre
<1> DEFINE x == Budget(LeastTotal(g), LeastLeft(g), s)
           y == Budget(LeastTotal(h), LeastLeft(h), r)
<1>6. x \in Nat /\ y \in Nat /\ x <= y
  BY <1>3, <1>4, <1>5, BudgetIs
<1>7. Plans!RamBudget(g, s) = Plans!Cap(x, s.max_memory) /\ Plans!RamBudget(h, r) = Plans!Cap(y, r.max_memory)
  BY <1>1, <1>2, RamBudgetIs
<1> HIDE DEF x, y
<1>8. /\ s.max_memory \in Plans!Amounts /\ r.max_memory \in Plans!Amounts
      /\ Plans!Known(r.max_memory) => Plans!Known(s.max_memory) /\ s.max_memory <= r.max_memory
  BY DEF Plans!IsRequest, AsksMore, Lower
<1>9. Plans!RamBudget(g, s) \in Nat /\ Plans!RamBudget(h, r) \in Nat /\ Plans!RamBudget(g, s) <= Plans!RamBudget(h, r)
  BY <1>6, <1>7, <1>8, Capped
<1>10. QED
  BY <1>9, PlanConstants DEF Plans!PlanConstants, Plans!Known

LEMMA DiskReservesAre ==
  ASSUME NEW r, NEW s, Plans!IsRequest(r), Plans!IsRequest(s), AsksMore(s, r), NEW a \in Nat, NEW b \in Nat, a <= b
  PROVE  /\ Plans!DiskReserve(a, s) \in Nat /\ Plans!DiskReserve(b, r) \in Nat
         /\ Plans!SatSub(a, Plans!DiskReserve(a, s)) <= Plans!SatSub(b, Plans!DiskReserve(b, r))
         /\ DiskLow <= Plans!DiskReserve(b, r)
PROOF
<1>1. r.reserve_disk \in Nat /\ s.reserve_disk \in Nat /\ r.reserve_disk <= s.reserve_disk
  BY DEF Plans!IsRequest, AsksMore
<1>2. DiskLow \in Nat /\ DiskHigh \in Nat /\ a \div 4 \in Nat /\ b \div 4 \in Nat
      /\ a \div 4 <= b \div 4 /\ b \div 4 <= (a \div 4) + (b - a)
  BY PlanConstants DEF Plans!PlanConstants
<1> DEFINE c == Plans!Clamp(a \div 4, DiskLow, DiskHigh)
           d == Plans!Clamp(b \div 4, DiskLow, DiskHigh)
<1>3. c \in Nat /\ d \in Nat /\ DiskLow <= d /\ d <= c + (b - a)
  BY <1>2, Clamped
<1> HIDE DEF c, d
<1>4. /\ Plans!DiskReserve(a, s) = (IF c >= s.reserve_disk THEN c ELSE s.reserve_disk)
      /\ Plans!DiskReserve(b, r) = (IF d >= r.reserve_disk THEN d ELSE r.reserve_disk)
  BY <1>1, <1>3, Largest DEF Plans!DiskReserve, c, d
<1> DEFINE x == Plans!DiskReserve(a, s)
           y == Plans!DiskReserve(b, r)
<1>5. x \in Nat /\ y \in Nat /\ DiskLow <= y /\ y <= x + (b - a)
  BY <1>1, <1>2, <1>3, <1>4
<1> HIDE DEF x, y
<1>6. Plans!SatSub(a, x) <= Plans!SatSub(b, y)
  BY <1>5 DEF Plans!SatSub
<1>7. QED
  BY <1>5, <1>6 DEF x, y

LEMMA DiskShrinks ==
  ASSUME NEW g, NEW h, NEW r, NEW s, Plans!IsMachine(g), Plans!IsMachine(h), Plans!IsRequest(r), Plans!IsRequest(s),
         Poorer(g, h), AsksMore(s, r), Plans!Known(Plans!DiskBudget(g, s))
  PROVE  /\ Plans!Known(Plans!DiskBudget(h, r)) /\ Plans!DiskBudget(h, r) \in Nat /\ Plans!DiskBudget(g, s) \in Nat
         /\ Plans!DiskBudget(g, s) <= Plans!DiskBudget(h, r)
PROOF
<1>1. Plans!Known(g.disk)
  BY DEF Plans!DiskBudget, Plans!Cap, Plans!Known
<1>2. g.disk \in Nat /\ h.disk \in Nat /\ g.disk <= h.disk /\ Plans!Known(h.disk)
  BY <1>1 DEF Poorer, Less, Plans!IsMachine, Plans!Known, Plans!Amounts
<1> DEFINE x == Plans!SatSub(g.disk, Plans!DiskReserve(g.disk, s))
           y == Plans!SatSub(h.disk, Plans!DiskReserve(h.disk, r))
<1>3. x \in Nat /\ y \in Nat /\ x <= y
  <2>1. Plans!DiskReserve(g.disk, s) \in Nat /\ Plans!DiskReserve(h.disk, r) \in Nat /\ x <= y
    BY <1>2, DiskReservesAre
  <2>2. QED
    BY <1>2, <2>1 DEF Plans!SatSub
<1>4. Plans!DiskBudget(g, s) = Plans!Cap(x, s.max_disk) /\ Plans!DiskBudget(h, r) = Plans!Cap(y, r.max_disk)
  BY <1>1, <1>2 DEF Plans!DiskBudget
<1> HIDE DEF x, y
<1>5. /\ s.max_disk \in Plans!Amounts /\ r.max_disk \in Plans!Amounts
      /\ Plans!Known(r.max_disk) => Plans!Known(s.max_disk) /\ s.max_disk <= r.max_disk
  BY DEF Plans!IsRequest, AsksMore, Lower
<1>6. Plans!DiskBudget(g, s) \in Nat /\ Plans!DiskBudget(h, r) \in Nat /\ Plans!DiskBudget(g, s) <= Plans!DiskBudget(h, r)
  BY <1>3, <1>4, <1>5, Capped
<1>7. QED
  BY <1>6, PlanConstants DEF Plans!PlanConstants, Plans!Known

(* What a card that shares the memory, and one of its own memory, leaves.  *)
SharedLeft(h, r) == Plans!SatSub(Plans!Cap(Plans!RamBudget(h, r), h.devices[r.device].recommended), r.reserve_device)
OwnLeft(h, r) ==
  LET d == h.devices[r.device]
  IN Plans!Min({Plans!SatSub(d.available, Plans!DeviceReserve(d.total, r)), Plans!SatSub(d.total, Plans!DeviceReserve(d.total, r))})
CardFound(h, r) == IF h.devices[r.device].unified THEN Plans!Known(Plans!RamBudget(h, r))
                   ELSE Plans!Known(h.devices[r.device].total) /\ Plans!Known(h.devices[r.device].available)
CardLeft(h, r) == IF h.devices[r.device].unified THEN SharedLeft(h, r) ELSE OwnLeft(h, r)

LEMMA DeviceBudgetIs ==
  ASSUME NEW h, NEW r
  PROVE  Plans!DeviceBudget(h, r) =
           IF Plans!Found(h, r) /\ CardFound(h, r) THEN Plans!Cap(CardLeft(h, r), r.max_device) ELSE Unknown
PROOF
<1>1. Plans!Cap(Unknown, r.max_device) = Unknown
  BY DEF Plans!Cap, Plans!Known
<1>2. QED
  BY <1>1 DEF Plans!DeviceBudget, CardFound, CardLeft, SharedLeft, OwnLeft

LEMMA OwnLefts ==
  ASSUME NEW t \in Nat, NEW a \in Nat, NEW b \in Nat, a <= b, NEW r, NEW s, Plans!IsRequest(r), Plans!IsRequest(s), AsksMore(s, r)
  PROVE  LET v == Plans!DeviceReserve(t, s)
             u == Plans!DeviceReserve(t, r)
             x == Plans!Min({Plans!SatSub(a, v), Plans!SatSub(t, v)})
             y == Plans!Min({Plans!SatSub(b, u), Plans!SatSub(t, u)})
         IN x \in Nat /\ y \in Nat /\ x <= y /\ \A n \in Nat : n > 0 /\ n <= y => n + DeviceLow <= b /\ n + DeviceLow <= t
PROOF
<1> DEFINE v == Plans!DeviceReserve(t, s)
           u == Plans!DeviceReserve(t, r)
           m == Plans!Max({DeviceLow, r.reserve_device})
<1>1. r.reserve_device \in Nat /\ s.reserve_device = r.reserve_device /\ DeviceLow \in Nat /\ t \div 10 \in Nat
  BY PlanConstants DEF Plans!IsRequest, AsksMore, Plans!PlanConstants
<1>2. u = Plans!Max({t \div 10, DeviceLow, r.reserve_device}) /\ v = u
  BY <1>1 DEF Plans!DeviceReserve
<1>3. u \in Nat /\ DeviceLow <= u
  <2> DEFINE S == {t \div 10, DeviceLow, r.reserve_device}
  <2>1. \E x \in S : \A y \in S : x >= y
    <3>1. \A i, j, k \in Nat : \/ i >= j /\ i >= k
                               \/ j >= i /\ j >= k
                               \/ k >= i /\ k >= j
      OBVIOUS
    <3>2. QED
      BY <1>1, <3>1
  <2>2. Plans!Max(S) \in S /\ \A y \in S : Plans!Max(S) >= y
    BY <2>1 DEF Plans!Max
  <2>3. QED
    BY <1>1, <1>2, <2>2
<1> HIDE DEF u, v
<1>4. /\ Plans!SatSub(a, u) \in Nat /\ Plans!SatSub(b, u) \in Nat /\ Plans!SatSub(t, u) \in Nat
      /\ Plans!SatSub(a, u) <= Plans!SatSub(b, u)
      /\ \A n \in Nat : /\ n > 0 /\ n <= Plans!SatSub(b, u) => n + u <= b
                        /\ n > 0 /\ n <= Plans!SatSub(t, u) => n + u <= t
  BY <1>3 DEF Plans!SatSub
<1> DEFINE x == Plans!Min({Plans!SatSub(a, u), Plans!SatSub(t, u)})
           y == Plans!Min({Plans!SatSub(b, u), Plans!SatSub(t, u)})
<1>5. /\ x = (IF Plans!SatSub(a, u) <= Plans!SatSub(t, u) THEN Plans!SatSub(a, u) ELSE Plans!SatSub(t, u))
      /\ y = (IF Plans!SatSub(b, u) <= Plans!SatSub(t, u) THEN Plans!SatSub(b, u) ELSE Plans!SatSub(t, u))
  BY <1>4, Smallest
<1>6. x \in Nat /\ y \in Nat /\ x <= y
  BY <1>4, <1>5
<1>7. ASSUME NEW n \in Nat, n > 0, n <= y PROVE n + DeviceLow <= b /\ n + DeviceLow <= t
  <2>1. n <= Plans!SatSub(b, u) /\ n <= Plans!SatSub(t, u)
    BY <1>4, <1>5, <1>7
  <2>2. n + u <= b /\ n + u <= t
    BY <1>4, <1>7, <2>1
  <2>3. QED
    BY <1>1, <1>3, <2>2
<1> HIDE DEF x, y
<1>8. QED
  BY <1>2, <1>6, <1>7 DEF x, y, u, v

LEMMA DeviceShrinks ==
  ASSUME NEW g, NEW h, NEW r, NEW s, Plans!IsMachine(g), Plans!IsMachine(h), Plans!IsRequest(r), Plans!IsRequest(s),
         Poorer(g, h), AsksMore(s, r), Plans!Known(Plans!DeviceBudget(g, s))
  PROVE  /\ Plans!Found(g, s) /\ Plans!Found(h, r)
         /\ Plans!Known(Plans!DeviceBudget(h, r)) /\ Plans!DeviceBudget(h, r) \in Nat /\ Plans!DeviceBudget(g, s) \in Nat
         /\ Plans!DeviceBudget(g, s) <= Plans!DeviceBudget(h, r)
PROOF
<1> DEFINE d == r.device
           card == h.devices[d]
           less == g.devices[d]
<1>1. /\ Plans!Found(g, s) /\ CardFound(g, s)
      /\ Plans!DeviceBudget(g, s) = Plans!Cap(CardLeft(g, s), s.max_device)
  BY DeviceBudgetIs DEF Plans!Known
<1>2. s.device = d /\ d \in DOMAIN g.devices /\ d \in DOMAIN h.devices /\ Plans!Found(h, r)
  BY <1>1 DEF AsksMore, Poorer, Plans!Found
<1>3. /\ card.unified \in BOOLEAN /\ card.total \in Plans!Amounts /\ card.available \in Plans!Amounts
      /\ card.recommended \in Plans!Amounts /\ less.available \in Plans!Amounts
      /\ less.unified = card.unified /\ less.total = card.total /\ less.recommended = card.recommended
      /\ Less(less.available, card.available)
  BY <1>2 DEF Plans!IsMachine, Poorer
<1>4. r.reserve_device \in Nat /\ s.reserve_device = r.reserve_device /\ s.max_device = r.max_device
      /\ r.max_device \in Plans!Amounts
  BY DEF Plans!IsRequest, AsksMore
<1>5. CardFound(h, r) /\ CardLeft(g, s) \in Nat /\ CardLeft(h, r) \in Nat /\ CardLeft(g, s) <= CardLeft(h, r)
  <2>1. CASE card.unified
    <3> DEFINE x == Plans!RamBudget(g, s)
               y == Plans!RamBudget(h, r)
               i == Plans!Cap(x, card.recommended)
               j == Plans!Cap(y, card.recommended)
    <3>1. Plans!Known(x)
      BY <1>1, <1>2, <1>3, <2>1 DEF CardFound
    <3>2. Plans!Known(y) /\ x \in Nat /\ y \in Nat /\ x <= y
      BY <3>1, RamShrinks
    <3> HIDE DEF x, y
    <3>3. i \in Nat /\ j \in Nat /\ i <= j
      <4>1. Plans!Known(card.recommended) => card.recommended <= card.recommended
        BY <1>3 DEF Plans!Known, Plans!Amounts
      <4>2. QED
        BY <1>3, <3>2, <4>1, Capped
    <3>4. CardLeft(g, s) = Plans!SatSub(i, s.reserve_device) /\ CardLeft(h, r) = Plans!SatSub(j, r.reserve_device)
      BY <1>2, <1>3, <2>1 DEF CardLeft, SharedLeft, x, y
    <3> HIDE DEF i, j
    <3>5. QED
      BY <1>2, <1>3, <1>4, <2>1, <3>2, <3>3, <3>4 DEF Plans!SatSub, CardFound, y
  <2>2. CASE ~card.unified
    <3>1. card.total \in Nat /\ less.available \in Nat /\ card.available \in Nat /\ less.available <= card.available
          /\ CardFound(h, r)
      BY <1>1, <1>2, <1>3, <2>2 DEF CardFound, Less, Plans!Known, Plans!Amounts
    <3>2. /\ CardLeft(g, s) = Plans!Min({Plans!SatSub(less.available, Plans!DeviceReserve(card.total, s)),
                                         Plans!SatSub(card.total, Plans!DeviceReserve(card.total, s))})
          /\ CardLeft(h, r) = Plans!Min({Plans!SatSub(card.available, Plans!DeviceReserve(card.total, r)),
                                         Plans!SatSub(card.total, Plans!DeviceReserve(card.total, r))})
      BY <1>2, <1>3, <2>2 DEF CardLeft, OwnLeft
    <3>3. QED
      BY <3>1, <3>2, OwnLefts
  <2>3. QED
    BY <1>3, <2>1, <2>2
<1>6. Plans!DeviceBudget(h, r) = Plans!Cap(CardLeft(h, r), r.max_device)
  BY <1>2, <1>5, DeviceBudgetIs
<1>7. Plans!DeviceBudget(g, s) \in Nat /\ Plans!DeviceBudget(h, r) \in Nat /\ Plans!DeviceBudget(g, s) <= Plans!DeviceBudget(h, r)
  <2>1. Plans!Known(r.max_device) => r.max_device <= r.max_device
    BY <1>4 DEF Plans!Known, Plans!Amounts
  <2>2. QED
    BY <1>1, <1>4, <1>5, <1>6, <2>1, Capped
<1>8. QED
  BY <1>1, <1>2, <1>7, PlanConstants DEF Plans!PlanConstants, Plans!Known

-----------------------------------------------------------------------------
(* A plan is admitted when each need is within a budget that is known.     *)
Fits(capacity, need, ceiling) ==
  Plans!Known(capacity) /\ ~(need > capacity) /\ (Plans!Known(ceiling) => ~(need > ceiling))

LEMMA AdmittedWhen ==
  ASSUME NEW h, NEW r
  PROVE  Plans!Admits(h, r) <=>
           /\ Plans!ValidHardware(h) /\ Plans!ValidRequest(r) /\ Plans!Estimable(h, r) /\ h.threads # 0
           /\ Fits(Plans!RamBudget(h, r), Plans!RamNeed(h, r), r.max_memory)
           /\ Fits(Plans!DiskBudget(h, r), Plans!DiskNeed(r), r.max_disk)
           /\ Plans!Cpu(r) \/ (Plans!Found(h, r) /\ Fits(Plans!DeviceBudget(h, r), Plans!DeviceNeed(h, r), r.max_device))
PROOF
<1> DEFINE ram == <<Plans!RamBudget(h, r), Plans!RamNeed(h, r), r.max_memory>>
           disk == <<Plans!DiskBudget(h, r), Plans!DiskNeed(r), r.max_disk>>
           device == <<Plans!DeviceBudget(h, r), Plans!DeviceNeed(h, r), r.max_device>>
           needs == {ram, disk} \union IF Plans!Cpu(r) THEN {} ELSE {device}
           over == \E n \in needs : Plans!Exceeded(n[1], n[2]) \/ Plans!Exceeded(n[3], n[2])
           open == \E n \in needs : Plans!Missing(n[1], n[3])
<1>1. Plans!Admits(h, r) <=>
        /\ Plans!ValidHardware(h) /\ Plans!ValidRequest(r) /\ Plans!Estimable(h, r)
        /\ ~over /\ (Plans!Cpu(r) \/ Plans!Found(h, r)) /\ ~open /\ h.threads # 0
  <2>1. Plans!Admits(h, r) <=> Plans!ValidHardware(h) /\ Plans!ValidRequest(r) /\ Plans!Estimable(h, r)
                                /\ Plans!Decision(h, r) = "WITHIN_ESTIMATED_BUDGET"
    BY DEF Plans!Admits, Plans!Plan
  <2>2. Plans!Decision(h, r) = IF over \/ (~Plans!Cpu(r) /\ ~Plans!Found(h, r)) THEN "REFUSED"
                               ELSE IF open \/ h.threads = 0 THEN "INSUFFICIENT_INFORMATION"
                               ELSE "WITHIN_ESTIMATED_BUDGET"
    BY DEF Plans!Decision
  <2> HIDE DEF over, open
  <2>3. QED
    BY <2>1, <2>2
<1>2. \A n \in {ram, disk, device} :
        Fits(n[1], n[2], n[3]) <=> ~(Plans!Exceeded(n[1], n[2]) \/ Plans!Exceeded(n[3], n[2])) /\ ~Plans!Missing(n[1], n[3])
  BY DEF Fits, Plans!Exceeded, Plans!Missing
<1>3. /\ Fits(ram[1], ram[2], ram[3]) = Fits(Plans!RamBudget(h, r), Plans!RamNeed(h, r), r.max_memory)
      /\ Fits(disk[1], disk[2], disk[3]) = Fits(Plans!DiskBudget(h, r), Plans!DiskNeed(r), r.max_disk)
      /\ Fits(device[1], device[2], device[3]) = Fits(Plans!DeviceBudget(h, r), Plans!DeviceNeed(h, r), r.max_device)
  OBVIOUS
<1> HIDE DEF ram, disk, device
<1>4. ~over /\ ~open <=> /\ Fits(ram[1], ram[2], ram[3]) /\ Fits(disk[1], disk[2], disk[3])
                         /\ Plans!Cpu(r) \/ Fits(device[1], device[2], device[3])
  <2>1. ~over /\ ~open <=> \A n \in needs : Fits(n[1], n[2], n[3])
    BY <1>2
  <2>2. needs = IF Plans!Cpu(r) THEN {ram, disk} ELSE {ram, disk, device}
    OBVIOUS
  <2> HIDE DEF needs, over, open
  <2>3. CASE Plans!Cpu(r)
    BY <2>1, <2>2, <2>3
  <2>4. CASE ~Plans!Cpu(r)
    BY <2>1, <2>2, <2>4
  <2>5. QED
    BY <2>3, <2>4
<1> HIDE DEF over, open, needs
<1>5. QED
  BY <1>1, <1>3, <1>4

LEMMA FitsBetter ==
  ASSUME NEW a \in Nat, NEW b \in Nat, a <= b, Plans!Known(b), NEW m \in Nat, NEW n \in Nat, m <= n,
         NEW low \in Plans!Amounts, NEW high \in Plans!Amounts, Lower(low, high), Fits(a, n, low)
  PROVE  Fits(b, m, high)
PROOF
<1>1. ~(m > b)
  BY DEF Fits
<1>2. ASSUME Plans!Known(high) PROVE ~(m > high)
  <2>1. Plans!Known(low) /\ low <= high /\ low \in Nat /\ high \in Nat
    BY <1>2 DEF Lower, Plans!Known, Plans!Amounts
  <2>2. QED
    BY <2>1 DEF Fits
<1>3. QED
  BY <1>1, <1>2 DEF Fits

LEMMA NeedsOfMachine ==
  ASSUME NEW g, NEW h, NEW r, NEW s, Plans!IsMachine(h), Plans!IsRequest(r), Plans!IsRequest(s),
         Poorer(g, h), AsksMore(s, r)
  PROVE  /\ Plans!RamNeed(h, r) \in Nat /\ Plans!RamNeed(g, s) \in Nat /\ Plans!RamNeed(h, r) <= Plans!RamNeed(g, s)
         /\ Plans!DeviceNeed(h, r) \in Nat /\ Plans!DeviceNeed(g, s) \in Nat /\ Plans!DeviceNeed(h, r) <= Plans!DeviceNeed(g, s)
PROOF
<1>1. Plans!Unified(g, s) = Plans!Unified(h, r)
  <2>1. s.device = r.device /\ DOMAIN g.devices = DOMAIN h.devices
    BY DEF AsksMore, Poorer
  <2>2. \A d \in DOMAIN h.devices : g.devices[d].unified = h.devices[d].unified
    BY DEF Poorer
  <2>3. QED
    BY <2>1, <2>2 DEF Plans!Unified, Plans!Found
<1>2. QED
  BY <1>1, NeedsGrow DEF Plans!RamNeed, Plans!DeviceNeed

(* What is admitted of a poorer machine and a harder request is admitted.  *)
LEMMA Monotony ==
  ASSUME NEW g, NEW h, NEW r, NEW s, Plans!IsMachine(g), Plans!IsMachine(h), Plans!IsRequest(r), Plans!IsRequest(s),
         Poorer(g, h), AsksMore(s, r), Plans!ValidHardware(h), Plans!ValidRequest(r), Plans!Admits(g, s)
  PROVE  Plans!Admits(h, r)
PROOF
<1>1. /\ Plans!Estimable(g, s) /\ g.threads # 0
      /\ Fits(Plans!RamBudget(g, s), Plans!RamNeed(g, s), s.max_memory)
      /\ Fits(Plans!DiskBudget(g, s), Plans!DiskNeed(s), s.max_disk)
      /\ Plans!Cpu(s) \/ (Plans!Found(g, s) /\ Fits(Plans!DeviceBudget(g, s), Plans!DeviceNeed(g, s), s.max_device))
  BY AdmittedWhen
<1>2. h.threads # 0
  BY <1>1 DEF Poorer
<1>3. /\ Plans!RamNeed(h, r) \in Nat /\ Plans!RamNeed(g, s) \in Nat /\ Plans!RamNeed(h, r) <= Plans!RamNeed(g, s)
      /\ Plans!DeviceNeed(h, r) \in Nat /\ Plans!DeviceNeed(g, s) \in Nat /\ Plans!DeviceNeed(h, r) <= Plans!DeviceNeed(g, s)
  BY NeedsOfMachine
<1>4. Plans!Estimable(h, r)
  <2>1. MaxBytes \in Nat
    BY PlanConstants DEF Plans!PlanConstants
  <2> DEFINE m == r.batch * r.accumulation
             n == s.batch * s.accumulation
  <2>2. Plans!Training(s) <= MaxBytes /\ Plans!RamNeed(g, s) <= MaxBytes /\ Plans!DiskNeed(s) <= MaxBytes /\ n <= MaxBytes
    BY <1>1 DEF Plans!Estimable
  <2>3. /\ Plans!Training(r) \in Nat /\ Plans!Training(s) \in Nat /\ Plans!Training(r) <= Plans!Training(s)
        /\ Plans!DiskNeed(r) \in Nat /\ Plans!DiskNeed(s) \in Nat /\ Plans!DiskNeed(r) <= Plans!DiskNeed(s)
        /\ m \in Nat /\ n \in Nat /\ m <= n
    BY NeedsGrow
  <2>4. Plans!Estimable(h, r) <=>
          Plans!Training(r) <= MaxBytes /\ Plans!RamNeed(h, r) <= MaxBytes /\ Plans!DiskNeed(r) <= MaxBytes /\ m <= MaxBytes
    BY DEF Plans!Estimable
  <2> HIDE DEF m, n
  <2>5. QED
    BY <1>3, <2>1, <2>2, <2>3, <2>4
<1>5. /\ r.max_memory \in Plans!Amounts /\ s.max_memory \in Plans!Amounts /\ r.max_disk \in Plans!Amounts
      /\ s.max_disk \in Plans!Amounts /\ r.max_device \in Plans!Amounts /\ s.max_device = r.max_device
      /\ Lower(s.max_memory, r.max_memory) /\ Lower(s.max_disk, r.max_disk) /\ s.device = r.device
  BY DEF Plans!IsRequest, AsksMore
<1>6. Fits(Plans!RamBudget(h, r), Plans!RamNeed(h, r), r.max_memory)
  <2>1. Plans!Known(Plans!RamBudget(g, s))
    BY <1>1 DEF Fits
  <2>2. /\ Plans!Known(Plans!RamBudget(h, r)) /\ Plans!RamBudget(h, r) \in Nat /\ Plans!RamBudget(g, s) \in Nat
        /\ Plans!RamBudget(g, s) <= Plans!RamBudget(h, r)
    BY <2>1, RamShrinks
  <2>3. QED
    BY <1>1, <1>3, <1>5, <2>2, FitsBetter
<1>7. Fits(Plans!DiskBudget(h, r), Plans!DiskNeed(r), r.max_disk)
  <2>1. Plans!Known(Plans!DiskBudget(g, s))
    BY <1>1 DEF Fits
  <2>2. /\ Plans!Known(Plans!DiskBudget(h, r)) /\ Plans!DiskBudget(h, r) \in Nat /\ Plans!DiskBudget(g, s) \in Nat
        /\ Plans!DiskBudget(g, s) <= Plans!DiskBudget(h, r)
    BY <2>1, DiskShrinks
  <2>3. Plans!DiskNeed(r) \in Nat /\ Plans!DiskNeed(s) \in Nat /\ Plans!DiskNeed(r) <= Plans!DiskNeed(s)
    BY NeedsGrow
  <2>4. QED
    BY <1>1, <1>5, <2>2, <2>3, FitsBetter
<1>8. Plans!Cpu(r) \/ (Plans!Found(h, r) /\ Fits(Plans!DeviceBudget(h, r), Plans!DeviceNeed(h, r), r.max_device))
  <2>1. SUFFICES ASSUME ~Plans!Cpu(r) PROVE Plans!Found(h, r) /\ Fits(Plans!DeviceBudget(h, r), Plans!DeviceNeed(h, r), r.max_device)
    OBVIOUS
  <2>2. ~Plans!Cpu(s)
    BY <1>5, <2>1 DEF Plans!Cpu
  <2>3. Plans!Known(Plans!DeviceBudget(g, s)) /\ Fits(Plans!DeviceBudget(g, s), Plans!DeviceNeed(g, s), s.max_device)
    BY <1>1, <2>2 DEF Fits
  <2>4. /\ Plans!Found(h, r)
        /\ Plans!Known(Plans!DeviceBudget(h, r)) /\ Plans!DeviceBudget(h, r) \in Nat /\ Plans!DeviceBudget(g, s) \in Nat
        /\ Plans!DeviceBudget(g, s) <= Plans!DeviceBudget(h, r)
    BY <2>3, DeviceShrinks
  <2>5. Lower(s.max_device, r.max_device)
    BY <1>5 DEF Lower, Plans!Known, Plans!Amounts
  <2>6. QED
    BY <1>3, <1>5, <2>3, <2>4, <2>5, FitsBetter
<1>9. QED
  BY <1>2, <1>4, <1>6, <1>7, <1>8, AdmittedWhen

-----------------------------------------------------------------------------
(* The machines and the requests that a plan is compared with are poorer   *)
(* and harder.                                                             *)
LEMMA NotLess ==
  ASSUME NEW x \in Plans!Amounts
  PROVE  Less(x, x) /\ Lower(x, x)
PROOF
BY DEF Less, Lower, Plans!Known, Plans!Amounts

LEMMA SameMachine ==
  ASSUME NEW h, Plans!IsMachine(h)
  PROVE  Poorer(h, h)
PROOF
<1>1. /\ Less(h.available, h.available) /\ Less(h.disk, h.disk)
      /\ \A c \in DOMAIN h.limits : Lower(h.limits[c].used, h.limits[c].used)
      /\ \A d \in DOMAIN h.devices : Less(h.devices[d].available, h.devices[d].available)
  BY NotLess DEF Plans!IsMachine
<1>2. QED
  BY <1>1 DEF Poorer

LEMMA SameRequest ==
  ASSUME NEW r, Plans!IsRequest(r)
  PROVE  AsksMore(r, r)
PROOF
<1>1. Lower(r.max_memory, r.max_memory) /\ Lower(r.max_disk, r.max_disk)
  BY NotLess DEF Plans!IsRequest
<1>2. \A f \in {"batch", "sequence", "runtime", "host", "extra", "reserve_ram", "reserve_disk"} : r[f] <= r[f]
  BY DEF Plans!IsRequest
<1>3. QED
  BY <1>1, <1>2 DEF AsksMore

LEMMA HiddenIsPoorer ==
  ASSUME NEW h, Plans!IsMachine(h), NEW g \in Plans!Hidden(h)
  PROVE  Plans!IsMachine(g) /\ Poorer(g, h)
PROOF
<1>1. /\ h \in [total : Plans!Amounts, available : Plans!Amounts, disk : Plans!Amounts, threads : Nat,
                limits : [DOMAIN h.limits -> [limit : Nat, used : Plans!Amounts]],
                devices : [DOMAIN h.devices -> [unified : BOOLEAN, total : Plans!Amounts, available : Plans!Amounts, recommended : Plans!Amounts]]]
      /\ Unknown \in Plans!Amounts /\ ~Plans!Known(Unknown) /\ Poorer(h, h)
  BY SameMachine DEF Plans!IsMachine, Plans!Amounts, Plans!Known
<1>2. CASE g = [h EXCEPT !.total = Unknown]
  BY <1>1, <1>2 DEF Poorer, Plans!IsMachine
<1>3. CASE g = [h EXCEPT !.available = Unknown]
  BY <1>1, <1>3 DEF Poorer, Less, Plans!IsMachine
<1>4. CASE g = [h EXCEPT !.disk = Unknown]
  BY <1>1, <1>4 DEF Poorer, Less, Plans!IsMachine
<1>5. CASE g = [h EXCEPT !.threads = 0]
  BY <1>1, <1>5 DEF Poorer, Plans!IsMachine
<1>6. ASSUME NEW i \in DOMAIN h.limits, g = [h EXCEPT !.limits[i].used = Unknown] PROVE Plans!IsMachine(g) /\ Poorer(g, h)
  <2> DEFINE l == [h.limits EXCEPT ![i].used = Unknown]
  <2>1. g = [h EXCEPT !.limits = l]
    BY <1>6
  <2>2. /\ l \in [DOMAIN h.limits -> [limit : Nat, used : Plans!Amounts]] /\ DOMAIN l = DOMAIN h.limits
        /\ \A c \in DOMAIN h.limits : /\ l[c].limit = h.limits[c].limit
                                      /\ l[c].used = h.limits[c].used \/ ~Plans!Known(l[c].used)
    BY <1>1
  <2> HIDE DEF l
  <2>3. Plans!IsMachine(g) /\ g.limits = l
    BY <1>1, <2>1, <2>2 DEF Plans!IsMachine
  <2>4. Poorer(g, h)
    BY <1>1, <2>1, <2>2, <2>3 DEF Poorer, Lower
  <2>5. QED
    BY <2>3, <2>4
<1>7. ASSUME NEW d \in DOMAIN h.devices, g = [h EXCEPT !.devices[d].available = Unknown] PROVE Plans!IsMachine(g) /\ Poorer(g, h)
  <2> DEFINE l == [h.devices EXCEPT ![d].available = Unknown]
  <2>1. g = [h EXCEPT !.devices = l]
    BY <1>7
  <2>2. /\ l \in [DOMAIN h.devices -> [unified : BOOLEAN, total : Plans!Amounts, available : Plans!Amounts, recommended : Plans!Amounts]]
        /\ DOMAIN l = DOMAIN h.devices
        /\ \A c \in DOMAIN h.devices : /\ \A f \in {"unified", "total", "recommended"} : l[c][f] = h.devices[c][f]
                                       /\ l[c].available = h.devices[c].available \/ ~Plans!Known(l[c].available)
    BY <1>1
  <2> HIDE DEF l
  <2>3. Plans!IsMachine(g) /\ g.devices = l
    BY <1>1, <2>1, <2>2 DEF Plans!IsMachine
  <2>4. Poorer(g, h)
    BY <1>1, <2>1, <2>2, <2>3 DEF Poorer, Less
  <2>5. QED
    BY <2>3, <2>4
<1>8. QED
  BY <1>2, <1>3, <1>4, <1>5, <1>6, <1>7 DEF Plans!Hidden

LEMMA FullerIsPoorer ==
  ASSUME NEW h, Plans!IsMachine(h), NEW g \in Plans!Fuller(h)
  PROVE  Plans!IsMachine(g) /\ Poorer(g, h)
PROOF
<1>1. /\ h \in [total : Plans!Amounts, available : Plans!Amounts, disk : Plans!Amounts, threads : Nat,
                limits : [DOMAIN h.limits -> [limit : Nat, used : Plans!Amounts]],
                devices : [DOMAIN h.devices -> [unified : BOOLEAN, total : Plans!Amounts, available : Plans!Amounts, recommended : Plans!Amounts]]]
      /\ Poorer(h, h)
  BY SameMachine DEF Plans!IsMachine
<1>2. ASSUME NEW x \in Plans!Amounts, Plans!Known(x)
      PROVE  /\ x \in Nat /\ x + 1 \in Plans!Amounts /\ Plans!Known(x + 1) /\ x <= x + 1
             /\ x > 0 => x - 1 \in Plans!Amounts /\ x - 1 <= x
  BY <1>2, PlanConstants DEF Plans!Amounts, Plans!Known, Plans!PlanConstants
<1>3. ASSUME g = [h EXCEPT !.available = h.available - 1], Plans!Known(h.available), h.available > 0
      PROVE  Plans!IsMachine(g) /\ Poorer(g, h)
  <2> DEFINE x == h.available - 1
  <2>1. x \in Plans!Amounts /\ x <= h.available
    BY <1>1, <1>2, <1>3
  <2> HIDE DEF x
  <2>2. g = [h EXCEPT !.available = x]
    BY <1>3 DEF x
  <2>3. QED
    BY <1>1, <1>3, <2>1, <2>2 DEF Poorer, Less, Plans!IsMachine
<1>4. ASSUME g = [h EXCEPT !.disk = h.disk - 1], Plans!Known(h.disk), h.disk > 0
      PROVE  Plans!IsMachine(g) /\ Poorer(g, h)
  <2> DEFINE x == h.disk - 1
  <2>1. x \in Plans!Amounts /\ x <= h.disk
    BY <1>1, <1>2, <1>4
  <2> HIDE DEF x
  <2>2. g = [h EXCEPT !.disk = x]
    BY <1>4 DEF x
  <2>3. QED
    BY <1>1, <1>4, <2>1, <2>2 DEF Poorer, Less, Plans!IsMachine
<1>5. ASSUME NEW i \in DOMAIN h.limits, Plans!Known(h.limits[i].used), g = [h EXCEPT !.limits[i].used = @ + 1]
      PROVE  Plans!IsMachine(g) /\ Poorer(g, h)
  <2> DEFINE x == h.limits[i].used + 1
             l == [h.limits EXCEPT ![i].used = x]
  <2>1. x \in Plans!Amounts /\ Plans!Known(x) /\ h.limits[i].used <= x
    BY <1>1, <1>2, <1>5
  <2>2. g = [h EXCEPT !.limits = l]
    BY <1>5
  <2> HIDE DEF x
  <2>3. /\ l \in [DOMAIN h.limits -> [limit : Nat, used : Plans!Amounts]] /\ DOMAIN l = DOMAIN h.limits
        /\ \A c \in DOMAIN h.limits : /\ l[c].limit = h.limits[c].limit
                                      /\ c # i => l[c].used = h.limits[c].used
        /\ l[i].used = x
    BY <1>1, <2>1
  <2> HIDE DEF l
  <2>4. Plans!IsMachine(g) /\ g.limits = l
    BY <1>1, <2>2, <2>3 DEF Plans!IsMachine
  <2>5. \A c \in DOMAIN h.limits : Lower(h.limits[c].used, l[c].used)
    <3>1. \A c \in DOMAIN h.limits : Lower(h.limits[c].used, h.limits[c].used)
      BY <1>1 DEF Poorer
    <3>2. QED
      BY <1>5, <2>1, <2>3, <3>1 DEF Lower
  <2>6. Poorer(g, h)
    BY <1>1, <2>2, <2>3, <2>4, <2>5 DEF Poorer
  <2>7. QED
    BY <2>4, <2>6
<1>6. ASSUME NEW d \in DOMAIN h.devices, Plans!Known(h.devices[d].available), h.devices[d].available > 0,
             g = [h EXCEPT !.devices[d].available = @ - 1]
      PROVE  Plans!IsMachine(g) /\ Poorer(g, h)
  <2> DEFINE x == h.devices[d].available - 1
             l == [h.devices EXCEPT ![d].available = x]
  <2>1. x \in Plans!Amounts /\ x <= h.devices[d].available
    BY <1>1, <1>2, <1>6
  <2>2. g = [h EXCEPT !.devices = l]
    BY <1>6
  <2> HIDE DEF x
  <2>3. /\ l \in [DOMAIN h.devices -> [unified : BOOLEAN, total : Plans!Amounts, available : Plans!Amounts, recommended : Plans!Amounts]]
        /\ DOMAIN l = DOMAIN h.devices
        /\ \A c \in DOMAIN h.devices : /\ \A f \in {"unified", "total", "recommended"} : l[c][f] = h.devices[c][f]
                                       /\ c # d => l[c].available = h.devices[c].available
        /\ l[d].available = x
    BY <1>1, <2>1
  <2> HIDE DEF l
  <2>4. Plans!IsMachine(g) /\ g.devices = l
    BY <1>1, <2>2, <2>3 DEF Plans!IsMachine
  <2>5. \A c \in DOMAIN h.devices : Less(l[c].available, h.devices[c].available)
    <3>1. \A c \in DOMAIN h.devices : Less(h.devices[c].available, h.devices[c].available)
      BY <1>1 DEF Poorer
    <3>2. QED
      BY <1>6, <2>1, <2>3, <3>1 DEF Less
  <2>6. Poorer(g, h)
    BY <1>1, <2>2, <2>3, <2>4, <2>5 DEF Poorer
  <2>7. QED
    BY <2>4, <2>6
<1>7. QED
  <2>1. CASE g \in {[h EXCEPT ![f] = @ - 1] : f \in {e \in {"available", "disk"} : Plans!Known(h[e]) /\ h[e] > 0}}
    BY <1>3, <1>4, <2>1
  <2>2. CASE g \in {[h EXCEPT !.limits[i].used = @ + 1] : i \in {j \in DOMAIN h.limits : Plans!Known(h.limits[j].used)}}
    BY <1>5, <2>2
  <2>3. CASE g \in {[h EXCEPT !.devices[d].available = @ - 1] :
                      d \in {e \in DOMAIN h.devices : Plans!Known(h.devices[e].available) /\ h.devices[e].available > 0}}
    BY <1>6, <2>3
  <2>4. QED
    BY <2>1, <2>2, <2>3 DEF Plans!Fuller

LEMMA HarderAsksMore ==
  ASSUME NEW r, Plans!IsRequest(r), NEW s \in Plans!Harder(r)
  PROVE  Plans!IsRequest(s) /\ AsksMore(s, r)
PROOF
<1> DEFINE more == {"batch", "sequence", "runtime", "host", "extra", "reserve_ram", "reserve_disk"}
           ceilings == {"max_memory", "max_disk"}
<1>1. AsksMore(r, r)
  BY SameRequest
<1>2. ASSUME NEW f \in more, s = [r EXCEPT ![f] = r[f] + 1]
      PROVE  Plans!IsRequest(s) /\ AsksMore(s, r)
  <2> DEFINE x == r[f] + 1
  <2>1. r[f] \in Nat /\ x \in Nat /\ r[f] <= x
    BY DEF Plans!IsRequest
  <2> HIDE DEF x
  <2>2. s = [r EXCEPT ![f] = x]
    BY <1>2 DEF x
  <2>3. Plans!IsRequest(s)
    BY <2>1, <2>2 DEF Plans!IsRequest
  <2>4. s[f] = x /\ \A e \in DOMAIN r : e # f => s[e] = r[e]
    BY <2>2 DEF Plans!IsRequest
  <2>5. AsksMore(s, r)
    <3>1. DOMAIN r = {"device", "method", "params", "trainable", "bits", "batch", "sequence", "activation", "attention",
                      "accumulation", "runtime", "host", "quantization", "extra", "reserve_ram", "reserve_device",
                      "reserve_disk", "percent", "headroom", "max_memory", "max_device", "max_disk"}
      BY DEF Plans!IsRequest
    <3>2. QED
      BY <1>1, <2>1, <2>4, <3>1 DEF AsksMore
  <2>6. QED
    BY <2>3, <2>5
<1>3. ASSUME NEW f \in ceilings, r[f] # 0, s = [r EXCEPT ![f] = IF Plans!Known(r[f]) THEN r[f] - 1 ELSE RamHigh]
      PROVE  Plans!IsRequest(s) /\ AsksMore(s, r)
  <2> DEFINE x == IF Plans!Known(r[f]) THEN r[f] - 1 ELSE RamHigh
  <2>1. x \in Plans!Amounts /\ Lower(x, r[f])
    <3>1. r[f] \in Plans!Amounts
      BY DEF Plans!IsRequest
    <3>2. QED
      BY <1>3, <3>1, PlanConstants DEF Plans!Amounts, Plans!Known, Lower, Plans!PlanConstants
  <2> HIDE DEF x
  <2>2. s = [r EXCEPT ![f] = x]
    BY <1>3 DEF x
  <2>3. Plans!IsRequest(s)
    BY <2>1, <2>2 DEF Plans!IsRequest
  <2>4. s[f] = x /\ \A e \in DOMAIN r : e # f => s[e] = r[e]
    BY <2>2 DEF Plans!IsRequest
  <2>5. AsksMore(s, r)
    <3>1. DOMAIN r = {"device", "method", "params", "trainable", "bits", "batch", "sequence", "activation", "attention",
                      "accumulation", "runtime", "host", "quantization", "extra", "reserve_ram", "reserve_device",
                      "reserve_disk", "percent", "headroom", "max_memory", "max_device", "max_disk"}
      BY DEF Plans!IsRequest
    <3>2. QED
      BY <1>1, <2>1, <2>4, <3>1 DEF AsksMore
  <2>6. QED
    BY <2>3, <2>5
<1>4. QED
  BY <1>2, <1>3 DEF Plans!Harder

LEMMA LessNeverAdmits ==
  ASSUME NEW h, NEW r, Plans!IsMachine(h), Plans!IsRequest(r)
  PROVE  Plans!NeverAdmittedByLess(h, r)
PROOF
<1>1. SUFFICES ASSUME Plans!ValidHardware(h), Plans!ValidRequest(r), ~Plans!Admits(h, r)
               PROVE  /\ \A g \in Plans!Hidden(h) \union Plans!Fuller(h) : ~Plans!Admits(g, r)
                      /\ \A s \in Plans!Harder(r) : ~Plans!Admits(h, s)
  BY DEF Plans!NeverAdmittedByLess
<1>2. ASSUME NEW g \in Plans!Hidden(h) \union Plans!Fuller(h) PROVE ~Plans!Admits(g, r)
  BY <1>1, HiddenIsPoorer, FullerIsPoorer, SameRequest, Monotony
<1>3. ASSUME NEW s \in Plans!Harder(r) PROVE ~Plans!Admits(h, s)
  BY <1>1, HarderAsksMore, SameMachine, Monotony
<1>4. QED
  BY <1>2, <1>3

-----------------------------------------------------------------------------
(* What is observed of a kernel.                                           *)
Settled(k) == k.membership = "none" \/ (k.membership = "v2" /\ k.standard /\ Plans!Resolved(k.groups))
GroupLimits(k) ==
  IF k.membership = "v2" /\ Settled(k)
  THEN {c \in (DOMAIN k.groups) \X {"max", "high"} : Plans!Number(k.groups[c[1]][c[2]])} ELSE {}
ProcessLimits(k) == IF Plans!Known(k.rlimit) /\ k.rlimit <= MaxBytes THEN {<<0, "rlimit">>} ELSE {}
LimitsOf(k) ==
  [c \in GroupLimits(k) \union ProcessLimits(k) |->
     IF c \in ProcessLimits(k) THEN [limit |-> k.rlimit, used |-> k.virtual]
     ELSE [limit |-> k.groups[c[1]][c[2]], used |-> k.groups[c[1]].usage]]
CardOf(card) ==
  [unified |-> FALSE, total |-> card.total, recommended |-> Unknown,
   available |-> IF Plans!Known(card.total) /\ Plans!Known(card.used) /\ card.used <= card.total
                 THEN card.total - card.used ELSE Unknown]
Memory(k) == IF Plans!Known(k.meminfo) /\ k.meminfo[2] <= k.meminfo[1] /\ k.meminfo[1] <= MaxBytes THEN k.meminfo
             ELSE <<Unknown, Unknown>>

LEMMA ObserveIs ==
  ASSUME NEW k
  PROVE  Plans!Observe(k) =
           [total |-> Memory(k)[1], available |-> IF Settled(k) THEN Memory(k)[2] ELSE Unknown,
            limits |-> LimitsOf(k), disk |-> IF Plans!Bounded(k.disk) THEN k.disk ELSE Unknown, threads |-> k.threads,
            devices |-> [d \in DOMAIN k.cards |-> CardOf(k.cards[d])]]
PROOF
BY DEF Plans!Observe, Memory, Settled, LimitsOf, GroupLimits, ProcessLimits, CardOf

LEMMA KernelIs ==
  ASSUME NEW k, Plans!IsKernel(k)
  PROVE  /\ k.meminfo \in {Unknown} \union (Nat \X Nat) /\ k.groups \in Seq(Plans!Groups)
         /\ k.rlimit \in Plans!Amounts /\ k.virtual \in Plans!Amounts /\ k.disk \in Plans!Amounts /\ k.threads \in Nat
         /\ k.membership \in {"v2", "legacy", "none"}
         /\ \A d \in DOMAIN k.cards : k.cards[d].total \in Plans!Amounts /\ k.cards[d].used \in Plans!Amounts
PROOF
BY DEF Plans!IsKernel

LEMMA GroupLimitIs ==
  ASSUME NEW k, Plans!IsKernel(k), NEW i \in DOMAIN k.groups, NEW x \in {"max", "high"}, <<i, x>> \in GroupLimits(k)
  PROVE  /\ <<i, x>> \in DOMAIN LimitsOf(k)
         /\ LimitsOf(k)[<<i, x>>] = [limit |-> k.groups[i][x], used |-> k.groups[i].usage]
         /\ k.groups[i][x] \in Nat /\ k.groups[i].usage \in Plans!Amounts
PROOF
<1> DEFINE c == <<i, x>>
<1>1. k.groups \in Seq(Plans!Groups) /\ Plans!Number(k.groups[i][x])
  BY KernelIs DEF GroupLimits
<1>2. i \in 1..Len(k.groups) /\ k.groups[i] \in Plans!Groups
  BY <1>1
<1>3. c \notin ProcessLimits(k) /\ c[1] = i /\ c[2] = x
  BY <1>2 DEF ProcessLimits
<1>4. k.groups[i][x] \in Nat /\ k.groups[i].usage \in Plans!Amounts
  BY <1>1, <1>2 DEF Plans!Groups, Plans!Number
<1>5. c \in DOMAIN LimitsOf(k) /\ LimitsOf(k)[c] = [limit |-> k.groups[c[1]][c[2]], used |-> k.groups[c[1]].usage]
  BY <1>3 DEF LimitsOf
<1>6. QED
  BY <1>3, <1>4, <1>5

LEMMA ProcessLimitIs ==
  ASSUME NEW k, Plans!IsKernel(k), NEW c \in ProcessLimits(k)
  PROVE  /\ c \in DOMAIN LimitsOf(k) /\ LimitsOf(k)[c] = [limit |-> k.rlimit, used |-> k.virtual]
         /\ k.rlimit \in Nat /\ k.virtual \in Plans!Amounts
PROOF
<1>1. Plans!Known(k.rlimit)
  BY DEF ProcessLimits
<1>2. k.rlimit \in Nat /\ k.virtual \in Plans!Amounts
  BY <1>1, KernelIs DEF Plans!Amounts, Plans!Known
<1>3. QED
  BY <1>2 DEF LimitsOf

LEMMA LimitsAre ==
  ASSUME NEW k, Plans!IsKernel(k)
  PROVE  LimitsOf(k) \in [DOMAIN LimitsOf(k) -> [limit : Nat, used : Plans!Amounts]]
PROOF
<1>1. ASSUME NEW c \in DOMAIN LimitsOf(k) PROVE LimitsOf(k)[c] \in [limit : Nat, used : Plans!Amounts]
  <2>1. CASE c \in GroupLimits(k)
    <3>1. PICK i \in DOMAIN k.groups, x \in {"max", "high"} : c = <<i, x>>
      BY <2>1 DEF GroupLimits
    <3> DEFINE m == k.groups[i][x]
               n == k.groups[i].usage
    <3>2. LimitsOf(k)[c] = [limit |-> m, used |-> n] /\ m \in Nat /\ n \in Plans!Amounts
      BY <2>1, <3>1, GroupLimitIs
    <3> HIDE DEF m, n
    <3>3. QED
      BY <3>2
  <2>2. CASE c \in ProcessLimits(k)
    <3> DEFINE m == k.rlimit
               n == k.virtual
    <3>1. LimitsOf(k)[c] = [limit |-> m, used |-> n] /\ m \in Nat /\ n \in Plans!Amounts
      BY <2>2, ProcessLimitIs
    <3> HIDE DEF m, n
    <3>2. QED
      BY <3>1
  <2>3. QED
    BY <2>1, <2>2 DEF LimitsOf
<1>2. LimitsOf(k) = [c \in DOMAIN LimitsOf(k) |-> LimitsOf(k)[c]]
  BY DEF LimitsOf
<1>3. QED
  BY <1>1, <1>2

LEMMA CardsAre ==
  ASSUME NEW card, card.total \in Plans!Amounts, card.used \in Plans!Amounts
  PROVE  /\ CardOf(card) \in [unified : BOOLEAN, total : Plans!Amounts, available : Plans!Amounts, recommended : Plans!Amounts]
         /\ Plans!Known(CardOf(card).available) =>
              CardOf(card).available \in Nat /\ card.total \in Nat /\ card.used \in Nat
              /\ CardOf(card).available + card.used = card.total
PROOF
<1>1. CASE Plans!Known(card.total) /\ Plans!Known(card.used) /\ card.used <= card.total
  <2>1. card.total \in Nat /\ card.used \in Nat
    BY <1>1 DEF Plans!Amounts, Plans!Known
  <2> DEFINE x == card.total - card.used
  <2>2. x \in Nat /\ x + card.used = card.total
    BY <1>1, <2>1
  <2> HIDE DEF x
  <2>3. CardOf(card) = [unified |-> FALSE, total |-> card.total, recommended |-> Unknown, available |-> x]
    BY <1>1 DEF CardOf, x
  <2>4. QED
    BY <2>1, <2>2, <2>3 DEF Plans!Amounts
<1>2. CASE ~(Plans!Known(card.total) /\ Plans!Known(card.used) /\ card.used <= card.total)
  <2>1. CardOf(card) = [unified |-> FALSE, total |-> card.total, recommended |-> Unknown, available |-> Unknown]
    BY <1>2 DEF CardOf
  <2>2. QED
    BY <2>1 DEF Plans!Amounts, Plans!Known
<1>3. QED
  BY <1>1, <1>2

LEMMA MemoryIs ==
  ASSUME NEW k, Plans!IsKernel(k)
  PROVE  /\ Memory(k)[1] \in Plans!Amounts /\ Memory(k)[2] \in Plans!Amounts
         /\ Plans!Known(Memory(k)[1]) \/ Plans!Known(Memory(k)[2]) =>
              Plans!Known(k.meminfo) /\ Memory(k) = k.meminfo /\ k.meminfo \in Nat \X Nat
PROOF
<1>1. CASE Plans!Known(k.meminfo) /\ k.meminfo[2] <= k.meminfo[1] /\ k.meminfo[1] <= MaxBytes
  <2>1. k.meminfo \in Nat \X Nat
    BY <1>1, KernelIs DEF Plans!Known
  <2>2. QED
    BY <1>1, <2>1 DEF Memory, Plans!Amounts
<1>2. CASE ~(Plans!Known(k.meminfo) /\ k.meminfo[2] <= k.meminfo[1] /\ k.meminfo[1] <= MaxBytes)
  <2>1. Memory(k) = <<Unknown, Unknown>>
    BY <1>2 DEF Memory
  <2>2. QED
    BY <2>1 DEF Plans!Amounts, Plans!Known
<1>3. QED
  BY <1>1, <1>2

LEMMA ObservedMachine ==
  ASSUME NEW k, Plans!IsKernel(k)
  PROVE  Plans!IsMachine(Plans!Observe(k))
PROOF
<1> DEFINE devices == [d \in DOMAIN k.cards |-> CardOf(k.cards[d])]
           available == IF Settled(k) THEN Memory(k)[2] ELSE Unknown
           disk == IF Plans!Bounded(k.disk) THEN k.disk ELSE Unknown
           h == [total |-> Memory(k)[1], available |-> available, limits |-> LimitsOf(k), disk |-> disk,
                 threads |-> k.threads, devices |-> devices]
<1>1. devices \in [DOMAIN k.cards -> [unified : BOOLEAN, total : Plans!Amounts, available : Plans!Amounts, recommended : Plans!Amounts]]
      /\ DOMAIN devices = DOMAIN k.cards
  BY KernelIs, CardsAre
<1>2. available \in Plans!Amounts /\ disk \in Plans!Amounts /\ Memory(k)[1] \in Plans!Amounts /\ k.threads \in Nat
  BY KernelIs, MemoryIs DEF Plans!Amounts
<1>3. LimitsOf(k) \in [DOMAIN LimitsOf(k) -> [limit : Nat, used : Plans!Amounts]]
  BY LimitsAre
<1>4. Plans!Observe(k) = h
  BY ObserveIs
<1> HIDE DEF devices, available, disk
<1>5. Plans!IsMachine(h)
  BY <1>1, <1>2, <1>3 DEF Plans!IsMachine
<1>6. QED
  BY <1>4, <1>5

(* What is admitted leaves the machine its reserves.                       *)
LEMMA RamLeft ==
  ASSUME NEW h, NEW r, Plans!IsMachine(h), Plans!IsRequest(r), Plans!RamKnown(h, r), NEW n \in Nat, n > 0,
         n <= Plans!RamBudget(h, r)
  PROVE  LET m == n + Plans!Max({RamLow, r.reserve_ram})
         IN /\ m \in Nat /\ m <= h.available /\ h.available \in Nat
            /\ \A c \in DOMAIN h.limits : /\ h.limits[c].used \in Nat /\ Plans!Known(h.limits[c].used)
                                          /\ m + h.limits[c].used <= h.limits[c].limit
PROOF
<1> DEFINE reserve == Plans!Max({RamLow, r.reserve_ram})
           m == n + reserve
           b == Budget(LeastTotal(h), LeastLeft(h), r)
           left(c) == Plans!SatSub(h.limits[c].limit, h.limits[c].used)
<1>1. RamLow \in Nat /\ r.reserve_ram \in Nat /\ r.max_memory \in Plans!Amounts
  BY PlanConstants DEF Plans!PlanConstants, Plans!IsRequest
<1>2. reserve = (IF RamLow >= r.reserve_ram THEN RamLow ELSE r.reserve_ram)
  BY <1>1, Largest
<1>3. reserve \in Nat /\ m \in Nat /\ n < m + 1 /\ m > 0
  BY <1>1, <1>2
<1>4. /\ h.available \in Nat /\ LeastLeft(h) \in Nat /\ LeastLeft(h) <= h.available
      /\ \A c \in DOMAIN h.limits : h.limits[c].used \in Nat /\ left(c) \in Nat /\ LeastLeft(h) <= left(c)
  BY LeftsAre
<1>5. LeastTotal(h) \in Nat
  BY TotalsAre DEF Plans!RamKnown
<1>6. b \in Nat /\ \A i \in Nat : i > 0 /\ i <= b => i + RamLow <= LeastLeft(h) /\ i + r.reserve_ram <= LeastLeft(h)
  <2>1. AsksMore(r, r) /\ LeastLeft(h) <= LeastLeft(h)
    BY <1>4, SameRequest
  <2>2. QED
    BY <1>4, <1>5, <2>1, BudgetIs
<1>7. Plans!RamBudget(h, r) \in Nat /\ Plans!RamBudget(h, r) <= b
  <2>1. Plans!RamBudget(h, r) = Plans!Cap(b, r.max_memory)
    BY RamBudgetIs
  <2> HIDE DEF b
  <2>2. QED
    BY <1>1, <1>6, <2>1, CapLowers
<1> HIDE DEF b
<1>8. m <= LeastLeft(h)
  <2>1. n <= b
    BY <1>6, <1>7
  <2>2. n + RamLow <= LeastLeft(h) /\ n + r.reserve_ram <= LeastLeft(h)
    BY <1>6, <2>1
  <2>3. QED
    BY <1>2, <2>2
<1> HIDE DEF m
<1>9. ASSUME NEW c \in DOMAIN h.limits PROVE m + h.limits[c].used <= h.limits[c].limit /\ Plans!Known(h.limits[c].used)
  <2>1. h.limits[c].limit \in Nat /\ h.limits[c].used \in Nat /\ m <= left(c)
    <3>1. h.limits[c].limit \in Nat
      BY DEF Plans!IsMachine
    <3>2. QED
      BY <1>3, <1>4, <1>8, <3>1
  <2>2. m + h.limits[c].used <= h.limits[c].limit
    BY <1>3, <2>1 DEF Plans!SatSub
  <2>3. QED
    BY <2>1, <2>2, PlanConstants DEF Plans!PlanConstants, Plans!Known
<1>10. m <= h.available
  BY <1>3, <1>4, <1>8
<1>11. QED
  BY <1>3, <1>4, <1>9, <1>10 DEF m

LEMMA DiskLeft ==
  ASSUME NEW h, NEW r, Plans!IsMachine(h), Plans!IsRequest(r), Plans!Known(Plans!DiskBudget(h, r)), NEW n \in Nat, n > 0,
         n <= Plans!DiskBudget(h, r)
  PROVE  Plans!Known(h.disk) /\ h.disk \in Nat /\ n + DiskLow <= h.disk
PROOF
<1>1. Plans!Known(h.disk)
  BY DEF Plans!DiskBudget, Plans!Cap, Plans!Known
<1>2. h.disk \in Nat /\ r.max_disk \in Plans!Amounts /\ DiskLow \in Nat
  BY <1>1, PlanConstants DEF Plans!IsMachine, Plans!IsRequest, Plans!Known, Plans!Amounts, Plans!PlanConstants
<1> DEFINE u == Plans!DiskReserve(h.disk, r)
           x == Plans!SatSub(h.disk, u)
<1>3. u \in Nat /\ DiskLow <= u
  BY <1>2, SameRequest, DiskReservesAre
<1>4. Plans!DiskBudget(h, r) = Plans!Cap(x, r.max_disk)
  BY <1>1 DEF Plans!DiskBudget
<1> HIDE DEF u
<1>5. x \in Nat /\ (n <= x => n + u <= h.disk)
  BY <1>2, <1>3 DEF Plans!SatSub
<1> HIDE DEF x
<1>6. Plans!DiskBudget(h, r) \in Nat /\ Plans!DiskBudget(h, r) <= x
  BY <1>2, <1>4, <1>5, CapLowers
<1>7. n + u <= h.disk
  BY <1>5, <1>6
<1>8. QED
  BY <1>1, <1>2, <1>3, <1>7

LEMMA CardLeaves ==
  ASSUME NEW h, NEW r, Plans!IsMachine(h), Plans!IsRequest(r), Plans!Known(Plans!DeviceBudget(h, r)), NEW n \in Nat, n > 0,
         n <= Plans!DeviceBudget(h, r), ~h.devices[r.device].unified
  PROVE  LET card == h.devices[r.device]
         IN /\ r.device \in DOMAIN h.devices /\ Plans!Known(card.total) /\ Plans!Known(card.available)
            /\ card.total \in Nat /\ card.available \in Nat /\ n + DeviceLow <= card.available
PROOF
<1> DEFINE card == h.devices[r.device]
<1>1. Plans!Found(h, r) /\ CardFound(h, r) /\ Plans!DeviceBudget(h, r) = Plans!Cap(CardLeft(h, r), r.max_device)
  BY DeviceBudgetIs DEF Plans!Known
<1>2. r.device \in DOMAIN h.devices /\ Plans!Known(card.total) /\ Plans!Known(card.available)
  BY <1>1 DEF CardFound, Plans!Found
<1>3. card.total \in Nat /\ card.available \in Nat /\ r.max_device \in Plans!Amounts
  BY <1>2 DEF Plans!IsMachine, Plans!Amounts, Plans!Known, Plans!IsRequest
<1> DEFINE u == Plans!DeviceReserve(card.total, r)
           x == Plans!Min({Plans!SatSub(card.available, u), Plans!SatSub(card.total, u)})
<1>4. CardLeft(h, r) = x
  BY DEF CardLeft, OwnLeft
<1>5. x \in Nat /\ \A i \in Nat : i > 0 /\ i <= x => i + DeviceLow <= card.available
  <2>1. AsksMore(r, r) /\ card.available <= card.available
    BY <1>3, SameRequest
  <2>2. QED
    BY <1>3, <2>1, OwnLefts
<1> HIDE DEF x
<1>6. Plans!DeviceBudget(h, r) \in Nat /\ Plans!DeviceBudget(h, r) <= x
  BY <1>1, <1>3, <1>4, <1>5, CapLowers
<1>7. n <= x
  BY <1>5, <1>6
<1>8. QED
  BY <1>2, <1>3, <1>5, <1>7

LEMMA TrainingTakes ==
  ASSUME NEW r, Plans!IsRequest(r), Plans!ValidRequest(r)
  PROVE  Plans!Training(r) \in Nat /\ Plans!Training(r) > 0 /\ Plans!DiskNeed(r) \in Nat /\ Plans!DiskNeed(r) > 0
PROOF
<1>1. r.runtime >= 1 /\ r.trainable >= 1 /\ r.runtime \in Nat /\ r.trainable \in Nat /\ r.extra \in Nat /\ r.quantization \in Nat
  BY DEF Plans!ValidRequest, Plans!IsRequest
<1> DEFINE ra == r.activation * r.batch * r.sequence
           rb == r.attention * r.batch
<1>2. Plans!Work(r) = Plans!Base(r) + Plans!Master(r) + Plans!Gradients(r) + Plans!Adam(r) + ra + rb + r.runtime + r.quantization
  BY DEF Plans!Work
<1>3. ra \in Nat /\ rb \in Nat /\ Plans!Base(r) \in Nat /\ Plans!Master(r) \in Nat /\ Plans!Gradients(r) \in Nat
      /\ Plans!Adam(r) \in Nat /\ Plans!Work(r) \in Nat
  BY Quantities
<1> HIDE DEF ra, rb
<1>4. Plans!Work(r) > 0
  BY <1>1, <1>2, <1>3
<1>5. Plans!Work(r) <= Plans!Training(r) /\ Plans!Training(r) \in Nat
  BY <1>3, HeadroomGrows DEF Plans!Training
<1>6. Plans!Checkpoint(r) \in Nat /\ Plans!Checkpoint(r) >= 1
  BY <1>1, Checkpoints
<1>7. QED
  BY <1>1, <1>3, <1>4, <1>5, <1>6 DEF Plans!DiskNeed

LEMMA AdmittedFits ==
  ASSUME NEW k, NEW r, Plans!IsKernel(k), Plans!IsRequest(r)
  PROVE  Plans!FitsTheMachine(k, r)
PROOF
<1> DEFINE h == Plans!Observe(k)
           n == Plans!RamNeed(h, r)
           ram == n + Plans!Max({RamLow, r.reserve_ram})
           groups == {g \in Plans!Range(k.groups) : k.membership = "v2"}
           disk == IF Plans!Bounded(k.disk) THEN k.disk ELSE Unknown
<1>1. SUFFICES ASSUME Plans!Admits(h, r)
      PROVE  /\ k.membership # "legacy" /\ Plans!Known(k.meminfo) /\ Plans!Known(k.disk)
             /\ n > 0 =>
                  /\ ram <= k.meminfo[2]
                  /\ \A g \in groups, x \in {"max", "high"} :
                       g[x] \notin {Absent, Unlimited} => Plans!Known(g.usage) /\ ram + g.usage <= g[x]
                  /\ Plans!Known(k.rlimit) /\ k.rlimit <= MaxBytes => Plans!Known(k.virtual) /\ ram + k.virtual <= k.rlimit
             /\ Plans!DiskNeed(r) + DiskLow <= k.disk
             /\ ~Plans!Cpu(r) => k.cards[r.device].used + Plans!Training(r) + DeviceLow <= k.cards[r.device].total
  BY DEF Plans!FitsTheMachine
<1>2. Plans!IsMachine(h)
  BY ObservedMachine
<1>3. /\ Plans!ValidRequest(r)
      /\ Fits(Plans!RamBudget(h, r), n, r.max_memory) /\ Fits(Plans!DiskBudget(h, r), Plans!DiskNeed(r), r.max_disk)
      /\ Plans!Cpu(r) \/ Fits(Plans!DeviceBudget(h, r), Plans!DeviceNeed(h, r), r.max_device)
  BY <1>1, AdmittedWhen
<1>4. /\ h.total = Memory(k)[1] /\ h.available = (IF Settled(k) THEN Memory(k)[2] ELSE Unknown)
      /\ h.limits = LimitsOf(k) /\ h.disk = disk
      /\ h.devices = [d \in DOMAIN k.cards |-> CardOf(k.cards[d])]
  BY ObserveIs
<1>6. AsksMore(r, r) /\ Poorer(h, h)
  BY <1>2, SameRequest, SameMachine
<1> HIDE DEF h
<1>7. Plans!RamKnown(h, r) /\ Plans!RamBudget(h, r) \in Nat /\ n \in Nat /\ n <= Plans!RamBudget(h, r)
  <2>1. Plans!Known(Plans!RamBudget(h, r)) /\ ~(n > Plans!RamBudget(h, r))
    BY <1>3 DEF Fits
  <2>2. Plans!RamKnown(h, r)
    BY <2>1 DEF Plans!RamBudget, Plans!Known
  <2>3. Plans!RamBudget(h, r) \in Nat
    BY <1>2, <1>6, <2>1, RamShrinks
  <2>4. n \in Nat
    BY <1>2, <1>6, NeedsOfMachine
  <2>5. QED
    BY <2>1, <2>2, <2>3, <2>4
<1>8. Settled(k) /\ Plans!Known(k.meminfo) /\ Memory(k) = k.meminfo /\ k.meminfo \in Nat \X Nat /\ h.available = k.meminfo[2]
  <2>1. Plans!Known(h.total) /\ Plans!Known(h.available)
    BY <1>7 DEF Plans!RamKnown
  <2>2. Settled(k) /\ Plans!Known(Memory(k)[1])
    BY <1>4, <2>1 DEF Plans!Known
  <2>3. QED
    BY <1>4, <2>2, MemoryIs
<1>9. k.membership # "legacy"
  BY <1>8 DEF Settled
<1>10. ASSUME n > 0
       PROVE  /\ ram <= k.meminfo[2]
              /\ \A g \in groups, x \in {"max", "high"} :
                   g[x] \notin {Absent, Unlimited} => Plans!Known(g.usage) /\ ram + g.usage <= g[x]
              /\ Plans!Known(k.rlimit) /\ k.rlimit <= MaxBytes => Plans!Known(k.virtual) /\ ram + k.virtual <= k.rlimit
  <2> HIDE DEF n
  <2>1. /\ ram <= h.available
        /\ \A c \in DOMAIN h.limits : Plans!Known(h.limits[c].used) /\ ram + h.limits[c].used <= h.limits[c].limit
    BY <1>2, <1>7, <1>10, RamLeft
  <2> HIDE DEF ram
  <2>2. ASSUME NEW g \in groups, NEW x \in {"max", "high"}, g[x] \notin {Absent, Unlimited}
        PROVE  Plans!Known(g.usage) /\ ram + g.usage <= g[x]
    <3>1. PICK i \in DOMAIN k.groups : g = k.groups[i]
      BY DEF Plans!Range
    <3>2. k.membership = "v2" /\ Plans!Resolved(k.groups)
      BY <1>8 DEF Settled
    <3>3. g[x] # Word
      BY <3>1, <3>2 DEF Plans!Resolved, Plans!Readable
    <3>4. <<i, x>> \in GroupLimits(k)
      <4>1. Plans!Number(k.groups[i][x])
        BY <2>2, <3>1, <3>3 DEF Plans!Number
      <4>2. QED
        BY <1>8, <3>2, <4>1 DEF GroupLimits
    <3> DEFINE c == <<i, x>>
    <3>5. c \in DOMAIN LimitsOf(k) /\ LimitsOf(k)[c] = [limit |-> k.groups[i][x], used |-> k.groups[i].usage]
      BY <3>4, GroupLimitIs
    <3> HIDE DEF c
    <3>6. c \in DOMAIN h.limits /\ h.limits[c].limit = g[x] /\ h.limits[c].used = g.usage
      BY <1>4, <3>1, <3>5
    <3>7. QED
      BY <2>1, <3>6
  <2>3. ASSUME Plans!Known(k.rlimit), k.rlimit <= MaxBytes
        PROVE  Plans!Known(k.virtual) /\ ram + k.virtual <= k.rlimit
    <3> DEFINE c == <<0, "rlimit">>
    <3>1. c \in ProcessLimits(k)
      BY <2>3 DEF ProcessLimits
    <3>2. c \in DOMAIN h.limits /\ h.limits[c] = [limit |-> k.rlimit, used |-> k.virtual]
      BY <1>4, <3>1, ProcessLimitIs
    <3> HIDE DEF c
    <3>3. h.limits[c].limit = k.rlimit /\ h.limits[c].used = k.virtual
      BY <3>2
    <3>4. QED
      BY <2>1, <3>2, <3>3
  <2>4. QED
    BY <1>8, <2>1, <2>2, <2>3
<1>11. Plans!Known(k.disk) /\ Plans!DiskNeed(r) + DiskLow <= k.disk
  <2> DEFINE m == Plans!DiskNeed(r)
  <2>1. m \in Nat /\ m > 0
    BY <1>3, TrainingTakes
  <2>2. Plans!Known(Plans!DiskBudget(h, r)) /\ ~(m > Plans!DiskBudget(h, r))
    BY <1>3 DEF Fits
  <2>3. Plans!DiskBudget(h, r) \in Nat
    BY <1>2, <1>6, <2>2, DiskShrinks
  <2> HIDE DEF m
  <2>4. Plans!Known(h.disk) /\ m + DiskLow <= h.disk
    BY <1>2, <2>1, <2>2, <2>3, DiskLeft
  <2>5. h.disk = k.disk
    BY <1>4, <2>4 DEF Plans!Known
  <2>6. QED
    BY <2>4, <2>5 DEF m
<1>12. ASSUME ~Plans!Cpu(r)
       PROVE  k.cards[r.device].used + Plans!Training(r) + DeviceLow <= k.cards[r.device].total
  <2> DEFINE m == Plans!DeviceNeed(h, r)
             d == r.device
             card == k.cards[d]
  <2>1. Plans!Known(Plans!DeviceBudget(h, r)) /\ ~(m > Plans!DeviceBudget(h, r))
    BY <1>3, <1>12 DEF Fits
  <2>2. Plans!Found(h, r) /\ Plans!DeviceBudget(h, r) \in Nat
    BY <1>2, <1>6, <2>1, DeviceShrinks
  <2>3. d \in DOMAIN k.cards /\ h.devices[d] = CardOf(card)
    BY <1>4, <2>2 DEF Plans!Found
  <2>4. ~h.devices[d].unified
    BY <2>3 DEF CardOf
  <2>5. m = Plans!Training(r) /\ m \in Nat /\ m > 0
    BY <1>3, <2>4, TrainingTakes DEF Plans!DeviceNeed, Plans!Unified
  <2> HIDE DEF m
  <2>6. Plans!Known(h.devices[d].available) /\ m + DeviceLow <= h.devices[d].available
    BY <1>2, <2>1, <2>2, <2>4, <2>5, CardLeaves
  <2>7. CardOf(card).available \in Nat /\ card.total \in Nat /\ card.used \in Nat /\ CardOf(card).available + card.used = card.total
    BY <2>3, <2>6, KernelIs, CardsAre
  <2>8. DeviceLow \in Nat
    BY PlanConstants DEF Plans!PlanConstants
  <2>9. QED
    BY <2>3, <2>5, <2>6, <2>7, <2>8
<1>13. QED
  BY <1>8, <1>9, <1>10, <1>11, <1>12

-----------------------------------------------------------------------------
(* What is kept of a plan.                                                 *)
Whole(h, r) ==
  [f \in {"hardware", "plan", "request", "receipt"} |->
     IF f = "hardware" THEN h ELSE IF f = "plan" THEN Plans!Report(h, r) ELSE IF f = "request" THEN r
     ELSE Plans!Sealed(h, Plans!Report(h, r), r)]

LEMMA WholeIs ==
  ASSUME NEW h, NEW r
  PROVE  Plans!Written(h, r, 4) = Whole(h, r)
PROOF
<1>1. {Plans!Order[i] : i \in 1..4} = {"hardware", "plan", "request", "receipt"}
  <2>1. 1..4 = {1, 2, 3, 4}
    OBVIOUS
  <2>2. Plans!Order[1] = "hardware" /\ Plans!Order[2] = "plan" /\ Plans!Order[3] = "request" /\ Plans!Order[4] = "receipt"
    BY DEF Plans!Order
  <2>3. QED
    BY <2>1, <2>2
<1>2. QED
  BY <1>1 DEF Plans!Written, Whole

LEMMA PartIs ==
  ASSUME NEW h, NEW r, NEW n \in 0..3
  PROVE  ~Plans!VerifyBundle(Plans!Written(h, r, n), {})
PROOF
<1>1. DOMAIN Plans!Written(h, r, n) = {Plans!Order[i] : i \in 1..n}
  BY DEF Plans!Written
<1>2. \A i \in 1..3 : Plans!Order[i] # "receipt"
  <2>1. Plans!Order[1] = "hardware" /\ Plans!Order[2] = "plan" /\ Plans!Order[3] = "request"
    BY DEF Plans!Order
  <2>2. 1..3 = {1, 2, 3}
    OBVIOUS
  <2>3. QED
    BY <2>1, <2>2
<1>3. "receipt" \notin DOMAIN Plans!Written(h, r, n)
  BY <1>1, <1>2
<1>4. QED
  BY <1>3 DEF Plans!VerifyBundle

LEMMA WholeVerifies ==
  ASSUME NEW h, NEW r, Plans!Plan(h, r) # "error"
  PROVE  LET w == Whole(h, r) IN Plans!VerifyBundle(w, {}) /\ Plans!VerifyBundle(w, {w.receipt})
PROOF
<1> DEFINE w == Whole(h, r)
           report == Plans!Report(h, r)
<1>1. /\ DOMAIN w = {"hardware", "plan", "request", "receipt"}
      /\ w.hardware = h /\ w.plan = report /\ w.request = r /\ w.receipt = Plans!Sealed(h, report, r)
  BY DEF Whole
<1>2. report.hardware = h /\ report.request = r /\ report.decision = Plans!Plan(h, r)
  BY DEF Plans!Report
<1>3. w.receipt.files = <<h, report, r>> /\ w.receipt.decision = report.decision
  BY <1>1 DEF Plans!Sealed
<1> HIDE DEF w, report
<1>4. Plans!Reconstructed(w)
  BY <1>1, <1>2, <1>3 DEF Plans!Reconstructed, report
<1>5. Plans!VerifyBundle(w, {}) /\ Plans!VerifyBundle(w, {w.receipt})
  BY <1>1, <1>3, <1>4 DEF Plans!VerifyBundle
<1>6. QED
  BY <1>5 DEF w

(* A bundle that verifies holds the plan, and is the whole one if it has   *)
(* its receipt.                                                            *)
LEMMA VerifiedHolds ==
  ASSUME NEW h, NEW r, NEW b, b = [x \in DOMAIN Whole(h, r) |-> b[x]], Plans!VerifyBundle(b, {})
  PROVE  /\ b.plan.decision = Plans!Plan(b.hardware, b.request)
         /\ b # Whole(h, r) => ~Plans!VerifyBundle(b, {Whole(h, r).receipt})
PROOF
<1> DEFINE w == Whole(h, r)
           report == Plans!Report(h, r)
<1>1. b.plan.decision = Plans!Plan(b.hardware, b.request)
  <2>1. b.plan = Plans!Report(b.plan.hardware, b.plan.request) /\ b.plan.hardware = b.hardware /\ b.plan.request = b.request
    BY DEF Plans!VerifyBundle, Plans!Reconstructed
  <2>2. Plans!Report(b.plan.hardware, b.plan.request).decision = Plans!Plan(b.plan.hardware, b.plan.request)
    BY DEF Plans!Report
  <2>3. QED
    BY <2>1, <2>2
<1>2. ASSUME Plans!VerifyBundle(b, {w.receipt}) PROVE b = w
  <2>1. b.receipt = w.receipt /\ b.receipt.files = <<b.hardware, b.plan, b.request>>
    BY <1>2 DEF Plans!VerifyBundle
  <2>2. /\ w = [x \in {"hardware", "plan", "request", "receipt"} |-> w[x]] /\ DOMAIN w = {"hardware", "plan", "request", "receipt"}
        /\ w.hardware = h /\ w.plan = report /\ w.request = r /\ w.receipt = Plans!Sealed(h, report, r)
    BY DEF Whole
  <2>3. w.receipt.files = <<h, report, r>>
    BY <2>2 DEF Plans!Sealed
  <2> HIDE DEF w, report
  <2>4. b.hardware = h /\ b.plan = report /\ b.request = r
    BY <2>1, <2>3
  <2>5. \A x \in DOMAIN w : b[x] = w[x]
    BY <2>1, <2>2, <2>4
  <2>6. QED
    BY <2>2, <2>5 DEF w
<1>3. QED
  BY <1>1, <1>2

LEMMA BundlesArePlans ==
  ASSUME NEW h, NEW r, NEW n \in 0..4, NEW other
  PROVE  Plans!BundleIsThePlan(h, r, n, other)
PROOF
<1> DEFINE whole == Plans!Written(h, r, 4)
           names == {"hardware", "plan", "request", "receipt"}
           forged == Plans!Forged(h, r, other)
           resealed == Plans!Resealed(forged)
<1>1. SUFFICES ASSUME Plans!Plan(h, r) # "error"
      PROVE  /\ Plans!VerifyBundle(Plans!Written(h, r, n), {}) <=> n = 4
             /\ n = 4 =>
                  /\ Plans!VerifyBundle(whole, {whole.receipt})
                  /\ \A b \in forged \union resealed :
                       Plans!VerifyBundle(b, {}) => b.plan.decision = Plans!Plan(b.hardware, b.request)
                                              /\ (b # whole => ~Plans!VerifyBundle(b, {whole.receipt}))
  BY DEF Plans!BundleIsThePlan
<1>2. whole = Whole(h, r) /\ DOMAIN Whole(h, r) = names
  BY WholeIs DEF Whole
<1>3. Plans!VerifyBundle(Plans!Written(h, r, n), {}) <=> n = 4
  <2>1. CASE n = 4
    BY <1>1, <1>2, <2>1, WholeVerifies
  <2>2. CASE n \in 0..3
    BY <2>2, PartIs
  <2>3. QED
    BY <2>1, <2>2
<1>4. Plans!VerifyBundle(whole, {whole.receipt})
  BY <1>1, <1>2, WholeVerifies
<1>5. \A b \in forged : b = [x \in names |-> b[x]] /\ DOMAIN b = names
  BY DEF Plans!Forged
<1> HIDE DEF forged, whole
<1>6. \A b \in resealed : b = [x \in names |-> b[x]]
  BY <1>5 DEF Plans!Resealed
<1> HIDE DEF resealed
<1>7. ASSUME NEW b \in forged \union resealed, Plans!VerifyBundle(b, {})
      PROVE  b.plan.decision = Plans!Plan(b.hardware, b.request) /\ (b # whole => ~Plans!VerifyBundle(b, {whole.receipt}))
  <2>1. b = [x \in DOMAIN Whole(h, r) |-> b[x]]
    BY <1>2, <1>5, <1>6
  <2>2. QED
    BY <1>2, <1>7, <2>1, VerifiedHolds
<1>8. QED
  BY <1>3, <1>4, <1>7

-----------------------------------------------------------------------------
(* A machine of which a part is another.                                   *)
LEMMA SharedMachine ==
  ASSUME NEW h, Plans!IsMachine(h)
  PROVE  Plans!IsMachine(Shared(h))
PROOF
<1> DEFINE half == IF Plans!Known(h.total) THEN h.total \div 2 ELSE Unknown
           unified == [unified |-> TRUE, total |-> h.total, available |-> h.available, recommended |-> half]
           devices == [d \in DOMAIN h.devices |-> unified]
<1>1. half \in Plans!Amounts
  BY DEF Plans!IsMachine, Plans!Known, Plans!Amounts
<1> HIDE DEF half
<1>2. h.total \in Plans!Amounts /\ h.available \in Plans!Amounts
  BY DEF Plans!IsMachine
<1>3. unified \in [unified : BOOLEAN, total : Plans!Amounts, available : Plans!Amounts, recommended : Plans!Amounts]
  BY <1>1, <1>2
<1> HIDE DEF unified
<1>4. devices \in [DOMAIN h.devices -> [unified : BOOLEAN, total : Plans!Amounts, available : Plans!Amounts, recommended : Plans!Amounts]]
      /\ DOMAIN devices = DOMAIN h.devices
  BY <1>3
<1> HIDE DEF devices
<1>5. Plans!IsMachine([h EXCEPT !.devices = devices])
  BY <1>4 DEF Plans!IsMachine
<1>6. Shared(h) = [h EXCEPT !.devices = devices]
  BY DEF Shared, devices, unified, half
<1>7. QED
  BY <1>5, <1>6

LEMMA PlansAreOf == MCSpec => [](what = "plan" => kernel \in Seen /\ asked \in Asked)
PROOF
<1>1. MCInit => (what = "plan" => kernel \in Seen /\ asked \in Asked)
  BY DEF MCInit
<1>2. (what = "plan" => kernel \in Seen /\ asked \in Asked) /\ [MCNext]_all
        => (what = "plan" => kernel \in Seen /\ asked \in Asked)'
  BY DEF MCNext, Batch, Compiled, Planned, planned, all
<1>3. QED
  BY <1>1, <1>2, PTL DEF MCSpec

(* A plan of resources is admitted only if it fits into what the kernel    *)
(* leaves, and then of every machine on which more is known or free and    *)
(* for every request that asks for less; and a bundle verifies exactly     *)
(* when all of its files are written, with the plan for its machine and    *)
(* request in it.  For any kernel, any request and any bounds (ram_budget, *)
(* cgroup_limits, plan, save_bundle, verify_bundle).                       *)
THEOREM PlansAreAdmitted == MCSpec => Admitted
PROOF
<1>1. (what = "plan" => kernel \in Seen /\ asked \in Asked) /\ [MCNext]_all =>
        [what = "plan" =>
           LET h == Plans!Observe(kernel)
           IN /\ stage = 0 => /\ Plans!FitsTheMachine(kernel, asked)
                              /\ \A g \in {h, Shared(h)} : Plans!NeverAdmittedByLess(g, asked)
              /\ Plans!BundleIsThePlan(h, asked, stage' - 1, Shared(h))]_all
  <2> DEFINE h == Plans!Observe(kernel)
  <2>1. SUFFICES ASSUME what = "plan", kernel \in Seen, asked \in Asked, MCNext
        PROVE  /\ Plans!FitsTheMachine(kernel, asked)
               /\ \A g \in {h, Shared(h)} : Plans!NeverAdmittedByLess(g, asked)
               /\ Plans!BundleIsThePlan(h, asked, stage' - 1, Shared(h))
    OBVIOUS
  <2>2. Plans!IsKernel(kernel) /\ Plans!IsRequest(asked)
    BY <2>1, PlanConstants
  <2>3. Plans!FitsTheMachine(kernel, asked)
    BY <2>2, AdmittedFits
  <2>4. \A g \in {h, Shared(h)} : Plans!NeverAdmittedByLess(g, asked)
    BY <2>2, ObservedMachine, SharedMachine, LessNeverAdmits
  <2>5. stage' - 1 \in 0..4
    BY <2>1 DEF MCNext, Batch, Compiled, Planned, Decide, Save
  <2>6. Plans!BundleIsThePlan(h, asked, stage' - 1, Shared(h))
    BY <2>5, BundlesArePlans
  <2>7. QED
    BY <2>3, <2>4, <2>6
<1>2. QED
  BY <1>1, PlansAreOf, PTL DEF MCSpec, Admitted
=============================================================================

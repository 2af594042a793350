--------------------- MODULE TimestreamExporterProofs ----------------------
(***************************************************************************)
(* Theorems about the Timestream exporter, for every set of requests with  *)
(* their metrics, every set of legal characters, every size of a batch and *)
(* every number of attempts.                                               *)
(*                                                                         *)
(* Two facts carry the proofs: the batches together hold every record but  *)
(* the last one of each that is full (BatchesTogether, by arithmetic and   *)
(* because a record says which point it is of), and the loop has handed    *)
(* over the batches below i, which are stored unless one failed (LoopInv). *)
(***************************************************************************)
EXTENDS TimestreamExporter, RecursionTheorems

USE DEF MayRetry, BatchErrors, Following, AfterLoop

\* The records of the first i batches of a request.
Handed(r, i) == UNION {ToSet(Batch(r, j)) : j \in 0 .. i - 1}

\* A request that waits was never pushed.  The loop has handed over the batches below
\* its index, and when it is left, all; they are stored unless batchErrors has an entry.
LoopInv ==
  \A r \in Request :
    /\ pushes[r].pc = "waiting" => pushes[r].attempt = 0
    /\ pushes[r].pc = "writing" =>
         pushes[r].i <= NumBatches(r) /\ called[r] = Handed(r, pushes[r].i)
    /\ pushes[r].pc = "returned" => called[r] = Handed(r, NumBatches(r))
    /\ pushes[r].pc # "waiting" /\ ~pushes[r].failed => called[r] \subseteq Written(r)
----------------------------------------------------------------------------
(* Sequences.                                                              *)

\* What the assumption says of a sequence.
LEMMA SequenceFacts ==
  ASSUME NEW s, IsSequence(s)
  PROVE  s \in Seq(ToSet(s)) /\ Len(s) \in Nat /\ DOMAIN s = 1 .. Len(s)
BY LenProperties DEF IsSequence

\* A function on the indices of a sequence is a sequence of the same length.
LEMMA MapIsSequence ==
  ASSUME NEW s, IsSequence(s), NEW S, NEW f \in [DOMAIN s -> S]
  PROVE  f \in Seq(S) /\ Len(f) = Len(s) /\ DOMAIN f = DOMAIN s
<1>1. DOMAIN s = 1 .. Len(s) /\ Len(s) \in Nat
  BY SequenceFacts
<1>2. f \in [1 .. Len(s) -> S]
  BY <1>1
<1>3. f \in Seq(S)
  BY <1>1, <1>2, SeqDef
<1>4. DOMAIN f = 1 .. Len(f) /\ Len(f) \in Nat
  BY <1>3, LenProperties
<1>5. DOMAIN f = 1 .. Len(s)
  BY <1>2
<1>6. Len(f) = Len(s)
  BY <1>1, <1>4, <1>5
<1>7. QED
  BY <1>1, <1>3, <1>5, <1>6

\* The elements of a sequence over S are in S.
LEMMA ToSetOfSeq ==
  ASSUME NEW S, NEW s \in Seq(S)
  PROVE  /\ \A x : x \in ToSet(s) <=> \E k \in 1 .. Len(s) : x = s[k]
         /\ \A x \in ToSet(s) : x \in S
BY LenProperties, ElementOfSeq DEF ToSet

\* A singleton and the empty sequence.
LEMMA OneOrNone ==
  ASSUME NEW S, NEW x \in S
  PROVE  /\ <<x>> \in Seq(S) /\ <<>> \in Seq(S)
         /\ DOMAIN <<x>> = {1} /\ <<x>>[1] = x
         /\ DOMAIN <<>> = {}
OBVIOUS
----------------------------------------------------------------------------
(* The records of a request: one for a point, which it says.               *)

\* The records of the points of a metric.
RecordsAt(metrics, m) == {Record(metrics, m, l) : l \in DOMAIN metrics[m].points}

\* A record was converted from the point it names.
LEMMA RecordSaysPoint ==
  ASSUME NEW metrics, NEW m, NEW l, NEW n, NEW k, Record(metrics, m, l) = Record(metrics, n, k)
  PROVE  m = n /\ l = k
<1>1. Record(metrics, m, l).point = <<m, l>> /\ Record(metrics, n, k).point = <<n, k>>
  BY DEF Record
<1>2. <<m, l>> = <<n, k>>
  BY <1>1
<1>3. QED
  BY <1>2

\* The records of a metric are of its points, each of another one.
LEMMA RecordsOfMetric ==
  ASSUME NEW metrics, NEW m, IsSequence(metrics[m].points)
  PROVE  RecordsOf(metrics, m) \in Seq(RecordsAt(metrics, m)) /\ Distinct(RecordsOf(metrics, m))
<1> DEFINE S == RecordsAt(metrics, m)
           points == metrics[m].points
           record(l) == IF points[l].value \in {"int", "double"} THEN <<Record(metrics, m, l)>> ELSE <<>>
           pieces == [l \in DOMAIN points |-> record(l)]
<1>1. \A l \in DOMAIN points : Record(metrics, m, l) \in S
  BY DEF RecordsAt
<1>2. ASSUME NEW l \in DOMAIN points
      PROVE  /\ record(l) \in Seq(S)
             /\ \A k \in DOMAIN record(l) : k = 1 /\ record(l)[k] = Record(metrics, m, l)
  <2> DEFINE x == Record(metrics, m, l)
  <2>1. x \in S
    BY <1>1
  <2> HIDE DEF S, x
  <2>2. <<x>> \in Seq(S) /\ <<>> \in Seq(S) /\ DOMAIN <<x>> = {1} /\ <<x>>[1] = x /\ DOMAIN <<>> = {}
    BY <2>1, OneOrNone
  <2>3. record(l) = <<x>> \/ record(l) = <<>>
    BY DEF x
  <2> HIDE DEF record
  <2>4. QED
    BY <2>2, <2>3 DEF x
<1> HIDE DEF S, record
<1>3. pieces \in Seq(Seq(S)) /\ DOMAIN pieces = DOMAIN points
  <2>1. pieces \in [DOMAIN points -> Seq(S)]
    BY <1>2
  <2> HIDE DEF pieces
  <2>2. QED
    BY <2>1, MapIsSequence
<1>4. DistinctThrough(pieces)
  <2> SUFFICES ASSUME NEW i \in DOMAIN points, NEW j \in DOMAIN points,
                      NEW k \in DOMAIN record(i), NEW l \in DOMAIN record(j),
                      record(i)[k] = record(j)[l]
               PROVE  i = j /\ k = l
    BY DEF DistinctThrough
  <2>1. k = 1 /\ l = 1 /\ Record(metrics, m, i) = Record(metrics, m, j)
    BY <1>2
  <2>2. QED
    BY <2>1, RecordSaysPoint
<1>5. RecordsOf(metrics, m) = FlattenSeq(pieces) \/ RecordsOf(metrics, m) = <<>>
  BY DEF RecordsOf, record
<1>6. FlattenSeq(pieces) \in Seq(S) /\ Distinct(FlattenSeq(pieces))
  <2> HIDE DEF pieces
  <2>1. QED
    BY <1>3, <1>4, FlattenSeqType, FlattenSeqDistinct
<1>7. <<>> \in Seq(S) /\ Distinct(<<>>)
  BY EmptySeq DEF Distinct
<1>8. QED
  BY <1>5, <1>6, <1>7 DEF S

\* The records of a request.
RecordsIn(r) == UNION {RecordsAt(MetricsOf[r], m) : m \in DOMAIN MetricsOf[r]}

\* The records of a request are of its points, each of another one.
LEMMA RecordsOfARequest ==
  ASSUME NEW r \in Request
  PROVE  /\ Records(r) \in Seq(RecordsIn(r)) /\ Distinct(Records(r))
         /\ Len(Records(r)) \in Nat /\ DOMAIN Records(r) = 1 .. Len(Records(r))
<1> DEFINE metrics == MetricsOf[r]
           S == RecordsIn(r)
           pieces == [m \in DOMAIN metrics |-> RecordsOf(metrics, m)]
<1>1. IsSequence(metrics) /\ \A m \in DOMAIN metrics : IsSequence(metrics[m].points)
  BY TimestreamAssumption DEF IsMetric
<1>2. ASSUME NEW m \in DOMAIN metrics
      PROVE  /\ RecordsOf(metrics, m) \in Seq(S) /\ Distinct(RecordsOf(metrics, m))
             /\ \A k \in DOMAIN RecordsOf(metrics, m) :
                  \E l \in DOMAIN metrics[m].points : RecordsOf(metrics, m)[k] = Record(metrics, m, l)
  <2> DEFINE q == RecordsOf(metrics, m)
             A == RecordsAt(metrics, m)
  <2>1. q \in Seq(A) /\ Distinct(q)
    BY <1>1, RecordsOfMetric
  <2>2. A \subseteq S
    BY DEF RecordsIn
  <2>3. \A k \in DOMAIN q : q[k] \in A
    <3> HIDE DEF q, A
    <3>1. QED
      BY <2>1, LenProperties, ElementOfSeq
  <2>4. q \in Seq(S)
    <3> HIDE DEF q, A, S
    <3>1. QED
      BY <2>1, <2>2, SeqMonotonic
  <2>5. \A k \in DOMAIN q : \E l \in DOMAIN metrics[m].points : q[k] = Record(metrics, m, l)
    <3> HIDE DEF q
    <3>1. QED
      BY <2>3 DEF RecordsAt
  <2>6. QED
    BY <2>1, <2>4, <2>5
<1> HIDE DEF S, metrics
<1>3. pieces \in Seq(Seq(S)) /\ DOMAIN pieces = DOMAIN metrics
  <2>1. pieces \in [DOMAIN metrics -> Seq(S)]
    BY <1>2
  <2> HIDE DEF pieces
  <2>2. QED
    BY <1>1, <2>1, MapIsSequence
<1>4. DistinctThrough(pieces)
  <2> SUFFICES ASSUME NEW m \in DOMAIN metrics, NEW n \in DOMAIN metrics,
                      NEW k \in DOMAIN RecordsOf(metrics, m), NEW l \in DOMAIN RecordsOf(metrics, n),
                      RecordsOf(metrics, m)[k] = RecordsOf(metrics, n)[l]
               PROVE  m = n /\ k = l
    BY DEF DistinctThrough
  <2>1. m = n
    <3>1. PICK i \in DOMAIN metrics[m].points : RecordsOf(metrics, m)[k] = Record(metrics, m, i)
      BY <1>2
    <3>2. PICK j \in DOMAIN metrics[n].points : RecordsOf(metrics, n)[l] = Record(metrics, n, j)
      BY <1>2
    <3>3. Record(metrics, m, i) = Record(metrics, n, j)
      BY <3>1, <3>2
    <3>4. QED
      BY <3>3, RecordSaysPoint
  <2>2. k = l
    BY <1>2, <2>1 DEF Distinct
  <2>3. QED
    BY <2>1, <2>2
<1>5. Records(r) = FlattenSeq(pieces)
  BY DEF Records, RecordsOfRequest, Convert, metrics
<1>6. FlattenSeq(pieces) \in Seq(S) /\ Distinct(FlattenSeq(pieces))
  <2> HIDE DEF pieces
  <2>1. QED
    BY <1>3, <1>4, FlattenSeqType, FlattenSeqDistinct
<1>7. Records(r) \in Seq(S) /\ Distinct(Records(r))
  BY <1>5, <1>6
<1>8. Len(Records(r)) \in Nat /\ DOMAIN Records(r) = 1 .. Len(Records(r))
  BY <1>7, LenProperties
<1>9. QED
  BY <1>7, <1>8 DEF S
----------------------------------------------------------------------------
(* The batches.                                                            *)

\* Division by the size of a batch, and the other way round.
LEMMA Quotient ==
  ASSUME NEW a \in Nat, NEW b \in Nat, b > 0
  PROVE  /\ a \div b \in Nat /\ a % b \in 0 .. b - 1
         /\ (a \div b) * b <= a /\ a < (a \div b) * b + b
         /\ a = (a \div b) * b + (a % b)
<1>1. a \div b \in Nat
  OBVIOUS
<1>2. a % b \in 0 .. b - 1
  OBVIOUS
<1>3. (a \div b) * b <= a
  OBVIOUS
<1>4. a < (a \div b) * b + b
  OBVIOUS
<1>5. a = (a \div b) * b + (a % b)
  OBVIOUS
<1>6. QED
  BY <1>1, <1>2, <1>3, <1>4, <1>5, Zenon

\* What is left of a division.
LEMMA Remainder ==
  ASSUME NEW a \in Nat, NEW b \in Nat, b > 0, NEW q \in Nat, NEW m \in Nat, m < b, a = b * q + m
  PROVE  a % b = m
OBVIOUS

\* Multiples keep their order.
LEMMA Multiples ==
  ASSUME NEW b \in Nat, b > 0, NEW i \in Nat, NEW n \in Nat
  PROVE  /\ i * b \in Nat /\ (i + 1) * b = i * b + b
         /\ i * b < n * b => i < n
         /\ i < n => i * b + b <= n * b
OBVIOUS

\* The number of batches of b for n records is what it takes to hold them.
LEMMA NumberOfBatches ==
  ASSUME NEW n \in Nat, NEW b \in Nat, b > 0
  PROVE  /\ (n + b - 1) \div b \in Nat
         /\ \A i \in Nat : i < (n + b - 1) \div b <=> i * b < n
<1> DEFINE a == n + b - 1
           q == a \div b
<1>1. a \in Nat
  OBVIOUS
<1>2. q \in Nat /\ q * b <= a /\ a < q * b + b
  <2> HIDE DEF a
  <2>1. QED
    BY <1>1, Quotient
<1> HIDE DEF q
<1>3. q * b < n + b /\ n < q * b + 1
  <2>1. q * b \in Nat
    BY <1>2, Multiples
  <2>2. QED
    BY <1>2, <2>1
<1>4. ASSUME NEW i \in Nat PROVE i < q <=> i * b < n
  <2>1. i * b \in Nat /\ q * b \in Nat /\ (i < q => i * b + b <= q * b) /\ (i * b < q * b => i < q)
    BY <1>2, Multiples
  <2>2. ASSUME i < q PROVE i * b < n
    BY <1>3, <2>1, <2>2
  <2>3. ASSUME i * b < n PROVE i < q
    BY <1>3, <2>1, <2>3
  <2>4. QED
    BY <2>2, <2>3
<1>5. QED
  BY <1>2, <1>4 DEF q, a

\* The bounds of a batch of the loop.
LEMMA BatchBounds ==
  ASSUME NEW r \in Request, NEW i \in Nat, i < NumBatches(r)
  PROVE  /\ BatchStart(i) \in Nat /\ BatchEnd(r, i) \in Nat
         /\ BatchStart(i) < Len(Records(r))
         /\ BatchStart(i) <= BatchEnd(r, i) /\ BatchEnd(r, i) <= Len(Records(r))
         /\ BatchEnd(r, i) < BatchStart(i) + BatchSize
         /\ BatchSize # 1 => BatchStart(i) < BatchEnd(r, i)
<1> DEFINE n == Len(Records(r))
           start == BatchStart(i)
<1>1. n \in Nat /\ BatchSize \in Nat /\ BatchSize > 0
  BY RecordsOfARequest, TimestreamAssumption
<1>2. start \in Nat
  BY <1>1, Multiples DEF BatchStart
<1>3. start < n
  BY <1>1, NumberOfBatches DEF NumBatches, BatchStart
<1> HIDE DEF n, start
<1>4. BatchEnd(r, i) = IF start + BatchSize - 1 > n THEN n ELSE start + BatchSize - 1
  BY DEF BatchEnd, n, start
<1>5. QED
  BY <1>1, <1>2, <1>3, <1>4 DEF n, start

\* The records of a batch by their indices.
LEMMA RecordsOfBatch ==
  ASSUME NEW r \in Request, NEW i \in Nat, i < NumBatches(r)
  PROVE  /\ ToSet(Batch(r, i)) = {Records(r)[n] : n \in BatchStart(i) + 1 .. BatchEnd(r, i)}
         /\ BatchStart(i) + 1 .. BatchEnd(r, i) \subseteq 1 .. Len(Records(r))
         /\ Len(Batch(r, i)) < BatchSize
<1> DEFINE start == BatchStart(i)
           end == BatchEnd(r, i)
           S == RecordsIn(r)
           q == Records(r)
           b == SubSeq(q, start + 1, end)
<1>1. /\ start \in Nat /\ end \in Nat /\ start <= end /\ end <= Len(q)
      /\ end < start + BatchSize /\ Len(q) \in Nat
      /\ BatchSize \in Nat
  BY BatchBounds, RecordsOfARequest, TimestreamAssumption
<1>2. q \in Seq(S)
  BY RecordsOfARequest
<1>3. b = Batch(r, i)
  BY DEF Batch
<1> HIDE DEF start, end, S, q, b
<1>4. start + 1 .. end \subseteq 1 .. Len(q)
  BY <1>1
<1>5. \A n \in start + 1 .. end : q[n] \in S
  BY <1>2, <1>4, ElementOfSeq
<1>6. /\ b \in Seq(S)
      /\ Len(b) = IF start + 1 <= end THEN end - (start + 1) + 1 ELSE 0
      /\ \A k \in 1 .. end - (start + 1) + 1 : b[k] = q[(start + 1) + k - 1]
  <2>1. start + 1 \in Int /\ end \in Int
    BY <1>1
  <2>2. QED
    BY <1>5, <2>1, SubSeqProperties DEF b
<1>7. Len(b) = end - start
  BY <1>1, <1>6
<1>8. ToSet(b) = {b[k] : k \in 1 .. end - start}
  BY <1>6, <1>7, LenProperties DEF ToSet
<1>9. \A k \in 1 .. end - start : start + k \in start + 1 .. end /\ b[k] = q[start + k]
  <2>1. \A k \in 1 .. end - start : /\ start + k \in start + 1 .. end
                                    /\ k \in 1 .. end - (start + 1) + 1
                                    /\ (start + 1) + k - 1 = start + k
    BY <1>1
  <2>2. QED
    BY <1>6, <2>1
<1>10. \A n \in start + 1 .. end : n - start \in 1 .. end - start /\ n = start + (n - start)
  BY <1>1
<1>11. ToSet(b) = {q[n] : n \in start + 1 .. end}
  <2>1. ASSUME NEW n \in start + 1 .. end PROVE q[n] = b[n - start] /\ n - start \in 1 .. end - start
    BY <1>9, <1>10
  <2>2. QED
    BY <1>8, <1>9, <2>1
<1>12. Len(b) < BatchSize
  BY <1>1, <1>7
<1>13. QED
  BY <1>3, <1>4, <1>11, <1>12 DEF start, end, q

\* The indices in the batches are those that are not a multiple of batchSize.
LEMMA IndicesOfBatches ==
  ASSUME NEW r \in Request, NEW n \in 1 .. Len(Records(r))
  PROVE  (\E i \in 0 .. NumBatches(r) - 1 : n \in BatchStart(i) + 1 .. BatchEnd(r, i))
           <=> n % BatchSize # 0
<1> DEFINE b == BatchSize
           len == Len(Records(r))
           num == NumBatches(r)
<1>1. len \in Nat /\ b \in Nat /\ b > 0 /\ n \in Nat /\ n > 0 /\ n <= len
  BY RecordsOfARequest, TimestreamAssumption
<1>2. num \in Nat /\ \A i \in Nat : i < num <=> i * b < len
  BY <1>1, NumberOfBatches DEF NumBatches
<1>3. ASSUME NEW i \in 0 .. num - 1, n \in BatchStart(i) + 1 .. BatchEnd(r, i)
      PROVE  n % b # 0
  <2> DEFINE start == BatchStart(i)
             m == n - start
  <2>1. i \in Nat /\ i < num
    BY <1>2
  <2>2. start \in Nat /\ BatchEnd(r, i) \in Nat /\ BatchEnd(r, i) < start + b
    BY <2>1, BatchBounds
  <2>3. m \in Nat /\ m # 0 /\ m < b
    BY <1>1, <1>3, <2>2
  <2>4. n = b * i + m
    <3>1. start = b * i
      BY <1>1, <2>1 DEF BatchStart
    <3>2. QED
      BY <1>1, <2>2, <3>1
  <2> HIDE DEF m, b
  <2>5. n % b = m
    BY <1>1, <2>1, <2>3, <2>4, Remainder
  <2>6. QED
    BY <2>3, <2>5
<1>4. ASSUME n % b # 0
      PROVE  \E i \in 0 .. num - 1 : n \in BatchStart(i) + 1 .. BatchEnd(r, i)
  <2> DEFINE i == n \div b
             m == n % b
             start == i * b
  <2>1. i \in Nat /\ m \in 0 .. b - 1 /\ n = start + m
    BY <1>1, Quotient
  <2>2. m # 0
    BY <1>4
  <2> HIDE DEF i, m
  <2>3. start \in Nat
    BY <1>1, <2>1, Multiples
  <2>4. start < len
    <3> HIDE DEF start
    <3>1. QED
      BY <1>1, <2>1, <2>2, <2>3
  <2>5. i \in 0 .. num - 1
    BY <1>2, <2>1, <2>4
  <2>6. BatchStart(i) = start /\ BatchEnd(r, i) = IF start + b - 1 > len THEN len ELSE start + b - 1
    BY DEF BatchStart, BatchEnd
  <2> HIDE DEF start, b, len
  <2>7. n \in start + 1 .. (IF start + b - 1 > len THEN len ELSE start + b - 1)
    BY <1>1, <2>1, <2>2, <2>3
  <2>8. QED
    BY <2>5, <2>6, <2>7
<1>5. QED
  BY <1>3, <1>4

\* The batches together: every record but the last one of each full batch, and that
\* one in no batch.
THEOREM BatchesTogether ==
  \A r \in Request : Handed(r, NumBatches(r)) = ToSet(Records(r)) \ LeftOut(r)
<1> SUFFICES ASSUME NEW r \in Request
             PROVE  Handed(r, NumBatches(r)) = ToSet(Records(r)) \ LeftOut(r)
  OBVIOUS
<1> DEFINE q == Records(r)
           num == NumBatches(r)
           Indices(i) == BatchStart(i) + 1 .. BatchEnd(r, i)
<1>1. DOMAIN q = 1 .. Len(q) /\ Len(q) \in Nat /\ Distinct(q)
  BY RecordsOfARequest
<1>2. num \in Nat
  BY RecordsOfARequest, TimestreamAssumption, NumberOfBatches DEF NumBatches
<1>3. ASSUME NEW i \in 0 .. num - 1
      PROVE  ToSet(Batch(r, i)) = {q[n] : n \in Indices(i)} /\ Indices(i) \subseteq DOMAIN q
  <2>1. i \in Nat /\ i < num
    BY <1>2
  <2>2. QED
    BY <1>1, <2>1, RecordsOfBatch
<1>4. ASSUME NEW n \in DOMAIN q
      PROVE  (\E i \in 0 .. num - 1 : n \in Indices(i)) <=> n % BatchSize # 0
  BY <1>1, IndicesOfBatches
<1>5. ToSet(q) = {q[n] : n \in DOMAIN q} /\ LeftOut(r) = {q[n] : n \in {m \in DOMAIN q : m % BatchSize = 0}}
  BY DEF ToSet, LeftOut
<1> HIDE DEF Indices, q
<1>6. ASSUME NEW x \in Handed(r, num) PROVE x \in ToSet(q) \ LeftOut(r)
  <2>1. PICK i \in 0 .. num - 1 : x \in ToSet(Batch(r, i))
    BY DEF Handed
  <2>2. PICK n \in Indices(i) : x = q[n]
    BY <1>3, <2>1
  <2>3. n \in DOMAIN q /\ n % BatchSize # 0
    BY <1>3, <1>4, <2>2
  <2>4. x \notin LeftOut(r)
    <3> SUFFICES ASSUME NEW m \in DOMAIN q, m % BatchSize = 0, x = q[m] PROVE FALSE
      BY <1>5
    <3>1. m = n
      BY <1>1, <2>2, <2>3 DEF Distinct
    <3>2. QED
      BY <2>3, <3>1
  <2>5. QED
    BY <1>5, <2>2, <2>3, <2>4
<1>7. ASSUME NEW x \in ToSet(q) \ LeftOut(r) PROVE x \in Handed(r, num)
  <2>1. PICK n \in DOMAIN q : x = q[n]
    BY <1>5
  <2>2. n % BatchSize # 0
    BY <1>5, <2>1
  <2>3. PICK i \in 0 .. num - 1 : n \in Indices(i)
    BY <1>4, <2>2
  <2>4. x \in ToSet(Batch(r, i))
    BY <1>3, <2>1, <2>3
  <2>5. QED
    BY <2>4 DEF Handed
<1>8. QED
  BY <1>6, <1>7 DEF q

\* The next batch is handed over after the ones before it.
LEMMA HandedNext ==
  ASSUME NEW r, NEW i \in Nat
  PROVE  /\ Handed(r, 0) = {}
         /\ Handed(r, i + 1) = Handed(r, i) \cup ToSet(Batch(r, i))
<1>1. Handed(r, 0) = {}
  <2>1. \A j \in 0 .. 0 - 1 : FALSE
    OBVIOUS
  <2>2. QED
    BY <2>1 DEF Handed
<1>2. 0 .. (i + 1) - 1 = 0 .. i - 1 \cup {i}
  OBVIOUS
<1>3. Handed(r, i + 1) = Handed(r, i) \cup ToSet(Batch(r, i))
  BY <1>2 DEF Handed
<1>4. QED
  BY <1>1, <1>3

\* Records of a batch are records of the request.
LEMMA BatchOfRecords ==
  ASSUME NEW r \in Request, NEW i \in Nat, i < NumBatches(r)
  PROVE  ToSet(Batch(r, i)) \subseteq ToSet(Records(r))
<1> DEFINE q == Records(r)
<1>1. /\ ToSet(Batch(r, i)) = {q[n] : n \in BatchStart(i) + 1 .. BatchEnd(r, i)}
      /\ BatchStart(i) + 1 .. BatchEnd(r, i) \subseteq 1 .. Len(q)
  BY RecordsOfBatch
<1>2. DOMAIN q = 1 .. Len(q)
  BY RecordsOfARequest
<1> HIDE DEF q
<1>3. QED
  BY <1>1, <1>2 DEF ToSet, q
----------------------------------------------------------------------------
(* The steps of pushMetrics.                                               *)

PushRecord == [pc : {"waiting", "writing", "returned"},
               attempt : 0..MaxAttempts, i : Nat, failed : BOOLEAN]

\* The state of a call and its history are as TypeOK says.
LEMMA CallTypes ==
  ASSUME TypeOK, NEW r \in Request
  PROVE  /\ pushes[r] \in PushRecord
         /\ called[r] \subseteq UNION {ToSet(Records(s)) : s \in Request}
BY DEF TypeOK, PushRecord

\* No call has begun.
LEMMA InitInv == ASSUME Init PROVE TypeOK /\ LoopInv
<1>1. MaxAttempts \in Nat /\ 0 \in 0 .. MaxAttempts
  BY TimestreamAssumption
<1>2. TypeOK
  BY <1>1 DEF Init, NotPushed, TypeOK
<1>3. LoopInv
  BY DEF Init, NotPushed, LoopInv
<1>4. QED
  BY <1>2, <1>3

\* A call converts its request and begins the loop.
LEMMA PushMetricsInv ==
  ASSUME TypeOK, LoopInv, NEW r \in Request, PushMetrics(r)
  PROVE  TypeOK' /\ LoopInv'
<1>1. CASE Panics(MetricsOf[r])
  BY <1>1 DEF PushMetrics, TypeOK, LoopInv, Written, Handed
<1>2. CASE ~Panics(MetricsOf[r])
  <2> DEFINE new == [pc |-> "writing", attempt |-> pushes[r].attempt + 1, i |-> 0, failed |-> FALSE]
  <2>1. /\ pushes' = [pushes EXCEPT ![r] = new]
        /\ called' = [called EXCEPT ![r] = {}]
        /\ UNCHANGED <<stored, panicked>>
    BY <1>2 DEF PushMetrics
  <2>2. pushes \in [Request -> PushRecord] /\ called \in [Request -> SUBSET UNION {ToSet(Records(s)) : s \in Request}]
    BY DEF TypeOK, PushRecord
  <2>3. pushes[r].attempt + 1 \in 0 .. MaxAttempts
    <3>1. pushes[r].attempt \in 0 .. MaxAttempts /\ MaxAttempts \in Nat \ {0}
      BY <2>2, TimestreamAssumption DEF PushRecord
    <3>2. pushes[r].attempt < MaxAttempts
      BY <3>1 DEF PushMetrics, LoopInv
    <3>3. QED
      BY <3>1, <3>2
  <2>4. new \in PushRecord
    BY <2>3 DEF PushRecord
  <2>5. TypeOK'
    BY <2>1, <2>2, <2>4 DEF TypeOK, PushRecord
  <2>6. \A s \in Request \ {r} : pushes'[s] = pushes[s] /\ called'[s] = called[s]
    BY <2>1, <2>2
  <2>7. pushes'[r] = new /\ called'[r] = {}
    BY <2>1, <2>2
  <2>8. NumBatches(r) \in Nat /\ Handed(r, 0) = {}
    BY RecordsOfARequest, TimestreamAssumption, NumberOfBatches, HandedNext DEF NumBatches
  <2>9. LoopInv'
    <3> SUFFICES ASSUME NEW s \in Request
                 PROVE  /\ pushes'[s].pc = "waiting" => pushes'[s].attempt = 0
                        /\ pushes'[s].pc = "writing" =>
                             pushes'[s].i <= NumBatches(s) /\ called'[s] = Handed(s, pushes'[s].i)
                        /\ pushes'[s].pc = "returned" => called'[s] = Handed(s, NumBatches(s))
                        /\ pushes'[s].pc # "waiting" /\ ~pushes'[s].failed => called'[s] \subseteq Written(s)'
      BY DEF LoopInv, Handed
    <3>1. CASE s = r
      <4>1. /\ pushes'[s].pc = "writing" /\ pushes'[s].i = 0 /\ called'[s] = {}
            /\ Handed(s, 0) = {} /\ NumBatches(s) \in Nat
        BY <2>7, <2>8, <3>1
      <4>2. pushes'[s].i <= NumBatches(s)
        BY <4>1
      <4>3. QED
        BY <4>1, <4>2
    <3>2. CASE s # r
      BY <2>1, <2>6, <3>2 DEF LoopInv, Written
    <3>3. QED
      BY <3>1, <3>2
  <2>10. QED
    BY <2>5, <2>9
<1>3. QED
  BY <1>1, <1>2

\* What a turn of the loop changes.
LEMMA WriteRecordsEffect ==
  ASSUME TypeOK, NEW r \in Request, NEW ok \in BOOLEAN,
         NEW written \in SUBSET ToSet(Batch(r, pushes[r].i)), WriteRecords(r, ok, written)
  PROVE  /\ pushes[r].pc = "writing" /\ pushes[r].i \in Nat /\ pushes[r].i < NumBatches(r)
         /\ pushes' \in [Request -> PushRecord]
         /\ pushes'[r].pc = "writing" /\ pushes'[r].i = pushes[r].i + 1
         /\ pushes'[r].failed = (pushes[r].failed \/ ~ok)
         /\ called'[r] = called[r] \cup ToSet(Batch(r, pushes[r].i))
         /\ \A s \in Request \ {r} : pushes'[s] = pushes[s] /\ called'[s] = called[s]
         /\ called' \in [Request -> SUBSET UNION {ToSet(Records(s)) : s \in Request}]
         /\ stored' = stored \cup ({r} \X written)
         /\ ok => written = ToSet(Batch(r, pushes[r].i))
         /\ UNCHANGED panicked
<1> DEFINE push == pushes[r]
           new == [push EXCEPT !.i = push.i + 1, !.failed = push.failed \/ ~ok]
           batch == ToSet(Batch(r, push.i))
           Given == SUBSET UNION {ToSet(Records(s)) : s \in Request}
<1>1. pushes \in [Request -> PushRecord] /\ push \in PushRecord /\ called \in [Request -> Given]
  BY DEF TypeOK, PushRecord
<1>2. push.i \in Nat /\ push.i + 1 \in Nat /\ (push.failed \/ ~ok) \in BOOLEAN
  BY <1>1 DEF PushRecord
<1>3. push.pc = "writing" /\ push.i < NumBatches(r)
  BY DEF WriteRecords
<1>4. new \in PushRecord /\ new.pc = "writing" /\ new.i = push.i + 1 /\ new.failed = (push.failed \/ ~ok)
  BY <1>1, <1>2, <1>3 DEF PushRecord
<1>5. pushes' = [pushes EXCEPT ![r] = new]
  BY <1>1 DEF WriteRecords, PushRecord
<1>6. called' = [called EXCEPT ![r] = called[r] \cup batch]
  BY DEF WriteRecords
<1>7. called[r] \cup batch \in Given
  BY <1>1, <1>2, <1>3, BatchOfRecords
<1>8. stored' = stored \cup ({r} \X written) /\ UNCHANGED panicked /\ (ok => written = batch)
  BY DEF WriteRecords
<1> HIDE DEF new, batch, Given
<1>9. /\ pushes' \in [Request -> PushRecord] /\ pushes'[r] = new
      /\ called' \in [Request -> Given] /\ called'[r] = called[r] \cup batch
      /\ \A s \in Request \ {r} : pushes'[s] = pushes[s] /\ called'[s] = called[s]
  BY <1>1, <1>4, <1>5, <1>6, <1>7
<1>10. QED
  BY <1>2, <1>3, <1>4, <1>8, <1>9 DEF batch, Given

\* A batch is written, or fails.
LEMMA WriteRecordsInv ==
  ASSUME TypeOK, LoopInv, NEW r \in Request, NEW ok \in BOOLEAN,
         NEW written \in SUBSET ToSet(Batch(r, pushes[r].i)), WriteRecords(r, ok, written)
  PROVE  TypeOK' /\ LoopInv'
<1> DEFINE push == pushes[r]
           batch == ToSet(Batch(r, push.i))
<1>1. /\ push.pc = "writing" /\ push.i \in Nat /\ push.i < NumBatches(r)
      /\ pushes' \in [Request -> PushRecord]
      /\ pushes'[r].pc = "writing" /\ pushes'[r].i = push.i + 1
      /\ pushes'[r].failed = (push.failed \/ ~ok)
      /\ called'[r] = called[r] \cup batch
      /\ \A s \in Request \ {r} : pushes'[s] = pushes[s] /\ called'[s] = called[s]
      /\ called' \in [Request -> SUBSET UNION {ToSet(Records(s)) : s \in Request}]
      /\ stored' = stored \cup ({r} \X written)
      /\ ok => written = batch
      /\ UNCHANGED panicked
  BY WriteRecordsEffect
<1>2. batch \subseteq ToSet(Records(r)) /\ written \subseteq batch
  BY <1>1, BatchOfRecords
<1>3. TypeOK'
  <2>1. \A p \in stored' : p[1] \in Request /\ p[2] \in ToSet(Records(p[1]))
    <3> SUFFICES ASSUME NEW p \in stored' PROVE p[1] \in Request /\ p[2] \in ToSet(Records(p[1]))
      OBVIOUS
    <3>1. CASE p \in stored
      BY <3>1 DEF TypeOK
    <3>2. CASE p \in {r} \X written
      BY <1>2, <3>2
    <3>3. QED
      BY <1>1, <3>1, <3>2
  <2>2. panicked' \in BOOLEAN
    BY <1>1 DEF TypeOK
  <2>3. QED
    BY <1>1, <2>1, <2>2 DEF TypeOK, PushRecord
<1>4. \A s \in Request : Written(s) \subseteq Written(s)'
  BY <1>1 DEF Written
<1>5. ok => batch \subseteq Written(r)'
  <2> SUFFICES ASSUME ok, NEW x \in batch PROVE x \in Written(r)'
    OBVIOUS
  <2> DEFINE p == <<r, x>>
  <2>1. p \in stored' /\ p[1] = r /\ p[2] = x
    BY <1>1
  <2> HIDE DEF p
  <2>2. QED
    BY <2>1 DEF Written
<1>6. NumBatches(r) \in Nat /\ push.i + 1 <= NumBatches(r) /\ Handed(r, push.i + 1) = Handed(r, push.i) \cup batch
  <2>1. NumBatches(r) \in Nat
    BY RecordsOfARequest, TimestreamAssumption, NumberOfBatches DEF NumBatches
  <2>2. push.i + 1 <= NumBatches(r)
    BY <1>1, <2>1
  <2>3. QED
    BY <1>1, <2>1, <2>2, HandedNext
<1>7. LoopInv'
  <2> SUFFICES ASSUME NEW s \in Request
               PROVE  /\ pushes'[s].pc = "waiting" => pushes'[s].attempt = 0
                      /\ pushes'[s].pc = "writing" =>
                           pushes'[s].i <= NumBatches(s) /\ called'[s] = Handed(s, pushes'[s].i)
                      /\ pushes'[s].pc = "returned" => called'[s] = Handed(s, NumBatches(s))
                      /\ pushes'[s].pc # "waiting" /\ ~pushes'[s].failed => called'[s] \subseteq Written(s)'
    BY DEF LoopInv, Handed
  <2> HIDE DEF batch
  <2>1. CASE s = r
    <3>1. called[r] = Handed(r, push.i) /\ (~push.failed => called[r] \subseteq Written(r))
      BY <1>1 DEF LoopInv
    <3>2. called'[r] = Handed(r, push.i + 1)
      BY <1>1, <1>6, <3>1
    <3>3. ~pushes'[r].failed => called'[r] \subseteq Written(r)'
      BY <1>1, <1>4, <1>5, <3>1
    <3>4. QED
      BY <1>1, <1>6, <2>1, <3>2, <3>3
  <2>2. CASE s # r
    <3>1. pushes'[s] = pushes[s] /\ called'[s] = called[s] /\ Written(s) \subseteq Written(s)'
      BY <1>1, <1>4, <2>2
    <3>2. QED
      BY <3>1 DEF LoopInv
  <2>3. QED
    BY <2>1, <2>2
<1>8. QED
  BY <1>3, <1>7

\* A call returns nil or the error it remembered.
LEMMA PushReturnsInv ==
  ASSUME TypeOK, LoopInv, NEW r \in Request, PushReturns(r)
  PROVE  TypeOK' /\ LoopInv'
<1> DEFINE push == pushes[r]
           new == [push EXCEPT !.pc = "returned"]
<1>1. pushes \in [Request -> PushRecord] /\ push \in PushRecord
  BY DEF TypeOK, PushRecord
<1>2. pushes' = [pushes EXCEPT ![r] = new] /\ UNCHANGED <<stored, called, panicked>>
  BY DEF PushReturns
<1>3. new \in PushRecord /\ new.pc = "returned" /\ new.failed = push.failed
  BY <1>1 DEF PushRecord
<1>4. push.pc = "writing" /\ push.i = NumBatches(r)
  <2>1. NumBatches(r) \in Nat /\ push.i \in Nat
    <3>1. NumBatches(r) \in Nat
      BY RecordsOfARequest, TimestreamAssumption, NumberOfBatches DEF NumBatches
    <3>2. QED
      BY <1>1, <3>1 DEF PushRecord
  <2>2. push.pc = "writing" /\ push.i >= NumBatches(r)
    BY DEF PushReturns
  <2>3. push.i <= NumBatches(r)
    BY <2>2 DEF LoopInv
  <2>4. QED
    BY <2>1, <2>2, <2>3
<1>5. called[r] = Handed(r, NumBatches(r)) /\ (~push.failed => called[r] \subseteq Written(r))
  BY <1>4 DEF LoopInv
<1> HIDE DEF new
<1>6. pushes' \in [Request -> PushRecord] /\ pushes'[r] = new /\ \A s \in Request \ {r} : pushes'[s] = pushes[s]
  BY <1>1, <1>2, <1>3
<1>7. TypeOK'
  BY <1>2, <1>6 DEF TypeOK, PushRecord
<1>8. LoopInv'
  <2> SUFFICES ASSUME NEW s \in Request
               PROVE  /\ pushes'[s].pc = "waiting" => pushes'[s].attempt = 0
                      /\ pushes'[s].pc = "writing" =>
                           pushes'[s].i <= NumBatches(s) /\ called'[s] = Handed(s, pushes'[s].i)
                      /\ pushes'[s].pc = "returned" => called'[s] = Handed(s, NumBatches(s))
                      /\ pushes'[s].pc # "waiting" /\ ~pushes'[s].failed => called'[s] \subseteq Written(s)'
    BY DEF LoopInv, Handed
  <2>1. called' = called /\ Written(s)' = Written(s)
    BY <1>2 DEF Written
  <2>2. CASE s = r
    BY <1>3, <1>5, <1>6, <2>1, <2>2
  <2>3. CASE s # r
    BY <1>6, <2>1, <2>3 DEF LoopInv
  <2>4. QED
    BY <2>2, <2>3
<1>9. QED
  BY <1>7, <1>8

\* Every step keeps the types and the invariant of the loop.
LEMMA NextInv == ASSUME TypeOK, LoopInv, [Next]_vars PROVE TypeOK' /\ LoopInv'
<1>1. ASSUME NEW r \in Request, Work(r) PROVE TypeOK' /\ LoopInv'
  <2>1. CASE PushMetrics(r)
    BY <2>1, PushMetricsInv
  <2>2. ASSUME NEW ok \in BOOLEAN, NEW written \in SUBSET ToSet(Batch(r, pushes[r].i)),
               WriteRecords(r, ok, written)
        PROVE  TypeOK' /\ LoopInv'
    BY <2>2, WriteRecordsInv
  <2>3. CASE PushReturns(r)
    BY <2>3, PushReturnsInv
  <2>4. QED
    BY <1>1, <2>1, <2>2, <2>3 DEF Work
<1>2. CASE Quiet \/ UNCHANGED vars
  <2>1. UNCHANGED <<pushes, stored, called, panicked>>
    BY <1>2 DEF Quiet, vars
  <2>2. QED
    BY <2>1 DEF TypeOK, LoopInv, Written, Handed
<1>3. QED
  BY <1>1, <1>2 DEF Next

\* The invariant of the loop.
LEMMA SpecInv == Spec => [](TypeOK /\ LoopInv)
<1>1. Init => TypeOK /\ LoopInv
  BY InitInv
<1>2. (TypeOK /\ LoopInv) /\ [Next]_vars => (TypeOK /\ LoopInv)'
  BY NextInv
<1>3. QED
  BY <1>1, <1>2, PTL DEF Spec
----------------------------------------------------------------------------
(* The properties of the loop.                                             *)

\* A call is where the code has it, its attempts are within MaxAttempts, and every
\* record at Timestream was converted from its request, whatever the answers.
THEOREM TimestreamTypeCorrect == Spec => []TypeOK
BY SpecInv, PTL

\* When pushMetrics returns nil, no batch failed: every record but the last of each
\* full batch is at Timestream, in whatever order batches failed and succeeded before.
THEOREM AckedRecordsWritten == Spec => []AckedWasWrittenButLeftOut
<1>1. ASSUME TypeOK, LoopInv PROVE AckedWasWrittenButLeftOut
  <2> SUFFICES ASSUME NEW r \in Request, Acked(r)
               PROVE  ToSet(Records(r)) \ LeftOut(r) \subseteq Written(r)
    BY DEF AckedWasWrittenButLeftOut
  <2>1. called[r] = Handed(r, NumBatches(r)) /\ called[r] \subseteq Written(r)
    BY <1>1 DEF LoopInv, Acked
  <2>2. QED
    BY <2>1, BatchesTogether
<1>2. QED
  BY <1>1, SpecInv, PTL

\* A failed batch does not keep the later ones from being written.
THEOREM FailuresDoNotStop == Spec => []EveryBatchTried
<1>1. ASSUME TypeOK, LoopInv PROVE EveryBatchTried
  <2> SUFFICES ASSUME NEW r \in Request, pushes[r].pc = "returned"
               PROVE  ToSet(Records(r)) \ LeftOut(r) = called[r]
    BY DEF EveryBatchTried
  <2>1. called[r] = Handed(r, NumBatches(r))
    BY <1>1 DEF LoopInv
  <2>2. QED
    BY <2>1, BatchesTogether
<1>2. QED
  BY <1>1, SpecInv, PTL

\* Every batch of the loop is a slice within the records, not empty and no longer than
\* batchSize, unless that is one (100 in the code).
THEOREM BatchesAreSlices ==
  ASSUME BatchSize # 1
  PROVE  Spec => []BatchesInBounds
<1>1. ASSUME TypeOK, LoopInv PROVE BatchesInBounds
  <2> SUFFICES ASSUME NEW r \in Request, pushes[r].pc = "writing",
                      NEW i \in pushes[r].i .. NumBatches(r) - 1
               PROVE  /\ BatchStart(i) < BatchEnd(r, i)
                      /\ BatchEnd(r, i) <= Len(Records(r))
                      /\ Len(Batch(r, i)) <= BatchSize
    BY DEF BatchesInBounds
  <2>1. NumBatches(r) \in Nat
    BY RecordsOfARequest, TimestreamAssumption, NumberOfBatches DEF NumBatches
  <2>2. pushes[r].i \in Nat
    BY <1>1, CallTypes DEF PushRecord
  <2>3. i \in Nat /\ i < NumBatches(r)
    BY <2>1, <2>2
  <2>4. /\ BatchStart(i) < BatchEnd(r, i)
        /\ BatchEnd(r, i) <= Len(Records(r))
    BY <2>3, BatchBounds
  <2>5. Len(Batch(r, i)) < BatchSize
    BY <2>3, RecordsOfBatch
  <2>6. Len(Batch(r, i)) \in Nat /\ BatchSize \in Nat
    <3> DEFINE q == Records(r)
               S == RecordsIn(r)
    <3>1. /\ BatchStart(i) \in Nat /\ BatchEnd(r, i) \in Nat
          /\ BatchStart(i) + 1 .. BatchEnd(r, i) \subseteq 1 .. Len(q) /\ q \in Seq(S)
      BY <2>3, BatchBounds, RecordsOfBatch, RecordsOfARequest
    <3> HIDE DEF q, S
    <3>2. \A n \in BatchStart(i) + 1 .. BatchEnd(r, i) : q[n] \in S
      BY <3>1, ElementOfSeq
    <3>3. BatchStart(i) + 1 \in Int /\ BatchEnd(r, i) \in Int
      BY <3>1
    <3>4. SubSeq(q, BatchStart(i) + 1, BatchEnd(r, i)) \in Seq(S)
      BY <3>2, <3>3, SubSeqProperties
    <3>5. Len(SubSeq(q, BatchStart(i) + 1, BatchEnd(r, i))) \in Nat
      BY <3>4, LenProperties
    <3>6. QED
      BY <3>5, TimestreamAssumption DEF Batch, q
  <2>7. QED
    BY <2>4, <2>5, <2>6
<1>2. QED
  BY <1>1, SpecInv, PTL
----------------------------------------------------------------------------
(* The dimensions of a record.                                             *)

\* A name or a value in legal characters.
LEMMA LegalCharacters ==
  ASSUME NEW s, IsSequence(s)
  PROVE  /\ IsSequence(removeIllegalChars(s)) /\ Len(removeIllegalChars(s)) = Len(s)
         /\ \A k \in DOMAIN s : removeIllegalChars(s)[k] = s[k] \/ s[k] \notin Legal
         /\ ToSet(removeIllegalChars(s)) \subseteq Legal \cup {"-"}
         /\ removeIllegalChars(s) # <<>> <=> Len(s) > 0
<1> DEFINE f == removeIllegalChars(s)
           S == ToSet(f)
<1>1. f = [k \in DOMAIN s |-> IF s[k] \in Legal THEN s[k] ELSE "-"]
  BY DEF removeIllegalChars
<1>2. /\ \A k \in DOMAIN s : f[k] = s[k] \/ s[k] \notin Legal
      /\ S \subseteq Legal \cup {"-"}
  BY <1>1 DEF ToSet
<1>3. f \in [DOMAIN s -> S]
  BY <1>1 DEF ToSet
<1> HIDE DEF f, S
<1>4. f \in Seq(S) /\ Len(f) = Len(s)
  BY <1>3, MapIsSequence
<1>5. f # <<>> <=> Len(s) > 0
  <2>1. Len(f) \in Nat
    BY <1>4, LenProperties
  <2>2. QED
    BY <1>4, <2>1, EmptySeq
<1>6. QED
  BY <1>2, <1>4, <1>5 DEF f, S, IsSequence

\* An attribute that has a name and a value, and what becomes of it.
Given(a) == Len(a[1]) > 0 /\ Len(a[2]) > 0
Dimension(a) == <<removeIllegalChars(a[1]), removeIllegalChars(a[2])>>

\* The dimensions are those of the attributes that have a name and a value.
LEMMA DimensionsOfAttributes ==
  ASSUME NEW attributes, IsAttributes(attributes)
  PROVE  \A d : d \in ToSet(convertAttrsToDimensions(attributes)) <=>
                  \E k \in DOMAIN attributes : Given(attributes[k]) /\ d = Dimension(attributes[k])
<1> DEFINE S == {Dimension(attributes[k]) : k \in DOMAIN attributes}
           toDimension(a) == IF removeIllegalChars(a[1]) # <<>> /\ removeIllegalChars(a[2]) # <<>>
                             THEN << <<removeIllegalChars(a[1]), removeIllegalChars(a[2])>> >>
                             ELSE <<>>
           piece(a) == IF Given(a) THEN <<Dimension(a)>> ELSE <<>>
           pieces == [k \in DOMAIN attributes |-> piece(attributes[k])]
           all == convertAttrsToDimensions(attributes)
<1>1. ASSUME NEW k \in DOMAIN attributes
      PROVE  toDimension(attributes[k]) = piece(attributes[k])
  <2>1. IsSequence(attributes[k][1]) /\ IsSequence(attributes[k][2])
    BY DEF IsAttributes
  <2>2. Given(attributes[k]) <=> /\ removeIllegalChars(attributes[k][1]) # <<>>
                                 /\ removeIllegalChars(attributes[k][2]) # <<>>
    BY <2>1, LegalCharacters DEF Given
  <2>3. QED
    BY <2>2 DEF Dimension
<1>2. all = FlattenSeq(pieces)
  <2>1. all = FlattenSeq([k \in DOMAIN attributes |-> toDimension(attributes[k])])
    BY DEF convertAttrsToDimensions
  <2>2. [k \in DOMAIN attributes |-> toDimension(attributes[k])] = pieces
    <3> HIDE DEF toDimension, piece
    <3>1. QED
      BY <1>1
  <2>3. QED
    BY <2>1, <2>2
<1>3. ASSUME NEW k \in DOMAIN attributes
      PROVE  /\ piece(attributes[k]) \in Seq(S)
             /\ \A d : Has(piece(attributes[k]), d) <=> Given(attributes[k]) /\ d = Dimension(attributes[k])
  <2> DEFINE x == Dimension(attributes[k])
  <2>1. x \in S
    OBVIOUS
  <2> HIDE DEF S, x
  <2>2. <<x>> \in Seq(S) /\ <<>> \in Seq(S) /\ DOMAIN <<x>> = {1} /\ <<x>>[1] = x /\ DOMAIN <<>> = {}
    BY <2>1, OneOrNone
  <2>3. CASE Given(attributes[k])
    BY <2>2, <2>3 DEF Has, x
  <2>4. CASE ~Given(attributes[k])
    BY <2>2, <2>4 DEF Has
  <2>5. QED
    BY <2>3, <2>4
<1> HIDE DEF S, piece, all
<1>4. pieces \in Seq(Seq(S)) /\ DOMAIN pieces = DOMAIN attributes
  <2>1. pieces \in [DOMAIN attributes -> Seq(S)]
    BY <1>3
  <2>2. IsSequence(attributes)
    BY DEF IsAttributes
  <2> HIDE DEF pieces
  <2>3. QED
    BY <2>1, <2>2, MapIsSequence
<1> SUFFICES ASSUME NEW d
             PROVE  d \in ToSet(all) <=>
                      \E k \in DOMAIN attributes : Given(attributes[k]) /\ d = Dimension(attributes[k])
  BY DEF all
<1>5. d \in ToSet(all) <=> Has(all, d)
  BY DEF ToSet, Has
<1>6. Has(all, d) <=> HasThrough(pieces, d)
  <2> HIDE DEF pieces
  <2>1. QED
    BY <1>2, <1>4, FlattenSeqElements
<1>7. HasThrough(pieces, d) <=> \E k \in DOMAIN attributes : Has(piece(attributes[k]), d)
  BY DEF HasThrough, Has
<1>8. QED
  BY <1>3, <1>5, <1>6, <1>7

\* Attributes, and more attributes behind them.
LEMMA AttributesBehind ==
  ASSUME NEW p, NEW q, IsAttributes(p), IsAttributes(q)
  PROVE  /\ IsAttributes(p \o q)
         /\ \A x : Has(p \o q, x) <=> Has(p, x) \/ Has(q, x)
<1> DEFINE S == ToSet(p) \cup ToSet(q)
           pq == p \o q
<1>1. p \in Seq(ToSet(p)) /\ q \in Seq(ToSet(q)) /\ ToSet(p) \subseteq S /\ ToSet(q) \subseteq S
  BY DEF IsAttributes, IsSequence
<1> HIDE DEF S
<1>2. p \in Seq(S) /\ q \in Seq(S)
  BY <1>1, SeqMonotonic
<1>3. \A x : Has(pq, x) <=> Has(p, x) \/ Has(q, x)
  BY <1>2, ConcatElements
<1>4. pq \in Seq(S)
  BY <1>2, ConcatProperties
<1> HIDE DEF pq
<1>5. pq \in Seq(ToSet(pq))
  <2>1. \A k \in 1 .. Len(pq) : pq[k] \in ToSet(pq)
    BY <1>4, LenProperties DEF ToSet
  <2>2. Len(pq) \in Nat /\ pq \in [1 .. Len(pq) -> S]
    BY <1>4, LenProperties
  <2>3. pq \in [1 .. Len(pq) -> ToSet(pq)]
    BY <2>1, <2>2
  <2>4. QED
    BY <2>2, <2>3, SeqDef
<1>6. ASSUME NEW k \in DOMAIN pq PROVE IsSequence(pq[k][1]) /\ IsSequence(pq[k][2])
  <2>1. Has(p, pq[k]) \/ Has(q, pq[k])
    BY <1>3 DEF Has
  <2>2. QED
    BY <2>1 DEF Has, IsAttributes
<1>7. QED
  BY <1>3, <1>5, <1>6 DEF pq, IsAttributes, IsSequence

\* The record of a point has the attributes of the point, of its resource and of its
\* scope for dimensions.
LEMMA DimensionsOfRecord ==
  ASSUME NEW metric, NEW point, IsAttributes(point.attributes), IsMetric(metric)
  PROVE  LET attributes == ToSet(point.attributes) \cup ToSet(metric.resource) \cup ToSet(metric.scope)
         IN  /\ \A a \in attributes : IsSequence(a[1]) /\ IsSequence(a[2])
             /\ \A d : d \in ToSet(convertAttrsToDimensions(Bundles(metric, point)))
                         <=> \E a \in attributes : Given(a) /\ d = Dimension(a)
<1> DEFINE attributes == ToSet(point.attributes) \cup ToSet(metric.resource) \cup ToSet(metric.scope)
           front == point.attributes \o metric.resource
           all == front \o metric.scope
<1>1. IsAttributes(metric.resource) /\ IsAttributes(metric.scope)
  BY DEF IsMetric
<1>2. IsAttributes(front) /\ \A x : Has(front, x) <=> Has(point.attributes, x) \/ Has(metric.resource, x)
  BY <1>1, AttributesBehind
<1>3. IsAttributes(all) /\ \A x : Has(all, x) <=> Has(front, x) \/ Has(metric.scope, x)
  <2> HIDE DEF front
  <2>1. QED
    BY <1>1, <1>2, AttributesBehind
<1>4. all = Bundles(metric, point)
  BY DEF Bundles
<1> HIDE DEF all, front
<1>5. \A x : x \in attributes <=> Has(all, x)
  BY <1>2, <1>3 DEF Has, ToSet
<1> HIDE DEF attributes
<1>6. \A a \in attributes : IsSequence(a[1]) /\ IsSequence(a[2])
  BY <1>3, <1>5 DEF Has, IsAttributes
<1>7. \A d : d \in ToSet(convertAttrsToDimensions(all)) <=> \E a \in attributes : Given(a) /\ d = Dimension(a)
  <2>1. \A d : d \in ToSet(convertAttrsToDimensions(all)) <=>
                 \E k \in DOMAIN all : Given(all[k]) /\ d = Dimension(all[k])
    BY <1>3, DimensionsOfAttributes
  <2>2. QED
    BY <1>5, <2>1 DEF Has
<1>8. QED
  BY <1>4, <1>6, <1>7 DEF attributes

\* A dimension says what its attribute does, in legal characters.
LEMMA DimensionStands ==
  ASSUME NEW a, IsSequence(a[1]), IsSequence(a[2])
  PROVE  /\ \A n \in 1..2 : /\ Len(Dimension(a)[n]) = Len(a[n])
                            /\ \A k \in DOMAIN a[n] : Dimension(a)[n][k] = a[n][k] \/ a[n][k] \notin Legal
         /\ ToSet(Dimension(a)[1]) \cup ToSet(Dimension(a)[2]) \subseteq Legal \cup {"-"}
<1>1. Dimension(a)[1] = removeIllegalChars(a[1]) /\ Dimension(a)[2] = removeIllegalChars(a[2])
  BY DEF Dimension
<1>2. \A n \in 1..2 : n = 1 \/ n = 2
  OBVIOUS
<1>3. QED
  BY <1>1, <1>2, LegalCharacters

\* A record at Timestream has the attributes of its own point, of its resource and of
\* its scope for dimensions, all that have a name and a value and no others.
THEOREM DimensionsAreOfThePoint == Spec => []DimensionsOfPoint
<1>1. ASSUME TypeOK PROVE DimensionsOfPoint
  <2> SUFFICES ASSUME NEW s \in stored
               PROVE  LET metric == MetricsOf[s[1]][s[2].point[1]]
                          attributes == ToSet(metric.points[s[2].point[2]].attributes)
                                          \cup ToSet(metric.resource) \cup ToSet(metric.scope)
                          given == {a \in attributes : Len(a[1]) > 0 /\ Len(a[2]) > 0}
                          Stands(d, a) == \A n \in 1..2 :
                            /\ Len(d[n]) = Len(a[n])
                            /\ \A k \in DOMAIN a[n] : d[n][k] = a[n][k] \/ a[n][k] \notin Legal
                      IN  /\ \A a \in given : \E d \in ToSet(s[2].dimensions) : Stands(d, a)
                          /\ \A d \in ToSet(s[2].dimensions) : \E a \in given : Stands(d, a)
                          /\ \A d \in ToSet(s[2].dimensions) : ToSet(d[1]) \cup ToSet(d[2]) \subseteq Legal \cup {"-"}
    BY DEF DimensionsOfPoint
  <2> DEFINE r == s[1]
             record == s[2]
             metrics == MetricsOf[r]
             m == record.point[1]
             l == record.point[2]
             attributes == ToSet(metrics[m].points[l].attributes)
                             \cup ToSet(metrics[m].resource) \cup ToSet(metrics[m].scope)
             given == {a \in attributes : Len(a[1]) > 0 /\ Len(a[2]) > 0}
             Stands(d, a) == \A n \in 1..2 :
               /\ Len(d[n]) = Len(a[n])
               /\ \A k \in DOMAIN a[n] : d[n][k] = a[n][k] \/ a[n][k] \notin Legal
  <2>1. r \in Request /\ record \in ToSet(Records(r))
    BY <1>1 DEF TypeOK
  <2>2. record \in RecordsIn(r)
    <3> HIDE DEF r, record
    <3>1. Records(r) \in Seq(RecordsIn(r))
      BY <2>1, RecordsOfARequest
    <3>2. QED
      BY <2>1, <3>1, ToSetOfSeq
  <2>3. PICK i \in DOMAIN metrics : record \in RecordsAt(metrics, i)
    BY <2>2 DEF RecordsIn
  <2>4. PICK j \in DOMAIN metrics[i].points : record = Record(metrics, i, j)
    BY <2>3 DEF RecordsAt
  <2>5. record.point = <<i, j>> /\ record.dimensions = convertAttrsToDimensions(Bundles(metrics[i], metrics[i].points[j]))
    BY <2>4 DEF Record
  <2>6. m = i /\ l = j
    BY <2>5
  <2>7. IsMetric(metrics[m]) /\ IsAttributes(metrics[m].points[l].attributes)
    BY <2>1, <2>6, TimestreamAssumption DEF IsMetric
  <2> DEFINE dimensions == ToSet(record.dimensions)
  <2>8. /\ \A a \in attributes : IsSequence(a[1]) /\ IsSequence(a[2])
        /\ \A d : d \in dimensions <=> \E a \in attributes : Given(a) /\ d = Dimension(a)
    <3> HIDE DEF metrics, m, l
    <3>1. record.dimensions = convertAttrsToDimensions(Bundles(metrics[m], metrics[m].points[l]))
      BY <2>5, <2>6
    <3>2. QED
      BY <2>7, <3>1, DimensionsOfRecord
  <2>9. given = {a \in attributes : Given(a)}
    BY DEF Given
  <2> HIDE DEF attributes, given, dimensions, Stands
  <2>10. ASSUME NEW a \in given
         PROVE  /\ Dimension(a) \in dimensions /\ Stands(Dimension(a), a)
                /\ ToSet(Dimension(a)[1]) \cup ToSet(Dimension(a)[2]) \subseteq Legal \cup {"-"}
    BY <2>8, <2>9, DimensionStands DEF Stands
  <2>11. \A a \in given : \E d \in dimensions : Stands(d, a)
    BY <2>10
  <2>12. ASSUME NEW d \in dimensions
         PROVE  /\ \E a \in given : Stands(d, a)
                /\ ToSet(d[1]) \cup ToSet(d[2]) \subseteq Legal \cup {"-"}
    <3>1. PICK a \in given : d = Dimension(a)
      BY <2>8, <2>9
    <3>2. QED
      BY <2>10, <3>1
  <2>13. QED
    BY <2>11, <2>12 DEF attributes, given, dimensions, Stands
<1>2. QED
  BY <1>1, TimestreamTypeCorrect, PTL
============================================================================

-------------------------- MODULE PipelineProofs ---------------------------
(***************************************************************************)
(* Theorems about the processor and the exporter in one pipeline, for      *)
(* every set of streams and payloads, every pair of sizes that             *)
(* Config.Validate accepts, and every queue and number of workers.         *)
(*                                                                         *)
(* What the processor does is not changed by the exporter behind it, nor   *)
(* the other way round, so what is proved of each alone holds here.        *)
(* OnceInv says that a record is at one place on its way into the batch,   *)
(* hence at one place in its stream; FormatInv where in its stream the     *)
(* format of a group comes from; OrderInv carries that over to the         *)
(* requests of the exporter.                                               *)
(*                                                                         *)
(* With one worker the pipeline implements LogDelivery (PipelineDelivers). *)
(* DeliveryInv says that no record is in two places, that the entries in   *)
(* the queue are apart and were handed over, and that what is outstanding  *)
(* is what the worker has and then the queue, in order.                    *)
(***************************************************************************)
EXTENDS Pipeline, SlLogFormatProcessorProofs, FiniteSetTheorems, RecursionTheorems

Injective(q) == \A i, j \in DOMAIN q : q[i] = q[j] => i = j

\* A record taken out of the channel.
Taken(r) == In(r, todo) \/ \E s \in Stream : In(r, added[s])

OnceInv ==
  /\ Injective(todo) /\ \A s \in Stream : Injective(added[s])
  /\ \A i \in DOMAIN todo : \A s \in Stream : ~In(todo[i], added[s])
  /\ \A ld \in Payloads : ld \in unsent \/ InFlight(ld) => \A i \in DOMAIN ld : ~Taken(ld[i])
  /\ \A ld \in unsent : ~InFlight(ld)
  /\ \A c, d \in Caller : calls[c] = calls[d] /\ calls[c] # NoCall => c = d
  /\ \A c \in Caller : ~In(calls[c], newItem)
  /\ Injective(newItem)

\* The format of an entry being built and of a group that waits is that of a record no
\* later in the stream than the first of theirs.
FormatAt(s, n, f) == \E i \in 1 .. n : FormatOf[added[s][i]] = f
FormatInv ==
  /\ \A s \in DOMAIN req : FormatAt(s, Len(handed[s]) + 1, req[s].format)
  /\ \A s \in DOMAIN logData :
       FormatAt(s, Len(handed[s]) + Len(RecordsIn(req, s)) + 1, logData[s].format)

\* An entry the exporter was offered starts with a record that was handed over.
Handed(e) == \E p \in 1 .. Len(handed[e.stream]) :
               added[e.stream][p] = Head(e.records) /\ FormatAt(e.stream, p, e.format)
OrderInv == /\ order \in Seq(Request)
            /\ \A j \in DOMAIN order : \A k \in DOMAIN order[j] : Handed(order[j][k])

PipelineInv == /\ ProcessorInv /\ IsFiniteSet(DOMAIN req)
               /\ OnceInv /\ FormatInv /\ OrderInv
----------------------------------------------------------------------------
(* The formats.                                                            *)

\* One element more at the end of a sequence.
LEMMA AppendedElements ==
  ASSUME NEW S, NEW q \in Seq(S), NEW x \in S
  PROVE  /\ Append(q, x) \in Seq(S) /\ Len(q) \in Nat /\ Len(Append(q, x)) = Len(q) + 1
         /\ DOMAIN q = 1 .. Len(q) /\ DOMAIN Append(q, x) = 1 .. Len(q) + 1
         /\ \A i \in 1 .. Len(q) : Append(q, x)[i] = q[i]
         /\ Append(q, x)[Len(q) + 1] = x
         /\ \A i \in 1 .. Len(q) + 1 : i \in 1 .. Len(q) \/ i = Len(q) + 1
<1>1. /\ Append(q, x) \in Seq(S) /\ Len(Append(q, x)) = Len(q) + 1
      /\ \A i \in 1 .. Len(q) : Append(q, x)[i] = q[i]
      /\ Append(q, x)[Len(q) + 1] = x
  BY AppendProperties
<1>2. /\ DOMAIN q = 1 .. Len(q) /\ Len(q) \in Nat
      /\ DOMAIN Append(q, x) = 1 .. Len(Append(q, x))
  BY <1>1, LenProperties
<1>3. \A i \in 1 .. Len(q) + 1 : i \in 1 .. Len(q) \/ i = Len(q) + 1
  BY <1>2
<1>4. QED
  BY <1>1, <1>2, <1>3

\* Where the records of a stream are: those handed over first, then those of the entry
\* being built, then those of the group that waits.
LEMMA StreamParts ==
  ASSUME BatchInv, NEW s \in Stream
  PROVE  LET h == Len(handed[s])
             r == Len(RecordsIn(req, s))
             g == Len(RecordsIn(logData, s))
         IN  /\ h \in Nat /\ r \in Nat /\ g \in Nat
             /\ added[s] \in Seq(Record) /\ Len(added[s]) = h + r + g
             /\ DOMAIN added[s] = 1 .. h + r + g
             /\ s \in DOMAIN req => r > 0 /\ added[s][h + 1] = Head(req[s].records)
             /\ s \in DOMAIN logData => g > 0
             /\ s \in visit => r = 0
<1> DEFINE a == handed[s]
           b == RecordsIn(req, s)
           c == RecordsIn(logData, s)
           bc == b \o c
<1>1. a \in Seq(Record) /\ b \in Seq(Record) /\ c \in Seq(Record)
  BY Triple DEF BatchInv
<1>2. added[s] \in Seq(Record) /\ added[s] = a \o bc
  BY DEF BatchInv, BatchTypeOK, StreamOrder
<1>3. /\ s \in DOMAIN req => b = req[s].records /\ b # <<>>
      /\ s \in DOMAIN logData => c = logData[s].records /\ c # <<>>
      /\ s \in visit => b = <<>>
  BY DEF RecordsIn, BatchInv, EntriesWellFormed
<1> HIDE DEF a, b, c
<1>4. /\ bc \in Seq(Record) /\ Len(bc) = Len(b) + Len(c)
      /\ \A i \in 1 .. Len(b) + Len(c) : bc[i] = IF i <= Len(b) THEN b[i] ELSE c[i - Len(b)]
  BY <1>1, ConcatProperties
<1> HIDE DEF bc
<1>5. /\ Len(a \o bc) = Len(a) + Len(bc)
      /\ \A i \in 1 .. Len(a) + Len(bc) : (a \o bc)[i] = IF i <= Len(a) THEN a[i] ELSE bc[i - Len(a)]
  <2>1. a \in Seq(Record) /\ bc \in Seq(Record)
    BY <1>1, <1>4
  <2>2. QED
    BY <2>1, ConcatProperties
<1>6. Len(a) \in Nat /\ Len(b) \in Nat /\ Len(c) \in Nat
  BY <1>1, LenProperties
<1>7. /\ Len(added[s]) = Len(a) + Len(b) + Len(c)
      /\ DOMAIN added[s] = 1 .. Len(a) + Len(b) + Len(c)
  <2>1. Len(added[s]) = Len(a) + Len(b) + Len(c)
    BY <1>2, <1>4, <1>5, <1>6
  <2>2. DOMAIN added[s] = 1 .. Len(added[s])
    BY <1>2, LenProperties
  <2>3. QED
    BY <2>1, <2>2
<1>8. (b # <<>> => Len(b) > 0) /\ (c # <<>> => Len(c) > 0) /\ (b = <<>> => Len(b) = 0)
  BY <1>1, <1>6, EmptySeq
<1>9. ASSUME Len(b) > 0 PROVE added[s][Len(a) + 1] = Head(b)
  <2>1. /\ Len(a) + 1 \in 1 .. Len(a) + Len(bc) /\ ~(Len(a) + 1 <= Len(a))
        /\ (Len(a) + 1) - Len(a) = 1 /\ 1 \in 1 .. Len(b) + Len(c) /\ 1 <= Len(b)
    BY <1>4, <1>6, <1>9
  <2>2. added[s][Len(a) + 1] = b[1]
    BY <1>2, <1>4, <1>5, <2>1
  <2>3. QED
    BY <2>2
<1>10. QED
  BY <1>2, <1>3, <1>6, <1>7, <1>8, <1>9 DEF a, b, c

\* A record is found again behind those of a longer bound.
LEMMA FormatStays ==
  ASSUME NEW s \in Stream, NEW n \in Nat, NEW m \in Nat, n <= m, NEW f,
         FormatAt(s, n, f), \A i \in 1 .. n : added'[s][i] = added[s][i]
  PROVE  /\ \E i \in 1 .. m : FormatOf[added'[s][i]] = f
         /\ FormatAt(s, m, f)
<1>1. PICK i \in 1 .. n : FormatOf[added[s][i]] = f
  BY DEF FormatAt
<1>2. i \in 1 .. m
  OBVIOUS
<1>3. QED
  BY <1>1, <1>2 DEF FormatAt

\* A record is placed: its stream grows at the end, and a group made for it has its
\* format.
LEMMA FormatPlaced ==
  ASSUME BatchInv, FormatInv, PlaceRecord
  PROVE  FormatInv'
<1> DEFINE r == Head(todo)
           s == StreamOf[r]
           dest == GroupFor(logData, s, r)
           grown == [dest EXCEPT !.records = Append(@, r)]
<1>1. /\ logData' = Put(logData, s, grown) /\ added' = [added EXCEPT ![s] = Append(@, r)]
      /\ handed' = handed /\ req' = req
  BY DEF PlaceRecord, NextRecord
<1>2. r \in Record /\ s \in Stream
  <2>1. NextRecord /\ StreamOf[Head(todo)] # NoMatch /\ BatchTypeOK
    BY DEF PlaceRecord, BatchInv
  <2>2. QED
    BY <2>1, HeadOfTodo, GrownGroup
<1>3. grown \in Entry /\ grown.format = dest.format
  <2>1. NextRecord /\ StreamOf[Head(todo)] # NoMatch /\ BatchTypeOK
    BY DEF PlaceRecord, BatchInv
  <2>2. grown \in Entry /\ dest \in Entry
    BY <2>1, GrownGroup
  <2>3. QED
    BY <2>2 DEF Entry
<1>4. /\ DOMAIN logData' = DOMAIN logData \cup {s} /\ logData'[s] = grown
      /\ \A k \in DOMAIN logData \ {s} : logData'[k] = logData[k]
  <2>1. Map(logData)
    BY DEF BatchInv, BatchTypeOK, Map
  <2>2. s \in Stream /\ grown \in Entry
    BY <1>2, <1>3
  <2> HIDE DEF s, grown
  <2>3. /\ DOMAIN Put(logData, s, grown) = DOMAIN logData \cup {s}
        /\ Put(logData, s, grown)[s] = grown
        /\ \A k \in DOMAIN logData \ {s} : Put(logData, s, grown)[k] = logData[k]
    BY DEF Put
  <2>4. QED
    BY <1>1, <2>3
<1>5. added \in [Stream -> Seq(Record)]
  BY DEF BatchInv, BatchTypeOK
<1> HIDE DEF r, s, dest, grown
<1>6. /\ \A k \in Stream : \A i \in 1 .. Len(added[k]) : added'[k][i] = added[k][i]
      /\ added'[s][Len(added[s]) + 1] = r
  <2>1. added[s] \in Seq(Record)
    BY <1>2, <1>5
  <2>2. /\ \A i \in 1 .. Len(added[s]) : Append(added[s], r)[i] = added[s][i]
        /\ Append(added[s], r)[Len(added[s]) + 1] = r
    BY <1>2, <2>1, AppendedElements
  <2>3. added'[s] = Append(added[s], r) /\ \A k \in Stream \ {s} : added'[k] = added[k]
    BY <1>1, <1>2, <1>5
  <2>4. QED
    BY <2>2, <2>3
<1>7. ASSUME NEW k \in DOMAIN req PROVE FormatAt(k, Len(handed[k]) + 1, req[k].format)'
  <2>1. k \in Stream
    BY DEF BatchInv, BatchTypeOK
  <2> DEFINE n == Len(handed[k]) + 1
  <2>2. n \in Nat /\ n <= n /\ \A i \in 1 .. n : i \in 1 .. Len(added[k])
    BY <2>1, StreamParts
  <2>3. FormatAt(k, n, req[k].format)
    BY DEF FormatInv
  <2> HIDE DEF n
  <2>4. \E i \in 1 .. n : FormatOf[added'[k][i]] = req[k].format
    BY <1>6, <2>1, <2>2, <2>3, FormatStays
  <2>5. QED
    BY <1>1, <2>4 DEF FormatAt, n
<1>8. ASSUME NEW k \in DOMAIN logData
      PROVE  \E i \in 1 .. Len(handed[k]) + Len(RecordsIn(req, k)) + 1 :
               FormatOf[added'[k][i]] = logData[k].format
  <2>1. k \in Stream
    BY DEF BatchInv, BatchTypeOK
  <2> DEFINE n == Len(handed[k]) + Len(RecordsIn(req, k)) + 1
  <2>2. n \in Nat /\ n <= n /\ \A i \in 1 .. n : i \in 1 .. Len(added[k])
    BY <2>1, StreamParts
  <2>3. FormatAt(k, n, logData[k].format)
    BY DEF FormatInv
  <2> HIDE DEF n
  <2>4. \E i \in 1 .. n : FormatOf[added'[k][i]] = logData[k].format
    BY <1>6, <2>1, <2>2, <2>3, FormatStays
  <2>5. QED
    BY <2>4 DEF n
<1>9. ASSUME NEW k \in DOMAIN logData'
      PROVE  FormatAt(k, Len(handed[k]) + Len(RecordsIn(req, k)) + 1, logData[k].format)'
  <2>1. CASE k \in DOMAIN logData
    <3>1. logData'[k].format = logData[k].format
      BY <1>3, <1>4, <2>1 DEF dest, GroupFor
    <3>2. RecordsIn(req', k) = RecordsIn(req, k)
      BY <1>1
    <3>3. QED
      BY <1>1, <1>8, <2>1, <3>1, <3>2 DEF FormatAt
  <2>2. CASE k \notin DOMAIN logData
    <3>1. k = s /\ logData'[k].format = FormatOf[r]
      BY <1>3, <1>4, <2>2 DEF dest, GroupFor
    <3>2. Len(handed[s]) + Len(RecordsIn(req, s)) + 1 = Len(added[s]) + 1 /\ Len(added[s]) \in Nat
      <4>1. RecordsIn(logData, s) = <<>> /\ Len(<<>>) = 0
        BY <2>2, <3>1 DEF RecordsIn
      <4>2. /\ Len(handed[s]) \in Nat /\ Len(RecordsIn(req, s)) \in Nat
            /\ Len(added[s]) = Len(handed[s]) + Len(RecordsIn(req, s)) + Len(RecordsIn(logData, s))
        BY <1>2, StreamParts
      <4>3. QED
        BY <4>1, <4>2
    <3>3. RecordsIn(req', k) = RecordsIn(req, k)
      BY <1>1
    <3>4. Len(added[s]) + 1 \in 1 .. Len(added[s]) + 1
      BY <3>2
    <3>5. QED
      BY <1>1, <1>6, <3>1, <3>2, <3>3, <3>4 DEF FormatAt
  <2>3. QED
    BY <2>1, <2>2
<1>10. QED
  BY <1>1, <1>7, <1>9 DEF FormatInv

\* What an iteration of export's range loop does to the formats: the entry has the one
\* of its group, a group that is cut keeps it.
LEMMA FormatsMoved ==
  ASSUME BatchInv, NEW s \in Stream, TakeGroup(s) \/ SplitGroup(s)
  PROVE  /\ s \in DOMAIN logData /\ s \in visit /\ UNCHANGED <<handed, added>>
         /\ DOMAIN req' = DOMAIN req \cup {s} /\ req'[s].format = logData[s].format
         /\ \A k \in DOMAIN req \ {s} : req'[k] = req[k]
         /\ DOMAIN logData' \subseteq DOMAIN logData
         /\ \A k \in DOMAIN logData' : logData'[k].format = logData[k].format
         /\ Len(RecordsIn(req', s)) \in Nat
         /\ \A k \in Stream \ {s} : RecordsIn(req', k) = RecordsIn(req, k)
<1>1. /\ s \in DOMAIN logData /\ s \in visit /\ UNCHANGED <<handed, added>> /\ logData[s] \in Entry
      /\ BatchTypeOK
  BY DEF TakeGroup, SplitGroup, VisitKey, BatchInv, BatchTypeOK
<1>2. CASE TakeGroup(s)
  <2>1. req' = Put(req, s, logData[s]) /\ logData' = Delete(logData, s)
    BY <1>2 DEF TakeGroup
  <2>2. logData[s].records \in Seq(Record) /\ RecordsIn(req', s) = logData[s].records
    BY <1>1, <2>1 DEF Put, RecordsIn, Entry
  <2>3. Len(RecordsIn(req', s)) \in Nat
    BY <2>2, LenProperties
  <2>4. /\ DOMAIN req' = DOMAIN req \cup {s} /\ req'[s] = logData[s]
        /\ \A k \in DOMAIN req \ {s} : req'[k] = req[k]
        /\ \A k \in Stream \ {s} : RecordsIn(req', k) = RecordsIn(req, k)
    BY <2>1 DEF Put, RecordsIn
  <2>5. DOMAIN logData' \subseteq DOMAIN logData /\ \A k \in DOMAIN logData' : logData'[k] = logData[k]
    BY <2>1 DEF Delete
  <2>6. QED
    BY <1>1, <2>3, <2>4, <2>5
<1>3. CASE SplitGroup(s)
  <2> DEFINE g == logData[s]
             front == [g EXCEPT !.records = SplitOff(SendBatchMaxSize, @)]
             rest == [g EXCEPT !.records = SplitRest(SendBatchMaxSize, @)]
  <2>1. front \in Entry /\ rest \in Entry
    BY <1>1, <1>3, SplitGroupFacts
  <2>2. front.format = g.format /\ rest.format = g.format
    BY <1>1 DEF Entry
  <2>3. req' = Put(req, s, front) /\ logData' = Put(logData, s, rest)
    BY <1>3 DEF SplitGroup
  <2> HIDE DEF front, rest
  <2>4. front.records \in Seq(Record) /\ RecordsIn(req', s) = front.records
    BY <2>1, <2>3 DEF Put, RecordsIn, Entry
  <2>5. Len(RecordsIn(req', s)) \in Nat
    BY <2>4, LenProperties
  <2>6. /\ DOMAIN req' = DOMAIN req \cup {s} /\ req'[s] = front
        /\ \A k \in DOMAIN req \ {s} : req'[k] = req[k]
        /\ \A k \in Stream \ {s} : RecordsIn(req', k) = RecordsIn(req, k)
    BY <2>3 DEF Put, RecordsIn
  <2>7. /\ DOMAIN logData' = DOMAIN logData /\ logData'[s] = rest
        /\ \A k \in DOMAIN logData \ {s} : logData'[k] = logData[k]
    BY <1>1, <2>3 DEF Put
  <2>8. QED
    BY <1>1, <2>2, <2>5, <2>6, <2>7
<1>4. QED
  BY <1>2, <1>3

\* No step of the batch moves a format in front of the record it comes from.
LEMMA FormatStep ==
  ASSUME BatchInv, FormatInv, [BatchStep]_batchVars
  PROVE  FormatInv'
<1>1. ASSUME NEW s \in Stream, TakeGroup(s) \/ SplitGroup(s) PROVE FormatInv'
  <2>1. /\ s \in DOMAIN logData /\ s \in visit /\ UNCHANGED <<handed, added>>
        /\ DOMAIN req' = DOMAIN req \cup {s} /\ req'[s].format = logData[s].format
        /\ \A k \in DOMAIN req \ {s} : req'[k] = req[k]
        /\ DOMAIN logData' \subseteq DOMAIN logData
        /\ \A k \in DOMAIN logData' : logData'[k].format = logData[k].format
        /\ Len(RecordsIn(req', s)) \in Nat
        /\ \A k \in Stream \ {s} : RecordsIn(req', k) = RecordsIn(req, k)
    BY <1>1, FormatsMoved
  <2>2. Len(handed[s]) \in Nat /\ Len(RecordsIn(req, s)) = 0
    BY <2>1, StreamParts
  <2>3. FormatAt(s, Len(handed[s]) + 1, logData[s].format)
    <3>1. FormatAt(s, Len(handed[s]) + Len(RecordsIn(req, s)) + 1, logData[s].format)
      BY <2>1 DEF FormatInv
    <3>2. Len(handed[s]) + Len(RecordsIn(req, s)) + 1 = Len(handed[s]) + 1
      BY <2>2
    <3>3. QED
      BY <3>1, <3>2
  <2>4. ASSUME NEW k \in DOMAIN req' PROVE FormatAt(k, Len(handed[k]) + 1, req[k].format)'
    <3>1. CASE k = s
      BY <2>1, <2>3, <3>1 DEF FormatAt
    <3>2. CASE k # s
      <4>1. k \in DOMAIN req /\ req'[k] = req[k]
        BY <2>1, <3>2
      <4>2. FormatAt(k, Len(handed[k]) + 1, req[k].format)
        BY <4>1 DEF FormatInv
      <4>3. QED
        BY <2>1, <4>1, <4>2 DEF FormatAt
    <3>3. QED
      BY <3>1, <3>2
  <2>5. ASSUME NEW k \in DOMAIN logData'
        PROVE  FormatAt(k, Len(handed[k]) + Len(RecordsIn(req, k)) + 1, logData[k].format)'
    <3>1. k \in DOMAIN logData /\ k \in Stream /\ logData'[k].format = logData[k].format
      BY <2>1 DEF BatchInv, BatchTypeOK
    <3>2. CASE k = s
      <4> DEFINE n == Len(handed[s]) + 1
                 m == Len(handed[s]) + Len(RecordsIn(req', s)) + 1
      <4>1. n \in Nat /\ m \in Nat /\ n <= m
        BY <2>1, <2>2
      <4>2. FormatAt(s, n, logData[s].format)
        BY <2>3
      <4> HIDE DEF n, m
      <4>3. FormatAt(s, m, logData[s].format)
        BY <4>1, <4>2 DEF FormatAt
      <4>4. QED
        BY <2>1, <3>1, <3>2, <4>3 DEF FormatAt, m
    <3>3. CASE k # s
      <4>1. RecordsIn(req', k) = RecordsIn(req, k)
        BY <2>1, <3>1, <3>3
      <4>2. FormatAt(k, Len(handed[k]) + Len(RecordsIn(req, k)) + 1, logData[k].format)
        BY <3>1 DEF FormatInv
      <4>3. QED
        BY <2>1, <3>1, <4>1, <4>2 DEF FormatAt
    <3>4. QED
      BY <3>2, <3>3
  <2>6. QED
    BY <2>4, <2>5 DEF FormatInv
<1>2. ASSUME NEW ok \in BOOLEAN, Send(ok) PROVE FormatInv'
  <2>1. /\ handed' = [s \in Stream |-> handed[s] \o RecordsIn(req, s)]
        /\ added' = added /\ req' = EmptyMap /\ logData' = logData
    BY <1>2 DEF Send
  <2>2. DOMAIN req' = {} /\ \A k : RecordsIn(req', k) = <<>>
    BY <2>1, EmptyMapFacts
  <2>3. ASSUME NEW k \in DOMAIN logData
        PROVE  FormatAt(k, Len(handed[k]) + Len(RecordsIn(req, k)) + 1, logData[k].format)'
    <3>1. k \in Stream
      BY DEF BatchInv, BatchTypeOK
    <3>2. handed[k] \in Seq(Record) /\ RecordsIn(req, k) \in Seq(Record)
      BY <3>1, Triple DEF BatchInv
    <3>3. Len(handed'[k]) = Len(handed[k]) + Len(RecordsIn(req, k))
      <4> DEFINE a == handed[k]
                 b == RecordsIn(req, k)
      <4>1. handed'[k] = a \o b
        BY <2>1, <3>1
      <4>2. a \in Seq(Record) /\ b \in Seq(Record)
        BY <3>2
      <4> HIDE DEF a, b
      <4>3. Len(a \o b) = Len(a) + Len(b)
        BY <4>2, ConcatProperties
      <4>4. QED
        BY <4>1, <4>3 DEF a, b
    <3>4. Len(handed'[k]) + Len(RecordsIn(req', k)) + 1 = Len(handed[k]) + Len(RecordsIn(req, k)) + 1
      <4>1. Len(RecordsIn(req', k)) = 0 /\ Len(handed[k]) \in Nat /\ Len(RecordsIn(req, k)) \in Nat
        BY <2>2, <3>2, LenProperties
      <4>2. QED
        BY <3>3, <4>1
    <3>5. FormatAt(k, Len(handed[k]) + Len(RecordsIn(req, k)) + 1, logData[k].format)
      BY DEF FormatInv
    <3>6. QED
      BY <2>1, <3>4, <3>5 DEF FormatAt
  <2>4. QED
    BY <2>1, <2>2, <2>3 DEF FormatInv
<1>3. CASE \/ \E ld \in Payloads : Add(ld)
           \/ SkipRecord
           \/ Export
           \/ UNCHANGED batchVars
  <2>1. UNCHANGED <<logData, handed, added>> /\ req' = req
    BY <1>3 DEF Add, SkipRecord, NextRecord, Export, batchVars, BatchInv, EntriesWellFormed
  <2>2. QED
    BY <2>1 DEF FormatInv, FormatAt, RecordsIn
<1>4. QED
  BY <1>1, <1>2, <1>3, FormatPlaced DEF BatchStep
----------------------------------------------------------------------------
(* A record is in one place.                                               *)

\* Both payloads of a record are the same.
LEMMA PayloadsApart ==
  ASSUME NEW ld1 \in Payloads, NEW ld2 \in Payloads, NEW i \in DOMAIN ld1, NEW j \in DOMAIN ld2,
         ld1[i] = ld2[j]
  PROVE  ld1 = ld2 /\ i = j
BY PipelineAssumption

\* A sequence stays injective when its first element leaves, which is then not in it.
LEMMA InjectiveTail ==
  ASSUME NEW S, NEW q \in Seq(S), q # <<>>, Injective(q)
  PROVE  Injective(Tail(q)) /\ ~In(Head(q), Tail(q))
<1>1. /\ Len(Tail(q)) = Len(q) - 1 /\ Tail(q) \in Seq(S)
      /\ \A j \in 1 .. Len(Tail(q)) : Tail(q)[j] = q[j + 1]
  BY HeadTailProperties
<1>2. /\ DOMAIN q = 1 .. Len(q) /\ Len(q) \in Nat \ {0}
      /\ DOMAIN Tail(q) = 1 .. Len(q) - 1 /\ Head(q) = q[1]
  BY <1>1, LenProperties, EmptySeq
<1>3. \A j \in 1 .. Len(q) - 1 : j + 1 \in DOMAIN q /\ j + 1 # 1 /\ Tail(q)[j] = q[j + 1]
  BY <1>1, <1>2
<1>4. 1 \in DOMAIN q
  BY <1>2
<1>5. ~In(Head(q), Tail(q))
  BY <1>2, <1>3, <1>4 DEF In, Injective
<1>6. ASSUME NEW i \in 1 .. Len(q) - 1, NEW j \in 1 .. Len(q) - 1, Tail(q)[i] = Tail(q)[j]
      PROVE  i = j
  <2>1. i + 1 = j + 1
    BY <1>3, <1>6 DEF Injective
  <2>2. QED
    BY <1>2, <2>1
<1>7. QED
  BY <1>2, <1>5, <1>6 DEF Injective

\* So it does when an element that is not in it comes last.
LEMMA InjectiveAppend ==
  ASSUME NEW S, NEW q \in Seq(S), NEW x \in S, Injective(q), ~In(x, q)
  PROVE  Injective(Append(q, x))
BY AppendedElements DEF Injective, In

\* A sequence has no element but its own and the one appended.
LEMMA InAppended ==
  ASSUME NEW S, NEW q \in Seq(S), NEW x \in S
  PROVE  \A e : In(e, Append(q, x)) => In(e, q) \/ e = x
BY AppendedElements DEF In

\* A receiver calls ConsumeLogs with a payload that nothing has seen yet.
LEMMA OnceConsumed ==
  ASSUME TypeOK, OnceInv, NEW c \in Caller, NEW p \in unsent, ConsumeLogs(c, p)
  PROVE  OnceInv'
<1>1. /\ calls[c] = NoCall /\ calls'[c] = p /\ \A k \in Caller \ {c} : calls'[k] = calls[k]
      /\ unsent' = unsent \ {p} /\ newItem' = newItem /\ todo' = todo /\ added' = added
      /\ p \in Payloads
  BY DEF ConsumeLogs, TypeOK, batchVars
<1>2. \A ld : InFlight(ld)' => InFlight(ld) \/ ld = p
  BY <1>1 DEF InFlight
<1>3. ~InFlight(p)
  BY DEF OnceInv
<1>4. \A r : Taken(r)' <=> Taken(r)
  BY <1>1 DEF Taken
<1>5. \A ld \in Payloads : (ld \in unsent \/ InFlight(ld))' => \A i \in DOMAIN ld : ~Taken(ld[i])'
  BY <1>1, <1>2, <1>4 DEF OnceInv
<1>6. \A ld \in unsent' : ~InFlight(ld)'
  BY <1>1, <1>2 DEF OnceInv
<1>7. \A k, l \in Caller : calls'[k] = calls'[l] /\ calls'[k] # NoCall => k = l
  <2>1. \A k \in Caller : calls[k] # p
    BY <1>3 DEF InFlight
  <2>2. QED
    BY <1>1, <2>1 DEF OnceInv
<1>8. \A k \in Caller : ~In(calls'[k], newItem')
  <2>1. ~In(p, newItem)
    BY <1>3 DEF InFlight
  <2>2. QED
    BY <1>1, <2>1 DEF OnceInv
<1>9. /\ Injective(todo') /\ (\A s \in Stream : Injective(added'[s])) /\ Injective(newItem')
      /\ \A i \in DOMAIN todo' : \A s \in Stream : ~In(todo'[i], added'[s])
  BY <1>1 DEF OnceInv
<1>10. QED
  BY <1>5, <1>6, <1>7, <1>8, <1>9 DEF OnceInv

\* The channel has room for the payload: the call is over.
LEMMA OnceEnqueued ==
  ASSUME TypeOK, OnceInv, NEW c \in Caller, Enqueue(c)
  PROVE  OnceInv'
<1>1. /\ calls[c] # NoCall /\ calls'[c] = NoCall /\ \A k \in Caller \ {c} : calls'[k] = calls[k]
      /\ newItem' = Append(newItem, calls[c])
      /\ unsent' = unsent /\ todo' = todo /\ added' = added
  BY DEF Enqueue, TypeOK, batchVars
<1>2. newItem \in Seq(Payloads) /\ calls[c] \in Payloads
  BY <1>1 DEF TypeOK
<1>3. \A e : In(e, newItem') => In(e, newItem) \/ e = calls[c]
  BY <1>1, <1>2, InAppended
<1>4. ~In(NoCall, newItem')
  <2>1. newItem' \in Seq(Payloads)
    BY <1>1, <1>2, AppendProperties
  <2>2. \A i \in DOMAIN newItem' : newItem'[i] \in Payloads
    BY <2>1, LenProperties, ElementOfSeq
  <2>3. QED
    BY <2>2, ProcessorAssumption DEF In
<1>5. \A ld : ld # NoCall => (InFlight(ld)' => InFlight(ld))
  BY <1>1, <1>3 DEF InFlight
<1>6. \A r : Taken(r)' <=> Taken(r)
  BY <1>1 DEF Taken
<1>7. \A ld \in Payloads : (ld \in unsent \/ InFlight(ld))' => \A i \in DOMAIN ld : ~Taken(ld[i])'
  BY <1>1, <1>5, <1>6, ProcessorAssumption DEF OnceInv
<1>8. \A ld \in unsent' : ~InFlight(ld)'
  <2>1. unsent \subseteq Payloads
    BY DEF TypeOK
  <2>2. QED
    BY <1>1, <1>5, <2>1, ProcessorAssumption DEF OnceInv
<1>9. \A k, l \in Caller : calls'[k] = calls'[l] /\ calls'[k] # NoCall => k = l
  BY <1>1 DEF OnceInv
<1>10. \A k \in Caller : ~In(calls'[k], newItem')
  BY <1>1, <1>3, <1>4 DEF OnceInv
<1>11. Injective(newItem')
  <2>1. Injective(newItem) /\ ~In(calls[c], newItem)
    BY DEF OnceInv
  <2>2. QED
    BY <1>1, <1>2, <2>1, InjectiveAppend
<1>12. /\ Injective(todo') /\ \A s \in Stream : Injective(added'[s])
       /\ \A i \in DOMAIN todo' : \A s \in Stream : ~In(todo'[i], added'[s])
  BY <1>1 DEF OnceInv
<1>13. QED
  BY <1>7, <1>8, <1>9, <1>10, <1>11, <1>12 DEF OnceInv

\* The goroutine receives a payload, from then on its records are taken.
LEMMA OnceReceived ==
  ASSUME TypeOK, OpFollowsPc, OnceInv, SelectItem \/ DrainItem
  PROVE  OnceInv'
<1> DEFINE h == Head(newItem)
<1>1. /\ newItem # <<>> /\ newItem' = Tail(newItem) /\ calls' = calls
      /\ todo' = h /\ UNCHANGED <<added, unsent>> /\ pc \in {"select", "drain"}
  BY DEF SelectItem, DrainItem, Receive, Add
<1>2. todo = <<>>
  BY <1>1 DEF TypeOK, BatchTypeOK, OpFollowsPc
<1>3. newItem \in Seq(Payloads) /\ h \in Payloads
  BY <1>1, HeadOfNewItem DEF TypeOK
<1>4. \A e : In(e, newItem) <=> (e = h \/ In(e, newItem'))
  BY <1>1, <1>3, InTail
<1>5. Injective(newItem') /\ ~In(h, newItem')
  BY <1>1, <1>3, InjectiveTail DEF OnceInv
<1> HIDE DEF h
<1>6. InFlight(h)
  BY <1>4 DEF InFlight
<1>7. /\ \A k \in Caller : calls[k] # h
      /\ \A ld : InFlight(ld)' => InFlight(ld) /\ ld # h
  <2>1. \A k \in Caller : calls[k] # h
    BY <1>4 DEF OnceInv
  <2>2. \A ld : InFlight(ld)' <=> (\E k \in Caller : calls[k] = ld) \/ In(ld, newItem')
    BY <1>1 DEF InFlight
  <2>3. QED
    BY <1>4, <1>5, <2>1, <2>2 DEF InFlight
<1>8. h \notin unsent
  BY <1>6 DEF OnceInv
<1>9. \A i \in DOMAIN h : ~Taken(h[i])
  BY <1>3, <1>6 DEF OnceInv
<1>10. Injective(todo')
  BY <1>1, <1>3, PayloadsApart DEF Injective
<1>11. \A i \in DOMAIN todo' : \A s \in Stream : ~In(todo'[i], added'[s])
  BY <1>1, <1>9 DEF Taken
<1>12. ASSUME NEW ld \in Payloads, ld \in unsent' \/ InFlight(ld)', NEW i \in DOMAIN ld
       PROVE  ~Taken(ld[i])'
  <2>1. ld # h /\ ~Taken(ld[i])
    <3>1. ld \in unsent \/ InFlight(ld)
      BY <1>1, <1>7, <1>12
    <3>2. ld # h
      BY <1>1, <1>7, <1>8, <1>12
    <3>3. QED
      BY <1>12, <3>1, <3>2 DEF OnceInv
  <2>2. ~In(ld[i], h)
    BY <1>3, <2>1, PayloadsApart DEF In
  <2>3. QED
    BY <1>1, <2>1, <2>2 DEF Taken
<1>13. \A ld \in unsent' : ~InFlight(ld)'
  BY <1>1, <1>7 DEF OnceInv
<1>14. \A k \in Caller : ~In(calls'[k], newItem')
  BY <1>1, <1>4 DEF OnceInv
<1>15. /\ \A s \in Stream : Injective(added'[s])
       /\ \A k, l \in Caller : calls'[k] = calls'[l] /\ calls'[k] # NoCall => k = l
  BY <1>1 DEF OnceInv
<1>16. QED
  BY <1>5, <1>10, <1>11, <1>12, <1>13, <1>14, <1>15 DEF OnceInv

\* A record is skipped or joins its stream.
LEMMA OnceAdded ==
  ASSUME TypeOK, OnceInv, AddRecord
  PROVE  OnceInv'
<1> DEFINE r == Head(todo)
           s == StreamOf[r]
<1>1. /\ NextRecord /\ todo # <<>> /\ todo \in Seq(Record) /\ todo' = Tail(todo)
      /\ UNCHANGED <<calls, newItem, unsent>>
  BY DEF AddRecord, SkipRecord, PlaceRecord, NextRecord, TypeOK, BatchTypeOK
<1>2. /\ \A e : In(e, todo) <=> (e = r \/ In(e, todo'))
      /\ Injective(todo') /\ ~In(r, todo')
  BY <1>1, InTail, InjectiveTail DEF OnceInv
<1>3. \A k \in Stream : \A e : In(e, todo) => ~In(e, added[k])
  BY DEF OnceInv, In
<1>4. /\ \A k \in Stream : Injective(added'[k])
      /\ \A k \in Stream : \A e : In(e, added'[k]) => In(e, added[k]) \/ e = r
  <2>1. CASE SkipRecord
    BY <2>1 DEF SkipRecord, OnceInv
  <2>2. CASE PlaceRecord
    <3>1. s \in Stream /\ r \in Record
      BY <1>1, <2>2, HeadOfTodo, BatchAssumption DEF PlaceRecord, TypeOK
    <3>2. added' = [added EXCEPT ![s] = Append(@, r)]
      BY <2>2 DEF PlaceRecord
    <3>3. added \in [Stream -> Seq(Record)]
      BY DEF TypeOK, BatchTypeOK
    <3> HIDE DEF s, r
    <3>4. /\ added'[s] = Append(added[s], r) /\ added[s] \in Seq(Record)
          /\ \A k \in Stream \ {s} : added'[k] = added[k]
      BY <3>1, <3>2, <3>3
    <3>5. Injective(added[s]) /\ ~In(r, added[s])
      BY <1>2, <1>3, <3>1 DEF OnceInv
    <3>6. Injective(added'[s]) /\ \A e : In(e, added'[s]) => In(e, added[s]) \/ e = r
      BY <3>1, <3>4, <3>5, InjectiveAppend, InAppended
    <3>7. QED
      BY <3>4, <3>6 DEF OnceInv
  <2>3. QED
    BY <2>1, <2>2 DEF AddRecord
<1> HIDE DEF r, s
<1>5. \A e : Taken(e)' => Taken(e)
  BY <1>2, <1>4 DEF Taken
<1>6. \A i \in DOMAIN todo' : \A k \in Stream : ~In(todo'[i], added'[k])
  <2>1. \A i \in DOMAIN todo' : In(todo'[i], todo')
    BY DEF In
  <2>2. QED
    BY <1>2, <1>3, <1>4, <2>1
<1>7. \A ld : InFlight(ld)' <=> InFlight(ld)
  BY <1>1 DEF InFlight
<1>8. QED
  BY <1>1, <1>2, <1>4, <1>5, <1>6, <1>7 DEF OnceInv

\* No step of the processor puts a record at a second place.
LEMMA OnceStep ==
  ASSUME TypeOK, OpFollowsPc, OnceInv, [Next]_vars
  PROVE  OnceInv'
<1>1. CASE SelectItem \/ DrainItem
  BY <1>1, OnceReceived
<1>2. CASE AddRecord
  BY <1>2, OnceAdded
<1>3. CASE \E c \in Caller : \E p \in unsent : ConsumeLogs(c, p)
  BY <1>3, OnceConsumed
<1>4. CASE \E c \in Caller : Enqueue(c)
  BY <1>4, OnceEnqueued
<1>5. CASE \/ Start \/ BeginCycle \/ Shutdown \/ ShutdownReturns \/ TimerFires
           \/ SelectTimer \/ SelectShutdown \/ CheckSize \/ ProcessItemReturns
           \/ ExportGroup \/ Flushed \/ DrainEnds \/ Terminated \/ UNCHANGED vars
  <2>1. UNCHANGED <<todo, added, calls, newItem, unsent>>
    BY <1>5 DEF Start, BeginCycle, Shutdown, ShutdownReturns, TimerFires, SelectTimer,
                SelectShutdown, CheckSize, ProcessItemReturns, ExportGroup, Flushed,
                DrainEnds, Terminated, Export, Send, TakeGroup, SplitGroup, VisitKey,
                batchVars, ctlVars, vars
  <2>2. (\A ld : InFlight(ld)' <=> InFlight(ld)) /\ (\A e : Taken(e)' <=> Taken(e))
    BY <2>1 DEF InFlight, Taken
  <2>3. QED
    BY <2>1, <2>2 DEF OnceInv
<1>6. QED
  BY <1>1, <1>2, <1>3, <1>4, <1>5 DEF Next, Cycle
----------------------------------------------------------------------------
(* The requests of the exporter.                                           *)

\* A stream and what was handed over of it only grow, at the end.
LEMMA StreamGrows ==
  ASSUME BatchInv, [BatchStep]_batchVars, NEW s \in Stream
  PROVE  /\ Len(handed[s]) \in Nat /\ Len(handed'[s]) \in Nat
         /\ Len(handed[s]) <= Len(handed'[s])
         /\ \A i \in 1 .. Len(handed[s]) : added'[s][i] = added[s][i]
<1>1. /\ handed[s] \in Seq(Record) /\ RecordsIn(req, s) \in Seq(Record)
      /\ Len(handed[s]) \in Nat /\ \A i \in 1 .. Len(handed[s]) : i \in 1 .. Len(added[s])
  <2>1. handed[s] \in Seq(Record) /\ RecordsIn(req, s) \in Seq(Record)
    BY Triple DEF BatchInv
  <2>2. Len(handed[s]) \in Nat /\ \A i \in 1 .. Len(handed[s]) : i \in 1 .. Len(added[s])
    BY StreamParts
  <2>3. QED
    BY <2>1, <2>2
<1>2. CASE PlaceRecord
  <2> DEFINE r == Head(todo)
             t == StreamOf[r]
  <2>1. added' = [added EXCEPT ![t] = Append(@, r)] /\ handed' = handed
    BY <1>2 DEF PlaceRecord, NextRecord
  <2>2. r \in Record /\ added \in [Stream -> Seq(Record)] /\ t \in Stream
    BY <1>2, HeadOfTodo, GrownGroup DEF PlaceRecord, BatchInv, BatchTypeOK
  <2> HIDE DEF r, t
  <2>3. \A i \in 1 .. Len(added[s]) : Append(added[s], r)[i] = added[s][i]
    <3>1. added[s] \in Seq(Record)
      BY <2>2
    <3>2. QED
      BY <2>2, <3>1, AppendedElements
  <2>4. added'[s] = added[s] \/ added'[s] = Append(added[s], r)
    BY <2>1, <2>2
  <2>5. QED
    BY <1>1, <2>1, <2>3, <2>4
<1>3. ASSUME NEW ok \in BOOLEAN, Send(ok)
      PROVE  /\ added' = added /\ Len(handed'[s]) \in Nat
             /\ Len(handed[s]) <= Len(handed'[s])
  <2> DEFINE a == handed[s]
             b == RecordsIn(req, s)
  <2>1. added' = added /\ handed'[s] = a \o b
    BY <1>3 DEF Send
  <2>2. a \in Seq(Record) /\ b \in Seq(Record)
    BY <1>1
  <2> HIDE DEF a, b
  <2>3. Len(a \o b) = Len(a) + Len(b) /\ Len(a) \in Nat /\ Len(b) \in Nat
    BY <2>2, ConcatProperties, LenProperties
  <2>4. QED
    BY <2>1, <2>3 DEF a
<1>4. CASE \/ \E ld \in Payloads : Add(ld)
           \/ SkipRecord
           \/ Export
           \/ \E k \in Stream : TakeGroup(k) \/ SplitGroup(k)
           \/ UNCHANGED batchVars
  <2>1. UNCHANGED <<handed, added>>
    BY <1>4 DEF Add, SkipRecord, NextRecord, Export, TakeGroup, SplitGroup, VisitKey, batchVars
  <2>2. QED
    BY <1>1, <2>1
<1>5. QED
  BY <1>1, <1>2, <1>3, <1>4 DEF BatchStep

\* What was handed over stays handed over, behind the same records.
LEMMA HandedStays ==
  ASSUME BatchInv, [BatchStep]_batchVars, NEW e, e.stream \in Stream, Handed(e)
  PROVE  Handed(e)'
<1> DEFINE s == e.stream
<1>1. PICK p \in 1 .. Len(handed[s]) : added[s][p] = Head(e.records) /\ FormatAt(s, p, e.format)
  BY DEF Handed
<1>2. /\ Len(handed[s]) \in Nat /\ Len(handed'[s]) \in Nat
      /\ Len(handed[s]) <= Len(handed'[s])
      /\ \A i \in 1 .. Len(handed[s]) : added'[s][i] = added[s][i]
  BY StreamGrows
<1> HIDE DEF s
<1>3. p \in 1 .. Len(handed'[s]) /\ p \in Nat /\ \A i \in 1 .. p : i \in 1 .. Len(handed[s])
  BY <1>2
<1>4. \E i \in 1 .. p : FormatOf[added'[s][i]] = e.format
  BY <1>1, <1>2, <1>3 DEF FormatAt
<1>5. added'[s][p] = Head(e.records)
  BY <1>1, <1>2
<1>6. QED
  BY <1>3, <1>4, <1>5 DEF Handed, FormatAt, s

\* So with all the entries of a request.
LEMMA RequestStays ==
  ASSUME BatchInv, [BatchStep]_batchVars, NEW q \in Request, \A k \in DOMAIN q : Handed(q[k])
  PROVE  \A k \in DOMAIN q : Handed(q[k])'
<1> SUFFICES ASSUME NEW k \in DOMAIN q PROVE Handed(q[k])'
  OBVIOUS
<1>1. q[k] \in [stream : Stream, format : Format, records : Seq(Record)]
  BY ElementOfSeq, LenProperties DEF Request
<1>2. Handed(q[k]) /\ q[k].stream \in Stream
  BY <1>1
<1>3. QED
  BY <1>2, HandedStays

\* The end of an export is the call of the next consumer.
LEMMA ExportEnds ==
  ASSUME BatchTypeOK, [BatchStep]_batchVars, op = "export", op' = "idle"
  PROVE  \E ok \in BOOLEAN : Send(ok)
BY DEF BatchStep, Add, SkipRecord, PlaceRecord, NextRecord, Export, TakeGroup, SplitGroup,
       VisitKey, batchVars

\* A request has an entry for each key of the range loop.
LEMMA RequestEntries ==
  ASSUME BatchTypeOK, IsFiniteSet(DOMAIN req), NEW q \in Requests
  PROVE  /\ q \in Request
         /\ \A k \in DOMAIN q : /\ q[k].stream \in DOMAIN req
                                /\ q[k].format = req[q[k].stream].format
                                /\ q[k].records = req[q[k].stream].records
<1> DEFINE n == Cardinality(DOMAIN req)
           entry(t) == OfStream(t, req[t])
<1>1. PICK keys \in [1 .. n -> DOMAIN req] : q = [k \in DOMAIN keys |-> entry(keys[k])]
  BY DEF Requests, SetToSeqs
<1>2. n \in Nat
  BY FS_CardinalityType
<1>3. ASSUME NEW t \in DOMAIN req
      PROVE  /\ entry(t) = [stream |-> t, format |-> req[t].format, records |-> req[t].records]
             /\ entry(t) \in [stream : Stream, format : Format, records : Seq(Record)]
  <2>1. t \in Stream /\ req[t].format \in Format /\ req[t].records \in Seq(Record)
    BY <1>3 DEF BatchTypeOK, Entry
  <2>2. QED
    BY <2>1 DEF OfStream
<1> HIDE DEF n, entry
<1>4. DOMAIN q = 1 .. n /\ \A k \in 1 .. n : q[k] = entry(keys[k]) /\ keys[k] \in DOMAIN req
  BY <1>1
<1>5. q \in Request
  <2> DEFINE S == [stream : Stream, format : Format, records : Seq(Record)]
  <2>1. q = [k \in 1 .. n |-> entry(keys[k])]
    BY <1>1
  <2>2. \A k \in 1 .. n : entry(keys[k]) \in S
    BY <1>3, <1>4
  <2> HIDE DEF S
  <2>3. q \in [1 .. n -> S]
    BY <2>1, <2>2
  <2>4. q \in Seq(S)
    BY <1>2, <2>3, SeqDef
  <2>5. QED
    BY <2>4 DEF Request, S
<1>6. QED
  BY <1>3, <1>4, <1>5

\* The entries of the request start with records that have just been handed over.
LEMMA EntriesHanded ==
  ASSUME BatchInv, FormatInv, IsFiniteSet(DOMAIN req), NEW ok \in BOOLEAN, Send(ok),
         NEW q \in Requests, NEW k \in DOMAIN q
  PROVE  Handed(q[k])'
<1> DEFINE e == q[k]
           s == e.stream
           h == Len(handed[s])
<1>1. /\ s \in DOMAIN req /\ s \in Stream
      /\ e.format = req[s].format /\ e.records = req[s].records
  BY RequestEntries DEF BatchInv, BatchTypeOK
<1>2. /\ h \in Nat /\ Len(RecordsIn(req, s)) \in Nat /\ Len(RecordsIn(req, s)) > 0
      /\ added[s][h + 1] = Head(req[s].records)
  BY <1>1, StreamParts
<1>3. FormatAt(s, h + 1, e.format)
  BY <1>1 DEF FormatInv
<1>4. added' = added /\ h + 1 \in 1 .. Len(handed'[s])
  <2> DEFINE a == handed[s]
             b == RecordsIn(req, s)
  <2>1. added' = added /\ handed'[s] = a \o b
    BY <1>1 DEF Send
  <2>2. a \in Seq(Record) /\ b \in Seq(Record)
    BY <1>1, Triple DEF BatchInv
  <2>3. Len(a) \in Nat /\ Len(b) \in Nat /\ Len(b) > 0
    BY <1>2
  <2> HIDE DEF a, b
  <2>4. Len(a \o b) = Len(a) + Len(b)
    BY <2>2, ConcatProperties
  <2>5. Len(a) + 1 \in 1 .. Len(a \o b)
    BY <2>3, <2>4
  <2>6. QED
    BY <2>1, <2>5 DEF a
<1> HIDE DEF e, s, h
<1>5. added'[s][h + 1] = Head(e.records) /\ \E i \in 1 .. h + 1 : FormatOf[added'[s][i]] = e.format
  BY <1>1, <1>2, <1>3, <1>4 DEF FormatAt
<1>6. QED
  BY <1>4, <1>5 DEF Handed, FormatAt, e, s

\* A step of a worker leaves the requests of the queue in their order.
LEMMA WorkKeepsOrder ==
  ASSUME NEW w \in Worker, Z!Work(w)
  PROVE  order' = order
BY DEF Z!Work, Z!Take, Z!BeginEntry, Z!GetStreamToken, Z!Unauthorized, Z!Post,
       Z!PushLogsReturns, Z!Retry, Z!GiveUp, Z!Continue

\* The exporter is offered requests whose entries start where the stream was cut.
LEMMA OrderInvStep ==
  TypeOK /\ BatchInv /\ IsFiniteSet(DOMAIN req) /\ FormatInv /\ OrderInv /\ PipelineNext
    => OrderInv'
<1> SUFFICES ASSUME TypeOK, BatchInv, IsFiniteSet(DOMAIN req), FormatInv, OrderInv, PipelineNext
             PROVE  OrderInv'
  OBVIOUS
<1>1. [BatchStep]_batchVars
  <2>1. [Next]_vars
    BY DEF PipelineNext, WorkerStep
  <2>2. QED
    BY <2>1, BatchView
<1>4. ASSUME NEW q, \E j \in DOMAIN order : order[j] = q
      PROVE  q \in Request /\ \A k \in DOMAIN q : Handed(q[k])'
  <2>1. q \in Request /\ \A k \in DOMAIN q : Handed(q[k])
    BY <1>4, ElementOfSeq, LenProperties DEF OrderInv
  <2>2. QED
    BY <1>1, <2>1, RequestStays
<1>5. ASSUME NEW q, \E j \in DOMAIN order' : order'[j] = q
      PROVE  \A k \in DOMAIN q : Handed(q[k])'
  <2>1. CASE order' = order
    BY <1>4, <1>5, <2>1
  <2>2. CASE order' # order
    <3>1. op = "export" /\ op' = "idle" /\ NextConsumer
      BY <2>2, WorkKeepsOrder DEF PipelineNext, WorkerStep, Handover, zVars
    <3>2. PICK ok \in BOOLEAN : Send(ok)
      BY <1>1, <3>1, ExportEnds DEF BatchInv
    <3>3. PICK r \in Requests : order' = Append(order, r)
      BY <2>2, <3>1 DEF NextConsumer, Z!Offer
    <3>4. q = r \/ \E j \in DOMAIN order : order[j] = q
      <4>1. r \in Request /\ order \in Seq(Request)
        BY <3>3, RequestEntries DEF BatchInv, OrderInv
      <4>2. In(q, Append(order, r)) => In(q, order) \/ q = r
        BY <4>1, InAppended
      <4>3. QED
        BY <1>5, <3>3, <4>2 DEF In
    <3>5. \A k \in DOMAIN r : Handed(r[k])'
      BY <3>2, EntriesHanded
    <3>6. QED
      BY <1>4, <3>4, <3>5
  <2>3. QED
    BY <2>1, <2>2
<1>6. order' \in Seq(Request)
  <2>1. CASE order' = order
    BY <2>1 DEF OrderInv
  <2>2. CASE order' # order
    <3>1. NextConsumer
      BY <2>2, WorkKeepsOrder DEF PipelineNext, WorkerStep, Handover, zVars
    <3>2. PICK r \in Requests : order' = Append(order, r)
      BY <2>2, <3>1 DEF NextConsumer, Z!Offer
    <3>3. r \in Request
      BY <3>2, RequestEntries DEF BatchInv
    <3>4. QED
      BY <3>2, <3>3, AppendProperties DEF OrderInv
  <2>3. QED
    BY <2>1, <2>2
<1>7. QED
  BY <1>5, <1>6 DEF OrderInv, Handed
----------------------------------------------------------------------------
(* The theorems.                                                           *)

\* The conjuncts of PipelineInv hold at the start, and a step keeps them together.
LEMMA PipelineInvInit == PipelineInit => PipelineInv
<1> SUFFICES ASSUME PipelineInit PROVE PipelineInv
  OBVIOUS
<1>1. /\ req = EmptyMap /\ logData = EmptyMap /\ todo = <<>> /\ newItem = <<>>
      /\ added = [s \in Stream |-> <<>>] /\ calls = [c \in Caller |-> NoCall]
      /\ order = <<>>
  BY DEF PipelineInit, Init, BatchInit, Z!Init
<1>2. IsFiniteSet(DOMAIN req) /\ DOMAIN req = {} /\ DOMAIN logData = {}
  BY <1>1, EmptyMapFacts, FS_EmptySet
<1>3. DOMAIN <<>> = {}
  BY EmptySeq, LenProperties
<1>4. OnceInv
  <2>1. \A ld \in Payloads : ~InFlight(ld)
    BY <1>1, InEmpty, ProcessorAssumption DEF InFlight
  <2>2. \A r : ~Taken(r)
    BY <1>1, InEmpty DEF Taken
  <2>3. Injective(<<>>)
    BY <1>3 DEF Injective
  <2>4. unsent \subseteq Payloads
    BY DEF PipelineInit, Init
  <2>5. QED
    BY <1>1, <1>3, <2>1, <2>2, <2>3, <2>4, InEmpty DEF OnceInv
<1>5. FormatInv
  BY <1>2 DEF FormatInv
<1>6. OrderInv
  BY <1>1, <1>3, EmptySeq DEF OrderInv
<1>7. QED
  BY <1>2, <1>4, <1>5, <1>6, ProcessorInvInit DEF PipelineInv, PipelineInit

\* A step of either component keeps the invariant of the pipeline.
LEMMA PipelineInvStep == PipelineInv /\ [PipelineNext]_pipelineVars => PipelineInv'
<1> SUFFICES ASSUME PipelineInv, [PipelineNext]_pipelineVars PROVE PipelineInv'
  OBVIOUS
<1>1. ProcessorInv /\ TypeOK /\ OpFollowsPc /\ BatchInv
  BY DEF PipelineInv, ProcessorInv
<1>2. [Next]_vars
  BY DEF PipelineNext, WorkerStep, pipelineVars
<1>3. [BatchStep]_batchVars
  BY <1>1, <1>2, BatchView
<1>4. ProcessorInv' /\ OnceInv' /\ FormatInv'
  BY <1>1, <1>2, <1>3, ProcessorInvStep, OnceStep, FormatStep DEF PipelineInv
<1>5. IsFiniteSet(DOMAIN req')
  <2>1. CASE \E s \in Stream : TakeGroup(s) \/ SplitGroup(s)
    <3>1. PICK s \in Stream : TakeGroup(s) \/ SplitGroup(s)
      BY <2>1
    <3>2. DOMAIN req' = DOMAIN req \cup {s}
      BY <1>1, <3>1, FormatsMoved
    <3>3. QED
      BY <3>2, FS_AddElement DEF PipelineInv
  <2>2. CASE req' = EmptyMap
    BY <2>2, EmptyMapFacts, FS_EmptySet
  <2>3. CASE req' = req
    BY <2>3 DEF PipelineInv
  <2>4. QED
    BY <1>3, <2>1, <2>2, <2>3
       DEF BatchStep, Add, SkipRecord, PlaceRecord, NextRecord, Export, Send, batchVars
<1>6. OrderInv'
  <2>1. CASE PipelineNext
    <3>1. FormatInv /\ OrderInv /\ IsFiniteSet(DOMAIN req)
      BY DEF PipelineInv
    <3>2. QED
      BY <1>1, <2>1, <3>1, OrderInvStep
  <2>2. CASE UNCHANGED pipelineVars
    BY <2>2 DEF pipelineVars, vars, batchVars, zVars, PipelineInv, OrderInv, Handed, FormatAt
  <2>3. QED
    BY <2>1, <2>2
<1>7. QED
  BY <1>4, <1>5, <1>6 DEF PipelineInv

\* The invariant of the pipeline.
LEMMA PipelineInvariance == PipelineSpec => []PipelineInv
BY PipelineInvInit, PipelineInvStep, PTL DEF PipelineSpec

\* The processor behaves as on its own: what is proved of it alone holds in the pipeline.
THEOREM ProcessorUnchanged == PipelineSpec => Spec
<1>1. PipelineInit => Init
  BY DEF PipelineInit
<1>2. [PipelineNext]_pipelineVars => [Next]_vars
  BY DEF PipelineNext, WorkerStep, pipelineVars
<1>3. QED
  BY <1>1, <1>2, PTL DEF PipelineSpec, Spec

\* Below the exporter the batch is as it is on its own (batch_logs.go:48-81, 117-158).
THEOREM BatchInPipeline == PipelineSpec => [](LogCountIsLongest /\ StreamOrder /\ EntriesWellFormed)
<1>1. PipelineInv => LogCountIsLongest /\ StreamOrder /\ EntriesWellFormed
  BY DEF PipelineInv, ProcessorInv, BatchInv
<1>2. QED
  BY <1>1, PipelineInvariance, PTL

\* The format of an entry is that of a record of its stream placed no later than the
\* first record of the entry (batch_logs.go:132-142).
THEOREM FormatIsOfEarlierRecord == PipelineSpec => []FormatOfEarlierRecord
<1>1. ASSUME PipelineInv PROVE FormatOfEarlierRecord
  <2> SUFFICES ASSUME NEW j \in DOMAIN order, NEW k \in DOMAIN order[j]
               PROVE  \E i \in 1 .. PlaceOf(order[j][k].stream, Head(order[j][k].records)) :
                        FormatOf[added[order[j][k].stream][i]] = order[j][k].format
    BY DEF FormatOfEarlierRecord
  <2> DEFINE q == order[j]
             e == q[k]
             s == e.stream
  <2>1. q \in Request
    BY <1>1, ElementOfSeq, LenProperties DEF PipelineInv, OrderInv
  <2>2. s \in Stream
    <3>1. q \in Seq([stream : Stream, format : Format, records : Seq(Record)]) /\ k \in DOMAIN q
      BY <2>1 DEF Request
    <3> HIDE DEF q
    <3>2. q[k] \in [stream : Stream, format : Format, records : Seq(Record)]
      BY <3>1, ElementOfSeq, LenProperties
    <3>3. QED
      BY <3>2
  <2>3. PICK p \in 1 .. Len(handed[s]) : added[s][p] = Head(e.records) /\ FormatAt(s, p, e.format)
    BY <1>1 DEF PipelineInv, OrderInv, Handed
  <2>4. p \in DOMAIN added[s]
    <3>1. BatchInv
      BY <1>1 DEF PipelineInv, ProcessorInv
    <3>2. \A i \in 1 .. Len(handed[s]) : i \in DOMAIN added[s]
      BY <2>2, <3>1, StreamParts
    <3>3. QED
      BY <3>2
  <2>5. Injective(added[s])
    BY <1>1, <2>2 DEF PipelineInv, OnceInv
  <2>6. PlaceOf(s, Head(e.records)) = p
    BY <2>3, <2>4, <2>5 DEF PlaceOf, Injective
  <2>7. QED
    BY <2>3, <2>6 DEF FormatAt
<1>2. QED
  BY <1>1, PipelineInvariance, PTL
----------------------------------------------------------------------------
(* The exporter.                                                           *)

ZP == INSTANCE ZebriumExporterProofs WITH MaxEpoch <- 0

\* A single part is a sequence, and not an empty one.
LEMMA OnePart ==
  ASSUME NEW A, NEW a \in A
  PROVE  <<a>> \in Seq(A) \ {<<>>}
<1> DEFINE one == <<a>>
<1>1. one \in Seq(A) /\ Len(one) = 1
  OBVIOUS
<1> HIDE DEF one
<1>2. Len(<<>>) = 0
  BY EmptySeq
<1> DEFINE none == <<>>
<1>3. Len(none) = 0
  BY <1>2
<1> HIDE DEF none
<1>4. one # none
  BY <1>1, <1>3
<1>5. QED
  BY <1>1, <1>4 DEF one, none

\* Every entry the processor builds has what pushLogs looks at.
LEMMA EntriesPresent ==
  /\ EntriesOf \in [Request -> Seq(Z!ResourceEntry)]
  /\ \A q \in Request : \A k \in 1 .. Len(EntriesOf[q]) : EntriesOf[q][k].sl_msg = "present"
<1> DEFINE S == [stream : Stream, format : Format, records : Seq(Record)]
<1>1. ASSUME NEW q \in Request
      PROVE  /\ EntriesOf[q] \in Seq(Z!ResourceEntry)
             /\ \A k \in 1 .. Len(EntriesOf[q]) : EntriesOf[q][k].sl_msg = "present"
  <2>1. q \in Seq(S)
    BY DEF Request
  <2>2. Len(q) \in Nat /\ DOMAIN q = 1 .. Len(q) /\ \A k \in 1 .. Len(q) : q[k] \in S
    BY <2>1, LenProperties, ElementOfSeq
  <2>3. EntriesOf[q] = [k \in 1 .. Len(q) |-> Attributes(q[k])]
    BY <2>2 DEF EntriesOf
  <2>4. \A k \in 1 .. Len(q) : /\ Attributes(q[k]) \in Z!ResourceEntry
                               /\ Attributes(q[k]).sl_msg = "present"
    <3> SUFFICES ASSUME NEW k \in 1 .. Len(q)
                 PROVE  Attributes(q[k]) \in Z!ResourceEntry /\ Attributes(q[k]).sl_msg = "present"
      OBVIOUS
    <3> DEFINE f == q[k].format
               parts == <<f>>
               text == STRING
    <3>1. f \in text
      BY <2>2, PipelineExporterAssumption
    <3> HIDE DEF f, text
    <3>2. parts \in Seq(text) \ {<<>>}
      BY <3>1, OnePart
    <3>3. Attributes(q[k]) = [sl_metadata |-> TRUE, sl_msg |-> "present", sl_format |-> parts]
      BY DEF Attributes, f
    <3> HIDE DEF parts
    <3>4. QED
      BY <3>2, <3>3 DEF Z!ResourceEntry, text
  <2>5. EntriesOf[q] \in [1 .. Len(q) -> Z!ResourceEntry]
    BY <2>3, <2>4
  <2>6. EntriesOf[q] \in Seq(Z!ResourceEntry)
    BY <2>2, <2>5, SeqDef
  <2>7. 1 .. Len(EntriesOf[q]) = 1 .. Len(q)
    BY <2>3, <2>6, LenProperties
  <2>8. QED
    BY <2>3, <2>4, <2>6, <2>7
<1>2. QED
  BY <1>1 DEF EntriesOf

\* The parameters of the exporter are as its module assumes.
LEMMA ExporterAssumptionHolds == Z!ExporterAssumption /\ ZP!ExporterAssumption
BY EntriesPresent, PipelineExporterAssumption
   DEF Z!ExporterAssumption, ZP!ExporterAssumption, Z!ResourceEntry, ZP!ResourceEntry

\* No call crashes, so the pipeline only takes steps of the exporter that the exporter
\* takes on its own.
ExporterInv == ZP!TypeOK /\ ZP!CallsInRange /\ ~panicked

\* A step of the pipeline is one of the exporter, or leaves it alone.
LEMMA ExporterView ==
  ASSUME PipelineInv, ~panicked, [PipelineNext]_pipelineVars
  PROVE  [Z!Next]_zVars
<1>1. ASSUME NEW w \in Worker, WorkerStep(w) PROVE Z!Next
  BY <1>1 DEF WorkerStep, Z!Next
<1>2. ASSUME NextConsumer PROVE Z!Next
  <2>1. PICK q \in Requests : Z!Offer(q)
    BY <1>2 DEF NextConsumer
  <2>2. q \in Request
    BY RequestEntries DEF PipelineInv, ProcessorInv, BatchInv
  <2>3. QED
    BY <2>1, <2>2 DEF Z!Next
<1>3. QED
  BY <1>1, <1>2 DEF PipelineNext, Handover, pipelineVars

\* Both instances of the exporter take the same steps.
LEMMA SameOffer ==
  ASSUME NEW q \in Request
  PROVE  Z!Offer(q) <=> ZP!Offer(q)
BY DEF Z!Offer, ZP!Offer, Z!HasRoom, ZP!HasRoom

\* So do their workers.
LEMMA SameSteps ==
  ASSUME NEW w \in Worker
  PROVE  /\ Z!Take(w) <=> ZP!Take(w)
         /\ Z!BeginEntry(w) <=> ZP!BeginEntry(w)
         /\ Z!GetStreamToken(w) <=> ZP!GetStreamToken(w)
         /\ Z!Unauthorized(w) <=> ZP!Unauthorized(w)
         /\ \A a \in Answers : Z!Post(w, a) <=> ZP!Post(w, a)
         /\ Z!PushLogsReturns(w) <=> ZP!PushLogsReturns(w)
         /\ Z!Retry(w) <=> ZP!Retry(w)
         /\ Z!GiveUp(w) <=> ZP!GiveUp(w)
<1>1. Z!NoToken = ZP!NoToken /\ Z!Idle = ZP!Idle
  BY DEF Z!NoToken, ZP!NoToken, Z!Idle, ZP!Idle
<1>2. Z!Entries(w) = ZP!Entries(w) /\ Z!Entry(w) = ZP!Entry(w)
  BY DEF Z!Entries, ZP!Entries, Z!Entry, ZP!Entry
<1>3. \A e : Z!Malformed(e) = ZP!Malformed(e) /\ Z!Crashes(e) = ZP!Crashes(e)
  BY DEF Z!Malformed, ZP!Malformed, Z!Crashes, ZP!Crashes,
         Z!getStreamTokenRequestFails, ZP!getStreamTokenRequestFails,
         Z!marshalLogsFails, ZP!marshalLogsFails,
         Z!validateResourceElemFails, ZP!validateResourceElemFails
<1>4. ASSUME NEW p PROVE Z!Continue(w, p) <=> ZP!Continue(w, p)
  BY DEF Z!Continue, ZP!Continue
<1>5. Z!Take(w) <=> ZP!Take(w)
  BY <1>1 DEF Z!Take, ZP!Take
<1>6. Z!BeginEntry(w) <=> ZP!BeginEntry(w)
  BY <1>1, <1>2, <1>3, <1>4 DEF Z!BeginEntry, ZP!BeginEntry
<1>7. Z!GetStreamToken(w) <=> ZP!GetStreamToken(w)
  BY <1>1, <1>4 DEF Z!GetStreamToken, ZP!GetStreamToken
<1>8. Z!Unauthorized(w) <=> ZP!Unauthorized(w)
  BY <1>1, <1>4 DEF Z!Unauthorized, ZP!Unauthorized, Z!AfterUnauthorized, ZP!AfterUnauthorized
<1>9. \A a \in Answers : Z!Post(w, a) <=> ZP!Post(w, a)
  BY <1>4 DEF Z!Post, ZP!Post, Z!AfterPost, ZP!AfterPost
<1>10. Z!PushLogsReturns(w) <=> ZP!PushLogsReturns(w)
  BY <1>1, <1>2 DEF Z!PushLogsReturns, ZP!PushLogsReturns
<1>11. Z!Retry(w) <=> ZP!Retry(w)
  BY <1>4 DEF Z!Retry, ZP!Retry
<1>12. Z!GiveUp(w) <=> ZP!GiveUp(w)
  BY <1>1 DEF Z!GiveUp, ZP!GiveUp, Z!AfterLastAttempt, ZP!AfterLastAttempt
<1>13. QED
  BY <1>5, <1>6, <1>7, <1>8, <1>9, <1>10, <1>11, <1>12

\* Both instances of the exporter are the same.
LEMMA SameExporter ==
  /\ [Z!Next]_zVars <=> [ZP!Next]_(ZP!vars)
  /\ Z!Init <=> ZP!Init
<1>1. Z!NoToken = ZP!NoToken /\ Z!Idle = ZP!Idle
  BY DEF Z!NoToken, ZP!NoToken, Z!Idle, ZP!Idle
<1>2. ASSUME NEW w \in Worker PROVE Z!Work(w) <=> ZP!Work(w)
  BY SameSteps DEF Z!Work, ZP!Work
<1>3. ASSUME NEW q \in Request PROVE Z!Offer(q) <=> ZP!Offer(q)
  BY SameOffer
<1>4. Z!Next <=> ZP!Next
  <2>1. Z!Expire <=> ZP!Expire
    BY DEF Z!Expire, ZP!Expire
  <2>2. Z!Quiet <=> ZP!Quiet
    BY DEF Z!Quiet, ZP!Quiet, Z!vars, ZP!vars
  <2>3. QED
    BY <1>2, <1>3, <2>1, <2>2 DEF Z!Next, ZP!Next
<1>5. QED
  BY <1>1, <1>4 DEF zVars, ZP!vars, Z!Init, ZP!Init

\* An entry of a request never lacks sl_msg, so no step of a worker crashes the collector.
LEMMA NoCrash ==
  ASSUME ExporterInv, NEW w \in Worker, Z!Work(w)
  PROVE  ~panicked'
<1>1. CASE Z!BeginEntry(w)
  <2>1. pushes[w].pc = "entry" /\ pushes[w].i <= Len(Z!Entries(w))
    BY <1>1 DEF Z!BeginEntry
  <2>2. pushes[w].request \in Request
    BY <2>1, ExporterAssumptionHolds, ZP!BusyWorker DEF ExporterInv
  <2>3. pushes[w].i \in 1 .. Len(Z!Entries(w))
    <3>1. pushes[w].i \in Nat /\ pushes[w].i >= 1
      BY <2>1 DEF ExporterInv, ZP!TypeOK, ZP!Push, ZP!CallsInRange
    <3>2. Len(Z!Entries(w)) \in Nat
      BY <2>2, EntriesPresent, LenProperties DEF Z!Entries
    <3>3. QED
      BY <2>1, <3>1, <3>2
  <2>4. Z!Entry(w).sl_msg = "present"
    BY <2>2, <2>3, EntriesPresent DEF Z!Entry, Z!Entries
  <2>5. ~Z!Crashes(Z!Entry(w))
    BY <2>4 DEF Z!Crashes
  <2>6. QED
    BY <1>1, <2>5 DEF Z!BeginEntry, Z!Continue, ExporterInv
<1>2. CASE ~Z!BeginEntry(w)
  BY <1>2 DEF ExporterInv, Z!Work, Z!Take, Z!GetStreamToken, Z!Unauthorized, Z!Post,
              Z!PushLogsReturns, Z!Retry, Z!GiveUp, Z!Continue
<1>3. QED
  BY <1>1, <1>2

\* The exporter starts without a call, and no step makes one that crashes.
LEMMA ExporterInvInit == PipelineInit => ExporterInv
<1> SUFFICES ASSUME PipelineInit PROVE ExporterInv
  OBVIOUS
<1>1. Z!Init
  BY DEF PipelineInit
<1>2. ZP!TypeOK /\ ZP!CallsInRange
  BY <1>1, SameExporter, ExporterAssumptionHolds, ZP!InitTypeOK, ZP!InitCallsInRange
<1>3. QED
  BY <1>1, <1>2 DEF ExporterInv, Z!Init

\* A step of the pipeline is one the lemmas about the exporter apply to.
LEMMA ExporterInvStep ==
  PipelineInv /\ ExporterInv /\ [PipelineNext]_pipelineVars => ExporterInv'
<1> SUFFICES ASSUME PipelineInv, ExporterInv, [PipelineNext]_pipelineVars PROVE ExporterInv'
  OBVIOUS
<1>1. [ZP!Next]_(ZP!vars)
  BY ExporterView, SameExporter DEF ExporterInv
<1>2. ZP!TypeOK' /\ ZP!CallsInRange'
  BY <1>1, ExporterAssumptionHolds, ZP!StepTypeOK, ZP!StepCallsInRange DEF ExporterInv
<1>3. ~panicked'
  <2>1. ASSUME NEW w \in Worker, WorkerStep(w) PROVE ~panicked'
    BY <2>1, NoCrash DEF WorkerStep
  <2>2. CASE NextConsumer
    BY <2>2 DEF NextConsumer, Z!Offer, ExporterInv
  <2>3. QED
    BY <2>1, <2>2 DEF PipelineNext, Handover, zVars, pipelineVars, ExporterInv
<1>4. QED
  BY <1>2, <1>3 DEF ExporterInv

\* The invariants of both sides.
LEMMA ExporterInvariance == PipelineSpec => [](PipelineInv /\ ExporterInv)
BY PipelineInvInit, PipelineInvStep, ExporterInvInit, ExporterInvStep, PTL DEF PipelineSpec

\* The exporter behaves as on its own with the requests of the processor, and none of
\* them crashes the collector: addToBatch has set sl_msg of every record
\* (batch_logs.go:143, zebrium_exporter.go:145-148).
THEOREM ExporterUnchanged == PipelineSpec => Z!Spec /\ []~panicked
<1>1. PipelineInit => Z!Init
  BY DEF PipelineInit
<1>2. PipelineInv /\ ExporterInv /\ [PipelineNext]_pipelineVars => [Z!Next]_(Z!vars)
  BY ExporterView DEF ExporterInv, zVars, Z!vars
<1>3. ExporterInv => ~panicked
  BY DEF ExporterInv
<1>4. QED
  BY <1>1, <1>2, <1>3, ExporterInvariance, PTL DEF PipelineSpec, Z!Spec
----------------------------------------------------------------------------
(* What is not stored of a sequence of requests.                           *)

RequestEntry == [stream : Stream, format : Format, records : Seq(Record)]

\* The entries of a request.
LEMMA EntryOfRequest ==
  ASSUME NEW q \in Request
  PROVE  /\ Len(q) \in Nat /\ DOMAIN q = 1 .. Len(q)
         /\ \A k \in DOMAIN q : q[k] \in RequestEntry /\ q[k].stream \in Stream
                                /\ q[k].records \in Seq(Record)
<1>1. q \in Seq(RequestEntry)
  BY DEF Request, RequestEntry
<1>2. Len(q) \in Nat /\ DOMAIN q = 1 .. Len(q) /\ \A k \in DOMAIN q : q[k] \in RequestEntry
  BY <1>1, LenProperties, ElementOfSeq
<1>3. QED
  BY <1>2 DEF RequestEntry

\* The records of a stream in a request that has one entry of it, not stored yet.
LEMMA RestOfEntry ==
  ASSUME NEW q, NEW st, NEW k \in DOMAIN q, <<q, k>> \notin st,
         \A l \in DOMAIN q : q[l].stream = q[k].stream => l = k
  PROVE  Rest(q, q[k].stream, st) = q[k].records
<1> DEFINE ks == {l \in DOMAIN q : q[l].stream = q[k].stream /\ <<q, l>> \notin st}
<1>1. ks = {k}
  OBVIOUS
<1>2. (CHOOSE l \in ks : TRUE) = k
  BY <1>1
<1>3. QED
  BY <1>1, <1>2 DEF Rest

\* Nothing is left of a stream whose entries are stored.
LEMMA RestStored ==
  ASSUME NEW q, NEW st, NEW s, \A k \in DOMAIN q : q[k].stream = s => <<q, k>> \in st
  PROVE  Rest(q, s, st) = <<>>
BY DEF Rest

\* The entries not stored.
Chosen(S) == CHOOSE x \in S : TRUE
Left(q, s, st) == {k \in DOMAIN q : q[k].stream = s /\ <<q, k>> \notin st}

\* The records left are those of one of these.
LEMMA RestIs ==
  ASSUME NEW q, NEW s, NEW st
  PROVE  Rest(q, s, st) = IF Left(q, s, st) = {} THEN <<>>
                          ELSE q[Chosen(Left(q, s, st))].records
BY DEF Rest, Left, Chosen

\* Only what is stored of the request itself matters.
LEMMA RestSame ==
  ASSUME NEW q, NEW s, NEW st1, NEW st2,
         \A k \in DOMAIN q : q[k].stream = s => (<<q, k>> \in st1 <=> <<q, k>> \in st2)
  PROVE  Rest(q, s, st1) = Rest(q, s, st2)
<1>1. Left(q, s, st1) = Left(q, s, st2)
  BY DEF Left
<1>2. QED
  BY <1>1, RestIs

\* What is left is of an entry that is not stored.
LEMMA RestFrom ==
  ASSUME NEW q, NEW s, NEW st, Rest(q, s, st) # <<>>
  PROVE  \E k \in DOMAIN q : /\ q[k].stream = s /\ <<q, k>> \notin st
                             /\ Rest(q, s, st) = q[k].records
<1> DEFINE k == Chosen(Left(q, s, st))
<1>1. Left(q, s, st) # {} /\ Rest(q, s, st) = q[k].records
  BY RestIs
<1>2. k \in Left(q, s, st)
  BY <1>1 DEF Chosen
<1> HIDE DEF k
<1>3. k \in DOMAIN q /\ q[k].stream = s /\ <<q, k>> \notin st
  BY <1>2 DEF Left
<1>4. QED
  BY <1>1, <1>3

\* It is a sequence of records.
LEMMA RestType ==
  ASSUME NEW q \in Request, NEW s, NEW st
  PROVE  Rest(q, s, st) \in Seq(Record)
<1>1. CASE Rest(q, s, st) = <<>>
  BY <1>1
<1>2. CASE Rest(q, s, st) # <<>>
  <2>1. PICK k \in DOMAIN q : /\ q[k].stream = s /\ <<q, k>> \notin st
                              /\ Rest(q, s, st) = q[k].records
    BY <1>2, RestFrom
  <2>2. QED
    BY <2>1, EntryOfRequest
<1>3. QED
  BY <1>1, <1>2

\* The same of a sequence of requests, one after the other.
RestsOf(qs, s, st) == [j \in DOMAIN qs |-> Rest(qs[j], s, st)]
Pieces(qs, s, st) == FlattenSeq(RestsOf(qs, s, st))

\* A sequence of requests gives as many sequences of records.
LEMMA RestsType ==
  ASSUME NEW qs \in Seq(Request), NEW s, NEW st
  PROVE  /\ RestsOf(qs, s, st) \in Seq(Seq(Record))
         /\ Len(RestsOf(qs, s, st)) = Len(qs)
         /\ Pieces(qs, s, st) \in Seq(Record)
<1>1. DOMAIN qs = 1 .. Len(qs) /\ Len(qs) \in Nat /\ \A j \in 1 .. Len(qs) : qs[j] \in Request
  BY LenProperties, ElementOfSeq
<1>2. RestsOf(qs, s, st) = [j \in 1 .. Len(qs) |-> Rest(qs[j], s, st)]
  BY <1>1 DEF RestsOf
<1>3. RestsOf(qs, s, st) \in [1 .. Len(qs) -> Seq(Record)]
  BY <1>1, <1>2, RestType
<1>4. RestsOf(qs, s, st) \in Seq(Seq(Record))
  BY <1>1, <1>3, SeqDef
<1>5. DOMAIN RestsOf(qs, s, st) = 1 .. Len(RestsOf(qs, s, st)) /\ Len(RestsOf(qs, s, st)) \in Nat
  BY <1>4, LenProperties
<1>6. Len(RestsOf(qs, s, st)) = Len(qs)
  BY <1>1, <1>2, <1>5
<1>7. QED
  BY <1>4, <1>6, FlattenSeqType DEF Pieces

\* The requests of two sequences.
LEMMA PiecesConcat ==
  ASSUME NEW qs \in Seq(Request), NEW rs \in Seq(Request), NEW s, NEW st
  PROVE  Pieces(qs \o rs, s, st) = Pieces(qs, s, st) \o Pieces(rs, s, st)
<1> DEFINE f == RestsOf(qs, s, st)
           g == RestsOf(rs, s, st)
           h == RestsOf(qs \o rs, s, st)
<1>1. /\ f \in Seq(Seq(Record)) /\ Len(f) = Len(qs) /\ Len(qs) \in Nat
      /\ g \in Seq(Seq(Record)) /\ Len(g) = Len(rs) /\ Len(rs) \in Nat
  BY RestsType, LenProperties
<1>2. qs \o rs \in Seq(Request) /\ Len(qs \o rs) = Len(qs) + Len(rs)
      /\ \A i \in 1 .. Len(qs) + Len(rs) :
           (qs \o rs)[i] = IF i <= Len(qs) THEN qs[i] ELSE rs[i - Len(qs)]
  BY ConcatProperties
<1>3. h \in Seq(Seq(Record)) /\ Len(h) = Len(qs) + Len(rs)
  BY <1>2, RestsType
<1>4. \A i \in 1 .. Len(qs) + Len(rs) : h[i] = Rest((qs \o rs)[i], s, st)
  BY <1>2, LenProperties DEF RestsOf
<1>5. /\ \A i \in 1 .. Len(qs) : f[i] = Rest(qs[i], s, st)
      /\ \A i \in 1 .. Len(rs) : g[i] = Rest(rs[i], s, st)
  BY LenProperties DEF RestsOf
<1> HIDE DEF f, g, h
<1>6. f \o g \in Seq(Seq(Record)) /\ Len(f \o g) = Len(f) + Len(g)
      /\ \A i \in 1 .. Len(f) + Len(g) :
           (f \o g)[i] = IF i <= Len(f) THEN f[i] ELSE g[i - Len(f)]
  BY <1>1, ConcatProperties
<1>7. \A i \in 1 .. Len(h) : h[i] = (f \o g)[i]
  <2> SUFFICES ASSUME NEW i \in 1 .. Len(h) PROVE h[i] = (f \o g)[i]
    OBVIOUS
  <2>1. i \in 1 .. Len(qs) + Len(rs) /\ i \in 1 .. Len(f) + Len(g)
    BY <1>1, <1>3
  <2>2. CASE i <= Len(qs)
    <3>1. i \in 1 .. Len(qs)
      BY <1>1, <2>1, <2>2
    <3>2. h[i] = Rest(qs[i], s, st) /\ (f \o g)[i] = f[i]
      BY <1>1, <1>2, <1>4, <1>6, <2>1, <2>2
    <3>3. QED
      BY <1>5, <3>1, <3>2
  <2>3. CASE ~(i <= Len(qs))
    <3>1. i - Len(qs) \in 1 .. Len(rs)
      BY <1>1, <2>1, <2>3
    <3>2. h[i] = Rest(rs[i - Len(qs)], s, st) /\ (f \o g)[i] = g[i - Len(qs)]
      BY <1>1, <1>2, <1>4, <1>6, <2>1, <2>3
    <3>3. QED
      BY <1>5, <3>1, <3>2
  <2>4. QED
    BY <2>2, <2>3
<1>8. h = f \o g
  BY <1>1, <1>3, <1>6, <1>7, SeqEqual
<1>9. FlattenSeq(f \o g) = FlattenSeq(f) \o FlattenSeq(g)
  BY <1>1, FlattenSeqConcat
<1>10. QED
  BY <1>8, <1>9 DEF Pieces, f, g, h

\* A single request.
LEMMA PiecesOne ==
  ASSUME NEW q \in Request, NEW s, NEW st
  PROVE  Pieces(<<q>>, s, st) = Rest(q, s, st)
<1>1. RestsOf(<<q>>, s, st) = <<Rest(q, s, st)>>
  BY DEF RestsOf
<1>2. QED
  BY <1>1, RestType, FlattenSeqOne DEF Pieces

\* No request.
LEMMA PiecesNone ==
  ASSUME NEW s, NEW st
  PROVE  Pieces(<<>>, s, st) = <<>>
<1>1. RestsOf(<<>>, s, st) = <<>>
  BY DEF RestsOf
<1>2. QED
  BY <1>1, FlattenSeqEmpty DEF Pieces

\* Only what is stored of these requests matters.
LEMMA PiecesSame ==
  ASSUME NEW qs \in Seq(Request), NEW s, NEW st1, NEW st2,
         \A j \in DOMAIN qs : \A k : <<qs[j], k>> \in st1 <=> <<qs[j], k>> \in st2
  PROVE  Pieces(qs, s, st1) = Pieces(qs, s, st2)
<1>1. \A j \in DOMAIN qs : Rest(qs[j], s, st1) = Rest(qs[j], s, st2)
  BY RestSame
<1>2. RestsOf(qs, s, st1) = RestsOf(qs, s, st2)
  BY <1>1 DEF RestsOf
<1>3. QED
  BY <1>2 DEF Pieces

\* A record on the way is of an entry of one of the requests.
OfEntry(x, qs, s, st) ==
  \E j \in DOMAIN qs : \E k \in DOMAIN qs[j] :
    /\ qs[j][k].stream = s /\ <<qs[j], k>> \notin st /\ In(x, qs[j][k].records)

LEMMA PiecesFrom ==
  ASSUME NEW qs \in Seq(Request), NEW s, NEW st, NEW x, In(x, Pieces(qs, s, st))
  PROVE  OfEntry(x, qs, s, st)
<1> DEFINE f == RestsOf(qs, s, st)
<1>1. f \in Seq(Seq(Record)) /\ DOMAIN f = DOMAIN qs
  BY RestsType DEF RestsOf
<1>2. PICK i \in DOMAIN FlattenSeq(f) : FlattenSeq(f)[i] = x
  BY DEF In, Pieces
<1>3. PICK j \in DOMAIN f : \E m \in DOMAIN f[j] : f[j][m] = x
  <2>1. f \in Seq(Seq(Record)) /\ i \in DOMAIN FlattenSeq(f)
    BY <1>1, <1>2
  <2> HIDE DEF f
  <2>2. QED
    BY <1>2, <2>1, FlattenSeqElement
<1>4. j \in DOMAIN qs /\ f[j] = Rest(qs[j], s, st)
  BY <1>1, <1>3 DEF RestsOf
<1>5. In(x, Rest(qs[j], s, st))
  BY <1>3, <1>4 DEF In
<1>6. Rest(qs[j], s, st) # <<>>
  BY <1>5, InEmpty
<1> DEFINE q == qs[j]
<1>7. In(x, Rest(q, s, st)) /\ Rest(q, s, st) # <<>>
  BY <1>5, <1>6
<1> HIDE DEF q
<1>8. PICK k \in DOMAIN q : /\ q[k].stream = s /\ <<q, k>> \notin st
                            /\ Rest(q, s, st) = q[k].records
  BY <1>7, RestFrom
<1>9. In(x, q[k].records)
  BY <1>7, <1>8
<1>10. QED
  BY <1>4, <1>8, <1>9 DEF q, OfEntry
----------------------------------------------------------------------------
(* What the steps of the worker do to the requests.                        *)

\* The worker takes the request at the head of the queue.
Takes(w) == /\ queue # <<>> /\ queue' = Tail(queue)
            /\ UNCHANGED <<accepted, order, refused, acked, dropped>>
            /\ pushes[w].pc = "idle" /\ pushes'[w].pc # "idle"
            /\ pushes'[w].request = Head(queue)

\* Its call goes on, and stores nothing, or the entry at hand.
GoesOn(w) == /\ UNCHANGED <<queue, order, refused, acked, dropped>>
             /\ pushes[w].pc # "idle" /\ pushes'[w].pc # "idle"
             /\ pushes'[w].request = pushes[w].request
Stores(w) == /\ pushes[w].pc = "send"
             /\ accepted' = Append(accepted, <<pushes[w].request, pushes[w].i>>)

\* It ends, for good or ill.
Ends(w) == /\ UNCHANGED <<queue, order, refused, accepted>>
           /\ pushes[w].pc # "idle" /\ pushes'[w].pc = "idle"
Acks(w) == /\ pushes[w].pc = "entry"
           /\ pushes[w].i > Len(EntriesOf[pushes[w].request])
           /\ acked' = acked \cup {pushes[w].request} /\ dropped' = dropped
Drops(w) == dropped' = dropped \cup {pushes[w].request} /\ acked' = acked

\* There is nothing else a worker does.
LEMMA WorkerCases ==
  ASSUME ZP!TypeOK, NEW w \in Worker, WorkerStep(w)
  PROVE  /\ UNCHANGED vars
         /\ \/ Takes(w)
            \/ GoesOn(w) /\ (accepted' = accepted \/ Stores(w))
            \/ Ends(w) /\ (Acks(w) \/ Drops(w))
<1>1. UNCHANGED vars /\ Z!Work(w)
  BY DEF WorkerStep
<1>2. CASE Z!Take(w)
  <2>1. ZP!Take(w)
    BY <1>2, SameSteps
  <2>2. QED
    BY <1>1, <2>1, ExporterAssumptionHolds, ZP!TakeEffect DEF Takes
<1>3. CASE \/ Z!BeginEntry(w) \/ Z!GetStreamToken(w) \/ Z!Unauthorized(w) \/ Z!Retry(w)
           \/ \E a \in Answers : Z!Post(w, a)
  <2>1. \/ ZP!BeginEntry(w) \/ ZP!GetStreamToken(w) \/ ZP!Unauthorized(w) \/ ZP!Retry(w)
        \/ \E a \in Answers : ZP!Post(w, a)
    BY <1>3, SameSteps
  <2>2. GoesOn(w)
    BY <2>1, ExporterAssumptionHolds, ZP!WithinCallEffect DEF ZP!WithinCall, GoesOn
  <2>3. accepted' = accepted \/ Stores(w)
    BY <1>3 DEF Z!BeginEntry, Z!GetStreamToken, Z!Unauthorized, Z!Retry, Z!Post, Stores
  <2>4. QED
    BY <1>1, <2>2, <2>3
<1>4. CASE Z!PushLogsReturns(w)
  <2>1. ZP!PushLogsReturns(w)
    BY <1>4, SameSteps
  <2>2. Ends(w)
    BY <2>1, ExporterAssumptionHolds, ZP!EndEffect DEF Ends
  <2>3. Acks(w)
    BY <1>4 DEF Z!PushLogsReturns, Z!Entries, Acks
  <2>4. QED
    BY <1>1, <2>2, <2>3
<1>5. CASE Z!GiveUp(w)
  <2>1. ZP!GiveUp(w)
    BY <1>5, SameSteps
  <2>2. Ends(w)
    BY <2>1, ExporterAssumptionHolds, ZP!EndEffect DEF Ends
  <2>3. Drops(w)
    BY <1>5 DEF Z!GiveUp, Z!AfterLastAttempt, Drops
  <2>4. QED
    BY <1>1, <2>2, <2>3
<1>6. QED
  BY <1>1, <1>2, <1>3, <1>4, <1>5 DEF Z!Work

\* A step of the processor is one of the batch with the exporter at rest, or the call of
\* the next consumer.
AtRest == /\ UNCHANGED <<handed, failed>>
          /\ UNCHANGED zVars
          /\ PlaceRecord \/ UNCHANGED <<Waiting, added>>
Hands == NextConsumer /\ \E ok \in BOOLEAN : Send(ok)

\* There is nothing else the processor does.
LEMMA ProcessorCases ==
  ASSUME PipelineInv, Next, Handover
  PROVE  AtRest \/ Hands
<1>1. TypeOK /\ BatchInv /\ BatchTypeOK /\ EntriesWellFormed
  BY DEF PipelineInv, ProcessorInv, BatchInv
<1>2. [BatchStep]_batchVars
  BY <1>1, BatchView
<1>3. CASE op = "export" /\ op' = "idle"
  BY <1>1, <1>2, <1>3, ExportEnds DEF Handover, Hands
<1>4. CASE ~(op = "export" /\ op' = "idle")
  <2>1. UNCHANGED zVars
    BY <1>4 DEF Handover
  <2>2. ~\E ok \in BOOLEAN : Send(ok)
    BY <1>4 DEF Send
  <2>3. CASE PlaceRecord
    <3>1. handed' = handed
      BY <1>1, <2>3, PlaceRecordEffect
    <3>2. failed' = failed
      BY <2>3 DEF PlaceRecord, NextRecord
    <3>3. QED
      BY <2>1, <2>3, <3>1, <3>2 DEF AtRest
  <2>4. ASSUME NEW s \in Stream, TakeGroup(s) \/ SplitGroup(s) PROVE AtRest
    <3>1. Waiting' = Waiting /\ UNCHANGED <<handed, added>>
      BY <1>1, <2>4, MoveEffect
    <3>2. failed' = failed
      BY <2>4 DEF TakeGroup, SplitGroup, VisitKey
    <3>3. QED
      BY <2>1, <3>1, <3>2 DEF AtRest
  <2>5. CASE \/ \E ld \in Payloads : Add(ld)
             \/ SkipRecord
             \/ Export
             \/ UNCHANGED batchVars
    <3>1. Waiting' = Waiting /\ UNCHANGED <<handed, added>>
      BY <1>1, <2>5, OtherEffect
    <3>2. failed' = failed
      BY <2>5 DEF Add, SkipRecord, NextRecord, Export, batchVars
    <3>3. QED
      BY <2>1, <3>1, <3>2 DEF AtRest
  <2>6. QED
    BY <1>2, <2>2, <2>3, <2>4, <2>5 DEF BatchStep
<1>5. QED
  BY <1>3, <1>4

\* The modules of the abstract specification leave elements out in the same way.
LEMMA SameWithout == \A s, X : LD!Without(s, X) = Without(s, X)
<1>1. \A q : LD!FlattenSeq(q) = FlattenSeq(q)
  BY DEF LD!FlattenSeq, FlattenSeq
<1>2. QED
  BY <1>1 DEF LD!Without, Without
----------------------------------------------------------------------------
(* Where the records are.                                                  *)

\* In and Has are the same.
LEMMA InIsHas == \A x, q : In(x, q) <=> Has(q, x)
BY DEF In, Has

\* What is in one of two sequences is in their concatenation, and nothing else.
LEMMA InConcat ==
  ASSUME NEW S, NEW p \in Seq(S), NEW q \in Seq(S), NEW x
  PROVE  In(x, p \o q) <=> In(x, p) \/ In(x, q)
<1>1. Has(p \o q, x) <=> Has(p, x) \/ Has(q, x)
  BY ConcatElements
<1>2. QED
  BY <1>1, InIsHas

\* Both parts of an injective concatenation have no element in common.
LEMMA ConcatApart ==
  ASSUME NEW S, NEW p \in Seq(S), NEW q \in Seq(S), Injective(p \o q), NEW x, In(x, p)
  PROVE  ~In(x, q)
<1> SUFFICES ASSUME In(x, q) PROVE FALSE
  OBVIOUS
<1>1. PICK i \in DOMAIN p : p[i] = x
  BY DEF In
<1>2. PICK j \in DOMAIN q : q[j] = x
  BY DEF In
<1>3. /\ Len(p) \in Nat /\ Len(q) \in Nat /\ i \in 1 .. Len(p) /\ j \in 1 .. Len(q)
  BY LenProperties
<1> DEFINE pq == p \o q
<1>4. /\ pq \in Seq(S) /\ Len(pq) = Len(p) + Len(q)
      /\ \A k \in 1 .. Len(p) + Len(q) : pq[k] = IF k <= Len(p) THEN p[k] ELSE q[k - Len(p)]
  BY ConcatProperties
<1> HIDE DEF pq
<1>5. DOMAIN pq = 1 .. Len(p) + Len(q)
  BY <1>4, LenProperties
<1>6. /\ i \in 1 .. Len(p) + Len(q) /\ i <= Len(p)
      /\ Len(p) + j \in 1 .. Len(p) + Len(q) /\ ~(Len(p) + j <= Len(p))
      /\ (Len(p) + j) - Len(p) = j /\ i # Len(p) + j
  BY <1>3
<1>7. pq[i] = x /\ pq[Len(p) + j] = x
  BY <1>1, <1>2, <1>4, <1>6
<1>8. QED
  BY <1>5, <1>6, <1>7 DEF Injective, pq

\* A record placed is in the stream the constants say.
StreamInv == \A s \in Stream : \A x : In(x, added[s]) => StreamOf[x] = s

\* A record handed over does not wait any more, and one in the request does not wait in a
\* group.
LEMMA RecordsApart ==
  ASSUME BatchInv, OnceInv, StreamInv, NEW s \in Stream, NEW t \in Stream, NEW x
  PROVE  /\ In(x, RecordsIn(req, s)) => ~In(x, handed[t]) /\ ~In(x, RecordsIn(logData, t))
         /\ In(x, Waiting[s]) => ~In(x, handed[t])
         /\ In(x, Waiting[s]) <=> In(x, RecordsIn(req, s)) \/ In(x, RecordsIn(logData, s))
<1>1. ASSUME NEW u \in Stream
      PROVE  /\ handed[u] \in Seq(Record) /\ Waiting[u] \in Seq(Record)
             /\ RecordsIn(req, u) \in Seq(Record) /\ RecordsIn(logData, u) \in Seq(Record)
             /\ Waiting[u] = RecordsIn(req, u) \o RecordsIn(logData, u)
             /\ added[u] = handed[u] \o Waiting[u]
             /\ Injective(added[u])
  <2>1. /\ handed[u] \in Seq(Record)
        /\ RecordsIn(req, u) \in Seq(Record) /\ RecordsIn(logData, u) \in Seq(Record)
    BY Triple DEF BatchInv
  <2>2. Waiting[u] = RecordsIn(req, u) \o RecordsIn(logData, u)
    BY DEF Waiting
  <2>3. Waiting[u] \in Seq(Record)
    BY <2>1, <2>2, ConcatProperties
  <2>4. added[u] = handed[u] \o Waiting[u]
    BY <2>2 DEF BatchInv, StreamOrder
  <2>5. QED
    BY <2>1, <2>2, <2>3, <2>4 DEF OnceInv
<1>2. ASSUME NEW u \in Stream
      PROVE  /\ In(x, added[u]) <=> In(x, handed[u]) \/ In(x, Waiting[u])
             /\ In(x, Waiting[u]) <=> In(x, RecordsIn(req, u)) \/ In(x, RecordsIn(logData, u))
             /\ In(x, handed[u]) => ~In(x, Waiting[u])
  <2> DEFINE a == handed[u]
             b == RecordsIn(req, u)
             c == RecordsIn(logData, u)
             d == Waiting[u]
  <2>0. /\ a \in Seq(Record) /\ b \in Seq(Record) /\ c \in Seq(Record) /\ d \in Seq(Record)
        /\ added[u] = a \o d /\ d = b \o c
    BY <1>1
  <2> HIDE DEF a, b, c, d
  <2>1. In(x, added[u]) <=> In(x, a) \/ In(x, d)
    <3>1. In(x, a \o d) <=> In(x, a) \/ In(x, d)
      BY <2>0, InConcat
    <3>2. QED
      BY <2>0, <3>1
  <2>2. In(x, d) <=> In(x, b) \/ In(x, c)
    <3>1. In(x, b \o c) <=> In(x, b) \/ In(x, c)
      BY <2>0, InConcat
    <3>2. QED
      BY <2>0, <3>1
  <2> USE DEF a, b, c, d
  <2>3. In(x, handed[u]) => ~In(x, Waiting[u])
    <3> DEFINE p == handed[u]
               q == Waiting[u]
    <3>1. p \in Seq(Record) /\ q \in Seq(Record) /\ Injective(p \o q)
      BY <1>1
    <3> HIDE DEF p, q
    <3>2. In(x, p) => ~In(x, q)
      BY <3>1, ConcatApart
    <3>3. QED
      BY <3>2 DEF p, q
  <2>4. QED
    BY <2>1, <2>2, <2>3
<1>3. In(x, RecordsIn(req, s)) => ~In(x, RecordsIn(logData, s))
  <2> DEFINE p == RecordsIn(req, s)
             q == RecordsIn(logData, s)
             a == handed[s]
  <2>1. p \in Seq(Record) /\ q \in Seq(Record) /\ a \in Seq(Record) /\ Injective(a \o (p \o q))
    BY <1>1
  <2> HIDE DEF p, q, a
  <2>2. (a \o p) \o q = a \o (p \o q) /\ a \o p \in Seq(Record)
    BY <2>1, RecordsAssociative, ConcatProperties
  <2> DEFINE ap == a \o p
  <2>3. ap \in Seq(Record) /\ Injective(ap \o q) /\ (In(x, ap) <=> In(x, a) \/ In(x, p))
    BY <2>1, <2>2, InConcat
  <2> HIDE DEF ap
  <2>4. In(x, ap) => ~In(x, q)
    BY <2>1, <2>3, ConcatApart
  <2>5. QED
    BY <2>3, <2>4 DEF p, q
<1>4. CASE s = t
  BY <1>2, <1>3, <1>4
<1>5. CASE s # t
  <2>1. ~(In(x, added[s]) /\ In(x, added[t]))
    BY <1>5 DEF StreamInv
  <2>2. QED
    BY <1>2, <2>1
<1>6. QED
  BY <1>4, <1>5

\* The records of the request being built are those of its entries.
LEMMA RequestRecordsAre ==
  ASSUME BatchTypeOK, NEW x
  PROVE  x \in RequestRecords <=> \E s \in Stream : In(x, RecordsIn(req, s))
<1>1. DOMAIN req \subseteq Stream /\ \A s \in DOMAIN req : RecordsIn(req, s) = req[s].records
  BY DEF BatchTypeOK, RecordsIn
<1>2. \A s : s \notin DOMAIN req => ~In(x, RecordsIn(req, s))
  BY InEmpty DEF RecordsIn
<1>3. x \in RequestRecords <=> \E s \in DOMAIN req : In(x, req[s].records)
  BY DEF RequestRecords, In
<1>4. QED
  BY <1>1, <1>2, <1>3

\* An entry that entered the queue holds records that were handed over and not refused.
Known(e) == /\ e.records # <<>>
            /\ \A x : In(x, e.records) => In(x, handed[e.stream]) /\ x \notin failed

\* A request has one entry of a stream at most, and no record is in two entries.
EntriesInv ==
  /\ \A q : In(q, order) =>
       /\ \A k \in DOMAIN q : Known(q[k])
       /\ \A k, l \in DOMAIN q : q[k].stream = q[l].stream => k = l
  /\ \A q, r : In(q, order) /\ In(r, order) =>
       \A k \in DOMAIN q, l \in DOMAIN r : \A x :
         In(x, q[k].records) /\ In(x, r[l].records) => q = r /\ k = l
  /\ \A x \in failed : \E s \in Stream : In(x, handed[s])

\* What is stored is an entry of a request.
AcceptedInv == \A j \in DOMAIN accepted : /\ accepted[j][1] \in Request
                                          /\ accepted[j][2] \in DOMAIN accepted[j][1]

\* With one worker w, what is outstanding is the request at hand and then the queue.
Current(w) == IF pushes[w].pc = "idle" THEN <<>> ELSE <<pushes[w].request>>
WorkInv(w) == Injective(order) /\ Outstanding = Current(w) \o queue

DeliveryInv(w) ==
  /\ PipelineInv /\ ExporterInv /\ ZP!InOnePlace /\ ZP!SentSoFar
  /\ StreamInv /\ EntriesInv /\ AcceptedInv /\ WorkInv(w)
----------------------------------------------------------------------------
(* The call of the next consumer.                                          *)

\* A request has one entry for each key of the range loop.
LEMMA RequestKeys ==
  ASSUME BatchTypeOK, IsFiniteSet(DOMAIN req), NEW q \in Requests
  PROVE  /\ \A k, l \in DOMAIN q : q[k].stream = q[l].stream => k = l
         /\ \A s \in DOMAIN req : \E k \in DOMAIN q : q[k].stream = s
<1> DEFINE n == Cardinality(DOMAIN req)
           entry(t) == OfStream(t, req[t])
<1>1. PICK keys \in [1 .. n -> DOMAIN req] :
        /\ q = [k \in DOMAIN keys |-> entry(keys[k])]
        /\ \A i, j \in 1 .. n : i # j => keys[i] # keys[j]
  BY DEF Requests, SetToSeqs
<1>2. n \in Nat
  BY FS_CardinalityType
<1>3. \A t : entry(t).stream = t
  BY DEF OfStream
<1>4. keys \in Surjection(1 .. n, DOMAIN req)
  <2>1. keys \in Injection(1 .. n, DOMAIN req)
    <3> HIDE DEF n, entry
    <3>1. \A i, j \in 1 .. n : keys[i] = keys[j] => i = j
      BY <1>1
    <3>2. QED
      BY <3>1 DEF Injection, IsInjective
  <2>2. Cardinality(1 .. n) = n
    <3>1. 1 \in Int /\ n \in Int
      BY <1>2
    <3> HIDE DEF n
    <3>2. Cardinality(1 .. n) = IF 1 > n THEN 0 ELSE n - 1 + 1
      BY <3>1, FS_Interval
    <3>3. QED
      BY <1>2, <3>2
  <2>3. QED
    BY <2>1, <2>2, FS_Injection
<1> HIDE DEF n, entry
<1>5. DOMAIN q = 1 .. n /\ \A k \in 1 .. n : q[k] = entry(keys[k]) /\ keys[k] \in DOMAIN req
  BY <1>1
<1>6. \A k \in DOMAIN q : q[k].stream = keys[k]
  BY <1>3, <1>5
<1>7. \A s \in DOMAIN req : \E k \in 1 .. n : keys[k] = s
  BY <1>4 DEF Surjection
<1>8. QED
  BY <1>1, <1>5, <1>6, <1>7

\* The queue takes the request, or refuses it and the processor forgets it.
Enters(q) == /\ order' = Append(order, q) /\ queue' = Append(queue, q)
             /\ failed' = failed
Refuses == /\ UNCHANGED <<order, queue>>
           /\ failed' = failed \cup RequestRecords

\* What a request offered to the queue is, and what becomes of it and of the batch.
LEMMA HandsEffect ==
  ASSUME PipelineInv, Hands
  PROVE  \E q \in Request :
           /\ ~In(q, order)
           /\ Enters(q) \/ Refuses
           /\ UNCHANGED <<pushes, accepted, acked, dropped, added>>
           /\ \A s \in Stream : /\ handed'[s] = handed[s] \o RecordsIn(req, s)
                                /\ Waiting'[s] = RecordsIn(logData, s)
           /\ \A k \in DOMAIN q : /\ q[k].records # <<>>
                                  /\ q[k].records = RecordsIn(req, q[k].stream)
           /\ \A k, l \in DOMAIN q : q[k].stream = q[l].stream => k = l
           /\ \A s \in Stream : RecordsIn(req, s) # <<>> => \E k \in DOMAIN q : q[k].stream = s
<1>1. BatchInv /\ BatchTypeOK /\ EntriesWellFormed /\ IsFiniteSet(DOMAIN req)
  BY DEF PipelineInv, ProcessorInv, BatchInv
<1>2. PICK q \in Requests : Z!Offer(q)
  BY DEF Hands, NextConsumer
<1>3. failed' = IF refused' = refused THEN failed ELSE failed \cup RequestRecords
  BY DEF Hands, NextConsumer
<1>4. /\ q \in Request
      /\ \A k \in DOMAIN q : /\ q[k].stream \in DOMAIN req
                             /\ q[k].records = req[q[k].stream].records
  BY <1>1, RequestEntries
<1>5. /\ \A k, l \in DOMAIN q : q[k].stream = q[l].stream => k = l
      /\ \A s \in DOMAIN req : \E k \in DOMAIN q : q[k].stream = s
  BY <1>1, RequestKeys
<1>6. ~In(q, order) /\ UNCHANGED <<pushes, accepted, acked, dropped>>
  BY <1>2 DEF Z!Offer, In
<1>7. Enters(q) \/ Refuses
  <2>1. CASE Z!HasRoom
    BY <1>2, <1>3, <2>1 DEF Z!Offer, Enters
  <2>2. CASE ~Z!HasRoom
    <3>1. q \notin refused /\ refused' = refused \cup {q} /\ UNCHANGED <<queue, order>>
      BY <1>2, <2>2 DEF Z!Offer
    <3>2. refused' # refused
      BY <3>1
    <3>3. QED
      BY <1>3, <3>1, <3>2 DEF Refuses
  <2>3. QED
    BY <2>1, <2>2
<1>8. /\ added' = added
      /\ \A s \in Stream : /\ handed'[s] = handed[s] \o RecordsIn(req, s)
                           /\ Waiting'[s] = RecordsIn(logData, s)
  <2>1. PICK ok \in BOOLEAN : Send(ok)
    BY DEF Hands
  <2>2. /\ handed' = [s \in Stream |-> handed[s] \o RecordsIn(req, s)]
        /\ Waiting' = [s \in Stream |-> RecordsIn(logData, s)]
        /\ added' = added
    BY <1>1, <2>1, SendEffect
  <2>3. QED
    BY <2>2
<1>9. \A k \in DOMAIN q : q[k].records # <<>> /\ q[k].records = RecordsIn(req, q[k].stream)
  BY <1>1, <1>4 DEF RecordsIn, EntriesWellFormed
<1>10. \A s \in Stream : RecordsIn(req, s) # <<>> => \E k \in DOMAIN q : q[k].stream = s
  BY <1>5 DEF RecordsIn
<1>11. QED
  BY <1>4, <1>5, <1>6, <1>7, <1>8, <1>9, <1>10
----------------------------------------------------------------------------
(* The invariants.                                                         *)

\* A record joins the stream the constants say.
LEMMA StreamInvStep ==
  PipelineInv /\ StreamInv /\ [PipelineNext]_pipelineVars => StreamInv'
<1> SUFFICES ASSUME PipelineInv, StreamInv, [PipelineNext]_pipelineVars PROVE StreamInv'
  OBVIOUS
<1>1. BatchTypeOK /\ EntriesWellFormed
  BY DEF PipelineInv, ProcessorInv, BatchInv
<1>2. CASE added' = added
  BY <1>2 DEF StreamInv
<1>3. CASE PlaceRecord
  <2> DEFINE r == Head(todo)
             t == StreamOf[r]
  <2>1. r \in Record /\ t \in Stream /\ added' = [added EXCEPT ![t] = Append(@, r)]
    BY <1>1, <1>3, PlaceRecordEffect
  <2>2. added \in [Stream -> Seq(Record)] /\ StreamOf[r] = t
    BY <1>1 DEF BatchTypeOK
  <2> HIDE DEF r, t
  <2>3. ASSUME NEW s \in Stream, NEW x, In(x, added'[s]) PROVE StreamOf[x] = s
    <3>1. CASE s = t
      <4>1. added'[s] = Append(added[t], r) /\ added[t] \in Seq(Record)
        BY <2>1, <2>2, <3>1
      <4>2. In(x, added[t]) \/ x = r
        BY <2>1, <2>3, <4>1, InAppended
      <4>3. QED
        BY <2>1, <2>2, <3>1, <4>2 DEF StreamInv
    <3>2. CASE s # t
      BY <2>1, <2>2, <2>3, <3>2 DEF StreamInv
    <3>3. QED
      BY <3>1, <3>2
  <2>4. QED
    BY <2>3 DEF StreamInv
<1>4. added' = added \/ PlaceRecord
  <2>1. CASE Next /\ Handover
    <3>1. CASE AtRest
      BY <3>1 DEF AtRest
    <3>2. CASE Hands
      BY <3>2, HandsEffect
    <3>3. QED
      BY <2>1, <3>1, <3>2, ProcessorCases
  <2>2. CASE \E w \in Worker : WorkerStep(w)
    BY <2>2 DEF WorkerStep, vars, batchVars
  <2>3. CASE UNCHANGED pipelineVars
    BY <2>3 DEF pipelineVars, vars, batchVars
  <2>4. QED
    BY <2>1, <2>2, <2>3 DEF PipelineNext
<1>5. QED
  BY <1>2, <1>3, <1>4
\* The entries of a request in the queue or behind it.
LEMMA OrderedRequest ==
  ASSUME OrderInv, NEW q, In(q, order)
  PROVE  /\ q \in Request
         /\ \A k \in DOMAIN q : q[k].stream \in Stream /\ q[k].records \in Seq(Record)
<1>1. q \in Request
  BY ElementOfSeq, LenProperties DEF OrderInv, In
<1>2. QED
  BY <1>1, EntryOfRequest

\* The records of a request handed over leave the batch, whether it is queued or refused.
LEMMA EntriesHands ==
  ASSUME PipelineInv, StreamInv, EntriesInv, Hands
  PROVE  EntriesInv'
<1>1. BatchInv /\ BatchTypeOK /\ OnceInv /\ OrderInv
  BY DEF PipelineInv, ProcessorInv, BatchInv
<1>2. PICK n \in Request :
        /\ ~In(n, order)
        /\ Enters(n) \/ Refuses
        /\ UNCHANGED <<pushes, accepted, acked, dropped, added>>
        /\ \A s \in Stream : /\ handed'[s] = handed[s] \o RecordsIn(req, s)
                             /\ Waiting'[s] = RecordsIn(logData, s)
        /\ \A k \in DOMAIN n : /\ n[k].records # <<>>
                               /\ n[k].records = RecordsIn(req, n[k].stream)
        /\ \A k, l \in DOMAIN n : n[k].stream = n[l].stream => k = l
        /\ \A s \in Stream : RecordsIn(req, s) # <<>> => \E k \in DOMAIN n : n[k].stream = s
  BY HandsEffect
<1>3. ASSUME NEW s \in Stream, NEW x
      PROVE  In(x, handed'[s]) <=> In(x, handed[s]) \/ In(x, RecordsIn(req, s))
  <2> DEFINE a == handed[s]
             b == RecordsIn(req, s)
  <2>1. a \in Seq(Record) /\ b \in Seq(Record) /\ handed'[s] = a \o b
    BY <1>1, <1>2, Triple
  <2> HIDE DEF a, b
  <2>2. In(x, a \o b) <=> In(x, a) \/ In(x, b)
    BY <2>1, InConcat
  <2>3. QED
    BY <2>1, <2>2 DEF a, b
<1>4. \A s, t \in Stream : \A x : In(x, RecordsIn(req, s)) => ~In(x, handed[t])
  BY <1>1, RecordsApart
<1>5. \A x : x \in RequestRecords <=> \E s \in Stream : In(x, RecordsIn(req, s))
  BY <1>1, RequestRecordsAre
<1>6. \A k \in DOMAIN n : n[k].stream \in Stream
  BY EntryOfRequest
<1>7. \A x \in failed' : \E s \in Stream : In(x, handed'[s])
  <2> SUFFICES ASSUME NEW x \in failed' PROVE \E s \in Stream : In(x, handed'[s])
    OBVIOUS
  <2>1. x \in failed \/ x \in RequestRecords
    BY <1>2 DEF Enters, Refuses
  <2>2. QED
    BY <1>3, <1>5, <2>1 DEF EntriesInv
<1>8. \A q : In(q, order') => In(q, order) \/ (Enters(n) /\ q = n)
  <2>1. CASE Enters(n)
    BY <1>1, <2>1, InAppended DEF Enters, OrderInv
  <2>2. CASE Refuses
    BY <2>2 DEF Refuses
  <2>3. QED
    BY <1>2, <2>1, <2>2
<1>9. ASSUME NEW q, In(q, order), NEW k \in DOMAIN q PROVE Known(q[k])'
  <2> DEFINE e == q[k]
  <2>1. e.stream \in Stream /\ Known(e)
    BY <1>1, <1>9, OrderedRequest DEF EntriesInv
  <2> HIDE DEF e
  <2>2. ASSUME NEW x, In(x, e.records) PROVE In(x, handed'[e.stream]) /\ x \notin failed'
    <3>1. In(x, handed[e.stream]) /\ x \notin failed
      BY <2>1, <2>2 DEF Known
    <3>2. x \notin RequestRecords
      BY <1>4, <1>5, <2>1, <3>1
    <3>3. QED
      BY <1>2, <1>3, <2>1, <3>1, <3>2 DEF Enters, Refuses
  <2>3. QED
    BY <2>1, <2>2 DEF Known, e
<1>10. ASSUME Enters(n), NEW k \in DOMAIN n PROVE Known(n[k])'
  <2> DEFINE e == n[k]
  <2>1. e.stream \in Stream /\ e.records # <<>> /\ e.records = RecordsIn(req, e.stream)
    BY <1>2, <1>6
  <2> HIDE DEF e
  <2>2. ASSUME NEW x, In(x, e.records) PROVE In(x, handed'[e.stream]) /\ x \notin failed'
    <3>1. In(x, handed'[e.stream])
      BY <1>3, <2>1, <2>2
    <3>2. x \notin failed
      BY <1>4, <2>1, <2>2 DEF EntriesInv
    <3>3. QED
      BY <1>10, <3>1, <3>2 DEF Enters
  <2>3. QED
    BY <2>1, <2>2 DEF Known, e
<1>11. ASSUME NEW q, In(q, order'), NEW r, In(r, order'), NEW k \in DOMAIN q, NEW l \in DOMAIN r,
              NEW x, In(x, q[k].records), In(x, r[l].records)
       PROVE  q = r /\ k = l
  <2>1. ASSUME NEW p, In(p, order), NEW j \in DOMAIN p, NEW m \in DOMAIN n
        PROVE  ~(In(x, p[j].records) /\ In(x, n[m].records))
    <3>1. p[j].stream \in Stream /\ (In(x, p[j].records) => In(x, handed[p[j].stream]))
      BY <1>1, <2>1, OrderedRequest DEF EntriesInv, Known
    <3>2. In(x, n[m].records) => ~In(x, handed[p[j].stream])
      BY <1>2, <1>4, <1>6, <3>1
    <3>3. QED
      BY <3>1, <3>2
  <2>2. CASE In(q, order) /\ In(r, order)
    BY <1>11, <2>2 DEF EntriesInv
  <2>3. CASE In(q, order) /\ r = n
    BY <1>11, <2>1, <2>3
  <2>4. CASE q = n /\ In(r, order)
    BY <1>11, <2>1, <2>4
  <2>5. CASE q = n /\ r = n
    <3> DEFINE s == n[k].stream
               t == n[l].stream
    <3>1. s \in Stream /\ t \in Stream
      BY <1>6, <1>11, <2>5
    <3>2. In(x, RecordsIn(req, s)) /\ In(x, RecordsIn(req, t))
      BY <1>2, <1>11, <2>5
    <3>3. s = t
      <4>1. ASSUME NEW u \in Stream, In(x, RecordsIn(req, u)) PROVE StreamOf[x] = u
        <5>1. In(x, Waiting[u])
          BY <1>1, <4>1, RecordsApart
        <5> DEFINE a == handed[u]
                   b == Waiting[u]
        <5>2. a \in Seq(Record) /\ b \in Seq(Record) /\ added[u] = a \o b
          <6>1. /\ RecordsIn(req, u) \in Seq(Record) /\ RecordsIn(logData, u) \in Seq(Record)
                /\ b = RecordsIn(req, u) \o RecordsIn(logData, u)
            BY <1>1, Triple DEF Waiting
          <6>2. QED
            BY <1>1, <6>1, Triple, ConcatProperties DEF BatchInv, StreamOrder
        <5> HIDE DEF a, b
        <5>3. In(x, a \o b) <=> In(x, a) \/ In(x, b)
          BY <5>2, InConcat
        <5>4. In(x, added[u])
          BY <5>1, <5>2, <5>3 DEF b
        <5>5. QED
          BY <5>4 DEF StreamInv
      <4>2. QED
        BY <3>1, <3>2, <4>1
    <3>4. QED
      BY <1>2, <1>11, <2>5, <3>3
  <2>6. QED
    BY <1>8, <1>11, <2>2, <2>3, <2>4, <2>5
<1>12. ASSUME NEW q, In(q, order')
       PROVE  /\ \A k \in DOMAIN q : Known(q[k])'
              /\ \A k, l \in DOMAIN q : q[k].stream = q[l].stream => k = l
  <2>1. CASE In(q, order)
    BY <1>9, <2>1 DEF EntriesInv
  <2>2. CASE Enters(n) /\ q = n
    BY <1>2, <1>10, <2>2
  <2>3. QED
    BY <1>8, <1>12, <2>1, <2>2
<1>13. \A q : In(q, order') =>
         /\ \A k \in DOMAIN q : Known(q[k])'
         /\ \A k, l \in DOMAIN q : q[k].stream = q[l].stream => k = l
  BY <1>12
<1>14. \A q, r : In(q, order') /\ In(r, order') =>
         \A k \in DOMAIN q, l \in DOMAIN r : \A x :
           In(x, q[k].records) /\ In(x, r[l].records) => q = r /\ k = l
  BY <1>11
<1>15. QED
  BY <1>7, <1>13, <1>14, Zenon DEF EntriesInv
\* A step of the pipeline is one of these.
LEMMA PipelineCases ==
  ASSUME PipelineInv, ExporterInv, [PipelineNext]_pipelineVars
  PROVE  \/ AtRest
         \/ Hands
         \/ \E w \in Worker : /\ UNCHANGED vars /\ WorkerStep(w)
                              /\ \/ Takes(w)
                                 \/ GoesOn(w) /\ (accepted' = accepted \/ Stores(w))
                                 \/ Ends(w) /\ (Acks(w) \/ Drops(w))
<1>1. CASE Next /\ Handover
  BY <1>1, ProcessorCases
<1>2. CASE \E w \in Worker : WorkerStep(w)
  BY <1>2, WorkerCases DEF ExporterInv
<1>3. CASE UNCHANGED pipelineVars
  <2>1. Waiting' = Waiting
    BY <1>3 DEF pipelineVars, vars, batchVars, Waiting, RecordsIn
  <2>2. QED
    BY <1>3, <2>1 DEF pipelineVars, vars, batchVars, AtRest
<1>4. QED
  BY <1>1, <1>2, <1>3 DEF PipelineNext

\* The entries in the queue and behind it stay what they are.
LEMMA EntriesInvStep ==
  PipelineInv /\ ExporterInv /\ StreamInv /\ EntriesInv /\ [PipelineNext]_pipelineVars => EntriesInv'
<1> SUFFICES ASSUME PipelineInv, ExporterInv, StreamInv, EntriesInv, [PipelineNext]_pipelineVars
             PROVE  EntriesInv'
  OBVIOUS
<1>1. CASE order' = order /\ handed' = handed /\ failed' = failed
  BY <1>1, Zenon DEF EntriesInv, Known
<1>2. CASE Hands
  BY <1>2, EntriesHands
<1>3. CASE AtRest
  BY <1>1, <1>3 DEF AtRest, zVars
<1>4. CASE UNCHANGED vars /\ UNCHANGED order
  BY <1>1, <1>4 DEF vars, batchVars
<1>5. QED
  BY <1>2, <1>3, <1>4, PipelineCases DEF Takes, GoesOn, Ends

\* A request has as many entries for the exporter as it has.
LEMMA SameEntries ==
  ASSUME NEW q \in Request
  PROVE  Len(EntriesOf[q]) = Len(q) /\ Len(q) \in Nat /\ DOMAIN q = 1 .. Len(q)
<1>1. Len(q) \in Nat /\ DOMAIN q = 1 .. Len(q)
  BY EntryOfRequest
<1>2. EntriesOf[q] \in Seq(Z!ResourceEntry) /\ DOMAIN EntriesOf[q] = DOMAIN q
  BY EntriesPresent DEF EntriesOf
<1>3. Len(EntriesOf[q]) \in Nat /\ DOMAIN EntriesOf[q] = 1 .. Len(EntriesOf[q])
  BY <1>2, LenProperties
<1>4. QED
  BY <1>1, <1>2, <1>3

\* What a worker stores is an entry of its request.
LEMMA EntryAtHand ==
  ASSUME ExporterInv, NEW w \in Worker, Stores(w)
  PROVE  /\ pushes[w].request \in Request /\ pushes[w].i \in DOMAIN pushes[w].request
         /\ pushes[w].pc # "idle"
<1>1. pushes[w].pc = "send"
  BY DEF Stores
<1>2. pushes[w].request \in Request
  BY <1>1, ExporterAssumptionHolds, ZP!BusyWorker DEF ExporterInv
<1>3. /\ pushes[w].i \in Nat /\ pushes[w].i >= 1
      /\ pushes[w].i <= Len(EntriesOf[pushes[w].request])
  BY <1>1 DEF ExporterInv, ZP!TypeOK, ZP!Push, ZP!CallsInRange
<1>4. QED
  BY <1>1, <1>2, <1>3, SameEntries

\* Zebrium only stores entries.
LEMMA AcceptedInvStep ==
  PipelineInv /\ ExporterInv /\ AcceptedInv /\ [PipelineNext]_pipelineVars => AcceptedInv'
<1> SUFFICES ASSUME PipelineInv, ExporterInv, AcceptedInv, [PipelineNext]_pipelineVars
             PROVE  AcceptedInv'
  OBVIOUS
<1>1. CASE accepted' = accepted
  BY <1>1 DEF AcceptedInv
<1>2. ASSUME NEW w \in Worker, Stores(w) PROVE AcceptedInv'
  <2> DEFINE new == <<pushes[w].request, pushes[w].i>>
  <2>1. pushes[w].request \in Request /\ pushes[w].i \in DOMAIN pushes[w].request
    BY <1>2, EntryAtHand
  <2>2. accepted \in Seq(Request \X Nat)
    BY DEF ExporterInv, ZP!TypeOK
  <2>3. new \in Request \X Nat
    <3>1. DOMAIN pushes[w].request \subseteq Nat
      BY <2>1, EntryOfRequest
    <3>2. QED
      BY <2>1, <3>1
  <2>4. accepted' = Append(accepted, new)
    BY <1>2 DEF Stores
  <2>5. new[1] \in Request /\ new[2] \in DOMAIN new[1]
    BY <2>1
  <2> HIDE DEF new
  <2>6. ASSUME NEW j \in DOMAIN accepted'
      PROVE  \/ j \in DOMAIN accepted /\ accepted'[j] = accepted[j]
             \/ accepted'[j] = new
    BY <2>2, <2>3, <2>4, AppendedElements
  <2>7. QED
    BY <2>5, <2>6 DEF AcceptedInv
<1>3. QED
  BY <1>1, <1>2, PipelineCases, HandsEffect DEF AtRest, zVars, Takes, GoesOn, Ends
\* Requests out of a sequence of them.
LEMMA RequestSeqs ==
  ASSUME NEW S, NEW q \in S, NEW a \in Seq(S), NEW b \in Seq(S)
  PROVE  /\ <<q>> \in Seq(S) /\ Append(a \o b, q) = a \o Append(b, q)
         /\ <<>> \o a = a /\ a \o <<>> = a
         /\ (a # <<>> => <<Head(a)>> \o Tail(a) = a)
         /\ Without(<<q>>, {q}) = <<>>
<1>1. Append(b, q) = b \o <<q>> /\ Append(a \o b, q) = (a \o b) \o <<q>>
  BY ConcatProperties, AppendIsConcat
<1>2. <<q>> \in Seq(S)
  OBVIOUS
<1>3. (a \o b) \o <<q>> = a \o (b \o <<q>>)
  BY <1>2, ConcatAssociative
<1>4. <<>> \o a = a /\ a \o <<>> = a
  BY ConcatEmptySeq
<1>5. a # <<>> => <<Head(a)>> \o Tail(a) = a
  BY HeadTailProperties
<1>6. Without(<<q>>, {q}) = <<>>
  <2> DEFINE one == <<q>>
  <2>1. \A i \in DOMAIN one : one[i] \in {q}
    OBVIOUS
  <2>2. one \in Seq(S)
    BY <1>2
  <2> HIDE DEF one
  <2>3. Without(one, {q}) = <<>>
    BY <2>1, <2>2, WithoutAll
  <2>4. QED
    BY <2>3 DEF one
<1>7. QED
  BY <1>1, <1>2, <1>3, <1>4, <1>5, <1>6
\* The worker has the requests that are outstanding before the queue.
LEMMA WorkInvStep ==
  ASSUME NEW w, Worker = {w}
  PROVE  /\ PipelineInv /\ ExporterInv /\ ZP!InOnePlace /\ WorkInv(w)
         /\ [PipelineNext]_pipelineVars
         => WorkInv(w)'
<1> SUFFICES ASSUME PipelineInv, ExporterInv, ZP!InOnePlace, WorkInv(w), [PipelineNext]_pipelineVars
             PROVE  WorkInv(w)'
  OBVIOUS
<1>1. /\ order \in Seq(Request) /\ queue \in Seq(Request) /\ Injective(order)
      /\ Outstanding = Current(w) \o queue
      /\ Current(w) \in Seq(Request)
  <2>1. order \in Seq(Request) /\ queue \in Seq(Request)
    BY DEF ExporterInv, ZP!TypeOK
  <2>2. pushes[w].pc # "idle" => pushes[w].request \in Request
    BY ExporterAssumptionHolds, ZP!BusyWorker DEF ExporterInv
  <2>3. Current(w) \in Seq(Request)
    BY <2>2, EmptySeq DEF Current
  <2>4. QED
    BY <2>1, <2>3 DEF WorkInv
<1>2. CASE UNCHANGED <<queue, order, acked, dropped>> /\ Current(w)' = Current(w)
  BY <1>2 DEF WorkInv, Outstanding
<1>3. CASE AtRest
  BY <1>2, <1>3 DEF AtRest, zVars, Current
<1>4. CASE Hands
  <2>1. PICK n \in Request : /\ ~In(n, order)
                             /\ Enters(n) \/ Refuses
                             /\ UNCHANGED <<pushes, acked, dropped>>
    BY <1>4, HandsEffect
  <2>2. CASE Refuses
    BY <1>2, <2>1, <2>2 DEF Refuses, Current
  <2>3. CASE Enters(n)
    <3>1. n \notin acked \cup dropped
      BY <2>1 DEF ZP!InOnePlace, ZP!Entered, In
    <3>2. order' = Append(order, n) /\ queue' = Append(queue, n) /\ Current(w)' = Current(w)
      BY <2>1, <2>3 DEF Enters, Current
    <3>3. Injective(order')
      BY <1>1, <2>1, <3>2, InjectiveAppend
    <3>4. Outstanding' = Append(Outstanding, n)
      <4> DEFINE X == acked \cup dropped
      <4>1. order \in Seq(Request) /\ n \in Request /\ n \notin X
        BY <1>1, <3>1
      <4>2. Outstanding' = Without(Append(order, n), X) /\ Outstanding = Without(order, X)
        BY <2>1, <3>2 DEF Outstanding
      <4> HIDE DEF X
      <4>3. Without(Append(order, n), X) =
              IF n \in X THEN Without(order, X) ELSE Append(Without(order, X), n)
        BY <4>1, WithoutAppend
      <4>4. QED
        BY <4>1, <4>2, <4>3
    <3>5. Append(Current(w) \o queue, n) = Current(w) \o Append(queue, n)
      BY <1>1, RequestSeqs
    <3>6. QED
      BY <1>1, <3>2, <3>3, <3>4, <3>5 DEF WorkInv
  <2>4. QED
    BY <2>1, <2>2, <2>3
<1>5. CASE Takes(w)
  <2>1. Current(w) = <<>> /\ Current(w)' = <<Head(queue)>> /\ queue' = Tail(queue) /\ queue # <<>>
    BY <1>5 DEF Takes, Current
  <2>2. Head(queue) \in Request
    BY <1>1, <2>1, HeadTailProperties
  <2>3. <<>> \o queue = queue /\ <<Head(queue)>> \o Tail(queue) = queue
    BY <1>1, <2>1, <2>2, RequestSeqs
  <2>4. Outstanding' = Outstanding /\ order' = order
    BY <1>5 DEF Takes, Outstanding
  <2>5. QED
    BY <1>1, <2>1, <2>3, <2>4 DEF WorkInv
<1>6. CASE GoesOn(w)
  BY <1>2, <1>6 DEF GoesOn, Current
<1>7. CASE Ends(w) /\ (Acks(w) \/ Drops(w))
  <2> DEFINE q == pushes[w].request
  <2>1. /\ w \in Worker /\ pushes[w].pc # "idle" /\ queue' = queue /\ order' = order
        /\ Current(w)' = <<>> /\ Current(w) = <<pushes[w].request>>
    BY <1>7 DEF Ends, Current
  <2>2. q \in Request /\ Current(w) = <<q>>
    BY <2>1, ExporterAssumptionHolds, ZP!BusyWorker DEF ExporterInv
  <2>3. \A i \in DOMAIN queue : queue[i] \notin {q}
    BY <2>1 DEF ZP!InOnePlace, ZP!Queued
  <2>4. (acked \cup dropped)' = (acked \cup dropped) \cup {q}
    BY <1>7 DEF Acks, Drops
  <2> HIDE DEF q
  <2>5. Outstanding' = Without(Outstanding, {q})
    <3>1. Outstanding' = Without(order, (acked \cup dropped) \cup {q})
      BY <2>1, <2>4 DEF Outstanding
    <3>2. Without(Without(order, acked \cup dropped), {q}) = Without(order, (acked \cup dropped) \cup {q})
      BY <1>1, WithoutBoth
    <3>3. QED
      BY <3>1, <3>2 DEF Outstanding
  <2>6. /\ <<q>> \in Seq(Request) /\ Without(<<q>>, {q}) = <<>> /\ <<>> \o queue = queue
    BY <1>1, <2>2, RequestSeqs
  <2>7. Without(queue, {q}) = queue
    BY <1>1, <2>3, WithoutNone
  <2> DEFINE one == <<q>>
  <2>8. one \in Seq(Request) /\ Without(one, {q}) = <<>> /\ Outstanding = one \o queue
    BY <1>1, <2>2, <2>6
  <2> HIDE DEF one
  <2>9. Without(one \o queue, {q}) = Without(one, {q}) \o Without(queue, {q})
    <3>1. one \in Seq(Request) /\ queue \in Seq(Request)
      BY <1>1, <2>8
    <3> DEFINE X == {q}
    <3> HIDE DEF X
    <3>2. Without(one \o queue, X) = Without(one, X) \o Without(queue, X)
      BY <3>1, WithoutConcat
    <3>3. QED
      BY <3>2 DEF X
  <2>10. Outstanding' = Current(w)' \o queue'
    BY <2>1, <2>5, <2>6, <2>7, <2>8, <2>9
  <2>11. QED
    BY <1>1, <2>1, <2>10 DEF WorkInv
<1>8. QED
  BY <1>3, <1>4, <1>5, <1>6, <1>7, PipelineCases

\* The invariants of the delivery at the start.
LEMMA DeliveryInvInit ==
  ASSUME NEW w, Worker = {w}
  PROVE  PipelineInit => DeliveryInv(w)
<1> SUFFICES ASSUME PipelineInit PROVE DeliveryInv(w)
  OBVIOUS
<1>1. Z!Init /\ ZP!Init /\ added = [s \in Stream |-> <<>>] /\ failed = {}
  BY SameExporter DEF PipelineInit, Init, BatchInit
<1>2. PipelineInv /\ ExporterInv /\ ZP!InOnePlace /\ ZP!SentSoFar
  BY <1>1, ExporterAssumptionHolds, PipelineInvInit, ExporterInvInit, ZP!InitInOnePlace, ZP!InitSentSoFar
<1>3. StreamInv
  BY <1>1, InEmpty DEF StreamInv
<1>4. order = <<>> /\ queue = <<>> /\ accepted = <<>> /\ pushes[w].pc = "idle"
  BY <1>1 DEF Z!Init, Z!Idle
<1>5. EntriesInv
  BY <1>1, <1>4, InEmpty DEF EntriesInv
<1>6. AcceptedInv
  BY <1>4 DEF AcceptedInv
<1>7. WorkInv(w)
  <2>1. Injective(<<>>)
    BY DEF Injective
  <2>2. Without(<<>>, acked \cup dropped) = <<>>
    BY WithoutEmpty
  <2>3. <<>> \o <<>> = <<>>
    OBVIOUS
  <2>4. QED
    BY <1>4, <2>1, <2>2, <2>3 DEF WorkInv, Outstanding, Current
<1>8. QED
  BY <1>2, <1>3, <1>5, <1>6, <1>7 DEF DeliveryInv

\* A step keeps them together.
LEMMA DeliveryInvStep ==
  ASSUME NEW w, Worker = {w}, "refused" \notin Answers
  PROVE  DeliveryInv(w) /\ [PipelineNext]_pipelineVars => DeliveryInv(w)'
<1> SUFFICES ASSUME DeliveryInv(w), [PipelineNext]_pipelineVars PROVE DeliveryInv(w)'
  OBVIOUS
<1>1. /\ PipelineInv /\ ExporterInv /\ ZP!InOnePlace /\ ZP!SentSoFar
      /\ StreamInv /\ EntriesInv /\ AcceptedInv /\ WorkInv(w)
  BY DEF DeliveryInv
<1>2. [ZP!Next]_(ZP!vars)
  BY <1>1, ExporterView, SameExporter DEF ExporterInv
<1>3. PipelineInv' /\ ExporterInv'
  BY <1>1, PipelineInvStep, ExporterInvStep
<1>4. ZP!InOnePlace' /\ ZP!SentSoFar'
  BY <1>1, <1>2, ExporterAssumptionHolds, ZP!StepInOnePlace, ZP!StepSentSoFar DEF ExporterInv
<1>5. StreamInv' /\ EntriesInv' /\ AcceptedInv'
  BY <1>1, StreamInvStep, EntriesInvStep, AcceptedInvStep
<1>6. WorkInv(w)'
  BY <1>1, WorkInvStep
<1>7. QED
  BY <1>3, <1>4, <1>5, <1>6 DEF DeliveryInv
----------------------------------------------------------------------------
(* The streams of the abstract specification.                              *)

\* Elements in front of those in R, and behind them, are what is left without R.
LEMMA WithoutMiddle ==
  ASSUME NEW S, NEW a \in Seq(S), NEW b \in Seq(S), NEW c \in Seq(S), NEW R,
         \A x : In(x, a) => x \notin R,
         \A x : In(x, b) => x \in R,
         \A x : In(x, c) => x \notin R
  PROVE  Without(a \o (b \o c), R) = a \o c
<1>1. Without(a, R) = a /\ Without(c, R) = c
  BY WithoutNone DEF In
<1>2. Without(b, R) = <<>>
  BY WithoutAll DEF In
<1>3. Without(b \o c, R) = <<>> \o c
  <2>1. Without(b \o c, R) = Without(b, R) \o Without(c, R)
    BY WithoutConcat
  <2>2. QED
    BY <1>1, <1>2, <2>1
<1>4. <<>> \o c = c /\ b \o c \in Seq(S)
  BY ConcatEmptySeq, ConcatProperties
<1> DEFINE bc == b \o c
<1>5. bc \in Seq(S) /\ Without(bc, R) = c
  BY <1>3, <1>4
<1> HIDE DEF bc
<1>6. Without(a \o bc, R) = Without(a, R) \o Without(bc, R)
  <2>1. a \in Seq(S) /\ bc \in Seq(S)
    BY <1>5
  <2>2. QED
    BY <2>1, WithoutConcat
<1>7. QED
  BY <1>1, <1>5, <1>6 DEF bc

\* What the mapped variables are made of.
LEMMA PendingParts ==
  ASSUME NEW w, Worker = {w}, DeliveryInv(w)
  PROVE  /\ Outstanding \in Seq(Request) /\ queue \in Seq(Request) /\ order \in Seq(Request)
         /\ Current(w) \in Seq(Request)
         /\ \A s \in Stream : /\ Unstored(s) = Pieces(Outstanding, s, ToSet(accepted))
                              /\ Unstored(s) \in Seq(Record) /\ Waiting[s] \in Seq(Record)
                              /\ Pending[s] = Unstored(s) \o Waiting[s]
                              /\ Pending[s] \in Seq(Record)
<1>1. order \in Seq(Request) /\ queue \in Seq(Request)
  BY DEF DeliveryInv, ExporterInv, ZP!TypeOK
<1>2. Outstanding \in Seq(Request)
  BY <1>1, WithoutType DEF Outstanding
<1>3. Current(w) \in Seq(Request)
  <2>1. pushes[w].pc # "idle" => pushes[w].request \in Request
    BY ExporterAssumptionHolds, ZP!BusyWorker DEF ExporterInv, DeliveryInv
  <2>2. QED
    BY <2>1, EmptySeq DEF Current
<1>4. ASSUME NEW s \in Stream
      PROVE  /\ Unstored(s) = Pieces(Outstanding, s, ToSet(accepted))
             /\ Unstored(s) \in Seq(Record) /\ Waiting[s] \in Seq(Record)
             /\ Pending[s] = Unstored(s) \o Waiting[s]
             /\ Pending[s] \in Seq(Record)
  <2>1. Unstored(s) = Pieces(Outstanding, s, ToSet(accepted))
    BY DEF Unstored, Pieces, RestsOf
  <2>2. Unstored(s) \in Seq(Record)
    BY <1>2, <2>1, RestsType
  <2>3. Waiting[s] \in Seq(Record)
    BY Triple, ConcatProperties DEF Waiting, DeliveryInv, PipelineInv, ProcessorInv, BatchInv
  <2>4. Pending[s] = Unstored(s) \o Waiting[s]
    BY DEF Pending
  <2>5. QED
    BY <2>1, <2>2, <2>3, <2>4, ConcatProperties
<1>5. QED
  BY <1>1, <1>2, <1>3, <1>4

\* A record that was sent to the queue and is not stored is handed over, and not lost.
LEMMA UnstoredHanded ==
  ASSUME NEW w, Worker = {w}, DeliveryInv(w), NEW qs \in Seq(Request),
         \A j \in DOMAIN qs : In(qs[j], order),
         NEW s, NEW st, NEW x, In(x, Pieces(qs, s, st))
  PROVE  \E j \in DOMAIN qs : \E k \in DOMAIN qs[j] :
           /\ <<qs[j], k>> \notin st /\ In(x, qs[j][k].records)
           /\ qs[j][k].stream = s /\ In(x, handed[s]) /\ x \notin failed
<1>1. PICK j \in DOMAIN qs : \E k \in DOMAIN qs[j] :
        /\ qs[j][k].stream = s /\ <<qs[j], k>> \notin st /\ In(x, qs[j][k].records)
  <2>1. OfEntry(x, qs, s, st)
    BY PiecesFrom
  <2>2. QED
    BY <2>1 DEF OfEntry
<1> DEFINE q == qs[j]
<1>2. In(q, order)
  BY <1>1
<1>3. PICK k \in DOMAIN q : q[k].stream = s /\ <<q, k>> \notin st /\ In(x, q[k].records)
  BY <1>1
<1> HIDE DEF q
<1>4. In(x, handed[s]) /\ x \notin failed
  BY <1>2, <1>3 DEF DeliveryInv, EntriesInv, Known
<1>5. QED
  BY <1>3, <1>4 DEF q

\* A record that was lost was handed over.
LEMMA LostHanded ==
  ASSUME NEW w, Worker = {w}, DeliveryInv(w), NEW x \in Lost
  PROVE  \E s \in Stream : In(x, handed[s])
<1>1. CASE x \in failed
  BY <1>1 DEF DeliveryInv, EntriesInv
<1>2. ASSUME NEW q \in dropped, NEW s \in Stream, x \in ToSet(Rest(q, s, ToSet(accepted)))
      PROVE  \E t \in Stream : In(x, handed[t])
  <2>1. In(q, order)
    BY <1>2 DEF DeliveryInv, ZP!InOnePlace, ZP!Entered, In
  <2> DEFINE r == Rest(q, s, ToSet(accepted))
  <2>2. In(x, r)
    BY <1>2 DEF ToSet, In
  <2>3. r # <<>>
    BY <2>2, InEmpty
  <2>4. PICK k \in DOMAIN q : /\ q[k].stream = s /\ <<q, k>> \notin ToSet(accepted)
                              /\ Rest(q, s, ToSet(accepted)) = q[k].records
    <3> DEFINE st == ToSet(accepted)
    <3> HIDE DEF st
    <3>1. Rest(q, s, st) # <<>>
      BY <2>3 DEF st
    <3>2. \E k \in DOMAIN q : q[k].stream = s /\ <<q, k>> \notin st /\ Rest(q, s, st) = q[k].records
      BY <3>1, RestFrom
    <3>3. QED
      BY <3>2 DEF st
  <2>5. In(x, q[k].records)
    BY <2>2, <2>4
  <2>6. QED
    BY <2>1, <2>4, <2>5 DEF DeliveryInv, EntriesInv, Known
<1>3. QED
  BY <1>1, <1>2 DEF Lost
\* The exporter at rest, or a worker that stores nothing: Zebrium and the requests stay.
LEMMA Unchanged ==
  ASSUME UNCHANGED <<order, acked, dropped, accepted>>
  PROVE  /\ Arrived' = Arrived
         /\ \A s : Unstored(s)' = Unstored(s)
         /\ (failed' = failed => Lost' = Lost)
<1>1. \A j : Z!FirstArrival(j)' <=> Z!FirstArrival(j)
  BY DEF Z!FirstArrival
<1>2. Arrived' = Arrived
  BY <1>1 DEF Arrived, Arrival
<1>3. Outstanding' = Outstanding
  BY DEF Outstanding
<1>4. \A s : Unstored(s)' = Unstored(s)
  BY <1>3 DEF Unstored
<1>5. failed' = failed => Lost' = Lost
  BY DEF Lost
<1>6. QED
  BY <1>2, <1>4, <1>5

\* A record placed is accepted; the other steps of the batch are not seen.
LEMMA AtRestMaps ==
  ASSUME NEW w, Worker = {w}, DeliveryInv(w), AtRest
  PROVE  [LD!LDNext]_(LD!ldVars)
<1>1. /\ Arrived' = Arrived /\ Lost' = Lost
      /\ \A s : Unstored(s)' = Unstored(s)
  BY Unchanged DEF AtRest, zVars
<1>2. CASE Waiting' = Waiting
  <2>1. Pending' = Pending
    BY <1>1, <1>2 DEF Pending
  <2>2. QED
    BY <1>1, <2>1 DEF LD!ldVars
<1>3. CASE PlaceRecord
  <2> DEFINE r == Head(todo)
             t == StreamOf[r]
  <2>1. r \in Record /\ t \in Stream /\ Waiting' = [Waiting EXCEPT ![t] = Append(@, r)]
    BY <1>3, PlaceRecordEffect DEF DeliveryInv, PipelineInv, ProcessorInv, BatchInv
  <2> HIDE DEF r, t
  <2>2. Waiting = [s \in Stream |-> Waiting[s]]
    BY DEF Waiting
  <2>3. \A s \in Stream : Waiting'[s] = IF s = t THEN Append(Waiting[t], r) ELSE Waiting[s]
    BY <2>1, <2>2
  <2>4. \A s \in Stream : Pending'[s] = Unstored(s) \o Waiting'[s]
    BY <1>1 DEF Pending
  <2> DEFINE a == Unstored(t)
             b == Waiting[t]
             p == Pending[t]
  <2>5. a \in Seq(Record) /\ b \in Seq(Record) /\ p = a \o b /\ p \in Seq(Record)
    BY <2>1, PendingParts
  <2>6. Pending'[t] = a \o Append(b, r)
    BY <2>1, <2>3, <2>4
  <2>7. \A s \in Stream : s # t => Pending'[s] = Pending[s]
    BY <2>3, <2>4, PendingParts
  <2>8. DOMAIN Pending = Stream /\ DOMAIN Pending' = Stream
    BY DEF Pending
  <2> HIDE DEF a, b, p
  <2>9. Append(a \o b, r) = a \o Append(b, r)
    BY <2>1, <2>5, RequestSeqs
  <2>10. Append(p, r) = Pending'[t] /\ Len(Append(p, r)) = Len(p) + 1 /\ Len(p) \in Nat
    BY <2>1, <2>5, <2>6, <2>9, AppendProperties, LenProperties
  <2>11. Pending' = [Pending EXCEPT ![t] = Append(@, r)]
    <3>1. Pending'[t] = Append(Pending[t], r)
      BY <2>10 DEF p
    <3>2. Pending = [s \in Stream |-> Pending[s]] /\ Pending' = [s \in Stream |-> Pending'[s]]
      BY DEF Pending
    <3>3. QED
      BY <2>1, <2>7, <3>1, <3>2
  <2>12. Len(Pending'[t]) > Len(Pending[t])
    <3>1. Len(Pending'[t]) = Len(p) + 1
      BY <2>10
    <3>2. QED
      BY <2>10, <3>1 DEF p
  <2>13. LD!Accept(t)
    BY <1>1, <2>1, <2>11, <2>12 DEF LD!Accept
  <2>14. QED
    BY <2>1, <2>13 DEF LD!LDNext
<1>4. QED
  BY <1>2, <1>3 DEF AtRest
\* What a request that is offered adds to the records on the way: what the batch hands over.
LEMMA RestOfferedIs ==
  ASSUME NEW w, Worker = {w}, DeliveryInv(w), NEW n \in Request, ~In(n, order),
         \A k \in DOMAIN n : n[k].records = RecordsIn(req, n[k].stream),
         \A k, l \in DOMAIN n : n[k].stream = n[l].stream => k = l,
         NEW s \in Stream,
         RecordsIn(req, s) # <<>> => \E k \in DOMAIN n : n[k].stream = s
  PROVE  Rest(n, s, ToSet(accepted)) = RecordsIn(req, s)
<1> DEFINE st == ToSet(accepted)
<1>1. \A k : <<n, k>> \notin st
  <2> SUFFICES ASSUME NEW k, <<n, k>> \in st PROVE FALSE
    OBVIOUS
  <2>1. PICK j \in DOMAIN accepted : accepted[j] = <<n, k>>
    BY DEF ToSet
  <2>2. accepted[j][1] = n
    BY <2>1
  <2>3. accepted[j][1] \in ZP!Entered
    BY <2>1 DEF DeliveryInv, ZP!InOnePlace
  <2>4. QED
    BY <2>2, <2>3 DEF ZP!Entered, In
<1> HIDE DEF st
<1>2. CASE \E k \in DOMAIN n : n[k].stream = s
  <2>1. PICK k \in DOMAIN n : n[k].stream = s
    BY <1>2
  <2>2. <<n, k>> \notin st /\ \A l \in DOMAIN n : n[l].stream = n[k].stream => l = k
    BY <1>1, <2>1
  <2>3. Rest(n, n[k].stream, st) = n[k].records
    BY <2>1, <2>2, RestOfEntry
  <2>4. QED
    BY <2>1, <2>3 DEF st
<1>3. CASE ~\E k \in DOMAIN n : n[k].stream = s
  <2>1. RecordsIn(req, s) = <<>>
    BY <1>3
  <2>2. Rest(n, s, st) = <<>>
    BY <1>3, RestStored
  <2>3. QED
    BY <2>1, <2>2 DEF st
<1>4. QED
  BY <1>2, <1>3

\* A request the queue takes stays on the way.
LEMMA EntersMaps ==
  ASSUME NEW w, Worker = {w}, DeliveryInv(w), NEW n \in Request, ~In(n, order), Enters(n),
         UNCHANGED <<accepted, acked, dropped>>,
         \A s \in Stream : Waiting'[s] = RecordsIn(logData, s),
         \A s \in Stream : Rest(n, s, ToSet(accepted)) = RecordsIn(req, s)
  PROVE  UNCHANGED LD!ldVars
<1> DEFINE st == ToSet(accepted)
           X == acked \cup dropped
<1>1. \A j : Z!FirstArrival(j)' <=> Z!FirstArrival(j)
  BY DEF Z!FirstArrival
<1>2. Arrived' = Arrived /\ Lost' = Lost
  BY <1>1 DEF Arrived, Arrival, Lost, Enters
<1>3. n \notin X /\ order \in Seq(Request)
  BY PendingParts DEF DeliveryInv, ZP!InOnePlace, ZP!Entered, In
<1>4. Outstanding' = Without(Append(order, n), X) /\ Outstanding = Without(order, X)
  BY DEF Outstanding, Enters
<1> HIDE DEF X
<1>5. Without(Append(order, n), X) =
        IF n \in X THEN Without(order, X) ELSE Append(Without(order, X), n)
  BY <1>3, WithoutAppend
<1>6. Outstanding' = Append(Outstanding, n)
  BY <1>3, <1>4, <1>5
<1>7. ASSUME NEW s \in Stream PROVE Pending'[s] = Pending[s]
  <2> DEFINE os == Outstanding
             one == <<n>>
             a == Unstored(s)
             b == RecordsIn(req, s)
             c == RecordsIn(logData, s)
  <2>1. os \in Seq(Request) /\ one \in Seq(Request) /\ Append(os, n) = os \o one
    BY PendingParts, AppendIsConcat
  <2>2. Unstored(s)' = Pieces(Outstanding', s, st)
    BY DEF Unstored, Pieces, RestsOf
  <2>3. a = Pieces(os, s, st) /\ a \in Seq(Record)
    BY PendingParts
  <2>4. Pieces(one, s, st) = b
    BY PiecesOne
  <2>5. b \in Seq(Record) /\ c \in Seq(Record) /\ Waiting[s] = b \o c
    BY Triple DEF Waiting, DeliveryInv, PipelineInv, ProcessorInv, BatchInv
  <2>6. Pending'[s] = Unstored(s)' \o c
    BY DEF Pending
  <2>7. Pending[s] = a \o (b \o c)
    BY <2>5, PendingParts
  <2>8. Unstored(s)' = Pieces(Append(os, n), s, st)
    BY <1>6, <2>2
  <2> HIDE DEF os, one, a, b, c, st
  <2>9. Pieces(os \o one, s, st) = Pieces(os, s, st) \o Pieces(one, s, st)
    BY <2>1, PiecesConcat
  <2>10. Unstored(s)' = a \o b
    BY <2>1, <2>3, <2>4, <2>8, <2>9
  <2>11. (a \o b) \o c = a \o (b \o c)
    BY <2>3, <2>5, RecordsAssociative
  <2>12. QED
    BY <2>6, <2>7, <2>10, <2>11
<1>8. Pending' = Pending
  BY <1>7 DEF Pending
<1>9. QED
  BY <1>2, <1>8 DEF LD!ldVars
\* What is outstanding was queued and has not ended.
LEMMA OutstandingOrdered ==
  ASSUME NEW w, Worker = {w}, DeliveryInv(w)
  PROVE  \A j \in DOMAIN Outstanding : /\ In(Outstanding[j], order)
                                       /\ Outstanding[j] \notin acked \cup dropped
<1> SUFFICES ASSUME NEW j \in DOMAIN Outstanding
             PROVE  /\ In(Outstanding[j], order)
                    /\ Outstanding[j] \notin acked \cup dropped
  OBVIOUS
<1> DEFINE X == acked \cup dropped
           q == Outstanding[j]
<1>1. Has(Outstanding, q)
  BY DEF Has
<1>2. order \in Seq(Request) /\ Outstanding = Without(order, X)
  BY PendingParts DEF Outstanding
<1> HIDE DEF X, q
<1>3. Has(Without(order, X), q) <=> Has(order, q) /\ q \notin X
  BY <1>2, WithoutElements
<1>4. QED
  BY <1>1, <1>2, <1>3, InIsHas DEF X, q

\* Records that leave the streams and are counted as lost are lost, if there are any.
LEMMA LosesMaps ==
  ASSUME NEW R, R \cap Lost = {}, Lost' = Lost \cup R, Arrived' = Arrived,
         \A s \in Stream : /\ Pending[s] \in Seq(Record)
                           /\ Pending'[s] = Without(Pending[s], R),
         \A x \in R : \E s \in Stream : In(x, Pending[s])
  PROVE  [LD!LDNext]_(LD!ldVars)
<1>1. Pending' = [s \in Stream |-> Without(Pending[s], R)]
  BY DEF Pending
<1>2. CASE R = {}
  <2>1. \A s \in Stream : Without(Pending[s], R) = Pending[s]
    BY <1>2, WithoutNone
  <2>2. Pending = [s \in Stream |-> Pending[s]]
    BY DEF Pending
  <2>3. Pending' = Pending
    BY <1>1, <2>1, <2>2
  <2>4. QED
    BY <1>2, <2>3 DEF LD!ldVars
<1>3. CASE R # {}
  <2>1. Lost' \ Lost = R
    OBVIOUS
  <2>2. R \subseteq UNION {{Pending[s][i] : i \in DOMAIN Pending[s]} : s \in Stream}
    BY DEF In
  <2>3. Pending' = [s \in Stream |-> LD!Without(Pending[s], R)]
    BY <1>1, SameWithout
  <2>4. LD!Lose(R)
    BY <1>3, <2>2, <2>3 DEF LD!Lose
  <2>5. LD!Lose(Lost' \ Lost)
    BY <2>1, <2>4
  <2>6. QED
    BY <2>5 DEF LD!LDNext
<1>4. QED
  BY <1>2, <1>3

\* A request the queue refuses is lost.
LEMMA RefusesMaps ==
  ASSUME NEW w, Worker = {w}, DeliveryInv(w), Refuses,
         UNCHANGED <<accepted, acked, dropped>>,
         \A s \in Stream : Waiting'[s] = RecordsIn(logData, s)
  PROVE  [LD!LDNext]_(LD!ldVars)
<1> DEFINE R == RequestRecords
<1>1. /\ Arrived' = Arrived
      /\ \A s : Unstored(s)' = Unstored(s)
  BY Unchanged DEF Refuses
<1>2. BatchInv /\ BatchTypeOK /\ OnceInv /\ StreamInv
  BY DEF DeliveryInv, PipelineInv, ProcessorInv, BatchInv
<1>3. \A x : x \in R <=> \E s \in Stream : In(x, RecordsIn(req, s))
  BY <1>2, RequestRecordsAre
<1>4. Lost' = Lost \cup R
  BY DEF Lost, Refuses
<1>5. R \cap Lost = {}
  <2> SUFFICES ASSUME NEW x \in R, x \in Lost PROVE FALSE
    OBVIOUS
  <2>1. PICK s \in Stream : In(x, RecordsIn(req, s))
    BY <1>3
  <2>2. PICK t \in Stream : In(x, handed[t])
    BY LostHanded
  <2>3. QED
    BY <1>2, <2>1, <2>2, RecordsApart
<1> HIDE DEF R
<1>6. ASSUME NEW s \in Stream
      PROVE  /\ Pending[s] \in Seq(Record)
             /\ Pending'[s] = Without(Pending[s], R)
             /\ \A x : In(x, RecordsIn(req, s)) => In(x, Pending[s])
  <2> DEFINE a == Unstored(s)
             b == RecordsIn(req, s)
             c == RecordsIn(logData, s)
             p == Pending[s]
             bc == Waiting[s]
  <2>1. /\ a \in Seq(Record) /\ b \in Seq(Record) /\ c \in Seq(Record)
        /\ p \in Seq(Record) /\ bc \in Seq(Record)
        /\ p = a \o bc /\ bc = b \o c
    BY <1>2, Triple, PendingParts DEF Waiting
  <2>2. Pending'[s] = a \o c
    BY <1>1 DEF Pending
  <2>3. \A x : In(x, a) => x \notin R
    <3> SUFFICES ASSUME NEW x, In(x, a), x \in R PROVE FALSE
      OBVIOUS
    <3> DEFINE os == Outstanding
               st == ToSet(accepted)
    <3>1. os \in Seq(Request) /\ In(x, Pieces(os, s, st))
      BY PendingParts
    <3>2. \A j \in DOMAIN os : In(os[j], order)
      BY OutstandingOrdered
    <3> HIDE DEF os, st
    <3>3. In(x, handed[s])
      BY <3>1, <3>2, UnstoredHanded
    <3>4. PICK t \in Stream : In(x, RecordsIn(req, t))
      BY <1>3
    <3>5. QED
      BY <1>2, <3>3, <3>4, RecordsApart
  <2>4. \A x : In(x, b) => x \in R
    BY <1>3
  <2>5. \A x : In(x, c) => x \notin R
    BY <1>2, <1>3, RecordsApart
  <2>6. \A x : In(x, b) => In(x, Pending[s])
    <3> SUFFICES ASSUME NEW x, In(x, b) PROVE In(x, p)
      OBVIOUS
    <3> HIDE DEF a, b, c, p, bc
    <3>1. In(x, b \o c) <=> In(x, b) \/ In(x, c)
      BY <2>1, InConcat
    <3>2. In(x, bc)
      BY <2>1, <3>1
    <3>3. In(x, a \o bc) <=> In(x, a) \/ In(x, bc)
      BY <2>1, InConcat
    <3>4. QED
      BY <2>1, <3>2, <3>3
  <2> HIDE DEF a, b, c, p, bc
  <2>7. Without(a \o (b \o c), R) = a \o c
    <3>1. a \in Seq(Record) /\ b \in Seq(Record) /\ c \in Seq(Record)
      BY <2>1
    <3>2. QED
      BY <3>1, <2>3, <2>4, <2>5, WithoutMiddle
  <2>8. Without(p, R) = Pending'[s]
    BY <2>1, <2>2, <2>7
  <2>9. QED
    BY <2>1, <2>6, <2>8 DEF p, b
<1>7. \A x \in R : \E s \in Stream : In(x, Pending[s])
  BY <1>3, <1>6
<1>8. QED
  BY <1>1, <1>4, <1>5, <1>6, <1>7, LosesMaps

\* The call of the next consumer.
LEMMA HandsMaps ==
  ASSUME NEW w, Worker = {w}, DeliveryInv(w), Hands
  PROVE  [LD!LDNext]_(LD!ldVars)
<1>1. PICK n \in Request :
        /\ ~In(n, order)
        /\ Enters(n) \/ Refuses
        /\ UNCHANGED <<pushes, accepted, acked, dropped, added>>
        /\ \A s \in Stream : /\ handed'[s] = handed[s] \o RecordsIn(req, s)
                             /\ Waiting'[s] = RecordsIn(logData, s)
        /\ \A k \in DOMAIN n : /\ n[k].records # <<>>
                               /\ n[k].records = RecordsIn(req, n[k].stream)
        /\ \A k, l \in DOMAIN n : n[k].stream = n[l].stream => k = l
        /\ \A s \in Stream : RecordsIn(req, s) # <<>> => \E k \in DOMAIN n : n[k].stream = s
  BY HandsEffect DEF DeliveryInv
<1>2. CASE Enters(n)
  <2>1. ASSUME NEW s \in Stream PROVE Rest(n, s, ToSet(accepted)) = RecordsIn(req, s)
    BY <1>1, RestOfferedIs
  <2>2. QED
    BY <1>1, <1>2, <2>1, EntersMaps
<1>3. CASE Refuses
  BY <1>1, <1>3, RefusesMaps
<1>4. QED
  BY <1>1, <1>2, <1>3
\* A step of a worker that stores nothing and ends nothing is not seen.
LEMMA QuietMaps ==
  ASSUME UNCHANGED vars, UNCHANGED <<order, acked, dropped, accepted>>
  PROVE  UNCHANGED LD!ldVars
<1>1. Waiting' = Waiting /\ failed' = failed
  BY DEF vars, batchVars, Waiting, RecordsIn
<1>2. /\ Arrived' = Arrived /\ Lost' = Lost
      /\ \A s : Unstored(s)' = Unstored(s)
  BY <1>1, Unchanged
<1>3. Pending' = Pending
  BY <1>1, <1>2 DEF Pending
<1>4. QED
  BY <1>2, <1>3 DEF LD!ldVars

\* The request at hand is the first one that is outstanding, and none of the others.
LEMMA RequestAtHand ==
  ASSUME NEW w, Worker = {w}, DeliveryInv(w), pushes[w].pc # "idle", NEW q, q = pushes[w].request
  PROVE  /\ q \in Request /\ In(q, order) /\ q \notin acked \cup dropped
         /\ queue \in Seq(Request)
         /\ \A j \in DOMAIN queue : In(queue[j], order) /\ queue[j] # q
         /\ \A s \in Stream :
              /\ Rest(q, s, ToSet(accepted)) \in Seq(Record)
              /\ Pieces(queue, s, ToSet(accepted)) \in Seq(Record)
              /\ Waiting[s] \in Seq(Record)
              /\ Unstored(s) = Rest(q, s, ToSet(accepted)) \o Pieces(queue, s, ToSet(accepted))
              /\ Pending[s] = Unstored(s) \o Waiting[s]
<1> DEFINE one == <<q>>
<1>1. q \in Request
  BY ExporterAssumptionHolds, ZP!BusyWorker DEF DeliveryInv, ExporterInv
<1>2. In(q, order) /\ q \notin acked \cup dropped
  BY DEF DeliveryInv, ZP!InOnePlace, ZP!Entered, In
<1>3. queue \in Seq(Request)
  BY PendingParts
<1>4. \A j \in DOMAIN queue : In(queue[j], order) /\ queue[j] # q
  <2> SUFFICES ASSUME NEW j \in DOMAIN queue PROVE In(queue[j], order) /\ queue[j] # q
    OBVIOUS
  <2>1. queue[j] \in ZP!Queued /\ ZP!Queued \subseteq ZP!Entered /\ q \notin ZP!Queued
    BY DEF DeliveryInv, ZP!InOnePlace, ZP!Queued
  <2>2. QED
    BY <2>1 DEF ZP!Entered, In
<1>5. one \in Seq(Request) /\ Outstanding = one \o queue
  BY <1>1 DEF DeliveryInv, WorkInv, Current
<1>6. ASSUME NEW s \in Stream
      PROVE  /\ Rest(q, s, ToSet(accepted)) \in Seq(Record)
             /\ Pieces(queue, s, ToSet(accepted)) \in Seq(Record)
             /\ Waiting[s] \in Seq(Record)
             /\ Unstored(s) = Rest(q, s, ToSet(accepted)) \o Pieces(queue, s, ToSet(accepted))
             /\ Pending[s] = Unstored(s) \o Waiting[s]
  <2> DEFINE st == ToSet(accepted)
             os == Outstanding
  <2>1. Rest(q, s, st) \in Seq(Record) /\ Pieces(queue, s, st) \in Seq(Record)
    BY <1>1, <1>3, RestType, RestsType
  <2>2. /\ Unstored(s) = Pieces(os, s, st) /\ Waiting[s] \in Seq(Record)
        /\ Pending[s] = Unstored(s) \o Waiting[s]
    BY PendingParts
  <2>3. Pieces(one, s, st) = Rest(q, s, st)
    BY <1>1, PiecesOne
  <2>4. os = one \o queue
    BY <1>5
  <2> HIDE DEF st, one, os
  <2>5. Pieces(one \o queue, s, st) = Pieces(one, s, st) \o Pieces(queue, s, st)
    BY <1>3, <1>5, PiecesConcat
  <2>6. Unstored(s) = Rest(q, s, st) \o Pieces(queue, s, st)
    BY <2>2, <2>3, <2>4, <2>5
  <2>7. QED
    BY <2>1, <2>2, <2>6 DEF st
<1>7. QED
  BY <1>1, <1>2, <1>3, <1>4, <1>6

\* A request is acknowledged when nothing of it is left.
LEMMA AcksMaps ==
  ASSUME NEW w, Worker = {w}, DeliveryInv(w), DeliveryInv(w)', UNCHANGED vars, Ends(w), Acks(w)
  PROVE  UNCHANGED LD!ldVars
<1> DEFINE q == pushes[w].request
           st == ToSet(accepted)
<1>1. /\ pushes[w].pc # "idle" /\ pushes[w].pc = "entry" /\ pushes[w].i > Len(EntriesOf[q])
      /\ queue' = queue /\ accepted' = accepted /\ dropped' = dropped
  BY DEF Ends, Acks
<1>2. q \in Request /\ queue \in Seq(Request)
  BY <1>1, RequestAtHand
<1>3. Waiting' = Waiting /\ failed' = failed
  BY DEF vars, batchVars, Waiting, RecordsIn
<1>4. \A k \in DOMAIN q : <<q, k>> \in st
  <2> SUFFICES ASSUME NEW k \in DOMAIN q PROVE <<q, k>> \in st
    OBVIOUS
  <2>1. Len(EntriesOf[q]) = Len(q) /\ Len(q) \in Nat /\ DOMAIN q = 1 .. Len(q)
    BY <1>2, SameEntries
  <2>2. pushes[w].i \in Nat
    BY DEF DeliveryInv, ExporterInv, ZP!TypeOK, ZP!Push
  <2>3. k \in 1 .. pushes[w].i - 1
    BY <1>1, <2>1, <2>2
  <2>4. ZP!Stored(q, k)
    BY <1>1, <2>3 DEF DeliveryInv, ZP!SentSoFar
  <2>5. QED
    BY <2>4 DEF ZP!Stored, ToSet
<1>5. \A j : Z!FirstArrival(j)' <=> Z!FirstArrival(j)
  BY <1>1 DEF Z!FirstArrival
<1>6. Arrived' = Arrived /\ Lost' = Lost
  BY <1>1, <1>3, <1>5 DEF Arrived, Arrival, Lost
<1>7. Outstanding' = queue
  BY <1>1, <1>2, ConcatEmptySeq DEF DeliveryInv, WorkInv, Current, Ends
<1>8. ASSUME NEW s \in Stream PROVE Pending'[s] = Pending[s]
  <2>1. Unstored(s)' = Pieces(Outstanding', s, st)
    BY <1>1 DEF Unstored, Pieces, RestsOf
  <2>2. /\ Unstored(s) = Rest(q, s, st) \o Pieces(queue, s, st)
        /\ Pending[s] = Unstored(s) \o Waiting[s]
        /\ Pieces(queue, s, st) \in Seq(Record)
    BY <1>1, RequestAtHand
  <2>3. Rest(q, s, st) = <<>>
    BY <1>4, RestStored
  <2>4. Unstored(s)' = Unstored(s)
    BY <1>7, <2>1, <2>2, <2>3, ConcatEmptySeq
  <2>5. Pending'[s] = Unstored(s)' \o Waiting'[s]
    BY DEF Pending
  <2>6. QED
    BY <1>3, <2>2, <2>4, <2>5
<1>9. Pending' = Pending
  BY <1>8 DEF Pending
<1>10. QED
  BY <1>6, <1>9 DEF LD!ldVars
\* A record in what is left of a queued request is in one of its entries.
LEMMA RestKnown ==
  ASSUME NEW w, Worker = {w}, DeliveryInv(w), NEW q, In(q, order),
         NEW s, NEW st, NEW x, In(x, Rest(q, s, st))
  PROVE  \E k \in DOMAIN q : /\ q[k].stream = s /\ <<q, k>> \notin st
                             /\ In(x, q[k].records) /\ In(x, handed[s]) /\ x \notin failed
<1>1. Rest(q, s, st) # <<>>
  BY InEmpty
<1>2. PICK k \in DOMAIN q : /\ q[k].stream = s /\ <<q, k>> \notin st
                            /\ Rest(q, s, st) = q[k].records
  BY <1>1, RestFrom
<1>3. In(x, q[k].records)
  BY <1>2
<1>4. In(x, handed[s]) /\ x \notin failed
  BY <1>2, <1>3 DEF DeliveryInv, EntriesInv, Known
<1>5. QED
  BY <1>2, <1>3, <1>4

\* What is left of a request that is given up is lost.
LEMMA DropsMaps ==
  ASSUME NEW w, Worker = {w}, DeliveryInv(w), DeliveryInv(w)', UNCHANGED vars, Ends(w), Drops(w)
  PROVE  [LD!LDNext]_(LD!ldVars)
<1> DEFINE q == pushes[w].request
           st == ToSet(accepted)
           R == UNION {ToSet(Rest(q, s, st)) : s \in Stream}
<1>1. /\ pushes[w].pc # "idle" /\ queue' = queue /\ accepted' = accepted
      /\ dropped' = dropped \cup {q}
  BY DEF Ends, Drops
<1>2. /\ q \in Request /\ queue \in Seq(Request) /\ In(q, order) /\ q \notin dropped
      /\ \A j \in DOMAIN queue : In(queue[j], order) /\ queue[j] # q
  BY <1>1, RequestAtHand
<1>3. Waiting' = Waiting /\ failed' = failed
  BY DEF vars, batchVars, Waiting, RecordsIn
<1>4. \A j : Z!FirstArrival(j)' <=> Z!FirstArrival(j)
  BY <1>1 DEF Z!FirstArrival
<1>5. Arrived' = Arrived
  BY <1>1, <1>4 DEF Arrived, Arrival
<1>6. Outstanding' = queue
  BY <1>1, <1>2, ConcatEmptySeq DEF DeliveryInv, WorkInv, Current, Ends
<1>7. \A x : x \in R <=> \E s \in Stream : In(x, Rest(q, s, st))
  <2> HIDE DEF q, st
  <2>1. \A s : \A x : x \in ToSet(Rest(q, s, st)) <=> In(x, Rest(q, s, st))
    BY DEF ToSet, In
  <2>2. QED
    BY <2>1
<1>8. Lost' = Lost \cup R
  <2> HIDE DEF st
  <2> DEFINE G(r) == UNION {ToSet(Rest(r, s, st)) : s \in Stream}
  <2>1. Lost = failed \cup UNION {G(r) : r \in dropped}
    BY DEF Lost, st
  <2>2. Lost' = failed \cup UNION {G(r) : r \in dropped'}
    BY <1>1, <1>3 DEF Lost, st
  <2>3. G(q) = R
    OBVIOUS
  <2> HIDE DEF G, R, q
  <2>4. QED
    BY <1>1, <2>1, <2>2, <2>3
<1>9. ASSUME NEW x \in R
      PROVE  \E k \in DOMAIN q : \E s \in Stream :
               <<q, k>> \notin st /\ In(x, q[k].records) /\ In(x, handed[s]) /\ x \notin failed
  <2> HIDE DEF R, q, st
  <2>1. PICK s \in Stream : In(x, Rest(q, s, st))
    BY <1>7
  <2>2. PICK k \in DOMAIN q : /\ q[k].stream = s /\ <<q, k>> \notin st
                              /\ In(x, q[k].records) /\ In(x, handed[s]) /\ x \notin failed
    BY <1>2, <2>1, RestKnown
  <2>3. QED
    BY <2>2
<1> HIDE DEF R, q, st
<1>10. ASSUME NEW x \in R, NEW r, In(r, order), r # q, NEW l \in DOMAIN r
       PROVE  ~In(x, r[l].records)
  <2>1. PICK k \in DOMAIN q : In(x, q[k].records)
    BY <1>9
  <2>2. QED
    BY <1>2, <1>10, <2>1 DEF DeliveryInv, EntriesInv
<1>11. R \cap Lost = {}
  <2> SUFFICES ASSUME NEW x \in R, x \in Lost PROVE FALSE
    OBVIOUS
  <2>1. x \notin failed
    BY <1>9
  <2>2. PICK r \in dropped, s \in Stream : x \in ToSet(Rest(r, s, ToSet(accepted)))
    BY <2>1 DEF Lost
  <2>3. In(x, Rest(r, s, st))
    BY <2>2 DEF ToSet, In, st
  <2>4. In(r, order) /\ r # q
    BY <1>2, <2>2 DEF DeliveryInv, ZP!InOnePlace, ZP!Entered, In
  <2>5. PICK k \in DOMAIN r : In(x, r[k].records)
    BY <2>3, <2>4, RestKnown
  <2>6. QED
    BY <1>10, <2>4, <2>5
<1>12. ASSUME NEW s \in Stream
       PROVE  /\ Pending[s] \in Seq(Record)
              /\ Pending'[s] = Without(Pending[s], R)
              /\ \A x : In(x, Rest(q, s, st)) => In(x, Pending[s])
  <2> DEFINE a == Rest(q, s, st)
             b == Pieces(queue, s, st)
             c == Waiting[s]
             bc == b \o c
             p == Pending[s]
             e == <<>>
  <2>1. /\ a \in Seq(Record) /\ b \in Seq(Record) /\ c \in Seq(Record)
        /\ p = (a \o b) \o c /\ p \in Seq(Record)
    <3>1. /\ Rest(q, s, st) \in Seq(Record) /\ Pieces(queue, s, st) \in Seq(Record)
          /\ Waiting[s] \in Seq(Record)
          /\ Unstored(s) = Rest(q, s, st) \o Pieces(queue, s, st)
          /\ Pending[s] = Unstored(s) \o Waiting[s]
      <4> USE DEF q, st
      <4>1. QED
        BY <1>1, RequestAtHand
    <3>2. Pending[s] \in Seq(Record)
      BY PendingParts
    <3>3. QED
      BY <3>1, <3>2
  <2>2. Pending'[s] = b \o c
    <3>1. Unstored(s)' = Pieces(Outstanding', s, st)
      BY <1>1 DEF Unstored, Pieces, RestsOf, st
    <3>2. Pending'[s] = Unstored(s)' \o Waiting'[s]
      BY DEF Pending
    <3>3. QED
      BY <1>3, <1>6, <3>1, <3>2
  <2>3. \A x : In(x, a) => x \in R
    BY <1>7
  <2>4. \A x : In(x, b) => x \notin R
    <3> SUFFICES ASSUME NEW x, In(x, b), x \in R PROVE FALSE
      OBVIOUS
    <3>1. OfEntry(x, queue, s, st)
      BY <1>2, PiecesFrom
    <3>2. PICK j \in DOMAIN queue : \E k \in DOMAIN queue[j] : In(x, queue[j][k].records)
      BY <3>1 DEF OfEntry
    <3> DEFINE r == queue[j]
    <3>3. In(r, order) /\ r # q
      BY <1>2
    <3>4. PICK k \in DOMAIN r : In(x, r[k].records)
      BY <3>2
    <3> HIDE DEF r
    <3>5. QED
      BY <1>10, <3>3, <3>4
  <2>5. \A x : In(x, c) => x \notin R
    <3> SUFFICES ASSUME NEW x, In(x, c), x \in R PROVE FALSE
      OBVIOUS
    <3>1. PICK t \in Stream : In(x, handed[t])
      BY <1>9
    <3>2. BatchInv /\ OnceInv /\ StreamInv
      BY DEF DeliveryInv, PipelineInv, ProcessorInv
    <3>3. QED
      BY <3>1, <3>2, RecordsApart
  <2> HIDE DEF a, b, c, p
  <2>6. (a \o b) \o c = a \o (b \o c) /\ b \o c \in Seq(Record)
    BY <2>1, RecordsAssociative, ConcatProperties
  <2>7. \A x : In(x, b \o c) => x \notin R
    <3>1. \A x : In(x, b \o c) <=> In(x, b) \/ In(x, c)
      BY <2>1, InConcat
    <3>2. QED
      BY <2>4, <2>5, <3>1
  <2>8. e \in Seq(Record) /\ \A x : In(x, e) => x \notin R
    BY EmptySeq, InEmpty
  <2>9. bc \in Seq(Record) /\ p = a \o bc /\ Pending'[s] = bc /\ \A x : In(x, bc) => x \notin R
    BY <2>1, <2>2, <2>6, <2>7
  <2> HIDE DEF bc, e
  <2>10. Without(e \o (a \o bc), R) = e \o bc
    <3>1. e \in Seq(Record) /\ a \in Seq(Record) /\ bc \in Seq(Record)
      BY <2>1, <2>8, <2>9
    <3>2. QED
      BY <2>3, <2>8, <2>9, <3>1, WithoutMiddle
  <2>11. e \o (a \o bc) = p /\ e \o bc = bc
    BY <2>1, <2>9, ConcatEmptySeq DEF e
  <2>12. \A x : In(x, a) => In(x, p)
    <3>1. \A x : In(x, a \o bc) <=> In(x, a) \/ In(x, bc)
      BY <2>1, <2>9, InConcat
    <3>2. QED
      BY <2>9, <3>1
  <2>13. QED
    BY <2>1, <2>9, <2>10, <2>11, <2>12 DEF a, p
<1>13. \A x \in R : \E s \in Stream : In(x, Pending[s])
  BY <1>7, <1>12
<1>14. QED
  BY <1>5, <1>8, <1>11, <1>12, <1>13, LosesMaps
\* What Zebrium holds of a stream when one more entry is stored.
Added(q, i, s, st) ==
  IF q[i].stream = s /\ <<q, i>> \notin st THEN q[i].records ELSE <<>>

LEMMA ArrivedGrows ==
  ASSUME NEW w, Worker = {w}, DeliveryInv(w), Stores(w), NEW q, NEW i,
         q = pushes[w].request, i = pushes[w].i, NEW s \in Stream
  PROVE  /\ Arrived[s] \in Seq(Record)
         /\ Arrived'[s] = Arrived[s] \o Added(q, i, s, ToSet(accepted))
<1> DEFINE new == <<q, i>>
           f == [j \in DOMAIN accepted |-> Arrival(j, s)]
           piece == IF q[i].stream = s /\ new \notin ToSet(accepted) THEN q[i].records ELSE <<>>
<1>1. q \in Request /\ i \in DOMAIN q
  BY EntryAtHand DEF DeliveryInv
<1>2. accepted \in Seq(Request \X Nat)
  BY DEF DeliveryInv, ExporterInv, ZP!TypeOK
<1>3. new \in Request \X Nat
  <2>1. DOMAIN q \subseteq Nat
    BY <1>1, EntryOfRequest
  <2>2. QED
    BY <1>1, <2>1
<1>4. accepted' = Append(accepted, new)
  BY DEF Stores
<1>5. new[1] = q /\ new[2] = i
  OBVIOUS
<1>6. q[i].records \in Seq(Record)
  BY <1>1, EntryOfRequest
<1> HIDE DEF new
<1>0. PICK n \in Nat : n = Len(accepted)
  BY <1>2, LenProperties
<1>7. /\ n \in Nat /\ DOMAIN accepted = 1 .. n /\ DOMAIN accepted' = 1 .. n + 1
      /\ \A j \in 1 .. n : accepted'[j] = accepted[j]
      /\ accepted'[n + 1] = new
  BY <1>0, <1>2, <1>3, <1>4, AppendedElements
<1>8. ASSUME NEW j \in 1 .. n
      PROVE  Arrival(j, s)' = Arrival(j, s) /\ Arrival(j, s) \in Seq(Record)
  <2>1. \A l \in 1 .. (j - 1) : accepted'[l] = accepted[l]
    BY <1>7
  <2>2. accepted'[j] = accepted[j]
    BY <1>7
  <2>3. Z!FirstArrival(j)' <=> Z!FirstArrival(j)
    BY <2>1, <2>2 DEF Z!FirstArrival
  <2>4. Arrival(j, s)' = Arrival(j, s)
    BY <2>2, <2>3 DEF Arrival
  <2>5. accepted[j][1] \in Request /\ accepted[j][2] \in DOMAIN accepted[j][1]
    BY <1>7 DEF DeliveryInv, AcceptedInv
  <2>6. accepted[j][1][accepted[j][2]].records \in Seq(Record)
    BY <2>5, EntryOfRequest
  <2>7. QED
    BY <2>4, <2>6, EmptySeq DEF Arrival
<1>9. Arrival(n + 1, s)' = piece
  <2>1. Z!FirstArrival(n + 1)' <=> new \notin ToSet(accepted)
    <3>1. (n + 1) - 1 = n
      BY <1>7
    <3>2. \A l \in 1 .. n : accepted'[l] # accepted'[n + 1] <=> accepted[l] # new
      BY <1>7
    <3>3. QED
      BY <1>7, <3>1, <3>2 DEF Z!FirstArrival, ToSet
  <2>2. QED
    BY <1>5, <1>7, <2>1 DEF Arrival
<1>10. f \in Seq(Seq(Record)) /\ Len(f) = n
  <2>1. f \in [1 .. n -> Seq(Record)]
    BY <1>7, <1>8
  <2>2. f \in Seq(Seq(Record))
    BY <1>7, <2>1, SeqDef
  <2>3. Len(f) \in Nat /\ DOMAIN f = 1 .. Len(f) /\ DOMAIN f = 1 .. n
    BY <1>7, <2>2, LenProperties
  <2>4. PICK m \in Nat : m = Len(f)
    BY <2>3
  <2>5. 1 .. m = 1 .. n
    BY <2>3, <2>4
  <2>6. m = n
    BY <2>5
  <2>7. QED
    BY <2>2, <2>4, <2>6
<1>11. piece \in Seq(Record)
  BY <1>6, EmptySeq
<1>12. [j \in DOMAIN accepted' |-> Arrival(j, s)'] = Append(f, piece)
  <2> DEFINE g == [j \in DOMAIN accepted' |-> Arrival(j, s)']
  <2>1. g = [j \in 1 .. n + 1 |-> Arrival(j, s)']
    BY <1>7
  <2>2. /\ \A j \in 1 .. n : g[j] = f[j]
        /\ g[n + 1] = piece
    BY <1>7, <1>8, <1>9
  <2>3. DOMAIN g = 1 .. n + 1
    BY <2>1
  <2> HIDE DEF g, f, piece
  <2>4. /\ Append(f, piece) \in Seq(Seq(Record))
        /\ DOMAIN Append(f, piece) = 1 .. n + 1
        /\ \A j \in 1 .. n : Append(f, piece)[j] = f[j]
        /\ Append(f, piece)[n + 1] = piece
    BY <1>10, <1>11, AppendedElements
  <2>5. g = [j \in 1 .. n + 1 |-> g[j]] /\ Append(f, piece) = [j \in 1 .. n + 1 |-> Append(f, piece)[j]]
    <3>1. g = [j \in DOMAIN g |-> g[j]]
      BY DEF g
    <3> DEFINE h == Append(f, piece)
    <3>2. h \in Seq(Seq(Record)) /\ DOMAIN h = 1 .. n + 1
      BY <2>4
    <3> HIDE DEF h
    <3>3. h \in [1 .. Len(h) -> Seq(Record)]
      BY <3>2, LenProperties
    <3>4. h = [j \in DOMAIN h |-> h[j]]
      BY <3>3
    <3>5. QED
      BY <2>3, <3>1, <3>2, <3>4 DEF h
  <2>6. \A j \in 1 .. n + 1 : j \in 1 .. n \/ j = n + 1
    BY <1>7
  <2>7. \A j \in 1 .. n + 1 : g[j] = Append(f, piece)[j]
    BY <2>2, <2>4, <2>6
  <2>8. [j \in 1 .. n + 1 |-> g[j]] = [j \in 1 .. n + 1 |-> Append(f, piece)[j]]
    BY <2>7
  <2>9. QED
    BY <2>5, <2>8 DEF g
<1>13. Arrived[s] = FlattenSeq(f)
  BY DEF Arrived
<1>14. Arrived'[s] = FlattenSeq(Append(f, piece))
  <2>1. Arrived'[s] = FlattenSeq([j \in DOMAIN accepted' |-> Arrival(j, s)'])
    BY DEF Arrived
  <2>2. QED
    BY <1>12, <2>1
<1> HIDE DEF f, piece
<1>15. FlattenSeq(Append(f, piece)) = FlattenSeq(f) \o piece /\ FlattenSeq(f) \in Seq(Record)
  BY <1>10, <1>11, FlattenSeqAppend, FlattenSeqType
<1>16. QED
  BY <1>13, <1>14, <1>15 DEF piece, new, Added
\* The two parts of a sequence.
LEMMA FrontAndRest ==
  ASSUME NEW S, NEW a \in Seq(S), NEW b \in Seq(S)
  PROVE  /\ SubSeq(a \o b, 1, Len(a)) = a
         /\ SubSeq(a \o b, Len(a) + 1, Len(a) + Len(b)) = b
BY SubSeqOfConcat1, SubSeqOfConcat2

\* An entry stored for the first time arrives; another copy of it is not seen.
LEMMA StoresMaps ==
  ASSUME NEW w, Worker = {w}, DeliveryInv(w), UNCHANGED vars, GoesOn(w), Stores(w)
  PROVE  [LD!LDNext]_(LD!ldVars)
<1>1. PICK q \in Request : \E k \in DOMAIN q : q = pushes[w].request /\ k = pushes[w].i
  BY EntryAtHand DEF DeliveryInv
<1>2. PICK i \in DOMAIN q : q = pushes[w].request /\ i = pushes[w].i
  BY <1>1
<1>3. PICK st : st = ToSet(accepted)
  OBVIOUS
<1> DEFINE e == q[i]
           new == <<q, i>>
<1>4. PICK t \in Stream : t = e.stream
  BY EntryOfRequest
<1>5. PICK er \in Seq(Record) : er = e.records
  BY EntryOfRequest
<1>6. pushes[w].pc # "idle"
  BY DEF GoesOn
<1>7. /\ In(q, order) /\ q \notin acked \cup dropped /\ queue \in Seq(Request)
      /\ \A j \in DOMAIN queue : queue[j] # q
      /\ \A s \in Stream : /\ Rest(q, s, st) \in Seq(Record) /\ Pieces(queue, s, st) \in Seq(Record)
                           /\ Waiting[s] \in Seq(Record)
                           /\ Unstored(s) = Rest(q, s, st) \o Pieces(queue, s, st)
                           /\ Pending[s] = Unstored(s) \o Waiting[s]
  BY <1>2, <1>3, <1>6, RequestAtHand
<1>8. /\ er # <<>>
      /\ \A k \in DOMAIN q : q[k].stream = t => k = i
  BY <1>4, <1>5, <1>7 DEF DeliveryInv, EntriesInv, Known
<1>9. Waiting' = Waiting /\ failed' = failed
  BY DEF vars, batchVars, Waiting, RecordsIn
<1>10. PICK su : su = st \cup {new}
  OBVIOUS
<1>11. ToSet(accepted') = su
  <2>1. accepted \in Seq(Request \X Nat)
    BY DEF DeliveryInv, ExporterInv, ZP!TypeOK
  <2>2. new \in Request \X Nat
    <3>1. DOMAIN q \subseteq Nat
      BY EntryOfRequest
    <3>2. QED
      BY <3>1
  <2>3. accepted' = Append(accepted, new)
    BY <1>2 DEF Stores
  <2> HIDE DEF new
  <2>4. {accepted'[j] : j \in DOMAIN accepted'} = {accepted[j] : j \in DOMAIN accepted} \cup {new}
    <3>1. /\ Len(accepted) \in Nat
          /\ DOMAIN accepted = 1 .. Len(accepted) /\ DOMAIN accepted' = 1 .. Len(accepted) + 1
          /\ \A j \in 1 .. Len(accepted) : accepted'[j] = accepted[j]
          /\ accepted'[Len(accepted) + 1] = new
          /\ \A j \in 1 .. Len(accepted) + 1 : j \in 1 .. Len(accepted) \/ j = Len(accepted) + 1
      BY <2>1, <2>2, <2>3, AppendedElements
    <3>2. Len(accepted) + 1 \in 1 .. Len(accepted) + 1
          /\ \A j \in 1 .. Len(accepted) : j \in 1 .. Len(accepted) + 1
      BY <3>1
    <3>3. QED
      BY <3>1, <3>2
  <2>5. QED
    BY <1>3, <1>10, <2>4 DEF ToSet
<1>12. Outstanding' = Outstanding
  BY DEF Outstanding, GoesOn
<1>13. Lost' = Lost
  <2>1. \A r \in dropped : \A s : Rest(r, s, su) = Rest(r, s, st)
    <3> SUFFICES ASSUME NEW r \in dropped, NEW s PROVE Rest(r, s, su) = Rest(r, s, st)
      OBVIOUS
    <3>1. r # q
      BY <1>7
    <3>2. \A k \in DOMAIN r : r[k].stream = s => (<<r, k>> \in su <=> <<r, k>> \in st)
      BY <1>10, <3>1
    <3>3. QED
      BY <3>2, RestSame
  <2>2. Lost = failed \cup UNION {ToSet(Rest(r, s, st)) : r \in dropped, s \in Stream}
    BY <1>3 DEF Lost
  <2>3. Lost' = failed \cup UNION {ToSet(Rest(r, s, su)) : r \in dropped, s \in Stream}
    BY <1>9, <1>11 DEF Lost, GoesOn
  <2>4. QED
    BY <2>1, <2>2, <2>3
<1>14. \A s \in Stream : Unstored(s)' = Rest(q, s, su) \o Pieces(queue, s, su)
  <2> SUFFICES ASSUME NEW s \in Stream PROVE Unstored(s)' = Rest(q, s, su) \o Pieces(queue, s, su)
    OBVIOUS
  <2>1. Unstored(s)' = Pieces(Outstanding', s, su)
    BY <1>11 DEF Unstored, Pieces, RestsOf
  <2> DEFINE one == <<q>>
  <2>2. one \in Seq(Request) /\ Outstanding = one \o queue
    BY <1>2, <1>6 DEF DeliveryInv, WorkInv, Current
  <2>3. Pieces(one, s, su) = Rest(q, s, su)
    BY PiecesOne
  <2> HIDE DEF one
  <2>4. Pieces(one \o queue, s, su) = Pieces(one, s, su) \o Pieces(queue, s, su)
    <3>1. one \in Seq(Request) /\ queue \in Seq(Request)
      BY <1>7, <2>2
    <3>2. QED
      BY <3>1, PiecesConcat
  <2>5. QED
    BY <1>12, <2>1, <2>2, <2>3, <2>4
<1>15. \A s \in Stream : Pieces(queue, s, su) = Pieces(queue, s, st)
  <2> SUFFICES ASSUME NEW s \in Stream PROVE Pieces(queue, s, su) = Pieces(queue, s, st)
    OBVIOUS
  <2>1. \A j \in DOMAIN queue : \A k : <<queue[j], k>> \in su <=> <<queue[j], k>> \in st
    BY <1>7, <1>10
  <2>2. QED
    BY <1>7, <2>1, PiecesSame
<1>16. \A s \in Stream : s # t => Rest(q, s, su) = Rest(q, s, st)
  <2> SUFFICES ASSUME NEW s \in Stream, s # t PROVE Rest(q, s, su) = Rest(q, s, st)
    OBVIOUS
  <2>1. \A k \in DOMAIN q : q[k].stream = s => (<<q, k>> \in su <=> <<q, k>> \in st)
    BY <1>4, <1>10
  <2>2. QED
    BY <2>1, RestSame
<1>17. \A s \in Stream : Pending'[s] = Unstored(s)' \o Waiting[s]
  BY <1>9 DEF Pending
<1>18. \A s \in Stream :
         /\ Arrived[s] \in Seq(Record)
         /\ Arrived'[s] = Arrived[s] \o (IF s = t /\ new \notin st THEN er ELSE <<>>)
  <2> SUFFICES ASSUME NEW s \in Stream
               PROVE  /\ Arrived[s] \in Seq(Record)
                      /\ Arrived'[s] = Arrived[s] \o (IF s = t /\ new \notin st THEN er ELSE <<>>)
    OBVIOUS
  <2>1. /\ Arrived[s] \in Seq(Record)
        /\ Arrived'[s] = Arrived[s] \o Added(q, i, s, ToSet(accepted))
    BY <1>2, ArrivedGrows
  <2>2. QED
    BY <1>3, <1>4, <1>5, <2>1 DEF Added
<1>19. Pending = [s \in Stream |-> Pending[s]] /\ Pending' = [s \in Stream |-> Pending'[s]]
       /\ Arrived = [s \in Stream |-> Arrived[s]] /\ Arrived' = [s \in Stream |-> Arrived'[s]]
  <2>1. Pending = [s \in Stream |-> Pending[s]] /\ Pending' = [s \in Stream |-> Pending'[s]]
    BY DEF Pending
  <2>2. Arrived = [s \in Stream |-> Arrived[s]]
    BY DEF Arrived
  <2>3. Arrived' = [s \in Stream |-> Arrived'[s]]
    BY DEF Arrived, Arrival, Z!FirstArrival
  <2>4. QED
    BY <2>1, <2>2, <2>3
<1>20. \A s \in Stream : s # t \/ new \in st => Pending'[s] = Pending[s] /\ Arrived'[s] = Arrived[s]
  <2> SUFFICES ASSUME NEW s \in Stream, s # t \/ new \in st
               PROVE  Pending'[s] = Pending[s] /\ Arrived'[s] = Arrived[s]
    OBVIOUS
  <2>1. Rest(q, s, su) = Rest(q, s, st)
    BY <1>10, <1>16
  <2>2. Pending'[s] = Pending[s]
    BY <1>7, <1>14, <1>15, <1>17, <2>1
  <2>3. Arrived'[s] = Arrived[s] \o <<>> /\ Arrived[s] \in Seq(Record)
    BY <1>18
  <2>4. QED
    BY <2>2, <2>3, ConcatEmptySeq
<1>21. CASE new \in st
  <2>1. Pending' = Pending /\ Arrived' = Arrived
    BY <1>19, <1>20, <1>21
  <2>2. QED
    BY <1>13, <2>1 DEF LD!ldVars
<1>22. CASE new \notin st
  <2>1. Rest(q, t, st) = er
    BY <1>4, <1>5, <1>8, <1>22, RestOfEntry
  <2>2. Rest(q, t, su) = <<>>
    BY <1>4, <1>8, <1>10, RestStored
  <2>3. PICK b \in Seq(Record) : b = Pieces(queue, t, st)
    BY <1>7
  <2>4. PICK c \in Seq(Record) : c = Waiting[t]
    BY <1>7
  <2>5. PICK p \in Seq(Record) : p = b \o c
    BY ConcatProperties
  <2>6. Pending[t] = er \o p
    <3>1. Pending[t] = (er \o b) \o c
      BY <1>7, <2>1, <2>3, <2>4
    <3>2. (er \o b) \o c = er \o (b \o c)
      BY RecordsAssociative
    <3>3. QED
      BY <2>5, <3>1, <3>2
  <2>7. Pending'[t] = p
    <3>1. Unstored(t)' = <<>> \o b
      BY <1>14, <1>15, <2>2, <2>3
    <3>2. <<>> \o b = b
      BY ConcatEmptySeq
    <3>3. QED
      BY <1>17, <2>4, <2>5, <3>1, <3>2
  <2>8. PICK a \in Seq(Record) : a = Arrived[t]
    BY <1>18
  <2>9. Arrived'[t] = a \o er
    BY <1>18, <1>22, <2>8
  <2>10. PICK n \in Nat : n = Len(er)
    BY LenProperties
  <2>11. n >= 1 /\ Len(p) \in Nat /\ Len(a) \in Nat
    <3>1. Len(er) # 0
      BY <1>8, EmptySeq
    <3>2. QED
      BY <2>10, <3>1, LenProperties
  <2>12. PICK ep \in Seq(Record) : ep = er \o p
    BY ConcatProperties
  <2>13. Len(ep) = n + Len(p)
    BY <2>10, <2>12, ConcatProperties
  <2>14. SubSeq(ep, 1, n) = er /\ SubSeq(ep, n + 1, Len(ep)) = p
    <3>1. SubSeq(er \o p, 1, Len(er)) = er /\ SubSeq(er \o p, Len(er) + 1, Len(er) + Len(p)) = p
      BY FrontAndRest
    <3>2. QED
      BY <2>10, <2>12, <2>13, <3>1
  <2>15. Len(a \o er) = Len(a) + n
    BY <2>10, ConcatProperties
  <2>16. Len(Arrived'[t]) - Len(Arrived[t]) = n
    BY <2>8, <2>9, <2>11, <2>15
  <2>17. n \in 1 .. Len(Pending[t])
    BY <2>6, <2>11, <2>12, <2>13
  <2>18. Arrived' = [Arrived EXCEPT ![t] = @ \o SubSeq(Pending[t], 1, n)]
    <3>1. Arrived'[t] = Arrived[t] \o SubSeq(Pending[t], 1, n)
      BY <2>6, <2>8, <2>9, <2>12, <2>14
    <3>2. \A s \in Stream : s # t => Arrived'[s] = Arrived[s]
      BY <1>20
    <3>3. QED
      BY <1>19, <3>1, <3>2
  <2>19. Pending' = [Pending EXCEPT ![t] = SubSeq(@, n + 1, Len(@))]
    <3>1. Pending'[t] = SubSeq(Pending[t], n + 1, Len(Pending[t]))
      BY <2>6, <2>7, <2>12, <2>14
    <3>2. \A s \in Stream : s # t => Pending'[s] = Pending[s]
      BY <1>20
    <3>3. QED
      BY <1>19, <3>1, <3>2
  <2>20. LD!Arrive(t, Len(Arrived'[t]) - Len(Arrived[t]))
    <3>1. LD!Arrive(t, n)
      BY <1>13, <2>17, <2>18, <2>19 DEF LD!Arrive
    <3>2. QED
      BY <2>16, <3>1
  <2>21. QED
    BY <2>20 DEF LD!LDNext
<1>23. QED
  BY <1>21, <1>22
\* Every step of the pipeline is one of the streams, or is not seen.
LEMMA StepMaps ==
  ASSUME NEW w, Worker = {w}
  PROVE  DeliveryInv(w) /\ DeliveryInv(w)' /\ [PipelineNext]_pipelineVars => [LD!LDNext]_(LD!ldVars)
<1> SUFFICES ASSUME DeliveryInv(w), DeliveryInv(w)', [PipelineNext]_pipelineVars
             PROVE  [LD!LDNext]_(LD!ldVars)
  OBVIOUS
<1>1. CASE AtRest
  BY <1>1, AtRestMaps
<1>2. CASE Hands
  BY <1>2, HandsMaps
<1>3. ASSUME UNCHANGED vars,
             \/ Takes(w)
             \/ GoesOn(w) /\ (accepted' = accepted \/ Stores(w))
             \/ Ends(w) /\ (Acks(w) \/ Drops(w))
      PROVE  [LD!LDNext]_(LD!ldVars)
  <2>1. CASE Takes(w) \/ (GoesOn(w) /\ accepted' = accepted)
    BY <1>3, <2>1, QuietMaps DEF Takes, GoesOn
  <2>2. CASE GoesOn(w) /\ Stores(w)
    BY <1>3, <2>2, StoresMaps
  <2>3. CASE Ends(w) /\ Acks(w)
    BY <1>3, <2>3, AcksMaps
  <2>4. CASE Ends(w) /\ Drops(w)
    BY <1>3, <2>4, DropsMaps
  <2>5. QED
    BY <1>3, <2>1, <2>2, <2>3, <2>4
<1>4. PipelineInv /\ ExporterInv
  BY DEF DeliveryInv
<1>5. QED
  BY <1>1, <1>2, <1>3, <1>4, PipelineCases

\* At first every stream is empty.
LEMMA InitMaps == PipelineInit => LD!LDInit
<1> SUFFICES ASSUME PipelineInit PROVE LD!LDInit
  OBVIOUS
<1>1. /\ req = EmptyMap /\ logData = EmptyMap /\ failed = {}
      /\ order = <<>> /\ accepted = <<>> /\ dropped = {}
  BY DEF PipelineInit, Init, BatchInit, Z!Init
<1>2. Waiting = [s \in Stream |-> <<>>]
  BY <1>1, EmptyMapFacts DEF Waiting, RecordsIn
<1>3. Outstanding = <<>>
  BY <1>1, WithoutEmpty DEF Outstanding
<1>4. \A s : Unstored(s) = <<>>
  BY <1>3, FlattenSeqEmpty DEF Unstored
<1>5. Pending = [s \in Stream |-> <<>>]
  BY <1>2, <1>4 DEF Pending
<1>6. Arrived = [s \in Stream |-> <<>>]
  BY <1>1, FlattenSeqEmpty DEF Arrived
<1>7. Lost = {}
  BY <1>1 DEF Lost
<1>8. QED
  BY <1>5, <1>6, <1>7 DEF LD!LDInit

\* With one consumer of the queue, and answers that say whether the logs were stored, the
\* pipeline is a lossy FIFO channel for every stream: across groups cut and refilled,
\* requests refused by a full queue, lost answers, repeated attempts and requests given
\* up, the records of a stream reach Zebrium in order and none vanishes uncounted
\* (batch_logs.go:48-158, logging_exporter.go:77-111, zebrium_exporter.go:83-154).
THEOREM PipelineDelivers ==
  ASSUME NEW w, Worker = {w}, "refused" \notin Answers
  PROVE  PipelineSpec => ImplementsLogDelivery
<1>1. PipelineInit => DeliveryInv(w)
  BY DeliveryInvInit
<1>2. DeliveryInv(w) /\ [PipelineNext]_pipelineVars => DeliveryInv(w)'
  BY DeliveryInvStep
<1>3. PipelineInit => LD!LDInit
  BY InitMaps
<1>4. DeliveryInv(w) /\ DeliveryInv(w)' /\ [PipelineNext]_pipelineVars => [LD!LDNext]_(LD!ldVars)
  BY StepMaps
<1>5. QED
  BY <1>1, <1>2, <1>3, <1>4, PTL DEF PipelineSpec, ImplementsLogDelivery, LD!LDSpec
============================================================================

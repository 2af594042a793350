-------------------- MODULE SlLogFormatProcessorProofs --------------------
(***************************************************************************)
(* Theorems about the batch (module BatchLogs), for every set of records,  *)
(* streams and payloads and every SendBatchMaxSize, and about the log      *)
(* format processor around it, for every number of callers, every capacity *)
(* of newItem and every pair of sizes that Config.Validate accepts.        *)
(*                                                                         *)
(* The invariants of the batch are proved for BatchStep, which lets the    *)
(* caller add a payload twice.  The processor only runs operations of the  *)
(* batch, so they carry over (BatchView) without an argument about where   *)
(* its payloads come from.  ProcessorInv adds what the control of the      *)
(* goroutine, the timer and Shutdown contribute.                           *)
(***************************************************************************)
EXTENDS SlLogFormatProcessor, SequenceTheorems, TLAPS

BatchStep == \/ \E ld \in Payloads : Add(ld)
             \/ SkipRecord
             \/ PlaceRecord
             \/ Export
             \/ \E s \in Stream : TakeGroup(s)
             \/ \E s \in Stream : SplitGroup(s)
             \/ \E ok \in BOOLEAN : Send(ok)

\* The conjunction of the batch's invariants is inductive.
BatchInv == BatchTypeOK /\ LogCountIsLongest /\ EntriesWellFormed /\ StreamOrder
----------------------------------------------------------------------------
(* The maps.                                                               *)

\* A map of groups or of entries, as batchLogs.logData is.
Map(m) == DOMAIN m \subseteq Stream /\ m \in [DOMAIN m -> Entry]

\* The map literal without keys is a map, and holds no records.
LEMMA EmptyMapFacts ==
  /\ Map(EmptyMap)
  /\ DOMAIN EmptyMap = {}
  /\ \A s : RecordsIn(EmptyMap, s) = <<>>
BY DEF EmptyMap, Map, RecordsIn

\* What is stored under a key is a sequence of records.
LEMMA RecordsInType ==
  ASSUME NEW m, Map(m), NEW s
  PROVE  RecordsIn(m, s) \in Seq(Record)
BY EmptySeq DEF Map, RecordsIn, Entry

\* A Go map assignment changes the assigned key only.
LEMMA PutFacts ==
  ASSUME NEW m, Map(m), NEW s \in Stream, NEW e \in Entry
  PROVE  /\ Map(Put(m, s, e))
         /\ DOMAIN Put(m, s, e) = DOMAIN m \cup {s}
         /\ Put(m, s, e)[s] = e
         /\ \A k \in DOMAIN m \ {s} : Put(m, s, e)[k] = m[k]
         /\ RecordsIn(Put(m, s, e), s) = e.records
         /\ \A k : k # s => RecordsIn(Put(m, s, e), k) = RecordsIn(m, k)
BY DEF Map, Put, RecordsIn

\* The delete of a key leaves the other keys alone.
LEMMA DeleteFacts ==
  ASSUME NEW m, Map(m), NEW s
  PROVE  /\ Map(Delete(m, s))
         /\ DOMAIN Delete(m, s) = DOMAIN m \ {s}
         /\ \A k \in DOMAIN m \ {s} : Delete(m, s)[k] = m[k]
         /\ RecordsIn(Delete(m, s), s) = <<>>
         /\ \A k : k # s => RecordsIn(Delete(m, s), k) = RecordsIn(m, k)
BY DEF Map, Delete, RecordsIn

\* splitLogs cuts a group in two: the front has `size' records, nothing else
\* changes (splitlogs.go:22-59).
LEMMA SplitFacts ==
  ASSUME NEW n \in Nat \ {0}, NEW q \in Seq(Record), n < Len(q)
  PROVE  /\ SplitOff(n, q) \in Seq(Record)
         /\ SplitRest(n, q) \in Seq(Record)
         /\ Len(SplitOff(n, q)) = n
         /\ Len(SplitRest(n, q)) = Len(q) - n
         /\ SplitOff(n, q) \o SplitRest(n, q) = q
<1>1. Len(q) \in Nat /\ \A i \in 1..Len(q) : q[i] \in Record
  BY LenProperties, ElementOfSeq
<1>2. /\ SplitOff(n, q) \in Seq(Record)
      /\ Len(SplitOff(n, q)) = n
  BY <1>1, SubSeqProperties DEF SplitOff
<1>3. /\ SplitRest(n, q) \in Seq(Record)
      /\ Len(SplitRest(n, q)) = Len(q) - n
  BY <1>1, SubSeqProperties DEF SplitRest
<1>4. SubSeq(q, 1, n) \o SubSeq(q, n+1, Len(q)) = SubSeq(q, 1, Len(q))
  <2>1. 1 \in 1..Len(q)+1 /\ n \in 1-1..Len(q) /\ Len(q) \in n..Len(q)
    BY <1>1
  <2>2. QED
    BY <2>1, ConcatAdjacentSubSeq
<1>5. QED
  BY <1>2, <1>3, <1>4, SubSeqFull DEF SplitOff, SplitRest
----------------------------------------------------------------------------
(* Type correctness.                                                       *)

\* The records of a payload that is being added are records.
LEMMA HeadOfTodo ==
  ASSUME BatchTypeOK, NextRecord
  PROVE  /\ Head(todo) \in Record
         /\ Tail(todo) \in Seq(Record)
         /\ Tail(todo) = <<>> <=> Len(todo) = 1
<1>1. todo \in Seq(Record) /\ todo # <<>>
  BY DEF BatchTypeOK, NextRecord
<1>2. /\ Head(todo) \in Record
      /\ Tail(todo) \in Seq(Record)
      /\ Len(Tail(todo)) = Len(todo) - 1
  BY <1>1, HeadTailProperties
<1>3. Tail(todo) = <<>> <=> Len(Tail(todo)) = 0
  BY <1>2, EmptySeq
<1>4. QED
  BY <1>1, <1>2, <1>3, LenProperties

\* What PlaceRecord stores is a group, one record longer than before.
LEMMA GrownGroup ==
  ASSUME BatchTypeOK, NextRecord, StreamOf[Head(todo)] # NoMatch
  PROVE  LET r == Head(todo)
             s == StreamOf[r]
             dest == GroupFor(logData, s, r)
             grown == [dest EXCEPT !.records = Append(@, r)]
         IN  /\ s \in Stream
             /\ dest \in Entry
             /\ dest.records = RecordsIn(logData, s)
             /\ grown \in Entry
             /\ grown.records = Append(RecordsIn(logData, s), r)
             /\ Len(grown.records) = Len(RecordsIn(logData, s)) + 1
             /\ Len(grown.records) \in Nat \ {0}
<1> DEFINE r == Head(todo)
           s == StreamOf[r]
           dest == GroupFor(logData, s, r)
           grown == [dest EXCEPT !.records = Append(@, r)]
<1>1. r \in Record
  BY HeadOfTodo
<1>2. s \in Stream
  BY <1>1, BatchAssumption
<1>3. dest \in Entry /\ dest.records = RecordsIn(logData, s)
  <2>1. Map(logData)
    BY DEF BatchTypeOK, Map
  <2>2. FormatOf[r] \in Format
    BY <1>1, BatchAssumption
  <2>3. QED
    BY <2>1, <2>2, EmptySeq DEF GroupFor, RecordsIn, Map, Entry
<1>4. dest.records \in Seq(Record)
  BY <1>3 DEF Entry
<1>5. /\ Append(dest.records, r) \in Seq(Record)
      /\ Len(Append(dest.records, r)) = Len(dest.records) + 1
      /\ Len(dest.records) \in Nat
  BY <1>1, <1>4, AppendProperties, LenProperties
<1>6. grown \in Entry /\ grown.records = Append(dest.records, r)
  BY <1>3, <1>5 DEF Entry
<1>7. QED
  BY <1>2, <1>3, <1>5, <1>6

\* The two cuts of a group that is too long are groups.
LEMMA SplitGroupFacts ==
  ASSUME BatchTypeOK, NEW s \in Stream, SplitGroup(s)
  PROVE  LET g == logData[s]
             front == [g EXCEPT !.records = SplitOff(SendBatchMaxSize, @)]
             rest == [g EXCEPT !.records = SplitRest(SendBatchMaxSize, @)]
         IN  /\ s \in DOMAIN logData
             /\ g \in Entry /\ front \in Entry /\ rest \in Entry
             /\ Len(front.records) = SendBatchMaxSize
             /\ Len(rest.records) = Len(g.records) - SendBatchMaxSize
             /\ front.records \o rest.records = g.records
             /\ SendBatchMaxSize \in Nat \ {0}
             /\ Len(g.records) \in Nat /\ Len(g.records) > SendBatchMaxSize
<1>1. s \in DOMAIN logData /\ logData[s] \in Entry
  BY DEF BatchTypeOK, SplitGroup, VisitKey
<1>2. logData[s].records \in Seq(Record) /\ Len(logData[s].records) \in Nat
  BY <1>1, LenProperties DEF Entry
<1>3. SendBatchMaxSize \in Nat \ {0} /\ Len(logData[s].records) > SendBatchMaxSize
  BY <1>2, BatchAssumption DEF SplitGroup, MustSplit
<1>4. QED
  BY <1>1, <1>2, <1>3, SplitFacts DEF Entry

\* Every step of the batch keeps the types.
LEMMA BatchTypeStep == BatchTypeOK /\ [BatchStep]_batchVars => BatchTypeOK'
<1> SUFFICES ASSUME BatchTypeOK, [BatchStep]_batchVars
             PROVE  BatchTypeOK'
  OBVIOUS
<1> USE DEF Map
<1>1. CASE \E ld \in Payloads : Add(ld)
  <2>1. PICK ld \in Payloads : Add(ld)
    BY <1>1
  <2>2. ld \in Seq(Record) /\ (Len(ld) = 0 <=> ld = <<>>)
    BY BatchAssumption, EmptySeq
  <2>3. QED
    BY <2>1, <2>2 DEF BatchTypeOK, Add
<1>2. CASE SkipRecord
  BY <1>2, HeadOfTodo DEF BatchTypeOK, SkipRecord, NextRecord
<1>3. CASE PlaceRecord
  <2> DEFINE r == Head(todo)
             s == StreamOf[r]
             grown == [GroupFor(logData, s, r) EXCEPT !.records = Append(@, r)]
  <2>1. NextRecord /\ s # NoMatch
    BY <1>3 DEF PlaceRecord
  <2>2. s \in Stream /\ grown \in Entry /\ Len(grown.records) \in Nat
    BY <2>1, GrownGroup
  <2>3. Map(logData')
    <3>1. logData' = Put(logData, s, grown)
      BY <1>3 DEF PlaceRecord
    <3>2. QED
      BY <2>2, <3>1, PutFacts DEF BatchTypeOK
  <2>4. logCount' \in Nat
    BY <1>3, <2>2 DEF PlaceRecord, AtLeast, BatchTypeOK
  <2>5. added' \in [Stream -> Seq(Record)]
    <3>1. r \in Record /\ added[s] \in Seq(Record)
      BY <2>1, <2>2, HeadOfTodo DEF BatchTypeOK
    <3>2. added' = [added EXCEPT ![s] = Append(@, r)]
      BY <1>3 DEF PlaceRecord
    <3>3. QED
      BY <2>2, <3>1, <3>2, AppendProperties DEF BatchTypeOK
  <2>6. /\ todo' \in Seq(Record) /\ (todo' = <<>> <=> op' # "add")
        /\ op' \in {"idle", "add", "export"}
    BY <2>1, HeadOfTodo DEF NextRecord
  <2>7. UNCHANGED <<visit, req, handed, failed, skipped>> /\ visit' = {} /\ op # "export"
    BY <1>3 DEF PlaceRecord, NextRecord, BatchTypeOK
  <2>8. QED
    BY <2>3, <2>4, <2>5, <2>6, <2>7 DEF BatchTypeOK
<1>4. CASE Export
  BY <1>4, EmptyMapFacts DEF BatchTypeOK, Export
<1>5. CASE \E s \in Stream : TakeGroup(s)
  <2>1. PICK s \in Stream : TakeGroup(s)
    BY <1>5
  <2>2. logData[s] \in Entry /\ Map(logData) /\ Map(req)
    BY <2>1 DEF BatchTypeOK, TakeGroup, VisitKey
  <2>3. /\ Map(req')
        /\ Map(logData') /\ DOMAIN logData' = DOMAIN logData \ {s}
    BY <2>1, <2>2, PutFacts, DeleteFacts DEF TakeGroup
  <2>4. QED
    BY <2>1, <2>3 DEF BatchTypeOK, TakeGroup, VisitKey
<1>6. CASE \E s \in Stream : SplitGroup(s)
  <2>1. PICK s \in Stream : SplitGroup(s)
    BY <1>6
  <2> DEFINE g == logData[s]
             front == [g EXCEPT !.records = SplitOff(SendBatchMaxSize, @)]
             rest == [g EXCEPT !.records = SplitRest(SendBatchMaxSize, @)]
  <2>2. /\ s \in DOMAIN logData /\ front \in Entry /\ rest \in Entry
        /\ Len(g.records) - SendBatchMaxSize \in Nat
    BY <2>1, SplitGroupFacts
  <2>3. logCount' \in Nat
    BY <2>1, <2>2 DEF SplitGroup, AtLeast, BatchTypeOK
  <2>4. req' = Put(req, s, front) /\ logData' = Put(logData, s, rest)
    BY <2>1 DEF SplitGroup
  <2>5. Map(req) /\ Map(logData)
    BY DEF BatchTypeOK
  <2>6. Map(req') /\ Map(logData') /\ DOMAIN logData' = DOMAIN logData
    <3> HIDE DEF Map, front, rest
    <3>1. Map(req')
      BY <2>2, <2>4, <2>5, PutFacts
    <3>2. Map(logData') /\ DOMAIN logData' = DOMAIN logData \cup {s}
      BY <2>2, <2>4, <2>5, PutFacts
    <3>3. QED
      BY <2>2, <3>1, <3>2
  <2>7. QED
    BY <2>1, <2>3, <2>6 DEF BatchTypeOK, SplitGroup, VisitKey
<1>7. CASE \E ok \in BOOLEAN : Send(ok)
  <2>1. PICK ok \in BOOLEAN : Send(ok)
    BY <1>7
  <2>2. handed' \in [Stream -> Seq(Record)]
    <3>1. \A s \in Stream : handed[s] \in Seq(Record) /\ RecordsIn(req, s) \in Seq(Record)
      BY RecordsInType DEF BatchTypeOK
    <3>2. handed' = [s \in Stream |-> handed[s] \o RecordsIn(req, s)]
      BY <2>1 DEF Send
    <3>3. QED
      BY <3>1, <3>2, ConcatProperties
  <2>3. failed' \subseteq Record
    <3>1. \A s \in DOMAIN req : req[s].records \in Seq(Record)
      BY DEF BatchTypeOK, Entry
    <3>2. RequestRecords \subseteq Record
      BY <3>1, LenProperties, ElementOfSeq DEF RequestRecords
    <3>3. QED
      BY <2>1, <3>2 DEF Send, BatchTypeOK
  <2>4. QED
    BY <2>1, <2>2, <2>3, EmptyMapFacts DEF BatchTypeOK, Send
<1>8. CASE UNCHANGED batchVars
  BY <1>8 DEF BatchTypeOK, batchVars
<1>9. QED
  BY <1>1, <1>2, <1>3, <1>4, <1>5, <1>6, <1>7, <1>8 DEF BatchStep
----------------------------------------------------------------------------
(* logCount follows the longest group.                                     *)

\* Every step keeps logCount the length of the longest group.
LEMMA LongestStep ==
  BatchTypeOK /\ LogCountIsLongest /\ [BatchStep]_batchVars => LogCountIsLongest'
<1> SUFFICES ASSUME BatchTypeOK, LogCountIsLongest, [BatchStep]_batchVars
             PROVE  LogCountIsLongest'
  OBVIOUS
<1>a. \A s \in DOMAIN logData : Len(logData[s].records) \in Nat
  BY LenProperties DEF BatchTypeOK, Entry
<1>b. logCount \in Nat /\ Map(logData)
  BY DEF BatchTypeOK, Map
<1>1. CASE \E ld \in Payloads : Add(ld)
  BY <1>1 DEF LogCountIsLongest, Counted, Add
<1>2. CASE SkipRecord
  BY <1>2 DEF LogCountIsLongest, Counted, SkipRecord, NextRecord
<1>3. CASE PlaceRecord
  <2> DEFINE r == Head(todo)
             s == StreamOf[r]
             grown == [GroupFor(logData, s, r) EXCEPT !.records = Append(@, r)]
  <2>1. NextRecord /\ s # NoMatch
    BY <1>3 DEF PlaceRecord
  <2>2. /\ s \in Stream /\ grown \in Entry
        /\ Len(grown.records) = Len(RecordsIn(logData, s)) + 1
        /\ Len(grown.records) \in Nat
    BY <2>1, GrownGroup
  <2>3. logData' = Put(logData, s, grown) /\ logCount' = AtLeast(Len(grown.records))
    BY <1>3 DEF PlaceRecord
  <2>4. Counted = DOMAIN logData /\ Counted' = DOMAIN logData'
    BY <2>1 DEF Counted, NextRecord
  <2> HIDE DEF grown
  <2>5. /\ DOMAIN logData' = DOMAIN logData \cup {s}
        /\ logData'[s] = grown
        /\ \A k \in DOMAIN logData \ {s} : logData'[k] = logData[k]
    <3>1. s \in Stream /\ grown \in Entry
      BY <2>2
    <3>2. logData' = Put(logData, s, grown)
      BY <2>3
    <3>3. QED
      BY <3>2 DEF Put
  <2>6. s \in DOMAIN logData => Len(logData[s].records) < Len(grown.records)
    BY <1>a, <2>2 DEF RecordsIn
  <2>7. /\ logCount' >= logCount /\ logCount' >= Len(grown.records)
        /\ logCount' \in {logCount, Len(grown.records)}
    BY <1>b, <2>2, <2>3 DEF AtLeast
  <2>8. \A k \in DOMAIN logData' : Len(logData'[k].records) <= logCount'
    BY <1>a, <1>b, <2>2, <2>4, <2>5, <2>7 DEF LogCountIsLongest
  <2>9. \E k \in DOMAIN logData' : Len(logData'[k].records) = logCount'
    <3>1. CASE logCount' = Len(grown.records)
      BY <2>5, <3>1
    <3>2. CASE logCount' # Len(grown.records)
      <4>1. logCount' = logCount /\ logCount > 0
        BY <1>b, <2>2, <2>7, <3>2
      <4>2. PICK k \in DOMAIN logData : Len(logData[k].records) = logCount
        BY <2>4, <4>1 DEF LogCountIsLongest
      <4>3. k # s
        BY <1>a, <1>b, <2>2, <2>6, <2>7, <4>1, <4>2
      <4>4. QED
        BY <2>5, <4>1, <4>2, <4>3
    <3>3. QED
      BY <3>1, <3>2
  <2>10. QED
    BY <2>4, <2>8, <2>9 DEF LogCountIsLongest
<1>4. CASE Export
  BY <1>4 DEF LogCountIsLongest, Counted, Export
<1>5. CASE \E s \in Stream : TakeGroup(s)
  <2>1. PICK s \in Stream : TakeGroup(s)
    BY <1>5
  <2>2. logData' = Delete(logData, s) /\ logCount' = logCount
    BY <2>1 DEF TakeGroup
  <2>3. /\ DOMAIN logData' = DOMAIN logData \ {s}
        /\ \A k \in DOMAIN logData \ {s} : logData'[k] = logData[k]
    BY <2>2 DEF Delete
  <2>4. s \in visit /\ Counted' = Counted /\ Counted \subseteq DOMAIN logData \ {s}
    BY <2>1, <2>3 DEF Counted, TakeGroup, VisitKey
  <2>5. QED
    BY <2>2, <2>3, <2>4 DEF LogCountIsLongest
<1>6. CASE \E s \in Stream : SplitGroup(s)
  <2>1. PICK s \in Stream : SplitGroup(s)
    BY <1>6
  <2> DEFINE g == logData[s]
             rest == [g EXCEPT !.records = SplitRest(SendBatchMaxSize, @)]
  <2>2. /\ s \in DOMAIN logData /\ rest \in Entry
        /\ Len(rest.records) = Len(g.records) - SendBatchMaxSize
        /\ Len(rest.records) \in Nat
    BY <2>1, SplitGroupFacts, LenProperties DEF Entry
  <2>3. logData' = Put(logData, s, rest) /\ logCount' = AtLeast(Len(rest.records))
    BY <2>1, <2>2 DEF SplitGroup
  <2> HIDE DEF rest
  <2>4. /\ DOMAIN logData' = DOMAIN logData
        /\ logData'[s] = rest
        /\ \A k \in DOMAIN logData \ {s} : logData'[k] = logData[k]
    <3>1. s \in DOMAIN logData /\ s \in Stream /\ rest \in Entry
      BY <2>2
    <3>2. logData' = Put(logData, s, rest)
      BY <2>3
    <3>3. /\ DOMAIN logData' = DOMAIN logData \cup {s}
          /\ logData'[s] = rest
          /\ \A k \in DOMAIN logData \ {s} : logData'[k] = logData[k]
      BY <3>2 DEF Put
    <3>4. QED
      BY <3>1, <3>3
  <2>5. s \notin Counted /\ Counted' = Counted \cup {s} /\ Counted \subseteq DOMAIN logData
    BY <2>1, <2>2, <2>4 DEF Counted, SplitGroup, VisitKey
  <2>6. \A k \in Counted : logData'[k] = logData[k]
    BY <2>4, <2>5
  <2>7. /\ logCount' >= logCount /\ logCount' >= Len(rest.records)
        /\ logCount' \in {logCount, Len(rest.records)}
    BY <1>b, <2>2, <2>3 DEF AtLeast
  <2>8. \A k \in Counted' : Len(logData'[k].records) <= logCount'
    BY <1>a, <1>b, <2>2, <2>4, <2>5, <2>6, <2>7 DEF LogCountIsLongest
  <2>9. ASSUME logCount' > 0
        PROVE  \E k \in Counted' : Len(logData'[k].records) = logCount'
    BY <2>4, <2>5, <2>6, <2>7, <2>9 DEF LogCountIsLongest
  <2>10. QED
    BY <2>8, <2>9 DEF LogCountIsLongest
<1>7. CASE \E ok \in BOOLEAN : Send(ok)
  BY <1>7 DEF LogCountIsLongest, Counted, Send, BatchTypeOK
<1>8. CASE UNCHANGED batchVars
  BY <1>8 DEF LogCountIsLongest, Counted, batchVars
<1>9. QED
  BY <1>1, <1>2, <1>3, <1>4, <1>5, <1>6, <1>7, <1>8 DEF BatchStep
----------------------------------------------------------------------------
(* Entries.                                                                *)

\* A sequence of records is empty exactly when its length is zero.
LEMMA EmptyIsZero == \A q \in Seq(Record) : /\ Len(q) \in Nat
                                            /\ q = <<>> <=> Len(q) = 0
BY EmptySeq, LenProperties

\* Every step keeps the entries and the groups well formed.
LEMMA EntriesStep ==
  BatchTypeOK /\ EntriesWellFormed /\ [BatchStep]_batchVars => EntriesWellFormed'
<1> SUFFICES ASSUME BatchTypeOK, EntriesWellFormed, [BatchStep]_batchVars
             PROVE  EntriesWellFormed'
  OBVIOUS
<1>1. CASE \E ld \in Payloads : Add(ld)
  BY <1>1 DEF EntriesWellFormed, Add
<1>2. CASE SkipRecord
  BY <1>2 DEF EntriesWellFormed, SkipRecord, NextRecord
<1>3. CASE PlaceRecord
  <2> DEFINE r == Head(todo)
             s == StreamOf[r]
             grown == [GroupFor(logData, s, r) EXCEPT !.records = Append(@, r)]
  <2>1. NextRecord /\ s # NoMatch
    BY <1>3 DEF PlaceRecord
  <2>2. grown \in Entry /\ Len(grown.records) \in Nat \ {0}
    BY <2>1, GrownGroup
  <2>3. grown.records # <<>>
    BY <2>2, EmptyIsZero DEF Entry
  <2>4. logData' = Put(logData, s, grown)
    BY <1>3 DEF PlaceRecord
  <2> HIDE DEF grown
  <2>5. \A k \in DOMAIN logData' : logData'[k].records # <<>>
    BY <2>3, <2>4 DEF Put, EntriesWellFormed
  <2>6. UNCHANGED <<req, visit>> /\ op # "export"
    BY <2>1 DEF NextRecord
  <2>7. QED
    BY <2>5, <2>6 DEF EntriesWellFormed
<1>4. CASE Export
  BY <1>4, EmptyMapFacts DEF EntriesWellFormed, Export
<1>5. CASE \E s \in Stream : TakeGroup(s)
  <2>1. PICK s \in Stream : TakeGroup(s)
    BY <1>5
  <2>2. /\ s \in visit /\ s \in DOMAIN logData
        /\ req' = Put(req, s, logData[s]) /\ logData' = Delete(logData, s)
        /\ op = "export" /\ op' = op /\ visit' = visit \ {s}
        /\ ~MustSplit(Len(logData[s].records))
        /\ Len(logData[s].records) \in Nat
    BY <2>1, LenProperties DEF TakeGroup, VisitKey, BatchTypeOK, Entry
  <2>3. SendBatchMaxSize > 0 => Len(logData[s].records) <= SendBatchMaxSize
    BY <2>2, BatchAssumption DEF MustSplit
  <2>4. QED
    BY <2>2, <2>3 DEF EntriesWellFormed, Put, Delete
<1>6. CASE \E s \in Stream : SplitGroup(s)
  <2>1. PICK s \in Stream : SplitGroup(s)
    BY <1>6
  <2> DEFINE g == logData[s]
             front == [g EXCEPT !.records = SplitOff(SendBatchMaxSize, @)]
             rest == [g EXCEPT !.records = SplitRest(SendBatchMaxSize, @)]
  <2>2. /\ front \in Entry /\ rest \in Entry
        /\ Len(front.records) = SendBatchMaxSize
        /\ Len(rest.records) = Len(g.records) - SendBatchMaxSize
        /\ SendBatchMaxSize \in Nat \ {0}
        /\ Len(g.records) \in Nat /\ Len(g.records) > SendBatchMaxSize
    BY <2>1, SplitGroupFacts
  <2>3. /\ s \in visit
        /\ req' = Put(req, s, front) /\ logData' = Put(logData, s, rest)
        /\ op = "export" /\ op' = op /\ visit' = visit \ {s}
    BY <2>1 DEF SplitGroup, VisitKey
  <2>4. front.records \in Seq(Record) /\ rest.records \in Seq(Record)
    BY <2>2 DEF Entry
  <2> HIDE DEF front, rest
  <2>5. front.records # <<>> /\ rest.records # <<>>
    BY <2>2, <2>4, EmptyIsZero
  <2>6. Len(front.records) <= SendBatchMaxSize
    BY <2>2
  <2>7. QED
    BY <2>3, <2>5, <2>6 DEF EntriesWellFormed, Put
<1>7. CASE \E ok \in BOOLEAN : Send(ok)
  BY <1>7, EmptyMapFacts DEF EntriesWellFormed, Send
<1>8. CASE UNCHANGED batchVars
  BY <1>8 DEF EntriesWellFormed, batchVars
<1>9. QED
  BY <1>1, <1>2, <1>3, <1>4, <1>5, <1>6, <1>7, <1>8 DEF BatchStep
----------------------------------------------------------------------------
(* Order.                                                                  *)

\* The records of one stream in the three places they can be.
LEMMA Triple ==
  ASSUME BatchTypeOK, NEW s \in Stream
  PROVE  /\ handed[s] \in Seq(Record)
         /\ RecordsIn(req, s) \in Seq(Record)
         /\ RecordsIn(logData, s) \in Seq(Record)
         /\ added[s] \in Seq(Record)
BY RecordsInType DEF BatchTypeOK, Map

\* PlaceRecord appends the record to what its stream has waiting, and to the
\* history of what was added.
LEMMA PlaceRecordEffect ==
  ASSUME BatchTypeOK, EntriesWellFormed, PlaceRecord
  PROVE  LET r == Head(todo)
             s == StreamOf[r]
         IN  /\ r \in Record /\ s \in Stream
             /\ added' = [added EXCEPT ![s] = Append(@, r)]
             /\ Waiting' = [Waiting EXCEPT ![s] = Append(@, r)]
             /\ handed' = handed
             /\ \A k \in Stream : RecordsIn(req', k) = <<>>
             /\ RecordsIn(logData', s) = Append(RecordsIn(logData, s), r)
             /\ \A k \in Stream \ {s} : RecordsIn(logData', k) = RecordsIn(logData, k)
<1> DEFINE r == Head(todo)
           s == StreamOf[r]
           grown == [GroupFor(logData, s, r) EXCEPT !.records = Append(@, r)]
<1>1. NextRecord /\ s # NoMatch /\ r \in Record
  BY HeadOfTodo DEF PlaceRecord
<1>2. s \in Stream /\ grown.records = Append(RecordsIn(logData, s), r)
  BY <1>1, GrownGroup
<1>3. logData' = Put(logData, s, grown) /\ added' = [added EXCEPT ![s] = Append(@, r)]
  BY DEF PlaceRecord
<1>4. req = EmptyMap /\ req' = req /\ handed' = handed
  BY <1>1 DEF NextRecord, EntriesWellFormed
<1>5. \A k \in Stream : RecordsIn(req, k) = <<>> /\ RecordsIn(req', k) = <<>>
  BY <1>4, EmptyMapFacts
<1> HIDE DEF grown
<1>6. /\ RecordsIn(logData', s) = Append(RecordsIn(logData, s), r)
      /\ \A k \in Stream \ {s} : RecordsIn(logData', k) = RecordsIn(logData, k)
  BY <1>2, <1>3 DEF Put, RecordsIn
<1>7. \A k \in Stream : /\ Waiting[k] = RecordsIn(logData, k)
                        /\ Waiting'[k] = RecordsIn(logData', k)
  <2>1. \A k \in Stream : /\ RecordsIn(logData, k) \in Seq(Record)
                          /\ RecordsIn(logData', k) \in Seq(Record)
    <3>1. \A k \in Stream : RecordsIn(logData, k) \in Seq(Record)
      BY Triple
    <3>2. Append(RecordsIn(logData, s), r) \in Seq(Record)
      BY <1>1, <1>2, <3>1, AppendProperties
    <3>3. QED
      BY <1>6, <3>1, <3>2
  <2>2. QED
    BY <1>5, <2>1, ConcatEmptySeq DEF Waiting
<1>8. Waiting' = [Waiting EXCEPT ![s] = Append(@, r)]
  BY <1>2, <1>6, <1>7 DEF Waiting
<1>9. QED
  BY <1>1, <1>2, <1>3, <1>4, <1>5, <1>6, <1>8

\* Concatenation of sequences of records is associative.
LEMMA RecordsAssociative ==
  \A p, q, t \in Seq(Record) : (p \o q) \o t = p \o (q \o t)
<1> SUFFICES ASSUME NEW p \in Seq(Record), NEW q \in Seq(Record), NEW t \in Seq(Record)
             PROVE  (p \o q) \o t = p \o (q \o t)
  OBVIOUS
<1>1. QED
  BY ConcatAssociative

\* An iteration of export's range loop moves records from the group to the
\* request of the same stream: what waits in the stream stays as it is.
LEMMA MoveEffect ==
  ASSUME BatchTypeOK, EntriesWellFormed, NEW s \in Stream, TakeGroup(s) \/ SplitGroup(s)
  PROVE  Waiting' = Waiting /\ UNCHANGED <<handed, added>>
<1>1. s \in visit /\ s \notin DOMAIN req /\ UNCHANGED <<handed, added>>
  BY DEF TakeGroup, SplitGroup, VisitKey, EntriesWellFormed
<1>2. s \in DOMAIN logData /\ logData[s].records \in Seq(Record)
  BY <1>1 DEF BatchTypeOK, Entry
<1>3. RecordsIn(req, s) \o RecordsIn(logData, s) = logData[s].records
  BY <1>1, <1>2, ConcatEmptySeq DEF RecordsIn
<1>4. /\ RecordsIn(req', s) \o RecordsIn(logData', s) = logData[s].records
      /\ \A k \in Stream \ {s} : /\ RecordsIn(req', k) = RecordsIn(req, k)
                                /\ RecordsIn(logData', k) = RecordsIn(logData, k)
  <2>1. CASE TakeGroup(s)
    <3>1. req' = Put(req, s, logData[s]) /\ logData' = Delete(logData, s)
      BY <2>1 DEF TakeGroup
    <3>2. RecordsIn(req', s) = logData[s].records /\ RecordsIn(logData', s) = <<>>
      BY <3>1 DEF Put, Delete, RecordsIn
    <3>3. \A k \in Stream \ {s} : /\ RecordsIn(req', k) = RecordsIn(req, k)
                                 /\ RecordsIn(logData', k) = RecordsIn(logData, k)
      BY <3>1 DEF Put, Delete, RecordsIn
    <3>4. QED
      BY <1>2, <3>2, <3>3, ConcatEmptySeq
  <2>2. CASE SplitGroup(s)
    <3> DEFINE g == logData[s]
               front == [g EXCEPT !.records = SplitOff(SendBatchMaxSize, @)]
               rest == [g EXCEPT !.records = SplitRest(SendBatchMaxSize, @)]
    <3>1. front.records \o rest.records = g.records
      BY <2>2, SplitGroupFacts
    <3>2. req' = Put(req, s, front) /\ logData' = Put(logData, s, rest)
      BY <2>2 DEF SplitGroup
    <3> HIDE DEF front, rest
    <3>3. RecordsIn(req', s) = front.records /\ RecordsIn(logData', s) = rest.records
      BY <3>2 DEF Put, RecordsIn
    <3>4. \A k \in Stream \ {s} : /\ RecordsIn(req', k) = RecordsIn(req, k)
                                 /\ RecordsIn(logData', k) = RecordsIn(logData, k)
      BY <3>2 DEF Put, RecordsIn
    <3>5. QED
      BY <3>1, <3>3, <3>4
  <2>3. QED
    BY <2>1, <2>2
<1>5. \A k \in Stream : RecordsIn(req', k) \o RecordsIn(logData', k)
                       = RecordsIn(req, k) \o RecordsIn(logData, k)
  BY <1>3, <1>4
<1>6. QED
  BY <1>1, <1>5 DEF Waiting

\* The call of nextConsumer moves the entry of every stream from what waits to
\* what was handed over.
LEMMA SendEffect ==
  ASSUME BatchTypeOK, NEW ok \in BOOLEAN, Send(ok)
  PROVE  /\ handed' = [s \in Stream |-> handed[s] \o RecordsIn(req, s)]
         /\ Waiting' = [s \in Stream |-> RecordsIn(logData, s)]
         /\ added' = added
<1>1. req' = EmptyMap /\ logData' = logData
  BY DEF Send
<1>2. \A s \in Stream : RecordsIn(req', s) \o RecordsIn(logData', s) = RecordsIn(logData, s)
  BY <1>1, EmptyMapFacts, Triple, ConcatEmptySeq
<1>3. QED
  BY <1>2 DEF Send, Waiting

\* The operations that only start something leave every stream as it is.
LEMMA OtherEffect ==
  ASSUME EntriesWellFormed,
         \/ \E ld \in Payloads : Add(ld)
         \/ SkipRecord
         \/ Export
         \/ UNCHANGED batchVars
  PROVE  Waiting' = Waiting /\ UNCHANGED <<handed, added>>
<1>1. UNCHANGED <<logData, handed, added>> /\ req' = req
  BY DEF Add, SkipRecord, NextRecord, Export, batchVars, EntriesWellFormed
<1>2. QED
  BY <1>1 DEF Waiting

\* Every step keeps the order of the streams.
LEMMA OrderStep ==
  /\ BatchTypeOK /\ EntriesWellFormed /\ StreamOrder /\ [BatchStep]_batchVars
  => StreamOrder'
<1> SUFFICES ASSUME BatchTypeOK, EntriesWellFormed, StreamOrder, [BatchStep]_batchVars
             PROVE  StreamOrder'
  OBVIOUS
<1>a. StreamOrder <=> \A s \in Stream : added[s] = handed[s] \o Waiting[s]
  BY DEF StreamOrder, Waiting
<1>b. StreamOrder' <=> \A s \in Stream : added'[s] = handed'[s] \o Waiting'[s]
  BY DEF StreamOrder, Waiting
<1>c. \A s \in Stream : handed[s] \in Seq(Record) /\ Waiting[s] \in Seq(Record)
  BY Triple, ConcatProperties DEF Waiting
<1>1. CASE PlaceRecord
  <2> DEFINE r == Head(todo)
             s == StreamOf[r]
  <2>1. /\ r \in Record /\ s \in Stream
        /\ added' = [added EXCEPT ![s] = Append(@, r)]
        /\ Waiting' = [Waiting EXCEPT ![s] = Append(@, r)]
        /\ handed' = handed
    BY <1>1, PlaceRecordEffect
  <2>2. /\ DOMAIN added = Stream /\ DOMAIN Waiting = Stream
    BY DEF BatchTypeOK, Waiting
  <2> HIDE DEF r, s
  <2>3. Append(handed[s] \o Waiting[s], r) = handed[s] \o Append(Waiting[s], r)
    <3>1. <<r>> \in Seq(Record) /\ handed[s] \o Waiting[s] \in Seq(Record)
      BY <1>c, <2>1, ConcatProperties
    <3>2. /\ Append(handed[s] \o Waiting[s], r) = (handed[s] \o Waiting[s]) \o <<r>>
          /\ Append(Waiting[s], r) = Waiting[s] \o <<r>>
      BY <1>c, <2>1, <3>1, AppendIsConcat
    <3>3. (handed[s] \o Waiting[s]) \o <<r>> = handed[s] \o (Waiting[s] \o <<r>>)
      <4>1. handed[s] \in Seq(Record) /\ Waiting[s] \in Seq(Record)
        BY <1>c, <2>1
      <4>2. QED
        BY <3>1, <4>1, RecordsAssociative
    <3>4. QED
      BY <3>2, <3>3
  <2>4. QED
    BY <1>a, <1>b, <2>1, <2>2, <2>3
<1>2. CASE \E s \in Stream : TakeGroup(s) \/ SplitGroup(s)
  BY <1>2, <1>a, <1>b, MoveEffect
<1>3. CASE \E ok \in BOOLEAN : Send(ok)
  <2>1. /\ handed' = [s \in Stream |-> handed[s] \o RecordsIn(req, s)]
        /\ Waiting' = [s \in Stream |-> RecordsIn(logData, s)]
        /\ added' = added
    BY <1>3, SendEffect
  <2>2. ASSUME NEW s \in Stream
        PROVE  added[s] = (handed[s] \o RecordsIn(req, s)) \o RecordsIn(logData, s)
    <3>1. /\ handed[s] \in Seq(Record)
          /\ RecordsIn(req, s) \in Seq(Record)
          /\ RecordsIn(logData, s) \in Seq(Record)
      BY Triple
    <3>2. (handed[s] \o RecordsIn(req, s)) \o RecordsIn(logData, s)
          = handed[s] \o (RecordsIn(req, s) \o RecordsIn(logData, s))
      BY <3>1, RecordsAssociative
    <3>3. QED
      BY <3>2 DEF StreamOrder
  <2>3. QED
    BY <1>b, <2>1, <2>2
<1>4. CASE \/ \E ld \in Payloads : Add(ld)
           \/ SkipRecord
           \/ Export
           \/ UNCHANGED batchVars
  BY <1>4, <1>a, <1>b, OtherEffect
<1>5. QED
  BY <1>1, <1>2, <1>3, <1>4 DEF BatchStep
----------------------------------------------------------------------------
(* The theorems.                                                           *)

\* The batch starts with empty maps, so the invariant holds.
LEMMA BatchInvInit == BatchInit => BatchInv
<1> SUFFICES ASSUME BatchInit PROVE BatchInv
  OBVIOUS
<1>1. BatchTypeOK
  BY EmptyMapFacts DEF BatchInit, BatchTypeOK, Map
<1>2. LogCountIsLongest
  BY EmptyMapFacts DEF BatchInit, LogCountIsLongest, Counted
<1>3. EntriesWellFormed
  BY EmptyMapFacts DEF BatchInit, EntriesWellFormed
<1>4. StreamOrder
  <2>1. <<>> \in Seq(Record) /\ <<>> \o (<<>> \o <<>>) = <<>>
    BY EmptySeq, ConcatEmptySeq
  <2>2. QED
    BY <2>1, EmptyMapFacts DEF BatchInit, StreamOrder
<1>5. QED
  BY <1>1, <1>2, <1>3, <1>4 DEF BatchInv

\* Every operation of the batch, in any order, preserves the invariants.
LEMMA BatchInvStep == BatchInv /\ [BatchStep]_batchVars => BatchInv'
BY BatchTypeStep, LongestStep, EntriesStep, OrderStep DEF BatchInv

\* The batch alone takes the steps the lemmas are about.
LEMMA BatchNextIsStep == [BatchNext]_batchVars => [BatchStep]_batchVars
BY DEF BatchNext, BatchStep

\* The invariant of the batch.
LEMMA BatchInvariance == BatchSpec => []BatchInv
<1>1. BatchInv /\ [BatchNext]_batchVars => BatchInv'
  BY BatchInvStep, BatchNextIsStep
<1>2. QED
  BY <1>1, BatchInvInit, PTL DEF BatchSpec

\* The variables of the batch have their types (batch_logs.go:29-36).
THEOREM BatchTypeCorrect == BatchSpec => []BatchTypeOK
BY BatchInvariance, PTL DEF BatchInv

\* logCount is always the length of the longest group that was counted, also
\* after a split (batch_logs.go:53-71, 149-151).
THEOREM LogCountCorrect == BatchSpec => []LogCountIsLongest
BY BatchInvariance, PTL DEF BatchInv

\* No entry of a request is empty or longer than SendBatchMaxSize
\* (batch_logs.go:57-69).
THEOREM EntriesCorrect == BatchSpec => []EntriesWellFormed
BY BatchInvariance, PTL DEF BatchInv

\* No record of a stream is lost, duplicated or reordered between addToBatch
\* and nextConsumer (batch_logs.go:48-81, 143-148).
THEOREM StreamOrderCorrect == BatchSpec => []StreamOrder
BY BatchInvariance, PTL DEF BatchInv
----------------------------------------------------------------------------
(* The batch implements the abstract buffer.                               *)

\* An empty batch is an empty buffer.
LEMMA BufferInit == BatchInit => SB!SBInit
<1> SUFFICES ASSUME BatchInit PROVE SB!SBInit
  OBVIOUS
<1>1. \A s \in Stream : RecordsIn(req, s) \o RecordsIn(logData, s) = <<>>
  <2>1. <<>> \in Seq(Record) /\ <<>> \o <<>> = <<>>
    BY EmptySeq, ConcatEmptySeq
  <2>2. QED
    BY <2>1, EmptyMapFacts DEF BatchInit
<1>2. QED
  BY <1>1 DEF BatchInit, SB!SBInit, Waiting

\* A prefix of a concatenation, and what remains behind it.
LEMMA CutConcat ==
  ASSUME NEW p \in Seq(Record), NEW q \in Seq(Record)
  PROVE  /\ SubSeq(p \o q, 1, Len(p)) = p
         /\ SubSeq(p \o q, Len(p) + 1, Len(p \o q)) = q
<1>1. /\ p \o q \in Seq(Record)
      /\ Len(p \o q) = Len(p) + Len(q)
      /\ Len(p) \in Nat /\ Len(q) \in Nat
      /\ \A i \in 1 .. Len(p) + Len(q) :
           (p \o q)[i] = IF i <= Len(p) THEN p[i] ELSE q[i - Len(p)]
  BY ConcatProperties, LenProperties
<1>2. \A i \in 1 .. Len(p \o q) : (p \o q)[i] \in Record
  BY <1>1, ElementOfSeq
<1>3. SubSeq(p \o q, 1, Len(p)) = p
  <2> DEFINE t == SubSeq(p \o q, 1, Len(p))
  <2>1. /\ t \in Seq(Record) /\ Len(t) = Len(p)
        /\ \A i \in 1 .. Len(p) : t[i] = (p \o q)[i]
    BY <1>1, <1>2, SubSeqProperties
  <2>2. \A i \in 1 .. Len(p) : t[i] = p[i]
    BY <1>1, <2>1
  <2> HIDE DEF t
  <2>3. QED
    BY <2>1, <2>2, SeqEqual DEF t
<1>4. SubSeq(p \o q, Len(p) + 1, Len(p \o q)) = q
  <2> DEFINE t == SubSeq(p \o q, Len(p) + 1, Len(p \o q))
  <2>1. /\ t \in Seq(Record) /\ Len(t) = Len(q)
        /\ \A i \in 1 .. Len(q) : t[i] = (p \o q)[Len(p) + i]
    <3>1. \A i \in Len(p) + 1 .. Len(p \o q) : (p \o q)[i] \in Record
      BY <1>1, <1>2
    <3>2. /\ t \in Seq(Record)
          /\ Len(t) = IF Len(p) + 1 <= Len(p \o q)
                      THEN Len(p \o q) - (Len(p) + 1) + 1 ELSE 0
          /\ \A i \in 1 .. Len(p \o q) - (Len(p) + 1) + 1 :
               t[i] = (p \o q)[Len(p) + 1 + i - 1]
      BY <1>1, <3>1, SubSeqProperties
    <3> HIDE DEF t
    <3>3. QED
      BY <1>1, <3>2
  <2> HIDE DEF t
  <2>2. \A i \in 1 .. Len(q) : t[i] = q[i]
    BY <1>1, <2>1
  <2>3. QED
    BY <2>1, <2>2, SeqEqual DEF t
<1>5. QED
  BY <1>3, <1>4

\* The call of nextConsumer ships the front of every stream's buffer.
LEMMA SendShips ==
  ASSUME BatchInv, NEW ok \in BOOLEAN, Send(ok)
  PROVE  SB!ShipSome
<1>1. /\ handed' = [s \in Stream |-> handed[s] \o RecordsIn(req, s)]
      /\ Waiting' = [s \in Stream |-> RecordsIn(logData, s)]
  BY SendEffect DEF BatchInv
<1> DEFINE n == [s \in Stream |-> Len(handed'[s]) - Len(handed[s])]
<1>2. ASSUME NEW s \in Stream
      PROVE  /\ n[s] = Len(RecordsIn(req, s)) /\ n[s] \in Nat
             /\ n[s] <= Len(Waiting[s])
             /\ SubSeq(Waiting[s], 1, n[s]) = RecordsIn(req, s)
             /\ SubSeq(Waiting[s], n[s] + 1, Len(Waiting[s])) = RecordsIn(logData, s)
  <2>1. /\ handed[s] \in Seq(Record)
        /\ RecordsIn(req, s) \in Seq(Record)
        /\ RecordsIn(logData, s) \in Seq(Record)
    BY Triple DEF BatchInv
  <2>2. /\ Len(handed[s]) \in Nat /\ Len(RecordsIn(req, s)) \in Nat
        /\ Len(RecordsIn(logData, s)) \in Nat
    BY <2>1, LenProperties
  <2>3. Len(handed'[s]) = Len(handed[s]) + Len(RecordsIn(req, s))
    BY <1>1, <2>1, ConcatProperties
  <2>4. n[s] = Len(RecordsIn(req, s))
    <3>1. n[s] = Len(handed'[s]) - Len(handed[s])
      OBVIOUS
    <3> HIDE DEF n
    <3>2. QED
      BY <2>2, <2>3, <3>1
  <2>5. Waiting[s] = RecordsIn(req, s) \o RecordsIn(logData, s)
    BY DEF Waiting
  <2>6. Len(Waiting[s]) = Len(RecordsIn(req, s)) + Len(RecordsIn(logData, s))
    BY <2>1, <2>5, ConcatProperties
  <2>7. /\ SubSeq(Waiting[s], 1, Len(RecordsIn(req, s))) = RecordsIn(req, s)
        /\ SubSeq(Waiting[s], Len(RecordsIn(req, s)) + 1, Len(Waiting[s]))
             = RecordsIn(logData, s)
    BY <2>1, <2>5, CutConcat
  <2> HIDE DEF n
  <2>8. QED
    BY <2>2, <2>4, <2>6, <2>7
<1>3. ASSUME NEW s \in Stream, SendBatchMaxSize > 0
      PROVE  n[s] <= SendBatchMaxSize
  <2>1. CASE s \in DOMAIN req
    <3>1. Len(req[s].records) <= SendBatchMaxSize
      BY <1>3, <2>1 DEF BatchInv, EntriesWellFormed
    <3>2. n[s] = Len(req[s].records) /\ n[s] \in Nat
      BY <1>2, <2>1 DEF RecordsIn
    <3> HIDE DEF n
    <3>3. QED
      BY <3>1, <3>2
  <2>2. CASE s \notin DOMAIN req
    <3>1. n[s] = 0
      BY <1>2, <2>2, EmptySeq DEF RecordsIn
    <3> HIDE DEF n
    <3>2. QED
      BY <1>3, <3>1, BatchAssumption
  <2>3. QED
    BY <2>1, <2>2
<1>4. n \in SB!EntryLengths
  <2>1. n \in [Stream -> Nat]
    BY <1>2
  <2> HIDE DEF n
  <2>2. QED
    BY <1>2, <1>3, <2>1 DEF SB!EntryLengths
<1>5. SB!Ship(n)
  <2>1. /\ handed' = [s \in Stream |-> handed[s] \o SubSeq(Waiting[s], 1, n[s])]
        /\ Waiting' = [s \in Stream |-> SubSeq(Waiting[s], n[s] + 1, Len(Waiting[s]))]
    <3> HIDE DEF n
    <3>1. QED
      BY <1>1, <1>2
  <2>2. QED
    BY <2>1 DEF SB!Ship
<1>6. QED
  BY <1>4, <1>5 DEF SB!ShipSome

\* Every step of the batch is a step of the buffer or leaves it as it is.
LEMMA BufferStep == BatchInv /\ [BatchStep]_batchVars => [SB!SBNext]_(SB!sbVars)
<1> SUFFICES ASSUME BatchInv, [BatchStep]_batchVars
             PROVE  [SB!SBNext]_(SB!sbVars)
  OBVIOUS
<1>1. CASE PlaceRecord
  <2>1. /\ Head(todo) \in Record /\ StreamOf[Head(todo)] \in Stream
        /\ Waiting' = [Waiting EXCEPT ![StreamOf[Head(todo)]] = Append(@, Head(todo))]
        /\ handed' = handed
    BY <1>1, PlaceRecordEffect DEF BatchInv
  <2>2. SB!Accept(StreamOf[Head(todo)], Head(todo))
    BY <2>1 DEF SB!Accept
  <2>3. QED
    BY <2>1, <2>2 DEF SB!SBNext
<1>2. CASE \E s \in Stream : TakeGroup(s) \/ SplitGroup(s)
  BY <1>2, MoveEffect DEF BatchInv, SB!sbVars
<1>3. CASE \E ok \in BOOLEAN : Send(ok)
  BY <1>3, SendShips DEF SB!SBNext
<1>4. CASE \/ \E ld \in Payloads : Add(ld)
           \/ SkipRecord
           \/ Export
           \/ UNCHANGED batchVars
  BY <1>4, OtherEffect DEF BatchInv, SB!sbVars
<1>5. QED
  BY <1>1, <1>2, <1>3, <1>4 DEF BatchStep

\* The batch is a FIFO buffer per stream that ships entries of at most
\* SendBatchMaxSize records (README.md:109-111; batch_logs.go:48-158).
THEOREM BatchImplementsBuffer == BatchSpec => ImplementsStreamBuffer
<1>1. BatchInv /\ [BatchNext]_batchVars => [SB!SBNext]_(SB!sbVars)
  BY BufferStep, BatchNextIsStep
<1>2. QED
  BY <1>1, BufferInit, BatchInvariance, PTL DEF BatchSpec, ImplementsStreamBuffer, SB!SBSpec
----------------------------------------------------------------------------
(* The processor.                                                          *)

USE DEF HasRoom, AnyItems, BelowSize, Drained, AfterDrain, resetTimer

\* The operation of the batch in progress is the one the goroutine runs.
OpFollowsPc == /\ pc = "add" <=> op = "add"
               /\ pc = "export" <=> op = "export"

\* The timer has no channel or no tick to come only before the first select,
\* while its own branch flushes, and at the very end.
TimerInv == timer = "off" => \/ pc \in {"new", "spawned", "done"}
                             \/ pc = "export" /\ trigger # "size"

\* While the timer or Shutdown flushes, every group left is shorter than
\* sendBatchSize, hence not longer than sendBatchMaxSize.
FlushInv ==
  pc = "export" /\ trigger # "size" =>
    /\ DOMAIN logData = visit
    /\ \A s \in visit : Len(logData[s].records) < SendBatchSize
    /\ logCount = 0

SizeInv ==
  SendBatchSize > 0 =>
    /\ pc \notin {"add", "check", "export"} => logCount < SendBatchSize
    /\ FlushInv
    /\ pc = "export" => DOMAIN req \cup visit # {}
    /\ pc = "done" => DOMAIN logData = {}

\* The goroutine drains the channel only after Shutdown was called, and when it
\* is done with that, what is in the channel was put there by late calls.
ShutdownInv ==
  /\ pc \in {"drain", "done"} \/ caller = "drain" => shutdown # "open"
  /\ pc = "export" /\ trigger = "shutdown" => shutdown # "open"
  /\ shutdown = "returned" => pc = "done"
  /\ shutdown # "open" => \A c \in Caller : calls[c] \in late \cup {NoCall}
  /\ pc = "done" \/ (pc = "export" /\ trigger = "shutdown")
       => \A i \in DOMAIN newItem : newItem[i] \in late

\* Every record a receiver passed on is somewhere.
In(e, q) == \E i \in DOMAIN q : q[i] = e
InFlight(ld) == (\E c \in Caller : calls[c] = ld) \/ In(ld, newItem)
Placed(r) == r \in skipped \/ In(r, todo) \/ \E s \in Stream : In(r, added[s])
LocatedInv == \A ld \in Payloads \ unsent :
                InFlight(ld) \/ \A i \in DOMAIN ld : Placed(ld[i])

ProcessorInv == /\ TypeOK /\ BatchInv /\ OpFollowsPc
                /\ TimerInv /\ SizeInv /\ ShutdownInv /\ LocatedInv
---------------------------------------------------------------------------
(* The processor runs operations of the batch.                             *)

\* The item at the front of the channel is a payload.
LEMMA HeadOfNewItem ==
  ASSUME TypeOK, newItem # <<>>
  PROVE  /\ Head(newItem) \in Payloads
         /\ Tail(newItem) \in Seq(Payloads)
         /\ Len(Tail(newItem)) = Len(newItem) - 1
         /\ Len(newItem) \in Nat
BY HeadTailProperties, LenProperties DEF TypeOK

\* Every step of the processor is an operation of the batch or leaves it alone.
LEMMA BatchView == TypeOK /\ [Next]_vars => [BatchStep]_batchVars
<1> SUFFICES ASSUME TypeOK, [Next]_vars
             PROVE  BatchStep \/ UNCHANGED batchVars
  OBVIOUS
<1>1. CASE SelectItem \/ DrainItem
  <2>1. newItem # <<>> /\ Add(Head(newItem))
    BY <1>1 DEF SelectItem, DrainItem, Receive
  <2>2. QED
    BY <2>1, HeadOfNewItem DEF BatchStep
<1>2. CASE SelectTimer \/ DrainEnds \/ CheckSize
  BY <1>2 DEF SelectTimer, DrainEnds, CheckSize, BatchStep
<1>3. CASE AddRecord
  BY <1>3 DEF AddRecord, BatchStep
<1>4. CASE ExportGroup
  <2>1. PICK s \in visit : TakeGroup(s) \/ SplitGroup(s)
    BY <1>4 DEF ExportGroup
  <2>2. s \in Stream
    BY DEF TypeOK, BatchTypeOK
  <2>3. QED
    BY <2>1, <2>2 DEF BatchStep
<1>5. CASE Flushed
  BY <1>5 DEF Flushed, BatchStep
<1>6. CASE \/ Start \/ BeginCycle \/ Shutdown \/ ShutdownReturns
           \/ \E c \in Caller : \E ld \in unsent : ConsumeLogs(c, ld)
           \/ \E c \in Caller : Enqueue(c)
           \/ TimerFires \/ SelectShutdown \/ ProcessItemReturns \/ Terminated
           \/ UNCHANGED vars
  BY <1>6 DEF Start, BeginCycle, Shutdown, ShutdownReturns, ConsumeLogs, Enqueue,
              TimerFires, SelectShutdown, ProcessItemReturns, Terminated, vars
<1>7. QED
  BY <1>1, <1>2, <1>3, <1>4, <1>5, <1>6 DEF Next, Cycle

\* So the invariant of the batch carries over.
LEMMA BatchInvKept == TypeOK /\ BatchInv /\ [Next]_vars => BatchInv'
BY BatchView, BatchInvStep
---------------------------------------------------------------------------
(* Type correctness.                                                       *)

\* Every step keeps the types.
LEMMA TypeStep == TypeOK /\ BatchInv /\ [Next]_vars => TypeOK'
<1> SUFFICES ASSUME TypeOK, BatchInv, [Next]_vars PROVE TypeOK'
  OBVIOUS
<1>a. BatchTypeOK'
  BY BatchInvKept DEF BatchInv
<1>1. CASE SelectItem \/ DrainItem
  <2>1. newItem # <<>> /\ newItem' = Tail(newItem)
    BY <1>1 DEF SelectItem, DrainItem, Receive
  <2>2. newItem' \in Seq(Payloads) /\ Len(newItem') <= NewItemCap
    BY <2>1, HeadOfNewItem, ProcessorAssumption DEF TypeOK
  <2>3. QED
    BY <1>1, <1>a, <2>2 DEF TypeOK, SelectItem, DrainItem, Receive
<1>2. CASE \E c \in Caller : Enqueue(c)
  <2>1. PICK c \in Caller : Enqueue(c)
    BY <1>2
  <2>2. calls[c] \in Payloads
    BY <2>1 DEF TypeOK, Enqueue
  <2>3. newItem' \in Seq(Payloads) /\ Len(newItem') <= NewItemCap
    <3>1. /\ newItem \in Seq(Payloads) /\ Len(newItem) < NewItemCap
          /\ newItem' = Append(newItem, calls[c])
      BY <2>1 DEF TypeOK, Enqueue
    <3>2. QED
      BY <2>2, <3>1, AppendProperties, LenProperties, ProcessorAssumption
  <2>4. QED
    BY <1>a, <2>1, <2>3 DEF TypeOK, Enqueue
<1>3. CASE \/ \E c \in Caller : \E ld \in unsent : ConsumeLogs(c, ld)
  BY <1>3, <1>a DEF TypeOK, ConsumeLogs
<1>4. CASE SelectTimer \/ DrainEnds \/ CheckSize
  BY <1>4, <1>a DEF TypeOK, SelectTimer, DrainEnds, CheckSize
<1>5. CASE AddRecord \/ ExportGroup \/ Flushed \/ ProcessItemReturns
  BY <1>5, <1>a DEF TypeOK, AddRecord, ExportGroup, Flushed, ProcessItemReturns, ctlVars
<1>6. CASE \/ Start \/ BeginCycle \/ Shutdown \/ ShutdownReturns
           \/ TimerFires \/ SelectShutdown
  BY <1>6, <1>a DEF TypeOK, Start, BeginCycle, Shutdown, ShutdownReturns,
                    TimerFires, SelectShutdown
<1>7. CASE Terminated \/ UNCHANGED vars
  BY <1>7, <1>a DEF TypeOK, Terminated, vars, ctlVars
<1>8. QED
  BY <1>1, <1>2, <1>3, <1>4, <1>5, <1>6, <1>7 DEF Next, Cycle

\* The operation of the batch stays the one of the goroutine's place.
LEMMA OpStep == TypeOK /\ OpFollowsPc /\ [Next]_vars => OpFollowsPc'
<1> SUFFICES ASSUME TypeOK, OpFollowsPc, [Next]_vars PROVE OpFollowsPc'
  OBVIOUS
<1>1. CASE SelectItem \/ DrainItem
  BY <1>1 DEF OpFollowsPc, SelectItem, DrainItem, Receive, Add
<1>2. CASE SelectTimer \/ DrainEnds \/ CheckSize
  BY <1>2 DEF OpFollowsPc, SelectTimer, DrainEnds, CheckSize, Export, batchVars
<1>3. CASE AddRecord
  BY <1>3 DEF OpFollowsPc, AddRecord, SkipRecord, PlaceRecord, NextRecord
<1>4. CASE ExportGroup
  BY <1>4 DEF OpFollowsPc, ExportGroup, TakeGroup, SplitGroup, VisitKey, ctlVars
<1>5. CASE Flushed
  BY <1>5 DEF OpFollowsPc, TypeOK, Flushed, Send
<1>6. CASE ProcessItemReturns
  BY <1>6 DEF OpFollowsPc, TypeOK, ProcessItemReturns, batchVars
<1>7. CASE \/ Start \/ BeginCycle \/ Shutdown \/ ShutdownReturns
           \/ \E c \in Caller : \E ld \in unsent : ConsumeLogs(c, ld)
           \/ \E c \in Caller : Enqueue(c)
           \/ TimerFires \/ SelectShutdown \/ Terminated \/ UNCHANGED vars
  BY <1>7 DEF OpFollowsPc, Start, BeginCycle, Shutdown, ShutdownReturns, ConsumeLogs,
              Enqueue, TimerFires, SelectShutdown, Terminated, vars, ctlVars, batchVars
<1>8. QED
  BY <1>1, <1>2, <1>3, <1>4, <1>5, <1>6, <1>7 DEF Next, Cycle
---------------------------------------------------------------------------
(* The timer.                                                              *)

\* Every step keeps the timer where the goroutine relies on it.
LEMMA TimerStep == TypeOK /\ TimerInv /\ [Next]_vars => TimerInv'
<1> SUFFICES ASSUME TypeOK, TimerInv, [Next]_vars PROVE TimerInv'
  OBVIOUS
<1>1. CASE SelectItem \/ DrainItem
  BY <1>1 DEF TimerInv, SelectItem, DrainItem, Receive
<1>2. CASE SelectTimer \/ DrainEnds \/ CheckSize
  BY <1>2 DEF TimerInv, SelectTimer, DrainEnds, CheckSize
<1>3. CASE AddRecord \/ ExportGroup \/ Flushed \/ ProcessItemReturns
  BY <1>3 DEF TypeOK, TimerInv, AddRecord, ExportGroup, Flushed, ProcessItemReturns, ctlVars
<1>4. CASE \/ Start \/ BeginCycle \/ Shutdown \/ ShutdownReturns
           \/ \E c \in Caller : \E ld \in unsent : ConsumeLogs(c, ld)
           \/ \E c \in Caller : Enqueue(c)
           \/ TimerFires \/ SelectShutdown \/ Terminated \/ UNCHANGED vars
  BY <1>4 DEF TimerInv, Start, BeginCycle, Shutdown, ShutdownReturns, ConsumeLogs,
              Enqueue, TimerFires, SelectShutdown, Terminated, vars, ctlVars
<1>5. QED
  BY <1>1, <1>2, <1>3, <1>4 DEF Next, Cycle
---------------------------------------------------------------------------
(* Sizes.                                                                  *)

\* Outside of an export, no record waits when logCount is zero, and some group
\* exists when it is not.
LEMMA CountTellsGroups ==
  ASSUME BatchInv, op # "export"
  PROVE  /\ logCount \in Nat
         /\ logCount = 0 => DOMAIN logData = {}
         /\ logCount > 0 => DOMAIN logData # {}
         /\ \A s \in DOMAIN logData : /\ Len(logData[s].records) \in Nat
                                     /\ Len(logData[s].records) <= logCount
<1>1. logCount \in Nat /\ Counted = DOMAIN logData
  BY DEF BatchInv, BatchTypeOK, Counted
<1>2. \A s \in DOMAIN logData : logData[s].records \in Seq(Record)
  BY DEF BatchInv, BatchTypeOK, Entry
<1>3. \A s \in DOMAIN logData : Len(logData[s].records) \in Nat \ {0}
  BY <1>2, EmptySeq DEF BatchInv, EntriesWellFormed
<1>4. QED
  BY <1>1, <1>3 DEF BatchInv, LogCountIsLongest

\* The steps that start an export.
LEMMA SizeAtExport ==
  ASSUME TypeOK, BatchInv, OpFollowsPc, SizeInv, SendBatchSize > 0,
         \/ SelectTimer /\ logCount > 0
         \/ DrainEnds /\ logCount > 0
         \/ CheckSize
  PROVE  SizeInv'
<1>1. /\ op = "idle" /\ Export /\ pc' = "export" /\ logCount > 0
      /\ trigger' # "size" => pc \in {"select", "drain"}
  BY ProcessorAssumption, CountTellsGroups
     DEF SelectTimer, DrainEnds, CheckSize, Export
<1>2. /\ DOMAIN logData # {}
      /\ \A s \in DOMAIN logData : /\ Len(logData[s].records) \in Nat
                                  /\ Len(logData[s].records) <= logCount
  BY <1>1, CountTellsGroups
<1>3. logData' = logData /\ visit' = DOMAIN logData /\ logCount' = 0
  BY <1>1 DEF Export
<1>4. trigger' # "size" => logCount < SendBatchSize
  BY <1>1 DEF SizeInv
<1>5. FlushInv'
  <2>1. logCount \in Nat /\ SendBatchSize \in Nat
    BY ProcessorAssumption DEF TypeOK, BatchTypeOK
  <2>2. QED
    BY <1>2, <1>3, <1>4, <2>1 DEF FlushInv
<1>6. QED
  BY <1>1, <1>2, <1>3, <1>5 DEF SizeInv

\* An iteration of export's loop: during a flush no group is long enough to be
\* split, so the groups disappear one after the other.
LEMMA SizeAtGroup ==
  ASSUME TypeOK, BatchInv, SizeInv, SendBatchSize > 0, ExportGroup
  PROVE  SizeInv'
<1>1. PICK s \in visit : TakeGroup(s) \/ SplitGroup(s)
  BY DEF ExportGroup
<1>2. /\ pc = "export" /\ pc' = pc /\ trigger' = trigger
      /\ s \in Stream /\ s \in DOMAIN logData /\ visit' = visit \ {s}
  BY <1>1 DEF ExportGroup, ctlVars, TypeOK, BatchTypeOK, TakeGroup, SplitGroup, VisitKey
<1>3. s \in DOMAIN req'
  BY <1>1 DEF TakeGroup, SplitGroup, Put
<1>4. FlushInv'
  <2> SUFFICES ASSUME trigger # "size" PROVE FlushInv'
    BY <1>2 DEF FlushInv
  <2>1. /\ DOMAIN logData = visit /\ logCount = 0
        /\ \A k \in visit : Len(logData[k].records) < SendBatchSize
    BY <1>2 DEF SizeInv, FlushInv
  <2>2. ~MustSplit(Len(logData[s].records))
    <3>1. Len(logData[s].records) \in Nat
      BY <1>2, LenProperties DEF TypeOK, BatchTypeOK, Entry
    <3>2. Len(logData[s].records) < SendBatchSize
      BY <2>1
    <3>3. SendBatchSize \in Nat /\ SendBatchMaxSize \in Nat
          /\ (SendBatchMaxSize > 0 => SendBatchMaxSize >= SendBatchSize)
      BY ProcessorAssumption, BatchAssumption
    <3>4. QED
      BY <3>1, <3>2, <3>3 DEF MustSplit
  <2>3. logData' = Delete(logData, s) /\ logCount' = logCount
    BY <1>1, <2>2 DEF TakeGroup, SplitGroup
  <2>4. QED
    BY <1>2, <2>1, <2>3 DEF FlushInv, Delete
<1>5. QED
  BY <1>2, <1>3, <1>4 DEF SizeInv

\* Every step keeps what holds of the sizes in each place.
LEMMA SizeStep ==
  TypeOK /\ BatchInv /\ OpFollowsPc /\ SizeInv /\ [Next]_vars => SizeInv'
<1> SUFFICES ASSUME TypeOK, BatchInv, OpFollowsPc, SizeInv, [Next]_vars,
                    SendBatchSize > 0
             PROVE  SizeInv'
  BY DEF SizeInv
<1>a. logCount \in Nat /\ SendBatchSize \in Nat
  BY ProcessorAssumption DEF TypeOK, BatchTypeOK
<1>1. CASE SelectItem \/ DrainItem
  BY <1>1 DEF SizeInv, FlushInv, SelectItem, DrainItem, Receive
<1>2. CASE \/ SelectTimer /\ logCount > 0
           \/ DrainEnds /\ logCount > 0
           \/ CheckSize
  BY <1>2, SizeAtExport
<1>3. CASE SelectTimer /\ ~(logCount > 0)
  BY <1>3 DEF SizeInv, FlushInv, SelectTimer, batchVars
<1>4. CASE DrainEnds /\ ~(logCount > 0)
  <2>1. pc = "drain" /\ op # "export" /\ logCount = 0
    BY <1>4, <1>a DEF DrainEnds, OpFollowsPc
  <2>2. DOMAIN logData = {}
    BY <2>1, CountTellsGroups
  <2>3. QED
    BY <1>4, <2>1, <2>2 DEF SizeInv, FlushInv, DrainEnds, batchVars
<1>5. CASE AddRecord
  BY <1>5 DEF SizeInv, FlushInv, AddRecord
<1>6. CASE ExportGroup
  BY <1>6, SizeAtGroup
<1>7. CASE Flushed
  <2>1. /\ pc = "export" /\ visit = {} /\ logData' = logData /\ logCount' = logCount
        /\ pc' \in {"check", "select", "done"}
        /\ pc' # "check" => trigger # "size"
    BY <1>7 DEF Flushed, Send, TypeOK
  <2>2. trigger # "size" => DOMAIN logData = {} /\ logCount = 0
    BY <2>1 DEF SizeInv, FlushInv
  <2>3. QED
    BY <1>a, <2>1, <2>2 DEF SizeInv, FlushInv
<1>8. CASE ProcessItemReturns
  BY <1>8 DEF TypeOK, SizeInv, FlushInv, ProcessItemReturns, batchVars
<1>9. CASE \/ Start \/ BeginCycle \/ Shutdown \/ ShutdownReturns
           \/ \E c \in Caller : \E ld \in unsent : ConsumeLogs(c, ld)
           \/ \E c \in Caller : Enqueue(c)
           \/ TimerFires \/ SelectShutdown \/ Terminated \/ UNCHANGED vars
  BY <1>9 DEF SizeInv, FlushInv, Start, BeginCycle, Shutdown, ShutdownReturns,
              ConsumeLogs, Enqueue, TimerFires, SelectShutdown, Terminated,
              vars, ctlVars, batchVars
<1>10. QED
  BY <1>1, <1>2, <1>3, <1>4, <1>5, <1>6, <1>7, <1>8, <1>9 DEF Next, Cycle
---------------------------------------------------------------------------
(* Shutdown.                                                               *)

\* Every step keeps what may be in the channel during Shutdown.
LEMMA ShutdownStep == TypeOK /\ ShutdownInv /\ [Next]_vars => ShutdownInv'
<1> SUFFICES ASSUME TypeOK, ShutdownInv, [Next]_vars PROVE ShutdownInv'
  OBVIOUS
<1>1. CASE SelectItem \/ DrainItem
  BY <1>1 DEF ShutdownInv, SelectItem, DrainItem, Receive
<1>2. CASE SelectTimer \/ DrainEnds \/ CheckSize
  BY <1>2 DEF ShutdownInv, SelectTimer, DrainEnds, CheckSize
<1>3. CASE AddRecord \/ ExportGroup \/ Flushed
  BY <1>3 DEF TypeOK, ShutdownInv, AddRecord, ExportGroup, Flushed, ctlVars
<1>4. CASE ProcessItemReturns
  BY <1>4 DEF TypeOK, ShutdownInv, ProcessItemReturns
<1>5. CASE \E c \in Caller : \E ld \in unsent : ConsumeLogs(c, ld)
  BY <1>5 DEF TypeOK, ShutdownInv, ConsumeLogs
<1>6. CASE \E c \in Caller : Enqueue(c)
  <2>1. PICK c \in Caller : Enqueue(c)
    BY <1>6
  <2>2. /\ calls[c] # NoCall /\ newItem' = Append(newItem, calls[c])
        /\ UNCHANGED <<shutdown, pc, caller, trigger, late>>
        /\ \A k \in Caller : calls'[k] \in {calls[k], NoCall}
    BY <2>1 DEF Enqueue, TypeOK
  <2>3. /\ newItem \in Seq(Payloads) /\ calls[c] \in Payloads
    BY <2>2 DEF TypeOK
  <2>4. ASSUME pc = "done" \/ (pc = "export" /\ trigger = "shutdown"),
               NEW i \in DOMAIN newItem'
        PROVE  newItem'[i] \in late
    <3>1. calls[c] \in late
      BY <2>2, <2>4 DEF ShutdownInv
    <3>2. \/ newItem'[i] = calls[c]
          \/ i \in DOMAIN newItem /\ newItem'[i] = newItem[i]
      <4>1. /\ newItem' \in Seq(Payloads) /\ Len(newItem') = Len(newItem) + 1
            /\ \A k \in 1 .. Len(newItem) : newItem'[k] = newItem[k]
            /\ newItem'[Len(newItem) + 1] = calls[c]
        BY <2>2, <2>3, AppendProperties
      <4>2. /\ DOMAIN newItem = 1 .. Len(newItem) /\ Len(newItem) \in Nat
            /\ DOMAIN newItem' = 1 .. Len(newItem) + 1
        BY <2>3, <4>1, LenProperties
      <4>3. QED
        BY <2>4, <4>1, <4>2
    <3>3. QED
      BY <2>4, <3>1, <3>2 DEF ShutdownInv
  <2>5. QED
    BY <2>2, <2>4 DEF ShutdownInv
<1>7. CASE Start \/ BeginCycle \/ Shutdown \/ ShutdownReturns
  <2>1. CASE Shutdown
    BY <1>7, <2>1 DEF TypeOK, ShutdownInv, Shutdown
  <2>2. CASE Start \/ BeginCycle \/ ShutdownReturns
    BY <1>7, <2>2 DEF TypeOK, ShutdownInv, Start, BeginCycle, ShutdownReturns
  <2>3. QED
    BY <1>7, <2>1, <2>2
<1>8. CASE TimerFires \/ SelectShutdown \/ Terminated \/ UNCHANGED vars
  BY <1>8 DEF ShutdownInv, TimerFires, SelectShutdown, Terminated, vars, ctlVars
<1>9. QED
  BY <1>1, <1>2, <1>3, <1>4, <1>5, <1>6, <1>7, <1>8 DEF Next, Cycle
---------------------------------------------------------------------------
(* Where the records are.                                                  *)

\* Membership in the queue operations of the two modules.
LEMMA InTail ==
  ASSUME NEW S, NEW q \in Seq(S), q # <<>>, NEW e
  PROVE  In(e, q) <=> (e = Head(q) \/ In(e, Tail(q)))
<1>1. /\ Len(Tail(q)) = Len(q) - 1 /\ Tail(q) \in Seq(S)
      /\ \A j \in 1 .. Len(Tail(q)) : Tail(q)[j] = q[j + 1]
  BY HeadTailProperties
<1>2. /\ DOMAIN q = 1 .. Len(q) /\ Len(q) \in Nat \ {0}
      /\ DOMAIN Tail(q) = 1 .. Len(q) - 1
  BY <1>1, LenProperties, EmptySeq
<1>3. Head(q) = q[1]
  OBVIOUS
<1>4. ASSUME In(e, q) PROVE e = Head(q) \/ In(e, Tail(q))
  <2>1. PICK i \in 1 .. Len(q) : q[i] = e
    BY <1>2, <1>4 DEF In
  <2>2. CASE i = 1
    BY <1>3, <2>1, <2>2
  <2>3. CASE i # 1
    <3>1. i - 1 \in DOMAIN Tail(q) /\ Tail(q)[i - 1] = e
      BY <1>1, <1>2, <2>1, <2>3
    <3>2. QED
      BY <3>1 DEF In
  <2>4. QED
    BY <2>2, <2>3
<1>5. ASSUME e = Head(q) PROVE In(e, q)
  <2>1. 1 \in DOMAIN q
    BY <1>2
  <2>2. QED
    BY <1>3, <1>5, <2>1 DEF In
<1>6. ASSUME In(e, Tail(q)) PROVE In(e, q)
  <2>1. PICK i \in 1 .. Len(q) - 1 : Tail(q)[i] = e
    BY <1>2, <1>6 DEF In
  <2>2. i + 1 \in DOMAIN q /\ q[i + 1] = e
    BY <1>1, <1>2, <2>1
  <2>3. QED
    BY <2>2 DEF In
<1>7. QED
  BY <1>4, <1>5, <1>6

\* The elements of a sequence that grew at the end.
LEMMA InAppend ==
  ASSUME NEW S, NEW q \in Seq(S), NEW last \in S, NEW e
  PROVE  In(e, q) \/ e = last => In(e, Append(q, last))
<1>1. /\ Append(q, last) \in Seq(S)
      /\ Len(Append(q, last)) = Len(q) + 1
      /\ \A i \in 1 .. Len(q) : Append(q, last)[i] = q[i]
      /\ Append(q, last)[Len(q) + 1] = last
  BY AppendProperties
<1>2. /\ DOMAIN q = 1 .. Len(q) /\ Len(q) \in Nat
      /\ DOMAIN Append(q, last) = 1 .. Len(q) + 1
  BY <1>1, LenProperties
<1>3. ASSUME In(e, q) PROVE In(e, Append(q, last))
  <2>1. PICK i \in 1 .. Len(q) : q[i] = e
    BY <1>2, <1>3 DEF In
  <2>2. i \in DOMAIN Append(q, last) /\ Append(q, last)[i] = e
    BY <1>1, <1>2, <2>1
  <2>3. QED
    BY <2>2 DEF In
<1>4. ASSUME e = last PROVE In(e, Append(q, last))
  <2>1. Len(q) + 1 \in DOMAIN Append(q, last)
    BY <1>2
  <2>2. QED
    BY <1>1, <1>4, <2>1 DEF In
<1>5. QED
  BY <1>3, <1>4

\* The empty sequence has no elements.
LEMMA InEmpty == \A e : ~In(e, <<>>)
BY DEF In

\* addToBatch skips the record or places it in a stream.
LEMMA PlacedByAddRecord ==
  ASSUME TypeOK, AddRecord, NEW r, Placed(r)
  PROVE  Placed(r)'
<1>1. NextRecord /\ todo # <<>> /\ todo \in Seq(Record) /\ todo' = Tail(todo)
  BY DEF AddRecord, SkipRecord, PlaceRecord, NextRecord, TypeOK, BatchTypeOK
<1>2. In(r, todo) => r = Head(todo) \/ In(r, todo')
  BY <1>1, InTail
<1>3. CASE SkipRecord
  BY <1>2, <1>3 DEF SkipRecord, Placed
<1>4. CASE PlaceRecord
  <2> DEFINE s == StreamOf[Head(todo)]
  <2>1. s \in Stream /\ Head(todo) \in Record
    BY <1>1, <1>4, HeadOfTodo, BatchAssumption DEF PlaceRecord, TypeOK
  <2>2. added' = [added EXCEPT ![s] = Append(@, Head(todo))] /\ skipped' = skipped
    BY <1>4 DEF PlaceRecord
  <2>3. added \in [Stream -> Seq(Record)]
    BY DEF TypeOK, BatchTypeOK
  <2> HIDE DEF s
  <2>4. /\ added'[s] = Append(added[s], Head(todo)) /\ added[s] \in Seq(Record)
        /\ \A k \in Stream \ {s} : added'[k] = added[k]
    BY <2>1, <2>2, <2>3
  <2>5. \A e : In(e, added[s]) \/ e = Head(todo) => In(e, added'[s])
    BY <2>1, <2>4, InAppend
  <2>6. \A k \in Stream : In(r, added[k]) => In(r, added'[k])
    BY <2>4, <2>5
  <2>7. QED
    BY <1>2, <2>1, <2>2, <2>5, <2>6 DEF Placed
<1>5. QED
  BY <1>3, <1>4 DEF AddRecord

\* A record that was placed stays placed.
LEMMA PlacedStays ==
  ASSUME TypeOK, [Next]_vars, ~SelectItem, ~DrainItem, NEW r, Placed(r)
  PROVE  Placed(r)'
<1>1. CASE AddRecord
  BY <1>1, PlacedByAddRecord
<1>2. CASE ~AddRecord
  <2>1. UNCHANGED <<skipped, added, todo>>
    BY <1>2 DEF Next, Cycle, Start, BeginCycle, Shutdown, ShutdownReturns, ConsumeLogs,
                Enqueue, TimerFires, SelectTimer, SelectShutdown, DrainEnds, CheckSize,
                ProcessItemReturns, ExportGroup, Flushed, Terminated, Export, Send,
                TakeGroup, SplitGroup, VisitKey, batchVars, vars
  <2>2. QED
    BY <2>1 DEF Placed
<1>3. QED
  BY <1>1, <1>2

\* Every step keeps track of the payloads passed on.
LEMMA LocatedStep ==
  TypeOK /\ OpFollowsPc /\ LocatedInv /\ [Next]_vars => LocatedInv'
<1> SUFFICES ASSUME TypeOK, OpFollowsPc, LocatedInv, [Next]_vars,
                    NEW ld \in Payloads, ld \notin unsent'
             PROVE  InFlight(ld)' \/ \A i \in DOMAIN ld : Placed(ld[i])'
  BY DEF LocatedInv
<1>1. CASE SelectItem \/ DrainItem
  <2>1. /\ newItem # <<>> /\ newItem' = Tail(newItem) /\ calls' = calls
        /\ todo' = Head(newItem) /\ UNCHANGED <<skipped, added, unsent>>
        /\ pc \in {"select", "drain"}
    BY <1>1 DEF SelectItem, DrainItem, Receive, Add
  <2>2. todo = <<>>
    BY <2>1 DEF TypeOK, BatchTypeOK, OpFollowsPc
  <2>3. CASE ld = Head(newItem)
    BY <2>1, <2>3 DEF Placed, In
  <2>4. CASE ld # Head(newItem) /\ InFlight(ld)
    <3>1. In(ld, newItem) => In(ld, newItem')
      <4>1. newItem \in Seq(Payloads)
        BY DEF TypeOK
      <4>2. QED
        BY <2>1, <2>4, <4>1, InTail
    <3>2. QED
      BY <2>1, <2>4, <3>1 DEF InFlight
  <2>5. CASE ld # Head(newItem) /\ ~InFlight(ld)
    <3>1. \A i \in DOMAIN ld : Placed(ld[i])
      BY <2>1, <2>5 DEF LocatedInv
    <3>2. QED
      BY <2>1, <2>2, <3>1, InEmpty DEF Placed
  <2>6. QED
    BY <2>3, <2>4, <2>5
<1>2. CASE \E c \in Caller : \E p \in unsent : ConsumeLogs(c, p)
  <2>1. PICK c \in Caller, p \in unsent : ConsumeLogs(c, p)
    BY <1>2
  <2>2. /\ calls' = [calls EXCEPT ![c] = p] /\ unsent' = unsent \ {p}
        /\ calls[c] = NoCall /\ newItem' = newItem /\ UNCHANGED batchVars
        /\ calls'[c] = p /\ \A k \in Caller \ {c} : calls'[k] = calls[k]
    BY <2>1 DEF ConsumeLogs, TypeOK
  <2>3. CASE ld = p
    BY <2>2, <2>3 DEF InFlight
  <2>4. CASE ld # p
    <3>1. InFlight(ld) \/ \A i \in DOMAIN ld : Placed(ld[i])
      BY <2>2, <2>4 DEF LocatedInv
    <3>2. InFlight(ld) => InFlight(ld)'
      BY <2>2, ProcessorAssumption DEF InFlight
    <3>3. QED
      BY <2>2, <3>1, <3>2 DEF Placed, batchVars
  <2>5. QED
    BY <2>3, <2>4
<1>3. CASE \E c \in Caller : Enqueue(c)
  <2>1. PICK c \in Caller : Enqueue(c)
    BY <1>3
  <2>2. /\ calls[c] # NoCall /\ newItem' = Append(newItem, calls[c])
        /\ unsent' = unsent /\ UNCHANGED batchVars
        /\ \A k \in Caller \ {c} : calls'[k] = calls[k]
    BY <2>1 DEF Enqueue, TypeOK
  <2>3. /\ newItem \in Seq(Payloads) /\ calls[c] \in Payloads
    BY <2>2 DEF TypeOK
  <2>4. \A e : In(e, newItem) \/ e = calls[c] => In(e, newItem')
    BY <2>2, <2>3, InAppend
  <2>5. InFlight(ld) => InFlight(ld)'
    BY <2>2, <2>4 DEF InFlight
  <2>6. QED
    BY <2>2, <2>5 DEF LocatedInv, Placed, batchVars
<1>4. CASE /\ ~(SelectItem \/ DrainItem)
           /\ ~(\E c \in Caller : \E p \in unsent : ConsumeLogs(c, p))
           /\ ~(\E c \in Caller : Enqueue(c))
  <2>1. UNCHANGED <<calls, newItem, unsent>>
    BY <1>4 DEF Next, Cycle, Start, BeginCycle, Shutdown, ShutdownReturns, TimerFires,
                SelectTimer, SelectShutdown, AddRecord, DrainEnds, CheckSize,
                ProcessItemReturns, ExportGroup, Flushed, Terminated, vars, ctlVars
  <2>2. CASE InFlight(ld)
    BY <2>1, <2>2 DEF InFlight
  <2>3. CASE \A i \in DOMAIN ld : Placed(ld[i])
    BY <1>4, <2>3, PlacedStays
  <2>4. QED
    BY <2>1, <2>2, <2>3 DEF LocatedInv
<1>5. QED
  BY <1>1, <1>2, <1>3, <1>4
---------------------------------------------------------------------------
(* The theorems.                                                           *)

\* The processor starts with everything empty.
LEMMA ProcessorInvInit == Init => ProcessorInv
<1> SUFFICES ASSUME Init PROVE ProcessorInv
  OBVIOUS
<1>1. BatchInv
  BY BatchInvInit DEF Init
<1>2. TypeOK
  <2>1. newItem \in Seq(Payloads) /\ Len(newItem) <= NewItemCap
    BY EmptySeq, ProcessorAssumption DEF Init
  <2>2. BatchTypeOK
    BY <1>1 DEF BatchInv
  <2>3. QED
    BY <2>1, <2>2 DEF Init, TypeOK
<1>3. OpFollowsPc /\ TimerInv /\ ShutdownInv /\ LocatedInv
  BY DEF Init, BatchInit, OpFollowsPc, TimerInv, ShutdownInv, LocatedInv
<1>4. SizeInv
  BY EmptyMapFacts, ProcessorAssumption DEF Init, BatchInit, SizeInv, FlushInv
<1>5. QED
  BY <1>1, <1>2, <1>3, <1>4 DEF ProcessorInv

\* ProcessorInv is inductive.
LEMMA ProcessorInvStep == ProcessorInv /\ [Next]_vars => ProcessorInv'
BY TypeStep, BatchInvKept, OpStep, TimerStep, SizeStep, ShutdownStep, LocatedStep
   DEF ProcessorInv

\* The invariant of the processor.
LEMMA ProcessorInvariance == Spec => []ProcessorInv
BY ProcessorInvInit, ProcessorInvStep, PTL DEF Spec

\* The variables of the processor have their types, the channel never holds
\* more than its capacity (sl_log_format_processor.go:42-57, 88).
THEOREM TypeCorrect == Spec => []TypeOK
BY ProcessorInvariance, PTL DEF ProcessorInv

\* The goroutine never waits while a group has reached sendBatchSize
\* (sl_log_format_processor.go:153-156).
THEOREM SizeTriggerCorrect == Spec => []SizeTriggerServed
<1>1. ProcessorInv => SizeTriggerServed
  BY DEF ProcessorInv, SizeInv, SizeTriggerServed
<1>2. QED
  BY <1>1, ProcessorInvariance, PTL

\* The goroutine never waits without a timer, and stopTimer never blocks
\* (sl_log_format_processor.go:141-145, 158-168).
THEOREM TimerCorrect == Spec => []TimerNeverLost
<1>1. ProcessorInv => TimerNeverLost
  BY DEF ProcessorInv, TypeOK, TimerInv, TimerNeverLost
<1>2. QED
  BY <1>1, ProcessorInvariance, PTL

\* The next consumer never gets a request without records
\* (sl_log_format_processor.go:130, 142, 153; batch_logs.go:57-80).
THEOREM RequestCorrect == Spec => []NoEmptyRequest
<1>1. ASSUME ProcessorInv PROVE NoEmptyRequest
  <2> SUFFICES ASSUME SendBatchSize > 0, pc = "export", visit = {}
               PROVE  RequestRecords # {}
    BY DEF NoEmptyRequest
  <2>1. PICK s : s \in DOMAIN req
    BY <1>1 DEF ProcessorInv, SizeInv
  <2>2. req[s].records # <<>> /\ req[s].records \in Seq(Record)
    BY <1>1, <2>1 DEF ProcessorInv, BatchInv, EntriesWellFormed, BatchTypeOK, Entry
  <2>3. 1 \in DOMAIN req[s].records
    BY <2>2, EmptySeq, LenProperties
  <2>4. QED
    BY <2>1, <2>3 DEF RequestRecords
<1>2. QED
  BY <1>1, ProcessorInvariance, PTL

\* A flush by the timer or by Shutdown leaves nothing in the batch
\* (sl_log_format_processor.go:130-134, 141-145; config.go:230).
THEOREM FlushCorrect == Spec => FlushIsComplete
<1>1. ASSUME ProcessorInv, [Next]_vars
      PROVE  [Flushed /\ trigger # "size" /\ SendBatchSize > 0 => DOMAIN logData' = {}]_vars
  <2>1. ASSUME Flushed, trigger # "size", SendBatchSize > 0
        PROVE  DOMAIN logData' = {}
    <3>1. pc = "export" /\ visit = {} /\ logData' = logData
      BY <2>1 DEF Flushed, Send
    <3>2. QED
      BY <1>1, <2>1, <3>1 DEF ProcessorInv, SizeInv, FlushInv
  <2>2. QED
    BY <2>1
<1>2. QED
  BY <1>1, ProcessorInvariance, PTL DEF Spec, FlushIsComplete

\* Shutdown loses no record of a ConsumeLogs call that returned before it, also
\* while other calls race with it (sl_log_format_processor.go:106-135).
THEOREM ShutdownCorrect == Spec => []ShutdownLosesNothing
<1>1. ASSUME ProcessorInv PROVE ShutdownLosesNothing
  <2> SUFFICES ASSUME SendBatchSize > 0, shutdown = "returned",
                      NEW ld \in Payloads \ (unsent \cup late)
               PROVE  AllSettled(ld)
    BY DEF ShutdownLosesNothing
  <2>1. /\ pc = "done" /\ \A i \in DOMAIN newItem : newItem[i] \in late
        /\ \A c \in Caller : calls[c] \in late \cup {NoCall}
        /\ DOMAIN logData = {}
    BY <1>1 DEF ProcessorInv, ShutdownInv, SizeInv
  <2>2. op = "idle" /\ todo = <<>> /\ req = EmptyMap
    BY <1>1, <2>1 DEF ProcessorInv, OpFollowsPc, TypeOK, BatchTypeOK, BatchInv,
                      EntriesWellFormed
  <2>3. ~InFlight(ld)
    BY <2>1, ProcessorAssumption DEF InFlight, In
  <2>4. \A i \in DOMAIN ld : ld[i] \in skipped \/ \E s \in Stream : In(ld[i], added[s])
    BY <1>1, <2>2, <2>3, InEmpty DEF ProcessorInv, LocatedInv, Placed
  <2>5. ASSUME NEW s \in Stream PROVE added[s] = handed[s]
    <3>1. RecordsIn(req, s) = <<>> /\ RecordsIn(logData, s) = <<>>
      BY <2>1, <2>2, EmptyMapFacts DEF RecordsIn
    <3>2. handed[s] \in Seq(Record) /\ <<>> \in Seq(Record)
      BY <1>1, Triple, EmptySeq DEF ProcessorInv, TypeOK
    <3>3. handed[s] \o (<<>> \o <<>>) = handed[s]
      BY <3>2, ConcatEmptySeq
    <3>4. QED
      BY <1>1, <3>1, <3>3 DEF ProcessorInv, BatchInv, StreamOrder
  <2>6. QED
    BY <2>4, <2>5 DEF AllSettled, SettledRecords, In
<1>2. QED
  BY <1>1, ProcessorInvariance, PTL

\* The processor as a whole implements the FIFO buffer of every stream: neither
\* the timer nor Shutdown nor a refused request reorders or repeats a record.
THEOREM ProcessorImplementsBuffer == Spec => ImplementsStreamBuffer
<1>1. Init => SB!SBInit
  BY BufferInit DEF Init
<1>2. ProcessorInv /\ [Next]_vars => [SB!SBNext]_(SB!sbVars)
  BY BatchView, BufferStep DEF ProcessorInv
<1>3. QED
  BY <1>1, <1>2, ProcessorInvariance, PTL DEF Spec, ImplementsStreamBuffer, SB!SBSpec
===========================================================================

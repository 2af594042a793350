------------------------ MODULE TimestreamExporter -------------------------
(***************************************************************************)
(* The exporter awstimestreamexporter: pushMetrics converts the data       *)
(* points of a request to records and writes them in batches.  A batch     *)
(* that fails is noted and the next one is written all the same.           *)
(*                                                                         *)
(* External, from how factory.go uses it: exporterhelper runs pushMetrics  *)
(* for several requests at a time, and again for a request for which it    *)
(* returned an error, MaxAttempts times at most.  WriteRecords stores the  *)
(* whole batch and returns nil, or stores some records of it, perhaps all  *)
(* or none, and returns an error; a record it holds already is not stored  *)
(* a second time.                                                          *)
(***************************************************************************)
EXTENDS Naturals, Sequences, SequencesExt, FiniteSets

CONSTANTS Request,
          MetricsOf,    \* [Request -> Seq([kind, name, resource, scope, points])]: the
                        \* metrics with the attributes above them, <<name, value>>
                        \* pairs of sequences of characters, and their points with
                        \* the kind of their value and attributes of their own
          Legal,        \* the characters that tsIllegals does not match
          BatchSize,    \* batchSize of pushMetrics, 100 in the code
          MaxAttempts   \* how often pushMetrics is called for a request

VARIABLES
  pushes,    \* pushes[r]: the pushMetrics call for request r
  stored,    \* Timestream: the records it holds, <<request, record>>
  called,    \* history: called[r], the records handed to WriteRecords in this call
  panicked   \* the collector crashed

vars == <<pushes, stored, called, panicked>>
----------------------------------------------------------------------------
(* convertMetricsToRecords.                                                *)

\* metric.Gauge() of a metric that is not a gauge is an invalid value, its
\* DataPoints() dereferences nil: the first branch takes monotonic sums too.
Panics(metrics) ==
  \E m \in DOMAIN metrics : metrics[m].kind = "monotonic sum"

\* The metrics that have number points; the others are logged and left out.
Convertible(metric) == metric.kind \in {"gauge", "sum"}

removeIllegalChars(s) == [k \in DOMAIN s |-> IF s[k] \in Legal THEN s[k] ELSE "-"]

\* As it would be without the attributes of the scope.
BundlesWithoutScope(metric, point) == point.attributes \o metric.resource

\* The attributes of a record, in the order in which they are gone through.
Bundles(metric, point) == point.attributes \o metric.resource \o metric.scope

\* A dimension for each attribute; one without a name or a value is left out.
convertAttrsToDimensions(attributes) ==
  LET toDimension(a) ==
        LET legalName == removeIllegalChars(a[1])
            legalValue == removeIllegalChars(a[2])
        IN  IF legalName # <<>> /\ legalValue # <<>>
            THEN << <<legalName, legalValue>> >> ELSE <<>>
  IN  FlattenSeq([k \in DOMAIN attributes |-> toDimension(attributes[k])])

Record(metrics, m, l) ==
  [point      |-> <<m, l>>,
   name       |-> removeIllegalChars(metrics[m].name),
   dimensions |-> convertAttrsToDimensions(Bundles(metrics[m], metrics[m].points[l]))]

\* The records of the points whose value is a number; one without a value is logged
\* and left out.
RecordsOf(metrics, m) ==
  LET record(l) == IF metrics[m].points[l].value \in {"int", "double"}
                   THEN <<Record(metrics, m, l)>> ELSE <<>>
  IN  IF Convertible(metrics[m])
      THEN FlattenSeq([l \in DOMAIN metrics[m].points |-> record(l)])
      ELSE <<>>

Convert(metrics) == FlattenSeq([m \in DOMAIN metrics |-> RecordsOf(metrics, m)])

RecordsOfRequest == [r \in Request |-> Convert(MetricsOf[r])]
Records(r) == RecordsOfRequest[r]

IsSequence(s) == s \in Seq(ToSet(s))
IsAttributes(s) == IsSequence(s) /\ \A k \in DOMAIN s : IsSequence(s[k][1]) /\ IsSequence(s[k][2])
IsMetric(metric) ==
  /\ metric.kind \in {"gauge", "sum", "monotonic sum", "other"}
  /\ IsAttributes(metric.resource) /\ IsAttributes(metric.scope)
  /\ IsSequence(metric.points)
  /\ \A l \in DOMAIN metric.points : IsAttributes(metric.points[l].attributes)

ASSUME TimestreamAssumption ==
  /\ BatchSize \in Nat \ {0}
  /\ MaxAttempts \in Nat \ {0}
  /\ \A r \in Request :
       IsSequence(MetricsOf[r]) /\ \A m \in DOMAIN MetricsOf[r] : IsMetric(MetricsOf[r][m])
----------------------------------------------------------------------------
(* The batches.  i counts from 0, as in the code; a batch is the records   *)
(* of the indices BatchStart(i) .. BatchEnd(r, i) - 1, counted from 0.     *)

\* As it would be with one batch too many when the last one is full.
OneBatchMore(r) == Len(Records(r)) \div BatchSize + 1

\* int(math.Ceil(len / batchSize))
NumBatches(r) == (Len(Records(r)) + BatchSize - 1) \div BatchSize

BatchStart(i) == i * BatchSize

BatchEnd(r, i) ==
  LET end == BatchStart(i) + BatchSize - 1
  IN  IF end > Len(Records(r)) THEN Len(Records(r)) ELSE end

Batch(r, i) == SubSeq(Records(r), BatchStart(i) + 1, BatchEnd(r, i))
----------------------------------------------------------------------------
\* A call of pushMetrics: i is the index of its loop, failed whether
\* batchErrors has an entry.
NotPushed == [pc |-> "waiting", attempt |-> 0, i |-> 0, failed |-> FALSE]

Init ==
  /\ pushes = [r \in Request |-> NotPushed]
  /\ stored = {}
  /\ called = [r \in Request |-> {}]
  /\ panicked = FALSE

\* As it would be if a failed request were pushed again without limit, if err, set
\* anew by every batch, were returned in the end, if the first error ended the
\* loop, or if the loop were not left while a batch has failed.
RetryForever(push) == push.failed
LastError(push, ok) == ~ok
StopAtError(r, ok) == IF ok THEN pushes[r].i + 1 ELSE NumBatches(r)
StayedOnError(push) == IF push.failed THEN push.pc ELSE "returned"

MayRetry(push) == push.failed /\ push.attempt < MaxAttempts
BatchErrors(push, ok) == push.failed \/ ~ok
Following(r, ok) == pushes[r].i + 1
AfterLoop(push) == "returned"

\* pushMetrics is called, for the first time or after an error, and converts
\* the points of the request.
PushMetrics(r) ==
  /\ ~panicked
  /\ \/ pushes[r].pc = "waiting"
     \/ pushes[r].pc = "returned" /\ MayRetry(pushes[r])
  /\ IF Panics(MetricsOf[r])
     THEN /\ panicked' = TRUE
          /\ UNCHANGED <<pushes, called>>
     ELSE /\ pushes' = [pushes EXCEPT ![r] =
               [pc |-> "writing", attempt |-> @.attempt + 1, i |-> 0, failed |-> FALSE]]
          /\ called' = [called EXCEPT ![r] = {}]
          /\ UNCHANGED panicked
  /\ UNCHANGED stored

\* One turn of the loop: WriteRecords is called for a batch and answers, having
\* stored the records written.
WriteRecords(r, ok, written) ==
  /\ ~panicked
  /\ pushes[r].pc = "writing" /\ pushes[r].i < NumBatches(r)
  /\ written \subseteq ToSet(Batch(r, pushes[r].i))
  /\ ok => written = ToSet(Batch(r, pushes[r].i))
  /\ stored' = stored \cup ({r} \X written)
  /\ called' = [called EXCEPT ![r] = @ \cup ToSet(Batch(r, pushes[r].i))]
  /\ pushes' = [pushes EXCEPT ![r].i = Following(r, ok),
                              ![r].failed = BatchErrors(pushes[r], ok)]
  /\ UNCHANGED panicked

\* The loop is over: pushMetrics returns the joined errors, or nil.
PushReturns(r) ==
  /\ ~panicked
  /\ pushes[r].pc = "writing" /\ pushes[r].i >= NumBatches(r)
  /\ pushes' = [pushes EXCEPT ![r].pc = AfterLoop(pushes[r])]
  /\ UNCHANGED <<stored, called, panicked>>

Answered(r) == /\ pushes[r].pc = "returned"
               /\ pushes[r].failed => pushes[r].attempt = MaxAttempts

\* Every request was answered for, or nothing runs any more.
Quiet == /\ panicked \/ \A r \in Request : Answered(r)
         /\ UNCHANGED vars

Work(r) == \/ PushMetrics(r)
           \/ \E ok \in BOOLEAN : \E written \in SUBSET ToSet(Batch(r, pushes[r].i)) :
                WriteRecords(r, ok, written)
           \/ PushReturns(r)

Next == \/ \E r \in Request : Work(r)
        \/ Quiet

Spec == Init /\ [][Next]_vars

\* Nothing makes a request arrive; once one is there, its worker of exporterhelper
\* keeps going: the calls end by the timeout.
FairSpec == Spec /\ \A r \in Request : WF_vars(pushes[r].pc # "waiting" /\ Work(r))
----------------------------------------------------------------------------
(* Properties.                                                             *)

TypeOK ==
  /\ pushes \in [Request -> [pc : {"waiting", "writing", "returned"},
                             attempt : 0..MaxAttempts, i : Nat, failed : BOOLEAN]]
  /\ \A p \in stored : p[1] \in Request /\ p[2] \in ToSet(Records(p[1]))
  /\ called \in [Request -> SUBSET UNION {ToSet(Records(r)) : r \in Request}]
  /\ panicked \in BOOLEAN

Written(r) == {p[2] : p \in {s \in stored : s[1] = r}}
Acked(r) == pushes[r].pc = "returned" /\ ~pushes[r].failed

\* What a batch leaves out: the last record of one that is full
\* (exporter.go:149, the end of a slice is exclusive).
LeftOut(r) == {Records(r)[n] : n \in {m \in DOMAIN Records(r) : m % BatchSize = 0}}

\* The exporter promises to export metrics to Timestream (README.md:8): a
\* request for which pushMetrics returns nil was written, every record of it.
AckedWasWritten ==
  \A r \in Request : Acked(r) => Written(r) = ToSet(Records(r))

\* What the code does of that promise: when nil is returned, no batch failed
\* without being noted, whatever the order of failures and successes in this
\* call and the ones before (exporter.go:166-196).
AckedWasWrittenButLeftOut ==
  \A r \in Request : Acked(r) => ToSet(Records(r)) \ LeftOut(r) \subseteq Written(r)

\* A failed batch does not keep the later ones from being written: when
\* pushMetrics returns, with an error or without, this call of it handed every
\* record to WriteRecords that a batch holds (exporter.go:166-191).
EveryBatchTried ==
  \A r \in Request :
    pushes[r].pc = "returned" => ToSet(Records(r)) \ LeftOut(r) = called[r]

\* Every batch of the loop is a slice within the records, and one that
\* WriteRecords can take: not empty and no longer than batchSize.
BatchesInBounds ==
  \A r \in Request :
    pushes[r].pc = "writing" =>
      \A i \in pushes[r].i .. NumBatches(r) - 1 :
        /\ BatchStart(i) < BatchEnd(r, i)
        /\ BatchEnd(r, i) <= Len(Records(r))
        /\ Len(Batch(r, i)) <= BatchSize

\* A record at Timestream has the attributes of its own point, of its resource and
\* of its scope for dimensions, all that have a name and a value and no others, in
\* legal characters (exporter.go:38-58, 117-127).  Two attributes of one name, or
\* of names that differ in illegal characters only, are two dimensions.
DimensionsOfPoint ==
  \A s \in stored :
    LET metric == MetricsOf[s[1]][s[2].point[1]]
        attributes == ToSet(metric.points[s[2].point[2]].attributes)
                        \cup ToSet(metric.resource) \cup ToSet(metric.scope)
        given == {a \in attributes : Len(a[1]) > 0 /\ Len(a[2]) > 0}
        Stands(d, a) == \A n \in 1..2 :
          /\ Len(d[n]) = Len(a[n])
          /\ \A k \in DOMAIN a[n] : d[n][k] = a[n][k] \/ a[n][k] \notin Legal
    IN  /\ \A a \in given : \E d \in ToSet(s[2].dimensions) : Stands(d, a)
        /\ \A d \in ToSet(s[2].dimensions) : \E a \in given : Stands(d, a)
        /\ \A d \in ToSet(s[2].dimensions) : ToSet(d[1]) \cup ToSet(d[2]) \subseteq Legal \cup {"-"}

\* Every request that came is answered for in the end, with nil or by using up its
\* attempts, unless a monotonic sum crashes the collector (exporter.go:85-86).
EveryPushEnds ==
  \A r \in Request : (pushes[r].pc # "waiting") ~> (Answered(r) \/ panicked)
============================================================================

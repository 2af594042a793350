----------------------------- MODULE Pipeline ------------------------------
(***************************************************************************)
(* The log format processor and the Zebrium exporter in one pipeline, as   *)
(* slzebriumexporter/README.md configures them: the next consumer of the   *)
(* processor is the exporter's sending queue.                              *)
(*                                                                         *)
(*   receivers --> SlLogFormatProcessor --> queue --> pushLogs --> Zebrium *)
(*                                                                         *)
(* Either component takes a step and leaves the other alone, except when   *)
(* sendItems calls ConsumeLogs of the exporter, which is a step of both.   *)
(* What the other modules have as parameters is decided here: the answer   *)
(* of the next consumer is that of the queue, and the requests that the    *)
(* exporter pushes are those the batch has built.                          *)
(***************************************************************************)
EXTENDS SlLogFormatProcessor, Subsequences

CONSTANTS NoRequest, Worker, QueueSize, MaxAttempts, Answers

\* A log record is an object of its own: it is in one payload, and there once.
ASSUME PipelineAssumption ==
  \A ld1, ld2 \in Payloads : \A i \in DOMAIN ld1, j \in DOMAIN ld2 :
    ld1[i] = ld2[j] => ld1 = ld2 /\ i = j

VARIABLES queue, pushes, epoch, accepted, order, refused, acked, dropped,
          panicked    \* as in ZebriumExporter

\* A request: its resource entries, of a stream each.
Request == Seq([stream : Stream, format : Format, records : Seq(Record)])

\* What the exporter sees of an entry: addToBatch has set sl_metadata, and
\* sl_msg of every record, to a text that is not empty.  The formats that
\* Config.Validate accepts have no colon.
Attributes(entry) ==
  [sl_metadata |-> TRUE, sl_msg |-> "present", sl_format |-> <<entry.format>>]
EntriesOf == [q \in Request |-> [k \in DOMAIN q |-> Attributes(q[k])]]

\* As in ZebriumExporter; a format is a text.
ASSUME PipelineExporterAssumption ==
  /\ NoRequest \notin Request
  /\ QueueSize \in Nat \ {0}
  /\ MaxAttempts \in Nat \ {0}
  /\ Answers \subseteq {"accepted", "lost", "unreachable", "refused"}
  /\ Format \subseteq STRING

\* The tokens do not expire here: what an expiry does stays within sendLogs, and
\* ZebriumExporter shows that it is absorbed or fails the attempt like a lost answer.
Z == INSTANCE ZebriumExporter WITH MaxEpoch <- 0

zVars == <<queue, pushes, epoch, accepted, order, refused, acked, dropped, panicked>>
pipelineVars == <<vars, zVars>>
----------------------------------------------------------------------------
PipelineInit == Init /\ Z!Init

\* The request of an export; its entries are in the order of the range loop.
OfStream(s, entry) == [stream |-> s, format |-> entry.format, records |-> entry.records]
Requests == {[k \in DOMAIN keys |-> OfStream(keys[k], req[keys[k]])] :
               keys \in SetToSeqs(DOMAIN req)}

\* sendItems returns from the call of the queue, with an error if it was full.
NextConsumer ==
  /\ \E q \in Requests : Z!Offer(q)
  /\ failed' = IF refused' = refused THEN failed ELSE failed \cup RequestRecords

\* What a step of the processor means for the exporter.
Handover == IF op = "export" /\ op' = "idle" THEN NextConsumer ELSE UNCHANGED zVars

WorkerStep(w) == ~panicked /\ Z!Work(w) /\ UNCHANGED vars

PipelineNext == \/ Next /\ Handover
                \/ \E w \in Worker : WorkerStep(w)

PipelineSpec == PipelineInit /\ [][PipelineNext]_pipelineVars

\* Each component as in its own module.
PipelineFairness ==
  /\ WF_pipelineVars(Cycle /\ Handover)
  /\ WF_pipelineVars(TimerFires /\ UNCHANGED zVars)
  /\ SF_pipelineVars(SelectItem /\ UNCHANGED zVars)
  /\ SF_pipelineVars(SelectTimer /\ UNCHANGED zVars)
  /\ SF_pipelineVars(SelectShutdown /\ UNCHANGED zVars)
  /\ \A c \in Caller : SF_pipelineVars(Enqueue(c) /\ UNCHANGED zVars)
  /\ \A w \in Worker : WF_pipelineVars(WorkerStep(w))

FairPipelineSpec == PipelineSpec /\ PipelineFairness
----------------------------------------------------------------------------
(* Properties.                                                             *)

\* The records of stream s in what is not stored of a request, which has at most one
\* entry of a stream.
Rest(q, s, stored) ==
  LET ks == {k \in DOMAIN q : q[k].stream = s /\ <<q, k>> \notin stored}
  IN  IF ks = {} THEN <<>> ELSE q[CHOOSE k \in ks : TRUE].records

\* On the way: what the requests in the queue or being pushed have not stored
\* yet, what is being sent, and the group that waits.
Outstanding == Without(order, acked \cup dropped)
Unstored(s) ==
  FlattenSeq([j \in DOMAIN Outstanding |-> Rest(Outstanding[j], s, ToSet(accepted))])
Pending == [s \in Stream |-> Unstored(s) \o Waiting[s]]

\* At Zebrium, without repetitions.
Arrival(j, s) ==
  LET entry == accepted[j][1][accepted[j][2]]
  IN  IF entry.stream = s /\ Z!FirstArrival(j) THEN entry.records ELSE <<>>
Arrived == [s \in Stream |-> FlattenSeq([j \in DOMAIN accepted |-> Arrival(j, s)])]

Lost == failed \cup
  UNION {ToSet(Rest(q, s, ToSet(accepted))) : q \in dropped, s \in Stream}

LD == INSTANCE LogDelivery WITH pending <- Pending, arrived <- Arrived, lost <- Lost

\* With one consumer of the queue, every stream arrives at Zebrium in the order
\* of its records, and none vanishes without being counted as lost: across
\* groups that are cut and refilled, requests refused by a full queue, answers
\* that get lost, attempts that start over and requests given up.
ImplementsLogDelivery == LD!LDSpec

Delivered(ld) ==
  ToSet(ld) \subseteq skipped \cup Lost \cup UNION {ToSet(Arrived[s]) : s \in Stream}

\* Every record passed to ConsumeLogs in time ends: it arrives, or it is skipped
\* or lost.  A request that can never be sent, because a profile has no format,
\* keeps nothing behind it waiting for ever.
EventuallyDelivered ==
  \A ld \in Payloads : (ld \notin unsent) ~> (Delivered(ld) \/ ld \in late)

\* The format of an entry is that of a record of its stream placed no later than
\* the first record of the entry (batch_logs.go:132-142 sets sl_format when a
\* group is made): no record that came later changes it, however often the
\* group was cut in between.
PlaceOf(s, r) == CHOOSE i \in DOMAIN added[s] : added[s][i] = r

FormatOfEarlierRecord ==
  \A j \in DOMAIN order : \A k \in DOMAIN order[j] :
    LET e == order[j][k]
    IN  \E i \in 1 .. PlaceOf(e.stream, Head(e.records)) :
          FormatOf[added[e.stream][i]] = e.format
============================================================================

# Verification of otel-components

TLA+ models of the three OpenTelemetry collector components of this repository,
model-checked with TLC on small instances, and theorems about them that TLAPS proves
for every instance. Paths are relative to the
repository; `README.md:NN` in a module is the README of the component it models.

## 1. The system

```
receivers --ConsumeLogs--> sllogformatprocessor --ConsumeLogs--> slzebriumexporter --HTTP--> Zebrium
                                                             (or any other logs exporter)
receivers --metrics--> awstimestreamexporter --WriteRecords--> AWS Timestream
```

### 1.1 Components

| component | state | operations | interacts with |
|---|---|---|---|
| **log format processor** `sl_log_format_processor.go` | channel `newItem`, `shutdownC`, `timer`, one goroutine | `Start`, `Shutdown`, `ConsumeLogs`, `startProcessingCycle`, `processItem`, `sendItems`, `stopTimer`, `resetTimer` | receivers (channel), the collector (Start, Shutdown), the timer's channel, the batch (calls) |
| **batch** `batch_logs.go` | `logData`: key of a stream -> group of records; `logCount`: the longest group | `add`, `addToBatch`, `export`, `itemCount` | `MatchProfile`, `splitLogs`, the next consumer |
| **splitLogs** `splitlogs.go` | none (two nested callbacks share a counter) | `splitLogs`, `resourceLRC` | called by `export` |
| **MatchProfile** `match_profile.go` | none; writes the record's severity and attributes | the loop over profiles | called once a record by `addToBatch` |
| **elements and expressions** `match_profile.go`, `config.go`, `filter_ascii.go` | none | `Validate`, `validateProfileElem`, `validateProfileExp` when the configuration is read; `EvalElem`, `evalExp`, `evalMap`, `FilterASCII` on every record | called by the collector and by `MatchProfile` |
| **Zebrium exporter** `slzebriumexporter` | `streamTokenMap` (read, never written) | `pushLogs`, `sendLogs`, `getStreamToken`, `marshalLogs` | the queue and the retries of exporterhelper; Zebrium over HTTP |
| **Timestream exporter** `awstimestreamexporter` | none between calls | `pushMetrics`, `convertMetricsToRecords`, `convertAttrsToDimensions` | exporterhelper; `WriteRecords` |
| configuration of the exporters, telemetry, logger sync errors, test data | none | checks of single values, formatting, test helpers | |

### 1.2 What is hard, and what makes each component correct

* **Processor.** Payloads, ticks and Shutdown reach one goroutine in every order.
  Correct: a group that reaches `send_batch_size` is sent before the goroutine
  waits again; a partial group is sent after the timeout, so the timer must never
  be lost (`stopTimer` blocks on a tick that never comes if it is); Shutdown
  drains the channel, flushes everything and ends; no empty request is sent.
* **Batch.** A stream's records pass through groups that are cut and refilled
  across many exports, by a counter that is reset and recomputed half-way through
  a loop. Correct: a FIFO buffer for each stream, in entries of bounded length.
* **splitLogs.** Off-by-one at the cut, inside or between scopes. Correct: the
  first `size` records go, the others stay, no scope is left empty by the cut; an entry
  that is short enough is returned itself, with all its records.
* **MatchProfile.** A profile may fail half-way, with parts of the result set.
  Correct: the first profile that matches decides, those before it leave no trace in
  what keys the stream, and the key has the three values of the profile under their ids.
* **Elements and expressions.** What the validation accepts must be what the evaluation
  relies on (how many expressions an operator has, that a `validate` pattern compiles,
  labels included), and every operator must do what its description says, on whatever its
  operands evaluate to.
* **Zebrium exporter.** Answers are lost, tokens expire between two calls, a
  request fails half-way and is pushed again. Correct: what is acknowledged was
  stored; one expiry is absorbed; every request ends; nothing behind a failed
  entry is stored ahead of it.
* **Timestream exporter.** Batches of one request fail independently. Correct: the
  request is acknowledged only if all of it was written, a failed batch does not keep
  the others from being written, and a record has the attributes of its own point.
* **Processor and exporter together.** The queue refuses requests whose records have
  left the batch, attempts start over while later requests of the same streams are
  built, and some entries can never be sent. Correct: each stream arrives in order,
  and every record is delivered, skipped or counted as lost.

PROJECT.json lists every hazard at its line, with the properties about it.

## 2. The modules

| module | models | how its state and actions correspond to the code |
|---|---|---|
| `StreamBuffer` | the promise: a FIFO buffer per stream, shipped in entries of at most `MaxEntry` records | abstract; `queue`, `shipped`; `Accept`, `Ship` |
| `BatchLogs` | the batch | `logData`, `logCount` as in the code. One step is one callback of `addToBatch` (`SkipRecord`, `PlaceRecord`) or one iteration of the range loop in `export` (`TakeGroup`, `SplitGroup`), keys in any order as in a Go map; `Send` is the call of the next consumer, which may fail. `added`, `handed`, `skipped`, `failed` are histories |
| `SlLogFormatProcessor` | the processor, EXTENDS `BatchLogs` | `pc` is the place in the goroutine: one action per branch of the select (`SelectItem`, `SelectTimer`, `SelectShutdown`), the drain loop (`DrainItem`, `DrainEnds`), the loop of `processItem` (`CheckSize`, `ProcessItemReturns`), and `Flushed`, where `sendItems` returns to its caller. `ConsumeLogs`/`Enqueue` are the two halves of a blocking send. `timer` is off, armed or fired (its tick unread) |
| `SplitLogs` | `splitLogs` on any number of scopes | one step per callback of the nested `RemoveIf`s. `ReturnSource` is the early return: result and source are one object then (`Result`, `Remaining`) |
| `MatchProfile` | the loop over profiles | one step per stage: service group, host, logbasename, severity, labels, message and format. What an element evaluates to is data |
| `ConfigExpression` | `Config.Validate` and the evaluation of a profile's elements | `Validate` down to `validateProfileExp`, and `EvalElem` down to `evalMap` and `FilterASCII`, as functions of an expression, recursive in its parts; `Read` validates a configuration, `Evaluate` evaluates an element of an accepted one. `Strings`, `Expressions` and `Values` are what configurations and records are made of, `Depth` says that expressions are trees. `Documented` is a second definition of every operator, by what it promises and not by how it is computed |
| `ZebriumExporter` | `pushLogs`, `sendLogs`, and the queue with its retries around them | one `pushes[w]` per consumer with the local variables of both functions; one action per answer of Zebrium. `sl_format` is the sequence of its parts between colons |
| `TimestreamExporter` | `pushMetrics`, `convertMetricsToRecords`, `convertAttrsToDimensions` | one `pushes[r]` per call; one step per batch; a record has its dimensions |
| `LogDelivery` | the promise of the pipeline: a FIFO channel per stream that may lose records but accounts for them | abstract; `pending`, `arrived`, `lost`; `Accept`, `Arrive`, `Lose` |
| `Pipeline` | the processor and the Zebrium exporter, EXTENDS the one and instantiates the other | `Handover`: the step in which `sendItems` calls the next consumer is `Offer` of the exporter's queue, and its answer decides whether the request `failed`. All other steps are of one component and leave the other alone |
| `MC...` | the instance of each, for TLC | |
| `Subsequences` | `Without`: a sequence with some of its elements left out | no code of its own: what `LogDelivery`, `Pipeline` and `ConfigExpression` share |
| `SlLogFormatProcessorProofs`, `SplitLogsProofs`, `MatchProfileProofs`, `ConfigExpressionProofs`, `ZebriumExporterProofs`, `TimestreamExporterProofs`, `PipelineProofs` | the theorems about the module of that name; the first holds those of `BatchLogs` too | |
| `RecursionTheorems` | induction over numbers, sequences and trees, functions by recursion over them, and what `FlattenSeq` and `Without` return | no code: the theorems that the proofs about loops over data rest on |

`SlLogFormatProcessor` composes the batch with its channel, timer and goroutine, and
`Pipeline` composes that with the exporter. Both `BatchLogs` and `SlLogFormatProcessor`
are shown to implement `StreamBuffer` by a refinement mapping (a record in the request
being built or in its group is in the queue, a record given to the next consumer is
shipped), and `Pipeline` to implement `LogDelivery` (pending is what the queue and the
workers have not stored yet, then what the batch is sending, then the group; arrived is
the first copy of what Zebrium stored; lost is what was refused or given up).

Definitions marked as mutants ("As it would be if ...", "Mutant: ...") are plausible bugs of the
definition after them. They are in no specification; each property was checked to
fail when one of them takes that definition's place, which is listed in
PROJECT.json.

## 3. What is checked

| run | question | instance |
|---|---|---|
| `Processor` | In any order of 2 receivers, timer and Shutdown: is every trigger served, the timer never lost, nothing lost by Shutdown, every payload settled, every stream in order? | channel of 1 (a receiver really blocks), sizes 2 and 3, payloads of 7, 3 and 0 records: two sends by size from one payload with a rest, partial groups for the timeout, both streams in one flush |
| `ProcessorSizeZero` | finding | `send_batch_size` 0, accepted by `Validate` |
| `Split` | Is every entry cut exactly at the size, with nothing lost and no scope emptied, and is a short entry returned as it is? | every entry of up to 3 scopes of up to 3 records, every size from 1 to 7: cuts before, in and behind a scope |
| `Match` | Does the first match decide, without traces of the profiles before it, is the key made of exactly its values, and is the severity the one the profile gives? | all sequences of up to 3 of 10 profiles: one for each way to fail, each way to give a severity, and elements that share an id |
| `MatchSeverity` | finding | two profiles |
| `Expression` | Can every element of an accepted configuration be evaluated, and does each of the ten operators return what its description says? | every operator on all choices of up to 2 of 13 sources, and of 3 of the 8 whose values differ; operators in operators, patterns that are bare or nil; good and bad elements, with and without `rename` and `validate`, in each place of a profile, labels and second profiles included; 3 records, with maps, slices and JSON |
| `ExpressionPath` | finding | sources without a key path |
| `Zebrium` | Is what is acknowledged stored, once an attempt at most and nothing ahead of a failed entry; does one expiry do no harm; does every request end? | one consumer, a queue of 1 (so requests are refused too), 2 attempts, tokens that expire twice, lost answers and failed calls; a good request, one with an entry that can never be sent and one that crashes the exporter |
| `ZebriumStatus` | finding | answers with a status that is neither 2xx nor 401 |
| `Timestream` | Is every failure of a batch remembered and every batch tried, over two calls, and has what is stored its own attributes? | batches of 3; a full batch and a bit, exactly a full batch, and a request with a monotonic sum; attributes of point, resource and scope, with illegal characters, without a value, without a name |
| `TimestreamAcked` | finding | as above, one call |
| `Pipeline` | From `ConsumeLogs` to Zebrium: does each stream arrive in order, with every record delivered, skipped or counted as lost, and does each end? Is `logCount` the longest group, every entry bounded, every stream whole, the format that of an earlier record? | 1 caller; payloads of 3 and 2 records: a stream that is cut and refilled by a record of another format, and one whose profile has no format, so that the exporter can never send it; sizes 2 and 2, a queue of 1, 2 attempts, answers that get lost |

### 3.1 Bounds, and why they are enough

* `SendBatchSize`, `SendBatchMaxSize`, `BatchSize` (Timestream: 100 in the code):
  the code compares lengths with them and nothing else, so 2 and 3 show every
  branch and every boundary. The theorems hold for all values.
* `NewItemCap` is `runtime.NumCPU()`; with 1 and two callers the channel is empty,
  full, and full with a blocked sender.
* `MaxAttempts` stands for exporterhelper's elapsed-time limit; 2 makes a retry
  after a failure and a failure after a retry. `MaxEpoch` bounds how often
  tokens expire: 2 is what `alreadyRetried` distinguishes. `Pipeline` leaves expiry, and
  its run unreachable calls, to the run `Zebrium`: there a lost answer is what makes an attempt
  start over with something stored, which is what order and loss depend on.
* `Pipeline` has one worker: the order across requests is promised for one only. Two
  workers of the exporter share nothing but the queue and Zebrium.
* Requests of the Timestream exporter share nothing, so three of them stand for all.
* `Configs`: `Validate` looks at one element after the other, so all but the few profiles
  that are about the places of elements have a single one.
* Payloads are finite sets of distinct records: the properties of order and loss
  need records that can be told apart.

### 3.2 Fairness

* The goroutine runs on and the next consumer returns: WF of `Cycle`.
* An armed timer elapses: WF of `TimerFires`. How long it takes is not modelled, so
  the properties hold for every timeout.
* Go chooses among the ready branches of a select at random, and a branch that is
  ready again and again is taken at some time: SF of the three branches. Without
  it a receiver that always has a payload ready could keep the timer's branch
  from ever being chosen.
* Blocked senders of a channel are served first come, first served: SF of `Enqueue`.
* Workers of the exporters go on, their calls end by a timeout (30 s in
  `slzebriumexporter/factory.go`): WF of each. No request, expiry or crash is forced.
* No receiver must send, nobody must call Shutdown.

A call of `ConsumeLogs` that Shutdown overtakes is in the history `late`: it may block
for ever, or leave its payload in a channel that nobody reads. The collector shuts
receivers down before processors, so that `late` stays empty in practice;
`ShutdownLosesNothing` and `EventuallySettled` are about all other payloads. Payloads are
finite, so `ShutdownCompletes` says that any finite number of late calls does not keep
Shutdown from returning; an endless stream of them, which could keep the loop that drains
the channel busy, is outside of it. Whether a late call returns is not stated.

`ImplementsLogDelivery` is checked with one consumer of the exporter's queue. With the
default of several consumers requests of one stream do overtake each other. That is also
the hypothesis of `PipelineDelivers`.

`EventuallyDelivered` is about payloads, like `EventuallySettled`, and counts as ended what
was refused by the queue or given up: the code logs both and promises nothing more.

## 4. What the checks found

Runs with expected violations, each with a finding in PROJECT.json:

1. `send_batch_size: 0` passes `Validate` and turns the loop of `processItem`
   into an endless one over empty requests (`ProcessorSizeZero`).
2. A profile that fails at its message has already set the record's severity; a later
   profile that takes the severity from the record reports it (`MatchSeverity`).
3. `attr` or `rattr` without a key path is accepted and crashes the collector on the
   first record (`ExpressionPath`).
4. Every HTTP status but 401 counts as success (`ZebriumStatus`).
5. The last record of every full Timestream batch is never written, and the request
   is acknowledged (`TimestreamAcked`).

Met on the way, in the models but without a run of their own because one call shows
them: a literal regexp pattern without text, or an empty one, crashes the validation
(`config.go:170`; `ValidationCountsFirst` shows that nothing else does); a record
without `sl_msg` crashes the Zebrium exporter before the error meant for it
(`zebrium_exporter.go:146`); a monotonic sum crashes the Timestream exporter
(`exporter.go:86`); records of one stream whose profiles have different formats are
delivered under the format of the first (`batch_logs.go:139`, which is what
`FormatOfEarlierRecord` says exactly); elements of one id overwrite each other in the key of
the stream (`match_profile.go:409`, `RequestOfMatch`); two attributes of one name, or of
names that differ in illegal characters, become two Timestream dimensions of one name
(`DimensionsOfPoint`); an attribute whose name begins with a dot is found by no key path
(`match_profile.go:215`, where the empty first part is lost; hence `Reachable` in
`KeysAreReachable`); `common_attributes` and `max_records_per_batch` of the Timestream
exporter are read by nothing; a profile without a format passes `Validate` and makes
entries that the Zebrium exporter refuses at every attempt, with all behind them in the
request (`EventuallyDelivered` shows that the queue goes on); the Zebrium exporter
looks at `sl_format` up to its first colon when it checks that it knows the format
(`logging_exporter.go:61-71`), but at all of it when it chooses the path
(`zebrium_exporter.go:94-99`); `unescape`
("Filter out ESC character", `sllogformatprocessor/README.md:60`) never has an effect,
since `FilterASCII` has made `\033` of every ESC before an operator sees it, which is why
`Documented` asks of it that its operand has no ESC and is returned; `replace` is an
operator that no README lists, described from its code only; retries and
the queue are enabled where the comment at `slzebriumexporter/factory.go:72` says they
are disabled, so entries may be stored twice (`StoredOncePerAttempt` says how often).

## 5. What is proved

Every theorem is about all values of the constants, under the assumptions named in the
module, which give the constants their types and state nothing else, but for these:
`ProcessorAssumption` has the condition on the two sizes that `Config.Validate` checks;
`SplitAssumption` says that the size is not 0, as `export` calls `splitLogs` with
`send_batch_max_size` only when that is positive; `PipelineAssumption` that a log record is
an object of its own, in one payload; `ExpressionAssumption` that the expressions of a
configuration are finite trees, which is what YAML is read into; `StringAssumption`
that a string may have the characters the code writes itself, and `CharacterAssumption`
which of these are letters, digits or in lower case. TLC evaluates the assumptions on every
run.

| theorem | says |
|---|---|
| `BatchTypeCorrect`, `LogCountCorrect`, `EntriesCorrect`, `StreamOrderCorrect` | the invariants of the batch |
| `BatchImplementsBuffer` | `BatchSpec => SB!SBSpec` |
| `TypeCorrect`, `SizeTriggerCorrect`, `TimerCorrect`, `RequestCorrect`, `ShutdownCorrect` | the invariants of run `Processor` |
| `FlushCorrect` | `Spec => FlushIsComplete`, an action property |
| `ProcessorImplementsBuffer` | the whole processor implements `StreamBuffer` |
| `SplitAtSize`, `NothingIsLost`, `NoScopeIsEmptied` | the invariants of run `Split`, for entries of any shape and every size; an entry no longer than the size is the result, and keeps its records |
| `GroupIsCut` | a group of the batch (an entry of one scope) that is longer than the size is cut into one with its first `size` records and one with the others: `SplitOff` and `SplitRest` of `BatchLogs` |
| `MatchTypeCorrect`, `FirstProfileWins`, `EmptyLinesClassified`, `RequestOfMatchingProfile`, `SeverityOfMatchingProfile` | the invariants of run `Match`, for any number of profiles, elements and labels |
| `ExporterTypeCorrect`, `StoredOnce` | `TypeOK` and `StoredOncePerAttempt` of run `Zebrium`, for any number of workers, requests, attempts and expirations |
| `AckedIsStored`, `StoredArePrefixes` | `AckedWasStored` and `StoredIsPrefix`, if no answer is "refused": with such answers they are false, which is finding 4 |
| `ExpiryIsAbsorbed` | `Spec => OneExpiryIsAbsorbed`, an action property |
| `RequestInOnePlace` | a request is in the queue, at one worker, acknowledged, dropped or refused: one of them |
| `TimestreamTypeCorrect`, `AckedRecordsWritten`, `FailuresDoNotStop`, `DimensionsAreOfThePoint` | the invariants of run `Timestream`, for requests of any length |
| `BatchesAreSlices` | `BatchesInBounds` for every `BatchSize` but 1: there the batches of the code are empty (100 in the code) |
| `BatchesTogether` | which records the batches of the loop are, and which one is left out of each full batch (finding 5) |
| `ProcessorUnchanged`, `ExporterUnchanged` | `PipelineSpec => Spec` and `PipelineSpec => Z!Spec`: each component of the pipeline behaves as it does alone, and no request of the processor crashes the exporter |
| `BatchInPipeline`, `FormatIsOfEarlierRecord` | the invariants of run `Pipeline`, for any number of workers |
| `PipelineDelivers` | `PipelineSpec => LD!LDSpec`: the pipeline implements `LogDelivery`, if the exporter has one worker and no answer is "refused" (finding 4) |
| `AcceptedThroughout` | `Spec => []AcceptedIsWellFormed`: in a configuration that `Validate` accepts every expression in every element, at every depth, is one the evaluation can work with (`IsWellFormed`: a known source, or an operator with as many expressions as it reads), and every `validate` pattern compiles |
| `ValidationIsCounted` | `ValidationCountsFirst` of run `Expression`, for expressions of any depth and width |
| `AcceptedIsEvaluated`, `KeysAreReached`, `OperatorsHold`, `ValuesPrint` | the other invariants of run `Expression`, if `CapturesAreParts`: what the groups of a pattern match of a string is made of characters of it |

**The batch.** `BatchInv` is the conjunction of the four invariants; none of them is
inductive alone. `StreamOrder` needs `EntriesWellFormed`, that a stream has no entry in
the request while its key is still to be visited, or taking its group would overwrite one;
`LogCountIsLongest` during an export is about the groups already passed only, and
needs that groups are not empty. The steps are proved one by one, with lemmas about
`Put`, `Delete` and about cutting and joining sequences.

**The processor.** Every step is an operation of the batch or leaves it alone
(`BatchView`), so `BatchInv` carries over. `ProcessorInv` adds where the control
and the batch agree (`OpFollowsPc`), when the timer may be off (`TimerInv`), what
holds of the sizes in each place (`SizeInv`), and for Shutdown what may still be in the
channel (`ShutdownInv`) and that every payload passed on is in a call, in the channel or
placed record by record (`LocatedInv`). `SizeInv` carries the argument for a complete
flush: the flush starts with all groups below `send_batch_size`, hence not above
`send_batch_max_size`, so no group is split and each is deleted; this is where
the condition in `Validate` is needed. `send_batch_size` 0 is excluded in the
properties, not in the assumptions: the first finding is about it.

**splitLogs.** `SplitInv` says that the counter of the nested callbacks is the number of
records moved and never exceeds the size, and in each place of the code how the source is
made up. In the outer callback (`PlaceInv`) it is what moved, then what was kept, then the
scopes not reached, and nothing is kept while there is room. In the inner one (`CutInv`) the
scope being cut stands between, its two parts under one scope, and has more records than
there is room for, so that it never ends up empty. Each callback is then a lemma that
regroups a concatenation (`RegroupKept`, `RegroupMoved`, `RegroupCut`, `RegroupRecordMoved`). `GroupIsCut` adds that an
entry of one scope stays in one piece each (`OneScopeInv`): it justifies that `BatchLogs` takes
the call of `splitLogs` as two subsequences.

**MatchProfile.** `SearchInv` is that all profiles passed over fail (`PassedOver`), what the
search knows of the profile at hand at each of its stages, the ids gathered being exactly
those of its elements so far (`ProfileInv`), and that a result is that of the profile at
which the loop stopped (`ResultInv`). What an earlier profile left behind would be an id
that no element of the present one has: `ProfileInv` is what excludes it.

**The Zebrium exporter.** Four invariants on top of the types. `InOnePlace`: a request is
with one worker at most, so what one stores of it no other repeats. `CallsInRange` and
`SentSoFar`: in front of the entry at hand everything was stored, in this attempt.
`TokensInOrder`: a token is not older than the call of `sendLogs` that holds it, and a
refreshed one is newer, so a second 401 needs a second expiry. `StoredOncePerAttempt` is
inductive with these: the copies of an entry are counted with the cardinality of a set of
indices, which grows by one at a post and only there.

**The Timestream exporter.** `LoopInv`: what `WriteRecords` was called with are the batches
in front of the index, and while no failure is remembered all of that is at Timestream.
`BatchesTogether` then says what all batches are together; it needs the arithmetic of
`pushMetrics` (`NumBatches` rounds up, each batch ends one short).

**The pipeline.** That each component goes on as it does alone is proved by step
simulation; for the exporter it needs that no call crashes (`ExporterInv`), which follows
from what `addToBatch` puts into every entry. `FormatOfEarlierRecord` needs three
invariants. `OnceInv`: a record is at one place on its way from a receiver into its stream,
so its place in the stream is unique. `FormatInv`: the format of a group or an entry is that
of a record no later in the stream than its first, which is kept when a group is cut since
the first record of the rest comes later. `OrderInv` carries that over to the requests in
the exporter's queue; it holds because a stream and what was handed over of it grow at
the end only. TLC checked each invariant before it was proved.

**The pipeline delivers.** The mapping makes `pending` of a stream out of three parts:
what the requests in the queue and at the worker have not stored yet, then the request being
built, then the group. That a step changes it as `Arrive` or `Lose` do, and every other step
not at all, needs `DeliveryInv`. `StreamInv`: no record is twice in a stream or in two of
them, so leaving out one entry's records leaves the others alone. `EntriesInv`: an entry that
entered the queue holds records that were handed over and not refused, a request has one
entry of a stream at most, and no two entries share a record. `WorkInv`: what is outstanding
is the request at the worker and then the queue, in the order in which they came; this is
where one worker is needed, and why an entry that is stored for the first time is the front of
its stream (`StoresMaps`). An entry stored again by a later attempt is a stutter. `SentSoFar` of
the exporter says that everything in front of the entry at hand was stored, so that a request
that is acknowledged leaves nothing behind (`AcksMaps`). With "refused" answers this is false:
records the request had not stored would be pending no more and counted nowhere. A request
that is given up loses exactly what it had not stored (`DropsMaps`), one that the queue refuses
all of it (`RefusesMaps`).

**Expressions.** `ConfigInv` only says that the state holds a configuration, its verdict, then
one result; the theorems are about the functions. `validateProfileExp`, `evalExp` and
`PartsOf` are recursive in the parts of an expression: `TreeRecursion` gives them their values
(`validateProfileExpIs`, `evalExpIs`, `PartsOfParts`), `TreeInductionSet` what holds at every
depth. `ValidationIsCounted`, `AcceptedThroughout` and `AcceptedIsEvaluated` follow the
verdict down: an operation that is accepted has as many expressions as it reads
(`CountedHasArity`), and its parts are accepted (`PartsAreWellFormed`); one at which the
validation crashes has been counted before. `KeysAreReached` walks the search of `evalMap`
part by part: until the last part of a key the path built so far is a strict beginning of it,
which is no key unless it is `Hidden` (`KeyIsFound`, used twice for a key in a map).

`OperatorsHold` shows that what each operator computes is what `Documented` says
(`ApplyIsDocumented`), from lemmas about sequences. The filters keep a subsequence in which
every character that passes is found as often as before, by counting. A join (`regexp`, `and`)
is described by the place at which each piece starts, which the joined sequence only grows
behind. `rmtail` needs the last place at which one sequence occurs in another. `replace` is
computed from left to right with a count of positions to skip, and described by which places
an occurrence covers; `SkippedIsCovered` says that the two agree after every position.

**Induction over data.** The induction theorems of the proof library have an operator for
parameter, which the provers cannot instantiate. `RecursionTheorems` states those that are
needed with a set in its place (`NatInductionSet`, `SeqInductionSet`, `TreeInductionSet`): a
set of numbers that has 0 and with each number the next is all numbers. From these follow the
values of recursive functions of numbers and of trees (`NatRecursion`, `TreeRecursion`), that
`FlattenSeq` has exactly the elements of its parts, each in its place, and what `Without`
leaves. The models write their loops over data as recursive functions and joins, so that
this applies.

**Only model-checked.** `EventuallySettled`, `ShutdownCompletes`, `EventuallyDelivered`,
`EveryRequestEnds`, `EveryPushEnds`: liveness under fairness is outside what the prover can
show. The runs with findings are about single instances by nature. Every other property of
a run is a theorem. The hypotheses of theorems that are not named assumptions are in the
table: one worker and no "refused" answer for `PipelineDelivers`, no "refused" answer for
`AckedIsStored` and `StoredArePrefixes`, `BatchSize` other than 1 for `BatchesAreSlices`, and
`CapturesAreParts`.

## 6. What is not modelled, and why

* Durations, the text of messages, logging, `dumpLogRecord`, the telemetry stubs, the
  verbosity of the exporters' logs: no property is about them.
* `ConsumeTraces` and `ConsumeMetrics` of the processor: no factory registers them.
* JSON encoding and SHA-1 of the stream key: two requests that differ are assumed to have
  two keys; a record whose key cannot be encoded is skipped like one without a match.
* Which strings a regular expression matches (constants `Compiles`,
  `FindStringSubmatch`, `Matches`), and which characters are letters, digits or lower case
  (`AlphaNum`, `ToLower`).
* The AWS session and the HTTP client: the set-up of libraries.
* `nextToken` and the table `ops` of `match_profile.go`, which nothing calls.
* exporterhelper's own shutdown, which drains or drops the queue: external.
* The checks of the exporters' configurations: of single values, without state.
* Defaults of the configurations, which are values of constants here, and unmarshalling.

External, modelled from how the code uses it: the collector's calls, the timer,
exporterhelper's queue and retries, Zebrium, `WriteRecords`, `strings.Replace`,
`strings.LastIndex`, the behaviour of pdata values that are invalid.

## 7. Plan

In the order of importance; 1 to 10 are done.

1. `StreamBuffer`, `BatchLogs`: the heart of the repository, its abstract
   specification, invariants and refinement, proved.
2. `SlLogFormatProcessor`: concurrency, timer, Shutdown; liveness by TLC, safety proved.
3. `SplitLogs`, `MatchProfile`, `ConfigExpression`: what the batch calls, and
   `Config.Validate` with the elements it must check for them.
4. `ZebriumExporter`, `TimestreamExporter`: failures and retries, dimensions.
5. `Pipeline`: the processor with the exporter's queue, end to end.
6. The key of a stream: what it says of a record (`RequestOfMatch`).
7. Theorems about all modules (section 5).
8. The refinement of `LogDelivery` by the pipeline, for one worker (`PipelineDelivers`).
9. `ConfigExpression` with recursive functions, and its properties for expressions of any
   depth.
10. `BatchLogs` over `SplitLogs`: what `SplitOff` and `SplitRest` assume of an entry with one
    scope, as a theorem about `SplitLogs` (`GroupIsCut`).

Left:

11. The shutdown of the exporters' queue, once the collector's promise about it is clear.

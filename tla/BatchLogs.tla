----------------------------- MODULE BatchLogs -----------------------------
(***************************************************************************)
(* The batch kept by the log format processor: batch_logs.go, and          *)
(* splitLogs of splitlogs.go which it calls.  logData maps the key of a    *)
(* log stream to the plog.ResourceLogs that collects the stream's records; *)
(* add() appends records to it, export() moves groups of records, split at *)
(* sendBatchMaxSize, into one request and hands that to the next consumer. *)
(*                                                                         *)
(* Only the processor's goroutine runs these operations, one at a time, so *)
(* `op' says which operation is in progress.  A step is one callback of    *)
(* addToBatch or one iteration of the range loop in export, which other    *)
(* threads of the processor (module SlLogFormatProcessor) interleave with. *)
(*                                                                         *)
(* A record is an opaque value.  What MatchProfile and the hash of the     *)
(* stream metadata make of it is given by the constants StreamOf (the key, *)
(* or NoMatch when MatchProfile returns an error or the key cannot be      *)
(* marshalled) and FormatOf (the format of the profile that matched).      *)
(***************************************************************************)
EXTENDS Naturals, Sequences

CONSTANTS Record,           \* log records
          Stream,           \* keys: sha1 of stream metadata and resource attributes
          NoMatch,          \* MatchProfile failed: the record is skipped
          Format,           \* values of sl_format
          StreamOf,         \* [Record -> Stream \cup {NoMatch}]
          FormatOf,         \* [Record -> Format]
          Payloads,         \* the plog.Logs the receivers produce, flattened
          SendBatchMaxSize  \* cfg.SendBatchMaxSize; 0: entries are not split

ASSUME BatchAssumption ==
  /\ NoMatch \notin Stream
  /\ StreamOf \in [Record -> Stream \cup {NoMatch}]
  /\ FormatOf \in [Record -> Format]
  /\ Payloads \subseteq Seq(Record)
  /\ SendBatchMaxSize \in Nat

VARIABLES
  logData,    \* batchLogs.logData: the groups, a map from present keys
  logCount,   \* batchLogs.logCount
  op,         \* the operation in progress
  todo,       \* addToBatch: the records of the payload not visited yet
  visit,      \* export: the keys the range loop has not reached yet
  req,        \* export: the request built so far, at most one entry a stream
  added,      \* history: added[s] are the records placed in s, in order
  handed,     \* history: handed[s] are the records given to nextConsumer
  skipped,    \* history: the records MatchProfile rejected
  failed      \* history: the records of requests nextConsumer refused

batchVars == <<logData, logCount, op, todo, visit, req,
               added, handed, skipped, failed>>
----------------------------------------------------------------------------
(* Helpers on maps (Go maps are functions on the set of present keys).     *)

EmptyMap == [s \in {} |-> <<>>]
Put(m, s, e) == [k \in DOMAIN m \cup {s} |-> IF k = s THEN e ELSE m[k]]
Delete(m, s) == [k \in DOMAIN m \ {s} |-> m[k]]
RecordsIn(m, s) == IF s \in DOMAIN m THEN m[s].records ELSE <<>>

Entry == [format : Format, records : Seq(Record)]

\* Mutant: sl_format is set for every record.
GroupForRelabels(m, s, r) == [format |-> FormatOf[r], records |-> RecordsIn(m, s)]

\* The new group made for the first record of a stream: dest, with sl_format.
GroupFor(m, s, r) == IF s \in DOMAIN m THEN m[s]
                     ELSE [format |-> FormatOf[r], records |-> <<>>]

LastLength(n) == n                                        \* mutant
AtLeast(n) == IF n > logCount THEN n ELSE logCount
----------------------------------------------------------------------------
BatchInit ==
  /\ logData = EmptyMap
  /\ logCount = 0
  /\ op = "idle"
  /\ todo = <<>>
  /\ visit = {}
  /\ req = EmptyMap
  /\ added = [s \in Stream |-> <<>>]
  /\ handed = [s \in Stream |-> <<>>]
  /\ skipped = {}
  /\ failed = {}

\* add(item): a payload without records returns early.
Add(ld) ==
  /\ op = "idle"
  /\ op' = IF Len(ld) = 0 THEN "idle" ELSE "add"
  /\ todo' = ld
  /\ UNCHANGED <<logData, logCount, visit, req, added, handed, skipped, failed>>

\* The end of one callback of addToBatch: the record leaves the payload.
NextRecord ==
  /\ op = "add"
  /\ todo' = Tail(todo)
  /\ op' = IF Len(todo) = 1 THEN "idle" ELSE "add"
  /\ UNCHANGED <<visit, req, handed, failed>>

\* addToBatch, error branch: MatchProfile found no profile, or no message.
SkipRecord ==
  /\ NextRecord
  /\ StreamOf[Head(todo)] = NoMatch
  /\ skipped' = skipped \cup {Head(todo)}
  /\ UNCHANGED <<logData, logCount, added>>

\* addToBatch: the record moves to the group of its stream, which is created
\* on demand, and logCount follows the longest group.
PlaceRecord ==
  /\ NextRecord
  /\ StreamOf[Head(todo)] # NoMatch
  /\ LET r == Head(todo)
         s == StreamOf[r]
         dest == GroupFor(logData, s, r)
         grown == [dest EXCEPT !.records = Append(@, r)]
     IN  /\ logData' = Put(logData, s, grown)
         /\ logCount' = AtLeast(Len(grown.records))
         /\ added' = [added EXCEPT ![s] = Append(@, r)]
  /\ UNCHANGED skipped
----------------------------------------------------------------------------
\* splitLogs on a group, which has a single scope: the first `size' records
\* move to the result, the others stay.
SplitOff(size, records) == SubSeq(records, 1, size)
SplitRestOverlaps(size, records) == SubSeq(records, size, Len(records)) \* mutant
SplitRest(size, records) == SubSeq(records, size + 1, Len(records))

MustSplitAtMax(n) == SendBatchMaxSize > 0 /\ n >= SendBatchMaxSize   \* mutant
MustSplit(n) == SendBatchMaxSize > 0 /\ n > SendBatchMaxSize

\* export(): logCount starts over, the range loop has all keys before it.
Export ==
  /\ op = "idle"
  /\ op' = "export"
  /\ logCount' = 0
  /\ visit' = DOMAIN logData
  /\ req' = EmptyMap
  /\ UNCHANGED <<logData, todo, added, handed, skipped, failed>>

\* One iteration of the range loop, in the arbitrary order of a Go map.
VisitKey(s) ==
  /\ op = "export"
  /\ s \in visit
  /\ visit' = visit \ {s}
  /\ UNCHANGED <<op, todo, added, handed, skipped, failed>>

\* Mutant: the group is sent and stays in the map.
TakeGroupKeepsKey(s) ==
  /\ VisitKey(s)
  /\ ~MustSplit(Len(logData[s].records))
  /\ req' = Put(req, s, logData[s])
  /\ UNCHANGED <<logData, logCount>>

\* The group fits: it moves to the request as a whole and its key is deleted.
TakeGroup(s) ==
  /\ VisitKey(s)
  /\ ~MustSplit(Len(logData[s].records))
  /\ req' = Put(req, s, logData[s])
  /\ logData' = Delete(logData, s)
  /\ UNCHANGED logCount

\* The group is too long: its front moves, the rest stays under its key and
\* counts for the next export.
SplitGroup(s) ==
  /\ VisitKey(s)
  /\ MustSplit(Len(logData[s].records))
  /\ LET group == logData[s]
     IN  /\ req' = Put(req, s, [group EXCEPT !.records = SplitOff(SendBatchMaxSize, @)])
         /\ logData' = Put(logData, s, [group EXCEPT !.records = SplitRest(SendBatchMaxSize, @)])
         /\ logCount' = AtLeast(Len(group.records) - SendBatchMaxSize)

RequestRecords == UNION {{req[s].records[i] : i \in DOMAIN req[s].records} : s \in DOMAIN req}

\* The call of nextConsumer.ConsumeLogs.  On an error (`ok' is FALSE) the
\* processor logs a warning and forgets the request.
Send(ok) ==
  /\ op = "export"
  /\ visit = {}
  /\ op' = "idle"
  /\ req' = EmptyMap
  /\ handed' = [s \in Stream |-> handed[s] \o RecordsIn(req, s)]
  /\ failed' = IF ok THEN failed ELSE failed \cup RequestRecords
  /\ UNCHANGED <<logData, logCount, todo, visit, added, skipped>>
----------------------------------------------------------------------------
\* A payload is a fresh object: none of its records was added before.
Fresh(ld) == \A i \in DOMAIN ld :
               /\ ld[i] \notin skipped
               /\ \A s \in Stream : \A j \in DOMAIN added[s] : added[s][j] # ld[i]

\* The operations in any order the caller likes (the interface `batch').
BatchNext == \/ \E ld \in Payloads : Fresh(ld) /\ Add(ld)
             \/ SkipRecord
             \/ PlaceRecord
             \/ Export
             \/ \E s \in Stream : TakeGroup(s)
             \/ \E s \in Stream : SplitGroup(s)
             \/ \E ok \in BOOLEAN : Send(ok)

BatchSpec == BatchInit /\ [][BatchNext]_batchVars
----------------------------------------------------------------------------
(* Properties.                                                             *)

\* Every variable of the batch has its type; a record still being visited
\* (todo) and a key still to be visited exist only inside their operation.
BatchTypeOK ==
  /\ DOMAIN logData \subseteq Stream /\ logData \in [DOMAIN logData -> Entry]
  /\ DOMAIN req \subseteq Stream /\ req \in [DOMAIN req -> Entry]
  /\ logCount \in Nat
  /\ op \in {"idle", "add", "export"}
  /\ todo \in Seq(Record) /\ (todo = <<>> <=> op # "add")
  /\ visit \subseteq DOMAIN logData /\ (op # "export" => visit = {})
  /\ added \in [Stream -> Seq(Record)]
  /\ handed \in [Stream -> Seq(Record)]
  /\ skipped \subseteq Record
  /\ failed \subseteq Record

\* logCount is the length of the longest group, over the groups the range loop
\* has passed when an export is under way: the size trigger of processItem and
\* the flush of the timer read nothing else (batch_logs.go:53, 63, 149).
Counted == IF op = "export" THEN DOMAIN logData \ visit ELSE DOMAIN logData

LogCountIsLongest ==
  /\ \A s \in Counted : Len(logData[s].records) <= logCount
  /\ logCount > 0 => \E s \in Counted : Len(logData[s].records) = logCount

\* Per stream, nothing is lost, duplicated or reordered on the way from
\* addToBatch to nextConsumer: what was handed over, the entry being built and
\* the group that waits are together exactly what was added, in that order,
\* across any number of splits and refused requests.
StreamOrder ==
  \A s \in Stream : added[s] = handed[s] \o (RecordsIn(req, s) \o RecordsIn(logData, s))

\* The entries of a request are never empty and never longer than
\* SendBatchMaxSize (README.md:109-111): a key is present only with records, so
\* the test newCount > 0 at batch_logs.go:57 never fails, and a request takes
\* at most one entry of a stream from an export.
EntriesWellFormed ==
  /\ \A s \in DOMAIN logData : logData[s].records # <<>>
  /\ \A s \in DOMAIN req :
       /\ req[s].records # <<>>
       /\ SendBatchMaxSize > 0 => Len(req[s].records) <= SendBatchMaxSize
  /\ DOMAIN req \cap visit = {}
  /\ op # "export" => req = EmptyMap

\* The batch is a FIFO buffer per stream: a record in the request or in the
\* group waits, a record given to nextConsumer is shipped, in entries of at most
\* SendBatchMaxSize records (README.md:109-111).
Waiting == [s \in Stream |-> RecordsIn(req, s) \o RecordsIn(logData, s)]

SB == INSTANCE StreamBuffer WITH queue <- Waiting, shipped <- handed,
                                 MaxEntry <- SendBatchMaxSize

ImplementsStreamBuffer == SB!SBSpec
============================================================================

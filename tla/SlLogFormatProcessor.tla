----------------------- MODULE SlLogFormatProcessor -----------------------
(***************************************************************************)
(* The log format processor: sl_log_format_processor.go around the batch   *)
(* of module BatchLogs.                                                    *)
(*                                                                         *)
(*   receivers --ConsumeLogs--> newItem --> goroutine --export--> consumer *)
(*                                            ^   ^                        *)
(*                                     timer -+   +- shutdownC             *)
(*                                                                         *)
(* Callers of ConsumeLogs block while the channel newItem is full.  One    *)
(* goroutine (startProcessingCycle) selects between the channel, the timer *)
(* and the shutdown channel; `pc' says where in its code it is.            *)
(*                                                                         *)
(* External, from how this code uses them: the collector calls Start once, *)
(* then ConsumeLogs from several goroutines, then Shutdown once; calls of  *)
(* ConsumeLogs may be in progress then, or come later.  A timer with a     *)
(* channel is "off", "armed" or "fired" (its channel holds the tick); how  *)
(* long the timeout lasts is left out, it may fire any time.               *)
(***************************************************************************)
EXTENDS BatchLogs

CONSTANTS Caller,              \* goroutines of the receivers
          NoCall,
          NewItemCap,          \* the capacity of newItem: runtime.NumCPU()
          SendBatchSize        \* cfg.SendBatchSize

\* Config.Validate accepts a configuration exactly when the last conjunct
\* holds (config.go:230), SendBatchSize = 0 included.
ASSUME ProcessorAssumption ==
  /\ NoCall \notin Payloads
  /\ NewItemCap \in Nat \ {0}
  /\ SendBatchSize \in Nat
  /\ SendBatchMaxSize > 0 => SendBatchMaxSize >= SendBatchSize

VARIABLES
  unsent,     \* payloads the receivers have not passed to ConsumeLogs yet
  late,       \* history: payloads whose call had not returned by Shutdown
  calls,      \* calls[c]: the payload of c's ConsumeLogs call in progress
  newItem,    \* the channel newItem
  timer,      \* bp.timer
  shutdown,   \* the Shutdown call: "open", "closing" (waits), "returned"
  pc,         \* where the goroutine is
  caller,     \* processItem was called from "select" or from "drain"
  sent,       \* processItem's local variable sent
  trigger     \* which branch called sendItems

ctlVars == <<unsent, late, calls, newItem, timer, shutdown, pc, caller, sent,
             trigger>>
vars == <<batchVars, ctlVars>>
---------------------------------------------------------------------------
(* The tests and small steps of the goroutine; those named As... are       *)
(* mutants: the channel without a capacity, an itemCount that is not       *)
(* looked at, `if' for the loop of processItem, a drain that reads         *)
(* nothing, or goes back to select, and a resetTimer that does nothing.    *)

AsUnbounded == TRUE
HasRoom == Len(newItem) < NewItemCap
AsAlways == TRUE
AnyItems == logCount > 0
AsSentOnce == sent \/ logCount < SendBatchSize
BelowSize == logCount < SendBatchSize
AsNotDrained == TRUE
Drained == newItem = <<>>
AsSelecting == "select"
AfterDrain == "done"
AsNotReset == timer' = "off"
resetTimer == timer' = "armed"
---------------------------------------------------------------------------
Init ==
  /\ BatchInit
  /\ unsent = Payloads
  /\ late = {}
  /\ calls = [c \in Caller |-> NoCall]
  /\ newItem = <<>>
  /\ timer = "off"
  /\ shutdown = "open"
  /\ pc = "new"
  /\ caller = "select"
  /\ sent = FALSE
  /\ trigger = "size"

\* Start: the goroutine is spawned ...
Start ==
  /\ pc = "new"
  /\ pc' = "spawned"
  /\ UNCHANGED <<batchVars, unsent, late, calls, newItem, timer, shutdown, caller, sent, trigger>>

\* ... and makes its timer before the first select.
BeginCycle ==
  /\ pc = "spawned"
  /\ pc' = "select"
  /\ timer' = "armed"
  /\ UNCHANGED <<batchVars, unsent, late, calls, newItem, shutdown, caller, sent, trigger>>

\* Shutdown closes shutdownC and waits for the goroutine.
Shutdown ==
  /\ pc # "new"
  /\ shutdown = "open"
  /\ shutdown' = "closing"
  /\ late' = {calls[c] : c \in Caller} \ {NoCall}
  /\ UNCHANGED <<batchVars, unsent, calls, newItem, timer, pc, caller, sent, trigger>>

ShutdownReturns ==
  /\ shutdown = "closing"
  /\ pc = "done"
  /\ shutdown' = "returned"
  /\ UNCHANGED <<batchVars, unsent, late, calls, newItem, timer, pc, caller, sent, trigger>>

\* A receiver calls ConsumeLogs ...
ConsumeLogs(c, ld) ==
  /\ pc # "new"
  /\ calls[c] = NoCall
  /\ ld \in unsent
  /\ calls' = [calls EXCEPT ![c] = ld]
  /\ unsent' = unsent \ {ld}
  /\ late' = IF shutdown = "open" THEN late ELSE late \cup {ld}
  /\ UNCHANGED <<batchVars, newItem, timer, shutdown, pc, caller, sent, trigger>>

\* ... which returns nil once the channel has room for the payload.
Enqueue(c) ==
  /\ calls[c] # NoCall
  /\ HasRoom
  /\ newItem' = Append(newItem, calls[c])
  /\ calls' = [calls EXCEPT ![c] = NoCall]
  /\ UNCHANGED <<batchVars, unsent, late, timer, shutdown, pc, caller, sent, trigger>>

\* The timeout elapses: the runtime puts the tick into the timer's channel.
TimerFires ==
  /\ timer = "armed"
  /\ timer' = "fired"
  /\ UNCHANGED <<batchVars, unsent, late, calls, newItem, shutdown, pc, caller, sent, trigger>>
---------------------------------------------------------------------------
(* The goroutine.                                                          *)

\* An item is received and processItem begins: batch.add(item).
Receive(from) ==
  /\ pc = from
  /\ newItem # <<>>
  /\ newItem' = Tail(newItem)
  /\ Add(Head(newItem))
  /\ pc' = IF Len(Head(newItem)) = 0 THEN "check" ELSE "add"
  /\ caller' = from
  /\ sent' = FALSE
  /\ UNCHANGED <<unsent, late, calls, timer, shutdown, trigger>>

SelectItem == Receive("select")

\* The timer's branch: sendItems if there is anything, then resetTimer, which
\* for a flush comes after the call of the next consumer (see Flushed).
SelectTimer ==
  /\ pc = "select"
  /\ timer = "fired"
  /\ \/ /\ AnyItems
        /\ Export
        /\ pc' = "export"
        /\ trigger' = "timeout"
        /\ timer' = "off"
     \/ /\ ~AnyItems
        /\ resetTimer
        /\ UNCHANGED <<batchVars, pc, trigger>>
  /\ UNCHANGED <<unsent, late, calls, newItem, shutdown, caller, sent>>

SelectShutdown ==
  /\ pc = "select"
  /\ shutdown # "open"
  /\ pc' = "drain"
  /\ UNCHANGED <<batchVars, unsent, late, calls, newItem, timer, shutdown, caller, sent, trigger>>

\* The DONE loop receives what is left in the channel ...
DrainItem == Receive("drain")

\* ... and ends when the channel is empty, with a last sendItems.
DrainEnds ==
  /\ pc = "drain"
  /\ Drained
  /\ \/ /\ AnyItems
        /\ Export
        /\ pc' = "export"
        /\ trigger' = "shutdown"
     \/ /\ ~AnyItems
        /\ pc' = AfterDrain
        /\ UNCHANGED <<batchVars, trigger>>
  /\ UNCHANGED <<unsent, late, calls, newItem, timer, shutdown, caller, sent>>

\* addToBatch, one record after the other.
AddRecord ==
  /\ pc = "add"
  /\ SkipRecord \/ PlaceRecord
  /\ pc' = IF Len(todo) = 1 THEN "check" ELSE "add"
  /\ UNCHANGED <<unsent, late, calls, newItem, timer, shutdown, caller, sent, trigger>>

\* processItem's loop: while the longest group reaches sendBatchSize, send.
CheckSize ==
  /\ pc = "check"
  /\ logCount >= SendBatchSize
  /\ Export
  /\ pc' = "export"
  /\ sent' = TRUE
  /\ trigger' = "size"
  /\ UNCHANGED <<unsent, late, calls, newItem, timer, shutdown, caller>>

\* processItem returns; after a send it restarts the timer.  stopTimer waits
\* for the tick when Stop reports that the timer is not armed any more: with
\* a timer that is "off" no tick comes and the goroutine waits for ever.
ProcessItemReturns ==
  /\ pc = "check"
  /\ BelowSize
  /\ sent => timer \in {"armed", "fired"}
  /\ IF sent THEN resetTimer ELSE UNCHANGED timer
  /\ pc' = caller
  /\ UNCHANGED <<batchVars, unsent, late, calls, newItem, shutdown, caller, sent, trigger>>

\* export: the range loop over the groups.
ExportGroup ==
  /\ pc = "export"
  /\ \E s \in visit : TakeGroup(s) \/ SplitGroup(s)
  /\ UNCHANGED ctlVars

\* sendItems returns to the branch that called it: to the loop of processItem,
\* to the timer's branch, which resets the timer, or to the end of the cycle.
Flushed ==
  /\ pc = "export"
  /\ \E ok \in BOOLEAN : Send(ok)
  /\ pc' = CASE trigger = "size"     -> "check"
             [] trigger = "timeout"  -> "select"
             [] trigger = "shutdown" -> "done"
  /\ IF trigger = "timeout" THEN resetTimer ELSE UNCHANGED timer
  /\ UNCHANGED <<unsent, late, calls, newItem, shutdown, caller, sent, trigger>>

\* Shutdown has returned: the processor may stop for good.
Terminated ==
  /\ shutdown = "returned"
  /\ UNCHANGED vars
---------------------------------------------------------------------------
Cycle == \/ BeginCycle
         \/ AddRecord
         \/ CheckSize
         \/ ProcessItemReturns
         \/ ExportGroup
         \/ Flushed
         \/ DrainItem
         \/ DrainEnds

Next == \/ Start
        \/ Shutdown
        \/ ShutdownReturns
        \/ \E c \in Caller : \E ld \in unsent : ConsumeLogs(c, ld)
        \/ \E c \in Caller : Enqueue(c)
        \/ TimerFires
        \/ SelectItem
        \/ SelectTimer
        \/ SelectShutdown
        \/ Cycle
        \/ Terminated

Spec == Init /\ [][Next]_vars

\* The goroutine keeps running and the next consumer returns (WF of Cycle); an
\* armed timer elapses; a select that is reached again and again with a ready
\* branch takes that branch at some time, because Go picks among ready branches
\* at random (SF of each branch); the senders blocked on a channel are served
\* in the order of their arrival (SF of Enqueue).  Nothing makes a receiver
\* call or the collector shut down.
Fairness == /\ WF_vars(Cycle)
            /\ WF_vars(TimerFires)
            /\ WF_vars(ShutdownReturns)
            /\ SF_vars(SelectItem)
            /\ SF_vars(SelectTimer)
            /\ SF_vars(SelectShutdown)
            /\ \A c \in Caller : SF_vars(Enqueue(c))

FairSpec == Spec /\ Fairness
---------------------------------------------------------------------------
(* Properties.                                                             *)

TypeOK ==
  /\ BatchTypeOK
  /\ unsent \subseteq Payloads
  /\ late \subseteq Payloads
  /\ calls \in [Caller -> Payloads \cup {NoCall}]
  /\ newItem \in Seq(Payloads) /\ Len(newItem) <= NewItemCap
  /\ timer \in {"off", "armed", "fired"}
  /\ shutdown \in {"open", "closing", "returned"}
  /\ pc \in {"new", "spawned", "select", "add", "check", "export", "drain", "done"}
  /\ caller \in {"select", "drain"}
  /\ sent \in BOOLEAN
  /\ trigger \in {"size", "timeout", "shutdown"}

\* Whenever the goroutine waits for the next event, the longest group is below
\* sendBatchSize: the size trigger is never left pending until the timeout,
\* however long the payloads and however often a group was split
\* (README.md:105-106, the loop at sl_log_format_processor.go:153-156).
SizeTriggerServed ==
  SendBatchSize > 0 /\ pc \in {"select", "drain"} => logCount < SendBatchSize

\* The timer is never lost: while the goroutine waits in select or is about to
\* stop the timer in processItem, the timer is armed or its tick is in the
\* channel.  Otherwise a partial batch would wait for ever, or stopTimer would
\* block the goroutine on a tick that never comes
\* (sl_log_format_processor.go:141-145, 158-168).
TimerNeverLost ==
  pc \in {"select", "add", "check", "drain"} => timer \in {"armed", "fired"}

\* The next consumer is never called with a request without records: the
\* guards at sl_log_format_processor.go:130, 142 and 153 read logCount only, and
\* export sends whatever its loop has collected.
NoEmptyRequest ==
  SendBatchSize > 0 /\ pc = "export" /\ visit = {} => RequestRecords # {}

\* A flush by the timer or by Shutdown sends the whole batch: no group is long
\* enough to be split, so nothing waits for another timeout (README.md:107-108),
\* and the single sendItems before the goroutine ends leaves nothing behind.
FlushIsComplete ==
  [][Flushed /\ trigger # "size" /\ SendBatchSize > 0 => DOMAIN logData' = {}]_vars

SettledRecords ==
  skipped \cup UNION {{handed[s][i] : i \in DOMAIN handed[s]} : s \in Stream}

AllSettled(ld) == {ld[i] : i \in DOMAIN ld} \subseteq SettledRecords

\* When Shutdown has returned, every record of a payload that ConsumeLogs had
\* accepted before Shutdown was called was given to the next consumer or was
\* skipped by MatchProfile (sl_log_format_processor.go:119-135), whatever calls
\* were in progress or came later.
ShutdownLosesNothing ==
  SendBatchSize > 0 /\ shutdown = "returned" =>
    \A ld \in Payloads \ (unsent \cup late) : AllSettled(ld)

\* Every record passed to ConsumeLogs is eventually given to the next consumer
\* or skipped: a batch is sent after the timeout regardless of its size
\* (README.md:107-108).  Only a call that Shutdown overtakes may be in vain.
EventuallySettled ==
  \A ld \in Payloads : (ld \notin unsent) ~> (AllSettled(ld) \/ ld \in late)

\* Shutdown waits until the goroutine is done (sl_log_format_processor.go:109),
\* which it is eventually, whatever is in the channel and in the batch, if the
\* calls that come after it are finitely many.
ShutdownCompletes == (shutdown = "closing") ~> (shutdown = "returned")
===========================================================================

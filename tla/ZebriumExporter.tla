-------------------------- MODULE ZebriumExporter --------------------------
(***************************************************************************)
(* The exporter slzebriumexporter: pushLogs posts the resource entries of  *)
(* a request to Zebrium one after the other, sendLogs fetches a stream     *)
(* token for each and refreshes it once when it is refused.                *)
(*                                                                         *)
(* External, from how factory.go uses it: exporterhelper keeps a bounded   *)
(* queue in front of pushLogs, several workers (num_consumers) take from   *)
(* it, and a request for which pushLogs returns an error is pushed again,  *)
(* from its first entry, until its time is up; MaxAttempts = 1 stands for  *)
(* retry_on_failure being disabled.  Zebrium accepts a post made with the  *)
(* token of the current epoch, and answers 401 to an older one.  Of its    *)
(* other answers those in Answers occur:                                   *)
(*   "accepted"     the logs are stored, the exporter reads the answer     *)
(*   "lost"         the logs are stored, the answer is not read            *)
(*   "unreachable"  no logs are stored, the call fails                     *)
(*   "refused"      no logs are stored, the status is neither 2xx nor 401  *)
(***************************************************************************)
EXTENDS Naturals, Sequences, FiniteSets

CONSTANTS Request, NoRequest,
          EntriesOf,     \* [Request -> Seq(entries)], see Malformed
          Worker,        \* the consumers of the queue
          QueueSize,     \* cfg.QueueSettings.QueueSize
          MaxAttempts,   \* how often a request is pushed before it is dropped
          Answers,
          MaxEpoch       \* bound: how often the tokens expire

NoToken == MaxEpoch + 1  \* the token "" of the code

\* A resource entry, as far as the exporter looks at it.  sl_format is what
\* strings.Split makes of it at its colons: one part at least, "" if there is no text.
ResourceEntry == [sl_metadata : BOOLEAN, sl_msg : {"present", "empty", "missing"},
                  sl_format : Seq(STRING) \ {<<>>}]

ASSUME ExporterAssumption ==
  /\ NoRequest \notin Request
  /\ QueueSize \in Nat \ {0}
  /\ MaxAttempts \in Nat \ {0}
  /\ Answers \subseteq {"accepted", "lost", "unreachable", "refused"}
  /\ MaxEpoch \in Nat
  /\ EntriesOf \in [Request -> Seq(ResourceEntry)]

VARIABLES
  queue,     \* the sending queue
  pushes,    \* pushes[w]: the pushLogs call of worker w
  epoch,     \* Zebrium: only tokens of this epoch are valid
  accepted,  \* Zebrium: the entries stored, <<request, index>>, in order
  order,     \* history: the requests in the order they entered the queue
  refused,   \* history: the requests turned away because the queue was full
  acked,     \* history: the requests for which pushLogs returned nil
  dropped,   \* history: the requests given up
  panicked   \* the collector crashed

vars == <<queue, pushes, epoch, accepted, order, refused, acked, dropped, panicked>>

\* A worker without a request.  In a call: i is the index of the loop, token,
\* alreadyRetried the variables of sendLogs, since the epoch in which sendLogs
\* was called for the entry (history).
Idle == [pc |-> "idle", request |-> NoRequest, attempt |-> 0, i |-> 0,
         token |-> NoToken, alreadyRetried |-> FALSE, since |-> 0]

Init ==
  /\ queue = <<>>
  /\ pushes = [w \in Worker |-> Idle]
  /\ epoch = 0
  /\ accepted = <<>>
  /\ order = <<>>
  /\ refused = {}
  /\ acked = {}
  /\ dropped = {}
  /\ panicked = FALSE

\* Mutant: the size of the queue is not looked at.
AsUnbounded == TRUE
HasRoom == Len(queue) < QueueSize

\* The exporter's ConsumeLogs: the request is queued, or refused when there is
\* no room.
Offer(r) ==
  /\ r \notin refused /\ \A k \in DOMAIN order : order[k] # r
  /\ IF HasRoom
     THEN /\ queue' = Append(queue, r)
          /\ order' = Append(order, r)
          /\ UNCHANGED refused
     ELSE /\ refused' = refused \cup {r}
          /\ UNCHANGED <<queue, order>>
  /\ UNCHANGED <<pushes, epoch, accepted, acked, dropped, panicked>>

Take(w) ==
  /\ pushes[w].pc = "idle"
  /\ queue # <<>>
  /\ queue' = Tail(queue)
  /\ pushes' = [pushes EXCEPT ![w] = [Idle EXCEPT !.pc = "entry", !.i = 1, !.attempt = 1,
                                                  !.request = Head(queue)]]
  /\ UNCHANGED <<epoch, accepted, order, refused, acked, dropped, panicked>>

\* The tokens expire.
Expire ==
  /\ epoch < MaxEpoch
  /\ epoch' = epoch + 1
  /\ UNCHANGED <<queue, pushes, accepted, order, refused, acked, dropped, panicked>>
----------------------------------------------------------------------------
(* pushLogs and sendLogs.                                                  *)

Entries(w) == EntriesOf[pushes[w].request]
Entry(w) == Entries(w)[pushes[w].i]

\* What the exporter cannot send: an entry without sl_metadata, with a record whose
\* sl_msg is empty, or with a sl_format whose first part is not one of the three it
\* knows.
getStreamTokenRequestFails(e) == ~e.sl_metadata
marshalLogsFails(e) == e.sl_msg = "empty"
validateResourceElemFails(e) == Head(e.sl_format) \notin {"message", "container", "event"}
Malformed(e) == \/ getStreamTokenRequestFails(e)
                \/ marshalLogsFails(e)
                \/ validateResourceElemFails(e)

\* marshalLogs takes the string of sl_msg before it looks whether the attribute
\* is there; the string of an absent value dereferences nil.
Crashes(e) == ~getStreamTokenRequestFails(e) /\ e.sl_msg = "missing"

\* Worker w's call goes on as p, which is all that changes.
Continue(w, p) ==
  /\ pushes' = [pushes EXCEPT ![w] = p]
  /\ UNCHANGED <<queue, epoch, order, refused, acked, dropped, panicked>>

\* The loop reaches an entry and checks it before any call; sendLogs looks its
\* token up in streamTokenMap, which nothing ever fills.
BeginEntry(w) ==
  /\ pushes[w].pc = "entry"
  /\ pushes[w].i <= Len(Entries(w))
  /\ IF Crashes(Entry(w))
     THEN /\ panicked' = TRUE
          /\ UNCHANGED <<queue, pushes, epoch, order, refused, acked, dropped>>
     ELSE Continue(w, IF Malformed(Entry(w))
                      THEN [pushes[w] EXCEPT !.pc = "failed"]
                      ELSE [pushes[w] EXCEPT !.pc = "send", !.token = NoToken,
                                             !.alreadyRetried = FALSE, !.since = epoch])
  /\ UNCHANGED accepted

\* getStreamToken, which fails on an error of the call or of its answer.
GetStreamToken(w) ==
  /\ pushes[w].pc = "send"
  /\ pushes[w].token = NoToken
  /\ \/ Continue(w, [pushes[w] EXCEPT !.token = epoch])
     \/ /\ "unreachable" \in Answers
        /\ Continue(w, [pushes[w] EXCEPT !.pc = "failed"])
  /\ UNCHANGED accepted

\* Mutant: alreadyRetried is set before it is looked at.
AsNeverRefreshed(p) == [p EXCEPT !.pc = "failed", !.alreadyRetried = TRUE]
AfterUnauthorized(p) == IF p.alreadyRetried
                        THEN [p EXCEPT !.pc = "failed"]
                        ELSE [p EXCEPT !.token = NoToken, !.alreadyRetried = TRUE]

\* The post is answered with 401: the token is refreshed, but only once.
Unauthorized(w) ==
  /\ pushes[w].pc = "send"
  /\ pushes[w].token # NoToken
  /\ pushes[w].token # epoch
  /\ Continue(w, AfterUnauthorized(pushes[w]))
  /\ UNCHANGED accepted

\* Mutants: an error of the call is logged and the loop goes on; sendLogs posts
\* again, up to four times, when the answer is not read.
AsIgnored(p, answer) == [p EXCEPT !.pc = "entry", !.i = @ + 1]
AsRepeated(p, answer) == IF answer = "accepted" \/ Len(accepted) > 3
                         THEN [p EXCEPT !.pc = "entry", !.i = @ + 1] ELSE p
AfterPost(p, answer) == IF answer \in {"accepted", "refused"}
                        THEN [p EXCEPT !.pc = "entry", !.i = @ + 1]
                        ELSE [p EXCEPT !.pc = "failed"]

\* The post is answered otherwise.  Every status but 401 is a success.
Post(w, answer) ==
  /\ pushes[w].pc = "send"
  /\ pushes[w].token = epoch
  /\ Continue(w, AfterPost(pushes[w], answer))
  /\ accepted' = IF answer \in {"accepted", "lost"}
                 THEN Append(accepted, <<pushes[w].request, pushes[w].i>>)
                 ELSE accepted

\* The loop is over: pushLogs returns nil.
PushLogsReturns(w) ==
  /\ pushes[w].pc = "entry"
  /\ pushes[w].i > Len(Entries(w))
  /\ acked' = acked \cup {pushes[w].request}
  /\ pushes' = [pushes EXCEPT ![w] = Idle]
  /\ UNCHANGED <<queue, epoch, accepted, order, refused, dropped, panicked>>

\* As it would be if a failed request went back to the end of the queue.
RetryRequeues(w) ==
  /\ pushes[w].pc = "failed"
  /\ pushes[w].attempt < MaxAttempts
  /\ queue' = Append(queue, pushes[w].request)
  /\ pushes' = [pushes EXCEPT ![w] = Idle]
  /\ UNCHANGED <<epoch, accepted, order, refused, acked, dropped, panicked>>

\* As it would be if the attempts were not counted.
RetryForever(w) ==
  /\ pushes[w].pc = "failed"
  /\ Continue(w, [pushes[w] EXCEPT !.pc = "entry", !.i = 1])
  /\ UNCHANGED accepted

\* pushLogs returned an error: exporterhelper pushes the request again ...
Retry(w) ==
  /\ pushes[w].pc = "failed"
  /\ pushes[w].attempt < MaxAttempts
  /\ Continue(w, [pushes[w] EXCEPT !.pc = "entry", !.i = 1, !.attempt = @ + 1])
  /\ UNCHANGED accepted

\* Mutant: the request is forgotten without being accounted for.
AsForgotten(w) == dropped
AfterLastAttempt(w) == dropped \cup {pushes[w].request}

\* ... or drops it.
GiveUp(w) ==
  /\ pushes[w].pc = "failed"
  /\ pushes[w].attempt = MaxAttempts
  /\ dropped' = AfterLastAttempt(w)
  /\ pushes' = [pushes EXCEPT ![w] = Idle]
  /\ UNCHANGED <<queue, epoch, accepted, order, refused, acked, panicked>>

Work(w) == \/ Take(w)
           \/ BeginEntry(w)
           \/ GetStreamToken(w)
           \/ Unauthorized(w)
           \/ \E answer \in Answers : Post(w, answer)
           \/ PushLogsReturns(w)
           \/ Retry(w)
           \/ GiveUp(w)

\* Every request was answered for and the exporter waits for the next one, or
\* nothing runs any more.
Quiet == /\ \/ panicked
            \/ queue = <<>> /\ \A w \in Worker : pushes[w].pc = "idle"
         /\ UNCHANGED vars

Next == \/ \E r \in Request : ~panicked /\ Offer(r)
        \/ \E w \in Worker : ~panicked /\ Work(w)
        \/ Expire
        \/ Quiet

Spec == Init /\ [][Next]_vars

\* A worker keeps going: its calls return, by the client's timeout of 30s at
\* the latest (factory.go).  Expirations are bounded and need no fairness.
FairSpec == Spec /\ \A w \in Worker : WF_vars(~panicked /\ Work(w))
----------------------------------------------------------------------------
(* Properties.                                                             *)

Push == [pc : {"idle", "entry", "send", "failed"}, request : Request \cup {NoRequest},
         attempt : 0..MaxAttempts, i : Nat, token : 0..NoToken,
         alreadyRetried : BOOLEAN, since : 0..MaxEpoch]

TypeOK ==
  /\ queue \in Seq(Request) /\ Len(queue) <= QueueSize
  /\ pushes \in [Worker -> Push]
  /\ \A w \in Worker : pushes[w].pc = "idle" <=> pushes[w].request = NoRequest
  /\ epoch \in 0..MaxEpoch
  /\ accepted \in Seq(Request \X Nat)
  /\ order \in Seq(Request)
  /\ panicked \in BOOLEAN
  /\ refused \subseteq Request /\ acked \subseteq Request /\ dropped \subseteq Request

\* The first time an entry is stored; the later ones are repetitions.
FirstArrival(j) == \A i \in 1..(j-1) : accepted[i] # accepted[j]

Stored(r, k) == \E j \in DOMAIN accepted : accepted[j] = <<r, k>>

\* A request that is reported as sent was stored, every entry of it: nil is what
\* lets exporterhelper forget the request (logging_exporter.go:104-111).
AckedWasStored ==
  \A r \in acked : \A k \in DOMAIN EntriesOf[r] : Stored(r, k)

\* Of a request that failed, Zebrium holds the entries up to some point and none
\* after it, whatever the attempts and refreshed tokens in between
\* (logging_exporter.go:77-109: the first error ends the loop).
StoredIsPrefix ==
  \A j \in DOMAIN accepted : accepted[j][2] > 1 =>
    \E i \in 1..(j-1) : accepted[i] = <<accepted[j][1], accepted[j][2] - 1>>

\* One expiry of the tokens never fails a request: sendLogs returns "Bad
\* Authorization" only when they expired twice while it was at work on the entry
\* (zebrium_exporter.go:83-128).
OneExpiryIsAbsorbed ==
  [][\A w \in Worker :
       Unauthorized(w) /\ pushes'[w].pc = "failed" => epoch >= pushes[w].since + 2]_vars

\* What Zebrium stores twice is what a retry of exporterhelper sends again: an
\* attempt posts every entry once at most, a refreshed token does not post it
\* again, and nothing behind the entry at hand is sent ahead
\* (zebrium_exporter.go:83-154, logging_exporter.go:77-109).
Copies(r, k) == Cardinality({j \in DOMAIN accepted : accepted[j] = <<r, k>>})

AttemptsToStore(p, k) == IF k < p.i \/ p.pc = "failed" THEN p.attempt ELSE p.attempt - 1

StoredOncePerAttempt ==
  \A r \in Request : \A k \in DOMAIN EntriesOf[r] :
    /\ Copies(r, k) <= MaxAttempts
    /\ \A w \in Worker :
         pushes[w].request = r => Copies(r, k) <= AttemptsToStore(pushes[w], k)

\* Every request in the queue is answered for in the end: acknowledged, or
\* dropped when its attempts are used up, poison included, unless a record
\* without sl_msg crashes the collector (zebrium_exporter.go:146).
EveryRequestEnds ==
  \A r \in Request :
    (\E k \in DOMAIN queue : queue[k] = r) ~> (r \in acked \cup dropped \/ panicked)
============================================================================

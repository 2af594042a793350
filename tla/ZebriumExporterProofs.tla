----------------------- MODULE ZebriumExporterProofs -----------------------
(***************************************************************************)
(* Theorems about the Zebrium exporter (module ZebriumExporter), for every *)
(* set of requests and workers, every length of a request, every size of   *)
(* the queue, every number of attempts and of expirations.                 *)
(***************************************************************************)
EXTENDS ZebriumExporter, SequenceTheorems, FiniteSetTheorems, TLAPS

----------------------------------------------------------------------------
(* Type correctness.                                                       *)

\* A request of the constants is a sequence of entries.
LEMMA EntriesType ==
  ASSUME NEW r \in Request
  PROVE  /\ EntriesOf[r] \in Seq(ResourceEntry)
         /\ Len(EntriesOf[r]) \in Nat
         /\ DOMAIN EntriesOf[r] = 1 .. Len(EntriesOf[r])
BY ExporterAssumption, LenProperties

\* The other constants.
LEMMA ConstantsType ==
  /\ NoRequest \notin Request
  /\ QueueSize \in Nat /\ QueueSize > 0
  /\ MaxAttempts \in Nat /\ MaxAttempts > 0
  /\ MaxEpoch \in Nat /\ NoToken = MaxEpoch + 1
  /\ NoToken \in 0..NoToken /\ 0 \in 0..MaxEpoch
  /\ 0 \in 0..MaxAttempts /\ 1 \in 0..MaxAttempts
BY ExporterAssumption DEF NoToken

\* A worker without a request.
LEMMA IdleType == Idle \in Push /\ Idle.pc = "idle" /\ Idle.request = NoRequest
BY ConstantsType DEF Idle, Push

\* The exporter starts well typed.
LEMMA InitTypeOK == Init => TypeOK
<1> SUFFICES ASSUME Init PROVE TypeOK
  OBVIOUS
<1>1. pushes \in [Worker -> Push]
      /\ \A w \in Worker : pushes[w].pc = "idle" <=> pushes[w].request = NoRequest
  BY IdleType DEF Init
<1>2. queue \in Seq(Request) /\ accepted \in Seq(Request \X Nat) /\ order \in Seq(Request)
  BY DEF Init
<1>3. Len(queue) <= QueueSize
  BY ConstantsType DEF Init
<1>4. QED
  BY <1>1, <1>2, <1>3, ConstantsType DEF Init, TypeOK

\* The call of a worker that is not idle is about a request.
LEMMA BusyWorker ==
  ASSUME TypeOK, NEW w \in Worker, pushes[w].pc # "idle"
  PROVE  pushes[w].request \in Request /\ pushes[w].request # NoRequest
BY ConstantsType DEF TypeOK, Push

\* A worker's step keeps the types when what it writes into its call has the type
\* of a call, with a request unless it is idle.
LEMMA CallTypeOK ==
  ASSUME TypeOK, NEW w \in Worker, NEW p \in Push,
         p.pc = "idle" <=> p.request = NoRequest,
         pushes' = [pushes EXCEPT ![w] = p]
  PROVE  /\ pushes' \in [Worker -> Push]
         /\ \A v \in Worker : pushes'[v].pc = "idle" <=> pushes'[v].request = NoRequest
BY DEF TypeOK

\* No step of the exporter changes the types.
LEMMA StepTypeOK == TypeOK /\ [Next]_vars => TypeOK'
<1> SUFFICES ASSUME TypeOK, [Next]_vars PROVE TypeOK'
  OBVIOUS
<1> USE ConstantsType
<1>1. ASSUME NEW r \in Request, Offer(r) PROVE TypeOK'
  <2>1. CASE HasRoom
    <3>1. queue' = Append(queue, r) /\ order' = Append(order, r)
      BY <1>1, <2>1 DEF Offer
    <3>2. queue \in Seq(Request) /\ order \in Seq(Request)
      BY DEF TypeOK
    <3>3. /\ queue' \in Seq(Request) /\ order' \in Seq(Request)
          /\ Len(queue') = Len(queue) + 1
      BY <3>1, <3>2, AppendProperties
    <3>4. Len(queue') <= QueueSize
      BY <3>2, <3>3, <2>1, LenProperties DEF HasRoom
    <3>5. QED
      BY <3>3, <3>4, <1>1, <2>1 DEF Offer, TypeOK
  <2>2. CASE ~HasRoom
    BY <1>1, <2>2 DEF Offer, TypeOK
  <2>3. QED
    BY <2>1, <2>2
<1>2. ASSUME NEW w \in Worker, Take(w) PROVE TypeOK'
  <2> DEFINE p == [Idle EXCEPT !.pc = "entry", !.i = 1, !.attempt = 1,
                               !.request = Head(queue)]
  <2>1. /\ Head(queue) \in Request /\ Tail(queue) \in Seq(Request)
        /\ Len(Tail(queue)) = Len(queue) - 1
    BY <1>2, HeadTailProperties DEF Take, TypeOK
  <2>2. Idle \in Push
    BY IdleType
  <2>3. p \in Push /\ p.pc # "idle" /\ p.request # NoRequest
    BY <2>1, <2>2 DEF Push
  <2>4. pushes' = [pushes EXCEPT ![w] = p]
    BY <1>2 DEF Take, p
  <2>5. queue' \in Seq(Request) /\ Len(queue') <= QueueSize
    BY <2>1, <1>2, LenProperties DEF Take, TypeOK
  <2>6. QED
    BY <2>3, <2>4, <2>5, <1>2, CallTypeOK DEF Take, TypeOK
<1>3. CASE Expire
  BY <1>3 DEF Expire, TypeOK
<1>4. ASSUME NEW w \in Worker, BeginEntry(w) PROVE TypeOK'
  <2> DEFINE p1 == [pushes[w] EXCEPT !.pc = "failed"]
             p2 == [pushes[w] EXCEPT !.pc = "send", !.token = NoToken,
                                     !.alreadyRetried = FALSE, !.since = epoch]
  <2>1. p1 \in Push /\ p2 \in Push /\ \A p \in {p1, p2} : p.pc # "idle" /\ p.request # NoRequest
    BY <1>4, BusyWorker DEF BeginEntry, TypeOK, Push
  <2>2. CASE Crashes(Entry(w))
    BY <1>4, <2>2 DEF BeginEntry, TypeOK
  <2>3. CASE ~Crashes(Entry(w))
    <3>1. PICK p \in {p1, p2} : Continue(w, p) /\ UNCHANGED accepted
      BY <1>4, <2>3 DEF BeginEntry
    <3>2. QED
      BY <3>1, <2>1, CallTypeOK DEF Continue, TypeOK
  <2>4. QED
    BY <2>2, <2>3
<1>5. ASSUME NEW w \in Worker, GetStreamToken(w) PROVE TypeOK'
  <2> DEFINE p1 == [pushes[w] EXCEPT !.token = epoch]
             p2 == [pushes[w] EXCEPT !.pc = "failed"]
  <2>1. epoch \in 0..NoToken
    BY DEF TypeOK
  <2>2. /\ p1 \in Push /\ p1.pc # "idle" /\ p1.request # NoRequest
        /\ p2 \in Push /\ p2.pc # "idle" /\ p2.request # NoRequest
    BY <1>5, <2>1, BusyWorker DEF GetStreamToken, TypeOK, Push
  <2>3. (Continue(w, p1) \/ Continue(w, p2)) /\ UNCHANGED accepted
    BY <1>5 DEF GetStreamToken
  <2>4. QED
    BY <2>2, <2>3, CallTypeOK DEF Continue, TypeOK
<1>6. ASSUME NEW w \in Worker, Unauthorized(w) PROVE TypeOK'
  <2> DEFINE p == AfterUnauthorized(pushes[w])
  <2>1. p \in Push /\ p.pc # "idle" /\ p.request # NoRequest
    BY <1>6, BusyWorker DEF Unauthorized, AfterUnauthorized, TypeOK, Push
  <2>2. QED
    BY <1>6, <2>1, CallTypeOK DEF Unauthorized, Continue, TypeOK
<1>7. ASSUME NEW w \in Worker, NEW answer \in Answers, Post(w, answer) PROVE TypeOK'
  <2> DEFINE p == AfterPost(pushes[w], answer)
  <2>1. pushes[w] \in Push /\ pushes[w].pc # "idle" /\ pushes[w].request \in Request
    BY <1>7, BusyWorker DEF Post, TypeOK
  <2>2. pushes[w].i \in Nat /\ pushes[w].i + 1 \in Nat
    BY <2>1 DEF Push
  <2>3. p \in Push /\ p.pc # "idle" /\ p.request # NoRequest
    BY <2>1, <2>2 DEF AfterPost, Push
  <2>4. accepted' \in Seq(Request \X Nat)
    BY <2>1, <2>2, <1>7, AppendProperties DEF Post, TypeOK
  <2>5. QED
    BY <1>7, <2>3, <2>4, CallTypeOK DEF Post, Continue, TypeOK
<1>8. ASSUME NEW w \in Worker, PushLogsReturns(w) \/ GiveUp(w) PROVE TypeOK'
  <2>1. pushes[w].request \in Request
    BY <1>8, BusyWorker DEF PushLogsReturns, GiveUp
  <2>2. QED
    BY <1>8, <2>1, IdleType, CallTypeOK
    DEF PushLogsReturns, GiveUp, AfterLastAttempt, TypeOK
<1>9. ASSUME NEW w \in Worker, Retry(w) PROVE TypeOK'
  <2> DEFINE p == [pushes[w] EXCEPT !.pc = "entry", !.i = 1, !.attempt = @ + 1]
  <2>1. pushes[w] \in Push /\ pushes[w].pc # "idle" /\ pushes[w].request \in Request
    BY <1>9, BusyWorker DEF Retry, TypeOK
  <2>2. pushes[w].attempt + 1 \in 0..MaxAttempts
    BY <1>9, <2>1 DEF Retry, Push
  <2>3. p \in Push /\ p.pc # "idle" /\ p.request # NoRequest
    BY <2>1, <2>2 DEF Push
  <2>4. QED
    BY <1>9, <2>3, CallTypeOK DEF Retry, Continue, TypeOK
<1>10. CASE UNCHANGED vars
  BY <1>10 DEF vars, TypeOK
<1>11. QED
  BY <1>1, <1>2, <1>3, <1>4, <1>5, <1>6, <1>7, <1>8, <1>9, <1>10 DEF Next, Work, Quiet

\* Every reachable state is well typed: the queue never exceeds its size, no
\* request is pushed more often than MaxAttempts, and a worker has a request
\* exactly when it is not idle.
THEOREM ExporterTypeCorrect == Spec => []TypeOK
BY InitTypeOK, StepTypeOK, PTL DEF Spec
----------------------------------------------------------------------------
(* The inductive invariants.                                               *)

Entered == {order[k] : k \in DOMAIN order}
Queued == {queue[k] : k \in DOMAIN queue}

\* A request is in one place: refused, in the queue, with one worker, acknowledged
\* or dropped; what Zebrium has stored is of requests that left the queue.
InOnePlace ==
  /\ refused \cap Entered = {}
  /\ Queued \subseteq Entered
  /\ \A j, k \in DOMAIN queue : queue[j] = queue[k] => j = k
  /\ \A w \in Worker : pushes[w].pc # "idle" =>
       /\ pushes[w].request \in Entered \ Queued
       /\ pushes[w].request \notin acked \cup dropped
       /\ \A v \in Worker : pushes[v].request = pushes[w].request => v = w
  /\ acked \cup dropped \subseteq Entered \ Queued
  /\ acked \cap dropped = {}
  /\ \A j \in DOMAIN accepted : accepted[j][1] \in Entered \ Queued

\* A call counts its attempts and entries from 1, and posts entries only.
CallsInRange ==
  \A w \in Worker : pushes[w].pc # "idle" =>
    /\ pushes[w].attempt >= 1 /\ pushes[w].i >= 1
    /\ pushes[w].pc = "send" => pushes[w].i <= Len(EntriesOf[pushes[w].request])

\* The token of a call is not older than the call of sendLogs, and one that was
\* refreshed is newer: an expiry came in between.
TokensInOrder ==
  \A w \in Worker : pushes[w].pc = "send" =>
    /\ pushes[w].since <= epoch
    /\ pushes[w].token # NoToken =>
         pushes[w].since <= pushes[w].token /\ pushes[w].token <= epoch
    /\ pushes[w].alreadyRetried =>
         /\ pushes[w].since < epoch
         /\ pushes[w].token # NoToken => pushes[w].since < pushes[w].token

\* The entries in front of the one at hand were stored, in this attempt.
SentSoFar ==
  \A w \in Worker : pushes[w].pc \in {"entry", "send"} =>
    \A k \in 1 .. pushes[w].i - 1 : Stored(pushes[w].request, k)
----------------------------------------------------------------------------
(* What the steps of a worker do.                                          *)

\* A step of worker w within its call.
WithinCall(w) ==
  /\ UNCHANGED <<queue, order, refused, acked, dropped>>
  /\ \A v \in Worker \ {w} : pushes'[v] = pushes[v]
  /\ pushes[w].pc # "idle" /\ pushes'[w].pc # "idle"
  /\ pushes'[w].request = pushes[w].request

\* An entry is begun, with a fresh token and flag, or it fails or crashes.
LEMMA BeginEntryEffect ==
  ASSUME TypeOK, NEW w \in Worker, BeginEntry(w)
  PROVE  /\ WithinCall(w) /\ UNCHANGED <<epoch, accepted>>
         /\ pushes[w].i <= Len(EntriesOf[pushes[w].request])
         /\ pushes[w].pc = "entry"
         /\ pushes'[w].i = pushes[w].i /\ pushes'[w].attempt = pushes[w].attempt
         /\ \/ pushes'[w].pc \in {"entry", "failed"}
            \/ /\ pushes'[w].pc = "send" /\ pushes'[w].token = NoToken
               /\ ~pushes'[w].alreadyRetried /\ pushes'[w].since = epoch
<1> DEFINE p1 == [pushes[w] EXCEPT !.pc = "failed"]
           p2 == [pushes[w] EXCEPT !.pc = "send", !.token = NoToken,
                                   !.alreadyRetried = FALSE, !.since = epoch]
<1>1. pushes \in [Worker -> Push]
  BY DEF TypeOK
<1>2. pushes' = pushes \/ pushes' = [pushes EXCEPT ![w] = p1] \/ pushes' = [pushes EXCEPT ![w] = p2]
  BY DEF BeginEntry, Continue
<1>3. UNCHANGED <<queue, order, refused, acked, dropped, epoch, accepted>>
  BY DEF BeginEntry, Continue
<1>4. pushes[w].pc = "entry" /\ pushes[w].i <= Len(EntriesOf[pushes[w].request])
  BY DEF BeginEntry, Entries
<1>5. CASE pushes' = pushes
  BY <1>3, <1>4, <1>5 DEF WithinCall
<1>6. CASE pushes' = [pushes EXCEPT ![w] = p1]
  BY <1>1, <1>3, <1>4, <1>6 DEF WithinCall, Push
<1>7. CASE pushes' = [pushes EXCEPT ![w] = p2]
  BY <1>1, <1>3, <1>4, <1>7 DEF WithinCall, Push
<1>8. QED
  BY <1>2, <1>5, <1>6, <1>7

\* A call gets the token of the epoch, or fails.
LEMMA GetStreamTokenEffect ==
  ASSUME TypeOK, NEW w \in Worker, GetStreamToken(w)
  PROVE  /\ WithinCall(w) /\ UNCHANGED <<epoch, accepted>>
         /\ pushes[w].pc = "send"
         /\ pushes'[w].i = pushes[w].i /\ pushes'[w].attempt = pushes[w].attempt
         /\ \/ pushes'[w].pc = "failed"
            \/ /\ pushes'[w].pc = "send" /\ pushes'[w].token = epoch
               /\ pushes'[w].alreadyRetried = pushes[w].alreadyRetried
               /\ pushes'[w].since = pushes[w].since
<1> DEFINE p1 == [pushes[w] EXCEPT !.token = epoch]
           p2 == [pushes[w] EXCEPT !.pc = "failed"]
<1>1. pushes \in [Worker -> Push]
  BY DEF TypeOK
<1>2. pushes' = [pushes EXCEPT ![w] = p1] \/ pushes' = [pushes EXCEPT ![w] = p2]
  BY DEF GetStreamToken, Continue
<1>3. UNCHANGED <<queue, order, refused, acked, dropped, epoch, accepted>>
  BY DEF GetStreamToken, Continue
<1>4. pushes[w].pc = "send"
  BY DEF GetStreamToken
<1>5. CASE pushes' = [pushes EXCEPT ![w] = p1]
  BY <1>1, <1>3, <1>4, <1>5 DEF WithinCall, Push
<1>6. CASE pushes' = [pushes EXCEPT ![w] = p2]
  BY <1>1, <1>3, <1>4, <1>6 DEF WithinCall, Push
<1>7. QED
  BY <1>2, <1>5, <1>6

\* After a 401 a call fails if it has refreshed its token, else it refreshes it.
LEMMA UnauthorizedEffect ==
  ASSUME TypeOK, NEW w \in Worker, Unauthorized(w)
  PROVE  /\ WithinCall(w) /\ UNCHANGED <<epoch, accepted>>
         /\ pushes[w].pc = "send" /\ pushes[w].token \notin {NoToken, epoch}
         /\ pushes'[w].i = pushes[w].i /\ pushes'[w].attempt = pushes[w].attempt
         /\ \/ pushes'[w].pc = "failed" /\ pushes[w].alreadyRetried
            \/ /\ pushes'[w].pc = "send" /\ pushes'[w].token = NoToken
               /\ pushes'[w].since = pushes[w].since
<1> DEFINE p1 == [pushes[w] EXCEPT !.pc = "failed"]
           p2 == [pushes[w] EXCEPT !.token = NoToken, !.alreadyRetried = TRUE]
<1>1. pushes \in [Worker -> Push]
  BY DEF TypeOK
<1>2. \/ pushes' = [pushes EXCEPT ![w] = p1] /\ pushes[w].alreadyRetried
      \/ pushes' = [pushes EXCEPT ![w] = p2]
  BY DEF Unauthorized, Continue, AfterUnauthorized
<1>3. UNCHANGED <<queue, order, refused, acked, dropped, epoch, accepted>>
  BY DEF Unauthorized, Continue
<1>4. pushes[w].pc = "send" /\ pushes[w].token \notin {NoToken, epoch}
  BY DEF Unauthorized
<1>5. CASE pushes' = [pushes EXCEPT ![w] = p1] /\ pushes[w].alreadyRetried
  BY <1>1, <1>3, <1>4, <1>5 DEF WithinCall, Push
<1>6. CASE pushes' = [pushes EXCEPT ![w] = p2]
  BY <1>1, <1>3, <1>4, <1>6 DEF WithinCall, Push
<1>7. QED
  BY <1>2, <1>5, <1>6

\* A post that is answered stores the entry at hand or nothing, and the loop goes
\* on behind an entry that was stored or refused only.
LEMMA PostEffect ==
  ASSUME TypeOK, NEW w \in Worker, NEW answer \in Answers, Post(w, answer)
  PROVE  /\ WithinCall(w) /\ UNCHANGED epoch
         /\ pushes[w].pc = "send"
         /\ pushes'[w].attempt = pushes[w].attempt
         /\ \/ pushes'[w].pc = "failed" /\ pushes'[w].i = pushes[w].i
            \/ /\ pushes'[w].pc = "entry" /\ pushes'[w].i = pushes[w].i + 1
               /\ answer \in {"accepted", "refused"}
         /\ \/ accepted' = Append(accepted, <<pushes[w].request, pushes[w].i>>)
            \/ UNCHANGED accepted /\ answer # "accepted"
<1> DEFINE p1 == [pushes[w] EXCEPT !.pc = "failed"]
           p2 == [pushes[w] EXCEPT !.pc = "entry", !.i = @ + 1]
<1>1. pushes \in [Worker -> Push]
  BY DEF TypeOK
<1>2. \/ pushes' = [pushes EXCEPT ![w] = p1]
      \/ pushes' = [pushes EXCEPT ![w] = p2] /\ answer \in {"accepted", "refused"}
  BY DEF Post, Continue, AfterPost
<1>3. UNCHANGED <<queue, order, refused, acked, dropped, epoch>>
  BY DEF Post, Continue
<1>4. /\ pushes[w].pc = "send"
      /\ \/ accepted' = Append(accepted, <<pushes[w].request, pushes[w].i>>)
         \/ UNCHANGED accepted /\ answer # "accepted"
  BY DEF Post
<1>5. CASE pushes' = [pushes EXCEPT ![w] = p1]
  BY <1>1, <1>3, <1>4, <1>5 DEF WithinCall, Push
<1>6. CASE pushes' = [pushes EXCEPT ![w] = p2] /\ answer \in {"accepted", "refused"}
  BY <1>1, <1>3, <1>4, <1>6 DEF WithinCall, Push
<1>7. QED
  BY <1>2, <1>5, <1>6

\* A retry starts at the first entry.
LEMMA RetryEffect ==
  ASSUME TypeOK, NEW w \in Worker, Retry(w)
  PROVE  /\ WithinCall(w) /\ UNCHANGED <<epoch, accepted>>
         /\ pushes[w].pc = "failed" /\ pushes'[w].pc = "entry"
         /\ pushes'[w].i = 1 /\ pushes'[w].attempt = pushes[w].attempt + 1
<1>1. pushes \in [Worker -> Push]
  BY DEF TypeOK
<1>2. QED
  BY <1>1 DEF Retry, Continue, WithinCall, Push

\* A worker takes the request at the head of the queue.
LEMMA TakeEffect ==
  ASSUME TypeOK, NEW w \in Worker, Take(w)
  PROVE  /\ queue # <<>> /\ queue' = Tail(queue)
         /\ UNCHANGED <<epoch, accepted, order, refused, acked, dropped>>
         /\ \A v \in Worker \ {w} : pushes'[v] = pushes[v]
         /\ pushes[w].pc = "idle"
         /\ pushes'[w].pc = "entry" /\ pushes'[w].request = Head(queue)
         /\ pushes'[w].i = 1 /\ pushes'[w].attempt = 1
<1>1. pushes \in [Worker -> Push] /\ Idle \in Push
  BY IdleType DEF TypeOK
<1>2. QED
  BY <1>1 DEF Take, Push

\* A call that is over leaves its worker idle and its request acknowledged or
\* dropped.
LEMMA EndEffect ==
  ASSUME TypeOK, NEW w \in Worker, PushLogsReturns(w) \/ GiveUp(w)
  PROVE  /\ UNCHANGED <<queue, epoch, accepted, order, refused>>
         /\ \A v \in Worker \ {w} : pushes'[v] = pushes[v]
         /\ pushes[w].pc # "idle"
         /\ pushes'[w].pc = "idle" /\ pushes'[w].request = NoRequest
         /\ \/ acked' = acked \cup {pushes[w].request} /\ UNCHANGED dropped
            \/ dropped' = dropped \cup {pushes[w].request} /\ UNCHANGED acked
<1>1. pushes \in [Worker -> Push]
  BY DEF TypeOK
<1>2. QED
  BY <1>1, IdleType DEF PushLogsReturns, GiveUp, AfterLastAttempt

\* A request that is offered is queued or refused.
LEMMA OfferEffect ==
  ASSUME TypeOK, NEW r \in Request, Offer(r)
  PROVE  /\ UNCHANGED <<pushes, epoch, accepted, acked, dropped>>
         /\ r \notin refused /\ r \notin Entered
         /\ \/ UNCHANGED refused /\ queue' = Append(queue, r) /\ order' = Append(order, r)
            \/ refused' = refused \cup {r} /\ UNCHANGED <<queue, order>>
BY DEF Offer, Entered

\* The steps within a call.
LEMMA WithinCallEffect ==
  ASSUME TypeOK, NEW w \in Worker,
         \/ BeginEntry(w) \/ GetStreamToken(w) \/ Unauthorized(w) \/ Retry(w)
         \/ \E answer \in Answers : Post(w, answer)
  PROVE  /\ WithinCall(w) /\ UNCHANGED epoch
         /\ \/ UNCHANGED accepted
            \/ accepted' = Append(accepted, <<pushes[w].request, pushes[w].i>>)
BY BeginEntryEffect, GetStreamTokenEffect, UnauthorizedEffect, RetryEffect, PostEffect
----------------------------------------------------------------------------
(* A request is in one place.                                              *)

\* The elements of a sequence that grew by one.
LEMMA AppendElements ==
  ASSUME NEW S, NEW q \in Seq(S), NEW e \in S
  PROVE  /\ Len(q) + 1 \notin DOMAIN q
         /\ DOMAIN Append(q, e) = DOMAIN q \cup {Len(q) + 1}
         /\ \A k \in DOMAIN q : Append(q, e)[k] = q[k]
         /\ Append(q, e)[Len(q) + 1] = e
         /\ {Append(q, e)[k] : k \in DOMAIN Append(q, e)} = {q[k] : k \in DOMAIN q} \cup {e}
<1>1. /\ DOMAIN q = 1 .. Len(q) /\ Len(q) \in Nat
      /\ DOMAIN Append(q, e) = 1 .. Len(q) + 1
  BY AppendProperties, LenProperties
<1>2. /\ \A k \in DOMAIN q : Append(q, e)[k] = q[k]
      /\ Append(q, e)[Len(q) + 1] = e
  BY <1>1, AppendProperties
<1>3. DOMAIN Append(q, e) = DOMAIN q \cup {Len(q) + 1} /\ Len(q) + 1 \notin DOMAIN q
  BY <1>1
<1>4. QED
  BY <1>2, <1>3

\* The elements of a sequence without repetitions that lost its head.
LEMMA TailElements ==
  ASSUME NEW S, NEW q \in Seq(S), q # <<>>,
         \A j, k \in DOMAIN q : q[j] = q[k] => j = k
  PROVE  /\ {Tail(q)[k] : k \in DOMAIN Tail(q)} = {q[k] : k \in DOMAIN q} \ {Head(q)}
         /\ Head(q) \in {q[k] : k \in DOMAIN q}
         /\ \A j, k \in DOMAIN Tail(q) : Tail(q)[j] = Tail(q)[k] => j = k
<1>1. Len(q) \in Nat /\ Len(q) > 0 /\ DOMAIN q = 1 .. Len(q)
  BY EmptySeq, LenProperties
<1>2. /\ Head(q) = q[1]
      /\ DOMAIN Tail(q) = 1 .. Len(q) - 1
      /\ \A k \in 1 .. Len(q) - 1 : Tail(q)[k] = q[k + 1]
  BY <1>1, HeadTailProperties, LenProperties
<1>3. ASSUME NEW k \in DOMAIN Tail(q)
      PROVE  k + 1 \in DOMAIN q /\ k + 1 # 1 /\ Tail(q)[k] = q[k + 1]
  BY <1>1, <1>2
<1>4. ASSUME NEW k \in DOMAIN q, k # 1
      PROVE  k - 1 \in DOMAIN Tail(q) /\ Tail(q)[k - 1] = q[k]
  <2>1. k - 1 \in 1 .. Len(q) - 1 /\ (k - 1) + 1 = k
    BY <1>1, <1>4
  <2>2. QED
    BY <1>2, <2>1
<1>5. 1 \in DOMAIN q
  BY <1>1
<1>6. {Tail(q)[k] : k \in DOMAIN Tail(q)} \subseteq {q[k] : k \in DOMAIN q} \ {Head(q)}
  BY <1>2, <1>3, <1>5
<1>7. {q[k] : k \in DOMAIN q} \ {Head(q)} \subseteq {Tail(q)[k] : k \in DOMAIN Tail(q)}
  <2> SUFFICES ASSUME NEW k \in DOMAIN q, q[k] # Head(q)
               PROVE  \E j \in DOMAIN Tail(q) : Tail(q)[j] = q[k]
    OBVIOUS
  <2>1. k # 1
    BY <1>2
  <2>2. QED
    BY <2>1, <1>4
<1>8. \A j, k \in DOMAIN Tail(q) : Tail(q)[j] = Tail(q)[k] => j = k
  <2> TAKE j, k \in DOMAIN Tail(q)
  <2> HAVE Tail(q)[j] = Tail(q)[k]
  <2>1. j + 1 = k + 1
    BY <1>3
  <2>2. QED
    BY <2>1, <1>2
<1>9. QED
  BY <1>2, <1>5, <1>6, <1>7, <1>8

\* A request is in one place, at first and after every step.
LEMMA InitInOnePlace == Init => InOnePlace
BY IdleType DEF Init, InOnePlace, Entered, Queued

\* Every step moves a request to one place.
LEMMA StepInOnePlace == TypeOK /\ InOnePlace /\ [Next]_vars => InOnePlace'
<1> SUFFICES ASSUME TypeOK, InOnePlace, [Next]_vars PROVE InOnePlace'
  OBVIOUS
<1>1. ASSUME NEW r \in Request, Offer(r) PROVE InOnePlace'
  <2>1. /\ UNCHANGED <<pushes, accepted, acked, dropped>>
        /\ r \notin refused /\ r \notin Entered
    BY <1>1, OfferEffect
  <2>2. CASE refused' = refused \cup {r} /\ UNCHANGED <<queue, order>>
    BY <2>1, <2>2 DEF InOnePlace, Entered, Queued
  <2>3. CASE UNCHANGED refused /\ queue' = Append(queue, r) /\ order' = Append(order, r)
    <3>1. queue \in Seq(Request) /\ order \in Seq(Request)
      BY DEF TypeOK
    <3>2. Queued' = Queued \cup {r} /\ Entered' = Entered \cup {r}
      BY <2>3, <3>1, AppendElements DEF Queued, Entered
    <3>3. \A j, k \in DOMAIN queue' : queue'[j] = queue'[k] => j = k
      <4>1. /\ DOMAIN queue' = DOMAIN queue \cup {Len(queue) + 1}
            /\ \A k \in DOMAIN queue : queue'[k] = queue[k] /\ queue[k] # r
            /\ queue'[Len(queue) + 1] = r
        BY <2>1, <2>3, <3>1, AppendElements DEF InOnePlace, Queued
      <4>2. QED
        BY <4>1 DEF InOnePlace
    <3>4. QED
      BY <2>1, <2>3, <3>2, <3>3 DEF InOnePlace
  <2>4. QED
    BY <2>2, <2>3, <1>1, OfferEffect
<1>2. ASSUME NEW w \in Worker, Take(w) PROVE InOnePlace'
  <2>1. queue \in Seq(Request) /\ \A j, k \in DOMAIN queue : queue[j] = queue[k] => j = k
    BY DEF TypeOK, InOnePlace
  <2>2. /\ queue # <<>> /\ queue' = Tail(queue)
        /\ UNCHANGED <<accepted, order, refused, acked, dropped>>
        /\ \A v \in Worker \ {w} : pushes'[v] = pushes[v]
        /\ pushes'[w].pc = "entry" /\ pushes'[w].request = Head(queue)
    BY <1>2, TakeEffect
  <2>3. /\ Queued' = Queued \ {Head(queue)} /\ Head(queue) \in Queued
        /\ \A j, k \in DOMAIN queue' : queue'[j] = queue'[k] => j = k
    BY <2>1, <2>2, TailElements DEF Queued
  <2>4. Entered' = Entered
    BY <2>2 DEF Entered
  <2>5. \A v \in Worker \ {w} : pushes[v].request # Head(queue)
    <3> TAKE v \in Worker \ {w}
    <3>1. CASE pushes[v].pc = "idle"
      BY <3>1, <2>1, <2>2, HeadTailProperties, ConstantsType DEF TypeOK
    <3>2. CASE pushes[v].pc # "idle"
      BY <3>2, <2>3 DEF InOnePlace
    <3>3. QED
      BY <3>1, <3>2
  <2>6. QED
    BY <2>2, <2>3, <2>4, <2>5 DEF InOnePlace
<1>3. CASE Expire
  BY <1>3 DEF Expire, InOnePlace, Entered, Queued
<1>4. ASSUME NEW w \in Worker,
             \/ BeginEntry(w) \/ GetStreamToken(w) \/ Unauthorized(w) \/ Retry(w)
             \/ \E answer \in Answers : Post(w, answer)
      PROVE  InOnePlace'
  <2>1. WithinCall(w)
    BY <1>4, WithinCallEffect
  <2>2. Entered' = Entered /\ Queued' = Queued
    BY <2>1 DEF WithinCall, Entered, Queued
  <2>3. \A j \in DOMAIN accepted' : accepted'[j][1] \in Entered \ Queued
    <3>1. CASE UNCHANGED accepted
      BY <3>1 DEF InOnePlace
    <3>2. CASE accepted' = Append(accepted, <<pushes[w].request, pushes[w].i>>)
      <4>1. <<pushes[w].request, pushes[w].i>> \in Request \X Nat /\ accepted \in Seq(Request \X Nat)
        BY <2>1, BusyWorker DEF WithinCall, TypeOK, Push
      <4>2. pushes[w].request \in Entered \ Queued
        BY <2>1 DEF WithinCall, InOnePlace
      <4>3. QED
        BY <3>2, <4>1, <4>2, AppendElements DEF InOnePlace
    <3>3. QED
      BY <3>1, <3>2, <1>4, WithinCallEffect
  <2>4. \A v \in Worker : /\ pushes'[v].request = pushes[v].request
                          /\ pushes'[v].pc = "idle" <=> pushes[v].pc = "idle"
    BY <2>1 DEF WithinCall
  <2>5. QED
    BY <2>1, <2>2, <2>3, <2>4 DEF WithinCall, InOnePlace
<1>5. ASSUME NEW w \in Worker, PushLogsReturns(w) \/ GiveUp(w) PROVE InOnePlace'
  <2>1. /\ UNCHANGED <<queue, accepted, order, refused>>
        /\ \A v \in Worker \ {w} : pushes'[v] = pushes[v]
        /\ pushes[w].pc # "idle"
        /\ pushes'[w].pc = "idle" /\ pushes'[w].request = NoRequest
        /\ \/ acked' = acked \cup {pushes[w].request} /\ UNCHANGED dropped
           \/ dropped' = dropped \cup {pushes[w].request} /\ UNCHANGED acked
    BY <1>5, EndEffect
  <2>2. Entered' = Entered /\ Queued' = Queued
    BY <2>1 DEF Entered, Queued
  <2>3. /\ pushes[w].request \in Entered \ Queued
        /\ pushes[w].request \notin acked \cup dropped
    BY <2>1 DEF InOnePlace
  <2>4. ASSUME NEW v \in Worker, pushes'[v].pc # "idle"
        PROVE  /\ pushes'[v].request \in Entered \ Queued
               /\ pushes'[v].request \notin acked' \cup dropped'
               /\ \A u \in Worker : pushes'[u].request = pushes'[v].request => u = v
    <3>1. v # w /\ pushes'[v] = pushes[v] /\ pushes[v].pc # "idle"
      BY <2>1, <2>4
    <3>2. pushes[v].request # pushes[w].request
      BY <2>1, <3>1 DEF InOnePlace
    <3>3. pushes[v].request # NoRequest
      BY <3>1, BusyWorker
    <3>4. QED
      BY <2>1, <3>1, <3>2, <3>3 DEF InOnePlace
  <2>5. QED
    BY <2>1, <2>2, <2>3, <2>4 DEF InOnePlace
<1>6. CASE UNCHANGED vars
  BY <1>6 DEF vars, InOnePlace, Entered, Queued
<1>7. QED
  BY <1>1, <1>2, <1>3, <1>4, <1>5, <1>6 DEF Next, Work, Quiet

\* In every reachable state a request is in one place: it is pushed by one worker
\* at a time, and it is acknowledged or dropped, never both, and never after it
\* was refused.
THEOREM RequestInOnePlace == Spec => []InOnePlace
BY InitInOnePlace, StepInOnePlace, ExporterTypeCorrect, PTL DEF Spec
----------------------------------------------------------------------------
(* The tokens.                                                             *)

\* The attempts and the indices of a call stay in range.
LEMMA InitCallsInRange == Init => CallsInRange
BY IdleType DEF Init, CallsInRange

\* Every step keeps the calls in range.
LEMMA StepCallsInRange == TypeOK /\ CallsInRange /\ [Next]_vars => CallsInRange'
<1> SUFFICES ASSUME TypeOK, CallsInRange, [Next]_vars PROVE CallsInRange'
  OBVIOUS
<1>0. \A w \in Worker : pushes[w].i \in Nat /\ pushes[w].attempt \in Nat
  BY ConstantsType DEF TypeOK, Push
<1>1. ASSUME NEW r \in Request, Offer(r) PROVE CallsInRange'
  BY <1>1, OfferEffect DEF CallsInRange
<1>2. ASSUME NEW w \in Worker, Take(w) PROVE CallsInRange'
  BY <1>2, TakeEffect DEF CallsInRange
<1>3. CASE Expire
  BY <1>3 DEF Expire, CallsInRange
<1>4. ASSUME NEW w \in Worker, BeginEntry(w) PROVE CallsInRange'
  BY <1>4, BeginEntryEffect DEF CallsInRange, WithinCall
<1>5. ASSUME NEW w \in Worker, GetStreamToken(w) PROVE CallsInRange'
  BY <1>5, GetStreamTokenEffect DEF CallsInRange, WithinCall
<1>6. ASSUME NEW w \in Worker, Unauthorized(w) PROVE CallsInRange'
  BY <1>6, UnauthorizedEffect DEF CallsInRange, WithinCall
<1>7. ASSUME NEW w \in Worker, NEW answer \in Answers, Post(w, answer) PROVE CallsInRange'
  BY <1>0, <1>7, PostEffect DEF CallsInRange, WithinCall
<1>8. ASSUME NEW w \in Worker, PushLogsReturns(w) \/ GiveUp(w) PROVE CallsInRange'
  BY <1>8, EndEffect DEF CallsInRange
<1>9. ASSUME NEW w \in Worker, Retry(w) PROVE CallsInRange'
  BY <1>0, <1>9, RetryEffect DEF CallsInRange, WithinCall
<1>10. CASE UNCHANGED vars
  BY <1>10 DEF vars, CallsInRange
<1>11. QED
  BY <1>1, <1>2, <1>3, <1>4, <1>5, <1>6, <1>7, <1>8, <1>9, <1>10 DEF Next, Work, Quiet

\* The tokens stay in order with the epochs.
LEMMA InitTokensInOrder == Init => TokensInOrder
BY IdleType DEF Init, TokensInOrder

\* Every step keeps the tokens in order.
LEMMA StepTokensInOrder == TypeOK /\ TokensInOrder /\ [Next]_vars => TokensInOrder'
<1> SUFFICES ASSUME TypeOK, TokensInOrder, [Next]_vars PROVE TokensInOrder'
  OBVIOUS
<1>0. /\ epoch \in Nat /\ epoch < NoToken /\ NoToken \in Nat
      /\ \A w \in Worker : pushes[w].token \in Nat /\ pushes[w].since \in Nat
  BY ConstantsType DEF TypeOK, Push
<1>1. ASSUME NEW r \in Request, Offer(r) PROVE TokensInOrder'
  BY <1>1, OfferEffect DEF TokensInOrder
<1>2. ASSUME NEW w \in Worker, Take(w) PROVE TokensInOrder'
  BY <1>2, TakeEffect DEF TokensInOrder
<1>3. CASE Expire
  <2>1. epoch' = epoch + 1 /\ UNCHANGED pushes
    BY <1>3 DEF Expire
  <2>2. QED
    BY <1>0, <2>1 DEF TokensInOrder
<1>4. ASSUME NEW w \in Worker, BeginEntry(w) PROVE TokensInOrder'
  BY <1>0, <1>4, BeginEntryEffect DEF TokensInOrder, WithinCall
<1>5. ASSUME NEW w \in Worker, GetStreamToken(w) PROVE TokensInOrder'
  BY <1>0, <1>5, GetStreamTokenEffect DEF TokensInOrder, WithinCall
<1>6. ASSUME NEW w \in Worker, Unauthorized(w) PROVE TokensInOrder'
  BY <1>0, <1>6, UnauthorizedEffect DEF TokensInOrder, WithinCall
<1>7. ASSUME NEW w \in Worker, NEW answer \in Answers, Post(w, answer) PROVE TokensInOrder'
  BY <1>7, PostEffect DEF TokensInOrder, WithinCall
<1>8. ASSUME NEW w \in Worker, PushLogsReturns(w) \/ GiveUp(w) PROVE TokensInOrder'
  BY <1>8, EndEffect DEF TokensInOrder
<1>9. ASSUME NEW w \in Worker, Retry(w) PROVE TokensInOrder'
  BY <1>9, RetryEffect DEF TokensInOrder, WithinCall
<1>10. CASE UNCHANGED vars
  BY <1>10 DEF vars, TokensInOrder
<1>11. QED
  BY <1>1, <1>2, <1>3, <1>4, <1>5, <1>6, <1>7, <1>8, <1>9, <1>10 DEF Next, Work, Quiet

\* A 401 that fails a call met a token that was refreshed after an expiry, and
\* that has expired in turn.
LEMMA SecondExpiry ==
  ASSUME TypeOK, TokensInOrder, NEW w \in Worker, Unauthorized(w),
         pushes'[w].pc = "failed"
  PROVE  epoch >= pushes[w].since + 2
<1>1. /\ pushes[w].pc = "send" /\ pushes[w].token \notin {NoToken, epoch}
      /\ pushes[w].alreadyRetried
  BY UnauthorizedEffect
<1>2. pushes[w].since < pushes[w].token /\ pushes[w].token <= epoch
  BY <1>1 DEF TokensInOrder
<1>3. epoch \in Nat /\ pushes[w].token \in Nat /\ pushes[w].since \in Nat
  BY ConstantsType DEF TypeOK, Push
<1>4. QED
  BY <1>1, <1>2, <1>3

\* sendLogs returns "Bad Authorization" only when the tokens expired twice while it
\* was at work on an entry (zebrium_exporter.go:83-128): one expiry at any moment
\* of the call is absorbed by the refresh, however many workers there are.
THEOREM ExpiryIsAbsorbed == Spec => OneExpiryIsAbsorbed
<1>1. TypeOK /\ TokensInOrder =>
        [\A w \in Worker :
           Unauthorized(w) /\ pushes'[w].pc = "failed" => epoch >= pushes[w].since + 2]_vars
  BY SecondExpiry
<1>2. Spec => []TokensInOrder
  BY InitTokensInOrder, StepTokensInOrder, ExporterTypeCorrect, PTL DEF Spec
<1>3. QED
  BY <1>1, <1>2, ExporterTypeCorrect, PTL DEF OneExpiryIsAbsorbed
----------------------------------------------------------------------------
(* What Zebrium holds.                                                     *)

\* Stored, after the step.
StoredAfter(r, k) == \E j \in DOMAIN accepted' : accepted'[j] = <<r, k>>

\* Zebrium forgets nothing.
LEMMA StoredStays ==
  ASSUME TypeOK, NEW r, NEW k,
         \/ UNCHANGED accepted
         \/ \E e \in Request \X Nat : accepted' = Append(accepted, e),
         Stored(r, k)
  PROVE  StoredAfter(r, k)
<1>1. accepted \in Seq(Request \X Nat)
  BY DEF TypeOK
<1>2. QED
  BY <1>1, AppendElements DEF Stored, StoredAfter

\* A post that stores the entry at hand.
LEMMA StoredNow ==
  ASSUME TypeOK, NEW e \in Request \X Nat, accepted' = Append(accepted, e)
  PROVE  \E j \in DOMAIN accepted' : accepted'[j] = e
<1>1. accepted \in Seq(Request \X Nat)
  BY DEF TypeOK
<1>2. QED
  BY <1>1, AppendElements

\* Every step leaves what is stored alone, or stores one entry.
LEMMA AcceptedGrows ==
  ASSUME TypeOK, [Next]_vars
  PROVE  \/ UNCHANGED accepted
         \/ \E e \in Request \X Nat : accepted' = Append(accepted, e)
<1>1. ASSUME NEW w \in Worker, NEW answer \in Answers, Post(w, answer)
      PROVE  \/ UNCHANGED accepted
             \/ \E e \in Request \X Nat : accepted' = Append(accepted, e)
  <2>1. <<pushes[w].request, pushes[w].i>> \in Request \X Nat
    BY <1>1, PostEffect, BusyWorker DEF TypeOK, Push
  <2>2. QED
    BY <2>1, <1>1, PostEffect
<1>2. QED
  BY <1>1 DEF Next, Work, Quiet, vars, Offer, Take, Expire, BeginEntry, GetStreamToken,
     Unauthorized, PushLogsReturns, Retry, GiveUp

\* Without the answers that Zebrium gives without storing, the entries in front of
\* the one at hand were stored.
LEMMA InitSentSoFar == Init => SentSoFar
BY IdleType DEF Init, SentSoFar

\* Every step keeps the entries in front of the one at hand stored.
LEMMA StepSentSoFar ==
  ASSUME "refused" \notin Answers
  PROVE  TypeOK /\ SentSoFar /\ [Next]_vars => SentSoFar'
<1> SUFFICES ASSUME TypeOK, SentSoFar, [Next]_vars,
                    NEW w \in Worker, pushes'[w].pc \in {"entry", "send"},
                    NEW k \in 1 .. pushes'[w].i - 1
             PROVE  StoredAfter(pushes'[w].request, k)
  BY DEF SentSoFar, Stored, StoredAfter
<1> DEFINE Goal == StoredAfter(pushes'[w].request, k)
<1>0. pushes[w].i \in Nat
  BY DEF TypeOK, Push
<1>1. ASSUME /\ pushes[w].pc \in {"entry", "send"}
             /\ pushes'[w].request = pushes[w].request
             /\ k \in 1 .. pushes[w].i - 1
      PROVE  Goal
  <2>1. Stored(pushes[w].request, k)
    BY <1>1 DEF SentSoFar
  <2>2. QED
    BY <2>1, <1>1, AcceptedGrows, StoredStays
<1>2. CASE pushes'[w] = pushes[w]
  BY <1>1, <1>2
<1>3. CASE Take(w) \/ Retry(w)
  BY <1>3, TakeEffect, RetryEffect
<1>4. CASE BeginEntry(w) \/ GetStreamToken(w) \/ Unauthorized(w)
  <2>1. /\ pushes[w].pc \in {"entry", "send"}
        /\ pushes'[w].request = pushes[w].request /\ pushes'[w].i = pushes[w].i
    BY <1>4, BeginEntryEffect, GetStreamTokenEffect, UnauthorizedEffect DEF WithinCall
  <2>2. QED
    BY <1>1, <2>1
<1>5. ASSUME NEW answer \in Answers, Post(w, answer) PROVE Goal
  <2>1. /\ pushes[w].pc = "send" /\ pushes'[w].request = pushes[w].request
        /\ pushes'[w].i = pushes[w].i + 1
        /\ accepted' = Append(accepted, <<pushes[w].request, pushes[w].i>>)
    BY <1>5, PostEffect DEF WithinCall
  <2>2. CASE k = pushes[w].i
    <3>1. <<pushes[w].request, pushes[w].i>> \in Request \X Nat
      BY <2>1, <1>0, BusyWorker
    <3>2. QED
      BY <2>1, <2>2, <3>1, StoredNow DEF StoredAfter
  <2>3. CASE k # pushes[w].i
    BY <1>0, <1>1, <2>1, <2>3
  <2>4. QED
    BY <2>2, <2>3
<1>6. CASE PushLogsReturns(w) \/ GiveUp(w)
  BY <1>6, EndEffect
<1>7. ASSUME NEW v \in Worker \ {w}, Work(v) PROVE Goal
  <2>1. pushes'[w] = pushes[w]
    BY <1>7, WithinCallEffect, TakeEffect, EndEffect DEF Work, WithinCall
  <2>2. QED
    BY <1>2, <2>1
<1>8. CASE (\E r \in Request : Offer(r)) \/ Expire \/ UNCHANGED vars
  BY <1>2, <1>8 DEF Offer, Expire, vars
<1>9. QED
  BY <1>3, <1>4, <1>5, <1>6, <1>7, <1>8 DEF Next, Work, Quiet

\* What was acknowledged stays stored, and a call that returns nil has been through
\* all entries.
LEMMA StepAckedWasStored ==
  TypeOK /\ SentSoFar /\ AckedWasStored /\ [Next]_vars => AckedWasStored'
<1> SUFFICES ASSUME TypeOK, SentSoFar, AckedWasStored, [Next]_vars,
                    NEW r \in acked', NEW k \in DOMAIN EntriesOf[r]
             PROVE  StoredAfter(r, k)
  BY DEF AckedWasStored, Stored, StoredAfter
<1>1. CASE r \in acked
  BY <1>1, AcceptedGrows, StoredStays DEF AckedWasStored
<1>2. ASSUME NEW w \in Worker, PushLogsReturns(w), r = pushes[w].request
      PROVE  StoredAfter(r, k)
  <2>1. /\ pushes[w].pc = "entry" /\ pushes[w].i > Len(EntriesOf[r])
        /\ r \in Request /\ pushes[w].i \in Nat
    BY <1>2, BusyWorker DEF PushLogsReturns, Entries, TypeOK, Push
  <2>2. k \in 1 .. pushes[w].i - 1
    BY <2>1, EntriesType
  <2>3. Stored(r, k)
    BY <2>1, <2>2, <1>2 DEF SentSoFar
  <2>4. QED
    BY <2>3, AcceptedGrows, StoredStays
<1>3. r \in acked \/ \E w \in Worker : PushLogsReturns(w) /\ r = pushes[w].request
  BY DEF Next, Work, Quiet, vars, Offer, Take, Expire, BeginEntry, GetStreamToken, Continue,
     Unauthorized, Post, PushLogsReturns, Retry, GiveUp
<1>4. QED
  BY <1>1, <1>2, <1>3

\* A request for which pushLogs returned nil was stored, every entry of it, whatever
\* was lost, refreshed or pushed again before: unless Zebrium answers with a status
\* that is neither 2xx nor 401, which sendLogs takes for a success
\* (zebrium_exporter.go:117-134; the run ZebriumStatus shows that case).
THEOREM AckedIsStored ==
  ASSUME "refused" \notin Answers
  PROVE  Spec => []AckedWasStored
<1>1. Init => SentSoFar /\ AckedWasStored
  BY InitSentSoFar DEF Init, AckedWasStored
<1>2. TypeOK /\ SentSoFar /\ AckedWasStored /\ [Next]_vars => SentSoFar' /\ AckedWasStored'
  BY StepSentSoFar, StepAckedWasStored
<1>3. QED
  BY <1>1, <1>2, ExporterTypeCorrect, PTL DEF Spec
----------------------------------------------------------------------------
(* Prefixes and repetitions.                                               *)

\* Nothing is stored at first.
LEMMA InitStoredIsPrefix == Init => StoredIsPrefix
BY DEF Init, StoredIsPrefix

\* What a step stores follows what was stored before.
LEMMA StepStoredIsPrefix ==
  TypeOK /\ CallsInRange /\ SentSoFar /\ StoredIsPrefix /\ [Next]_vars => StoredIsPrefix'
<1> SUFFICES ASSUME TypeOK, CallsInRange, SentSoFar, StoredIsPrefix, [Next]_vars
             PROVE  StoredIsPrefix'
  OBVIOUS
<1>1. ASSUME NEW w \in Worker, NEW answer \in Answers, Post(w, answer),
             accepted' = Append(accepted, <<pushes[w].request, pushes[w].i>>)
      PROVE  StoredIsPrefix'
  <2> DEFINE r == pushes[w].request
             i == pushes[w].i
  <2>1. /\ pushes[w].pc = "send" /\ i \in Nat /\ i >= 1 /\ <<r, i>> \in Request \X Nat
        /\ accepted \in Seq(Request \X Nat)
    BY <1>1, PostEffect, BusyWorker DEF TypeOK, Push, CallsInRange
  <2>2. /\ Len(accepted) + 1 \notin DOMAIN accepted
        /\ DOMAIN accepted' = DOMAIN accepted \cup {Len(accepted) + 1}
        /\ \A j \in DOMAIN accepted : accepted'[j] = accepted[j]
        /\ accepted'[Len(accepted) + 1] = <<r, i>>
    BY <1>1, <2>1, AppendElements
  <2>3. DOMAIN accepted = 1 .. Len(accepted) /\ Len(accepted) \in Nat
    BY <2>1, LenProperties
  <2>4. ASSUME NEW j \in DOMAIN accepted', accepted'[j][2] > 1
        PROVE  \E n \in 1..(j-1) : accepted'[n] = <<accepted'[j][1], accepted'[j][2] - 1>>
    <3>1. CASE j \in DOMAIN accepted
      <4>1. PICK n \in 1..(j-1) : accepted[n] = <<accepted[j][1], accepted[j][2] - 1>>
        BY <2>2, <2>4, <3>1 DEF StoredIsPrefix
      <4>2. n \in DOMAIN accepted
        BY <2>3, <3>1, <4>1
      <4>3. QED
        BY <2>2, <3>1, <4>1, <4>2
    <3>2. CASE j = Len(accepted) + 1
      <4>1. accepted'[j][1] = r /\ accepted'[j][2] = i /\ i - 1 \in 1 .. i - 1
        BY <2>1, <2>2, <2>4, <3>2
      <4>2. PICK n \in DOMAIN accepted : accepted[n] = <<r, i - 1>>
        BY <2>1, <4>1 DEF SentSoFar, Stored
      <4>3. n \in 1..(j-1)
        BY <2>3, <3>2, <4>2
      <4>4. QED
        BY <2>2, <4>1, <4>2, <4>3
    <3>3. QED
      BY <2>2, <3>1, <3>2, <2>4
  <2>5. QED
    BY <2>4 DEF StoredIsPrefix
<1>2. CASE UNCHANGED accepted
  BY <1>2 DEF StoredIsPrefix
<1>3. \/ UNCHANGED accepted
      \/ \E w \in Worker, answer \in Answers :
           /\ Post(w, answer)
           /\ accepted' = Append(accepted, <<pushes[w].request, pushes[w].i>>)
  BY PostEffect DEF Next, Work, Quiet, vars, Offer, Take, Expire, BeginEntry, GetStreamToken,
     Unauthorized, PushLogsReturns, Retry, GiveUp
<1>4. QED
  BY <1>1, <1>2, <1>3

\* Of a request, Zebrium holds the entries up to some point and none after it, in
\* every reachable state, if it stores what it answers with a success.
THEOREM StoredArePrefixes ==
  ASSUME "refused" \notin Answers
  PROVE  Spec => []StoredIsPrefix
<1>1. Init => CallsInRange /\ SentSoFar /\ StoredIsPrefix
  BY InitCallsInRange, InitSentSoFar, InitStoredIsPrefix
<1>2. TypeOK /\ CallsInRange /\ SentSoFar /\ StoredIsPrefix /\ [Next]_vars
        => CallsInRange' /\ SentSoFar' /\ StoredIsPrefix'
  BY StepCallsInRange, StepSentSoFar, StepStoredIsPrefix
<1>3. QED
  BY <1>1, <1>2, ExporterTypeCorrect, PTL DEF Spec

\* The copies of an entry that Zebrium holds are counted.
LEMMA CopiesType ==
  ASSUME TypeOK, NEW r, NEW k
  PROVE  Copies(r, k) \in Nat
<1>1. IsFiniteSet(DOMAIN accepted)
  BY LenProperties, FS_Interval DEF TypeOK
<1>2. IsFiniteSet({j \in DOMAIN accepted : accepted[j] = <<r, k>>})
  BY <1>1, FS_Subset
<1>3. QED
  BY <1>2, FS_CardinalityType DEF Copies

\* One more copy of the entry that is stored, no more of the others.
LEMMA CopiesGrow ==
  ASSUME TypeOK, NEW e \in Request \X Nat, accepted' = Append(accepted, e), NEW r, NEW k
  PROVE  Copies(r, k)' = IF e = <<r, k>> THEN Copies(r, k) + 1 ELSE Copies(r, k)
<1> DEFINE at == {j \in DOMAIN accepted : accepted[j] = <<r, k>>}
           new == Len(accepted) + 1
<1>1. accepted \in Seq(Request \X Nat)
  BY DEF TypeOK
<1>2. /\ new \notin DOMAIN accepted /\ DOMAIN accepted' = DOMAIN accepted \cup {new}
      /\ \A j \in DOMAIN accepted : accepted'[j] = accepted[j]
      /\ accepted'[new] = e
  BY <1>1, AppendElements
<1>3. IsFiniteSet(at) /\ new \notin at
  BY <1>1, <1>2, LenProperties, FS_Interval, FS_Subset
<1>4. {j \in DOMAIN accepted' : accepted'[j] = <<r, k>>}
        = IF e = <<r, k>> THEN at \cup {new} ELSE at
  BY <1>2
<1>5. Cardinality(at \cup {new}) = Cardinality(at) + 1
  BY <1>3, FS_AddElement
<1>6. QED
  BY <1>4, <1>5 DEF Copies

\* Nothing is stored of a request that waits in the queue.
LEMMA NoCopiesYet ==
  ASSUME TypeOK, InOnePlace, NEW r \in Queued, NEW k
  PROVE  Copies(r, k) = 0
<1>1. {j \in DOMAIN accepted : accepted[j] = <<r, k>>} = {}
  BY DEF InOnePlace
<1>2. QED
  BY <1>1, FS_EmptySet DEF Copies

\* There are no copies at first.
LEMMA InitStoredOncePerAttempt == Init => StoredOncePerAttempt
<1> SUFFICES ASSUME Init, NEW r \in Request, NEW k \in DOMAIN EntriesOf[r]
             PROVE  /\ Copies(r, k) <= MaxAttempts
                    /\ \A w \in Worker : pushes[w].request # r
  BY DEF StoredOncePerAttempt
<1>1. {j \in DOMAIN accepted : accepted[j] = <<r, k>>} = {}
  BY DEF Init
<1>2. Copies(r, k) = 0
  BY <1>1, FS_EmptySet DEF Copies
<1>3. QED
  BY <1>2, IdleType, ConstantsType DEF Init

\* A step stores at most the copy its attempt has to show for it.
LEMMA StepStoredOncePerAttempt ==
  TypeOK /\ TypeOK' /\ InOnePlace /\ CallsInRange /\ StoredOncePerAttempt /\ [Next]_vars
    => StoredOncePerAttempt'
<1> SUFFICES ASSUME TypeOK, TypeOK', InOnePlace, CallsInRange, StoredOncePerAttempt,
                    [Next]_vars, NEW r \in Request, NEW k \in DOMAIN EntriesOf[r]
             PROVE  /\ Copies(r, k)' <= MaxAttempts
                    /\ \A w \in Worker : pushes'[w].request = r =>
                         Copies(r, k)' <= AttemptsToStore(pushes'[w], k)
  BY DEF StoredOncePerAttempt, AttemptsToStore
<1> DEFINE Goal == /\ Copies(r, k)' <= MaxAttempts
                   /\ \A w \in Worker : pushes'[w].request = r =>
                        Copies(r, k)' <= AttemptsToStore(pushes'[w], k)
<1>1. k \in Nat /\ k >= 1
  BY EntriesType
<1>2. /\ Copies(r, k) \in Nat /\ Copies(r, k) <= MaxAttempts
      /\ \A w \in Worker : pushes[w].request = r =>
           Copies(r, k) <= AttemptsToStore(pushes[w], k)
  BY CopiesType DEF StoredOncePerAttempt
<1>3. \A w \in Worker : /\ pushes[w].i \in Nat /\ pushes[w].attempt \in 0..MaxAttempts
                        /\ pushes'[w].i \in Nat /\ pushes'[w].attempt \in 0..MaxAttempts
  BY DEF TypeOK, Push
<1>4. MaxAttempts \in Nat
  BY ConstantsType
<1>5. ASSUME UNCHANGED accepted PROVE Copies(r, k)' = Copies(r, k)
  BY <1>5 DEF Copies
<1>6. ASSUME NEW w \in Worker, UNCHANGED accepted,
             \A v \in Worker \ {w} : pushes'[v] = pushes[v],
             pushes'[w].request = r => Copies(r, k) <= AttemptsToStore(pushes'[w], k)
      PROVE  Goal
  BY <1>2, <1>5, <1>6
<1>7. CASE (\E q \in Request : Offer(q)) \/ Expire \/ UNCHANGED vars
  <2>1. UNCHANGED <<pushes, accepted>>
    BY <1>7 DEF Offer, Expire, vars
  <2>2. QED
    BY <2>1, <1>2, <1>5
<1>8. ASSUME NEW w \in Worker, Take(w) PROVE Goal
  <2>1. /\ UNCHANGED accepted /\ queue # <<>>
        /\ \A v \in Worker \ {w} : pushes'[v] = pushes[v]
        /\ pushes'[w].request = Head(queue)
        /\ pushes'[w].pc = "entry" /\ pushes'[w].i = 1 /\ pushes'[w].attempt = 1
    BY <1>8, TakeEffect
  <2>2. Head(queue) \in Queued
    BY <2>1, TailElements DEF TypeOK, InOnePlace, Queued
  <2>3. AttemptsToStore(pushes'[w], k) = 0
    BY <2>1, <1>1 DEF AttemptsToStore
  <2>4. QED
    BY <1>6, <2>1, <2>2, <2>3, NoCopiesYet
<1>9. ASSUME NEW w \in Worker, BeginEntry(w) \/ GetStreamToken(w) \/ Unauthorized(w) \/ Retry(w)
      PROVE  Goal
  <2>1. /\ UNCHANGED accepted
        /\ \A v \in Worker \ {w} : pushes'[v] = pushes[v]
        /\ pushes'[w].request = pushes[w].request
    BY <1>9, BeginEntryEffect, GetStreamTokenEffect, UnauthorizedEffect, RetryEffect
    DEF WithinCall
  <2>2. \/ /\ pushes[w].pc # "failed"
           /\ pushes'[w].i = pushes[w].i /\ pushes'[w].attempt = pushes[w].attempt
        \/ /\ pushes[w].pc = "failed" /\ pushes'[w].pc = "entry"
           /\ pushes'[w].i = 1 /\ pushes'[w].attempt = pushes[w].attempt + 1
    BY <1>9, BeginEntryEffect, GetStreamTokenEffect, UnauthorizedEffect, RetryEffect
  <2>3. AttemptsToStore(pushes[w], k) <= AttemptsToStore(pushes'[w], k)
    BY <1>1, <1>3, <1>4, <2>2 DEF AttemptsToStore
  <2>4. AttemptsToStore(pushes[w], k) \in Int /\ AttemptsToStore(pushes'[w], k) \in Int
    BY <1>3, <1>4 DEF AttemptsToStore
  <2>5. QED
    BY <1>2, <1>6, <2>1, <2>3, <2>4
<1>10. ASSUME NEW w \in Worker, PushLogsReturns(w) \/ GiveUp(w) PROVE Goal
  BY <1>6, <1>10, EndEffect, ConstantsType
<1>11. ASSUME NEW w \in Worker, NEW answer \in Answers, Post(w, answer) PROVE Goal
  <2>1. /\ pushes[w].pc = "send" /\ pushes[w].request \in Request
        /\ pushes'[w].request = pushes[w].request
        /\ pushes'[w].attempt = pushes[w].attempt
        /\ \A v \in Worker \ {w} : pushes'[v] = pushes[v]
        /\ \/ pushes'[w].pc = "failed"
           \/ pushes'[w].pc = "entry" /\ pushes'[w].i = pushes[w].i + 1
        /\ \/ accepted' = Append(accepted, <<pushes[w].request, pushes[w].i>>)
           \/ UNCHANGED accepted
    BY <1>11, PostEffect, BusyWorker DEF WithinCall
  <2>2. \/ /\ Copies(r, k)' = Copies(r, k) + 1
           /\ pushes[w].request = r /\ pushes[w].i = k
        \/ Copies(r, k)' = Copies(r, k)
    <3>1. CASE UNCHANGED accepted
      BY <3>1, <1>5
    <3>2. CASE accepted' = Append(accepted, <<pushes[w].request, pushes[w].i>>)
      <4>1. <<pushes[w].request, pushes[w].i>> \in Request \X Nat
        BY <1>3, <2>1
      <4>2. Copies(r, k)' = IF <<pushes[w].request, pushes[w].i>> = <<r, k>>
                            THEN Copies(r, k) + 1 ELSE Copies(r, k)
        BY <3>2, <4>1, CopiesGrow
      <4>3. QED
        BY <4>2
    <3>3. QED
      BY <3>1, <3>2, <2>1
  <2>3. CASE pushes[w].request = r
    <3>1. \A v \in Worker : pushes'[v].request = r => v = w
      BY <2>1, <2>3 DEF InOnePlace
    <3>2. Copies(r, k) <= AttemptsToStore(pushes[w], k)
      BY <1>2, <2>3
    <3>3. Copies(r, k)' <= AttemptsToStore(pushes'[w], k)
      <4>1. CASE k = pushes[w].i
        <5>1. /\ AttemptsToStore(pushes[w], k) = pushes[w].attempt - 1
              /\ AttemptsToStore(pushes'[w], k) = pushes[w].attempt
          BY <1>1, <1>3, <2>1, <4>1 DEF AttemptsToStore
        <5>2. Copies(r, k)' \in {Copies(r, k), Copies(r, k) + 1}
          BY <2>2
        <5>3. QED
          BY <1>2, <1>3, <1>4, <3>2, <5>1, <5>2
      <4>2. CASE k # pushes[w].i
        <5>1. AttemptsToStore(pushes[w], k) <= AttemptsToStore(pushes'[w], k)
          BY <1>1, <1>3, <1>4, <2>1, <4>2 DEF AttemptsToStore
        <5>2. Copies(r, k)' = Copies(r, k)
          BY <2>2, <4>2
        <5>3. AttemptsToStore(pushes[w], k) \in Int /\ AttemptsToStore(pushes'[w], k) \in Int
          BY <1>3, <1>4 DEF AttemptsToStore
        <5>4. QED
          BY <1>2, <3>2, <5>1, <5>2, <5>3
      <4>3. QED
        BY <4>1, <4>2
    <3>4. AttemptsToStore(pushes'[w], k) \in Int /\ AttemptsToStore(pushes'[w], k) <= MaxAttempts
      BY <1>3, <1>4 DEF AttemptsToStore
    <3>5. Copies(r, k)' \in Nat
      BY <1>2, <2>2
    <3>6. QED
      BY <1>4, <3>1, <3>3, <3>4, <3>5
  <2>4. CASE pushes[w].request # r
    <3>1. Copies(r, k)' = Copies(r, k)
      BY <2>2, <2>4
    <3>2. QED
      BY <1>2, <2>1, <2>4, <3>1
  <2>5. QED
    BY <2>3, <2>4
<1>12. QED
  BY <1>7, <1>8, <1>9, <1>10, <1>11 DEF Next, Work, Quiet

\* An attempt posts every entry once at most, whatever tokens it refreshes, and
\* nothing is posted ahead of the entry at hand: Zebrium never holds more copies of
\* an entry than its request has attempts to show for it, and MaxAttempts at most.
THEOREM StoredOnce == Spec => []StoredOncePerAttempt
<1>1. Init => InOnePlace /\ CallsInRange /\ StoredOncePerAttempt
  BY InitInOnePlace, InitCallsInRange, InitStoredOncePerAttempt
<1>2. TypeOK /\ TypeOK' /\ InOnePlace /\ CallsInRange /\ StoredOncePerAttempt /\ [Next]_vars
        => InOnePlace' /\ CallsInRange' /\ StoredOncePerAttempt'
  BY StepInOnePlace, StepCallsInRange, StepStoredOncePerAttempt
<1>3. QED
  BY <1>1, <1>2, ExporterTypeCorrect, PTL DEF Spec
============================================================================

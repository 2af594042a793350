--------------------------- MODULE StreamBuffer ---------------------------
(***************************************************************************)
(* What the log format processor promises about the records it batches:    *)
(* every log stream is a FIFO buffer.  A record that was placed in a       *)
(* stream waits there until it is shipped, records of one stream are       *)
(* shipped in the order in which they were placed, each exactly once, and  *)
(* no resource log entry that is shipped is longer than MaxEntry (0 means  *)
(* that there is no limit).                                                *)
(*                                                                         *)
(* This is the abstract specification; module BatchLogs implements it.     *)
(***************************************************************************)
EXTENDS Naturals, Sequences

CONSTANTS Record,    \* the log records
          Stream,    \* the log streams, i.e. the keys of batchLogs.logData
          MaxEntry   \* the longest entry that may be shipped; 0: no limit

VARIABLES queue,     \* queue[s]: the records of s waiting to be shipped
          shipped    \* shipped[s]: the records of s handed to the next consumer

sbVars == <<queue, shipped>>

SBInit == /\ queue = [s \in Stream |-> <<>>]
          /\ shipped = [s \in Stream |-> <<>>]

\* A record joins the end of its stream.
Accept(s, r) == /\ queue' = [queue EXCEPT ![s] = Append(@, r)]
                /\ UNCHANGED shipped

\* The lengths of the entries of one request: for every stream, how much of
\* the front of its buffer is shipped.
EntryLengths == {n \in [Stream -> Nat] :
                   \A s \in Stream : /\ n[s] <= Len(queue[s])
                                     /\ MaxEntry > 0 => n[s] <= MaxEntry}

Ship(n) == /\ shipped' = [s \in Stream |-> shipped[s] \o SubSeq(queue[s], 1, n[s])]
           /\ queue' = [s \in Stream |-> SubSeq(queue[s], n[s] + 1, Len(queue[s]))]

\* n[s] is the length of the part of shipped'[s] that is new: naming it keeps
\* the action free of a choice from the infinite set [Stream -> Nat].
ShipSome == LET n == [s \in Stream |-> Len(shipped'[s]) - Len(shipped[s])]
            IN  /\ n \in EntryLengths
                /\ Ship(n)

SBNext == \/ \E s \in Stream, r \in Record : Accept(s, r)
          \/ ShipSome

SBSpec == SBInit /\ [][SBNext]_sbVars
===========================================================================

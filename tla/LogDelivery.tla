---------------------------- MODULE LogDelivery ----------------------------
(***************************************************************************)
(* What the processor and the exporter promise together: every log stream  *)
(* is a FIFO channel to Zebrium that may lose records but accounts for     *)
(* each of them.  A record placed in a stream is pending until it arrives  *)
(* or is lost; those of one stream that arrive do so in the order in which *)
(* they were placed; a lost record never arrives afterwards.  That Zebrium *)
(* may be sent a record a second time is no step of this specification.    *)
(*                                                                         *)
(* This is the abstract specification; module Pipeline implements it.      *)
(***************************************************************************)
EXTENDS Naturals, Subsequences

CONSTANTS Record, Stream

VARIABLES pending,   \* pending[s]: the records of s on their way, in order
          arrived,   \* arrived[s]: the records of s Zebrium holds, in order
          lost       \* the records refused or given up

ldVars == <<pending, arrived, lost>>

LDInit == /\ pending = [s \in Stream |-> <<>>]
          /\ arrived = [s \in Stream |-> <<>>]
          /\ lost = {}

Accept(s) == /\ Len(pending'[s]) > Len(pending[s])
             /\ \E r \in Record : pending' = [pending EXCEPT ![s] = Append(@, r)]
             /\ UNCHANGED <<arrived, lost>>

\* The first n records of a stream arrive.
Arrive(s, n) ==
  /\ n \in 1 .. Len(pending[s])
  /\ arrived' = [arrived EXCEPT ![s] = @ \o SubSeq(pending[s], 1, n)]
  /\ pending' = [pending EXCEPT ![s] = SubSeq(@, n + 1, Len(@))]
  /\ UNCHANGED lost

\* Records are taken out of the streams, from anywhere.
Lose(R) ==
  /\ R # {}
  /\ R \subseteq UNION {{pending[s][i] : i \in DOMAIN pending[s]} : s \in Stream}
  /\ lost' = lost \cup R
  /\ pending' = [s \in Stream |-> Without(pending[s], R)]
  /\ UNCHANGED arrived

\* How many arrive and which are lost can be read off the next state: naming
\* it keeps the actions free of a choice.
LDNext == \/ \E s \in Stream : Accept(s)
          \/ \E s \in Stream : Arrive(s, Len(arrived'[s]) - Len(arrived[s]))
          \/ Lose(lost' \ lost)

LDSpec == LDInit /\ [][LDNext]_ldVars
============================================================================

--------------------------- MODULE MCProcessor ---------------------------
(* Small instances of SlLogFormatProcessor.  The first payload is longer   *)
(* than two maximal entries of its stream, the second mixes two streams    *)
(* and a record no profile matches, the third has no record at all.        *)
EXTENDS SlLogFormatProcessor, TLC

CONSTANTS r1, r2, r3, r4, r5, r6, r7, r8, r9, r10, sa, sb, c1, c2

MCStreamOf == r1 :> sa @@ r2 :> sa @@ r3 :> sa @@ r4 :> sa @@ r5 :> sa
              @@ r6 :> NoMatch @@ r7 :> sb @@ r8 :> sa
              @@ r9 :> sa @@ r10 :> sa
OneFormat == [r \in Record |-> "event"]
MCPayloads == {<<>>, <<r1, r2, r3, r4, r5, r9, r10>>, <<r6, r7, r8>>}

\* Single records, for the runs that explore the orders of events.
MCSingles == {<<r1>>, <<r2>>, <<r6, r7>>}
==========================================================================

---------------------------- MODULE MCPipeline -----------------------------
(* A small instance of Pipeline: a stream that is cut, then refilled by a   *)
(* record that matched a profile of another format, and a stream whose      *)
(* profile has no format, which the exporter never can send.                *)
EXTENDS Pipeline

CONSTANTS r1, r2, r3, r4, r5, r6, sa, sb, c1, w1

MCStreamOf == r1 :> sa @@ r2 :> sa @@ r3 :> sa @@ r4 :> sa @@ r5 :> sb @@ r6 :> NoMatch
MCFormatOf == [r \in Record |-> IF r = r5 THEN "" ELSE IF r \in {r1, r2} THEN "event"
                                ELSE "message"]
MCPayloads == {<<r1, r2, r3>>, <<r4, r5>>}
============================================================================

------------------------ MODULE MCZebriumExporter ------------------------
(* Small instances of ZebriumExporter: a request of two entries, one whose *)
(* second entry the exporter cannot send, and one that crashes it at the   *)
(* second entry.                                                           *)
EXTENDS ZebriumExporter, TLC

CONSTANTS q1, q2, q3, w1, w2

\* The format is given as its parts between colons.
Good(format) == [sl_metadata |-> TRUE, sl_msg |-> "present", sl_format |-> format]
\* What the processor makes of a profile without a format.
NoFormat == Good(<<"">>)
\* An entry that lost sl_msg on the way, e.g. in an attributes processor.
NoMessage == [Good(<<"event">>) EXCEPT !.sl_msg = "missing"]

MCEntriesOf == q1 :> <<Good(<<"event", "app">>), Good(<<"message">>)>>
               @@ q2 :> <<Good(<<"message">>), NoFormat>>
               @@ q3 :> <<Good(<<"container">>), NoMessage>>
==========================================================================

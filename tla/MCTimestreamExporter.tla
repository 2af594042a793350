---------------------- MODULE MCTimestreamExporter ----------------------
(* Small instances of TimestreamExporter with batches of three: a request  *)
(* of a batch and a bit, one of exactly a full batch, and one that crashes  *)
(* the collector.                                                           *)
EXTENDS TimestreamExporter, TLC

CONSTANTS q1, q2, q3

\* The first point has no attributes, the others one of them under a name that is
\* the resource's but for an illegal character, one without a value and one more.
Points(values) ==
  [l \in DOMAIN values |->
    [value |-> values[l],
     attributes |-> IF l = 1 THEN <<>>
                    ELSE << <<<<"a", "?">>, <<"x">>>>, <<<<"c">>, <<>>>>, <<<<"c">>, <<"?", "x">>>> >>]]

Metric(kind, values) ==
  [kind |-> kind, name |-> <<"m", "_", "%">>, points |-> Points(values),
   resource |-> << <<<<"a", "-">>, <<"x">>>> >>,
   scope |-> << <<<<>>, <<"y">>>>, <<<<"s">>, <<"y">>>> >>]

MCMetricsOf ==
  q1 :> <<Metric("gauge", <<"int", "none", "double">>),
          Metric("other", <<"none">>),
          Metric("sum", <<"double", "int">>)>>
  @@ q2 :> <<Metric("sum", <<"int", "int", "int">>)>>
  @@ q3 :> <<Metric("monotonic sum", <<"int">>), Metric("gauge", <<"int">>)>>
=========================================================================

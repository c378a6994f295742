----------------------------- MODULE MCMetricPush -----------------------------
(* Two workers, two epochs of three minibatches with positive, negative,    *)
(* weighted and tied examples, predictions in quarters and three buckets.   *)
EXTENDS MetricPush, TLC

CONSTANTS w1, w2, b1, b2, b3

Ex(p, l) == [pred |-> p, label |-> l]

MCExamples == (b1 :> <<Ex(3, 1), Ex(1, 0)>>) @@ (b2 :> <<Ex(2, -2)>>)
                  @@ (b3 :> <<Ex(2, 1), Ex(4, 0), Ex(0, 2)>>)
=============================================================================

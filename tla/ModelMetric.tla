------------------------------ MODULE ModelMetric ------------------------------
(***************************************************************************)
(* The metric of a training or validation job (metric.py, C++              *)
(* ModelMetricBuffer).  Every field of BinaryClassificationModelMetric is  *)
(* a sum over the minibatches it has seen: instance and loss sums, the     *)
(* confusion counts, and the two buffers of label weights by bucket of the *)
(* prediction.  So a metric is the number of times it holds each           *)
(* minibatch, clear is the zero function, merge is addition, and the       *)
(* buffers are computed from the examples of the minibatches.              *)
(***************************************************************************)
EXTENDS Integers, Sequences, FiniteSets, FiniteSetsExt, Functions

CONSTANTS
    Batches,     \* the minibatches of one pass over the dataset
    Examples,    \* [Batches -> sequence of [pred, label]]
    BufferSize,  \* buffer_size: the number of buckets
    Scale        \* predictions are pred/Scale with pred in 0..Scale

ASSUME BufferAssumption == BufferSize \in Nat \ {0, 1} /\ Scale \in Nat \ {0}

(* ModelMetric() and clear(), from_states(get_states(m)) of a metric, merge *)
Empty(K) == [k \in K |-> 0]
FromStates(m) == m
Merge(accum, delta) == [k \in DOMAIN accum |-> accum[k] + delta[k]]
Accumulate(m, k) == [m EXCEPT ![k] = @ + 1]

-----------------------------------------------------------------------------
(* UpdateBuffer.  A positive label is a positive example of that weight, a *)
(* negative one a negative example of weight -label, 0 of weight 1.        *)
Bucket(pred) == (pred * (BufferSize - 1)) \div Scale
PositiveWeight(label) == IF label > 0 THEN label ELSE 0
NegativeWeight(label) == CASE label > 0 -> 0 [] label < 0 -> -label [] OTHER -> 1

(* The examples of a metric whose keys are pairs <<epoch, minibatch>>: the  *)
(* weight that the positions of minibatch k[2] have, k counted m[k] times.  *)
Places(K) == UNION {{<<k, i>> : i \in DOMAIN Examples[k[2]]} : k \in K}
Pred(p) == Examples[p[1][2]][p[2]].pred
Label(p) == Examples[p[1][2]][p[2]].label
Pos(m, p) == m[p[1]] * PositiveWeight(Label(p))
Neg(m, p) == m[p[1]] * NegativeWeight(Label(p))

SumOver(S, w(_)) == MapThenSumSet(w, S)

PositiveBuffer(m) == LET P == Places(DOMAIN m) IN
    [i \in 0..(BufferSize - 1) |->
        SumOver({p \in P : Bucket(Pred(p)) = i}, LAMBDA p : Pos(m, p))]
NegativeBuffer(m) == LET P == Places(DOMAIN m) IN
    [i \in 0..(BufferSize - 1) |->
        SumOver({p \in P : Bucket(Pred(p)) = i}, LAMBDA p : Neg(m, p))]

(* The loop of ComputeAUC: the sums after bucket i, and twice the area.    *)
AreaStep_Mutant(prev, pos, neg) ==
    [pos  |-> prev.pos + pos,
     neg  |-> prev.neg + neg,
     area |-> prev.area + 2 * (prev.pos + pos) * neg]
AreaStep(prev, pos, neg) ==
    [pos  |-> prev.pos + pos,
     neg  |-> prev.neg + neg,
     area |-> prev.area + (prev.pos + prev.pos + pos) * neg]

AreaUpTo(pos, neg) ==
    LET a[i \in 0..(BufferSize - 1)] ==
            AreaStep(IF i = 0 THEN [pos |-> 0, neg |-> 0, area |-> 0] ELSE a[i - 1],
                     pos[i], neg[i])
    IN  a[BufferSize - 1]

(* compute_auc as a fraction <<numerator, denominator>>.                    *)
ComputeAUC(pos, neg) ==
    LET a == AreaUpTo(pos, neg) IN
    IF a.pos = 0 THEN (IF a.neg > 0 THEN <<0, 1>> ELSE <<1, 1>>)
    ELSE IF a.neg = 0 THEN <<1, 1>>
    ELSE <<2 * a.pos * a.neg - a.area, 2 * a.pos * a.neg>>

-----------------------------------------------------------------------------
(* What the area under the curve means: the chance that a positive example *)
(* has a larger prediction than a negative one, ties counting one half.    *)
(* PairScore is twice the weight of the pairs that are in order.           *)
PairScore(m) == LET P == Places(DOMAIN m) IN
    SumOver(P \X P, LAMBDA q : Pos(m, q[1]) * Neg(m, q[2]) *
        (CASE Pred(q[1]) > Pred(q[2]) -> 2
           [] Pred(q[1]) = Pred(q[2]) -> 1
           [] OTHER -> 0))

(* The pairs that the buckets cannot tell apart.                            *)
BucketTies(m) == LET P == Places(DOMAIN m) IN
    SumOver(P \X P, LAMBDA q :
        IF Pred(q[1]) # Pred(q[2]) /\ Bucket(Pred(q[1])) = Bucket(Pred(q[2]))
        THEN Pos(m, q[1]) * Neg(m, q[2]) ELSE 0)
=============================================================================

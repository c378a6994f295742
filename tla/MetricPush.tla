------------------------------ MODULE MetricPush ------------------------------
(***************************************************************************)
(* How the metric of a job is collected.  Every worker adds its minibatches*)
(* to a metric of its own and, every metric_update_interval minibatches,   *)
(* sends its buffers to the coordinator in a PushMetric request, for whose *)
(* response it waits; the coordinator's receiver thread merges them.  The  *)
(* rest is pushed by worker_stop.  The coordinator's metric is what the    *)
(* estimator keeps as final_metric.                                        *)
(*                                                                         *)
(* The dataset is fed once per epoch, one Spark job per epoch; which       *)
(* worker gets a minibatch is up to Spark.                                 *)
(***************************************************************************)
EXTENDS ModelMetric

CONSTANTS
    Workers,   \* the workers of the job
    Coord,     \* the coordinator
    NoWorker,  \* no worker has been given the minibatch
    Epochs,    \* training_epoches (1 in validation mode)
    Interval,  \* metric_update_interval
    Faults     \* subset of {"format"}: a metric_class whose format raises

ASSUME WorkersAssumption == Coord \notin Workers /\ NoWorker \notin Workers
ASSUME EpochsAssumption == Epochs \in Nat \ {0}
ASSUME IntervalAssumption == Interval \in Nat \ {0}

VARIABLES
    metric,       \* metric[n]: Agent._metric of a worker or the coordinator
    minibatch_id, \* minibatch_id[w] of the agent of w
    epoch,        \* the pass over the dataset that is under way
    phase,        \* run(): "feeding", "stopping", "done" or "failed"
    call,         \* call[w]: w's PushMetric call, see Calls
    stopped,      \* the workers whose worker_stop has called push_metric
    taken         \* taken[o]: the worker that trained occurrence o

vars == <<metric, minibatch_id, epoch, phase, call, stopped, taken>>

(* An occurrence is a minibatch in one epoch.                               *)
Occurrences == (1..Epochs) \X Batches

(* The worker is not in push_metric; its request is under way; it has been *)
(* merged and the response is under way; the response under way is an      *)
(* exception; send_request has raised.                                     *)
Calls == {"none", "sent", "merged", "refused", "raised"}

(* One type invariant: every metric counts occurrences.                     *)
TypeOK ==
    /\ metric \in [Workers \cup {Coord} -> [Occurrences -> Nat]]
    /\ minibatch_id \in [Workers -> Nat]
    /\ epoch \in 1..Epochs
    /\ phase \in {"feeding", "stopping", "done", "failed"}
    /\ call \in [Workers -> Calls]
    /\ stopped \subseteq Workers
    /\ taken \in [Occurrences -> Workers \cup {NoWorker}]

Init ==
    /\ metric = [n \in Workers \cup {Coord} |-> Empty(Occurrences)]
    /\ minibatch_id = [w \in Workers |-> 0]
    /\ epoch = 1
    /\ phase = "feeding"
    /\ call = [w \in Workers |-> "none"]
    /\ stopped = {}
    /\ taken = [o \in Occurrences |-> NoWorker]

-----------------------------------------------------------------------------
(* push_metric is due after this minibatch.                                 *)
PushDue(id) == id % Interval = 0

(* train_minibatch or validate_minibatch of an occurrence of this epoch,   *)
(* then update_progress.                                                    *)
UpdateProgress(w) ==
    /\ phase = "feeding"
    /\ call[w] = "none"
    /\ \E o \in Occurrences :
        /\ o[1] = epoch
        /\ taken[o] = NoWorker
        /\ taken' = [taken EXCEPT ![o] = w]
        /\ metric' = [metric EXCEPT ![w] = Accumulate(@, o)]
    /\ minibatch_id' = [minibatch_id EXCEPT ![w] = @ + 1]
    /\ call' = [call EXCEPT ![w] = IF PushDue(minibatch_id[w] + 1) THEN "sent" ELSE @]
    /\ UNCHANGED <<epoch, phase, stopped>>

(* The response of handle_request: an exception when format raises.        *)
Answers_Mutant == {}
Answers == {"merged"} \cup (IF "format" \in Faults THEN {"refused"} ELSE {})

(* handle_request of PushMetric in the coordinator's receiver thread: the  *)
(* slices are the worker's buffers, which it does not touch while it waits *)
(* for the response.  The metric is merged before it is formatted.         *)
HandleRequest(w) ==
    /\ call[w] = "sent"
    /\ metric' = [metric EXCEPT ![Coord] = Merge(@, FromStates(metric[w]))]
    /\ \E a \in Answers : call' = [call EXCEPT ![w] = a]
    /\ UNCHANGED <<minibatch_id, epoch, phase, stopped, taken>>

(* What push_metric_callback leaves in the worker's metric.                 *)
Cleared_Mutant(m) == m
Cleared(m) == Empty(DOMAIN m)

(* The response arrives: push_metric_callback clears the metric and        *)
(* push_metric returns.                                                     *)
PushMetricCallback(w) ==
    /\ call[w] = "merged"
    /\ metric' = [metric EXCEPT ![w] = Cleared(@)]
    /\ call' = [call EXCEPT ![w] = "none"]
    /\ UNCHANGED <<minibatch_id, epoch, phase, stopped, taken>>

(* The response is an exception: send_request raises without the callback, *)
(* the task fails and, with spark.task.maxFailures=1, so do the Spark job  *)
(* and run().                                                               *)
PushMetricRaises(w) ==
    /\ call[w] = "refused"
    /\ call' = [call EXCEPT ![w] = "raised"]
    /\ phase' = "failed"
    /\ UNCHANGED <<metric, minibatch_id, epoch, stopped, taken>>

-----------------------------------------------------------------------------
Returned == \A w \in Workers : call[w] = "none"

MoreEpochs == epoch < Epochs

(* The Spark job of an epoch ends when all its tasks have; then the next   *)
(* epoch is fed, or feed_dataset returns and stop_workers begins.          *)
EpochEnds ==
    /\ phase = "feeding"
    /\ Returned
    /\ \A o \in Occurrences : o[1] = epoch => taken[o] # NoWorker
    /\ IF MoreEpochs
       THEN epoch' = epoch + 1 /\ phase' = phase
       ELSE epoch' = epoch /\ phase' = "stopping"
    /\ UNCHANGED <<metric, minibatch_id, call, stopped, taken>>

(* worker_stop pushes what is left, even when there is nothing.            *)
StopPush_Mutant == "none"
StopPush == "sent"

WorkerStop(w) ==
    /\ phase = "stopping"
    /\ w \notin stopped
    /\ stopped' = stopped \cup {w}
    /\ call' = [call EXCEPT ![w] = StopPush]
    /\ UNCHANGED <<metric, minibatch_id, epoch, phase, taken>>

(* stop_workers and run() return; _fit or _transform takes the metric of   *)
(* the coordinator's agent as final_metric.                                *)
RunReturns ==
    /\ phase = "stopping"
    /\ stopped = Workers
    /\ Returned
    /\ phase' = "done"
    /\ UNCHANGED <<metric, minibatch_id, epoch, call, stopped, taken>>

Next ==
    \/ \E w \in Workers :
        \/ UpdateProgress(w)
        \/ HandleRequest(w)
        \/ PushMetricCallback(w)
        \/ PushMetricRaises(w)
        \/ WorkerStop(w)
    \/ EpochEnds
    \/ RunReturns

Spec == Init /\ [][Next]_vars

(* Spark runs the tasks it has, and threads run: every enabled step is     *)
(* taken in the end.                                                        *)
FairSpec ==
    /\ Spec
    /\ WF_vars(EpochEnds) /\ WF_vars(RunReturns)
    /\ \A w \in Workers :
        /\ WF_vars(UpdateProgress(w)) /\ WF_vars(HandleRequest(w))
        /\ WF_vars(PushMetricCallback(w)) /\ WF_vars(PushMetricRaises(w))
        /\ WF_vars(WorkerStop(w))

-----------------------------------------------------------------------------
(* Between the merge and the callback (or after a failed push) what a      *)
(* worker holds is also in the coordinator's metric.                        *)
Unmerged(w, o) == IF call[w] \in {"none", "sent"} THEN metric[w][o] ELSE 0

(* agent.py:push_metric, handle_request.  No minibatch is lost or counted  *)
(* twice: one that has been trained is in the coordinator's metric or in   *)
(* the buffers that its worker still has to push, exactly once, whatever   *)
(* pushes of other workers do, and even after a push that failed.          *)
ExactlyOnce ==
    \A o \in Occurrences :
        /\ \A w \in Workers : w # taken[o] => metric[w][o] = 0
        /\ IF taken[o] = NoWorker
           THEN metric[Coord][o] = 0
           ELSE metric[Coord][o] + Unmerged(taken[o], o) = 1

(* estimator.py:worker_stop "Make sure the final metric buffers are        *)
(* pushed.": the final_metric of a fit or transform that returns counts    *)
(* every minibatch of every epoch once.                                     *)
FinalMetricExact ==
    phase = "done" => \A o \in Occurrences : metric[Coord][o] = 1

(* metric.py:compute_auc.  What the coordinator prints is the share of     *)
(* ordered pairs of a positive and a negative example among all it has     *)
(* merged, up to the pairs that share a bucket.                             *)
AUCOfPairs ==
    LET m == metric[Coord]
        P == Places(Occurrences)
        auc == ComputeAUC(PositiveBuffer(m), NegativeBuffer(m))
        weight == 2 * SumOver(P, LAMBDA p : Pos(m, p)) * SumOver(P, LAMBDA p : Neg(m, p))
    IN  weight > 0 =>
            /\ auc[2] = weight
            /\ auc[1] - PairScore(m) \in -BucketTies(m) .. BucketTies(m)

(* A job comes to its end: no push is left without an answer.              *)
RunEnds == <>(phase \in {"done", "failed"})
=============================================================================

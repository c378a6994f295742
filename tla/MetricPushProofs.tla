--------------------------- MODULE MetricPushProofs ---------------------------
(***************************************************************************)
(* For any workers, minibatches, epochs and interval: no minibatch is lost *)
(* or counted twice, and the final metric of a job that returns counts all *)
(* of them once.                                                           *)
(***************************************************************************)
EXTENDS MetricPush, TLAPS

(* What has been fed: earlier epochs completely, and everything once the   *)
(* workers stop.                                                            *)
FedInv ==
    /\ \A o \in Occurrences : o[1] < epoch => taken[o] # NoWorker
    /\ phase \in {"stopping", "done"} => \A o \in Occurrences : taken[o] # NoWorker

(* A worker that has called worker_stop and is back has empty buffers.     *)
StopInv ==
    /\ phase = "feeding" => stopped = {}
    /\ \A w \in stopped : call[w] = "none" => \A o \in Occurrences : metric[w][o] = 0
    /\ phase = "stopping" => \A w \in Workers \ stopped : call[w] = "none"
    /\ phase = "done" => stopped = Workers /\ Returned

IInv == TypeOK /\ ExactlyOnce /\ FedInv /\ StopInv

USE WorkersAssumption, EpochsAssumption, IntervalAssumption

(* The initial metrics are empty and nothing has been taken.                *)
LEMMA InitIInv == Init => IInv
<1> SUFFICES ASSUME Init PROVE IInv
    OBVIOUS
<1>1. TypeOK
    BY DEF Init, TypeOK, Empty, Calls
<1>2. ExactlyOnce
    BY DEF Init, ExactlyOnce, Empty
<1>3. FedInv
    BY DEF Init, FedInv, Occurrences
<1>4. StopInv
    BY DEF Init, StopInv
<1> QED BY <1>1, <1>2, <1>3, <1>4 DEF IInv

(* A minibatch goes into the metric of the worker that takes it.           *)
LEMMA UpdateProgressIInv ==
    ASSUME IInv, NEW w \in Workers, UpdateProgress(w)
    PROVE  IInv'
<1>1. PICK o \in Occurrences :
        /\ o[1] = epoch
        /\ taken[o] = NoWorker
        /\ taken' = [taken EXCEPT ![o] = w]
        /\ metric' = [metric EXCEPT ![w] = Accumulate(metric[w], o)]
    BY DEF UpdateProgress
<1> DEFINE more == Accumulate(metric[w], o)
<1>0. /\ more \in [Occurrences -> Nat]
      /\ more[o] = metric[w][o] + 1
      /\ \A p \in Occurrences : p # o => more[p] = metric[w][p]
    <2>1. metric[w] \in [Occurrences -> Nat]
        BY DEF IInv, TypeOK
    <2>2. more = [metric[w] EXCEPT ![o] = metric[w][o] + 1]
        BY DEF Accumulate
    <2> QED BY <2>1, <2>2
<1> HIDE DEF more
<1> DEFINE c == IF PushDue(minibatch_id[w] + 1) THEN "sent" ELSE "none"
<1>2. /\ phase = "feeding" /\ call[w] = "none"
      /\ call' = [call EXCEPT ![w] = c]
      /\ minibatch_id' = [minibatch_id EXCEPT ![w] = @ + 1]
      /\ UNCHANGED <<epoch, phase, stopped>>
    BY DEF UpdateProgress, IInv, TypeOK
<1>3. c \in {"none", "sent"}
    OBVIOUS
<1> HIDE DEF c
<1>4. TypeOK'
    <2>1. metric' \in [Workers \cup {Coord} -> [Occurrences -> Nat]]
        BY <1>0, <1>1 DEF IInv, TypeOK, more
    <2>2. taken' \in [Occurrences -> Workers \cup {NoWorker}]
        BY <1>1 DEF IInv, TypeOK
    <2>3. call' \in [Workers -> Calls]
        BY <1>2, <1>3 DEF IInv, TypeOK, Calls
    <2>4. minibatch_id' \in [Workers -> Nat]
        BY <1>2 DEF IInv, TypeOK
    <2> QED BY <1>2, <2>1, <2>2, <2>3, <2>4 DEF IInv, TypeOK
<1>5. ExactlyOnce'
    <2> SUFFICES ASSUME NEW p \in Occurrences
                 PROVE  /\ \A v \in Workers : v # taken'[p] => metric'[v][p] = 0
                        /\ IF taken'[p] = NoWorker
                           THEN metric'[Coord][p] = 0
                           ELSE metric'[Coord][p] + Unmerged(taken[p], p)' = 1
        BY DEF ExactlyOnce
    <2>1. CASE p = o
        <3>1. taken'[p] = w /\ metric'[w][p] = metric[w][p] + 1 /\ metric'[Coord] = metric[Coord]
            BY <1>0, <1>1, <2>1 DEF IInv, TypeOK, more
        <3>2. metric[w][p] = 0 /\ metric[Coord][p] = 0
            BY <1>1, <2>1 DEF IInv, ExactlyOnce
        <3>3. \A v \in Workers : v # w => metric'[v][p] = 0
            BY <1>1, <2>1 DEF IInv, ExactlyOnce, TypeOK
        <3>4. call'[w] \in {"none", "sent"}
            BY <1>2, <1>3 DEF IInv, TypeOK
        <3> QED BY <3>1, <3>2, <3>3, <3>4 DEF Unmerged
    <2>2. CASE p # o
        <3>1. taken'[p] = taken[p]
            BY <1>1, <2>2 DEF IInv, TypeOK
        <3>2. \A v \in Workers \cup {Coord} : metric'[v][p] = metric[v][p]
            BY <1>0, <1>1, <2>2 DEF IInv, TypeOK, more
        <3>3. \A v \in Workers : call'[v] \in {"none", "sent"} <=> call[v] \in {"none", "sent"}
            BY <1>2, <1>3 DEF IInv, TypeOK
        <3>4. taken[p] # NoWorker => Unmerged(taken[p], p)' = Unmerged(taken[p], p)
            BY <3>1, <3>2, <3>3 DEF Unmerged, IInv, TypeOK
        <3> QED BY <3>1, <3>2, <3>4 DEF IInv, ExactlyOnce
    <2> QED BY <2>1, <2>2
<1>6. FedInv'
    BY <1>1, <1>2 DEF IInv, FedInv, TypeOK
<1>7. StopInv'
    BY <1>2 DEF IInv, StopInv
<1> QED BY <1>4, <1>5, <1>6, <1>7 DEF IInv

(* The merge moves what the worker holds to the coordinator.               *)
LEMMA HandleRequestIInv ==
    ASSUME IInv, NEW w \in Workers, HandleRequest(w)
    PROVE  IInv'
<1> DEFINE sum == [o \in Occurrences |-> metric[Coord][o] + metric[w][o]]
<1>1. PICK a \in Answers : call' = [call EXCEPT ![w] = a]
    BY DEF HandleRequest
<1>2. /\ call[w] = "sent"
      /\ metric' = [metric EXCEPT ![Coord] = sum]
      /\ UNCHANGED <<minibatch_id, epoch, phase, stopped, taken>>
    BY DEF HandleRequest, Merge, FromStates, IInv, TypeOK
<1>3. a \in {"merged", "refused"}
    BY DEF Answers
<1>4. TypeOK'
    <2>1. metric' \in [Workers \cup {Coord} -> [Occurrences -> Nat]]
        BY <1>2 DEF IInv, TypeOK
    <2>2. call' \in [Workers -> Calls]
        BY <1>1, <1>3 DEF IInv, TypeOK, Calls
    <2> QED BY <1>2, <2>1, <2>2 DEF IInv, TypeOK
<1>5. ExactlyOnce'
    <2> SUFFICES ASSUME NEW p \in Occurrences
                 PROVE  /\ \A v \in Workers : v # taken'[p] => metric'[v][p] = 0
                        /\ IF taken'[p] = NoWorker
                           THEN metric'[Coord][p] = 0
                           ELSE metric'[Coord][p] + Unmerged(taken[p], p)' = 1
        BY DEF ExactlyOnce
    <2>1. taken'[p] = taken[p] /\ metric'[Coord][p] = metric[Coord][p] + metric[w][p]
        BY <1>2 DEF IInv, TypeOK
    <2>2. \A v \in Workers : metric'[v] = metric[v]
        BY <1>2 DEF IInv, TypeOK
    <2>3. metric[Coord][p] \in Nat /\ metric[w][p] \in Nat
        BY DEF IInv, TypeOK
    <2>4. CASE taken[p] = w
        <3>1. metric[Coord][p] + metric[w][p] = 1
            BY <1>2, <2>4 DEF IInv, ExactlyOnce, Unmerged
        <3>2. Unmerged(taken[p], p)' = 0
            BY <1>1, <1>3, <2>1, <2>4 DEF Unmerged, IInv, TypeOK
        <3> QED BY <2>1, <2>2, <2>4, <3>1, <3>2 DEF IInv, ExactlyOnce
    <2>5. CASE taken[p] # w
        <3>1. metric[w][p] = 0
            BY <2>5 DEF IInv, ExactlyOnce
        <3>2. taken[p] # NoWorker => Unmerged(taken[p], p)' = Unmerged(taken[p], p)
            BY <1>1, <2>1, <2>2, <2>5 DEF Unmerged, IInv, TypeOK
        <3> QED BY <2>1, <2>2, <2>3, <3>1, <3>2 DEF IInv, ExactlyOnce
    <2> QED BY <2>4, <2>5
<1>6. FedInv'
    BY <1>2 DEF IInv, FedInv
<1>7. StopInv'
    <2>1. \A v \in Workers : metric'[v] = metric[v]
        BY <1>2 DEF IInv, TypeOK
    <2>2. \A v \in Workers : call'[v] = "none" => call[v] = "none"
        BY <1>1, <1>3 DEF IInv, TypeOK
    <2>3. phase # "done" /\ (phase = "stopping" => w \in stopped)
        BY <1>2 DEF IInv, StopInv, Returned
    <2>4. \A v \in Workers : v # w => call'[v] = call[v]
        BY <1>1 DEF IInv, TypeOK
    <2> QED BY <1>2, <2>1, <2>2, <2>3, <2>4 DEF IInv, StopInv, TypeOK
<1> QED BY <1>4, <1>5, <1>6, <1>7 DEF IInv

(* The callback drops what has been merged.                                 *)
LEMMA PushMetricCallbackIInv ==
    ASSUME IInv, NEW w \in Workers, PushMetricCallback(w)
    PROVE  IInv'
<1> DEFINE zero == [o \in Occurrences |-> 0]
<1>1. /\ call[w] = "merged"
      /\ metric' = [metric EXCEPT ![w] = zero]
      /\ call' = [call EXCEPT ![w] = "none"]
      /\ UNCHANGED <<minibatch_id, epoch, phase, stopped, taken>>
    BY DEF PushMetricCallback, Cleared, Empty, IInv, TypeOK
<1>2. TypeOK'
    <2>1. metric' \in [Workers \cup {Coord} -> [Occurrences -> Nat]]
        BY <1>1 DEF IInv, TypeOK
    <2>2. call' \in [Workers -> Calls]
        BY <1>1 DEF IInv, TypeOK, Calls
    <2> QED BY <1>1, <2>1, <2>2 DEF IInv, TypeOK
<1>3. ExactlyOnce'
    <2> SUFFICES ASSUME NEW p \in Occurrences
                 PROVE  /\ \A v \in Workers : v # taken'[p] => metric'[v][p] = 0
                        /\ IF taken'[p] = NoWorker
                           THEN metric'[Coord][p] = 0
                           ELSE metric'[Coord][p] + Unmerged(taken[p], p)' = 1
        BY DEF ExactlyOnce
    <2>1. taken'[p] = taken[p] /\ metric'[Coord] = metric[Coord] /\ metric'[w][p] = 0
        BY <1>1 DEF IInv, TypeOK
    <2>2. \A v \in Workers : v # w => metric'[v] = metric[v] /\ call'[v] = call[v]
        BY <1>1 DEF IInv, TypeOK
    <2>3. taken[p] # NoWorker => Unmerged(taken[p], p)' = Unmerged(taken[p], p)
        <3>1. CASE taken[p] = w
            BY <1>1, <2>1, <3>1 DEF Unmerged, IInv, TypeOK
        <3>2. CASE taken[p] # w
            BY <2>1, <2>2, <3>2 DEF Unmerged, IInv, TypeOK
        <3> QED BY <3>1, <3>2
    <2> QED BY <2>1, <2>2, <2>3 DEF IInv, ExactlyOnce
<1>4. FedInv'
    BY <1>1 DEF IInv, FedInv
<1>5. StopInv'
    <2>1. \A v \in Workers : \/ v = w /\ \A o \in Occurrences : metric'[v][o] = 0
                             \/ metric'[v] = metric[v] /\ call'[v] = call[v]
        BY <1>1 DEF IInv, TypeOK
    <2>2. phase # "done"
        BY <1>1 DEF IInv, StopInv, Returned
    <2> QED BY <1>1, <2>1, <2>2 DEF IInv, StopInv, TypeOK
<1> QED BY <1>2, <1>3, <1>4, <1>5 DEF IInv

(* A failed push leaves all metrics as they are.                           *)
LEMMA PushMetricRaisesIInv ==
    ASSUME IInv, NEW w \in Workers, PushMetricRaises(w)
    PROVE  IInv'
<1>1. /\ call[w] = "refused"
      /\ call' = [call EXCEPT ![w] = "raised"]
      /\ phase' = "failed"
      /\ UNCHANGED <<metric, minibatch_id, epoch, stopped, taken>>
    BY DEF PushMetricRaises
<1>2. call' \in [Workers -> Calls]
    BY <1>1 DEF IInv, TypeOK, Calls
<1>3. \A v \in Workers : call'[v] \in {"none", "sent"} <=> call[v] \in {"none", "sent"}
    BY <1>1 DEF IInv, TypeOK
<1>4. \A v \in Workers : call'[v] = "none" => call[v] = "none"
    BY <1>1 DEF IInv, TypeOK
<1>5. TypeOK'
    BY <1>1, <1>2 DEF IInv, TypeOK
<1>6. ExactlyOnce'
    BY <1>1, <1>3 DEF IInv, ExactlyOnce, Unmerged, TypeOK
<1>7. FedInv' /\ StopInv'
    BY <1>1, <1>4 DEF IInv, FedInv, StopInv, TypeOK
<1> QED BY <1>5, <1>6, <1>7 DEF IInv

(* An epoch ends when all of it has been fed.                              *)
LEMMA EpochEndsIInv ==
    ASSUME IInv, EpochEnds
    PROVE  IInv'
<1>1. /\ phase = "feeding" /\ Returned
      /\ \A o \in Occurrences : o[1] = epoch => taken[o] # NoWorker
      /\ UNCHANGED <<metric, minibatch_id, call, stopped, taken>>
    BY DEF EpochEnds
<1>2. \/ epoch < Epochs /\ epoch' = epoch + 1 /\ phase' = phase
      \/ ~(epoch < Epochs) /\ epoch' = epoch /\ phase' = "stopping"
    BY DEF EpochEnds, MoreEpochs
<1>3. epoch \in 1..Epochs
    BY DEF IInv, TypeOK
<1>4. \A o \in Occurrences : o[1] \in 1..Epochs
    BY DEF Occurrences
<1>5. TypeOK'
    BY <1>1, <1>2, <1>3 DEF IInv, TypeOK
<1>6. ExactlyOnce'
    BY <1>1 DEF IInv, ExactlyOnce, Unmerged
<1>7. FedInv'
    <2>1. \A o \in Occurrences : o[1] < epoch + 1 => taken[o] # NoWorker
        BY <1>1, <1>3, <1>4 DEF IInv, FedInv
    <2>2. CASE epoch < Epochs
        BY <1>1, <1>2, <2>1, <2>2 DEF FedInv
    <2>3. CASE ~(epoch < Epochs)
        <3>1. \A o \in Occurrences : taken[o] # NoWorker
            BY <1>3, <1>4, <2>1, <2>3
        <3> QED BY <1>1, <1>2, <2>3, <3>1 DEF FedInv
    <2> QED BY <2>2, <2>3
<1>8. StopInv'
    BY <1>1, <1>2 DEF IInv, StopInv, Returned
<1> QED BY <1>5, <1>6, <1>7, <1>8 DEF IInv

(* worker_stop pushes what is left.                                         *)
LEMMA WorkerStopIInv ==
    ASSUME IInv, NEW w \in Workers, WorkerStop(w)
    PROVE  IInv'
<1>1. /\ phase = "stopping"
      /\ w \notin stopped
      /\ stopped' = stopped \cup {w}
      /\ call' = [call EXCEPT ![w] = "sent"]
      /\ UNCHANGED <<metric, minibatch_id, epoch, phase, taken>>
    BY DEF WorkerStop, StopPush
<1>2. call[w] = "none"
    BY <1>1 DEF IInv, StopInv
<1>3. call' \in [Workers -> Calls]
    BY <1>1 DEF IInv, TypeOK, Calls
<1>4. \A v \in Workers : call'[v] \in {"none", "sent"} <=> call[v] \in {"none", "sent"}
    BY <1>1, <1>2 DEF IInv, TypeOK
<1>5. TypeOK'
    BY <1>1, <1>3 DEF IInv, TypeOK
<1>6. ExactlyOnce'
    BY <1>1, <1>4 DEF IInv, ExactlyOnce, Unmerged, TypeOK
<1>7. FedInv'
    BY <1>1 DEF IInv, FedInv
<1>8. StopInv'
    <2>1. call'[w] = "sent" /\ \A v \in Workers : v # w => call'[v] = call[v]
        BY <1>1 DEF IInv, TypeOK
    <2> QED BY <1>1, <2>1 DEF IInv, StopInv, TypeOK
<1> QED BY <1>5, <1>6, <1>7, <1>8 DEF IInv

(* When run() returns all workers have stopped and are back.               *)
LEMMA RunReturnsIInv ==
    ASSUME IInv, RunReturns
    PROVE  IInv'
<1>1. /\ phase = "stopping" /\ stopped = Workers /\ Returned /\ phase' = "done"
      /\ UNCHANGED <<metric, minibatch_id, epoch, call, stopped, taken>>
    BY DEF RunReturns
<1>2. TypeOK'
    BY <1>1 DEF IInv, TypeOK
<1>3. ExactlyOnce'
    BY <1>1 DEF IInv, ExactlyOnce, Unmerged
<1>4. FedInv' /\ StopInv'
    BY <1>1 DEF IInv, FedInv, StopInv, Returned
<1> QED BY <1>2, <1>3, <1>4 DEF IInv

(* Every step preserves the invariant.                                      *)
LEMMA NextIInv == IInv /\ [Next]_vars => IInv'
<1> SUFFICES ASSUME IInv, [Next]_vars PROVE IInv'
    OBVIOUS
<1>1. ASSUME NEW w \in Workers, UpdateProgress(w) PROVE IInv'
    BY <1>1, UpdateProgressIInv
<1>2. ASSUME NEW w \in Workers, HandleRequest(w) PROVE IInv'
    BY <1>2, HandleRequestIInv
<1>3. ASSUME NEW w \in Workers, PushMetricCallback(w) PROVE IInv'
    BY <1>3, PushMetricCallbackIInv
<1>4. ASSUME NEW w \in Workers, PushMetricRaises(w) PROVE IInv'
    BY <1>4, PushMetricRaisesIInv
<1>5. ASSUME NEW w \in Workers, WorkerStop(w) PROVE IInv'
    BY <1>5, WorkerStopIInv
<1>6. CASE EpochEnds
    BY <1>6, EpochEndsIInv
<1>7. CASE RunReturns
    BY <1>7, RunReturnsIInv
<1>8. CASE UNCHANGED vars
    BY <1>8 DEF vars, IInv, TypeOK, ExactlyOnce, FedInv, StopInv, Unmerged, Returned
<1> QED BY <1>1, <1>2, <1>3, <1>4, <1>5, <1>6, <1>7, <1>8 DEF Next

(* With all workers back and their buffers empty, the coordinator has all. *)
LEMMA FinalFromIInv == IInv => FinalMetricExact
<1> SUFFICES ASSUME IInv, phase = "done", NEW o \in Occurrences
             PROVE  metric[Coord][o] = 1
    BY DEF FinalMetricExact
<1>1. taken[o] \in Workers
    BY DEF IInv, FedInv, TypeOK
<1>2. call[taken[o]] = "none" /\ metric[taken[o]][o] = 0
    BY <1>1 DEF IInv, StopInv, Returned
<1>3. metric[Coord][o] + 0 = 1
    BY <1>1, <1>2 DEF IInv, ExactlyOnce, Unmerged
<1> QED BY <1>3 DEF IInv, TypeOK

(* The invariant holds in every state of every behaviour.                   *)
LEMMA IInvHolds == Spec => []IInv
<1> QED BY InitIInv, NextIInv, PTL DEF Spec

(* Whatever the number of workers, minibatches and epochs and the interval *)
(* of the pushes (agent.py push_metric, handle_request): a minibatch that  *)
(* has been trained is counted exactly once.                                *)
THEOREM CountedExactlyOnce == Spec => []ExactlyOnce
<1>1. IInv => ExactlyOnce
    BY DEF IInv
<1> QED BY <1>1, IInvHolds, PTL

(* The final_metric of a job that returns counts the whole dataset, once    *)
(* per epoch (estimator.py worker_stop, _fit).                              *)
THEOREM FinalMetricCorrect == Spec => []FinalMetricExact
<1> QED BY FinalFromIInv, IInvHolds, PTL

(* The types of all variables.                                              *)
THEOREM TypeCorrect == Spec => []TypeOK
<1>1. IInv => TypeOK
    BY DEF IInv
<1> QED BY <1>1, IInvHolds, PTL
=============================================================================

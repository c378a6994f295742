--------------------------- MODULE MCNodeBarrier ---------------------------
(***************************************************************************)
(* A coordinator and two workers that use the trainer's worker barrier,    *)
(* the barrier of workers and coordinator, and a group of one.  Whether    *)
(* the job has a drop_rate is chosen at its start.                         *)
(***************************************************************************)
EXTENDS NodeBarrier

CONSTANTS c, w1, w2

MCNodes == {c, w1, w2}
RolesOfNodes == [n \in Nodes |-> IF n = c THEN "Coordinator" ELSE "Worker"]
MixedGroups == {{"Worker"}, {"Worker", "Coordinator"}, {"Coordinator"}}

VARIABLE lossy  \* this job drops messages

MCInit == Init /\ lossy \in BOOLEAN

MCNext ==
    /\ \/ Step
       \/ lossy /\ Drop
    /\ UNCHANGED lossy

MCSpec == MCInit /\ [][MCNext]_<<vars, lossy>> /\ Fairness

\* Barriers of a job that loses no message: once every member has begun its k-th
\* call, NotifyBarrierDone reaches all of them and the calls return, whatever
\* other barriers they take part in.
ReleasedUnlessLossy == lossy \/ EveryoneReleased

=============================================================================

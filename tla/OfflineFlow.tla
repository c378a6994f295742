----------------------------- MODULE OfflineFlow -----------------------------
(***************************************************************************)
(* The offline part of a flow (offline/): a scheduler puts the tasks of its *)
(* dag in an order, and their commands become a script: a crontab script in *)
(* a local container, a Kubernetes job, or the entrypoint of a SageMaker    *)
(* training job.  The script runs the tasks one after the other; what a     *)
(* failing task does to the ones after it depends on the scheduler.         *)
(*                                                                         *)
(* External: networkx, the shells, cron, the Kubernetes job controller.     *)
(***************************************************************************)
EXTENDS Integers, Sequences, FiniteSets, Functions

CONSTANTS
    Tasks,      \* the names of tasks
    MaxRuns,    \* how often the script is started
    MaxRetries  \* how often Kubernetes starts a failed job again

ASSUME FlowAssumption == IsFiniteSet(Tasks) /\ MaxRuns \in Nat /\ MaxRetries \in Nat

Kinds == {"crontab", "k8s", "sagemaker"}
Runs == 1..MaxRuns

VARIABLES
    kind,      \* the kind of the scheduler
    dag,       \* dag[t]: the tasks that the configuration lists below t
    defined,   \* the tasks that have a resource
    phase,     \* "idle", "published" or the reason why up has raised
    order,     \* _dag_tasks
    jobs,      \* the runs that have been started
    pos,       \* pos[r]: how many tasks run r has been through
    state,     \* state[r]: "none", "between", "running", "ended" or "failed"
    result,    \* result[r][t]: how t has ended in run r
    retries    \* how often the job was started again

flowVars == <<kind, dag, defined, phase, order, jobs, pos, state, result, retries>>
conf == <<kind, dag, defined>>
scriptVars == <<jobs, pos, state, result, retries>>

Results == {"none", "ok", "failed"}
States == {"none", "between", "running", "ended", "failed"}

(* Types of the variables; a run never goes past the last task, and there   *)
(* is one Kubernetes job.                                                   *)
FlowTypeOK ==
    /\ kind \in Kinds /\ dag \in [Tasks -> SUBSET Tasks] /\ defined \subseteq Tasks
    /\ phase \in {"idle", "published", "cyclic", "undefined"}
    /\ order \in Seq(Tasks)
    /\ jobs \in 0..MaxRuns /\ (kind = "k8s" => jobs <= 1)
    /\ pos \in [Runs -> 0..Len(order)]
    /\ state \in [Runs -> States]
    /\ result \in [Runs -> [Tasks -> Results]]
    /\ retries \in 0..MaxRetries

FlowInit ==
    /\ kind \in Kinds
    /\ dag \in [Tasks -> SUBSET Tasks]
    /\ defined \in SUBSET Tasks
    /\ phase = "idle" /\ order = <<>>
    /\ jobs = 0 /\ retries = 0
    /\ pos = [r \in Runs |-> 0]
    /\ state = [r \in Runs |-> "none"]
    /\ result = [r \in Runs |-> [t \in Tasks |-> "none"]]

-----------------------------------------------------------------------------
(* _get_dag: the graph has the edges of the configuration and, with them,   *)
(* its nodes: a task without an edge is not in it.                          *)
Edges == {e \in Tasks \X Tasks : e[2] \in dag[e[1]]}
Nodes == {e[1] : e \in Edges} \cup {e[2] : e \in Edges}

(* networkx: an order in which every task comes after those it depends on;  *)
(* there is none when the graph has a cycle.                                *)
Respects(seq, e) ==
    \E i, j \in DOMAIN seq : i < j /\ seq[i] = e[1] /\ seq[j] = e[2]
TopologicalSorts ==
    {seq \in [1..Cardinality(Nodes) -> Nodes] :
        Range(seq) = Nodes /\ \A e \in Edges : Respects(seq, e)}

(* up: the schedulers are created, which raises for a cycle and for a task  *)
(* that no resource defines, and publish their script.                      *)
Up ==
    /\ phase = "idle"
    /\ \/ /\ TopologicalSorts = {}
          /\ phase' = "cyclic" /\ order' = order
       \/ /\ TopologicalSorts # {} /\ ~(Nodes \subseteq defined)
          /\ phase' = "undefined" /\ order' = order
       \/ /\ Nodes \subseteq defined
          /\ phase' = "published" /\ order' \in TopologicalSorts
    /\ UNCHANGED <<conf, scriptVars>>

(* publish() runs the script once, cron starts it again at its time, also   *)
(* while an earlier run is not over; the job of Kubernetes has one name and *)
(* is started once (its cronjob is not created).                            *)
Schedules == kind = "k8s" => jobs = 0

StartRun ==
    /\ phase = "published" /\ jobs < MaxRuns
    /\ Schedules
    /\ jobs' = jobs + 1
    /\ state' = [state EXCEPT ![jobs + 1] = "between"]
    /\ UNCHANGED <<conf, phase, order, pos, result, retries>>

Current(r) == order[pos[r] + 1]

StartTask(r) ==
    /\ state[r] = "between" /\ pos[r] < Len(order)
    /\ state' = [state EXCEPT ![r] = "running"]
    /\ UNCHANGED <<conf, phase, order, jobs, pos, result, retries>>

TaskSucceeds(r) ==
    /\ state[r] = "running"
    /\ result' = [result EXCEPT ![r][Current(r)] = "ok"]
    /\ pos' = [pos EXCEPT ![r] = @ + 1]
    /\ state' = [state EXCEPT ![r] = "between"]
    /\ UNCHANGED <<conf, phase, order, jobs, retries>>

(* The commands are joined by && (Kubernetes), follow set -e (SageMaker),   *)
(* or are lines of a script that goes on after a failure (crontab).         *)
GoesOn_Mutant == kind \in {"crontab", "sagemaker"}
GoesOn == kind = "crontab"

TaskFails(r) ==
    /\ state[r] = "running"
    /\ result' = [result EXCEPT ![r][Current(r)] = "failed"]
    /\ pos' = [pos EXCEPT ![r] = @ + 1]
    /\ state' = [state EXCEPT ![r] = IF GoesOn THEN "between" ELSE "failed"]
    /\ UNCHANGED <<conf, phase, order, jobs, retries>>

(* The script is over.                                                      *)
ScriptOver_Mutant(r) == pos[r] + 1 >= Len(order)
ScriptOver(r) == pos[r] = Len(order)

EndRun(r) ==
    /\ state[r] = "between" /\ ScriptOver(r)
    /\ state' = [state EXCEPT ![r] = "ended"]
    /\ UNCHANGED <<conf, phase, order, jobs, pos, result, retries>>

(* restartPolicy is Never: for a pod that has failed the job controller     *)
(* makes another one, which begins with the first task.                     *)
RetryJob(r) ==
    /\ kind = "k8s" /\ state[r] = "failed" /\ retries < MaxRetries
    /\ retries' = retries + 1
    /\ pos' = [pos EXCEPT ![r] = 0]
    /\ state' = [state EXCEPT ![r] = "between"]
    /\ result' = [result EXCEPT ![r] = [t \in Tasks |-> "none"]]
    /\ UNCHANGED <<conf, phase, order, jobs>>

ScriptStep(r) ==
    StartTask(r) \/ TaskSucceeds(r) \/ TaskFails(r) \/ EndRun(r) \/ RetryJob(r)

FlowNext == Up \/ StartRun \/ \E r \in Runs : ScriptStep(r)

FlowSpec == FlowInit /\ [][FlowNext]_flowVars

-----------------------------------------------------------------------------
(* Scheduler.  A task is run only after every task it depends on has ended  *)
(* in the same run; with Kubernetes and SageMaker all of them have          *)
(* succeeded, a retried job included.                                       *)
AfterDependencies ==
    /\ FlowTypeOK
    /\ \A r \in Runs : state[r] = "running" =>
        \A e \in Edges : e[2] = Current(r) =>
            result[r][e[1]] \in (IF kind = "crontab" THEN {"ok", "failed"} ELSE {"ok"})

(* A run that ends has been through every task of the dag, and except under *)
(* cron it ends only when all of them have succeeded.                       *)
EndedRanAll ==
    \A r \in Runs : state[r] = "ended" => \A t \in Nodes :
        result[r][t] \in (IF kind = "crontab" THEN {"ok", "failed"} ELSE {"ok"})
=============================================================================

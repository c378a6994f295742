---------------------------- MODULE OrchestrationProofs ----------------------------
(***************************************************************************)
(* What surrounds the training and the serving, for all values of the      *)
(* constants: the flows that are scheduled offline (OfflineFlow), the      *)
(* scenes trained and deployed on SageMaker (SageMakerFlow), the watcher   *)
(* that has models loaded (ModelWatcher), the jobs that are launched on    *)
(* Spark (AgentLaunch) and the resources a flow is read from               *)
(* (ResourceLoader).  The five do not share state; they are proved in one  *)
(* module, each with an inductive invariant of its own.                    *)
(***************************************************************************)
EXTENDS ModelWatcher, SageMakerFlow, OfflineFlow, AgentLaunch,
        ResourceLoader, SequenceTheorems, FiniteSetTheorems, TLAPS


-----------------------------------------------------------------------------
(****************************************************************************)
(* Offline flows                                                             *)
(****************************************************************************)
(* The tasks that a run is past have ended, in the way the scheduler needs. *)
Passed == IF kind = "crontab" THEN {"ok", "failed"} ELSE {"ok"}
PassedInv ==
    \A r \in Runs : state[r] \in {"between", "running", "ended"} =>
        \A i \in 1..pos[r] : result[r][order[i]] \in Passed

(* The order a published flow has is one networkx gives, and nothing runs   *)
(* before it is there.                                                      *)
OrderInv ==
    /\ phase = "published" => order \in TopologicalSorts
    /\ phase # "published" => order = <<>>
    /\ \A r \in Runs : state[r] # "none" => phase = "published"
    /\ \A r \in Runs : state[r] = "none" => pos[r] = 0
    /\ \A r \in Runs : r > jobs => state[r] = "none"

(* A run that is at a task has one, a run that has ended has none left.     *)
PlaceInv ==
    \A r \in Runs : /\ state[r] = "running" => pos[r] < Len(order)
                    /\ state[r] = "ended" => pos[r] = Len(order)

(* The invariant of a flow: each part speaks of what the next one needs.    *)
FlowInv == FlowTypeOK /\ OrderInv /\ PlaceInv /\ PassedInv

(* A topological sort has every node of the DAG at one place and at no      *)
(* other: it has as many places as there are nodes and reaches them all.    *)
LEMMA SortedOnce ==
    ASSUME NEW seq \in TopologicalSorts, dag \in [Tasks -> SUBSET Tasks]
    PROVE  /\ seq \in Seq(Tasks) /\ Len(seq) = Cardinality(Nodes) /\ Range(seq) = Nodes
           /\ \A i, j \in 1..Len(seq) : seq[i] = seq[j] => i = j
<1>1. Nodes \subseteq Tasks
  BY DEF Nodes, Edges
<1>2. IsFiniteSet(Nodes) /\ Cardinality(Nodes) \in Nat
  BY <1>1, FlowAssumption, FS_Subset, FS_CardinalityType DEF FlowAssumption
<1>3. seq \in [1..Cardinality(Nodes) -> Nodes] /\ Range(seq) = Nodes
  BY DEF TopologicalSorts
<1>4. seq \in Surjection(1..Cardinality(Nodes), Nodes)
  BY <1>3 DEF Range, Surjection
<1>5. IsFiniteSet(1..Cardinality(Nodes)) /\ Cardinality(1..Cardinality(Nodes)) = Cardinality(Nodes)
  BY <1>2, FS_Interval
<1>6. seq \in Injection(1..Cardinality(Nodes), Nodes)
  BY <1>4, <1>5, FS_SurjSameCardinalityImpliesInj
<1>7. seq \in Seq(Tasks) /\ Len(seq) = Cardinality(Nodes)
  BY <1>1, <1>2, <1>3
<1> QED
  BY <1>3, <1>6, <1>7 DEF Injection, IsInjective

(* A flow that is not published, of which no run has started.               *)
LEMMA FlowInitial == FlowInit => FlowInv
  BY FlowAssumption DEF FlowInit, FlowInv, FlowTypeOK, OrderInv, PlaceInv, PassedInv, Kinds,
     States, Results, FlowAssumption, Runs

(* Every step of up, of the scheduler and of a script keeps the invariant.  *)
LEMMA FlowInductive == FlowInv /\ [FlowNext]_flowVars => FlowInv'
<1> SUFFICES ASSUME FlowInv, [FlowNext]_flowVars PROVE FlowInv'
  OBVIOUS
<1> USE FlowAssumption DEF FlowAssumption, FlowInv
<1>1. ASSUME Up PROVE FlowInv'
  <2> USE <1>1 DEF Up, conf, scriptVars
  <2>1. order' \in Seq(Tasks)
    BY SortedOnce DEF FlowTypeOK
  <2>2. \A r \in Runs : pos[r] = 0 /\ state[r] = "none"
    BY DEF OrderInv, FlowTypeOK
  <2>3. FlowTypeOK'
    BY <2>1, <2>2 DEF FlowTypeOK
  <2>4. UNCHANGED TopologicalSorts
    BY DEF TopologicalSorts, Nodes, Edges, Respects
  <2>5. OrderInv'
    BY <2>2, <2>4 DEF OrderInv
  <2> QED
    BY <2>2, <2>3, <2>5 DEF PlaceInv, PassedInv
<1>2. ASSUME UNCHANGED <<kind, dag, defined, phase, order>>, FlowTypeOK',
             NEW r \in Runs, state'[r] # "none", phase = "published",
             jobs' >= jobs, r <= jobs',
             \A q \in Runs : q # r => /\ pos'[q] = pos[q] /\ state'[q] = state[q]
                                      /\ result'[q] = result[q],
             state'[r] = "running" => pos'[r] < Len(order),
             state'[r] = "ended" => pos'[r] = Len(order),
             state'[r] \in {"between", "running", "ended"} =>
                \A i \in 1..pos'[r] : result'[r][order[i]] \in Passed
      PROVE  FlowInv'
  <2>1. UNCHANGED <<TopologicalSorts, Passed>>
    BY <1>2 DEF TopologicalSorts, Nodes, Edges, Respects, Passed
  <2>2. OrderInv' /\ PlaceInv' /\ PassedInv'
    <3>1. jobs' \in Nat /\ jobs \in Nat /\ \A q \in Runs : q \in Nat
      BY <1>2 DEF FlowTypeOK, Runs
    <3>2. OrderInv'
      BY <1>2, <2>1, <3>1 DEF OrderInv
    <3> QED
      BY <1>2, <2>1, <3>2 DEF PlaceInv, PassedInv
  <2> QED
    BY <1>2, <2>2
<1>3. CASE StartRun
  <2> USE <1>3 DEF StartRun, conf
  <2>1. jobs + 1 \in Runs
    BY DEF FlowTypeOK, Runs
  <2>2. FlowTypeOK'
    BY <2>1 DEF FlowTypeOK, Schedules, States
  <2>3. pos[jobs + 1] = 0
    BY <2>1 DEF OrderInv, FlowTypeOK
  <2> QED
    BY <2>1, <2>2, <2>3, <1>2 DEF FlowTypeOK
<1>4. ASSUME NEW r \in Runs, ScriptStep(r) PROVE FlowInv'
  <2>0. ASSUME state[r] # "none" PROVE phase = "published" /\ r <= jobs
    BY <2>0 DEF OrderInv, FlowTypeOK, Runs
  <2>1. CASE StartTask(r)
    <3> USE <2>1 DEF StartTask, conf
    <3>1. FlowTypeOK'
      BY DEF FlowTypeOK, States
    <3>2. state'[r] = "running" /\ jobs \in Nat
      BY DEF FlowTypeOK
    <3>3. \A i \in 1..pos[r] : result[r][order[i]] \in Passed
      BY DEF PassedInv
    <3> QED
      BY <2>0, <3>1, <3>2, <3>3, <1>2 DEF FlowTypeOK
  <2>2. ASSUME state[r] = "running", NEW res \in {"ok", "failed"},
               pos' = [pos EXCEPT ![r] = @ + 1],
               result' = [result EXCEPT ![r][Current(r)] = res],
               state' = [state EXCEPT ![r] = IF res \in Passed THEN "between" ELSE "failed"],
               UNCHANGED <<conf, phase, order, jobs, retries>>
        PROVE  FlowInv'
    <3> USE <2>2 DEF conf
    <3>1. pos[r] + 1 \in 1..Len(order) /\ Current(r) \in Tasks
      BY DEF Current, FlowTypeOK, PlaceInv
    <3>2. FlowTypeOK'
      BY <3>1 DEF FlowTypeOK, States, Results
    <3>3. \A i \in 1..pos[r] : result[r][order[i]] \in Passed
      BY DEF PassedInv
    <3>4. \A i \in 1..(pos[r] + 1) : order[i] \in Tasks
      BY <3>1 DEF FlowTypeOK
    <3>5. \A i \in 1..(pos[r] + 1) : i \in 1..pos[r] \/ order[i] = Current(r)
      BY <3>1 DEF Current, FlowTypeOK
    <3>6. res \in Passed => \A i \in 1..(pos[r] + 1) : result'[r][order[i]] \in Passed
      BY <3>1, <3>3, <3>4, <3>5 DEF FlowTypeOK
    <3>7. pos'[r] = pos[r] + 1 /\ state'[r] \in {"between", "failed"}
          /\ (state'[r] = "between" => res \in Passed) /\ jobs \in Nat
      BY DEF FlowTypeOK
    <3>8. \A q \in Runs : q # r => /\ pos'[q] = pos[q] /\ state'[q] = state[q]
                                    /\ result'[q] = result[q]
      BY DEF FlowTypeOK
    <3> QED
      BY <2>0, <3>2, <3>6, <3>7, <3>8, <1>2
  <2>3. CASE TaskSucceeds(r)
    BY <2>3, <2>2 DEF TaskSucceeds, Passed
  <2>4. CASE TaskFails(r)
    BY <2>4, <2>2 DEF TaskFails, GoesOn, Passed
  <2>5. CASE EndRun(r)
    <3> USE <2>5 DEF EndRun, conf
    <3>1. FlowTypeOK'
      BY DEF FlowTypeOK, States
    <3>2. state'[r] = "ended" /\ jobs \in Nat /\ pos[r] = Len(order)
      BY DEF FlowTypeOK, ScriptOver
    <3>3. \A i \in 1..pos[r] : result[r][order[i]] \in Passed
      BY DEF PassedInv
    <3> QED
      BY <2>0, <3>1, <3>2, <3>3, <1>2 DEF FlowTypeOK
  <2>6. CASE RetryJob(r)
    <3> USE <2>6 DEF RetryJob, conf
    <3>1. FlowTypeOK'
      BY DEF FlowTypeOK, States, Results
    <3>2. state'[r] = "between" /\ jobs \in Nat /\ pos'[r] = 0
      BY DEF FlowTypeOK
    <3>3. \A q \in Runs : q # r => /\ pos'[q] = pos[q] /\ state'[q] = state[q]
                                    /\ result'[q] = result[q]
      BY DEF FlowTypeOK
    <3> QED
      BY <2>0, <3>1, <3>2, <3>3, <1>2
  <2> QED
    BY <1>4, <2>1, <2>3, <2>4, <2>5, <2>6 DEF ScriptStep
<1>5. CASE UNCHANGED flowVars
  <2> USE <1>5 DEF flowVars
  <2>1. UNCHANGED <<TopologicalSorts, Passed>>
    BY DEF TopologicalSorts, Nodes, Edges, Respects, Passed
  <2>2. FlowTypeOK' /\ PlaceInv'
    BY DEF FlowTypeOK, PlaceInv
  <2>3. OrderInv' /\ PassedInv'
    BY <2>1 DEF OrderInv, PassedInv
  <2> QED
    BY <2>2, <2>3
<1> QED
  BY <1>1, <1>3, <1>4, <1>5 DEF FlowNext

(* The invariant holds for every set of tasks, every DAG and all runs of    *)
(* it.                                                                      *)
THEOREM FlowSafe == FlowSpec => []FlowInv
  BY FlowInitial, FlowInductive, PTL DEF FlowSpec

(* scheduler.py: for every DAG, a task runs after the tasks it depends on,  *)
(* which have succeeded unless the scheduler is the crontab one, whose      *)
(* script goes on.                                                          *)
THEOREM FlowAfterDependencies == FlowSpec => []AfterDependencies
<1>1. FlowInv => AfterDependencies
  <2> SUFFICES ASSUME FlowInv, NEW r \in Runs, state[r] = "running",
                      NEW e \in Edges, e[2] = Current(r)
               PROVE  result[r][e[1]] \in Passed
    BY DEF AfterDependencies, FlowInv, Passed
  <2>1. order \in TopologicalSorts /\ pos[r] + 1 \in 1..Len(order)
    BY DEF FlowInv, OrderInv, PlaceInv, FlowTypeOK
  <2>2. PICK i, j \in DOMAIN order : i < j /\ order[i] = e[1] /\ order[j] = e[2]
    BY <2>1 DEF TopologicalSorts, Respects
  <2>3. i \in 1..Len(order) /\ j \in 1..Len(order) /\ j = pos[r] + 1
    BY <2>1, <2>2, SortedOnce DEF FlowInv, FlowTypeOK, Current
  <2>4. i \in 1..pos[r]
    BY <2>2, <2>3 DEF FlowInv, FlowTypeOK
  <2> QED
    BY <2>2, <2>4 DEF FlowInv, PassedInv
<1> QED
  BY <1>1, FlowSafe, PTL

(* scheduler.py: a run that has ended has been through all tasks of the     *)
(* DAG.                                                                     *)
THEOREM FlowEndedRanAll == FlowSpec => []EndedRanAll
<1>1. FlowInv => EndedRanAll
  <2> SUFFICES ASSUME FlowInv, NEW r \in Runs, state[r] = "ended", NEW t \in Nodes
               PROVE  result[r][t] \in Passed
    BY DEF EndedRanAll, Passed
  <2>1. order \in TopologicalSorts /\ pos[r] = Len(order)
    BY DEF FlowInv, OrderInv, PlaceInv
  <2>2. PICK i \in 1..Len(order) : order[i] = t
    <3>1. order \in Seq(Tasks) /\ dag \in [Tasks -> SUBSET Tasks]
      BY DEF FlowInv, FlowTypeOK
    <3>2. Range(order) = Nodes
      BY <2>1, <3>1, SortedOnce
    <3> QED
      BY <3>1, <3>2 DEF Range
  <2> QED
    BY <2>1, <2>2 DEF FlowInv, PassedInv
<1> QED
  BY <1>1, FlowSafe, PTL

-----------------------------------------------------------------------------
(****************************************************************************)
(* Scenes on SageMaker                                                       *)
(****************************************************************************)
(* What the steps of a command find done: the configuration is there when   *)
(* the entry is installed, and the entry is gone when it is taken away.     *)
CommandInv ==
    /\ Scheduled /\ ~rewriting => Configured
    /\ cli \in {"syncing", "entrypoint", "save", "saving"} => rewriting
    /\ cli = "entrypoint" => "config" \in s3
    /\ cli \in {"save", "saving"} => s3 = Parts
    /\ cli = "install" => Configured
    /\ cli \in {"clearflow", "clears3"} => ~Scheduled

(* A runner that deploys has seen the training job of its version complete. *)
TrainedInv ==
    /\ \A r \in Runners : rpc[r] # "none" => version[r] \in ModelVersions
    /\ \A r \in Runners : rpc[r] \in {"updating", "creating"} =>
            training[version[r]] = "Completed"
    /\ DeployedIsTrained

(* The invariant of a scene.                                                *)
SceneInv == SceneTypeOK /\ CommandInv /\ TrainedInv /\ LocksAreAlive

(* The order in which up and down take their steps, which the generic       *)
(* StepAfter reads off the two sequences.                                   *)
LEMMA CommandOrder ==
    /\ PublishOrder[1] = "sync" /\ DestroyOrder[1] = "uninstall"
    /\ NextStep("sync") = "syncing" /\ NextStep("syncing") = "entrypoint"
    /\ NextStep("entrypoint") = "save" /\ NextStep("save") = "saving"
    /\ NextStep("saving") = "install" /\ NextStep("install") = "runonce"
    /\ NextStep("uninstall") = "clearflow" /\ NextStep("clearflow") = "clears3"
    /\ NextStep("clears3") = "delendpoint" /\ NextStep("delendpoint") = "delconfigs"
    /\ NextStep("delconfigs") = "idle"
<1>1. /\ DOMAIN PublishOrder = 1..7
      /\ PublishOrder[1] = "sync" /\ PublishOrder[2] = "syncing"
      /\ PublishOrder[3] = "entrypoint" /\ PublishOrder[4] = "save"
      /\ PublishOrder[5] = "saving" /\ PublishOrder[6] = "install"
      /\ PublishOrder[7] = "runonce"
  BY DEF PublishOrder
<1>2. /\ DOMAIN DestroyOrder = 1..5
      /\ DestroyOrder[1] = "uninstall" /\ DestroyOrder[2] = "clearflow"
      /\ DestroyOrder[3] = "clears3" /\ DestroyOrder[4] = "delendpoint"
      /\ DestroyOrder[5] = "delconfigs"
  BY DEF DestroyOrder
<1>3. ASSUME NEW steps, NEW n \in 1..7, DOMAIN steps = 1..n, NEW i \in 1..n,
             \A k \in 1..n : steps[k] = steps[i] => k = i
      PROVE  StepAfter(steps, steps[i]) = IF i < n THEN steps[i + 1] ELSE "idle"
  <2>1. (CHOOSE k \in DOMAIN steps : steps[k] = steps[i]) = i
    BY <1>3
  <2> QED
    BY <1>3, <2>1 DEF StepAfter
<1>4. \A i \in 1..7 : /\ NextStep(PublishOrder[i]) = StepAfter(PublishOrder, PublishOrder[i])
                      /\ \A k \in 1..7 : PublishOrder[k] = PublishOrder[i] => k = i
  BY <1>1 DEF NextStep
<1>5. \A i \in 1..5 : /\ NextStep(DestroyOrder[i]) = StepAfter(DestroyOrder, DestroyOrder[i])
                      /\ \A k \in 1..5 : DestroyOrder[k] = DestroyOrder[i] => k = i
  BY <1>1, <1>2 DEF NextStep
<1>6. \A i \in 1..6 : NextStep(PublishOrder[i]) = PublishOrder[i + 1]
  BY <1>1, <1>3, <1>4
<1>7. \A i \in 1..5 : NextStep(DestroyOrder[i]) = IF i < 5 THEN DestroyOrder[i + 1] ELSE "idle"
  BY <1>2, <1>3, <1>5
<1> QED
  BY <1>1, <1>2, <1>6, <1>7

(* What the editing of a crontab leaves: the entries of others stay, and    *)
(* there is one entry of the scene at most.                                 *)
CrontabOK(lines) ==
    /\ lines \subseteq {Foreign} \cup {Entry(e) : e \in Exprs}
    /\ \A d, e \in Exprs : Entry(d) \in lines /\ Entry(e) \in lines => d = e
    /\ Foreign \in lines \/ "fail" \in Faults

LEMMA Crontabs ==
    ASSUME NEW lines, CrontabOK(lines) \/ (lines = {} /\ "fail" \in Faults)
    PROVE  /\ CrontabOK(Others(lines)) /\ Others(Others(lines)) = Others(lines)
           /\ \A e \in Exprs : CrontabOK(NewSpec(lines, e))
<1>1. lines \subseteq {Foreign} \cup {Entry(e) : e \in Exprs}
  BY DEF CrontabOK
<1>2. Foreign \in lines \/ "fail" \in Faults
  BY DEF CrontabOK
<1>3. Others(lines) \subseteq {Foreign} /\ (Foreign \in lines => Foreign \in Others(lines))
  BY <1>1 DEF Others, Foreign, Entry
<1>4. \A e \in Exprs : Entry(e) # Foreign
  BY DEF Foreign, Entry
<1>5. CrontabOK(Others(lines))
  BY <1>2, <1>3, <1>4 DEF CrontabOK
<1>6. Others(Others(lines)) = Others(lines)
  BY DEF Others
<1>7. ASSUME NEW e \in Exprs PROVE CrontabOK(NewSpec(lines, e))
  <2>1. NewSpec(lines, e) = Others(lines) \cup {Entry(e)}
    BY DEF NewSpec
  <2>2. \A d \in Exprs : Entry(d) \in NewSpec(lines, e) => Entry(d) = Entry(e)
    BY <2>1, <1>3, <1>4
  <2>3. \A d \in Exprs : Entry(d) = Entry(e) => d = e
    BY DEF Entry
  <2> QED
    BY <1>2, <1>3, <2>1, <2>2, <2>3 DEF CrontabOK
<1> QED
  BY <1>5, <1>6, <1>7

(* Nothing is scheduled, trained or deployed.                               *)
LEMMA SceneInitial == SceneInit => SceneInv
<1> SUFFICES ASSUME SceneInit PROVE SceneInv
  OBVIOUS
<1> USE SceneAssumption DEF SceneInit, SceneAssumption
<1>1. SceneTypeOK
  <2>1. clock \in 1..Minutes /\ cli \in CliSteps /\ calls \in 0..CliCalls
    BY DEF CliSteps
  <2>2. rpc \in [Runners -> RunSteps]
    BY DEF RunSteps
  <2>3. CrontabOK({Foreign})
    BY DEF CrontabOK, Foreign, Entry
  <2> QED
    BY <2>1, <2>2, <2>3 DEF SceneTypeOK, Inodes, CrontabOK
<1>2. ~Scheduled
  BY DEF Scheduled, Others, Foreign
<1> QED
  BY <1>1, <1>2 DEF SceneInv, CommandInv, TrainedInv, DeployedIsTrained, LocksAreAlive

(* Every step of a command, of a runner and of the service keeps it.        *)
LEMMA SceneInductive == SceneInv /\ [SceneNext]_sceneVars => SceneInv'
<1> SUFFICES ASSUME SceneInv, [SceneNext]_sceneVars PROVE SceneInv'
  OBVIOUS
<1> USE SceneAssumption DEF SceneAssumption, SceneInv, cliVars, runVars, awsVars
<1>a. ASSUME UNCHANGED crontab PROVE Scheduled' = Scheduled
  BY <1>a DEF Scheduled, Others
<1>1. CASE Tick
  BY <1>1, <1>a DEF Tick, SceneTypeOK, CommandInv, Configured, TrainedInv, DeployedIsTrained,
      LocksAreAlive
<1>2. CASE Command
  <2>1. cli' \in {"sync", "uninstall"}
    BY <1>2, CommandOrder DEF Command
  <2>2. SceneTypeOK'
    BY <1>2, <2>1 DEF Command, SceneTypeOK, CliSteps
  <2>3. CommandInv'
    BY <1>2, <1>a, <2>1 DEF Command, CommandInv, Configured
  <2> QED
    BY <1>2, <2>2, <2>3 DEF Command, TrainedInv, DeployedIsTrained, LocksAreAlive
<1>3. CASE CliFails
  <2> USE <1>3 DEF CliFails
  <2>1. s3' \subseteq s3 /\ configs' \subseteq configs /\ (s3' = s3 \/ cli = "clears3")
    OBVIOUS
  <2>2. SceneTypeOK'
    BY <2>1 DEF SceneTypeOK, CliSteps
  <2>3. CommandInv'
    BY <2>1, <1>a DEF CommandInv, Configured
  <2> QED
    BY <2>2, <2>3 DEF TrainedInv, DeployedIsTrained, LocksAreAlive
<1>4. CASE FileStep
  <2> USE <1>4 DEF FileStep
  <2>1. SceneTypeOK' /\ CommandInv'
    <3>1. CrontabOK(crontab)
      BY DEF SceneTypeOK, CrontabOK
    <3>2. cli' \in CliSteps
      BY CommandOrder DEF CliSteps, UploadConfig, SaveFlowConfig, UpdateCrontab, TakeBack
    <3>3. ASSUME UploadConfig
          PROVE  /\ crontab' = crontab /\ flow' = flow /\ s3' \subseteq Parts
                 /\ rewriting' \in BOOLEAN /\ UNCHANGED <<configs, endpoint>> /\ CommandInv'
      <4> USE <3>3 DEF UploadConfig
      <4>1. s3' \subseteq Parts /\ rewriting' \in BOOLEAN
        BY DEF SceneTypeOK, Parts
      <4>2. rewriting'
        BY DEF CommandInv
      <4>3. ASSUME cli = "sync" PROVE CommandInv'
        <5>1. cli' = "syncing"
          BY <4>3, CommandOrder
        <5> QED
          BY <4>2, <5>1 DEF CommandInv
      <4>4. ASSUME cli = "syncing" PROVE CommandInv'
        <5>1. cli' = "entrypoint" /\ s3' = {"config"}
          BY <4>4, CommandOrder
        <5> QED
          BY <4>2, <5>1 DEF CommandInv
      <4>5. ASSUME cli = "entrypoint" PROVE CommandInv'
        <5>1. s3' = Parts
          BY <4>1, <4>5 DEF CommandInv, Parts
        <5> QED
          BY <4>2, <4>5, <5>1, CommandOrder DEF CommandInv
      <4> QED
        BY <4>1, <4>3, <4>4, <4>5
    <3>4. ASSUME SaveFlowConfig
          PROVE  /\ UNCHANGED <<crontab, s3, configs, endpoint>>
                 /\ flow' \in BOOLEAN /\ rewriting' \in BOOLEAN /\ CommandInv'
      <4> USE <3>4 DEF SaveFlowConfig
      <4>1. ASSUME cli = "save" PROVE CommandInv'
        BY <4>1, CommandOrder DEF CommandInv, SceneTypeOK
      <4>2. ASSUME cli = "saving" PROVE CommandInv'
        BY <4>2, CommandOrder DEF CommandInv, Configured
      <4>3. UNCHANGED <<crontab, s3, configs, endpoint>> /\ cli \in {"save", "saving"}
        OBVIOUS
      <4>4. flow' \in BOOLEAN /\ rewriting' \in BOOLEAN
        BY DEF SceneTypeOK
      <4> QED
        BY <4>1, <4>2, <4>3, <4>4
    <3>5. ASSUME UpdateCrontab
          PROVE  /\ UNCHANGED <<flow, s3, rewriting, configs, endpoint>>
                 /\ CrontabOK(crontab') /\ CommandInv'
      <4>1. PICK lines \in OldSpecs :
                \/ cli = "install" /\ \E e \in Exprs : crontab' = NewSpec(lines, e)
                \/ cli = "uninstall" /\ crontab' = Others(lines)
        BY <3>5 DEF UpdateCrontab
      <4>2. CrontabOK(lines) \/ (lines = {} /\ "fail" \in Faults)
        BY <3>1 DEF OldSpecs
      <4>3. UNCHANGED <<flow, s3, rewriting, configs, endpoint>>
        BY <3>5 DEF UpdateCrontab
      <4>4. CASE cli = "install"
        BY <4>1, <4>2, <4>3, <4>4, Crontabs, CommandOrder DEF CommandInv, Configured
      <4>5. CASE cli = "uninstall"
        <5>1. CrontabOK(crontab') /\ ~Scheduled'
          BY <4>1, <4>2, <4>5, Crontabs DEF Scheduled
        <5> QED
          BY <4>3, <4>5, <5>1, CommandOrder DEF CommandInv
      <4> QED
        BY <4>1, <4>4, <4>5
    <3>6. ASSUME TakeBack
          PROVE  /\ crontab' = crontab /\ flow' \in BOOLEAN /\ s3' \subseteq Parts
                 /\ rewriting' = rewriting /\ configs' \subseteq ModelVersions
                 /\ endpoint' \in ModelVersions \cup {None} /\ CommandInv'
      <4> USE <3>6 DEF TakeBack
      <4>1. /\ crontab' = crontab /\ flow' \in BOOLEAN /\ s3' \subseteq Parts
            /\ rewriting' = rewriting /\ configs' \subseteq ModelVersions
            /\ endpoint' \in ModelVersions \cup {None}
        BY DEF SceneTypeOK
      <4>2. ASSUME cli \in {"clearflow", "clears3"} PROVE CommandInv'
        <5>1. cli' \in {"clears3", "delendpoint"}
          BY <4>2, CommandOrder
        <5>2. ~Scheduled'
          BY <4>1, <4>2, <1>a DEF CommandInv
        <5> QED
          BY <5>1, <5>2 DEF CommandInv
      <4>3. ASSUME cli \in {"delendpoint", "delconfigs"} PROVE CommandInv'
        <5>1. cli' \in {"delconfigs", "idle"} /\ UNCHANGED <<flow, s3>>
          BY <4>3, CommandOrder
        <5>2. Configured' = Configured /\ Scheduled' = Scheduled /\ rewriting' = rewriting
          BY <4>1, <5>1, <1>a DEF Configured
        <5>3. Scheduled' /\ ~rewriting' => Configured'
          BY <5>2 DEF CommandInv
        <5> QED
          BY <5>1, <5>3 DEF CommandInv
      <4> QED
        BY <4>1, <4>2, <4>3
    <3>7. SceneTypeOK'
      BY <3>1, <3>2, <3>3, <3>4, <3>5, <3>6 DEF SceneTypeOK, CrontabOK
    <3> QED
      BY <3>3, <3>4, <3>5, <3>6, <3>7
  <2>2. training' = training /\ rpc' = rpc /\ version' = version /\ endpoint' \in {endpoint, None}
    BY DEF UploadConfig, SaveFlowConfig, UpdateCrontab, TakeBack
  <2>3. TrainedInv'
    BY <2>2 DEF TrainedInv, DeployedIsTrained
  <2>4. LocksAreAlive'
    BY DEF LocksAreAlive
  <2> QED
    BY <2>1, <2>3, <2>4
<1>5. CASE RunOnceReturns
  BY <1>5, <1>a DEF RunOnceReturns, SceneTypeOK, CliSteps, CommandInv, Configured, TrainedInv,
      DeployedIsTrained, LocksAreAlive
<1>6. ASSUME NEW r \in Runners, CronStarts(r) \/ RunJobOnce(r) PROVE SceneInv'
  <2> USE <1>6 DEF CronStarts, RunJobOnce, Parse, Goto
  <2>1. SceneTypeOK'
    <3>1. /\ rpc' \in [Runners -> RunSteps] /\ version' \in [Runners -> ModelVersions \cup {None}]
          /\ cli' \in CliSteps /\ once' \in Runners \cup {None}
      <4>1. rpc' \in [Runners -> RunSteps]
        BY DEF SceneTypeOK, RunSteps
      <4>2. version' \in [Runners -> ModelVersions \cup {None}]
        BY DEF SceneTypeOK, ModelVersions
      <4>3. cli' \in CliSteps /\ once' \in Runners \cup {None}
        BY DEF SceneTypeOK, CliSteps
      <4> QED
        BY <4>1, <4>2, <4>3
    <3>2. UNCHANGED <<clock, crontab, flow, s3, rewriting, calls, fd, path, holder, training, configs, endpoint>>
      OBVIOUS
    <3> QED
      BY <3>1, <3>2 DEF SceneTypeOK
  <2>2. CommandInv'
    BY <1>a DEF CommandInv, Configured
  <2>3. TrainedInv'
    BY DEF TrainedInv, DeployedIsTrained, SceneTypeOK, ModelVersions
  <2>4. LocksAreAlive'
    BY DEF LocksAreAlive, SceneTypeOK
  <2> QED
    BY <2>1, <2>2, <2>3, <2>4
<1>7. ASSUME NEW r \in Runners, RunnerStep(r) \/ BodyRaises(r) \/ Die(r) PROVE SceneInv'
  <2>1. CommandInv'
    BY <1>7, <1>a DEF RunnerStep, BodyRaises, Die, OpenPid, FlockPid, CreateTrainingJob,
        WaitTrainingJob,
       CreateModel, CreateOrUpdateEndpoint, ClosePid, RemovePid, CommandInv, Configured
  <2>2. CASE OpenPid(r)
    BY <2>1, <2>2 DEF OpenPid, Goto, SceneTypeOK, RunSteps, Inodes, TrainedInv,
        DeployedIsTrained, LocksAreAlive
  <2>3. CASE FlockPid(r)
    BY <2>1, <2>3 DEF FlockPid, Goto, SceneTypeOK, RunSteps, Inodes, TrainedInv,
        DeployedIsTrained, LocksAreAlive
  <2>4. CASE CreateTrainingJob(r)
    BY <2>1, <2>4 DEF CreateTrainingJob, Goto, SceneTypeOK, RunSteps, Inodes, TrainedInv,
        DeployedIsTrained, LocksAreAlive
  <2>5. CASE WaitTrainingJob(r)
    BY <2>1, <2>5 DEF WaitTrainingJob, Deploys, Goto, SceneTypeOK, RunSteps, Inodes,
        TrainedInv, DeployedIsTrained, LocksAreAlive
  <2>6. CASE CreateModel(r)
    BY <2>1, <2>6 DEF CreateModel, Goto, SceneTypeOK, RunSteps, Inodes, TrainedInv,
        DeployedIsTrained, LocksAreAlive
  <2>7. CASE CreateOrUpdateEndpoint(r)
    BY <2>1, <2>7 DEF CreateOrUpdateEndpoint, Goto, SceneTypeOK, RunSteps, Inodes,
        TrainedInv, DeployedIsTrained, LocksAreAlive
  <2>8. CASE ClosePid(r)
    BY <2>1, <2>8 DEF ClosePid, Released, Goto, SceneTypeOK, RunSteps, Inodes,
        TrainedInv, DeployedIsTrained, LocksAreAlive
  <2>9. CASE RemovePid(r)
    BY <2>1, <2>9 DEF RemovePid, Goto, SceneTypeOK, RunSteps, Inodes, TrainedInv,
        DeployedIsTrained, LocksAreAlive
  <2>10. CASE BodyRaises(r)
    BY <2>1, <2>10 DEF BodyRaises, Goto, SceneTypeOK, RunSteps, Inodes, TrainedInv,
        DeployedIsTrained, LocksAreAlive
  <2>11. CASE Die(r)
    BY <2>1, <2>11 DEF Die, Goto, SceneTypeOK, RunSteps, Inodes, TrainedInv,
        DeployedIsTrained, LocksAreAlive
  <2> QED
    BY <1>7, <2>2, <2>3, <2>4, <2>5, <2>6, <2>7, <2>8, <2>9, <2>10, <2>11 DEF RunnerStep
<1>8. ASSUME NEW v \in ModelVersions, TrainingEnds(v) PROVE SceneInv'
  BY <1>8, <1>a DEF TrainingEnds, SceneTypeOK, CommandInv, Configured, TrainedInv, DeployedIsTrained,
      LocksAreAlive
<1>9. CASE UNCHANGED sceneVars
  BY <1>9, <1>a DEF sceneVars, SceneTypeOK, CommandInv, Configured, TrainedInv, DeployedIsTrained,
      LocksAreAlive
<1> QED
  BY <1>1, <1>2, <1>3, <1>4, <1>5, <1>6, <1>7, <1>8, <1>9 DEF SceneNext

(* The invariant holds for every number of runners, commands and minutes.   *)
THEOREM SceneSafe == SceneSpec => []SceneInv
  BY SceneInitial, SceneInductive, PTL DEF SceneSpec

(* sagemaker flow: an entry in the crontab finds the flow config on disk    *)
(* and all of the configuration on S3 that its runs read, whichever steps   *)
(* of earlier ups and downs have failed, except while an up writes them     *)
(* again and after one that has failed at that.                             *)
THEOREM SceneScheduledHasConfig == SceneSpec => []ScheduledHasConfig
<1>1. SceneInv => ScheduledHasConfig
  BY DEF SceneInv, CommandInv, ScheduledHasConfig
<1> QED
  BY <1>1, SceneSafe, PTL

(* sagemaker flow: the endpoint serves a version whose training job has     *)
(* completed, whichever runners overlap, fail or die.                       *)
THEOREM SceneDeployedIsTrained == SceneSpec => []DeployedIsTrained
<1>1. SceneInv => DeployedIsTrained
  BY DEF SceneInv, TrainedInv
<1> QED
  BY <1>1, SceneSafe, PTL

(* sagemaker flow: the lock of the pid file is held by a runner that has it *)
(* open.                                                                    *)
THEOREM SceneLocksAreAlive == SceneSpec => []LocksAreAlive
<1>1. SceneInv => LocksAreAlive
  BY DEF SceneInv
<1> QED
  BY <1>1, SceneSafe, PTL

-----------------------------------------------------------------------------
(****************************************************************************)
(* The model watcher                                                         *)
(****************************************************************************)
(* What the watcher has heard of last about a key.                          *)
Latest(k) == IF post = <<>> THEN consul[k] ELSE post[k]

(* A put of key k whose value decodes.                                      *)
TaskOf(k, i) == i \in 1..Len(info) /\ info[i].key = k /\ info[i].version \in Versions

(* What is in the store, in a post, in the queue and at work for a key is a *)
(* put of that key.                                                         *)
RouteInv(k) ==
    /\ consul[k] # 0 => info[consul[k]].key = k
    /\ post # <<>> => post[k] <= consul[k] /\ (post[k] # 0 => info[post[k]].key = k)
    /\ \A n \in 1..Len(tasks[k]) : TaskOf(k, tasks[k][n])
    /\ step[k] # "idle" => TaskOf(k, active[k])
    /\ step[k] = "idle" <=> active[k] = 0

(* What is loaded is loaded from a directory that is whole.                 *)
WholeInv(k) ==
    /\ step[k] \in {"load", "loaded"} => local[k][info[active[k]].version] = "whole"
    /\ served[k].whole

(* The tasks of a key are in the order of their puts, none is older than    *)
(* the one at work and none newer than what was heard of last.              *)
TurnInv(k) ==
    /\ active[k] <= Latest(k)
    /\ \A n \in 1..Len(tasks[k]) :
        /\ active[k] <= tasks[k][n] /\ tasks[k][n] <= Latest(k)
        /\ \A m \in 1..n : tasks[k][m] <= tasks[k][n]

(* What the watcher knows to be loaded is not newer than what is served,    *)
(* and what is served is not newer than anything still to be done.          *)
ServedInv(k) ==
    /\ known[k] <= served[k].index /\ served[k].index <= Latest(k)
    /\ \A n \in 1..Len(tasks[k]) : served[k].index <= tasks[k][n]
    /\ step[k] # "idle" => served[k].index <= active[k]
    /\ step[k] = "loaded" => served[k].index = active[k]

(* A load that goes on in the service after its connection was lost.        *)
StrayInv ==
    /\ Connected => stray = {}
    /\ \A i \in stray : \E k \in Keys : TaskOf(k, i) /\ local[k][info[i].version] = "whole"

(* The parts, for one key; the order of what is served is kept as long as   *)
(* the connection has not failed.                                           *)
KeyInv(k) ==
    /\ RouteInv(k) /\ WholeInv(k) /\ TurnInv(k)
    /\ Connected => ServedInv(k)

(* TypeOK without what it says of the puts that tasks are for.              *)
Puts == [key : Keys, version : Versions \cup {Bad}]
Types ==
    /\ info \in Seq(Puts) /\ Len(info) <= MaxPuts
    /\ consul \in [Keys -> 0..Len(info)] /\ sent \in [Keys -> 0..Len(info)]
    /\ post = <<>> \/ post \in [Keys -> 0..Len(info)]
    /\ posts \in 0..MaxPosts
    /\ known \in [Keys -> 0..Len(info)]
    /\ tasks \in [Keys -> Seq(Indices)]
    /\ active \in [Keys -> 0..Len(info)]
    /\ step \in [Keys -> {"idle", "download", "load", "loaded"}]
    /\ local \in [Keys -> [Versions -> {"absent", "partial", "whole"}]]
    /\ served \in [Keys -> [index : 0..Len(info), whole : BOOLEAN]]
    /\ stray \subseteq Indices
    /\ faults \in FaultSets

(* The invariant of the watcher.                                            *)
WatchInv == Types /\ StrayInv /\ \A k \in Keys : KeyInv(k)

(* The invariant has the type invariant in it.                              *)
LEMMA WatchTypes == WatchInv => TypeOK
<1> SUFFICES ASSUME WatchInv PROVE TypeOK
  OBVIOUS
<1>1. ASSUME NEW k \in Keys, NEW i \in Range(tasks[k]) \cup ({active[k]} \ {0})
      PROVE  info[i].key = k /\ info[i].version \in Versions
  <2>1. CASE i \in Range(tasks[k])
    <3>1. PICK n \in 1..Len(tasks[k]) : i = tasks[k][n]
      BY <2>1 DEF Range, WatchInv, Types
    <3> QED
      BY <3>1 DEF WatchInv, KeyInv, RouteInv, TaskOf
  <2>2. CASE i = active[k] /\ i # 0
    BY <2>2 DEF WatchInv, KeyInv, RouteInv, TaskOf
  <2> QED
    BY <2>1, <2>2
<1>2. \A k \in Keys : (step[k] = "idle") = (active[k] = 0)
  BY DEF WatchInv, KeyInv, RouteInv
<1> QED
  BY <1>1, <1>2 DEF WatchInv, Types, TypeOK, Puts

(* Nothing has been put.                                                    *)
LEMMA WatchInitial == Init => WatchInv
<1> SUFFICES ASSUME Init PROVE WatchInv
  OBVIOUS
<1> USE WatcherAssumption DEF WatcherAssumption, Init
<1>1. Types
  BY DEF Types, Puts, NoModel, Indices
<1>2. StrayInv
  BY DEF StrayInv
<1>3. ASSUME NEW k \in Keys PROVE KeyInv(k)
  BY DEF KeyInv, RouteInv, WholeInv, TurnInv, ServedInv, NoModel, Latest, TaskOf
<1> QED
  BY <1>1, <1>2, <1>3 DEF WatchInv

(* The puts there have been stay.                                           *)
Grown == /\ Len(info') \in Nat /\ Len(info') >= Len(info)
         /\ \A i \in 1..Len(info) : info'[i] = info[i]

(* A directory that is whole stays whole.                                   *)
StaysWhole(q) == \A v \in Versions : local[q][v] = "whole" => local'[q][v] = "whole"

(* Nothing is done for the key; it may be published again, and what was     *)
(* heard of it may have become newer.                                       *)
Untouched(q) ==
    /\ tasks'[q] = tasks[q] /\ active'[q] = active[q] /\ step'[q] = step[q]
    /\ served'[q] = served[q] /\ known'[q] = known[q]
Heard(q) ==
    /\ Latest(q)' >= Latest(q)
    /\ consul'[q] # 0 => info'[consul'[q]].key = q
    /\ post' # <<>> => post'[q] <= consul'[q] /\ (post'[q] # 0 => info'[post'[q]].key = q)

(* A key for which nothing is done keeps its part of the invariant while    *)
(* another key is published, downloaded or loaded.                          *)
LEMMA KeyKept ==
    ASSUME Types, Types', UNCHANGED faults, Grown,
           NEW q \in Keys, KeyInv(q), Untouched(q), Heard(q), StaysWhole(q)
    PROVE  KeyInv(q)'
<1> USE DEF KeyInv, Grown, Untouched, Heard, StaysWhole
<1>0. Connected' = Connected
  BY DEF Connected
<1>1. \A i : TaskOf(q, i) => TaskOf(q, i)' /\ info'[i] = info[i]
  BY DEF TaskOf, Types
<1>2. RouteInv(q)'
  BY <1>1 DEF RouteInv
<1>3. WholeInv(q)'
  BY <1>1 DEF WholeInv, RouteInv, TaskOf
<1>4. /\ Latest(q) \in Nat /\ Latest(q)' \in Nat /\ active[q] \in Nat
      /\ served[q].index \in Nat /\ \A n \in 1..Len(tasks[q]) : tasks[q][n] \in Nat
  <2>1. Latest(q) \in Nat /\ active[q] \in Nat /\ served[q].index \in Nat
    BY DEF Types, Latest
  <2>2. Latest(q)' \in Nat
    BY DEF Types, Latest
  <2>3. tasks[q] \in Seq(Indices)
    BY DEF Types
  <2> QED
    BY <2>1, <2>2, <2>3, WatcherAssumption DEF Indices, WatcherAssumption
<1>5. TurnInv(q)'
  BY <1>4 DEF TurnInv
<1>6. ServedInv(q) => ServedInv(q)'
  BY <1>4 DEF ServedInv
<1> QED
  BY <1>0, <1>2, <1>3, <1>5, <1>6

(* So do the loads that nobody waits for.                                   *)
LEMMA StrayKept ==
    ASSUME StrayInv, Types, Types', UNCHANGED faults, stray' \subseteq stray,
           Grown, \A q \in Keys : StaysWhole(q)
    PROVE  StrayInv'
<1>0. Connected' = Connected
  BY DEF Connected
<1>1. \A q, i : TaskOf(q, i) => TaskOf(q, i)' /\ info'[i] = info[i]
  BY DEF TaskOf, Types, Grown
<1> QED
  BY <1>0, <1>1 DEF StrayInv, TaskOf, StaysWhole

(* The queue of a key without its first task.                               *)
LEMMA FirstRemoved ==
    ASSUME NEW S, NEW s \in Seq(S), 1 \in DOMAIN s
    PROVE  /\ RemoveAt(s, 1) \in Seq(S) /\ Len(RemoveAt(s, 1)) = Len(s) - 1
           /\ \A i \in 1..(Len(s) - 1) : RemoveAt(s, 1)[i] = s[i + 1]
<1>1. Len(s) \in Nat /\ Len(s) >= 1 /\ \A i \in 1..Len(s) : s[i] \in S
  OBVIOUS
<1>2. SubSeq(s, 1, 0) = <<>>
  BY SubSeqEmpty
<1>3. SubSeq(s, 2, Len(s)) \in Seq(S) /\ Len(SubSeq(s, 2, Len(s))) = Len(s) - 1
      /\ \A i \in 1..(Len(s) - 1) : SubSeq(s, 2, Len(s))[i] = s[i + 1]
  <2>1. SubSeq(s, 2, Len(s)) = Tail(s)
    BY <1>1
  <2>2. Tail(s) \in Seq(S) /\ Len(Tail(s)) = Len(s) - 1
    BY <1>1
  <2>3. \A i \in 1..(Len(s) - 1) : Tail(s)[i] = s[i + 1]
    BY <1>1
  <2> QED
    BY <2>1, <2>2, <2>3
<1>4. RemoveAt(s, 1) = <<>> \o SubSeq(s, 2, Len(s))
  BY <1>2 DEF RemoveAt
<1> QED
  BY <1>3, <1>4, ConcatEmptySeq

(* Every step of the store, the watcher and the service keeps it.           *)
LEMMA WatchInductive == WatchInv /\ [Next]_vars => WatchInv'
<1> SUFFICES ASSUME WatchInv, [Next]_vars PROVE WatchInv'
  OBVIOUS
<1> USE WatcherAssumption DEF WatcherAssumption, WatchInv, watcherVars
<1>0. UNCHANGED faults /\ Connected' = Connected
  BY DEF Next, vars, Connected
<1>a. Len(info) \in Nat
  BY DEF Types
<1>b. UNCHANGED info => Grown
  BY <1>a DEF Grown
<1>c. UNCHANGED local => \A q \in Keys : StaysWhole(q)
  BY DEF StaysWhole
<1>d. ASSUME NEW q \in Keys
      PROVE  /\ consul[q] \in Nat /\ consul[q] <= Len(info)
             /\ consul[q] # 0 => info[consul[q]].key = q
             /\ post # <<>> => /\ post[q] \in Nat /\ post[q] <= Len(info) /\ post[q] <= consul[q]
                               /\ post[q] # 0 => info[post[q]].key = q
  BY <1>a DEF Types, KeyInv, RouteInv
<1>e. ASSUME NEW q \in Keys, UNCHANGED <<info, consul, post>>
      PROVE  Heard(q)
  BY <1>d, <1>e DEF Heard, Latest
<1>g. \A q, i : TaskOf(q, i) => i \in Indices
  <2>1. Len(info) <= MaxPuts
    BY DEF Types
  <2> QED
    BY <1>a, <2>1 DEF TaskOf, Indices
<1>1. ASSUME NEW k \in Keys, NEW v \in Versions \cup {Bad}, Publish(k, v) PROVE WatchInv'
  <2> USE <1>1 DEF Publish
  <2>1. /\ info' \in Seq(Puts) /\ Len(info') = Len(info) + 1
        /\ \A i \in 1..Len(info) : info'[i] = info[i]
        /\ info'[Len(info) + 1].key = k
    BY DEF Types, Puts
  <2>2. Types'
    <3>1. \A f \in [Keys -> 0..Len(info)] : f \in [Keys -> 0..Len(info')]
      BY <1>a, <2>1
    <3>2. served \in [Keys -> [index : 0..Len(info'), whole : BOOLEAN]]
      BY <1>a, <2>1 DEF Types
    <3>3. consul' \in [Keys -> 0..Len(info')]
      BY <1>a, <2>1, <3>1 DEF Types
    <3>4. Len(info') <= MaxPuts
      BY <1>a, <2>1
    <3> QED
      BY <1>0, <2>1, <3>1, <3>2, <3>3, <3>4 DEF Types
  <2>3. Grown
    BY <1>a, <2>1 DEF Grown
  <2>4. ASSUME NEW q \in Keys PROVE KeyInv(q)'
    <3>1. consul'[q] = IF q = k THEN Len(info) + 1 ELSE consul[q]
      BY <2>1 DEF Types
    <3>2. Heard(q)
      BY <1>a, <1>d, <2>1, <3>1 DEF Heard, Latest
    <3>3. Untouched(q)
      BY DEF Untouched
    <3> QED
      BY <1>0, <1>c, <2>2, <2>3, <3>2, <3>3, KeyKept
  <2> QED
    BY <1>0, <1>c, <2>2, <2>3, <2>4, StrayKept
<1>2. ASSUME WatchFires \/ WatchRestarts \/ PostLost PROVE WatchInv'
  <2> USE <1>2 DEF WatchFires, WatchRestarts, PostLost
  <2>0. /\ sent' \in {consul, sent, [k \in Keys |-> 0]} /\ post' \in {consul, <<>>}
        /\ posts' \in {posts, posts + 1} /\ (posts' # posts => posts < MaxPosts)
        /\ (post' = <<>> \/ post = <<>>)
        /\ UNCHANGED <<info, consul, known, tasks, active, step, local, served, stray>>
    OBVIOUS
  <2>1. Types'
    <3>1. sent' \in [Keys -> 0..Len(info)]
      <4>1. /\ consul \in [Keys -> 0..Len(info)] /\ sent \in [Keys -> 0..Len(info)]
            /\ [k \in Keys |-> 0] \in [Keys -> 0..Len(info)]
        BY <1>a DEF Types
      <4> QED
        BY <2>0, <4>1
    <3>2. posts' \in 0..MaxPosts
      BY <2>0 DEF Types
    <3> QED
      BY <1>0, <2>0, <3>1, <3>2 DEF Types
  <2>2. ASSUME NEW q \in Keys PROVE KeyInv(q)'
    <3>1. Heard(q)
      BY <1>d, <2>0 DEF Heard, Latest
    <3>2. Untouched(q)
      BY DEF Untouched
    <3> QED
      BY <1>0, <1>b, <1>c, <2>0, <2>1, <3>1, <3>2, KeyKept
  <2> QED
    BY <1>0, <1>b, <1>c, <2>0, <2>1, <2>2, StrayKept
<1>3. CASE WatchHandler
  <2> USE <1>3 DEF WatchHandler
  <2>1. ASSUME NEW q \in Keys
        PROVE  \/ tasks'[q] = tasks[q]
               \/ /\ tasks'[q] = Append(tasks[q], post[q])
                  /\ post[q] # 0 /\ Decodes(post[q])
    OBVIOUS
  <2>2. ASSUME NEW q \in Keys PROVE tasks[q] \in Seq(Indices) /\ tasks'[q] \in Seq(Indices)
    <3>1. tasks[q] \in Seq(Indices)
      BY DEF Types
    <3>2. post[q] # 0 => post[q] \in Indices
      BY <1>a, <1>d DEF Indices, Types
    <3> QED
      BY <2>1, <3>1, <3>2
  <2>3. Types'
    <3>1. tasks' \in [Keys -> Seq(Indices)]
      BY <2>2
    <3> QED
      BY <1>0, <3>1 DEF Types
  <2>4. ASSUME NEW q \in Keys PROVE KeyInv(q)'
    <3>1. CASE tasks'[q] = tasks[q]
      <4>1. Heard(q)
        BY <1>d DEF Heard, Latest
      <4>2. Untouched(q)
        BY <3>1 DEF Untouched
      <4> QED
        BY <1>0, <1>b, <1>c, <2>3, <4>1, <4>2, KeyKept
    <3>2. CASE tasks'[q] = Append(tasks[q], post[q]) /\ post[q] # 0 /\ Decodes(post[q])
      <4>1. TaskOf(q, post[q])
        <5>1. post[q] \in 1..Len(info) /\ info[post[q]].key = q
          BY <1>a, <1>d, <3>2
        <5>2. info[post[q]] \in Puts
          BY <5>1 DEF Types
        <5> QED
          BY <3>2, <5>1, <5>2 DEF TaskOf, Decodes, Puts
      <4>2. /\ Len(tasks'[q]) = Len(tasks[q]) + 1 /\ Len(tasks[q]) \in Nat
            /\ \A n \in 1..Len(tasks[q]) : tasks'[q][n] = tasks[q][n] /\ tasks[q][n] \in Nat
            /\ tasks'[q][Len(tasks[q]) + 1] = post[q]
        BY <2>2, <3>2 DEF Indices
      <4>3. \A i : TaskOf(q, i)' = TaskOf(q, i)
        BY DEF TaskOf
      <4>4. RouteInv(q)'
        BY <4>1, <4>2, <4>3 DEF KeyInv, RouteInv
      <4>5. Latest(q) = post[q] /\ Latest(q)' = consul[q] /\ active[q] \in Nat /\ served[q].index \in Nat
        BY DEF Latest, Types
      <4>6. TurnInv(q)'
        <5>0. TurnInv(q)
          BY DEF KeyInv
        <5>1. ASSUME NEW n \in 1..Len(tasks'[q])
              PROVE  /\ active[q] <= tasks'[q][n] /\ tasks'[q][n] <= post[q]
                     /\ \A m \in 1..n : tasks'[q][m] <= tasks'[q][n]
          <6>1. CASE n \in 1..Len(tasks[q])
            BY <4>2, <4>5, <5>0, <6>1 DEF TurnInv
          <6>2. CASE n = Len(tasks[q]) + 1
            BY <1>d, <4>2, <4>5, <5>0, <6>2 DEF TurnInv
          <6> QED
            BY <4>2, <6>1, <6>2
        <5>2. \A n \in 1..Len(tasks'[q]) : tasks'[q][n] \in Nat
          BY <1>d, <4>2
        <5>3. active[q] <= Latest(q)' /\ active'[q] = active[q]
          BY <1>d, <4>5, <5>0 DEF TurnInv
        <5>4. ASSUME NEW n \in 1..Len(tasks'[q]) PROVE tasks'[q][n] <= Latest(q)'
          <6>1. post[q] \in Nat /\ consul[q] \in Nat /\ post[q] <= consul[q]
            BY <1>d
          <6> QED
            BY <4>5, <5>1, <5>2, <6>1
        <5> QED
          BY <5>1, <5>3, <5>4 DEF TurnInv
      <4>7. ServedInv(q) => ServedInv(q)'
        <5> SUFFICES ASSUME ServedInv(q) PROVE ServedInv(q)'
          OBVIOUS
        <5>1. served[q].index <= Latest(q)'
          BY <1>d, <4>5 DEF ServedInv
        <5>2. ASSUME NEW n \in 1..Len(tasks'[q]) PROVE served[q].index <= tasks'[q][n]
          BY <1>d, <4>2, <4>5 DEF ServedInv
        <5> QED
          BY <5>1, <5>2 DEF ServedInv
      <4>8. WholeInv(q)'
        BY DEF KeyInv, WholeInv
      <4> QED
        BY <1>0, <4>4, <4>6, <4>7, <4>8 DEF KeyInv
    <3> QED
      BY <2>1, <3>1, <3>2
  <2> QED
    BY <1>0, <1>b, <1>c, <2>3, <2>4, StrayKept
<1>f. ASSUME NEW k \in Keys, Types', UNCHANGED <<info, consul, post>>,
             \A q \in Keys : StaysWhole(q) /\ (q # k => Untouched(q)),
             KeyInv(k)', StrayInv'
      PROVE  WatchInv'
  BY <1>0, <1>b, <1>e, <1>f, KeyKept
<1>4. ASSUME NEW k \in Keys, StartDownload(k) PROVE WatchInv'
  <2> USE <1>4 DEF StartDownload
  <2>0. tasks[k] \in Seq(Indices) /\ local[k] \in [Versions -> {"absent", "partial", "whole"}]
    BY DEF Types
  <2>1. /\ 1 \in DOMAIN tasks[k]
        /\ active' = [active EXCEPT ![k] = tasks[k][1]]
        /\ tasks' = [tasks EXCEPT ![k] = RemoveAt(@, 1)]
        /\ local' = [local EXCEPT ![k][info[tasks[k][1]].version] =
                        IF @ = "whole" THEN @ ELSE "partial"]
    BY DEF Turn
  <2>2. /\ tasks'[k] \in Seq(Indices) /\ Len(tasks'[k]) = Len(tasks[k]) - 1
        /\ \A i \in 1..(Len(tasks[k]) - 1) : tasks'[k][i] = tasks[k][i + 1]
        /\ \A i \in 1..Len(tasks[k]) : tasks[k][i] \in Nat
        /\ Len(tasks[k]) \in Nat /\ Len(tasks[k]) >= 1
    <3>1. tasks'[k] = RemoveAt(tasks[k], 1)
      BY <2>1 DEF Types
    <3>2. \A i \in 1..Len(tasks[k]) : tasks[k][i] \in Nat
      BY <2>0 DEF Indices
    <3>3. Len(tasks[k]) \in Nat /\ Len(tasks[k]) >= 1
      BY <2>0, <2>1
    <3> QED
      BY <2>0, <2>1, <3>1, <3>2, <3>3, FirstRemoved
  <2>a. \A n \in 1..Len(tasks'[k]) : n + 1 \in 1..Len(tasks[k]) /\ tasks'[k][n] = tasks[k][n + 1]
    BY <2>2
  <2>3. TaskOf(k, tasks[k][1])
    BY <2>2 DEF KeyInv, RouteInv
  <2>4. Types'
    <3>1. tasks' \in [Keys -> Seq(Indices)]
      BY <2>1, <2>2 DEF Types
    <3>2. active' \in [Keys -> 0..Len(info)]
      BY <1>a, <2>1, <2>3 DEF Types, TaskOf
    <3>3. local' \in [Keys -> [Versions -> {"absent", "partial", "whole"}]]
      BY <2>1, <2>3 DEF Types, TaskOf
    <3>4. step' \in [Keys -> {"idle", "download", "load", "loaded"}]
      BY DEF Types
    <3> QED
      BY <1>0, <3>1, <3>2, <3>3, <3>4 DEF Types
  <2>5. \A q \in Keys : StaysWhole(q) /\ (q # k => Untouched(q))
    BY <2>1, <2>3 DEF StaysWhole, Untouched, Types, TaskOf
  <2>6. StrayInv'
    BY <1>0, <1>b, <2>4, <2>5, StrayKept
  <2>7. active'[k] = tasks[k][1] /\ step'[k] = "download"
    BY <2>1 DEF Types
  <2>8. KeyInv(k)'
    <3>1. \A i : TaskOf(k, i)' = TaskOf(k, i)
      BY DEF TaskOf
    <3>2. RouteInv(k)'
      <4>1. \A n \in 1..Len(tasks'[k]) : TaskOf(k, tasks'[k][n])
        BY <2>a DEF KeyInv, RouteInv
      <4>2. active'[k] # 0 /\ TaskOf(k, active'[k])
        BY <2>3, <2>7 DEF TaskOf
      <4> QED
        BY <2>7, <3>1, <4>1, <4>2 DEF KeyInv, RouteInv
    <3>3. WholeInv(k)'
      BY <2>7 DEF KeyInv, WholeInv
    <3>4. Latest(k)' = Latest(k) /\ Latest(k) \in Nat
      BY <1>d DEF Latest
    <3>5. TurnInv(k)'
      <4>0. TurnInv(k)
        BY DEF KeyInv
      <4>1. ASSUME NEW n \in 1..Len(tasks'[k])
            PROVE  /\ tasks[k][1] <= tasks'[k][n] /\ tasks'[k][n] <= Latest(k)
                   /\ \A m \in 1..n : tasks'[k][m] <= tasks'[k][n]
        <5>1. \A m \in 1..(n + 1) : tasks[k][m] <= tasks[k][n + 1]
          BY <2>a, <4>0 DEF TurnInv
        <5>2. \A m \in 1..n : m + 1 \in 1..(n + 1) /\ tasks'[k][m] = tasks[k][m + 1]
          BY <2>2, <2>a
        <5>3. n + 1 \in 1..Len(tasks[k]) /\ tasks'[k][n] = tasks[k][n + 1] /\ 1 \in 1..(n + 1)
          BY <2>2, <2>a, <5>2
        <5>4. tasks'[k][n] <= Latest(k)
          BY <4>0, <5>3 DEF TurnInv
        <5> QED
          BY <5>1, <5>2, <5>3, <5>4
      <4>2. tasks[k][1] <= Latest(k)
        <5>1. 1 \in 1..Len(tasks[k])
          BY <2>2
        <5> QED
          BY <4>0, <5>1 DEF TurnInv
      <4> QED
        BY <2>7, <3>4, <4>1, <4>2 DEF TurnInv
    <3>6. ServedInv(k) => ServedInv(k)'
      <4>1. ServedInv(k) => /\ served[k].index <= tasks[k][1]
                            /\ \A n \in 1..Len(tasks'[k]) : served[k].index <= tasks'[k][n]
        BY <2>2, <2>a DEF ServedInv
      <4> QED
        BY <2>7, <3>4, <4>1 DEF ServedInv
    <3> QED
      BY <1>0, <3>2, <3>3, <3>5, <3>6 DEF KeyInv
  <2> QED
    BY <1>f, <2>4, <2>5, <2>6, <2>8
<1>5. ASSUME NEW k \in Keys, DownloadEnds(k) PROVE WatchInv'
  <2> USE <1>5 DEF DownloadEnds
  <2>1. TaskOf(k, active[k])
    BY DEF KeyInv, RouteInv
  <2>2. Types'
    <3>1. local' \in [Keys -> [Versions -> {"absent", "partial", "whole"}]]
      BY <2>1 DEF Types, TaskOf
    <3>2. step' \in [Keys -> {"idle", "download", "load", "loaded"}]
      BY DEF Types
    <3> QED
      BY <1>0, <3>1, <3>2 DEF Types
  <2>3. \A q \in Keys : StaysWhole(q) /\ (q # k => Untouched(q))
    BY <2>1 DEF StaysWhole, Untouched, Types, TaskOf
  <2>4. StrayInv'
    BY <1>0, <1>b, <2>2, <2>3, StrayKept
  <2>5. step'[k] = "load" /\ local'[k][info[active[k]].version] = "whole"
    BY <2>1 DEF Types, TaskOf
  <2>6. RouteInv(k)' /\ WholeInv(k)' /\ TurnInv(k)' /\ (ServedInv(k) => ServedInv(k)')
    BY <2>1, <2>5 DEF KeyInv, RouteInv, WholeInv, TurnInv, ServedInv, Latest, TaskOf
  <2>7. KeyInv(k)'
    BY <1>0, <2>6 DEF KeyInv
  <2> QED
    BY <1>f, <2>2, <2>3, <2>4, <2>7
<1>6. ASSUME NEW k \in Keys, Release(k), step[k] # "idle",
             \/ UNCHANGED known
             \/ step[k] = "loaded" /\ known' = [known EXCEPT ![k] = active[k]],
             UNCHANGED served, StrayInv', stray' \subseteq Indices
      PROVE  WatchInv'
  <2> USE <1>6 DEF Release
  <2>1. Types'
    <3>1. active' \in [Keys -> 0..Len(info)] /\ known' \in [Keys -> 0..Len(info)]
      <4>1. active' \in [Keys -> 0..Len(info)]
        BY <1>a DEF Types
      <4>2. known' \in [Keys -> 0..Len(info)]
        BY DEF Types
      <4> QED
        BY <4>1, <4>2
    <3>2. step' \in [Keys -> {"idle", "download", "load", "loaded"}]
      BY DEF Types
    <3> QED
      BY <1>0, <3>1, <3>2 DEF Types
  <2>2. \A q \in Keys : StaysWhole(q) /\ (q # k => Untouched(q))
    BY <1>c DEF Untouched, Types
  <2>3. /\ step'[k] = "idle" /\ active'[k] = 0
        /\ (known'[k] = known[k] \/ (step[k] = "loaded" /\ known'[k] = active[k]))
    BY DEF Types
  <2>4. /\ served[k].index \in Nat /\ Latest(k) \in Nat /\ Latest(k)' = Latest(k)
        /\ \A n \in 1..Len(tasks[k]) : tasks[k][n] \in Nat
    BY <1>d DEF Latest, Types, Indices
  <2>5. /\ RouteInv(k)' /\ WholeInv(k)' /\ TurnInv(k)' /\ (ServedInv(k) => ServedInv(k)')
    BY <2>3, <2>4 DEF KeyInv, RouteInv, WholeInv, TurnInv, ServedInv, TaskOf
  <2>6. KeyInv(k)'
    BY <1>0, <2>5 DEF KeyInv
  <2> QED
    BY <1>f, <2>1, <2>2, <2>6
<1>7. ASSUME NEW k \in Keys, DownloadFails(k) \/ LoadFails(k) \/ LoadReturns(k)
      PROVE  WatchInv'
  <2>1. /\ Release(k) /\ step[k] # "idle" /\ UNCHANGED <<served, stray>>
        /\ \/ UNCHANGED known
           \/ step[k] = "loaded" /\ known' = [known EXCEPT ![k] = active[k]]
    BY <1>7 DEF DownloadFails, AfterSyncFailure, LoadFails, KnownAfterFailure, LoadReturns
  <2>2. StrayInv'
    BY <1>0, <2>1 DEF StrayInv, TaskOf, Release
  <2> QED
    BY <1>6, <2>1, <2>2 DEF Types
<1>8. ASSUME NEW k \in Keys, Disconnect(k) PROVE WatchInv'
  <2> USE <1>8 DEF Disconnect
  <2>1. TaskOf(k, active[k]) /\ local[k][info[active[k]].version] = "whole"
    BY DEF KeyInv, RouteInv, WholeInv
  <2>2. StrayInv'
    BY <1>0, <2>1 DEF StrayInv, TaskOf, Release, Connected
  <2>3. stray' \subseteq Indices
    BY <1>g, <2>1 DEF Types
  <2> QED
    BY <1>6, <2>2, <2>3
<1>9. ASSUME NEW k \in Keys, NEW i, TaskOf(k, i), local[k][info[i].version] = "whole", Loaded(i),
             UNCHANGED <<info, consul, post, sent, posts, known, tasks, active, local>>
      PROVE  /\ served' = [served EXCEPT ![k] = [index |-> i, whole |-> TRUE]]
             /\ served' \in [Keys -> [index : 0..Len(info), whole : BOOLEAN]]
  <2>1. i \in 0..Len(info) /\ info[i].key = k
    BY <1>9, <1>a DEF TaskOf
  <2>2. served' = [served EXCEPT ![k] = [index |-> i, whole |-> TRUE]]
    BY <1>9, <2>1 DEF Loaded
  <2> QED
    BY <2>1, <2>2 DEF Types
<1>10. ASSUME NEW k \in Keys, ServingLoads(k) PROVE WatchInv'
  <2> USE <1>10 DEF ServingLoads
  <2>1. TaskOf(k, active[k]) /\ local[k][info[active[k]].version] = "whole"
    BY DEF KeyInv, RouteInv, WholeInv
  <2>2. /\ served' = [served EXCEPT ![k] = [index |-> active[k], whole |-> TRUE]]
        /\ served' \in [Keys -> [index : 0..Len(info), whole : BOOLEAN]]
    BY <1>9, <2>1
  <2>3. Types'
    <3>1. step' \in [Keys -> {"idle", "download", "load", "loaded"}]
      BY DEF Types
    <3> QED
      BY <1>0, <2>2, <3>1 DEF Types
  <2>4. \A q \in Keys : StaysWhole(q) /\ (q # k => Untouched(q))
    BY <1>c, <2>2 DEF Untouched, Types
  <2>5. StrayInv'
    BY <1>0 DEF StrayInv, TaskOf
  <2>6. served'[k] = [index |-> active[k], whole |-> TRUE] /\ step'[k] = "loaded"
    BY <2>2 DEF Types
  <2>7. /\ served[k].index \in Nat /\ active[k] \in Nat /\ known[k] \in Nat
        /\ Latest(k)' = Latest(k) /\ Latest(k) \in Nat
    BY <1>d DEF Latest, Types
  <2>8. RouteInv(k)' /\ WholeInv(k)' /\ TurnInv(k)'
    BY <2>1, <2>6 DEF KeyInv, RouteInv, WholeInv, TurnInv, TaskOf, Latest
  <2>9. TurnInv(k) /\ ServedInv(k) => ServedInv(k)'
    BY <2>6, <2>7 DEF TurnInv, ServedInv
  <2>10. KeyInv(k)'
    BY <1>0, <2>8, <2>9 DEF KeyInv
  <2> QED
    BY <1>f, <2>3, <2>4, <2>5, <2>10
<1>11. CASE StrayLoad
  <2>1. PICK i \in stray : Loaded(i) /\ stray' = stray \ {i}
    BY <1>11 DEF StrayLoad
  <2>2. UNCHANGED <<info, consul, post, sent, posts, known, tasks, active, step, local>>
    BY <1>11 DEF StrayLoad
  <2>3. PICK k \in Keys : TaskOf(k, i) /\ local[k][info[i].version] = "whole"
    BY <2>1 DEF StrayInv
  <2>4. /\ served' = [served EXCEPT ![k] = [index |-> i, whole |-> TRUE]]
        /\ served' \in [Keys -> [index : 0..Len(info), whole : BOOLEAN]]
    BY <1>9, <2>1, <2>2, <2>3
  <2>5. Types'
    BY <1>0, <2>1, <2>2, <2>4 DEF Types
  <2>6. \A q \in Keys : StaysWhole(q) /\ (q # k => Untouched(q))
    BY <1>c, <2>2, <2>4 DEF Untouched, Types
  <2>7. StrayInv' /\ ~Connected
    BY <1>0, <2>1, <2>2 DEF StrayInv, TaskOf
  <2>8. served'[k] = [index |-> i, whole |-> TRUE]
    BY <2>4 DEF Types
  <2>9. RouteInv(k)' /\ WholeInv(k)' /\ TurnInv(k)'
    <3>1. RouteInv(k)' /\ TurnInv(k)'
      BY <2>2 DEF KeyInv, RouteInv, TurnInv, TaskOf, Latest
    <3>2. WholeInv(k)'
      BY <2>2, <2>8 DEF KeyInv, WholeInv
    <3> QED
      BY <3>1, <3>2
  <2>10. KeyInv(k)'
    BY <1>0, <2>7, <2>9 DEF KeyInv
  <2> QED
    BY <1>f, <2>2, <2>5, <2>6, <2>7, <2>10
<1>12. CASE ServingRestarts
  <2> USE <1>12 DEF ServingRestarts
  <2>1. Types'
    <3>1. served' \in [Keys -> [index : 0..Len(info), whole : BOOLEAN]]
      BY <1>a DEF NoModel
    <3>2. active' \in [Keys -> 0..Len(info)]
      BY <1>a DEF Types
    <3>3. step' \in [Keys -> {"idle", "download", "load", "loaded"}]
      BY DEF Types
    <3> QED
      BY <1>0, <3>1, <3>2, <3>3 DEF Types
  <2>2. StrayInv' /\ ~Connected
    BY DEF StrayInv, Connected
  <2>3. ASSUME NEW q \in Keys PROVE KeyInv(q)'
    <3>1. /\ step'[q] = IF step[q] \in {"load", "loaded"} THEN "idle" ELSE step[q]
          /\ active'[q] = IF step[q] \in {"load", "loaded"} THEN 0 ELSE active[q]
          /\ served'[q].whole
      BY DEF NoModel
    <3>2. /\ active[q] \in Nat /\ Latest(q)' = Latest(q) /\ Latest(q) \in Nat
          /\ \A n \in 1..Len(tasks[q]) : tasks[q][n] \in Nat
      BY <1>d DEF Latest, Types, Indices
    <3>3. RouteInv(q)'
      BY <3>1 DEF KeyInv, RouteInv, TaskOf
    <3>4. WholeInv(q)'
      BY <3>1 DEF WholeInv
    <3>5. TurnInv(q)'
      BY <3>1, <3>2 DEF KeyInv, TurnInv
    <3> QED
      BY <1>0, <2>2, <3>3, <3>4, <3>5 DEF KeyInv
  <2> QED
    BY <2>1, <2>2, <2>3
<1>13. CASE WatcherRestarts
  <2> USE <1>13 DEF WatcherRestarts
  <2>1. ASSUME NEW i \in stray', i \notin stray
        PROVE  \E k \in Keys : TaskOf(k, i) /\ local[k][info[i].version] = "whole"
    BY <2>1 DEF KeyInv, RouteInv, WholeInv
  <2>2. Types'
    <3>1. stray' \subseteq Indices
      BY <1>g, <2>1 DEF Types
    <3> QED
      BY <1>0, <1>a, <3>1 DEF Types
  <2>3. StrayInv' /\ ~Connected
    BY <1>0, <2>1 DEF StrayInv, Connected, TaskOf
  <2>4. ASSUME NEW q \in Keys PROVE KeyInv(q)'
    <3>1. step'[q] = "idle" /\ active'[q] = 0 /\ tasks'[q] = <<>> /\ Len(tasks'[q]) = 0
      OBVIOUS
    <3>2. Latest(q)' = Latest(q) /\ Latest(q) \in Nat
      BY <1>d DEF Latest
    <3>3. RouteInv(q)' /\ WholeInv(q)' /\ TurnInv(q)'
      BY <3>1, <3>2 DEF KeyInv, RouteInv, WholeInv, TurnInv
    <3> QED
      BY <1>0, <2>3, <3>3 DEF KeyInv
  <2> QED
    BY <2>2, <2>3, <2>4
<1>14. CASE UNCHANGED vars
  <2> USE <1>14 DEF vars, system
  <2>1. Types' /\ StrayInv'
    BY DEF Types, StrayInv, TaskOf, Connected
  <2>2. ASSUME NEW q \in Keys PROVE KeyInv(q)'
    <3>1. RouteInv(q)' = RouteInv(q) /\ WholeInv(q)' = WholeInv(q)
      BY DEF RouteInv, WholeInv, TaskOf
    <3>2. TurnInv(q)' = TurnInv(q)
      BY DEF TurnInv, Latest
    <3>3. (Connected => ServedInv(q))' = (Connected => ServedInv(q))
      BY DEF ServedInv, Latest, Connected
    <3> QED
      BY <3>1, <3>2, <3>3 DEF KeyInv
  <2> QED
    BY <2>1, <2>2
<1> QED
  BY <1>1, <1>2, <1>3, <1>4, <1>5, <1>7, <1>8, <1>10, <1>11, <1>12, <1>13, <1>14
     DEF Next, Step, KeyStep

(* The invariant holds for every set of keys and versions and any number of *)
(* puts.                                                                    *)
THEOREM WatchSafe == Spec => []WatchInv
  BY WatchInitial, WatchInductive, PTL DEF Spec

(* consul watcher: a model is never served from a directory that was only   *)
(* partly downloaded, whatever fails or is restarted in between.            *)
THEOREM WatchServedIsWhole == Spec => []ServedIsWhole
<1>1. WatchInv => ServedIsWhole
  BY WatchTypes DEF WatchInv, KeyInv, WholeInv, ServedIsWhole
<1> QED
  BY <1>1, WatchSafe, PTL

(* consul watcher: what the watcher has put down as loaded is served, in    *)
(* that version or a newer one, as long as the connection to the service    *)
(* has not failed.                                                          *)
THEOREM WatchKnownIsServed == Spec => []KnownIsServed
<1>1. WatchInv => KnownIsServed
  BY DEF WatchInv, KeyInv, ServedInv, KnownIsServed
<1> QED
  BY <1>1, WatchSafe, PTL

(* consul watcher: what is served never goes back to an earlier put, as     *)
(* long as the connection to the service has not failed.                    *)
THEOREM WatchNeverBack == Spec => NeverBack
<1>1. ASSUME WatchInv, [Next]_vars, Connected, NEW k \in Keys
      PROVE  served'[k].index >= served[k].index
  <2>0. served[k].index \in Nat
    BY <1>1 DEF WatchInv, Types
  <2>1. CASE served' = served
    BY <2>0, <2>1
  <2>2. ASSUME NEW q \in Keys, ServingLoads(q) PROVE served'[k].index >= served[k].index
    <3>1. TaskOf(q, active[q]) /\ served[q].index <= active[q]
      BY <1>1, <2>2 DEF WatchInv, KeyInv, RouteInv, ServedInv, ServingLoads
    <3>2. served'[k] = served[k] \/ (k = q /\ served'[k].index = active[q])
      BY <1>1, <2>2, <3>1 DEF WatchInv, Types, ServingLoads, Loaded, TaskOf
    <3>3. active[q] \in Nat
      BY <1>1 DEF WatchInv, Types
    <3> QED
      BY <2>0, <3>1, <3>2, <3>3
  <2>3. ~StrayLoad /\ ~ServingRestarts
    BY <1>1 DEF WatchInv, StrayInv, Connected, StrayLoad, ServingRestarts
  <2> QED
    BY <1>1, <2>1, <2>2, <2>3 DEF Next, Step, vars, system, KeyStep, WatchFires,
        WatchRestarts, PostLost,
       WatchHandler, WatcherRestarts, Publish, StartDownload, DownloadEnds, LoadReturns,
       DownloadFails, LoadFails, Disconnect
<1>2. WatchInv /\ [Next]_vars =>
        [Connected => \A k \in Keys : served'[k].index >= served[k].index]_vars
  BY <1>1
<1> QED
  BY <1>2, WatchSafe, PTL DEF Spec, NeverBack

-----------------------------------------------------------------------------
(****************************************************************************)
(* Jobs on Spark                                                             *)
(****************************************************************************)
(* The job is running: its coordinator has started run() and nobody has     *)
(* been told to terminate.                                                  *)
OnJob == pc > 0 /\ job \notin terminated
(* The process of slot s has a worker of the current job.                   *)
Mine(s) == thread[s][job] \in {"running", "ready"}
(* The stages the agent in slot s has been through.                         *)
Through(s) == IF submitted /\ busy[s] # <<"stage", job>> THEN StagesBefore + 1 ELSE StagesBefore

(* Nothing is of a job that has not been launched.                          *)
AgesInv ==
    /\ \A s \in Slots : busy[s][2] <= job
    /\ \A s \in Slots, j \in Jobs : thread[s][j] # "none" => j <= job
    /\ connected \subseteq 1..job
    /\ terminated \subseteq 1..job
(* What the driver and run() have got to.                                   *)
LaunchPhaseInv ==
    /\ driver \in {"idle", "finished"} => job = 0 \/ pc > 0
    /\ driver = "launched" => job > 0
    /\ driver = "launched" /\ pc < RunOver => job \notin terminated
    /\ pc > 0 => pending = {} /\ job > 0
    /\ pc = 0 => job \notin connected /\ ~submitted
    /\ pc \in {FeedStage, RunOver} => ~submitted
    /\ TasksOf("stage", job) # {} =>
          /\ driver = "launched" /\ pc \in 1..StopStage
          /\ submitted \/ pc = FeedStage
    /\ "server" \in pending => TasksOf("server", job) = {}
    /\ "worker" \in pending => \A s \in Slots : thread[s][job] = "none"
(* A worker is created only before run() starts, is ready only when the job *)
(* is connected, and until then its task is in its slot.                    *)
ThreadInv ==
    \A s \in Slots, j \in Jobs :
        /\ thread[s][j] \in {"starting", "refused"} =>
              j = job /\ pc = 0 /\ driver \in {"launched", "exited"}
        /\ thread[s][j] \in {"ready", "ended"} => j \in connected
        /\ j = job /\ pc = 0 /\ thread[s][j] # "none" => busy[s] = <<"worker", job>>
        /\ j = job /\ pc = 0 /\ thread[s][j] = "running" => done[s] = 0
(* The agent registered in a process is that of the worker living there,    *)
(* unless a second one was refused: the refused one takes the agent of the  *)
(* other away.                                                              *)
AgentInv ==
    (\A s \in Slots, j \in Jobs : thread[s][j] # "refused") =>
       \A s \in Slots, j \in Jobs : thread[s][j] \in {"running", "ready"} => instance[s] = j
(* While the job is running its servers hold their slots, so that every     *)
(* other slot has a worker of this job, which has been through the same     *)
(* stages as all others.                                                    *)
SlotInv ==
    OnJob =>
      /\ Cardinality(TasksOf("server", job)) = ServerCount
      /\ \A s \in Slots : busy[s] = <<"server", job>> \/ (Mine(s) /\ done[s] = Through(s))
(* The invariant of the launches.                                           *)
LaunchInv == LaunchTypeOK /\ AgesInv /\ LaunchPhaseInv /\ ThreadInv /\ AgentInv /\ SlotInv

(* The constants, as the steps below need them.                             *)
LEMMA LaunchConstants ==
    /\ WorkerCount \in Nat /\ WorkerCount > 0 /\ ServerCount \in Nat /\ ServerCount > 0
    /\ NJobs \in Nat /\ NJobs > 0 /\ Distributions \in Nat /\ FeedTasks \in Nat
    /\ Jobs = 1..NJobs /\ Slots = 1..(WorkerCount + ServerCount)
    /\ IsFiniteSet(Slots) /\ Cardinality(Slots) = WorkerCount + ServerCount
    /\ 0 \in 0..(RunOver - 2) /\ 0 \in 0..RunOver /\ 0 \in 0..FeedTasks
  BY CountsAssumption, FS_Interval
  DEF CountsAssumption, Slots, Jobs, ExecutorCount, RunOver

(* As many servers and as many workers as there are, in different slots,    *)
(* fill the session.                                                        *)
LEMMA SlotsSplit ==
    ASSUME NEW A \in SUBSET Slots, NEW B \in SUBSET Slots, A \cap B = {},
           Cardinality(A) = ServerCount, Cardinality(B) = WorkerCount
    PROVE  A \cup B = Slots
<1>1. IsFiniteSet(A) /\ IsFiniteSet(B) /\ A \cup B \in SUBSET Slots
  BY LaunchConstants, FS_Subset
<1>2. Cardinality(A \cup B) = Cardinality(A) + Cardinality(B) - Cardinality({})
  BY <1>1, FS_Union
<1>3. Cardinality(A \cup B) = Cardinality(Slots)
  BY <1>2, FS_EmptySet, LaunchConstants
<1> QED
  BY <1>1, <1>3, LaunchConstants, FS_Subset

(* No job has been launched.                                                *)
LEMMA LaunchInitial == LaunchInit => LaunchInv
<1> SUFFICES ASSUME LaunchInit PROVE LaunchInv
  OBVIOUS
<1> USE LaunchConstants DEF LaunchInit
<1>1. LaunchTypeOK
  <2>1. submitted \in BOOLEAN
    BY Zenon
  <2>2. job \in 0..NJobs /\ pc \in 0..RunOver /\ fed \in 0..FeedTasks
    OBVIOUS
  <2>3. busy \in [Slots -> {Free} \cup ({"server", "worker", "stage"} \X Jobs)]
    OBVIOUS
  <2>4. thread \in [Slots -> [Jobs -> Threads]]
    BY DEF Threads
  <2>5. done \in [Slots -> 0..(RunOver - 2)]
    OBVIOUS
  <2> QED
    BY <2>1, <2>2, <2>3, <2>4, <2>5 DEF LaunchTypeOK
<1>2. AgesInv
  BY DEF AgesInv, Free, NoJob
<1>3. LaunchPhaseInv
  BY DEF LaunchPhaseInv, TasksOf, Free, FeedStage, RunOver
<1>4. ThreadInv /\ AgentInv /\ SlotInv
  BY DEF ThreadInv, AgentInv, SlotInv, OnJob
<1> QED
  BY <1>1, <1>2, <1>3, <1>4 DEF LaunchInv

(* A stage that gets as many slots as there are workers gets all slots that *)
(* are not those of the servers.                                            *)
LEMMA ServersOutside ==
    ASSUME LaunchInv, OnJob, NEW S \in SUBSET FreeSlots, Cardinality(S) = WorkerCount
    PROVE  \A s \in Slots : s \in S \/ busy[s] = <<"server", job>>
<1>1. S \in SUBSET Slots /\ TasksOf("server", job) \in SUBSET Slots
  BY DEF FreeSlots, TasksOf
<1>2. S \cap TasksOf("server", job) = {}
  BY DEF FreeSlots, TasksOf, Free
<1>3. Cardinality(TasksOf("server", job)) = ServerCount
  BY DEF LaunchInv, SlotInv
<1>4. TasksOf("server", job) \cup S = Slots
  BY <1>1, <1>2, <1>3, SlotsSplit
<1> QED
  BY <1>4 DEF TasksOf

(* launch_agent keeps the invariant: no thread of the previous job is       *)
(* starting.                                                                *)
LEMMA LaunchKept == ASSUME LaunchInv, Launch PROVE LaunchInv'
<1> USE LaunchConstants DEF LaunchInv, Launch
<1>0. job' \in Jobs /\ job \in Nat /\ job' = job + 1
  BY DEF LaunchTypeOK
<1>1. LaunchTypeOK'
  <2>1. submitted' \in BOOLEAN
    BY Zenon
  <2>2. job' \in 0..NJobs /\ pc' \in 0..RunOver /\ fed' \in 0..FeedTasks
    BY <1>0
  <2> QED
    BY <2>1, <2>2 DEF LaunchTypeOK
<1>2. AgesInv'
  <2>1. \A s \in Slots : busy[s][2] \in Int
    BY DEF LaunchTypeOK, Free, NoJob
  <2>2. /\ \A s \in Slots : busy[s][2] <= job
        /\ \A s \in Slots, j \in Jobs : thread[s][j] # "none" => j <= job
        /\ connected \subseteq 1..job
        /\ terminated \subseteq 1..job
    BY DEF AgesInv
  <2> HIDE DEF LaunchInv, Launch
  <2>3. \A s \in Slots : busy[s][2] <= job'
    BY <1>0, <2>1, <2>2
  <2>4. \A s \in Slots, j \in Jobs : thread[s][j] # "none" => j <= job'
    BY <1>0, <2>2 DEF Jobs
  <2>5. connected \subseteq 1..job' /\ terminated \subseteq 1..job'
    BY <1>0, <2>2
  <2>6. UNCHANGED <<busy, thread, connected, terminated>>
    BY Zenon DEF Launch
  <2> QED
    BY <2>3, <2>4, <2>5, <2>6 DEF AgesInv
<1>3. \A s \in Slots : busy[s][2] # job' /\ thread[s][job'] = "none"
  BY <1>0 DEF AgesInv, LaunchTypeOK
<1>4. TasksOf("stage", job)' = {} /\ TasksOf("server", job)' = {}
  BY <1>3 DEF TasksOf
<1>5. job' \notin connected' /\ job' \notin terminated'
  BY <1>0 DEF AgesInv
<1>6. LaunchPhaseInv'
  BY <1>0, <1>3, <1>4, <1>5 DEF LaunchPhaseInv, FeedStage, RunOver
<1>7. \A s \in Slots, j \in Jobs : thread[s][j] \notin {"starting", "refused"}
  BY DEF ThreadInv, LaunchPhaseInv
<1>8. ThreadInv'
  BY <1>3, <1>7 DEF ThreadInv
<1>9. AgentInv' /\ SlotInv'
  BY DEF AgentInv, SlotInv, OnJob
<1> QED
  BY <1>1, <1>2, <1>6, <1>8, <1>9

(* So does the scheduling of a barrier stage.                               *)
LEMMA ScheduleKept ==
    ASSUME LaunchInv, ScheduleServers \/ ScheduleWorkers PROVE LaunchInv'
<1> USE LaunchConstants DEF LaunchInv
<1>0. PICK what \in {"server", "worker"}, n \in Nat : Schedule(what, n)
  BY DEF ScheduleServers, ScheduleWorkers
<1> USE <1>0 DEF Schedule
<1>1. PICK S \in SUBSET FreeSlots :
        /\ busy' = [s \in Slots |-> IF s \in S THEN <<what, job>> ELSE busy[s]]
        /\ thread' = [s \in Slots |->
                        IF what = "worker" /\ s \in S
                        THEN [thread[s] EXCEPT ![job] = "starting"] ELSE thread[s]]
  BY <1>0
<1>2. job \in Jobs /\ pc = 0 /\ what \in pending
  BY DEF LaunchTypeOK, LaunchPhaseInv
<1>3. LaunchTypeOK'
  <2>1. busy' \in [Slots -> {Free} \cup ({"server", "worker", "stage"} \X Jobs)]
    BY <1>1, <1>2 DEF LaunchTypeOK
  <2>2. thread' \in [Slots -> [Jobs -> Threads]]
    BY <1>1, <1>2 DEF LaunchTypeOK, Threads
  <2> QED
    BY <2>1, <2>2 DEF LaunchTypeOK
<1>4. \A s \in Slots : /\ s \in S => busy[s] = Free /\ busy'[s] = <<what, job>>
                       /\ s \notin S => busy'[s] = busy[s]
  BY <1>1 DEF FreeSlots
<1>5. \A s \in Slots, j \in Jobs :
        \/ thread'[s][j] = thread[s][j]
        \/ /\ what = "worker" /\ s \in S /\ j = job /\ thread'[s][j] = "starting"
  BY <1>1, <1>2 DEF LaunchTypeOK
<1>6. AgesInv'
  BY <1>2, <1>4, <1>5 DEF AgesInv, LaunchTypeOK
<1>7. TasksOf("stage", job)' = {}
  <2>1. TasksOf("stage", job) = {}
    BY <1>2 DEF LaunchPhaseInv
  <2>2. \A s \in Slots : busy[s] # <<"stage", job>>
    BY <2>1 DEF TasksOf
  <2>3. \A s \in Slots : busy'[s] # <<"stage", job>>
    BY <1>0, <1>4, <2>2
  <2> QED
    BY <2>3 DEF TasksOf
<1>8. "server" \in pending' => TasksOf("server", job)' = {}
  <2> SUFFICES ASSUME "server" \in pending' PROVE \A s \in Slots : busy'[s] # <<"server", job>>
    BY DEF TasksOf
  <2>1. what = "worker" /\ TasksOf("server", job) = {}
    BY DEF LaunchPhaseInv
  <2>2. \A s \in Slots : busy[s] # <<"server", job>>
    BY <2>1 DEF TasksOf
  <2> QED
    BY <1>4, <2>1, <2>2
<1>9. "worker" \in pending' => \A s \in Slots : thread'[s][job] = "none"
  BY <1>0, <1>2, <1>5 DEF LaunchPhaseInv
<1>10. LaunchPhaseInv'
  BY <1>2, <1>7, <1>8, <1>9 DEF LaunchPhaseInv
<1>11. ThreadInv'
  <2> SUFFICES ASSUME NEW s \in Slots, NEW j \in Jobs
               PROVE  /\ thread'[s][j] \in {"starting", "refused"} => j = job
                      /\ thread'[s][j] \in {"ready", "ended"} => j \in connected
                      /\ j = job /\ thread'[s][j] # "none" => busy'[s] = <<"worker", job>>
                      /\ j = job /\ thread'[s][j] = "running" => done[s] = 0
    BY <1>2 DEF ThreadInv
  <2>1. CASE s \in S /\ j = job /\ what = "worker"
    <3>1. thread[s][j] = "none"
      BY <1>2, <2>1 DEF LaunchPhaseInv
    <3> QED
      BY <1>4, <1>5, <2>1, <3>1
  <2>2. CASE s \in S /\ what = "server"
    <3>1. busy[s] # <<"worker", job>>
      BY <1>4, <2>2 DEF Free
    <3> QED
      BY <1>2, <1>5, <2>2, <3>1 DEF ThreadInv
  <2>3. CASE s \notin S \/ j # job
    BY <1>2, <1>4, <1>5, <2>3 DEF ThreadInv
  <2> QED
    BY <1>0, <2>1, <2>2, <2>3
<1>12. AgentInv'
  <2> SUFFICES ASSUME \A s \in Slots, j \in Jobs : thread'[s][j] # "refused",
                      NEW s \in Slots, NEW j \in Jobs, thread'[s][j] \in {"running", "ready"}
               PROVE  instance'[s] = j
    BY DEF AgentInv
  <2>1. \A q \in Slots, i \in Jobs : thread[q][i] # "refused"
    <3> SUFFICES ASSUME NEW q \in Slots, NEW i \in Jobs, thread[q][i] = "refused"
                 PROVE  FALSE
      OBVIOUS
    <3>1. what = "worker" /\ i = job /\ thread[q][job] = "none"
      BY <1>2, <1>5 DEF LaunchPhaseInv
    <3> QED
      BY <3>1
  <2> QED
    BY <1>5, <2>1 DEF AgentInv
<1>13. SlotInv'
  BY <1>2 DEF SlotInv, OnJob
<1> QED
  BY <1>3, <1>6, <1>10, <1>11, <1>12, <1>13

(* So does a worker that is registered, or refused.                         *)
LEMMA CreateWorkerKept ==
    ASSUME LaunchInv, NEW s \in Slots, NEW j \in Jobs, CreateWorker(s, j) PROVE LaunchInv'
<1> USE LaunchConstants DEF LaunchInv, CreateWorker
<1>0. j = job /\ pc = 0 /\ driver \in {"launched", "exited"}
  BY DEF ThreadInv
<1>1. LaunchTypeOK'
  <2>1. instance' \in [Slots -> Jobs \cup {NoJob}]
    BY DEF LaunchTypeOK
  <2>2. done' \in [Slots -> 0..(RunOver - 2)]
    BY DEF LaunchTypeOK
  <2>3. thread' \in [Slots -> [Jobs -> Threads]]
    <3>1. "running" \in Threads /\ "refused" \in Threads
      BY DEF Threads
    <3>2. \E t \in Threads : thread' = [thread EXCEPT ![s][j] = t]
      BY <3>1
    <3>3. thread \in [Slots -> [Jobs -> Threads]]
      BY DEF LaunchTypeOK
    <3>4. PICK t \in Threads : thread' = [thread EXCEPT ![s][j] = t]
      BY <3>2
    <3> HIDE LaunchConstants DEF LaunchInv, CreateWorker
    <3> QED
      BY <3>3, <3>4
  <2> QED
    BY <2>1, <2>2, <2>3 DEF LaunchTypeOK
<1>2. \A q \in Slots, i \in Jobs : (q # s \/ i # j) => thread'[q][i] = thread[q][i]
  BY DEF LaunchTypeOK
<1>3. thread'[s][j] = IF MayRegister(s) THEN "running" ELSE "refused"
  BY DEF LaunchTypeOK
<1>4. AgesInv'
  BY <1>2, <1>3 DEF AgesInv
<1>5. LaunchPhaseInv'
  BY <1>0, <1>2, <1>3 DEF LaunchPhaseInv, TasksOf
<1>6. ThreadInv'
  <2>1. MayRegister(s) => done'[s] = 0
    BY DEF LaunchTypeOK
  <2>2. \A q \in Slots : q # s => done'[q] = done[q]
    BY DEF LaunchTypeOK
  <2>3. busy[s] = <<"worker", job>>
    BY <1>0 DEF ThreadInv
  <2>4. \A q \in Slots, i \in Jobs : (q # s \/ i # j) =>
            /\ thread'[q][i] \in {"starting", "refused"} =>
                  i = job /\ pc = 0 /\ driver \in {"launched", "exited"}
            /\ thread'[q][i] \in {"ready", "ended"} => i \in connected
            /\ i = job /\ pc = 0 /\ thread'[q][i] # "none" => busy[q] = <<"worker", job>>
            /\ i = job /\ pc = 0 /\ thread'[q][i] = "running" => done'[q] = 0
    BY <1>0, <1>2, <2>2 DEF ThreadInv
  <2> QED
    BY <1>0, <1>3, <2>1, <2>3, <2>4 DEF ThreadInv
<1>7. AgentInv'
  <2> SUFFICES ASSUME \A q \in Slots, i \in Jobs : thread'[q][i] # "refused",
                      NEW q \in Slots, NEW i \in Jobs, thread'[q][i] \in {"running", "ready"}
               PROVE  instance'[q] = i
    BY DEF AgentInv
  <2>1. MayRegister(s) /\ instance[s] = NoJob
    BY <1>3 DEF MayRegister
  <2>2. \A p \in Slots, k \in Jobs : thread[p][k] # "refused"
    <3> SUFFICES ASSUME NEW p \in Slots, NEW k \in Jobs PROVE thread[p][k] # "refused"
      OBVIOUS
    <3>1. CASE p = s /\ k = j
      BY <3>1
    <3>2. CASE p # s \/ k # j
      <4>1. thread'[p][k] = thread[p][k] /\ thread'[p][k] # "refused"
        BY <1>2, <3>2
      <4> QED
        BY <4>1
    <3> QED
      BY <3>1, <3>2
  <2>3. instance'[s] = j /\ \A p \in Slots : p # s => instance'[p] = instance[p]
    BY <2>1 DEF LaunchTypeOK
  <2>4. \A k \in Jobs : thread[s][k] \notin {"running", "ready"}
    BY <2>1, <2>2 DEF AgentInv, NoJob
  <2> QED
    BY <1>2, <2>2, <2>3, <2>4 DEF AgentInv
<1>8. SlotInv'
  BY <1>0 DEF SlotInv, OnJob
<1> QED
  BY <1>1, <1>4, <1>5, <1>6, <1>7, <1>8

(* So does the start of run(): servers and workers fill the session, so no  *)
(* worker was refused.                                                      *)
LEMMA CoordinatorReadyKept == ASSUME LaunchInv, CoordinatorReady PROVE LaunchInv'
<1> USE LaunchConstants DEF LaunchInv, CoordinatorReady
<1> DEFINE B == {s \in Slots : thread[s][job] = "running"}
<1>0. job \in Jobs /\ pc' = 1 /\ pc' \in 0..RunOver /\ ~submitted
  BY DEF LaunchTypeOK, LaunchPhaseInv, RunOver
<1>1. LaunchTypeOK'
  BY <1>0 DEF LaunchTypeOK
<1>2. AgesInv'
  BY <1>0 DEF AgesInv, LaunchTypeOK
<1>3. \A s \in Slots : busy[s] = <<"server", job>> \/ thread[s][job] = "running"
  <2>1. TasksOf("server", job) \in SUBSET Slots /\ B \in SUBSET Slots
    BY DEF TasksOf
  <2>2. \A s \in B : busy[s] = <<"worker", job>>
    BY <1>0 DEF ThreadInv
  <2>3. TasksOf("server", job) \cap B = {}
    BY <2>2 DEF TasksOf
  <2>4. TasksOf("server", job) \cup B = Slots
    BY <2>1, <2>3, SlotsSplit
  <2> QED
    BY <2>4 DEF TasksOf
<1>4. \A s \in Slots : thread[s][job] \notin {"starting", "refused"}
  BY <1>0, <1>3 DEF ThreadInv
<1>5. \A s \in Slots, j \in Jobs : thread[s][j] \notin {"starting", "refused"}
  BY <1>4 DEF ThreadInv
<1>6. pending = {}
  <2>1. TasksOf("server", job) # {}
    <3>1. Cardinality(TasksOf("server", job)) # 0
      OBVIOUS
    <3> QED
      BY <3>1, FS_EmptySet, Zenon
  <2>2. \E s \in Slots : thread[s][job] # "none"
    <3>1. Cardinality(B) # 0
      OBVIOUS
    <3>2. B # {}
      BY <3>1, FS_EmptySet, Zenon
    <3> QED
      BY <3>2
  <2> QED
    BY <2>1, <2>2 DEF LaunchPhaseInv, LaunchTypeOK
<1>7. TasksOf("stage", job)' = {} /\ TasksOf("server", job)' = TasksOf("server", job)
  BY DEF TasksOf, LaunchPhaseInv
<1>8. LaunchPhaseInv'
  BY <1>0, <1>6, <1>7 DEF LaunchPhaseInv, FeedStage, RunOver
<1>9. ThreadInv'
  BY <1>0, <1>5 DEF ThreadInv
<1>10. AgentInv'
  BY DEF AgentInv
<1>11. SlotInv'
  <2>1. StagesBefore' = 0
    BY <1>0 DEF StagesBefore, FeedStage
  <2>2. \A s \in Slots : thread[s][job] = "running" => Mine(s)' /\ done'[s] = Through(s)'
    BY <1>0, <2>1 DEF Mine, Through, ThreadInv
  <2> QED
    BY <1>3, <1>7, <2>2 DEF SlotInv
<1> QED
  BY <1>1, <1>2, <1>8, <1>9, <1>10, <1>11

(* So does a worker that has connected itself.                              *)
LEMMA WorkerReadyKept ==
    ASSUME LaunchInv, NEW s \in Slots, NEW j \in Jobs, WorkerReady(s, j) PROVE LaunchInv'
<1> USE LaunchConstants DEF LaunchInv, WorkerReady
<1>1. LaunchTypeOK'
  BY DEF LaunchTypeOK, Threads
<1>2. \A q \in Slots, i \in Jobs :
        \/ thread'[q][i] = thread[q][i]
        \/ q = s /\ i = j /\ thread[q][i] = "running" /\ thread'[q][i] = "ready"
  BY DEF LaunchTypeOK
<1>3. AgesInv'
  BY <1>2 DEF AgesInv
<1>4. LaunchPhaseInv'
  <2>1. "worker" \in pending' => \A q \in Slots : thread'[q][job] = "none"
    <3> SUFFICES ASSUME "worker" \in pending, NEW q \in Slots PROVE thread'[q][job] = "none"
      OBVIOUS
    <3>1. thread[q][job] = "none"
      BY DEF LaunchPhaseInv
    <3>2. job # j \/ q # s
      BY <3>1
    <3> QED
      BY <3>1, <3>2 DEF LaunchTypeOK
  <2> QED
    BY <2>1 DEF LaunchPhaseInv, TasksOf
<1>5. ThreadInv'
  BY <1>2 DEF ThreadInv
<1>6. AgentInv'
  BY <1>2 DEF AgentInv
<1>7. SlotInv'
  <2>1. OnJob => job \in Jobs
    BY DEF OnJob, LaunchPhaseInv, LaunchTypeOK
  <2>2. OnJob => \A q \in Slots : Mine(q) => Mine(q)'
    BY <1>2, <2>1 DEF Mine
  <2> QED
    BY <2>2 DEF SlotInv, OnJob, TasksOf, Through, StagesBefore
<1> QED
  BY <1>1, <1>3, <1>4, <1>5, <1>6, <1>7

(* A task that is no stage of the current job leaves its slot. *)
LEMMA TaskLeaves ==
    ASSUME LaunchInv, NEW s \in Slots, busy[s] # <<"stage", job>>,
           OnJob => busy[s] # <<"server", job>>,
           pc = 0 => busy[s] # <<"worker", job>>,
           busy' = [busy EXCEPT ![s] = Free],
           UNCHANGED <<driver, job, pending, instance, thread, done, pc, submitted,
                       fed, connected, terminated>>
    PROVE  LaunchInv'
<1> USE LaunchConstants DEF LaunchInv
<1>1. LaunchTypeOK'
  BY DEF LaunchTypeOK
<1>2. busy'[s] = Free /\ \A q \in Slots : q # s => busy'[q] = busy[q]
  BY DEF LaunchTypeOK
<1>3. AgesInv'
  BY <1>2 DEF AgesInv, Free, NoJob, LaunchTypeOK
<1>4. \A q \in Slots : /\ busy'[q] = <<"stage", job>> <=> busy[q] = <<"stage", job>>
                       /\ busy'[q] = <<"server", job>> => busy[q] = <<"server", job>>
                       /\ OnJob /\ busy[q] = <<"server", job>> => busy'[q] = <<"server", job>>
                       /\ pc = 0 /\ busy[q] = <<"worker", job>> => busy'[q] = <<"worker", job>>
  BY <1>2 DEF Free
<1>5. /\ TasksOf("stage", job)' = TasksOf("stage", job)
      /\ TasksOf("server", job) = {} => TasksOf("server", job)' = {}
      /\ OnJob => TasksOf("server", job)' = TasksOf("server", job)
  BY <1>4 DEF TasksOf
<1>6. LaunchPhaseInv'
  BY <1>5 DEF LaunchPhaseInv
<1>7. ThreadInv' /\ AgentInv'
  BY <1>4 DEF ThreadInv, AgentInv
<1>8. SlotInv'
  BY <1>4, <1>5 DEF SlotInv, OnJob, Mine, Through, StagesBefore
<1> QED
  BY <1>1, <1>3, <1>6, <1>7, <1>8

(* So do a worker task that returns and a server that stops.                *)
LEMMA TaskLeavesKept ==
    ASSUME LaunchInv, NEW s \in Slots, NEW j \in Jobs, RunWorkerReturns(s, j) \/ ServerStops(s, j)
    PROVE  LaunchInv'
<1>1. CASE RunWorkerReturns(s, j)
  <2>1. pc = 0 => j # job
    BY <1>1 DEF RunWorkerReturns, LaunchInv, ThreadInv, LaunchPhaseInv
  <2>2. /\ busy[s] # <<"stage", job>> /\ busy[s] # <<"server", job>>
        /\ pc = 0 => busy[s] # <<"worker", job>>
    BY <1>1, <2>1 DEF RunWorkerReturns
  <2>3. /\ busy' = [busy EXCEPT ![s] = Free]
        /\ UNCHANGED <<driver, job, pending, instance, thread, done, pc, submitted,
                       fed, connected, terminated>>
    BY <1>1 DEF RunWorkerReturns
  <2> QED
    BY <2>2, <2>3, TaskLeaves
<1>2. CASE ServerStops(s, j)
  <2>1. OnJob => j # job
    BY <1>2 DEF ServerStops, OnJob
  <2>2. /\ busy[s] # <<"stage", job>> /\ busy[s] # <<"worker", job>>
        /\ OnJob => busy[s] # <<"server", job>>
    BY <1>2, <2>1 DEF ServerStops
  <2>3. /\ busy' = [busy EXCEPT ![s] = Free]
        /\ UNCHANGED <<driver, job, pending, instance, thread, done, pc, submitted,
                       fed, connected, terminated>>
    BY <1>2 DEF ServerStops
  <2> QED
    BY <2>2, <2>3, TaskLeaves
<1> QED
  BY <1>1, <1>2

(* So does the exit of the driver.                                          *)
LEMMA TimeoutKept == ASSUME LaunchInv, WaitReadyTimeout PROVE LaunchInv'
<1> USE LaunchConstants DEF LaunchInv, WaitReadyTimeout
<1>1. LaunchTypeOK' /\ AgesInv'
  BY DEF LaunchTypeOK, AgesInv
<1>2. TasksOf("stage", job)' = {} /\ TasksOf("server", job)' = TasksOf("server", job)
  BY DEF TasksOf, LaunchPhaseInv
<1>3. LaunchPhaseInv'
  BY <1>2 DEF LaunchPhaseInv
<1>4. ThreadInv' /\ AgentInv' /\ SlotInv'
  BY DEF ThreadInv, AgentInv, SlotInv, OnJob
<1> QED
  BY <1>1, <1>3, <1>4

(* So does a stage of run(), whose tasks get the slots of the workers.      *)
LEMMA SubmitStageKept == ASSUME LaunchInv, SubmitStage PROVE LaunchInv'
<1> USE LaunchConstants DEF LaunchInv, SubmitStage, InRun
<1>0. job \in Jobs /\ OnJob /\ pc \in Nat /\ pc # RunOver /\ pc # FeedStage
  BY DEF LaunchTypeOK, LaunchPhaseInv, OnJob, StopStage, RunOver
<1>1. PICK S \in SUBSET FreeSlots :
        /\ Cardinality(S) = WorkerCount
        /\ busy' = [s \in Slots |-> IF s \in S THEN <<"stage", job>> ELSE busy[s]]
  OBVIOUS
<1>2. \A s \in Slots : \/ s \in S /\ busy[s] = Free /\ busy'[s] = <<"stage", job>>
                       \/ s \notin S /\ busy[s] = <<"server", job>> /\ busy'[s] = busy[s]
  BY <1>0, <1>1, ServersOutside DEF FreeSlots
<1>3. LaunchTypeOK'
  <2>1. busy' \in [Slots -> {Free} \cup ({"server", "worker", "stage"} \X Jobs)]
    BY <1>0, <1>1 DEF LaunchTypeOK
  <2> QED
    BY <2>1 DEF LaunchTypeOK
<1>4. AgesInv'
  BY <1>0, <1>2 DEF AgesInv, LaunchTypeOK
<1>5. TasksOf("server", job)' = TasksOf("server", job)
  BY <1>2 DEF TasksOf, Free
<1>6. LaunchPhaseInv'
  BY <1>0, <1>5 DEF LaunchPhaseInv
<1>7. ThreadInv' /\ AgentInv'
  <2>1. ThreadInv'
    BY <1>0 DEF ThreadInv
  <2>2. AgentInv'
    BY DEF AgentInv
  <2> QED
    BY <2>1, <2>2
<1>8. SlotInv'
  <2>1. \A s \in Slots : busy[s] = Free => Mine(s) /\ done[s] = StagesBefore
    BY <1>0 DEF SlotInv, Through, Free
  <2>2. StagesBefore' = StagesBefore
    BY DEF StagesBefore
  <2>3. \A s \in Slots : busy'[s] = <<"server", job>> \/ (Mine(s)' /\ done'[s] = Through(s)')
    BY <1>2, <2>1, <2>2 DEF Mine, Through
  <2>4. Cardinality(TasksOf("server", job)') = ServerCount
    BY <1>0, <1>5 DEF SlotInv
  <2> QED
    BY <2>3, <2>4 DEF SlotInv
<1> QED
  BY <1>3, <1>4, <1>6, <1>7, <1>8

(* So does a task that feeds the dataset.                                   *)
LEMMA SubmitFeedTaskKept == ASSUME LaunchInv, SubmitFeedTask PROVE LaunchInv'
<1> USE LaunchConstants DEF LaunchInv, SubmitFeedTask, InRun
<1>0. job \in Jobs /\ OnJob /\ pc \in Nat /\ pc # RunOver /\ pc = FeedStage /\ ~submitted
  BY DEF LaunchTypeOK, LaunchPhaseInv, OnJob, StopStage, RunOver
<1>1. PICK s \in Slots : busy[s] = Free /\ busy' = [busy EXCEPT ![s] = <<"stage", job>>]
  BY DEF FreeSlots
<1>2. busy'[s] = <<"stage", job>> /\ \A q \in Slots : q # s => busy'[q] = busy[q]
  BY <1>1 DEF LaunchTypeOK
<1>3. LaunchTypeOK'
  <2>1. busy' \in [Slots -> {Free} \cup ({"server", "worker", "stage"} \X Jobs)]
    BY <1>0, <1>1 DEF LaunchTypeOK
  <2>2. fed' \in 0..FeedTasks
    BY DEF LaunchTypeOK, MoreToFeed
  <2> QED
    BY <2>1, <2>2 DEF LaunchTypeOK
<1>4. AgesInv'
  BY <1>0, <1>2 DEF AgesInv, LaunchTypeOK
<1>5. TasksOf("server", job)' = TasksOf("server", job)
  BY <1>1, <1>2 DEF TasksOf, Free
<1>6. LaunchPhaseInv'
  BY <1>0, <1>5 DEF LaunchPhaseInv
<1>7. ThreadInv' /\ AgentInv'
  <2>1. ThreadInv'
    BY <1>0 DEF ThreadInv
  <2>2. AgentInv'
    BY DEF AgentInv
  <2> QED
    BY <2>1, <2>2
<1>8. SlotInv'
  <2>1. StagesBefore' = StagesBefore
    BY DEF StagesBefore
  <2>2. \A q \in Slots : busy[q] = <<"server", job>> => q # s
    BY <1>1 DEF Free
  <2>3. \A q \in Slots : busy'[q] = <<"server", job>> \/ (Mine(q)' /\ done'[q] = Through(q)')
    BY <1>0, <1>2, <2>1, <2>2 DEF Mine, Through, SlotInv
  <2> QED
    BY <1>0, <1>5, <2>3 DEF SlotInv
<1> QED
  BY <1>3, <1>4, <1>6, <1>7, <1>8

(* So does a task that has done its part.                                   *)
LEMMA StageTaskKept == ASSUME LaunchInv, NEW s \in Slots, StageTask(s) PROVE LaunchInv'
<1> USE LaunchConstants DEF LaunchInv, StageTask
<1>1. TasksOf("stage", job) # {}
  BY DEF TasksOf
<1>2. /\ driver = "launched" /\ pc \in 1..StopStage /\ (submitted \/ pc = FeedStage)
      /\ job \in Jobs /\ OnJob
  BY <1>1 DEF LaunchPhaseInv, LaunchTypeOK, OnJob, StopStage, RunOver
<1>3. Mine(s) /\ done[s] = StagesBefore
  BY <1>2 DEF SlotInv, Through
<1>4. StagesBefore \in 0..(RunOver - 3) \/ pc = FeedStage
  <2>1. pc \in 1..(Distributions + 4)
    BY <1>2 DEF StopStage
  <2>2. StagesBefore = IF pc > Distributions + 2 THEN pc - 2 ELSE pc - 1
    BY DEF StagesBefore, FeedStage
  <2>3. CASE pc > Distributions + 2
    <3>1. pc - 2 \in 0..(Distributions + 2)
      BY <2>1, <2>3
    <3> QED
      BY <2>2, <2>3, <3>1 DEF RunOver
  <2>4. CASE pc < Distributions + 2
    <3>1. pc - 1 \in 0..(Distributions + 2)
      BY <2>1, <2>4
    <3>2. StagesBefore = pc - 1
      BY <2>1, <2>2, <2>4
    <3> QED
      BY <3>1, <3>2 DEF RunOver
  <2> QED
    BY <2>1, <2>3, <2>4 DEF FeedStage
<1>5. /\ done'[s] = IF pc = FeedStage THEN done[s] ELSE done[s] + 1
      /\ \A q \in Slots : q # s => done'[q] = done[q]
  BY DEF LaunchTypeOK
<1>6. busy'[s] = Free /\ \A q \in Slots : q # s => busy'[q] = busy[q]
  BY DEF LaunchTypeOK
<1>7. LaunchTypeOK'
  <2>1. done'[s] \in 0..(RunOver - 2)
    BY <1>3, <1>4, <1>5 DEF LaunchTypeOK, RunOver
  <2>2. done' \in [Slots -> 0..(RunOver - 2)]
    BY <1>5, <2>1 DEF LaunchTypeOK
  <2>3. busy' \in [Slots -> {Free} \cup ({"server", "worker", "stage"} \X Jobs)]
    BY DEF LaunchTypeOK
  <2> QED
    BY <2>2, <2>3 DEF LaunchTypeOK
<1>8. AgesInv'
  BY <1>2, <1>6 DEF AgesInv, Free, NoJob
<1>9. TasksOf("server", job)' = TasksOf("server", job) /\ TasksOf("stage", job)' \subseteq TasksOf("stage", job)
  BY <1>6 DEF TasksOf, Free
<1>10. LaunchPhaseInv'
  BY <1>1, <1>9 DEF LaunchPhaseInv
<1>11. ThreadInv' /\ AgentInv'
  <2>1. ThreadInv'
    BY <1>2 DEF ThreadInv
  <2>2. AgentInv'
    BY DEF AgentInv
  <2> QED
    BY <2>1, <2>2
<1>12. SlotInv'
  <2>1. StagesBefore' = StagesBefore
    BY DEF StagesBefore
  <2>2. pc = FeedStage => ~submitted
    BY DEF LaunchPhaseInv
  <2>3. Mine(s)' /\ done'[s] = Through(s)'
    BY <1>2, <1>3, <1>5, <1>6, <2>1, <2>2 DEF Mine, Through, Free
  <2>4. \A q \in Slots : q # s => busy'[q] = <<"server", job>> \/ (Mine(q)' /\ done'[q] = Through(q)')
    BY <1>2, <1>5, <1>6, <2>1 DEF Mine, Through, SlotInv
  <2> QED
    BY <1>2, <1>9, <2>3, <2>4 DEF SlotInv
<1> QED
  BY <1>7, <1>8, <1>10, <1>11, <1>12

(* So does the end of a stage: all agents have been through it.             *)
LEMMA StageReturnsKept == ASSUME LaunchInv, StageReturns PROVE LaunchInv'
<1> USE LaunchConstants DEF LaunchInv, StageReturns, InRun
<1>0. job \in Jobs /\ OnJob /\ pc \in 1..StopStage /\ pc' = pc + 1 /\ pc' \in 0..RunOver /\ pc' > 0
  BY DEF LaunchTypeOK, LaunchPhaseInv, OnJob, StopStage, RunOver
<1>1. LaunchTypeOK'
  BY <1>0 DEF LaunchTypeOK
<1>2. AgesInv' /\ AgentInv'
  BY DEF AgesInv, AgentInv
<1>3. TasksOf("stage", job)' = {} /\ TasksOf("server", job)' = TasksOf("server", job)
  BY DEF TasksOf
<1>4. pending = {}
  BY <1>0 DEF LaunchPhaseInv
<1>5. LaunchPhaseInv'
  BY <1>0, <1>3, <1>4 DEF LaunchPhaseInv, OnJob
<1>6. ThreadInv'
  BY <1>0 DEF ThreadInv
<1>7. SlotInv'
  <2>1. \A s \in Slots : busy[s] # <<"stage", job>>
    BY DEF TasksOf
  <2>2. pc = FeedStage => ~submitted
    BY DEF LaunchPhaseInv
  <2>3. StagesBefore' = IF submitted THEN StagesBefore + 1 ELSE StagesBefore
    BY <1>0, <2>2 DEF StagesBefore, FeedStage
  <2>4. \A s \in Slots : Through(s)' = Through(s) /\ Mine(s)' = Mine(s)
    BY <2>1, <2>3 DEF Through, Mine
  <2> QED
    BY <1>0, <1>3, <2>4 DEF SlotInv
<1> QED
  BY <1>1, <1>2, <1>5, <1>6, <1>7

(* The job is told to terminate, or the driver goes on after it. *)
LEMMA JobOverKept == ASSUME LaunchInv, RunReturns \/ HookRaises \/ LaunchReturns PROVE LaunchInv'
<1> USE LaunchConstants DEF LaunchInv
<1>0. /\ UNCHANGED <<job, pending, busy, instance, thread, done, pc, submitted, fed, connected>>
      /\ terminated' \in {terminated, terminated \cup {job}} /\ job \in Jobs /\ pc > 0
      /\ TasksOf("stage", job) = {}
      /\ driver' \in {"launched", "idle", "finished"}
      /\ driver' = "launched" => pc = RunOver
      /\ terminated' = terminated => job \in terminated
      /\ pc \in Nat /\ RunOver \in Nat
  <2>1. CASE RunReturns
    BY <2>1 DEF RunReturns, LaunchPhaseInv, LaunchTypeOK, StopStage, RunOver
  <2>2. CASE HookRaises
    BY <2>2 DEF HookRaises, InRun, LaunchPhaseInv, LaunchTypeOK, StopStage, RunOver
  <2>3. CASE LaunchReturns
    BY <2>3 DEF LaunchReturns, LaunchPhaseInv, LaunchTypeOK, StopStage, RunOver
  <2> QED
    BY <2>1, <2>2, <2>3
<1>1. LaunchTypeOK'
  BY <1>0 DEF LaunchTypeOK
<1>2. AgesInv' /\ AgentInv'
  BY <1>0 DEF AgesInv, AgentInv
<1>3. TasksOf("stage", job)' = {} /\ TasksOf("server", job)' = TasksOf("server", job)
  BY <1>0 DEF TasksOf
<1>4. LaunchPhaseInv'
  BY <1>0, <1>3 DEF LaunchPhaseInv
<1>5. ThreadInv' /\ SlotInv'
  BY <1>0 DEF ThreadInv, SlotInv, OnJob
<1> QED
  BY <1>1, <1>2, <1>4, <1>5

(* So does a worker that stops, in whose process no other worker lives.     *)
LEMMA WorkerStopsKept ==
    ASSUME LaunchInv, NEW s \in Slots, NEW j \in Jobs, WorkerStops(s, j) PROVE LaunchInv'
<1> USE LaunchConstants DEF LaunchInv, WorkerStops
<1>1. LaunchTypeOK'
  BY DEF LaunchTypeOK, Threads
<1>2. \A q \in Slots, i \in Jobs :
        \/ thread'[q][i] = thread[q][i] /\ (q # s \/ i # j)
        \/ q = s /\ i = j /\ thread[q][i] = "ready" /\ thread'[q][i] = "ended"
  BY DEF LaunchTypeOK
<1>3. AgesInv'
  BY <1>2 DEF AgesInv
<1>4. LaunchPhaseInv'
  <2>1. "worker" \in pending' => \A q \in Slots : thread'[q][job] = "none"
    <3> SUFFICES ASSUME "worker" \in pending, NEW q \in Slots PROVE thread'[q][job] = "none"
      OBVIOUS
    <3>1. thread[q][job] = "none"
      BY DEF LaunchPhaseInv
    <3>2. job # j \/ q # s
      BY <3>1
    <3> QED
      BY <3>1, <3>2 DEF LaunchTypeOK
  <2> QED
    BY <2>1 DEF LaunchPhaseInv, TasksOf
<1>5. ThreadInv'
  BY <1>2 DEF ThreadInv
<1>6. AgentInv'
  <2> SUFFICES ASSUME \A q \in Slots, i \in Jobs : thread'[q][i] # "refused",
                      NEW q \in Slots, NEW i \in Jobs, thread'[q][i] \in {"running", "ready"}
               PROVE  instance'[q] = i
    BY DEF AgentInv
  <2>1. \A p \in Slots, k \in Jobs : thread[p][k] # "refused"
    BY <1>2
  <2>2. instance[q] = i /\ instance[s] = j
    BY <1>2, <2>1 DEF AgentInv
  <2>3. q # s
    BY <1>2, <2>2
  <2> QED
    BY <2>2, <2>3 DEF LaunchTypeOK
<1>7. SlotInv'
  <2>1. OnJob => job \in Jobs /\ job # j
    BY DEF OnJob, LaunchPhaseInv, LaunchTypeOK
  <2>2. OnJob => \A q \in Slots : Mine(q) => Mine(q)'
    BY <1>2, <2>1 DEF Mine
  <2> QED
    BY <2>2 DEF SlotInv, OnJob, TasksOf, Through, StagesBefore
<1> QED
  BY <1>1, <1>3, <1>4, <1>5, <1>6, <1>7

(* Every step of the driver, the session and the slots keeps the invariant. *)
LEMMA LaunchInductive == LaunchInv /\ [LaunchNext]_launchVars => LaunchInv'
<1> SUFFICES ASSUME LaunchInv, [LaunchNext]_launchVars PROVE LaunchInv'
  OBVIOUS
<1>1. CASE RunStep
  BY <1>1, ScheduleKept, CoordinatorReadyKept, TimeoutKept, SubmitStageKept,
      SubmitFeedTaskKept,
     StageReturnsKept, JobOverKept DEF RunStep
<1>2. ASSUME NEW s \in Slots, SlotStep(s) PROVE LaunchInv'
  BY <1>2, StageTaskKept, CreateWorkerKept, WorkerReadyKept, TaskLeavesKept, WorkerStopsKept
  DEF SlotStep
<1>3. CASE UNCHANGED launchVars
  <2>1. LaunchTypeOK' /\ AgesInv'
    BY <1>3 DEF LaunchInv, launchVars, LaunchTypeOK, AgesInv
  <2>2. LaunchPhaseInv'
    BY <1>3 DEF LaunchInv, launchVars, LaunchPhaseInv, TasksOf
  <2>3. ThreadInv' /\ AgentInv'
    BY <1>3 DEF LaunchInv, launchVars, ThreadInv, AgentInv
  <2>4. SlotInv'
    BY <1>3 DEF LaunchInv, launchVars, SlotInv, OnJob, Mine, Through, StagesBefore, TasksOf
  <2> QED
    BY <2>1, <2>2, <2>3, <2>4 DEF LaunchInv
<1> QED
  BY <1>1, <1>2, <1>3, LaunchKept, JobOverKept DEF LaunchNext, Ended

(* The invariant holds for every number of workers, servers, stages and     *)
(* jobs.                                                                    *)
THEOREM LaunchSafe == LaunchSpec => []LaunchInv
  BY LaunchInitial, LaunchInductive, PTL DEF LaunchSpec

(* agent.py: for every number of workers, servers and jobs, a task of a     *)
(* stage finds in its process the agent of its own job, which has been      *)
(* through all earlier stages once, also after a job that was left by an    *)
(* exception.                                                               *)
THEOREM LaunchOwnAgent == LaunchSpec => []OwnAgent
<1>1. LaunchInv => OwnAgent
  <2> SUFFICES ASSUME LaunchInv, NEW s \in TasksOf("stage", job)
               PROVE  instance[s] = job /\ done[s] = StagesBefore
    BY DEF OwnAgent, LaunchInv
  <2>1. s \in Slots /\ busy[s] = <<"stage", job>>
    BY DEF TasksOf
  <2>2. OnJob /\ job \in Jobs
    BY LaunchConstants DEF LaunchInv, LaunchPhaseInv, LaunchTypeOK, OnJob, StopStage,
        RunOver
  <2>3. Mine(s) /\ done[s] = StagesBefore
    BY <2>1, <2>2 DEF LaunchInv, SlotInv, Through
  <2>4. \A q \in Slots, j \in Jobs : thread[q][j] # "refused"
    BY <2>2 DEF LaunchInv, ThreadInv, OnJob
  <2> QED
    BY <2>1, <2>2, <2>3, <2>4 DEF LaunchInv, AgentInv, Mine
<1> QED
  BY <1>1, LaunchSafe, PTL

-----------------------------------------------------------------------------
(****************************************************************************)
(* The resources of a flow, for any set of files and any uses between them,  *)
(* cycles included: what load returns is exactly what can be reached from    *)
(* the root, and it raises only for a file that is invalid, a name that two  *)
(* files have, or a file that is used in two places.                         *)
(****************************************************************************)
(* What is loaded or queued has the root and what is used by what is        *)
(* loaded, and can be reached.                                              *)
Frontier ==
    /\ Root \in loaded \cup Range(queue)
    /\ \A f \in loaded : uses[f] \subseteq loaded \cup Range(queue)
    /\ loaded \cup Range(queue) \subseteq Reachable

(* A file is in the queue because a loaded one uses it.                     *)
Source ==
    \/ loaded = {} /\ queue = <<Root>>
    \/ \A f \in Range(queue) : \E g \in loaded : f \in uses[g]

(* No file is queued twice, or again, unless it is used in two places.      *)
NoRepeats ==
    UsedTwice \/ (IsInjective(queue) /\ loaded \cap Range(queue) = {})

(* How the loop was left.                                                   *)
Outcome ==
    /\ status = "invalid" => queue # <<>> /\ Head(queue) \notin valid
    /\ status = "conflict" => queue # <<>> /\ Conflicts(Head(queue))
    /\ status = "done" => queue = <<>>

LoaderInv == LoaderTypeOK /\ Frontier /\ Source /\ NoRepeats /\ Outcome

USE FilesAssumption

(* What is used by a file that can be reached can be reached.               *)
LEMMA ReachableUses ==
    ASSUME uses \in [Files -> SUBSET Files], NEW f \in Reachable, NEW g \in uses[f]
    PROVE  g \in Reachable
BY DEF Reachable, Closed

LEMMA RootReachable == Root \in Reachable
BY DEF Reachable, Closed

(* The queue after a turn of the loop, position by position.                *)
LEMMA QueueAfter ==
    ASSUME NEW s \in Seq(Files), s # <<>>, NEW q \in Seq(Files),
           NEW t, t = Tail(s) \o q
    PROVE  /\ t \in Seq(Files)
           /\ DOMAIN t = 1..(Len(s) - 1 + Len(q))
           /\ \A i \in DOMAIN t : IF i <= Len(s) - 1 THEN t[i] = s[i + 1]
                                  ELSE t[i] = q[i - (Len(s) - 1)]
           /\ Range(t) = Range(Tail(s)) \cup Range(q)
           /\ Range(s) = {Head(s)} \cup Range(Tail(s))
<1>1. /\ Tail(s) \in Seq(Files) /\ Len(Tail(s)) = Len(s) - 1
      /\ \A i \in 1..(Len(s) - 1) : Tail(s)[i] = s[i + 1]
      /\ Len(s) \in Nat \ {0} /\ Head(s) = s[1] /\ DOMAIN s = 1..Len(s)
      /\ DOMAIN Tail(s) = 1..(Len(s) - 1)
      /\ Len(q) \in Nat /\ DOMAIN q = 1..Len(q)
    OBVIOUS
<1>2. t \in Seq(Files) /\ Len(t) = Len(s) - 1 + Len(q) /\ DOMAIN t = 1..Len(t)
    BY <1>1
<1>3. \A i \in DOMAIN t : IF i <= Len(s) - 1 THEN t[i] = s[i + 1]
                          ELSE t[i] = q[i - (Len(s) - 1)]
    BY <1>1, <1>2
<1>4. Range(t) = Range(Tail(s)) \cup Range(q)
    <2>1. ASSUME NEW i \in DOMAIN t PROVE t[i] \in Range(Tail(s)) \cup Range(q)
        <3>1. CASE i <= Len(s) - 1
            <4>1. i \in DOMAIN Tail(s) /\ t[i] = Tail(s)[i]
                BY <1>1, <1>2, <1>3, <3>1
            <4> QED BY <4>1 DEF Range
        <3>2. CASE ~(i <= Len(s) - 1)
            <4>1. i - (Len(s) - 1) \in DOMAIN q /\ t[i] = q[i - (Len(s) - 1)]
                BY <1>1, <1>2, <1>3, <3>2
            <4> QED BY <4>1 DEF Range
        <3> QED BY <3>1, <3>2
    <2>2. ASSUME NEW i \in DOMAIN Tail(s) PROVE Tail(s)[i] \in Range(t)
        <3>1. i \in DOMAIN t /\ t[i] = Tail(s)[i]
            BY <1>1, <1>2, <1>3
        <3> QED BY <3>1 DEF Range
    <2>3. ASSUME NEW i \in DOMAIN q PROVE q[i] \in Range(t)
        <3>1. i + (Len(s) - 1) \in DOMAIN t /\ t[i + (Len(s) - 1)] = q[i]
            BY <1>1, <1>2, <1>3
        <3> QED BY <3>1 DEF Range
    <2> QED BY <2>1, <2>2, <2>3 DEF Range
<1>5. Range(s) = {Head(s)} \cup Range(Tail(s))
    <2>1. ASSUME NEW i \in DOMAIN s PROVE s[i] \in {Head(s)} \cup Range(Tail(s))
        <3>1. CASE i = 1
            BY <1>1, <3>1
        <3>2. CASE i # 1
            <4>1. i - 1 \in DOMAIN Tail(s) /\ Tail(s)[i - 1] = s[i]
                BY <1>1, <3>2
            <4> QED BY <4>1 DEF Range
        <3> QED BY <3>1, <3>2
    <2>2. Head(s) \in Range(s)
        BY <1>1 DEF Range
    <2>3. ASSUME NEW i \in DOMAIN Tail(s) PROVE Tail(s)[i] \in Range(s)
        <3>1. i + 1 \in DOMAIN s /\ Tail(s)[i] = s[i + 1]
            BY <1>1
        <3> QED BY <3>1 DEF Range
    <2> QED BY <2>1, <2>2, <2>3 DEF Range
<1> QED BY <1>2, <1>3, <1>4, <1>5

(* A function on 1..n is a sequence.                                        *)
LEMMA FunctionIsSeq ==
    ASSUME NEW S, NEW n \in Nat, NEW s \in [1..n -> S]
    PROVE  s \in Seq(S)
OBVIOUS

LEMMA LoaderInitInv == LoaderInit => LoaderInv
<1> SUFFICES ASSUME LoaderInit PROVE LoaderInv
    OBVIOUS
<1>0. Range(queue) = {Root} /\ queue \in Seq(Files) /\ DOMAIN queue = {1}
    BY DEF LoaderInit, Range
<1>1. LoaderTypeOK
    <2>1. Range(manager) = {} /\ IsInjective(manager) /\ manager \in Seq(Files)
        BY DEF LoaderInit, Range, IsInjective
    <2> QED BY <1>0, <2>1 DEF LoaderInit, LoaderTypeOK
<1>2. Frontier
    BY <1>0, RootReachable DEF LoaderInit, Frontier
<1>3. Source
    BY DEF LoaderInit, Source
<1>4. NoRepeats
    BY <1>0 DEF LoaderInit, NoRepeats, IsInjective
<1>5. Outcome
    BY DEF LoaderInit, Outcome
<1> QED BY <1>1, <1>2, <1>3, <1>4, <1>5 DEF LoaderInv

(* A turn of the loop that loads a file.                                    *)
LEMMA LoaderTurnInv ==
    ASSUME LoaderInv, status = "loading", queue # <<>>,
           NEW f, f = Head(queue), ~Conflicts(f),
           manager' = Append(manager, f), loaded' = loaded \cup {f},
           NEW q \in Orders(ToQueue(f)), queue' = Tail(queue) \o q,
           UNCHANGED <<uses, name, valid, status>>
    PROVE  LoaderInv'
<1> USE DEF LoaderInv
<1>1. /\ queue \in Seq(Files) /\ f \in Files /\ f \in Range(queue)
      /\ uses \in [Files -> SUBSET Files] /\ loaded \subseteq Files
      /\ manager \in Seq(Files) /\ Range(manager) = loaded /\ IsInjective(manager)
    BY DEF LoaderTypeOK, Range
<1>2. q \in Seq(Files) /\ Range(q) = ToQueue(f) /\ IsInjective(q)
    <2>1. ToQueue(f) \subseteq Files
        BY <1>1 DEF ToQueue
    <2>2. IsFiniteSet(ToQueue(f))
        BY <2>1, FS_Subset, FilesAssumption
    <2>3. Cardinality(ToQueue(f)) \in Nat
        BY <2>2, FS_CardinalityType
    <2>4. q \in [1..Cardinality(ToQueue(f)) -> ToQueue(f)] /\ Range(q) = ToQueue(f) /\ IsInjective(q)
        BY DEF Orders
    <2>5. q \in [1..Cardinality(ToQueue(f)) -> Files]
        BY <2>1, <2>4
    <2>6. q \in Seq(Files)
        BY <2>3, <2>5, FunctionIsSeq
    <2> QED BY <2>4, <2>6
<1>3. /\ queue' \in Seq(Files)
      /\ DOMAIN queue' = 1..(Len(queue) - 1 + Len(q))
      /\ \A i \in DOMAIN queue' : IF i <= Len(queue) - 1 THEN queue'[i] = queue[i + 1]
                                  ELSE queue'[i] = q[i - (Len(queue) - 1)]
      /\ Range(queue') = Range(Tail(queue)) \cup ToQueue(f)
      /\ Range(queue) = {f} \cup Range(Tail(queue))
    <2>1. queue' = Tail(queue) \o q
        OBVIOUS
    <2>2. f = Head(queue) /\ queue # <<>>
        OBVIOUS
    <2>3. Range(q) = ToQueue(f)
        BY <1>2
    <2> HIDE DEF LoaderInv
    <2>4. /\ queue' \in Seq(Files)
          /\ DOMAIN queue' = 1..(Len(queue) - 1 + Len(q))
          /\ \A i \in DOMAIN queue' : IF i <= Len(queue) - 1 THEN queue'[i] = queue[i + 1]
                                      ELSE queue'[i] = q[i - (Len(queue) - 1)]
          /\ Range(queue') = Range(Tail(queue)) \cup Range(q)
          /\ Range(queue) = {Head(queue)} \cup Range(Tail(queue))
        BY <1>1, <1>2, <2>1, <2>2, QueueAfter, Zenon
    <2> QED BY <2>2, <2>3, <2>4, Zenon
<1>4. f \notin loaded
    <2> SUFFICES ASSUME f \in loaded PROVE FALSE
        OBVIOUS
    <2>1. PICK i \in DOMAIN manager : manager[i] = f
        BY <1>1 DEF Range
    <2> QED BY <2>1 DEF Conflicts
<1>5. Reachable' = Reachable /\ UsedTwice' = UsedTwice
    BY DEF Reachable, Closed, UsedTwice
<1>6. LoaderTypeOK'
    <2>1. manager' \in Seq(Files) /\ DOMAIN manager' = 1..(Len(manager) + 1)
          /\ Len(manager) \in Nat /\ DOMAIN manager = 1..Len(manager)
          /\ manager'[Len(manager) + 1] = f
          /\ \A i \in DOMAIN manager : manager'[i] = manager[i]
        BY <1>1
    <2>2. IsInjective(manager')
        <3> SUFFICES ASSUME NEW a \in DOMAIN manager', NEW b \in DOMAIN manager',
                            manager'[a] = manager'[b]
                     PROVE  a = b
            BY DEF IsInjective
        <3>1. \A i \in DOMAIN manager : manager[i] # f
            BY <1>1, <1>4 DEF Range
        <3>2. \A i, j \in DOMAIN manager : manager[i] = manager[j] => i = j
            BY <1>1 DEF IsInjective
        <3> QED BY <2>1, <3>1, <3>2
    <2>3. Range(manager') = loaded'
        <3>1. \A x : x \in Range(manager') <=> x \in loaded \/ x = f
            <4>1. ASSUME NEW x \in Range(manager') PROVE x \in loaded \/ x = f
                <5>1. PICK i \in DOMAIN manager' : x = manager'[i]
                    BY DEF Range
                <5>2. CASE i \in DOMAIN manager
                    BY <5>1, <5>2, <2>1, <1>1 DEF Range
                <5>3. CASE i \notin DOMAIN manager
                    BY <5>1, <5>3, <2>1
                <5> QED BY <5>2, <5>3
            <4>2. ASSUME NEW x \in loaded PROVE x \in Range(manager')
                <5>1. PICK i \in DOMAIN manager : x = manager[i]
                    BY <1>1 DEF Range
                <5>2. i \in DOMAIN manager' /\ manager'[i] = x
                    BY <5>1, <2>1
                <5> QED BY <5>2 DEF Range
            <4>3. f \in Range(manager')
                <5>1. Len(manager) + 1 \in DOMAIN manager'
                    BY <2>1
                <5> QED BY <5>1, <2>1 DEF Range
            <4> QED BY <4>1, <4>2, <4>3
        <3> QED BY <3>1
    <2> QED BY <1>1, <1>3, <2>1, <2>2, <2>3 DEF LoaderTypeOK
<1>7. Frontier'
    <2>1. Root \in loaded' \cup Range(queue')
        BY <1>3 DEF Frontier
    <2>2. \A g \in loaded' : uses'[g] \subseteq loaded' \cup Range(queue')
        <3>1. \A g \in loaded : uses[g] \subseteq loaded' \cup Range(queue')
            BY <1>3 DEF Frontier
        <3>2. uses[f] \subseteq loaded' \cup Range(queue')
            BY <1>3 DEF ToQueue
        <3> QED BY <3>1, <3>2
    <2>3. loaded' \cup Range(queue') \subseteq Reachable'
        <3>1. f \in Reachable
            BY <1>1 DEF Frontier
        <3>2. ToQueue(f) \subseteq Reachable
            BY <1>1, <3>1, ReachableUses DEF ToQueue
        <3> QED BY <1>3, <1>5, <3>1, <3>2 DEF Frontier
    <2> QED BY <2>1, <2>2, <2>3 DEF Frontier
<1>8. Len(queue) \in Nat /\ Len(queue) >= 1 /\ DOMAIN queue = 1..Len(queue)
      /\ Len(q) \in Nat /\ DOMAIN q = 1..Len(q) /\ f = queue[1]
    BY <1>1, <1>2
<1>9. loaded = {} /\ queue = <<Root>> => Range(Tail(queue)) = {}
    BY DEF Range
<1>10. Source'
    <2>1. ASSUME NEW x \in Range(queue') PROVE \E g \in loaded' : x \in uses'[g]
        <3>1. CASE x \in ToQueue(f)
            BY <3>1 DEF ToQueue
        <3>2. CASE x \in Range(Tail(queue))
            <4>1. x \in Range(queue) /\ ~(loaded = {} /\ queue = <<Root>>)
                BY <1>3, <1>9, <3>2
            <4> QED BY <4>1 DEF Source
        <3> QED BY <1>3, <3>1, <3>2
    <2> QED BY <2>1 DEF Source
<1>11. NoRepeats'
    <2> SUFFICES ASSUME ~UsedTwice
                 PROVE  IsInjective(queue') /\ loaded' \cap Range(queue') = {}
        BY <1>5 DEF NoRepeats
    <2>1. IsInjective(queue) /\ loaded \cap Range(queue) = {}
        BY DEF NoRepeats
    <2>2. \A i, j \in 1..Len(queue) : queue[i] = queue[j] => i = j
        BY <2>1, <1>8 DEF IsInjective
    <2>3. Range(Tail(queue)) \cap ToQueue(f) = {}
        <3> SUFFICES ASSUME NEW x \in Range(Tail(queue)), x \in ToQueue(f) PROVE FALSE
            OBVIOUS
        <3>1. x \in Range(queue) /\ ~(loaded = {} /\ queue = <<Root>>)
            BY <1>3, <1>9
        <3>2. PICK g \in loaded : x \in uses[g]
            BY <3>1 DEF Source
        <3>3. g # f /\ x \in uses[f]
            BY <1>4, <3>2 DEF ToQueue
        <3>4. g \in Reachable /\ f \in Reachable /\ x \in Reachable
            BY <1>1, <3>1 DEF Frontier
        <3> QED BY <3>2, <3>3, <3>4 DEF UsedTwice
    <2>4. f \notin Range(Tail(queue))
        <3> SUFFICES ASSUME f \in Range(Tail(queue)) PROVE FALSE
            OBVIOUS
        <3>1. DOMAIN Tail(queue) = 1..(Len(queue) - 1)
              /\ \A i \in 1..(Len(queue) - 1) : Tail(queue)[i] = queue[i + 1]
            BY <1>1, <1>8
        <3>2. PICK i \in DOMAIN Tail(queue) : f = Tail(queue)[i]
            BY DEF Range
        <3>3. i + 1 \in 1..Len(queue) /\ queue[i + 1] = queue[1] /\ i + 1 # 1 /\ 1 \in 1..Len(queue)
            BY <1>8, <3>1, <3>2
        <3> QED BY <2>2, <3>3
    <2>5. loaded' \cap Range(queue') = {}
        BY <1>3, <2>1, <2>4 DEF ToQueue
    <2>6. IsInjective(queue')
        <3> SUFFICES ASSUME NEW a \in DOMAIN queue', NEW b \in DOMAIN queue',
                            queue'[a] = queue'[b]
                     PROVE  a = b
            BY DEF IsInjective
        <3> DEFINE n == Len(queue) - 1
        <3>1. n \in Nat /\ a \in 1..(n + Len(q)) /\ b \in 1..(n + Len(q))
            BY <1>3, <1>8
        <3>2. \A i \in 1..n : queue[i + 1] \in Range(Tail(queue))
            <4>1. DOMAIN Tail(queue) = 1..n /\ \A i \in 1..n : Tail(queue)[i] = queue[i + 1]
                BY <1>1, <1>8
            <4> QED BY <4>1 DEF Range
        <3>3. \A i \in 1..Len(q) : q[i] \in ToQueue(f)
            BY <1>2, <1>8 DEF Range
        <3>4. \A i, j \in 1..Len(q) : q[i] = q[j] => i = j
            BY <1>2, <1>8 DEF IsInjective
        <3>5. CASE a <= n /\ b <= n
            <4>1. queue'[a] = queue[a + 1] /\ queue'[b] = queue[b + 1]
                BY <1>3, <3>5
            <4>2. a + 1 \in 1..Len(queue) /\ b + 1 \in 1..Len(queue)
                BY <1>8, <3>1, <3>5
            <4>3. a + 1 = b + 1
                BY <2>2, <4>1, <4>2
            <4> QED BY <3>1, <4>3
        <3>6. CASE a > n /\ b > n
            <4>1. queue'[a] = q[a - n] /\ queue'[b] = q[b - n]
                BY <1>3, <3>1, <3>6
            <4>2. a - n \in 1..Len(q) /\ b - n \in 1..Len(q)
                BY <1>8, <3>1, <3>6
            <4>3. a - n = b - n
                BY <3>4, <4>1, <4>2
            <4> QED BY <3>1, <4>3
        <3>7. CASE a <= n /\ b > n
            <4>1. queue'[a] = queue[a + 1] /\ queue'[b] = q[b - n]
                BY <1>3, <3>1, <3>7
            <4>2. a \in 1..n /\ b - n \in 1..Len(q)
                BY <1>8, <3>1, <3>7
            <4> QED BY <2>3, <3>2, <3>3, <4>1, <4>2
        <3>8. CASE a > n /\ b <= n
            <4>1. queue'[b] = queue[b + 1] /\ queue'[a] = q[a - n]
                BY <1>3, <3>1, <3>8
            <4>2. b \in 1..n /\ a - n \in 1..Len(q)
                BY <1>8, <3>1, <3>8
            <4> QED BY <2>3, <3>2, <3>3, <4>1, <4>2
        <3> QED BY <3>1, <3>5, <3>6, <3>7, <3>8
    <2> QED BY <2>5, <2>6
<1>12. Outcome'
    BY DEF Outcome
<1> QED BY <1>6, <1>7, <1>10, <1>11, <1>12

(* Every step keeps the invariant.                                          *)
LEMMA LoaderNextInv == LoaderInv /\ [LoaderNext]_loaderVars => LoaderInv'
<1> SUFFICES ASSUME LoaderInv, [LoaderNext]_loaderVars PROVE LoaderInv'
    OBVIOUS
<1>1. CASE LoadNext
    <2> DEFINE f == Head(queue)
    <2>1. CASE ~Loads(f)
        <3>1. status' = "invalid" /\ UNCHANGED <<queue, loaded, manager, uses, name, valid>>
            BY <1>1, <2>1 DEF LoadNext, disk, Raised
        <3> QED BY <1>1, <2>1, <3>1
            DEF LoadNext, Loads, LoaderInv, LoaderTypeOK, Frontier, Source, NoRepeats, Outcome, Reachable, Closed, UsedTwice
    <2>2. CASE Loads(f) /\ Conflicts(f)
        <3>1. status' = "conflict" /\ UNCHANGED <<queue, loaded, manager, uses, name, valid>>
            BY <1>1, <2>2 DEF LoadNext, disk
        <3> QED BY <1>1, <2>2, <3>1
            DEF LoadNext, Conflicts, LoaderInv, LoaderTypeOK, Frontier, Source, NoRepeats, Outcome, Reachable, Closed, UsedTwice
    <2>3. CASE Loads(f) /\ ~Conflicts(f)
        <3>1. PICK q \in Orders(ToQueue(f)) : queue' = Tail(queue) \o q
            BY <1>1, <2>3 DEF LoadNext
        <3>2. /\ status = "loading" /\ queue # <<>>
              /\ manager' = Append(manager, f) /\ loaded' = loaded \cup {f}
              /\ UNCHANGED <<uses, name, valid, status>>
            BY <1>1, <2>3 DEF LoadNext, disk
        <3> QED BY <2>3, <3>1, <3>2, LoaderTurnInv
    <2> QED BY <2>1, <2>2, <2>3
<1>2. CASE Freeze
    BY <1>2 DEF Freeze, disk, LoaderInv, LoaderTypeOK, Frontier, Source, NoRepeats, Outcome, Reachable, Closed, UsedTwice
<1>3. CASE UNCHANGED loaderVars
    BY <1>3 DEF loaderVars, LoaderInv, LoaderTypeOK, Frontier, Source, NoRepeats, Outcome, Conflicts, Reachable, Closed, UsedTwice
<1> QED BY <1>1, <1>2, <1>3 DEF LoaderNext

LEMMA LoaderInductive == LoaderSpec => []LoaderInv
BY LoaderInitInv, LoaderNextInv, PTL DEF LoaderSpec

(* resource_loader.py: when load_into returns, the manager has exactly the  *)
(* files that can be reached from the root, for any files and uses.         *)
THEOREM LoadedIsReachable == LoaderSpec => []LoadsReachable
<1>1. LoaderInv => LoadsReachable
    <2> SUFFICES ASSUME LoaderInv, status = "done" PROVE Range(manager) = Reachable
        BY DEF LoadsReachable
    <2>1. Range(queue) = {} /\ Range(manager) = loaded /\ loaded \subseteq Files
        BY DEF LoaderInv, Outcome, LoaderTypeOK, Range
    <2>2. Closed(loaded)
        BY <2>1 DEF LoaderInv, Frontier, Closed
    <2>3. Reachable \subseteq loaded
        BY <2>1, <2>2 DEF Reachable
    <2> QED BY <2>1, <2>3 DEF LoaderInv, Frontier
<1> QED BY <1>1, LoaderInductive, PTL

(* resource_manager.py:add_resource and _load_resource: a load is refused   *)
(* only for an invalid file, two files of one name, or a file that is used  *)
(* in two places.                                                           *)
THEOREM RefusedForAReason == LoaderSpec => []FailsForAReason
<1>1. LoaderInv => FailsForAReason
    <2> SUFFICES ASSUME LoaderInv PROVE FailsForAReason
        OBVIOUS
    <2>1. queue # <<>> => Head(queue) \in Range(queue) /\ Head(queue) \in Reachable
        BY DEF LoaderInv, LoaderTypeOK, Frontier, Range
    <2>2. status = "invalid" => ~(Reachable \subseteq valid)
        BY <2>1 DEF LoaderInv, Outcome
    <2>3. ASSUME status = "conflict"
          PROVE  UsedTwice \/ \E f, g \in Reachable : f # g /\ name[f] = name[g]
        <3> DEFINE f == Head(queue)
        <3>1. queue # <<>> /\ Conflicts(f)
            BY <2>3 DEF LoaderInv, Outcome
        <3>2. PICK i \in DOMAIN manager : name[manager[i]] = name[f]
            BY <3>1 DEF Conflicts
        <3>3. manager[i] \in loaded /\ manager[i] \in Reachable
            BY <3>2 DEF LoaderInv, LoaderTypeOK, Frontier, Range
        <3>4. CASE manager[i] = f
            BY <2>1, <3>1, <3>3, <3>4 DEF LoaderInv, NoRepeats
        <3>5. CASE manager[i] # f
            BY <2>1, <3>1, <3>2, <3>3, <3>5
        <3> QED BY <3>4, <3>5
    <2> QED BY <2>2, <2>3 DEF FailsForAReason
<1> QED BY <1>1, LoaderInductive, PTL

(* Type correctness; the manager never has a file twice.                    *)
THEOREM LoaderTypes == LoaderSpec => []LoaderTypeOK
BY LoaderInductive, PTL DEF LoaderInv
=============================================================================

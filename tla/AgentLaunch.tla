----------------------------- MODULE AgentLaunch -----------------------------
(***************************************************************************)
(* How a job is run on Spark (agent.py, ps_launcher.py, estimator.py).     *)
(* Spark has as many slots as the job has servers and workers, and every   *)
(* slot has a Python process that is used again.  A launch submits two     *)
(* barrier stages: the tasks of the servers stay in their slots until they *)
(* are terminated, the tasks of the workers leave a thread behind, which   *)
(* registers the worker's agent in the process, and return once the job is *)
(* connected.  From then on the coordinator's run() submits one stage after*)
(* the other, whose tasks look up the agent of the process they happen to  *)
(* be in.  When run() is over the coordinator sends Terminate; the launch  *)
(* returns when the coordinator and the servers are done.  The threads of  *)
(* the workers are not waited for.                                         *)
(*                                                                         *)
(* Jobs are launched one after the other by one driver program (_fit, then *)
(* _transform, ...), in one Spark session.                                 *)
(***************************************************************************)
EXTENDS Integers, FiniteSets

CONSTANTS
    WorkerCount,    \* worker_count
    ServerCount,    \* server_count
    NJobs,          \* how many jobs the driver program launches
    Distributions,  \* how many distribute_* stages run() has
    FeedTasks,      \* how many tasks feed_dataset runs
    LaunchFaults    \* subset of {"hook"}: a hook on the coordinator raises

ASSUME CountsAssumption ==
    /\ WorkerCount \in Nat \ {0}
    /\ ServerCount \in Nat \ {0}
    /\ NJobs \in Nat \ {0}
    /\ Distributions \in Nat
    /\ FeedTasks \in Nat

(* The size of the session: spark.executor.instances or local[n].          *)
ExecutorCount_Mutant == WorkerCount + ServerCount - 1
ExecutorCount == WorkerCount + ServerCount

Slots == 1..ExecutorCount
Jobs == 1..NJobs
NoJob == 0

VARIABLES
    driver,     \* "idle", "launched", "finished" or "exited"
    job,        \* the job launched last
    pending,    \* its barrier stages that have no slots yet
    busy,       \* busy[s]: the task in slot s, <<kind, job>>
    instance,   \* instance[s]: the job of the agent registered in the process
    thread,     \* thread[s][j]: the run_worker thread of job j in slot s
    done,       \* done[s]: how many stages the registered agent has been through
    pc,         \* the stage run() is at; 0 before it starts
    submitted,  \* whether run() has submitted stage pc
    fed,        \* how many tasks of feed_dataset have been started
    connected,  \* the jobs whose coordinator has sent the list of nodes
    terminated  \* the jobs that have been told to terminate

launchVars == <<driver, job, pending, busy, instance, thread, done, pc, submitted,
          fed, connected, terminated>>

(* run(): the distribute_* stages, start_workers, feed_dataset,            *)
(* collect_module, stop_workers.                                           *)
StartStage == Distributions + 1
FeedStage == Distributions + 2
StopStage == Distributions + 4
RunOver == Distributions + 5

Free == <<"free", NoJob>>
Threads == {"none", "starting", "running", "ready", "refused", "ended"}

(* Types of the variables.                                                  *)
LaunchTypeOK ==
    /\ driver \in {"idle", "launched", "finished", "exited"}
    /\ job \in 0..NJobs
    /\ pending \subseteq {"server", "worker"}
    /\ busy \in [Slots -> {Free} \cup ({"server", "worker", "stage"} \X Jobs)]
    /\ instance \in [Slots -> Jobs \cup {NoJob}]
    /\ thread \in [Slots -> [Jobs -> Threads]]
    /\ done \in [Slots -> 0..(RunOver - 2)]
    /\ pc \in 0..RunOver
    /\ submitted \in BOOLEAN
    /\ fed \in 0..FeedTasks
    /\ connected \subseteq Jobs
    /\ terminated \subseteq Jobs

LaunchInit ==
    /\ driver = "idle"
    /\ job = 0
    /\ pending = {}
    /\ busy = [s \in Slots |-> Free]
    /\ instance = [s \in Slots |-> NoJob]
    /\ thread = [s \in Slots |-> [j \in Jobs |-> "none"]]
    /\ done = [s \in Slots |-> 0]
    /\ pc = 0
    /\ submitted = FALSE
    /\ fed = 0
    /\ connected = {}
    /\ terminated = {}

TasksOf(what, j) == {s \in Slots : busy[s] = <<what, j>>}
FreeSlots == {s \in Slots : busy[s] = Free}

-----------------------------------------------------------------------------
(* launch_agent and _launch: the stages of the servers and of the workers  *)
(* are submitted and the coordinator is started, each in its own thread.   *)
Launch ==
    /\ driver = "idle"
    /\ job < NJobs
    /\ driver' = "launched"
    /\ job' = job + 1
    /\ pending' = {"server", "worker"}
    /\ pc' = 0 /\ submitted' = FALSE /\ fed' = 0
    /\ UNCHANGED <<busy, instance, thread, done, connected, terminated>>

(* Spark gives a barrier stage all its slots at once.                      *)
Schedule(what, n) ==
    /\ driver = "launched"
    /\ what \in pending
    /\ pending' = pending \ {what}
    /\ \E S \in SUBSET FreeSlots :
        /\ Cardinality(S) = n
        /\ busy' = [s \in Slots |-> IF s \in S THEN <<what, job>> ELSE busy[s]]
        /\ thread' = [s \in Slots |->
                        IF what = "worker" /\ s \in S
                        THEN [thread[s] EXCEPT ![job] = "starting"] ELSE thread[s]]
    /\ UNCHANGED <<driver, job, instance, done, pc, submitted, fed,
                   connected, terminated>>

ScheduleServers == Schedule("server", ServerCount)
ScheduleWorkers == Schedule("worker", WorkerCount)

(* _register_instance refuses a second agent in a process.                 *)
MayRegister_Mutant(s) == TRUE
MayRegister(s) == instance[s] = NoJob

(* create_worker in the run_worker thread: the agent is registered, or the *)
(* registration raises and the finally clause of run_worker deregisters    *)
(* whatever agent the process has.                                         *)
CreateWorker(s, j) ==
    /\ thread[s][j] = "starting"
    /\ IF MayRegister(s)
       THEN /\ instance' = [instance EXCEPT ![s] = j]
            /\ done' = [done EXCEPT ![s] = 0]
            /\ thread' = [thread EXCEPT ![s][j] = "running"]
       ELSE /\ instance' = [instance EXCEPT ![s] = NoJob]
            /\ done' = done
            /\ thread' = [thread EXCEPT ![s][j] = "refused"]
    /\ UNCHANGED <<driver, job, pending, busy, pc, submitted, fed, connected,
                   terminated>>

(* The coordinator has heard of all servers and workers: it sends them the *)
(* list of nodes and run() starts, perhaps before the workers are ready.   *)
CoordinatorReady ==
    /\ driver = "launched"
    /\ pc = 0
    /\ Cardinality(TasksOf("server", job)) = ServerCount
    /\ Cardinality({s \in Slots : thread[s][job] = "running"}) = WorkerCount
    /\ connected' = connected \cup {job}
    /\ pc' = 1
    /\ UNCHANGED <<driver, job, pending, busy, instance, thread, done, submitted,
                   fed, terminated>>

(* The worker has connected itself: worker_ready sets the future.          *)
WorkerReady(s, j) ==
    /\ thread[s][j] = "running"
    /\ j \in connected
    /\ thread' = [thread EXCEPT ![s][j] = "ready"]
    /\ UNCHANGED <<driver, job, pending, busy, instance, done, pc, submitted,
                   fed, connected, terminated>>

(* ready.result() returns and with it the task; the thread stays.          *)
RunWorkerReturns(s, j) ==
    /\ busy[s] = <<"worker", j>>
    /\ thread[s][j] \in {"ready", "ended"}
    /\ busy' = [busy EXCEPT ![s] = Free]
    /\ UNCHANGED <<driver, job, pending, instance, thread, done, pc, submitted,
                   fed, connected, terminated>>

(* A process that waits 60 seconds for the others exits; the coordinator   *)
(* is a thread of the driver, so a job that can never be connected because *)
(* a worker was refused takes the driver program with it.                  *)
WaitReadyTimeout ==
    /\ driver = "launched"
    /\ pc = 0
    /\ \E s \in Slots : thread[s][job] = "refused"
    /\ driver' = "exited"
    /\ UNCHANGED <<job, pending, busy, instance, thread, done, pc, submitted,
                   fed, connected, terminated>>

-----------------------------------------------------------------------------
InRun == driver = "launched" /\ pc \in 1..StopStage

(* A stage of run() with one task per worker: distribute_*, start_workers, *)
(* collect_module or stop_workers.                                         *)
SubmitStage ==
    /\ InRun /\ pc # FeedStage /\ ~submitted
    /\ \E S \in SUBSET FreeSlots :
        /\ Cardinality(S) = WorkerCount
        /\ busy' = [s \in Slots |-> IF s \in S THEN <<"stage", job>> ELSE busy[s]]
    /\ submitted' = TRUE
    /\ UNCHANGED <<driver, job, pending, instance, thread, done, pc, fed,
                   connected, terminated>>

MoreToFeed == fed < FeedTasks

(* feed_dataset runs a task of the dataset in any slot that is free.       *)
SubmitFeedTask ==
    /\ InRun /\ pc = FeedStage /\ MoreToFeed
    /\ \E s \in FreeSlots : busy' = [busy EXCEPT ![s] = <<"stage", job>>]
    /\ fed' = fed + 1
    /\ UNCHANGED <<driver, job, pending, instance, thread, done, pc, submitted,
                   connected, terminated>>

(* The task calls get_instance, does its part with the agent and returns.  *)
(* Without an agent get_instance raises, which OwnAgent excludes.          *)
StageTask(s) ==
    /\ busy[s] = <<"stage", job>>
    /\ busy' = [busy EXCEPT ![s] = Free]
    /\ done' = [done EXCEPT ![s] = IF pc = FeedStage THEN @ ELSE @ + 1]
    /\ UNCHANGED <<driver, job, pending, instance, thread, pc, submitted, fed,
                   connected, terminated>>

(* collect() or save() returns when all tasks have; run() goes on.         *)
StageReturns ==
    /\ InRun
    /\ IF pc = FeedStage THEN fed = FeedTasks ELSE submitted
    /\ TasksOf("stage", job) = {}
    /\ pc' = pc + 1
    /\ submitted' = FALSE
    /\ UNCHANGED <<driver, job, pending, busy, instance, thread, done, fed,
                   connected, terminated>>

(* run() is over: ShutdownGuard sends Terminate, and the coordinator's     *)
(* future is done.                                                         *)
RunReturns ==
    /\ driver = "launched"
    /\ pc = RunOver
    /\ job \notin terminated
    /\ terminated' = terminated \cup {job}
    /\ UNCHANGED <<driver, job, pending, busy, instance, thread, done, pc,
                   submitted, fed, connected>>

(* A hook raises in run(), between two stages: ShutdownGuard sends         *)
(* Terminate, the coordinator's future gets the exception, and gather and  *)
(* launch_agent raise it without waiting for the servers.                  *)
HookRaises ==
    /\ "hook" \in LaunchFaults
    /\ InRun /\ ~submitted /\ TasksOf("stage", job) = {}
    /\ terminated' = terminated \cup {job}
    /\ driver' = IF job = NJobs THEN "finished" ELSE "idle"
    /\ UNCHANGED <<job, pending, busy, instance, thread, done, pc, submitted, fed,
                   connected>>

(* A server has got Terminate: run_ps and its task return.                 *)
ServerStops(s, j) ==
    /\ busy[s] = <<"server", j>>
    /\ j \in terminated
    /\ busy' = [busy EXCEPT ![s] = Free]
    /\ UNCHANGED <<driver, job, pending, instance, thread, done, pc, submitted,
                   fed, connected, terminated>>

(* A worker has got Terminate: run_ps returns in the thread run_worker,    *)
(* whose finally clause deregisters the agent of the process, or raises    *)
(* when there is none.                                                      *)
WorkerStops(s, j) ==
    /\ thread[s][j] = "ready"
    /\ j \in terminated
    /\ instance' = [instance EXCEPT ![s] = NoJob]
    /\ thread' = [thread EXCEPT ![s][j] = "ended"]
    /\ UNCHANGED <<driver, job, pending, busy, done, pc, submitted, fed,
                   connected, terminated>>

(* gather: the futures of the servers, the workers and the coordinator are *)
(* all done; launch_agent, and with it _fit or _transform, returns.        *)
LaunchReturns ==
    /\ driver = "launched"
    /\ job \in terminated
    /\ pending = {}
    /\ TasksOf("server", job) = {} /\ TasksOf("worker", job) = {}
    /\ driver' = IF job = NJobs THEN "finished" ELSE "idle"
    /\ UNCHANGED <<job, pending, busy, instance, thread, done, pc, submitted,
                   fed, connected, terminated>>

-----------------------------------------------------------------------------
SlotStep(s) ==
    \/ StageTask(s)
    \/ \E j \in Jobs : CreateWorker(s, j) \/ WorkerReady(s, j) \/ RunWorkerReturns(s, j)
                           \/ ServerStops(s, j) \/ WorkerStops(s, j)

RunStep ==
    \/ ScheduleServers
    \/ ScheduleWorkers
    \/ CoordinatorReady
    \/ WaitReadyTimeout
    \/ SubmitStage
    \/ SubmitFeedTask
    \/ StageReturns
    \/ RunReturns
    \/ LaunchReturns

(* The driver program has ended.                                            *)
Ended == driver \in {"finished", "exited"} /\ UNCHANGED launchVars

LaunchNext ==
    \/ Launch
    \/ RunStep
    \/ HookRaises
    \/ driver # "exited" /\ \E s \in Slots : SlotStep(s)
    \/ Ended

LaunchSpec == LaunchInit /\ [][LaunchNext]_launchVars

(* Spark schedules the stages it can, threads run, and the driver program  *)
(* launches its jobs.                                                      *)
FairLaunchSpec ==
    /\ LaunchSpec
    /\ WF_launchVars(Launch) /\ WF_launchVars(RunStep)
    /\ \A s \in Slots : WF_launchVars(SlotStep(s))

-----------------------------------------------------------------------------
(* The stages with one task per worker that come before stage pc.          *)
StagesBefore == IF pc > FeedStage THEN pc - 2 ELSE pc - 1

(* agent.py:get_instance.  A task of a stage finds, in whatever process    *)
(* Spark runs it, an agent; it is the agent of the job that submitted the  *)
(* stage and never one that an earlier job has left behind; and that agent *)
(* has been through all earlier stages of run(), once each: it has every   *)
(* attribute that was distributed, its trainer and its model.  This is     *)
(* what "Server processes block the spark method call" is for.             *)
OwnAgent ==
    /\ LaunchTypeOK
    /\ \A s \in TasksOf("stage", job) :
        /\ instance[s] = job
        /\ done[s] = StagesBefore

(* Every job comes to an end: its launch returns or raises, or the driver  *)
(* exits; no stage waits for slots for ever.                               *)
JobsEnd == <>(driver \in {"finished", "exited"})
=============================================================================

---------------------------- MODULE SageMakerFlow ----------------------------
(***************************************************************************)
(* A scene of MetaSpore Flow on SageMaker.  The command line (up, reload   *)
(* and down: offline_sage_maker_scheduler.py, sagemaker_executor.py)       *)
(* uploads the configuration, installs a crontab entry and runs the job    *)
(* once, or takes all of it back.  The crontab starts runner processes     *)
(* (crontab_sage_maker_runner.py): a runner makes itself the only one with *)
(* a lock on a pid file, has SageMaker train a model, waits for it and     *)
(* deploys it to the endpoint.  Any step may fail, and a runner may die.   *)
(*                                                                         *)
(* External: cron, flock on inodes, SageMaker, S3.                         *)
(***************************************************************************)
EXTENDS Integers, FiniteSets

CONSTANTS
    Runners,   \* the runner processes that may be started
    None,      \* no runner, no version, no file
    Minutes,   \* the clock runs from 1 to Minutes
    CliCalls,  \* how many commands are given
    Faults     \* subset of {"die", "fail"}: runners die, steps fail

ASSUME SceneAssumption == Minutes \in Nat \ {0} /\ CliCalls \in Nat /\ None \notin Runners

ModelVersions == 1..Minutes       \* model_version is the minute of the start
Inodes == Runners                 \* the pid file that a runner has created

(* What up writes to S3, in two calls: the algorithm's configuration, and   *)
(* the entrypoint that is generated and exists nowhere else.                *)
Parts == {"config", "entrypoint"}

(* A line of the crontab: its expression and its command.                   *)
Foreign == <<1, "foreign">>
Entry(expr) == <<expr, "scene">>
Exprs == {1, 2}                   \* cronExpr may change between two ups

VARIABLES
    clock,
    crontab,   \* the lines of the crontab
    flow,      \* metaspore-flow.dat exists and is whole
    s3,        \* the parts of the configuration that are whole on S3
    rewriting, \* history: an up has begun to change s3 and flow, and none has
               \* come to the end of that since
    cli,       \* the step the command line is at
    calls,     \* how many commands have been given
    once,      \* the runner that _run_job_once waits for
    rpc,       \* rpc[r]: the step runner r is at
    version,   \* version[r]: its model_version
    fd,        \* fd[r]: the inode it has open
    path,      \* the inode the pid path names
    holder,    \* holder[i]: who has the lock on inode i
    training,  \* training[v]: status of the training job of version v
    configs,   \* the versions with a model and an endpoint config
    endpoint   \* the version the endpoint serves

cliVars == <<crontab, flow, s3, rewriting, cli, calls, once>>
runVars == <<rpc, version, fd, path, holder>>
awsVars == <<training, configs, endpoint>>
sceneVars == <<clock, cliVars, runVars, awsVars>>

CliSteps == {"idle", "sync", "syncing", "entrypoint", "save", "saving", "install",
             "runonce", "wait",
             "uninstall", "clearflow", "clears3", "delendpoint", "delconfigs"}
RunSteps == {"none", "parsed", "opened", "locked", "waiting", "updating",
             "creating", "closing", "removing", "ended"}

(* Types of the variables; the crontab has at most one entry of the scene, *)
(* and keeps its other lines unless crontab -l has failed.                  *)
SceneTypeOK ==
    /\ clock \in 1..Minutes
    /\ crontab \subseteq {Foreign} \cup {Entry(e) : e \in Exprs}
    /\ \A d, e \in Exprs : Entry(d) \in crontab /\ Entry(e) \in crontab => d = e
    /\ Foreign \in crontab \/ "fail" \in Faults
    /\ flow \in BOOLEAN /\ s3 \subseteq Parts /\ rewriting \in BOOLEAN
    /\ cli \in CliSteps /\ calls \in 0..CliCalls
    /\ once \in Runners \cup {None}
    /\ rpc \in [Runners -> RunSteps]
    /\ version \in [Runners -> ModelVersions \cup {None}]
    /\ fd \in [Runners -> Inodes \cup {None}]
    /\ path \in Inodes \cup {None}
    /\ holder \in [Inodes -> Runners \cup {None}]
    /\ training \in [ModelVersions -> {"NotFound", "InProgress", "Completed", "Failed", "Stopped"}]
    /\ configs \subseteq ModelVersions
    /\ endpoint \in ModelVersions \cup {None}

SceneInit ==
    /\ clock = 1
    /\ crontab = {Foreign}
    /\ flow = FALSE /\ s3 = {} /\ rewriting = FALSE
    /\ cli = "idle" /\ calls = 0 /\ once = None
    /\ rpc = [r \in Runners |-> "none"]
    /\ version = [r \in Runners |-> None]
    /\ fd = [r \in Runners |-> None]
    /\ path = None
    /\ holder = [i \in Inodes |-> None]
    /\ training = [v \in ModelVersions |-> "NotFound"]
    /\ configs = {}
    /\ endpoint = None

Tick ==
    /\ clock < Minutes
    /\ clock' = clock + 1
    /\ UNCHANGED <<cliVars, runVars, awsVars>>

-----------------------------------------------------------------------------
(* The command line.  publish() takes its steps in the order upload (sync   *)
(* and entrypoint), save, install, run once; execute_down in the order      *)
(* uninstall, clear the flow config, clear the config on S3, delete the     *)
(* endpoint, delete configs and models.  At "syncing" and "saving" a write  *)
(* is under way.                                                            *)
PublishOrder_Mutant == <<"install", "sync", "syncing", "entrypoint", "save", "saving", "runonce">>
PublishOrder == <<"sync", "syncing", "entrypoint", "save", "saving", "install", "runonce">>
DestroyOrder == <<"uninstall", "clearflow", "clears3", "delendpoint", "delconfigs">>

StepAfter(steps, at) ==
    LET i == CHOOSE k \in DOMAIN steps : steps[k] = at
    IN  IF i + 1 \in DOMAIN steps THEN steps[i + 1] ELSE "idle"
NextStep(at) ==
    IF \E k \in DOMAIN PublishOrder : PublishOrder[k] = at
    THEN StepAfter(PublishOrder, at) ELSE StepAfter(DestroyOrder, at)

(* up or reload, or down.                                                   *)
Command ==
    /\ cli = "idle" /\ calls < CliCalls
    /\ calls' = calls + 1
    /\ \/ cli' = PublishOrder[1]
       \/ cli' = DestroyOrder[1]
    /\ UNCHANGED <<clock, crontab, flow, s3, rewriting, once, runVars, awsVars>>

(* A step raises, and with it the command: before it has changed anything,  *)
(* in the middle of a write, or after it has removed some of the objects.   *)
(* Deleting the endpoint does not raise: its exceptions are caught.         *)
CliFails ==
    /\ "fail" \in Faults
    /\ cli \notin {"idle", "wait", "delendpoint"}
    /\ s3' = s3 \/ (cli = "clears3" /\ s3' \in SUBSET s3)
    /\ configs' = configs \/ (cli = "delconfigs" /\ configs' \in SUBSET configs)
    /\ cli' = "idle"
    /\ UNCHANGED <<clock, crontab, flow, rewriting, calls, once, runVars, training, endpoint>>

(* _make_new_crontab_spec and _filter_crontab_spec, of the lines that      *)
(* _get_old_crontab_spec returns: none if crontab -l fails.                 *)
Others(lines) == {l \in lines : l[2] # "scene"}
NewSpec(lines, expr) == Others(lines) \cup {Entry(expr)}
OldSpecs == IF "fail" \in Faults THEN {crontab, {}} ELSE {crontab}

(* _upload_config: sync --delete puts and removes objects one by one, and   *)
(* takes the entrypoint away, which the second call puts back.              *)
UploadConfig ==
    /\ \/ cli = "sync" /\ s3' \in SUBSET s3 /\ rewriting' = TRUE
       \/ cli = "syncing" /\ s3' = {"config"} /\ UNCHANGED rewriting
       \/ cli = "entrypoint" /\ s3' = s3 \cup {"entrypoint"} /\ UNCHANGED rewriting
    /\ UNCHANGED <<crontab, flow, configs, endpoint>>

(* _save_flow_config: the file is truncated, and then written.              *)
SaveFlowConfig ==
    /\ \/ cli = "save" /\ flow' = FALSE /\ UNCHANGED rewriting
       \/ cli = "saving" /\ flow' = TRUE /\ rewriting' = FALSE
    /\ UNCHANGED <<crontab, s3, configs, endpoint>>

UpdateCrontab ==
    /\ \E lines \in OldSpecs :
        \/ cli = "install" /\ \E e \in Exprs : crontab' = NewSpec(lines, e)
        \/ cli = "uninstall" /\ crontab' = Others(lines)
    /\ UNCHANGED <<flow, s3, rewriting, configs, endpoint>>

(* The rest of destroy() and execute_down().                                *)
TakeBack ==
    /\ \/ cli = "clearflow" /\ flow' = FALSE /\ UNCHANGED <<s3, configs, endpoint>>
       \/ cli = "clears3" /\ s3' = {} /\ UNCHANGED <<flow, configs, endpoint>>
       \/ /\ cli = "delendpoint"
          /\ endpoint' = None \/ ("fail" \in Faults /\ endpoint' = endpoint)
          /\ UNCHANGED <<flow, s3, configs>>
       \/ cli = "delconfigs" /\ configs' = {} /\ UNCHANGED <<flow, s3, endpoint>>
    /\ UNCHANGED <<crontab, rewriting>>

FileStep ==
    /\ UploadConfig \/ SaveFlowConfig \/ UpdateCrontab \/ TakeBack
    /\ cli' = NextStep(cli)
    /\ UNCHANGED <<clock, calls, once, runVars, training>>

(* The runner that check_call waits for has ended.                          *)
RunOnceReturns ==
    /\ cli = "wait" /\ rpc[once] = "ended"
    /\ cli' = "idle" /\ once' = None
    /\ UNCHANGED <<clock, crontab, flow, s3, rewriting, calls, runVars, awsVars>>

-----------------------------------------------------------------------------
(* Runners.                                                                 *)
Goto(r, next) == rpc' = [rpc EXCEPT ![r] = next]

(* _parse_args: without a whole flow config the runner ends; the model      *)
(* version, and with it the name of the training job, is the minute.       *)
Parse(r) ==
    /\ rpc[r] = "none"
    /\ Goto(r, IF flow THEN "parsed" ELSE "ended")
    /\ version' = [version EXCEPT ![r] = clock]
    /\ UNCHANGED <<clock, crontab, flow, s3, rewriting, calls, fd, path, holder, awsVars>>

Scheduled == Others(crontab) # crontab

CronStarts(r) ==
    /\ Scheduled
    /\ Parse(r)
    /\ UNCHANGED <<cli, once>>

RunJobOnce(r) ==
    /\ cli = "runonce"
    /\ Parse(r)
    /\ cli' = "wait" /\ once' = r

(* _check_unique: os.open with O_CREAT, then flock without waiting.        *)
OpenPid(r) ==
    /\ rpc[r] = "parsed"
    /\ path' = IF path = None THEN r ELSE path
    /\ fd' = [fd EXCEPT ![r] = path']
    /\ Goto(r, "opened")
    /\ UNCHANGED <<clock, cliVars, version, holder, awsVars>>

FlockPid(r) ==
    /\ rpc[r] = "opened"
    /\ IF holder[fd[r]] = None
       THEN holder' = [holder EXCEPT ![fd[r]] = r] /\ Goto(r, "locked")
       ELSE holder' = holder /\ Goto(r, "ended")   \* Job is already running.
    /\ UNCHANGED <<clock, cliVars, version, fd, path, awsVars>>

(* create_training_job: SageMaker refuses a name it has.                   *)
CreateTrainingJob(r) ==
    /\ rpc[r] = "locked"
    /\ IF training[version[r]] = "NotFound"
       THEN training' = [training EXCEPT ![version[r]] = "InProgress"] /\ Goto(r, "waiting")
       ELSE training' = training /\ Goto(r, "closing")
    /\ UNCHANGED <<clock, cliVars, version, fd, path, holder, configs, endpoint>>

(* SageMaker ends a training job.                                           *)
TrainingEnds(v) ==
    /\ training[v] = "InProgress"
    /\ \E s \in {"Completed", "Failed", "Stopped"} : training' = [training EXCEPT ![v] = s]
    /\ UNCHANGED <<clock, cliVars, runVars, configs, endpoint>>

(* _wait_training_job: the runner polls until the job has ended; the model *)
(* is deployed when it has completed.                                       *)
WaitOver_Mutant(status) == status \in {"Completed", "Failed"}
WaitOver(status) == status \in {"Completed", "Failed", "Stopped"}
Deploys_Mutant(status) == status \in {"Completed", "Stopped"}
Deploys(status) == status = "Completed"

WaitTrainingJob(r) ==
    /\ rpc[r] = "waiting"
    /\ WaitOver(training[version[r]])
    /\ Goto(r, IF Deploys(training[version[r]]) THEN "updating" ELSE "closing")
    /\ UNCHANGED <<clock, cliVars, version, fd, path, holder, awsVars>>

(* execute_reload: the model is copied, create_model and                   *)
(* create_endpoint_config; then the endpoint is created or updated, which  *)
(* SageMaker refuses when the config is gone.                              *)
CreateModel(r) ==
    /\ rpc[r] = "updating"
    /\ configs' = configs \cup {version[r]}
    /\ Goto(r, "creating")
    /\ UNCHANGED <<clock, cliVars, version, fd, path, holder, training, endpoint>>

CreateOrUpdateEndpoint(r) ==
    /\ rpc[r] = "creating"
    /\ endpoint' = IF version[r] \in configs THEN version[r] ELSE endpoint
    /\ Goto(r, "closing")
    /\ UNCHANGED <<clock, cliVars, version, fd, path, holder, training, configs>>

(* The body of the with statement raises: the 72000 seconds of the wait    *)
(* have passed, there is not exactly one model, a call of S3 or SageMaker  *)
(* fails, the endpoint does not get ready.                                  *)
BodyRaises(r) ==
    /\ "fail" \in Faults
    /\ rpc[r] \in {"locked", "waiting", "updating", "creating"}
    /\ Goto(r, "closing")
    /\ UNCHANGED <<clock, cliVars, version, fd, path, holder, awsVars>>

(* __exit__: the file is closed, which releases the lock, and then what    *)
(* the path names is removed.                                               *)
Released_Mutant(r) == holder
Released(r) == [i \in Inodes |-> IF holder[i] = r THEN None ELSE holder[i]]

ClosePid(r) ==
    /\ rpc[r] = "closing"
    /\ holder' = Released(r)
    /\ Goto(r, "removing")
    /\ UNCHANGED <<clock, cliVars, version, fd, path, awsVars>>

RemovePid(r) ==
    /\ rpc[r] = "removing"
    /\ path' = None
    /\ Goto(r, "ended")
    /\ UNCHANGED <<clock, cliVars, version, fd, holder, awsVars>>

(* The process dies: its lock is released, its pid file stays.             *)
Die(r) ==
    /\ "die" \in Faults
    /\ rpc[r] \notin {"none", "ended"}
    /\ holder' = [i \in Inodes |-> IF holder[i] = r THEN None ELSE holder[i]]
    /\ Goto(r, "ended")
    /\ UNCHANGED <<clock, cliVars, version, fd, path, awsVars>>

RunnerStep(r) ==
    \/ OpenPid(r) \/ FlockPid(r) \/ CreateTrainingJob(r) \/ WaitTrainingJob(r)
    \/ CreateModel(r) \/ CreateOrUpdateEndpoint(r) \/ ClosePid(r) \/ RemovePid(r)

SceneNext ==
    \/ Tick \/ Command \/ CliFails \/ FileStep \/ RunOnceReturns
    \/ \E r \in Runners :
        CronStarts(r) \/ RunJobOnce(r) \/ RunnerStep(r) \/ BodyRaises(r) \/ Die(r)
    \/ \E v \in ModelVersions : TrainingEnds(v)

SceneSpec == SceneInit /\ [][SceneNext]_sceneVars

(* Processes run, and SageMaker ends every training job (StoppingCondition *)
(* gives it 20 hours, as long as the runner waits).                        *)
FairSceneSpec ==
    /\ SceneSpec
    /\ WF_sceneVars(FileStep) /\ WF_sceneVars(RunOnceReturns)
    /\ \A r \in Runners : WF_sceneVars(RunnerStep(r))
    /\ \A v \in ModelVersions : WF_sceneVars(TrainingEnds(v))

-----------------------------------------------------------------------------
(* publish and destroy.  Whenever cron may start the scene's runner, what  *)
(* the runner and its training job read is there: the flow config on disk   *)
(* and both parts on S3, whichever step of whichever earlier up or down has *)
(* failed.  Only while an up, or a reload, writes them again, and after one *)
(* that has failed at that, may a scheduled runner miss some of them.       *)
Configured == flow /\ s3 = Parts
ScheduledHasConfig == SceneTypeOK /\ (Scheduled /\ ~rewriting => Configured)

(* _create_training_job.  The endpoint serves a model only when the        *)
(* training job of that version has completed, whatever other runners and  *)
(* commands do meanwhile.                                                   *)
DeployedIsTrained == endpoint # None => training[endpoint] = "Completed"

(* A runner that dies leaves its pid file but no lock: every lock is held  *)
(* by a runner that is alive, so that a later one is not refused for ever. *)
LocksAreAlive ==
    \A i \in Inodes : holder[i] # None =>
        rpc[holder[i]] \in {"locked", "waiting", "updating", "creating", "closing"}

(* Every runner that has been started comes to an end.                      *)
RunnersEnd == \A r \in Runners : rpc[r] # "none" ~> rpc[r] = "ended"
=============================================================================

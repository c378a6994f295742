# TLA+ specifications of MetaSpore

These modules specify the parts of MetaSpore in which processes, threads, files
and failures meet: the C++ parameter server (`src/cpp/metaspore`) with its hash
map (`src/cpp/common/hashmap`), the Python trainer and launcher that drive it
(`src/python/metaspore`), the way of a trained model into the serving process
(`src/python/scripts/consul`, `src/cpp/serving`), and the offline flow
(`src/python/metasporeflow`). TLC checks them on small instances, TLAPS proves
the most important properties for all sizes. `PROJECT.json` lists the
components, the runs, the source lines behind every definition, the hazards and
the theorems.

    tlc -workers 2 -config MCNodeBarrier.cfg MCNodeBarrier
    tlapm NodeBarrierProofs.tla

## 1. Inventory

A training job has one *coordinator*, *servers*, which hold the tensors, and
*workers*, which compute gradients. Each is a process (`ActorProcess`) with a
calling thread and a receiver thread, connected by ZeroMQ sockets.

| Component | State | Operations | Talks to | What is hard | Correct when |
|---|---|---|---|---|---|
| Process life cycle (`actor_process.cpp`, `zeromq_transport.cpp`) | `ready_`, node id, sender sockets, `nodes_` of the coordinator | Start, AddNode (both sides), WaitReady, Terminate, Stop | all processes by messages | nothing orders messages of different senders; 60 s timeout; `ZMQ_LINGER` 0; an exception in the receiver thread is only seen by Stop | ids are unique and agreed on, a ready node is connected, everybody starts and stops |
| Barrier (`node_manager.cpp`, `actor_process.cpp`) | `barrier_done_` per node, `barrier_counter_` per group | Barrier, HandleBarrierMessage, NotifyBarrierDone | member ↔ coordinator | requests are counted, not senders; one flag for all groups; messages may be dropped | nobody leaves before everybody has entered; everybody leaves |
| Requests (`ps_agent.cpp`) | `tracker_`, `tracker_mutex_`, `tracker_cv_` | SendRequest, SendAllRequests, BroadcastRequest, HandleMessage, SendResponse | worker → server, worker → coordinator | sends under the lock the responses need; lost wake-ups; exceptions half way through | one response per request, no response without entry, every call ends |
| Tensor commands (`ps_default_agent.cpp`, `tensor_partition_store.cpp`) | the store of a server | Init, Push, Pull, PushMeta, PullMeta, Load, Save, Export, Prune, Clear, Dispose, … | called by the receiver thread | commands of several workers interleave | a tensor is created once, metas agree |
| Sparse partition (`sparse_tensor_partition.cpp`) | hash map key → vector, state, age | push, pull, import, prune, load, save | disk | padding key, ages, files of other partition counts, text format | no update lost or applied twice |
| Dense partition (`dense_tensor_meta.cpp`, `dense_tensor_partition.cpp`) | rows of data and state | push, pull, slice arithmetic | — | wrap-around of `size_t`, uneven slices | the slices tile the tensor |
| Trainer (`distributed_trainer.py`, `model.py`, `estimator.py`, `distributed_tensor.py`) | the module's weights, keys of the minibatch | initialize, load, train, prune, save, export | servers by requests, workers by barriers | only worker 0 does some steps; crash during save; restart with other sizes | workers agree, checkpoint and export are complete |
| Launcher (`agent.py`, `ps_launcher.py`, `estimator.py`) | the agent registered in a Python process, `run_worker` threads, Spark's slots | `_launch`, `_run_server`, `_run_worker`, the stages of `run()`, Terminate | Spark, the C++ processes | a stage's tasks look up whatever agent their process has; threads outlive their job; slots | a task finds its own job's agent, everything distributed is there, every job ends |
| Metrics (`metric.py`, `agent.py`, `model_metric_buffer.cpp`) | buffers of workers and coordinator | accumulate, push_metric, handle_request, merge, clear, compute_auc | worker → coordinator | the buffers are sent without a copy; an answer may be an exception after the merge | every minibatch is counted once |
| Hash map (`common/hashmap`) | arrays of keys, values and links, heads of buckets | find, get_or_init, put, growth, prune, clear, (de)serialize | sparse partition, disk | chains are stale while prune moves entries; a file has its own bucket count; failed allocations, short files | it is a map |
| SageMaker flow (`offline_sage_maker_scheduler.py`, `sagemaker_executor.py`, `crontab_sage_maker_runner.py`) | crontab, pid file, S3, training jobs, endpoint | up, reload, down; the runner | cron, SageMaker | a step fails after others have succeeded; a runner dies; two runners race for the lock | cron finds its configuration, only trained models are deployed, runners end |
| Model watcher (`consul_watch_load.py`) | what is loaded, tasks and locks per key, local directories | watch handler, `_load_change` | Consul, S3, serving | posts are lost or late, downloads and loads fail, each container restarts alone | only whole models are served, never an older one, in the end the last |
| Resource loading (`resource_loader.py`, `resource_manager.py`) | queue, loaded files, manager | load_into, add_resource, freeze | files | cycles, names used twice, invalid files | exactly the reachable files are loaded |
| Offline scheduling (`offline/`) | dag, its order, runs of the script | up, tasks of a run, retry | cron, Kubernetes, SageMaker | a failing task, overlapping runs, retries from the first task | a task runs after those it depends on |
| Serving (`src/cpp/serving`) | table of loaded models | load, predict | gRPC | models replaced while predictions run | a prediction uses one model |
| Online services (`src/java/online-service`) | task flows, configuration, experiments | recommend, refresh, feature tasks | gRPC, databases, Consul | configuration reload while requests run; time-outs of parallel tasks | a request sees one configuration |

`demo`, `tutorials`, `docker`, `kubernetes` and `examples` are not part of the
system proper. The behaviours that make the core hard, each at its line, are the
*hazards* of `PROJECT.json`.

## 2. Modules

| Module | Models | Composed of |
|---|---|---|
| `AbstractBarrier` | what callers of `Barrier` may rely on | — |
| `NodeBarrier` | `NodeManager::Barrier`, `NotifyBarrierDone`, `HandleBarrierMessage`, `drop_rate` | refines `AbstractBarrier` |
| `NodeEncoding` | `node_encoding.h` | — |
| `ActorProcess` | `Start`, `WaitReady`, `HandleAddNodeMessage`, `UpdateLocalId`, `CoordinatorHandleAddNode`, `Connect`, first requests, `Shutdown`, `Stop` | `NodeEncoding` |
| `RequestTracker` | `SendAllRequests` and its two siblings, `HandleMessage`, `SendResponse`, bounded pipes | — |
| `DensePartition` | `ComputePartitionShapesWithHash` | — |
| `SparsePartition` | `SparseTensorPartition` as operators on maps, the fields of its text files | — |
| `DistributedTrainer` | jobs: trainer, tensor clients, store and partitions, checkpoint and export directory | `SparsePartition`, `DensePartition`; barrier and requests as their abstract behaviour |
| `AbstractMap` | what a sparse partition expects of its map | — |
| `ArrayHashMap` | `array_hash_map.h`: find, get_or_init, growth, prune, serialize, deserialize_with_header; `SparseTensorPartition::Clear` and `Load` around it | refines `AbstractMap` |
| `ModelMetric` | `metric.py`, `model_metric_buffer.cpp`: the metric and its AUC as operators | — |
| `MetricPush` | feeding of epochs, `push_metric`, `handle_request`, the callback, `worker_stop` | `ModelMetric` |
| `AgentLaunch` | launches on Spark: barrier stages, `run_worker` threads, agents by process, the stages of `run()`, Terminate | Spark is external |
| `SageMakerFlow` | the commands up, reload and down; cron; the runner with its lock, training, deployment | cron, flock, SageMaker, S3 are external |
| `ModelWatcher` | `publish`, the Consul watch, `_load_change`, `ModelManager::load` | Consul, S3, gRPC are external |
| `ResourceLoader` | `load_into`, `add_resource`, `freeze` | — |
| `OfflineFlow` | the dag and its order, the scripts of the three schedulers, retries | networkx, shells, cron, Kubernetes are external |
| `OrchestrationProofs` | theorems about `OfflineFlow`, `SageMakerFlow`, `ModelWatcher`, `AgentLaunch` and `ResourceLoader` | the five, which share nothing |
| `TrainerProofs` | theorems about `DensePartition` and the checkpoints of `DistributedTrainer` | `DistributedTrainer` |
| `TensorProofs` | theorems about the tensors of `DistributedTrainer` | `TrainerProofs` |
| other `*Proofs` | theorems about the module they extend | |
| `MC*` | instances for TLC | |

`OfflineFlow`, `SageMakerFlow`, `AgentLaunch` and `ResourceLoader` name their
initial states, steps and specifications with a prefix (`FlowInit`, `SceneNext`,
`LaunchSpec`, `LoaderSpec`), since `OrchestrationProofs` extends them together
with `ModelWatcher`.

How the models abstract the code:

* **NodeBarrier.** A call of `Barrier` is two steps, before and after the wait;
  `barrier_mutex_` is held from the reset of the flag to the wait, which makes
  the first one step. Channels to and from the coordinator are FIFO per node.
  `entered`, `left`, `rounds` and `arrived` are history variables.
  One thread of a process calls `Barrier` at a time, as the trainer does.
* **ActorProcess.** A socket is a record of the id it leads to, the process it
  leads to and the identity it was made with (−1 before the node has an id,
  when ZeroMQ invents one and the receiver reads −1). The list of nodes in
  AddNode is determined by the constants once all have registered, so the
  message carries no list. What may go wrong in a job is chosen at the start, `faults`:
  *timeout* (WaitReady exits), *early* (a worker sends before every node is
  ready), *abort* (the coordinator's agent ends while workers work) and
  *linger* (closing a socket discards a suffix of what it has queued).
  A receiver thread that an exception ends belongs to a process that is not ready
  yet, so that its `Stop`, which would rethrow the exception, is never called:
  the process ends by the time-out, with a message about connections.
  Start-up requests only test routes and the partition index of the store;
  their bookkeeping is RequestTracker's.
* **RequestTracker.** A request is a pair of call and position. A pipe is a set
  with a capacity: any order is allowed, which is more than ZeroMQ does. Sending
  to a full pipe is not enabled, and the sender keeps the mutex. A receiver
  thread that has a response in hand waits for the mutex. Peers are valid
  receivers without a socket: a send to one throws.
* **SparsePartition, DistributedTrainer.** A vector is the number of updates it
  has had and its age; a row of the dense tensor is a count, too, and the weights
  with which two workers build their modules differ. The optimizer in a meta is
  the number of the job that created it. An updater with `HasState` changes the
  state together with the data. The initializer is the default one (zeros), so
  `prune_small(0.0)` removes what was never updated. `asyncio.gather` runs its
  coroutines one after another, since every request blocks its caller until
  `tracker_cv_` has been notified: a worker is a list of operations, built from
  the Python functions with the branches of the C++ `Load` and `Save` in place.
  A barrier is one step of all workers (`AbstractBarrier`, which `NodeBarrier`
  implements) and a request has one answer per server (`RequestTracker`).
  Each server handles a request in one step. A file is written in one
  step; the checkpoint as a whole is not: meta, partitions, dense meta, data and
  state are separate steps, and the job may be killed between any two. `table`
  and `vec` are ghosts: what one sequential program would have made of the same
  operations. The ghost `saved` is what the servers hold when a save begins, not
  what they should hold: a job started from a torn checkpoint trains and saves
  other tensors, and its own checkpoint is complete all the same. It is not the
  checkpoint of a sequential program either, which `job.sound` remembers: a job is
  sound when it starts afresh or from a complete checkpoint that a sound job saved.
* **ArrayHashMap.** The arrays are one function from index to key, vector and
  link; cells that nothing reads are left out. A loop takes a step per element,
  so that a chain that goes round would show. `get_power_bucket_count` and the
  hash function have a parameter for 2^31 − 1 and the set of powers of two for
  their 32-bit limit. A failing `realloc` is the first of the four; a later one
  leaves `keys_` dangling, which is not modelled. When an insertion
  cannot reallocate, the map is as it was before; when a load cannot, it is empty.
  When *prune* cannot, there is no map any more: `key_count_` has been lowered and
  entries have been moved, and `first_` and `next_` are those of before
  (`PruneThrows`). `torn` remembers this, and also
  that a load ended within `first_`, where there are heads of chains while
  `key_count_` is zero. From then on nothing but the absence of accesses outside
  the arrays is claimed, until the map is cleared or loaded again; `AbstractMap`
  says that the map has been given up. A torn map is not saved: the exception
  is answered to worker 0, whose job ends between prune and save. Two constants
  bound the instance: `Puts`, the pairs of key and vector that are put, and
  `TornKeys`, how many keys a torn map may grow to.
* **ModelMetric, MetricPush.** Every field of a metric is a sum over minibatches,
  so a metric is the number of times it holds each of them; the two buffers of
  the AUC are computed from the examples. Sending without a copy is what makes
  the buffers of a worker part of the request until its callback clears them.
* **AgentLaunch.** A slot is a Spark task slot and the Python process that is
  used again for it. Which slot a task gets is Spark's choice. The C++ job behind
  the agents is only `connected` and `terminated`.
* **SageMakerFlow.** A lock belongs to an inode, and the pid path names one: a
  runner that removes the path while another has the old inode open makes two
  locks possible, as in the code. Every external call may fail. Versions are the
  minutes at which runners start. Uploading is two calls: `aws s3 sync --delete`,
  which puts and removes objects one by one and takes the entrypoint away, since
  that exists on S3 only, and the upload of a new entrypoint; a failure may leave
  any part of it. The flow config is truncated and then written. The history
  variable `rewriting` is true from the first of these writes until the last one
  of an `up` that came that far. A failing `crontab -l` is taken for an empty
  crontab, so that the lines of others may be lost; exceptions of deleting the
  endpoint are swallowed, and the command goes on.
* **ModelWatcher.** A model is named by the `ModifyIndex` of its put. What may
  fail in a deployment is chosen at the start: nothing; failures that the next
  post repairs; or also broken connections and restarts of a container.
* **ResourceLoader, OfflineFlow.** All graphs over the given files or tasks are
  initial states. `OfflineFlow` lets the order of tasks be any topological order,
  since networkx promises no more, and a task end either way.

## 3. Runs

| Run | Instance | States | Shows |
|---|---|---|---|
| `barrier` | coordinator, 2 workers, 3 overlapping groups, 2 calls per node and group; jobs with and without drops | 137,000 | nobody leaves early; refinement of `AbstractBarrier`; without drops everybody is released |
| `actor` | coordinator, 2 servers on one host, 1 worker, 2 requests; no faults or all of them | 18,000 | routes, ids and partition indices agree; only an early request ends a receiver thread; without faults everybody starts, is answered and stops |
| `tracker` | 2 threads, 2 servers, 1 peer, 3 calls of 0, 1 or 2 requests, also two to one server or one to the peer; pipes of 1 message | 380,000 | responses and entries match; calls end |
| `trainer` | 2 workers, 2 or 3 servers, 2 jobs, crash at any point; slices for all hashes of a 4-bit word, ≤ 5 servers, ≤ 12 rows | 274,000 | see below |
| `trainer_text` | the same with text files and an updater without state | *violation* | the saved files cannot be read |
| `hashmap` | keys 1, 5, 8 modulo 7, 1 to 8 buckets, 2 vectors, 1 predicate; allocations (of prune, too) and reads fail | 1,547,000 | the invariant; refinement of `AbstractMap`; loops end |
| `metric` | 2 workers, 2 epochs of 3 minibatches, a push every 2, answers that are exceptions | 5,800 | every minibatch counts once; the AUC is that of the pairs; the job ends |
| `agent` | 2 workers, 1 server, 3 jobs, hooks that raise | 150,000 | tasks find their own agent; jobs end |
| `sagemaker` | 2 runners, 2 minutes, 2 commands, failing steps, dying runners | 830,000 | cron finds its configuration unless it is being rewritten; only trained models are served; locks of the living; runners end |
| `watcher` | 1 key, 2 versions, 3 puts, 4 posts, three sets of faults | 168,000 | whole models, never an older one, in the end the last one |
| `resource` | all graphs of 3 files, names and valid files | 325,000 | what is loaded is what can be reached; why a load fails; loading ends |
| `offline` | all dags of 3 tasks, 3 schedulers, 2 runs, 1 retry | 54,000 | order and completeness of runs |

**Why the bounds are enough.** Two members of a barrier and two calls give stale
flags and stale counters of a previous round and of an overlapping group. Two
servers on one host and one more process on another exercise both keys of the
sort of ids. Two threads and pipes of one message reach every combination of a
held mutex, a full pipe and a waiting receiver. Four-bit words make `index + hash`
wrap for many hashes, with every remainder of rows by servers. In `trainer` the
key sets `{0, 1}`, `{1, 3}` and `{1, 2}` contain the padding key, a key both
workers update, keys that change servers between 2 and 3 servers, and a minibatch
without gradients; two jobs are a save, a crash anywhere in it or after it, and a
load with the same or another number of servers; `MaxAge = 1` lets vectors be
pruned in the second job. In `hashmap` keys 1 and 8 always collide, and 5 joins
them in four buckets or less: chains of one, two and three entries; pruning
shrinks the eight buckets to one, two or four, from where the map grows again up
to the limit of eight, and every file is loaded over every map. Key 5 is only
put with the vector that stays, and nothing is put in a torn map of three keys
(`TornKeys = 3`): a map of three keys of which prune drops one or two and then
cannot reallocate may still get keys again, that link to stale entries. Three jobs are
the least in which a thread of the first can meet the third (`agent`). Three puts
are a model overtaken by a second while a third comes (`watcher`). Three files or
tasks give chains, forks, joins and cycles.

**Deadlock** is checked in `trainer`, `hashmap` and `agent`, where the system can
always go on or has an explicit end. It is off where callers may simply
stop calling (`barrier`, `tracker`), processes end (`actor`, `metric`,
`sagemaker`, `resource`, `offline`) or publishing is bounded (`watcher`).

**Properties of `trainer`.** `TensorsMatch`: at every barrier the servers
together hold exactly the tensors a sequential program would have, also after a
load into another number of servers, with no key on two servers. `ModelsAgree`:
after initialize, load and export all modules have the servers' weights.
`FreshPull`: a pull has every update acknowledged before it began and none that
was not begun. `CheckpointComplete`: a completed save stays complete and equal to
the tensors at its start until the next save begins. `ExportComplete`: a finished
job exported what it trained. `JobsComplete`: a job that is left alone comes to
its end, unless it was started from an incomplete checkpoint; no worker of it
fails. `TilesUnlessWraps`: the slices of a dense tensor are a partition of its
rows unless `index + hash` wraps around.

**Properties of the other runs** that need a remark. `OnlyEarlyRequestsKill`: the
only exception that reaches a receiver thread is a request that overtakes the
list of nodes. `EveryTensorCallEnds`: with one request per server and call, as
the tensors make them, every call ends with pipes of one message.
`AUCOfPairs`: what the coordinator prints is the share of ordered pairs of a
positive and a negative example, up to the pairs in one bucket. `OwnAgent`: a
task's agent is of the job that submitted its stage and has been through all
earlier stages, once each. `ScheduledHasConfig`: whatever step of whatever
command has failed, a crontab entry has its flow config on disk and its
configuration and entrypoint on S3, unless an `up` or a `reload` is writing them
again or has failed while it did. `FailsForAReason`: a load fails only for an
invalid file, a name defined twice, or a file that two files use.
`NeverBack` and `KnownIsServed` are about deployments whose connections hold and
whose containers are not restarted; `PublishedIsServed` about deployments without
failures. `AfterDependencies` and `EndedRanAll`: under Kubernetes and SageMaker
the earlier tasks have succeeded; the crontab script goes on after a failing
task, and for it they have only ended.

**Finding** (`trainer_text`). A sparse tensor whose optimizer keeps no state is
written as `data||age`, split into two fields on reading and refused, although
the reader asks for "3 fields".

**Where the code does less than one might expect.** The models have these
behaviours; the properties above are stated so that they exclude them.

* `actor_process.cpp:155` and `agent.py:250` say that a node is ready when all
  nodes are connected to each other. The code makes a node ready when it has
  connected *itself*; a request in that window reaches a server that has no socket
  for the answer and ends its receiver thread (`OnlyEarlyRequestsKill`).
* The launch returns when the coordinator and the servers are done; the worker
  threads of the job are not waited for, and a hook that raises leaves servers in
  their slots. The next launch is then refused by an agent that is still
  registered; `OwnAgent` says that its tasks never use one.
* A call of two requests to one server can stop both sides: the worker sends with
  `tracker_mutex_` held into a full pipe, its receiver thread waits for the mutex,
  and the server for room for its response.
* `_check_unique` locks a file that another runner may just have removed, so that
  two runners can be at work. What they deploy is still completely trained.
* A resource file that two files use may be queued twice and is then refused for a
  conflict with itself (`RefusedForAReason` says exactly when).
* After a broken connection a load may still be going on in the serving process
  and replace a newer model; after a restart of the serving process the watcher
  takes for loaded what is not served any more, until the key changes.
* A second `up` or a `reload` removes the entrypoint of a scene whose crontab
  entry is installed (`sync --delete`) and truncates its flow config. A runner
  that cron starts in between finds none; if the second upload fails, it finds
  none until an `up` succeeds. `ScheduledHasConfig` excludes just this, by
  `rewriting`.
* `prune` lowers `key_count_` and moves entries before it reallocates. If that
  throws, `first_` and `next_` are stale: finds miss keys that were kept or reach
  entries that were dropped, and a put may link an entry to itself, so that later
  walks do not end. Nothing repairs the map but `clear` or a load. The theorems
  about the hash map have this step and claim a map only outside `torn`.
* A hash map whose load ended within `first_` may also walk in circles until it
  is cleared or loaded again. `reallocate` changes four buffers one by one; when a
  later one fails `keys_` may point to memory that was freed.
* The comment in `DistributedTrainer.load` says that `import_from` does not
  override existing keys, but `Load` passes `skip_existing = false`, which does;
  the trainer clears the tables first.

## 4. Fairness

Liveness is checked under weak fairness of steps a running thread takes when it
can: receiver threads loop for as long as the process lives, condition
variables wake their waiters, a started worker goes on with its program, the
thread in a loop of the hash map goes on, scripts and runners run, Spark runs a
stage whose slots are free, SageMaker ends a training job in one way or another,
and the event loop of the watcher runs its tasks. Nothing is assumed of the
environment: no caller has to call `Barrier`, no request has to be made, no job
has to follow another, no model has to be published, and no fault has to happen.
The liveness properties exclude faults the code does not repair, each by a
condition on the job at hand: `lossy` (a dropped barrier message),
`faults = {}` in `actor` (an exited process or a discarded Terminate leaves
others waiting) and in `watcher`, `~job.sound` in `trainer` (workers that load a
torn checkpoint fail one by one and the others wait at the next barrier), `torn`
in `hashmap` (stale chains may go round). `RunEnds`, `JobsEnd`, `RunnersEnd` and
`LoadEnds` hold with the faults of their runs. That the run of an offline flow
ends is no property: its tasks are a finite list and each is assumed to end. `tracker_mutex_` is not assumed to be fair: the
calls are bounded, so it is free for good in the end. A pipe, being FIFO, does
not keep back one of its messages.

## 5. Proofs

All proofs are for arbitrary constants that satisfy the modules' assumptions.

* **`NodeBarrierProofs`** (from `BarrierAssumption`: finitely many nodes with
  roles). `NoEarlyLeave` is not inductive: a state in which the coordinator's
  counter is one ahead of the members that wait satisfies it and leads to a
  violation. `IInv` adds that the counter is the number of *distinct* members
  whose present call has been counted (`CounterInv`), that such a member has
  nothing in flight and its flag down (`ArrivedInv`), that a member is inside the
  round after the last finished one, or in the last finished one and released
  (`RoundInv`), and that at most one message is in flight for a member, which
  tells its round (`ChannelInv`). The induction has one step per action;
  the one with content is the request that completes a round, where the counter
  reaching the group's size means, by cardinality of a subset, that all members
  have arrived. `BarrierNoEarlyLeave` follows from `RoundInv`;
  `BarrierRefinement` shows that every step is a step of `AbstractBarrier` or
  changes no phase.
* **`RequestTrackerProofs`** (`TrackerAssumption`: finitely many threads, a
  capacity of at least 1, calls of bounded length). `ReceiverSurvives` needs that a response in
  flight belongs to an entry
  that is still tracked. `EntryInv` ties the size of an entry to the set of
  answered requests, `RouteInv` and `PlaceInv` say that a request is in exactly
  one place; so a response in flight means an entry that is not complete, which
  nobody erases. `NoLostWakeUp` is part of the invariant: the response that
  completes a call notifies its thread, whatever other calls do.
* **`TrainerProofs`**, in two parts, and **`TensorProofs`**.
  - *Slices of a dense tensor*, arithmetic of `/` and `%` for all sizes. `SlotBegin`
    and `SlotEnd` of consecutive slots meet, and the rotation by the hash is a
    bijection of indices when `index + hash` does not wrap or the number of
    servers divides the modulus; so the slices tile the tensor (`DenseTiles`).
    `DenseTilesExactly` is the converse: when it wraps and the number of servers
    does not divide the modulus two servers get the same slot, and once there is a
    row for every server that slot is not empty.
  - *Checkpoints* (`TrainerAssumption`, with the hash far enough from the modulus,
    and `NoneAssumption`). `CheckpointComplete` says nothing of a save in progress
    and is not inductive. `OrderInv` is about the programs: `Ends` says what the
    j-th operation from the end is, for every list a worker can have left, and all
    workers have as many barriers left (`Bars`, a cardinality: `ProgramEnds` for a
    new job, with or without a load, and any number of minibatches; afterwards an
    operation that is no barrier takes none away, and a barrier takes one from
    everyone). Five are left exactly while worker 0 is in save, and then every
    other worker stands at a barrier (`SaveBars`, `OthersAtBarrier`) and has no
    request under way (`OthersWait`): no server changes a tensor. `SaveInv` says,
    for each operation of save, which partitions and which dense parts are on the
    disk and which answers are those of the servers; that the parts put together
    are the tensor needs `DenseTiles` (`OwnerIsServer`). A kill is `NewJob` from
    any state, and it leaves disk and ghosts alone. `TrainerSavesAlone` and the
    action property `TrainerCheckpointStays` come from the same invariant.
  - *Tensors* (`TensorProofs`; the same assumptions). `PathInv` says where a worker
    is: the barriers it has left number the stages of a job (16 to 0, `Now`), and `Edge` lists, for
    each stage, which operation follows which; `ProgramPath` shows this of every
    program of the trainer. `HandleCases` and `WorkerCases` say once and for all
    what a step changes, by the operation it is a step of. On these rest the types
    (`DataInv`, `TrainerTypes`) and the invariants below, all about the tensors of a sound
    job in which no server has raised an exception.
    `DenseInv`: a row of `vec` is the row on its server plus the gradients on their
    way there (`DPush`, a cardinality), except for the slices that worker 0 has
    still to initialize or load; a pull between two barriers gets it as it is
    (`ModelInv`, hence `TrainerModelsAgree`).
    `SparseInv`, stage by stage: nothing before the load; during the load each
    server holds exactly those keys of the checkpoint that have arrived, by its own
    file or by the files the workers have imported so far (`Arrived`, which is
    arithmetic on `i % WorkerCount`); while the workers train a count of `table`
    is the count on the server plus the pushes on their way (`TrainKey`), and a key
    the server does not have yet is in a request on its way to it (`Makes`); later
    a server holds its slice, or does once it has pruned (`Trained`). With
    `SavedSparseInv`, that file i of a sound checkpoint is slice i of the saved
    tensor, this carries from one job to the next, with other numbers of servers.
    At a barrier nothing is on its way, and the slices put together are the tensor
    (`TrainerTensorsMatch`).
    `ExportInv` adds what of the exported parts is written
    (`TrainerExportComplete`; that no zeros are left is `NoZeros` of `SparseInv`).
    `FreshInv` bounds an answer from both sides: `floor`, the updates acknowledged
    when the pull began, is at most the count on the server, since each other update is in
    flight (`FloorIsLow`); that count only grows while the workers train
    (`VectorsGrow`); and at the end `TrainKey` bounds it by the tensor
    (`TrainerFreshPull`). That no request of a pull is refused is `MetasInv`.

* **`MetricPushProofs`** (finitely many workers, at least one epoch and an
  interval of at least one). `ExactlyOnce` is made inductive by `FedInv`, what has
  been fed in which epoch, and `StopInv`, which says that a worker that is back
  from `worker_stop` has empty buffers; with both, a run that returns has nothing
  left in any buffer and `FinalMetricExact` follows. Answers that are exceptions
  are part of the steps.
* **`ArrayHashMapProofs`** (`HashMapAssumption`: keys are natural numbers, a
  positive modulus and initial capacity, any set of positive bucket counts, any
  `Puts` and `TornKeys`). Not
  inductive by itself: that find answers what put has stored. `IInv` says that
  every head and every link is the *greatest* earlier entry of the same bucket
  (`Indexed`), that live keys are distinct, that a walk is in the chain of its key
  and has not passed the entry it looks for (`WalkOK`), that what prune has kept
  is at the front (`PruneOK`), and the same of the file. That build_hash_index
  establishes `Indexed` (`Reindex`) and an insertion at the head keeps it
  (`Appended`) are the lemmas with content. While prune moves entries the chains
  are stale, and `ChainsOK` is claimed again only when nothing was dropped or the
  index has been rebuilt; when it cannot be, since prune's reallocation throws,
  the map is torn, of which `IInv` keeps only that heads, links and walks stay
  within the arrays.
  `MapImplemented` shows that every step is a step of `AbstractMap` or changes
  neither map, file nor request: moving an entry in prune changes no pair,
  dropping one removes its pair and, keys being distinct, no other. A prune that
  throws is the step in which the abstract map is given up (`Abandoned`).
* **`ActorProcessProofs`** (`ActorAssumption`: finitely many processes, one of
  them the coordinator, no two at one host and port; every set of faults).
  Everything rests on the ids: the order by host and port is total, so ranks
  within a role differ (`RankGrows`, by cardinality of a proper subset) and with
  the bits of the role the ids do (`IdsDiffer`). None of the four properties is
  inductive. `SocketInv` says that the place of the calling thread and `ready_`
  fix the id and the sockets of a process completely; `GoodMsg` says what a
  message under way means for both ends, for instance that a registration is of a
  node the coordinator has not counted yet and that a request or response belongs
  to the present call of its worker; `Once` that there is one of each at most,
  without which a second response could be booked under a later call. A store
  made before the node had a rank (`StoreInv`) has the wrong index, and the thread
  that made it has ended because it could not answer: this is why
  `AnsweredByOwner` holds also with early requests. Dropped, flushed and taken
  messages are one lemma (`ShrunkOK`), sent ones another (`SentOK`).
* **`OrchestrationProofs`**, in five parts.
  - *Offline flows* (`FlowAssumption`: finitely many tasks). `FlowInv`: an order
    exists only for a published flow and is one of its topological sorts, and the
    tasks before a run's position have ended as the scheduler demands. A sort is a
    surjection between sets of one size, hence has each task once (`SortedOnce`),
    from which `AfterDependencies` and `EndedRanAll` follow.
  - *Scenes on SageMaker* (`SceneAssumption`). `SceneInv` adds to the three
    properties what the command in progress has done already (`CommandInv`:
    the entrypoint is uploaded only after the configuration, and where the crontab
    entry is installed both are there and the flow config is whole) and that a runner that deploys has seen its training complete (`TrainedInv`).
  - *Model watcher* (`WatcherAssumption`). `WatchInv` has, per key, where the
    tasks of a put are and in which order (`RouteInv`, `TurnInv`), which local
    directories are whole (`WholeInv`) and how served, noted and waiting versions
    compare (`ServedInv`); the last only until a connection has failed, after
    which a stray load may end at any time (`StrayInv`). `NeverBack` is an action
    property; it follows from `ServedInv` at the load.
  - *Launches* (`CountsAssumption`: at least one worker, server and job).
    `OwnAgent` is a counting argument: there are exactly `worker_count +
    server_count` slots, the servers hold theirs while the job runs, so every
    other slot has one worker of this job (`SlotsSplit`), and whichever slot Spark
    gives a task of a stage, the agent there is its own. `SlotInv`, `AgentInv`
    and `ThreadInv` carry it through the stages and from one job to the next.
  - *Resources* (`FilesAssumption`: finitely many files, with a root). `LoaderInv`
    has `Frontier`: what is loaded or queued is closed under use up to the queue
    and lies within what can be reached, so an empty queue means exactly the
    reachable files. `Source` and `NoRepeats` say why a file is queued and when it
    can be queued again, from which `FailsForAReason` follows.

The inductive invariants were checked by TLC on the runs' instances before they
were proved; those of the tensors were developed as proofs on top of checked
properties, and TLC was asked where a step would not go through.

Looking for the invariant of the checkpoints showed that the ghost `saved` had
been wrong: taken from `table` and `vec`, it made `CheckpointComplete` fail in a
third job, after a save by a job that had itself started from a torn checkpoint.
Two jobs, as in `trainer`, do not reach that; the code is right, and the theorem
holds for any number of jobs.

The proof of `TensorsMatch` found a second one. A job used to count as sound when
the checkpoint it loads was complete. But a job that has loaded a torn checkpoint
may hold keys on the wrong servers and saves them completely; a job that loads
*its* checkpoint was then sound without reason, and TLC found the violation with
five jobs, which no run has. Soundness is now inherited (`saved.sound`). Again the
code is right, in the sense that it does nothing else than the model: what a
torn checkpoint leads to is not repaired by saving it again.

Only model-checked: `AUCOfPairs` (sums over sets, which need induction over data); liveness (under
fairness, out of the prover's reach). `TilesUnlessWraps` is a statement about a
word of four bits, which `DenseTiles` makes for every modulus.

## 6. Not modelled

* Computation without state or interleaving of its own: floating point
  arithmetic, optimizers and initializers, losses and models, the two-tower and
  tree estimators (sequential Spark and Faiss programs), Arrow feature extraction,
  JSON and Thrift serialisation, generated readers, command-line parsing.
* Input and output: file systems and S3 (a file is written whole), Docker and
  Kubernetes files, `status` and the contents of configurations.
* Parts of modelled components: `Dispose` and `PullPartition` commands,
  `nan_fill`, options of `import_from` that load does not use; exceptions of
  Python initializers and updaters; dense pulls that alias the partition's
  buffer; the optimized hash-map files with their perfect hash; processes that are
  started again and register twice. The recovery branch of
  `CoordinatorHandleAddNode` is dead code: nothing adds to `recovery_nodes_`.
* The Java online services, and predictions of the serving process while models
  are replaced.

By lines, most of the repository is notebooks, demonstrations, tutorials and
data preparation, in which nothing runs concurrently or survives a failure; the
modules cover the parts where that is not so.

## 7. Plan

Done: `NodeBarrier` with its refinement and proofs, `ActorProcess`,
`RequestTracker` with proofs, `DensePartition` with proofs, `DistributedTrainer`;
then `MetricPush` and `ResourceLoader` with proofs, `AgentLaunch`,
`SageMakerFlow`, `ModelWatcher`, `OfflineFlow`, and `ArrayHashMap` with its
refinement and proofs.

Proved since: the invariants and action properties of `ActorProcess`,
`OfflineFlow`, `SageMakerFlow`, `ModelWatcher` and `AgentLaunch`, the exact
condition under which slices tile a tensor, and all invariants of
`DistributedTrainer`.

Every invariant of the runs is proved (`TilesUnlessWraps` as `DenseTiles`) but
`AUCOfPairs`, which needs an induction over data. Models to add, in the modules
they belong to: exceptions of initializers and the dense pull that aliases its
buffer (`DistributedTrainer`), processes that start again (`ActorProcess`),
predictions during `load` (`ModelWatcher`), and the reload of the recommend
service's configuration.

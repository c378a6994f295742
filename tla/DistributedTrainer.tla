-------------------------- MODULE DistributedTrainer --------------------------
(***************************************************************************)
(* Training jobs of a model with one sparse and one dense tensor: what the *)
(* workers do, from DistributedTrainer.initialize to Model.export, and how *)
(* the servers answer (PSDefaultAgent, TensorPartitionStore and the        *)
(* partitions).  A job may start from the checkpoint an earlier one left,  *)
(* with another number of servers, and may be killed at any point.         *)
(*                                                                         *)
(* A worker is a list of operations.  An operation is a request to every   *)
(* server, which blocks the worker until all have answered (SendAllRequests*)
(* and BroadcastRequest, module RequestTracker); a server handles one      *)
(* request at a time, in whatever order those of several workers arrive.   *)
(* A barrier is one step of all workers (module AbstractBarrier).          *)
(***************************************************************************)
EXTENDS SparsePartition, DensePartition, FiniteSets, TLC

CONSTANTS
    WorkerCount,   \* workers of every job
    ServerCounts,  \* the numbers of servers a job may have
    MaxJobs,       \* jobs, one after another
    StartsAfresh,  \* a job may ignore the checkpoint (model_in_path is None)
    Minibatches,   \* Minibatches[w]: the sets of keys a minibatch of worker w may have
    NoGrad,        \* those of them that leave no gradients to push
    Batches,       \* Batches[w]: minibatches worker w trains on
    DenseRows,     \* rows of the dense tensor
    NameHash,      \* hash of its name
    Modulus,       \* of the hash's arithmetic (2^64)
    MaxAge,        \* max_sparse_feature_age
    KeepMeta,      \* use_fresh_updaters: keep_meta of load
    TextMode,      \* save_as_text
    HasState,      \* the updater keeps optimizer state
    None           \* neither a number nor a record

ASSUME TrainerAssumption ==
    /\ WorkerCount \in Nat \ {0} /\ MaxJobs \in Nat \ {0}
    /\ ServerCounts \subseteq Nat \ {0} /\ IsFiniteSet(ServerCounts)
    /\ \A w \in 0..(WorkerCount - 1) : Minibatches[w] \subseteq SUBSET Nat
    /\ NoGrad \subseteq SUBSET Nat
    /\ Batches \in [0..(WorkerCount - 1) -> Nat]
    /\ DenseRows \in Nat \ {0} /\ NameHash \in Nat /\ Modulus \in Nat
    /\ NameHash + DenseRows <= Modulus /\ \A n \in ServerCounts : NameHash + n <= Modulus
    /\ MaxAge \in Nat \ {0}
    /\ {StartsAfresh, KeepMeta, TextMode, HasState} \subseteq BOOLEAN

Workers == 0..(WorkerCount - 1)
MaxServers == CHOOSE n \in ServerCounts : \A m \in ServerCounts : m <= n
AllRows == 0..(DenseRows - 1)

VARIABLES
    job,     \* [num, n (servers), loads (from the checkpoint), old (its partitions),
             \* sound (it was complete, and its job sound)]
    prog,    \* prog[w]: the operations worker w has left, the present one first
    sent,    \* sent[w]: its requests are sent
    todo,    \* todo[w]: the servers that have not handled them
    got,     \* got[w]: their answers
    raised,  \* raised[w]: one of them was an exception
    failed,  \* failed[w]: the worker has ended with an exception
    keys,    \* keys of the worker's minibatch, None before the first
    file,    \* index of the next partition file the worker imports
    model,   \* model[w]: the dense tensor in the worker's module
    sparse,  \* sparse[s]: the hash map of server s
    smeta,   \* smeta[s]: optimizer in the sparse tensor's meta, None: no such tensor
    dense,   \* dense[s]: [data, state], each a function of the server's rows
    dmeta,   \* dmeta[s]: the same of the dense tensor
    disk,    \* the checkpoint directory
    export,  \* the exported model
    table,   \* ghost: what the sparse tensor should hold
    vec,     \* ghost: what the dense tensor should hold
    saved,   \* ghost: the tensors on the servers when the last save began
    intact,  \* ghost: whether that save has ended
    floor    \* ghost: floor[w][k]: updates of k answered when w began its pull

worker_vars == <<prog, sent, todo, got, raised, failed, keys, file, model>>
server_vars == <<sparse, smeta, dense, dmeta>>
disk_vars == <<disk, export>>
ghost_vars == <<table, vec, saved, intact, floor>>
vars == <<job, worker_vars, server_vars, disk_vars, ghost_vars>>

Servers == 0..(job.n - 1)
RowsOf(s) == Rows(s, NameHash, DenseRows, job.n, Modulus)

\* The server that has a row of the dense tensor.
OwnerOf(row) == CHOOSE s \in Servers : row \in RowsOf(s)

\* One map of maps with different domains.
Union(maps) ==
    LET ks == UNION {DOMAIN maps[s] : s \in DOMAIN maps}
    IN [k \in ks |-> LET s == CHOOSE t \in DOMAIN maps : k \in DOMAIN maps[t] IN maps[s][k]]

\* The tensors as the servers hold them, in the form of table and vec, and whether
\* the job that trained them is sound.
Held == [sound |-> job.sound,
         table |-> Union(sparse),
         vec |-> [data |-> [r \in AllRows |-> dense[OwnerOf(r)].data[r]],
                  state |-> [r \in AllRows |-> dense[OwnerOf(r)].state[r]]]]

-----------------------------------------------------------------------------
(***************************************************************************)
(* What a worker does.  The barriers named synced are those that follow a  *)
(* pull of the dense tensor by every worker.                               *)
(***************************************************************************)
Barriers == {"barrier", "synced"}

\* The operations of a program.
Operations == Barriers \cup
    {"SparseInit", "DenseInit", "DensePushValue", "DensePull", "SparseClear",
     "SparseReadMeta", "SparsePushMeta", "SparseLoad", "Import", "DenseReadMeta",
     "DensePushMeta", "DenseLoadData", "DenseLoadState", "SparsePull", "SparsePush",
     "DensePush", "SparsePruneOld", "SparsePullMeta", "SparseSave", "DensePullMeta",
     "DenseSaveData", "DenseSaveState", "SparsePruneSmall", "SparsePullReadOnly",
     "SparseExport"}

ASSUME NoneAssumption == None \notin Operations /\ None \notin Nat

Rank0(w, ops) == IF w = 0 THEN ops ELSE <<>>
If(c, ops) == IF c THEN ops ELSE <<>>

\* DistributedTrainer.initialize
Initialize(w) ==
    <<"barrier", "SparseInit", "DenseInit", "barrier">> \o Rank0(w, <<"DensePushValue">>)
        \o <<"barrier", "DensePull", "synced">>

\* DistributedTrainer.load: SparseTensor::Load, which imports the partitions
\* when their number has changed, then DenseTensor::Load.
Load_Mutant(w, n, old) ==
    <<"barrier">> \o Rank0(w, <<"SparseClear">>) \o <<"barrier", "SparseReadMeta">>
        \o Rank0(w, If(~KeepMeta, <<"SparsePushMeta">>))
        \o (IF old = n THEN Rank0(w, <<"SparseLoad">>) ELSE Rank0(w, <<"Import">>))
        \o <<"DenseReadMeta">>
        \o Rank0(w, If(~KeepMeta, <<"DensePushMeta">>) \o <<"DenseLoadData">>
                        \o If(HasState, <<"DenseLoadState">>))
        \o <<"barrier", "DensePull", "synced">>
Load_Mutant2(w, n, old) ==
    <<"barrier">> \o Rank0(w, <<"SparseClear">>) \o <<"barrier", "SparseReadMeta">>
        \o Rank0(w, If(~KeepMeta, <<"SparsePushMeta">>))
        \o (IF old = n THEN Rank0(w, <<"SparseLoad">>) ELSE <<"Import">>)
        \o <<"DenseReadMeta">>
        \o Rank0(w, If(~KeepMeta, <<"DensePushMeta">>) \o <<"DenseLoadData">>
                        \o If(HasState, <<"DenseLoadState">>))
        \o <<"DensePull", "synced">>
Load(w, n, old) ==
    <<"barrier">> \o Rank0(w, <<"SparseClear">>) \o <<"barrier", "SparseReadMeta">>
        \o Rank0(w, If(~KeepMeta, <<"SparsePushMeta">>))
        \o (IF old = n THEN Rank0(w, <<"SparseLoad">>) ELSE <<"Import">>)
        \o <<"DenseReadMeta">>
        \o Rank0(w, If(~KeepMeta, <<"DensePushMeta">>) \o <<"DenseLoadData">>
                        \o If(HasState, <<"DenseLoadState">>))
        \o <<"barrier", "DensePull", "synced">>

\* SparseModel.__call__ and DistributedTrainer.train, for every minibatch
Minibatch == <<"SparsePull", "DensePull", "SparsePush", "DensePush">>
Train(w) == [i \in 1..(4 * Batches[w]) |-> Minibatch[((i - 1) % 4) + 1]]

\* PyTorchAgent.worker_stop: Model.prune_old, DistributedTrainer.save,
\* Model.prune_small and Model.export.
Save == <<"SparsePullMeta", "SparseSave", "DensePullMeta", "DenseSaveData", "DenseSaveState">>
Finish_Mutant(w) ==
    Rank0(w, <<"SparsePruneOld">> \o Save) \o <<"barrier", "barrier", "barrier">>
        \o Rank0(w, <<"SparsePruneSmall">>) \o <<"barrier">>
        \o <<"barrier", "SparsePullReadOnly", "DensePull">> \o Rank0(w, <<"SparseExport">>)
        \o <<"synced">>
Finish_Mutant2(w) ==
    <<"barrier">> \o Rank0(w, <<"SparsePruneOld">>) \o <<"barrier">>
        \o <<"barrier">> \o Rank0(w, Save \o <<"SparseExport">>) \o <<"barrier">>
        \o <<"barrier">> \o Rank0(w, <<"SparsePruneSmall">>) \o <<"barrier">>
        \o <<"barrier", "SparsePullReadOnly", "DensePull", "synced">>
Finish(w) ==
    <<"barrier">> \o Rank0(w, <<"SparsePruneOld">>) \o <<"barrier">>
        \o <<"barrier">> \o Rank0(w, Save) \o <<"barrier">>
        \o <<"barrier">> \o Rank0(w, <<"SparsePruneSmall">>) \o <<"barrier">>
        \o <<"barrier", "SparsePullReadOnly", "DensePull">> \o Rank0(w, <<"SparseExport">>)
        \o <<"synced">>

Program(w, n, loads, old) ==
    Initialize(w) \o If(loads, Load(w, n, old)) \o Train(w) \o Finish(w)

-----------------------------------------------------------------------------
(***************************************************************************)
(* Jobs                                                                    *)
(***************************************************************************)

\* The state of the processes of a job when they have started.  The modules of
\* two workers need not have the same weights.
StartJob(num, n, loads, old, sound) ==
    /\ job' = [num |-> num, n |-> n, loads |-> loads, old |-> old, sound |-> sound]
    /\ prog' = [w \in Workers |-> Program(w, n, loads, old)]
    /\ sent' = [w \in Workers |-> FALSE]
    /\ todo' = [w \in Workers |-> {}]
    /\ got' = [w \in Workers |-> [s \in 0..(n - 1) |-> None]]
    /\ raised' = [w \in Workers |-> FALSE]
    /\ failed' = [w \in Workers |-> FALSE]
    /\ keys' = [w \in Workers |-> None]
    /\ file' = [w \in Workers |-> w]
    /\ model' = [w \in Workers |-> [r \in AllRows |-> 10 * (w + 1)]]
    /\ sparse' = [s \in 0..(n - 1) |-> EmptyMap]
    /\ smeta' = [s \in 0..(n - 1) |-> None]
    /\ dense' = [s \in 0..(n - 1) |-> None]
    /\ dmeta' = [s \in 0..(n - 1) |-> None]
    /\ export' = [count |-> 0, parts |-> [s \in 0..(n - 1) |-> EmptyMap], model |-> None]
    /\ table' = EmptyMap
    /\ vec' = [data |-> [r \in AllRows |-> 0], state |-> [r \in AllRows |-> 0]]
    /\ floor' = [w \in Workers |-> EmptyMap]

\* A process was killed, which ends the job, or the job is over.
NewJob ==
    /\ job.num < MaxJobs
    /\ \E n \in ServerCounts, loads \in BOOLEAN :
        /\ loads => disk.count # None
        /\ ~loads => disk.count = None \/ StartsAfresh
        /\ StartJob(job.num + 1, n, loads, disk.count, loads => intact /\ saved.sound)
    /\ UNCHANGED <<disk, saved, intact>>

\* Before the first job.
Init ==
    /\ job = [num |-> 0, n |-> 0, loads |-> FALSE, old |-> None, sound |-> TRUE]
    /\ prog = [w \in Workers |-> <<>>]
    /\ sent = [w \in Workers |-> FALSE] /\ raised = sent /\ failed = sent
    /\ todo = [w \in Workers |-> {}]
    /\ keys = [w \in Workers |-> None]
    /\ file = [w \in Workers |-> w]
    /\ model = [w \in Workers |-> [r \in AllRows |-> 0]]
    /\ got = [w \in Workers |-> <<>>]
    /\ sparse = <<>> /\ smeta = <<>> /\ dense = <<>> /\ dmeta = <<>>
    /\ disk = [count |-> None, meta |-> None, dmeta |-> None, data |-> None, state |-> None,
               file |-> <<>>]
    /\ export = [count |-> 0, parts |-> <<>>, model |-> None]
    /\ table = EmptyMap
    /\ vec = [data |-> [r \in AllRows |-> 0], state |-> [r \in AllRows |-> 0]]
    /\ saved = [sound |-> TRUE, table |-> table, vec |-> vec]
    /\ intact = FALSE
    /\ floor = [w \in Workers |-> EmptyMap]

-----------------------------------------------------------------------------
(***************************************************************************)
(* The workers.  An exception, of a server or of the worker itself, ends   *)
(* the worker; the others go on until their next barrier.                  *)
(***************************************************************************)
Op(w) == IF prog[w] = <<>> THEN None ELSE Head(prog[w])
Calls(w, op) == Op(w) = op /\ ~sent[w] /\ ~failed[w]

\* Everyone waits at a barrier.
AtBarrier == \A w \in Workers : Op(w) \in Barriers /\ ~failed[w]

Barrier ==
    /\ AtBarrier
    /\ prog' = [w \in Workers |-> Tail(prog[w])]
    /\ UNCHANGED <<job, sent, todo, got, raised, failed, keys, file, model,
                   server_vars, disk_vars, ghost_vars>>

\* One request for every server.
Send(w) ==
    /\ sent' = [sent EXCEPT ![w] = TRUE]
    /\ todo' = [todo EXCEPT ![w] = Servers]
    /\ UNCHANGED <<job, prog, got, raised, failed, file, model, server_vars, disk_vars,
                   saved, intact>>

Fail(w) ==
    /\ failed' = [failed EXCEPT ![w] = TRUE]
    /\ UNCHANGED <<job, prog, sent, todo, got, raised, keys, file, model,
                   server_vars, disk_vars, ghost_vars>>

\* Updates of key k that a worker waits for.
InFlight(k) == Cardinality({w \in Workers : Op(w) = "SparsePush" /\ sent[w] /\ k \in keys[w]})

SendSparsePull(w) ==
    /\ Calls(w, "SparsePull")
    /\ \E ks \in Minibatches[w] :
        /\ keys' = [keys EXCEPT ![w] = ks]
        /\ table' = FindOrInit(table, ks \ {PaddingKey})
        /\ floor' = [floor EXCEPT ![w] = [k \in ks \cap DOMAIN table |-> table[k].v - InFlight(k)]]
    /\ Send(w) /\ UNCHANGED vec

SendSparsePush(w) ==
    /\ Calls(w, "SparsePush") /\ keys[w] \notin NoGrad
    /\ table' = HandlePush(table, keys[w])
    /\ Send(w) /\ UNCHANGED <<keys, vec, floor>>

SendDensePush(w) ==
    /\ Calls(w, "DensePush") /\ keys[w] \notin NoGrad
    /\ vec' = [data |-> [r \in AllRows |-> vec.data[r] + 1],
               state |-> [r \in AllRows |-> IF HasState THEN vec.state[r] + 1 ELSE 0]]
    /\ Send(w) /\ UNCHANGED <<keys, table, floor>>

SendDensePushValue(w) ==
    /\ Calls(w, "DensePushValue")
    /\ vec' = [vec EXCEPT !.data = model[w]]
    /\ Send(w) /\ UNCHANGED <<keys, table, floor>>

SendSparseClear(w) ==
    /\ Calls(w, "SparseClear")
    /\ table' = EmptyMap
    /\ Send(w) /\ UNCHANGED <<keys, vec, floor>>

SendSparsePrune(w) ==
    /\ \/ Calls(w, "SparsePruneOld") /\ table' = PruneOld(table, MaxAge)
       \/ Calls(w, "SparsePruneSmall") /\ table' = PruneSmall(table)
    /\ Send(w) /\ UNCHANGED <<keys, vec, floor>>

\* A worker that has had no minibatch has no keys to pull.
Requests == {"SparseInit", "DenseInit", "DensePull", "SparsePushMeta", "SparseLoad",
             "DensePushMeta", "SparsePullMeta", "SparseSave", "DensePullMeta",
             "DenseSaveData", "DenseSaveState", "SparseExport"}
SendOther(w) ==
    /\ \/ Op(w) \in Requests
       \/ Op(w) = "SparsePullReadOnly" /\ keys[w] # None
    /\ ~sent[w] /\ ~failed[w]
    /\ Send(w) /\ UNCHANGED <<keys, table, vec, floor>>

\* The files of the dense tensor are read by worker 0, who pushes what they hold.
SendDenseLoad(w) ==
    \E part \in {<<"DenseLoadData", disk.data>>, <<"DenseLoadState", disk.state>>} :
        /\ Calls(w, part[1])
        /\ IF part[2] = None
           THEN Fail(w)
           ELSE Send(w) /\ UNCHANGED <<keys, table, vec, floor>>

Advance(w) == prog' = [prog EXCEPT ![w] = Tail(@)]

\* Load reads the meta file, and throws when there is none.  From here on the
\* tensors are to be those that were saved.
ReadMeta(w) ==
    /\ \/ Calls(w, "SparseReadMeta") \/ Calls(w, "DenseReadMeta")
    /\ IF Op(w) = "DenseReadMeta" /\ disk.dmeta = None
       THEN Fail(w)
       ELSE /\ Advance(w)
            /\ table' = IF w = 0 /\ Op(w) = "SparseReadMeta" THEN saved.table ELSE table
            /\ vec' = IF w = 0 /\ Op(w) = "DenseReadMeta" THEN saved.vec ELSE vec
            /\ UNCHANGED <<job, sent, todo, got, raised, failed, keys, file, model,
                           server_vars, disk_vars, saved, intact, floor>>

\* ImportFrom: worker w pushes the partitions i with i % WorkerCount = w, one
\* after another.
SendImport(w) ==
    /\ Calls(w, "Import") /\ file[w] < job.old
    /\ IF file[w] \notin DOMAIN disk.file \/ ~Readable(disk.file[file[w]], HasState)
       THEN Fail(w)
       ELSE Send(w) /\ UNCHANGED <<keys, table, vec, floor>>

\* The import is over, there are no keys to pull, or (skip_no_grad) there is no
\* gradient to push.
Skip(w) ==
    /\ \/ Calls(w, "Import") /\ file[w] >= job.old
       \/ Calls(w, "SparsePush") /\ keys[w] \in NoGrad
       \/ Calls(w, "DensePush") /\ keys[w] \in NoGrad
       \/ Calls(w, "SparsePullReadOnly") /\ keys[w] = None
    /\ Advance(w)
    /\ UNCHANGED <<job, sent, todo, got, raised, failed, keys, file, model,
                   server_vars, disk_vars, ghost_vars>>

\* All servers have answered; the callback of the request has run.
Returns(w, op) == Op(w) = op /\ sent[w] /\ todo[w] = {} /\ ~raised[w] /\ ~failed[w]
Done(w) ==
    /\ sent' = [sent EXCEPT ![w] = FALSE]
    /\ got' = [got EXCEPT ![w] = [s \in Servers |-> None]]
    /\ UNCHANGED <<job, todo, raised, failed, keys, server_vars, table, vec, floor>>

\* The dense tensor, put together from the slices of the servers.
Assembled(w) == [r \in AllRows |-> got[w][OwnerOf(r)][r]]

Plain == {"SparseInit", "DenseInit", "DensePushValue", "SparseClear", "SparsePushMeta",
          "SparseLoad", "DensePushMeta", "DenseLoadData", "DenseLoadState", "SparsePull",
          "SparsePullReadOnly", "SparsePush", "DensePush", "SparsePruneOld", "SparseSave",
          "SparsePruneSmall"}
Return(w) ==
    /\ \E op \in Plain : Returns(w, op)
    /\ Done(w) /\ Advance(w) /\ UNCHANGED <<file, model, disk_vars, saved, intact>>

ReturnDensePull(w) ==
    /\ Returns(w, "DensePull")
    /\ model' = [model EXCEPT ![w] = Assembled(w)]
    /\ Done(w) /\ Advance(w) /\ UNCHANGED <<file, disk_vars, saved, intact>>

ReturnImport(w) ==
    /\ Returns(w, "Import")
    /\ file' = [file EXCEPT ![w] = @ + WorkerCount]
    /\ Done(w) /\ UNCHANGED <<prog, model, disk_vars, saved, intact>>

\* PullMeta: the metas of the servers must be the same.  Save writes the meta
\* file, and then asks for the rest.
ReturnPullMeta(w) ==
    /\ \/ Returns(w, "SparsePullMeta") \/ Returns(w, "DensePullMeta")
    /\ IF \E s, t \in Servers : got[w][s] # got[w][t]
       THEN Fail(w)
       ELSE /\ IF Op(w) = "SparsePullMeta"
               THEN /\ disk' = [disk EXCEPT !.count = job.n, !.meta = got[w][0]]
                    /\ saved' = Held
                    /\ intact' = FALSE
               ELSE /\ disk' = [disk EXCEPT !.dmeta = got[w][0]]
                    /\ UNCHANGED <<saved, intact>>
            /\ Done(w) /\ Advance(w) /\ UNCHANGED <<file, model, export>>

\* DenseTensor::Save writes the data, and the state when there is one.
ReturnDenseSave(w) ==
    /\ \/ /\ Returns(w, "DenseSaveData")
          /\ disk' = [disk EXCEPT !.data = Assembled(w)]
          /\ UNCHANGED intact
       \/ /\ Returns(w, "DenseSaveState")
          /\ disk' = IF HasState THEN [disk EXCEPT !.state = Assembled(w)] ELSE disk
          /\ intact' = TRUE
    /\ Done(w) /\ Advance(w) /\ UNCHANGED <<file, model, export, saved>>

\* The module of worker 0 is exported after the partitions.
ReturnExport(w) ==
    /\ Returns(w, "SparseExport")
    /\ export' = [export EXCEPT !.count = job.n, !.model = model[w]]
    /\ Done(w) /\ Advance(w) /\ UNCHANGED <<file, model, disk, saved, intact>>

\* An answer is an exception, which is thrown at the caller.
Raise(w) ==
    /\ sent[w] /\ todo[w] = {} /\ raised[w] /\ ~failed[w]
    /\ Fail(w)

-----------------------------------------------------------------------------
(***************************************************************************)
(* The servers.  A command for a tensor the server does not have is        *)
(* answered by an exception.                                               *)
(***************************************************************************)
Handles(w, s, op) == Op(w) = op /\ s \in todo[w]

Answer(w, s, answer, ok) ==
    /\ todo' = [todo EXCEPT ![w] = @ \ {s}]
    /\ got' = [got EXCEPT ![w][s] = answer]
    /\ raised' = [raised EXCEPT ![w] = @ \/ ~ok]
    /\ UNCHANGED <<job, prog, sent, failed, keys, file, model, ghost_vars>>

Refuse(w, s) == Answer(w, s, None, FALSE) /\ UNCHANGED <<server_vars, disk_vars>>

\* A new tensor, or one that exists with the same meta.
HandleSparseInit_Mutant(w, s) ==
    /\ Handles(w, s, "SparseInit")
    /\ IF smeta[s] = None
       THEN /\ smeta' = [smeta EXCEPT ![s] = job.num]
            /\ sparse' = [sparse EXCEPT ![s] = EmptyMap]
            /\ Answer(w, s, None, TRUE) /\ UNCHANGED <<dense, dmeta, disk_vars>>
       ELSE Refuse(w, s)
HandleSparseInit(w, s) ==
    /\ Handles(w, s, "SparseInit")
    /\ IF smeta[s] = None
       THEN /\ smeta' = [smeta EXCEPT ![s] = job.num]
            /\ sparse' = [sparse EXCEPT ![s] = EmptyMap]
            /\ Answer(w, s, None, TRUE) /\ UNCHANGED <<dense, dmeta, disk_vars>>
       ELSE Answer(w, s, None, smeta[s] = job.num) /\ UNCHANGED <<server_vars, disk_vars>>

HandleDenseInit(w, s) ==
    /\ Handles(w, s, "DenseInit")
    /\ IF dmeta[s] = None
       THEN /\ dmeta' = [dmeta EXCEPT ![s] = job.num]
            /\ dense' = [dense EXCEPT ![s] = [data |-> [r \in RowsOf(s) |-> 0],
                                              state |-> [r \in RowsOf(s) |-> 0]]]
            /\ Answer(w, s, None, TRUE) /\ UNCHANGED <<sparse, smeta, disk_vars>>
       ELSE Answer(w, s, None, dmeta[s] = job.num) /\ UNCHANGED <<server_vars, disk_vars>>

\* The keys of a request that are sent to server s.
SentTo(ks, s) == {k \in ks : Part(k, job.n) = s}

SparseCommand(w, s, op, map, answer) ==
    /\ Handles(w, s, op)
    /\ IF smeta[s] = None
       THEN Refuse(w, s)
       ELSE /\ sparse' = [sparse EXCEPT ![s] = map]
            /\ Answer(w, s, answer, TRUE) /\ UNCHANGED <<smeta, dense, dmeta, disk_vars>>

HandleSparseClear(w, s) == SparseCommand(w, s, "SparseClear", EmptyMap, None)

HandleSparsePush(w, s) ==
    SparseCommand(w, s, "SparsePush", HandlePush(sparse[s], SentTo(keys[w], s)), None)

HandleSparsePull(w, s) ==
    \E op \in {"SparsePull", "SparsePullReadOnly"} :
        /\ Handles(w, s, op)
        /\ LET ks == SentTo(keys[w], s)
               map == MapAfterPull(sparse[s], ks, op = "SparsePullReadOnly")
           IN SparseCommand(w, s, op, map, HandlePull(map, ks))

HandleSparsePushPartition(w, s) ==
    /\ Handles(w, s, "Import")
    /\ LET entries == disk.file[file[w]].entries
           mine == Keep(entries, SentTo(DOMAIN entries, s))
       IN SparseCommand(w, s, "Import", HandlePushPartition(sparse[s], mine), None)

HandleSparsePrune(w, s) ==
    \/ SparseCommand(w, s, "SparsePruneOld", PruneOld(sparse[s], MaxAge), None)
    \/ SparseCommand(w, s, "SparsePruneSmall", PruneSmall(sparse[s]), None)

\* A server reads the file of its own index.
HandleSparseLoad(w, s) ==
    /\ Handles(w, s, "SparseLoad")
    /\ IF s \notin DOMAIN disk.file \/ ~Readable(disk.file[s], HasState)
       THEN Refuse(w, s)
       ELSE SparseCommand(w, s, "SparseLoad", LoadFile(sparse[s], disk.file[s]), None)

\* and writes it: the file is new or replaces an older one.
Written(files, s, f) == [i \in DOMAIN files \cup {s} |-> IF i = s THEN f ELSE files[i]]

HandleSparseSave(w, s) ==
    /\ Handles(w, s, "SparseSave")
    /\ IF smeta[s] = None
       THEN Refuse(w, s)
       ELSE /\ disk' = [disk EXCEPT !.file = Written(@, s, [text |-> TextMode,
                                                             entries |-> sparse[s]])]
            /\ Answer(w, s, None, TRUE) /\ UNCHANGED <<server_vars, export>>

HandleSparseExport(w, s) ==
    /\ Handles(w, s, "SparseExport")
    /\ IF smeta[s] = None
       THEN Refuse(w, s)
       ELSE /\ export' = [export EXCEPT !.parts[s] = sparse[s]]
            /\ Answer(w, s, None, TRUE) /\ UNCHANGED <<server_vars, disk>>

\* PushMeta replaces the optimizer of the tensor by that of the checkpoint.
HandlePushMeta(w, s) ==
    \/ /\ Handles(w, s, "SparsePushMeta")
       /\ IF smeta[s] = None
          THEN Refuse(w, s)
          ELSE /\ smeta' = [smeta EXCEPT ![s] = disk.meta]
               /\ Answer(w, s, None, TRUE) /\ UNCHANGED <<sparse, dense, dmeta, disk_vars>>
    \/ /\ Handles(w, s, "DensePushMeta")
       /\ IF dmeta[s] = None
          THEN Refuse(w, s)
          ELSE /\ dmeta' = [dmeta EXCEPT ![s] = disk.dmeta]
               /\ Answer(w, s, None, TRUE) /\ UNCHANGED <<sparse, smeta, dense, disk_vars>>

HandlePullMeta(w, s) ==
    /\ \/ Handles(w, s, "SparsePullMeta") /\ Answer(w, s, smeta[s], smeta[s] # None)
       \/ Handles(w, s, "DensePullMeta") /\ Answer(w, s, dmeta[s], dmeta[s] # None)
    /\ UNCHANGED <<server_vars, disk_vars>>

\* is_value overwrites the data, is_state the state; a gradient goes to the
\* updater, which changes both.
HandleDensePush(w, s) ==
    \E op \in {"DensePush", "DensePushValue", "DenseLoadData", "DenseLoadState"} :
        /\ Handles(w, s, op)
        /\ IF dmeta[s] = None
           THEN Refuse(w, s)
           ELSE LET old == dense[s]
                    new(part) ==
                      CASE op = "DensePush" ->
                             [r \in RowsOf(s) |-> IF part = "data" \/ HasState
                                                  THEN old[part][r] + 1 ELSE old[part][r]]
                        [] op = "DensePushValue" /\ part = "data" -> [r \in RowsOf(s) |-> model[w][r]]
                        [] op = "DenseLoadData" /\ part = "data" -> [r \in RowsOf(s) |-> disk.data[r]]
                        [] op = "DenseLoadState" /\ part = "state" -> [r \in RowsOf(s) |-> disk.state[r]]
                        [] OTHER -> old[part]
                IN /\ dense' = [dense EXCEPT ![s] = [data |-> new("data"), state |-> new("state")]]
                   /\ Answer(w, s, None, TRUE) /\ UNCHANGED <<sparse, smeta, dmeta, disk_vars>>

HandleDensePull(w, s) ==
    \E op \in {"DensePull", "DenseSaveData", "DenseSaveState"} :
        /\ Handles(w, s, op)
        /\ IF dmeta[s] = None
           THEN Refuse(w, s)
           ELSE /\ Answer(w, s, IF op = "DenseSaveState" THEN dense[s].state ELSE dense[s].data, TRUE)
                /\ UNCHANGED <<server_vars, disk_vars>>

-----------------------------------------------------------------------------
Complete == \A w \in Workers : prog[w] = <<>>

\* Nothing is left to do in the last job, or its failure is not followed by
\* another one.
Over ==
    /\ job.num = MaxJobs
    /\ Complete \/ \E w \in Workers : failed[w]
    /\ UNCHANGED vars

WorkerStep(w) ==
    \/ SendSparsePull(w) \/ SendSparsePush(w) \/ SendDensePush(w) \/ SendDensePushValue(w)
    \/ SendSparseClear(w) \/ SendSparsePrune(w) \/ SendOther(w) \/ SendDenseLoad(w)
    \/ ReadMeta(w) \/ SendImport(w) \/ Skip(w)
    \/ Return(w) \/ ReturnDensePull(w) \/ ReturnImport(w) \/ ReturnPullMeta(w)
    \/ ReturnDenseSave(w) \/ ReturnExport(w) \/ Raise(w)

Handle(w, s) ==
    \/ HandleSparseInit(w, s) \/ HandleDenseInit(w, s) \/ HandleSparseClear(w, s)
    \/ HandleSparsePush(w, s) \/ HandleSparsePull(w, s) \/ HandleSparsePushPartition(w, s)
    \/ HandleSparsePrune(w, s) \/ HandleSparseLoad(w, s) \/ HandleSparseSave(w, s)
    \/ HandleSparseExport(w, s) \/ HandlePushMeta(w, s) \/ HandlePullMeta(w, s)
    \/ HandleDensePush(w, s) \/ HandleDensePull(w, s)

Next ==
    \/ NewJob \/ Barrier \/ Over
    \/ \E w \in Workers : WorkerStep(w)
    \/ \E w \in Workers : \E s \in Servers : Handle(w, s)

Spec == Init /\ [][Next]_vars

\* Workers run, and the receiver thread of a server handles what it receives.
\* Nothing makes a job follow another, or a process be killed.
Fairness ==
    /\ WF_vars(Barrier)
    /\ \A w \in Workers : WF_vars(WorkerStep(w))
    /\ \A w \in Workers, s \in 0..(MaxServers - 1) : WF_vars(s \in Servers /\ Handle(w, s))

FairSpec == Spec /\ Fairness

-----------------------------------------------------------------------------
(***************************************************************************)
(* Properties                                                              *)
(***************************************************************************)
IsMap(m) == DOMAIN m \subseteq Nat /\ \A k \in DOMAIN m : m[k] \in [v : Nat, age : 0..MaxAge]

\* Type invariant: the requests a worker waits for are those of its present
\* operation, the hash maps have vectors no older than max_sparse_feature_age.
TypeOK ==
    /\ job.num \in 0..MaxJobs /\ job.n \in ServerCounts \cup {0}
    /\ \A w \in Workers :
        /\ todo[w] \subseteq Servers
        /\ todo[w] # {} => sent[w] /\ prog[w] # <<>> /\ ~failed[w]
        /\ Op(w) \in Barriers => ~sent[w]
        /\ DOMAIN got[w] = Servers
        /\ file[w] \in Nat /\ file[w] % WorkerCount = w
        /\ model[w] \in [AllRows -> Nat]
    /\ \A s \in Servers : IsMap(sparse[s])
    /\ \A s \in Servers : dmeta[s] # None => DOMAIN dense[s].data = RowsOf(s)
    /\ IsMap(table) /\ IsMap(saved.table)

\* When all workers wait at a barrier the servers hold the tensors that the
\* operations so far make: every update of every minibatch once, the vectors and
\* the optimizer state of the checkpoint a job started from, whatever the number
\* of servers it was saved by, and no vector on two servers; nor, at any time, one
\* older than max_sparse_feature_age (TypeOK).
TensorsMatch ==
    /\ TypeOK
    /\ AtBarrier /\ job.sound =>
        /\ table = Union(sparse)
        /\ \A s, t \in Servers : s # t => DOMAIN sparse[s] \cap DOMAIN sparse[t] = {}
        /\ \A s \in Servers : dmeta[s] # None =>
            \A r \in RowsOf(s) : dense[s].data[r] = vec.data[r] /\ dense[s].state[r] = vec.state[r]

\* initialize, load and export end with the same dense tensor in the modules of
\* all workers, that of the servers.
ModelsAgree ==
    AtBarrier /\ job.sound /\ (\E w \in Workers : Op(w) = "synced") =>
        \A w \in Workers : model[w] = vec.data

\* What Pull returns has every update that was acknowledged before it began and
\* none that was not begun; the padding key is zeros.
FreshPull ==
    \A w \in Workers : Returns(w, "SparsePull") /\ job.sound =>
        \A k \in keys[w] :
            LET pulled == got[w][Part(k, job.n)][k]
            IN IF k = PaddingKey THEN pulled = 0
               ELSE /\ pulled <= table[k].v
                    /\ k \in DOMAIN floor[w] => floor[w][k] <= pulled

\* When save has returned at worker 0 the directory holds the tensors as they were
\* when it began, in as many partitions as the meta file says, until the next
\* save, whatever happens to the jobs.
CheckpointComplete ==
    intact =>
        /\ 0..(disk.count - 1) \subseteq DOMAIN disk.file
        /\ Union([i \in 0..(disk.count - 1) |-> disk.file[i].entries]) = saved.table
        /\ disk.data = saved.vec.data
        /\ HasState => disk.state = saved.vec.state

\* A finished job has exported the model it trained, without vectors of zeros.
ExportComplete ==
    Complete /\ job.sound /\ job.num > 0 =>
        /\ export.count = job.n /\ export.model = vec.data
        /\ Union(export.parts) = table
        /\ \A k \in DOMAIN table : table[k].v # 0

\* The reader of a text file throws unless a line has "data|state|age 3 fields";
\* the lines of a checkpoint that save has completed do.
SavedTextIsRead == job.sound /\ job.loads => \A w \in Workers : ~failed[w]

\* A job that is left alone comes to its end.
JobsComplete == job.num = MaxJobs ~> (Complete \/ ~job.sound)

=============================================================================

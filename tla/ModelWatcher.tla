----------------------------- MODULE ModelWatcher -----------------------------
(***************************************************************************)
(* How a published model gets into the serving process: publish() writes a *)
(* key of Consul (estimator.py), a watch posts the content of the keys to  *)
(* the watcher (consul_watch_load.py), which downloads every model it has  *)
(* not loaded yet and has the serving process load it (model_manager.cpp). *)
(* The watch, the watcher and the serving process are containers of one    *)
(* pod, and each may be restarted on its own.                              *)
(*                                                                         *)
(* A model is what one put of a key announces; it is named by the put's    *)
(* ModifyIndex.  External: Consul, its watch, aws s3 sync, gRPC.           *)
(***************************************************************************)
EXTENDS Integers, Sequences, SequencesExt

CONSTANTS
    Keys,        \* the keys below the prefix, one per experiment_name
    Versions,    \* the values of model_version
    Bad,         \* the version of a value that does not decode
    MaxPuts,     \* how many puts there are
    MaxPosts,    \* how many times the watch posts
    FaultSets    \* what may go wrong: sets of FaultKinds

(* Failing downloads, loads and posts, a broken connection to the serving   *)
(* process, and restarts of the watch, the watcher and the serving process. *)
FaultKinds == {"download", "load", "disconnect", "lost", "watch", "watcher", "serving"}

ASSUME WatcherAssumption ==
    /\ Bad \notin Versions /\ MaxPuts \in Nat /\ MaxPosts \in Nat
    /\ FaultSets \subseteq SUBSET FaultKinds

VARIABLES
    info,     \* info[i]: key and version of the put with ModifyIndex i
    consul,   \* consul[k]: ModifyIndex of key k, 0 when there is none
    post,     \* what the watch is posting, a copy of consul, or <<>>
    sent,     \* what it has posted last
    posts,    \* how often it has posted
    known,    \* _key_info_dict[k].ModifyIndex, 0 when there is none
    tasks,    \* tasks[k]: _load_change tasks that wait for the lock of k
    active,   \* active[k]: the task that holds the lock, 0 for none
    step,     \* step[k]: "idle", "download", "load" or "loaded"
    local,    \* local[k][v]: the state of the local directory
    served,   \* served[k]: the put that models_[k] is of, and is it whole
    stray,    \* loads in the serving process whose client has gone
    faults    \* what may go wrong in this deployment

system == <<info, consul, post, sent, posts, known, tasks, active, step, local, served, stray>>
vars == <<system, faults>>
watcherVars == <<known, tasks, active, step>>

Indices == 1..MaxPuts
Decodes(i) == info[i].version # Bad
NoModel == [index |-> 0, whole |-> TRUE]

(* Types of the variables; the watcher has tasks only for values that       *)
(* decode, each under its own key.                                          *)
TypeOK ==
    /\ info \in Seq([key : Keys, version : Versions \cup {Bad}]) /\ Len(info) <= MaxPuts
    /\ consul \in [Keys -> 0..Len(info)] /\ sent \in [Keys -> 0..Len(info)]
    /\ post = <<>> \/ post \in [Keys -> 0..Len(info)]
    /\ posts \in 0..MaxPosts
    /\ known \in [Keys -> 0..Len(info)]
    /\ tasks \in [Keys -> Seq(Indices)]
    /\ active \in [Keys -> 0..Len(info)]
    /\ \A k \in Keys : \A i \in Range(tasks[k]) \cup ({active[k]} \ {0}) :
            info[i].key = k /\ info[i].version \in Versions
    /\ step \in [Keys -> {"idle", "download", "load", "loaded"}]
    /\ \A k \in Keys : (step[k] = "idle") = (active[k] = 0)
    /\ local \in [Keys -> [Versions -> {"absent", "partial", "whole"}]]
    /\ served \in [Keys -> [index : 0..Len(info), whole : BOOLEAN]]
    /\ stray \subseteq Indices
    /\ faults \in FaultSets

Init ==
    /\ info = <<>>
    /\ consul = [k \in Keys |-> 0] /\ sent = [k \in Keys |-> 0]
    /\ post = <<>> /\ posts = 0
    /\ known = [k \in Keys |-> 0]
    /\ tasks = [k \in Keys |-> <<>>]
    /\ active = [k \in Keys |-> 0] /\ step = [k \in Keys |-> "idle"]
    /\ local = [k \in Keys |-> [v \in Versions |-> "absent"]]
    /\ served = [k \in Keys |-> NoModel]
    /\ stray = {}
    /\ faults \in FaultSets

-----------------------------------------------------------------------------
(* publish(): the key gets the new value.  The same version may be          *)
(* published again; the model below its path is there and does not change. *)
Publish(k, v) ==
    /\ Len(info) < MaxPuts
    /\ info' = Append(info, [key |-> k, version |-> v])
    /\ consul' = [consul EXCEPT ![k] = Len(info')]
    /\ UNCHANGED <<post, sent, posts, watcherVars, local, served, stray>>

(* The watch runs curl with all keys when one has changed since it last did.*)
WatchFires ==
    /\ post = <<>> /\ sent # consul
    /\ posts < MaxPosts
    /\ post' = consul /\ sent' = consul /\ posts' = posts + 1
    /\ UNCHANGED <<info, consul, watcherVars, local, served, stray>>

(* The watch is restarted and posts what there is.                          *)
WatchRestarts ==
    /\ "watch" \in faults
    /\ sent' = [k \in Keys |-> 0] /\ post' = <<>>
    /\ UNCHANGED <<info, consul, posts, watcherVars, local, served, stray>>

(* curl fails: the watcher is not up, and nobody tries again.               *)
PostLost ==
    /\ "lost" \in faults
    /\ post # <<>>
    /\ post' = <<>>
    /\ UNCHANGED <<info, consul, sent, posts, watcherVars, local, served, stray>>

(* _process_changes: a task for every key whose index is not the one that   *)
(* was loaded last, whatever is being loaded meanwhile.                     *)
Changed_Mutant(k, i) == known[k] = 0
Changed(k, i) == known[k] # i

WatchHandler ==
    /\ post # <<>>
    /\ tasks' = [k \in Keys |->
                    IF post[k] # 0 /\ Changed(k, post[k]) /\ Decodes(post[k])
                    THEN Append(tasks[k], post[k]) ELSE tasks[k]]
    /\ post' = <<>>
    /\ UNCHANGED <<info, consul, sent, posts, known, active, step, local, served, stray>>

(* asyncio.Lock lets its waiters in one at a time, the first one first.     *)
Turn_Mutant(k) == DOMAIN tasks[k]
Turn(k) == {1} \cap DOMAIN tasks[k]

(* _load_change has the lock, and aws s3 sync starts on the directory of    *)
(* the version.                                                             *)
StartDownload(k) ==
    /\ active[k] = 0
    /\ \E n \in Turn(k) :
        LET v == info[tasks[k][n]].version IN
        /\ active' = [active EXCEPT ![k] = tasks[k][n]]
        /\ tasks' = [tasks EXCEPT ![k] = RemoveAt(@, n)]
        /\ local' = [local EXCEPT ![k][v] = IF @ = "whole" THEN @ ELSE "partial"]
    /\ step' = [step EXCEPT ![k] = "download"]
    /\ UNCHANGED <<info, consul, post, sent, posts, known, served, stray>>

DownloadEnds(k) ==
    /\ step[k] = "download"
    /\ local' = [local EXCEPT ![k][info[active[k]].version] = "whole"]
    /\ step' = [step EXCEPT ![k] = "load"]
    /\ UNCHANGED <<info, consul, post, sent, posts, known, tasks, active, served, stray>>

(* The task returns and releases the lock.                                  *)
Release(k) ==
    /\ active' = [active EXCEPT ![k] = 0]
    /\ step' = [step EXCEPT ![k] = "idle"]
    /\ UNCHANGED <<info, consul, post, sent, posts, tasks, local>>

(* sync has failed: what it has copied stays.                               *)
AfterSyncFailure_Mutant(k) ==
    /\ step' = [step EXCEPT ![k] = "load"]
    /\ UNCHANGED <<info, consul, post, sent, posts, tasks, active, local>>
AfterSyncFailure(k) == Release(k)
DownloadFails(k) ==
    /\ "download" \in faults
    /\ step[k] = "download"
    /\ AfterSyncFailure(k)
    /\ UNCHANGED <<known, served, stray>>

(* ModelManager::load has built the model and puts it in place of the old.  *)
Loaded(i) ==
    LET k == info[i].key
    IN  served' = [served EXCEPT ![k] =
                     [index |-> i, whole |-> local[k][info[i].version] = "whole"]]
ServingLoads(k) ==
    /\ step[k] = "load"
    /\ Loaded(active[k])
    /\ step' = [step EXCEPT ![k] = "loaded"]
    /\ UNCHANGED <<info, consul, post, sent, posts, known, tasks, active, local, stray>>

(* The reply has come: the watcher remembers what it has loaded.            *)
LoadReturns(k) ==
    /\ step[k] = "loaded"
    /\ known' = [known EXCEPT ![k] = active[k]]
    /\ Release(k)
    /\ UNCHANGED <<served, stray>>

(* The model cannot be loaded, or the reply is lost.                        *)
KnownAfterFailure_Mutant(k) == [known EXCEPT ![k] = active[k]]
KnownAfterFailure(k) == known
LoadFails(k) ==
    /\ "load" \in faults
    /\ step[k] \in {"load", "loaded"}
    /\ known' = KnownAfterFailure(k)
    /\ Release(k)
    /\ UNCHANGED <<served, stray>>

(* The connection breaks: the call raises, the coroutine in the serving     *)
(* process goes on.                                                         *)
Disconnect(k) ==
    /\ "disconnect" \in faults
    /\ step[k] = "load"
    /\ stray' = stray \cup {active[k]}
    /\ Release(k)
    /\ UNCHANGED <<known, served>>

StrayLoad ==
    /\ \E i \in stray : Loaded(i) /\ stray' = stray \ {i}
    /\ UNCHANGED <<info, consul, post, sent, posts, watcherVars, local>>

-----------------------------------------------------------------------------
(* The serving container is restarted.  init() looks for models in the      *)
(* directories of the names, the watcher has put them one level below, so   *)
(* none is found; calls that are under way fail.                            *)
ServingRestarts ==
    /\ "serving" \in faults
    /\ served' = [k \in Keys |-> NoModel] /\ stray' = {}
    /\ active' = [k \in Keys |-> IF step[k] \in {"load", "loaded"} THEN 0 ELSE active[k]]
    /\ step' = [k \in Keys |-> IF step[k] \in {"load", "loaded"} THEN "idle" ELSE step[k]]
    /\ UNCHANGED <<info, consul, post, sent, posts, known, tasks, local>>

(* The watcher is restarted: its calls to the serving process go on there.  *)
WatcherRestarts ==
    /\ "watcher" \in faults
    /\ stray' = stray \cup {active[k] : k \in {q \in Keys : step[q] = "load"}}
    /\ known' = [k \in Keys |-> 0] /\ tasks' = [k \in Keys |-> <<>>]
    /\ active' = [k \in Keys |-> 0] /\ step' = [k \in Keys |-> "idle"]
    /\ UNCHANGED <<info, consul, post, sent, posts, local, served>>

KeyStep(k) ==
    StartDownload(k) \/ DownloadEnds(k) \/ ServingLoads(k) \/ LoadReturns(k)

Step ==
    \/ WatchFires \/ WatchRestarts \/ PostLost \/ WatchHandler
    \/ StrayLoad \/ ServingRestarts \/ WatcherRestarts
    \/ \E k \in Keys :
        \/ \E v \in Versions \cup {Bad} : Publish(k, v)
        \/ KeyStep(k) \/ DownloadFails(k) \/ LoadFails(k) \/ Disconnect(k)

Next == Step /\ UNCHANGED faults

Spec == Init /\ [][Next]_vars

(* The watch, the event loop of the watcher, aws and the serving process    *)
(* run; nobody has to publish and nothing has to fail.                      *)
FairSpec ==
    /\ Spec
    /\ WF_system(WatchFires) /\ WF_system(WatchHandler)
    /\ \A k \in Keys : WF_system(KeyStep(k))

-----------------------------------------------------------------------------
(* _load_change: a model is loaded only from a directory that a sync has    *)
(* completed, whatever failed, was restarted or was published meanwhile.    *)
ServedIsWhole == TypeOK /\ \A k \in Keys : served[k].whole

(* No load can go on behind the back of the watcher, and the serving        *)
(* process keeps what it has loaded.                                        *)
Connected == faults \cap {"disconnect", "watcher", "serving"} = {}

(* _key_lock_dict: two changes of a key never overtake one another: the     *)
(* serving process does not go back to a model that was published before    *)
(* the one it has, although each is downloaded and loaded by its own task.  *)
NeverBack ==
    [][Connected => \A k \in Keys : served'[k].index >= served[k].index]_vars

(* _key_info_dict holds what was loaded with success: a model the watcher   *)
(* takes for loaded, and will not load again, is served, or a newer one is. *)
KnownIsServed == Connected => \A k \in Keys : known[k] <= served[k].index

(* When nothing fails, the last model published under a key is in the end   *)
(* the one that is served, and stays so.                                    *)
PublishedIsServed ==
    faults = {} => \A k \in Keys :
        <>[](consul[k] # 0 /\ Decodes(consul[k]) => served[k].index = consul[k])
=============================================================================

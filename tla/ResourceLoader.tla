---------------------------- MODULE ResourceLoader ----------------------------
(***************************************************************************)
(* Reading the configuration of a flow (resource_loader.py,                *)
(* resource_manager.py): a resource file names the files it uses, and      *)
(* load_into walks them from metaspore-flow.yml with a queue.  A file may   *)
(* use any other, itself included, files may be missing or invalid, and two *)
(* files may hold resources of the same name.                              *)
(***************************************************************************)
EXTENDS Naturals, Sequences, FiniteSets, Functions

CONSTANTS
    Files,   \* the normalised paths
    Root,    \* metaspore-flow.yml
    Names    \* the names of resources

ASSUME FilesAssumption == Root \in Files /\ IsFiniteSet(Files)

VARIABLES
    uses,     \* uses[f]: the files that f uses, each named once
    name,     \* name[f]: metadata.name of f
    valid,    \* the files that exist and can be loaded
    queue,    \* the queue of load_into
    loaded,   \* the set loaded
    manager,  \* the files whose resources the manager has, in order
    status    \* "loading", "done", "conflict" or "invalid"

loaderVars == <<uses, name, valid, queue, loaded, manager, status>>
disk == <<uses, name, valid>>

(* Types of the variables; the manager has the resource of every file that *)
(* was loaded, once.                                                        *)
LoaderTypeOK ==
    /\ uses \in [Files -> SUBSET Files]
    /\ name \in [Files -> Names]
    /\ valid \subseteq Files
    /\ queue \in Seq(Files)
    /\ loaded \subseteq Files
    /\ manager \in Seq(Files) /\ Range(manager) = loaded /\ IsInjective(manager)
    /\ status \in {"loading", "done", "conflict", "invalid"}

LoaderInit ==
    /\ uses \in [Files -> SUBSET Files]
    /\ name \in [Files -> Names]
    /\ valid \in SUBSET Files
    /\ queue = <<Root>>
    /\ loaded = {}
    /\ manager = <<>>
    /\ status = "loading"

-----------------------------------------------------------------------------
(* _load_resource: the file is read, its vars are substituted and it fits   *)
(* one of the resource types, or it raises.                                 *)
Loads(f) == f \in valid
Raised_Mutant == "loading"
Raised == "invalid"

(* add_resource refuses a name that it has.                                 *)
Conflicts(f) == \E i \in DOMAIN manager : name[manager[i]] = name[f]

(* The files of uses that are not loaded yet; those that wait in the queue  *)
(* are not left out.                                                        *)
ToQueue_Mutant(f) == IF uses[f] \cap loaded = {} THEN uses[f] \ {f} ELSE {}
ToQueue_Mutant2(f) == uses[f] \ loaded
ToQueue(f) == uses[f] \ (loaded \cup {f})

(* uses is a tuple; its order is left open.                                 *)
Orders(S) == {q \in [1..Cardinality(S) -> S] : Range(q) = S /\ IsInjective(q)}

(* One turn of the loop of load_into.                                       *)
LoadNext ==
    /\ status = "loading" /\ queue # <<>>
    /\ LET f == Head(queue) IN
        IF ~Loads(f) THEN status' = Raised /\ UNCHANGED <<queue, loaded, manager>>
        ELSE IF Conflicts(f) THEN status' = "conflict" /\ UNCHANGED <<queue, loaded, manager>>
        ELSE /\ manager' = Append(manager, f)
             /\ loaded' = loaded \cup {f}
             /\ \E q \in Orders(ToQueue(f)) : queue' = Tail(queue) \o q
             /\ UNCHANGED status
    /\ UNCHANGED disk

(* The queue is empty: the manager is frozen and returned.                  *)
Freeze ==
    /\ status = "loading" /\ queue = <<>>
    /\ status' = "done"
    /\ UNCHANGED <<disk, queue, loaded, manager>>

LoaderNext == LoadNext \/ Freeze

LoaderSpec == LoaderInit /\ [][LoaderNext]_loaderVars

(* The loop runs.                                                           *)
FairLoaderSpec == LoaderSpec /\ WF_loaderVars(LoaderNext)

-----------------------------------------------------------------------------
(* The files that the flow consists of: the least set that has the root and *)
(* what its members use.                                                    *)
Closed(S) == Root \in S /\ \A f \in S : uses[f] \subseteq S
Reachable == {f \in Files : \A S \in SUBSET Files : Closed(S) => f \in S}

(* load: a flow that was loaded has every file that can be reached from the *)
(* root and no other.                                                       *)
LoadsReachable ==
    status = "done" => Range(manager) = Reachable

(* A load fails only for a reason: a file that can be reached is invalid;   *)
(* or two of them have the same name; or one is used in two places, which   *)
(* may be queued twice.  In particular files that use one another in a      *)
(* cycle are loaded.                                                        *)
UsedTwice == \E f \in Reachable : \E g, h \in Reachable : g # h /\ f \in uses[g] \cap uses[h]
FailsForAReason ==
    /\ status = "invalid" => ~(Reachable \subseteq valid)
    /\ status = "conflict" =>
        \/ UsedTwice
        \/ \E f, g \in Reachable : f # g /\ name[f] = name[g]

(* Loading ends, whatever uses what.                                        *)
LoadEnds == <>(status # "loading")
=============================================================================

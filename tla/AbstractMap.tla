---------------------------- MODULE AbstractMap ----------------------------
(***************************************************************************)
(* What the partition of a sparse tensor expects of its ArrayHashMap: a    *)
(* map from keys to vectors that can be looked up, added to, pruned by the *)
(* vectors, cleared, written to a file and read from it.  A request takes  *)
(* effect at once, some time after it is made.                             *)
(***************************************************************************)
CONSTANTS
    Keys, Values,
    Predicates,  \* what may be pruned, as sets of values
    None,        \* the answer to a request for a key that is not there
    Broken       \* a map, or a file, of which nothing is promised

VARIABLES
    map,     \* the pairs <<key, value>>
    saved,   \* the map in the file, Broken at first
    request  \* what is being done, and the answer of a find

vars == <<map, saved, request>>

Idle == [kind |-> "idle"]
Find(k) == [kind |-> "find", key |-> k]
Put(k, v) == [kind |-> "put", key |-> k, value |-> v]
Prune(D) == [kind |-> "prune", doomed |-> D]
Answer(v) == [kind |-> "answer", value |-> v]

Requests == {Find(k) : k \in Keys} \cup {Put(k, v) : k \in Keys, v \in Values}
                \cup {Prune(D) : D \in Predicates}
Answers == {Answer(v) : v \in Values \cup {None}}

Init == map = {} /\ saved = Broken /\ request = Idle

\* A request is made, or its answer is taken.
Begin == /\ request = Idle /\ request' \in Requests
         /\ UNCHANGED <<map, saved>>

Return == /\ request \in Answers /\ request' = Idle
          /\ UNCHANGED <<map, saved>>

\* A find is answered by the vector of the key.
Found(k, v) ==
    /\ request = Find(k) /\ map # Broken
    /\ IF v = None THEN \A u \in Values : <<k, u>> \notin map ELSE <<k, v>> \in map
    /\ request' = Answer(v)
    /\ UNCHANGED <<map, saved>>

\* A put replaces the vector of its key.
Stored(k, v) ==
    /\ request = Put(k, v) /\ map # Broken
    /\ map' = {p \in map : p[1] # k} \cup {<<k, v>>}
    /\ request' = Idle
    /\ UNCHANGED saved

\* It may throw, if the key is new, and then changes nothing.
Refused(k, v) ==
    /\ request = Put(k, v) /\ map # Broken
    /\ \A u \in Values : <<k, u>> \notin map
    /\ request' = Idle
    /\ UNCHANGED <<map, saved>>

\* Pruning takes away pairs with a doomed vector, and ends when none is left.
Remove(D, k, v) ==
    /\ request = Prune(D) /\ map # Broken
    /\ v \in D /\ <<k, v>> \in map
    /\ map' = map \ {<<k, v>>}
    /\ UNCHANGED <<saved, request>>

Pruned(D) ==
    /\ request = Prune(D) /\ map # Broken
    /\ \A k \in Keys, v \in D : <<k, v>> \notin map
    /\ request' = Idle
    /\ UNCHANGED <<map, saved>>

\* It may throw at its end, if pairs are left, and leaves the map broken.
Abandoned(D) ==
    /\ request = Prune(D) /\ map \notin {{}, Broken}
    /\ \A k \in Keys, v \in D : <<k, v>> \notin map
    /\ map' = Broken
    /\ request' = Idle
    /\ UNCHANGED saved

\* A broken map answers as it likes.
Whatever ==
    /\ request \in Requests /\ map = Broken
    /\ request' \in Answers \cup {Idle}
    /\ UNCHANGED <<map, saved>>

Clear == /\ request = Idle /\ map' = {} /\ UNCHANGED <<saved, request>>
Save == /\ request = Idle /\ saved' = map /\ UNCHANGED <<map, request>>
Load == /\ request = Idle /\ map' = saved /\ UNCHANGED <<saved, request>>

\* A load that throws leaves the map empty, or broken.
LoadThrows == /\ request = Idle /\ map' \in {{}, Broken} /\ UNCHANGED <<saved, request>>

Next ==
    \/ Begin \/ Return \/ Whatever \/ Clear \/ Save \/ Load \/ LoadThrows
    \/ \E k \in Keys, v \in Values \cup {None} : Found(k, v)
    \/ \E k \in Keys, v \in Values : Stored(k, v) \/ Refused(k, v)
    \/ \E D \in Predicates : Pruned(D) \/ Abandoned(D) \/ \E k \in Keys, v \in Values : Remove(D, k, v)

Spec == Init /\ [][Next]_vars

=============================================================================

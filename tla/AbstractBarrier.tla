-------------------------- MODULE AbstractBarrier --------------------------
(***************************************************************************)
(* What a barrier promises its callers, with no coordinator, no counter    *)
(* and no message: the members of a group are released together, in one    *)
(* step that needs all of them waiting.                                    *)
(***************************************************************************)

CONSTANTS
    Nodes,       \* the nodes that may wait
    Groups,      \* the names of the groups
    MembersOf    \* MembersOf[g]: the nodes that have to arrive at group g

VARIABLE phase   \* phase[n][g]: where node n is with respect to group g

Phases == {"outside", "waiting", "released"}

Init == phase = [n \in Nodes |-> [g \in Groups |-> "outside"]]

\* n arrives at the barrier of g; it waits at one barrier at a time.
Enter(n, g) ==
    /\ n \in MembersOf[g]
    /\ \A h \in Groups : phase[n][h] = "outside"
    /\ phase' = [phase EXCEPT ![n][g] = "waiting"]

\* Everybody has arrived: all members are released.
Release(g) ==
    /\ MembersOf[g] # {}
    /\ \A n \in MembersOf[g] : phase[n][g] = "waiting"
    /\ phase' = [n \in Nodes |-> [h \in Groups |->
                    IF h = g /\ n \in MembersOf[g] THEN "released" ELSE phase[n][h]]]

Leave(n, g) ==
    /\ phase[n][g] = "released"
    /\ phase' = [phase EXCEPT ![n][g] = "outside"]

Next ==
    \/ \E n \in Nodes, g \in Groups : Enter(n, g)
    \/ \E g \in Groups : Release(g)
    \/ \E n \in Nodes, g \in Groups : Leave(n, g)

Spec == Init /\ [][Next]_phase

=============================================================================

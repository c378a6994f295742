---------------------------- MODULE NodeBarrier ----------------------------
(***************************************************************************)
(* The barrier of the parameter server (NodeManager::Barrier on a member,  *)
(* ActorProcess::HandleBarrierMessage on the coordinator).                 *)
(*                                                                         *)
(* A member that calls Barrier(group) clears its flag barrier_done_, sends *)
(* one request to the coordinator and sleeps on a condition variable until *)
(* its receiver thread has set the flag.  The coordinator keeps no record  *)
(* of WHO has arrived: one counter per group is incremented by every       *)
(* request, and when it equals the group's size it is reset and the        *)
(* barrier-done message is sent to every member.  That message does not    *)
(* say which group it is about, and a member has one flag for all groups.  *)
(*                                                                         *)
(* One thread per node is inside Barrier at a time, as in the Python       *)
(* trainer, whose worker process calls it from a single thread.            *)
(***************************************************************************)
EXTENDS Naturals, FiniteSets, Sequences

CONSTANTS
    Nodes,       \* the nodes of the job, the coordinator included
    RoleOf,      \* the role of each node
    CallGroups,  \* the groups that callers pass to Barrier
    Dropping,    \* drop_rate > 0: the receiver thread may discard messages
    MaxCalls,    \* bound: calls of Barrier per node and group
    NoGroup      \* no call of Barrier in progress

Roles == {"Coordinator", "Server", "Worker"}

\* A group is a combination of role bits (CoordinatorGroup, ServerGroup,
\* WorkerGroup); barrier_counter_ has one entry for each combination.
Groups == SUBSET Roles

ASSUME BarrierAssumption ==
    /\ IsFiniteSet(Nodes)
    /\ RoleOf \in [Nodes -> Roles]
    /\ CallGroups \subseteq Groups
    /\ Dropping \in BOOLEAN
    /\ MaxCalls \in Nat
    /\ \A g \in Groups : g # NoGroup

\* NodeManager::InitNodeIds puts a node into every group that has its role.
GetNodeIds(group) == {n \in Nodes : RoleOf[n] \in group}

VARIABLES
    calling,          \* the group of the call of Barrier in progress on a node
    barrier_done,     \* NodeManager::barrier_done_ of each node
    barrier_counter,  \* ActorProcess::barrier_counter_ of the coordinator
    requests,         \* messages from each node to the coordinator, FIFO
    responses         \* messages from the coordinator to each node, FIFO

\* History: what the properties speak about; no action reads them except to
\* bound the number of calls.
VARIABLES
    entered,  \* entered[n][g]: calls of Barrier(g) begun by n
    left,     \* left[n][g]: calls of Barrier(g) that have returned
    rounds,   \* rounds[g]: times the coordinator has released g
    arrived   \* arrived[g]: members counted for the round in progress

history == <<entered, left, rounds, arrived>>
vars == <<calling, barrier_done, barrier_counter, requests, responses, history>>

Init ==
    /\ calling = [n \in Nodes |-> NoGroup]
    /\ barrier_done = [n \in Nodes |-> FALSE]
    /\ barrier_counter = [g \in Groups |-> 0]
    /\ requests = [n \in Nodes |-> <<>>]
    /\ responses = [n \in Nodes |-> <<>>]
    /\ entered = [n \in Nodes |-> [g \in Groups |-> 0]]
    /\ left = [n \in Nodes |-> [g \in Groups |-> 0]]
    /\ rounds = [g \in Groups |-> 0]
    /\ arrived = [g \in Groups |-> {}]

-----------------------------------------------------------------------------
(***************************************************************************)
(* NodeManager::Barrier.  A group nobody is in, and a group of two or more *)
(* nodes that does not contain the caller, make it throw before anything   *)
(* changes.                                                                *)
(***************************************************************************)

\* A group of a single node: return at once, whoever calls.
BarrierOfOne(n, g) ==
    /\ calling[n] = NoGroup
    /\ entered[n][g] < MaxCalls
    /\ Cardinality(GetNodeIds(g)) = 1
    /\ entered' = [entered EXCEPT ![n][g] = @ + 1]
    /\ left' = [left EXCEPT ![n][g] = @ + 1]
    /\ UNCHANGED <<calling, barrier_done, barrier_counter, requests, responses,
                   rounds, arrived>>

\* The first thing Barrier does once it holds barrier_mutex_.
ResetFlag_Mutant(n) == UNCHANGED barrier_done
ResetFlag(n) == barrier_done' = [barrier_done EXCEPT ![n] = FALSE]

\* barrier_mutex_ is held from the reset of the flag until the wait releases
\* it, so that NotifyBarrierDone cannot come in between: one step.
BarrierEnter(n, g) ==
    /\ calling[n] = NoGroup
    /\ entered[n][g] < MaxCalls
    /\ Cardinality(GetNodeIds(g)) > 1
    /\ RoleOf[n] \in g
    /\ calling' = [calling EXCEPT ![n] = g]
    /\ ResetFlag(n)
    /\ requests' = [requests EXCEPT ![n] = Append(@, g)]
    /\ entered' = [entered EXCEPT ![n][g] = @ + 1]
    /\ UNCHANGED <<barrier_counter, responses, left, rounds, arrived>>

\* barrier_cv_.wait returns.
BarrierLeave(n) ==
    /\ calling[n] # NoGroup
    /\ barrier_done[n]
    /\ calling' = [calling EXCEPT ![n] = NoGroup]
    /\ left' = [left EXCEPT ![n][calling[n]] = @ + 1]
    /\ UNCHANGED <<barrier_done, barrier_counter, requests, responses, entered,
                   rounds, arrived>>

-----------------------------------------------------------------------------
(***************************************************************************)
(* The receiver threads.                                                   *)
(***************************************************************************)

\* The coordinator's test for the last request of a round, and the counter it
\* leaves behind.
RoundComplete_Mutant(g, count) == count + 1 = Cardinality(GetNodeIds(g))
RoundComplete_Mutant2(g, count) == count = Cardinality(GetNodeIds(g)) + 1
RoundComplete(g, count) == count = Cardinality(GetNodeIds(g))

CounterAfter(g, count) == IF RoundComplete(g, count) THEN 0 ELSE count

\* Who is told that a round of g is complete.
Recipients(g) == GetNodeIds(g)

\* The coordinator counts the request at the head of n's channel; the last
\* one of a round releases the group.
HandleBarrierRequest(n) ==
    /\ requests[n] # <<>>
    /\ LET g == Head(requests[n])
           count == barrier_counter[g] + 1
           complete == RoundComplete(g, count)
       IN /\ barrier_counter' = [barrier_counter EXCEPT ![g] = CounterAfter(g, count)]
          /\ responses' =
                 [m \in Nodes |-> IF complete /\ m \in Recipients(g)
                                  THEN Append(responses[m], "BarrierDone")
                                  ELSE responses[m]]
          /\ rounds' = [rounds EXCEPT ![g] = IF complete THEN @ + 1 ELSE @]
          /\ arrived' = [arrived EXCEPT ![g] = IF complete THEN {} ELSE @ \cup {n}]
    /\ requests' = [requests EXCEPT ![n] = Tail(@)]
    /\ UNCHANGED <<calling, barrier_done, entered, left>>

NotifyBarrierDone(n) ==
    /\ responses[n] # <<>>
    /\ responses' = [responses EXCEPT ![n] = Tail(@)]
    /\ barrier_done' = [barrier_done EXCEPT ![n] = TRUE]
    /\ UNCHANGED <<calling, barrier_counter, requests, history>>

\* Receiving discards a message it has just received (drop_rate).
DropRequest(n) ==
    /\ Dropping
    /\ requests[n] # <<>>
    /\ requests' = [requests EXCEPT ![n] = Tail(@)]
    /\ UNCHANGED <<calling, barrier_done, barrier_counter, responses, history>>

DropResponse(n) ==
    /\ Dropping
    /\ responses[n] # <<>>
    /\ responses' = [responses EXCEPT ![n] = Tail(@)]
    /\ UNCHANGED <<calling, barrier_done, barrier_counter, requests, history>>

-----------------------------------------------------------------------------

\* What threads do, and what the network loses.
Step ==
    \/ \E n \in Nodes, g \in CallGroups : BarrierOfOne(n, g)
    \/ \E n \in Nodes, g \in CallGroups : BarrierEnter(n, g)
    \/ \E n \in Nodes : BarrierLeave(n)
    \/ \E n \in Nodes : HandleBarrierRequest(n)
    \/ \E n \in Nodes : NotifyBarrierDone(n)

Drop ==
    \/ \E n \in Nodes : DropRequest(n)
    \/ \E n \in Nodes : DropResponse(n)

Next == Step \/ Drop

Spec == Init /\ [][Next]_vars

(***************************************************************************)
(* The receiver threads loop for as long as the process lives and the      *)
(* condition variable wakes its waiter, so their steps are weakly fair.    *)
(* Nothing makes an application call Barrier.                              *)
(***************************************************************************)
Fairness ==
    \A n \in Nodes : /\ WF_vars(HandleBarrierRequest(n))
                     /\ WF_vars(NotifyBarrierDone(n))
                     /\ WF_vars(BarrierLeave(n))

FairSpec == Spec /\ Fairness

-----------------------------------------------------------------------------

\* Types; the counter of a group never passes the number of nodes.
TypeOK ==
    /\ calling \in [Nodes -> Groups \cup {NoGroup}]
    /\ barrier_done \in [Nodes -> BOOLEAN]
    /\ barrier_counter \in [Groups -> 0..Cardinality(Nodes)]
    /\ requests \in [Nodes -> Seq(Groups)]
    /\ responses \in [Nodes -> Seq({"BarrierDone"})]
    /\ entered \in [Nodes -> [Groups -> Nat]]
    /\ left \in [Nodes -> [Groups -> Nat]]
    /\ rounds \in [Groups -> Nat]
    /\ arrived \in [Groups -> SUBSET Nodes]

\* The groups whose barrier involves the coordinator at all.
Shared(g) == Cardinality(GetNodeIds(g)) > 1

\* A member's k-th call of Barrier(g) returns only when every member of g has
\* begun its own k-th call, although the coordinator counts requests and not
\* members, the done message names no group, and messages may be dropped.
NoEarlyLeave ==
    \A g \in Groups : Shared(g) =>
        \A n, m \in GetNodeIds(g) : left[n][g] <= entered[m][g]

\* Once every member has begun its k-th call of Barrier(g), all those calls
\* return, whatever other barriers they take part in (no message dropped).
EveryoneReleased ==
    \A g \in CallGroups : Shared(g) =>
        \A k \in 1..MaxCalls :
            (\A m \in GetNodeIds(g) : entered[m][g] >= k)
                ~> (\A m \in GetNodeIds(g) : left[m][g] >= k)

-----------------------------------------------------------------------------
(***************************************************************************)
(* The inductive invariant behind NoEarlyLeave: the coordinator's counter  *)
(* is the number of distinct members whose current call it has counted,    *)
(* and what is in flight between a member and the coordinator tells which  *)
(* round the member is in.                                                 *)
(***************************************************************************)

\* n is inside a call that is not yet part of a finished round of g.
Pending(n, g) == entered[n][g] = rounds[g] + 1 /\ left[n][g] = rounds[g]

\* n is inside a call whose round the coordinator has finished.
Released(n, g) == entered[n][g] = rounds[g] /\ left[n][g] + 1 = rounds[g]

\* The coordinator's counter counts members, each once, and never a full
\* group.
CounterInv ==
    \A g \in Groups :
        /\ arrived[g] \subseteq GetNodeIds(g)
        /\ barrier_counter[g] = Cardinality(arrived[g])
        /\ Shared(g) => arrived[g] # GetNodeIds(g)

\* A counted member waits for the rest of its round with nothing in flight.
ArrivedInv ==
    \A g \in Groups : \A n \in arrived[g] :
        /\ calling[n] = g /\ Pending(n, g)
        /\ requests[n] = <<>> /\ responses[n] = <<>> /\ ~barrier_done[n]

\* The calls a member has begun, relative to the rounds finished.
RoundInv ==
    \A n \in Nodes : \A g \in Groups :
        Shared(g) /\ RoleOf[n] \in g =>
            IF calling[n] = g
            THEN Pending(n, g) \/ Released(n, g)
            ELSE entered[n][g] = rounds[g] /\ left[n][g] = rounds[g]

\* At most one message is in flight between a member and the coordinator, and
\* only while the member is inside Barrier.
ChannelInv ==
    \A n \in Nodes :
        /\ calling[n] # NoGroup => Shared(calling[n]) /\ RoleOf[n] \in calling[n]
        /\ requests[n] # <<>> =>
               /\ calling[n] # NoGroup /\ requests[n] = <<calling[n]>>
               /\ responses[n] = <<>> /\ ~barrier_done[n]
               /\ Pending(n, calling[n])
        /\ responses[n] # <<>> =>
               /\ calling[n] # NoGroup /\ responses[n] = <<"BarrierDone">>
               /\ requests[n] = <<>> /\ ~barrier_done[n]
               /\ Released(n, calling[n])
        /\ calling[n] # NoGroup /\ barrier_done[n] => Released(n, calling[n])

IInv == TypeOK /\ CounterInv /\ ArrivedInv /\ RoundInv /\ ChannelInv

-----------------------------------------------------------------------------
(***************************************************************************)
(* Refinement: a member is waiting from its call until its round is        *)
(* finished at the coordinator, and released from then until it returns.   *)
(***************************************************************************)
SharedGroups == {g \in Groups : Shared(g)}

PhaseOf(n, g) ==
    IF calling[n] # g THEN "outside"
    ELSE IF entered[n][g] > rounds[g] THEN "waiting" ELSE "released"

PhaseMap == [n \in Nodes |-> [g \in SharedGroups |-> PhaseOf(n, g)]]

Membership == [g \in SharedGroups |-> GetNodeIds(g)]

AB == INSTANCE AbstractBarrier WITH
        Groups <- SharedGroups, MembersOf <- Membership, phase <- PhaseMap

\* Seen from its callers the message-passing barrier is the abstract one.
ImplementsBarrier == AB!Spec

=============================================================================

---------------------------- MODULE ActorProcess ----------------------------
(***************************************************************************)
(* The life of the processes of a parameter server job (ActorProcess,      *)
(* ZeroMQTransport, PSAgent::Shutdown): registration at the coordinator,   *)
(* assignment of node ids, connection of every node to every other, the    *)
(* first requests of workers to servers, and termination.                  *)
(*                                                                         *)
(* Every process has a calling thread (Run: Start, WaitReady, Stop) and a  *)
(* receiver thread (Receiving).  A sender socket is identified by the node *)
(* id it leads to and carries the identity its owner had when it was made, *)
(* which the receiver reads as the sender of the message.  One socket is   *)
(* FIFO; nothing orders the messages of two senders.                       *)
(***************************************************************************)
EXTENDS NodeEncoding, FiniteSets, Sequences

CONSTANTS
    Nodes,          \* the processes of the job
    RoleOf,         \* their roles
    Coord,          \* the one coordinator among them
    Host,           \* host name of a process, as a number in their order
    Port,           \* the port it is bound to
    FaultSets,      \* what may go wrong in a job: sets of FaultKinds
    MaxRequests,    \* requests a worker makes
    NoCall, NoStore

\* timeout: WaitReady gives up after its 60 seconds;
\* early: workers use the servers before every node is ready;
\* abort: the coordinator's agent ends while workers still have work;
\* linger: closing a socket discards what it has not sent yet.
FaultKinds == {"timeout", "early", "abort", "linger"}

ASSUME ActorAssumption ==
    /\ IsFiniteSet(Nodes)
    /\ RoleOf \in [Nodes -> Roles]
    /\ Coord \in Nodes
    /\ \A n \in Nodes : RoleOf[n] = "Coordinator" <=> n = Coord
    /\ Host \in [Nodes -> Int] /\ Port \in [Nodes -> Int]
    /\ \A m, n \in Nodes : Host[m] = Host[n] /\ Port[m] = Port[n] => m = n
    /\ FaultSets \subseteq SUBSET FaultKinds
    /\ MaxRequests \in Nat
    /\ NoCall \notin Int /\ NoStore \notin Int

Others == Nodes \ {Coord}
Servers == {n \in Nodes : RoleOf[n] = "Server"}
Workers == {n \in Nodes : RoleOf[n] = "Worker"}

VARIABLES
    pc,          \* calling thread: off, waiting (WaitReady), running, stopping,
                 \* stopped, exited (timeout)
    receiver,    \* receiver thread: none, on, done (Terminate), dead (exception)
    ready,       \* ready_
    node_id,     \* id of this node as it knows it
    senders,     \* sender sockets: records [id, to, identity]
    registered,  \* nodes_ of the coordinator: who has sent AddNode
    net,         \* net[<<m, n>>]: messages from m to n, FIFO
    store_rank,  \* partition index in a server's TensorPartitionStore
    call,        \* id of the server a worker waits for
    answers,     \* history: what requests have been answered, and with which index
    faults       \* what may go wrong in this job

state == <<pc, receiver, ready, node_id, senders, registered, net,
           store_rank, call, answers>>
vars == <<state, faults>>

-----------------------------------------------------------------------------
(***************************************************************************)
(* Ids.  CoordinatorHandleAddNode sorts the nodes by host name, descending,*)
(* and port, ascending, and numbers servers and workers in that order.     *)
(***************************************************************************)

\* The comparison: (x.host.compare(y.host) | (x.port < y.port)) > 0.
SortsBefore_Mutant(x, y) == Host[x] > Host[y]
SortsBefore(x, y) == \/ Host[x] > Host[y]
                     \/ Host[x] = Host[y] /\ Port[x] < Port[y]

RankOf(n) == Cardinality({m \in Nodes : RoleOf[m] = RoleOf[n] /\ SortsBefore(m, n)})

AssignedId(n) == IF n = Coord THEN CoordinatorNodeId ELSE RankToNodeId(RoleOf[n], RankOf(n))

-----------------------------------------------------------------------------
(***************************************************************************)
(* The transport.                                                          *)
(***************************************************************************)

\* Connect to a node under its id: an old socket with that id is closed; no
\* socket is made to another node of the same role.
SkipsPeer(n, m, thisId, id) == RoleOf[m] = RoleOf[n] /\ id # thisId

Connect(socks, n, m, thisId, id) ==
    {s \in socks : s.id # id} \cup
    IF SkipsPeer(n, m, thisId, id) THEN {}
    ELSE {[id |-> id, to |-> m, identity |-> thisId]}

\* The sockets after Connect to every node, in any order.
ConnectAll(n, thisId) ==
    UNION {Connect({}, n, m, thisId, AssignedId(m)) : m \in Nodes}

HasSocket(n, id) == \E s \in senders[n] : s.id = id
SocketTo(n, id) == CHOOSE s \in senders[n] : s.id = id

\* A message carries the identity of the socket it was sent through; a
\* response also the partition index of the store that served the request.
Msg(type, sock, rank) == [type |-> type, sender |-> sock.identity, rank |-> rank]

\* The messages in net once n has sent one through each of its sockets socks.
SendOver(n, socks, type, rank) ==
    [p \in Nodes \X Nodes |->
        IF p[1] = n /\ \E s \in socks : s.to = p[2]
        THEN Append(net[p], Msg(type, CHOOSE s \in socks : s.to = p[2], rank))
        ELSE net[p]]

\* Receiving takes the next message of a given type from m at n.
Receives(n, m, type) ==
    /\ receiver[n] = "on"
    /\ net[<<m, n>>] # <<>>
    /\ Head(net[<<m, n>>]).type = type

Pop(channels, m, n) == [channels EXCEPT ![<<m, n>>] = Tail(@)]

-----------------------------------------------------------------------------

Init ==
    /\ pc = [n \in Nodes |-> "off"]
    /\ receiver = [n \in Nodes |-> "none"]
    /\ ready = [n \in Nodes |-> FALSE]
    /\ node_id = [n \in Nodes |-> UnassignedId]
    /\ senders = [n \in Nodes |-> {}]
    /\ registered = {}
    /\ net = [p \in Nodes \X Nodes |-> <<>>]
    /\ store_rank = [n \in Nodes |-> NoStore]
    /\ call = [n \in Nodes |-> NoCall]
    /\ answers = [n \in Nodes |-> <<>>]
    /\ faults \in FaultSets

(***************************************************************************)
(* ActorProcess::Start                                                     *)
(***************************************************************************)

\* Bind, connect to the coordinator, start the receiver thread; a node other
\* than the coordinator registers itself under the unassigned id.
Start(n) ==
    /\ pc[n] = "off"
    /\ LET id == IF n = Coord THEN CoordinatorNodeId ELSE UnassignedId
           socks == Connect({}, n, Coord, id, CoordinatorNodeId)
       IN /\ node_id' = [node_id EXCEPT ![n] = id]
          /\ senders' = [senders EXCEPT ![n] = socks]
          /\ net' = IF n = Coord THEN net ELSE SendOver(n, socks, "Register", NoStore)
    /\ pc' = [pc EXCEPT ![n] = "waiting"]
    /\ receiver' = [receiver EXCEPT ![n] = "on"]
    /\ UNCHANGED <<ready, registered, store_rank, call, answers>>

\* WaitReady returns.
StartReturns(n) ==
    /\ pc[n] = "waiting"
    /\ ready[n]
    /\ pc' = [pc EXCEPT ![n] = "running"]
    /\ UNCHANGED <<receiver, ready, node_id, senders, registered, net,
                   store_rank, call, answers>>

\* What may be left in net once n has closed its sockets, with ZMQ_LINGER 0 or
\* by exiting: of each channel from n, the messages that have left the process.
Flushed(n) ==
    IF "linger" \notin faults THEN {net}
    ELSE LET lengths == {kept \in [Nodes -> UNION {0..Len(net[<<n, m>>]) : m \in Nodes}] :
                            \A m \in Nodes : kept[m] <= Len(net[<<n, m>>])}
         IN {[p \in Nodes \X Nodes |->
                 IF p[1] = n THEN SubSeq(net[p], 1, kept[p[2]]) ELSE net[p]] : kept \in lengths}

\* WaitReady gives up: exit(EXIT_FAILURE) ends both threads.
WaitReadyTimeout(n) ==
    /\ "timeout" \in faults
    /\ pc[n] = "waiting"
    /\ ~ready[n]
    /\ pc' = [pc EXCEPT ![n] = "exited"]
    /\ receiver' = [receiver EXCEPT ![n] = "none"]
    /\ net' \in Flushed(n)
    /\ UNCHANGED <<ready, node_id, senders, registered, store_rank, call, answers>>

-----------------------------------------------------------------------------
(***************************************************************************)
(* HandleAddNodeMessage                                                    *)
(***************************************************************************)

\* The coordinator has heard of as many nodes as the job has.
AllRegistered_Mutant(nodes) == Cardinality(nodes) + 1 = Cardinality(Others)
AllRegistered(nodes) == Cardinality(nodes) = Cardinality(Others)

\* On the coordinator (UpdateLocalId, CoordinatorHandleAddNode): the last
\* registration makes it assign the ids, connect to everybody and send every
\* node the list of all.  A registration from an unknown sender that comes
\* when the list is full ends the receiver thread.
HandleRegister(m) ==
    /\ Receives(Coord, m, "Register")
    /\ IF AllRegistered(registered)
       THEN /\ receiver' = [receiver EXCEPT ![Coord] = "dead"]
            /\ net' = Pop(net, m, Coord)
            /\ UNCHANGED <<ready, senders, registered>>
       ELSE LET socks == UNION {Connect({}, Coord, k, node_id[Coord], AssignedId(k)) : k \in Others}
            IN /\ registered' = registered \cup {m}
               /\ IF AllRegistered(registered')
                  THEN /\ senders' = [senders EXCEPT ![Coord] = @ \cup socks]
                       /\ net' = Pop(SendOver(Coord, socks, "AddNode", NoStore), m, Coord)
                       /\ ready' = [ready EXCEPT ![Coord] = TRUE]
                  ELSE /\ net' = Pop(net, m, Coord)
                       /\ UNCHANGED <<ready, senders>>
               /\ UNCHANGED receiver
    /\ UNCHANGED <<pc, node_id, store_rank, call, answers>>

\* On the other nodes: adopt the id the list gives this address, unless there
\* is one already, and connect to everybody.
LocalId(n) == IF node_id[n] = UnassignedId THEN AssignedId(n) ELSE node_id[n]

SocketIdentity(n) == LocalId(n)

HandleAddNode(n) ==
    /\ n # Coord
    /\ Receives(n, Coord, "AddNode")
    /\ node_id' = [node_id EXCEPT ![n] = LocalId(n)]
    /\ senders' = [senders EXCEPT ![n] = ConnectAll(n, SocketIdentity(n))]
    /\ ready' = [ready EXCEPT ![n] = TRUE]
    /\ net' = Pop(net, Coord, n)
    /\ UNCHANGED <<pc, receiver, registered, store_rank, call, answers>>

-----------------------------------------------------------------------------
(***************************************************************************)
(* Requests of workers to servers (PSAgent::SendRequest, HandleMessage and *)
(* the server side of PSDefaultAgent::HandleRequest).                      *)
(***************************************************************************)

\* A thread of a started worker sends a request and waits for the response.
SendRequest(w, s) ==
    /\ w \in Workers /\ s \in Servers
    /\ pc[w] = "running" /\ ready[w]
    /\ "early" \in faults \/ \A n \in Nodes : ready[n]
    /\ call[w] = NoCall
    /\ Len(answers[w]) < MaxRequests
    /\ HasSocket(w, AssignedId(s))
    /\ net' = SendOver(w, {SocketTo(w, AssignedId(s))}, "Request", NoStore)
    /\ call' = [call EXCEPT ![w] = AssignedId(s)]
    /\ UNCHANGED <<pc, receiver, ready, node_id, senders, registered,
                   store_rank, answers>>

\* The first request makes the server create its store, for the partition of
\* its rank at that time.  A response that cannot be sent back is an exception
\* whose report cannot be sent back either: it ends the receiver thread.
StoreRank(s) == IF store_rank[s] = NoStore THEN NodeIdToRank(node_id[s]) ELSE store_rank[s]

HandleRequest(s, w) ==
    /\ Receives(s, w, "Request")
    /\ LET sender == Head(net[<<w, s>>]).sender
       IN IF HasSocket(s, sender)
          THEN /\ net' = Pop(SendOver(s, {SocketTo(s, sender)}, "Response", StoreRank(s)), w, s)
               /\ UNCHANGED receiver
          ELSE /\ net' = Pop(net, w, s)
               /\ receiver' = [receiver EXCEPT ![s] = "dead"]
    /\ store_rank' = [store_rank EXCEPT ![s] = StoreRank(s)]
    /\ UNCHANGED <<pc, ready, node_id, senders, registered, call, answers>>

HandleResponse(w, s) ==
    /\ Receives(w, s, "Response")
    /\ answers' = [answers EXCEPT ![w] = Append(@, <<call[w], Head(net[<<s, w>>]).rank>>)]
    /\ call' = [call EXCEPT ![w] = NoCall]
    /\ net' = Pop(net, s, w)
    /\ UNCHANGED <<pc, receiver, ready, node_id, senders, registered,
                   store_rank>>

-----------------------------------------------------------------------------
(***************************************************************************)
(* Termination                                                             *)
(***************************************************************************)

\* The coordinator's agent has run: PSAgent::Shutdown tells everybody, the
\* coordinator included, and Stop waits for the receiver thread.
TerminateSockets_Mutant == {s \in senders[Coord] : s.to # Coord}
TerminateSockets == senders[Coord]

Shutdown ==
    /\ pc[Coord] = "running"
    /\ "abort" \in faults \/ \A w \in Workers : Len(answers[w]) = MaxRequests
    /\ net' = SendOver(Coord, TerminateSockets, "Terminate", NoStore)
    /\ pc' = [pc EXCEPT ![Coord] = "stopping"]
    /\ UNCHANGED <<receiver, ready, node_id, senders, registered,
                   store_rank, call, answers>>

HandleTerminate(n) ==
    /\ Receives(n, Coord, "Terminate")
    /\ receiver' = [receiver EXCEPT ![n] = "done"]
    /\ net' = Pop(net, Coord, n)
    /\ UNCHANGED <<pc, ready, node_id, senders, registered, store_rank,
                   call, answers>>

\* The calling thread of a server or worker waits in Stop as soon as Start has
\* returned.
InStop(n) == IF n = Coord THEN pc[n] = "stopping" ELSE pc[n] = "running"

\* Stop clears the state of the process and closes its sockets with
\* ZMQ_LINGER 0.  It would rethrow the exception of a dead receiver thread, but
\* the process of such a thread is never ready (OnlyEarlyRequestsKill) and is
\* ended by WaitReady.
Stop(n) ==
    /\ InStop(n)
    /\ receiver[n] = "done"
    /\ net' \in Flushed(n)
    /\ pc' = [pc EXCEPT ![n] = "stopped"]
    /\ ready' = [ready EXCEPT ![n] = FALSE]
    /\ node_id' = [node_id EXCEPT ![n] = UnassignedId]
    /\ senders' = [senders EXCEPT ![n] = {}]
    /\ UNCHANGED <<receiver, registered, store_rank, call, answers>>

-----------------------------------------------------------------------------

\* The two threads of a process: the receiver thread and the calling thread.
Receiving(n) ==
    \/ n = Coord /\ \E m \in Others : HandleRegister(m)
    \/ HandleAddNode(n) \/ HandleTerminate(n)
    \/ \E m \in Nodes : HandleRequest(n, m) \/ HandleResponse(n, m)

Running(n) ==
    \/ Start(n) \/ StartReturns(n) \/ Stop(n)
    \/ \E s \in Nodes : SendRequest(n, s)
    \/ n = Coord /\ Shutdown

Next ==
    /\ \E n \in Nodes : Receiving(n) \/ Running(n) \/ WaitReadyTimeout(n)
    /\ UNCHANGED faults

Spec == Init /\ [][Next]_vars

\* Started threads do not halt: every process is launched, its receiver thread
\* handles the messages that arrive, its calling thread goes on when it can, and
\* the workers and the coordinator's agent do their work.
Fairness == \A n \in Nodes : WF_state(Receiving(n)) /\ WF_state(Running(n))

FairSpec == Spec /\ Fairness

-----------------------------------------------------------------------------
(***************************************************************************)
(* Properties                                                              *)
(***************************************************************************)

NodeIds == {AssignedId(n) : n \in Nodes}
Sockets == [id : NodeIds, to : Nodes, identity : NodeIds \cup {UnassignedId}]
Messages == [type : {"Register", "AddNode", "Request", "Response", "Terminate"},
             sender : NodeIds \cup {UnassignedId}, rank : Int \cup {NoStore}]

\* Every variable has its type: the ids a process knows, puts on its sockets and
\* waits for are ids the coordinator assigns.
TypeOK ==
    /\ pc \in [Nodes -> {"off", "waiting", "running", "stopping", "stopped", "exited"}]
    /\ receiver \in [Nodes -> {"none", "on", "done", "dead"}]
    /\ ready \in [Nodes -> BOOLEAN]
    /\ node_id \in [Nodes -> NodeIds \cup {UnassignedId}]
    /\ senders \in [Nodes -> SUBSET Sockets]
    /\ registered \subseteq Others
    /\ net \in [Nodes \X Nodes -> Seq(Messages)]
    /\ store_rank \in [Nodes -> Int \cup {NoStore}]
    /\ call \in [Nodes -> NodeIds \cup {NoCall}]
    /\ answers \in [Nodes -> Seq((NodeIds \cup {NoCall}) \X (Int \cup {NoStore}))]

\* A message other than a registration names its sender (the ZeroMQ identity
\* read by ReceiveMessage), and a socket of the receiver leads to that id exactly
\* if it leads to that process: a response goes back to who asked.  No other ids
\* than those the coordinator assigns are in use (TypeOK).
RoutesAgree ==
    /\ TypeOK
    /\ \A m, n \in Nodes : \A i \in 1..Len(net[<<m, n>>]) :
        net[<<m, n>>][i].type # "Register" =>
            /\ net[<<m, n>>][i].sender = AssignedId(m)
            /\ \A s \in senders[n] : s.id = net[<<m, n>>][i].sender <=> s.to = m

\* ready_ is set only in a complete job (CoordinatorHandleAddNode answers the last
\* registration, not an earlier one), and a ready node has a socket to itself
\* and to every node of another role.
ReadyConnected ==
    \A n \in Nodes : ready[n] =>
        /\ registered = Others
        /\ \A m \in Nodes : (m = n \/ RoleOf[m] # RoleOf[n]) =>
              [id |-> AssignedId(m), to |-> m, identity |-> AssignedId(n)] \in senders[n]

\* An answered request was served by the store of the partition the worker meant
\* (PSDefaultAgent creates the store for the rank it has at the first request).
AnsweredByOwner ==
    \A w \in Nodes : \A i \in 1..Len(answers[w]) :
        \E s \in Servers : answers[w][i] = <<AssignedId(s), RankOf(s)>>

\* The one thing that ends a receiver thread by an exception is a request that
\* overtakes the coordinator's AddNode: no duplicate or surplus registration,
\* no response without a socket after that.
OnlyEarlyRequestsKill ==
    \A n \in Nodes : receiver[n] = "dead" =>
        /\ n \in Servers
        /\ node_id[n] = UnassignedId
        /\ "early" \in faults

\* Without faults every Start returns, every request is answered, and then Terminate
\* ends every process: Run returns everywhere.
EveryoneStops == faults = {} => <>[](\A n \in Nodes : pc[n] = "stopped")

=============================================================================

-------------------------- MODULE ActorProcessProofs --------------------------
(***************************************************************************)
(* What holds of every parameter server job, whatever its nodes, hosts,    *)
(* ports and faults (ActorProcess): the ids the coordinator assigns are    *)
(* distinct, so a message is never mistaken for another node's; a node is  *)
(* ready in a complete job only, with every socket it needs; a request is  *)
(* answered by the partition it meant; and nothing but a request that      *)
(* overtakes AddNode ends a receiver thread.                               *)
(***************************************************************************)
EXTENDS ActorProcess, FiniteSetTheorems, TLAPS

-----------------------------------------------------------------------------
(***************************************************************************)
(* The inductive invariant                                                 *)
(***************************************************************************)
(* The nodes a node connects to: itself and those of other roles.           *)
Peers(n) == {m \in Nodes : m = n \/ RoleOf[m] # RoleOf[n]}

(* The sockets of a node that is ready, and those it makes in Start.        *)
Full(n) == {[id |-> AssignedId(m), to |-> m, identity |-> AssignedId(n)] : m \in Peers(n)}
First(n) == {[id |-> CoordinatorNodeId, to |-> Coord,
              identity |-> IF n = Coord THEN CoordinatorNodeId ELSE UnassignedId]}

(* How far the calling thread is fixes the id and the sockets of a node.    *)
Down(n) == pc[n] \in {"off", "stopped"}
SocketInv(n) ==
    /\ Down(n) => ~ready[n] /\ senders[n] = {} /\ node_id[n] = UnassignedId
    /\ ~Down(n) =>
          /\ senders[n] = IF ready[n] THEN Full(n) ELSE First(n)
          /\ node_id[n] = IF n = Coord \/ ready[n] THEN AssignedId(n) ELSE UnassignedId
    /\ pc[n] \in {"running", "stopping"} => ready[n]
    /\ ready[n] => registered = Others
    /\ n \in registered => pc[n] # "off"

(* The receiver thread lives within the life of the process.                *)
ReceiverInv(n) ==
    /\ receiver[n] = "on" => pc[n] \in {"waiting", "running", "stopping"}
    /\ receiver[n] = "dead" => n \in Servers /\ ~ready[n] /\ "early" \in faults

(* A store is that of the node's rank, unless it was made too early: then   *)
(* the thread that made it has ended.                                       *)
StoreInv(n) ==
    /\ store_rank[n] \in {NoStore, RankOf(n)} \/ (receiver[n] # "on" /\ pc[n] # "off")

(* What a message from m to n says of the two.                              *)
GoodMsg(m, n, x) ==
    /\ x \in Messages
    /\ x.type = "Register" => /\ m \in Others /\ n = Coord
                              /\ m \notin registered /\ pc[m] # "off"
    /\ x.type # "Register" => x.sender = AssignedId(m) /\ registered = Others
    /\ x.type = "AddNode" => m = Coord /\ n \in Others
    /\ x.type = "Terminate" => m = Coord
    /\ x.type = "Request" =>
          /\ m \in Workers /\ n \in Servers /\ call[m] = AssignedId(n)
          /\ receiver[n] = "on" /\ "early" \notin faults => ready[n]
    /\ x.type = "Response" =>
          /\ m \in Servers /\ n \in Workers /\ call[n] = AssignedId(m)
          /\ x.rank = RankOf(m)

(* The messages under way from m to n in channels c.                        *)
InFlight(c, m, n) == {c[<<m, n>>][i] : i \in 1..Len(c[<<m, n>>])}

(* Every message under way says what is so.                                 *)
AllGood(c) == \A m, n \in Nodes : \A x \in InFlight(c, m, n) : GoodMsg(m, n, x)

(* Of what is sent once there is one message at most, and a request and its *)
(* response are never both under way.                                       *)
Carries(c, m, n, t) == \E x \in InFlight(c, m, n) : x.type = t
Single == {"Register", "Request", "Response"}
Once(c) ==
    /\ \A m, n \in Nodes : \A t \in Single : \A i, j \in 1..Len(c[<<m, n>>]) :
            c[<<m, n>>][i].type = t /\ c[<<m, n>>][j].type = t => i = j
    /\ \A m, n \in Nodes : ~(Carries(c, m, n, "Request") /\ Carries(c, n, m, "Response"))

(* What holds of one process.                                               *)
NodeInv(n) == SocketInv(n) /\ ReceiverInv(n) /\ StoreInv(n)

(* The invariant: the processes, the messages between them, and what has    *)
(* been answered.  AnsweredByOwner needs the call a response is for, that   *)
(* one needs the sockets, and these need the ids to be distinct.            *)
ActorInv ==
    /\ TypeOK
    /\ \A n \in Nodes : NodeInv(n)
    /\ AllGood(net) /\ Once(net)
    /\ AnsweredByOwner

-----------------------------------------------------------------------------
(***************************************************************************)
(* The numbering of the nodes                                              *)
(***************************************************************************)
(* CoordinatorHandleAddNode sorts by host and port: of two nodes of a role  *)
(* the one that sorts first has the smaller rank.                           *)
LEMMA RankGrows ==
    ASSUME NEW x \in Nodes, NEW y \in Nodes, RoleOf[x] = RoleOf[y], SortsBefore(x, y)
    PROVE  RankOf(x) < RankOf(y)
<1> USE ActorAssumption DEF ActorAssumption
<1> DEFINE Before(n) == {m \in Nodes : RoleOf[m] = RoleOf[n] /\ SortsBefore(m, n)}
<1>1. Before(x) \subseteq Before(y)
  <2> SUFFICES ASSUME NEW m \in Nodes, SortsBefore(m, x) PROVE SortsBefore(m, y)
    OBVIOUS
  <2>1. Host[m] \in Int /\ Host[x] \in Int /\ Host[y] \in Int
        /\ Port[m] \in Int /\ Port[x] \in Int /\ Port[y] \in Int
    OBVIOUS
  <2> QED
    BY <2>1 DEF SortsBefore
<1>2. x \in Before(y) /\ x \notin Before(x)
  <2>1. Host[x] \in Int /\ Port[x] \in Int
    OBVIOUS
  <2> QED
    BY <2>1 DEF SortsBefore
<1>3. IsFiniteSet(Before(x)) /\ IsFiniteSet(Before(y))
  BY FS_Subset
<1>4. Cardinality(Before(x)) <= Cardinality(Before(y))
      /\ (Cardinality(Before(x)) = Cardinality(Before(y)) => Before(x) = Before(y))
  BY <1>1, <1>3, FS_Subset
<1>5. Cardinality(Before(x)) \in Nat /\ Cardinality(Before(y)) \in Nat
  BY <1>3, FS_CardinalityType
<1>6. Cardinality(Before(x)) < Cardinality(Before(y))
  BY <1>2, <1>4, <1>5
<1> QED
  BY <1>6 DEF RankOf

(* A rank counts the nodes of a finite job.                                 *)
LEMMA RanksAreNumbers == \A n \in Nodes : RankOf(n) \in Nat
<1> SUFFICES ASSUME NEW n \in Nodes PROVE RankOf(n) \in Nat
  OBVIOUS
<1>1. IsFiniteSet({m \in Nodes : RoleOf[m] = RoleOf[n] /\ SortsBefore(m, n)})
  BY ActorAssumption, FS_Subset DEF ActorAssumption
<1> QED
  BY <1>1, FS_CardinalityType DEF RankOf

(* No two nodes of a role have one rank: no two are bound to one host and   *)
(* port.                                                                    *)
LEMMA RanksDiffer ==
    ASSUME NEW x \in Nodes, NEW y \in Nodes, RoleOf[x] = RoleOf[y], RankOf(x) = RankOf(y)
    PROVE  x = y
<1>1. Host[x] \in Int /\ Host[y] \in Int /\ Port[x] \in Int /\ Port[y] \in Int
  BY ActorAssumption DEF ActorAssumption
<1>2. SortsBefore(x, y) \/ SortsBefore(y, x) \/ (Host[x] = Host[y] /\ Port[x] = Port[y])
  BY <1>1 DEF SortsBefore
<1>3. ~SortsBefore(x, y) /\ ~SortsBefore(y, x)
  BY RankGrows, RanksAreNumbers
<1> QED
  BY <1>2, <1>3, ActorAssumption DEF ActorAssumption

(* The id of a node, by its role: 9 for the coordinator, 16 times the rank  *)
(* plus the bits of the role and of a single node for the others.           *)
LEMMA IdOf ==
    ASSUME NEW n \in Nodes
    PROVE  /\ n = Coord => AssignedId(n) = 9 /\ n \notin Servers /\ n \notin Workers
           /\ n # Coord => \/ n \in Servers /\ AssignedId(n) = RankOf(n) * 16 + 10
                           \/ n \in Workers /\ AssignedId(n) = RankOf(n) * 16 + 12
           /\ RankOf(n) \in Nat
           /\ AssignedId(n) \in Nat /\ AssignedId(n) # UnassignedId
<1> USE ActorAssumption DEF ActorAssumption, AssignedId, CoordinatorNodeId, RankToNodeId, NodeIdTag,
                            RoleBit, SingleNodeIdTag, Servers, Workers, UnassignedId
<1>1. RankOf(n) \in Nat
  BY RanksAreNumbers
<1>2. CASE n = Coord
  BY <1>1, <1>2
<1>3. CASE n # Coord
  <2>1. RoleOf[n] \in {"Server", "Worker"}
    BY <1>3 DEF Roles
  <2>2. CASE RoleOf[n] = "Server"
    BY <1>1, <1>3, <2>2
  <2>3. CASE RoleOf[n] = "Worker"
    BY <1>1, <1>3, <2>3
  <2> QED
    BY <2>1, <2>2, <2>3
<1> QED
  BY <1>2, <1>3

(* AssignedId tells any two nodes of the job apart.                         *)
LEMMA IdsDiffer ==
    ASSUME NEW m \in Nodes, NEW n \in Nodes, AssignedId(m) = AssignedId(n) PROVE m = n
<1>1. RankOf(m) \in Nat /\ RankOf(n) \in Nat
  BY IdOf
<1>2. CASE m = Coord \/ n = Coord
  BY <1>1, <1>2, IdOf
<1>3. CASE m \in Servers /\ n \in Servers
  <2>1. RankOf(m) = RankOf(n)
    BY <1>1, <1>3, IdOf
  <2> QED
    BY <1>3, <2>1, RanksDiffer DEF Servers
<1>4. CASE m \in Workers /\ n \in Workers
  <2>1. RankOf(m) = RankOf(n)
    BY <1>1, <1>4, IdOf
  <2> QED
    BY <1>4, <2>1, RanksDiffer DEF Workers
<1>5. CASE /\ m # Coord /\ n # Coord
           /\ (m \in Servers /\ n \in Workers) \/ (m \in Workers /\ n \in Servers)
  <2>1. m \in Servers => m \notin Workers
    BY DEF Servers, Workers
  <2>2. n \in Servers => n \notin Workers
    BY DEF Servers, Workers
  <2>3. RankOf(m) * 16 + 10 # RankOf(n) * 16 + 12 /\ RankOf(m) * 16 + 12 # RankOf(n) * 16 + 10
    BY <1>1
  <2> QED
    BY <1>5, <2>1, <2>2, <2>3, IdOf
<1> QED
  BY <1>2, <1>3, <1>4, <1>5, IdOf

(* A node with an id other than the coordinator has its rank in it.         *)
LEMMA RankOfId ==
    ASSUME NEW n \in Servers PROVE NodeIdToRank(AssignedId(n)) = RankOf(n)
<1>1. n \in Nodes /\ n # Coord /\ n \notin Workers
  BY ActorAssumption DEF ActorAssumption, Servers, Workers
<1>2. RankOf(n) \in Nat /\ AssignedId(n) = RankOf(n) * 16 + 10
  BY <1>1, IdOf
<1>3. \A r \in Nat : (r * 16 + 10) \div 16 = r
  OBVIOUS
<1> QED
  BY <1>2, <1>3 DEF NodeIdToRank

-----------------------------------------------------------------------------
(***************************************************************************)
(* The sockets                                                             *)
(***************************************************************************)
(* What Connect makes of a node without sockets: one to the node it is      *)
(* given, or none to another node of its role.                              *)
LEMMA ConnectOne ==
    ASSUME NEW n \in Nodes, NEW m \in Nodes, NEW a
    PROVE  Connect({}, n, m, a, AssignedId(m)) =
              IF RoleOf[m] = RoleOf[n] /\ AssignedId(m) # a THEN {}
              ELSE {[id |-> AssignedId(m), to |-> m, identity |-> a]}
  BY DEF Connect, SkipsPeer

(* The list of all nodes gives a node the sockets it needs, and no other.   *)
LEMMA ConnectedFull ==
    ASSUME NEW n \in Nodes PROVE ConnectAll(n, AssignedId(n)) = Full(n)
<1>1. ASSUME NEW m \in Nodes
      PROVE  Connect({}, n, m, AssignedId(n), AssignedId(m)) =
                IF m \in Peers(n)
                THEN {[id |-> AssignedId(m), to |-> m, identity |-> AssignedId(n)]} ELSE {}
  BY ConnectOne, IdsDiffer DEF Peers
<1>2. ASSUME NEW s, s \in ConnectAll(n, AssignedId(n)) PROVE s \in Full(n)
  <2>1. PICK m \in Nodes : s \in Connect({}, n, m, AssignedId(n), AssignedId(m))
    BY <1>2 DEF ConnectAll
  <2>2. m \in Peers(n) /\ s = [id |-> AssignedId(m), to |-> m, identity |-> AssignedId(n)]
    BY <1>1, <2>1
  <2> QED
    BY <2>2 DEF Full
<1>3. ASSUME NEW s, s \in Full(n) PROVE s \in ConnectAll(n, AssignedId(n))
  <2>1. PICK m \in Peers(n) : s = [id |-> AssignedId(m), to |-> m, identity |-> AssignedId(n)]
    BY <1>3 DEF Full
  <2>2. m \in Nodes /\ s \in Connect({}, n, m, AssignedId(n), AssignedId(m))
    BY <1>1, <2>1 DEF Peers
  <2> QED
    BY <2>2 DEF ConnectAll
<1> QED
  BY <1>2, <1>3

(* Start makes the one socket to the coordinator.                           *)
LEMMA StartSockets ==
    ASSUME NEW n \in Nodes,
           NEW a, a = IF n = Coord THEN CoordinatorNodeId ELSE UnassignedId
    PROVE  Connect({}, n, Coord, a, CoordinatorNodeId) = First(n)
<1>1. Coord \in Nodes /\ AssignedId(Coord) = CoordinatorNodeId
  BY ActorAssumption DEF ActorAssumption, AssignedId
<1>2. n # Coord => RoleOf[n] # RoleOf[Coord]
  BY ActorAssumption DEF ActorAssumption
<1> QED
  BY <1>1, <1>2, ConnectOne DEF First

(* The coordinator has its own socket from Start and makes the others when  *)
(* the last node has registered.                                            *)
LEMMA CoordinatorSockets ==
    LET socks == UNION {Connect({}, Coord, k, CoordinatorNodeId, AssignedId(k)) : k \in Others}
    IN  /\ First(Coord) \cup socks = Full(Coord)
        /\ socks = {[id |-> AssignedId(k), to |-> k, identity |-> CoordinatorNodeId] : k \in Others}
<1>1. Coord \in Nodes /\ AssignedId(Coord) = CoordinatorNodeId
  BY ActorAssumption DEF ActorAssumption, AssignedId
<1>2. \A k \in Others : k \in Nodes /\ RoleOf[k] # RoleOf[Coord]
  BY ActorAssumption DEF ActorAssumption, Others
<1>3. \A k \in Others : Connect({}, Coord, k, CoordinatorNodeId, AssignedId(k)) =
                          {[id |-> AssignedId(k), to |-> k, identity |-> CoordinatorNodeId]}
  BY <1>1, <1>2, ConnectOne
<1>4. Peers(Coord) = {Coord} \cup Others
  BY <1>1, <1>2 DEF Peers, Others
<1> DEFINE Sock(k) == [id |-> AssignedId(k), to |-> k, identity |-> CoordinatorNodeId]
<1>5. First(Coord) = {Sock(Coord)}
  BY <1>1 DEF First
<1>6. UNION {Connect({}, Coord, k, CoordinatorNodeId, AssignedId(k)) : k \in Others}
        = {Sock(k) : k \in Others}
  BY <1>3
<1>7. Full(Coord) = {Sock(k) : k \in {Coord} \cup Others}
  BY <1>1, <1>4 DEF Full
<1> QED
  BY <1>5, <1>6, <1>7

-----------------------------------------------------------------------------
(***************************************************************************)
(* The channels                                                            *)
(***************************************************************************)
(* The type of net, of which the lemmas below speak by itself.              *)
Channels == [Nodes \X Nodes -> Seq(Messages)]

(* d has of every channel of c the beginning, or all but the first message. *)
Shrunk(c, d) ==
    \A m, n \in Nodes : \E k \in {0, 1} : \A i \in 1..Len(d[<<m, n>>]) :
        i + k \in 1..Len(c[<<m, n>>]) /\ d[<<m, n>>][i] = c[<<m, n>>][i + k]

(* What is left of the channels holds no message that was not there, and    *)
(* none of what is sent once a second time.                                 *)
LEMMA ShrunkOK ==
    ASSUME NEW c \in Channels, NEW d \in Channels, Shrunk(c, d), Once(c)
    PROVE  /\ Once(d)
           /\ \A m, n \in Nodes : InFlight(d, m, n) \subseteq InFlight(c, m, n)
<1>0. \A m, n \in Nodes : Len(c[<<m, n>>]) \in Nat /\ Len(d[<<m, n>>]) \in Nat
  BY DEF Channels
<1>1. \A m, n \in Nodes : InFlight(d, m, n) \subseteq InFlight(c, m, n)
  BY DEF InFlight, Shrunk
<1>2. \A m, n \in Nodes : \A t : Carries(d, m, n, t) => Carries(c, m, n, t)
  BY <1>1 DEF Carries
<1>3. Once(d)
  <2>1. ASSUME NEW m \in Nodes, NEW n \in Nodes, NEW t \in Single,
               NEW i \in 1..Len(d[<<m, n>>]), NEW j \in 1..Len(d[<<m, n>>]),
               d[<<m, n>>][i].type = t, d[<<m, n>>][j].type = t
        PROVE  i = j
    <3>1. PICK k \in {0, 1} : \A h \in 1..Len(d[<<m, n>>]) :
                h + k \in 1..Len(c[<<m, n>>]) /\ d[<<m, n>>][h] = c[<<m, n>>][h + k]
      BY DEF Shrunk
    <3>2. i + k = j + k
      <4>1. /\ i + k \in 1..Len(c[<<m, n>>]) /\ j + k \in 1..Len(c[<<m, n>>])
            /\ c[<<m, n>>][i + k].type = t /\ c[<<m, n>>][j + k].type = t
        BY <2>1, <3>1
      <4> QED
        BY <4>1 DEF Once
    <3> QED
      BY <1>0, <3>1, <3>2
  <2> QED
    BY <1>2, <2>1 DEF Once
<1> QED
  BY <1>1, <1>3

(* A message taken from a channel was there; if it is of those sent once    *)
(* there is no other left.                                                  *)
LEMMA PopOK ==
    ASSUME NEW c \in Channels, NEW m \in Nodes, NEW n \in Nodes, c[<<m, n>>] # <<>>, Once(c)
    PROVE  /\ Pop(c, m, n) \in Channels /\ Once(Pop(c, m, n))
           /\ \A p, q \in Nodes : InFlight(Pop(c, m, n), p, q) \subseteq InFlight(c, p, q)
           /\ Head(c[<<m, n>>]) \in InFlight(c, m, n)
           /\ Head(c[<<m, n>>]).type \in Single =>
                \A x \in InFlight(Pop(c, m, n), m, n) : x.type # Head(c[<<m, n>>]).type
<1> DEFINE d == Pop(c, m, n)
<1>0. <<m, n>> \in Nodes \X Nodes /\ c[<<m, n>>] \in Seq(Messages)
  BY DEF Channels
<1>1. /\ Tail(c[<<m, n>>]) \in Seq(Messages) /\ Len(Tail(c[<<m, n>>])) = Len(c[<<m, n>>]) - 1
      /\ Len(c[<<m, n>>]) \in Nat /\ Len(c[<<m, n>>]) >= 1 /\ Head(c[<<m, n>>]) = c[<<m, n>>][1]
      /\ \A i \in 1..(Len(c[<<m, n>>]) - 1) : Tail(c[<<m, n>>])[i] = c[<<m, n>>][i + 1]
  BY <1>0
<1>2. d \in Channels /\ d[<<m, n>>] = Tail(c[<<m, n>>])
  BY <1>0, <1>1 DEF Channels, Pop
<1>3. \A p, q \in Nodes : (p # m \/ q # n) => d[<<p, q>>] = c[<<p, q>>]
  BY <1>0 DEF Channels, Pop
<1>4. Shrunk(c, d)
  <2> SUFFICES ASSUME NEW p \in Nodes, NEW q \in Nodes
               PROVE  \E k \in {0, 1} : \A i \in 1..Len(d[<<p, q>>]) :
                        i + k \in 1..Len(c[<<p, q>>]) /\ d[<<p, q>>][i] = c[<<p, q>>][i + k]
    BY DEF Shrunk
  <2>1. CASE p = m /\ q = n
    <3>1. \A i \in 1..Len(d[<<p, q>>]) :
            i + 1 \in 1..Len(c[<<p, q>>]) /\ d[<<p, q>>][i] = c[<<p, q>>][i + 1]
      <4> SUFFICES ASSUME NEW i \in 1..(Len(c[<<m, n>>]) - 1)
                   PROVE  i + 1 \in 1..Len(c[<<m, n>>]) /\ d[<<m, n>>][i] = c[<<m, n>>][i + 1]
        BY <1>1, <1>2, <2>1
      <4> QED
        BY <1>1, <1>2
    <3> QED
      BY <3>1
  <2>2. CASE p # m \/ q # n
    <3>1. d[<<p, q>>] = c[<<p, q>>]
      BY <1>3, <2>2
    <3>2. Len(c[<<p, q>>]) \in Nat
      BY DEF Channels
    <3>3. \A i \in 1..Len(d[<<p, q>>]) :
            i + 0 \in 1..Len(c[<<p, q>>]) /\ d[<<p, q>>][i] = c[<<p, q>>][i + 0]
      BY <3>1, <3>2
    <3> QED
      BY <3>3
  <2> QED
    BY <2>1, <2>2
<1>5. Once(d) /\ \A p, q \in Nodes : InFlight(d, p, q) \subseteq InFlight(c, p, q)
  BY <1>2, <1>4, ShrunkOK
<1>6. ASSUME Head(c[<<m, n>>]).type \in Single
      PROVE  \A x \in InFlight(d, m, n) : x.type # Head(c[<<m, n>>]).type
  <2> SUFFICES ASSUME NEW i \in 1..Len(d[<<m, n>>]), d[<<m, n>>][i].type = Head(c[<<m, n>>]).type
               PROVE  FALSE
    BY DEF InFlight
  <2>1. /\ i + 1 \in 1..Len(c[<<m, n>>]) /\ 1 \in 1..Len(c[<<m, n>>])
        /\ c[<<m, n>>][i + 1].type = c[<<m, n>>][1].type
    BY <1>1, <1>2
  <2>2. i + 1 = 1
    BY <1>1, <1>6, <2>1 DEF Once
  <2> QED
    BY <1>1, <1>2, <2>2
<1>7. 1 \in 1..Len(c[<<m, n>>])
  BY <1>1
<1>8. Head(c[<<m, n>>]) \in InFlight(c, m, n)
  BY <1>1, <1>7 DEF InFlight
<1> QED
  BY <1>2, <1>5, <1>6, <1>8

(* Sockets that are closed with ZMQ_LINGER 0 lose messages and add none.    *)
LEMMA FlushOK ==
    ASSUME NEW n \in Nodes, net \in Channels, Once(net), NEW d \in Flushed(n)
    PROVE  /\ d \in Channels /\ Once(d)
           /\ \A p, q \in Nodes : InFlight(d, p, q) \subseteq InFlight(net, p, q)
<1>0. \A p, q \in Nodes : net[<<p, q>>] \in Seq(Messages) /\ Len(net[<<p, q>>]) \in Nat
  BY DEF Channels
<1>1. CASE "linger" \notin faults
  BY <1>1 DEF Flushed
<1>2. CASE "linger" \in faults
  <2>1. PICK kept \in [Nodes -> UNION {0..Len(net[<<n, m>>]) : m \in Nodes}] :
            /\ \A m \in Nodes : kept[m] <= Len(net[<<n, m>>])
            /\ d = [p \in Nodes \X Nodes |->
                      IF p[1] = n THEN SubSeq(net[p], 1, kept[p[2]]) ELSE net[p]]
    BY <1>2 DEF Flushed
  <2>2. ASSUME NEW m \in Nodes PROVE kept[m] \in 0..Len(net[<<n, m>>])
    <3>1. kept[m] \in UNION {0..Len(net[<<n, k>>]) : k \in Nodes}
      OBVIOUS
    <3>2. PICK k \in Nodes : kept[m] \in 0..Len(net[<<n, k>>])
      BY <3>1
    <3> QED
      BY <1>0, <2>1, <3>2
  <2>3. ASSUME NEW p \in Nodes, NEW q \in Nodes
        PROVE  /\ d[<<p, q>>] \in Seq(Messages)
               /\ \A i \in 1..Len(d[<<p, q>>]) :
                    i + 0 \in 1..Len(net[<<p, q>>]) /\ d[<<p, q>>][i] = net[<<p, q>>][i + 0]
    <3>1. <<p, q>> \in Nodes \X Nodes /\ <<p, q>>[1] = p /\ <<p, q>>[2] = q
      OBVIOUS
    <3>2. CASE p # n
      <4>1. d[<<p, q>>] = net[<<p, q>>]
        BY <2>1, <3>1, <3>2
      <4> QED
        BY <1>0, <4>1
    <3>3. CASE p = n
      <4>1. d[<<p, q>>] = SubSeq(net[<<p, q>>], 1, kept[q])
        BY <2>1, <3>1, <3>3
      <4>2. kept[q] \in 0..Len(net[<<p, q>>])
        BY <2>2, <3>3
      <4>3. d[<<p, q>>] \in Seq(Messages) /\ Len(d[<<p, q>>]) = kept[q]
        BY <1>0, <4>1, <4>2
      <4>4. \A i \in 1..kept[q] : d[<<p, q>>][i] = net[<<p, q>>][i]
        BY <1>0, <4>1, <4>2
      <4>5. \A i \in 1..kept[q] : i + 0 = i /\ i \in 1..Len(net[<<p, q>>])
        BY <1>0, <4>2
      <4> QED
        BY <4>3, <4>4, <4>5
    <3> QED
      BY <3>2, <3>3
  <2>4. d \in Channels
    <3>1. \A p \in Nodes \X Nodes : d[p] \in Seq(Messages)
      <4> SUFFICES ASSUME NEW p \in Nodes \X Nodes PROVE d[p] \in Seq(Messages)
        OBVIOUS
      <4>1. p = <<p[1], p[2]>> /\ p[1] \in Nodes /\ p[2] \in Nodes
        OBVIOUS
      <4> QED
        BY <2>3, <4>1
    <3> QED
      BY <2>1, <3>1 DEF Channels
  <2>5. Shrunk(net, d)
    BY <2>3 DEF Shrunk
  <2> QED
    BY <2>4, <2>5, ShrunkOK
<1> QED
  BY <1>1, <1>2

(* One message x from n to each node of K.                                  *)
Sent(c, n, K, x) ==
    [p \in Nodes \X Nodes |-> IF p[1] = n /\ p[2] \in K THEN Append(c[p], x) ELSE c[p]]

(* The sockets carry identity a, and lead to the nodes of K.                *)
Signed(socks, a) == \A s \in socks : s.identity = a
Leads(socks, K) == \A k \in Nodes : k \in K <=> \E s \in socks : s.to = k

(* SendOver sends one message, under the identity of its sockets, to each   *)
(* node they lead to.                                                       *)
LEMMA SentOver ==
    ASSUME NEW n \in Nodes, NEW socks, NEW a, Signed(socks, a), NEW K, Leads(socks, K),
           NEW t, NEW r
    PROVE  SendOver(n, socks, t, r) = Sent(net, n, K, [type |-> t, sender |-> a, rank |-> r])
<1>1. ASSUME NEW p \in Nodes \X Nodes, p[2] \in K
      PROVE  Msg(t, CHOOSE s \in socks : s.to = p[2], r) = [type |-> t, sender |-> a, rank |-> r]
  <2>1. p[2] \in Nodes
    OBVIOUS
  <2>2. \E s \in socks : s.to = p[2]
    BY <1>1, <2>1 DEF Leads
  <2>3. (CHOOSE s \in socks : s.to = p[2]) \in socks
    BY <2>2
  <2> QED
    BY <2>3 DEF Msg, Signed
<1>2. \A p \in Nodes \X Nodes : p[2] \in Nodes
  OBVIOUS
<1> QED
  BY <1>1, <1>2 DEF SendOver, Sent, Leads

(* A message that is not under way already can be sent: the channels gain   *)
(* it and nothing else.                                                     *)
LEMMA SentOK ==
    ASSUME NEW c \in Channels, Once(c), NEW n \in Nodes, NEW K \in SUBSET Nodes,
           NEW x \in Messages,
           x.type \in Single => \A k \in K : ~Carries(c, n, k, x.type),
           x.type = "Request" => \A k \in K : ~Carries(c, k, n, "Response"),
           x.type = "Response" => \A k \in K : ~Carries(c, k, n, "Request")
    PROVE  /\ Sent(c, n, K, x) \in Channels /\ Once(Sent(c, n, K, x))
           /\ \A p, q \in Nodes : \A y \in InFlight(Sent(c, n, K, x), p, q) :
                y \in InFlight(c, p, q) \/ (p = n /\ q \in K /\ y = x)
<1> DEFINE d == Sent(c, n, K, x)
<1>0. \A p, q \in Nodes : c[<<p, q>>] \in Seq(Messages) /\ Len(c[<<p, q>>]) \in Nat
  BY DEF Channels
<1>1. ASSUME NEW p \in Nodes, NEW q \in Nodes
      PROVE  /\ p = n /\ q \in K =>
                  /\ Len(d[<<p, q>>]) = Len(c[<<p, q>>]) + 1
                  /\ \A i \in 1..Len(c[<<p, q>>]) : d[<<p, q>>][i] = c[<<p, q>>][i]
                  /\ d[<<p, q>>][Len(c[<<p, q>>]) + 1] = x
             /\ ~(p = n /\ q \in K) => d[<<p, q>>] = c[<<p, q>>]
             /\ d[<<p, q>>] \in Seq(Messages)
  <2>1. d[<<p, q>>] = IF p = n /\ q \in K THEN Append(c[<<p, q>>], x) ELSE c[<<p, q>>]
    BY DEF Sent
  <2> QED
    BY <1>0, <2>1
<1>2. d \in Channels
  <2>1. \A p \in Nodes \X Nodes : c[p] \in Seq(Messages)
    BY DEF Channels
  <2> QED
    BY <2>1 DEF Channels, Sent
<1>3. ASSUME NEW p \in Nodes, NEW q \in Nodes, NEW i \in 1..Len(d[<<p, q>>])
      PROVE  \/ i \in 1..Len(c[<<p, q>>]) /\ d[<<p, q>>][i] = c[<<p, q>>][i]
             \/ p = n /\ q \in K /\ i = Len(c[<<p, q>>]) + 1 /\ d[<<p, q>>][i] = x
  <2>1. CASE p = n /\ q \in K
    BY <1>0, <1>1, <2>1
  <2>2. CASE ~(p = n /\ q \in K)
    BY <1>1, <2>2
  <2> QED
    BY <2>1, <2>2
<1> HIDE DEF d
<1>4. \A p, q \in Nodes : \A y \in InFlight(d, p, q) :
        y \in InFlight(c, p, q) \/ (p = n /\ q \in K /\ y = x)
  <2> SUFFICES ASSUME NEW p \in Nodes, NEW q \in Nodes, NEW i \in 1..Len(d[<<p, q>>])
               PROVE  d[<<p, q>>][i] \in InFlight(c, p, q) \/ (p = n /\ q \in K /\ d[<<p, q>>][i] = x)
    BY DEF InFlight
  <2> QED
    BY <1>3 DEF InFlight
<1>5. \A p, q \in Nodes : \A t :
        Carries(d, p, q, t) => Carries(c, p, q, t) \/ (p = n /\ q \in K /\ t = x.type)
  BY <1>4 DEF Carries
<1>6. ASSUME NEW p \in Nodes, NEW q \in Nodes, NEW t \in Single,
             NEW i \in 1..Len(d[<<p, q>>]), NEW j \in 1..Len(d[<<p, q>>]),
             d[<<p, q>>][i].type = t, d[<<p, q>>][j].type = t
      PROVE  i = j
  <2>1. CASE i \in 1..Len(c[<<p, q>>]) /\ j \in 1..Len(c[<<p, q>>])
    <3>1. d[<<p, q>>][i] = c[<<p, q>>][i] /\ d[<<p, q>>][j] = c[<<p, q>>][j]
      BY <1>0, <1>3, <2>1
    <3>2. c[<<p, q>>][i].type = t /\ c[<<p, q>>][j].type = t
      BY <1>6, <3>1
    <3> QED
      BY <2>1, <3>2 DEF Once
  <2>2. CASE i \notin 1..Len(c[<<p, q>>])
    <3>1. p = n /\ q \in K /\ i = Len(c[<<p, q>>]) + 1 /\ x.type = t
      BY <1>3, <1>6, <2>2
    <3>2. ~Carries(c, p, q, t)
      BY <3>1
    <3>3. j \notin 1..Len(c[<<p, q>>])
      <4> SUFFICES ASSUME j \in 1..Len(c[<<p, q>>]) PROVE FALSE
        OBVIOUS
      <4>1. d[<<p, q>>][j] = c[<<p, q>>][j]
        BY <1>0, <1>3
      <4> QED
        BY <1>6, <3>2, <4>1 DEF Carries, InFlight
    <3> QED
      BY <1>3, <3>1, <3>3
  <2>3. CASE j \notin 1..Len(c[<<p, q>>])
    <3>1. p = n /\ q \in K /\ j = Len(c[<<p, q>>]) + 1 /\ x.type = t
      BY <1>3, <1>6, <2>3
    <3>2. ~Carries(c, p, q, t)
      BY <3>1
    <3>3. i \notin 1..Len(c[<<p, q>>])
      <4> SUFFICES ASSUME i \in 1..Len(c[<<p, q>>]) PROVE FALSE
        OBVIOUS
      <4>1. d[<<p, q>>][i] = c[<<p, q>>][i]
        BY <1>0, <1>3
      <4> QED
        BY <1>6, <3>2, <4>1 DEF Carries, InFlight
    <3> QED
      BY <1>3, <3>1, <3>3
  <2> QED
    BY <2>1, <2>2, <2>3
<1>7. \A p, q \in Nodes : ~(Carries(d, p, q, "Request") /\ Carries(d, q, p, "Response"))
  BY <1>5 DEF Once
<1>8. Once(d)
  BY <1>6, <1>7 DEF Once
<1> QED
  BY <1>2, <1>4, <1>8 DEF d

(* What is sent from n and what is taken from another node's channel do not *)
(* meet.                                                                    *)
LEMMA PopSent ==
    ASSUME NEW c \in Channels, NEW n \in Nodes, NEW K, NEW x,
           NEW m \in Nodes, NEW q \in Nodes, m # n
    PROVE  Pop(Sent(c, n, K, x), m, q) = Sent(Pop(c, m, q), n, K, x)
<1>1. <<m, q>> \in Nodes \X Nodes /\ <<m, q>>[1] = m
  OBVIOUS
<1>2. Sent(c, n, K, x)[<<m, q>>] = c[<<m, q>>]
  BY <1>1 DEF Sent
<1>3. ASSUME NEW p \in Nodes \X Nodes
      PROVE  Pop(Sent(c, n, K, x), m, q)[p] = Sent(Pop(c, m, q), n, K, x)[p]
  <2>1. CASE p = <<m, q>>
    BY <1>1, <1>2, <2>1 DEF Pop, Sent, Channels
  <2>2. CASE p # <<m, q>>
    BY <2>2 DEF Pop, Sent, Channels
  <2> QED
    BY <2>1, <2>2
<1> QED
  BY <1>3 DEF Pop, Sent

-----------------------------------------------------------------------------
(***************************************************************************)
(* What a step leaves alone                                                *)
(***************************************************************************)
(* A step does not touch process q.                                         *)
Same(q) ==
    /\ pc'[q] = pc[q] /\ receiver'[q] = receiver[q] /\ ready'[q] = ready[q]
    /\ node_id'[q] = node_id[q] /\ senders'[q] = senders[q] /\ store_rank'[q] = store_rank[q]

(* What holds of a process a step does not touch still holds, whoever has   *)
(* registered meanwhile.                                                    *)
LEMMA NodeKept ==
    ASSUME NEW q \in Nodes, NodeInv(q), Same(q), UNCHANGED faults,
           registered = Others => registered' = Others,
           q \in registered' => pc[q] # "off"
    PROVE  NodeInv(q)'
<1>1. SocketInv(q)'
  BY DEF NodeInv, SocketInv, Same, Down
<1>2. ReceiverInv(q)' /\ StoreInv(q)'
  BY DEF NodeInv, ReceiverInv, StoreInv, Same
<1> QED
  BY <1>1, <1>2 DEF NodeInv

(* What a message says still holds if the step registers neither its sender *)
(* nor ends its call.                                                       *)
LEMMA MsgKept ==
    ASSUME NEW m \in Nodes, NEW n \in Nodes, NEW x, GoodMsg(m, n, x), UNCHANGED faults,
           registered = Others => registered' = Others,
           x.type = "Register" => m \notin registered' /\ pc'[m] # "off",
           x.type = "Request" =>
              /\ call'[m] = call[m]
              /\ receiver'[n] = "on" => receiver[n] = "on" /\ (ready[n] => ready'[n]),
           x.type = "Response" => call'[n] = call[n]
    PROVE  GoodMsg(m, n, x)'
  BY DEF GoodMsg

(* A step that sends nothing and changes neither who is registered nor      *)
(* what is called.                                                          *)
LEMMA NetKept ==
    ASSUME AllGood(net), UNCHANGED <<faults, registered, call>>,
           \A m, n \in Nodes : InFlight(net', m, n) \subseteq InFlight(net, m, n),
           \A n \in Nodes : pc[n] # "off" => pc'[n] # "off",
           \A n \in Nodes : receiver'[n] = "on" => receiver[n] = "on" /\ (ready[n] => ready'[n])
    PROVE  AllGood(net)'
<1> SUFFICES ASSUME NEW m \in Nodes, NEW n \in Nodes, NEW x \in InFlight(net', m, n)
             PROVE  GoodMsg(m, n, x)'
  BY DEF AllGood, InFlight
<1>1. GoodMsg(m, n, x)
  BY DEF AllGood
<1>2. x.type = "Register" => m \notin registered' /\ pc'[m] # "off"
  BY <1>1 DEF GoodMsg
<1> QED
  BY <1>1, <1>2, MsgKept

(* The sockets a process has are sockets by type, under ids of the job.     *)
LEMMA SocketFacts ==
    ASSUME NEW n \in Nodes
    PROVE  /\ Full(n) \subseteq Sockets /\ First(n) \subseteq Sockets
           /\ \A s \in Full(n) : /\ s.to \in Peers(n) /\ s.id = AssignedId(s.to)
                                 /\ s.identity = AssignedId(n)
           /\ \A m \in Peers(n) :
                [id |-> AssignedId(m), to |-> m, identity |-> AssignedId(n)] \in Full(n)
           /\ \A s \in First(n) : /\ s.to = Coord /\ s.id = AssignedId(Coord)
                                  /\ s.identity = IF n = Coord THEN CoordinatorNodeId
                                                  ELSE UnassignedId
           /\ AssignedId(n) \in NodeIds /\ Coord \in Nodes
           /\ AssignedId(Coord) = CoordinatorNodeId /\ CoordinatorNodeId \in NodeIds
<1>1. Coord \in Nodes /\ AssignedId(Coord) = CoordinatorNodeId
  BY ActorAssumption DEF ActorAssumption, AssignedId
<1>2. \A m \in Nodes : AssignedId(m) \in NodeIds
  BY DEF NodeIds
<1>3. Peers(n) \subseteq Nodes
  BY DEF Peers
<1>4. Full(n) \subseteq Sockets
  BY <1>2, <1>3 DEF Full, Sockets
<1>5. First(n) \subseteq Sockets
  BY <1>1, <1>2 DEF First, Sockets
<1> QED
  BY <1>1, <1>2, <1>4, <1>5 DEF Full, First

(* SocketTo finds the socket of a ready node that leads to the peer with    *)
(* that id.                                                                 *)
LEMMA FoundSocket ==
    ASSUME NEW n \in Nodes, NEW m \in Peers(n), senders[n] = Full(n)
    PROVE  /\ HasSocket(n, AssignedId(m))
           /\ SocketTo(n, AssignedId(m)) =
                [id |-> AssignedId(m), to |-> m, identity |-> AssignedId(n)]
<1> DEFINE s0 == [id |-> AssignedId(m), to |-> m, identity |-> AssignedId(n)]
<1>1. s0 \in senders[n] /\ s0.id = AssignedId(m)
  BY SocketFacts
<1>2. ASSUME NEW s \in senders[n], s.id = AssignedId(m) PROVE s = s0
  <2>1. PICK k \in Peers(n) : s = [id |-> AssignedId(k), to |-> k, identity |-> AssignedId(n)]
    BY DEF Full
  <2>2. k = m
    BY <1>2, <2>1, IdsDiffer DEF Peers
  <2> QED
    BY <2>1, <2>2
<1> QED
  BY <1>1, <1>2 DEF HasSocket, SocketTo

(* Servers, workers and the coordinator are different nodes, and each is a  *)
(* peer of the other roles.                                                 *)
LEMMA ServerFacts ==
    /\ \A n \in Servers : n \in Nodes /\ n # Coord /\ n \in Others /\ n \notin Workers
    /\ \A n \in Workers : n \in Nodes /\ n # Coord /\ n \in Others /\ n \notin Servers
    /\ \A s \in Servers, w \in Workers : w \in Peers(s) /\ s \in Peers(w) /\ s # w
    /\ \A n \in Others : n \in Nodes /\ n # Coord
    /\ Coord \in Nodes /\ \A n \in Nodes : n \in Peers(n)
  BY ActorAssumption DEF ActorAssumption, Servers, Workers, Others, Peers

(* CoordinatorHandleAddNode compares two counts: they agree exactly if      *)
(* every node has registered.                                               *)
LEMMA AllAreRegistered ==
    ASSUME NEW R \in SUBSET Others PROVE AllRegistered(R) <=> R = Others
<1>1. IsFiniteSet(Others)
  BY ActorAssumption, FS_Subset DEF ActorAssumption, Others
<1>2. R \subseteq Others /\ (Cardinality(R) = Cardinality(Others) => R = Others)
  BY <1>1, FS_Subset
<1> QED
  BY <1>2 DEF AllRegistered

-----------------------------------------------------------------------------
(***************************************************************************)
(* The invariant holds at the start, and every step keeps it               *)
(***************************************************************************)
(* Before any process is started nothing is under way.                      *)
LEMMA ActorInitial == Init => ActorInv
<1> SUFFICES ASSUME Init PROVE ActorInv
  OBVIOUS
<1> USE DEF Init
<1>1. TypeOK
  BY DEF TypeOK
<1>2. ASSUME NEW n \in Nodes PROVE NodeInv(n)
  BY DEF NodeInv, SocketInv, ReceiverInv, StoreInv, Down
<1>3. \A m, n \in Nodes : net[<<m, n>>] = <<>> /\ InFlight(net, m, n) = {}
  BY DEF InFlight
<1>4. AllGood(net)
  BY <1>3 DEF AllGood
<1>5. Once(net)
  <2>1. \A m, n \in Nodes : Len(net[<<m, n>>]) = 0
    BY <1>3
  <2>2. ASSUME NEW m \in Nodes, NEW n \in Nodes, NEW i \in 1..Len(net[<<m, n>>]) PROVE FALSE
    BY <2>1, <2>2
  <2>3. ASSUME NEW m \in Nodes, NEW n \in Nodes PROVE ~Carries(net, m, n, "Request")
    BY <1>3 DEF Carries
  <2> QED
    BY <2>2, <2>3 DEF Once
<1>6. AnsweredByOwner
  BY DEF AnsweredByOwner
<1> QED
  BY <1>1, <1>2, <1>4, <1>5, <1>6 DEF ActorInv

(* Start: the process is waiting, with the sockets of Start, and its        *)
(* registration is the only one under way from it.                          *)
LEMMA StartKept ==
    ASSUME ActorInv, UNCHANGED faults, NEW n \in Nodes, Start(n) PROVE ActorInv'
<1> USE DEF ActorInv, Start
<1>0. /\ net \in Channels /\ NodeInv(n) /\ pc[n] = "off" /\ ~ready[n]
      /\ n \notin registered /\ UNCHANGED <<ready, registered, store_rank, call, answers>>
  BY DEF TypeOK, Channels, NodeInv, SocketInv, Down
<1> DEFINE a == IF n = Coord THEN CoordinatorNodeId ELSE UnassignedId
<1>1. /\ node_id' = [node_id EXCEPT ![n] = a]
      /\ senders' = [senders EXCEPT ![n] = First(n)]
      /\ net' = IF n = Coord THEN net ELSE SendOver(n, First(n), "Register", NoStore)
  BY StartSockets
<1> DEFINE x == [type |-> "Register", sender |-> UnassignedId, rank |-> NoStore]
<1>2. ASSUME n # Coord PROVE net' = Sent(net, n, {Coord}, x)
  <2>1. Signed(First(n), UnassignedId)
    BY <1>2, SocketFacts DEF Signed
  <2>2. Leads(First(n), {Coord})
    BY DEF First, Leads
  <2>3. SendOver(n, First(n), "Register", NoStore) = Sent(net, n, {Coord}, x)
    BY <2>1, <2>2, SentOver
  <2> QED
    BY <1>1, <1>2, <2>3
<1>3. x \in Messages
  BY DEF Messages
<1>4. ~Carries(net, n, Coord, "Register")
  BY <1>0, ServerFacts DEF Carries, AllGood, GoodMsg
<1>5. /\ net' \in Channels /\ Once(net')
      /\ \A p, q \in Nodes : \A y \in InFlight(net', p, q) :
            y \in InFlight(net, p, q) \/ (n # Coord /\ p = n /\ q = Coord /\ y = x)
  <2>1. CASE n = Coord
    BY <1>0, <1>1, <2>1
  <2>2. CASE n # Coord
    <3>1. {Coord} \in SUBSET Nodes
      BY ServerFacts
    <3>2. x.type = "Register"
      OBVIOUS
    <3> QED
      BY <1>0, <1>2, <1>3, <1>4, <2>2, <3>1, <3>2, SentOK
  <2> QED
    BY <2>1, <2>2
<1>6. /\ pc'[n] = "waiting" /\ receiver'[n] = "on" /\ node_id'[n] = a /\ senders'[n] = First(n)
      /\ \A q \in Nodes : q # n => Same(q)
  BY <1>0, <1>1 DEF TypeOK, Same
<1>7. TypeOK'
  <2>1. a \in NodeIds \cup {UnassignedId} /\ First(n) \in SUBSET Sockets
    BY SocketFacts
  <2>2. node_id' \in [Nodes -> NodeIds \cup {UnassignedId}] /\ senders' \in [Nodes -> SUBSET Sockets]
    BY <1>1, <2>1 DEF TypeOK
  <2> HIDE DEF a
  <2> QED
    BY <1>0, <1>5, <2>2 DEF TypeOK, Channels
<1>8. ASSUME NEW q \in Nodes PROVE NodeInv(q)'
  <2>1. CASE q # n
    <3>1. q \in registered' => pc[q] # "off"
      BY <1>0 DEF NodeInv, SocketInv
    <3> QED
      BY <1>0, <1>6, <2>1, <3>1, NodeKept
  <2>2. CASE q = n
    <3>1. SocketInv(n)'
      BY <1>0, <1>6, SocketFacts DEF SocketInv, Down
    <3>2. ReceiverInv(n)' /\ StoreInv(n)'
      BY <1>0, <1>6 DEF ReceiverInv, StoreInv, NodeInv
    <3> QED
      BY <2>2, <3>1, <3>2 DEF NodeInv
  <2> QED
    BY <2>1, <2>2
<1>9. AllGood(net)'
  <2> SUFFICES ASSUME NEW p \in Nodes, NEW q \in Nodes, NEW y \in InFlight(net', p, q)
               PROVE  GoodMsg(p, q, y)'
    BY DEF AllGood, InFlight
  <2>1. CASE y \in InFlight(net, p, q)
    <3>1. GoodMsg(p, q, y)
      BY <2>1 DEF AllGood
    <3>2. y.type = "Register" => p \notin registered' /\ pc'[p] # "off"
      BY <1>0, <1>6, <3>1 DEF GoodMsg, Same
    <3>3. y.type = "Request" => q # n
      BY <1>0, <3>1, ServerFacts DEF GoodMsg
    <3> QED
      BY <1>0, <1>6, <3>1, <3>2, <3>3, MsgKept DEF Same
  <2>2. CASE n # Coord /\ p = n /\ q = Coord /\ y = x
    BY <1>0, <1>3, <1>6, <2>2 DEF GoodMsg, Others
  <2> QED
    BY <1>5, <2>1, <2>2
<1>10. AnsweredByOwner'
  BY <1>0 DEF AnsweredByOwner
<1> QED
  BY <1>5, <1>7, <1>8, <1>9, <1>10

(* A step of one node that sends nothing, registers nobody and calls nobody. *)
LEMMA Quiet ==
    ASSUME ActorInv, TypeOK', UNCHANGED <<faults, registered, call, answers>>,
           Once(net'), \A p, q \in Nodes : InFlight(net', p, q) \subseteq InFlight(net, p, q),
           NEW n \in Nodes, NodeInv(n)', \A q \in Nodes : q # n => Same(q),
           pc[n] # "off" => pc'[n] # "off",
           receiver'[n] = "on" => receiver[n] = "on" /\ (ready[n] => ready'[n])
    PROVE  ActorInv'
<1> USE DEF ActorInv
<1>1. ASSUME NEW q \in Nodes PROVE NodeInv(q)'
  <2>1. CASE q # n
    <3>1. q \in registered' => pc[q] # "off"
      BY DEF NodeInv, SocketInv
    <3> QED
      BY <2>1, <3>1, NodeKept
  <2>2. CASE q = n
    BY <2>2
  <2> QED
    BY <2>1, <2>2
<1>2. AllGood(net)'
  <2>1. \A q \in Nodes : pc[q] # "off" => pc'[q] # "off"
    BY DEF Same
  <2>2. \A q \in Nodes : receiver'[q] = "on" => receiver[q] = "on" /\ (ready[q] => ready'[q])
    BY DEF Same
  <2> QED
    BY <2>1, <2>2, NetKept
<1>3. AnsweredByOwner'
  BY DEF AnsweredByOwner
<1> QED
  BY <1>1, <1>2, <1>3

(* WaitReady returns: only the program counter moves.                       *)
LEMMA StartReturnsKept ==
    ASSUME ActorInv, UNCHANGED faults, NEW n \in Nodes, StartReturns(n) PROVE ActorInv'
<1> USE DEF StartReturns
<1>1. TypeOK'
  BY DEF ActorInv, TypeOK
<1>2. pc'[n] = "running" /\ \A q \in Nodes : q # n => Same(q)
  BY DEF ActorInv, TypeOK, Same
<1>3. NodeInv(n)'
  <2>1. SocketInv(n)'
    BY <1>2 DEF ActorInv, NodeInv, SocketInv, Down
  <2>2. ReceiverInv(n)' /\ StoreInv(n)'
    BY <1>2 DEF ActorInv, NodeInv, ReceiverInv, StoreInv
  <2> QED
    BY <2>1, <2>2 DEF NodeInv
<1>4. Once(net') /\ \A p, q \in Nodes : InFlight(net', p, q) \subseteq InFlight(net, p, q)
  BY DEF ActorInv
<1> QED
  BY <1>1, <1>2, <1>3, <1>4, Quiet

(* WaitReady gives up: the process ends with its receiver thread, and its   *)
(* messages may be lost.                                                    *)
LEMMA TimeoutKept ==
    ASSUME ActorInv, UNCHANGED faults, NEW n \in Nodes, WaitReadyTimeout(n) PROVE ActorInv'
<1> USE DEF WaitReadyTimeout
<1>0. net \in Channels
  BY DEF ActorInv, TypeOK, Channels
<1>1. /\ net' \in Channels /\ Once(net')
      /\ \A p, q \in Nodes : InFlight(net', p, q) \subseteq InFlight(net, p, q)
  BY <1>0, FlushOK DEF ActorInv
<1>2. TypeOK'
  BY <1>1 DEF ActorInv, TypeOK, Channels
<1>3. pc'[n] = "exited" /\ receiver'[n] = "none" /\ \A q \in Nodes : q # n => Same(q)
  BY DEF ActorInv, TypeOK, Same
<1>4. NodeInv(n)'
  <2>1. SocketInv(n)'
    BY <1>3 DEF ActorInv, NodeInv, SocketInv, Down
  <2>2. ReceiverInv(n)' /\ StoreInv(n)'
    BY <1>3 DEF ActorInv, NodeInv, ReceiverInv, StoreInv
  <2> QED
    BY <2>1, <2>2 DEF NodeInv
<1> QED
  BY <1>1, <1>2, <1>3, <1>4, Quiet

(* Stop: the process forgets its id and its sockets, and what they have not *)
(* sent may be lost.                                                        *)
LEMMA StopKept ==
    ASSUME ActorInv, UNCHANGED faults, NEW n \in Nodes, Stop(n) PROVE ActorInv'
<1> USE DEF Stop
<1>0. net \in Channels
  BY DEF ActorInv, TypeOK, Channels
<1>1. /\ net' \in Channels /\ Once(net')
      /\ \A p, q \in Nodes : InFlight(net', p, q) \subseteq InFlight(net, p, q)
  BY <1>0, FlushOK DEF ActorInv
<1>2. TypeOK'
  <2>1. ready' \in [Nodes -> BOOLEAN]
    BY Zenon DEF ActorInv, TypeOK
  <2> QED
    BY <1>1, <2>1 DEF ActorInv, TypeOK, Channels
<1>3. /\ pc'[n] = "stopped" /\ receiver'[n] = "done" /\ ~ready'[n] /\ node_id'[n] = UnassignedId
      /\ senders'[n] = {} /\ store_rank'[n] = store_rank[n] /\ registered' = registered
  BY DEF ActorInv, TypeOK
<1>4. \A q \in Nodes : q # n => Same(q)
  BY DEF ActorInv, TypeOK, Same
<1>5. NodeInv(n)'
  <2>1. SocketInv(n)'
    BY <1>3 DEF SocketInv, Down
  <2>2. ReceiverInv(n)' /\ StoreInv(n)'
    BY <1>3 DEF ReceiverInv, StoreInv
  <2> QED
    BY <2>1, <2>2 DEF NodeInv
<1> QED
  BY <1>1, <1>2, <1>3, <1>4, <1>5, Quiet

(* A message that is handled: it was good, and it is gone.                  *)
LEMMA Handled ==
    ASSUME ActorInv, NEW m \in Nodes, NEW n \in Nodes, NEW t, Receives(n, m, t)
    PROVE  LET x == Head(net[<<m, n>>]) IN
           /\ net \in Channels /\ receiver[n] = "on"
           /\ GoodMsg(m, n, x) /\ x.type = t /\ x \in InFlight(net, m, n)
           /\ Pop(net, m, n) \in Channels /\ Once(Pop(net, m, n))
           /\ \A p, q \in Nodes : InFlight(Pop(net, m, n), p, q) \subseteq InFlight(net, p, q)
           /\ t \in Single => \A y \in InFlight(Pop(net, m, n), m, n) : y.type # t
<1>1. net \in Channels /\ net[<<m, n>>] # <<>> /\ Head(net[<<m, n>>]).type = t
  BY DEF ActorInv, TypeOK, Channels, Receives
<1>2. Head(net[<<m, n>>]) \in InFlight(net, m, n)
  BY <1>1, PopOK DEF ActorInv
<1> QED
  BY <1>1, <1>2, PopOK DEF ActorInv, Receives, AllGood

(* The list of nodes: the process adopts its id, connects to its peers and  *)
(* is ready.                                                                *)
LEMMA HandleAddNodeKept ==
    ASSUME ActorInv, UNCHANGED faults, NEW n \in Nodes, HandleAddNode(n) PROVE ActorInv'
<1> USE DEF HandleAddNode
<1>0. Coord \in Nodes /\ n # Coord
  BY ServerFacts
<1>1. /\ net' \in Channels /\ Once(net') /\ receiver[n] = "on"
      /\ \A p, q \in Nodes : InFlight(net', p, q) \subseteq InFlight(net, p, q)
      /\ registered = Others
  BY <1>0, Handled DEF GoodMsg
<1>2. LocalId(n) = AssignedId(n) /\ SocketIdentity(n) = AssignedId(n)
  BY <1>0, IdOf DEF LocalId, SocketIdentity, ActorInv, NodeInv, SocketInv
<1>3. senders' = [senders EXCEPT ![n] = Full(n)] /\ node_id' = [node_id EXCEPT ![n] = AssignedId(n)]
  BY <1>2, ConnectedFull
<1>4. TypeOK'
  <2>1. Full(n) \in SUBSET Sockets /\ AssignedId(n) \in NodeIds
    BY SocketFacts
  <2>2. ready' \in [Nodes -> BOOLEAN]
    BY Zenon DEF ActorInv, TypeOK
  <2> QED
    BY <1>1, <1>3, <2>1, <2>2 DEF ActorInv, TypeOK, Channels
<1>5. /\ senders'[n] = Full(n) /\ node_id'[n] = AssignedId(n) /\ ready'[n]
      /\ pc' = pc /\ receiver' = receiver /\ registered' = registered /\ store_rank' = store_rank
  BY <1>3 DEF ActorInv, TypeOK
<1>6. \A q \in Nodes : q # n => Same(q)
  BY <1>3 DEF ActorInv, TypeOK, Same
<1>7. NodeInv(n)'
  <2>0. pc[n] \in {"waiting", "running", "stopping"}
    BY <1>1 DEF ActorInv, NodeInv, ReceiverInv
  <2>1. SocketInv(n)'
    BY <1>1, <1>5, <2>0 DEF SocketInv, Down
  <2>2. ReceiverInv(n)' /\ StoreInv(n)'
    BY <1>1, <1>5, <2>0 DEF ActorInv, NodeInv, ReceiverInv, StoreInv
  <2> QED
    BY <2>1, <2>2 DEF NodeInv
<1> QED
  BY <1>1, <1>4, <1>5, <1>6, <1>7, Quiet

(* Terminate ends the receiver thread of a process that is not stopped yet. *)
LEMMA HandleTerminateKept ==
    ASSUME ActorInv, UNCHANGED faults, NEW n \in Nodes, HandleTerminate(n) PROVE ActorInv'
<1> USE DEF HandleTerminate
<1>0. Coord \in Nodes
  BY ServerFacts
<1>1. /\ net' \in Channels /\ Once(net')
      /\ \A p, q \in Nodes : InFlight(net', p, q) \subseteq InFlight(net, p, q)
  BY <1>0, Handled
<1>2. TypeOK'
  BY <1>1 DEF ActorInv, TypeOK, Channels
<1>3. receiver'[n] = "done" /\ \A q \in Nodes : q # n => Same(q)
  BY DEF ActorInv, TypeOK, Same
<1>4. NodeInv(n)'
  <2>0. receiver[n] = "on"
    BY DEF Receives
  <2>1. SocketInv(n)'
    BY <1>3 DEF ActorInv, NodeInv, SocketInv, Down
  <2>2. ReceiverInv(n)' /\ StoreInv(n)'
    BY <1>3, <2>0 DEF ActorInv, NodeInv, ReceiverInv, StoreInv
  <2> QED
    BY <2>1, <2>2 DEF NodeInv
<1> QED
  BY <1>1, <1>2, <1>3, <1>4, Quiet

(* PSAgent::Shutdown sends Terminate through the sockets of a coordinator   *)
(* that is ready, to itself and to all.                                     *)
LEMMA ShutdownKept ==
    ASSUME ActorInv, UNCHANGED faults, Shutdown PROVE ActorInv'
<1> USE DEF Shutdown, TerminateSockets
<1>0. Coord \in Nodes /\ net \in Channels
  BY ServerFacts DEF ActorInv, TypeOK, Channels
<1>1. ready[Coord] /\ senders[Coord] = Full(Coord) /\ registered = Others
  BY <1>0 DEF ActorInv, NodeInv, SocketInv, Down
<1> DEFINE x == [type |-> "Terminate", sender |-> AssignedId(Coord), rank |-> NoStore]
<1>2. x \in Messages
  BY <1>0, SocketFacts DEF Messages
<1>3. net' = Sent(net, Coord, Peers(Coord), x)
  <2>1. Signed(Full(Coord), AssignedId(Coord))
    BY <1>0, SocketFacts DEF Signed
  <2>2. Leads(Full(Coord), Peers(Coord))
    <3> SUFFICES ASSUME NEW k \in Nodes
                 PROVE  k \in Peers(Coord) <=> \E s \in Full(Coord) : s.to = k
      BY DEF Leads
    <3>1. ASSUME k \in Peers(Coord) PROVE \E s \in Full(Coord) : s.to = k
      <4>1. [id |-> AssignedId(k), to |-> k, identity |-> AssignedId(Coord)] \in Full(Coord)
        BY <1>0, <3>1, SocketFacts
      <4> QED
        BY <4>1
    <3>2. ASSUME NEW s \in Full(Coord), s.to = k PROVE k \in Peers(Coord)
      BY <1>0, <3>2, SocketFacts
    <3> QED
      BY <3>1, <3>2
  <2> QED
    BY <1>0, <1>1, <2>1, <2>2, SentOver
<1>4. /\ net' \in Channels /\ Once(net')
      /\ \A p, q \in Nodes : \A y \in InFlight(net', p, q) :
            y \in InFlight(net, p, q) \/ (p = Coord /\ q \in Peers(Coord) /\ y = x)
  <2>1. Peers(Coord) \in SUBSET Nodes /\ x.type \notin Single
    BY DEF Peers, Single
  <2> QED
    BY <1>0, <1>2, <1>3, <2>1, SentOK DEF ActorInv, Single
<1>5. TypeOK'
  BY <1>4 DEF ActorInv, TypeOK, Channels
<1>6. pc'[Coord] = "stopping" /\ \A q \in Nodes : q # Coord => Same(q)
  BY <1>0 DEF ActorInv, TypeOK, Same
<1>7. ASSUME NEW q \in Nodes PROVE NodeInv(q)'
  <2>1. CASE q # Coord
    <3>1. q \in registered' => pc[q] # "off"
      BY DEF ActorInv, NodeInv, SocketInv
    <3> QED
      BY <1>6, <2>1, <3>1, NodeKept DEF ActorInv
  <2>2. CASE q = Coord
    <3>1. SocketInv(q)'
      BY <1>0, <1>1, <1>6, <2>2 DEF ActorInv, NodeInv, SocketInv, Down
    <3>2. ReceiverInv(q)' /\ StoreInv(q)'
      BY <1>0, <1>6, <2>2 DEF ActorInv, NodeInv, ReceiverInv, StoreInv
    <3> QED
      BY <3>1, <3>2 DEF NodeInv
  <2> QED
    BY <2>1, <2>2
<1>8. AllGood(net)'
  <2> SUFFICES ASSUME NEW p \in Nodes, NEW q \in Nodes, NEW y \in InFlight(net', p, q)
               PROVE  GoodMsg(p, q, y)'
    BY DEF AllGood, InFlight
  <2>1. CASE y \in InFlight(net, p, q)
    <3>1. GoodMsg(p, q, y)
      BY <2>1 DEF ActorInv, AllGood
    <3>2. y.type = "Register" => p \notin registered' /\ pc'[p] # "off"
      BY <1>6, <3>1 DEF GoodMsg, Same
    <3> QED
      BY <3>1, <3>2, MsgKept
  <2>2. CASE p = Coord /\ y = x
    BY <1>1, <1>2, <2>2 DEF GoodMsg
  <2> QED
    BY <1>4, <2>1, <2>2
<1>9. AnsweredByOwner'
  BY DEF ActorInv, AnsweredByOwner
<1> QED
  BY <1>4, <1>5, <1>7, <1>8, <1>9 DEF ActorInv

(* Nothing of a worker that calls nobody is under way.                      *)
LEMMA NothingCalled ==
    ASSUME ActorInv, NEW w \in Nodes, call[w] = NoCall, NEW k \in Nodes
    PROVE  ~Carries(net, w, k, "Request") /\ ~Carries(net, k, w, "Response")
<1>1. AssignedId(k) # NoCall
  BY IdOf, ActorAssumption DEF ActorAssumption
<1> QED
  BY <1>1 DEF ActorInv, AllGood, GoodMsg, Carries

(* A worker that waits for no server sends one request, and nothing of an   *)
(* earlier one is under way.                                                *)
LEMMA SendRequestKept ==
    ASSUME ActorInv, UNCHANGED faults, NEW w \in Nodes, NEW s \in Nodes, SendRequest(w, s)
    PROVE  ActorInv'
<1> USE DEF SendRequest
<1>0. w \in Workers /\ s \in Servers /\ net \in Channels /\ call[w] = NoCall /\ ready[w]
  BY DEF ActorInv, TypeOK, Channels
<1>1. senders[w] = Full(w) /\ registered = Others
  BY <1>0 DEF ActorInv, NodeInv, SocketInv, Down
<1>2. s \in Peers(w)
  BY <1>0, ServerFacts
<1> DEFINE sock == [id |-> AssignedId(s), to |-> s, identity |-> AssignedId(w)]
           x == [type |-> "Request", sender |-> AssignedId(w), rank |-> NoStore]
<1>3. SocketTo(w, AssignedId(s)) = sock
  BY <1>1, <1>2, FoundSocket
<1>4. x \in Messages
  BY SocketFacts DEF Messages
<1>5. net' = Sent(net, w, {s}, x)
  <2>1. Signed({sock}, AssignedId(w)) /\ Leads({sock}, {s})
    BY DEF Signed, Leads
  <2>2. SendOver(w, {sock}, "Request", NoStore) = Sent(net, w, {s}, x)
    BY <2>1, SentOver
  <2> QED
    BY <1>3, <2>2
<1>6. /\ net' \in Channels /\ Once(net')
      /\ \A p, q \in Nodes : \A y \in InFlight(net', p, q) :
            y \in InFlight(net, p, q) \/ (p = w /\ q = s /\ y = x)
  <2>1. {s} \in SUBSET Nodes /\ x.type = "Request"
    OBVIOUS
  <2>2. ~Carries(net, w, s, "Request") /\ ~Carries(net, s, w, "Response")
    BY <1>0, NothingCalled
  <2>3. Once(net)
    BY DEF ActorInv
  <2> HIDE DEF x, SendRequest
  <2> QED
    BY <1>0, <1>4, <1>5, <2>1, <2>2, <2>3, SentOK
<1>7. TypeOK'
  <2>1. call' \in [Nodes -> NodeIds \cup {NoCall}]
    BY SocketFacts DEF ActorInv, TypeOK
  <2> QED
    BY <1>6, <2>1 DEF ActorInv, TypeOK, Channels
<1>8. ASSUME NEW q \in Nodes PROVE NodeInv(q)'
  <2>1. q \in registered' => pc[q] # "off"
    BY DEF ActorInv, NodeInv, SocketInv
  <2>2. Same(q)
    BY DEF Same
  <2> QED
    BY <2>1, <2>2, NodeKept DEF ActorInv
<1>9. AllGood(net)'
  <2> SUFFICES ASSUME NEW p \in Nodes, NEW q \in Nodes, NEW y \in InFlight(net', p, q)
               PROVE  GoodMsg(p, q, y)'
    BY DEF AllGood, InFlight
  <2>0. call'[w] = AssignedId(s) /\ \A k \in Nodes : k # w => call'[k] = call[k]
    BY DEF ActorInv, TypeOK
  <2>1. CASE y \in InFlight(net, p, q)
    <3>1. GoodMsg(p, q, y)
      BY <2>1 DEF ActorInv, AllGood
    <3>2. y.type = "Register" => p \notin registered' /\ pc'[p] # "off"
      BY <3>1 DEF GoodMsg
    <3>3. (y.type = "Request" => p # w) /\ (y.type = "Response" => q # w)
      BY <1>0, <2>1, NothingCalled DEF Carries
    <3> QED
      BY <2>0, <3>1, <3>2, <3>3, MsgKept
  <2>2. CASE p = w /\ q = s /\ y = x
    <3>1. receiver[s] = "on" /\ "early" \notin faults => ready[s]
      OBVIOUS
    <3> QED
      BY <1>0, <1>1, <1>4, <2>0, <2>2, <3>1 DEF GoodMsg
  <2> QED
    BY <1>6, <2>1, <2>2
<1>10. AnsweredByOwner'
  BY DEF ActorInv, AnsweredByOwner
<1> QED
  BY <1>6, <1>7, <1>8, <1>9, <1>10 DEF ActorInv

(* A request: a server that is ready answers with the rank of its store,    *)
(* which is its own; one that is not loses its receiver thread.             *)
LEMMA HandleRequestKept ==
    ASSUME ActorInv, UNCHANGED faults, NEW s \in Nodes, NEW w \in Nodes, HandleRequest(s, w)
    PROVE  ActorInv'
<1> DEFINE sender == Head(net[<<w, s>>]).sender
           d == Pop(net, w, s)
<1>0. /\ net \in Channels /\ receiver[s] = "on" /\ d \in Channels /\ Once(d)
      /\ GoodMsg(w, s, Head(net[<<w, s>>])) /\ Head(net[<<w, s>>]).type = "Request"
      /\ Head(net[<<w, s>>]) \in InFlight(net, w, s)
      /\ \A p, q \in Nodes : InFlight(d, p, q) \subseteq InFlight(net, p, q)
      /\ \A y \in InFlight(d, w, s) : y.type # "Request"
  BY Handled DEF HandleRequest, Single
<1>1. /\ w \in Workers /\ s \in Servers /\ call[w] = AssignedId(s) /\ sender = AssignedId(w)
      /\ registered = Others /\ ("early" \notin faults => ready[s])
  BY <1>0 DEF GoodMsg
<1>2. /\ pc[s] \in {"waiting", "running", "stopping"} /\ store_rank[s] \in {NoStore, RankOf(s)}
      /\ senders[s] = (IF ready[s] THEN Full(s) ELSE First(s))
      /\ node_id[s] = (IF ready[s] THEN AssignedId(s) ELSE UnassignedId)
  BY <1>0, <1>1, ServerFacts DEF ActorInv, NodeInv, SocketInv, ReceiverInv, StoreInv, Down
<1>3. ready[s] <=> HasSocket(s, sender)
  <2>1. ASSUME ready[s] PROVE HasSocket(s, sender)
    <3>1. w \in Peers(s)
      BY <1>1, ServerFacts
    <3> QED
      BY <1>1, <1>2, <2>1, <3>1, FoundSocket
  <2>2. ASSUME ~ready[s] PROVE ~HasSocket(s, sender)
    <3>1. w # Coord /\ Coord \in Nodes
      BY <1>1, ServerFacts
    <3>2. AssignedId(w) # AssignedId(Coord)
      BY <3>1, IdsDiffer
    <3> QED
      BY <1>1, <1>2, <2>2, <3>2, SocketFacts DEF HasSocket
  <2> QED
    BY <2>1, <2>2
<1>4. StoreRank(s) \in Int /\ (ready[s] => StoreRank(s) = RankOf(s))
  <2>1. RankOf(s) \in Nat /\ NodeIdToRank(AssignedId(s)) = RankOf(s)
    BY <1>1, IdOf, RankOfId
  <2>2. NodeIdToRank(UnassignedId) \in Int
    BY DEF NodeIdToRank, UnassignedId
  <2> QED
    BY <1>2, <2>1, <2>2 DEF StoreRank
<1> DEFINE x == [type |-> "Response", sender |-> AssignedId(s), rank |-> StoreRank(s)]
<1>5. ASSUME ready[s] PROVE net' = Sent(d, s, {w}, x) /\ receiver' = receiver
  <2> DEFINE sock == [id |-> AssignedId(w), to |-> w, identity |-> AssignedId(s)]
  <2>1. SocketTo(s, sender) = sock
    BY <1>1, <1>2, <1>5, FoundSocket, ServerFacts
  <2>2. Signed({sock}, AssignedId(s)) /\ Leads({sock}, {w})
    BY DEF Signed, Leads
  <2>3. SendOver(s, {sock}, "Response", StoreRank(s)) = Sent(net, s, {w}, x)
    BY <2>2, SentOver
  <2>4. net' = Pop(Sent(net, s, {w}, x), w, s) /\ receiver' = receiver
    BY <1>3, <1>5, <2>1, <2>3 DEF HandleRequest
  <2>5. w # s
    BY <1>1, ServerFacts
  <2> QED
    BY <1>0, <2>4, <2>5, PopSent
<1>6. x \in Messages
  BY <1>4, SocketFacts DEF Messages
<1>7. /\ net' \in Channels /\ Once(net')
      /\ \A p, q \in Nodes : \A y \in InFlight(net', p, q) :
            y \in InFlight(d, p, q) \/ (ready[s] /\ p = s /\ q = w /\ y = x)
  <2>1. CASE ready[s]
    <3>1. ~Carries(d, w, s, "Request")
      BY <1>0 DEF Carries
    <3>2. ~Carries(d, s, w, "Response")
      <4>1. Carries(net, w, s, "Request")
        BY <1>0 DEF Carries
      <4>2. ~Carries(net, s, w, "Response")
        BY <4>1 DEF ActorInv, Once
      <4> QED
        BY <1>0, <4>2 DEF Carries
    <3>3. {w} \in SUBSET Nodes /\ x.type = "Response"
      OBVIOUS
    <3> HIDE DEF x, d
    <3>4. /\ x.type \in Single => \A k \in {w} : ~Carries(d, s, k, x.type)
          /\ x.type = "Response" => \A k \in {w} : ~Carries(d, k, s, "Request")
      BY <3>1, <3>2, <3>3
    <3>5. /\ Sent(d, s, {w}, x) \in Channels /\ Once(Sent(d, s, {w}, x))
          /\ \A p, q \in Nodes : \A y \in InFlight(Sent(d, s, {w}, x), p, q) :
                y \in InFlight(d, p, q) \/ (p = s /\ q \in {w} /\ y = x)
      BY <1>0, <1>6, <3>3, <3>4, SentOK
    <3> QED
      BY <1>5, <2>1, <3>5
  <2>2. CASE ~ready[s]
    BY <1>0, <1>3, <2>2 DEF HandleRequest
  <2> QED
    BY <2>1, <2>2
<1>8. /\ store_rank'[s] = StoreRank(s) /\ receiver'[s] = (IF ready[s] THEN "on" ELSE "dead")
      /\ \A q \in Nodes : q # s => Same(q)
      /\ UNCHANGED <<pc, ready, node_id, senders, registered, call, answers>>
  <2>1. UNCHANGED <<pc, ready, node_id, senders, registered, call, answers>>
    BY DEF HandleRequest
  <2>2. store_rank' = [store_rank EXCEPT ![s] = StoreRank(s)]
    BY DEF HandleRequest
  <2>3. receiver' = IF ready[s] THEN receiver ELSE [receiver EXCEPT ![s] = "dead"]
    BY <1>3, <1>5 DEF HandleRequest
  <2> QED
    BY <1>0, <2>1, <2>2, <2>3 DEF ActorInv, TypeOK, Same
<1>9. TypeOK'
  <2>1. receiver' \in [Nodes -> {"none", "on", "done", "dead"}]
    BY <1>3, <1>5 DEF HandleRequest, ActorInv, TypeOK
  <2>2. store_rank' \in [Nodes -> Int \cup {NoStore}]
    BY <1>4 DEF HandleRequest, ActorInv, TypeOK
  <2> QED
    BY <1>7, <1>8, <2>1, <2>2 DEF ActorInv, TypeOK, Channels
<1>10. ASSUME NEW q \in Nodes PROVE NodeInv(q)'
  <2>1. CASE q # s
    <3>1. q \in registered' => pc[q] # "off"
      BY <1>8 DEF ActorInv, NodeInv, SocketInv
    <3> QED
      BY <1>8, <2>1, <3>1, NodeKept DEF ActorInv
  <2>2. CASE q = s
    <3>1. SocketInv(s)'
      BY <1>8 DEF ActorInv, NodeInv, SocketInv, Down
    <3>2. ReceiverInv(s)'
      BY <1>1, <1>2, <1>8 DEF ReceiverInv
    <3>3. StoreInv(s)'
      BY <1>2, <1>4, <1>8 DEF StoreInv
    <3> QED
      BY <2>2, <3>1, <3>2, <3>3 DEF NodeInv
  <2> QED
    BY <2>1, <2>2
<1>11. AllGood(net)'
  <2> SUFFICES ASSUME NEW p \in Nodes, NEW q \in Nodes, NEW y \in InFlight(net', p, q)
               PROVE  GoodMsg(p, q, y)'
    BY DEF AllGood, InFlight
  <2>1. CASE y \in InFlight(d, p, q)
    <3>1. GoodMsg(p, q, y)
      BY <1>0, <2>1 DEF ActorInv, AllGood
    <3>2. y.type = "Register" => p \notin registered' /\ pc'[p] # "off"
      BY <1>8, <3>1 DEF GoodMsg
    <3>3. receiver'[q] = "on" => receiver[q] = "on"
      BY <1>0, <1>8 DEF Same
    <3> QED
      BY <1>8, <3>1, <3>2, <3>3, MsgKept
  <2>2. CASE ready[s] /\ p = s /\ q = w /\ y = x
    BY <1>1, <1>4, <1>6, <1>8, <2>2 DEF GoodMsg
  <2> QED
    BY <1>7, <2>1, <2>2
<1>12. AnsweredByOwner'
  BY <1>8 DEF ActorInv, AnsweredByOwner
<1> QED
  BY <1>7, <1>9, <1>10, <1>11, <1>12 DEF ActorInv

(* A response comes from the server the worker has called, with the rank of *)
(* that server.                                                             *)
LEMMA HandleResponseKept ==
    ASSUME ActorInv, UNCHANGED faults, NEW w \in Nodes, NEW s \in Nodes, HandleResponse(w, s)
    PROVE  ActorInv'
<1> DEFINE x == Head(net[<<s, w>>])
<1>0. /\ net' \in Channels /\ Once(net')
      /\ GoodMsg(s, w, x) /\ x.type = "Response" /\ x \in InFlight(net, s, w)
      /\ \A p, q \in Nodes : InFlight(net', p, q) \subseteq InFlight(net, p, q)
      /\ \A y \in InFlight(net', s, w) : y.type # "Response"
  BY Handled DEF HandleResponse, Single
<1>1. /\ s \in Servers /\ w \in Workers /\ call[w] = AssignedId(s)
      /\ x.rank = RankOf(s) /\ x \in Messages
  BY <1>0 DEF GoodMsg
<1>2. /\ UNCHANGED <<pc, receiver, ready, node_id, senders, registered, store_rank>>
      /\ call' = [call EXCEPT ![w] = NoCall]
      /\ answers' = [answers EXCEPT ![w] = Append(@, <<AssignedId(s), RankOf(s)>>)]
  BY <1>1 DEF HandleResponse
<1>3. TypeOK'
  <2>1. <<AssignedId(s), RankOf(s)>> \in (NodeIds \cup {NoCall}) \X (Int \cup {NoStore})
    BY IdOf, SocketFacts
  <2>2. answers' \in [Nodes -> Seq((NodeIds \cup {NoCall}) \X (Int \cup {NoStore}))]
    BY <1>2, <2>1 DEF ActorInv, TypeOK
  <2>3. call' \in [Nodes -> NodeIds \cup {NoCall}]
    BY <1>2 DEF ActorInv, TypeOK
  <2> QED
    BY <1>0, <1>2, <2>2, <2>3 DEF ActorInv, TypeOK, Channels
<1>4. ASSUME NEW q \in Nodes PROVE NodeInv(q)'
  <2>1. q \in registered' => pc[q] # "off"
    BY <1>2 DEF ActorInv, NodeInv, SocketInv
  <2>2. Same(q)
    BY <1>2 DEF Same
  <2> QED
    BY <1>2, <2>1, <2>2, NodeKept DEF ActorInv
<1>5. AllGood(net)'
  <2> SUFFICES ASSUME NEW p \in Nodes, NEW q \in Nodes, NEW y \in InFlight(net', p, q)
               PROVE  GoodMsg(p, q, y)'
    BY DEF AllGood, InFlight
  <2>1. GoodMsg(p, q, y) /\ y \in InFlight(net, p, q)
    BY <1>0 DEF ActorInv, AllGood
  <2>2. y.type = "Register" => p \notin registered' /\ pc'[p] # "off"
    BY <1>2, <2>1 DEF GoodMsg
  <2>3. y.type = "Request" => p # w
    <3> SUFFICES ASSUME y.type = "Request", p = w PROVE FALSE
      OBVIOUS
    <3>1. q = s
      BY <1>1, <2>1, IdsDiffer DEF GoodMsg
    <3>2. Carries(net, w, s, "Request") /\ Carries(net, s, w, "Response")
      BY <1>0, <2>1, <3>1 DEF Carries
    <3> QED
      BY <3>2 DEF ActorInv, Once
  <2>4. y.type = "Response" => q # w
    <3> SUFFICES ASSUME y.type = "Response", q = w PROVE FALSE
      OBVIOUS
    <3>1. p = s
      BY <1>1, <2>1, IdsDiffer DEF GoodMsg
    <3> QED
      BY <1>0, <3>1
  <2>5. \A k \in Nodes : k # w => call'[k] = call[k]
    BY <1>2 DEF ActorInv, TypeOK
  <2> QED
    BY <1>2, <2>1, <2>2, <2>3, <2>4, <2>5, MsgKept
<1>6. AnsweredByOwner'
  <2> SUFFICES ASSUME NEW v \in Nodes, NEW i \in 1..Len(answers'[v])
               PROVE  \E k \in Servers : answers'[v][i] = <<AssignedId(k), RankOf(k)>>
    BY DEF AnsweredByOwner
  <2>1. answers[v] \in Seq((NodeIds \cup {NoCall}) \X (Int \cup {NoStore}))
    BY DEF ActorInv, TypeOK
  <2>2. answers'[v] = IF v = w THEN Append(answers[v], <<AssignedId(s), RankOf(s)>>) ELSE answers[v]
    BY <1>2 DEF ActorInv, TypeOK
  <2>3. CASE i \in 1..Len(answers[v]) /\ answers'[v][i] = answers[v][i]
    BY <2>3 DEF ActorInv, AnsweredByOwner
  <2>4. CASE answers'[v][i] = <<AssignedId(s), RankOf(s)>>
    BY <1>1, <2>4
  <2>5. CASE v # w
    BY <2>2, <2>3, <2>5
  <2>6. CASE v = w
    <3>1. /\ Len(answers'[v]) = Len(answers[v]) + 1 /\ Len(answers[v]) \in Nat
          /\ \A j \in 1..Len(answers[v]) : answers'[v][j] = answers[v][j]
          /\ answers'[v][Len(answers[v]) + 1] = <<AssignedId(s), RankOf(s)>>
      BY <2>1, <2>2, <2>6
    <3>2. i \in 1..Len(answers[v]) \/ i = Len(answers[v]) + 1
      BY <3>1
    <3> QED
      BY <2>3, <2>4, <3>1, <3>2
  <2> QED
    BY <2>5, <2>6
<1> QED
  BY <1>0, <1>3, <1>4, <1>5, <1>6 DEF ActorInv

(* A registration: it is a new one, the list is not full, and the last one  *)
(* makes the coordinator ready and sends the list to all.                   *)
LEMMA HandleRegisterKept ==
    ASSUME ActorInv, UNCHANGED faults, NEW m \in Others, HandleRegister(m) PROVE ActorInv'
<1> DEFINE d == Pop(net, m, Coord)
           socks == UNION {Connect({}, Coord, k, node_id[Coord], AssignedId(k)) : k \in Others}
           x == [type |-> "AddNode", sender |-> AssignedId(Coord), rank |-> NoStore]
<1>a. m \in Nodes /\ m # Coord /\ Coord \in Nodes
  BY ServerFacts
<1>0. /\ net \in Channels /\ receiver[Coord] = "on" /\ d \in Channels /\ Once(d)
      /\ GoodMsg(m, Coord, Head(net[<<m, Coord>>])) /\ Head(net[<<m, Coord>>]).type = "Register"
      /\ \A p, q \in Nodes : InFlight(d, p, q) \subseteq InFlight(net, p, q)
      /\ \A y \in InFlight(d, m, Coord) : y.type # "Register"
  BY <1>a, Handled DEF HandleRegister, Single
<1>1. m \notin registered /\ pc[m] # "off" /\ registered \subseteq Others /\ registered # Others
  BY <1>0 DEF GoodMsg, ActorInv, TypeOK
<1>2. ~AllRegistered(registered)
  BY <1>1, AllAreRegistered
<1>3. /\ registered' = registered \cup {m} /\ registered' \in SUBSET Others
      /\ UNCHANGED <<pc, node_id, store_rank, call, answers, receiver>>
  BY <1>1, <1>2 DEF HandleRegister
<1>4. /\ ~ready[Coord] /\ senders[Coord] = First(Coord) /\ node_id[Coord] = CoordinatorNodeId
      /\ pc[Coord] = "waiting" /\ NodeInv(Coord)
  BY <1>a, <1>0, <1>1, SocketFacts DEF ActorInv, NodeInv, SocketInv, ReceiverInv, Down
<1>5. CASE registered' # Others
  <2>1. net' = d /\ UNCHANGED <<ready, senders>>
    BY <1>2, <1>3, <1>5, AllAreRegistered DEF HandleRegister
  <2>2. \A p, q \in Nodes : \A y \in InFlight(net', p, q) : y \in InFlight(d, p, q)
    BY <2>1
  <2>3. TypeOK'
    BY <1>0, <1>3, <2>1 DEF ActorInv, TypeOK, Channels
  <2>4. ASSUME NEW q \in Nodes PROVE NodeInv(q)'
    <3>1. Same(q) /\ NodeInv(q)
      BY <1>3, <2>1 DEF Same, ActorInv
    <3>2. q \in registered' => pc[q] # "off"
      BY <1>1, <1>3, <3>1 DEF NodeInv, SocketInv
    <3> QED
      BY <1>1, <3>1, <3>2, NodeKept
  <2>5. AllGood(net)'
    <3> SUFFICES ASSUME NEW p \in Nodes, NEW q \in Nodes, NEW y \in InFlight(net', p, q)
                 PROVE  GoodMsg(p, q, y)'
      BY DEF AllGood, InFlight
    <3>1. GoodMsg(p, q, y) /\ y \in InFlight(d, p, q)
      BY <1>0, <2>2 DEF ActorInv, AllGood
    <3>2. y.type = "Register" => p \notin registered' /\ pc'[p] # "off"
      BY <1>0, <1>3, <3>1 DEF GoodMsg
    <3> QED
      BY <1>1, <1>3, <2>1, <3>1, <3>2, MsgKept
  <2>6. AnsweredByOwner'
    BY <1>3 DEF ActorInv, AnsweredByOwner
  <2> QED
    BY <1>0, <2>1, <2>3, <2>4, <2>5, <2>6 DEF ActorInv
<1>6. CASE registered' = Others
  <2>1. /\ senders' = [senders EXCEPT ![Coord] = @ \cup socks]
        /\ net' = Pop(SendOver(Coord, socks, "AddNode", NoStore), m, Coord)
        /\ ready' = [ready EXCEPT ![Coord] = TRUE]
    BY <1>2, <1>3, <1>6, AllAreRegistered DEF HandleRegister
  <2>2. socks = {[id |-> AssignedId(k), to |-> k, identity |-> CoordinatorNodeId] : k \in Others}
        /\ First(Coord) \cup socks = Full(Coord)
    BY <1>4, CoordinatorSockets
  <2>3. AssignedId(Coord) = CoordinatorNodeId
    BY <1>a, SocketFacts
  <2> HIDE DEF socks
  <2>4. net' = Sent(d, Coord, Others, x)
    <3>1. Signed(socks, AssignedId(Coord)) /\ Leads(socks, Others)
      <4>1. Signed(socks, AssignedId(Coord))
        <5> SUFFICES ASSUME NEW s \in socks PROVE s.identity = AssignedId(Coord)
          BY Zenon DEF Signed
        <5>1. PICK k \in Others :
                 s = [id |-> AssignedId(k), to |-> k, identity |-> CoordinatorNodeId]
          BY <2>2
        <5> QED
          BY <2>3, <5>1
      <4>2. Leads(socks, Others)
        <5> SUFFICES ASSUME NEW k \in Nodes
                     PROVE  k \in Others <=> \E s \in socks : s.to = k
          BY Zenon DEF Leads
        <5>1. ASSUME k \in Others PROVE \E s \in socks : s.to = k
          <6>1. [id |-> AssignedId(k), to |-> k, identity |-> CoordinatorNodeId] \in socks
            BY <2>2, <5>1
          <6> QED
            BY <6>1
        <5>2. ASSUME NEW s \in socks, s.to = k PROVE k \in Others
          <6>1. PICK j \in Others :
                   s = [id |-> AssignedId(j), to |-> j, identity |-> CoordinatorNodeId]
            BY <2>2
          <6> QED
            BY <5>2, <6>1
        <5> QED
          BY <5>1, <5>2
      <4> QED
        BY <4>1, <4>2
    <3>2. SendOver(Coord, socks, "AddNode", NoStore) = Sent(net, Coord, Others, x)
      BY <1>a, <3>1, SentOver
    <3> QED
      BY <1>a, <1>0, <2>1, <3>2, PopSent
  <2>5. x \in Messages
    BY <1>a, SocketFacts DEF Messages
  <2>6. /\ net' \in Channels /\ Once(net')
        /\ \A p, q \in Nodes : \A y \in InFlight(net', p, q) :
              y \in InFlight(d, p, q) \/ (p = Coord /\ q \in Others /\ y = x)
    <3>1. Others \in SUBSET Nodes /\ x.type \notin {"Register", "Request", "Response"}
      BY ServerFacts
    <3> HIDE DEF x, d
    <3> QED
      BY <1>a, <1>0, <2>4, <2>5, <3>1, SentOK DEF Single
  <2>7. senders'[Coord] = Full(Coord) /\ ready'[Coord]
        /\ \A q \in Nodes : q # Coord => Same(q)
    <3>1. senders' = [senders EXCEPT ![Coord] = Full(Coord)]
      BY <1>4, <2>1, <2>2
    <3> QED
      BY <1>a, <1>3, <2>1, <3>1 DEF ActorInv, TypeOK, Same
  <2>8. TypeOK'
    <3>1. senders' \in [Nodes -> SUBSET Sockets]
      BY <1>a, <1>4, <2>1, <2>2, SocketFacts DEF ActorInv, TypeOK
    <3>2. ready' \in [Nodes -> BOOLEAN]
      BY <2>1, Zenon DEF ActorInv, TypeOK
    <3> QED
      BY <1>3, <2>6, <3>1, <3>2 DEF ActorInv, TypeOK, Channels
  <2>9. ASSUME NEW q \in Nodes PROVE NodeInv(q)'
    <3>1. CASE q # Coord
      <4>1. q \in registered' => pc[q] # "off"
        BY <1>1, <1>3 DEF ActorInv, NodeInv, SocketInv
      <4> QED
        BY <1>1, <2>7, <3>1, <4>1, NodeKept DEF ActorInv
    <3>2. CASE q = Coord
      <4>1. SocketInv(Coord)'
        BY <1>3, <1>4, <1>6, <2>3, <2>7 DEF SocketInv, Down
      <4>2. ReceiverInv(Coord)' /\ StoreInv(Coord)'
        BY <1>0, <1>3, <1>4 DEF NodeInv, ReceiverInv, StoreInv
      <4> QED
        BY <3>2, <4>1, <4>2 DEF NodeInv
    <3> QED
      BY <3>1, <3>2
  <2>10. AllGood(net)'
    <3> SUFFICES ASSUME NEW p \in Nodes, NEW q \in Nodes, NEW y \in InFlight(net', p, q)
                 PROVE  GoodMsg(p, q, y)'
      BY DEF AllGood, InFlight
    <3>1. CASE y \in InFlight(d, p, q)
      <4>1. GoodMsg(p, q, y)
        BY <1>0, <3>1 DEF ActorInv, AllGood
      <4>2. y.type = "Register"
        BY <1>1, <4>1 DEF GoodMsg
      <4>3. p \notin registered' /\ pc'[p] # "off"
        BY <1>0, <1>3, <3>1, <4>1, <4>2 DEF GoodMsg
      <4> QED
        BY <1>1, <4>1, <4>2, <4>3, MsgKept
    <3>2. CASE p = Coord /\ q \in Others /\ y = x
      BY <1>6, <2>5, <3>2 DEF GoodMsg
    <3> QED
      BY <2>6, <3>1, <3>2
  <2>11. AnsweredByOwner'
    BY <1>3 DEF ActorInv, AnsweredByOwner
  <2> QED
    BY <2>6, <2>8, <2>9, <2>10, <2>11 DEF ActorInv
<1> QED
  BY <1>5, <1>6

(* Every step of every process keeps the invariant.                         *)
LEMMA ActorInductive == ActorInv /\ [Next]_vars => ActorInv'
<1> SUFFICES ASSUME ActorInv, [Next]_vars PROVE ActorInv'
  OBVIOUS
<1>1. CASE UNCHANGED vars
  <2> USE <1>1 DEF vars, state
  <2>1. TypeOK' /\ AnsweredByOwner'
    BY DEF ActorInv, TypeOK, AnsweredByOwner
  <2>2. ASSUME NEW q \in Nodes PROVE NodeInv(q)'
    <3>1. Same(q) /\ (q \in registered' => pc[q] # "off")
      BY DEF ActorInv, NodeInv, SocketInv, Same
    <3> QED
      BY <3>1, NodeKept DEF ActorInv
  <2>3. AllGood(net)' /\ Once(net')
    BY NetKept DEF ActorInv
  <2> QED
    BY <2>1, <2>2, <2>3 DEF ActorInv
<1>2. ASSUME NEW n \in Nodes, Receiving(n), UNCHANGED faults PROVE ActorInv'
  BY <1>2, HandleRegisterKept, HandleAddNodeKept, HandleTerminateKept, HandleRequestKept,
     HandleResponseKept DEF Receiving
<1>3. ASSUME NEW n \in Nodes, Running(n), UNCHANGED faults PROVE ActorInv'
  BY <1>3, StartKept, StartReturnsKept, StopKept, SendRequestKept, ShutdownKept DEF Running
<1> QED
  BY <1>1, <1>2, <1>3, TimeoutKept DEF Next

(* In every job the invariant holds of every state.                         *)
THEOREM ActorSafe == Spec => []ActorInv
  BY ActorInitial, ActorInductive, PTL DEF Spec

(* A message names its sender, and a socket of the receiver leads to that   *)
(* id exactly if it leads to that process (ReceiveMessage, Connect): ids    *)
(* are distinct and assigned once.                                          *)
THEOREM ActorRoutesAgree == Spec => []RoutesAgree
<1>1. ActorInv => RoutesAgree
  <2> SUFFICES ASSUME ActorInv, NEW m \in Nodes, NEW n \in Nodes, NEW i \in 1..Len(net[<<m, n>>]),
                      net[<<m, n>>][i].type # "Register"
               PROVE  /\ net[<<m, n>>][i].sender = AssignedId(m)
                      /\ \A s \in senders[n] : s.id = AssignedId(m) <=> s.to = m
    BY DEF RoutesAgree, ActorInv
  <2>1. GoodMsg(m, n, net[<<m, n>>][i])
    BY DEF ActorInv, AllGood, InFlight
  <2>2. ASSUME NEW s \in senders[n] PROVE s.to \in Nodes /\ s.id = AssignedId(s.to)
    <3>1. senders[n] \in {{}, Full(n), First(n)}
      BY DEF ActorInv, NodeInv, SocketInv
    <3> QED
      BY <3>1, SocketFacts DEF Peers
  <2> QED
    BY <2>1, <2>2, IdsDiffer DEF GoodMsg
<1> QED
  BY <1>1, ActorSafe, PTL

(* ready_ is set in a complete job only, and a ready node has a socket to   *)
(* itself and to every node of another role (CoordinatorHandleAddNode,      *)
(* Connect).                                                                *)
THEOREM ActorReadyConnected == Spec => []ReadyConnected
<1>1. ActorInv => ReadyConnected
  <2> SUFFICES ASSUME ActorInv, NEW n \in Nodes, ready[n]
               PROVE  registered = Others /\ \A m \in Peers(n) :
                        [id |-> AssignedId(m), to |-> m, identity |-> AssignedId(n)] \in senders[n]
    BY DEF ReadyConnected, Peers
  <2>1. registered = Others /\ senders[n] = Full(n)
    BY DEF ActorInv, NodeInv, SocketInv
  <2> QED
    BY <2>1, SocketFacts
<1> QED
  BY <1>1, ActorSafe, PTL

(* A request that is answered was served by the store of the partition the  *)
(* worker meant, also where requests overtake AddNode, nodes time out and   *)
(* messages are lost.                                                       *)
THEOREM ActorAnsweredByOwner == Spec => []AnsweredByOwner
<1>1. ActorInv => AnsweredByOwner
  BY DEF ActorInv
<1> QED
  BY <1>1, ActorSafe, PTL

(* Only a request that overtakes AddNode ends a receiver thread, that of a  *)
(* server which is not ready: registrations are neither repeated nor too    *)
(* many, and a ready node can always answer.                                *)
THEOREM ActorOnlyEarlyRequestsKill == Spec => []OnlyEarlyRequestsKill
<1>1. ActorInv => OnlyEarlyRequestsKill
  BY ServerFacts DEF ActorInv, NodeInv, ReceiverInv, SocketInv, OnlyEarlyRequestsKill
<1> QED
  BY <1>1, ActorSafe, PTL
=============================================================================

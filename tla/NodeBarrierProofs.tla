-------------------------- MODULE NodeBarrierProofs --------------------------
(***************************************************************************)
(* NoEarlyLeave, and the implementation of AbstractBarrier, for every set  *)
(* of nodes, every assignment of roles, every choice of groups and any     *)
(* number of calls, messages being dropped or not.                         *)
(***************************************************************************)
EXTENDS NodeBarrier, FiniteSetTheorems, TLAPS

\* The members of a group are finitely many, and so are those counted.
LEMMA MembersFinite ==
    ASSUME NEW g \in Groups
    PROVE  /\ IsFiniteSet(GetNodeIds(g))
           /\ Cardinality(GetNodeIds(g)) \in Nat
           /\ Cardinality(GetNodeIds(g)) <= Cardinality(Nodes)
           /\ Cardinality(Nodes) \in Nat
  <1>1. GetNodeIds(g) \subseteq Nodes
    BY DEF GetNodeIds
  <1>2. IsFiniteSet(Nodes)
    BY BarrierAssumption
  <1> QED
    BY <1>1, <1>2, FS_Subset, FS_CardinalityType

\* Counting one more member of a group keeps count of the members counted;
\* the count equals the size of the group exactly when all have been counted.
LEMMA CountOneMore ==
    ASSUME NEW S, IsFiniteSet(S), NEW n \in S, NEW A \in SUBSET S, n \notin A
    PROVE  /\ Cardinality(A) \in Nat
           /\ Cardinality(A \cup {n}) = Cardinality(A) + 1
           /\ Cardinality(A) + 1 <= Cardinality(S)
           /\ (Cardinality(A) + 1 = Cardinality(S)) <=> (A \cup {n} = S)
  <1>1. IsFiniteSet(A)
    BY FS_Subset
  <1>2. Cardinality(A) \in Nat
    BY <1>1, FS_CardinalityType
  <1>3. Cardinality(A \cup {n}) = Cardinality(A) + 1
    BY <1>1, FS_AddElement
  <1>4. A \cup {n} \in SUBSET S
    OBVIOUS
  <1>5. /\ Cardinality(A \cup {n}) <= Cardinality(S)
        /\ Cardinality(S) = Cardinality(A \cup {n}) => S = A \cup {n}
    BY <1>4, FS_Subset
  <1> QED
    BY <1>2, <1>3, <1>5

LEMMA InitIInv == Init => IInv
  <1> SUFFICES ASSUME Init PROVE IInv
    OBVIOUS
  <1> USE BarrierAssumption
  <1>0. Cardinality(Nodes) \in Nat
    BY FS_CardinalityType
  <1>1. TypeOK
    BY <1>0 DEF Init, TypeOK
  <1>2. CounterInv
    <2> SUFFICES ASSUME NEW g \in Groups
                 PROVE  /\ arrived[g] \subseteq GetNodeIds(g)
                        /\ barrier_counter[g] = Cardinality(arrived[g])
                        /\ Shared(g) => arrived[g] # GetNodeIds(g)
      BY DEF CounterInv
    <2>1. arrived[g] = {} /\ barrier_counter[g] = 0
      BY DEF Init
    <2> QED
      BY <2>1, FS_EmptySet DEF Shared
  <1>3. ArrivedInv
    BY DEF Init, ArrivedInv
  <1>4. RoundInv
    BY DEF Init, RoundInv
  <1>5. ChannelInv
    BY DEF Init, ChannelInv
  <1> QED
    BY <1>1, <1>2, <1>3, <1>4, <1>5 DEF IInv

-----------------------------------------------------------------------------
(***************************************************************************)
(* One lemma per action: it preserves the inductive invariant.             *)
(***************************************************************************)

\* A call that returns at once concerns a group that is not shared.
LEMMA BarrierOfOneIInv ==
    ASSUME IInv, NEW n \in Nodes, NEW g \in Groups, BarrierOfOne(n, g)
    PROVE  IInv'
  <1> USE BarrierAssumption DEF IInv, BarrierOfOne
  <1>0. ~Shared(g)
    BY DEF Shared
  <1>1. TypeOK'
    BY SMTT(40) DEF TypeOK
  <1>2. \A m \in Nodes, h \in Groups : Shared(h) =>
            entered'[m][h] = entered[m][h] /\ left'[m][h] = left[m][h]
    BY <1>0 DEF TypeOK
  <1>3. CounterInv'
    BY DEF CounterInv, GetNodeIds, Shared
  <1>4. ArrivedInv'
    <2> SUFFICES ASSUME NEW h \in Groups, NEW m \in arrived[h]
                 PROVE  /\ calling[m] = h /\ Pending(m, h)'
                        /\ requests[m] = <<>> /\ responses[m] = <<>>
                        /\ ~barrier_done[m]
      BY DEF ArrivedInv
    <2>1. m \in Nodes /\ calling[m] = h /\ Pending(m, h)
      BY DEF ArrivedInv, TypeOK
    <2>2. Shared(h)
      BY <2>1, BarrierAssumption DEF ChannelInv
    <2> QED
      BY <1>2, <2>1, <2>2 DEF ArrivedInv, Pending
  <1>5. RoundInv'
    BY <1>2 DEF RoundInv, Pending, Released, Shared, GetNodeIds
  <1>6. ChannelInv'
    <2>1. \A m \in Nodes : calling[m] # NoGroup =>
            calling[m] \in Groups /\ Shared(calling[m])
      BY DEF ChannelInv, TypeOK
    <2>2. \A m \in Nodes : calling[m] # NoGroup =>
            /\ entered'[m][calling[m]] = entered[m][calling[m]]
            /\ left'[m][calling[m]] = left[m][calling[m]]
      BY <1>2, <2>1
    <2> SUFFICES ASSUME NEW m \in Nodes
                 PROVE  ChannelInv!(m)'
      BY DEF ChannelInv
    <2>3. calling[m] # NoGroup =>
            /\ Pending(m, calling[m])' <=> Pending(m, calling[m])
            /\ Released(m, calling[m])' <=> Released(m, calling[m])
            /\ Shared(calling[m])' <=> Shared(calling[m])
      BY <2>2 DEF Pending, Released, Shared, GetNodeIds
    <2> QED
      BY <2>3 DEF ChannelInv
  <1> QED
    BY <1>1, <1>3, <1>4, <1>5, <1>6

LEMMA BarrierEnterIInv ==
    ASSUME IInv, NEW n \in Nodes, NEW g \in Groups, BarrierEnter(n, g)
    PROVE  IInv'
  <1> USE BarrierAssumption DEF IInv, BarrierEnter, ResetFlag
  <1>0. /\ Shared(g) /\ g # NoGroup
        /\ requests[n] = <<>> /\ responses[n] = <<>>
        /\ \A h \in Groups : n \notin arrived[h]
        /\ entered[n][g] = rounds[g] /\ left[n][g] = rounds[g]
    <2>1. Shared(g) /\ g # NoGroup /\ calling[n] # g
      BY DEF Shared
    <2>2. requests[n] = <<>> /\ responses[n] = <<>>
      BY DEF ChannelInv
    <2>3. \A h \in Groups : n \notin arrived[h]
      BY DEF ArrivedInv
    <2>4. entered[n][g] = rounds[g] /\ left[n][g] = rounds[g]
      BY <2>1 DEF RoundInv
    <2> QED
      BY <2>1, <2>2, <2>3, <2>4
  <1>1. TypeOK'
    BY DEF TypeOK
  <1>2. \A m \in Nodes, h \in Groups : m # n \/ h # g =>
            entered'[m][h] = entered[m][h]
    BY DEF TypeOK
  <1>3. entered'[n][g] = rounds[g] + 1 /\ left[n][g] = rounds[g]
    BY <1>0 DEF TypeOK
  <1>4. CounterInv'
    BY DEF CounterInv, GetNodeIds, Shared
  <1>5. ArrivedInv'
    <2> SUFFICES ASSUME NEW h \in Groups, NEW m \in arrived[h]
                 PROVE  /\ calling'[m] = h /\ Pending(m, h)'
                        /\ requests'[m] = <<>> /\ responses[m] = <<>>
                        /\ ~barrier_done'[m]
      BY DEF ArrivedInv
    <2>1. m \in Nodes /\ m # n
      BY <1>0 DEF TypeOK
    <2> QED
      BY <1>2, <2>1 DEF ArrivedInv, Pending, TypeOK
  <1>6. RoundInv'
    <2> SUFFICES ASSUME NEW m \in Nodes, NEW h \in Groups,
                        Shared(h), RoleOf[m] \in h
                 PROVE  IF calling'[m] = h
                        THEN Pending(m, h)' \/ Released(m, h)'
                        ELSE entered'[m][h] = rounds[h] /\ left[m][h] = rounds[h]
      BY DEF RoundInv, Shared, GetNodeIds
    <2>1. CASE m = n /\ h = g
      BY <2>1, <1>3 DEF TypeOK, Pending
    <2>2. CASE m = n /\ h # g
      BY <2>2, <1>2 DEF TypeOK, RoundInv
    <2>3. CASE m # n
      <3>1. calling'[m] = calling[m] /\ entered'[m][h] = entered[m][h]
        BY <2>3, <1>2 DEF TypeOK
      <3> QED
        BY <3>1 DEF RoundInv, Pending, Released
    <2> QED
      BY <2>1, <2>2, <2>3
  <1>7. ChannelInv'
    <2> SUFFICES ASSUME NEW m \in Nodes
                 PROVE  ChannelInv!(m)'
      BY DEF ChannelInv
    <2>1. CASE m = n
      BY <2>1, <1>0, <1>3 DEF TypeOK, ChannelInv, Pending, Shared, GetNodeIds
    <2>2. CASE m # n
      <3>1. calling'[m] = calling[m] /\ requests'[m] = requests[m]
            /\ barrier_done'[m] = barrier_done[m]
        BY <2>2 DEF TypeOK
      <3>2. calling[m] # NoGroup => entered'[m][calling[m]] = entered[m][calling[m]]
        BY <2>2, <1>2 DEF TypeOK
      <3> QED
        BY <3>1, <3>2 DEF ChannelInv, Pending, Released, Shared, GetNodeIds
    <2> QED
      BY <2>1, <2>2
  <1> QED
    BY <1>1, <1>4, <1>5, <1>6, <1>7

LEMMA BarrierLeaveIInv ==
    ASSUME IInv, NEW n \in Nodes, BarrierLeave(n)
    PROVE  IInv'
  <1> USE BarrierAssumption DEF IInv, BarrierLeave
  <1> DEFINE g == calling[n]
  <1>0. /\ g \in Groups /\ Released(n, g) /\ Shared(g) /\ RoleOf[n] \in g
        /\ requests[n] = <<>> /\ responses[n] = <<>>
        /\ \A h \in Groups : n \notin arrived[h]
    BY DEF TypeOK, ChannelInv, ArrivedInv
  <1>1. TypeOK'
    BY DEF TypeOK
  <1>2. \A m \in Nodes, h \in Groups : m # n \/ h # g => left'[m][h] = left[m][h]
    BY DEF TypeOK
  <1>3. entered[n][g] = rounds[g] /\ left'[n][g] = rounds[g]
    BY <1>0 DEF TypeOK, Released
  <1>4. CounterInv'
    BY DEF CounterInv, GetNodeIds, Shared
  <1>5. ArrivedInv'
    <2> SUFFICES ASSUME NEW h \in Groups, NEW m \in arrived[h]
                 PROVE  /\ calling'[m] = h /\ Pending(m, h)'
                        /\ requests[m] = <<>> /\ responses[m] = <<>>
                        /\ ~barrier_done[m]
      BY DEF ArrivedInv
    <2>1. m \in Nodes /\ m # n
      BY <1>0 DEF TypeOK
    <2> QED
      BY <1>2, <2>1 DEF ArrivedInv, Pending, TypeOK
  <1>6. RoundInv'
    <2> SUFFICES ASSUME NEW m \in Nodes, NEW h \in Groups,
                        Shared(h), RoleOf[m] \in h
                 PROVE  IF calling'[m] = h
                        THEN Pending(m, h)' \/ Released(m, h)'
                        ELSE entered[m][h] = rounds[h] /\ left'[m][h] = rounds[h]
      BY DEF RoundInv, Shared, GetNodeIds
    <2>1. CASE m = n /\ h = g
      BY <2>1, <1>3 DEF TypeOK
    <2>2. CASE m = n /\ h # g
      BY <2>2, <1>2 DEF TypeOK, RoundInv
    <2>3. CASE m # n
      <3>1. calling'[m] = calling[m] /\ left'[m][h] = left[m][h]
        BY <2>3, <1>2 DEF TypeOK
      <3> QED
        BY <3>1 DEF RoundInv, Pending, Released
    <2> QED
      BY <2>1, <2>2, <2>3
  <1>7. ChannelInv'
    <2> SUFFICES ASSUME NEW m \in Nodes
                 PROVE  ChannelInv!(m)'
      BY DEF ChannelInv
    <2>1. CASE m = n
      BY <2>1, <1>0 DEF TypeOK
    <2>2. CASE m # n
      <3>1. calling'[m] = calling[m]
        BY <2>2 DEF TypeOK
      <3>2. calling[m] # NoGroup => left'[m][calling[m]] = left[m][calling[m]]
        BY <2>2, <1>2 DEF TypeOK
      <3>3. calling[m] # NoGroup =>
              /\ Pending(m, calling[m])' <=> Pending(m, calling[m])
              /\ Released(m, calling[m])' <=> Released(m, calling[m])
              /\ Shared(calling[m])' <=> Shared(calling[m])
        BY <3>1, <3>2 DEF Pending, Released, Shared, GetNodeIds
      <3> QED
        BY <3>1, <3>3 DEF ChannelInv
    <2> QED
      BY <2>1, <2>2
  <1> QED
    BY <1>1, <1>4, <1>5, <1>6, <1>7

\* Facts shared by the two ways the coordinator can handle a request.
LEMMA RequestAtHead ==
    ASSUME IInv, NEW n \in Nodes, requests[n] # <<>>
    PROVE  /\ calling[n] \in Groups /\ requests[n] = <<calling[n]>>
           /\ Head(requests[n]) = calling[n] /\ Tail(requests[n]) = <<>>
           /\ Shared(calling[n]) /\ n \in GetNodeIds(calling[n])
           /\ Pending(n, calling[n])
           /\ responses[n] = <<>> /\ ~barrier_done[n]
           /\ \A h \in Groups : n \notin arrived[h]
  <1>1. /\ calling[n] \in Groups /\ requests[n] = <<calling[n]>>
        /\ Shared(calling[n]) /\ n \in GetNodeIds(calling[n])
        /\ Pending(n, calling[n])
        /\ responses[n] = <<>> /\ ~barrier_done[n]
    BY DEF IInv, TypeOK, ChannelInv, GetNodeIds
  <1>2. \A h \in Groups : n \notin arrived[h]
    BY DEF IInv, ArrivedInv
  <1> QED
    BY <1>1, <1>2

LEMMA DropRequestIInv ==
    ASSUME IInv, NEW n \in Nodes, DropRequest(n)
    PROVE  IInv'
  <1> USE BarrierAssumption DEF IInv, DropRequest, history
  <1>0. Tail(requests[n]) = <<>> /\ \A h \in Groups : n \notin arrived[h]
    BY RequestAtHead
  <1>1. TypeOK'
    BY <1>0 DEF TypeOK
  <1>2. CounterInv'
    BY DEF CounterInv, GetNodeIds, Shared
  <1>3. ArrivedInv'
    BY <1>0 DEF ArrivedInv, Pending, TypeOK
  <1>4. RoundInv'
    BY DEF RoundInv, Pending, Released, Shared, GetNodeIds
  <1>5. ChannelInv'
    BY <1>0 DEF ChannelInv, TypeOK, Pending, Released, Shared, GetNodeIds
  <1> QED
    BY <1>1, <1>2, <1>3, <1>4, <1>5

\* The two ways a done message leaves its channel.
LEMMA ResponseAtHead ==
    ASSUME IInv, NEW n \in Nodes, responses[n] # <<>>
    PROVE  /\ calling[n] \in Groups /\ Tail(responses[n]) = <<>>
           /\ requests[n] = <<>> /\ Released(n, calling[n])
           /\ \A h \in Groups : n \notin arrived[h]
  <1>1. /\ calling[n] \in Groups /\ responses[n] = <<"BarrierDone">>
        /\ requests[n] = <<>> /\ Released(n, calling[n])
    BY DEF IInv, TypeOK, ChannelInv
  <1>2. \A h \in Groups : n \notin arrived[h]
    BY DEF IInv, ArrivedInv
  <1> QED
    BY <1>1, <1>2

LEMMA DropResponseIInv ==
    ASSUME IInv, NEW n \in Nodes, DropResponse(n)
    PROVE  IInv'
  <1> USE BarrierAssumption DEF IInv, DropResponse, history
  <1>0. Tail(responses[n]) = <<>> /\ \A h \in Groups : n \notin arrived[h]
    BY ResponseAtHead
  <1>1. TypeOK'
    BY <1>0 DEF TypeOK
  <1>2. CounterInv'
    BY DEF CounterInv, GetNodeIds, Shared
  <1>3. ArrivedInv'
    BY <1>0 DEF ArrivedInv, Pending, TypeOK
  <1>4. RoundInv'
    BY DEF RoundInv, Pending, Released, Shared, GetNodeIds
  <1>5. ChannelInv'
    BY <1>0 DEF ChannelInv, TypeOK, Pending, Released, Shared, GetNodeIds
  <1> QED
    BY <1>1, <1>2, <1>3, <1>4, <1>5

LEMMA NotifyBarrierDoneIInv ==
    ASSUME IInv, NEW n \in Nodes, NotifyBarrierDone(n)
    PROVE  IInv'
  <1> USE BarrierAssumption DEF IInv, NotifyBarrierDone, history
  <1>0. /\ Tail(responses[n]) = <<>> /\ requests[n] = <<>>
        /\ Released(n, calling[n]) /\ \A h \in Groups : n \notin arrived[h]
    BY ResponseAtHead
  <1>1. TypeOK'
    BY <1>0 DEF TypeOK
  <1>2. CounterInv'
    BY DEF CounterInv, GetNodeIds, Shared
  <1>3. ArrivedInv'
    BY <1>0 DEF ArrivedInv, Pending, TypeOK
  <1>4. RoundInv'
    BY DEF RoundInv, Pending, Released, Shared, GetNodeIds
  <1>5. ChannelInv'
    BY <1>0 DEF ChannelInv, TypeOK, Pending, Released, Shared, GetNodeIds
  <1> QED
    BY <1>1, <1>2, <1>3, <1>4, <1>5

LEMMA HandleBarrierRequestIInv ==
    ASSUME IInv, NEW n \in Nodes, HandleBarrierRequest(n)
    PROVE  IInv'
  <1> USE BarrierAssumption
  <1> PICK g \in Groups : g = calling[n]
    BY RequestAtHead DEF HandleBarrierRequest
  <1> DEFINE complete == barrier_counter[g] + 1 = Cardinality(GetNodeIds(g))
  <1>0. /\ calling[n] = g /\ Head(requests[n]) = g /\ Tail(requests[n]) = <<>>
        /\ Shared(g) /\ n \in GetNodeIds(g) /\ Pending(n, g)
        /\ responses[n] = <<>> /\ ~barrier_done[n]
        /\ \A h \in Groups : n \notin arrived[h]
    BY RequestAtHead DEF HandleBarrierRequest
  <1>1. /\ barrier_counter' =
              [barrier_counter EXCEPT ![g] = IF complete THEN 0 ELSE @ + 1]
        /\ responses' =
              [m \in Nodes |-> IF complete /\ m \in GetNodeIds(g)
                               THEN Append(responses[m], "BarrierDone")
                               ELSE responses[m]]
        /\ rounds' = [rounds EXCEPT ![g] = IF complete THEN @ + 1 ELSE @]
        /\ arrived' = [arrived EXCEPT ![g] = IF complete THEN {} ELSE @ \cup {n}]
        /\ requests' = [requests EXCEPT ![n] = <<>>]
        /\ UNCHANGED <<calling, barrier_done, entered, left>>
    BY <1>0 DEF HandleBarrierRequest, RoundComplete, CounterAfter, Recipients
  <1>2. /\ arrived[g] \in SUBSET GetNodeIds(g) /\ n \notin arrived[g]
        /\ barrier_counter[g] = Cardinality(arrived[g])
        /\ Cardinality(arrived[g]) \in Nat
        /\ Cardinality(arrived[g] \cup {n}) = barrier_counter[g] + 1
        /\ barrier_counter[g] + 1 <= Cardinality(GetNodeIds(g))
        /\ complete <=> arrived[g] \cup {n} = GetNodeIds(g)
    <2>1. /\ arrived[g] \in SUBSET GetNodeIds(g) /\ n \notin arrived[g]
          /\ barrier_counter[g] = Cardinality(arrived[g])
      BY <1>0 DEF IInv, CounterInv
    <2>2. n \in GetNodeIds(g)
      BY <1>0
    <2>3. /\ Cardinality(arrived[g]) \in Nat
          /\ Cardinality(arrived[g] \cup {n}) = Cardinality(arrived[g]) + 1
          /\ Cardinality(arrived[g]) + 1 <= Cardinality(GetNodeIds(g))
          /\ (Cardinality(arrived[g]) + 1 = Cardinality(GetNodeIds(g)))
                <=> (arrived[g] \cup {n} = GetNodeIds(g))
      BY <2>1, <2>2, MembersFinite, CountOneMore
    <2> QED
      BY <2>1, <2>3
  <1>3. TypeOK'
    <2>1. barrier_counter[g] + 1 \in 0..Cardinality(Nodes)
      BY <1>0, <1>2, MembersFinite
    <2>2. barrier_counter' \in [Groups -> 0..Cardinality(Nodes)]
      BY <1>0, <1>1, <2>1, MembersFinite DEF IInv, TypeOK
    <2>3. responses' \in [Nodes -> Seq({"BarrierDone"})]
      BY <1>1 DEF IInv, TypeOK
    <2> QED
      BY <1>0, <1>1, <2>2, <2>3 DEF IInv, TypeOK
  <1>4. CounterInv'
    <2> SUFFICES ASSUME NEW h \in Groups
                 PROVE  /\ arrived'[h] \subseteq GetNodeIds(h)
                        /\ barrier_counter'[h] = Cardinality(arrived'[h])
                        /\ Shared(h) => arrived'[h] # GetNodeIds(h)
      BY DEF CounterInv, Shared, GetNodeIds
    <2>1. CASE h # g
      BY <2>1, <1>1 DEF IInv, CounterInv, TypeOK
    <2>2. CASE h = g /\ complete
      <3>1. arrived'[h] = {} /\ barrier_counter'[h] = 0
        BY <2>2, <1>1 DEF IInv, TypeOK
      <3> QED
        BY <3>1, <2>2, <1>0, FS_EmptySet
    <2>3. CASE h = g /\ ~complete
      <3>1. arrived'[h] = arrived[g] \cup {n} /\ barrier_counter'[h] = barrier_counter[g] + 1
        BY <2>3, <1>1 DEF IInv, TypeOK
      <3> QED
        BY <3>1, <2>3, <1>0, <1>2
    <2> QED
      BY <2>1, <2>2, <2>3
  <1>5. CASE ~complete
    <2>1. /\ rounds' = rounds /\ responses' = responses
          /\ arrived' = [arrived EXCEPT ![g] = @ \cup {n}]
      BY <1>1, <1>5 DEF IInv, TypeOK
    <2>2. ArrivedInv'
      <3> SUFFICES ASSUME NEW h \in Groups, NEW m \in arrived'[h]
                   PROVE  /\ calling[m] = h /\ Pending(m, h)
                          /\ requests'[m] = <<>> /\ responses[m] = <<>>
                          /\ ~barrier_done[m]
        BY <1>1, <2>1 DEF ArrivedInv, Pending
      <3>1. CASE m = n /\ h = g
        BY <3>1, <1>0, <1>1 DEF IInv, TypeOK
      <3>2. CASE m # n \/ h # g
        <4>1. m \in arrived[h] /\ m \in Nodes
          BY <3>2, <2>1 DEF IInv, TypeOK
        <4>2. m # n
          BY <4>1, <1>0
        <4> QED
          BY <4>1, <4>2, <1>1 DEF IInv, ArrivedInv, TypeOK
      <3> QED
        BY <3>1, <3>2
    <2>3. RoundInv'
      BY <1>1, <2>1 DEF IInv, RoundInv, Pending, Released, Shared, GetNodeIds
    <2>4. ChannelInv'
      <3> SUFFICES ASSUME NEW m \in Nodes
                   PROVE  ChannelInv!(m)'
        BY DEF ChannelInv
      <3>1. /\ Pending(m, calling[m])' <=> Pending(m, calling[m])
            /\ Released(m, calling[m])' <=> Released(m, calling[m])
            /\ Shared(calling[m])' <=> Shared(calling[m])
        BY <1>1, <2>1 DEF Pending, Released, Shared, GetNodeIds
      <3>2. requests'[m] = requests[m] \/ requests'[m] = <<>>
        BY <1>1 DEF IInv, TypeOK
      <3> QED
        BY <1>1, <2>1, <3>1, <3>2 DEF IInv, ChannelInv
    <2> QED
      BY <1>3, <1>4, <2>2, <2>3, <2>4 DEF IInv
  <1>6. CASE complete
    <2>1. /\ arrived[g] \cup {n} = GetNodeIds(g)
          /\ \A h \in Groups : rounds'[h] = IF h = g THEN rounds[g] + 1 ELSE rounds[h]
          /\ \A h \in Groups : arrived'[h] = IF h = g THEN {} ELSE arrived[h]
          /\ \A m \in Nodes : requests'[m] = IF m = n THEN <<>> ELSE requests[m]
      BY <1>1, <1>2, <1>6 DEF IInv, TypeOK
    <2>2. \A m \in GetNodeIds(g) :
            /\ m \in Nodes /\ calling[m] = g /\ Pending(m, g)
            /\ requests'[m] = <<>> /\ responses[m] = <<>> /\ ~barrier_done[m]
      BY <1>0, <2>1 DEF IInv, ArrivedInv, GetNodeIds
    <2>3. \A m \in GetNodeIds(g) :
            Released(m, g)' /\ responses'[m] = <<"BarrierDone">>
      <3> SUFFICES ASSUME NEW m \in GetNodeIds(g)
                   PROVE  Released(m, g)' /\ responses'[m] = <<"BarrierDone">>
        OBVIOUS
      <3>1. responses'[m] = <<"BarrierDone">>
        <4>1. m \in Nodes /\ responses[m] = <<>>
          BY <2>2
        <4>2. responses'[m] = Append(responses[m], "BarrierDone")
          BY <1>1, <1>6, <4>1
        <4> QED
          BY <4>1, <4>2
      <3>2. rounds'[g] = rounds[g] + 1 /\ rounds[g] \in Nat
        BY <2>1 DEF IInv, TypeOK
      <3> QED
        BY <3>1, <3>2, <2>2, <1>1 DEF Pending, Released
    <2>4. \A m \in Nodes : m \notin GetNodeIds(g) =>
            responses'[m] = responses[m] /\ requests'[m] = requests[m]
      BY <1>0, <1>1, <2>1
    <2>5. \A m \in Nodes, h \in Groups : h # g =>
            /\ Pending(m, h)' <=> Pending(m, h)
            /\ Released(m, h)' <=> Released(m, h)
      BY <1>1, <2>1 DEF Pending, Released
    <2>6. ArrivedInv'
      <3> SUFFICES ASSUME NEW h \in Groups, NEW m \in arrived[h], h # g
                   PROVE  /\ calling[m] = h /\ Pending(m, h)'
                          /\ requests'[m] = <<>> /\ responses'[m] = <<>>
                          /\ ~barrier_done[m]
        <4>1. ArrivedInv' <=>
                \A h \in Groups : \A m \in arrived'[h] :
                    /\ calling'[m] = h /\ Pending(m, h)'
                    /\ requests'[m] = <<>> /\ responses'[m] = <<>>
                    /\ ~barrier_done'[m]
          BY DEF ArrivedInv
        <4>2. \A h \in Groups : h = g => arrived'[h] = {}
          BY <2>1
        <4>3. \A h \in Groups : h # g => arrived'[h] = arrived[h]
          BY <2>1
        <4> QED
          BY <1>1, <4>1, <4>2, <4>3, ZenonT(60)
      <3>1. m \in Nodes /\ calling[m] = h /\ m \notin GetNodeIds(g)
        BY <2>2 DEF IInv, ArrivedInv, TypeOK
      <3> QED
        BY <3>1, <2>4, <2>5 DEF IInv, ArrivedInv
    <2>7. RoundInv'
      <3> SUFFICES ASSUME NEW m \in Nodes, NEW h \in Groups,
                          Shared(h), RoleOf[m] \in h
                   PROVE  IF calling[m] = h
                          THEN Pending(m, h)' \/ Released(m, h)'
                          ELSE entered[m][h] = rounds'[h] /\ left[m][h] = rounds'[h]
        <4>1. \A h \in Groups : Shared(h)' <=> Shared(h)
          BY DEF Shared, GetNodeIds
        <4> QED
          BY <1>1, <4>1 DEF RoundInv
      <3>1. CASE h = g
        <4>1. m \in GetNodeIds(g)
          BY <3>1 DEF GetNodeIds
        <4> QED
          BY <3>1, <4>1, <2>2, <2>3
      <3>2. CASE h # g
        BY <3>2, <2>1, <2>5 DEF IInv, RoundInv
      <3> QED
        BY <3>1, <3>2
    <2>8. ChannelInv'
      <3> SUFFICES ASSUME NEW m \in Nodes
                   PROVE  ChannelInv!(m)'
        BY DEF ChannelInv
      <3>0. Shared(calling[m])' <=> Shared(calling[m])
        BY <1>1 DEF Shared, GetNodeIds
      <3>1. CASE m \in GetNodeIds(g)
        BY <3>0, <3>1, <2>2, <2>3, <1>0, <1>1 DEF GetNodeIds
      <3>2. CASE m \notin GetNodeIds(g)
        <4>1. calling[m] # g
          BY <3>2 DEF IInv, ChannelInv, GetNodeIds
        <4>2. calling[m] \in Groups \/ calling[m] = NoGroup
          BY DEF IInv, TypeOK
        <4> QED
          BY <3>0, <3>2, <4>1, <4>2, <2>4, <2>5, <1>1 DEF IInv, ChannelInv
      <3> QED
        BY <3>1, <3>2
    <2> QED
      BY <1>3, <1>4, <2>6, <2>7, <2>8 DEF IInv
  <1> QED
    BY <1>5, <1>6

-----------------------------------------------------------------------------

LEMMA NextIInv == IInv /\ [Next]_vars => IInv'
  <1> SUFFICES ASSUME IInv, [Next]_vars PROVE IInv'
    OBVIOUS
  <1>0. CallGroups \subseteq Groups
    BY BarrierAssumption
  <1>1. CASE \E n \in Nodes, g \in CallGroups : BarrierOfOne(n, g)
    BY <1>0, <1>1, BarrierOfOneIInv
  <1>2. CASE \E n \in Nodes, g \in CallGroups : BarrierEnter(n, g)
    BY <1>0, <1>2, BarrierEnterIInv
  <1>3. CASE \E n \in Nodes : BarrierLeave(n)
    BY <1>3, BarrierLeaveIInv
  <1>4. CASE \E n \in Nodes : HandleBarrierRequest(n)
    BY <1>4, HandleBarrierRequestIInv
  <1>5. CASE \E n \in Nodes : NotifyBarrierDone(n)
    BY <1>5, NotifyBarrierDoneIInv
  <1>6. CASE \E n \in Nodes : DropRequest(n)
    BY <1>6, DropRequestIInv
  <1>7. CASE \E n \in Nodes : DropResponse(n)
    BY <1>7, DropResponseIInv
  <1>8. CASE UNCHANGED vars
    <2> USE <1>8 DEF vars, history, IInv
    <2>1. TypeOK'
      BY DEF TypeOK
    <2>2. CounterInv'
      BY DEF CounterInv, Shared, GetNodeIds
    <2>3. ArrivedInv'
      BY DEF ArrivedInv, Pending
    <2>4. RoundInv'
      BY DEF RoundInv, Pending, Released, Shared, GetNodeIds
    <2>5. ChannelInv'
      BY DEF ChannelInv, Pending, Released, Shared, GetNodeIds
    <2> QED
      BY <2>1, <2>2, <2>3, <2>4, <2>5
  <1> QED
    BY <1>1, <1>2, <1>3, <1>4, <1>5, <1>6, <1>7, <1>8 DEF Next, Step, Drop

\* The coordinator's bookkeeping and the messages in flight always agree on
\* the round each member is in.
THEOREM BarrierInductive == Spec => []IInv
  BY InitIInv, NextIInv, PTL DEF Spec

\* Types of the barrier's state.
THEOREM BarrierTypeOK == Spec => []TypeOK
  <1>1. IInv => TypeOK
    BY DEF IInv
  <1> QED
    BY <1>1, BarrierInductive, PTL

LEMMA IInvNoEarlyLeave == IInv => NoEarlyLeave
  <1> SUFFICES ASSUME IInv, NEW g \in Groups, Shared(g),
                      NEW n \in GetNodeIds(g), NEW m \in GetNodeIds(g)
               PROVE  left[n][g] <= entered[m][g]
    BY DEF NoEarlyLeave
  <1>1. /\ n \in Nodes /\ RoleOf[n] \in g
        /\ m \in Nodes /\ RoleOf[m] \in g
    BY DEF GetNodeIds
  <1>2. /\ left[n][g] \in Nat /\ entered[m][g] \in Nat /\ rounds[g] \in Nat
    BY <1>1 DEF IInv, TypeOK
  <1>3. left[n][g] <= rounds[g]
    BY <1>1, <1>2 DEF IInv, RoundInv, Pending, Released
  <1>4. rounds[g] <= entered[m][g]
    BY <1>1, <1>2 DEF IInv, RoundInv, Pending, Released
  <1> QED
    BY <1>2, <1>3, <1>4

\* No call of Barrier returns before every member has begun the same call,
\* for any job: NodeManager::Barrier keeps its promise although the
\* coordinator only counts requests.
THEOREM BarrierNoEarlyLeave == Spec => []NoEarlyLeave
  BY BarrierInductive, IInvNoEarlyLeave, PTL

-----------------------------------------------------------------------------
(***************************************************************************)
(* The implementation of AbstractBarrier.  A call of Barrier is Enter, the *)
(* request that completes a round is Release, the return of the call is    *)
(* Leave, and every other step leaves the phases alone.                    *)
(***************************************************************************)

\* A step that leaves the phase of every member alone stutters.
LEMMA PhaseStutter ==
    ASSUME \A n \in Nodes, g \in SharedGroups : PhaseOf(n, g)' = PhaseOf(n, g)
    PROVE  PhaseMap' = PhaseMap
  BY DEF PhaseMap, SharedGroups, Shared, GetNodeIds

LEMMA RefineEnter ==
    ASSUME IInv, NEW n \in Nodes, NEW g \in Groups, BarrierEnter(n, g)
    PROVE  AB!Enter(n, g) /\ g \in SharedGroups
  <1> USE BarrierAssumption
  <1>1. g \in SharedGroups /\ n \in Membership[g]
    BY DEF BarrierEnter, SharedGroups, Shared, Membership, GetNodeIds
  <1>2. \A h \in SharedGroups : PhaseMap[n][h] = "outside"
    BY DEF BarrierEnter, PhaseMap, PhaseOf, SharedGroups
  <1>3. entered[n][g] = rounds[g] /\ entered[n][g] \in Nat
    BY DEF IInv, TypeOK, RoundInv, BarrierEnter, Shared
  <1>4. PhaseOf(n, g)' = "waiting"
    BY <1>3 DEF BarrierEnter, PhaseOf, IInv, TypeOK
  <1>5. \A m \in Nodes, h \in SharedGroups :
            m # n \/ h # g => PhaseOf(m, h)' = PhaseOf(m, h)
    BY DEF BarrierEnter, PhaseOf, IInv, TypeOK, SharedGroups
  <1>6. SharedGroups' = SharedGroups
    BY DEF SharedGroups, Shared, GetNodeIds
  <1>7. PhaseMap' = [PhaseMap EXCEPT ![n][g] = "waiting"]
    BY <1>1, <1>4, <1>5, <1>6 DEF PhaseMap
  <1> QED
    BY <1>1, <1>2, <1>7 DEF AB!Enter

LEMMA RefineLeave ==
    ASSUME IInv, NEW n \in Nodes, BarrierLeave(n)
    PROVE  calling[n] \in SharedGroups /\ AB!Leave(n, calling[n])
  <1> USE BarrierAssumption
  <1> PICK g \in Groups : g = calling[n]
    BY DEF BarrierLeave, IInv, TypeOK
  <1>1. g \in SharedGroups /\ Released(n, g) /\ g # NoGroup
    BY DEF BarrierLeave, IInv, ChannelInv, SharedGroups
  <1>2. PhaseMap[n][g] = "released"
    BY <1>1 DEF PhaseMap, PhaseOf, Released, IInv, TypeOK
  <1>3. PhaseOf(n, g)' = "outside"
    BY <1>1 DEF BarrierLeave, PhaseOf, IInv, TypeOK
  <1>4. \A m \in Nodes, h \in SharedGroups :
            m # n \/ h # g => PhaseOf(m, h)' = PhaseOf(m, h)
    BY DEF BarrierLeave, PhaseOf, IInv, TypeOK, SharedGroups
  <1>5. SharedGroups' = SharedGroups
    BY DEF SharedGroups, Shared, GetNodeIds
  <1>6. PhaseMap' = [PhaseMap EXCEPT ![n][g] = "outside"]
    BY <1>1, <1>3, <1>4, <1>5 DEF PhaseMap
  <1> QED
    BY <1>1, <1>2, <1>6 DEF AB!Leave

\* Counting a request stutters, unless it completes the round.
LEMMA RefineRequest ==
    ASSUME IInv, NEW n \in Nodes, HandleBarrierRequest(n)
    PROVE  \/ calling[n] \in SharedGroups /\ AB!Release(calling[n])
           \/ PhaseMap' = PhaseMap
  <1> USE BarrierAssumption
  <1> PICK g \in Groups : g = calling[n]
    BY RequestAtHead DEF HandleBarrierRequest
  <1> DEFINE complete == barrier_counter[g] + 1 = Cardinality(GetNodeIds(g))
  <1>0. /\ Head(requests[n]) = g /\ Shared(g) /\ n \in GetNodeIds(g)
        /\ Pending(n, g) /\ \A h \in Groups : n \notin arrived[h]
    BY RequestAtHead DEF HandleBarrierRequest
  <1>1. /\ rounds' = [rounds EXCEPT ![g] = IF complete THEN @ + 1 ELSE @]
        /\ calling' = calling /\ entered' = entered
    BY <1>0 DEF HandleBarrierRequest, RoundComplete, CounterAfter, Recipients
  <1>2. CASE ~complete
    <2>1. rounds' = rounds
      BY <1>1, <1>2 DEF IInv, TypeOK
    <2> QED
      BY <1>1, <2>1, PhaseStutter DEF PhaseOf
  <1>3. CASE complete
    <2>1. arrived[g] \in SUBSET GetNodeIds(g) /\ barrier_counter[g] = Cardinality(arrived[g])
      BY DEF IInv, CounterInv
    <2>2. arrived[g] \cup {n} = GetNodeIds(g)
      BY <1>0, <1>3, <2>1, MembersFinite, CountOneMore
    <2>3. \A m \in GetNodeIds(g) : m \in Nodes /\ calling[m] = g /\ Pending(m, g)
      BY <1>0, <2>2 DEF IInv, ArrivedInv, GetNodeIds
    <2>4. g \in SharedGroups /\ Membership[g] = GetNodeIds(g) /\ Membership[g] # {}
      BY <1>0 DEF SharedGroups, Membership
    <2>5. \A m \in Membership[g] : PhaseMap[m][g] = "waiting"
      BY <2>3, <2>4 DEF PhaseMap, PhaseOf, Pending, IInv, TypeOK
    <2>6. \A m \in Nodes, h \in SharedGroups :
            PhaseOf(m, h)' = IF h = g /\ m \in Membership[g]
                             THEN "released" ELSE PhaseMap[m][h]
      <3> SUFFICES ASSUME NEW m \in Nodes, NEW h \in SharedGroups
                   PROVE  PhaseOf(m, h)' = IF h = g /\ m \in Membership[g]
                                           THEN "released" ELSE PhaseMap[m][h]
        OBVIOUS
      <3>1. CASE h = g /\ m \in Membership[g]
        <4>1. calling[m] = g /\ entered[m][g] = rounds[g] + 1 /\ rounds[g] \in Nat
          BY <2>3, <2>4, <3>1 DEF Pending, IInv, TypeOK
        <4>2. rounds'[g] = rounds[g] + 1
          BY <1>1, <1>3 DEF IInv, TypeOK
        <4> QED
          BY <1>1, <3>1, <4>1, <4>2 DEF PhaseOf
      <3>2. CASE h = g /\ m \notin Membership[g]
        <4>1. calling[m] # g
          BY <2>4, <3>2 DEF IInv, ChannelInv, GetNodeIds
        <4> QED
          BY <1>1, <3>2, <4>1 DEF PhaseMap, PhaseOf
      <3>3. CASE h # g
        <4>1. rounds'[h] = rounds[h]
          BY <1>1, <3>3 DEF IInv, TypeOK, SharedGroups
        <4> QED
          BY <1>1, <3>3, <4>1 DEF PhaseMap, PhaseOf
      <3> QED
        BY <3>1, <3>2, <3>3
    <2>7. SharedGroups' = SharedGroups
      BY DEF SharedGroups, Shared, GetNodeIds
    <2>8. PhaseMap' = [m \in Nodes |-> [h \in SharedGroups |->
                          IF h = g /\ m \in Membership[g]
                          THEN "released" ELSE PhaseMap[m][h]]]
      BY <2>6, <2>7 DEF PhaseMap
    <2> QED
      BY <2>4, <2>5, <2>8 DEF AB!Release
  <1> QED
    BY <1>2, <1>3

\* The message-passing barrier implements the abstract one.
THEOREM BarrierRefinement == Spec => ImplementsBarrier
  <1>1. Init => AB!Init
    BY BarrierAssumption DEF Init, AB!Init, PhaseMap, PhaseOf, SharedGroups
  <1>2. IInv /\ [Next]_vars => [AB!Next]_PhaseMap
    <2> SUFFICES ASSUME IInv, [Next]_vars PROVE AB!Next \/ PhaseMap' = PhaseMap
      OBVIOUS
    <2>1. CASE \E n \in Nodes, g \in CallGroups : BarrierOfOne(n, g)
      <3> PICK n \in Nodes, g \in CallGroups : BarrierOfOne(n, g)
        BY <2>1
      <3>1. \A m \in Nodes, h \in SharedGroups : entered'[m][h] = entered[m][h]
        BY BarrierAssumption DEF BarrierOfOne, SharedGroups, Shared, IInv, TypeOK
      <3> QED
        BY <3>1, PhaseStutter DEF BarrierOfOne, PhaseOf
    <2>2. CASE \E n \in Nodes, g \in CallGroups : BarrierEnter(n, g)
      BY <2>2, RefineEnter, BarrierAssumption DEF AB!Next
    <2>3. CASE \E n \in Nodes : BarrierLeave(n)
      BY <2>3, RefineLeave DEF AB!Next
    <2>4. CASE \E n \in Nodes : HandleBarrierRequest(n)
      BY <2>4, RefineRequest DEF AB!Next
    <2>5. CASE \E n \in Nodes : NotifyBarrierDone(n) \/ DropRequest(n) \/ DropResponse(n)
      BY <2>5, PhaseStutter DEF NotifyBarrierDone, DropRequest, DropResponse, history, PhaseOf
    <2>6. CASE UNCHANGED vars
      BY <2>6, PhaseStutter DEF vars, history, PhaseOf
    <2> QED
      BY <2>1, <2>2, <2>3, <2>4, <2>5, <2>6 DEF Next, Step, Drop
  <1> QED
    BY <1>1, <1>2, BarrierInductive, PTL DEF Spec, ImplementsBarrier, AB!Spec

=============================================================================

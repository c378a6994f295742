------------------------ MODULE RequestTrackerProofs ------------------------
(***************************************************************************)
(* Proofs about RequestTracker: the inductive invariant IInv, and from it  *)
(* that the receiver thread survives every response and that a call that   *)
(* ends normally has one response to each of its requests, for any number  *)
(* of threads, servers and calls and any capacity of the pipes.            *)
(***************************************************************************)
EXTENDS RequestTracker, FiniteSetTheorems, TLAPS

\* The responses of an entry are finitely many, and when there are as many as
\* requests were sent, there is one to each of them.
LEMMA FullEntry ==
    ASSUME NEW n \in Nat, NEW A \in SUBSET (1..n), Cardinality(A) = n
    PROVE  A = 1..n
<1>1. IsFiniteSet(1..n) /\ Cardinality(1..n) = n
  BY FS_Interval
<1>2. QED
  BY <1>1, FS_Subset

LEMMA OneMore ==
    ASSUME NEW n \in Nat, NEW A \in SUBSET (1..n), NEW k \in 1..n, k \notin A
    PROVE  Cardinality(A \cup {k}) = Cardinality(A) + 1
<1>1. IsFiniteSet(1..n)
  BY FS_Interval
<1>2. IsFiniteSet(A)
  BY <1>1, FS_Subset
<1>3. QED
  BY <1>2, FS_AddElement

LEMMA InitIInv == Init => IInv
<1> SUFFICES ASSUME Init PROVE IInv
  OBVIOUS
<1> USE TrackerAssumption
<1>1. TypeOK
  BY DEF Init, TypeOK, Ids, Requests
<1>2. LockInv /\ CallInv /\ NoLostWakeUp /\ ReceiverSurvives
  BY DEF Init, LockInv, CallInv, NoLostWakeUp, ReceiverSurvives
<1>3. EntryInv
  <2>1. Cardinality({}) = 0
    BY FS_EmptySet
  <2>2. QED
    BY <2>1 DEF Init, EntryInv, Ids
<1>4. RouteInv
  BY DEF Init, RouteInv, Requests, Ids
<1>5. PlaceInv
  BY DEF Init, PlaceInv, Requests, Ids
<1>6. QED
  BY <1>1, <1>2, <1>3, <1>4, <1>5 DEF IInv

\* What the parts of the invariant say about one call, as facts without records.
LEMMA IdFacts ==
    ASSUME IInv, NEW t \in Threads, state[t] # "idle"
    PROVE  /\ call[t] \in Ids /\ call[t] \in tracked /\ call[t] < counter
           /\ sent[call[t]] \in Nat /\ total[call[t]] \in Nat
           /\ sent[call[t]] <= total[call[t]] /\ total[call[t]] <= MaxRequests
           /\ total[call[t]] = Len(asked[call[t]])
           /\ outcome[call[t]] = "none"
<1>1. call[t] \in tracked /\ outcome[call[t]] = "none"
  BY DEF IInv, CallInv
<1>2. call[t] \in Ids
  BY <1>1 DEF IInv, TypeOK
<1>3. QED
  BY <1>1, <1>2 DEF IInv, EntryInv, TypeOK

\* In a complete call every request is answered.
LEMMA CompleteMeansAll ==
    ASSUME IInv, NEW t \in Threads, state[t] # "idle", Complete(call[t])
    PROVE  arrived[call[t]] = 1..total[call[t]]
<1> DEFINE i == call[t]
<1>1. i \in Ids /\ total[i] \in Nat /\ sent[i] \in Nat /\ sent[i] <= total[i]
  BY IdFacts
<1>2. arrived[i] \subseteq 1..MaxRequests
  BY <1>1 DEF IInv, TypeOK
<1>3. ASSUME NEW k \in arrived[i] PROVE k <= sent[i]
  <2>1. <<i, k>> \in Requests
    BY <1>1, <1>2 DEF Requests
  <2>2. QED
    BY <2>1 DEF IInv, RouteInv
<1>4. arrived[i] \in SUBSET (1..total[i])
  BY <1>1, <1>2, <1>3, TrackerAssumption
<1>5. Cardinality(arrived[i]) = total[i]
  BY <1>1 DEF IInv, EntryInv, Complete
<1>6. QED
  BY <1>1, <1>4, <1>5, FullEntry

LEMMA BeginCallIInv ==
    ASSUME IInv, NEW t \in Threads, NEW receivers \in Shapes, BeginCall(t, receivers)
    PROVE  IInv'
<1>0. /\ receivers \in Seq(Servers \cup Peers) /\ Len(receivers) \in Nat
      /\ Len(receivers) <= MaxRequests /\ MaxCalls \in Nat /\ MaxRequests \in Nat
      /\ Nobody \notin Threads
  BY TrackerAssumption
<1>a. counter \in Ids /\ counter \in Nat
  <2>1. counter \in 0..MaxCalls
    BY DEF IInv, TypeOK
  <2>2. counter < MaxCalls
    BY DEF BeginCall
  <2>3. QED
    BY <1>0, <2>1, <2>2 DEF Ids
<1>b. EntryInv!(counter)
  BY <1>a DEF IInv, EntryInv
<1>1. /\ counter \notin tracked /\ sent[counter] = 0 /\ outcome[counter] = "none"
  BY <1>a, <1>b
<1>c. PICK c \in Ids : c = counter
  BY <1>a
<1>d. /\ state \in [Threads -> {"idle", "sending", "waiting"}] /\ call \in [Threads -> Nat]
      /\ total \in [Ids -> Nat] /\ asked \in [Ids -> Seq(Servers \cup Peers)]
      /\ tracked \subseteq Ids /\ c \in Nat
  BY <1>a, <1>c DEF IInv, TypeOK
<1>e. /\ tracked' = tracked \cup {c} /\ total' = [total EXCEPT ![c] = Len(receivers)]
      /\ asked' = [asked EXCEPT ![c] = receivers]
      /\ state' = [state EXCEPT ![t] = "sending"]
      /\ call' = [call EXCEPT ![t] = c] /\ counter' = c + 1
      /\ UNCHANGED <<arrived, size, sent, notified, outcome>>
  BY <1>c DEF BeginCall
<1>f. c \notin tracked /\ sent[c] = 0 /\ outcome[c] = "none"
  BY <1>1, <1>c
<1>2. TypeOK'
  <2>1. counter' \in 0..MaxCalls /\ mutex' \in Threads \cup {Nobody}
    BY <1>0, <1>a DEF Ids, BeginCall
  <2>2. tracked' \subseteq Ids /\ total' \in [Ids -> Nat] /\ asked' \in [Ids -> Seq(Servers \cup Peers)]
    BY <1>0, <1>d, <1>e
  <2>3. state' \in [Threads -> {"idle", "sending", "waiting"}] /\ call' \in [Threads -> Nat]
    BY <1>d, <1>e
  <2>4. QED
    BY <2>1, <2>2, <2>3 DEF IInv, TypeOK, BeginCall, serverVars
<1>3. LockInv'
  BY <1>0 DEF IInv, TypeOK, LockInv, BeginCall
<1>4. CallInv'
  <2>1. CallInv
    BY DEF IInv
  <2>2. \A u \in Threads : u # t /\ state[u] # "idle" => call[u] # c /\ call[u] \in Ids
    BY <1>d, <1>f, <2>1 DEF CallInv
  <2>3. QED
    BY <1>d, <1>e, <1>f, <2>1, <2>2 DEF CallInv
<1>5. EntryInv'
  <2> SUFFICES ASSUME NEW j \in Ids PROVE EntryInv!(j)'
    BY DEF EntryInv
  <2>1. EntryInv!(j)
    BY DEF IInv, EntryInv
  <2>2. j \in Nat
    BY DEF Ids
  <2>3. j \in tracked' <=> j < counter' /\ outcome'[j] \in {"none", "unsent"}
    BY <1>c, <1>d, <1>e, <1>f, <2>1, <2>2
  <2>4. counter' <= j => sent'[j] = 0 /\ outcome'[j] = "none"
    BY <1>c, <1>d, <1>e, <2>1, <2>2
  <2>5. /\ total'[j] = Len(asked'[j]) /\ sent'[j] <= total'[j] /\ total'[j] <= MaxRequests
        /\ outcome'[j] \in {"returned", "exception"} => arrived'[j] = 1..total'[j]
    <3>1. CASE j = c
      BY <1>0, <1>d, <1>e, <1>f, <3>1
    <3>2. CASE j # c
      BY <1>d, <1>e, <2>1, <3>2
    <3>3. QED
      BY <3>1, <3>2
  <2>6. size'[j] = Cardinality(arrived'[j])
    BY <1>e, <2>1
  <2>7. QED
    BY <2>3, <2>4, <2>5, <2>6
<1>6. RouteInv'
  <2> SUFFICES ASSUME NEW q \in Requests PROVE RouteInv!(q)'
    BY DEF RouteInv
  <2>1. q[1] \in Ids /\ q[2] \in 1..MaxRequests
    BY DEF Requests
  <2>2. RouteInv!(q)
    BY DEF IInv, RouteInv
  <2>3. CASE q[1] = counter
    BY <1>1, <1>e, <2>1, <2>2, <2>3 DEF BeginCall, serverVars
  <2>4. CASE q[1] # counter
    BY <1>1, <2>1, <2>2, <2>4 DEF IInv, TypeOK, BeginCall, serverVars
  <2>5. QED
    BY <2>3, <2>4
<1>7. PlaceInv'
  BY DEF IInv, PlaceInv, BeginCall, serverVars
<1>8. NoLostWakeUp' /\ ReceiverSurvives'
  <2>1. \A u \in Threads : state[u] = "waiting" => call[u] # c /\ call[u] \in Ids
    BY <1>d, <1>f DEF IInv, CallInv
  <2>2. NoLostWakeUp /\ ReceiverSurvives
    BY DEF IInv
  <2>3. NoLostWakeUp'
    BY <1>d, <1>e, <2>1, <2>2 DEF NoLostWakeUp, Complete
  <2>4. QED
    BY <2>2, <2>3 DEF ReceiverSurvives, BeginCall
<1>9. QED
  BY <1>2, <1>3, <1>4, <1>5, <1>6, <1>7, <1>8 DEF IInv

LEMMA SendIInv ==
    ASSUME IInv, NEW t \in Threads, Send(t)
    PROVE  IInv'
<1>0. MaxCalls \in Nat /\ MaxRequests \in Nat
  BY TrackerAssumption
<1>a. state[t] = "sending"
  BY DEF Send
<1>b. PICK i \in Ids : i = call[t]
  BY <1>a, IdFacts
<1>c. PICK k \in Nat : k = sent[i] + 1
  BY <1>a, <1>b, IdFacts
<1>d. PICK r \in Servers : r = NextReceiver(t)
  BY DEF Send
<1>1. /\ i \in Ids /\ i \in tracked /\ i < counter /\ outcome[i] = "none"
      /\ sent[i] \in Nat /\ total[i] \in Nat /\ sent[i] < total[i] /\ total[i] <= MaxRequests
      /\ state[t] = "sending"
  BY <1>a, <1>b, IdFacts DEF Send
<1>2. /\ r \in Servers /\ r = asked[i][k] /\ <<i, k>> \in Requests
      /\ toServer' = [toServer EXCEPT ![r] = @ \cup {<<i, k>>}]
      /\ sent' = [sent EXCEPT ![i] = @ + 1]
      /\ UNCHANGED <<mutex, counter, tracked, total, arrived, size, state, call, notified,
                     serving, toClient, raised, incoming, alive, asked, outcome>>
  BY <1>0, <1>b, <1>c, <1>d, <1>1 DEF Send, NextReceiver, Requests
<1>e. sent \in [Ids -> Nat] /\ toServer \in [Servers -> SUBSET Requests]
  BY DEF IInv, TypeOK
<1>3. sent' \in [Ids -> Nat] /\ toServer' \in [Servers -> SUBSET Requests]
  BY <1>1, <1>2, <1>e
<1>4. TypeOK'
  BY <1>2, <1>3 DEF IInv, TypeOK
<1>5. LockInv' /\ NoLostWakeUp' /\ ReceiverSurvives'
  BY <1>2 DEF IInv, LockInv, NoLostWakeUp, ReceiverSurvives, Complete
<1>6. CallInv'
  <2>1. ASSUME NEW u \in Threads, state[u] = "waiting" PROVE sent'[call[u]] = total[call[u]]
    <3>1. call[u] # i
      BY <1>1, <1>b, <2>1 DEF IInv, CallInv
    <3>2. call[u] \in Ids
      BY <2>1, IdFacts
    <3>3. QED
      BY <1>2, <1>e, <2>1, <3>1, <3>2 DEF IInv, CallInv
  <2>2. QED
    BY <1>2, <2>1 DEF IInv, CallInv
<1>7. EntryInv'
  <2> SUFFICES ASSUME NEW j \in Ids PROVE EntryInv!(j)'
    BY DEF EntryInv
  <2>1. EntryInv!(j)
    BY DEF IInv, EntryInv
  <2>2. CASE j = i
    <3>1. sent'[j] = sent[j] + 1 /\ sent'[j] <= total[j]
      BY <1>1, <1>2, <1>e, <2>2
    <3>2. j \in Nat /\ counter \in Nat /\ ~(counter <= j)
      BY <1>0, <1>1, <2>2 DEF IInv, TypeOK, Ids
    <3>3. QED
      BY <1>1, <1>2, <2>1, <2>2, <3>1, <3>2
  <2>3. CASE j # i
    BY <1>2, <1>e, <2>1, <2>3
  <2>4. QED
    BY <2>2, <2>3
<1>8. ASSUME NEW q \in Requests
      PROVE  /\ q[1] \in Ids /\ q[2] \in 1..MaxRequests
             /\ q[2] <= sent[q[1]] => q[2] <= sent'[q[1]]
             /\ q = <<i, k>> => q[2] <= sent'[q[1]] /\ ~(q[2] <= sent[q[1]])
  <2>1. q[1] \in Ids /\ q[2] \in 1..MaxRequests /\ q = <<q[1], q[2]>>
    BY DEF Requests
  <2>2. CASE q[1] = i
    BY <1>1, <1>2, <1>c, <1>e, <2>1, <2>2
  <2>3. CASE q[1] # i
    BY <1>2, <1>e, <2>1, <2>3
  <2>4. QED
    BY <2>2, <2>3
<1>9. RouteInv'
  <2> SUFFICES ASSUME NEW q \in Requests PROVE RouteInv!(q)'
    BY DEF RouteInv
  <2>1. RouteInv!(q)
    BY DEF IInv, RouteInv
  <2>2. incoming' = q \/ q[2] \in arrived'[q[1]] => q[2] <= sent'[q[1]]
    BY <1>2, <1>8, <2>1
  <2>3. ASSUME NEW s \in Servers, q \in toServer'[s] \/ serving'[s] = q \/ q \in toClient'[s]
        PROVE  q[2] <= sent'[q[1]] /\ asked'[q[1]][q[2]] = s
    <3>1. CASE q = <<i, k>>
      <4>1. ~(q \in toServer[s] \/ serving[s] = q \/ q \in toClient[s])
        BY <1>8, <2>1, <3>1
      <4>2. s = r
        BY <1>2, <1>e, <2>3, <4>1
      <4>3. q[1] = i /\ q[2] = k
        BY <3>1
      <4>4. QED
        BY <1>2, <1>8, <3>1, <4>2, <4>3
    <3>2. CASE q # <<i, k>>
      <4>1. q \in toServer[s] \/ serving[s] = q \/ q \in toClient[s]
        BY <1>2, <1>e, <2>3, <3>2
      <4>2. QED
        BY <1>2, <1>8, <2>1, <4>1
    <3>3. QED
      BY <3>1, <3>2
  <2>4. QED
    BY <2>2, <2>3
<1>10. PlaceInv'
  <2> SUFFICES ASSUME NEW q \in Requests PROVE PlaceInv!(q)'
    BY DEF PlaceInv
  <2>1. PlaceInv!(q) /\ RouteInv!(q)
    BY DEF IInv, PlaceInv, RouteInv
  <2>2. CASE q = <<i, k>>
    <3>1. incoming # q /\ q[2] \notin arrived[q[1]]
      BY <1>8, <2>1, <2>2
    <3>2. \A s \in Servers : serving[s] # q /\ q \notin toClient[s]
      BY <1>8, <2>1, <2>2
    <3>3. QED
      BY <1>2, <3>1, <3>2
  <2>3. CASE q # <<i, k>>
    <3>1. \A s \in Servers : q \in toServer'[s] <=> q \in toServer[s]
      BY <1>2, <1>e, <2>3
    <3>2. QED
      BY <1>2, <2>1, <3>1
  <2>4. QED
    BY <2>2, <2>3
<1>11. QED
  BY <1>4, <1>5, <1>6, <1>7, <1>9, <1>10 DEF IInv

LEMMA SendThrowsIInv ==
    ASSUME IInv, NEW t \in Threads, SendThrows(t)
    PROVE  IInv'
<1>1. state[t] = "sending"
  BY DEF SendThrows
<1>2. PICK i \in Ids : i = call[t]
  BY <1>1, IdFacts
<1>3. /\ mutex' = Nobody /\ state' = [state EXCEPT ![t] = "idle"]
      /\ outcome' = [outcome EXCEPT ![i] = "unsent"]
      /\ UNCHANGED <<counter, tracked, total, arrived, size, sent, call, notified,
                     incoming, alive, asked, toServer, serving, toClient, raised>>
  BY <1>2 DEF SendThrows, serverVars
<1>4. /\ i \in tracked /\ i < counter /\ outcome[i] = "none"
  BY <1>1, <1>2, IdFacts
<1>5. TypeOK'
  BY <1>3 DEF IInv, TypeOK
<1>6. LockInv'
  BY <1>1, <1>3, TrackerAssumption DEF IInv, TypeOK, LockInv
<1>7. CallInv'
  <2>1. \A u \in Threads : u # t /\ state[u] # "idle" => call[u] # i
    BY <1>1, <1>2 DEF IInv, CallInv
  <2>2. state \in [Threads -> {"idle", "sending", "waiting"}] /\ outcome \in [Ids -> {"none", "unsent", "returned", "exception"}]
    BY DEF IInv, TypeOK
  <2>3. CallInv /\ tracked \subseteq Ids
    BY DEF IInv, TypeOK
  <2>4. QED
    BY <1>3, <2>1, <2>2, <2>3 DEF CallInv
<1>8. EntryInv'
  <2> SUFFICES ASSUME NEW j \in Ids PROVE EntryInv!(j)'
    BY DEF EntryInv
  <2>1. EntryInv!(j)
    BY DEF IInv, EntryInv
  <2>2. outcome \in [Ids -> {"none", "unsent", "returned", "exception"}] /\ counter \in Nat /\ j \in Nat
    BY TrackerAssumption DEF IInv, TypeOK, Ids
  <2>3. CASE j = i
    BY <1>3, <1>4, <2>1, <2>2, <2>3
  <2>4. CASE j # i
    BY <1>3, <2>1, <2>2, <2>4
  <2>5. QED
    BY <2>3, <2>4
<1>9. RouteInv' /\ PlaceInv'
  BY <1>3 DEF IInv, RouteInv, PlaceInv
<1>10. NoLostWakeUp' /\ ReceiverSurvives'
  BY <1>3 DEF IInv, TypeOK, NoLostWakeUp, ReceiverSurvives, Complete
<1>11. QED
  BY <1>5, <1>6, <1>7, <1>8, <1>9, <1>10 DEF IInv

LEMMA CollectIInv ==
    ASSUME IInv, NEW t \in Threads, state[t] # "idle", mutex \in {t, Nobody},
           Complete(call[t]), Collect(t), notified' \in {notified, notified \ {t}}
    PROVE  IInv'
<1>2. PICK i \in Ids : i = call[t]
  BY IdFacts
<1>3. /\ mutex' = Nobody /\ tracked' = tracked \ {i} /\ state' = [state EXCEPT ![t] = "idle"]
      /\ \E o \in {"returned", "exception"} : outcome' = [outcome EXCEPT ![i] = o]
      /\ UNCHANGED <<counter, total, arrived, size, sent, call, incoming, alive, asked,
                     toServer, serving, toClient, raised>>
  BY <1>2 DEF Collect, Erase, serverVars
<1>4. PICK o \in {"returned", "exception"} : outcome' = [outcome EXCEPT ![i] = o]
  BY <1>3
<1>5. i \in tracked /\ i < counter /\ outcome[i] = "none"
  BY <1>2, IdFacts
<1>6. arrived[i] = 1..total[i]
  BY <1>2, CompleteMeansAll
<1>7. TypeOK'
  <2>1. outcome' \in [Ids -> {"none", "unsent", "returned", "exception"}]
    BY <1>4 DEF IInv, TypeOK
  <2>2. QED
    BY <1>3, <2>1 DEF IInv, TypeOK
<1>8. LockInv'
  BY <1>3, TrackerAssumption DEF IInv, TypeOK, LockInv
<1>9. \A u \in Threads : u # t /\ state[u] # "idle" => call[u] # i
  BY <1>2 DEF IInv, CallInv
<1>10. state \in [Threads -> {"idle", "sending", "waiting"}] /\ outcome \in [Ids -> {"none", "unsent", "returned", "exception"}]
  BY DEF IInv, TypeOK
<1>11. CallInv'
  <2>1. CallInv /\ tracked \subseteq Ids
    BY DEF IInv, TypeOK
  <2>2. QED
    BY <1>3, <1>4, <1>9, <1>10, <2>1 DEF CallInv
<1>12. EntryInv'
  <2> SUFFICES ASSUME NEW j \in Ids PROVE EntryInv!(j)'
    BY DEF EntryInv
  <2>1. EntryInv!(j)
    BY DEF IInv, EntryInv
  <2>2. counter \in Nat /\ j \in Nat
    BY TrackerAssumption DEF IInv, TypeOK, Ids
  <2>3. CASE j = i
    BY <1>3, <1>4, <1>5, <1>6, <1>10, <2>1, <2>2, <2>3
  <2>4. CASE j # i
    BY <1>3, <1>4, <1>10, <2>1, <2>2, <2>4
  <2>5. QED
    BY <2>3, <2>4
<1>13. RouteInv' /\ PlaceInv'
  BY <1>3 DEF IInv, RouteInv, PlaceInv
<1>14. NoLostWakeUp' /\ ReceiverSurvives'
  <2>1. NoLostWakeUp /\ ReceiverSurvives
    BY DEF IInv
  <2>2. QED
    BY <1>3, <1>9, <1>10, <2>1 DEF NoLostWakeUp, ReceiverSurvives, Complete
<1>15. QED
  BY <1>7, <1>8, <1>11, <1>12, <1>13, <1>14 DEF IInv

LEMMA WaitIInv ==
    ASSUME IInv, NEW t \in Threads, Wait(t)
    PROVE  IInv'
<1>1. /\ state[t] = "sending" /\ sent[call[t]] = total[call[t]] /\ ~Complete(call[t])
      /\ mutex' = Nobody /\ state' = [state EXCEPT ![t] = "waiting"] /\ notified' = notified \ {t}
      /\ UNCHANGED <<counter, tracked, total, arrived, size, sent, call, incoming, alive,
                     asked, outcome, toServer, serving, toClient, raised>>
  BY DEF Wait, serverVars
<1>2. state \in [Threads -> {"idle", "sending", "waiting"}]
  BY DEF IInv, TypeOK
<1>3. TypeOK'
  BY <1>1 DEF IInv, TypeOK
<1>4. LockInv'
  BY <1>1, <1>2, TrackerAssumption DEF IInv, LockInv
<1>5. CallInv'
  BY <1>1, <1>2 DEF IInv, CallInv
<1>6. EntryInv' /\ RouteInv' /\ PlaceInv'
  BY <1>1 DEF IInv, EntryInv, RouteInv, PlaceInv
<1>7. NoLostWakeUp' /\ ReceiverSurvives'
  <2>1. \A u \in Threads : Complete(call[u])' <=> Complete(call[u])
    BY <1>1 DEF Complete
  <2>2. QED
    BY <1>1, <1>2, <2>1 DEF IInv, NoLostWakeUp, ReceiverSurvives
<1>8. QED
  BY <1>3, <1>4, <1>5, <1>6, <1>7 DEF IInv

LEMMA SleepAgainIInv ==
    ASSUME IInv, NEW t \in Threads, SleepAgain(t)
    PROVE  IInv'
<1>1. /\ ~Complete(call[t]) /\ notified' = notified \ {t}
      /\ UNCHANGED <<mutex, counter, tracked, total, arrived, size, sent, state, call,
                     incoming, alive, asked, outcome, toServer, serving, toClient, raised>>
  BY DEF SleepAgain, serverVars
<1>2. TypeOK'
  BY <1>1 DEF IInv, TypeOK
<1>3. LockInv' /\ CallInv' /\ EntryInv' /\ RouteInv' /\ PlaceInv'
  BY <1>1 DEF IInv, LockInv, CallInv, EntryInv, RouteInv, PlaceInv
<1>4. NoLostWakeUp' /\ ReceiverSurvives'
  BY <1>1 DEF IInv, NoLostWakeUp, ReceiverSurvives, Complete
<1>5. QED
  BY <1>2, <1>3, <1>4 DEF IInv

\* What the receiver threads of the servers do moves a request from one place to
\* the next.
LEMMA ServerIInv ==
    ASSUME IInv, NEW s \in Servers,
           \/ \E q \in toServer[s] : TakeRequest(s, q)
           \/ \E exception \in BOOLEAN : Respond(s, exception)
           \/ \E q \in toClient[s] : Receive(s, q)
    PROVE  IInv'
<1>1. UNCHANGED <<mutex, counter, tracked, total, arrived, size, sent, state, call,
                  notified, asked, outcome, alive>>
  BY DEF TakeRequest, Respond, Receive, clientVars
<1>2. /\ toServer \in [Servers -> SUBSET Requests] /\ toClient \in [Servers -> SUBSET Requests]
      /\ serving \in [Servers -> Requests \cup {None}] /\ incoming \in Requests \cup {None}
      /\ raised \subseteq Requests /\ None \notin Requests
  BY TrackerAssumption DEF IInv, TypeOK
<1>3. LockInv' /\ CallInv' /\ EntryInv' /\ NoLostWakeUp' /\ ReceiverSurvives'
  BY <1>1 DEF IInv, LockInv, CallInv, EntryInv, NoLostWakeUp, ReceiverSurvives, Complete
<1>4. RouteInv /\ PlaceInv
  BY DEF IInv
<1>5. /\ toServer' \in [Servers -> SUBSET Requests] /\ toClient' \in [Servers -> SUBSET Requests]
      /\ serving' \in [Servers -> Requests \cup {None}] /\ incoming' \in Requests \cup {None}
      /\ raised' \subseteq Requests
  BY <1>2 DEF TakeRequest, Respond, Receive
<1>6. TypeOK'
  BY <1>1, <1>5 DEF IInv, TypeOK
<1>7. RouteInv' /\ PlaceInv'
  <2>1. ASSUME NEW q \in toServer[s], TakeRequest(s, q) PROVE RouteInv' /\ PlaceInv'
    <3>1. /\ serving[s] = None /\ serving' = [serving EXCEPT ![s] = q]
          /\ toServer' = [toServer EXCEPT ![s] = @ \ {q}]
          /\ UNCHANGED <<toClient, incoming>>
      BY <2>1 DEF TakeRequest
    <3>2. QED
      BY <1>1, <1>2, <1>4, <3>1 DEF RouteInv, PlaceInv
  <2>2. ASSUME NEW e \in BOOLEAN, Respond(s, e) PROVE RouteInv' /\ PlaceInv'
    <3>1. /\ serving[s] # None /\ serving' = [serving EXCEPT ![s] = None]
          /\ toClient' = [toClient EXCEPT ![s] = @ \cup {serving[s]}]
          /\ UNCHANGED <<toServer, incoming>>
      BY <2>2 DEF Respond
    <3>2. QED
      BY <1>1, <1>2, <1>4, <3>1 DEF RouteInv, PlaceInv
  <2>3. ASSUME NEW q \in toClient[s], Receive(s, q) PROVE RouteInv' /\ PlaceInv'
    <3>1. /\ incoming = None /\ incoming' = q
          /\ toClient' = [toClient EXCEPT ![s] = @ \ {q}]
          /\ UNCHANGED <<toServer, serving>>
      BY <2>3 DEF Receive
    <3>2. QED
      BY <1>1, <1>2, <1>4, <3>1 DEF RouteInv, PlaceInv
  <2>4. QED
    BY <2>1, <2>2, <2>3
<1>8. QED
  BY <1>3, <1>6, <1>7 DEF IInv

\* The response in the receiver thread's hands belongs to an entry, because a
\* call leaves the tracker only with all its responses in.
LEMMA HandleResponseIInv ==
    ASSUME IInv, HandleResponse
    PROVE  IInv'
<1>1. /\ incoming \in Requests /\ incoming # None /\ None \notin Requests
      /\ arrived \in [Ids -> SUBSET (1..MaxRequests)] /\ size \in [Ids -> Nat]
      /\ sent \in [Ids -> Nat] /\ total \in [Ids -> Nat] /\ counter \in Nat
      /\ MaxRequests \in Nat
  BY TrackerAssumption DEF IInv, TypeOK, HandleResponse
<1>2. PICK i \in Ids, k \in 1..MaxRequests : incoming = <<i, k>>
  BY <1>1 DEF Requests
<1>3. incoming[1] = i /\ incoming[2] = k
  BY <1>2
<1>4. k <= sent[i] /\ k \notin arrived[i]
  BY <1>1, <1>3 DEF IInv, RouteInv, PlaceInv
<1>5. EntryInv!(i)
  BY DEF IInv, EntryInv
<1>6. i \in tracked
  <2>1. i < counter
    BY <1>1, <1>4, <1>5, <1>2 DEF Ids
  <2>2. outcome[i] \notin {"returned", "exception"}
    BY <1>1, <1>4, <1>5
  <2>3. outcome[i] \in {"none", "unsent", "returned", "exception"}
    BY DEF IInv, TypeOK
  <2>4. QED
    BY <1>5, <2>1, <2>2, <2>3
<1>7. /\ arrived' = [arrived EXCEPT ![i] = @ \cup {k}] /\ size' = [size EXCEPT ![i] = @ + 1]
      /\ notified' = IF size[i] + 1 = total[i] THEN {t \in Threads : state[t] = "waiting"}
                     ELSE notified
      /\ incoming' = None
      /\ UNCHANGED <<mutex, counter, tracked, total, sent, state, call, asked, outcome,
                     alive, toServer, serving, toClient, raised>>
  BY <1>3, <1>6 DEF HandleResponse, Notifies, serverVars
<1>8. TypeOK'
  <2>1. arrived' \in [Ids -> SUBSET (1..MaxRequests)] /\ size' \in [Ids -> Nat]
    BY <1>1, <1>7
  <2>2. notified' \subseteq Threads
    BY <1>7 DEF IInv, TypeOK
  <2>3. QED
    BY <1>7, <2>1, <2>2 DEF IInv, TypeOK
<1>9. LockInv' /\ CallInv' /\ ReceiverSurvives'
  BY <1>7 DEF IInv, LockInv, CallInv, ReceiverSurvives
<1>10. EntryInv'
  <2> SUFFICES ASSUME NEW j \in Ids PROVE EntryInv!(j)'
    BY DEF EntryInv
  <2>1. EntryInv!(j)
    BY DEF IInv, EntryInv
  <2>2. CASE j = i
    <3>1. Cardinality(arrived[i] \cup {k}) = Cardinality(arrived[i]) + 1
      BY <1>1, <1>4, OneMore
    <3>2. outcome[i] \notin {"returned", "exception"}
      BY <1>5, <1>6
    <3>3. arrived'[i] = arrived[i] \cup {k} /\ size'[i] = size[i] + 1
      BY <1>1, <1>7
    <3>4. QED
      BY <1>7, <2>1, <2>2, <3>1, <3>2, <3>3
  <2>3. CASE j # i
    BY <1>1, <1>7, <2>1, <2>3
  <2>4. QED
    BY <2>2, <2>3
<1>11. RouteInv' /\ PlaceInv'
  <2>1. ASSUME NEW q \in Requests, q # incoming
        PROVE  q[2] \in arrived'[q[1]] <=> q[2] \in arrived[q[1]]
    <3>1. q[1] \in Ids /\ q = <<q[1], q[2]>>
      BY DEF Requests
    <3>2. q[1] # i \/ q[2] # k
      BY <1>2, <2>1, <3>1
    <3>3. QED
      BY <1>1, <1>7, <3>1, <3>2
  <2>2. RouteInv /\ PlaceInv
    BY DEF IInv
  <2>3. RouteInv'
    <3> SUFFICES ASSUME NEW q \in Requests PROVE RouteInv!(q)'
      BY DEF RouteInv
    <3>1. CASE q = incoming
      BY <1>3, <1>4, <1>7, <2>2, <3>1 DEF RouteInv
    <3>2. CASE q # incoming
      BY <1>1, <1>7, <2>1, <2>2, <3>2 DEF RouteInv
    <3>3. QED
      BY <3>1, <3>2
  <2>4. PlaceInv'
    <3> SUFFICES ASSUME NEW q \in Requests PROVE PlaceInv!(q)'
      BY DEF PlaceInv
    <3>1. CASE q = incoming
      BY <1>1, <1>7, <2>2, <3>1 DEF PlaceInv
    <3>2. CASE q # incoming
      BY <1>1, <1>7, <2>1, <2>2, <3>2 DEF PlaceInv
    <3>3. QED
      BY <3>1, <3>2
  <2>5. QED
    BY <2>3, <2>4
<1>12. NoLostWakeUp'
  <2> SUFFICES ASSUME NEW t \in Threads, state[t] = "waiting", Complete(call[t])'
               PROVE  t \in notified'
    BY <1>7 DEF NoLostWakeUp
  <2>1. call[t] \in Ids
    BY IdFacts
  <2>2. CASE call[t] = i
    BY <1>1, <1>7, <2>2 DEF Complete
  <2>3. CASE call[t] # i
    <3>1. Complete(call[t])
      BY <1>1, <1>7, <2>1, <2>3 DEF Complete
    <3>2. QED
      BY <1>7, <3>1 DEF IInv, NoLostWakeUp
  <2>4. QED
    BY <2>2, <2>3
<1>13. QED
  BY <1>8, <1>9, <1>10, <1>11, <1>12 DEF IInv

LEMMA NextIInv == IInv /\ [Next]_vars => IInv'
<1> SUFFICES ASSUME IInv, [Next]_vars PROVE IInv'
  OBVIOUS
<1>1. ASSUME NEW t \in Threads, NEW receivers \in Shapes, BeginCall(t, receivers) PROVE IInv'
  BY <1>1, BeginCallIInv
<1>2. ASSUME NEW t \in Threads, Send(t) PROVE IInv'
  BY <1>2, SendIInv
<1>3. ASSUME NEW t \in Threads, SendThrows(t) PROVE IInv'
  BY <1>3, SendThrowsIInv
<1>4. ASSUME NEW t \in Threads, CollectAtOnce(t) PROVE IInv'
  <2>1. state[t] = "sending" /\ Complete(call[t]) /\ Collect(t) /\ notified' = notified
    BY <1>4 DEF CollectAtOnce
  <2>2. mutex = t
    BY <2>1 DEF IInv, LockInv
  <2>3. QED
    BY <2>1, <2>2, CollectIInv
<1>5. ASSUME NEW t \in Threads, Wait(t) PROVE IInv'
  BY <1>5, WaitIInv
<1>6. ASSUME NEW t \in Threads, WakeUp(t) PROVE IInv'
  <2>1. /\ state[t] = "waiting" /\ Complete(call[t]) /\ Collect(t) /\ mutex = Nobody
        /\ notified' = notified \ {t}
    BY <1>6 DEF WakeUp
  <2>2. QED
    BY <2>1, CollectIInv
<1>7. ASSUME NEW t \in Threads, SleepAgain(t) PROVE IInv'
  BY <1>7, SleepAgainIInv
<1>8. ASSUME NEW s \in Servers,
             \/ \E q \in toServer[s] : TakeRequest(s, q)
             \/ \E exception \in BOOLEAN : Respond(s, exception)
             \/ \E q \in toClient[s] : Receive(s, q)
      PROVE  IInv'
  BY <1>8, ServerIInv
<1>9. ASSUME HandleResponse PROVE IInv'
  BY <1>9, HandleResponseIInv
<1>10. ASSUME UNCHANGED vars PROVE IInv'
  BY <1>10 DEF vars, IInv, TypeOK, LockInv, CallInv, EntryInv, RouteInv, PlaceInv,
              NoLostWakeUp, ReceiverSurvives, Complete
<1>11. QED
  BY <1>1, <1>2, <1>3, <1>4, <1>5, <1>6, <1>7, <1>8, <1>9, <1>10 DEF Next

\* IInv holds in every state, for every number of threads, servers, calls and
\* requests and every capacity: the protocol of PSAgent's tracker is right.
THEOREM TrackerInductive == Spec => []IInv
<1>1. QED
  BY InitIInv, NextIInv, PTL DEF Spec

\* HandleMessage never meets a response without an entry (ps_agent.cpp:249): the
\* receiver thread of a process does not die of a response.
THEOREM TrackerReceiverSurvives == Spec => []ReceiverSurvives
<1>1. IInv => ReceiverSurvives
  BY DEF IInv
<1>2. QED
  BY <1>1, TrackerInductive, PTL

\* The exception flag of a finished call does not change any more: a server can
\* only still be working on requests of calls that are not finished.
LEMMA ExactNext == IInv /\ IInv' /\ ExactResponses /\ [Next]_vars => ExactResponses'
<1> SUFFICES ASSUME IInv, IInv', ExactResponses, [Next]_vars,
                    NEW i \in Ids, outcome'[i] \in {"returned", "exception"}
             PROVE  ExactResponses!(i)'
  BY DEF ExactResponses
<1>1. /\ arrived'[i] = 1..Len(asked'[i]) /\ total'[i] = Len(asked'[i]) /\ total'[i] \in Nat
      /\ size'[i] = Cardinality(arrived'[i])
  BY DEF IInv, EntryInv, TypeOK
<1>2. size'[i] = Len(asked'[i])
  BY <1>1, FS_Interval
<1>a. /\ outcome \in [Ids -> {"none", "unsent", "returned", "exception"}]
      /\ asked \in [Ids -> Seq(Servers \cup Peers)]
      /\ counter \in Nat
  BY TrackerAssumption, SMTT(40) DEF IInv, TypeOK
<1>b. counter \in Ids => outcome[counter] = "none"
  BY <1>a DEF IInv, EntryInv
<1>3. /\ counter \notin Ids \/ outcome[counter] = "none"
      /\ outcome \in [Ids -> {"none", "unsent", "returned", "exception"}]
      /\ asked \in [Ids -> Seq(Servers \cup Peers)]
      /\ counter \in Nat
  BY <1>a, <1>b
<1>4. CASE outcome[i] \in {"returned", "exception"}
  <2>1. arrived[i] = 1..Len(asked[i]) /\ total[i] = Len(asked[i]) /\ sent[i] <= total[i]
    BY <1>4 DEF IInv, EntryInv
  <2>2. outcome'[i] = outcome[i] /\ asked'[i] = asked[i]
    <3>1. \A t \in Threads : state[t] # "idle" => outcome[call[t]] = "none"
      BY DEF IInv, CallInv
    <3>2. ASSUME NEW t \in Threads, NEW receivers \in Shapes, BeginCall(t, receivers)
          PROVE  outcome'[i] = outcome[i] /\ asked'[i] = asked[i]
      BY <1>3, <1>4, <3>2 DEF BeginCall
    <3>3. ASSUME NEW t \in Threads, SendThrows(t) \/ CollectAtOnce(t) \/ WakeUp(t)
          PROVE  outcome'[i] = outcome[i] /\ asked'[i] = asked[i]
      <4>1. state[t] # "idle" /\ asked' = asked
        BY <3>3 DEF SendThrows, CollectAtOnce, WakeUp, Collect
      <4>2. i # call[t]
        BY <1>4, <3>1, <4>1
      <4>3. QED
        BY <1>3, <3>3, <4>1, <4>2 DEF SendThrows, CollectAtOnce, WakeUp, Collect
    <3>4. QED
      BY <3>2, <3>3 DEF Next, vars, Send, Wait, SleepAgain, Receive, TakeRequest, Respond,
                        HandleResponse, clientVars, serverVars
  <2>3. ASSUME NEW k \in 1..Len(asked[i]) PROVE <<i, k>> \in raised' <=> <<i, k>> \in raised
    <3>1. ASSUME NEW s \in Servers, NEW e \in BOOLEAN, Respond(s, e)
          PROVE  <<i, k>> \in raised' <=> <<i, k>> \in raised
      <4>1. <<i, k>> \in Requests
        BY <2>1 DEF IInv, TypeOK, Requests
      <4>2. serving[s] # <<i, k>>
        BY <2>1, <4>1 DEF IInv, PlaceInv
      <4>3. QED
        BY <3>1, <4>2 DEF Respond
    <3>2. QED
      BY <3>1 DEF Next, vars, BeginCall, Send, SendThrows, CollectAtOnce, WakeUp, Collect,
                  Wait, SleepAgain, Receive, TakeRequest, HandleResponse, serverVars
  <2>4. QED
    BY <1>1, <1>2, <1>4, <2>2, <2>3 DEF ExactResponses
<1>5. CASE outcome[i] \notin {"returned", "exception"}
  <2>1. PICK t \in Threads : (CollectAtOnce(t) \/ WakeUp(t)) /\ call[t] = i
    BY <1>3, <1>5 DEF Next, vars, BeginCall, Send, SendThrows, CollectAtOnce, WakeUp, Collect,
                      Wait, SleepAgain, Receive, TakeRequest, Respond, HandleResponse,
                      clientVars, serverVars
  <2>2. /\ arrived' = arrived /\ raised' = raised
        /\ outcome' = [outcome EXCEPT ![i] =
              IF \E k \in arrived[i] : <<i, k>> \in raised THEN "exception" ELSE "returned"]
    BY <2>1 DEF CollectAtOnce, WakeUp, Collect, serverVars
  <2>3. outcome'[i] = "exception" <=> \E k \in arrived[i] : <<i, k>> \in raised
    BY <1>3, <2>2
  <2>4. QED
    BY <1>1, <1>2, <2>2, <2>3
<1>6. QED
  BY <1>4, <1>5

\* A call that ends normally or with a server's exception has exactly one response
\* to each of its requests, and it ends with an exception exactly if one of the
\* responses reports one (SendAllRequests, ps_agent.cpp:122-154).
THEOREM TrackerExactResponses == Spec => []ExactResponses
<1>1. Init => ExactResponses
  BY DEF Init, ExactResponses
<1>2. QED
  BY <1>1, ExactNext, TrackerInductive, PTL DEF Spec

\* No entry of the tracker is left behind except by a call one of whose sends
\* threw (ps_agent.cpp:77, 127 and 181).
THEOREM TrackerLeaks == Spec => []LeaksOnlyUnsent
<1>1. Init => LeaksOnlyUnsent
  BY DEF Init, LeaksOnlyUnsent
<1>2. IInv /\ LeaksOnlyUnsent /\ [Next]_vars => LeaksOnlyUnsent'
  <2> SUFFICES ASSUME IInv, LeaksOnlyUnsent, [Next]_vars, NEW i \in tracked'
               PROVE  LeaksOnlyUnsent!(i)'
    BY DEF LeaksOnlyUnsent
  <2>1. /\ state \in [Threads -> {"idle", "sending", "waiting"}] /\ call \in [Threads -> Nat]
        /\ outcome \in [Ids -> {"none", "unsent", "returned", "exception"}]
        /\ tracked \subseteq Ids
    BY DEF IInv, TypeOK
  <2>2. CallInv
    BY DEF IInv
  <2>3. ASSUME NEW t \in Threads, NEW receivers \in Shapes, BeginCall(t, receivers)
        PROVE  LeaksOnlyUnsent!(i)'
    <3>1. /\ state[t] = "idle" /\ state' = [state EXCEPT ![t] = "sending"]
          /\ call' = [call EXCEPT ![t] = counter] /\ tracked' = tracked \cup {counter}
          /\ outcome' = outcome
      BY <2>3 DEF BeginCall
    <3>2. CASE i = counter
      <4>1. state'[t] # "idle" /\ call'[t] = i
        BY <2>1, <3>1, <3>2
      <4>2. QED
        BY <4>1
    <3>3. CASE i # counter
      <4>1. i \in tracked
        BY <3>1, <3>3
      <4>2. CASE outcome[i] = "unsent"
        BY <3>1, <4>2
      <4>3. CASE outcome[i] # "unsent"
        <5>1. PICK u \in Threads : state[u] # "idle" /\ call[u] = i
          BY <4>1, <4>3 DEF LeaksOnlyUnsent
        <5>2. state'[u] # "idle" /\ call'[u] = i
          BY <2>1, <3>1, <5>1
        <5>3. QED
          BY <5>2
      <4>4. QED
        BY <4>2, <4>3
    <3>4. QED
      BY <3>2, <3>3
  <2>4. ASSUME NEW t \in Threads, SendThrows(t) \/ CollectAtOnce(t) \/ WakeUp(t)
        PROVE  LeaksOnlyUnsent!(i)'
    <3>1. /\ state[t] # "idle" /\ state' = [state EXCEPT ![t] = "idle"] /\ call' = call
          /\ \/ tracked' = tracked /\ outcome' = [outcome EXCEPT ![call[t]] = "unsent"]
             \/ tracked' = tracked \ {call[t]}
                /\ \E o \in {"returned", "exception"} : outcome' = [outcome EXCEPT ![call[t]] = o]
      BY <2>4 DEF SendThrows, CollectAtOnce, WakeUp, Collect, Erase
    <3>2. i \in tracked
      BY <3>1
    <3>3. CASE i = call[t]
      BY <2>1, <3>1, <3>2, <3>3
    <3>4. CASE i # call[t]
      <4>1. outcome'[i] = outcome[i]
        BY <2>1, <3>1, <3>2, <3>4
      <4>2. CASE outcome[i] = "unsent"
        BY <4>1, <4>2
      <4>3. CASE outcome[i] # "unsent"
        <5>1. PICK u \in Threads : state[u] # "idle" /\ call[u] = i
          BY <3>2, <4>3 DEF LeaksOnlyUnsent
        <5>2. state'[u] # "idle" /\ call'[u] = i
          BY <2>1, <3>1, <3>4, <5>1
        <5>3. QED
          BY <5>2
      <4>4. QED
        BY <4>2, <4>3
    <3>5. QED
      BY <3>3, <3>4
  <2>5. ASSUME NEW t \in Threads, Wait(t) PROVE LeaksOnlyUnsent!(i)'
    <3>1. /\ state' = [state EXCEPT ![t] = "waiting"]
          /\ call' = call /\ tracked' = tracked /\ outcome' = outcome
      BY <2>5 DEF Wait
    <3>2. \A u \in Threads : state[u] # "idle" => state'[u] # "idle"
      BY <2>1, <3>1
    <3>3. QED
      BY <3>1, <3>2 DEF LeaksOnlyUnsent
  <2>6. ASSUME UNCHANGED <<state, call, tracked, outcome>> PROVE LeaksOnlyUnsent!(i)'
    BY <2>6 DEF LeaksOnlyUnsent
  <2>7. QED
    BY <2>3, <2>4, <2>5, <2>6 DEF Next, vars, Send, SleepAgain, Receive, TakeRequest, Respond,
                                  HandleResponse, clientVars
<1>3. QED
  BY <1>1, <1>2, TrackerInductive, PTL DEF Spec

=============================================================================

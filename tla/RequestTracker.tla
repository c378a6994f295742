--------------------------- MODULE RequestTracker ---------------------------
(***************************************************************************)
(* Requests of one process (PSAgent::SendRequest, SendAllRequests,         *)
(* BroadcastRequest) and their responses (PSAgent::HandleMessage).         *)
(*                                                                         *)
(* Any number of threads call.  A call locks tracker_mutex_, takes a fresh *)
(* message id, enters it in tracker_, sends its requests, all under that   *)
(* id, and only then waits on tracker_cv_, which unlocks.  The receiver    *)
(* thread locks tracker_mutex_ for every response.  A ZeroMQ pipe holds a  *)
(* bounded number of messages; sending to a full one blocks, whatever      *)
(* locks the sender holds.  Servers handle one request at a time.          *)
(*                                                                         *)
(* A request is <<id, k>>: the k-th of the call with that id, and so is    *)
(* its response.  A pipe is a set: any order of the messages is allowed.   *)
(***************************************************************************)
EXTENDS Integers, FiniteSets, Sequences

CONSTANTS
    Threads,      \* threads that call
    Servers,      \* nodes this process has a socket to
    Peers,        \* nodes of its own role: valid receivers without a socket
    Shapes,       \* the lists of receivers calls are made with
    Capacity,     \* high-water mark of a pipe
    MaxCalls,     \* bound: calls of all threads
    MaxRequests,  \* requests of the longest call
    Nobody, None

Ids == 0..(MaxCalls - 1)
Requests == Ids \X (1..MaxRequests)

ASSUME TrackerAssumption ==
    /\ IsFiniteSet(Threads) /\ Nobody \notin Threads
    /\ Servers \cap Peers = {}
    /\ Shapes \subseteq Seq(Servers \cup Peers)
    /\ Capacity \in Nat \ {0}
    /\ MaxCalls \in Nat /\ MaxRequests \in Nat
    /\ \A receivers \in Shapes : Len(receivers) <= MaxRequests
    /\ None \notin Requests

VARIABLES
    mutex,       \* holder of tracker_mutex_, or Nobody
    counter,     \* message_counter_
    tracked,     \* the keys of tracker_
    total,       \* TrackerEntry::total by id
    arrived,     \* the responses in TrackerEntry::responses, by k
    size,        \* responses.size()
    sent,        \* how many requests of a call have been sent
    state,       \* of a thread: idle, sending, waiting (on tracker_cv_)
    call,        \* the id of its call
    notified,    \* threads notified on tracker_cv_ since they went to wait
    toServer,    \* requests in the pipe to a server
    serving,     \* the request a server works on, or None
    toClient,    \* responses in the pipe from a server
    raised,      \* the responses that report an exception
    incoming,    \* the response the receiver thread has taken, or None
    alive,       \* the receiver thread runs
    asked,       \* history: receivers of the calls
    outcome      \* history: how calls ended

vars == <<mutex, counter, tracked, total, arrived, size, sent, state, call,
          notified, toServer, serving, toClient, raised, incoming, alive, asked, outcome>>

clientVars == <<mutex, counter, tracked, total, arrived, size, sent, state, call,
                notified, asked, outcome>>
serverVars == <<toServer, serving, toClient, raised>>

Init ==
    /\ mutex = Nobody
    /\ counter = 0
    /\ tracked = {}
    /\ total = [i \in Ids |-> 0]
    /\ arrived = [i \in Ids |-> {}]
    /\ size = [i \in Ids |-> 0]
    /\ state = [t \in Threads |-> "idle"]
    /\ call = [t \in Threads |-> 0]
    /\ sent = [i \in Ids |-> 0]
    /\ notified = {}
    /\ toServer = [s \in Servers |-> {}]
    /\ serving = [s \in Servers |-> None]
    /\ toClient = [s \in Servers |-> {}]
    /\ raised = {}
    /\ incoming = None
    /\ alive = TRUE
    /\ asked = [i \in Ids |-> <<>>]
    /\ outcome = [i \in Ids |-> "none"]

-----------------------------------------------------------------------------
(***************************************************************************)
(* The calling threads                                                     *)
(***************************************************************************)

\* Lock, take an id, enter it in the tracker.
BeginCall(t, receivers) ==
    /\ state[t] = "idle"
    /\ mutex = Nobody
    /\ counter < MaxCalls
    /\ mutex' = t
    /\ counter' = counter + 1
    /\ tracked' = tracked \cup {counter}
    /\ total' = [total EXCEPT ![counter] = Len(receivers)]
    /\ asked' = [asked EXCEPT ![counter] = receivers]
    /\ state' = [state EXCEPT ![t] = "sending"]
    /\ call' = [call EXCEPT ![t] = counter]
    /\ UNCHANGED <<arrived, size, sent, notified, incoming, alive, outcome>>
    /\ UNCHANGED serverVars

NextReceiver(t) == asked[call[t]][sent[call[t]] + 1]

\* Send the next request, waiting with the lock held while the pipe is full.
Send(t) ==
    /\ state[t] = "sending"
    /\ sent[call[t]] < total[call[t]]
    /\ NextReceiver(t) \in Servers
    /\ Cardinality(toServer[NextReceiver(t)]) < Capacity
    /\ toServer' = [toServer EXCEPT ![NextReceiver(t)] = @ \cup {<<call[t], sent[call[t]] + 1>>}]
    /\ sent' = [sent EXCEPT ![call[t]] = @ + 1]
    /\ UNCHANGED <<mutex, counter, tracked, total, arrived, size, state, call, notified,
                   serving, toClient, raised, incoming, alive, asked, outcome>>

\* There is no socket to the receiver: the exception leaves the call, which
\* unlocks; the tracker keeps the entry.
SendThrows(t) ==
    /\ state[t] = "sending"
    /\ sent[call[t]] < total[call[t]]
    /\ NextReceiver(t) \notin Servers
    /\ mutex' = Nobody
    /\ state' = [state EXCEPT ![t] = "idle"]
    /\ outcome' = [outcome EXCEPT ![call[t]] = "unsent"]
    /\ UNCHANGED <<counter, tracked, total, arrived, size, sent, call, notified,
                   incoming, alive, asked>>
    /\ UNCHANGED serverVars

\* The predicate of tracker_cv_.wait.
Complete_Mutant(id) == id \in tracked /\ size[id] >= total[id] - 1
Complete(id) == id \in tracked /\ size[id] = total[id]

\* tracker_.erase
Erase(id) == tracked \ {id}

\* The thread has the lock and its call is complete: take the responses, erase
\* the entry, unlock; throw if one of them reports an exception.
Collect(t) ==
    /\ mutex' = Nobody
    /\ tracked' = Erase(call[t])
    /\ state' = [state EXCEPT ![t] = "idle"]
    /\ outcome' = [outcome EXCEPT ![call[t]] =
                      IF \E k \in arrived[call[t]] : <<call[t], k>> \in raised THEN "exception" ELSE "returned"]
    /\ UNCHANGED <<counter, total, arrived, size, sent, call, incoming, alive, asked>>
    /\ UNCHANGED serverVars

\* All requests are sent; the wait checks its predicate first ...
CollectAtOnce(t) ==
    /\ state[t] = "sending"
    /\ sent[call[t]] = total[call[t]]
    /\ Complete(call[t])
    /\ Collect(t)
    /\ UNCHANGED notified

\* ... and otherwise unlocks and sleeps.
Wait(t) ==
    /\ state[t] = "sending"
    /\ sent[call[t]] = total[call[t]]
    /\ ~Complete(call[t])
    /\ mutex' = Nobody
    /\ state' = [state EXCEPT ![t] = "waiting"]
    /\ notified' = notified \ {t}
    /\ UNCHANGED <<counter, tracked, total, arrived, size, sent, call, incoming, alive,
                   asked, outcome>>
    /\ UNCHANGED serverVars

\* A notified thread gets the lock and looks again.
WakeUp(t) ==
    /\ state[t] = "waiting"
    /\ t \in notified
    /\ mutex = Nobody
    /\ Complete(call[t])
    /\ Collect(t)
    /\ notified' = notified \ {t}

SleepAgain(t) ==
    /\ state[t] = "waiting"
    /\ t \in notified
    /\ mutex = Nobody
    /\ ~Complete(call[t])
    /\ notified' = notified \ {t}
    /\ UNCHANGED <<mutex, counter, tracked, total, arrived, size, sent, state, call,
                   incoming, alive, asked, outcome>>
    /\ UNCHANGED serverVars

-----------------------------------------------------------------------------
(***************************************************************************)
(* The receiver thread: ReceiveMessage, then HandleMessage under the lock. *)
(***************************************************************************)

Receive(s, r) ==
    /\ alive
    /\ incoming = None
    /\ r \in toClient[s]
    /\ incoming' = r
    /\ toClient' = [toClient EXCEPT ![s] = @ \ {r}]
    /\ UNCHANGED clientVars
    /\ UNCHANGED <<toServer, serving, raised, alive>>

\* notify_all, when the entry has all its responses.
Notifies_Mutant(id) == size[id] = total[id]
Notifies(id) == size[id] + 1 = total[id]

\* tracker_.at throws, and ends the thread, if there is no entry.
HandleResponse ==
    /\ alive
    /\ incoming # None
    /\ mutex = Nobody
    /\ LET id == incoming[1]
       IN IF id \in tracked
          THEN /\ arrived' = [arrived EXCEPT ![id] = @ \cup {incoming[2]}]
               /\ size' = [size EXCEPT ![id] = @ + 1]
               /\ notified' = IF Notifies(id) THEN {t \in Threads : state[t] = "waiting"}
                              ELSE notified
               /\ UNCHANGED alive
          ELSE /\ alive' = FALSE
               /\ UNCHANGED <<arrived, size, notified>>
    /\ incoming' = None
    /\ UNCHANGED <<mutex, counter, tracked, total, state, call, sent, asked, outcome>>
    /\ UNCHANGED serverVars

-----------------------------------------------------------------------------
(***************************************************************************)
(* A server's receiver thread                                              *)
(***************************************************************************)

TakeRequest(s, q) ==
    /\ serving[s] = None
    /\ q \in toServer[s]
    /\ serving' = [serving EXCEPT ![s] = q]
    /\ toServer' = [toServer EXCEPT ![s] = @ \ {q}]
    /\ UNCHANGED clientVars
    /\ UNCHANGED <<toClient, raised, incoming, alive>>

\* HandleRequest and SendResponse; an exception of the handler becomes the
\* response.  Waits while the pipe back is full.
Respond(s, exception) ==
    /\ serving[s] # None
    /\ Cardinality(toClient[s]) < Capacity
    /\ toClient' = [toClient EXCEPT ![s] = @ \cup {serving[s]}]
    /\ raised' = IF exception THEN raised \cup {serving[s]} ELSE raised
    /\ serving' = [serving EXCEPT ![s] = None]
    /\ UNCHANGED clientVars
    /\ UNCHANGED <<toServer, incoming, alive>>

-----------------------------------------------------------------------------

Next ==
    \/ \E t \in Threads : \/ \E receivers \in Shapes : BeginCall(t, receivers)
                          \/ Send(t) \/ SendThrows(t) \/ CollectAtOnce(t)
                          \/ Wait(t) \/ WakeUp(t) \/ SleepAgain(t)
    \/ \E s \in Servers : \/ \E r \in toClient[s] : Receive(s, r)
                          \/ \E q \in toServer[s] : TakeRequest(s, q)
                          \/ \E exception \in BOOLEAN : Respond(s, exception)
    \/ HandleResponse

Spec == Init /\ [][Next]_vars

\* Threads run when they can, and a pipe, being FIFO, does not keep back one of
\* its messages.  The lock is not assumed to be fair: the calls are bounded, so
\* it is free for good in the end.
Fairness ==
    /\ \A t \in Threads : /\ WF_vars(Send(t)) /\ WF_vars(SendThrows(t))
                          /\ WF_vars(CollectAtOnce(t)) /\ WF_vars(Wait(t))
                          /\ WF_vars(WakeUp(t)) /\ WF_vars(SleepAgain(t))
    /\ \A s \in Servers : /\ WF_vars(\E r \in toClient[s] : Receive(s, r))
                          /\ WF_vars(\E q \in toServer[s] : TakeRequest(s, q))
                          /\ WF_vars(\E exception \in BOOLEAN : Respond(s, exception))
    /\ WF_vars(HandleResponse)

FairSpec == Spec /\ Fairness

-----------------------------------------------------------------------------
(***************************************************************************)
(* Properties                                                              *)
(***************************************************************************)

TypeOK ==
    /\ mutex \in Threads \cup {Nobody}
    /\ counter \in 0..MaxCalls
    /\ tracked \subseteq Ids
    /\ total \in [Ids -> Nat]
    /\ arrived \in [Ids -> SUBSET (1..MaxRequests)]
    /\ size \in [Ids -> Nat]
    /\ sent \in [Ids -> Nat]
    /\ state \in [Threads -> {"idle", "sending", "waiting"}]
    /\ call \in [Threads -> Nat]
    /\ notified \subseteq Threads
    /\ toServer \in [Servers -> SUBSET Requests]
    /\ serving \in [Servers -> Requests \cup {None}]
    /\ toClient \in [Servers -> SUBSET Requests]
    /\ raised \subseteq Requests
    /\ incoming \in Requests \cup {None}
    /\ alive \in BOOLEAN
    /\ asked \in [Ids -> Seq(Servers \cup Peers)]
    /\ outcome \in [Ids -> {"none", "unsent", "returned", "exception"}]

\* tracker_mutex_ is held by the thread that sends, and by no other.
LockInv == \A t \in Threads : state[t] = "sending" <=> mutex = t

\* Every call in progress has an entry of its own.
CallInv ==
    /\ \A t \in Threads : state[t] # "idle" =>
          /\ call[t] \in tracked
          /\ outcome[call[t]] = "none"
          /\ state[t] = "waiting" => sent[call[t]] = total[call[t]]
    /\ \A t, u \in Threads :
          state[t] # "idle" /\ state[u] # "idle" /\ call[t] = call[u] => t = u

\* The tracker has the ids of the calls that have begun and not collected
\* their responses; responses.size() counts the requests answered.
EntryInv ==
    \A i \in Ids :
        /\ i \in tracked <=> i < counter /\ outcome[i] \in {"none", "unsent"}
        /\ counter <= i => sent[i] = 0 /\ outcome[i] = "none"
        /\ total[i] = Len(asked[i]) /\ sent[i] <= total[i] /\ total[i] <= MaxRequests
        /\ size[i] = Cardinality(arrived[i])
        /\ outcome[i] \in {"returned", "exception"} => arrived[i] = 1..total[i]

\* A message is about a request that was sent, between the process and the
\* server it was sent to.
RouteInv ==
    \A q \in Requests :
        /\ incoming = q \/ q[2] \in arrived[q[1]] => q[2] <= sent[q[1]]
        /\ \A s \in Servers : q \in toServer[s] \/ serving[s] = q \/ q \in toClient[s] =>
                               q[2] <= sent[q[1]] /\ asked[q[1]][q[2]] = s

\* A request is in one place: on its way, with the server, or answered, and the
\* answer on its way, at the receiver thread or in the tracker.
PlaceInv ==
    \A q \in Requests :
        /\ incoming = q => q[2] \notin arrived[q[1]]
        /\ \A s \in Servers :
              /\ q \in toServer[s] => serving[s] # q /\ q \notin toClient[s]
              /\ serving[s] = q => q \notin toClient[s]
              /\ q \in toServer[s] \/ serving[s] = q \/ q \in toClient[s] =>
                    incoming # q /\ q[2] \notin arrived[q[1]]

\* No wake-up is lost: a thread that waits for a complete call has been notified.
NoLostWakeUp ==
    \A t \in Threads : state[t] = "waiting" /\ Complete(call[t]) => t \in notified

\* Every response finds its entry: tracker_.at in HandleMessage never throws, so
\* that no late or surplus response ends the receiver thread, also not after a
\* call that failed half way through its sends.
ReceiverSurvives == alive

\* The inductive invariant: the types, and the five parts above.
IInv == /\ TypeOK /\ LockInv /\ CallInv /\ EntryInv /\ RouteInv /\ PlaceInv
        /\ NoLostWakeUp /\ ReceiverSurvives

\* A call that gets as far as its callback, or as the exception of a server, has
\* exactly one response to each of its requests.
ExactResponses ==
    \A i \in Ids : outcome[i] \in {"returned", "exception"} =>
        /\ arrived[i] = 1..Len(asked[i])
        /\ size[i] = Len(asked[i])
        /\ outcome[i] = "exception" <=> \E k \in 1..Len(asked[i]) : <<i, k>> \in raised

\* An entry nobody waits for any more belongs to a call one of whose sends threw.
LeaksOnlyUnsent ==
    \A i \in tracked : \/ \E t \in Threads : state[t] # "idle" /\ call[t] = i
                       \/ outcome[i] = "unsent"

\* Every call ends, although the lock the responses need is held while sending
\* into pipes that may be full.
EveryCallEnds == \A i \in Ids : i \in tracked ~> outcome[i] # "none"

=============================================================================

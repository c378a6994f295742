-------------------------- MODULE MCRequestTracker --------------------------
(***************************************************************************)
(* Requests of a worker to two servers; p is another worker, to which it   *)
(* has no socket.                                                          *)
(***************************************************************************)
EXTENDS RequestTracker

CONSTANTS s1, s2, p

\* A call to both servers, an empty SendAllRequests, two requests to one server,
\* and a call whose second send throws.
MixedShapes == {<<>>, <<s1, s2>>, <<s1, s1>>, <<s1, p>>}

\* Every call ends (SendRequest and SendAllRequests return, or throw), although
\* the lock the responses need is held while sending into pipes that may be
\* full, provided that a call has one request to a server, as those of the
\* tensors do.
EveryTensorCallEnds == [](\A i \in Ids : asked[i] # <<s1, s1>>) => EveryCallEnds

=============================================================================

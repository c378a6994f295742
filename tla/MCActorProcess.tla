--------------------------- MODULE MCActorProcess ---------------------------
(***************************************************************************)
(* Jobs of a coordinator, two servers and a worker.  The two servers share *)
(* a host, so that their ranks depend on their ports.                      *)
(***************************************************************************)
EXTENDS ActorProcess

MCRoleOf == [n \in Nodes |->
    CASE n = "c" -> "Coordinator" [] n \in {"s1", "s2"} -> "Server" [] OTHER -> "Worker"]
MCHost == [n \in Nodes |-> IF n = "w1" THEN 2 ELSE 1]
MCPort == [n \in Nodes |-> CASE n = "c" -> 1 [] n = "s1" -> 3 [] OTHER -> 2]

\* A job in which nothing goes wrong, and one in which everything may.
NoneOrAll == {{}, FaultKinds}

=============================================================================

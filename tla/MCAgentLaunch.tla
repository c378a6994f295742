----------------------------- MODULE MCAgentLaunch -----------------------------
(* Two workers and one server; slots are interchangeable in Spark's choice  *)
(* but not in the code's, so no symmetry is used.                           *)
EXTENDS AgentLaunch
=============================================================================

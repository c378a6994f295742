---------------------------- MODULE MCOfflineFlow ----------------------------
(* All configurations of a few tasks.                                       *)
EXTENDS OfflineFlow
=============================================================================

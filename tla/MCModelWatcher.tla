---------------------------- MODULE MCModelWatcher ----------------------------
(***************************************************************************)
(* Deployments in which nothing fails, in which everything the watcher can *)
(* try again fails, and in which anything does.                            *)
(***************************************************************************)
EXTENDS ModelWatcher

MCFaultSets == {{}, {"download", "load", "lost", "watch"}, FaultKinds}
=============================================================================

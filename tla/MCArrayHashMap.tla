--------------------------- MODULE MCArrayHashMap ---------------------------
(***************************************************************************)
(* A map that begins with eight buckets, shrinks when it is pruned and     *)
(* grows again.  The hash function is the remainder by seven: keys 1 and 8 *)
(* always share a bucket, and 5 is with them in a map of four buckets or   *)
(* less.                                                                   *)
(***************************************************************************)
EXTENDS ArrayHashMap

MCKeys == {1, 5, 8}

(* Key 5 is only put with vectors that are not pruned. *)
MCPuts == {p \in MCKeys \X Values : p[1] = 5 => \A D \in Predicates : p[2] \notin D}

MCBucketCounts == {1, 2, 4, 8}

=============================================================================

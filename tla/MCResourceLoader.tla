--------------------------- MODULE MCResourceLoader ---------------------------
(* All configurations of a few files.                                       *)
EXTENDS ResourceLoader
=============================================================================

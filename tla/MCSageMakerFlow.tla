--------------------------- MODULE MCSageMakerFlow ---------------------------
(* A few runners, minutes and commands.                                     *)
EXTENDS SageMakerFlow
=============================================================================

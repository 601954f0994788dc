--------------------------- MODULE MCActionLeader ---------------------------
(* Instances of ActionLeader. *)
EXTENDS ActionLeader
=============================================================================

--------------------------- MODULE MCPollingDriver ---------------------------
(* Instances of PollingDriver. *)
EXTENDS PollingDriver
=============================================================================

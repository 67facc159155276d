------------------------------ MODULE MCAvbAB ------------------------------
(* AvbAB with the constants of its .cfg. *)
EXTENDS AvbAB
============================================================================

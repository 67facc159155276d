-------------------------- MODULE MCAvbSlotVerify --------------------------
(* AvbSlotVerify with the constants of its .cfg. *)
EXTENDS AvbSlotVerify
============================================================================

--------------------------- MODULE MCRamDebugLog ---------------------------
(* RamDebugLog with the constants of its .cfg. *)
EXTENDS RamDebugLog
============================================================================

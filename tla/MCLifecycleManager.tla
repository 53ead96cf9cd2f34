------------------------- MODULE MCLifecycleManager -------------------------
(* Small instances of LifecycleManager for TLC. *)
EXTENDS LifecycleManager
=============================================================================

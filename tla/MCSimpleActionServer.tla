------------------------ MODULE MCSimpleActionServer ------------------------
(* Small instances of SimpleActionServer for TLC. *)
EXTENDS SimpleActionServer, TLC

CONSTANTS g1, g2, g3
=============================================================================

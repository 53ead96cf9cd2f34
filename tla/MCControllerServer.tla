------------------------- MODULE MCControllerServer -------------------------
(* Small instances of ControllerServer for TLC. *)
EXTENDS ControllerServer, TLC

CONSTANTS g1, g2, a, b

=============================================================================

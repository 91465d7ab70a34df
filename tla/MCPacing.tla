------------------------------ MODULE MCPacing ------------------------------
(* Small instances of Pacing for TLC. *)
EXTENDS Pacing
=============================================================================

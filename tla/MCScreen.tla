------------------------------ MODULE MCScreen ------------------------------
(* A small instance of Screen for TLC. *)
EXTENDS Screen
=============================================================================

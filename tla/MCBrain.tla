------------------------------ MODULE MCBrain ------------------------------
(* A small instance of Brain for TLC. *)
EXTENDS Brain
=============================================================================

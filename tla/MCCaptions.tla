------------------------------ MODULE MCCaptions ------------------------------
(* A small instance of Captions for TLC. *)
EXTENDS Captions
=============================================================================

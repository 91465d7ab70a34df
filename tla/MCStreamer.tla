------------------------------ MODULE MCStreamer ------------------------------
(* A small instance of Streamer for TLC. *)
EXTENDS Streamer
=============================================================================

----------------------------- MODULE MCShutdown -----------------------------
(* Shutdown for TLC. *)
EXTENDS Shutdown

CONSTANTS w1, w2
=============================================================================

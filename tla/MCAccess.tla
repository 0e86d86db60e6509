------------------------------- MODULE MCAccess -------------------------------
(***************************************************************************)
(* Instances of Access for TLC: one key, one client without a key and two  *)
(* workers, so that requests of one identifier meet at the counter.        *)
(***************************************************************************)
EXTENDS Access

CONSTANTS k1, ip1, w1, w2
=============================================================================

---------------------------- MODULE MCAddressCache ----------------------------
(***************************************************************************)
(* Instances of AddressCache for TLC: three addresses, so that a batch can *)
(* hold one that is there, one that another indexer inserts and a new one. *)
(***************************************************************************)
EXTENDS AddressCache

CONSTANTS a1, a2, a3
=============================================================================

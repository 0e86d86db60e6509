------------------------------- MODULE MCSetup -------------------------------
(* DbSetup for TLC. *)
EXTENDS DbSetup, TLC

CONSTANTS r1, r2, u1, gnoland, test

\* One version below 2.19.3 and one above whose patch is below 3.
MCVersions == {<<2, 19, 2>>, <<2, 20, 0>>}

Symmetry == Permutations(Runs) \cup Permutations(Chains)
=============================================================================

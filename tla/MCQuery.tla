------------------------------- MODULE MCQuery -------------------------------
(***************************************************************************)
(* An instance of QueryOperator for TLC: blocks and commits of two heights *)
(* are fetched side by side, and the node does not have the second.        *)
(***************************************************************************)
EXTENDS QueryOperator

MCFanOuts == {"blocks", "commits"}
MCMissing == {<<"blocks", 2>>, <<"commits", 2>>}
=============================================================================

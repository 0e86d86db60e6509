----------------------------- MODULE MCPagination -----------------------------
(***************************************************************************)
(* Instances of Pagination for TLC: blocks with one and with two           *)
(* transactions, so that a page border can fall inside a block.            *)
(***************************************************************************)
EXTENDS Pagination

MCKeys == {<<1, 1>>, <<2, 1>>, <<2, 2>>, <<3, 1>>, <<3, 2>>, <<4, 1>>}
MCRanges == {<<2, 3>>}
=============================================================================

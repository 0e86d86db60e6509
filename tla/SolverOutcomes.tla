--------------------------- MODULE SolverOutcomes ---------------------------
(***************************************************************************)
(* What one call of AddressCache.AddressSolver may leave behind.  Pipeline *)
(* uses it as one step; AddressCache is shown to implement it.             *)
(***************************************************************************)
\* cache and table after a call for the requested addresses.  All of them end up
\* in both, unless the call is degraded: then the missing ones are inserted as one
\* batch or not at all (any of them when they are inserted one by one), and the
\* cache learns some of those that have an id.
Outcomes(requested, cache, table, mayDegrade, oneByOne) ==
    LET missing == requested \ cache
        inserted == IF oneByOne THEN SUBSET missing ELSE {{}, missing}
    IN  {[cache |-> cache \cup missing, table |-> table \cup missing, degraded |-> 0]}
        \cup UNION {{[cache |-> cache \cup got, table |-> table \cup ins, degraded |-> 1] :
                        got \in SUBSET (missing \cap (table \cup ins))} :
                    ins \in IF mayDegrade /\ missing # {} THEN inserted ELSE {}}
=============================================================================

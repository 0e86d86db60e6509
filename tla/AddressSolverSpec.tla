------------------------- MODULE AddressSolverSpec -------------------------
(***************************************************************************)
(* The promise of AddressCache to the data processor: AddressSolver is one *)
(* step with one of the Outcomes, and a degraded call is told apart from a *)
(* sound one.                                                              *)
(***************************************************************************)
EXTENDS SolverOutcomes

CONSTANT Addresses

VARIABLES
    cache,    \* addresses the cache has an id for
    table,    \* addresses that have a row, and so an id, in the database
    asked,    \* the addresses of the last call
    degraded  \* the last call was degraded

vars == <<cache, table, asked, degraded>>

Init == cache = {} /\ table = {} /\ asked = {} /\ degraded = FALSE

Solve ==
    \E requested \in SUBSET Addresses, oneByOne \in BOOLEAN :
        \E r \in Outcomes(requested, cache, table, TRUE, oneByOne) :
            /\ cache' = r.cache /\ table' = r.table
            /\ asked' = requested /\ degraded' = (r.degraded = 1)

\* Another indexer on the same database records an address.
Rival ==
    /\ \E a \in Addresses \ table : table' = table \cup {a}
    /\ UNCHANGED <<cache, asked, degraded>>

\* A new process, perhaps after one that died in the middle of a call.
Restart ==
    /\ table \subseteq table' /\ table' \in SUBSET Addresses
    /\ cache' \in SUBSET table'
    /\ asked' = {} /\ degraded' = FALSE

Next == Solve \/ Rival \/ Restart

Spec == Init /\ [][Next]_vars
=============================================================================

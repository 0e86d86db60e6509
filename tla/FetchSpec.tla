------------------------------ MODULE FetchSpec ------------------------------
(***************************************************************************)
(* What the fan-outs of QueryOperator promise to processChunk: each call   *)
(* returns once, with the responses of some of the queries the node can    *)
(* answer, and all of them unless a query was given up; what was returned  *)
(* never changes.                                                          *)
(***************************************************************************)
CONSTANTS FanOuts, Indices, Missing

VARIABLES
    status,  \* of the call: ready, waiting or returned
    fetched, \* its slots that are not nil
    gaveUp   \* its answerable queries that were given up

vars == <<status, fetched, gaveUp>>

Init ==
    /\ status = [f \in FanOuts |-> "ready"]
    /\ fetched = [f \in FanOuts |-> {}] /\ gaveUp = [f \in FanOuts |-> {}]

Call(f) ==
    /\ status[f] = "ready"
    /\ status' = [status EXCEPT ![f] = "waiting"]
    /\ UNCHANGED <<fetched, gaveUp>>

Return(f) ==
    /\ status[f] = "waiting"
    /\ status' = [status EXCEPT ![f] = "returned"]
    /\ \E lost \in SUBSET {i \in Indices : <<f, i>> \notin Missing} :
         /\ gaveUp' = [gaveUp EXCEPT ![f] = lost]
         /\ fetched' = [fetched EXCEPT ![f] = {i \in Indices \ lost : <<f, i>> \notin Missing}]

Next == \E f \in FanOuts : Call(f) \/ Return(f)

Spec == Init /\ [][Next]_vars
=============================================================================

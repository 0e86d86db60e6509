-------------------------------- MODULE MCLive --------------------------------
(***************************************************************************)
(* Instances of LiveIndexer for TLC: a chain of three blocks in chunks of  *)
(* two, a transaction in a full chunk and one in a short one, and a        *)
(* validator that first signs the last block of the first chunk.           *)
(***************************************************************************)
EXTENDS LiveIndexer, TLC

CONSTANTS t1, t2, a1, a2, v1, v2

MCHashes == {t1, t2}
MCHeightOf == t1 :> 1 @@ t2 :> 3
MCSound == [x \in MCHashes |-> "none"]
MCPoison == [MCSound EXCEPT ![t2] = "decode"]
MCMsgTables == {"bank_msg_send", "vm_msg_call"}
MCTablesOf == t1 :> MCMsgTables @@ t2 :> {"vm_msg_call"}
MCAddrsOf == t1 :> {a1} @@ t2 :> {a1, a2}
MCSigners == [h \in 0 .. MaxHeight |-> IF h < 2 THEN {v1} ELSE {v1, v2}]
MCProposer == [h \in Heights |-> v1]
=============================================================================

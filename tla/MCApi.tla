-------------------------------- MODULE MCApi --------------------------------
(***************************************************************************)
(* Instances of ApiReads for TLC: two blocks in chunks of one, so that one *)
(* is settled while the other is written; a transaction that calls twice   *)
(* and sends in between, and one that only sends.                          *)
(***************************************************************************)
EXTENDS ApiReads, TLC

CONSTANTS t1, t2, a1, a2, v1, v2

MCHashes == {t1, t2}
MCHeightOf == t1 :> 1 @@ t2 :> 2
MCSound == [x \in MCHashes |-> "none"]
MCMsgTables == {"bank_msg_send", "vm_msg_call"}
MCMsgsOf == t1 :> <<"vm_msg_call", "bank_msg_send", "vm_msg_call">> @@ t2 :> <<"bank_msg_send">>
MCTablesOf == t1 :> MCMsgTables @@ t2 :> {"bank_msg_send"}
MCAddrsOf == t1 :> {a1} @@ t2 :> {a2}
MCSigners == [h \in 0 .. MaxHeight |-> {v1}]
MCProposer == [h \in Heights |-> IF h = 1 THEN v1 ELSE v2]
MCSpans == {<<1, 2>>, <<1, 1>>}
=============================================================================

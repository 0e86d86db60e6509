------------------------------ MODULE MCHistoric ------------------------------
(***************************************************************************)
(* Instances of HistoricIndexer for TLC: blocks 2 to 4 or 5 of a chain, in *)
(* chunks of two; validator v2 first signs the last block of the first     *)
(* chunk.                                                                  *)
(***************************************************************************)
EXTENDS HistoricIndexer, TLC

CONSTANTS t1, t2, t3, t4, t5, a1, a2, v1, v2

MCHashes == {t1, t2, t3, t4}
MCHeightOf == t1 :> 2 @@ t2 :> 3 @@ t3 :> 4 @@ t4 :> 4
MCSound == [x \in MCHashes |-> "none"]
MCMsgTables == {"bank_msg_send", "vm_msg_call"}
MCTablesOf == t1 :> {"vm_msg_call"} @@ t2 :> MCMsgTables
                @@ t3 :> {"bank_msg_send"} @@ t4 :> {"vm_msg_call"}
MCAddrsOf == t1 :> {a1} @@ t2 :> {a1, a2} @@ t3 :> {a2} @@ t4 :> {a1}
MCSigners == [h \in 0 .. MaxHeight |-> IF h < 3 THEN {v1} ELSE {v1, v2}]
MCProposer == [h \in Heights |-> IF h < 4 THEN v1 ELSE v2]

\* Beside the defects of transactions there is a sound one, t5, in the block whose
\* header has no height; t3 is in the block whose hash does not parse.
MCAllHashes == MCHashes \cup {t5}
MCAllHeightOf == MCHeightOf @@ t5 :> 5
MCUndigestible == t1 :> "conversion" @@ t2 :> "none" @@ t3 :> "result" @@ t4 :> "base64"
                    @@ t5 :> "none"
MCAllTablesOf == MCTablesOf @@ t5 :> {"bank_msg_send"}
MCAllAddrsOf == MCAddrsOf @@ t5 :> {a1}

\* The runs in which failures multiply the states have three transactions.
MCFewHashes == {t1, t2, t3}
MCFew(f) == [x \in MCFewHashes |-> f[x]]
MCFewHeightOf == MCFew(MCHeightOf)
MCFewSound == MCFew(MCSound)
MCFewTablesOf == MCFew(MCTablesOf)
MCFewAddrsOf == MCFew(MCAddrsOf)
=============================================================================

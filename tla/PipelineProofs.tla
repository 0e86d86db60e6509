---------------------------- MODULE PipelineProofs ----------------------------
(***************************************************************************)
(* Facts about the steps of Pipeline, for every value of the constants.    *)
(* LiveIndexerProofs and HistoricIndexerProofs combine them with loops.    *)
(***************************************************************************)
EXTENDS Pipeline, TLAPS

-----------------------------------------------------------------------------
(* The outcomes of database calls *)

\* A call of the address solver only adds requested addresses, caches nothing that
\* has no row, and is degraded only when the database may fail; otherwise it caches
\* all that it is asked for.
LEMMA SolverFacts ==
    ASSUME NEW requested, NEW cache, NEW table,
           NEW r \in AddressSolver(requested, cache, table)
    PROVE  /\ cache \subseteq r.cache /\ r.cache \subseteq cache \cup requested
           /\ table \subseteq r.table /\ r.table \subseteq table \cup requested
           /\ cache \subseteq table => r.cache \subseteq r.table
           /\ r.degraded = 0 \/ (r.degraded = 1 /\ CanFail("db"))
           /\ r.degraded = 0 => requested \subseteq r.cache
  BY DEF AddressSolver, Outcomes

\* A COPY adds its whole batch or nothing, answers for it only when it was added,
\* and fails only when the database may fail.
LEMMA CopyFacts ==
    ASSUME NEW table, NEW rows, NEW rejected \in BOOLEAN,
           NEW r \in CopyFrom(table, rows, rejected)
    PROVE  /\ r.table = table \/ r.table = table \cup rows
           /\ rejected => r.table = table
           /\ r.ok \in BOOLEAN
           /\ r.ok => r.table = table \cup rows
           /\ r.fault = 0 \/ (r.fault = 1 /\ CanFail("db"))
<1> DEFINE applied == IF rejected THEN table ELSE table \cup rows
<1>1. CASE r = [table |-> applied, ok |-> ~rejected, fault |-> 0]
  <2>1. r.ok = ~rejected
    BY <1>1, Zenon
  <2>2. r.table = applied /\ r.fault = 0
    BY <1>1
  <2> QED
    BY <2>1, <2>2
<1>2. CASE \E t \in {table, applied} :
             r = [table |-> t, ok |-> FALSE, fault |-> 1] /\ CanFail("db")
  <2>1. PICK t \in {table, applied} : r = [table |-> t, ok |-> FALSE, fault |-> 1] /\ CanFail("db")
    BY <1>2
  <2>2. r.ok = FALSE
    BY <2>1, Zenon
  <2> QED
    BY <2>1, <2>2
<1> QED
  BY <1>1, <1>2, Zenon DEF CopyFrom

-----------------------------------------------------------------------------
(* Types *)

\* uint64 arithmetic stays in uint64.
LEMMA UintFacts ==
    ASSUME NEW a \in Uint, NEW b \in Uint
    PROVE  Add(a, b) \in Uint /\ Sub(a, b) \in Uint /\ MinOf(a, b) \in Uint
  BY SizeAssumption DEF Uint, Add, Sub, MinOf

\* The end of the process leaves well-typed state.
LEMMA ExitTypeOK ==
    ASSUME PipelineTypeOK, Exit, faults' \in 0 .. MaxFaults
    PROVE  PipelineTypeOK'
<1>1. UNCHANGED <<head, dbBlocks, dbSignings, dbTxHash, dbTxs, dbAddressTx, dbMsgs,
                  dbValidators, dbAddresses>>
  BY DEF Exit, tables, txTables, addrTables
<1>2. /\ task' \in [Tasks -> {"idle", "run", "address_tx", "batches", "done"}]
      /\ txHashCache' \in [Hashes -> TxIds \cup {0}]
  BY DEF Exit
<1>3. alive' \in BOOLEAN /\ stage' = "idle"
  BY Zenon DEF Exit
<1>4. chunkStart' \in Uint /\ chunkEnd' \in Uint
  BY SizeAssumption DEF Exit, Uint
<1> QED
  BY <1>1, <1>2, <1>3, <1>4 DEF PipelineTypeOK, Exit

\* The rows phase 2 builds have the types of their columns.
LEMMA RowTypes ==
    ASSUME PipelineTypeOK
    PROVE  /\ SigningRows \subseteq SigningRow
           /\ TransactionRows \subseteq TxRow
           /\ AddressTxRows \subseteq AddressTxRow
           /\ \A t \in MsgTables : MessageRows(t) \subseteq MsgRow
<1> USE ChainAssumption DEF PipelineTypeOK
<1>1. SigningRows \subseteq SigningRow
  <2> SUFFICES ASSUME NEW h \in commits \ BadCommits
               PROVE  [height |-> h,
                       proposer |-> GetAddress(validatorCache, Proposer[h]),
                       signed |-> {GetAddress(validatorCache, v) : v \in Signers[h]}] \in SigningRow
    BY DEF SigningRows
  <2>1. h \in Heights /\ h \in 0 .. MaxHeight
    BY SizeAssumption DEF Heights
  <2>2. Proposer[h] \in Validators /\ Signers[h] \subseteq Validators
    BY <2>1
  <2> QED
    BY <2>1, <2>2 DEF SigningRow, GetAddress
<1>2. TransactionRows \subseteq TxRow
  BY DEF TransactionRows, TxRow
<1>3. AddressTxRows \subseteq AddressTxRow
  <2> SUFFICES ASSUME NEW x \in Converted, NEW a \in AddrsOf[x]
               PROVE  [id |-> txHashCache[x], height |-> HeightOf[x],
                       address |-> GetAddress(addressCache, a)] \in AddressTxRow
    BY DEF AddressTxRows
  <2>1. x \in Hashes /\ txHashCache[x] \in TxIds /\ HeightOf[x] \in Heights
    BY DEF Converted
  <2>2. AddrsOf[x] \subseteq Addresses
    BY <2>1
  <2> QED
    BY <2>1, <2>2 DEF AddressTxRow, GetAddress
<1>4. ASSUME NEW t \in MsgTables PROVE MessageRows(t) \subseteq MsgRow
  BY DEF MessageRows, MsgRow, Converted
<1> QED
  BY <1>1, <1>2, <1>3, <1>4

\* Launch is a function on the goroutines.
LEMMA LaunchType ==
    ASSUME NEW tasks, NEW txs
    PROVE  Launch(tasks, txs) \in [Tasks -> {"idle", "run", "address_tx", "batches", "done"}]
  BY DEF Launch

\* Every step of processChunk keeps the types.
LEMMA ChunkStepTypeOK ==
    ASSUME PipelineTypeOK, ChunkStep
    PROVE  PipelineTypeOK'
<1> USE SizeAssumption, ChainAssumption
    DEF chunkVars, cacheVars, txTables, addrTables, tables, CanFail, Done
<1>1. CASE FetchPanics
  BY <1>1, ExitTypeOK DEF FetchPanics, PipelineTypeOK
<1>2. CASE FetchRange
  <2>1. blocks' \subseteq Heights /\ commits' \subseteq Heights /\ faults' \in 0 .. MaxFaults
    BY <1>2 DEF FetchRange, PipelineTypeOK, Heights
  <2> QED
    BY <1>2, <2>1 DEF FetchRange, PipelineTypeOK
<1>3. CASE CollectTransactions
  <2>1. task' \in [Tasks -> {"idle", "run", "address_tx", "batches", "done"}]
    BY <1>3, LaunchType DEF CollectTransactions
  <2>2. transactions' \subseteq Hashes /\ faults' \in 0 .. MaxFaults
    BY <1>3 DEF CollectTransactions, Collectable, PipelineTypeOK
  <2> QED
    BY <1>3, <2>1, <2>2 DEF CollectTransactions, PipelineTypeOK
<1>4. CASE BeginPhaseTwo
  <2>1. task' \in [Tasks -> {"idle", "run", "address_tx", "batches", "done"}]
    BY <1>4, LaunchType DEF BeginPhaseTwo
  <2> QED
    BY <1>4, <2>1 DEF BeginPhaseTwo, PipelineTypeOK
<1>5. CASE ChunkReturns
  BY <1>5 DEF ChunkReturns, PipelineTypeOK
<1>6. CASE NilBlockPanic
  BY <1>6, ExitTypeOK DEF NilBlockPanic, PipelineTypeOK
<1>7. CASE ProcessValidatorAddresses
  <2> DEFINE requested == (UNION {Signers[h - 1] : h \in blocks}) \cup {Proposer[h] : h \in blocks}
  <2>1. requested \subseteq Validators
    <3>1. ASSUME NEW h \in blocks PROVE Signers[h - 1] \subseteq Validators
      <4>1. h - 1 \in 0 .. MaxHeight
        BY DEF PipelineTypeOK, Heights
      <4> QED
        BY <4>1
    <3>2. ASSUME NEW h \in blocks PROVE Proposer[h] \in Validators
      BY DEF PipelineTypeOK
    <3> QED
      BY <3>1, <3>2
  <2>2. PICK r \in AddressSolver(requested, validatorCache, dbValidators) :
          validatorCache' = r.cache /\ dbValidators' = r.table /\ faults' = faults + r.degraded
    BY <1>7 DEF ProcessValidatorAddresses
  <2>3. /\ r.cache \subseteq validatorCache \cup requested
        /\ r.table \subseteq dbValidators \cup requested
        /\ r.degraded = 0 \/ (r.degraded = 1 /\ CanFail("db"))
    <3> HIDE DEF requested, CanFail
    <3> QED
      BY <2>2, SolverFacts
  <2>4. /\ validatorCache' \subseteq Validators /\ dbValidators' \subseteq Validators
        /\ faults' \in 0 .. MaxFaults
    <3> HIDE DEF requested
    <3> QED
      BY <2>1, <2>2, <2>3 DEF PipelineTypeOK
  <2> QED
    BY <1>7, <2>4 DEF ProcessValidatorAddresses, PipelineTypeOK
<1>8. CASE ProcessTxHashIds
  <2>1. ASSUME NEW ids \in FreshIds(transactions), NEW old \in [Hashes -> TxIds \cup {0}]
        PROVE  [x \in Hashes |-> IF x \in transactions THEN ids[x] ELSE old[x]]
                 \in [Hashes -> TxIds \cup {0}]
    BY DEF FreshIds
  <2>2. ASSUME NEW ids \in FreshIds(transactions)
        PROVE  [x \in Hashes |-> IF x \in transactions THEN ids[x] ELSE 0]
                 \in [Hashes -> TxIds \cup {0}]
    BY DEF FreshIds
  <2>3. dbTxHash' \in [Hashes -> TxIds \cup {0}]
    BY <1>8, <2>1 DEF ProcessTxHashIds, PipelineTypeOK
  <2>4. txHashCache' \in [Hashes -> TxIds \cup {0}]
    BY <1>8, <2>2 DEF ProcessTxHashIds, PipelineTypeOK
  <2>5. faults' \in 0 .. MaxFaults
    BY <1>8 DEF ProcessTxHashIds, PipelineTypeOK
  <2> QED
    BY <1>8, <2>3, <2>4, <2>5 DEF ProcessTxHashIds, PipelineTypeOK
<1>9. CASE ProcessBlocks
  <2> DEFINE rejected == blocks \cap (dbBlocks \cup BadBlocks) # {}
  <2>1. PICK r \in CopyFrom(dbBlocks, blocks, rejected) :
          dbBlocks' = r.table /\ faults' = faults + r.fault
    BY <1>9 DEF ProcessBlocks
  <2>2. /\ r.table = dbBlocks \/ r.table = dbBlocks \cup blocks
        /\ r.fault = 0 \/ (r.fault = 1 /\ CanFail("db"))
    <3>1. rejected \in BOOLEAN
      OBVIOUS
    <3> HIDE DEF rejected, CanFail
    <3> QED
      BY <2>1, <3>1, CopyFacts
  <2>3. dbBlocks' \subseteq Heights /\ faults' \in 0 .. MaxFaults
    BY <2>1, <2>2 DEF PipelineTypeOK
  <2> QED
    BY <1>9, <2>3 DEF ProcessBlocks, PipelineTypeOK
<1>10. CASE ProcessValidatorSignings
  <2> DEFINE rejected == \E a \in SigningRows, b \in dbSignings : a.height = b.height
  <2>1. PICK r \in CopyFrom(dbSignings, SigningRows, rejected) :
          dbSignings' = r.table /\ faults' = faults + r.fault
    BY <1>10 DEF ProcessValidatorSignings
  <2>2. /\ r.table = dbSignings \/ r.table = dbSignings \cup SigningRows
        /\ r.fault = 0 \/ (r.fault = 1 /\ CanFail("db"))
    <3>1. rejected \in BOOLEAN
      OBVIOUS
    <3> HIDE DEF rejected, CanFail
    <3> QED
      BY <2>1, <3>1, CopyFacts
  <2>3. dbSignings' \subseteq SigningRow /\ faults' \in 0 .. MaxFaults
    BY <2>1, <2>2, RowTypes DEF PipelineTypeOK
  <2> QED
    BY <1>10, <2>3 DEF ProcessValidatorSignings, PipelineTypeOK
<1>11. CASE DecodeFatal
  BY <1>11, ExitTypeOK DEF DecodeFatal, PipelineTypeOK
<1>12. CASE ProcessTransactions
  <2> DEFINE rejected == TransactionRows \cap dbTxs # {}
  <2>1. PICK r \in CopyFrom(dbTxs, TransactionRows, rejected) :
          dbTxs' = r.table /\ faults' = faults + r.fault
    BY <1>12 DEF ProcessTransactions
  <2>2. /\ r.table = dbTxs \/ r.table = dbTxs \cup TransactionRows
        /\ r.fault = 0 \/ (r.fault = 1 /\ CanFail("db"))
    <3>1. rejected \in BOOLEAN
      OBVIOUS
    <3> HIDE DEF rejected, CanFail
    <3> QED
      BY <2>1, <3>1, CopyFacts
  <2>3. dbTxs' \subseteq TxRow /\ faults' \in 0 .. MaxFaults
    BY <2>1, <2>2, RowTypes DEF PipelineTypeOK
  <2> QED
    BY <1>12, <2>3 DEF ProcessTransactions, PipelineTypeOK
<1>13. CASE ResolveMessages
  <2> DEFINE requested == UNION {AddrsOf[x] : x \in transactions}
  <2>1. requested \subseteq Addresses
    BY DEF PipelineTypeOK
  <2>2. PICK r \in AddressSolver(requested, addressCache, dbAddresses) :
          addressCache' = r.cache /\ dbAddresses' = r.table /\ faults' = faults + r.degraded
    BY <1>13 DEF ResolveMessages
  <2>3. /\ r.cache \subseteq addressCache \cup requested
        /\ r.table \subseteq dbAddresses \cup requested
        /\ r.degraded = 0 \/ (r.degraded = 1 /\ CanFail("db"))
    <3> HIDE DEF requested, CanFail
    <3> QED
      BY <2>2, SolverFacts
  <2>4. /\ addressCache' \subseteq Addresses /\ dbAddresses' \subseteq Addresses
        /\ faults' \in 0 .. MaxFaults
    BY <2>1, <2>2, <2>3 DEF PipelineTypeOK
  <2>5. task' \in [Tasks -> {"idle", "run", "address_tx", "batches", "done"}]
    BY <1>13 DEF ResolveMessages, PipelineTypeOK
  <2> QED
    BY <1>13, <2>4, <2>5 DEF ResolveMessages, PipelineTypeOK
<1>14. CASE InsertAddressTx
  <2> DEFINE rejected == AddressTxRows \cap dbAddressTx # {}
  <2>1. PICK r \in CopyFrom(dbAddressTx, AddressTxRows, rejected) :
          /\ dbAddressTx' = r.table /\ faults' = faults + r.fault
          /\ task' = [task EXCEPT !["ProcessMessages"] = IF r.ok THEN "batches" ELSE "done"]
          /\ batches' = IF r.ok THEN UNION {TablesOf[x] : x \in Converted} ELSE {}
    BY <1>14 DEF InsertAddressTx
  <2>2. /\ r.table = dbAddressTx \/ r.table = dbAddressTx \cup AddressTxRows
        /\ r.fault = 0 \/ (r.fault = 1 /\ CanFail("db"))
    <3>1. rejected \in BOOLEAN
      OBVIOUS
    <3> HIDE DEF rejected, CanFail
    <3> QED
      BY <2>1, <3>1, CopyFacts
  <2>3. dbAddressTx' \subseteq AddressTxRow /\ faults' \in 0 .. MaxFaults
    BY <2>1, <2>2, RowTypes DEF PipelineTypeOK
  <2>4. task' \in [Tasks -> {"idle", "run", "address_tx", "batches", "done"}]
    BY <2>1 DEF PipelineTypeOK
  <2>5. batches' \subseteq MsgTables
    BY <2>1 DEF PipelineTypeOK, Converted
  <2> QED
    BY <1>14, <2>3, <2>4, <2>5 DEF InsertAddressTx, PipelineTypeOK
<1>15. CASE MessagesReturn
  BY <1>15 DEF MessagesReturn, PipelineTypeOK
<1>16. ASSUME NEW t \in MsgTables, InsertMessageBatch(t)
       PROVE  PipelineTypeOK'
  <2> DEFINE rejected == MessageRows(t) \cap dbMsgs # {}
  <2>1. PICK r \in CopyFrom(dbMsgs, MessageRows(t), rejected) :
          dbMsgs' = r.table /\ faults' = faults + r.fault
    BY <1>16 DEF InsertMessageBatch
  <2>2. /\ r.table = dbMsgs \/ r.table = dbMsgs \cup MessageRows(t)
        /\ r.fault = 0 \/ (r.fault = 1 /\ CanFail("db"))
    <3>1. rejected \in BOOLEAN
      OBVIOUS
    <3> HIDE DEF rejected, CanFail
    <3> QED
      BY <2>1, <3>1, CopyFacts
  <2>3. dbMsgs' \subseteq MsgRow /\ faults' \in 0 .. MaxFaults
    BY <2>1, <2>2, RowTypes DEF PipelineTypeOK
  <2> QED
    BY <1>16, <2>3 DEF InsertMessageBatch, PipelineTypeOK
<1> QED
  BY <1>1, <1>2, <1>3, <1>4, <1>5, <1>6, <1>7, <1>8, <1>9, <1>10, <1>11, <1>12,
     <1>13, <1>14, <1>15, <1>16 DEF ChunkStep

-----------------------------------------------------------------------------
(* The invariant of the pipeline *)

\* The barrier between the phases: phase 2 reads the caches only when nothing
\* writes them any more.
PhasesAreApart ==
    /\ task["ProcessTxHashIds"] = "run" => stage = "phase1"
    /\ task["ProcessMessages"] \in {"run", "address_tx", "batches"} => stage = "phase2"

\* The caches hold what the database holds, or nothing.
CachesAgree ==
    /\ \A x \in Hashes : txHashCache[x] # 0 => txHashCache[x] = dbTxHash[x]
    /\ validatorCache \subseteq dbValidators
    /\ addressCache \subseteq dbAddresses

\* The addresses of the chunk are in the cache when its address_tx rows are built,
\* unless a call of the solver failed.
AddressesAreResolved ==
    task["ProcessMessages"] = "address_tx" =>
        MayBeUnresolved \/ \A x \in Converted : AddrsOf[x] \subseteq addressCache

\* Message rows are inserted when the address_tx rows of the chunk are there.
BatchesFollowAddressTx ==
    task["ProcessMessages"] = "batches" => \A x \in Converted : ListedUnderAll(x)

PipelineInv ==
    /\ PhasesAreApart /\ CachesAgree /\ AddressesAreResolved /\ BatchesFollowAddressTx
    /\ RowsNameTheirTransaction /\ MessagesAreReachable /\ IdsAreRecorded

\* What is committed stays: a step of the pipeline removes no row and changes no
\* id that was handed out.
TablesGrow ==
    /\ dbTxs \subseteq dbTxs' /\ dbAddressTx \subseteq dbAddressTx' /\ dbMsgs \subseteq dbMsgs'
    /\ dbBlocks \subseteq dbBlocks' /\ dbSignings \subseteq dbSignings'
    /\ dbValidators \subseteq dbValidators' /\ dbAddresses \subseteq dbAddresses'
    /\ \A x \in Hashes : dbTxHash[x] # 0 => dbTxHash'[x] = dbTxHash[x]

\* The outcome of each COPY, in terms of the table it goes to.
LEMMA CopySteps ==
    ASSUME PipelineTypeOK
    PROVE  /\ ProcessBlocks => dbBlocks' = dbBlocks \/ dbBlocks' = dbBlocks \cup blocks
           /\ ProcessValidatorSignings =>
                dbSignings' = dbSignings \/ dbSignings' = dbSignings \cup SigningRows
           /\ ProcessTransactions => dbTxs' = dbTxs \/ dbTxs' = dbTxs \cup TransactionRows
           /\ InsertAddressTx =>
                /\ dbAddressTx' = dbAddressTx \/ dbAddressTx' = dbAddressTx \cup AddressTxRows
                /\ task'["ProcessMessages"] = "batches" => dbAddressTx' = dbAddressTx \cup AddressTxRows
           /\ \A t \in MsgTables : InsertMessageBatch(t) =>
                dbMsgs' = dbMsgs \/ dbMsgs' = dbMsgs \cup MessageRows(t)
<1>1. ASSUME ProcessBlocks
      PROVE  dbBlocks' = dbBlocks \/ dbBlocks' = dbBlocks \cup blocks
  <2> DEFINE rejected == blocks \cap (dbBlocks \cup BadBlocks) # {}
  <2>1. PICK r \in CopyFrom(dbBlocks, blocks, rejected) : dbBlocks' = r.table
    BY <1>1 DEF ProcessBlocks
  <2>2. rejected \in BOOLEAN
    OBVIOUS
  <2> HIDE DEF rejected
  <2> QED
    BY <2>1, <2>2, CopyFacts
<1>2. ASSUME ProcessValidatorSignings
      PROVE  dbSignings' = dbSignings \/ dbSignings' = dbSignings \cup SigningRows
  <2> DEFINE rejected == \E a \in SigningRows, b \in dbSignings : a.height = b.height
  <2>1. PICK r \in CopyFrom(dbSignings, SigningRows, rejected) : dbSignings' = r.table
    BY <1>2 DEF ProcessValidatorSignings
  <2>2. rejected \in BOOLEAN
    OBVIOUS
  <2> HIDE DEF rejected
  <2> QED
    BY <2>1, <2>2, CopyFacts
<1>3. ASSUME ProcessTransactions
      PROVE  dbTxs' = dbTxs \/ dbTxs' = dbTxs \cup TransactionRows
  <2> DEFINE rejected == TransactionRows \cap dbTxs # {}
  <2>1. PICK r \in CopyFrom(dbTxs, TransactionRows, rejected) : dbTxs' = r.table
    BY <1>3 DEF ProcessTransactions
  <2>2. rejected \in BOOLEAN
    OBVIOUS
  <2> HIDE DEF rejected
  <2> QED
    BY <2>1, <2>2, CopyFacts
<1>4. ASSUME InsertAddressTx
      PROVE  /\ dbAddressTx' = dbAddressTx \/ dbAddressTx' = dbAddressTx \cup AddressTxRows
             /\ task'["ProcessMessages"] = "batches" => dbAddressTx' = dbAddressTx \cup AddressTxRows
  <2> DEFINE rejected == AddressTxRows \cap dbAddressTx # {}
  <2>1. PICK r \in CopyFrom(dbAddressTx, AddressTxRows, rejected) :
          /\ dbAddressTx' = r.table
          /\ task' = [task EXCEPT !["ProcessMessages"] = IF r.ok THEN "batches" ELSE "done"]
    BY <1>4 DEF InsertAddressTx
  <2>2. rejected \in BOOLEAN
    OBVIOUS
  <2> HIDE DEF rejected
  <2>3. /\ r.table = dbAddressTx \/ r.table = dbAddressTx \cup AddressTxRows
        /\ r.ok => r.table = dbAddressTx \cup AddressTxRows
    BY <2>1, <2>2, CopyFacts
  <2>4. task'["ProcessMessages"] = "batches" => r.ok
    BY <2>1 DEF PipelineTypeOK, Tasks, PhaseOne, PhaseTwo
  <2> QED
    BY <2>1, <2>3, <2>4
<1>5. ASSUME NEW t \in MsgTables, InsertMessageBatch(t)
      PROVE  dbMsgs' = dbMsgs \/ dbMsgs' = dbMsgs \cup MessageRows(t)
  <2> DEFINE rejected == MessageRows(t) \cap dbMsgs # {}
  <2>1. PICK r \in CopyFrom(dbMsgs, MessageRows(t), rejected) : dbMsgs' = r.table
    BY <1>5 DEF InsertMessageBatch
  <2>2. rejected \in BOOLEAN
    OBVIOUS
  <2> HIDE DEF rejected
  <2> QED
    BY <2>1, <2>2, CopyFacts
<1> QED
  BY <1>1, <1>2, <1>3, <1>4, <1>5

\* The outcome of the two calls of the address solver.
LEMMA SolverSteps ==
    ASSUME PipelineTypeOK
    PROVE  /\ ProcessValidatorAddresses =>
                /\ dbValidators \subseteq dbValidators'
                /\ validatorCache \subseteq dbValidators => validatorCache' \subseteq dbValidators'
           /\ ResolveMessages =>
                /\ dbAddresses \subseteq dbAddresses'
                /\ addressCache \subseteq dbAddresses => addressCache' \subseteq dbAddresses'
<1>1. ASSUME ProcessValidatorAddresses
      PROVE  /\ dbValidators \subseteq dbValidators'
             /\ validatorCache \subseteq dbValidators => validatorCache' \subseteq dbValidators'
  <2> DEFINE requested == (UNION {Signers[h - 1] : h \in blocks}) \cup {Proposer[h] : h \in blocks}
  <2>1. PICK r \in AddressSolver(requested, validatorCache, dbValidators) :
          validatorCache' = r.cache /\ dbValidators' = r.table
    BY <1>1 DEF ProcessValidatorAddresses
  <2> HIDE DEF requested
  <2> QED
    BY <2>1, SolverFacts
<1>2. ASSUME ResolveMessages
      PROVE  /\ dbAddresses \subseteq dbAddresses'
             /\ addressCache \subseteq dbAddresses => addressCache' \subseteq dbAddresses'
  <2> DEFINE requested == UNION {AddrsOf[x] : x \in transactions}
  <2>1. PICK r \in AddressSolver(requested, addressCache, dbAddresses) :
          addressCache' = r.cache /\ dbAddresses' = r.table
    BY <1>2 DEF ResolveMessages
  <2> HIDE DEF requested
  <2> QED
    BY <2>1, SolverFacts
<1> QED
  BY <1>1, <1>2

\* No step of processChunk takes back what is committed.
LEMMA ChunkStepGrows ==
    ASSUME PipelineTypeOK, ChunkStep
    PROVE  TablesGrow
<1> USE DEF chunkVars, cacheVars, txTables, addrTables, tables, TablesGrow
<1>1. CASE FetchPanics \/ NilBlockPanic \/ DecodeFatal
  BY <1>1 DEF FetchPanics, NilBlockPanic, DecodeFatal, Exit
<1>2. CASE FetchRange \/ CollectTransactions \/ BeginPhaseTwo \/ ChunkReturns \/ MessagesReturn
  BY <1>2 DEF FetchRange, CollectTransactions, BeginPhaseTwo, ChunkReturns, MessagesReturn
<1>3. CASE ProcessValidatorAddresses
  BY <1>3, SolverSteps DEF ProcessValidatorAddresses
<1>4. CASE ProcessTxHashIds
  <2>1. \A x \in Hashes : dbTxHash[x] # 0 => dbTxHash'[x] = dbTxHash[x]
    BY <1>4 DEF ProcessTxHashIds
  <2> QED
    BY <1>4, <2>1 DEF ProcessTxHashIds
<1>5. CASE ProcessBlocks
  BY <1>5, CopySteps DEF ProcessBlocks
<1>6. CASE ProcessValidatorSignings
  BY <1>6, CopySteps DEF ProcessValidatorSignings
<1>7. CASE ProcessTransactions
  BY <1>7, CopySteps DEF ProcessTransactions
<1>8. CASE ResolveMessages
  BY <1>8, SolverSteps DEF ResolveMessages
<1>9. CASE InsertAddressTx
  BY <1>9, CopySteps DEF InsertAddressTx
<1>10. CASE \E t \in MsgTables : InsertMessageBatch(t)
  BY <1>10, CopySteps DEF InsertMessageBatch
<1> QED
  BY <1>1, <1>2, <1>3, <1>4, <1>5, <1>6, <1>7, <1>8, <1>9, <1>10 DEF ChunkStep

\* A failure once counted stays counted.
LEMMA FaultsStay ==
    ASSUME PipelineTypeOK, ChunkStep, faults' = 0
    PROVE  faults = 0
<1>0. faults \in Nat
  BY SizeAssumption DEF PipelineTypeOK
<1>1. CASE \/ FetchPanics \/ NilBlockPanic \/ DecodeFatal \/ BeginPhaseTwo \/ ChunkReturns
           \/ MessagesReturn
  BY <1>1 DEF FetchPanics, NilBlockPanic, DecodeFatal, BeginPhaseTwo, ChunkReturns, MessagesReturn
<1>2. CASE FetchRange \/ CollectTransactions
  BY <1>0, <1>2 DEF FetchRange, CollectTransactions
<1>3. CASE ProcessTxHashIds
  BY <1>0, <1>3 DEF ProcessTxHashIds
<1>4. CASE ProcessValidatorAddresses
  <2> DEFINE requested == (UNION {Signers[h - 1] : h \in blocks}) \cup {Proposer[h] : h \in blocks}
  <2>1. PICK r \in AddressSolver(requested, validatorCache, dbValidators) :
          faults' = faults + r.degraded
    BY <1>4 DEF ProcessValidatorAddresses
  <2> HIDE DEF requested
  <2>2. r.degraded \in {0, 1}
    BY <2>1, SolverFacts
  <2> QED
    BY <1>0, <2>1, <2>2
<1>5. CASE ResolveMessages
  <2> DEFINE requested == UNION {AddrsOf[x] : x \in transactions}
  <2>1. PICK r \in AddressSolver(requested, addressCache, dbAddresses) :
          faults' = faults + r.degraded
    BY <1>5 DEF ResolveMessages
  <2> HIDE DEF requested
  <2>2. r.degraded \in {0, 1}
    BY <2>1, SolverFacts
  <2> QED
    BY <1>0, <2>1, <2>2
<1>6. CASE \/ ProcessBlocks \/ ProcessValidatorSignings \/ ProcessTransactions \/ InsertAddressTx
           \/ \E t \in MsgTables : InsertMessageBatch(t)
  <2>1. \E table, rows : \E rejected \in BOOLEAN : \E r \in CopyFrom(table, rows, rejected) :
          faults' = faults + r.fault
    BY <1>6, Zenon DEF ProcessBlocks, ProcessValidatorSignings, ProcessTransactions, InsertAddressTx,
                InsertMessageBatch
  <2>2. PICK n \in {0, 1} : faults' = faults + n
    BY <2>1, CopyFacts
  <2> QED
    BY <1>0, <2>2
<1> QED
  BY <1>1, <1>2, <1>3, <1>4, <1>5, <1>6 DEF ChunkStep

\* A launch starts only goroutines of its phase.
LEMMA LaunchFacts ==
    ASSUME NEW txs
    PROVE  /\ Launch(PhaseOne, txs)["ProcessMessages"] = "idle"
           /\ Launch(PhaseTwo, txs)["ProcessTxHashIds"] = "idle"
           /\ Launch(PhaseTwo, txs)["ProcessMessages"] \in {"idle", "run"}
  BY DEF Launch, PhaseOne, PhaseTwo, Tasks

\* A failure that may have left an address unresolved is not forgotten.
LEMMA UnresolvedStays ==
    ASSUME PipelineTypeOK, ChunkStep, MayBeUnresolved
    PROVE  MayBeUnresolved'
  BY FaultsStay DEF MayBeUnresolved

\* A transaction that is listed stays listed.
LEMMA ListedStays ==
    ASSUME dbAddressTx \subseteq dbAddressTx', MayBeUnresolved => MayBeUnresolved',
           NEW x \in Hashes, dbTxHash'[x] = dbTxHash[x], ListedUnderAll(x)
    PROVE  ListedUnderAll(x)'
  BY DEF ListedUnderAll, Listed

\* What was reachable stays reachable,
LEMMA ReachableStays ==
    ASSUME PipelineTypeOK, TablesGrow, MayBeUnresolved => MayBeUnresolved',
           MessagesAreReachable, NEW m \in dbMsgs
    PROVE  \E x \in Hashes :
               dbTxHash'[x] = m.id /\ HeightOf[x] = m.height /\ ListedUnderAll(x)'
<1>1. PICK x \in Hashes : dbTxHash[x] = m.id /\ HeightOf[x] = m.height /\ ListedUnderAll(x)
  BY DEF MessagesAreReachable
<1>2. dbTxHash[x] # 0
  BY <1>1, ChainAssumption DEF PipelineTypeOK, MsgRow
<1>3. dbTxHash'[x] = dbTxHash[x] /\ dbAddressTx \subseteq dbAddressTx'
  BY <1>2 DEF TablesGrow
<1> QED
  BY <1>1, <1>3, ListedStays

\* all the more when the tables stay.
LEMMA TablesStay ==
    ASSUME UNCHANGED <<dbTxHash, dbAddressTx, dbMsgs>>, MayBeUnresolved => MayBeUnresolved',
           MessagesAreReachable
    PROVE  MessagesAreReachable'
  BY ListedStays DEF MessagesAreReachable

\* A step that leaves goroutines, caches and tables alone keeps the invariant.
LEMMA KeptInv ==
    ASSUME PipelineTypeOK, PipelineInv, MayBeUnresolved => MayBeUnresolved',
           UNCHANGED <<stage, task, transactions, cacheVars, tables>>
    PROVE  PipelineInv'
<1> USE DEF cacheVars, tables, txTables, addrTables, PipelineInv
<1>1. PhasesAreApart' /\ CachesAgree' /\ RowsNameTheirTransaction' /\ IdsAreRecorded'
  BY DEF PhasesAreApart, CachesAgree, RowsNameTheirTransaction, IdsAreRecorded
<1>2. AddressesAreResolved'
  BY DEF AddressesAreResolved, Converted
<1>3. BatchesFollowAddressTx'
  BY ListedStays DEF BatchesFollowAddressTx, Converted, PipelineTypeOK
<1>4. MessagesAreReachable'
  BY TablesStay
<1> QED
  BY <1>1, <1>2, <1>3, <1>4

\* The end of the process keeps the invariant: memory is cleared, tables stay.
LEMMA ExitInv ==
    ASSUME PipelineTypeOK, PipelineInv, Exit, MayBeUnresolved => MayBeUnresolved'
    PROVE  PipelineInv'
<1>1. UNCHANGED <<dbSignings, dbTxHash, dbTxs, dbAddressTx, dbMsgs, dbValidators, dbAddresses>>
  BY DEF Exit, tables, txTables, addrTables
<1>2. PhasesAreApart'
  BY DEF Exit, PhasesAreApart, Tasks, PhaseOne, PhaseTwo
<1>3. CachesAgree'
  BY DEF Exit, CachesAgree
<1>4. AddressesAreResolved' /\ BatchesFollowAddressTx'
  BY DEF Exit, AddressesAreResolved, BatchesFollowAddressTx, Tasks, PhaseOne, PhaseTwo
<1>5. RowsNameTheirTransaction' /\ MessagesAreReachable' /\ IdsAreRecorded'
  BY <1>1, TablesStay DEF PipelineInv, RowsNameTheirTransaction, IdsAreRecorded
<1> QED
  BY <1>2, <1>3, <1>4, <1>5 DEF PipelineInv

\* A goroutine only runs in its phase.
LEMMA PhasesStep ==
    ASSUME PipelineTypeOK, PhasesAreApart, ChunkStep
    PROVE  PhasesAreApart'
<1> USE DEF chunkVars, PhasesAreApart, PipelineTypeOK, Done, Tasks, PhaseOne, PhaseTwo
<1>1. CASE FetchPanics \/ NilBlockPanic \/ DecodeFatal
  BY <1>1 DEF FetchPanics, NilBlockPanic, DecodeFatal, Exit
<1>2. CASE FetchRange
  BY <1>2 DEF FetchRange
<1>3. CASE CollectTransactions
  <2> HIDE DEF Tasks, PhaseOne, PhaseTwo
  <2> QED
    BY <1>3, LaunchFacts DEF CollectTransactions
<1>4. CASE BeginPhaseTwo
  <2> HIDE DEF Tasks, PhaseOne, PhaseTwo
  <2> QED
    BY <1>4, LaunchFacts DEF BeginPhaseTwo
<1>5. CASE ChunkReturns
  BY <1>5 DEF ChunkReturns, Finished
<1>6. CASE ProcessValidatorAddresses
  BY <1>6 DEF ProcessValidatorAddresses
<1>7. CASE ProcessTxHashIds
  BY <1>7 DEF ProcessTxHashIds
<1>8. CASE ProcessBlocks
  BY <1>8 DEF ProcessBlocks
<1>9. CASE ProcessValidatorSignings
  BY <1>9 DEF ProcessValidatorSignings
<1>10. CASE ProcessTransactions
  BY <1>10 DEF ProcessTransactions
<1>11. CASE ResolveMessages
  BY <1>11 DEF ResolveMessages
<1>12. CASE InsertAddressTx
  BY <1>12 DEF InsertAddressTx
<1>13. CASE MessagesReturn
  BY <1>13 DEF MessagesReturn
<1>14. CASE \E t \in MsgTables : InsertMessageBatch(t)
  BY <1>14 DEF InsertMessageBatch
<1> QED
  BY <1>1, <1>2, <1>3, <1>4, <1>5, <1>6, <1>7, <1>8, <1>9, <1>10, <1>11, <1>12,
     <1>13, <1>14 DEF ChunkStep

\* txHashCache is replaced only together with the rows it names; the address
\* caches grow only by what the solver found in the tables.
LEMMA CachesStep ==
    ASSUME PipelineTypeOK, CachesAgree, ChunkStep
    PROVE  CachesAgree'
<1> USE DEF chunkVars, cacheVars, txTables, addrTables, tables, CachesAgree
<1>1. CASE FetchPanics \/ NilBlockPanic \/ DecodeFatal
  BY <1>1 DEF FetchPanics, NilBlockPanic, DecodeFatal, Exit
<1>2. CASE FetchRange \/ CollectTransactions \/ BeginPhaseTwo \/ ChunkReturns \/ MessagesReturn
  BY <1>2 DEF FetchRange, CollectTransactions, BeginPhaseTwo, ChunkReturns, MessagesReturn
<1>3. CASE ProcessValidatorAddresses
  BY <1>3, SolverSteps DEF ProcessValidatorAddresses
<1>4. CASE ProcessTxHashIds
  <2>1. \A x \in Hashes : txHashCache'[x] # 0 => txHashCache'[x] = dbTxHash'[x]
    BY <1>4 DEF ProcessTxHashIds
  <2> QED
    BY <1>4, <2>1 DEF ProcessTxHashIds
<1>5. CASE ProcessBlocks \/ ProcessValidatorSignings \/ ProcessTransactions \/ InsertAddressTx
  BY <1>5 DEF ProcessBlocks, ProcessValidatorSignings, ProcessTransactions, InsertAddressTx
<1>6. CASE ResolveMessages
  BY <1>6, SolverSteps DEF ResolveMessages
<1>7. CASE \E t \in MsgTables : InsertMessageBatch(t)
  BY <1>7 DEF InsertMessageBatch
<1> QED
  BY <1>1, <1>2, <1>3, <1>4, <1>5, <1>6, <1>7 DEF ChunkStep

\* A new row takes its id from txHashCache, which agrees with tx_hash_id; an old
\* row keeps its transaction because ids that were handed out never change.
LEMMA RowsStep ==
    ASSUME PipelineTypeOK, CachesAgree, RowsNameTheirTransaction, ChunkStep
    PROVE  RowsNameTheirTransaction'
<1>1. ASSUME NEW r, \E x \in Hashes : dbTxHash[x] = r.id /\ HeightOf[x] = r.height /\ r.id # 0
      PROVE  \E x \in Hashes : dbTxHash'[x] = r.id /\ HeightOf[x] = r.height
  BY <1>1, ChunkStepGrows DEF TablesGrow
<1>2. ASSUME NEW r \in dbTxs \cup dbAddressTx \cup dbMsgs PROVE r.id # 0
  BY ChainAssumption DEF PipelineTypeOK, TxRow, AddressTxRow, MsgRow
<1>3. ASSUME NEW r \in TransactionRows
      PROVE  \E x \in Hashes : dbTxHash[x] = r.id /\ HeightOf[x] = r.height /\ r.id # 0
  BY DEF TransactionRows, CachesAgree, PipelineTypeOK
<1>4. ASSUME NEW r \in AddressTxRows
      PROVE  \E x \in Hashes : dbTxHash[x] = r.id /\ HeightOf[x] = r.height /\ r.id # 0
  <2>1. PICK x \in Converted : \E a \in AddrsOf[x] :
          r = [id |-> txHashCache[x], height |-> HeightOf[x], address |-> GetAddress(addressCache, a)]
    BY DEF AddressTxRows
  <2> QED
    BY <2>1 DEF Converted, CachesAgree, PipelineTypeOK
<1>5. ASSUME NEW t \in MsgTables, NEW r \in MessageRows(t)
      PROVE  \E x \in Hashes : dbTxHash[x] = r.id /\ HeightOf[x] = r.height /\ r.id # 0
  BY DEF MessageRows, Converted, CachesAgree, PipelineTypeOK
<1>6. ASSUME NEW r \in dbTxs' \cup dbAddressTx' \cup dbMsgs'
      PROVE  \/ r \in dbTxs \cup dbAddressTx \cup dbMsgs
             \/ r \in TransactionRows \cup AddressTxRows
             \/ \E t \in MsgTables : r \in MessageRows(t)
  <2> USE DEF chunkVars, cacheVars, txTables, addrTables, tables
  <2>1. CASE FetchPanics \/ NilBlockPanic \/ DecodeFatal
    BY <2>1, <1>6 DEF FetchPanics, NilBlockPanic, DecodeFatal, Exit
  <2>2. CASE FetchRange \/ CollectTransactions \/ BeginPhaseTwo \/ ChunkReturns \/ MessagesReturn
    BY <2>2, <1>6 DEF FetchRange, CollectTransactions, BeginPhaseTwo, ChunkReturns, MessagesReturn
  <2>3. CASE \/ ProcessValidatorAddresses \/ ProcessTxHashIds \/ ProcessBlocks
             \/ ProcessValidatorSignings \/ ResolveMessages
    BY <2>3, <1>6 DEF ProcessValidatorAddresses, ProcessTxHashIds, ProcessBlocks,
                      ProcessValidatorSignings, ResolveMessages
  <2>4. CASE ProcessTransactions
    BY <2>4, <1>6, CopySteps DEF ProcessTransactions
  <2>5. CASE InsertAddressTx
    BY <2>5, <1>6, CopySteps DEF InsertAddressTx
  <2>6. CASE \E t \in MsgTables : InsertMessageBatch(t)
    BY <2>6, <1>6, CopySteps DEF InsertMessageBatch
  <2> QED
    BY <2>1, <2>2, <2>3, <2>4, <2>5, <2>6 DEF ChunkStep
<1>7. ASSUME NEW r \in dbTxs' \cup dbAddressTx' \cup dbMsgs'
      PROVE  \E x \in Hashes : dbTxHash'[x] = r.id /\ HeightOf[x] = r.height
  <2>1. \E x \in Hashes : dbTxHash[x] = r.id /\ HeightOf[x] = r.height /\ r.id # 0
    BY <1>2, <1>3, <1>4, <1>5, <1>6 DEF RowsNameTheirTransaction
  <2> QED
    BY <2>1, <1>1
<1> QED
  BY <1>7 DEF RowsNameTheirTransaction

\* The addresses of the chunk's messages are resolved before their rows are built.
LEMMA ResolvedForRows ==
    ASSUME PipelineTypeOK, ResolveMessages
    PROVE  MayBeUnresolved' \/ \A x \in Converted : AddrsOf[x] \subseteq addressCache'
<1> DEFINE requested == UNION {AddrsOf[x] : x \in transactions}
<1>1. PICK r \in AddressSolver(requested, addressCache, dbAddresses) :
        addressCache' = r.cache /\ faults' = faults + r.degraded
  BY DEF ResolveMessages
<1>2. \A x \in Converted : AddrsOf[x] \subseteq requested
  BY DEF Converted
<1> HIDE DEF requested
<1>3. CASE r.degraded = 0
  BY <1>1, <1>2, <1>3, SolverFacts
<1>4. CASE r.degraded = 1 /\ CanFail("db")
  BY <1>1, <1>4, SizeAssumption DEF MayBeUnresolved, CanFail, PipelineTypeOK
<1> QED
  BY <1>1, <1>3, <1>4, SolverFacts

\* Nothing but the calls of one chunk's ProcessMessages leads from the resolved
\* addresses to the message batches.
LEMMA ResolvedStep ==
    ASSUME PipelineTypeOK, PhasesAreApart, AddressesAreResolved, ChunkStep
    PROVE  AddressesAreResolved'
<1> USE DEF cacheVars, chunkVars
<1>0. MayBeUnresolved => MayBeUnresolved'
  BY UnresolvedStays
<1>1. CASE FetchPanics \/ NilBlockPanic \/ DecodeFatal
  BY <1>1 DEF FetchPanics, NilBlockPanic, DecodeFatal, Exit, AddressesAreResolved,
              Tasks, PhaseOne, PhaseTwo
<1>2. CASE FetchRange \/ ChunkReturns
  BY <1>0, <1>2 DEF FetchRange, ChunkReturns, AddressesAreResolved, Converted
<1>3. CASE CollectTransactions \/ BeginPhaseTwo
  <2>1. task'["ProcessMessages"] # "address_tx"
    BY <1>3, LaunchFacts DEF CollectTransactions, BeginPhaseTwo
  <2> QED
    BY <2>1 DEF AddressesAreResolved
<1>4. CASE ProcessTxHashIds
  <2>1. task'["ProcessMessages"] # "address_tx"
    BY <1>4 DEF ProcessTxHashIds, PhasesAreApart, Done, PipelineTypeOK, Tasks, PhaseOne, PhaseTwo
  <2> QED
    BY <2>1 DEF AddressesAreResolved
<1>5. CASE \/ ProcessValidatorAddresses \/ ProcessBlocks
           \/ ProcessValidatorSignings \/ ProcessTransactions
  <2>1. /\ task'["ProcessMessages"] = task["ProcessMessages"]
        /\ UNCHANGED <<transactions, txHashCache, addressCache>>
    BY <1>5 DEF ProcessValidatorAddresses, ProcessBlocks, ProcessValidatorSignings,
                ProcessTransactions, Done, PipelineTypeOK, Tasks, PhaseOne, PhaseTwo
  <2> QED
    BY <1>0, <2>1 DEF AddressesAreResolved, Converted
<1>6. CASE ResolveMessages
  <2>1. Converted' = Converted
    BY <1>6 DEF ResolveMessages, Converted
  <2> QED
    BY <1>6, <2>1, ResolvedForRows DEF AddressesAreResolved
<1>7. CASE InsertAddressTx \/ MessagesReturn
  <2>1. task'["ProcessMessages"] # "address_tx"
    BY <1>7 DEF InsertAddressTx, MessagesReturn, Done, PipelineTypeOK, Tasks, PhaseOne, PhaseTwo
  <2> QED
    BY <2>1 DEF AddressesAreResolved
<1>8. CASE \E t \in MsgTables : InsertMessageBatch(t)
  BY <1>0, <1>8 DEF InsertMessageBatch, AddressesAreResolved, Converted
<1> QED
  BY <1>1, <1>2, <1>3, <1>4, <1>5, <1>6, <1>7, <1>8 DEF ChunkStep

\* Once the address_tx rows of resolved addresses are in, the chunk is listed.
LEMMA RowsAreListed ==
    ASSUME PipelineTypeOK, CachesAgree, AddressesAreResolved, InsertAddressTx,
           task'["ProcessMessages"] = "batches", NEW x \in Converted
    PROVE  ListedUnderAll(x)'
<1>1. dbAddressTx' = dbAddressTx \cup AddressTxRows /\ dbTxHash' = dbTxHash
  BY CopySteps DEF InsertAddressTx
<1>2. MayBeUnresolved => MayBeUnresolved'
  BY UnresolvedStays DEF ChunkStep
<1>3. x \in Hashes /\ txHashCache[x] = dbTxHash[x]
  BY DEF Converted, PipelineTypeOK, CachesAgree
<1>4. task["ProcessMessages"] = "address_tx"
  BY DEF InsertAddressTx
<1>5. ASSUME NEW a \in AddrsOf[x]
      PROVE  Listed(x, a)' \/ (MayBeUnresolved' /\ Listed(x, NoId)')
  <2>1. [id |-> txHashCache[x], height |-> HeightOf[x], address |-> GetAddress(addressCache, a)]
          \in AddressTxRows
    BY DEF AddressTxRows
  <2>2. [id |-> dbTxHash'[x], height |-> HeightOf[x], address |-> GetAddress(addressCache, a)]
          \in dbAddressTx'
    BY <1>1, <1>3, <2>1
  <2>3. GetAddress(addressCache, a) = a \/ (MayBeUnresolved /\ GetAddress(addressCache, a) = NoId)
    BY <1>4 DEF AddressesAreResolved, GetAddress
  <2> QED
    BY <1>2, <2>2, <2>3 DEF Listed
<1> QED
  BY <1>5 DEF ListedUnderAll

\* A new message row belongs to a transaction whose address_tx rows are there.
LEMMA ReachStep ==
    ASSUME PipelineTypeOK, PhasesAreApart, CachesAgree, AddressesAreResolved,
           BatchesFollowAddressTx, MessagesAreReachable, ChunkStep
    PROVE  BatchesFollowAddressTx' /\ MessagesAreReachable'
<1> USE DEF chunkVars, cacheVars, txTables, addrTables, tables
<1>0. TablesGrow /\ (MayBeUnresolved => MayBeUnresolved')
  BY ChunkStepGrows, UnresolvedStays
<1>1. CASE FetchPanics \/ NilBlockPanic \/ DecodeFatal
  <2>1. task'["ProcessMessages"] = "idle" /\ UNCHANGED <<dbTxHash, dbAddressTx, dbMsgs>>
    BY <1>1 DEF FetchPanics, NilBlockPanic, DecodeFatal, Exit, Tasks, PhaseOne, PhaseTwo
  <2> QED
    BY <1>0, <2>1, TablesStay DEF BatchesFollowAddressTx
<1>2. CASE FetchRange \/ ChunkReturns
  <2>1. UNCHANGED <<task, transactions, txHashCache, dbTxHash, dbAddressTx, dbMsgs>>
    BY <1>2 DEF FetchRange, ChunkReturns
  <2>2. BatchesFollowAddressTx'
    BY <1>0, <2>1, ListedStays DEF BatchesFollowAddressTx, Converted, PipelineTypeOK
  <2> QED
    BY <1>0, <2>1, <2>2, TablesStay
<1>3. CASE CollectTransactions \/ BeginPhaseTwo
  <2>1. task'["ProcessMessages"] # "batches"
    BY <1>3, LaunchFacts DEF CollectTransactions, BeginPhaseTwo
  <2>2. UNCHANGED <<dbTxHash, dbAddressTx, dbMsgs>>
    BY <1>3 DEF CollectTransactions, BeginPhaseTwo
  <2> QED
    BY <1>0, <2>1, <2>2, TablesStay DEF BatchesFollowAddressTx
<1>4. CASE ProcessTxHashIds
  <2>1. task["ProcessMessages"] # "batches"
    BY <1>4 DEF ProcessTxHashIds, PhasesAreApart
  <2>2. task'["ProcessMessages"] # "batches" /\ dbMsgs' = dbMsgs
    BY <1>4, <2>1 DEF ProcessTxHashIds, Done, PipelineTypeOK, Tasks, PhaseOne, PhaseTwo
  <2> QED
    BY <1>0, <2>2, ReachableStays DEF BatchesFollowAddressTx, MessagesAreReachable
<1>5. CASE \/ ProcessValidatorAddresses \/ ProcessBlocks
           \/ ProcessValidatorSignings \/ ProcessTransactions
  <2>1. /\ task'["ProcessMessages"] = task["ProcessMessages"]
        /\ UNCHANGED <<transactions, txHashCache, dbTxHash, dbAddressTx, dbMsgs>>
    BY <1>5 DEF ProcessValidatorAddresses, ProcessBlocks, ProcessValidatorSignings,
                ProcessTransactions, Done, PipelineTypeOK, Tasks, PhaseOne, PhaseTwo
  <2>2. BatchesFollowAddressTx'
    BY <1>0, <2>1, ListedStays DEF BatchesFollowAddressTx, Converted, PipelineTypeOK
  <2> QED
    BY <1>0, <2>1, <2>2, TablesStay
<1>6. CASE ResolveMessages \/ MessagesReturn
  <2>1. task'["ProcessMessages"] # "batches" /\ UNCHANGED <<dbTxHash, dbAddressTx, dbMsgs>>
    BY <1>6 DEF ResolveMessages, MessagesReturn, Done, PipelineTypeOK, Tasks, PhaseOne, PhaseTwo
  <2> QED
    BY <1>0, <2>1, TablesStay DEF BatchesFollowAddressTx
<1>7. CASE InsertAddressTx
  <2>1. UNCHANGED <<transactions, txHashCache, dbMsgs>> /\ Converted' = Converted
    BY <1>7 DEF InsertAddressTx, Converted
  <2>2. MessagesAreReachable'
    BY <1>0, <2>1, ReachableStays DEF MessagesAreReachable
  <2>3. BatchesFollowAddressTx'
    BY <1>7, <2>1, RowsAreListed DEF BatchesFollowAddressTx
  <2> QED
    BY <2>2, <2>3
<1>8. ASSUME NEW t \in MsgTables, InsertMessageBatch(t)
      PROVE  BatchesFollowAddressTx' /\ MessagesAreReachable'
  <2>1. /\ task["ProcessMessages"] = "batches"
        /\ UNCHANGED <<task, transactions, txHashCache, dbTxHash, dbAddressTx>>
    BY <1>8 DEF InsertMessageBatch
  <2>2. BatchesFollowAddressTx'
    BY <1>0, <2>1, ListedStays DEF BatchesFollowAddressTx, Converted, PipelineTypeOK
  <2>3. ASSUME NEW m \in MessageRows(t)
        PROVE  \E x \in Hashes :
                   dbTxHash'[x] = m.id /\ HeightOf[x] = m.height /\ ListedUnderAll(x)'
    <3>1. PICK x \in Converted : m.id = txHashCache[x] /\ m.height = HeightOf[x]
      BY DEF MessageRows
    <3>2. x \in Hashes /\ txHashCache[x] = dbTxHash[x] /\ ListedUnderAll(x)
      BY <2>1, <3>1 DEF Converted, PipelineTypeOK, CachesAgree, BatchesFollowAddressTx
    <3> QED
      BY <1>0, <2>1, <3>1, <3>2, ListedStays
  <2>4. MessagesAreReachable'
    BY <1>0, <1>8, <2>3, CopySteps, ReachableStays DEF MessagesAreReachable
  <2> QED
    BY <2>2, <2>4
<1> QED
  BY <1>1, <1>2, <1>3, <1>4, <1>5, <1>6, <1>7, <1>8 DEF ChunkStep

\* An id of a new row comes out of a cache, which holds recorded addresses only.
LEMMA IdsStep ==
    ASSUME PipelineTypeOK, CachesAgree, IdsAreRecorded, ChunkStep
    PROVE  IdsAreRecorded'
<1>1. dbValidators \subseteq dbValidators' /\ dbAddresses \subseteq dbAddresses'
  BY ChunkStepGrows DEF TablesGrow
<1>2. ASSUME NEW r \in SigningRows
      PROVE  {r.proposer} \cup r.signed \subseteq dbValidators \cup {NoId}
  BY DEF SigningRows, GetAddress, CachesAgree
<1>3. ASSUME NEW r \in AddressTxRows PROVE r.address \in dbAddresses \cup {NoId}
  <2>1. PICK x \in Converted : \E a \in AddrsOf[x] :
          r = [id |-> txHashCache[x], height |-> HeightOf[x], address |-> GetAddress(addressCache, a)]
    BY DEF AddressTxRows
  <2> QED
    BY <2>1 DEF GetAddress, CachesAgree
<1>4. dbSignings' \subseteq dbSignings \cup SigningRows /\ dbAddressTx' \subseteq dbAddressTx \cup AddressTxRows
  <2> USE DEF chunkVars, cacheVars, txTables, addrTables, tables
  <2>1. CASE FetchPanics \/ NilBlockPanic \/ DecodeFatal
    BY <2>1 DEF FetchPanics, NilBlockPanic, DecodeFatal, Exit
  <2>2. CASE FetchRange \/ CollectTransactions \/ BeginPhaseTwo \/ ChunkReturns \/ MessagesReturn
    BY <2>2 DEF FetchRange, CollectTransactions, BeginPhaseTwo, ChunkReturns, MessagesReturn
  <2>3. CASE \/ ProcessValidatorAddresses \/ ProcessTxHashIds \/ ProcessBlocks
             \/ ProcessTransactions \/ ResolveMessages
    BY <2>3 DEF ProcessValidatorAddresses, ProcessTxHashIds, ProcessBlocks,
                ProcessTransactions, ResolveMessages
  <2>4. CASE ProcessValidatorSignings
    BY <2>4, CopySteps DEF ProcessValidatorSignings
  <2>5. CASE InsertAddressTx
    BY <2>5, CopySteps DEF InsertAddressTx
  <2>6. CASE \E t \in MsgTables : InsertMessageBatch(t)
    BY <2>6 DEF InsertMessageBatch
  <2> QED
    BY <2>1, <2>2, <2>3, <2>4, <2>5, <2>6 DEF ChunkStep
<1>5. ASSUME NEW r \in dbSignings'
      PROVE  {r.proposer} \cup r.signed \subseteq dbValidators' \cup {NoId}
  BY <1>1, <1>2, <1>4 DEF IdsAreRecorded
<1>6. ASSUME NEW r \in dbAddressTx' PROVE r.address \in dbAddresses' \cup {NoId}
  BY <1>1, <1>3, <1>4 DEF IdsAreRecorded
<1> QED
  BY <1>5, <1>6 DEF IdsAreRecorded

\* Every step of processChunk keeps the invariant of the pipeline.
LEMMA ChunkStepInv ==
    ASSUME PipelineTypeOK, PipelineInv, ChunkStep
    PROVE  PipelineInv'
  BY PhasesStep, CachesStep, RowsStep, ResolvedStep, ReachStep, IdsStep DEF PipelineInv

-----------------------------------------------------------------------------
(* The steps with which the loops drive the pipeline *)

\* The invariant holds of the empty database.
LEMMA InitFacts ==
    ASSUME PipelineInit, head \in 0 .. MaxHeight
    PROVE  PipelineTypeOK /\ PipelineInv
<1> USE SizeAssumption DEF PipelineInit
<1>1. /\ task \in [Tasks -> {"idle", "run", "address_tx", "batches", "done"}]
      /\ txHashCache \in [Hashes -> TxIds \cup {0}] /\ dbTxHash \in [Hashes -> TxIds \cup {0}]
  OBVIOUS
<1>2. alive \in BOOLEAN
  BY Zenon
<1>3. PipelineTypeOK
  BY <1>1, <1>2 DEF PipelineTypeOK, Uint
<1>4. PhasesAreApart /\ AddressesAreResolved /\ BatchesFollowAddressTx
  BY DEF PhasesAreApart, AddressesAreResolved, BatchesFollowAddressTx, Tasks, PhaseOne, PhaseTwo
<1>5. CachesAgree /\ RowsNameTheirTransaction /\ MessagesAreReachable /\ IdsAreRecorded
  BY DEF CachesAgree, RowsNameTheirTransaction, MessagesAreReachable, IdsAreRecorded
<1> QED
  BY <1>3, <1>4, <1>5 DEF PipelineInv

\* The call of processChunk keeps type and invariant.
LEMMA CallFacts ==
    ASSUME PipelineTypeOK, PipelineInv, stage = "idle",
           NEW from \in Uint, NEW to \in Uint, CallProcessChunk(from, to)
    PROVE  PipelineTypeOK' /\ PipelineInv'
<1> USE DEF CallProcessChunk, cacheVars, txTables, addrTables, tables
<1>1. PipelineTypeOK'
  BY DEF PipelineTypeOK
<1>2. PhasesAreApart' /\ CachesAgree' /\ RowsNameTheirTransaction' /\ IdsAreRecorded'
  BY DEF PipelineInv, PhasesAreApart, CachesAgree, RowsNameTheirTransaction, IdsAreRecorded
<1>3. AddressesAreResolved' /\ BatchesFollowAddressTx'
  BY DEF PipelineInv, PhasesAreApart, AddressesAreResolved, BatchesFollowAddressTx
<1>4. MessagesAreReachable'
  BY TablesStay DEF PipelineInv, MayBeUnresolved
<1> QED
  BY <1>1, <1>2, <1>3, <1>4 DEF PipelineInv

\* The return of processChunk keeps type and invariant.
LEMMA ReturnFacts ==
    ASSUME PipelineTypeOK, PipelineInv, ProcessChunkReturned
    PROVE  PipelineTypeOK' /\ PipelineInv'
<1> USE DEF ProcessChunkReturned, cacheVars, txTables, addrTables, tables
<1>1. PipelineTypeOK'
  BY SizeAssumption DEF PipelineTypeOK, Uint
<1>2. PhasesAreApart' /\ AddressesAreResolved' /\ BatchesFollowAddressTx'
  BY DEF PhasesAreApart, AddressesAreResolved, BatchesFollowAddressTx, Tasks, PhaseOne, PhaseTwo
<1>3. CachesAgree' /\ RowsNameTheirTransaction' /\ IdsAreRecorded'
  BY DEF PipelineInv, CachesAgree, RowsNameTheirTransaction, IdsAreRecorded
<1>4. MessagesAreReachable'
  BY TablesStay DEF PipelineInv, MayBeUnresolved
<1> QED
  BY <1>1, <1>2, <1>3, <1>4 DEF PipelineInv

\* A new process keeps type and invariant: the caches are loaded from the tables.
LEMMA BootFacts ==
    ASSUME PipelineTypeOK, PipelineInv, stage = "idle", Boot
    PROVE  PipelineTypeOK' /\ PipelineInv'
<1> USE DEF Boot, chunkVars, txTables, addrTables, tables
<1>1. validatorCache' \subseteq dbValidators /\ addressCache' \subseteq dbAddresses
  OBVIOUS
<1>2. alive' \in BOOLEAN
  BY Zenon
<1>3. faults' \in 0 .. MaxFaults
  BY SizeAssumption DEF PipelineTypeOK, CanFail
<1>4. PipelineTypeOK'
  BY <1>1, <1>2, <1>3 DEF PipelineTypeOK
<1>5. PhasesAreApart' /\ AddressesAreResolved' /\ BatchesFollowAddressTx'
  BY DEF PipelineInv, PhasesAreApart, AddressesAreResolved, BatchesFollowAddressTx
<1>6. CachesAgree' /\ RowsNameTheirTransaction' /\ IdsAreRecorded'
  BY <1>1 DEF PipelineInv, CachesAgree, RowsNameTheirTransaction, IdsAreRecorded
<1>7. MayBeUnresolved => MayBeUnresolved'
  BY SizeAssumption DEF PipelineTypeOK, MayBeUnresolved
<1>8. MessagesAreReachable'
  BY <1>7, TablesStay DEF PipelineInv
<1> QED
  BY <1>4, <1>5, <1>6, <1>8 DEF PipelineInv

\* A crash keeps type and invariant.
LEMMA CrashFacts ==
    ASSUME PipelineTypeOK, PipelineInv, Crash
    PROVE  PipelineTypeOK' /\ PipelineInv'
<1>1. faults' \in 0 .. MaxFaults /\ Exit
  BY SizeAssumption DEF PipelineTypeOK, CanFail, Crash
<1>2. MayBeUnresolved' <=> "db" \in FaultKinds
  BY SizeAssumption DEF PipelineTypeOK, Crash, MayBeUnresolved
<1> QED
  BY <1>1, <1>2, ExitTypeOK, ExitInv DEF MayBeUnresolved

\* A step that leaves the pipeline alone keeps type and invariant.
LEMMA StutterFacts ==
    ASSUME PipelineTypeOK, PipelineInv, UNCHANGED pipelineVars
    PROVE  PipelineTypeOK' /\ PipelineInv'
<1> USE DEF pipelineVars, chunkVars, cacheVars, txTables, addrTables, tables
<1>1. PipelineTypeOK'
  BY DEF PipelineTypeOK
<1>2. PipelineInv'
  BY KeptInv DEF MayBeUnresolved
<1> QED
  BY <1>1, <1>2

-----------------------------------------------------------------------------
(* What a step of processChunk does to the chunk and to its goroutines *)

\* A step of processChunk ends the chunk or goes on in the same process.
LEMMA ChunkStepStaysInLoop ==
    ASSUME ChunkStep
    PROVE  stage' # "idle" => stage # "idle" /\ alive' = alive
<1> USE DEF chunkVars
<1>1. CASE FetchPanics \/ NilBlockPanic \/ DecodeFatal
  BY <1>1 DEF FetchPanics, NilBlockPanic, DecodeFatal, Exit
<1>2. CASE FetchRange \/ CollectTransactions \/ BeginPhaseTwo \/ ChunkReturns
  BY <1>2 DEF FetchRange, CollectTransactions, BeginPhaseTwo, ChunkReturns
<1>3. CASE \/ ProcessValidatorAddresses \/ ProcessTxHashIds \/ ProcessBlocks
           \/ ProcessValidatorSignings \/ ProcessTransactions \/ ResolveMessages
           \/ InsertAddressTx \/ MessagesReturn
           \/ \E t \in MsgTables : InsertMessageBatch(t)
  BY <1>3 DEF ProcessValidatorAddresses, ProcessTxHashIds, ProcessBlocks,
              ProcessValidatorSignings, ProcessTransactions, ResolveMessages,
              InsertAddressTx, MessagesReturn, InsertMessageBatch
<1> QED
  BY <1>1, <1>2, <1>3 DEF ChunkStep

\* ProcessValidatorAddresses, ProcessBlocks and ProcessValidatorSignings are launched
\* whatever the chunk holds.
LEMMA LaunchesEmptyToo ==
    ASSUME NEW txs
    PROVE  /\ Launch(PhaseOne, txs)["ProcessValidatorAddresses"] = "run"
           /\ Launch(PhaseOne, txs)["ProcessBlocks"] = "idle"
           /\ Launch(PhaseOne, txs)["ProcessValidatorSignings"] = "idle"
           /\ Launch(PhaseTwo, txs)["ProcessValidatorAddresses"] = "idle"
           /\ Launch(PhaseTwo, txs)["ProcessBlocks"] = "run"
           /\ Launch(PhaseTwo, txs)["ProcessValidatorSignings"] = "run"
  BY DEF Launch, PhaseOne, PhaseTwo, Tasks, TxTasks

\* The other goroutines leave the chunk and these three alone.
LEMMA OtherGoroutines ==
    ASSUME PipelineTypeOK,
           \/ ProcessTxHashIds \/ ProcessTransactions \/ ResolveMessages
           \/ InsertAddressTx \/ MessagesReturn
           \/ \E t \in MsgTables : InsertMessageBatch(t)
    PROVE  /\ UNCHANGED <<chunkVars, validatorCache, dbBlocks, dbSignings>>
           /\ task'["ProcessValidatorAddresses"] = task["ProcessValidatorAddresses"]
           /\ task'["ProcessBlocks"] = task["ProcessBlocks"]
           /\ task'["ProcessValidatorSignings"] = task["ProcessValidatorSignings"]
<1>0. task \in [Tasks -> {"idle", "run", "address_tx", "batches", "done"}]
  BY DEF PipelineTypeOK
<1> USE DEF cacheVars, txTables, Tasks, PhaseOne, PhaseTwo, Done
<1>1. CASE ProcessTxHashIds
  BY <1>0, <1>1 DEF ProcessTxHashIds
<1>2. CASE ProcessTransactions \/ InsertAddressTx \/ MessagesReturn
  BY <1>0, <1>2 DEF ProcessTransactions, InsertAddressTx, MessagesReturn, tables
<1>3. CASE ResolveMessages
  BY <1>0, <1>3 DEF ResolveMessages
<1>4. CASE \E t \in MsgTables : InsertMessageBatch(t)
  BY <1>4 DEF InsertMessageBatch
<1> QED
  BY <1>1, <1>2, <1>3, <1>4

\* Each of the three ends with its own step.
LEMMA OwnGoroutine ==
    ASSUME PipelineTypeOK
    PROVE  /\ ProcessValidatorAddresses =>
                /\ blocks = ChunkHeights /\ UNCHANGED <<chunkVars, dbBlocks, dbSignings>>
                /\ task'["ProcessValidatorAddresses"] = "done"
                /\ task'["ProcessBlocks"] = task["ProcessBlocks"]
                /\ task'["ProcessValidatorSignings"] = task["ProcessValidatorSignings"]
           /\ ProcessBlocks =>
                /\ UNCHANGED <<chunkVars, validatorCache, dbSignings>>
                /\ task["ProcessBlocks"] = "run" /\ task'["ProcessBlocks"] = "done"
                /\ task'["ProcessValidatorAddresses"] = task["ProcessValidatorAddresses"]
                /\ task'["ProcessValidatorSignings"] = task["ProcessValidatorSignings"]
           /\ ProcessValidatorSignings =>
                /\ UNCHANGED <<chunkVars, validatorCache, dbBlocks>>
                /\ task["ProcessValidatorSignings"] = "run"
                /\ task'["ProcessValidatorSignings"] = "done"
                /\ task'["ProcessValidatorAddresses"] = task["ProcessValidatorAddresses"]
                /\ task'["ProcessBlocks"] = task["ProcessBlocks"]
  BY DEF PipelineTypeOK, ProcessValidatorAddresses, ProcessBlocks, ProcessValidatorSignings,
         cacheVars, Done, Tasks, PhaseOne, PhaseTwo

\* Nothing of a chunk is left when the process has ended, the loop is about to call
\* processChunk, or it has returned.
LEMMA NothingRuns ==
    ASSUME Exit \/ ProcessChunkReturned
    PROVE  /\ stage' = "idle" /\ blocks' = {} /\ commits' = {}
           /\ UNCHANGED <<head, dbBlocks, dbSignings>>
           /\ task'["ProcessBlocks"] = "idle" /\ task'["ProcessValidatorSignings"] = "idle"
  BY DEF Exit, ProcessChunkReturned, tables, Tasks, PhaseOne, PhaseTwo

\* A step of processChunk keeps its arguments, or ends it.
LEMMA ChunkStays ==
    ASSUME ChunkStep
    PROVE  head' = head /\ (stage' = "idle" \/ UNCHANGED <<chunkStart, chunkEnd>>)
<1> USE DEF chunkVars
<1>1. CASE FetchPanics \/ NilBlockPanic \/ DecodeFatal
  BY <1>1 DEF FetchPanics, NilBlockPanic, DecodeFatal, Exit
<1>2. CASE FetchRange \/ CollectTransactions \/ BeginPhaseTwo \/ ChunkReturns
  BY <1>2 DEF FetchRange, CollectTransactions, BeginPhaseTwo, ChunkReturns
<1>3. CASE \/ ProcessValidatorAddresses \/ ProcessTxHashIds \/ ProcessBlocks
           \/ ProcessValidatorSignings \/ ProcessTransactions \/ ResolveMessages
           \/ InsertAddressTx \/ MessagesReturn
           \/ \E t \in MsgTables : InsertMessageBatch(t)
  BY <1>3 DEF ProcessValidatorAddresses, ProcessTxHashIds, ProcessBlocks,
              ProcessValidatorSignings, ProcessTransactions, ResolveMessages,
              InsertAddressTx, MessagesReturn, InsertMessageBatch
<1> QED
  BY <1>1, <1>2, <1>3 DEF ChunkStep

\* A COPY without a failure applies its batch unless it breaks a constraint.
LEMMA CleanCopy ==
    ASSUME NEW table, NEW rows, NEW r \in CopyFrom(table, rows, FALSE),
           faults = 0, faults' = 0, faults' = faults + r.fault
    PROVE  r.table = table \cup rows /\ r.ok
<1>1. r = [table |-> table \cup rows, ok |-> TRUE, fault |-> 0]
  <2>1. CASE \E t : r = [table |-> t, ok |-> FALSE, fault |-> 1]
    BY <2>1
  <2> QED
    BY <2>1, Zenon DEF CopyFrom
<1>2. r.table = table \cup rows
  BY <1>1
<1>3. r.ok
  BY <1>1
<1> QED
  BY <1>2, <1>3

\* The goroutines that do not deal with transactions leave them alone.
LEMMA NotAboutTransactions ==
    ASSUME PipelineTypeOK,
           ProcessValidatorAddresses \/ ProcessBlocks \/ ProcessValidatorSignings
    PROVE  /\ UNCHANGED <<chunkVars, txHashCache, batches, txTables>>
           /\ task'["ProcessTxHashIds"] = task["ProcessTxHashIds"]
           /\ task'["ProcessTransactions"] = task["ProcessTransactions"]
           /\ task'["ProcessMessages"] = task["ProcessMessages"]
<1>0. task \in [Tasks -> {"idle", "run", "address_tx", "batches", "done"}]
  BY DEF PipelineTypeOK
<1> QED
  BY <1>0 DEF ProcessValidatorAddresses, ProcessBlocks, ProcessValidatorSignings, cacheVars,
              Done, Tasks, PhaseOne, PhaseTwo

\* The goroutines for transactions are launched when the chunk has some.
LEMMA LaunchesForTransactions ==
    ASSUME NEW txs
    PROVE  /\ Launch(PhaseOne, txs)["ProcessTransactions"] = "idle"
           /\ Launch(PhaseOne, txs)["ProcessMessages"] = "idle"
           /\ txs # {} => /\ Launch(PhaseOne, txs)["ProcessTxHashIds"] = "run"
                          /\ Launch(PhaseTwo, txs)["ProcessTransactions"] = "run"
                          /\ Launch(PhaseTwo, txs)["ProcessMessages"] = "run"
  BY DEF Launch, PhaseOne, PhaseTwo, Tasks, TxTasks

\* A goroutine runs in its phase only (PhasesAreApart says it of the other two).
PlaceInv ==
    /\ task["ProcessValidatorAddresses"] = "run" => stage = "phase1"
    /\ task["ProcessBlocks"] = "run" => stage = "phase2"
    /\ task["ProcessValidatorSignings"] = "run" => stage = "phase2"
    /\ task["ProcessTransactions"] = "run" => stage = "phase2"

\* The wait groups keep the goroutines in their phases,
LEMMA PlaceChunkStep ==
    ASSUME PipelineTypeOK, PlaceInv, ChunkStep
    PROVE  PlaceInv'
<1>0. task \in [Tasks -> {"idle", "run", "address_tx", "batches", "done"}]
  BY DEF PipelineTypeOK
<1> USE DEF PlaceInv, chunkVars
<1>1. CASE FetchRange
  BY <1>1 DEF FetchRange
<1>2. CASE CollectTransactions
  BY <1>2, LaunchesEmptyToo, LaunchesForTransactions DEF CollectTransactions
<1>3. CASE BeginPhaseTwo
  BY <1>3, LaunchesEmptyToo DEF BeginPhaseTwo
<1>4. CASE ChunkReturns
  BY <1>4 DEF ChunkReturns, Finished, Tasks, PhaseOne, PhaseTwo
<1>5. CASE ProcessValidatorAddresses \/ ProcessBlocks \/ ProcessValidatorSignings
  BY <1>0, <1>5, OwnGoroutine, NotAboutTransactions
<1>6. CASE \/ ProcessTxHashIds \/ ProcessTransactions \/ ResolveMessages
           \/ InsertAddressTx \/ MessagesReturn
           \/ \E t \in MsgTables : InsertMessageBatch(t)
  <2>1. /\ UNCHANGED chunkVars
        /\ task'["ProcessValidatorAddresses"] = task["ProcessValidatorAddresses"]
        /\ task'["ProcessBlocks"] = task["ProcessBlocks"]
        /\ task'["ProcessValidatorSignings"] = task["ProcessValidatorSignings"]
    BY <1>6, OtherGoroutines
  <2>2. task'["ProcessTransactions"] = "run" => task["ProcessTransactions"] = "run"
    BY <1>0, <1>6
    DEF ProcessTxHashIds, ProcessTransactions, ResolveMessages, InsertAddressTx, MessagesReturn,
        InsertMessageBatch, Done, Tasks, PhaseOne, PhaseTwo
  <2> QED
    BY <2>1, <2>2
<1>7. CASE Exit
  BY <1>7 DEF Exit, Tasks, PhaseOne, PhaseTwo
<1> QED
  BY <1>1, <1>2, <1>3, <1>4, <1>5, <1>6, <1>7 DEF ChunkStep, FetchPanics, NilBlockPanic, DecodeFatal

\* and the loops start and end none.
LEMMA PlaceLoopStep ==
    ASSUME PlaceInv, Exit \/ ProcessChunkReturned \/ Boot \/ UNCHANGED pipelineVars
    PROVE  PlaceInv'
  BY DEF PlaceInv, Exit, ProcessChunkReturned, Boot, pipelineVars, chunkVars, Tasks, PhaseOne, PhaseTwo

=============================================================================

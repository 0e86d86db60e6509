------------------------------- MODULE Pipeline -------------------------------
(***************************************************************************)
(* The chunk pipeline of the indexer: Orchestrator.processChunk with the   *)
(* two-phase fan-out of processAll, the DataProcessor methods it launches, *)
(* and the tables of the database they write.                              *)
(*                                                                         *)
(* One action per goroutine step that touches shared state: every COPY or  *)
(* INSERT is one action, because the database applies it entirely or not   *)
(* at all while the other goroutines of the phase go on.  The loops that   *)
(* hand chunks to the pipeline are LiveIndexer and HistoricIndexer.        *)
(***************************************************************************)
EXTENDS Naturals, SolverOutcomes

CONSTANTS
    MaxHeight,      \* bound: the last block the chain produces
    MaxBlockChunkSize,
    Modulus,        \* 2^64 in the code: heights are uint64 and wrap
    MaxSliceLen,    \* make([]*T, n) panics for a longer slice
    Hashes,         \* hashes of the transactions of the chain
    HeightOf,       \* the block that holds a transaction
    Defect,         \* what the indexer cannot digest of a transaction
    MsgTables,      \* the message tables (bank_msg_send, vm_msg_call, ...)
    TablesOf,       \* the message tables a transaction's messages go to
    Addresses,
    AddrsOf,        \* signers and addresses of a transaction's messages
    TxIds,          \* ids the identity column of tx_hash_id can hand out
    Validators,
    Signers,        \* Signers[h]: who signed block h (commit of h)
    Proposer,
    BadHashes,      \* blocks whose hash is not base64
    BadHeights,     \* blocks whose header has no number for a height
    BadCommits,     \* blocks whose commit has no number for a height
    NoId,           \* the id 0 that GetAddress answers for an unknown address
    FaultKinds,     \* the kinds of failure the environment may inject
    MaxFaults       \* bound: how many failures it injects

Heights == 1 .. MaxHeight
Uint == 0 .. Modulus - 1

DefectKinds == {"none", "base64", "decode", "result", "conversion"}

ASSUME SizeAssumption ==
    /\ MaxHeight \in Nat /\ MaxBlockChunkSize \in Nat
    /\ Modulus \in Nat /\ MaxSliceLen \in Nat /\ MaxFaults \in Nat
    /\ MaxBlockChunkSize <= MaxSliceLen
    /\ MaxHeight + MaxSliceLen + 1 < Modulus

ASSUME ChainAssumption ==
    /\ HeightOf \in [Hashes -> Heights]
    /\ Defect \in [Hashes -> DefectKinds]
    /\ TablesOf \in [Hashes -> SUBSET MsgTables]
    /\ AddrsOf \in [Hashes -> (SUBSET Addresses) \ {{}}]
    /\ Signers \in [0 .. MaxHeight -> SUBSET Validators]
    /\ Proposer \in [Heights -> Validators]
    /\ BadHashes \subseteq Heights /\ BadHeights \subseteq Heights /\ BadCommits \subseteq Heights
    /\ TxIds \subseteq Nat \ {0}
    /\ NoId \notin Validators \cup Addresses
    /\ FaultKinds \subseteq {"rpc", "db", "crash", "signal"}

VARIABLES
    head,           \* height of the chain the RPC node serves
    alive,          \* the indexer process is running
    stage,          \* how far processChunk got with the current chunk
    chunkStart, chunkEnd,
    blocks,         \* heights whose slot of the blocks slice is not nil
    commits,        \* heights whose slot of the commits slice is not nil
    transactions,   \* the transactions collected for the chunk
    task,           \* progress of the goroutines of the two phases
    batches,        \* message tables ProcessMessages still has to fill
    txHashCache,    \* DataProcessor.txHashCache, 0 where there is no entry
    validatorCache, addressCache,
    dbBlocks,       \* blocks: PRIMARY KEY (height, ...)
    dbSignings,     \* validator_block_signing: PRIMARY KEY (block_height, ...)
    dbTxHash,       \* tx_hash_id: UNIQUE (tx_hash, ...), 0 where there is no row
    dbTxs,          \* transaction_general: PRIMARY KEY (tx_id, timestamp, ...)
    dbAddressTx,    \* address_tx: PRIMARY KEY (address, tx_id, timestamp, ...)
    dbMsgs,         \* message tables: PRIMARY KEY (tx_id, timestamp, ...)
    dbValidators, dbAddresses, \* gno_validators, gno_addresses
    faults          \* failures injected so far

chunkVars == <<stage, chunkStart, chunkEnd, blocks, commits, transactions>>
cacheVars == <<txHashCache, validatorCache, addressCache>>
txTables == <<dbTxHash, dbTxs, dbAddressTx, dbMsgs>>
addrTables == <<dbValidators, dbAddresses>>
tables == <<dbBlocks, dbSignings, txTables, addrTables>>
pipelineVars == <<head, alive, chunkVars, task, batches, cacheVars, tables, faults>>

PhaseOne == {"ProcessValidatorAddresses", "ProcessTxHashIds"}
PhaseTwo == {"ProcessBlocks", "ProcessValidatorSignings",
             "ProcessMessages", "ProcessTransactions"}
Tasks == PhaseOne \cup PhaseTwo
TxTasks == {"ProcessTxHashIds", "ProcessMessages", "ProcessTransactions"}

SigningRow == [height : Heights, proposer : Validators \cup {NoId},
               signed : SUBSET (Validators \cup {NoId})]
TxRow == [id : TxIds, height : Heights]
AddressTxRow == [id : TxIds, height : Heights, address : Addresses \cup {NoId}]
MsgRow == [id : TxIds, height : Heights, table : MsgTables]

\* Every variable of the pipeline holds a value of its Go or SQL type.
PipelineTypeOK ==
    /\ head \in 0 .. MaxHeight
    /\ alive \in BOOLEAN
    /\ stage \in {"idle", "fetch", "collect", "phase1", "phase2", "returned"}
    /\ chunkStart \in Uint /\ chunkEnd \in Uint
    /\ blocks \subseteq Heights /\ commits \subseteq Heights
    /\ transactions \subseteq Hashes
    /\ task \in [Tasks -> {"idle", "run", "address_tx", "batches", "done"}]
    /\ batches \subseteq MsgTables
    /\ txHashCache \in [Hashes -> TxIds \cup {0}]
    /\ validatorCache \subseteq Validators /\ addressCache \subseteq Addresses
    /\ dbBlocks \subseteq Heights
    /\ dbSignings \subseteq SigningRow
    /\ dbTxHash \in [Hashes -> TxIds \cup {0}]
    /\ dbTxs \subseteq TxRow
    /\ dbAddressTx \subseteq AddressTxRow
    /\ dbMsgs \subseteq MsgRow
    /\ dbValidators \subseteq Validators /\ dbAddresses \subseteq Addresses
    /\ faults \in 0 .. MaxFaults

-----------------------------------------------------------------------------
(* uint64 arithmetic *)

Add(a, b) == IF a + b < Modulus THEN a + b ELSE (a + b) - Modulus
Sub(a, b) == IF b <= a THEN a - b ELSE (a + Modulus) - b
MinOf(a, b) == IF a <= b THEN a ELSE b

-----------------------------------------------------------------------------
(* Failures, and what the database does with a batch *)

CanFail(kind) == kind \in FaultKinds /\ faults < MaxFaults

\* The outcomes of one COPY FROM: a batch that breaks a constraint is rejected
\* as a whole; a failing connection loses the batch, or only its answer.
CopyFrom(table, rows, rejected) ==
    LET applied == IF rejected THEN table ELSE table \cup rows
    IN  {[table |-> applied, ok |-> ~rejected, fault |-> 0]}
        \cup {[table |-> t, ok |-> FALSE, fault |-> 1] :
                t \in IF CanFail("db") /\ rows # {} THEN {table, applied} ELSE {}}

\* Mutant of AddressSolver: the cache is filled before the insert is known to hold.
AddressSolverCachesFirst(requested, cache, table) ==
    {[cache |-> cache \cup requested, table |-> table \cup (requested \ cache), degraded |-> 0]}
    \cup {[cache |-> cache \cup requested, table |-> table, degraded |-> 1] :
            f \in IF CanFail("db") THEN {1} ELSE {}}

\* AddressCache.AddressSolver as one step; both callers pass nil for oneByOne.
\* Module AddressCache is shown to implement it.
AddressSolver(requested, cache, table) ==
    Outcomes(requested, cache, table, CanFail("db"), FALSE)

\* AddressCache.GetAddress
GetAddress(cache, a) == IF a \in cache THEN a ELSE NoId

-----------------------------------------------------------------------------
(* The process ends: panic in a goroutine, log.Fatal, or kill.  What was in  *)
(* memory is gone, what was committed stays.                                 *)

Exit ==
    /\ alive' = FALSE
    /\ stage' = "idle" /\ chunkStart' = 0 /\ chunkEnd' = 0
    /\ blocks' = {} /\ commits' = {} /\ transactions' = {}
    /\ task' = [t \in Tasks |-> "idle"] /\ batches' = {}
    /\ txHashCache' = [x \in Hashes |-> 0]
    /\ validatorCache' = {} /\ addressCache' = {}
    /\ UNCHANGED <<head, tables>>

\* kill -9, power loss, out of memory: at any point of the program.
Crash ==
    /\ alive /\ CanFail("crash")
    /\ faults' = faults + 1
    /\ Exit

-----------------------------------------------------------------------------
(* processChunk *)

Launch(tasks, txs) ==
    [t \in Tasks |-> IF t \in tasks /\ (t \in TxTasks => txs # {})
                     THEN "run" ELSE "idle"]

\* Mutant of Finished: the wait group counts goroutines that are never started.
FinishedCountsAll ==
    \A t \in IF stage = "phase1" THEN PhaseOne ELSE PhaseTwo : task[t] = "done"

Finished == \A t \in Tasks : task[t] \in {"idle", "done"}

ChunkLength == Add(Sub(chunkEnd, chunkStart), 1)
ChunkHeights == chunkStart .. chunkEnd

\* A range that wrapped around: make() panics in the query goroutine.
FetchPanics ==
    /\ stage = "fetch" /\ ChunkLength > MaxSliceLen
    /\ Exit
    /\ UNCHANGED faults

\* GetFromToBlocks and GetFromToCommits, once both have returned: a slot is nil
\* when the node has no such height or every retry failed.  An empty range gives
\* two nil slices and processChunk returns at once.
FetchRange ==
    /\ stage = "fetch" /\ ChunkLength <= MaxSliceLen
    /\ stage' = IF ChunkLength < 1 THEN "returned" ELSE "collect"
    /\ LET served == ChunkHeights \cap (1 .. head)
       IN  \/ /\ blocks' = served /\ commits' = served
              /\ UNCHANGED faults
           \/ /\ CanFail("rpc") /\ served # {}
              /\ faults' = faults + 1
              /\ blocks' \in SUBSET served /\ commits' \in SUBSET served
    /\ UNCHANGED <<head, alive, chunkStart, chunkEnd, transactions,
                   task, batches, cacheVars, tables>>

\* The transactions collectTransactionsFromBlocks asks the node for: nil blocks,
\* blocks without a height and hashes that are not base64 are skipped.
Collectable ==
    {x \in Hashes : /\ HeightOf[x] \in blocks \ BadHeights
                    /\ Defect[x] # "base64"}

\* collectTransactionsFromBlocks, then processAll starts phase 1.
CollectTransactions ==
    /\ stage = "collect"
    /\ stage' = "phase1"
    /\ \/ /\ transactions' = Collectable
          /\ UNCHANGED faults
       \/ /\ CanFail("rpc") /\ Collectable # {}
          /\ faults' = faults + 1
          /\ transactions' \in SUBSET Collectable
    /\ task' = Launch(PhaseOne, transactions')
    /\ UNCHANGED <<head, alive, chunkStart, chunkEnd, blocks, commits,
                   batches, cacheVars, tables>>

\* Mutant of BeginPhaseTwo: phase 2 starts beside phase 1.
BeginPhaseTwoAtOnce ==
    /\ stage = "phase1"
    /\ stage' = "phase2"
    /\ task' = [t \in Tasks |-> IF t \in PhaseOne THEN task[t]
                               ELSE Launch(PhaseTwo, transactions)[t]]
    /\ UNCHANGED <<head, alive, chunkStart, chunkEnd, blocks, commits, transactions,
                   batches, cacheVars, tables, faults>>

\* phase1Done is closed when both goroutines of phase 1 are done.
BeginPhaseTwo ==
    /\ stage = "phase1" /\ Finished
    /\ stage' = "phase2"
    /\ task' = Launch(PhaseTwo, transactions)
    /\ UNCHANGED <<head, alive, chunkStart, chunkEnd, blocks, commits, transactions,
                   batches, cacheVars, tables, faults>>

\* phase2Done is closed: processAll and processChunk return nil, whatever failed.
ChunkReturns ==
    /\ stage = "phase2" /\ Finished
    /\ stage' = "returned"
    /\ UNCHANGED <<head, alive, chunkStart, chunkEnd, blocks, commits, transactions,
                   task, batches, cacheVars, tables, faults>>

-----------------------------------------------------------------------------
(* Phase 1 *)

Done(t) == task' = [task EXCEPT ![t] = "done"]

\* processPrecommits dereferences every slot of the blocks slice, nil or not,
\* while ProcessTxHashIds runs beside it.
NilBlockPanic ==
    /\ task["ProcessValidatorAddresses"] = "run"
    /\ blocks # ChunkHeights
    /\ Exit
    /\ UNCHANGED faults

\* The signers of the parent blocks (LastCommit) and the proposers get their ids.
ProcessValidatorAddresses ==
    /\ task["ProcessValidatorAddresses"] = "run"
    /\ blocks = ChunkHeights
    /\ \E r \in AddressSolver((UNION {Signers[h - 1] : h \in blocks})
                                \cup {Proposer[h] : h \in blocks},
                              validatorCache, dbValidators) :
         /\ validatorCache' = r.cache
         /\ dbValidators' = r.table
         /\ faults' = faults + r.degraded
    /\ Done("ProcessValidatorAddresses")
    /\ UNCHANGED <<head, alive, chunkVars, batches, txHashCache, addressCache,
                   dbBlocks, dbSignings, txTables, dbAddresses>>

\* Fresh ids of the identity column for a batch of transactions.
FreshIds(batch) ==
    {ids \in [batch -> TxIds \ {dbTxHash[x] : x \in Hashes}] :
        \A x, y \in batch : ids[x] = ids[y] => x = y}

\* Mutant of ProcessTxHashIds: the ids are cached although the insert was rolled back.
ProcessTxHashIdsCachesRolledBack ==
    /\ task["ProcessTxHashIds"] = "run"
    /\ \A x \in transactions : dbTxHash[x] = 0
    /\ \E ids \in FreshIds(transactions) :
         /\ txHashCache' = [x \in Hashes |-> IF x \in transactions THEN ids[x] ELSE 0]
         /\ \/ /\ dbTxHash' = [x \in Hashes |-> IF x \in transactions THEN ids[x] ELSE dbTxHash[x]]
               /\ UNCHANGED faults
            \/ /\ CanFail("db")
               /\ faults' = faults + 1
               /\ UNCHANGED dbTxHash
    /\ Done("ProcessTxHashIds")
    /\ UNCHANGED <<head, alive, chunkVars, batches, validatorCache, addressCache,
                   dbBlocks, dbSignings, dbTxs, dbAddressTx, dbMsgs, addrTables>>

\* Mutant of ProcessTxHashIds: a hash that has a row gets a new id.
ProcessTxHashIdsUpserts ==
    /\ task["ProcessTxHashIds"] = "run"
    /\ \E ids \in FreshIds(transactions) :
         /\ dbTxHash' = [x \in Hashes |-> IF x \in transactions THEN ids[x] ELSE dbTxHash[x]]
         /\ txHashCache' = [x \in Hashes |-> IF x \in transactions THEN ids[x] ELSE 0]
    /\ Done("ProcessTxHashIds")
    /\ UNCHANGED <<head, alive, chunkVars, batches, validatorCache, addressCache,
                   dbBlocks, dbSignings, dbTxs, dbAddressTx, dbMsgs, addrTables, faults>>

\* InsertTxHashIds, then the cache is replaced; an error leaves the old cache.
ProcessTxHashIds ==
    /\ task["ProcessTxHashIds"] = "run"
    /\ \/ /\ \E x \in transactions : dbTxHash[x] # 0
          /\ UNCHANGED <<dbTxHash, txHashCache, faults>>
       \/ /\ \A x \in transactions : dbTxHash[x] = 0
          /\ \E ids \in FreshIds(transactions) :
               /\ dbTxHash' = [x \in Hashes |-> IF x \in transactions THEN ids[x] ELSE dbTxHash[x]]
               /\ \/ /\ txHashCache' = [x \in Hashes |-> IF x \in transactions THEN ids[x] ELSE 0]
                     /\ UNCHANGED faults
                  \/ /\ CanFail("db")
                     /\ faults' = faults + 1
                     /\ UNCHANGED txHashCache
       \/ /\ CanFail("db")
          /\ faults' = faults + 1
          /\ UNCHANGED <<dbTxHash, txHashCache>>
    /\ Done("ProcessTxHashIds")
    /\ UNCHANGED <<head, alive, chunkVars, batches, validatorCache, addressCache,
                   dbBlocks, dbSignings, dbTxs, dbAddressTx, dbMsgs, addrTables>>

-----------------------------------------------------------------------------
(* Phase 2 *)

\* The blocks whose row processBlock cannot build.
BadBlocks == BadHashes \cup BadHeights

\* A block without a row leaves a zero row in the batch, whose empty chain name is
\* no value of the enum: the COPY fails for every block of the chunk.
ProcessBlocks ==
    /\ task["ProcessBlocks"] = "run"
    /\ \E r \in CopyFrom(dbBlocks, blocks, blocks \cap (dbBlocks \cup BadBlocks) # {}) :
         /\ dbBlocks' = r.table
         /\ faults' = faults + r.fault
    /\ Done("ProcessBlocks")
    /\ UNCHANGED <<head, alive, chunkVars, batches, cacheVars, dbSignings, txTables, addrTables>>

\* processValidatorSigning: nil commits and unparsable heights are skipped.
SigningRows ==
    {[height |-> h,
      proposer |-> GetAddress(validatorCache, Proposer[h]),
      signed |-> {GetAddress(validatorCache, v) : v \in Signers[h]}] :
        h \in commits \ BadCommits}

\* Mutant of ProcessValidatorSignings: a commit that is skipped leaves a zero row, as
\* a block does in ProcessBlocks.
ProcessValidatorSigningsZeroRow ==
    /\ task["ProcessValidatorSignings"] = "run"
    /\ \E r \in CopyFrom(dbSignings, SigningRows,
                         \/ commits \cap BadCommits # {}
                         \/ \E a \in SigningRows, b \in dbSignings : a.height = b.height) :
         /\ dbSignings' = r.table
         /\ faults' = faults + r.fault
    /\ Done("ProcessValidatorSignings")
    /\ UNCHANGED <<head, alive, chunkVars, batches, cacheVars, dbBlocks, txTables, addrTables>>

ProcessValidatorSignings ==
    /\ task["ProcessValidatorSignings"] = "run"
    /\ \E r \in CopyFrom(dbSignings, SigningRows,
                         \E a \in SigningRows, b \in dbSignings : a.height = b.height) :
         /\ dbSignings' = r.table
         /\ faults' = faults + r.fault
    /\ Done("ProcessValidatorSignings")
    /\ UNCHANGED <<head, alive, chunkVars, batches, cacheVars, dbBlocks, txTables, addrTables>>

\* NewDecodedMsg calls log.Fatal when a transaction does not decode: the process
\* exits while the other goroutines of the phase may or may not have inserted.
DecodeFatal ==
    /\ \E t \in {"ProcessMessages", "ProcessTransactions"} : task[t] = "run"
    /\ \E x \in transactions : Defect[x] = "decode"
    /\ Exit
    /\ UNCHANGED faults

Decoded == \A x \in transactions : Defect[x] # "decode"

\* Mutant of TransactionRows: a transaction without a cached id is not skipped.
TransactionRowsUncached ==
    {[id |-> txHashCache[x], height |-> HeightOf[x]] :
        x \in {y \in transactions : Defect[y] # "result"}}

\* processTransaction: skipped without an entry in txHashCache or when the
\* result does not parse.
TransactionRows ==
    {[id |-> txHashCache[x], height |-> HeightOf[x]] :
        x \in {y \in transactions : txHashCache[y] # 0 /\ Defect[y] # "result"}}

ProcessTransactions ==
    /\ task["ProcessTransactions"] = "run" /\ Decoded
    /\ \E r \in CopyFrom(dbTxs, TransactionRows, TransactionRows \cap dbTxs # {}) :
         /\ dbTxs' = r.table
         /\ faults' = faults + r.fault
    /\ Done("ProcessTransactions")
    /\ UNCHANGED <<head, alive, chunkVars, batches, cacheVars, dbBlocks, dbSignings,
                   dbTxHash, dbAddressTx, dbMsgs, addrTables>>

\* processMessageGroup: the transactions that are converted.
Converted == {x \in transactions : txHashCache[x] # 0}

\* Mutant of AddressTxRows: the rows are deduplicated by transaction only.
AddressTxRowsOnePerTransaction ==
    {[id |-> txHashCache[x], height |-> HeightOf[x],
      address |-> GetAddress(addressCache, CHOOSE a \in AddrsOf[x] : TRUE)] : x \in Converted}

AddressTxRows ==
    UNION {{[id |-> txHashCache[x], height |-> HeightOf[x],
             address |-> GetAddress(addressCache, a)] : a \in AddrsOf[x]} : x \in Converted}

MessageRows(t) ==
    {[id |-> txHashCache[x], height |-> HeightOf[x], table |-> t] :
        x \in {y \in Converted : t \in TablesOf[y]}}

\* ProcessMessages up to the first insert: decode, resolve addresses, convert.
\* One conversion error aborts the messages of the whole chunk.
ResolveMessages ==
    /\ task["ProcessMessages"] = "run" /\ Decoded
    /\ \E r \in AddressSolver(UNION {AddrsOf[x] : x \in transactions},
                              addressCache, dbAddresses) :
         /\ addressCache' = r.cache
         /\ dbAddresses' = r.table
         /\ faults' = faults + r.degraded
    /\ task' = [task EXCEPT !["ProcessMessages"] =
                    IF \E x \in Converted : Defect[x] = "conversion"
                    THEN "done" ELSE "address_tx"]
    /\ UNCHANGED <<head, alive, chunkVars, batches, txHashCache, validatorCache,
                   dbBlocks, dbSignings, txTables, dbValidators>>

\* The address_tx rows go first; an error ends ProcessMessages.
InsertAddressTx ==
    /\ task["ProcessMessages"] = "address_tx"
    /\ \E r \in CopyFrom(dbAddressTx, AddressTxRows, AddressTxRows \cap dbAddressTx # {}) :
         /\ dbAddressTx' = r.table
         /\ faults' = faults + r.fault
         /\ task' = [task EXCEPT !["ProcessMessages"] = IF r.ok THEN "batches" ELSE "done"]
         /\ batches' = IF r.ok THEN UNION {TablesOf[x] : x \in Converted} ELSE {}
    /\ UNCHANGED <<head, alive, chunkVars, cacheVars, dbBlocks, dbSignings,
                   dbTxHash, dbTxs, dbMsgs, addrTables>>

\* insertMessageBatch: one COPY per table, a failure does not stop the others.
InsertMessageBatch(t) ==
    /\ task["ProcessMessages"] = "batches" /\ t \in batches
    /\ batches' = batches \ {t}
    /\ \E r \in CopyFrom(dbMsgs, MessageRows(t), MessageRows(t) \cap dbMsgs # {}) :
         /\ dbMsgs' = r.table
         /\ faults' = faults + r.fault
    /\ UNCHANGED <<head, alive, chunkVars, task, cacheVars, dbBlocks, dbSignings,
                   dbTxHash, dbTxs, dbAddressTx, addrTables>>

MessagesReturn ==
    /\ task["ProcessMessages"] = "batches" /\ batches = {}
    /\ Done("ProcessMessages")
    /\ UNCHANGED <<head, alive, chunkVars, batches, cacheVars, tables, faults>>

-----------------------------------------------------------------------------

PipelineInit ==
    /\ alive = TRUE
    /\ stage = "idle" /\ chunkStart = 0 /\ chunkEnd = 0
    /\ blocks = {} /\ commits = {} /\ transactions = {}
    /\ task = [t \in Tasks |-> "idle"] /\ batches = {}
    /\ txHashCache = [x \in Hashes |-> 0]
    /\ validatorCache = {} /\ addressCache = {}
    /\ dbBlocks = {} /\ dbSignings = {}
    /\ dbTxHash = [x \in Hashes |-> 0]
    /\ dbTxs = {} /\ dbAddressTx = {} /\ dbMsgs = {}
    /\ dbValidators = {} /\ dbAddresses = {}
    /\ faults = 0

\* The loop calls processChunk(from, to).
CallProcessChunk(from, to) ==
    /\ stage' = "fetch" /\ chunkStart' = from /\ chunkEnd' = to
    /\ blocks' = {} /\ commits' = {} /\ transactions' = {}
    /\ UNCHANGED <<head, alive, task, batches, cacheVars, tables, faults>>

\* processChunk is back in the loop.
ProcessChunkReturned ==
    /\ stage = "returned"
    /\ stage' = "idle" /\ chunkStart' = 0 /\ chunkEnd' = 0
    /\ blocks' = {} /\ commits' = {} /\ transactions' = {}
    /\ task' = [t \in Tasks |-> "idle"]
    /\ UNCHANGED <<head, alive, batches, cacheVars, tables, faults>>

\* A new process: NewAddressCache loads both address tables, the rest is empty.
\* GetAllAddresses never looks at rows.Err(), so a connection that breaks while
\* the rows stream in leaves a cache with only some of them.
Boot ==
    /\ ~alive
    /\ alive' = TRUE
    /\ \/ /\ validatorCache' = dbValidators /\ addressCache' = dbAddresses
          /\ UNCHANGED faults
       \/ /\ CanFail("db")
          /\ faults' = faults + 1
          /\ validatorCache' \in SUBSET dbValidators
          /\ addressCache' \in SUBSET dbAddresses
    /\ UNCHANGED <<head, chunkVars, task, batches, txHashCache, tables>>

ChunkStep ==
    \/ FetchPanics \/ FetchRange \/ CollectTransactions
    \/ BeginPhaseTwo \/ ChunkReturns
    \/ NilBlockPanic \/ ProcessValidatorAddresses \/ ProcessTxHashIds
    \/ ProcessBlocks \/ ProcessValidatorSignings
    \/ DecodeFatal \/ ProcessTransactions
    \/ ResolveMessages \/ InsertAddressTx \/ MessagesReturn
    \/ \E t \in MsgTables : InsertMessageBatch(t)

-----------------------------------------------------------------------------
(* What the tables promise to their readers, whatever failed and whenever    *)
(* the process died                                                          *)

\* Every row of transaction_general, address_tx and the message tables carries
\* the tx_id that tx_hash_id holds for a transaction of the same block: the joins
\* of the API find exactly that transaction.  Phase 2 reads the ids out of
\* txHashCache, which a failed ProcessTxHashIds leaves as the last chunk set it.
RowsNameTheirTransaction ==
    \A r \in dbTxs \cup dbAddressTx \cup dbMsgs :
        \E x \in Hashes : dbTxHash[x] = r.id /\ HeightOf[x] = r.height

\* address_tx lists the transaction under the address.
Listed(x, a) ==
    [id |-> dbTxHash[x], height |-> HeightOf[x], address |-> a] \in dbAddressTx

\* A database call may have failed, one of the address solver among them.
MayBeUnresolved == "db" \in FaultKinds /\ faults # 0

\* address_tx lists it under each signer and address of its messages, or under the
\* id 0 in the place of one that could not be resolved.
ListedUnderAll(x) ==
    \A a \in AddrsOf[x] : Listed(x, a) \/ (MayBeUnresolved /\ Listed(x, NoId))

\* A message row is found by every signer and address of its transaction:
\* ProcessMessages resolves them first, inserts their address_tx rows next and gives
\* up when that fails.  Only a database call that failed may leave an address
\* unresolved: its row then carries the id 0, by which nobody finds the message.
MessagesAreReachable ==
    \A m \in dbMsgs : \E x \in Hashes :
        dbTxHash[x] = m.id /\ HeightOf[x] = m.height /\ ListedUnderAll(x)

\* An id written into a signing or an address_tx row is an id of gno_validators
\* or gno_addresses, or the 0 of an address the cache did not know.
IdsAreRecorded ==
    /\ \A r \in dbSignings : {r.proposer} \cup r.signed \subseteq dbValidators \cup {NoId}
    /\ \A r \in dbAddressTx : r.address \in dbAddresses \cup {NoId}

=============================================================================

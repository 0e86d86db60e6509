------------------------------- MODULE ApiProofs -------------------------------
(***************************************************************************)
(* Theorems about the API: what it answers beside a live indexer, for      *)
(* every chain, request and number of failures, crashes and restarts; and  *)
(* what a client meets that follows the links of its pages, for every      *)
(* history of rows, every limit and every timestamp range.                 *)
(***************************************************************************)
EXTENDS ApiReads, Pagination, LiveIndexerProofs, SequenceTheorems, FiniteSetTheorems

-----------------------------------------------------------------------------
(* What the rows say is true of the chain *)

\* An id of tx_hash_id is handed out once.
IdsAreUnique ==
    \A x, y \in Hashes : dbTxHash[x] # 0 /\ dbTxHash[x] = dbTxHash[y] => x = y

\* A signing row names the proposer and signers of its block, or the 0 of an
\* address the cache did not know; a block has one row.
SigningsAreTrue ==
    /\ \A s \in dbSignings :
         /\ s.proposer \in {Proposer[s.height], NoId}
         /\ s.signed \subseteq Signers[s.height] \cup {NoId}
    /\ \A s, t \in dbSignings : s.height = t.height => s = t

\* An address_tx row joins a transaction with an address that transaction names.
AddressRowsAreTrue ==
    \A r \in dbAddressTx : \E x \in Hashes :
        dbTxHash[x] = r.id /\ r.address \in AddrsOf[x] \cup {NoId}

RowsAreTrue == IdsAreUnique /\ SigningsAreTrue /\ AddressRowsAreTrue

-----------------------------------------------------------------------------
(* What a request holds between two of its queries *)

FoundBlocksAreTrue(found) == \A b \in found : b.proposer = Proposer[b.height]

FoundTxsAreTrue(txs) == \A r \in txs : r.hash \in Hashes /\ r.height = HeightOf[r.hash]

MessagesInPlace(x, response) ==
    \A n \in DOMAIN response :
        response[n] \in {0, n} \/ MsgsOf[x][response[n]] = SendTable

\* A result that is back stays true while the other query is out: what it says
\* is about the chain, and no later write changes that.
ReaderIsTrue ==
    /\ reader.at \in {"blocks", "await_txs", "await_blocks"} =>
         reader.ask.route \in {"range", "latest", "last"}
    /\ reader.at = "await_txs" => FoundBlocksAreTrue(reader.blocks)
    /\ reader.at = "await_blocks" => FoundTxsAreTrue(reader.txs)
    /\ reader.at = "address" => reader.address \in Addresses
    /\ reader.at = "messages" =>
         /\ reader = [at |-> "messages", hash |-> reader.hash, settled |-> reader.settled,
                      next |-> reader.next, response |-> reader.response]
         /\ MessagesInPlace(reader.hash, reader.response)

ApiInv == LiveInv /\ RowsAreTrue /\ ReaderIsTrue /\ AnswersAreTrue

-----------------------------------------------------------------------------
(* The rows stay true *)

\* What a step of processChunk may do to the tables the API joins.
LEMMA TableSteps ==
    ASSUME PipelineTypeOK, ChunkStep
    PROVE  /\ \/ dbTxHash' = dbTxHash
              \/ \E ids \in FreshIds(transactions) :
                   dbTxHash' = [x \in Hashes |-> IF x \in transactions THEN ids[x] ELSE dbTxHash[x]]
           /\ \/ dbSignings' = dbSignings
              \/ /\ dbSignings' = dbSignings \cup SigningRows
                 /\ ~ \E a \in SigningRows, b \in dbSignings : a.height = b.height
           /\ \/ dbAddressTx' = dbAddressTx
              \/ /\ dbAddressTx' = dbAddressTx \cup AddressTxRows
                 /\ dbTxHash' = dbTxHash
<1> USE DEF chunkVars, cacheVars, txTables, addrTables, tables
<1>1. CASE FetchPanics \/ NilBlockPanic \/ DecodeFatal
  BY <1>1 DEF FetchPanics, NilBlockPanic, DecodeFatal, Exit
<1>2. CASE FetchRange \/ CollectTransactions \/ BeginPhaseTwo \/ ChunkReturns \/ MessagesReturn
  BY <1>2 DEF FetchRange, CollectTransactions, BeginPhaseTwo, ChunkReturns, MessagesReturn
<1>3. CASE \/ ProcessValidatorAddresses \/ ProcessBlocks \/ ProcessTransactions
           \/ ResolveMessages \/ \E t \in MsgTables : InsertMessageBatch(t)
  BY <1>3 DEF ProcessValidatorAddresses, ProcessBlocks, ProcessTransactions, ResolveMessages,
              InsertMessageBatch
<1>4. CASE ProcessTxHashIds
  <2>1. UNCHANGED <<dbSignings, dbAddressTx>>
    BY <1>4 DEF ProcessTxHashIds
  <2>2. \/ dbTxHash' = dbTxHash
        \/ \E ids \in FreshIds(transactions) :
             dbTxHash' = [x \in Hashes |-> IF x \in transactions THEN ids[x] ELSE dbTxHash[x]]
    BY <1>4, Zenon DEF ProcessTxHashIds
  <2> QED
    BY <2>1, <2>2
<1>5. CASE ProcessValidatorSignings
  <2> DEFINE rejected == \E a \in SigningRows, b \in dbSignings : a.height = b.height
  <2>1. PICK r \in CopyFrom(dbSignings, SigningRows, rejected) : dbSignings' = r.table
    BY <1>5 DEF ProcessValidatorSignings
  <2>2. rejected \in BOOLEAN
    OBVIOUS
  <2>3. UNCHANGED <<dbTxHash, dbAddressTx>>
    BY <1>5 DEF ProcessValidatorSignings
  <2>4. \/ dbSignings' = dbSignings
        \/ dbSignings' = dbSignings \cup SigningRows /\ ~rejected
    <3> HIDE DEF rejected
    <3> QED
      BY <2>1, <2>2, CopyFacts
  <2> QED
    BY <2>3, <2>4
<1>6. CASE InsertAddressTx
  BY <1>6, CopySteps DEF InsertAddressTx
<1> QED
  BY <1>1, <1>2, <1>3, <1>4, <1>5, <1>6 DEF ChunkStep

\* The identity column hands out ids no row has, each to one transaction.
LEMMA UniqueIdsStep ==
    ASSUME PipelineTypeOK, IdsAreUnique, ChunkStep
    PROVE  IdsAreUnique'
<1>1. CASE dbTxHash' = dbTxHash
  BY <1>1 DEF IdsAreUnique
<1>2. ASSUME NEW ids \in FreshIds(transactions),
             dbTxHash' = [x \in Hashes |-> IF x \in transactions THEN ids[x] ELSE dbTxHash[x]]
      PROVE  IdsAreUnique'
  <2> SUFFICES ASSUME NEW x \in Hashes, NEW y \in Hashes,
                      dbTxHash'[x] # 0, dbTxHash'[x] = dbTxHash'[y]
               PROVE  x = y
    BY DEF IdsAreUnique
  <2>1. \A z \in transactions : \A w \in Hashes : ids[z] # dbTxHash[w]
    BY DEF FreshIds
  <2>2. CASE x \in transactions /\ y \in transactions
    BY <1>2, <2>2 DEF FreshIds
  <2>3. CASE x \notin transactions /\ y \notin transactions
    BY <1>2, <2>3 DEF IdsAreUnique
  <2> QED
    BY <1>2, <2>1, <2>2, <2>3
<1> QED
  BY <1>1, <1>2, TableSteps

\* ProcessValidatorSignings writes the block's own proposer and signers, or 0 for
\* one the cache does not know, and never a second row for a block.
LEMMA TrueSigningsStep ==
    ASSUME PipelineTypeOK, SigningsAreTrue, ChunkStep
    PROVE  SigningsAreTrue'
<1>1. CASE dbSignings' = dbSignings
  BY <1>1 DEF SigningsAreTrue
<1>2. CASE /\ dbSignings' = dbSignings \cup SigningRows
           /\ ~ \E a \in SigningRows, b \in dbSignings : a.height = b.height
  <2>1. ASSUME NEW s \in SigningRows
        PROVE  /\ s.proposer \in {Proposer[s.height], NoId}
               /\ s.signed \subseteq Signers[s.height] \cup {NoId}
    BY DEF SigningRows, GetAddress
  <2>2. ASSUME NEW s \in SigningRows, NEW t \in SigningRows, s.height = t.height
        PROVE  s = t
    BY <2>2 DEF SigningRows
  <2>3. \A s \in dbSignings' :
          /\ s.proposer \in {Proposer[s.height], NoId}
          /\ s.signed \subseteq Signers[s.height] \cup {NoId}
    BY <1>2, <2>1 DEF SigningsAreTrue
  <2>4. \A s, t \in dbSignings' : s.height = t.height => s = t
    BY <1>2, <2>2 DEF SigningsAreTrue
  <2> QED
    BY <2>3, <2>4 DEF SigningsAreTrue
<1> QED
  BY <1>1, <1>2, TableSteps

\* InsertAddressTx takes id and address from one transaction, and ids that were
\* handed out never change.
LEMMA TrueAddressRowsStep ==
    ASSUME PipelineTypeOK, CachesAgree, AddressRowsAreTrue, ChunkStep
    PROVE  AddressRowsAreTrue'
<1>1. ASSUME NEW r \in dbAddressTx
      PROVE  \E x \in Hashes : dbTxHash'[x] = r.id /\ r.address \in AddrsOf[x] \cup {NoId}
  <2>1. r.id # 0
    BY ChainAssumption DEF PipelineTypeOK, AddressTxRow
  <2> QED
    BY <2>1, ChunkStepGrows DEF TablesGrow, AddressRowsAreTrue
<1>2. ASSUME NEW r \in AddressTxRows
      PROVE  \E x \in Hashes : dbTxHash[x] = r.id /\ r.address \in AddrsOf[x] \cup {NoId}
  <2>1. PICK x \in Converted : \E a \in AddrsOf[x] :
          r = [id |-> txHashCache[x], height |-> HeightOf[x], address |-> GetAddress(addressCache, a)]
    BY DEF AddressTxRows
  <2>2. x \in Hashes /\ txHashCache[x] = dbTxHash[x]
    BY DEF Converted, CachesAgree, PipelineTypeOK
  <2> QED
    BY <2>1, <2>2 DEF GetAddress
<1> QED
  BY <1>1, <1>2, TableSteps DEF AddressRowsAreTrue

\* Outside of processChunk no step of live mode touches a table.
LEMMA OtherStepsKeepTables ==
    ASSUME [Next]_vars
    PROVE  LiveChunkStep \/ UNCHANGED tables
<1> USE DEF liveVars
<1>1. CASE NewBlock \/ LatestHeightFails \/ LiveCaughtUp \/ Cancel \/ UNCHANGED vars
  BY <1>1 DEF NewBlock, LatestHeightFails, LiveCaughtUp, Cancel, vars, pipelineVars
<1>2. CASE LiveStart \/ LiveInterrupted
  BY <1>2 DEF LiveStart, LiveInterrupted, pipelineVars
<1>3. CASE LiveStartFails \/ LiveStopped \/ LiveCrash
  BY <1>3 DEF LiveStartFails, LiveStopped, LiveCrash, Crash, Exit
<1>4. CASE LiveChunk \/ LiveChunkDone
  BY <1>4 DEF LiveChunk, LiveChunkDone, CallProcessChunk, ProcessChunkReturned
<1>5. CASE Restart
  BY <1>5 DEF Restart, Boot
<1> QED
  BY <1>1, <1>2, <1>3, <1>4, <1>5 DEF Next

\* Every step of live mode keeps the rows true,
LEMMA TrueRowsStep ==
    ASSUME LiveInv, RowsAreTrue, [Next]_vars
    PROVE  RowsAreTrue'
<1>1. CASE LiveChunkStep
  BY <1>1, UniqueIdsStep, TrueSigningsStep, TrueAddressRowsStep
  DEF LiveChunkStep, RowsAreTrue, LiveInv, TypeOK, PipelineInv
<1>2. CASE UNCHANGED tables
  BY <1>2 DEF RowsAreTrue, IdsAreUnique, SigningsAreTrue, AddressRowsAreTrue, tables, txTables
<1> QED
  BY <1>1, <1>2, OtherStepsKeepTables

\* and takes nothing back that is committed.
LEMMA LiveStepGrows ==
    ASSUME LiveInv, [Next]_vars
    PROVE  TablesGrow
<1>1. CASE LiveChunkStep
  BY <1>1, ChunkStepGrows DEF LiveChunkStep, LiveInv, TypeOK
<1>2. CASE UNCHANGED tables
  BY <1>2 DEF TablesGrow, tables, txTables, addrTables
<1> QED
  BY <1>1, <1>2, OtherStepsKeepTables

-----------------------------------------------------------------------------
(* What the queries return *)

\* A block the API sees comes with the proposer of the block.
LEMMA BlocksQueryIsTrue ==
    ASSUME PipelineTypeOK, SigningsAreTrue, NEW ask, ask.route \in {"range", "latest", "last"}
    PROVE  FoundBlocksAreTrue(BlocksQuery(ask))
<1>1. ASSUME NEW h \in VisibleBlocks
      PROVE  (CHOOSE s \in dbSignings : s.height = h).proposer = Proposer[h]
  <2>1. PICK s \in dbSignings : s.height = h /\ s.proposer \in dbValidators
    BY DEF VisibleBlocks
  <2>2. (CHOOSE t \in dbSignings : t.height = h) = s
    BY <2>1 DEF SigningsAreTrue
  <2>3. s.proposer # NoId
    BY <2>1, ChainAssumption DEF PipelineTypeOK
  <2> QED
    BY <2>1, <2>2, <2>3 DEF SigningsAreTrue
<1>2. (CASE ask.route = "range" -> VisibleBlocks \cap (ask.from .. ask.to)
         [] ask.route = "latest" -> Highest(VisibleBlocks)
         [] ask.route = "last" -> LastX(VisibleBlocks, ask.to)) \subseteq VisibleBlocks
  BY DEF Highest, LastX
<1> QED
  BY <1>1, <1>2 DEF BlocksQuery, FoundBlocksAreTrue

\* A transaction the API sees comes with its height.
LEMMA VisibleTxsAreTrue ==
    ASSUME PipelineTypeOK, RowsNameTheirTransaction, IdsAreUnique
    PROVE  FoundTxsAreTrue(VisibleTxs)
<1> SUFFICES ASSUME NEW r \in VisibleTxs PROVE r.hash \in Hashes /\ r.height = HeightOf[r.hash]
  BY DEF FoundTxsAreTrue
<1> DEFINE row == [id |-> dbTxHash[r.hash], height |-> r.height]
<1>1. r.hash \in Hashes /\ row \in dbTxs
  BY DEF VisibleTxs
<1>2. dbTxHash[r.hash] # 0
  BY <1>1, ChainAssumption DEF PipelineTypeOK, TxRow
<1>3. PICK x \in Hashes : dbTxHash[x] = row.id /\ HeightOf[x] = row.height
  BY <1>1 DEF RowsNameTheirTransaction
<1>4. x = r.hash
  BY <1>1, <1>2, <1>3 DEF IdsAreUnique
<1> QED
  BY <1>1, <1>3, <1>4

\* The account of an address is joined with transactions that name the address.
LEMMA AddressTxsAreTrue ==
    ASSUME PipelineTypeOK, IdsAreUnique, AddressRowsAreTrue,
           NEW a \in Addresses, NEW x \in AddressTxsQuery(a)
    PROVE  a \in AddrsOf[x]
<1>1. PICK r \in dbAddressTx : r.id = dbTxHash[x] /\ r.address = a
  BY DEF AddressTxsQuery
<1>2. PICK y \in Hashes : dbTxHash[y] = r.id /\ r.address \in AddrsOf[y] \cup {NoId}
  BY DEF AddressRowsAreTrue
<1>3. r.id # 0 /\ a # NoId
  BY ChainAssumption DEF PipelineTypeOK, AddressTxRow
<1>4. x = y
  BY <1>1, <1>2, <1>3 DEF AddressTxsQuery, IdsAreUnique
<1> QED
  BY <1>1, <1>2, <1>3, <1>4

\* A response that has its messages in place keeps them there when the next query
\* is written into it.
LEMMA FillKeepsPlaces ==
    ASSUME NEW x, NEW response, NEW table, MessagesInPlace(x, response),
           NEW r \in Fill(response, x, table)
    PROVE  MessagesInPlace(x, r)
<1>1. CASE table = SendTable
  <2>1. CASE BankSendQuery(x) = {}
    BY <1>1, <2>1 DEF Fill, FillSend
  <2>2. CASE BankSendQuery(x) # {}
    <3>1. PICK m \in BankSendQuery(x) : r = [response EXCEPT ![1] = m]
      BY <1>1, <2>2 DEF Fill, FillSend
    <3>2. MsgsOf[x][m] = SendTable
      BY <3>1 DEF BankSendQuery, MessagesQuery
    <3> QED
      BY <3>1, <3>2 DEF MessagesInPlace
  <2> QED
    BY <2>1, <2>2
<1>2. CASE table # SendTable
  <2>1. r = [n \in DOMAIN response |-> IF n \in MessagesQuery(x, table) THEN n ELSE response[n]]
    BY <1>2 DEF Fill
  <2> QED
    BY <2>1 DEF MessagesInPlace
<1> QED
  BY <1>1, <1>2

-----------------------------------------------------------------------------
(* The requests *)

\* A request begins and ends without a table being touched.
LEMMA ApiReadsOnly ==
    ASSUME Api
    PROVE  UNCHANGED vars
  BY DEF Api, AskBlocks, OneQueryDone, BothQueriesDone, AnswerSigners, AnswerValidators, AnswerTx,
         AnswerLastTxs, AskAddress, AnswerAddress, AskMessages, NextMessages, AnswerMessages

\* The routes of blocks.
LEMMA RoutesOfBlocks ==
    ASSUME NEW ask \in BlockAsks
    PROVE  ask.route \in {"range", "latest", "last"}
  BY DEF BlockAsks

\* A handler between two queries holds results that are true,
LEMMA BlocksRouteStep ==
    ASSUME ApiInv, (\E ask \in BlockAsks : AskBlocks(ask)) \/ OneQueryDone \/ BothQueriesDone
    PROVE  ReaderIsTrue' /\ AnswersAreTrue'
<1> USE DEF ApiInv, LiveInv, TypeOK, PipelineInv, RowsAreTrue
<1>1. ASSUME NEW ask \in BlockAsks, AskBlocks(ask)
      PROVE  ReaderIsTrue' /\ AnswersAreTrue'
  <2>1. /\ reader' = [at |-> "blocks", ask |-> ask, settled |-> Settled]
        /\ answer' = NoAnswer
    BY <1>1 DEF AskBlocks
  <2>2. ReaderIsTrue'
    BY <2>1, RoutesOfBlocks DEF ReaderIsTrue
  <2> QED
    BY <2>1, <2>2 DEF AnswersAreTrue, NoAnswer
<1>2. ASSUME OneQueryDone
      PROVE  ReaderIsTrue' /\ AnswersAreTrue'
  <2>1. /\ reader.at = "blocks" /\ answer' = NoAnswer
        /\ \/ reader' = [at |-> "await_txs", ask |-> reader.ask, settled |-> reader.settled,
                         blocks |-> BlocksQuery(reader.ask)]
           \/ reader' = [at |-> "await_blocks", ask |-> reader.ask, settled |-> reader.settled,
                         txs |-> TxsQuery(reader.ask)]
    BY <1>2 DEF OneQueryDone
  <2>2. reader.ask.route \in {"range", "latest", "last"}
    BY <2>1 DEF ReaderIsTrue
  <2>3. UNCHANGED vars
    BY <1>2 DEF OneQueryDone
  <2>4. FoundBlocksAreTrue(BlocksQuery(reader.ask))
    BY <2>2, BlocksQueryIsTrue
  <2>5. FoundTxsAreTrue(TxsQuery(reader.ask))
    BY VisibleTxsAreTrue DEF TxsQuery, FoundTxsAreTrue
  <2>6. ReaderIsTrue'
    BY <2>1, <2>2, <2>4, <2>5 DEF ReaderIsTrue, FoundBlocksAreTrue, FoundTxsAreTrue
  <2> QED
    BY <2>1, <2>6 DEF AnswersAreTrue, NoAnswer
<1>3. ASSUME BothQueriesDone
      PROVE  ReaderIsTrue' /\ AnswersAreTrue'
  <2> DEFINE found == IF reader.at = "await_txs" THEN reader.blocks ELSE BlocksQuery(reader.ask)
             txs == IF reader.at = "await_blocks" THEN reader.txs ELSE TxsQuery(reader.ask)
  <2>1. /\ reader.at \in {"await_txs", "await_blocks"} /\ reader' = Idle
        /\ answer' = [route |-> reader.ask.route, ask |-> reader.ask, settled |-> reader.settled,
                      blocks |-> AttachTxs(found, txs)]
    BY <1>3 DEF BothQueriesDone, Respond
  <2>2. reader.ask.route \in {"range", "latest", "last"}
    BY <2>1 DEF ReaderIsTrue
  <2>3. FoundBlocksAreTrue(found)
    BY <2>1, <2>2, BlocksQueryIsTrue DEF ReaderIsTrue
  <2>4. FoundTxsAreTrue(txs)
    BY <2>1, VisibleTxsAreTrue DEF ReaderIsTrue, TxsQuery, FoundTxsAreTrue
  <2>5. ASSUME NEW b \in AttachTxs(found, txs)
        PROVE  b.proposer = Proposer[b.height] /\ b.txs \subseteq TxsOf(b.height)
    <3> HIDE DEF found, txs
    <3> QED
      BY <2>3, <2>4 DEF AttachTxs, FoundBlocksAreTrue, FoundTxsAreTrue, TxsOf
  <2>6. ReaderIsTrue'
    BY <2>1 DEF ReaderIsTrue, Idle
  <2>7. answer'.route \in {"range", "latest", "last"} /\ answer'.blocks = AttachTxs(found, txs)
    BY <2>1, <2>2
  <2>8. AnswersAreTrue'
    <3> HIDE DEF found, txs
    <3> QED
      BY <2>5, <2>7 DEF AnswersAreTrue, TxsOf
  <2> QED
    BY <2>6, <2>8
<1> QED
  BY <1>1, <1>2, <1>3

\* the routes that answer with one query read true rows,
LEMMA OneQueryRoutesStep ==
    ASSUME ApiInv,
           \/ \E h \in Heights : AnswerSigners(h)
           \/ AnswerValidators
           \/ \E x \in Hashes : AnswerTx(x)
           \/ \E s \in Spans : AnswerLastTxs(s[2])
    PROVE  ReaderIsTrue' /\ AnswersAreTrue'
<1> USE DEF ApiInv, LiveInv, TypeOK, PipelineInv, RowsAreTrue
<1>0. reader' = Idle => ReaderIsTrue'
  BY DEF ReaderIsTrue, Idle
<1>1. ASSUME NEW h \in Heights, AnswerSigners(h)
      PROVE  ReaderIsTrue' /\ AnswersAreTrue'
  <2>1. PICK s \in SignersQuery(h) :
          /\ s.proposer \in dbValidators /\ reader' = Idle
          /\ answer' = [route |-> "signers", height |-> h, proposer |-> s.proposer,
                        signed |-> s.signed \cap dbValidators, settled |-> Settled]
    BY <1>1 DEF AnswerSigners, Respond
  <2>2. NoId \notin dbValidators
    BY ChainAssumption DEF PipelineTypeOK
  <2>3. s.proposer = Proposer[h] /\ s.signed \cap dbValidators \subseteq Signers[h]
    BY <2>1, <2>2 DEF SignersQuery, SigningsAreTrue
  <2> QED
    BY <1>0, <2>1, <2>3 DEF AnswersAreTrue
<1>2. ASSUME AnswerValidators
      PROVE  ReaderIsTrue' /\ AnswersAreTrue'
  <2>1. reader' = Idle /\ answer'.route = "validators"
    BY <1>2 DEF AnswerValidators, Respond
  <2> QED
    BY <1>0, <2>1 DEF AnswersAreTrue
<1>3. ASSUME NEW x \in Hashes, AnswerTx(x)
      PROVE  ReaderIsTrue' /\ AnswersAreTrue'
  <2>1. PICK r \in TxQuery(x) :
          /\ reader' = Idle
          /\ answer' = [route |-> "tx", hash |-> x, height |-> r.height, settled |-> Settled]
    BY <1>3 DEF AnswerTx, Respond
  <2>2. r.height = HeightOf[x]
    BY VisibleTxsAreTrue DEF TxQuery, FoundTxsAreTrue
  <2> QED
    BY <1>0, <2>1, <2>2 DEF AnswersAreTrue
<1>4. ASSUME NEW s \in Spans, AnswerLastTxs(s[2])
      PROVE  ReaderIsTrue' /\ AnswersAreTrue'
  <2>1. PICK txs \in LastTxsQuery(s[2]) :
          /\ reader' = Idle
          /\ answer' = [route |-> "last_txs", amount |-> s[2], txs |-> txs, settled |-> Settled]
    BY <1>4 DEF AnswerLastTxs, Respond
  <2>2. \A r \in txs : r.height = HeightOf[r.hash]
    BY VisibleTxsAreTrue DEF LastTxsQuery, FoundTxsAreTrue
  <2> QED
    BY <1>0, <2>1, <2>2 DEF AnswersAreTrue
<1> QED
  BY <1>1, <1>2, <1>3, <1>4

\* and so do the routes that look something up first.
LEMMA LookupRoutesStep ==
    ASSUME ApiInv,
           \/ \E a \in Addresses : AskAddress(a)
           \/ AnswerAddress
           \/ \E x \in Hashes : AskMessages(x)
           \/ NextMessages \/ AnswerMessages
    PROVE  ReaderIsTrue' /\ AnswersAreTrue'
<1> USE DEF ApiInv, LiveInv, TypeOK, PipelineInv, RowsAreTrue
<1>0. /\ reader' = Idle => ReaderIsTrue'
      /\ answer' = NoAnswer => AnswersAreTrue'
  BY DEF ReaderIsTrue, Idle, AnswersAreTrue, NoAnswer
<1>1. ASSUME NEW a \in Addresses, AskAddress(a)
      PROVE  ReaderIsTrue' /\ AnswersAreTrue'
  <2>1. reader' = [at |-> "address", address |-> a, settled |-> Settled] /\ answer' = NoAnswer
    BY <1>1 DEF AskAddress
  <2> QED
    BY <1>0, <2>1 DEF ReaderIsTrue
<1>2. ASSUME AnswerAddress
      PROVE  ReaderIsTrue' /\ AnswersAreTrue'
  <2>1. /\ reader.at = "address" /\ reader' = Idle
        /\ answer' = [route |-> "address", address |-> reader.address,
                      settled |-> reader.settled, txs |-> AddressTxsQuery(reader.address)]
    BY <1>2 DEF AnswerAddress, Respond
  <2>2. \A x \in AddressTxsQuery(reader.address) : reader.address \in AddrsOf[x]
    BY <2>1, AddressTxsAreTrue DEF ReaderIsTrue
  <2> QED
    BY <1>0, <2>1, <2>2 DEF AnswersAreTrue
<1>3. ASSUME NEW x \in Hashes, AskMessages(x)
      PROVE  ReaderIsTrue' /\ AnswersAreTrue'
  <2>1. /\ reader' = [at |-> "messages", hash |-> x, settled |-> Settled, next |-> 1,
                      response |-> [n \in DOMAIN MsgTypes(x) |-> 0]]
        /\ answer' = NoAnswer
    BY <1>3 DEF AskMessages
  <2> QED
    BY <1>0, <2>1 DEF ReaderIsTrue, MessagesInPlace
<1>4. ASSUME NextMessages
      PROVE  ReaderIsTrue' /\ AnswersAreTrue'
  <2>1. reader.at = "messages" /\ answer' = NoAnswer
    BY <1>4 DEF NextMessages
  <2>2. CASE \E r \in Fill(reader.response, reader.hash, MsgsOf[reader.hash][reader.next]) :
               reader' = [reader EXCEPT !.next = @ + 1, !.response = r]
    <3>1. PICK r \in Fill(reader.response, reader.hash, MsgsOf[reader.hash][reader.next]) :
            reader' = [reader EXCEPT !.next = @ + 1, !.response = r]
      BY <2>2
    <3>2. MessagesInPlace(reader.hash, r)
      BY <2>1, <3>1, FillKeepsPlaces DEF ReaderIsTrue
    <3>3. reader = [at |-> "messages", hash |-> reader.hash, settled |-> reader.settled,
                    next |-> reader.next, response |-> reader.response]
      BY <2>1 DEF ReaderIsTrue
    <3> DEFINE moved == [reader EXCEPT !.next = @ + 1]
    <3>4. moved = [at |-> "messages", hash |-> reader.hash, settled |-> reader.settled,
                   next |-> reader.next + 1, response |-> reader.response]
      BY <3>3
    <3>5. reader' = [moved EXCEPT !.response = r]
      BY <3>1, Zenon
    <3> HIDE DEF moved
    <3>6. reader' = [at |-> "messages", hash |-> reader.hash, settled |-> reader.settled,
                     next |-> reader.next + 1, response |-> r]
      BY <3>4, <3>5
    <3>7. /\ reader'.at = "messages" /\ reader'.hash = reader.hash /\ reader'.response = r
          /\ reader' = [at |-> "messages", hash |-> reader'.hash, settled |-> reader'.settled,
                        next |-> reader'.next, response |-> reader'.response]
      BY <3>6
    <3>8. ReaderIsTrue'
      BY <3>2, <3>7 DEF ReaderIsTrue, MessagesInPlace
    <3> QED
      BY <1>0, <2>1, <3>8
  <2>3. CASE reader' = Idle
    BY <1>0, <2>1, <2>3
  <2> QED
    BY <1>4, <2>2, <2>3 DEF NextMessages
<1>5. ASSUME AnswerMessages
      PROVE  ReaderIsTrue' /\ AnswersAreTrue'
  <2>1. /\ reader.at = "messages" /\ reader' = Idle
        /\ answer' = [route |-> "messages", hash |-> reader.hash, settled |-> reader.settled,
                      response |-> reader.response]
    BY <1>5 DEF AnswerMessages, Respond
  <2>2. MessagesInPlace(reader.hash, reader.response)
    BY <2>1 DEF ReaderIsTrue
  <2> QED
    BY <1>0, <2>1, <2>2 DEF AnswersAreTrue, MessagesInPlace
<1> QED
  BY <1>1, <1>2, <1>3, <1>4, <1>5

-----------------------------------------------------------------------------
(* The theorems *)

\* At the start no row is there and no request is in flight.
LEMMA ApiInitInv == ApiInit => ApiInv
<1> SUFFICES ASSUME ApiInit PROVE ApiInv
  OBVIOUS
<1>1. LiveInv
  BY LiveInit DEF ApiInit
<1>2. RowsAreTrue
  BY DEF ApiInit, Init, PipelineInit, RowsAreTrue, IdsAreUnique, SigningsAreTrue, AddressRowsAreTrue
<1>3. ReaderIsTrue /\ AnswersAreTrue
  BY DEF ApiInit, Idle, NoAnswer, ReaderIsTrue, AnswersAreTrue
<1> QED
  BY <1>1, <1>2, <1>3 DEF ApiInv

\* A step of the indexer leaves the request alone; a step of the API leaves the
\* indexer alone.
LEMMA ApiStepInv == ApiInv /\ [ApiNext]_apiVars => ApiInv'
<1> SUFFICES ASSUME ApiInv, [ApiNext]_apiVars PROVE ApiInv'
  OBVIOUS
<1>1. [Next]_vars
  BY ApiReadsOnly DEF ApiNext, Indexer, apiVars
<1>2. LiveInv' /\ RowsAreTrue'
  BY <1>1, LiveStep, TrueRowsStep DEF ApiInv
<1>3. ReaderIsTrue' /\ AnswersAreTrue'
  <2>1. CASE Indexer
    <3>1. reader' = reader /\ answer' = NoAnswer
      BY <2>1 DEF Indexer
    <3>2. ReaderIsTrue'
      BY <3>1 DEF ApiInv, ReaderIsTrue, FoundBlocksAreTrue, FoundTxsAreTrue, MessagesInPlace
    <3> QED
      BY <3>1, <3>2 DEF AnswersAreTrue, NoAnswer
  <2>2. CASE Api
    BY <2>2, BlocksRouteStep, OneQueryRoutesStep, LookupRoutesStep DEF Api
  <2>3. CASE UNCHANGED apiVars
    <3>1. reader' = reader /\ answer' = answer
      BY <2>3 DEF apiVars
    <3> QED
      BY <3>1 DEF ApiInv, ReaderIsTrue, FoundBlocksAreTrue, FoundTxsAreTrue, MessagesInPlace,
                  AnswersAreTrue, TxsOf
  <2> QED
    BY <2>1, <2>2, <2>3 DEF ApiNext
<1> QED
  BY <1>2, <1>3 DEF ApiInv

\* Whatever fails and wherever the indexer dies, what the API answers is true of the
\* chain, although the queries of one request see the tables at different moments.
THEOREM ApiAnswersAreTrue == ApiSpec => []AnswersAreTrue
<1>1. ApiInv => AnswersAreTrue
  BY DEF ApiInv
<1> QED
  BY <1>1, ApiInitInv, ApiStepInv, PTL DEF ApiSpec

\* A block, a transaction or a message the API could show stays visible when the
\* tables it is joined from only grow and ids that were handed out stay.
LEMMA GrowthTakesNothingBack ==
    ASSUME PipelineTypeOK, TablesGrow
    PROVE  /\ VisibleBlocks \subseteq VisibleBlocks'
           /\ VisibleTxs \subseteq VisibleTxs'
           /\ \A x \in Hashes, t \in MsgTables : MessagesQuery(x, t) \subseteq MessagesQuery(x, t)'
<1>1. VisibleBlocks \subseteq VisibleBlocks'
  BY DEF TablesGrow, VisibleBlocks
<1>2. ASSUME NEW r \in VisibleTxs
      PROVE  r \in VisibleTxs'
  <2> DEFINE row == [id |-> dbTxHash[r.hash], height |-> r.height]
  <2>1. r \in [hash : Hashes, height : Heights] /\ row \in dbTxs
    BY DEF VisibleTxs
  <2>2. row.id # 0
    BY <2>1, ChainAssumption DEF PipelineTypeOK, TxRow
  <2>3. dbTxHash'[r.hash] = dbTxHash[r.hash]
    BY <2>1, <2>2 DEF TablesGrow
  <2>4. [id |-> dbTxHash'[r.hash], height |-> r.height] \in dbTxs'
    BY <2>1, <2>3 DEF TablesGrow
  <2> QED
    BY <2>1, <2>4 DEF VisibleTxs
<1>3. ASSUME NEW x \in Hashes, NEW t \in MsgTables, NEW n \in MessagesQuery(x, t)
      PROVE  n \in MessagesQuery(x, t)'
  <2>1. PICK r \in dbMsgs : r.id = dbTxHash[x] /\ r.table = t
    BY DEF MessagesQuery
  <2>2. r.id # 0
    BY ChainAssumption DEF PipelineTypeOK, MsgRow
  <2>3. r \in dbMsgs' /\ r.id = dbTxHash'[x]
    BY <2>1, <2>2 DEF TablesGrow
  <2> QED
    BY <2>1, <2>3 DEF MessagesQuery
<1> QED
  BY <1>1, <1>2, <1>3

\* No later write, crash or restart takes back what the API has shown.
THEOREM ApiTakesNothingBack == ApiSpec => NothingIsTakenBack
<1> DEFINE Kept ==
      /\ VisibleBlocks \subseteq VisibleBlocks'
      /\ VisibleTxs \subseteq VisibleTxs'
      /\ \A x \in Hashes, t \in MsgTables : MessagesQuery(x, t) \subseteq MessagesQuery(x, t)'
<1>1. ApiInv /\ [ApiNext]_apiVars => [Kept]_apiVars
  <2> SUFFICES ASSUME ApiInv, [ApiNext]_apiVars PROVE Kept
    OBVIOUS
  <2>1. [Next]_vars
    BY ApiReadsOnly DEF ApiNext, Indexer, apiVars
  <2>2. TablesGrow
    BY <2>1, LiveStepGrows DEF ApiInv
  <2> QED
    BY <2>2, GrowthTakesNothingBack DEF ApiInv, LiveInv, TypeOK
<1> QED
  BY <1>1, ApiInitInv, ApiStepInv, PTL DEF ApiSpec, NothingIsTakenBack

-----------------------------------------------------------------------------
(* What is settled is served *)

\* The settled part of what a request asked for.
SettledHeights(ask, settled) == (ask.from .. ask.to) \cap (1 .. settled)

\* As long as nothing failed: what was settled when the request began is stored, and
\* the result that is back has it.
ReaderIsServed ==
    /\ reader.at # "idle" => reader.settled \in 0 .. MaxHeight /\ StoredUpTo(reader.settled)
    /\ reader.at = "await_txs" /\ reader.ask.route = "range" =>
         \A h \in SettledHeights(reader.ask, reader.settled) :
            [height |-> h, proposer |-> Proposer[h]] \in reader.blocks
    /\ reader.at = "await_txs" /\ reader.ask.route = "latest" /\ reader.settled > 0 =>
         \E b \in reader.blocks : b.height >= reader.settled
    /\ reader.at = "await_blocks" /\ reader.ask.route = "range" =>
         \A x \in Hashes : HeightOf[x] \in SettledHeights(reader.ask, reader.settled) =>
            [hash |-> x, height |-> HeightOf[x]] \in reader.txs

ServedInv == (faults = 0 => ReaderIsServed) /\ SettledIsServed

\* What a stored block and a stored transaction mean to the queries.
LEMMA StoredIsVisible ==
    ASSUME PipelineTypeOK, NEW n \in 0 .. MaxHeight, StoredUpTo(n)
    PROVE  /\ \A h \in 1 .. n : h \in VisibleBlocks
           /\ \A x \in Hashes : HeightOf[x] <= n =>
                /\ [hash |-> x, height |-> HeightOf[x]] \in VisibleTxs
                /\ \A a \in AddrsOf[x] : x \in AddressTxsQuery(a)
           /\ \A h \in 1 .. n : Proposer[h] \in dbValidators
<1>1. \A h \in 1 .. n : h \in VisibleBlocks /\ Proposer[h] \in dbValidators
  BY DEF StoredUpTo, BlockIsStored, VisibleBlocks
<1>2. ASSUME NEW x \in Hashes, HeightOf[x] <= n
      PROVE  /\ [hash |-> x, height |-> HeightOf[x]] \in VisibleTxs
             /\ \A a \in AddrsOf[x] : x \in AddressTxsQuery(a)
  <2> DEFINE row == [hash |-> x, height |-> HeightOf[x]]
  <2>1. TxIsStored(x)
    BY <1>2 DEF StoredUpTo
  <2>2. row \in [hash : Hashes, height : Heights]
    BY ChainAssumption
  <2>3. [id |-> dbTxHash[row.hash], height |-> row.height] \in dbTxs
    BY <2>1 DEF TxIsStored
  <2>4. row \in VisibleTxs
    BY <2>2, <2>3 DEF VisibleTxs
  <2>5. row \in TxQuery(x)
    BY <2>4 DEF TxQuery
  <2>6. IsVisibleTx(x)
    BY <2>5 DEF IsVisibleTx
  <2> QED
    BY <2>1, <2>4, <2>6 DEF TxIsStored, AddressTxsQuery
<1> QED
  BY <1>1, <1>2

\* A table of blocks that is not empty has a highest one.
LEMMA HighestExists ==
    ASSUME NEW S \in SUBSET Heights, NEW g \in S
    PROVE  \E h \in Highest(S) : h >= g
<1> DEFINE T == {n \in Nat : MaxHeight - n \in S}
           R == {p \in Nat \X Nat : p[1] < p[2]}
<1>0. MaxHeight \in Nat /\ \A h \in S : h \in Nat /\ h <= MaxHeight
  BY SizeAssumption DEF Heights
<1>1. IsWellFoundedOn(R, Nat)
  BY NatLessThanWellFounded DEF OpToRel
<1>2. T \subseteq Nat /\ MaxHeight - g \in T
  BY <1>0
<1> HIDE DEF R
<1>3. PICK n \in T : \A m \in T : <<m, n>> \notin R
  BY <1>1, <1>2, WFMin
<1>4. MaxHeight - n \in S /\ n \in Nat
  OBVIOUS
<1>5. ASSUME NEW h \in S PROVE h <= MaxHeight - n
  <2>1. MaxHeight - h \in Nat /\ MaxHeight - (MaxHeight - h) = h
    BY <1>0
  <2>2. MaxHeight - h \in T
    BY <2>1
  <2>3. ~(MaxHeight - h < n)
    BY <1>3, <1>4, <2>1, <2>2 DEF R
  <2> QED
    BY <1>0, <1>4, <2>1, <2>3
<1>6. MaxHeight - n \in Highest(S)
  BY <1>4, <1>5 DEF Highest
<1> QED
  BY <1>0, <1>4, <1>5, <1>6

\* What was settled at the start of a request is stored by then.
LEMMA SettledIsStored ==
    ASSUME LiveInv, CursorInv, LoopInv, SyncInv, faults = 0
    PROVE  Settled \in 0 .. MaxHeight /\ StoredUpTo(Settled)
<1>0. lastProcessedHeight \in 0 .. MaxHeight /\ MaxHeight \in Nat
  BY SizeAssumption DEF CursorInv
<1>1. StoredUpTo(0)
  BY ChainAssumption, SizeAssumption DEF StoredUpTo, Heights
<1>2. CASE ~alive \/ pc = "start"
  BY <1>0, <1>1, <1>2 DEF Settled, LoopInv
<1>3. CASE alive /\ pc # "start"
  <2>1. CASE stage \in {"idle", "fetch", "collect"}
    BY <1>0, <1>3, <2>1 DEF SyncInv, Synced, Settled
  <2>2. CASE stage \in {"phase1", "phase2"}
    BY <1>0, <1>3, <2>2 DEF SyncInv, InFlight, Settled
  <2>3. CASE stage = "returned"
    <3>1. StoredUpTo(chunkEnd) /\ chunkEnd \in Nat /\ lastProcessedHeight <= chunkEnd
      BY <1>0, <2>3 DEF SyncInv, Synced, CursorInv
    <3>2. \A x \in Hashes : HeightOf[x] \in Nat
      BY ChainAssumption, SizeAssumption DEF Heights
    <3>3. StoredUpTo(lastProcessedHeight)
      BY <1>0, <3>1, <3>2 DEF StoredUpTo
    <3> QED
      BY <1>0, <1>3, <3>3 DEF Settled
  <2> QED
    BY <2>1, <2>2, <2>3 DEF LiveInv, TypeOK, PipelineTypeOK
<1> QED
  BY <1>2, <1>3

\* The blocks query of a range returns the settled blocks with their proposers, and
\* that of the latest block none that is older;
LEMMA BlocksQueryServes ==
    ASSUME PipelineTypeOK, SigningsAreTrue, NEW ask, NEW n \in 0 .. MaxHeight, StoredUpTo(n)
    PROVE  /\ ask.route = "range" =>
                \A h \in SettledHeights(ask, n) :
                   [height |-> h, proposer |-> Proposer[h]] \in BlocksQuery(ask)
           /\ ask.route = "latest" /\ n > 0 => \E b \in BlocksQuery(ask) : b.height >= n
<1> DEFINE row(h) == [height |-> h, proposer |-> (CHOOSE s \in dbSignings : s.height = h).proposer]
<1>1. ASSUME ask.route = "range", NEW h \in SettledHeights(ask, n)
      PROVE  [height |-> h, proposer |-> Proposer[h]] \in BlocksQuery(ask)
  <2>1. h \in VisibleBlocks \cap (ask.from .. ask.to)
    BY StoredIsVisible DEF SettledHeights
  <2>2. row(h) \in BlocksQuery(ask)
    BY <1>1, <2>1 DEF BlocksQuery
  <2>3. FoundBlocksAreTrue(BlocksQuery(ask))
    BY <1>1, BlocksQueryIsTrue
  <2>4. row(h).proposer = Proposer[row(h).height]
    BY <2>2, <2>3 DEF FoundBlocksAreTrue
  <2>5. row(h) = [height |-> h, proposer |-> Proposer[h]]
    BY <2>4
  <2> QED
    BY <2>2, <2>5
<1>2. ASSUME ask.route = "latest", n > 0
      PROVE  \E b \in BlocksQuery(ask) : b.height >= n
  <2>1. n \in VisibleBlocks
    BY <1>2, StoredIsVisible
  <2>2. VisibleBlocks \in SUBSET Heights
    BY DEF VisibleBlocks, PipelineTypeOK
  <2>3. PICK h \in Highest(VisibleBlocks) : h >= n
    BY <2>1, <2>2, HighestExists
  <2>4. row(h) \in BlocksQuery(ask)
    BY <1>2, <2>3 DEF BlocksQuery
  <2> QED
    BY <2>3, <2>4
<1> QED
  BY <1>1, <1>2

\* that of its transactions returns every settled one.
LEMMA TxsQueryServes ==
    ASSUME PipelineTypeOK, NEW ask, NEW n \in 0 .. MaxHeight, StoredUpTo(n), ask.route = "range",
           NEW x \in Hashes, HeightOf[x] \in SettledHeights(ask, n)
    PROVE  [hash |-> x, height |-> HeightOf[x]] \in TxsQuery(ask)
<1> DEFINE row == [hash |-> x, height |-> HeightOf[x]]
<1>1. HeightOf[x] <= n /\ HeightOf[x] \in ask.from .. ask.to
  BY DEF SettledHeights
<1>2. row \in VisibleTxs
  BY <1>1, StoredIsVisible
<1> QED
  BY <1>1, <1>2 DEF TxsQuery

\* The loop that attaches the transactions gives a block all of them.
LEMMA AttachServes ==
    ASSUME NEW found, NEW txs, NEW h, [height |-> h, proposer |-> Proposer[h]] \in found,
           FoundTxsAreTrue(txs),
           \A x \in TxsOf(h) : [hash |-> x, height |-> h] \in txs
    PROVE  [height |-> h, proposer |-> Proposer[h], txs |-> TxsOf(h)] \in AttachTxs(found, txs)
<1> DEFINE own == {r.hash : r \in {t \in txs : t.height = h}}
           block == [height |-> h, proposer |-> Proposer[h]]
<1>1. own \subseteq TxsOf(h)
  BY DEF FoundTxsAreTrue, TxsOf
<1>2. ASSUME NEW x \in TxsOf(h) PROVE x \in own
  <2>1. [hash |-> x, height |-> h] \in {t \in txs : t.height = h}
    OBVIOUS
  <2> QED
    BY <2>1
<1>3. own = TxsOf(h)
  BY <1>1, <1>2
<1>4. [height |-> block.height, proposer |-> block.proposer,
       txs |-> {r.hash : r \in {t \in txs : t.height = block.height}}] \in AttachTxs(found, txs)
  BY DEF AttachTxs
<1> QED
  BY <1>3, <1>4

\* LIMIT x leaves out a settled transaction only when x others are as recent.
LEMMA LastTxsServes ==
    ASSUME LiveInv, RowsAreTrue, NEW n \in 0 .. MaxHeight, StoredUpTo(n),
           NEW amount \in Nat, NEW txs \in LastTxsQuery(amount),
           NEW x \in Hashes, HeightOf[x] <= n
    PROVE  \/ \E r \in txs : r.hash = x
           \/ Cardinality(txs) = amount /\ \A r \in txs : r.height >= HeightOf[x]
<1> DEFINE row == [hash |-> x, height |-> HeightOf[x]]
<1>0. PipelineTypeOK /\ FoundTxsAreTrue(VisibleTxs)
  BY VisibleTxsAreTrue DEF LiveInv, TypeOK, PipelineInv, RowsAreTrue
<1>1. row \in VisibleTxs
  BY <1>0, StoredIsVisible
<1>2. /\ txs \in SUBSET VisibleTxs /\ Cardinality(txs) <= amount
      /\ Cardinality(txs) < amount => txs = VisibleTxs
      /\ \A r \in txs, q \in VisibleTxs \ txs : q.height <= r.height
  BY DEF LastTxsQuery
<1>3. CASE row \in txs
  BY <1>3
<1>4. CASE row \notin txs
  <2>1. IsFiniteSet(VisibleTxs)
    <3> DEFINE f == [r \in VisibleTxs |-> r.hash]
    <3>1. f \in [VisibleTxs -> Hashes]
      BY <1>0 DEF FoundTxsAreTrue
    <3>2. ASSUME NEW r \in VisibleTxs, NEW q \in VisibleTxs, f[r] = f[q] PROVE r = q
      <4>1. r.hash = q.hash /\ r.height = q.height
        BY <1>0, <3>2 DEF FoundTxsAreTrue
      <4> QED
        BY <4>1 DEF VisibleTxs
    <3>3. f \in Injection(VisibleTxs, Hashes)
      BY <3>1, <3>2 DEF Injection, IsInjective
    <3> HIDE DEF f
    <3> QED
      BY <3>3, FS_Injection, ReadsAssumption
  <2>2. IsFiniteSet(txs)
    BY <1>2, <2>1, FS_Subset
  <2>3. Cardinality(txs) \in Nat
    BY <2>2, FS_CardinalityType
  <2>4. ~(Cardinality(txs) < amount)
    BY <1>1, <1>2, <1>4
  <2>5. Cardinality(txs) = amount
    BY <1>2, <2>3, <2>4
  <2>6. ASSUME NEW r \in txs PROVE r.height >= HeightOf[x]
    <3>1. row.height <= r.height
      BY <1>1, <1>2, <1>4
    <3>2. \A y \in Hashes : HeightOf[y] \in Nat
      BY ChainAssumption, SizeAssumption DEF Heights
    <3>3. r.hash \in Hashes /\ r.height = HeightOf[r.hash]
      BY <1>0, <1>2 DEF FoundTxsAreTrue
    <3> QED
      BY <3>1, <3>2, <3>3
  <2> QED
    BY <2>5, <2>6
<1> QED
  BY <1>3, <1>4

\* What the queries find is kept until the request is answered: blocks and their
\* transactions,
LEMMA BlocksRouteServes ==
    ASSUME ApiInv, CursorInv, LoopInv, SyncInv, faults = 0, ReaderIsServed,
           (\E ask \in BlockAsks : AskBlocks(ask)) \/ OneQueryDone \/ BothQueriesDone
    PROVE  ReaderIsServed' /\ SettledIsServed'
<1>0. /\ LiveInv /\ PipelineTypeOK /\ SigningsAreTrue /\ ReaderIsTrue
      /\ FoundTxsAreTrue(VisibleTxs)
  BY VisibleTxsAreTrue DEF ApiInv, LiveInv, TypeOK, PipelineInv, RowsAreTrue
<1>1. UNCHANGED vars
  BY ApiReadsOnly DEF Api
<1>2. \A n \in 0 .. MaxHeight : StoredUpTo(n)' <=> StoredUpTo(n)
  BY <1>1 DEF vars, pipelineVars, tables, txTables, addrTables, StoredUpTo, BlockIsStored, TxIsStored
<1>3. answer' = NoAnswer => SettledIsServed'
  BY DEF SettledIsServed, NoAnswer
<1>4. ASSUME NEW ask \in BlockAsks, AskBlocks(ask)
      PROVE  ReaderIsServed' /\ SettledIsServed'
  <2>1. reader' = [at |-> "blocks", ask |-> ask, settled |-> Settled] /\ answer' = NoAnswer
    BY <1>4 DEF AskBlocks
  <2>2. Settled \in 0 .. MaxHeight /\ StoredUpTo(Settled)
    BY <1>0, SettledIsStored
  <2>3. reader'.at = "blocks" /\ reader'.settled = Settled
    BY <2>1
  <2>4. ReaderIsServed'
    BY <1>2, <2>2, <2>3 DEF ReaderIsServed
  <2> QED
    BY <1>3, <2>1, <2>4
<1>5. ASSUME OneQueryDone
      PROVE  ReaderIsServed' /\ SettledIsServed'
  <2>1. /\ reader.at = "blocks" /\ answer' = NoAnswer
        /\ \/ reader' = [at |-> "await_txs", ask |-> reader.ask, settled |-> reader.settled,
                         blocks |-> BlocksQuery(reader.ask)]
           \/ reader' = [at |-> "await_blocks", ask |-> reader.ask, settled |-> reader.settled,
                         txs |-> TxsQuery(reader.ask)]
    BY <1>5 DEF OneQueryDone
  <2>2. reader.settled \in 0 .. MaxHeight /\ StoredUpTo(reader.settled)
    BY <2>1 DEF ReaderIsServed
  <2>3. CASE reader' = [at |-> "await_txs", ask |-> reader.ask, settled |-> reader.settled,
                        blocks |-> BlocksQuery(reader.ask)]
    <3>1. /\ reader'.at = "await_txs" /\ reader'.ask = reader.ask
          /\ reader'.settled = reader.settled /\ reader'.blocks = BlocksQuery(reader.ask)
      BY <2>3
    <3> QED
      BY <1>0, <1>2, <1>3, <2>1, <2>2, <3>1, BlocksQueryServes DEF ReaderIsServed, SettledHeights
  <2>4. CASE reader' = [at |-> "await_blocks", ask |-> reader.ask, settled |-> reader.settled,
                        txs |-> TxsQuery(reader.ask)]
    <3>1. /\ reader'.at = "await_blocks" /\ reader'.ask = reader.ask
          /\ reader'.settled = reader.settled /\ reader'.txs = TxsQuery(reader.ask)
      BY <2>4
    <3> QED
      BY <1>0, <1>2, <1>3, <2>1, <2>2, <3>1, TxsQueryServes DEF ReaderIsServed, SettledHeights
  <2> QED
    BY <2>1, <2>3, <2>4
<1>6. ASSUME BothQueriesDone
      PROVE  ReaderIsServed' /\ SettledIsServed'
  <2> DEFINE found == IF reader.at = "await_txs" THEN reader.blocks ELSE BlocksQuery(reader.ask)
             txs == IF reader.at = "await_blocks" THEN reader.txs ELSE TxsQuery(reader.ask)
  <2>1. /\ reader.at \in {"await_txs", "await_blocks"} /\ reader' = Idle
        /\ answer' = [route |-> reader.ask.route, ask |-> reader.ask, settled |-> reader.settled,
                      blocks |-> AttachTxs(found, txs)]
    BY <1>6 DEF BothQueriesDone, Respond
  <2>2. reader.settled \in 0 .. MaxHeight /\ StoredUpTo(reader.settled)
    BY <2>1 DEF ReaderIsServed
  <2>3. FoundTxsAreTrue(txs)
    BY <1>0, <2>1 DEF ReaderIsTrue, TxsQuery, FoundTxsAreTrue
  <2>4. reader.ask.route = "range" =>
          \A h \in SettledHeights(reader.ask, reader.settled) :
             [height |-> h, proposer |-> Proposer[h]] \in found
    BY <1>0, <2>1, <2>2, BlocksQueryServes DEF ReaderIsServed
  <2>5. reader.ask.route = "range" =>
          \A x \in Hashes : HeightOf[x] \in SettledHeights(reader.ask, reader.settled) =>
             [hash |-> x, height |-> HeightOf[x]] \in txs
    BY <1>0, <2>1, <2>2, TxsQueryServes DEF ReaderIsServed
  <2>6. reader.ask.route = "latest" /\ reader.settled > 0 =>
          \E b \in found : b.height >= reader.settled
    BY <1>0, <2>1, <2>2, BlocksQueryServes DEF ReaderIsServed
  <2>7. ReaderIsServed'
    BY <2>1 DEF ReaderIsServed, Idle
  <2> HIDE DEF found, txs
  <2>8. ASSUME reader.ask.route = "range",
               NEW h \in SettledHeights(reader.ask, reader.settled)
        PROVE  [height |-> h, proposer |-> Proposer[h], txs |-> TxsOf(h)] \in AttachTxs(found, txs)
    <3>1. \A x \in TxsOf(h) : [hash |-> x, height |-> h] \in txs
      BY <2>5, <2>8 DEF TxsOf
    <3> QED
      BY <2>3, <2>4, <2>8, <3>1, AttachServes
  <2>9. ASSUME reader.ask.route = "latest", reader.settled > 0
        PROVE  \E b \in AttachTxs(found, txs) : b.height >= reader.settled
    <3>1. PICK b \in found : b.height >= reader.settled
      BY <2>6, <2>9
    <3> DEFINE block == [height |-> b.height, proposer |-> b.proposer,
                         txs |-> {r.hash : r \in {t \in txs : t.height = b.height}}]
    <3>2. block \in AttachTxs(found, txs) /\ block.height = b.height
      BY DEF AttachTxs
    <3> QED
      BY <3>1, <3>2
  <2>10. /\ answer'.route = reader.ask.route /\ answer'.ask = reader.ask
         /\ answer'.settled = reader.settled /\ answer'.blocks = AttachTxs(found, txs)
    BY <2>1
  <2>11. answer'.route \in {"range", "latest", "last"}
    BY <1>0, <2>1, <2>10 DEF ReaderIsTrue
  <2>12. SettledIsServed'
    BY <2>8, <2>9, <2>10, <2>11 DEF SettledIsServed, SettledHeights, TxsOf
  <2> QED
    BY <2>7, <2>12
<1> QED
  BY <1>4, <1>5, <1>6

\* lists that one query answers,
LEMMA OneQueryRoutesServe ==
    ASSUME ApiInv, CursorInv, LoopInv, SyncInv, faults = 0,
           \/ \E h \in Heights : AnswerSigners(h)
           \/ AnswerValidators
           \/ \E x \in Hashes : AnswerTx(x)
           \/ \E s \in Spans : AnswerLastTxs(s[2])
    PROVE  ReaderIsServed' /\ SettledIsServed'
<1>0. LiveInv /\ PipelineTypeOK /\ RowsAreTrue
  BY DEF ApiInv, LiveInv, TypeOK
<1>1. Settled \in 0 .. MaxHeight /\ StoredUpTo(Settled)
  BY <1>0, SettledIsStored
<1>2. reader' = Idle => ReaderIsServed'
  BY DEF ReaderIsServed, Idle
<1>3. answer'.route \in {"signers", "tx"} => SettledIsServed'
  BY DEF SettledIsServed
<1>4. ASSUME NEW h \in Heights, AnswerSigners(h) PROVE ReaderIsServed' /\ SettledIsServed'
  <2>1. reader' = Idle /\ answer'.route = "signers"
    BY <1>4 DEF AnswerSigners, Respond
  <2> QED
    BY <1>2, <1>3, <2>1
<1>5. ASSUME AnswerValidators PROVE ReaderIsServed' /\ SettledIsServed'
  <2>1. /\ reader' = Idle /\ answer'.route = "validators" /\ answer'.validators = dbValidators
        /\ answer'.settled = Settled
    BY <1>5 DEF AnswerValidators, Respond, ValidatorsQuery
  <2>2. \A h \in 1 .. Settled : Proposer[h] \in dbValidators
    BY <1>0, <1>1, StoredIsVisible
  <2> QED
    BY <1>2, <2>1, <2>2 DEF SettledIsServed
<1>6. ASSUME NEW x \in Hashes, AnswerTx(x) PROVE ReaderIsServed' /\ SettledIsServed'
  <2>1. reader' = Idle /\ answer'.route = "tx"
    BY <1>6 DEF AnswerTx, Respond
  <2> QED
    BY <1>2, <1>3, <2>1
<1>7. ASSUME NEW s \in Spans, AnswerLastTxs(s[2]) PROVE ReaderIsServed' /\ SettledIsServed'
  <2>1. PICK txs \in LastTxsQuery(s[2]) :
          /\ reader' = Idle
          /\ answer' = [route |-> "last_txs", amount |-> s[2], txs |-> txs, settled |-> Settled]
    BY <1>7 DEF AnswerLastTxs, Respond
  <2>2. s[2] \in Nat
    BY ReadsAssumption, SizeAssumption DEF Heights
  <2>3. \A x \in Hashes : HeightOf[x] <= Settled =>
          \/ \E r \in txs : r.hash = x
          \/ Cardinality(txs) = s[2] /\ \A r \in txs : r.height >= HeightOf[x]
    BY <1>0, <1>1, <2>2, LastTxsServes
  <2>4. /\ answer'.route = "last_txs" /\ answer'.amount = s[2] /\ answer'.txs = txs
        /\ answer'.settled = Settled
    BY <2>1
  <2>5. SettledIsServed'
    BY <2>3, <2>4 DEF SettledIsServed
  <2> QED
    BY <1>2, <2>1, <2>5
<1> QED
  BY <1>4, <1>5, <1>6, <1>7

\* and what is looked up for an address.
LEMMA LookupRoutesServe ==
    ASSUME ApiInv, CursorInv, LoopInv, SyncInv, faults = 0, ReaderIsServed,
           \/ \E a \in Addresses : AskAddress(a)
           \/ AnswerAddress
           \/ \E x \in Hashes : AskMessages(x)
           \/ NextMessages \/ AnswerMessages
    PROVE  ReaderIsServed' /\ SettledIsServed'
<1>0. LiveInv /\ PipelineTypeOK /\ ReaderIsTrue
  BY DEF ApiInv, LiveInv, TypeOK
<1>1. \A n \in 0 .. MaxHeight : StoredUpTo(n)' <=> StoredUpTo(n)
  <2>1. UNCHANGED vars
    BY ApiReadsOnly DEF Api
  <2> QED
    BY <2>1 DEF vars, pipelineVars, tables, txTables, addrTables, StoredUpTo, BlockIsStored, TxIsStored
<1>2. Settled \in 0 .. MaxHeight /\ StoredUpTo(Settled)
  BY <1>0, SettledIsStored
<1>3. /\ reader' = Idle => ReaderIsServed'
      /\ answer' = NoAnswer => SettledIsServed'
      /\ answer'.route = "messages" => SettledIsServed'
  BY DEF ReaderIsServed, Idle, SettledIsServed, NoAnswer
<1>4. ASSUME NEW n \in 0 .. MaxHeight, StoredUpTo(n), reader'.settled = n,
             reader'.at \in {"address", "messages"}
      PROVE  ReaderIsServed'
  BY <1>1, <1>4 DEF ReaderIsServed
<1>5. ASSUME NEW a \in Addresses, AskAddress(a) PROVE ReaderIsServed' /\ SettledIsServed'
  <2>1. reader'.at = "address" /\ reader'.settled = Settled /\ answer' = NoAnswer
    BY <1>5 DEF AskAddress
  <2> QED
    BY <1>2, <1>3, <1>4, <2>1
<1>6. ASSUME AnswerAddress PROVE ReaderIsServed' /\ SettledIsServed'
  <2>1. /\ reader.at = "address" /\ reader' = Idle
        /\ answer' = [route |-> "address", address |-> reader.address,
                      settled |-> reader.settled, txs |-> AddressTxsQuery(reader.address)]
    BY <1>6 DEF AnswerAddress, Respond
  <2>2. reader.settled \in 0 .. MaxHeight /\ StoredUpTo(reader.settled)
    BY <2>1 DEF ReaderIsServed
  <2>3. \A x \in Hashes : HeightOf[x] <= reader.settled /\ reader.address \in AddrsOf[x] =>
          x \in AddressTxsQuery(reader.address)
    BY <1>0, <2>2, StoredIsVisible
  <2>4. /\ answer'.route = "address" /\ answer'.address = reader.address
        /\ answer'.settled = reader.settled /\ answer'.txs = AddressTxsQuery(reader.address)
    BY <2>1
  <2>5. SettledIsServed'
    BY <2>3, <2>4 DEF SettledIsServed
  <2> QED
    BY <1>3, <2>1, <2>5
<1>7. ASSUME NEW x \in Hashes, AskMessages(x) PROVE ReaderIsServed' /\ SettledIsServed'
  <2>1. reader'.at = "messages" /\ reader'.settled = Settled /\ answer' = NoAnswer
    BY <1>7 DEF AskMessages
  <2> QED
    BY <1>2, <1>3, <1>4, <2>1
<1>8. ASSUME NextMessages PROVE ReaderIsServed' /\ SettledIsServed'
  <2>1. reader.at = "messages" /\ answer' = NoAnswer
    BY <1>8 DEF NextMessages
  <2>2. reader.settled \in 0 .. MaxHeight /\ StoredUpTo(reader.settled)
    BY <2>1 DEF ReaderIsServed
  <2>3. ASSUME NEW r, reader' = [reader EXCEPT !.next = @ + 1, !.response = r]
        PROVE  reader'.at = "messages" /\ reader'.settled = reader.settled
    <3>1. reader = [at |-> "messages", hash |-> reader.hash, settled |-> reader.settled,
                    next |-> reader.next, response |-> reader.response]
      BY <1>0, <2>1 DEF ReaderIsTrue
    <3> DEFINE moved == [reader EXCEPT !.next = @ + 1]
    <3>2. moved = [at |-> "messages", hash |-> reader.hash, settled |-> reader.settled,
                   next |-> reader.next + 1, response |-> reader.response]
      BY <3>1
    <3>3. reader' = [moved EXCEPT !.response = r]
      BY <2>3, Zenon
    <3> HIDE DEF moved
    <3> QED
      BY <3>2, <3>3
  <2> QED
    BY <1>3, <1>4, <1>8, <2>1, <2>2, <2>3 DEF NextMessages
<1>9. ASSUME AnswerMessages PROVE ReaderIsServed' /\ SettledIsServed'
  <2>1. reader' = Idle /\ answer'.route = "messages"
    BY <1>9 DEF AnswerMessages, Respond
  <2> QED
    BY <1>3, <2>1
<1> QED
  BY <1>5, <1>6, <1>7, <1>8, <1>9

\* The indexer and the API keep what is settled served.
LEMMA ServedStep ==
    ASSUME ApiInv, CursorInv, LoopInv, SyncInv, ServedInv, [ApiNext]_apiVars
    PROVE  ServedInv'
<1>0. LiveInv /\ faults \in Nat
  BY SizeAssumption DEF ApiInv, LiveInv, TypeOK, PipelineTypeOK
<1>1. CASE Indexer
  <2>1. [Next]_vars /\ reader' = reader /\ answer' = NoAnswer
    BY <1>1 DEF Indexer
  <2>2. SettledIsServed'
    BY <2>1 DEF SettledIsServed, NoAnswer
  <2>3. ASSUME faults' = 0 PROVE ReaderIsServed'
    <3>1. faults = 0
      BY <1>0, <2>1, <2>3, LiveFaultsStay
    <3>2. ReaderIsServed
      BY <3>1 DEF ServedInv
    <3>3. TablesGrow
      BY <1>0, <2>1, LiveStepGrows
    <3>4. \A n \in 0 .. MaxHeight : StoredUpTo(n) => StoredUpTo(n)'
      BY <3>3, StoredUpToStays
    <3> QED
      BY <2>1, <3>2, <3>4 DEF ReaderIsServed, SettledHeights
  <2> QED
    BY <2>2, <2>3 DEF ServedInv
<1>2. CASE Api
  <2>1. faults' = faults
    BY <1>2, ApiReadsOnly DEF vars, pipelineVars
  <2>2. CASE faults # 0
    BY <2>1, <2>2 DEF ServedInv, SettledIsServed
  <2>3. CASE faults = 0
    <3>1. ReaderIsServed' /\ SettledIsServed'
      BY <1>2, <2>3, BlocksRouteServes, OneQueryRoutesServe, LookupRoutesServe DEF Api, ServedInv
    <3> QED
      BY <3>1 DEF ServedInv
  <2> QED
    BY <2>2, <2>3
<1>3. CASE UNCHANGED apiVars
  <2>1. reader' = reader /\ answer' = answer /\ faults' = faults /\ UNCHANGED tables
    BY <1>3 DEF apiVars, vars, pipelineVars
  <2>2. \A n \in 0 .. MaxHeight : StoredUpTo(n) => StoredUpTo(n)'
    BY <2>1 DEF tables, txTables, addrTables, StoredUpTo, BlockIsStored, TxIsStored
  <2>3. ReaderIsServed => ReaderIsServed'
    BY <2>1, <2>2 DEF ReaderIsServed, SettledHeights
  <2>4. SettledIsServed => SettledIsServed'
    BY <2>1 DEF SettledIsServed, TxsOf
  <2> QED
    BY <2>1, <2>3, <2>4 DEF ServedInv
<1> QED
  BY <1>1, <1>2, <1>3 DEF ApiNext

\* Without a failure, a request is answered with all that the loop had settled when
\* the request began, at whatever moments its queries see the tables.
THEOREM ApiSettledIsServed ==
    ASSUME SoundChain
    PROVE  ApiSpec => []SettledIsServed
<1>1. ApiInit => CursorInv /\ LoopInv /\ SyncInv /\ ServedInv
  <2> SUFFICES ASSUME ApiInit PROVE CursorInv /\ LoopInv /\ SyncInv /\ ServedInv
    OBVIOUS
  <2>1. ServedInv
    BY DEF ApiInit, Idle, NoAnswer, ServedInv, ReaderIsServed, SettledIsServed
  <2> QED
    BY <2>1, CursorInit, LoopInit, SyncInit DEF ApiInit
<1>2. ApiInv /\ CursorInv /\ LoopInv /\ SyncInv /\ [ApiNext]_apiVars =>
        CursorInv' /\ LoopInv' /\ SyncInv'
  <2> SUFFICES ASSUME ApiInv, CursorInv, LoopInv, SyncInv, [ApiNext]_apiVars
               PROVE  CursorInv' /\ LoopInv' /\ SyncInv'
    OBVIOUS
  <2>1. LiveInv /\ [Next]_vars
    BY ApiReadsOnly DEF ApiInv, ApiNext, Indexer, apiVars
  <2> QED
    BY <2>1, CursorStep, LoopStep, SyncStep DEF SoundChain
<1>3. ApiInv /\ CursorInv /\ LoopInv /\ SyncInv /\ ServedInv /\ [ApiNext]_apiVars => ServedInv'
  BY ServedStep
<1>4. ServedInv => SettledIsServed
  BY DEF ServedInv
<1> QED
  BY <1>1, <1>2, <1>3, <1>4, ApiInitInv, ApiStepInv, PTL DEF ApiSpec

-----------------------------------------------------------------------------
(* Cursor pages: what a query returns *)

\* The row-wise comparison is a strict total order of the keys, and so is the order
\* of either scan.
LEMMA KeyOrder ==
    ASSUME NEW a \in Keys, NEW b \in Keys, NEW c \in Keys, NEW direction
    PROVE  /\ ~Before(direction, a, a)
           /\ Before(direction, a, b) /\ Before(direction, b, c) => Before(direction, a, c)
           /\ a = b \/ Before(direction, a, b) \/ Before(direction, b, a)
<1>1. /\ a = <<a[1], a[2]>> /\ b = <<b[1], b[2]>> /\ c = <<c[1], c[2]>>
      /\ a[1] \in Nat /\ a[2] \in Nat /\ b[1] \in Nat /\ b[2] \in Nat /\ c[1] \in Nat /\ c[2] \in Nat
  BY PagesAssumption
<1>2. a = b <=> a[1] = b[1] /\ a[2] = b[2]
  BY <1>1
<1> QED
  BY <1>1, <1>2 DEF Before, Below

\* A row that comes later has more rows before it.
LEMMA RankGrows ==
    ASSUME NEW found \in SUBSET Keys, NEW direction, NEW j \in found, NEW k \in found,
           Before(direction, j, k)
    PROVE  Rank(found, direction, j) < Rank(found, direction, k)
<1> DEFINE P(x) == {i \in found : Before(direction, i, x)}
<1>1. P(j) \subseteq P(k)
  BY KeyOrder
<1>2. j \in P(k) /\ j \notin P(j)
  BY KeyOrder
<1>3. IsFiniteSet(P(k))
  <2>1. P(k) \in SUBSET Keys
    OBVIOUS
  <2> QED
    BY <2>1, PagesAssumption, FS_Subset
<1> HIDE DEF P
<1>4. Cardinality(P(j)) <= Cardinality(P(k)) /\ Cardinality(P(k)) # Cardinality(P(j))
  BY <1>1, <1>2, <1>3, FS_Subset
<1>5. Cardinality(P(j)) \in Nat /\ Cardinality(P(k)) \in Nat
  BY <1>1, <1>3, FS_Subset, FS_CardinalityType
<1>6. Cardinality(P(j)) < Cardinality(P(k))
  BY <1>4, <1>5
<1> QED
  BY <1>6 DEF Rank, P

\* Every place of the scan has its row, and every row its place.
LEMMA RanksAreAllTaken ==
    ASSUME NEW found \in SUBSET Keys, NEW direction
    PROVE  /\ Cardinality(found) \in Nat
           /\ \A k \in found : Rank(found, direction, k) \in 0 .. Cardinality(found) - 1
           /\ \A n \in 1 .. Cardinality(found) : \E k \in found : Rank(found, direction, k) = n - 1
<1> DEFINE N == Cardinality(found)
           f == [k \in found |-> Rank(found, direction, k) + 1]
<1>1. IsFiniteSet(found) /\ N \in Nat
  BY PagesAssumption, FS_Subset, FS_CardinalityType
<1>2. ASSUME NEW k \in found PROVE Rank(found, direction, k) \in 0 .. N - 1
  <2> DEFINE P == {i \in found : Before(direction, i, k)}
  <2>1. P \in SUBSET found /\ k \notin P
    BY KeyOrder
  <2> HIDE DEF P
  <2>2. IsFiniteSet(P) /\ Cardinality(P) <= N /\ N # Cardinality(P)
    BY <1>1, <2>1, FS_Subset
  <2>3. Cardinality(P) \in Nat
    BY <2>2, FS_CardinalityType
  <2>4. Cardinality(P) \in 0 .. N - 1
    BY <1>1, <2>2, <2>3
  <2> QED
    BY <2>4 DEF Rank, P
<1>3. f \in [found -> 1 .. N]
  BY <1>1, <1>2
<1>4. ASSUME NEW j \in found, NEW k \in found, f[j] = f[k] PROVE j = k
  <2>1. Rank(found, direction, j) = Rank(found, direction, k)
    BY <1>1, <1>2, <1>4
  <2>2. /\ ~(Rank(found, direction, j) < Rank(found, direction, k))
        /\ ~(Rank(found, direction, k) < Rank(found, direction, j))
    BY <1>1, <1>2, <2>1
  <2> QED
    BY <2>2, RankGrows, KeyOrder
<1>5. f \in Injection(found, 1 .. N)
  BY <1>3, <1>4 DEF Injection, IsInjective
<1>6. IsFiniteSet(1 .. N) /\ Cardinality(1 .. N) = N
  BY <1>1, FS_Interval
<1>7. f \in Surjection(found, 1 .. N)
  <2> HIDE DEF f
  <2> QED
    BY <1>5, <1>6, FS_Injection
<1>8. \A n \in 1 .. N : \E k \in found : f[k] = n
  BY <1>7 DEF Surjection
<1>9. \A n \in 1 .. N : \E k \in found : Rank(found, direction, k) = n - 1
  BY <1>1, <1>2, <1>8
<1> QED
  BY <1>1, <1>2, <1>9

\* ORDER BY lists the rows that match, each once and in order.
LEMMA ScanFacts ==
    ASSUME NEW table \in SUBSET Keys, NEW r, NEW cursor, NEW direction
    PROVE  LET found == Matching(table, r, cursor, direction)
               scan == Scan(table, r, cursor, direction)
           IN  /\ Cardinality(found) \in Nat
               /\ scan \in [1 .. Cardinality(found) -> found]
               /\ \A k \in found : \E n \in 1 .. Cardinality(found) : scan[n] = k
               /\ \A m, n \in 1 .. Cardinality(found) : m < n => Before(direction, scan[m], scan[n])
<1> DEFINE found == Matching(table, r, cursor, direction)
           scan == Scan(table, r, cursor, direction)
           N == Cardinality(found)
<1>1. found \in SUBSET Keys
  BY DEF Matching
<1>2. scan = [n \in 1 .. N |-> CHOOSE k \in found : Rank(found, direction, k) = n - 1]
  BY DEF Scan
<1> HIDE DEF found, scan
<1>3. N \in Nat /\ \A k \in found : Rank(found, direction, k) \in 0 .. N - 1
  BY <1>1, RanksAreAllTaken
<1>4. ASSUME NEW n \in 1 .. N
      PROVE  scan[n] \in found /\ Rank(found, direction, scan[n]) = n - 1
  <2>1. \E k \in found : Rank(found, direction, k) = n - 1
    BY <1>1, RanksAreAllTaken
  <2> QED
    BY <1>2, <2>1
<1>5. ASSUME NEW j \in found, NEW k \in found,
             ~(Rank(found, direction, k) < Rank(found, direction, j)), j # k
      PROVE  Before(direction, j, k)
  BY <1>1, <1>5, RankGrows, KeyOrder
<1>6. ASSUME NEW k \in found PROVE \E n \in 1 .. N : scan[n] = k
  <2> DEFINE n == Rank(found, direction, k) + 1
  <2>1. n \in 1 .. N /\ Rank(found, direction, scan[n]) = Rank(found, direction, k)
        /\ scan[n] \in found
    BY <1>3, <1>4
  <2>2. scan[n] = k
    <3> HIDE DEF n
    <3>1. /\ ~(Rank(found, direction, k) < Rank(found, direction, scan[n]))
          /\ ~(Rank(found, direction, scan[n]) < Rank(found, direction, k))
      BY <1>3, <2>1
    <3> QED
      BY <1>1, <2>1, <3>1, RankGrows, KeyOrder
  <2> QED
    BY <2>1, <2>2
<1>7. ASSUME NEW m \in 1 .. N, NEW n \in 1 .. N, m < n PROVE Before(direction, scan[m], scan[n])
  BY <1>3, <1>4, <1>5, <1>7
<1>8. scan \in [1 .. N -> found]
  BY <1>2, <1>4
<1> QED
  BY <1>3, <1>6, <1>7, <1>8 DEF found, scan

\* A page holds the first rows of its scan, at most limit of them, newest first.
Size(table, r, limit, cursor, direction) ==
    LET found == Cardinality(Matching(table, r, cursor, direction))
    IN  IF found > limit THEN limit ELSE found

PageIsPrefixOfScan(table, r, limit, cursor, direction) ==
    LET p == Page(table, r, limit, cursor, direction)
        found == Matching(table, r, cursor, direction)
        scan == Scan(table, r, cursor, direction)
        size == Size(table, r, limit, cursor, direction)
        more == Cardinality(found) > limit
        keys == PageKeys(p)
    IN  /\ size \in Nat /\ Len(p.txs) = size /\ p.txs \in Seq({Row(k) : k \in found})
        /\ keys \in Seq(found) /\ Len(keys) = size
        /\ direction = "next" => \A n \in 1 .. size : keys[n] = scan[n]
        /\ direction = "prev" => \A n \in 1 .. size : keys[n] = scan[size - n + 1]
        /\ IF size > 0 /\ (direction = "prev" \/ more)
           THEN p.next # NoCursor /\ DecodeCursor(p.next) = keys[size]
           ELSE p.next = NoCursor
        /\ IF size > 0 /\ (IF direction = "next" THEN cursor # NoCursor ELSE more)
           THEN p.prev # NoCursor /\ DecodeCursor(p.prev) = keys[1]
           ELSE p.prev = NoCursor

\* Trimming the probe row and reversing a prev page leave the first rows of the scan,
\* and the links name the rows at the ends.
LEMMA PageIsPrefix ==
    ASSUME NEW table \in SUBSET Keys, NEW r, NEW limit \in Nat \ {0}, NEW cursor,
           NEW direction \in {"next", "prev"}
    PROVE  PageIsPrefixOfScan(table, r, limit, cursor, direction)
<1> DEFINE found == Matching(table, r, cursor, direction)
           scan == Scan(table, r, cursor, direction)
           size == Size(table, r, limit, cursor, direction)
           N == Cardinality(found)
           more == N > limit
           fetched == Fetch(scan, limit)
           trimmed == IF Len(fetched) > limit THEN SubSeq(fetched, 1, limit) ELSE fetched
           ordered == IF direction = "prev" THEN Reverse(trimmed) ELSE trimmed
           result == Finalize(fetched, limit, direction)
           p == Page(table, r, limit, cursor, direction)
           keys == PageKeys(p)
<1>0. p = Body(result, direction, cursor)
  BY DEF Page
<1>1. found \in SUBSET Keys /\ N \in Nat /\ scan \in [1 .. N -> found]
  <2>1. found \in SUBSET Keys
    BY DEF Matching
  <2>2. N \in Nat /\ scan \in [1 .. N -> found]
    BY ScanFacts
  <2> QED
    BY <2>1, <2>2
<1>2. size = (IF N > limit THEN limit ELSE N) /\ size \in Nat
  BY <1>1 DEF Size
<1> HIDE DEF found, scan, size, p
<1>3. scan \in Seq(found) /\ Len(scan) = N
  BY <1>1
<1>4. /\ fetched \in Seq(found) /\ Len(fetched) = (IF N < limit + 1 THEN N ELSE limit + 1)
      /\ \A n \in 1 .. Len(fetched) : fetched[n] = scan[n]
  <2> DEFINE m == IF N < limit + 1 THEN N ELSE limit + 1
  <2>1. m \in Nat /\ m <= N /\ fetched = SubSeq(scan, 1, m)
    BY <1>1, <1>3 DEF Fetch
  <2>2. \A i \in 1 .. m : scan[i] \in found
    BY <1>1, <2>1
  <2> HIDE DEF m, fetched
  <2>3. /\ SubSeq(scan, 1, m) \in Seq(found)
        /\ Len(SubSeq(scan, 1, m)) = IF 1 <= m THEN m - 1 + 1 ELSE 0
        /\ \A i \in 1 .. m - 1 + 1 : SubSeq(scan, 1, m)[i] = scan[1 + i - 1]
    BY <2>1, <2>2, SubSeqProperties
  <2>4. fetched \in Seq(found) /\ Len(fetched) = m /\ \A i \in 1 .. m : fetched[i] = scan[i]
    BY <2>1, <2>3
  <2> QED
    BY <2>4 DEF m
<1> HIDE DEF fetched
<1>5. more <=> Len(fetched) > limit
  BY <1>1, <1>4
<1>6. /\ trimmed \in Seq(found) /\ Len(trimmed) = size
      /\ \A n \in 1 .. size : trimmed[n] = scan[n]
  <2>1. CASE Len(fetched) > limit
    <3>1. \A i \in 1 .. limit : fetched[i] \in found
      BY <1>4, <2>1
    <3>2. /\ SubSeq(fetched, 1, limit) \in Seq(found)
          /\ Len(SubSeq(fetched, 1, limit)) = IF 1 <= limit THEN limit - 1 + 1 ELSE 0
          /\ \A i \in 1 .. limit - 1 + 1 : SubSeq(fetched, 1, limit)[i] = fetched[1 + i - 1]
      BY <3>1, SubSeqProperties
    <3>3. /\ SubSeq(fetched, 1, limit) \in Seq(found) /\ Len(SubSeq(fetched, 1, limit)) = limit
          /\ \A i \in 1 .. limit : SubSeq(fetched, 1, limit)[i] = fetched[i]
      BY <3>2
    <3>4. size = limit
      BY <1>1, <1>2, <1>5, <2>1
    <3> QED
      BY <1>4, <2>1, <3>3, <3>4
  <2>2. CASE ~(Len(fetched) > limit)
    BY <1>1, <1>2, <1>4, <1>5, <2>2
  <2> QED
    BY <2>1, <2>2
<1> HIDE DEF trimmed
<1>7. /\ ordered \in Seq(found) /\ Len(ordered) = size
      /\ direction = "next" => \A n \in 1 .. size : ordered[n] = scan[n]
      /\ direction = "prev" => \A n \in 1 .. size : ordered[n] = scan[size - n + 1]
  <2>1. CASE direction = "next"
    BY <1>6, <2>1
  <2>2. CASE direction = "prev"
    <3>1. ordered = [n \in 1 .. size |-> trimmed[(size - n) + 1]]
      BY <1>6, <2>2 DEF Reverse
    <3>2. \A n \in 1 .. size : (size - n) + 1 \in 1 .. size
      BY <1>2
    <3>3. \A n \in 1 .. size : ordered[n] = scan[size - n + 1] /\ ordered[n] \in found
      BY <1>6, <3>1, <3>2
    <3>4. ordered \in [1 .. size -> found]
      BY <3>1, <3>3
    <3>5. ordered \in Seq(found) /\ Len(ordered) = size
      <4> HIDE DEF ordered
      <4> QED
        BY <1>2, <3>4
    <3> QED
      BY <2>2, <3>3, <3>5
  <2> QED
    BY <2>1, <2>2
<1>8. result = [txs |-> [n \in 1 .. Len(ordered) |-> Row(ordered[n])], hasMore |-> more]
  BY <1>5 DEF Finalize, trimmed
<1> HIDE DEF ordered, result
<1>9. result.txs = [n \in 1 .. size |-> Row(ordered[n])] /\ result.hasMore = more
  BY <1>7, <1>8
<1>10. \A n \in 1 .. size : ordered[n] \in found
  BY <1>2, <1>7
<1>11. result.txs \in Seq({Row(k) : k \in found}) /\ Len(result.txs) = size
  BY <1>2, <1>9, <1>10
<1>12. p.txs = result.txs
  BY <1>0 DEF Body
<1>13. \A k \in found : k = <<k[1], k[2]>> /\ Key(Row(k)) = k
  BY <1>1, PagesAssumption DEF Key, Row, Std
<1>14. keys = [n \in 1 .. size |-> ordered[n]]
  BY <1>9, <1>10, <1>11, <1>12, <1>13 DEF PageKeys
<1>15. /\ keys \in Seq(found) /\ Len(keys) = size
       /\ direction = "next" => \A n \in 1 .. size : keys[n] = scan[n]
       /\ direction = "prev" => \A n \in 1 .. size : keys[n] = scan[size - n + 1]
  BY <1>2, <1>7, <1>10, <1>14
<1>16. size > 0 => /\ result.txs # <<>>
                   /\ Head(result.txs) = Row(keys[1]) /\ Last(result.txs) = Row(keys[size])
  <2> SUFFICES ASSUME size > 0
               PROVE  /\ result.txs # <<>>
                      /\ Head(result.txs) = Row(keys[1]) /\ Last(result.txs) = Row(keys[size])
    OBVIOUS
  <2>1. 1 \in 1 .. size /\ size \in 1 .. size /\ Len(result.txs) = size
    BY <1>2, <1>11
  <2>2. result.txs[1] = Row(keys[1]) /\ result.txs[size] = Row(keys[size])
    BY <1>9, <1>14, <2>1
  <2>3. result.txs # <<>>
    BY <2>1
  <2>4. Head(result.txs) = result.txs[1] /\ Last(result.txs) = result.txs[size]
    BY <1>11, <2>1, <2>3 DEF Last
  <2> QED
    BY <2>2, <2>3, <2>4
<1>17. size > 0 => keys[1] \in found /\ keys[size] \in found
  BY <1>2, <1>10, <1>14
<1>18. size = 0 => result.txs = <<>>
  BY <1>11
<1>19. \A k \in found : MakeTxCursor(Row(k)) # NoCursor /\ DecodeCursor(MakeTxCursor(Row(k))) = k
  BY <1>13 DEF MakeTxCursor, NoCursor, DecodeCursor, Row, Url, Std
<1>20. /\ IF size > 0 /\ (direction = "prev" \/ more)
         THEN p.next # NoCursor /\ DecodeCursor(p.next) = keys[size]
         ELSE p.next = NoCursor
      /\ IF size > 0 /\ (IF direction = "next" THEN cursor # NoCursor ELSE more)
         THEN p.prev # NoCursor /\ DecodeCursor(p.prev) = keys[1]
         ELSE p.prev = NoCursor
  <2>1. CASE size = 0
    <3>1. p.next = NoCursor /\ p.prev = NoCursor
      BY <1>0, <1>18, <2>1 DEF Body
    <3> QED
      BY <2>1, <3>1
  <2>2. CASE size > 0
    <3>1. /\ p.next = IF direction = "prev" \/ more THEN MakeTxCursor(Row(keys[size])) ELSE NoCursor
          /\ p.prev = IF (IF direction = "next" THEN cursor # NoCursor ELSE more)
                      THEN MakeTxCursor(Row(keys[1])) ELSE NoCursor
      BY <1>0, <1>9, <1>16, <2>2 DEF Body
    <3> QED
      BY <1>17, <1>19, <2>2, <3>1
  <2> QED
    BY <1>2, <2>1, <2>2
<1>21. size \in Nat /\ Len(p.txs) = size /\ p.txs \in Seq({Row(k) : k \in found})
  BY <1>2, <1>11, <1>12
<1> QED
  BY <1>15, <1>20, <1>21 DEF PageIsPrefixOfScan, found, scan, size, p

\* What a page and its links say about the rows that match: the rows are among them
\* and newest first, each end's link names the row at that end, a link that goes on in
\* the direction of the scan has a row behind it, and the page leaves no row out between
\* its cursor and its own far end.
PageIsFaithful(table, r, limit, cursor, direction) ==
    LET p == Page(table, r, limit, cursor, direction)
        found == Matching(table, r, cursor, direction)
        keys == PageKeys(p)
    IN  /\ p.txs \in Seq({Row(k) : k \in found}) /\ Len(p.txs) <= limit
        /\ keys \in Seq(found) /\ Len(keys) = Len(p.txs)
        /\ found # {} => Len(p.txs) > 0
        /\ \A m, n \in 1 .. Len(keys) : m < n => Below(keys[n], keys[m])
        /\ p.next # NoCursor =>
             /\ Len(keys) > 0 /\ DecodeCursor(p.next) = keys[Len(keys)]
             /\ direction = "next" => \E k \in found : Below(k, keys[Len(keys)])
        /\ p.prev # NoCursor =>
             /\ Len(keys) > 0 /\ DecodeCursor(p.prev) = keys[1]
             /\ direction = "next" => cursor # NoCursor
             /\ direction = "prev" => \E k \in found : Below(keys[1], k)
        /\ direction = "next" => \A k \in found :
             \/ \E n \in 1 .. Len(keys) : keys[n] = k
             \/ p.next # NoCursor /\ Below(k, DecodeCursor(p.next))
        /\ direction = "prev" => \A k \in found, n \in 1 .. Len(keys) :
             k = keys[n] \/ Below(k, keys[n]) => \E m \in 1 .. Len(keys) : keys[m] = k

\* Every page of either direction, limit and cursor keeps that promise.
LEMMA PageFacts ==
    ASSUME NEW table \in SUBSET Keys, NEW r, NEW limit \in Nat \ {0}, NEW cursor,
           NEW direction \in {"next", "prev"}
    PROVE  PageIsFaithful(table, r, limit, cursor, direction)
<1> DEFINE p == Page(table, r, limit, cursor, direction)
           found == Matching(table, r, cursor, direction)
           scan == Scan(table, r, cursor, direction)
           size == Size(table, r, limit, cursor, direction)
           N == Cardinality(found)
           keys == PageKeys(p)
<1>1. found \in SUBSET Keys
  BY DEF Matching
<1>2. /\ N \in Nat /\ scan \in [1 .. N -> found]
      /\ \A k \in found : \E n \in 1 .. N : scan[n] = k
      /\ \A m, n \in 1 .. N : m < n => Before(direction, scan[m], scan[n])
  BY ScanFacts
<1>3. size = IF N > limit THEN limit ELSE N
  BY DEF Size
<1>4. /\ size \in Nat /\ Len(p.txs) = size /\ p.txs \in Seq({Row(k) : k \in found})
      /\ keys \in Seq(found) /\ Len(keys) = size
      /\ direction = "next" => \A n \in 1 .. size : keys[n] = scan[n]
      /\ direction = "prev" => \A n \in 1 .. size : keys[n] = scan[size - n + 1]
      /\ IF size > 0 /\ (direction = "prev" \/ N > limit)
         THEN p.next # NoCursor /\ DecodeCursor(p.next) = keys[size]
         ELSE p.next = NoCursor
      /\ IF size > 0 /\ (IF direction = "next" THEN cursor # NoCursor ELSE N > limit)
         THEN p.prev # NoCursor /\ DecodeCursor(p.prev) = keys[1]
         ELSE p.prev = NoCursor
  <2>1. PageIsPrefixOfScan(table, r, limit, cursor, direction)
    BY PageIsPrefix
  <2> QED
    BY <2>1 DEF PageIsPrefixOfScan
<1> HIDE DEF p, found, scan, size, keys
<1>5. size <= limit /\ size <= N /\ (N > limit => size = limit /\ size > 0 /\ size + 1 \in 1 .. N)
      /\ (~(N > limit) => size = N)
  BY <1>2, <1>3
<1>6. found # {} => size > 0
  <2> SUFFICES ASSUME NEW k \in found PROVE size > 0
    OBVIOUS
  <2>1. PICK n \in 1 .. N : scan[n] = k
    BY <1>2
  <2> QED
    BY <1>2, <1>4, <1>5, <2>1
<1>7. CASE direction = "next"
  <2>1. \A m, n \in 1 .. N : m < n => Below(scan[n], scan[m])
    BY <1>2, <1>7 DEF Before
  <2>2. \A m, n \in 1 .. size : m < n => Below(keys[n], keys[m])
    <3>1. \A n \in 1 .. size : n \in 1 .. N /\ keys[n] = scan[n]
      BY <1>2, <1>4, <1>5, <1>7
    <3> QED
      BY <2>1, <3>1
  <2>3. N > limit => scan[size + 1] \in found /\ Below(scan[size + 1], keys[size])
    BY <1>2, <1>4, <1>5, <1>7, <2>1
  <2>4. ASSUME NEW k \in found
        PROVE  \/ \E n \in 1 .. size : keys[n] = k
               \/ p.next # NoCursor /\ Below(k, DecodeCursor(p.next))
    <3>1. PICK n \in 1 .. N : scan[n] = k
      BY <1>2
    <3>2. CASE n <= size
      <4>1. n \in 1 .. size /\ keys[n] = k
        BY <1>2, <1>4, <1>7, <3>1, <3>2
      <4> QED
        BY <4>1
    <3>3. CASE ~(n <= size)
      <4>1. N > limit /\ size > 0 /\ size \in 1 .. N /\ size < n
        BY <1>2, <1>4, <1>5, <3>1, <3>3
      <4>2. Below(k, scan[size]) /\ keys[size] = scan[size]
        BY <1>4, <1>7, <2>1, <3>1, <4>1
      <4> QED
        BY <1>4, <4>1, <4>2
    <3> QED
      BY <3>2, <3>3
  <2>5. p.next # NoCursor => size > 0 /\ DecodeCursor(p.next) = keys[size] /\ N > limit
    BY <1>4, <1>7
  <2>6. p.prev # NoCursor => size > 0 /\ DecodeCursor(p.prev) = keys[1] /\ cursor # NoCursor
    BY <1>4, <1>7
  <2> QED
    BY <1>4, <1>5, <1>6, <1>7, <2>2, <2>3, <2>4, <2>5, <2>6 DEF PageIsFaithful, p, found, keys
<1>8. CASE direction = "prev"
  <2>1. \A m, n \in 1 .. N : m < n => Below(scan[m], scan[n])
    BY <1>2, <1>8 DEF Before
  <2>2. \A n \in 1 .. size : size - n + 1 \in 1 .. N /\ keys[n] = scan[size - n + 1]
    BY <1>2, <1>4, <1>5, <1>8
  <2>3. ASSUME NEW m \in 1 .. size, NEW n \in 1 .. size, m < n PROVE Below(keys[n], keys[m])
    <3>1. size - n + 1 < size - m + 1
      BY <1>4, <2>3
    <3> QED
      BY <2>1, <2>2, <3>1
  <2>4. N > limit => scan[size + 1] \in found /\ Below(keys[1], scan[size + 1])
    <3> SUFFICES ASSUME N > limit PROVE scan[size + 1] \in found /\ Below(keys[1], scan[size + 1])
      OBVIOUS
    <3>1. size > 0 /\ size + 1 \in 1 .. N /\ size \in 1 .. N /\ size < size + 1
      BY <1>2, <1>4, <1>5
    <3>2. 1 \in 1 .. size /\ size - 1 + 1 = size
      BY <1>4, <3>1
    <3>3. keys[1] = scan[size]
      BY <2>2, <3>2
    <3> QED
      BY <1>2, <2>1, <3>1, <3>3
  <2>5. ASSUME NEW k \in found, NEW n \in 1 .. size, k = keys[n] \/ Below(k, keys[n])
        PROVE  \E m \in 1 .. size : keys[m] = k
    <3>1. PICK i \in 1 .. N : scan[i] = k
      BY <1>2
    <3> DEFINE j == size - n + 1
    <3>2. j \in 1 .. N /\ j <= size /\ keys[n] = scan[j] /\ scan[j] \in found /\ scan[i] \in found
      <4>1. j \in 1 .. N /\ j <= size
        BY <1>4, <2>2
      <4>2. keys[n] = scan[j]
        BY <2>2
      <4> QED
        BY <1>2, <4>1, <4>2
    <3>3. ~(j < i)
      <4> SUFFICES ASSUME j < i PROVE FALSE
        OBVIOUS
      <4>1. Below(scan[j], scan[i])
        BY <2>1, <3>2
      <4>2. ~Below(scan[i], scan[j]) /\ scan[i] # scan[j]
        <5>1. /\ ~Before("prev", scan[i], scan[i])
              /\ Before("prev", scan[j], scan[i]) /\ Before("prev", scan[i], scan[j])
                   => Before("prev", scan[j], scan[j])
              /\ ~Before("prev", scan[j], scan[j])
          BY <1>1, <3>2, KeyOrder
        <5> QED
          BY <4>1, <5>1 DEF Before
      <4> QED
        BY <2>5, <3>1, <3>2, <4>2
    <3>4. i <= size
      BY <1>2, <1>4, <3>2, <3>3
    <3>5. size - i + 1 \in 1 .. size /\ size - (size - i + 1) + 1 = i
      BY <1>2, <1>4, <3>4
    <3>6. keys[size - i + 1] = k
      BY <2>2, <3>1, <3>5
    <3> QED
      BY <3>5, <3>6
  <2>6. p.next # NoCursor => size > 0 /\ DecodeCursor(p.next) = keys[size]
    BY <1>4, <1>8
  <2>7. p.prev # NoCursor => size > 0 /\ DecodeCursor(p.prev) = keys[1] /\ N > limit
    BY <1>4, <1>8
  <2> QED
    BY <1>4, <1>5, <1>6, <1>8, <2>3, <2>4, <2>5, <2>6, <2>7 DEF PageIsFaithful, p, found, keys
<1> QED
  BY <1>7, <1>8

-----------------------------------------------------------------------------
(* Cursor pages: following the links *)

\* A cursor the client holds names a row of its range that is still there, and has a
\* row behind it.  The named row is what the next step needs: a page reached by
\* prev_cursor offers next_cursor without having looked.
LinksInv ==
    /\ page.next # NoCursor =>
         /\ DecodeCursor(page.next) \in rows /\ InRange(range, DecodeCursor(page.next))
         /\ \E k \in rows : InRange(range, k) /\ Below(k, DecodeCursor(page.next))
    /\ page.prev # NoCursor =>
         /\ DecodeCursor(page.prev) \in rows /\ InRange(range, DecodeCursor(page.prev))
         /\ \E k \in rows : InRange(range, k) /\ Below(DecodeCursor(page.prev), k)

\* The walk is in order and its cursor names its last row; a row of the start that the
\* walk has not met lies below the cursor.
PagedInv ==
    /\ walk \in Seq(Keys)
    /\ \A m, n \in 1 .. Len(walk) : m < n => Below(walk[n], walk[m])
    /\ onWalk /\ page.next # NoCursor =>
         Len(walk) > 0 /\ DecodeCursor(page.next) = walk[Len(walk)]
    /\ onWalk => \A k \in atStart :
         /\ k \in rows /\ InRange(range, k)
         /\ \/ \E n \in 1 .. Len(walk) : walk[n] = k
            \/ page.next # NoCursor /\ Below(k, DecodeCursor(page.next))

PagesInv == rows \in SUBSET Keys /\ LinksInv /\ PagedInv

LEMMA OpenKeepsPages ==
    ASSUME PagesInv, NEW limit \in 1 .. MaxLimit, Open(limit)
    PROVE  PagesInv'
<1> DEFINE found == Matching(rows, range', NoCursor, "next")
<1>0. limit \in Nat \ {0} /\ rows \in SUBSET Keys
  BY PagesAssumption DEF PagesInv
<1>1. PageIsFaithful(rows, range', limit, NoCursor, "next")
  BY <1>0, PageFacts
<1>2. /\ page' = Page(rows, range', limit, NoCursor, "next") /\ walk' = PageKeys(page')
      /\ rows' = rows /\ atStart' = {k \in rows : InRange(range', k)}
  BY DEF Open
<1>3. /\ walk' \in Seq(found)
      /\ \A m, n \in 1 .. Len(walk') : m < n => Below(walk'[n], walk'[m])
      /\ page'.next # NoCursor =>
           /\ Len(walk') > 0 /\ DecodeCursor(page'.next) = walk'[Len(walk')]
           /\ \E k \in found : Below(k, walk'[Len(walk')])
      /\ page'.prev = NoCursor
      /\ \A k \in found :
           \/ \E n \in 1 .. Len(walk') : walk'[n] = k
           \/ page'.next # NoCursor /\ Below(k, DecodeCursor(page'.next))
  BY <1>1, <1>2 DEF PageIsFaithful
<1>4. found = {k \in rows : InRange(range', k)}
  BY DEF Matching
<1> HIDE DEF found
<1>5. walk' \in Seq(Keys) /\ (Len(walk') > 0 => walk'[Len(walk')] \in found)
  <2>1. found \in SUBSET Keys
    BY <1>0, <1>4
  <2>2. \A n \in 1 .. Len(walk') : walk'[n] \in found
    BY <1>3
  <2> QED
    BY <1>3, <2>1, <2>2
<1>6. LinksInv'
  BY <1>2, <1>3, <1>4, <1>5 DEF LinksInv
<1>7. PagedInv'
  BY <1>2, <1>3, <1>4, <1>5 DEF PagedInv
<1> QED
  BY <1>0, <1>2, <1>6, <1>7 DEF PagesInv

\* Two descending runs of rows make one where the second begins below the first.
LEMMA RunsJoin ==
    ASSUME NEW s \in Seq(Keys), NEW t \in Seq(Keys),
           \A m, n \in 1 .. Len(s) : m < n => Below(s[n], s[m]),
           \A m, n \in 1 .. Len(t) : m < n => Below(t[n], t[m]),
           Len(s) > 0, \A n \in 1 .. Len(t) : Below(t[n], s[Len(s)])
    PROVE  /\ s \o t \in Seq(Keys) /\ Len(s \o t) = Len(s) + Len(t)
           /\ \A m, n \in 1 .. Len(s \o t) : m < n => Below((s \o t)[n], (s \o t)[m])
           /\ \A n \in 1 .. Len(s) : (s \o t)[n] = s[n]
           /\ \A n \in 1 .. Len(t) : (s \o t)[Len(s) + n] = t[n]
<1> DEFINE u == s \o t
<1>1. /\ u \in Seq(Keys) /\ Len(u) = Len(s) + Len(t)
      /\ Len(s) \in Nat /\ Len(t) \in Nat
      /\ \A n \in 1 .. Len(s) : u[n] = s[n]
      /\ \A n \in 1 .. Len(t) : u[Len(s) + n] = t[n]
  OBVIOUS
<1> HIDE DEF u
<1>2. ASSUME NEW m \in 1 .. Len(u), NEW n \in 1 .. Len(u), m < n
      PROVE  Below(u[n], u[m])
  <2>1. CASE n <= Len(s)
    <3>1. m \in 1 .. Len(s) /\ n \in 1 .. Len(s)
      BY <1>1, <1>2, <2>1
    <3> QED
      BY <1>1, <1>2, <3>1
  <2>2. CASE Len(s) < m
    <3> DEFINE i == m - Len(s)
               j == n - Len(s)
    <3>1. i \in 1 .. Len(t) /\ j \in 1 .. Len(t) /\ i < j /\ Len(s) + i = m /\ Len(s) + j = n
      BY <1>1, <1>2, <2>2
    <3> HIDE DEF i, j
    <3> QED
      BY <1>1, <3>1
  <2>3. CASE m <= Len(s) /\ Len(s) < n
    <3> DEFINE j == n - Len(s)
    <3>1. m \in 1 .. Len(s) /\ j \in 1 .. Len(t) /\ Len(s) + j = n /\ Len(s) \in 1 .. Len(s)
      BY <1>1, <1>2, <2>3
    <3> HIDE DEF j
    <3>2. u[m] = s[m] /\ u[n] = t[j] /\ s[m] \in Keys /\ t[j] \in Keys /\ s[Len(s)] \in Keys
      BY <1>1, <3>1
    <3>3. Below(t[j], s[Len(s)]) /\ (m = Len(s) \/ Below(s[Len(s)], s[m]))
      BY <1>1, <3>1
    <3>4. Before("prev", t[j], s[Len(s)]) /\ Before("prev", s[Len(s)], s[m])
             => Before("prev", t[j], s[m])
      BY <3>2, KeyOrder
    <3>5. Below(t[j], s[m])
      BY <3>3, <3>4 DEF Before
    <3> QED
      BY <3>2, <3>5
  <2> QED
    BY <1>1, <1>2, <2>1, <2>2, <2>3
<1> QED
  BY <1>1, <1>2 DEF u

LEMMA FollowNextKeepsPages ==
    ASSUME PagesInv, NEW limit \in 1 .. MaxLimit, FollowNext(limit)
    PROVE  PagesInv'
<1> DEFINE found == Matching(rows, range, page.next, "next")
           seek == DecodeCursor(page.next)
           keys == PageKeys(page')
<1>0. limit \in Nat \ {0} /\ rows \in SUBSET Keys
  BY PagesAssumption DEF PagesInv
<1>1. PageIsFaithful(rows, range, limit, page.next, "next")
  BY <1>0, PageFacts
<1>2. /\ page' = Page(rows, range, limit, page.next, "next")
      /\ walk' = IF onWalk THEN walk \o keys ELSE walk
      /\ rows' = rows /\ range' = range /\ onWalk' = onWalk /\ atStart' = atStart
      /\ page.next # NoCursor
  BY DEF FollowNext
<1>3. /\ keys \in Seq(found)
      /\ \A m, n \in 1 .. Len(keys) : m < n => Below(keys[n], keys[m])
      /\ page'.next # NoCursor =>
           /\ Len(keys) > 0 /\ DecodeCursor(page'.next) = keys[Len(keys)]
           /\ \E k \in found : Below(k, keys[Len(keys)])
      /\ page'.prev # NoCursor => Len(keys) > 0 /\ DecodeCursor(page'.prev) = keys[1]
      /\ \A k \in found :
           \/ \E n \in 1 .. Len(keys) : keys[n] = k
           \/ page'.next # NoCursor /\ Below(k, DecodeCursor(page'.next))
  BY <1>1, <1>2 DEF PageIsFaithful
<1>4. found = {k \in rows : InRange(range, k) /\ Below(k, seek)}
  BY <1>2 DEF Matching
<1> HIDE DEF found, keys, seek
<1>5. \A n \in 1 .. Len(keys) : keys[n] \in found
  BY <1>3
<1>6. seek \in rows /\ InRange(range, seek)
  BY <1>2 DEF PagesInv, LinksInv, seek
<1>7. LinksInv'
  <2>1. ASSUME page'.next # NoCursor
        PROVE  /\ DecodeCursor(page'.next) \in rows /\ InRange(range, DecodeCursor(page'.next))
               /\ \E k \in rows : InRange(range, k) /\ Below(k, DecodeCursor(page'.next))
    <3>1. keys[Len(keys)] \in found
      BY <1>3, <1>5, <2>1
    <3> QED
      BY <1>3, <1>4, <2>1, <3>1
  <2>2. ASSUME page'.prev # NoCursor
        PROVE  /\ DecodeCursor(page'.prev) \in rows /\ InRange(range, DecodeCursor(page'.prev))
               /\ \E k \in rows : InRange(range, k) /\ Below(DecodeCursor(page'.prev), k)
    <3>1. keys[1] \in found
      BY <1>3, <1>5, <2>2
    <3> QED
      BY <1>3, <1>4, <1>6, <2>2, <3>1
  <2> QED
    BY <1>2, <2>1, <2>2 DEF LinksInv
<1>8. CASE ~onWalk
  <2>1. PagedInv'
    BY <1>2, <1>8 DEF PagesInv, PagedInv
  <2> QED
    BY <1>0, <1>2, <1>7, <2>1 DEF PagesInv
<1>9. CASE onWalk
  <2>1. /\ walk \in Seq(Keys) /\ Len(walk) > 0 /\ seek = walk[Len(walk)]
        /\ \A m, n \in 1 .. Len(walk) : m < n => Below(walk[n], walk[m])
        /\ \A k \in atStart :
             /\ k \in rows /\ InRange(range, k)
             /\ (\E n \in 1 .. Len(walk) : walk[n] = k) \/ Below(k, seek)
    BY <1>2, <1>9 DEF PagesInv, PagedInv, seek
  <2>2. keys \in Seq(Keys)
    BY <1>0, <1>3, <1>4, <1>5
  <2>3. \A n \in 1 .. Len(keys) : Below(keys[n], walk[Len(walk)])
    BY <1>4, <1>5, <2>1
  <2>4. /\ walk' \in Seq(Keys) /\ Len(walk') = Len(walk) + Len(keys)
        /\ \A m, n \in 1 .. Len(walk') : m < n => Below(walk'[n], walk'[m])
        /\ \A n \in 1 .. Len(walk) : walk'[n] = walk[n]
        /\ \A n \in 1 .. Len(keys) : walk'[Len(walk) + n] = keys[n]
    <3>1. walk' = walk \o keys
      BY <1>2, <1>9
    <3>2. /\ walk \o keys \in Seq(Keys) /\ Len(walk \o keys) = Len(walk) + Len(keys)
          /\ \A m, n \in 1 .. Len(walk \o keys) :
               m < n => Below((walk \o keys)[n], (walk \o keys)[m])
          /\ \A n \in 1 .. Len(walk) : (walk \o keys)[n] = walk[n]
          /\ \A n \in 1 .. Len(keys) : (walk \o keys)[Len(walk) + n] = keys[n]
      BY <1>3, <2>1, <2>2, <2>3, RunsJoin
    <3> QED
      BY <3>1, <3>2
  <2>5. Len(walk) \in Nat /\ Len(keys) \in Nat
    BY <2>1, <2>2
  <2>6. page'.next # NoCursor => Len(walk') > 0 /\ DecodeCursor(page'.next) = walk'[Len(walk')]
    <3> SUFFICES ASSUME page'.next # NoCursor
                 PROVE  Len(walk') > 0 /\ DecodeCursor(page'.next) = walk'[Len(walk')]
      OBVIOUS
    <3>1. Len(keys) \in 1 .. Len(keys) /\ Len(walk') > 0
      BY <1>3, <2>4, <2>5
    <3> QED
      BY <1>3, <2>4, <3>1
  <2>7. ASSUME NEW k \in atStart
        PROVE  /\ k \in rows /\ InRange(range, k)
               /\ \/ \E n \in 1 .. Len(walk') : walk'[n] = k
                  \/ page'.next # NoCursor /\ Below(k, DecodeCursor(page'.next))
    <3>1. CASE \E n \in 1 .. Len(walk) : walk[n] = k
      <4>1. PICK n \in 1 .. Len(walk) : walk[n] = k
        BY <3>1
      <4>2. n \in 1 .. Len(walk') /\ walk'[n] = k
        BY <2>4, <2>5, <4>1
      <4> QED
        BY <2>1, <4>2
    <3>2. CASE Below(k, seek)
      <4>1. k \in found
        BY <1>4, <2>1, <3>2
      <4>2. CASE \E n \in 1 .. Len(keys) : keys[n] = k
        <5>1. PICK n \in 1 .. Len(keys) : keys[n] = k
          BY <4>2
        <5>2. Len(walk) + n \in 1 .. Len(walk') /\ walk'[Len(walk) + n] = k
          BY <2>4, <2>5, <5>1
        <5> QED
          BY <2>1, <5>2
      <4> QED
        BY <1>3, <2>1, <4>1, <4>2
    <3> QED
      BY <2>1, <3>1, <3>2
  <2>8. PagedInv'
    BY <1>2, <2>4, <2>6, <2>7 DEF PagedInv
  <2> QED
    BY <1>0, <1>2, <1>7, <2>8 DEF PagesInv
<1> QED
  BY <1>8, <1>9

LEMMA FollowPrevKeepsPages ==
    ASSUME PagesInv, NEW limit \in 1 .. MaxLimit, FollowPrev(limit)
    PROVE  PagesInv'
<1> DEFINE found == Matching(rows, range, page.prev, "prev")
           seek == DecodeCursor(page.prev)
           keys == PageKeys(page')
<1>0. limit \in Nat \ {0} /\ rows \in SUBSET Keys
  BY PagesAssumption DEF PagesInv
<1>1. PageIsFaithful(rows, range, limit, page.prev, "prev")
  BY <1>0, PageFacts
<1>2. /\ page' = Page(rows, range, limit, page.prev, "prev")
      /\ walk' = <<>> /\ onWalk' = FALSE
      /\ rows' = rows /\ range' = range
      /\ page.prev # NoCursor
  BY DEF FollowPrev
<1>3. /\ keys \in Seq(found)
      /\ page'.next # NoCursor => Len(keys) > 0 /\ DecodeCursor(page'.next) = keys[Len(keys)]
      /\ page'.prev # NoCursor =>
           /\ Len(keys) > 0 /\ DecodeCursor(page'.prev) = keys[1]
           /\ \E k \in found : Below(keys[1], k)
  BY <1>1, <1>2 DEF PageIsFaithful
<1>4. found = {k \in rows : InRange(range, k) /\ Below(seek, k)}
  BY <1>2 DEF Matching
<1> HIDE DEF found, keys, seek
<1>5. Len(keys) > 0 => keys[1] \in found /\ keys[Len(keys)] \in found
  BY <1>3
<1>6. seek \in rows /\ InRange(range, seek)
  BY <1>2 DEF PagesInv, LinksInv, seek
<1>7. LinksInv'
  BY <1>2, <1>3, <1>4, <1>5, <1>6 DEF LinksInv
<1>8. PagedInv'
  BY <1>2 DEF PagedInv
<1> QED
  BY <1>0, <1>2, <1>7, <1>8 DEF PagesInv

\* The invariant of a client that pages while rows are inserted.
THEOREM PagesInvariant == PagesSpec => []PagesInv
<1>1. PagesInit => PagesInv
  BY DEF PagesInit, PagesInv, LinksInv, PagedInv, EmptyPage
<1>2. PagesInv /\ [PagesNext]_pagesVars => PagesInv'
  <2> SUFFICES ASSUME PagesInv, [PagesNext]_pagesVars PROVE PagesInv'
    OBVIOUS
  <2>1. ASSUME NEW k \in Keys, Insert(k) PROVE PagesInv'
    <3>1. /\ rows' = rows \cup {k}
          /\ UNCHANGED <<client, range, page, walk, onWalk, atStart>>
      BY <2>1 DEF Insert
    <3>2. LinksInv'
      BY <3>1 DEF PagesInv, LinksInv
    <3>3. PagedInv'
      BY <3>1 DEF PagesInv, PagedInv
    <3> QED
      BY <3>1, <3>2, <3>3 DEF PagesInv
  <2>2. ASSUME NEW limit \in 1 .. MaxLimit, Open(limit) \/ FollowNext(limit) \/ FollowPrev(limit)
        PROVE  PagesInv'
    BY <2>2, OpenKeepsPages, FollowNextKeepsPages, FollowPrevKeepsPages
  <2>3. CASE UNCHANGED pagesVars
    BY <2>3 DEF pagesVars, PagesInv, LinksInv, PagedInv
  <2> QED
    BY <2>1, <2>2, <2>3 DEF PagesNext
<1> QED
  BY <1>1, <1>2, PTL DEF PagesSpec

\* A page is made of rows, and its links of the rows at its ends.
LEMMA PageHasType ==
    ASSUME NEW table \in SUBSET Keys, NEW r, NEW limit \in 1 .. MaxLimit, NEW cursor,
           NEW direction \in {"next", "prev"}
    PROVE  LET p == Page(table, r, limit, cursor, direction)
           IN  /\ p.txs \in Seq({Row(k) : k \in Keys}) /\ Len(p.txs) <= MaxLimit
               /\ p.next \in Cursors /\ p.prev \in Cursors /\ PageKeys(p) \in Seq(Keys)
<1> DEFINE p == Page(table, r, limit, cursor, direction)
           found == Matching(table, r, cursor, direction)
           final == Finalize(Fetch(Scan(table, r, cursor, direction), limit), limit, direction)
<1>1. limit \in Nat \ {0} /\ limit <= MaxLimit
  BY PagesAssumption
<1>2. found \in SUBSET Keys
  BY DEF Matching
<1>3. /\ p.txs \in Seq({Row(k) : k \in found}) /\ Len(p.txs) <= limit
      /\ PageKeys(p) \in Seq(found)
  BY <1>1, PageFacts DEF PageIsFaithful
<1>4. p = Body(final, direction, cursor)
  BY DEF Page
<1> HIDE DEF p, final, found
<1>5. /\ p.txs = final.txs
      /\ p.next = NoCursor \/ (p.txs # <<>> /\ p.next = MakeTxCursor(Last(p.txs)))
      /\ p.prev = NoCursor \/ (p.txs # <<>> /\ p.prev = MakeTxCursor(Head(p.txs)))
  BY <1>4 DEF Body
<1>6. p.txs \in Seq({Row(k) : k \in Keys}) /\ PageKeys(p) \in Seq(Keys)
  <2>1. {Row(k) : k \in found} \subseteq {Row(k) : k \in Keys}
    BY <1>2
  <2> QED
    BY <1>2, <1>3, <2>1
<1>7. ASSUME NEW k \in Keys PROVE MakeTxCursor(Row(k)) \in Cursors
  BY DEF MakeTxCursor, Row, Std, Cursors
<1>8. ASSUME p.txs # <<>>
      PROVE  Last(p.txs) \in {Row(k) : k \in Keys} /\ Head(p.txs) \in {Row(k) : k \in Keys}
  BY <1>6, <1>8 DEF Last
<1>9. p.next \in Cursors /\ p.prev \in Cursors
  BY <1>5, <1>7, <1>8 DEF Cursors
<1>10. Len(p.txs) <= MaxLimit
  BY <1>1, <1>3, <1>6, PagesAssumption
<1> QED
  BY <1>6, <1>9, <1>10 DEF p

\* PagesTypeOK: whatever the client asks for and whatever is inserted, a page holds at
\* most MaxLimit rows of the table and its links are cursors the server can decode.
THEOREM PagesTypeCorrect == PagesSpec => []PagesTypeOK
<1>1. PagesInit => PagesTypeOK
  <2> SUFFICES ASSUME PagesInit PROVE PagesTypeOK
    OBVIOUS
  <2>1. page.txs = <<>> /\ page.next = NoCursor /\ page.prev = NoCursor
    BY DEF PagesInit, EmptyPage
  <2>2. /\ page.txs \in Seq({Row(k) : k \in Keys}) /\ Len(page.txs) <= MaxLimit
        /\ walk \in Seq(Keys)
    BY <2>1, PagesAssumption DEF PagesInit
  <2>3. page.next \in Cursors /\ page.prev \in Cursors
    BY <2>1 DEF Cursors
  <2> QED
    BY <2>2, <2>3 DEF PagesInit, PagesTypeOK
<1>2. PagesTypeOK /\ [PagesNext]_pagesVars => PagesTypeOK'
  <2> SUFFICES ASSUME PagesTypeOK, [PagesNext]_pagesVars PROVE PagesTypeOK'
    OBVIOUS
  <2>1. ASSUME NEW k \in Keys, Insert(k) PROVE PagesTypeOK'
    BY <2>1 DEF Insert, PagesTypeOK
  <2>2. ASSUME NEW limit \in 1 .. MaxLimit, NEW r, NEW cursor, NEW direction \in {"next", "prev"},
               page' = Page(rows, r, limit, cursor, direction)
        PROVE  /\ page'.txs \in Seq({Row(k) : k \in Keys}) /\ Len(page'.txs) <= MaxLimit
               /\ page'.next \in Cursors /\ page'.prev \in Cursors /\ PageKeys(page') \in Seq(Keys)
    BY <2>2, PageHasType DEF PagesTypeOK
  <2>3. ASSUME NEW limit \in 1 .. MaxLimit, Open(limit) PROVE PagesTypeOK'
    <3>1. page' = Page(rows, range', limit, NoCursor, "next")
      BY <2>3 DEF Open
    <3>2. /\ page'.txs \in Seq({Row(k) : k \in Keys}) /\ Len(page'.txs) <= MaxLimit
          /\ page'.next \in Cursors /\ page'.prev \in Cursors /\ PageKeys(page') \in Seq(Keys)
      BY <2>2, <3>1
    <3> QED
      BY <2>3, <3>2 DEF Open, PagesTypeOK
  <2>4. ASSUME NEW limit \in 1 .. MaxLimit, FollowNext(limit) PROVE PagesTypeOK'
    <3>1. page' = Page(rows, range, limit, page.next, "next")
      BY <2>4 DEF FollowNext
    <3>2. /\ page'.txs \in Seq({Row(k) : k \in Keys}) /\ Len(page'.txs) <= MaxLimit
          /\ page'.next \in Cursors /\ page'.prev \in Cursors /\ PageKeys(page') \in Seq(Keys)
      BY <2>2, <3>1
    <3>3. walk' \in Seq(Keys)
      BY <2>4, <3>2 DEF FollowNext, PagesTypeOK
    <3> QED
      BY <2>4, <3>2, <3>3 DEF FollowNext, PagesTypeOK
  <2>5. ASSUME NEW limit \in 1 .. MaxLimit, FollowPrev(limit) PROVE PagesTypeOK'
    <3>1. page' = Page(rows, range, limit, page.prev, "prev")
      BY <2>5 DEF FollowPrev
    <3>2. /\ page'.txs \in Seq({Row(k) : k \in Keys}) /\ Len(page'.txs) <= MaxLimit
          /\ page'.next \in Cursors /\ page'.prev \in Cursors
      BY <2>2, <3>1
    <3>3. walk' \in Seq(Keys)
      BY <2>5 DEF FollowPrev
    <3> QED
      BY <2>5, <3>2, <3>3 DEF FollowPrev, PagesTypeOK
  <2>6. CASE UNCHANGED pagesVars
    BY <2>6 DEF pagesVars, PagesTypeOK
  <2> QED
    BY <2>1, <2>3, <2>4, <2>5, <2>6 DEF PagesNext
<1> QED
  BY <1>1, <1>2, PTL DEF PagesSpec

\* WalkIsComplete: for every history, every mix of limits and any number of insertions,
\* a walk along next_cursor meets its rows newest first and, at its last page, has met
\* every row that was there when it began.
THEOREM PagesWalkIsComplete == PagesSpec => []WalkIsComplete
<1>1. PagesInv => WalkIsComplete
  <2> SUFFICES ASSUME PagesInv PROVE WalkIsComplete
    OBVIOUS
  <2>1. \A m, n \in 1 .. Len(walk) : m < n => Below(walk[n], walk[m])
    BY DEF PagesInv, PagedInv
  <2>2. ASSUME onWalk, page.next = NoCursor, NEW k \in atStart PROVE k \in ToSet(walk)
    <3>1. PICK n \in 1 .. Len(walk) : walk[n] = k
      BY <2>2 DEF PagesInv, PagedInv
    <3> QED
      BY <3>1 DEF ToSet
  <2> QED
    BY <2>1, <2>2 DEF WalkIsComplete
<1> QED
  BY <1>1, PagesInvariant, PTL

\* LinksLead: a next_cursor or prev_cursor that a body offers leads to a page with rows.
THEOREM PagesLinksLead == PagesSpec => []LinksLead
<1>1. PagesInv => LinksLead
  <2> SUFFICES ASSUME PagesInv PROVE LinksLead
    OBVIOUS
  <2>1. ASSUME NEW cursor, cursor # NoCursor, NEW direction \in {"next", "prev"},
               \E k \in rows : InRange(range, k) /\ Before(direction, DecodeCursor(cursor), k)
        PROVE  Page(rows, range, 1, cursor, direction).txs # <<>>
    <3>1. Matching(rows, range, cursor, direction) # {}
      BY <2>1 DEF Matching, Before
    <3>2. PageIsFaithful(rows, range, 1, cursor, direction)
      BY <2>1, PageFacts DEF PagesInv
    <3>3. Len(Page(rows, range, 1, cursor, direction).txs) > 0
      BY <3>1, <3>2 DEF PageIsFaithful
    <3> QED
      BY <3>3
  <2>2. page.next # NoCursor => Page(rows, range, 1, page.next, "next").txs # <<>>
    <3> SUFFICES ASSUME page.next # NoCursor
                 PROVE  Page(rows, range, 1, page.next, "next").txs # <<>>
      OBVIOUS
    <3>1. \E k \in rows : InRange(range, k) /\ Before("next", DecodeCursor(page.next), k)
      BY DEF PagesInv, LinksInv, Before
    <3> QED
      BY <2>1, <3>1
  <2>3. page.prev # NoCursor => Page(rows, range, 1, page.prev, "prev").txs # <<>>
    <3> SUFFICES ASSUME page.prev # NoCursor
                 PROVE  Page(rows, range, 1, page.prev, "prev").txs # <<>>
      OBVIOUS
    <3>1. \E k \in rows : InRange(range, k) /\ Before("prev", DecodeCursor(page.prev), k)
      BY DEF PagesInv, LinksInv, Before
    <3> QED
      BY <2>1, <3>1
  <2> QED
    BY <2>2, <2>3 DEF LinksLead
<1> QED
  BY <1>1, PagesInvariant, PTL

\* PrevJoinsOn: a page reached by prev_cursor leaves out no row between the row the
\* cursor named and its own newest row.
THEOREM PagesPrevJoinsOn == PagesSpec => PrevJoinsOn
<1> DEFINE Joins(limit) ==
      LET keys == {Key(page'.txs[n]) : n \in 1 .. Len(page'.txs)}
      IN  \A k \in rows :
            /\ InRange(range, k) /\ Below(DecodeCursor(page.prev), k)
            /\ \E top \in keys : k = top \/ Below(k, top)
            => k \in keys
<1>1. ASSUME PagesInv, NEW limit \in 1 .. MaxLimit, FollowPrev(limit) PROVE Joins(limit)
  <2> DEFINE set == {Key(page'.txs[n]) : n \in 1 .. Len(page'.txs)}
             found == Matching(rows, range, page.prev, "prev")
             keys == PageKeys(page')
  <2>0. limit \in Nat \ {0} /\ rows \in SUBSET Keys
    BY PagesAssumption, <1>1 DEF PagesInv
  <2>1. PageIsFaithful(rows, range, limit, page.prev, "prev")
    BY <2>0, PageFacts
  <2>2. page' = Page(rows, range, limit, page.prev, "prev") /\ page.prev # NoCursor
    BY <1>1 DEF FollowPrev
  <2>3. /\ Len(keys) = Len(page'.txs)
        /\ \A k \in found, n \in 1 .. Len(keys) :
             k = keys[n] \/ Below(k, keys[n]) => \E m \in 1 .. Len(keys) : keys[m] = k
    BY <2>1, <2>2 DEF PageIsFaithful
  <2>4. \A n \in 1 .. Len(page'.txs) : keys[n] = Key(page'.txs[n])
    BY DEF PageKeys
  <2>5. ASSUME NEW k \in rows, InRange(range, k), Below(DecodeCursor(page.prev), k),
               NEW top \in set, k = top \/ Below(k, top)
        PROVE  k \in set
    <3>1. k \in found
      BY <2>2, <2>5 DEF Matching
    <3>2. PICK n \in 1 .. Len(page'.txs) : top = Key(page'.txs[n])
      BY <2>5
    <3> HIDE DEF found, keys
    <3>3. PICK m \in 1 .. Len(page'.txs) : keys[m] = k
      BY <2>3, <2>4, <2>5, <3>1, <3>2
    <3> QED
      BY <2>4, <3>3
  <2> QED
    BY <2>5
<1>2. PagesInv /\ [PagesNext]_pagesVars =>
        [\A limit \in 1 .. MaxLimit : FollowPrev(limit) => Joins(limit)]_pagesVars
  BY <1>1
<1> QED
  BY <1>2, PagesInvariant, PTL DEF PagesSpec, PrevJoinsOn

=============================================================================

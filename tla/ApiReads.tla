------------------------------- MODULE ApiReads -------------------------------
(***************************************************************************)
(* The API beside a live indexer: the block, transaction, message, address *)
(* and validator routes read the tables of Pipeline while it writes them.  *)
(*                                                                         *)
(* A handler sends one query or several, and no transaction holds them     *)
(* together: every query sees the tables of its own moment.  One request   *)
(* is in flight; requests only read, so they do not meet each other.       *)
(***************************************************************************)
EXTENDS LiveIndexer, Sequences, FiniteSets

CONSTANTS
    MsgsOf,     \* the message types of a transaction, in order: a type is a table
    SendTable,  \* bank_msg_send
    Spans       \* bound: the [from, to] of block ranges, and amounts of "last x"

ASSUME ReadsAssumption ==
    /\ IsFiniteSet(Hashes) /\ DOMAIN MsgsOf = Hashes
    /\ \A x \in Hashes : {MsgsOf[x][n] : n \in DOMAIN MsgsOf[x]} = TablesOf[x]
    /\ Spans \subseteq Heights \X Heights

VARIABLES
    reader,     \* the request in flight and what its queries have returned
    answer      \* what the last step answered, if it answered

apiVars == <<vars, reader, answer>>

NoAnswer == [route |-> "none"]
Idle == [at |-> "idle"]

-----------------------------------------------------------------------------
(* The queries: what a SELECT returns from the tables as they are *)

Highest(heights) == {h \in heights : \A g \in heights : g <= h}
LastX(heights, x) == {h \in heights : Cardinality({g \in heights : g > h}) < x}

\* blocks JOIN validator_block_signing JOIN gno_validators: a block whose signing
\* row is missing, or names no known proposer, is not there.
VisibleBlocks ==
    {h \in dbBlocks : \E s \in dbSignings : s.height = h /\ s.proposer \in dbValidators}

\* transaction_general JOIN tx_hash_id.
VisibleTxs ==
    {r \in [hash : Hashes, height : Heights] :
        [id |-> dbTxHash[r.hash], height |-> r.height] \in dbTxs}

\* Mutant of BlocksQuery: the upper end of a range is left out.
BlocksQueryExclusive(ask) ==
    {[height |-> h, proposer |-> (CHOOSE s \in dbSignings : s.height = h).proposer] :
        h \in CASE ask.route = "range" -> {g \in VisibleBlocks : ask.from <= g /\ g < ask.to}
                [] ask.route = "latest" -> Highest(VisibleBlocks)
                [] ask.route = "last" -> LastX(VisibleBlocks, ask.to)}

\* query1 of GetBlock, GetFromToBlocks, GetLatestBlock and GetLastXBlocks.
BlocksQuery(ask) ==
    {[height |-> h, proposer |-> (CHOOSE s \in dbSignings : s.height = h).proposer] :
        h \in CASE ask.route = "range" -> VisibleBlocks \cap (ask.from .. ask.to)
                [] ask.route = "latest" -> Highest(VisibleBlocks)
                [] ask.route = "last" -> LastX(VisibleBlocks, ask.to)}

\* query2 of the same methods; the last two take MAX(height) of blocks alone.
TxsQuery(ask) ==
    {r \in VisibleTxs :
        CASE ask.route = "range" -> r.height \in ask.from .. ask.to
          [] ask.route = "latest" -> r.height \in Highest(dbBlocks)
          [] ask.route = "last" -> \E top \in Highest(dbBlocks) :
                                      r.height <= top /\ r.height + ask.to >= top}

\* Mutant of AttachTxs: every transaction of the second query is attached.
AttachAllTxs(found, txs) ==
    {[height |-> b.height, proposer |-> b.proposer, txs |-> {r.hash : r \in txs}] : b \in found}

\* The loop that hands every block the transactions of its height.
AttachTxs(found, txs) ==
    {[height |-> b.height, proposer |-> b.proposer,
      txs |-> {r.hash : r \in {t \in txs : t.height = b.height}}] : b \in found}

\* GetAllBlockSigners: a signer without an id is dropped, a proposer without one
\* is NULL and does not scan.
SignersQuery(h) == {s \in dbSignings : s.height = h}

\* GetAllValidators
ValidatorsQuery == dbValidators

\* GetTransaction: the rows of one hash.
TxQuery(x) == {r \in VisibleTxs : r.hash = x}
IsVisibleTx(x) == TxQuery(x) # {}

\* GetLastXTransactions: ORDER BY timestamp DESC LIMIT x; transactions of one
\* block have one timestamp and come in any order.
LastTxsQuery(x) ==
    {txs \in SUBSET VisibleTxs :
        /\ Cardinality(txs) <= x
        /\ Cardinality(txs) < x => txs = VisibleTxs
        /\ \A r \in txs, q \in VisibleTxs \ txs : q.height <= r.height}

\* GetMsgTypes: msg_types of the transaction, one entry for every message.
MsgTypes(x) == IF IsVisibleTx(x) THEN MsgsOf[x] ELSE <<>>

\* getAccountId, then address_tx JOIN tx_hash_id JOIN transaction_general.
AddressTxsQuery(a) ==
    {x \in Hashes : /\ IsVisibleTx(x)
                    /\ \E r \in dbAddressTx : r.id = dbTxHash[x] /\ r.address = a}

\* GetMsgCall, GetMsgAddPackage, ...: the messages of a type, by message_counter.
MessagesQuery(x, table) ==
    {n \in DOMAIN MsgsOf[x] :
        /\ MsgsOf[x][n] = table
        /\ \E r \in dbMsgs : r.id = dbTxHash[x] /\ r.table = table}

\* GetBankSend: the same rows without the counter, so that only the order of the
\* result tells them apart.
BankSendQuery(x) == MessagesQuery(x, SendTable)

\* An address without an id is NULL and fails the scan, unless only a signer has
\* none; the pipeline does not tell the two apart.
Unresolved(x) == \E r \in dbAddressTx : r.id = dbTxHash[x] /\ r.address = NoId

-----------------------------------------------------------------------------
(* The handlers *)

\* The cursor when the request began: what lies at or below it is settled.
Settled == IF alive THEN lastProcessedHeight ELSE 0

Respond(body) == reader' = Idle /\ answer' = body

\* GetBlock is GetFromToBlocks of one height; both ends are checked by the handler.
BlockAsks == {[route |-> "range", from |-> s[1], to |-> s[2]] : s \in {p \in Spans : p[1] <= p[2]}}
             \cup {[route |-> "latest", from |-> 0, to |-> 0]}
             \cup {[route |-> "last", from |-> 0, to |-> s[2]] : s \in Spans}

\* The errgroup starts both queries.
AskBlocks(ask) ==
    /\ reader.at = "idle"
    /\ reader' = [at |-> "blocks", ask |-> ask, settled |-> Settled]
    /\ answer' = NoAnswer
    /\ UNCHANGED vars

\* One of the two is back, and the other one is still out.
OneQueryDone ==
    /\ reader.at = "blocks"
    /\ \/ reader' = [at |-> "await_txs", ask |-> reader.ask, settled |-> reader.settled,
                     blocks |-> BlocksQuery(reader.ask)]
       \/ reader' = [at |-> "await_blocks", ask |-> reader.ask, settled |-> reader.settled,
                     txs |-> TxsQuery(reader.ask)]
    /\ answer' = NoAnswer
    /\ UNCHANGED vars

\* The last one is back: no block is a 404, a block without transactions is not.
BothQueriesDone ==
    /\ reader.at \in {"await_txs", "await_blocks"}
    /\ LET found == IF reader.at = "await_txs" THEN reader.blocks ELSE BlocksQuery(reader.ask)
           txs == IF reader.at = "await_blocks" THEN reader.txs ELSE TxsQuery(reader.ask)
       IN  Respond([route |-> reader.ask.route, ask |-> reader.ask, settled |-> reader.settled,
                    blocks |-> AttachTxs(found, txs)])
    /\ UNCHANGED vars

\* GetAllBlockSigners
AnswerSigners(h) ==
    /\ reader.at = "idle"
    /\ \E s \in SignersQuery(h) :
         /\ s.proposer \in dbValidators
         /\ Respond([route |-> "signers", height |-> h, proposer |-> s.proposer,
                     signed |-> s.signed \cap dbValidators, settled |-> Settled])
    /\ UNCHANGED vars

\* GetValidatorsList; an empty list is a 404.
AnswerValidators ==
    /\ reader.at = "idle"
    /\ ValidatorsQuery # {}
    /\ Respond([route |-> "validators", validators |-> ValidatorsQuery, settled |-> Settled])
    /\ UNCHANGED vars

\* GetTransactionBasic
AnswerTx(x) ==
    /\ reader.at = "idle"
    /\ \E r \in TxQuery(x) :
         Respond([route |-> "tx", hash |-> x, height |-> r.height, settled |-> Settled])
    /\ UNCHANGED vars

\* GetLastXTransactions; no transaction is a 404.
AnswerLastTxs(x) ==
    /\ reader.at = "idle"
    /\ \E txs \in LastTxsQuery(x) \ {{}} :
         Respond([route |-> "last_txs", amount |-> x, txs |-> txs, settled |-> Settled])
    /\ UNCHANGED vars

\* GetAddressTxs finds the account; an unknown address is a 404.
AskAddress(a) ==
    /\ reader.at = "idle"
    /\ a \in dbAddresses
    /\ reader' = [at |-> "address", address |-> a, settled |-> Settled]
    /\ answer' = NoAnswer
    /\ UNCHANGED vars

AnswerAddress ==
    /\ reader.at = "address"
    /\ Respond([route |-> "address", address |-> reader.address, settled |-> reader.settled,
                txs |-> AddressTxsQuery(reader.address)])
    /\ UNCHANGED vars

\* GetTransactionMessage reads the message types first.
AskMessages(x) ==
    /\ reader.at = "idle"
    /\ MsgTypes(x) # <<>>
    /\ reader' = [at |-> "messages", hash |-> x, settled |-> Settled, next |-> 1,
                  response |-> [n \in DOMAIN MsgTypes(x) |-> 0]]
    /\ answer' = NoAnswer
    /\ UNCHANGED vars

\* getBankSendResponse: without a counter every bank send lands at the first place
\* and the last row of the result stays.
FillSend(response, x) ==
    LET found == BankSendQuery(x)
    IN  IF found = {} THEN {response} ELSE {[response EXCEPT ![1] = m] : m \in found}

\* The other get...Response helpers put every message at its message_counter.
Fill(response, x, table) ==
    LET found == MessagesQuery(x, table)
    IN  IF table = SendTable THEN FillSend(response, x)
        ELSE {[n \in DOMAIN response |-> IF n \in found THEN n ELSE response[n]]}

\* One query per entry of the types, in order; a NULL address is a 500.
NextMessages ==
    /\ reader.at = "messages" /\ reader.next \in DOMAIN MsgsOf[reader.hash]
    /\ \/ \E r \in Fill(reader.response, reader.hash, MsgsOf[reader.hash][reader.next]) :
            reader' = [reader EXCEPT !.next = @ + 1, !.response = r]
       \/ /\ Unresolved(reader.hash)
          /\ reader' = Idle
    /\ answer' = NoAnswer
    /\ UNCHANGED vars

AnswerMessages ==
    /\ reader.at = "messages" /\ reader.next \notin DOMAIN MsgsOf[reader.hash]
    /\ Respond([route |-> "messages", hash |-> reader.hash, settled |-> reader.settled,
                response |-> reader.response])
    /\ UNCHANGED vars

-----------------------------------------------------------------------------

Indexer == Next /\ UNCHANGED reader /\ answer' = NoAnswer

Api ==
    \/ \E ask \in BlockAsks : AskBlocks(ask)
    \/ OneQueryDone \/ BothQueriesDone
    \/ \E h \in Heights : AnswerSigners(h)
    \/ AnswerValidators
    \/ \E x \in Hashes : AnswerTx(x)
    \/ \E s \in Spans : AnswerLastTxs(s[2])
    \/ \E a \in Addresses : AskAddress(a)
    \/ AnswerAddress
    \/ \E x \in Hashes : AskMessages(x)
    \/ NextMessages \/ AnswerMessages

ApiInit == Init /\ reader = Idle /\ answer = NoAnswer

ApiNext == Indexer \/ Api

ApiSpec == ApiInit /\ [][ApiNext]_apiVars

-----------------------------------------------------------------------------

TxsOf(h) == {x \in Hashes : HeightOf[x] = h}

\* What the API answers is true of the chain, whatever failed and wherever the
\* indexer died: blocks have their proposer and only their own transactions, a
\* transaction has its height, an address only transactions that name it, signers did sign, and a message stands
\* at the place it has in its transaction, bank sends excepted.
AnswersAreTrue ==
    /\ answer.route \in {"range", "latest", "last"} =>
         \A b \in answer.blocks : b.proposer = Proposer[b.height] /\ b.txs \subseteq TxsOf(b.height)
    /\ answer.route = "signers" =>
         answer.proposer = Proposer[answer.height] /\ answer.signed \subseteq Signers[answer.height]
    /\ answer.route = "tx" => answer.height = HeightOf[answer.hash]
    /\ answer.route = "last_txs" => \A r \in answer.txs : r.height = HeightOf[r.hash]
    /\ answer.route = "address" => \A x \in answer.txs : answer.address \in AddrsOf[x]
    /\ answer.route = "messages" =>
         \A n \in DOMAIN answer.response :
            answer.response[n] \in {0, n} \/ MsgsOf[answer.hash][answer.response[n]] = SendTable

\* Without a failure, what the loop had settled when a request began is answered in
\* full, although the request's queries see the tables at different moments: all
\* blocks of the range with all their transactions, all transactions of an address,
\* the most recent transactions, the proposers among the validators, and nothing
\* older than the settled height as the latest block.
SettledIsServed ==
    faults = 0 =>
      /\ answer.route = "range" =>
           \A h \in (answer.ask.from .. answer.ask.to) \cap (1 .. answer.settled) :
              [height |-> h, proposer |-> Proposer[h], txs |-> TxsOf(h)] \in answer.blocks
      /\ answer.route = "latest" /\ answer.settled > 0 =>
           \E b \in answer.blocks : b.height >= answer.settled
      /\ answer.route = "address" =>
           \A x \in Hashes : HeightOf[x] <= answer.settled /\ answer.address \in AddrsOf[x]
                             => x \in answer.txs
      /\ answer.route = "last_txs" =>
           \A x \in Hashes : HeightOf[x] <= answer.settled =>
              \/ \E r \in answer.txs : r.hash = x
              \/ /\ Cardinality(answer.txs) = answer.amount
                 /\ \A r \in answer.txs : r.height >= HeightOf[x]
      /\ answer.route = "validators" =>
           \A h \in 1 .. answer.settled : Proposer[h] \in answer.validators

\* Nothing the API has shown is taken back by a later write, a crash or a restart:
\* blocks, transactions and their messages stay visible.
NothingIsTakenBack ==
    [][/\ VisibleBlocks \subseteq VisibleBlocks'
       /\ VisibleTxs \subseteq VisibleTxs'
       /\ \A x \in Hashes, t \in MsgTables : MessagesQuery(x, t) \subseteq MessagesQuery(x, t)']_apiVars

-----------------------------------------------------------------------------
(* A statement of the repository that the code does not keep *)

\* "GetTransactionMessage retrieves all messages within a transaction by tx hash":
\* without a failure, a transaction that was settled when the request began is
\* answered with every message.
AllMessagesRetrieved ==
    answer.route = "messages" /\ faults = 0 /\ HeightOf[answer.hash] <= answer.settled =>
        \A m \in DOMAIN MsgsOf[answer.hash] :
            \E n \in DOMAIN answer.response : answer.response[n] = m

=============================================================================

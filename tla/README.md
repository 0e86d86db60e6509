# Spectra gnoland indexer: a TLA+ verification project

This directory holds a formal model of the Spectra indexer and of the API beside it (`indexer/`,
`api/`, `pkgs/database`, `pkgs/schema` of the repository): TLA+ modules translated from the Go source, TLC
configurations that check them on small instances, and TLAPS proofs of their safety
properties for every instance. `PROJECT.json` maps each definition to the lines it models and
lists the runs, the findings, the hazards and the theorems.

## 1. The system

The indexer reads blocks, commits and transactions of a gno.land chain over RPC and writes
them into a TimescaleDB. It runs in *live* mode (follow the chain) or *historic* mode (a fixed
range). A second program, the API, reads the same database.

| Component | State it keeps | Operations | Interacts with |
|---|---|---|---|
| Orchestrator loops (`indexer/orchestrator`) | cursor (`lastProcessedHeight`, `startHeight`), `currentProcessingHeight` | `LiveProcess`, `HistoricProcess`, `saveProcessingState`, `DumpState` | calls the pipeline chunk by chunk; looks at the context once per iteration |
| Chunk pipeline (`processChunk`, `processAll`) | the blocks, commits and transactions of the chunk; two wait groups | fetch, collect, phase 1, phase 2 | launches the data processor's methods as goroutines |
| Data processor (`indexer/data_processor`) | `txHashCache`, two address caches | `ProcessValidatorAddresses`, `ProcessTxHashIds`, `ProcessBlocks`, `ProcessValidatorSignings`, `ProcessMessages`, `ProcessTransactions` | every method COPYs into its tables while the others run |
| Address cache (`indexer/address_cache`) | map address -> id | `AddressSolver`, `GetAddress`, `LoadAddresses` | look-up, insert with retry, read back, in `gno_addresses` and `gno_validators` |
| Database (`pkgs/database/timescaledb`, `pkgs/schema`) | the tables and their keys | COPY and INSERT, each all or nothing | shared by every goroutine, by restarts and by other indexers |
| Decoder (`indexer/decoder`) | none | decode, convert | `log.Fatal` on a transaction that does not decode |
| Query operator and retry (`indexer/query`, `indexer/retry`) | slots of a fan-out | `GetFromToBlocks`, `GetFromToCommits`, `GetTransactions`, `GetLatestBlockHeight` | a query that failed for good leaves a nil slot |
| RPC client and rate limiter (`indexer/rpc_client`) | token channel, refill goroutine | `Wait`, `Allow`, `Close` | throttles the query operator |
| Signal handling (`indexer/context_hook`, `indexer/main_operator`) | context, wait group, clean-up functions, state files | `StartListening`, `gracefulShutdown`, `emergencyShutdown`, `RegisterOperation`, `Cleanup`, `DumpState` | a goroutine beside main: cancels the loops, closes the pool, exits |
| Database set-up (`indexer/cli`, `indexer/db_init`, the lists of `pkgs/schema`) | the schema, users and grants | `create-db`, `create-user` | sends DDL statement by statement before the indexer runs |
| API access (`api/keystore`, `api/ratelimit`, `api/key_cmd.go`) | table of keys, cached keys, counters in Valkey | `key create/disable/enable`, `Refresh`, `Middleware` | stands before every `/v1` route |
| API reads (`api/handlers`, queries of `pkgs/database/timescaledb`) | none | block, signer, validator, transaction, message and address routes, cursor pages | joins the tables while the indexer writes them |
| API in-memory cache (`api/handlers/in_memory.go`) | average block time, number of addresses | refresh every five minutes | two routes return the numbers |

### What is hard here

* **Six goroutines per chunk share the database.** Phase 2 relies on caches that phase 1
  fills; within a phase the inserts happen in any order.
* **Errors are logged, not returned.** `processAll` returns nil whatever its goroutines met, so
  the loops advance over chunks of which only some tables were written.
* **The only durable progress marker is the highest row of `blocks`.** A crash between two
  inserts of phase 2 is followed by a restart behind that chunk.
* **A COPY is all or nothing, and its answer may be lost.** A failing connection may have
  applied the batch; a later batch that overlaps one existing row is rejected as a whole.
* **Heights are uint64.** Differences wrap, and slices of a wrapped length panic.
* **Caches outlive failed calls**: `txHashCache` keeps the previous chunk's ids, an address that
  could not be resolved becomes id 0.
* **Two goroutines end the process.** `main` returns when its loop does, the signal handler calls
  `os.Exit` after a clean-up or a timeout of 30 seconds, and either may come first.
* **The API has no snapshot.** A request is several queries, each at its own moment of a pipeline
  that commits table by table; a walk along cursors takes many requests while rows arrive.
* **Admission works on copies**: keys in a map that is refreshed in the background, counters in
  Valkey that expire on their own, calls to both that fail and let requests through.
* **Set-up is a script without a transaction**, which may die anywhere and be started again.
* **Another indexer may work on the same database** (two historic ranges, or live beside
  historic), inserting addresses between a look-up and the insert.

`hazards` in `PROJECT.json` lists these at the line where they bite, with the properties that
would show them going wrong.

## 2. The modules

| Module | Models |
|---|---|
| `SolverOutcomes` | the outcomes of one `AddressSolver` call (a constant operator) |
| `Pipeline` | `processChunk`, `processAll`, the data processor, the tables and the failures |
| `LiveIndexer` | `LiveProcess`, signals, crash and restart; extends `Pipeline` |
| `HistoricIndexer` | `HistoricProcess`, signals, crash and rerun; extends `Pipeline` |
| `AddressSolverSpec` | what `AddressSolver` promises: one step, one of `SolverOutcomes` |
| `AddressCache` | `AddressSolver` call by call; implements `AddressSolverSpec` |
| `FetchSpec` | what a fan-out of the query operator promises: one step per call |
| `QueryOperator` | the fan-outs goroutine by goroutine, with retries and rate limiter; implements `FetchSpec` |
| `Shutdown` | signals, graceful and emergency shutdown beside the main goroutine |
| `ApiReads` | the API's routes over the tables; extends `LiveIndexer`, so the indexer runs and fails beside them |
| `Pagination` | the cursor pages of `/transactions` and `/addresses/{address}/txs`, a client that walks them, inserts |
| `Access` | key commands, key store, rate limiter, Valkey |
| `DbSetup` | `create-db` and `create-user`, with the statements of the real schema |
| `MCLive`, `MCHistoric`, `MCAddressCache`, `MCQuery`, `MCShutdown`, `MCApi`, `MCPagination`, `MCAccess`, `MCSetup` | the instances TLC checks |
| `PipelineProofs` | lemmas about the pipeline's steps, for both loops |
| `LiveIndexerProofs`, `HistoricIndexerProofs`, `AddressCacheProofs`, `QueryOperatorProofs`, `AccessProofs` | the theorems about the module of that name |
| `ApiProofs` | the theorems about `ApiReads` and `Pagination` |
| `CommandProofs` | the theorems about `DbSetup` and `Shutdown`, how the program is set up and how it ends |

### Pipeline

State: the chunk (`stage`, `chunkStart`, `chunkEnd`, `blocks`, `commits`, `transactions`, where
`blocks` and `commits` are the heights whose slot is not nil), one entry of `task` per goroutine,
the caches, and one variable per table. A row is a record of the columns that a key or a
property looks at: `dbTxHash` is the id column of `tx_hash_id`, `dbTxs`, `dbAddressTx` and
`dbMsgs` carry `tx_id` and the height that stands for the timestamp, `dbSignings` the resolved
proposer and signers.

One action per goroutine step that touches shared state. `FetchRange`, `CollectTransactions`,
`BeginPhaseTwo` and `ChunkReturns` are the spine of `processChunk`; `ProcessValidatorAddresses`
and `ProcessTxHashIds` are phase 1; `ProcessBlocks`, `ProcessValidatorSignings`,
`ProcessTransactions` and, in several steps, `ProcessMessages` (`ResolveMessages`,
`InsertAddressTx`, `InsertMessageBatch`, `MessagesReturn`) are phase 2. `FetchPanics`,
`NilBlockPanic` and `DecodeFatal` are the three ways in which the code ends the process.
`CopyFrom` gives the outcomes of one COPY: applied, rejected for a constraint, lost, or applied
with the answer lost.

The environment's failures are named in `FaultKinds` and counted by `faults`, up to
`MaxFaults`: `rpc` (a request failed after its retries), `db` (a database call failed), `crash`
(the process is killed), and `signal` (not counted).

Abstractions. The chain is constant: `HeightOf`, `Signers`, `Proposer`, `AddrsOf`, `TablesOf`.
`Defect` says what of a transaction the indexer cannot digest: its hash is no base64, it does
not decode, its result does not parse, or a message does not convert. `BadHashes`, `BadHeights` and
`BadCommits` are the blocks whose hash, whose height and whose commit's height do not parse, three
failures that hit different tables. Transactions are
distinct, so a hash names one of them. Columns that no property reads (gas, fees, events,
amounts) are left out, and so are the log lines. The address an id belongs to stands for the
id. Two goroutines decode the same transactions in phase 2; the first that meets a bad one ends
the process, which is one action.

### LiveIndexer and HistoricIndexer

`pc` is the place in the loop. `LiveStart` takes the start height from the database or, with
`SkipInitialDbCheck`, from the node; `LiveChunk` computes the chunk with the code's uint64
arithmetic (`Add`, `Sub` modulo `Modulus`); `LiveChunkDone` moves the cursor. `Latest` lets the
node answer a height up to `MaxLag` below the chain's, as a load-balanced endpoint does.
`Restart` is the supervisor of `docs/setup.md` (systemd, `Restart=always`); `Rerun` is the operator
who runs an unfinished historic range again. The progress metrics of the loops only log and
are left out.

### AddressCache

Every database call of `AddressSolver` is an action: `SyncExistingFromDB`, one `InsertWithRetry`
per attempt, one `InsertOneByOne` per address of the fallback, `FetchAndCacheInserted`. Between
them another indexer may insert (`RivalInserts`) and the process may die (`Restart`). History
variables keep what the call started from, for the refinement mapping: while a call runs, the
abstract state is the one before it, and the effect appears when it returns. A call is *degraded*
when a database call failed or when a rival took an address of a batch that is not split
(`oneByOne` is nil for both callers in the data processor).

### QueryOperator

The fan-outs that `processChunk` starts side by side, blocks and commits, share the token channel
of `RateLimitedRpcClient`. A query is at one place at a time, although up to three goroutines carry
it: its own, the retry loop of `GenericRetryQuery`, and the one of `RetryWithContext` that waits for
the result and runs a callback. `Wait` takes a token, `Answered` and `Failed` are the end of a request,
`Backoff` the end of the sleeps between two retries, `Store` the write of the slot under the mutex,
`Release` the `wg.Done`. `Refill` is a tick of the refill goroutine. `Close` only tells that goroutine,
so a query that waits for a token then waits for ever. `Missing` are the heights the node does not
have. Durations are left out: a sleep ends at some time, a tick comes at some time. The tick that
finds a full bucket changes nothing and is no action. `GetTransactions` has the same code and runs
alone, after the other two.

`FetchSpec` is what `FetchRange` of `Pipeline` takes for granted: a call returns once, with the answers of
the queries that the node can answer and that were not given up, and the slice never changes
afterwards.

### Shutdown

`main` is where the main goroutine is: before and after `RegisterOperation`, at the head of its loop, in
a fetch or in the inserts of a chunk, behind `OperationComplete`. `handler` is where the goroutine of
`StartListening` is. They share the context (`cancelled`), the wait group (`wg`), the pool, the state
files (`saved`) and `current`, which is `currentProcessingHeight`. A chunk is one height; its goroutines
(`Writers`) take a connection (`Acquire`) and give it back (`Insert`). `ClosePool` refuses connections from
then on and `GracefulExit` waits for the ones that are held, as `pgxpool` does. `rows` and `lost` tell
what the database stored and refused, so that a row which is in neither was lost by the shutdown. A
second signal finds the one slot of the channel and nobody who reads it. The process also ends by
`MainReturns`, by a start height that cannot be read (`log.Fatal`) and by a nil block (`FetchFails`).

### ApiReads

`reader` is the one request in flight with what its queries have returned; `answer` what the last step
answered. The joins are operators on the tables of `Pipeline` (`VisibleBlocks`: a block without a signing
row of a known proposer does not show; `VisibleTxs`). `BlocksQuery` and `TxsQuery` are the two queries of the
block routes, which an errgroup sends side by side (`OneQueryDone`, `BothQueriesDone`). The message route reads
the types first and then sends one query for each (`AskMessages`, `NextMessages`, `AnswerMessages`); `FillSend` is the
one helper that has no `message_counter`. The routes with one query are one action each (`AnswerSigners`,
`AnswerValidators`, `AnswerTx`, `AnswerLastTxs`). Requests only read, so several in flight would not meet.

### Pagination

`Page` is a request: WHERE (`Matching`), ORDER BY (`Scan`), LIMIT with the probe row (`Fetch`), the cut and the
turning of a prev page (`Finalize`), the links (`Body`). `Scan` puts every row at its `Rank`, the number of rows
that come before it. A cursor is a height and a hash in the alphabet it was
encoded with. `rows` is what the joins show, so that one insert stands for the last row that makes a
transaction visible; rows appear anywhere, because a historic indexer may fill the past. Timestamps of
a range are heights. `walk`, `onWalk` and `atStart` are history variables.

### Access

A key is its limit, 0 where it has no row or no entry. `Refresh` is a query and a swap (`RefreshQuery`,
`RefreshSwap`); a request is `Arrive` (key store and `realIP`), `Increment`, `ExpireNX` and `Decide`, interleaved over the
workers. `Tick` is the clock of Valkey: a counter whose time to live has run out is gone, and requests
that got their number from it are marked `lapsed`, since they count in no window any more. `IncrementFailsOpen` lets a
request through uncounted. `since` and `during` are history variables: the values a key had since the query
of the last refresh, and since the query of the one that runs.

### DbSetup

A statement is the pair of its kind and name, and so is the object it makes. `Script` is the sequence of
`initializeNewDatabase`, built from the lists of `pkgs/schema`; `Needs` what the server must have for a statement
(external knowledge about Postgres and TimescaleDB), `Repeatable` which statements say IF NOT EXISTS. A run's
next statement succeeds, is rejected, or is lost with the connection or the process, applied or not. `made`
remembers which run made an object. `AppointPrivileges` sends all grants as one message, which the server
executes as one transaction. `AggregateStatements` are the five statements of each continuous aggregate, one
aggregate after the other.

## 3. What the runs check

Passing runs:

| Run | Instance | Properties |
|---|---|---|
| `live_faults` | 3 blocks, chunks of 2, two failures of any kind at any point, fairness | `TypeOK`; `RowsNameTheirTransaction` (every transaction, address and message row carries an id that `tx_hash_id` has for a transaction of the same block); `MessagesAreReachable` (no message row without the `address_tx` rows of its transaction, one for each of its addresses; only when a database call may have failed does the id 0 stand for one of them, and by it nobody finds the message); `IdsAreRecorded`; `BlocksNeverConflict` (live mode never collides with its own blocks); `CursorCoversBlocks`; `CatchesUp` (every height of the chain is reached by the cursor) |
| `live_crash` | two crashes, signals, lag 1, and a transaction that ends the process on every attempt | `BlocksAreContiguous` (restarts leave no hole in `blocks`, also when the difference of heights wraps), `SavedHeightIsIndexed` |
| `historic_rerun` | blocks 2 to 4, two crashes, signals, reruns | `RerunRepairsBlocksAndSignings`, `UnresolvedOnlyAtChunkEnd` (proposers are always resolved, signers except in the last block of a chunk) |
| `historic_progress` | blocks 2 to 5 in chunks of 2, one commit, one hash and one height that do not parse and three kinds of bad transactions, one failure, fairness | `DefectsAreContained` (when no call failed, the tables lack what the list below says and nothing else; this run has no signals, the theorem of this name covers interrupted and repeated runs), `Completes` |
| `address_cache` | 3 addresses, 2 attempts, two failing calls, one rival insert, restarts, fairness | `KeepsPromise` (`AddressCache` implements `AddressSolverSpec`), `CacheIsRecorded`, `SolverReturns`, `TypeOK` |
| `query_fanout` | blocks and commits of 2 heights, the second missing at the node, 2 retries, 1 token, fairness | `KeepsFetchPromise` (`QueryOperator` implements `FetchSpec`), `Throttled` (every request is paid with a token), `FanOutReturns` (unless the limiter is closed), `TypeOK` |
| `shutdown` | 3 heights, 2 writers, 2 signals, 2 failures, both modes, fairness | `NothingCutShort` (without a timeout or SIGQUIT no chunk is cut short, whenever the signal comes), `SavedIsIndexed` (a saved height can be trusted), `EndsAfterSignal`, `TypeOK` |
| `api_reads` | 2 blocks, a transaction with three messages and one with one, one failure of any kind | `AnswersAreTrue` (nothing the chain does not say), `SettledIsServed` (without failures what lies behind the cursor is answered in full), `NothingIsTakenBack` |
| `pagination` | 6 rows in 4 blocks, limits 1 to 3 mixed, a range, inserts anywhere | `WalkIsComplete` (a walk meets every row that was there, newest first and none twice), `LinksLead` (no link to an empty page), `PrevJoinsOn` |
| `access` | one key, one client without, two workers, a failure, a restart, two commands, fairness | `WindowWithinLimit`, `StoreIsRecent`, `StoreFollowsTable`, `WindowsEnd`, `TypeOK` |
| `setup` | two runs with the full script for two chains, two versions, one user, two losses of a connection or a process | `BuiltByOneRun`, `ScriptIsSound`, `CreatedIsComplete`, `ReportedIsGranted` |

`TypeOK` of `HistoricIndexer`, `PagesTypeOK` and `SetupTypeOK` are stated in their modules and hold of the same
instances; the runs spend their time on the other properties. All three are proved
(`HistoricTypeCorrect`, `PagesTypeCorrect`, `SetupTypeCorrect`).

What a defect costs in a range that completes without a failure, which is `DefectsAreContained`:

| Defect | Lost |
|---|---|
| the hash of a block does not parse (`BadHashes`) | the `blocks` rows of its whole chunk: `ProcessBlocks` leaves a zero row in the batch (the goroutine returns, its slot stays), and COPY rejects the batch. Transactions and signings stay |
| the height of a block does not parse (`BadHeights`) | the same, and the block's own transactions, which `CollectTransactions` passes over |
| the height of a commit does not parse (`BadCommits`) | its row of `validator_block_signing`; `ProcessValidatorSignings` drops empty rows before the COPY |
| the hash of a transaction is no base64 | the transaction, in every table |
| the result of a transaction does not parse | its row of `transaction_general` |
| a message does not convert | the messages and `address_tx` rows of every transaction in its chunk; `transaction_general` stays |
| a transaction does not decode | the process (`log.Fatal`): a range with one never completes |

Chunks without a defect lose nothing. In the run, block 4 is healthy up to its hash and block 5 has no height,
so that one chunk has no `blocks` rows at all although its signings and the transactions of block 4 are there.

### Disagreements with the documentation

One run, `api_messages`, is expected to fail (see `findings`): the comment on `GetTransactionMessage` says that it
retrieves all messages of a transaction, but `GetBankSend` does not select `message_counter`, and every bank
send is written to the first place of the response.

The project keeps the configurations of seven more, to be run by hand; in each TLC finds the statement
violated:

| Configuration | Statement | What happens |
|---|---|---|
| `historic_signers` | `docs/api.md`: the API shows all validators that signed a block | ids are registered from `LastCommit`, rows use the block's own commit: a validator that first signs the last block of a chunk becomes id 0 |
| `live_lag` | comment: "If caught up, wait and continue" | a latest height below the cursor wraps in uint64 and starts an inverted chunk, whose slice length panics |
| `live_gap` | README: live mode syncs the database to the latest height | a crash after `ProcessBlocks` and before the other inserts: the restart resumes behind the chunk |
| `live_missing` | comments: a block that cannot be fetched is nil and no error | `processPrecommits` dereferences the nil block and the process panics |
| `address_rival` | comment: addresses that are not cached are added to the cache | a rival inserts one address of the batch: every retry is rejected and the others get no id |
| `shutdown_cleanup` | `hook.go`: SIGINT and SIGTERM are a "graceful shutdown with cleanup" | main returns as soon as its loop does, often before the handler has closed the pool |
| `setup_user` | `docs/setup.md` and `README.md` call `create-user` with `--db-name postgres` | the tables are in the new database, so every grant is refused |

Three smaller ones have no configuration. After the timeout of 30 seconds a chunk that meets the closed
pool is passed over, and `live_interrupted` may save its height as done (`SavedIsIndexed` therefore excludes the
timeout). The comment at `api/handlers/address.go:49-50` says that cursor and direction are ignored next to a pair of
timestamps, and the texts at `api/huma-types/address.go:15,16,24,30,31` say that cursor, direction and the page links are for
cursor mode only and that only the rows are filled in range mode; but the query uses all of them, and the
response carries the links in both modes. `Pagination` follows the code, so `WalkIsComplete`, `LinksLead` and
`PrevJoinsOn` hold of ranges too. `CreateDatabase` forgives an existing database by comparing the
server's message with one that lacks its quotes; `Succeeds` and `Rejected` allow both outcomes.

### Bounds, and why they are enough

* Three blocks and chunks of two give a full chunk, a short one, and a chunk that starts where
  another ended; the historic runs start at block 2, so that the parent of the first block lies
  outside the range.
* Two transactions in different chunks (three or four in historic mode), one with messages for
  two tables and one with two addresses: stale cache entries of the previous chunk, batches
  that fail separately and an address shared by two chunks all occur.
* Two failures are what it takes to lose an answer and then crash, or to fail a phase 1 insert
  and then a phase 2 one. The liveness runs allow one, since each failure only adds a finite
  delay.
* `Modulus` is 16 and `MaxSliceLen` 8 instead of 2^64 and the limit of `make`: what matters is that
  heights plus a chunk never overflow while a wrapped difference is longer than any slice
  (`SizeAssumption`, which the proofs use as well).
* In `AddressCache` three addresses allow a batch with one address that is there, one that a rival
  inserts and one new one; two attempts show a retry after a lost answer.
* In `QueryOperator` four queries compete for one token; two retries give a retry with a pause before
  it and one without; one query of each fan-out always fails, the other may fail at any attempt.
  The run stops when both fan-outs have returned, or all wait for tokens of a closed limiter.
* In `Shutdown` three heights leave a chunk before and after the one that a signal meets; two writers
  give a chunk that is half stored; with two failures a chunk loses all its rows.
* In `ApiReads` chunks of one block let one block be settled while the other is written. The failure may
  hit the settled one or the other. `Spans` are both the ranges and the amounts of the "last x" routes.
* In `Pagination` two blocks have two transactions, so that a page border falls inside a block; six rows and
  pages of three give first, middle, last, full and short pages.
* In `Access` all limits are 1 and `CountCap` is 2: a counter only ever meets its limit in a comparison, so counts
  above every limit are one value (`AccessAssumption`; the theorem holds for all of them). Two commands are a
  creation and a revocation.
* `DbSetup` runs the full script of 48 statements. Two runs with two losses are what it takes for a run that dies, and
  a second that dies in the remains of the first. The versions lie on both sides of 2.19.3, one of them
  with a smaller patch number. Runs and chains are interchangeable, hence the symmetry; no liveness is
  checked there.
* `shutdown`, `pagination` and `setup` allow deadlock: a process that has ended, a client at the end of its
  links in a full table, and a finished set-up have no next step.

### Fairness

`FairSpec` of the loops assumes weak fairness of the loop's own steps, of the goroutines' steps
(the Go scheduler runs every runnable goroutine; every database call has a timeout), and of the
supervisor or operator who starts the program again. Nothing is assumed of the chain, of signals
or of failures; failures are bounded by `MaxFaults`. `live_faults` runs without lag: with a node that
always trails, a chunk that panics may repeat for ever. `AddressCache` assumes weak fairness of the
solver's steps only, `QueryOperator` that of the queries as a whole, of the return of `wg.Wait` and of the
ticks (requests end by the timeout of the HTTP client); nothing is assumed of `Close`.
`Shutdown` assumes weak fairness of the signal handler's goroutine, whose timer fires, and of the inserts,
which have deadlines; nothing of the main goroutine, whose fetch may hang. `Access` assumes that the
ticker of `StartPeriodicRefresh` keeps firing, that handlers run to their end and that time passes; requests,
commands, failures and restarts are the environment's. The remaining modules only have safety properties.

## 4. What is proved

The proofs hold for every chain, chunk size, number of transactions, addresses and failures.
The assumptions are those of the modules: `SizeAssumption` (heights and chunks fit in a uint64),
`ChainAssumption` (the shape of the chain's data), `LiveAssumption`, `CacheAssumption`,
`QueryAssumption` (finitely many queries, at least one token), `ShutdownAssumption` (at least one writer and height),
`AccessAssumption` (positive limits below the cap of the counters), `RangeAssumption` (a range in order, within the
chain), `ReadsAssumption` (finitely many transactions), `PagesAssumption` (finitely many rows, positive limits)
and `DbSetupAssumption` (at least one run and one chain). A theorem that needs more says so in its ASSUME; these
are named with it below.

Every invariant and every action property of a passing run is a theorem.

*Pipeline.* The table invariants are not inductive by themselves: what `ProcessMessages` writes
depends on what phase 1 left in the caches. `PipelineInv` adds three facts. `PhasesAreApart`: the
goroutine that writes `txHashCache` never runs together with those that read it. `CachesAgree`: a
cache holds what the table holds, or nothing, also after a failed or half-applied call.
`BatchesFollowAddressTx`: when the message batches are inserted, the `address_tx` rows of all
converted transactions are there, and each address has its own unless a database call may have failed; that rests on
`AddressesAreResolved`, which says what the cache holds once `ResolveMessages` has returned. `ChunkStepInv` shows that every step of the pipeline keeps it, and
`ChunkStepGrows` that a step never removes a row or changes an id that was handed out. Calling,
returning, crashing and booting have a lemma each, so that each loop needs only its own control.

*LiveIndexer.* `LiveInv` adds that a chunk runs only in a living process whose loop waits for it. It
yields `LiveTypeCorrect`, `LiveRowsNameTheirTransaction`, `LiveMessagesAreReachable` and
`LiveIdsAreRecorded`.

With the start height taken from the database (`SkipInitialDbCheck = FALSE`), `CursorInv` says that
the cursor covers the stored blocks, that a running chunk starts right behind it, and that only
`ProcessBlocks` of this chunk can have stored more. The delicate case is a wrapped difference: the
chunk's end is still at most the latest height, and `InvertedChunkPanics` shows that such a chunk ends
in `make` before anything is stored. It yields `LiveCursorCoversBlocks` and
`LiveBlocksNeverConflict`.

If moreover the database answers and the hashes and heights of the blocks parse (`OnlyTheProcessFails`), `ContiguousInv` says
that `blocks` is always an initial part of the chain: up to the cursor, or up to the chunk's end once
`ProcessBlocks` is done; phase 2 is only reached with all blocks fetched, because a nil slot panics in
phase 1. It yields `LiveBlocksAreContiguous` and `LiveSavedHeightIsIndexed`.

If every block and transaction can be digested (`SoundChain`), `SyncInv` follows the chunk table by table: as long as
nothing has failed, everything up to the cursor is stored, nothing beyond it, and the chunk in flight has
stored just what its finished goroutines write (`InFlight`, one part per goroutine). That needs phase 1 to be
over when phase 2 begins, and the cache of hashes to hold this chunk's ids, not the last one's. It yields
`LiveSyncedToCursor`: without failures live mode leaves nothing behind. `live_gap` shows that one crash is enough
to lose this.

*HistoricIndexer.* `HistoricInv` is the counterpart of `LiveInv`, from the same lemmas; `HistoricTypeCorrect` and
`HistoricTablesAreJoinable` follow (the latter are the table invariants of live mode, through any number of
reruns). Five more invariants, each on top of it:

* `ProgressInv`: what runs in a chunk is in its phase, and phase 2 begins only when every block was fetched.
* `ResolvedInv`: from the end of `ProcessValidatorAddresses` on, the cache holds the proposers and the signers of the
  parents of all blocks in the chunk, provided that the database answers (`"db"` is not in `FaultKinds`). A block
  that is not the last of its chunk is the parent of one in it, hence `HistoricUnresolvedOnlyAtChunkEnd`.
* `WalkInv`: the loop variable is at the first height of a chunk of the range, or behind the range. It needs
  `MaxBlockChunkSize > 0`; with 0, which the configuration does not exclude, the loop stays where it is.
* `StoredInv`: while no call has failed (`NoCallFailed`: nothing has failed yet, or only crashes can), `blocks` and
  `validator_block_signing` hold of each chunk its whole batch or nothing, and of the chunks behind the loop their batch.
  The batch of `blocks` is the chunk if all its hashes and heights parse and empty otherwise; that of the signings are its
  commits that parse. The step that matters is the COPY of a rerun: it overlaps either nothing or all of its
  batch, so a rejection loses nothing. It yields `HistoricRerunRepairs`, where `OnlyTheProcessFails` adds that
  no call fails and that hashes, heights and commits of the range all parse, so that the batches are the chunks.
* `DefectsInv` says of every chunk of the walk, while nothing has failed, that its transactions are not begun, being
  processed, stored as far as their defects allow, or doomed by one that does not decode. A completed range has
  no doomed chunk. With `StoredInv` for the tables of blocks it gives `HistoricDefectsAreContained`, for every
  distribution of defects.

*AddressCache.* `CacheInv` (the attempt counter, the batch, and the cache within the table) yields
`CacheTypeCorrect` and `CacheOnlyHoldsRecorded`. `CallInv` relates a call in progress to what it started from: the cache
has grown by requested addresses only, and the addresses still to add are in the table when the last step
reads them back, unless the call is degraded. Then every step is a stutter of `AddressSolverSpec` but the last,
which is one of `SolverOutcomes`: `SolverKeepsItsPromise`. It assumes `RetryAttempts > 0`, since a call with no attempt
at all inserts nothing and reports no error; the code passes 3.

*QueryOperator.* `QueryOperatorInv` has three parts. `QueryInv`, per query: its failures agree with its
attempts, and a nil answer is stored only after `RetryAmount + 1` of them. `CallInv`, per fan-out: the
wait group counts exactly the queries that are not done, so it reaches 0 once, at the end, and is
never negative. And the tokens are conserved: in the bucket, held by a query, or spent on a request.
The counting uses the cardinality facts of `FiniteSetTheorems`. It yields `QueryTypeCorrect`,
`RequestsAreThrottled` and, with `CompleteSlice` and `ReturnedStays`, the refinement `FanOutsKeepPromise`.

*Shutdown.* `IInv` adds `Stages` and `Indexed` to the types. `Stages` ties the two goroutines together: the wait
group is 1 exactly between `RegisterOperation` and `OperationComplete`, and once the handler has gone past its
wait without a timeout the main goroutine is not in a chunk and, its context being cancelled, never starts
one; this is what makes a signal before the registration harmless. `Indexed` says that below `last` every
writer's row is stored or was refused by the database. It yields `TypeCorrect`, `ChunksAreFinished` and
`StateFilesAreTrue`.

*Access.* `IInv` has three parts beside the types. `Limits`: what the store, a refresh and a request carry is the
row's limit or 0, because a row never changes its limit. `Recent`: the store, and the result of a running
query, held at some moment since that query. `Counts`: the numbers that a window hands out are distinct,
those that passed are at most the limit, and `admitted` is their cardinality. A window admits requests with
distinct numbers from 1 to the limit, so at most the limit (`AtMost`); a counter that expired takes its
numbers with it. It yields `TypeCorrect`, `StoreNeverStale` and `LimitIsKept`.

*ApiReads.* `RowsAreTrue` adds to the pipeline's invariant what the joins rely on: `IdsAreUnique` (an id of `tx_hash_id` is
one transaction's), `SigningsAreTrue` and `AddressRowsAreTrue` (rows say what the chain says, or 0 for an address).
`ReaderIsTrue` carries this over to the results that a request holds between two of its queries. It yields
`ApiAnswersAreTrue`, for an indexer that fails in any way. `ApiTakesNothingBack` follows from `TablesGrow` of the pipeline. Under
`SoundChain`, `ApiSettledIsServed` combines `SyncInv` of live mode with `ServedInv`: what was settled when a request began is among
the results of each of its queries.

*Pagination.* Ranks are shown by counting to be a bijection between the matching rows and their places (`ScanFacts`),
without induction over sequences; `PageIsPrefixOfScan` and `PageIsFaithful` then say what a request returns and when it
links. `PagesInv` has two parts. `LinksInv`: a cursor names a row that is still there, in the range, with another one
behind it. `PagedInv`: the walk is in order, its cursor names its last row, and a row of the start is on the
walk or below the cursor. It yields `PagesWalkIsComplete` and `PagesLinksLead`
(`PagesTypeCorrect` needs only the lemmas); `PagesPrevJoinsOn` follows from the same facts for a
page in the other direction. Rows and limits are arbitrary, and inserts are allowed anywhere.

*DbSetup.* The script is not abstract: `ScriptFacts`, `ScriptShape` and `ScriptOrder` establish of its 48 statements which is where
and that what a statement needs is made by an earlier one. `SetupInv` has `MadeInv`
(whatever exists was made by the run that made the type `amount`, because that statement cannot be
repeated and a second run stops there), `RunsInv` (what a run has sent is there) and `UsersInv`. It yields `SetupTypeCorrect`, `SetupBuiltByOneRun`,
`SetupScriptIsSound`, `SetupCreatedIsComplete` and `SetupReportedIsGranted`, for any number of runs, chains, users and losses. The second
and third assume `PlainVersions` (minor and patch numbers below 100), because the property compares versions as
one number and the code part by part.

*Only model-checked:* liveness (`CatchesUp`, `Completes`, `SolverReturns`, `FanOutReturns`, `EndsAfterSignal`, `StoreFollowsTable`,
`WindowsEnd`), which is out of the prover's reach. That faults matter to a theorem which excludes them is shown by
TLC's counterexamples, as in `live_gap` for `LiveSyncedToCursor`.

## 5. What is not modelled, and the plan

* HTTP and JSON of the RPC client, the event codec, the message codecs field by field, row encoding and
  schema reflection: they hold no state that another part observes.
* The statistics routes (`query_view.go`) read continuous aggregates. What a view shows is decided by
  TimescaleDB's refresh, and a model of it would be a model of that program. One hazard is listed:
  missed blocks are a difference of two views that are refreshed apart.
* The API's in-memory cache: two numbers that one goroutine overwrites and keeps on error.
* `refresh-aggregates`, `create-config`, `key list`, the health check: a call or a file and no state.
* Configuration files, apart from what they decide for the loops.
* Compression training, synthetic data and generators: offline tools and test data.

Next: what a historic run leaves behind a failed database call, as a bound on the rows that are missing
(`HistoricUnresolvedOnlyAtChunkEnd` and `HistoricRerunRepairs` exclude it); two
indexers on one database in one model, of which `AddressCache` has the part that concerns addresses.

## 6. Running it

    tlc -config live_faults.cfg MCLive          # a run: its module and cfg are in PROJECT.json
    tlapm LiveIndexerProofs.tla                 # a proof module

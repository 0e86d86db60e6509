------------------------------ MODULE LiveIndexer ------------------------------
(***************************************************************************)
(* Live mode: Orchestrator.LiveProcess polls the node for its latest       *)
(* height and hands the missing range to the pipeline, chunk by chunk.     *)
(* The process may crash at any point and is started again by its          *)
(* supervisor (docs/setup.md shows a systemd unit with Restart=always).    *)
(***************************************************************************)
EXTENDS Pipeline

CONSTANTS
    SkipInitialDbCheck, \* the --skip-db-check flag
    MaxLag              \* how far the latest height the node reports may trail

ASSUME LiveAssumption == SkipInitialDbCheck \in BOOLEAN /\ MaxLag \in Nat

VARIABLES
    pc,                  \* where LiveProcess is
    lastProcessedHeight, \* its local variable
    currentProcessingHeight, \* what a state dump would report
    cancelled,           \* the context of the signal handler is done
    saved                \* heights saveProcessingState wrote as "live_interrupted"

liveVars == <<pc, lastProcessedHeight, currentProcessingHeight, cancelled, saved>>
vars == <<pipelineVars, liveVars>>

\* Every variable of the live indexer holds a value of its type.
TypeOK ==
    /\ PipelineTypeOK
    /\ pc \in {"start", "loop", "chunk", "stopped"}
    /\ lastProcessedHeight \in Uint /\ currentProcessingHeight \in Uint
    /\ cancelled \in BOOLEAN
    /\ saved \subseteq Uint

Init ==
    /\ PipelineInit
    /\ head \in 0 .. MaxHeight
    /\ pc = "start" /\ lastProcessedHeight = 0 /\ currentProcessingHeight = 0
    /\ cancelled = FALSE /\ saved = {}

-----------------------------------------------------------------------------

\* The chain produces a block.
NewBlock ==
    /\ head < MaxHeight
    /\ head' = head + 1
    /\ UNCHANGED <<alive, chunkVars, task, batches, cacheVars, tables, faults, liveVars>>

\* What GetLatestBlockHeight may answer: the chain's height, or that of a
\* backend that trails it.
Latest == {h \in 0 .. head : head - h <= MaxLag}

\* Mutant of IsLastBlockHeight: ORDER BY height DESC is missing.
IsSomeBlockHeight(h) == IF dbBlocks = {} THEN h = 0 ELSE h \in dbBlocks

\* GetLastBlockHeight: the highest row of blocks, 0 when the table is empty.
IsLastBlockHeight(h) == h \in dbBlocks \cup {0} /\ \A g \in dbBlocks : g <= h

\* The start height comes from the database, or from the node.
LiveStart ==
    /\ alive /\ pc = "start"
    /\ \E h \in IF SkipInitialDbCheck THEN Latest
                 ELSE {g \in 0 .. MaxHeight : IsLastBlockHeight(g)} :
         lastProcessedHeight' = h /\ currentProcessingHeight' = h
    /\ pc' = "loop"
    /\ UNCHANGED <<pipelineVars, cancelled, saved>>

\* A failing first query ends the run: log.Fatal for the database, a plain
\* return of LiveProcess, and so of the program, for the node.
LiveStartFails ==
    /\ alive /\ pc = "start"
    /\ CanFail(IF SkipInitialDbCheck THEN "rpc" ELSE "db")
    /\ faults' = faults + 1
    /\ Exit
    /\ UNCHANGED liveVars

\* Mutant of LiveInterrupted: it saves the height it would index next.
LiveInterruptedSavesNext ==
    /\ alive /\ pc = "loop" /\ cancelled
    /\ saved' = saved \cup {Add(lastProcessedHeight, 1)}
    /\ pc' = "stopped"
    /\ UNCHANGED <<pipelineVars, lastProcessedHeight, currentProcessingHeight, cancelled>>

\* ctx.Done() is looked at once per iteration.
LiveInterrupted ==
    /\ alive /\ pc = "loop" /\ cancelled
    /\ saved' = saved \cup {lastProcessedHeight}
    /\ pc' = "stopped"
    /\ UNCHANGED <<pipelineVars, lastProcessedHeight, currentProcessingHeight, cancelled>>

\* GetLatestBlockHeight fails: sleep and try again.
LatestHeightFails ==
    /\ alive /\ pc = "loop" /\ ~cancelled
    /\ CanFail("rpc")
    /\ faults' = faults + 1
    /\ UNCHANGED <<head, alive, chunkVars, task, batches, cacheVars, tables, liveVars>>

\* latestHeight - lastProcessedHeight, in uint64.
BlocksBehind(latestHeight) == Sub(latestHeight, lastProcessedHeight)

LiveChunkEnd(latestHeight) ==
    MinOf(Sub(Add(Add(lastProcessedHeight, 1),
                  MinOf(BlocksBehind(latestHeight), MaxBlockChunkSize)), 1),
          latestHeight)

\* blocksBehind <= 0: sleep for LivePooling.
LiveCaughtUp ==
    /\ alive /\ pc = "loop" /\ ~cancelled
    /\ \E latestHeight \in Latest : BlocksBehind(latestHeight) = 0
    /\ UNCHANGED vars

\* Otherwise the next chunk, of at most MaxBlockChunkSize blocks.
LiveChunk ==
    /\ alive /\ pc = "loop" /\ ~cancelled
    /\ \E latestHeight \in Latest :
         /\ BlocksBehind(latestHeight) > 0
         /\ CallProcessChunk(Add(lastProcessedHeight, 1), LiveChunkEnd(latestHeight))
    /\ pc' = "chunk"
    /\ currentProcessingHeight' = Add(lastProcessedHeight, 1)
    /\ UNCHANGED <<lastProcessedHeight, cancelled, saved>>

LiveChunkStep == ChunkStep /\ UNCHANGED liveVars

\* Mutants of LiveChunkDone: the cursor moves to the start of the chunk, or past
\* its end.
LiveChunkDoneAtStart ==
    /\ alive /\ pc = "chunk"
    /\ ProcessChunkReturned
    /\ lastProcessedHeight' = chunkStart /\ currentProcessingHeight' = chunkStart
    /\ pc' = "loop"
    /\ UNCHANGED <<cancelled, saved>>

LiveChunkDonePastEnd ==
    /\ alive /\ pc = "chunk"
    /\ ProcessChunkReturned
    /\ lastProcessedHeight' = Add(chunkEnd, 1) /\ currentProcessingHeight' = Add(chunkEnd, 1)
    /\ pc' = "loop"
    /\ UNCHANGED <<cancelled, saved>>

\* processChunk returned, always nil: the cursor moves to the end of the chunk.
LiveChunkDone ==
    /\ alive /\ pc = "chunk"
    /\ ProcessChunkReturned
    /\ lastProcessedHeight' = chunkEnd /\ currentProcessingHeight' = chunkEnd
    /\ pc' = "loop"
    /\ UNCHANGED <<cancelled, saved>>

\* SIGINT or SIGTERM: the signal handler cancels the context.
Cancel ==
    /\ alive /\ ~cancelled /\ "signal" \in FaultKinds
    /\ cancelled' = TRUE
    /\ UNCHANGED <<pipelineVars, pc, lastProcessedHeight, currentProcessingHeight, saved>>

\* LiveProcess has returned and the process ends.
LiveStopped ==
    /\ alive /\ pc = "stopped"
    /\ Exit
    /\ UNCHANGED <<faults, liveVars>>

LiveCrash == Crash /\ UNCHANGED liveVars

\* The supervisor starts a new process.
Restart ==
    /\ Boot
    /\ pc' = "start" /\ cancelled' = FALSE
    /\ lastProcessedHeight' = 0 /\ currentProcessingHeight' = 0
    /\ UNCHANGED saved

Next ==
    \/ NewBlock
    \/ LiveStart \/ LiveStartFails \/ LiveInterrupted \/ LatestHeightFails
    \/ LiveCaughtUp \/ LiveChunk \/ LiveChunkStep \/ LiveChunkDone
    \/ Cancel \/ LiveStopped \/ LiveCrash \/ Restart

Spec == Init /\ [][Next]_vars

\* The Go scheduler runs every runnable goroutine, the sleeps of the loop end,
\* and the supervisor restarts a dead process.  Nothing is assumed of the chain,
\* of signals or of failures.
Fairness ==
    /\ WF_vars(LiveStart) /\ WF_vars(LiveChunk) /\ WF_vars(LiveChunkStep)
    /\ WF_vars(LiveChunkDone) /\ WF_vars(LiveInterrupted)
    /\ WF_vars(LiveStopped) /\ WF_vars(Restart)

FairSpec == Spec /\ Fairness

-----------------------------------------------------------------------------

\* Live mode never inserts a block a second time: whatever failed before and
\* wherever the process died, the chunk ProcessBlocks is about to COPY has no row
\* in blocks yet, so the COPY cannot be rejected as a duplicate.
BlocksNeverConflict ==
    task["ProcessBlocks"] = "run" => blocks \cap dbBlocks = {}

\* Between two chunks the cursor is at or beyond every block in the table; a
\* restart therefore resumes at a height that was never skipped backwards.
CursorCoversBlocks ==
    alive /\ pc = "loop" => \A h \in dbBlocks : h <= lastProcessedHeight

\* Without database errors, crashes and restarts leave no hole in blocks: at the
\* loop head the table holds exactly the heights up to the cursor.
BlocksAreContiguous ==
    alive /\ pc = "loop" => dbBlocks = 1 .. lastProcessedHeight

\* The height saved when the loop is interrupted is one whose block is stored:
\* an operator who resumes there loses no block.
SavedHeightIsIndexed ==
    \A h \in saved : h = 0 \/ h \in dbBlocks

\* Live mode follows the chain: whenever the chain has block h, the cursor gets
\* to h, also across failed polls, failed inserts, crashes and restarts.
CatchesUp ==
    \A h \in Heights : (head >= h) ~> (lastProcessedHeight >= h)

-----------------------------------------------------------------------------
(* Statements of the repository that the code does not keep *)

\* "If caught up, wait and continue" (the comment on the blocksBehind test): a
\* chunk is only started when the node reports a block beyond the cursor.
CaughtUpWaits ==
    [][pc = "loop" /\ pc' = "chunk" => chunkStart' <= chunkEnd']_vars

\* "It will sync up the database to the latest block height" (README, live mode):
\* at the loop head every height up to the cursor has its block, its signings and
\* its transactions.
SyncedToCursor ==
    alive /\ pc = "loop" =>
        /\ \A h \in 1 .. lastProcessedHeight :
              h \in dbBlocks /\ \E r \in dbSignings : r.height = h
        /\ \A x \in Hashes : HeightOf[x] <= lastProcessedHeight =>
              \E r \in dbTxs : r.id = dbTxHash[x]

\* "The method will not throw an error if the block is missing, not found or there
\* is some query error, it will just return nil for the block" (GetFromToBlocks) and
\* "The method will not throw an error if the blocks are not found" (ProcessBlocks):
\* a block that cannot be fetched does not stop the process.
MissingBlockIsTolerated == alive

=============================================================================

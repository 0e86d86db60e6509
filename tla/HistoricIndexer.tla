---------------------------- MODULE HistoricIndexer ----------------------------
(***************************************************************************)
(* Historic mode: Orchestrator.HistoricProcess walks a fixed range of      *)
(* heights in chunks and returns.  A run that died or was interrupted is   *)
(* started again by its operator with the same range.                      *)
(***************************************************************************)
EXTENDS Pipeline

CONSTANTS FromHeight, ToHeight

\* InitMainOperator refuses a zero height and an inverted range.
ASSUME RangeAssumption ==
    FromHeight \in Heights /\ ToHeight \in Heights /\ FromHeight <= ToHeight

VARIABLES
    pc,                      \* where HistoricProcess is
    startHeight,             \* its loop variable
    currentProcessingHeight, \* what a state dump would report
    cancelled                \* the context of the signal handler is done

historicVars == <<pc, startHeight, currentProcessingHeight, cancelled>>
vars == <<pipelineVars, historicVars>>

Range == FromHeight .. ToHeight

\* Every variable of the historic indexer holds a value of its type.
TypeOK ==
    /\ PipelineTypeOK
    /\ pc \in {"loop", "chunk", "stopped", "completed"}
    /\ startHeight \in Uint /\ currentProcessingHeight \in Uint
    /\ cancelled \in BOOLEAN

Init ==
    /\ PipelineInit
    /\ head = MaxHeight
    /\ pc = "loop" /\ startHeight = FromHeight
    /\ currentProcessingHeight = FromHeight /\ cancelled = FALSE

-----------------------------------------------------------------------------

\* ctx.Done() is looked at once per chunk; nothing is saved.
HistoricInterrupted ==
    /\ alive /\ pc = "loop" /\ startHeight <= ToHeight /\ cancelled
    /\ pc' = "stopped"
    /\ UNCHANGED <<pipelineVars, startHeight, currentProcessingHeight, cancelled>>

HistoricChunkEnd ==
    MinOf(Sub(Add(startHeight, MaxBlockChunkSize), 1), ToHeight)

HistoricChunk ==
    /\ alive /\ pc = "loop" /\ startHeight <= ToHeight /\ ~cancelled
    /\ CallProcessChunk(startHeight, HistoricChunkEnd)
    /\ currentProcessingHeight' = startHeight
    /\ pc' = "chunk"
    /\ UNCHANGED <<startHeight, cancelled>>

HistoricChunkStep == ChunkStep /\ UNCHANGED historicVars

\* Mutant of HistoricChunkDone: the next chunk starts at the end of this one.
HistoricChunkDoneOverlaps ==
    /\ alive /\ pc = "chunk"
    /\ ProcessChunkReturned
    /\ currentProcessingHeight' = chunkEnd
    /\ startHeight' = chunkEnd
    /\ pc' = "loop"
    /\ UNCHANGED cancelled

\* An error would only be logged: the loop always goes on with the next chunk.
HistoricChunkDone ==
    /\ alive /\ pc = "chunk"
    /\ ProcessChunkReturned
    /\ currentProcessingHeight' = chunkEnd
    /\ startHeight' = Add(chunkEnd, 1)
    /\ pc' = "loop"
    /\ UNCHANGED cancelled

HistoricCompleted ==
    /\ alive /\ pc = "loop" /\ startHeight > ToHeight
    /\ pc' = "completed"
    /\ UNCHANGED <<pipelineVars, startHeight, currentProcessingHeight, cancelled>>

\* SIGINT or SIGTERM: the signal handler cancels the context.
Cancel ==
    /\ alive /\ pc \in {"loop", "chunk"} /\ ~cancelled /\ "signal" \in FaultKinds
    /\ cancelled' = TRUE
    /\ UNCHANGED <<pipelineVars, pc, startHeight, currentProcessingHeight>>

\* HistoricProcess was interrupted and the process ends.
HistoricStopped ==
    /\ alive /\ pc = "stopped"
    /\ Exit
    /\ UNCHANGED <<faults, historicVars>>

HistoricCrash == pc # "completed" /\ Crash /\ UNCHANGED historicVars

\* Mutant of Rerun: it resumes at the height the state dump reports.
RerunFromReportedHeight ==
    /\ Boot
    /\ pc' = "loop" /\ startHeight' = currentProcessingHeight
    /\ cancelled' = FALSE
    /\ UNCHANGED currentProcessingHeight

\* The operator runs the same range again.
Rerun ==
    /\ Boot
    /\ pc' = "loop" /\ startHeight' = FromHeight
    /\ currentProcessingHeight' = FromHeight /\ cancelled' = FALSE

\* The range is done and the program returns.
Terminated == pc = "completed" /\ UNCHANGED vars

Next ==
    \/ HistoricInterrupted \/ HistoricChunk \/ HistoricChunkStep
    \/ HistoricChunkDone \/ HistoricCompleted
    \/ Cancel \/ HistoricStopped \/ HistoricCrash \/ Rerun
    \/ Terminated

Spec == Init /\ [][Next]_vars

\* The Go scheduler runs every runnable goroutine and the operator reruns a
\* range that did not complete.
Fairness ==
    /\ WF_vars(HistoricChunk) /\ WF_vars(HistoricChunkStep)
    /\ WF_vars(HistoricChunkDone) /\ WF_vars(HistoricCompleted)
    /\ WF_vars(HistoricInterrupted) /\ WF_vars(HistoricStopped) /\ WF_vars(Rerun)

FairSpec == Spec /\ Fairness

-----------------------------------------------------------------------------

Indexed(x) ==
    \E r \in dbTxs : r.id = dbTxHash[x] /\ r.height = HeightOf[x]

HasMessages(x) ==
    \A t \in TablesOf[x] :
        \E m \in dbMsgs : m.table = t /\ m.id = dbTxHash[x] /\ m.height = HeightOf[x]

HasAddresses(x) == \A a \in AddrsOf[x] : Listed(x, a)

Signed(h) == \E r \in dbSignings : r.height = h

InRange == {x \in Hashes : HeightOf[x] \in Range \ BadHeights}

ChunkOf(h) == (h - FromHeight) \div MaxBlockChunkSize

SameChunk(h) == {g \in Range : ChunkOf(g) = ChunkOf(h)}

\* One hash or height of a block that does not parse costs the blocks rows of its
\* whole chunk, healthy neighbours included, and no other chunk's; a commit whose
\* height does not parse costs its own signing row.
BlockDefectsAreContained ==
    \A h \in Range :
        /\ h \in dbBlocks <=> SameChunk(h) \cap BadBlocks = {}
        /\ Signed(h) <=> h \notin BadCommits

\* A block without a height costs its own transactions, a hash that is not base64 its
\* transaction, a result that does not parse its row of transaction_general, and one
\* message that cannot be converted the messages and address_tx rows of its chunk.
TransactionDefectsAreContained ==
    \A x \in InRange :
        /\ Defect[x] \in {"none", "conversion"} => Indexed(x)
        /\ /\ Defect[x] # "base64"
           /\ \A y \in InRange : HeightOf[y] \in SameChunk(HeightOf[x]) => Defect[y] # "conversion"
           => HasMessages(x) /\ HasAddresses(x)

\* When no call failed, a completed range has lost what its defects cost and nothing
\* else, in any table and in any other chunk, however often it was interrupted and
\* run again.  (A transaction that does not decode ends every run: no range with one
\* completes.)
DefectsAreContained ==
    pc = "completed" /\ faults = 0 =>
        BlockDefectsAreContained /\ TransactionDefectsAreContained

\* Interrupting or killing a run and running the range again leaves no hole in
\* blocks and in validator_block_signing: each chunk's batch is in the table
\* entirely or not at all, and the rerun cuts the same chunks.
RerunRepairsBlocksAndSignings ==
    pc = "completed" =>
        /\ Range \subseteq dbBlocks
        /\ \A h \in Range : Signed(h)

\* Without database errors a recorded block has its proposer, so that the join of
\* blocks, signings and validators shows it, and a signer is recorded as id 0 only
\* in the last block of a chunk: the addresses are taken from LastCommit, which lags
\* one block behind the commits.
UnresolvedOnlyAtChunkEnd ==
    [][\A r \in dbSignings' \ dbSignings :
          /\ r.proposer = Proposer[r.height]
          /\ NoId \in r.signed => r.height = chunkEnd]_vars

\* The range is eventually completed, across crashes and failing calls.
Completes == <>(pc = "completed")

-----------------------------------------------------------------------------
(* A statement of the repository that the code does not keep *)

\* "Get all of the validators that signed that block" (docs/api.md): the signing
\* row of a block names every validator that signed it.
AllSignersRecorded ==
    \A r \in dbSignings : r.signed = Signers[r.height]

=============================================================================

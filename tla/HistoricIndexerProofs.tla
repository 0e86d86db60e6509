------------------------- MODULE HistoricIndexerProofs -------------------------
(***************************************************************************)
(* Theorems about historic mode, for every chain, range, chunk size and    *)
(* number of failures.                                                     *)
(***************************************************************************)
EXTENDS HistoricIndexer, PipelineProofs

\* processChunk runs only in a living process whose HistoricProcess waits for it.
ChunkOnlyInLoop == stage # "idle" => alive /\ pc = "chunk"

HistoricInv == TypeOK /\ PipelineInv /\ ChunkOnlyInLoop

\* The invariant of historic mode holds at the start.
LEMMA HistoricInit == Init => HistoricInv
<1> SUFFICES ASSUME Init PROVE HistoricInv
  OBVIOUS
<1>1. PipelineTypeOK /\ PipelineInv
  <2>1. head \in 0 .. MaxHeight
    BY SizeAssumption DEF Init
  <2> QED
    BY <2>1, InitFacts DEF Init
<1>2. startHeight \in Uint /\ currentProcessingHeight \in Uint
  BY SizeAssumption, RangeAssumption DEF Init, Uint, Heights
<1>3. cancelled \in BOOLEAN
  BY Zenon DEF Init
<1>4. ChunkOnlyInLoop
  BY DEF Init, PipelineInit, ChunkOnlyInLoop
<1> QED
  BY <1>1, <1>2, <1>3, <1>4 DEF Init, HistoricInv, TypeOK

\* The arguments of processChunk are uint64.
LEMMA HistoricArguments ==
    ASSUME TypeOK
    PROVE  HistoricChunkEnd \in Uint
<1>1. MaxBlockChunkSize \in Uint /\ 1 \in Uint /\ ToHeight \in Uint
  BY SizeAssumption, RangeAssumption DEF Uint, Heights
<1>2. Sub(Add(startHeight, MaxBlockChunkSize), 1) \in Uint
  BY <1>1, UintFacts DEF TypeOK
<1> QED
  BY <1>1, <1>2, UintFacts DEF HistoricChunkEnd

\* Every step of historic mode keeps its invariant.
LEMMA HistoricStep == HistoricInv /\ [Next]_vars => HistoricInv'
<1> SUFFICES ASSUME HistoricInv, [Next]_vars PROVE HistoricInv'
  OBVIOUS
<1> USE DEF HistoricInv, ChunkOnlyInLoop, TypeOK, historicVars
<1>1. CASE HistoricInterrupted \/ HistoricCompleted
  <2>1. PipelineTypeOK' /\ PipelineInv'
    BY <1>1, StutterFacts DEF HistoricInterrupted, HistoricCompleted
  <2> QED
    BY <1>1, <2>1 DEF HistoricInterrupted, HistoricCompleted, pipelineVars, chunkVars
<1>2. CASE HistoricChunk
  <2>1. CallProcessChunk(startHeight, HistoricChunkEnd) /\ stage = "idle"
    BY <1>2 DEF HistoricChunk
  <2>2. PipelineTypeOK' /\ PipelineInv'
    BY <2>1, HistoricArguments, CallFacts
  <2>3. alive'
    BY <1>2, <2>1 DEF HistoricChunk, CallProcessChunk
  <2> QED
    BY <1>2, <2>2, <2>3 DEF HistoricChunk
<1>3. CASE HistoricChunkStep
  <2>1. PipelineTypeOK' /\ PipelineInv'
    BY <1>3, ChunkStepTypeOK, ChunkStepInv DEF HistoricChunkStep
  <2> QED
    BY <1>3, <2>1, ChunkStepStaysInLoop DEF HistoricChunkStep
<1>4. CASE HistoricChunkDone
  <2>1. PipelineTypeOK' /\ PipelineInv'
    BY <1>4, ReturnFacts DEF HistoricChunkDone
  <2>2. chunkEnd \in Uint /\ 1 \in Uint
    BY SizeAssumption DEF PipelineTypeOK, Uint
  <2>3. Add(chunkEnd, 1) \in Uint
    BY <2>2, UintFacts
  <2> QED
    BY <1>4, <2>1, <2>2, <2>3 DEF HistoricChunkDone, ProcessChunkReturned
<1>5. CASE Cancel
  <2>1. PipelineTypeOK' /\ PipelineInv'
    BY <1>5, StutterFacts DEF Cancel
  <2>2. cancelled' \in BOOLEAN
    BY <1>5, Zenon DEF Cancel
  <2> QED
    BY <1>5, <2>1, <2>2 DEF Cancel, pipelineVars, chunkVars
<1>6. CASE HistoricStopped
  <2>1. PipelineTypeOK' /\ PipelineInv'
    <3>1. faults' \in 0 .. MaxFaults /\ (MayBeUnresolved => MayBeUnresolved')
      BY <1>6 DEF HistoricStopped, PipelineTypeOK, MayBeUnresolved
    <3> QED
      BY <1>6, <3>1, ExitTypeOK, ExitInv DEF HistoricStopped
  <2> QED
    BY <1>6, <2>1 DEF HistoricStopped, Exit
<1>7. CASE HistoricCrash
  BY <1>7, CrashFacts DEF HistoricCrash, Crash, Exit
<1>8. CASE Rerun
  <2>1. PipelineTypeOK' /\ PipelineInv'
    BY <1>8, BootFacts DEF Rerun, Boot
  <2>2. startHeight' \in Uint /\ currentProcessingHeight' \in Uint
    BY <1>8, SizeAssumption, RangeAssumption DEF Rerun, Uint, Heights
  <2>3. cancelled' \in BOOLEAN
    BY <1>8, Zenon DEF Rerun
  <2>4. stage' = "idle"
    BY <1>8 DEF Rerun, Boot, chunkVars
  <2> QED
    BY <1>8, <2>1, <2>2, <2>3, <2>4 DEF Rerun
<1>9. CASE Terminated \/ UNCHANGED vars
  <2>1. UNCHANGED pipelineVars /\ UNCHANGED historicVars /\ UNCHANGED <<stage, alive>>
    BY <1>9 DEF Terminated, vars, pipelineVars, chunkVars
  <2>2. PipelineTypeOK' /\ PipelineInv'
    BY <2>1, StutterFacts
  <2> QED
    BY <2>1, <2>2
<1> QED
  BY <1>1, <1>2, <1>3, <1>4, <1>5, <1>6, <1>7, <1>8, <1>9 DEF Next

\* The types, and what the pipeline promises of its tables, hold in historic mode.
THEOREM HistoricInvariant == Spec => []HistoricInv
  BY HistoricInit, HistoricStep, PTL DEF Spec

\* Every variable of the historic indexer keeps its type.
THEOREM HistoricTypeCorrect == Spec => []TypeOK
<1>1. HistoricInv => TypeOK
  BY DEF HistoricInv
<1> QED
  BY <1>1, HistoricInvariant, PTL

\* Also when a range is interrupted and run again, each row carries the tx_id of a
\* transaction of its block, a message row is listed under each address of its
\* transaction, or under id 0 once a database call may have failed, and an id in a row
\* is a recorded one.
THEOREM HistoricTablesAreJoinable ==
    Spec => [](RowsNameTheirTransaction /\ MessagesAreReachable /\ IdsAreRecorded)
<1>1. HistoricInv => RowsNameTheirTransaction /\ MessagesAreReachable /\ IdsAreRecorded
  BY DEF HistoricInv, PipelineInv
<1> QED
  BY <1>1, HistoricInvariant, PTL

-----------------------------------------------------------------------------
(* The goroutines of a chunk *)

\* The goroutines of a chunk: phase 2 is only reached when every block of the
\* chunk was fetched, and the chunk returns when the goroutines are done.
ProgressInv ==
    /\ blocks \subseteq ChunkHeights /\ commits \subseteq ChunkHeights
    /\ stage \notin {"phase2", "returned"} =>
         task["ProcessBlocks"] = "idle" /\ task["ProcessValidatorSignings"] = "idle"
    /\ stage = "phase1" =>
         \/ task["ProcessValidatorAddresses"] = "run"
         \/ task["ProcessValidatorAddresses"] = "done" /\ blocks = ChunkHeights
    /\ stage = "phase2" =>
         /\ blocks = ChunkHeights
         /\ task["ProcessBlocks"] \in {"run", "done"}
         /\ task["ProcessValidatorSignings"] \in {"run", "done"}
    /\ stage = "returned" =>
         task["ProcessBlocks"] # "run" /\ task["ProcessValidatorSignings"] # "run"

\* What a step of historic mode is to the pipeline.
LEMMA PipelineCases ==
    ASSUME [Next]_vars
    PROVE  \/ ChunkStep
           \/ pc = "loop" /\ CallProcessChunk(startHeight, HistoricChunkEnd)
           \/ ProcessChunkReturned
           \/ Exit
           \/ Boot
           \/ UNCHANGED pipelineVars
  BY DEF Next, vars, HistoricInterrupted, HistoricChunk, HistoricChunkStep, HistoricChunkDone,
         HistoricCompleted, Cancel, HistoricStopped, HistoricCrash, Crash, Rerun, Terminated

\* The goroutines of a chunk advance as the loop and the wait groups order them.
LEMMA ProgressInit == Init => ProgressInv
  BY DEF Init, PipelineInit, ProgressInv, Tasks, PhaseOne, PhaseTwo

\* Every step of historic mode keeps them in that order.
LEMMA ProgressStep == HistoricInv /\ ProgressInv /\ [Next]_vars => ProgressInv'
<1> SUFFICES ASSUME HistoricInv, ProgressInv, [Next]_vars PROVE ProgressInv'
  OBVIOUS
<1>0. PipelineTypeOK /\ (stage # "idle" => pc = "chunk")
  BY DEF HistoricInv, TypeOK, ChunkOnlyInLoop
<1> USE DEF ProgressInv, ChunkHeights
<1>1. CASE FetchRange
  <2>1. UNCHANGED <<chunkStart, chunkEnd, task>> /\ stage = "fetch" /\ stage' \in {"returned", "collect"}
    BY <1>1 DEF FetchRange
  <2>2. blocks' \subseteq ChunkHeights /\ commits' \subseteq ChunkHeights
    BY <1>1 DEF FetchRange
  <2> QED
    BY <2>1, <2>2
<1>2. CASE CollectTransactions
  BY <1>2, LaunchesEmptyToo DEF CollectTransactions
<1>3. CASE BeginPhaseTwo
  <2>1. task["ProcessValidatorAddresses"] # "run"
    BY <1>3 DEF BeginPhaseTwo, Finished, Tasks, PhaseOne, PhaseTwo
  <2> QED
    BY <1>3, <2>1, LaunchesEmptyToo DEF BeginPhaseTwo
<1>4. CASE ChunkReturns
  BY <1>4 DEF ChunkReturns, Finished, Tasks, PhaseOne, PhaseTwo
<1>5. CASE ProcessValidatorAddresses \/ ProcessBlocks \/ ProcessValidatorSignings
  BY <1>0, <1>5, OwnGoroutine DEF chunkVars
<1>6. CASE \/ ProcessTxHashIds \/ ProcessTransactions \/ ResolveMessages
           \/ InsertAddressTx \/ MessagesReturn
           \/ \E t \in MsgTables : InsertMessageBatch(t)
  <2>1. /\ UNCHANGED chunkVars
        /\ task'["ProcessValidatorAddresses"] = task["ProcessValidatorAddresses"]
        /\ task'["ProcessBlocks"] = task["ProcessBlocks"]
        /\ task'["ProcessValidatorSignings"] = task["ProcessValidatorSignings"]
    BY <1>0, <1>6, OtherGoroutines
  <2> QED
    BY <2>1 DEF chunkVars
<1>7. CASE Exit \/ ProcessChunkReturned
  BY <1>7, NothingRuns
<1>8. CASE pc = "loop" /\ CallProcessChunk(startHeight, HistoricChunkEnd)
  BY <1>0, <1>8 DEF CallProcessChunk
<1>9. CASE Boot \/ UNCHANGED pipelineVars
  BY <1>9 DEF Boot, pipelineVars, chunkVars
<1> QED
  BY <1>1, <1>2, <1>3, <1>4, <1>5, <1>6, <1>7, <1>8, <1>9, PipelineCases
  DEF ChunkStep, FetchPanics, NilBlockPanic, DecodeFatal

\* That order is an invariant of historic mode.
THEOREM ProgressInvariant == Spec => []ProgressInv
  BY ProgressInit, ProgressStep, HistoricInvariant, PTL DEF Spec

-----------------------------------------------------------------------------
(* Validators and the caches *)

\* What a chunk's validators need of the cache: its proposers and the signers of
\* the parent of each of its blocks.
Resolved ==
    \A h \in ChunkHeights :
        Proposer[h] \in validatorCache /\ Signers[h - 1] \subseteq validatorCache

\* Without database errors the chunk's validators are resolved before phase 2.
ResolvedInv ==
    /\ stage = "phase1" /\ task["ProcessValidatorAddresses"] = "done" => Resolved
    /\ stage = "phase2" => Resolved

\* Without database errors the solver caches all it is asked for.
LEMMA SolverResolves ==
    ASSUME "db" \notin FaultKinds, NEW requested, NEW cache, NEW table,
           NEW r \in AddressSolver(requested, cache, table)
    PROVE  requested \subseteq r.cache
  BY DEF AddressSolver, Outcomes, CanFail

\* Nothing is needed before the first chunk.
LEMMA ResolvedInit == Init => ResolvedInv
  BY DEF Init, PipelineInit, ResolvedInv

\* The cache has what the chunk needs from the end of ProcessValidatorAddresses on.
LEMMA ValidatorsStep ==
    ASSUME "db" \notin FaultKinds
    PROVE  HistoricInv /\ ProgressInv /\ ResolvedInv /\ [Next]_vars => ResolvedInv'
<1> SUFFICES ASSUME HistoricInv, ProgressInv, ResolvedInv, [Next]_vars PROVE ResolvedInv'
  OBVIOUS
<1>0. PipelineTypeOK /\ (stage # "idle" => alive)
  BY DEF HistoricInv, TypeOK, ChunkOnlyInLoop
<1> USE DEF ResolvedInv, ChunkHeights, Resolved
<1>1. CASE FetchRange \/ ChunkReturns
  BY <1>1 DEF FetchRange, ChunkReturns
<1>2. CASE CollectTransactions
  BY <1>2, LaunchesEmptyToo DEF CollectTransactions
<1>3. CASE BeginPhaseTwo
  <2>1. task["ProcessValidatorAddresses"] # "run"
    BY <1>3 DEF BeginPhaseTwo, Finished, Tasks, PhaseOne, PhaseTwo
  <2> QED
    BY <1>3, <2>1 DEF BeginPhaseTwo, ProgressInv, cacheVars
<1>4. CASE ProcessValidatorAddresses
  <2> DEFINE requested == (UNION {Signers[h - 1] : h \in blocks}) \cup {Proposer[h] : h \in blocks}
  <2>1. PICK r \in AddressSolver(requested, validatorCache, dbValidators) :
          validatorCache' = r.cache
    BY <1>4 DEF ProcessValidatorAddresses
  <2>2. requested \subseteq validatorCache'
    <3> HIDE DEF requested
    <3> QED
      BY <2>1, SolverResolves
  <2>3. blocks = ChunkHeights /\ UNCHANGED chunkVars
    BY <1>0, <1>4, OwnGoroutine
  <2>4. \A h \in blocks : Proposer[h] \in validatorCache' /\ Signers[h - 1] \subseteq validatorCache'
    BY <2>2
  <2> QED
    BY <2>3, <2>4 DEF chunkVars
<1>5. CASE ProcessBlocks \/ ProcessValidatorSignings
  BY <1>0, <1>5, OwnGoroutine DEF chunkVars
<1>6. CASE \/ ProcessTxHashIds \/ ProcessTransactions \/ ResolveMessages
           \/ InsertAddressTx \/ MessagesReturn
           \/ \E t \in MsgTables : InsertMessageBatch(t)
  <2>1. /\ UNCHANGED <<chunkVars, validatorCache>>
        /\ task'["ProcessValidatorAddresses"] = task["ProcessValidatorAddresses"]
    BY <1>0, <1>6, OtherGoroutines
  <2> QED
    BY <2>1 DEF chunkVars
<1>7. CASE Exit \/ ProcessChunkReturned
  BY <1>7, NothingRuns
<1>8. CASE CallProcessChunk(startHeight, HistoricChunkEnd)
  BY <1>8 DEF CallProcessChunk
<1>9. CASE Boot
  BY <1>0, <1>9 DEF Boot, chunkVars
<1>10. CASE UNCHANGED pipelineVars
  BY <1>10 DEF pipelineVars, chunkVars, cacheVars
<1> QED
  BY <1>1, <1>2, <1>3, <1>4, <1>5, <1>6, <1>7, <1>8, <1>9, <1>10, PipelineCases
  DEF ChunkStep, FetchPanics, NilBlockPanic, DecodeFatal

\* A new signing row names the proposer of its block, and all its signers when the
\* block is not the last of the chunk.
LEMMA NewSigningIsResolved ==
    ASSUME HistoricInv, ProgressInv, ResolvedInv, [Next]_vars
    PROVE  \A r \in dbSignings' \ dbSignings :
              /\ r.proposer = Proposer[r.height]
              /\ NoId \in r.signed => r.height = chunkEnd
<1>0. PipelineTypeOK
  BY DEF HistoricInv, TypeOK
<1>1. CASE ProcessValidatorSignings
  <2> SUFFICES ASSUME NEW r \in dbSignings' \ dbSignings
               PROVE  /\ r.proposer = Proposer[r.height]
                      /\ NoId \in r.signed => r.height = chunkEnd
    OBVIOUS
  <2>1. r \in SigningRows
    BY <1>0, <1>1, CopySteps
  <2>2. PICK h \in commits \ BadCommits :
          r = [height |-> h, proposer |-> GetAddress(validatorCache, Proposer[h]),
               signed |-> {GetAddress(validatorCache, v) : v \in Signers[h]}]
    BY <2>1 DEF SigningRows
  <2>3. Resolved /\ h \in ChunkHeights
    BY <1>0, <1>1, <2>2, OwnGoroutine DEF ProgressInv, ResolvedInv
  <2>4. r.proposer = Proposer[h] /\ r.height = h
    BY <2>2, <2>3 DEF Resolved, GetAddress
  <2>5. ASSUME h # chunkEnd PROVE NoId \notin r.signed
    <3>1. h \in Nat /\ h + 1 \in ChunkHeights /\ (h + 1) - 1 = h /\ h \in 0 .. MaxHeight
      BY <1>0, <2>2, <2>3, <2>5, SizeAssumption DEF ChunkHeights, PipelineTypeOK, Uint, Heights
    <3>2. Signers[h] \subseteq validatorCache
      BY <2>3, <3>1 DEF Resolved
    <3>3. r.signed = {GetAddress(validatorCache, v) : v \in Signers[h]}
      BY <2>2
    <3>4. NoId \notin Signers[h]
      BY <3>1, ChainAssumption
    <3> QED
      BY <3>2, <3>3, <3>4 DEF GetAddress
  <2> QED
    BY <2>4, <2>5
<1>2. CASE ProcessValidatorAddresses \/ ProcessBlocks
  BY <1>0, <1>2, OwnGoroutine DEF ProcessBlocks
<1>3. CASE \/ ProcessTxHashIds \/ ProcessTransactions \/ ResolveMessages
           \/ InsertAddressTx \/ MessagesReturn
           \/ \E t \in MsgTables : InsertMessageBatch(t)
  BY <1>0, <1>3, OtherGoroutines
<1>4. CASE FetchRange \/ CollectTransactions \/ BeginPhaseTwo \/ ChunkReturns
  BY <1>4 DEF FetchRange, CollectTransactions, BeginPhaseTwo, ChunkReturns, tables
<1>5. CASE Exit \/ ProcessChunkReturned
  BY <1>5, NothingRuns
<1>6. CASE CallProcessChunk(startHeight, HistoricChunkEnd) \/ Boot \/ UNCHANGED pipelineVars
  BY <1>6 DEF CallProcessChunk, Boot, pipelineVars, tables
<1> QED
  BY <1>1, <1>2, <1>3, <1>4, <1>5, <1>6, PipelineCases
  DEF ChunkStep, FetchPanics, NilBlockPanic, DecodeFatal

\* As long as the database answers, whatever the node does not answer and wherever a
\* run dies, a recorded block has its proposer and the 0 of an unknown signer stands
\* only in the last block of a chunk.
THEOREM HistoricUnresolvedOnlyAtChunkEnd ==
    ASSUME "db" \notin FaultKinds
    PROVE  Spec => UnresolvedOnlyAtChunkEnd
<1>1. HistoricInv /\ ProgressInv /\ ResolvedInv /\ [Next]_vars => ResolvedInv'
  BY ValidatorsStep
<1>2. HistoricInv /\ ProgressInv /\ ResolvedInv /\ [Next]_vars =>
        [\A r \in dbSignings' \ dbSignings :
            /\ r.proposer = Proposer[r.height]
            /\ NoId \in r.signed => r.height = chunkEnd]_vars
  BY NewSigningIsResolved
<1> QED
  BY <1>1, <1>2, HistoricInvariant, ProgressInvariant, ResolvedInit, PTL
  DEF Spec, UnresolvedOnlyAtChunkEnd

-----------------------------------------------------------------------------
(* The walk over the range *)

\* The walk over the range: the loop variable is at the start of a chunk or beyond
\* the range, and the chunk being processed starts there.
FirstHeight(k) == FromHeight + k * MaxBlockChunkSize

Chunk(k) == {h \in Range : FirstHeight(k) <= h /\ h < FirstHeight(k) + MaxBlockChunkSize}

WalkInv ==
    /\ head = MaxHeight
    /\ startHeight > ToHeight \/ \E k \in Nat : startHeight = FirstHeight(k)
    /\ pc = "completed" => startHeight > ToHeight
    /\ stage # "idle" =>
         /\ startHeight \in Range /\ chunkStart = startHeight
         /\ chunkEnd = MinOf((startHeight + MaxBlockChunkSize) - 1, ToHeight)

\* The chunks follow each other.
LEMMA FirstHeights ==
    ASSUME NEW k \in Nat
    PROVE  /\ FirstHeight(k) \in Nat /\ FromHeight <= FirstHeight(k)
           /\ FirstHeight(k + 1) = FirstHeight(k) + MaxBlockChunkSize
<1>1. FromHeight \in Nat /\ MaxBlockChunkSize \in Nat
  BY SizeAssumption, RangeAssumption DEF Heights
<1>2. k * MaxBlockChunkSize \in Nat
  BY <1>1
<1>3. (k + 1) * MaxBlockChunkSize = (k * MaxBlockChunkSize) + MaxBlockChunkSize
  BY <1>1
<1> QED
  BY <1>1, <1>2, <1>3 DEF FirstHeight

\* A chunk ends before a later one begins.
LEMMA ChunksAreApart ==
    ASSUME NEW i \in Nat, NEW j \in Nat, i < j
    PROVE  FirstHeight(i) + MaxBlockChunkSize <= FirstHeight(j)
<1>1. FromHeight \in Nat /\ MaxBlockChunkSize \in Nat
  BY SizeAssumption, RangeAssumption DEF Heights
<1>2. PICK d \in Nat : j = (i + 1) + d
  <2>1. j - (i + 1) \in Nat /\ j = (i + 1) + (j - (i + 1))
    OBVIOUS
  <2> QED
    BY <2>1
<1>3. d * MaxBlockChunkSize \in Nat
  BY <1>1
<1>4. j * MaxBlockChunkSize = (i * MaxBlockChunkSize) + MaxBlockChunkSize + (d * MaxBlockChunkSize)
  BY <1>1, <1>2
<1>5. i * MaxBlockChunkSize \in Nat
  BY <1>1
<1> QED
  BY <1>1, <1>3, <1>4, <1>5 DEF FirstHeight

\* The heights between a chunk's first and its end in the range are the chunk.
LEMMA ChunkIsInterval ==
    ASSUME NEW k \in Nat, FirstHeight(k) \in Range, MaxBlockChunkSize > 0
    PROVE  Chunk(k) = FirstHeight(k) .. MinOf((FirstHeight(k) + MaxBlockChunkSize) - 1, ToHeight)
<1>1. FromHeight \in Nat /\ ToHeight \in Nat /\ MaxBlockChunkSize \in Nat /\ FirstHeight(k) \in Nat
  BY SizeAssumption, RangeAssumption, FirstHeights DEF Heights
<1> QED
  BY <1>1 DEF Chunk, Range, MinOf

\* Two chunks have no height in common.
LEMMA OtherChunkIsElsewhere ==
    ASSUME NEW i \in Nat, NEW j \in Nat, i # j
    PROVE  Chunk(i) \cap Chunk(j) = {}
<1>1. /\ FirstHeight(i) \in Nat /\ FirstHeight(j) \in Nat /\ MaxBlockChunkSize \in Nat
      /\ Range \subseteq Nat
  BY FirstHeights, SizeAssumption, RangeAssumption DEF Range, Heights
<1> SUFFICES ASSUME NEW h \in Chunk(i), h \in Chunk(j) PROVE FALSE
  OBVIOUS
<1>2. /\ h \in Nat
      /\ FirstHeight(i) <= h /\ h < FirstHeight(i) + MaxBlockChunkSize
      /\ FirstHeight(j) <= h /\ h < FirstHeight(j) + MaxBlockChunkSize
  BY <1>1 DEF Chunk
<1>3. i < j => FirstHeight(i) + MaxBlockChunkSize <= FirstHeight(j)
  BY ChunksAreApart
<1>4. j < i => FirstHeight(j) + MaxBlockChunkSize <= FirstHeight(i)
  BY ChunksAreApart
<1>5. i < j \/ j < i
  OBVIOUS
<1> QED
  BY <1>1, <1>2, <1>3, <1>4, <1>5

\* In the range the uint64 arithmetic of the loop does not wrap.
LEMMA HistoricBounds ==
    ASSUME startHeight \in Range, MaxBlockChunkSize > 0
    PROVE  /\ HistoricChunkEnd = MinOf((startHeight + MaxBlockChunkSize) - 1, ToHeight)
           /\ HistoricChunkEnd \in Range /\ startHeight <= HistoricChunkEnd
           /\ Add(HistoricChunkEnd, 1) = HistoricChunkEnd + 1
<1>1. /\ FromHeight \in Nat /\ ToHeight \in Nat /\ MaxBlockChunkSize \in Nat /\ Modulus \in Nat
      /\ (ToHeight + MaxBlockChunkSize) + 1 < Modulus
  BY SizeAssumption, RangeAssumption DEF Heights
<1>2. Sub(Add(startHeight, MaxBlockChunkSize), 1) = (startHeight + MaxBlockChunkSize) - 1
  BY <1>1 DEF Range, Add, Sub
<1> QED
  BY <1>1, <1>2 DEF HistoricChunkEnd, Range, MinOf, Add

\* The walk begins at the first chunk.
LEMMA WalkInit == Init => WalkInv
<1> SUFFICES ASSUME Init PROVE WalkInv
  OBVIOUS
<1>1. FirstHeight(0) = FromHeight
  BY SizeAssumption, RangeAssumption DEF FirstHeight, Heights
<1> QED
  BY <1>1 DEF Init, PipelineInit, WalkInv

\* Each step of historic mode stays on it.
LEMMA WalkStep ==
    ASSUME MaxBlockChunkSize > 0
    PROVE  HistoricInv /\ WalkInv /\ [Next]_vars => WalkInv'
<1> SUFFICES ASSUME HistoricInv, WalkInv, [Next]_vars PROVE WalkInv'
  OBVIOUS
<1>0. stage # "idle" => alive /\ pc = "chunk"
  BY DEF HistoricInv, ChunkOnlyInLoop
<1> USE DEF WalkInv, historicVars
<1>1. CASE \/ HistoricInterrupted \/ HistoricCompleted \/ Cancel \/ Terminated \/ UNCHANGED vars
  <2>1. UNCHANGED pipelineVars /\ startHeight' = startHeight
    BY <1>1 DEF HistoricInterrupted, HistoricCompleted, Cancel, Terminated, vars
  <2>2. pc' = "completed" => startHeight > ToHeight
    BY <1>1 DEF HistoricInterrupted, HistoricCompleted, Cancel, Terminated, vars
  <2> QED
    BY <2>1, <2>2 DEF pipelineVars, chunkVars
<1>2. CASE HistoricChunk
  <2>1. PICK k \in Nat : startHeight = FirstHeight(k)
    BY <1>2, RangeAssumption DEF HistoricChunk, HistoricInv, TypeOK, Heights, Uint
  <2>2. startHeight \in Range
    BY <1>2, <2>1, FirstHeights, RangeAssumption DEF HistoricChunk, Range, Heights
  <2>3. HistoricChunkEnd = MinOf((startHeight + MaxBlockChunkSize) - 1, ToHeight)
    BY <2>2, HistoricBounds
  <2> QED
    BY <1>2, <2>2, <2>3 DEF HistoricChunk, CallProcessChunk
<1>3. CASE HistoricChunkStep
  <2>1. head' = head /\ (stage' = "idle" \/ UNCHANGED <<chunkStart, chunkEnd>>)
    BY <1>3, ChunkStays DEF HistoricChunkStep
  <2>2. stage' # "idle" => stage # "idle"
    BY <1>3, ChunkStepStaysInLoop DEF HistoricChunkStep
  <2> QED
    BY <1>3, <2>1, <2>2 DEF HistoricChunkStep
<1>4. CASE HistoricChunkDone
  <2>1. stage = "returned" /\ stage' = "idle" /\ head' = head /\ pc' = "loop"
    BY <1>4 DEF HistoricChunkDone, ProcessChunkReturned
  <2>2. startHeight \in Range /\ chunkEnd = MinOf((startHeight + MaxBlockChunkSize) - 1, ToHeight)
    BY <2>1
  <2>3. startHeight' = chunkEnd + 1
    BY <1>4, <2>2, HistoricBounds DEF HistoricChunkDone
  <2>4. CASE chunkEnd = ToHeight
    BY <2>1, <2>3, <2>4, RangeAssumption DEF Heights
  <2>5. CASE chunkEnd # ToHeight
    <3>1. PICK k \in Nat : startHeight = FirstHeight(k)
      BY <2>2, RangeAssumption DEF Range, Heights
    <3>2. chunkEnd = (startHeight + MaxBlockChunkSize) - 1
      BY <2>2, <2>5 DEF MinOf
    <3>3. startHeight' = FirstHeight(k + 1)
      BY <2>3, <3>1, <3>2, FirstHeights, SizeAssumption
    <3>4. k + 1 \in Nat
      OBVIOUS
    <3> QED
      BY <2>1, <3>3, <3>4
  <2> QED
    BY <2>4, <2>5
<1>5. CASE HistoricStopped \/ HistoricCrash
  BY <1>5 DEF HistoricStopped, HistoricCrash, Crash, Exit
<1>6. CASE Rerun
  <2>1. FirstHeight(0) = FromHeight
    BY SizeAssumption, RangeAssumption DEF FirstHeight, Heights
  <2>2. stage' = "idle" /\ head' = head
    BY <1>0, <1>6 DEF Rerun, Boot, chunkVars
  <2> QED
    BY <1>6, <2>1, <2>2 DEF Rerun
<1> QED
  BY <1>1, <1>2, <1>3, <1>4, <1>5, <1>6 DEF Next

\* The walk is an invariant of historic mode.
THEOREM WalkInvariant ==
    ASSUME MaxBlockChunkSize > 0
    PROVE  Spec => []WalkInv
<1>1. HistoricInv /\ WalkInv /\ [Next]_vars => WalkInv'
  BY WalkStep
<1> QED
  BY <1>1, WalkInit, HistoricInvariant, PTL DEF Spec

-----------------------------------------------------------------------------
(* Crash recovery, and the defects of blocks *)

\* What a chunk's two COPYs write: one bad hash or height rejects the blocks of the
\* whole chunk, one bad commit is skipped.
BlockRows(heights) == {h \in heights : heights \cap BadBlocks = {}}

SignedRows(heights) == heights \ BadCommits

BlockBatch == [k \in Nat |-> BlockRows(Chunk(k))]

SigningBatch == [k \in Nat |-> SignedRows(Chunk(k))]

\* Each chunk's batch is in the table entirely or not at all, and nothing else is.
WholeBatches(stored, batch) ==
    \A k \in Nat : Chunk(k) \cap stored = {} \/ Chunk(k) \cap stored = batch[k]

SignedHeights == {r.height : r \in dbSignings}

\* Neither the node nor the database failed to answer.
NoCallFailed == faults = 0 \/ ("db" \notin FaultKinds /\ "rpc" \notin FaultKinds)

\* The batches of all chunks below the loop variable are stored.
BehindIsStored ==
    \A k \in Nat : FirstHeight(k) < startHeight =>
        BlockBatch[k] \subseteq dbBlocks /\ SigningBatch[k] \subseteq SignedHeights

\* The chunk being processed is fetched whole, and its batch is stored once the
\* goroutine that stores it is done.
CurrentIsStored ==
    /\ stage \in {"collect", "phase1", "phase2"} =>
         blocks = ChunkHeights /\ commits = ChunkHeights
    /\ task["ProcessBlocks"] = "done" => BlockRows(ChunkHeights) \subseteq dbBlocks
    /\ task["ProcessValidatorSignings"] = "done" =>
         SignedRows(ChunkHeights) \subseteq SignedHeights
    /\ stage = "returned" =>
         task["ProcessBlocks"] = "done" /\ task["ProcessValidatorSignings"] = "done"

StoredInv ==
    NoCallFailed =>
        /\ WholeBatches(dbBlocks, BlockBatch) /\ WholeBatches(SignedHeights, SigningBatch)
        /\ BehindIsStored /\ CurrentIsStored

\* Only the process fails, and the blocks and commits of the range parse.
OnlyTheProcessFails ==
    /\ "db" \notin FaultKinds /\ "rpc" \notin FaultKinds
    /\ (BadBlocks \cup BadCommits) \cap Range = {} /\ MaxBlockChunkSize > 0

\* The chunk that is being processed is one of the walk.
LEMMA CurrentChunk ==
    ASSUME MaxBlockChunkSize > 0, WalkInv, stage # "idle"
    PROVE  /\ \E k \in Nat : ChunkHeights = Chunk(k)
           /\ ChunkHeights \subseteq Range /\ ChunkHeights # {}
           /\ ChunkLength \in Nat \ {0}
<1>1. startHeight \in Range /\ FromHeight \in Nat /\ ToHeight \in Nat
  BY RangeAssumption DEF WalkInv, Heights
<1>2. PICK k \in Nat : startHeight = FirstHeight(k)
  BY <1>1 DEF WalkInv, Range
<1>3. ChunkHeights = Chunk(k)
  BY <1>1, <1>2, ChunkIsInterval DEF WalkInv, ChunkHeights
<1>4. chunkStart \in Nat /\ chunkEnd \in Nat /\ chunkStart <= chunkEnd /\ chunkEnd < Modulus - 1
  BY <1>1, SizeAssumption, RangeAssumption DEF WalkInv, Range, Heights, MinOf
<1>5. ChunkLength = (chunkEnd - chunkStart) + 1
  BY <1>4, SizeAssumption DEF ChunkLength, Add, Sub
<1>6. chunkStart \in ChunkHeights
  BY <1>4 DEF ChunkHeights
<1> QED
  BY <1>3, <1>4, <1>5, <1>6 DEF Chunk

\* A chunk that begins between the loop variable and the end of the chunk being
\* processed is that chunk.
LEMMA CurrentStartsAt ==
    ASSUME MaxBlockChunkSize > 0, WalkInv, stage # "idle", NEW k \in Nat,
           chunkStart <= FirstHeight(k), FirstHeight(k) <= chunkEnd
    PROVE  ChunkHeights = Chunk(k)
<1>1. FirstHeight(k) \in ChunkHeights
  BY FirstHeights, RangeAssumption DEF ChunkHeights, WalkInv, Range, Heights
<1>2. PICK j \in Nat : ChunkHeights = Chunk(j)
  BY CurrentChunk
<1>3. FirstHeight(k) \in Chunk(k)
  <2>1. FirstHeight(k) \in Range
    BY <1>1, <1>2 DEF Chunk
  <2>2. FirstHeight(k) < FirstHeight(k) + MaxBlockChunkSize /\ FirstHeight(k) <= FirstHeight(k)
    BY FirstHeights, SizeAssumption
  <2> QED
    BY <2>1, <2>2 DEF Chunk
<1> QED
  BY <1>1, <1>2, <1>3, OtherChunkIsElsewhere

\* Storing a chunk's batch keeps the others whole.
LEMMA StoringABatch ==
    ASSUME NEW stored, NEW batch, WholeBatches(stored, batch), NEW k \in Nat,
           batch[k] \subseteq Chunk(k)
    PROVE  /\ WholeBatches(stored \cup batch[k], batch)
           /\ batch[k] \cap stored # {} => stored \cup batch[k] = stored
<1>1. ASSUME NEW i \in Nat
      PROVE  \/ Chunk(i) \cap (stored \cup batch[k]) = {}
             \/ Chunk(i) \cap (stored \cup batch[k]) = batch[i]
  <2>1. Chunk(i) \cap stored = {} \/ Chunk(i) \cap stored = batch[i]
    BY DEF WholeBatches
  <2>2. CASE i = k
    BY <2>1, <2>2
  <2>3. CASE i # k
    <3>1. Chunk(i) \cap batch[k] = {}
      BY <2>3, OtherChunkIsElsewhere
    <3> QED
      BY <2>1, <3>1
  <2> QED
    BY <2>2, <2>3
<1>2. Chunk(k) \cap stored = {} \/ Chunk(k) \cap stored = batch[k]
  BY DEF WholeBatches
<1> QED
  BY <1>1, <1>2 DEF WholeBatches

\* A COPY that is answered writes its rows or rejects them.
LEMMA AnsweredCopy ==
    ASSUME PipelineTypeOK, NoCallFailed', NEW table, NEW rows, NEW rejected,
           NEW r \in CopyFrom(table, rows, rejected), faults' = faults + r.fault
    PROVE  /\ rejected => r.table = table
           /\ ~rejected => r.table = table \cup rows
<1>1. CASE r = [table |-> IF rejected THEN table ELSE table \cup rows, ok |-> ~rejected, fault |-> 0]
  BY <1>1
<1>2. CASE CanFail("db") /\ \E t : r = [table |-> t, ok |-> FALSE, fault |-> 1]
  <2>1. faults \in Nat /\ faults' = faults + 1 /\ "db" \in FaultKinds
    BY <1>2, SizeAssumption DEF PipelineTypeOK, CanFail
  <2> QED
    BY <2>1 DEF NoCallFailed
<1> QED
  BY <1>1, <1>2, Zenon DEF CopyFrom

\* ProcessBlocks leaves the chunk's batch in blocks: its COPY goes through, or is
\* rejected because of a bad block or because a run that ended later has stored it.
LEMMA BlocksAreStored ==
    ASSUME MaxBlockChunkSize > 0, HistoricInv, ProgressInv, WalkInv,
           WholeBatches(dbBlocks, BlockBatch), NoCallFailed', ProcessBlocks
    PROVE  \E k \in Nat : /\ ChunkHeights = Chunk(k)
                          /\ dbBlocks' = dbBlocks \cup BlockBatch[k]
<1>0. PipelineTypeOK
  BY DEF HistoricInv, TypeOK
<1>1. stage = "phase2" /\ blocks = ChunkHeights
  BY <1>0, OwnGoroutine DEF ProgressInv
<1>2. PICK k \in Nat : ChunkHeights = Chunk(k)
  BY <1>1, CurrentChunk
<1> DEFINE rejected == blocks \cap (dbBlocks \cup BadBlocks) # {}
<1>3. dbBlocks' = IF rejected THEN dbBlocks ELSE dbBlocks \cup blocks
  <2>1. PICK r \in CopyFrom(dbBlocks, blocks, rejected) :
          dbBlocks' = r.table /\ faults' = faults + r.fault
    BY DEF ProcessBlocks
  <2>2. (rejected => r.table = dbBlocks) /\ (~rejected => r.table = dbBlocks \cup blocks)
    BY <1>0, <2>1, AnsweredCopy
  <2> QED
    BY <2>1, <2>2
<1>4. BlockBatch[k] = {h \in Chunk(k) : Chunk(k) \cap BadBlocks = {}}
  BY DEF BlockBatch, BlockRows
<1>5. BlockBatch[k] \cap dbBlocks # {} => dbBlocks \cup BlockBatch[k] = dbBlocks
  BY <1>4, StoringABatch
<1>6. CASE Chunk(k) \cap BadBlocks # {}
  BY <1>1, <1>2, <1>3, <1>4, <1>6
<1>7. CASE Chunk(k) \cap BadBlocks = {}
  <2>1. BlockBatch[k] = Chunk(k) /\ (rejected <=> Chunk(k) \cap dbBlocks # {})
    BY <1>1, <1>2, <1>4, <1>7
  <2> QED
    BY <1>1, <1>2, <1>3, <1>5, <2>1
<1> QED
  BY <1>6, <1>7

\* A signing row of the chunk is in the table already.
Conflict == \E a \in SigningRows, b \in dbSignings : a.height = b.height

\* ProcessValidatorSignings does the same for the signings.
LEMMA SigningsAreStored ==
    ASSUME MaxBlockChunkSize > 0, HistoricInv, ProgressInv, WalkInv, CurrentIsStored,
           WholeBatches(SignedHeights, SigningBatch), NoCallFailed', ProcessValidatorSignings
    PROVE  \E k \in Nat : /\ ChunkHeights = Chunk(k)
                          /\ SignedHeights' = SignedHeights \cup SigningBatch[k]
<1>0. PipelineTypeOK
  BY DEF HistoricInv, TypeOK
<1>1. stage = "phase2" /\ commits = ChunkHeights
  BY <1>0, OwnGoroutine DEF ProgressInv, CurrentIsStored
<1>2. PICK k \in Nat : ChunkHeights = Chunk(k)
  BY <1>1, CurrentChunk
<1>3. SigningBatch[k] = commits \ BadCommits /\ SigningBatch[k] \subseteq Chunk(k)
  BY <1>1, <1>2 DEF SigningBatch, SignedRows
<1>4. {r.height : r \in SigningRows} = SigningBatch[k]
  <2>1. \A r \in SigningRows : r.height \in SigningBatch[k]
    BY <1>3 DEF SigningRows
  <2>2. ASSUME NEW h \in SigningBatch[k] PROVE \E r \in SigningRows : r.height = h
    <3> DEFINE row == [height |-> h, proposer |-> GetAddress(validatorCache, Proposer[h]),
                       signed |-> {GetAddress(validatorCache, v) : v \in Signers[h]}]
    <3>1. row \in SigningRows
      BY <1>3, <2>2 DEF SigningRows
    <3> QED
      BY <3>1
  <2> QED
    BY <2>1, <2>2
<1>5. Conflict => SigningBatch[k] \cap SignedHeights # {}
  BY <1>4 DEF SignedHeights, Conflict
<1>6. dbSignings' = IF Conflict THEN dbSignings ELSE dbSignings \cup SigningRows
  <2>1. PICK r \in CopyFrom(dbSignings, SigningRows, Conflict) :
          dbSignings' = r.table /\ faults' = faults + r.fault
    BY DEF ProcessValidatorSignings, Conflict
  <2>2. /\ Conflict => r.table = dbSignings
        /\ ~Conflict => r.table = dbSignings \cup SigningRows
    BY <1>0, <2>1, AnsweredCopy
  <2> QED
    BY <2>1, <2>2
<1>7. SigningBatch[k] \cap SignedHeights # {} => SignedHeights \cup SigningBatch[k] = SignedHeights
  BY <1>3, StoringABatch
<1>8. CASE Conflict
  BY <1>2, <1>5, <1>6, <1>7, <1>8 DEF SignedHeights
<1>9. CASE ~Conflict
  <2>1. SignedHeights' = SignedHeights \cup {r.height : r \in SigningRows}
    BY <1>6, <1>9 DEF SignedHeights
  <2> QED
    BY <1>2, <1>4, <2>1
<1> QED
  BY <1>8, <1>9

\* Nothing is stored at first.
LEMMA StoredInit == Init => StoredInv
<1> SUFFICES ASSUME Init PROVE StoredInv
  OBVIOUS
<1>1. dbBlocks = {} /\ SignedHeights = {} /\ startHeight = FromHeight /\ stage = "idle"
  BY DEF Init, PipelineInit, SignedHeights
<1>2. \A k \in Nat : ~(FirstHeight(k) < startHeight)
  BY <1>1, FirstHeights, RangeAssumption DEF Heights
<1>3. task["ProcessBlocks"] = "idle" /\ task["ProcessValidatorSignings"] = "idle"
  BY DEF Init, PipelineInit, Tasks, PhaseOne, PhaseTwo
<1> QED
  BY <1>1, <1>2, <1>3 DEF StoredInv, WholeBatches, BehindIsStored, CurrentIsStored

\* A call that failed stays counted.
LEMMA FailuresStay ==
    ASSUME HistoricInv, [Next]_vars, NoCallFailed'
    PROVE  NoCallFailed
<1>1. PipelineTypeOK /\ faults \in Nat
  BY SizeAssumption DEF HistoricInv, TypeOK, PipelineTypeOK
<1>2. faults' = 0 => faults = 0
  <2>1. CASE ChunkStep
    BY <1>1, <2>1, FaultsStay
  <2>2. CASE ~ChunkStep
    <3>1. faults' = faults \/ faults' = faults + 1
      BY <2>2
      DEF Next, vars, pipelineVars, HistoricInterrupted, HistoricChunk, CallProcessChunk,
          HistoricChunkStep, HistoricChunkDone, ProcessChunkReturned, HistoricCompleted, Cancel,
          HistoricStopped, HistoricCrash, Crash, Rerun, Boot, Terminated
    <3> QED
      BY <1>1, <3>1
  <2> QED
    BY <2>1, <2>2
<1> QED
  BY <1>2 DEF NoCallFailed

\* A step of processChunk stores a whole batch, or none of it.
LEMMA StoredChunkStep ==
    ASSUME MaxBlockChunkSize > 0, HistoricInv, ProgressInv, WalkInv,
           WholeBatches(dbBlocks, BlockBatch), WholeBatches(SignedHeights, SigningBatch),
           CurrentIsStored, NoCallFailed', ChunkStep
    PROVE  /\ dbBlocks \subseteq dbBlocks' /\ WholeBatches(dbBlocks', BlockBatch)
           /\ SignedHeights \subseteq SignedHeights' /\ WholeBatches(SignedHeights', SigningBatch)
           /\ CurrentIsStored'
<1>0. PipelineTypeOK
  BY DEF HistoricInv, TypeOK
<1> USE DEF CurrentIsStored, chunkVars
<1>1. CASE Exit
  <2>1. /\ UNCHANGED <<dbBlocks, dbSignings>> /\ stage' = "idle"
        /\ task'["ProcessBlocks"] = "idle" /\ task'["ProcessValidatorSignings"] = "idle"
    BY <1>1, NothingRuns DEF Exit, tables
  <2> QED
    BY <2>1 DEF SignedHeights
<1>2. CASE FetchRange
  <2>1. /\ stage = "fetch" /\ UNCHANGED <<chunkStart, chunkEnd, task, dbBlocks, dbSignings>>
        /\ stage' = IF ChunkLength < 1 THEN "returned" ELSE "collect"
    BY <1>2 DEF FetchRange, tables
  <2>2. ChunkHeights \subseteq Range /\ ChunkLength \in Nat \ {0} /\ head = MaxHeight
    BY <2>1, CurrentChunk DEF WalkInv
  <2>3. ChunkHeights \cap (1 .. head) = ChunkHeights
    <3>1. Range \subseteq 1 .. head
      BY <2>2, SizeAssumption, RangeAssumption DEF Range, Heights
    <3> QED
      BY <2>2, <3>1
  <2>4. ~(CanFail("rpc") /\ faults' = faults + 1)
    <3>1. faults \in Nat
      BY <1>0, SizeAssumption DEF PipelineTypeOK
    <3> QED
      BY <3>1 DEF NoCallFailed, CanFail
  <2>5. blocks' = ChunkHeights /\ commits' = ChunkHeights
    <3>1. blocks' = ChunkHeights \cap (1 .. head) /\ commits' = ChunkHeights \cap (1 .. head)
      BY <1>2, <2>4 DEF FetchRange
    <3> QED
      BY <2>3, <3>1
  <2>6. stage' = "collect" /\ ChunkHeights' = ChunkHeights
    BY <2>1, <2>2 DEF ChunkHeights
  <2>7. task["ProcessBlocks"] = "idle" /\ task["ProcessValidatorSignings"] = "idle"
    BY <2>1 DEF ProgressInv
  <2> QED
    BY <2>1, <2>5, <2>6, <2>7 DEF SignedHeights
<1>3. CASE CollectTransactions \/ BeginPhaseTwo
  <2>1. /\ UNCHANGED <<chunkStart, chunkEnd, blocks, commits, dbBlocks, dbSignings>>
        /\ stage \in {"collect", "phase1"} /\ stage' \in {"phase1", "phase2"}
        /\ task'["ProcessBlocks"] # "done" /\ task'["ProcessValidatorSignings"] # "done"
    BY <1>3, LaunchesEmptyToo DEF CollectTransactions, BeginPhaseTwo, tables
  <2> QED
    BY <2>1 DEF SignedHeights, ChunkHeights
<1>4. CASE ChunkReturns
  <2>1. /\ UNCHANGED <<chunkStart, chunkEnd, task, dbBlocks, dbSignings>>
        /\ stage = "phase2" /\ stage' = "returned"
    BY <1>4 DEF ChunkReturns, tables
  <2>2. task["ProcessBlocks"] = "done" /\ task["ProcessValidatorSignings"] = "done"
    BY <1>4 DEF ChunkReturns, ProgressInv, Finished, Tasks, PhaseOne, PhaseTwo
  <2> QED
    BY <2>1, <2>2 DEF SignedHeights, ChunkHeights
<1>5. CASE ProcessBlocks
  <2>1. PICK k \in Nat : ChunkHeights = Chunk(k) /\ dbBlocks' = dbBlocks \cup BlockBatch[k]
    BY <1>5, BlocksAreStored
  <2>2. BlockBatch[k] = BlockRows(ChunkHeights) /\ BlockBatch[k] \subseteq Chunk(k)
    BY <2>1 DEF BlockBatch, BlockRows
  <2>3. WholeBatches(dbBlocks', BlockBatch)
    BY <2>1, <2>2, StoringABatch
  <2>4. /\ UNCHANGED <<stage, chunkStart, chunkEnd, blocks, commits, dbSignings>>
        /\ task'["ProcessValidatorSignings"] = task["ProcessValidatorSignings"]
        /\ stage # "returned"
    BY <1>0, <1>5, OwnGoroutine DEF ProgressInv
  <2> QED
    BY <2>1, <2>2, <2>3, <2>4 DEF SignedHeights, ChunkHeights, BlockRows, SignedRows
<1>6. CASE ProcessValidatorSignings
  <2>1. PICK k \in Nat : /\ ChunkHeights = Chunk(k)
                         /\ SignedHeights' = SignedHeights \cup SigningBatch[k]
    BY <1>6, SigningsAreStored
  <2>2. SigningBatch[k] = SignedRows(ChunkHeights) /\ SigningBatch[k] \subseteq Chunk(k)
    BY <2>1 DEF SigningBatch, SignedRows
  <2>3. WholeBatches(SignedHeights', SigningBatch)
    BY <2>1, <2>2, StoringABatch
  <2>4. /\ UNCHANGED <<stage, chunkStart, chunkEnd, blocks, commits, dbBlocks>>
        /\ task'["ProcessBlocks"] = task["ProcessBlocks"]
        /\ stage # "returned"
    BY <1>0, <1>6, OwnGoroutine DEF ProgressInv
  <2> QED
    BY <2>1, <2>2, <2>3, <2>4 DEF ChunkHeights, BlockRows, SignedRows
<1>7. CASE \/ ProcessValidatorAddresses \/ ProcessTxHashIds \/ ProcessTransactions
           \/ ResolveMessages \/ InsertAddressTx \/ MessagesReturn
           \/ \E t \in MsgTables : InsertMessageBatch(t)
  <2>1. /\ UNCHANGED <<chunkVars, dbBlocks, dbSignings>>
        /\ task'["ProcessBlocks"] = task["ProcessBlocks"]
        /\ task'["ProcessValidatorSignings"] = task["ProcessValidatorSignings"]
    BY <1>0, <1>7, OtherGoroutines, OwnGoroutine
  <2> QED
    BY <2>1 DEF SignedHeights, ChunkHeights, BlockRows, SignedRows
<1> QED
  BY <1>1, <1>2, <1>3, <1>4, <1>5, <1>6, <1>7
  DEF ChunkStep, FetchPanics, NilBlockPanic, DecodeFatal

\* Every step of historic mode leaves whole batches, those of all chunks below the
\* loop variable among them.
LEMMA StoredStep ==
    ASSUME MaxBlockChunkSize > 0
    PROVE  HistoricInv /\ ProgressInv /\ WalkInv /\ StoredInv /\ [Next]_vars => StoredInv'
<1> SUFFICES ASSUME HistoricInv, ProgressInv, WalkInv, StoredInv, [Next]_vars, NoCallFailed'
             PROVE  /\ WholeBatches(dbBlocks', BlockBatch)
                    /\ WholeBatches(SignedHeights', SigningBatch)
                    /\ BehindIsStored' /\ CurrentIsStored'
  BY DEF StoredInv, WholeBatches, BlockBatch, SigningBatch, BlockRows, SignedRows, Chunk, Range,
         FirstHeight
<1>0. /\ WholeBatches(dbBlocks, BlockBatch) /\ WholeBatches(SignedHeights, SigningBatch)
      /\ BehindIsStored /\ CurrentIsStored
  BY FailuresStay DEF StoredInv
<1>a. stage # "idle" => alive /\ pc = "chunk"
  BY DEF HistoricInv, ChunkOnlyInLoop
<1>b. ASSUME NEW next, next = startHeight',
             dbBlocks \subseteq dbBlocks', SignedHeights \subseteq SignedHeights',
             \A k \in Nat : FirstHeight(k) < next => 
                \/ FirstHeight(k) < startHeight
                \/ BlockBatch[k] \subseteq dbBlocks /\ SigningBatch[k] \subseteq SignedHeights
      PROVE  BehindIsStored'
  <2>1. \A k \in Nat : FirstHeight(k) < next =>
          BlockBatch[k] \subseteq dbBlocks' /\ SigningBatch[k] \subseteq SignedHeights'
    BY <1>0, <1>b DEF BehindIsStored
  <2> QED
    BY <1>b, <2>1
    DEF BehindIsStored, BlockBatch, SigningBatch, BlockRows, SignedRows, Chunk, Range, FirstHeight
<1>1. CASE \/ HistoricInterrupted \/ HistoricCompleted \/ Cancel \/ Terminated \/ UNCHANGED vars
  <2>1. UNCHANGED pipelineVars /\ startHeight' = startHeight
    BY <1>1 DEF HistoricInterrupted, HistoricCompleted, Cancel, Terminated, vars, historicVars
  <2>2. /\ UNCHANGED <<stage, chunkStart, chunkEnd, blocks, commits, task, dbBlocks, dbSignings>>
    BY <2>1 DEF pipelineVars, chunkVars, tables
  <2>3. CurrentIsStored'
    BY <1>0, <2>2 DEF CurrentIsStored, ChunkHeights, SignedHeights, BlockRows, SignedRows
  <2>4. SignedHeights' = SignedHeights
    BY <2>2 DEF SignedHeights
  <2> QED
    BY <1>0, <1>b, <2>1, <2>2, <2>3, <2>4
<1>2. CASE HistoricChunk
  <2>1. /\ stage = "idle" /\ stage' = "fetch" /\ UNCHANGED <<task, dbBlocks, dbSignings>>
        /\ startHeight' = startHeight
    BY <1>a, <1>2 DEF HistoricChunk, CallProcessChunk, tables
  <2>2. task["ProcessBlocks"] = "idle" /\ task["ProcessValidatorSignings"] = "idle"
    BY <2>1 DEF ProgressInv
  <2>3. CurrentIsStored'
    BY <2>1, <2>2 DEF CurrentIsStored
  <2>4. SignedHeights' = SignedHeights
    BY <2>1 DEF SignedHeights
  <2> QED
    BY <1>0, <1>b, <2>1, <2>3, <2>4
<1>3. CASE HistoricChunkStep
  <2>1. ChunkStep /\ startHeight' = startHeight
    BY <1>3 DEF HistoricChunkStep, historicVars
  <2> QED
    BY <1>0, <1>b, <2>1, StoredChunkStep
<1>4. CASE HistoricChunkDone
  <2>1. /\ stage = "returned" /\ stage' = "idle" /\ startHeight' = Add(chunkEnd, 1)
        /\ UNCHANGED <<dbBlocks, dbSignings>>
        /\ task'["ProcessBlocks"] = "idle" /\ task'["ProcessValidatorSignings"] = "idle"
    BY <1>4, NothingRuns DEF HistoricChunkDone, ProcessChunkReturned, tables
  <2>2. startHeight' = chunkEnd + 1 /\ chunkStart = startHeight /\ chunkEnd \in Range /\ startHeight \in Range
    BY <2>1, HistoricBounds DEF WalkInv
  <2>3. BlockRows(ChunkHeights) \subseteq dbBlocks /\ SignedRows(ChunkHeights) \subseteq SignedHeights
    BY <1>0, <2>1 DEF CurrentIsStored
  <2>4. ASSUME NEW k \in Nat, FirstHeight(k) < startHeight', ~(FirstHeight(k) < startHeight)
        PROVE  BlockBatch[k] \subseteq dbBlocks /\ SigningBatch[k] \subseteq SignedHeights
    <3>1. ChunkHeights = Chunk(k)
      <4>1. chunkStart <= FirstHeight(k) /\ FirstHeight(k) <= chunkEnd
        BY <2>2, <2>4, FirstHeights, RangeAssumption DEF Range, Heights
      <4> QED
        BY <2>1, <4>1, CurrentStartsAt
    <3> QED
      BY <2>3, <3>1 DEF BlockBatch, SigningBatch
  <2>5. CurrentIsStored'
    BY <2>1 DEF CurrentIsStored
  <2>6. SignedHeights' = SignedHeights
    BY <2>1 DEF SignedHeights
  <2> QED
    BY <1>0, <1>b, <2>1, <2>4, <2>5, <2>6
<1>5. CASE HistoricStopped \/ HistoricCrash
  <2>1. Exit /\ startHeight' = startHeight
    BY <1>5 DEF HistoricStopped, HistoricCrash, Crash, historicVars
  <2>2. /\ stage' = "idle" /\ UNCHANGED <<dbBlocks, dbSignings>>
        /\ task'["ProcessBlocks"] = "idle" /\ task'["ProcessValidatorSignings"] = "idle"
    BY <2>1, NothingRuns DEF Exit, tables
  <2>3. CurrentIsStored'
    BY <2>2 DEF CurrentIsStored
  <2>4. SignedHeights' = SignedHeights
    BY <2>2 DEF SignedHeights
  <2> QED
    BY <1>0, <1>b, <2>1, <2>2, <2>3, <2>4
<1>6. CASE Rerun
  <2>1. stage = "idle" /\ stage' = "idle" /\ task' = task /\ UNCHANGED <<dbBlocks, dbSignings>>
    BY <1>a, <1>6 DEF Rerun, Boot, chunkVars, tables
  <2>2. task["ProcessBlocks"] = "idle" /\ task["ProcessValidatorSignings"] = "idle"
    BY <2>1 DEF ProgressInv
  <2>3. \A k \in Nat : ~(FirstHeight(k) < startHeight')
    BY <1>6, FirstHeights, RangeAssumption DEF Rerun, Heights
  <2>4. CurrentIsStored'
    BY <2>1, <2>2 DEF CurrentIsStored
  <2>5. SignedHeights' = SignedHeights
    BY <2>1 DEF SignedHeights
  <2> QED
    BY <1>0, <1>b, <2>1, <2>3, <2>4, <2>5
<1> QED
  BY <1>1, <1>2, <1>3, <1>4, <1>5, <1>6 DEF Next

\* The chunk of a height is the one the walk takes it in.
LEMMA ChunkOfHeight ==
    ASSUME MaxBlockChunkSize > 0, NEW h \in Range
    PROVE  /\ ChunkOf(h) \in Nat /\ h \in Chunk(ChunkOf(h))
           /\ \A k \in Nat : h \in Chunk(k) => ChunkOf(h) = k
<1> DEFINE a == h - FromHeight
           C == MaxBlockChunkSize
<1>1. a \in Nat /\ C \in Nat /\ C > 0 /\ FromHeight \in Nat /\ h \in Nat /\ h = FromHeight + a
  BY SizeAssumption, RangeAssumption DEF Heights, Range
<1>2. ChunkOf(h) = a \div C /\ \A k \in Nat : FirstHeight(k) = FromHeight + k * C
  BY DEF ChunkOf, FirstHeight
<1> HIDE DEF a, C
<1>3. a \div C \in Nat /\ (a \div C) * C <= a /\ a < (a \div C) * C + C
  BY <1>1
<1>4. (a \div C) * C \in Nat
  BY <1>1, <1>3
<1>5. FirstHeight(a \div C) <= h /\ h < FirstHeight(a \div C) + C
  BY <1>1, <1>2, <1>3, <1>4
<1>6. ASSUME NEW k \in Nat, h \in Chunk(k) PROVE a \div C = k
  <2>1. k * C \in Nat
    BY <1>1
  <2>2. FirstHeight(k) <= h /\ h < FirstHeight(k) + C
    BY <1>6 DEF Chunk, C
  <2>3. k * C <= a /\ a < k * C + C
    BY <1>1, <1>2, <2>1, <2>2
  <2> QED
    BY <1>1, <2>3
<1> QED
  BY <1>2, <1>3, <1>5, <1>6 DEF Chunk, C

\* A completed range has exactly the batches of its chunks.
LEMMA CompletedIsStored ==
    ASSUME MaxBlockChunkSize > 0, HistoricInv, WalkInv, StoredInv, NoCallFailed,
           pc = "completed", NEW h \in Range
    PROVE  /\ h \in dbBlocks <=> SameChunk(h) \cap BadBlocks = {}
           /\ Signed(h) <=> h \notin BadCommits
<1> DEFINE k == ChunkOf(h)
<1>1. k \in Nat /\ h \in Chunk(k) /\ Chunk(k) = SameChunk(h)
  <2>1. k \in Nat /\ h \in Chunk(k)
    BY ChunkOfHeight
  <2>2. ASSUME NEW g \in Chunk(k) PROVE g \in SameChunk(h)
    <3>1. g \in Range
      BY DEF Chunk
    <3>2. ChunkOf(g) = k
      BY <2>1, <3>1, ChunkOfHeight
    <3> QED
      BY <3>1, <3>2 DEF SameChunk
  <2>3. ASSUME NEW g \in SameChunk(h) PROVE g \in Chunk(k)
    BY ChunkOfHeight DEF SameChunk
  <2> QED
    BY <2>1, <2>2, <2>3
<1>2. FirstHeight(k) < startHeight
  <2>1. FirstHeight(k) <= h /\ h \in Range /\ startHeight > ToHeight
    BY <1>1 DEF Chunk, WalkInv
  <2> QED
    BY <1>1, <2>1, FirstHeights, RangeAssumption, SizeAssumption
    DEF Range, Heights, HistoricInv, TypeOK, Uint
<1> HIDE DEF k
<1>3. /\ Chunk(k) \cap dbBlocks = {} \/ Chunk(k) \cap dbBlocks = BlockBatch[k]
      /\ Chunk(k) \cap SignedHeights = {} \/ Chunk(k) \cap SignedHeights = SigningBatch[k]
      /\ BlockBatch[k] \subseteq dbBlocks /\ SigningBatch[k] \subseteq SignedHeights
  BY <1>1, <1>2 DEF StoredInv, WholeBatches, BehindIsStored
<1>4. BlockBatch[k] = {g \in Chunk(k) : Chunk(k) \cap BadBlocks = {}} /\ SigningBatch[k] = Chunk(k) \ BadCommits
  BY <1>1 DEF BlockBatch, SigningBatch, BlockRows, SignedRows
<1>5. h \in SignedHeights <=> Signed(h)
  BY DEF SignedHeights, Signed
<1> QED
  BY <1>1, <1>3, <1>4, <1>5

\* While no call fails, in however many runs a range is done, each chunk's rows are in
\* blocks and in validator_block_signing entirely or not at all.
THEOREM StoredInvariant ==
    ASSUME MaxBlockChunkSize > 0
    PROVE  Spec => []StoredInv
<1>1. HistoricInv /\ ProgressInv /\ WalkInv /\ StoredInv /\ [Next]_vars => StoredInv'
  BY StoredStep
<1> QED
  BY <1>1, StoredInit, HistoricInvariant, ProgressInvariant, WalkInvariant, PTL DEF Spec

\* However often a run over the range is killed or interrupted and repeated, a run
\* that completes leaves every block and every signing of the range, as long as the
\* node and the database answer and the blocks and commits parse.
THEOREM HistoricRerunRepairs ==
    ASSUME OnlyTheProcessFails
    PROVE  Spec => []RerunRepairsBlocksAndSignings
<1>1. HistoricInv /\ WalkInv /\ StoredInv => RerunRepairsBlocksAndSignings
  <2> SUFFICES ASSUME HistoricInv, WalkInv, StoredInv, pc = "completed", NEW h \in Range
               PROVE  h \in dbBlocks /\ Signed(h)
    BY DEF RerunRepairsBlocksAndSignings
  <2>1. NoCallFailed /\ SameChunk(h) \cap BadBlocks = {} /\ h \notin BadCommits
    BY DEF OnlyTheProcessFails, NoCallFailed, SameChunk
  <2> QED
    BY <2>1, CompletedIsStored DEF OnlyTheProcessFails
<1>2. (Spec => []WalkInv) /\ (Spec => []StoredInv)
  BY WalkInvariant, StoredInvariant DEF OnlyTheProcessFails
<1> QED
  BY <1>1, <1>2, HistoricInvariant, PTL

-----------------------------------------------------------------------------
(* Defects *)

\* The transactions the indexer takes from a chunk.
ChunkTxs(k) == {x \in Hashes : HeightOf[x] \in Chunk(k) \ BadHeights /\ Defect[x] # "base64"}

\* None of the transactions has an id yet; all the indexer can digest of them is in
\* the tables; one of them ends the process.
Untouched(txs) == \A x \in txs : dbTxHash[x] = 0

Stored(txs) ==
    /\ \A x \in txs : dbTxHash[x] # 0
    /\ \A x \in txs : Defect[x] # "result" => Indexed(x)
    /\ (\A y \in txs : Defect[y] # "conversion") => \A x \in txs : HasMessages(x) /\ HasAddresses(x)

Doomed(txs) == \E x \in txs : Defect[x] = "decode"

Settled(txs) == Untouched(txs) \/ Stored(txs) \/ Doomed(txs)

\* This run has registered the transactions; a table has none of their rows yet.
Registered(txs) == \A x \in txs : txHashCache[x] # 0

NoRows(table, txs) == \A r \in table : \A x \in txs : r.id # txHashCache[x]

\* How far ProcessTxHashIds, ProcessTransactions and ProcessMessages are with them.
IdsProgress(txs) ==
    \/ task["ProcessTxHashIds"] = "run" /\ Untouched(txs)
    \/ /\ task["ProcessTxHashIds"] = "done" /\ Registered(txs)
       /\ NoRows(dbTxs, txs) /\ NoRows(dbAddressTx, txs) /\ NoRows(dbMsgs, txs)

TransactionsProgress(txs) ==
    \/ task["ProcessTransactions"] = "run" /\ NoRows(dbTxs, txs)
    \/ /\ task["ProcessTransactions"] = "done"
       /\ \A x \in txs : Defect[x] # "result" => Indexed(x)

MessagesProgress(txs) ==
    \/ /\ task["ProcessMessages"] \in {"run", "address_tx"}
       /\ NoRows(dbAddressTx, txs) /\ NoRows(dbMsgs, txs)
    \/ /\ task["ProcessMessages"] = "batches"
       /\ \A x \in txs : \A t \in TablesOf[x] :
            /\ t \in batches => \A m \in dbMsgs : m.table = t => m.id # txHashCache[x]
            /\ t \notin batches =>
                 \E m \in dbMsgs : m.table = t /\ m.id = txHashCache[x] /\ m.height = HeightOf[x]
    \/ /\ task["ProcessMessages"] = "done"
       /\ (\A y \in txs : Defect[y] # "conversion") => \A x \in txs : HasMessages(x) /\ HasAddresses(x)

PhaseOneInv(txs) ==
    /\ task["ProcessTransactions"] = "idle" /\ task["ProcessMessages"] = "idle"
    /\ Stored(txs) \/ Doomed(txs) \/ IdsProgress(txs)

PhaseTwoInv(txs) ==
    \/ Stored(txs)
    \/ Doomed(txs) /\ task["ProcessTransactions"] = "run"
    \/ Registered(txs) /\ TransactionsProgress(txs) /\ MessagesProgress(txs)

\* The chunk that is being processed.
ProcessingInv(txs) ==
    /\ stage \in {"fetch", "collect"} => Settled(txs)
    /\ stage \in {"collect", "phase1", "phase2"} => blocks = ChunkHeights
    /\ stage \in {"phase1", "phase2", "returned"} => transactions = txs
    /\ stage = "phase1" => PhaseOneInv(txs)
    /\ stage = "phase2" => PhaseTwoInv(txs)
    /\ stage = "returned" => Stored(txs)

\* Chunk k while no call has failed: behind the loop variable it is stored, and a run
\* that ended before left it untouched, stored or doomed.
ChunkInv(k) ==
    /\ FirstHeight(k) < startHeight => Stored(ChunkTxs(k))
    /\ IF stage # "idle" /\ ChunkHeights = Chunk(k) THEN ProcessingInv(ChunkTxs(k))
       ELSE Settled(ChunkTxs(k))

DefectsInv == faults = 0 => \A k \in Nat : ChunkInv(k)

\* What was stored for a set of transactions stays stored.
LEMMA StoredStays ==
    ASSUME PipelineTypeOK, TablesGrow, NEW txs \in SUBSET Hashes, Stored(txs)
    PROVE  Stored(txs)'
<1>1. \A x \in txs : dbTxHash[x] # 0 /\ dbTxHash'[x] = dbTxHash[x]
  BY DEF Stored, TablesGrow
<1>2. \A x \in txs : Indexed(x) => Indexed(x)'
  BY <1>1 DEF Indexed, TablesGrow
<1>3. \A x \in txs : /\ HasMessages(x) => HasMessages(x)'
                     /\ HasAddresses(x) => HasAddresses(x)'
  BY <1>1 DEF HasMessages, HasAddresses, Listed, TablesGrow
<1> QED
  BY <1>1, <1>2, <1>3 DEF Stored

\* ProcessTxHashIds gives untouched transactions ids that no row carries.
LEMMA PhaseOneIds ==
    ASSUME PipelineTypeOK, RowsNameTheirTransaction, NEW txs \in SUBSET Hashes,
           ProcessTxHashIds, faults = 0, faults' = 0, transactions = txs, PhaseOneInv(txs)
    PROVE  PhaseOneInv(txs)'
<1>0. /\ task["ProcessTxHashIds"] = "run" /\ task'["ProcessTxHashIds"] = "done"
      /\ task'["ProcessTransactions"] = "idle" /\ task'["ProcessMessages"] = "idle"
      /\ UNCHANGED <<dbTxs, dbAddressTx, dbMsgs>>
  BY DEF ProcessTxHashIds, PhaseOneInv, Done, PipelineTypeOK, Tasks, PhaseOne, PhaseTwo
<1>1. CASE Stored(txs)
  <2>1. TablesGrow
    BY ChunkStepGrows DEF ChunkStep
  <2>2. Stored(txs)'
    BY <1>1, <2>1, StoredStays
  <2> QED
    BY <1>0, <2>2 DEF PhaseOneInv
<1>2. CASE Doomed(txs)
  BY <1>0, <1>2 DEF PhaseOneInv, Doomed
<1>3. CASE IdsProgress(txs) /\ txs # {}
  <2>1. Untouched(txs)
    BY <1>0, <1>3 DEF IdsProgress
  <2>2. PICK ids \in FreshIds(txs) :
          txHashCache' = [x \in Hashes |-> IF x \in txs THEN ids[x] ELSE 0]
    BY <2>1 DEF ProcessTxHashIds, Untouched
  <2>3. \A x \in txs : /\ txHashCache'[x] \in TxIds
                       /\ \A y \in Hashes : txHashCache'[x] # dbTxHash[y]
    BY <2>2 DEF FreshIds
  <2>4. Registered(txs)'
    BY <2>3, ChainAssumption DEF Registered
  <2>5. \A r \in dbTxs \cup dbAddressTx \cup dbMsgs : \E y \in Hashes : r.id = dbTxHash[y]
    BY DEF RowsNameTheirTransaction
  <2>6. \A r \in dbTxs \cup dbAddressTx \cup dbMsgs : \A x \in txs : r.id # txHashCache'[x]
    BY <2>3, <2>5
  <2>7. NoRows(dbTxs, txs)' /\ NoRows(dbAddressTx, txs)' /\ NoRows(dbMsgs, txs)'
    BY <1>0, <2>6 DEF NoRows
  <2> QED
    BY <1>0, <2>4, <2>7 DEF PhaseOneInv, IdsProgress
<1>4. CASE txs = {}
  <2>1. Stored(txs)'
    BY <1>4 DEF Stored
  <2> QED
    BY <1>0, <2>1 DEF PhaseOneInv
<1> QED
  BY <1>1, <1>2, <1>3, <1>4 DEF PhaseOneInv

\* ProcessTransactions stores what it can parse of registered transactions,
LEMMA TransactionsAreStored ==
    ASSUME PipelineTypeOK, CachesAgree, NEW txs \in SUBSET Hashes, ProcessTransactions,
           faults = 0, faults' = 0, transactions = txs, Registered(txs),
           TransactionsProgress(txs)
    PROVE  TransactionsProgress(txs)'
<1>0. /\ task["ProcessTransactions"] = "run" /\ task'["ProcessTransactions"] = "done"
      /\ UNCHANGED <<dbTxHash, txHashCache>>
  BY DEF ProcessTransactions, Done, PipelineTypeOK, Tasks, PhaseOne, PhaseTwo, cacheVars
<1>1. NoRows(dbTxs, txs)
  BY <1>0 DEF TransactionsProgress
<1>2. TransactionRows \cap dbTxs = {}
  BY <1>1 DEF TransactionRows, NoRows
<1>3. PICK r \in CopyFrom(dbTxs, TransactionRows, FALSE) : dbTxs' = r.table /\ faults' = faults + r.fault
  BY <1>2 DEF ProcessTransactions
<1>4. dbTxs' = dbTxs \cup TransactionRows
  BY <1>3, CleanCopy
<1>5. ASSUME NEW x \in txs, Defect[x] # "result" PROVE Indexed(x)'
  <2> DEFINE row == [id |-> txHashCache[x], height |-> HeightOf[x]]
  <2>1. row \in TransactionRows
    BY <1>5 DEF TransactionRows, Registered
  <2>2. row.id = dbTxHash'[x] /\ row.height = HeightOf[x]
    BY <1>0 DEF CachesAgree, Registered
  <2> QED
    BY <1>4, <2>1, <2>2 DEF Indexed
<1> QED
  BY <1>0, <1>5 DEF TransactionsProgress

\* and ProcessMessages stores their messages table by table, or none of the chunk's
\* when one cannot be converted.
LEMMA MessagesAreStored ==
    ASSUME PipelineTypeOK, CachesAgree, BatchesFollowAddressTx, NEW txs \in SUBSET Hashes,
           \/ ResolveMessages \/ InsertAddressTx \/ MessagesReturn
           \/ \E t \in MsgTables : InsertMessageBatch(t),
           faults = 0, faults' = 0, transactions = txs, Registered(txs), MessagesProgress(txs)
    PROVE  MessagesProgress(txs)'
<1>0. /\ UNCHANGED <<dbTxHash, txHashCache, transactions>>
      /\ task \in [Tasks -> {"idle", "run", "address_tx", "batches", "done"}]
      /\ \A x \in txs : txHashCache[x] = dbTxHash[x] /\ txHashCache[x] # 0
      /\ Converted = txs
  BY DEF ResolveMessages, InsertAddressTx, MessagesReturn, InsertMessageBatch, PipelineTypeOK,
         chunkVars, cacheVars, txTables, tables, CachesAgree, Registered, Converted
<1> USE DEF Tasks, PhaseOne, PhaseTwo
<1>1. CASE ResolveMessages
  <2>1. /\ task["ProcessMessages"] = "run" /\ UNCHANGED <<dbAddressTx, dbMsgs>>
        /\ task'["ProcessMessages"] = IF \E x \in Converted : Defect[x] = "conversion"
                                      THEN "done" ELSE "address_tx"
    BY <1>0, <1>1 DEF ResolveMessages, txTables
  <2>2. NoRows(dbAddressTx, txs)' /\ NoRows(dbMsgs, txs)'
    BY <1>0, <2>1 DEF MessagesProgress, NoRows
  <2>3. CASE \E x \in txs : Defect[x] = "conversion"
    BY <1>0, <2>1, <2>3 DEF MessagesProgress
  <2>4. CASE ~ \E x \in txs : Defect[x] = "conversion"
    BY <1>0, <2>1, <2>2, <2>4 DEF MessagesProgress
  <2> QED
    BY <2>3, <2>4
<1>2. CASE InsertAddressTx
  <2>1. task["ProcessMessages"] = "address_tx" /\ dbMsgs' = dbMsgs
    BY <1>2 DEF InsertAddressTx
  <2>2. NoRows(dbAddressTx, txs) /\ NoRows(dbMsgs, txs)
    BY <2>1 DEF MessagesProgress
  <2>3. AddressTxRows \cap dbAddressTx = {}
    <3>1. \A r \in AddressTxRows : \E x \in txs : r.id = txHashCache[x]
      BY <1>0 DEF AddressTxRows
    <3> QED
      BY <2>2, <3>1 DEF NoRows
  <2>4. PICK r \in CopyFrom(dbAddressTx, AddressTxRows, FALSE) :
          /\ faults' = faults + r.fault
          /\ task' = [task EXCEPT !["ProcessMessages"] = IF r.ok THEN "batches" ELSE "done"]
          /\ batches' = IF r.ok THEN UNION {TablesOf[x] : x \in Converted} ELSE {}
    BY <1>2, <2>3 DEF InsertAddressTx
  <2>5. r.ok
    BY <2>4, CleanCopy
  <2>6. task'["ProcessMessages"] = "batches" /\ \A x \in txs : TablesOf[x] \subseteq batches'
    BY <1>0, <2>4, <2>5
  <2>7. \A x \in txs : \A t \in TablesOf[x] :
          t \in batches' /\ \A m \in dbMsgs' : m.table = t => m.id # txHashCache'[x]
    BY <1>0, <2>1, <2>2, <2>6 DEF NoRows
  <2> QED
    BY <2>6, <2>7 DEF MessagesProgress
<1>3. ASSUME NEW t \in MsgTables, InsertMessageBatch(t)
      PROVE  MessagesProgress(txs)'
  <2>1. /\ task["ProcessMessages"] = "batches" /\ task' = task
        /\ t \in batches /\ batches' = batches \ {t}
    BY <1>3 DEF InsertMessageBatch
  <2>2. \A x \in txs : \A u \in TablesOf[x] :
            /\ u \in batches => \A m \in dbMsgs : m.table = u => m.id # txHashCache[x]
            /\ u \notin batches =>
                 \E m \in dbMsgs : m.table = u /\ m.id = txHashCache[x] /\ m.height = HeightOf[x]
    BY <2>1 DEF MessagesProgress
  <2>3. \A m \in MessageRows(t) : m.table = t /\ \E x \in txs : t \in TablesOf[x] /\ m.id = txHashCache[x]
    BY <1>0 DEF MessageRows
  <2>4. MessageRows(t) \cap dbMsgs = {}
    BY <2>1, <2>2, <2>3
  <2>5. PICK r \in CopyFrom(dbMsgs, MessageRows(t), FALSE) :
          dbMsgs' = r.table /\ faults' = faults + r.fault
    BY <1>3, <2>4 DEF InsertMessageBatch
  <2>6. dbMsgs' = dbMsgs \cup MessageRows(t)
    BY <2>5, CleanCopy
  <2>7. ASSUME NEW x \in txs, t \in TablesOf[x]
        PROVE  \E m \in dbMsgs' : m.table = t /\ m.id = txHashCache[x] /\ m.height = HeightOf[x]
    <3> DEFINE row == [id |-> txHashCache[x], height |-> HeightOf[x], table |-> t]
    <3>1. row \in MessageRows(t)
      BY <1>0, <2>7 DEF MessageRows
    <3> QED
      BY <2>6, <3>1
  <2>8. ASSUME NEW x \in txs, NEW u \in TablesOf[x]
        PROVE  /\ u \in batches' => \A m \in dbMsgs' : m.table = u => m.id # txHashCache[x]
               /\ u \notin batches' =>
                    \E m \in dbMsgs' : m.table = u /\ m.id = txHashCache[x] /\ m.height = HeightOf[x]
    <3>1. CASE u = t
      BY <2>1, <2>7, <3>1
    <3>2. CASE u # t
      BY <2>1, <2>2, <2>3, <2>6, <3>2
    <3> QED
      BY <3>1, <3>2
  <2> QED
    BY <1>0, <2>1, <2>8 DEF MessagesProgress
<1>4. CASE MessagesReturn
  <2>1. /\ task["ProcessMessages"] = "batches" /\ task'["ProcessMessages"] = "done"
        /\ batches = {} /\ dbMsgs' = dbMsgs /\ dbAddressTx' = dbAddressTx
    BY <1>0, <1>4 DEF MessagesReturn, Done, tables, txTables
  <2>2. \A x \in txs : \A t \in TablesOf[x] :
          \E m \in dbMsgs : m.table = t /\ m.id = txHashCache[x] /\ m.height = HeightOf[x]
    BY <2>1 DEF MessagesProgress
  <2>3. \A x \in txs : HasMessages(x)'
    BY <1>0, <2>1, <2>2 DEF HasMessages
  <2>4. \A x \in txs : HasAddresses(x)
    BY <1>0, <2>1 DEF BatchesFollowAddressTx, ListedUnderAll, MayBeUnresolved, HasAddresses
  <2>5. \A x \in txs : HasAddresses(x)'
    BY <1>0, <2>1, <2>4 DEF HasAddresses, Listed
  <2> QED
    BY <2>1, <2>3, <2>5 DEF MessagesProgress
<1> QED
  BY <1>1, <1>2, <1>3, <1>4

\* At first nothing runs.
LEMMA PlaceInit == Init => PlaceInv
  BY DEF Init, PipelineInit, PlaceInv, Tasks, PhaseOne, PhaseTwo

\* The wait groups keep the goroutines in their phases.
LEMMA PlaceStep == HistoricInv /\ PlaceInv /\ [Next]_vars => PlaceInv'
<1> SUFFICES ASSUME HistoricInv, PlaceInv, [Next]_vars PROVE PlaceInv'
  OBVIOUS
<1>1. PipelineTypeOK /\ (pc = "loop" => stage = "idle")
  BY DEF HistoricInv, TypeOK, ChunkOnlyInLoop
<1>2. CASE ChunkStep
  BY <1>1, <1>2, PlaceChunkStep
<1>3. CASE pc = "loop" /\ CallProcessChunk(startHeight, HistoricChunkEnd)
  BY <1>1, <1>3 DEF CallProcessChunk, PlaceInv
<1>4. CASE Exit \/ ProcessChunkReturned \/ Boot \/ UNCHANGED pipelineVars
  BY <1>4, PlaceLoopStep
<1> QED
  BY <1>2, <1>3, <1>4, PipelineCases

\* While a chunk is in phase 2, its transactions are stored, doomed or registered.
LEMMA PhaseTwoStep ==
    ASSUME PipelineTypeOK, CachesAgree, BatchesFollowAddressTx, PhasesAreApart,
           NEW txs \in SUBSET Hashes, stage = "phase2", transactions = txs, PhaseTwoInv(txs), faults = 0, faults' = 0,
           \/ ProcessBlocks \/ ProcessValidatorSignings \/ ProcessTransactions
           \/ ResolveMessages \/ InsertAddressTx \/ MessagesReturn
           \/ \E t \in MsgTables : InsertMessageBatch(t)
    PROVE  PhaseTwoInv(txs)'
<1>0. task \in [Tasks -> {"idle", "run", "address_tx", "batches", "done"}]
  BY DEF PipelineTypeOK
<1>1. CASE Stored(txs)
  <2>1. TablesGrow
    BY ChunkStepGrows DEF ChunkStep
  <2> QED
    BY <1>1, <2>1, StoredStays DEF PhaseTwoInv
<1>2. CASE Doomed(txs) /\ task["ProcessTransactions"] = "run"
  <2>1. ~ProcessTransactions
    BY <1>2 DEF ProcessTransactions, Decoded, Doomed
  <2>2. task'["ProcessTransactions"] = "run"
    BY <1>0, <1>2, <2>1
    DEF ProcessBlocks, ProcessValidatorSignings, ResolveMessages, InsertAddressTx, MessagesReturn,
        InsertMessageBatch, Done, Tasks, PhaseOne, PhaseTwo
  <2> QED
    BY <1>2, <2>2 DEF PhaseTwoInv, Doomed
<1>3. CASE Registered(txs) /\ TransactionsProgress(txs) /\ MessagesProgress(txs)
  <2>1. CASE ProcessBlocks \/ ProcessValidatorSignings
    <3>1. /\ UNCHANGED <<txHashCache, batches, dbTxHash, dbTxs, dbAddressTx, dbMsgs>>
          /\ task'["ProcessTransactions"] = task["ProcessTransactions"]
          /\ task'["ProcessMessages"] = task["ProcessMessages"]
      BY <2>1, NotAboutTransactions DEF txTables
    <3> QED
      BY <1>3, <3>1 DEF PhaseTwoInv, Registered, TransactionsProgress, MessagesProgress, NoRows,
                        Indexed, HasMessages, HasAddresses, Listed
  <2>2. CASE ProcessTransactions
    <3>1. TransactionsProgress(txs)'
      BY <1>3, <2>2, TransactionsAreStored
    <3>2. /\ UNCHANGED <<txHashCache, batches, dbTxHash, dbAddressTx, dbMsgs>>
          /\ task'["ProcessMessages"] = task["ProcessMessages"]
      BY <1>0, <2>2 DEF ProcessTransactions, cacheVars, Done, Tasks, PhaseOne, PhaseTwo
    <3>3. Registered(txs)' /\ MessagesProgress(txs)'
      BY <1>3, <3>2 DEF Registered, MessagesProgress, NoRows, HasMessages, HasAddresses, Listed
    <3> QED
      BY <3>1, <3>3 DEF PhaseTwoInv
  <2>3. CASE \/ ResolveMessages \/ InsertAddressTx \/ MessagesReturn
             \/ \E t \in MsgTables : InsertMessageBatch(t)
    <3>1. MessagesProgress(txs)'
      BY <1>3, <2>3, MessagesAreStored
    <3>2. /\ UNCHANGED <<txHashCache, dbTxHash, dbTxs>>
          /\ task'["ProcessTransactions"] = task["ProcessTransactions"]
      BY <1>0, <2>3
      DEF ResolveMessages, InsertAddressTx, MessagesReturn, InsertMessageBatch,
          cacheVars, txTables, tables, Done, Tasks, PhaseOne, PhaseTwo
    <3>3. Registered(txs)' /\ TransactionsProgress(txs)'
      BY <1>3, <3>2 DEF Registered, TransactionsProgress, NoRows, Indexed
    <3> QED
      BY <3>1, <3>3 DEF PhaseTwoInv
  <2> QED
    BY <2>1, <2>2, <2>3
<1> QED
  BY <1>1, <1>2, <1>3 DEF PhaseTwoInv

\* Phase 2 begins with transactions that are stored, doomed or registered,
LEMMA PhaseTwoBegins ==
    ASSUME NEW txs \in SUBSET Hashes, BeginPhaseTwo, transactions = txs, PhaseOneInv(txs)
    PROVE  PhaseTwoInv(txs)'
<1>0. /\ UNCHANGED <<txHashCache, batches, dbTxHash, dbTxs, dbAddressTx, dbMsgs>>
      /\ task' = Launch(PhaseTwo, txs)
  BY DEF BeginPhaseTwo, cacheVars, tables, txTables
<1>1. CASE txs = {}
  BY <1>1 DEF PhaseTwoInv, Stored
<1>2. CASE txs # {}
  <2>1. task'["ProcessTransactions"] = "run" /\ task'["ProcessMessages"] = "run"
    BY <1>0, <1>2, LaunchesForTransactions
  <2>2. CASE Stored(txs)
    BY <1>0, <2>2 DEF PhaseTwoInv, Stored, Indexed, HasMessages, HasAddresses, Listed
  <2>3. CASE Doomed(txs)
    BY <2>1, <2>3 DEF PhaseTwoInv, Doomed
  <2>4. CASE IdsProgress(txs)
    <3>1. task["ProcessTxHashIds"] # "run"
      BY DEF BeginPhaseTwo, Finished, Tasks, PhaseOne, PhaseTwo
    <3> QED
      BY <1>0, <2>1, <2>4, <3>1
      DEF PhaseTwoInv, IdsProgress, Registered, TransactionsProgress, MessagesProgress, NoRows
  <2> QED
    BY <2>2, <2>3, <2>4 DEF PhaseOneInv
<1> QED
  BY <1>1, <1>2

\* and ends when they are stored.
LEMMA PhaseTwoEnds ==
    ASSUME CachesAgree, NEW txs \in SUBSET Hashes, ChunkReturns, PhaseTwoInv(txs)
    PROVE  Stored(txs)'
<1>0. UNCHANGED <<dbTxHash, dbTxs, dbAddressTx, dbMsgs>>
  BY DEF ChunkReturns, tables, txTables
<1>1. /\ task["ProcessTransactions"] \in {"idle", "done"}
      /\ task["ProcessMessages"] \in {"idle", "done"}
  BY DEF ChunkReturns, Finished, Tasks, PhaseOne, PhaseTwo
<1>2. CASE Stored(txs)
  BY <1>0, <1>2 DEF Stored, Indexed, HasMessages, HasAddresses, Listed
<1>3. CASE Registered(txs) /\ TransactionsProgress(txs) /\ MessagesProgress(txs)
  <2>1. \A x \in txs : dbTxHash[x] # 0
    BY <1>3 DEF Registered, CachesAgree
  <2>2. Stored(txs)
    BY <1>1, <1>3, <2>1 DEF TransactionsProgress, MessagesProgress, Stored
  <2> QED
    BY <1>0, <2>2 DEF Stored, Indexed, HasMessages, HasAddresses, Listed
<1> QED
  BY <1>1, <1>2, <1>3 DEF PhaseTwoInv

\* The chunk that is being processed: its transactions are collected whole and taken
\* through both phases.
LEMMA ProcessingStep ==
    ASSUME MaxBlockChunkSize > 0, HistoricInv, ProgressInv, PlaceInv, WalkInv, NEW k \in Nat,
           stage # "idle", ChunkHeights = Chunk(k), ProcessingInv(ChunkTxs(k)),
           ChunkStep, faults = 0, faults' = 0
    PROVE  IF stage' # "idle" THEN ChunkHeights' = Chunk(k) /\ ProcessingInv(ChunkTxs(k))'
           ELSE Settled(ChunkTxs(k))'
<1> DEFINE txs == ChunkTxs(k)
<1>0. /\ PipelineTypeOK /\ CachesAgree /\ PhasesAreApart /\ RowsNameTheirTransaction
      /\ BatchesFollowAddressTx
      /\ txs \in SUBSET Hashes
  BY DEF HistoricInv, TypeOK, PipelineInv, ChunkTxs
<1>1. Settled(txs) /\ TablesGrow /\ dbTxHash' = dbTxHash => Settled(txs)'
  BY <1>0, StoredStays DEF Settled, Untouched, Doomed
<1> HIDE DEF txs
<1>2. TablesGrow
  BY <1>0, ChunkStepGrows
<1>3. ProcessingInv(txs)
  BY DEF txs
<1> SUFFICES IF stage' # "idle" THEN ChunkHeights' = Chunk(k) /\ ProcessingInv(txs)'
             ELSE Settled(txs)'
  BY DEF txs
<1>4. CASE FetchPanics
  <2>1. stage = "fetch" /\ stage' = "idle" /\ dbTxHash' = dbTxHash
    BY <1>4 DEF FetchPanics, Exit, tables, txTables
  <2> QED
    BY <1>1, <1>2, <1>3, <2>1 DEF ProcessingInv
<1>5. CASE FetchRange
  <2>2. /\ stage = "fetch" /\ stage' = IF ChunkLength < 1 THEN "returned" ELSE "collect"
        /\ UNCHANGED <<chunkStart, chunkEnd, dbTxHash>>
    BY <1>5 DEF FetchRange, tables, txTables
  <2>3. ChunkHeights \subseteq Range /\ ChunkLength \in Nat \ {0} /\ head = MaxHeight
    BY CurrentChunk DEF WalkInv
  <2>4. stage' = "collect"
    BY <2>2, <2>3
  <2>5. ChunkHeights \cap (1 .. head) = ChunkHeights
    BY <2>3, SizeAssumption, RangeAssumption DEF Range, Heights
  <2>6. blocks' = ChunkHeights
    <3>1. blocks' = ChunkHeights \cap (1 .. head)
      BY <1>5 DEF FetchRange
    <3> QED
      BY <2>5, <3>1
  <2>7. ChunkHeights' = ChunkHeights
    BY <2>2 DEF ChunkHeights
  <2>8. Settled(txs)'
    BY <1>1, <1>2, <1>3, <2>2 DEF ProcessingInv
  <2> QED
    BY <2>4, <2>6, <2>7, <2>8 DEF ProcessingInv
<1>6. CASE CollectTransactions
  <2>1. /\ stage = "collect" /\ stage' = "phase1" /\ transactions' = Collectable
        /\ task' = Launch(PhaseOne, transactions')
        /\ UNCHANGED <<chunkStart, chunkEnd, blocks, dbTxHash>>
    BY <1>6 DEF CollectTransactions, tables, txTables
  <2>2. transactions' = txs
    BY <1>3, <2>1 DEF ProcessingInv, Collectable, ChunkTxs, txs
  <2>3. ChunkHeights' = ChunkHeights
    BY <2>1 DEF ChunkHeights
  <2>4. Settled(txs)'
    BY <1>1, <1>2, <1>3, <2>1 DEF ProcessingInv
  <2>5. task'["ProcessTransactions"] = "idle" /\ task'["ProcessMessages"] = "idle"
    BY <2>1, LaunchesForTransactions
  <2>6. PhaseOneInv(txs)'
    <3>1. CASE txs = {}
      BY <2>5, <3>1 DEF PhaseOneInv, Stored
    <3>2. CASE txs # {}
      <4>1. task'["ProcessTxHashIds"] = "run"
        BY <2>1, <2>2, <3>2, LaunchesForTransactions
      <4> QED
        BY <2>4, <2>5, <4>1 DEF PhaseOneInv, IdsProgress, Settled
    <3> QED
      BY <3>1, <3>2
  <2> QED
    BY <1>3, <2>1, <2>2, <2>3, <2>6 DEF ProcessingInv
<1>7. CASE BeginPhaseTwo
  <2>1. /\ stage = "phase1" /\ stage' = "phase2"
        /\ UNCHANGED <<chunkStart, chunkEnd, blocks, transactions>>
    BY <1>7 DEF BeginPhaseTwo
  <2>2. ChunkHeights' = ChunkHeights
    BY <2>1 DEF ChunkHeights
  <2>3. PhaseTwoInv(txs)'
    BY <1>0, <1>3, <1>7, <2>1, PhaseTwoBegins DEF ProcessingInv
  <2> QED
    BY <1>3, <2>1, <2>2, <2>3 DEF ProcessingInv
<1>8. CASE ChunkReturns
  <2>1. /\ stage = "phase2" /\ stage' = "returned"
        /\ UNCHANGED <<chunkStart, chunkEnd, blocks, transactions>>
    BY <1>8 DEF ChunkReturns
  <2>2. ChunkHeights' = ChunkHeights
    BY <2>1 DEF ChunkHeights
  <2>3. Stored(txs)'
    BY <1>0, <1>3, <1>8, <2>1, PhaseTwoEnds DEF ProcessingInv
  <2> QED
    BY <1>3, <2>1, <2>2, <2>3 DEF ProcessingInv
<1>9. CASE NilBlockPanic
  BY <1>3, <1>9 DEF NilBlockPanic, PlaceInv, ProcessingInv
<1>10. CASE DecodeFatal
  <2>1. stage = "phase2" /\ stage' = "idle"
    BY <1>0, <1>10 DEF DecodeFatal, Exit, PlaceInv, PhasesAreApart
  <2>2. Doomed(txs)
    BY <1>3, <1>10, <2>1 DEF DecodeFatal, ProcessingInv, Doomed
  <2> QED
    BY <2>1, <2>2 DEF Settled, Doomed
<1>11. CASE ProcessValidatorAddresses
  <2>1. stage = "phase1"
    BY <1>11 DEF ProcessValidatorAddresses, PlaceInv
  <2>2. /\ UNCHANGED <<stage, chunkStart, chunkEnd, blocks, transactions, txHashCache,
                       dbTxHash, dbTxs, dbAddressTx, dbMsgs>>
        /\ task'["ProcessTxHashIds"] = task["ProcessTxHashIds"]
        /\ task'["ProcessTransactions"] = task["ProcessTransactions"]
        /\ task'["ProcessMessages"] = task["ProcessMessages"]
    BY <1>0, <1>11, NotAboutTransactions DEF chunkVars, txTables
  <2>3. ChunkHeights' = ChunkHeights
    BY <2>2 DEF ChunkHeights
  <2>4. PhaseOneInv(txs)
    BY <1>3, <2>1 DEF ProcessingInv
  <2>5. PhaseOneInv(txs)'
    BY <2>2, <2>4 DEF PhaseOneInv, IdsProgress, Stored, Doomed, Untouched, Registered, NoRows,
                      Indexed, HasMessages, HasAddresses, Listed
  <2> QED
    BY <1>3, <2>1, <2>2, <2>3, <2>5 DEF ProcessingInv
<1>12. CASE ProcessTxHashIds
  <2>1. stage = "phase1" /\ UNCHANGED <<stage, chunkStart, chunkEnd, blocks, transactions>>
    BY <1>0, <1>12 DEF ProcessTxHashIds, PhasesAreApart, chunkVars
  <2>2. ChunkHeights' = ChunkHeights
    BY <2>1 DEF ChunkHeights
  <2>3. PhaseOneInv(txs)'
    BY <1>0, <1>3, <1>12, <2>1, PhaseOneIds DEF ProcessingInv
  <2> QED
    BY <1>3, <2>1, <2>2, <2>3 DEF ProcessingInv
<1>13. CASE \/ ProcessBlocks \/ ProcessValidatorSignings \/ ProcessTransactions
            \/ ResolveMessages \/ InsertAddressTx \/ MessagesReturn
            \/ \E t \in MsgTables : InsertMessageBatch(t)
  <2>1. UNCHANGED <<stage, chunkStart, chunkEnd, blocks, transactions>>
    BY <1>0, <1>13, OtherGoroutines, OwnGoroutine DEF chunkVars
  <2>2. ChunkHeights' = ChunkHeights
    BY <2>1 DEF ChunkHeights
  <2>3. CASE stage = "phase2"
    <3>1. PhaseTwoInv(txs)'
      BY <1>0, <1>3, <1>13, <2>3, PhaseTwoStep DEF ProcessingInv
    <3> QED
      BY <1>3, <2>1, <2>2, <2>3, <3>1 DEF ProcessingInv
  <2>4. stage = "phase2"
    BY <1>0, <1>13
    DEF ProcessBlocks, ProcessValidatorSignings, ProcessTransactions, ResolveMessages,
        InsertAddressTx, MessagesReturn, InsertMessageBatch, PhasesAreApart, PlaceInv, ProgressInv
  <2> QED
    BY <2>3, <2>4
<1> QED
  BY <1>4, <1>5, <1>6, <1>7, <1>8, <1>9, <1>10, <1>11, <1>12, <1>13 DEF ChunkStep

\* Only ProcessTxHashIds hands out ids, and only to the chunk it runs for: the
\* transactions of the others stay as they are.
LEMMA OtherChunkStep ==
    ASSUME MaxBlockChunkSize > 0, HistoricInv, WalkInv, DefectsInv, faults = 0, ChunkStep,
           NEW k \in Nat, stage = "idle" \/ ChunkHeights # Chunk(k), Settled(ChunkTxs(k))
    PROVE  Settled(ChunkTxs(k))'
<1> DEFINE txs == ChunkTxs(k)
<1>0. PipelineTypeOK /\ PhasesAreApart /\ txs \in SUBSET Hashes
  BY DEF HistoricInv, TypeOK, PipelineInv, ChunkTxs
<1>1. TablesGrow
  BY <1>0, ChunkStepGrows
<1>2. CASE Stored(txs)
  <2> HIDE DEF txs
  <2>1. Stored(txs)'
    BY <1>0, <1>1, <1>2, StoredStays
  <2> QED
    BY <2>1 DEF Settled, txs
<1>3. CASE Doomed(txs)
  BY <1>3 DEF Settled, Doomed, ChunkTxs, Chunk, FirstHeight, Range
<1>4. CASE Untouched(txs)
  <2>1. \A x \in txs : dbTxHash'[x] = dbTxHash[x]
    <3>1. CASE ProcessTxHashIds
      <4>1. stage = "phase1"
        BY <1>0, <3>1 DEF ProcessTxHashIds, PhasesAreApart
      <4>2. PICK j \in Nat : ChunkHeights = Chunk(j)
        BY <4>1, CurrentChunk
      <4>3. transactions = ChunkTxs(j)
        BY <4>1, <4>2 DEF DefectsInv, ChunkInv, ProcessingInv
      <4>4. Chunk(j) \cap Chunk(k) = {}
        BY <4>1, <4>2, OtherChunkIsElsewhere
      <4>5. \A x \in txs : x \notin transactions
        BY <4>3, <4>4 DEF ChunkTxs
      <4> HIDE DEF txs
      <4> QED
        BY <1>0, <3>1, <4>5 DEF ProcessTxHashIds
    <3>2. CASE \/ FetchPanics \/ NilBlockPanic \/ DecodeFatal \/ FetchRange \/ CollectTransactions
               \/ BeginPhaseTwo \/ ChunkReturns
      BY <3>2 DEF FetchPanics, NilBlockPanic, DecodeFatal, Exit, FetchRange, CollectTransactions,
                  BeginPhaseTwo, ChunkReturns, tables, txTables
    <3>3. CASE \/ ProcessValidatorAddresses \/ ProcessBlocks \/ ProcessValidatorSignings
               \/ ProcessTransactions \/ ResolveMessages \/ InsertAddressTx \/ MessagesReturn
               \/ \E t \in MsgTables : InsertMessageBatch(t)
      BY <3>3 DEF ProcessValidatorAddresses, ProcessBlocks, ProcessValidatorSignings,
                  ProcessTransactions, ResolveMessages, InsertAddressTx, MessagesReturn,
                  InsertMessageBatch, tables, txTables
    <3> QED
      BY <3>1, <3>2, <3>3 DEF ChunkStep
  <2> HIDE DEF txs
  <2>2. Untouched(txs)'
    BY <1>4, <2>1 DEF Untouched
  <2> QED
    BY <2>2 DEF Settled, txs
<1> QED
  BY <1>2, <1>3, <1>4 DEF Settled

\* A step of processChunk takes its own chunk on and leaves the others settled.
LEMMA DefectsChunkStep ==
    ASSUME MaxBlockChunkSize > 0, HistoricInv, ProgressInv, PlaceInv, WalkInv, DefectsInv,
           HistoricChunkStep
    PROVE  DefectsInv'
<1> SUFFICES ASSUME faults' = 0, NEW k \in Nat PROVE ChunkInv(k)'
  BY DEF DefectsInv
<1>0. ChunkStep /\ PipelineTypeOK /\ startHeight' = startHeight
  BY DEF HistoricChunkStep, historicVars, HistoricInv, TypeOK
<1>1. faults = 0 /\ ChunkInv(k)
  BY <1>0, FaultsStay DEF DefectsInv
<1>2. ASSUME FirstHeight(k) < startHeight PROVE Stored(ChunkTxs(k))'
  <2> DEFINE txs == ChunkTxs(k)
  <2>1. txs \in SUBSET Hashes /\ Stored(txs)
    BY <1>1, <1>2 DEF ChunkInv, ChunkTxs
  <2> HIDE DEF txs
  <2>2. Stored(txs)'
    BY <1>0, <2>1, ChunkStepGrows, StoredStays
  <2> QED
    BY <2>2 DEF txs
<1>3. (FirstHeight(k) < startHeight)' => Stored(ChunkTxs(k))'
  BY <1>0, <1>2 DEF FirstHeight
<1>4. CASE stage # "idle" /\ ChunkHeights = Chunk(k)
  <2>1. IF stage' # "idle" THEN ChunkHeights' = Chunk(k) /\ ProcessingInv(ChunkTxs(k))'
        ELSE Settled(ChunkTxs(k))'
    BY <1>0, <1>1, <1>4, ProcessingStep DEF ChunkInv
  <2> QED
    BY <1>3, <2>1 DEF ChunkInv, Chunk, Range, FirstHeight
<1>5. CASE ~(stage # "idle" /\ ChunkHeights = Chunk(k))
  <2>1. Settled(ChunkTxs(k))'
    BY <1>0, <1>1, <1>5, OtherChunkStep DEF ChunkInv
  <2>2. stage' # "idle" => stage # "idle" /\ ChunkHeights' = ChunkHeights
    BY <1>0, ChunkStays, ChunkStepStaysInLoop DEF ChunkHeights
  <2> QED
    BY <1>3, <1>5, <2>1, <2>2 DEF ChunkInv, Chunk, Range, FirstHeight
<1> QED
  BY <1>4, <1>5

\* What a chunk's invariant says only depends on its transactions, its place and the
\* pipeline's state.
LEMMA ChunkInvNext ==
    ASSUME NEW k \in Nat
    PROVE  ChunkInv(k)' <=>
             /\ FirstHeight(k) < startHeight' => Stored(ChunkTxs(k))'
             /\ IF stage' # "idle" /\ ChunkHeights' = Chunk(k) THEN ProcessingInv(ChunkTxs(k))'
                ELSE Settled(ChunkTxs(k))'
  BY DEF ChunkInv, Chunk, Range, FirstHeight

\* A chunk that is not being processed is settled; so is one whose processing ends
\* with the process.
LEMMA DefectsLoopStep ==
    ASSUME MaxBlockChunkSize > 0, HistoricInv, WalkInv, DefectsInv,
           \/ HistoricInterrupted \/ HistoricCompleted \/ Cancel \/ Terminated \/ UNCHANGED vars
           \/ HistoricChunk \/ HistoricChunkDone \/ HistoricStopped \/ HistoricCrash \/ Rerun
    PROVE  DefectsInv'
<1> SUFFICES ASSUME faults' = 0, NEW k \in Nat PROVE ChunkInv(k)'
  BY DEF DefectsInv
<1> DEFINE txs == ChunkTxs(k)
<1>0. /\ stage # "idle" => alive /\ pc = "chunk"
      /\ faults \in Nat /\ startHeight \in Nat
  BY SizeAssumption DEF HistoricInv, ChunkOnlyInLoop, TypeOK, PipelineTypeOK, Uint
<1>1. faults = 0
  <2>1. faults' = faults \/ faults' = faults + 1
    BY DEF HistoricInterrupted, HistoricCompleted, Cancel, Terminated, vars, pipelineVars,
           HistoricChunk, CallProcessChunk, HistoricChunkDone, ProcessChunkReturned,
           HistoricStopped, HistoricCrash, Crash, Rerun, Boot
  <2> QED
    BY <1>0, <2>1
<1>2. ChunkInv(k)
  BY <1>1 DEF DefectsInv
<1>3. ASSUME UNCHANGED txTables
      PROVE  /\ Stored(txs)' <=> Stored(txs)
             /\ Settled(txs)' <=> Settled(txs)
  BY <1>3 DEF txTables, Settled, Untouched, Stored, Doomed, Indexed, HasMessages, HasAddresses, Listed, ChunkTxs,
              Chunk, FirstHeight, Range
<1> HIDE DEF txs
<1>4. CASE \/ HistoricInterrupted \/ HistoricCompleted \/ Cancel \/ Terminated \/ UNCHANGED vars
  <2>1. UNCHANGED pipelineVars /\ startHeight' = startHeight
    BY <1>4 DEF HistoricInterrupted, HistoricCompleted, Cancel, Terminated, vars, historicVars
  <2> QED
    BY <1>2, <2>1
    DEF ChunkInv, pipelineVars, chunkVars, cacheVars, tables, txTables, ProcessingInv, PhaseOneInv,
        PhaseTwoInv, IdsProgress, TransactionsProgress, MessagesProgress, Settled, Untouched,
        Stored, Doomed, Registered, NoRows, Indexed, HasMessages, HasAddresses, Listed, ChunkTxs, Chunk, FirstHeight,
        Range, ChunkHeights
<1>5. CASE HistoricChunk
  <2>1. /\ stage = "idle" /\ stage' = "fetch" /\ startHeight' = startHeight
        /\ UNCHANGED txTables
    BY <1>0, <1>5 DEF HistoricChunk, CallProcessChunk, tables
  <2>2. Settled(txs) /\ (FirstHeight(k) < startHeight => Stored(txs))
    BY <1>2, <2>1 DEF ChunkInv, txs
  <2>3. Settled(txs)' /\ (FirstHeight(k) < startHeight' => Stored(txs)')
    BY <1>3, <2>1, <2>2
  <2> QED
    BY <2>1, <2>3, ChunkInvNext DEF ProcessingInv, txs
<1>6. CASE HistoricChunkDone
  <2>1. /\ stage = "returned" /\ stage' = "idle" /\ startHeight' = Add(chunkEnd, 1)
        /\ UNCHANGED txTables
    BY <1>6 DEF HistoricChunkDone, ProcessChunkReturned, tables
  <2>2. /\ startHeight' = chunkEnd + 1 /\ chunkStart = startHeight
        /\ chunkEnd \in Range /\ startHeight \in Range
    BY <2>1, HistoricBounds DEF WalkInv
  <2>3. Settled(txs)
    BY <1>2, <2>1 DEF ChunkInv, ProcessingInv, Settled, txs
  <2>4. ASSUME FirstHeight(k) < startHeight' PROVE Stored(txs)
    <3>1. CASE FirstHeight(k) < startHeight
      BY <1>2, <3>1 DEF ChunkInv, txs
    <3>2. CASE startHeight <= FirstHeight(k)
      <4>1. chunkStart <= FirstHeight(k) /\ FirstHeight(k) <= chunkEnd
        BY <2>2, <2>4, <3>2, FirstHeights, RangeAssumption DEF Range, Heights
      <4>2. ChunkHeights = Chunk(k)
        BY <2>1, <4>1, CurrentStartsAt
      <4> QED
        BY <1>2, <2>1, <4>2 DEF ChunkInv, ProcessingInv, txs
    <3> QED
      BY <1>0, <3>1, <3>2, FirstHeights
  <2> QED
    BY <1>3, <2>1, <2>3, <2>4, ChunkInvNext DEF txs
<1>7. CASE HistoricStopped
  <2>1. /\ stage = "idle" /\ stage' = "idle" /\ startHeight' = startHeight
        /\ UNCHANGED txTables
    BY <1>0, <1>7 DEF HistoricStopped, Exit, historicVars, tables
  <2>2. Settled(txs) /\ (FirstHeight(k) < startHeight => Stored(txs))
    BY <1>2, <2>1 DEF ChunkInv, txs
  <2> QED
    BY <1>3, <2>1, <2>2, ChunkInvNext DEF txs
<1>8. CASE HistoricCrash
  BY <1>1, <1>8 DEF HistoricCrash, Crash
<1>9. CASE Rerun
  <2>1. /\ stage = "idle" /\ stage' = "idle" /\ startHeight' = FromHeight
        /\ UNCHANGED txTables
    BY <1>0, <1>9 DEF Rerun, Boot, chunkVars, tables
  <2>2. Settled(txs)
    BY <1>2, <2>1 DEF ChunkInv, txs
  <2>3. ~(FirstHeight(k) < startHeight')
    BY <2>1, FirstHeights, RangeAssumption DEF Heights
  <2> QED
    BY <1>3, <2>1, <2>2, <2>3, ChunkInvNext DEF txs
<1> QED
  BY <1>4, <1>5, <1>6, <1>7, <1>8, <1>9

\* At first no transaction has an id.
LEMMA DefectsInit == Init => DefectsInv
<1> SUFFICES ASSUME Init, NEW k \in Nat PROVE ChunkInv(k)
  BY DEF DefectsInv
<1>1. stage = "idle" /\ startHeight = FromHeight /\ dbTxHash = [x \in Hashes |-> 0]
  BY DEF Init, PipelineInit
<1>2. ~(FirstHeight(k) < startHeight)
  BY <1>1, FirstHeights, RangeAssumption DEF Heights
<1>3. Settled(ChunkTxs(k))
  BY <1>1 DEF Settled, Untouched, ChunkTxs
<1> QED
  BY <1>1, <1>2, <1>3 DEF ChunkInv

\* While no call fails, a range that completes, in however many runs, has lost no more
\* than its defects cost: one hash or height of a block that does not parse costs the
\* blocks rows of its whole chunk, and a height also the transactions of its block; a
\* commit costs its signing row; a transaction itself or its row of transaction_general;
\* one message that cannot be converted the messages and address_tx rows of its chunk.
THEOREM HistoricDefectsAreContained ==
    ASSUME MaxBlockChunkSize > 0
    PROVE  Spec => []DefectsAreContained
<1>1. HistoricInv /\ ProgressInv /\ PlaceInv /\ WalkInv /\ DefectsInv /\ [Next]_vars => DefectsInv'
  BY DefectsChunkStep, DefectsLoopStep DEF Next
<1>2. HistoricInv /\ WalkInv /\ StoredInv /\ DefectsInv => DefectsAreContained
  <2> SUFFICES ASSUME HistoricInv, WalkInv, StoredInv, DefectsInv, pc = "completed", faults = 0
               PROVE  BlockDefectsAreContained /\ TransactionDefectsAreContained
    BY DEF DefectsAreContained
  <2>1. BlockDefectsAreContained
    BY CompletedIsStored DEF BlockDefectsAreContained, NoCallFailed
  <2>2. ASSUME NEW x \in InRange
        PROVE  /\ Defect[x] \in {"none", "conversion"} => Indexed(x)
               /\ /\ Defect[x] # "base64"
                  /\ \A y \in InRange : HeightOf[y] \in SameChunk(HeightOf[x])
                                         => Defect[y] # "conversion"
                  => HasMessages(x) /\ HasAddresses(x)
    <3> DEFINE k == ChunkOf(HeightOf[x])
    <3>1. x \in Hashes /\ HeightOf[x] \in Range \ BadHeights
      BY DEF InRange
    <3>2. k \in Nat /\ HeightOf[x] \in Chunk(k)
      BY <3>1, ChunkOfHeight
    <3>3. FirstHeight(k) < startHeight
      <4>1. FirstHeight(k) <= HeightOf[x] /\ HeightOf[x] \in Range /\ startHeight > ToHeight
        BY <3>2 DEF Chunk, WalkInv
      <4> QED
        BY <3>2, <4>1, FirstHeights, RangeAssumption, SizeAssumption
        DEF Range, Heights, HistoricInv, TypeOK, Uint
    <3>4. Stored(ChunkTxs(k))
      BY <3>2, <3>3 DEF DefectsInv, ChunkInv
    <3>5. Defect[x] # "base64" => x \in ChunkTxs(k)
      BY <3>1, <3>2 DEF ChunkTxs
    <3>6. \A y \in ChunkTxs(k) : y \in InRange /\ HeightOf[y] \in SameChunk(HeightOf[x])
      <4>1. ASSUME NEW y \in ChunkTxs(k)
            PROVE  y \in Hashes /\ HeightOf[y] \in Chunk(k) \ BadHeights /\ HeightOf[y] \in Range
        BY DEF ChunkTxs, Chunk
      <4> QED
        BY <3>2, <4>1, ChunkOfHeight DEF InRange, SameChunk
    <3> HIDE DEF k
    <3> QED
      BY <3>4, <3>5, <3>6 DEF Stored
  <2> QED
    BY <2>1, <2>2 DEF TransactionDefectsAreContained
<1>3. (Spec => []WalkInv) /\ (Spec => []StoredInv)
  BY WalkInvariant, StoredInvariant
<1>4. HistoricInv /\ PlaceInv /\ [Next]_vars => PlaceInv'
  BY PlaceStep
<1> QED
  BY <1>1, <1>2, <1>3, <1>4, HistoricInvariant, ProgressInvariant, PlaceInit, DefectsInit, PTL
  DEF Spec

=============================================================================

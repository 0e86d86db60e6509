--------------------------- MODULE LiveIndexerProofs ---------------------------
(***************************************************************************)
(* Theorems about live mode, for every chain, chunk size and number of     *)
(* failures.                                                               *)
(***************************************************************************)
EXTENDS LiveIndexer, PipelineProofs

\* processChunk runs only in a living process whose LiveProcess waits for it.
ChunkOnlyInLoop == stage # "idle" => alive /\ pc = "chunk"

LiveInv == TypeOK /\ PipelineInv /\ ChunkOnlyInLoop

\* The arguments of processChunk are uint64.
LEMMA ChunkArguments ==
    ASSUME TypeOK, NEW latestHeight \in Latest
    PROVE  Add(lastProcessedHeight, 1) \in Uint /\ LiveChunkEnd(latestHeight) \in Uint
<1>1. latestHeight \in Uint /\ 1 \in Uint /\ MaxBlockChunkSize \in Uint
  BY SizeAssumption DEF Latest, Uint, TypeOK, PipelineTypeOK
<1>2. Add(lastProcessedHeight, 1) \in Uint
  BY <1>1, UintFacts DEF TypeOK
<1>3. MinOf(BlocksBehind(latestHeight), MaxBlockChunkSize) \in Uint
  BY <1>1, UintFacts DEF TypeOK, BlocksBehind
<1>4. Sub(Add(Add(lastProcessedHeight, 1),
              MinOf(BlocksBehind(latestHeight), MaxBlockChunkSize)), 1) \in Uint
  BY <1>1, <1>2, <1>3, UintFacts
<1> QED
  BY <1>1, <1>2, <1>4, UintFacts DEF LiveChunkEnd

\* The invariant of live mode holds at the start,
LEMMA LiveInit == Init => LiveInv
<1> SUFFICES ASSUME Init PROVE LiveInv
  OBVIOUS
<1>1. PipelineTypeOK /\ PipelineInv
  BY InitFacts DEF Init
<1>2. TypeOK
  <2>1. cancelled \in BOOLEAN
    BY Zenon DEF Init
  <2>2. lastProcessedHeight \in Uint /\ currentProcessingHeight \in Uint
    BY SizeAssumption DEF Init, Uint
  <2> QED
    BY <1>1, <2>1, <2>2 DEF Init, TypeOK
<1>3. ChunkOnlyInLoop
  BY DEF Init, PipelineInit, ChunkOnlyInLoop
<1> QED
  BY <1>1, <1>2, <1>3 DEF LiveInv

\* and every step of live mode keeps it.
LEMMA LiveStep == LiveInv /\ [Next]_vars => LiveInv'
<1> SUFFICES ASSUME LiveInv, [Next]_vars PROVE LiveInv'
  OBVIOUS
<1> USE DEF LiveInv, ChunkOnlyInLoop, TypeOK, liveVars
<1>1. CASE NewBlock
  <2>1. PipelineTypeOK'
    BY <1>1, SizeAssumption
    DEF NewBlock, PipelineTypeOK, chunkVars, cacheVars, tables, txTables, addrTables
  <2>2. PipelineInv'
    BY <1>1, KeptInv DEF NewBlock, MayBeUnresolved, chunkVars
  <2> QED
    BY <1>1, <2>1, <2>2 DEF NewBlock, chunkVars
<1>2. CASE LiveStart
  <2>1. PipelineTypeOK' /\ PipelineInv'
    BY <1>2, StutterFacts DEF LiveStart
  <2>2. lastProcessedHeight' \in Uint /\ currentProcessingHeight' \in Uint
    BY <1>2, SizeAssumption DEF LiveStart, Latest, Uint, PipelineTypeOK
  <2> QED
    BY <1>2, <2>1, <2>2 DEF LiveStart, pipelineVars, chunkVars
<1>3. CASE LiveStartFails
  <2>1. faults' \in 0 .. MaxFaults /\ Exit /\ (MayBeUnresolved => MayBeUnresolved')
    BY <1>3, SizeAssumption DEF LiveStartFails, CanFail, PipelineTypeOK, MayBeUnresolved
  <2>2. PipelineTypeOK' /\ PipelineInv'
    BY <2>1, ExitTypeOK, ExitInv
  <2> QED
    BY <1>3, <2>1, <2>2 DEF LiveStartFails, Exit
<1>4. CASE LiveInterrupted
  <2>1. PipelineTypeOK' /\ PipelineInv'
    BY <1>4, StutterFacts DEF LiveInterrupted
  <2> QED
    BY <1>4, <2>1 DEF LiveInterrupted, pipelineVars, chunkVars
<1>5. CASE LatestHeightFails
  <2>1. PipelineTypeOK'
    BY <1>5, SizeAssumption
    DEF LatestHeightFails, CanFail, PipelineTypeOK, chunkVars, cacheVars, tables, txTables, addrTables
  <2>2. MayBeUnresolved => MayBeUnresolved'
    BY <1>5, SizeAssumption DEF LatestHeightFails, MayBeUnresolved, PipelineTypeOK
  <2>3. PipelineInv'
    BY <1>5, <2>2, KeptInv DEF LatestHeightFails, chunkVars
  <2> QED
    BY <1>5, <2>1, <2>3 DEF LatestHeightFails, chunkVars
<1>6. CASE LiveCaughtUp \/ UNCHANGED vars
  <2>1. UNCHANGED pipelineVars /\ UNCHANGED liveVars /\ UNCHANGED <<stage, alive>>
    BY <1>6 DEF LiveCaughtUp, vars, pipelineVars, chunkVars
  <2>2. PipelineTypeOK' /\ PipelineInv'
    BY <2>1, StutterFacts
  <2> QED
    BY <2>1, <2>2
<1>7. CASE LiveChunk
  <2>1. PICK latestHeight \in Latest :
          CallProcessChunk(Add(lastProcessedHeight, 1), LiveChunkEnd(latestHeight))
    BY <1>7 DEF LiveChunk
  <2>2. stage = "idle"
    BY <1>7 DEF LiveChunk
  <2>3. PipelineTypeOK' /\ PipelineInv'
    BY <2>1, <2>2, ChunkArguments, CallFacts
  <2>4. currentProcessingHeight' \in Uint
    BY <1>7, <2>1, ChunkArguments DEF LiveChunk
  <2>5. alive'
    BY <1>7, <2>1 DEF LiveChunk, CallProcessChunk
  <2> QED
    BY <1>7, <2>3, <2>4, <2>5 DEF LiveChunk
<1>8. CASE LiveChunkStep
  <2>1. PipelineTypeOK' /\ PipelineInv'
    BY <1>8, ChunkStepTypeOK, ChunkStepInv DEF LiveChunkStep
  <2>2. stage' # "idle" => stage # "idle" /\ alive' = alive
    <3> USE DEF chunkVars
    <3>1. CASE FetchPanics \/ NilBlockPanic \/ DecodeFatal
      BY <3>1 DEF FetchPanics, NilBlockPanic, DecodeFatal, Exit
    <3>2. CASE FetchRange \/ CollectTransactions \/ BeginPhaseTwo \/ ChunkReturns
      BY <3>2 DEF FetchRange, CollectTransactions, BeginPhaseTwo, ChunkReturns
    <3>3. CASE \/ ProcessValidatorAddresses \/ ProcessTxHashIds \/ ProcessBlocks
               \/ ProcessValidatorSignings \/ ProcessTransactions \/ ResolveMessages
               \/ InsertAddressTx \/ MessagesReturn
               \/ \E t \in MsgTables : InsertMessageBatch(t)
      BY <3>3 DEF ProcessValidatorAddresses, ProcessTxHashIds, ProcessBlocks,
                  ProcessValidatorSignings, ProcessTransactions, ResolveMessages,
                  InsertAddressTx, MessagesReturn, InsertMessageBatch
    <3> QED
      BY <1>8, <3>1, <3>2, <3>3 DEF LiveChunkStep, ChunkStep
  <2> QED
    BY <1>8, <2>1, <2>2 DEF LiveChunkStep
<1>9. CASE LiveChunkDone
  <2>1. PipelineTypeOK' /\ PipelineInv'
    BY <1>9, ReturnFacts DEF LiveChunkDone
  <2>2. chunkEnd \in Uint
    BY DEF PipelineTypeOK
  <2> QED
    BY <1>9, <2>1, <2>2 DEF LiveChunkDone, ProcessChunkReturned
<1>10. CASE Cancel
  <2>1. PipelineTypeOK' /\ PipelineInv'
    BY <1>10, StutterFacts DEF Cancel
  <2>2. cancelled' \in BOOLEAN
    BY <1>10, Zenon DEF Cancel
  <2> QED
    BY <1>10, <2>1, <2>2 DEF Cancel, pipelineVars, chunkVars
<1>11. CASE LiveStopped
  <2>1. faults' \in 0 .. MaxFaults /\ Exit /\ (MayBeUnresolved => MayBeUnresolved')
    BY <1>11 DEF LiveStopped, PipelineTypeOK, MayBeUnresolved
  <2>2. PipelineTypeOK' /\ PipelineInv'
    BY <2>1, ExitTypeOK, ExitInv
  <2> QED
    BY <1>11, <2>1, <2>2 DEF LiveStopped, Exit
<1>12. CASE LiveCrash
  <2>1. PipelineTypeOK' /\ PipelineInv'
    BY <1>12, CrashFacts DEF LiveCrash
  <2> QED
    BY <1>12, <2>1 DEF LiveCrash, Crash, Exit
<1>13. CASE Restart
  <2>1. PipelineTypeOK' /\ PipelineInv'
    BY <1>13, BootFacts DEF Restart, Boot
  <2>2. cancelled' \in BOOLEAN
    BY <1>13, Zenon DEF Restart
  <2>3. lastProcessedHeight' \in Uint /\ currentProcessingHeight' \in Uint
    BY <1>13, SizeAssumption DEF Restart, Uint
  <2>4. stage' = "idle"
    BY <1>13 DEF Restart, Boot, chunkVars
  <2> QED
    BY <1>13, <2>1, <2>2, <2>3, <2>4 DEF Restart
<1> QED
  BY <1>1, <1>2, <1>3, <1>4, <1>5, <1>6, <1>7, <1>8, <1>9, <1>10, <1>11, <1>12, <1>13 DEF Next

\* Types, the safety of the tables and the control of the loop hold together.
THEOREM LiveInvariant == Spec => []LiveInv
  BY LiveInit, LiveStep, PTL DEF Spec

\* Every variable of live mode keeps its type.
THEOREM LiveTypeCorrect == Spec => []TypeOK
<1>1. LiveInv => TypeOK
  BY DEF LiveInv
<1> QED
  BY <1>1, LiveInvariant, PTL

\* The rows of transaction_general, address_tx and the message tables carry the id
\* that tx_hash_id has for a transaction of their block, whatever ProcessTxHashIds
\* left in txHashCache and whatever failed.
THEOREM LiveRowsNameTheirTransaction == Spec => []RowsNameTheirTransaction
<1>1. LiveInv => RowsNameTheirTransaction
  BY DEF LiveInv, PipelineInv
<1> QED
  BY <1>1, LiveInvariant, PTL

\* A message row is found by every signer and address of its transaction, because
\* ProcessMessages resolves them first and gives up when their address_tx rows cannot
\* be inserted; one that a failed call of the solver left unresolved is the id 0.
THEOREM LiveMessagesAreReachable == Spec => []MessagesAreReachable
<1>1. LiveInv => MessagesAreReachable
  BY DEF LiveInv, PipelineInv
<1> QED
  BY <1>1, LiveInvariant, PTL

\* The ids in signing and address_tx rows are ids of recorded addresses, or 0.
THEOREM LiveIdsAreRecorded == Spec => []IdsAreRecorded
<1>1. LiveInv => IdsAreRecorded
  BY DEF LiveInv, PipelineInv
<1> QED
  BY <1>1, LiveInvariant, PTL

-----------------------------------------------------------------------------
(* The cursor and the blocks table *)

\* The cursor is at or beyond every stored block; while a chunk runs it stands right
\* before the chunk, and only ProcessBlocks of this chunk can have stored more.
CursorInv ==
    /\ lastProcessedHeight \in 0 .. MaxHeight
    /\ task["ProcessBlocks"] # "idle" => stage \in {"phase2", "returned"}
    /\ alive /\ pc # "start" /\ stage = "idle" => \A h \in dbBlocks : h <= lastProcessedHeight
    /\ stage # "idle" =>
         /\ chunkStart = lastProcessedHeight + 1
         /\ chunkEnd \in 0 .. MaxHeight
         /\ blocks \subseteq chunkStart .. chunkEnd
         /\ stage # "fetch" => lastProcessedHeight <= chunkEnd
         /\ \A h \in dbBlocks :
                h <= lastProcessedHeight \/ (task["ProcessBlocks"] = "done" /\ h <= chunkEnd)

\* A chunk whose end lies before its start is so long in uint64 that make() panics.
LEMMA InvertedChunkPanics ==
    ASSUME NEW last \in 0 .. MaxHeight, chunkStart = last + 1, chunkEnd \in 0 .. MaxHeight,
           ChunkLength <= MaxSliceLen
    PROVE  last <= chunkEnd
  BY SizeAssumption DEF ChunkLength, Add, Sub

\* What is known of a chunk live mode asks for, also when the subtraction wrapped.
LEMMA LiveChunkBounds ==
    ASSUME TypeOK, lastProcessedHeight \in 0 .. MaxHeight, NEW latestHeight \in Latest
    PROVE  /\ Add(lastProcessedHeight, 1) = lastProcessedHeight + 1
           /\ LiveChunkEnd(latestHeight) \in 0 .. MaxHeight
<1>1. latestHeight \in 0 .. MaxHeight
  BY SizeAssumption DEF Latest, TypeOK, PipelineTypeOK
<1>2. LiveChunkEnd(latestHeight) <= latestHeight
  BY <1>1, ChunkArguments, SizeAssumption, UintFacts DEF LiveChunkEnd, MinOf, Uint
<1>3. LiveChunkEnd(latestHeight) \in Uint
  BY ChunkArguments
<1>4. LiveChunkEnd(latestHeight) \in 0 .. MaxHeight
  BY <1>1, <1>2, <1>3, SizeAssumption DEF Uint
<1>5. Add(lastProcessedHeight, 1) = lastProcessedHeight + 1
  BY SizeAssumption DEF Add
<1> QED
  BY <1>4, <1>5

\* ProcessBlocks is launched with phase 2 only.
LEMMA LaunchBlocks ==
    ASSUME NEW txs
    PROVE  /\ Launch(PhaseOne, txs)["ProcessBlocks"] = "idle"
           /\ Launch(PhaseTwo, txs)["ProcessBlocks"] = "run"
  BY DEF Launch, PhaseOne, PhaseTwo, Tasks, TxTasks

\* The cursor invariant holds at the start,
LEMMA CursorInit == Init => CursorInv
  BY SizeAssumption DEF Init, PipelineInit, CursorInv, Tasks, PhaseOne, PhaseTwo

\* When the process ends, nothing is left to say of its cursor.
LEMMA CursorExit ==
    ASSUME CursorInv, Exit, UNCHANGED liveVars
    PROVE  CursorInv'
<1>1. ~alive' /\ stage' = "idle" /\ task'["ProcessBlocks"] = "idle"
  BY DEF Exit, Tasks, PhaseOne, PhaseTwo
<1> QED
  BY <1>1 DEF CursorInv, liveVars

\* every step of the pipeline keeps it,
LEMMA CursorChunkStep ==
    ASSUME LiveInv, CursorInv, ChunkStep, UNCHANGED liveVars
    PROVE  CursorInv'
<1> USE DEF liveVars, chunkVars, txTables, addrTables, tables, CursorInv
<1>0. /\ PipelineTypeOK /\ task \in [Tasks -> {"idle", "run", "address_tx", "batches", "done"}]
      /\ PhasesAreApart
  BY DEF LiveInv, TypeOK, PipelineTypeOK, PipelineInv
<1>1. CASE FetchPanics \/ NilBlockPanic \/ DecodeFatal
  BY <1>1, CursorExit DEF FetchPanics, NilBlockPanic, DecodeFatal
<1>2. CASE FetchRange
  <2>1. stage = "fetch" /\ stage' # "idle" /\ stage' # "fetch" /\ ChunkLength <= MaxSliceLen
    BY <1>2 DEF FetchRange
  <2>2. lastProcessedHeight <= chunkEnd
    BY <2>1, InvertedChunkPanics
  <2>3. blocks' \subseteq chunkStart .. chunkEnd
    BY <1>2 DEF FetchRange, ChunkHeights
  <2> QED
    BY <1>2, <2>1, <2>2, <2>3 DEF FetchRange
<1>3. CASE CollectTransactions
  <2>1. task["ProcessBlocks"] = "idle" /\ task'["ProcessBlocks"] = "idle"
    BY <1>3, LaunchBlocks DEF CollectTransactions
  <2> QED
    BY <1>3, <2>1 DEF CollectTransactions
<1>4. CASE BeginPhaseTwo
  <2>1. task["ProcessBlocks"] = "idle" /\ stage' = "phase2"
    BY <1>4 DEF BeginPhaseTwo
  <2> QED
    BY <1>4, <2>1 DEF BeginPhaseTwo
<1>5. CASE ChunkReturns
  BY <1>5 DEF ChunkReturns
<1>6. CASE ProcessBlocks
  <2>1. dbBlocks' = dbBlocks \/ dbBlocks' = dbBlocks \cup blocks
    BY <1>0, <1>6, CopySteps
  <2>2. task'["ProcessBlocks"] = "done" /\ stage # "idle" /\ stage # "fetch"
    BY <1>0, <1>6 DEF ProcessBlocks, Done, Tasks, PhaseOne, PhaseTwo
  <2>3. \A h \in blocks : h <= chunkEnd
    BY <1>0, <2>2
  <2> QED
    BY <1>6, <2>1, <2>2, <2>3 DEF ProcessBlocks
<1>7. CASE \/ ProcessValidatorAddresses \/ ProcessTxHashIds \/ ProcessValidatorSignings
           \/ ProcessTransactions \/ ResolveMessages \/ InsertAddressTx \/ MessagesReturn
           \/ \E t \in MsgTables : InsertMessageBatch(t)
  <2>1. task'["ProcessBlocks"] = task["ProcessBlocks"] /\ UNCHANGED <<alive, chunkVars, dbBlocks>>
    BY <1>0, <1>7
    DEF ProcessValidatorAddresses, ProcessTxHashIds, ProcessValidatorSignings, ProcessTransactions,
        ResolveMessages, InsertAddressTx, MessagesReturn, InsertMessageBatch, Done,
        Tasks, PhaseOne, PhaseTwo
  <2> QED
    BY <2>1
<1> QED
  BY <1>1, <1>2, <1>3, <1>4, <1>5, <1>6, <1>7 DEF ChunkStep

\* and so does every step of live mode.
LEMMA CursorStep ==
    ASSUME SkipInitialDbCheck = FALSE
    PROVE  LiveInv /\ CursorInv /\ [Next]_vars => CursorInv'
<1> SUFFICES ASSUME LiveInv, CursorInv, [Next]_vars PROVE CursorInv'
  OBVIOUS
<1> USE DEF liveVars
<1>0. PipelineTypeOK /\ TypeOK /\ ChunkOnlyInLoop
  BY DEF LiveInv, TypeOK
<1>1. CASE \/ NewBlock \/ LatestHeightFails \/ LiveCaughtUp \/ Cancel \/ UNCHANGED vars
  BY <1>1 DEF NewBlock, LatestHeightFails, LiveCaughtUp, Cancel, CursorInv,
              vars, pipelineVars, chunkVars, tables
<1>2. CASE LiveStart
  <2>1. PICK h \in 0 .. MaxHeight : IsLastBlockHeight(h) /\ lastProcessedHeight' = h
    BY <1>2 DEF LiveStart
  <2>2. stage = "idle" /\ stage' = "idle" /\ dbBlocks' = dbBlocks /\ task' = task
    BY <1>0, <1>2 DEF LiveStart, ChunkOnlyInLoop, pipelineVars, chunkVars, tables
  <2> QED
    BY <2>1, <2>2 DEF CursorInv, IsLastBlockHeight
<1>3. CASE LiveStartFails \/ LiveStopped \/ LiveCrash
  BY <1>3, CursorExit DEF LiveStartFails, LiveStopped, LiveCrash, Crash
<1>4. CASE LiveInterrupted
  <2>1. alive /\ pc = "loop" /\ stage = "idle"
    BY <1>0, <1>4 DEF LiveInterrupted, ChunkOnlyInLoop
  <2> QED
    BY <1>4, <2>1 DEF LiveInterrupted, CursorInv, pipelineVars, chunkVars, tables
<1>5. CASE LiveChunk
  <2>1. PICK latestHeight \in Latest :
          CallProcessChunk(Add(lastProcessedHeight, 1), LiveChunkEnd(latestHeight))
    BY <1>5 DEF LiveChunk
  <2>2. stage = "idle" /\ alive /\ pc = "loop"
    BY <1>0, <1>5 DEF LiveChunk, ChunkOnlyInLoop
  <2>3. /\ Add(lastProcessedHeight, 1) = lastProcessedHeight + 1
        /\ LiveChunkEnd(latestHeight) \in 0 .. MaxHeight
    BY <1>0, LiveChunkBounds DEF CursorInv
  <2>4. /\ stage' = "fetch" /\ chunkStart' = lastProcessedHeight + 1 /\ chunkEnd' \in 0 .. MaxHeight
        /\ blocks' = {} /\ UNCHANGED <<task, dbBlocks, lastProcessedHeight>>
    BY <1>5, <2>1, <2>3 DEF LiveChunk, CallProcessChunk, tables
  <2> QED
    BY <2>2, <2>4 DEF CursorInv
<1>6. CASE LiveChunkStep
  BY <1>6, CursorChunkStep DEF LiveChunkStep
<1>7. CASE LiveChunkDone
  <2>1. /\ stage = "returned" /\ stage' = "idle" /\ task'["ProcessBlocks"] = "idle"
        /\ lastProcessedHeight' = chunkEnd /\ dbBlocks' = dbBlocks
    BY <1>7 DEF LiveChunkDone, ProcessChunkReturned, tables, Tasks, PhaseOne, PhaseTwo
  <2>2. chunkEnd \in 0 .. MaxHeight /\ \A h \in dbBlocks : h <= chunkEnd
    BY <1>0, <2>1, SizeAssumption DEF CursorInv, PipelineTypeOK, Heights
  <2> QED
    BY <2>1, <2>2 DEF CursorInv
<1>8. CASE Restart
  <2>1. stage' = "idle" /\ pc' = "start" /\ task' = task /\ lastProcessedHeight' = 0 /\ stage = "idle"
    BY <1>0, <1>8 DEF Restart, Boot, chunkVars, ChunkOnlyInLoop
  <2> QED
    BY <2>1, SizeAssumption DEF CursorInv
<1> QED
  BY <1>1, <1>2, <1>3, <1>4, <1>5, <1>6, <1>7, <1>8 DEF Next

\* Unless --skip-db-check is given, the cursor is at or beyond every block that is
\* stored whenever LiveProcess is at its loop head.
THEOREM LiveCursorCoversBlocks ==
    ASSUME SkipInitialDbCheck = FALSE
    PROVE  Spec => []CursorCoversBlocks
<1>1. LiveInv /\ CursorInv => CursorCoversBlocks
  BY DEF LiveInv, ChunkOnlyInLoop, CursorInv, CursorCoversBlocks
<1>2. LiveInv /\ CursorInv /\ [Next]_vars => CursorInv'
  BY CursorStep
<1> QED
  BY <1>1, <1>2, LiveInvariant, CursorInit, PTL DEF Spec

\* Unless --skip-db-check is given, the blocks ProcessBlocks copies are never in the
\* table, so that live mode never loses a chunk of blocks to a duplicate key.
THEOREM LiveBlocksNeverConflict ==
    ASSUME SkipInitialDbCheck = FALSE
    PROVE  Spec => []BlocksNeverConflict
<1>1. LiveInv /\ CursorInv => BlocksNeverConflict
  <2> SUFFICES ASSUME LiveInv, CursorInv, task["ProcessBlocks"] = "run",
                      NEW h \in blocks, h \in dbBlocks
               PROVE  FALSE
    BY DEF BlocksNeverConflict
  <2>1. h \in chunkStart .. chunkEnd /\ chunkStart = lastProcessedHeight + 1
    BY DEF CursorInv
  <2>2. h <= lastProcessedHeight
    BY DEF CursorInv
  <2> QED
    BY <2>1, <2>2 DEF CursorInv
<1>2. LiveInv /\ CursorInv /\ [Next]_vars => CursorInv'
  BY CursorStep
<1> QED
  BY <1>1, <1>2, LiveInvariant, CursorInit, PTL DEF Spec

-----------------------------------------------------------------------------
(* Crash recovery *)

\* The blocks table always holds an initial part of the chain: up to the cursor, or
\* up to the end of the chunk once ProcessBlocks is done with it.  Phase 2 is only
\* reached when every block of the chunk was fetched.
ContiguousInv ==
    /\ \E n \in 0 .. MaxHeight : dbBlocks = 1 .. n
    /\ alive /\ pc # "start" /\ stage = "idle" => dbBlocks = 1 .. lastProcessedHeight
    /\ stage # "idle" =>
         dbBlocks = IF task["ProcessBlocks"] = "done" THEN 1 .. chunkEnd ELSE 1 .. lastProcessedHeight
    /\ stage = "phase1" =>
         \/ task["ProcessValidatorAddresses"] = "run"
         \/ task["ProcessValidatorAddresses"] = "done" /\ blocks = ChunkHeights
    /\ stage = "phase2" => blocks = ChunkHeights /\ task["ProcessBlocks"] \in {"run", "done"}
    /\ stage = "returned" =>
         \/ task["ProcessBlocks"] = "done"
         \/ task["ProcessBlocks"] = "idle" /\ chunkEnd = lastProcessedHeight
    /\ SavedHeightIsIndexed

\* Only the process fails, the headers parse and the database is asked at the start.
OnlyTheProcessFails ==
    "db" \notin FaultKinds /\ BadBlocks = {} /\ SkipInitialDbCheck = FALSE

\* The contiguity invariant holds at the start,
LEMMA ContiguousInit == Init => ContiguousInv
<1> SUFFICES ASSUME Init PROVE ContiguousInv
  OBVIOUS
<1>1. dbBlocks = 1 .. 0 /\ 0 \in 0 .. MaxHeight
  BY SizeAssumption DEF Init, PipelineInit
<1> QED
  BY <1>1 DEF Init, PipelineInit, ContiguousInv, SavedHeightIsIndexed

\* the end of the process keeps it,
LEMMA ContiguousExit ==
    ASSUME ContiguousInv, Exit, UNCHANGED liveVars
    PROVE  ContiguousInv'
<1>1. ~alive' /\ stage' = "idle" /\ dbBlocks' = dbBlocks
  BY DEF Exit, tables
<1> QED
  BY <1>1 DEF ContiguousInv, SavedHeightIsIndexed, liveVars

\* ProcessValidatorAddresses is launched whatever the chunk holds.
LEMMA LaunchPhaseOne ==
    ASSUME NEW txs
    PROVE  Launch(PhaseOne, txs)["ProcessValidatorAddresses"] = "run"
  BY DEF Launch, PhaseOne, PhaseTwo, Tasks, TxTasks

\* Without database errors ProcessBlocks stores the whole chunk.
LEMMA BlocksAreCopied ==
    ASSUME OnlyTheProcessFails, LiveInv, CursorInv, ProcessBlocks
    PROVE  dbBlocks' = dbBlocks \cup blocks
<1>1. task["ProcessBlocks"] = "run"
  BY DEF ProcessBlocks
<1>2. blocks \cap dbBlocks = {}
  <2> SUFFICES ASSUME NEW h \in blocks, h \in dbBlocks PROVE FALSE
    OBVIOUS
  <2>1. h \in chunkStart .. chunkEnd /\ chunkStart = lastProcessedHeight + 1 /\ h <= lastProcessedHeight
    BY <1>1 DEF CursorInv
  <2> QED
    BY <2>1 DEF CursorInv
<1>3. ~(blocks \cap (dbBlocks \cup BadBlocks) # {}) /\ ~CanFail("db")
  BY <1>2 DEF OnlyTheProcessFails, CanFail
<1> QED
  BY <1>3 DEF ProcessBlocks, CopyFrom

\* Every step of the pipeline keeps the contiguity invariant,
LEMMA ContiguousChunkStep ==
    ASSUME OnlyTheProcessFails, LiveInv, CursorInv, ContiguousInv, ChunkStep, UNCHANGED liveVars
    PROVE  ContiguousInv'
<1> USE DEF liveVars, chunkVars, txTables, addrTables, tables, ContiguousInv
<1>0. /\ PipelineTypeOK /\ task \in [Tasks -> {"idle", "run", "address_tx", "batches", "done"}]
      /\ lastProcessedHeight \in 0 .. MaxHeight
  BY DEF LiveInv, TypeOK, PipelineTypeOK, CursorInv
<1>1. SavedHeightIsIndexed'
  BY <1>0, ChunkStepGrows DEF TablesGrow, SavedHeightIsIndexed
<1>2. CASE FetchPanics \/ NilBlockPanic \/ DecodeFatal
  BY <1>2, ContiguousExit DEF FetchPanics, NilBlockPanic, DecodeFatal
<1>3. CASE FetchRange
  <2>1. /\ stage = "fetch" /\ stage' \in {"returned", "collect"} /\ ChunkLength <= MaxSliceLen
        /\ stage' = "returned" => ChunkLength < 1
        /\ UNCHANGED <<dbBlocks, chunkEnd, task>> /\ task["ProcessBlocks"] = "idle"
    BY <1>3 DEF FetchRange, CursorInv
  <2>2. chunkStart = lastProcessedHeight + 1 /\ chunkEnd \in 0 .. MaxHeight /\ lastProcessedHeight <= chunkEnd
    BY <1>0, <2>1, InvertedChunkPanics DEF CursorInv
  <2>3. stage' = "returned" => chunkEnd = lastProcessedHeight
    BY <1>0, <2>1, <2>2, SizeAssumption DEF ChunkLength, Add, Sub
  <2> QED
    BY <1>1, <2>1, <2>3
<1>4. CASE CollectTransactions
  <2>1. /\ stage' = "phase1" /\ task'["ProcessValidatorAddresses"] = "run"
        /\ task["ProcessBlocks"] = "idle" /\ task'["ProcessBlocks"] = "idle"
        /\ stage # "idle" /\ UNCHANGED dbBlocks
    BY <1>4, LaunchPhaseOne, LaunchBlocks DEF CollectTransactions, CursorInv
  <2> QED
    BY <1>1, <2>1
<1>5. CASE BeginPhaseTwo
  <2>1. /\ stage = "phase1" /\ stage' = "phase2" /\ task'["ProcessBlocks"] = "run"
        /\ task["ProcessBlocks"] = "idle" /\ UNCHANGED <<blocks, chunkStart, chunkEnd, dbBlocks>>
    BY <1>5, LaunchBlocks DEF BeginPhaseTwo, CursorInv
  <2>2. task["ProcessValidatorAddresses"] # "run"
    BY <1>5 DEF BeginPhaseTwo, Finished, Tasks, PhaseOne, PhaseTwo
  <2> QED
    BY <1>1, <2>1, <2>2 DEF ChunkHeights
<1>6. CASE ChunkReturns
  <2>1. /\ stage = "phase2" /\ stage' = "returned" /\ task' = task
        /\ task["ProcessBlocks"] # "run" /\ UNCHANGED <<dbBlocks, chunkEnd>>
    BY <1>6 DEF ChunkReturns, Finished, Tasks, PhaseOne, PhaseTwo
  <2> QED
    BY <1>1, <2>1
<1>7. CASE ProcessValidatorAddresses
  <2>1. /\ task'["ProcessValidatorAddresses"] = "done" /\ blocks = ChunkHeights
        /\ task'["ProcessBlocks"] = task["ProcessBlocks"]
        /\ UNCHANGED <<alive, chunkVars, dbBlocks>>
    BY <1>0, <1>7 DEF ProcessValidatorAddresses, Done, Tasks, PhaseOne, PhaseTwo
  <2> QED
    BY <1>1, <2>1 DEF ChunkHeights
<1>8. CASE ProcessBlocks
  <2>1. /\ task["ProcessBlocks"] = "run" /\ task'["ProcessBlocks"] = "done"
        /\ UNCHANGED <<alive, chunkVars>>
    BY <1>0, <1>8 DEF ProcessBlocks, Done, Tasks, PhaseOne, PhaseTwo
  <2>2. /\ stage = "phase2" /\ blocks = chunkStart .. chunkEnd
        /\ dbBlocks = 1 .. lastProcessedHeight
        /\ chunkStart = lastProcessedHeight + 1 /\ chunkEnd \in 0 .. MaxHeight
        /\ lastProcessedHeight <= chunkEnd
    BY <2>1 DEF CursorInv, ChunkHeights
  <2>3. dbBlocks' = dbBlocks \cup blocks
    BY <1>8, BlocksAreCopied
  <2>4. dbBlocks' = 1 .. chunkEnd
    BY <1>0, <2>2, <2>3
  <2> QED
    BY <1>1, <2>1, <2>2, <2>4 DEF ChunkHeights
<1>9. CASE \/ ProcessTxHashIds \/ ProcessValidatorSignings
           \/ ProcessTransactions \/ ResolveMessages \/ InsertAddressTx \/ MessagesReturn
           \/ \E t \in MsgTables : InsertMessageBatch(t)
  <2>1. /\ task'["ProcessBlocks"] = task["ProcessBlocks"]
        /\ task'["ProcessValidatorAddresses"] = task["ProcessValidatorAddresses"]
        /\ UNCHANGED <<alive, chunkVars, dbBlocks>>
    BY <1>0, <1>9
    DEF ProcessTxHashIds, ProcessValidatorSignings, ProcessTransactions,
        ResolveMessages, InsertAddressTx, MessagesReturn, InsertMessageBatch, Done,
        Tasks, PhaseOne, PhaseTwo
  <2> QED
    BY <1>1, <2>1 DEF ChunkHeights
<1> QED
  BY <1>2, <1>3, <1>4, <1>5, <1>6, <1>7, <1>8, <1>9 DEF ChunkStep

\* and so does every step of live mode.
LEMMA ContiguousStep ==
    ASSUME OnlyTheProcessFails
    PROVE  LiveInv /\ CursorInv /\ ContiguousInv /\ [Next]_vars => ContiguousInv'
<1> SUFFICES ASSUME LiveInv, CursorInv, ContiguousInv, [Next]_vars PROVE ContiguousInv'
  OBVIOUS
<1> USE DEF liveVars
<1>0. PipelineTypeOK /\ TypeOK /\ ChunkOnlyInLoop /\ lastProcessedHeight \in 0 .. MaxHeight
  BY DEF LiveInv, TypeOK, CursorInv
<1>1. CASE \/ NewBlock \/ LatestHeightFails \/ LiveCaughtUp \/ Cancel \/ UNCHANGED vars
  <2>1. UNCHANGED <<alive, pc, chunkVars, task, dbBlocks, lastProcessedHeight, saved>>
    BY <1>1 DEF NewBlock, LatestHeightFails, LiveCaughtUp, Cancel, vars, pipelineVars, tables
  <2> QED
    BY <2>1 DEF ContiguousInv, SavedHeightIsIndexed, ChunkHeights, chunkVars
<1>2. CASE LiveStart
  <2>1. PICK h \in 0 .. MaxHeight : IsLastBlockHeight(h) /\ lastProcessedHeight' = h
    BY <1>2 DEF LiveStart, OnlyTheProcessFails
  <2>2. stage' = "idle" /\ dbBlocks' = dbBlocks /\ saved' = saved
    BY <1>0, <1>2 DEF LiveStart, ChunkOnlyInLoop, pipelineVars, chunkVars, tables
  <2>3. dbBlocks = 1 .. h
    <3>1. PICK n \in 0 .. MaxHeight : dbBlocks = 1 .. n
      BY DEF ContiguousInv
    <3>2. h \in 0 .. n /\ (n = 0 \/ n <= h)
      BY <2>1, <3>1 DEF IsLastBlockHeight
    <3>3. h = n
      BY <3>1, <3>2
    <3> QED
      BY <3>1, <3>3
  <2> QED
    BY <2>1, <2>2, <2>3 DEF ContiguousInv, SavedHeightIsIndexed
<1>3. CASE LiveStartFails \/ LiveStopped \/ LiveCrash
  BY <1>3, ContiguousExit DEF LiveStartFails, LiveStopped, LiveCrash, Crash
<1>4. CASE LiveInterrupted
  <2>1. alive /\ pc = "loop" /\ stage = "idle"
    BY <1>0, <1>4 DEF LiveInterrupted, ChunkOnlyInLoop
  <2>2. lastProcessedHeight = 0 \/ lastProcessedHeight \in dbBlocks
    BY <1>0, <2>1 DEF ContiguousInv
  <2>3. /\ stage' = "idle" /\ UNCHANGED <<dbBlocks, lastProcessedHeight>>
        /\ saved' = saved \cup {lastProcessedHeight}
    BY <1>4, <2>1 DEF LiveInterrupted, pipelineVars, chunkVars, tables
  <2> QED
    BY <2>1, <2>2, <2>3 DEF ContiguousInv, SavedHeightIsIndexed
<1>5. CASE LiveChunk
  <2>1. PICK latestHeight \in Latest :
          CallProcessChunk(Add(lastProcessedHeight, 1), LiveChunkEnd(latestHeight))
    BY <1>5 DEF LiveChunk
  <2>2. stage = "idle" /\ alive /\ pc = "loop"
    BY <1>0, <1>5 DEF LiveChunk, ChunkOnlyInLoop
  <2>3. stage' = "fetch" /\ UNCHANGED <<task, dbBlocks, lastProcessedHeight, saved>>
    BY <1>5, <2>1 DEF LiveChunk, CallProcessChunk, tables
  <2>4. task["ProcessBlocks"] = "idle"
    BY <2>2 DEF CursorInv
  <2> QED
    BY <2>2, <2>3, <2>4 DEF ContiguousInv, SavedHeightIsIndexed
<1>6. CASE LiveChunkStep
  BY <1>6, ContiguousChunkStep DEF LiveChunkStep
<1>7. CASE LiveChunkDone
  <2>1. /\ stage = "returned" /\ stage' = "idle"
        /\ lastProcessedHeight' = chunkEnd /\ dbBlocks' = dbBlocks /\ saved' = saved
    BY <1>7 DEF LiveChunkDone, ProcessChunkReturned, tables
  <2>2. dbBlocks = 1 .. chunkEnd
    BY <2>1 DEF ContiguousInv
  <2> QED
    BY <2>1, <2>2 DEF ContiguousInv, SavedHeightIsIndexed
<1>8. CASE Restart
  <2>1. stage' = "idle" /\ pc' = "start" /\ dbBlocks' = dbBlocks /\ saved' = saved
    BY <1>0, <1>8 DEF Restart, Boot, chunkVars, ChunkOnlyInLoop, tables
  <2> QED
    BY <2>1 DEF ContiguousInv, SavedHeightIsIndexed
<1> QED
  BY <1>1, <1>2, <1>3, <1>4, <1>5, <1>6, <1>7, <1>8 DEF Next

\* As long as only the process fails, however often it is killed, panics on a
\* missing block or dies of a transaction, restarting from the highest stored block
\* leaves no hole in blocks.
THEOREM LiveBlocksAreContiguous ==
    ASSUME OnlyTheProcessFails
    PROVE  Spec => []BlocksAreContiguous
<1>1. LiveInv /\ ContiguousInv => BlocksAreContiguous
  BY DEF LiveInv, ChunkOnlyInLoop, ContiguousInv, BlocksAreContiguous
<1>2. LiveInv /\ CursorInv /\ [Next]_vars => CursorInv'
  BY CursorStep DEF OnlyTheProcessFails
<1>3. LiveInv /\ CursorInv /\ ContiguousInv /\ [Next]_vars => ContiguousInv'
  BY ContiguousStep
<1> QED
  BY <1>1, <1>2, <1>3, LiveInvariant, CursorInit, ContiguousInit, PTL DEF Spec

\* Under the same conditions the height an interrupted live run saves is stored.
THEOREM LiveSavedHeightIsIndexed ==
    ASSUME OnlyTheProcessFails
    PROVE  Spec => []SavedHeightIsIndexed
<1>1. ContiguousInv => SavedHeightIsIndexed
  BY DEF ContiguousInv
<1>2. LiveInv /\ CursorInv /\ [Next]_vars => CursorInv'
  BY CursorStep DEF OnlyTheProcessFails
<1>3. LiveInv /\ CursorInv /\ ContiguousInv /\ [Next]_vars => ContiguousInv'
  BY ContiguousStep
<1> QED
  BY <1>1, <1>2, <1>3, LiveInvariant, CursorInit, ContiguousInit, PTL DEF Spec

-----------------------------------------------------------------------------
(* Without failures *)

\* The rows of a block and of a transaction, as the joins of the API need them.
BlockIsStored(h) ==
    /\ h \in dbBlocks /\ Proposer[h] \in dbValidators
    /\ \E s \in dbSignings : s.height = h /\ s.proposer = Proposer[h]

TxIsStored(x) ==
    /\ dbTxHash[x] # 0
    /\ [id |-> dbTxHash[x], height |-> HeightOf[x]] \in dbTxs
    /\ \A a \in AddrsOf[x] : \E r \in dbAddressTx : r.id = dbTxHash[x] /\ r.address = a

\* The tables hold the chain up to n, and none of what comes after it.
StoredUpTo(n) ==
    /\ \A h \in 1 .. n : BlockIsStored(h)
    /\ \A x \in Hashes : HeightOf[x] <= n => TxIsStored(x)

NothingBeyond(n) ==
    /\ \A h \in dbBlocks : h <= n
    /\ \A s \in dbSignings : s.height <= n
    /\ \A x \in Hashes : HeightOf[x] > n => dbTxHash[x] = 0

Synced(n) == StoredUpTo(n) /\ NothingBeyond(n)

\* The chunk was fetched as a whole.
FetchedInv ==
    /\ blocks = ChunkHeights /\ commits = ChunkHeights
    /\ stage # "collect" => transactions = {x \in Hashes : HeightOf[x] \in ChunkHeights}

\* What the goroutines of the chunk have added to the tables, one by one.
BlocksInv ==
    IF task["ProcessBlocks"] = "done"
    THEN ChunkHeights \subseteq dbBlocks /\ \A h \in dbBlocks : h <= chunkEnd
    ELSE \A h \in dbBlocks : h <= lastProcessedHeight

SigningsInv ==
    IF task["ProcessValidatorSignings"] = "done"
    THEN /\ \A s \in dbSignings : s.height <= chunkEnd
         /\ \A h \in ChunkHeights : \E s \in dbSignings : s.height = h /\ s.proposer = Proposer[h]
    ELSE \A s \in dbSignings : s.height <= lastProcessedHeight

ValidatorsInv ==
    stage = "phase2" \/ task["ProcessValidatorAddresses"] = "done" =>
        \A h \in ChunkHeights : Proposer[h] \in validatorCache

NoneStored(table) == \A r \in table : \A x \in transactions : r.id # txHashCache[x]

\* ProcessTxHashIds has still to run, or the chunk's transactions have their ids and
\* no rows other than those of the goroutines that are done.
IdsInv ==
    /\ \A x \in Hashes : HeightOf[x] > chunkEnd => dbTxHash[x] = 0
    /\ IF stage = "phase1" /\ task["ProcessTxHashIds"] = "run"
       THEN \A x \in transactions : dbTxHash[x] = 0
       ELSE /\ \A x \in transactions : txHashCache[x] # 0
            /\ task["ProcessTransactions"] # "done" => NoneStored(dbTxs)
            /\ task["ProcessMessages"] \notin {"batches", "done"} => NoneStored(dbAddressTx)

RowsInv ==
    /\ task["ProcessTransactions"] = "done" =>
         \A x \in transactions : [id |-> dbTxHash[x], height |-> HeightOf[x]] \in dbTxs
    /\ task["ProcessMessages"] = "address_tx" =>
         \A x \in transactions : AddrsOf[x] \subseteq addressCache
    /\ task["ProcessMessages"] \in {"batches", "done"} =>
         \A x \in transactions : \A a \in AddrsOf[x] :
             \E r \in dbAddressTx : r.id = dbTxHash[x] /\ r.address = a

\* Each phase has launched what the chunk needs.
LaunchedInv ==
    /\ stage = "phase1" =>
         /\ task["ProcessValidatorAddresses"] # "idle"
         /\ task["ProcessBlocks"] = "idle" /\ task["ProcessValidatorSignings"] = "idle"
         /\ task["ProcessTransactions"] = "idle" /\ task["ProcessMessages"] = "idle"
    /\ stage = "phase2" =>
         /\ task["ProcessBlocks"] # "idle" /\ task["ProcessValidatorSignings"] # "idle"
         /\ transactions # {} =>
              task["ProcessTransactions"] # "idle" /\ task["ProcessMessages"] # "idle"

InFlight ==
    /\ FetchedInv /\ StoredUpTo(lastProcessedHeight)
    /\ BlocksInv /\ SigningsInv /\ ValidatorsInv /\ IdsInv /\ RowsInv /\ LaunchedInv

\* As long as nothing failed the tables hold the chain up to the cursor, or up to the
\* highest block before a new process has read it, and the chunk in flight is whole.
SyncInv ==
    faults = 0 =>
        /\ stage # "idle" => chunkEnd <= head
        /\ stage \in {"idle", "fetch", "collect"} =>
             \E n \in 0 .. MaxHeight : Synced(n) /\ (alive /\ pc # "start" => n = lastProcessedHeight)
        /\ stage = "collect" => FetchedInv
        /\ stage \in {"phase1", "phase2"} => InFlight
        /\ stage = "returned" => Synced(chunkEnd)

\* Every block and transaction of the chain can be digested, and the database is asked
\* at the start.
SoundChain ==
    /\ BadBlocks = {} /\ BadCommits = {} /\ \A x \in Hashes : Defect[x] = "none"
    /\ SkipInitialDbCheck = FALSE

\* What is stored stays stored.
LEMMA StoredUpToStays ==
    ASSUME TablesGrow, NEW n, StoredUpTo(n)
    PROVE  StoredUpTo(n)'
<1>1. \A h \in 1 .. n : BlockIsStored(h)'
  BY DEF StoredUpTo, BlockIsStored, TablesGrow
<1>2. ASSUME NEW x \in Hashes, HeightOf[x] <= n PROVE TxIsStored(x)'
  <2>1. TxIsStored(x)
    BY <1>2 DEF StoredUpTo
  <2>2. dbTxHash[x] # 0 /\ dbTxHash'[x] = dbTxHash[x]
    BY <2>1 DEF TxIsStored, TablesGrow
  <2> QED
    BY <2>1, <2>2 DEF TxIsStored, TablesGrow
<1> QED
  BY <1>1, <1>2 DEF StoredUpTo

\* The same tables say the same.
LEMMA SameTables ==
    ASSUME UNCHANGED tables, NEW n
    PROVE  Synced(n)' <=> Synced(n)
  BY DEF tables, txTables, addrTables, Synced, StoredUpTo, NothingBeyond, BlockIsStored, TxIsStored

\* The tables are empty at first.
LEMMA SyncInit == Init => SyncInv
<1> SUFFICES ASSUME Init PROVE SyncInv
  OBVIOUS
<1>1. /\ stage = "idle" /\ pc = "start" /\ dbBlocks = {} /\ dbSignings = {}
      /\ dbTxHash = [x \in Hashes |-> 0]
  BY DEF Init, PipelineInit
<1>2. 0 \in 0 .. MaxHeight /\ 1 .. 0 = {} /\ \A x \in Hashes : ~(HeightOf[x] <= 0)
  BY SizeAssumption, ChainAssumption DEF Heights
<1>3. Synced(0)
  BY <1>1, <1>2 DEF Synced, StoredUpTo, NothingBeyond
<1> QED
  BY <1>1, <1>2, <1>3 DEF SyncInv

\* The chunk is fetched as a whole: live mode never asks for more than the node has,
LEMMA SyncFetch ==
    ASSUME SoundChain, LiveInv, CursorInv, SyncInv, faults = 0, faults' = 0,
           UNCHANGED liveVars, FetchRange \/ CollectTransactions
    PROVE  SyncInv'
<1>0. /\ lastProcessedHeight \in 0 .. MaxHeight /\ head \in 0 .. MaxHeight
      /\ stage # "idle" => alive /\ pc = "chunk" /\ chunkStart = lastProcessedHeight + 1
                           /\ chunkEnd \in 0 .. MaxHeight
  BY DEF LiveInv, TypeOK, PipelineTypeOK, CursorInv, ChunkOnlyInLoop
<1>1. /\ stage \in {"fetch", "collect"} /\ UNCHANGED <<head, alive, chunkStart, chunkEnd, tables>>
      /\ UNCHANGED <<pc, lastProcessedHeight>>
  BY DEF FetchRange, CollectTransactions, liveVars
<1>2. Synced(lastProcessedHeight) /\ chunkEnd <= head
  BY <1>0, <1>1 DEF SyncInv
<1>3. Synced(lastProcessedHeight)'
  BY <1>1, <1>2, SameTables
<1>4. ChunkHeights' = ChunkHeights
  BY <1>1 DEF ChunkHeights
<1>5. CASE FetchRange
  <2>1. stage' \in {"collect", "returned"} /\ ChunkLength <= MaxSliceLen
        /\ (stage' = "returned" => ChunkLength < 1)
    BY <1>5 DEF FetchRange
  <2>2. lastProcessedHeight <= chunkEnd /\ (stage' = "returned" => chunkEnd = lastProcessedHeight)
    BY <1>0, <1>1, <2>1, InvertedChunkPanics, SizeAssumption DEF ChunkLength, Add, Sub
  <2>3. ChunkHeights \cap (1 .. head) = ChunkHeights
    BY <1>0, <1>1, <1>2 DEF ChunkHeights
  <2>4. blocks' = ChunkHeights /\ commits' = ChunkHeights
    <3>1. blocks' = ChunkHeights \cap (1 .. head) /\ commits' = ChunkHeights \cap (1 .. head)
      BY <1>5 DEF FetchRange
    <3> QED
      BY <2>3, <3>1
  <2>5. stage' = "collect" => FetchedInv'
    BY <1>4, <2>4 DEF FetchedInv
  <2>6. stage' = "returned" => Synced(chunkEnd)'
    BY <1>1, <1>3, <2>2
  <2> QED
    BY <1>0, <1>1, <1>2, <1>3, <2>1, <2>5, <2>6 DEF SyncInv
<1>6. CASE CollectTransactions
  <2>1. /\ stage = "collect" /\ stage' = "phase1" /\ transactions' = Collectable
        /\ task' = Launch(PhaseOne, transactions') /\ UNCHANGED <<blocks, commits>>
    BY <1>6 DEF CollectTransactions
  <2>2. FetchedInv
    BY <2>1 DEF SyncInv
  <2>3. transactions' = {x \in Hashes : HeightOf[x] \in ChunkHeights}
    BY <2>1, <2>2 DEF FetchedInv, Collectable, SoundChain, BadBlocks
  <2>4. FetchedInv'
    BY <1>4, <2>1, <2>2, <2>3 DEF FetchedInv
  <2>5. /\ task'["ProcessValidatorAddresses"] = "run"
        /\ task'["ProcessBlocks"] = "idle" /\ task'["ProcessValidatorSignings"] = "idle"
        /\ task'["ProcessTransactions"] = "idle" /\ task'["ProcessMessages"] = "idle"
        /\ transactions' # {} => task'["ProcessTxHashIds"] = "run"
    BY <2>1, LaunchesEmptyToo, LaunchesForTransactions
  <2>6. StoredUpTo(lastProcessedHeight)' /\ NothingBeyond(lastProcessedHeight)'
    BY <1>3 DEF Synced
  <2>7. BlocksInv' /\ SigningsInv' /\ ValidatorsInv' /\ RowsInv' /\ LaunchedInv'
    BY <2>1, <2>5, <2>6 DEF BlocksInv, SigningsInv, ValidatorsInv, RowsInv, LaunchedInv, NothingBeyond
  <2>8. lastProcessedHeight <= chunkEnd
    BY <1>0, <2>1 DEF CursorInv
  <2>9. \A x \in Hashes : HeightOf[x] \in Nat
    BY ChainAssumption, SizeAssumption DEF Heights
  <2>10. \A x \in Hashes : HeightOf[x] > chunkEnd => dbTxHash'[x] = 0
    BY <1>0, <1>1, <2>6, <2>8, <2>9 DEF NothingBeyond
  <2>11. \A x \in transactions' : dbTxHash'[x] = 0
    BY <1>0, <1>1, <2>1, <2>3, <2>6, <2>9 DEF NothingBeyond, ChunkHeights
  <2>12. IdsInv'
    BY <1>1, <2>1, <2>5, <2>10, <2>11 DEF IdsInv, NoneStored
  <2> QED
    BY <1>1, <1>2, <2>1, <2>4, <2>6, <2>7, <2>12 DEF SyncInv, InFlight
<1> QED
  BY <1>5, <1>6

\* A call of the address solver that does not fail caches all it is asked for.
LEMMA SolverWithoutFailure ==
    ASSUME NEW requested, NEW cache, NEW table, NEW r \in AddressSolver(requested, cache, table),
           faults = 0, faults' = 0, faults' = faults + r.degraded
    PROVE  requested \subseteq r.cache
<1>1. r = [cache |-> cache \cup (requested \ cache), table |-> table \cup (requested \ cache),
           degraded |-> 0]
  <2>1. CASE r.degraded = 1
    BY <2>1
  <2> QED
    BY <2>1 DEF AddressSolver, Outcomes
<1> QED
  BY <1>1

\* Phase 1 gives the proposers of the chunk
LEMMA SyncValidators ==
    ASSUME LiveInv, PlaceInv, InFlight, faults = 0, faults' = 0, UNCHANGED liveVars,
           ProcessValidatorAddresses
    PROVE  stage' = stage /\ chunkEnd' = chunkEnd /\ head' = head /\ InFlight'
<1>0. PipelineTypeOK /\ lastProcessedHeight' = lastProcessedHeight
  BY DEF LiveInv, TypeOK, liveVars
<1>1. /\ UNCHANGED <<head, stage, chunkStart, chunkEnd, blocks, commits, transactions>>
      /\ UNCHANGED <<dbBlocks, dbSignings, dbTxHash, dbTxs, dbAddressTx, txHashCache, addressCache>>
      /\ \A t \in {"ProcessTxHashIds", "ProcessBlocks", "ProcessValidatorSignings",
                   "ProcessTransactions", "ProcessMessages"} : task'[t] = task[t]
      /\ stage = "phase1" /\ blocks = ChunkHeights /\ task'["ProcessValidatorAddresses"] = "done"
  BY <1>0, NotAboutTransactions, OwnGoroutine
  DEF ProcessValidatorAddresses, PlaceInv, chunkVars, txTables
<1> DEFINE requested == (UNION {Signers[h - 1] : h \in blocks}) \cup {Proposer[h] : h \in blocks}
<1>2. PICK r \in AddressSolver(requested, validatorCache, dbValidators) :
        validatorCache' = r.cache /\ faults' = faults + r.degraded
  BY DEF ProcessValidatorAddresses
<1>3. \A h \in ChunkHeights : Proposer[h] \in requested
  BY <1>1
<1> HIDE DEF requested
<1>4. requested \subseteq validatorCache'
  BY <1>2, SolverWithoutFailure
<1>5. ChunkHeights' = ChunkHeights
  BY <1>1 DEF ChunkHeights
<1>6. ValidatorsInv'
  BY <1>3, <1>4, <1>5 DEF ValidatorsInv
<1>7. StoredUpTo(lastProcessedHeight)'
  <2>1. StoredUpTo(lastProcessedHeight) /\ TablesGrow
    BY <1>0, ChunkStepGrows DEF InFlight, ChunkStep
  <2> QED
    BY <1>0, <2>1, StoredUpToStays
<1> QED
  BY <1>0, <1>1, <1>5, <1>6, <1>7
  DEF InFlight, FetchedInv, BlocksInv, SigningsInv, IdsInv, RowsInv, LaunchedInv, NoneStored

\* and its transactions their ids, which no row has yet.
LEMMA SyncIds ==
    ASSUME LiveInv, CursorInv, InFlight, faults = 0, faults' = 0, UNCHANGED liveVars,
           ProcessTxHashIds
    PROVE  stage' = stage /\ chunkEnd' = chunkEnd /\ head' = head /\ InFlight'
<1>0. /\ PipelineTypeOK /\ PhasesAreApart /\ RowsNameTheirTransaction
      /\ lastProcessedHeight' = lastProcessedHeight
  BY DEF LiveInv, TypeOK, PipelineInv, liveVars
<1>1. /\ UNCHANGED <<head, stage, chunkStart, chunkEnd, blocks, commits, transactions>>
      /\ UNCHANGED <<dbBlocks, dbSignings, dbTxs, dbAddressTx, validatorCache, addressCache>>
      /\ \A t \in {"ProcessValidatorAddresses", "ProcessBlocks", "ProcessValidatorSignings",
                   "ProcessTransactions", "ProcessMessages"} : task'[t] = task[t]
      /\ stage = "phase1" /\ task["ProcessTxHashIds"] = "run" /\ task'["ProcessTxHashIds"] = "done"
  BY <1>0
  DEF ProcessTxHashIds, PhasesAreApart, chunkVars, Done, PipelineTypeOK, Tasks, PhaseOne, PhaseTwo
<1>2. \A x \in transactions : dbTxHash[x] = 0
  BY <1>1 DEF InFlight, IdsInv
<1>3. PICK ids \in FreshIds(transactions) :
        /\ dbTxHash' = [x \in Hashes |-> IF x \in transactions THEN ids[x] ELSE dbTxHash[x]]
        /\ txHashCache' = [x \in Hashes |-> IF x \in transactions THEN ids[x] ELSE 0]
  BY <1>2 DEF ProcessTxHashIds
<1>4. transactions \subseteq Hashes
  BY <1>0 DEF PipelineTypeOK
<1>5. \A x \in transactions : /\ txHashCache'[x] \in TxIds
                              /\ \A y \in Hashes : txHashCache'[x] # dbTxHash[y]
  BY <1>3, <1>4 DEF FreshIds
<1>6. \A x \in transactions : txHashCache'[x] # 0
  BY <1>5, ChainAssumption
<1>7. \A r \in dbTxs \cup dbAddressTx : \E y \in Hashes : r.id = dbTxHash[y]
  BY <1>0 DEF RowsNameTheirTransaction
<1>8. NoneStored(dbTxs)' /\ NoneStored(dbAddressTx)'
  BY <1>1, <1>5, <1>7 DEF NoneStored
<1>9. ASSUME NEW x \in Hashes, HeightOf[x] > chunkEnd PROVE dbTxHash'[x] = 0
  <2>1. HeightOf[x] \in Nat /\ chunkEnd \in Nat /\ chunkStart \in Nat
    BY <1>0, ChainAssumption, SizeAssumption DEF PipelineTypeOK, Heights, Uint
  <2>2. x \notin transactions
    BY <1>1, <1>9, <2>1 DEF InFlight, FetchedInv, ChunkHeights
  <2> QED
    BY <1>3, <1>9, <2>2 DEF InFlight, IdsInv
<1>10. IdsInv'
  BY <1>1, <1>6, <1>8, <1>9 DEF IdsInv
<1>11. StoredUpTo(lastProcessedHeight)'
  <2>1. StoredUpTo(lastProcessedHeight) /\ TablesGrow
    BY <1>0, ChunkStepGrows DEF InFlight, ChunkStep
  <2> QED
    BY <1>0, <2>1, StoredUpToStays
<1>12. RowsInv'
  BY <1>1 DEF InFlight, LaunchedInv, RowsInv
<1> QED
  BY <1>0, <1>1, <1>10, <1>11, <1>12
  DEF InFlight, FetchedInv, BlocksInv, SigningsInv, ValidatorsInv, LaunchedInv, ChunkHeights

\* Phase 2 starts with the ids and the proposers at hand,
LEMMA SyncPhaseTwo ==
    ASSUME InFlight, UNCHANGED liveVars, BeginPhaseTwo
    PROVE  stage' = "phase2" /\ chunkEnd' = chunkEnd /\ head' = head /\ InFlight'
<1>1. /\ UNCHANGED <<head, chunkStart, chunkEnd, blocks, commits, transactions, tables, cacheVars>>
      /\ stage = "phase1" /\ stage' = "phase2" /\ task' = Launch(PhaseTwo, transactions)
      /\ task["ProcessValidatorAddresses"] = "done" /\ task["ProcessTxHashIds"] # "run"
      /\ lastProcessedHeight' = lastProcessedHeight
  BY DEF BeginPhaseTwo, Finished, Tasks, PhaseOne, PhaseTwo, liveVars, InFlight, LaunchedInv
<1>2. /\ task'["ProcessBlocks"] = "run" /\ task'["ProcessValidatorSignings"] = "run"
      /\ task'["ProcessTransactions"] \in {"idle", "run"} /\ task'["ProcessMessages"] \in {"idle", "run"}
      /\ transactions # {} =>
           task'["ProcessTransactions"] = "run" /\ task'["ProcessMessages"] = "run"
  BY <1>1, LaunchesEmptyToo, LaunchesForTransactions DEF Launch, Tasks, PhaseOne, PhaseTwo
<1>3. /\ task["ProcessBlocks"] = "idle" /\ task["ProcessValidatorSignings"] = "idle"
      /\ task["ProcessTransactions"] = "idle" /\ task["ProcessMessages"] = "idle"
  BY <1>1 DEF InFlight, LaunchedInv
<1>4. StoredUpTo(lastProcessedHeight)'
  BY <1>1 DEF InFlight, StoredUpTo, BlockIsStored, TxIsStored, tables, txTables, addrTables
<1>5. FetchedInv' /\ ValidatorsInv' /\ LaunchedInv' /\ RowsInv'
  BY <1>1, <1>2 DEF InFlight, FetchedInv, ValidatorsInv, LaunchedInv, RowsInv, ChunkHeights, cacheVars
<1>6. BlocksInv'
  BY <1>1, <1>2, <1>3 DEF InFlight, BlocksInv, tables
<1>7. IdsInv'
  BY <1>1, <1>2, <1>3 DEF InFlight, IdsInv, NoneStored, tables, txTables, cacheVars
<1>8. SigningsInv'
  BY <1>1, <1>2, <1>3 DEF InFlight, SigningsInv, tables
<1> QED
  BY <1>1, <1>4, <1>5, <1>6, <1>7, <1>8 DEF InFlight

\* and its goroutines store the chunk: the blocks,
LEMMA SyncBlocks ==
    ASSUME SoundChain, LiveInv, CursorInv, PlaceInv, InFlight, faults = 0, faults' = 0,
           UNCHANGED liveVars, ProcessBlocks
    PROVE  stage' = stage /\ chunkEnd' = chunkEnd /\ head' = head /\ InFlight'
<1>0. PipelineTypeOK /\ lastProcessedHeight' = lastProcessedHeight
  BY DEF LiveInv, TypeOK, liveVars
<1>1. /\ UNCHANGED <<head, stage, chunkStart, chunkEnd, blocks, commits, transactions>>
      /\ UNCHANGED <<dbSignings, dbTxHash, dbTxs, dbAddressTx, validatorCache, addressCache,
                     txHashCache>>
      /\ \A t \in {"ProcessValidatorAddresses", "ProcessTxHashIds", "ProcessValidatorSignings",
                   "ProcessTransactions", "ProcessMessages"} : task'[t] = task[t]
      /\ task["ProcessBlocks"] = "run" /\ task'["ProcessBlocks"] = "done" /\ stage = "phase2"
  BY <1>0, NotAboutTransactions, OwnGoroutine
  DEF ProcessBlocks, PlaceInv, chunkVars, txTables, cacheVars
<1>2. /\ blocks = chunkStart .. chunkEnd /\ chunkStart = lastProcessedHeight + 1
      /\ lastProcessedHeight \in Nat /\ chunkEnd \in Nat /\ lastProcessedHeight <= chunkEnd
      /\ \A h \in dbBlocks : h \in Nat /\ h <= lastProcessedHeight
  BY <1>0, <1>1, SizeAssumption
  DEF InFlight, FetchedInv, BlocksInv, CursorInv, ChunkHeights, PipelineTypeOK, Heights
<1>3. (blocks \cap (dbBlocks \cup BadBlocks) # {}) = FALSE
  BY <1>2 DEF SoundChain
<1>4. PICK r \in CopyFrom(dbBlocks, blocks, FALSE) : dbBlocks' = r.table /\ faults' = faults + r.fault
  BY <1>3 DEF ProcessBlocks
<1>5. dbBlocks' = dbBlocks \cup blocks
  BY <1>4, CleanCopy
<1>6. BlocksInv'
  BY <1>1, <1>2, <1>5 DEF BlocksInv, ChunkHeights
<1>7. StoredUpTo(lastProcessedHeight)'
  <2>1. StoredUpTo(lastProcessedHeight) /\ TablesGrow
    BY <1>0, ChunkStepGrows DEF InFlight, ChunkStep
  <2> QED
    BY <1>0, <2>1, StoredUpToStays
<1> QED
  BY <1>0, <1>1, <1>6, <1>7
  DEF InFlight, FetchedInv, SigningsInv, ValidatorsInv, IdsInv, RowsInv, LaunchedInv, NoneStored,
      ChunkHeights

\* the signings,
LEMMA SyncSignings ==
    ASSUME SoundChain, LiveInv, CursorInv, PlaceInv, InFlight, faults = 0, faults' = 0,
           UNCHANGED liveVars, ProcessValidatorSignings
    PROVE  stage' = stage /\ chunkEnd' = chunkEnd /\ head' = head /\ InFlight'
<1>0. PipelineTypeOK /\ lastProcessedHeight' = lastProcessedHeight
  BY DEF LiveInv, TypeOK, liveVars
<1>1. /\ UNCHANGED <<head, stage, chunkStart, chunkEnd, blocks, commits, transactions>>
      /\ UNCHANGED <<dbBlocks, dbTxHash, dbTxs, dbAddressTx, validatorCache, addressCache,
                     txHashCache>>
      /\ \A t \in {"ProcessValidatorAddresses", "ProcessTxHashIds", "ProcessBlocks",
                   "ProcessTransactions", "ProcessMessages"} : task'[t] = task[t]
      /\ task["ProcessValidatorSignings"] = "run" /\ task'["ProcessValidatorSignings"] = "done"
      /\ stage = "phase2"
  BY <1>0, NotAboutTransactions, OwnGoroutine
  DEF ProcessValidatorSignings, PlaceInv, chunkVars, txTables, cacheVars
<1>2. /\ commits = chunkStart .. chunkEnd /\ chunkStart = lastProcessedHeight + 1
      /\ lastProcessedHeight \in Nat /\ chunkEnd \in Nat /\ lastProcessedHeight <= chunkEnd
  BY <1>1, SizeAssumption DEF InFlight, FetchedInv, CursorInv, ChunkHeights
<1>3. \A s \in dbSignings : s.height \in Nat /\ s.height <= lastProcessedHeight
  BY <1>0, <1>1, SizeAssumption
  DEF InFlight, SigningsInv, PipelineTypeOK, SigningRow, Heights
<1>4. \A a \in SigningRows : a.height \in commits
  BY DEF SigningRows
<1>5. (\E a \in SigningRows, b \in dbSignings : a.height = b.height) = FALSE
  BY <1>2, <1>3, <1>4
<1>6. PICK r \in CopyFrom(dbSignings, SigningRows, FALSE) :
        dbSignings' = r.table /\ faults' = faults + r.fault
  BY <1>5 DEF ProcessValidatorSignings
<1>7. dbSignings' = dbSignings \cup SigningRows
  BY <1>6, CleanCopy
<1>8. ASSUME NEW h \in ChunkHeights
      PROVE  \E s \in dbSignings' : s.height = h /\ s.proposer = Proposer[h]
  <2> DEFINE row == [height |-> h, proposer |-> GetAddress(validatorCache, Proposer[h]),
                     signed |-> {GetAddress(validatorCache, v) : v \in Signers[h]}]
  <2>1. row \in SigningRows
    BY <1>2 DEF SigningRows, ChunkHeights, SoundChain
  <2>2. row.height = h /\ row.proposer = Proposer[h]
    BY <1>1 DEF InFlight, ValidatorsInv, GetAddress
  <2> QED
    BY <1>7, <2>1, <2>2
<1>9. \A s \in dbSignings' : s.height <= chunkEnd
  BY <1>2, <1>3, <1>4, <1>7
<1>10. ChunkHeights' = ChunkHeights
  BY <1>1 DEF ChunkHeights
<1>11. SigningsInv'
  BY <1>1, <1>8, <1>9, <1>10 DEF SigningsInv
<1>12. StoredUpTo(lastProcessedHeight)'
  <2>1. StoredUpTo(lastProcessedHeight) /\ TablesGrow
    BY <1>0, ChunkStepGrows DEF InFlight, ChunkStep
  <2> QED
    BY <1>0, <2>1, StoredUpToStays
<1> QED
  BY <1>0, <1>1, <1>10, <1>11, <1>12
  DEF InFlight, FetchedInv, BlocksInv, ValidatorsInv, IdsInv, RowsInv, LaunchedInv, NoneStored

\* the transactions,
LEMMA SyncTransactions ==
    ASSUME SoundChain, LiveInv, CursorInv, PlaceInv, InFlight, faults = 0, faults' = 0,
           UNCHANGED liveVars, ProcessTransactions
    PROVE  stage' = stage /\ chunkEnd' = chunkEnd /\ head' = head /\ InFlight'
<1>0. PipelineTypeOK /\ CachesAgree /\ lastProcessedHeight' = lastProcessedHeight
  BY DEF LiveInv, TypeOK, PipelineInv, liveVars
<1>1. /\ UNCHANGED <<head, stage, chunkStart, chunkEnd, blocks, commits, transactions>>
      /\ UNCHANGED <<dbBlocks, dbSignings, dbTxHash, dbAddressTx, validatorCache, addressCache,
                     txHashCache>>
      /\ \A t \in {"ProcessValidatorAddresses", "ProcessTxHashIds", "ProcessBlocks",
                   "ProcessValidatorSignings", "ProcessMessages"} : task'[t] = task[t]
      /\ task["ProcessTransactions"] = "run" /\ task'["ProcessTransactions"] = "done"
      /\ stage = "phase2"
  BY <1>0
  DEF ProcessTransactions, PlaceInv, chunkVars, cacheVars, Done, PipelineTypeOK, Tasks, PhaseOne,
      PhaseTwo
<1>2. \A x \in transactions : x \in Hashes /\ txHashCache[x] # 0 /\ txHashCache[x] = dbTxHash[x]
  BY <1>0, <1>1 DEF InFlight, IdsInv, CachesAgree, PipelineTypeOK
<1>3. NoneStored(dbTxs)
  BY <1>1 DEF InFlight, IdsInv
<1>4. (TransactionRows \cap dbTxs # {}) = FALSE
  BY <1>3 DEF TransactionRows, NoneStored
<1>5. PICK r \in CopyFrom(dbTxs, TransactionRows, FALSE) :
        dbTxs' = r.table /\ faults' = faults + r.fault
  BY <1>4 DEF ProcessTransactions
<1>6. dbTxs' = dbTxs \cup TransactionRows
  BY <1>5, CleanCopy
<1>7. \A x \in transactions : [id |-> dbTxHash[x], height |-> HeightOf[x]] \in TransactionRows
  <2> SUFFICES ASSUME NEW x \in transactions
               PROVE  [id |-> txHashCache[x], height |-> HeightOf[x]] \in TransactionRows
    BY <1>2
  <2>1. txHashCache[x] # 0 /\ Defect[x] # "result"
    BY <1>2 DEF SoundChain
  <2> QED
    BY <2>1 DEF TransactionRows
<1>8. IdsInv' /\ RowsInv'
  BY <1>1, <1>6, <1>7 DEF InFlight, IdsInv, RowsInv, NoneStored
<1>9. StoredUpTo(lastProcessedHeight)'
  <2>1. StoredUpTo(lastProcessedHeight) /\ TablesGrow
    BY <1>0, ChunkStepGrows DEF InFlight, ChunkStep
  <2> QED
    BY <1>0, <2>1, StoredUpToStays
<1> QED
  BY <1>0, <1>1, <1>8, <1>9
  DEF InFlight, FetchedInv, BlocksInv, SigningsInv, ValidatorsInv, LaunchedInv, ChunkHeights

\* and the messages, whose addresses go to address_tx first.
LEMMA SyncMessages ==
    ASSUME SoundChain, LiveInv, CursorInv, InFlight, faults = 0, faults' = 0, UNCHANGED liveVars,
           \/ ResolveMessages \/ InsertAddressTx \/ MessagesReturn
           \/ \E t \in MsgTables : InsertMessageBatch(t)
    PROVE  stage' = stage /\ chunkEnd' = chunkEnd /\ head' = head /\ InFlight'
<1>0. /\ PipelineTypeOK /\ CachesAgree /\ PhasesAreApart /\ lastProcessedHeight' = lastProcessedHeight
      /\ task \in [Tasks -> {"idle", "run", "address_tx", "batches", "done"}]
  BY DEF LiveInv, TypeOK, PipelineInv, PipelineTypeOK, liveVars
<1>1. /\ UNCHANGED <<head, stage, chunkStart, chunkEnd, blocks, commits, transactions>>
      /\ UNCHANGED <<dbBlocks, dbSignings, dbTxHash, dbTxs, validatorCache, txHashCache>>
      /\ \A t \in {"ProcessValidatorAddresses", "ProcessTxHashIds", "ProcessBlocks",
                   "ProcessValidatorSignings", "ProcessTransactions"} : task'[t] = task[t]
      /\ stage = "phase2" /\ task'["ProcessMessages"] # "idle"
  <2> USE DEF chunkVars, cacheVars, txTables, tables, Tasks, PhaseOne, PhaseTwo, Done, PhasesAreApart
  <2>1. CASE ResolveMessages
    BY <1>0, <2>1 DEF ResolveMessages
  <2>2. CASE InsertAddressTx
    BY <1>0, <2>2 DEF InsertAddressTx
  <2>3. CASE MessagesReturn
    BY <1>0, <2>3 DEF MessagesReturn
  <2>4. CASE \E t \in MsgTables : InsertMessageBatch(t)
    BY <1>0, <2>4 DEF InsertMessageBatch
  <2> QED
    BY <2>1, <2>2, <2>3, <2>4
<1>2. /\ \A x \in transactions : x \in Hashes /\ txHashCache[x] # 0 /\ txHashCache[x] = dbTxHash[x]
      /\ Converted = transactions
  BY <1>0, <1>1 DEF InFlight, IdsInv, CachesAgree, PipelineTypeOK, Converted
<1>3. \/ /\ task["ProcessMessages"] = "run" /\ task'["ProcessMessages"] = "address_tx"
         /\ dbAddressTx' = dbAddressTx
         /\ \A x \in transactions : AddrsOf[x] \subseteq addressCache'
      \/ /\ task["ProcessMessages"] = "address_tx" /\ task'["ProcessMessages"] = "batches"
         /\ dbAddressTx' = dbAddressTx \cup AddressTxRows
      \/ /\ task["ProcessMessages"] = "batches" /\ task'["ProcessMessages"] \in {"batches", "done"}
         /\ dbAddressTx' = dbAddressTx
  <2>1. CASE ResolveMessages
    <3> DEFINE requested == UNION {AddrsOf[x] : x \in transactions}
    <3>1. PICK r \in AddressSolver(requested, addressCache, dbAddresses) :
            addressCache' = r.cache /\ faults' = faults + r.degraded
      BY <2>1 DEF ResolveMessages
    <3>2. \A x \in transactions : AddrsOf[x] \subseteq requested
      OBVIOUS
    <3> HIDE DEF requested
    <3>3. requested \subseteq addressCache'
      BY <3>1, SolverWithoutFailure
    <3>4. ~ \E x \in Converted : Defect[x] = "conversion"
      BY <1>2 DEF SoundChain
    <3>5. /\ task["ProcessMessages"] = "run" /\ dbAddressTx' = dbAddressTx
          /\ task'["ProcessMessages"] = "address_tx"
      BY <1>0, <2>1, <3>4 DEF ResolveMessages, txTables, Tasks, PhaseOne, PhaseTwo
    <3> QED
      BY <3>2, <3>3, <3>5
  <2>2. CASE InsertAddressTx
    <3>1. task["ProcessMessages"] = "address_tx"
      BY <2>2 DEF InsertAddressTx
    <3>2. NoneStored(dbAddressTx)
      BY <1>1, <3>1 DEF InFlight, IdsInv
    <3>3. \A a \in AddressTxRows : \E x \in transactions : a.id = txHashCache[x]
      BY <1>2 DEF AddressTxRows
    <3>4. (AddressTxRows \cap dbAddressTx # {}) = FALSE
      BY <3>2, <3>3 DEF NoneStored
    <3>5. PICK r \in CopyFrom(dbAddressTx, AddressTxRows, FALSE) :
            /\ dbAddressTx' = r.table /\ faults' = faults + r.fault
            /\ task' = [task EXCEPT !["ProcessMessages"] = IF r.ok THEN "batches" ELSE "done"]
      BY <2>2, <3>4 DEF InsertAddressTx
    <3>6. r.table = dbAddressTx \cup AddressTxRows /\ r.ok
      BY <3>5, CleanCopy
    <3>7. task'["ProcessMessages"] = "batches"
      BY <1>0, <3>5, <3>6 DEF Tasks, PhaseOne, PhaseTwo
    <3> QED
      BY <3>1, <3>5, <3>6, <3>7
  <2>3. CASE MessagesReturn \/ \E t \in MsgTables : InsertMessageBatch(t)
    BY <1>0, <2>3
    DEF MessagesReturn, InsertMessageBatch, Done, tables, txTables, Tasks, PhaseOne, PhaseTwo
  <2> QED
    BY <2>1, <2>2, <2>3
<1>4. dbAddressTx' = dbAddressTx \cup AddressTxRows /\ task["ProcessMessages"] = "address_tx" =>
        \A x \in transactions : \A a \in AddrsOf[x] :
            \E r \in dbAddressTx' : r.id = dbTxHash[x] /\ r.address = a
  <2> SUFFICES ASSUME dbAddressTx' = dbAddressTx \cup AddressTxRows,
                      task["ProcessMessages"] = "address_tx",
                      NEW x \in transactions, NEW a \in AddrsOf[x]
               PROVE  \E r \in dbAddressTx' : r.id = dbTxHash[x] /\ r.address = a
    OBVIOUS
  <2> DEFINE row == [id |-> txHashCache[x], height |-> HeightOf[x],
                     address |-> GetAddress(addressCache, a)]
  <2>1. row \in AddressTxRows
    BY <1>2 DEF AddressTxRows
  <2>2. row.id = dbTxHash[x] /\ row.address = a
    BY <1>2 DEF InFlight, RowsInv, GetAddress
  <2> QED
    BY <2>1, <2>2
<1>5. RowsInv'
  <2>1. /\ task'["ProcessTransactions"] = "done" =>
             \A x \in transactions : [id |-> dbTxHash[x], height |-> HeightOf[x]] \in dbTxs
        /\ task'["ProcessMessages"] = "address_tx" =>
             \A x \in transactions : AddrsOf[x] \subseteq addressCache'
    BY <1>1, <1>3 DEF InFlight, RowsInv
  <2>2. task'["ProcessMessages"] \in {"batches", "done"} =>
          \A x \in transactions : \A a \in AddrsOf[x] :
              \E r \in dbAddressTx' : r.id = dbTxHash[x] /\ r.address = a
    BY <1>3, <1>4 DEF InFlight, RowsInv
  <2> QED
    BY <1>1, <2>1, <2>2 DEF RowsInv
<1>6. IdsInv'
  BY <1>1, <1>3 DEF InFlight, IdsInv, NoneStored
<1>7. StoredUpTo(lastProcessedHeight)'
  <2>1. StoredUpTo(lastProcessedHeight) /\ TablesGrow
    BY <1>0, ChunkStepGrows DEF InFlight, ChunkStep
  <2> QED
    BY <1>0, <2>1, StoredUpToStays
<1> QED
  BY <1>0, <1>1, <1>5, <1>6, <1>7
  DEF InFlight, FetchedInv, BlocksInv, SigningsInv, ValidatorsInv, LaunchedInv, ChunkHeights

\* When the goroutines of phase 2 are done the chunk is stored.
LEMMA SyncReturns ==
    ASSUME LiveInv, CursorInv, InFlight, ChunkReturns
    PROVE  stage' = "returned" /\ chunkEnd' = chunkEnd /\ head' = head /\ Synced(chunkEnd)'
<1>0. PipelineTypeOK /\ CachesAgree
  BY DEF LiveInv, TypeOK, PipelineInv
<1>1. /\ stage = "phase2" /\ stage' = "returned" /\ UNCHANGED <<chunkEnd, head, tables>>
      /\ task["ProcessBlocks"] = "done" /\ task["ProcessValidatorSignings"] = "done"
      /\ transactions # {} => task["ProcessTransactions"] = "done" /\ task["ProcessMessages"] = "done"
  BY DEF ChunkReturns, Finished, Tasks, PhaseOne, PhaseTwo, InFlight, LaunchedInv
<1>2. /\ lastProcessedHeight \in Nat /\ chunkEnd \in Nat /\ lastProcessedHeight <= chunkEnd
      /\ chunkStart = lastProcessedHeight + 1
      /\ \A x \in Hashes : HeightOf[x] \in Nat
  BY <1>1, ChainAssumption, SizeAssumption DEF CursorInv, Heights
<1>3. ASSUME NEW h \in 1 .. chunkEnd PROVE BlockIsStored(h)
  <2>1. CASE h <= lastProcessedHeight
    BY <1>2, <2>1 DEF InFlight, StoredUpTo
  <2>2. CASE h \in ChunkHeights
    BY <1>0, <1>1, <2>2
    DEF InFlight, BlocksInv, SigningsInv, ValidatorsInv, CachesAgree, BlockIsStored
  <2> QED
    BY <1>2, <2>1, <2>2 DEF ChunkHeights
<1>4. ASSUME NEW x \in Hashes, HeightOf[x] <= chunkEnd PROVE TxIsStored(x)
  <2>1. CASE HeightOf[x] <= lastProcessedHeight
    BY <2>1 DEF InFlight, StoredUpTo
  <2>2. CASE HeightOf[x] \in ChunkHeights
    <3>1. x \in transactions
      BY <1>1, <2>2 DEF InFlight, FetchedInv
    <3>2. dbTxHash[x] # 0
      BY <1>0, <1>1, <3>1 DEF InFlight, IdsInv, CachesAgree
    <3> QED
      BY <1>1, <3>1, <3>2 DEF InFlight, RowsInv, TxIsStored
  <2> QED
    BY <1>2, <1>4, <2>1, <2>2 DEF ChunkHeights
<1>5. NothingBeyond(chunkEnd)
  BY <1>1 DEF InFlight, BlocksInv, SigningsInv, IdsInv, NothingBeyond
<1>6. Synced(chunkEnd)
  BY <1>3, <1>4, <1>5 DEF Synced, StoredUpTo
<1> QED
  BY <1>1, <1>6, SameTables

\* A step of processChunk keeps the tables in step with the cursor.
LEMMA SyncChunkStep ==
    ASSUME SoundChain, LiveInv, CursorInv, PlaceInv, SyncInv, LiveChunkStep
    PROVE  SyncInv'
<1> SUFFICES ASSUME faults' = 0 PROVE SyncInv'
  BY DEF SyncInv
<1>0. /\ PipelineTypeOK /\ PhasesAreApart /\ ChunkStep /\ UNCHANGED liveVars
      /\ transactions \subseteq Hashes
  BY DEF LiveInv, TypeOK, PipelineTypeOK, PipelineInv, LiveChunkStep
<1>1. faults = 0
  BY <1>0, FaultsStay
<1>2. stage \in {"phase1", "phase2"} => InFlight
  BY <1>1 DEF SyncInv
<1>3. stage # "idle" => chunkEnd <= head
  BY <1>1 DEF SyncInv
<1>4. ASSUME stage \in {"phase1", "phase2"}, stage' \in {"phase1", "phase2"},
             chunkEnd' = chunkEnd, head' = head, InFlight'
      PROVE  SyncInv'
  BY <1>3, <1>4 DEF SyncInv
<1>5. CASE FetchPanics
  <2>1. stage = "fetch" /\ stage' = "idle" /\ ~alive' /\ UNCHANGED tables
    BY <1>5 DEF FetchPanics, Exit
  <2>2. PICK n \in 0 .. MaxHeight : Synced(n)
    BY <1>1, <2>1 DEF SyncInv
  <2>3. Synced(n)'
    BY <2>1, <2>2, SameTables
  <2> QED
    BY <2>1, <2>3 DEF SyncInv
<1>6. CASE NilBlockPanic
  <2>1. task["ProcessValidatorAddresses"] = "run" /\ blocks # ChunkHeights
    BY <1>6 DEF NilBlockPanic
  <2>2. stage = "phase1"
    BY <2>1 DEF PlaceInv
  <2> QED
    BY <1>2, <2>1, <2>2 DEF InFlight, FetchedInv
<1>7. CASE DecodeFatal
  BY <1>0, <1>7 DEF DecodeFatal, SoundChain
<1>8. CASE FetchRange \/ CollectTransactions
  BY <1>0, <1>1, <1>8, SyncFetch
<1>9. CASE ProcessValidatorAddresses
  <2>1. stage = "phase1"
    BY <1>9 DEF ProcessValidatorAddresses, PlaceInv
  <2> QED
    BY <1>0, <1>1, <1>2, <1>4, <1>9, <2>1, SyncValidators
<1>10. CASE ProcessTxHashIds
  <2>1. stage = "phase1"
    BY <1>0, <1>10 DEF ProcessTxHashIds, PhasesAreApart
  <2> QED
    BY <1>0, <1>1, <1>2, <1>4, <1>10, <2>1, SyncIds
<1>11. CASE BeginPhaseTwo
  <2>1. stage = "phase1"
    BY <1>11 DEF BeginPhaseTwo
  <2> QED
    BY <1>0, <1>2, <1>4, <1>11, <2>1, SyncPhaseTwo
<1>12. CASE ProcessBlocks
  <2>1. stage = "phase2"
    BY <1>12 DEF ProcessBlocks, PlaceInv
  <2> QED
    BY <1>0, <1>1, <1>2, <1>4, <1>12, <2>1, SyncBlocks
<1>13. CASE ProcessValidatorSignings
  <2>1. stage = "phase2"
    BY <1>13 DEF ProcessValidatorSignings, PlaceInv
  <2> QED
    BY <1>0, <1>1, <1>2, <1>4, <1>13, <2>1, SyncSignings
<1>14. CASE ProcessTransactions
  <2>1. stage = "phase2"
    BY <1>14 DEF ProcessTransactions, PlaceInv
  <2> QED
    BY <1>0, <1>1, <1>2, <1>4, <1>14, <2>1, SyncTransactions
<1>15. CASE \/ ResolveMessages \/ InsertAddressTx \/ MessagesReturn
            \/ \E t \in MsgTables : InsertMessageBatch(t)
  <2>1. stage = "phase2"
    BY <1>0, <1>15
    DEF ResolveMessages, InsertAddressTx, MessagesReturn, InsertMessageBatch, PhasesAreApart
  <2> QED
    BY <1>0, <1>1, <1>2, <1>4, <1>15, <2>1, SyncMessages
<1>16. CASE ChunkReturns
  <2>1. stage = "phase2"
    BY <1>16 DEF ChunkReturns
  <2>2. stage' = "returned" /\ chunkEnd' = chunkEnd /\ head' = head /\ Synced(chunkEnd)'
    BY <1>2, <1>16, <2>1, SyncReturns
  <2> QED
    BY <1>3, <2>1, <2>2 DEF SyncInv
<1> QED
  BY <1>0, <1>5, <1>6, <1>7, <1>8, <1>9, <1>10, <1>11, <1>12, <1>13, <1>14, <1>15, <1>16 DEF ChunkStep

\* The goroutines are in their phases, and the cursor is 0 until it has been read.
LoopInv == PlaceInv /\ (pc = "start" => lastProcessedHeight = 0)

LEMMA LoopInit == Init => LoopInv
  BY DEF Init, PipelineInit, LoopInv, PlaceInv, Tasks, PhaseOne, PhaseTwo

LEMMA LoopStep == LiveInv /\ LoopInv /\ [Next]_vars => LoopInv'
<1> SUFFICES ASSUME LiveInv, LoopInv, [Next]_vars PROVE LoopInv'
  OBVIOUS
<1> USE DEF LoopInv, liveVars
<1>1. PlaceInv'
  <2>0. PipelineTypeOK /\ ChunkOnlyInLoop
    BY DEF LiveInv, TypeOK
  <2>1. CASE NewBlock \/ LatestHeightFails
    BY <2>1 DEF NewBlock, LatestHeightFails, PlaceInv, chunkVars
  <2>2. CASE LiveStart \/ LiveInterrupted \/ LiveCaughtUp \/ Cancel \/ UNCHANGED vars
    BY <2>2, PlaceLoopStep DEF LiveStart, LiveInterrupted, LiveCaughtUp, Cancel, vars
  <2>3. CASE LiveChunk
    <3>1. stage = "idle" /\ task' = task
      BY <2>0, <2>3 DEF LiveChunk, CallProcessChunk, ChunkOnlyInLoop
    <3> QED
      BY <3>1 DEF PlaceInv
  <2>4. CASE LiveChunkStep
    BY <2>0, <2>4, PlaceChunkStep DEF LiveChunkStep
  <2>5. CASE LiveStartFails \/ LiveChunkDone \/ LiveStopped \/ LiveCrash \/ Restart
    BY <2>5, PlaceLoopStep
    DEF LiveStartFails, LiveChunkDone, LiveStopped, LiveCrash, Crash, Restart
  <2> QED
    BY <2>1, <2>2, <2>3, <2>4, <2>5 DEF Next
<1>2. pc' = "start" => lastProcessedHeight' = 0
  BY DEF Next, NewBlock, LiveStart, LiveStartFails, LiveInterrupted, LatestHeightFails, LiveCaughtUp,
         LiveChunk, LiveChunkStep, LiveChunkDone, Cancel, LiveStopped, LiveCrash, Restart, vars
<1> QED
  BY <1>1, <1>2

\* A failure of live mode, too, stays counted.
LEMMA LiveFaultsStay ==
    ASSUME LiveInv, [Next]_vars, faults' = 0
    PROVE  faults = 0
<1>0. PipelineTypeOK /\ faults \in Nat
  BY SizeAssumption DEF LiveInv, TypeOK, PipelineTypeOK
<1>1. CASE LiveChunkStep
  BY <1>0, <1>1, FaultsStay DEF LiveChunkStep
<1>2. CASE LiveStartFails \/ LatestHeightFails \/ LiveCrash \/ Restart
  BY <1>0, <1>2 DEF LiveStartFails, LatestHeightFails, LiveCrash, Crash, Restart, Boot
<1>3. CASE \/ NewBlock \/ LiveStart \/ LiveInterrupted \/ LiveCaughtUp \/ LiveChunk
           \/ LiveChunkDone \/ Cancel \/ LiveStopped \/ UNCHANGED vars
  BY <1>3
  DEF NewBlock, LiveStart, LiveInterrupted, LiveCaughtUp, LiveChunk, CallProcessChunk, LiveChunkDone,
      ProcessChunkReturned, Cancel, LiveStopped, vars, pipelineVars
<1> QED
  BY <1>1, <1>2, <1>3 DEF Next

\* What GetLastBlockHeight answers when the tables hold the chain up to n.
LEMMA LastBlockIsSynced ==
    ASSUME PipelineTypeOK, NEW n \in 0 .. MaxHeight, Synced(n),
           NEW h \in 0 .. MaxHeight, IsLastBlockHeight(h)
    PROVE  h = n
<1>1. \A g \in 1 .. n : g \in dbBlocks
  BY DEF Synced, StoredUpTo, BlockIsStored
<1>2. \A g \in dbBlocks : g \in Nat /\ g >= 1 /\ g <= n /\ g <= h
  BY SizeAssumption DEF Synced, NothingBeyond, PipelineTypeOK, Heights, IsLastBlockHeight
<1>3. h = 0 \/ h \in dbBlocks
  BY DEF IsLastBlockHeight
<1> QED
  BY <1>1, <1>2, <1>3, SizeAssumption

\* The end of the process leaves the tables as they are.
LEMMA SyncExit ==
    ASSUME stage = "idle", SyncInv, faults' = faults, Exit
    PROVE  SyncInv'
<1> SUFFICES ASSUME faults = 0 PROVE SyncInv'
  BY DEF SyncInv
<1>1. PICK n \in 0 .. MaxHeight : Synced(n)
  BY DEF SyncInv
<1>2. stage' = "idle" /\ ~alive' /\ Synced(n)'
  BY <1>1, SameTables DEF Exit
<1> QED
  BY <1>2 DEF SyncInv

\* So does every step of live mode.
LEMMA SyncStep ==
    ASSUME SoundChain
    PROVE  LiveInv /\ CursorInv /\ LoopInv /\ SyncInv /\ [Next]_vars => SyncInv'
<1> SUFFICES ASSUME LiveInv, CursorInv, LoopInv, SyncInv, [Next]_vars PROVE SyncInv'
  OBVIOUS
<1>0. /\ PipelineTypeOK /\ TypeOK /\ ChunkOnlyInLoop /\ faults \in Nat
      /\ lastProcessedHeight \in 0 .. MaxHeight /\ head \in 0 .. MaxHeight
  BY SizeAssumption DEF LiveInv, TypeOK, PipelineTypeOK, CursorInv
<1>1. CASE NewBlock
  <2>1. /\ head' = head + 1 /\ UNCHANGED <<alive, stage, chunkStart, chunkEnd, blocks, commits>>
        /\ UNCHANGED <<transactions, task, validatorCache, addressCache, txHashCache, tables, faults>>
        /\ UNCHANGED <<pc, lastProcessedHeight>>
    BY <1>1 DEF NewBlock, chunkVars, cacheVars, liveVars
  <2>2. \A n \in 0 .. MaxHeight : Synced(n)' <=> Synced(n)
    BY <2>1, SameTables
  <2>3. Synced(chunkEnd)' <=> Synced(chunkEnd)
    BY <2>1, SameTables DEF Synced, StoredUpTo, NothingBeyond
  <2>4. FetchedInv => FetchedInv'
    BY <2>1 DEF FetchedInv, ChunkHeights
  <2>5. StoredUpTo(lastProcessedHeight) => StoredUpTo(lastProcessedHeight)'
    BY <2>1 DEF StoredUpTo, BlockIsStored, TxIsStored, tables, txTables, addrTables
  <2>6. InFlight => InFlight'
    BY <2>1, <2>4, <2>5
    DEF InFlight, BlocksInv, SigningsInv, ValidatorsInv, IdsInv, RowsInv, LaunchedInv, NoneStored,
        ChunkHeights, tables, txTables, addrTables
  <2>7. stage # "idle" /\ chunkEnd <= head => chunkEnd <= head + 1
    BY <1>0 DEF CursorInv
  <2> QED
    BY <2>1, <2>2, <2>3, <2>4, <2>6, <2>7 DEF SyncInv
<1>2. CASE LiveStart
  <2>1. /\ alive /\ pc = "start" /\ pc' = "loop" /\ stage = "idle"
        /\ UNCHANGED <<stage, alive, tables, faults>>
    BY <1>0, <1>2 DEF LiveStart, pipelineVars, chunkVars, ChunkOnlyInLoop
  <2>2. PICK h \in 0 .. MaxHeight : IsLastBlockHeight(h) /\ lastProcessedHeight' = h
    BY <1>2 DEF LiveStart, SoundChain
  <2> SUFFICES ASSUME faults = 0 PROVE SyncInv'
    BY <2>1 DEF SyncInv
  <2>3. PICK n \in 0 .. MaxHeight : Synced(n)
    BY <2>1 DEF SyncInv
  <2>4. lastProcessedHeight' = n
    BY <1>0, <2>2, <2>3, LastBlockIsSynced
  <2>5. Synced(n)'
    BY <2>1, <2>3, SameTables
  <2> QED
    BY <2>1, <2>4, <2>5 DEF SyncInv
<1>3. CASE LiveStartFails \/ LatestHeightFails \/ LiveCrash
  <2>1. faults' = faults + 1
    BY <1>3 DEF LiveStartFails, LatestHeightFails, LiveCrash, Crash
  <2> QED
    BY <1>0, <2>1 DEF SyncInv
<1>4. CASE LiveInterrupted \/ LiveCaughtUp \/ Cancel \/ UNCHANGED vars
  <2>1. /\ UNCHANGED pipelineVars /\ lastProcessedHeight' = lastProcessedHeight
        /\ pc' = "start" <=> pc = "start"
    BY <1>4 DEF LiveInterrupted, LiveCaughtUp, Cancel, vars, liveVars
  <2>2. /\ UNCHANGED <<head, alive, stage, chunkStart, chunkEnd, blocks, commits>>
        /\ UNCHANGED <<transactions, task, validatorCache, addressCache, txHashCache, faults>>
        /\ UNCHANGED <<dbBlocks, dbSignings, dbTxHash, dbTxs, dbAddressTx, dbValidators>>
    BY <2>1 DEF pipelineVars, chunkVars, cacheVars, tables, txTables, addrTables
  <2>3. /\ \A n : Synced(n)' <=> Synced(n)
        /\ FetchedInv' <=> FetchedInv
    BY <2>2
    DEF Synced, StoredUpTo, NothingBeyond, BlockIsStored, TxIsStored, FetchedInv, ChunkHeights
  <2>4. InFlight => InFlight'
    BY <2>1, <2>2
    DEF InFlight, FetchedInv, BlocksInv, SigningsInv, ValidatorsInv, IdsInv, RowsInv, LaunchedInv,
        NoneStored, ChunkHeights, StoredUpTo, BlockIsStored, TxIsStored
  <2> QED
    BY <2>1, <2>2, <2>3, <2>4 DEF SyncInv
<1>5. CASE LiveChunk
  <2>1. PICK latestHeight \in Latest :
          CallProcessChunk(Add(lastProcessedHeight, 1), LiveChunkEnd(latestHeight))
    BY <1>5 DEF LiveChunk
  <2>2. /\ alive /\ pc = "loop" /\ pc' = "chunk" /\ stage = "idle" /\ stage' = "fetch"
        /\ chunkEnd' = LiveChunkEnd(latestHeight)
        /\ UNCHANGED <<head, alive, tables, faults, lastProcessedHeight>>
    BY <1>0, <1>5, <2>1 DEF LiveChunk, CallProcessChunk, ChunkOnlyInLoop
  <2>3. LiveChunkEnd(latestHeight) <= latestHeight /\ latestHeight \in 0 .. head
    BY <1>0, ChunkArguments, SizeAssumption, UintFacts DEF LiveChunkEnd, MinOf, Uint, Latest
  <2>4. LiveChunkEnd(latestHeight) \in 0 .. MaxHeight
    BY <1>0, LiveChunkBounds
  <2>5. chunkEnd' <= head'
    BY <1>0, <2>2, <2>3, <2>4
  <2>6. faults = 0 => Synced(lastProcessedHeight)
    BY <2>2 DEF SyncInv
  <2>7. faults = 0 => Synced(lastProcessedHeight)'
    BY <2>2, <2>6, SameTables
  <2> QED
    BY <1>0, <2>2, <2>5, <2>7 DEF SyncInv
<1>6. CASE LiveChunkStep
  BY <1>6, SyncChunkStep DEF LoopInv
<1>7. CASE LiveChunkDone
  <2>1. /\ stage = "returned" /\ stage' = "idle" /\ lastProcessedHeight' = chunkEnd
        /\ UNCHANGED <<tables, faults>> /\ chunkEnd \in 0 .. MaxHeight
    BY <1>7 DEF LiveChunkDone, ProcessChunkReturned, CursorInv
  <2>2. faults = 0 => Synced(chunkEnd)
    BY <2>1 DEF SyncInv
  <2>3. faults = 0 => \E n \in 0 .. MaxHeight : Synced(n)' /\ n = lastProcessedHeight'
    BY <2>1, <2>2, SameTables
  <2> QED
    BY <2>1, <2>3 DEF SyncInv
<1>8. CASE LiveStopped
  <2>1. stage = "idle" /\ Exit /\ faults' = faults
    BY <1>0, <1>8 DEF LiveStopped, ChunkOnlyInLoop
  <2> QED
    BY <2>1, SyncExit
<1>9. CASE Restart
  <2>1. stage = "idle" /\ stage' = "idle" /\ pc' = "start" /\ UNCHANGED tables
        /\ (faults' = faults \/ faults' = faults + 1)
    BY <1>0, <1>9 DEF Restart, Boot, chunkVars, ChunkOnlyInLoop
  <2> SUFFICES ASSUME faults' = 0 PROVE SyncInv'
    BY DEF SyncInv
  <2>2. faults = 0
    BY <1>0, <2>1
  <2>3. PICK n \in 0 .. MaxHeight : Synced(n)
    BY <2>1, <2>2 DEF SyncInv
  <2>4. Synced(n)'
    BY <2>1, <2>3, SameTables
  <2> QED
    BY <2>1, <2>4 DEF SyncInv
<1> QED
  BY <1>1, <1>2, <1>3, <1>4, <1>5, <1>6, <1>7, <1>8, <1>9 DEF Next

\* "It will sync up the database to the latest block height": as long as nothing has
\* failed, every height up to the cursor has its block, its signings and its
\* transactions when the loop is at its head.  The signal of an operator is not a
\* failure: also a run that was interrupted and started again is in step.
THEOREM LiveSyncedToCursor ==
    ASSUME SoundChain
    PROVE  Spec => [](faults = 0 => SyncedToCursor)
<1>1. LiveInv /\ CursorInv /\ SyncInv => (faults = 0 => SyncedToCursor)
  <2> SUFFICES ASSUME LiveInv, CursorInv, SyncInv, faults = 0, alive, pc = "loop"
               PROVE  SyncedToCursor
    BY DEF SyncedToCursor
  <2>1. stage = "idle"
    BY DEF LiveInv, ChunkOnlyInLoop
  <2>2. StoredUpTo(lastProcessedHeight)
    BY <2>1 DEF SyncInv, Synced
  <2> QED
    BY <2>2 DEF SyncedToCursor, StoredUpTo, BlockIsStored, TxIsStored
<1>2. LiveInv /\ CursorInv /\ [Next]_vars => CursorInv'
  BY CursorStep DEF SoundChain
<1>3. LiveInv /\ CursorInv /\ LoopInv /\ SyncInv /\ [Next]_vars => SyncInv'
  BY SyncStep
<1> QED
  BY <1>1, <1>2, <1>3, LiveInvariant, CursorInit, LoopInit, LoopStep, SyncInit, PTL DEF Spec

=============================================================================

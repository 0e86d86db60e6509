------------------------------ MODULE Shutdown ------------------------------
(***************************************************************************)
(* How the indexer process ends: the goroutine of StartListening, which    *)
(* takes one signal and then shuts down, beside the main goroutine, which  *)
(* is somewhere in LiveProcess or HistoricProcess and exits the process    *)
(* when it returns.                                                        *)
(*                                                                         *)
(* A chunk is one height; Writers are the goroutines that insert its rows. *)
(* A writer holds a connection while it inserts, and closing the pool      *)
(* refuses new connections and waits for the ones that are held.           *)
(***************************************************************************)
EXTENDS Naturals

CONSTANTS
    Writers,        \* goroutines that insert the rows of a chunk
    Top,            \* last height of the chain, or ToHeight
    MaxSignals,     \* bound: signals sent to the process
    MaxFaults       \* bound: fetches and inserts that fail by themselves

ASSUME ShutdownAssumption ==
    /\ Writers # {} /\ Top \in Nat \ {0}
    /\ MaxSignals \in Nat /\ MaxFaults \in Nat

Heights == 1 .. Top

VARIABLES
    mode,       \* RunningMode
    main,       \* where the main goroutine is
    start,      \* the last height before the first chunk
    last,       \* lastProcessedHeight, startHeight - 1 in historic mode
    current,    \* or.currentProcessingHeight, read by the other goroutine
    writer,     \* where the goroutines of the chunk are
    rows,       \* the database: which writers stored their rows of a height
    lost,       \* history: and which ones the database refused
    wg,         \* shutdownWg
    cancelled,  \* the context of the signal handler
    inbox,      \* signalChan, one slot
    handler,    \* where the goroutine of StartListening is
    pool,       \* the connection pool
    saved,      \* state_dumps: what was saved
    timedOut,   \* the 30 seconds of gracefulShutdown ran out
    exit,       \* how the process ended
    signals, faults

mainVars == <<main, start, last, current, writer, rows, lost, wg>>
handlerVars == <<cancelled, handler, pool, timedOut>>
vars == <<mode, mainVars, handlerVars, inbox, saved, exit, signals, faults>>

AtWork == {"fetch", "write"}

Init ==
    /\ mode \in {"live", "historic"}
    /\ main = "starting" /\ start = 0 /\ last = 0 /\ current = 0
    /\ writer = [w \in Writers |-> "idle"]
    /\ rows = [h \in Heights |-> {}] /\ lost = [h \in Heights |-> {}]
    /\ wg = 0 /\ cancelled = FALSE /\ inbox = "none"
    /\ handler = "listening" /\ pool = "open"
    /\ saved = {} /\ timedOut = FALSE
    /\ exit = "running"
    /\ signals = 0 /\ faults = 0

Fails == faults < MaxFaults /\ faults' = faults + 1

-----------------------------------------------------------------------------
(* The main goroutine *)

\* Mutant of RegisterOperation: the caller and the callee register.
RegisterTwice ==
    /\ exit = "running" /\ main = "starting"
    /\ wg' = wg + 2
    /\ main' = "init"
    /\ current' = IF mode = "live" THEN 0 ELSE 1
    /\ UNCHANGED <<mode, start, last, writer, rows, lost, handlerVars, inbox, saved, exit, signals, faults>>

\* RegisterOperation and the first assignments of LiveProcess or HistoricProcess.
RegisterOperation ==
    /\ exit = "running" /\ main = "starting"
    /\ wg' = wg + 1
    /\ main' = "init"
    /\ current' = IF mode = "live" THEN 0 ELSE 1
    /\ UNCHANGED <<mode, start, last, writer, rows, lost, handlerVars, inbox, saved, exit, signals, faults>>

Begins(h) ==
    /\ main' = "loop" /\ start' = h /\ last' = h
    /\ current' = IF mode = "live" THEN h ELSE current
    /\ UNCHANGED <<mode, writer, rows, lost, wg, handlerVars, inbox, saved, exit, signals>>

\* The starting height: from the database, whose error is fatal, from the chain
\* with --skip-initial-db-check, whose error returns, or from the flags.
InitialHeight ==
    /\ exit = "running" /\ main = "init"
    /\ \/ /\ mode = "live" /\ pool = "open"
          /\ Begins(0) /\ UNCHANGED faults
       \/ /\ mode = "live" /\ ((pool # "open" /\ UNCHANGED faults) \/ Fails)
          /\ exit' = "fatal"
          /\ UNCHANGED <<mode, mainVars, handlerVars, inbox, saved, signals>>
       \/ /\ mode = "live" /\ \E h \in 0 .. Top : Begins(h)
          /\ UNCHANGED faults
       \/ /\ mode = "live" /\ Fails
          /\ main' = "complete"
          /\ UNCHANGED <<mode, start, last, current, writer, rows, lost, wg, handlerVars,
                         inbox, saved, exit, signals>>
       \/ /\ mode = "historic"
          /\ Begins(0) /\ UNCHANGED faults

Save(reason, h) == saved' \in {saved, saved \cup {[reason |-> reason, height |-> h]}}

\* The select at the top of the loop finds the context cancelled; live mode saves
\* its state, if the file can be written.
Interrupted ==
    /\ exit = "running" /\ main = "loop" /\ cancelled
    /\ main' = "complete"
    /\ IF mode = "live" THEN Save("live_interrupted", last) ELSE UNCHANGED saved
    /\ UNCHANGED <<mode, start, last, current, writer, rows, lost, wg, handlerVars, inbox, exit,
                   signals, faults>>

\* There is a next chunk.
BeginChunk ==
    /\ exit = "running" /\ main = "loop" /\ ~cancelled
    /\ last < Top
    /\ main' = "fetch"
    /\ current' = last + 1
    /\ UNCHANGED <<mode, start, last, writer, rows, lost, wg, handlerVars, inbox, saved, exit,
                   signals, faults>>

\* HistoricProcess is through; live mode polls on.
Finished ==
    /\ exit = "running" /\ main = "loop" /\ ~cancelled
    /\ mode = "historic" /\ last = Top
    /\ main' = "complete"
    /\ UNCHANGED <<mode, start, last, current, writer, rows, lost, wg, handlerVars, inbox, saved,
                   exit, signals, faults>>

\* Blocks, commits and transactions are there, and the inserts begin.
Fetched ==
    /\ exit = "running" /\ main = "fetch"
    /\ main' = "write"
    /\ writer' = [w \in Writers |-> "ready"]
    /\ UNCHANGED <<mode, start, last, current, rows, lost, wg, handlerVars, inbox, saved, exit,
                   signals, faults>>

\* A block that could not be fetched is a nil slot, and the process panics on it.
FetchFails ==
    /\ exit = "running" /\ main = "fetch" /\ Fails
    /\ exit' = "panic"
    /\ UNCHANGED <<mode, mainVars, handlerVars, inbox, saved, signals>>

\* A goroutine gets a connection, or the pool is closed and it fails.
Acquire(w) ==
    /\ exit = "running" /\ main = "write" /\ writer[w] = "ready"
    /\ writer' = [writer EXCEPT ![w] = IF pool = "open" THEN "holding" ELSE "failed"]
    /\ UNCHANGED <<mode, main, start, last, current, rows, lost, wg, handlerVars, inbox, saved,
                   exit, signals, faults>>

\* The insert ends, by its deadline at the latest, and the connection goes back.
Insert(w) ==
    /\ exit = "running" /\ main = "write" /\ writer[w] = "holding"
    /\ \/ /\ writer' = [writer EXCEPT ![w] = "stored"]
          /\ rows' = [rows EXCEPT ![last + 1] = @ \cup {w}]
          /\ UNCHANGED <<lost, faults>>
       \/ /\ Fails
          /\ writer' = [writer EXCEPT ![w] = "failed"]
          /\ lost' = [lost EXCEPT ![last + 1] = @ \cup {w}]
          /\ UNCHANGED rows
    /\ UNCHANGED <<mode, main, start, last, current, wg, handlerVars, inbox, saved, exit, signals>>

\* Mutant of EndChunk: processAll returns with its first goroutine.
EndChunkAtFirst ==
    /\ exit = "running" /\ main = "write"
    /\ \E w \in Writers : writer[w] \in {"stored", "failed"}
    /\ main' = "loop"
    /\ last' = last + 1
    /\ writer' = [w \in Writers |-> "idle"]
    /\ UNCHANGED <<mode, start, current, rows, lost, wg, handlerVars, inbox, saved, exit,
                   signals, faults>>

\* processAll waits for its goroutines and returns nil whatever became of them, so
\* the height moves on.
EndChunk ==
    /\ exit = "running" /\ main = "write"
    /\ \A w \in Writers : writer[w] \in {"stored", "failed"}
    /\ main' = "loop"
    /\ last' = last + 1
    /\ writer' = [w \in Writers |-> "idle"]
    /\ UNCHANGED <<mode, start, current, rows, lost, wg, handlerVars, inbox, saved, exit,
                   signals, faults>>

OperationComplete ==
    /\ exit = "running" /\ main = "complete"
    /\ wg' = wg - 1
    /\ main' = "returned"
    /\ UNCHANGED <<mode, start, last, current, writer, rows, lost, handlerVars, inbox, saved, exit,
                   signals, faults>>

\* InitMainOperator returned to main, and main returns.
MainReturns ==
    /\ exit = "running" /\ main = "returned"
    /\ exit' = "main"
    /\ UNCHANGED <<mode, mainVars, handlerVars, inbox, saved, signals, faults>>

-----------------------------------------------------------------------------
(* The goroutine of StartListening *)

\* SIGINT and SIGTERM are "term", SIGQUIT is "quit".  A signal that finds the slot
\* of the channel taken is dropped, and so is every signal after the first.
Signal ==
    /\ exit = "running" /\ signals < MaxSignals
    /\ signals' = signals + 1
    /\ \E s \in {"term", "quit"} : inbox' = IF inbox = "none" THEN s ELSE inbox
    /\ UNCHANGED <<mode, mainVars, handlerVars, saved, exit, faults>>

\* Mutant of Receive: the context is cancelled when the wait is over.
ReceiveCancelsLate ==
    /\ exit = "running" /\ handler = "listening" /\ inbox # "none"
    /\ inbox' = "none"
    /\ handler' = IF inbox = "term" THEN "waiting" ELSE "dumping"
    /\ UNCHANGED <<mode, mainVars, cancelled, pool, timedOut, saved, exit, signals, faults>>

\* The first lines of gracefulShutdown and emergencyShutdown.
Receive ==
    /\ exit = "running" /\ handler = "listening" /\ inbox # "none"
    /\ inbox' = "none"
    /\ cancelled' = TRUE
    /\ handler' = IF inbox = "term" THEN "waiting" ELSE "dumping"
    /\ UNCHANGED <<mode, mainVars, pool, timedOut, saved, exit, signals, faults>>

\* shutdownWg.Wait returned.
OperationsDone ==
    /\ exit = "running" /\ handler = "waiting" /\ wg = 0
    /\ handler' = "cleanup"
    /\ UNCHANGED <<mode, mainVars, cancelled, pool, timedOut, inbox, saved, exit, signals, faults>>

\* Mutant of ShutdownTimeout: the clock starts when the operations are done.
TimeoutTooLate ==
    /\ exit = "running" /\ handler = "waiting" /\ wg = 0
    /\ handler' = "cleanup" /\ timedOut' = TRUE
    /\ UNCHANGED <<mode, mainVars, cancelled, pool, inbox, saved, exit, signals, faults>>

\* time.After(shutdownTimeout)
ShutdownTimeout ==
    /\ exit = "running" /\ handler = "waiting"
    /\ handler' = "cleanup" /\ timedOut' = TRUE
    /\ UNCHANGED <<mode, mainVars, cancelled, pool, inbox, saved, exit, signals, faults>>

\* Orchestrator.Cleanup: the height the main goroutine is at, whatever it does.
OrchestratorCleanup ==
    /\ exit = "running" /\ handler = "cleanup"
    /\ Save("cleanup_requested", current)
    /\ handler' = "close"
    /\ UNCHANGED <<mode, mainVars, cancelled, pool, timedOut, inbox, exit, signals, faults>>

\* MajorConstructors.cleanup: the pool refuses connections from now on.
ClosePool ==
    /\ exit = "running" /\ handler = "close"
    /\ pool' = "closing" /\ handler' = "closing"
    /\ UNCHANGED <<mode, mainVars, cancelled, timedOut, inbox, saved, exit, signals, faults>>

\* The last connection came back; the RPC client is closed and the process exits.
GracefulExit ==
    /\ exit = "running" /\ handler = "closing"
    /\ \A w \in Writers : writer[w] # "holding"
    /\ pool' = "closed" /\ exit' = "graceful"
    /\ UNCHANGED <<mode, mainVars, cancelled, handler, timedOut, inbox, saved, signals, faults>>

\* DumpState of the orchestrator; its diagnostics and those of the major
\* constructors are files that nothing reads back.
DumpState == Save("emergency_dump", current)

\* The rest of emergencyShutdown.
EmergencyExit ==
    /\ exit = "running" /\ handler = "dumping"
    /\ DumpState
    /\ exit' = "emergency"
    /\ UNCHANGED <<mode, mainVars, handlerVars, inbox, signals, faults>>

-----------------------------------------------------------------------------

Handle == Receive \/ OperationsDone \/ ShutdownTimeout \/ OrchestratorCleanup \/ ClosePool
          \/ GracefulExit \/ EmergencyExit

Next ==
    \/ RegisterOperation \/ InitialHeight \/ Interrupted \/ BeginChunk \/ Finished
    \/ Fetched \/ FetchFails \/ EndChunk \/ OperationComplete \/ MainReturns
    \/ \E w \in Writers : Acquire(w) \/ Insert(w)
    \/ Signal
    \/ Receive \/ OperationsDone \/ ShutdownTimeout \/ OrchestratorCleanup \/ ClosePool
    \/ GracefulExit \/ EmergencyExit

Spec == Init /\ [][Next]_vars

\* The handler's goroutine runs, its timer fires, and every insert has a deadline.
\* Nothing is asked of the main goroutine: a fetch may hang for ever.
FairSpec ==
    /\ Spec
    /\ WF_vars(Handle)
    /\ \A w \in Writers : WF_vars(Insert(w))

-----------------------------------------------------------------------------

Reasons == {"live_interrupted", "cleanup_requested", "emergency_dump"}

\* Every variable has its type; the wait group is 0 or 1.
TypeOK ==
    /\ mode \in {"live", "historic"}
    /\ main \in {"starting", "init", "loop", "complete", "returned"} \cup AtWork
    /\ start \in 0 .. Top /\ last \in 0 .. Top /\ current \in 0 .. Top
    /\ writer \in [Writers -> {"idle", "ready", "holding", "stored", "failed"}]
    /\ rows \in [Heights -> SUBSET Writers] /\ lost \in [Heights -> SUBSET Writers]
    /\ wg \in {0, 1} /\ cancelled \in BOOLEAN
    /\ inbox \in {"none", "term", "quit"}
    /\ handler \in {"listening", "waiting", "cleanup", "close", "closing", "dumping"}
    /\ pool \in {"open", "closing", "closed"}
    /\ saved \subseteq [reason : Reasons, height : 0 .. Top]
    /\ timedOut \in BOOLEAN
    /\ exit \in {"running", "main", "graceful", "emergency", "fatal", "panic"}
    /\ signals \in 0 .. MaxSignals /\ faults \in 0 .. MaxFaults

\* Unless the 30 seconds have run out, or SIGQUIT asked for it, neither does the
\* process end nor does the pool close while a chunk is being worked on; also when
\* the signal came before the operation was registered and nothing is waited for.
NothingCutShort ==
    (exit \in {"main", "graceful", "fatal"} \/ pool # "open") /\ ~timedOut
        => main \notin AtWork

\* A state file can be trusted, from whichever goroutine it comes: shutting down
\* cost no row of a height below the saved one, nor of the saved one itself with
\* live_interrupted; what is missing, the database refused.  Only after the 30
\* seconds is a chunk that met the closed pool passed over and counted as done.
SavedIsIndexed ==
    ~timedOut => \A s \in saved : \A h \in Heights :
        /\ start < h
        /\ h < s.height \/ (h = s.height /\ s.reason = "live_interrupted")
        => rows[h] \cup lost[h] = Writers

\* A process that got a signal ends, although fetches may hang and closing the
\* pool waits for the inserts.
EndsAfterSignal == (inbox # "none") ~> (exit # "running")

\* hook.go: "SIGINT (Ctrl+C) and SIGTERM: graceful shutdown with cleanup".
ShutdownCleansUp ==
    cancelled /\ handler # "dumping" /\ exit \in {"main", "graceful"} => pool = "closed"

=============================================================================

----------------------------- MODULE AddressCache -----------------------------
(***************************************************************************)
(* AddressCache in detail: AddressSolver looks the missing addresses up,   *)
(* inserts the ones without a row, up to retryAttempts times, and reads    *)
(* their ids back.  Every call to the database is an action: it may fail,  *)
(* with or without effect, and another indexer may insert in between.      *)
(***************************************************************************)
EXTENDS Naturals

CONSTANTS
    Addresses,
    RetryAttempts,  \* a uint8; the data processor passes 3
    MaxFaults,      \* bound: failing database calls
    MaxRivals       \* bound: inserts by another indexer

ASSUME CacheAssumption ==
    RetryAttempts \in 0 .. 255 /\ MaxFaults \in Nat /\ MaxRivals \in Nat

VARIABLES
    cache,      \* the keys of AddressCache.address
    table,      \* gno_addresses or gno_validators: UNIQUE (address, chain_name)
    step,       \* where AddressSolver is
    asked,      \* its argument
    oneByOne,   \* its argument
    toAdd,      \* what syncExistingFromDB returned
    attempt,    \* loop variable of insertWithRetry
    left,       \* what insertOneByOne still has to insert
    failed,     \* history: a database call of this AddressSolver failed
    contended,  \* history: another indexer inserted an address of its batch
    before,     \* history: cache, asked and degraded when it was called
    mine,       \* history: rows it has inserted
    faults, rivals

solverVars == <<step, asked, oneByOne, toAdd, attempt, left>>
historyVars == <<failed, contended, before, mine>>
vars == <<cache, table, solverVars, historyVars, faults, rivals>>

\* Every variable of the solver holds a value of its type.
TypeOK ==
    /\ cache \subseteq Addresses /\ table \subseteq Addresses
    /\ step \in {"ready", "sync", "insert", "single", "fetch"}
    /\ asked \subseteq Addresses /\ oneByOne \in BOOLEAN
    /\ toAdd \subseteq Addresses /\ left \subseteq Addresses
    /\ attempt \in 0 .. RetryAttempts
    /\ failed \in BOOLEAN /\ contended \in BOOLEAN
    /\ before \in [cache : SUBSET Addresses, asked : SUBSET Addresses, degraded : BOOLEAN]
    /\ mine \subseteq Addresses
    /\ faults \in 0 .. MaxFaults /\ rivals \in 0 .. MaxRivals

\* The call was not the sound one: a call to the database failed, or the batch
\* met a row of another indexer and nothing was there to split it.
Degraded == failed \/ (contended /\ ~oneByOne)

Init ==
    /\ cache = {} /\ table = {}
    /\ step = "ready" /\ asked = {} /\ oneByOne = FALSE
    /\ toAdd = {} /\ attempt = 0 /\ left = {}
    /\ failed = FALSE /\ contended = FALSE /\ mine = {}
    /\ before = [cache |-> {}, asked |-> {}, degraded |-> FALSE]
    /\ faults = 0 /\ rivals = 0

-----------------------------------------------------------------------------

\* One database call: it works, or it fails and this is noted.
Works == UNCHANGED <<faults, failed>>
Fails == faults < MaxFaults /\ faults' = faults + 1 /\ failed' = TRUE

\* FindExistingAccounts: the rows of the addresses.  rows.Err() is not looked at,
\* so a stream that breaks is a shorter answer without an error.
FindExistingAccounts(addresses, found) ==
    \/ found = addresses \cap table /\ Works
    \/ found \in SUBSET (addresses \cap table) /\ Fails

\* findUncached finds something to do.
Call ==
    /\ step = "ready"
    /\ \E requested \in SUBSET Addresses :
         requested \ cache # {} /\ asked' = requested
    /\ oneByOne' \in BOOLEAN
    /\ step' = "sync" /\ toAdd' = {} /\ attempt' = 0 /\ left' = {}
    /\ failed' = FALSE /\ contended' = FALSE /\ mine' = {}
    /\ before' = [cache |-> cache, asked |-> asked, degraded |-> Degraded]
    /\ UNCHANGED <<cache, table, faults, rivals>>

\* syncExistingFromDB: an error leaves nothing to insert and nothing to fetch.
SyncExistingFromDB ==
    /\ step = "sync"
    /\ \/ \E found \in SUBSET Addresses :
            /\ FindExistingAccounts(asked \ cache, found)
            /\ cache' = cache \cup found
            /\ toAdd' = asked \ cache'
            /\ step' = IF toAdd' = {} THEN "ready"
                       ELSE IF RetryAttempts = 0 THEN "fetch" ELSE "insert"
       \/ /\ Fails
          /\ step' = "ready"
          /\ UNCHANGED <<cache, toAdd>>
    /\ UNCHANGED <<table, asked, oneByOne, attempt, left, contended, before, mine, rivals>>

\* InsertAddresses: the rows that one COPY adds, and whether it is answered.
InsertAddresses(addresses, added, ok) ==
    \/ /\ addresses \cap table = {} /\ added = addresses /\ ok
       /\ Works
    \/ /\ addresses \cap table # {} /\ added = {} /\ ~ok
       /\ Works
    \/ /\ added \in {{}, IF addresses \cap table = {} THEN addresses ELSE {}} /\ ~ok
       /\ Fails

\* Mutant of InsertWithRetry: the last error ends the call before the ids are read.
InsertWithRetryGivesUp ==
    /\ step = "insert"
    /\ \E added \in {{}, toAdd}, ok \in BOOLEAN :
         /\ InsertAddresses(toAdd, added, ok)
         /\ table' = table \cup added /\ mine' = mine \cup added
         /\ attempt' = attempt + 1
         /\ step' = IF ok THEN "fetch" ELSE IF attempt' < RetryAttempts THEN "insert" ELSE "ready"
    /\ UNCHANGED cache
    /\ UNCHANGED <<asked, oneByOne, toAdd, left, contended, before, rivals>>

\* Mutant of InsertWithRetry: one attempt too many.
InsertWithRetryOnceMore ==
    /\ step = "insert"
    /\ \E added \in {{}, toAdd}, ok \in BOOLEAN :
         /\ InsertAddresses(toAdd, added, ok)
         /\ table' = table \cup added /\ mine' = mine \cup added
         /\ attempt' = attempt + 1
         /\ step' = IF ok \/ attempt >= RetryAttempts THEN "fetch" ELSE "insert"
    /\ UNCHANGED cache
    /\ UNCHANGED <<asked, oneByOne, toAdd, left, contended, before, rivals>>

\* Mutant of InsertWithRetry: it retries until it succeeds.
InsertWithRetryUncounted ==
    /\ step = "insert"
    /\ \E added \in {{}, toAdd}, ok \in BOOLEAN :
         /\ InsertAddresses(toAdd, added, ok)
         /\ table' = table \cup added /\ mine' = mine \cup added
         /\ attempt' = attempt
         /\ step' = IF ok THEN "fetch" ELSE "insert"
    /\ UNCHANGED cache
    /\ UNCHANGED <<asked, oneByOne, toAdd, left, contended, before, rivals>>

\* Mutant of InsertWithRetry: the batch is cached before it is inserted.
InsertWithRetryCaches ==
    /\ step = "insert"
    /\ \E added \in {{}, toAdd}, ok \in BOOLEAN :
         /\ InsertAddresses(toAdd, added, ok)
         /\ table' = table \cup added /\ mine' = mine \cup added
         /\ attempt' = attempt + 1
         /\ step' = IF ok \/ attempt + 1 >= RetryAttempts THEN "fetch" ELSE "insert"
    /\ cache' = cache \cup toAdd
    /\ UNCHANGED <<asked, oneByOne, toAdd, left, contended, before, rivals>>

\* insertWithRetry: one attempt.  The fallback follows the last one.
InsertWithRetry ==
    /\ step = "insert"
    /\ \E added \in {{}, toAdd}, ok \in BOOLEAN :
         /\ InsertAddresses(toAdd, added, ok)
         /\ table' = table \cup added /\ mine' = mine \cup added
         /\ attempt' = attempt + 1
         /\ step' = IF ok THEN "fetch"
                    ELSE IF attempt' < RetryAttempts THEN "insert"
                    ELSE IF oneByOne THEN "single" ELSE "fetch"
         /\ left' = IF step' = "single" THEN toAdd ELSE {}
    /\ UNCHANGED <<cache, asked, oneByOne, toAdd, contended, before, rivals>>

\* insertOneByOne: a failing address does not stop the others.
InsertOneByOne ==
    /\ step = "single"
    /\ \E a \in left :
         /\ left' = left \ {a}
         /\ \E added \in {{}, {a}}, ok \in BOOLEAN :
              /\ InsertAddresses({a}, added, ok)
              /\ table' = table \cup added /\ mine' = mine \cup added
    /\ step' = IF left' = {} THEN "fetch" ELSE "single"
    /\ UNCHANGED <<cache, asked, oneByOne, toAdd, attempt, contended, before, rivals>>

\* fetchAndCacheInserted: the ids are read back whatever the inserts answered.
FetchAndCacheInserted ==
    /\ step = "fetch"
    /\ \/ \E found \in SUBSET Addresses :
            /\ FindExistingAccounts(toAdd, found)
            /\ cache' = cache \cup found
       \/ /\ Fails
          /\ UNCHANGED cache
    /\ step' = "ready"
    /\ UNCHANGED <<table, asked, oneByOne, toAdd, attempt, left, contended, before, mine, rivals>>

\* Another indexer, on another range of the same chain, inserts an address.
RivalInserts ==
    /\ rivals < MaxRivals /\ rivals' = rivals + 1
    /\ \E a \in Addresses \ table :
         /\ table' = table \cup {a}
         /\ contended' = (contended \/ (step = "insert" /\ a \in toAdd))
    /\ UNCHANGED <<cache, solverVars, failed, before, mine, faults>>

\* The process dies and a new one loads the cache with GetAllAddresses.
Restart ==
    /\ \/ cache' = table /\ UNCHANGED faults
       \/ faults < MaxFaults /\ faults' = faults + 1 /\ cache' \in SUBSET table
    /\ step' = "ready" /\ asked' = {} /\ oneByOne' = FALSE
    /\ toAdd' = {} /\ attempt' = 0 /\ left' = {}
    /\ failed' = FALSE /\ contended' = FALSE /\ mine' = {}
    /\ before' = [cache |-> {}, asked |-> {}, degraded |-> FALSE]
    /\ UNCHANGED <<table, rivals>>

AddressSolver ==
    \/ SyncExistingFromDB \/ InsertWithRetry \/ InsertOneByOne \/ FetchAndCacheInserted

Next == Call \/ AddressSolver \/ RivalInserts \/ Restart

Spec == Init /\ [][Next]_vars

\* Every database call of AddressSolver has a timeout, so each of its steps ends.
FairSpec == Spec /\ WF_vars(AddressSolver)

-----------------------------------------------------------------------------

\* AddressSolver implements the one-step promise that Pipeline relies on: its
\* effect appears when it returns, and unless it was degraded every address it was
\* asked for then has an id in table and cache, however its retries, a lost answer
\* of a COPY and the inserts of another indexer fell together.
Promise == INSTANCE AddressSolverSpec WITH
    cache <- IF step = "ready" THEN cache ELSE before.cache,
    table <- IF step = "ready" THEN table ELSE table \ mine,
    asked <- IF step = "ready" THEN asked ELSE before.asked,
    degraded <- IF step = "ready" THEN Degraded ELSE before.degraded

KeepsPromise == Promise!Spec

\* GetAddress never answers an id that no row has: whatever an insert, a retry or
\* the fallback did, the cache only learns what a query of the table returned.
CacheIsRecorded ==
    cache \subseteq table

\* Every call returns: the retries and the fallback are bounded.
SolverReturns == step # "ready" ~> step = "ready"

-----------------------------------------------------------------------------
(* A statement of the repository that the code does not keep *)

\* "If the addresses are not in the cache, it will add them to the cache"
\* (AddressSolver): without a failing call, for the arguments the data processor
\* passes (oneByOne is nil), the addresses asked for are in the cache on return.
AddsThemToTheCache ==
    step = "ready" /\ ~failed /\ ~oneByOne => asked \subseteq cache

=============================================================================

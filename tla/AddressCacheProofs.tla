------------------------- MODULE AddressCacheProofs -------------------------
(***************************************************************************)
(* Theorems about AddressSolver, for every set of addresses, number of     *)
(* retries, of failing calls and of inserts by other indexers.             *)
(***************************************************************************)
EXTENDS AddressCache, TLAPS

\* attempt counts the COPYs that were made, and one more is allowed when the solver
\* is about to make it.  The batch was asked for, the rows it added are in the table.
CacheInv ==
    /\ TypeOK
    /\ step = "sync" => attempt = 0 /\ left = {}
    /\ step = "insert" => attempt < RetryAttempts
    /\ toAdd \subseteq asked /\ left \subseteq toAdd
    /\ mine \subseteq table
    /\ CacheIsRecorded

\* A database call, failing or not, keeps the bound on failures.
LEMMA CallIsCounted ==
    ASSUME TypeOK, Works \/ Fails
    PROVE  faults' \in 0 .. MaxFaults /\ failed' \in BOOLEAN
<1>1. faults' \in 0 .. MaxFaults
  BY CacheAssumption DEF TypeOK, Works, Fails
<1>2. CASE Works
  BY <1>1, <1>2 DEF TypeOK, Works
<1>3. CASE Fails
  BY <1>1, <1>3, Zenon DEF Fails
<1> QED
  BY <1>2, <1>3

\* A query answers addresses it was asked for that have a row.
LEMMA FoundIsRecorded ==
    ASSUME TypeOK, NEW addresses, NEW found, FindExistingAccounts(addresses, found)
    PROVE  /\ found \subseteq addresses \cap table
           /\ faults' \in 0 .. MaxFaults /\ failed' \in BOOLEAN
  BY CallIsCounted DEF FindExistingAccounts

\* A COPY adds its batch or nothing.
LEMMA CopyAddsBatchOrNothing ==
    ASSUME TypeOK, NEW addresses, NEW added, NEW ok \in BOOLEAN,
           InsertAddresses(addresses, added, ok)
    PROVE  /\ added \in {{}, addresses}
           /\ faults' \in 0 .. MaxFaults /\ failed' \in BOOLEAN
  BY CallIsCounted DEF InsertAddresses

\* The invariant holds of the empty cache,
LEMMA CacheInit == Init => CacheInv
<1> SUFFICES ASSUME Init PROVE CacheInv
  OBVIOUS
<1>1. failed \in BOOLEAN /\ contended \in BOOLEAN /\ oneByOne \in BOOLEAN
  BY Zenon DEF Init
<1>2. before \in [cache : SUBSET Addresses, asked : SUBSET Addresses, degraded : BOOLEAN]
  BY DEF Init
<1> QED
  BY <1>1, <1>2, CacheAssumption DEF Init, CacheInv, TypeOK, CacheIsRecorded

\* and every step keeps it.
LEMMA CacheStep == CacheInv /\ [Next]_vars => CacheInv'
<1> SUFFICES ASSUME CacheInv, [Next]_vars PROVE CacheInv'
  OBVIOUS
<1>0. TypeOK /\ RetryAttempts \in Nat
  BY CacheAssumption DEF CacheInv
<1> USE CacheAssumption DEF CacheInv, CacheIsRecorded, solverVars
<1>1. CASE Call
  <2>1. failed' \in BOOLEAN /\ contended' \in BOOLEAN
    BY <1>1, Zenon DEF Call
  <2>2. Degraded \in BOOLEAN
    BY Zenon DEF Degraded
  <2>3. before' \in [cache : SUBSET Addresses, asked : SUBSET Addresses, degraded : BOOLEAN]
    BY <1>0, <1>1, <2>2 DEF Call, TypeOK
  <2> QED
    BY <1>0, <1>1, <2>1, <2>3 DEF Call, TypeOK
<1>2. CASE SyncExistingFromDB
  <2>1. UNCHANGED <<table, asked, oneByOne, attempt, left, contended, before, mine, rivals>>
    BY <1>2 DEF SyncExistingFromDB
  <2>2. CASE \E found \in SUBSET Addresses :
               /\ FindExistingAccounts(asked \ cache, found)
               /\ cache' = cache \cup found
               /\ toAdd' = asked \ cache'
               /\ step' = IF toAdd' = {} THEN "ready"
                          ELSE IF RetryAttempts = 0 THEN "fetch" ELSE "insert"
    <3>1. PICK found \in SUBSET Addresses :
            FindExistingAccounts(asked \ cache, found) /\ cache' = cache \cup found
      BY <2>2
    <3>2. /\ found \subseteq (asked \ cache) \cap table
          /\ faults' \in 0 .. MaxFaults /\ failed' \in BOOLEAN
      BY <1>0, <3>1, FoundIsRecorded
    <3>3. /\ cache' \subseteq Addresses /\ cache' \subseteq table /\ toAdd' \subseteq asked
          /\ step' \in {"ready", "fetch", "insert"}
          /\ step' = "insert" => 0 < RetryAttempts
      BY <1>0, <2>2, <3>1, <3>2 DEF TypeOK
    <3>4. attempt = 0 /\ left = {}
      BY <1>2 DEF SyncExistingFromDB
    <3> QED
      BY <1>0, <2>1, <3>2, <3>3, <3>4 DEF TypeOK
  <2>3. CASE Fails /\ step' = "ready" /\ UNCHANGED <<cache, toAdd>>
    BY <1>0, <2>1, <2>3, CallIsCounted DEF TypeOK
  <2> QED
    BY <1>2, <2>2, <2>3 DEF SyncExistingFromDB
<1>3. CASE InsertWithRetry
  <2>1. PICK added \in {{}, toAdd}, ok \in BOOLEAN :
          /\ InsertAddresses(toAdd, added, ok)
          /\ table' = table \cup added /\ mine' = mine \cup added
          /\ attempt' = attempt + 1
          /\ step' = IF ok THEN "fetch"
                     ELSE IF attempt' < RetryAttempts THEN "insert"
                     ELSE IF oneByOne THEN "single" ELSE "fetch"
          /\ left' = IF step' = "single" THEN toAdd ELSE {}
    BY <1>3 DEF InsertWithRetry
  <2>2. faults' \in 0 .. MaxFaults /\ failed' \in BOOLEAN
    BY <1>0, <2>1, CopyAddsBatchOrNothing
  <2>3. /\ step = "insert"
        /\ UNCHANGED <<cache, asked, oneByOne, toAdd, contended, before, rivals>>
    BY <1>3 DEF InsertWithRetry
  <2>4. attempt' \in 0 .. RetryAttempts
    BY <1>0, <2>1, <2>3 DEF TypeOK
  <2>5. step' \in {"insert", "single", "fetch"} /\ (step' = "insert" => attempt' < RetryAttempts)
    BY <2>1
  <2>6. table' \subseteq Addresses /\ mine' \subseteq table' /\ left' \subseteq toAdd /\ table \subseteq table'
    BY <1>0, <2>1 DEF TypeOK
  <2> QED
    BY <1>0, <2>2, <2>3, <2>4, <2>5, <2>6 DEF TypeOK
<1>4. CASE InsertOneByOne
  <2>0. PICK a \in left :
          /\ left' = left \ {a}
          /\ \E added \in {{}, {a}}, ok \in BOOLEAN :
               /\ InsertAddresses({a}, added, ok)
               /\ table' = table \cup added /\ mine' = mine \cup added
    BY <1>4 DEF InsertOneByOne
  <2>1. PICK added \in {{}, {a}}, ok \in BOOLEAN :
          /\ InsertAddresses({a}, added, ok)
          /\ table' = table \cup added /\ mine' = mine \cup added
    BY <2>0
  <2>2. faults' \in 0 .. MaxFaults /\ failed' \in BOOLEAN
    BY <1>0, <2>1, CopyAddsBatchOrNothing
  <2>3. /\ step' \in {"single", "fetch"}
        /\ UNCHANGED <<cache, asked, oneByOne, toAdd, attempt, contended, before, rivals>>
    BY <1>4 DEF InsertOneByOne
  <2> QED
    BY <1>0, <2>0, <2>1, <2>2, <2>3 DEF TypeOK
<1>5. CASE FetchAndCacheInserted
  <2>1. cache' \subseteq cache \cup table /\ faults' \in 0 .. MaxFaults /\ failed' \in BOOLEAN
    BY <1>0, <1>5, FoundIsRecorded, CallIsCounted DEF FetchAndCacheInserted
  <2>2. /\ step' = "ready"
        /\ UNCHANGED <<table, asked, oneByOne, toAdd, attempt, left, contended, before, mine, rivals>>
    BY <1>5 DEF FetchAndCacheInserted
  <2> QED
    BY <1>0, <2>1, <2>2 DEF TypeOK
<1>6. CASE RivalInserts
  <2>1. contended' \in BOOLEAN
    BY <1>0, <1>6, Zenon DEF RivalInserts, TypeOK
  <2> QED
    BY <1>0, <1>6, <2>1 DEF RivalInserts, TypeOK
<1>7. CASE Restart
  <2>1. failed' \in BOOLEAN /\ contended' \in BOOLEAN /\ oneByOne' \in BOOLEAN
    BY <1>7, Zenon DEF Restart
  <2>2. before' \in [cache : SUBSET Addresses, asked : SUBSET Addresses, degraded : BOOLEAN]
    BY <1>7 DEF Restart
  <2>3. cache' \subseteq table /\ faults' \in 0 .. MaxFaults
    BY <1>0, <1>7 DEF Restart, TypeOK
  <2> QED
    BY <1>0, <1>7, <2>1, <2>2, <2>3 DEF Restart, TypeOK
<1>8. CASE UNCHANGED vars
  BY <1>0, <1>8 DEF vars, historyVars, TypeOK
<1> QED
  BY <1>1, <1>2, <1>3, <1>4, <1>5, <1>6, <1>7, <1>8 DEF Next, AddressSolver

\* Types and the facts about the batch hold together.
THEOREM CacheInvariant == Spec => []CacheInv
  BY CacheInit, CacheStep, PTL DEF Spec

\* Every variable keeps its type; in particular no call makes more than
\* RetryAttempts attempts.
THEOREM CacheTypeCorrect == Spec => []TypeOK
<1>1. CacheInv => TypeOK
  BY DEF CacheInv
<1> QED
  BY <1>1, CacheInvariant, PTL

\* The cache never holds an address that has no row, however inserts failed.
THEOREM CacheOnlyHoldsRecorded == Spec => []CacheIsRecorded
<1>1. CacheInv => CacheIsRecorded
  BY DEF CacheInv
<1> QED
  BY <1>1, CacheInvariant, PTL

-----------------------------------------------------------------------------
(* AddressSolver implements AddressSolverSpec *)

\* What holds in the middle of a call, next to CacheInv.  The cache is the one of
\* the call and some of the addresses asked for; the batch is the rest of them.
\* Without a failure, no address of the batch has a row before its COPY, an address
\* that insertOneByOne is done with has one, and all have one when the ids are read.
CallInv ==
    step # "ready" =>
        /\ asked \ before.cache # {}
        /\ before.cache \subseteq cache /\ cache \subseteq before.cache \cup asked
        /\ mine \subseteq toAdd
        /\ oneByOne \/ mine = {} \/ mine = toAdd
        /\ step = "sync" => cache = before.cache /\ mine = {} /\ ~failed /\ ~contended
        /\ step # "sync" => toAdd = asked \ cache
        /\ step = "insert" /\ ~failed /\ ~contended => toAdd \cap table = {}
        /\ step = "single" => oneByOne /\ (failed \/ toAdd \ left \subseteq table)
        /\ step = "fetch" /\ ~Degraded => toAdd \subseteq table

\* A call that was not degraded is one of the Outcomes,
LEMMA SoundOutcome ==
    ASSUME NEW requested, NEW known, NEW rows, NEW single
    PROVE  [cache |-> known \cup (requested \ known), table |-> rows \cup (requested \ known),
            degraded |-> 0] \in Promise!Outcomes(requested, known, rows, TRUE, single)
  BY DEF Promise!Outcomes

\* and so is one that inserted the batch or a part of it and cached some of it.
LEMMA DegradedOutcome ==
    ASSUME NEW requested, NEW known, NEW rows, NEW single, requested \ known # {},
           NEW ins \in IF single THEN SUBSET (requested \ known) ELSE {{}, requested \ known},
           NEW got \in SUBSET ((requested \ known) \cap (rows \cup ins))
    PROVE  [cache |-> known \cup got, table |-> rows \cup ins, degraded |-> 1]
             \in Promise!Outcomes(requested, known, rows, TRUE, single)
<1> DEFINE missing == requested \ known
<1> DEFINE batches == IF single THEN SUBSET missing ELSE {{}, missing}
<1> DEFINE after(i) == {[cache |-> known \cup g, table |-> rows \cup i, degraded |-> 1] :
                          g \in SUBSET (missing \cap (rows \cup i))}
<1>1. [cache |-> known \cup got, table |-> rows \cup ins, degraded |-> 1] \in after(ins)
  OBVIOUS
<1>2. ins \in IF TRUE /\ missing # {} THEN batches ELSE {}
  OBVIOUS
<1>3. [cache |-> known \cup got, table |-> rows \cup ins, degraded |-> 1]
        \in UNION {after(i) : i \in IF TRUE /\ missing # {} THEN batches ELSE {}}
  <2> HIDE DEF after, batches
  <2> QED
    BY <1>1, <1>2
<1> QED
  BY <1>3 DEF Promise!Outcomes

\* CallInv holds when nothing is being solved,
LEMMA CallInit == Init => CallInv
  BY DEF Init, CallInv

\* and every step keeps it.
LEMMA CallStep ==
    ASSUME RetryAttempts > 0, CacheInv, CallInv, [Next]_vars
    PROVE  CallInv'
<1>0. /\ TypeOK /\ mine \subseteq table /\ cache \subseteq table /\ toAdd \subseteq asked
      /\ left \subseteq toAdd /\ failed \in BOOLEAN /\ contended \in BOOLEAN
  BY DEF CacheInv, CacheIsRecorded, TypeOK
<1>1. CASE Call
  <2>1. PICK requested \in SUBSET Addresses : requested \ cache # {} /\ asked' = requested
    BY <1>1 DEF Call
  <2>2. /\ step' = "sync" /\ cache' = cache /\ mine' = {} /\ toAdd' = {}
        /\ before' = [cache |-> cache, asked |-> asked, degraded |-> Degraded]
    BY <1>1 DEF Call
  <2>3. ~failed' /\ ~contended'
    BY <1>1, Zenon DEF Call
  <2> QED
    BY <2>1, <2>2, <2>3 DEF CallInv
<1>2. CASE SyncExistingFromDB
  <2>1. /\ step = "sync" /\ cache = before.cache /\ mine = {} /\ ~failed /\ ~contended
        /\ asked \ before.cache # {}
    BY <1>2 DEF SyncExistingFromDB, CallInv
  <2>2. UNCHANGED <<table, asked, oneByOne, left, contended, before, mine>>
    BY <1>2 DEF SyncExistingFromDB
  <2>3. CASE step' = "ready"
    BY <2>3 DEF CallInv
  <2>4. CASE step' # "ready"
    <3>1. PICK found \in SUBSET Addresses :
            /\ FindExistingAccounts(asked \ cache, found)
            /\ cache' = cache \cup found
            /\ toAdd' = asked \ cache'
            /\ step' \in {"fetch", "insert"}
      BY <1>2, <2>4 DEF SyncExistingFromDB
    <3>2. found \subseteq (asked \ cache) \cap table
      BY <1>0, <3>1, FoundIsRecorded
    <3>3. ~failed' => found = (asked \ cache) \cap table
      BY <3>1 DEF FindExistingAccounts, Fails
    <3>4. step' = "fetch" => RetryAttempts = 0
      BY <1>2, <2>4 DEF SyncExistingFromDB
    <3> QED
      BY <1>0, <2>1, <2>2, <3>1, <3>2, <3>3, <3>4 DEF CallInv, Degraded
  <2> QED
    BY <2>3, <2>4
<1>3. CASE InsertWithRetry
  <2>1. PICK added \in {{}, toAdd}, ok \in BOOLEAN :
          /\ InsertAddresses(toAdd, added, ok)
          /\ table' = table \cup added /\ mine' = mine \cup added
          /\ step' = IF ok THEN "fetch"
                     ELSE IF attempt' < RetryAttempts THEN "insert"
                     ELSE IF oneByOne THEN "single" ELSE "fetch"
          /\ left' = IF step' = "single" THEN toAdd ELSE {}
    BY <1>3 DEF InsertWithRetry
  <2>2. /\ step = "insert"
        /\ UNCHANGED <<cache, asked, oneByOne, toAdd, contended, before>>
    BY <1>3 DEF InsertWithRetry
  <2>3. /\ ok => toAdd \subseteq table'
        /\ ~ok /\ ~failed' => ~failed /\ toAdd \cap table # {} /\ table' = table
    BY <2>1 DEF InsertAddresses, Works, Fails
  <2>4. ~ok /\ ~failed' => contended
    BY <2>2, <2>3 DEF CallInv
  <2>5. /\ step' = "insert" /\ ~failed' /\ ~contended' => toAdd' \cap table' = {}
        /\ step' = "single" => oneByOne' /\ (failed' \/ toAdd' \ left' \subseteq table')
        /\ step' = "fetch" /\ ~Degraded' => toAdd' \subseteq table'
    BY <2>1, <2>2, <2>3, <2>4 DEF Degraded
  <2>6. /\ mine' \subseteq toAdd' /\ (oneByOne' \/ mine' = {} \/ mine' = toAdd')
        /\ step' # "sync"
    BY <2>1, <2>2 DEF CallInv
  <2> QED
    BY <2>2, <2>5, <2>6 DEF CallInv
<1>4. CASE InsertOneByOne
  <2>1. PICK a \in left :
          /\ left' = left \ {a}
          /\ \E added \in {{}, {a}}, ok \in BOOLEAN :
               /\ InsertAddresses({a}, added, ok)
               /\ table' = table \cup added /\ mine' = mine \cup added
    BY <1>4 DEF InsertOneByOne
  <2>2. PICK added \in {{}, {a}}, ok \in BOOLEAN :
          /\ InsertAddresses({a}, added, ok)
          /\ table' = table \cup added /\ mine' = mine \cup added
    BY <2>1
  <2>3. /\ step = "single" /\ step' = IF left' = {} THEN "fetch" ELSE "single"
        /\ UNCHANGED <<cache, asked, oneByOne, toAdd, contended, before>>
    BY <1>4 DEF InsertOneByOne
  <2>4. failed' \/ (~failed /\ a \in table')
    BY <2>2 DEF InsertAddresses, Works, Fails
  <2>5. oneByOne' /\ (failed' \/ toAdd' \ left' \subseteq table')
    BY <2>1, <2>2, <2>3, <2>4 DEF CallInv
  <2>6. mine' \subseteq toAdd'
    BY <1>0, <2>2, <2>3 DEF CallInv
  <2> QED
    BY <2>3, <2>5, <2>6 DEF CallInv, Degraded
<1>5. CASE FetchAndCacheInserted
  BY <1>5 DEF FetchAndCacheInserted, CallInv
<1>6. CASE RivalInserts
  <2>1. PICK a \in Addresses \ table :
          /\ table' = table \cup {a}
          /\ contended' = (contended \/ (step = "insert" /\ a \in toAdd))
    BY <1>6 DEF RivalInserts
  <2>2. UNCHANGED <<cache, step, asked, oneByOne, toAdd, left, failed, before, mine>>
    BY <1>6 DEF RivalInserts, solverVars
  <2>3. CASE step \in {"ready", "sync", "single"}
    BY <1>0, <2>1, <2>2, <2>3, Zenon DEF CallInv
  <2>4. CASE step = "insert"
    <3>1. ~contended' => ~contended /\ a \notin toAdd
      BY <2>1, <2>4, Zenon
    <3> QED
      BY <2>1, <2>2, <2>4, <3>1 DEF CallInv
  <2>5. CASE step = "fetch"
    <3>1. ~Degraded' => ~Degraded
      BY <2>1, <2>2, Zenon DEF Degraded
    <3> QED
      BY <2>1, <2>2, <2>5, <3>1 DEF CallInv
  <2> QED
    BY <1>0, <2>3, <2>4, <2>5 DEF TypeOK
<1>7. CASE Restart
  BY <1>7 DEF Restart, CallInv
<1>8. CASE UNCHANGED vars
  BY <1>8 DEF vars, solverVars, historyVars, CallInv, Degraded
<1> QED
  BY <1>1, <1>2, <1>3, <1>4, <1>5, <1>6, <1>7, <1>8 DEF Next, AddressSolver

\* A call returns with one of the Outcomes for what it was asked, when the rows it
\* has inserted are the batch or, one by one, a part of it, what it has cached has
\* rows, and all of it is there unless it was degraded.
LEMMA ReturnIsAnOutcome ==
    ASSUME CacheInv, step # "ready", step' = "ready",
           UNCHANGED <<table, asked, mine, before, oneByOne>>,
           asked \ before.cache # {}, mine \subseteq asked \ before.cache,
           oneByOne \/ mine = {} \/ asked \ before.cache \subseteq mine \cup (table \ mine),
           before.cache \subseteq cache',
           cache' \subseteq before.cache \cup (asked \cap table),
           ~Degraded' => asked \subseteq cache' /\ asked \ before.cache \subseteq table
    PROVE  Promise!Solve
<1> DEFINE known == before.cache
           rows == table \ mine
           missing == asked \ known
<1>0. oneByOne \in BOOLEAN /\ asked \in SUBSET Addresses /\ mine \subseteq table
  BY DEF CacheInv, TypeOK
<1>1. SUFFICES \E r \in Promise!Outcomes(asked, known, rows, TRUE, oneByOne) :
                 /\ cache' = r.cache /\ table = r.table
                 /\ Degraded' = (r.degraded = 1)
  <2>1. PICK r \in Promise!Outcomes(asked, known, rows, TRUE, oneByOne) :
                 /\ cache' = r.cache /\ table = r.table
                 /\ Degraded' = (r.degraded = 1)
    BY <1>1
  <2> QED
    BY <1>0, <2>1 DEF Promise!Solve
<1>2. CASE ~Degraded'
  <2> DEFINE r == [cache |-> known \cup missing, table |-> rows \cup missing, degraded |-> 0]
  <2>1. r \in Promise!Outcomes(asked, known, rows, TRUE, oneByOne)
    BY SoundOutcome
  <2>2. cache' = r.cache /\ table = r.table
    BY <1>0, <1>2
  <2>3. Degraded' = (r.degraded = 1)
    <3>1. Degraded' \in BOOLEAN
      BY Zenon DEF Degraded
    <3>2. ~(r.degraded = 1)
      OBVIOUS
    <3> HIDE DEF r
    <3> QED
      BY <1>2, <3>1, <3>2, Zenon
  <2> QED
    BY <2>1, <2>2, <2>3
<1>3. CASE Degraded'
  <2> DEFINE ins == IF oneByOne \/ mine = {} THEN mine ELSE missing
             got == cache' \ known
             r == [cache |-> known \cup got, table |-> rows \cup ins, degraded |-> 1]
  <2>1. /\ ins \in IF oneByOne THEN SUBSET missing ELSE {{}, missing}
        /\ rows \cup ins = table
    BY <1>0
  <2>2. got \in SUBSET (missing \cap (rows \cup ins))
    BY <2>1
  <2>3. r \in Promise!Outcomes(asked, known, rows, TRUE, oneByOne)
    <3> HIDE DEF ins, got
    <3> QED
      BY <2>1, <2>2, DegradedOutcome
  <2>4. cache' = r.cache /\ table = r.table
    BY <2>1
  <2>5. Degraded' = (r.degraded = 1)
    BY <1>3
  <2> QED
    BY <2>3, <2>4, <2>5
<1> QED
  BY <1>2, <1>3

\* The empty cache and table are where the promise starts,
LEMMA PromiseInit == Init => Promise!Init
  BY DEF Init, Promise!Init, Degraded

\* and every step is a step of it or changes nothing it speaks of.
LEMMA PromiseStep ==
    ASSUME CacheInv, CallInv, [Next]_vars
    PROVE  [Promise!Next]_(Promise!vars)
<1>0. /\ TypeOK /\ mine \subseteq table /\ cache \subseteq table /\ toAdd \subseteq asked
      /\ left \subseteq toAdd
  BY DEF CacheInv, CacheIsRecorded
<1>1. CASE Call
  BY <1>0, <1>1 DEF Call, Promise!vars
<1>2. CASE SyncExistingFromDB
  <2>1. UNCHANGED <<table, asked, oneByOne, left, contended, before, mine>>
    BY <1>2 DEF SyncExistingFromDB
  <2>2. CASE step' # "ready"
    BY <1>2, <2>1, <2>2 DEF SyncExistingFromDB, Promise!vars
  <2>3. CASE step' = "ready"
    <3>1. /\ cache = before.cache /\ mine = {} /\ ~failed /\ ~contended
          /\ asked \ before.cache # {}
      BY <1>2 DEF SyncExistingFromDB, CallInv
    <3>2. \/ /\ cache \subseteq cache' /\ cache' \subseteq cache \cup ((asked \ cache) \cap table)
             /\ asked \subseteq cache'
          \/ failed' /\ cache' = cache
      BY <1>0, <1>2, <2>3, FoundIsRecorded DEF SyncExistingFromDB, Fails
    <3>3. failed' => Degraded'
      BY Zenon DEF Degraded
    <3>4. Promise!Solve
      BY <1>2, <2>1, <2>3, <3>1, <3>2, <3>3, ReturnIsAnOutcome DEF SyncExistingFromDB
    <3> QED
      BY <3>4 DEF Promise!Next
  <2> QED
    BY <2>2, <2>3
<1>3. CASE InsertWithRetry
  <2>1. PICK added \in {{}, toAdd}, ok \in BOOLEAN :
          /\ InsertAddresses(toAdd, added, ok)
          /\ table' = table \cup added /\ mine' = mine \cup added
          /\ step' # "ready"
    BY <1>3 DEF InsertWithRetry
  <2>2. added \cap table = {}
    BY <2>1 DEF InsertAddresses
  <2>3. table' \ mine' = table \ mine
    BY <1>0, <2>1, <2>2
  <2> QED
    BY <1>3, <2>1, <2>3 DEF InsertWithRetry, Promise!vars
<1>4. CASE InsertOneByOne
  <2>0. PICK a \in left :
          \E added \in {{}, {a}}, ok \in BOOLEAN :
            /\ InsertAddresses({a}, added, ok)
            /\ table' = table \cup added /\ mine' = mine \cup added
    BY <1>4 DEF InsertOneByOne
  <2>1. PICK added \in {{}, {a}}, ok \in BOOLEAN :
          /\ InsertAddresses({a}, added, ok)
          /\ table' = table \cup added /\ mine' = mine \cup added
    BY <2>0
  <2>2. added \cap table = {}
    BY <2>1 DEF InsertAddresses
  <2>3. table' \ mine' = table \ mine
    BY <1>0, <2>1, <2>2
  <2> QED
    BY <1>4, <2>3 DEF InsertOneByOne, Promise!vars
<1>5. CASE FetchAndCacheInserted
  <2>1. /\ step = "fetch" /\ step' = "ready"
        /\ UNCHANGED <<table, asked, oneByOne, toAdd, contended, before, mine>>
    BY <1>5 DEF FetchAndCacheInserted
  <2>2. \/ cache' = cache \cup (toAdd \cap table) /\ failed' = failed
        \/ failed' /\ cache \subseteq cache' /\ cache' \subseteq cache \cup (toAdd \cap table)
    BY <1>0, <1>5, FoundIsRecorded DEF FetchAndCacheInserted, FindExistingAccounts, Works, Fails
  <2>3. /\ asked \ before.cache # {} /\ toAdd = asked \ cache
        /\ before.cache \subseteq cache /\ cache \subseteq before.cache \cup asked
        /\ mine \subseteq toAdd /\ (oneByOne \/ mine = {} \/ mine = toAdd)
        /\ ~Degraded => toAdd \subseteq table
    BY <2>1 DEF CallInv
  <2>4. ~Degraded' => ~Degraded /\ ~failed'
    BY <2>1, <2>2, Zenon DEF Degraded
  <2>5. Promise!Solve
    <3>1. ~Degraded' => asked \subseteq cache' /\ asked \ before.cache \subseteq table
      BY <1>0, <2>2, <2>3, <2>4
    <3>2. oneByOne \/ mine = {} \/ asked \ before.cache \subseteq mine \cup (table \ mine)
      BY <1>0, <2>3
    <3>3. /\ before.cache \subseteq cache' /\ cache' \subseteq before.cache \cup (asked \cap table)
          /\ mine \subseteq asked \ before.cache
      BY <1>0, <2>2, <2>3
    <3> QED
      BY <2>1, <2>3, <3>1, <3>2, <3>3, ReturnIsAnOutcome
  <2> QED
    BY <2>5 DEF Promise!Next
<1>6. CASE RivalInserts
  <2>1. PICK a \in Addresses \ table :
          /\ table' = table \cup {a}
          /\ contended' = (contended \/ (step = "insert" /\ a \in toAdd))
    BY <1>6 DEF RivalInserts
  <2>2. UNCHANGED <<cache, step, asked, oneByOne, failed, before, mine>>
    BY <1>6 DEF RivalInserts, solverVars
  <2>3. step = "ready" => Degraded' = Degraded
    <3>1. step = "ready" => contended' = (contended \/ FALSE)
      BY <2>1
    <3>2. contended \in BOOLEAN
      BY <1>0 DEF TypeOK
    <3> QED
      BY <2>2, <3>1, <3>2, Zenon DEF Degraded
  <2>4. Promise!Rival
    BY <1>0, <2>1, <2>2, <2>3 DEF Promise!Rival
  <2> QED
    BY <2>4 DEF Promise!Next
<1>7. CASE Restart
  <2>1. /\ step' = "ready" /\ asked' = {} /\ table' = table /\ cache' \in SUBSET table
        /\ table \subseteq Addresses
    BY <1>0, <1>7 DEF Restart, TypeOK
  <2>2. Degraded' = FALSE
    BY <1>7, Zenon DEF Restart, Degraded
  <2>3. Promise!Restart
    BY <2>1, <2>2 DEF Promise!Restart
  <2> QED
    BY <2>3 DEF Promise!Next
<1>8. CASE UNCHANGED vars
  <2>1. Degraded' = Degraded
    BY <1>8, Zenon DEF vars, solverVars, historyVars, Degraded
  <2> QED
    BY <1>8, <2>1 DEF vars, solverVars, historyVars, Promise!vars
<1> QED
  BY <1>1, <1>2, <1>3, <1>4, <1>5, <1>6, <1>7, <1>8 DEF Next, AddressSolver

\* The many steps of AddressSolver implement the one step that the chunk pipeline
\* takes it for.  Without a single attempt no COPY is made and the call answers as
\* if all was well; the data processor passes 3.
THEOREM SolverKeepsItsPromise ==
    ASSUME RetryAttempts > 0
    PROVE  Spec => KeepsPromise
<1>1. CacheInv /\ CallInv /\ [Next]_vars => CallInv'
  BY CallStep
<1>2. CacheInv /\ CallInv /\ [Next]_vars => [Promise!Next]_(Promise!vars)
  BY PromiseStep
<1> QED
  BY <1>1, <1>2, CacheInvariant, CallInit, PromiseInit, PTL
     DEF Spec, KeepsPromise, Promise!Spec

=============================================================================

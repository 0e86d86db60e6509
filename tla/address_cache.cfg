\* Three addresses, two failing database calls, one insert by another indexer.
CONSTANTS
    a1 = a1  a2 = a2  a3 = a3
    Addresses = {a1, a2, a3}
    RetryAttempts = 2
    MaxFaults = 2
    MaxRivals = 1
SPECIFICATION FairSpec
INVARIANTS
    TypeOK
    CacheIsRecorded
PROPERTIES
    KeepsPromise
    SolverReturns

\* Two fan-outs of two queries with two retries each share a bucket of one token.
CONSTANTS
    FanOuts <- MCFanOuts
    Indices = {1, 2}
    Missing <- MCMissing
    RetryAmount = 2
    Capacity = 1
SPECIFICATION FairSpec
INVARIANTS
    TypeOK
    Throttled
PROPERTIES
    KeepsFetchPromise
    FanOutReturns
\* Both fan-outs return, or the limiter is closed under them.
CHECK_DEADLOCK FALSE

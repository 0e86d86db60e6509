------------------------- MODULE QueryOperatorProofs -------------------------
(***************************************************************************)
(* Theorems about the fan-outs, for every number of queries, retries and   *)
(* tokens.                                                                 *)
(***************************************************************************)
EXTENDS QueryOperator, FiniteSetTheorems, TLAPS

\* What is known of one query: its failed requests agree with its attempts, an answer
\* is there only if the node has one, and nil only after RetryAmount + 1 failures.
QueryInv(s) ==
    /\ pc[s] = "idle" => attempt[s] = 0
    /\ pc[s] \in {"idle", "wait", "request", "backoff"} => answer[s] = "nil"
    /\ pc[s] \in {"idle", "wait", "request"} => failures[s] = attempt[s]
    /\ pc[s] = "backoff" => failures[s] = attempt[s] + 1 /\ attempt[s] < RetryAmount
    /\ pc[s] \in {"store", "release", "done"} =>
         IF answer[s] = "response" THEN s \notin Missing /\ failures[s] <= RetryAmount
         ELSE failures[s] > RetryAmount
    /\ pc[s] \in {"release", "done"} => slot[s] = answer[s]

Unfinished(f) == {i \in Indices : pc[<<f, i>>] # "done"}

\* The wait group counts the queries that have not released it.
CallInv(f) ==
    /\ caller[f] = "ready" => \A i \in Indices : pc[<<f, i>>] = "idle"
    /\ caller[f] # "ready" => \A i \in Indices : pc[<<f, i>>] # "idle"
    /\ caller[f] = "waiting" => wg[f] = Cardinality(Unfinished(f))
    /\ caller[f] = "returned" => Unfinished(f) = {}

\* A query that has a token and has not sent its request yet.
InFlight == {s \in Slots : pc[s] = "request"}

QueryOperatorInv ==
    /\ TypeOK
    /\ \A s \in Slots : QueryInv(s)
    /\ \A f \in FanOuts : CallInv(f)
    /\ requests + tokens + Cardinality(InFlight) = Capacity + refills

-----------------------------------------------------------------------------

\* The sets that are counted are finite.
LEMMA Finite ==
    /\ IsFiniteSet(InFlight) /\ Cardinality(InFlight) \in Nat
    /\ \A f \in FanOuts : IsFiniteSet(Unfinished(f)) /\ Cardinality(Unfinished(f)) \in Nat
<1>1. IsFiniteSet(Slots)
  BY QueryAssumption, FS_Product DEF Slots
<1>2. InFlight \in SUBSET Slots
  BY DEF InFlight
<1>3. IsFiniteSet(InFlight) /\ Cardinality(InFlight) \in Nat
  BY <1>1, <1>2, FS_Subset, FS_CardinalityType
<1>4. ASSUME NEW f \in FanOuts
      PROVE  IsFiniteSet(Unfinished(f)) /\ Cardinality(Unfinished(f)) \in Nat
  <2>1. Unfinished(f) \in SUBSET Indices
    BY DEF Unfinished
  <2> QED
    BY <2>1, QueryAssumption, FS_Subset, FS_CardinalityType
<1> QED
  BY <1>3, <1>4

\* A step of query s leaves the other queries alone.
LEMMA OthersStay ==
    ASSUME TypeOK, NEW s \in Slots, Query(s)
    PROVE  /\ \A r \in Slots \ {s} :
                /\ pc'[r] = pc[r] /\ attempt'[r] = attempt[r] /\ answer'[r] = answer[r]
                /\ slot'[r] = slot[r] /\ failures'[r] = failures[r]
           /\ caller' = caller
           /\ pc[s] \notin {"idle", "done"}
           /\ pc'[s] # "idle"
<1> USE DEF TypeOK, Goto, callVars, historyVars
<1>1. CASE Wait(s) \/ Answered(s) \/ Failed(s)
  BY <1>1 DEF Wait, Answered, Failed
<1>2. CASE Backoff(s) \/ Store(s) \/ Release(s)
  BY <1>2 DEF Backoff, Store, Release
<1> QED
  BY <1>1, <1>2 DEF Query

\* Every step of a query keeps the types, once the wait group is known to count.
LEMMA QueryTypeOK ==
    ASSUME TypeOK, NEW s \in Slots, Query(s), QueryInv(s), wg'\in [FanOuts -> Nat]
    PROVE  TypeOK'
<1> USE QueryAssumption DEF TypeOK, Goto, callVars, limiterVars, historyVars
<1>1. CASE Wait(s)
  BY <1>1 DEF Wait
<1>2. CASE Answered(s)
  BY <1>2 DEF Answered
<1>3. CASE Failed(s)
  BY <1>3 DEF Failed
<1>4. CASE Backoff(s)
  <2>1. attempt[s] + 1 \in 0 .. RetryAmount
    BY <1>4 DEF Backoff, QueryInv
  <2> QED
    BY <1>4, <2>1 DEF Backoff
<1>5. CASE Store(s)
  BY <1>5 DEF Store
<1>6. CASE Release(s)
  BY <1>6 DEF Release
<1> QED
  BY <1>1, <1>2, <1>3, <1>4, <1>5, <1>6 DEF Query

\* and what is known of the query.
LEMMA QueryStep ==
    ASSUME TypeOK, NEW s \in Slots, Query(s), QueryInv(s)
    PROVE  QueryInv(s)'
<1> USE QueryAssumption DEF TypeOK, Goto, callVars, limiterVars, historyVars, QueryInv
<1>1. CASE Wait(s)
  BY <1>1 DEF Wait
<1>2. CASE Answered(s)
  BY <1>2 DEF Answered
<1>3. CASE Failed(s)
  BY <1>3 DEF Failed
<1>4. CASE Backoff(s)
  BY <1>4 DEF Backoff
<1>5. CASE Store(s)
  BY <1>5 DEF Store
<1>6. CASE Release(s)
  BY <1>6 DEF Release
<1> QED
  BY <1>1, <1>2, <1>3, <1>4, <1>5, <1>6 DEF Query

\* The wait group goes down by one exactly when a query is done.
LEMMA WaitGroupStep ==
    ASSUME QueryOperatorInv, NEW s \in Slots, Query(s)
    PROVE  wg' \in [FanOuts -> Nat] /\ \A f \in FanOuts : CallInv(f)'
<1>0. TypeOK /\ QueryInv(s) /\ \A f \in FanOuts : CallInv(f)
  BY DEF QueryOperatorInv
<1>1. PICK g \in FanOuts, j \in Indices : s = <<g, j>>
  BY DEF Slots
<1>2. /\ \A f \in FanOuts, i \in Indices : <<f, i>> # s => pc'[<<f, i>>] = pc[<<f, i>>]
      /\ caller' = caller /\ pc[s] \notin {"idle", "done"} /\ pc'[s] # "idle"
  BY <1>0, OthersStay DEF Slots
<1>3. caller[g] = "waiting" /\ wg[g] = Cardinality(Unfinished(g)) /\ j \in Unfinished(g)
  BY <1>0, <1>1, <1>2 DEF CallInv, Unfinished, TypeOK
<1>4. \A f \in FanOuts \ {g} : Unfinished(f)' = Unfinished(f)
  BY <1>1, <1>2 DEF Unfinished
<1>5. CASE Release(s)
  <2>1. pc'[s] = "done" /\ wg' = [wg EXCEPT ![g] = @ - 1]
    BY <1>0, <1>1, <1>5 DEF Release, Goto, TypeOK
  <2>2. Unfinished(g)' = Unfinished(g) \ {j}
    BY <1>1, <1>2, <2>1 DEF Unfinished
  <2>3. /\ Cardinality(Unfinished(g) \ {j}) = Cardinality(Unfinished(g)) - 1
        /\ Cardinality(Unfinished(g) \ {j}) \in Nat
    BY <1>3, Finite, FS_RemoveElement, FS_CardinalityType
  <2>4. wg' \in [FanOuts -> Nat] /\ wg'[g] = Cardinality(Unfinished(g)')
    BY <1>0, <1>3, <2>1, <2>2, <2>3 DEF TypeOK
  <2>5. \A f \in FanOuts \ {g} : wg'[f] = wg[f]
    BY <1>0, <2>1 DEF TypeOK
  <2> QED
    BY <1>0, <1>1, <1>2, <1>3, <1>4, <2>4, <2>5 DEF CallInv
<1>6. CASE Wait(s) \/ Answered(s) \/ Failed(s) \/ Backoff(s) \/ Store(s)
  <2>1. wg' = wg /\ pc'[s] # "done"
    BY <1>0, <1>6 DEF Wait, Answered, Failed, Backoff, Store, Goto, callVars, TypeOK
  <2>2. Unfinished(g)' = Unfinished(g)
    BY <1>1, <1>2, <2>1 DEF Unfinished
  <2> QED
    BY <1>0, <1>1, <1>2, <1>3, <1>4, <2>1, <2>2 DEF CallInv, TypeOK
<1> QED
  BY <1>5, <1>6 DEF Query

\* A token is in the bucket, held by a query, or spent on a request.
LEMMA TokenStep ==
    ASSUME QueryOperatorInv, NEW s \in Slots, Query(s)
    PROVE  (requests + tokens + Cardinality(InFlight) = Capacity + refills)'
<1>0. TypeOK /\ requests + tokens + Cardinality(InFlight) = Capacity + refills
  BY DEF QueryOperatorInv
<1>1. \A r \in Slots \ {s} : pc'[r] = pc[r]
  BY <1>0, OthersStay
<1>2. CASE Wait(s)
  <2>1. pc[s] # "request" /\ pc'[s] = "request" /\ tokens' = tokens - 1
        /\ UNCHANGED <<requests, refills>>
    BY <1>0, <1>2 DEF Wait, Goto, historyVars, TypeOK
  <2>2. InFlight' = InFlight \cup {s} /\ s \notin InFlight
    BY <1>1, <2>1 DEF InFlight
  <2>3. Cardinality(InFlight') = Cardinality(InFlight) + 1
    BY <2>2, Finite, FS_AddElement
  <2> QED
    BY <1>0, <2>1, <2>3, Finite DEF TypeOK
<1>3. CASE Answered(s) \/ Failed(s)
  <2>1. pc[s] = "request" /\ pc'[s] # "request" /\ requests' = requests + 1
        /\ UNCHANGED <<tokens, refills>>
    BY <1>0, <1>3 DEF Answered, Failed, Goto, limiterVars, historyVars, TypeOK
  <2>2. InFlight' = InFlight \ {s} /\ s \in InFlight
    BY <1>1, <2>1 DEF InFlight
  <2>3. Cardinality(InFlight') = Cardinality(InFlight) - 1
    BY <2>2, Finite, FS_RemoveElement
  <2> QED
    BY <1>0, <2>1, <2>3, Finite DEF TypeOK
<1>4. CASE Backoff(s) \/ Store(s) \/ Release(s)
  <2>1. pc[s] # "request" /\ pc'[s] # "request" /\ UNCHANGED <<tokens, requests, refills>>
    BY <1>0, <1>4 DEF Backoff, Store, Release, Goto, limiterVars, historyVars, TypeOK
  <2>2. InFlight' = InFlight
    BY <1>1, <2>1 DEF InFlight
  <2> QED
    BY <1>0, <2>1, <2>2
<1> QED
  BY <1>2, <1>3, <1>4 DEF Query

-----------------------------------------------------------------------------

\* The invariant holds at the start,
LEMMA QueryOperatorInit == Init => QueryOperatorInv
<1> SUFFICES ASSUME Init PROVE QueryOperatorInv
  OBVIOUS
<1>1. TypeOK
  BY QueryAssumption DEF Init, TypeOK
<1>2. \A s \in Slots : QueryInv(s)
  BY DEF Init, QueryInv
<1>3. \A f \in FanOuts : CallInv(f)
  BY DEF Init, CallInv, Slots
<1>4. InFlight = {}
  BY DEF Init, InFlight
<1>5. requests + tokens + Cardinality(InFlight) = Capacity + refills
  BY <1>4, FS_EmptySet, QueryAssumption DEF Init
<1> QED
  BY <1>1, <1>2, <1>3, <1>5 DEF QueryOperatorInv

\* and every step keeps it.
LEMMA QueryOperatorStep == QueryOperatorInv /\ [Next]_vars => QueryOperatorInv'
<1> SUFFICES ASSUME QueryOperatorInv, [Next]_vars PROVE QueryOperatorInv'
  OBVIOUS
<1>0. /\ TypeOK
      /\ \A s \in Slots : QueryInv(s)
      /\ \A f \in FanOuts : CallInv(f)
      /\ requests + tokens + Cardinality(InFlight) = Capacity + refills
  BY DEF QueryOperatorInv
<1>1. ASSUME NEW g \in FanOuts, Call(g) PROVE QueryOperatorInv'
  <2>1. /\ caller[g] = "ready" /\ caller' = [caller EXCEPT ![g] = "waiting"]
        /\ wg' = [wg EXCEPT ![g] = Cardinality(Indices)]
        /\ pc' = [s \in Slots |-> IF s[1] = g THEN "wait" ELSE pc[s]]
        /\ UNCHANGED <<attempt, answer, slot, tokens, limiter, failures, requests, refills>>
    BY <1>1 DEF Call, limiterVars, historyVars
  <2>2. Cardinality(Indices) \in Nat
    BY QueryAssumption, FS_CardinalityType
  <2>3. TypeOK'
    BY <1>0, <2>1, <2>2 DEF TypeOK
  <2>4. ASSUME NEW s \in Slots PROVE QueryInv(s)'
    <3>1. s[1] = g => pc[s] = "idle"
      BY <1>0, <2>1 DEF CallInv, Slots
    <3>2. QueryInv(s)
      BY <1>0
    <3> QED
      BY <2>1, <3>1, <3>2 DEF QueryInv
  <2>5. ASSUME NEW f \in FanOuts PROVE CallInv(f)'
    <3>1. CASE f = g
      <4>1. \A i \in Indices : pc'[<<f, i>>] = "wait"
        BY <2>1, <3>1 DEF Slots
      <4>2. Unfinished(f)' = Indices
        BY <4>1 DEF Unfinished
      <4>3. caller'[f] = "waiting" /\ wg'[f] = Cardinality(Indices)
        BY <1>0, <2>1, <3>1 DEF TypeOK
      <4> QED
        BY <4>1, <4>2, <4>3 DEF CallInv
    <3>2. CASE f # g
      <4>1. \A i \in Indices : pc'[<<f, i>>] = pc[<<f, i>>]
        BY <2>1, <3>2 DEF Slots
      <4>2. Unfinished(f)' = Unfinished(f) /\ caller'[f] = caller[f] /\ wg'[f] = wg[f]
        BY <1>0, <2>1, <3>2, <4>1 DEF Unfinished, TypeOK
      <4> QED
        BY <1>0, <4>1, <4>2 DEF CallInv
    <3> QED
      BY <3>1, <3>2
  <2>6. InFlight' = InFlight
    <3>1. \A s \in Slots : s[1] = g => pc[s] = "idle"
      BY <1>0, <2>1 DEF CallInv, Slots
    <3> QED
      BY <2>1, <3>1 DEF InFlight
  <2> QED
    BY <1>0, <2>1, <2>3, <2>4, <2>5, <2>6 DEF QueryOperatorInv
<1>2. ASSUME NEW g \in FanOuts, Return(g) PROVE QueryOperatorInv'
  <2>1. /\ caller[g] = "waiting" /\ wg[g] = 0 /\ caller' = [caller EXCEPT ![g] = "returned"]
        /\ UNCHANGED <<wg, pc, attempt, answer, slot, tokens, limiter, failures, requests, refills>>
    BY <1>2 DEF Return, queryVars, limiterVars, historyVars
  <2>2. TypeOK' /\ \A s \in Slots : QueryInv(s)'
    BY <1>0, <2>1 DEF TypeOK, QueryInv
  <2>3. Unfinished(g) = {}
    BY <1>0, <2>1, Finite, FS_EmptySet DEF CallInv
  <2>4. \A f \in FanOuts : Unfinished(f)' = Unfinished(f)
    BY <2>1 DEF Unfinished
  <2>5. \A f \in FanOuts : CallInv(f)'
    BY <1>0, <2>1, <2>3, <2>4 DEF CallInv, TypeOK
  <2>6. InFlight' = InFlight
    BY <2>1 DEF InFlight
  <2> QED
    BY <1>0, <2>1, <2>2, <2>5, <2>6 DEF QueryOperatorInv
<1>3. ASSUME NEW s \in Slots, Query(s) PROVE QueryOperatorInv'
  <2>1. wg' \in [FanOuts -> Nat] /\ \A f \in FanOuts : CallInv(f)'
    BY <1>3, WaitGroupStep
  <2>2. TypeOK'
    BY <1>0, <1>3, <2>1, QueryTypeOK
  <2>3. QueryInv(s)'
    BY <1>0, <1>3, QueryStep
  <2>4. \A r \in Slots \ {s} : QueryInv(r)'
    BY <1>0, <1>3, OthersStay DEF QueryInv
  <2>5. (requests + tokens + Cardinality(InFlight) = Capacity + refills)'
    BY <1>3, TokenStep
  <2> QED
    BY <2>1, <2>2, <2>3, <2>4, <2>5 DEF QueryOperatorInv
<1>4. CASE Refill \/ RefillStops \/ Close \/ UNCHANGED vars
  <2>1. /\ UNCHANGED <<caller, wg, pc, attempt, answer, slot, failures, requests>>
        /\ limiter' \in {"open", "closed", "stopped"}
        /\ \/ UNCHANGED <<tokens, refills>>
           \/ tokens < Capacity /\ tokens' = tokens + 1 /\ refills' = refills + 1
    BY <1>0, <1>4 DEF Refill, RefillStops, Close, vars, callVars, queryVars, limiterVars,
                      historyVars, TypeOK
  <2>2. TypeOK' /\ \A s \in Slots : QueryInv(s)'
    BY <1>0, <2>1, QueryAssumption DEF TypeOK, QueryInv
  <2>3. \A f \in FanOuts : CallInv(f)'
    BY <1>0, <2>1 DEF CallInv, Unfinished
  <2>4. InFlight' = InFlight
    BY <2>1 DEF InFlight
  <2>5. (requests + tokens + Cardinality(InFlight) = Capacity + refills)'
    BY <1>0, <2>1, <2>4, Finite, QueryAssumption DEF TypeOK
  <2> QED
    BY <2>2, <2>3, <2>5 DEF QueryOperatorInv
<1> QED
  BY <1>1, <1>2, <1>3, <1>4 DEF Next

\* Types, the counters and what is known of each query hold together.
THEOREM QueryOperatorInvariant == Spec => []QueryOperatorInv
  BY QueryOperatorInit, QueryOperatorStep, PTL DEF Spec

\* Every variable keeps its type: no query is sent more than RetryAmount + 1 times,
\* no wait group counter becomes negative and the bucket never overflows.
THEOREM QueryTypeCorrect == Spec => []TypeOK
<1>1. QueryOperatorInv => TypeOK
  BY DEF QueryOperatorInv
<1> QED
  BY <1>1, QueryOperatorInvariant, PTL

\* Every request is paid with a token, whatever is retried and however many
\* goroutines wait.
THEOREM RequestsAreThrottled == Spec => []Throttled
<1>1. QueryOperatorInv => Throttled
  BY Finite, QueryAssumption DEF QueryOperatorInv, Throttled, TypeOK
<1> QED
  BY <1>1, QueryOperatorInvariant, PTL

-----------------------------------------------------------------------------

\* What the abstract fan-outs show of the concrete ones.
Fetched == [f \in FanOuts |-> IF caller[f] = "returned"
                               THEN {i \in Indices : slot[<<f, i>>] = "response"} ELSE {}]
GaveUp == [f \in FanOuts |-> IF caller[f] = "returned" THEN GivenUp(f) ELSE {}]

\* When every query of a fan-out is done, its slice holds the answers of exactly the
\* queries that the node can answer and that were not given up.
LEMMA CompleteSlice ==
    ASSUME QueryOperatorInv, NEW f \in FanOuts, Unfinished(f) = {}
    PROVE  {i \in Indices : slot[<<f, i>>] = "response"}
             = {i \in Indices \ GivenUp(f) : <<f, i>> \notin Missing}
<1> SUFFICES ASSUME NEW i \in Indices
             PROVE  slot[<<f, i>>] = "response" <=>
                      <<f, i>> \notin Missing /\ ~(failures[<<f, i>>] > RetryAmount)
  BY DEF GivenUp
<1>1. <<f, i>> \in Slots /\ pc[<<f, i>>] = "done" /\ TypeOK
  BY DEF Slots, Unfinished, QueryOperatorInv
<1>2. QueryInv(<<f, i>>)
  BY <1>1 DEF QueryOperatorInv
<1>3. failures[<<f, i>>] \in Nat /\ answer[<<f, i>>] \in {"nil", "response"}
  BY <1>1 DEF TypeOK
<1> QED
  BY <1>1, <1>2, <1>3, QueryAssumption DEF QueryInv

\* A step of the queries or of the limiter changes nothing that was returned.
LEMMA ReturnedStays ==
    ASSUME QueryOperatorInv, NEW f \in FanOuts, caller[f] = "returned",
           NEW s \in Slots, Query(s), NEW i \in Indices
    PROVE  slot'[<<f, i>>] = slot[<<f, i>>] /\ failures'[<<f, i>>] = failures[<<f, i>>]
<1>1. <<f, i>> \in Slots /\ pc[<<f, i>>] = "done"
  BY DEF Slots, QueryOperatorInv, CallInv, Unfinished
<1>2. pc[s] # "done" /\ TypeOK
  BY OthersStay DEF QueryOperatorInv
<1> QED
  BY <1>1, <1>2, OthersStay

\* Every step is a step of the abstract fan-outs, or none.
LEMMA FetchStep ==
    ASSUME QueryOperatorInv, [Next]_vars
    PROVE  [Fetch!Next]_(Fetch!vars)
<1>0. TypeOK /\ \A f \in FanOuts : CallInv(f)
  BY DEF QueryOperatorInv
<1>1. ASSUME NEW g \in FanOuts, Call(g) PROVE Fetch!Call(g)
  <2>1. /\ caller[g] = "ready" /\ caller' = [caller EXCEPT ![g] = "waiting"]
        /\ UNCHANGED <<slot, failures>>
    BY <1>1 DEF Call, historyVars
  <2>2. ASSUME NEW f \in FanOuts
        PROVE  (caller'[f] = "returned" <=> caller[f] = "returned") /\ GivenUp(f)' = GivenUp(f)
    BY <1>0, <2>1 DEF TypeOK, GivenUp
  <2>3. UNCHANGED <<Fetched, GaveUp>>
    BY <2>1, <2>2 DEF Fetched, GaveUp
  <2> QED
    BY <2>1, <2>3 DEF Fetch!Call, Fetched, GaveUp
<1>2. ASSUME NEW g \in FanOuts, Return(g) PROVE Fetch!Return(g)
  <2>1. /\ caller[g] = "waiting" /\ wg[g] = 0 /\ caller' = [caller EXCEPT ![g] = "returned"]
        /\ UNCHANGED <<slot, failures>>
    BY <1>2 DEF Return, queryVars, historyVars
  <2>2. Unfinished(g) = {}
    BY <1>0, <2>1, Finite, FS_EmptySet DEF CallInv
  <2>3. {i \in Indices : slot[<<g, i>>] = "response"}
          = {i \in Indices \ GivenUp(g) : <<g, i>> \notin Missing}
    BY <2>2, CompleteSlice
  <2>4. \A f \in FanOuts : GivenUp(f)' = GivenUp(f)
    BY <2>1 DEF GivenUp
  <2>5. /\ caller'[g] = "returned"
        /\ \A f \in FanOuts \ {g} : caller'[f] = caller[f]
    BY <1>0, <2>1 DEF TypeOK
  <2>6. GaveUp' = [GaveUp EXCEPT ![g] = GivenUp(g)]
    BY <2>4, <2>5 DEF GaveUp
  <2>7. Fetched' = [Fetched EXCEPT ![g] = {i \in Indices \ GivenUp(g) : <<g, i>> \notin Missing}]
    BY <2>1, <2>3, <2>5 DEF Fetched
  <2>8. GivenUp(g) \in SUBSET {i \in Indices : <<g, i>> \notin Missing}
    BY DEF GivenUp
  <2> QED
    BY <2>1, <2>6, <2>7, <2>8 DEF Fetch!Return, Fetched, GaveUp
<1>3. ASSUME NEW s \in Slots, Query(s) PROVE UNCHANGED <<caller, Fetched, GaveUp>>
  <2>1. caller' = caller
    BY <1>0, <1>3, OthersStay
  <2>2. ASSUME NEW f \in FanOuts, caller[f] = "returned"
        PROVE  /\ \A i \in Indices : slot'[<<f, i>>] = slot[<<f, i>>]
               /\ GivenUp(f)' = GivenUp(f)
    BY <1>3, <2>2, ReturnedStays DEF GivenUp
  <2> QED
    BY <2>1, <2>2 DEF Fetched, GaveUp
<1>4. CASE Refill \/ RefillStops \/ Close \/ UNCHANGED vars
  <2>1. UNCHANGED <<caller, slot, failures>>
    BY <1>4 DEF Refill, RefillStops, Close, vars, callVars, queryVars, historyVars
  <2> QED
    BY <2>1 DEF Fetch!vars, GivenUp
<1> QED
  BY <1>1, <1>2, <1>3, <1>4 DEF Next, Fetch!Next, Fetch!vars, Fetched, GaveUp

\* The fan-outs implement FetchSpec: the slices are complete when wg.Wait returns, are
\* not touched afterwards, and lack only what the node does not have or what failed
\* RetryAmount + 1 times.
THEOREM FanOutsKeepPromise == Spec => KeepsFetchPromise
<1>1. Init => Fetch!Init
  BY DEF Init, Fetch!Init
<1>2. QueryOperatorInv /\ [Next]_vars => [Fetch!Next]_(Fetch!vars)
  BY FetchStep
<1> QED
  BY <1>1, <1>2, QueryOperatorInvariant, PTL DEF Spec, KeepsFetchPromise, Fetch!Spec
=============================================================================

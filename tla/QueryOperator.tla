---------------------------- MODULE QueryOperator ----------------------------
(***************************************************************************)
(* The fan-outs of QueryOperator (GetFromToBlocks, GetFromToCommits,       *)
(* GetTransactions): one goroutine per query, a retry goroutine and a      *)
(* callback goroutine for a query that failed, a wait group, and the       *)
(* token channel of the rate limiter that all of them share.               *)
(***************************************************************************)
EXTENDS Naturals, FiniteSets

CONSTANTS
    FanOuts,      \* the fan-outs that run side by side: blocks and commits
    Indices,      \* the slots of each result slice
    Missing,      \* slots the node has no answer for
    RetryAmount,  \* 0 also stands for a negative setting: no retry at all
    Capacity      \* requestsAllowed of the rate limiter

Slots == FanOuts \X Indices

ASSUME QueryAssumption ==
    /\ IsFiniteSet(FanOuts) /\ IsFiniteSet(Indices)
    /\ Missing \subseteq Slots
    /\ RetryAmount \in Nat /\ Capacity \in Nat \ {0}

VARIABLES
    caller,    \* caller[f]: the goroutine in wg.Wait()
    wg,        \* wg[f]: the counter of its wait group
    pc,        \* pc[s]: where the goroutines of query s are
    attempt,   \* attempt[s]: 0 for the first request, then i+1 of the retry loop
    answer,    \* answer[s]: what the callback will store
    slot,      \* slot[s]: what the slice holds
    tokens,    \* len of the token channel
    limiter,   \* the refill goroutine: open, closed (not seen yet) or stopped
    failures,  \* history: failed requests per query
    requests,  \* history: requests the node has received
    refills    \* history: tokens the refill goroutine has added

callVars == <<caller, wg>>
queryVars == <<pc, attempt, answer, slot>>
limiterVars == <<tokens, limiter>>
historyVars == <<failures, requests, refills>>
vars == <<callVars, queryVars, limiterVars, historyVars>>

\* Every variable holds a value of its type; in particular no wait group counter is
\* negative, which would panic.
TypeOK ==
    /\ caller \in [FanOuts -> {"ready", "waiting", "returned"}]
    /\ wg \in [FanOuts -> Nat]
    /\ pc \in [Slots -> {"idle", "wait", "request", "backoff", "store", "release", "done"}]
    /\ attempt \in [Slots -> 0 .. RetryAmount]
    /\ answer \in [Slots -> {"nil", "response"}] /\ slot \in [Slots -> {"nil", "response"}]
    /\ tokens \in 0 .. Capacity /\ limiter \in {"open", "closed", "stopped"}
    /\ failures \in [Slots -> Nat] /\ requests \in Nat /\ refills \in Nat

Init ==
    /\ caller = [f \in FanOuts |-> "ready"] /\ wg = [f \in FanOuts |-> 0]
    /\ pc = [s \in Slots |-> "idle"] /\ attempt = [s \in Slots |-> 0]
    /\ answer = [s \in Slots |-> "nil"] /\ slot = [s \in Slots |-> "nil"]
    /\ tokens = Capacity /\ limiter = "open"
    /\ failures = [s \in Slots |-> 0] /\ requests = 0 /\ refills = 0

-----------------------------------------------------------------------------
(* The caller *)

\* wg.Add and one goroutine per slot.
Call(f) ==
    /\ caller[f] = "ready"
    /\ caller' = [caller EXCEPT ![f] = "waiting"]
    /\ wg' = [wg EXCEPT ![f] = Cardinality(Indices)]
    /\ pc' = [s \in Slots |-> IF s[1] = f THEN "wait" ELSE pc[s]]
    /\ UNCHANGED <<attempt, answer, slot, limiterVars, historyVars>>

\* wg.Wait returns.
Return(f) ==
    /\ caller[f] = "waiting" /\ wg[f] = 0
    /\ caller' = [caller EXCEPT ![f] = "returned"]
    /\ UNCHANGED <<wg, queryVars, limiterVars, historyVars>>

-----------------------------------------------------------------------------
(* One query *)

Goto(s, place) == pc' = [pc EXCEPT ![s] = place]

\* rateLimiter.Wait: a token out of the channel.
Wait(s) ==
    /\ pc[s] = "wait" /\ tokens > 0
    /\ tokens' = tokens - 1
    /\ Goto(s, "request")
    /\ UNCHANGED <<callVars, attempt, answer, slot, limiter, historyVars>>

\* The node answers, the first request or a retry.
Answered(s) ==
    /\ pc[s] = "request" /\ s \notin Missing
    /\ requests' = requests + 1
    /\ answer' = [answer EXCEPT ![s] = "response"]
    /\ Goto(s, "store")
    /\ UNCHANGED <<callVars, attempt, slot, limiterVars, failures, refills>>

\* Mutants of Failed: a retry that takes no token, one retry too many, and a
\* deferred wg.Done that runs when the retry is handed over.
FailedUnthrottled(s) ==
    /\ pc[s] = "request"
    /\ requests' = requests + 1
    /\ failures' = [failures EXCEPT ![s] = @ + 1]
    /\ IF attempt[s] = RetryAmount
       THEN Goto(s, "store") /\ UNCHANGED attempt
       ELSE Goto(s, "request") /\ attempt' = [attempt EXCEPT ![s] = @ + 1]
    /\ UNCHANGED <<callVars, answer, slot, limiterVars, refills>>

FailedOnceMore(s) ==
    /\ pc[s] = "request"
    /\ requests' = requests + 1
    /\ failures' = [failures EXCEPT ![s] = @ + 1]
    /\ IF attempt[s] > RetryAmount
       THEN Goto(s, "store") /\ UNCHANGED attempt
       ELSE Goto(s, "wait") /\ attempt' = [attempt EXCEPT ![s] = @ + 1]
    /\ UNCHANGED <<callVars, answer, slot, limiterVars, refills>>

FailedReleases(s) ==
    /\ pc[s] = "request"
    /\ requests' = requests + 1
    /\ failures' = [failures EXCEPT ![s] = @ + 1]
    /\ wg' = IF attempt[s] = 0 THEN [wg EXCEPT ![s[1]] = @ - 1] ELSE wg
    /\ IF attempt[s] = RetryAmount
       THEN Goto(s, "store") /\ UNCHANGED attempt
       ELSE Goto(s, "wait") /\ attempt' = [attempt EXCEPT ![s] = @ + 1]
    /\ UNCHANGED <<caller, answer, slot, limiterVars, refills>>

\* The request fails: it is retried RetryAmount times, with a pause before each but
\* the first retry; then the slot stays nil.
Failed(s) ==
    /\ pc[s] = "request"
    /\ requests' = requests + 1
    /\ failures' = [failures EXCEPT ![s] = @ + 1]
    /\ IF attempt[s] = RetryAmount
       THEN Goto(s, "store") /\ UNCHANGED attempt
       ELSE IF attempt[s] = 0
            THEN Goto(s, "wait") /\ attempt' = [attempt EXCEPT ![s] = 1]
            ELSE Goto(s, "backoff") /\ UNCHANGED attempt
    /\ UNCHANGED <<callVars, answer, slot, limiterVars, refills>>

\* time.Sleep of the backoff and of the pause end.
Backoff(s) ==
    /\ pc[s] = "backoff"
    /\ attempt' = [attempt EXCEPT ![s] = @ + 1]
    /\ Goto(s, "wait")
    /\ UNCHANGED <<callVars, answer, slot, limiterVars, historyVars>>

\* Mutant of Store: onFailure forgets wg.Done.
StoreForgetsFailure(s) ==
    /\ pc[s] = "store"
    /\ slot' = [slot EXCEPT ![s] = answer[s]]
    /\ Goto(s, IF answer[s] = "response" THEN "release" ELSE "done")
    /\ UNCHANGED <<callVars, attempt, answer, limiterVars, historyVars>>

\* The slot is written under the mutex: by the goroutine of the query, or by the
\* onSuccess or onFailure (nil) of the goroutine that RetryWithContext started, which
\* got the result over a channel of its own.
Store(s) ==
    /\ pc[s] = "store"
    /\ slot' = [slot EXCEPT ![s] = answer[s]]
    /\ Goto(s, "release")
    /\ UNCHANGED <<callVars, attempt, answer, limiterVars, historyVars>>

\* wg.Done
Release(s) ==
    /\ pc[s] = "release"
    /\ wg' = [wg EXCEPT ![s[1]] = @ - 1]
    /\ Goto(s, "done")
    /\ UNCHANGED <<caller, attempt, answer, slot, limiterVars, historyVars>>

Query(s) ==
    \/ Wait(s) \/ Answered(s) \/ Failed(s) \/ Backoff(s)
    \/ Store(s) \/ Release(s)

-----------------------------------------------------------------------------
(* The rate limiter *)

\* A tick of refillTokens; a full bucket skips it.  The select may still take a
\* tick after done was closed.
Refill ==
    /\ limiter # "stopped" /\ tokens < Capacity
    /\ tokens' = tokens + 1 /\ refills' = refills + 1
    /\ UNCHANGED <<callVars, queryVars, limiter, failures, requests>>

RefillStops ==
    /\ limiter = "closed"
    /\ limiter' = "stopped"
    /\ UNCHANGED <<callVars, queryVars, tokens, historyVars>>

\* Close, in the clean-up of a shutdown: who waits for a token is not told.
Close ==
    /\ limiter = "open"
    /\ limiter' = "closed"
    /\ UNCHANGED <<callVars, queryVars, tokens, historyVars>>

Next ==
    \/ \E f \in FanOuts : Call(f) \/ Return(f)
    \/ \E s \in Slots : Query(s)
    \/ Refill \/ RefillStops \/ Close

Spec == Init /\ [][Next]_vars

\* The scheduler runs the goroutines, every request ends by the timeout of the
\* HTTP client, sleeps end and the ticker ticks.
FairSpec ==
    /\ Spec
    /\ \A f \in FanOuts : WF_vars(Return(f))
    /\ WF_vars(\E s \in Slots : Query(s)) /\ WF_vars(Refill)

-----------------------------------------------------------------------------

\* The fan-outs keep what FetchRange of Pipeline takes for granted: the slice is
\* complete when it is returned, no late retry writes into it afterwards, and a nil
\* slot that the node could have filled was asked for RetryAmount + 1 times.
GivenUp(f) == {i \in Indices : <<f, i>> \notin Missing /\ failures[<<f, i>>] > RetryAmount}

Fetch == INSTANCE FetchSpec WITH
    status <- caller,
    fetched <- [f \in FanOuts |-> IF caller[f] = "returned"
                                   THEN {i \in Indices : slot[<<f, i>>] = "response"} ELSE {}],
    gaveUp <- [f \in FanOuts |-> IF caller[f] = "returned" THEN GivenUp(f) ELSE {}]

KeepsFetchPromise == Fetch!Spec

\* Every request, retries included, is paid with a token: the node never gets more
\* requests than the bucket held at the start and the ticks have added.
Throttled == requests + tokens <= Capacity + refills

\* Every fan-out returns, unless the limiter is closed under it: the wait group is
\* released once per query on every path, and waiting for tokens ends.
FanOutReturns ==
    \A f \in FanOuts : caller[f] = "waiting" ~> (caller[f] = "returned" \/ limiter # "open")

=============================================================================

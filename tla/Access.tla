-------------------------------- MODULE Access --------------------------------
(***************************************************************************)
(* Who may ask the API how often: the api_keys table with the commands     *)
(* that edit it, the KeyStore that caches the active keys, and the rate    *)
(* limiter in front of every /v1 route, with its counters in Valkey.       *)
(*                                                                         *)
(* A refresh is two steps, the query and the swap of the map; a request is *)
(* one step per call to the key store and to Valkey.  Time passes in ticks *)
(* and Valkey drops a counter when its time to live has run out.           *)
(***************************************************************************)
EXTENDS Naturals, FiniteSets

CONSTANTS
    Keys,           \* API keys, each with its own name and hash
    IPs,            \* clients without a key
    Workers,        \* goroutines that serve requests
    RpmLimits,      \* the RPM_LIMIT arguments of "key create"
    IpRpm,          \* ip_rpm_limit, 30 when the config has none
    CountCap,       \* bound: counters saturate here, above every limit
    Window,         \* length of the window in ticks: one minute in serve.go
    MaxFaults,      \* bound: failing calls to the database and to Valkey
    MaxRestarts,    \* bound: restarts of the API server
    MaxCommands     \* bound: commands on a key

ASSUME AccessAssumption ==
    /\ RpmLimits \subseteq Nat \ {0}    \* keyCreateCmd refuses the others
    /\ IpRpm \in Nat \ {0} /\ Window \in Nat \ {0}
    \* a counter only ever meets a limit in "count > limit"
    /\ CountCap \in Nat /\ \A l \in RpmLimits \cup {IpRpm} : l < CountCap
    /\ MaxFaults \in Nat /\ MaxRestarts \in Nat /\ MaxCommands \in Nat
    /\ Keys \cap IPs = {} /\ IPs # {}

Identifiers == Keys \cup IPs

VARIABLES
    apiKeys,    \* api_keys: rpm_limit (0: no row) and is_active of every key
    keys,       \* KeyStore.keys: the limit of a key, 0 where there is no entry
    refresh,    \* where Refresh is: "idle", or "read" between query and swap
    result,     \* what its query returned
    server,     \* "starting" until the first Refresh returned, then "serving"
    request,    \* where the request of every worker is, and what it holds
    counter,    \* Valkey: the counter of an identifier, 0 where it does not exist
    ttl,        \* Valkey: ticks until it expires, 0 where it has no expiry
    admitted,   \* history: how many requests the window of a counter let through
    passed,     \* history: and which counts they had
    since,      \* history: what a key was worth since the query of the last swap
    during,     \* history: the same since the query of the running refresh
    faults, restarts, commands

storeVars == <<keys, refresh, result, server, since, during>>
valkeyVars == <<counter, ttl, admitted, passed>>
vars == <<apiKeys, storeVars, request, valkeyVars, faults, restarts, commands>>

KeyLimits == RpmLimits \cup {0}
NoRequest == [at |-> "idle", id |-> CHOOSE i \in IPs : TRUE,
              limit |-> 0, count |-> 0, lapsed |-> FALSE]

\* Every variable holds a value of its Go, SQL or Valkey type.
TypeOK ==
    /\ apiKeys \in [Keys -> [limit : KeyLimits, active : BOOLEAN]]
    /\ keys \in [Keys -> KeyLimits]
    /\ refresh \in {"idle", "read"} /\ result \in [Keys -> KeyLimits]
    /\ server \in {"starting", "serving"}
    /\ request \in [Workers -> [at : {"idle", "count", "expire", "decide"},
                                id : Identifiers, limit : KeyLimits \cup {IpRpm},
                                count : 0 .. CountCap, lapsed : BOOLEAN]]
    /\ counter \in [Identifiers -> 0 .. CountCap]
    /\ ttl \in [Identifiers -> 0 .. Window]
    /\ admitted \in [Identifiers -> Nat]
    /\ passed \in [Identifiers -> SUBSET (1 .. CountCap)]
    /\ since \in [Keys -> SUBSET KeyLimits] /\ during \in [Keys -> SUBSET KeyLimits]
    /\ faults \in 0 .. MaxFaults /\ restarts \in 0 .. MaxRestarts
    /\ commands \in 0 .. MaxCommands

\* GetAllApiKeysWithLimits: the limits of the keys that are active.
ActiveLimits(table) ==
    [k \in Keys |-> IF table[k].active THEN table[k].limit ELSE 0]

Init ==
    /\ apiKeys = [k \in Keys |-> [limit |-> 0, active |-> FALSE]]
    /\ keys = [k \in Keys |-> 0]
    /\ refresh = "idle" /\ result = [k \in Keys |-> 0]
    /\ server = "starting"
    /\ request = [w \in Workers |-> NoRequest]
    /\ counter = [i \in Identifiers |-> 0] /\ ttl = [i \in Identifiers |-> 0]
    /\ admitted = [i \in Identifiers |-> 0] /\ passed = [i \in Identifiers |-> {}]
    /\ since = [k \in Keys |-> {0}] /\ during = [k \in Keys |-> {0}]
    /\ faults = 0 /\ restarts = 0 /\ commands = 0

Fails == faults < MaxFaults /\ faults' = faults + 1

-----------------------------------------------------------------------------
(* The key commands: each is one statement of its own process *)

Edit(k, row) ==
    /\ commands < MaxCommands
    /\ commands' = commands + 1
    /\ apiKeys' = [apiKeys EXCEPT ![k] = row]
    /\ since' = [since EXCEPT ![k] = @ \cup {ActiveLimits(apiKeys')[k]}]
    /\ during' = IF refresh = "idle" THEN during
                 ELSE [during EXCEPT ![k] = @ \cup {ActiveLimits(apiKeys')[k]}]
    /\ UNCHANGED <<keys, refresh, result, server, request, valkeyVars, faults, restarts>>

\* key create: a new random key; the name is UNIQUE and is_active DEFAULT TRUE.
InsertApiKey(k) ==
    /\ apiKeys[k].limit = 0
    /\ \E l \in RpmLimits : Edit(k, [limit |-> l, active |-> TRUE])

\* key disable
DisableKeyByName(k) ==
    /\ apiKeys[k].limit # 0
    /\ Edit(k, [apiKeys[k] EXCEPT !.active = FALSE])

\* key enable
EnableKeyByName(k) ==
    /\ apiKeys[k].limit # 0
    /\ Edit(k, [apiKeys[k] EXCEPT !.active = TRUE])

-----------------------------------------------------------------------------
(* KeyStore.Refresh, called by runServe before it listens and then by the    *)
(* ticker of StartPeriodicRefresh                                            *)

\* Mutant of RefreshQuery: the server never starts the periodic refresh.
RefreshQueryOnce ==
    /\ refresh = "idle" /\ server = "starting"
    /\ refresh' = "read"
    /\ result' = ActiveLimits(apiKeys)
    /\ during' = [k \in Keys |-> {ActiveLimits(apiKeys)[k]}]
    /\ UNCHANGED <<apiKeys, keys, server, since, request, valkeyVars, faults, restarts, commands>>

RefreshQuery ==
    /\ refresh = "idle"
    /\ refresh' = "read"
    /\ result' = ActiveLimits(apiKeys)
    /\ during' = [k \in Keys |-> {ActiveLimits(apiKeys)[k]}]
    /\ UNCHANGED <<apiKeys, keys, server, since, request, valkeyVars, faults, restarts, commands>>

\* Mutant of RefreshSwap: the map is merged into the old one.
RefreshMerges ==
    /\ refresh = "read"
    /\ refresh' = "idle"
    /\ keys' = [k \in Keys |-> IF result[k] # 0 THEN result[k] ELSE keys[k]]
    /\ since' = during
    /\ server' = "serving"
    /\ result' = [k \in Keys |-> 0] /\ during' = [k \in Keys |-> {0}]
    /\ UNCHANGED <<apiKeys, request, valkeyVars, faults, restarts, commands>>

\* The write lock is held for the assignment of the map alone.
RefreshSwap ==
    /\ refresh = "read"
    /\ refresh' = "idle"
    /\ keys' = result
    /\ since' = during
    /\ server' = "serving"
    /\ result' = [k \in Keys |-> 0] /\ during' = [k \in Keys |-> {0}]
    /\ UNCHANGED <<apiKeys, request, valkeyVars, faults, restarts, commands>>

\* An error leaves the map as it is and is logged; runServe listens all the same.
RefreshFails ==
    /\ refresh = "idle" /\ Fails
    /\ server' = "serving"
    /\ UNCHANGED <<apiKeys, keys, refresh, result, since, during, request, valkeyVars,
                   restarts, commands>>

Refresh == RefreshQuery \/ RefreshSwap

-----------------------------------------------------------------------------
(* RateLimiter.Middleware, one worker per request in flight *)

Serve(w, step) == request' = [request EXCEPT ![w] = step]

\* Mutant of Arrive: a key adds its limit to the one of the address.
ArriveAdds(w, i) ==
    /\ server = "serving" /\ request[w].at = "idle"
    /\ i \in Keys => keys[i] # 0
    /\ Serve(w, [NoRequest EXCEPT !.at = "count", !.id = i,
                                  !.limit = IpRpm + (IF i \in Keys THEN keys[i] ELSE 0)])
    /\ UNCHANGED <<apiKeys, storeVars, valkeyVars, faults, restarts, commands>>

\* A request for a limited path arrives: a key that GetKeyLimit does not know is
\* answered 401 at once, and a request without a key goes by realIP.
Arrive(w, i) ==
    /\ server = "serving" /\ request[w].at = "idle"
    /\ i \in Keys => keys[i] # 0
    /\ Serve(w, [NoRequest EXCEPT !.at = "count", !.id = i,
                                  !.limit = IF i \in Keys THEN keys[i] ELSE IpRpm])
    /\ UNCHANGED <<apiKeys, storeVars, valkeyVars, faults, restarts, commands>>

Bump(i) == IF counter[i] < CountCap THEN counter[i] + 1 ELSE CountCap

\* Mutant of Increment: two requests read the same counter and both write it back.
IncrementReadsOnly(w) ==
    LET i == request[w].id IN
    /\ request[w].at = "count"
    /\ counter' = [counter EXCEPT ![i] =
                      IF \E v \in Workers \ {w} : request[v].id = i /\ request[v].at = "expire"
                      THEN @ ELSE Bump(i)]
    /\ Serve(w, [request[w] EXCEPT !.at = "expire", !.count = counter'[i]])
    /\ UNCHANGED <<apiKeys, storeVars, ttl, admitted, passed, faults, restarts, commands>>

\* INCR, atomic in Valkey.
Increment(w) ==
    LET i == request[w].id IN
    /\ request[w].at = "count"
    /\ counter' = [counter EXCEPT ![i] = Bump(i)]
    /\ Serve(w, [request[w] EXCEPT !.at = "expire", !.count = Bump(i)])
    /\ UNCHANGED <<apiKeys, storeVars, ttl, admitted, passed, faults, restarts, commands>>

\* The call fails, perhaps after Valkey counted: the request goes through.
IncrementFailsOpen(w) ==
    LET i == request[w].id IN
    /\ request[w].at = "count" /\ Fails
    /\ counter' \in {counter, [counter EXCEPT ![i] = Bump(i)]}
    /\ Serve(w, NoRequest)
    /\ UNCHANGED <<apiKeys, storeVars, ttl, admitted, passed, restarts, commands>>

\* Mutant of ExpireNX: EXPIRE without NX.
ExpireSlides(w) ==
    LET i == request[w].id IN
    /\ request[w].at = "expire"
    /\ \/ /\ ttl' = [ttl EXCEPT ![i] = IF counter[i] # 0 THEN Window ELSE 0]
          /\ UNCHANGED faults
       \/ Fails /\ UNCHANGED ttl
    /\ Serve(w, [request[w] EXCEPT !.at = "decide"])
    /\ UNCHANGED <<apiKeys, storeVars, counter, admitted, passed, restarts, commands>>

\* EXPIRE NX: sets the expiry of a counter that exists and has none; an error is
\* only logged.
ExpireNX(w) ==
    LET i == request[w].id IN
    /\ request[w].at = "expire"
    /\ \/ /\ ttl' = [ttl EXCEPT ![i] = IF counter[i] # 0 /\ @ = 0 THEN Window ELSE @]
          /\ UNCHANGED faults
       \/ Fails /\ UNCHANGED ttl
    /\ Serve(w, [request[w] EXCEPT !.at = "decide"])
    /\ UNCHANGED <<apiKeys, storeVars, counter, admitted, passed, restarts, commands>>

\* count > limit is answered 429, the rest is passed to the route.
Decide(w) ==
    LET r == request[w] IN
    /\ r.at = "decide"
    /\ IF r.count <= r.limit /\ ~r.lapsed
       THEN /\ admitted' = [admitted EXCEPT ![r.id] = @ + 1]
            /\ passed' = [passed EXCEPT ![r.id] = @ \cup {r.count}]
       ELSE UNCHANGED <<admitted, passed>>
    /\ Serve(w, NoRequest)
    /\ UNCHANGED <<apiKeys, storeVars, counter, ttl, faults, restarts, commands>>

-----------------------------------------------------------------------------
(* Around the server *)

\* Valkey's clock: a counter whose expiry is reached is gone with its window.
Tick ==
    LET over == {i \in Identifiers : ttl[i] = 1} IN
    /\ \E i \in Identifiers : ttl[i] > 0
    /\ ttl' = [i \in Identifiers |-> IF ttl[i] = 0 THEN 0 ELSE ttl[i] - 1]
    /\ counter' = [i \in Identifiers |-> IF i \in over THEN 0 ELSE counter[i]]
    /\ admitted' = [i \in Identifiers |-> IF i \in over THEN 0 ELSE admitted[i]]
    /\ passed' = [i \in Identifiers |-> IF i \in over THEN {} ELSE passed[i]]
    /\ request' = [w \in Workers |->
                     IF request[w].at \in {"expire", "decide"} /\ request[w].id \in over
                     THEN [request[w] EXCEPT !.lapsed = TRUE] ELSE request[w]]
    /\ UNCHANGED <<apiKeys, storeVars, faults, restarts, commands>>

\* The server process is replaced: memory is lost, the table and Valkey stay.
Restart ==
    /\ restarts < MaxRestarts
    /\ restarts' = restarts + 1
    /\ server' = "starting" /\ refresh' = "idle"
    /\ keys' = [k \in Keys |-> 0] /\ result' = [k \in Keys |-> 0]
    /\ since' = [k \in Keys |-> {0}] /\ during' = [k \in Keys |-> {0}]
    /\ request' = [w \in Workers |-> NoRequest]
    /\ UNCHANGED <<apiKeys, valkeyVars, faults, commands>>

Proceed(w) == Increment(w) \/ ExpireNX(w) \/ Decide(w)

Next ==
    \/ \E k \in Keys : InsertApiKey(k) \/ DisableKeyByName(k) \/ EnableKeyByName(k)
    \/ RefreshQuery \/ RefreshSwap \/ RefreshFails
    \/ \E w \in Workers : \/ \E i \in Identifiers : Arrive(w, i)
                          \/ Increment(w) \/ IncrementFailsOpen(w) \/ ExpireNX(w) \/ Decide(w)
    \/ Tick \/ Restart

Spec == Init /\ [][Next]_vars

\* The ticker keeps firing, handlers run to their end and time passes.  Commands,
\* requests, failures and restarts are the environment's.
FairSpec ==
    /\ Spec
    /\ WF_vars(Refresh) /\ WF_vars(Tick)
    /\ \A w \in Workers : WF_vars(Proceed(w))

-----------------------------------------------------------------------------

LimitsOf(i) == IF i \in IPs THEN {IpRpm} ELSE {apiKeys[i].limit}

\* One window of a client never lets more requests through than its limit,
\* however many workers count at once, whenever the counter expires between the
\* INCR and the answer, and across a restart of the server; only the requests
\* that a failing Valkey lets through come on top.
WindowWithinLimit == \A i \in Identifiers : \A l \in LimitsOf(i) : admitted[i] <= l

\* The limiter never works with a key table older than the last refresh: what the
\* store holds for a key is what its row was worth at some moment since the query
\* of the last refresh that succeeded.  So a revoked key stops working with the
\* first refresh that starts after the revocation.
StoreIsRecent == \A k \in Keys : keys[k] \in since[k]

\* A change to a key reaches the requests: when the commands have come to an end,
\* the store ends up with the active keys and their limits, whatever failed on
\* the way, also when the first refresh of a server failed.
StoreFollowsTable == <>[](keys = ActiveLimits(apiKeys))

Counting(i) == \E w \in Workers : request[w].at = "expire" /\ request[w].id = i

\* Windows end: a client who keeps asking gets a fresh window again and again.
\* Neither does traffic slide the expiry, nor does a counter stay without one
\* after its first EXPIRE was lost with the call or with the server.
WindowsEnd == \A i \in Identifiers : []<>Counting(i) => []<>(counter[i] = 0)

=============================================================================

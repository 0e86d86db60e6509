---------------------------- MODULE AccessProofs ----------------------------
(***************************************************************************)
(* Access proved for any number of keys, clients, requests in flight,      *)
(* failures and restarts: a window never lets more than its limit through, *)
(* and the key store is never older than its last refresh.                 *)
(***************************************************************************)
EXTENDS Access, FiniteSetTheorems, TLAPS

LimitOf(i) == IF i \in IPs THEN IpRpm ELSE apiKeys[i].limit

\* The limits that the store, a running refresh and the requests carry.  A row
\* never changes its limit, so they are the ones of the table or 0.
Limits ==
    /\ \A k \in Keys : keys[k] \in {0, apiKeys[k].limit} /\ result[k] \in {0, apiKeys[k].limit}
    /\ \A w \in Workers : request[w].at # "idle" =>
          request[w].limit = LimitOf(request[w].id) /\ request[w].limit # 0

Recent ==
    /\ StoreIsRecent
    /\ refresh = "read" => \A k \in Keys : result[k] \in during[k]

\* A request that has its number and still counts in the window it got it in.
Pending(w) == /\ request[w].at \in {"expire", "decide"}
              /\ ~request[w].lapsed
              /\ request[w].count < CountCap

\* The numbers a window handed out: no two requests have the same one, and the
\* ones that were let through are among the first "limit" of them.
Counts ==
    /\ \A i \in Identifiers :
          /\ passed[i] \subseteq 1 .. counter[i]
          /\ \A c \in passed[i] : c <= LimitOf(i)
          /\ admitted[i] = Cardinality(passed[i])
    /\ \A w \in Workers : Pending(w) =>
          /\ request[w].count \in 1 .. counter[request[w].id]
          /\ request[w].count \notin passed[request[w].id]
    /\ \A v, w \in Workers :
          v # w /\ Pending(v) /\ Pending(w) /\ request[v].id = request[w].id
             => request[v].count # request[w].count

IInv == TypeOK /\ Limits /\ Recent /\ Counts

\* The numbers that passed are a finite set.
LEMMA PassedIsFinite ==
    ASSUME NEW S, S \subseteq 1 .. CountCap
    PROVE  IsFiniteSet(S) /\ Cardinality(S) \in Nat
<1>1. IsFiniteSet(1 .. CountCap) BY AccessAssumption, FS_Interval
<1>2. QED BY <1>1, FS_Subset, FS_CardinalityType

\* A set of numbers from 1 to l has at most l members.
LEMMA AtMost ==
    ASSUME NEW l \in Nat, NEW S, S \subseteq 1 .. l
    PROVE  Cardinality(S) <= l
<1>1. IsFiniteSet(1 .. l) /\ Cardinality(1 .. l) = l BY FS_Interval
<1>2. Cardinality(S) <= Cardinality(1 .. l) BY <1>1, FS_Subset
<1>3. QED BY <1>1, <1>2

LEMMA LessIfBelow ==
    ASSUME NEW c \in 0 .. CountCap, NEW l \in Nat, c <= l, l < CountCap
    PROVE  c < CountCap
  BY AccessAssumption

LEMMA NoRequestType ==
    /\ NoRequest \in [at : {"idle", "count", "expire", "decide"}, id : Identifiers,
                      limit : KeyLimits \cup {IpRpm}, count : 0 .. CountCap, lapsed : BOOLEAN]
    /\ NoRequest.at = "idle" /\ NoRequest.lapsed = FALSE
<1>1. (CHOOSE i \in IPs : TRUE) \in Identifiers BY AccessAssumption DEF Identifiers
<1>2. QED BY <1>1, AccessAssumption DEF NoRequest, KeyLimits

LEMMA InitInv == Init => IInv
<1> SUFFICES ASSUME Init PROVE IInv
  OBVIOUS
<1> USE AccessAssumption
<1>1. TypeOK
  <2>1. request \in [Workers -> [at : {"idle", "count", "expire", "decide"},
                                id : Identifiers, limit : KeyLimits \cup {IpRpm},
                                count : 0 .. CountCap, lapsed : BOOLEAN]]
    BY NoRequestType DEF Init
  <2>2. QED BY <2>1 DEF Init, TypeOK, KeyLimits
<1>2. Limits BY NoRequestType DEF Init, Limits
<1>3. Recent BY DEF Init, Recent, StoreIsRecent
<1>4. Counts
  <2>1. Cardinality({}) = 0 BY FS_EmptySet
  <2>2. \A w \in Workers : ~Pending(w) BY NoRequestType DEF Init, Pending
  <2>3. QED BY <2>1, <2>2 DEF Init, Counts
<1>5. QED BY <1>1, <1>2, <1>3, <1>4 DEF IInv

RequestType == [at : {"idle", "count", "expire", "decide"}, id : Identifiers,
                limit : KeyLimits \cup {IpRpm}, count : 0 .. CountCap, lapsed : BOOLEAN]

LEMMA RowType ==
    ASSUME NEW row \in [limit : KeyLimits, active : BOOLEAN], NEW b \in BOOLEAN
    PROVE  /\ [row EXCEPT !.active = b] \in [limit : KeyLimits, active : BOOLEAN]
           /\ [row EXCEPT !.active = b].limit = row.limit
  OBVIOUS

LEMMA EditType ==
    ASSUME TypeOK, NEW k \in Keys, NEW row \in [limit : KeyLimits, active : BOOLEAN], Edit(k, row)
    PROVE  TypeOK'
<1> USE AccessAssumption DEF TypeOK, ActiveLimits, KeyLimits, valkeyVars, Edit
<1>1. apiKeys' \in [Keys -> [limit : KeyLimits, active : BOOLEAN]] OBVIOUS
<1>2. ActiveLimits(apiKeys')[k] \in KeyLimits BY <1>1
<1>3. QED BY <1>1, <1>2

\* A request that is let through has a number below CountCap in its window.
LEMMA DecidedIsPending ==
    ASSUME TypeOK, Limits, NEW w \in Workers, request[w].at = "decide",
           request[w].count <= request[w].limit, ~request[w].lapsed
    PROVE  Pending(w)
<1>1. request[w].count \in 0 .. CountCap /\ request[w].limit \in RpmLimits \cup {0, IpRpm}
  BY DEF TypeOK, KeyLimits
<1>2. request[w].limit \in Nat
  <2>1. \A l \in RpmLimits \cup {0, IpRpm} : l \in Nat BY AccessAssumption
  <2>2. QED BY <1>1, <2>1, Zenon
<1>3. request[w].limit < CountCap
  <2>1. request[w].limit # 0 BY DEF Limits
  <2>2. QED BY <1>1, <2>1, AccessAssumption
<1>4. request[w].count < CountCap BY <1>1, <1>2, <1>3, LessIfBelow
<1>5. QED BY <1>4 DEF Pending

LEMMA TypeStep == TypeOK /\ Limits /\ Counts /\ [Next]_vars => TypeOK'
<1> SUFFICES ASSUME TypeOK, Limits, Counts, [Next]_vars PROVE TypeOK'
  OBVIOUS
<1> USE AccessAssumption, NoRequestType
    DEF TypeOK, ActiveLimits, KeyLimits, Fails, Serve, storeVars, valkeyVars, Bump, Identifiers
<1>1. ASSUME NEW k \in Keys, InsertApiKey(k) PROVE TypeOK'
  BY <1>1, EditType DEF InsertApiKey
<1>2. ASSUME NEW k \in Keys, DisableKeyByName(k) PROVE TypeOK'
  <2>1. [apiKeys[k] EXCEPT !.active = FALSE] \in [limit : KeyLimits, active : BOOLEAN] BY RowType
  <2>2. QED BY <1>2, <2>1, EditType DEF DisableKeyByName
<1>3. ASSUME NEW k \in Keys, EnableKeyByName(k) PROVE TypeOK'
  <2>1. [apiKeys[k] EXCEPT !.active = TRUE] \in [limit : KeyLimits, active : BOOLEAN] BY RowType
  <2>2. QED BY <1>3, <2>1, EditType DEF EnableKeyByName
<1>4. CASE RefreshQuery
  BY <1>4 DEF RefreshQuery
<1>5. CASE RefreshSwap
  BY <1>5 DEF RefreshSwap
<1>6. CASE RefreshFails
  BY <1>6 DEF RefreshFails
<1>7. ASSUME NEW w \in Workers, NEW i \in Identifiers, Arrive(w, i) PROVE TypeOK'
  BY <1>7 DEF Arrive
<1>8. ASSUME NEW w \in Workers, Increment(w) PROVE TypeOK'
  <2>1. request[w] \in RequestType BY DEF RequestType
  <2>2. request[w].id \in Identifiers /\ Bump(request[w].id) \in 0 .. CountCap
    BY <2>1 DEF RequestType
  <2>3. [request[w] EXCEPT !.at = "expire", !.count = Bump(request[w].id)] \in RequestType
    BY <2>1, <2>2 DEF RequestType
  <2>4. request' \in [Workers -> RequestType] BY <1>8, <2>3 DEF Increment, RequestType
  <2>5. counter' \in [Identifiers -> 0 .. CountCap] BY <1>8, <2>2 DEF Increment
  <2>6. QED BY <1>8, <2>4, <2>5 DEF Increment, RequestType
<1>9. ASSUME NEW w \in Workers, IncrementFailsOpen(w) PROVE TypeOK'
  <2>1. request[w].id \in Identifiers /\ Bump(request[w].id) \in 0 .. CountCap OBVIOUS
  <2>2. request' \in [Workers -> RequestType] BY <1>9 DEF IncrementFailsOpen, RequestType
  <2>3. counter' \in [Identifiers -> 0 .. CountCap] BY <1>9, <2>1 DEF IncrementFailsOpen
  <2>4. QED BY <1>9, <2>2, <2>3 DEF IncrementFailsOpen, RequestType
<1>10. ASSUME NEW w \in Workers, ExpireNX(w) PROVE TypeOK'
  <2>1. request[w] \in RequestType BY DEF RequestType
  <2>2. [request[w] EXCEPT !.at = "decide"] \in RequestType BY <2>1 DEF RequestType
  <2>3. request' \in [Workers -> RequestType] BY <1>10, <2>2 DEF ExpireNX, RequestType
  <2>4. ttl' \in [Identifiers -> 0 .. Window]
    <3>1. \A i \in Identifiers : ttl[i] \in 0 .. Window /\ Window \in 0 .. Window OBVIOUS
    <3>2. CASE UNCHANGED ttl BY <3>2
    <3>3. CASE ttl' = [ttl EXCEPT ![request[w].id] =
                          IF counter[request[w].id] # 0 /\ @ = 0 THEN Window ELSE @]
      BY <3>1, <3>3
    <3>4. QED BY <1>10, <3>2, <3>3 DEF ExpireNX
  <2>5. faults' \in 0 .. MaxFaults BY <1>10 DEF ExpireNX
  <2>6. QED BY <1>10, <2>3, <2>4, <2>5 DEF ExpireNX, RequestType
<1>11. ASSUME NEW w \in Workers, Decide(w) PROVE TypeOK'
  <2>1. request[w] \in RequestType BY DEF RequestType
  <2>2. request' \in [Workers -> RequestType] BY <1>11 DEF Decide, RequestType
  <2>3. admitted' \in [Identifiers -> Nat] BY <1>11, <2>1 DEF Decide, RequestType
  <2>4. passed' \in [Identifiers -> SUBSET (1 .. CountCap)]
    <3>1. CASE request[w].count <= request[w].limit /\ ~request[w].lapsed
      <4>2. Pending(w) BY <1>11, <3>1, DecidedIsPending DEF Decide
      <4>3. request[w].count \in 1 .. CountCap BY <2>1, <4>2 DEF Counts, RequestType
      <4>4. passed[request[w].id] \cup {request[w].count} \in SUBSET (1 .. CountCap)
        BY <2>1, <4>3 DEF RequestType
      <4>5. QED BY <1>11, <2>1, <3>1, <4>4 DEF Decide, RequestType
    <3>2. CASE ~(request[w].count <= request[w].limit /\ ~request[w].lapsed)
      BY <1>11, <3>2 DEF Decide
    <3>3. QED BY <3>1, <3>2
  <2>5. QED BY <1>11, <2>2, <2>3, <2>4 DEF Decide, RequestType
<1>12. CASE Tick
  <2>1. \A w \in Workers : [request[w] EXCEPT !.lapsed = TRUE] \in RequestType BY DEF RequestType
  <2>2. request' \in [Workers -> RequestType] BY <1>12, <2>1 DEF Tick, RequestType
  <2>3. ttl' \in [Identifiers -> 0 .. Window]
    <3>1. \A i \in Identifiers : (IF ttl[i] = 0 THEN 0 ELSE ttl[i] - 1) \in 0 .. Window OBVIOUS
    <3>2. ttl' = [i \in Identifiers |-> IF ttl[i] = 0 THEN 0 ELSE ttl[i] - 1] BY <1>12 DEF Tick
    <3>3. QED BY <3>1, <3>2
  <2>4. /\ counter' \in [Identifiers -> 0 .. CountCap]
        /\ admitted' \in [Identifiers -> Nat]
        /\ passed' \in [Identifiers -> SUBSET (1 .. CountCap)]
    BY <1>12 DEF Tick
  <2>5. QED BY <1>12, <2>2, <2>3, <2>4 DEF Tick, RequestType
<1>13. CASE Restart
  BY <1>13 DEF Restart
<1>14. CASE UNCHANGED vars BY <1>14 DEF vars
<1>15. QED BY <1>1, <1>2, <1>3, <1>4, <1>5, <1>6, <1>7, <1>8, <1>9, <1>10, <1>11, <1>12, <1>13, <1>14 DEF Next

LEMMA LimitsStep == TypeOK /\ Limits /\ [Next]_vars => Limits'
<1> SUFFICES ASSUME TypeOK, Limits, [Next]_vars PROVE Limits'
  OBVIOUS
<1> USE AccessAssumption, NoRequestType
    DEF TypeOK, Limits, LimitOf, ActiveLimits, KeyLimits, Fails, Serve, storeVars, valkeyVars,
        Identifiers
<1>1. ASSUME NEW k \in Keys, InsertApiKey(k) PROVE Limits'
  BY <1>1 DEF InsertApiKey, Edit
<1>2. ASSUME NEW k \in Keys, DisableKeyByName(k) PROVE Limits'
  BY <1>2 DEF DisableKeyByName, Edit
<1>3. ASSUME NEW k \in Keys, EnableKeyByName(k) PROVE Limits'
  BY <1>3 DEF EnableKeyByName, Edit
<1>4. CASE RefreshQuery
  BY <1>4 DEF RefreshQuery
<1>5. CASE RefreshSwap
  BY <1>5 DEF RefreshSwap
<1>6. CASE RefreshFails
  BY <1>6 DEF RefreshFails
<1>7. ASSUME NEW w \in Workers, NEW i \in Identifiers, Arrive(w, i) PROVE Limits'
  BY <1>7 DEF Arrive
<1>8. ASSUME NEW w \in Workers, Increment(w) PROVE Limits'
  BY <1>8 DEF Increment
<1>9. ASSUME NEW w \in Workers, IncrementFailsOpen(w) PROVE Limits'
  BY <1>9 DEF IncrementFailsOpen
<1>10. ASSUME NEW w \in Workers, ExpireNX(w) PROVE Limits'
  BY <1>10 DEF ExpireNX
<1>11. ASSUME NEW w \in Workers, Decide(w) PROVE Limits'
  BY <1>11 DEF Decide
<1>12. CASE Tick
  BY <1>12 DEF Tick
<1>13. CASE Restart
  BY <1>13 DEF Restart
<1>14. CASE UNCHANGED vars BY <1>14 DEF vars
<1>15. QED BY <1>1, <1>2, <1>3, <1>4, <1>5, <1>6, <1>7, <1>8, <1>9, <1>10, <1>11, <1>12, <1>13, <1>14 DEF Next

LEMMA RecentStep == TypeOK /\ Recent /\ [Next]_vars => Recent'
<1> SUFFICES ASSUME TypeOK, Recent, [Next]_vars PROVE Recent'
  OBVIOUS
<1> USE DEF TypeOK, Recent, StoreIsRecent, ActiveLimits, Fails, Serve, storeVars, valkeyVars
<1>1. ASSUME NEW k \in Keys, InsertApiKey(k) PROVE Recent'
  BY <1>1 DEF InsertApiKey, Edit
<1>2. ASSUME NEW k \in Keys, DisableKeyByName(k) PROVE Recent'
  BY <1>2 DEF DisableKeyByName, Edit
<1>3. ASSUME NEW k \in Keys, EnableKeyByName(k) PROVE Recent'
  BY <1>3 DEF EnableKeyByName, Edit
<1>4. CASE RefreshQuery
  BY <1>4 DEF RefreshQuery
<1>5. CASE RefreshSwap
  BY <1>5 DEF RefreshSwap
<1>6. CASE RefreshFails
  BY <1>6 DEF RefreshFails
<1>7. ASSUME NEW w \in Workers, NEW i \in Identifiers, Arrive(w, i) PROVE Recent'
  BY <1>7 DEF Arrive
<1>8. ASSUME NEW w \in Workers, Increment(w) PROVE Recent'
  BY <1>8 DEF Increment
<1>9. ASSUME NEW w \in Workers, IncrementFailsOpen(w) PROVE Recent'
  BY <1>9 DEF IncrementFailsOpen
<1>10. ASSUME NEW w \in Workers, ExpireNX(w) PROVE Recent'
  BY <1>10 DEF ExpireNX
<1>11. ASSUME NEW w \in Workers, Decide(w) PROVE Recent'
  BY <1>11 DEF Decide
<1>12. CASE Tick
  BY <1>12 DEF Tick
<1>13. CASE Restart
  BY <1>13 DEF Restart
<1>14. CASE UNCHANGED vars BY <1>14 DEF vars
<1>15. QED BY <1>1, <1>2, <1>3, <1>4, <1>5, <1>6, <1>7, <1>8, <1>9, <1>10, <1>11, <1>12, <1>13, <1>14 DEF Next

\* What leaves the numbers alone, and at most forgets requests, keeps Counts.
LEMMA CountsFrame ==
    ASSUME TypeOK, TypeOK', Counts, admitted' = admitted, passed' = passed,
           \A i \in Identifiers : counter[i] <= counter'[i],
           \A i \in Identifiers : \A c \in passed[i] : c <= LimitOf(i) => c <= LimitOf(i)',
           \A w \in Workers : Pending(w)' => /\ Pending(w)
                                            /\ request'[w].id = request[w].id
                                            /\ request'[w].count = request[w].count
    PROVE  Counts'
<1>1. ASSUME NEW i \in Identifiers
      PROVE /\ passed'[i] \subseteq 1 .. counter'[i]
            /\ \A c \in passed'[i] : c <= LimitOf(i)'
            /\ admitted'[i] = Cardinality(passed'[i])
  <2>1. counter[i] \in Nat /\ counter'[i] \in Nat /\ counter[i] <= counter'[i]
    BY <1>1, AccessAssumption DEF TypeOK
  <2>2. passed[i] \subseteq 1 .. counter'[i] BY <2>1 DEF Counts
  <2>3. QED BY <2>2 DEF Counts
<1>2. ASSUME NEW w \in Workers, Pending(w)'
      PROVE /\ request'[w].count \in 1 .. counter'[request'[w].id]
            /\ request'[w].count \notin passed'[request'[w].id]
  <2>1. request[w].id \in Identifiers BY DEF TypeOK
  <2>2. /\ counter[request[w].id] \in Nat /\ counter'[request[w].id] \in Nat
        /\ counter[request[w].id] <= counter'[request[w].id]
    BY <2>1, AccessAssumption DEF TypeOK
  <2>3. QED BY <1>2, <2>2 DEF Counts
<1>3. ASSUME NEW v \in Workers, NEW w \in Workers, v # w, Pending(v)', Pending(w)',
             request'[v].id = request'[w].id
      PROVE request'[v].count # request'[w].count
  BY <1>3 DEF Counts
<1>4. QED BY <1>1, <1>2, <1>3 DEF Counts

\* A command never changes the limit of a key that has one.
LEMMA EditCounts ==
    ASSUME TypeOK, TypeOK', Counts, NEW k \in Keys,
           NEW row \in [limit : KeyLimits, active : BOOLEAN], Edit(k, row),
           apiKeys[k].limit = 0 \/ row.limit = apiKeys[k].limit
    PROVE  Counts'
<1> USE DEF Edit, valkeyVars
<1>1. \A i \in Identifiers : LimitOf(i)' = LimitOf(i) \/ LimitOf(i) = 0
  BY DEF LimitOf, TypeOK, Identifiers
<1>2. \A i \in Identifiers : \A c \in passed[i] : c \in Nat /\ c # 0
  BY AccessAssumption DEF TypeOK
<1>3. \A i \in Identifiers : \A c \in passed[i] : c <= LimitOf(i) => c <= LimitOf(i)'
  BY <1>1, <1>2
<1>4. \A w \in Workers : Pending(w)' <=> Pending(w) BY DEF Pending
<1>5. \A i \in Identifiers : counter[i] <= counter'[i] BY AccessAssumption DEF TypeOK
<1>6. QED BY <1>3, <1>4, <1>5, CountsFrame

LEMMA DecideCounts ==
    ASSUME TypeOK, TypeOK', Limits, Counts, NEW w \in Workers, Decide(w)
    PROVE  Counts'
<1> DEFINE i == request[w].id
           c == request[w].count
<1> USE DEF valkeyVars, storeVars, Serve
<1>a. i \in Identifiers BY DEF TypeOK
<1>b. request' = [request EXCEPT ![w] = NoRequest] /\ counter' = counter /\ apiKeys' = apiKeys
  BY DEF Decide
<1>c. \A v \in Workers : Pending(v)' => Pending(v) /\ v # w /\ request'[v] = request[v]
  BY <1>b, NoRequestType DEF Pending, TypeOK
<1>d. \A j \in Identifiers : LimitOf(j)' = LimitOf(j) BY <1>b DEF LimitOf
<1>1. CASE c <= request[w].limit /\ ~request[w].lapsed
  <2>1. Pending(w) BY <1>1, DecidedIsPending DEF Decide
  <2>2. /\ admitted' = [admitted EXCEPT ![i] = @ + 1]
        /\ passed' = [passed EXCEPT ![i] = @ \cup {c}]
    BY <1>1 DEF Decide
  <2>3. c \in 1 .. counter[i] /\ c \notin passed[i] BY <2>1 DEF Counts
  <2>4. c <= LimitOf(i) BY <1>1 DEF Decide, Limits
  <2>5. ASSUME NEW j \in Identifiers
        PROVE /\ passed'[j] \subseteq 1 .. counter'[j]
              /\ \A d \in passed'[j] : d <= LimitOf(j)'
              /\ admitted'[j] = Cardinality(passed'[j])
    <3>1. CASE j # i BY <1>b, <1>d, <2>2, <3>1 DEF Counts, TypeOK
    <3>2. CASE j = i
      <4>1. passed'[i] = passed[i] \cup {c} /\ admitted'[i] = admitted[i] + 1
        BY <1>a, <2>2 DEF TypeOK
      <4>2. IsFiniteSet(passed[i]) BY <1>a, PassedIsFinite DEF TypeOK
      <4>3. Cardinality(passed[i] \cup {c}) = Cardinality(passed[i]) + 1
        BY <2>3, <4>2, FS_AddElement
      <4>4. admitted[i] = Cardinality(passed[i]) BY <1>a DEF Counts
      <4>5. passed[i] \subseteq 1 .. counter[i] /\ \A d \in passed[i] : d <= LimitOf(i)
        BY <1>a DEF Counts
      <4>6. QED BY <1>a, <1>b, <1>d, <2>3, <2>4, <3>2, <4>1, <4>3, <4>4, <4>5
    <3>3. QED BY <3>1, <3>2
  <2>6. ASSUME NEW v \in Workers, Pending(v)'
        PROVE /\ request'[v].count \in 1 .. counter'[request'[v].id]
              /\ request'[v].count \notin passed'[request'[v].id]
    <3>1. Pending(v) /\ v # w /\ request'[v] = request[v] BY <1>c, <2>6
    <3>2. /\ request[v].count \in 1 .. counter[request[v].id]
          /\ request[v].count \notin passed[request[v].id]
          /\ request[v].id = i => request[v].count # c
      BY <2>1, <3>1 DEF Counts
    <3>3. request[v].id \in Identifiers BY DEF TypeOK
    <3>4. QED BY <1>b, <2>2, <3>1, <3>2, <3>3 DEF TypeOK
  <2>7. QED BY <1>c, <2>5, <2>6 DEF Counts
<1>2. CASE ~(c <= request[w].limit /\ ~request[w].lapsed)
  <2>1. admitted' = admitted /\ passed' = passed BY <1>2 DEF Decide
  <2>2. \A j \in Identifiers : counter[j] <= counter'[j] BY <1>b, AccessAssumption DEF TypeOK
  <2>3. QED BY <1>c, <1>d, <2>1, <2>2, CountsFrame
<1>3. QED BY <1>1, <1>2

\* INCR hands out a number that nobody in the window has.
LEMMA IncrementCounts ==
    ASSUME TypeOK, TypeOK', Limits, Counts, NEW w \in Workers, Increment(w)
    PROVE  Counts'
<1> DEFINE i == request[w].id
           n == Bump(i)
<1> USE DEF valkeyVars, storeVars, Serve
<1>a. i \in Identifiers /\ counter[i] \in 0 .. CountCap /\ CountCap \in Nat
  BY AccessAssumption DEF TypeOK
<1>b. /\ n \in Nat /\ counter[i] <= n
      /\ n < CountCap => n = counter[i] + 1
      /\ n \in 1 .. n \/ n = CountCap
  BY <1>a DEF Bump
<1>c. /\ request' = [request EXCEPT ![w] = [request[w] EXCEPT !.at = "expire", !.count = n]]
      /\ counter' = [counter EXCEPT ![i] = n]
      /\ admitted' = admitted /\ passed' = passed /\ apiKeys' = apiKeys
  BY DEF Increment
<1>d. request'[w].id = i /\ request'[w].count = n BY <1>c DEF TypeOK
<1>e. \A v \in Workers : v # w => request'[v] = request[v] /\ (Pending(v)' <=> Pending(v))
  BY <1>c DEF TypeOK, Pending
<1>f. \A j \in Identifiers : LimitOf(j)' = LimitOf(j) BY <1>c DEF LimitOf
<1>g. counter'[i] = n /\ \A j \in Identifiers : j # i => counter'[j] = counter[j]
  BY <1>a, <1>c DEF TypeOK
<1>1. ASSUME NEW j \in Identifiers
      PROVE /\ passed'[j] \subseteq 1 .. counter'[j]
            /\ \A d \in passed'[j] : d <= LimitOf(j)'
            /\ admitted'[j] = Cardinality(passed'[j])
  <2>1. passed[j] \subseteq 1 .. counter[j] BY DEF Counts
  <2>2. passed[j] \subseteq 1 .. counter'[j] BY <1>a, <1>b, <1>g, <2>1
  <2>3. QED BY <1>c, <1>f, <2>2 DEF Counts
<1>2. ASSUME NEW v \in Workers, v # w, Pending(v)'
      PROVE /\ request'[v].count \in 1 .. counter[request[v].id]
            /\ request'[v].count \in 1 .. counter'[request'[v].id]
            /\ request'[v].count \notin passed'[request'[v].id]
  <2>1. Pending(v) /\ request'[v] = request[v] BY <1>2, <1>e
  <2>2. request[v].id \in Identifiers BY DEF TypeOK
  <2>3. /\ request[v].count \in 1 .. counter[request[v].id]
        /\ request[v].count \notin passed[request[v].id]
    BY <2>1 DEF Counts
  <2>4. request[v].count \in 1 .. counter'[request[v].id] BY <1>a, <1>b, <1>g, <2>2, <2>3
  <2>5. QED BY <1>c, <2>1, <2>3, <2>4
<1>3. ASSUME Pending(w)'
      PROVE n = counter[i] + 1 /\ n \in 1 .. n /\ n \notin passed[i]
  <2>1. n < CountCap BY <1>3, <1>d DEF Pending
  <2>2. n = counter[i] + 1 BY <1>b, <2>1
  <2>3. passed[i] \subseteq 1 .. counter[i] BY <1>a DEF Counts
  <2>4. QED BY <1>a, <2>2, <2>3
<1>4. ASSUME NEW v \in Workers, Pending(v)'
      PROVE /\ request'[v].count \in 1 .. counter'[request'[v].id]
            /\ request'[v].count \notin passed'[request'[v].id]
  BY <1>2, <1>3, <1>4, <1>c, <1>d, <1>g
<1>5. ASSUME NEW v \in Workers, v # w, Pending(v)', Pending(w)', request'[v].id = i
      PROVE request'[v].count # n
  <2>1. request'[v].count \in 1 .. counter[i] BY <1>2, <1>5, <1>e
  <2>2. n = counter[i] + 1 BY <1>3, <1>5
  <2>3. QED BY <1>a, <2>1, <2>2
<1>6. ASSUME NEW u \in Workers, NEW v \in Workers, u # v, Pending(u)', Pending(v)',
             request'[u].id = request'[v].id
      PROVE request'[u].count # request'[v].count
  <2>1. CASE u # w /\ v # w BY <1>6, <1>e, <2>1 DEF Counts
  <2>2. CASE u = w BY <1>6, <1>5, <1>d, <2>2
  <2>3. CASE v = w BY <1>6, <1>5, <1>d, <2>3
  <2>4. QED BY <2>1, <2>2, <2>3
<1>7. QED BY <1>1, <1>4, <1>6 DEF Counts

\* An expiry takes the numbers of the window and the claims on them together.
LEMMA TickCounts ==
    ASSUME TypeOK, TypeOK', Counts, Tick
    PROVE  Counts'
<1> DEFINE over == {i \in Identifiers : ttl[i] = 1}
<1> USE DEF valkeyVars, storeVars
<1>a. /\ counter' = [i \in Identifiers |-> IF i \in over THEN 0 ELSE counter[i]]
      /\ admitted' = [i \in Identifiers |-> IF i \in over THEN 0 ELSE admitted[i]]
      /\ passed' = [i \in Identifiers |-> IF i \in over THEN {} ELSE passed[i]]
      /\ apiKeys' = apiKeys
  BY DEF Tick
<1>b. \A w \in Workers :
         /\ request'[w].id = request[w].id /\ request'[w].count = request[w].count
         /\ Pending(w)' => Pending(w) /\ request[w].id \notin over
  <2> SUFFICES ASSUME NEW w \in Workers
               PROVE  /\ request'[w].id = request[w].id /\ request'[w].count = request[w].count
                      /\ Pending(w)' => Pending(w) /\ request[w].id \notin over
    OBVIOUS
  <2>1. CASE request[w].at \in {"expire", "decide"} /\ request[w].id \in over
    <3>1. request'[w] = [request[w] EXCEPT !.lapsed = TRUE] BY <2>1 DEF Tick
    <3>2. /\ request'[w].id = request[w].id /\ request'[w].count = request[w].count
          /\ request'[w].lapsed = TRUE
      BY <3>1 DEF TypeOK
    <3>3. QED BY <3>2 DEF Pending
  <2>2. CASE ~(request[w].at \in {"expire", "decide"} /\ request[w].id \in over)
    <3>1. request'[w] = request[w] BY <2>2 DEF Tick
    <3>2. QED BY <2>2, <3>1 DEF Pending
  <2>3. QED BY <2>1, <2>2
<1>c. \A j \in Identifiers : LimitOf(j)' = LimitOf(j) BY <1>a DEF LimitOf
<1>1. ASSUME NEW j \in Identifiers
      PROVE /\ passed'[j] \subseteq 1 .. counter'[j]
            /\ \A d \in passed'[j] : d <= LimitOf(j)'
            /\ admitted'[j] = Cardinality(passed'[j])
  <2>1. CASE j \in over BY <1>a, <2>1, FS_EmptySet
  <2>2. CASE j \notin over BY <1>a, <1>c, <2>2 DEF Counts
  <2>3. QED BY <2>1, <2>2
<1>2. ASSUME NEW w \in Workers, Pending(w)'
      PROVE /\ request'[w].count \in 1 .. counter'[request'[w].id]
            /\ request'[w].count \notin passed'[request'[w].id]
  <2>1. request[w].id \in Identifiers BY DEF TypeOK
  <2>2. QED BY <1>2, <1>a, <1>b, <2>1 DEF Counts
<1>3. QED BY <1>1, <1>2, <1>b DEF Counts

LEMMA CountsStep == TypeOK /\ TypeOK' /\ Limits /\ Counts /\ [Next]_vars => Counts'
<1> SUFFICES ASSUME TypeOK, TypeOK', Limits, Counts, [Next]_vars PROVE Counts'
  OBVIOUS
<1> USE DEF storeVars, valkeyVars, Serve
<1>a. \A i \in Identifiers : counter[i] \in 0 .. CountCap BY DEF TypeOK
<1>b. \A i \in Identifiers : counter[i] <= counter[i] BY <1>a, AccessAssumption
<1>1. ASSUME NEW k \in Keys, InsertApiKey(k) PROVE Counts'
  BY <1>1, EditCounts, AccessAssumption DEF InsertApiKey, KeyLimits
<1>2. ASSUME NEW k \in Keys, DisableKeyByName(k) PROVE Counts'
  <2>1. /\ [apiKeys[k] EXCEPT !.active = FALSE] \in [limit : KeyLimits, active : BOOLEAN]
        /\ [apiKeys[k] EXCEPT !.active = FALSE].limit = apiKeys[k].limit
    BY RowType DEF TypeOK
  <2>2. QED BY <1>2, <2>1, EditCounts DEF DisableKeyByName
<1>3. ASSUME NEW k \in Keys, EnableKeyByName(k) PROVE Counts'
  <2>1. /\ [apiKeys[k] EXCEPT !.active = TRUE] \in [limit : KeyLimits, active : BOOLEAN]
        /\ [apiKeys[k] EXCEPT !.active = TRUE].limit = apiKeys[k].limit
    BY RowType DEF TypeOK
  <2>2. QED BY <1>3, <2>1, EditCounts DEF EnableKeyByName
<1>4. ASSUME UNCHANGED <<apiKeys, request, valkeyVars>> PROVE Counts'
  <2>1. /\ \A i \in Identifiers : LimitOf(i)' = LimitOf(i)
        /\ \A w \in Workers : Pending(w)' <=> Pending(w)
    BY <1>4 DEF LimitOf, Pending
  <2>2. QED BY <1>4, <1>b, <2>1, CountsFrame
<1>5. CASE RefreshQuery \/ RefreshSwap \/ RefreshFails \/ UNCHANGED vars
  BY <1>4, <1>5 DEF RefreshQuery, RefreshSwap, RefreshFails, vars
<1>6. ASSUME UNCHANGED <<apiKeys, admitted, passed>>,
             \A i \in Identifiers : counter[i] <= counter'[i],
             \A w \in Workers : Pending(w)' => Pending(w) /\ request'[w].id = request[w].id
                                                         /\ request'[w].count = request[w].count
      PROVE Counts'
  <2>1. \A i \in Identifiers : LimitOf(i)' = LimitOf(i) BY <1>6 DEF LimitOf
  <2>2. QED BY <1>6, <2>1, CountsFrame
<1>7. ASSUME NEW w \in Workers, NEW i \in Identifiers, Arrive(w, i) PROVE Counts'
  <2>1. /\ \A v \in Workers : v # w => request'[v] = request[v]
        /\ request'[w].at = "count"
    BY <1>7 DEF Arrive, TypeOK, NoRequest
  <2>2. QED BY <1>6, <1>7, <1>b, <2>1 DEF Arrive, Pending
<1>8. ASSUME NEW w \in Workers, Increment(w) PROVE Counts'
  BY <1>8, IncrementCounts
<1>9. ASSUME NEW w \in Workers, IncrementFailsOpen(w) PROVE Counts'
  <2>1. /\ \A v \in Workers : v # w => request'[v] = request[v]
        /\ request'[w].at = "idle"
    BY <1>9, NoRequestType DEF IncrementFailsOpen, TypeOK
  <2>2. \A i \in Identifiers : counter[i] <= counter'[i]
    <3>1. request[w].id \in Identifiers BY DEF TypeOK
    <3>2. counter[request[w].id] <= Bump(request[w].id) BY <1>a, <3>1, AccessAssumption DEF Bump
    <3>3. QED BY <1>9, <1>b, <3>1, <3>2 DEF IncrementFailsOpen, TypeOK
  <2>3. QED BY <1>6, <1>9, <2>1, <2>2 DEF IncrementFailsOpen, Pending
<1>10. ASSUME NEW w \in Workers, ExpireNX(w) PROVE Counts'
  <2>1. request' = [request EXCEPT ![w] = [request[w] EXCEPT !.at = "decide"]]
    BY <1>10 DEF ExpireNX
  <2>2. /\ \A v \in Workers : v # w => request'[v] = request[v]
        /\ request'[w].id = request[w].id /\ request'[w].count = request[w].count
        /\ request'[w].lapsed = request[w].lapsed /\ request[w].at = "expire"
    BY <1>10, <2>1 DEF ExpireNX, TypeOK
  <2>3. QED BY <1>6, <1>10, <1>b, <2>2 DEF ExpireNX, Pending
<1>11. ASSUME NEW w \in Workers, Decide(w) PROVE Counts'
  BY <1>11, DecideCounts
<1>12. CASE Tick BY <1>12, TickCounts
<1>13. CASE Restart
  <2>1. \A w \in Workers : request'[w].at = "idle" BY <1>13, NoRequestType DEF Restart
  <2>2. QED BY <1>6, <1>13, <1>b, <2>1 DEF Restart, Pending
<1>14. QED BY <1>1, <1>2, <1>3, <1>5, <1>7, <1>8, <1>9, <1>10, <1>11, <1>12, <1>13 DEF Next

\* The inductive invariant holds in every reachable state.
THEOREM Invariance == Spec => []IInv
<1>1. IInv /\ [Next]_vars => IInv'
  BY TypeStep, LimitsStep, RecentStep, CountsStep DEF IInv
<1>2. QED BY InitInv, <1>1, PTL DEF Spec

\* Rows, the store, requests in flight and Valkey's counters keep their types, for
\* any number of keys, clients and workers.
THEOREM TypeCorrect == Spec => []TypeOK
<1>1. IInv => TypeOK BY DEF IInv
<1>2. QED BY Invariance, <1>1, PTL

\* Refresh never leaves the store with a key table older than its last query: a
\* revoked key is out with the first refresh that starts after the command.
THEOREM StoreNeverStale == Spec => []StoreIsRecent
<1>1. IInv => StoreIsRecent BY DEF IInv, Recent
<1>2. QED BY Invariance, <1>1, PTL

\* The middleware never lets more requests of one window through than the limit of
\* the client, for any number of workers and of windows: every request that passes
\* takes a number of its own among the first "limit" ones.
THEOREM LimitIsKept == Spec => []WindowWithinLimit
<1>1. IInv => WindowWithinLimit
  <2> SUFFICES ASSUME IInv, NEW i \in Identifiers, NEW l \in LimitsOf(i) PROVE admitted[i] <= l
    BY DEF WindowWithinLimit
  <2>1. l = LimitOf(i) BY DEF LimitsOf, LimitOf
  <2>2. l \in Nat
    <3>1. \A m \in KeyLimits \cup {IpRpm} : m \in Nat BY AccessAssumption DEF KeyLimits
    <3>2. l \in KeyLimits \cup {IpRpm} BY <2>1 DEF LimitOf, IInv, TypeOK, Identifiers
    <3>3. QED BY <3>1, <3>2, Zenon
  <2>3. /\ \A c \in passed[i] : c \in Nat /\ c >= 1 /\ c <= l
        /\ admitted[i] = Cardinality(passed[i])
    BY <2>1, AccessAssumption DEF IInv, TypeOK, Counts
  <2>4. passed[i] \subseteq 1 .. l BY <2>2, <2>3
  <2>5. QED BY <2>2, <2>3, <2>4, AtMost
<1>2. QED BY Invariance, <1>1, PTL

=============================================================================

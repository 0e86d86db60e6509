------------------------------ MODULE Pagination ------------------------------
(***************************************************************************)
(* The cursor pages of /transactions and /addresses/{address}/txs: the     *)
(* keyset queries GetTransactionsByRange and queryAddressTxs, the bodies   *)
(* with their links, and a client that follows the links while indexers    *)
(* insert rows at either end of the history and in between.                *)
(***************************************************************************)
EXTENDS Integers, Sequences, FiniteSets, SequencesExt

CONSTANTS
    Keys,       \* the (block_height, tx_hash) pairs that may be indexed
    MaxLimit,   \* 100 in the code
    Ranges      \* bound: the height intervals of the timestamp ranges asked for

ASSUME PagesAssumption ==
    /\ Keys \subseteq Nat \X Nat /\ IsFiniteSet(Keys)
    /\ MaxLimit \in Nat \ {0}
    /\ Ranges \subseteq Nat \X Nat

VARIABLES
    rows,       \* keys that the joins of the route's SELECT produce
    client,     \* "new", or "paging" once it has an answer
    range,      \* its from_timestamp and to_timestamp, as heights; <<>> without
    page,       \* the body of the last answer
    walk,       \* history: rows of a walk from the head along next_cursor
    onWalk,     \* history: the client has only gone forward
    atStart     \* history: the rows of its range when the walk began

pagesVars == <<rows, client, range, page, walk, onWalk, atStart>>

\* Postgres compares the pair (block_height, tx_hash) row-wise.
Below(a, b) == a[1] < b[1] \/ (a[1] = b[1] /\ a[2] < b[2])

\* A hash is printed by encode(tx_hash, 'base64') and travels base64url.
Std(x) == [alphabet |-> "std", raw |-> x]
Url(x) == [alphabet |-> "url", raw |-> x]
NoCursor == [height |-> 0, hash |-> [alphabet |-> "none", raw |-> 0]]

\* makeTxCursor: re-encodes the printed hash.
MakeTxCursor(row) == [height |-> row.height, hash |-> Url(row.hash.raw)]

\* decodeCursor, unmarshalCursorParam: the seek key.  Only base64url decodes, and
\* the links hold nothing else.
DecodeCursor(cursor) == <<cursor.height, cursor.hash.raw>>

\* The predicate of queryAddressTxs on the timestamps; without a range, and for
\* GetTransactionsByRange, every row.
InRange(r, k) == r = <<>> \/ (r[1] <= k[1] /\ k[1] <= r[2])

\* The rows the WHERE clause leaves.
Matching(table, r, cursor, direction) ==
    {k \in table :
        /\ InRange(r, k)
        /\ cursor # NoCursor =>
             IF direction = "next" THEN Below(k, DecodeCursor(cursor))
                                   ELSE Below(DecodeCursor(cursor), k)}

\* ORDER BY, in GetTransactionsByRange as in queryAddressTxs: next scans DESC, prev
\* scans ASC.
Before(direction, a, b) == IF direction = "next" THEN Below(b, a) ELSE Below(a, b)

\* How many of the rows found come before k.
Rank(found, direction, k) == Cardinality({j \in found : Before(direction, j, k)})

\* The rows in that order, of either query: the one at place n has n - 1 before it.
Scan(table, r, cursor, direction) ==
    LET found == Matching(table, r, cursor, direction)
    IN  [n \in 1 .. Cardinality(found) |-> CHOOSE k \in found : Rank(found, direction, k) = n - 1]

\* Mutant of Fetch: LIMIT without the probe row.
FetchNoProbe(scan, limit) == SubSeq(scan, 1, IF Len(scan) < limit THEN Len(scan) ELSE limit)

\* LIMIT, which is one more than the page holds.
Fetch(scan, limit) == SubSeq(scan, 1, IF Len(scan) < limit + 1 THEN Len(scan) ELSE limit + 1)

Row(k) == [height |-> k[1], hash |-> Std(k[2])]
Key(row) == <<row.height, row.hash.raw>>

\* Mutant of Finalize: a page that is full is taken for one with more behind it.
FinalizeFullIsMore(fetched, limit, direction) ==
    LET trimmed == IF Len(fetched) > limit THEN SubSeq(fetched, 1, limit) ELSE fetched
    IN  [txs |-> [n \in 1 .. Len(trimmed) |->
                    Row((IF direction = "prev" THEN Reverse(trimmed) ELSE trimmed)[n])],
         hasMore |-> Len(fetched) >= limit]

\* Mutant of Finalize: the probe row is trimmed after the prev page is reversed.
FinalizeReversesFirst(fetched, limit, direction) ==
    LET ordered == IF direction = "prev" THEN Reverse(fetched) ELSE fetched
        more == Len(fetched) > limit
    IN  [txs |-> [n \in 1 .. (IF more THEN limit ELSE Len(ordered)) |-> Row(ordered[n])],
         hasMore |-> more]

\* The probe row is cut off and a prev page is turned newest-first.
Finalize(fetched, limit, direction) ==
    LET more == Len(fetched) > limit
        trimmed == IF more THEN SubSeq(fetched, 1, limit) ELSE fetched
        ordered == IF direction = "prev" THEN Reverse(trimmed) ELSE trimmed
    IN  [txs |-> [n \in 1 .. Len(ordered) |-> Row(ordered[n])], hasMore |-> more]

\* buildTransactionsRangeBody and buildAddressTxsBody; has_next and has_prev are
\* true exactly where the cursor is given.
Body(answer, direction, cursor) ==
    LET newest == MakeTxCursor(Head(answer.txs))
        oldest == MakeTxCursor(Last(answer.txs))
        hasNext == direction = "prev" \/ answer.hasMore
        hasPrev == IF direction = "next" THEN cursor # NoCursor ELSE answer.hasMore
    IN  IF answer.txs = <<>>
        THEN [txs |-> <<>>, next |-> NoCursor, prev |-> NoCursor]
        ELSE [txs |-> answer.txs,
              next |-> IF hasNext THEN oldest ELSE NoCursor,
              prev |-> IF hasPrev THEN newest ELSE NoCursor]

\* GetTransactionsByCursor and GetAddressTxs with a limit they accept.
Page(table, r, limit, cursor, direction) ==
    Body(Finalize(Fetch(Scan(table, r, cursor, direction), limit), limit, direction),
         direction, cursor)

-----------------------------------------------------------------------------

EmptyPage == [txs |-> <<>>, next |-> NoCursor, prev |-> NoCursor]

PagesInit ==
    /\ rows \in SUBSET Keys
    /\ client = "new" /\ range = <<>> /\ page = EmptyPage
    /\ walk = <<>> /\ onWalk = FALSE /\ atStart = {}

\* An indexer commits the last row that makes a transaction visible.
Insert(k) ==
    /\ k \notin rows
    /\ rows' = rows \cup {k}
    /\ UNCHANGED <<client, range, page, walk, onWalk, atStart>>

PageKeys(p) == [n \in 1 .. Len(p.txs) |-> Key(p.txs[n])]

\* The first request: no cursor, with or without a pair of timestamps.
Open(limit) ==
    /\ client = "new"
    /\ client' = "paging"
    /\ range' \in Ranges \cup {<<>>}
    /\ page' = Page(rows, range', limit, NoCursor, "next")
    /\ walk' = PageKeys(page') /\ onWalk' = TRUE
    /\ atStart' = {k \in rows : InRange(range', k)}
    /\ UNCHANGED rows

\* The client follows next_cursor with direction=next, on either route:
\* GetTransactionsByCursor or GetAddressTxs.
FollowNext(limit) ==
    /\ client = "paging" /\ page.next # NoCursor
    /\ page' = Page(rows, range, limit, page.next, "next")
    /\ walk' = IF onWalk THEN walk \o PageKeys(page') ELSE walk
    /\ UNCHANGED <<rows, client, range, onWalk, atStart>>

\* The client follows prev_cursor with direction=prev, on either route.
FollowPrev(limit) ==
    /\ client = "paging" /\ page.prev # NoCursor
    /\ page' = Page(rows, range, limit, page.prev, "prev")
    /\ onWalk' = FALSE /\ walk' = <<>> /\ atStart' = {}
    /\ UNCHANGED <<rows, client, range>>

PagesNext ==
    \/ \E k \in Keys : Insert(k)
    \/ \E limit \in 1 .. MaxLimit : Open(limit) \/ FollowNext(limit) \/ FollowPrev(limit)

PagesSpec == PagesInit /\ [][PagesNext]_pagesVars

-----------------------------------------------------------------------------

Cursors == {NoCursor} \cup {[height |-> k[1], hash |-> Url(k[2])] : k \in Keys}

\* Every variable holds a value of its type.
PagesTypeOK ==
    /\ rows \subseteq Keys /\ client \in {"new", "paging"}
    /\ range \in Ranges \cup {<<>>}
    /\ page.txs \in Seq({Row(k) : k \in Keys}) /\ Len(page.txs) <= MaxLimit
    /\ page.next \in Cursors /\ page.prev \in Cursors
    /\ walk \in Seq(Keys) /\ onWalk \in BOOLEAN /\ atStart \subseteq Keys

\* A client that pages from the head with any mix of limits meets its rows newest
\* first and no row twice, across the page borders too; and at the last page it has
\* met every row that was there when it began, although rows were inserted on both
\* sides of its cursor meanwhile.
WalkIsComplete ==
    /\ \A m, n \in 1 .. Len(walk) : m < n => Below(walk[n], walk[m])
    /\ onWalk /\ page.next = NoCursor => atStart \subseteq ToSet(walk)

\* A link that a body offers leads to a page with rows, in both directions and
\* whatever was inserted since.
LinksLead ==
    /\ page.next # NoCursor => Page(rows, range, 1, page.next, "next").txs # <<>>
    /\ page.prev # NoCursor => Page(rows, range, 1, page.prev, "prev").txs # <<>>

\* Going back joins on: no row of the table lies between the oldest row of a page
\* reached by prev_cursor and the row that the cursor named, nor is a row of the
\* page's span left out.
PrevJoinsOn ==
    [][\A limit \in 1 .. MaxLimit :
         FollowPrev(limit) =>
           LET keys == {Key(page'.txs[n]) : n \in 1 .. Len(page'.txs)}
           IN  \A k \in rows :
                 /\ InRange(range, k) /\ Below(DecodeCursor(page.prev), k)
                 /\ \E top \in keys : k = top \/ Below(k, top)
                 => k \in keys]_pagesVars

=============================================================================

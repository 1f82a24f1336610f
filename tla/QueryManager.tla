---------------------------- MODULE QueryManager ----------------------------
(***************************************************************************)
(* What each query of manager/src/QueryManager.cpp computes, as operators  *)
(* over sets of rows: which rows a WHERE clause selects, which of them one *)
(* page holds, and what the application computes from them.  A row carries *)
(* its scope (tenant, team, cluster), its server and its timestamp; the    *)
(* measured columns appear only where a query computes with them.          *)
(* QueryService.tla runs the statements one after another, interleaved     *)
(* with the writers.                                                       *)
(***************************************************************************)
EXTENDS Integers, FiniteSets, FiniteSetsExt

CONSTANTS
    IntBits,          \* width of the C++ type int
    DefaultPageSize,  \* page size when the request gives none (100)
    OfflineAfter      \* seconds without a row after which a server is offline (60)

\* An int holds the default page size; the second line is arithmetic, which the
\* proofs about WrapInt take from here.
ASSUME IntAssumption ==
    /\ DefaultPageSize \in 1 .. 2^(IntBits - 1) - 1
    /\ 2^(IntBits - 1) \in Nat /\ 2^IntBits = 2 * 2^(IntBits - 1)

NoId == <<>>

-----------------------------------------------------------------------------
\* Scopes and ranges.

validateQueryScope(scope) == scope.tenant # NoId /\ scope.team # NoId

validateTimeRange(range) == range.start <= range.end

scopePredicate(scope, r) ==
    /\ r.tenant = scope.tenant
    /\ r.team = scope.team
    /\ scope.cluster # NoId => r.cluster = scope.cluster

-----------------------------------------------------------------------------
\* Pages.

Ints == -(2^(IntBits - 1)) .. 2^(IntBits - 1) - 1

WrapInt(n) == ((n + 2^(IntBits - 1)) % 2^IntBits) - 2^(IntBits - 1)

Paged(page) ==
    [number |-> IF page.number < 1 THEN 1 ELSE page.number,
     size   |-> IF page.size < 1 THEN DefaultPageSize ELSE page.size]

\* Variant: pages counted from zero.
OffsetFromZero(page) == WrapInt(Paged(page).number * Paged(page).size)

Offset(page) == WrapInt((Paged(page).number - 1) * Paged(page).size)

\* ORDER BY key DESC LIMIT size OFFSET offset.  Rows with equal keys come in
\* any order, so a page is any set that takes from every key as many rows as
\* the page has positions of that key.
PagesOf(key, offset, size) ==
    LET rows == DOMAIN key
        Newer(k) == Cardinality({r \in rows : key[r] > k})
        Equal(k) == {r \in rows : key[r] = k}
        Covered(k) == (Newer(k) + 1 .. Newer(k) + Cardinality(Equal(k)))
                      \cap (offset + 1 .. offset + size)
    IN  {P \in SUBSET rows : \A k \in {key[r] : r \in rows} :
            Cardinality(P \cap Equal(k)) = Cardinality(Covered(k))}

-----------------------------------------------------------------------------
\* The rows of one server in a time range: the WHERE clause that the summary
\* and the six detail queries share.

OfServer(rows, req) ==
    {r \in rows : /\ scopePredicate(req.scope, r)
                  /\ r.server = req.server
                  /\ r.ts \in req.range.start .. req.range.end}

queryPerformanceRecords(db, req) == OfServer(db.performance, req)

queryNetDetailRecords(db, req) == OfServer(db.net, req)

queryDiskDetailRecords(db, req) == OfServer(db.disk, req)

queryMemDetailRecords(db, req) == OfServer(db.mem, req)

querySoftIrqDetailRecords(db, req) == OfServer(db.softirq, req)

queryMysqlDetailRecords(db, req) == OfServer(db.mysql, req)

queryRedisDetailRecords(db, req) == OfServer(db.redis, req)

\* Rows per time bucket, or every row by itself when no interval is given.
Bucket(r, interval) ==
    IF interval > 0 THEN (r.ts \div interval) * interval ELSE r.ts

queryTrend(db, req) ==
    LET rows == OfServer(db.performance, req)
    IN  IF req.interval > 0
        THEN {{r \in rows : Bucket(r, req.interval) = Bucket(q, req.interval)} : q \in rows}
        ELSE {{q} : q \in rows}

-----------------------------------------------------------------------------
\* Ranking: the newest row of every server of every cluster of the scope.

SameHost(r, q) ==
    /\ r.tenant = q.tenant /\ r.team = q.team
    /\ r.cluster = q.cluster /\ r.server = q.server

\* Variant: the newest row of a server name, whatever its cluster.
NewestOfName(rows) ==
    {r \in rows : \A q \in rows : q.server = r.server => q.ts <= r.ts}

NewestRows(rows) ==
    {r \in rows : \A q \in rows : SameHost(r, q) => q.ts <= r.ts}

LatestRows(db, scope) ==
    NewestRows({r \in db.performance : scopePredicate(scope, r)})

queryServerScoreRank(db, req) ==
    [total |-> Cardinality({r.server : r \in {q \in db.performance : scopePredicate(req.scope, q)}}),
     rows  |-> LatestRows(db, req.scope)]

Offline(r, now) == now - r.ts > OfflineAfter

\* The loop over the rows, best score first, and the cluster statistics.
\* MAX_SCORE is 100.0f + FLT_EPSILON, which is 100.0f again in a float.
MaxScore == 100

LowestBelowMax(rows) ==
    LET below == {r.score : r \in rows} \cap (0 .. MaxScore - 1)
    IN  IF below = {} THEN 0 ELSE Min(below)

queryLatestServerScores(rows, now) ==
    [total   |-> Cardinality(rows),
     online  |-> Cardinality({r \in rows : ~Offline(r, now)}),
     offline |-> Cardinality({r \in rows : Offline(r, now)}),
     avg     |-> IF rows = {} THEN 0
                 ELSE MapThenSumSet(LAMBDA r : r.score, rows) \div Cardinality(rows),
     max     |-> Max({0} \cup {r.score : r \in rows}),
     min     |-> LowestBelowMax(rows),
     best    |-> {r.server : r \in {q \in rows : q.score > 0 /\ \A p \in rows : p.score <= q.score}},
     worst   |-> {r.server : r \in {q \in rows : q.score < MaxScore /\ \A p \in rows : p.score >= q.score}}]
=============================================================================

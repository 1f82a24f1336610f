---------------------------- MODULE QueryService ----------------------------
(***************************************************************************)
(* QueryServiceImpl (manager/src/rpc/QueryService.cpp): the eleven query   *)
(* handlers, each a sequence of SQL statements on one leased connection,   *)
(* running while HostManager's writers insert rows, and the Redis cache in *)
(* front of QueryLatestScore.                                              *)
(*                                                                         *)
(* A stored sample is one record of `samples'; it gives each table the     *)
(* number of rows Parts says (one summary row, one row per interface ...). *)
(* There is no transaction: a statement sees the rows present when it      *)
(* runs.  The dispatcher in front of the handlers is QueryDispatcher.tla,  *)
(* the pools are MysqlConnectionPool.tla and RedisConnectionPool.tla: here *)
(* a statement fails, an acquire times out or Redis does not answer        *)
(* whenever it likes.                                                      *)
(***************************************************************************)
EXTENDS QueryManager, Sequences

CONSTANTS
    Clients,
    Requests,       \* the requests a client may send
    UseCases,       \* what the clients call: functions from clients to sets of
                    \*   handler and request
    Hosts,          \* the hosts that push: scope and server name
    Parts,          \* rows a sample adds to each detail table
    Hot,            \* servers whose rows pass the filters of the anomaly query
    CacheTtl,       \* redis_cache_ttl
    CallTime,       \* bound on the duration of a handler: every SQL statement
                    \*   and Redis command has a timeout
    MaxSamples, MaxNow

Tables == {"performance", "net", "disk", "mem", "softirq", "mysql", "redis"}

\* The handlers that count the rows of a server and then read one page.
TableOf == [QueryPerformance |-> "performance", QueryNetDetail |-> "net",
            QueryDiskDetail |-> "disk", QueryMemDetail |-> "mem",
            QuerySoftIrqDetail |-> "softirq", QueryMysqlDetail |-> "mysql",
            QueryRedisDetail |-> "redis"]

PageHandlers == DOMAIN TableOf

Handlers == PageHandlers \cup {"QueryTrend", "QueryAnomaly", "QueryScoreRank", "QueryLatestScore"}

ASSUME QueryServiceAssumption ==
    /\ UseCases \subseteq [Clients -> SUBSET (Handlers \X Requests)]
    /\ Parts \in [Tables -> Nat] /\ Parts["performance"] = 1
    /\ CacheTtl \in Nat \ {0} /\ CallTime \in Nat

\* A request as its message declares it.
ASSUME RequestAssumption ==
    \A req \in Requests :
        req \in [scope : [tenant : Seq(STRING), team : Seq(STRING), cluster : Seq(STRING)],
                server : Seq(STRING), range : [start : Int, end : Int],
                page : [number : Ints, size : Ints], interval : Int]

\* queryAnomalyRecords() moves an iterator by the offset: where the end of its
\* page does not fit in an int the program's behaviour is undefined, and
\* nothing is said of it.
ASSUME AnomalyAssumption ==
    \A u \in UseCases, c \in Clients, req \in Requests :
        <<"QueryAnomaly", req>> \in u[c] => Paged(req.page).number * Paged(req.page).size \in Ints

VARIABLES
    uses,           \* the use case, chosen once
    initialized,    \* QueryManager::isInitialized()
    now,            \* the clock of the manager, of MySQL and of Redis
    samples,        \* the samples written so far, oldest write first
    cache,          \* Redis: key -> answer, the time it expires
    call,           \* call[c]: the client's call, then its answer
    walk            \* history: the pages a client read one after another

vars == <<uses, initialized, now, samples, cache, call, walk>>

-----------------------------------------------------------------------------
\* The database.

RowsOf(table, n) ==
    {[tenant |-> samples[i].tenant, team |-> samples[i].team, cluster |-> samples[i].cluster,
      server |-> samples[i].server, ts |-> samples[i].ts, table |-> table, sample |-> i, part |-> p] :
        i \in 1 .. n, p \in 1 .. Parts[table]}

\* The tables after the first n samples were written.
Database(n) == [t \in Tables |-> RowsOf(t, n)]

DB == Database(Len(samples))

\* HostManager writes a sample of a host.  The writers may write the samples
\* of a host out of order, so the timestamp may lie in the past, and two of them
\* may have the same one: it is the time of ingestion, cut to a second.
writeToMysql(h, ts) ==
    /\ Len(samples) < MaxSamples
    /\ samples' = Append(samples, [tenant |-> h.tenant, team |-> h.team, cluster |-> h.cluster,
                                   server |-> h.server, ts |-> ts, at |-> now])
    /\ UNCHANGED <<uses, initialized, now, cache, call, walk>>

-----------------------------------------------------------------------------
\* A call: its time is when it began, and once it is done when it ended.

Idle == [pc |-> "idle"]

Answer(c, status, total, rows) ==
    [call[c] EXCEPT !.pc = "done", !.status = status, !.total = total, !.rows = rows, !.time = now]

Failed(c, status) == Answer(c, status, 0, {})

\* Statuses in the order in which most handlers test for them.
Refusal(req, ranged) ==
    CASE ~initialized -> "UNAVAILABLE"
      [] ~validateQueryScope(req.scope) -> "UNAUTHENTICATED"
      [] ranged /\ ~validateTimeRange(req.range) -> "INVALID_ARGUMENT"
      [] OTHER -> "OK"

\* QueryLatestScore looks at the scope first.
LatestRefusal(req) ==
    CASE ~validateQueryScope(req.scope) -> "UNAUTHENTICATED"
      [] ~initialized -> "UNAVAILABLE"
      [] OTHER -> "OK"

\* A handler starts: it is refused, or goes on to its first statement.
Begin(c, h, req, refusal, first) ==
    /\ <<h, req>> \in uses[c]
    /\ call[c].pc \in {"idle", "done"}
    /\ call' = [call EXCEPT ![c] =
          [pc |-> IF refusal = "OK" THEN first ELSE "done", h |-> h, req |-> req,
           status |-> refusal, total |-> 0, rows |-> {}, time |-> now]]

-----------------------------------------------------------------------------
\* History: pages one, two, three ... of one request form a walk, which is over
\* when a page comes back short and abandoned when a page is skipped or fails.

NoWalk == [page |-> 0]

WalkOn(c, h, req) ==
    LET first == [req EXCEPT !.page.number = 1]
    IN  walk' = [walk EXCEPT ![c] =
          IF req.page.number = 1
          THEN [h |-> h, req |-> first, page |-> 1, from |-> Len(samples), seen |-> {}, over |-> FALSE]
          ELSE IF walk[c].page > 0 /\ walk[c].page + 1 = req.page.number
                  /\ walk[c].h = h /\ walk[c].req = first
               THEN [walk[c] EXCEPT !.page = req.page.number]
               ELSE NoWalk]

WalkSees(c, rows) ==
    walk' = [walk EXCEPT ![c] = IF walk[c].page = 0 THEN NoWalk ELSE
        [walk[c] EXCEPT !.seen = @ \cup rows,
                        !.over = Cardinality(rows) < Paged(call[c].req.page).size]]

-----------------------------------------------------------------------------
\* The seven handlers that count and then read a page.

PageHandler(c, h, req) ==
    /\ Begin(c, h, req, Refusal(req, TRUE), "count")
    /\ WalkOn(c, h, req)
    /\ UNCHANGED <<uses, initialized, now, samples, cache>>

QueryPerformance(c, req) == PageHandler(c, "QueryPerformance", req)

QueryNetDetail(c, req) == PageHandler(c, "QueryNetDetail", req)

QueryDiskDetail(c, req) == PageHandler(c, "QueryDiskDetail", req)

QueryMemDetail(c, req) == PageHandler(c, "QueryMemDetail", req)

QuerySoftIrqDetail(c, req) == PageHandler(c, "QuerySoftIrqDetail", req)

QueryMysqlDetail(c, req) == PageHandler(c, "QueryMysqlDetail", req)

QueryRedisDetail(c, req) == PageHandler(c, "QueryRedisDetail", req)

\* The other four.
OtherHandler(c, h, req, refusal, first) ==
    /\ Begin(c, h, req, refusal, first)
    /\ walk' = [walk EXCEPT ![c] = NoWalk]
    /\ UNCHANGED <<uses, initialized, now, samples, cache>>

QueryTrend(c, req) == OtherHandler(c, "QueryTrend", req, Refusal(req, TRUE), "trend")

QueryAnomaly(c, req) == OtherHandler(c, "QueryAnomaly", req, Refusal(req, TRUE), "performance")

QueryScoreRank(c, req) == OtherHandler(c, "QueryScoreRank", req, Refusal(req, FALSE), "count")

QueryLatestScore(c, req) == OtherHandler(c, "QueryLatestScore", req, LatestRefusal(req), "cached")

-----------------------------------------------------------------------------
\* The statements.

\* What the WHERE clause of the handler's query selects.
Selected(h, db, req) ==
    CASE h = "QueryPerformance"   -> queryPerformanceRecords(db, req)
      [] h = "QueryNetDetail"     -> queryNetDetailRecords(db, req)
      [] h = "QueryDiskDetail"    -> queryDiskDetailRecords(db, req)
      [] h = "QueryMemDetail"     -> queryMemDetailRecords(db, req)
      [] h = "QuerySoftIrqDetail" -> querySoftIrqDetailRecords(db, req)
      [] h = "QueryMysqlDetail"   -> queryMysqlDetailRecords(db, req)
      [] h = "QueryRedisDetail"   -> queryRedisDetailRecords(db, req)
      [] h = "QueryScoreRank"     -> queryServerScoreRank(db, req).rows

Total(h, db, req) ==
    IF h = "QueryScoreRank" THEN queryServerScoreRank(db, req).total
    ELSE Cardinality(Selected(h, db, req))

Goes(c, to) == call' = [call EXCEPT ![c] = to]

\* No connection in time, or a statement that fails: queryErrorStatus().
executeFails(c) ==
    /\ call[c].pc \in {"count", "page", "trend", "performance", "mysql", "redis", "query"}
    /\ Goes(c, Failed(c, "INTERNAL"))
    /\ walk' = [walk EXCEPT ![c] = NoWalk]
    /\ UNCHANGED <<uses, initialized, now, samples, cache>>

executePreparedCount(c) ==
    /\ call[c].pc = "count"
    /\ Goes(c, [call[c] EXCEPT !.pc = "page", !.total = Total(call[c].h, DB, call[c].req)])
    /\ UNCHANGED <<uses, initialized, now, samples, cache, walk>>

\* Variant: no ORDER BY, the rows come as they please.
Unordered(h, r) == 0

\* Ranks order by score, which this module leaves open: any order will do.
SortKey(h, r) == IF h = "QueryScoreRank" THEN 0 ELSE r.ts

executePreparedRows(c) ==
    /\ call[c].pc = "page"
    /\ Offset(call[c].req.page) >= 0
    /\ \E P \in PagesOf([r \in Selected(call[c].h, DB, call[c].req) |-> SortKey(call[c].h, r)],
                        Offset(call[c].req.page), Paged(call[c].req.page).size) :
          /\ Goes(c, Answer(c, "OK", call[c].total, P))
          /\ WalkSees(c, P)
    /\ UNCHANGED <<uses, initialized, now, samples, cache>>

trendStatement(c) ==
    /\ call[c].pc = "trend"
    /\ Goes(c, Answer(c, "OK", 0, UNION queryTrend(DB, call[c].req)))
    /\ UNCHANGED <<uses, initialized, now, samples, cache, walk>>

\* The anomaly query reads three tables in three statements, then sorts the
\* records in memory and cuts out the page.
Anomalous(table, req) ==
    {r \in DB[table] : /\ scopePredicate(req.scope, r)
                       /\ r.ts \in req.range.start .. req.range.end
                       /\ req.server # NoId => r.server = req.server
                       /\ r.server \in Hot}

anomalyStatement(c) ==
    /\ call[c].pc \in {"performance", "mysql"}
    /\ Goes(c, [call[c] EXCEPT !.pc = IF @ = "performance" THEN "mysql" ELSE "redis",
                               !.rows = @ \cup Anomalous(call[c].pc, call[c].req)])
    /\ UNCHANGED <<uses, initialized, now, samples, cache, walk>>

lastAnomalyStatement(c) ==
    /\ call[c].pc = "redis"
    /\ LET all == call[c].rows \cup Anomalous("redis", call[c].req)
       IN  \E P \in PagesOf([r \in all |-> r.ts], Offset(call[c].req.page), Paged(call[c].req.page).size) :
              Goes(c, Answer(c, "OK", Cardinality(all), P))
    /\ UNCHANGED <<uses, initialized, now, samples, cache, walk>>

-----------------------------------------------------------------------------
\* The cache of QueryLatestScore.

\* Variant: the key leaves out the cluster.
KeyWithoutCluster(scope) == scope.tenant \o <<":">> \o scope.team \o <<":">>

latestScoreCacheKey(scope) == scope.tenant \o <<":">> \o scope.team \o <<":">> \o scope.cluster

Keys == {latestScoreCacheKey(req.scope) : req \in Requests}

Absent == [expires |-> 0, rows |-> {}]

KeyOf(c) == latestScoreCacheKey(call[c].req.scope)

cacheHit(c) ==
    /\ call[c].pc = "cached"
    /\ cache[KeyOf(c)] # Absent
    /\ Goes(c, Answer(c, "OK", 0, cache[KeyOf(c)].rows))
    /\ UNCHANGED <<uses, initialized, now, samples, cache, walk>>

\* No entry, no connection to Redis, or no Redis at all.
cacheMiss(c) ==
    /\ call[c].pc = "cached"
    /\ Goes(c, [call[c] EXCEPT !.pc = "query"])
    /\ UNCHANGED <<uses, initialized, now, samples, cache, walk>>

latestStatement(c) ==
    /\ call[c].pc = "query"
    /\ Goes(c, [call[c] EXCEPT !.pc = "store", !.rows = LatestRows(DB, call[c].req.scope)])
    /\ UNCHANGED <<uses, initialized, now, samples, cache, walk>>

\* Variant: SET without an expiry.
StoredForever(rows) == [expires |-> MaxNow + 1, rows |-> rows]

\* SETEX.
Stored(rows) == [expires |-> now + CacheTtl, rows |-> rows]

cacheSet(c) ==
    /\ call[c].pc = "store"
    /\ cache' = [cache EXCEPT ![KeyOf(c)] = Stored(call[c].rows)]
    /\ Goes(c, Answer(c, "OK", 0, call[c].rows))
    /\ UNCHANGED <<uses, initialized, now, samples, walk>>

cacheSetFails(c) ==
    /\ call[c].pc = "store"
    /\ Goes(c, Answer(c, "OK", 0, call[c].rows))
    /\ UNCHANGED <<uses, initialized, now, samples, cache, walk>>

\* Redis evicts a key or restarts empty.
redisForgets(k) ==
    /\ cache[k] # Absent
    /\ cache' = [cache EXCEPT ![k] = Absent]
    /\ UNCHANGED <<uses, initialized, now, samples, call, walk>>

\* A second passes; keys expire.  No call lasts longer than CallTime.
Running(c) == call[c].pc \notin {"idle", "done"}

tick ==
    /\ now < MaxNow
    /\ \A c \in Clients : Running(c) => now - call[c].time < CallTime
    /\ now' = now + 1
    /\ cache' = [k \in Keys |-> IF cache[k].expires <= now' THEN Absent ELSE cache[k]]
    /\ UNCHANGED <<uses, initialized, samples, call, walk>>

-----------------------------------------------------------------------------
Init ==
    /\ uses \in UseCases
    /\ initialized \in BOOLEAN
    /\ now = 0
    /\ samples = <<>>
    /\ cache = [k \in Keys |-> Absent]
    /\ call = [c \in Clients |-> Idle]
    /\ walk = [c \in Clients |-> NoWalk]

Calls(c) ==
    \E req \in Requests :
        \/ QueryPerformance(c, req)
        \/ QueryTrend(c, req)
        \/ QueryAnomaly(c, req)
        \/ QueryScoreRank(c, req)
        \/ QueryLatestScore(c, req)
        \/ QueryNetDetail(c, req)
        \/ QueryDiskDetail(c, req)
        \/ QueryMemDetail(c, req)
        \/ QuerySoftIrqDetail(c, req)
        \/ QueryMysqlDetail(c, req)
        \/ QueryRedisDetail(c, req)

Statement(c) ==
    \/ executeFails(c)
    \/ executePreparedCount(c)
    \/ executePreparedRows(c)
    \/ trendStatement(c)
    \/ anomalyStatement(c)
    \/ lastAnomalyStatement(c)
    \/ cacheHit(c)
    \/ cacheMiss(c)
    \/ latestStatement(c)
    \/ cacheSet(c)
    \/ cacheSetFails(c)

Next ==
    \/ \E c \in Clients : Calls(c) \/ Statement(c)
    \/ \E h \in Hosts, ts \in {now - 1, now} : writeToMysql(h, ts)
    \/ \E k \in Keys : redisForgets(k)
    \/ tick

Spec == Init /\ [][Next]_vars

-----------------------------------------------------------------------------
\* Properties.

Answered(c) == call[c].pc = "done" /\ call[c].status = "OK"

\* No identifier of the scope holds the separator of latestScoreCacheKey().
Plain(scope) ==
    \A id \in {scope.tenant, scope.team, scope.cluster} : \A i \in DOMAIN id : id[i] # ":"

(* No answer shows a row from outside the tenant, team and cluster of its  *)
(* request: not from a table, whatever statement read it, and not from the *)
(* cache, where another client's answer may lie (latestScoreCacheKey()     *)
(* claims the isolation in its comment).  One exception: an identifier     *)
(* that holds the separator gives the scopes "a", "b:c" and "a:b", "c" one *)
(* key, and QueryLatestScore of the one may show the rows of the other.  A *)
(* scope without it is isolated whatever scopes the others ask for.        *)
ScopeIsolation ==
    \A c \in Clients :
        Answered(c) /\ (call[c].h = "QueryLatestScore" => Plain(call[c].req.scope)) =>
            LET scope == call[c].req.scope
            IN  \A r \in call[c].rows :
                    /\ r.tenant = scope.tenant /\ r.team = scope.team
                    /\ scope.cluster \in {NoId, r.cluster}

(* An answer of QueryLatestScore, cached or not, is what the query returns *)
(* on the database as it was at one moment, and that moment is less than   *)
(* the cache's TTL plus the time of one call in the past: a slow call that *)
(* stores its result after a faster one cannot make it older than that.    *)
(* It is the query of the client's own scope, or, when an identifier holds *)
(* the separator, of one scope with the same key: rows are never mixed.    *)
LatestScoresAreRecent ==
    \A c \in Clients : Answered(c) /\ call[c].h = "QueryLatestScore" =>
        \E n \in 0 .. Len(samples), req \in Requests :
            /\ latestScoreCacheKey(req.scope) = KeyOf(c)
            /\ Plain(call[c].req.scope) => req.scope = call[c].req.scope
            /\ call[c].rows = LatestRows(Database(n), req.scope)
            /\ \A i \in n + 1 .. Len(samples) : samples[i].at > call[c].time - CacheTtl - CallTime

Promised(c) ==
    LET page == Paged(call[c].req.page)
    IN  Min({page.size, Max({0, call[c].total - (page.number - 1) * page.size})})

(* COUNT and page are two statements with writers between them, and the    *)
(* anomaly query cuts its page out of a list it counted itself: the page   *)
(* is never shorter than the total count returned with it promises.        *)
PageKeepsPromise ==
    \A c \in Clients : Answered(c) => Cardinality(call[c].rows) >= Promised(c)

\* No other row of the list has the time of this one.
Alone(h, req, r) == \A q \in Selected(h, DB, req) : q.ts = r.ts => q = r

(* A client that reads page after page until one comes back short has seen *)
(* every row that was there when it began and whose timestamp is its own,  *)
(* although new rows (also rows with older timestamps, and ties of other   *)
(* rows) keep shifting the pages under it.  Rows of one second (two pushes *)
(* of a host, the parts of a sample, two clusters with one server name)    *)
(* have no order between them, may change places between two pages, and    *)
(* one of them may never be shown.                                         *)
PagingMissesNothing ==
    \A c \in Clients : walk[c].page > 0 /\ walk[c].over =>
        \A r \in Selected(walk[c].h, Database(walk[c].from), walk[c].req) :
            Alone(walk[c].h, walk[c].req, r) => r \in walk[c].seen
=============================================================================

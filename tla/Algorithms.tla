----------------------------- MODULE Algorithms -----------------------------
(***************************************************************************)
(* The pure computations of the manager, each run once on an input chosen  *)
(* at the start.  A task is the kind of computation, its input and, after  *)
(* the one step it takes, its output; the properties relate the two.       *)
(***************************************************************************)
EXTENDS AnomalyRules, ManagerConfig, HostScore, QueryManager

CONSTANTS
    Inputs(_),     \* the inputs of a kind of computation
    Threshold,     \* the thresholds of the anomaly rules
    Defaults,      \* the limits of ManagerConfig.h
    NotRun         \* the output of a task that has not run

VARIABLE task

Kinds == {"performance", "mysql", "redis", "config", "score", "page", "rank", "scores"}

Init == task \in UNION {[kind : {k}, in : Inputs(k), out : {NotRun}] : k \in Kinds}

Run(kind, output) ==
    /\ task.kind = kind
    /\ task.out = NotRun
    /\ task' = [task EXCEPT !.out = output]

\* A row, and the same row with one metric changed, through filter and rules.
Through(Selected(_, _), Alarms(_, _), in) ==
    [selected |-> Selected(in.row, Threshold[in.table]),
     alarms   |-> Alarms(in.row, Threshold[in.table]),
     other    |-> Alarms(in.changed, Threshold[in.table])]

performanceRules == Run("performance", Through(performanceSelected, performanceAlarms, task.in))

mysqlRules == Run("mysql", Through(mysqlSelected, mysqlAlarms, task.in))

redisRules == Run("redis", Through(redisSelected, redisAlarms, task.in))

loadConfig == Run("config", loadManagerConfigFromEnv(task.in.env, task.in.hardware, Defaults))

score == Run("score", [plain |-> calculateScore(task.in.info), other |-> calculateScore(task.in.changed)])

pageOffset == Run("page", Offset(task.in.page))

scoreRank == Run("rank", queryServerScoreRank([performance |-> task.in.rows], task.in))

latestScores == Run("scores", queryLatestServerScores(task.in.rows, task.in.now))

Next ==
    \/ performanceRules \/ mysqlRules \/ redisRules
    \/ loadConfig \/ score
    \/ pageOffset \/ scoreRank \/ latestScores

Spec == Init /\ [][Next]_task

-----------------------------------------------------------------------------
Ran(kinds) == task.kind \in kinds /\ task.out # NotRun

Rules == {"performance", "mysql", "redis"}

\* The WHERE clause of queryAnomalyRecords() and the rules it applies to the
\* selected rows say the same: a row is selected exactly when some rule would
\* raise an alarm for it.  The MySQL rule for replication lag, unlike the
\* clause, does not ask whether replication is configured; the worker reports
\* a lag only when it is, and the rows here are those the worker can produce.
AlarmsMatchFilter ==
    Ran(Rules) => (task.out.selected <=> task.out.alarms # {})

\* The direction in which a metric gets worse.
Worsens(f, from, to) ==
    CASE f \in {"innodb_buffer_pool_hit_percent", "keyspace_hit_percent"} -> to < from /\ to # 0
      [] f \in {"cpu_percent_rate", "mem_used_percent_rate"} -> Abs(to) > Abs(from)
      [] f \in {"up", "master_link_up"} -> from /\ ~to
      [] f = "replication_configured" -> ~from /\ to
      [] OTHER -> to > from

\* When one metric of a row gets worse and the others stay, no alarm goes away
\* and none becomes less severe.  A hit rate of zero is excepted: the rules
\* take it for a missing value.
WorseRowsAlarmMore ==
    Ran(Rules) =>
        LET f == task.in.metric
        IN  Worsens(f, task.in.row[f], task.in.changed[f]) =>
                \A a \in task.out.alarms : \E b \in task.out.other :
                    /\ a.metric = b.metric
                    /\ a.severity = "CRITICAL" => b.severity = "CRITICAL"

\* The anomaly rules of queryAnomalyRecords() are sound: the filter selects
\* what the rules alarm on, and a worse row never alarms less.
AnomalyRulesSound == AlarmsMatchFilter /\ WorseRowsAlarmMore

\* Whatever the environment holds, the limits are ones the dispatcher and the
\* pools can work with: the watermarks are ordered and below the capacity, no
\* queue, thread range or shard count is empty, the minimum of a pool is not
\* above its maximum.  These are the assumptions of IngestDispatcher,
\* QueryDispatcher, MysqlConnectionPool and RedisConnectionPool.  The range of
\* gRPC pollers is one only when its maximum is set: the fallback of envInt() is
\* not raised to the floor, and a minimum above the default maximum stays so.
ConfigUsable ==
    Ran({"config"}) =>
        LET c == task.out
        IN  /\ \A q \in {c.task, c.query} :
                   q.capacity >= 1 /\ 0 <= q.low /\ q.low <= q.high /\ q.high <= q.capacity
            /\ c.shards >= 1 /\ c.shardCapacity >= 1 /\ c.period >= 1
            /\ 1 <= c.threadsMin /\ c.threadsMin <= c.threadsMax
            /\ 1 <= c.pollersMin /\ (task.in.env.pollersMax # Unset => c.pollersMin <= c.pollersMax)
            /\ 0 <= c.pool.min /\ c.pool.min <= c.pool.max

\* The entries of a sample in another order.
Shuffled(s, t) == Len(s) = Len(t) /\ \A e \in {s[i] : i \in DOMAIN s} \cup {t[i] : i \in DOMAIN t} :
                      Cardinality({i \in DOMAIN s : s[i] = e}) = Cardinality({i \in DOMAIN t : t[i] = e})

HasAggregate(cpus) == \E i \in DOMAIN cpus : cpus[i].name \in {"all", "cpu"}

\* calculateScore() does not depend on the order of the CPU entries as long as
\* one of them is the machine's, and never gives a busier sample the higher
\* score.  (manager/README.md names cpu_stat(0) as the source of the CPU part;
\* the code looks for the entry by name, and the worker sends the cores first.)
ScoreIsFair ==
    Ran({"score"}) =>
        LET a == task.in.info  b == task.in.changed
        IN  /\ /\ HasAggregate(a.cpus) /\ Shuffled(a.cpus, b.cpus)
               /\ [a EXCEPT !.cpus = b.cpus] = b
               => task.out.plain = task.out.other
            /\ /\ a.cpus = b.cpus /\ a.nets = b.nets
               /\ OrZero(a.mem) <= OrZero(b.mem) /\ OrZero(a.load) <= OrZero(b.load)
               /\ Len(a.disks) <= Len(b.disks) /\ \A i \in DOMAIN a.disks : a.disks[i] <= b.disks[i]
               => task.out.plain >= task.out.other

\* A page that holds rows is asked for with its own offset: the product of the
\* two ints overflows only for pages behind the last row, as long as the rows
\* can be counted in an int.
ExistingPagesExact ==
    Ran({"page"}) =>
        LET p == Paged(task.in.page)
            skipped == (p.number - 1) * p.size
        IN  (task.in.total < 2^(IntBits - 1) /\ skipped < task.in.total) => task.out = skipped

\* The ranking has exactly one row for every host of the scope, its newest,
\* when no host wrote two rows at one time.  The total it reports counts server
\* names: it is the number of rows when a cluster is asked for, and may fall
\* short when the clusters of a team share a name.
RankIsComplete ==
    Ran({"rank"}) =>
        LET inScope == {r \in task.in.rows : r.cluster = task.in.scope.cluster \/ task.in.scope.cluster = NoId}
            host(r) == <<r.cluster, r.server>>
        IN  (\A r, q \in inScope : host(r) = host(q) /\ r.ts = q.ts => r = q) =>
                /\ \A r \in inScope : Cardinality({q \in task.out.rows : host(q) = host(r)}) = 1
                /\ \A q \in task.out.rows : \A r \in inScope : host(r) = host(q) => r.ts <= q.ts
                /\ task.out.total <= Cardinality(task.out.rows)
                /\ task.in.scope.cluster # NoId => task.out.total = Cardinality(task.out.rows)

\* The statistics of a cluster agree with its rows: every server is online or
\* offline, the average lies between the extremes, and the extremes and their
\* servers are right except where the scan cannot see them: a cluster of
\* perfect scores reports a minimum of 0 and no worst server, one of zero
\* scores no best server.
ClusterStatsRight ==
    Ran({"scores"}) =>
        LET s == task.out
            all == {r.score : r \in task.in.rows}
        IN  /\ s.total = Cardinality(task.in.rows) /\ s.online + s.offline = s.total
            /\ s.min <= s.avg /\ s.avg <= s.max
            /\ all # {} => s.max = Max(all)
            /\ all \notin {{}, {MaxScore}} =>
                   /\ s.min = Min(all)
                   /\ s.worst # {} /\ \A r \in task.in.rows : r.server \in s.worst => r.score = s.min
            /\ all \notin {{}, {0}} =>
                   s.best # {} /\ \A r \in task.in.rows : r.server \in s.best => r.score = s.max

\* The two views of the latest scores, queryServerScoreRank() and
\* queryLatestServerScores(), are right.
ScoreViewsRight == RankIsComplete /\ ClusterStatsRight
=============================================================================

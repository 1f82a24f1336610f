---------------------------- MODULE MCAlgorithms ----------------------------
(***************************************************************************)
(* Inputs for Algorithms: around every limit the code compares with, two   *)
(* metrics of a row at a time, and every combination of the small rest.    *)
(***************************************************************************)
EXTENDS Algorithms

CONSTANTS unset, missing, notRun, server1, server2, server3, cluster1, cluster2

Percents == {0, 1, 59, 60, 79, 80, 81, 89, 90, 91, 95, 96}

\* The rows of a table that differ from a healthy one in two metrics, each
\* with a third row that differs in one of the two.
RowsAround(table, healthy, Values(_)) ==
    UNION {UNION {
        [table : {table}, metric : {f}, row : {[healthy EXCEPT ![f] = v, ![g] = w]},
         changed : {[healthy EXCEPT ![f] = u, ![g] = w] : u \in Values(f)}]
        : v \in Values(f), w \in Values(g)}
        : f, g \in DOMAIN healthy}

PerformanceValues(f) ==
    IF f \in {"cpu_percent_rate", "mem_used_percent_rate"} THEN {-101, -51, 0, 50, 51, 100, 101} ELSE Percents

HealthyPerformance ==
    [cpu_percent |-> 0, mem_used_percent |-> 0, disk_util_percent |-> 0,
     cpu_percent_rate |-> 0, mem_used_percent_rate |-> 0]

MysqlValues(f) ==
    CASE f \in {"up", "replication_configured"} -> BOOLEAN
      [] f = "replication_lag_seconds" -> {0, 30, 31, 60, 61}
      [] f \in {"slow_queries_rate", "innodb_row_lock_waits_rate"} -> {0, 100, 101, 500, 501}
      [] OTHER -> Percents

HealthyMysql ==
    [up |-> TRUE, connection_used_percent |-> 0, replication_configured |-> FALSE,
     replication_lag_seconds |-> 0, slow_queries_rate |-> 0, innodb_row_lock_waits_rate |-> 0,
     innodb_buffer_pool_hit_percent |-> 0]

\* Rows with replication too, where a lag can be reported.
FromWorker(in) ==
    \A r \in {in.row, in.changed} : r.replication_lag_seconds > 0 => r.replication_configured

RedisValues(f) ==
    CASE f \in {"up", "replication_configured", "master_link_up"} -> BOOLEAN
      [] f \in {"master_last_io_seconds_ago"} -> {0, 30, 31, 60, 61}
      [] f \in {"rejected_connections", "slowlog_growth"} -> {0, 1, 2, 5, 6}
      [] OTHER -> Percents

HealthyRedis ==
    [up |-> TRUE, connection_used_percent |-> 0, memory_used_percent |-> 0, keyspace_hit_percent |-> 0,
     replication_configured |-> FALSE, master_link_up |-> TRUE, master_last_io_seconds_ago |-> 0,
     rejected_connections |-> 0, slowlog_growth |-> 0]

MCThreshold ==
    [performance |-> [cpu |-> 80, memory |-> 90, disk |-> 85, change_rate |-> 50],
     mysql |-> [connection |-> 90, replication_lag |-> 30, slow_query_rate |-> 100,
                lock_wait_rate |-> 100, buffer_pool_hit |-> 95],
     redis |-> [connection |-> 90, memory |-> 90, hit_rate |-> 80, replication_lag |-> 30,
                slowlog_growth |-> 1]]

-----------------------------------------------------------------------------
\* Environments that set the options of one group, the ints eight bits wide.

MCDefaults ==
    [period |-> 10, taskCapacity |-> 10, queryCapacity |-> 10, shards |-> 4, shardCapacity |-> 10,
     poolMin |-> 2, poolMax |-> 4, pollersMin |-> 8, pollersMax |-> 64]

EnvValues == {unset, -130, -1, 0, 1, 2, 3, 9, 11, 127, 200, 257}

EnvWith(options) ==
    {[o \in Option |-> IF o \in options THEN e[o] ELSE unset] : e \in [options -> EnvValues]}

Environments ==
    UNION {EnvWith(g) : g \in {{"taskCapacity", "taskHigh", "taskLow"},
                               {"queryCapacity", "queryHigh", "queryLow"},
                               {"threadsMin", "threadsMax"}, {"poolMin", "poolMax"},
                               {"pollersMin", "pollersMax"},
                               {"shards"}, {"shardCapacity"}, {"period"}}}

-----------------------------------------------------------------------------
\* Samples with up to three CPU entries and two disks.

Cpus == [name : {"all", "cpu", "cpu0", "cpu1"}, percent : {0, 60}]

CpuLists ==
    {<< >>} \cup {<<c>> : c \in Cpus}
    \cup {s \in [1 .. 3 -> Cpus] : \A i, j \in 1 .. 3 : s[i].name = s[j].name => i = j}

Infos(cpus) ==
    [cpus : {cpus}, mem : {missing, 0, 50, 120}, load : {missing, 7, 40},
     disks : {<< >>, <<30>>, <<30, 80>>, <<30, 20>>},
     nets : {<< >>, <<[rcv |-> 150, send |-> 10]>>}]

Scores ==
    UNION {[info : {a}, changed : {b \in Infos(a.cpus) : b.nets = a.nets}]
           : a \in UNION {Infos(c) : c \in {<< >>, <<[name |-> "all", percent |-> 60],
                                                      [name |-> "cpu0", percent |-> 100],
                                                      [name |-> "cpu1", percent |-> 20]>>}}}
    \cup UNION {{[info |-> [i EXCEPT !.cpus = c], changed |-> [i EXCEPT !.cpus = d]]
                 : d \in {e \in CpuLists : Shuffled(c, e)}}
           : c \in CpuLists, i \in [cpus : {<< >>}, mem : {50}, load : {7, 40}, disks : {<<30>>}, nets : {<< >>}]}

-----------------------------------------------------------------------------
\* Pages with ints of five bits, and rows of two clusters.

Pages ==
    [page : [number : -1 .. 15, size : {-1, 0} \cup (1 .. 15)], total : 0 .. 15]

Row(s, c, ts) == [tenant |-> 1, team |-> 1, cluster |-> c, server |-> s, ts |-> ts]

Ranks ==
    [rows : {S \in SUBSET {Row(s, c, t) : s \in {server1, server2}, c \in {cluster1, cluster2}, t \in 1 .. 2}
             : Cardinality(S) <= 5},
     scope : [tenant : {1}, team : {1}, cluster : {NoId, cluster1}]]

LatestOf ==
    [rows : UNION {{{[server |-> s, score |-> f[s].score, ts |-> f[s].ts] : s \in S}
                    : f \in [S -> [score : {0, 1, 50, 99, 100}, ts : {0, 1}]]}
                   : S \in SUBSET {server1, server2, server3}},
     now : {1, 2}]

MCInputs(k) ==
    CASE k = "performance" -> RowsAround(k, HealthyPerformance, PerformanceValues)
      [] k = "mysql" -> {in \in RowsAround(k, HealthyMysql, MysqlValues)
                                 \cup RowsAround(k, [HealthyMysql EXCEPT !.replication_configured = TRUE], MysqlValues)
                         : FromWorker(in)}
      [] k = "redis" -> RowsAround(k, HealthyRedis, RedisValues)
      [] k = "config" -> [env : Environments, hardware : {0, 2, 8}]
      [] k = "score" -> Scores
      [] k = "page" -> Pages
      [] k = "rank" -> Ranks
      [] k = "scores" -> LatestOf
=============================================================================

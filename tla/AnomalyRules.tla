---------------------------- MODULE AnomalyRules ----------------------------
(***************************************************************************)
(* The rules of QueryManager::queryAnomalyRecords()                        *)
(* (manager/src/QueryManager.cpp): for each of three tables the WHERE      *)
(* clause that selects rows, and the loop that turns a selected row into   *)
(* alarms.  The two are written separately in the code, one in SQL.        *)
(*                                                                         *)
(* Percentages are whole percents, rates and growths whole hundredths.  An *)
(* alarm is its metric, its type and its severity; the value, the          *)
(* threshold and the texts that go with it are left out.                   *)
(***************************************************************************)
EXTENDS Integers

Abs(n) == IF n < 0 THEN -n ELSE n

\* add_anomaly and its siblings: the alarm, if the condition holds.
Alarm(condition, metric, type, critical) ==
    IF condition
    THEN {[metric |-> metric, type |-> type, severity |-> IF critical THEN "CRITICAL" ELSE "WARNING"]}
    ELSE {}

\* A share of a limit, whose alarm changes its name when it is critical.
UsageAlarm(used, threshold, metric, high, critical) ==
    Alarm(used > threshold, metric, IF used > 95 THEN critical ELSE high, used > 95)

\* The thresholds of each table; QueryAnomaly() lets no negative one through.
PerformanceThresholds == [cpu : Nat, memory : Nat, disk : Nat, change_rate : Nat]

MysqlThresholds ==
    [connection : Nat, replication_lag : Nat, slow_query_rate : Nat, lock_wait_rate : Nat,
     buffer_pool_hit : Nat]

RedisThresholds ==
    [connection : Nat, memory : Nat, hit_rate : Nat, replication_lag : Nat, slowlog_growth : Nat]

-----------------------------------------------------------------------------
\* server_performance.

performanceSelected(r, t) ==
    \/ r.cpu_percent > t.cpu
    \/ r.mem_used_percent > t.memory
    \/ r.disk_util_percent > t.disk
    \/ Abs(r.cpu_percent_rate) > t.change_rate
    \/ Abs(r.mem_used_percent_rate) > t.change_rate

performanceAlarms(r, t) ==
    Alarm(r.cpu_percent > t.cpu, "cpu_percent", "CPU_HIGH", r.cpu_percent > 95)
    \cup Alarm(r.mem_used_percent > t.memory, "mem_used_percent", "MEM_HIGH", r.mem_used_percent > 95)
    \cup Alarm(r.disk_util_percent > t.disk, "disk_util_percent", "DISK_HIGH", r.disk_util_percent > 95)
    \cup Alarm(Abs(r.cpu_percent_rate) > t.change_rate, "cpu_percent_rate", "RATE_SPIKE",
               Abs(r.cpu_percent_rate) > 100)
    \cup Alarm(Abs(r.mem_used_percent_rate) > t.change_rate, "mem_used_percent_rate", "RATE_SPIKE",
               Abs(r.mem_used_percent_rate) > 100)

-----------------------------------------------------------------------------
\* server_mysql_detail.

mysqlSelected(r, t) ==
    \/ ~r.up
    \/ r.connection_used_percent > t.connection
    \/ r.replication_configured /\ r.replication_lag_seconds > t.replication_lag
    \/ r.slow_queries_rate > t.slow_query_rate
    \/ r.innodb_row_lock_waits_rate > t.lock_wait_rate
    \/ r.innodb_buffer_pool_hit_percent \in 1 .. t.buffer_pool_hit - 1

\* Variant: the alarm of a down instance replaces the others.
mysqlAlarmsDownOnly(r, t) == Alarm(~r.up, "up", "MYSQL_DOWN", TRUE)

mysqlAlarms(r, t) ==
    Alarm(~r.up, "up", "MYSQL_DOWN", TRUE)
    \cup UsageAlarm(r.connection_used_percent, t.connection, "connection_used_percent",
                    "MYSQL_CONNECTION_HIGH", "MYSQL_CONNECTION_CRITICAL")
    \cup Alarm(r.replication_lag_seconds > t.replication_lag, "replication_lag_seconds",
               "MYSQL_REPLICATION_LAG", r.replication_lag_seconds > 2 * t.replication_lag)
    \cup Alarm(r.slow_queries_rate > t.slow_query_rate, "slow_queries_rate", "MYSQL_SLOW_QUERY_SPIKE",
               r.slow_queries_rate > 5 * t.slow_query_rate)
    \cup Alarm(r.innodb_row_lock_waits_rate > t.lock_wait_rate, "innodb_row_lock_waits_rate",
               "MYSQL_LOCK_WAIT_SPIKE", r.innodb_row_lock_waits_rate > 5 * t.lock_wait_rate)
    \cup Alarm(r.innodb_buffer_pool_hit_percent \in 1 .. t.buffer_pool_hit - 1,
               "innodb_buffer_pool_hit_percent", "MYSQL_BUFFER_POOL_LOW",
               r.innodb_buffer_pool_hit_percent < 90)

-----------------------------------------------------------------------------
\* server_redis_detail.

redisSelected(r, t) ==
    \/ ~r.up
    \/ r.connection_used_percent > t.connection
    \/ r.memory_used_percent > t.memory
    \/ r.keyspace_hit_percent \in 1 .. t.hit_rate - 1
    \/ r.replication_configured /\ ~r.master_link_up
    \/ r.master_last_io_seconds_ago > t.replication_lag
    \/ r.rejected_connections > 0
    \/ r.slowlog_growth > t.slowlog_growth

redisAlarms(r, t) ==
    Alarm(~r.up, "up", "REDIS_DOWN", TRUE)
    \cup UsageAlarm(r.connection_used_percent, t.connection, "connection_used_percent",
                    "REDIS_CONNECTION_HIGH", "REDIS_CONNECTION_CRITICAL")
    \cup UsageAlarm(r.memory_used_percent, t.memory, "memory_used_percent",
                    "REDIS_MEMORY_HIGH", "REDIS_MEMORY_CRITICAL")
    \cup Alarm(r.keyspace_hit_percent \in 1 .. t.hit_rate - 1, "keyspace_hit_percent",
               "REDIS_HIT_RATE_LOW", r.keyspace_hit_percent < 60)
    \cup Alarm(r.replication_configured /\ ~r.master_link_up, "master_link_up",
               "REDIS_REPLICATION_LINK_DOWN", TRUE)
    \cup Alarm(r.master_last_io_seconds_ago > t.replication_lag, "master_last_io_seconds_ago",
               "REDIS_REPLICATION_LAG", r.master_last_io_seconds_ago > 2 * t.replication_lag)
    \cup Alarm(r.rejected_connections > 0, "rejected_connections", "REDIS_REJECTED_CONNECTIONS", FALSE)
    \cup Alarm(r.slowlog_growth > t.slowlog_growth, "slowlog_growth", "REDIS_SLOWLOG_GROWTH",
               r.slowlog_growth > 5 * t.slowlog_growth)
=============================================================================

-------------------------- MODULE InstanceMonitor --------------------------
(***************************************************************************)
(* One database instance from the probe to the alarm: the updateOnce() of  *)
(* worker/src/monitor/MysqlMonitor.cpp or RedisMonitor.cpp reads its       *)
(* counters, the manager stamps the sample and queues it, one of several   *)
(* writers takes it from the queue, writeToMysql() of HostManager.cpp      *)
(* derives rates from the sample written before, and                       *)
(* queryAnomalyRecords() judges the row (AnomalyRules).                    *)
(*                                                                         *)
(* The counters of an instance all behave alike, so one stands for them:   *)
(* the slow queries of MySQL and the slow log of Redis, which the rules    *)
(* look at.  The instance itself is outside the repository: it counts      *)
(* events, restarts from zero, and answers a probe or does not.            *)
(***************************************************************************)
EXTENDS AnomalyRules, Sequences

CONSTANTS
    Database,    \* which of the two monitors: subset of {"mysql", "redis"}
    Limits,      \* the thresholds of the two tables
    WriteThreads,  \* mysqlWriteThreads_
    QueueLength, \* task_queue_capacity
    MaxEvents,   \* bound on the events of the instance
    MaxRestarts, \* bound on its restarts
    MaxTime,     \* bound on the manager's clock, in seconds
    Nothing      \* no sample, no row

\* A sample on its way to the database.  Its number n and the events the
\* instance had seen when it was probed (at) are history.
Stamped == [up : BOOLEAN, count : Nat, at : Nat, timestamp : Nat, n : Nat]

ASSUME InstanceAssumption ==
    /\ Database \subseteq {"mysql", "redis"}
    /\ Limits.mysql \in MysqlThresholds /\ Limits.redis \in RedisThresholds
    /\ QueueLength \in Nat \ {0}
    /\ Nothing \notin [up : BOOLEAN, count : Nat, at : Nat] \cup Stamped

VARIABLES
    database,  \* the monitor at work
    total,     \* the instance's counter since it started
    restarts,
    clock,
    due,       \* when the push loop collects again
    probed,    \* the sample the worker has collected, or Nothing
    stamped,   \* history: the number of samples stamped so far
    writeQueue,  \* mysqlWriteQueue_
    popped,    \* popped[w]: the sample a writer took from the queue, or Nothing
    lastOf,    \* lastMysqlSamples or lastRedisSamples of the instance
    detail,    \* the row written last, or Nothing
    events,    \* history: the events of all lives of the instance
    counted,   \* history: the growth the rows have shown so far
    missed,    \* history: a probe got no answer, or only a part of it
    overtaken  \* history: a sample was written after a later one

instanceVars == <<database, total, restarts, clock, due, probed, stamped, writeQueue, popped, lastOf, detail, events, counted, missed, overtaken>>

InstanceInit ==
    /\ database \in Database
    /\ total = 0 /\ restarts = 0 /\ clock = 0 /\ due = 0
    /\ probed = Nothing /\ detail = Nothing
    /\ stamped = 0 /\ writeQueue = <<>> /\ popped = [w \in WriteThreads |-> Nothing]
    /\ lastOf = [initialized |-> FALSE, count |-> 0, timestamp |-> 0, n |-> 0, at |-> 0]
    /\ events = 0 /\ counted = 0 /\ missed = FALSE /\ overtaken = FALSE

-----------------------------------------------------------------------------
\* The instance and the clock.

serve ==
    /\ events < MaxEvents
    /\ total' = total + 1 /\ events' = events + 1
    /\ UNCHANGED <<database, restarts, clock, due, probed, stamped, writeQueue, popped, lastOf, detail, counted, missed, overtaken>>

restart ==
    /\ restarts < MaxRestarts
    /\ total' = 0 /\ restarts' = restarts + 1
    /\ UNCHANGED <<database, clock, due, probed, stamped, writeQueue, popped, lastOf, detail, events, counted, missed, overtaken>>

tick ==
    /\ clock < MaxTime
    /\ clock' = clock + 1
    /\ UNCHANGED <<database, total, restarts, due, probed, stamped, writeQueue, popped, lastOf, detail, events, counted, missed, overtaken>>

-----------------------------------------------------------------------------
\* The updateOnce() of the two monitors.  Without a connection the sample says so
\* and every other field keeps its default.

\* MysqlMonitor: the counters come from one SHOW GLOBAL STATUS; when it fails
\* they keep their default, and the instance is still up.
mysqlInfo(connected, answered) ==
    [up |-> connected, at |-> events, count |-> IF connected /\ answered THEN total ELSE 0]

\* RedisMonitor: INFO is part of the connection; when SLOWLOG LEN fails the
\* length is set to zero.
redisInfo(connected, answered) ==
    [up |-> connected, at |-> events, count |-> IF connected /\ answered THEN total ELSE 0]

updateOnce(connected, answered) ==
    /\ probed = Nothing
    /\ clock >= due
    /\ due' = clock + 1
    /\ probed' = IF database = "mysql" THEN mysqlInfo(connected, answered) ELSE redisInfo(connected, answered)
    /\ missed' = (missed \/ ~connected \/ ~answered)
    /\ UNCHANGED <<database, total, restarts, clock, stamped, writeQueue, popped, lastOf, detail, events, counted, overtaken>>

pushFails ==
    /\ probed # Nothing
    /\ probed' = Nothing
    /\ UNCHANGED <<database, total, restarts, clock, due, stamped, writeQueue, popped, lastOf, detail, events, counted, missed, overtaken>>

\* HostManager::onDataReceived() stamps the sample with the manager's clock and
\* queues it; a full queue loses its oldest sample.
onDataReceived ==
    /\ probed # Nothing
    /\ stamped' = stamped + 1
    /\ writeQueue' = Append(IF Len(writeQueue) >= QueueLength THEN Tail(writeQueue) ELSE writeQueue,
                           [up |-> probed.up, count |-> probed.count, at |-> probed.at,
                            timestamp |-> clock, n |-> stamped + 1])
    /\ probed' = Nothing
    /\ UNCHANGED <<database, total, restarts, clock, due, popped, lastOf, detail, events, counted, missed, overtaken>>

\* mysqlWriteLoop() takes the oldest sample and lets go of the queue before it
\* asks for mysqlWriteMutex_, so another writer may come first.
writerPop(w) ==
    /\ popped[w] = Nothing
    /\ writeQueue # <<>>
    /\ popped' = [popped EXCEPT ![w] = Head(writeQueue)]
    /\ writeQueue' = Tail(writeQueue)
    /\ UNCHANGED <<database, total, restarts, clock, due, probed, stamped, lastOf, detail, events, counted, missed, overtaken>>

-----------------------------------------------------------------------------
\* The derived columns of writeToMysql(), in hundredths per second.

\* Variant: the difference of unsigned numbers without the check.
counterRateUnchecked(now, last, seconds) ==
    IF seconds <= 0 THEN 0 ELSE (((now - last) % 2^16) * 100) \div seconds

counterRate(now, last, seconds) ==
    IF seconds <= 0 \/ now < last THEN 0 ELSE ((now - last) * 100) \div seconds

\* Variant: a counter that went back is taken for one that started again.
counterDeltaFromZero(now, last) == IF now < last THEN last ELSE now - last

counterDelta(now, last) == IF now < last THEN 0 ELSE now - last

mysqlRow(s) ==
    [up |-> s.up, connection_used_percent |-> 0, replication_configured |-> FALSE,
     replication_lag_seconds |-> 0, innodb_row_lock_waits_rate |-> 0, innodb_buffer_pool_hit_percent |-> 0,
     slow_queries_rate |-> IF lastOf.initialized
                           THEN counterRate(s.count, lastOf.count, s.timestamp - lastOf.timestamp) ELSE 0]

redisRow(s) ==
    [up |-> s.up, connection_used_percent |-> 0, memory_used_percent |-> 0, keyspace_hit_percent |-> 0,
     replication_configured |-> s.up, master_link_up |-> s.up, master_last_io_seconds_ago |-> 0,
     rejected_connections |-> 0,
     slowlog_growth |-> IF lastOf.initialized THEN counterDelta(s.count, lastOf.count) ELSE 0]

Row(s) == IF database = "mysql" THEN mysqlRow(s) ELSE redisRow(s)

\* The growth a row shows.
Shown(s) ==
    IF database = "mysql" THEN (mysqlRow(s).slow_queries_rate * (s.timestamp - lastOf.timestamp)) \div 100
                          ELSE redisRow(s).slowlog_growth

\* writeToMysql() under mysqlWriteMutex_: the INSERT succeeds or not, and the
\* sample replaces the one before it either way.
writeToMysql(w) ==
    LET s == popped[w] IN
    /\ s # Nothing
    /\ \/ detail' = Row(s) /\ counted' = counted + Shown(s)
       \/ UNCHANGED <<detail, counted>>
    /\ lastOf' = [initialized |-> TRUE, count |-> s.count, timestamp |-> s.timestamp, n |-> s.n, at |-> s.at]
    /\ overtaken' = (overtaken \/ s.n < lastOf.n)
    /\ popped' = [popped EXCEPT ![w] = Nothing]
    /\ UNCHANGED <<database, total, restarts, clock, due, probed, stamped, writeQueue, events, missed>>

\* writeToMysql() gets no connection in time.
writeGivenUp(w) ==
    /\ popped[w] # Nothing
    /\ popped' = [popped EXCEPT ![w] = Nothing]
    /\ UNCHANGED <<database, total, restarts, clock, due, probed, stamped, writeQueue, lastOf, detail, events, counted, missed, overtaken>>

InstanceNext ==
    \/ serve \/ restart \/ tick
    \/ \E connected, answered \in BOOLEAN : updateOnce(connected, answered)
    \/ pushFails \/ onDataReceived
    \/ \E w \in WriteThreads : writerPop(w) \/ writeToMysql(w) \/ writeGivenUp(w)

InstanceSpec == InstanceInit /\ [][InstanceNext]_instanceVars

-----------------------------------------------------------------------------
\* The row of a probe that got no connection raises the alarm of an instance
\* that is down and no other, whatever the samples before it held: the counters
\* of such a row are back at zero and must not pass for a spike.
DownRaisesOnlyDown ==
    detail # Nothing /\ ~detail.up =>
        {a.type : a \in IF database = "mysql" THEN mysqlAlarms(detail, Limits.mysql)
                                              ELSE redisAlarms(detail, Limits.redis)}
        = {IF database = "mysql" THEN "MYSQL_DOWN" ELSE "REDIS_DOWN"}

\* No event is shown twice: together the rows never show more growth than there
\* were events, through restarts of the instance and lost samples.
CountedOnce == counted <= events

\* CountedOnce as long as every probe was answered in full and no writer overtook
\* another: then lastOf is the sample before, or an earlier one where samples
\* were lost, and what two rows show does not overlap.
CountedOnceInOrder == missed \/ overtaken \/ CountedOnce
=============================================================================

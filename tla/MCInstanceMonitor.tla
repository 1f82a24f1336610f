-------------------------- MODULE MCInstanceMonitor --------------------------
(***************************************************************************)
(* InstanceMonitor with thresholds low enough for a few events to cross.   *)
(***************************************************************************)
EXTENDS InstanceMonitor

MCDatabase == {"mysql", "redis"}

MCLimits ==
    [mysql |-> [connection |-> 90, replication_lag |-> 30, slow_query_rate |-> 100,
                lock_wait_rate |-> 100, buffer_pool_hit |-> 95],
     redis |-> [connection |-> 90, memory |-> 90, hit_rate |-> 80, replication_lag |-> 30,
                slowlog_growth |-> 1]]
=============================================================================

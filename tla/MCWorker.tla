------------------------------ MODULE MCWorker ------------------------------
(***************************************************************************)
(* KernelCollector on machines with one CPU, that is sampled three times   *)
(* or whose module is loaded twice, and on one with two CPUs, with         *)
(* counters about to come round; InstanceMonitor with thresholds low       *)
(* enough for a few events to cross; and two CPUs that count the packets   *)
(* of two interfaces in a map with room for one of them or for both.       *)
(***************************************************************************)
EXTENDS Worker

MCMachines ==
    {[cpus |-> 1, growth |-> 3, loads |-> 1, samples |-> 3],
     [cpus |-> 1, growth |-> 1, loads |-> 2, samples |-> 2],
     [cpus |-> 2, growth |-> 1, loads |-> 1, samples |-> 2]}

MCStart == [busy |-> 0, idle |-> IdleWrap - 1, irq |-> IrqWrap - 2]

MCLimits ==
    [mysql |-> [connection |-> 90, replication_lag |-> 30, slow_query_rate |-> 100,
                lock_wait_rate |-> 100, buffer_pool_hit |-> 95],
     redis |-> [connection |-> 90, memory |-> 90, hit_rate |-> 80, replication_lag |-> 30,
                slowlog_growth |-> 1]]

MCIdentities ==
    {[worker |-> TRUE, host |-> TRUE], [worker |-> FALSE, host |-> TRUE], [worker |-> TRUE, host |-> FALSE]}
=============================================================================

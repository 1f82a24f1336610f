\* Two gRPC threads, three hosts of which two share a shard, queues of two.
SPECIFICATION FairSpec
CONSTANTS
    k1 = k1
    k2 = k2
    k3 = k3
    Producers = {p1, p2}
    Keys <- MCKeys
    Shards <- MCShards
    shardIndexFor <- MCShardIndexFor
    Capacity = 2
    MaxTasks = 2
INVARIANTS PerKeyOrder DrainedOnStop CallsAccounted FewLeftBehind
PROPERTIES AcceptedTasksRun StopReturns
\* A stopped dispatcher, all calls made, has nothing left to do.
CHECK_DEADLOCK FALSE

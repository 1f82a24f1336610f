--------------------------- MODULE ManagerConfig ---------------------------
(***************************************************************************)
(* loadManagerConfigFromEnv() of manager/src/ManagerConfig.cpp: environment *)
(* variables to the limits the other components run with, and what the     *)
(* constructors of the two connection pools make of their sizes.           *)
(*                                                                         *)
(* An environment is a function from the names below to what strtol()      *)
(* reads, or Unset when the variable is missing or does not parse.  The    *)
(* options that are a single number with a floor of one (time limits,      *)
(* intervals, gRPC queues) are one option here, and switches and addresses *)
(* are left out.                                                           *)
(***************************************************************************)
EXTENDS Integers, FiniteSetsExt

CONSTANTS
    Unset,       \* no usable value in the environment
    EnvIntBits   \* width of int

Larger(a, b) == Max({a, b})

ToInt(n) == ((n + 2^(EnvIntBits - 1)) % 2^EnvIntBits) - 2^(EnvIntBits - 1)

\* The value is cut to an int and raised to the floor; the fallback is not.
envInt(value, fallback, minValue) ==
    IF value = Unset THEN fallback ELSE Larger(ToInt(value), minValue)

Option ==
    {"period", "taskCapacity", "taskHigh", "taskLow", "shards", "shardCapacity",
     "queryCapacity", "queryHigh", "queryLow", "threadsMin", "threadsMax", "poolMin", "poolMax",
     "pollersMin", "pollersMax"}

\* A watermark that does not fit is replaced.
Clipped(mark, limit, instead) == IF mark > limit THEN instead ELSE mark

\* Variant: the low watermark is compared with what the high one was read as.
QueueLimitsOutOfOrder(capacity, highRead, lowRead, highInstead) ==
    [capacity |-> capacity,
     high     |-> Clipped(highRead, capacity, highInstead),
     low      |-> Clipped(lowRead, highRead, highRead \div 2)]

\* The two checks that follow the reads, for the task and the query queue.
QueueLimits(capacity, highRead, lowRead, highInstead) ==
    LET high == Clipped(highRead, capacity, highInstead)
    IN  [capacity |-> capacity, high |-> high, low |-> Clipped(lowRead, high, high \div 2)]

\* The constructors of MysqlConnectionPool and RedisConnectionPool.
PoolSizes(min, max) == [min |-> Larger(0, min), max |-> Larger(Larger(0, min), max)]

loadManagerConfigFromEnv(env, hardware, default) ==
    LET cpu == Larger(1, hardware)
        taskCapacity == envInt(env.taskCapacity, default.taskCapacity, 1)
        queryCapacity == envInt(env.queryCapacity, default.queryCapacity, 1)
        pollersMin == envInt(env.pollersMin, default.pollersMin, 1)
        threadsMin == envInt(env.threadsMin, Larger(4, cpu), 1)
        poolMin == envInt(env.poolMin, default.poolMin, 0)
    IN  [pollersMin    |-> pollersMin,
         pollersMax    |-> envInt(env.pollersMax, default.pollersMax, pollersMin),
         period        |-> envInt(env.period, default.period, 1),
         task          |-> QueueLimits(taskCapacity,
                                       envInt(env.taskHigh, (taskCapacity * 8) \div 10, 1),
                                       envInt(env.taskLow, (taskCapacity * 3) \div 10, 0),
                                       (taskCapacity * 8) \div 10),
         query         |-> QueueLimits(queryCapacity,
                                       envInt(env.queryHigh, (queryCapacity * 8) \div 10, 1),
                                       envInt(env.queryLow, (queryCapacity * 3) \div 10, 0),
                                       queryCapacity),
         shards        |-> envInt(env.shards, default.shards, 1),
         shardCapacity |-> envInt(env.shardCapacity, default.shardCapacity, 1),
         threadsMin    |-> threadsMin,
         threadsMax    |-> envInt(env.threadsMax, Larger(threadsMin, cpu * 2), threadsMin),
         pool          |-> PoolSizes(poolMin, envInt(env.poolMax, default.poolMax, poolMin))]
=============================================================================

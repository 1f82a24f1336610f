--------------------------- MODULE IngestDispatcher ---------------------------
(***************************************************************************)
(* The ingest half of ManagerDispatcher                                    *)
(* (manager/src/ManagerDispatcher.cpp): one bounded queue and one worker   *)
(* thread per shard, the shard of a task being a hash of its partition     *)
(* key.                                                                    *)
(*                                                                         *)
(* A task is its key and its number among the accepted tasks of that key.  *)
(* What it does is its own business here (HostManager::onDataReceived);    *)
(* it may return or throw.                                                 *)
(*                                                                         *)
(* The load of running_ in enqueueIngest() and the write() that follows it *)
(* are two steps, so stop() may come in between.  The workers' loop        *)
(* condition, read() and task.run() are steps of their own.                *)
(***************************************************************************)
EXTENDS Integers, Sequences, FiniteSets

CONSTANTS
    Producers,      \* threads that call submitMonitorTask()
    Keys,           \* partition keys
    Shards,         \* ingestShards_
    shardIndexFor,  \* the hash: a function from Keys to Shards
    Capacity,       \* ingest_queue_capacity_per_shard
    MaxTasks        \* bound on the calls of submitMonitorTask() per key

NoKey == "none"

ASSUME IngestAssumption ==
    /\ NoKey \notin Keys
    /\ shardIndexFor \in [Keys -> Shards]
    /\ Capacity \in Nat \ {0}
    /\ MaxTasks \in Nat

ASSUME FiniteAssumption == IsFiniteSet(Producers) /\ IsFiniteSet(Keys)

VARIABLES
    running,        \* running_
    stopper,        \* "none", "joining", "stopped": the thread in stop()
    queue,          \* queue[s]: the MPMCQueue of shard s
    worker,         \* worker[s]: the worker thread's position and its task
    producer,       \* producer[p]: a key admitted by the check of running_
    calls,          \* calls[k]: how often submitMonitorTask() was called for k
    accepted,       \* accepted[k]: tasks written to a queue
    done,           \* done[k]: tasks that have run
    metrics,        \* the counters of ManagerMetrics
    atStop          \* history: accepted when stop() cleared running_

vars == <<running, stopper, queue, worker, producer, calls, accepted, done, metrics, atStop>>

Task == [key : Keys, n : Nat]
NoTask == [key |-> NoKey, n |-> 0]
WorkerState == [pc : {"unborn", "check", "read", "run", "exited"}, task : Task \cup {NoTask}]
Counters == {"worker_requests", "queue_rejected", "dropped_monitor_samples", "task_errors"}

Init ==
    /\ running = FALSE
    /\ stopper = "none"
    /\ queue = [s \in Shards |-> <<>>]
    /\ worker = [s \in Shards |-> [pc |-> "unborn", task |-> NoTask]]
    /\ producer = [p \in Producers |-> NoKey]
    /\ calls = [k \in Keys |-> 0]
    /\ accepted = [k \in Keys |-> 0]
    /\ done = [k \in Keys |-> 0]
    /\ metrics = [c \in Counters |-> 0]
    /\ atStop = [k \in Keys |-> 0]

\* start() of a new dispatcher.
start ==
    /\ ~running /\ stopper = "none"
    /\ running' = TRUE
    /\ worker' = [s \in Shards |-> [worker[s] EXCEPT !.pc = "check"]]
    /\ UNCHANGED <<stopper, queue, producer, calls, accepted, done, metrics, atStop>>

\* Variant: a rejected sample is not counted as dropped.
CountOnlyRejected == metrics' = [metrics EXCEPT !["queue_rejected"] = @ + 1]

\* submitMonitorTask() when enqueueIngest() returned false.
CountRejected ==
    metrics' = [c \in Counters |-> IF c \in {"queue_rejected", "dropped_monitor_samples"}
                                     THEN metrics[c] + 1 ELSE metrics[c]]

\* Variant: running_ is not looked at.
submitUnchecked(p, k) ==
    /\ producer[p] = NoKey
    /\ calls[k] < MaxTasks
    /\ calls' = [calls EXCEPT ![k] = @ + 1]
    /\ producer' = [producer EXCEPT ![p] = k]
    /\ UNCHANGED <<running, stopper, queue, worker, accepted, done, metrics, atStop>>

\* The call up to and including the load of running_.
submitMonitorTask(p, k) ==
    /\ producer[p] = NoKey
    /\ calls[k] < MaxTasks
    /\ calls' = [calls EXCEPT ![k] = @ + 1]
    /\ IF running
         THEN /\ producer' = [producer EXCEPT ![p] = k]
              /\ UNCHANGED metrics
         ELSE /\ CountRejected
              /\ UNCHANGED producer
    /\ UNCHANGED <<running, stopper, queue, worker, accepted, done, atStop>>

\* Variant: the shortest queue is picked, whatever the key.
ShardByLoad(k) == CHOOSE s \in Shards : \A u \in Shards : Len(queue[s]) <= Len(queue[u])

ShardOf(k) == shardIndexFor[k]

\* write() of a folly::MPMCQueue succeeds unless the queue is full.
HasRoom(s) == Len(queue[s]) < Capacity

\* The write() to the shard's queue, which fails when it is full, and the rest
\* of submitMonitorTask().
enqueueIngest(p) ==
    LET k == producer[p]
        s == ShardOf(k)
    IN
    /\ k # NoKey
    /\ IF HasRoom(s)
         THEN /\ queue' = [queue EXCEPT ![s] = Append(@, [key |-> k, n |-> accepted[k] + 1])]
              /\ accepted' = [accepted EXCEPT ![k] = @ + 1]
              /\ metrics' = [metrics EXCEPT !["worker_requests"] = @ + 1]
         ELSE /\ CountRejected
              /\ UNCHANGED <<queue, accepted>>
    /\ producer' = [producer EXCEPT ![p] = NoKey]
    /\ UNCHANGED <<running, stopper, worker, calls, done, atStop>>

-----------------------------------------------------------------------------
\* Variant: a worker leaves as soon as running_ is false, whatever is queued.
MayLeaveAtOnce(s) == ~running

\* The loop condition of ingestWorkerLoop() is false.
MayLeave(s) == ~running /\ queue[s] = <<>>

workerCheck(s) ==
    /\ worker[s].pc = "check"
    /\ worker' = [worker EXCEPT ![s].pc = IF MayLeave(s) THEN "exited" ELSE "read"]
    /\ UNCHANGED <<running, stopper, queue, producer, calls, accepted, done, metrics, atStop>>

\* Variant: the worker waits in a blocking read.
workerBlocks(s) ==
    /\ worker[s].pc = "read" /\ queue[s] # <<>>
    /\ worker' = [worker EXCEPT ![s] = [pc |-> "run", task |-> Head(queue[s])]]
    /\ queue' = [queue EXCEPT ![s] = Tail(@)]
    /\ UNCHANGED <<running, stopper, producer, calls, accepted, done, metrics, atStop>>

\* read() takes the oldest task, or fails and the worker sleeps and checks again.
workerRead(s) ==
    /\ worker[s].pc = "read"
    /\ IF queue[s] = <<>>
         THEN /\ worker' = [worker EXCEPT ![s].pc = "check"]
              /\ UNCHANGED queue
         ELSE /\ worker' = [worker EXCEPT ![s] = [pc |-> "run", task |-> Head(queue[s])]]
              /\ queue' = [queue EXCEPT ![s] = Tail(@)]
    /\ UNCHANGED <<running, stopper, producer, calls, accepted, done, metrics, atStop>>

\* Variant: the worker dies with the exception of its task.
AfterUncaught == "exited"

\* Where a worker goes when its task threw: it counted the exception and goes on.
AfterThrow == "check"

\* task.run() returns, or throws and is counted.
workerRun(s) ==
    /\ worker[s].pc = "run"
    /\ done' = [done EXCEPT ![worker[s].task.key] = @ + 1]
    /\ \/ /\ worker' = [worker EXCEPT ![s] = [pc |-> "check", task |-> NoTask]]
          /\ UNCHANGED metrics
       \/ /\ worker' = [worker EXCEPT ![s] = [pc |-> AfterThrow, task |-> NoTask]]
          /\ metrics' = [metrics EXCEPT !["task_errors"] = @ + 1]
    /\ UNCHANGED <<running, stopper, queue, producer, calls, accepted, atStop>>

\* stop(): clear running_, then join every worker.
stopBegin ==
    /\ running
    /\ running' = FALSE
    /\ stopper' = "joining"
    /\ atStop' = accepted
    /\ UNCHANGED <<queue, worker, producer, calls, accepted, done, metrics>>

stopReturn ==
    /\ stopper = "joining"
    /\ \A s \in Shards : worker[s].pc = "exited"
    /\ stopper' = "stopped"
    /\ UNCHANGED <<running, queue, worker, producer, calls, accepted, done, metrics, atStop>>

workerStep(s) == workerCheck(s) \/ workerRead(s) \/ workerRun(s)

Next ==
    \/ start
    \/ \E p \in Producers : enqueueIngest(p) \/ \E k \in Keys : submitMonitorTask(p, k)
    \/ \E s \in Shards : workerStep(s)
    \/ stopBegin
    \/ stopReturn

Spec == Init /\ [][Next]_vars

\* The threads the dispatcher created are scheduled, tasks end, and the thread
\* in stop() gets on once its joins are over.
FairSpec ==
    /\ Spec
    /\ \A s \in Shards : WF_vars(workerStep(s))
    /\ WF_vars(stopReturn)

-----------------------------------------------------------------------------
\* Types of the state, with the bound on the length of every queue.
TypeOK ==
    /\ running \in BOOLEAN
    /\ stopper \in {"none", "joining", "stopped"}
    /\ queue \in [Shards -> Seq(Task)]
    /\ \A s \in Shards : Len(queue[s]) <= Capacity
    /\ worker \in [Shards -> WorkerState]
    /\ \A s \in Shards : worker[s].pc = "run" => worker[s].task \in Task
    /\ producer \in [Producers -> Keys \cup {NoKey}]
    /\ calls \in [Keys -> Nat]
    /\ accepted \in [Keys -> Nat]
    /\ done \in [Keys -> Nat]
    /\ atStop \in [Keys -> Nat]
    /\ metrics \in [Counters -> Nat]

\* The tasks of one key run one at a time and in the order in which they were
\* accepted: the task a worker runs is the next one of its key, and everything
\* of that key still queued is later (ManagerDispatcher.h: one partition is
\* handled by one thread).
PerKeyOrder ==
    /\ \A s \in Shards : worker[s].pc = "run" =>
          worker[s].task.n = done[worker[s].task.key] + 1
    /\ \A s, u \in Shards : s # u /\ worker[s].pc = "run" /\ worker[u].pc = "run" =>
          worker[s].task.key # worker[u].task.key

\* When stop() returns, every task accepted before it was called has run: a
\* worker empties its queue before it leaves.
DrainedOnStop ==
    stopper = "stopped" => \A k \in Keys : done[k] >= atStop[k]

\* A task whose call loaded running_ before stop() cleared it may be accepted
\* when the workers have left, and is then never run.  That is all stop() can
\* leave behind: at most one task for every gRPC thread.
FewLeftBehind ==
    stopper = "stopped" =>
        Cardinality({t \in Keys \X (1..MaxTasks) : done[t[1]] < t[2] /\ t[2] <= accepted[t[1]]})
            + Cardinality({p \in Producers : producer[p] # NoKey}) <= Cardinality(Producers)

\* Every finished call is counted once: as accepted, or as rejected and dropped.
CallsAccounted ==
    /\ metrics["queue_rejected"] = metrics["dropped_monitor_samples"]
    /\ metrics["worker_requests"] + metrics["queue_rejected"]
         + Cardinality({p \in Producers : producer[p] # NoKey})
       = Cardinality({c \in Keys \X (1..MaxTasks) : c[2] <= calls[c[1]]})

\* A task accepted while the dispatcher runs is run, whatever happens after:
\* a task that throws before it, or stop().
AcceptedTasksRun ==
    \A k \in Keys : \A i \in 1..MaxTasks :
        running /\ accepted[k] >= i ~> done[k] >= i

\* stop() returns: every worker sees that running_ is false, empties its queue
\* and leaves, whatever its tasks throw.
StopReturns == stopper = "joining" ~> stopper = "stopped"
=============================================================================

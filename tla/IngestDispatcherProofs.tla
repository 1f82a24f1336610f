------------------------ MODULE IngestDispatcherProofs ------------------------
(***************************************************************************)
(* For every number of producers, keys and shards, every hash and every    *)
(* capacity: the types, the order of the tasks of a key, and the drain on  *)
(* stop() of IngestDispatcher.                                             *)
(***************************************************************************)
EXTENDS IngestDispatcher, FiniteSetTheorems, TLAPS

\* A task is where its key belongs, between the tasks done and the tasks
\* accepted, and the tasks of a key are queued in the order of their numbers.
QueuesSorted ==
    \A s \in Shards :
        /\ \A i \in 1 .. Len(queue[s]) :
              /\ shardIndexFor[queue[s][i].key] = s
              /\ queue[s][i].n > done[queue[s][i].key]
              /\ queue[s][i].n <= accepted[queue[s][i].key]
        /\ \A i, j \in 1 .. Len(queue[s]) :
              i < j /\ queue[s][i].key = queue[s][j].key => queue[s][i].n < queue[s][j].n

\* The task a worker runs is the next of its key, and older than all queued.
RunningIsNext ==
    \A s \in Shards : worker[s].pc = "run" =>
        /\ worker[s].task \in Task
        /\ shardIndexFor[worker[s].task.key] = s
        /\ worker[s].task.n = done[worker[s].task.key] + 1
        /\ worker[s].task.n <= accepted[worker[s].task.key]
        /\ \A i \in 1 .. Len(queue[s]) :
              queue[s][i].key = worker[s].task.key => queue[s][i].n > worker[s].task.n

\* No accepted task that has not run is missing.
NothingMissing ==
    \A k \in Keys : \A m \in 1 .. accepted[k] : done[k] < m =>
        LET s == shardIndexFor[k] IN
        \/ worker[s].pc = "run" /\ worker[s].task = [key |-> k, n |-> m]
        \/ \E i \in 1 .. Len(queue[s]) : queue[s][i] = [key |-> k, n |-> m]

\* The life of the dispatcher, and what a worker that left has left behind.
Lifecycle ==
    /\ running => stopper = "none"
    /\ ~running /\ stopper = "none" => \A s \in Shards : worker[s].pc = "unborn"
    /\ \A k \in Keys : done[k] <= accepted[k] /\ atStop[k] <= accepted[k]
    /\ \A s \in Shards : worker[s].pc = "exited" => ~running
    /\ \A k \in Keys : worker[shardIndexFor[k]].pc = "exited" => done[k] >= atStop[k]
    /\ stopper = "stopped" => \A s \in Shards : worker[s].pc = "exited"

IngestInv == TypeOK /\ QueuesSorted /\ RunningIsNext /\ NothingMissing /\ Lifecycle

-----------------------------------------------------------------------------
\* What Append() does to a queue.
LEMMA AppendFacts ==
    ASSUME NEW S, NEW q \in Seq(S), NEW e \in S
    PROVE  /\ Append(q, e) \in Seq(S)
           /\ Len(Append(q, e)) = Len(q) + 1
           /\ \A i \in 1 .. Len(q) : Append(q, e)[i] = q[i]
           /\ Append(q, e)[Len(q) + 1] = e
    OBVIOUS

\* What Head() and Tail() do to a queue.
LEMMA TailFacts ==
    ASSUME NEW S, NEW q \in Seq(S), q # <<>>
    PROVE  /\ Len(q) \in Nat \ {0}
           /\ Head(q) = q[1] /\ q[1] \in S
           /\ Tail(q) \in Seq(S)
           /\ Len(Tail(q)) = Len(q) - 1
           /\ \A i \in 1 .. Len(q) - 1 : Tail(q)[i] = q[i + 1]
    OBVIOUS

\* What the queues hold.
LEMMA QueueFacts ==
    ASSUME TypeOK, NEW s \in Shards
    PROVE  /\ Len(queue[s]) \in Nat
           /\ \A i \in 1 .. Len(queue[s]) :
                 queue[s][i] \in Task /\ queue[s][i].key \in Keys /\ queue[s][i].n \in Nat
<1>1. queue[s] \in Seq(Task)
    BY Zenon DEF TypeOK
<1>2. Len(queue[s]) \in Nat /\ \A i \in 1 .. Len(queue[s]) : queue[s][i] \in Task
    BY <1>1
<1>3. \A t \in Task : t.key \in Keys /\ t.n \in Nat
    BY Zenon DEF Task
<1> QED BY <1>2, <1>3, Zenon

\* A worker that moves on stays a worker.
LEMMA WorkerFacts ==
    ASSUME NEW w \in WorkerState
    PROVE  /\ \A v \in {"unborn", "check", "read", "run", "exited"} :
                 /\ [w EXCEPT !.pc = v] \in WorkerState
                 /\ [w EXCEPT !.pc = v].pc = v
                 /\ [w EXCEPT !.pc = v].task = w.task
           /\ [pc |-> "check", task |-> NoTask] \in WorkerState
           /\ \A t \in Task : [pc |-> "run", task |-> t] \in WorkerState
    BY Zenon DEF WorkerState

\* The types are right at the start and every action keeps them; the queues
\* stay within their capacity because write() refuses a full queue.
LEMMA TypeInit == Init => TypeOK
<1> SUFFICES ASSUME Init PROVE TypeOK
    BY Zenon
<1> USE IngestAssumption DEF Init
<1>1. queue \in [Shards -> Seq(Task)] /\ \A s \in Shards : Len(queue[s]) <= Capacity
    OBVIOUS
<1>2. worker \in [Shards -> WorkerState]
    BY Zenon DEF WorkerState
<1> QED BY <1>1, <1>2, Zenon DEF TypeOK

\* Each action of the producers, the workers and stop() keeps the types.
LEMMA TypeStep == TypeOK /\ [Next]_vars => TypeOK'
<1> SUFFICES ASSUME TypeOK, [Next]_vars PROVE TypeOK'
    BY Zenon
<1> USE IngestAssumption DEF TypeOK
<1>1. CASE start
  <2>1. \A s \in Shards : worker'[s] = [worker[s] EXCEPT !.pc = "check"]
      BY <1>1, Zenon DEF start
  <2>2. /\ worker' \in [Shards -> WorkerState]
        /\ \A s \in Shards : worker'[s].pc = "run" => worker'[s].task \in Task
      BY <1>1, <2>1, WorkerFacts, Zenon DEF start
  <2> QED BY <1>1, <2>2, Zenon DEF start
<1>2. CountRejected => metrics' \in [Counters -> Nat]
    BY DEF CountRejected
<1>3. ASSUME NEW p \in Producers, enqueueIngest(p) PROVE TypeOK'
  <2> DEFINE k == producer[p]
             s == shardIndexFor[k]
             e == [key |-> k, n |-> accepted[k] + 1]
  <2>1. k \in Keys /\ s \in Shards /\ e \in Task
      BY <1>3 DEF enqueueIngest, Task
  <2>2. CASE HasRoom(s)
    <3>1. /\ queue' = [queue EXCEPT ![s] = Append(queue[s], e)]
          /\ accepted' = [accepted EXCEPT ![k] = accepted[k] + 1]
          /\ metrics' = [metrics EXCEPT !["worker_requests"] = @ + 1]
        BY <1>3, <2>2, Zenon DEF enqueueIngest, ShardOf
    <3>2. /\ Append(queue[s], e) \in Seq(Task)
          /\ Len(Append(queue[s], e)) = Len(queue[s]) + 1
          /\ Len(queue[s]) < Capacity
        BY <2>1, <2>2, AppendFacts DEF HasRoom
    <3>3. queue' \in [Shards -> Seq(Task)] /\ \A u \in Shards : Len(queue'[u]) <= Capacity
        BY <2>1, <3>1, <3>2
    <3>4. accepted' \in [Keys -> Nat]
        BY <2>1, <3>1
    <3>5. metrics' \in [Counters -> Nat]
        BY <3>1 DEF Counters
    <3> QED BY <1>3, <3>3, <3>4, <3>5, Zenon DEF enqueueIngest
  <2>3. CASE ~HasRoom(s)
      BY <1>2, <1>3, <2>3, Zenon DEF enqueueIngest, ShardOf
  <2> QED BY <2>2, <2>3, Zenon
<1>4. ASSUME NEW p \in Producers, NEW k \in Keys, submitMonitorTask(p, k) PROVE TypeOK'
  <2>1. producer' \in [Producers -> Keys \cup {NoKey}]
      BY <1>4, Zenon DEF submitMonitorTask
  <2>2. calls' \in [Keys -> Nat]
      BY <1>4 DEF submitMonitorTask
  <2>3. metrics' \in [Counters -> Nat]
      BY <1>2, <1>4, Zenon DEF submitMonitorTask
  <2> QED BY <1>4, <2>1, <2>2, <2>3, Zenon DEF submitMonitorTask
<1>5. ASSUME NEW s \in Shards, workerCheck(s) PROVE TypeOK'
  <2>1. PICK v \in {"exited", "read"} : worker' = [worker EXCEPT ![s] = [worker[s] EXCEPT !.pc = v]]
      BY <1>5, Zenon DEF workerCheck
  <2>2. [worker[s] EXCEPT !.pc = v] \in WorkerState /\ [worker[s] EXCEPT !.pc = v].pc # "run"
      BY WorkerFacts, Zenon
  <2>3. /\ worker' \in [Shards -> WorkerState]
        /\ \A u \in Shards : worker'[u].pc = "run" => worker'[u].task \in Task
      BY <2>1, <2>2, Zenon
  <2> QED BY <1>5, <2>3, Zenon DEF workerCheck
<1>6. ASSUME NEW s \in Shards, workerRead(s) PROVE TypeOK'
  <2>1. CASE queue[s] = <<>>
    <3>1. worker' = [worker EXCEPT ![s] = [worker[s] EXCEPT !.pc = "check"]]
        BY <1>6, <2>1, Zenon DEF workerRead
    <3> QED BY <1>6, <2>1, <3>1, WorkerFacts, Zenon DEF workerRead
  <2>2. CASE queue[s] # <<>>
    <3>1. Head(queue[s]) \in Task /\ Tail(queue[s]) \in Seq(Task)
            /\ Len(Tail(queue[s])) <= Capacity
        BY <2>2, TailFacts
    <3>2. [pc |-> "run", task |-> Head(queue[s])] \in WorkerState
        BY <3>1, WorkerFacts, Zenon
    <3>3. /\ worker' = [worker EXCEPT ![s] = [pc |-> "run", task |-> Head(queue[s])]]
          /\ queue' = [queue EXCEPT ![s] = Tail(queue[s])]
        BY <1>6, <2>2, Zenon DEF workerRead
    <3>4. queue' \in [Shards -> Seq(Task)] /\ \A u \in Shards : Len(queue'[u]) <= Capacity
        BY <3>1, <3>3, Zenon
    <3>5. /\ worker' \in [Shards -> WorkerState]
          /\ \A u \in Shards : worker'[u].pc = "run" => worker'[u].task \in Task
        BY <3>1, <3>2, <3>3, Zenon
    <3> QED BY <1>6, <3>4, <3>5, Zenon DEF workerRead
  <2> QED BY <2>1, <2>2, Zenon
<1>7. ASSUME NEW s \in Shards, workerRun(s) PROVE TypeOK'
  <2>1. worker[s].task.key \in Keys
      BY <1>7, Zenon DEF workerRun, Task
  <2>2. done' \in [Keys -> Nat]
    <3>1. done' = [done EXCEPT ![worker[s].task.key] = done[worker[s].task.key] + 1]
        BY <1>7, Zenon DEF workerRun
    <3>2. done \in [Keys -> Nat]
        BY Zenon
    <3> QED BY <2>1, <3>1, <3>2
  <2>3. worker' = [worker EXCEPT ![s] = [pc |-> "check", task |-> NoTask]]
      BY <1>7, Zenon DEF workerRun, AfterThrow
  <2>4. /\ worker' \in [Shards -> WorkerState]
        /\ \A u \in Shards : worker'[u].pc = "run" => worker'[u].task \in Task
    <3> DEFINE c == [pc |-> "check", task |-> NoTask]
    <3>1. worker[s] \in WorkerState
        BY Zenon
    <3>2. c \in WorkerState
        BY <3>1, WorkerFacts, Zenon
    <3>3. c.pc # "run"
        BY Zenon
    <3>4. worker' = [worker EXCEPT ![s] = c]
        BY <2>3, Zenon
    <3> HIDE DEF c
    <3> QED BY <3>2, <3>3, <3>4, Zenon
  <2>5. metrics' = metrics \/ metrics' = [metrics EXCEPT !["task_errors"] = metrics["task_errors"] + 1]
      BY <1>7, Zenon DEF workerRun
  <2>6. metrics' \in [Counters -> Nat]
      BY <2>5 DEF Counters
  <2> QED BY <1>7, <2>2, <2>4, <2>6, Zenon DEF workerRun
<1>8. CASE stopBegin
    BY <1>8, Zenon DEF stopBegin
<1>9. CASE stopReturn
    BY <1>9, Zenon DEF stopReturn
<1>10. CASE UNCHANGED vars
    BY <1>10, Zenon DEF vars
<1> QED
    BY <1>1, <1>3, <1>4, <1>5, <1>6, <1>7, <1>8, <1>9, <1>10, Zenon DEF Next, workerStep

-----------------------------------------------------------------------------
(* The invariant holds at the start, and one lemma per action that         *)
(* disturbs it.                                                            *)

\* A new dispatcher has no tasks anywhere.
LEMMA InvInit == Init => IngestInv
<1> SUFFICES ASSUME Init PROVE IngestInv
    OBVIOUS
<1>1. TypeOK
    BY TypeInit, Zenon
<1>2. \A s \in Shards : queue[s] = <<>> /\ Len(queue[s]) = 0 /\ worker[s].pc = "unborn"
    BY Zenon DEF Init
<1>3. \A k \in Keys : done[k] = 0 /\ accepted[k] = 0 /\ atStop[k] = 0
    BY Zenon DEF Init
<1>4. QueuesSorted
    BY <1>2 DEF QueuesSorted
<1>5. RunningIsNext
    BY <1>2, Zenon DEF RunningIsNext
<1>6. NothingMissing
    BY <1>3 DEF NothingMissing
<1>7. Lifecycle
    BY <1>2, <1>3, IngestAssumption DEF Lifecycle, Init
<1> QED BY <1>1, <1>4, <1>5, <1>6, <1>7, Zenon DEF IngestInv

\* start() finds no worker, so none that runs a task.
LEMMA StartStep == IngestInv /\ TypeOK' /\ start => IngestInv'
<1> SUFFICES ASSUME IngestInv, TypeOK', start PROVE IngestInv'
    BY Zenon
<1> USE IngestAssumption DEF IngestInv
<1>1. \A s \in Shards : worker[s].pc = "unborn"
    BY Zenon DEF start, Lifecycle
<1>2. \A s \in Shards : worker'[s].pc = "check"
  <2> SUFFICES ASSUME NEW s \in Shards PROVE worker'[s].pc = "check"
      BY Zenon
  <2>1. worker'[s] = [worker[s] EXCEPT !.pc = "check"] /\ worker[s] \in WorkerState
      BY Zenon DEF start, TypeOK
  <2> QED BY <2>1, WorkerFacts
<1>3. UNCHANGED <<stopper, queue, done, accepted, atStop>> /\ running'
    BY Zenon DEF start
<1>4. QueuesSorted'
    BY <1>3, Zenon DEF QueuesSorted
<1>5. RunningIsNext'
    BY <1>2, Zenon DEF RunningIsNext
<1>6. NothingMissing'
  <2> SUFFICES ASSUME NEW k \in Keys, NEW m \in 1 .. accepted[k], done[k] < m
               PROVE  \E i \in 1 .. Len(queue[shardIndexFor[k]]) :
                          queue[shardIndexFor[k]][i] = [key |-> k, n |-> m]
      BY <1>3, Zenon DEF NothingMissing
  <2>1. worker[shardIndexFor[k]].pc # "run"
      BY <1>1, Zenon
  <2> QED BY <2>1, Zenon DEF NothingMissing
<1>7. Lifecycle'
    BY <1>2, <1>3, Zenon DEF Lifecycle, start
<1> QED BY <1>4, <1>5, <1>6, <1>7, Zenon

\* What the queues and the workers say does not change with the rest.
LEMMA Unmoved ==
    ASSUME IngestInv, UNCHANGED <<queue, worker, accepted, done>>
    PROVE  QueuesSorted' /\ RunningIsNext' /\ NothingMissing'
<1>1. QueuesSorted'
    BY Zenon DEF IngestInv, QueuesSorted
<1>2. RunningIsNext'
    BY Zenon DEF IngestInv, RunningIsNext
<1>3. NothingMissing'
    BY Zenon DEF IngestInv, NothingMissing
<1> QED BY <1>1, <1>2, <1>3, Zenon

\* A step that changes neither the tasks nor the life of the dispatcher.
LEMMA Untouched ==
    ASSUME IngestInv, TypeOK',
           UNCHANGED <<running, stopper, queue, worker, accepted, done, atStop>>
    PROVE  IngestInv'
<1>1. Lifecycle'
    BY Zenon DEF IngestInv, Lifecycle
<1> QED BY <1>1, Unmoved, Zenon DEF IngestInv

\* A task is appended under the number after the last one accepted of its key.
LEMMA EnqueueStep ==
    ASSUME NEW p \in Producers, IngestInv, TypeOK', enqueueIngest(p)
    PROVE  IngestInv'
<1> USE IngestAssumption DEF IngestInv
<1> DEFINE k == producer[p]
           s == shardIndexFor[k]
           e == [key |-> k, n |-> accepted[k] + 1]
<1>1. k \in Keys /\ s \in Shards /\ e \in Task /\ e.key = k /\ e.n = accepted[k] + 1
    BY DEF enqueueIngest, Task, TypeOK
<1>2. UNCHANGED <<running, stopper, worker, done, atStop>>
    BY Zenon DEF enqueueIngest
<1>3. CASE HasRoom(s)
  <2>1. /\ queue' = [queue EXCEPT ![s] = Append(queue[s], e)]
        /\ accepted' = [accepted EXCEPT ![k] = accepted[k] + 1]
      BY <1>3, Zenon DEF enqueueIngest, ShardOf
  <2>2. /\ queue \in [Shards -> Seq(Task)] /\ accepted \in [Keys -> Nat] /\ done \in [Keys -> Nat]
        /\ atStop \in [Keys -> Nat]
      BY Zenon DEF TypeOK
  <2>3. /\ \A u \in Shards : u # s => queue'[u] = queue[u]
        /\ Len(queue[s]) \in Nat
        /\ Len(queue'[s]) = Len(queue[s]) + 1
        /\ \A i \in 1 .. Len(queue[s]) : queue'[s][i] = queue[s][i] /\ queue[s][i] \in Task
        /\ queue'[s][Len(queue[s]) + 1] = e
    <3>1. queue'[s] = Append(queue[s], e) /\ \A u \in Shards : u # s => queue'[u] = queue[u]
        BY <1>1, <2>1, <2>2, Zenon
    <3>2. queue[s] \in Seq(Task) /\ e \in Task
        BY <1>1, <2>2, Zenon
    <3> HIDE DEF e, s
    <3>3. Len(queue[s]) \in Nat /\ \A i \in 1 .. Len(queue[s]) : queue[s][i] \in Task
        BY <3>2
    <3> QED BY <3>1, <3>2, <3>3, AppendFacts
  <2>4. /\ accepted'[k] = accepted[k] + 1
        /\ \A j \in Keys : accepted'[j] >= accepted[j] /\ accepted'[j] \in Nat
        /\ \A j \in Keys : j # k => accepted'[j] = accepted[j]
      BY <1>1, <2>1, <2>2
  <2>5. QueuesSorted'
    <3> SUFFICES ASSUME NEW u \in Shards
                 PROVE  /\ \A i \in 1 .. Len(queue'[u]) :
                              /\ shardIndexFor[queue'[u][i].key] = u
                              /\ queue'[u][i].n > done[queue'[u][i].key]
                              /\ queue'[u][i].n <= accepted'[queue'[u][i].key]
                        /\ \A i, j \in 1 .. Len(queue'[u]) :
                              i < j /\ queue'[u][i].key = queue'[u][j].key
                                => queue'[u][i].n < queue'[u][j].n
        BY <1>2, Zenon DEF QueuesSorted
    <3>1. \A i \in 1 .. Len(queue[u]) : queue[u][i].key \in Keys /\ queue[u][i].n \in Nat
        BY QueueFacts, Zenon
    <3>4. /\ \A i \in 1 .. Len(queue[u]) :
                /\ shardIndexFor[queue[u][i].key] = u
                /\ queue[u][i].n > done[queue[u][i].key]
                /\ queue[u][i].n <= accepted[queue[u][i].key]
                /\ queue[u][i].n <= accepted'[queue[u][i].key]
          /\ \A i, j \in 1 .. Len(queue[u]) :
                i < j /\ queue[u][i].key = queue[u][j].key => queue[u][i].n < queue[u][j].n
      <4>1. /\ \A i \in 1 .. Len(queue[u]) :
                  /\ shardIndexFor[queue[u][i].key] = u
                  /\ queue[u][i].n > done[queue[u][i].key]
                  /\ queue[u][i].n <= accepted[queue[u][i].key]
            /\ \A i, j \in 1 .. Len(queue[u]) :
                  i < j /\ queue[u][i].key = queue[u][j].key => queue[u][i].n < queue[u][j].n
          BY Zenon DEF QueuesSorted
      <4>2. ASSUME NEW i \in 1 .. Len(queue[u]) PROVE queue[u][i].n <= accepted'[queue[u][i].key]
        <5>1. accepted[queue[u][i].key] <= accepted'[queue[u][i].key]
                /\ accepted'[queue[u][i].key] \in Nat /\ accepted[queue[u][i].key] \in Nat
            BY <2>2, <2>4, <3>1, Zenon
        <5> QED BY <3>1, <4>1, <5>1
      <4> QED BY <4>1, <4>2, Zenon
    <3>2. CASE u # s
      <4>1. queue'[u] = queue[u]
          BY <2>3, <3>2, Zenon
      <4> QED BY <3>4, <4>1, Zenon
    <3>3. CASE u = s
      <4>1. ASSUME NEW i \in 1 .. Len(queue'[s])
            PROVE  /\ shardIndexFor[queue'[s][i].key] = s
                   /\ queue'[s][i].n > done[queue'[s][i].key]
                   /\ queue'[s][i].n <= accepted'[queue'[s][i].key]
        <5>1. CASE i \in 1 .. Len(queue[s])
          <6>1. queue'[s][i] = queue[s][i]
              BY <2>3, <5>1, Zenon
          <6> QED BY <3>3, <3>4, <5>1, <6>1, Zenon
        <5>2. CASE i = Len(queue[s]) + 1
          <6>1. done[k] <= accepted[k]
              BY <1>1, Zenon DEF Lifecycle
          <6>2. queue'[s][i] = e
              BY <2>3, <5>2, Zenon
          <6>3. done[k] \in Nat /\ accepted[k] \in Nat
              BY <1>1, <2>2, Zenon
          <6>4. e.key = k /\ e.n = accepted[k] + 1
              BY <1>1, Zenon
          <6> HIDE DEF e, s, k
          <6> QED BY <2>4, <6>1, <6>2, <6>3, <6>4 DEF s
        <5>3. i \in 1 .. Len(queue[s]) \/ i = Len(queue[s]) + 1
          <6> HIDE DEF s
          <6> QED BY <2>3
        <5> QED BY <5>1, <5>2, <5>3, Zenon
      <4>2. ASSUME NEW i \in 1 .. Len(queue'[s]), NEW j \in 1 .. Len(queue'[s]),
                   i < j, queue'[s][i].key = queue'[s][j].key
            PROVE  queue'[s][i].n < queue'[s][j].n
        <5>1. i \in 1 .. Len(queue[s])
            BY <2>3, <4>2
        <5>2. CASE j \in 1 .. Len(queue[s])
          <6>1. queue'[s][i] = queue[s][i] /\ queue'[s][j] = queue[s][j]
              BY <2>3, <5>1, <5>2, Zenon
          <6> QED BY <3>3, <3>4, <4>2, <5>1, <5>2, <6>1, Zenon
        <5>3. CASE j = Len(queue[s]) + 1
          <6>1. queue'[s][i] = queue[s][i] /\ queue'[s][j] = e
              BY <2>3, <5>1, <5>3, Zenon
          <6>2. queue[s][i].n <= accepted[queue[s][i].key] /\ queue[s][i].n \in Nat
              BY <3>1, <3>3, <3>4, <5>1, Zenon
          <6>3. e.key = k /\ e.n = accepted[k] + 1 /\ accepted[k] \in Nat
              BY <1>1, <2>2, Zenon
          <6> HIDE DEF e, s, k
          <6> QED BY <4>2, <6>1, <6>2, <6>3
        <5>4. j \in 1 .. Len(queue[s]) \/ j = Len(queue[s]) + 1
          <6> HIDE DEF s
          <6> QED BY <2>3
        <5> QED BY <5>2, <5>3, <5>4, Zenon
      <4> QED BY <3>3, <4>1, <4>2, Zenon
    <3> QED BY <3>2, <3>3, Zenon
  <2>6. RunningIsNext'
    <3> SUFFICES ASSUME NEW u \in Shards, worker[u].pc = "run"
                 PROVE  /\ worker[u].task \in Task
                        /\ shardIndexFor[worker[u].task.key] = u
                        /\ worker[u].task.n = done[worker[u].task.key] + 1
                        /\ worker[u].task.n <= accepted'[worker[u].task.key]
                        /\ \A i \in 1 .. Len(queue'[u]) :
                              queue'[u][i].key = worker[u].task.key
                                => queue'[u][i].n > worker[u].task.n
        BY <1>2, Zenon DEF RunningIsNext
    <3>1. /\ worker[u].task \in Task
          /\ shardIndexFor[worker[u].task.key] = u
          /\ worker[u].task.n = done[worker[u].task.key] + 1
          /\ worker[u].task.n <= accepted[worker[u].task.key]
          /\ \A i \in 1 .. Len(queue[u]) :
                queue[u][i].key = worker[u].task.key => queue[u][i].n > worker[u].task.n
        BY Zenon DEF RunningIsNext
    <3>2. worker[u].task.key \in Keys /\ worker[u].task.n \in Nat
        BY <3>1, Zenon DEF Task
    <3>3. worker[u].task.n <= accepted'[worker[u].task.key]
        BY <2>2, <2>4, <3>1, <3>2
    <3>4. ASSUME NEW i \in 1 .. Len(queue'[u]), queue'[u][i].key = worker[u].task.key
          PROVE  queue'[u][i].n > worker[u].task.n
      <4>1. CASE u # s
          BY <2>3, <3>1, <3>4, <4>1, Zenon
      <4>2. CASE u = s /\ i \in 1 .. Len(queue[s])
          BY <2>3, <3>1, <3>4, <4>2, Zenon
      <4>3. CASE u = s /\ i = Len(queue[s]) + 1
        <5>1. queue'[u][i] = e
            BY <2>3, <4>3, Zenon
        <5>2. e.key = k /\ e.n = accepted[k] + 1 /\ accepted[k] \in Nat
            BY <1>1, <2>2, Zenon
        <5> HIDE DEF e, s, k
        <5> QED BY <3>1, <3>2, <3>4, <5>1, <5>2
      <4> QED BY <2>3, <4>1, <4>2, <4>3
    <3> QED BY <3>1, <3>3, <3>4, Zenon
  <2>7. NothingMissing'
    <3> SUFFICES ASSUME NEW j \in Keys, NEW m \in 1 .. accepted'[j], done[j] < m
                 PROVE  LET u == shardIndexFor[j] IN
                        \/ worker[u].pc = "run" /\ worker[u].task = [key |-> j, n |-> m]
                        \/ \E i \in 1 .. Len(queue'[u]) : queue'[u][i] = [key |-> j, n |-> m]
        BY <1>2, Zenon DEF NothingMissing
    <3> DEFINE u == shardIndexFor[j]
    <3>1. CASE m \in 1 .. accepted[j]
      <4>1. \/ worker[u].pc = "run" /\ worker[u].task = [key |-> j, n |-> m]
            \/ \E i \in 1 .. Len(queue[u]) : queue[u][i] = [key |-> j, n |-> m]
          BY <3>1, Zenon DEF NothingMissing
      <4>2. ASSUME NEW i \in 1 .. Len(queue[u]), queue[u][i] = [key |-> j, n |-> m]
            PROVE  i \in 1 .. Len(queue'[u]) /\ queue'[u][i] = [key |-> j, n |-> m]
        <5>1. CASE u # s
          <6>1. queue'[u] = queue[u]
              BY <2>3, <5>1, Zenon
          <6> QED BY <4>2, <6>1, Zenon
        <5>2. CASE u = s
          <6>1. i \in 1 .. Len(queue[s]) /\ queue[s][i] = [key |-> j, n |-> m]
              BY <4>2, <5>2, Zenon
          <6>2. queue'[s][i] = queue[s][i] /\ i \in 1 .. Len(queue'[s])
            <7> HIDE DEF s
            <7> QED BY <2>3, <6>1
          <6> QED BY <5>2, <6>1, <6>2, Zenon
        <5> QED BY <5>1, <5>2, Zenon
      <4> QED BY <4>1, <4>2, Zenon
    <3>2. CASE m \notin 1 .. accepted[j]
      <4>1. j = k /\ m = accepted[k] + 1
          BY <2>2, <2>4, <3>2
      <4>2. Len(queue[s]) + 1 \in 1 .. Len(queue'[s]) /\ u = s
        <5>1. u = s
            BY <4>1, Zenon
        <5> HIDE DEF s, u
        <5> QED BY <2>3, <5>1
      <4> QED BY <2>3, <4>1, <4>2, Zenon
    <3> QED BY <3>1, <3>2, Zenon
  <2>8. Lifecycle'
    <3>1. ASSUME NEW j \in Keys PROVE done[j] <= accepted'[j] /\ atStop[j] <= accepted'[j]
      <4>1. done[j] <= accepted[j] /\ atStop[j] <= accepted[j]
          BY Zenon DEF Lifecycle
      <4> QED BY <2>2, <2>4, <4>1
    <3> QED BY <1>2, <3>1, Zenon DEF Lifecycle
  <2> QED BY <2>5, <2>6, <2>7, <2>8, Zenon
<1>4. CASE ~HasRoom(s)
  <2>1. UNCHANGED <<queue, accepted>>
      BY <1>4, Zenon DEF enqueueIngest, ShardOf
  <2> QED BY <1>2, <2>1, Untouched, Zenon
<1> QED BY <1>3, <1>4, Zenon

\* A worker that finds running_ false and its queue empty has run everything
\* that was accepted for its keys.
LEMMA CheckStep ==
    ASSUME NEW s \in Shards, IngestInv, TypeOK', workerCheck(s)
    PROVE  IngestInv'
<1> USE IngestAssumption DEF IngestInv
<1>1. worker[s].pc = "check" /\ UNCHANGED <<running, stopper, queue, done, accepted, atStop>>
    BY Zenon DEF workerCheck
<1>2. /\ \A u \in Shards : u # s => worker'[u] = worker[u]
      /\ \/ worker'[s].pc = "read"
         \/ worker'[s].pc = "exited" /\ ~running /\ queue[s] = <<>>
  <2>1. PICK v \in {"exited", "read"} : /\ worker' = [worker EXCEPT ![s] = [worker[s] EXCEPT !.pc = v]]
                                        /\ v = "exited" => ~running /\ queue[s] = <<>>
      BY Zenon DEF workerCheck, MayLeave
  <2>2. worker \in [Shards -> WorkerState]
      BY Zenon DEF TypeOK
  <2>3. worker'[s] = [worker[s] EXCEPT !.pc = v] /\ worker'[s].pc = v
      BY <2>1, <2>2, WorkerFacts
  <2>4. \A u \in Shards : u # s => worker'[u] = worker[u]
      BY <2>1, <2>2, Zenon
  <2>5. v = "read" \/ (v = "exited" /\ ~running /\ queue[s] = <<>>)
    <3>1. v = "exited" => ~running /\ queue[s] = <<>>
        BY <2>1, Zenon
    <3>2. v = "read" \/ v = "exited"
        BY Zenon
    <3> QED BY <3>1, <3>2, Zenon
  <2> QED BY <2>3, <2>4, <2>5, Zenon
<1>3. \A u \in Shards : worker'[u].pc = "run" <=> worker[u].pc = "run"
    BY <1>1, <1>2, Zenon
<1>4. QueuesSorted'
    BY <1>1 DEF QueuesSorted
<1>5. RunningIsNext'
  <2> SUFFICES ASSUME NEW u \in Shards, worker'[u].pc = "run"
               PROVE  /\ worker'[u].task \in Task
                      /\ shardIndexFor[worker'[u].task.key] = u
                      /\ worker'[u].task.n = done[worker'[u].task.key] + 1
                      /\ worker'[u].task.n <= accepted[worker'[u].task.key]
                      /\ \A i \in 1 .. Len(queue[u]) :
                            queue[u][i].key = worker'[u].task.key => queue[u][i].n > worker'[u].task.n
      BY <1>1, Zenon DEF RunningIsNext
  <2>1. worker'[u] = worker[u] /\ worker[u].pc = "run"
      BY <1>1, <1>2, <1>3, Zenon
  <2> QED BY <2>1, Zenon DEF RunningIsNext
<1>6. NothingMissing'
  <2> SUFFICES ASSUME NEW k \in Keys, NEW m \in 1 .. accepted[k], done[k] < m
               PROVE  LET u == shardIndexFor[k] IN
                      \/ worker'[u].pc = "run" /\ worker'[u].task = [key |-> k, n |-> m]
                      \/ \E i \in 1 .. Len(queue[u]) : queue[u][i] = [key |-> k, n |-> m]
      BY <1>1, Zenon DEF NothingMissing
  <2>1. LET u == shardIndexFor[k] IN
        \/ worker[u].pc = "run" /\ worker[u].task = [key |-> k, n |-> m]
        \/ \E i \in 1 .. Len(queue[u]) : queue[u][i] = [key |-> k, n |-> m]
      BY Zenon DEF NothingMissing
  <2>2. shardIndexFor[k] \in Shards
      BY Zenon
  <2> QED BY <1>1, <1>2, <2>1, <2>2, Zenon
<1>7. Lifecycle'
  <2>1. ASSUME NEW k \in Keys, worker'[shardIndexFor[k]].pc = "exited" PROVE done[k] >= atStop[k]
    <3>1. CASE shardIndexFor[k] # s
        BY <1>2, <2>1, <3>1, Zenon DEF Lifecycle
    <3>2. CASE shardIndexFor[k] = s
      <4>1. queue[s] = <<>> /\ worker[s].pc # "run"
          BY <1>1, <1>2, <2>1, <3>2, Zenon
      <4>2. done[k] \in Nat /\ accepted[k] \in Nat /\ atStop[k] \in Nat
          BY Zenon DEF TypeOK
      <4>3. ~(done[k] < accepted[k])
        <5>1. SUFFICES ASSUME done[k] < accepted[k] PROVE FALSE
            BY Zenon
        <5>2. accepted[k] \in 1 .. accepted[k]
            BY <4>2, <5>1
        <5>3. \E i \in 1 .. Len(queue[s]) : queue[s][i] = [key |-> k, n |-> accepted[k]]
            BY <3>2, <4>1, <5>1, <5>2, Zenon DEF NothingMissing
        <5>4. Len(queue[s]) = 0
            BY <4>1
        <5> QED BY <5>3, <5>4
      <4> QED BY <4>2, <4>3 DEF Lifecycle
    <3> QED BY <3>1, <3>2, Zenon
  <2>2. /\ \A u \in Shards : worker'[u].pc = "exited" => ~running
        /\ (~(~running /\ stopper = "none")) \/ \A u \in Shards : worker[u].pc = "unborn"
      BY <1>2, Zenon DEF Lifecycle
  <2>3. ~(~running /\ stopper = "none")
      BY <1>1, <2>2, Zenon
  <2>4. stopper = "stopped" => FALSE
      BY <1>1, Zenon DEF Lifecycle
  <2> QED BY <1>1, <2>1, <2>2, <2>3, <2>4, Zenon DEF Lifecycle
<1> QED BY <1>4, <1>5, <1>6, <1>7, Zenon

\* A worker takes the head of its queue: nothing of that key is older and
\* unrun, or it would be queued before it.
LEMMA ReadStep ==
    ASSUME NEW s \in Shards, IngestInv, TypeOK', workerRead(s)
    PROVE  IngestInv'
<1> USE IngestAssumption DEF IngestInv
<1>1. worker[s].pc = "read" /\ UNCHANGED <<running, stopper, done, accepted, atStop>>
    BY Zenon DEF workerRead
<1>2. /\ worker \in [Shards -> WorkerState] /\ queue \in [Shards -> Seq(Task)]
      /\ done \in [Keys -> Nat] /\ accepted \in [Keys -> Nat]
    BY Zenon DEF TypeOK
<1>3. CASE queue[s] = <<>>
  <2>1. worker' = [worker EXCEPT ![s] = [worker[s] EXCEPT !.pc = "check"]] /\ queue' = queue
      BY <1>3, Zenon DEF workerRead
  <2>2. worker'[s] = [worker[s] EXCEPT !.pc = "check"] /\ worker'[s].pc = "check"
      BY <1>2, <2>1, WorkerFacts, Zenon
  <2>3. \A u \in Shards : u # s => worker'[u] = worker[u]
      BY <1>2, <2>1, Zenon
  <2>4. QueuesSorted'
      BY <1>1, <2>1, Zenon DEF QueuesSorted
  <2>5. RunningIsNext'
      BY <1>1, <2>1, <2>2, <2>3 DEF RunningIsNext
  <2>6. NothingMissing'
    <3> SUFFICES ASSUME NEW k \in Keys, NEW m \in 1 .. accepted[k], done[k] < m
                 PROVE  LET u == shardIndexFor[k] IN
                        \/ worker'[u].pc = "run" /\ worker'[u].task = [key |-> k, n |-> m]
                        \/ \E i \in 1 .. Len(queue[u]) : queue[u][i] = [key |-> k, n |-> m]
        BY <1>1, <2>1, Zenon DEF NothingMissing
    <3>1. LET u == shardIndexFor[k] IN
          \/ worker[u].pc = "run" /\ worker[u].task = [key |-> k, n |-> m]
          \/ \E i \in 1 .. Len(queue[u]) : queue[u][i] = [key |-> k, n |-> m]
        BY DEF NothingMissing
    <3>2. shardIndexFor[k] \in Shards
        OBVIOUS
    <3> QED BY <1>1, <2>2, <2>3, <3>1, <3>2, Zenon
  <2>7. Lifecycle'
      BY <1>1, <2>2, <2>3, Zenon DEF Lifecycle
  <2> QED BY <2>4, <2>5, <2>6, <2>7
<1>4. CASE queue[s] # <<>>
  <2> DEFINE t == queue[s][1]
  <2>1. /\ worker' = [worker EXCEPT ![s] = [pc |-> "run", task |-> t]]
        /\ queue' = [queue EXCEPT ![s] = Tail(queue[s])]
      BY <1>2, <1>4, TailFacts DEF workerRead
  <2>2. worker'[s].pc = "run" /\ worker'[s].task = t
      BY <1>2, <2>1, Zenon
  <2>3. \A u \in Shards : u # s => worker'[u] = worker[u] /\ queue'[u] = queue[u]
      BY <1>2, <2>1, Zenon
  <2>4. /\ Len(queue[s]) \in Nat \ {0} /\ Len(queue'[s]) = Len(queue[s]) - 1
        /\ \A i \in 1 .. Len(queue[s]) - 1 : queue'[s][i] = queue[s][i + 1]
      BY <1>2, <1>4, <2>1, TailFacts
  <2>5. t \in Task /\ t.key \in Keys /\ t.n \in Nat
      BY <2>4, QueueFacts
  <2>6. \A i \in 1 .. Len(queue'[s]) : /\ i + 1 \in 1 .. Len(queue[s]) /\ i < i + 1 /\ 1 < i + 1
                                       /\ queue'[s][i] = queue[s][i + 1]
      BY <2>4
  <2>7. /\ \A i \in 1 .. Len(queue[s]) :
              /\ shardIndexFor[queue[s][i].key] = s
              /\ queue[s][i].n > done[queue[s][i].key]
              /\ queue[s][i].n <= accepted[queue[s][i].key]
        /\ \A i, j \in 1 .. Len(queue[s]) :
              i < j /\ queue[s][i].key = queue[s][j].key => queue[s][i].n < queue[s][j].n
      BY Zenon DEF QueuesSorted
  <2>8. QueuesSorted'
    <3> SUFFICES ASSUME NEW u \in Shards
                 PROVE  /\ \A i \in 1 .. Len(queue'[u]) :
                              /\ shardIndexFor[queue'[u][i].key] = u
                              /\ queue'[u][i].n > done[queue'[u][i].key]
                              /\ queue'[u][i].n <= accepted[queue'[u][i].key]
                        /\ \A i, j \in 1 .. Len(queue'[u]) :
                              i < j /\ queue'[u][i].key = queue'[u][j].key
                                => queue'[u][i].n < queue'[u][j].n
        BY <1>1, Zenon DEF QueuesSorted
    <3>1. CASE u # s
      <4>1. queue'[u] = queue[u]
          BY <2>3, <3>1, Zenon
      <4> QED BY <4>1, Zenon DEF QueuesSorted
    <3>2. CASE u = s
      <4>1. \A i \in 1 .. Len(queue'[s]) :
              /\ shardIndexFor[queue'[s][i].key] = s
              /\ queue'[s][i].n > done[queue'[s][i].key]
              /\ queue'[s][i].n <= accepted[queue'[s][i].key]
          BY <2>6, <2>7
      <4>2. ASSUME NEW i \in 1 .. Len(queue'[s]), NEW j \in 1 .. Len(queue'[s]),
                   i < j, queue'[s][i].key = queue'[s][j].key
            PROVE  queue'[s][i].n < queue'[s][j].n
        <5>1. i + 1 < j + 1
            BY <2>4, <4>2
        <5>2. /\ i + 1 \in 1 .. Len(queue[s]) /\ queue'[s][i] = queue[s][i + 1]
              /\ j + 1 \in 1 .. Len(queue[s]) /\ queue'[s][j] = queue[s][j + 1]
            BY <2>6, Zenon
        <5>3. queue[s][i + 1].key = queue[s][j + 1].key
            BY <4>2, <5>2, Zenon
        <5>4. queue[s][i + 1].n < queue[s][j + 1].n
            BY <2>7, <5>1, <5>2, <5>3, Zenon
        <5> QED BY <5>2, <5>4, Zenon
      <4> QED BY <3>2, <4>1, <4>2, Zenon
    <3> QED BY <3>1, <3>2, Zenon
  <2>9. t.n = done[t.key] + 1
    <3>1. t.n > done[t.key] /\ t.n <= accepted[t.key] /\ shardIndexFor[t.key] = s
        BY <2>4, <2>7
    <3>2. SUFFICES ASSUME t.n # done[t.key] + 1 PROVE FALSE
        BY Zenon
    <3> DEFINE m == done[t.key] + 1
    <3>3. done[t.key] \in Nat /\ accepted[t.key] \in Nat
        BY <1>2, <2>5, Zenon
    <3>4. m \in 1 .. accepted[t.key] /\ done[t.key] < m /\ m < t.n
      <4>1. t.n \in Nat
          BY <2>5, Zenon
      <4> QED BY <3>1, <3>2, <3>3, <4>1
    <3>5. PICK i \in 1 .. Len(queue[s]) : queue[s][i] = [key |-> t.key, n |-> m]
      <4> HIDE DEF m
      <4>1. \/ worker[s].pc = "run" /\ worker[s].task = [key |-> t.key, n |-> m]
            \/ \E i \in 1 .. Len(queue[s]) : queue[s][i] = [key |-> t.key, n |-> m]
          BY <2>5, <3>1, <3>4 DEF NothingMissing
      <4> QED BY <1>1, <4>1, Zenon
    <3>6. queue[s][i].key = t.key /\ queue[s][i].n = m
        BY <3>5
    <3>7. i # 1 /\ 1 \in 1 .. Len(queue[s])
        BY <2>4, <3>4, <3>6
    <3>8. queue[s][1].n < queue[s][i].n
        BY <2>4, <2>7, <3>6, <3>7
    <3>9. t.n < m
      <4> HIDE DEF m
      <4> QED BY <2>4, <3>6, <3>8, Zenon
    <3>10. t.n \in Nat /\ m \in Nat
        BY <2>5, <3>3
    <3> HIDE DEF m
    <3> QED BY <3>4, <3>9, <3>10
  <2>10. RunningIsNext'
    <3> SUFFICES ASSUME NEW u \in Shards, worker'[u].pc = "run"
                 PROVE  /\ worker'[u].task \in Task
                        /\ shardIndexFor[worker'[u].task.key] = u
                        /\ worker'[u].task.n = done[worker'[u].task.key] + 1
                        /\ worker'[u].task.n <= accepted[worker'[u].task.key]
                        /\ \A i \in 1 .. Len(queue'[u]) :
                              queue'[u][i].key = worker'[u].task.key
                                => queue'[u][i].n > worker'[u].task.n
        BY <1>1, Zenon DEF RunningIsNext
    <3>1. CASE u # s
      <4>1. queue'[u] = queue[u] /\ worker'[u] = worker[u]
          BY <2>3, <3>1, Zenon
      <4> QED BY <4>1, Zenon DEF RunningIsNext
    <3>2. CASE u = s
      <4>1. 1 \in 1 .. Len(queue[s]) /\ \A i \in 1 .. Len(queue[s]) : queue[s][i].n \in Nat
          BY <2>4, QueueFacts
      <4>2. shardIndexFor[t.key] = s /\ t.n <= accepted[t.key]
          BY <2>7, <4>1, Zenon
      <4>3. \A i \in 1 .. Len(queue'[s]) : queue'[s][i].key = t.key => queue'[s][i].n > t.n
          BY <2>5, <2>6, <2>7, <4>1
      <4> HIDE DEF t
      <4> QED BY <2>2, <2>5, <2>9, <3>2, <4>2, <4>3, Zenon
    <3> QED BY <3>1, <3>2, Zenon
  <2>11. NothingMissing'
    <3> SUFFICES ASSUME NEW k \in Keys, NEW m \in 1 .. accepted[k], done[k] < m
                 PROVE  LET u == shardIndexFor[k] IN
                        \/ worker'[u].pc = "run" /\ worker'[u].task = [key |-> k, n |-> m]
                        \/ \E i \in 1 .. Len(queue'[u]) : queue'[u][i] = [key |-> k, n |-> m]
        BY <1>1, Zenon DEF NothingMissing
    <3> DEFINE u == shardIndexFor[k]
    <3>1. u \in Shards
        BY Zenon
    <3>2. \/ worker[u].pc = "run" /\ worker[u].task = [key |-> k, n |-> m]
          \/ \E i \in 1 .. Len(queue[u]) : queue[u][i] = [key |-> k, n |-> m]
        BY Zenon DEF NothingMissing
    <3>3. CASE u # s
      <4>1. queue'[u] = queue[u] /\ worker'[u] = worker[u]
          BY <2>3, <3>1, <3>3, Zenon
      <4> QED BY <3>2, <4>1, Zenon
    <3>4. CASE u = s
      <4>1. PICK i \in 1 .. Len(queue[s]) : queue[s][i] = [key |-> k, n |-> m]
          BY <1>1, <3>2, <3>4, Zenon
      <4>2. CASE i = 1
          BY <2>2, <3>4, <4>1, <4>2, Zenon
      <4>3. CASE i # 1
        <5>1. i - 1 \in 1 .. Len(queue'[s]) /\ queue'[s][i - 1] = queue[s][(i - 1) + 1]
            BY <2>4, <4>3
        <5>2. (i - 1) + 1 = i
            OBVIOUS
        <5> QED BY <3>4, <4>1, <5>1, <5>2, Zenon
      <4> QED BY <4>2, <4>3, Zenon
    <3> QED BY <3>3, <3>4, Zenon
  <2>12. Lifecycle'
    <3>1. ~(~running /\ stopper = "none")
        BY <1>1, Zenon DEF Lifecycle
    <3>2. stopper # "stopped"
        BY <1>1, Zenon DEF Lifecycle
    <3> QED BY <1>1, <2>2, <2>3, <3>1, <3>2, Zenon DEF Lifecycle
  <2> QED BY <2>8, <2>10, <2>11, <2>12
<1> QED BY <1>3, <1>4, Zenon

\* A task that ends, or throws, is the next of its key to be done.
LEMMA RunStep ==
    ASSUME NEW s \in Shards, IngestInv, TypeOK', workerRun(s)
    PROVE  IngestInv'
<1> USE IngestAssumption DEF IngestInv
<1> DEFINE k == worker[s].task.key
<1>1. worker[s].pc = "run" /\ UNCHANGED <<running, stopper, queue, accepted, atStop>>
    BY Zenon DEF workerRun
<1>2. /\ worker \in [Shards -> WorkerState] /\ done \in [Keys -> Nat]
      /\ accepted \in [Keys -> Nat] /\ atStop \in [Keys -> Nat]
    BY Zenon DEF TypeOK
<1>3. /\ worker[s].task \in Task
      /\ shardIndexFor[k] = s
      /\ worker[s].task.n = done[k] + 1
      /\ worker[s].task.n <= accepted[k]
      /\ \A i \in 1 .. Len(queue[s]) : queue[s][i].key = k => queue[s][i].n > worker[s].task.n
    BY <1>1, Zenon DEF RunningIsNext
<1>4. k \in Keys
    BY <1>3, Zenon DEF Task
<1>5. /\ worker' = [worker EXCEPT ![s] = [pc |-> "check", task |-> NoTask]]
      /\ done' = [done EXCEPT ![k] = done[k] + 1]
    BY Zenon DEF workerRun, AfterThrow
<1>6. worker'[s].pc = "check" /\ \A u \in Shards : u # s => worker'[u] = worker[u]
    BY <1>2, <1>5, Zenon
<1>7. done'[k] = done[k] + 1 /\ \A j \in Keys : j # k => done'[j] = done[j]
    BY <1>2, <1>4, <1>5, Zenon
<1> HIDE DEF k
<1>8. QueuesSorted'
  <2> SUFFICES ASSUME NEW u \in Shards, NEW i \in 1 .. Len(queue[u])
               PROVE  queue[u][i].n > done'[queue[u][i].key]
      BY <1>1 DEF QueuesSorted
  <2>1. queue[u][i].key \in Keys /\ queue[u][i].n \in Nat
      BY QueueFacts, Zenon
  <2>2. queue[u][i].n > done[queue[u][i].key] /\ shardIndexFor[queue[u][i].key] = u
      BY Zenon DEF QueuesSorted
  <2>3. CASE queue[u][i].key # k
      BY <1>7, <2>1, <2>2, <2>3, Zenon
  <2>4. CASE queue[u][i].key = k
    <3>1. u = s
        BY <1>3, <2>2, <2>4, Zenon
    <3> QED BY <1>2, <1>3, <1>4, <1>7, <2>1, <2>4, <3>1, Zenon
  <2> QED BY <2>3, <2>4, Zenon
<1>9. RunningIsNext'
  <2> SUFFICES ASSUME NEW u \in Shards, worker'[u].pc = "run"
               PROVE  /\ worker'[u].task \in Task
                      /\ shardIndexFor[worker'[u].task.key] = u
                      /\ worker'[u].task.n = done'[worker'[u].task.key] + 1
                      /\ worker'[u].task.n <= accepted[worker'[u].task.key]
                      /\ \A i \in 1 .. Len(queue[u]) :
                            queue[u][i].key = worker'[u].task.key
                              => queue[u][i].n > worker'[u].task.n
      BY <1>1, Zenon DEF RunningIsNext
  <2>1. u # s /\ worker'[u] = worker[u]
      BY <1>6, Zenon
  <2>2. worker[u].task \in Task /\ shardIndexFor[worker[u].task.key] = u
      BY <2>1, Zenon DEF RunningIsNext
  <2>3. worker[u].task.key \in Keys /\ worker[u].task.key # k
      BY <1>3, <2>1, <2>2, Zenon DEF Task
  <2>4. done'[worker[u].task.key] = done[worker[u].task.key]
      BY <1>7, <2>3, Zenon
  <2> QED BY <2>1, <2>4 DEF RunningIsNext
<1>10. NothingMissing'
  <2> SUFFICES ASSUME NEW j \in Keys, NEW m \in 1 .. accepted[j], done'[j] < m
               PROVE  LET u == shardIndexFor[j] IN
                      \/ worker'[u].pc = "run" /\ worker'[u].task = [key |-> j, n |-> m]
                      \/ \E i \in 1 .. Len(queue[u]) : queue[u][i] = [key |-> j, n |-> m]
      BY <1>1, Zenon DEF NothingMissing
  <2> DEFINE u == shardIndexFor[j]
  <2>1. u \in Shards
      BY Zenon
  <2>2. done[j] < m
      BY <1>2, <1>4, <1>7
  <2>3. \/ worker[u].pc = "run" /\ worker[u].task = [key |-> j, n |-> m]
        \/ \E i \in 1 .. Len(queue[u]) : queue[u][i] = [key |-> j, n |-> m]
      BY <2>2, Zenon DEF NothingMissing
  <2>4. CASE u # s
      BY <1>6, <2>1, <2>3, <2>4, Zenon
  <2>5. CASE u = s
    <3>1. worker[s].task # [key |-> j, n |-> m]
      <4>1. SUFFICES ASSUME worker[s].task = [key |-> j, n |-> m] PROVE FALSE
          BY Zenon
      <4>2. j = k /\ m = done[k] + 1
          BY <1>3, <4>1 DEF k
      <4> QED BY <1>2, <1>4, <1>7, <4>2
    <3> QED BY <2>3, <2>5, <3>1, Zenon
  <2> QED BY <2>4, <2>5, Zenon
<1>11. Lifecycle'
  <2>1. ~(~running /\ stopper = "none") /\ stopper # "stopped"
      BY <1>1, Zenon DEF Lifecycle
  <2>2. \A j \in Keys : done'[j] <= accepted[j] /\ done'[j] >= done[j]
    <3>1. done'[k] <= accepted[k] /\ done'[k] >= done[k]
        BY <1>2, <1>3, <1>4, <1>7
    <3>2. ASSUME NEW j \in Keys, j # k PROVE done'[j] <= accepted[j] /\ done'[j] >= done[j]
      <4>1. done'[j] = done[j] /\ done[j] \in Nat
          BY <1>2, <1>7, <3>2, Zenon
      <4>2. done[j] <= accepted[j]
          BY Zenon DEF Lifecycle
      <4> QED BY <4>1, <4>2
    <3> QED BY <3>1, <3>2, Zenon
  <2>3. \A j \in Keys : worker'[shardIndexFor[j]].pc = "exited" => done'[j] >= atStop[j]
    <3> SUFFICES ASSUME NEW j \in Keys, worker'[shardIndexFor[j]].pc = "exited"
                 PROVE  done'[j] >= atStop[j]
        BY Zenon
    <3>1. shardIndexFor[j] \in Shards /\ shardIndexFor[j] # s
        BY <1>6, Zenon
    <3>2. j # k /\ worker[shardIndexFor[j]].pc = "exited"
        BY <1>3, <1>6, <3>1, Zenon
    <3> QED BY <1>7, <3>2, Zenon DEF Lifecycle
  <2> QED BY <1>1, <1>6, <2>1, <2>2, <2>3, Zenon DEF Lifecycle
<1> QED BY <1>8, <1>9, <1>10, <1>11

-----------------------------------------------------------------------------
\* Every action keeps the invariant: one case per action.
LEMMA InvStep == IngestInv /\ [Next]_vars => IngestInv'
<1> SUFFICES ASSUME IngestInv, [Next]_vars PROVE IngestInv'
    OBVIOUS
<1> USE IngestAssumption
<1>1. TypeOK'
    BY TypeStep, Zenon DEF IngestInv
<1>2. CASE start
    BY <1>1, <1>2, StartStep, Zenon
<1>3. ASSUME NEW p \in Producers, enqueueIngest(p) PROVE IngestInv'
    BY <1>1, <1>3, EnqueueStep, Zenon
<1>4. ASSUME NEW p \in Producers, NEW k \in Keys, submitMonitorTask(p, k) PROVE IngestInv'
  <2>1. UNCHANGED <<running, stopper, queue, worker, accepted, done, atStop>>
      BY <1>4, Zenon DEF submitMonitorTask
  <2> QED BY <1>1, <2>1, Untouched, Zenon
<1>5. ASSUME NEW s \in Shards, workerStep(s) PROVE IngestInv'
    BY <1>1, <1>5, CheckStep, ReadStep, RunStep, Zenon DEF workerStep
<1>6. CASE stopBegin
  <2>1. UNCHANGED <<queue, worker, accepted, done>> /\ ~running' /\ stopper' = "joining"
          /\ atStop' = accepted /\ running
      BY <1>6, Zenon DEF stopBegin
  <2>2. QueuesSorted' /\ RunningIsNext' /\ NothingMissing'
      BY <2>1, Unmoved, Zenon
  <2>3. \A k \in Keys : worker[shardIndexFor[k]].pc # "exited" /\ accepted[k] \in Nat
      BY <2>1, Zenon DEF IngestInv, Lifecycle, TypeOK
  <2>4. Lifecycle'
    <3>1. \A k \in Keys : done'[k] <= accepted'[k] /\ atStop'[k] <= accepted'[k]
        BY <2>1, <2>3 DEF IngestInv, Lifecycle
    <3>2. \A k \in Keys : worker'[shardIndexFor[k]].pc # "exited"
        BY <2>1, <2>3, Zenon
    <3> QED BY <2>1, <3>1, <3>2, Zenon DEF Lifecycle
  <2> QED BY <1>1, <2>2, <2>4, Zenon DEF IngestInv
<1>7. CASE stopReturn
  <2>1. UNCHANGED <<running, queue, worker, accepted, done, atStop>> /\ stopper' = "stopped"
          /\ stopper = "joining" /\ \A s \in Shards : worker[s].pc = "exited"
      BY <1>7, Zenon DEF stopReturn
  <2>2. QueuesSorted' /\ RunningIsNext' /\ NothingMissing'
      BY <2>1, Unmoved, Zenon
  <2>3. Lifecycle'
      BY <2>1, Zenon DEF IngestInv, Lifecycle
  <2> QED BY <1>1, <2>2, <2>3 DEF IngestInv
<1>8. CASE UNCHANGED vars
  <2>1. UNCHANGED <<running, stopper, queue, worker, accepted, done, atStop>>
      BY <1>8, Zenon DEF vars
  <2> QED BY <1>1, <2>1, Untouched, Zenon
<1> QED BY <1>2, <1>3, <1>4, <1>5, <1>6, <1>7, <1>8, Zenon DEF Next

\* The strengthened invariant holds in every reachable state of the dispatcher.
THEOREM InvHolds == Spec => []IngestInv
BY InvInit, InvStep, PTL DEF Spec

\* Every variable keeps its type, and no queue ever outgrows
\* ingest_queue_capacity_per_shard.
THEOREM TypesHold == Spec => []TypeOK
<1>1. IngestInv => TypeOK
    BY Zenon DEF IngestInv
<1> QED BY <1>1, InvHolds, PTL

\* The samples of one host are handled one at a time and in the order in which
\* enqueueIngest() accepted them, whatever the hash and the number of shards.
THEOREM OrderHolds == Spec => []PerKeyOrder
<1>1. IngestInv => PerKeyOrder
    BY Zenon DEF IngestInv, RunningIsNext, PerKeyOrder
<1> QED BY <1>1, InvHolds, PTL

\* stop() returns only when every task accepted before it has run.
THEOREM DrainHolds == Spec => []DrainedOnStop
<1>1. IngestInv => DrainedOnStop
  <2> SUFFICES ASSUME IngestInv, stopper = "stopped", NEW k \in Keys PROVE done[k] >= atStop[k]
      BY Zenon DEF DrainedOnStop
  <2>1. worker[shardIndexFor[k]].pc = "exited"
      BY IngestAssumption, Zenon DEF IngestInv, Lifecycle
  <2> QED BY <2>1, Zenon DEF IngestInv, Lifecycle
<1> QED BY <1>1, InvHolds, PTL

-----------------------------------------------------------------------------
\* The calls made so far, and the producers inside enqueueIngest().
CallsMade == {c \in Keys \X (1 .. MaxTasks) : c[2] <= calls[c[1]]}

Inside == {p \in Producers : producer[p] # NoKey}

\* The sets of calls are finite.
LEMMA CallSetsFinite ==
    /\ IsFiniteSet(CallsMade) /\ Cardinality(CallsMade) \in Nat
    /\ IsFiniteSet(Inside) /\ Cardinality(Inside) \in Nat
<1>1. IsFiniteSet(Keys \X (1 .. MaxTasks))
  <2>1. 1 \in Int /\ MaxTasks \in Int
      BY IngestAssumption
  <2> QED BY <2>1, FiniteAssumption, FS_Interval, FS_Product, Zenon
<1>2. IsFiniteSet(CallsMade)
    BY <1>1, FS_Subset, Zenon DEF CallsMade
<1>3. IsFiniteSet(Inside)
    BY FiniteAssumption, FS_Subset, Zenon DEF Inside
<1> QED BY <1>2, <1>3, FS_CardinalityType, Zenon

\* CallsAccounted in these terms, before and after a step.
LEMMA Accounting ==
    /\ CallsAccounted <=>
          /\ metrics["queue_rejected"] = metrics["dropped_monitor_samples"]
          /\ metrics["worker_requests"] + metrics["queue_rejected"] + Cardinality(Inside)
                = Cardinality(CallsMade)
    /\ CallsAccounted' <=>
          /\ metrics'["queue_rejected"] = metrics'["dropped_monitor_samples"]
          /\ metrics'["worker_requests"] + metrics'["queue_rejected"] + Cardinality(Inside')
                = Cardinality(CallsMade')
BY Zenon DEF CallsAccounted, CallsMade, Inside

\* The three counters it is about.
LEMMA CountersNat ==
    ASSUME TypeOK
    PROVE  /\ metrics["worker_requests"] \in Nat /\ metrics["queue_rejected"] \in Nat
           /\ metrics["dropped_monitor_samples"] \in Nat
BY Zenon DEF TypeOK, Counters

\* A rejection counts once in both counters.
LEMMA RejectedCounts ==
    ASSUME CountRejected
    PROVE  /\ metrics'["worker_requests"] = metrics["worker_requests"]
           /\ metrics'["queue_rejected"] = metrics["queue_rejected"] + 1
           /\ metrics'["dropped_monitor_samples"] = metrics["dropped_monitor_samples"] + 1
BY Zenon DEF CountRejected, Counters

\* A call begins: it is one more, and its producer is inside or it is rejected.
LEMMA SubmitAccounts ==
    ASSUME TypeOK, CallsAccounted, NEW p \in Producers, NEW k \in Keys, submitMonitorTask(p, k)
    PROVE  CallsAccounted'
<1> DEFINE c == <<k, calls[k] + 1>>
<1>1. /\ calls[k] \in Nat /\ calls[k] < MaxTasks /\ calls' = [calls EXCEPT ![k] = calls[k] + 1]
      /\ producer[p] = NoKey
    BY Zenon DEF submitMonitorTask, TypeOK
<1>2. CallsMade' = CallsMade \cup {c} /\ c \notin CallsMade
  <2>1. c \in Keys \X (1 .. MaxTasks) /\ c[1] = k /\ c[2] = calls[k] + 1
      BY <1>1, IngestAssumption
  <2>2. \A d \in Keys \X (1 .. MaxTasks) : d[2] <= calls'[d[1]] <=> d[2] <= calls[d[1]] \/ d = c
    <3> SUFFICES ASSUME NEW i \in Keys, NEW n \in 1 .. MaxTasks
                 PROVE  n <= calls'[i] <=> n <= calls[i] \/ (i = k /\ n = calls[k] + 1)
        OBVIOUS
    <3> QED BY <1>1, IngestAssumption DEF TypeOK
  <2> HIDE DEF c
  <2> QED BY <1>1, <2>1, <2>2 DEF CallsMade, TypeOK
<1>3. Cardinality(CallsMade') = Cardinality(CallsMade) + 1
    BY <1>2, CallSetsFinite, FS_AddElement, Zenon
<1>4. CASE running
  <2>1. producer' = [producer EXCEPT ![p] = k] /\ metrics' = metrics
      BY <1>4, Zenon DEF submitMonitorTask
  <2>2. Inside' = Inside \cup {p} /\ p \notin Inside
      BY <1>1, <2>1, IngestAssumption DEF Inside, TypeOK
  <2>3. Cardinality(Inside') = Cardinality(Inside) + 1
      BY <2>2, CallSetsFinite, FS_AddElement, Zenon
  <2> QED BY <1>3, <2>1, <2>3, CountersNat, CallSetsFinite, Accounting
<1>5. CASE ~running
  <2>1. producer' = producer /\ CountRejected
      BY <1>5, Zenon DEF submitMonitorTask
  <2>2. Inside' = Inside
      BY <2>1, Zenon DEF Inside
  <2>3. Cardinality(Inside') = Cardinality(Inside)
      BY <2>2, Zenon
  <2> QED BY <1>3, <2>1, <2>3, RejectedCounts, CountersNat, CallSetsFinite, Accounting
<1> QED BY <1>4, <1>5, Zenon

\* A call ends: its producer is no longer inside, and it is counted.
LEMMA EnqueueAccounts ==
    ASSUME TypeOK, CallsAccounted, NEW p \in Producers, enqueueIngest(p)
    PROVE  CallsAccounted'
<1>1. producer[p] # NoKey /\ producer' = [producer EXCEPT ![p] = NoKey] /\ calls' = calls
    BY Zenon DEF enqueueIngest
<1>2. Inside' = Inside \ {p} /\ p \in Inside
    BY <1>1, Zenon DEF Inside, TypeOK
<1>3. Cardinality(Inside') = Cardinality(Inside) - 1
    BY <1>2, CallSetsFinite, FS_RemoveElement, Zenon
<1>4. Cardinality(CallsMade') = Cardinality(CallsMade)
    BY <1>1, Zenon DEF CallsMade
<1>5. CASE HasRoom(ShardOf(producer[p]))
  <2>1. metrics' = [metrics EXCEPT !["worker_requests"] = @ + 1]
      BY <1>5, Zenon DEF enqueueIngest
  <2>2. /\ metrics'["worker_requests"] = metrics["worker_requests"] + 1
        /\ metrics'["queue_rejected"] = metrics["queue_rejected"]
        /\ metrics'["dropped_monitor_samples"] = metrics["dropped_monitor_samples"]
      BY <2>1, Zenon DEF TypeOK, Counters
  <2> QED BY <1>3, <1>4, <2>2, CountersNat, CallSetsFinite, Accounting
<1>6. CASE ~HasRoom(ShardOf(producer[p]))
  <2>1. CountRejected
      BY <1>6, Zenon DEF enqueueIngest
  <2> QED BY <1>3, <1>4, <2>1, RejectedCounts, CountersNat, CallSetsFinite, Accounting
<1> QED BY <1>5, <1>6, Zenon

\* The counters of ManagerMetrics account for every call of submitMonitorTask()
\* exactly once, whatever producers, workers and stop() do in between.
THEOREM AccountsHold == Spec => []CallsAccounted
<1>1. Init => CallsAccounted
  <2> SUFFICES ASSUME Init PROVE CallsAccounted
      OBVIOUS
  <2>1. CallsMade = {} /\ Inside = {}
      BY DEF Init, CallsMade, Inside
  <2>2. Cardinality(CallsMade) = 0 /\ Cardinality(Inside) = 0
      BY <2>1, FS_EmptySet, Zenon
  <2> QED BY <2>2 DEF Init, CallsAccounted, CallsMade, Inside, Counters
<1>2. TypeOK /\ CallsAccounted /\ [Next]_vars => CallsAccounted'
  <2> SUFFICES ASSUME TypeOK, CallsAccounted, [Next]_vars PROVE CallsAccounted'
      BY Zenon
  <2>1. ASSUME NEW s \in Shards, workerRun(s) PROVE CallsAccounted'
    <3>1. /\ producer' = producer /\ calls' = calls
          /\ metrics' \in {metrics, [metrics EXCEPT !["task_errors"] = @ + 1]}
        BY <2>1, Zenon DEF workerRun
    <3> QED BY <3>1, Zenon DEF CallsAccounted, TypeOK, Counters
  <2>2. CASE UNCHANGED <<producer, calls, metrics>>
      BY <2>2, Zenon DEF CallsAccounted
  <2> QED BY <2>1, <2>2, SubmitAccounts, EnqueueAccounts, Zenon
         DEF Next, vars, start, workerStep, workerCheck, workerRead, stopBegin, stopReturn
<1> QED BY <1>1, <1>2, TypesHold, PTL DEF Spec
=============================================================================

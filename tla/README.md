# A formal model of monitor-system

TLA+ modules, TLC models and TLAPS proofs for the concurrent core of
monitor-system. `PROJECT.json` maps every definition to the lines it models and
lists the runs, mutants, hazards, findings and theorems.

## The system

| part | language | what it does | state and concurrency |
| --- | --- | --- | --- |
| `worker` | C++, C | collects metrics of one host (procfs, eBPF, two kernel modules, MySQL and Redis instances) and pushes them to the manager | one push loop; counters shared between CPUs, timers and readers |
| `manager` | C++ | receives samples, scores hosts, writes MySQL, answers queries over gRPC | gRPC threads, ingest workers, an elastic pool of query workers, MySQL writers, two kinds of connection pool with health threads |
| `api_gateway` | Go | HTTP API over the manager's queries, users and tokens | stateless handlers over MySQL |
| `agent_service` | Go | AI assistant with session and long-term memory | sessions in Redis or memory, facts in MySQL and Milvus, event streams |
| `web` | TypeScript | console | one browser session |

A sample travels `MonitorPusher` → `GrpcServerImpl::SetMonitorInfo` →
`ManagerDispatcher::submitMonitorTask` → ingest worker →
`HostManager::onDataReceived` → write queue → writer thread → `writeToMysql` over
`MysqlConnectionPool`. A query travels `api_gateway` → `QueryServiceImpl` →
`ManagerDispatcher::submitQueryTask` → query worker → `QueryManager` over a second
`MysqlConnectionPool`, with a cache in Redis for the latest scores. The models cover
the manager and the parts of the worker with shared state.

## Modules

| module | models | checked by |
| --- | --- | --- |
| `IngestDispatcher` | ingest half of `ManagerDispatcher` | `Ingest`, proofs |
| `QueryDispatcher` | query half of `ManagerDispatcher`, with `submitQueryTask()` | `Query`, `QueryMinimumKept`, proofs |
| `ConnectionLease` | abstract: what a connection pool promises | |
| `MysqlConnectionPool` | the MySQL pool; implements `ConnectionLease` | `Pool`, `PoolHandleLeak`, proofs |
| `RedisConnectionPool` | the Redis pool under `RedisCache`; implements `ConnectionLease` | `Redis`, proofs |
| `HostManager` | path of a sample through `HostManager` | `Host`, `HostDetailRates`, proofs |
| `QueryService` | the query handlers over a changing database, and the score cache | `QueryService`, proofs |
| `QueryManager` | what the queries select, count, order and cut | `QueryService`, `Algorithms` |
| `AnomalyRules` | the anomaly rules: filter and classification | `Algorithms`, `Worker` |
| `ManagerConfig` | numbers of the environment and their corrections | `Algorithms` |
| `HostScore` | `calculateScore()` | `Algorithms` |
| `Algorithms` | runs each computation on each input | `Algorithms` |
| `KernelCollector` | both kernel modules and the readers of their pages | `Worker`, proofs |
| `InstanceMonitor` | probe, rates and alarms of a MySQL or Redis instance | `Worker`, `InstanceCountedOnce`, proofs |
| `NetStats` | eBPF packet counting and its reader | `Worker`, proofs |
| `Pusher` | push loop, the call, `SetMonitorInfo()` | `Worker`, proofs |
| `Worker` | the three groups above together | `Worker`, proofs |
| `ConnectionPoolProofs` | theorems of both pools | |
| `QueryPagingProofs` | theorems about the pages of `QueryService` | |
| other `...Proofs` | theorems of the module named | |
| `MC...` | instances for TLC | |

Definitions keep the names of the functions they model. An operator commented
"Variant:" is a plausible wrong form of the definition that follows it; the
mutants of `PROJECT.json` put it in that definition's place and expect a run to
fail.

### IngestDispatcher

State: `running_`, one bounded queue and one worker per shard, the producers inside
`submitMonitorTask()`, the counters of `ManagerMetrics`. A task is its key and its
number among the accepted tasks of the key. The load of `running_` and the
`write()` in `enqueueIngest()` are two steps, so `stop()` can come in between; so are
the loop condition, `read()` and `task.run()` of a worker. A task accepted that late may
never be run. The loop condition reads
`running_` and then the queue; one step is enough for both because `running_` never
becomes true again. The hash is a constant function from keys to shards, so that
nothing depends on which one it is. `folly::MPMCQueue` is external: a bounded FIFO
queue whose `write()` fails only when it is full.

### QueryDispatcher

State: `running_`, the queue, `queryWorkerCount_`, the threads `stop()` took out of
`queryWorkers_` and waits for, the position of every worker and caller, what the task of
every query set and what its caller returned. Each load and each change of
`queryWorkerCount_` is a step of its own. Times are abstracted: an idle worker may or
may not have been idle long enough, and a wait may or may not end before the result is
there.

### MysqlConnectionPool and ConnectionLease

State: the entries (connection, `inUse`, `healthy`), the guards of the users, the
handles that are open and those whose server side is gone. Every step is what one
holder of the pool's mutex does before it lets go: `acquire()` up to its return or its
wait (repairing unusable entries on the way, in index order), `release()`, one pass of
the health thread (reconnect, ping, prune, `notify_all()`), the two critical sections
of `stop()`. `wait_until()` reports a timeout whenever the deadline has passed, also
to a thread that was notified; a waiter may also wake without a notification.
`ConnectionLease` says what users rely on: a loan nobody else has, that stays open
until it is given back or the pool is stopped, from a pool of bounded size. That a guard
alive at `stop()` loses its connection is allowed: `main()` destroys the pools after
their users. The refinement maps `owned` to
the connections in the entries and `lease` to the connection in the guard.

### RedisConnectionPool

The same steps and the same abstract lease, written from its own source: an entry owns
its client, `ensureHealthy()` may drop it, a failed health check closes the entry, and
the pruning runs over all entries in order. A guard lives for one `set()` or `get()` of
`RedisCache`, which marks it unhealthy on an exception.

### HostManager

State: the previous samples of both kinds (`lastPerfSamples`, and the maps of
`writeToMysql()`), `hostScores_`, the write queue, the ingest and writer threads, the
rows written. A sample is its host and number; a rate of change is the number of the
sample it was computed against. Most rates of the summary row are computed by
`onDataReceived()`; that of the disk utilisation, and all rates of the detail rows, by the
writer. The ingest threads hand over the samples of one host one
at a time, which is `PerKeyOrder` of `IngestDispatcher`. The seven groups of tables fall
into the summary row and the detail rows; each INSERT may fail. SQL text and log output
are left out, and so is the copy of the score in Redis, which nothing reads. A sample
whose writer gets no connection is given up without being added to
`dropped_monitor_samples`; the model keeps it apart as `lost`. The branch of
`writeToMysql()` for a sample without tenant, team or cluster (lines 312 to 316) is never
taken: `resolveWorkerScope()` (line 873) lets no such sample through.

### QueryService and QueryManager

State: the samples written so far, the clock, the cache with its expiry times, and the
call of each client. A handler is a sequence of statements (count and page, three reads
of the anomaly query, cache and join of the latest scores); between two of them rows are
written, also with older timestamps and with equal ones (the time of ingestion cut to a
second), and each may fail. Identifiers are sequences of characters, so that two scopes can
have one cache key. The refusals come in the order
of the code. `QueryManager` has the selection of each query as an operator; the page is
any set that `ORDER BY`, `LIMIT` and `OFFSET` allow, since rows with equal keys come in
any order. A sample enters all tables at once here; that some of its rows may be missing
is `HostManager`'s subject.

### Algorithms

Eight computations without concurrency: the two forms of the anomaly rules for three
tables, the configuration, the score, the page offset, rank, cluster statistics. A task
picks a computation and an input and runs it; the invariants compare the result with a
reference that is written from the purpose and not from the code. Integers have their
width where the code can overflow (`IntBits`, `EnvIntBits`), only smaller.

### KernelCollector

State: the kernel's counters, what the module holds, the mapped page, the position of
the writing timer and of the reader. Both go field by field, without a lock, and the
reader passes over an entry up to three times (difference, sum of all CPUs, cache).
Loading may fail at each step. The fields are reduced to `busy` and `idle`, and to
`irq`. Idle time passes through 32 bits of microseconds, softirq counters are 32 bits
wide; both start just before they come round and may do so several times. The history
variables `rawPage`, `rawCopy` and `rawCache` have the counters behind page, copy and
cache, and `late` says that a sample compares values so far apart that the difference is
ambiguous. Waiting for I/O, which passes through 32 bits in the same way, is part of
`idle`. A second always passes between two samples of the softirq monitor, so its branch
for no time at all is left out.

### InstanceMonitor

State: the instance's counter, the sample in the worker, the write queue, the sample each
writer has taken from it, the previous sample, the row. One counter stands for all. Probes
fail in whole or in part, pushes fail, the queue overflows, writers overtake each other or
get no connection, the instance restarts.

### NetStats, Pusher and Worker

`NetStats` has the BPF map as slots that are replaced and reused, with lookup, insertion
and atomic addition as separate steps of each CPU; `updateOnce()` reads one entry per
step. `Pusher` puts the loop around it: the call may fail before the handler or after it
or never end, the dispatcher may refuse the sample. `Worker` composes the parts. The
monitors run one after another and share nothing, so each behaviour takes the steps of
one part.

## Runs

| run | instance | states | shows |
| --- | --- | --- | --- |
| `Pool` | 3 threads, 3 handles, sizes 1 to 2 | 36 thousand | the pool implements `ConnectionLease`, so leases are exclusive; no entry is abandoned; no wake-up is forgotten |
| `Redis` | the same | 8 thousand | the same lease and no abandoned entry for the Redis pool; pruning stops at the minimum |
| `Ingest` | 2 producers, 3 keys on 2 shards, capacity 2 | 359 thousand | order per key, drain on stop, at most one task per producer left behind, counters; accepted tasks run, `stop()` returns |
| `Query` | 2 callers with 2 and 1 queries, 1 to 2 workers | 346 thousand | exact thread count, overshoot bounded by the callers, each query once, true answers, clean stop; calls return, `stop()` returns |
| `Host` | 2 hosts, 3 samples, 2 writers, queue of 2 | 158 thousand | samples conserved, rates computed at ingestion look back, the queue keeps its capacity, overflow loses the oldest, scores never regress, stop drains; the queue drains, silent hosts are removed |
| `QueryService` | 2 hosts, 2 samples, 1 or 2 clients | 675 thousand | no answer leaves its scope, latest scores have a bounded age, a page is as long as its total says, paging to a short page misses no row |
| `Algorithms` | all inputs around the limits | 176 thousand | filter and classification agree, worse rows alarm more, limits fit together, score, offset, rank and statistics are right |
| `Worker` | 1 or 2 CPUs, 3 samples, 3 events, 2 writers, 3 packets | 3.2 million | pages outlive their users, percentages stay in range, nothing is reported twice, a down instance raises one alarm, packets are counted at most once and, once settled, exactly |

Four more runs show where documentation and code part; each checks one sentence of a
comment or of `manager/README.md` and ends in a counterexample: `PoolHandleLeak`,
`QueryMinimumKept`, `HostDetailRates` and `InstanceCountedOnce`. The findings in
`PROJECT.json` quote the sentences.

**What the invariants leave out.** Some are stated with an exception, where the code
does not keep more:
* `LeaseSpec`: `stop()` closes connections that are lent out.
* `NoWakeUpForgotten`: a notification can be wasted. A woken thread whose deadline has
  passed returns without another look, and one that meets an unhealthy entry first repairs
  that one; either leaves a waiter beside a free connection. It sleeps until its deadline,
  the next `release()` or the next health pass. With the defaults the deadline (2 s) comes
  before the pass (10 s).
* `DrainedOnStop`: for tasks accepted before `stop()` began. `FewLeftBehind` bounds the others.
* `QuietStopIsClean`: not when a caller is scaling up beside `stop()`. Its thread is
  added to `queryWorkers_` after the swap and nobody joins it.
* `IngestRatesLookBack`: not for `disk_util_percent_rate`, which the writer computes;
  `HostDetailRates` shows it look forward, as the rates of detail rows do.
* `BackgroundWorkDone`: that the write queue empties relies on `MaxSamples` ending the
  arrivals. Under a steady stream it need never be empty.
* `ScopeIsolation`: `latestScoreCacheKey()` joins tenant, team and cluster with colons and
  nothing forbids a colon in them, so tenant, "a", "k:l" and tenant, "a:k", "l" have one key.
  `QueryLatestScore` may then answer the one with the rows of the other. The run has such a
  pair; the invariant speaks for callers whose scope has no colon.
* `OvershootBounded`: `query_threads_max` itself can be exceeded. The number of callers
  bounds by how much.
* `PagingMissesNothing`: for rows that share their second with no other row of the list.
  Rows of one second (two samples handled in it, the parts of one sample, two clusters with
  one server name) may change places between two statements, and one of them may be on no
  page. A client that stops as soon as it has seen
  `total` rows' worth of pages can also miss rows.
* `RankIsComplete` (of `ScoreViewsRight`): the total counts server names, so it falls
  short when the clusters of a team share one.
* `ClusterStatsRight` (of `ScoreViewsRight`): a cluster of perfect scores reports a
  minimum of 0 and no worst server.
* `AlarmsMatchFilter` (of `AnomalyRulesSound`): on rows the worker can produce; the rule
  for MySQL replication lag does not repeat the filter's test for replication.
* `ScoreIsFair`: `manager/README.md:139` gives `cpu_stat(0)` as the source of the CPU part.
  The code looks for the entry named "all" or "cpu", and the worker sends "all" last
  (`CpuStatMonitor.cpp:149`), so the sentence is wrong for every sample of more than one
  entry. The models follow the code.
* `ConfigUsable`: a minimum of gRPC pollers above the default maximum stays above it when
  the maximum is not set.
* `SamplesPlausible`: not for a reader that opens the device
  during the first update, which sees names before values; not for a softirq counter
  that has come round; and, for percentages, not when a CPU has counted more than
  `IdleWrap` / (2 · CPUs) since the sample before, which on 16 CPUs is about two minutes.
* `SettledCountsExactly`: around the first packets of an interface updates race, although
  the comment at `net_stats.bpf.c:50` speaks of safety under concurrency.
* `CountedOnceInOrder`: not once a probe was not answered in full (the subject of
  `InstanceCountedOnce`), and not once a writer has overtaken another: the older sample then
  becomes the previous one, and the growth up to the newer is shown again.
* `PacketsAtMostOnce` and `SettledCountsExactly`: that a slot is reused by another interface
  while a CPU holds a pointer to it takes more packets than the run has; the theorems
  cover it.

**Bounds.** Two actors of each kind are the fewest that race; a third pool user is
needed for a waiter beside a waiter that times out. Two keys share a shard and a
third does not. Queues of one or two are full and empty within a few steps. A third
worker name exists because two callers can overshoot a maximum of two by one, and one
caller comes back while the query it gave up on is still queued. A spare
handle lets a connection of the pool be replaced, or leak. Three samples of a page are
first, reported and cached; two CPUs make an entry for all. Two samples and pages of
one row shift every page. Three packets are two that race and one after them. `MaxTasks`,
`MaxQueries`, `MaxSamples`, `MaxHandles`, `MaxEvents`, `MaxTime`, `MaxNow`, `MaxPackets` and
the members of `Machines` only bound the length of a behaviour. Deadlock checking is off
except in `QueryService`: a stopped component with all calls made has nothing left to do.
No run uses symmetry.

**Fairness.** `FairSpec` gives weak fairness to the threads the code creates and keeps
scheduled: ingest and query workers, writers, the thread of `processLoop()`, the thread in
`stop()`, and callers inside `submitQueryTask()`, whose wait is bounded by
`task_timeout`. A task ends because the pool, MySQL and Redis calls in it all carry
timeouts. `Worker` has no fairness and no liveness property: the call of `pushOnce()` has no
deadline, so nothing in the code says that it ends, or that `stop()` does. The pools have
none either. Nothing makes anyone call `submit...()`, `acquire()`, `release()` or
`stop()`, and no packet, probe or timer is fair.

## Proofs

For every value of the constants, under the named assumptions of the modules. Most say
that sizes are in order, capacities positive, sets of actors finite and markers
distinct (`IngestAssumption`, `QueryAssumption`, `PoolAssumption`, `NetAssumption`,
`InterfaceAssumption`, `InstanceAssumption`, the `HostAssumption` and `FiniteAssumption`
of `HostManager` and `IngestDispatcher`, `QueryServiceAssumption`, `KernelAssumption`).
Three say more:
* `RequestAssumption` (`QueryService`): a request has the types of its message.
* `AnomalyAssumption` (`QueryService`): where the end of a page of anomalies does not fit in
  an int, the program's behaviour is undefined and nothing is said of it.
* `IntAssumption` (`QueryManager`): an int holds the default page size.

TLC evaluates all of them in the runs. The type invariants (`TypeOK`, and `Types` of
`HostManagerProofs`) with their bounds on queues and entries, `ExclusiveLease` and `CountExact`
are proved here for all instances, so no run repeats the first two; `CountExact` is a
conjunct of `OvershootBounded`.

* `IngestDispatcherProofs`: `TypesHold`, `OrderHolds` (`PerKeyOrder`), `DrainHolds`
  (`DrainedOnStop`) and `AccountsHold` (`CallsAccounted`). `PerKeyOrder` only speaks of running
  tasks, so it is not inductive: `IngestInv` adds that the tasks of a key are queued in the
  order of their numbers, in the shard of the key and above what is done (`QueuesSorted`),
  that a running task is the next of its key and older than all queued ones
  (`RunningIsNext`), that no number between done and accepted is missing (`NothingMissing`),
  and what a worker that left has left behind (`Lifecycle`). `NothingMissing` makes the head
  of a queue the next of its key; together with `Lifecycle` it makes an empty queue mean a
  finished key. `CallsAccounted` is inductive with it: a call that begins adds one
  producer inside it, or one rejection, and its end trades the producer for a counter.
* `KernelCollectorProofs`, of `KernelSpec`, the kernel modules and their readers:
  `PagesHold` (`PagesOutliveUsers`) from what is held in each phase of the module
  (`KernelInv`), and `PlausibleHolds` (`SamplesPlausible`) from `SampleInv`. That a
  percentage is in range needs the differences of idle and of all time in proportion;
  the reader takes them field by field from a page that changes under it, so `SampleInv`
  bounds, for every position of reader and writer, what has been read by what the page
  held before and will hold after. Idle time may come round any number of times. What a
  sample compares lies between the counters behind cache and copy; as long as no two of
  them are more than `Span` apart, a sum that lost a round is not positive
  (`ReportInRange`) and its entry is removed.
* `QueryDispatcherProofs`: `CountHolds`, `OvershootHolds` and `CleanStopHolds` from `CountInv`,
  which counts the callers between the check and the increment: the count and they
  together stay below the maximum plus the callers. `OnceHolds` (`EachQueryOnce`) and
  `AnswersHold` (`AnswersAreTrue`) from `PlaceInv` (a query is in one place, and has no
  result while it is queued or run) and `CallInv` (a query is untouched until its caller
  writes it, waits only while it is not, and an answer matches its fate).
* `ConnectionPoolProofs`, of both pools, which share constants and most variables: the
  module extends the Redis pool and has the MySQL pool as the instance `Mysql`, whose
  theorems are named `Mysql...`. For each `TypesHold`, `LeaseHolds` (`ExclusiveLease`),
  `NoneAbandoned` (`NoAbandonedEntry`), and `LeaseImplemented`: the initial states map
  to initial states of `ConnectionLease`, each step to a step or a stutter. The
  invariants add that the connections of the entries are open and distinct
  (`EntriesSound`), that two guards never have one index (`GuardsSound`), and that there
  are no entries before `start()` and after `stop()` (`PhaseSound`). Guards with
  distinct indexes and entries with distinct connections give guards with distinct
  connections. `PruneHolds` (`PruneKeepsMinimum`, the Redis pool) looks at the last
  entry a health pass prunes: more than `minSize_` were open when the loop came to it,
  and all others it closed lie before it.
* `HostManagerProofs`: `RatesHold` (`IngestRatesLookBack`), `NewestHolds` (`NewestKept`),
  `DrainHolds` (`StopDrains`), `ConservedHolds` (`SamplesConserved`) and the action property
  `ScoresHold` (`ScoresNeverRegress`).
  Rows alone say nothing about the samples still on their way, so `HostInv` speaks of
  all samples whose rates have been computed (`Made`: with an ingest thread, queued, with
  a writer, written): their bases lie before them and differ, and none is newer than
  `lastPerf`, which is the base of the next (`RatesSound`). The queue is sorted per host,
  above what overflow took and below the sample a thread is about to queue
  (`QueueSorted`). A thread inside `onDataReceived()` has the newest sample of a host of
  its own (`IngestSound`), which is where the partition by host is needed. The balance of
  `SamplesConserved` is kept step by step, each moving one sample from one term to another;
  it needs `Settled`, that an idle ingest thread holds none.
* `WorkerProofs`: `KernelPart`, by which the worker's behaviours are behaviours of
  `KernelSpec`; `SettledHolds` (`SettledCountsExactly`) from the fact that two
  interfaces never have one slot; `CountedHolds` (`CountedOnceInOrder`) from
  `InstanceInv`: any two of the samples on their way and the previous one differ by no
  more than the events between their probes, so what is shown is at most the events up
  to the previous sample; `DownHolds` (`DownRaisesOnlyDown`): a probe without connection
  has a counter of zero on its whole way (`DownInv`), for which `counterRate()` and
  `counterDelta()` show nothing; `AtMostOnceHolds` (`PacketsAtMostOnce`) from
  `PacketInv`: what was accepted, what the sample under way holds and what the next
  reading would find are together at most the packets handled. A replaced entry of the
  map can lower the sum and never raise it.
* `QueryServiceProofs`: `IsolationHolds` (`ScopeIsolation`) from `ServiceInv`, which has
  the scope of every set of rows on its way, in a call or in the cache; the step that
  needs an argument is a hit in the cache, whose rows belong to some scope with the
  caller's key: if the caller's has no colon, that scope is its own, whatever scopes
  there are (`KeyIsScope`). `RecentHolds` (`LatestScoresAreRecent`) from `RecentInv`:
  rows about to be stored were read after their call began, and an entry was read at
  most one call before it was stored.
* `QueryPagingProofs`: `PromiseHolds` (`PageKeepsPromise`) from `PromiseInv`: between the two
  statements the table only grows, and the page that `LIMIT` and `OFFSET` cut from a longer
  list has the rows the total promises, also where the offset wraps. `PagingHolds`
  (`PagingMissesNothing`) from `WalkInv`: a row that was there when the walk began, shares its
  second with no other and has not been seen lies behind the pages read so far, since rows
  are only ever added to those in front of it and ties elsewhere do not move it.

Numbers and cardinalities are reached through the well-founded orders of the library:
a set of naturals has a least element (`LeastNatural`), and what a loop or a page cuts
from a finite list is found by looking at its first or last place.

Only model-checked: liveness and everything else under fairness, and `ENABLED`, which the
prover does not do; the properties of `Algorithms`, whose references fold over
sequences and sets of small inputs.

## Not modelled

* `api_gateway`, `agent_service` and `web`. The models follow the C++ core. Outside it remain
  a session that concurrent requests load, change and save (listed as a hazard), the
  deletion of a session in two stores, and late answers after a logout in `web`.
* Collectors over procfs (load, memory, disks, `NetMonitor`, users): parsing in one
  thread. Their differences of counters have no check for a counter that went back.
* Loading and attaching eBPF programs. When it fails, `updateOnce()` adds nothing, although
  the message speaks of falling back.
* Statement preparation, parameter binding and column conversion of `QueryManager`; SQL
  text; log output; switches and addresses of the configuration.
* Generated code: `vmlinux.h` alone has 158 thousand of the 170 thousand lines of C and
  C++ in the repository, so shares of all lines say little. Of the 10.7 thousand lines
  written by hand about half are mapped; most of the rest are headers of classes, procfs
  parsing, and printing.
* Real time: how long a step takes, or for how long a mutex is held, cannot be seen in
  these models. So nothing is said about the MySQL pool connecting with its mutex
  held, nor about the memory of `hostDatas_`, whose entries nothing removes.
* `queryWorkers_` itself, which keeps the `std::thread` objects of workers that left until
  `stop()`. A query that timed out is still run; this is in the model of `QueryDispatcher`,
  and no run is spent on it.

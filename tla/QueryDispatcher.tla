--------------------------- MODULE QueryDispatcher ---------------------------
(***************************************************************************)
(* The query half of ManagerDispatcher (submitQueryTask() in               *)
(* manager/include/ManagerDispatcher.h, the rest in                        *)
(* manager/src/ManagerDispatcher.cpp): a bounded queue served by worker    *)
(* threads whose number follows the load, and callers that wait for their  *)
(* result for at most task_timeout.                                        *)
(*                                                                         *)
(* queryWorkerCount_ is an atomic that several threads load, compare and   *)
(* then change: each load and each change is a step of its own.            *)
(*                                                                         *)
(* A query is its client and its number.  Its task sets the promise once,  *)
(* to a good or to a failed status; the promise is shared by the caller    *)
(* and the task, so it outlives the caller's wait.  Idle times are         *)
(* abstracted: a worker that found the queue empty may or may not have     *)
(* been idle for query_idle_shrink.                                        *)
(***************************************************************************)
EXTENDS Integers, Sequences, FiniteSets

CONSTANTS
    Clients,        \* gRPC threads that call submitQueryTask()
    Workers,        \* names for the worker threads; a new thread takes any free one
    ThreadsMin,     \* query_threads_min
    ThreadsMax,     \* query_threads_max
    HighWatermark,  \* query_queue_high_watermark
    Capacity,       \* query_queue_capacity
    MaxQueries      \* bound on the calls of each client

ASSUME QueryAssumption ==
    /\ ThreadsMin \in Nat \ {0}
    /\ ThreadsMax \in Nat
    /\ ThreadsMin <= ThreadsMax
    /\ Capacity \in Nat \ {0}
    /\ HighWatermark \in 0..Capacity
    /\ MaxQueries \in [Clients -> Nat]
    /\ IsFiniteSet(Clients) /\ Clients # {}
    /\ IsFiniteSet(Workers) /\ \E B \in SUBSET Workers : Cardinality(B) = ThreadsMin

VARIABLES
    running,        \* running_
    stopper,        \* "none", "ingest", "joining", "stopped"
    queryQueue,     \* queryQueue_
    workerCount,    \* queryWorkerCount_
    joining,        \* the threads stop() took out of queryWorkers_ and waits for
    worker,         \* worker[w]: the thread's position and its query
    client,         \* client[c]: the caller's position
    calls,          \* calls[c]: the number of its current query
    promise,        \* promise[q]: what the task of q set, if it ran
    answer,         \* answer[q]: the status the caller of q returned
    quietStop       \* history: no caller has been inside since stop() began

vars == <<running, stopper, queryQueue, workerCount, joining, worker, client,
          calls, promise, answer, quietStop>>

Queries == UNION {{c} \X (1..MaxQueries[c]) : c \in Clients}
NoQuery == <<>>
Current(c) == <<c, calls[c]>>

Live == {w \in Workers : worker[w].pc \notin {"unborn", "gone"}}

Init ==
    /\ running = FALSE
    /\ stopper = "none"
    /\ queryQueue = <<>>
    /\ workerCount = 0
    /\ joining = {}
    /\ worker = [w \in Workers |-> [pc |-> "unborn", query |-> NoQuery]]
    /\ client = [c \in Clients |-> "outside"]
    /\ calls = [c \in Clients |-> 0]
    /\ promise = [q \in Queries |-> "none"]
    /\ answer = [q \in Queries |-> "none"]
    /\ quietStop = FALSE

initialQueryThreads ==
    LET least == IF ThreadsMin < ThreadsMax THEN ThreadsMin ELSE ThreadsMax
    IN IF least < 1 THEN 1 ELSE least

\* start() of a new dispatcher: one spawnQueryWorker() after the other.
start ==
    /\ ~running /\ stopper = "none"
    /\ running' = TRUE
    /\ workerCount' = initialQueryThreads
    /\ LET born == CHOOSE B \in SUBSET Workers : Cardinality(B) = initialQueryThreads
       IN  worker' = [w \in Workers |-> IF w \in born THEN [worker[w] EXCEPT !.pc = "check"]
                                                     ELSE worker[w]]
    /\ UNCHANGED <<stopper, queryQueue, joining, client, calls, promise, answer, quietStop>>

-----------------------------------------------------------------------------
(* submitQueryTask(), step by step.                                        *)

workerSide == <<running, stopper, workerCount, joining, worker, promise>>

Goto(c, there) == client' = [client EXCEPT ![c] = there]

\* The call returns a status.
Return(c, status) ==
    /\ answer' = [answer EXCEPT ![Current(c)] = status]
    /\ Goto(c, "outside")

\* The first look at the queue: below the high watermark the query goes
\* straight to enqueueQuery().  main() starts the dispatcher before the server,
\* so no call comes before start().
submitQueryTask(c) ==
    /\ running \/ stopper # "none"
    /\ client[c] = "outside"
    /\ calls[c] < MaxQueries[c]
    /\ calls' = [calls EXCEPT ![c] = @ + 1]
    /\ Goto(c, IF Len(queryQueue) >= HighWatermark THEN "scale" ELSE "enqueue")
    /\ quietStop' = FALSE
    /\ UNCHANGED <<queryQueue, answer, workerSide>>

BelowMaximum == workerCount < ThreadsMax

\* The two loads of queryWorkerCount_, in maybeScaleUpQuery() and again in
\* spawnQueryWorker(), lead to the same place when they fail.
maybeScaleUpQuery(c) ==
    /\ client[c] = "scale"
    /\ Goto(c, IF Len(queryQueue) >= HighWatermark /\ BelowMaximum
                 THEN "spawn" ELSE "capacity")
    /\ UNCHANGED <<queryQueue, calls, answer, quietStop, workerSide>>

spawnCount(c) ==
    /\ client[c] = "spawn"
    /\ workerCount' = workerCount + 1
    /\ Goto(c, "emplace")
    /\ UNCHANGED <<running, stopper, queryQueue, joining, worker, calls, promise,
                   answer, quietStop>>

\* The new std::thread goes into queryWorkers_, where stop() finds it unless it
\* has already swapped the vector away.
spawnEmplace(c) ==
    /\ client[c] = "emplace"
    /\ Workers # Live \cup joining
    /\ LET w == CHOOSE u \in Workers : u \notin Live \cup joining
       IN  worker' = [worker EXCEPT ![w] = [pc |-> "check", query |-> NoQuery]]
    /\ Goto(c, "capacity")
    /\ UNCHANGED <<running, stopper, queryQueue, workerCount, joining, calls, promise,
                   answer, quietStop>>

checkCapacity(c) ==
    /\ client[c] = "capacity"
    /\ IF Len(queryQueue) >= Capacity
         THEN Return(c, "RESOURCE_EXHAUSTED")
         ELSE Goto(c, "enqueue") /\ UNCHANGED answer
    /\ UNCHANGED <<queryQueue, calls, quietStop, workerSide>>

\* enqueueQuery(): the load of running_ ...
enqueueQuery(c) ==
    /\ client[c] = "enqueue"
    /\ IF running
         THEN Goto(c, "write") /\ UNCHANGED answer
         ELSE Return(c, "RESOURCE_EXHAUSTED")
    /\ UNCHANGED <<queryQueue, calls, quietStop, workerSide>>

\* write() of a folly::MPMCQueue succeeds unless the queue is full.
HasRoom == Len(queryQueue) < Capacity

\* ... and the write(), which fails when the queue is full.
writeQuery(c) ==
    /\ client[c] = "write"
    /\ IF HasRoom
         THEN /\ queryQueue' = Append(queryQueue, Current(c))
              /\ Goto(c, "waiting")
              /\ UNCHANGED answer
         ELSE /\ Return(c, "RESOURCE_EXHAUSTED")
              /\ UNCHANGED queryQueue
    /\ UNCHANGED <<calls, quietStop, workerSide>>

\* future.wait_for() finds the promise set in time, or it does not.
awaitResult(c) ==
    /\ client[c] = "waiting"
    /\ promise[Current(c)] # "none"
    /\ Return(c, promise[Current(c)])
    /\ UNCHANGED <<queryQueue, calls, quietStop, workerSide>>

\* Variant: a timeout is reported as a full queue.
TimeoutAsRejection == "RESOURCE_EXHAUSTED"

TimeoutStatus == "DEADLINE_EXCEEDED"

\* Variant: future.get() in place of future.wait_for().
awaitForever(c) == FALSE /\ UNCHANGED vars

awaitTimeout(c) ==
    /\ client[c] = "waiting"
    /\ promise[Current(c)] = "none"
    /\ Return(c, TimeoutStatus)
    /\ UNCHANGED <<queryQueue, calls, quietStop, workerSide>>

clientStep(c) ==
    \/ maybeScaleUpQuery(c) \/ spawnCount(c) \/ spawnEmplace(c) \/ checkCapacity(c)
    \/ enqueueQuery(c) \/ writeQuery(c) \/ awaitResult(c) \/ awaitTimeout(c)

-----------------------------------------------------------------------------
(* queryWorkerLoop().                                                      *)

clientSide == <<client, calls, answer, quietStop, running, stopper>>

WorkerGoto(w, there) == worker' = [worker EXCEPT ![w].pc = there]

\* Variant: a thread that ends is not counted out.
LeaveUncounted(w) ==
    /\ WorkerGoto(w, "gone")
    /\ joining' = joining \ {w}
    /\ UNCHANGED workerCount

\* The thread ends.
Leave(w) ==
    /\ WorkerGoto(w, "gone")
    /\ workerCount' = workerCount - 1
    /\ joining' = joining \ {w}

\* Variant: the loop has no condition.
LoopsForever == TRUE

\* The loop condition of queryWorkerLoop().
KeepsLooping == running \/ queryQueue # <<>>

workerCheck(w) ==
    /\ worker[w].pc = "check"
    /\ IF KeepsLooping
         THEN WorkerGoto(w, "read") /\ UNCHANGED <<workerCount, joining>>
         ELSE Leave(w)
    /\ UNCHANGED <<queryQueue, promise, clientSide>>

\* Variant: the query stays in the queue.
workerPeek(w) ==
    /\ worker[w].pc = "read"
    /\ IF queryQueue = <<>>
         THEN WorkerGoto(w, "idle")
         ELSE worker' = [worker EXCEPT ![w] = [pc |-> "run", query |-> Head(queryQueue)]]
    /\ UNCHANGED <<queryQueue, workerCount, joining, promise, clientSide>>

\* read() takes the oldest query, or the queue is empty.
workerRead(w) ==
    /\ worker[w].pc = "read"
    /\ IF queryQueue = <<>>
         THEN WorkerGoto(w, "idle") /\ UNCHANGED queryQueue
         ELSE /\ worker' = [worker EXCEPT ![w] = [pc |-> "run", query |-> Head(queryQueue)]]
              /\ queryQueue' = Tail(queryQueue)
    /\ UNCHANGED <<workerCount, joining, promise, clientSide>>

\* Idle for query_idle_shrink and more than the minimum of workers: leave.
workerIdle(w) ==
    /\ worker[w].pc = "idle"
    /\ \/ WorkerGoto(w, "check")
       \/ workerCount > ThreadsMin /\ WorkerGoto(w, "shrink")
    /\ UNCHANGED <<queryQueue, workerCount, joining, promise, clientSide>>

workerShrink(w) ==
    /\ worker[w].pc = "shrink"
    /\ Leave(w)
    /\ UNCHANGED <<queryQueue, promise, clientSide>>

\* The task sets the promise: to the status it returns, or to INTERNAL when it
\* throws.
workerRun(w) ==
    /\ worker[w].pc = "run"
    /\ \E status \in {"OK", "INTERNAL"} :
          promise' = [promise EXCEPT ![worker[w].query] = status]
    /\ worker' = [worker EXCEPT ![w] = [pc |-> "check", query |-> NoQuery]]
    /\ UNCHANGED <<queryQueue, workerCount, joining, clientSide>>

workerStep(w) ==
    workerCheck(w) \/ workerRead(w) \/ workerIdle(w) \/ workerShrink(w) \/ workerRun(w)

-----------------------------------------------------------------------------
\* stop(): clear running_; join the ingest workers; swap queryWorkers_ away;
\* join the threads it held.
stopBegin ==
    /\ running
    /\ running' = FALSE
    /\ stopper' = "ingest"
    /\ quietStop' = \A c \in Clients : client[c] = "outside"
    /\ UNCHANGED <<queryQueue, workerCount, joining, worker, client, calls, promise,
                   answer>>

\* Variant: stop() does not take the threads out of queryWorkers_.
NothingToJoin == {}

ThreadsToJoin == Live

stopSwap ==
    /\ stopper = "ingest"
    /\ stopper' = "joining"
    /\ joining' = ThreadsToJoin
    /\ UNCHANGED <<running, queryQueue, workerCount, worker, client, calls, promise, answer,
                   quietStop>>

stopReturn ==
    /\ stopper = "joining"
    /\ joining = {}
    /\ stopper' = "stopped"
    /\ UNCHANGED <<running, queryQueue, workerCount, joining, worker, client, calls,
                   promise, answer, quietStop>>

Next ==
    \/ start
    \/ \E c \in Clients : submitQueryTask(c) \/ clientStep(c)
    \/ \E w \in Workers : workerStep(w)
    \/ stopBegin
    \/ stopSwap
    \/ stopReturn

Spec == Init /\ [][Next]_vars

\* Callers, workers and the thread in stop() are scheduled, a task ends, and the
\* wait for a result ends at the latest with its timeout.
FairSpec ==
    /\ Spec
    /\ \A c \in Clients : WF_vars(clientStep(c))
    /\ \A w \in Workers : WF_vars(workerStep(w))
    /\ WF_vars(stopSwap) /\ WF_vars(stopReturn)

-----------------------------------------------------------------------------
\* Types of the state, with the bound on the length of the queue.
TypeOK ==
    /\ running \in BOOLEAN /\ quietStop \in BOOLEAN
    /\ stopper \in {"none", "ingest", "joining", "stopped"}
    /\ queryQueue \in Seq(Queries) /\ Len(queryQueue) <= Capacity
    /\ workerCount \in Nat
    /\ joining \subseteq Workers
    /\ worker \in [Workers -> [pc : {"unborn", "check", "read", "idle", "shrink", "run", "gone"},
                               query : Queries \cup {NoQuery}]]
    /\ client \in [Clients -> {"outside", "scale", "spawn", "emplace", "capacity", "enqueue",
                               "write", "waiting"}]
    /\ \A c \in Clients : calls[c] \in 0..MaxQueries[c]
    /\ promise \in [Queries -> {"none", "OK", "INTERNAL"}]
    /\ answer \in [Queries -> {"none", "OK", "INTERNAL", "RESOURCE_EXHAUSTED",
                               "DEADLINE_EXCEEDED"}]

\* queryWorkerCount_ is the number of worker threads, a thread about to be
\* emplaced included: every thread is counted in once and out once, on whichever
\* way it leaves its loop.
CountExact ==
    workerCount = Cardinality(Live) + Cardinality({c \in Clients : client[c] = "emplace"})

\* The unguarded check of the maximum costs at most one thread for every other
\* caller that is scaling up at the same time, and the count is that of the
\* threads.
OvershootBounded == CountExact /\ workerCount <= ThreadsMax + Cardinality(Clients) - 1

Queued(q) == {i \in DOMAIN queryQueue : queryQueue[i] = q}
RunBy(q) == {w \in Workers : worker[w].pc = "run" /\ worker[w].query = q}
Executed(q) == IF promise[q] = "none" THEN 0 ELSE 1

\* A query whose caller waits is queued, run by one worker or finished, and no
\* query is ever in two of these places: none is lost and none runs twice.
EachQueryOnce ==
    /\ \A q \in Queries : Cardinality(Queued(q)) + Cardinality(RunBy(q)) + Executed(q) <= 1
    /\ \A c \in Clients : client[c] = "waiting" =>
          LET q == Current(c)
          IN Cardinality(Queued(q)) + Cardinality(RunBy(q)) + Executed(q) = 1

\* What a caller is told is what happened: a result is the one its own task set,
\* and a query turned down with RESOURCE_EXHAUSTED is never run.
AnswersAreTrue ==
    \A q \in Queries :
        /\ answer[q] \in {"OK", "INTERNAL"} => promise[q] = answer[q]
        /\ answer[q] = "RESOURCE_EXHAUSTED" =>
              Queued(q) = {} /\ RunBy(q) = {} /\ promise[q] = "none"

\* stop() with no caller inside, as in main() once the server is down, has
\* waited for every thread when it returns.
QuietStopIsClean == stopper = "stopped" /\ quietStop => Live = {}

\* Every call returns: with a result, a rejection or the timeout.
CallsReturn == \A c \in Clients : client[c] # "outside" ~> client[c] = "outside"

\* stop() returns.
StopReturns == stopper = "ingest" ~> stopper = "stopped"

-----------------------------------------------------------------------------
\* What the documentation says and the code does not do.

\* README.md, ManagerConfig.h: the number of threads stays at or above the
\* minimum, a thread that is just being created included.
MinimumKept == running => workerCount >= ThreadsMin
=============================================================================

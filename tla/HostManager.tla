----------------------------- MODULE HostManager -----------------------------
(***************************************************************************)
(* HostManager (manager/src/HostManager.cpp): what happens to a monitoring *)
(* sample between the ingest worker that runs onDataReceived() and the     *)
(* rows of the database.                                                   *)
(*                                                                         *)
(* A sample is its host and its number in the order in which the host's    *)
(* samples are handed over; the ingest threads hand over the samples of    *)
(* one host one at a time (PerKeyOrder of IngestDispatcher).  A rate of    *)
(* change is the number of the earlier sample it was computed against.     *)
(* SetMonitorInfo() turns samples without a host name away, so the host of *)
(* a sample is never empty here.                                           *)
(*                                                                         *)
(* The seven table groups that writeToMysql() fills fall in two kinds: the *)
(* summary row, whose rates onDataReceived() computed, all but that of the *)
(* disk utilisation, and the detail rows (network, soft interrupts, memory,*)
(* disk, MySQL, Redis).  The rates of the detail rows and of the disk      *)
(* utilisation are computed by the writer against the sample that was      *)
(* written before.  Every INSERT may fail by itself; an error is logged    *)
(* and nothing else.                                                       *)
(* The copy of the score that onDataReceived() leaves in Redis is not      *)
(* modelled: nothing reads it, and a failed SETEX is ignored.              *)
(***************************************************************************)
EXTENDS Integers, Sequences, FiniteSets, FiniteSetsExt

CONSTANTS
    Hosts,
    IngestThreads,      \* the ingest workers of the dispatcher
    threadOf,           \* the worker that handles a host
    Writers,            \* mysqlWriteThreads_
    Capacity,           \* task_queue_capacity
    MaxSamples          \* bound on the samples of all hosts together

None == "none"

ASSUME HostAssumption ==
    /\ None \notin Hosts /\ Writers # {}
    /\ threadOf \in [Hosts -> IngestThreads]
    /\ Capacity \in Nat \ {0}
    /\ MaxSamples \in Nat

ASSUME FiniteAssumption ==
    IsFiniteSet(Hosts) /\ IsFiniteSet(IngestThreads) /\ IsFiniteSet(Writers)

VARIABLES
    running,            \* running_
    stopped,            \* stop() has returned
    sweeping,           \* the thread of processLoop() is in its loop
    received,           \* received[h]: samples handed to onDataReceived()
    lastPerf,           \* lastPerfSamples: number of the last sample, 0 for none
    ingest,             \* ingest[s]: position of the thread in onDataReceived()
    hostScores,         \* hostScores_: sample and whether it is at most 60 s old
    mysqlWriteQueue,    \* mysqlWriteQueue_
    writer,             \* writer[w]: position of the thread in mysqlWriteLoop()
    lastDetail,         \* lastDiskUtil, lastNetSamples, lastDiskSamples, ...
    rows,               \* what the INSERTs left in the database
    dropped,            \* metrics_->dropped_monitor_samples
    overflowed,         \* history: newest sample of the host pushed out of the queue
    written, lost       \* history: samples writeToMysql() did, or gave up for want
                        \*   of a connection

vars == <<running, stopped, sweeping, received, lastPerf, ingest, hostScores,
          mysqlWriteQueue, writer, lastDetail, rows, dropped, overflowed, written, lost>>

Data == [host : Hosts, n : Nat, perfBase : Nat]
NoData == [host |-> None, n |-> 0, perfBase |-> 0]
Absent == [n |-> 0, fresh |-> FALSE]

Init ==
    /\ running = TRUE /\ stopped = FALSE /\ sweeping = TRUE
    /\ received = [h \in Hosts |-> 0]
    /\ lastPerf = [h \in Hosts |-> 0]
    /\ ingest = [s \in IngestThreads |-> [pc |-> "idle", data |-> NoData]]
    /\ hostScores = [h \in Hosts |-> Absent]
    /\ mysqlWriteQueue = <<>>
    /\ writer = [w \in Writers |-> [pc |-> "idle", data |-> NoData]]
    /\ lastDetail = [h \in Hosts |-> 0]
    /\ rows = {}
    /\ dropped = 0
    /\ overflowed = [h \in Hosts |-> 0]
    /\ written = 0 /\ lost = 0

-----------------------------------------------------------------------------
(* onDataReceived(), on the ingest thread of the host.                     *)

\* The samples that have been handed over.
HandedOver == {d \in Hosts \X (1 .. MaxSamples) : d[2] <= received[d[1]]}

\* Variant: any ingest thread may get the sample.
AnyThread(s, h) == TRUE

HandledBy(s, h) == s = threadOf[h]

\* The ingest worker enters with the next sample of the host.  main() stops the
\* dispatcher before the HostManager, so nothing comes after stop().
onDataReceived(s, h) ==
    LET n == received[h] + 1 IN
    /\ running
    /\ HandledBy(s, h)
    /\ ingest[s].pc = "idle"
    /\ Cardinality(HandedOver) < MaxSamples
    /\ received' = [received EXCEPT ![h] = n]
    /\ ingest' = [ingest EXCEPT ![s] =
            [pc |-> "resolve", data |-> [host |-> h, n |-> n, perfBase |-> 0]]]
    /\ UNCHANGED <<running, stopped, sweeping, lastPerf, hostScores, mysqlWriteQueue,
                   writer, lastDetail, rows, dropped, overflowed, written, lost>>

\* resolveWorkerScope() fails and the sample is dropped, or the rates against
\* the previous sample are computed and the sample takes its place.
resolveWorkerScope(s) ==
    LET d == ingest[s].data IN
    /\ ingest[s].pc = "resolve"
    /\ \/ /\ dropped' = dropped + 1
          /\ ingest' = [ingest EXCEPT ![s] = [pc |-> "idle", data |-> NoData]]
          /\ UNCHANGED lastPerf
       \/ /\ ingest' = [ingest EXCEPT ![s] =
                [pc |-> "publish", data |-> [d EXCEPT !.perfBase = lastPerf[d.host]]]]
          /\ lastPerf' = [lastPerf EXCEPT ![d.host] = d.n]
          /\ UNCHANGED dropped
    /\ UNCHANGED <<running, stopped, sweeping, received, hostScores, mysqlWriteQueue,
                   writer, lastDetail, rows, overflowed, written, lost>>

\* The score becomes visible in hostScores_.
publishScore(s) ==
    LET d == ingest[s].data IN
    /\ ingest[s].pc = "publish"
    /\ hostScores' = [hostScores EXCEPT ![d.host] = [n |-> d.n, fresh |-> TRUE]]
    /\ ingest' = [ingest EXCEPT ![s].pc = "enqueue"]
    /\ UNCHANGED <<running, stopped, sweeping, received, lastPerf, mysqlWriteQueue, writer,
                   lastDetail, rows, dropped, overflowed, written, lost>>

\* Variant: a full queue loses its newest sample.
MakeRoomAtBack(q) ==
    IF Len(q) >= Capacity THEN SubSeq(q, 1, Len(q) - 1) ELSE q

\* Variant: the queue is not bounded.
MakeNoRoom(q) == q

\* A full queue loses its oldest sample.
MakeRoom(q) == IF Len(q) >= Capacity THEN Tail(q) ELSE q

enqueueMysqlWrite(s) ==
    LET kept == MakeRoom(mysqlWriteQueue)
        gone == Range(mysqlWriteQueue) \ Range(kept)
    IN
    /\ ingest[s].pc = "enqueue"
    /\ mysqlWriteQueue' = Append(kept, ingest[s].data)
    /\ dropped' = IF Len(mysqlWriteQueue) >= Capacity THEN dropped + 1 ELSE dropped
    /\ overflowed' = [h \in Hosts |->
            Max({overflowed[h]} \cup {d.n : d \in {e \in gone : e.host = h}})]
    /\ ingest' = [ingest EXCEPT ![s] = [pc |-> "idle", data |-> NoData]]
    /\ UNCHANGED <<running, stopped, sweeping, received, lastPerf, hostScores, writer,
                   lastDetail, rows, written, lost>>

-----------------------------------------------------------------------------
(* mysqlWriteLoop(): the queue has a mutex of its own; the write that      *)
(* follows is serialised by mysqlWriteMutex_, which the thread takes only  *)
(* after it has let go of the queue.                                       *)

writerPop(w) ==
    /\ writer[w].pc = "idle"
    /\ mysqlWriteQueue # <<>>
    /\ writer' = [writer EXCEPT ![w] = [pc |-> "popped", data |-> Head(mysqlWriteQueue)]]
    /\ mysqlWriteQueue' = Tail(mysqlWriteQueue)
    /\ UNCHANGED <<running, stopped, sweeping, received, lastPerf, ingest, hostScores,
                   lastDetail, rows, dropped, overflowed, written, lost>>

\* Variant: a thread leaves as soon as it sees the flag.
MayLeaveAtOnce == ~running

MayLeave == ~running /\ mysqlWriteQueue = <<>>

writerExit(w) ==
    /\ writer[w].pc = "idle"
    /\ MayLeave
    /\ writer' = [writer EXCEPT ![w].pc = "exited"]
    /\ UNCHANGED <<running, stopped, sweeping, received, lastPerf, ingest, hostScores,
                   mysqlWriteQueue, lastDetail, rows, dropped, overflowed, written, lost>>

\* The rows that a write leaves when its INSERTs succeed.
SummaryRow(d) == [kind |-> "summary", host |-> d.host, n |-> d.n,
                  base |-> d.perfBase, diskBase |-> lastDetail[d.host]]
DetailRow(d) == [kind |-> "detail", host |-> d.host, n |-> d.n, base |-> lastDetail[d.host]]

\* Variant: an exception escapes the loop and ends the thread with it.
ThreadGone == "gone"

AfterWrite == "idle"

\* writeToMysql() under mysqlWriteMutex_.  Without a connection in time the
\* sample is given up.  Otherwise each INSERT succeeds or not, and the sample
\* replaces the one before it in the "last" maps either way.  The check for an
\* empty scope finds none: resolveWorkerScope() lets no sample through without
\* tenant, team and cluster.
writeToMysql(w) ==
    LET d == writer[w].data IN
    /\ writer[w].pc = "popped"
    /\ \/ /\ lost' = lost + 1
          /\ UNCHANGED <<rows, lastDetail, written>>
       \/ /\ \E stored \in SUBSET {SummaryRow(d), DetailRow(d)} : rows' = rows \cup stored
          /\ lastDetail' = [lastDetail EXCEPT ![d.host] = d.n]
          /\ written' = written + 1
          /\ UNCHANGED lost
    /\ writer' = [writer EXCEPT ![w] = [pc |-> AfterWrite, data |-> NoData]]
    /\ UNCHANGED <<running, stopped, sweeping, received, lastPerf, ingest, hostScores,
                   mysqlWriteQueue, dropped, overflowed>>

-----------------------------------------------------------------------------
(* processLoop() and stop().                                               *)

\* A minute passes without a sample of host h.
silence(h) ==
    /\ hostScores[h].fresh
    /\ hostScores' = [hostScores EXCEPT ![h].fresh = FALSE]
    /\ UNCHANGED <<running, stopped, sweeping, received, lastPerf, ingest,
                   mysqlWriteQueue, writer, lastDetail, rows, dropped, overflowed, written,
                   lost>>

IsStale(h) == hostScores[h] # Absent /\ ~hostScores[h].fresh

\* One turn of the loop: every host not updated for more than 60 seconds is
\* removed, then running_ is read again.  One pass may thus follow stop().
processLoop ==
    /\ sweeping
    /\ hostScores' = [h \in Hosts |-> IF IsStale(h) THEN Absent ELSE hostScores[h]]
    /\ sweeping' = running
    /\ UNCHANGED <<running, stopped, received, lastPerf, ingest, mysqlWriteQueue,
                   writer, lastDetail, rows, dropped, overflowed, written, lost>>

\* The dispatcher has been stopped: its ingest threads have run their last task.
stopBegin ==
    /\ running
    /\ \A s \in IngestThreads : ingest[s].pc = "idle"
    /\ running' = FALSE
    /\ UNCHANGED <<stopped, sweeping, received, lastPerf, ingest, hostScores,
                   mysqlWriteQueue, writer, lastDetail, rows, dropped, overflowed, written,
                   lost>>

\* Every thread has been joined.
stopReturn ==
    /\ ~running /\ ~stopped /\ ~sweeping
    /\ \A w \in Writers : writer[w].pc = "exited"
    /\ stopped' = TRUE
    /\ UNCHANGED <<running, sweeping, received, lastPerf, ingest, hostScores,
                   mysqlWriteQueue, writer, lastDetail, rows, dropped, overflowed, written,
                   lost>>

ingestStep(s) == resolveWorkerScope(s) \/ publishScore(s) \/ enqueueMysqlWrite(s)
writerStep(w) == writerPop(w) \/ writerExit(w) \/ writeToMysql(w)

Next ==
    \/ \E s \in IngestThreads : (\E h \in Hosts : onDataReceived(s, h)) \/ ingestStep(s)
    \/ \E w \in Writers : writerStep(w)
    \/ \E h \in Hosts : silence(h)
    \/ processLoop \/ stopBegin \/ stopReturn

Spec == Init /\ [][Next]_vars

\* Threads that can go on do: no call of theirs blocks for ever, since the
\* pool, Redis and MySQL calls all carry timeouts.  Nothing forces samples to
\* arrive or anyone to call stop().
FairSpec ==
    /\ Spec
    /\ \A s \in IngestThreads : WF_vars(ingestStep(s))
    /\ \A w \in Writers : WF_vars(writerStep(w))
    /\ WF_vars(processLoop)
    /\ WF_vars(stopReturn)

-----------------------------------------------------------------------------
(* Properties.                                                             *)

InFlight(thread) == {t \in DOMAIN thread : thread[t].data # NoData}

(* A sample handed over is in exactly one place: with an ingest thread, in *)
(* the write queue, with a writer, written, counted as dropped, or given   *)
(* up by writeToMysql().  None vanishes and none is written twice.         *)
SamplesConserved ==
    Cardinality(HandedOver) =
        Cardinality(InFlight(ingest)) + Len(mysqlWriteQueue) + Cardinality(InFlight(writer))
            + written + dropped + lost

(* The rates that onDataReceived() computes for a summary row are against  *)
(* an earlier sample of its host, and no sample serves as the base of two  *)
(* rows: the lastPerfSamples exchange is right although many threads run   *)
(* it and the writers may store the rows in another order.                 *)
IngestRatesLookBack ==
    LET summary == {r \in rows : r.kind = "summary"} IN
    /\ \A r \in summary : r.base < r.n
    /\ \A r, q \in summary : r.host = q.host /\ r.n # q.n => r.base # q.base

(* The queue stays within task_queue_capacity, and gives up old samples    *)
(* for new ones, never the reverse: what is queued for a host is newer     *)
(* than all that overflow took from it.                                    *)
NewestKept ==
    /\ Len(mysqlWriteQueue) <= Capacity
    /\ \A i \in DOMAIN mysqlWriteQueue :
          mysqlWriteQueue[i].n > overflowed[mysqlWriteQueue[i].host]

(* The score shown for a host in hostScores_ is never replaced by the      *)
(* score of an older sample; it may only disappear, when the host is       *)
(* silent: a sample is published by the thread that took it in.            *)
ScoresNeverRegress ==
    [][\A h \in Hosts : \/ hostScores'[h].n >= hostScores[h].n
                        \/ hostScores'[h] = Absent /\ ~hostScores[h].fresh]_vars

(* When stop() returns, every sample that had been queued has been         *)
(* through writeToMysql(): the writers drain the queue before they leave.  *)
StopDrains == stopped => mysqlWriteQueue = <<>> /\ InFlight(writer) = {}

(* What is queued does not stay: the writers empty the queue again and     *)
(* again, whatever INSERTs or acquisitions fail.                           *)
QueueDrains == []<>(mysqlWriteQueue = <<>>)

(* processLoop() removes a host that has fallen silent, unless a new       *)
(* sample comes or the manager stops first.                                *)
SilentHostRemoved ==
    \A h \in Hosts : (hostScores[h] # Absent /\ ~hostScores[h].fresh)
                        ~> (hostScores[h] = Absent \/ hostScores[h].fresh \/ stopped)

(* Both background loops do their work: what is queued is written, who is  *)
(* silent is removed.                                                      *)
BackgroundWorkDone == QueueDrains /\ SilentHostRemoved

(* README.md of the manager: the lock around writeToMysql() protects the   *)
(* state of the previous round, "because the detailed rates depend on the  *)
(* previous sample of each host, disk and network card".  So the sample    *)
(* that the writer computes a rate against, for a detail row or for the    *)
(* disk utilisation of a summary row, would be earlier than the row's own. *)
WriterRatesLookBack ==
    \A r \in rows : (IF r.kind = "detail" THEN r.base ELSE r.diskBase) < r.n
=============================================================================

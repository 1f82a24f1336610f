-------------------------- MODULE HostManagerProofs --------------------------
(***************************************************************************)
(* For every number of hosts, ingest threads and writers, and every        *)
(* capacity: the rates of the summary rows, what an overflow takes, the    *)
(* scores shown and the drain on stop() of HostManager.                    *)
(***************************************************************************)
EXTENDS HostManager, FiniteSetTheorems, TLAPS

IngestState == [pc : {"idle", "resolve", "publish", "enqueue"}, data : Data \cup {NoData}]
WriterState == [pc : {"idle", "popped", "exited"}, data : Data \cup {NoData}]
Row == [kind : {"summary"}, host : Hosts, n : Nat, base : Nat, diskBase : Nat]
       \cup [kind : {"detail"}, host : Hosts, n : Nat, base : Nat]

\* Types of the state; the queue stays within its capacity.
Types ==
    /\ running \in BOOLEAN /\ stopped \in BOOLEAN
    /\ received \in [Hosts -> Nat] /\ lastPerf \in [Hosts -> Nat]
    /\ overflowed \in [Hosts -> Nat] /\ lastDetail \in [Hosts -> Nat]
    /\ ingest \in [IngestThreads -> IngestState]
    /\ hostScores \in [Hosts -> [n : Nat, fresh : BOOLEAN]]
    /\ mysqlWriteQueue \in Seq(Data) /\ Len(mysqlWriteQueue) <= Capacity
    /\ writer \in [Writers -> WriterState]
    /\ rows \subseteq Row

\* A thread inside onDataReceived() has the newest sample of a host of its own,
\* which replaces the previous one between "resolve" and "publish".
IngestSound ==
    \A s \in IngestThreads : ingest[s].pc # "idle" =>
        LET d == ingest[s].data IN
        /\ d \in Data /\ threadOf[d.host] = s /\ d.n = received[d.host] /\ running
        /\ ingest[s].pc = "resolve" => lastPerf[d.host] < d.n
        /\ ingest[s].pc # "resolve" => lastPerf[d.host] = d.n

\* Nothing is known of a sample that has not been received.
NothingAhead ==
    \A h \in Hosts : /\ lastPerf[h] <= received[h]
                     /\ hostScores[h].n <= received[h]
                     /\ overflowed[h] <= received[h]

\* The samples whose rates have been computed, wherever they are now.
Made ==
    {ingest[s].data : s \in {t \in IngestThreads : ingest[t].pc \in {"publish", "enqueue"}}}
    \cup {mysqlWriteQueue[i] : i \in 1 .. Len(mysqlWriteQueue)}
    \cup {writer[w].data : w \in {v \in Writers : writer[v].pc = "popped"}}
    \cup {[host |-> r.host, n |-> r.n, perfBase |-> r.base] : r \in {q \in rows : q.kind = "summary"}}

\* Their bases lie before them and differ, and none is newer than lastPerf.
RatesSound ==
    /\ \A d \in Made : d \in Data /\ d.perfBase < d.n /\ d.n <= lastPerf[d.host]
    /\ \A d, e \in Made : d.host = e.host /\ d.n # e.n => d.perfBase # e.perfBase

\* The samples of a host are queued in the order of their numbers, above those
\* overflow took and below the one a thread is about to queue.
QueueSorted ==
    /\ \A i \in 1 .. Len(mysqlWriteQueue) :
          /\ mysqlWriteQueue[i].n <= received[mysqlWriteQueue[i].host]
          /\ overflowed[mysqlWriteQueue[i].host] < mysqlWriteQueue[i].n
    /\ \A i, j \in 1 .. Len(mysqlWriteQueue) :
          i < j /\ mysqlWriteQueue[i].host = mysqlWriteQueue[j].host
            => mysqlWriteQueue[i].n < mysqlWriteQueue[j].n
    /\ \A s \in IngestThreads : ingest[s].pc # "idle" =>
          /\ overflowed[ingest[s].data.host] < ingest[s].data.n
          /\ \A i \in 1 .. Len(mysqlWriteQueue) :
                mysqlWriteQueue[i].host = ingest[s].data.host
                  => mysqlWriteQueue[i].n < ingest[s].data.n

\* A writer leaves an empty queue behind, and holds a sample only while it
\* writes it.
Lifecycle ==
    /\ \A w \in Writers :
          /\ writer[w].pc = "exited" => ~running /\ mysqlWriteQueue = <<>>
          /\ IF writer[w].pc = "popped" THEN writer[w].data \in Data ELSE writer[w].data = NoData
    /\ stopped => \A w \in Writers : writer[w].pc = "exited"

HostInv == Types /\ IngestSound /\ NothingAhead /\ RatesSound /\ QueueSorted /\ Lifecycle

-----------------------------------------------------------------------------
\* What the records hold.
LEMMA DataFacts ==
    /\ NoData \notin Data
    /\ \A d \in Data : d.host \in Hosts /\ d.n \in Nat /\ d.perfBase \in Nat
    /\ \A h \in Hosts, n \in Nat, b \in Nat : [host |-> h, n |-> n, perfBase |-> b] \in Data
    BY HostAssumption, Zenon DEF Data, NoData

\* What the queue holds.
LEMMA QueueFacts ==
    ASSUME Types
    PROVE  /\ Len(mysqlWriteQueue) \in Nat
           /\ DOMAIN mysqlWriteQueue = 1 .. Len(mysqlWriteQueue)
           /\ \A i \in 1 .. Len(mysqlWriteQueue) : mysqlWriteQueue[i] \in Data
    BY DEF Types

\* What Head() and Tail() do to the queue.
LEMMA TailFacts ==
    ASSUME NEW S, NEW q \in Seq(S), q # <<>>
    PROVE  /\ Len(q) \in Nat \ {0}
           /\ Head(q) = q[1] /\ q[1] \in S
           /\ Tail(q) \in Seq(S)
           /\ Len(Tail(q)) = Len(q) - 1
           /\ \A i \in 1 .. Len(q) - 1 : Tail(q)[i] = q[i + 1]
    OBVIOUS

\* MakeRoom() leaves room and takes at most the first sample.
LEMMA RoomFacts ==
    ASSUME NEW q \in Seq(Data), Len(q) <= Capacity
    PROVE  \E k \in {0, 1} :
              /\ k <= Len(q)
              /\ MakeRoom(q) \in Seq(Data)
              /\ Len(MakeRoom(q)) = Len(q) - k /\ Len(q) - k < Capacity
              /\ \A i \in 1 .. Len(q) - k : MakeRoom(q)[i] = q[i + k]
              /\ \A d \in Range(q) \ Range(MakeRoom(q)) : k = 1 /\ d = q[1]
<1>0. Capacity \in Nat \ {0} /\ Len(q) \in Nat
    BY HostAssumption
<1>1. CASE Len(q) >= Capacity
  <2>1. q # <<>>
      BY <1>0, <1>1
  <2>2. MakeRoom(q) = Tail(q)
      BY <1>1, Zenon DEF MakeRoom
  <2>3. Tail(q) \in Seq(Data) /\ Len(Tail(q)) = Len(q) - 1 /\ \A i \in 1 .. Len(q) - 1 : Tail(q)[i] = q[i + 1]
      BY <2>1, TailFacts, Zenon
  <2>4. \A d \in Range(q) \ Range(Tail(q)) : d = q[1]
    <3> TAKE d \in Range(q) \ Range(Tail(q))
    <3>1. PICK i \in 1 .. Len(q) : d = q[i]
        BY DEF Range
    <3>2. ASSUME i # 1 PROVE FALSE
      <4>1. i - 1 \in 1 .. Len(q) - 1
          BY <1>0, <3>2
      <4>2. i - 1 \in DOMAIN Tail(q) /\ Tail(q)[i - 1] = d
          BY <1>0, <2>3, <3>1, <4>1
      <4> QED BY <4>2, Zenon DEF Range
    <3> QED BY <3>1, <3>2, Zenon
  <2>5. 1 <= Len(q) /\ Len(q) - 1 < Capacity
      BY <1>0, <1>1
  <2> QED BY <2>2, <2>3, <2>4, <2>5, Zenon
<1>2. CASE ~(Len(q) >= Capacity)
  <2>1. MakeRoom(q) = q /\ Len(q) < Capacity
      BY <1>0, <1>2 DEF MakeRoom
  <2>2. 0 <= Len(q) /\ Len(q) = Len(q) - 0 /\ \A i \in 1 .. Len(q) - 0 : q[i] = q[i + 0]
      BY <1>0
  <2> QED BY <2>1, <2>2, Zenon
<1> QED BY <1>1, <1>2, Zenon

\* The larger of at most two numbers is one of them.
LEMMA MaxFacts ==
    ASSUME NEW a \in Nat, NEW b \in Nat, NEW S, a \in S, S \subseteq {a, b}
    PROVE  Max(S) \in S
<1>1. \E x \in S : \A y \in S : x >= y
    BY b \in S \/ b \notin S, a >= b \/ b >= a
<1> QED BY <1>1, Zenon DEF Max

\* enqueueMysqlWrite(): at most the first sample goes, the new one comes last,
\* and only the first sample's host may have a new number in overflowed.
LEMMA EnqueueFacts ==
    ASSUME Types, NEW s \in IngestThreads, enqueueMysqlWrite(s), ingest[s].data \in Data
    PROVE  \E k \in {0, 1} :
              /\ k <= Len(mysqlWriteQueue)
              /\ mysqlWriteQueue' \in Seq(Data)
              /\ Len(mysqlWriteQueue') = Len(mysqlWriteQueue) - k + 1
              /\ Len(mysqlWriteQueue') <= Capacity
              /\ \A i \in 1 .. Len(mysqlWriteQueue) - k : mysqlWriteQueue'[i] = mysqlWriteQueue[i + k]
              /\ mysqlWriteQueue'[Len(mysqlWriteQueue) - k + 1] = ingest[s].data
              /\ overflowed' \in [Hosts -> Nat]
              /\ \A h \in Hosts :
                    \/ overflowed'[h] = overflowed[h]
                    \/ /\ k = 1 /\ mysqlWriteQueue[1].host = h
                       /\ overflowed'[h] = mysqlWriteQueue[1].n
<1> DEFINE q == mysqlWriteQueue
           kept == MakeRoom(q)
           gone == Range(q) \ Range(kept)
           Seen(h) == {overflowed[h]} \cup {d.n : d \in {e \in gone : e.host = h}}
<1>1. /\ q \in Seq(Data) /\ Len(q) \in Nat /\ Len(q) <= Capacity
      /\ Capacity \in Nat /\ overflowed \in [Hosts -> Nat]
    BY HostAssumption DEF Types
<1>2. mysqlWriteQueue' = Append(kept, ingest[s].data) /\ overflowed' = [h \in Hosts |-> Max(Seen(h))]
    BY Zenon DEF enqueueMysqlWrite
<1>3. PICK k \in {0, 1} :
              /\ k <= Len(q)
              /\ kept \in Seq(Data)
              /\ Len(kept) = Len(q) - k /\ Len(q) - k < Capacity
              /\ \A i \in 1 .. Len(q) - k : kept[i] = q[i + k]
              /\ \A d \in gone : k = 1 /\ d = q[1]
    BY <1>1, RoomFacts, Zenon
<1>4. \A h \in Hosts : /\ Max(Seen(h)) \in Nat
                       /\ \/ Max(Seen(h)) = overflowed[h]
                          \/ k = 1 /\ q[1].host = h /\ Max(Seen(h)) = q[1].n
  <2> TAKE h \in Hosts
  <2>1. CASE \E d \in gone : d.host = h
    <3>1. k = 1 /\ q[1].host = h /\ q[1] \in Data
        BY <1>1, <1>3, <2>1
    <3>2. q[1].n \in Nat /\ overflowed[h] \in Nat
        BY <1>1, <3>1, DataFacts, Zenon
    <3>3. overflowed[h] \in Seen(h) /\ Seen(h) \subseteq {overflowed[h], q[1].n}
        BY <1>3, Zenon
    <3>4. Max(Seen(h)) \in Seen(h)
      <4> HIDE DEF Seen
      <4> QED BY <3>2, <3>3, MaxFacts, Zenon
    <3> QED BY <3>1, <3>2, <3>3, <3>4, Zenon
  <2>2. CASE ~\E d \in gone : d.host = h
    <3>1. overflowed[h] \in Nat /\ overflowed[h] \in Seen(h) /\ Seen(h) \subseteq {overflowed[h], overflowed[h]}
        BY <1>1, <2>2, Zenon
    <3>2. Max(Seen(h)) \in Seen(h)
        BY <3>1, MaxFacts
    <3> QED BY <3>1, <3>2, Zenon
  <2> QED BY <2>1, <2>2, Zenon
<1>5. /\ Append(kept, ingest[s].data) \in Seq(Data)
      /\ Len(Append(kept, ingest[s].data)) = Len(q) - k + 1
      /\ \A i \in 1 .. Len(q) - k : Append(kept, ingest[s].data)[i] = kept[i]
      /\ Append(kept, ingest[s].data)[Len(q) - k + 1] = ingest[s].data
    BY <1>1, <1>3
<1>6. Len(q) - k + 1 <= Capacity
    BY <1>1, <1>3
<1>7. /\ overflowed' \in [Hosts -> Nat]
      /\ \A h \in Hosts :
            \/ overflowed'[h] = overflowed[h]
            \/ k = 1 /\ q[1].host = h /\ overflowed'[h] = q[1].n
    BY <1>2, <1>4, Zenon
<1>8. /\ mysqlWriteQueue' \in Seq(Data) /\ Len(mysqlWriteQueue') = Len(q) - k + 1
      /\ mysqlWriteQueue'[Len(q) - k + 1] = ingest[s].data
    BY <1>2, <1>5, Zenon
<1>9. \A i \in 1 .. Len(q) - k : mysqlWriteQueue'[i] = q[i + k]
    BY <1>2, <1>3, <1>5, Zenon
<1>10. k <= Len(q) /\ Len(mysqlWriteQueue') <= Capacity
    BY <1>3, <1>6, <1>8, Zenon
<1> HIDE DEF q, kept, gone
<1>11. q = mysqlWriteQueue
    BY Zenon DEF q
<1> QED BY <1>7, <1>8, <1>9, <1>10, <1>11, Zenon

-----------------------------------------------------------------------------
\* At the start nothing has been received.
LEMMA HostInit == Init => HostInv
<1> SUFFICES ASSUME Init PROVE HostInv
    BY Zenon
<1> USE HostAssumption DEF Init
<1>1. Types
  <2>1. ingest \in [IngestThreads -> IngestState]
      BY Zenon DEF IngestState
  <2>2. writer \in [Writers -> WriterState]
      BY Zenon DEF WriterState
  <2>3. mysqlWriteQueue \in Seq(Data) /\ Len(mysqlWriteQueue) <= Capacity
      OBVIOUS
  <2>4. hostScores \in [Hosts -> [n : Nat, fresh : BOOLEAN]]
      BY Zenon DEF Absent
  <2>5. /\ received \in [Hosts -> Nat] /\ lastPerf \in [Hosts -> Nat]
        /\ overflowed \in [Hosts -> Nat] /\ lastDetail \in [Hosts -> Nat]
      BY Zenon
  <2>6. running \in BOOLEAN /\ stopped \in BOOLEAN /\ rows \subseteq Row
      BY Zenon
  <2> QED BY <2>1, <2>2, <2>3, <2>4, <2>5, <2>6, Zenon DEF Types
<1>2. IngestSound
    BY Zenon DEF IngestSound
<1>3. NothingAhead
    BY DEF NothingAhead, Absent
<1>4. Made = {}
    BY DEF Made
<1>5. RatesSound
    BY <1>4, Zenon DEF RatesSound
<1>6. QueueSorted
    BY DEF QueueSorted
<1>7. Lifecycle
    BY Zenon DEF Lifecycle
<1> QED BY <1>1, <1>2, <1>3, <1>5, <1>6, <1>7, Zenon DEF HostInv

\* Every action keeps the types and the capacity of the queue.
LEMMA TypesStep == HostInv /\ [Next]_vars => Types'
<1> SUFFICES ASSUME HostInv, [Next]_vars PROVE Types'
    BY Zenon
<1>0. Types /\ IngestSound /\ Lifecycle
    BY Zenon DEF HostInv
<1>1. ASSUME NEW s \in IngestThreads, NEW h \in Hosts, onDataReceived(s, h) PROVE Types'
  <2>1. received[h] + 1 \in Nat /\ [host |-> h, n |-> received[h] + 1, perfBase |-> 0] \in Data
      BY <1>0, DataFacts DEF Types
  <2>2. [pc |-> "resolve", data |-> [host |-> h, n |-> received[h] + 1, perfBase |-> 0]] \in IngestState
      BY <2>1, Zenon DEF IngestState
  <2> QED BY <1>0, <1>1, <2>1, <2>2, Zenon DEF onDataReceived, Types
<1>2. ASSUME NEW s \in IngestThreads, resolveWorkerScope(s) PROVE Types'
  <2> DEFINE d == ingest[s].data
  <2>1. d \in Data /\ d.host \in Hosts /\ d.n \in Nat /\ lastPerf[d.host] \in Nat
      BY <1>0, <1>2, DataFacts, Zenon DEF resolveWorkerScope, IngestSound, Types
  <2>2. [d EXCEPT !.perfBase = lastPerf[d.host]] \in Data
      BY <2>1, Zenon DEF Data
  <2>3. /\ [pc |-> "idle", data |-> NoData] \in IngestState
        /\ [pc |-> "publish", data |-> [d EXCEPT !.perfBase = lastPerf[d.host]]] \in IngestState
      BY <2>2, Zenon DEF IngestState
  <2>4. ingest' \in [IngestThreads -> IngestState]
      BY <1>0, <1>2, <2>3, Zenon DEF resolveWorkerScope, Types
  <2>5. lastPerf' \in [Hosts -> Nat]
      BY <1>0, <1>2, <2>1, Zenon DEF resolveWorkerScope, Types
  <2> QED BY <1>0, <1>2, <2>4, <2>5, Zenon DEF resolveWorkerScope, Types
<1>3. ASSUME NEW s \in IngestThreads, publishScore(s) PROVE Types'
  <2>1. ingest[s].data \in Data /\ ingest[s] \in IngestState
      BY <1>0, <1>3, Zenon DEF publishScore, IngestSound, Types
  <2>2. ingest[s].data.host \in Hosts /\ ingest[s].data.n \in Nat
      BY <2>1, DataFacts, Zenon
  <2>3. [ingest[s] EXCEPT !.pc = "enqueue"] \in IngestState
      BY <2>1, Zenon DEF IngestState
  <2>4. ingest' \in [IngestThreads -> IngestState]
      BY <1>0, <1>3, <2>3, Zenon DEF publishScore, Types
  <2>5. hostScores' \in [Hosts -> [n : Nat, fresh : BOOLEAN]]
      BY <1>0, <1>3, <2>2, Zenon DEF publishScore, Types
  <2> QED BY <1>0, <1>3, <2>4, <2>5, Zenon DEF publishScore, Types
<1>4. ASSUME NEW s \in IngestThreads, enqueueMysqlWrite(s) PROVE Types'
  <2>1. ingest[s].data \in Data
      BY <1>0, <1>4, Zenon DEF enqueueMysqlWrite, IngestSound
  <2>2. /\ mysqlWriteQueue' \in Seq(Data) /\ Len(mysqlWriteQueue') <= Capacity
        /\ overflowed' \in [Hosts -> Nat]
      BY <1>0, <1>4, <2>1, EnqueueFacts, Zenon
  <2>3. ingest' \in [IngestThreads -> IngestState]
      BY <1>0, <1>4, Zenon DEF enqueueMysqlWrite, Types, IngestState
  <2>4. UNCHANGED <<running, stopped, received, lastPerf, lastDetail, hostScores, writer, rows>>
      BY <1>4, Zenon DEF enqueueMysqlWrite
  <2> QED BY <1>0, <2>2, <2>3, <2>4, Zenon DEF Types
<1>5. ASSUME NEW w \in Writers, writerPop(w) PROVE Types'
  <2>1. mysqlWriteQueue \in Seq(Data) /\ mysqlWriteQueue # <<>> /\ Len(mysqlWriteQueue) <= Capacity
      BY <1>0, <1>5, Zenon DEF writerPop, Types
  <2>2. /\ Head(mysqlWriteQueue) \in Data /\ Tail(mysqlWriteQueue) \in Seq(Data)
        /\ Len(Tail(mysqlWriteQueue)) <= Capacity
      BY <2>1, TailFacts, HostAssumption
  <2>3. writer' \in [Writers -> WriterState]
      BY <1>0, <1>5, <2>2, Zenon DEF writerPop, Types, WriterState
  <2> QED BY <1>0, <1>5, <2>2, <2>3, Zenon DEF writerPop, Types
<1>6. ASSUME NEW w \in Writers, writerExit(w) PROVE Types'
  <2>1. writer' \in [Writers -> WriterState]
      BY <1>0, <1>6, Zenon DEF writerExit, Types, WriterState
  <2> QED BY <1>0, <1>6, <2>1, Zenon DEF writerExit, Types
<1>7. ASSUME NEW w \in Writers, writeToMysql(w) PROVE Types'
  <2> DEFINE d == writer[w].data
  <2>1. d \in Data
      BY <1>0, <1>7, Zenon DEF writeToMysql, Lifecycle
  <2>2. d.host \in Hosts /\ d.n \in Nat /\ d.perfBase \in Nat /\ lastDetail[d.host] \in Nat
      BY <1>0, <2>1, DataFacts, Zenon DEF Types
  <2>3. SummaryRow(d) \in Row /\ DetailRow(d) \in Row
      BY <2>2, Zenon DEF SummaryRow, DetailRow, Row
  <2>4. rows' \subseteq Row
      BY <1>0, <1>7, <2>3, Zenon DEF writeToMysql, Types
  <2>5. lastDetail' \in [Hosts -> Nat]
      BY <1>0, <1>7, <2>2, Zenon DEF writeToMysql, Types
  <2>6. writer' \in [Writers -> WriterState]
      BY <1>0, <1>7, Zenon DEF writeToMysql, Types, WriterState, AfterWrite
  <2> QED BY <1>0, <1>7, <2>4, <2>5, <2>6, Zenon DEF writeToMysql, Types
<1>8. ASSUME NEW h \in Hosts, silence(h) PROVE Types'
  <2>1. hostScores' \in [Hosts -> [n : Nat, fresh : BOOLEAN]]
      BY <1>0, <1>8, Zenon DEF silence, Types
  <2> QED BY <1>0, <1>8, <2>1, Zenon DEF silence, Types
<1>9. CASE processLoop
  <2>1. hostScores' \in [Hosts -> [n : Nat, fresh : BOOLEAN]]
      BY <1>0, <1>9, Zenon DEF processLoop, Types, Absent
  <2> QED BY <1>0, <1>9, <2>1, Zenon DEF processLoop, Types
<1>10. CASE stopBegin
    BY <1>0, <1>10, Zenon DEF stopBegin, Types
<1>11. CASE stopReturn
    BY <1>0, <1>11, Zenon DEF stopReturn, Types
<1>12. CASE UNCHANGED vars
    BY <1>0, <1>12, Zenon DEF vars, Types
<1> QED BY <1>1, <1>2, <1>3, <1>4, <1>5, <1>6, <1>7, <1>8, <1>9, <1>10, <1>11, <1>12, Zenon
        DEF Next, ingestStep, writerStep

\* A thread takes only samples of its own hosts, one at a time.
LEMMA IngestStep == HostInv /\ [Next]_vars => IngestSound'
<1> SUFFICES ASSUME HostInv, [Next]_vars, NEW t \in IngestThreads, (ingest[t].pc # "idle")'
             PROVE  LET d == ingest'[t].data IN
                    /\ d \in Data /\ threadOf[d.host] = t /\ d.n = received'[d.host] /\ running'
                    /\ ingest'[t].pc = "resolve" => lastPerf'[d.host] < d.n
                    /\ ingest'[t].pc # "resolve" => lastPerf'[d.host] = d.n
    BY Zenon DEF IngestSound
<1> DEFINE Goal == LET d == ingest'[t].data IN
                    /\ d \in Data /\ threadOf[d.host] = t /\ d.n = received'[d.host] /\ running'
                    /\ ingest'[t].pc = "resolve" => lastPerf'[d.host] < d.n
                    /\ ingest'[t].pc # "resolve" => lastPerf'[d.host] = d.n
<1>0. Types /\ IngestSound /\ NothingAhead
    BY Zenon DEF HostInv
<1>1. ASSUME NEW s \in IngestThreads, NEW h \in Hosts, onDataReceived(s, h) PROVE Goal
  <2> DEFINE new == [host |-> h, n |-> received[h] + 1, perfBase |-> 0]
  <2>1. /\ running /\ running' = running /\ lastPerf' = lastPerf /\ threadOf[h] = s
        /\ received' = [received EXCEPT ![h] = received[h] + 1]
        /\ ingest' = [ingest EXCEPT ![s] = [pc |-> "resolve", data |-> new]]
      BY <1>1, Zenon DEF onDataReceived, HandledBy
  <2>2. received[h] \in Nat /\ lastPerf[h] \in Nat /\ lastPerf[h] <= received[h]
      BY <1>0, Zenon DEF Types, NothingAhead
  <2>5. new \in Data
      BY <2>2, DataFacts
  <2>3. CASE t = s
    <3>1. ingest'[t].data = new /\ ingest'[t].pc = "resolve" /\ received'[h] = received[h] + 1
        BY <1>0, <2>1, <2>3, Zenon DEF Types
    <3> QED BY <2>1, <2>2, <2>3, <2>5, <3>1
  <2>4. CASE t # s
    <3>1. ingest'[t] = ingest[t]
        BY <1>0, <2>1, <2>4, Zenon DEF Types
    <3>2. ingest[t].data.host # h /\ ingest[t].data.host \in Hosts
        BY <1>0, <2>1, <2>4, <3>1, DataFacts, Zenon DEF IngestSound
    <3>3. received'[ingest[t].data.host] = received[ingest[t].data.host]
        BY <1>0, <2>1, <3>2, Zenon DEF Types
    <3> QED BY <1>0, <2>1, <3>1, <3>3 DEF IngestSound
  <2> QED BY <2>3, <2>4, Zenon
<1>2. ASSUME NEW s \in IngestThreads, resolveWorkerScope(s) PROVE Goal
  <2> DEFINE d == ingest[s].data
  <2>1. running' = running /\ received' = received /\ ingest[s].pc = "resolve"
      BY <1>2, Zenon DEF resolveWorkerScope
  <2>2. /\ d \in Data /\ d.host \in Hosts /\ d.n \in Nat /\ lastPerf[d.host] \in Nat
        /\ threadOf[d.host] = s /\ d.n = received[d.host] /\ running
      BY <1>0, <2>1, DataFacts, Zenon DEF IngestSound, Types
  <2>3. CASE t = s
    <3> DEFINE new == [d EXCEPT !.perfBase = lastPerf[d.host]]
    <3>1. ingest' # [ingest EXCEPT ![s] = [pc |-> "idle", data |-> NoData]]
        BY <1>0, <2>3 DEF Types
    <3>2. /\ ingest' = [ingest EXCEPT ![s] = [pc |-> "publish", data |-> new]]
          /\ lastPerf' = [lastPerf EXCEPT ![d.host] = d.n]
        BY <1>2, <3>1, Zenon DEF resolveWorkerScope
    <3>3. new \in Data /\ new.host = d.host /\ new.n = d.n
        BY <2>2, Zenon DEF Data
    <3>4. ingest'[t].data = new /\ ingest'[t].pc = "publish" /\ lastPerf'[d.host] = d.n
        BY <1>0, <2>2, <2>3, <3>2, Zenon DEF Types
    <3> QED BY <2>1, <2>2, <2>3, <3>3, <3>4
  <2>4. CASE t # s
    <3>1. ingest'[t] = ingest[t]
        BY <1>0, <1>2, <2>4, Zenon DEF Types, resolveWorkerScope
    <3>2. ingest[t].data.host # d.host /\ ingest[t].data.host \in Hosts
        BY <1>0, <2>2, <2>4, <3>1, DataFacts, Zenon DEF IngestSound
    <3>3. lastPerf'[ingest[t].data.host] = lastPerf[ingest[t].data.host]
        BY <1>0, <1>2, <3>2, Zenon DEF Types, resolveWorkerScope
    <3> QED BY <1>0, <2>1, <3>1, <3>3 DEF IngestSound
  <2> QED BY <2>3, <2>4, Zenon
<1>3. ASSUME NEW s \in IngestThreads, publishScore(s) PROVE Goal
  <2>1. /\ running' = running /\ received' = received /\ lastPerf' = lastPerf
        /\ ingest[s].pc = "publish" /\ ingest' = [ingest EXCEPT ![s].pc = "enqueue"]
      BY <1>3, Zenon DEF publishScore
  <2>2. /\ ingest'[t].data = ingest[t].data /\ ingest[t].pc # "idle"
        /\ ingest'[t].pc = "resolve" <=> ingest[t].pc = "resolve"
      BY <1>0, <2>1, Zenon DEF Types, IngestState
  <2> QED BY <1>0, <2>1, <2>2, Zenon DEF IngestSound
<1>4. ASSUME NEW s \in IngestThreads, enqueueMysqlWrite(s) PROVE Goal
  <2>1. /\ running' = running /\ received' = received /\ lastPerf' = lastPerf
        /\ ingest' = [ingest EXCEPT ![s] = [pc |-> "idle", data |-> NoData]]
      BY <1>4, Zenon DEF enqueueMysqlWrite
  <2>2. ingest'[t] = ingest[t]
      BY <1>0, <2>1, Zenon DEF Types
  <2> QED BY <1>0, <2>1, <2>2 DEF IngestSound
<1>5. CASE UNCHANGED <<running, received, lastPerf, ingest>>
    BY <1>0, <1>5, Zenon DEF IngestSound
<1>6. CASE stopBegin
    BY <1>6, Zenon DEF stopBegin
<1>7. ASSUME NEW w \in Writers, writerStep(w) PROVE Goal
    BY <1>5, <1>7, Zenon DEF writerStep, writerPop, writerExit, writeToMysql
<1>8. CASE (\E h \in Hosts : silence(h)) \/ processLoop \/ stopReturn \/ UNCHANGED vars
    BY <1>5, <1>8, Zenon DEF silence, processLoop, stopReturn, vars
<1> QED BY <1>1, <1>2, <1>3, <1>4, <1>6, <1>7, <1>8, Zenon DEF Next, ingestStep

\* Neither the scores nor the numbers of past samples run ahead.
LEMMA AheadStep == HostInv /\ [Next]_vars => NothingAhead'
<1> SUFFICES ASSUME HostInv, [Next]_vars, NEW h \in Hosts
             PROVE  /\ lastPerf'[h] <= received'[h]
                    /\ hostScores'[h].n <= received'[h]
                    /\ overflowed'[h] <= received'[h]
    BY Zenon DEF NothingAhead
<1> DEFINE Goal == /\ lastPerf'[h] <= received'[h]
                   /\ hostScores'[h].n <= received'[h]
                   /\ overflowed'[h] <= received'[h]
<1>0. Types /\ IngestSound /\ NothingAhead /\ QueueSorted
    BY Zenon DEF HostInv
<1>a. /\ received[h] \in Nat /\ lastPerf[h] \in Nat /\ hostScores[h].n \in Nat /\ overflowed[h] \in Nat
      /\ lastPerf[h] <= received[h] /\ hostScores[h].n <= received[h] /\ overflowed[h] <= received[h]
    BY <1>0, Zenon DEF Types, NothingAhead
<1>1. ASSUME NEW s \in IngestThreads, NEW g \in Hosts, onDataReceived(s, g) PROVE Goal
  <2>1. /\ lastPerf' = lastPerf /\ hostScores' = hostScores /\ overflowed' = overflowed
        /\ received' = [received EXCEPT ![g] = received[g] + 1]
      BY <1>1, Zenon DEF onDataReceived
  <2>2. received'[h] \in {received[h], received[h] + 1}
      BY <1>0, <2>1, Zenon DEF Types
  <2> QED BY <1>a, <2>1, <2>2
<1>2. ASSUME NEW s \in IngestThreads, resolveWorkerScope(s) PROVE Goal
  <2>1. /\ ingest[s].pc = "resolve" /\ received' = received
        /\ hostScores' = hostScores /\ overflowed' = overflowed
      BY <1>2, Zenon DEF resolveWorkerScope
  <2>2. ingest[s].data.n = received[ingest[s].data.host]
      BY <1>0, <2>1, Zenon DEF IngestSound
  <2>3. lastPerf'[h] \in {lastPerf[h], received[h]}
      BY <1>0, <1>2, <2>2, Zenon DEF resolveWorkerScope, Types
  <2> QED BY <1>a, <2>1, <2>3
<1>3. ASSUME NEW s \in IngestThreads, publishScore(s) PROVE Goal
  <2>1. /\ ingest[s].pc = "publish" /\ received' = received
        /\ lastPerf' = lastPerf /\ overflowed' = overflowed
      BY <1>3, Zenon DEF publishScore
  <2>2. ingest[s].data.n = received[ingest[s].data.host]
      BY <1>0, <2>1, Zenon DEF IngestSound
  <2>3. hostScores'[h].n \in {hostScores[h].n, received[h]}
      BY <1>0, <1>3, <2>2, Zenon DEF publishScore, Types
  <2> QED BY <1>a, <2>1, <2>3
<1>4. ASSUME NEW s \in IngestThreads, enqueueMysqlWrite(s) PROVE Goal
  <2>1. /\ ingest[s].pc = "enqueue" /\ received' = received
        /\ lastPerf' = lastPerf /\ hostScores' = hostScores
      BY <1>4, Zenon DEF enqueueMysqlWrite
  <2>2. ingest[s].data \in Data
      BY <1>0, <2>1, Zenon DEF IngestSound
  <2>3. PICK k \in {0, 1} :
            /\ k <= Len(mysqlWriteQueue)
            /\ \/ overflowed'[h] = overflowed[h]
               \/ k = 1 /\ mysqlWriteQueue[1].host = h /\ overflowed'[h] = mysqlWriteQueue[1].n
      BY <1>0, <1>4, <2>2, EnqueueFacts, Zenon
  <2>4. CASE overflowed'[h] = overflowed[h]
      BY <1>a, <2>1, <2>4, Zenon
  <2>5. CASE k = 1 /\ mysqlWriteQueue[1].host = h /\ overflowed'[h] = mysqlWriteQueue[1].n
    <3>1. 1 \in 1 .. Len(mysqlWriteQueue)
        BY <1>0, <2>3, <2>5, QueueFacts
    <3>2. mysqlWriteQueue[1].n <= received[h]
        BY <1>0, <2>5, <3>1, Zenon DEF QueueSorted
    <3> QED BY <1>a, <2>1, <2>5, <3>2, Zenon
  <2> QED BY <2>3, <2>4, <2>5, Zenon
<1>5. CASE UNCHANGED <<received, lastPerf, overflowed>> /\ hostScores'[h].n \in {hostScores[h].n, 0}
    BY <1>a, <1>5
<1>6. ASSUME NEW g \in Hosts, silence(g) PROVE Goal
  <2>1. hostScores'[h].n = hostScores[h].n
      BY <1>0, <1>6, Zenon DEF silence, Types
  <2> QED BY <1>5, <1>6, <2>1, Zenon DEF silence
<1>7. CASE processLoop
    BY <1>5, <1>7, Zenon DEF processLoop, Absent
<1>8. ASSUME NEW w \in Writers, writerStep(w) PROVE Goal
    BY <1>5, <1>8, Zenon DEF writerStep, writerPop, writerExit, writeToMysql
<1>9. CASE stopBegin \/ stopReturn \/ UNCHANGED vars
    BY <1>5, <1>9, Zenon DEF stopBegin, stopReturn, vars
<1> QED BY <1>1, <1>2, <1>3, <1>4, <1>6, <1>7, <1>8, <1>9, Zenon DEF Next, ingestStep

\* A step that computes no rates keeps what is known of them.
LEMMA RatesKept ==
    ASSUME RatesSound, Made' \subseteq Made, lastPerf' = lastPerf
    PROVE  RatesSound'
<1>1. \A d \in Made' : d \in Data /\ d.perfBase < d.n /\ d.n <= lastPerf'[d.host]
    BY Zenon DEF RatesSound
<1>2. \A d, e \in Made' : d.host = e.host /\ d.n # e.n => d.perfBase # e.perfBase
    BY Zenon DEF RatesSound
<1> QED BY <1>1, <1>2, Zenon DEF RatesSound

\* Only resolveWorkerScope() computes rates, against the newest sample before.
LEMMA RatesStep == HostInv /\ [Next]_vars => RatesSound'
<1> SUFFICES ASSUME HostInv, [Next]_vars PROVE RatesSound'
    OBVIOUS
<1>0. Types /\ IngestSound /\ RatesSound /\ Lifecycle
    BY Zenon DEF HostInv
<1>1. ASSUME NEW s \in IngestThreads, NEW h \in Hosts, onDataReceived(s, h) PROVE RatesSound'
  <2>1. UNCHANGED <<mysqlWriteQueue, writer, rows, lastPerf>>
      BY <1>1, Zenon DEF onDataReceived
  <2>2. \A t \in IngestThreads : ingest'[t].pc \in {"publish", "enqueue"} => ingest'[t] = ingest[t]
      BY <1>0, <1>1, Zenon DEF onDataReceived, Types
  <2>3. Made' \subseteq Made
      BY <2>1, <2>2, Zenon DEF Made
  <2> QED BY <1>0, <2>1, <2>3, RatesKept, Zenon
<1>2. ASSUME NEW s \in IngestThreads, resolveWorkerScope(s) PROVE RatesSound'
  <2> DEFINE d == ingest[s].data
             new == [d EXCEPT !.perfBase = lastPerf[d.host]]
  <2>1. UNCHANGED <<mysqlWriteQueue, writer, rows>> /\ ingest[s].pc = "resolve"
      BY <1>2, Zenon DEF resolveWorkerScope
  <2>2. CASE lastPerf' = lastPerf /\ ingest' = [ingest EXCEPT ![s] = [pc |-> "idle", data |-> NoData]]
    <3>1. \A t \in IngestThreads : ingest'[t].pc \in {"publish", "enqueue"} => ingest'[t] = ingest[t]
        BY <1>0, <2>2, Zenon DEF Types
    <3>2. Made' \subseteq Made
        BY <2>1, <3>1, Zenon DEF Made
    <3> QED BY <1>0, <2>2, <3>2, RatesKept, Zenon
  <2>3. CASE /\ ingest' = [ingest EXCEPT ![s] = [pc |-> "publish", data |-> new]]
             /\ lastPerf' = [lastPerf EXCEPT ![d.host] = d.n]
    <3>1. /\ d \in Data /\ d.host \in Hosts /\ d.n \in Nat /\ lastPerf[d.host] \in Nat
          /\ lastPerf[d.host] < d.n
        BY <1>0, <2>1, DataFacts, Zenon DEF IngestSound, Types
    <3>2. /\ new \in Data /\ new.host = d.host /\ new.n = d.n
          /\ new.perfBase = lastPerf[d.host]
        BY <3>1, Zenon DEF Data
    <3>3. \A t \in IngestThreads : ingest'[t].pc \in {"publish", "enqueue"} =>
              ingest'[t] = ingest[t] \/ ingest'[t].data = new
        BY <1>0, <2>3, Zenon DEF Types
    <3>4. Made' \subseteq Made \cup {new}
        BY <2>1, <3>3, Zenon DEF Made
    <3>5. \A e \in Made : /\ e \in Data /\ e.host \in Hosts /\ e.n \in Nat /\ e.perfBase \in Nat
                          /\ e.perfBase < e.n /\ e.n <= lastPerf[e.host]
                          /\ lastPerf[e.host] \in Nat /\ lastPerf'[e.host] \in Nat
                          /\ lastPerf[e.host] <= lastPerf'[e.host]
      <4> TAKE e \in Made
      <4>1. e \in Data /\ e.perfBase < e.n /\ e.n <= lastPerf[e.host]
          BY <1>0, Zenon DEF RatesSound
      <4>2. e.host \in Hosts /\ e.n \in Nat /\ e.perfBase \in Nat
          BY <4>1, DataFacts, Zenon
      <4>3. lastPerf[e.host] \in Nat /\ lastPerf'[e.host] = IF e.host = d.host THEN d.n ELSE lastPerf[e.host]
          BY <1>0, <2>3, <4>2, Zenon DEF Types
      <4> QED BY <3>1, <4>1, <4>2, <4>3
    <3>6. lastPerf'[new.host] = new.n
        BY <1>0, <2>3, <3>1, <3>2, Zenon DEF Types
    <3>7. \A e \in Made' : e \in Data /\ e.perfBase < e.n /\ e.n <= lastPerf'[e.host]
      <4> HIDE DEF new
      <4> QED BY <3>1, <3>2, <3>4, <3>5, <3>6
    <3>8. \A e \in Made : e.host = new.host => e.perfBase < new.perfBase
      <4> HIDE DEF new
      <4> QED BY <3>1, <3>2, <3>5
    <3>9. \A e, f \in Made : e.host = f.host /\ e.n # f.n => e.perfBase # f.perfBase
        BY <1>0, Zenon DEF RatesSound
    <3>10. \A e, f \in Made' : e.host = f.host /\ e.n # f.n => e.perfBase # f.perfBase
      <4> HIDE DEF new
      <4>1. new.perfBase \in Nat /\ \A e \in Made : e.perfBase \in Nat
          BY <3>1, <3>2, <3>5, Zenon
      <4> QED BY <3>4, <3>8, <3>9, <4>1
    <3> QED BY <3>7, <3>10, Zenon DEF RatesSound
  <2> QED BY <1>2, <2>2, <2>3, Zenon DEF resolveWorkerScope
<1>3. ASSUME NEW s \in IngestThreads, publishScore(s) PROVE RatesSound'
  <2>1. UNCHANGED <<mysqlWriteQueue, writer, rows, lastPerf>>
      BY <1>3, Zenon DEF publishScore
  <2>2. \A t \in IngestThreads : ingest'[t].pc \in {"publish", "enqueue"} =>
            ingest'[t].data = ingest[t].data /\ ingest[t].pc \in {"publish", "enqueue"}
      BY <1>0, <1>3, Zenon DEF publishScore, Types, IngestState
  <2>3. Made' \subseteq Made
      BY <2>1, <2>2 DEF Made
  <2> QED BY <1>0, <2>1, <2>3, RatesKept, Zenon
<1>4. ASSUME NEW s \in IngestThreads, enqueueMysqlWrite(s) PROVE RatesSound'
  <2>1. UNCHANGED <<writer, rows, lastPerf>> /\ ingest[s].pc = "enqueue"
      BY <1>4, Zenon DEF enqueueMysqlWrite
  <2>2. \A t \in IngestThreads : ingest'[t].pc \in {"publish", "enqueue"} => ingest'[t] = ingest[t]
      BY <1>0, <1>4, Zenon DEF enqueueMysqlWrite, Types
  <2>3. ingest[s].data \in Data
      BY <1>0, <2>1, Zenon DEF IngestSound
  <2>4. PICK k \in {0, 1} :
            /\ k <= Len(mysqlWriteQueue)
            /\ Len(mysqlWriteQueue') = Len(mysqlWriteQueue) - k + 1
            /\ \A i \in 1 .. Len(mysqlWriteQueue) - k : mysqlWriteQueue'[i] = mysqlWriteQueue[i + k]
            /\ mysqlWriteQueue'[Len(mysqlWriteQueue) - k + 1] = ingest[s].data
      BY <1>0, <1>4, <2>3, EnqueueFacts
  <2>5. \A i \in 1 .. Len(mysqlWriteQueue') :
            \/ mysqlWriteQueue'[i] = ingest[s].data
            \/ \E j \in 1 .. Len(mysqlWriteQueue) : mysqlWriteQueue'[i] = mysqlWriteQueue[j]
    <3> TAKE i \in 1 .. Len(mysqlWriteQueue')
    <3>0. Len(mysqlWriteQueue) \in Nat
        BY <1>0, QueueFacts, Zenon
    <3>1. CASE i = Len(mysqlWriteQueue) - k + 1
        BY <2>4, <3>1, Zenon
    <3>2. CASE i # Len(mysqlWriteQueue) - k + 1
      <4>1. i \in 1 .. Len(mysqlWriteQueue) - k /\ i + k \in 1 .. Len(mysqlWriteQueue)
          BY <2>4, <3>0, <3>2
      <4> QED BY <2>4, <4>1, Zenon
    <3> QED BY <3>1, <3>2, Zenon
  <2>6. Made' \subseteq Made
      BY <2>1, <2>2, <2>5 DEF Made
  <2> QED BY <1>0, <2>1, <2>6, RatesKept, Zenon
<1>5. ASSUME NEW w \in Writers, writerPop(w) PROVE RatesSound'
  <2>1. UNCHANGED <<ingest, rows, lastPerf>> /\ mysqlWriteQueue # <<>> /\ mysqlWriteQueue \in Seq(Data)
      BY <1>0, <1>5, Zenon DEF writerPop, Types
  <2>2. /\ Len(mysqlWriteQueue) \in Nat \ {0} /\ Head(mysqlWriteQueue) = mysqlWriteQueue[1]
        /\ Len(Tail(mysqlWriteQueue)) = Len(mysqlWriteQueue) - 1
        /\ \A i \in 1 .. Len(mysqlWriteQueue) - 1 : Tail(mysqlWriteQueue)[i] = mysqlWriteQueue[i + 1]
      BY <2>1, TailFacts, Zenon
  <2>3. \A v \in Writers : writer'[v].pc = "popped" =>
            writer'[v] = writer[v] \/ writer'[v].data = mysqlWriteQueue[1]
      BY <1>0, <1>5, <2>2, Zenon DEF writerPop, Types
  <2>4. \A i \in 1 .. Len(mysqlWriteQueue') :
            \E j \in 1 .. Len(mysqlWriteQueue) : mysqlWriteQueue'[i] = mysqlWriteQueue[j]
    <3> TAKE i \in 1 .. Len(mysqlWriteQueue')
    <3>1. mysqlWriteQueue' = Tail(mysqlWriteQueue)
        BY <1>5, Zenon DEF writerPop
    <3>2. i \in 1 .. Len(mysqlWriteQueue) - 1 /\ i + 1 \in 1 .. Len(mysqlWriteQueue)
        BY <2>2, <3>1
    <3> QED BY <2>2, <3>1, <3>2, Zenon
  <2>5. 1 \in 1 .. Len(mysqlWriteQueue)
      BY <2>2
  <2>6. Made' \subseteq Made
      BY <2>1, <2>3, <2>4, <2>5 DEF Made
  <2> QED BY <1>0, <2>1, <2>6, RatesKept, Zenon
<1>6. ASSUME NEW w \in Writers, writerExit(w) PROVE RatesSound'
  <2>1. UNCHANGED <<ingest, mysqlWriteQueue, rows, lastPerf>>
      BY <1>6, Zenon DEF writerExit
  <2>2. \A v \in Writers : writer'[v].pc = "popped" => writer'[v] = writer[v]
      BY <1>0, <1>6, Zenon DEF writerExit, Types, WriterState
  <2>3. Made' \subseteq Made
      BY <2>1, <2>2, Zenon DEF Made
  <2> QED BY <1>0, <2>1, <2>3, RatesKept
<1>7. ASSUME NEW w \in Writers, writeToMysql(w) PROVE RatesSound'
  <2> DEFINE d == writer[w].data
  <2>1. UNCHANGED <<ingest, mysqlWriteQueue, lastPerf>> /\ writer[w].pc = "popped"
      BY <1>7, Zenon DEF writeToMysql
  <2>2. \A v \in Writers : writer'[v].pc = "popped" => writer'[v] = writer[v]
      BY <1>0, <1>7, Zenon DEF writeToMysql, Types, AfterWrite
  <2>3. d \in Data
      BY <1>0, <2>1, Zenon DEF Lifecycle
  <2>4. [host |-> SummaryRow(d).host, n |-> SummaryRow(d).n, perfBase |-> SummaryRow(d).base] = d
      BY <2>3, Zenon DEF SummaryRow, Data
  <2>5. \A r \in rows' : r.kind = "summary" => r \in rows \/ r = SummaryRow(d)
      BY <1>7 DEF writeToMysql, DetailRow
  <2>6. Made' \subseteq Made
      BY <2>1, <2>2, <2>4, <2>5 DEF Made
  <2> QED BY <1>0, <2>1, <2>6, RatesKept, Zenon
<1>8. CASE UNCHANGED <<ingest, mysqlWriteQueue, writer, rows, lastPerf>>
  <2>1. Made' = Made
      BY <1>8, Zenon DEF Made
  <2> QED BY <1>0, <1>8, <2>1, RatesKept, Zenon
<1>9. CASE \/ \E h \in Hosts : silence(h)
           \/ processLoop \/ stopBegin \/ stopReturn \/ UNCHANGED vars
    BY <1>8, <1>9, Zenon DEF silence, processLoop, stopBegin, stopReturn, vars
<1> QED BY <1>1, <1>2, <1>3, <1>4, <1>5, <1>6, <1>7, <1>9, Zenon DEF Next, ingestStep, writerStep

\* The number of the next sample is above those received.
LEMMA BelowNext == \A a, b \in Nat : a <= b => a < b + 1
    OBVIOUS

\* The queue of a host stays sorted, above what overflow took.
LEMMA QueueStep == HostInv /\ [Next]_vars => QueueSorted'
<1> SUFFICES ASSUME HostInv, [Next]_vars PROVE QueueSorted'
    OBVIOUS
<1> DEFINE q == mysqlWriteQueue
<1>0. Types /\ IngestSound /\ NothingAhead /\ QueueSorted
    BY Zenon DEF HostInv
<1>a. /\ Len(q) \in Nat
      /\ \A i \in 1 .. Len(q) : /\ q[i] \in Data /\ q[i].host \in Hosts /\ q[i].n \in Nat
                                /\ received[q[i].host] \in Nat
    BY <1>0, QueueFacts, DataFacts, Zenon DEF Types
<1>b. \A s \in IngestThreads : ingest[s].pc # "idle" =>
          /\ ingest[s].data.host \in Hosts /\ ingest[s].data.n \in Nat
          /\ ingest[s].data.n = received[ingest[s].data.host]
          /\ threadOf[ingest[s].data.host] = s
    BY <1>0, DataFacts, Zenon DEF IngestSound
<1>1. ASSUME NEW s \in IngestThreads, NEW h \in Hosts, onDataReceived(s, h) PROVE QueueSorted'
  <2> DEFINE new == [host |-> h, n |-> received[h] + 1, perfBase |-> 0]
  <2>1. /\ UNCHANGED <<mysqlWriteQueue, overflowed>> /\ threadOf[h] = s
        /\ received' = [received EXCEPT ![h] = received[h] + 1]
        /\ ingest' = [ingest EXCEPT ![s] = [pc |-> "resolve", data |-> new]]
      BY <1>1, Zenon DEF onDataReceived, HandledBy
  <2>2. /\ \A g \in Hosts : received[g] \in Nat /\ received'[g] \in Nat /\ received[g] <= received'[g]
        /\ overflowed[h] \in Nat /\ overflowed[h] <= received[h]
      BY <1>0, <2>1 DEF Types, NothingAhead
  <2>3. \A i \in 1 .. Len(q) : q[i].n <= received'[q[i].host]
    <3> TAKE i \in 1 .. Len(q)
    <3>1. q[i].n <= received[q[i].host]
        BY <1>0, Zenon DEF QueueSorted
    <3> QED BY <1>a, <2>2, <3>1
  <2>4. ASSUME NEW t \in IngestThreads, ingest'[t].pc # "idle"
        PROVE  /\ overflowed[ingest'[t].data.host] < ingest'[t].data.n
               /\ \A i \in 1 .. Len(q) : q[i].host = ingest'[t].data.host => q[i].n < ingest'[t].data.n
    <3>1. CASE t = s
      <4>1. ingest'[t].data.host = h /\ ingest'[t].data.n = received[h] + 1
          BY <1>0, <2>1, <3>1, Zenon DEF Types
      <4>2. \A i \in 1 .. Len(q) : q[i].host = h => q[i].n <= received[h]
          BY <1>0, Zenon DEF QueueSorted
      <4>3. overflowed[h] < received[h] + 1
          BY <2>2, BelowNext, Zenon
      <4>4. \A i \in 1 .. Len(q) : q[i].host = h => q[i].n < received[h] + 1
          BY <1>a, <2>2, <4>2, BelowNext, Zenon
      <4> QED BY <4>1, <4>3, <4>4, Zenon
    <3>2. CASE t # s
      <4>1. ingest'[t] = ingest[t]
          BY <1>0, <2>1, <3>2, Zenon DEF Types
      <4> QED BY <1>0, <2>4, <4>1, Zenon DEF QueueSorted
    <3> QED BY <3>1, <3>2, Zenon
  <2> QED BY <1>0, <2>1, <2>3, <2>4, Zenon DEF QueueSorted
<1>2. ASSUME UNCHANGED <<mysqlWriteQueue, overflowed, received>>,
             \A t \in IngestThreads : ingest'[t].pc # "idle" =>
                 /\ ingest[t].pc # "idle"
                 /\ ingest'[t].data.host = ingest[t].data.host /\ ingest'[t].data.n = ingest[t].data.n
      PROVE  QueueSorted'
  <2>1. \A t \in IngestThreads : ingest'[t].pc # "idle" =>
            /\ overflowed[ingest'[t].data.host] < ingest'[t].data.n
            /\ \A i \in 1 .. Len(q) : q[i].host = ingest'[t].data.host => q[i].n < ingest'[t].data.n
      BY <1>0, <1>2, Zenon DEF QueueSorted
  <2> QED BY <1>0, <1>2, <2>1, Zenon DEF QueueSorted
<1>3. ASSUME NEW s \in IngestThreads, resolveWorkerScope(s) PROVE QueueSorted'
  <2>1. ingest[s].pc = "resolve" /\ ingest[s].data \in Data /\ UNCHANGED <<mysqlWriteQueue, overflowed, received>>
      BY <1>0, <1>3, Zenon DEF resolveWorkerScope, IngestSound
  <2>2. LET new == [ingest[s].data EXCEPT !.perfBase = lastPerf[ingest[s].data.host]]
        IN  new.host = ingest[s].data.host /\ new.n = ingest[s].data.n
      BY <2>1, Zenon DEF Data
  <2>3. \A t \in IngestThreads : ingest'[t].pc # "idle" =>
            /\ ingest[t].pc # "idle"
            /\ ingest'[t].data.host = ingest[t].data.host /\ ingest'[t].data.n = ingest[t].data.n
    <3> SUFFICES ASSUME NEW t \in IngestThreads, ingest'[t].pc # "idle"
                 PROVE  /\ ingest[t].pc # "idle"
                        /\ ingest'[t].data.host = ingest[t].data.host
                        /\ ingest'[t].data.n = ingest[t].data.n
        BY Zenon
    <3> DEFINE new == [ingest[s].data EXCEPT !.perfBase = lastPerf[ingest[s].data.host]]
    <3>1. CASE t # s
      <4>1. ingest'[t] = ingest[t]
          BY <1>0, <1>3, <3>1, Zenon DEF resolveWorkerScope, Types
      <4> QED BY <4>1, Zenon
    <3>2. CASE t = s
      <4>1. ingest' # [ingest EXCEPT ![s] = [pc |-> "idle", data |-> NoData]]
          BY <1>0, <3>2 DEF Types
      <4>2. ingest' = [ingest EXCEPT ![s] = [pc |-> "publish", data |-> new]]
          BY <1>3, <4>1, Zenon DEF resolveWorkerScope
      <4>3. ingest'[s].data = new
          BY <1>0, <4>2, Zenon DEF Types
      <4> QED BY <2>1, <2>2, <3>2, <4>3, Zenon
    <3> QED BY <3>1, <3>2, Zenon
  <2> QED BY <1>2, <2>1, <2>3, Zenon
<1>4. ASSUME NEW s \in IngestThreads, publishScore(s) PROVE QueueSorted'
  <2>1. \A t \in IngestThreads : ingest'[t].data = ingest[t].data /\ (ingest'[t].pc # "idle" => ingest[t].pc # "idle")
      BY <1>0, <1>4, Zenon DEF publishScore, Types, IngestState
  <2> QED BY <1>2, <1>4, <2>1, Zenon DEF publishScore
<1>5. ASSUME NEW s \in IngestThreads, enqueueMysqlWrite(s) PROVE QueueSorted'
  <2> DEFINE d == ingest[s].data
             p == mysqlWriteQueue'
  <2>1. /\ ingest[s].pc = "enqueue" /\ received' = received
        /\ ingest' = [ingest EXCEPT ![s] = [pc |-> "idle", data |-> NoData]]
      BY <1>5, Zenon DEF enqueueMysqlWrite
  <2>2. d \in Data
      BY <1>0, <2>1, Zenon DEF IngestSound
  <2>3. PICK k \in {0, 1} :
            /\ k <= Len(q) /\ Len(p) = Len(q) - k + 1
            /\ \A i \in 1 .. Len(q) - k : p[i] = q[i + k]
            /\ p[Len(q) - k + 1] = d
            /\ overflowed' \in [Hosts -> Nat]
            /\ \A h \in Hosts :
                  overflowed'[h] = overflowed[h] \/ (k = 1 /\ q[1].host = h /\ overflowed'[h] = q[1].n)
      BY <1>0, <1>5, <2>2, EnqueueFacts
  <2>4. /\ d.host \in Hosts /\ d.n \in Nat /\ d.n = received[d.host] /\ threadOf[d.host] = s
        /\ overflowed[d.host] < d.n
        /\ \A i \in 1 .. Len(q) : q[i].host = d.host => q[i].n < d.n
      BY <1>0, <1>b, <2>1, Zenon DEF QueueSorted
  <2>5. \A i \in 1 .. Len(q) - k : i + k \in 1 .. Len(q)
      BY <1>a, <2>3
  <2>6. k = 1 => 1 \in 1 .. Len(q)
      BY <1>a, <2>3
  <2>7. \A i \in 1 .. Len(q) - k : overflowed'[q[i + k].host] < q[i + k].n
    <3> TAKE i \in 1 .. Len(q) - k
    <3>1. i + k \in 1 .. Len(q) /\ q[i + k].host \in Hosts /\ overflowed[q[i + k].host] < q[i + k].n
        BY <1>0, <1>a, <2>5, Zenon DEF QueueSorted
    <3>2. CASE overflowed'[q[i + k].host] = overflowed[q[i + k].host]
        BY <3>1, <3>2, Zenon
    <3>3. CASE k = 1 /\ q[1].host = q[i + k].host /\ overflowed'[q[i + k].host] = q[1].n
      <4>1. 1 < i + k
          BY <3>3
      <4>2. q[1].n < q[i + k].n
          BY <1>0, <2>6, <3>1, <3>3, <4>1, Zenon DEF QueueSorted
      <4> QED BY <3>3, <4>2, Zenon
    <3> QED BY <2>3, <3>1, <3>2, <3>3, Zenon
  <2>8. overflowed'[d.host] < d.n
    <3>1. CASE overflowed'[d.host] = overflowed[d.host]
        BY <2>4, <3>1, Zenon
    <3>2. CASE k = 1 /\ q[1].host = d.host /\ overflowed'[d.host] = q[1].n
        BY <2>4, <2>6, <3>2, Zenon
    <3> QED BY <2>3, <2>4, <3>1, <3>2, Zenon
  <2>9. \A i \in 1 .. Len(p) : i \in 1 .. Len(q) - k \/ i = Len(q) - k + 1
      BY <1>a, <2>3
  <2>10. \A i \in 1 .. Len(p) : p[i].n <= received[p[i].host] /\ overflowed'[p[i].host] < p[i].n
    <3> TAKE i \in 1 .. Len(p)
    <3>1. CASE i \in 1 .. Len(q) - k
      <4>1. p[i] = q[i + k] /\ i + k \in 1 .. Len(q)
          BY <2>3, <2>5, <3>1, Zenon
      <4>2. q[i + k].n <= received[q[i + k].host]
          BY <1>0, <4>1, Zenon DEF QueueSorted
      <4> QED BY <2>7, <3>1, <4>1, <4>2, Zenon
    <3>2. CASE i = Len(q) - k + 1
      <4>1. p[i] = d
          BY <2>3, <3>2, Zenon
      <4> QED BY <2>4, <2>8, <4>1
    <3> QED BY <2>9, <3>1, <3>2, Zenon
  <2>11. ASSUME NEW i \in 1 .. Len(p), NEW j \in 1 .. Len(p), i < j, p[i].host = p[j].host
         PROVE  p[i].n < p[j].n
    <3>1. i \in 1 .. Len(q) - k
        BY <1>a, <2>3, <2>11
    <3>2. p[i] = q[i + k] /\ i + k \in 1 .. Len(q)
        BY <2>3, <2>5, <3>1, Zenon
    <3>3. CASE j \in 1 .. Len(q) - k
      <4>1. p[j] = q[j + k] /\ j + k \in 1 .. Len(q) /\ i + k < j + k
          BY <2>3, <2>5, <2>11, <3>3
      <4> QED BY <1>0, <2>11, <3>2, <4>1, Zenon DEF QueueSorted
    <3>4. CASE j = Len(q) - k + 1
        BY <2>3, <2>4, <2>11, <3>2, <3>4
    <3> QED BY <2>9, <3>3, <3>4, Zenon
  <2>12. ASSUME NEW t \in IngestThreads, ingest'[t].pc # "idle"
         PROVE  /\ overflowed'[ingest'[t].data.host] < ingest'[t].data.n
                /\ \A i \in 1 .. Len(p) : p[i].host = ingest'[t].data.host => p[i].n < ingest'[t].data.n
    <3> DEFINE e == ingest[t].data
    <3>1. t # s /\ ingest'[t] = ingest[t]
        BY <1>0, <2>1, <2>12, Zenon DEF Types
    <3>2. /\ e.host \in Hosts /\ e.host # d.host /\ overflowed[e.host] < e.n
          /\ \A i \in 1 .. Len(q) : q[i].host = e.host => q[i].n < e.n
        BY <1>0, <1>b, <2>4, <2>12, <3>1, Zenon DEF QueueSorted
    <3>3. overflowed'[e.host] < e.n
      <4>1. CASE overflowed'[e.host] = overflowed[e.host]
          BY <3>2, <4>1, Zenon
      <4>2. CASE k = 1 /\ q[1].host = e.host /\ overflowed'[e.host] = q[1].n
          BY <2>6, <3>2, <4>2, Zenon
      <4> QED BY <2>3, <3>2, <4>1, <4>2, Zenon
    <3>4. ASSUME NEW i \in 1 .. Len(p), p[i].host = e.host PROVE p[i].n < e.n
      <4>1. i \in 1 .. Len(q) - k
          BY <2>3, <2>9, <3>2, <3>4, Zenon
      <4>2. p[i] = q[i + k] /\ i + k \in 1 .. Len(q)
          BY <2>3, <2>5, <4>1, Zenon
      <4>3. q[i + k].host = e.host
          BY <3>4, <4>2, Zenon
      <4> QED BY <3>2, <4>2, <4>3, Zenon
    <3> QED BY <3>1, <3>3, <3>4, Zenon
  <2> QED BY <2>1, <2>10, <2>11, <2>12, Zenon DEF QueueSorted
<1>6. ASSUME NEW w \in Writers, writerPop(w) PROVE QueueSorted'
  <2> DEFINE p == mysqlWriteQueue'
  <2>1. UNCHANGED <<ingest, received, overflowed>> /\ q # <<>> /\ q \in Seq(Data) /\ p = Tail(q)
      BY <1>0, <1>6, Zenon DEF writerPop, Types
  <2>2. Len(q) \in Nat \ {0} /\ Len(p) = Len(q) - 1 /\ \A i \in 1 .. Len(q) - 1 : p[i] = q[i + 1]
      BY <2>1, TailFacts, Zenon
  <2>3. \A i \in 1 .. Len(p) : i + 1 \in 1 .. Len(q) /\ p[i] = q[i + 1]
    <3> HIDE DEF p, q
    <3> TAKE i \in 1 .. Len(p)
    <3>1. Len(q) \in Nat /\ Len(p) = Len(q) - 1
        BY <2>2, Zenon
    <3>2. i \in 1 .. Len(q) - 1 /\ i + 1 \in 1 .. Len(q)
        BY <3>1
    <3> QED BY <2>2, <3>2, Zenon
  <2>4. \A i \in 1 .. Len(p) : p[i].n <= received[p[i].host] /\ overflowed[p[i].host] < p[i].n
      BY <1>0, <2>3, Zenon DEF QueueSorted
  <2>5. \A i, j \in 1 .. Len(p) : i < j /\ p[i].host = p[j].host => p[i].n < p[j].n
    <3> SUFFICES ASSUME NEW i \in 1 .. Len(p), NEW j \in 1 .. Len(p), i < j, p[i].host = p[j].host
                 PROVE  p[i].n < p[j].n
        BY Zenon
    <3>1. i + 1 < j + 1
        BY <2>2
    <3> QED BY <1>0, <2>3, <3>1, Zenon DEF QueueSorted
  <2>6. \A t \in IngestThreads : ingest[t].pc # "idle" =>
            /\ overflowed[ingest[t].data.host] < ingest[t].data.n
            /\ \A i \in 1 .. Len(p) : p[i].host = ingest[t].data.host => p[i].n < ingest[t].data.n
      BY <1>0, <2>3, Zenon DEF QueueSorted
  <2> QED BY <2>1, <2>4, <2>5, <2>6, Zenon DEF QueueSorted
<1>7. CASE UNCHANGED <<mysqlWriteQueue, overflowed, received, ingest>>
    BY <1>2, <1>7, Zenon
<1>8. ASSUME NEW w \in Writers, writerExit(w) \/ writeToMysql(w) PROVE QueueSorted'
    BY <1>7, <1>8, Zenon DEF writerExit, writeToMysql
<1>9. CASE \/ \E h \in Hosts : silence(h)
           \/ processLoop \/ stopBegin \/ stopReturn \/ UNCHANGED vars
    BY <1>7, <1>9, Zenon DEF silence, processLoop, stopBegin, stopReturn, vars
<1> QED BY <1>1, <1>3, <1>4, <1>5, <1>6, <1>8, <1>9, Zenon DEF Next, ingestStep, writerStep

\* Nothing is queued once a writer has left, because stop() comes after the
\* last sample.
LEMMA LifecycleStep == HostInv /\ [Next]_vars => Lifecycle'
<1> SUFFICES ASSUME HostInv, [Next]_vars PROVE Lifecycle'
    OBVIOUS
<1>0. Types /\ IngestSound /\ Lifecycle
    BY DEF HostInv
<1>1. CASE UNCHANGED <<running, mysqlWriteQueue, writer, stopped>>
    BY <1>0, <1>1, Zenon DEF Lifecycle
<1>2. ASSUME NEW s \in IngestThreads, NEW h \in Hosts, onDataReceived(s, h) PROVE Lifecycle'
    BY <1>1, <1>2, Zenon DEF onDataReceived
<1>3. ASSUME NEW s \in IngestThreads, resolveWorkerScope(s) \/ publishScore(s) PROVE Lifecycle'
    BY <1>1, <1>3, Zenon DEF resolveWorkerScope, publishScore
<1>4. ASSUME NEW s \in IngestThreads, enqueueMysqlWrite(s) PROVE Lifecycle'
  <2>1. UNCHANGED <<running, writer, stopped>> /\ running
      BY <1>0, <1>4, Zenon DEF enqueueMysqlWrite, IngestSound
  <2>2. \A w \in Writers : writer[w].pc # "exited"
      BY <1>0, <2>1, Zenon DEF Lifecycle
  <2> QED BY <1>0, <2>1, <2>2, Zenon DEF Lifecycle
<1>5. ASSUME NEW w \in Writers, writerPop(w) PROVE Lifecycle'
  <2>1. /\ UNCHANGED <<running, stopped>> /\ mysqlWriteQueue # <<>> /\ mysqlWriteQueue \in Seq(Data)
        /\ writer' = [writer EXCEPT ![w] = [pc |-> "popped", data |-> Head(mysqlWriteQueue)]]
      BY <1>0, <1>5, Zenon DEF writerPop, Types
  <2>2. Head(mysqlWriteQueue) \in Data
      BY <2>1, TailFacts, Zenon
  <2>3. \A v \in Writers : writer[v].pc # "exited"
      BY <1>0, <2>1, Zenon DEF Lifecycle
  <2>4. ~stopped
      BY <1>0, <2>3, Zenon DEF Lifecycle
  <2>5. \A v \in Writers :
            /\ writer'[v].pc # "exited"
            /\ IF writer'[v].pc = "popped" THEN writer'[v].data \in Data ELSE writer'[v].data = NoData
      BY <1>0, <2>1, <2>2, <2>3, Zenon DEF Types, Lifecycle
  <2> QED BY <2>1, <2>4, <2>5, Zenon DEF Lifecycle
<1>6. ASSUME NEW w \in Writers, writerExit(w) PROVE Lifecycle'
  <2>1. /\ UNCHANGED <<running, stopped, mysqlWriteQueue>> /\ ~running /\ mysqlWriteQueue = <<>>
        /\ writer[w].pc = "idle" /\ writer' = [writer EXCEPT ![w].pc = "exited"]
      BY <1>6, Zenon DEF writerExit, MayLeave
  <2>2. \A v \in Writers :
            /\ IF writer'[v].pc = "popped" THEN writer'[v].data \in Data ELSE writer'[v].data = NoData
            /\ writer[v].pc = "exited" => writer'[v].pc = "exited"
      BY <1>0, <2>1, Zenon DEF Types, WriterState, Lifecycle
  <2> QED BY <1>0, <2>1, <2>2, Zenon DEF Lifecycle
<1>7. ASSUME NEW w \in Writers, writeToMysql(w) PROVE Lifecycle'
  <2>1. /\ UNCHANGED <<running, stopped, mysqlWriteQueue>> /\ writer[w].pc = "popped"
        /\ writer' = [writer EXCEPT ![w] = [pc |-> "idle", data |-> NoData]]
      BY <1>7, Zenon DEF writeToMysql, AfterWrite
  <2>2. \A v \in Writers :
            /\ IF writer'[v].pc = "popped" THEN writer'[v].data \in Data ELSE writer'[v].data = NoData
            /\ writer'[v].pc = "exited" <=> writer[v].pc = "exited"
      BY <1>0, <2>1, Zenon DEF Types, Lifecycle
  <2> QED BY <1>0, <2>1, <2>2, Zenon DEF Lifecycle
<1>8. CASE stopBegin
  <2>1. running /\ ~running' /\ UNCHANGED <<mysqlWriteQueue, writer, stopped>>
      BY <1>8, Zenon DEF stopBegin
  <2> QED BY <1>0, <2>1, Zenon DEF Lifecycle
<1>9. CASE stopReturn
  <2>1. UNCHANGED <<running, mysqlWriteQueue, writer>> /\ \A w \in Writers : writer[w].pc = "exited"
      BY <1>9, Zenon DEF stopReturn
  <2> QED BY <1>0, <2>1, Zenon DEF Lifecycle
<1>10. CASE (\E h \in Hosts : silence(h)) \/ processLoop \/ UNCHANGED vars
    BY <1>1, <1>10, Zenon DEF silence, processLoop, vars
<1> QED BY <1>2, <1>3, <1>4, <1>5, <1>6, <1>7, <1>8, <1>9, <1>10, Zenon DEF Next, ingestStep, writerStep

-----------------------------------------------------------------------------
\* The invariant of HostManager, on which the theorems rest.
THEOREM HostInvHolds == Spec => []HostInv
<1>1. HostInv /\ [Next]_vars => HostInv'
    BY TypesStep, IngestStep, AheadStep, RatesStep, QueueStep, LifecycleStep, Zenon DEF HostInv
<1> QED BY HostInit, <1>1, PTL DEF Spec

\* Whatever threads compute rates side by side, the rates that onDataReceived()
\* gives a summary row look back, and no two rows of a host share their base.
THEOREM RatesHold == Spec => []IngestRatesLookBack
<1>1. HostInv => IngestRatesLookBack
  <2> SUFFICES ASSUME HostInv PROVE IngestRatesLookBack
      BY Zenon
  <2> DEFINE made(r) == [host |-> r.host, n |-> r.n, perfBase |-> r.base]
             summary == {r \in rows : r.kind = "summary"}
  <2>1. \A r \in summary : made(r) \in Made
      BY Zenon DEF Made
  <2>2. RatesSound
      BY Zenon DEF HostInv
  <2>3. \A r \in summary : r.base < r.n
      BY <2>1, <2>2, Zenon DEF RatesSound
  <2>4. \A r, q \in summary : r.host = q.host /\ r.n # q.n => r.base # q.base
      BY <2>1, <2>2, Zenon DEF RatesSound
  <2> QED BY <2>3, <2>4, Zenon DEF IngestRatesLookBack
<1> QED BY <1>1, HostInvHolds, PTL

\* An overflow of the write queue costs a host its oldest samples, and the
\* queue never outgrows its capacity.
THEOREM NewestHolds == Spec => []NewestKept
<1>1. HostInv => NewestKept
  <2> SUFFICES ASSUME HostInv PROVE NewestKept
      OBVIOUS
  <2>1. Types /\ QueueSorted
      BY Zenon DEF HostInv
  <2>2. Len(mysqlWriteQueue) <= Capacity
      BY <2>1, Zenon DEF Types
  <2>3. \A i \in DOMAIN mysqlWriteQueue :
            /\ mysqlWriteQueue[i].n \in Nat
            /\ overflowed[mysqlWriteQueue[i].host] \in Nat
            /\ overflowed[mysqlWriteQueue[i].host] < mysqlWriteQueue[i].n
      BY <2>1, QueueFacts, DataFacts, Zenon DEF Types, QueueSorted
  <2> QED BY <2>2, <2>3, Zenon DEF NewestKept
<1> QED BY <1>1, HostInvHolds, PTL

\* When stop() has returned, the writers have written all that was queued.
THEOREM DrainHolds == Spec => []StopDrains
<1>1. HostInv => StopDrains
  <2> SUFFICES ASSUME HostInv, stopped PROVE mysqlWriteQueue = <<>> /\ InFlight(writer) = {}
      BY Zenon DEF StopDrains
  <2>1. Lifecycle /\ DOMAIN writer = Writers
      BY Zenon DEF HostInv, Types
  <2>2. \A w \in Writers : mysqlWriteQueue = <<>> /\ writer[w].data = NoData
      BY <2>1, Zenon DEF Lifecycle
  <2> QED BY <2>1, <2>2, HostAssumption, Zenon DEF InFlight
<1> QED BY <1>1, HostInvHolds, PTL

\* hostScores_ never goes back to an older sample of a host, however the
\* ingest threads and processLoop() interleave.
THEOREM ScoresHold == Spec => ScoresNeverRegress
<1> DEFINE Forward == \A h \in Hosts : \/ hostScores'[h].n >= hostScores[h].n
                                       \/ hostScores'[h] = Absent /\ ~hostScores[h].fresh
<1>1. HostInv /\ [Next]_vars => [Forward]_vars
  <2> SUFFICES ASSUME HostInv, Next, NEW h \in Hosts
               PROVE  \/ hostScores'[h].n >= hostScores[h].n
                      \/ hostScores'[h] = Absent /\ ~hostScores[h].fresh
      BY Zenon
  <2> DEFINE Goal == \/ hostScores'[h].n >= hostScores[h].n
                     \/ hostScores'[h] = Absent /\ ~hostScores[h].fresh
  <2>0. /\ Types /\ IngestSound /\ hostScores[h].n \in Nat
        /\ received[h] \in Nat /\ hostScores[h].n <= received[h]
      BY Zenon DEF HostInv, Types, NothingAhead
  <2>1. CASE hostScores' = hostScores
      BY <2>0, <2>1
  <2>2. ASSUME NEW s \in IngestThreads, publishScore(s) PROVE Goal
    <3>1. ingest[s].data.n = received[ingest[s].data.host]
        BY <2>0, <2>2, Zenon DEF publishScore, IngestSound
    <3>2. hostScores'[h].n \in {hostScores[h].n, received[h]}
        BY <2>0, <2>2, <3>1, Zenon DEF publishScore, Types
    <3> QED BY <2>0, <3>2
  <2>3. ASSUME NEW g \in Hosts, silence(g) PROVE Goal
    <3>1. hostScores'[h].n = hostScores[h].n
        BY <2>0, <2>3, Zenon DEF silence, Types
    <3> QED BY <2>0, <3>1
  <2>4. CASE processLoop
    <3>1. hostScores'[h] = IF IsStale(h) THEN Absent ELSE hostScores[h]
        BY <2>4, Zenon DEF processLoop
    <3> QED BY <2>0, <3>1 DEF IsStale
  <2>5. ASSUME NEW s \in IngestThreads, \/ \E g \in Hosts : onDataReceived(s, g)
                                        \/ resolveWorkerScope(s) \/ enqueueMysqlWrite(s)
        PROVE  hostScores' = hostScores
      BY <2>5, Zenon DEF onDataReceived, resolveWorkerScope, enqueueMysqlWrite
  <2>6. ASSUME NEW w \in Writers, writerStep(w) PROVE hostScores' = hostScores
      BY <2>6, Zenon DEF writerStep, writerPop, writerExit, writeToMysql
  <2>7. stopBegin \/ stopReturn => hostScores' = hostScores
      BY Zenon DEF stopBegin, stopReturn
  <2> QED BY <2>1, <2>2, <2>3, <2>4, <2>5, <2>6, <2>7, Zenon DEF Next, ingestStep
<1>2. [][Forward]_vars => ScoresNeverRegress
    BY Zenon DEF ScoresNeverRegress
<1> QED BY <1>1, <1>2, HostInvHolds, PTL DEF Spec

-----------------------------------------------------------------------------
\* What the count of samples in one place or another needs besides HostInv: an
\* idle ingest thread holds no sample, and no host is past the bound.
Settled ==
    /\ written \in Nat /\ dropped \in Nat /\ lost \in Nat
    /\ \A s \in IngestThreads : ingest[s].pc = "idle" => ingest[s].data = NoData
    /\ \A h \in Hosts : received[h] <= MaxSamples

\* A thread takes a sample, or lets go of it, and the others keep theirs.
LEMMA OneThread ==
    ASSUME NEW T, IsFiniteSet(T), NEW f, DOMAIN f = T, NEW g, DOMAIN g = T, NEW t \in T,
           \A u \in T : u # t => g[u] = f[u]
    PROVE  /\ Cardinality(InFlight(f)) \in Nat
           /\ f[t].data = NoData /\ g[t].data # NoData
                => Cardinality(InFlight(g)) = Cardinality(InFlight(f)) + 1
           /\ f[t].data # NoData /\ g[t].data = NoData
                => Cardinality(InFlight(g)) = Cardinality(InFlight(f)) - 1
           /\ (f[t].data = NoData <=> g[t].data = NoData)
                => Cardinality(InFlight(g)) = Cardinality(InFlight(f))
<1>1. IsFiniteSet(InFlight(f)) /\ Cardinality(InFlight(f)) \in Nat
    BY FS_Subset, FS_CardinalityType, Zenon DEF InFlight
<1>2. ASSUME f[t].data = NoData, g[t].data # NoData
      PROVE  Cardinality(InFlight(g)) = Cardinality(InFlight(f)) + 1
  <2>1. InFlight(g) = InFlight(f) \cup {t} /\ t \notin InFlight(f)
      BY <1>2 DEF InFlight
  <2> QED BY <1>1, <2>1, FS_AddElement, Zenon
<1>3. ASSUME f[t].data # NoData, g[t].data = NoData
      PROVE  Cardinality(InFlight(g)) = Cardinality(InFlight(f)) - 1
  <2>1. InFlight(g) = InFlight(f) \ {t} /\ t \in InFlight(f)
      BY <1>3, Zenon DEF InFlight
  <2> QED BY <1>1, <2>1, FS_RemoveElement, Zenon
<1>4. ASSUME f[t].data = NoData <=> g[t].data = NoData
      PROVE  Cardinality(InFlight(g)) = Cardinality(InFlight(f))
  <2>1. InFlight(g) = InFlight(f)
      BY <1>4, Zenon DEF InFlight
  <2> QED BY <2>1, Zenon
<1> QED BY <1>1, <1>2, <1>3, <1>4, Zenon

\* The samples handed over are finitely many, and one host alone has no more.
LEMMA HandedOverFacts ==
    ASSUME Types, Settled
    PROVE  /\ IsFiniteSet(HandedOver) /\ Cardinality(HandedOver) \in Nat
           /\ \A h \in Hosts : received[h] <= Cardinality(HandedOver)
<1>1. IsFiniteSet(HandedOver)
  <2>1. 1 \in Int /\ MaxSamples \in Int
      BY HostAssumption
  <2>2. IsFiniteSet(Hosts \X (1 .. MaxSamples))
      BY <2>1, FiniteAssumption, FS_Interval, FS_Product, Zenon
  <2> QED BY <2>2, FS_Subset, Zenon DEF HandedOver
<1>2. ASSUME NEW h \in Hosts PROVE received[h] <= Cardinality(HandedOver)
  <2> DEFINE own == {h} \X (1 .. received[h])
  <2>1. received[h] \in Nat /\ received[h] <= MaxSamples /\ 1 \in Int /\ MaxSamples \in Nat
      BY HostAssumption DEF Types, Settled
  <2>2. IsFiniteSet({h}) /\ Cardinality({h}) = 1
      BY FS_Singleton, Zenon
  <2>3. IsFiniteSet(1 .. received[h]) /\ Cardinality(1 .. received[h]) = received[h]
    <3>1. received[h] \in Int
        BY <2>1
    <3>2. IsFiniteSet(1 .. received[h])
            /\ Cardinality(1 .. received[h]) = IF 1 > received[h] THEN 0 ELSE received[h] - 1 + 1
        BY <2>1, <3>1, FS_Interval, Zenon
    <3> QED BY <2>1, <3>2
  <2>4. Cardinality(own) = received[h]
    <3>1. Cardinality(own) = Cardinality({h}) * Cardinality(1 .. received[h])
        BY <2>2, <2>3, FS_Product, Zenon
    <3>2. 1 * received[h] = received[h]
        BY <2>1
    <3> QED BY <2>2, <2>3, <3>1, <3>2, Zenon
  <2>5. own \subseteq HandedOver
    <3> SUFFICES ASSUME NEW n \in 1 .. received[h] PROVE <<h, n>> \in HandedOver
        OBVIOUS
    <3> QED BY <2>1 DEF HandedOver
  <2>6. Cardinality(own) <= Cardinality(HandedOver)
      BY <1>1, <2>5, FS_Subset, Zenon
  <2> HIDE DEF own
  <2> QED BY <2>1, <2>4, <2>6, Zenon
<1> QED BY <1>1, <1>2, FS_CardinalityType, Zenon

\* One more sample of a host.
LEMMA OneMore ==
    ASSUME Types, NEW h \in Hosts, received[h] < MaxSamples, IsFiniteSet(HandedOver),
           received' = [received EXCEPT ![h] = received[h] + 1]
    PROVE  Cardinality(HandedOver') = Cardinality(HandedOver) + 1
<1> DEFINE c == <<h, received[h] + 1>>
<1>1. received[h] \in Nat /\ received' \in [Hosts -> Nat] /\ MaxSamples \in Nat
    BY HostAssumption DEF Types
<1>2. c \in Hosts \X (1 .. MaxSamples) /\ c[1] = h /\ c[2] = received[h] + 1
    BY <1>1
<1>3. \A d \in Hosts \X (1 .. MaxSamples) :
        d[2] <= received'[d[1]] <=> d[2] <= received[d[1]] \/ d = c
  <2> SUFFICES ASSUME NEW i \in Hosts, NEW n \in 1 .. MaxSamples
               PROVE  n <= received'[i] <=> n <= received[i] \/ (i = h /\ n = received[h] + 1)
      OBVIOUS
  <2> QED BY <1>1 DEF Types
<1> HIDE DEF c
<1>4. HandedOver' = HandedOver \cup {c} /\ c \notin HandedOver
    BY <1>1, <1>2, <1>3 DEF HandedOver
<1> QED BY <1>4, FS_AddElement, Zenon

\* The samples with the ingest threads and with the writers.
Ingesting == Cardinality(InFlight(ingest))
Writing == Cardinality(InFlight(writer))
Queued == Len(mysqlWriteQueue)
Received == Cardinality(HandedOver)

\* SamplesConserved in these terms, before and after a step.
LEMMA Conservation ==
    /\ SamplesConserved <=> Received = Ingesting + Queued + Writing + written + dropped + lost
    /\ SamplesConserved' <=>
          Received' = Ingesting' + Queued' + Writing' + written' + dropped' + lost'
BY Zenon DEF SamplesConserved, InFlight, Ingesting, Writing, Queued, Received

\* Every step keeps Settled.
LEMMA SettledStep == HostInv /\ Settled /\ [Next]_vars => Settled'
<1> SUFFICES ASSUME HostInv, Settled, [Next]_vars PROVE Settled'
    BY Zenon
<1>1. Types /\ IngestSound
    BY Zenon DEF HostInv
<1>2. ASSUME NEW s \in IngestThreads, NEW h \in Hosts, onDataReceived(s, h) PROVE Settled'
  <2>1. received[h] < MaxSamples
    <3>1. received[h] \in Nat /\ MaxSamples \in Nat
        BY <1>1, HostAssumption, Zenon DEF Types
    <3>2. received[h] <= Cardinality(HandedOver) /\ Cardinality(HandedOver) < MaxSamples
            /\ Cardinality(HandedOver) \in Nat
        BY <1>1, <1>2, HandedOverFacts, Zenon DEF onDataReceived
    <3> QED BY <3>1, <3>2
  <2>2. \A g \in Hosts : received'[g] <= MaxSamples
      BY <1>1, <1>2, <2>1, HostAssumption DEF onDataReceived, Types, Settled
  <2>3. \A t \in IngestThreads : ingest'[t].pc = "idle" => ingest'[t].data = NoData
      BY <1>1, <1>2, Zenon DEF onDataReceived, Types, Settled
  <2> QED BY <1>2, <2>2, <2>3, Zenon DEF onDataReceived, Settled
<1>3. ASSUME NEW s \in IngestThreads, ingestStep(s) PROVE Settled'
  <2>1. ASSUME NEW t \in IngestThreads, ingest'[t].pc = "idle" PROVE ingest'[t].data = NoData
    <3>1. CASE t # s
      <4>1. ingest'[t] = ingest[t]
          BY <1>1, <1>3, <3>1, Zenon
             DEF ingestStep, resolveWorkerScope, publishScore, enqueueMysqlWrite, Types
      <4> QED BY <2>1, <4>1, Zenon DEF Settled
    <3>2. CASE t = s /\ publishScore(s)
        BY <1>1, <2>1, <3>2, Zenon DEF publishScore, Types, IngestState
    <3>3. CASE t = s /\ resolveWorkerScope(s)
        BY <1>1, <2>1, <3>3 DEF resolveWorkerScope, Types
    <3>4. CASE t = s /\ enqueueMysqlWrite(s)
        BY <1>1, <2>1, <3>4, Zenon DEF enqueueMysqlWrite, Types
    <3> QED BY <1>3, <3>1, <3>2, <3>3, <3>4, Zenon DEF ingestStep
  <2> QED BY <1>3, <2>1
         DEF ingestStep, resolveWorkerScope, publishScore, enqueueMysqlWrite, Settled
<1>4. ASSUME NEW w \in Writers, writerStep(w) PROVE Settled'
    BY <1>4 DEF writerStep, writerPop, writerExit, writeToMysql, Settled
<1>5. CASE UNCHANGED <<received, ingest, dropped, written, lost>>
    BY <1>5, Zenon DEF Settled
<1> QED BY <1>2, <1>3, <1>4, <1>5, Zenon DEF Next, vars, silence, processLoop, stopBegin, stopReturn

\* The ingest thread takes the sample in, and it is one more.
LEMMA ConserveReceive ==
    ASSUME HostInv, Settled, SamplesConserved,
           NEW s \in IngestThreads, NEW h \in Hosts, onDataReceived(s, h)
    PROVE  SamplesConserved'
<1>1. Types
    BY Zenon DEF HostInv
<1>2. received[h] < MaxSamples /\ IsFiniteSet(HandedOver) /\ Received \in Nat
  <2>1. received[h] \in Nat /\ MaxSamples \in Nat
      BY <1>1, HostAssumption, Zenon DEF Types
  <2>2. /\ received[h] <= Received /\ Received < MaxSamples
        /\ Received \in Nat /\ IsFiniteSet(HandedOver)
      BY <1>1, HandedOverFacts, Zenon DEF onDataReceived, Received
  <2> QED BY <2>1, <2>2
<1>3. Received' = Received + 1
    BY <1>1, <1>2, OneMore, Zenon DEF onDataReceived, Received
<1>4. /\ DOMAIN ingest = IngestThreads /\ DOMAIN ingest' = IngestThreads
      /\ \A u \in IngestThreads : u # s => ingest'[u] = ingest[u]
      /\ ingest[s].data = NoData /\ ingest'[s].data # NoData
  <2>1. ingest'[s].data = [host |-> h, n |-> received[h] + 1, perfBase |-> 0]
      BY <1>1, Zenon DEF onDataReceived, Types
  <2>2. ingest'[s].data.host # NoData.host
      BY <2>1, HostAssumption DEF NoData
  <2> QED BY <1>1, <2>2, Zenon DEF onDataReceived, Types, Settled
<1>5. Ingesting' = Ingesting + 1 /\ Ingesting \in Nat
    BY <1>4, FiniteAssumption, OneThread DEF Ingesting, Writing
<1>6. Writing \in Nat
    BY <1>1, FiniteAssumption, FS_Subset, FS_CardinalityType, Zenon DEF InFlight, Types, Ingesting, Writing
<1>7. /\ Queued' = Queued /\ Writing' = Writing
      /\ written' = written /\ dropped' = dropped /\ lost' = lost
    BY Zenon DEF onDataReceived, Queued, Writing
<1>8. written \in Nat /\ dropped \in Nat /\ lost \in Nat /\ Queued \in Nat
    BY <1>1 DEF Settled, Types, Queued
<1> QED BY <1>2, <1>3, <1>5, <1>6, <1>7, <1>8, Conservation

\* It drops the sample, keeps it, or hands it on to the queue, which may drop
\* the oldest for it.
LEMMA ConserveIngest ==
    ASSUME HostInv, Settled, SamplesConserved, NEW s \in IngestThreads, ingestStep(s)
    PROVE  SamplesConserved'
<1>1. Types /\ IngestSound
    BY Zenon DEF HostInv
<1>2. /\ DOMAIN ingest = IngestThreads /\ DOMAIN ingest' = IngestThreads
      /\ \A u \in IngestThreads : u # s => ingest'[u] = ingest[u]
    BY <1>1, Zenon DEF Types, ingestStep, resolveWorkerScope, publishScore, enqueueMysqlWrite
<1>3. ingest[s].data \in Data /\ ingest[s].data # NoData
    BY <1>1, DataFacts, Zenon DEF IngestSound, ingestStep, resolveWorkerScope, publishScore, enqueueMysqlWrite
<1>4. Writing \in Nat /\ Ingesting \in Nat
    BY <1>1, FiniteAssumption, FS_Subset, FS_CardinalityType, Zenon DEF InFlight, Types, Ingesting, Writing
<1>5. written \in Nat /\ dropped \in Nat /\ lost \in Nat /\ Queued \in Nat
    BY <1>1 DEF Settled, Types, Queued
<1>6. Received' = Received /\ Received \in Nat
    BY <1>1, HandedOverFacts, Zenon
       DEF Received, HandedOver, ingestStep, resolveWorkerScope, publishScore, enqueueMysqlWrite
<1>7. Writing' = Writing /\ written' = written /\ lost' = lost
    BY Zenon DEF Writing, ingestStep, resolveWorkerScope, publishScore, enqueueMysqlWrite
<1>8. ASSUME ingest'[s].data = NoData
      PROVE  Ingesting' = Ingesting - 1
    BY <1>2, <1>3, <1>8, FiniteAssumption, OneThread DEF Ingesting, Writing
<1>9. CASE resolveWorkerScope(s)
  <2>1. Queued' = Queued
      BY <1>9, Zenon DEF resolveWorkerScope, Queued
  <2>2. \/ dropped' = dropped + 1 /\ ingest'[s].data = NoData
        \/ dropped' = dropped /\ ingest'[s].data # NoData
    <3>1. ASSUME ingest' = [ingest EXCEPT ![s] =
                    [pc |-> "publish",
                     data |-> [ingest[s].data EXCEPT !.perfBase = lastPerf[ingest[s].data.host]]]]
          PROVE  ingest'[s].data # NoData
      <4>1. ingest'[s].data = [ingest[s].data EXCEPT !.perfBase = lastPerf[ingest[s].data.host]]
          BY <1>1, <3>1, Zenon DEF Types
      <4>2. ingest'[s].data.host = ingest[s].data.host
          BY <1>3, <4>1, Zenon DEF Data
      <4>3. ingest[s].data.host \in Hosts
          BY <1>3, DataFacts, Zenon
      <4> QED BY <4>2, <4>3, HostAssumption DEF NoData
    <3> QED BY <1>1, <1>9, <3>1 DEF resolveWorkerScope, Types
  <2>3. CASE dropped' = dropped + 1 /\ ingest'[s].data = NoData
    <3>1. Ingesting' = Ingesting - 1
        BY <1>8, <2>3, Zenon
    <3>2. Received' = Ingesting' + Queued' + Writing' + written' + dropped' + lost'
      <4>1. Received = Ingesting + Queued + Writing + written + dropped + lost
          BY Conservation, Zenon
      <4> QED BY <1>4, <1>5, <1>6, <1>7, <2>1, <2>3, <3>1, <4>1
    <3> QED BY <3>2, Conservation, Zenon
  <2>4. CASE dropped' = dropped /\ ingest'[s].data # NoData
    <3>1. Ingesting' = Ingesting
        BY <1>2, <1>3, <2>4, FiniteAssumption, OneThread DEF Ingesting, Writing
    <3> QED BY <1>4, <1>5, <1>6, <1>7, <2>1, <2>4, <3>1, Conservation, Zenon
  <2> QED BY <2>2, <2>3, <2>4, Zenon
<1>10. CASE publishScore(s)
  <2>1. Queued' = Queued /\ dropped' = dropped
      BY <1>10, Zenon DEF publishScore, Queued
  <2>2. ingest'[s].data = ingest[s].data
      BY <1>1, <1>10, Zenon DEF publishScore, Types, IngestState
  <2>3. Ingesting' = Ingesting
      BY <1>2, <1>3, <2>2, FiniteAssumption, OneThread DEF Ingesting, Writing
  <2> QED BY <1>4, <1>5, <1>6, <1>7, <2>1, <2>3, Conservation, Zenon
<1>11. CASE enqueueMysqlWrite(s)
  <2>1. ingest'[s].data = NoData
      BY <1>1, <1>11, Zenon DEF enqueueMysqlWrite, Types
  <2>2. \/ Queued' = Queued /\ dropped' = dropped + 1
        \/ Queued' = Queued + 1 /\ dropped' = dropped
    <3>1. mysqlWriteQueue \in Seq(Data) /\ Capacity \in Nat \ {0}
        BY <1>1, HostAssumption, Zenon DEF Types
    <3>2. mysqlWriteQueue' = Append(MakeRoom(mysqlWriteQueue), ingest[s].data)
        BY <1>11, Zenon DEF enqueueMysqlWrite
    <3>3. CASE Queued >= Capacity
      <4>1. MakeRoom(mysqlWriteQueue) = Tail(mysqlWriteQueue) /\ mysqlWriteQueue # <<>>
          BY <3>1, <3>3 DEF MakeRoom, Queued
      <4>2. Tail(mysqlWriteQueue) \in Seq(Data)
              /\ Len(Tail(mysqlWriteQueue)) = Queued - 1
          BY <3>1, <4>1 DEF Queued
      <4>3. Queued' = Queued - 1 + 1
          BY <3>2, <4>1, <4>2 DEF Queued
      <4>4. dropped' = dropped + 1
          BY <1>11, <3>3, Zenon DEF enqueueMysqlWrite, Queued
      <4> QED BY <1>5, <4>3, <4>4
    <3>4. CASE ~(Queued >= Capacity)
      <4>1. MakeRoom(mysqlWriteQueue) = mysqlWriteQueue
          BY <3>4, Zenon DEF MakeRoom, Queued
      <4>2. Queued' = Queued + 1
          BY <3>1, <3>2, <4>1 DEF Queued
      <4>3. dropped' = dropped
          BY <1>11, <3>4, Zenon DEF enqueueMysqlWrite, Queued
      <4> QED BY <1>5, <4>2, <4>3, Zenon
    <3> QED BY <3>3, <3>4, Zenon
  <2>3. Ingesting' = Ingesting - 1
      BY <1>8, <2>1, Zenon
  <2>4. Received' = Ingesting' + Queued' + Writing' + written' + dropped' + lost'
    <3>1. Received = Ingesting + Queued + Writing + written + dropped + lost
        BY Conservation
    <3>2. CASE Queued' = Queued /\ dropped' = dropped + 1
        BY <1>4, <1>5, <1>6, <1>7, <2>3, <3>1, <3>2
    <3>3. CASE Queued' = Queued + 1 /\ dropped' = dropped
        BY <1>4, <1>5, <1>6, <1>7, <2>3, <3>1, <3>3
    <3> QED BY <2>2, <3>2, <3>3, Zenon
  <2> QED BY <2>4, Conservation
<1> QED BY <1>9, <1>10, <1>11, Zenon DEF ingestStep

\* A writer takes a sample from the queue, and writes it or gives it up.
LEMMA ConserveWrite ==
    ASSUME HostInv, Settled, SamplesConserved, NEW w \in Writers, writerStep(w)
    PROVE  SamplesConserved'
<1>1. Types /\ Lifecycle
    BY Zenon DEF HostInv
<1>2. /\ DOMAIN writer = Writers /\ DOMAIN writer' = Writers
      /\ \A u \in Writers : u # w => writer'[u] = writer[u]
    BY <1>1, Zenon DEF Types, writerStep, writerPop, writerExit, writeToMysql
<1>3. Writing \in Nat /\ Ingesting \in Nat
    BY <1>1, FiniteAssumption, FS_Subset, FS_CardinalityType, Zenon DEF InFlight, Types, Ingesting, Writing
<1>4. written \in Nat /\ dropped \in Nat /\ lost \in Nat /\ Queued \in Nat
    BY <1>1 DEF Settled, Types, Queued
<1>5. Received' = Received /\ Received \in Nat
    BY <1>1, HandedOverFacts, Zenon DEF Received, HandedOver, writerStep, writerPop, writerExit, writeToMysql
<1>6. Ingesting' = Ingesting /\ dropped' = dropped
    BY Zenon DEF Ingesting, writerStep, writerPop, writerExit, writeToMysql
<1>7. CASE writerPop(w)
  <2>1. mysqlWriteQueue \in Seq(Data) /\ mysqlWriteQueue # <<>>
          /\ mysqlWriteQueue' = Tail(mysqlWriteQueue)
      BY <1>1, <1>7, Zenon DEF writerPop, Types
  <2>2. Queued' = Queued - 1 /\ Head(mysqlWriteQueue) \in Data
      BY <2>1 DEF Queued
  <2>3. writer[w].data = NoData /\ writer'[w].data = Head(mysqlWriteQueue)
      BY <1>1, <1>7, Zenon DEF writerPop, Types, Lifecycle
  <2>4. Writing' = Writing + 1
    <3>1. writer'[w].data # NoData
        BY <2>2, <2>3, DataFacts, Zenon
    <3> QED BY <1>2, <2>3, <3>1, FiniteAssumption, OneThread DEF Ingesting, Writing
  <2>5. written' = written /\ lost' = lost
      BY <1>7, Zenon DEF writerPop
  <2> QED BY <1>3, <1>4, <1>5, <1>6, <2>2, <2>4, <2>5, Conservation
<1>8. CASE writerExit(w)
  <2>1. writer'[w].data = writer[w].data
      BY <1>1, <1>8, Zenon DEF writerExit, Types, WriterState
  <2>2. Writing' = Writing
      BY <1>2, <2>1, FiniteAssumption, OneThread DEF Ingesting, Writing
  <2>3. Queued' = Queued /\ written' = written /\ lost' = lost
      BY <1>8, Zenon DEF writerExit, Queued
  <2> QED BY <1>3, <1>4, <1>5, <1>6, <2>2, <2>3, Conservation, Zenon
<1>9. CASE writeToMysql(w)
  <2>1. writer[w].data # NoData /\ writer'[w].data = NoData
      BY <1>1, <1>9, DataFacts, Zenon DEF writeToMysql, Types, Lifecycle
  <2>2. Writing' = Writing - 1
      BY <1>2, <2>1, FiniteAssumption, OneThread DEF Ingesting, Writing
  <2>3. /\ Queued' = Queued
        /\ \/ lost' = lost + 1 /\ written' = written
           \/ lost' = lost /\ written' = written + 1
      BY <1>9, Zenon DEF writeToMysql, Queued
  <2> QED BY <1>3, <1>4, <1>5, <1>6, <2>2, <2>3, Conservation
<1> QED BY <1>7, <1>8, <1>9 DEF writerStep

\* A sample handed to onDataReceived() is in exactly one place, however many
\* threads hand over, queue and write: none is lost from sight, none counts twice.
THEOREM ConservedHolds == Spec => []SamplesConserved
<1>1. Init => Settled /\ SamplesConserved
  <2> SUFFICES ASSUME Init PROVE Settled /\ SamplesConserved
      BY Zenon
  <2>1. HandedOver = {} /\ InFlight(ingest) = {} /\ InFlight(writer) = {}
      BY HostAssumption DEF Init, HandedOver, InFlight
  <2>2. Cardinality({}) = 0
      BY FS_EmptySet, Zenon
  <2>3. Len(mysqlWriteQueue) = 0 /\ written = 0 /\ dropped = 0 /\ lost = 0
      BY Zenon DEF Init
  <2>4. Settled
      BY HostAssumption DEF Init, Settled
  <2> QED BY <2>1, <2>2, <2>3, <2>4, Conservation DEF Received, Ingesting, Writing, Queued
<1>2. HostInv /\ Settled /\ SamplesConserved /\ [Next]_vars => SamplesConserved'
  <2> SUFFICES ASSUME HostInv, Settled, SamplesConserved, [Next]_vars PROVE SamplesConserved'
      BY Zenon
  <2>1. CASE UNCHANGED <<received, ingest, mysqlWriteQueue, writer, written, dropped, lost>>
      BY <2>1, Zenon DEF SamplesConserved, HandedOver
  <2> QED BY <2>1, ConserveReceive, ConserveIngest, ConserveWrite, Zenon
         DEF Next, vars, silence, processLoop, stopBegin, stopReturn
<1> QED BY <1>1, <1>2, SettledStep, HostInvHolds, PTL DEF Spec
=============================================================================

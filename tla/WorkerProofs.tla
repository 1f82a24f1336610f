---------------------------- MODULE WorkerProofs ----------------------------
(***************************************************************************)
(* Theorems about the worker: the packet counters in the eBPF map, the     *)
(* counters and alarms of database instances and the push, for every       *)
(* number of CPUs, interfaces, slots and counters.  The proofs about the   *)
(* readers of the kernel modules are in KernelCollectorProofs.tla.         *)
(***************************************************************************)
EXTENDS Worker, FiniteSetTheorems, TLAPS

-----------------------------------------------------------------------------
\* The worker does to the pages and the caches of the kernel monitors only what
\* KernelSpec allows, so KernelCollectorProofs speaks of the worker too.
THEOREM KernelPart == Spec => KernelSpec
<1>1. Init => KernelInit
  BY Zenon DEF Init
<1>2. [Next]_vars => [KernelNext]_kernelVars
  BY Zenon DEF Next, kernelStep, instanceStep, pushStep, others, vars
<1> QED
  BY <1>1, <1>2, PTL DEF Spec, KernelSpec

-----------------------------------------------------------------------------
\* The eBPF map.  No two interfaces share a slot, and only a CPU that found an
\* entry has a pointer.
CpuState ==
    {Idle} \cup [step : {"insert"}, interface : Interface, slot : {NoSlot}]
           \cup [step : {"add"}, interface : Interface, slot : Slot]

NetInv ==
    /\ entries \in [Interface -> Slot \cup {NoSlot}]
    /\ \A i, j \in Interface : entries[i] = entries[j] /\ entries[i] # NoSlot => i = j
    /\ value \in [Slot -> Nat]
    /\ packets \in [Interface -> Nat]
    /\ cpu \in [Cpu -> CpuState]

\* One step of SettledCountsExactly.
CountsExactly ==
    \A i \in Interface : Settled(i) => Settled(i)' /\ Missing(i)' = Missing(i)

\* A lookup only gives a CPU a pointer to the entry of its own interface.
LEMMA LookupExact ==
    ASSUME NetInv, NEW c \in Cpu, NEW i \in Interface, lookup(c, i)
    PROVE  NetInv' /\ CountsExactly
<1> USE NetAssumption
<1>1. NetInv'
  BY Zenon DEF NetInv, lookup, CpuState, Idle
<1>2. ASSUME NEW j \in Interface, Settled(j) PROVE Settled(j)' /\ Missing(j)' = Missing(j)
  <2>1. entries' = entries /\ value' = value /\ packets' = packets
    BY Zenon DEF lookup
  <2>2. ASSUME NEW d \in Cpu
        PROVE  /\ cpu'[d].interface = j => cpu'[d].step = "add" /\ cpu'[d].slot = entries[j]
               /\ cpu'[d].slot = entries[j] => cpu'[d].interface = j
    BY <1>2, Zenon DEF lookup, NetInv, Settled, CpuState, Idle
  <2> QED
    BY <1>2, <2>1, <2>2, Zenon DEF Settled, Missing
<1> QED
  BY <1>1, <1>2, Zenon DEF CountsExactly

\* An insertion takes a slot of no entry, and touches no settled interface.
LEMMA InsertExact ==
    ASSUME NetInv, NEW c \in Cpu, NEW s \in Slot, insert(c, s)
    PROVE  NetInv' /\ CountsExactly
<1> USE NetAssumption
<1> DEFINE i == cpu[c].interface
<1>1. i \in Interface /\ cpu[c].step = "insert" /\ cpu[c].slot = NoSlot
  BY DEF insert, NetInv, CpuState, Idle
<1>2. \A j \in Interface : entries[j] # s
  BY Zenon DEF insert, NetInv, Keys
<1>3. \/ entries' = entries /\ value' = value
      \/ entries' = [entries EXCEPT ![i] = s] /\ value' = [value EXCEPT ![s] = 1]
  BY Zenon DEF insert
<1>4. packets' = [packets EXCEPT ![i] = @ + 1] /\ cpu' = [cpu EXCEPT ![c] = Idle]
  BY Zenon DEF insert
<1>5. NetInv'
  <2>1. entries' \in [Interface -> Slot \cup {NoSlot}] /\ value' \in [Slot -> Nat]
    BY <1>1, <1>3 DEF NetInv
  <2>2. \A j, k \in Interface : entries'[j] = entries'[k] /\ entries'[j] # NoSlot => j = k
    BY <1>1, <1>2, <1>3 DEF NetInv
  <2>3. packets' \in [Interface -> Nat] /\ cpu' \in [Cpu -> CpuState]
    BY <1>1, <1>4 DEF NetInv, CpuState
  <2> QED
    BY <2>1, <2>2, <2>3, Zenon DEF NetInv
<1>6. ASSUME NEW j \in Interface, Settled(j) PROVE Settled(j)' /\ Missing(j)' = Missing(j)
  <2>1. j # i
    BY <1>1, <1>6, Zenon DEF Settled
  <2>2. entries'[j] = entries[j] /\ entries[j] \in Slot /\ entries[j] # NoSlot
    BY <1>1, <1>3, <1>6, <2>1, Zenon DEF NetInv, Settled
  <2>3. value'[entries[j]] = value[entries[j]]
    BY <1>2, <1>3, <2>2, Zenon DEF NetInv
  <2>4. packets'[j] = packets[j]
    BY <1>4, <2>1, Zenon DEF NetInv
  <2>5. ASSUME NEW d \in Cpu
        PROVE  /\ cpu'[d].interface = j => cpu'[d].step = "add" /\ cpu'[d].slot = entries[j]
               /\ cpu'[d].slot = entries[j] => cpu'[d].interface = j
    BY <1>4, <1>6, <2>2, Zenon DEF NetInv, Settled, Idle
  <2> QED
    BY <2>2, <2>3, <2>4, <2>5, Zenon DEF Settled, Missing
<1> QED
  BY <1>5, <1>6, Zenon DEF CountsExactly

\* An addition through a pointer to a settled entry is one of its own packets.
LEMMA AddExact ==
    ASSUME NetInv, NEW c \in Cpu, add(c)
    PROVE  NetInv' /\ CountsExactly
<1> USE NetAssumption
<1> DEFINE i == cpu[c].interface
           s == cpu[c].slot
<1>1. i \in Interface /\ s \in Slot /\ cpu[c].step = "add"
  BY DEF add, NetInv, CpuState, Idle
<1>2. /\ entries' = entries
      /\ value' = [value EXCEPT ![s] = @ + 1]
      /\ packets' = [packets EXCEPT ![i] = @ + 1]
      /\ cpu' = [cpu EXCEPT ![c] = Idle]
  BY Zenon DEF add, Added
<1>3. NetInv'
  BY <1>1, <1>2 DEF NetInv, CpuState
<1>4. ASSUME NEW j \in Interface, Settled(j) PROVE Settled(j)' /\ Missing(j)' = Missing(j)
  <2>1. entries[j] \in Slot /\ entries[j] # NoSlot
    BY <1>4, Zenon DEF NetInv, Settled
  <2>2. (i = j) <=> (s = entries[j])
    BY <1>4, Zenon DEF Settled
  <2>3. packets'[j] - value'[entries[j]] = packets[j] - value[entries[j]]
    <3>1. CASE i = j
      BY <1>1, <1>2, <2>1, <2>2, <3>1 DEF NetInv
    <3>2. CASE i # j
      BY <1>1, <1>2, <2>1, <2>2, <3>2, Zenon DEF NetInv
    <3> QED BY <3>1, <3>2, Zenon
  <2>4. ASSUME NEW d \in Cpu
        PROVE  /\ cpu'[d].interface = j => cpu'[d].step = "add" /\ cpu'[d].slot = entries[j]
               /\ cpu'[d].slot = entries[j] => cpu'[d].interface = j
    BY <1>2, <1>4, <2>1, Zenon DEF NetInv, Settled, Idle
  <2> QED
    BY <1>2, <2>1, <2>3, <2>4, Zenon DEF Settled, Missing
<1> QED
  BY <1>3, <1>4, Zenon DEF CountsExactly

\* A step of a packet, whichever it is, counts exactly.
LEMMA PacketExact ==
    ASSUME NetInv, packetStep
    PROVE  NetInv' /\ CountsExactly
BY LookupExact, InsertExact, AddExact, Zenon DEF packetStep

\* Every other step leaves the map alone.
LEMMA MapUntouched ==
    ASSUME [Next]_vars
    PROVE  packetStep \/ UNCHANGED mapVars
<1>1. CASE UNCHANGED vars
  BY <1>1, Zenon DEF vars
<1>2. CASE kernelStep
  BY <1>2, Zenon DEF kernelStep
<1>3. CASE instanceStep
  BY <1>3, Zenon DEF instanceStep
<1>4. CASE pushStep
  <2>1. CASE packet
    BY <2>1, Zenon DEF packet
  <2>2. CASE loopStep
    BY <2>2, Zenon DEF loopStep, loopHead, collectBegin, collect, readEntry, skipEntry, call, wakeUp
  <2>3. CASE callEnds
    BY <2>3, Zenon DEF callEnds, unreachable, refuse, callReturns, SetMonitorInfo, reply, replyLost
  <2>4. CASE stop
    BY <2>4, Zenon DEF stop
  <2> QED
    BY <1>4, <2>1, <2>2, <2>3, <2>4, Zenon DEF pushStep, PushNext
<1> QED
  BY <1>1, <1>2, <1>3, <1>4, Zenon DEF Next

\* SettledCountsExactly, for any number of CPUs, interfaces and slots: once the
\* first packets of an interface are through, update_stats() counts each of its
\* packets exactly once, on whichever CPU it is handled.
THEOREM SettledHolds == Spec => SettledCountsExactly
<1>1. Init => NetInv
  BY NetAssumption DEF Init, PushInit, NetInit, NetInv, CpuState
<1>2. NetInv /\ [Next]_vars => NetInv' /\ [CountsExactly]_mapVars
  <2> SUFFICES ASSUME NetInv, [Next]_vars PROVE NetInv' /\ [CountsExactly]_mapVars
    BY Zenon
  <2>1. CASE packetStep
    BY <2>1, PacketExact, Zenon
  <2>2. CASE UNCHANGED mapVars
    BY <2>2, Zenon DEF mapVars, NetInv
  <2> QED
    BY <2>1, <2>2, MapUntouched, Zenon
<1> QED
  BY <1>1, <1>2, PTL DEF Spec, SettledCountsExactly, CountsExactly

-----------------------------------------------------------------------------
\* Database instances.  A sample fits one taken later when the counter rose no
\* more between the two than there were events.
Rise(from, to) == IF from < to THEN to - from ELSE 0

Fits(x, y) == x.at <= y.at /\ y.count <= x.count + (y.at - x.at)

Current == [count |-> total, at |-> events]

Probe == [up : BOOLEAN, count : Nat, at : Nat]

LastSample == [initialized : BOOLEAN, count : Nat, timestamp : Nat, n : Nat, at : Nat]

\* The samples in the queue and in the hands of the writers.
Waiting ==
    {s \in Stamped : \/ \E w \in WriteThreads : popped[w] = s
                     \/ \E i \in 1..Len(writeQueue) : writeQueue[i] = s}

Known == Waiting \cup {lastOf}

InstanceTypes ==
    /\ total \in Nat /\ events \in Nat /\ counted \in Nat /\ clock \in Nat /\ stamped \in Nat
    /\ probed \in {Nothing} \cup Probe
    /\ writeQueue \in Seq(Stamped)
    /\ popped \in [WriteThreads -> {Nothing} \cup Stamped]
    /\ lastOf \in LastSample
    /\ database \in {"mysql", "redis"}
    /\ missed \in BOOLEAN /\ overtaken \in BOOLEAN

\* The samples fit one another in the order of their numbers, and what the rows
\* have shown happened before the last sample written was taken.
OrderInv ==
    /\ counted <= lastOf.at
    /\ \A x \in Known : Fits(x, Current)
    /\ \A x \in Known, y \in Waiting : x.n <= y.n => Fits(x, y)
    /\ probed # Nothing => Fits(probed, Current) /\ \A x \in Known : Fits(x, probed)

InstanceInv ==
    /\ InstanceTypes
    /\ \A x \in Waiting : x.n <= stamped
    /\ ~missed /\ ~overtaken => OrderInv

\* A rate times its interval, both rounded, is at most the difference.
LEMMA QuotientFits ==
    ASSUME NEW x \in Nat, NEW d \in Nat \ {0}
    PROVE  (x \div d) \in Nat /\ (x \div d) * d <= x
OBVIOUS

\* The same in hundredths.
LEMMA RoundedDown ==
    ASSUME NEW a \in Nat, NEW d \in Nat \ {0}
    PROVE  /\ (((a * 100) \div d) * d) \div 100 \in Nat
           /\ (((a * 100) \div d) * d) \div 100 <= a
<1> DEFINE x == ((a * 100) \div d) * d
<1>1. (a * 100) \div d \in Nat /\ x <= a * 100
  BY QuotientFits
<1>2. x \in Nat
  BY <1>1
<1> HIDE DEF x
<1>3. x \div 100 \in Nat /\ x \div 100 <= a
  BY <1>1, <1>2
<1> QED
  BY <1>3, Zenon DEF x

\* A rate times its interval is at most the rise of the counter.
LEMMA RateCountsRise ==
    ASSUME NEW now \in Nat, NEW last \in Nat, NEW t \in Int
    PROVE  /\ (counterRate(now, last, t) * t) \div 100 \in Nat
           /\ (counterRate(now, last, t) * t) \div 100 <= Rise(last, now)
<1>1. CASE t <= 0 \/ now < last
  BY <1>1 DEF counterRate, Rise
<1>2. CASE t > 0 /\ now >= last
  <2>1. counterRate(now, last, t) = ((now - last) * 100) \div t
    BY <1>2 DEF counterRate
  <2>2. now - last \in Nat /\ t \in Nat \ {0} /\ Rise(last, now) = now - last
    BY <1>2 DEF Rise
  <2> QED
    BY <2>1, <2>2, RoundedDown
<1> QED
  BY <1>1, <1>2

\* What a row shows is at most the rise since the sample written before.
LEMMA ShowsRise ==
    ASSUME InstanceTypes, NEW s \in Stamped
    PROVE  Shown(s) \in Nat /\ Shown(s) <= Rise(lastOf.count, s.count)
<1> DEFINE t == s.timestamp - lastOf.timestamp
<1>1. s.count \in Nat /\ s.timestamp \in Nat
  BY Zenon DEF Stamped
<1>2. lastOf.count \in Nat /\ lastOf.timestamp \in Nat
  BY Zenon DEF InstanceTypes, LastSample
<1>3. t \in Int
  BY <1>1, <1>2
<1>4. Rise(lastOf.count, s.count) \in Nat /\ 0 <= Rise(lastOf.count, s.count)
  BY <1>1, <1>2 DEF Rise
<1>5. CASE database = "mysql"
  <2>1. Shown(s) = (mysqlRow(s).slow_queries_rate * t) \div 100
    BY <1>5, Zenon DEF Shown
  <2>2. CASE lastOf.initialized
    <3>1. mysqlRow(s).slow_queries_rate = counterRate(s.count, lastOf.count, t)
      BY <2>2, Zenon DEF mysqlRow
    <3> HIDE DEF t
    <3>2. /\ (counterRate(s.count, lastOf.count, t) * t) \div 100 \in Nat
          /\ (counterRate(s.count, lastOf.count, t) * t) \div 100 <= Rise(lastOf.count, s.count)
      BY <1>1, <1>2, <1>3, RateCountsRise, Zenon
    <3> QED
      BY <2>1, <3>1, <3>2, Zenon
  <2>3. CASE ~lastOf.initialized
    <3>1. mysqlRow(s).slow_queries_rate = 0
      BY <2>3, Zenon DEF mysqlRow
    <3> HIDE DEF t
    <3>2. (0 * t) \div 100 = 0
      BY <1>3
    <3>3. Shown(s) = 0
      BY <2>1, <3>1, <3>2, Zenon
    <3> QED
      BY <1>4, <3>3
  <2> QED
    BY <2>2, <2>3, Zenon
<1>6. CASE database # "mysql"
  <2>1. Shown(s) = IF lastOf.initialized THEN counterDelta(s.count, lastOf.count) ELSE 0
    BY <1>6, Zenon DEF Shown, redisRow
  <2> QED
    BY <1>1, <1>2, <2>1 DEF counterDelta, Rise
<1> QED
  BY <1>5, <1>6, Zenon

\* Fits is reflexive.
LEMMA FitsItself ==
    ASSUME NEW x, x.at \in Nat, x.count \in Nat
    PROVE  Fits(x, x)
BY DEF Fits

\* Between two samples that fit, the counter rose no more than there were events.
LEMMA FitsRise ==
    ASSUME NEW x, NEW y, x.at \in Nat, x.count \in Nat, y.at \in Nat, y.count \in Nat, Fits(x, y)
    PROVE  x.at + Rise(x.count, y.count) <= y.at /\ x.at <= y.at
BY DEF Fits, Rise

\* The queue without its first sample.
LEMMA QueueTail ==
    ASSUME NEW q \in Seq(Stamped), q # <<>>
    PROVE  /\ Tail(q) \in Seq(Stamped) /\ Head(q) \in Stamped /\ 1 \in 1..Len(q) /\ q[1] = Head(q)
           /\ \A i \in 1..Len(Tail(q)) : i + 1 \in 1..Len(q) /\ Tail(q)[i] = q[i + 1]
OBVIOUS

\* The queue with one sample more at its end.
LEMMA QueueAppend ==
    ASSUME NEW q \in Seq(Stamped), NEW z \in Stamped
    PROVE  /\ Append(q, z) \in Seq(Stamped)
           /\ \A i \in 1..Len(Append(q, z)) :
                (i \in 1..Len(q) /\ Append(q, z)[i] = q[i]) \/ Append(q, z)[i] = z
OBVIOUS

\* A sample that is waiting has the fields of one.
LEMMA KnownTypes ==
    ASSUME InstanceTypes, NEW x \in Known
    PROVE  x.at \in Nat /\ x.count \in Nat /\ x.n \in Nat
<1>1. CASE x \in Waiting
  BY <1>1, Zenon DEF Waiting, Stamped
<1>2. CASE x = lastOf
  BY <1>2, Zenon DEF InstanceTypes, LastSample
<1> QED
  BY <1>1, <1>2, Zenon DEF Known

\* Steps that only take samples away keep the samples in order.
LEMMA FewerInOrder ==
    ASSUME InstanceInv, Waiting' \subseteq Waiting, InstanceTypes',
           UNCHANGED <<total, events, counted, stamped, probed, lastOf, missed, overtaken>>
    PROVE  InstanceInv'
<1>1. Known' \subseteq Known
  BY Zenon DEF Known
<1>2. OrderInv => OrderInv'
  <2> SUFFICES ASSUME OrderInv PROVE OrderInv'
    BY Zenon
  <2>1. Current' = Current
    BY Zenon DEF Current
  <2>2. counted' <= lastOf'.at
    BY Zenon DEF OrderInv
  <2>3. \A x \in Known' : Fits(x, Current')
    BY <1>1, <2>1, Zenon DEF OrderInv
  <2>4. \A x \in Known', y \in Waiting' : x.n <= y.n => Fits(x, y)
    BY <1>1, Zenon DEF OrderInv
  <2>5. probed' # Nothing => Fits(probed', Current') /\ \A x \in Known' : Fits(x, probed')
    BY <1>1, <2>1, Zenon DEF OrderInv
  <2> QED
    BY <2>2, <2>3, <2>4, <2>5, Zenon DEF OrderInv, Fits
<1> QED
  BY <1>2, Zenon DEF InstanceInv

\* An event keeps InstanceInv.
LEMMA ServeKept == ASSUME InstanceInv, serve PROVE InstanceInv'
<1>1. /\ total' = total + 1 /\ events' = events + 1
      /\ UNCHANGED <<database, clock, probed, stamped, writeQueue, popped, lastOf, counted, missed, overtaken>>
  BY Zenon DEF serve
<1>2. InstanceTypes /\ total \in Nat /\ events \in Nat
  BY Zenon DEF InstanceInv, InstanceTypes
<1>3. total' \in Nat /\ events' \in Nat
  BY <1>1, <1>2
<1>4. InstanceTypes'
  BY <1>1, <1>2, <1>3, Zenon DEF InstanceTypes
<1>5. Waiting' = Waiting /\ Known' = Known
  BY <1>1, Zenon DEF Waiting, Known
<1>6. ASSUME NEW x, x.at \in Nat, x.count \in Nat, Fits(x, Current) PROVE Fits(x, Current')
  BY <1>1, <1>2, <1>6 DEF Fits, Current
<1>7. OrderInv => OrderInv'
  <2> SUFFICES ASSUME OrderInv PROVE OrderInv'
    BY Zenon
  <2>1. \A x \in Known : Fits(x, Current')
    BY <1>2, <1>6, KnownTypes, Zenon DEF OrderInv
  <2>2. probed # Nothing => Fits(probed, Current')
    BY <1>2, <1>6, Zenon DEF OrderInv, InstanceTypes, Probe
  <2> QED
    BY <1>1, <1>5, <2>1, <2>2, Zenon DEF OrderInv, Fits
<1> QED
  BY <1>1, <1>4, <1>5, <1>7, Zenon DEF InstanceInv

\* So does a restart of the instance,
LEMMA RestartKept == ASSUME InstanceInv, restart PROVE InstanceInv'
<1>1. /\ total' = 0
      /\ UNCHANGED <<database, clock, probed, stamped, writeQueue, popped, lastOf, events, counted, missed, overtaken>>
  BY Zenon DEF restart
<1>2. InstanceTypes /\ total \in Nat /\ events \in Nat
  BY Zenon DEF InstanceInv, InstanceTypes
<1>3. total' \in Nat
  BY <1>1
<1>4. InstanceTypes'
  BY <1>1, <1>2, <1>3, Zenon DEF InstanceTypes
<1>5. Waiting' = Waiting /\ Known' = Known
  BY <1>1, Zenon DEF Waiting, Known
<1>6. ASSUME NEW x, x.at \in Nat, x.count \in Nat, Fits(x, Current) PROVE Fits(x, Current')
  BY <1>1, <1>2, <1>6 DEF Fits, Current
<1>7. OrderInv => OrderInv'
  <2> SUFFICES ASSUME OrderInv PROVE OrderInv'
    BY Zenon
  <2>1. \A x \in Known : Fits(x, Current')
    BY <1>2, <1>6, KnownTypes, Zenon DEF OrderInv
  <2>2. probed # Nothing => Fits(probed, Current')
    BY <1>2, <1>6, Zenon DEF OrderInv, InstanceTypes, Probe
  <2> QED
    BY <1>1, <1>5, <2>1, <2>2, Zenon DEF OrderInv, Fits
<1> QED
  BY <1>1, <1>4, <1>5, <1>7, Zenon DEF InstanceInv

\* and the clock.
LEMMA TickKept == ASSUME InstanceInv, tick PROVE InstanceInv'
<1>1. /\ clock' = clock + 1
      /\ UNCHANGED <<database, total, probed, stamped, writeQueue, popped, lastOf, events, counted, missed, overtaken>>
  BY Zenon DEF tick
<1>2. InstanceTypes /\ clock \in Nat
  BY Zenon DEF InstanceInv, InstanceTypes
<1>3. clock' \in Nat
  BY <1>1, <1>2
<1>4. InstanceTypes'
  BY <1>1, <1>2, <1>3, Zenon DEF InstanceTypes
<1>5. Waiting' = Waiting
  BY <1>1, Zenon DEF Waiting
<1> QED
  BY <1>1, <1>4, <1>5, FewerInOrder, Zenon

\* The probe: it reads the counter as it is.
LEMMA ProbeKept ==
    ASSUME InstanceInv, NEW connected \in BOOLEAN, NEW answered \in BOOLEAN, updateOnce(connected, answered)
    PROVE  InstanceInv'
<1>1. UNCHANGED <<database, total, clock, stamped, writeQueue, popped, lastOf, events, counted, overtaken>>
  BY Zenon DEF updateOnce
<1>2. missed' \in BOOLEAN /\ (~missed' => ~missed /\ connected /\ answered)
  BY Zenon DEF updateOnce
<1>3. probed' = [up |-> connected, at |-> events, count |-> IF connected /\ answered THEN total ELSE 0]
  BY Zenon DEF updateOnce, mysqlInfo, redisInfo
<1>4. InstanceTypes /\ total \in Nat /\ events \in Nat
  BY Zenon DEF InstanceInv, InstanceTypes
<1>5. probed' \in Probe
  BY <1>3, <1>4, Zenon DEF Probe
<1>6. InstanceTypes'
  BY <1>1, <1>2, <1>4, <1>5, Zenon DEF InstanceTypes
<1>7. Waiting' = Waiting /\ Known' = Known /\ Current' = Current
  BY <1>1, Zenon DEF Waiting, Known, Current
<1>8. ASSUME ~missed', OrderInv PROVE OrderInv'
  <2>1. probed'.at = events /\ probed'.count = total
    BY <1>2, <1>3, <1>8, Zenon
  <2>2. Current.at = events /\ Current.count = total
    BY Zenon DEF Current
  <2>3. Fits(probed', Current)
    BY <1>4, <2>1, <2>2 DEF Fits
  <2>4. \A x \in Known : Fits(x, probed')
    BY <1>8, <2>1, <2>2, Zenon DEF OrderInv, Fits
  <2> QED
    BY <1>1, <1>7, <1>8, <2>3, <2>4, Zenon DEF OrderInv, Fits
<1> QED
  BY <1>1, <1>2, <1>6, <1>7, <1>8, Zenon DEF InstanceInv

\* A push that fails loses the sample.
LEMMA LossKept == ASSUME InstanceInv, pushFails PROVE InstanceInv'
<1>1. /\ probed' = Nothing
      /\ UNCHANGED <<database, total, clock, stamped, writeQueue, popped, lastOf, events, counted, missed, overtaken>>
  BY Zenon DEF pushFails
<1>2. InstanceTypes'
  BY <1>1, Zenon DEF InstanceInv, InstanceTypes
<1>3. Waiting' = Waiting /\ Known' = Known /\ Current' = Current
  BY <1>1, Zenon DEF Waiting, Known, Current
<1>4. OrderInv => OrderInv'
  BY <1>1, <1>3, Zenon DEF OrderInv, Fits
<1> QED
  BY <1>1, <1>2, <1>3, <1>4, Zenon DEF InstanceInv

\* The sample the manager stamps.
Queued == [up |-> probed.up, count |-> probed.count, at |-> probed.at, timestamp |-> clock, n |-> stamped + 1]

\* onDataReceived() adds that sample to the ones that wait, and no other.
LEMMA QueuedAdds ==
    ASSUME InstanceInv, onDataReceived
    PROVE  writeQueue' \in Seq(Stamped) /\ \A x \in Waiting' : x \in Waiting \/ x = Queued
<1> DEFINE z == Queued
           q == IF Len(writeQueue) >= QueueLength THEN Tail(writeQueue) ELSE writeQueue
<1>1. /\ probed # Nothing /\ probed' = Nothing /\ stamped' = stamped + 1 /\ writeQueue' = Append(q, z)
      /\ UNCHANGED <<database, total, clock, popped, lastOf, events, counted, missed, overtaken>>
  BY Zenon DEF onDataReceived, Queued
<1>2. InstanceTypes /\ stamped \in Nat /\ clock \in Nat /\ probed \in Probe /\ writeQueue \in Seq(Stamped)
  BY <1>1, Zenon DEF InstanceInv, InstanceTypes
<1>3. stamped + 1 \in Nat
  BY <1>2
<1>4. probed.up \in BOOLEAN /\ probed.count \in Nat /\ probed.at \in Nat
  BY <1>2, Zenon DEF Probe
<1>5. z \in Stamped
  BY <1>2, <1>3, <1>4, Zenon DEF Stamped, Queued
<1>6. /\ q \in Seq(Stamped)
      /\ \A i \in 1..Len(q) : \E j \in 1..Len(writeQueue) : q[i] = writeQueue[j]
  <2>1. CASE Len(writeQueue) >= QueueLength
    <3>1. writeQueue # <<>>
      BY <2>1, InstanceAssumption
    <3>2. q = Tail(writeQueue)
      BY <2>1, Zenon
    <3> HIDE DEF q
    <3> QED
      BY <1>2, <3>1, <3>2, QueueTail, Zenon
  <2>2. CASE ~(Len(writeQueue) >= QueueLength)
    <3>1. q = writeQueue
      BY <2>2, Zenon
    <3> HIDE DEF q
    <3> QED
      BY <1>2, <3>1, Zenon
  <2> QED
    BY <2>1, <2>2, Zenon
<1> HIDE DEF q
<1>7. writeQueue' \in Seq(Stamped)
  BY <1>1, <1>5, <1>6, QueueAppend, Zenon
<1>8. \A x \in Waiting' : x \in Waiting \/ x = z
  <2> SUFFICES ASSUME NEW x \in Waiting', x # z PROVE x \in Waiting
    BY Zenon
  <2>1. x \in Stamped
    BY Zenon DEF Waiting
  <2>2. CASE \E w \in WriteThreads : popped[w] = x
    BY <2>1, <2>2, Zenon DEF Waiting
  <2>3. CASE \E i \in 1..Len(writeQueue') : writeQueue'[i] = x
    <3>1. PICK i \in 1..Len(Append(q, z)) : Append(q, z)[i] = x
      BY <1>1, <2>3, Zenon
    <3>2. i \in 1..Len(q) /\ q[i] = x
      BY <1>5, <1>6, <3>1, QueueAppend, Zenon
    <3> QED
      BY <1>6, <2>1, <3>2, Zenon DEF Waiting
  <2> QED
    BY <1>1, <2>2, <2>3, Zenon DEF Waiting
<1> QED
  BY <1>7, <1>8, Zenon

\* The manager stamps the sample and queues it.
LEMMA QueuedKept == ASSUME InstanceInv, onDataReceived PROVE InstanceInv'
<1> DEFINE z == Queued
<1>1. /\ probed # Nothing /\ probed' = Nothing /\ stamped' = stamped + 1
      /\ UNCHANGED <<database, total, clock, popped, lastOf, events, counted, missed, overtaken>>
  BY Zenon DEF onDataReceived
<1>2. InstanceTypes /\ stamped \in Nat /\ probed \in Probe
  BY <1>1, Zenon DEF InstanceInv, InstanceTypes
<1>3. stamped + 1 \in Nat
  BY <1>2
<1>4. probed.count \in Nat /\ probed.at \in Nat
  BY <1>2, Zenon DEF Probe
<1>5. z.n = stamped + 1 /\ z.at = probed.at /\ z.count = probed.count
  BY Zenon DEF Queued
<1>6. writeQueue' \in Seq(Stamped)
  BY QueuedAdds, Zenon
<1>7. InstanceTypes'
  BY <1>1, <1>2, <1>3, <1>6, Zenon DEF InstanceTypes
<1>8. \A x \in Waiting' : x \in Waiting \/ x = z
  BY QueuedAdds, Zenon
<1> HIDE DEF z
<1>9. \A x \in Waiting : x.n \in Nat /\ x.n <= stamped
  BY Zenon DEF InstanceInv, Waiting, Stamped
<1>10. \A x \in Waiting : x.n <= stamped' /\ ~(z.n <= x.n)
  BY <1>1, <1>2, <1>5, <1>9
<1>11. z.n <= stamped'
  BY <1>1, <1>3, <1>5
<1>12. OrderInv => OrderInv'
  <2> SUFFICES ASSUME OrderInv PROVE OrderInv'
    BY Zenon
  <2>1. Current' = Current /\ lastOf' = lastOf
    BY <1>1, Zenon DEF Current
  <2>2. \A x \in Known' : x \in Known \/ x = z
    BY <1>8, <2>1, Zenon DEF Known
  <2>3. Fits(z, Current) /\ Fits(z, z) /\ \A x \in Known : Fits(x, z)
    <3>1. Fits(z, z)
      BY <1>4, <1>5, FitsItself, Zenon
    <3>2. Fits(z, Current)
      BY <1>1, <1>5, Zenon DEF OrderInv, Fits
    <3>3. \A x \in Known : Fits(x, z)
      BY <1>1, <1>5, Zenon DEF OrderInv, Fits
    <3> QED
      BY <3>1, <3>2, <3>3, Zenon
  <2>4. \A x \in Known' : Fits(x, Current)
    BY <2>2, <2>3, Zenon DEF OrderInv
  <2>5. ASSUME NEW x \in Known', NEW y \in Waiting', x.n <= y.n PROVE Fits(x, y)
    <3>1. CASE y = z
      BY <2>2, <2>3, <3>1, Zenon
    <3>2. CASE y \in Waiting /\ x = z
      BY <1>10, <2>5, <3>2, Zenon
    <3>3. CASE y \in Waiting /\ x \in Known
      BY <2>5, <3>3, Zenon DEF OrderInv
    <3> QED
      BY <1>8, <2>2, <3>1, <3>2, <3>3, Zenon
  <2> QED
    BY <1>1, <2>1, <2>4, <2>5, Zenon DEF OrderInv, Fits
<1> QED
  BY <1>1, <1>7, <1>8, <1>10, <1>11, <1>12, Zenon DEF InstanceInv

\* A writer takes the oldest sample from the queue.
LEMMA PopTakes ==
    ASSUME InstanceInv, NEW w \in WriteThreads, writerPop(w)
    PROVE  InstanceTypes' /\ Waiting' \subseteq Waiting
<1>1. /\ writeQueue # <<>> /\ popped' = [popped EXCEPT ![w] = Head(writeQueue)] /\ writeQueue' = Tail(writeQueue)
      /\ UNCHANGED <<database, total, clock, probed, stamped, lastOf, events, counted, missed, overtaken>>
  BY Zenon DEF writerPop
<1>2. InstanceTypes /\ writeQueue \in Seq(Stamped) /\ popped \in [WriteThreads -> {Nothing} \cup Stamped]
  BY Zenon DEF InstanceInv, InstanceTypes
<1>3. /\ Tail(writeQueue) \in Seq(Stamped) /\ Head(writeQueue) \in Stamped
      /\ 1 \in 1..Len(writeQueue) /\ writeQueue[1] = Head(writeQueue)
      /\ \A i \in 1..Len(Tail(writeQueue)) : i + 1 \in 1..Len(writeQueue) /\ Tail(writeQueue)[i] = writeQueue[i + 1]
  BY <1>1, <1>2, QueueTail, Zenon
<1>4. popped' \in [WriteThreads -> {Nothing} \cup Stamped]
  BY <1>1, <1>2, <1>3, Zenon
<1>5. InstanceTypes'
  BY <1>1, <1>2, <1>3, <1>4, Zenon DEF InstanceTypes
<1>6. Waiting' \subseteq Waiting
  <2> SUFFICES ASSUME NEW x \in Waiting' PROVE x \in Waiting
    BY Zenon
  <2>1. x \in Stamped
    BY Zenon DEF Waiting
  <2>2. CASE \E v \in WriteThreads : popped'[v] = x
    <3>1. PICK v \in WriteThreads : popped'[v] = x
      BY <2>2, Zenon
    <3>2. popped[v] = x \/ x = writeQueue[1]
      BY <1>1, <1>2, <1>3, <3>1, Zenon
    <3> QED
      BY <1>3, <2>1, <3>2, Zenon DEF Waiting
  <2>3. CASE \E i \in 1..Len(writeQueue') : writeQueue'[i] = x
    BY <1>1, <1>3, <2>1, <2>3, Zenon DEF Waiting
  <2> QED
    BY <2>2, <2>3, Zenon DEF Waiting
<1> QED
  BY <1>5, <1>6, Zenon

\* So it keeps InstanceInv.
LEMMA PopKept == ASSUME InstanceInv, NEW w \in WriteThreads, writerPop(w) PROVE InstanceInv'
<1>1. UNCHANGED <<total, events, counted, stamped, probed, lastOf, missed, overtaken>>
  BY Zenon DEF writerPop
<1> QED
  BY <1>1, PopTakes, FewerInOrder, Zenon

\* A writer has done with its sample.
LEMMA PutDown ==
    ASSUME InstanceTypes, NEW w \in WriteThreads, popped' = [popped EXCEPT ![w] = Nothing], UNCHANGED writeQueue
    PROVE  popped' \in [WriteThreads -> {Nothing} \cup Stamped] /\ Waiting' \subseteq Waiting
<1>1. popped \in [WriteThreads -> {Nothing} \cup Stamped]
  BY Zenon DEF InstanceTypes
<1>2. popped' \in [WriteThreads -> {Nothing} \cup Stamped]
  BY <1>1, Zenon
<1>3. \A v \in WriteThreads : popped'[v] = popped[v] \/ popped'[v] = Nothing
  BY <1>1, Zenon
<1>4. Nothing \notin Stamped
  BY InstanceAssumption, Zenon
<1>5. Waiting' \subseteq Waiting
  BY <1>3, <1>4, Zenon DEF Waiting
<1> QED
  BY <1>2, <1>5, Zenon

\* A write without a connection keeps InstanceInv.
LEMMA GivenUpKept == ASSUME InstanceInv, NEW w \in WriteThreads, writeGivenUp(w) PROVE InstanceInv'
<1>1. /\ popped' = [popped EXCEPT ![w] = Nothing]
      /\ UNCHANGED <<database, total, clock, probed, stamped, writeQueue, lastOf, events, counted, missed, overtaken>>
  BY Zenon DEF writeGivenUp
<1>2. InstanceTypes
  BY Zenon DEF InstanceInv
<1>3. popped' \in [WriteThreads -> {Nothing} \cup Stamped] /\ Waiting' \subseteq Waiting
  BY <1>1, <1>2, PutDown, Zenon
<1>4. InstanceTypes'
  BY <1>1, <1>2, <1>3, Zenon DEF InstanceTypes
<1> QED
  BY <1>1, <1>3, <1>4, FewerInOrder, Zenon

\* The write: the row shows what happened between the two samples.
LEMMA WriteKept == ASSUME InstanceInv, NEW w \in WriteThreads, writeToMysql(w) PROVE InstanceInv'
<1> DEFINE s == popped[w]
<1>1. /\ s # Nothing /\ popped' = [popped EXCEPT ![w] = Nothing]
      /\ lastOf' = [initialized |-> TRUE, count |-> s.count, timestamp |-> s.timestamp, n |-> s.n, at |-> s.at]
      /\ UNCHANGED <<database, total, clock, probed, stamped, writeQueue, events, missed>>
  BY Zenon DEF writeToMysql
<1>2. counted' = counted + Shown(s) \/ counted' = counted
  BY Zenon DEF writeToMysql
<1>3. overtaken' \in BOOLEAN /\ (~overtaken' => ~overtaken /\ ~(s.n < lastOf.n))
  BY Zenon DEF writeToMysql
<1>4. InstanceTypes /\ popped \in [WriteThreads -> {Nothing} \cup Stamped]
  BY Zenon DEF InstanceInv, InstanceTypes
<1>5. s \in Stamped /\ s \in Waiting
  BY <1>1, <1>4, Zenon DEF Waiting
<1> HIDE DEF s
<1>6. s.count \in Nat /\ s.at \in Nat /\ s.n \in Nat /\ s.timestamp \in Nat
  BY <1>5, Zenon DEF Stamped
<1>7. lastOf' \in LastSample
  BY <1>1, <1>6, Zenon DEF LastSample
<1>8. Shown(s) \in Nat /\ Shown(s) <= Rise(lastOf.count, s.count)
  BY <1>4, <1>5, ShowsRise, Zenon
<1>9. counted \in Nat
  BY <1>4, Zenon DEF InstanceTypes
<1>10. counted' \in Nat
  BY <1>2, <1>8, <1>9
<1>11. popped' \in [WriteThreads -> {Nothing} \cup Stamped] /\ Waiting' \subseteq Waiting
  BY <1>1, <1>4, PutDown, Zenon
<1>12. InstanceTypes'
  BY <1>1, <1>3, <1>4, <1>7, <1>10, <1>11, Zenon DEF InstanceTypes
<1>13. lastOf'.n = s.n /\ lastOf'.at = s.at /\ lastOf'.count = s.count
  BY <1>1, Zenon
<1>14. ASSUME ~overtaken', OrderInv PROVE OrderInv'
  <2>1. Current' = Current /\ s \in Known /\ lastOf \in Known
    BY <1>1, <1>5, Zenon DEF Current, Known
  <2>2. lastOf.at \in Nat /\ lastOf.count \in Nat /\ lastOf.n \in Nat
    BY <1>4, <2>1, KnownTypes, Zenon
  <2>3. lastOf.n <= s.n
    BY <1>3, <1>6, <1>14, <2>2
  <2>4. Fits(lastOf, s)
    BY <1>5, <1>14, <2>1, <2>3, Zenon DEF OrderInv
  <2>5. lastOf.at + Rise(lastOf.count, s.count) <= s.at /\ lastOf.at <= s.at
    BY <1>6, <2>2, <2>4, FitsRise, Zenon
  <2>6. Rise(lastOf.count, s.count) \in Nat
    BY <1>6, <2>2 DEF Rise
  <2>7. counted <= lastOf.at
    BY <1>14, Zenon DEF OrderInv
  <2>8. counted' <= lastOf'.at
    BY <1>2, <1>6, <1>8, <1>9, <1>13, <2>2, <2>5, <2>6, <2>7
  <2>9. \A x \in Known' : x \in Known \/ x = lastOf'
    BY <1>11, Zenon DEF Known
  <2>10. \A x \in Known' : Fits(x, Current)
    BY <1>13, <1>14, <2>1, <2>9, Zenon DEF OrderInv, Fits
  <2>11. \A x \in Known', y \in Waiting' : x.n <= y.n => Fits(x, y)
    <3> SUFFICES ASSUME NEW x \in Known', NEW y \in Waiting', x.n <= y.n PROVE Fits(x, y)
      BY Zenon
    <3>1. y \in Waiting
      BY <1>11, Zenon
    <3>2. CASE x \in Known
      BY <1>14, <3>1, <3>2, Zenon DEF OrderInv
    <3>3. CASE x = lastOf'
      <4>1. Fits(s, y)
        BY <1>13, <1>14, <2>1, <3>1, <3>3, Zenon DEF OrderInv
      <4> QED
        BY <1>13, <3>3, <4>1, Zenon DEF Fits
    <3> QED
      BY <2>9, <3>2, <3>3, Zenon
  <2>12. probed # Nothing => Fits(probed, Current) /\ \A x \in Known' : Fits(x, probed)
    BY <1>13, <1>14, <2>1, <2>9, Zenon DEF OrderInv, Fits
  <2> QED
    BY <1>1, <2>1, <2>8, <2>10, <2>11, <2>12, Zenon DEF OrderInv, Fits
<1> QED
  BY <1>1, <1>3, <1>11, <1>12, <1>14, Zenon DEF InstanceInv

\* The steps of the instance's part, one of which every step is or changes nothing
\* of it.
LEMMA InstanceSteps ==
    ASSUME [Next]_vars
    PROVE  \/ serve \/ restart \/ tick \/ pushFails \/ onDataReceived
           \/ \E connected, answered \in BOOLEAN : updateOnce(connected, answered)
           \/ \E w \in WriteThreads : writerPop(w) \/ writeToMysql(w) \/ writeGivenUp(w)
           \/ UNCHANGED instanceVars
BY Zenon DEF Next, kernelStep, instanceStep, InstanceNext, pushStep, others, vars

\* Every step keeps InstanceInv.
LEMMA InstanceKept ==
    ASSUME InstanceInv, [Next]_vars
    PROVE  InstanceInv'
<1>1. CASE serve \/ restart \/ tick \/ pushFails \/ onDataReceived
  BY <1>1, ServeKept, RestartKept, TickKept, LossKept, QueuedKept, Zenon
<1>2. CASE \E connected, answered \in BOOLEAN : updateOnce(connected, answered)
  BY <1>2, ProbeKept, Zenon
<1>3. CASE \E w \in WriteThreads : writerPop(w) \/ writeToMysql(w) \/ writeGivenUp(w)
  BY <1>3, PopKept, WriteKept, GivenUpKept, Zenon
<1>4. CASE UNCHANGED instanceVars
  <2>1. UNCHANGED <<database, total, clock, probed, stamped, writeQueue, popped, lastOf, events, counted, missed, overtaken>>
    BY <1>4, Zenon DEF instanceVars
  <2>2. InstanceTypes' /\ Waiting' = Waiting
    BY <2>1, Zenon DEF InstanceInv, InstanceTypes, Waiting
  <2> QED
    BY <2>1, <2>2, FewerInOrder, Zenon
<1> QED
  BY <1>1, <1>2, <1>3, <1>4, InstanceSteps, Zenon

\* Initially no sample waits.
LEMMA NothingWaits == ASSUME Init PROVE Waiting = {}
<1>1. writeQueue = <<>> /\ popped = [w \in WriteThreads |-> Nothing]
  BY Zenon DEF Init, InstanceInit
<1>2. 1..Len(writeQueue) = {}
  BY <1>1
<1> QED
  BY <1>1, <1>2, InstanceAssumption, Zenon DEF Waiting

\* The initial state.
LEMMA InstanceStarts == Init => InstanceInv
<1> SUFFICES ASSUME Init PROVE InstanceInv
  BY Zenon
<1>1. /\ total = 0 /\ clock = 0 /\ stamped = 0 /\ probed = Nothing
      /\ writeQueue = <<>> /\ popped = [w \in WriteThreads |-> Nothing]
      /\ lastOf = [initialized |-> FALSE, count |-> 0, timestamp |-> 0, n |-> 0, at |-> 0]
      /\ events = 0 /\ counted = 0
  BY Zenon DEF Init, InstanceInit
<1>2. database \in {"mysql", "redis"} /\ missed \in BOOLEAN /\ overtaken \in BOOLEAN
  BY InstanceAssumption, Zenon DEF Init, InstanceInit
<1>3. writeQueue \in Seq(Stamped)
  BY <1>1
<1>4. Waiting = {}
  BY NothingWaits, Zenon
<1>5. popped \in [WriteThreads -> {Nothing} \cup Stamped]
  BY <1>1, Zenon
<1>6. lastOf \in LastSample
  BY <1>1 DEF LastSample
<1>7. InstanceTypes
  BY <1>1, <1>2, <1>3, <1>5, <1>6 DEF InstanceTypes
<1>8. Fits(lastOf, Current) /\ counted <= lastOf.at
  BY <1>1 DEF Fits, Current
<1>9. OrderInv
  BY <1>1, <1>4, <1>8, Zenon DEF OrderInv, Known
<1> QED
  BY <1>4, <1>7, <1>9, Zenon DEF InstanceInv

\* CountedOnceInOrder, for any number of writers, queue length, events, restarts
\* and lost samples: the rates and growths that writeToMysql() derives never show
\* an event twice, as long as every probe of the instance is answered in full and
\* no writer writes a sample after a later one.
THEOREM CountedHolds == Spec => []CountedOnceInOrder
<1>1. Init => InstanceInv
  BY InstanceStarts, Zenon
<1>2. InstanceInv /\ [Next]_vars => InstanceInv'
  BY InstanceKept, Zenon
<1>3. InstanceInv => CountedOnceInOrder
  <2> SUFFICES ASSUME InstanceInv, ~missed, ~overtaken PROVE counted <= events
    BY Zenon DEF CountedOnceInOrder, CountedOnce
  <2>1. /\ counted \in Nat /\ events \in Nat /\ lastOf.at \in Nat
        /\ counted <= lastOf.at /\ Fits(lastOf, Current)
    BY Zenon DEF InstanceInv, InstanceTypes, LastSample, OrderInv, Known
  <2> QED
    BY <2>1 DEF Fits, Current
<1> QED
  BY <1>1, <1>2, <1>3, PTL DEF Spec

-----------------------------------------------------------------------------
\* An instance that is down.  The sample of a probe without a connection counts
\* nothing, and its row has every field at its default.
DownRow ==
    IF database = "mysql"
    THEN [up |-> FALSE, connection_used_percent |-> 0, replication_configured |-> FALSE,
          replication_lag_seconds |-> 0, innodb_row_lock_waits_rate |-> 0,
          innodb_buffer_pool_hit_percent |-> 0, slow_queries_rate |-> 0]
    ELSE [up |-> FALSE, connection_used_percent |-> 0, memory_used_percent |-> 0,
          keyspace_hit_percent |-> 0, replication_configured |-> FALSE, master_link_up |-> FALSE,
          master_last_io_seconds_ago |-> 0, rejected_connections |-> 0, slowlog_growth |-> 0]

DownInv ==
    /\ probed # Nothing /\ ~probed.up => probed.count = 0
    /\ \A x \in Waiting : ~x.up => x.count = 0
    /\ detail # Nothing /\ ~detail.up => detail = DownRow

\* What the rules make of such a row.
LEMMA DownAlarms ==
    ASSUME detail = DownRow
    PROVE  {a.type : a \in IF database = "mysql" THEN mysqlAlarms(detail, Limits.mysql)
                                                 ELSE redisAlarms(detail, Limits.redis)}
           = {IF database = "mysql" THEN "MYSQL_DOWN" ELSE "REDIS_DOWN"}
<1>1. CASE database = "mysql"
  <2>1. /\ ~detail.up /\ detail.connection_used_percent = 0 /\ detail.replication_lag_seconds = 0
        /\ detail.innodb_row_lock_waits_rate = 0 /\ detail.innodb_buffer_pool_hit_percent = 0
        /\ detail.slow_queries_rate = 0
    BY <1>1, Zenon DEF DownRow
  <2>2. mysqlAlarms(detail, Limits.mysql) = Alarm(TRUE, "up", "MYSQL_DOWN", TRUE)
    BY <2>1, InstanceAssumption DEF mysqlAlarms, UsageAlarm, Alarm, MysqlThresholds
  <2> QED
    BY <1>1, <2>2 DEF Alarm
<1>2. CASE database # "mysql"
  <2>1. /\ ~detail.up /\ detail.connection_used_percent = 0 /\ detail.memory_used_percent = 0
        /\ detail.keyspace_hit_percent = 0 /\ ~detail.replication_configured
        /\ detail.master_last_io_seconds_ago = 0 /\ detail.rejected_connections = 0
        /\ detail.slowlog_growth = 0
    BY <1>2, Zenon DEF DownRow
  <2>2. redisAlarms(detail, Limits.redis) = Alarm(TRUE, "up", "REDIS_DOWN", TRUE)
    BY <2>1, InstanceAssumption DEF redisAlarms, UsageAlarm, Alarm, RedisThresholds
  <2> QED
    BY <1>2, <2>2 DEF Alarm
<1> QED
  BY <1>1, <1>2, Zenon

\* A counter at zero shows no growth, whatever it was before.
LEMMA ZeroShowsNothing ==
    ASSUME NEW last \in Nat, NEW t \in Int
    PROVE  counterRate(0, last, t) = 0 /\ counterDelta(0, last) = 0
<1>1. counterDelta(0, last) = 0
  BY DEF counterDelta
<1>2. CASE t <= 0 \/ 0 < last
  BY <1>1, <1>2, Zenon DEF counterRate
<1>3. CASE t > 0 /\ last = 0
  <2>1. 0 \div t = 0
    BY <1>3
  <2> QED
    BY <1>1, <1>3, <2>1 DEF counterRate
<1> QED
  BY <1>2, <1>3

\* Every step keeps DownInv.
LEMMA DownKept ==
    ASSUME InstanceInv, DownInv, [Next]_vars
    PROVE  DownInv'
<1>1. CASE \E connected, answered \in BOOLEAN : updateOnce(connected, answered)
  <2>1. PICK connected \in BOOLEAN, answered \in BOOLEAN : updateOnce(connected, answered)
    BY <1>1, Zenon
  <2>2. /\ UNCHANGED <<database, writeQueue, popped, detail>>
        /\ probed' = [up |-> connected, at |-> events, count |-> IF connected /\ answered THEN total ELSE 0]
    BY <2>1, Zenon DEF updateOnce, mysqlInfo, redisInfo
  <2>3. Waiting' = Waiting
    BY <2>2, Zenon DEF Waiting
  <2> QED
    BY <2>2, <2>3, Zenon DEF DownInv, DownRow
<1>2. CASE onDataReceived
  <2>1. /\ probed # Nothing /\ probed' = Nothing /\ UNCHANGED <<database, detail>>
    BY <1>2, Zenon DEF onDataReceived
  <2>2. \A x \in Waiting' : x \in Waiting \/ x = Queued
    BY <1>2, QueuedAdds, Zenon
  <2>3. Queued.up = probed.up /\ Queued.count = probed.count
    BY Zenon DEF Queued
  <2> QED
    BY <2>1, <2>2, <2>3, Zenon DEF DownInv, DownRow
<1>3. CASE \E w \in WriteThreads : writeToMysql(w)
  <2>1. PICK w \in WriteThreads : writeToMysql(w)
    BY <1>3, Zenon
  <2> DEFINE s == popped[w]
  <2>2. /\ s # Nothing /\ UNCHANGED <<database, probed, writeQueue>>
        /\ popped' = [popped EXCEPT ![w] = Nothing]
        /\ detail' = Row(s) \/ detail' = detail
    BY <2>1, Zenon DEF writeToMysql
  <2>3. InstanceTypes /\ popped \in [WriteThreads -> {Nothing} \cup Stamped]
    BY Zenon DEF InstanceInv, InstanceTypes
  <2>4. s \in Stamped /\ s \in Waiting
    BY <2>2, <2>3, Zenon DEF Waiting
  <2>5. Waiting' \subseteq Waiting
    BY <2>2, <2>3, PutDown, Zenon
  <2> HIDE DEF s
  <2>6. Row(s).up = s.up
    BY Zenon DEF Row, mysqlRow, redisRow
  <2>7. ASSUME ~s.up PROVE Row(s) = DownRow
    <3>1. s.count = 0 /\ s.up = FALSE /\ s.timestamp \in Nat
      BY <2>4, <2>7, Zenon DEF DownInv, Stamped
    <3>2. lastOf.count \in Nat /\ lastOf.timestamp \in Nat
      BY <2>3, Zenon DEF InstanceTypes, LastSample
    <3>3. s.timestamp - lastOf.timestamp \in Int
      BY <3>1, <3>2
    <3>4. /\ counterRate(s.count, lastOf.count, s.timestamp - lastOf.timestamp) = 0
          /\ counterDelta(s.count, lastOf.count) = 0
      BY <3>1, <3>2, <3>3, ZeroShowsNothing, Zenon
    <3> QED
      BY <3>1, <3>4, Zenon DEF Row, mysqlRow, redisRow, DownRow
  <2> QED
    BY <2>2, <2>5, <2>6, <2>7, Zenon DEF DownInv, DownRow
<1>4. CASE \/ serve \/ restart \/ tick \/ pushFails
           \/ \E w \in WriteThreads : writerPop(w) \/ writeGivenUp(w)
           \/ UNCHANGED instanceVars
  <2>1. UNCHANGED <<database, detail>> /\ (probed' = probed \/ probed' = Nothing)
    BY <1>4, Zenon DEF serve, restart, tick, pushFails, writerPop, writeGivenUp, instanceVars
  <2>2. Waiting' \subseteq Waiting
    <3>1. CASE \E w \in WriteThreads : writerPop(w)
      BY <3>1, PopTakes, Zenon
    <3>2. CASE \E w \in WriteThreads : writeGivenUp(w)
      BY <3>2, PutDown, Zenon DEF writeGivenUp, InstanceInv
    <3>3. CASE serve \/ restart \/ tick \/ pushFails \/ UNCHANGED instanceVars
      <4>1. UNCHANGED <<writeQueue, popped>>
        BY <3>3, Zenon DEF serve, restart, tick, pushFails, instanceVars
      <4> QED
        BY <4>1, Zenon DEF Waiting
    <3> QED
      BY <1>4, <3>1, <3>2, <3>3, Zenon
  <2> QED
    BY <2>1, <2>2, Zenon DEF DownInv, DownRow
<1> QED
  BY <1>1, <1>2, <1>3, <1>4, InstanceSteps, Zenon

\* DownRaisesOnlyDown, for any thresholds and any samples before: the row of an
\* instance that cannot be reached raises the alarm that it is down, and no other.
THEOREM DownHolds == Spec => []DownRaisesOnlyDown
<1>1. Init => InstanceInv /\ DownInv
  <2> SUFFICES ASSUME Init PROVE DownInv
    BY InstanceStarts, Zenon
  <2>1. probed = Nothing /\ detail = Nothing
    BY Zenon DEF Init, InstanceInit
  <2>2. Waiting = {}
    BY NothingWaits, Zenon
  <2> QED
    BY <2>1, <2>2, Zenon DEF DownInv
<1>2. InstanceInv /\ DownInv /\ [Next]_vars => InstanceInv' /\ DownInv'
  BY InstanceKept, DownKept, Zenon
<1>3. DownInv => DownRaisesOnlyDown
  BY DownAlarms, Zenon DEF DownInv, DownRaisesOnlyDown
<1> QED
  BY <1>1, <1>2, <1>3, PTL DEF Spec

-----------------------------------------------------------------------------
\* Sums.  A family of subsets of a finite set has a least member, and so has a
\* set of numbers: what fails for some set or number fails for a least one.
LEMMA LeastSubset ==
    ASSUME NEW S, IsFiniteSet(S), NEW T, T \subseteq SUBSET S, T # {}
    PROVE  \E U \in T : \A V \in T : V \subseteq U => V = U
<1>1. T \subseteq FiniteSubsetsOf(S)
  BY FS_FiniteSubsetsOfFinite, Zenon
<1>2. PICK U \in T : \A V \in T : ~(<<V, U>> \in StrictSubsetOrdering(S))
  BY <1>1, FS_StrictSubsetOrderingWellFounded, WFMin, Zenon
<1>3. ASSUME NEW V \in T, V \subseteq U PROVE V = U
  BY <1>2, <1>3, Zenon DEF StrictSubsetOrdering
<1> QED
  BY <1>3, Zenon

\* A nonempty set of naturals has a least member.
LEMMA LeastNatural ==
    ASSUME NEW T, T \subseteq Nat, T # {}
    PROVE  \E n \in T : \A m \in T : n <= m
<1>1. PICK k \in T : TRUE
  BY Zenon
<1> DEFINE B == 0 .. k
           F == {0 .. m : m \in {i \in T : i <= k}}
<1>2. IsFiniteSet(B)
  <2>1. 0 \in Int /\ k \in Int
    OBVIOUS
  <2> QED
    BY <2>1, FS_Interval, Zenon
<1>3. F # {} /\ F \subseteq SUBSET B
  OBVIOUS
<1>4. PICK U \in F : \A V \in F : V \subseteq U => V = U
  <2> HIDE DEF B, F
  <2> QED
    BY <1>2, <1>3, LeastSubset
<1>5. PICK n \in T : n <= k /\ U = 0 .. n
  BY Zenon
<1>6. ASSUME NEW m \in T PROVE n <= m
  <2> SUFFICES ASSUME m < n PROVE FALSE
    OBVIOUS
  <2>1. 0 .. m \in F /\ 0 .. m \subseteq U
    BY <1>5
  <2>2. 0 .. m = 0 .. n
    BY <1>4, <1>5, <2>1, Zenon
  <2> QED
    BY <2>2
<1> QED
  BY <1>6, Zenon

\* SumFunction() of the library takes the elements one by one, as CHOOSE gives
\* them.
Pick(s) == CHOOSE x \in s : TRUE

Summand(g, f, s) == IF s = {} THEN 0 ELSE f[Pick(s)] + g[s \ {Pick(s)}]

IsSum(g, f, S) == g = [s \in SUBSET S |-> Summand(g, f, s)]

\* A finite set has a function that sums over its subsets.
LEMMA SumExists ==
    ASSUME NEW S, IsFiniteSet(S), NEW f \in [S -> Int]
    PROVE  \E g : IsSum(g, f, S) /\ g \in [SUBSET S -> Int]
<1> DEFINE D(n) == {s \in SUBSET S : Cardinality(s) <= n}
           Upto(n) == \E g \in [D(n) -> Int] : \A s \in D(n) : g[s] = Summand(g, f, s)
<1>1. \A s \in SUBSET S : s # {} => Pick(s) \in s
  BY Zenon DEF Pick
<1>2. \A s \in SUBSET S : IsFiniteSet(s) /\ Cardinality(s) \in Nat /\ Cardinality(s) <= Cardinality(S)
  BY FS_Subset, FS_CardinalityType, Zenon
<1>3. \A s \in SUBSET S : Cardinality(s) = 0 <=> s = {}
  BY <1>2, FS_EmptySet, Zenon
<1>4. \A s \in SUBSET S : s # {} => Cardinality(s \ {Pick(s)}) = Cardinality(s) - 1
  BY <1>1, <1>2, FS_RemoveElement, Zenon
<1>5. Upto(0)
  <2> DEFINE g == [s \in D(0) |-> 0]
  <2>1. \A s \in D(0) : s = {}
    BY <1>2, <1>3
  <2>2. g \in [D(0) -> Int]
    OBVIOUS
  <2>3. \A s \in D(0) : g[s] = Summand(g, f, s)
    BY <2>1, Zenon DEF Summand
  <2> HIDE DEF g, D
  <2> QED
    BY <2>2, <2>3, Zenon
<1>6. ASSUME NEW n \in Nat, Upto(n) PROVE Upto(n + 1)
  <2>1. PICK g \in [D(n) -> Int] : \A s \in D(n) : g[s] = Summand(g, f, s)
    BY <1>6, Zenon
  <2> DEFINE h == [s \in D(n + 1) |-> Summand(g, f, s)]
  <2>2. \A s \in D(n + 1) : s # {} => Pick(s) \in S /\ s \ {Pick(s)} \in D(n)
    BY <1>1, <1>2, <1>4
  <2>3. h \in [D(n + 1) -> Int]
    BY <2>2 DEF Summand
  <2>4. \A s \in D(n) : s \in D(n + 1) /\ h[s] = g[s]
    BY <1>2, <2>1
  <2>5. \A s \in D(n + 1) : h[s] = Summand(h, f, s)
    BY <2>2, <2>4, Zenon DEF Summand
  <2> HIDE DEF h, D
  <2> QED
    BY <2>3, <2>5, Zenon
<1> HIDE DEF Upto
<1>7. \A n \in Nat : Upto(n)
  <2> DEFINE Bad == {n \in Nat : ~Upto(n)}
  <2> SUFFICES ASSUME Bad # {} PROVE FALSE
    BY Zenon
  <2>1. PICK n \in Bad : \A m \in Bad : n <= m
    BY LeastNatural, Zenon
  <2>2. n # 0
    BY <1>5, Zenon
  <2>3. n - 1 \in Nat /\ n - 1 \notin Bad
    BY <2>1, <2>2
  <2>4. Upto(n - 1 + 1)
    BY <1>6, <2>3, Zenon
  <2> QED
    BY <2>4
<1>8. Upto(Cardinality(S))
  BY <1>7, <1>2, Zenon
<1>9. D(Cardinality(S)) = SUBSET S
  BY <1>2, Zenon
<1> HIDE DEF D
<1>10. PICK g \in [SUBSET S -> Int] : \A s \in SUBSET S : g[s] = Summand(g, f, s)
  BY <1>8, <1>9, Zenon DEF Upto
<1>11. IsSum(g, f, S)
  BY <1>10, Zenon DEF IsSum
<1> QED
  BY <1>10, <1>11, Zenon

\* The sum of a function is what any such accumulation makes of its domain.
LEMMA SumIs ==
    ASSUME NEW S, IsFiniteSet(S), NEW f \in [S -> Int]
    PROVE  \E g \in [SUBSET S -> Int] :
              /\ \A s \in SUBSET S : g[s] = Summand(g, f, s)
              /\ SumFunction(f) = g[S]
<1> DEFINE it == CHOOSE g : IsSum(g, f, S)
<1>1. PICK g : IsSum(g, f, S) /\ g \in [SUBSET S -> Int]
  BY SumExists, Zenon
<1>2. IsSum(it, f, S)
  BY <1>1, Zenon
<1>3. DOMAIN f = S
  BY Zenon
<1>4. SumFunction(f) = it[S]
  BY <1>3, Zenon DEF SumFunction, SumFunctionOnSet, FoldFunctionOnSet, FoldFunction, MapThenFoldSet, IsSum, Summand, Pick
<1> HIDE DEF it
<1>5. \A s \in SUBSET S : it[s] = Summand(it, f, s)
  BY <1>2, Zenon DEF IsSum
<1>6. it \in [SUBSET S -> Int]
  <2>1. DOMAIN it = SUBSET S /\ it = [s \in SUBSET S |-> it[s]]
    BY <1>2, Zenon DEF IsSum
  <2> DEFINE Bad == {s \in SUBSET S : it[s] \notin Int}
  <2>2. Bad = {}
    <3> SUFFICES ASSUME Bad # {} PROVE FALSE
      BY Zenon
    <3>1. PICK U \in Bad : \A V \in Bad : V \subseteq U => V = U
      <4>1. Bad \subseteq SUBSET S
        BY Zenon
      <4> HIDE DEF Bad
      <4> QED
        BY <4>1, LeastSubset
    <3>2. CASE U = {}
      <4>1. it[U] = 0
        BY <1>5, <3>2, Zenon DEF Summand
      <4> QED
        BY <4>1
    <3>3. CASE U # {}
      <4>1. Pick(U) \in U
        BY <3>3, Zenon DEF Pick
      <4>2. U \ {Pick(U)} \notin Bad
        BY <3>1, <4>1, Zenon
      <4>3. it[U] = f[Pick(U)] + it[U \ {Pick(U)}]
        BY <1>5, <3>3, Zenon DEF Summand
      <4> QED
        BY <4>1, <4>2, <4>3
    <3> QED
      BY <3>2, <3>3, Zenon
  <2> QED
    BY <2>1, <2>2, Zenon
<1> QED
  BY <1>4, <1>5, <1>6, Zenon

\* Sums of natural numbers are natural numbers, and of zeros zero.
LEMMA SumNat ==
    ASSUME NEW S, IsFiniteSet(S), NEW f \in [S -> Nat]
    PROVE  SumFunction(f) \in Nat /\ ((\A x \in S : f[x] = 0) => SumFunction(f) = 0)
<1>1. f \in [S -> Int]
  OBVIOUS
<1>2. PICK g \in [SUBSET S -> Int] : /\ \A s \in SUBSET S : g[s] = Summand(g, f, s)
                                     /\ SumFunction(f) = g[S]
  BY <1>1, SumIs, Zenon
<1> DEFINE Right(s) == g[s] \in Nat /\ ((\A x \in S : f[x] = 0) => g[s] = 0)
           Bad == {s \in SUBSET S : ~Right(s)}
<1>3. Bad = {}
  <2> SUFFICES ASSUME Bad # {} PROVE FALSE
    BY Zenon
  <2>1. PICK U \in Bad : \A V \in Bad : V \subseteq U => V = U
    <3>1. Bad \subseteq SUBSET S
      BY Zenon
    <3> HIDE DEF Bad
    <3> QED
      BY <3>1, LeastSubset
  <2>2. CASE U = {}
    <3>1. g[U] = 0
      BY <1>2, <2>2, Zenon DEF Summand
    <3> QED
      BY <3>1
  <2>3. CASE U # {}
    <3>1. Pick(U) \in U
      BY <2>3, Zenon DEF Pick
    <3>2. U \ {Pick(U)} \in SUBSET S /\ U \ {Pick(U)} \notin Bad
      BY <2>1, <3>1, Zenon
    <3>3. g[U] = f[Pick(U)] + g[U \ {Pick(U)}]
      BY <1>2, <2>3, Zenon DEF Summand
    <3>4. Right(U \ {Pick(U)}) /\ f[Pick(U)] \in Nat /\ Pick(U) \in S
      BY <3>1, <3>2, Zenon
    <3>5. Right(U)
      BY <3>3, <3>4
    <3> QED
      BY <3>5, Zenon
  <2> QED
    BY <2>2, <2>3, Zenon
<1> QED
  BY <1>2, <1>3, Zenon

\* A change at one point changes the sum by as much.
LEMMA SumPoint ==
    ASSUME NEW S, IsFiniteSet(S), NEW f \in [S -> Nat], NEW h \in [S -> Nat], NEW a \in S,
           \A x \in S : x # a => h[x] = f[x]
    PROVE  SumFunction(h) = SumFunction(f) + (h[a] - f[a])
<1>1. f \in [S -> Int] /\ h \in [S -> Int]
  OBVIOUS
<1>2. PICK g \in [SUBSET S -> Int] : /\ \A s \in SUBSET S : g[s] = Summand(g, f, s)
                                     /\ SumFunction(f) = g[S]
  BY <1>1, SumIs, Zenon
<1>3. PICK k \in [SUBSET S -> Int] : /\ \A s \in SUBSET S : k[s] = Summand(k, h, s)
                                     /\ SumFunction(h) = k[S]
  BY <1>1, SumIs, Zenon
<1> DEFINE Right(s) == k[s] = g[s] + (IF a \in s THEN h[a] - f[a] ELSE 0)
           Bad == {s \in SUBSET S : ~Right(s)}
<1>4. Bad = {}
  <2> SUFFICES ASSUME Bad # {} PROVE FALSE
    BY Zenon
  <2>1. PICK U \in Bad : \A V \in Bad : V \subseteq U => V = U
    <3>1. Bad \subseteq SUBSET S
      BY Zenon
    <3> HIDE DEF Bad
    <3> QED
      BY <3>1, LeastSubset
  <2>2. CASE U = {}
    <3>1. g[U] = 0 /\ k[U] = 0
      BY <1>2, <1>3, <2>2, Zenon DEF Summand
    <3> QED
      BY <2>2, <3>1
  <2>3. CASE U # {}
    <3> DEFINE p == Pick(U)
               V == U \ {p}
    <3>1. p \in U
      BY <2>3, Zenon DEF Pick
    <3>2. V \in SUBSET S /\ V \notin Bad
      BY <2>1, <3>1, Zenon
    <3>3. g[U] = f[p] + g[V] /\ k[U] = h[p] + k[V]
      BY <1>2, <1>3, <2>3, Zenon DEF Summand
    <3>4. Right(V)
      BY <3>2, Zenon
    <3>5. p \in S /\ f[p] \in Nat /\ h[p] \in Nat /\ g[V] \in Int /\ k[V] \in Int /\ f[a] \in Nat /\ h[a] \in Nat
      BY <3>1, <3>2, Zenon
    <3>6. CASE p = a
      <4>1. a \notin V /\ a \in U
        BY <3>1, <3>6, Zenon
      <4>2. k[V] = g[V]
        BY <3>4, <3>5, <4>1
      <4>3. k[U] = g[U] + (h[a] - f[a])
        <5> HIDE DEF V, p
        <5> QED
          BY <3>3, <3>5, <3>6, <4>2
      <4> QED
        BY <4>1, <4>3, Zenon
    <3>7. CASE p # a
      <4>1. (a \in V <=> a \in U) /\ h[p] = f[p]
        BY <3>1, <3>5, <3>7, Zenon
      <4>2. CASE a \in U
        <5>1. k[V] = g[V] + (h[a] - f[a])
          BY <3>4, <4>1, <4>2, Zenon
        <5>2. k[U] = g[U] + (h[a] - f[a])
          <6> HIDE DEF V, p
          <6> QED
            BY <3>3, <3>5, <4>1, <5>1
        <5> QED
          BY <4>2, <5>2, Zenon
      <4>3. CASE a \notin U
        <5>1. k[V] = g[V] + 0
          BY <3>4, <4>1, <4>3, Zenon
        <5>2. k[U] = g[U] + 0
          <6> HIDE DEF V, p
          <6> QED
            BY <3>3, <3>5, <4>1, <5>1
        <5> QED
          BY <4>3, <5>2, Zenon
      <4> QED
        BY <4>2, <4>3, Zenon
    <3> QED
      BY <3>6, <3>7, Zenon
  <2> QED
    BY <2>2, <2>3, Zenon
<1>5. Right(S)
  BY <1>4, Zenon
<1> QED
  BY <1>2, <1>3, <1>5, Zenon

-----------------------------------------------------------------------------
\* The packets of the samples.  What the next sample would take from an entry,
\* and what the sample at hand takes as long as the dispatcher has not got it.
Residue ==
    [i \in Interface |-> IF entries[i] = NoSlot THEN 0 ELSE Difference(value[entries[i]], seen[i])]

Pending == IF pusher \in {"collect", "calling"} THEN SumFunction(diff) ELSE 0

PacketTypes ==
    /\ seen \in [Interface -> Nat \cup {NoSlot}]
    /\ diff \in [Interface -> Nat]
    /\ reading \subseteq Interface
    /\ pusher = "collect" => \A i \in reading : diff[i] = 0
    /\ accepted \in Nat

PacketInv == PacketTypes /\ accepted + Pending + SumFunction(Residue) <= SumFunction(packets)

\* One packet more makes the difference shown greater by one at most.
LEMMA DifferenceNat ==
    ASSUME NEW n \in Nat, NEW old \in Nat \cup {NoSlot}
    PROVE  /\ Difference(n, old) \in Nat
           /\ Difference(n + 1, old) <= Difference(n, old) + 1
           /\ Difference(1, old) <= 1
           /\ Difference(n, n) = 0
BY DEF Difference

\* The terms of the account are naturals.
LEMMA SumsNat ==
    ASSUME NetInv, PacketTypes
    PROVE  /\ Residue \in [Interface -> Nat]
           /\ SumFunction(Residue) \in Nat /\ SumFunction(diff) \in Nat
           /\ SumFunction(packets) \in Nat /\ Pending \in Nat
<1>1. Residue \in [Interface -> Nat]
  <2> SUFFICES ASSUME NEW i \in Interface, entries[i] # NoSlot
               PROVE  Difference(value[entries[i]], seen[i]) \in Nat
    BY Zenon DEF Residue
  <2>1. value[entries[i]] \in Nat /\ seen[i] \in Nat \cup {NoSlot}
    BY Zenon DEF NetInv, PacketTypes
  <2> QED
    BY <2>1, DifferenceNat, Zenon
<1>2. diff \in [Interface -> Nat] /\ packets \in [Interface -> Nat]
  BY Zenon DEF NetInv, PacketTypes
<1>3. SumFunction(Residue) \in Nat /\ SumFunction(diff) \in Nat /\ SumFunction(packets) \in Nat
  BY <1>1, <1>2, SumNat, InterfaceAssumption, Zenon
<1> QED
  BY <1>1, <1>3, Zenon DEF Pending

\* A packet adds one to the packets, and at most one to what the next sample
\* takes: of the interface whose entry it counts in, whoever's packet it was.
LEMMA PacketAddsOne ==
    ASSUME NetInv, PacketTypes, NetInv', PacketTypes', NEW j \in Interface,
           packets' = [packets EXCEPT ![j] = @ + 1], NEW i \in Interface,
           \A k \in Interface : k # i => Residue'[k] = Residue[k],
           Residue'[i] <= Residue[i] + 1
    PROVE  /\ SumFunction(packets') = SumFunction(packets) + 1
           /\ SumFunction(Residue') <= SumFunction(Residue) + 1
<1>1. packets \in [Interface -> Nat] /\ packets' \in [Interface -> Nat]
  BY Zenon DEF NetInv
<1>2. \A k \in Interface : k # j => packets'[k] = packets[k]
  BY <1>1, Zenon
<1>3. packets'[j] = packets[j] + 1 /\ packets[j] \in Nat
  BY <1>1, Zenon
<1>4. SumFunction(packets') = SumFunction(packets) + (packets'[j] - packets[j])
  <2>1. ASSUME NEW f \in [Interface -> Nat], NEW h \in [Interface -> Nat],
               \A k \in Interface : k # j => h[k] = f[k]
        PROVE  SumFunction(h) = SumFunction(f) + (h[j] - f[j])
    BY <2>1, SumPoint, InterfaceAssumption
  <2> QED
    BY <1>1, <1>2, <2>1, Zenon
<1>5. Residue \in [Interface -> Nat] /\ Residue' \in [Interface -> Nat]
  <2>1. Residue \in [Interface -> Nat]
    BY SumsNat, Zenon
  <2>2. Residue' \in [Interface -> Nat]
    <3> SUFFICES ASSUME NEW k \in Interface, entries'[k] # NoSlot
                 PROVE  Difference(value'[entries'[k]], seen'[k]) \in Nat
      BY Zenon DEF Residue
    <3>1. value'[entries'[k]] \in Nat /\ seen'[k] \in Nat \cup {NoSlot}
      BY DEF NetInv, PacketTypes
    <3> QED
      BY <3>1, DifferenceNat, Zenon
  <2> QED
    BY <2>1, <2>2, Zenon
<1>6. SumFunction(Residue') = SumFunction(Residue) + (Residue'[i] - Residue[i])
  BY <1>5, SumPoint, InterfaceAssumption
<1>7. SumFunction(packets) \in Nat /\ SumFunction(Residue) \in Nat
  BY SumsNat, Zenon
<1>8. Residue[i] \in Nat /\ Residue'[i] \in Nat
  BY <1>5, Zenon
<1>9. SumFunction(packets') = SumFunction(packets) + 1
  BY <1>3, <1>4, <1>7
<1>10. SumFunction(Residue') <= SumFunction(Residue) + 1
  BY <1>6, <1>7, <1>8
<1> QED
  BY <1>9, <1>10, Zenon

\* What a packet leaves alone.
LEMMA PacketLeaves ==
    ASSUME NetInv, PacketInv, packet
    PROVE  /\ NetInv' /\ PacketTypes' /\ accepted' = accepted /\ Pending' = Pending
           /\ seen' = seen
<1>1. UNCHANGED <<seen, reading, diff, pusher, accepted>>
  BY Zenon DEF packet, packetStep, monitorVars, pushVars
<1>2. NetInv'
  BY PacketExact, Zenon DEF packet
<1>3. PacketTypes'
  BY <1>1, Zenon DEF PacketInv, PacketTypes
<1> QED
  BY <1>1, <1>2, <1>3, Zenon DEF Pending

\* A step of a packet keeps the account.
LEMMA PacketCounted ==
    ASSUME NetInv, PacketInv, packet
    PROVE  PacketInv'
<1>1. /\ NetInv' /\ PacketTypes' /\ accepted' = accepted /\ Pending' = Pending /\ seen' = seen
      /\ PacketTypes
  BY PacketLeaves, Zenon DEF PacketInv
<1>2. PICK c \in Cpu : (\E i \in Interface : lookup(c, i)) \/ (\E s \in Slot : insert(c, s)) \/ add(c)
  BY Zenon DEF packet, packetStep
<1>3. /\ SumFunction(Residue) \in Nat /\ SumFunction(packets) \in Nat /\ Pending \in Nat
      /\ accepted \in Nat
  BY <1>1, SumsNat, Zenon DEF PacketTypes
<1>4. accepted + Pending + SumFunction(Residue) <= SumFunction(packets)
  BY Zenon DEF PacketInv
<1>5. ASSUME SumFunction(packets') = SumFunction(packets) + 1,
             SumFunction(Residue') <= SumFunction(Residue) + 1, SumFunction(Residue') \in Nat
      PROVE  PacketInv'
  <2>1. accepted' + Pending' + SumFunction(Residue') <= SumFunction(packets')
    BY <1>1, <1>3, <1>4, <1>5
  <2> QED
    BY <1>1, <2>1, Zenon DEF PacketInv
<1>6. SumFunction(Residue') \in Nat
  <2>1. Residue' \in [Interface -> Nat]
    <3> SUFFICES ASSUME NEW k \in Interface, entries'[k] # NoSlot
                 PROVE  Difference(value'[entries'[k]], seen'[k]) \in Nat
      BY Zenon DEF Residue
    <3>1. value'[entries'[k]] \in Nat /\ seen'[k] \in Nat \cup {NoSlot}
      BY <1>1, Zenon DEF NetInv, PacketTypes
    <3> QED
      BY <3>1, DifferenceNat, Zenon
  <2> QED
    BY <2>1, SumNat, InterfaceAssumption, Zenon
<1>7. ASSUME NEW i \in Interface, lookup(c, i) PROVE PacketInv'
  <2>1. entries' = entries /\ value' = value /\ packets' = packets
    BY <1>7, Zenon DEF lookup
  <2>2. Residue' = Residue
    BY <1>1, <2>1, Zenon DEF Residue
  <2> QED
    BY <1>1, <1>4, <2>1, <2>2, Zenon DEF PacketInv
<1>8. ASSUME NEW s \in Slot, insert(c, s) PROVE PacketInv'
  <2> DEFINE i == cpu[c].interface
  <2>1. i \in Interface
    BY <1>8, NetAssumption DEF insert, NetInv, CpuState, Idle
  <2>2. packets' = [packets EXCEPT ![i] = @ + 1]
    BY <1>8, Zenon DEF insert
  <2>3. \A j \in Interface : entries[j] # s
    BY <1>8, NetAssumption, Zenon DEF insert, NetInv, Keys
  <2>4. \/ entries' = entries /\ value' = value
        \/ entries' = [entries EXCEPT ![i] = s] /\ value' = [value EXCEPT ![s] = 1]
    BY <1>8, Zenon DEF insert
  <2> HIDE DEF i
  <2>5. \A k \in Interface : k # i => Residue'[k] = Residue[k]
    <3> SUFFICES ASSUME NEW k \in Interface, k # i
                 PROVE  /\ entries'[k] = entries[k]
                        /\ entries[k] # NoSlot => value'[entries[k]] = value[entries[k]]
      BY <1>1, Zenon DEF Residue
    <3> QED
      BY <2>1, <2>3, <2>4, Zenon DEF NetInv
  <2>6. Residue'[i] <= Residue[i] + 1
    <3>1. Residue[i] \in Nat
      BY <1>1, <2>1, SumsNat, Zenon
    <3>2. CASE entries' = entries /\ value' = value
      <4>1. Residue'[i] = Residue[i]
        BY <1>1, <2>1, <3>2, Zenon DEF Residue
      <4> QED
        BY <3>1, <4>1
    <3>3. CASE entries' = [entries EXCEPT ![i] = s] /\ value' = [value EXCEPT ![s] = 1]
      <4>1. entries'[i] = s /\ value'[s] = 1
        BY <2>1, <3>3, Zenon DEF NetInv
      <4>2. Residue'[i] = Difference(1, seen[i])
        BY <1>1, <2>1, <4>1, NetAssumption, Zenon DEF Residue
      <4>3. seen[i] \in Nat \cup {NoSlot} /\ 1 \in Nat
        BY <1>1, <2>1, Zenon DEF PacketTypes
      <4>4. Difference(1, seen[i]) \in Nat /\ Difference(1, seen[i]) <= 1
        BY <4>3, DifferenceNat, Zenon
      <4> QED
        BY <3>1, <4>2, <4>4
    <3> QED
      BY <2>4, <3>2, <3>3, Zenon
  <2>7. /\ SumFunction(packets') = SumFunction(packets) + 1
        /\ SumFunction(Residue') <= SumFunction(Residue) + 1
    BY <1>1, <2>1, <2>2, <2>5, <2>6, PacketAddsOne, Zenon
  <2> QED
    BY <1>5, <1>6, <2>7, Zenon
<1>9. ASSUME add(c) PROVE PacketInv'
  <2> DEFINE j == cpu[c].interface
             s == cpu[c].slot
  <2>1. j \in Interface /\ s \in Slot
    BY <1>9 DEF add, NetInv, CpuState, Idle
  <2>2. /\ entries' = entries
        /\ value' = [value EXCEPT ![s] = @ + 1]
        /\ packets' = [packets EXCEPT ![j] = @ + 1]
    BY <1>9, Zenon DEF add, Added
  <2> HIDE DEF j, s
  <2>3. ASSUME NEW i \in Interface, entries[i] = s
        PROVE  /\ \A k \in Interface : k # i => Residue'[k] = Residue[k]
               /\ Residue'[i] <= Residue[i] + 1
    <3>1. ASSUME NEW k \in Interface, k # i PROVE Residue'[k] = Residue[k]
      <4>1. entries[k] # NoSlot => entries[k] # s /\ entries[k] \in Slot
        BY <2>1, <2>3, <3>1, NetAssumption, Zenon DEF NetInv
      <4>2. entries[k] # NoSlot => value'[entries[k]] = value[entries[k]]
        BY <2>1, <2>2, <4>1, Zenon DEF NetInv
      <4> QED
        BY <1>1, <2>2, <4>2 DEF Residue
    <3>2. Residue'[i] <= Residue[i] + 1
      <4>1. s # NoSlot /\ value[s] \in Nat /\ value'[s] = value[s] + 1 /\ seen[i] \in Nat \cup {NoSlot}
        BY <1>1, <2>1, <2>2, NetAssumption, Zenon DEF NetInv, PacketTypes
      <4>2. Residue'[i] = Difference(value[s] + 1, seen[i]) /\ Residue[i] = Difference(value[s], seen[i])
        BY <1>1, <2>2, <2>3, <4>1, Zenon DEF Residue
      <4> QED
        BY <4>1, <4>2, DifferenceNat, Zenon
    <3> QED
      BY <3>1, <3>2, Zenon
  <2>4. ASSUME \A i \in Interface : entries[i] # s
        PROVE  \A k \in Interface : Residue'[k] = Residue[k]
    <3> SUFFICES ASSUME NEW k \in Interface, entries[k] # NoSlot
                 PROVE  value'[entries[k]] = value[entries[k]]
      BY <1>1, <2>2 DEF Residue
    <3> QED
      BY <2>1, <2>2, <2>4, Zenon DEF NetInv
  <2>5. /\ SumFunction(packets') = SumFunction(packets) + 1
        /\ SumFunction(Residue') <= SumFunction(Residue) + 1
    <3>1. CASE \E i \in Interface : entries[i] = s
      BY <1>1, <2>1, <2>2, <2>3, <3>1, PacketAddsOne, Zenon
    <3>2. CASE ~(\E i \in Interface : entries[i] = s)
      <4>1. \A k \in Interface : Residue'[k] = Residue[k]
        BY <2>4, <3>2, Zenon
      <4>2. Residue'[j] <= Residue[j] + 1
        <5>1. Residue[j] \in Nat
          BY <1>1, <2>1, SumsNat, Zenon
        <5> QED
          BY <2>1, <4>1, <5>1
      <4> QED
        BY <1>1, <2>1, <2>2, <4>1, <4>2, PacketAddsOne, Zenon
    <3> QED
      BY <3>1, <3>2, Zenon
  <2> QED
    BY <1>5, <1>6, <2>5, Zenon
<1> QED
  BY <1>2, <1>7, <1>8, <1>9, Zenon

\* The sample takes over what the entry has gained since the last one.
LEMMA ReadCounted ==
    ASSUME NetInv, PacketInv, NEW i \in Interface, pusher = "collect", readEntry(i),
           UNCHANGED pushVars
    PROVE  PacketInv'
<1> DEFINE v == value[entries[i]]
<1>1. PacketTypes /\ accepted + Pending + SumFunction(Residue) <= SumFunction(packets)
  BY Zenon DEF PacketInv
<1>2. /\ entries[i] # NoSlot /\ i \in reading
      /\ diff' = [diff EXCEPT ![i] = Difference(v, seen[i])]
      /\ seen' = [seen EXCEPT ![i] = v]
      /\ reading' = reading \ {i}
      /\ entries' = entries /\ value' = value /\ packets' = packets
      /\ pusher' = pusher /\ accepted' = accepted
  BY Zenon DEF readEntry, Keys, mapVars, pushVars
<1>3. v \in Nat /\ seen[i] \in Nat \cup {NoSlot} /\ diff[i] = 0
  BY <1>1, <1>2, Zenon DEF NetInv, PacketTypes
<1>4. Difference(v, seen[i]) \in Nat /\ Difference(v, v) = 0
  BY <1>3, DifferenceNat, Zenon
<1>5. Residue[i] = Difference(v, seen[i])
  BY <1>2, Zenon DEF Residue
<1>6. seen'[i] = v /\ \A k \in Interface : k # i => seen'[k] = seen[k]
  BY <1>1, <1>2, Zenon DEF PacketTypes
<1> HIDE DEF v
<1>7. PacketTypes'
  BY <1>1, <1>2, <1>3, <1>4, Zenon DEF PacketTypes
<1>8. Residue' \in [Interface -> Nat] /\ Residue'[i] = 0
        /\ \A k \in Interface : k # i => Residue'[k] = Residue[k]
  <2>1. Residue'[i] = 0
    BY <1>2, <1>4, <1>6, Zenon DEF Residue, v
  <2>2. ASSUME NEW k \in Interface, k # i PROVE Residue'[k] = Residue[k]
    <3>1. entries'[k] = entries[k] /\ value' = value /\ seen'[k] = seen[k]
      BY <1>2, <1>6, <2>2, Zenon
    <3> QED
      BY <3>1, Zenon DEF Residue
  <2>3. Residue \in [Interface -> Nat]
    BY <1>1, SumsNat, Zenon
  <2>4. Residue' = [k \in Interface |-> Residue'[k]]
    BY Zenon DEF Residue
  <2> QED
    BY <2>1, <2>2, <2>3, <2>4
<1>9. diff \in [Interface -> Nat] /\ diff' \in [Interface -> Nat] /\ diff'[i] = Difference(v, seen[i])
        /\ \A k \in Interface : k # i => diff'[k] = diff[k]
  BY <1>1, <1>2, <1>4, Zenon DEF PacketTypes
<1>10. SumFunction(diff') = SumFunction(diff) + (diff'[i] - diff[i])
  BY <1>9, SumPoint, InterfaceAssumption
<1>11. Residue \in [Interface -> Nat] /\ SumFunction(Residue) \in Nat /\ SumFunction(diff) \in Nat
         /\ SumFunction(packets) \in Nat /\ accepted \in Nat
  BY <1>1, SumsNat, Zenon DEF PacketTypes
<1>12. SumFunction(Residue') = SumFunction(Residue) + (Residue'[i] - Residue[i])
  BY <1>8, <1>11, SumPoint, InterfaceAssumption
<1>13. Pending' = SumFunction(diff') /\ Pending = SumFunction(diff)
  BY <1>2, Zenon DEF Pending
<1>14. Pending' + SumFunction(Residue') = Pending + SumFunction(Residue)
  <2>1. SumFunction(diff') = SumFunction(diff) + Difference(v, seen[i])
    BY <1>3, <1>4, <1>9, <1>10, <1>11
  <2>2. SumFunction(Residue') = SumFunction(Residue) - Difference(v, seen[i])
    BY <1>4, <1>5, <1>8, <1>11, <1>12
  <2> QED
    BY <1>4, <1>11, <1>13, <2>1, <2>2
<1>15. Pending \in Nat /\ Pending' \in Nat /\ SumFunction(Residue') \in Nat
  <2>1. SumFunction(Residue') \in Nat /\ SumFunction(diff') \in Nat
    BY <1>8, <1>9, SumNat, InterfaceAssumption, Zenon
  <2> QED
    BY <1>11, <1>13, <2>1, Zenon
<1>16. accepted' + Pending' + SumFunction(Residue') <= SumFunction(packets')
  BY <1>1, <1>2, <1>11, <1>14, <1>15
<1> QED
  BY <1>7, <1>16, Zenon DEF PacketInv

\* A step that leaves the map and the cache alone, and hands the dispatcher no
\* more than the sample at hand.
LEMMA HandsOver ==
    ASSUME NetInv, PacketInv, PacketTypes',
           entries' = entries, value' = value, packets' = packets, seen' = seen,
           accepted' + Pending' <= accepted + Pending, Pending' \in Nat
    PROVE  PacketInv'
<1>1. Residue' = Residue
  BY Zenon DEF Residue
<1>2. /\ SumFunction(Residue) \in Nat /\ SumFunction(packets) \in Nat
      /\ Pending \in Nat /\ accepted \in Nat /\ accepted' \in Nat
  BY SumsNat, Zenon DEF PacketInv, PacketTypes
<1>3. accepted + Pending + SumFunction(Residue) <= SumFunction(packets)
  BY Zenon DEF PacketInv
<1>4. accepted' + Pending' + SumFunction(Residue) <= SumFunction(packets)
  <2>1. ASSUME NEW a \in Nat, NEW b \in Nat, NEW c \in Nat, NEW d \in Nat, NEW r \in Nat, NEW p \in Nat,
               a + b + r <= p, c + d <= a + b
        PROVE  c + d + r <= p
    BY <2>1
  <2> QED
    BY <1>2, <1>3, <2>1, Zenon
<1> QED
  BY <1>1, <1>4, Zenon DEF PacketInv

\* The steps of the push loop keep the account.
LEMMA LoopCounted ==
    ASSUME NetInv, PacketInv, loopStep
    PROVE  PacketInv'
<1>1. PacketTypes
  BY Zenon DEF PacketInv
<1>2. Pending \in Nat /\ accepted \in Nat /\ SumFunction(diff) \in Nat
  BY <1>1, SumsNat, Zenon DEF PacketTypes
<1>3. CASE loopHead
  <2>1. /\ entries' = entries /\ value' = value /\ packets' = packets /\ seen' = seen
        /\ accepted' = accepted
    BY <1>3, Zenon DEF loopHead, collectBegin, mapVars, monitorVars
  <2>2. PacketTypes' /\ Pending' = 0
    <3>1. CASE pusher' = "done" /\ UNCHANGED <<mapVars, monitorVars>>
      <4>1. diff' = diff /\ reading' = reading
        BY <3>1, Zenon DEF monitorVars
      <4> QED
        BY <1>1, <2>1, <3>1, <4>1, Zenon DEF PacketTypes, Pending
    <3>2. CASE pusher' = "collect" /\ collectBegin
      <4>1. diff' = [i \in Interface |-> 0] /\ reading' = Interface
        BY <3>2, Zenon DEF collectBegin
      <4>2. diff' \in [Interface -> Nat] /\ \A i \in Interface : diff'[i] = 0
        BY <4>1, Zenon
      <4>3. SumFunction(diff') = 0
        BY <4>2, SumNat, InterfaceAssumption, Zenon
      <4> QED
        BY <1>1, <2>1, <3>2, <4>1, <4>2, <4>3, Zenon DEF PacketTypes, Pending
    <3> QED
      BY <1>3, <3>1, <3>2, Zenon DEF loopHead
  <2>3. accepted' + Pending' <= accepted + Pending
    BY <1>2, <2>1, <2>2
  <2> QED
    BY <2>1, <2>2, <2>3, HandsOver, Zenon
<1>4. CASE collect
  <2>1. PICK i \in Interface : readEntry(i) \/ skipEntry(i)
    BY <1>4, Zenon DEF collect
  <2>2. pusher = "collect" /\ UNCHANGED pushVars
    BY <1>4, Zenon DEF collect
  <2>3. CASE readEntry(i)
    BY <2>2, <2>3, ReadCounted, Zenon
  <2>4. CASE skipEntry(i)
    <3>1. /\ entries' = entries /\ value' = value /\ packets' = packets /\ seen' = seen
          /\ accepted' = accepted /\ diff' = diff /\ pusher' = pusher /\ reading' = reading \ {i}
      BY <2>2, <2>4, Zenon DEF skipEntry, mapVars, pushVars
    <3>2. PacketTypes' /\ Pending' = Pending
      BY <1>1, <3>1, Zenon DEF PacketTypes, Pending
    <3>3. accepted' + Pending' <= accepted + Pending
      BY <1>2, <3>1, <3>2
    <3> QED
      BY <1>2, <3>1, <3>2, <3>3, HandsOver, Zenon
  <2> QED
    BY <2>1, <2>3, <2>4, Zenon
<1>5. CASE call \/ wakeUp
  <2>1. /\ entries' = entries /\ value' = value /\ packets' = packets /\ seen' = seen
        /\ accepted' = accepted /\ diff' = diff /\ reading' = reading
        /\ \/ pusher = "collect" /\ pusher' = "calling"
           \/ pusher = "sleep" /\ pusher' = "loop"
    BY <1>5, Zenon DEF call, wakeUp, mapVars, monitorVars
  <2>2. PacketTypes' /\ Pending' = Pending
    BY <1>1, <2>1, Zenon DEF PacketTypes, Pending
  <2>3. accepted' + Pending' <= accepted + Pending
    BY <1>2, <2>1, <2>2
  <2> QED
    BY <1>2, <2>1, <2>2, <2>3, HandsOver, Zenon
<1> QED
  BY <1>3, <1>4, <1>5, Zenon DEF loopStep

\* The outcomes of a push keep the account.
LEMMA CallCounted ==
    ASSUME NetInv, PacketInv, callEnds
    PROVE  PacketInv'
<1>1. PacketTypes
  BY DEF PacketInv
<1>2. Pending \in Nat /\ accepted \in Nat /\ SumFunction(diff) \in Nat
  BY <1>1, SumsNat DEF PacketTypes
<1>3. /\ entries' = entries /\ value' = value /\ packets' = packets /\ seen' = seen
      /\ diff' = diff /\ reading' = reading /\ pusher' \in {"sleep", "handled"}
  BY Zenon DEF callEnds, unreachable, refuse, SetMonitorInfo, reply, replyLost, callReturns,
         AfterFailure, mapVars, monitorVars
<1>4. \/ accepted' = accepted
      \/ pusher = "calling" /\ accepted' = accepted + SumFunction(diff)
  BY Zenon DEF callEnds, unreachable, refuse, SetMonitorInfo, reply, replyLost
<1>5. PacketTypes' /\ Pending' = 0
  BY <1>1, <1>2, <1>3, <1>4 DEF PacketTypes, Pending
<1>6. accepted' + Pending' <= accepted + Pending
  <2>1. CASE accepted' = accepted
    BY <1>2, <1>5, <2>1
  <2>2. CASE pusher = "calling" /\ accepted' = accepted + SumFunction(diff)
    <3>1. Pending = SumFunction(diff)
      BY <2>2, Zenon DEF Pending
    <3> QED
      BY <1>2, <1>5, <2>2, <3>1
  <2> QED
    BY <1>4, <2>1, <2>2, Zenon
<1> QED
  BY <1>3, <1>5, <1>6, HandsOver, Zenon

\* Every step keeps the account of the packets.
LEMMA PacketsKept ==
    ASSUME NetInv, PacketInv, [Next]_vars
    PROVE  PacketInv'
<1>1. CASE packet
  BY <1>1, PacketCounted, Zenon
<1>2. CASE loopStep
  BY <1>2, LoopCounted
<1>3. CASE callEnds
  BY <1>3, CallCounted
<1>4. CASE stop \/ UNCHANGED <<mapVars, monitorVars, pushVars>>
  <2>1. /\ entries' = entries /\ value' = value /\ packets' = packets /\ seen' = seen
        /\ accepted' = accepted /\ diff' = diff /\ reading' = reading /\ pusher' = pusher
    BY <1>4, Zenon DEF stop, mapVars, monitorVars, pushVars
  <2>2. Residue' = Residue /\ Pending' = Pending /\ (PacketTypes <=> PacketTypes')
    BY <2>1, Zenon DEF Residue, Pending, PacketTypes
  <2> QED
    BY <2>1, <2>2, Zenon DEF PacketInv
<1> QED
  BY <1>1, <1>2, <1>3, <1>4, Zenon DEF Next, kernelStep, instanceStep, pushStep, PushNext, vars

\* PacketsAtMostOnce, for any number of CPUs, interfaces and slots and any bound
\* on the packets: the differences of NetEbpfMonitor, pushed by pushOnce() and
\* taken by SetMonitorInfo(), never add up to more packets than there were,
\* whatever calls are lost and whatever entries are replaced.
THEOREM AtMostOnceHolds == Spec => []PacketsAtMostOnce
<1>1. Init => NetInv /\ PacketInv
  <2> SUFFICES ASSUME Init PROVE NetInv /\ PacketInv
    BY Zenon
  <2>1. NetInv
    BY NetAssumption, Zenon DEF Init, PushInit, NetInit, NetInv, CpuState
  <2>2. PacketTypes /\ accepted = 0 /\ Pending = 0
    BY Zenon DEF Init, PushInit, NetInit, PacketTypes, Pending
  <2>3. \A i \in Interface : Residue[i] = 0
    BY Zenon DEF Init, PushInit, NetInit, Residue
  <2>4. SumFunction(Residue) = 0
    BY <2>1, <2>2, <2>3, SumsNat, SumNat, InterfaceAssumption, Zenon
  <2>5. SumFunction(packets) \in Nat
    BY <2>1, <2>2, SumsNat, Zenon
  <2> QED
    BY <2>1, <2>2, <2>4, <2>5 DEF PacketInv
<1>2. NetInv /\ PacketInv /\ [Next]_vars => NetInv' /\ PacketInv'
  <2> SUFFICES ASSUME NetInv, PacketInv, [Next]_vars PROVE NetInv' /\ PacketInv'
    BY Zenon
  <2>1. CASE packetStep
    BY <2>1, PacketExact, PacketsKept, Zenon
  <2>2. CASE UNCHANGED mapVars
    <3>1. NetInv'
      BY <2>2, Zenon DEF mapVars, NetInv
    <3> QED
      BY <3>1, PacketsKept, Zenon
  <2> QED
    BY <2>1, <2>2, MapUntouched, Zenon
<1>3. NetInv /\ PacketInv => PacketsAtMostOnce
  <2> SUFFICES ASSUME NetInv, PacketInv PROVE accepted <= SumFunction(packets)
    BY Zenon DEF PacketsAtMostOnce
  <2>1. /\ accepted \in Nat /\ Pending \in Nat /\ SumFunction(Residue) \in Nat
        /\ SumFunction(packets) \in Nat
    BY SumsNat, Zenon DEF PacketInv, PacketTypes
  <2> QED
    BY <2>1 DEF PacketInv
<1> QED
  BY <1>1, <1>2, <1>3, PTL DEF Spec
=============================================================================

----------------------- MODULE KernelCollectorProofs -----------------------
(***************************************************************************)
(* Proofs about the readers of the two kernel modules, for any number of   *)
(* CPUs and any bounds: the pages outlive their users, and the samples are *)
(* plausible.  WorkerProofs shows that the worker implements KernelSpec.   *)
(***************************************************************************)
EXTENDS KernelCollector, TLAPS

-----------------------------------------------------------------------------
\* The kernel modules.  What a module holds is a prefix of the stages of its
\* init function, and says how far the users of the pages may have come.
AllStages == {"pages", "region", "cdev", "class", "device"}

Prefixes ==
    {{"pages"}, {"pages", "region"}, {"pages", "region", "cdev"},
     {"pages", "region", "cdev", "class"}, AllStages}

KernelInv ==
    /\ kmod \in {"out", "loading", "live", "exiting"}
    /\ kmod = "out" => held = {}
    /\ kmod = "loading" => held \in Prefixes
    /\ kmod \in {"live", "exiting"} => held = AllStages
    /\ timer \in BOOLEAN
    /\ timer => kmod \in {"live", "exiting"}
    /\ kmod = "live" => timer
    /\ writing \in Nat
    /\ writing > 0 => "device" \in held /\ (timer \/ kmod = "loading")
    /\ DOMAIN reader = {"cpu", "pass", "at", "got", "all", "old", "base"}
    /\ reader.cpu \in Nat
    /\ reader.cpu = 0 => reader.pass = "name"
    /\ reader.cpu > 0 => "device" \in held /\ kmod # "exiting"

\* The mapping of a device that was just opened.
LEMMA OpenedParts ==
    \A c : /\ DOMAIN Opened(c) = {"cpu", "pass", "at", "got", "all", "old", "base"}
          /\ Opened(c).cpu = c /\ Opened(c).pass = "name"
BY DEF Opened

\* The stages of the init function, as a set.
LEMMA TakenStages == {Stages[j] : j \in DOMAIN Stages} = AllStages
<1>1. DOMAIN Stages = 1..5
  BY DEF Stages
<1> QED
  BY <1>1 DEF Stages, AllStages

\* The stage after a prefix.
LEMMA NextStage ==
    ASSUME NEW s, AtStep(s)
    PROVE  /\ held # AllStages /\ s \in AllStages
           /\ held \cup {s} \in Prefixes
           /\ s = "device" => held \cup {s} = AllStages
           /\ s = "pages" => held = {}
           /\ held # {} => held \ Labels(s) = {} /\ s # "pages"
<1>1. PICK i \in 1..5 : s = Stages[i] /\ held = {Stages[j] : j \in 1..(i - 1)}
  BY DEF AtStep, Stages
<1>2. CASE i = 1
  <2>1. held = {} /\ s = "pages"
    BY <1>1, <1>2 DEF Stages
  <2> QED
    BY <2>1, Zenon DEF Prefixes, AllStages
<1>3. CASE i = 2
  <2>1. held = {"pages"} /\ s = "region"
    BY <1>1, <1>3 DEF Stages
  <2> QED
    BY <2>1 DEF Prefixes, AllStages, Labels
<1>4. CASE i = 3
  <2>1. held = {"pages", "region"} /\ s = "cdev"
    BY <1>1, <1>4 DEF Stages
  <2> QED
    BY <2>1 DEF Prefixes, AllStages, Labels
<1>5. CASE i = 4
  <2>1. held = {"pages", "region", "cdev"} /\ s = "class"
    BY <1>1, <1>5 DEF Stages
  <2> QED
    BY <2>1 DEF Prefixes, AllStages, Labels
<1>6. CASE i = 5
  <2>1. held = {"pages", "region", "cdev", "class"} /\ s = "device"
    BY <1>1, <1>6 DEF Stages
  <2> QED
    BY <2>1 DEF Prefixes, AllStages, Labels
<1> QED
  BY <1>1, <1>2, <1>3, <1>4, <1>5, <1>6

\* The steps of the module: the init function, the timer, the exit function.
LEMMA ModuleKeepsInv ==
    ASSUME KernelInv,
           \/ \E i \in DOMAIN Stages : acquire(Stages[i]) \/ loadFails(Stages[i])
           \/ writeField \/ hrtimer_start \/ timer_callback
           \/ exitBegins \/ hrtimer_cancel \/ releaseAll
    PROVE  KernelInv'
<1>1. CASE \E i \in DOMAIN Stages : acquire(Stages[i])
  <2>1. PICK i \in DOMAIN Stages : acquire(Stages[i])
    BY <1>1, Zenon
  <2> DEFINE s == Stages[i]
  <2>2. held \in Prefixes \cup {{}}
    BY <2>1, Zenon DEF acquire, KernelInv
  <2>3. AtStep(s)
    BY <2>1, Zenon DEF acquire
  <2>4. /\ held # AllStages
        /\ held' \in Prefixes
        /\ s = "device" => held' = AllStages
    BY <2>1, <2>2, <2>3, NextStage, Zenon DEF acquire
  <2>5. "device" \notin held
    BY <2>2, <2>4, Zenon DEF Prefixes, AllStages
  <2>6. writing = 0 /\ reader.cpu = 0 /\ kmod' = "loading" /\ ~timer
    BY <2>1, <2>5 DEF acquire, KernelInv
  <2> HIDE DEF s
  <2>7. writing' \in {0, 1} /\ (writing' = 1 => s = "device")
    BY <2>1, <2>6 DEF acquire, s
  <2>8. timer' = timer /\ reader' = reader
    BY <2>1, Zenon DEF acquire, readerVars
  <2> QED
    BY <2>4, <2>6, <2>7, <2>8 DEF KernelInv, AllStages
<1>2. CASE \E i \in DOMAIN Stages : loadFails(Stages[i])
  <2>1. PICK i \in DOMAIN Stages : loadFails(Stages[i])
    BY <1>2, Zenon
  <2>2. held \in Prefixes /\ held # {}
    BY <2>1, Zenon DEF loadFails, KernelInv, Prefixes, AllStages
  <2>3. held' = {} /\ held # AllStages
    BY <2>1, <2>2, NextStage, Zenon DEF loadFails
  <2>4. "device" \notin held
    BY <2>2, <2>3 DEF Prefixes, AllStages
  <2>5. writing = 0 /\ reader.cpu = 0 /\ ~timer
    BY <2>1, <2>4 DEF loadFails, KernelInv
  <2> QED
    BY <2>1, <2>3, <2>5 DEF KernelInv, loadFails, readerVars
<1>3. CASE writeField
  BY <1>3 DEF writeField, KernelInv, readerVars
<1>4. CASE hrtimer_start
  <2>1. held = AllStages
    BY <1>4, TakenStages, Zenon DEF hrtimer_start
  <2> QED
    BY <1>4, <2>1, Zenon DEF hrtimer_start, KernelInv, readerVars
<1>5. CASE timer_callback
  BY <1>5, Zenon DEF timer_callback, KernelInv, readerVars, AllStages
<1>6. CASE exitBegins
  BY <1>6 DEF exitBegins, KernelInv, readerVars
<1>7. CASE hrtimer_cancel
  <2>1. ~timer' /\ timer' \in BOOLEAN
    BY <1>7, Zenon DEF hrtimer_cancel
  <2>2. kmod = "exiting" /\ writing = 0 /\ UNCHANGED <<kmod, held, writing, reader>>
    BY <1>7, Zenon DEF hrtimer_cancel, CallbackDone, readerVars
  <2> QED
    BY <2>1, <2>2 DEF KernelInv
<1>8. CASE releaseAll
  BY <1>8, Zenon DEF releaseAll, KernelInv, readerVars
<1> QED
  BY <1>1, <1>2, <1>3, <1>4, <1>5, <1>6, <1>7, <1>8, Zenon

\* The steps of the reader, and the counting.
LEMMA ReaderKeepsInv ==
    ASSUME KernelInv,
           \/ \E c \in Cpus, f \in Names : count(c, f)
           \/ openDevice \/ checkName \/ readField \/ closeDevice
    PROVE  KernelInv'
<1>1. CASE \E c \in Cpus, f \in Names : count(c, f)
  <2>1. UNCHANGED <<kmod, held, timer, writing, reader>>
    BY <1>1, Zenon DEF count
  <2> QED
    BY <2>1, Zenon DEF KernelInv
<1>2. CASE openDevice
  <2>1. reader' = Opened(1) /\ UNCHANGED <<kmod, held, timer, writing>> /\ CanOpen
    BY <1>2, Zenon DEF openDevice, moduleVars
  <2> QED
    BY <2>1, OpenedParts DEF CanOpen, KernelInv
<1>3. CASE checkName
  <2>1. reader.cpu # 0
    BY <1>3 DEF checkName, Cpus
  <2> QED
    BY <1>3, <2>1, Zenon DEF checkName, KernelInv, moduleVars
<1>4. CASE readField
  <2>0. reader.pass # "name" /\ UNCHANGED <<kmod, held, timer, writing>>
    BY <1>4, Zenon DEF readField, moduleVars
  <2>1. reader.cpu > 0
    BY <2>0 DEF KernelInv
  <2>2. /\ DOMAIN reader' = DOMAIN reader
        /\ reader'.cpu \in {reader.cpu, reader.cpu + 1}
    BY <1>4, Zenon DEF readField, KernelInv
  <2> QED
    BY <2>0, <2>1, <2>2 DEF KernelInv
<1>5. CASE closeDevice
  <2>1. reader' = Opened(0) /\ UNCHANGED <<kmod, held, timer, writing>>
    BY <1>5, Zenon DEF closeDevice, Closed, moduleVars
  <2> QED
    BY <2>1, OpenedParts DEF KernelInv
<1> QED
  BY <1>1, <1>2, <1>3, <1>4, <1>5, Zenon

\* A step of the module or of a reader keeps KernelInv.
LEMMA KernelKept ==
    ASSUME KernelInv, [KernelNext]_kernelVars
    PROVE  KernelInv'
<1>1. CASE KernelNext
  BY <1>1, ModuleKeepsInv, ReaderKeepsInv, Zenon DEF KernelNext
<1>2. CASE UNCHANGED kernelVars
  BY <1>2, Zenon DEF kernelVars, KernelInv
<1> QED
  BY <1>1, <1>2, Zenon

\* KernelInv holds before a module is loaded.
LEMMA KernelStarts == KernelInit => KernelInv
<1> SUFFICES ASSUME KernelInit PROVE KernelInv
  BY Zenon
<1>1. kmod = "out" /\ held = {} /\ writing = 0 /\ reader = Opened(0)
  BY Zenon DEF KernelInit, Closed
<1>2. ~timer /\ timer \in BOOLEAN
  BY Zenon DEF KernelInit
<1> QED
  BY <1>1, <1>2, OpenedParts DEF KernelInv

\* PagesOutliveUsers, for any number of CPUs: no callback of the timer and no
\* mapping of a reader outlives the pages of its module, and a load that fails
\* gives back all it had taken.
THEOREM PagesHold == KernelSpec => []PagesOutliveUsers
<1>1. KernelInit => KernelInv
  BY KernelStarts, Zenon
<1>2. KernelInv /\ [KernelNext]_kernelVars => KernelInv'
  BY KernelKept, Zenon
<1>3. KernelInv => PagesOutliveUsers
  BY Zenon DEF KernelInv, PagesOutliveUsers, Prefixes, AllStages
<1> QED
  BY <1>1, <1>2, <1>3, PTL DEF KernelSpec

-----------------------------------------------------------------------------
\* The samples of the kernel's counters.  The reader meets converted values
\* only; behind each there is a value the counter has had.
Base(f) == IF f = "irq" THEN 0 ELSE Start[f]

SampleTypes ==
    /\ machine \in Machines /\ device \in {"cpu_stat", "softirq"}
    /\ counter \in [Cpus -> [Names -> Nat]]
    /\ page \in [Cpus -> [name : BOOLEAN, value : [Names -> Nat]]]
    /\ writing \in 0 .. Writes
    /\ reader \in [cpu : 0 .. machine.cpus + 1, pass : {"name", "curr", "all", "cache"},
                   at : DOMAIN Fields, got : [Names -> Nat], all : [Names -> Nat],
                   old : [Names -> Nat], base : Nat]
    /\ reader.pass # "name" => reader.cpu \in Cpus
    /\ reader.pass = "all" => device = "cpu_stat"
    /\ reader.pass \in {"curr", "all"} /\ device = "cpu_stat" => cached[reader.cpu] # None
    /\ cached \in [Cpus -> [Names -> Nat] \cup {None}]
    /\ shown \in [Cpus -> [Names -> Int]]
    /\ torn \in BOOLEAN /\ late \in BOOLEAN
    /\ rawPage \in [Cpus -> [Names -> Nat]] /\ rawCache \in [Cpus -> [Names -> Nat]] /\ rawCopy \in [Names -> Nat]
    /\ \A c \in Cpus, f \in Names : Base(f) <= counter[c][f]

\* The place of a field in the writes of update_cpu_stats().
Position(c, f) == (c - 1) * (Len(Fields) + 1) + (IF f = "idle" THEN 2 ELSE 1) + 1

\* A field the module has written since its pages were allocated.
Filled(c, f) ==
    \/ kmod = "live"
    \/ kmod = "loading" /\ held = AllStages /\ (writing = 0 \/ Position(c, f) < writing)

\* The field is in the copy of the pass under way.
HasRead(c, f) == reader.cpu = c /\ reader.pass # "name" /\ reader.at = 2 /\ f = "busy"

\* The counter's values behind the cache, what has been shown, the copy and the page.
Levels(c, f, q, r, g, p) ==
    /\ Base(f) <= q /\ q <= r /\ r <= p /\ p <= counter[c][f]
    /\ cached[c] # None => cached[c][f] = Converted(f, q) /\ rawCache[c][f] = q
    /\ cached[c] = None /\ device = "softirq" => q = 0
    /\ ~(reader.cpu = c /\ reader.pass \in {"all", "cache"}) => r = q
    /\ (f = "irq" /\ counter[c][f] >= IrqWrap) \/ shown[c][f] <= r - Base(f)
    /\ Filled(c, f) => page[c].value[f] = Converted(f, p) /\ rawPage[c][f] = p
    /\ HasRead(c, f) => r <= g /\ g <= p /\ reader.got[f] = Converted(f, g) /\ rawCopy[f] = g

\* The CPUs whose differences are in the sums of the sample.
Summed == IF reader.pass = "cache" THEN reader.cpu ELSE reader.cpu - 1

InBounds(busy, idle, n) ==
    /\ 0 <= busy /\ busy <= n * Span
    /\ idle <= n * Span
    /\ idle >= 0 \/ idle <= n * Span - IdleWrap

\* The values are there, and the reader only has the device open while the
\* module's page is complete.
Sound ==
    /\ reader.cpu > 0 => kmod = "live"
    /\ \A c \in Cpus, f \in Names : \E q, r, g, p \in Nat : Levels(c, f, q, r, g, p)

SumsFit ==
    reader.cpu > 0 /\ device = "cpu_stat" /\ ~late =>
        InBounds(reader.all.busy - reader.old.busy, reader.all.idle - reader.old.idle, Summed)

SampleInv == SampleTypes /\ (~torn => Sound /\ SumsFit /\ PercentagesInRange)

\* The fields of a page and their order, for each of the two modules.
LEMMA DeviceFields ==
    ASSUME device \in {"cpu_stat", "softirq"}
    PROVE  \/ /\ device = "cpu_stat" /\ Fields = <<"busy", "idle">> /\ Len(Fields) = 2
              /\ DOMAIN Fields = {1, 2} /\ Names = {"busy", "idle"}
              /\ Fields[1] = "busy" /\ Fields[2] = "idle"
           \/ /\ device = "softirq" /\ Fields = <<"irq">> /\ Len(Fields) = 1
              /\ DOMAIN Fields = {1} /\ Names = {"irq"} /\ Fields[1] = "irq"
<1>1. CASE device = "cpu_stat"
  <2>1. Fields = <<"busy", "idle">>
    BY <1>1, Zenon DEF Fields
  <2>2. Len(Fields) = 2 /\ DOMAIN Fields = {1, 2} /\ Fields[1] = "busy" /\ Fields[2] = "idle"
    BY <2>1
  <2>3. Names = {"busy", "idle"}
    BY <2>2, Zenon DEF Names
  <2> QED
    BY <1>1, <2>1, <2>2, <2>3, Zenon
<1>2. CASE device = "softirq"
  <2>1. Fields = <<"irq">>
    BY <1>2, Zenon DEF Fields
  <2>2. Len(Fields) = 1 /\ DOMAIN Fields = {1} /\ Fields[1] = "irq"
    BY <2>1
  <2>3. Names = {"irq"}
    BY <2>2 DEF Names
  <2> QED
    BY <1>2, <2>1, <2>2, <2>3, Zenon
<1> QED
  BY <1>1, <1>2, Zenon

\* What the conversion does to a difference: nothing, unless the counter came
\* round in between.
LEMMA WrapRises ==
    ASSUME NEW a \in Nat, NEW b \in Nat, a <= b, NEW w \in Nat \ {0}
    PROVE  /\ a % w \in Nat /\ b % w \in Nat
           /\ (b % w) - (a % w) <= b - a
           /\ (b % w) - (a % w) >= 0 \/ (b % w) - (a % w) <= b - a - w
           /\ a < w => a % w = a
<1>1. a = w * (a \div w) + (a % w) /\ b = w * (b \div w) + (b % w)
  OBVIOUS
<1>2. a \div w \in Nat /\ b \div w \in Nat /\ a % w \in Nat /\ b % w \in Nat
  OBVIOUS
<1>3. a \div w <= b \div w
  OBVIOUS
<1>4. a < w => a % w = a
  OBVIOUS
<1> DEFINE m == a \div w
           n == b \div w
           x == a % w
           y == b % w
<1>5. a = w * m + x /\ b = w * n + y /\ m \in Nat /\ n \in Nat /\ x \in Nat /\ y \in Nat /\ m <= n
  BY <1>1, <1>2, <1>3, Zenon
<1> HIDE DEF m, n, x, y
<1>6. CASE m = n
  <2>1. y - x = b - a
    BY <1>5, <1>6
  <2> QED
    BY <1>2, <1>4, <2>1 DEF x, y
<1>7. CASE m < n
  <2>1. PICK k \in Nat : n = m + 1 + k
    <3>1. n - m - 1 \in Nat /\ n = m + 1 + (n - m - 1)
      BY <1>5, <1>7
    <3> QED
      BY <3>1, Zenon
  <2>2. w * n = w * m + w + w * k /\ w * k \in Nat /\ w * m \in Nat
    BY <1>5, <2>1
  <2>3. y - x <= b - a - w
    BY <1>5, <2>2
  <2>4. y - x <= b - a
    BY <1>5, <2>3
  <2> QED
    BY <1>2, <1>4, <2>3, <2>4, Zenon DEF x, y
<1> QED
  BY <1>5, <1>6, <1>7

\* What the timer writes for a counter never falls as the counter rises.
LEMMA ConvertedRises ==
    ASSUME NEW f \in {"busy", "idle", "irq"}, NEW a \in Nat, NEW b \in Nat, a <= b
    PROVE  /\ Converted(f, a) \in Nat /\ Converted(f, b) \in Nat
           /\ Converted(f, b) - Converted(f, a) <= b - a
           /\ f = "busy" => Converted(f, b) - Converted(f, a) = b - a
           /\ f = "idle" => \/ Converted(f, b) - Converted(f, a) >= 0
                            \/ Converted(f, b) - Converted(f, a) <= b - a - IdleWrap
           /\ f = "irq" /\ b < IrqWrap => Converted(f, a) = a /\ Converted(f, b) = b
           /\ f = "irq" => Converted(f, 0) = 0
<1>1. CASE f = "busy"
  <2>1. Converted(f, a) = a /\ Converted(f, b) = b
    BY <1>1, Zenon DEF Converted
  <2> QED
    BY <1>1, <2>1
<1>2. CASE f = "idle"
  <2>1. Converted(f, a) = a % IdleWrap /\ Converted(f, b) = b % IdleWrap
    BY <1>2, Zenon DEF Converted
  <2>2. IdleWrap \in Nat \ {0}
    BY KernelAssumption, Zenon
  <2> QED
    BY <1>2, <2>1, <2>2, WrapRises, Zenon
<1>3. CASE f = "irq"
  <2>1. Converted(f, a) = a % IrqWrap /\ Converted(f, b) = b % IrqWrap /\ Converted(f, 0) = 0 % IrqWrap
    BY <1>3, Zenon DEF Converted
  <2>2. IrqWrap \in Nat \ {0}
    BY KernelAssumption, Zenon
  <2>3. /\ a % IrqWrap \in Nat /\ b % IrqWrap \in Nat
        /\ (b % IrqWrap) - (a % IrqWrap) <= b - a
    BY <2>2, WrapRises, Zenon
  <2>4. b < IrqWrap => a % IrqWrap = a /\ b % IrqWrap = b
    BY <2>2
  <2>5. 0 % IrqWrap = 0
    BY <2>2
  <2> QED
    BY <1>3, <2>1, <2>3, <2>4, <2>5, Zenon
<1> QED
  BY <1>1, <1>2, <1>3, Zenon

\* Which field the module writes at which place.
LEMMA WriteAt ==
    ASSUME SampleTypes
    PROVE  /\ \A c \in Cpus, f \in Names : Position(c, f) \in Nat /\ Position(c, f) <= Writes
           /\ writing > 0 =>
                /\ CpuAt(writing) \in Cpus
                /\ (writing - 1) % (Len(Fields) + 1) \in 0 .. Len(Fields)
                /\ \A c \in Cpus, f \in Names : Position(c, f) = writing =>
                      /\ c = CpuAt(writing)
                      /\ (writing - 1) % (Len(Fields) + 1) # 0
                      /\ f = Fields[(writing - 1) % (Len(Fields) + 1)]
<1>0. machine.cpus \in Nat \ {0} /\ writing \in 0 .. Writes
  BY KernelAssumption, Zenon DEF SampleTypes
<1>1. CASE device = "cpu_stat"
  <2>1. /\ Len(Fields) = 2 /\ Names = {"busy", "idle"} /\ Fields[1] = "busy" /\ Fields[2] = "idle"
    BY <1>1, DeviceFields, Zenon
  <2>2. Writes = machine.cpus * 3 /\ CpuAt(writing) = (writing - 1) \div 3 + 1
    BY <2>1 DEF Writes, CpuAt
  <2>3. \A c \in Cpus : Position(c, "busy") = (c - 1) * 3 + 2 /\ Position(c, "idle") = (c - 1) * 3 + 3
    BY <1>0, <2>1 DEF Position, Cpus
  <2>4. \A c \in Cpus, f \in Names : Position(c, f) \in Nat /\ Position(c, f) <= Writes
    BY <1>0, <2>1, <2>2, <2>3 DEF Cpus
  <2>5. writing > 0 => CpuAt(writing) \in Cpus /\ (writing - 1) % 3 \in 0 .. 2
    BY <1>0, <2>2 DEF Cpus
  <2>6. ASSUME writing > 0, NEW c \in Cpus, NEW f \in Names, Position(c, f) = writing
        PROVE  c = CpuAt(writing) /\ (writing - 1) % 3 # 0 /\ f = Fields[(writing - 1) % 3]
    <3>1. CASE f = "busy"
      <4>1. writing - 1 = (c - 1) * 3 + 1
        BY <1>0, <2>3, <2>6, <3>1 DEF Cpus
      <4>2. (writing - 1) \div 3 = c - 1 /\ (writing - 1) % 3 = 1
        BY <1>0, <4>1 DEF Cpus
      <4> QED
        BY <2>1, <2>2, <3>1, <4>2 DEF Cpus
    <3>2. CASE f = "idle"
      <4>1. writing - 1 = (c - 1) * 3 + 2
        BY <1>0, <2>3, <2>6, <3>2 DEF Cpus
      <4>2. (writing - 1) \div 3 = c - 1 /\ (writing - 1) % 3 = 2
        BY <1>0, <4>1 DEF Cpus
      <4> QED
        BY <2>1, <2>2, <3>2, <4>2 DEF Cpus
    <3> QED
      BY <2>1, <2>6, <3>1, <3>2, Zenon
  <2> QED
    BY <2>1, <2>4, <2>5, <2>6
<1>2. CASE device = "softirq"
  <2>1. /\ Len(Fields) = 1 /\ Names = {"irq"} /\ Fields[1] = "irq"
    BY <1>2, DeviceFields, Zenon
  <2>2. Writes = machine.cpus * 2 /\ CpuAt(writing) = (writing - 1) \div 2 + 1
    BY <2>1 DEF Writes, CpuAt
  <2>3. \A c \in Cpus : Position(c, "irq") = (c - 1) * 2 + 2
    BY <1>0, <2>1 DEF Position, Cpus
  <2>4. \A c \in Cpus, f \in Names : Position(c, f) \in Nat /\ Position(c, f) <= Writes
    BY <1>0, <2>1, <2>2, <2>3 DEF Cpus
  <2>5. writing > 0 => CpuAt(writing) \in Cpus /\ (writing - 1) % 2 \in 0 .. 1
    BY <1>0, <2>2 DEF Cpus
  <2>6. ASSUME writing > 0, NEW c \in Cpus, NEW f \in Names, Position(c, f) = writing
        PROVE  c = CpuAt(writing) /\ (writing - 1) % 2 # 0 /\ f = Fields[(writing - 1) % 2]
    <3>1. f = "irq" /\ writing - 1 = (c - 1) * 2 + 1
      BY <1>0, <2>1, <2>3, <2>6 DEF Cpus
    <3>2. (writing - 1) \div 2 = c - 1 /\ (writing - 1) % 2 = 1
      BY <1>0, <3>1 DEF Cpus
    <3> QED
      BY <2>1, <2>2, <3>1, <3>2 DEF Cpus
  <2> QED
    BY <2>1, <2>4, <2>5, <2>6
<1> QED
  BY <1>1, <1>2, Zenon DEF SampleTypes

\* With the machine and the device the same, so are the fields of a page.
LEMMA SameDevice ==
    ASSUME machine' = machine, device' = device
    PROVE  Cpus' = Cpus /\ Fields' = Fields /\ Names' = Names /\ Writes' = Writes /\ Span' = Span
BY Zenon DEF Cpus, Fields, Names, Writes, Span

\* An update of the pages has at least one write.
LEMMA Sizes ==
    ASSUME SampleTypes
    PROVE  machine.cpus \in Nat \ {0} /\ Writes \in Nat \ {0}
<1>1. machine.cpus \in Nat \ {0}
  BY KernelAssumption, Zenon DEF SampleTypes
<1>2. Len(Fields) \in {1, 2}
  BY DeviceFields, Zenon DEF SampleTypes
<1> QED
  BY <1>1, <1>2 DEF Writes

\* A quotient times the divisor.
LEMMA QuotientFits ==
    ASSUME NEW x \in Nat, NEW d \in Nat \ {0}
    PROVE  (x \div d) \in Nat /\ d * (x \div d) <= x
OBVIOUS

\* As much as Span on every CPU, twice, is at most one round.
LEMMA SpanFits ==
    ASSUME SampleTypes
    PROVE  Span \in Nat /\ 2 * (machine.cpus * Span) <= IdleWrap
<1>1. machine.cpus \in Nat \ {0} /\ IdleWrap \in Nat
  BY Sizes, KernelAssumption, Zenon
<1> DEFINE d == 2 * machine.cpus
<1>2. d \in Nat \ {0}
  BY <1>1
<1> HIDE DEF d
<1>3. IdleWrap \div d \in Nat /\ d * (IdleWrap \div d) <= IdleWrap
  BY <1>1, <1>2, QuotientFits, Zenon
<1>4. Span = IdleWrap \div d
  BY Zenon DEF Span, d
<1>5. Span \in Nat /\ d * Span <= IdleWrap
  BY <1>3, <1>4, Zenon
<1>6. d * Span = 2 * (machine.cpus * Span)
  BY <1>1, <1>5 DEF d
<1> QED
  BY <1>5, <1>6, Zenon

\* The copy with the field that is read, and what the monitor compares it with.
ReadGot ==
    [reader.got EXCEPT ![Fields[reader.at]] = page[reader.cpu].value[Fields[reader.at]]]

OldOf(c) == [g \in Names |-> Before(c, g)]

IsLast == reader.at = Len(Fields)

\* The counter's values behind the copy.
ReadRaw == [rawCopy EXCEPT ![Fields[reader.at]] = rawPage[reader.cpu][Fields[reader.at]]]

\* The parts of readField.
LEMMA ReadFacts ==
    ASSUME SampleTypes, readField
    PROVE  /\ reader.cpu \in Cpus /\ reader.pass \in {"curr", "all", "cache"}
           /\ Fields[reader.at] \in Names
           /\ ReadGot \in [Names -> Nat] /\ OldOf(reader.cpu) \in [Names -> Nat]
           /\ DOMAIN reader' = DOMAIN reader
           /\ reader'.got = ReadGot
           /\ reader'.at = (IF IsLast THEN 1 ELSE reader.at + 1)
           /\ reader'.pass = (IF IsLast THEN After(reader.pass) ELSE reader.pass)
           /\ reader'.cpu = (IF IsLast /\ After(reader.pass) = "name" THEN reader.cpu + 1 ELSE reader.cpu)
           /\ reader'.all = (IF IsLast /\ reader.pass = "all"
                             THEN [g \in Names |-> reader.all[g] + ReadGot[g]] ELSE reader.all)
           /\ reader'.old = (IF IsLast /\ reader.pass = "all"
                             THEN [g \in Names |-> reader.old[g] + OldOf(reader.cpu)[g]] ELSE reader.old)
           /\ reader'.base = (IF IsLast /\ reader.pass = "all" THEN reader.base + 1 ELSE reader.base)
           /\ cached' = (IF IsLast /\ reader.pass = "cache"
                         THEN [cached EXCEPT ![reader.cpu] = ReadGot] ELSE cached)
           /\ machine' = machine /\ device' = device /\ counter' = counter /\ page' = page
           /\ kmod' = kmod /\ held' = held /\ writing' = writing /\ torn' = torn /\ rawPage' = rawPage
<1>1. reader.pass \in {"curr", "all", "cache"} /\ reader.cpu \in Cpus
  BY Zenon DEF readField, SampleTypes
<1>2. Fields[reader.at] \in Names
  BY Zenon DEF SampleTypes, Names
<1>3. ReadGot \in [Names -> Nat]
  BY <1>1, <1>2 DEF ReadGot, SampleTypes
<1>4. OldOf(reader.cpu) \in [Names -> Nat]
  BY <1>1, Zenon DEF OldOf, Before, SampleTypes
<1>5. \A g \in Names : OldOf(reader.cpu)[g] = Before(reader.cpu, g)
  BY Zenon DEF OldOf
<1>6. /\ DOMAIN reader' = DOMAIN reader
      /\ reader'.got = ReadGot
      /\ reader'.at = (IF IsLast THEN 1 ELSE reader.at + 1)
      /\ reader'.pass = (IF IsLast THEN After(reader.pass) ELSE reader.pass)
      /\ reader'.cpu = (IF IsLast /\ After(reader.pass) = "name" THEN reader.cpu + 1 ELSE reader.cpu)
  BY Zenon DEF readField, SampleTypes, ReadGot, IsLast
<1>7. /\ reader'.all = (IF IsLast /\ reader.pass = "all"
                        THEN [g \in Names |-> reader.all[g] + ReadGot[g]] ELSE reader.all)
      /\ reader'.base = (IF IsLast /\ reader.pass = "all" THEN reader.base + 1 ELSE reader.base)
  BY Zenon DEF readField, SampleTypes, ReadGot, IsLast
<1>8. reader'.old = (IF IsLast /\ reader.pass = "all"
                     THEN [g \in Names |-> reader.old[g] + OldOf(reader.cpu)[g]] ELSE reader.old)
  BY Zenon DEF readField, SampleTypes, OldOf, IsLast
<1>9. cached' = (IF IsLast /\ reader.pass = "cache"
                 THEN [cached EXCEPT ![reader.cpu] = ReadGot] ELSE cached)
  BY Zenon DEF readField, ReadGot, IsLast
<1>10. /\ machine' = machine /\ device' = device /\ counter' = counter /\ page' = page
       /\ kmod' = kmod /\ held' = held /\ writing' = writing /\ torn' = torn /\ rawPage' = rawPage
  BY Zenon DEF readField, moduleVars
<1> QED
  BY <1>1, <1>2, <1>3, <1>4, <1>6, <1>7, <1>8, <1>9, <1>10, Zenon

\* The record that a reader reports.
LEMMA ReportFacts ==
    ASSUME SampleTypes, readField
    PROVE  IF IsLast /\ reader.pass = "curr"
           THEN /\ entry' = Reported(reader.cpu, ReadGot, OldOf(reader.cpu))
                /\ shown' = IF entry' = None THEN shown
                            ELSE [shown EXCEPT ![reader.cpu] = [g \in Names |-> @[g] + entry'.delta[g]]]
           ELSE entry' = entry /\ shown' = shown
BY Zenon DEF readField, ReadGot, OldOf, IsLast

\* What readField does to the values behind the copy and the cache.
LEMMA RawFacts ==
    ASSUME SampleTypes, readField
    PROVE  /\ ReadRaw \in [Names -> Nat] /\ rawCopy' = ReadRaw
           /\ rawCache' = (IF IsLast /\ reader.pass = "cache"
                           THEN [rawCache EXCEPT ![reader.cpu] = ReadRaw] ELSE rawCache)
           /\ rawCache' \in [Cpus -> [Names -> Nat]]
           /\ late' \in BOOLEAN /\ (~late' => ~late)
           /\ ~late' /\ IsLast /\ reader.pass # "cache" /\ device = "cpu_stat" =>
                 \A g \in Names : ~(ReadRaw[g] - rawCache[reader.cpu][g] > Span)
<1>1. reader.cpu \in Cpus /\ Fields[reader.at] \in Names
  BY ReadFacts, Zenon
<1>2. ReadRaw \in [Names -> Nat]
  <2>1. rawPage \in [Cpus -> [Names -> Nat]] /\ rawCopy \in [Names -> Nat]
    BY Zenon DEF SampleTypes
  <2>2. rawPage[reader.cpu] \in [Names -> Nat]
    BY <1>1, <2>1, Zenon
  <2>3. rawPage[reader.cpu][Fields[reader.at]] \in Nat
    BY <1>1, <2>2, Zenon
  <2> QED
    BY <2>1, <2>3, Zenon DEF ReadRaw
<1>3. rawCopy' = ReadRaw
  BY Zenon DEF readField, ReadRaw
<1>4. rawCache' = (IF IsLast /\ reader.pass = "cache"
                   THEN [rawCache EXCEPT ![reader.cpu] = ReadRaw] ELSE rawCache)
  BY <1>3, Zenon DEF readField, IsLast
<1>5. rawCache' \in [Cpus -> [Names -> Nat]]
  BY <1>1, <1>2, <1>4, Zenon DEF SampleTypes
<1>6. late' = (late \/ (/\ IsLast /\ reader.pass # "cache" /\ device = "cpu_stat"
                        /\ \E g \in Names : ReadRaw[g] - rawCache[reader.cpu][g] > Span))
  BY <1>3, Zenon DEF readField, IsLast
<1>7. late' \in BOOLEAN /\ (~late' => ~late)
  BY <1>6, Zenon DEF SampleTypes
<1>8. ~late' /\ IsLast /\ reader.pass # "cache" /\ device = "cpu_stat" =>
        \A g \in Names : ~(ReadRaw[g] - rawCache[reader.cpu][g] > Span)
  BY <1>6, Zenon
<1> QED
  BY <1>2, <1>3, <1>4, <1>5, <1>7, <1>8, Zenon

\* readField keeps the types.
LEMMA ReadKeepsTypes ==
    ASSUME SampleTypes, readField
    PROVE  SampleTypes'
<1> USE DEF SampleTypes
<1>1. Cpus' = Cpus /\ Fields' = Fields /\ Names' = Names /\ Writes' = Writes
  BY ReadFacts, SameDevice, Zenon
<1>2. /\ machine' = machine /\ device' = device /\ counter' = counter /\ page' = page
      /\ kmod' = kmod /\ held' = held /\ writing' = writing /\ torn' = torn /\ rawPage' = rawPage
  BY ReadFacts, Zenon
<1>3. /\ reader'.got \in [Names -> Nat] /\ reader'.all \in [Names -> Nat]
      /\ reader'.old \in [Names -> Nat] /\ reader'.base \in Nat
  BY ReadFacts
<1>4. reader'.at \in DOMAIN Fields
  <2>1. reader'.at = (IF IsLast THEN 1 ELSE reader.at + 1) /\ reader.at \in DOMAIN Fields
    BY ReadFacts, Zenon
  <2>2. CASE device = "cpu_stat"
    <3>1. Len(Fields) = 2 /\ DOMAIN Fields = {1, 2}
      BY <2>2, DeviceFields, Zenon
    <3> QED
      BY <2>1, <3>1 DEF IsLast
  <2>3. CASE device = "softirq"
    <3>1. Len(Fields) = 1 /\ DOMAIN Fields = {1}
      BY <2>3, DeviceFields, Zenon
    <3> QED
      BY <2>1, <3>1, Zenon DEF IsLast
  <2> QED
    BY <2>2, <2>3, Zenon
<1>5. /\ reader'.pass \in {"name", "curr", "all", "cache"}
      /\ reader'.pass = "all" => device = "cpu_stat"
      /\ reader'.pass = "curr" => reader.pass = "curr"
      /\ reader'.pass \in {"curr", "all"} => reader.pass \in {"curr", "all"}
  BY ReadFacts, Zenon DEF After
<1>6. /\ reader'.cpu \in 0 .. machine.cpus + 1
      /\ reader'.pass # "name" => reader'.cpu = reader.cpu
  <2>1. reader.cpu \in 1 .. machine.cpus /\ machine.cpus \in Nat
    BY ReadFacts, Sizes, Zenon DEF Cpus
  <2>2. /\ reader'.cpu = (IF IsLast /\ After(reader.pass) = "name" THEN reader.cpu + 1 ELSE reader.cpu)
        /\ reader'.pass = (IF IsLast THEN After(reader.pass) ELSE reader.pass)
    BY ReadFacts, Zenon
  <2>3. reader'.cpu \in {reader.cpu, reader.cpu + 1}
    BY <2>2, Zenon
  <2>4. reader'.cpu \in 0 .. machine.cpus + 1
    BY <2>1, <2>3
  <2> QED
    BY <2>2, <2>4, Zenon
<1>7. reader' \in [cpu : 0 .. machine.cpus + 1, pass : {"name", "curr", "all", "cache"},
                   at : DOMAIN Fields, got : [Names -> Nat], all : [Names -> Nat],
                   old : [Names -> Nat], base : Nat]
  <2>1. reader' = [cpu |-> reader'.cpu, pass |-> reader'.pass, at |-> reader'.at, got |-> reader'.got,
                   all |-> reader'.all, old |-> reader'.old, base |-> reader'.base]
    BY Zenon DEF readField
  <2> QED
    BY <1>3, <1>4, <1>5, <1>6, <2>1, Zenon
<1>8. cached' \in [Cpus -> [Names -> Nat] \cup {None}]
  BY ReadFacts, Zenon
<1>9. reader'.pass \in {"curr", "all"} /\ device = "cpu_stat" => cached'[reader'.cpu] # None
  <2> SUFFICES ASSUME reader'.pass \in {"curr", "all"}, device = "cpu_stat"
               PROVE  cached'[reader'.cpu] # None
    BY Zenon
  <2>1. reader.pass \in {"curr", "all"} /\ reader'.cpu = reader.cpu /\ cached' = cached
    BY <1>5, <1>6, ReadFacts, Zenon
  <2> QED
    BY <2>1, Zenon
<1>10. shown' \in [Cpus -> [Names -> Int]]
  <2>1. CASE shown' = shown
    BY <2>1, Zenon
  <2>2. CASE IsLast /\ reader.pass = "curr" /\ entry' # None
    <3>1. entry'.delta \in [Names -> Int]
      <4>1. ReadGot \in [Names -> Nat] /\ OldOf(reader.cpu) \in [Names -> Nat]
        BY ReadFacts, Zenon
      <4>2. Deltas(ReadGot, OldOf(reader.cpu)) \in [Names -> Int]
        BY <4>1 DEF Deltas
      <4>3. [f \in Names |-> WrapU64(ReadGot[f] - OldOf(reader.cpu)[f])] \in [Names -> Int]
        <5>1. 2^16 \in Nat \ {0}
          OBVIOUS
        <5>2. \A x \in Int : x % 2^16 \in Int
          BY <5>1
        <5> QED
          BY <4>1, <5>2 DEF WrapU64
      <4>4. entry' = Reported(reader.cpu, ReadGot, OldOf(reader.cpu))
        BY <2>2, ReportFacts, Zenon
      <4> QED
        BY <2>2, <4>2, <4>3, <4>4, Zenon DEF Reported
    <3>2. shown' = [shown EXCEPT ![reader.cpu] = [g \in Names |-> shown[reader.cpu][g] + entry'.delta[g]]]
      BY <2>2, ReportFacts, Zenon
    <3> QED
      BY <3>1, <3>2, ReadFacts
  <2> QED
    BY <2>1, <2>2, ReportFacts, Zenon
<1>11. rawCopy' \in [Names -> Nat] /\ rawCache' \in [Cpus -> [Names -> Nat]] /\ late' \in BOOLEAN
  BY RawFacts, Zenon
<1>12. reader'.pass # "name" => reader'.cpu \in Cpus
  BY <1>6, ReadFacts, Zenon
<1> QED
  BY <1>1, <1>2, <1>5, <1>7, <1>8, <1>9, <1>10, <1>11, <1>12, Zenon

\* What the timer writes is a number.
LEMMA ConvertedNat ==
    ASSUME NEW f \in {"busy", "idle", "irq"}, NEW n \in Nat
    PROVE  Converted(f, n) \in Nat
<1>1. n <= n
  OBVIOUS
<1> QED
  BY <1>1, ConvertedRises, Zenon

\* A written name, and a written field, leave a page of the same kind.
LEMMA NameWritten ==
    ASSUME NEW C, NEW N, NEW pages \in [C -> [name : BOOLEAN, value : [N -> Nat]]], NEW c \in C
    PROVE  [pages EXCEPT ![c].name = TRUE] \in [C -> [name : BOOLEAN, value : [N -> Nat]]]
BY Zenon

LEMMA FieldWritten ==
    ASSUME NEW C, NEW N, NEW pages \in [C -> [name : BOOLEAN, value : [N -> Nat]]], NEW c \in C,
           NEW f \in N, NEW n \in Nat
    PROVE  [pages EXCEPT ![c].value[f] = n] \in [C -> [name : BOOLEAN, value : [N -> Nat]]]
OBVIOUS

\* Every step keeps the types.
LEMMA TypesKept ==
    ASSUME SampleTypes, KernelInv, KernelNext
    PROVE  SampleTypes'
<1> USE DEF SampleTypes
<1>1. ASSUME NEW c \in Cpus, NEW f \in Names, count(c, f) PROVE SampleTypes'
  <2>1. /\ machine' = machine /\ device' = device /\ page' = page /\ writing' = writing
        /\ reader' = reader /\ cached' = cached /\ shown' = shown /\ torn' = torn
        /\ rawPage' = rawPage /\ rawCopy' = rawCopy /\ rawCache' = rawCache /\ late' = late
        /\ counter' = [counter EXCEPT ![c][f] = @ + 1]
    BY <1>1, Zenon DEF count
  <2>2. Cpus' = Cpus /\ Fields' = Fields /\ Names' = Names /\ Writes' = Writes
    BY <2>1, SameDevice, Zenon
  <2>3. counter' \in [Cpus -> [Names -> Nat]]
    BY <2>1
  <2>4. ASSUME NEW d \in Cpus, NEW g \in Names
        PROVE  Base(g) <= counter'[d][g]
    <3>1. Base(g) <= counter[d][g]
      BY Zenon
    <3>2. g \in {"busy", "idle", "irq"}
      BY DeviceFields, Zenon
    <3>3. Start[g] \in Nat /\ Base(g) \in Nat
      BY <3>2, KernelAssumption, Zenon DEF Base
    <3>4. counter[d][g] \in Nat
      OBVIOUS
    <3>5. CASE d = c /\ g = f
      <4>1. counter'[d][g] = counter[d][g] + 1
        BY <2>1, <3>5, Zenon
      <4> QED
        BY <2>1, <3>1, <3>3, <3>4, <3>5, <4>1
    <3>6. CASE ~(d = c /\ g = f)
      <4>1. counter'[d][g] = counter[d][g]
        BY <2>1, <3>6, Zenon
      <4> QED
        BY <3>1, <4>1, Zenon
    <3> QED
      BY <3>5, <3>6, Zenon
  <2> QED
    BY <2>1, <2>2, <2>3, <2>4, Zenon
<1>2. ASSUME NEW i \in DOMAIN Stages, acquire(Stages[i]) PROVE SampleTypes'
  <2>1. /\ machine' = machine /\ device' = device /\ counter' = counter
        /\ reader' = reader /\ cached' = cached /\ shown' = shown /\ torn' = torn
        /\ rawCopy' = rawCopy /\ rawCache' = rawCache /\ late' = late
        /\ page' \in {page, Blank} /\ writing' \in {writing, 1}
        /\ rawPage' \in {rawPage, [c \in Cpus |-> NoCount]}
    BY <1>2, Zenon DEF acquire, readerVars
  <2>2. Cpus' = Cpus /\ Fields' = Fields /\ Names' = Names /\ Writes' = Writes
    BY <2>1, SameDevice, Zenon
  <2>3. /\ Blank \in [Cpus -> [name : BOOLEAN, value : [Names -> Nat]]]
        /\ [c \in Cpus |-> NoCount] \in [Cpus -> [Names -> Nat]]
    BY Zenon DEF Blank, NoCount
  <2>4. 1 \in 0 .. Writes
    BY Sizes
  <2> QED
    BY <2>1, <2>2, <2>3, <2>4, Zenon
<1>3. ASSUME UNCHANGED <<readerVars, page, rawPage, torn>>, writing' \in 0 .. Writes PROVE SampleTypes'
  <2>1. /\ machine' = machine /\ device' = device /\ counter' = counter /\ page' = page
        /\ reader' = reader /\ cached' = cached /\ shown' = shown /\ torn' = torn
        /\ rawPage' = rawPage /\ rawCopy' = rawCopy /\ rawCache' = rawCache /\ late' = late
    BY <1>3, Zenon DEF readerVars
  <2>2. Cpus' = Cpus /\ Fields' = Fields /\ Names' = Names /\ Writes' = Writes
    BY <2>1, SameDevice, Zenon
  <2> QED
    BY <1>3, <2>1, <2>2, Zenon
<1>4. ASSUME NEW i \in DOMAIN Stages, loadFails(Stages[i]) PROVE SampleTypes'
  BY <1>3, <1>4, Zenon DEF loadFails
<1>5. ASSUME hrtimer_start \/ exitBegins \/ hrtimer_cancel \/ releaseAll PROVE SampleTypes'
  BY <1>3, <1>5, Zenon DEF hrtimer_start, exitBegins, hrtimer_cancel, releaseAll
<1>6. ASSUME timer_callback PROVE SampleTypes'
  <2>1. 1 \in 0 .. Writes
    BY Sizes
  <2> QED
    BY <1>3, <1>6, <2>1, Zenon DEF timer_callback
<1>7. ASSUME writeField PROVE SampleTypes'
  <2>1. /\ machine' = machine /\ device' = device /\ counter' = counter
        /\ reader' = reader /\ cached' = cached /\ shown' = shown /\ torn' = torn
        /\ rawCopy' = rawCopy /\ rawCache' = rawCache /\ late' = late
        /\ writing > 0 /\ writing' = IF writing < Writes THEN writing + 1 ELSE 0
    BY <1>7, Zenon DEF writeField, readerVars
  <2>2. Cpus' = Cpus /\ Fields' = Fields /\ Names' = Names /\ Writes' = Writes
    BY <2>1, SameDevice, Zenon
  <2> DEFINE c == CpuAt(writing)
             k == (writing - 1) % (Len(Fields) + 1)
  <2>3. c \in Cpus /\ k \in 0 .. Len(Fields)
    BY <2>1, WriteAt, Zenon
  <2>4. page' = IF k = 0 THEN [page EXCEPT ![c].name = TRUE]
                ELSE [page EXCEPT ![c].value[Fields[k]] = Converted(Fields[k], counter[c][Fields[k]])]
    BY <1>7, Zenon DEF writeField
  <2> HIDE DEF c, k
  <2>5. k # 0 => Fields[k] \in Names /\ Fields[k] \in {"busy", "idle", "irq"}
    <3>1. CASE device = "cpu_stat"
      <4>1. /\ Len(Fields) = 2 /\ Names = {"busy", "idle"} /\ Fields[1] = "busy" /\ Fields[2] = "idle"
        BY <3>1, DeviceFields, Zenon
      <4> QED
        BY <2>3, <4>1
    <3>2. CASE device = "softirq"
      <4>1. Len(Fields) = 1 /\ Names = {"irq"} /\ Fields[1] = "irq"
        BY <3>2, DeviceFields, Zenon
      <4> QED
        BY <2>3, <4>1
    <3> QED
      BY <3>1, <3>2, Zenon
  <2>6. k # 0 => Converted(Fields[k], counter[c][Fields[k]]) \in Nat
    <3> SUFFICES ASSUME k # 0 PROVE Converted(Fields[k], counter[c][Fields[k]]) \in Nat
      BY Zenon
    <3>1. counter[c][Fields[k]] \in Nat /\ Fields[k] \in {"busy", "idle", "irq"}
      BY <2>3, <2>5
    <3> HIDE DEF SampleTypes
    <3> QED
      BY <3>1, ConvertedNat, Zenon
  <2>7. page' \in [Cpus -> [name : BOOLEAN, value : [Names -> Nat]]]
    <3> DEFINE T == [Cpus -> [name : BOOLEAN, value : [Names -> Nat]]]
    <3>1. page \in T
      BY Zenon
    <3> HIDE DEF SampleTypes
    <3>2. CASE k = 0
      <4>1. [page EXCEPT ![c].name = TRUE] \in T
        BY <2>3, <3>1, NameWritten, Zenon
      <4> QED
        BY <2>4, <3>2, <4>1, Zenon
    <3>3. CASE k # 0
      <4>2. \A f \in Names : \A n \in Nat : [page EXCEPT ![c].value[f] = n] \in T
        BY <2>3, <3>1, FieldWritten, Zenon
      <4>3. Fields[k] \in Names /\ Converted(Fields[k], counter[c][Fields[k]]) \in Nat
        BY <2>5, <2>6, <3>3, Zenon
      <4> HIDE DEF T
      <4>1. [page EXCEPT ![c].value[Fields[k]] = Converted(Fields[k], counter[c][Fields[k]])] \in T
        BY <4>2, <4>3, Zenon
      <4> QED
        BY <2>4, <3>3, <4>1, Zenon DEF T
    <3> QED
      BY <3>2, <3>3, Zenon
  <2>8. rawPage' \in [Cpus -> [Names -> Nat]]
    <3>1. rawPage' = IF k = 0 THEN rawPage ELSE [rawPage EXCEPT ![c][Fields[k]] = counter[c][Fields[k]]]
      BY <1>7, Zenon DEF writeField, c, k
    <3>2. CASE k = 0
      BY <2>3, <3>1, <3>2, Zenon
    <3>3. CASE k # 0
      <4>1. Fields[k] \in Names /\ counter[c][Fields[k]] \in Nat
        <5>1. Fields[k] \in Names
          BY <2>5, <3>3, Zenon
        <5>2. counter[c] \in [Names -> Nat]
          BY <2>3, Zenon
        <5> QED
          BY <5>1, <5>2, Zenon
      <4>2. [rawPage[c] EXCEPT ![Fields[k]] = counter[c][Fields[k]]] \in [Names -> Nat]
        BY <2>3, <4>1, Zenon
      <4>3. rawPage' = [rawPage EXCEPT ![c] = [rawPage[c] EXCEPT ![Fields[k]] = counter[c][Fields[k]]]]
        BY <3>1, <3>3, Zenon
      <4> QED
        BY <2>3, <4>2, <4>3, Zenon
    <3> QED
      BY <3>2, <3>3, Zenon
  <2>9. writing' \in 0 .. Writes
    <3>1. writing \in 0 .. Writes /\ Writes \in Nat
      BY Sizes, Zenon
    <3> QED
      BY <2>1, <3>1
  <2> QED
    BY <2>1, <2>2, <2>7, <2>8, <2>9, Zenon
<1>8. ASSUME openDevice \/ closeDevice PROVE SampleTypes'
  <2>1. /\ machine' = machine /\ device' = device /\ counter' = counter /\ page' = page
        /\ writing' = writing /\ cached' = cached /\ shown' = shown /\ torn' \in BOOLEAN
        /\ rawPage' = rawPage /\ rawCopy' = rawCopy /\ rawCache' = rawCache /\ late' \in BOOLEAN
    BY <1>8, Zenon DEF openDevice, closeDevice, moduleVars
  <2>2. Cpus' = Cpus /\ Fields' = Fields /\ Names' = Names /\ Writes' = Writes
    BY <2>1, SameDevice, Zenon
  <2>3. PICK n \in {0, 1} : reader' = Opened(n)
    BY <1>8, Zenon DEF openDevice, closeDevice, Closed
  <2>4. 1 \in DOMAIN Fields /\ machine.cpus \in Nat \ {0}
    BY DeviceFields, KernelAssumption, Zenon
  <2>5. 0 \in 0 .. machine.cpus + 1 /\ 1 \in 0 .. machine.cpus + 1
    BY <2>4
  <2>6. NoCount \in [Names -> Nat]
    BY Zenon DEF NoCount
  <2>7. /\ reader' \in [cpu : 0 .. machine.cpus + 1, pass : {"name", "curr", "all", "cache"},
                   at : DOMAIN Fields, got : [Names -> Nat], all : [Names -> Nat],
                   old : [Names -> Nat], base : Nat]
        /\ reader'.pass = "name"
    BY <2>3, <2>4, <2>5, <2>6, Zenon DEF Opened
  <2> QED
    BY <2>1, <2>2, <2>7, Zenon
<1>9. ASSUME checkName PROVE SampleTypes'
  <2>1. /\ machine' = machine /\ device' = device /\ counter' = counter /\ page' = page
        /\ writing' = writing /\ cached' = cached /\ shown' = shown /\ torn' = torn
        /\ rawPage' = rawPage /\ rawCopy' = rawCopy /\ rawCache' = rawCache /\ late' = late
    BY <1>9, Zenon DEF checkName, moduleVars
  <2>2. Cpus' = Cpus /\ Fields' = Fields /\ Names' = Names /\ Writes' = Writes
    BY <2>1, SameDevice, Zenon
  <2>3. 1 \in DOMAIN Fields
    BY DeviceFields, Zenon
  <2>4. reader' = [reader EXCEPT !.at = 1,
             !.pass = IF device = "cpu_stat" /\ cached[reader.cpu] = None THEN "cache" ELSE "curr"]
        /\ reader.cpu \in Cpus
    BY <1>9, Zenon DEF checkName
  <2>5. /\ reader' \in [cpu : 0 .. machine.cpus + 1, pass : {"name", "curr", "all", "cache"},
                   at : DOMAIN Fields, got : [Names -> Nat], all : [Names -> Nat],
                   old : [Names -> Nat], base : Nat]
        /\ reader'.cpu = reader.cpu
        /\ reader'.pass = IF device = "cpu_stat" /\ cached[reader.cpu] = None THEN "cache" ELSE "curr"
    BY <2>3, <2>4, Zenon
  <2> QED
    BY <2>1, <2>2, <2>4, <2>5, Zenon
<1> QED
  BY <1>1, <1>2, <1>4, <1>5, <1>6, <1>7, <1>8, <1>9, ReadKeepsTypes, Zenon DEF KernelNext

\* A step that leaves the reader and the counters alone, and fills no field.
LEMMA LevelsSame ==
    ASSUME NEW c \in Cpus, NEW f \in Names,
           NEW q \in Nat, NEW r \in Nat, NEW g \in Nat, NEW p \in Nat, Levels(c, f, q, r, g, p),
           device' = device, counter' = counter, reader' = reader, cached' = cached, shown' = shown,
           rawCopy' = rawCopy, rawCache' = rawCache,
           Filled(c, f)' => Filled(c, f) /\ page' = page /\ rawPage' = rawPage
    PROVE  Levels(c, f, q, r, g, p)'
BY Zenon DEF Levels, HasRead, Base, Converted

\* A count of the scheduler keeps the levels.
LEMMA CountLevels ==
    ASSUME SampleTypes, SampleTypes', NEW d \in Cpus, NEW e \in Names, count(d, e),
           NEW c \in Cpus, NEW f \in Names,
           NEW q \in Nat, NEW r \in Nat, NEW g \in Nat, NEW p \in Nat, Levels(c, f, q, r, g, p)
    PROVE  Levels(c, f, q, r, g, p)'
<1>1. /\ machine' = machine /\ device' = device /\ page' = page /\ writing' = writing /\ kmod' = kmod
      /\ held' = held /\ reader' = reader /\ cached' = cached /\ shown' = shown
      /\ rawPage' = rawPage /\ rawCopy' = rawCopy /\ rawCache' = rawCache
      /\ counter' = [counter EXCEPT ![d][e] = @ + 1]
  BY Zenon DEF count
<1>2. counter[c][f] \in Nat /\ counter'[c][f] \in Nat /\ counter[c][f] <= counter'[c][f]
  <2>1. counter \in [Cpus -> [Names -> Nat]]
    BY Zenon DEF SampleTypes
  <2>2. counter'[c][f] = IF c = d /\ f = e THEN counter[c][f] + 1 ELSE counter[c][f]
    BY <1>1, <2>1, Zenon
  <2>3. counter[c][f] \in Nat
    BY <2>1, Zenon
  <2> QED
    BY <2>2, <2>3
<1>3. Filled(c, f)' = Filled(c, f)
  BY <1>1, Zenon DEF Filled, Position, Fields
<1>4. HasRead(c, f)' = HasRead(c, f)
  BY <1>1, Zenon DEF HasRead
<1>5. IrqWrap \in Nat
  BY KernelAssumption, Zenon
<1>6. p <= counter'[c][f] /\ (counter[c][f] >= IrqWrap => counter'[c][f] >= IrqWrap)
  BY <1>2, <1>5 DEF Levels
<1> QED
  BY <1>1, <1>3, <1>4, <1>6, Zenon DEF Levels

\* The init and exit functions and the timer.
LEMMA ModuleLevels ==
    ASSUME SampleTypes, KernelInv,
           \/ \E i \in DOMAIN Stages : acquire(Stages[i]) \/ loadFails(Stages[i])
           \/ hrtimer_start \/ timer_callback \/ exitBegins \/ hrtimer_cancel \/ releaseAll,
           NEW c \in Cpus, NEW f \in Names,
           NEW q \in Nat, NEW r \in Nat, NEW g \in Nat, NEW p \in Nat, Levels(c, f, q, r, g, p)
    PROVE  Levels(c, f, q, r, g, p)'
<1>1. /\ machine' = machine /\ device' = device /\ counter' = counter /\ reader' = reader
      /\ cached' = cached /\ shown' = shown /\ rawCopy' = rawCopy /\ rawCache' = rawCache
  BY Zenon DEF acquire, loadFails, hrtimer_start, timer_callback, exitBegins, hrtimer_cancel, releaseAll,
         readerVars
<1>2. Position(c, f)' = Position(c, f) /\ Position(c, f) \in Nat /\ Position(c, f) >= 1
  <2>1. Len(Fields) \in {1, 2} /\ c \in Nat \ {0}
    BY DeviceFields, Sizes DEF SampleTypes, Cpus
  <2> QED
    BY <1>1, <2>1 DEF Position, Fields
<1>3. Filled(c, f)' => Filled(c, f) /\ page' = page /\ rawPage' = rawPage
  <2>1. CASE \E i \in DOMAIN Stages : acquire(Stages[i])
    <3>1. PICK i \in DOMAIN Stages : acquire(Stages[i])
      BY <2>1, Zenon
    <3>2. kmod' = "loading" /\ held' = held \cup {Stages[i]}
          /\ writing' = (IF Stages[i] = "device" THEN 1 ELSE writing)
      BY <3>1, Zenon DEF acquire
    <3>3. held \in Prefixes \cup {{}} /\ held # AllStages
      BY <3>1, NextStage, Zenon DEF acquire, KernelInv
    <3>4. "device" \notin held
      BY <3>3 DEF Prefixes, AllStages
    <3>5. CASE Stages[i] = "device"
      BY <1>2, <3>2, <3>5 DEF Filled
    <3>6. CASE Stages[i] # "device"
      <4>1. held' # AllStages
        BY <3>2, <3>4, <3>6 DEF AllStages
      <4> QED
        BY <3>2, <4>1, Zenon DEF Filled
    <3> QED
      BY <3>5, <3>6, Zenon
  <2>2. CASE \E i \in DOMAIN Stages : loadFails(Stages[i])
    BY <2>2, Zenon DEF loadFails, Filled
  <2>3. CASE hrtimer_start
    <3>1. held = AllStages
      BY <2>3, TakenStages, Zenon DEF hrtimer_start
    <3> QED
      BY <2>3, <3>1, Zenon DEF hrtimer_start, Filled
  <2>4. CASE timer_callback
    <3>1. kmod # "loading" /\ kmod' = kmod /\ page' = page /\ rawPage' = rawPage
      BY <2>4, Zenon DEF timer_callback, KernelInv
    <3> QED
      BY <3>1, Zenon DEF Filled
  <2>5. CASE exitBegins \/ hrtimer_cancel \/ releaseAll
    <3>1. kmod' \in {"exiting", "out"}
      BY <2>5, Zenon DEF exitBegins, hrtimer_cancel, releaseAll
    <3> QED
      BY <3>1, Zenon DEF Filled
  <2> QED
    BY <2>1, <2>2, <2>3, <2>4, <2>5, Zenon
<1> QED
  BY <1>1, <1>3, LevelsSame, Zenon

\* An assignment to one place leaves the others.
LEMMA OtherPlace ==
    ASSUME NEW N, NEW v \in [N -> Nat], NEW x, NEW n, NEW f \in N, f # x
    PROVE  [v EXCEPT ![x] = n][f] = v[f]
OBVIOUS

\* The field that is written has the counter's value from now on.
LEMMA WriteLevels ==
    ASSUME SampleTypes, KernelInv, writeField, NEW c \in Cpus, NEW f \in Names,
           NEW q \in Nat, NEW r \in Nat, NEW g \in Nat, NEW p \in Nat, Levels(c, f, q, r, g, p)
    PROVE  \E pp \in Nat : Levels(c, f, q, r, g, pp)'
<1> DEFINE d == CpuAt(writing)
           k == (writing - 1) % (Len(Fields) + 1)
<1>1. /\ machine' = machine /\ device' = device /\ counter' = counter /\ reader' = reader
      /\ cached' = cached /\ shown' = shown /\ kmod' = kmod /\ held' = held
      /\ rawCopy' = rawCopy /\ rawCache' = rawCache
      /\ writing > 0 /\ writing' = IF writing < Writes THEN writing + 1 ELSE 0
  BY Zenon DEF writeField, readerVars
<1>2. page' = IF k = 0 THEN [page EXCEPT ![d].name = TRUE]
              ELSE [page EXCEPT ![d].value[Fields[k]] = Converted(Fields[k], counter[d][Fields[k]])]
  BY Zenon DEF writeField
<1>8. rawPage' = IF k = 0 THEN rawPage ELSE [rawPage EXCEPT ![d][Fields[k]] = counter[d][Fields[k]]]
  BY Zenon DEF writeField
<1>3. /\ d \in Cpus
      /\ Position(c, f) = writing => c = d /\ k # 0 /\ f = Fields[k]
      /\ Position(c, f) \in Nat /\ Position(c, f) <= Writes
  BY <1>1, WriteAt, Zenon
<1>4. Position(c, f)' = Position(c, f) /\ writing \in Nat /\ Writes \in Nat
  BY <1>1, Sizes DEF Position, Fields, SampleTypes
<1> HIDE DEF d, k
<1>5. /\ page \in [Cpus -> [name : BOOLEAN, value : [Names -> Nat]]] /\ counter[c][f] \in Nat
      /\ rawPage \in [Cpus -> [Names -> Nat]]
  <2>1. counter \in [Cpus -> [Names -> Nat]]
    BY Zenon DEF SampleTypes
  <2> QED
    BY <2>1, Zenon DEF SampleTypes
<1>6. CASE c = d /\ k # 0 /\ f = Fields[k]
  <2>1. page'[c].value[f] = Converted(f, counter[c][f])
    BY <1>2, <1>3, <1>5, <1>6, Zenon
  <2>7. rawPage'[c][f] = counter[c][f]
    BY <1>3, <1>5, <1>6, <1>8, Zenon
  <2>2. p <= counter[c][f] /\ r <= p
    BY Zenon DEF Levels
  <2>3. r <= counter[c][f] /\ (g <= p => g <= counter[c][f])
    BY <1>5, <2>2
  <2>4. PICK n \in Nat : n = counter[c][f]
    BY <1>5, Zenon
  <2>5. r <= n /\ (g <= p => g <= n) /\ n <= n
    BY <2>3, <2>4
  <2>6. Levels(c, f, q, r, g, n)'
    BY <1>1, <2>1, <2>4, <2>5, <2>7, Zenon DEF Levels, HasRead, Filled
  <2> QED
    BY <2>6, Zenon
<1>7. CASE ~(c = d /\ k # 0 /\ f = Fields[k])
  <2>1. page'[c].value[f] = page[c].value[f]
    <3>1. CASE k = 0
      <4>1. page' = [page EXCEPT ![d].name = TRUE]
        BY <1>2, <3>1, Zenon
      <4>2. page'[c].value = page[c].value
        BY <1>3, <1>5, <4>1, Zenon
      <4> QED
        BY <4>2, Zenon
    <3>2. CASE k # 0 /\ c # d
      <4>1. page'[c] = page[c]
        BY <1>2, <1>3, <1>5, <3>2, Zenon
      <4> QED
        BY <4>1, Zenon
    <3>3. CASE k # 0 /\ c = d /\ f # Fields[k]
      <4>1. page' = [page EXCEPT ![d].value[Fields[k]] = Converted(Fields[k], counter[d][Fields[k]])]
        BY <1>2, <3>3, Zenon
      <4>2. page'[c].value = [page[c].value EXCEPT ![Fields[k]] = Converted(Fields[k], counter[d][Fields[k]])]
        BY <1>3, <1>5, <3>3, <4>1, Zenon
      <4> QED
        BY <1>5, <3>3, <4>2
    <3> QED
      BY <1>7, <3>1, <3>2, <3>3, Zenon
  <2>2. Filled(c, f)' => Filled(c, f)
    <3>1. Position(c, f) # writing
      BY <1>3, <1>7, Zenon
    <3>2. (writing' = 0 \/ Position(c, f) < writing') => Position(c, f) < writing
      BY <1>1, <1>3, <1>4, <3>1
    <3> QED
      BY <1>1, <1>4, <3>2, Zenon DEF Filled
  <2>4. rawPage'[c][f] = rawPage[c][f]
    <3>1. CASE k = 0 \/ c # d
      BY <1>3, <1>5, <1>8, <3>1, Zenon
    <3>2. CASE k # 0 /\ c = d /\ f # Fields[k]
      <4>1. rawPage'[c] = [rawPage[c] EXCEPT ![Fields[k]] = counter[d][Fields[k]]]
        BY <1>3, <1>5, <1>8, <3>2, Zenon
      <4>2. rawPage[c] \in [Names -> Nat]
        BY <1>5, Zenon
      <4> QED
        BY <3>2, <4>1, <4>2, OtherPlace, Zenon
    <3> QED
      BY <1>7, <3>1, <3>2, Zenon
  <2>3. Levels(c, f, q, r, g, p)'
    BY <1>1, <2>1, <2>2, <2>4, Zenon DEF Levels, HasRead
  <2> QED
    BY <2>3, Zenon
<1> QED
  BY <1>6, <1>7, Zenon

\* The loop of the monitor between the entries.
LEMMA HeadLevels ==
    ASSUME SampleTypes, openDevice \/ checkName \/ closeDevice, NEW c \in Cpus, NEW f \in Names,
           NEW q \in Nat, NEW r \in Nat, NEW g \in Nat, NEW p \in Nat, Levels(c, f, q, r, g, p)
    PROVE  Levels(c, f, q, r, g, p)'
<1>1. /\ machine' = machine /\ device' = device /\ counter' = counter /\ page' = page
      /\ cached' = cached /\ shown' = shown /\ kmod' = kmod /\ held' = held /\ writing' = writing
      /\ rawPage' = rawPage /\ rawCopy' = rawCopy /\ rawCache' = rawCache
  BY Zenon DEF openDevice, checkName, closeDevice, moduleVars
<1>2. reader.pass = "name"
  BY DEF openDevice, checkName, closeDevice, SampleTypes, Cpus
<1>3. ~HasRead(c, f)'
  <2>1. CASE checkName
    <3>1. reader'.at = 1
      BY <2>1, Zenon DEF checkName, SampleTypes
    <3> QED
      BY <3>1 DEF HasRead
  <2>2. CASE openDevice \/ closeDevice
    <3>1. reader'.pass = "name"
      BY <2>2, OpenedParts, Zenon DEF openDevice, closeDevice, Closed
    <3> QED
      BY <3>1, Zenon DEF HasRead
  <2> QED
    BY <2>1, <2>2, Zenon
<1>4. Filled(c, f)' = Filled(c, f)
  BY <1>1, Zenon DEF Filled, Position, Fields
<1>5. r = q
  BY <1>2, Zenon DEF Levels
<1> QED
  BY <1>1, <1>3, <1>4, <1>5, Zenon DEF Levels

\* The values behind a complete copy, and behind what it is compared with.
LEMMA CopyBehind ==
    ASSUME SampleTypes, readField, IsLast, kmod = "live", NEW f \in Names,
           NEW q \in Nat, NEW r \in Nat, NEW g \in Nat, NEW p \in Nat,
           Levels(reader.cpu, f, q, r, g, p)
    PROVE  \E x \in Nat : r <= x /\ x <= p /\ ReadGot[f] = Converted(f, x) /\ ReadRaw[f] = x
<1> DEFINE c == reader.cpu
<1>1. c \in Cpus /\ Fields[reader.at] \in Names /\ reader.pass # "name"
  BY ReadFacts, Zenon
<1>2. ReadGot[f] = IF f = Fields[reader.at] THEN page[c].value[f] ELSE reader.got[f]
  BY <1>1, Zenon DEF ReadGot, SampleTypes
<1>7. ReadRaw[f] = IF f = Fields[reader.at] THEN rawPage[c][f] ELSE rawCopy[f]
  BY <1>1, Zenon DEF ReadRaw, SampleTypes
<1>3. page[c].value[f] = Converted(f, p) /\ rawPage[c][f] = p
  BY Zenon DEF Levels, Filled
<1>4. r <= p /\ p <= p
  BY DEF Levels
<1>5. CASE f = Fields[reader.at]
  BY <1>2, <1>3, <1>4, <1>5, <1>7, Zenon
<1>6. CASE f # Fields[reader.at]
  <2>1. f = "busy" /\ reader.at = 2
    BY <1>6, DeviceFields, Zenon DEF IsLast, SampleTypes
  <2>2. HasRead(c, f)
    BY <1>1, <2>1, Zenon DEF HasRead
  <2> QED
    BY <1>2, <1>6, <1>7, <2>2, Zenon DEF Levels
<1> QED
  BY <1>5, <1>6, Zenon

\* A report subtracts the value that the last one reached.
LEMMA OldBehind ==
    ASSUME SampleTypes, readField, reader.pass \in {"curr", "all"}, NEW f \in Names,
           NEW q \in Nat, NEW r \in Nat, NEW g \in Nat, NEW p \in Nat,
           Levels(reader.cpu, f, q, r, g, p)
    PROVE  OldOf(reader.cpu)[f] = Converted(f, q)
<1>1. OldOf(reader.cpu)[f] = Before(reader.cpu, f)
  BY Zenon DEF OldOf
<1>2. CASE cached[reader.cpu] # None
  BY <1>1, <1>2, Zenon DEF Before, Levels
<1>3. CASE cached[reader.cpu] = None
  <2>1. device = "softirq"
    BY <1>3, Zenon DEF SampleTypes
  <2>2. f = "irq" /\ q = 0
    BY <1>3, <2>1, DeviceFields, Zenon DEF Levels
  <2>3. Converted(f, q) = 0
    <3>1. f \in {"busy", "idle", "irq"} /\ 0 \in Nat /\ 0 <= 0
      BY <2>2
    <3> QED
      BY <2>2, <3>1, ConvertedRises, Zenon
  <2> QED
    BY <1>1, <1>3, <2>3, Zenon DEF Before
<1> QED
  BY <1>2, <1>3, Zenon

\* A step of a pass: the last field of the first pass may raise what is shown to
\* the copy, the last field of the last pass brings the cache up with it.
LEMMA ReadLevels ==
    ASSUME SampleTypes, SampleTypes', readField, kmod = "live", NEW c \in Cpus, NEW f \in Names,
           NEW q \in Nat, NEW r \in Nat, NEW g \in Nat, NEW p \in Nat, Levels(c, f, q, r, g, p)
    PROVE  \E qq, rr, gg \in Nat : Levels(c, f, qq, rr, gg, p)'
<1>1. /\ reader.cpu \in Cpus /\ reader.pass \in {"curr", "all", "cache"}
      /\ machine' = machine /\ device' = device /\ counter' = counter /\ page' = page
      /\ kmod' = kmod /\ held' = held /\ writing' = writing /\ rawPage' = rawPage
  BY ReadFacts, Zenon
<1>7. rawCopy' = ReadRaw /\ rawCache \in [Cpus -> [Names -> Nat]]
  BY RawFacts, Zenon DEF SampleTypes
<1>2. Filled(c, f)' = Filled(c, f)
  BY <1>1, Zenon DEF Filled, Position, Fields
<1>3. /\ cached \in [Cpus -> [Names -> Nat] \cup {None}] /\ shown \in [Cpus -> [Names -> Int]]
      /\ counter[c][f] \in Nat /\ reader.cpu \in Int
  <2>1. /\ cached \in [Cpus -> [Names -> Nat] \cup {None}] /\ shown \in [Cpus -> [Names -> Int]]
        /\ counter \in [Cpus -> [Names -> Nat]]
    BY Zenon DEF SampleTypes
  <2>2. reader.cpu \in 1 .. machine.cpus /\ machine.cpus \in Nat
    BY <1>1, Sizes, Zenon DEF Cpus
  <2> QED
    BY <2>1, <2>2
<1>4. CASE c # reader.cpu
  <2>1. r = q
    BY <1>4, Zenon DEF Levels
  <2>2. cached'[c] = cached[c] /\ rawCache'[c] = rawCache[c]
    BY <1>1, <1>3, <1>4, <1>7, ReadFacts, RawFacts, Zenon
  <2>3. shown'[c] = shown[c]
    BY <1>1, <1>3, <1>4, ReportFacts, Zenon
  <2>4. ~HasRead(c, f)'
    <3>1. reader'.cpu = reader.cpu \/ reader'.pass = "name"
      BY ReadFacts, Zenon
    <3> QED
      BY <1>4, <3>1, Zenon DEF HasRead
  <2>5. Levels(c, f, q, r, g, p)'
    BY <1>1, <1>2, <2>1, <2>2, <2>3, <2>4, Zenon DEF Levels
  <2> QED
    BY <2>5, Zenon
<1>5. CASE c = reader.cpu /\ ~IsLast
  <2>1. /\ reader'.cpu = reader.cpu /\ reader'.pass = reader.pass /\ reader'.got = ReadGot
        /\ cached' = cached /\ rawCache' = rawCache
    BY <1>5, ReadFacts, RawFacts, Zenon
  <2>2. shown' = shown
    BY <1>5, ReportFacts, Zenon
  <2>3. Fields[reader.at] = "busy" /\ "busy" \in Names
    <3>1. reader.at \in DOMAIN Fields
      BY Zenon DEF SampleTypes
    <3>2. device = "cpu_stat" /\ reader.at = 1
      <4>1. CASE device = "cpu_stat"
        <5>1. Len(Fields) = 2 /\ DOMAIN Fields = {1, 2}
          BY <4>1, DeviceFields, Zenon
        <5> QED
          BY <1>5, <3>1, <4>1, <5>1, Zenon DEF IsLast
      <4>2. CASE device = "softirq"
        <5>1. Len(Fields) = 1 /\ DOMAIN Fields = {1}
          BY <4>2, DeviceFields, Zenon
        <5> QED
          BY <1>5, <3>1, <5>1, Zenon DEF IsLast
      <4> QED
        BY <4>1, <4>2, Zenon DEF SampleTypes
    <3> QED
      BY <3>2, DeviceFields, Zenon
  <2>4. ReadGot["busy"] = page[c].value["busy"] /\ ReadRaw["busy"] = rawPage[c]["busy"]
    BY <1>5, <2>3, Zenon DEF ReadGot, ReadRaw, SampleTypes
  <2>5. page[c].value[f] = Converted(f, p) /\ rawPage[c][f] = p /\ r <= p /\ p <= p
    <3>1. page[c].value[f] = Converted(f, p) /\ rawPage[c][f] = p /\ r <= p
      BY Zenon DEF Levels, Filled
    <3>2. p <= p
      OBVIOUS
    <3> QED
      BY <3>1, <3>2, Zenon
  <2>6. HasRead(c, f)' => reader'.got[f] = Converted(f, p) /\ rawCopy'[f] = p
    BY <1>7, <2>1, <2>4, <2>5, Zenon DEF HasRead
  <2>7. Levels(c, f, q, r, p, p)'
    BY <1>1, <1>2, <2>1, <2>2, <2>5, <2>6, Zenon DEF Levels
  <2> QED
    BY <2>7, Zenon
<1>6. CASE c = reader.cpu /\ IsLast
  <2>1. PICK x \in Nat : r <= x /\ x <= p /\ ReadGot[f] = Converted(f, x) /\ ReadRaw[f] = x
    BY <1>6, CopyBehind
  <2>2. reader'.at = 1
    BY <1>6, ReadFacts, Zenon
  <2>3. ~HasRead(c, f)'
    BY <2>2 DEF HasRead
  <2>4. f \in {"busy", "idle", "irq"} /\ Base(f) \in Nat
    <3>1. f \in {"busy", "idle", "irq"}
      BY DeviceFields, Zenon DEF SampleTypes
    <3> QED
      BY <3>1, KernelAssumption, Zenon DEF Base
  <2>5. /\ Base(f) <= q /\ q <= r /\ r <= p /\ p <= counter[c][f]
    BY Zenon DEF Levels
  <2>6. CASE reader.pass = "cache"
    <3>1. cached'[c] = ReadGot /\ shown' = shown /\ rawCache'[c] = ReadRaw
      <4>1. cached'[c] = ReadGot /\ shown' = shown
        BY <1>3, <1>6, <2>6, ReadFacts, ReportFacts, Zenon
      <4>2. rawCache'[c] = ReadRaw
        BY <1>6, <1>7, <2>6, RawFacts, Zenon
      <4> QED
        BY <4>1, <4>2, Zenon
    <3>2. ReadGot # None
      <4>1. ReadGot \in [Names -> Nat] /\ Names \in {{"busy", "idle"}, {"irq"}}
        BY ReadFacts, DeviceFields, Zenon DEF SampleTypes
      <4> QED
        BY <4>1, KernelAssumption, Zenon
    <3>3. reader'.cpu = reader.cpu + 1 /\ reader'.pass = "name"
      BY <1>6, <2>6, ReadFacts, Zenon DEF After
    <3>4. Base(f) <= x /\ x <= x
      <4>1. Base(f) \in Nat /\ Base(f) <= q /\ q <= r
        BY <2>4, <2>5, Zenon
      <4>2. r <= x
        BY <2>1, Zenon
      <4> QED
        BY <4>1, <4>2
    <3>5. (f = "irq" /\ counter[c][f] >= IrqWrap) \/ shown[c][f] <= x - Base(f)
      <4>1. shown[c][f] \in Int
        BY <1>3, Zenon
      <4>2. shown[c][f] <= r - Base(f) => shown[c][f] <= x - Base(f)
        BY <2>1, <2>4, <4>1
      <4> QED
        BY <4>2, Zenon DEF Levels
    <3>6. Levels(c, f, x, x, x, p)'
      BY <1>1, <1>2, <2>1, <2>3, <2>5, <3>1, <3>2, <3>3, <3>4, <3>5, Zenon DEF Levels
    <3> QED
      BY <3>6, Zenon
  <2>7. CASE reader.pass = "all"
    <3>1. cached' = cached /\ shown' = shown /\ rawCache' = rawCache
      BY <2>7, ReadFacts, ReportFacts, RawFacts, Zenon
    <3>2. reader'.cpu = reader.cpu /\ reader'.pass = "cache"
      BY <1>6, <2>7, ReadFacts, Zenon DEF After
    <3>3. Levels(c, f, q, r, g, p)'
      BY <1>1, <1>2, <1>6, <2>3, <3>1, <3>2, Zenon DEF Levels
    <3> QED
      BY <3>3, Zenon
  <2>8. CASE reader.pass = "curr"
    <3>1. cached' = cached /\ rawCache' = rawCache
      BY <2>8, ReadFacts, RawFacts, Zenon
    <3>2. reader'.cpu = reader.cpu /\ reader'.pass \in {"all", "cache"}
      BY <1>6, <2>8, ReadFacts, Zenon DEF After
    <3>3. r = q
      BY <2>8, Zenon DEF Levels
    <3>4. CASE shown' = shown
      <4>1. Levels(c, f, q, r, g, p)'
        BY <1>1, <1>2, <1>6, <2>3, <3>1, <3>2, <3>4, Zenon DEF Levels
      <4> QED
        BY <4>1
    <3>5. CASE shown' # shown
      <4>1. /\ entry' = Reported(c, ReadGot, OldOf(c)) /\ entry' # None
            /\ shown' = [shown EXCEPT ![c] = [h \in Names |-> shown[c][h] + entry'.delta[h]]]
        BY <1>6, <2>8, <3>5, ReportFacts, Zenon
      <4>2. shown'[c][f] = shown[c][f] + entry'.delta[f]
        BY <1>3, <4>1, Zenon
      <4>3. OldOf(c)[f] = Converted(f, q)
        BY <1>6, <2>8, OldBehind, Zenon
      <4>4. q <= x
        BY <2>1, <2>5
      <4>5. /\ Converted(f, q) \in Nat /\ Converted(f, x) \in Nat
            /\ Converted(f, x) - Converted(f, q) <= x - q
            /\ f = "irq" /\ x < IrqWrap => Converted(f, q) = q /\ Converted(f, x) = x
        BY <2>4, <4>4, ConvertedRises, Zenon
      <4>6. (f = "irq" /\ counter[c][f] >= IrqWrap) \/ (entry'.delta[f] \in Int /\ entry'.delta[f] <= x - q)
        <5>1. CASE device = "cpu_stat"
          <6>1. entry'.delta = Deltas(ReadGot, OldOf(c))
            BY <4>1, <5>1, Zenon DEF Reported
          <6>2. entry'.delta[f] = Converted(f, x) - Converted(f, q)
            BY <2>1, <4>3, <6>1, Zenon DEF Deltas
          <6> QED
            BY <4>5, <6>2
        <5>2. CASE device = "softirq" /\ ~(counter[c][f] >= IrqWrap)
          <6>1. f = "irq"
            BY <5>2, DeviceFields
          <6>2. x < IrqWrap
            BY <1>3, <2>1, <2>5, <5>2, KernelAssumption
          <6>3. entry'.delta[f] = (Converted(f, x) - Converted(f, q)) % 2^16
            BY <2>1, <4>1, <4>3, <5>2, Zenon DEF Reported, WrapU64
          <6>4. entry'.delta[f] = (x - q) % 2^16 /\ x - q \in Nat
            BY <4>4, <4>5, <6>1, <6>2, <6>3
          <6>5. \A y \in Nat : y % 2^16 \in Int /\ y % 2^16 <= y
            OBVIOUS
          <6> QED
            BY <6>4, <6>5, Zenon
        <5>3. CASE device = "softirq" /\ counter[c][f] >= IrqWrap
          BY <5>3, DeviceFields
        <5> QED
          BY <5>1, <5>2, <5>3, Zenon DEF SampleTypes
      <4>7. (f = "irq" /\ counter[c][f] >= IrqWrap) \/ shown'[c][f] <= x - Base(f)
        <5>1. shown[c][f] \in Int
          BY <1>3
        <5>2. (f = "irq" /\ counter[c][f] >= IrqWrap) \/ shown[c][f] <= q - Base(f)
          BY <3>3, Zenon DEF Levels
        <5>3. ASSUME NEW d \in Int, d <= x - q, shown[c][f] <= q - Base(f)
              PROVE  shown[c][f] + d <= x - Base(f)
          BY <2>4, <5>1, <5>3
        <5> QED
          BY <4>2, <4>6, <5>2, <5>3, Zenon
      <4>8. Levels(c, f, q, x, g, p)'
        BY <1>1, <1>2, <1>6, <2>1, <2>3, <2>5, <3>1, <3>2, <4>4, <4>7, Zenon DEF Levels
      <4> QED
        BY <4>8, Zenon
    <3> QED
      BY <3>4, <3>5, Zenon
  <2> QED
    BY <1>1, <2>6, <2>7, <2>8, Zenon
<1> QED
  BY <1>4, <1>5, <1>6, Zenon

-----------------------------------------------------------------------------
\* The percentages.  Sums over CPUs stay within what the CPUs can have counted,
\* except that idle time may have lost a whole round.
LEMMA BoundsAdd ==
    ASSUME Span \in Nat, NEW n \in Nat, NEW a \in Int, NEW b \in Int,
           NEW d \in Int, NEW e \in Int, InBounds(a, b, n), InBounds(d, e, 1)
    PROVE  InBounds(a + d, b + e, n + 1)
<1>1. IdleWrap \in Nat
  BY KernelAssumption, Zenon
<1> DEFINE G == Span
           N == n * G
<1>2. (n + 1) * G = N + G /\ 1 * G = G /\ N \in Nat
  OBVIOUS
<1>3. /\ 0 <= a /\ a <= N /\ b <= N /\ (b >= 0 \/ b <= N - IdleWrap)
      /\ 0 <= d /\ d <= G /\ e <= G /\ (e >= 0 \/ e <= G - IdleWrap)
  BY <1>2, Zenon DEF InBounds
<1> HIDE DEF N
<1>4. 0 <= a + d /\ a + d <= N + G /\ b + e <= N + G
  BY <1>2, <1>3
<1>5. b + e >= 0 \/ b + e <= N + G - IdleWrap
  BY <1>1, <1>2, <1>3
<1> DEFINE T == (n + 1) * Span
<1>6. T = N + G
  BY <1>2, Zenon
<1> HIDE DEF T
<1>7. 0 <= a + d /\ a + d <= T /\ b + e <= T
  BY <1>4, <1>6, Zenon
<1>8. b + e >= 0 \/ b + e <= T - IdleWrap
  BY <1>1, <1>2, <1>5, <1>6
<1> QED
  BY <1>7, <1>8, Zenon DEF InBounds, T

\* Bounds for n CPUs are bounds for one more.
LEMMA BoundsGrow ==
    ASSUME Span \in Nat, NEW n \in Nat, NEW a \in Int, NEW b \in Int, InBounds(a, b, n)
    PROVE  InBounds(a, b, n + 1)
<1>1. InBounds(0, 0, 1)
  BY DEF InBounds
<1>2. InBounds(a + 0, b + 0, n + 1)
  BY <1>1, BoundsAdd
<1> QED
  BY <1>2

\* A sum of differences that shows time has passed has lost no round.
LEMMA FairShare ==
    ASSUME SampleTypes, NEW n \in Nat, n <= machine.cpus, NEW a \in Int, NEW b \in Int,
           InBounds(a, b, n), a + b > 0
    PROVE  a >= 0 /\ b >= 0 /\ a <= a + b /\ b <= a + b
<1>1. Span \in Nat /\ machine.cpus \in Nat
  BY Sizes, SpanFits, Zenon
<1>2. IdleWrap \in Nat /\ 2 * (machine.cpus * Span) <= IdleWrap
  BY KernelAssumption, SpanFits, Zenon
<1>3. PICK k \in Nat : machine.cpus = n + k
  <2>1. machine.cpus - n \in Nat /\ machine.cpus = n + (machine.cpus - n)
    BY <1>1
  <2> QED
    BY <2>1, Zenon
<1>4. /\ machine.cpus * Span = n * Span + k * Span
      /\ n * Span \in Nat /\ k * Span \in Nat
  BY <1>1, <1>3
<1>5. n * Span + n * Span <= IdleWrap
  BY <1>2, <1>4
<1>6. ASSUME NEW m \in Nat, m + m <= IdleWrap, a <= m, b <= m - IdleWrap PROVE FALSE
  BY <1>2, <1>6
<1>7. b >= 0
  BY <1>4, <1>5, <1>6, Zenon DEF InBounds
<1>8. a >= 0
  BY Zenon DEF InBounds
<1> QED
  BY <1>7, <1>8

\* The percentages of an entry, given the bounds of its differences.
InRange(d) == \A f \in Names : d[f] >= 0 /\ d[f] <= Total(d)

\* A report within the bounds is in range.
LEMMA ReportInRange ==
    ASSUME SampleTypes, device = "cpu_stat", NEW who,
           NEW curr \in [Names -> Nat], NEW old \in [Names -> Nat],
           NEW n \in Nat, n <= machine.cpus,
           InBounds(curr.busy - old.busy, curr.idle - old.idle, n),
           Reported(who, curr, old) # None
    PROVE  InRange(Reported(who, curr, old).delta)
<1>1. Names = {"busy", "idle"}
  BY DeviceFields, Zenon
<1> DEFINE d == Deltas(curr, old)
<1>2. d.busy = curr.busy - old.busy /\ d.idle = curr.idle - old.idle /\ d.busy \in Int /\ d.idle \in Int
  BY <1>1 DEF Deltas
<1>3. Reported(who, curr, old) = (IF Total(d) <= 0 THEN None ELSE [cpu |-> who, delta |-> d])
  BY Zenon DEF Reported
<1> HIDE DEF d
<1>4. Total(d) = d.busy + d.idle
  BY Zenon DEF Total
<1>5. ~(Total(d) <= 0)
  BY <1>3, Zenon
<1>6. Reported(who, curr, old).delta = d
  BY <1>3, <1>5
<1>7. d.busy + d.idle > 0
  BY <1>2, <1>4, <1>5
<1>8. d.busy >= 0 /\ d.idle >= 0 /\ d.busy <= d.busy + d.idle /\ d.idle <= d.busy + d.idle
  BY <1>2, <1>7, FairShare, Zenon
<1> QED
  BY <1>1, <1>4, <1>6, <1>8, Zenon DEF InRange

\* The differences of one CPU.
LEMMA CpuInBounds ==
    ASSUME SampleTypes, Sound, readField, IsLast, device = "cpu_stat", reader.pass \in {"curr", "all"}, ~late'
    PROVE  InBounds(ReadGot.busy - OldOf(reader.cpu).busy, ReadGot.idle - OldOf(reader.cpu).idle, 1)
<1> DEFINE c == reader.cpu
<1>1. c \in Cpus /\ Names = {"busy", "idle"} /\ Span \in Nat /\ machine.cpus \in Nat
  BY ReadFacts, DeviceFields, Sizes, SpanFits, Zenon
<1>2. kmod = "live"
  BY <1>1 DEF Sound, Cpus
<1>3. ASSUME NEW f \in Names
      PROVE  \E q, x \in Nat : /\ q <= x /\ x - q <= Span
                               /\ ReadGot[f] = Converted(f, x) /\ OldOf(c)[f] = Converted(f, q)
  <2>1. PICK q, r, g, p \in Nat : Levels(c, f, q, r, g, p)
    BY <1>1, Zenon DEF Sound
  <2>2. PICK x \in Nat : r <= x /\ x <= p /\ ReadGot[f] = Converted(f, x) /\ ReadRaw[f] = x
    BY <1>2, <2>1, CopyBehind
  <2>3. OldOf(c)[f] = Converted(f, q)
    BY <2>1, OldBehind, Zenon
  <2>4. cached[c] # None /\ rawCache[c][f] = q
    BY <2>1, Zenon DEF SampleTypes, Levels
  <2>5. q <= r
    BY <2>1, Zenon DEF Levels
  <2>6. ~(x - q > Span)
    BY <2>2, <2>4, RawFacts, Zenon
  <2>7. q <= x /\ x - q <= Span
    BY <1>1, <2>2, <2>5, <2>6
  <2> QED
    BY <2>2, <2>3, <2>7, Zenon
<1> HIDE DEF c
<1>4. PICK q1, x1 \in Nat : /\ q1 <= x1 /\ x1 - q1 <= Span
                            /\ ReadGot.busy = Converted("busy", x1) /\ OldOf(c).busy = Converted("busy", q1)
  BY <1>1, <1>3, Zenon
<1>5. PICK q2, x2 \in Nat : /\ q2 <= x2 /\ x2 - q2 <= Span
                            /\ ReadGot.idle = Converted("idle", x2) /\ OldOf(c).idle = Converted("idle", q2)
  BY <1>1, <1>3, Zenon
<1>6. ReadGot.busy - OldOf(c).busy = x1 - q1
  BY <1>4, ConvertedRises
<1>7. /\ Converted("idle", x2) \in Nat /\ Converted("idle", q2) \in Nat
      /\ Converted("idle", x2) - Converted("idle", q2) <= x2 - q2
      /\ \/ Converted("idle", x2) - Converted("idle", q2) >= 0
         \/ Converted("idle", x2) - Converted("idle", q2) <= x2 - q2 - IdleWrap
  BY <1>5, ConvertedRises, Zenon
<1> DEFINE e == ReadGot.idle - OldOf(c).idle
<1>8. e \in Int /\ e <= x2 - q2 /\ (e >= 0 \/ e <= x2 - q2 - IdleWrap)
  BY <1>5, <1>7
<1> HIDE DEF e
<1>9. e <= Span
  BY <1>1, <1>5, <1>8
<1>10. e >= 0 \/ e <= Span - IdleWrap
  <2>1. IdleWrap \in Nat
    BY KernelAssumption, Zenon
  <2> QED
    BY <1>1, <1>5, <1>8, <2>1
<1>11. 0 <= x1 - q1 /\ x1 - q1 <= Span /\ 1 * Span = Span
  BY <1>1, <1>4
<1>12. InBounds(x1 - q1, e, 1)
  BY <1>9, <1>10, <1>11, Zenon DEF InBounds
<1> QED
  BY <1>6, <1>12, Zenon DEF e, c

\* readField keeps the sums over the CPUs in bounds.
LEMMA ReadSums ==
    ASSUME SampleTypes, Sound, SumsFit, readField
    PROVE  SumsFit'
<1> SUFFICES ASSUME device = "cpu_stat", ~late'
             PROVE  InBounds(reader'.all.busy - reader'.old.busy, reader'.all.idle - reader'.old.idle, Summed')
  <2>1. device' = device /\ Span' = Span
    BY ReadFacts, SameDevice, Zenon
  <2> QED
    BY <2>1, Zenon DEF SumsFit, InBounds
<1>1. reader.cpu \in Cpus /\ reader.cpu \in Nat \ {0} /\ Names = {"busy", "idle"} /\ Span \in Nat
  BY ReadFacts, DeviceFields, Sizes, SpanFits DEF Cpus
<1>2. InBounds(reader.all.busy - reader.old.busy, reader.all.idle - reader.old.idle, Summed)
  <2>1. ~late
    BY RawFacts, Zenon
  <2>2. reader.cpu > 0
    BY <1>1
  <2> QED
    BY <2>1, <2>2, Zenon DEF SumsFit
<1>3. CASE ~(IsLast /\ reader.pass = "all")
  <2>1. reader'.all = reader.all /\ reader'.old = reader.old
    BY <1>3, ReadFacts, Zenon
  <2>2. Summed' = Summed
    <3>1. CASE ~IsLast
      <4>1. reader'.pass = reader.pass /\ reader'.cpu = reader.cpu
        BY <3>1, ReadFacts, Zenon
      <4> QED
        BY <4>1, Zenon DEF Summed
    <3>2. CASE IsLast /\ reader.pass = "curr"
      <4>1. reader'.pass = "all" /\ reader'.cpu = reader.cpu
        BY <3>2, ReadFacts, Zenon DEF After
      <4> QED
        BY <3>2, <4>1, Zenon DEF Summed
    <3>3. CASE IsLast /\ reader.pass = "cache"
      <4>1. reader'.pass = "name" /\ reader'.cpu = reader.cpu + 1
        BY <3>3, ReadFacts, Zenon DEF After
      <4> QED
        BY <1>1, <3>3, <4>1 DEF Summed
    <3> QED
      BY <1>3, <3>1, <3>2, <3>3, ReadFacts, Zenon
  <2> QED
    BY <1>2, <2>1, <2>2, Zenon
<1>4. CASE IsLast /\ reader.pass = "all"
  <2>1. /\ reader'.all = [h \in Names |-> reader.all[h] + ReadGot[h]]
        /\ reader'.old = [h \in Names |-> reader.old[h] + OldOf(reader.cpu)[h]]
        /\ reader'.pass = "cache" /\ reader'.cpu = reader.cpu
    BY <1>4, ReadFacts, Zenon DEF After
  <2>2. Summed' = Summed + 1 /\ Summed \in Nat
    BY <1>1, <1>4, <2>1 DEF Summed
  <2>3. InBounds(ReadGot.busy - OldOf(reader.cpu).busy, ReadGot.idle - OldOf(reader.cpu).idle, 1)
    BY <1>4, CpuInBounds, Zenon
  <2>4. /\ ReadGot.busy \in Nat /\ ReadGot.idle \in Nat
        /\ OldOf(reader.cpu).busy \in Nat /\ OldOf(reader.cpu).idle \in Nat
    BY <1>1, ReadFacts, Zenon
  <2>5. /\ reader.all.busy \in Nat /\ reader.all.idle \in Nat
        /\ reader.old.busy \in Nat /\ reader.old.idle \in Nat
    BY <1>1, Zenon DEF SampleTypes
  <2> DEFINE a == reader.all.busy - reader.old.busy
             b == reader.all.idle - reader.old.idle
             d == ReadGot.busy - OldOf(reader.cpu).busy
             e == ReadGot.idle - OldOf(reader.cpu).idle
  <2>6. a \in Int /\ b \in Int /\ d \in Int /\ e \in Int
    BY <2>4, <2>5
  <2>7. reader'.all.busy - reader'.old.busy = a + d /\ reader'.all.idle - reader'.old.idle = b + e
    BY <1>1, <2>1, <2>4, <2>5
  <2>8. InBounds(a, b, Summed) /\ InBounds(d, e, 1)
    BY <1>2, <2>3, Zenon
  <2> HIDE DEF a, b, d, e
  <2>9. InBounds(a + d, b + e, Summed + 1)
    BY <1>1, <2>2, <2>6, <2>8, BoundsAdd, Zenon
  <2> QED
    BY <2>2, <2>7, <2>9, Zenon
<1> QED
  BY <1>3, <1>4, Zenon

\* A sample that readField reports is in range.
LEMMA ReadPercentages ==
    ASSUME SampleTypes, Sound, PercentagesInRange, readField
    PROVE  PercentagesInRange'
<1> SUFFICES ASSUME device = "cpu_stat", entry' # None, ~torn, ~late' PROVE InRange(entry'.delta)
  <2>1. device' = device /\ torn' = torn /\ Names' = Names
    BY ReadFacts, SameDevice, Zenon
  <2> QED
    BY <2>1, Zenon DEF PercentagesInRange, InRange, Total
<1>1. CASE ~(IsLast /\ reader.pass = "curr")
  <2>1. entry' = entry /\ ~late
    BY <1>1, ReportFacts, RawFacts, Zenon
  <2> QED
    BY <2>1, Zenon DEF PercentagesInRange, InRange
<1>2. CASE IsLast /\ reader.pass = "curr"
  <2>1. entry' = Reported(reader.cpu, ReadGot, OldOf(reader.cpu))
    BY <1>2, ReportFacts, Zenon
  <2>2. InBounds(ReadGot.busy - OldOf(reader.cpu).busy, ReadGot.idle - OldOf(reader.cpu).idle, 1)
    BY <1>2, CpuInBounds, Zenon
  <2>3. 1 \in Nat /\ 1 <= machine.cpus
    BY Sizes
  <2> QED
    BY <2>1, <2>2, <2>3, ReadFacts, ReportInRange, Zenon
<1> QED
  BY <1>1, <1>2, Zenon

\* The head of the loop and the end of the sample.
LEMMA HeadSums ==
    ASSUME SampleTypes, SumsFit, openDevice \/ checkName \/ closeDevice
    PROVE  SumsFit'
<1>1. device' = device /\ machine' = machine
  BY Zenon DEF openDevice, checkName, closeDevice, moduleVars
<1> SUFFICES ASSUME device = "cpu_stat", reader'.cpu > 0, ~late'
             PROVE  InBounds(reader'.all.busy - reader'.old.busy, reader'.all.idle - reader'.old.idle, Summed')
  <2>1. Span' = Span
    BY <1>1, SameDevice, Zenon
  <2> QED
    BY <1>1, <2>1, Zenon DEF SumsFit, InBounds
<1>2. Span \in Nat /\ Names = {"busy", "idle"}
  BY DeviceFields, SpanFits, Zenon
<1>3. CASE openDevice
  <2>1. reader'.all = [f \in Names |-> 0] /\ reader'.old = [f \in Names |-> 0]
        /\ reader'.cpu = 1 /\ reader'.pass = "name"
    BY <1>3, Zenon DEF openDevice, Opened, NoCount
  <2>2. /\ reader'.all.busy - reader'.old.busy = 0 /\ reader'.all.idle - reader'.old.idle = 0
        /\ Summed' = 0
    BY <1>2, <2>1 DEF Summed
  <2>3. InBounds(0, 0, 0)
    BY <1>2 DEF InBounds
  <2> QED
    BY <2>2, <2>3, Zenon
<1>4. CASE closeDevice
  <2>1. reader'.cpu = 0
    BY <1>4, Zenon DEF closeDevice, Closed, Opened
  <2> QED
    BY <2>1
<1>5. CASE checkName
  <2>1. /\ reader'.all = reader.all /\ reader'.old = reader.old /\ reader'.cpu = reader.cpu
        /\ reader'.pass \in {"curr", "cache"} /\ reader.pass = "name" /\ reader.cpu \in Cpus /\ late' = late
    BY <1>5, Zenon DEF checkName, SampleTypes
  <2>2. reader.cpu \in Nat \ {0}
    BY <2>1, Sizes DEF Cpus
  <2>3. InBounds(reader.all.busy - reader.old.busy, reader.all.idle - reader.old.idle, Summed)
    <3>1. reader.cpu > 0
      BY <2>2
    <3> QED
      BY <2>1, <3>1, Zenon DEF SumsFit
  <2>4. Summed \in Nat /\ Summed' \in {Summed, Summed + 1}
    BY <2>1, <2>2 DEF Summed
  <2>5. reader.all.busy - reader.old.busy \in Int /\ reader.all.idle - reader.old.idle \in Int
    BY <1>2 DEF SampleTypes
  <2>6. InBounds(reader.all.busy - reader.old.busy, reader.all.idle - reader.old.idle, Summed + 1)
    BY <1>2, <2>3, <2>4, <2>5, BoundsGrow, Zenon
  <2> QED
    BY <2>1, <2>3, <2>4, <2>6, Zenon
<1> QED
  BY <1>3, <1>4, <1>5, Zenon

\* A sample that closeDevice reports is in range.
LEMMA ClosePercentages ==
    ASSUME SampleTypes, SumsFit, PercentagesInRange, closeDevice
    PROVE  PercentagesInRange'
<1>1. device' = device /\ machine' = machine /\ torn' = torn /\ Names' = Names /\ late' = late
  BY SameDevice, Zenon DEF closeDevice, moduleVars
<1> SUFFICES ASSUME device = "cpu_stat", entry' # None, ~torn, ~late' PROVE InRange(entry'.delta)
  BY <1>1, Zenon DEF PercentagesInRange, InRange, Total
<1>2. entry' = IF reader.base > 0 THEN Reported(0, reader.all, reader.old) ELSE entry
  BY Zenon DEF closeDevice
<1>3. CASE entry' = entry
  BY <1>1, <1>3, Zenon DEF PercentagesInRange, InRange
<1>4. CASE entry' = Reported(0, reader.all, reader.old)
  <2>1. reader.cpu > 0 /\ reader.pass = "name" /\ reader.cpu \in 0 .. machine.cpus + 1
    BY Zenon DEF closeDevice, SampleTypes
  <2>2. Summed \in Nat /\ Summed <= machine.cpus
    BY <2>1, Sizes DEF Summed
  <2>3. InBounds(reader.all.busy - reader.old.busy, reader.all.idle - reader.old.idle, Summed)
    BY <1>1, <2>1, Zenon DEF SumsFit
  <2>4. reader.all \in [Names -> Nat] /\ reader.old \in [Names -> Nat]
    BY Zenon DEF SampleTypes
  <2> QED
    BY <1>4, <2>2, <2>3, <2>4, ReportInRange, Zenon
<1> QED
  BY <1>2, <1>3, <1>4, Zenon

\* Everything outside the reader.
LEMMA KernelSound ==
    ASSUME SampleInv, SampleTypes', KernelInv, ~torn, torn' = torn,
           \/ \E c \in Cpus, f \in Names : count(c, f)
           \/ \E i \in DOMAIN Stages : acquire(Stages[i]) \/ loadFails(Stages[i])
           \/ writeField \/ hrtimer_start \/ timer_callback
           \/ exitBegins \/ hrtimer_cancel \/ releaseAll
    PROVE  Sound' /\ SumsFit' /\ PercentagesInRange'
<1>1. SampleTypes /\ Sound /\ SumsFit /\ PercentagesInRange
  BY Zenon DEF SampleInv
<1>2. /\ machine' = machine /\ device' = device /\ reader' = reader /\ entry' = entry /\ late' = late
  BY Zenon DEF count, acquire, loadFails, writeField, hrtimer_start, timer_callback, exitBegins,
         hrtimer_cancel, releaseAll, readerVars
<1>3. Cpus' = Cpus /\ Names' = Names /\ Span' = Span
  BY <1>2, SameDevice, Zenon
<1>4. SumsFit' /\ PercentagesInRange'
  <2>1. SumsFit'
    BY <1>1, <1>2, <1>3, Zenon DEF SumsFit, InBounds, Summed
  <2>2. PercentagesInRange'
    BY <1>1, <1>2, <1>3, Zenon DEF PercentagesInRange, Total
  <2> QED
    BY <2>1, <2>2, Zenon
<1>5. reader.cpu > 0 => kmod' = "live"
  <2> SUFFICES ASSUME reader.cpu > 0 PROVE kmod' = "live"
    BY Zenon
  <2>1. kmod = "live" /\ ~(reader.cpu = 0)
    BY <1>1 DEF Sound
  <2> QED
    BY <2>1, Zenon DEF count, acquire, loadFails, writeField, hrtimer_start, timer_callback, exitBegins,
                hrtimer_cancel, releaseAll
<1>6. ASSUME NEW c \in Cpus, NEW f \in Names
      PROVE  \E q, r, g, p \in Nat : Levels(c, f, q, r, g, p)'
  <2>1. PICK q, r, g, p \in Nat : Levels(c, f, q, r, g, p)
    BY <1>1, Zenon DEF Sound
  <2>2. CASE \E d \in Cpus, e \in Names : count(d, e)
    <3>1. Levels(c, f, q, r, g, p)'
      BY <1>1, <2>1, <2>2, CountLevels, Zenon
    <3> QED
      BY <3>1, Zenon
  <2>3. CASE writeField
    BY <1>1, <2>1, <2>3, WriteLevels, Zenon
  <2>4. CASE \/ \E i \in DOMAIN Stages : acquire(Stages[i]) \/ loadFails(Stages[i])
             \/ hrtimer_start \/ timer_callback \/ exitBegins \/ hrtimer_cancel \/ releaseAll
    <3>1. Levels(c, f, q, r, g, p)'
      BY <1>1, <2>1, <2>4, ModuleLevels, Zenon
    <3> QED
      BY <3>1
  <2> QED
    BY <2>2, <2>3, <2>4, Zenon
<1>7. Sound'
  BY <1>2, <1>3, <1>5, <1>6, Zenon DEF Sound
<1> QED
  BY <1>4, <1>7, Zenon

\* A step of the reader keeps the samples sound.
LEMMA ReaderSound ==
    ASSUME SampleInv, SampleTypes', KernelInv, ~torn',
           openDevice \/ checkName \/ readField \/ closeDevice
    PROVE  Sound' /\ SumsFit' /\ PercentagesInRange'
<1>1. ~torn
  BY Zenon DEF openDevice, checkName, readField, closeDevice
<1>2. SampleTypes /\ Sound /\ SumsFit /\ PercentagesInRange
  BY <1>1, Zenon DEF SampleInv
<1>3. machine' = machine /\ device' = device /\ kmod' = kmod
  BY Zenon DEF openDevice, checkName, readField, closeDevice, moduleVars
<1>4. Cpus' = Cpus /\ Names' = Names
  BY <1>3, SameDevice, Zenon
<1>5. CASE readField
  <2>1. reader.cpu > 0
    BY <1>2, <1>5, ReadFacts DEF Cpus
  <2>2. kmod = "live"
    BY <1>2, <2>1, Zenon DEF Sound
  <2>3. ASSUME NEW c \in Cpus, NEW f \in Names
        PROVE  \E q, r, g, p \in Nat : Levels(c, f, q, r, g, p)'
    <3>1. PICK q, r, g, p \in Nat : Levels(c, f, q, r, g, p)
      BY <1>2, Zenon DEF Sound
    <3> QED
      BY <1>2, <1>5, <2>2, <3>1, ReadLevels
  <2>4. Sound'
    BY <1>3, <1>4, <2>2, <2>3, Zenon DEF Sound
  <2> QED
    BY <1>2, <1>5, <2>4, ReadSums, ReadPercentages, Zenon
<1>6. CASE openDevice \/ checkName \/ closeDevice
  <2>1. ASSUME NEW c \in Cpus, NEW f \in Names
        PROVE  \E q, r, g, p \in Nat : Levels(c, f, q, r, g, p)'
    <3>1. PICK q, r, g, p \in Nat : Levels(c, f, q, r, g, p)
      BY <1>2 DEF Sound
    <3>2. Levels(c, f, q, r, g, p)'
      BY <1>2, <1>6, <3>1, HeadLevels, Zenon
    <3> QED
      BY <3>2, Zenon
  <2>2. reader'.cpu > 0 => kmod = "live"
    <3>1. CASE openDevice
      BY <3>1, Zenon DEF openDevice, CanOpen, KernelInv
    <3>2. CASE checkName
      <4>1. reader'.cpu = reader.cpu
        BY <1>2, <3>2, Zenon DEF checkName, SampleTypes
      <4> QED
        BY <1>2, <4>1, Zenon DEF Sound
    <3>3. CASE closeDevice
      <4>1. reader'.cpu = 0
        BY <3>3, Zenon DEF closeDevice, Closed, Opened
      <4> QED
        BY <4>1
    <3> QED
      BY <1>6, <3>1, <3>2, <3>3, Zenon
  <2>3. Sound'
    BY <1>3, <1>4, <2>1, <2>2, Zenon DEF Sound
  <2>4. SumsFit'
    BY <1>2, <1>6, HeadSums, Zenon
  <2>5. PercentagesInRange'
    <3>1. CASE closeDevice
      BY <1>2, <3>1, ClosePercentages, Zenon
    <3>2. CASE openDevice
      BY <3>2, Zenon DEF openDevice, PercentagesInRange
    <3>3. CASE checkName
      <4>1. entry' = entry /\ late' = late
        BY <3>3, Zenon DEF checkName
      <4> QED
        BY <1>1, <1>2, <1>3, <1>4, <4>1, Zenon DEF PercentagesInRange, Total
    <3> QED
      BY <1>6, <3>1, <3>2, <3>3, Zenon
  <2> QED
    BY <2>3, <2>4, <2>5, Zenon
<1> QED
  BY <1>5, <1>6, Zenon

\* Every step keeps SampleInv.
LEMMA SamplesKept ==
    ASSUME KernelInv, SampleInv, [KernelNext]_kernelVars
    PROVE  SampleInv'
<1>1. CASE UNCHANGED kernelVars
  <2>1. /\ machine' = machine /\ device' = device /\ counter' = counter /\ kmod' = kmod /\ held' = held
        /\ page' = page /\ writing' = writing /\ reader' = reader /\ cached' = cached
        /\ entry' = entry /\ shown' = shown /\ torn' = torn
        /\ rawPage' = rawPage /\ rawCopy' = rawCopy /\ rawCache' = rawCache /\ late' = late
    BY <1>1, Zenon DEF kernelVars
  <2>2. Cpus' = Cpus /\ Fields' = Fields /\ Names' = Names /\ Writes' = Writes /\ Span' = Span
    BY <2>1, SameDevice, Zenon
  <2>3. SampleTypes => SampleTypes'
    BY <2>1, <2>2, Zenon DEF SampleTypes
  <2>4. ASSUME NEW c \in Cpus, NEW f \in Names,
               NEW q \in Nat, NEW r \in Nat, NEW g \in Nat, NEW p \in Nat, Levels(c, f, q, r, g, p)
        PROVE  Levels(c, f, q, r, g, p)'
    BY <2>1, <2>2, <2>4, Zenon DEF Levels, HasRead, Filled, Position
  <2>5. Sound => Sound'
    BY <2>1, <2>2, <2>4 DEF Sound
  <2>6. SumsFit => SumsFit'
    BY <2>1, <2>2, Zenon DEF SumsFit, InBounds, Summed
  <2>7. PercentagesInRange => PercentagesInRange'
    BY <2>1, <2>2, Zenon DEF PercentagesInRange, Total
  <2> QED
    BY <2>1, <2>3, <2>5, <2>6, <2>7, Zenon DEF SampleInv
<1>2. CASE KernelNext
  <2>1. SampleTypes'
    BY <1>2, TypesKept, Zenon DEF SampleInv
  <2>2. CASE \/ \E c \in Cpus, f \in Names : count(c, f)
             \/ \E i \in DOMAIN Stages : acquire(Stages[i]) \/ loadFails(Stages[i])
             \/ writeField \/ hrtimer_start \/ timer_callback
             \/ exitBegins \/ hrtimer_cancel \/ releaseAll
    <3>1. torn' = torn
      BY <2>2, Zenon DEF count, acquire, loadFails, writeField, hrtimer_start, timer_callback, exitBegins,
                  hrtimer_cancel, releaseAll
    <3>2. ~torn => Sound' /\ SumsFit' /\ PercentagesInRange'
      BY <2>1, <2>2, <3>1, KernelSound, Zenon
    <3> QED
      BY <2>1, <3>1, <3>2, Zenon DEF SampleInv
  <2>3. CASE openDevice \/ checkName \/ readField \/ closeDevice
    <3>1. ~torn' => Sound' /\ SumsFit' /\ PercentagesInRange'
      BY <2>1, <2>3, ReaderSound, Zenon
    <3> QED
      BY <2>1, <3>1, Zenon DEF SampleInv
  <2> QED
    BY <1>2, <2>2, <2>3, Zenon DEF KernelNext
<1> QED
  BY <1>1, <1>2, Zenon

\* SampleInv holds before a module is loaded.
LEMMA SamplesStart == KernelInit => SampleInv
<1> SUFFICES ASSUME KernelInit PROVE SampleInv
  OBVIOUS
<1>1. /\ machine \in Machines /\ device \in {"cpu_stat", "softirq"}
      /\ counter = [c \in Cpus |-> [f \in Names |-> Start[f]]]
      /\ kmod = "out" /\ writing = 0 /\ page = Blank /\ reader = Closed
      /\ cached = [c \in Cpus |-> None] /\ entry = None
      /\ shown = [c \in Cpus |-> NoCount] /\ torn = FALSE /\ late = FALSE
      /\ rawPage = [c \in Cpus |-> NoCount] /\ rawCache = [c \in Cpus |-> NoCount] /\ rawCopy = NoCount
  BY Zenon DEF KernelInit
<1>2. machine.cpus \in Nat \ {0}
  BY <1>1, KernelAssumption, Zenon
<1>3. Names \subseteq {"busy", "idle", "irq"} /\ Len(Fields) \in {1, 2} /\ 1 \in DOMAIN Fields
  BY <1>1, DeviceFields, Zenon
<1>4. \A f \in Names : Start[f] \in Nat /\ Base(f) \in Nat /\ Base(f) <= Start[f]
  BY <1>3, KernelAssumption DEF Base
<1>5. SampleTypes
  <2>6. NoCount \in [Names -> Nat] /\ NoCount \in [Names -> Int]
    BY DEF NoCount
  <2>1. counter \in [Cpus -> [Names -> Nat]] /\ shown \in [Cpus -> [Names -> Int]]
        /\ cached \in [Cpus -> [Names -> Nat] \cup {None}]
        /\ rawPage \in [Cpus -> [Names -> Nat]] /\ rawCache \in [Cpus -> [Names -> Nat]]
        /\ rawCopy \in [Names -> Nat]
    BY <1>1, <1>4, <2>6, Zenon
  <2>2. page \in [Cpus -> [name : BOOLEAN, value : [Names -> Nat]]]
    BY <1>1, <2>6, Zenon DEF Blank
  <2>3. Writes \in Nat /\ writing \in 0 .. Writes
    BY <1>1, <1>2, <1>3 DEF Writes
  <2>4. /\ reader \in [cpu : 0 .. machine.cpus + 1, pass : {"name", "curr", "all", "cache"},
                       at : DOMAIN Fields, got : [Names -> Nat], all : [Names -> Nat],
                       old : [Names -> Nat], base : Nat]
        /\ reader.pass = "name"
    <3>1. 0 \in 0 .. machine.cpus + 1
      BY <1>2
    <3> QED
      BY <1>1, <1>3, <2>6, <3>1, Zenon DEF Closed, Opened
  <2>5. \A c \in Cpus, f \in Names : Base(f) <= counter[c][f]
    BY <1>1, <1>4, Zenon
  <2> QED
    BY <1>1, <2>1, <2>2, <2>3, <2>4, <2>5, Zenon DEF SampleTypes
<1>6. Sound
  <2>1. reader.cpu = 0 /\ reader.pass = "name"
    BY <1>1, Zenon DEF Closed, Opened
  <2> SUFFICES ASSUME NEW c \in Cpus, NEW f \in Names
               PROVE  \E q, r, g, p \in Nat : Levels(c, f, q, r, g, p)
    BY <2>1 DEF Sound
  <2>2. Levels(c, f, Base(f), Base(f), Base(f), Base(f))
    <3>1. counter[c][f] = Start[f] /\ shown[c][f] = 0 /\ cached[c] = None
      BY <1>1, Zenon DEF NoCount
    <3>2. device = "softirq" => f = "irq"
      BY <1>1, DeviceFields, Zenon
    <3>3. device = "softirq" => Base(f) = 0
      BY <3>2, Zenon DEF Base
    <3>4. 0 <= Base(f) - Base(f) /\ Base(f) <= Base(f) /\ Base(f) <= counter[c][f]
      BY <1>4, <3>1
    <3>5. ~HasRead(c, f) /\ ~Filled(c, f)
      BY <1>1, <2>1, Zenon DEF HasRead, Filled
    <3> QED
      BY <3>1, <3>3, <3>4, <3>5, Zenon DEF Levels
  <2> QED
    BY <1>4, <2>2, Zenon
<1>7. SumsFit /\ PercentagesInRange
  <2>1. reader.cpu = 0
    BY <1>1, Zenon DEF Closed, Opened
  <2>2. ~(reader.cpu > 0)
    BY <2>1
  <2>3. SumsFit
    BY <2>2, Zenon DEF SumsFit
  <2>4. PercentagesInRange
    BY <1>1, Zenon DEF PercentagesInRange
  <2> QED
    BY <2>3, <2>4, Zenon
<1> QED
  BY <1>5, <1>6, <1>7, Zenon DEF SampleInv

\* SamplesPlausible, for any number of CPUs and any values of the counters at the
\* start: although the timer of the kernel module rewrites the page while
\* updateOnce() reads it, no percentage leaves its range and no jiffy and no
\* interrupt is reported twice, unless the reader came while the module filled
\* its page for the first time, an interrupt counter came round, or so much was
\* counted between two samples that their difference no longer fits.
THEOREM PlausibleHolds == KernelSpec => []SamplesPlausible
<1>1. KernelInit => KernelInv /\ SampleInv
  BY KernelStarts, SamplesStart, Zenon
<1>2. KernelInv /\ SampleInv /\ [KernelNext]_kernelVars => KernelInv' /\ SampleInv'
  BY KernelKept, SamplesKept, Zenon
<1>3. SampleInv => SamplesPlausible
  <2> SUFFICES ASSUME SampleInv PROVE PercentagesInRange /\ NothingReportedTwice
    BY Zenon DEF SamplesPlausible
  <2>1. PercentagesInRange
    BY Zenon DEF SampleInv, PercentagesInRange
  <2>2. ASSUME NEW c \in Cpus, NEW f \in Names, ~torn, ~(f = "irq" /\ counter[c][f] >= IrqWrap)
        PROVE  shown[c][f] <= IF f = "irq" THEN counter[c][f] ELSE Growth(c, f)
    <3>1. SampleTypes /\ Sound
      BY <2>2, Zenon DEF SampleInv
    <3>2. PICK q, r, g, p \in Nat : Levels(c, f, q, r, g, p)
      BY <3>1, Zenon DEF Sound
    <3>3. shown[c][f] <= r - Base(f) /\ r <= p /\ p <= counter[c][f]
      BY <2>2, <3>2, Zenon DEF Levels
    <3>4. shown[c][f] \in Int /\ counter[c][f] \in Nat
      BY <3>1 DEF SampleTypes
    <3>5. f \in {"busy", "idle", "irq"}
      BY <3>1, DeviceFields, Zenon DEF SampleTypes
    <3>6. Base(f) \in Nat
      BY <3>5, KernelAssumption, Zenon DEF Base
    <3>7. shown[c][f] <= counter[c][f] - Base(f)
      BY <3>3, <3>4, <3>6
    <3>8. CASE f = "irq"
      <4>1. Base(f) = 0
        BY <3>8, Zenon DEF Base
      <4> QED
        BY <3>4, <3>7, <3>8, <4>1
    <3>9. CASE f # "irq"
      BY <3>7, <3>9, Zenon DEF Base, Growth
    <3> QED
      BY <3>8, <3>9, Zenon
  <2> QED
    BY <2>1, <2>2, Zenon DEF NothingReportedTwice
<1> QED
  BY <1>1, <1>2, <1>3, PTL DEF KernelSpec
=============================================================================

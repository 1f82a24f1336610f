-------------------------- MODULE KernelCollector --------------------------
(***************************************************************************)
(* The kernel modules worker/src/kmod/CpuStatCollector.c and               *)
(* SoftirqCollector.c with the monitors that read their pages,             *)
(* CpuStatMonitor.cpp and CpuSoftirqMonitor.cpp.  The two pairs differ in  *)
(* the fields and in what the reader computes; a behaviour is about one.   *)
(*                                                                         *)
(* A timer rewrites the mapped page field by field while the reader reads  *)
(* it field by field, several times over, without a lock.  The many fields *)
(* of an entry are abstracted to "busy" and "idle", and to "irq".  Idle    *)
(* time goes through a 32-bit number of microseconds and the interrupt     *)
(* counters of the kernel are 32 bits wide: both come round again.         *)
(***************************************************************************)
EXTENDS Integers, Sequences

CONSTANTS
    Machines,    \* the numbers of CPUs, each with bounds on the counting, loads and samples
    Start,       \* the kernel's counters at the beginning, per field
    IdleWrap,    \* where idle time comes round
    IrqWrap,     \* where an interrupt counter comes round
    None         \* nothing cached, no entry

ASSUME KernelAssumption ==
    /\ Start \in [{"busy", "idle", "irq"} -> Nat]
    /\ IdleWrap \in Nat \ {0} /\ IrqWrap \in Nat \ {0}
    /\ \A m \in Machines : m.cpus \in Nat \ {0} /\ m.growth \in Nat
    /\ None \notin [{"busy", "idle"} -> Nat] \cup [{"irq"} -> Nat]

VARIABLES
    machine,   \* the member of Machines
    device,    \* "cpu_stat" or "softirq"
    counter,   \* the kernel's own counters
    kmod,      \* state of the module: out, loading, live, exiting
    loads,
    held,      \* what the module has acquired
    page,      \* the mapped entries
    timer,     \* the timer is started
    writing,   \* position of update_cpu_stats() in its writes, or 0
    reader,    \* the updateOnce() in progress
    samples,
    cached,    \* cpuStatMap_ or cpuSoftIrqs_
    entry,     \* the entry of the sample computed last, or None
    shown,     \* history: the sum of all differences reported
    torn,      \* history: the reader met a page whose first update was under way
    rawPage,   \* history: the counters' values behind the page,
    rawCopy,   \*   behind the copy of the entry being read,
    rawCache,  \*   and behind the cache
    late       \* history: the sample compares values that lie too far apart

kernelVars == <<machine, device, counter, kmod, loads, held, page, timer, writing, reader, samples, cached, entry, shown, torn, rawPage, rawCopy, rawCache, late>>

Cpus == 1 .. machine.cpus

Fields == IF device = "cpu_stat" THEN <<"busy", "idle">> ELSE <<"irq">>

Names == {Fields[i] : i \in DOMAIN Fields}

Stages == <<"pages", "region", "cdev", "class", "device">>

NoCount == [f \in Names |-> 0]

Blank == [c \in Cpus |-> [name |-> FALSE, value |-> NoCount]]

Opened(c) == [cpu |-> c, pass |-> "name", at |-> 1, got |-> NoCount, all |-> NoCount, old |-> NoCount, base |-> 0]

Closed == Opened(0)

KernelInit ==
    /\ machine \in Machines
    /\ device \in {"cpu_stat", "softirq"}
    /\ counter = [c \in Cpus |-> [f \in Names |-> Start[f]]]
    /\ kmod = "out" /\ loads = 0 /\ held = {} /\ timer = FALSE /\ writing = 0
    /\ page = Blank
    /\ reader = Closed /\ samples = 0
    /\ cached = [c \in Cpus |-> None]
    /\ entry = None
    /\ shown = [c \in Cpus |-> NoCount]
    /\ torn = FALSE /\ late = FALSE
    /\ rawPage = [c \in Cpus |-> NoCount] /\ rawCache = [c \in Cpus |-> NoCount] /\ rawCopy = NoCount

\* The kernel counts, on any CPU, at any time.
Growth(c, f) == counter[c][f] - Start[f]

count(c, f) ==
    /\ Growth(c, f) < machine.growth
    /\ counter' = [counter EXCEPT ![c][f] = @ + 1]
    /\ UNCHANGED <<machine, device, kmod, loads, held, page, timer, writing, reader, samples, cached, entry, shown, torn, rawPage, rawCopy, rawCache, late>>

-----------------------------------------------------------------------------
\* The module.

readerVars == <<machine, device, counter, reader, samples, cached, entry, shown, rawCopy, rawCache, late>>

\* The init function has come to the step that acquires s: it holds what the
\* steps before took.
AtStep(s) == \E i \in DOMAIN Stages : s = Stages[i] /\ held = {Stages[j] : j \in 1..(i - 1)}

\* The steps of the init function: the pages come zeroed.
acquire(s) ==
    /\ kmod = IF s = "pages" THEN "out" ELSE "loading"
    /\ s = "pages" => loads < machine.loads
    /\ AtStep(s)
    /\ held' = held \cup {s}
    /\ kmod' = "loading"
    /\ loads' = IF s = "pages" THEN loads + 1 ELSE loads
    /\ page' = IF s = "pages" THEN Blank ELSE page
    /\ rawPage' = IF s = "pages" THEN [c \in Cpus |-> NoCount] ELSE rawPage
    /\ writing' = IF s = "device" THEN 1 ELSE writing
    /\ UNCHANGED <<readerVars, timer, torn>>

\* What the labels undo when a step fails.
Labels(s) ==
    CASE s = "region" -> {"pages"}
      [] s = "cdev" -> {"region", "pages"}
      [] s = "class" -> {"cdev", "region", "pages"}
      [] s = "device" -> {"class", "cdev", "region", "pages"}

loadFails(s) ==
    /\ kmod = "loading"
    /\ AtStep(s)
    /\ held' = held \ Labels(s)
    /\ kmod' = "out"
    /\ UNCHANGED <<readerVars, loads, page, rawPage, timer, writing, torn>>

\* update_cpu_stats() and update_softirq_stats(): for every CPU the name, then
\* the fields one after another.
Writes == machine.cpus * (Len(Fields) + 1)

CpuAt(w) == (w - 1) \div (Len(Fields) + 1) + 1

Converted(f, n) ==
    CASE f = "idle" -> n % IdleWrap
      [] f = "irq" -> n % IrqWrap
      [] OTHER -> n

writeField ==
    /\ writing > 0
    /\ LET c == CpuAt(writing)
           k == (writing - 1) % (Len(Fields) + 1)
       IN  /\ page' = IF k = 0 THEN [page EXCEPT ![c].name = TRUE]
                      ELSE [page EXCEPT ![c].value[Fields[k]] = Converted(Fields[k], counter[c][Fields[k]])]
           /\ rawPage' = IF k = 0 THEN rawPage ELSE [rawPage EXCEPT ![c][Fields[k]] = counter[c][Fields[k]]]
    /\ writing' = IF writing < Writes THEN writing + 1 ELSE 0
    /\ UNCHANGED <<readerVars, kmod, loads, held, timer, torn>>

\* After the first update the init function starts the timer and is done.
hrtimer_start ==
    /\ kmod = "loading" /\ held = {Stages[j] : j \in DOMAIN Stages} /\ writing = 0
    /\ timer' = TRUE /\ kmod' = "live"
    /\ UNCHANGED <<readerVars, loads, held, page, rawPage, writing, torn>>

timer_callback ==
    /\ timer /\ writing = 0
    /\ writing' = 1
    /\ UNCHANGED <<readerVars, kmod, loads, held, page, rawPage, timer, torn>>

\* The exit function runs only when nobody has the device open.
\* hrtimer_cancel() waits for a callback that is running.
exitBegins ==
    /\ kmod = "live" /\ reader.cpu = 0
    /\ kmod' = "exiting"
    /\ UNCHANGED <<readerVars, loads, held, page, rawPage, timer, writing, torn>>

\* Variant: the cancellation does not wait.
CallbackIgnored == TRUE

CallbackDone == writing = 0

hrtimer_cancel ==
    /\ kmod = "exiting" /\ timer
    /\ CallbackDone
    /\ timer' = FALSE
    /\ UNCHANGED <<readerVars, kmod, loads, held, page, rawPage, writing, torn>>

releaseAll ==
    /\ kmod = "exiting" /\ ~timer
    /\ held' = {} /\ kmod' = "out"
    /\ UNCHANGED <<readerVars, loads, page, rawPage, timer, writing, torn>>

-----------------------------------------------------------------------------
\* The reader.

moduleVars == <<machine, device, counter, kmod, loads, held, page, rawPage, timer, writing>>

CanOpen == "device" \in held /\ kmod # "exiting"

\* open() and mmap().  Without the device the sample has no entries, which
\* changes nothing here.
openDevice ==
    /\ reader.cpu = 0 /\ samples < machine.samples
    /\ CanOpen
    /\ reader' = Opened(1)
    /\ samples' = samples + 1
    /\ torn' = (torn \/ kmod = "loading")
    /\ entry' = None /\ late' = FALSE
    /\ UNCHANGED <<moduleVars, cached, shown, rawCopy, rawCache>>

\* The head of the loop.  CpuStatMonitor reports nothing for a CPU it meets for
\* the first time, CpuSoftirqMonitor reports the counter itself.
checkName ==
    /\ reader.cpu \in Cpus /\ reader.pass = "name"
    /\ page[reader.cpu].name
    /\ reader' = [reader EXCEPT !.at = 1,
                      !.pass = IF device = "cpu_stat" /\ cached[reader.cpu] = None THEN "cache" ELSE "curr"]
    /\ UNCHANGED <<moduleVars, samples, cached, entry, shown, torn, rawCopy, rawCache, late>>

\* The difference of two u64, which the softirq monitor takes as it is.
WrapU64(n) == n % 2^16

Before(c, f) == IF cached[c] = None THEN 0 ELSE cached[c][f]

Deltas(curr, old) == [f \in Names |-> curr[f] - old[f]]

Total(d) == d.busy + d.idle

\* Variant: the entry stays whatever the sum of the differences is.
ReportedUnchecked(who, curr, old) == [cpu |-> who, delta |-> Deltas(curr, old)]

\* setCpuStatPercentages(): the entry is removed unless time has passed.  The
\* percentages are these differences over their sum.
Reported(who, curr, old) ==
    IF device = "softirq" THEN [cpu |-> who, delta |-> [f \in Names |-> WrapU64(curr[f] - old[f])]]
    ELSE IF Total(Deltas(curr, old)) <= 0 THEN None
    ELSE [cpu |-> who, delta |-> Deltas(curr, old)]

\* The passes over one entry.
After(pass) ==
    CASE pass = "curr" -> IF device = "cpu_stat" THEN "all" ELSE "cache"
      [] pass = "all" -> "cache"
      [] pass = "cache" -> "name"

\* Idle time may come round between two samples.  As long as no CPU counts more
\* than this in between, a sum that has lost a whole round is not positive.
Span == IdleWrap \div (2 * machine.cpus)

\* One field of stats[i]; with the last field of a pass comes what the code
\* does with the copy.
readField ==
    /\ reader.pass \in {"curr", "all", "cache"}
    /\ LET c == reader.cpu
           f == Fields[reader.at]
           got == [reader.got EXCEPT ![f] = page[c].value[f]]
           last == reader.at = Len(Fields)
           old == [g \in Names |-> Before(c, g)]
           report == Reported(c, got, old)
       IN  /\ reader' = [reader EXCEPT
                  !.got = got,
                  !.at = IF last THEN 1 ELSE @ + 1,
                  !.pass = IF last THEN After(@) ELSE @,
                  !.cpu = IF last /\ After(reader.pass) = "name" THEN @ + 1 ELSE @,
                  !.all = IF last /\ reader.pass = "all" THEN [g \in Names |-> @[g] + got[g]] ELSE @,
                  !.old = IF last /\ reader.pass = "all" THEN [g \in Names |-> @[g] + old[g]] ELSE @,
                  !.base = IF last /\ reader.pass = "all" THEN @ + 1 ELSE @]
           /\ IF last /\ reader.pass = "curr"
              THEN /\ entry' = report
                   /\ shown' = IF report = None THEN shown
                               ELSE [shown EXCEPT ![c] = [g \in Names |-> @[g] + report.delta[g]]]
              ELSE UNCHANGED <<entry, shown>>
           /\ cached' = IF last /\ reader.pass = "cache" THEN [cached EXCEPT ![c] = got] ELSE cached
           /\ rawCopy' = [rawCopy EXCEPT ![f] = rawPage[c][f]]
           /\ rawCache' = IF last /\ reader.pass = "cache" THEN [rawCache EXCEPT ![c] = rawCopy'] ELSE rawCache
           /\ late' = (late \/ (/\ last /\ reader.pass # "cache" /\ device = "cpu_stat"
                                /\ \E g \in Names : rawCopy'[g] - rawCache[c][g] > Span))
    /\ UNCHANGED <<moduleVars, samples, torn>>

\* The end of the list, the entry of all CPUs (number 0), munmap() and close().
closeDevice ==
    /\ reader.cpu > 0 /\ reader.pass = "name"
    /\ reader.cpu \in {c \in Cpus : ~page[c].name} \cup {machine.cpus + 1}
    /\ entry' = IF reader.base > 0 THEN Reported(0, reader.all, reader.old) ELSE entry
    /\ reader' = Closed
    /\ UNCHANGED <<moduleVars, samples, cached, shown, torn, rawCopy, rawCache, late>>

KernelNext ==
    \/ \E c \in Cpus, f \in Names : count(c, f)
    \/ \E i \in DOMAIN Stages : acquire(Stages[i]) \/ loadFails(Stages[i])
    \/ writeField \/ hrtimer_start \/ timer_callback
    \/ exitBegins \/ hrtimer_cancel \/ releaseAll
    \/ openDevice \/ checkName \/ readField \/ closeDevice

KernelSpec == KernelInit /\ [][KernelNext]_kernelVars

-----------------------------------------------------------------------------
\* A module that is not loaded holds nothing, whichever step of its loading
\* failed; as long as the timer runs or updates the page, or a reader has it
\* mapped, the pages are there.
PagesOutliveUsers ==
    /\ kmod = "out" => held = {}
    /\ timer \/ writing > 0 \/ reader.cpu > 0 => "pages" \in held

\* Although the reader mixes fields of different rounds, and idle time comes
\* round, no percentage that CpuStatMonitor reports is below 0 or above 100,
\* for one CPU or for all.  There are two exceptions: a reader that opened the
\* device while the module still filled its page for the first time, and a
\* sample so late that a CPU counted more than Span since the one before.
PercentagesInRange ==
    device = "cpu_stat" /\ entry # None /\ ~torn /\ ~late =>
        \A f \in Names : entry.delta[f] >= 0 /\ entry.delta[f] <= Total(entry.delta)

\* No jiffy and no interrupt is reported twice: the differences of all samples
\* together are at most what the kernel has counted.  What is counted between
\* the pass that reports and the pass that fills the cache is lost.  An
\* interrupt counter that comes round breaks this, for the reader subtracts
\* unsigned numbers of 64 bits.
NothingReportedTwice ==
    \A c \in Cpus : \A f \in Names :
        \/ torn
        \/ f = "irq" /\ counter[c][f] >= IrqWrap
        \/ shown[c][f] <= IF f = "irq" THEN counter[c][f] ELSE Growth(c, f)

\* What the readers of both devices report is plausible although it is read
\* without a lock: no percentage out of range, nothing reported twice.
SamplesPlausible == PercentagesInRange /\ NothingReportedTwice
=============================================================================

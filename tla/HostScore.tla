----------------------------- MODULE HostScore -----------------------------
(***************************************************************************)
(* HostManager::calculateScore() of manager/src/HostManager.cpp and the    *)
(* two helpers that read the CPU entries of a sample.                      *)
(*                                                                         *)
(* A sample has sequences of CPU entries, disks and network cards, and a   *)
(* memory and a load part that may be missing (Missing).  Percentages are  *)
(* whole, a load is in tenths, a rate in percent of the bandwidth of one   *)
(* gigabit.  The score comes in two-hundredths of a point, which makes the *)
(* weights 0.35, 0.30, 0.15, 0.15 and twice 0.025 whole numbers.           *)
(***************************************************************************)
EXTENDS Integers, Sequences, FiniteSetsExt

CONSTANT Missing

PerCore == {"cpu0", "cpu1"}

isPerCoreCpuName(name) == name \in PerCore

\* The entry of the whole machine: "all", else "cpu", else whatever is first.
selectAggregateCpuStat(cpus) ==
    LET Named(name) == {i \in DOMAIN cpus : cpus[i].name = name}
    IN  IF Named("all") # {} THEN cpus[Min(Named("all"))]
        ELSE IF Named("cpu") # {} THEN cpus[Min(Named("cpu"))]
        ELSE IF cpus # << >> THEN cpus[1] ELSE Missing

countCpuCores(cpus) ==
    Max({1, Cardinality({i \in DOMAIN cpus : isPerCoreCpuName(cpus[i].name)})})

\* What is left of a resource, in percent of all there is.
Left(used, all) == (Max({0, Min({all, all - used})}) * 100) \div all

\* Variant: every disk replaces the one before it.
LastDisk(disks) == IF disks = << >> THEN 0 ELSE disks[Len(disks)]

\* The busiest disk.
diskUtil(disks) == Max({0} \cup {disks[i] : i \in DOMAIN disks})

OrZero(part) == IF part = Missing THEN 0 ELSE part

\* The score is cut to its range once more at the end.
Clamp(score) == Max({0, Min({20000, score})})

calculateScore(info) ==
    LET cpu == selectAggregateCpuStat(info.cpus)
        cores == IF cpu = Missing THEN 1 ELSE countCpuCores(info.cpus)
    IN  Clamp(
          70 * Left(IF cpu = Missing THEN 0 ELSE cpu.percent, 100)
          + 60 * Left(OrZero(info.mem), 100)
          + 30 * Left(OrZero(info.load), 15 * cores)
          + 30 * Left(diskUtil(info.disks), 100)
          + 5 * Left(IF info.nets = << >> THEN 0 ELSE info.nets[1].rcv, 100)
          + 5 * Left(IF info.nets = << >> THEN 0 ELSE info.nets[1].send, 100))
=============================================================================

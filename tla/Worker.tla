------------------------------- MODULE Worker -------------------------------
(***************************************************************************)
(* The worker: the readers of the two kernel modules (KernelCollector),    *)
(* the monitors of database instances (InstanceMonitor), and the monitor   *)
(* of the network with the push of its samples (Pusher).  collectAll() of  *)
(* MetricCollector.cpp runs the monitors one after another and they share  *)
(* no state, so their interleavings add nothing: a behaviour takes the     *)
(* steps of one part, and the others stay where one of their initial       *)
(* states puts them.                                                       *)
(***************************************************************************)
EXTENDS KernelCollector, InstanceMonitor, Pusher

VARIABLE part  \* the part of the worker whose steps are taken

vars == <<part, kernelVars, instanceVars, mapVars, monitorVars, pushVars>>

Init ==
    /\ part \in {"kernel", "instance", "push"}
    /\ KernelInit /\ InstanceInit /\ PushInit
    /\ part # "kernel" => device = "softirq" /\ machine = CHOOSE m \in Machines : TRUE
    /\ part # "instance" => database = CHOOSE d \in Database : TRUE
    /\ part # "push" => /\ identity = CHOOSE d \in Identities : TRUE
                        /\ maxEntries = CHOOSE n \in Capacities : TRUE

kernelStep == part = "kernel" /\ KernelNext /\ UNCHANGED <<part, instanceVars, mapVars, monitorVars, pushVars>>

instanceStep == part = "instance" /\ InstanceNext /\ UNCHANGED <<part, kernelVars, mapVars, monitorVars, pushVars>>

others == <<part, kernelVars, instanceVars>>

pushStep == part = "push" /\ PushNext /\ UNCHANGED others

Next == kernelStep \/ instanceStep \/ pushStep

\* No fairness: the call of pushOnce() has no deadline, so nothing says that the
\* push loop gets on.
Spec == Init /\ [][Next]_vars
=============================================================================

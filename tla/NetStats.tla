------------------------------ MODULE NetStats ------------------------------
(***************************************************************************)
(* update_stats() of worker/src/ebpf/net_stats.bpf.c, run by every CPU for *)
(* every packet, and the updateOnce() of NetEbpfMonitor.cpp that reads the *)
(* map it fills.                                                           *)
(*                                                                         *)
(* The BPF hash map belongs to the kernel and is modelled from its use:    *)
(* it has a fixed number of slots, a lookup returns a pointer to a slot,   *)
(* an update with BPF_ANY puts a new slot in the place of the old one, and *)
(* a slot that was replaced is free for another key at once, also while    *)
(* some CPU still has a pointer to it.  An entry's bytes and packets, sent *)
(* and received, are counted alike; one counter stands for them.           *)
(***************************************************************************)
EXTENDS Integers, FiniteSets, FiniteSetsExt

CONSTANTS
    Cpu,         \* the CPUs that handle packets
    Interface,   \* the network interfaces
    Slot,        \* the slots of the map
    Capacities,  \* values of max_entries
    MaxPackets,  \* bound on the packets of a behaviour
    NoSlot       \* no entry, no pointer, nothing cached

ASSUME NetAssumption == NoSlot \notin Slot \cup Interface

ASSUME InterfaceAssumption == IsFiniteSet(Interface)

VARIABLES
    maxEntries,  \* max_entries of the map
    entries,     \* the map: slot of each interface, or NoSlot
    value,       \* the counter in each slot
    cpu,         \* what each CPU is doing: its step, interface and pointer
    packets,     \* history: the packets of each interface whose handler is done
    seen,        \* cache_ of the monitor
    reading,     \* the interfaces the updateOnce() in progress has not come to yet
    diff         \* the differences of the sample being collected

mapVars == <<maxEntries, entries, value, cpu, packets>>

monitorVars == <<seen, reading, diff>>

Keys == {i \in Interface : entries[i] # NoSlot}

Idle == [step |-> "idle", interface |-> NoSlot, slot |-> NoSlot]

NetInit ==
    /\ maxEntries \in Capacities
    /\ entries = [i \in Interface |-> NoSlot]
    /\ value = [s \in Slot |-> 0]
    /\ cpu = [c \in Cpu |-> Idle]
    /\ packets = [i \in Interface |-> 0]
    /\ seen = [i \in Interface |-> NoSlot]
    /\ reading = {}
    /\ diff = [i \in Interface |-> 0]

-----------------------------------------------------------------------------
\* A packet: the lookup, then the insertion or the atomic addition.

Packets == SumFunction(packets) + Cardinality({c \in Cpu : cpu[c] # Idle})

lookup(c, i) ==
    /\ cpu[c] = Idle
    /\ Packets < MaxPackets
    /\ cpu' = [cpu EXCEPT ![c] = [step |-> IF entries[i] = NoSlot THEN "insert" ELSE "add",
                                  interface |-> i, slot |-> entries[i]]]
    /\ UNCHANGED <<maxEntries, entries, value, packets>>

Full(i) == entries[i] = NoSlot /\ Cardinality(Keys) >= maxEntries

\* BPF_ANY: whoever inserts last wins, and the entry of the other is gone.  A
\* new key is refused when the map is full; nobody looks at the result.
insert(c, s) ==
    LET i == cpu[c].interface
    IN  /\ cpu[c].step = "insert"
        /\ s \notin {entries[j] : j \in Keys}
        /\ entries' = IF Full(i) THEN entries ELSE [entries EXCEPT ![i] = s]
        /\ value' = IF Full(i) THEN value ELSE [value EXCEPT ![s] = 1]
        /\ packets' = [packets EXCEPT ![i] = @ + 1]
        /\ cpu' = [cpu EXCEPT ![c] = Idle]
        /\ UNCHANGED maxEntries

\* Variant: the sum goes to a copy of the entry.
AddedToCopy(n) == n

Added(n) == n + 1

\* __sync_fetch_and_add() through the pointer of the lookup.
add(c) ==
    /\ cpu[c].step = "add"
    /\ value' = [value EXCEPT ![cpu[c].slot] = Added(@)]
    /\ packets' = [packets EXCEPT ![cpu[c].interface] = @ + 1]
    /\ cpu' = [cpu EXCEPT ![c] = Idle]
    /\ UNCHANGED <<maxEntries, entries>>

packetStep ==
    /\ \E c \in Cpu : (\E i \in Interface : lookup(c, i)) \/ (\E s \in Slot : insert(c, s)) \/ add(c)
    /\ UNCHANGED monitorVars

-----------------------------------------------------------------------------
\* NetEbpfMonitor::updateOnce().

collectBegin ==
    /\ reading' = Interface
    /\ diff' = [i \in Interface |-> 0]
    /\ UNCHANGED <<mapVars, seen>>

\* Nothing for an interface that is met for the first time; the counter itself
\* when it went back.
Difference(now, old) ==
    IF old = NoSlot THEN 0 ELSE IF now < old THEN now ELSE now - old

readEntry(i) ==
    /\ i \in Keys \cap reading
    /\ diff' = [diff EXCEPT ![i] = Difference(value[entries[i]], seen[i])]
    /\ seen' = [seen EXCEPT ![i] = value[entries[i]]]
    /\ reading' = reading \ {i}
    /\ UNCHANGED mapVars

\* There is no entry, or it was inserted behind the iteration, or if_indextoname()
\* fails and the name is not in the cache of names yet.
skipEntry(i) ==
    /\ i \in reading /\ seen[i] = NoSlot
    /\ reading' = reading \ {i}
    /\ UNCHANGED <<mapVars, seen, diff>>

-----------------------------------------------------------------------------
\* An interface is settled when it has an entry, no CPU is about to insert
\* another, and the pointers to its slot are those of its own packets.
Settled(i) ==
    /\ entries[i] # NoSlot
    /\ \A c \in Cpu :
        /\ cpu[c].interface = i => cpu[c].step = "add" /\ cpu[c].slot = entries[i]
        /\ cpu[c].slot = entries[i] => cpu[c].interface = i

Missing(i) == packets[i] - value[entries[i]]

\* Packets are lost, or counted for another interface, only around the first
\* packets of an interface: from the moment it is settled it stays so, and
\* update_stats() counts every packet of every CPU exactly once.
SettledCountsExactly ==
    [][\A i \in Interface : Settled(i) => Settled(i)' /\ Missing(i)' = Missing(i)]_mapVars
=============================================================================

------------------------- MODULE MysqlConnectionPool -------------------------
(***************************************************************************)
(* The MySQL connection pool of the manager                                *)
(* (manager/src/MysqlConnectionPool.cpp).                                  *)
(*                                                                         *)
(* Every section that holds mutex_ is one action: the scan of acquire(),   *)
(* release(), one pass of healthLoop(), and the two halves of stop().      *)
(* cv_.wait_until() splits acquire(): a thread is "waiting" inside the     *)
(* condition variable, "woken" once it was notified and before it has the  *)
(* mutex back.                                                             *)
(*                                                                         *)
(* A MYSQL* is a member of Handles.  open is the set of handles for which  *)
(* mysql_close() has not run; dead is the part of them whose server side   *)
(* is gone, so that mysql_ping() fails.  mysql_real_connect() may fail at  *)
(* any time.  Idle times are abstracted: a health pass may find any idle   *)
(* entry older than idleTtl_, except one it has reconnected itself.        *)
(* Metric counters and the failures count, which nothing reads, are left   *)
(* out.                                                                    *)
(***************************************************************************)
EXTENDS Integers, Sequences, FiniteSets

CONSTANTS
    Threads,    \* the threads that use the pool
    Handles,    \* MYSQL* values; their number bounds the open connections
    NoConn,     \* nullptr
    MinSize,    \* minSize_
    MaxSize     \* maxSize_

ASSUME PoolAssumption ==
    /\ NoConn \notin Handles
    /\ MinSize \in Nat
    /\ MaxSize \in Nat
    /\ MinSize <= MaxSize
    /\ IsFiniteSet(Handles)
    /\ IsFiniteSet(Threads)

VARIABLES
    phase,      \* "new", "running" (running_), "stopping", "stopped"
    entries,    \* entries_
    healthLoopAlive,
    pc,         \* where each thread stands with respect to acquire()
    guard,      \* the Guard each thread holds: index_ and conn_
    open,       \* handles not yet closed
    dead        \* open handles whose server side is gone

vars == <<phase, entries, healthLoopAlive, pc, guard, open, dead>>

Entry == [conn : Handles \cup {NoConn}, inUse : BOOLEAN, healthy : BOOLEAN]

\* An entry as closeEntry() or a failed connect() leaves it.
Closed == [conn |-> NoConn, inUse |-> FALSE, healthy |-> FALSE]

NoGuard == [index |-> 0, conn |-> NoConn]

\* An entry made from the result of connect().
Connected(h, used) == [conn |-> h, inUse |-> used /\ h # NoConn, healthy |-> h # NoConn]

\* Variant: the scans forget to skip entries that are in use.
IdleIgnoringUse == DOMAIN entries

Idle == {i \in DOMAIN entries : ~entries[i].inUse}

Conns(es, S) == {es[i].conn : i \in S} \ {NoConn}

Owned == Conns(entries, DOMAIN entries)

availableCount == Cardinality({i \in Idle : entries[i].healthy /\ entries[i].conn # NoConn})

-----------------------------------------------------------------------------
Init ==
    /\ phase = "new"
    /\ entries = <<>>
    /\ healthLoopAlive = FALSE
    /\ pc = [t \in Threads |-> "outside"]
    /\ guard = [t \in Threads |-> NoGuard]
    /\ open = {}
    /\ dead = {}

\* start(): minSize_ connections, each of which may fail, then the health thread.
start ==
    /\ phase = "new"
    /\ phase' = "running"
    /\ \E conns \in [1..MinSize -> Handles \cup {NoConn}] :
          /\ \A i, j \in 1..MinSize : conns[i] = conns[j] /\ conns[i] # NoConn => i = j
          /\ entries' = [i \in 1..MinSize |-> Connected(conns[i], FALSE)]
          /\ open' = {conns[i] : i \in 1..MinSize} \ {NoConn}
    /\ healthLoopAlive' = TRUE
    /\ UNCHANGED <<pc, guard, dead>>

\* ensureHealthy() on an unhealthy entry fails when there is no live
\* connection to keep and connect() fails too; it then leaves the entry Closed.
CannotRepair(e) == ~e.healthy /\ (e.conn = NoConn \/ e.conn \in dead)

\* The connections acquire() can return from entry e: its own when it is
\* healthy or answers the ping of ensureHealthy(), else a new one.
Usable(e) ==
    IF CannotRepair(e) THEN Handles \ open ELSE {e.conn}

RepairFailed(S) == [j \in DOMAIN entries |-> IF j \in S THEN Closed ELSE entries[j]]

\* open and dead after closing the handles in gone and opening those in new.
Reopen(gone, new) ==
    /\ open' = (open \ gone) \cup new
    /\ dead' = dead \ gone

\* acquire(): the first entry that is idle and healthy or repairable.
TakeEntry(t, i) ==
    LET skipped == {j \in Idle : j < i} IN
    /\ i \in Idle
    /\ \A j \in skipped : CannotRepair(entries[j])
    /\ \E h \in Usable(entries[i]) :
          /\ entries' = [RepairFailed(skipped) EXCEPT ![i] = Connected(h, TRUE)]
          /\ guard' = [guard EXCEPT ![t] = [index |-> i, conn |-> h]]
          /\ Reopen(Conns(entries, skipped \cup {i}) \ {h}, {h})
    /\ pc' = [pc EXCEPT ![t] = "using"]

HasRoom == Len(entries) < MaxSize

\* acquire(): nothing usable, room for one more entry and connect() succeeds.
GrowPool(t) ==
    /\ \A j \in Idle : CannotRepair(entries[j])
    /\ HasRoom
    /\ \E h \in Handles \ open :
          /\ entries' = Append(RepairFailed(Idle), Connected(h, TRUE))
          /\ guard' = [guard EXCEPT ![t] = [index |-> Len(entries) + 1, conn |-> h]]
          /\ Reopen(Conns(entries, Idle), {h})
    /\ pc' = [pc EXCEPT ![t] = "using"]

\* acquire(): nothing usable; a failed connect() still adds its entry.
WaitForConnection(t) ==
    /\ \A j \in Idle : CannotRepair(entries[j])
    /\ entries' = IF HasRoom
                    THEN Append(RepairFailed(Idle), Closed)
                    ELSE RepairFailed(Idle)
    /\ Reopen(Conns(entries, Idle), {})
    /\ pc' = [pc EXCEPT ![t] = "waiting"]
    /\ UNCHANGED guard

acquire(t) ==
    /\ phase = "running"
    /\ pc[t] \in {"outside", "woken"}
    /\ \/ \E i \in DOMAIN entries : TakeEntry(t, i)
       \/ GrowPool(t)
       \/ WaitForConnection(t)
    /\ UNCHANGED <<phase, healthLoopAlive>>

\* wait_until() reports a timeout whenever the deadline has passed, also to a
\* thread that was notified; acquire() then returns without another look.
acquireTimeout(t) ==
    /\ pc[t] \in {"waiting", "woken"}
    /\ pc' = [pc EXCEPT ![t] = "outside"]
    /\ UNCHANGED <<phase, entries, healthLoopAlive, guard, open, dead>>

\* A condition variable may wake a thread that nobody notified.
wakeSpuriously(t) ==
    /\ pc[t] = "waiting"
    /\ pc' = [pc EXCEPT ![t] = "woken"]
    /\ UNCHANGED <<phase, entries, healthLoopAlive, guard, open, dead>>

\* A woken thread finds running_ false and leaves the loop.
acquireStopped(t) ==
    /\ phase \in {"stopping", "stopped"}
    /\ pc[t] = "woken"
    /\ pc' = [pc EXCEPT ![t] = "outside"]
    /\ UNCHANGED <<phase, entries, healthLoopAlive, guard, open, dead>>

\* notify_one(), with thread t back outside.
NotifyOne(t) ==
    LET left == [pc EXCEPT ![t] = "outside"]
        waiters == {u \in Threads : pc[u] = "waiting"}
    IN IF waiters = {}
         THEN pc' = left
         ELSE \E u \in waiters : pc' = [left EXCEPT ![u] = "woken"]

\* Variant: an unhealthy connection is released without resetting inUse.
ReturnedInUse(e, bad) == [conn |-> e.conn, inUse |-> bad, healthy |-> e.healthy /\ ~bad]

\* An entry as release() leaves it.
Returned(e, bad) == [conn |-> e.conn, inUse |-> FALSE, healthy |-> e.healthy /\ ~bad]

\* Guard::release() and release(): bad when the user marked the connection
\* unhealthy or mysql_errno() reports an error on it.
release(t) ==
    LET i == guard[t].index IN
    /\ pc[t] = "using"
    /\ IF i \in DOMAIN entries
         THEN /\ \E bad \in BOOLEAN :
                   entries' = [entries EXCEPT ![i] = Returned(@, bad)]
              /\ NotifyOne(t)
         ELSE /\ pc' = [pc EXCEPT ![t] = "outside"]
              /\ UNCHANGED entries
    /\ guard' = [guard EXCEPT ![t] = NoGuard]
    /\ UNCHANGED <<phase, healthLoopAlive, open, dead>>

-----------------------------------------------------------------------------
\* What the first loop of a health pass reconnects, and what it pings.
ToReconnect == {i \in Idle : ~entries[i].healthy \/ entries[i].conn = NoConn}
PingFails == {i \in Idle \ ToReconnect : entries[i].conn \in dead}

\* The entries after that loop.  The handle of a reconnected entry is
\* overwritten, not closed.
Rechecked(fresh) ==
    [i \in DOMAIN entries |->
        CASE i \in ToReconnect -> Connected(fresh[i], FALSE)
          [] i \in PingFails   -> Closed
          [] OTHER             -> entries[i]]

\* The second and third loops: of the entries found too old, in index order,
\* those that have to go for no more than minSize_ to stay open.
Pruned(es, old) ==
    LET openCount == Cardinality({i \in DOMAIN es : es[i].conn # NoConn})
    IN {i \in old : openCount - Cardinality({j \in old : j < i}) > MinSize}

\* Variant: notify_all() is missing.
WakeNobody == pc

\* notify_all()
WakeAll == [t \in Threads |-> IF pc[t] = "waiting" THEN "woken" ELSE pc[t]]

healthPass ==
    /\ healthLoopAlive
    /\ phase = "running"
    /\ \E fresh \in [ToReconnect -> (Handles \ open) \cup {NoConn}] :
          LET es == Rechecked(fresh) IN
          /\ \A i, j \in ToReconnect : fresh[i] = fresh[j] /\ fresh[i] # NoConn => i = j
          /\ \E old \in SUBSET {i \in Idle \ ToReconnect : es[i].conn # NoConn} :
                /\ entries' = [i \in DOMAIN es |-> IF i \in Pruned(es, old) THEN Closed ELSE es[i]]
                /\ Reopen(Conns(entries, PingFails \cup Pruned(es, old)), Conns(es, ToReconnect))
    /\ pc' = WakeAll
    /\ UNCHANGED <<phase, healthLoopAlive, guard>>

healthLoopExit ==
    /\ healthLoopAlive
    /\ phase = "stopping"
    /\ healthLoopAlive' = FALSE
    /\ UNCHANGED <<phase, entries, pc, guard, open, dead>>

\* stop() up to the join of the health thread.
stopBegin ==
    /\ phase = "running"
    /\ phase' = "stopping"
    /\ pc' = WakeAll
    /\ UNCHANGED <<entries, healthLoopAlive, guard, open, dead>>

\* stop() after the join: every entry is closed, also one that is in use.
stopFinish ==
    /\ phase = "stopping"
    /\ ~healthLoopAlive
    /\ phase' = "stopped"
    /\ Reopen(Owned, {})
    /\ entries' = <<>>
    /\ UNCHANGED <<healthLoopAlive, pc, guard>>

\* The server drops a connection.
dropConnection ==
    /\ \E h \in open \ dead : dead' = dead \cup {h}
    /\ UNCHANGED <<phase, entries, healthLoopAlive, pc, guard, open>>

Next ==
    \/ start
    \/ \E t \in Threads : \/ acquire(t) \/ acquireTimeout(t) \/ acquireStopped(t)
                          \/ wakeSpuriously(t) \/ release(t)
    \/ healthPass
    \/ healthLoopExit
    \/ stopBegin
    \/ stopFinish
    \/ dropConnection

Spec == Init /\ [][Next]_vars

-----------------------------------------------------------------------------
\* Types of the state, with the bound that entries_ never outgrows maxSize_.
TypeOK ==
    /\ phase \in {"new", "running", "stopping", "stopped"}
    /\ entries \in Seq(Entry)
    /\ Len(entries) <= MaxSize
    /\ healthLoopAlive \in BOOLEAN
    /\ pc \in [Threads -> {"outside", "waiting", "woken", "using"}]
    /\ guard \in [Threads -> [index : Nat, conn : Handles \cup {NoConn}]]
    /\ open \subseteq Handles
    /\ dead \subseteq open

\* Until stop() closes the entries, a guard stands for an entry that is in use,
\* still has the guard's connection, open, and belongs to no other guard: no
\* scan, repair, health pass or pruning ever touches a connection that is lent.
ExclusiveLease ==
    phase # "stopped" =>
        /\ \A t \in Threads : pc[t] = "using" =>
              LET g == guard[t] IN
              /\ g.index \in DOMAIN entries
              /\ entries[g.index].inUse
              /\ entries[g.index].conn = g.conn
              /\ g.conn \in open
        /\ \A t, u \in Threads :
              pc[t] = "using" /\ pc[u] = "using" /\ t # u => guard[t].conn # guard[u].conn

\* No lease is lost: an entry marked in use is held by some thread, so release()
\* always brings it back and the pool cannot run dry of entries nobody has.
NoAbandonedEntry ==
    \A i \in DOMAIN entries :
        entries[i].inUse => \E t \in Threads : pc[t] = "using" /\ guard[t].index = i

\* A thread sleeps beside a free connection that no woken thread is on its way to.
WaiterStranded ==
    /\ \E t \in Threads : pc[t] = "waiting"
    /\ availableCount > Cardinality({t \in Threads : pc[t] = "woken"})

\* The step of a thread that was woken and does not take a free connection: its
\* deadline has passed (acquire() then returns without another look), or an
\* unhealthy entry comes first and it repairs that one.
WastesItsWakeUp(t) ==
    /\ pc[t] = "woken"
    /\ \/ pc'[t] = "outside"
       \/ pc'[t] = "using" /\ ~entries[guard'[t].index].healthy

\* A free connection and a thread waiting for one come together: release() and
\* the health pass wake enough threads, whoever takes the connection in between.
\* Only a woken thread that takes none of the free ones leaves a waiter behind,
\* who then sleeps until its deadline, the next release() or the next health pass.
NoWakeUpForgotten ==
    [][~WaiterStranded /\ WaiterStranded' => \E t \in Threads : WastesItsWakeUp(t)]_vars

\* The pool does what ConnectionLease says, the lease being the guard's connection.
Lease == INSTANCE ConnectionLease WITH
            owned <- Owned,
            lease <- [t \in Threads |-> IF pc[t] = "using" THEN guard[t].conn ELSE NoConn],
            closed <- phase = "stopped"

LeaseSpec == Lease!Spec

-----------------------------------------------------------------------------
(* What the header says and the code does not do.                          *)

\* MysqlConnectionPool.h: a connection marked unhealthy is closed when it is
\* released.  Then no open handle is without an entry.
NoHandleLeaked == open = Owned
=============================================================================

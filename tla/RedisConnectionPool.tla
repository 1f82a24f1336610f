------------------------- MODULE RedisConnectionPool -------------------------
(***************************************************************************)
(* The Redis connection pool of the manager and RedisCache, its only user  *)
(* (manager/src/RedisConnectionPool.cpp).                                  *)
(*                                                                         *)
(* As in MysqlConnectionPool, every section that holds mutex_ is one       *)
(* action and cv_.wait_until() splits acquire().  What differs is the      *)
(* ownership and the repair: an entry owns its connection through a        *)
(* unique_ptr, so that a replaced connection is freed, and a connection    *)
(* that was released as unhealthy is pinged and kept if it answers.        *)
(* sw::redis reconnects by itself, so a ping may fail now and succeed      *)
(* later: both outcomes are always possible, as for connect().             *)
(* A health pass may find any idle entry older than idleTtl_, except one   *)
(* it has just connected.  Metrics and the failures count, which nothing   *)
(* reads, are left out.                                                    *)
(***************************************************************************)
EXTENDS Integers, Sequences, FiniteSets

CONSTANTS
    Threads,    \* the threads that call RedisCache
    Handles,    \* sw::redis::Redis objects
    NoConn,     \* nullptr
    MinSize,    \* minSize_
    MaxSize     \* maxSize_

ASSUME PoolAssumption ==
    /\ NoConn \notin Handles
    /\ MinSize \in Nat
    /\ MaxSize \in Nat
    /\ MinSize <= MaxSize
    /\ IsFiniteSet(Handles)
    /\ IsFiniteSet(Threads)

VARIABLES
    phase,              \* "new", "running" (running_), "stopping", "stopped"
    entries,            \* entries_
    healthLoopAlive,
    pc,                 \* where each thread stands with respect to acquire()
    guard,              \* the Guard each thread holds: index_ and conn_
    answered            \* history: connections open after the pings of the last pass

vars == <<phase, entries, healthLoopAlive, pc, guard, answered>>

Entry == [conn : Handles \cup {NoConn}, inUse : BOOLEAN, healthy : BOOLEAN]

\* Variant: closeEntry() leaves the health flag alone.
ClosedButHealthy == [conn |-> NoConn, inUse |-> FALSE, healthy |-> TRUE]

\* An entry as closeEntry() or a failed connect() leaves it.
Closed == [conn |-> NoConn, inUse |-> FALSE, healthy |-> FALSE]

NoGuard == [index |-> 0, conn |-> NoConn]

\* An entry that has connection h and is healthy.
Open(h, used) == [conn |-> h, inUse |-> used, healthy |-> TRUE]

\* Variant: the scans forget to skip entries that are in use.
IdleIgnoringUse == DOMAIN entries

Idle == {i \in DOMAIN entries : ~entries[i].inUse}

OpenIn(es) == {i \in DOMAIN es : es[i].conn # NoConn}

Owned == {entries[i].conn : i \in OpenIn(entries)}

\* What connect() can return when it succeeds: an object that is not in use.
Fresh == Handles \ Owned

availableCount == Cardinality({i \in Idle \cap OpenIn(entries) : entries[i].healthy})

-----------------------------------------------------------------------------
Init ==
    /\ phase = "new"
    /\ entries = <<>>
    /\ healthLoopAlive = FALSE
    /\ pc = [t \in Threads |-> "outside"]
    /\ guard = [t \in Threads |-> NoGuard]
    /\ answered = 0

\* The ways in which connect() turns out for each entry in S.
Connects(S) ==
    {f \in [S -> Fresh \cup {NoConn}] :
        \A i, j \in S : f[i] = f[j] /\ f[i] # NoConn => i = j}

FromConnect(h) == IF h = NoConn THEN Closed ELSE Open(h, FALSE)

\* start(): minSize_ entries, connected or not, then the health thread.
start ==
    /\ phase = "new"
    /\ phase' = "running"
    /\ \E f \in Connects(1 .. MinSize) :
          entries' = [i \in 1 .. MinSize |-> FromConnect(f[i])]
    /\ healthLoopAlive' = TRUE
    /\ UNCHANGED <<pc, guard, answered>>

\* ensureHealthy() on an unhealthy entry: its own connection answers the ping,
\* or it is closed and connect() gives another one.
Usable(e) ==
    IF e.healthy THEN {e.conn} ELSE ({e.conn} \ {NoConn}) \cup Fresh

\* The entries after ensureHealthy() has failed on those in S.
RepairFailed(S) == [j \in DOMAIN entries |-> IF j \in S THEN Closed ELSE entries[j]]

AllUnhealthy(S) == \A j \in S : ~entries[j].healthy

\* acquire(): the first entry that is idle and healthy or repaired.  A guard
\* without a connection is no guard: its user goes away and releases nothing.
TakeEntry(t, i) ==
    LET skipped == {j \in Idle : j < i} IN
    /\ i \in Idle
    /\ AllUnhealthy(skipped)
    /\ \E h \in Usable(entries[i]) :
          /\ entries' = [RepairFailed(skipped) EXCEPT ![i] = Open(h, TRUE)]
          /\ guard' = [guard EXCEPT ![t] = [index |-> i, conn |-> h]]
          /\ pc' = [pc EXCEPT ![t] = IF h = NoConn THEN "outside" ELSE "using"]

HasRoom == Len(entries) < MaxSize

\* acquire(): nothing usable, room for one more entry and connect() succeeds.
GrowPool(t) ==
    /\ AllUnhealthy(Idle)
    /\ HasRoom
    /\ \E h \in Fresh :
          /\ entries' = Append(RepairFailed(Idle), Open(h, TRUE))
          /\ guard' = [guard EXCEPT ![t] = [index |-> Len(entries) + 1, conn |-> h]]
    /\ pc' = [pc EXCEPT ![t] = "using"]

\* acquire(): nothing usable; a failed connect() still adds its entry.
WaitForConnection(t) ==
    /\ AllUnhealthy(Idle)
    /\ entries' = IF HasRoom
                    THEN Append(RepairFailed(Idle), Closed)
                    ELSE RepairFailed(Idle)
    /\ pc' = [pc EXCEPT ![t] = "waiting"]
    /\ UNCHANGED guard

\* RedisCache::get() and set() come in, or a woken thread looks again.
acquire(t) ==
    /\ phase = "running"
    /\ pc[t] \in {"outside", "woken"}
    /\ \/ \E i \in DOMAIN entries : TakeEntry(t, i)
       \/ GrowPool(t)
       \/ WaitForConnection(t)
    /\ UNCHANGED <<phase, healthLoopAlive, answered>>

\* wait_until() reports a timeout whenever the 50 ms are over, also to a thread
\* that was notified; acquire() then returns without another look.
acquireTimeout(t) ==
    /\ pc[t] \in {"waiting", "woken"}
    /\ pc' = [pc EXCEPT ![t] = "outside"]
    /\ UNCHANGED <<phase, entries, healthLoopAlive, guard, answered>>

\* A condition variable may wake a thread that nobody notified.
wakeSpuriously(t) ==
    /\ pc[t] = "waiting"
    /\ pc' = [pc EXCEPT ![t] = "woken"]
    /\ UNCHANGED <<phase, entries, healthLoopAlive, guard, answered>>

\* A woken thread finds running_ false and leaves the loop.
acquireStopped(t) ==
    /\ phase \in {"stopping", "stopped"}
    /\ pc[t] = "woken"
    /\ pc' = [pc EXCEPT ![t] = "outside"]
    /\ UNCHANGED <<phase, entries, healthLoopAlive, guard, answered>>

\* notify_one(), with thread t back outside.
NotifyOne(t) ==
    LET left == [pc EXCEPT ![t] = "outside"]
        waiters == {u \in Threads : pc[u] = "waiting"}
    IN IF waiters = {}
         THEN pc' = left
         ELSE \E u \in waiters : pc' = [left EXCEPT ![u] = "woken"]

\* An entry as release() leaves it.
Returned(e, healthy) == [conn |-> e.conn, inUse |-> FALSE, healthy |-> e.healthy /\ healthy]

\* Guard::release() and release().
release(t, healthy) ==
    LET i == guard[t].index IN
    /\ IF i \in DOMAIN entries
         THEN /\ entries' = [entries EXCEPT ![i] = Returned(@, healthy)]
              /\ NotifyOne(t)
         ELSE /\ pc' = [pc EXCEPT ![t] = "outside"]
              /\ UNCHANGED entries
    /\ guard' = [guard EXCEPT ![t] = NoGuard]
    /\ UNCHANGED <<phase, healthLoopAlive, answered>>

\* The GET or SETEX of RedisCache returns, or throws and has the guard marked
\* unhealthy; the guard goes out of scope.
cacheCallEnds(t) ==
    /\ pc[t] = "using"
    /\ \E threw \in BOOLEAN : release(t, ~threw)

-----------------------------------------------------------------------------
\* The first loop of a health pass connects the idle entries that have no
\* connection and pings the others.
ToConnect == Idle \ OpenIn(entries)

Rechecked(f, pingFails) ==
    [i \in DOMAIN entries |->
        CASE i \in ToConnect        -> FromConnect(f[i])
          [] i \in pingFails        -> Closed
          [] i \in Idle \ (ToConnect \cup pingFails) -> Open(entries[i].conn, FALSE)
          [] OTHER                  -> entries[i]]

\* Variant: the pruning loop goes on while minSize_ connections are open.
PrunedOnceTooOften(es, old) ==
    {i \in old : Cardinality(OpenIn(es)) - Cardinality({j \in old : j < i}) >= MinSize}

\* The second and third loops: of the entries found too old, in index order,
\* those that have to go for no more than minSize_ to stay open.
Pruned(es, old) ==
    {i \in old : Cardinality(OpenIn(es)) - Cardinality({j \in old : j < i}) > MinSize}

\* notify_all()
WakeAll == [t \in Threads |-> IF pc[t] = "waiting" THEN "woken" ELSE pc[t]]

\* One turn of healthLoop().
healthPass ==
    /\ healthLoopAlive
    /\ phase = "running"
    /\ \E f \in Connects(ToConnect), pingFails \in SUBSET (Idle \cap OpenIn(entries)) :
          LET es == Rechecked(f, pingFails) IN
          /\ \E old \in SUBSET (Idle \ (ToConnect \cup pingFails)) :
                entries' = [i \in DOMAIN es |->
                              IF i \in Pruned(es, old) THEN Closed ELSE es[i]]
          /\ answered' = Cardinality(OpenIn(es))
    /\ pc' = WakeAll
    /\ UNCHANGED <<phase, healthLoopAlive, guard>>

healthLoopExit ==
    /\ healthLoopAlive
    /\ phase = "stopping"
    /\ healthLoopAlive' = FALSE
    /\ UNCHANGED <<phase, entries, pc, guard, answered>>

\* stop() up to the join of the health thread.
stopBegin ==
    /\ phase = "running"
    /\ phase' = "stopping"
    /\ pc' = WakeAll
    /\ UNCHANGED <<entries, healthLoopAlive, guard, answered>>

\* stop() after the join: entries_.clear() frees every connection.
stopFinish ==
    /\ phase = "stopping"
    /\ ~healthLoopAlive
    /\ phase' = "stopped"
    /\ entries' = <<>>
    /\ UNCHANGED <<healthLoopAlive, pc, guard, answered>>

Next ==
    \/ start
    \/ \E t \in Threads : \/ acquire(t) \/ acquireTimeout(t) \/ acquireStopped(t)
                          \/ wakeSpuriously(t) \/ cacheCallEnds(t)
    \/ healthPass
    \/ healthLoopExit
    \/ stopBegin
    \/ stopFinish

Spec == Init /\ [][Next]_vars

-----------------------------------------------------------------------------
(* The one type invariant; entries_ never outgrows maxSize_, although      *)
(* every thread whose connect() fails pushes an entry.                     *)
TypeOK ==
    /\ phase \in {"new", "running", "stopping", "stopped"}
    /\ entries \in Seq(Entry)
    /\ Len(entries) <= MaxSize
    /\ healthLoopAlive \in BOOLEAN
    /\ pc \in [Threads -> {"outside", "waiting", "woken", "using"}]
    /\ guard \in [Threads -> [index : Nat, conn : Handles \cup {NoConn}]]
    /\ answered \in 0 .. MaxSize

(* Until stop() clears the entries, the raw pointer in a guard is the one  *)
(* its entry still owns, the entry is in use, and no other guard has it:   *)
(* no ping failure, repair, pruning or growth of the vector frees or       *)
(* hands out again a connection that a RedisCache call is using.           *)
ExclusiveLease ==
    phase # "stopped" =>
        /\ \A t \in Threads : pc[t] = "using" =>
              /\ guard[t].index \in DOMAIN entries
              /\ entries[guard[t].index].inUse
              /\ entries[guard[t].index].conn = guard[t].conn
        /\ \A t, u \in Threads :
              pc[t] = "using" /\ pc[u] = "using" /\ t # u => guard[t].conn # guard[u].conn

(* No entry is lost: one marked in use has a guard that will release it.   *)
(* acquire() hands out a healthy entry without looking at its connection,  *)
(* so an entry healthy but closed would stay in use for ever.              *)
NoAbandonedEntry ==
    \A i \in DOMAIN entries :
        entries[i].inUse => \E t \in Threads : pc[t] = "using" /\ guard[t].index = i

(* Pruning stops at minSize_: of the connections that were open after the *)
(* pings, a pass closes none that minSize_ needs.  The loop counts down    *)
(* while it closes, and skips the entries in use without skipping them in  *)
(* the count.                                                              *)
PruneKeepsMinimum ==
    [][healthPass => \/ Cardinality(OpenIn(entries')) >= MinSize
                     \/ Cardinality(OpenIn(entries')) = answered']_vars

(* The pool does what ConnectionLease says, the lease being the guard's    *)
(* connection.                                                             *)
Lease == INSTANCE ConnectionLease WITH
            owned <- Owned,
            lease <- [t \in Threads |-> IF pc[t] = "using" THEN guard[t].conn ELSE NoConn],
            closed <- phase = "stopped"

LeaseSpec == Lease!Spec
=============================================================================

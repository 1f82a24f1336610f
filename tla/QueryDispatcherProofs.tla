------------------------ MODULE QueryDispatcherProofs ------------------------
(***************************************************************************)
(* For every number of callers, calls and threads, every capacity and      *)
(* every pair of thread limits: the types of QueryDispatcher, the exact    *)
(* count of its threads and how far it can overshoot, the clean stop, and  *)
(* that every query is in one place and its answer true.                   *)
(***************************************************************************)
EXTENDS QueryDispatcher, FiniteSetTheorems, TLAPS

ClientPlaces == {"outside", "scale", "spawn", "emplace", "capacity", "enqueue", "write", "waiting"}

At(place) == {c \in Clients : client[c] = place}

\* A caller that is inside has a query with a number.
TypeInv ==
    /\ TypeOK
    /\ calls \in [Clients -> Nat]
    /\ \A c \in Clients : client[c] # "outside" => calls[c] >= 1

\* The number of threads is exact, and each caller that has passed the check of
\* the maximum will add at most one.  Without callers inside no thread is added,
\* so that the threads stop() took are all there are.
CountInv ==
    /\ CountExact
    /\ workerCount + Cardinality(At("spawn")) <= ThreadsMax + Cardinality(Clients) - 1
    /\ ~running /\ stopper = "none" =>
          Live = {} /\ \A c \in Clients : client[c] = "outside"
    /\ quietStop => \A c \in Clients : client[c] = "outside"
    /\ quietStop /\ stopper \in {"joining", "stopped"} => Live \subseteq joining
    /\ stopper = "stopped" => joining = {}

-----------------------------------------------------------------------------
(* Types.                                                                  *)

\* A caller inside submitQueryTask has a query.
LEMMA CurrentFacts ==
    ASSUME TypeInv, NEW c \in Clients, client[c] # "outside"
    PROVE  Current(c) \in Queries /\ Current(c) # NoQuery
<1>1. calls[c] \in 1 .. MaxQueries[c]
    BY QueryAssumption DEF TypeInv, TypeOK
<1> QED BY <1>1 DEF Current, Queries, NoQuery

\* One caller moves.
LEMMA GotoFacts ==
    ASSUME TypeInv, NEW c \in Clients, NEW there \in ClientPlaces, Goto(c, there)
    PROVE  /\ client' \in [Clients -> ClientPlaces] /\ client'[c] = there
           /\ \A d \in Clients : d # c => client'[d] = client[d]
    BY Zenon DEF Goto, TypeInv, TypeOK, ClientPlaces

\* One thread moves.
LEMMA WorkerGotoFacts ==
    ASSUME TypeInv, NEW w \in Workers,
           NEW there \in {"unborn", "check", "read", "idle", "shrink", "run", "gone"},
           WorkerGoto(w, there)
    PROVE  /\ worker' \in [Workers -> [pc : {"unborn", "check", "read", "idle", "shrink", "run", "gone"},
                                       query : Queries \cup {NoQuery}]]
           /\ worker'[w].pc = there /\ worker'[w].query = worker[w].query
           /\ \A u \in Workers : u # w => worker'[u] = worker[u]
    BY Zenon DEF WorkerGoto, TypeInv, TypeOK

\* What a caller's steps do to the variables whose types they could spoil.
LEMMA ClientTypes ==
    ASSUME TypeInv, NEW c \in Clients, clientStep(c)
    PROVE  /\ running' = running /\ quietStop' = quietStop /\ stopper' = stopper
           /\ joining' = joining /\ calls' = calls /\ promise' = promise
           /\ queryQueue' \in Seq(Queries) /\ Len(queryQueue') <= Capacity
           /\ client[c] # "outside" /\ \E there \in ClientPlaces : Goto(c, there)
           /\ answer' \in [Queries -> {"none", "OK", "INTERNAL", "RESOURCE_EXHAUSTED",
                                       "DEADLINE_EXCEEDED"}]
<1> DEFINE Answers == {"none", "OK", "INTERNAL", "RESOURCE_EXHAUSTED", "DEADLINE_EXCEEDED"}
           Goal == /\ running' = running /\ quietStop' = quietStop /\ stopper' = stopper
                   /\ joining' = joining /\ calls' = calls /\ promise' = promise
                   /\ queryQueue' \in Seq(Queries) /\ Len(queryQueue') <= Capacity
                   /\ client[c] # "outside" /\ \E there \in ClientPlaces : Goto(c, there)
                   /\ answer' \in [Queries -> Answers]
<1>1. /\ queryQueue \in Seq(Queries) /\ Len(queryQueue) <= Capacity /\ answer \in [Queries -> Answers]
      /\ promise \in [Queries -> {"none", "OK", "INTERNAL"}]
    BY Zenon DEF TypeInv, TypeOK
<1>2. ASSUME NEW status \in Answers, answer' = [answer EXCEPT ![Current(c)] = status]
      PROVE  answer' \in [Queries -> Answers]
    BY <1>1, <1>2, Zenon
<1>3. CASE maybeScaleUpQuery(c)
    BY <1>1, <1>3, Zenon DEF maybeScaleUpQuery, workerSide, ClientPlaces
<1>4. CASE spawnCount(c)
    BY <1>1, <1>4, Zenon DEF spawnCount, ClientPlaces
<1>5. CASE spawnEmplace(c)
    BY <1>1, <1>5, Zenon DEF spawnEmplace, ClientPlaces
<1>6. CASE checkCapacity(c)
    BY <1>1, <1>2, <1>6, Zenon DEF checkCapacity, Return, workerSide, ClientPlaces
<1>7. CASE enqueueQuery(c)
    BY <1>1, <1>2, <1>7, Zenon DEF enqueueQuery, Return, workerSide, ClientPlaces
<1>8. CASE writeQuery(c)
  <2>1. client[c] # "outside" /\ UNCHANGED <<calls, quietStop, workerSide>>
      BY <1>8, Zenon DEF writeQuery
  <2>2. CASE HasRoom
    <3>1. queryQueue' = Append(queryQueue, Current(c)) /\ Goto(c, "waiting") /\ answer' = answer
        BY <1>8, <2>2, Zenon DEF writeQuery
    <3>2. Current(c) \in Queries
        BY <2>1, CurrentFacts, Zenon
    <3>3. queryQueue' \in Seq(Queries) /\ Len(queryQueue') <= Capacity
        BY <1>1, <2>2, <3>1, <3>2, QueryAssumption DEF HasRoom
    <3> QED BY <1>1, <2>1, <3>1, <3>3, Zenon DEF workerSide, ClientPlaces
  <2>3. CASE ~HasRoom
      BY <1>1, <1>2, <1>8, <2>1, <2>3, Zenon DEF writeQuery, Return, workerSide, ClientPlaces
  <2> QED BY <2>2, <2>3, Zenon
<1>9. CASE awaitResult(c)
  <2>1. client[c] # "outside" /\ Current(c) \in Queries
      BY <1>9, CurrentFacts, Zenon DEF awaitResult
  <2>2. promise[Current(c)] \in Answers
      BY <1>1, <2>1, Zenon
  <2> QED BY <1>1, <1>2, <1>9, <2>1, <2>2, Zenon DEF awaitResult, Return, workerSide, ClientPlaces
<1>10. CASE awaitTimeout(c)
    BY <1>1, <1>2, <1>10, Zenon DEF awaitTimeout, TimeoutStatus, Return, workerSide, ClientPlaces
<1> QED BY <1>3, <1>4, <1>5, <1>6, <1>7, <1>8, <1>9, <1>10, Zenon DEF clientStep

\* What a worker's steps do.
LEMMA WorkerTypes ==
    ASSUME TypeInv, NEW w \in Workers, workerStep(w)
    PROVE  /\ UNCHANGED clientSide
           /\ queryQueue' \in Seq(Queries) /\ Len(queryQueue') <= Capacity
           /\ joining' \subseteq joining
           /\ worker' \in [Workers -> [pc : {"unborn", "check", "read", "idle", "shrink", "run", "gone"},
                                       query : Queries \cup {NoQuery}]]
           /\ \A u \in Workers : u # w => worker'[u] = worker[u]
           /\ promise' \in [Queries -> {"none", "OK", "INTERNAL"}]
<1>1. /\ queryQueue \in Seq(Queries) /\ Len(queryQueue) <= Capacity /\ Capacity \in Nat
      /\ promise \in [Queries -> {"none", "OK", "INTERNAL"}]
      /\ worker \in [Workers -> [pc : {"unborn", "check", "read", "idle", "shrink", "run", "gone"},
                                 query : Queries \cup {NoQuery}]]
    BY QueryAssumption, Zenon DEF TypeInv, TypeOK
<1>2. CASE workerCheck(w)
    BY <1>1, <1>2, WorkerGotoFacts, Zenon DEF workerCheck, Leave
<1>3. CASE workerRead(w)
  <2>1. CASE queryQueue = <<>>
      BY <1>1, <1>3, <2>1, WorkerGotoFacts, Zenon DEF workerRead
  <2>2. CASE queryQueue # <<>>
    <3>1. /\ worker' = [worker EXCEPT ![w] = [pc |-> "run", query |-> Head(queryQueue)]]
          /\ queryQueue' = Tail(queryQueue) /\ UNCHANGED <<joining, promise, clientSide>>
        BY <1>3, <2>2, Zenon DEF workerRead
    <3>2. Head(queryQueue) \in Queries /\ Tail(queryQueue) \in Seq(Queries)
          /\ Len(Tail(queryQueue)) <= Capacity
        BY <1>1, <2>2
    <3> QED BY <1>1, <3>1, <3>2, Zenon
  <2> QED BY <2>1, <2>2, Zenon
<1>4. CASE workerIdle(w)
    BY <1>1, <1>4, WorkerGotoFacts, Zenon DEF workerIdle
<1>5. CASE workerShrink(w)
    BY <1>1, <1>5, WorkerGotoFacts, Zenon DEF workerShrink, Leave
<1>6. CASE workerRun(w)
    BY <1>1, <1>6, Zenon DEF workerRun
<1> QED BY <1>2, <1>3, <1>4, <1>5, <1>6, Zenon DEF workerStep

-----------------------------------------------------------------------------
(* The number of threads.                                                  *)

\* The sets that the worker count adds up are finite.
LEMMA Sizes ==
    /\ IsFiniteSet(Live) /\ Cardinality(Live) \in Nat
    /\ \A place : /\ IsFiniteSet(At(place)) /\ Cardinality(At(place)) \in Nat
                  /\ Cardinality(At(place)) <= Cardinality(Clients)
    /\ Cardinality(Clients) \in Nat /\ Cardinality(Clients) >= 1
<1>1. IsFiniteSet(Live) /\ Cardinality(Live) \in Nat
  <2>1. Live \in SUBSET Workers
      BY Zenon DEF Live
  <2>2. IsFiniteSet(Live)
      BY <2>1, FS_Subset, QueryAssumption, Zenon
  <2> QED BY <2>2, FS_CardinalityType, Zenon
<1>2. ASSUME NEW place
      PROVE  /\ IsFiniteSet(At(place)) /\ Cardinality(At(place)) \in Nat
             /\ Cardinality(At(place)) <= Cardinality(Clients)
  <2>1. At(place) \in SUBSET Clients
      BY Zenon DEF At
  <2>2. IsFiniteSet(At(place)) /\ Cardinality(At(place)) <= Cardinality(Clients)
      BY <2>1, FS_Subset, QueryAssumption, Zenon
  <2> QED BY <2>2, FS_CardinalityType, Zenon
<1>3. Cardinality(Clients) \in Nat /\ Cardinality(Clients) # 0
    BY QueryAssumption, FS_CardinalityType, FS_EmptySet, Zenon
<1> QED BY <1>1, <1>2, <1>3

\* The same in the next state.
LEMMA SizesNext ==
    /\ IsFiniteSet(Live') /\ Cardinality(Live') \in Nat
    /\ \A place : /\ IsFiniteSet(At(place)') /\ Cardinality(At(place)') \in Nat
                  /\ Cardinality(At(place)') <= Cardinality(Clients)
<1>1. IsFiniteSet(Live') /\ Cardinality(Live') \in Nat
  <2>1. Live' \in SUBSET Workers
      BY Zenon DEF Live
  <2>2. IsFiniteSet(Live')
      BY <2>1, FS_Subset, QueryAssumption, Zenon
  <2> QED BY <2>2, FS_CardinalityType, Zenon
<1>2. ASSUME NEW CONSTANT place
      PROVE  /\ IsFiniteSet(At(place)') /\ Cardinality(At(place)') \in Nat
             /\ Cardinality(At(place)') <= Cardinality(Clients)
  <2>1. At(place)' \in SUBSET Clients
      BY Zenon DEF At
  <2>2. IsFiniteSet(At(place)') /\ Cardinality(At(place)') <= Cardinality(Clients)
      BY <2>1, FS_Subset, QueryAssumption, Zenon
  <2> QED BY <2>2, FS_CardinalityType, Zenon
<1> QED BY <1>1, <1>2, Zenon

\* A caller that moves leaves one place and comes to another.
LEMMA Moves ==
    ASSUME TypeInv, NEW c \in Clients, NEW there \in ClientPlaces, Goto(c, there), NEW CONSTANT p
    PROVE  /\ client[c] # p /\ there # p => At(p)' = At(p)
           /\ client[c] = p /\ there # p => At(p)' = At(p) \ {c} /\ c \in At(p)
           /\ client[c] # p /\ there = p => At(p)' = At(p) \cup {c} /\ c \notin At(p)
<1>1. client'[c] = there /\ \A d \in Clients : d # c => client'[d] = client[d]
    BY GotoFacts, Zenon
<1> QED BY <1>1 DEF At

\* A step of a caller keeps the account of the workers.
LEMMA ClientCount ==
    ASSUME TypeInv, CountInv, NEW c \in Clients, clientStep(c)
    PROVE  /\ CountInv' /\ workerCount' \in Nat
           /\ worker' \in [Workers -> [pc : {"unborn", "check", "read", "idle", "shrink", "run", "gone"},
                                       query : Queries \cup {NoQuery}]]
<1> DEFINE W == [Workers -> [pc : {"unborn", "check", "read", "idle", "shrink", "run", "gone"},
                             query : Queries \cup {NoQuery}]]
           live == Cardinality(Live)
           spawning == Cardinality(At("spawn"))
           emplacing == Cardinality(At("emplace"))
           limit == ThreadsMax + Cardinality(Clients) - 1
<1>1. /\ worker \in W /\ workerCount \in Nat /\ workerCount = live + emplacing
      /\ workerCount + spawning <= limit
    BY Zenon DEF TypeInv, TypeOK, CountInv, CountExact, At
<1>2. /\ client[c] # "outside" /\ running' = running /\ stopper' = stopper /\ joining' = joining
      /\ quietStop' = quietStop
    BY ClientTypes, Zenon
<1>3. /\ live \in Nat /\ spawning \in Nat /\ emplacing \in Nat
      /\ IsFiniteSet(Live) /\ IsFiniteSet(At("spawn")) /\ IsFiniteSet(At("emplace"))
      /\ Cardinality(Clients) \in Nat /\ ThreadsMax \in Nat
    BY Sizes, QueryAssumption, Zenon
<1>4. ASSUME workerCount' = Cardinality(Live') + Cardinality(At("emplace")'),
             workerCount' + Cardinality(At("spawn")') <= limit
      PROVE  CountInv' /\ workerCount' \in Nat
  <2>1. ~quietStop /\ ~(~running /\ stopper = "none") /\ (stopper = "stopped" => joining = {})
      BY <1>2, Zenon DEF CountInv
  <2>2. ~quietStop' /\ ~(~running' /\ stopper' = "none") /\ (stopper' = "stopped" => joining' = {})
      BY <1>2, <2>1, Zenon
  <2>3. workerCount' \in Nat
      BY <1>4, SizesNext
  <2> QED BY <1>4, <2>2, <2>3, Zenon DEF CountInv, CountExact, At
<1>5. ASSUME workerCount' = workerCount, worker' = worker,
             NEW there \in ClientPlaces \ {"spawn", "emplace"}, Goto(c, there),
             client[c] # "spawn", client[c] # "emplace"
      PROVE  CountInv' /\ workerCount' \in Nat /\ worker' \in W
  <2>1. At("spawn")' = At("spawn") /\ At("emplace")' = At("emplace")
      BY <1>5, Moves, Zenon
  <2>2. Live' = Live
      BY <1>5, Zenon DEF Live
  <2> QED BY <1>1, <1>4, <1>5, <2>1, <2>2, Zenon
<1>6. CASE maybeScaleUpQuery(c)
  <2>1. client[c] = "scale" /\ workerCount' = workerCount /\ worker' = worker
      BY <1>6, Zenon DEF maybeScaleUpQuery, workerSide
  <2>2. CASE Len(queryQueue) >= HighWatermark /\ BelowMaximum
    <3>1. Goto(c, "spawn")
        BY <1>6, <2>2, Zenon DEF maybeScaleUpQuery
    <3>2. At("emplace")' = At("emplace")
        BY <2>1, <3>1, Moves DEF ClientPlaces
    <3>3. Live' = Live
        BY <2>1, Zenon DEF Live
    <3>4. Cardinality(At("spawn")') \in Nat /\ Cardinality(At("spawn")') <= Cardinality(Clients)
        BY SizesNext, Zenon
    <3>5. workerCount' + Cardinality(At("spawn")') <= limit
      <4>1. workerCount \in Nat /\ workerCount' = workerCount /\ workerCount < ThreadsMax
          BY <1>1, <2>1, <2>2, Zenon DEF BelowMaximum
      <4>2. Cardinality(Clients) \in Nat /\ ThreadsMax \in Nat
          BY <1>3, Zenon
      <4> QED BY <3>4, <4>1, <4>2
    <3> QED BY <1>1, <1>4, <2>1, <3>2, <3>3, <3>5, Zenon
  <2>3. CASE ~(Len(queryQueue) >= HighWatermark /\ BelowMaximum)
    <3>1. Goto(c, "capacity")
        BY <1>6, <2>3, Zenon DEF maybeScaleUpQuery
    <3> QED BY <1>5, <2>1, <3>1, Zenon DEF ClientPlaces
  <2> QED BY <2>2, <2>3, Zenon
<1>7. CASE spawnCount(c)
  <2>1. client[c] = "spawn" /\ workerCount' = workerCount + 1 /\ worker' = worker /\ Goto(c, "emplace")
      BY <1>7, Zenon DEF spawnCount
  <2>2. /\ At("spawn")' = At("spawn") \ {c} /\ c \in At("spawn")
        /\ At("emplace")' = At("emplace") \cup {c} /\ c \notin At("emplace")
      BY <2>1, Moves DEF ClientPlaces
  <2>3. Cardinality(At("spawn")') = spawning - 1 /\ Cardinality(At("emplace")') = emplacing + 1
    <3>1. Cardinality(At("spawn") \ {c}) = spawning - 1
        BY <1>3, <2>2, FS_RemoveElement, Zenon
    <3>2. Cardinality(At("emplace") \cup {c}) = emplacing + 1
        BY <1>3, <2>2, FS_AddElement, Zenon
    <3> QED BY <2>2, <3>1, <3>2, Zenon
  <2>4. Live' = Live
      BY <2>1, Zenon DEF Live
  <2>5. /\ workerCount' = Cardinality(Live') + Cardinality(At("emplace")')
        /\ workerCount' + Cardinality(At("spawn")') <= limit
      BY <1>1, <1>3, <2>1, <2>3, <2>4
  <2> QED BY <1>1, <1>4, <2>1, <2>5, Zenon
<1>8. CASE spawnEmplace(c)
  <2> DEFINE w == CHOOSE u \in Workers : u \notin Live \cup joining
  <2>1. /\ client[c] = "emplace" /\ workerCount' = workerCount /\ Goto(c, "capacity")
        /\ worker' = [worker EXCEPT ![w] = [pc |-> "check", query |-> NoQuery]]
        /\ Workers # Live \cup joining
      BY <1>8, Zenon DEF spawnEmplace
  <2>2. w \in Workers /\ w \notin Live
    <3>1. joining \subseteq Workers
        BY Zenon DEF TypeInv, TypeOK
    <3>2. \E u \in Workers : u \notin Live \cup joining
        BY <2>1, <3>1, Zenon DEF Live
    <3> QED BY <3>2, Zenon
  <2> HIDE DEF w
  <2>3. worker' \in W /\ worker'[w].pc = "check" /\ \A u \in Workers : u # w => worker'[u] = worker[u]
      BY <1>1, <2>1, <2>2, Zenon
  <2>4. Live' = Live \cup {w}
      BY <2>2, <2>3, Zenon DEF Live
  <2>5. /\ At("emplace")' = At("emplace") \ {c} /\ c \in At("emplace")
        /\ At("spawn")' = At("spawn")
      BY <2>1, Moves DEF ClientPlaces
  <2>6. Cardinality(Live') = live + 1 /\ Cardinality(At("emplace")') = emplacing - 1
    <3>1. Cardinality(Live \cup {w}) = live + 1
        BY <1>3, <2>2, FS_AddElement, Zenon
    <3>2. Cardinality(At("emplace") \ {c}) = emplacing - 1
        BY <1>3, <2>5, FS_RemoveElement, Zenon
    <3> QED BY <2>4, <2>5, <3>1, <3>2, Zenon
  <2>7. /\ workerCount' = Cardinality(Live') + Cardinality(At("emplace")')
        /\ workerCount' + Cardinality(At("spawn")') <= limit
      BY <1>1, <1>3, <2>1, <2>5, <2>6
  <2> QED BY <1>4, <2>3, <2>7, Zenon
<1>9. CASE checkCapacity(c)
  <2>1. /\ client[c] = "capacity" /\ workerCount' = workerCount /\ worker' = worker
        /\ (Goto(c, "outside") \/ Goto(c, "enqueue"))
      BY <1>9, Zenon DEF checkCapacity, Return, workerSide
  <2> QED BY <1>5, <2>1, Zenon DEF ClientPlaces
<1>10. CASE enqueueQuery(c)
  <2>1. /\ client[c] = "enqueue" /\ workerCount' = workerCount /\ worker' = worker
        /\ (Goto(c, "outside") \/ Goto(c, "write"))
      BY <1>10, Zenon DEF enqueueQuery, Return, workerSide
  <2> QED BY <1>5, <2>1, Zenon DEF ClientPlaces
<1>11. CASE writeQuery(c)
  <2>1. /\ client[c] = "write" /\ workerCount' = workerCount /\ worker' = worker
        /\ (Goto(c, "outside") \/ Goto(c, "waiting"))
      BY <1>11, Zenon DEF writeQuery, Return, workerSide
  <2> QED BY <1>5, <2>1, Zenon DEF ClientPlaces
<1>12. CASE awaitResult(c) \/ awaitTimeout(c)
  <2>1. /\ client[c] = "waiting" /\ workerCount' = workerCount /\ worker' = worker
        /\ Goto(c, "outside")
      BY <1>12, Zenon DEF awaitResult, awaitTimeout, Return, workerSide
  <2> QED BY <1>5, <2>1, Zenon DEF ClientPlaces
<1> QED BY <1>6, <1>7, <1>8, <1>9, <1>10, <1>11, <1>12, Zenon DEF clientStep

\* A step of a worker keeps the account of the workers.
LEMMA WorkerCount ==
    ASSUME TypeInv, CountInv, NEW w \in Workers, workerStep(w)
    PROVE  CountInv' /\ workerCount' \in Nat
<1>1. /\ UNCHANGED <<client, running, stopper, quietStop>>
      /\ \A u \in Workers : u # w => worker'[u] = worker[u]
    BY WorkerTypes, Zenon DEF clientSide
<1>2. /\ At("emplace")' = At("emplace") /\ At("spawn")' = At("spawn")
    BY <1>1, Zenon DEF At
<1>3. ASSUME \/ Live' = Live /\ joining' = joining /\ workerCount' = workerCount
             \/ /\ Live' = Live \ {w} /\ w \in Live /\ joining' = joining \ {w}
                /\ workerCount' = workerCount - 1
      PROVE  CountInv' /\ workerCount' \in Nat
  <2>1. /\ Cardinality(Live) \in Nat /\ Cardinality(At("emplace")) \in Nat
        /\ Cardinality(At("spawn")) \in Nat /\ Cardinality(Clients) \in Nat /\ ThreadsMax \in Nat
        /\ IsFiniteSet(Live)
      BY Sizes, QueryAssumption, Zenon
  <2>2. /\ workerCount = Cardinality(Live) + Cardinality(At("emplace"))
        /\ workerCount + Cardinality(At("spawn")) <= ThreadsMax + Cardinality(Clients) - 1
      BY Zenon DEF CountInv, CountExact, At
  <2>3. \/ Live' = Live /\ workerCount' = workerCount
        \/ Cardinality(Live') = Cardinality(Live) - 1 /\ workerCount' = workerCount - 1
      BY <1>3, <2>1, FS_RemoveElement, Zenon
  <2>4. /\ workerCount' = Cardinality(Live') + Cardinality(At("emplace")')
        /\ workerCount' + Cardinality(At("spawn")') <= ThreadsMax + Cardinality(Clients) - 1
      BY <1>2, <2>1, <2>2, <2>3
  <2>5. workerCount' \in Nat
      BY <2>4, SizesNext
  <2>6. /\ ~running' /\ stopper' = "none" => Live' = {} /\ \A c \in Clients : client'[c] = "outside"
        /\ quietStop' => \A c \in Clients : client'[c] = "outside"
        /\ quietStop' /\ stopper' \in {"joining", "stopped"} => Live' \subseteq joining'
        /\ stopper' = "stopped" => joining' = {}
      BY <1>1, <1>3, Zenon DEF CountInv
  <2> QED BY <2>4, <2>5, <2>6, Zenon DEF CountInv, CountExact, At
<1>4. ASSUME Leave(w), worker[w].pc \in {"check", "shrink"}
      PROVE  CountInv' /\ workerCount' \in Nat
  <2>1. worker'[w].pc = "gone" /\ joining' = joining \ {w} /\ workerCount' = workerCount - 1
      BY <1>4, WorkerGotoFacts, Zenon DEF Leave
  <2>2. Live' = Live \ {w} /\ w \in Live
      BY <1>1, <1>4, <2>1, Zenon DEF Live
  <2> QED BY <1>3, <2>1, <2>2, Zenon
<1>5. ASSUME worker[w].pc \notin {"unborn", "gone"}, worker'[w].pc \notin {"unborn", "gone"},
             joining' = joining, workerCount' = workerCount
      PROVE  CountInv' /\ workerCount' \in Nat
  <2>1. Live' = Live
      BY <1>1, <1>5, Zenon DEF Live
  <2> QED BY <1>3, <1>5, <2>1, Zenon
<1>6. worker \in [Workers -> [pc : {"unborn", "check", "read", "idle", "shrink", "run", "gone"},
                              query : Queries \cup {NoQuery}]]
    BY Zenon DEF TypeInv, TypeOK
<1>7. CASE workerCheck(w)
  <2>1. CASE KeepsLooping
    <3>1. worker[w].pc = "check" /\ WorkerGoto(w, "read") /\ joining' = joining /\ workerCount' = workerCount
        BY <1>7, <2>1, Zenon DEF workerCheck
    <3> QED BY <1>5, <3>1, WorkerGotoFacts, Zenon
  <2>2. CASE ~KeepsLooping
      BY <1>4, <1>7, <2>2, Zenon DEF workerCheck
  <2> QED BY <2>1, <2>2, Zenon
<1>8. CASE workerRead(w)
  <2>1. worker[w].pc = "read" /\ joining' = joining /\ workerCount' = workerCount
      BY <1>8, Zenon DEF workerRead
  <2>2. worker'[w].pc \in {"idle", "run"}
    <3>1. CASE queryQueue = <<>>
        BY <1>8, <3>1, WorkerGotoFacts, Zenon DEF workerRead
    <3>2. CASE queryQueue # <<>>
        BY <1>6, <1>8, <3>2 DEF workerRead
    <3> QED BY <3>1, <3>2, Zenon
  <2> QED BY <1>5, <2>1, <2>2, Zenon
<1>9. CASE workerIdle(w)
  <2>1. worker[w].pc = "idle" /\ joining' = joining /\ workerCount' = workerCount
      BY <1>9, Zenon DEF workerIdle
  <2>2. worker'[w].pc \in {"check", "shrink"}
      BY <1>9, WorkerGotoFacts, Zenon DEF workerIdle
  <2> QED BY <1>5, <2>1, <2>2, Zenon
<1>10. CASE workerShrink(w)
    BY <1>4, <1>10, Zenon DEF workerShrink
<1>11. CASE workerRun(w)
  <2>1. /\ worker[w].pc = "run" /\ joining' = joining /\ workerCount' = workerCount
        /\ worker'[w].pc = "check"
      BY <1>6, <1>11, Zenon DEF workerRun
  <2> QED BY <1>5, <2>1, Zenon
<1> QED BY <1>7, <1>8, <1>9, <1>10, <1>11, Zenon DEF workerStep

\* start() makes query_threads_min threads.
LEMMA StartStep ==
    ASSUME TypeInv, CountInv, start
    PROVE  TypeInv' /\ CountInv'
<1> DEFINE born == CHOOSE B \in SUBSET Workers : Cardinality(B) = initialQueryThreads
<1>1. /\ ~running /\ stopper = "none" /\ workerCount' = initialQueryThreads
      /\ worker' = [w \in Workers |-> IF w \in born THEN [worker[w] EXCEPT !.pc = "check"] ELSE worker[w]]
      /\ UNCHANGED <<stopper, queryQueue, joining, client, calls, promise, answer, quietStop>>
    BY Zenon DEF start
<1>2. running' \in BOOLEAN /\ running'
    BY Zenon DEF start
<1>3. initialQueryThreads = ThreadsMin /\ ThreadsMin \in Nat /\ ThreadsMin <= ThreadsMax /\ ThreadsMax \in Nat
    BY QueryAssumption DEF initialQueryThreads
<1>4. born \subseteq Workers /\ Cardinality(born) = ThreadsMin
    BY <1>3, QueryAssumption, Zenon
<1> HIDE DEF born
<1>5. worker \in [Workers -> [pc : {"unborn", "check", "read", "idle", "shrink", "run", "gone"},
                              query : Queries \cup {NoQuery}]]
    BY Zenon DEF TypeInv, TypeOK
<1>6. /\ worker' \in [Workers -> [pc : {"unborn", "check", "read", "idle", "shrink", "run", "gone"},
                                  query : Queries \cup {NoQuery}]]
      /\ \A w \in born : worker'[w].pc = "check"
      /\ \A w \in Workers \ born : worker'[w] = worker[w]
    BY <1>1, <1>4, <1>5, Zenon
<1>7. Live = {} /\ \A c \in Clients : client[c] = "outside"
    BY <1>1, Zenon DEF CountInv
<1>8. Live' = born
    BY <1>4, <1>6, <1>7, Zenon DEF Live
<1>9. At("emplace")' = {} /\ At("spawn")' = {}
    BY <1>1, <1>7, Zenon DEF At
<1>10. TypeInv'
    BY <1>1, <1>2, <1>3, <1>6, Zenon DEF TypeInv, TypeOK
<1>11. /\ workerCount' = Cardinality(Live') + Cardinality(At("emplace")')
       /\ workerCount' + Cardinality(At("spawn")') <= ThreadsMax + Cardinality(Clients) - 1
  <2>1. Cardinality({}) = 0 /\ Cardinality(Clients) \in Nat /\ Cardinality(Clients) >= 1
      BY FS_EmptySet, Sizes, Zenon
  <2>2. /\ Cardinality(Live') = ThreadsMin /\ Cardinality(At("emplace")') = 0
        /\ Cardinality(At("spawn")') = 0
      BY <1>4, <1>8, <1>9, <2>1, Zenon
  <2> QED BY <1>1, <1>3, <2>1, <2>2
<1>12. /\ (quietStop' => \A c \in Clients : client'[c] = "outside")
       /\ stopper' = "none" /\ ~(~running' /\ stopper' = "none")
    BY <1>1, <1>2, <1>7, Zenon
<1> QED BY <1>10, <1>11, <1>12, Zenon DEF CountInv, CountExact, At

\* The entry to submitQueryTask keeps the account of the workers.
LEMMA SubmitStep ==
    ASSUME TypeInv, CountInv, NEW c \in Clients, submitQueryTask(c)
    PROVE  TypeInv' /\ CountInv'
<1>1. /\ client[c] = "outside" /\ calls[c] < MaxQueries[c] /\ (running \/ stopper # "none")
      /\ calls' = [calls EXCEPT ![c] = @ + 1]
      /\ UNCHANGED <<queryQueue, answer, running, stopper, workerCount, joining, worker, promise>>
      /\ \E there \in {"scale", "enqueue"} : Goto(c, there)
    BY Zenon DEF submitQueryTask, workerSide
<1>2. quietStop' \in BOOLEAN /\ ~quietStop'
    BY Zenon DEF submitQueryTask
<1>3. PICK there \in {"scale", "enqueue"} : Goto(c, there)
    BY <1>1, Zenon
<1>4. /\ client' \in [Clients -> ClientPlaces] /\ client'[c] = there
      /\ \A d \in Clients : d # c => client'[d] = client[d]
    BY <1>3, GotoFacts, Zenon DEF ClientPlaces
<1>5. /\ calls' \in [Clients -> Nat] /\ calls'[c] = calls[c] + 1 /\ calls[c] \in Nat
      /\ \A d \in Clients : d # c => calls'[d] = calls[d]
    BY <1>1 DEF TypeInv
<1>6. /\ \A d \in Clients : calls'[d] \in 0 .. MaxQueries[d]
      /\ \A d \in Clients : client'[d] # "outside" => calls'[d] >= 1
    BY <1>1, <1>4, <1>5, QueryAssumption DEF TypeInv, TypeOK
<1>7. TypeInv'
    BY <1>1, <1>2, <1>4, <1>5, <1>6, Zenon DEF TypeInv, TypeOK, ClientPlaces
<1>8. At("emplace")' = At("emplace") /\ At("spawn")' = At("spawn")
    BY <1>1, <1>4, Zenon DEF At
<1>9. Live' = Live
    BY <1>1, Zenon DEF Live
<1>10. /\ workerCount' = Cardinality(Live') + Cardinality(At("emplace")')
       /\ workerCount' + Cardinality(At("spawn")') <= ThreadsMax + Cardinality(Clients) - 1
    BY <1>1, <1>8, <1>9, Zenon DEF CountInv, CountExact, At
<1>11. ~(~running' /\ stopper' = "none") /\ (stopper' = "stopped" => joining' = {})
    BY <1>1, Zenon DEF CountInv
<1> QED BY <1>2, <1>7, <1>10, <1>11, Zenon DEF CountInv, CountExact, At

\* The steps of stop() keep the account of the workers.
LEMMA StopStep ==
    ASSUME TypeInv, CountInv, stopBegin \/ stopSwap \/ stopReturn \/ UNCHANGED vars
    PROVE  TypeInv' /\ CountInv'
<1>1. UNCHANGED <<queryQueue, workerCount, worker, client, calls, promise, answer>>
    BY Zenon DEF stopBegin, stopSwap, stopReturn, vars
<1>2. Live' = Live /\ At("emplace")' = At("emplace") /\ At("spawn")' = At("spawn")
    BY <1>1, Zenon DEF Live, At
<1>3. /\ workerCount' = Cardinality(Live') + Cardinality(At("emplace")')
      /\ workerCount' + Cardinality(At("spawn")') <= ThreadsMax + Cardinality(Clients) - 1
    BY <1>1, <1>2, Zenon DEF CountInv, CountExact, At
<1>4. ASSUME stopper' \in {"none", "ingest", "joining", "stopped"}, joining' \subseteq Workers,
             running' \in BOOLEAN, quietStop' \in BOOLEAN
      PROVE  TypeInv'
    BY <1>1, <1>4, Zenon DEF TypeInv, TypeOK
<1>5. running \in BOOLEAN /\ quietStop \in BOOLEAN /\ joining \subseteq Workers
      /\ stopper \in {"none", "ingest", "joining", "stopped"}
    BY Zenon DEF TypeInv, TypeOK
<1>6. CASE stopBegin
  <2>1. stopper' = "ingest" /\ joining' = joining
      BY <1>6, Zenon DEF stopBegin
  <2>2. running' \in BOOLEAN /\ quietStop' \in BOOLEAN
        /\ (quietStop' => \A c \in Clients : client'[c] = "outside")
      BY <1>1, <1>6, Zenon DEF stopBegin
  <2> QED BY <1>3, <1>4, <1>5, <2>1, <2>2, Zenon DEF CountInv, CountExact, At
<1>7. CASE stopSwap
  <2>1. /\ stopper' = "joining" /\ joining' = Live /\ running' = running /\ quietStop' = quietStop
      BY <1>7, Zenon DEF stopSwap, ThreadsToJoin
  <2>2. Live \subseteq Workers
      BY Zenon DEF Live
  <2>3. quietStop' => \A c \in Clients : client'[c] = "outside"
      BY <1>1, <2>1, Zenon DEF CountInv
  <2> QED BY <1>2, <1>3, <1>4, <1>5, <2>1, <2>2, <2>3, Zenon DEF CountInv, CountExact, At
<1>8. CASE stopReturn
  <2>1. /\ stopper = "joining" /\ stopper' = "stopped" /\ joining = {} /\ joining' = joining
        /\ running' = running /\ quietStop' = quietStop
      BY <1>8, Zenon DEF stopReturn
  <2>2. /\ quietStop' => \A c \in Clients : client'[c] = "outside"
        /\ quietStop' => Live' \subseteq joining'
      BY <1>1, <1>2, <2>1, Zenon DEF CountInv
  <2> QED BY <1>3, <1>4, <1>5, <2>1, <2>2, Zenon DEF CountInv, CountExact, At
<1>9. CASE UNCHANGED vars
  <2>1. UNCHANGED <<running, stopper, joining, quietStop>>
      BY <1>9, Zenon DEF vars
  <2> QED BY <1>1, <1>2, <1>3, <1>4, <1>5, <2>1, Zenon DEF CountInv, CountExact, At
<1> QED BY <1>6, <1>7, <1>8, <1>9, Zenon

\* The account of the workers holds before the first call.
LEMMA CountInit == Init => TypeInv /\ CountInv
<1> SUFFICES ASSUME Init PROVE TypeInv /\ CountInv
    BY Zenon
<1>1. Live = {} /\ At("emplace") = {} /\ At("spawn") = {}
    BY Zenon DEF Init, Live, At
<1>2. CountInv
  <2>1. Cardinality({}) = 0 /\ Cardinality(Clients) \in Nat /\ Cardinality(Clients) >= 1
        /\ ThreadsMax \in Nat
      BY FS_EmptySet, Sizes, QueryAssumption, Zenon
  <2>2. /\ workerCount = 0 /\ stopper = "none" /\ \A c \in Clients : client[c] = "outside"
      BY Zenon DEF Init
  <2>3. Cardinality(Live) = 0 /\ Cardinality(At("emplace")) = 0 /\ Cardinality(At("spawn")) = 0
      BY <1>1, <2>1, Zenon
  <2>4. workerCount = Cardinality(Live) + Cardinality(At("emplace"))
      BY <2>2, <2>3
  <2>5. workerCount + Cardinality(At("spawn")) <= ThreadsMax + Cardinality(Clients) - 1
      BY <2>1, <2>2, <2>3
  <2> QED BY <1>1, <2>2, <2>4, <2>5, Zenon DEF CountInv, CountExact, At
<1>3. queryQueue \in Seq(Queries) /\ Len(queryQueue) <= Capacity
    BY QueryAssumption DEF Init
<1>4. TypeInv
  <2>1. worker \in [Workers -> [pc : {"unborn", "check", "read", "idle", "shrink", "run", "gone"},
                                query : Queries \cup {NoQuery}]]
      BY Zenon DEF Init
  <2>2. running \in BOOLEAN /\ quietStop \in BOOLEAN
      BY Zenon DEF Init
  <2>3. /\ client \in [Clients -> ClientPlaces] /\ \A c \in Clients : client[c] = "outside"
        /\ calls \in [Clients -> Nat] /\ \A c \in Clients : calls[c] \in 0 .. MaxQueries[c]
      BY QueryAssumption DEF Init, ClientPlaces
  <2>4. /\ promise \in [Queries -> {"none", "OK", "INTERNAL"}]
        /\ answer \in [Queries -> {"none", "OK", "INTERNAL", "RESOURCE_EXHAUSTED", "DEADLINE_EXCEEDED"}]
      BY Zenon DEF Init
  <2>5. stopper = "none" /\ joining = {} /\ workerCount = 0
      BY Zenon DEF Init
  <2> QED BY <1>3, <2>1, <2>2, <2>3, <2>4, <2>5, Zenon DEF TypeInv, TypeOK, ClientPlaces
<1> QED BY <1>2, <1>4, Zenon

\* Every step keeps the account of the workers.
LEMMA CountStep == TypeInv /\ CountInv /\ [Next]_vars => TypeInv' /\ CountInv'
<1> SUFFICES ASSUME TypeInv, CountInv, [Next]_vars PROVE TypeInv' /\ CountInv'
    BY Zenon
<1>1. ASSUME NEW c \in Clients, clientStep(c) PROVE TypeInv' /\ CountInv'
  <2>1. PICK there \in ClientPlaces : Goto(c, there)
      BY <1>1, ClientTypes, Zenon
  <2>2. /\ client' \in [Clients -> ClientPlaces] /\ client[c] # "outside"
        /\ \A d \in Clients : d # c => client'[d] = client[d]
      BY <1>1, <2>1, ClientTypes, GotoFacts, Zenon
  <2>3. /\ CountInv' /\ workerCount' \in Nat
        /\ worker' \in [Workers -> [pc : {"unborn", "check", "read", "idle", "shrink", "run", "gone"},
                                    query : Queries \cup {NoQuery}]]
      BY <1>1, ClientCount, Zenon
  <2>4. \A d \in Clients : client'[d] # "outside" => calls[d] >= 1
      BY <2>2, Zenon DEF TypeInv
  <2> QED BY <1>1, <2>2, <2>3, <2>4, ClientTypes, Zenon DEF TypeInv, TypeOK, ClientPlaces
<1>2. ASSUME NEW w \in Workers, workerStep(w) PROVE TypeInv' /\ CountInv'
  <2>1. CountInv' /\ workerCount' \in Nat
      BY <1>2, WorkerCount, Zenon
  <2>2. UNCHANGED <<client, calls, answer, quietStop, running, stopper>>
      BY <1>2, WorkerTypes, Zenon DEF clientSide
  <2> QED BY <1>2, <2>1, <2>2, WorkerTypes, Zenon DEF TypeInv, TypeOK
<1> QED BY <1>1, <1>2, StartStep, SubmitStep, StopStep, Zenon DEF Next

\* The inductive invariant of the thread count.
THEOREM CountInvHolds == Spec => [](TypeInv /\ CountInv)
    BY CountInit, CountStep, PTL DEF Spec

\* The state keeps its types and the queue its capacity, however many callers
\* write at once.
THEOREM TypesHold == Spec => []TypeOK
<1>1. TypeInv => TypeOK
    BY Zenon DEF TypeInv
<1> QED BY <1>1, CountInvHolds, PTL

\* queryWorkerCount_ counts every thread in once and out once, although its
\* readers and writers are not synchronised.
THEOREM CountHolds == Spec => []CountExact
<1>1. CountInv => CountExact
    BY Zenon DEF CountInv
<1> QED BY <1>1, CountInvHolds, PTL

\* The number of threads passes query_threads_max by fewer than there are callers.
THEOREM OvershootHolds == Spec => []OvershootBounded
<1>1. TypeInv /\ CountInv => OvershootBounded
  <2> SUFFICES ASSUME TypeInv, CountInv PROVE OvershootBounded
      BY Zenon
  <2>1. workerCount \in Nat /\ workerCount + Cardinality(At("spawn")) <= ThreadsMax + Cardinality(Clients) - 1
      BY Zenon DEF TypeInv, TypeOK, CountInv
  <2>2. workerCount <= ThreadsMax + Cardinality(Clients) - 1
      BY <2>1, Sizes, QueryAssumption
  <2> QED BY <2>2, Zenon DEF OvershootBounded, CountInv
<1> QED BY <1>1, CountInvHolds, PTL

\* stop() without callers inside has joined every thread when it returns.
THEOREM CleanStopHolds == Spec => []QuietStopIsClean
<1>1. CountInv => QuietStopIsClean
    BY Zenon DEF CountInv, QuietStopIsClean
<1> QED BY <1>1, CountInvHolds, PTL

-----------------------------------------------------------------------------
(* The place of every query.                                               *)

InQueue(q) == \E i \in DOMAIN queryQueue : queryQueue[i] = q

Running(q) == \E w \in Workers : worker[w].pc = "run" /\ worker[w].query = q

Untouched(q) == ~InQueue(q) /\ ~Running(q) /\ promise[q] = "none"

\* No query is in two places.
PlaceInv ==
    /\ \A i, j \in DOMAIN queryQueue : queryQueue[i] = queryQueue[j] => i = j
    /\ \A w \in Workers : worker[w].pc = "run" =>
          worker[w].query \in Queries /\ ~InQueue(worker[w].query)
    /\ \A w, u \in Workers :
          worker[w].pc = "run" /\ worker[u].pc = "run" /\ worker[w].query = worker[u].query => w = u
    /\ \A q \in Queries : InQueue(q) \/ Running(q) => promise[q] = "none"

\* The n-th query of c has not been written yet.
NotYet(c, n) == n > calls[c] \/ (n = calls[c] /\ client[c] \notin {"outside", "waiting"})

\* A query is untouched until it is written, ...
FreshInv ==
    \A c \in Clients : \A n \in 1 .. MaxQueries[c] :
       NotYet(c, n) => Untouched(<<c, n>>) /\ answer[<<c, n>>] = "none"

\* ... is somewhere while its caller waits, ...
WaitInv == \A c \in Clients : client[c] = "waiting" => ~Untouched(<<c, calls[c]>>)

\* ... and has been answered with what happened.
AnswerInv ==
    \A q \in Queries :
       /\ answer[q] \in {"OK", "INTERNAL"} => promise[q] = answer[q]
       /\ answer[q] = "RESOURCE_EXHAUSTED" => Untouched(q)

CallInv == FreshInv /\ WaitInv /\ AnswerInv

\* A query is a caller and the number of its call.
LEMMA QueryFacts ==
    /\ \A c \in Clients : \A n \in 1 .. MaxQueries[c] : <<c, n>> \in Queries
    /\ \A q \in Queries : \E c \in Clients : \E n \in 1 .. MaxQueries[c] : q = <<c, n>>
    BY DEF Queries

\* A step that writes, reads and runs nothing leaves every query in its place.
LEMMA PlacesSame ==
    ASSUME PlaceInv, queryQueue' = queryQueue, promise' = promise,
           \A w \in Workers : /\ worker'[w].pc = "run" <=> worker[w].pc = "run"
                              /\ worker[w].pc = "run" => worker'[w] = worker[w]
    PROVE  PlaceInv' /\ \A q : Untouched(q)' <=> Untouched(q)
<1>1. \A q : InQueue(q)' <=> InQueue(q)
    BY Zenon DEF InQueue
<1>2. \A q : Running(q)' <=> Running(q)
    BY Zenon DEF Running
<1>3. \A q : Untouched(q)' <=> Untouched(q)
    BY <1>1, <1>2, Zenon DEF Untouched
<1>4. \A i, j \in DOMAIN queryQueue' : queryQueue'[i] = queryQueue'[j] => i = j
    BY Zenon DEF PlaceInv
<1>5. \A w \in Workers : worker'[w].pc = "run" =>
         worker'[w].query \in Queries /\ ~InQueue(worker[w].query) /\ worker'[w].query = worker[w].query
    BY Zenon DEF PlaceInv
<1>6. \A w \in Workers : worker'[w].pc = "run" => ~InQueue(worker[w].query)'
    BY <1>5, Zenon DEF InQueue
<1>7. \A w, u \in Workers :
         worker'[w].pc = "run" /\ worker'[u].pc = "run" /\ worker'[w].query = worker'[u].query => w = u
    BY DEF PlaceInv
<1>8. \A q \in Queries : InQueue(q)' \/ Running(q)' => promise'[q] = "none"
    BY <1>1, <1>2, Zenon DEF PlaceInv
<1> QED BY <1>3, <1>4, <1>5, <1>6, <1>7, <1>8, Zenon DEF PlaceInv, InQueue

\* A caller that is not yet at write() goes on.
LEMMA CallMoves ==
    ASSUME TypeInv, CallInv, \A q : Untouched(q)' <=> Untouched(q),
           promise' = promise, calls' = calls, answer' = answer,
           NEW c \in Clients, NEW there \in ClientPlaces \ {"outside", "waiting"},
           Goto(c, there), client[c] \notin {"outside", "waiting"}
    PROVE  CallInv'
<1>1. client'[c] = there /\ \A d \in Clients : d # c => client'[d] = client[d]
    BY GotoFacts, Zenon
<1>2. \A d \in Clients : \A n \in 1 .. MaxQueries[d] : NotYet(d, n)' <=> NotYet(d, n)
    BY <1>1, Zenon DEF NotYet
<1>3. \A d \in Clients : client'[d] = "waiting" => client[d] = "waiting"
    BY <1>1, Zenon
<1>4. FreshInv'
    BY <1>2, Zenon DEF CallInv, FreshInv
<1>5. WaitInv'
    BY <1>3, Zenon DEF CallInv, WaitInv
<1>6. AnswerInv'
    BY Zenon DEF CallInv, AnswerInv
<1> QED BY <1>4, <1>5, <1>6, Zenon DEF CallInv

\* A call returns with a status that is true.
LEMMA CallReturns ==
    ASSUME TypeInv, CallInv, \A q : Untouched(q)' <=> Untouched(q),
           promise' = promise, calls' = calls,
           NEW c \in Clients, client[c] # "outside",
           NEW status, Return(c, status),
           status \in {"OK", "INTERNAL"} => promise[Current(c)] = status,
           status = "RESOURCE_EXHAUSTED" => Untouched(Current(c))
    PROVE  CallInv'
<1>1. client'[c] = "outside" /\ \A d \in Clients : d # c => client'[d] = client[d]
    BY GotoFacts, Zenon DEF Return, ClientPlaces
<1>2. answer \in [Queries -> {"none", "OK", "INTERNAL", "RESOURCE_EXHAUSTED", "DEADLINE_EXCEEDED"}]
      /\ calls \in [Clients -> Nat] /\ Current(c) \in Queries
    BY CurrentFacts, Zenon DEF TypeInv, TypeOK
<1>3. \A q \in Queries : answer'[q] = IF q = Current(c) THEN status ELSE answer[q]
    BY <1>2, Zenon DEF Return
<1>4. ASSUME NEW d \in Clients, NEW n \in 1 .. MaxQueries[d], NotYet(d, n)'
      PROVE  Untouched(<<d, n>>)' /\ answer'[<<d, n>>] = "none"
  <2>1. NotYet(d, n) /\ <<d, n>> # Current(c)
      BY <1>1, <1>2, <1>4 DEF NotYet, Current
  <2> QED BY <1>3, <2>1, QueryFacts, Zenon DEF CallInv, FreshInv
<1>5. WaitInv'
    BY <1>1, Zenon DEF CallInv, WaitInv
<1>6. AnswerInv'
    BY <1>3, Zenon DEF CallInv, AnswerInv
<1>7. FreshInv'
    BY <1>4, Zenon DEF FreshInv
<1> QED BY <1>5, <1>6, <1>7, Zenon DEF CallInv

\* A step of a worker, or of the thread in stop(), that may move a query on, but
\* neither touches a fresh one nor drops one.
LEMMA CallKept ==
    ASSUME TypeInv, CallInv, calls' = calls, client' = client, answer' = answer,
           \A q \in Queries : Untouched(q)' <=> Untouched(q),
           \A q \in Queries : answer[q] \in {"OK", "INTERNAL"} => promise'[q] = promise[q]
    PROVE  CallInv'
<1>1. \A d \in Clients : \A n \in 1 .. MaxQueries[d] : NotYet(d, n)' <=> NotYet(d, n)
    BY Zenon DEF NotYet
<1>2. FreshInv'
    BY <1>1, QueryFacts, Zenon DEF CallInv, FreshInv
<1>3. WaitInv'
  <2>1. \A d \in Clients : client[d] = "waiting" => <<d, calls[d]>> \in Queries
      BY CurrentFacts, Zenon DEF Current
  <2> QED BY <2>1, Zenon DEF CallInv, WaitInv
<1>4. AnswerInv'
    BY Zenon DEF CallInv, AnswerInv
<1> QED BY <1>2, <1>3, <1>4, Zenon DEF CallInv

\* A new call: its query has been untouched so far.
LEMMA SubmitOnce ==
    ASSUME TypeInv, PlaceInv, CallInv, NEW c \in Clients, submitQueryTask(c)
    PROVE  PlaceInv' /\ CallInv'
<1>1. /\ client[c] = "outside" /\ calls' = [calls EXCEPT ![c] = @ + 1]
      /\ queryQueue' = queryQueue /\ answer' = answer /\ worker' = worker /\ promise' = promise
      /\ \E there \in {"scale", "enqueue"} : Goto(c, there)
    BY Zenon DEF submitQueryTask, workerSide
<1>2. PlaceInv' /\ \A q : Untouched(q)' <=> Untouched(q)
    BY <1>1, PlacesSame, Zenon
<1>3. client'[c] \in {"scale", "enqueue"} /\ \A d \in Clients : d # c => client'[d] = client[d]
    BY <1>1, GotoFacts, Zenon DEF ClientPlaces
<1>4. calls \in [Clients -> Nat] /\ \A d \in Clients : calls'[d] = IF d = c THEN calls[c] + 1 ELSE calls[d]
    BY <1>1, Zenon DEF TypeInv
<1>5. ASSUME NEW d \in Clients, NEW n \in 1 .. MaxQueries[d], NotYet(d, n)'
      PROVE  Untouched(<<d, n>>)' /\ answer'[<<d, n>>] = "none"
  <2>1. NotYet(d, n)
      BY <1>1, <1>3, <1>4, <1>5, QueryAssumption DEF NotYet
  <2> QED BY <1>1, <1>2, <2>1, Zenon DEF CallInv, FreshInv
<1>6. WaitInv'
    BY <1>2, <1>3, <1>4, Zenon DEF CallInv, WaitInv
<1>7. AnswerInv'
    BY <1>1, <1>2, Zenon DEF CallInv, AnswerInv
<1>8. FreshInv'
    BY <1>5, Zenon DEF FreshInv
<1> QED BY <1>2, <1>6, <1>7, <1>8, Zenon DEF CallInv

\* write() puts a query that was nowhere at the end of the queue.
LEMMA WriteOnce ==
    ASSUME TypeInv, PlaceInv, CallInv, NEW c \in Clients,
           client[c] = "write", queryQueue' = Append(queryQueue, Current(c)), Goto(c, "waiting"),
           UNCHANGED <<answer, calls, worker, promise>>
    PROVE  PlaceInv' /\ CallInv'
<1> DEFINE new == Current(c)
<1>1. client'[c] = "waiting" /\ \A d \in Clients : d # c => client'[d] = client[d]
    BY GotoFacts, Zenon DEF ClientPlaces
<1>2. /\ queryQueue \in Seq(Queries) /\ calls \in [Clients -> Nat] /\ new \in Queries
      /\ calls[c] \in 1 .. MaxQueries[c]
    BY CurrentFacts, QueryAssumption DEF TypeInv, TypeOK
<1>3. Untouched(new) /\ answer[new] = "none"
  <2>1. NotYet(c, calls[c])
      BY Zenon DEF NotYet
  <2> QED BY <1>2, <2>1, Zenon DEF CallInv, FreshInv, Current
<1>4. /\ Len(queryQueue) \in Nat /\ DOMAIN queryQueue = 1 .. Len(queryQueue)
      /\ DOMAIN queryQueue' = 1 .. Len(queryQueue) + 1
      /\ \A i \in DOMAIN queryQueue : queryQueue'[i] = queryQueue[i]
      /\ queryQueue'[Len(queryQueue) + 1] = new
    BY <1>2
<1>5. \A q : InQueue(q)' <=> InQueue(q) \/ q = new
    BY <1>4 DEF InQueue
<1>6. \A q : Running(q)' <=> Running(q)
    BY Zenon DEF Running
<1>7. \A q : Untouched(q)' <=> Untouched(q) /\ q # new
    BY <1>5, <1>6, Zenon DEF Untouched
<1>8. \A i, j \in DOMAIN queryQueue' : queryQueue'[i] = queryQueue'[j] => i = j
  <2>1. \A i \in DOMAIN queryQueue : queryQueue[i] # new
      BY <1>3, Zenon DEF Untouched, InQueue
  <2>2. \A i, j \in DOMAIN queryQueue : queryQueue[i] = queryQueue[j] => i = j
      BY Zenon DEF PlaceInv
  <2> QED BY <1>4, <2>1, <2>2
<1>9. \A w \in Workers : worker'[w].pc = "run" =>
         worker'[w].query \in Queries /\ ~InQueue(worker[w].query)' /\ worker'[w].query = worker[w].query
  <2>1. \A w \in Workers : worker[w].pc = "run" =>
           worker[w].query \in Queries /\ ~InQueue(worker[w].query) /\ worker[w].query # new
      BY <1>3, Zenon DEF PlaceInv, Untouched, Running
  <2>2. \A w \in Workers : worker[w].pc = "run" => ~InQueue(worker[w].query)'
    <3> SUFFICES ASSUME NEW w \in Workers, worker[w].pc = "run",
                        NEW i \in DOMAIN queryQueue', queryQueue'[i] = worker'[w].query
                 PROVE  FALSE
        BY Zenon DEF InQueue
    <3>1. ~InQueue(worker[w].query) /\ worker[w].query # new /\ worker'[w].query = worker[w].query
        BY <2>1, Zenon
    <3>2. i \in DOMAIN queryQueue \/ i = Len(queryQueue) + 1
        BY <1>4
    <3>3. i \notin DOMAIN queryQueue
        BY <1>4, <3>1, Zenon DEF InQueue
    <3> QED BY <1>4, <3>1, <3>2, <3>3, Zenon
  <2> QED BY <2>1, <2>2, Zenon
<1>10. \A w, u \in Workers :
         worker'[w].pc = "run" /\ worker'[u].pc = "run" /\ worker'[w].query = worker'[u].query => w = u
    BY Zenon DEF PlaceInv
<1>11. \A q \in Queries : InQueue(q)' \/ Running(q)' => promise'[q] = "none"
    BY <1>3, <1>5, <1>6, Zenon DEF PlaceInv, Untouched
<1>12. PlaceInv'
    BY <1>8, <1>9, <1>10, <1>11, Zenon DEF PlaceInv, InQueue
<1>13. FreshInv'
  <2>1. \A d \in Clients : \A n \in 1 .. MaxQueries[d] :
           NotYet(d, n)' => NotYet(d, n) /\ <<d, n>> # new
    <3> SUFFICES ASSUME NEW d \in Clients, NEW n \in 1 .. MaxQueries[d], NotYet(d, n)'
                 PROVE  NotYet(d, n) /\ <<d, n>> # new
        BY Zenon
    <3>1. CASE d = c
      <4>1. n > calls[c]
          BY <1>1, <3>1, Zenon DEF NotYet
      <4> QED BY <1>2, <3>1, <4>1 DEF NotYet, Current
    <3>2. CASE d # c
        BY <1>1, <3>2, Zenon DEF NotYet, Current
    <3> QED BY <3>1, <3>2, Zenon
  <2> QED BY <1>7, <2>1, Zenon DEF CallInv, FreshInv
<1>14. WaitInv'
  <2>1. \A d \in Clients : client'[d] = "waiting" => d = c \/ ~Untouched(<<d, calls'[d]>>)
      BY <1>1, Zenon DEF CallInv, WaitInv
  <2> QED BY <1>7, <2>1, Zenon DEF WaitInv, Current
<1>15. AnswerInv'
    BY <1>3, <1>7, Zenon DEF CallInv, AnswerInv
<1> QED BY <1>12, <1>13, <1>14, <1>15, Zenon DEF CallInv

\* read() takes the oldest query from the queue.
LEMMA ReadOnce ==
    ASSUME TypeInv, PlaceInv, CallInv, NEW w \in Workers, queryQueue # <<>>,
           worker[w].pc = "read",
           worker' = [worker EXCEPT ![w] = [pc |-> "run", query |-> Head(queryQueue)]],
           queryQueue' = Tail(queryQueue), UNCHANGED <<client, calls, answer, promise>>
    PROVE  PlaceInv' /\ CallInv'
<1> DEFINE old == Head(queryQueue)
<1>1. queryQueue \in Seq(Queries) /\ old \in Queries
    BY DEF TypeInv, TypeOK
<1>2. /\ Len(queryQueue) \in Nat /\ Len(queryQueue) >= 1 /\ DOMAIN queryQueue = 1 .. Len(queryQueue)
      /\ DOMAIN queryQueue' = 1 .. Len(queryQueue) - 1
      /\ \A i \in DOMAIN queryQueue' : queryQueue'[i] = queryQueue[i + 1]
      /\ queryQueue[1] = old
    BY <1>1
<1>3. \A i, j \in DOMAIN queryQueue : queryQueue[i] = queryQueue[j] => i = j
    BY Zenon DEF PlaceInv
<1>4. /\ worker'[w].pc = "run" /\ worker'[w].query = old
      /\ \A u \in Workers : u # w => worker'[u] = worker[u]
    BY Zenon DEF TypeInv, TypeOK
<1>5. \A q : InQueue(q)' <=> InQueue(q) /\ q # old
  <2>1. ASSUME NEW CONSTANT q, NEW i \in DOMAIN queryQueue, queryQueue[i] = q, q # old
        PROVE  i - 1 \in DOMAIN queryQueue' /\ queryQueue'[i - 1] = q
      BY <1>2, <2>1
  <2>2. ASSUME NEW CONSTANT q, NEW i \in DOMAIN queryQueue', queryQueue'[i] = q
        PROVE  i + 1 \in DOMAIN queryQueue /\ queryQueue[i + 1] = q /\ q # old
      BY <1>2, <1>3, <2>2
  <2> QED BY <2>1, <2>2, Zenon DEF InQueue
<1>6. InQueue(old) /\ ~Running(old) /\ promise[old] = "none"
  <2>1. InQueue(old)
      BY <1>2 DEF InQueue
  <2>2. ~Running(old)
      BY <2>1, Zenon DEF PlaceInv, Running
  <2> QED BY <1>1, <2>1, <2>2, Zenon DEF PlaceInv
<1>7. \A q : Running(q)' <=> Running(q) \/ q = old
    BY <1>4, Zenon DEF Running
<1>8. \A q : Untouched(q)' <=> Untouched(q)
    BY <1>5, <1>6, <1>7, Zenon DEF Untouched
<1>9. \A i, j \in DOMAIN queryQueue' : queryQueue'[i] = queryQueue'[j] => i = j
    BY <1>2, <1>3
<1>10. \A u \in Workers : worker'[u].pc = "run" =>
          worker'[u].query \in Queries
          /\ ~\E i \in DOMAIN queryQueue' : queryQueue'[i] = worker'[u].query
  <2>1. ~\E i \in DOMAIN queryQueue' : queryQueue'[i] = old
      BY <1>2, <1>3
  <2>2. ASSUME NEW u \in Workers, u # w, worker'[u].pc = "run"
        PROVE  worker'[u].query \in Queries
               /\ ~\E i \in DOMAIN queryQueue' : queryQueue'[i] = worker'[u].query
    <3>1. worker[u].query \in Queries
          /\ ~\E i \in DOMAIN queryQueue : queryQueue[i] = worker[u].query
        BY <1>4, <2>2, Zenon DEF PlaceInv, InQueue
    <3> QED BY <1>2, <1>4, <2>2, <3>1
  <2> QED BY <1>1, <1>4, <2>1, <2>2, Zenon
<1>11. \A u, v \in Workers :
         worker'[u].pc = "run" /\ worker'[v].pc = "run" /\ worker'[u].query = worker'[v].query => u = v
    BY <1>4, <1>6 DEF PlaceInv, Running
<1>12. \A q \in Queries : InQueue(q)' \/ Running(q)' => promise'[q] = "none"
    BY <1>5, <1>6, <1>7, Zenon DEF PlaceInv
<1>13. PlaceInv'
    BY <1>9, <1>10, <1>11, <1>12, Zenon DEF PlaceInv, InQueue
<1>14. CallInv'
    BY <1>8, CallKept, Zenon
<1> QED BY <1>13, <1>14, Zenon

\* A task ends: the promise it sets was not set.
LEMMA RunOnce ==
    ASSUME TypeInv, PlaceInv, CallInv, NEW w \in Workers, workerRun(w)
    PROVE  PlaceInv' /\ CallInv'
<1> DEFINE done == worker[w].query
<1>1. PICK status \in {"OK", "INTERNAL"} : promise' = [promise EXCEPT ![done] = status]
    BY Zenon DEF workerRun
<1>2. /\ worker[w].pc = "run" /\ worker' = [worker EXCEPT ![w] = [pc |-> "check", query |-> NoQuery]]
      /\ queryQueue' = queryQueue /\ UNCHANGED clientSide
    BY Zenon DEF workerRun
<1>3. /\ done \in Queries /\ ~InQueue(done) /\ Running(done) /\ promise[done] = "none"
    BY <1>2, Zenon DEF PlaceInv, Running
<1>4. \A q \in Queries : promise'[q] = IF q = done THEN status ELSE promise[q]
    BY <1>1, <1>3, Zenon DEF TypeInv, TypeOK
<1>5. worker'[w].pc = "check" /\ \A u \in Workers : u # w => worker'[u] = worker[u]
    BY <1>2, Zenon DEF TypeInv, TypeOK
<1>6. \A q : InQueue(q)' <=> InQueue(q)
    BY <1>2, Zenon DEF InQueue
<1>7. \A q : Running(q)' <=> Running(q) /\ q # done
  <2>1. \A u \in Workers : worker[u].pc = "run" /\ worker[u].query = done => u = w
      BY <1>2, Zenon DEF PlaceInv
  <2>2. \A u \in Workers : worker'[u].pc = "run" <=> worker[u].pc = "run" /\ u # w
      BY <1>5, Zenon
  <2> QED BY <1>5, <2>1, <2>2, Zenon DEF Running
<1>8. \A q \in Queries : Untouched(q)' <=> Untouched(q)
    BY <1>3, <1>4, <1>6, <1>7, Zenon DEF Untouched
<1>9. \A i, j \in DOMAIN queryQueue' : queryQueue'[i] = queryQueue'[j] => i = j
    BY <1>2, Zenon DEF PlaceInv
<1>10. \A u \in Workers : worker'[u].pc = "run" =>
          worker'[u].query \in Queries
          /\ ~\E i \in DOMAIN queryQueue' : queryQueue'[i] = worker'[u].query
    BY <1>2, <1>5 DEF PlaceInv, InQueue
<1>11. \A u, v \in Workers :
         worker'[u].pc = "run" /\ worker'[v].pc = "run" /\ worker'[u].query = worker'[v].query => u = v
    BY <1>5 DEF PlaceInv
<1>12. \A q \in Queries : InQueue(q)' \/ Running(q)' => promise'[q] = "none"
    BY <1>3, <1>4, <1>6, <1>7, Zenon DEF PlaceInv
<1>13. PlaceInv'
    BY <1>9, <1>10, <1>11, <1>12, Zenon DEF PlaceInv, InQueue
<1>14. \A q \in Queries : answer[q] \in {"OK", "INTERNAL"} => promise'[q] = promise[q]
    BY <1>3, <1>4, Zenon DEF CallInv, AnswerInv
<1>15. CallInv'
    BY <1>2, <1>8, <1>14, CallKept, Zenon DEF clientSide
<1> QED BY <1>13, <1>15, Zenon

\* The other steps of a worker.
LEMMA WorkerOnce ==
    ASSUME TypeInv, PlaceInv, CallInv, NEW w \in Workers, workerStep(w)
    PROVE  PlaceInv' /\ CallInv'
<1>1. ASSUME NEW there \in {"check", "read", "idle", "shrink", "gone"}, WorkerGoto(w, there),
             worker[w].pc # "run", queryQueue' = queryQueue, promise' = promise, UNCHANGED clientSide
      PROVE  PlaceInv' /\ CallInv'
  <2>1. worker'[w].pc = there /\ \A u \in Workers : u # w => worker'[u] = worker[u]
      BY <1>1, WorkerGotoFacts, Zenon
  <2>2. \A u \in Workers : /\ worker'[u].pc = "run" <=> worker[u].pc = "run"
                           /\ worker[u].pc = "run" => worker'[u] = worker[u]
      BY <1>1, <2>1, Zenon
  <2>3. PlaceInv' /\ \A q : Untouched(q)' <=> Untouched(q)
      BY <1>1, <2>2, PlacesSame, Zenon
  <2> QED BY <1>1, <2>3, CallKept, Zenon DEF clientSide
<1>2. CASE workerCheck(w)
    BY <1>1, <1>2, Zenon DEF workerCheck, Leave
<1>3. CASE workerRead(w)
  <2>1. CASE queryQueue = <<>>
      BY <1>1, <1>3, <2>1, Zenon DEF workerRead
  <2>2. CASE queryQueue # <<>>
      BY <1>3, <2>2, ReadOnce, Zenon DEF workerRead, clientSide
  <2> QED BY <2>1, <2>2, Zenon
<1>4. CASE workerIdle(w)
    BY <1>1, <1>4, Zenon DEF workerIdle
<1>5. CASE workerShrink(w)
    BY <1>1, <1>5, Zenon DEF workerShrink, Leave
<1>6. CASE workerRun(w)
    BY <1>6, RunOnce, Zenon
<1> QED BY <1>2, <1>3, <1>4, <1>5, <1>6, Zenon DEF workerStep

\* The steps of a caller inside submitQueryTask().
LEMMA ClientOnce ==
    ASSUME TypeInv, PlaceInv, CallInv, NEW c \in Clients, clientStep(c)
    PROVE  PlaceInv' /\ CallInv'
<1> DEFINE Quiet == queryQueue' = queryQueue /\ worker' = worker /\ promise' = promise /\ calls' = calls
           Early == client[c] \notin {"outside", "waiting"}
<1>1. ASSUME Quiet PROVE PlaceInv' /\ \A q : Untouched(q)' <=> Untouched(q)
    BY <1>1, PlacesSame, Zenon
<1>2. ASSUME Quiet, Early, NEW there \in {"spawn", "emplace", "capacity", "enqueue", "write"},
             Goto(c, there), answer' = answer
      PROVE  PlaceInv' /\ CallInv'
    BY <1>1, <1>2, CallMoves, Zenon DEF ClientPlaces
<1>3. ASSUME Quiet, Early, Return(c, "RESOURCE_EXHAUSTED")
      PROVE  PlaceInv' /\ CallInv'
  <2>1. calls[c] \in 1 .. MaxQueries[c] /\ NotYet(c, calls[c])
      BY <1>3, QueryAssumption DEF TypeInv, TypeOK, NotYet
  <2>2. Untouched(Current(c))
      BY <2>1, Zenon DEF CallInv, FreshInv, Current
  <2> QED BY <1>1, <1>3, <2>2, CallReturns, Zenon
<1>4. CASE maybeScaleUpQuery(c)
    BY <1>2, <1>4, Zenon DEF maybeScaleUpQuery, workerSide
<1>5. CASE spawnCount(c)
    BY <1>2, <1>5, Zenon DEF spawnCount
<1>6. CASE spawnEmplace(c)
  <2> DEFINE w == CHOOSE u \in Workers : u \notin Live \cup joining
  <2>1. /\ client[c] = "emplace" /\ Workers # Live \cup joining
        /\ worker' = [worker EXCEPT ![w] = [pc |-> "check", query |-> NoQuery]]
        /\ Goto(c, "capacity") /\ UNCHANGED <<queryQueue, calls, promise, answer>>
      BY <1>6, Zenon DEF spawnEmplace
  <2>2. w \in Workers /\ w \notin Live
    <3>1. \E u \in Workers : u \notin Live \cup joining
        BY <2>1, Zenon DEF TypeInv, TypeOK, Live
    <3> QED BY <3>1, Zenon
  <2> HIDE DEF w
  <2>3. worker'[w].pc = "check" /\ worker[w].pc # "run" /\ \A u \in Workers : u # w => worker'[u] = worker[u]
      BY <2>1, <2>2, Zenon DEF TypeInv, TypeOK, Live
  <2>4. \A u \in Workers : /\ worker'[u].pc = "run" <=> worker[u].pc = "run"
                           /\ worker[u].pc = "run" => worker'[u] = worker[u]
      BY <2>3, Zenon
  <2>5. PlaceInv' /\ \A q : Untouched(q)' <=> Untouched(q)
      BY <2>1, <2>4, PlacesSame, Zenon
  <2> QED BY <2>1, <2>5, CallMoves, Zenon DEF ClientPlaces
<1>7. CASE checkCapacity(c)
    BY <1>2, <1>3, <1>7, Zenon DEF checkCapacity, workerSide
<1>8. CASE enqueueQuery(c)
    BY <1>2, <1>3, <1>8, Zenon DEF enqueueQuery, workerSide
<1>9. CASE writeQuery(c)
  <2>1. client[c] = "write" /\ UNCHANGED <<calls, worker, promise>>
      BY <1>9, Zenon DEF writeQuery, workerSide
  <2>2. CASE HasRoom
      BY <1>9, <2>1, <2>2, WriteOnce, Zenon DEF writeQuery
  <2>3. CASE ~HasRoom
      BY <1>3, <1>9, <2>1, <2>3, Zenon DEF writeQuery
  <2> QED BY <2>2, <2>3, Zenon
<1>10. CASE awaitResult(c)
  <2>1. client[c] # "outside" /\ Quiet /\ Return(c, promise[Current(c)])
      BY <1>10, Zenon DEF awaitResult, workerSide
  <2>2. promise[Current(c)] # "RESOURCE_EXHAUSTED"
      BY <2>1, CurrentFacts, Zenon DEF TypeInv, TypeOK
  <2> QED BY <1>1, <2>1, <2>2, CallReturns, Zenon
<1>11. CASE awaitTimeout(c)
  <2>1. client[c] # "outside" /\ Quiet /\ Return(c, "DEADLINE_EXCEEDED")
      BY <1>11, Zenon DEF awaitTimeout, TimeoutStatus, workerSide
  <2> QED BY <1>1, <2>1, CallReturns, Zenon
<1> QED BY <1>4, <1>5, <1>6, <1>7, <1>8, <1>9, <1>10, <1>11, Zenon DEF clientStep

\* Every query is in its place before the first call.
LEMMA OnceInit == Init => PlaceInv /\ CallInv
<1> SUFFICES ASSUME Init PROVE PlaceInv /\ CallInv
    OBVIOUS
<1>1. /\ DOMAIN queryQueue = {} /\ \A w \in Workers : worker[w].pc = "unborn"
      /\ \A c \in Clients : client[c] = "outside"
      /\ \A q \in Queries : promise[q] = "none" /\ answer[q] = "none"
    BY DEF Init
<1>2. \A q \in Queries : Untouched(q)
    BY <1>1, Zenon DEF Untouched, InQueue, Running
<1>3. PlaceInv
    BY <1>1, Zenon DEF PlaceInv
<1> QED BY <1>1, <1>2, <1>3, QueryFacts, Zenon DEF CallInv, FreshInv, WaitInv, AnswerInv

\* Every step leaves every query in its place.
LEMMA OnceStep ==
    TypeInv /\ CountInv /\ PlaceInv /\ CallInv /\ [Next]_vars => PlaceInv' /\ CallInv'
<1> SUFFICES ASSUME TypeInv, CountInv, PlaceInv, CallInv, [Next]_vars PROVE PlaceInv' /\ CallInv'
    BY Zenon
<1>1. ASSUME UNCHANGED <<queryQueue, promise, client, calls, answer>>,
             \A u \in Workers : /\ worker'[u].pc = "run" <=> worker[u].pc = "run"
                                /\ worker[u].pc = "run" => worker'[u] = worker[u]
      PROVE  PlaceInv' /\ CallInv'
  <2>1. PlaceInv' /\ \A q : Untouched(q)' <=> Untouched(q)
      BY <1>1, PlacesSame, Zenon
  <2> QED BY <1>1, <2>1, CallKept, Zenon
<1>2. CASE start
  <2>1. \A u \in Workers : worker[u].pc # "run"
      BY <1>2, Zenon DEF start, CountInv, Live
  <2>2. \A u \in Workers : worker'[u].pc # "run"
    <3>1. \A u \in Workers : worker'[u] \in {worker[u], [worker[u] EXCEPT !.pc = "check"]}
        BY <1>2, Zenon DEF start
    <3>2. \A u \in Workers : [worker[u] EXCEPT !.pc = "check"].pc = "check"
        BY Zenon DEF TypeInv, TypeOK
    <3> QED BY <2>1, <3>1, <3>2, Zenon
  <2> QED BY <1>1, <1>2, <2>1, <2>2, Zenon DEF start
<1>3. CASE stopBegin \/ stopSwap \/ stopReturn
    BY <1>1, <1>3, Zenon DEF stopBegin, stopSwap, stopReturn
<1>4. CASE UNCHANGED vars
    BY <1>1, <1>4, Zenon DEF vars
<1> QED BY <1>2, <1>3, <1>4, SubmitOnce, ClientOnce, WorkerOnce, Zenon DEF Next

\* The inductive invariant of the queries.
THEOREM OnceInvHolds == Spec => [](PlaceInv /\ CallInv)
    BY OnceInit, OnceStep, CountInvHolds, PTL DEF Spec

\* What the places say about the numbers that EachQueryOnce counts.
LEMMA PlaceCounts ==
    ASSUME PlaceInv, NEW q \in Queries
    PROVE  /\ Cardinality(Queued(q)) = IF InQueue(q) THEN 1 ELSE 0
           /\ Cardinality(RunBy(q)) = IF Running(q) THEN 1 ELSE 0
           /\ ~(InQueue(q) /\ Running(q))
<1>1. Cardinality(Queued(q)) = IF InQueue(q) THEN 1 ELSE 0
  <2>1. CASE InQueue(q)
    <3>1. PICK i : Queued(q) = {i}
        BY <2>1 DEF InQueue, Queued, PlaceInv
    <3> QED BY <2>1, <3>1, FS_Singleton, Zenon
  <2>2. CASE ~InQueue(q)
    <3>1. Queued(q) = {}
        BY <2>2, Zenon DEF InQueue, Queued
    <3> QED BY <2>2, <3>1, FS_EmptySet, Zenon
  <2> QED BY <2>1, <2>2, Zenon
<1>2. Cardinality(RunBy(q)) = IF Running(q) THEN 1 ELSE 0
  <2>1. CASE Running(q)
    <3>1. PICK w : RunBy(q) = {w}
        BY <2>1 DEF Running, RunBy, PlaceInv
    <3> QED BY <2>1, <3>1, FS_Singleton
  <2>2. CASE ~Running(q)
    <3>1. RunBy(q) = {}
        BY <2>2, Zenon DEF Running, RunBy
    <3> QED BY <2>2, <3>1, FS_EmptySet
  <2> QED BY <2>1, <2>2
<1>3. ~(InQueue(q) /\ Running(q))
    BY Zenon DEF PlaceInv, Running
<1> QED BY <1>1, <1>2, <1>3, Zenon

\* No query is lost on its way through the queue and none is run twice, although
\* callers leave on a timeout while their query is queued or runs.
THEOREM OnceHolds == Spec => []EachQueryOnce
<1>1. TypeInv /\ PlaceInv /\ CallInv => EachQueryOnce
  <2> SUFFICES ASSUME TypeInv, PlaceInv, CallInv PROVE EachQueryOnce
      BY Zenon
  <2>1. ASSUME NEW q \in Queries
        PROVE  /\ Cardinality(Queued(q)) + Cardinality(RunBy(q)) + Executed(q) <= 1
               /\ ~Untouched(q) => Cardinality(Queued(q)) + Cardinality(RunBy(q)) + Executed(q) = 1
    <3>1. InQueue(q) \/ Running(q) => promise[q] = "none"
        BY Zenon DEF PlaceInv
    <3> QED BY <3>1, PlaceCounts DEF Executed, Untouched
  <2>2. ASSUME NEW c \in Clients, client[c] = "waiting"
        PROVE  Current(c) \in Queries /\ ~Untouched(Current(c))
      BY <2>2, CurrentFacts, Zenon DEF CallInv, WaitInv, Current
  <2> QED BY <2>1, <2>2, Zenon DEF EachQueryOnce
<1> QED BY <1>1, CountInvHolds, OnceInvHolds, PTL

\* A caller is told the status its own task set, and RESOURCE_EXHAUSTED only
\* for a query that no worker will ever see.
THEOREM AnswersHold == Spec => []AnswersAreTrue
<1>1. CallInv => AnswersAreTrue
    BY Zenon DEF CallInv, AnswerInv, AnswersAreTrue, Untouched, InQueue, Running, Queued, RunBy
<1> QED BY <1>1, OnceInvHolds, PTL
=============================================================================

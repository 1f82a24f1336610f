------------------------ MODULE ConnectionPoolProofs ------------------------
(***************************************************************************)
(* For every number of threads and connections and every minSize_ and      *)
(* maxSize_: the types and the exclusive lease of RedisConnectionPool and  *)
(* of MysqlConnectionPool, that both implement ConnectionLease, and that   *)
(* the Redis pool prunes only above minSize_.                              *)
(*                                                                         *)
(* Every action of the Redis pool changes entries_ in one of four ways: it *)
(* reshapes entries that nobody uses, lends one of them, takes one back or *)
(* clears the vector.  Reshaped says what the first two may do; the lemmas *)
(* on the actions only have to show it.  The MySQL pool also closes and    *)
(* opens handles apart from its entries.                                   *)
(***************************************************************************)
EXTENDS RedisConnectionPool, FiniteSetTheorems, TLAPS

\* Connections are owned by one entry, and an entry is healthy only with one.
EntriesSound ==
    /\ \A i \in DOMAIN entries : entries[i].healthy => entries[i].conn # NoConn
    /\ \A i, j \in DOMAIN entries :
          i # j /\ entries[i].conn = entries[j].conn => entries[i].conn = NoConn

\* A guard stands for an entry in use, and for one that no other guard has.
GuardsSound ==
    phase # "stopped" =>
        /\ \A t \in Threads : pc[t] = "using" =>
              /\ guard[t].index \in DOMAIN entries
              /\ entries[guard[t].index].inUse
              /\ entries[guard[t].index].conn = guard[t].conn
              /\ guard[t].conn # NoConn
        /\ \A t, u \in Threads : pc[t] = "using" /\ pc[u] = "using" /\ t # u =>
              guard[t].index # guard[u].index

\* Before start() and after stop() there are no entries.
PhaseSound ==
    /\ phase = "new" => entries = <<>> /\ \A t \in Threads : pc[t] # "using"
    /\ phase = "stopped" => entries = <<>>

RedisInv == TypeOK /\ EntriesSound /\ GuardsSound /\ NoAbandonedEntry /\ PhaseSound

\* es comes from entries_ without touching an entry in use: every other entry has
\* no connection, its own or a fresh one of its own.
Reshaped(es) ==
    /\ es \in Seq(Entry) /\ Len(es) <= MaxSize /\ DOMAIN entries \subseteq DOMAIN es
    /\ \A i \in DOMAIN entries : entries[i].inUse => es[i] = entries[i]
    /\ \A i \in DOMAIN es : es[i].healthy => es[i].conn # NoConn
    /\ \A i \in DOMAIN es : \/ es[i].conn \in Fresh \cup {NoConn}
                            \/ i \in DOMAIN entries /\ es[i].conn = entries[i].conn
    /\ \A i, j \in DOMAIN es : es[i].conn = es[j].conn /\ es[i].conn \in Fresh => i = j

PCs == [Threads -> {"outside", "waiting", "woken", "using"}]

-----------------------------------------------------------------------------
\* A function over 1 .. n is a sequence of length n.
LEMMA SequenceFromFunction ==
    ASSUME NEW S, NEW n \in Nat, NEW f \in [1 .. n -> S]
    PROVE  f \in Seq(S) /\ Len(f) = n /\ DOMAIN f = 1 .. n
    OBVIOUS

\* The indexes of n entries.
LEMMA IndexCount ==
    ASSUME NEW n \in Nat
    PROVE  IsFiniteSet(1 .. n) /\ Cardinality(1 .. n) = n
    BY FS_Interval

\* What push_back() does to the entries.
LEMMA AppendFacts ==
    ASSUME NEW S, NEW q \in Seq(S), NEW e \in S
    PROVE  /\ Append(q, e) \in Seq(S)
           /\ Len(Append(q, e)) = Len(q) + 1
           /\ DOMAIN Append(q, e) = DOMAIN q \cup {Len(q) + 1}
           /\ Len(q) + 1 \notin DOMAIN q
           /\ \A i \in DOMAIN q : Append(q, e)[i] = q[i]
           /\ Append(q, e)[Len(q) + 1] = e
    OBVIOUS

\* What an assignment to one entry does.
LEMMA ReplaceFacts ==
    ASSUME NEW S, NEW q \in Seq(S), NEW i \in DOMAIN q, NEW e \in S
    PROVE  /\ [q EXCEPT ![i] = e] \in Seq(S)
           /\ Len([q EXCEPT ![i] = e]) = Len(q)
           /\ DOMAIN [q EXCEPT ![i] = e] = DOMAIN q
           /\ [q EXCEPT ![i] = e][i] = e
           /\ \A j \in DOMAIN q : j # i => [q EXCEPT ![i] = e][j] = q[j]
    OBVIOUS

\* Entries and what is read from them have their types.
LEMMA EntryFacts ==
    ASSUME RedisInv
    PROVE  /\ entries \in Seq(Entry) /\ Len(entries) \in Nat /\ Len(entries) <= MaxSize
           /\ DOMAIN entries = 1 .. Len(entries)
           /\ \A i \in DOMAIN entries :
                 /\ entries[i] \in Entry /\ entries[i].conn \in Handles \cup {NoConn}
                 /\ entries[i].inUse \in BOOLEAN /\ entries[i].healthy \in BOOLEAN
           /\ Fresh \subseteq Handles /\ NoConn \notin Fresh
           /\ \A i \in DOMAIN entries : entries[i].conn \notin Fresh
<1>1. entries \in Seq(Entry) /\ Len(entries) \in Nat /\ Len(entries) <= MaxSize
      /\ DOMAIN entries = 1 .. Len(entries)
    BY DEF RedisInv, TypeOK
<1>2. \A i \in DOMAIN entries : entries[i] \in Entry
    BY <1>1
<1>3. \A i \in DOMAIN entries :
         /\ entries[i].conn \in Handles \cup {NoConn}
         /\ entries[i].inUse \in BOOLEAN /\ entries[i].healthy \in BOOLEAN
    BY <1>2, Zenon DEF Entry
<1>4. Fresh \subseteq Handles /\ NoConn \notin Fresh
    BY PoolAssumption, Zenon DEF Fresh
<1>5. \A i \in DOMAIN entries : entries[i].conn \notin Fresh
    BY <1>3, PoolAssumption, Zenon DEF Fresh, Owned, OpenIn
<1> QED BY <1>1, <1>2, <1>3, <1>4, <1>5, Zenon

\* The records that connect(), ensureHealthy() and closeEntry() leave.
LEMMA ClosedFacts ==
    Closed \in Entry /\ Closed.conn = NoConn /\ ~Closed.inUse /\ ~Closed.healthy
    BY Zenon DEF Closed, Entry

\* The fields of an entry just opened.
LEMMA OpenFacts ==
    ASSUME NEW h \in Handles
    PROVE  /\ Open(h, TRUE) \in Entry /\ Open(h, TRUE).conn = h
           /\ Open(h, TRUE).healthy /\ Open(h, TRUE).inUse
           /\ Open(h, FALSE) \in Entry /\ Open(h, FALSE).conn = h
           /\ Open(h, FALSE).healthy /\ ~Open(h, FALSE).inUse
    BY Zenon DEF Open, Entry

\* A reshaped vector is as sound as the one it comes from.
LEMMA ReshapedSound ==
    ASSUME RedisInv, Reshaped(entries')
    PROVE  EntriesSound'
<1>1. \A i \in DOMAIN entries' : entries'[i].healthy => entries'[i].conn # NoConn
    BY Zenon DEF Reshaped
<1>2. ASSUME NEW i \in DOMAIN entries', NEW j \in DOMAIN entries', i # j,
             entries'[i].conn = entries'[j].conn, entries'[i].conn # NoConn
      PROVE  FALSE
  <2>1. entries'[i].conn \notin Fresh
      BY <1>2, Zenon DEF Reshaped
  <2>2. /\ i \in DOMAIN entries /\ entries'[i].conn = entries[i].conn
        /\ j \in DOMAIN entries /\ entries'[j].conn = entries[j].conn
      BY <1>2, <2>1, Zenon DEF Reshaped
  <2> QED BY <1>2, <2>2, Zenon DEF RedisInv, EntriesSound
<1> QED BY <1>1, <1>2, Zenon DEF EntriesSound

\* A step that reshapes idle entries and lends none keeps the invariant.
LEMMA ReshapeStep ==
    ASSUME RedisInv, Reshaped(entries'),
           phase \in {"new", "running"}, phase' = "running",
           \A i \in DOMAIN entries' : entries'[i].inUse => i \in DOMAIN entries /\ entries[i].inUse,
           guard' = guard, pc' \in PCs,
           \A u \in Threads : pc'[u] = "using" <=> pc[u] = "using",
           healthLoopAlive' \in BOOLEAN, answered' \in 0 .. MaxSize
    PROVE  RedisInv'
<1>1. EntriesSound'
    BY ReshapedSound, Zenon
<1>2. TypeOK'
    BY Zenon DEF RedisInv, TypeOK, Reshaped, PCs
<1>3. GuardsSound'
    BY Zenon DEF RedisInv, GuardsSound, Reshaped
<1>4. NoAbandonedEntry'
    BY Zenon DEF RedisInv, NoAbandonedEntry
<1>5. PhaseSound'
    BY Zenon DEF PhaseSound
<1> QED BY <1>1, <1>2, <1>3, <1>4, <1>5, Zenon DEF RedisInv

\* A step that lends thread t the connection of entry k, which was idle.
LEMMA LendEntry ==
    ASSUME RedisInv, Reshaped(entries'), NEW t \in Threads, NEW k \in DOMAIN entries',
           phase = "running", phase' = phase, pc[t] # "using",
           k \in DOMAIN entries => ~entries[k].inUse,
           entries'[k].inUse, entries'[k].conn # NoConn,
           \A i \in DOMAIN entries' :
              i # k /\ entries'[i].inUse => i \in DOMAIN entries /\ entries[i].inUse,
           pc' = [pc EXCEPT ![t] = "using"],
           guard' = [guard EXCEPT ![t] = [index |-> k, conn |-> entries'[k].conn]],
           healthLoopAlive' = healthLoopAlive, answered' = answered
    PROVE  RedisInv'
<1>1. EntriesSound'
    BY ReshapedSound, Zenon
<1>2. k \in Nat /\ entries'[k].conn \in Handles
  <2>1. entries' \in Seq(Entry)
      BY Zenon DEF Reshaped
  <2>2. entries'[k] \in Entry /\ k \in Nat
      BY <2>1
  <2> QED BY <2>2, Zenon DEF Entry
<1>3. /\ pc \in PCs /\ guard \in [Threads -> [index : Nat, conn : Handles \cup {NoConn}]]
    BY Zenon DEF RedisInv, TypeOK, PCs
<1>4. TypeOK'
    BY <1>2, <1>3, Zenon DEF RedisInv, TypeOK, Reshaped, PCs
<1>5. /\ pc'[t] = "using" /\ guard'[t].index = k /\ guard'[t].conn = entries'[k].conn
      /\ \A u \in Threads \ {t} : pc'[u] = pc[u] /\ guard'[u] = guard[u]
    BY <1>3, Zenon DEF PCs
<1>6. ASSUME NEW u \in Threads \ {t}, pc'[u] = "using"
      PROVE  /\ guard'[u].index \in DOMAIN entries /\ entries[guard'[u].index].inUse
             /\ entries'[guard'[u].index] = entries[guard'[u].index]
             /\ guard'[u].index \in DOMAIN entries'
             /\ entries'[guard'[u].index].conn = guard'[u].conn /\ guard'[u].conn # NoConn
             /\ guard'[u].index # k
    BY <1>5, <1>6 DEF RedisInv, GuardsSound, Reshaped
<1>7. GuardsSound'
  <2>1. \A u \in Threads : pc'[u] = "using" =>
            /\ guard'[u].index \in DOMAIN entries' /\ entries'[guard'[u].index].inUse
            /\ entries'[guard'[u].index].conn = guard'[u].conn /\ guard'[u].conn # NoConn
      BY <1>5, <1>6, Zenon
  <2>2. ASSUME NEW u \in Threads, NEW v \in Threads, pc'[u] = "using", pc'[v] = "using", u # v
        PROVE  guard'[u].index # guard'[v].index
    <3>1. CASE u = t \/ v = t
        BY <1>5, <1>6, <2>2, <3>1
    <3>2. CASE u # t /\ v # t
        BY <1>5, <2>2, <3>2 DEF RedisInv, GuardsSound
    <3> QED BY <3>1, <3>2, Zenon
  <2> QED BY <2>1, <2>2, Zenon DEF GuardsSound
<1>8. NoAbandonedEntry'
  <2> SUFFICES ASSUME NEW i \in DOMAIN entries', entries'[i].inUse
               PROVE  \E u \in Threads : pc'[u] = "using" /\ guard'[u].index = i
      BY Zenon DEF NoAbandonedEntry
  <2>1. CASE i = k
      BY <1>5, <2>1, Zenon
  <2>2. CASE i # k
    <3>1. PICK u \in Threads : pc[u] = "using" /\ guard[u].index = i
        BY <2>2, Zenon DEF RedisInv, NoAbandonedEntry
    <3> QED BY <1>5, <3>1, Zenon
  <2> QED BY <2>1, <2>2, Zenon
<1>9. PhaseSound'
    BY Zenon DEF PhaseSound
<1> QED BY <1>1, <1>4, <1>7, <1>8, <1>9, Zenon DEF RedisInv

-----------------------------------------------------------------------------
\* The entries after failed repairs: a vector of the same length in which those
\* entries are closed.
LEMMA RepairFacts ==
    ASSUME RedisInv, NEW S \in SUBSET Idle
    PROVE  /\ RepairFailed(S) \in Seq(Entry) /\ Len(RepairFailed(S)) = Len(entries)
           /\ DOMAIN RepairFailed(S) = DOMAIN entries
           /\ \A j \in DOMAIN entries \ S : RepairFailed(S)[j] = entries[j]
           /\ \A j \in S : RepairFailed(S)[j] = Closed
<1>1. Len(entries) \in Nat /\ DOMAIN entries = 1 .. Len(entries) /\ S \subseteq DOMAIN entries
    BY EntryFacts, Zenon DEF Idle
<1>2. \A j \in DOMAIN entries : (IF j \in S THEN Closed ELSE entries[j]) \in Entry
    BY EntryFacts, ClosedFacts, Zenon
<1>3. RepairFailed(S) \in [1 .. Len(entries) -> Entry]
    BY <1>1, <1>2, Zenon DEF RepairFailed
<1>4. /\ RepairFailed(S) \in Seq(Entry) /\ Len(RepairFailed(S)) = Len(entries)
      /\ DOMAIN RepairFailed(S) = DOMAIN entries
    BY <1>1, <1>3, SequenceFromFunction, Zenon
<1>5. /\ \A j \in DOMAIN entries \ S : RepairFailed(S)[j] = entries[j]
      /\ \A j \in S : RepairFailed(S)[j] = Closed
    BY <1>1, Zenon DEF RepairFailed
<1> QED BY <1>4, <1>5, Zenon

\* What acquire() hands out: a connection of the entry's own or a fresh one.
LEMMA UsableFacts ==
    ASSUME RedisInv, NEW i \in DOMAIN entries, NEW h \in Usable(entries[i])
    PROVE  h \in Handles /\ h # NoConn /\ (h = entries[i].conn \/ h \in Fresh)
<1>1. entries[i].healthy => entries[i].conn # NoConn
    BY Zenon DEF RedisInv, EntriesSound
<1>2. h # NoConn /\ (h = entries[i].conn \/ h \in Fresh)
    BY <1>1, EntryFacts, Zenon DEF Usable
<1> QED BY <1>2, EntryFacts, Zenon

\* Taking an idle entry keeps RedisInv.
LEMMA TakeStep ==
    ASSUME RedisInv, NEW t \in Threads, NEW i \in DOMAIN entries, TakeEntry(t, i),
           phase = "running", pc[t] # "using",
           UNCHANGED <<phase, healthLoopAlive, answered>>
    PROVE  RedisInv'
<1> DEFINE skipped == {j \in Idle : j < i}
           R == RepairFailed(skipped)
<1>1. PICK h \in Usable(entries[i]) :
         /\ entries' = [R EXCEPT ![i] = Open(h, TRUE)]
         /\ guard' = [guard EXCEPT ![t] = [index |-> i, conn |-> h]]
         /\ pc' = [pc EXCEPT ![t] = IF h = NoConn THEN "outside" ELSE "using"]
    BY Zenon DEF TakeEntry
<1>2. h \in Handles /\ h # NoConn /\ (h = entries[i].conn \/ h \in Fresh)
    BY UsableFacts, Zenon
<1>3. pc' = [pc EXCEPT ![t] = "using"]
    BY <1>1, <1>2, Zenon
<1>4. /\ Open(h, TRUE) \in Entry /\ Open(h, TRUE).conn = h /\ Open(h, TRUE).healthy
      /\ Open(h, TRUE).inUse
    BY <1>2, OpenFacts, Zenon
<1>5. /\ R \in Seq(Entry) /\ Len(R) = Len(entries) /\ DOMAIN R = DOMAIN entries
      /\ \A j \in DOMAIN entries \ skipped : R[j] = entries[j]
      /\ \A j \in skipped : R[j] = Closed
    BY RepairFacts, Zenon
<1>6. i \in Idle /\ skipped \subseteq Idle /\ Idle \subseteq DOMAIN entries /\ ~entries[i].inUse
    BY Zenon DEF TakeEntry, Idle
<1> HIDE DEF skipped, R
<1>7. /\ entries' \in Seq(Entry) /\ Len(entries') = Len(entries) /\ DOMAIN entries' = DOMAIN entries
      /\ entries'[i] = Open(h, TRUE)
      /\ \A j \in DOMAIN entries : j # i => entries'[j] = R[j]
  <2> DEFINE e == Open(h, TRUE)
  <2>1. e \in Entry /\ i \in DOMAIN R /\ R \in Seq(Entry) /\ entries' = [R EXCEPT ![i] = e]
      BY <1>1, <1>4, <1>5, Zenon
  <2> HIDE DEF e
  <2>2. /\ entries' \in Seq(Entry) /\ Len(entries') = Len(R) /\ DOMAIN entries' = DOMAIN R
        /\ entries'[i] = e /\ \A j \in DOMAIN R : j # i => entries'[j] = R[j]
      BY <2>1, ReplaceFacts
  <2> QED BY <1>5, <2>2, Zenon DEF e
<1>8. ASSUME NEW j \in DOMAIN entries, j # i
      PROVE  entries'[j] = entries[j] \/ (entries'[j] = Closed /\ j \in Idle)
    BY <1>5, <1>6, <1>7, <1>8, Zenon
<1>9. Reshaped(entries')
  <2>1. \A j \in DOMAIN entries : entries[j].inUse => entries'[j] = entries[j]
      BY <1>6, <1>8, Zenon DEF Idle
  <2>2. \A j \in DOMAIN entries' : entries'[j].healthy => entries'[j].conn # NoConn
    <3>1. \A j \in DOMAIN entries : entries[j].healthy => entries[j].conn # NoConn
        BY Zenon DEF RedisInv, EntriesSound
    <3> QED BY <1>2, <1>4, <1>7, <1>8, <3>1, ClosedFacts, Zenon
  <2>3. \A j \in DOMAIN entries' : \/ entries'[j].conn \in Fresh \cup {NoConn}
                                   \/ j \in DOMAIN entries /\ entries'[j].conn = entries[j].conn
      BY <1>2, <1>4, <1>7, <1>8, ClosedFacts, Zenon
  <2>4. \A j \in DOMAIN entries' : j # i => entries'[j].conn \notin Fresh
      BY <1>7, <1>8, EntryFacts, ClosedFacts, Zenon
  <2> QED BY <1>7, <2>1, <2>2, <2>3, <2>4, EntryFacts, Zenon DEF Reshaped
<1>10. \A j \in DOMAIN entries' : j # i /\ entries'[j].inUse => entries[j].inUse
    BY <1>7, <1>8, ClosedFacts, Zenon
<1>11. /\ i \in DOMAIN entries' /\ entries'[i].inUse /\ entries'[i].conn = h
       /\ guard' = [guard EXCEPT ![t] = [index |-> i, conn |-> entries'[i].conn]]
    BY <1>1, <1>4, <1>7, Zenon
<1> QED BY <1>2, <1>3, <1>6, <1>7, <1>9, <1>10, <1>11, LendEntry, Zenon

\* After every repair has failed: the entries in use, and closed ones.
LEMMA AllFailed ==
    ASSUME RedisInv, NEW e \in Entry, HasRoom
    PROVE  LET es == Append(RepairFailed(Idle), e) IN
           /\ es \in Seq(Entry) /\ Len(es) <= MaxSize
           /\ DOMAIN es = DOMAIN entries \cup {Len(entries) + 1}
           /\ Len(entries) + 1 \notin DOMAIN entries
           /\ es[Len(entries) + 1] = e
           /\ \A j \in DOMAIN entries : es[j] = IF entries[j].inUse THEN entries[j] ELSE Closed
<1> DEFINE R == RepairFailed(Idle)
<1>1. /\ R \in Seq(Entry) /\ Len(R) = Len(entries) /\ DOMAIN R = DOMAIN entries
      /\ \A j \in DOMAIN entries \ Idle : R[j] = entries[j]
      /\ \A j \in Idle : R[j] = Closed
    BY RepairFacts, Zenon
<1>2. \A j \in DOMAIN entries : R[j] = IF entries[j].inUse THEN entries[j] ELSE Closed
    BY <1>1, Zenon DEF Idle
<1> HIDE DEF R
<1>3. /\ Append(R, e) \in Seq(Entry) /\ Len(Append(R, e)) = Len(entries) + 1
      /\ DOMAIN Append(R, e) = DOMAIN entries \cup {Len(entries) + 1}
      /\ Len(entries) + 1 \notin DOMAIN entries
      /\ \A j \in DOMAIN entries : Append(R, e)[j] = R[j]
      /\ Append(R, e)[Len(entries) + 1] = e
    BY <1>1, AppendFacts
<1>4. Len(entries) + 1 <= MaxSize
    BY EntryFacts, PoolAssumption DEF HasRoom
<1> QED BY <1>2, <1>3, <1>4, Zenon DEF R

\* Growing the pool by the entry the caller takes keeps RedisInv.
LEMMA GrowStep ==
    ASSUME RedisInv, NEW t \in Threads, GrowPool(t), phase = "running", pc[t] # "using",
           UNCHANGED <<phase, healthLoopAlive, answered>>
    PROVE  RedisInv'
<1> DEFINE k == Len(entries) + 1
<1>1. PICK h \in Fresh : /\ entries' = Append(RepairFailed(Idle), Open(h, TRUE))
                         /\ guard' = [guard EXCEPT ![t] = [index |-> k, conn |-> h]]
    BY Zenon DEF GrowPool
<1>2. HasRoom /\ pc' = [pc EXCEPT ![t] = "using"]
    BY Zenon DEF GrowPool
<1>3. h \in Handles /\ h # NoConn
    BY EntryFacts, Zenon
<1>4. /\ Open(h, TRUE) \in Entry /\ Open(h, TRUE).conn = h /\ Open(h, TRUE).healthy
      /\ Open(h, TRUE).inUse
    BY <1>3, OpenFacts, Zenon
<1>5. /\ entries' \in Seq(Entry) /\ Len(entries') <= MaxSize
      /\ DOMAIN entries' = DOMAIN entries \cup {k} /\ k \notin DOMAIN entries
      /\ entries'[k] = Open(h, TRUE)
      /\ \A j \in DOMAIN entries : entries'[j] = IF entries[j].inUse THEN entries[j] ELSE Closed
    BY <1>1, <1>2, <1>4, AllFailed, Zenon
<1> HIDE DEF k
<1>6. Reshaped(entries')
  <2>1. \A j \in DOMAIN entries' : entries'[j].healthy => entries'[j].conn # NoConn
    <3>1. \A j \in DOMAIN entries : entries[j].healthy => entries[j].conn # NoConn
        BY Zenon DEF RedisInv, EntriesSound
    <3>2. \A j \in DOMAIN entries : entries'[j].healthy => entries'[j].conn # NoConn
        BY <1>5, <3>1, ClosedFacts, Zenon
    <3> QED BY <1>3, <1>4, <1>5, <3>2, Zenon
  <2>2. \A j \in DOMAIN entries : /\ entries'[j].conn = entries[j].conn \/ entries'[j].conn = NoConn
                                  /\ entries'[j].conn \notin Fresh
      BY <1>5, EntryFacts, ClosedFacts, Zenon
  <2> QED BY <1>4, <1>5, <2>1, <2>2, Zenon DEF Reshaped
<1>7. \A j \in DOMAIN entries' : j # k /\ entries'[j].inUse => j \in DOMAIN entries /\ entries[j].inUse
    BY <1>5, ClosedFacts, Zenon
<1>8. /\ k \in DOMAIN entries' /\ entries'[k].inUse /\ entries'[k].conn = h
      /\ guard' = [guard EXCEPT ![t] = [index |-> k, conn |-> entries'[k].conn]]
    BY <1>1, <1>4, <1>5, Zenon
<1> QED BY <1>2, <1>3, <1>5, <1>6, <1>7, <1>8, LendEntry, Zenon

\* Entry j of es is one in use, as it was, or a closed one.
KeptOrClosed(es, j) ==
    \/ j \in DOMAIN entries /\ entries[j].inUse /\ es[j] = entries[j]
    \/ (j \in DOMAIN entries => ~entries[j].inUse) /\ es[j] = Closed

\* Going to wait for an entry keeps RedisInv.
LEMMA WaitStep ==
    ASSUME RedisInv, NEW t \in Threads, WaitForConnection(t), phase = "running", pc[t] # "using",
           UNCHANGED <<phase, healthLoopAlive, answered>>
    PROVE  RedisInv'
<1>1. /\ pc' = [pc EXCEPT ![t] = "waiting"] /\ guard' = guard /\ pc \in PCs
      /\ healthLoopAlive \in BOOLEAN /\ answered \in 0 .. MaxSize
    BY Zenon DEF WaitForConnection, RedisInv, TypeOK, PCs
<1>2. pc' \in PCs /\ \A u \in Threads : pc'[u] = "using" <=> pc[u] = "using"
    BY <1>1, Zenon DEF PCs
<1>3. /\ entries' \in Seq(Entry) /\ Len(entries') <= MaxSize /\ DOMAIN entries \subseteq DOMAIN entries'
      /\ \A j \in DOMAIN entries' : KeptOrClosed(entries', j)
  <2>1. CASE HasRoom
    <3>1. entries' = Append(RepairFailed(Idle), Closed)
        BY <2>1, Zenon DEF WaitForConnection
    <3>2. /\ entries' \in Seq(Entry) /\ Len(entries') <= MaxSize
          /\ DOMAIN entries' = DOMAIN entries \cup {Len(entries) + 1}
          /\ Len(entries) + 1 \notin DOMAIN entries
          /\ entries'[Len(entries) + 1] = Closed
          /\ \A j \in DOMAIN entries : entries'[j] = IF entries[j].inUse THEN entries[j] ELSE Closed
        BY <2>1, <3>1, AllFailed, ClosedFacts, Zenon
    <3>3. \A j \in DOMAIN entries' : KeptOrClosed(entries', j)
      <4> SUFFICES ASSUME NEW j \in DOMAIN entries' PROVE KeptOrClosed(entries', j)
          BY Zenon
      <4>1. CASE j \in DOMAIN entries /\ entries[j].inUse
          BY <3>2, <4>1, Zenon DEF KeptOrClosed
      <4>2. CASE ~(j \in DOMAIN entries /\ entries[j].inUse)
          BY <3>2, <4>2, Zenon DEF KeptOrClosed
      <4> QED BY <4>1, <4>2, Zenon
    <3>4. Len(entries') <= MaxSize /\ DOMAIN entries \subseteq DOMAIN entries' /\ entries' \in Seq(Entry)
        BY <3>2, Zenon
    <3> QED BY <3>3, <3>4, Zenon
  <2>2. CASE ~HasRoom
    <3>1. entries' = RepairFailed(Idle)
        BY <2>2, Zenon DEF WaitForConnection
    <3>2. /\ entries' \in Seq(Entry) /\ Len(entries') = Len(entries) /\ DOMAIN entries' = DOMAIN entries
          /\ \A j \in DOMAIN entries \ Idle : entries'[j] = entries[j]
          /\ \A j \in Idle : entries'[j] = Closed
        BY <3>1, RepairFacts, Zenon
    <3>3. Len(entries) <= MaxSize
        BY EntryFacts, Zenon
    <3>4. \A j \in DOMAIN entries : j \in Idle <=> ~entries[j].inUse
        BY Zenon DEF Idle
    <3>5. \A j \in DOMAIN entries : entries'[j] = IF entries[j].inUse THEN entries[j] ELSE Closed
        BY <3>2, <3>4, Zenon
    <3>6. \A j \in DOMAIN entries' : KeptOrClosed(entries', j)
      <4> SUFFICES ASSUME NEW j \in DOMAIN entries' PROVE KeptOrClosed(entries', j)
          OBVIOUS
      <4>1. CASE j \in DOMAIN entries /\ entries[j].inUse
          BY <3>2, <3>5, <4>1, Zenon DEF KeptOrClosed
      <4>2. CASE ~(j \in DOMAIN entries /\ entries[j].inUse)
          BY <3>2, <3>5, <4>2, Zenon DEF KeptOrClosed
      <4> QED BY <4>1, <4>2
    <3>7. Len(entries') <= MaxSize /\ DOMAIN entries \subseteq DOMAIN entries' /\ entries' \in Seq(Entry)
        BY <3>2, <3>3, Zenon
    <3> QED BY <3>6, <3>7
  <2> QED BY <2>1, <2>2, Zenon
<1>4. Reshaped(entries')
  <2>1. \A j \in DOMAIN entries' : entries'[j].healthy => entries'[j].conn # NoConn
    <3>1. \A j \in DOMAIN entries : entries[j].healthy => entries[j].conn # NoConn
        BY Zenon DEF RedisInv, EntriesSound
    <3> QED BY <1>3, <3>1, ClosedFacts, Zenon DEF KeptOrClosed
  <2>2. \A j \in DOMAIN entries' : /\ \/ entries'[j].conn = NoConn
                                      \/ j \in DOMAIN entries /\ entries'[j].conn = entries[j].conn
                                   /\ entries'[j].conn \notin Fresh
      BY <1>3, EntryFacts, ClosedFacts, Zenon DEF KeptOrClosed
  <2>3. \A j \in DOMAIN entries : entries[j].inUse => entries'[j] = entries[j]
      BY <1>3, Zenon DEF KeptOrClosed
  <2> QED BY <1>3, <2>1, <2>2, <2>3, Zenon DEF Reshaped
<1>5. \A j \in DOMAIN entries' : entries'[j].inUse => j \in DOMAIN entries /\ entries[j].inUse
    BY <1>3, ClosedFacts, Zenon DEF KeptOrClosed
<1> QED BY <1>1, <1>2, <1>4, <1>5, ReshapeStep, Zenon

-----------------------------------------------------------------------------
\* Entries made from the result of connect().
LEMMA ConnectFacts ==
    ASSUME RedisInv, NEW h \in Fresh \cup {NoConn}
    PROVE  /\ FromConnect(h) \in Entry /\ FromConnect(h).conn = h /\ ~FromConnect(h).inUse
           /\ FromConnect(h).healthy => h # NoConn
<1>1. CASE h = NoConn
    BY <1>1, ClosedFacts, Zenon DEF FromConnect
<1>2. CASE h # NoConn
  <2>1. h \in Handles
      BY <1>2, EntryFacts, Zenon
  <2> QED BY <1>2, <2>1, OpenFacts, Zenon DEF FromConnect
<1> QED BY <1>1, <1>2, Zenon

\* Starting the pool keeps RedisInv.
LEMMA StartStep == RedisInv /\ start => RedisInv'
<1> SUFFICES ASSUME RedisInv, start PROVE RedisInv'
    BY Zenon
<1>1. /\ phase = "new" /\ phase' = "running" /\ entries = <<>>
      /\ healthLoopAlive' = TRUE /\ pc' = pc /\ guard' = guard /\ answered' = answered
      /\ pc \in PCs /\ answered \in 0 .. MaxSize
    BY Zenon DEF start, RedisInv, PhaseSound, TypeOK, PCs
<1>2. PICK f \in Connects(1 .. MinSize) : entries' = [i \in 1 .. MinSize |-> FromConnect(f[i])]
    BY Zenon DEF start
<1>3. /\ \A i \in 1 .. MinSize : f[i] \in Fresh \cup {NoConn}
      /\ \A i, j \in 1 .. MinSize : f[i] = f[j] /\ f[i] # NoConn => i = j
    BY Zenon DEF Connects
<1>4. \A i \in 1 .. MinSize :
         /\ FromConnect(f[i]) \in Entry /\ FromConnect(f[i]).conn = f[i]
         /\ ~FromConnect(f[i]).inUse /\ (FromConnect(f[i]).healthy => f[i] # NoConn)
    BY <1>3, ConnectFacts, Zenon
<1>5. entries' \in [1 .. MinSize -> Entry]
    BY <1>2, <1>4, Zenon
<1>6. entries' \in Seq(Entry) /\ Len(entries') = MinSize /\ DOMAIN entries' = 1 .. MinSize
    BY <1>5, SequenceFromFunction, PoolAssumption, Zenon
<1>7. \A i \in DOMAIN entries' :
         /\ entries'[i].conn = f[i] /\ ~entries'[i].inUse /\ (entries'[i].healthy => f[i] # NoConn)
    BY <1>2, <1>4, <1>6, Zenon
<1>8. DOMAIN entries = {} /\ MinSize <= MaxSize /\ NoConn \notin Fresh
    BY <1>1, PoolAssumption, EntryFacts
<1>9. Reshaped(entries')
    BY <1>3, <1>6, <1>7, <1>8 DEF Reshaped
<1>10. healthLoopAlive' \in BOOLEAN
    BY <1>1, Zenon
<1> QED BY <1>1, <1>7, <1>9, <1>10, ReshapeStep, Zenon

\* An entry that a health pass may have left at index i: one in use, as it was,
\* or an idle one without connection, with its own, or with the one connect()
\* gave it.
Passed(e, i, f) ==
    /\ e \in Entry
    /\ e.healthy => e.conn # NoConn
    /\ entries[i].inUse => e = entries[i]
    /\ ~entries[i].inUse =>
          /\ ~e.inUse
          /\ \/ e.conn = NoConn
             \/ e.conn = entries[i].conn
             \/ i \in ToConnect /\ e.conn = f[i]

\* What a health pass makes of one entry.
LEMMA PassedFacts ==
    ASSUME RedisInv, NEW f \in Connects(ToConnect), NEW pingFails \in SUBSET (Idle \cap OpenIn(entries)),
           NEW i \in DOMAIN entries
    PROVE  /\ Passed(Rechecked(f, pingFails)[i], i, f)
           /\ ~entries[i].inUse => Passed(Closed, i, f)
<1> DEFINE e == Rechecked(f, pingFails)[i]
<1>1. ~entries[i].inUse => Passed(Closed, i, f)
    BY ClosedFacts, Zenon DEF Passed
<1>2. i \in Idle <=> ~entries[i].inUse
    BY Zenon DEF Idle
<1>3. CASE i \in ToConnect
  <2>1. e = FromConnect(f[i]) /\ f[i] \in Fresh \cup {NoConn} /\ ~entries[i].inUse
      BY <1>2, <1>3, Zenon DEF Rechecked, Connects, ToConnect
  <2>2. /\ e \in Entry /\ e.conn = f[i] /\ ~e.inUse /\ (e.healthy => f[i] # NoConn)
      BY <2>1, ConnectFacts, Zenon
  <2> HIDE DEF e
  <2>3. Passed(e, i, f)
      BY <1>3, <2>1, <2>2, Zenon DEF Passed
  <2> QED BY <1>1, <2>3, Zenon DEF e
<1>4. CASE i \notin ToConnect /\ i \in pingFails
  <2>1. e = Closed /\ ~entries[i].inUse
      BY <1>2, <1>4, Zenon DEF Rechecked
  <2> QED BY <1>1, <2>1, Zenon
<1>5. CASE i \in Idle /\ i \notin ToConnect /\ i \notin pingFails
  <2>1. e = Open(entries[i].conn, FALSE) /\ ~entries[i].inUse
      BY <1>2, <1>5, Zenon DEF Rechecked
  <2>2. entries[i].conn \in Handles /\ entries[i].conn # NoConn
      BY <1>5, EntryFacts, PoolAssumption, Zenon DEF ToConnect, OpenIn
  <2>3. e \in Entry /\ e.conn = entries[i].conn /\ ~e.inUse
      BY <2>1, <2>2, OpenFacts, Zenon
  <2> HIDE DEF e
  <2>4. Passed(e, i, f)
      BY <2>1, <2>2, <2>3, Zenon DEF Passed
  <2> QED BY <1>1, <2>4 DEF e
<1>6. CASE i \notin Idle
  <2>1. e = entries[i] /\ entries[i].inUse
      BY <1>2, <1>6, Zenon DEF Rechecked, ToConnect
  <2>2. entries[i] \in Entry /\ (entries[i].healthy => entries[i].conn # NoConn)
      BY EntryFacts, Zenon DEF RedisInv, EntriesSound
  <2> HIDE DEF e
  <2>3. Passed(e, i, f)
      BY <2>1, <2>2, Zenon DEF Passed
  <2> QED BY <1>1, <2>3 DEF e
<1> QED BY <1>3, <1>4, <1>5, <1>6, Zenon

\* A health pass keeps RedisInv.
LEMMA HealthStep == RedisInv /\ healthPass => RedisInv'
<1> SUFFICES ASSUME RedisInv, healthPass PROVE RedisInv'
    OBVIOUS
<1>1. /\ phase = "running" /\ phase' = "running" /\ pc' = WakeAll /\ guard' = guard
      /\ healthLoopAlive' = healthLoopAlive /\ healthLoopAlive \in BOOLEAN /\ pc \in PCs
    BY Zenon DEF healthPass, RedisInv, TypeOK, PCs
<1>2. PICK f \in Connects(ToConnect), pingFails \in SUBSET (Idle \cap OpenIn(entries)) :
         /\ \E old \in SUBSET (Idle \ (ToConnect \cup pingFails)) :
               entries' = [i \in DOMAIN Rechecked(f, pingFails) |->
                             IF i \in Pruned(Rechecked(f, pingFails), old)
                               THEN Closed ELSE Rechecked(f, pingFails)[i]]
         /\ answered' = Cardinality(OpenIn(Rechecked(f, pingFails)))
    BY Zenon DEF healthPass
<1> DEFINE es == Rechecked(f, pingFails)
<1>3. PICK old \in SUBSET (Idle \ (ToConnect \cup pingFails)) :
         entries' = [i \in DOMAIN es |-> IF i \in Pruned(es, old) THEN Closed ELSE es[i]]
    BY <1>2, Zenon
<1>4. DOMAIN es = DOMAIN entries
    BY Zenon DEF Rechecked
<1>5. \A i \in DOMAIN entries : Passed(es[i], i, f) /\ (~entries[i].inUse => Passed(Closed, i, f))
    BY PassedFacts, Zenon
<1>6. \A i \in Pruned(es, old) : i \in DOMAIN entries /\ ~entries[i].inUse
    BY Zenon DEF Pruned, Idle
<1>7. answered' = Cardinality(OpenIn(es))
    BY <1>2, Zenon
<1> HIDE DEF es
<1>8. DOMAIN entries' = DOMAIN entries /\ \A i \in DOMAIN entries : Passed(entries'[i], i, f)
    BY <1>3, <1>4, <1>5, <1>6, Zenon
<1>9. entries' \in [1 .. Len(entries) -> Entry]
    BY <1>3, <1>4, <1>8, EntryFacts, Zenon DEF Passed
<1>10. entries' \in Seq(Entry) /\ Len(entries') = Len(entries) /\ Len(entries) <= MaxSize
    BY <1>9, EntryFacts, SequenceFromFunction, Zenon
<1>11. Reshaped(entries')
  <2>1. \A i \in DOMAIN entries :
           /\ entries[i].inUse => entries'[i] = entries[i]
           /\ entries'[i].healthy => entries'[i].conn # NoConn
      BY <1>8, Zenon DEF Passed
  <2>2. \A i \in DOMAIN entries : \/ entries'[i].conn = NoConn
                                  \/ entries'[i].conn = entries[i].conn
                                  \/ i \in ToConnect /\ entries'[i].conn = f[i]
      BY <1>8, Zenon DEF Passed
  <2>3. /\ \A i \in ToConnect : f[i] \in Fresh \cup {NoConn}
        /\ \A i, j \in ToConnect : f[i] = f[j] /\ f[i] # NoConn => i = j
      BY Zenon DEF Connects
  <2>4. NoConn \notin Fresh /\ \A i \in DOMAIN entries : entries[i].conn \notin Fresh
      BY EntryFacts, Zenon
  <2>5. \A i \in DOMAIN entries : \/ entries'[i].conn \in Fresh \cup {NoConn}
                                  \/ entries'[i].conn = entries[i].conn
      BY <2>2, <2>3, Zenon
  <2>6. \A i, j \in DOMAIN entries :
           entries'[i].conn = entries'[j].conn /\ entries'[i].conn \in Fresh => i = j
      BY <2>2, <2>3, <2>4
  <2> QED BY <1>8, <1>10, <2>1, <2>5, <2>6, Zenon DEF Reshaped
<1>12. \A i \in DOMAIN entries' : entries'[i].inUse => i \in DOMAIN entries /\ entries[i].inUse
    BY <1>8, Zenon DEF Passed
<1>13. answered' \in 0 .. MaxSize
  <2>1. Len(entries) \in Nat /\ Len(entries) <= MaxSize /\ OpenIn(es) \in SUBSET (1 .. Len(entries))
      BY <1>4, EntryFacts, Zenon DEF OpenIn
  <2>2. IsFiniteSet(1 .. Len(entries)) /\ Cardinality(1 .. Len(entries)) = Len(entries)
      BY <2>1, IndexCount, Zenon
  <2>3. IsFiniteSet(OpenIn(es)) /\ Cardinality(OpenIn(es)) <= Len(entries)
      BY <2>1, <2>2, FS_Subset, Zenon
  <2>4. Cardinality(OpenIn(es)) \in Nat
      BY <2>3, FS_CardinalityType, Zenon
  <2> QED BY <1>7, <2>1, <2>3, <2>4, PoolAssumption
<1>14. pc' \in PCs /\ \A u \in Threads : pc'[u] = "using" <=> pc[u] = "using"
    BY <1>1, Zenon DEF WakeAll, PCs
<1> QED BY <1>1, <1>11, <1>12, <1>13, <1>14, ReshapeStep, Zenon

-----------------------------------------------------------------------------
\* What release() leaves of an entry.
LEMMA ReturnedFacts ==
    ASSUME NEW e \in Entry, NEW ok \in BOOLEAN
    PROVE  /\ Returned(e, ok) \in Entry /\ Returned(e, ok).conn = e.conn
           /\ ~Returned(e, ok).inUse
           /\ Returned(e, ok).healthy => e.healthy
    BY Zenon DEF Returned, Entry

\* release() frees the entry of the guard it is given, which no other guard has.
LEMMA ReleaseStep ==
    ASSUME RedisInv, NEW t \in Threads, cacheCallEnds(t)
    PROVE  RedisInv'
<1> DEFINE i == guard[t].index
<1>1. /\ pc[t] = "using" /\ guard' = [guard EXCEPT ![t] = NoGuard]
      /\ UNCHANGED <<phase, healthLoopAlive, answered>>
    BY Zenon DEF cacheCallEnds, release
<1>2. /\ entries \in Seq(Entry) /\ guard \in [Threads -> [index : Nat, conn : Handles \cup {NoConn}]]
      /\ pc \in [Threads -> {"outside", "waiting", "woken", "using"}]
    BY Zenon DEF RedisInv, TypeOK
<1>3. /\ \A u \in Threads : u # t => guard'[u] = guard[u]
      /\ guard' \in [Threads -> [index : Nat, conn : Handles \cup {NoConn}]]
  <2>1. NoGuard \in [index : Nat, conn : Handles \cup {NoConn}]
      BY Zenon DEF NoGuard
  <2> QED BY <1>1, <1>2, <2>1, Zenon
<1>4. /\ pc' \in [Threads -> {"outside", "waiting", "woken", "using"}]
      /\ pc'[t] # "using"
      /\ \A u \in Threads : u # t => (pc'[u] = "using" <=> pc[u] = "using")
  <2> DEFINE left == [pc EXCEPT ![t] = "outside"]
  <2>1. /\ left \in [Threads -> {"outside", "waiting", "woken", "using"}] /\ left[t] # "using"
        /\ \A u \in Threads : u # t => left[u] = pc[u]
      BY <1>2, Zenon
  <2> HIDE DEF left
  <2>2. pc' = left \/ \E u \in Threads : pc[u] = "waiting" /\ pc' = [left EXCEPT ![u] = "woken"]
      BY Zenon DEF cacheCallEnds, release, NotifyOne, left
  <2>3. CASE pc' = left
      BY <2>1, <2>3, Zenon
  <2>4. ASSUME NEW u \in Threads, pc[u] = "waiting", pc' = [left EXCEPT ![u] = "woken"]
        PROVE  <1>4!1 /\ <1>4!2 /\ <1>4!3
      BY <1>1, <2>1, <2>4, Zenon
  <2> QED BY <2>2, <2>3, <2>4, Zenon
<1>5. /\ entries' \in Seq(Entry) /\ Len(entries') = Len(entries) /\ DOMAIN entries' = DOMAIN entries
      /\ \A j \in DOMAIN entries : j # i => entries'[j] = entries[j]
      /\ i \in DOMAIN entries => /\ entries'[i].conn = entries[i].conn /\ ~entries'[i].inUse
                                 /\ entries'[i].healthy => entries[i].healthy
  <2>1. CASE i \in DOMAIN entries
    <3>1. PICK ok \in BOOLEAN : entries' = [entries EXCEPT ![i] = Returned(entries[i], ok)]
        BY <2>1, Zenon DEF cacheCallEnds, release
    <3>2. entries[i] \in Entry
        BY <1>2, <2>1
    <3>3. /\ Returned(entries[i], ok) \in Entry /\ Returned(entries[i], ok).conn = entries[i].conn
          /\ ~Returned(entries[i], ok).inUse
          /\ Returned(entries[i], ok).healthy => entries[i].healthy
        BY <3>2, ReturnedFacts, Zenon
    <3> DEFINE e == Returned(entries[i], ok)
    <3>4. e \in Entry /\ entries' = [entries EXCEPT ![i] = e]
        BY <3>1, <3>3, Zenon
    <3> HIDE DEF e, i
    <3>5. /\ entries' \in Seq(Entry) /\ Len(entries') = Len(entries) /\ DOMAIN entries' = DOMAIN entries
          /\ entries'[i] = e /\ \A j \in DOMAIN entries : j # i => entries'[j] = entries[j]
        BY <1>2, <2>1, <3>4, ReplaceFacts
    <3> QED BY <3>3, <3>5, Zenon DEF e
  <2>2. CASE i \notin DOMAIN entries
    <3>1. entries' = entries
        BY <2>2, Zenon DEF cacheCallEnds, release
    <3> QED BY <1>2, <2>2, <3>1, Zenon
  <2> QED BY <2>1, <2>2, Zenon
<1>6. EntriesSound'
    BY <1>1, <1>5 DEF RedisInv, EntriesSound
<1>7. GuardsSound'
  <2> SUFFICES ASSUME phase # "stopped"
               PROVE  /\ \A u \in Threads : pc'[u] = "using" =>
                            /\ guard'[u].index \in DOMAIN entries'
                            /\ entries'[guard'[u].index].inUse
                            /\ entries'[guard'[u].index].conn = guard'[u].conn
                            /\ guard'[u].conn # NoConn
                      /\ \A u, v \in Threads : pc'[u] = "using" /\ pc'[v] = "using" /\ u # v =>
                            guard'[u].index # guard'[v].index
      BY <1>1, Zenon DEF GuardsSound
  <2>1. \A u \in Threads : pc'[u] = "using" =>
            u # t /\ pc[u] = "using" /\ guard'[u] = guard[u] /\ guard[u].index # i
      BY <1>1, <1>3, <1>4, Zenon DEF RedisInv, GuardsSound
  <2> HIDE DEF i
  <2> QED BY <1>5, <2>1 DEF RedisInv, GuardsSound
<1>8. NoAbandonedEntry'
  <2> SUFFICES ASSUME NEW j \in DOMAIN entries', entries'[j].inUse
               PROVE  \E u \in Threads : pc'[u] = "using" /\ guard'[u].index = j
      BY Zenon DEF NoAbandonedEntry
  <2>1. j \in DOMAIN entries /\ j # i /\ entries[j].inUse
      BY <1>5, Zenon
  <2>2. PICK u \in Threads : pc[u] = "using" /\ guard[u].index = j
      BY <2>1, Zenon DEF RedisInv, NoAbandonedEntry
  <2>3. u # t
      BY <2>1, <2>2, Zenon
  <2> QED BY <1>3, <1>4, <2>2, <2>3, Zenon
<1>9. PhaseSound'
  <2>1. phase # "new"
      BY <1>1, Zenon DEF RedisInv, PhaseSound
  <2>2. phase = "stopped" => entries' = <<>>
    <3>1. phase = "stopped" => entries = <<>>
        BY Zenon DEF RedisInv, PhaseSound
    <3>2. phase = "stopped" => i \notin DOMAIN entries
        BY <3>1
    <3> QED BY <3>1, <3>2, Zenon DEF cacheCallEnds, release
  <2> QED BY <1>1, <2>1, <2>2, Zenon DEF PhaseSound
<1>10. TypeOK'
    BY <1>1, <1>3, <1>4, <1>5, Zenon DEF RedisInv, TypeOK
<1> QED BY <1>6, <1>7, <1>8, <1>9, <1>10, Zenon DEF RedisInv

\* acquire() takes an entry, makes one or waits.
LEMMA AcquireStep ==
    ASSUME RedisInv, NEW t \in Threads, acquire(t)
    PROVE  RedisInv'
<1>1. /\ phase = "running" /\ pc[t] # "using" /\ UNCHANGED <<phase, healthLoopAlive, answered>>
      /\ (\E i \in DOMAIN entries : TakeEntry(t, i)) \/ GrowPool(t) \/ WaitForConnection(t)
    BY Zenon DEF acquire
<1>2. CASE \E i \in DOMAIN entries : TakeEntry(t, i)
    BY <1>1, <1>2, TakeStep, Zenon
<1>3. CASE GrowPool(t)
    BY <1>1, <1>3, GrowStep, Zenon
<1>4. CASE WaitForConnection(t)
    BY <1>1, <1>4, WaitStep, Zenon
<1> QED BY <1>1, <1>2, <1>3, <1>4, Zenon

\* A timeout, a wake-up or a stop only moves threads that hold no guard.
LEMMA LeaseUntouched ==
    ASSUME RedisInv, UNCHANGED <<entries, guard, answered>>,
           healthLoopAlive' \in BOOLEAN,
           phase' = phase \/ (phase = "running" /\ phase' = "stopping"),
           pc' \in [Threads -> {"outside", "waiting", "woken", "using"}],
           \A t \in Threads : pc'[t] = "using" <=> pc[t] = "using"
    PROVE  RedisInv'
<1>1. TypeOK' /\ EntriesSound'
    BY Zenon DEF RedisInv, TypeOK, EntriesSound
<1>2. GuardsSound'
    BY Zenon DEF RedisInv, GuardsSound
<1>3. NoAbandonedEntry'
    BY Zenon DEF RedisInv, NoAbandonedEntry
<1>4. PhaseSound'
    BY Zenon DEF RedisInv, PhaseSound
<1> QED BY <1>1, <1>2, <1>3, <1>4, Zenon DEF RedisInv

\* stop() after the join clears entries_.
LEMMA StopFinishStep == RedisInv /\ stopFinish => RedisInv'
<1> SUFFICES ASSUME RedisInv, stopFinish PROVE RedisInv'
    OBVIOUS
<1>1. /\ phase' = "stopped" /\ entries' = <<>>
      /\ UNCHANGED <<healthLoopAlive, pc, guard, answered>>
    BY Zenon DEF stopFinish
<1>2. <<>> \in Seq(Entry) /\ Len(<<>>) = 0 /\ DOMAIN <<>> = {}
    OBVIOUS
<1>3. TypeOK'
    BY <1>1, <1>2, PoolAssumption DEF RedisInv, TypeOK
<1>4. EntriesSound' /\ GuardsSound' /\ NoAbandonedEntry' /\ PhaseSound'
    BY <1>1, <1>2, Zenon DEF EntriesSound, GuardsSound, NoAbandonedEntry, PhaseSound
<1> QED BY <1>3, <1>4, Zenon DEF RedisInv

\* Before start() the invariant holds.
LEMMA InvInit == Init => RedisInv
<1> SUFFICES ASSUME Init PROVE RedisInv
    BY Zenon
<1>1. <<>> \in Seq(Entry) /\ Len(<<>>) = 0 /\ DOMAIN <<>> = {}
    OBVIOUS
<1>2. NoGuard \in [index : Nat, conn : Handles \cup {NoConn}]
    BY Zenon DEF NoGuard
<1>3. TypeOK
  <2>1. guard \in [Threads -> [index : Nat, conn : Handles \cup {NoConn}]]
      BY <1>2, Zenon DEF Init
  <2>2. pc \in [Threads -> {"outside", "waiting", "woken", "using"}]
      BY Zenon DEF Init
  <2>3. entries \in Seq(Entry) /\ Len(entries) <= MaxSize
      BY <1>1, PoolAssumption DEF Init
  <2>4. answered \in 0 .. MaxSize
      BY PoolAssumption DEF Init
  <2> QED BY <2>1, <2>2, <2>3, <2>4, Zenon DEF Init, TypeOK
<1>4. EntriesSound /\ GuardsSound /\ NoAbandonedEntry /\ PhaseSound
    BY <1>1, Zenon DEF Init, EntriesSound, GuardsSound, NoAbandonedEntry, PhaseSound
<1> QED BY <1>3, <1>4, Zenon DEF RedisInv

\* Every step of the pool and of its users keeps it.
LEMMA InvStep == RedisInv /\ [Next]_vars => RedisInv'
<1> SUFFICES ASSUME RedisInv, [Next]_vars PROVE RedisInv'
    BY Zenon
<1> DEFINE PC == [Threads -> {"outside", "waiting", "woken", "using"}]
<1>1. pc \in PC /\ healthLoopAlive \in BOOLEAN
    BY Zenon DEF RedisInv, TypeOK
<1>2. WakeAll \in PC /\ \A t \in Threads : WakeAll[t] = "using" <=> pc[t] = "using"
    BY <1>1, Zenon DEF WakeAll
<1>3. CASE start
    BY <1>3, StartStep, Zenon
<1>4. ASSUME NEW t \in Threads, acquire(t) PROVE RedisInv'
    BY <1>4, AcquireStep, Zenon
<1>5. ASSUME NEW t \in Threads, acquireTimeout(t) \/ acquireStopped(t) \/ wakeSpuriously(t)
      PROVE  RedisInv'
  <2>1. /\ pc[t] # "using" /\ \E there \in {"outside", "woken"} : pc' = [pc EXCEPT ![t] = there]
        /\ UNCHANGED <<phase, entries, healthLoopAlive, guard, answered>>
      BY <1>5, Zenon DEF acquireTimeout, acquireStopped, wakeSpuriously
  <2>2. pc' \in PC /\ \A u \in Threads : pc'[u] = "using" <=> pc[u] = "using"
      BY <1>1, <2>1, Zenon
  <2> QED BY <1>1, <2>1, <2>2, LeaseUntouched, Zenon
<1>6. ASSUME NEW t \in Threads, cacheCallEnds(t) PROVE RedisInv'
    BY <1>6, ReleaseStep
<1>7. CASE healthPass
    BY <1>7, HealthStep
<1>8. CASE healthLoopExit
    BY <1>1, <1>8, LeaseUntouched, Zenon DEF healthLoopExit
<1>9. CASE stopBegin
    BY <1>1, <1>2, <1>9, LeaseUntouched, Zenon DEF stopBegin
<1>10. CASE stopFinish
    BY <1>10, StopFinishStep
<1>11. CASE UNCHANGED vars
    BY <1>1, <1>11, LeaseUntouched, Zenon DEF vars
<1> QED BY <1>3, <1>4, <1>5, <1>6, <1>7, <1>8, <1>9, <1>10, <1>11, Zenon DEF Next

-----------------------------------------------------------------------------
\* The inductive invariant: sound entries, a live entry behind every guard and
\* a guard behind every entry in use.
THEOREM InvHolds == Spec => []RedisInv
    BY InvInit, InvStep, PTL DEF Spec

\* The state keeps its types, and entries_ never outgrows maxSize_, however
\* many threads run acquire() at once.
THEOREM TypesHold == Spec => []TypeOK
<1>1. RedisInv => TypeOK
    BY Zenon DEF RedisInv
<1> QED BY <1>1, InvHolds, PTL

\* No connection is lent twice, closed or replaced while a guard has it,
\* whatever acquire(), release() and healthLoop() do in between.
THEOREM LeaseHolds == Spec => []ExclusiveLease
<1>1. RedisInv => ExclusiveLease
  <2> SUFFICES ASSUME RedisInv, phase # "stopped" PROVE ExclusiveLease
      BY Zenon DEF ExclusiveLease
  <2>1. \A t \in Threads : pc[t] = "using" =>
            /\ guard[t].index \in DOMAIN entries
            /\ entries[guard[t].index].inUse
            /\ entries[guard[t].index].conn = guard[t].conn
            /\ guard[t].conn # NoConn
      BY Zenon DEF RedisInv, GuardsSound, EntriesSound
  <2>2. \A t, u \in Threads : pc[t] = "using" /\ pc[u] = "using" /\ t # u =>
            guard[t].conn # guard[u].conn
      BY <2>1 DEF RedisInv, GuardsSound, EntriesSound
  <2> QED BY <2>1, <2>2, Zenon DEF ExclusiveLease
<1> QED BY <1>1, InvHolds, PTL

\* Every entry in use has a guard whose release() will bring it back.
THEOREM NoneAbandoned == Spec => []NoAbandonedEntry
<1>1. RedisInv => NoAbandonedEntry
    BY Zenon DEF RedisInv
<1> QED BY <1>1, InvHolds, PTL

-----------------------------------------------------------------------------
(* The pool implements ConnectionLease.                                    *)

LeaseNow == [t \in Threads |-> IF pc[t] = "using" THEN guard[t].conn ELSE NoConn]

\* As many values as indexes at most.
LEMMA ImageBound ==
    ASSUME NEW n \in Nat, NEW f, DOMAIN f = 1 .. n, f = [i \in 1 .. n |-> f[i]]
    PROVE  /\ IsFiniteSet({f[i] : i \in 1 .. n})
           /\ Cardinality({f[i] : i \in 1 .. n}) \in Nat
           /\ Cardinality({f[i] : i \in 1 .. n}) <= n
<1> DEFINE T == {f[i] : i \in 1 .. n}
<1>1. f \in Surjection(1 .. n, T)
    BY Zenon DEF Surjection
<1>2. IsFiniteSet(1 .. n) /\ Cardinality(1 .. n) = n
    BY IndexCount, Zenon
<1> HIDE DEF T
<1>3. IsFiniteSet(T) /\ Cardinality(T) <= n
    BY <1>1, <1>2, FS_Surjection
<1> QED BY <1>3, FS_CardinalityType, Zenon DEF T

\* The connections of the entries are handles, at most maxSize_ of them, and
\* until stop() closes them the lent ones are among them, each lent once.
LentFromOwned ==
    /\ Owned \subseteq Handles
    /\ Cardinality(Owned) <= MaxSize
    /\ phase # "stopped" =>
          /\ \A t \in Threads : LeaseNow[t] # NoConn => LeaseNow[t] \in Owned
          /\ \A t, u \in Threads : LeaseNow[t] = LeaseNow[u] /\ LeaseNow[t] # NoConn => t = u

\* The leases are of connections the pool owns, at most MaxSize of them.
LEMMA LentFacts == RedisInv => LentFromOwned
<1> SUFFICES ASSUME RedisInv PROVE LentFromOwned
    OBVIOUS
<1> DEFINE n == Len(entries)
           f == [i \in 1 .. n |-> entries[i].conn]
<1>1. n \in Nat /\ n <= MaxSize /\ DOMAIN entries = 1 .. n /\ entries \in Seq(Entry)
    BY DEF RedisInv, TypeOK
<1>2. \A i \in 1 .. n : entries[i].conn \in Handles \cup {NoConn}
  <2>1. \A i \in 1 .. n : entries[i] \in Entry
      BY <1>1
  <2> QED BY <2>1, Zenon DEF Entry
<1>3. Owned \subseteq Handles
    BY <1>1, <1>2, Zenon DEF Owned, OpenIn
<1>4. Cardinality(Owned) <= MaxSize
  <2>1. DOMAIN f = 1 .. n /\ f = [i \in 1 .. n |-> f[i]]
      BY Zenon
  <2>2. Owned = {f[i] : i \in 1 .. n} \ {NoConn}
      BY <1>1, Zenon DEF Owned, OpenIn
  <2> HIDE DEF f, n
  <2>3. /\ IsFiniteSet({f[i] : i \in 1 .. n}) /\ Cardinality({f[i] : i \in 1 .. n}) \in Nat
        /\ Cardinality({f[i] : i \in 1 .. n}) <= n
      BY <1>1, <2>1, ImageBound, Zenon
  <2>4. Owned \in SUBSET {f[i] : i \in 1 .. n}
      BY <2>2, Zenon
  <2>5. IsFiniteSet(Owned) /\ Cardinality(Owned) <= Cardinality({f[i] : i \in 1 .. n})
      BY <2>3, <2>4, FS_Subset, Zenon
  <2>6. Cardinality(Owned) \in Nat
      BY <2>5, FS_CardinalityType, Zenon
  <2> QED BY <1>1, <2>3, <2>5, <2>6, PoolAssumption
<1>5. ASSUME phase # "stopped", NEW t \in Threads, LeaseNow[t] # NoConn
      PROVE  /\ LeaseNow[t] \in Owned /\ pc[t] = "using" /\ LeaseNow[t] = guard[t].conn
             /\ guard[t].index \in DOMAIN entries /\ entries[guard[t].index].conn = guard[t].conn
  <2>1. pc[t] = "using" /\ LeaseNow[t] = guard[t].conn
      BY <1>5, Zenon DEF LeaseNow
  <2>2. guard[t].index \in DOMAIN entries /\ entries[guard[t].index].conn = guard[t].conn
      BY <1>5, <2>1, Zenon DEF RedisInv, GuardsSound
  <2> QED BY <1>5, <2>1, <2>2, Zenon DEF Owned, OpenIn
<1>6. ASSUME phase # "stopped", NEW t \in Threads, NEW u \in Threads,
             LeaseNow[t] = LeaseNow[u], LeaseNow[t] # NoConn
      PROVE  t = u
    BY <1>5, <1>6 DEF RedisInv, GuardsSound, EntriesSound
<1> QED BY <1>3, <1>4, <1>5, <1>6, Zenon DEF LentFromOwned

\* A step of the running pool that lends nothing and takes nothing back is one
\* of maintenance, whatever it does to the entries.
LEMMA MaintainStep ==
    ASSUME LentFromOwned', phase # "stopped", phase' # "stopped", LeaseNow' = LeaseNow
    PROVE  Lease!Next
<1>1. Lease!Lent \subseteq Owned'
    BY DEF Lease!Lent, LeaseNow, LentFromOwned
<1>2. Lease!Reshape(Lease!Lent)
    BY <1>1, Zenon DEF Lease!Reshape, LentFromOwned, Cardinality, Lease!Cardinality
<1> QED BY <1>2, Zenon DEF Lease!Next, Lease!Maintain, LeaseNow

\* A step that gives one thread a connection lends it.
LEMMA LendStep ==
    ASSUME LentFromOwned', phase # "stopped", phase' # "stopped", NEW t \in Threads, NEW h,
           LeaseNow[t] = NoConn, h # NoConn, LeaseNow' = [LeaseNow EXCEPT ![t] = h]
    PROVE  Lease!Next
<1>1. /\ LeaseNow'[t] = h
      /\ \A u \in Threads \ {t} : LeaseNow'[u] = LeaseNow[u]
    BY Zenon DEF LeaseNow
<1>2. h \in Owned' /\ h \in Handles
    BY <1>1, Zenon DEF LentFromOwned
<1>3. Lease!Lent = {LeaseNow[u] : u \in Threads} \ {NoConn}
    BY Zenon DEF Lease!Lent, LeaseNow
<1>4. h \notin Lease!Lent
    BY <1>1, <1>3, Zenon DEF LentFromOwned
<1>5. Lease!Lent \subseteq Owned'
    BY <1>1, <1>3, Zenon DEF LentFromOwned
<1>6. Lease!Reshape(Lease!Lent \cup {h})
    BY <1>2, <1>5, Zenon DEF Lease!Reshape, LentFromOwned, Cardinality, Lease!Cardinality
<1>7. Lease!Lend(t)
    BY <1>2, <1>4, <1>6, Zenon DEF Lease!Lend, LeaseNow
<1> QED BY <1>7, Zenon DEF Lease!Next

\* release() gives the connection back; after stop() there may be none.
LEMMA GiveBackStep ==
    ASSUME RedisInv, NEW t \in Threads, cacheCallEnds(t)
    PROVE  [Lease!Next]_(Lease!leaseVars)
<1>1. /\ phase' = phase /\ pc[t] = "using" /\ guard' = [guard EXCEPT ![t] = NoGuard]
      /\ pc \in [Threads -> {"outside", "waiting", "woken", "using"}]
    BY Zenon DEF cacheCallEnds, release, RedisInv, TypeOK
<1>2. pc' \in [Threads -> {"outside", "waiting", "woken", "using"}]
      /\ \A u \in Threads : pc'[u] = "using" <=> (u # t /\ pc[u] = "using")
    BY <1>1, Zenon DEF cacheCallEnds, release, NotifyOne
<1>3. LeaseNow' = [LeaseNow EXCEPT ![t] = NoConn]
    BY <1>1, <1>2, Zenon DEF LeaseNow, RedisInv, TypeOK
<1>4. Owned' = Owned
  <2>1. CASE guard[t].index \in DOMAIN entries
    <3>1. PICK ok \in BOOLEAN :
              entries' = [entries EXCEPT ![guard[t].index] = Returned(entries[guard[t].index], ok)]
        BY <2>1, Zenon DEF cacheCallEnds, release
    <3>2. DOMAIN entries' = DOMAIN entries /\ \A i \in DOMAIN entries : entries'[i].conn = entries[i].conn
        BY <3>1, Zenon DEF Returned, RedisInv, TypeOK
    <3> QED BY <3>2, Zenon DEF Owned, OpenIn
  <2>2. CASE guard[t].index \notin DOMAIN entries
      BY <2>2, Zenon DEF cacheCallEnds, release, Owned
  <2> QED BY <2>1, <2>2, Zenon
<1>5. CASE LeaseNow[t] = NoConn
  <2>1. LeaseNow' = LeaseNow
      BY <1>3, <1>5, Zenon DEF LeaseNow
  <2> QED BY <1>1, <1>4, <2>1, Zenon DEF Lease!leaseVars, LeaseNow
<1>6. CASE LeaseNow[t] # NoConn
  <2>1. Lease!GiveBack(t)
      BY <1>1, <1>3, <1>4, <1>6, Zenon DEF Lease!GiveBack, LeaseNow
  <2> QED BY <2>1, Zenon DEF Lease!Next
<1> QED BY <1>5, <1>6, Zenon

\* A thread that was outside and gets a guard is lent its connection.
LEMMA GuardLends ==
    ASSUME RedisInv, RedisInv', NEW t \in Threads, NEW g,
           phase = "running", phase' = phase, pc[t] # "using",
           pc' = [pc EXCEPT ![t] = "using"], guard' = [guard EXCEPT ![t] = g]
    PROVE  Lease!Next
<1>1. LentFromOwned'
    BY LentFacts, PTL
<1>2. /\ pc \in [Threads -> {"outside", "waiting", "woken", "using"}]
      /\ guard \in [Threads -> [index : Nat, conn : Handles \cup {NoConn}]]
    BY Zenon DEF RedisInv, TypeOK
<1>3. LeaseNow[t] = NoConn /\ LeaseNow' = [LeaseNow EXCEPT ![t] = g.conn]
    BY <1>2, Zenon DEF LeaseNow
<1>4. pc'[t] = "using" /\ guard'[t] = g
    BY <1>2, Zenon
<1>5. g.conn # NoConn
    BY <1>4, Zenon DEF RedisInv, GuardsSound
<1> QED BY <1>1, <1>3, <1>5, LendStep, Zenon

\* Every step of the pool is a step of ConnectionLease or changes nothing there.
LEMMA RefineStep == RedisInv /\ RedisInv' /\ [Next]_vars => [Lease!Next]_(Lease!leaseVars)
<1> SUFFICES ASSUME RedisInv, RedisInv', [Next]_vars PROVE [Lease!Next]_(Lease!leaseVars)
    BY Zenon
<1>1. LentFromOwned'
    BY LentFacts, PTL
<1>2. pc \in [Threads -> {"outside", "waiting", "woken", "using"}]
    BY Zenon DEF RedisInv, TypeOK
<1>3. ASSUME phase # "stopped", phase' # "stopped", guard' = guard,
             \A u \in Threads : pc'[u] = "using" <=> pc[u] = "using"
      PROVE  Lease!Next
  <2>1. LeaseNow' = LeaseNow
      BY <1>3, Zenon DEF LeaseNow
  <2> QED BY <1>1, <1>3, <2>1, MaintainStep, Zenon
<1>4. ASSUME phase' = phase, guard' = guard, entries' = entries,
             \A u \in Threads : pc'[u] = "using" <=> pc[u] = "using"
      PROVE  UNCHANGED Lease!leaseVars
    BY <1>4, Zenon DEF Lease!leaseVars, Owned
<1>5. CASE start
    BY <1>3, <1>5, Zenon DEF start
<1>6. ASSUME NEW t \in Threads, acquire(t) PROVE Lease!Next
  <2>1. phase = "running" /\ phase' = phase /\ pc[t] # "using"
      BY <1>6, Zenon DEF acquire
  <2>2. ASSUME NEW i \in DOMAIN entries, TakeEntry(t, i) PROVE Lease!Next
    <3>1. PICK h \in Usable(entries[i]) :
              /\ guard' = [guard EXCEPT ![t] = [index |-> i, conn |-> h]]
              /\ pc' = [pc EXCEPT ![t] = IF h = NoConn THEN "outside" ELSE "using"]
        BY <2>2, Zenon DEF TakeEntry
    <3>2. h # NoConn
        BY UsableFacts, Zenon
    <3>3. pc' = [pc EXCEPT ![t] = "using"]
        BY <3>1, <3>2, Zenon
    <3> QED BY <2>1, <3>1, <3>3, GuardLends, Zenon
  <2>3. CASE GrowPool(t)
    <3>1. PICK h : /\ guard' = [guard EXCEPT ![t] = [index |-> Len(entries) + 1, conn |-> h]]
                   /\ pc' = [pc EXCEPT ![t] = "using"]
        BY <2>3, Zenon DEF GrowPool
    <3> QED BY <2>1, <3>1, GuardLends, Zenon
  <2>4. CASE WaitForConnection(t)
    <3>1. pc' = [pc EXCEPT ![t] = "waiting"] /\ guard' = guard
        BY <2>4, Zenon DEF WaitForConnection
    <3> QED BY <1>2, <1>3, <2>1, <3>1, Zenon
  <2> QED BY <1>6, <2>2, <2>3, <2>4, Zenon DEF acquire
<1>7. ASSUME NEW t \in Threads, acquireTimeout(t) \/ acquireStopped(t) \/ wakeSpuriously(t)
      PROVE  UNCHANGED Lease!leaseVars
  <2>1. /\ pc[t] # "using" /\ \E there \in {"outside", "woken"} : pc' = [pc EXCEPT ![t] = there]
        /\ phase' = phase /\ entries' = entries /\ guard' = guard
      BY <1>7, Zenon DEF acquireTimeout, acquireStopped, wakeSpuriously
  <2> QED BY <1>2, <1>4, <2>1, Zenon
<1>8. ASSUME NEW t \in Threads, cacheCallEnds(t) PROVE [Lease!Next]_(Lease!leaseVars)
    BY <1>8, GiveBackStep, Zenon
<1>9. \A u \in Threads : WakeAll[u] = "using" <=> pc[u] = "using"
    BY <1>2, Zenon DEF WakeAll
<1>10. CASE healthPass
    BY <1>3, <1>9, <1>10, Zenon DEF healthPass
<1>11. CASE stopBegin
    BY <1>3, <1>9, <1>11, Zenon DEF stopBegin
<1>12. CASE healthLoopExit \/ UNCHANGED vars
  <2>1. phase' = phase /\ guard' = guard /\ entries' = entries /\ pc' = pc
      BY <1>12, Zenon DEF healthLoopExit, vars
  <2> QED BY <1>4, <2>1, Zenon
<1>13. CASE stopFinish
  <2>1. /\ phase # "stopped" /\ phase' = "stopped" /\ entries' = <<>>
        /\ pc' = pc /\ guard' = guard
      BY <1>13, Zenon DEF stopFinish
  <2>2. Owned' = {}
      BY <2>1 DEF Owned, OpenIn
  <2>3. Lease!Shutdown
      BY <2>1, <2>2, Zenon DEF Lease!Shutdown
  <2> QED BY <2>3, Zenon DEF Lease!Next
<1> QED BY <1>5, <1>6, <1>7, <1>8, <1>10, <1>11, <1>12, <1>13, Zenon DEF Next

\* The pool implements ConnectionLease: whatever acquire(), release(), the health
\* thread and stop() do to the entries, their users see connections lent
\* exclusively and given back, and never more than maxSize_ of them.
THEOREM LeaseImplemented == Spec => LeaseSpec
<1>1. Init => Lease!Init
    BY DEF Init, Lease!Init, Owned, OpenIn
<1>2. Spec => Lease!Init /\ [][Lease!Next]_(Lease!leaseVars)
    BY <1>1, InvHolds, RefineStep, PTL DEF Spec
<1> QED BY <1>2, Zenon DEF LeaseSpec, Lease!Spec

-----------------------------------------------------------------------------
\* Pruning.

\* Finite subsets have a least member of a nonempty collection.
LEMMA LeastSubset ==
    ASSUME NEW S, IsFiniteSet(S), NEW T, T \subseteq SUBSET S, T # {}
    PROVE  \E U \in T : \A V \in T : V \subseteq U => V = U
<1>1. T \subseteq FiniteSubsetsOf(S)
  BY FS_FiniteSubsetsOfFinite, Zenon
<1>2. PICK U \in T : \A V \in T : ~(<<V, U>> \in StrictSubsetOrdering(S))
  BY <1>1, FS_StrictSubsetOrderingWellFounded, WFMin, Zenon
<1>3. ASSUME NEW V \in T, V \subseteq U PROVE V = U
  BY <1>2, <1>3, Zenon DEF StrictSubsetOrdering
<1> QED
  BY <1>3, Zenon

\* A nonempty set of naturals has a least member.
LEMMA LeastNatural ==
    ASSUME NEW T, T \subseteq Nat, T # {}
    PROVE  \E n \in T : \A m \in T : n <= m
<1>1. PICK k \in T : TRUE
  BY Zenon
<1> DEFINE B == 0 .. k
           F == {0 .. m : m \in {i \in T : i <= k}}
<1>2. IsFiniteSet(B)
  <2>1. 0 \in Int /\ k \in Int
    OBVIOUS
  <2> QED
    BY <2>1, FS_Interval, Zenon
<1>3. F # {} /\ F \subseteq SUBSET B
  OBVIOUS
<1>4. PICK U \in F : \A V \in F : V \subseteq U => V = U
  <2> HIDE DEF B, F
  <2> QED
    BY <1>2, <1>3, LeastSubset
<1>5. PICK n \in T : n <= k /\ U = 0 .. n
  BY Zenon
<1>6. ASSUME NEW m \in T PROVE n <= m
  <2> SUFFICES ASSUME m < n PROVE FALSE
    OBVIOUS
  <2>1. 0 .. m \in F /\ 0 .. m \subseteq U
    BY <1>5
  <2>2. 0 .. m = 0 .. n
    BY <1>4, <1>5, <2>1, Zenon
  <2> QED
    BY <2>2
<1> QED
  BY <1>6, Zenon

\* A nonempty set of naturals with a bound has a greatest member.
LEMMA Greatest ==
    ASSUME NEW n \in Nat, NEW P, P \subseteq 1 .. n, P # {}
    PROVE  \E m \in P : \A i \in P : i <= m
<1> DEFINE bounds == {u \in Nat : \A i \in P : i <= u}
<1>1. n \in bounds
  OBVIOUS
<1> HIDE DEF bounds
<1>2. PICK m \in bounds : \A u \in bounds : m <= u
  <2>1. bounds \subseteq Nat
    BY Zenon DEF bounds
  <2> QED
    BY <1>1, <2>1, LeastNatural, Zenon
<1>3. m \in Nat /\ \A i \in P : i <= m
  BY Zenon DEF bounds
<1>4. m \in P
  <2> SUFFICES ASSUME m \notin P PROVE FALSE
    BY Zenon
  <2>1. m - 1 \in Nat /\ \A i \in P : i <= m - 1
    <3>1. PICK p \in P : TRUE
      BY Zenon
    <3>2. p \in 1 .. n /\ p <= m
      BY <1>3, Zenon
    <3>3. ASSUME NEW i \in P PROVE i <= m - 1
      <4>1. i \in 1 .. n /\ i <= m /\ i # m
        BY <1>3, Zenon
      <4> QED
        BY <1>3, <4>1
    <3> QED
      BY <1>3, <3>2, <3>3
  <2>2. m - 1 \in bounds
    BY <2>1, Zenon DEF bounds
  <2> QED
    BY <1>2, <1>3, <2>2
<1> QED
  BY <1>3, <1>4, Zenon

\* The last entry that the loop closes was closed while more than minSize_ were
\* open, and all the others before it.
LEMMA PrunedLeavesEnough ==
    ASSUME NEW n \in Nat, NEW es, DOMAIN es = 1 .. n, NEW old, old \subseteq OpenIn(es)
    PROVE  \/ Cardinality(OpenIn(es) \ Pruned(es, old)) >= MinSize
           \/ Cardinality(OpenIn(es) \ Pruned(es, old)) = Cardinality(OpenIn(es))
<1> DEFINE O == OpenIn(es)
           P == Pruned(es, old)
           Before(i) == {j \in old : j < i}
<1>1. O \subseteq 1 .. n /\ P \subseteq old /\ old \subseteq O
  BY Zenon DEF OpenIn, Pruned
<1>2. \A i \in P : Cardinality(O) - Cardinality(Before(i)) > MinSize
  BY Zenon DEF Pruned
<1> HIDE DEF O, P
<1>3. IsFiniteSet(O) /\ Cardinality(O) \in Nat
  <2>1. IsFiniteSet(1 .. n)
    BY IndexCount, Zenon
  <2> QED
    BY <1>1, <2>1, FS_Subset, FS_CardinalityType, Zenon
<1>4. CASE P = {}
  <2>1. O \ P = O
    BY <1>4, Zenon
  <2> QED
    BY <2>1, Zenon DEF O, P
<1>5. CASE P # {}
  <2>1. PICK m \in P : \A i \in P : i <= m
    <3>1. P \subseteq 1 .. n
      BY <1>1, Zenon
    <3> QED
      BY <1>5, <3>1, Greatest, Zenon
  <2>2. /\ P \subseteq Before(m) \cup {m} /\ m \notin Before(m)
        /\ IsFiniteSet(Before(m)) /\ Cardinality(Before(m)) \in Nat
    <3>1. ASSUME NEW i \in P, i # m PROVE i \in Before(m)
      <4>1. i \in old /\ i \in 1 .. n /\ m \in 1 .. n /\ i <= m
        BY <1>1, <2>1, Zenon
      <4> QED
        BY <3>1, <4>1
    <3>2. m \notin Before(m) /\ Before(m) \subseteq O
      <4>1. m \in 1 .. n
        BY <1>1, Zenon
      <4>2. ~(m < m)
        BY <4>1
      <4> QED
        BY <1>1, <4>2, Zenon
    <3>3. P \subseteq Before(m) \cup {m}
      BY <3>1, Zenon
    <3> HIDE DEF Before
    <3> QED
      BY <1>3, <3>2, <3>3, FS_Subset, FS_CardinalityType, Zenon
  <2>3. Cardinality(O) - Cardinality(Before(m)) > MinSize
    BY <1>2, Zenon
  <2> HIDE DEF Before
  <2>4. /\ IsFiniteSet(Before(m) \cup {m})
        /\ Cardinality(Before(m) \cup {m}) = Cardinality(Before(m)) + 1
    BY <2>2, FS_AddElement, Zenon
  <2>5. IsFiniteSet(P) /\ Cardinality(P) \in Nat /\ Cardinality(P) <= Cardinality(Before(m)) + 1
    BY <2>2, <2>4, FS_Subset, FS_CardinalityType, Zenon
  <2>6. Cardinality(O \ P) = Cardinality(O) - Cardinality(P)
    <3>1. Cardinality(O \ P) = Cardinality(O) - Cardinality(O \cap P)
      BY <1>3, FS_Difference, Zenon
    <3>2. O \cap P = P
      BY <1>1, Zenon
    <3> QED
      BY <3>1, <3>2, Zenon
  <2>7. Cardinality(O \ P) >= MinSize
    BY <1>3, <2>2, <2>3, <2>5, <2>6, PoolAssumption
  <2> QED
    BY <2>7, Zenon DEF O, P
<1> QED
  BY <1>4, <1>5, Zenon

\* PruneKeepsMinimum: a health pass closes idle connections only while more
\* than minSize_ are open, however many entries it finds too old.
THEOREM PruneHolds == Spec => PruneKeepsMinimum
<1>1. ASSUME RedisInv, healthPass
      PROVE  \/ Cardinality(OpenIn(entries')) >= MinSize
             \/ Cardinality(OpenIn(entries')) = answered'
  <2>1. PICK f \in Connects(ToConnect), pingFails \in SUBSET (Idle \cap OpenIn(entries)),
             old \in SUBSET Idle :
           /\ old \subseteq Idle \ (ToConnect \cup pingFails)
           /\ entries' = [i \in DOMAIN Rechecked(f, pingFails) |->
                            IF i \in Pruned(Rechecked(f, pingFails), old)
                              THEN Closed ELSE Rechecked(f, pingFails)[i]]
           /\ answered' = Cardinality(OpenIn(Rechecked(f, pingFails)))
    BY <1>1, Zenon DEF healthPass
  <2> DEFINE es == Rechecked(f, pingFails)
  <2>2. Len(entries) \in Nat /\ DOMAIN es = 1 .. Len(entries) /\ DOMAIN entries = 1 .. Len(entries)
    BY <1>1 DEF RedisInv, TypeOK, Rechecked
  <2>3. old \subseteq OpenIn(es)
    <3> SUFFICES ASSUME NEW i \in old PROVE i \in OpenIn(es)
      BY Zenon
    <3>1. i \in DOMAIN entries /\ i \in Idle \ (ToConnect \cup pingFails) /\ entries[i].conn # NoConn
      BY <2>1, Zenon DEF Idle, ToConnect, OpenIn
    <3>2. es[i] = Open(entries[i].conn, FALSE)
      BY <3>1, Zenon DEF Rechecked
    <3> QED
      BY <2>2, <3>1, <3>2 DEF OpenIn, Open
  <2> HIDE DEF es
  <2>4. OpenIn(entries') = OpenIn(es) \ Pruned(es, old)
    BY <2>1, Zenon DEF OpenIn, Closed, es
  <2> QED
    BY <2>1, <2>2, <2>3, <2>4, PrunedLeavesEnough, Zenon DEF es
<1> QED
  BY <1>1, InvHolds, PTL DEF Spec, PruneKeepsMinimum

-----------------------------------------------------------------------------
\* The MySQL pool.  It has the variables of the same names, and its handles.
VARIABLES open, dead

Mysql == INSTANCE MysqlConnectionPool

\* The connections of the entries are open and distinct, and an entry is
\* healthy only when it has one.
MysqlEntriesSound ==
    /\ \A i \in DOMAIN entries : entries[i].conn # NoConn => entries[i].conn \in open
    /\ \A i \in DOMAIN entries : entries[i].healthy => entries[i].conn # NoConn
    /\ \A i, j \in DOMAIN entries :
          i # j /\ entries[i].conn = entries[j].conn => entries[i].conn = NoConn


\* Before start() and after stop() there are no entries.
MysqlPhaseSound ==
    /\ phase = "new" => entries = <<>> /\ open = {} /\ \A t \in Threads : pc[t] # "using"
    /\ phase = "stopped" => entries = <<>>

MysqlInv == Mysql!TypeOK /\ MysqlEntriesSound /\ GuardsSound /\ Mysql!NoAbandonedEntry /\ MysqlPhaseSound

-----------------------------------------------------------------------------

\* A function on the indexes of a sequence is a sequence of the same length.
LEMMA SameShape ==
    ASSUME NEW S, NEW q \in Seq(S), NEW f \in [DOMAIN q -> S]
    PROVE  f \in Seq(S) /\ Len(f) = Len(q) /\ DOMAIN f = DOMAIN q
<1>1. Len(q) \in Nat /\ DOMAIN q = 1 .. Len(q)
    OBVIOUS
<1> QED BY <1>1, SequenceFromFunction, Zenon


\* What the entries made by connect(), closeEntry() and release() look like.
LEMMA MysqlEntryFacts ==
    /\ Mysql!Closed \in Mysql!Entry /\ Mysql!Closed.conn = NoConn /\ ~Mysql!Closed.inUse /\ ~Mysql!Closed.healthy
    /\ \A h \in Handles \cup {NoConn} : \A used \in BOOLEAN :
          /\ Mysql!Connected(h, used) \in Mysql!Entry
          /\ Mysql!Connected(h, used).conn = h
          /\ Mysql!Connected(h, used).healthy <=> h # NoConn
          /\ Mysql!Connected(h, used).inUse <=> (used /\ h # NoConn)
    /\ \A e \in Mysql!Entry : \A bad \in BOOLEAN :
          /\ Mysql!Returned(e, bad) \in Mysql!Entry
          /\ Mysql!Returned(e, bad).conn = e.conn
          /\ ~Mysql!Returned(e, bad).inUse
          /\ Mysql!Returned(e, bad).healthy => e.healthy
    BY Zenon DEF Mysql!Closed, Mysql!Connected, Mysql!Returned, Mysql!Entry

\* Repairing entries that cannot be repaired closes them and no others.
LEMMA MysqlRepairFacts ==
    ASSUME Mysql!TypeOK, NEW S
    PROVE  /\ Mysql!RepairFailed(S) \in Seq(Mysql!Entry)
           /\ Len(Mysql!RepairFailed(S)) = Len(entries)
           /\ DOMAIN Mysql!RepairFailed(S) = DOMAIN entries
           /\ \A j \in DOMAIN entries :
                 Mysql!RepairFailed(S)[j] = IF j \in S THEN Mysql!Closed ELSE entries[j]
<1>1. entries \in Seq(Mysql!Entry) /\ \A j \in DOMAIN entries : entries[j] \in Mysql!Entry
    BY DEF Mysql!TypeOK
<1>2. Mysql!RepairFailed(S) \in [DOMAIN entries -> Mysql!Entry]
    BY <1>1, MysqlEntryFacts, Zenon DEF Mysql!RepairFailed
<1> QED BY <1>1, <1>2, SameShape, Zenon DEF Mysql!RepairFailed

-----------------------------------------------------------------------------
(* The actions under mutex_ touch idle entries only.  What follows for the *)
(* guards, when no guard is given out ...                                  *)
\* A step that leaves the entries in use alone leaves the guards sound.
LEMMA GuardsKept ==
    ASSUME MysqlInv, phase = "running", phase' \in {"running", "stopping"}, guard' = guard,
           DOMAIN entries \subseteq DOMAIN entries',
           \A j \in DOMAIN entries : entries[j].inUse => entries'[j] = entries[j],
           \A j \in DOMAIN entries' : entries'[j].inUse => j \in DOMAIN entries /\ entries[j].inUse,
           \A t \in Threads : pc'[t] = "using" <=> pc[t] = "using"
    PROVE  GuardsSound' /\ Mysql!NoAbandonedEntry' /\ MysqlPhaseSound'
<1>1. GuardsSound'
  <2> SUFFICES /\ \A t \in Threads : pc[t] = "using" =>
                    /\ guard[t].index \in DOMAIN entries'
                    /\ entries'[guard[t].index].inUse
                    /\ entries'[guard[t].index].conn = guard[t].conn
                    /\ guard[t].conn # NoConn
               /\ \A t, u \in Threads : pc[t] = "using" /\ pc[u] = "using" /\ t # u =>
                    guard[t].index # guard[u].index
      BY Zenon DEF GuardsSound
  <2> QED BY Zenon DEF MysqlInv, GuardsSound
<1>2. Mysql!NoAbandonedEntry'
    BY Zenon DEF MysqlInv, Mysql!NoAbandonedEntry
<1>3. MysqlPhaseSound'
    BY Zenon DEF MysqlPhaseSound
<1> QED BY <1>1, <1>2, <1>3, Zenon

(* ... and when thread t is given the guard of entry i.                    *)
\* A thread given the guard of an idle or a new entry leaves the guards sound.
LEMMA GuardGiven ==
    ASSUME MysqlInv, phase = "running", phase' = "running",
           NEW t \in Threads, pc[t] # "using", NEW i \in DOMAIN entries', NEW h \in Handles,
           i \in DOMAIN entries => ~entries[i].inUse,
           guard' = [guard EXCEPT ![t] = [index |-> i, conn |-> h]],
           pc' = [pc EXCEPT ![t] = "using"],
           entries'[i].inUse, entries'[i].conn = h,
           DOMAIN entries \subseteq DOMAIN entries',
           \A j \in DOMAIN entries : entries[j].inUse => entries'[j] = entries[j],
           \A j \in DOMAIN entries' : j # i /\ entries'[j].inUse => j \in DOMAIN entries /\ entries[j].inUse
    PROVE  GuardsSound' /\ Mysql!NoAbandonedEntry' /\ MysqlPhaseSound'
<1>1. guard'[t].index = i /\ guard'[t].conn = h /\ h # NoConn /\ pc'[t] = "using"
    BY PoolAssumption, Zenon DEF MysqlInv, Mysql!TypeOK
<1>2. \A u \in Threads : u # t => guard'[u] = guard[u] /\ pc'[u] = pc[u]
    BY Zenon DEF MysqlInv, Mysql!TypeOK
<1>3. \A u \in Threads : u # t /\ pc'[u] = "using" =>
            /\ guard'[u].index \in DOMAIN entries
            /\ entries[guard'[u].index].inUse
            /\ entries[guard'[u].index].conn = guard'[u].conn
            /\ guard'[u].conn # NoConn
            /\ guard'[u].index # i
    BY <1>2 DEF MysqlInv, GuardsSound
<1>4. GuardsSound'
  <2> SUFFICES /\ \A u \in Threads : pc'[u] = "using" =>
                    /\ guard'[u].index \in DOMAIN entries'
                    /\ entries'[guard'[u].index].inUse
                    /\ entries'[guard'[u].index].conn = guard'[u].conn
                    /\ guard'[u].conn # NoConn
               /\ \A u, v \in Threads : pc'[u] = "using" /\ pc'[v] = "using" /\ u # v =>
                    guard'[u].index # guard'[v].index
      BY Zenon DEF GuardsSound
  <2>1. ASSUME NEW u \in Threads, pc'[u] = "using"
        PROVE  /\ guard'[u].index \in DOMAIN entries'
               /\ entries'[guard'[u].index].inUse
               /\ entries'[guard'[u].index].conn = guard'[u].conn
               /\ guard'[u].conn # NoConn
    <3>1. CASE u = t
        BY <1>1, <3>1, Zenon
    <3>2. CASE u # t
        BY <1>3, <2>1, <3>2, Zenon
    <3> QED BY <3>1, <3>2, Zenon
  <2>2. ASSUME NEW u \in Threads, NEW v \in Threads, pc'[u] = "using", pc'[v] = "using", u # v
        PROVE  guard'[u].index # guard'[v].index
    <3>1. CASE u # t /\ v # t
        BY <1>2, <2>2, <3>1 DEF MysqlInv, GuardsSound
    <3> QED BY <1>1, <1>3, <2>2, <3>1
  <2> QED BY <2>1, <2>2, Zenon
<1>5. Mysql!NoAbandonedEntry'
  <2> SUFFICES ASSUME NEW j \in DOMAIN entries', entries'[j].inUse
               PROVE  \E u \in Threads : pc'[u] = "using" /\ guard'[u].index = j
      BY Zenon DEF Mysql!NoAbandonedEntry
  <2>1. CASE j = i
      BY <1>1, <2>1, Zenon
  <2>2. CASE j # i
    <3>1. PICK u \in Threads : pc[u] = "using" /\ guard[u].index = j
        BY <2>2, Zenon DEF MysqlInv, Mysql!NoAbandonedEntry
    <3> QED BY <1>2, <3>1, Zenon
  <2> QED BY <2>1, <2>2, Zenon
<1>6. MysqlPhaseSound'
    BY Zenon DEF MysqlPhaseSound
<1> QED BY <1>4, <1>5, <1>6, Zenon

\* The scan finds a usable entry.
LEMMA MysqlTakeStep ==
    ASSUME MysqlInv, NEW t \in Threads, NEW i \in DOMAIN entries, pc[t] # "using",
           phase = "running", Mysql!TakeEntry(t, i), UNCHANGED <<phase, healthLoopAlive>>
    PROVE  MysqlInv'
<1> DEFINE skipped == {j \in Mysql!Idle : j < i}
<1>1. PICK h \in Mysql!Usable(entries[i]) :
          /\ entries' = [Mysql!RepairFailed(skipped) EXCEPT ![i] = Mysql!Connected(h, TRUE)]
          /\ guard' = [guard EXCEPT ![t] = [index |-> i, conn |-> h]]
          /\ Mysql!Reopen(Mysql!Conns(entries, skipped \cup {i}) \ {h}, {h})
    BY Zenon DEF Mysql!TakeEntry
<1>2. i \in Mysql!Idle /\ pc' = [pc EXCEPT ![t] = "using"]
    BY Zenon DEF Mysql!TakeEntry
<1>3. entries \in Seq(Mysql!Entry) /\ open \subseteq Handles /\ dead \subseteq open
        /\ \A j \in DOMAIN entries : /\ entries[j] \in Mysql!Entry
                                     /\ entries[j].conn \in Handles \cup {NoConn}
  <2>1. entries \in Seq(Mysql!Entry) /\ open \subseteq Handles /\ dead \subseteq open
      BY Zenon DEF MysqlInv, Mysql!TypeOK
  <2>2. \A j \in DOMAIN entries : entries[j] \in Mysql!Entry
      BY <2>1
  <2>3. \A e \in Mysql!Entry : e.conn \in Handles \cup {NoConn}
      BY Zenon DEF Mysql!Entry
  <2> QED BY <2>1, <2>2, <2>3, Zenon
<1>4. ~entries[i].inUse /\ \A j \in skipped : j \in DOMAIN entries /\ ~entries[j].inUse /\ j # i
  <2>1. ~entries[i].inUse /\ \A j \in skipped : j \in DOMAIN entries /\ ~entries[j].inUse /\ j < i
      BY <1>2, Zenon DEF Mysql!Idle
  <2>2. DOMAIN entries \subseteq Int
      BY <1>3
  <2>3. \A j \in skipped : j # i
      BY <2>1, <2>2
  <2> QED BY <2>1, <2>3, Zenon
<1>5. h \in Handles /\ (h = entries[i].conn \/ h \notin open)
  <2>1. CASE Mysql!CannotRepair(entries[i])
      BY <1>1, <2>1, Zenon DEF Mysql!Usable
  <2>2. CASE ~Mysql!CannotRepair(entries[i])
    <3>1. h = entries[i].conn
        BY <1>1, <2>2, Zenon DEF Mysql!Usable
    <3>2. entries[i].healthy \/ entries[i].conn # NoConn
        BY <2>2, Zenon DEF Mysql!CannotRepair
    <3>3. entries[i].conn # NoConn
        BY <3>2, Zenon DEF MysqlInv, MysqlEntriesSound
    <3> QED BY <1>3, <3>1, <3>3, Zenon
  <2> QED BY <2>1, <2>2, Zenon
<1>6. /\ Mysql!Connected(h, TRUE) \in Mysql!Entry /\ Mysql!Connected(h, TRUE).conn = h
      /\ Mysql!Connected(h, TRUE).healthy /\ Mysql!Connected(h, TRUE).inUse
    BY <1>5, MysqlEntryFacts, PoolAssumption, Zenon
<1>7. /\ entries' \in [DOMAIN entries -> Mysql!Entry]
      /\ entries'[i] = Mysql!Connected(h, TRUE)
      /\ \A j \in skipped : entries'[j] = Mysql!Closed
      /\ \A j \in DOMAIN entries : j # i /\ j \notin skipped => entries'[j] = entries[j]
  <2>1. /\ Mysql!RepairFailed(skipped) \in [DOMAIN entries -> Mysql!Entry]
        /\ \A j \in DOMAIN entries :
              Mysql!RepairFailed(skipped)[j] = IF j \in skipped THEN Mysql!Closed ELSE entries[j]
      BY MysqlRepairFacts, <1>3 DEF MysqlInv
  <2> HIDE DEF skipped
  <2> QED BY <1>1, <1>4, <1>6, <2>1, Zenon
<1>8. entries' \in Seq(Mysql!Entry) /\ Len(entries') = Len(entries) /\ DOMAIN entries' = DOMAIN entries
    BY <1>3, <1>7, SameShape, Zenon
<1>9. /\ open' = (open \ (Mysql!Conns(entries, skipped \cup {i}) \ {h})) \cup {h}
      /\ dead' = dead \ (Mysql!Conns(entries, skipped \cup {i}) \ {h})
    BY <1>1, Zenon DEF Mysql!Reopen
<1>10. open' \subseteq Handles /\ dead' \subseteq open' /\ h \in open'
    BY <1>3, <1>5, <1>9, Zenon
<1>11. ASSUME NEW j \in DOMAIN entries, j # i, j \notin skipped, entries[j].conn # NoConn
       PROVE  entries[j].conn \in open' /\ entries[j].conn # h
  <2>1. entries[j].conn \in open
      BY <1>11, Zenon DEF MysqlInv, MysqlEntriesSound
  <2>2. \A k \in skipped \cup {i} : k \in DOMAIN entries /\ k # j
      BY <1>4, <1>11, Zenon
  <2>3. entries[j].conn \notin Mysql!Conns(entries, skipped \cup {i})
      BY <1>11, <2>2, Zenon DEF MysqlInv, MysqlEntriesSound, Mysql!Conns
  <2>4. entries[j].conn # h
      BY <1>5, <1>11, <2>1, Zenon DEF MysqlInv, MysqlEntriesSound
  <2> QED BY <1>9, <2>1, <2>3, <2>4, Zenon
<1> HIDE DEF skipped
<1>12. MysqlEntriesSound'
  <2>1. ASSUME NEW j \in DOMAIN entries', entries'[j].conn # NoConn PROVE entries'[j].conn \in open'
    <3>1. j \notin skipped
        BY <1>7, <2>1, MysqlEntryFacts, Zenon
    <3>2. CASE j = i
        BY <1>6, <1>7, <1>10, <3>2, Zenon
    <3>3. CASE j # i
        BY <1>7, <1>8, <1>11, <2>1, <3>1, <3>3, Zenon
    <3> QED BY <3>2, <3>3, Zenon
  <2>2. ASSUME NEW j \in DOMAIN entries', entries'[j].healthy PROVE entries'[j].conn # NoConn
    <3>1. j \notin skipped
        BY <1>7, <2>2, MysqlEntryFacts, Zenon
    <3>2. CASE j = i
        BY <1>5, <1>6, <1>7, <3>2, PoolAssumption, Zenon
    <3>3. CASE j # i
        BY <1>7, <1>8, <2>2, <3>1, <3>3, Zenon DEF MysqlInv, MysqlEntriesSound
    <3> QED BY <3>2, <3>3, Zenon
  <2>3. ASSUME NEW j \in DOMAIN entries', NEW k \in DOMAIN entries',
               j # k, entries'[j].conn = entries'[k].conn, entries'[j].conn # NoConn
        PROVE  FALSE
    <3>1. j \notin skipped /\ k \notin skipped
        BY <1>7, <2>3, MysqlEntryFacts, Zenon
    <3>2. CASE j # i /\ k # i
        BY <1>7, <1>8, <2>3, <3>1, <3>2, Zenon DEF MysqlInv, MysqlEntriesSound
    <3>3. CASE j = i /\ k # i
        BY <1>6, <1>7, <1>8, <1>11, <2>3, <3>1, <3>3, Zenon
    <3>4. CASE j # i /\ k = i
        BY <1>6, <1>7, <1>8, <1>11, <2>3, <3>1, <3>4, Zenon
    <3> QED BY <2>3, <3>2, <3>3, <3>4, Zenon
  <2> QED BY <2>1, <2>2, <2>3, Zenon DEF MysqlEntriesSound
<1>13. GuardsSound' /\ Mysql!NoAbandonedEntry' /\ MysqlPhaseSound'
  <2>1. \A j \in DOMAIN entries : entries[j].inUse => entries'[j] = entries[j]
      BY <1>4, <1>7, Zenon
  <2>2. \A j \in DOMAIN entries' : j # i /\ entries'[j].inUse => j \in DOMAIN entries /\ entries[j].inUse
      BY <1>7, <1>8, MysqlEntryFacts
  <2>3. entries'[i].inUse /\ entries'[i].conn = h /\ phase' = "running"
      BY <1>6, <1>7, Zenon
  <2>4. guard' = [guard EXCEPT ![t] = [index |-> i, conn |-> h]] /\ pc' = [pc EXCEPT ![t] = "using"]
      BY <1>1, <1>2, Zenon
  <2>5. /\ i \in DOMAIN entries' /\ h \in Handles /\ DOMAIN entries \subseteq DOMAIN entries'
        /\ i \in DOMAIN entries => ~entries[i].inUse
      BY <1>4, <1>5, <1>8, Zenon
  <2> QED BY <2>1, <2>2, <2>3, <2>4, <2>5, GuardGiven, Zenon
<1>14. Mysql!TypeOK'
  <2>1. guard' \in [Threads -> [index : Nat, conn : Handles \cup {NoConn}]]
    <3>1. [index |-> i, conn |-> h] \in [index : Nat, conn : Handles \cup {NoConn}]
        BY <1>3, <1>5
    <3> QED BY <1>1, <3>1, Zenon DEF MysqlInv, Mysql!TypeOK
  <2>2. pc' \in [Threads -> {"outside", "waiting", "woken", "using"}]
      BY <1>2, Zenon DEF MysqlInv, Mysql!TypeOK
  <2> QED BY <1>8, <1>10, <2>1, <2>2, Zenon DEF MysqlInv, Mysql!TypeOK
<1> QED BY <1>12, <1>13, <1>14, Zenon DEF MysqlInv

\* What the entries and handles look like when every idle entry has been tried
\* and closed; what it means for the handles that stay.
LEMMA MysqlAllFailed ==
    ASSUME MysqlInv
    PROVE  /\ entries \in Seq(Mysql!Entry) /\ open \subseteq Handles /\ dead \subseteq open
           /\ Mysql!RepairFailed(Mysql!Idle) \in Seq(Mysql!Entry) /\ Len(Mysql!RepairFailed(Mysql!Idle)) = Len(entries)
           /\ DOMAIN Mysql!RepairFailed(Mysql!Idle) = DOMAIN entries
           /\ \A j \in Mysql!Idle : j \in DOMAIN entries /\ ~entries[j].inUse /\ Mysql!RepairFailed(Mysql!Idle)[j] = Mysql!Closed
           /\ \A j \in DOMAIN entries : j \notin Mysql!Idle =>
                 /\ entries[j].inUse /\ Mysql!RepairFailed(Mysql!Idle)[j] = entries[j]
                 /\ entries[j].conn # NoConn => entries[j].conn \in open \ Mysql!Conns(entries, Mysql!Idle)
<1>1. entries \in Seq(Mysql!Entry) /\ open \subseteq Handles /\ dead \subseteq open
    BY Zenon DEF MysqlInv, Mysql!TypeOK
<1>2. /\ Mysql!RepairFailed(Mysql!Idle) \in Seq(Mysql!Entry) /\ Len(Mysql!RepairFailed(Mysql!Idle)) = Len(entries)
      /\ DOMAIN Mysql!RepairFailed(Mysql!Idle) = DOMAIN entries
      /\ \A j \in DOMAIN entries : Mysql!RepairFailed(Mysql!Idle)[j] = IF j \in Mysql!Idle THEN Mysql!Closed ELSE entries[j]
    BY MysqlRepairFacts, Zenon DEF MysqlInv
<1>3. /\ \A j \in Mysql!Idle : j \in DOMAIN entries /\ ~entries[j].inUse
      /\ \A j \in DOMAIN entries : j \notin Mysql!Idle => entries[j].inUse
    BY Zenon DEF Mysql!Idle
<1>4. ASSUME NEW j \in DOMAIN entries, j \notin Mysql!Idle, entries[j].conn # NoConn
      PROVE  entries[j].conn \in open \ Mysql!Conns(entries, Mysql!Idle)
  <2>1. \A k \in Mysql!Idle : entries[k].conn # entries[j].conn
      BY <1>3, <1>4, Zenon DEF MysqlInv, MysqlEntriesSound
  <2> QED BY <1>4, <2>1, Zenon DEF MysqlInv, MysqlEntriesSound, Mysql!Conns
<1> QED BY <1>1, <1>2, <1>3, <1>4, Zenon

\* Nothing is usable and the pool grows by a connection.
LEMMA MysqlGrowStep ==
    ASSUME MysqlInv, NEW t \in Threads, pc[t] # "using", phase = "running",
           Mysql!GrowPool(t), UNCHANGED <<phase, healthLoopAlive>>
    PROVE  MysqlInv'
<1> DEFINE n == Len(entries) + 1
           es == Mysql!RepairFailed(Mysql!Idle)
<1>1. PICK h \in Handles \ open :
          /\ entries' = Append(es, Mysql!Connected(h, TRUE))
          /\ guard' = [guard EXCEPT ![t] = [index |-> n, conn |-> h]]
          /\ Mysql!Reopen(Mysql!Conns(entries, Mysql!Idle), {h})
    BY Zenon DEF Mysql!GrowPool
<1>2. Len(entries) < MaxSize /\ pc' = [pc EXCEPT ![t] = "using"]
    BY Zenon DEF Mysql!GrowPool, Mysql!HasRoom
<1>3. /\ entries \in Seq(Mysql!Entry) /\ open \subseteq Handles /\ dead \subseteq open
      /\ es \in Seq(Mysql!Entry) /\ Len(es) = Len(entries)
      /\ DOMAIN es = DOMAIN entries
      /\ \A j \in Mysql!Idle : j \in DOMAIN entries /\ ~entries[j].inUse /\ es[j] = Mysql!Closed
      /\ \A j \in DOMAIN entries : j \notin Mysql!Idle =>
            /\ entries[j].inUse /\ es[j] = entries[j]
            /\ entries[j].conn # NoConn => entries[j].conn \in open \ Mysql!Conns(entries, Mysql!Idle)
    BY MysqlAllFailed, Zenon
<1>4. /\ Mysql!Connected(h, TRUE) \in Mysql!Entry /\ Mysql!Connected(h, TRUE).conn = h /\ h # NoConn
      /\ Mysql!Connected(h, TRUE).healthy /\ Mysql!Connected(h, TRUE).inUse
    BY MysqlEntryFacts, PoolAssumption, Zenon
<1> HIDE DEF es
<1>5. /\ entries' \in Seq(Mysql!Entry) /\ Len(entries') = n
      /\ DOMAIN entries' = DOMAIN entries \cup {n} /\ n \notin DOMAIN entries
      /\ entries'[n] = Mysql!Connected(h, TRUE)
      /\ \A j \in DOMAIN entries : entries'[j] = es[j]
  <2> DEFINE c == Mysql!Connected(h, TRUE)
  <2>1. es \in Seq(Mysql!Entry) /\ c \in Mysql!Entry /\ Len(es) = Len(entries) /\ DOMAIN es = DOMAIN entries
      BY <1>3, <1>4, Zenon
  <2>2. entries' = Append(es, c)
      BY <1>1, Zenon
  <2> HIDE DEF c
  <2>3. /\ Append(es, c) \in Seq(Mysql!Entry)
        /\ Len(Append(es, c)) = Len(es) + 1
        /\ DOMAIN Append(es, c) = DOMAIN es \cup {Len(es) + 1}
        /\ Len(es) + 1 \notin DOMAIN es
        /\ \A i \in DOMAIN es : Append(es, c)[i] = es[i]
        /\ Append(es, c)[Len(es) + 1] = c
      BY <2>1, AppendFacts
  <2> QED BY <2>1, <2>2, <2>3, Zenon DEF c
<1>6. n \in Nat /\ n <= MaxSize
    BY <1>2, <1>3, PoolAssumption
<1> HIDE DEF n
<1>7. open' = (open \ Mysql!Conns(entries, Mysql!Idle)) \cup {h} /\ dead' = dead \ Mysql!Conns(entries, Mysql!Idle)
    BY <1>1, Zenon DEF Mysql!Reopen
<1>8. open' \subseteq Handles /\ dead' \subseteq open' /\ h \in open' /\ h \notin open
    BY <1>3, <1>7, Zenon
<1>9. MysqlEntriesSound'
  <2>1. ASSUME NEW j \in DOMAIN entries', entries'[j].conn # NoConn PROVE entries'[j].conn \in open'
    <3>1. CASE j = n
        BY <1>4, <1>5, <1>8, <3>1, Zenon
    <3>2. CASE j # n
        BY <1>3, <1>5, <1>7, <2>1, <3>2, MysqlEntryFacts
    <3> QED BY <3>1, <3>2, Zenon
  <2>2. ASSUME NEW j \in DOMAIN entries', entries'[j].healthy PROVE entries'[j].conn # NoConn
    <3>1. CASE j = n
        BY <1>4, <1>5, <3>1, Zenon
    <3>2. CASE j # n
      <4>1. j \in DOMAIN entries /\ entries'[j] = es[j]
          BY <1>5, <2>2, <3>2, Zenon
      <4>2. es[j] = entries[j]
        <5>1. ~Mysql!Closed.healthy
            BY MysqlEntryFacts, Zenon
        <5> QED BY <1>3, <2>2, <4>1, <5>1, Zenon
      <4>3. \A i \in DOMAIN entries : entries[i].healthy => entries[i].conn # NoConn
          BY Zenon DEF MysqlInv, MysqlEntriesSound
      <4> QED BY <2>2, <4>1, <4>2, <4>3, Zenon
    <3> QED BY <3>1, <3>2, Zenon
  <2>3. ASSUME NEW j \in DOMAIN entries', NEW k \in DOMAIN entries',
               j # k, entries'[j].conn = entries'[k].conn, entries'[j].conn # NoConn
        PROVE  FALSE
    <3>1. \A m \in DOMAIN entries' : m # n /\ entries'[m].conn # NoConn =>
              m \in DOMAIN entries /\ entries'[m] = entries[m] /\ entries[m].conn \in open
        BY <1>3, <1>5, MysqlEntryFacts
    <3>2. CASE j # n /\ k # n
        BY <2>3, <3>1, <3>2, Zenon DEF MysqlInv, MysqlEntriesSound
    <3>3. ASSUME NEW m \in DOMAIN entries', m # n, entries'[m].conn # NoConn
          PROVE  entries'[m].conn # entries'[n].conn
      <4>1. entries'[m].conn \in open
          BY <3>1, <3>3, Zenon
      <4>2. entries'[n].conn = h
          BY <1>4, <1>5, Zenon
      <4> QED BY <1>8, <4>1, <4>2, Zenon
    <3> QED BY <2>3, <3>2, <3>3, Zenon
  <2> QED BY <2>1, <2>2, <2>3, Zenon DEF MysqlEntriesSound
<1>10. GuardsSound' /\ Mysql!NoAbandonedEntry' /\ MysqlPhaseSound'
  <2>1. \A j \in DOMAIN entries : entries[j].inUse => entries'[j] = entries[j]
      BY <1>3, <1>5, Zenon
  <2>2. \A j \in DOMAIN entries' : j # n /\ entries'[j].inUse => j \in DOMAIN entries /\ entries[j].inUse
      BY <1>3, <1>5, MysqlEntryFacts
  <2>3. entries'[n].inUse /\ entries'[n].conn = h /\ phase' = "running"
      BY <1>4, <1>5, Zenon
  <2>4. guard' = [guard EXCEPT ![t] = [index |-> n, conn |-> h]] /\ pc' = [pc EXCEPT ![t] = "using"]
      BY <1>1, <1>2, Zenon DEF n
  <2>5. /\ n \in DOMAIN entries' /\ h \in Handles /\ DOMAIN entries \subseteq DOMAIN entries'
        /\ n \in DOMAIN entries => ~entries[n].inUse
      BY <1>5, Zenon
  <2> QED BY <2>1, <2>2, <2>3, <2>4, <2>5, GuardGiven, Zenon
<1>11. Mysql!TypeOK'
  <2>1. guard' \in [Threads -> [index : Nat, conn : Handles \cup {NoConn}]]
    <3>1. [index |-> n, conn |-> h] \in [index : Nat, conn : Handles \cup {NoConn}]
        BY <1>6, Zenon
    <3> QED BY <1>1, <3>1, Zenon DEF MysqlInv, Mysql!TypeOK
  <2>2. pc' \in [Threads -> {"outside", "waiting", "woken", "using"}]
      BY <1>2, Zenon DEF MysqlInv, Mysql!TypeOK
  <2> QED BY <1>5, <1>6, <1>8, <2>1, <2>2, Zenon DEF MysqlInv, Mysql!TypeOK
<1> QED BY <1>9, <1>10, <1>11, Zenon DEF MysqlInv

\* Nothing is usable and the thread waits; a failed connect() leaves an entry
\* without a connection.
LEMMA MysqlWaitStep ==
    ASSUME MysqlInv, NEW t \in Threads, pc[t] # "using", phase = "running",
           Mysql!WaitForConnection(t), UNCHANGED <<phase, healthLoopAlive>>
    PROVE  MysqlInv'
<1> DEFINE es == Mysql!RepairFailed(Mysql!Idle)
<1>1. /\ entries' = (IF Mysql!HasRoom THEN Append(es, Mysql!Closed) ELSE es)
      /\ open' = open \ Mysql!Conns(entries, Mysql!Idle) /\ dead' = dead \ Mysql!Conns(entries, Mysql!Idle)
      /\ pc' = [pc EXCEPT ![t] = "waiting"] /\ guard' = guard
    BY Zenon DEF Mysql!WaitForConnection, Mysql!Reopen
<1>2. /\ entries \in Seq(Mysql!Entry) /\ open \subseteq Handles /\ dead \subseteq open
      /\ es \in Seq(Mysql!Entry) /\ Len(es) = Len(entries)
      /\ DOMAIN es = DOMAIN entries
      /\ \A j \in Mysql!Idle : j \in DOMAIN entries /\ ~entries[j].inUse /\ es[j] = Mysql!Closed
      /\ \A j \in DOMAIN entries : j \notin Mysql!Idle =>
            /\ entries[j].inUse /\ es[j] = entries[j]
            /\ entries[j].conn # NoConn => entries[j].conn \in open \ Mysql!Conns(entries, Mysql!Idle)
    BY MysqlAllFailed, Zenon
<1>3. Mysql!Closed \in Mysql!Entry /\ Mysql!Closed.conn = NoConn /\ ~Mysql!Closed.inUse /\ ~Mysql!Closed.healthy
    BY MysqlEntryFacts, Zenon
<1> HIDE DEF es
<1>4. /\ entries' \in Seq(Mysql!Entry) /\ Len(entries') <= MaxSize
      /\ DOMAIN entries \subseteq DOMAIN entries'
      /\ \A j \in DOMAIN entries : entries'[j] = es[j]
      /\ \A j \in DOMAIN entries' : j \notin DOMAIN entries => entries'[j] = Mysql!Closed
  <2>1. CASE Mysql!HasRoom
    <3>1. entries' = Append(es, Mysql!Closed) /\ Len(es) < MaxSize
        BY <1>1, <1>2, <2>1, Zenon DEF Mysql!HasRoom
    <3>2. /\ Append(es, Mysql!Closed) \in Seq(Mysql!Entry)
          /\ Len(Append(es, Mysql!Closed)) = Len(es) + 1
          /\ DOMAIN Append(es, Mysql!Closed) = DOMAIN es \cup {Len(es) + 1}
          /\ \A i \in DOMAIN es : Append(es, Mysql!Closed)[i] = es[i]
          /\ Append(es, Mysql!Closed)[Len(es) + 1] = Mysql!Closed
        BY <1>2, <1>3, AppendFacts
    <3>3. Len(es) \in Nat
        BY <1>2
    <3>4. Len(entries') <= MaxSize
        BY <3>1, <3>2, <3>3, PoolAssumption
    <3> QED BY <1>2, <3>1, <3>2, <3>4, Zenon
  <2>2. CASE ~Mysql!HasRoom
    <3>1. entries' = es /\ Len(entries) <= MaxSize
        BY <1>1, <2>2, Zenon DEF MysqlInv, Mysql!TypeOK
    <3> QED BY <1>2, <3>1, Zenon
  <2> QED BY <2>1, <2>2, Zenon
<1>5. \A j \in DOMAIN entries' : entries'[j] # Mysql!Closed =>
          /\ j \in DOMAIN entries /\ j \notin Mysql!Idle /\ entries'[j] = entries[j]
          /\ entries[j].conn # NoConn => entries[j].conn \in open'
    BY <1>1, <1>2, <1>4, Zenon
<1>6. MysqlEntriesSound'
  <2>1. \A j \in DOMAIN entries' : entries'[j].conn # NoConn => entries'[j].conn \in open'
      BY <1>3, <1>5, Zenon
  <2>2. \A j \in DOMAIN entries' : entries'[j].healthy => entries'[j].conn # NoConn
      BY <1>3, <1>5, Zenon DEF MysqlInv, MysqlEntriesSound
  <2>3. \A j, k \in DOMAIN entries' :
            j # k /\ entries'[j].conn = entries'[k].conn => entries'[j].conn = NoConn
      BY <1>3, <1>5, Zenon DEF MysqlInv, MysqlEntriesSound
  <2> QED BY <2>1, <2>2, <2>3, Zenon DEF MysqlEntriesSound
<1>7. GuardsSound' /\ Mysql!NoAbandonedEntry' /\ MysqlPhaseSound'
  <2>1. \A j \in DOMAIN entries : entries[j].inUse => entries'[j] = entries[j]
      BY <1>2, <1>4, Zenon
  <2>2. \A j \in DOMAIN entries' : entries'[j].inUse => j \in DOMAIN entries /\ entries[j].inUse
      BY <1>3, <1>5, Zenon
  <2>3. \A u \in Threads : pc'[u] = "using" <=> pc[u] = "using"
      BY <1>1, Zenon DEF MysqlInv, Mysql!TypeOK
  <2>4. phase' \in {"running", "stopping"}
      BY Zenon
  <2> QED BY <1>1, <1>4, <2>1, <2>2, <2>3, <2>4, GuardsKept, Zenon
<1>8. Mysql!TypeOK'
  <2>1. pc' \in [Threads -> {"outside", "waiting", "woken", "using"}]
      BY <1>1, Zenon DEF MysqlInv, Mysql!TypeOK
  <2> QED BY <1>1, <1>2, <1>4, <2>1, Zenon DEF MysqlInv, Mysql!TypeOK
<1> QED BY <1>6, <1>7, <1>8, Zenon DEF MysqlInv

\* A health pass replaces and closes idle entries only, and the connections it
\* opens are new.
LEMMA MysqlHealthStep == MysqlInv /\ Mysql!healthPass => MysqlInv'
<1> SUFFICES ASSUME MysqlInv, Mysql!healthPass PROVE MysqlInv'
    OBVIOUS
<1> DEFINE T == Mysql!ToReconnect
           P == Mysql!PingFails
<1>1. PICK fresh \in [T -> (Handles \ open) \cup {NoConn}] :
          /\ \A i, j \in T : fresh[i] = fresh[j] /\ fresh[i] # NoConn => i = j
          /\ \E old \in SUBSET {i \in Mysql!Idle \ T : Mysql!Rechecked(fresh)[i].conn # NoConn} :
                /\ entries' = [i \in DOMAIN Mysql!Rechecked(fresh) |->
                                  IF i \in Mysql!Pruned(Mysql!Rechecked(fresh), old)
                                    THEN Mysql!Closed ELSE Mysql!Rechecked(fresh)[i]]
                /\ Mysql!Reopen(Mysql!Conns(entries, P \cup Mysql!Pruned(Mysql!Rechecked(fresh), old)),
                          Mysql!Conns(Mysql!Rechecked(fresh), T))
    BY Zenon DEF Mysql!healthPass
<1> DEFINE es == Mysql!Rechecked(fresh)
<1>2. PICK old \in SUBSET {i \in Mysql!Idle \ T : es[i].conn # NoConn} :
          /\ entries' = [i \in DOMAIN es |-> IF i \in Mysql!Pruned(es, old) THEN Mysql!Closed ELSE es[i]]
          /\ Mysql!Reopen(Mysql!Conns(entries, P \cup Mysql!Pruned(es, old)), Mysql!Conns(es, T))
    BY <1>1, Zenon
<1> DEFINE pr == Mysql!Pruned(es, old)
<1>3. /\ phase = "running" /\ phase' = "running" /\ guard' = guard
      /\ healthLoopAlive' = healthLoopAlive /\ pc' = Mysql!WakeAll
    BY Zenon DEF Mysql!healthPass
<1>4. /\ entries \in Seq(Mysql!Entry) /\ open \subseteq Handles /\ dead \subseteq open
      /\ \A i \in DOMAIN entries : entries[i] \in Mysql!Entry
    BY DEF MysqlInv, Mysql!TypeOK
<1>5. /\ T \subseteq Mysql!Idle /\ P \subseteq Mysql!Idle \ T /\ pr \subseteq Mysql!Idle \ T
      /\ Mysql!Idle \subseteq DOMAIN entries /\ \A i \in Mysql!Idle : ~entries[i].inUse
    BY Zenon DEF Mysql!ToReconnect, Mysql!PingFails, Mysql!Pruned, Mysql!Idle
<1>6. /\ DOMAIN es = DOMAIN entries
      /\ \A i \in T : es[i] = Mysql!Connected(fresh[i], FALSE)
      /\ \A i \in P : es[i] = Mysql!Closed
      /\ \A i \in DOMAIN entries : i \notin T /\ i \notin P => es[i] = entries[i]
    BY <1>5, Zenon DEF Mysql!Rechecked
<1>7. \A i \in T : /\ fresh[i] \in Handles \cup {NoConn} /\ fresh[i] \notin open
                   /\ Mysql!Connected(fresh[i], FALSE) \in Mysql!Entry
                   /\ Mysql!Connected(fresh[i], FALSE).conn = fresh[i]
                   /\ ~Mysql!Connected(fresh[i], FALSE).inUse
                   /\ Mysql!Connected(fresh[i], FALSE).healthy => fresh[i] # NoConn
  <2>1. \A i \in T : fresh[i] \in Handles \cup {NoConn} /\ fresh[i] \notin open
      BY <1>4, PoolAssumption, Zenon
  <2> QED BY <2>1, MysqlEntryFacts, Zenon
<1>8. Mysql!Closed \in Mysql!Entry /\ Mysql!Closed.conn = NoConn /\ ~Mysql!Closed.inUse /\ ~Mysql!Closed.healthy
    BY MysqlEntryFacts, Zenon
<1>9. open' = (open \ Mysql!Conns(entries, P \cup pr)) \cup Mysql!Conns(es, T)
        /\ dead' = dead \ Mysql!Conns(entries, P \cup pr)
    BY <1>2, Zenon DEF Mysql!Reopen
<1>10. DOMAIN entries' = DOMAIN entries
         /\ \A i \in DOMAIN entries : entries'[i] = IF i \in pr THEN Mysql!Closed ELSE es[i]
    BY <1>2, <1>6, Zenon
<1> HIDE DEF T, P, es, pr
<1>11. \A i \in DOMAIN entries :
           \/ entries'[i] = Mysql!Closed
           \/ i \in T /\ entries'[i] = Mysql!Connected(fresh[i], FALSE)
           \/ i \notin T \cup P \cup pr /\ entries'[i] = entries[i]
  <2> SUFFICES ASSUME NEW i \in DOMAIN entries, entries'[i] # Mysql!Closed,
                      ~(i \in T /\ entries'[i] = Mysql!Connected(fresh[i], FALSE))
               PROVE  i \notin T \cup P \cup pr /\ entries'[i] = entries[i]
      BY Zenon
  <2>1. i \notin pr /\ entries'[i] = es[i]
      BY <1>10, Zenon
  <2>2. i \notin T /\ i \notin P
      BY <1>6, <2>1, Zenon
  <2> QED BY <1>6, <2>1, <2>2, Zenon
<1>12. entries' \in [DOMAIN entries -> Mysql!Entry]
  <2>1. \A i \in DOMAIN entries : entries'[i] \in Mysql!Entry
      BY <1>4, <1>7, <1>8, <1>11, Zenon
  <2>2. entries' = [i \in DOMAIN entries |-> entries'[i]]
      BY <1>2, <1>6, Zenon DEF es
  <2> QED BY <2>1, <2>2, Zenon
<1>13. entries' \in Seq(Mysql!Entry) /\ Len(entries') = Len(entries)
    BY <1>4, <1>12, SameShape, Zenon
<1>14. Mysql!Conns(es, T) \subseteq Handles /\ \A i \in T : fresh[i] # NoConn => fresh[i] \in open'
  <2>1. \A i \in T : es[i].conn = fresh[i] /\ fresh[i] \in Handles \cup {NoConn}
      BY <1>6, <1>7, Zenon
  <2>2. Mysql!Conns(es, T) = {es[i].conn : i \in T} \ {NoConn}
      BY Zenon DEF Mysql!Conns
  <2>3. \A i \in T : fresh[i] # NoConn => fresh[i] \in Mysql!Conns(es, T)
      BY <2>1, <2>2, Zenon
  <2> QED BY <1>9, <2>1, <2>2, <2>3
<1>15. ASSUME NEW i \in DOMAIN entries, i \notin T \cup P \cup pr, entries[i].conn # NoConn
       PROVE  entries[i].conn \in open /\ entries[i].conn \in open'
  <2>1. entries[i].conn \in open
      BY <1>15, Zenon DEF MysqlInv, MysqlEntriesSound
  <2>2. \A k \in P \cup pr : k \in DOMAIN entries /\ k # i
      BY <1>5, <1>15, Zenon
  <2>3. entries[i].conn \notin Mysql!Conns(entries, P \cup pr)
      BY <1>15, <2>2, Zenon DEF MysqlInv, MysqlEntriesSound, Mysql!Conns
  <2> QED BY <1>9, <2>1, <2>3, Zenon
<1>16. MysqlEntriesSound'
  <2>1. ASSUME NEW i \in DOMAIN entries', entries'[i].conn # NoConn PROVE entries'[i].conn \in open'
    <3>1. i \in DOMAIN entries
        BY <1>10, Zenon
    <3>2. CASE i \in T /\ entries'[i] = Mysql!Connected(fresh[i], FALSE)
      <4>1. entries'[i].conn = fresh[i]
          BY <1>7, <3>2, Zenon
      <4> QED BY <1>14, <2>1, <3>2, <4>1, Zenon
    <3>3. CASE i \notin T \cup P \cup pr /\ entries'[i] = entries[i]
        BY <1>15, <2>1, <3>1, <3>3, Zenon
    <3>4. entries'[i] # Mysql!Closed
        BY <1>8, <2>1, Zenon
    <3> QED BY <1>11, <3>1, <3>2, <3>3, <3>4, Zenon
  <2>2. ASSUME NEW i \in DOMAIN entries', entries'[i].healthy PROVE entries'[i].conn # NoConn
    <3>1. entries[i].healthy => entries[i].conn # NoConn
        BY <1>10, Zenon DEF MysqlInv, MysqlEntriesSound
    <3>2. i \in DOMAIN entries
        BY <1>10
    <3>3. CASE i \in T /\ entries'[i] = Mysql!Connected(fresh[i], FALSE)
      <4>1. entries'[i].conn = fresh[i] /\ fresh[i] # NoConn
          BY <1>7, <2>2, <3>3, Zenon
      <4> QED BY <4>1, Zenon
    <3>4. CASE entries'[i] = entries[i]
        BY <2>2, <3>1, <3>4, Zenon
    <3>5. entries'[i] # Mysql!Closed
        BY <1>8, <2>2, Zenon
    <3> QED BY <1>11, <3>2, <3>3, <3>4, <3>5, Zenon
  <2>3. ASSUME NEW i \in DOMAIN entries', NEW j \in DOMAIN entries',
               i # j, entries'[i].conn = entries'[j].conn, entries'[i].conn # NoConn
        PROVE  FALSE
    <3>1. ASSUME NEW k \in {i, j}
          PROVE  \/ k \in T /\ entries'[k].conn = fresh[k]
                 \/ /\ k \notin T \cup P \cup pr /\ entries'[k] = entries[k]
                    /\ entries[k].conn \in open
      <4>1. k \in DOMAIN entries /\ entries'[k].conn # NoConn
          BY <1>10, <2>3, Zenon
      <4>2. CASE k \in T /\ entries'[k] = Mysql!Connected(fresh[k], FALSE)
          BY <1>7, <4>2, Zenon
      <4>3. CASE k \notin T \cup P \cup pr /\ entries'[k] = entries[k]
          BY <1>15, <4>1, <4>3, Zenon
      <4>4. entries'[k] # Mysql!Closed
          BY <1>8, <4>1, Zenon
      <4> QED BY <1>11, <4>1, <4>2, <4>3, <4>4, Zenon
    <3>2. CASE i \in T /\ j \in T
      <4>1. entries'[i].conn = fresh[i] /\ entries'[j].conn = fresh[j]
          BY <3>1, <3>2, Zenon
      <4>2. \A k, m \in T : fresh[k] = fresh[m] /\ fresh[k] # NoConn => k = m
          BY <1>1, Zenon
      <4> QED BY <2>3, <3>2, <4>1, <4>2, Zenon
    <3>3. CASE i \notin T /\ j \notin T
        BY <1>10, <2>3, <3>1, <3>3, Zenon DEF MysqlInv, MysqlEntriesSound
    <3> QED BY <1>7, <2>3, <3>1, <3>2, <3>3, Zenon
  <2> QED BY <2>1, <2>2, <2>3, Zenon DEF MysqlEntriesSound
<1>17. \A u \in Threads : pc'[u] = "using" <=> pc[u] = "using"
    BY <1>3, Zenon DEF Mysql!WakeAll
<1>18. GuardsSound' /\ Mysql!NoAbandonedEntry' /\ MysqlPhaseSound'
  <2>1. \A j \in DOMAIN entries : entries[j].inUse => entries'[j] = entries[j]
    <3> SUFFICES ASSUME NEW j \in DOMAIN entries, entries[j].inUse PROVE entries'[j] = entries[j]
        BY Zenon
    <3>1. j \notin T /\ j \notin P /\ j \notin pr
        BY <1>5, Zenon
    <3> QED BY <1>6, <1>10, <3>1, Zenon
  <2>2. \A j \in DOMAIN entries' : entries'[j].inUse => j \in DOMAIN entries /\ entries[j].inUse
      BY <1>7, <1>8, <1>10, <1>11, Zenon
  <2> QED BY <1>3, <1>10, <1>17, <2>1, <2>2, GuardsKept, Zenon
<1>19. Mysql!TypeOK'
  <2>1. pc' \in [Threads -> {"outside", "waiting", "woken", "using"}]
      BY <1>3, Zenon DEF Mysql!WakeAll, MysqlInv, Mysql!TypeOK
  <2>2. open' \subseteq Handles /\ dead' \subseteq open'
      BY <1>4, <1>9, <1>14, Zenon
  <2> QED BY <1>3, <1>13, <2>1, <2>2, Zenon DEF MysqlInv, Mysql!TypeOK
<1> QED BY <1>16, <1>18, <1>19, Zenon DEF MysqlInv

\* start() makes minSize_ entries, before any guard exists.
LEMMA MysqlStartStep == MysqlInv /\ Mysql!start => MysqlInv'
<1> SUFFICES ASSUME MysqlInv, Mysql!start PROVE MysqlInv'
    OBVIOUS
<1> USE PoolAssumption
<1>1. PICK conns \in [1 .. MinSize -> Handles \cup {NoConn}] :
          /\ \A i, j \in 1 .. MinSize : conns[i] = conns[j] /\ conns[i] # NoConn => i = j
          /\ entries' = [i \in 1 .. MinSize |-> Mysql!Connected(conns[i], FALSE)]
          /\ open' = {conns[i] : i \in 1 .. MinSize} \ {NoConn}
    BY Zenon DEF Mysql!start
<1>2. /\ phase = "new" /\ phase' = "running" /\ healthLoopAlive' = TRUE
      /\ UNCHANGED <<pc, guard, dead>> /\ open = {} /\ dead \subseteq open
      /\ \A t \in Threads : pc[t] # "using"
    BY Zenon DEF Mysql!start, MysqlInv, MysqlPhaseSound, Mysql!TypeOK
<1>3. \A i \in 1 .. MinSize : /\ Mysql!Connected(conns[i], FALSE) \in Mysql!Entry
                              /\ Mysql!Connected(conns[i], FALSE).conn = conns[i]
                              /\ ~Mysql!Connected(conns[i], FALSE).inUse
                              /\ Mysql!Connected(conns[i], FALSE).healthy => conns[i] # NoConn
    BY MysqlEntryFacts, Zenon
<1>4. entries' \in [1 .. MinSize -> Mysql!Entry]
    BY <1>1, <1>3, Zenon
<1>5. entries' \in Seq(Mysql!Entry) /\ Len(entries') = MinSize /\ DOMAIN entries' = 1 .. MinSize
    BY <1>4, SequenceFromFunction, Zenon
<1>6. \A i \in 1 .. MinSize : /\ entries'[i].conn = conns[i] /\ ~entries'[i].inUse
                              /\ entries'[i].healthy => conns[i] # NoConn
    BY <1>1, <1>3, Zenon
<1>7. MysqlEntriesSound'
  <2>1. \A i \in 1 .. MinSize : conns[i] # NoConn => conns[i] \in open'
      BY <1>1, Zenon
  <2>2. \A i, j \in 1 .. MinSize : conns[i] = conns[j] /\ conns[i] # NoConn => i = j
      BY <1>1, Zenon
  <2> QED BY <1>5, <1>6, <2>1, <2>2 DEF MysqlEntriesSound
<1>8. GuardsSound' /\ Mysql!NoAbandonedEntry' /\ MysqlPhaseSound'
    BY <1>2, <1>5, <1>6, Zenon DEF GuardsSound, Mysql!NoAbandonedEntry, MysqlPhaseSound
<1>9. Mysql!TypeOK'
  <2>1. open' \subseteq Handles /\ dead' \subseteq open'
      BY <1>1, <1>2, Zenon
  <2> QED BY <1>2, <1>5, <2>1, Zenon DEF MysqlInv, Mysql!TypeOK
<1> QED BY <1>7, <1>8, <1>9, Zenon DEF MysqlInv

\* release() frees the entry of the guard it is given, which no other guard has.
LEMMA MysqlReleaseStep ==
    ASSUME MysqlInv, NEW t \in Threads, Mysql!release(t)
    PROVE  MysqlInv'
<1> DEFINE i == guard[t].index
<1>1. /\ pc[t] = "using" /\ guard' = [guard EXCEPT ![t] = Mysql!NoGuard]
      /\ UNCHANGED <<phase, healthLoopAlive, open, dead>>
    BY Zenon DEF Mysql!release
<1>2. /\ entries \in Seq(Mysql!Entry) /\ guard \in [Threads -> [index : Nat, conn : Handles \cup {NoConn}]]
      /\ pc \in [Threads -> {"outside", "waiting", "woken", "using"}]
    BY Zenon DEF MysqlInv, Mysql!TypeOK
<1>3. /\ \A u \in Threads : u # t => guard'[u] = guard[u]
      /\ guard' \in [Threads -> [index : Nat, conn : Handles \cup {NoConn}]]
  <2>1. Mysql!NoGuard \in [index : Nat, conn : Handles \cup {NoConn}]
      BY DEF Mysql!NoGuard
  <2> QED BY <1>1, <1>2, <2>1, Zenon
<1>4. /\ pc' \in [Threads -> {"outside", "waiting", "woken", "using"}]
      /\ pc'[t] # "using"
      /\ \A u \in Threads : u # t => (pc'[u] = "using" <=> pc[u] = "using")
  <2> DEFINE left == [pc EXCEPT ![t] = "outside"]
  <2>1. /\ left \in [Threads -> {"outside", "waiting", "woken", "using"}] /\ left[t] # "using"
        /\ \A u \in Threads : u # t => left[u] = pc[u]
      BY <1>2
  <2> HIDE DEF left
  <2>2. pc' = left \/ \E u \in Threads : pc[u] = "waiting" /\ pc' = [left EXCEPT ![u] = "woken"]
      BY Zenon DEF Mysql!release, Mysql!NotifyOne, left
  <2>3. CASE pc' = left
      BY <2>1, <2>3
  <2>4. ASSUME NEW u \in Threads, pc[u] = "waiting", pc' = [left EXCEPT ![u] = "woken"]
        PROVE  <1>4!1 /\ <1>4!2 /\ <1>4!3
      BY <1>1, <2>1, <2>4, Zenon
  <2> QED BY <2>2, <2>3, <2>4
<1>5. /\ entries' \in Seq(Mysql!Entry) /\ Len(entries') = Len(entries) /\ DOMAIN entries' = DOMAIN entries
      /\ \A j \in DOMAIN entries : j # i => entries'[j] = entries[j]
      /\ i \in DOMAIN entries => /\ entries'[i].conn = entries[i].conn /\ ~entries'[i].inUse
                                 /\ entries'[i].healthy => entries[i].healthy
  <2>1. CASE i \in DOMAIN entries
    <3>1. PICK bad \in BOOLEAN : entries' = [entries EXCEPT ![i] = Mysql!Returned(entries[i], bad)]
        BY <2>1, Zenon DEF Mysql!release
    <3>2. entries[i] \in Mysql!Entry
        BY <1>2, <2>1
    <3>3. /\ Mysql!Returned(entries[i], bad) \in Mysql!Entry /\ Mysql!Returned(entries[i], bad).conn = entries[i].conn
          /\ ~Mysql!Returned(entries[i], bad).inUse
          /\ Mysql!Returned(entries[i], bad).healthy => entries[i].healthy
        BY <3>2, MysqlEntryFacts, Zenon
    <3>4. entries' \in [DOMAIN entries -> Mysql!Entry] /\ entries'[i] = Mysql!Returned(entries[i], bad)
            /\ \A j \in DOMAIN entries : j # i => entries'[j] = entries[j]
        BY <1>2, <2>1, <3>1, <3>3
    <3>5. entries' \in Seq(Mysql!Entry) /\ Len(entries') = Len(entries) /\ DOMAIN entries' = DOMAIN entries
        BY <1>2, <3>4, SameShape, Zenon
    <3> QED BY <3>3, <3>4, <3>5, Zenon
  <2>2. CASE i \notin DOMAIN entries
    <3>1. entries' = entries
        BY <2>2, Zenon DEF Mysql!release
    <3> QED BY <1>2, <2>2, <3>1
  <2> QED BY <2>1, <2>2
<1>6. MysqlEntriesSound'
  <2>1. \A j \in DOMAIN entries : /\ entries'[j].conn = entries[j].conn
                                  /\ entries'[j].healthy => entries[j].healthy
      BY <1>5, Zenon
  <2>2. DOMAIN entries' = DOMAIN entries /\ open' = open
      BY <1>1, <1>5, Zenon
  <2>3. MysqlEntriesSound
      BY Zenon DEF MysqlInv
  <2>4. \A j \in DOMAIN entries' : /\ entries'[j].conn # NoConn => entries'[j].conn \in open'
                                   /\ entries'[j].healthy => entries'[j].conn # NoConn
      BY <2>1, <2>2, <2>3, Zenon DEF MysqlEntriesSound
  <2>5. \A j, k \in DOMAIN entries' : j # k /\ entries'[j].conn = entries'[k].conn
                                        => entries'[j].conn = NoConn
      BY <2>1, <2>2, <2>3, Zenon DEF MysqlEntriesSound
  <2> QED BY <2>4, <2>5, Zenon DEF MysqlEntriesSound
<1>7. GuardsSound'
  <2> SUFFICES ASSUME phase # "stopped"
               PROVE  /\ \A u \in Threads : pc'[u] = "using" =>
                            /\ guard'[u].index \in DOMAIN entries'
                            /\ entries'[guard'[u].index].inUse
                            /\ entries'[guard'[u].index].conn = guard'[u].conn
                            /\ guard'[u].conn # NoConn
                      /\ \A u, v \in Threads : pc'[u] = "using" /\ pc'[v] = "using" /\ u # v =>
                            guard'[u].index # guard'[v].index
      BY <1>1, Zenon DEF GuardsSound
  <2>1. \A u \in Threads : pc'[u] = "using" =>
            u # t /\ pc[u] = "using" /\ guard'[u] = guard[u] /\ guard[u].index # i
      BY <1>1, <1>3, <1>4, Zenon DEF MysqlInv, GuardsSound
  <2> HIDE DEF i
  <2> QED BY <1>5, <2>1 DEF MysqlInv, GuardsSound
<1>8. Mysql!NoAbandonedEntry'
  <2> SUFFICES ASSUME NEW j \in DOMAIN entries', entries'[j].inUse
               PROVE  \E u \in Threads : pc'[u] = "using" /\ guard'[u].index = j
      BY DEF Mysql!NoAbandonedEntry
  <2>1. j \in DOMAIN entries /\ j # i /\ entries[j].inUse
      BY <1>5
  <2>2. PICK u \in Threads : pc[u] = "using" /\ guard[u].index = j
      BY <2>1, Zenon DEF MysqlInv, Mysql!NoAbandonedEntry
  <2>3. u # t
      BY <2>1, <2>2
  <2> QED BY <1>3, <1>4, <2>2, <2>3
<1>9. MysqlPhaseSound'
  <2>1. phase # "new"
      BY <1>1, Zenon DEF MysqlInv, MysqlPhaseSound
  <2>2. phase = "stopped" => entries' = <<>>
    <3>1. phase = "stopped" => entries = <<>>
        BY Zenon DEF MysqlInv, MysqlPhaseSound
    <3>2. phase = "stopped" => i \notin DOMAIN entries
        BY <3>1
    <3> QED BY <3>1, <3>2, Zenon DEF Mysql!release
  <2> QED BY <1>1, <2>1, <2>2, Zenon DEF MysqlPhaseSound
<1>10. Mysql!TypeOK'
    BY <1>1, <1>3, <1>4, <1>5, Zenon DEF MysqlInv, Mysql!TypeOK
<1> QED BY <1>6, <1>7, <1>8, <1>9, <1>10, Zenon DEF MysqlInv

\* acquire() takes an entry, makes one or waits.
LEMMA MysqlAcquireStep ==
    ASSUME MysqlInv, NEW t \in Threads, Mysql!acquire(t)
    PROVE  MysqlInv'
<1>1. /\ phase = "running" /\ pc[t] # "using" /\ UNCHANGED <<phase, healthLoopAlive>>
      /\ (\E i \in DOMAIN entries : Mysql!TakeEntry(t, i)) \/ Mysql!GrowPool(t) \/ Mysql!WaitForConnection(t)
    BY Zenon DEF Mysql!acquire
<1>2. CASE \E i \in DOMAIN entries : Mysql!TakeEntry(t, i)
    BY <1>1, <1>2, MysqlTakeStep, Zenon
<1>3. CASE Mysql!GrowPool(t)
    BY <1>1, <1>3, MysqlGrowStep, Zenon
<1>4. CASE Mysql!WaitForConnection(t)
    BY <1>1, <1>4, MysqlWaitStep, Zenon
<1> QED BY <1>1, <1>2, <1>3, <1>4, Zenon

\* A timeout, a wake-up or a stop only moves threads that hold no guard.
LEMMA MysqlLeaseUntouched ==
    ASSUME MysqlInv, UNCHANGED <<entries, guard, open>>,
           dead' \subseteq open, healthLoopAlive' \in BOOLEAN,
           phase' = phase \/ (phase = "running" /\ phase' = "stopping"),
           pc' \in [Threads -> {"outside", "waiting", "woken", "using"}],
           \A t \in Threads : pc'[t] = "using" <=> pc[t] = "using"
    PROVE  MysqlInv'
<1>1. Mysql!TypeOK' /\ MysqlEntriesSound'
    BY Zenon DEF MysqlInv, Mysql!TypeOK, MysqlEntriesSound
<1>2. GuardsSound'
    BY Zenon DEF MysqlInv, GuardsSound
<1>3. Mysql!NoAbandonedEntry'
    BY Zenon DEF MysqlInv, Mysql!NoAbandonedEntry
<1>4. MysqlPhaseSound'
    BY Zenon DEF MysqlInv, MysqlPhaseSound
<1> QED BY <1>1, <1>2, <1>3, <1>4, Zenon DEF MysqlInv

\* stop() after the join leaves no entries.
LEMMA MysqlStopFinishStep == MysqlInv /\ Mysql!stopFinish => MysqlInv'
<1> SUFFICES ASSUME MysqlInv, Mysql!stopFinish PROVE MysqlInv'
    OBVIOUS
<1>1. /\ phase' = "stopped" /\ entries' = <<>> /\ open' \subseteq open /\ dead' \subseteq open'
      /\ UNCHANGED <<healthLoopAlive, pc, guard>>
    BY Zenon DEF Mysql!stopFinish, Mysql!Reopen, MysqlInv, Mysql!TypeOK
<1>2. <<>> \in Seq(Mysql!Entry) /\ Len(<<>>) = 0 /\ DOMAIN <<>> = {}
    OBVIOUS
<1>3. Mysql!TypeOK'
    BY <1>1, <1>2, PoolAssumption DEF MysqlInv, Mysql!TypeOK
<1>4. MysqlEntriesSound' /\ GuardsSound' /\ Mysql!NoAbandonedEntry' /\ MysqlPhaseSound'
    BY <1>1, <1>2, Zenon DEF MysqlEntriesSound, GuardsSound, Mysql!NoAbandonedEntry, MysqlPhaseSound
<1> QED BY <1>3, <1>4, Zenon DEF MysqlInv

\* Before start() the invariant holds.
LEMMA MysqlInvInit == Mysql!Init => MysqlInv
<1> SUFFICES ASSUME Mysql!Init PROVE MysqlInv
    OBVIOUS
<1>1. <<>> \in Seq(Mysql!Entry) /\ Len(<<>>) = 0 /\ DOMAIN <<>> = {}
    OBVIOUS
<1>2. Mysql!NoGuard \in [index : Nat, conn : Handles \cup {NoConn}]
    BY DEF Mysql!NoGuard
<1>3. Mysql!TypeOK
  <2>1. guard \in [Threads -> [index : Nat, conn : Handles \cup {NoConn}]]
      BY <1>2, Zenon DEF Mysql!Init
  <2>2. pc \in [Threads -> {"outside", "waiting", "woken", "using"}]
      BY Zenon DEF Mysql!Init
  <2>3. entries \in Seq(Mysql!Entry) /\ Len(entries) <= MaxSize
      BY <1>1, PoolAssumption DEF Mysql!Init
  <2> QED BY <2>1, <2>2, <2>3, Zenon DEF Mysql!Init, Mysql!TypeOK
<1>4. MysqlEntriesSound /\ GuardsSound /\ Mysql!NoAbandonedEntry /\ MysqlPhaseSound
    BY <1>1, Zenon DEF Mysql!Init, MysqlEntriesSound, GuardsSound, Mysql!NoAbandonedEntry, MysqlPhaseSound
<1> QED BY <1>3, <1>4, Zenon DEF MysqlInv

\* Every step of the pool, of its users and of the server keeps it.
LEMMA MysqlInvStep == MysqlInv /\ [Mysql!Next]_(Mysql!vars) => MysqlInv'
<1> SUFFICES ASSUME MysqlInv, [Mysql!Next]_(Mysql!vars) PROVE MysqlInv'
    OBVIOUS
<1> DEFINE PC == [Threads -> {"outside", "waiting", "woken", "using"}]
<1>1. pc \in PC /\ healthLoopAlive \in BOOLEAN /\ dead \subseteq open
    BY Zenon DEF MysqlInv, Mysql!TypeOK
<1>2. Mysql!WakeAll \in PC /\ \A t \in Threads : Mysql!WakeAll[t] = "using" <=> pc[t] = "using"
    BY <1>1, Zenon DEF Mysql!WakeAll
<1>3. CASE Mysql!start
    BY <1>3, MysqlStartStep
<1>4. ASSUME NEW t \in Threads, Mysql!acquire(t) PROVE MysqlInv'
    BY <1>4, MysqlAcquireStep
<1>5. ASSUME NEW t \in Threads, Mysql!acquireTimeout(t) \/ Mysql!acquireStopped(t) \/ Mysql!wakeSpuriously(t)
      PROVE  MysqlInv'
  <2>1. /\ pc[t] # "using" /\ \E there \in {"outside", "woken"} : pc' = [pc EXCEPT ![t] = there]
        /\ UNCHANGED <<phase, entries, healthLoopAlive, guard, open, dead>>
      BY <1>5, Zenon DEF Mysql!acquireTimeout, Mysql!acquireStopped, Mysql!wakeSpuriously
  <2>2. pc' \in PC /\ \A u \in Threads : pc'[u] = "using" <=> pc[u] = "using"
      BY <1>1, <2>1, Zenon
  <2> QED BY <1>1, <2>1, <2>2, MysqlLeaseUntouched, Zenon
<1>6. ASSUME NEW t \in Threads, Mysql!release(t) PROVE MysqlInv'
    BY <1>6, MysqlReleaseStep
<1>7. CASE Mysql!healthPass
    BY <1>7, MysqlHealthStep
<1>8. CASE Mysql!healthLoopExit
    BY <1>1, <1>8, MysqlLeaseUntouched, Zenon DEF Mysql!healthLoopExit
<1>9. CASE Mysql!stopBegin
    BY <1>1, <1>2, <1>9, MysqlLeaseUntouched, Zenon DEF Mysql!stopBegin
<1>10. CASE Mysql!stopFinish
    BY <1>10, MysqlStopFinishStep
<1>11. CASE Mysql!dropConnection
    BY <1>1, <1>11, MysqlLeaseUntouched, Zenon DEF Mysql!dropConnection
<1>12. CASE UNCHANGED Mysql!vars
    BY <1>1, <1>12, MysqlLeaseUntouched DEF Mysql!vars
<1> QED BY <1>3, <1>4, <1>5, <1>6, <1>7, <1>8, <1>9, <1>10, <1>11, <1>12, Zenon DEF Mysql!Next

-----------------------------------------------------------------------------
\* The inductive invariant: sound entries, a live entry behind every guard and
\* a guard behind every entry in use.
THEOREM MysqlInvHolds == Mysql!Spec => []MysqlInv
    BY MysqlInvInit, MysqlInvStep, PTL DEF Mysql!Spec

\* The state keeps its types, and entries_ never outgrows maxSize_, however
\* many threads run acquire() at once.
THEOREM MysqlTypesHold == Mysql!Spec => []Mysql!TypeOK
<1>1. MysqlInv => Mysql!TypeOK
    BY Zenon DEF MysqlInv
<1> QED BY <1>1, MysqlInvHolds, PTL

\* No connection is lent twice, closed or replaced while a guard has it,
\* whatever acquire(), release() and healthLoop() do in between.
THEOREM MysqlLeaseHolds == Mysql!Spec => []Mysql!ExclusiveLease
<1>1. MysqlInv => Mysql!ExclusiveLease
  <2> SUFFICES ASSUME MysqlInv, phase # "stopped" PROVE Mysql!ExclusiveLease
      BY Zenon DEF Mysql!ExclusiveLease
  <2>1. \A t \in Threads : pc[t] = "using" =>
            /\ guard[t].index \in DOMAIN entries
            /\ entries[guard[t].index].inUse
            /\ entries[guard[t].index].conn = guard[t].conn
            /\ guard[t].conn \in open
            /\ guard[t].conn # NoConn
      BY Zenon DEF MysqlInv, GuardsSound, MysqlEntriesSound
  <2>2. \A t, u \in Threads : pc[t] = "using" /\ pc[u] = "using" /\ t # u =>
            guard[t].conn # guard[u].conn
      BY <2>1 DEF MysqlInv, GuardsSound, MysqlEntriesSound
  <2> QED BY <2>1, <2>2, Zenon DEF Mysql!ExclusiveLease
<1> QED BY <1>1, MysqlInvHolds, PTL

\* Every entry in use has a guard whose release() will bring it back.
THEOREM MysqlNoneAbandoned == Mysql!Spec => []Mysql!NoAbandonedEntry
<1>1. MysqlInv => Mysql!NoAbandonedEntry
    BY Zenon DEF MysqlInv
<1> QED BY <1>1, MysqlInvHolds, PTL

-----------------------------------------------------------------------------
(* The pool implements ConnectionLease.                                    *)



\* The connections of the entries are handles, at most maxSize_ of them, and
\* until stop() closes them the lent ones are among them, each lent once.
MysqlLentFromOwned ==
    /\ Mysql!Owned \subseteq Handles
    /\ Cardinality(Mysql!Owned) <= MaxSize
    /\ phase # "stopped" =>
          /\ \A t \in Threads : LeaseNow[t] # NoConn => LeaseNow[t] \in Mysql!Owned
          /\ \A t, u \in Threads : LeaseNow[t] = LeaseNow[u] /\ LeaseNow[t] # NoConn => t = u

\* The leases are of connections the MySQL pool owns, at most MaxSize of them.
LEMMA MysqlLentFacts == MysqlInv => MysqlLentFromOwned
<1> SUFFICES ASSUME MysqlInv PROVE MysqlLentFromOwned
    OBVIOUS
<1> DEFINE n == Len(entries)
           f == [i \in 1 .. n |-> entries[i].conn]
<1>1. n \in Nat /\ n <= MaxSize /\ DOMAIN entries = 1 .. n /\ entries \in Seq(Mysql!Entry)
    BY DEF MysqlInv, Mysql!TypeOK
<1>2. \A i \in 1 .. n : entries[i].conn \in Handles \cup {NoConn}
  <2>1. \A i \in 1 .. n : entries[i] \in Mysql!Entry
      BY <1>1
  <2> QED BY <2>1 DEF Mysql!Entry
<1>3. Mysql!Owned \subseteq Handles
    BY <1>1, <1>2, Zenon DEF Mysql!Owned, Mysql!Conns
<1>4. Cardinality(Mysql!Owned) <= MaxSize
  <2>1. DOMAIN f = 1 .. n /\ f = [i \in 1 .. n |-> f[i]]
      OBVIOUS
  <2>2. Mysql!Owned = {f[i] : i \in 1 .. n} \ {NoConn}
      BY <1>1, Zenon DEF Mysql!Owned, Mysql!Conns
  <2> HIDE DEF f, n
  <2>3. /\ IsFiniteSet({f[i] : i \in 1 .. n}) /\ Cardinality({f[i] : i \in 1 .. n}) \in Nat
        /\ Cardinality({f[i] : i \in 1 .. n}) <= n
      BY <1>1, <2>1, ImageBound, Zenon
  <2>4. Mysql!Owned \in SUBSET {f[i] : i \in 1 .. n}
      BY <2>2
  <2>5. IsFiniteSet(Mysql!Owned) /\ Cardinality(Mysql!Owned) <= Cardinality({f[i] : i \in 1 .. n})
      BY <2>3, <2>4, FS_Subset, Zenon
  <2>6. Cardinality(Mysql!Owned) \in Nat
      BY <2>5, FS_CardinalityType, Zenon
  <2> QED BY <1>1, <2>3, <2>5, <2>6, PoolAssumption
<1>5. ASSUME phase # "stopped", NEW t \in Threads, LeaseNow[t] # NoConn
      PROVE  /\ LeaseNow[t] \in Mysql!Owned /\ pc[t] = "using" /\ LeaseNow[t] = guard[t].conn
             /\ guard[t].index \in DOMAIN entries /\ entries[guard[t].index].conn = guard[t].conn
  <2>1. pc[t] = "using" /\ LeaseNow[t] = guard[t].conn
      BY <1>5, Zenon DEF LeaseNow
  <2>2. guard[t].index \in DOMAIN entries /\ entries[guard[t].index].conn = guard[t].conn
      BY <1>5, <2>1, Zenon DEF MysqlInv, GuardsSound
  <2> QED BY <1>5, <2>1, <2>2, Zenon DEF Mysql!Owned, Mysql!Conns
<1>6. ASSUME phase # "stopped", NEW t \in Threads, NEW u \in Threads,
             LeaseNow[t] = LeaseNow[u], LeaseNow[t] # NoConn
      PROVE  t = u
    BY <1>5, <1>6 DEF MysqlInv, GuardsSound, MysqlEntriesSound
<1> QED BY <1>3, <1>4, <1>5, <1>6, Zenon DEF MysqlLentFromOwned

\* A step of the running pool that lends nothing and takes nothing back is one
\* of maintenance, whatever it does to the entries.
LEMMA MysqlMaintainStep ==
    ASSUME MysqlLentFromOwned', phase # "stopped", phase' # "stopped", LeaseNow' = LeaseNow
    PROVE  Mysql!Lease!Next
<1>1. Mysql!Lease!Lent \subseteq Mysql!Owned'
    BY DEF Mysql!Lease!Lent, LeaseNow, MysqlLentFromOwned
<1>2. Mysql!Lease!Reshape(Mysql!Lease!Lent)
    BY <1>1, Zenon DEF Mysql!Lease!Reshape, MysqlLentFromOwned, Cardinality, Mysql!Lease!Cardinality
<1> QED BY <1>2, Zenon DEF Mysql!Lease!Next, Mysql!Lease!Maintain, LeaseNow

\* A step that gives one thread a connection lends it.
LEMMA MysqlLendStep ==
    ASSUME MysqlLentFromOwned', phase # "stopped", phase' # "stopped", NEW t \in Threads, NEW h,
           LeaseNow[t] = NoConn, h # NoConn, LeaseNow' = [LeaseNow EXCEPT ![t] = h]
    PROVE  Mysql!Lease!Next
<1>1. /\ LeaseNow'[t] = h
      /\ \A u \in Threads \ {t} : LeaseNow'[u] = LeaseNow[u]
    BY Zenon DEF LeaseNow
<1>2. h \in Mysql!Owned' /\ h \in Handles
    BY <1>1, Zenon DEF MysqlLentFromOwned
<1>3. Mysql!Lease!Lent = {LeaseNow[u] : u \in Threads} \ {NoConn}
    BY Zenon DEF Mysql!Lease!Lent, LeaseNow
<1>4. h \notin Mysql!Lease!Lent
    BY <1>1, <1>3, Zenon DEF MysqlLentFromOwned
<1>5. Mysql!Lease!Lent \subseteq Mysql!Owned'
    BY <1>1, <1>3 DEF MysqlLentFromOwned
<1>6. Mysql!Lease!Reshape(Mysql!Lease!Lent \cup {h})
    BY <1>2, <1>5, Zenon DEF Mysql!Lease!Reshape, MysqlLentFromOwned, Cardinality, Mysql!Lease!Cardinality
<1>7. Mysql!Lease!Lend(t)
    BY <1>2, <1>4, <1>6, Zenon DEF Mysql!Lease!Lend, LeaseNow
<1> QED BY <1>7, Zenon DEF Mysql!Lease!Next

\* release() gives the connection back; after stop() there may be none.
LEMMA MysqlGiveBackStep ==
    ASSUME MysqlInv, NEW t \in Threads, Mysql!release(t)
    PROVE  [Mysql!Lease!Next]_(Mysql!Lease!leaseVars)
<1>1. /\ phase' = phase /\ pc[t] = "using" /\ guard' = [guard EXCEPT ![t] = Mysql!NoGuard]
      /\ pc \in [Threads -> {"outside", "waiting", "woken", "using"}]
    BY Zenon DEF Mysql!release, MysqlInv, Mysql!TypeOK
<1>2. pc' \in [Threads -> {"outside", "waiting", "woken", "using"}]
      /\ \A u \in Threads : pc'[u] = "using" <=> (u # t /\ pc[u] = "using")
    BY <1>1, Zenon DEF Mysql!release, Mysql!NotifyOne
<1>3. LeaseNow' = [LeaseNow EXCEPT ![t] = NoConn]
    BY <1>1, <1>2, Zenon DEF LeaseNow, MysqlInv, Mysql!TypeOK
<1>4. Mysql!Owned' = Mysql!Owned
  <2>1. CASE guard[t].index \in DOMAIN entries
    <3>1. PICK bad \in BOOLEAN :
              entries' = [entries EXCEPT ![guard[t].index] = Mysql!Returned(entries[guard[t].index], bad)]
        BY <2>1, Zenon DEF Mysql!release
    <3>2. DOMAIN entries' = DOMAIN entries /\ \A i \in DOMAIN entries : entries'[i].conn = entries[i].conn
        BY <3>1, Zenon DEF Mysql!Returned, MysqlInv, Mysql!TypeOK
    <3> QED BY <3>2, Zenon DEF Mysql!Owned, Mysql!Conns
  <2>2. CASE guard[t].index \notin DOMAIN entries
      BY <2>2, Zenon DEF Mysql!release, Mysql!Owned
  <2> QED BY <2>1, <2>2
<1>5. CASE LeaseNow[t] = NoConn
  <2>1. LeaseNow' = LeaseNow
      BY <1>3, <1>5, Zenon DEF LeaseNow
  <2> QED BY <1>1, <1>4, <2>1, Zenon DEF Mysql!Lease!leaseVars, LeaseNow
<1>6. CASE LeaseNow[t] # NoConn
  <2>1. Mysql!Lease!GiveBack(t)
      BY <1>1, <1>3, <1>4, <1>6, Zenon DEF Mysql!Lease!GiveBack, LeaseNow
  <2> QED BY <2>1, Zenon DEF Mysql!Lease!Next
<1> QED BY <1>5, <1>6, Zenon

\* A thread that was outside and gets a guard is lent its connection.
LEMMA MysqlGuardLends ==
    ASSUME MysqlInv, MysqlInv', NEW t \in Threads, NEW g,
           phase = "running", phase' = phase, pc[t] # "using",
           pc' = [pc EXCEPT ![t] = "using"], guard' = [guard EXCEPT ![t] = g]
    PROVE  Mysql!Lease!Next
<1>1. MysqlLentFromOwned'
    BY MysqlLentFacts, PTL
<1>2. /\ pc \in [Threads -> {"outside", "waiting", "woken", "using"}]
      /\ guard \in [Threads -> [index : Nat, conn : Handles \cup {NoConn}]]
    BY Zenon DEF MysqlInv, Mysql!TypeOK
<1>3. LeaseNow[t] = NoConn /\ LeaseNow' = [LeaseNow EXCEPT ![t] = g.conn]
    BY <1>2, Zenon DEF LeaseNow
<1>4. pc'[t] = "using" /\ guard'[t] = g
    BY <1>2
<1>5. g.conn # NoConn
    BY <1>4, Zenon DEF MysqlInv, GuardsSound
<1> QED BY <1>1, <1>3, <1>5, MysqlLendStep, Zenon

\* Every step of the pool is a step of ConnectionLease or changes nothing there.
LEMMA MysqlRefineStep == MysqlInv /\ MysqlInv' /\ [Mysql!Next]_(Mysql!vars) => [Mysql!Lease!Next]_(Mysql!Lease!leaseVars)
<1> SUFFICES ASSUME MysqlInv, MysqlInv', [Mysql!Next]_(Mysql!vars) PROVE [Mysql!Lease!Next]_(Mysql!Lease!leaseVars)
    OBVIOUS
<1>1. MysqlLentFromOwned'
    BY MysqlLentFacts, PTL
<1>2. pc \in [Threads -> {"outside", "waiting", "woken", "using"}]
    BY Zenon DEF MysqlInv, Mysql!TypeOK
<1>3. ASSUME phase # "stopped", phase' # "stopped", guard' = guard,
             \A u \in Threads : pc'[u] = "using" <=> pc[u] = "using"
      PROVE  Mysql!Lease!Next
  <2>1. LeaseNow' = LeaseNow
      BY <1>3, Zenon DEF LeaseNow
  <2> QED BY <1>1, <1>3, <2>1, MysqlMaintainStep, Zenon
<1>4. ASSUME phase' = phase, guard' = guard, entries' = entries,
             \A u \in Threads : pc'[u] = "using" <=> pc[u] = "using"
      PROVE  UNCHANGED Mysql!Lease!leaseVars
    BY <1>4, Zenon DEF Mysql!Lease!leaseVars, Mysql!Owned
<1>5. CASE Mysql!start
    BY <1>3, <1>5, Zenon DEF Mysql!start
<1>6. ASSUME NEW t \in Threads, Mysql!acquire(t) PROVE Mysql!Lease!Next
  <2>1. phase = "running" /\ phase' = phase /\ pc[t] # "using"
      BY <1>6, Zenon DEF Mysql!acquire
  <2>2. ASSUME NEW i \in DOMAIN entries, Mysql!TakeEntry(t, i) PROVE Mysql!Lease!Next
    <3>1. PICK h : /\ guard' = [guard EXCEPT ![t] = [index |-> i, conn |-> h]]
                   /\ pc' = [pc EXCEPT ![t] = "using"]
        BY <2>2, Zenon DEF Mysql!TakeEntry
    <3> QED BY <2>1, <3>1, MysqlGuardLends, Zenon
  <2>3. CASE Mysql!GrowPool(t)
    <3>1. PICK h : /\ guard' = [guard EXCEPT ![t] = [index |-> Len(entries) + 1, conn |-> h]]
                   /\ pc' = [pc EXCEPT ![t] = "using"]
        BY <2>3, Zenon DEF Mysql!GrowPool
    <3> QED BY <2>1, <3>1, MysqlGuardLends, Zenon
  <2>4. CASE Mysql!WaitForConnection(t)
    <3>1. pc' = [pc EXCEPT ![t] = "waiting"] /\ guard' = guard
        BY <2>4 DEF Mysql!WaitForConnection
    <3> QED BY <1>2, <1>3, <2>1, <3>1
  <2> QED BY <1>6, <2>2, <2>3, <2>4, Zenon DEF Mysql!acquire
<1>7. ASSUME NEW t \in Threads, Mysql!acquireTimeout(t) \/ Mysql!acquireStopped(t) \/ Mysql!wakeSpuriously(t)
      PROVE  UNCHANGED Mysql!Lease!leaseVars
  <2>1. /\ pc[t] # "using" /\ \E there \in {"outside", "woken"} : pc' = [pc EXCEPT ![t] = there]
        /\ phase' = phase /\ entries' = entries /\ guard' = guard
      BY <1>7 DEF Mysql!acquireTimeout, Mysql!acquireStopped, Mysql!wakeSpuriously
  <2> QED BY <1>2, <1>4, <2>1
<1>8. ASSUME NEW t \in Threads, Mysql!release(t) PROVE [Mysql!Lease!Next]_(Mysql!Lease!leaseVars)
    BY <1>8, MysqlGiveBackStep
<1>9. \A u \in Threads : Mysql!WakeAll[u] = "using" <=> pc[u] = "using"
    BY <1>2 DEF Mysql!WakeAll
<1>10. CASE Mysql!healthPass
    BY <1>3, <1>9, <1>10, Zenon DEF Mysql!healthPass
<1>11. CASE Mysql!stopBegin
    BY <1>3, <1>9, <1>11 DEF Mysql!stopBegin
<1>12. CASE Mysql!healthLoopExit \/ Mysql!dropConnection \/ UNCHANGED Mysql!vars
  <2>1. phase' = phase /\ guard' = guard /\ entries' = entries /\ pc' = pc
      BY <1>12, Zenon DEF Mysql!healthLoopExit, Mysql!dropConnection, Mysql!vars
  <2> QED BY <1>4, <2>1
<1>13. CASE Mysql!stopFinish
  <2>1. /\ phase # "stopped" /\ phase' = "stopped" /\ entries' = <<>>
        /\ pc' = pc /\ guard' = guard
      BY <1>13, Zenon DEF Mysql!stopFinish
  <2>2. Mysql!Owned' = {}
      BY <2>1 DEF Mysql!Owned, Mysql!Conns
  <2>3. Mysql!Lease!Shutdown
      BY <2>1, <2>2 DEF Mysql!Lease!Shutdown
  <2> QED BY <2>3, Zenon DEF Mysql!Lease!Next
<1> QED BY <1>5, <1>6, <1>7, <1>8, <1>10, <1>11, <1>12, <1>13 DEF Mysql!Next

\* The pool implements ConnectionLease: whatever acquire(), release(), the health
\* thread and stop() do to the entries, their users see connections lent
\* exclusively and given back, and never more than maxSize_ of them.
THEOREM MysqlLeaseImplemented == Mysql!Spec => Mysql!LeaseSpec
<1>1. Mysql!Init => Mysql!Lease!Init
    BY DEF Mysql!Init, Mysql!Lease!Init, Mysql!Owned, Mysql!Conns
<1>2. Mysql!Spec => Mysql!Lease!Init /\ [][Mysql!Lease!Next]_(Mysql!Lease!leaseVars)
    BY <1>1, MysqlInvHolds, MysqlRefineStep, PTL DEF Mysql!Spec
<1> QED BY <1>2, Zenon DEF Mysql!LeaseSpec, Mysql!Lease!Spec
=============================================================================

------------------------- MODULE QueryServiceProofs -------------------------
(***************************************************************************)
(* Proofs about QueryService.tla, for any clients, requests, hosts and     *)
(* tables of any size.  ServiceInv carries the scope of every set of rows  *)
(* on its way to a client; RecentInv adds how old a cached answer can be.  *)
(***************************************************************************)
EXTENDS QueryService, FiniteSetTheorems, TLAPS

-----------------------------------------------------------------------------
\* Counting.  A family of subsets of a finite set has a least member, and so
\* has a set of numbers.
LEMMA LeastSubset ==
    ASSUME NEW S, IsFiniteSet(S), NEW T, T \subseteq SUBSET S, T # {}
    PROVE  \E U \in T : \A V \in T : V \subseteq U => V = U
<1>1. T \subseteq FiniteSubsetsOf(S)
  BY FS_FiniteSubsetsOfFinite, Zenon
<1>2. PICK U \in T : \A V \in T : ~(<<V, U>> \in StrictSubsetOrdering(S))
  BY <1>1, FS_StrictSubsetOrderingWellFounded, WFMin, Zenon
<1>3. ASSUME NEW V \in T, V \subseteq U PROVE V = U
  BY <1>2, <1>3, Zenon DEF StrictSubsetOrdering
<1> QED
  BY <1>3, Zenon

\* A nonempty set of naturals has a least member.
LEMMA LeastNatural ==
    ASSUME NEW T, T \subseteq Nat, T # {}
    PROVE  \E n \in T : \A m \in T : n <= m
<1>1. PICK k \in T : TRUE
  BY Zenon
<1> DEFINE B == 0 .. k
           F == {0 .. m : m \in {i \in T : i <= k}}
<1>2. IsFiniteSet(B)
  <2>1. 0 \in Int /\ k \in Int
    OBVIOUS
  <2> QED
    BY <2>1, FS_Interval, Zenon
<1>3. F # {} /\ F \subseteq SUBSET B
  OBVIOUS
<1>4. PICK U \in F : \A V \in F : V \subseteq U => V = U
  <2> HIDE DEF B, F
  <2> QED
    BY <1>2, <1>3, LeastSubset
<1>5. PICK n \in T : n <= k /\ U = 0 .. n
  BY Zenon
<1>6. ASSUME NEW m \in T PROVE n <= m
  <2> SUFFICES ASSUME m < n PROVE FALSE
    OBVIOUS
  <2>1. 0 .. m \in F /\ 0 .. m \subseteq U
    BY <1>5
  <2>2. 0 .. m = 0 .. n
    BY <1>4, <1>5, <2>1, Zenon
  <2> QED
    BY <2>2
<1> QED
  BY <1>6, Zenon

-----------------------------------------------------------------------------
\* The cache's key.

\* An element of a sequence is of its type.
LEMMA PartType == \A S : \A a \in Seq(S) : \A i \in 1 .. Len(a) : a[i] \in S
OBVIOUS

\* A request without the separator in its identifiers shares its cache entry
\* only with requests for the same scope.
LEMMA KeyIsScope ==
    ASSUME NEW req \in Requests, NEW other \in Requests, Plain(req.scope),
           latestScoreCacheKey(req.scope) = latestScoreCacheKey(other.scope)
    PROVE  req.scope = other.scope
\* What the provers know of sequences, as facts to cite.
<1>JoinedType. \A S : \A a, b \in Seq(S) : a \o b \in Seq(S)
  OBVIOUS
<1>SameParts. ASSUME NEW S, NEW a \in Seq(S), NEW b \in Seq(S), Len(a) = Len(b), \A i \in 1 .. Len(a) : a[i] = b[i]
              PROVE  a = b
  BY <1>SameParts
<1>WiderType. \A S, T : S \subseteq T => \A a \in Seq(S) : a \in Seq(T)
  OBVIOUS
\* Where a sequence joined by a separator keeps its parts.
<1>JoinedParts. ASSUME NEW S, ":" \in S, NEW a \in Seq(S), NEW x \in Seq(S), NEW u \in Seq(S), u = a \o (<<":">> \o x)
                PROVE  /\ Len(u) = Len(a) + 1 + Len(x)
                       /\ \A i \in 1 .. Len(a) : u[i] = a[i]
                       /\ u[Len(a) + 1] = ":"
                       /\ \A i \in 1 .. Len(x) : u[Len(a) + 1 + i] = x[i]
  <2> USE <1>JoinedParts
  <2> DEFINE v == <<":">> \o x
  <2>1. v \in Seq(S) /\ Len(v) = 1 + Len(x) /\ v[1] = ":" /\ \A i \in 1 .. Len(x) : v[1 + i] = x[i]
    OBVIOUS
  <2> HIDE DEF v
  <2>2. u = a \o v /\ Len(a) \in Nat /\ Len(x) \in Nat
    BY DEF v
  <2>3. Len(u) = Len(a) + Len(v)
    BY <2>1, <2>2
  <2>4. \A i \in 1 .. Len(a) : u[i] = a[i]
    BY <2>1, <2>2
  <2>5. \A j \in 1 .. Len(v) : u[Len(a) + j] = v[j]
    BY <2>1, <2>2
  <2>6. u[Len(a) + 1] = ":"
    BY <2>1, <2>2, <2>5
  <2>7. ASSUME NEW i \in 1 .. Len(x) PROVE u[Len(a) + 1 + i] = x[i]
    <3>1. 1 + i \in 1 .. Len(v) /\ Len(a) + (1 + i) = Len(a) + 1 + i
      BY <2>1, <2>2
    <3> QED
      BY <2>1, <2>5, <3>1, Zenon
  <2> QED
    BY <2>1, <2>2, <2>3, <2>4, <2>6, <2>7
<1> DEFINE S == STRING \cup {":"}
           s == req.scope
           t == other.scope
           Rest(scope) == scope.team \o (<<":">> \o scope.cluster)
<1>1. /\ s \in [tenant : Seq(S), team : Seq(S), cluster : Seq(S)]
      /\ t \in [tenant : Seq(S), team : Seq(S), cluster : Seq(S)]
      /\ \A id \in {s.tenant, s.team, s.cluster} : \A i \in DOMAIN id : id[i] # ":"
  <2>1. \A q \in Seq(STRING) : q \in Seq(S)
    BY <1>WiderType, Zenon
  <2> HIDE DEF S
  <2> QED
    BY <2>1, RequestAssumption, Zenon DEF Plain
<1>0. ":" \in S /\ <<":">> \in Seq(S)
  OBVIOUS
<1> HIDE DEF S
<1>JoinedTwice. \A a, b, c \in Seq(S) : (a \o b) \o c = a \o (b \o c)
  <2> TAKE a, b, c \in Seq(S)
  <2> DEFINE u == (a \o b) \o c
             v == a \o (b \o c)
  <2>1. u \in Seq(S) /\ v \in Seq(S) /\ Len(u) = Len(v)
    OBVIOUS
  <2>2. ASSUME NEW i \in 1 .. Len(u) PROVE u[i] = v[i]
    OBVIOUS
  <2> HIDE DEF u, v
  <2> QED
    BY <2>1, <2>2, <1>SameParts, Zenon DEF u, v
<1>2. ASSUME NEW scope \in {s, t}
      PROVE  latestScoreCacheKey(scope) = scope.tenant \o (<<":">> \o Rest(scope))
  <2> DEFINE a == scope.tenant
             b == scope.team
             c == scope.cluster
             d == <<":">>
  <2>1. a \in Seq(S) /\ b \in Seq(S) /\ c \in Seq(S) /\ d \in Seq(S)
    <3>1. d \in Seq(S)
      BY <1>0, Zenon
    <3>2. scope \in [tenant : Seq(S), team : Seq(S), cluster : Seq(S)]
      BY <1>1, Zenon
    <3> QED
      BY <3>1, <3>2, Zenon
  <2>2. latestScoreCacheKey(scope) = (((a \o d) \o b) \o d) \o c
    BY Zenon DEF latestScoreCacheKey
  <2> HIDE DEF a, b, c, d
  <2>3. ((a \o d) \o b) \in Seq(S) /\ a \o d \in Seq(S) /\ d \o c \in Seq(S)
        /\ b \o (d \o c) \in Seq(S)
    BY <2>1, <1>JoinedType, Zenon
  <2> DEFINE ad == a \o d
             adb == ad \o b
             dc == d \o c
             bdc == b \o dc
  <2>4. ad \in Seq(S) /\ adb \in Seq(S) /\ dc \in Seq(S) /\ bdc \in Seq(S)
    BY <2>3, Zenon
  <2>5. (adb \o d) \o c = adb \o dc
    <3>1. adb \in Seq(S) /\ d \in Seq(S) /\ c \in Seq(S)
      BY <2>1, <2>4, Zenon
    <3> HIDE DEF adb
    <3> QED
      BY <3>1, <1>JoinedTwice, Zenon
  <2>6. adb \o dc = ad \o bdc
    <3>1. ad \in Seq(S) /\ b \in Seq(S) /\ dc \in Seq(S)
      BY <2>1, <2>4, Zenon
    <3> HIDE DEF ad, dc
    <3> QED
      BY <3>1, <1>JoinedTwice, Zenon
  <2>7. ad \o bdc = a \o (d \o bdc)
    <3>1. a \in Seq(S) /\ d \in Seq(S) /\ bdc \in Seq(S)
      BY <2>1, <2>4, Zenon
    <3> HIDE DEF bdc
    <3> QED
      BY <3>1, <1>JoinedTwice, Zenon
  <2> QED
    BY <2>2, <2>5, <2>6, <2>7, Zenon DEF a, b, c, d
\* Three parts joined by two separators, and where they are in the whole.
<1> DEFINE Joined(a, b, c) == a \o (<<":">> \o (b \o (<<":">> \o c)))
           Split(a, b, c, u) == /\ Len(u) = Len(a) + Len(b) + Len(c) + 2
                                /\ \A i \in 1 .. Len(a) : u[i] = a[i]
                                /\ \A i \in 1 .. Len(b) : u[Len(a) + 1 + i] = b[i]
                                /\ \A i \in 1 .. Len(c) : u[Len(a) + Len(b) + 2 + i] = c[i]
                                /\ u[Len(a) + 1] = ":" /\ u[Len(a) + Len(b) + 2] = ":"
                                /\ Len(a) \in Nat /\ Len(b) \in Nat /\ Len(c) \in Nat
           Clean(a) == \A i \in DOMAIN a : a[i] # ":"
<1>Parts. \A a, b, c \in Seq(S) : Split(a, b, c, Joined(a, b, c))
  <2> SUFFICES ASSUME NEW a \in Seq(S), NEW b \in Seq(S), NEW c \in Seq(S)
               PROVE  Split(a, b, c, Joined(a, b, c))
    BY Zenon
  <2> DEFINE v == b \o (<<":">> \o c)
             u == a \o (<<":">> \o v)
  <2>0. v \in Seq(S) /\ u \in Seq(S)
    <3>1. <<":">> \o c \in Seq(S)
      BY <1>0, <1>JoinedType, Zenon
    <3>2. v \in Seq(S)
      BY <3>1, <1>JoinedType, Zenon
    <3>3. <<":">> \o v \in Seq(S)
      BY <1>0, <3>2, <1>JoinedType, Zenon
    <3> QED
      BY <3>2, <3>3, <1>JoinedType, Zenon
  <2>2. /\ Len(v) = Len(b) + 1 + Len(c)
        /\ \A i \in 1 .. Len(b) : v[i] = b[i]
        /\ v[Len(b) + 1] = ":"
        /\ \A i \in 1 .. Len(c) : v[Len(b) + 1 + i] = c[i]
    <3>1. PICK w \in Seq(S) : w = b \o (<<":">> \o c)
      BY <2>0, Zenon
    <3>2. v = w
      BY <3>1, Zenon
    <3> HIDE DEF v
    <3>3. /\ Len(w) = Len(b) + 1 + Len(c)
          /\ \A i \in 1 .. Len(b) : w[i] = b[i]
          /\ w[Len(b) + 1] = ":"
          /\ \A i \in 1 .. Len(c) : w[Len(b) + 1 + i] = c[i]
      BY <1>0, <3>1, <1>JoinedParts
    <3> QED
      BY <3>2, <3>3, Zenon
  <2>a. u = Joined(a, b, c)
    BY Zenon
  <2> HIDE DEF v
  <2>1. /\ Len(u) = Len(a) + 1 + Len(v)
        /\ \A i \in 1 .. Len(a) : u[i] = a[i]
        /\ u[Len(a) + 1] = ":"
        /\ \A i \in 1 .. Len(v) : u[Len(a) + 1 + i] = v[i]
    <3>1. PICK w \in Seq(S) : w = a \o (<<":">> \o v)
      BY <2>0, Zenon
    <3>2. u = w
      BY <3>1, Zenon
    <3> HIDE DEF u
    <3>3. /\ Len(w) = Len(a) + 1 + Len(v)
          /\ \A i \in 1 .. Len(a) : w[i] = a[i]
          /\ w[Len(a) + 1] = ":"
          /\ \A i \in 1 .. Len(v) : w[Len(a) + 1 + i] = v[i]
      BY <1>0, <2>0, <3>1, <1>JoinedParts
    <3> QED
      BY <3>2, <3>3, Zenon
  <2> HIDE DEF u
  <2>3. Len(a) \in Nat /\ Len(b) \in Nat /\ Len(c) \in Nat
    OBVIOUS
  <2>4. Len(u) = Len(a) + Len(b) + Len(c) + 2
    BY <2>1, <2>2, <2>3
  <2>5. ASSUME NEW i \in 1 .. Len(b) PROVE u[Len(a) + 1 + i] = b[i]
    <3>1. i \in 1 .. Len(v)
      BY <2>2, <2>3
    <3> QED
      BY <2>1, <2>2, <3>1, Zenon
  <2>6. u[Len(a) + Len(b) + 2] = ":"
    <3>1. Len(b) + 1 \in 1 .. Len(v) /\ Len(a) + 1 + (Len(b) + 1) = Len(a) + Len(b) + 2
      BY <2>2, <2>3
    <3> QED
      BY <2>1, <2>2, <3>1, Zenon
  <2>7. ASSUME NEW i \in 1 .. Len(c) PROVE u[Len(a) + Len(b) + 2 + i] = c[i]
    <3>1. Len(b) + 1 + i \in 1 .. Len(v) /\ Len(a) + 1 + (Len(b) + 1 + i) = Len(a) + Len(b) + 2 + i
      BY <2>2, <2>3
    <3> QED
      BY <2>1, <2>2, <3>1, Zenon
  <2>8. Split(a, b, c, u)
    BY <2>1, <2>3, <2>4, <2>5, <2>6, <2>7, Zenon
  <2> HIDE DEF Split, Joined
  <2> QED
    BY <2>a, <2>8, Zenon
\* When no part holds a separator, there are no others.
<1>Same. \A a \in Seq(S) : Clean(a) => \A b \in Seq(S) : Clean(b) => \A c \in Seq(S) : Clean(c) =>
             \A x, y, z \in Seq(S) : Joined(a, b, c) = Joined(x, y, z) => a = x /\ b = y /\ c = z
  <2> HIDE DEF Joined
  <2> SUFFICES ASSUME NEW a \in Seq(S), Clean(a), NEW b \in Seq(S), Clean(b), NEW c \in Seq(S), Clean(c),
                      NEW x \in Seq(S), NEW y \in Seq(S), NEW z \in Seq(S),
                      Joined(a, b, c) = Joined(x, y, z)
               PROVE  a = x /\ b = y /\ c = z
    BY Zenon
  <2>0. PICK u : u = Joined(a, b, c) /\ u = Joined(x, y, z)
    BY Zenon
  <2>1. Split(a, b, c, u) /\ Split(x, y, z, u)
    <3> HIDE DEF Split
    <3>1. Split(a, b, c, Joined(a, b, c)) /\ Split(x, y, z, Joined(x, y, z))
      BY <1>Parts, Zenon
    <3> QED
      BY <2>0, <3>1, Zenon
  <2>3. DOMAIN a = 1 .. Len(a) /\ DOMAIN b = 1 .. Len(b) /\ DOMAIN c = 1 .. Len(c)
    OBVIOUS
  <2>l. PICK la \in Nat, lb \in Nat, lc \in Nat : la = Len(a) /\ lb = Len(b) /\ lc = Len(c)
    BY <2>1, Zenon
  <2>m. PICK lx \in Nat, ly \in Nat, lz \in Nat : lx = Len(x) /\ ly = Len(y) /\ lz = Len(z)
    BY <2>1, Zenon
  <2>n. Len(u) = la + lb + lc + 2 /\ Len(u) = lx + ly + lz + 2
    BY <2>1, <2>l, <2>m, Zenon
  <2>p. /\ \A i \in 1 .. la : u[i] = a[i] /\ a[i] # ":"
        /\ \A i \in 1 .. lb : u[la + 1 + i] = b[i] /\ b[i] # ":"
        /\ \A i \in 1 .. lc : u[la + lb + 2 + i] = c[i] /\ c[i] # ":"
    BY <2>1, <2>3, <2>l, Zenon
  <2>q. /\ \A i \in 1 .. lx : u[i] = x[i]
        /\ \A i \in 1 .. ly : u[lx + 1 + i] = y[i]
        /\ \A i \in 1 .. lz : u[lx + ly + 2 + i] = z[i]
    BY <2>1, <2>m
  <2>4. ASSUME NEW j \in 1 .. Len(u), u[j] = ":"
        PROVE  j = la + 1 \/ j = la + lb + 2
    <3>0. j \in 1 .. la + lb + lc + 2
      BY <2>n, Zenon
    <3>1. \/ j = la + 1 \/ j = la + lb + 2 \/ j \in 1 .. la
          \/ j - (la + 1) \in 1 .. lb \/ j - (la + lb + 2) \in 1 .. lc
      BY <3>0
    <3>2. j \notin 1 .. la
      BY <2>4, <2>p, Zenon
    <3>3. ASSUME NEW i \in 1 .. lb, j = la + 1 + i PROVE FALSE
      BY <2>4, <2>p, <3>3, Zenon
    <3>4. ASSUME NEW i \in 1 .. lc, j = la + lb + 2 + i PROVE FALSE
      BY <2>4, <2>p, <3>4, Zenon
    <3>5. j = la + 1 + (j - (la + 1)) /\ j = la + lb + 2 + (j - (la + lb + 2))
      BY <3>0
    <3> QED
      BY <3>1, <3>2, <3>3, <3>4, <3>5, Zenon
  <2>5. lx = la /\ ly = lb /\ lz = lc
    <3>1. lx + 1 \in 1 .. lx + ly + lz + 2 /\ lx + ly + 2 \in 1 .. lx + ly + lz + 2
      OBVIOUS
    <3>2. u[lx + 1] = ":" /\ u[lx + ly + 2] = ":"
      BY <2>1, <2>m, Zenon
    <3>3. /\ lx + 1 = la + 1 \/ lx + 1 = la + lb + 2
          /\ lx + ly + 2 = la + 1 \/ lx + ly + 2 = la + lb + 2
      BY <2>4, <2>n, <3>1, <3>2, Zenon
    <3> QED
      BY <2>n, <3>3
  <2>6. a = x
    <3>1. \A i \in 1 .. la : a[i] = x[i]
      BY <2>5, <2>p, <2>q, Zenon
    <3>2. Len(a) = Len(x) /\ \A i \in 1 .. Len(a) : a[i] = x[i]
      BY <2>5, <2>l, <2>m, <3>1, Zenon
    <3> QED
      BY <3>2, <1>SameParts, Zenon
  <2>7. b = y
    <3>1. \A i \in 1 .. lb : b[i] = y[i]
      BY <2>5, <2>p, <2>q, Zenon
    <3>2. Len(b) = Len(y) /\ \A i \in 1 .. Len(b) : b[i] = y[i]
      BY <2>5, <2>l, <2>m, <3>1, Zenon
    <3> QED
      BY <3>2, <1>SameParts, Zenon
  <2>8. c = z
    <3>1. \A i \in 1 .. lc : c[i] = z[i]
      BY <2>5, <2>p, <2>q, Zenon
    <3>2. Len(c) = Len(z) /\ \A i \in 1 .. Len(c) : c[i] = z[i]
      BY <2>5, <2>l, <2>m, <3>1, Zenon
    <3> QED
      BY <3>2, <1>SameParts, Zenon
  <2> QED
    BY <2>6, <2>7, <2>8, Zenon
<1>3. s.tenant = t.tenant /\ s.team = t.team /\ s.cluster = t.cluster
  <2>1. /\ s.tenant \in Seq(S) /\ s.team \in Seq(S) /\ s.cluster \in Seq(S)
        /\ t.tenant \in Seq(S) /\ t.team \in Seq(S) /\ t.cluster \in Seq(S)
    BY <1>1, Zenon
  <2>2. Clean(s.tenant) /\ Clean(s.team) /\ Clean(s.cluster)
    BY <1>1, Zenon
  <2>3. Joined(s.tenant, s.team, s.cluster) = Joined(t.tenant, t.team, t.cluster)
    BY <1>2, Zenon
  <2> HIDE DEF Joined, Clean, s, t
  <2>a. \A b \in Seq(S) : Clean(b) => \A c \in Seq(S) : Clean(c) =>
            \A x, y, z \in Seq(S) : Joined(s.tenant, b, c) = Joined(x, y, z) => s.tenant = x /\ b = y /\ c = z
    BY <2>1, <2>2, <1>Same, Zenon
  <2>4. \A x, y, z \in Seq(S) : Joined(s.tenant, s.team, s.cluster) = Joined(x, y, z) =>
            s.tenant = x /\ s.team = y /\ s.cluster = z
    BY <2>1, <2>2, <2>a, Zenon
  <2> QED
    BY <2>1, <2>3, <2>4, Zenon
<1>4. s = t
  <2> HIDE DEF s, t
  <2> QED
    BY <1>1, <1>3
<1> QED
  BY <1>4, Zenon

-----------------------------------------------------------------------------
\* The database.

Sample ==
    [tenant : {h.tenant : h \in Hosts}, team : {h.team : h \in Hosts},
     cluster : {h.cluster : h \in Hosts}, server : {h.server : h \in Hosts}, ts : Int, at : Nat]

\* A stored sample carries the ids of a host and does not lie in the future.
Written ==
    /\ now \in Nat
    /\ samples \in Seq(Sample)
    /\ \A i \in DOMAIN samples : samples[i].ts \in -1 .. now /\ samples[i].at <= now

\* A row that a sample adds to a table.
RowOf(table, i, p) ==
    [tenant |-> samples[i].tenant, team |-> samples[i].team, cluster |-> samples[i].cluster,
     server |-> samples[i].server, ts |-> samples[i].ts, table |-> table, sample |-> i, part |-> p]

\* The rows of a table are those of the samples written so far.
LEMMA RowsAre ==
    ASSUME Written, NEW t \in Tables, NEW n \in 0 .. Len(samples)
    PROVE  /\ RowsOf(t, n) = {RowOf(t, i, p) : i \in 1 .. n, p \in 1 .. Parts[t]}
           /\ Database(n)[t] = RowsOf(t, n)
           /\ IsFiniteSet(RowsOf(t, n))
           /\ \A r \in RowsOf(t, n) : r.ts \in -1 .. now
<1>1. RowsOf(t, n) = {RowOf(t, i, p) : i \in 1 .. n, p \in 1 .. Parts[t]}
  BY DEF RowsOf, RowOf
<1>2. Database(n)[t] = RowsOf(t, n)
  BY Zenon DEF Database
<1>3. IsFiniteSet(RowsOf(t, n))
  <2> DEFINE D == (1 .. n) \X (1 .. Parts[t])
             f == [x \in D |-> RowOf(t, x[1], x[2])]
  <2>1. IsFiniteSet(D)
    <3>1. 1 \in Int /\ n \in Int /\ Parts[t] \in Int
      BY QueryServiceAssumption DEF Written
    <3> QED
      BY <3>1, FS_Interval, FS_Product, Zenon
  <2>2. \A r \in RowsOf(t, n) : \E x \in D : f[x] = r
    <3> SUFFICES ASSUME NEW r \in RowsOf(t, n) PROVE \E x \in D : f[x] = r
      BY Zenon
    <3>0. PICK i \in 1 .. n, p \in 1 .. Parts[t] : r = RowOf(t, i, p)
      BY <1>1
    <3>1. <<i, p>> \in D /\ f[<<i, p>>] = RowOf(t, i, p)
      BY Zenon
    <3> QED
      BY <3>0, <3>1, Zenon
  <2>3. f \in [D -> RowsOf(t, n)]
    <3>1. ASSUME NEW x \in D PROVE RowOf(t, x[1], x[2]) \in RowsOf(t, n)
      BY <1>1
    <3> QED
      BY <3>1, Zenon
  <2>4. f \in Surjection(D, RowsOf(t, n))
    <3> HIDE DEF f, D
    <3> QED
      BY <2>2, <2>3, Zenon DEF Surjection
  <2> QED
    <3> HIDE DEF f, D
    <3> QED
      BY <2>1, <2>4, FS_Surjection, Zenon
<1>4. ASSUME NEW r \in RowsOf(t, n) PROVE r.ts \in -1 .. now
  <2>1. PICK i \in 1 .. n, p \in 1 .. Parts[t] : r = RowOf(t, i, p)
    BY <1>1
  <2>2. i \in DOMAIN samples /\ samples[i] \in Sample
    BY DEF Written
  <2> QED
    BY <2>1, <2>2, Zenon DEF Written, RowOf, Sample
<1> QED
  BY <1>1, <1>2, <1>3, <1>4

\* Rows stay, and what was written stays as it was.
LEMMA RowsGrow ==
    ASSUME Written, NEW m \in 0 .. Len(samples), NEW n \in m .. Len(samples), NEW t \in Tables
    PROVE  RowsOf(t, m) \subseteq RowsOf(t, n)
<1>1. n \in 0 .. Len(samples) /\ 1 .. m \subseteq 1 .. n
  BY DEF Written
<1> QED
  BY <1>1, RowsAre

\* A write adds one sample and leaves the database of every earlier moment.
LEMMA WriteKeeps ==
    ASSUME Written, NEW h \in Hosts, NEW ts \in {now - 1, now}, writeToMysql(h, ts)
    PROVE  /\ Len(samples') = Len(samples) + 1 /\ Len(samples) \in Nat
           /\ samples'[Len(samples')].at = now
           /\ \A i \in 1 .. Len(samples) : samples'[i] = samples[i]
           /\ \A n \in 0 .. Len(samples), t \in Tables : RowsOf(t, n)' = RowsOf(t, n)
           /\ \A n \in 0 .. Len(samples) : Database(n)' = Database(n)
           /\ Written'
<1> DEFINE new == [tenant |-> h.tenant, team |-> h.team, cluster |-> h.cluster,
                   server |-> h.server, ts |-> ts, at |-> now]
<1>1. new \in Sample /\ samples' = Append(samples, new) /\ now' = now /\ now \in Nat /\ ts \in -1 .. now
  BY DEF writeToMysql, Sample, Written
<1>2. new.ts = ts /\ new.at = now
  BY Zenon
<1> HIDE DEF new
<1>3. /\ Len(samples') = Len(samples) + 1 /\ Len(samples) \in Nat /\ samples' \in Seq(Sample)
      /\ samples'[Len(samples) + 1] = new
      /\ \A i \in 1 .. Len(samples) : samples'[i] = samples[i]
      /\ DOMAIN samples = 1 .. Len(samples) /\ DOMAIN samples' = 1 .. Len(samples) + 1
  BY <1>1 DEF Written
<1>4. \A n \in 0 .. Len(samples), t \in Tables : RowsOf(t, n)' = RowsOf(t, n)
  <2> SUFFICES ASSUME NEW n \in 0 .. Len(samples), NEW t \in Tables PROVE RowsOf(t, n)' = RowsOf(t, n)
    BY Zenon
  <2>1. \A i \in 1 .. n : samples'[i] = samples[i]
    BY <1>3
  <2>2. \A i \in 1 .. n : \A p : RowOf(t, i, p)' = RowOf(t, i, p)
    BY <2>1, Zenon DEF RowOf
  <2>3. RowsOf(t, n)' = {RowOf(t, i, p)' : i \in 1 .. n, p \in 1 .. Parts[t]}
    BY DEF RowsOf, RowOf
  <2>4. RowsOf(t, n) = {RowOf(t, i, p) : i \in 1 .. n, p \in 1 .. Parts[t]}
    BY DEF RowsOf, RowOf
  <2> QED
    BY <2>2, <2>3, <2>4
<1>5. \A n \in 0 .. Len(samples) : Database(n)' = Database(n)
  BY <1>4, Zenon DEF Database
<1>6. Written'
  <2>1. \A i \in DOMAIN samples' : samples'[i].ts \in -1 .. now' /\ samples'[i].at <= now'
    <3> SUFFICES ASSUME NEW i \in DOMAIN samples'
                 PROVE  samples'[i].ts \in -1 .. now' /\ samples'[i].at <= now'
      BY Zenon
    <3>1. CASE i \in DOMAIN samples
      BY <1>1, <1>3, <3>1, Zenon DEF Written
    <3>2. CASE i = Len(samples) + 1
      BY <1>1, <1>2, <1>3, <3>2
    <3> QED
      BY <1>3, <3>1, <3>2
  <2> QED
    BY <1>1, <1>3, <2>1, Zenon DEF Written
<1> QED
  BY <1>1, <1>2, <1>3, <1>4, <1>5, <1>6, Zenon

-----------------------------------------------------------------------------
\* What the statements select.

\* Finitely many rows of a scope, each with a time.
Fits(scope, rows) ==
    IsFiniteSet(rows) /\ \A r \in rows : scopePredicate(scope, r) /\ r.ts \in -1 .. now

Counting == PageHandlers \cup {"QueryScoreRank"}

InScope(scope, n) == {r \in RowsOf("performance", n) : scopePredicate(scope, r)}

\* What a page handler selects and counts are the rows of its table.
LEMMA PageSelected ==
    ASSUME Written, NEW h \in PageHandlers, NEW req, NEW n \in 0 .. Len(samples)
    PROVE  /\ Selected(h, Database(n), req) = OfServer(RowsOf(TableOf[h], n), req)
           /\ TableOf[h] \in Tables
           /\ Total(h, Database(n), req) = Cardinality(Selected(h, Database(n), req))
<1>1. TableOf[h] \in Tables /\ h # "QueryScoreRank"
  BY DEF PageHandlers, TableOf, Tables
<1>2. Selected(h, Database(n), req) = OfServer(Database(n)[TableOf[h]], req)
  BY DEF PageHandlers, TableOf, Selected, queryPerformanceRecords, queryNetDetailRecords,
         queryDiskDetailRecords, queryMemDetailRecords, querySoftIrqDetailRecords,
         queryMysqlDetailRecords, queryRedisDetailRecords
<1>3. Database(n)[TableOf[h]] = RowsOf(TableOf[h], n)
  BY <1>1, RowsAre
<1> QED
  BY <1>1, <1>2, <1>3, Zenon DEF Total

\* What QueryScoreRank selects and counts are the newest rows of the servers in scope.
LEMMA RankSelected ==
    ASSUME Written, NEW req, NEW n \in 0 .. Len(samples)
    PROVE  /\ LatestRows(Database(n), req.scope) = NewestRows(InScope(req.scope, n))
           /\ Selected("QueryScoreRank", Database(n), req) = NewestRows(InScope(req.scope, n))
           /\ Total("QueryScoreRank", Database(n), req)
                  = Cardinality({r.server : r \in InScope(req.scope, n)})
<1>1. Database(n).performance = RowsOf("performance", n)
  BY RowsAre DEF Tables
<1>2. LatestRows(Database(n), req.scope) = NewestRows(InScope(req.scope, n))
  BY <1>1, Zenon DEF LatestRows, InScope
<1>3. Selected("QueryScoreRank", Database(n), req) = LatestRows(Database(n), req.scope)
  BY Zenon DEF Selected, queryServerScoreRank
<1>4. Total("QueryScoreRank", Database(n), req)
          = Cardinality({r.server : r \in InScope(req.scope, n)})
  BY <1>1, Zenon DEF Total, queryServerScoreRank, InScope
<1> QED
  BY <1>2, <1>3, <1>4, Zenon

\* Rows of a table in a scope fit the scope.
LEMMA ScopedFits ==
    ASSUME Written, NEW t \in Tables, NEW scope, NEW n \in 0 .. Len(samples),
           NEW R \in SUBSET RowsOf(t, n), \A r \in R : scopePredicate(scope, r)
    PROVE  Fits(scope, R)
<1>1. IsFiniteSet(R)
  BY RowsAre, FS_Subset
<1> QED
  BY <1>1, RowsAre DEF Fits

\* The performance rows in a scope fit it.
LEMMA InScopeFits ==
    ASSUME Written, NEW scope, NEW n \in 0 .. Len(samples)
    PROVE  Fits(scope, InScope(scope, n)) /\ Fits(scope, NewestRows(InScope(scope, n)))
<1>1. InScope(scope, n) \in SUBSET RowsOf("performance", n)
  BY Zenon DEF InScope
<1>2. NewestRows(InScope(scope, n)) \in SUBSET InScope(scope, n)
  BY Zenon DEF NewestRows
<1>3. \A r \in InScope(scope, n) : scopePredicate(scope, r)
  BY Zenon DEF InScope
<1>4. "performance" \in Tables
  BY Zenon DEF Tables
<1> QED
  BY <1>1, <1>2, <1>3, <1>4, ScopedFits, Zenon

\* What a handler selects fits the scope it was asked for.
LEMMA SelectedFits ==
    ASSUME Written, NEW h \in Counting, NEW req, NEW n \in 0 .. Len(samples)
    PROVE  Fits(req.scope, Selected(h, Database(n), req))
<1>1. CASE h \in PageHandlers
  <2>1. Selected(h, Database(n), req) \in SUBSET RowsOf(TableOf[h], n)
    BY <1>1, PageSelected DEF OfServer
  <2>2. \A r \in Selected(h, Database(n), req) : scopePredicate(req.scope, r)
    BY <1>1, PageSelected, Zenon DEF OfServer
  <2> QED
    BY <1>1, <2>1, <2>2, PageSelected, ScopedFits, Zenon
<1>2. CASE h = "QueryScoreRank"
  BY <1>2, RankSelected, InScopeFits, Zenon
<1> QED
  BY <1>1, <1>2, Zenon DEF Counting

\* The ranking has at least one row for every server name it counts: the newest
\* row of that name, in whatever cluster.
LEMMA NamesRanked ==
    ASSUME Written, NEW scope, NEW n \in 0 .. Len(samples)
    PROVE  /\ IsFiniteSet({r.server : r \in InScope(scope, n)})
           /\ Cardinality({r.server : r \in InScope(scope, n)}) <= Cardinality(NewestRows(InScope(scope, n)))
<1> DEFINE R == InScope(scope, n)
           L == NewestRows(R)
           M == {r.server : r \in R}
           f == [r \in L |-> r.server]
<1>1. IsFiniteSet(L) /\ L \subseteq R /\ now \in Nat /\ \A r \in R : r.ts \in -1 .. now
  BY InScopeFits, Zenon DEF Fits, NewestRows, Written
<1>2. ASSUME NEW r \in R PROVE \E q \in L : q.server = r.server
  <2> DEFINE D == {now - q.ts : q \in {p \in R : p.server = r.server}}
  <2>1. D \subseteq Nat /\ D # {}
    <3>1. \A q \in R : now - q.ts \in Nat
      BY <1>1
    <3> HIDE DEF R
    <3> QED
      BY <3>1, Zenon
  <2>2. PICK d \in D : \A e \in D : d <= e
    <3> HIDE DEF D
    <3> QED
      BY <2>1, LeastNatural, Zenon
  <2>3. PICK q \in R : q.server = r.server /\ d = now - q.ts
    <3> HIDE DEF R
    <3> QED
      BY <2>2, Zenon
  <2>4. ASSUME NEW p \in R, SameHost(q, p) PROVE p.ts <= q.ts
    <3>1. p.server = r.server
      BY <2>3, <2>4, Zenon DEF SameHost
    <3>2. now - q.ts <= now - p.ts /\ p.ts \in Int /\ q.ts \in Int
      <4>1. now - p.ts \in D
        BY <3>1, Zenon
      <4> HIDE DEF D, R
      <4> QED
        BY <1>1, <2>2, <2>3, <4>1
    <3> QED
      BY <1>1, <3>2
  <2>5. q \in L
    BY <2>4, Zenon DEF NewestRows
  <2> QED
    BY <2>3, <2>5, Zenon
<1> HIDE DEF R, L
<1>3. f \in Surjection(L, M)
  BY <1>1, <1>2 DEF Surjection
<1> HIDE DEF f
<1>4. IsFiniteSet(M) /\ Cardinality(M) <= Cardinality(L)
  BY <1>1, <1>3, FS_Surjection, Zenon
<1> QED
  BY <1>4, Zenon DEF R, L

\* A count is never more than the rows it counts, and never shrinks.
LEMMA TotalFits ==
    ASSUME Written, NEW h \in Counting, NEW req, NEW n \in 0 .. Len(samples)
    PROVE  /\ Total(h, Database(n), req) \in Nat
           /\ Total(h, Database(n), req) <= Cardinality(Selected(h, Database(n), req))
<1>1. Cardinality(Selected(h, Database(n), req)) \in Nat
  BY SelectedFits, FS_CardinalityType, Zenon DEF Fits
<1>2. CASE h \in PageHandlers
  BY <1>1, <1>2, PageSelected
<1>3. CASE h = "QueryScoreRank"
  <2>1. Cardinality({r.server : r \in InScope(req.scope, n)}) \in Nat
    BY NamesRanked, FS_CardinalityType, Zenon
  <2>2. /\ Total(h, Database(n), req) = Cardinality({r.server : r \in InScope(req.scope, n)})
        /\ Selected(h, Database(n), req) = NewestRows(InScope(req.scope, n))
    BY <1>3, RankSelected, Zenon
  <2>3. Cardinality({r.server : r \in InScope(req.scope, n)}) <= Cardinality(NewestRows(InScope(req.scope, n)))
    BY NamesRanked, Zenon
  <2> QED
    BY <2>1, <2>2, <2>3, Zenon
<1> QED
  BY <1>2, <1>3, Zenon DEF Counting

\* A list counts no less in a later database.
LEMMA TotalGrows ==
    ASSUME Written, NEW h \in Counting, NEW req, NEW m \in 0 .. Len(samples), NEW n \in m .. Len(samples)
    PROVE  Total(h, Database(m), req) <= Total(h, Database(n), req)
<1>0. n \in 0 .. Len(samples)
  OBVIOUS
<1>1. CASE h \in PageHandlers
  <2>1. RowsOf(TableOf[h], m) \subseteq RowsOf(TableOf[h], n)
    BY <1>1, PageSelected, RowsGrow, Zenon
  <2>2. Selected(h, Database(m), req) \in SUBSET Selected(h, Database(n), req)
    BY <1>0, <1>1, <2>1, PageSelected DEF OfServer
  <2>3. IsFiniteSet(Selected(h, Database(n), req))
    BY <1>0, SelectedFits, Zenon DEF Fits
  <2>4. Cardinality(Selected(h, Database(m), req)) <= Cardinality(Selected(h, Database(n), req))
    BY <2>2, <2>3, FS_Subset, Zenon
  <2> QED
    BY <1>0, <1>1, <2>4, PageSelected, Zenon
<1>2. CASE h = "QueryScoreRank"
  <2> DEFINE A == {r.server : r \in InScope(req.scope, m)}
             B == {r.server : r \in InScope(req.scope, n)}
  <2>1. RowsOf("performance", m) \subseteq RowsOf("performance", n)
    BY RowsGrow, Zenon DEF Tables
  <2>2. A \in SUBSET B
    BY <2>1, Zenon DEF InScope
  <2>3. IsFiniteSet(B)
    BY <1>0, NamesRanked, Zenon
  <2>4. Cardinality(A) <= Cardinality(B)
    <3> HIDE DEF A, B
    <3> QED
      BY <2>2, <2>3, FS_Subset, Zenon
  <2> QED
    BY <1>0, <1>2, <2>4, RankSelected, Zenon
<1> QED
  BY <1>1, <1>2, Zenon DEF Counting

-----------------------------------------------------------------------------
\* Scopes: the inductive invariant.  Every set of rows on its way to a client,
\* in a call or in the cache, is of one scope: of the scope it was asked for, or
\* of one that has the same key in the cache.

Sharing(scope) ==
    {t \in {req.scope : req \in Requests} : latestScoreCacheKey(t) = latestScoreCacheKey(scope)}

Origins(h, scope) == IF h = "QueryLatestScore" THEN Sharing(scope) ELSE {scope}

\* The rows of a handler's answer.
AnswerRows(h, scope, rows) == \E t \in Origins(h, scope) : Fits(t, rows)

CallFields == {"pc", "h", "req", "status", "total", "rows", "time"}

StepsOf(h) ==
    CASE h \in Counting -> {"count", "page"}
      [] h = "QueryTrend" -> {"trend"}
      [] h = "QueryAnomaly" -> {"performance", "mysql", "redis"}
      [] h = "QueryLatestScore" -> {"cached", "query", "store"}

CallFits(c, k) ==
    /\ DOMAIN k = CallFields
    /\ <<k.h, k.req>> \in uses[c] /\ k.h \in Handlers /\ k.req \in Requests
    /\ k.pc \in StepsOf(k.h) \cup {"done"}
    /\ k.total \in Nat
    /\ k.time \in 0 .. now /\ (k.pc # "done" => now - k.time <= CallTime)
    /\ AnswerRows(k.h, k.req.scope, k.rows)

EntryFits(scope, entry) ==
    /\ AnswerRows("QueryLatestScore", scope, entry.rows)
    /\ entry # Absent => entry.expires \in Nat /\ entry.expires > now

ServiceInv ==
    /\ Written
    /\ uses \in UseCases
    /\ DOMAIN call = Clients /\ DOMAIN walk = Clients /\ DOMAIN cache = Keys
    /\ \A c \in Clients : call[c] = Idle \/ CallFits(c, call[c])
    /\ \A req \in Requests : EntryFits(req.scope, cache[latestScoreCacheKey(req.scope)])

\* What the steps below take from the invariant.
LEMMA InvWritten ==
    ASSUME ServiceInv
    PROVE  Written /\ now \in Nat /\ samples \in Seq(Sample) /\ Len(samples) \in 0 .. Len(samples)
BY DEF ServiceInv, Written

\* The domains of the variables.
LEMMA InvDomains ==
    ASSUME ServiceInv
    PROVE  uses \in UseCases /\ DOMAIN call = Clients /\ DOMAIN walk = Clients /\ DOMAIN cache = Keys
BY Zenon DEF ServiceInv

\* A call that is not idle fits.
LEMMA InvCall == ASSUME ServiceInv, NEW c \in Clients PROVE call[c] = Idle \/ CallFits(c, call[c])
BY Zenon DEF ServiceInv

\* The handlers that have a given statement.
LEMMA StepHandlers ==
    ASSUME NEW h \in Handlers
    PROVE  /\ "count" \in StepsOf(h) => h \in Counting
           /\ "page" \in StepsOf(h) => h \in Counting
           /\ "trend" \in StepsOf(h) => h = "QueryTrend"
           /\ "performance" \in StepsOf(h) => h = "QueryAnomaly"
           /\ "mysql" \in StepsOf(h) => h = "QueryAnomaly"
           /\ "redis" \in StepsOf(h) => h = "QueryAnomaly"
           /\ "cached" \in StepsOf(h) => h = "QueryLatestScore"
           /\ "query" \in StepsOf(h) => h = "QueryLatestScore"
           /\ "store" \in StepsOf(h) => h = "QueryLatestScore"
           /\ StepsOf(h) \subseteq {"count", "page", "trend", "performance", "mysql", "redis", "cached", "query", "store"}
  BY Zenon DEF Handlers, Counting, PageHandlers, TableOf, StepsOf

\* A part of rows that fit fits.
LEMMA PartFits ==
    ASSUME NEW scope, NEW R, Fits(scope, R), NEW P \in SUBSET R
    PROVE  Fits(scope, P)
<1>1. IsFiniteSet(P)
  BY FS_Subset, Zenon DEF Fits
<1> QED
  BY <1>1, Zenon DEF Fits

\* Two sets of rows that fit, fit together.
LEMMA BothFit ==
    ASSUME NEW scope, NEW R, Fits(scope, R), NEW P, Fits(scope, P)
    PROVE  Fits(scope, R \cup P)
<1>1. IsFiniteSet(R \cup P)
  BY FS_Union, Zenon DEF Fits
<1> QED
  BY <1>1, Zenon DEF Fits

\* A request shares the key of its own scope.
LEMMA OwnKey == ASSUME NEW req \in Requests PROVE req.scope \in Sharing(req.scope)
BY Zenon DEF Sharing

\* Rows of the scope asked for are an answer, whatever the handler.
LEMMA OwnRows ==
    ASSUME NEW req \in Requests, NEW h, NEW R, Fits(req.scope, R)
    PROVE  AnswerRows(h, req.scope, R)
BY OwnKey, Zenon DEF AnswerRows, Origins

\* No rows are an answer to any request.
LEMMA NoRows == ASSUME NEW req \in Requests, NEW h PROVE AnswerRows(h, req.scope, {})
<1>1. Fits(req.scope, {})
  BY FS_EmptySet, Zenon DEF Fits
<1> QED
  BY <1>1, OwnRows, Zenon

\* What fits stays an answer while the clock does not run back.
LEMMA RowsStay ==
    ASSUME now \in Nat, now' \in {now, now + 1}
    PROVE  \A h, scope, R : AnswerRows(h, scope, R) => AnswerRows(h, scope, R)'
<1>1. ASSUME NEW scope, NEW R, Fits(scope, R) PROVE Fits(scope, R)'
  <2>1. \A ts \in -1 .. now : ts \in -1 .. now'
    OBVIOUS
  <2> QED
    BY <1>1, <2>1, Zenon DEF Fits
<1> QED
  BY <1>1, Zenon DEF AnswerRows, Origins, Sharing

\* Only QueryLatestScore answers from the cache.
LEMMA TableRows ==
    ASSUME NEW h, h # "QueryLatestScore", NEW scope, NEW R, AnswerRows(h, scope, R)
    PROVE  Fits(scope, R)
BY Zenon DEF AnswerRows, Origins

\* The end of a call.
LEMMA AnswerFits ==
    ASSUME ServiceInv, NEW c \in Clients, CallFits(c, call[c]),
           NEW status, NEW total \in Nat, NEW R, AnswerRows(call[c].h, call[c].req.scope, R)
    PROVE  /\ CallFits(c, Answer(c, status, total, R))
           /\ Answer(c, status, total, R).pc = "done"
           /\ Answer(c, status, total, R).h = call[c].h
           /\ Answer(c, status, total, R).req = call[c].req
           /\ Answer(c, status, total, R).status = status
           /\ Answer(c, status, total, R).total = total
           /\ Answer(c, status, total, R).rows = R
           /\ Answer(c, status, total, R).time = now
<1> DEFINE k == Answer(c, status, total, R)
<1>1. /\ DOMAIN k = CallFields
      /\ k.pc = "done" /\ k.h = call[c].h /\ k.req = call[c].req /\ k.status = status
      /\ k.total = total /\ k.rows = R /\ k.time = now
  BY Zenon DEF CallFits, CallFields, Answer
<1>2. now \in Nat
  BY InvWritten, Zenon
<1> HIDE DEF k
<1>3. CallFits(c, k)
  BY <1>1, <1>2 DEF CallFits
<1> QED
  BY <1>1, <1>3, Zenon DEF k

\* A page and the rows of the anomaly query come from the scope.
LEMMA StatementRows ==
    ASSUME ServiceInv, NEW req \in Requests
    PROVE  /\ Fits(req.scope, UNION queryTrend(DB, req))
           /\ \A t \in Tables : Fits(req.scope, Anomalous(t, req))
           /\ Fits(req.scope, LatestRows(DB, req.scope))
<1>0. Written /\ Len(samples) \in 0 .. Len(samples)
  BY InvWritten, Zenon
<1>1. Fits(req.scope, UNION queryTrend(DB, req))
  <2>1. DB.performance = RowsOf("performance", Len(samples)) /\ "performance" \in Tables
    BY <1>0, RowsAre DEF DB, Tables
  <2>2. UNION queryTrend(DB, req) \subseteq OfServer(RowsOf("performance", Len(samples)), req)
    BY <2>1, Zenon DEF queryTrend
  <2>3. \A r \in OfServer(RowsOf("performance", Len(samples)), req) :
           r \in RowsOf("performance", Len(samples)) /\ scopePredicate(req.scope, r)
    BY Zenon DEF OfServer
  <2> QED
    BY <1>0, <2>1, <2>2, <2>3, ScopedFits, Zenon
<1>2. ASSUME NEW t \in Tables PROVE Fits(req.scope, Anomalous(t, req))
  <2>1. DB[t] = RowsOf(t, Len(samples))
    BY <1>0, RowsAre DEF DB
  <2>2. Anomalous(t, req) \in SUBSET RowsOf(t, Len(samples)) /\ \A r \in Anomalous(t, req) : scopePredicate(req.scope, r)
    BY <2>1, Zenon DEF Anomalous
  <2> QED
    BY <1>0, <2>2, ScopedFits, Zenon
<1>3. Fits(req.scope, LatestRows(DB, req.scope))
  BY <1>0, RankSelected, InScopeFits, Zenon DEF DB
<1> QED
  BY <1>1, <1>2, <1>3, Zenon

\* ServiceInv holds before the first call.
LEMMA ServiceStarts == Init => ServiceInv
<1> SUFFICES ASSUME Init PROVE ServiceInv
  BY Zenon
<1>1. Written
  BY DEF Init, Written
<1>2. \A c \in Clients : call[c] = Idle
  BY Zenon DEF Init
<1>3. ASSUME NEW req \in Requests PROVE EntryFits(req.scope, cache[latestScoreCacheKey(req.scope)])
  <2>1. cache[latestScoreCacheKey(req.scope)] = Absent
    BY Zenon DEF Init, Keys
  <2>2. Absent.rows = {} /\ AnswerRows("QueryLatestScore", req.scope, {})
    BY NoRows, Zenon DEF Absent
  <2> QED
    BY <2>1, <2>2, Zenon DEF EntryFits
<1> QED
  BY <1>1, <1>2, <1>3, Zenon DEF Init, ServiceInv

\* Every step keeps ServiceInv.
LEMMA ServiceKept == ServiceInv /\ [Next]_vars => ServiceInv'
<1>StepsAre. /\ \A h \in Counting : StepsOf(h) = {"count", "page"}
             /\ StepsOf("QueryTrend") = {"trend"}
             /\ StepsOf("QueryAnomaly") = {"performance", "mysql", "redis"}
             /\ StepsOf("QueryLatestScore") = {"cached", "query", "store"}
  BY Zenon DEF Counting, PageHandlers, TableOf, StepsOf
\* A step of one client that leaves tables, clock and cache alone.
<1>CallMoves. ASSUME ServiceInv, NEW c \in Clients, NEW k, CallFits(c, k),
                     call' = [call EXCEPT ![c] = k],
                     uses' = uses, now' = now, samples' = samples, cache' = cache, DOMAIN walk' = Clients
              PROVE  ServiceInv'
  <2> USE <1>CallMoves
  <2>0. \A h, scope, R : AnswerRows(h, scope, R) => AnswerRows(h, scope, R)'
    BY InvWritten, RowsStay, Zenon
  <2>1. Written'
    BY Zenon DEF ServiceInv, Written
  <2>2. DOMAIN call' = Clients
    BY Zenon DEF ServiceInv
  <2>3. ASSUME NEW d \in Clients PROVE (call[d] = Idle \/ CallFits(d, call[d]))'
    <3>1. CASE d = c
      <4>1. call'[d] = k
        BY <3>1, Zenon DEF ServiceInv
      <4> QED
        BY <2>0, <3>1, <4>1, Zenon DEF CallFits
    <3>2. CASE d # c
      <4>1. call'[d] = call[d]
        BY <3>2, Zenon DEF ServiceInv
      <4>2. call[d] = Idle \/ CallFits(d, call[d])
        BY Zenon DEF ServiceInv
      <4> QED
        BY <2>0, <4>1, <4>2, Zenon DEF CallFits, Idle
    <3> QED
      BY <3>1, <3>2, Zenon
  <2>4. ASSUME NEW req \in Requests PROVE EntryFits(req.scope, cache[latestScoreCacheKey(req.scope)])'
    <3>1. EntryFits(req.scope, cache[latestScoreCacheKey(req.scope)])
      BY Zenon DEF ServiceInv
    <3> QED
      BY <2>0, <3>1, Zenon DEF EntryFits
  <2> QED
    BY <2>1, <2>2, <2>3, <2>4, Zenon DEF ServiceInv
<1>BeginFits. ASSUME ServiceInv, NEW c \in Clients, NEW h, NEW req, NEW refusal, NEW first,
                     Begin(c, h, req, refusal, first), first \in StepsOf(h)
              PROVE  \E k : CallFits(c, k) /\ call' = [call EXCEPT ![c] = k]
  <2> USE <1>BeginFits
  <2> DEFINE k == [pc |-> IF refusal = "OK" THEN first ELSE "done", h |-> h, req |-> req,
                   status |-> refusal, total |-> 0, rows |-> {}, time |-> now]
  <2>1. call' = [call EXCEPT ![c] = k] /\ <<h, req>> \in uses[c]
    BY Zenon DEF Begin
  <2>2. uses[c] \in SUBSET (Handlers \X Requests)
    BY QueryServiceAssumption, Zenon DEF ServiceInv
  <2>3. h \in Handlers /\ req \in Requests
    BY <2>1, <2>2, Zenon
  <2>4. AnswerRows(h, req.scope, {})
    BY <2>3, NoRows, Zenon
  <2>5. now \in Nat /\ CallTime \in Nat
    BY QueryServiceAssumption, InvWritten, Zenon
  <2>6. CallFits(c, k)
    <3>1. /\ DOMAIN k = CallFields
          /\ k.h = h /\ k.req = req /\ k.total = 0 /\ k.rows = {} /\ k.time = now
          /\ k.pc \in {first, "done"}
      BY Zenon DEF CallFields
    <3> HIDE DEF k
    <3> QED
      BY <2>1, <2>3, <2>4, <2>5, <3>1 DEF CallFits
  <2> QED
    BY <2>1, <2>6, Zenon
<1>CallsFit. ASSUME ServiceInv, NEW c \in Clients, Calls(c)
             PROVE  ServiceInv'
  <2> USE <1>CallsFit
  <2>0. PICK req \in Requests :
          \/ QueryPerformance(c, req) \/ QueryTrend(c, req) \/ QueryAnomaly(c, req)
          \/ QueryScoreRank(c, req) \/ QueryLatestScore(c, req) \/ QueryNetDetail(c, req)
          \/ QueryDiskDetail(c, req) \/ QueryMemDetail(c, req) \/ QuerySoftIrqDetail(c, req)
          \/ QueryMysqlDetail(c, req) \/ QueryRedisDetail(c, req)
    BY Zenon DEF Calls
  <2>1. ASSUME NEW h \in PageHandlers, PageHandler(c, h, req) PROVE ServiceInv'
    <3>1. Begin(c, h, req, Refusal(req, TRUE), "count") /\ "count" \in StepsOf(h)
      BY <2>1, <1>StepsAre, Zenon DEF PageHandler, Counting
    <3>2. PICK k : CallFits(c, k) /\ call' = [call EXCEPT ![c] = k]
      BY <3>1, <1>BeginFits, Zenon
    <3>3. uses' = uses /\ now' = now /\ samples' = samples /\ cache' = cache /\ DOMAIN walk' = Clients
      BY <2>1, InvDomains, Zenon DEF PageHandler, WalkOn
    <3> QED
      BY <3>2, <3>3, <1>CallMoves, Zenon
  <2>2. ASSUME NEW h, NEW refusal, NEW first \in StepsOf(h), OtherHandler(c, h, req, refusal, first)
        PROVE  ServiceInv'
    <3>1. PICK k : CallFits(c, k) /\ call' = [call EXCEPT ![c] = k]
      BY <2>2, <1>BeginFits, Zenon DEF OtherHandler
    <3>2. uses' = uses /\ now' = now /\ samples' = samples /\ cache' = cache /\ DOMAIN walk' = Clients
      BY <2>2, InvDomains, Zenon DEF OtherHandler
    <3> QED
      BY <3>1, <3>2, <1>CallMoves, Zenon
  <2>3. CASE QueryTrend(c, req)
    BY <2>2, <2>3, <1>StepsAre, Zenon DEF QueryTrend
  <2>4. CASE QueryAnomaly(c, req)
    BY <2>2, <2>4, <1>StepsAre, Zenon DEF QueryAnomaly
  <2>5. CASE QueryScoreRank(c, req)
    BY <2>2, <2>5, <1>StepsAre, Zenon DEF QueryScoreRank, Counting
  <2>6. CASE QueryLatestScore(c, req)
    BY <2>2, <2>6, <1>StepsAre, Zenon DEF QueryLatestScore
  <2>7. CASE \E h \in PageHandlers : PageHandler(c, h, req)
    BY <2>1, <2>7, Zenon
  <2>8. ASSUME \/ QueryPerformance(c, req) \/ QueryNetDetail(c, req)
               \/ QueryDiskDetail(c, req) \/ QueryMemDetail(c, req) \/ QuerySoftIrqDetail(c, req)
               \/ QueryMysqlDetail(c, req) \/ QueryRedisDetail(c, req)
        PROVE  \E h \in PageHandlers : PageHandler(c, h, req)
    BY <2>8, Zenon DEF QueryPerformance, QueryNetDetail, QueryDiskDetail, QueryMemDetail, QuerySoftIrqDetail,
                QueryMysqlDetail, QueryRedisDetail, PageHandlers, TableOf
  <2> QED
    BY <2>0, <2>3, <2>4, <2>5, <2>6, <2>7, <2>8, Zenon
<1>StatementsFit. ASSUME ServiceInv, NEW c \in Clients, Statement(c)
                  PROVE  ServiceInv'
  <2> USE <1>StatementsFit
  <2> DEFINE k == call[c]
             Rest == uses' = uses /\ now' = now /\ samples' = samples /\ cache' = cache /\ DOMAIN walk' = Clients
  <2>0. call[c].pc # "idle" => CallFits(c, k) /\ k.req \in Requests /\ k.h \in Handlers
    BY InvCall DEF Idle, CallFits
  <2>1. CASE executeFails(c)
    <3>1. CallFits(c, k) /\ k.req \in Requests
      BY <2>0, <2>1, Zenon DEF executeFails
    <3>2. CallFits(c, Failed(c, "INTERNAL"))
      BY <3>1, NoRows, AnswerFits, Zenon DEF Failed
    <3>3. Rest /\ call' = [call EXCEPT ![c] = Failed(c, "INTERNAL")]
      BY <2>1, InvDomains, Zenon DEF executeFails, Goes
    <3> QED
      BY <3>2, <3>3, <1>CallMoves, Zenon
  <2>2. CASE executePreparedCount(c)
    <3> DEFINE new == [call[c] EXCEPT !.pc = "page", !.total = Total(call[c].h, DB, call[c].req)]
    <3>1. CallFits(c, k) /\ k.h \in Counting
      BY <2>0, <2>2, StepHandlers, Zenon DEF executePreparedCount, CallFits
    <3>2. Total(k.h, DB, k.req) \in Nat
      BY <3>1, InvWritten, TotalFits, Zenon DEF DB
    <3>3. CallFits(c, new)
      <4>1. /\ DOMAIN new = CallFields /\ new.pc = "page" /\ new.h = k.h /\ new.req = k.req
            /\ new.total = Total(k.h, DB, k.req) /\ new.rows = k.rows /\ new.time = k.time
        BY <3>1, Zenon DEF CallFits, CallFields
      <4>2. k.pc = "count"
        BY <2>2, Zenon DEF executePreparedCount
      <4> HIDE DEF new, k
      <4> QED
        BY <3>1, <3>2, <4>1, <4>2, <1>StepsAre, Zenon DEF CallFits
    <3>4. Rest /\ call' = [call EXCEPT ![c] = new]
      BY <2>2, InvDomains, Zenon DEF executePreparedCount, Goes
    <3> QED
      <4> HIDE DEF new
      <4> QED
        BY <3>3, <3>4, <1>CallMoves, Zenon
  <2>3. CASE executePreparedRows(c)
    <3>1. CallFits(c, k) /\ k.h \in Counting /\ k.total \in Nat /\ k.req \in Requests
      BY <2>0, <2>3, StepHandlers, Zenon DEF executePreparedRows, CallFits
    <3>2. PICK P \in SUBSET Selected(k.h, DB, k.req) :
             call' = [call EXCEPT ![c] = Answer(c, "OK", k.total, P)]
      BY <2>3, Zenon DEF executePreparedRows, PagesOf, Goes
    <3>3. Fits(k.req.scope, Selected(k.h, DB, k.req))
      BY <3>1, InvWritten, SelectedFits, Zenon DEF DB
    <3>4. CallFits(c, Answer(c, "OK", k.total, P))
      <4>1. Fits(k.req.scope, P)
        BY <3>3, PartFits, Zenon
      <4>2. AnswerRows(k.h, k.req.scope, P)
        BY <3>1, <4>1, OwnRows, Zenon
      <4> QED
        BY <3>1, <4>2, AnswerFits, Zenon
    <3>5. Rest
      BY <2>3, InvDomains, Zenon DEF executePreparedRows, WalkSees
    <3> QED
      BY <3>2, <3>4, <3>5, <1>CallMoves, Zenon
  <2>4. CASE trendStatement(c)
    <3>1. CallFits(c, k) /\ k.req \in Requests
      BY <2>0, <2>4, Zenon DEF trendStatement
    <3>2. CallFits(c, Answer(c, "OK", 0, UNION queryTrend(DB, k.req)))
      <4>1. AnswerRows(k.h, k.req.scope, UNION queryTrend(DB, k.req))
        BY <3>1, StatementRows, OwnRows, Zenon
      <4> QED
        BY <3>1, <4>1, AnswerFits, Zenon
    <3>3. Rest /\ call' = [call EXCEPT ![c] = Answer(c, "OK", 0, UNION queryTrend(DB, k.req))]
      BY <2>4, InvDomains, Zenon DEF trendStatement, Goes
    <3> QED
      BY <3>2, <3>3, <1>CallMoves, Zenon
  <2>5. CASE anomalyStatement(c)
    <3> DEFINE R == k.rows \cup Anomalous(k.pc, k.req)
               new == [call[c] EXCEPT !.pc = IF @ = "performance" THEN "mysql" ELSE "redis",
                                      !.rows = @ \cup Anomalous(call[c].pc, call[c].req)]
    <3>1. CallFits(c, k) /\ k.req \in Requests /\ k.pc \in Tables /\ k.h = "QueryAnomaly" /\ k.pc # "done"
      BY <2>0, <2>5, StepHandlers, Zenon DEF anomalyStatement, CallFits, Tables
    <3>2. AnswerRows(k.h, k.req.scope, R)
      <4>1. Fits(k.req.scope, k.rows)
        BY <3>1, TableRows, Zenon DEF CallFits
      <4>2. Fits(k.req.scope, R)
        BY <3>1, <4>1, StatementRows, BothFit, Zenon
      <4> HIDE DEF R
      <4> QED
        BY <3>1, <4>2, OwnRows, Zenon
    <3>3. CallFits(c, new)
      <4>1. /\ DOMAIN new = CallFields /\ new.pc \in {"mysql", "redis"} /\ new.h = k.h /\ new.req = k.req
            /\ new.total = k.total /\ new.rows = R /\ new.time = k.time
        BY <3>1, Zenon DEF CallFits, CallFields
      <4> HIDE DEF new, k, R
      <4> QED
        BY <3>1, <3>2, <4>1, <1>StepsAre, Zenon DEF CallFits
    <3>4. Rest /\ call' = [call EXCEPT ![c] = new]
      BY <2>5, InvDomains, Zenon DEF anomalyStatement, Goes
    <3> QED
      <4> HIDE DEF new
      <4> QED
        BY <3>3, <3>4, <1>CallMoves, Zenon
  <2>6. CASE lastAnomalyStatement(c)
    <3> DEFINE R == k.rows \cup Anomalous("redis", k.req)
    <3>1. CallFits(c, k) /\ k.req \in Requests /\ "redis" \in Tables /\ k.h = "QueryAnomaly"
      BY <2>0, <2>6, StepHandlers, Zenon DEF lastAnomalyStatement, Tables, CallFits
    <3>2. Fits(k.req.scope, R) /\ Cardinality(R) \in Nat
      <4>0. Fits(k.req.scope, k.rows)
        BY <3>1, TableRows, Zenon DEF CallFits
      <4>1. Fits(k.req.scope, R)
        BY <3>1, <4>0, StatementRows, BothFit, Zenon
      <4> QED
        BY <4>1, FS_CardinalityType, Zenon DEF Fits
    <3>3. PICK P \in SUBSET R : call' = [call EXCEPT ![c] = Answer(c, "OK", Cardinality(R), P)]
      BY <2>6, Zenon DEF lastAnomalyStatement, PagesOf, Goes
    <3>4. CallFits(c, Answer(c, "OK", Cardinality(R), P))
      <4> HIDE DEF R
      <4>1. Fits(k.req.scope, P)
        BY <3>2, PartFits, Zenon
      <4>2. AnswerRows(k.h, k.req.scope, P)
        BY <3>1, <4>1, OwnRows, Zenon
      <4> QED
        BY <3>1, <3>2, <4>2, AnswerFits, Zenon
    <3>5. Rest
      BY <2>6, InvDomains, Zenon DEF lastAnomalyStatement
    <3> QED
      BY <3>3, <3>4, <3>5, <1>CallMoves, Zenon
  <2>7. CASE cacheHit(c)
    <3>1. CallFits(c, k) /\ k.req \in Requests /\ k.h = "QueryLatestScore"
      BY <2>0, <2>7, StepHandlers, Zenon DEF cacheHit, CallFits
    <3>2. AnswerRows(k.h, k.req.scope, cache[KeyOf(c)].rows)
      BY <3>1, Zenon DEF ServiceInv, EntryFits, KeyOf
    <3>3. CallFits(c, Answer(c, "OK", 0, cache[KeyOf(c)].rows))
      BY <3>1, <3>2, AnswerFits, Zenon
    <3>4. Rest /\ call' = [call EXCEPT ![c] = Answer(c, "OK", 0, cache[KeyOf(c)].rows)]
      BY <2>7, InvDomains, Zenon DEF cacheHit, Goes
    <3> QED
      BY <3>3, <3>4, <1>CallMoves, Zenon
  <2>8. CASE cacheMiss(c)
    <3> DEFINE new == [call[c] EXCEPT !.pc = "query"]
    <3>1. CallFits(c, k) /\ k.h = "QueryLatestScore" /\ k.pc # "done"
      BY <2>0, <2>8, StepHandlers, Zenon DEF cacheMiss, CallFits
    <3>2. CallFits(c, new)
      <4>1. /\ DOMAIN new = CallFields /\ new.pc = "query" /\ new.h = k.h /\ new.req = k.req
            /\ new.total = k.total /\ new.rows = k.rows /\ new.time = k.time
        BY <3>1, Zenon DEF CallFits, CallFields
      <4> HIDE DEF new, k
      <4> QED
        BY <3>1, <4>1, <1>StepsAre, Zenon DEF CallFits
    <3>3. Rest /\ call' = [call EXCEPT ![c] = new]
      BY <2>8, InvDomains, Zenon DEF cacheMiss, Goes
    <3> QED
      <4> HIDE DEF new
      <4> QED
        BY <3>2, <3>3, <1>CallMoves, Zenon
  <2>9. CASE latestStatement(c)
    <3> DEFINE new == [call[c] EXCEPT !.pc = "store", !.rows = LatestRows(DB, call[c].req.scope)]
    <3>1. CallFits(c, k) /\ k.h = "QueryLatestScore" /\ k.pc # "done" /\ k.req \in Requests
      BY <2>0, <2>9, StepHandlers, Zenon DEF latestStatement, CallFits
    <3>2. CallFits(c, new)
      <4>1. /\ DOMAIN new = CallFields /\ new.pc = "store" /\ new.h = k.h /\ new.req = k.req
            /\ new.total = k.total /\ new.rows = LatestRows(DB, k.req.scope) /\ new.time = k.time
        BY <3>1, Zenon DEF CallFits, CallFields
      <4>2. AnswerRows(k.h, k.req.scope, LatestRows(DB, k.req.scope))
        BY <3>1, StatementRows, OwnRows, Zenon
      <4> HIDE DEF new, k
      <4> QED
        BY <3>1, <4>1, <4>2, <1>StepsAre, Zenon DEF CallFits
    <3>3. Rest /\ call' = [call EXCEPT ![c] = new]
      BY <2>9, InvDomains, Zenon DEF latestStatement, Goes
    <3> QED
      <4> HIDE DEF new
      <4> QED
        BY <3>2, <3>3, <1>CallMoves, Zenon
  <2>10. CASE cacheSetFails(c)
    <3>1. CallFits(c, k) /\ AnswerRows(k.h, k.req.scope, k.rows)
      BY <2>0, <2>10, Zenon DEF cacheSetFails, CallFits
    <3>2. CallFits(c, Answer(c, "OK", 0, k.rows))
      BY <3>1, AnswerFits, Zenon
    <3>3. Rest /\ call' = [call EXCEPT ![c] = Answer(c, "OK", 0, k.rows)]
      BY <2>10, InvDomains, Zenon DEF cacheSetFails, Goes
    <3> QED
      BY <3>2, <3>3, <1>CallMoves, Zenon
  <2>11. CASE cacheSet(c)
    <3>1. /\ CallFits(c, k) /\ AnswerRows(k.h, k.req.scope, k.rows) /\ k.req \in Requests
          /\ k.h = "QueryLatestScore"
      BY <2>0, <2>11, StepHandlers, Zenon DEF cacheSet, CallFits
    <3>2. CallFits(c, Answer(c, "OK", 0, k.rows))
      BY <3>1, AnswerFits, Zenon
    <3>3. /\ uses' = uses /\ now' = now /\ samples' = samples /\ walk' = walk
          /\ call' = [call EXCEPT ![c] = Answer(c, "OK", 0, k.rows)]
          /\ cache' = [cache EXCEPT ![KeyOf(c)] = Stored(k.rows)]
      BY <2>11, Zenon DEF cacheSet, Goes
    <3>r. \A h, scope, R : AnswerRows(h, scope, R) => AnswerRows(h, scope, R)'
      BY <3>3, InvWritten, RowsStay, Zenon
    <3>4. EntryFits(k.req.scope, Stored(k.rows))
      <4>1. Stored(k.rows).rows = k.rows /\ Stored(k.rows).expires = now + CacheTtl
        BY Zenon DEF Stored
      <4>2. now + CacheTtl \in Nat /\ now + CacheTtl > now
        BY QueryServiceAssumption, InvWritten
      <4> QED
        BY <3>1, <4>1, <4>2, Zenon DEF EntryFits
    <3>5. ASSUME NEW d \in Clients PROVE (call[d] = Idle \/ CallFits(d, call[d]))'
      <4>1. CASE d = c
        <5>1. call'[d] = Answer(c, "OK", 0, k.rows)
          BY <3>3, <4>1, Zenon DEF ServiceInv
        <5> HIDE DEF k
        <5> QED
          BY <3>2, <3>3, <3>r, <4>1, <5>1, Zenon DEF CallFits
      <4>2. CASE d # c
        <5>1. call'[d] = call[d] /\ (call[d] = Idle \/ CallFits(d, call[d]))
          BY <3>3, <4>2, Zenon DEF ServiceInv
        <5> QED
          BY <3>3, <3>r, <5>1, Zenon DEF CallFits, Idle
      <4> QED
        BY <4>1, <4>2, Zenon
    <3>6. ASSUME NEW req \in Requests PROVE EntryFits(req.scope, cache[latestScoreCacheKey(req.scope)])'
      <4>1. CASE latestScoreCacheKey(req.scope) = KeyOf(c)
        <5>1. Sharing(req.scope) = Sharing(k.req.scope)
          BY <4>1, Zenon DEF KeyOf, Sharing
        <5>2. cache'[latestScoreCacheKey(req.scope)] = Stored(k.rows)
          BY <3>3, <4>1, Zenon DEF ServiceInv, Keys
        <5> HIDE DEF k
        <5>3. EntryFits(req.scope, Stored(k.rows))
          BY <3>4, <5>1, Zenon DEF EntryFits, AnswerRows, Origins
        <5> QED
          BY <3>3, <3>r, <5>2, <5>3, Zenon DEF EntryFits
      <4>2. CASE latestScoreCacheKey(req.scope) # KeyOf(c)
        <5>1. /\ cache'[latestScoreCacheKey(req.scope)] = cache[latestScoreCacheKey(req.scope)]
              /\ EntryFits(req.scope, cache[latestScoreCacheKey(req.scope)])
          BY <3>3, <4>2, Zenon DEF ServiceInv, Keys
        <5> QED
          BY <3>3, <3>r, <5>1, Zenon DEF EntryFits
      <4> QED
        BY <4>1, <4>2, Zenon
    <3>7. Written'
      BY <3>3, Zenon DEF ServiceInv, Written
    <3>8. uses' \in UseCases /\ DOMAIN call' = Clients /\ DOMAIN walk' = Clients /\ DOMAIN cache' = Keys
      BY <3>3, Zenon DEF ServiceInv
    <3> QED
      BY <3>5, <3>6, <3>7, <3>8, Zenon DEF ServiceInv
  <2> QED
    BY <2>1, <2>2, <2>3, <2>4, <2>5, <2>6, <2>7, <2>8, <2>9, <2>10, <2>11, Zenon DEF Statement
\* The steps that no client takes.
<1>OthersFit. ASSUME ServiceInv,
                     \/ \E h \in Hosts, ts \in {now - 1, now} : writeToMysql(h, ts)
                     \/ \E key \in Keys : redisForgets(key)
                     \/ tick
                     \/ UNCHANGED vars
              PROVE  ServiceInv'
  <2> USE <1>OthersFit
  <2>0. \A c \in Clients : call[c] = Idle \/ CallFits(c, call[c])
    BY Zenon DEF ServiceInv
  <2>1. ASSUME call' = call, uses' = uses, walk' = walk, DOMAIN cache' = Keys, now' = now, Written',
               \A req \in Requests : LET key == latestScoreCacheKey(req.scope)
                                     IN  cache'[key] \in {cache[key], Absent}
        PROVE  ServiceInv'
    <3>0. \A h, scope, R : AnswerRows(h, scope, R) => AnswerRows(h, scope, R)'
      BY <2>1, InvWritten, RowsStay, Zenon
    <3>1. ASSUME NEW d \in Clients PROVE (call[d] = Idle \/ CallFits(d, call[d]))'
      BY <2>0, <2>1, <3>0, Zenon DEF CallFits, Idle
    <3>2. ASSUME NEW req \in Requests PROVE EntryFits(req.scope, cache[latestScoreCacheKey(req.scope)])'
      <4>1. EntryFits(req.scope, cache[latestScoreCacheKey(req.scope)])
        BY Zenon DEF ServiceInv
      <4>2. Absent.rows = {} /\ AnswerRows("QueryLatestScore", req.scope, {})
        BY NoRows, Zenon DEF Absent
      <4>3. cache'[latestScoreCacheKey(req.scope)] \in {cache[latestScoreCacheKey(req.scope)], Absent}
        BY <2>1, Zenon
      <4> QED
        BY <2>1, <3>0, <4>1, <4>2, <4>3, Zenon DEF EntryFits
    <3> QED
      BY <2>1, <3>1, <3>2, Zenon DEF ServiceInv
  <2>2. CASE \E h \in Hosts, ts \in {now - 1, now} : writeToMysql(h, ts)
    <3>1. PICK h \in Hosts, ts \in {now - 1, now} : writeToMysql(h, ts)
      BY <2>2, Zenon
    <3>2. Written'
      BY <3>1, WriteKeeps, Zenon DEF ServiceInv
    <3>3. call' = call /\ uses' = uses /\ walk' = walk /\ cache' = cache /\ now' = now
      BY <3>1, Zenon DEF writeToMysql
    <3>4. DOMAIN cache' = Keys
      BY <3>3, Zenon DEF ServiceInv
    <3> QED
      BY <2>1, <3>2, <3>3, <3>4, Zenon
  <2>3. CASE \E key \in Keys : redisForgets(key)
    <3>1. PICK key \in Keys : redisForgets(key)
      BY <2>3, Zenon
    <3>2. /\ call' = call /\ uses' = uses /\ walk' = walk /\ samples' = samples /\ now' = now
          /\ cache' = [cache EXCEPT ![key] = Absent]
      BY <3>1, Zenon DEF redisForgets
    <3>3. Written'
      BY <3>2, Zenon DEF ServiceInv, Written
    <3>4. DOMAIN cache' = Keys /\ \A x \in Keys : cache'[x] \in {cache[x], Absent}
      BY <3>2, Zenon DEF ServiceInv
    <3>5. \A req \in Requests : latestScoreCacheKey(req.scope) \in Keys
      BY Zenon DEF Keys
    <3> QED
      BY <2>1, <3>2, <3>3, <3>4, <3>5, Zenon
  <2>4. CASE tick
    <3>1. /\ call' = call /\ uses' = uses /\ walk' = walk /\ samples' = samples /\ now' = now + 1
          /\ cache' = [x \in Keys |-> IF cache[x].expires <= now' THEN Absent ELSE cache[x]]
          /\ \A c \in Clients : Running(c) => now - call[c].time < CallTime
          /\ now \in Nat /\ CallTime \in Nat
      BY <2>4, QueryServiceAssumption, Zenon DEF tick, ServiceInv, Written
    <3>r. \A h, scope, R : AnswerRows(h, scope, R) => AnswerRows(h, scope, R)'
      BY <3>1, RowsStay, Zenon
    <3>2. Written'
      <4>1. \A i \in DOMAIN samples : samples[i].ts \in -1 .. now + 1 /\ samples[i].at <= now + 1
        <5> SUFFICES ASSUME NEW i \in DOMAIN samples
                     PROVE  samples[i].ts \in -1 .. now + 1 /\ samples[i].at <= now + 1
          BY Zenon
        <5>0. samples \in Seq(Sample) /\ i \in 1 .. Len(samples)
          BY InvWritten
        <5>1. samples[i] \in Sample
          BY <5>0, PartType, Zenon
        <5>2. samples[i].at \in Nat
          BY <5>1, Zenon DEF Sample
        <5>3. samples[i].at <= now /\ samples[i].ts \in -1 .. now
          BY Zenon DEF ServiceInv, Written
        <5> QED
          BY <3>1, <5>2, <5>3
      <4> QED
        BY <3>1, <4>1 DEF ServiceInv, Written
    <3>3. ASSUME NEW d \in Clients PROVE (call[d] = Idle \/ CallFits(d, call[d]))'
      <4>1. CASE call[d] = Idle
        BY <3>1, <4>1, Zenon DEF Idle
      <4>2. CASE CallFits(d, call[d])
        <5>1. call[d].pc # "done" => Running(d)
          <6>1. call[d].pc # "idle"
            BY <4>2, StepHandlers, Zenon DEF CallFits
          <6> QED
            BY <6>1, Zenon DEF Running
        <5>2. call[d].time \in 0 .. now /\ (call[d].pc # "done" => now - call[d].time < CallTime)
          BY <3>1, <4>2, <5>1, Zenon DEF CallFits
        <5>3. call[d].time \in 0 .. now + 1 /\ (call[d].pc # "done" => (now + 1) - call[d].time <= CallTime)
          <6> DEFINE t == call[d].time
          <6> HIDE DEF t
          <6>1. t \in 0 .. now /\ (call[d].pc # "done" => now - t < CallTime)
            BY <5>2, Zenon DEF t
          <6>2. t \in 0 .. now + 1 /\ (call[d].pc # "done" => (now + 1) - t <= CallTime)
            BY <3>1, <6>1
          <6> QED
            BY <6>2, Zenon DEF t
        <5>4. AnswerRows(call[d].h, call[d].req.scope, call[d].rows)'
          <6>1. AnswerRows(call[d].h, call[d].req.scope, call[d].rows)
            BY <4>2, Zenon DEF CallFits
          <6>2. PICK h, scope, R : h = call[d].h /\ scope = call[d].req.scope /\ R = call[d].rows
            BY Zenon
          <6>3. AnswerRows(h, scope, R)'
            BY <3>r, <6>1, <6>2, Zenon
          <6> QED
            BY <3>1, <6>2, <6>3, Zenon
        <5>5. /\ DOMAIN call[d] = CallFields /\ <<call[d].h, call[d].req>> \in uses[d]
              /\ call[d].h \in Handlers /\ call[d].req \in Requests
              /\ call[d].pc \in StepsOf(call[d].h) \cup {"done"} /\ call[d].total \in Nat
          BY <4>2, Zenon DEF CallFits
        <5> QED
          BY <3>1, <5>3, <5>4, <5>5, Zenon DEF CallFits
      <4> QED
        BY <2>0, <4>1, <4>2, Zenon
    <3>4. ASSUME NEW req \in Requests PROVE EntryFits(req.scope, cache[latestScoreCacheKey(req.scope)])'
      <4> DEFINE key == latestScoreCacheKey(req.scope)
      <4>1. key \in Keys /\ EntryFits(req.scope, cache[key])
        BY Zenon DEF ServiceInv, Keys
      <4>2. Absent.rows = {} /\ AnswerRows("QueryLatestScore", req.scope, {})
        BY NoRows, Zenon DEF Absent
      <4> HIDE DEF key
      <4>3. cache'[key] = IF cache[key].expires <= now' THEN Absent ELSE cache[key]
        BY <3>1, <4>1, Zenon
      <4>4. AnswerRows("QueryLatestScore", req.scope, cache[key].rows)'
        <5>1. PICK R : R = cache'[key].rows
          BY Zenon
        <5>2. AnswerRows("QueryLatestScore", req.scope, R)
          BY <4>1, <4>2, <4>3, <5>1, Zenon DEF EntryFits
        <5>3. AnswerRows("QueryLatestScore", req.scope, R)'
          BY <3>r, <5>2, Zenon
        <5> QED
          BY <5>1, <5>3, Zenon DEF key
      <4>5. cache'[key] # Absent => cache'[key].expires \in Nat /\ cache'[key].expires > now'
        <5> SUFFICES ASSUME cache'[key] # Absent PROVE cache'[key].expires \in Nat /\ cache'[key].expires > now'
          BY Zenon
        <5>1. cache'[key] = cache[key] /\ ~(cache[key].expires <= now')
          BY <4>3, Zenon
        <5>2. cache[key].expires \in Nat
          BY <4>1, <5>1, Zenon DEF EntryFits
        <5> QED
          BY <3>1, <5>1, <5>2
      <4>6. EntryFits(req.scope, cache[key])'
        BY <4>4, <4>5, Zenon DEF EntryFits, Absent
      <4> QED
        BY <4>6, Zenon DEF key
    <3>5. uses' \in UseCases /\ DOMAIN call' = Clients /\ DOMAIN walk' = Clients /\ DOMAIN cache' = Keys
      BY <3>1, Zenon DEF ServiceInv
    <3> QED
      BY <3>2, <3>3, <3>4, <3>5, Zenon DEF ServiceInv
  <2>5. CASE UNCHANGED vars
    <3>1. call' = call /\ uses' = uses /\ walk' = walk /\ samples' = samples /\ now' = now /\ cache' = cache
      BY <2>5, Zenon DEF vars
    <3>2. Written' /\ DOMAIN cache' = Keys
      BY <3>1, Zenon DEF ServiceInv, Written
    <3> QED
      BY <2>1, <3>1, <3>2, Zenon
  <2> QED
    BY <2>2, <2>3, <2>4, <2>5, Zenon
<1> QED
  BY <1>CallsFit, <1>StatementsFit, <1>OthersFit, Zenon DEF Next

\* ScopeIsolation: no answer shows a row from outside the tenant, team and
\* cluster of its request, for any requests, hosts and number of clients.  A
\* request of QueryLatestScore has to be free of the separator of the cache's
\* key itself; the identifiers of the other requests are any.
THEOREM IsolationHolds == Spec => []ScopeIsolation
<1>1. ServiceInv => ScopeIsolation
  <2> SUFFICES ASSUME ServiceInv, NEW c \in Clients, Answered(c),
                      call[c].h = "QueryLatestScore" => Plain(call[c].req.scope),
                      NEW r \in call[c].rows
               PROVE  LET scope == call[c].req.scope
                      IN  /\ r.tenant = scope.tenant /\ r.team = scope.team
                          /\ scope.cluster \in {NoId, r.cluster}
    BY Zenon DEF ScopeIsolation
  <2>1. CallFits(c, call[c])
    BY DEF ServiceInv, Answered, Idle
  <2>2. PICK t \in Origins(call[c].h, call[c].req.scope) : Fits(t, call[c].rows)
    BY <2>1, Zenon DEF CallFits, AnswerRows
  <2>3. t = call[c].req.scope
    <3>1. CASE call[c].h = "QueryLatestScore"
      <4>1. PICK req \in Requests : /\ t = req.scope
                                    /\ latestScoreCacheKey(req.scope) = latestScoreCacheKey(call[c].req.scope)
        BY <3>1, Zenon DEF Origins, Sharing
      <4>2. call[c].req \in Requests /\ Plain(call[c].req.scope)
        BY <2>1, <3>1, Zenon DEF CallFits
      <4> QED
        BY <4>1, <4>2, KeyIsScope, Zenon
    <3>2. CASE call[c].h # "QueryLatestScore"
      BY <3>2, Zenon DEF Origins
    <3> QED
      BY <3>1, <3>2, Zenon
  <2>4. scopePredicate(call[c].req.scope, r)
    BY <2>2, <2>3, Zenon DEF Fits
  <2> QED
    BY <2>4, Zenon DEF scopePredicate
<1> QED
  BY <1>1, ServiceStarts, ServiceKept, PTL DEF Spec

-----------------------------------------------------------------------------
\* The age of the latest scores.

\* The rows are those of the scope in the database of one moment, and everything
\* written since then was written at time t or later.
ReadOf(rows, scope, t) ==
    \E n \in 0 .. Len(samples) :
        /\ rows = LatestRows(Database(n), scope)
        /\ \A i \in n + 1 .. Len(samples) : samples[i].at >= t

\* They were read for the scope, or for one that shares its key.
Fresh(rows, scope, t) == \E s \in Sharing(scope) : ReadOf(rows, s, t)

CallRecent(k) ==
    /\ k.pc = "store" => Fresh(k.rows, k.req.scope, k.time)
    /\ k.pc = "done" /\ k.status = "OK" /\ k.h = "QueryLatestScore" =>
          Fresh(k.rows, k.req.scope, k.time - CacheTtl - CallTime + 1)

EntryRecent(scope, entry) ==
    entry # Absent =>
        /\ entry.expires <= now + CacheTtl
        /\ Fresh(entry.rows, scope, entry.expires - CacheTtl - CallTime)

\* A call that is about to store its rows read them after it began; an entry
\* was read no earlier than a call's time before it was stored.
RecentInv ==
    /\ \A c \in Clients : CallRecent(call[c])
    /\ \A req \in Requests : EntryRecent(req.scope, cache[latestScoreCacheKey(req.scope)])

\* LatestScoresAreRecent: an answer of QueryLatestScore is the query's result
\* on the database of one moment, less than the cache's TTL and one call ago,
\* for any TTL, any bound on a call and any number of clients; it is the result
\* for its own scope when that is free of the separator of the cache's key.
THEOREM RecentHolds == Spec => []LatestScoresAreRecent
<1>SampleTimes. ASSUME Written, NEW i \in 1 .. Len(samples)
                PROVE  samples[i].at \in Nat /\ samples[i].at <= now /\ now \in Nat /\ Len(samples) \in Nat
  <2> USE <1>SampleTimes
  <2>1. samples[i] \in Sample
    BY PartType, Zenon DEF Written
  <2> QED
    BY <2>1 DEF Written, Sample
<1>ReadSince. ASSUME Written, NEW R, NEW scope, NEW t \in Int, NEW u \in Int, u <= t, ReadOf(R, scope, t)
              PROVE  ReadOf(R, scope, u)
  <2> USE <1>ReadSince
  <2>1. PICK n \in 0 .. Len(samples) : /\ R = LatestRows(Database(n), scope)
                                       /\ \A i \in n + 1 .. Len(samples) : samples[i].at >= t
    BY Zenon DEF ReadOf
  <2>2. ASSUME NEW i \in n + 1 .. Len(samples) PROVE samples[i].at >= u
    <3>1. i \in 1 .. Len(samples)
      BY DEF Written
    <3>2. samples[i].at \in Nat /\ samples[i].at >= t
      BY <2>1, <3>1, <1>SampleTimes, Zenon
    <3> QED
      BY <3>2
  <2> QED
    BY <2>1, <2>2, Zenon DEF ReadOf
<1>ReadNow. ASSUME Written, NEW scope, NEW t
            PROVE  ReadOf(LatestRows(DB, scope), scope, t)
  <2> USE <1>ReadNow
  <2>1. Len(samples) \in Nat
    BY DEF Written
  <2> QED
    BY <2>1 DEF ReadOf, DB
\* What is read stays fresh while samples are written.
<1>ReadWrite. ASSUME Written, NEW h \in Hosts, NEW ts \in {now - 1, now}, writeToMysql(h, ts),
                     NEW R, NEW scope, NEW t \in Int, t <= now, ReadOf(R, scope, t)
              PROVE  ReadOf(R, scope, t)'
  <2> USE <1>ReadWrite
  <2>1. PICK n \in 0 .. Len(samples) : /\ R = LatestRows(Database(n), scope)
                                       /\ \A i \in n + 1 .. Len(samples) : samples[i].at >= t
    BY Zenon DEF ReadOf
  <2>2. /\ Len(samples') = Len(samples) + 1 /\ Len(samples) \in Nat
        /\ samples'[Len(samples')].at = now
        /\ \A i \in 1 .. Len(samples) : samples'[i] = samples[i]
        /\ Database(n)' = Database(n)
    BY WriteKeeps, Zenon
  <2>3. R = LatestRows(Database(n)', scope)
    BY <2>1, <2>2, Zenon
  <2>4. ASSUME NEW i \in n + 1 .. Len(samples') PROVE samples'[i].at >= t
    <3>1. CASE i \in 1 .. Len(samples)
      BY <2>1, <2>2, <3>1
    <3>2. CASE i = Len(samples')
      BY <2>2, <3>2, Zenon DEF Written
    <3> QED
      BY <2>2, <3>1, <3>2
  <2>5. n \in 0 .. Len(samples')
    BY <2>2
  <2> QED
    BY <2>3, <2>4, <2>5, Zenon DEF ReadOf
<1>SameRead. ASSUME samples' = samples
             PROVE  \A R, s, t : ReadOf(R, s, t)' <=> ReadOf(R, s, t)
  <2> USE <1>SameRead
  <2> SUFFICES ASSUME NEW R, NEW s, NEW t PROVE ReadOf(R, s, t)' <=> ReadOf(R, s, t)
    BY Zenon
  <2>1. \A n : Database(n)' = Database(n)
    BY DEF Database, RowsOf
  <2> QED
    BY <2>1, Zenon DEF ReadOf
\* The same of what was read for a scope that shares the key.
<1>FreshSince. ASSUME Written, NEW R, NEW scope, NEW t \in Int, NEW u \in Int, u <= t, Fresh(R, scope, t)
               PROVE  Fresh(R, scope, u)
  <2>1. PICK s \in Sharing(scope) : ReadOf(R, s, t)
    BY <1>FreshSince, Zenon DEF Fresh
  <2>2. ReadOf(R, s, u)
    BY <1>FreshSince, <1>ReadSince, <2>1, Zenon
  <2> QED
    BY <2>2, Zenon DEF Fresh
<1>FreshNow. ASSUME Written, NEW req \in Requests, NEW t
             PROVE  Fresh(LatestRows(DB, req.scope), req.scope, t)
  BY <1>FreshNow, <1>ReadNow, OwnKey, Zenon DEF Fresh
<1>FreshWrite. ASSUME Written, NEW h \in Hosts, NEW ts \in {now - 1, now}, writeToMysql(h, ts),
                      NEW R, NEW scope, NEW t \in Int, t <= now, Fresh(R, scope, t)
               PROVE  Fresh(R, scope, t)'
  <2>1. PICK s \in Sharing(scope) : ReadOf(R, s, t)
    BY <1>FreshWrite, Zenon DEF Fresh
  <2>2. ReadOf(R, s, t)'
    BY <1>FreshWrite, <1>ReadWrite, <2>1, Zenon
  <2> QED
    BY <2>2, Zenon DEF Fresh, Sharing
<1>SameFresh. ASSUME samples' = samples
              PROVE  \A R, s, t : Fresh(R, s, t)' <=> Fresh(R, s, t)
  BY <1>SameFresh, <1>SameRead, Zenon DEF Fresh, Sharing
\* A step of one client that leaves tables, clock and cache alone.
<1>CallStaysRecent. ASSUME ServiceInv, RecentInv, NEW c \in Clients, NEW k, CallRecent(k),
                           call' = [call EXCEPT ![c] = k], now' = now, samples' = samples, cache' = cache
                    PROVE  RecentInv'
  <2> USE <1>CallStaysRecent
  <2>1. ASSUME NEW d \in Clients PROVE CallRecent(call[d])'
    <3>1. PICK q : q = call'[d]
      BY Zenon
    <3>2. CallRecent(q)
      BY <3>1, Zenon DEF ServiceInv, RecentInv
    <3>3. CallRecent(q)'
      BY <3>2, <1>SameFresh, Zenon DEF CallRecent
    <3> QED
      BY <3>1, <3>3, Zenon DEF CallRecent
  <2>2. ASSUME NEW req \in Requests PROVE EntryRecent(req.scope, cache[latestScoreCacheKey(req.scope)])'
    <3>1. PICK e : e = cache[latestScoreCacheKey(req.scope)]
      BY Zenon
    <3>2. EntryRecent(req.scope, e)
      BY <3>1, Zenon DEF RecentInv
    <3>3. EntryRecent(req.scope, e)'
      BY <3>2, <1>SameFresh, Zenon DEF EntryRecent
    <3> QED
      BY <3>1, <3>3, Zenon DEF EntryRecent
  <2> QED
    BY <2>1, <2>2, Zenon DEF RecentInv
<1>CallsRecent. ASSUME ServiceInv, RecentInv, NEW c \in Clients, Calls(c)
                PROVE  RecentInv'
  <2> USE <1>CallsRecent
  <2>1. ASSUME NEW h, NEW req, NEW refusal, NEW first, first # "store", first # "done",
               Begin(c, h, req, refusal, first)
        PROVE  \E k : CallRecent(k) /\ call' = [call EXCEPT ![c] = k]
    <3> DEFINE k == [pc |-> IF refusal = "OK" THEN first ELSE "done", h |-> h, req |-> req,
                     status |-> refusal, total |-> 0, rows |-> {}, time |-> now]
    <3>1. call' = [call EXCEPT ![c] = k]
      BY <2>1, Zenon DEF Begin
    <3>2. k.pc # "store" /\ (k.pc = "done" => k.status # "OK")
      BY <2>1, Zenon
    <3> HIDE DEF k
    <3>3. CallRecent(k)
      BY <3>2, Zenon DEF CallRecent
    <3> QED
      BY <3>1, <3>3, Zenon
  <2>2. ASSUME NEW h, NEW req, PageHandler(c, h, req) PROVE RecentInv'
    <3>1. PICK k : CallRecent(k) /\ call' = [call EXCEPT ![c] = k]
      BY <2>1, <2>2, Zenon DEF PageHandler
    <3>2. now' = now /\ samples' = samples /\ cache' = cache
      BY <2>2, Zenon DEF PageHandler
    <3> QED
      BY <3>1, <3>2, <1>CallStaysRecent, Zenon
  <2>3. ASSUME NEW h, NEW req, NEW refusal, NEW first, first # "store", first # "done",
               OtherHandler(c, h, req, refusal, first)
        PROVE  RecentInv'
    <3>1. PICK k : CallRecent(k) /\ call' = [call EXCEPT ![c] = k]
      BY <2>1, <2>3, Zenon DEF OtherHandler
    <3>2. now' = now /\ samples' = samples /\ cache' = cache
      BY <2>3, Zenon DEF OtherHandler
    <3> QED
      BY <3>1, <3>2, <1>CallStaysRecent, Zenon
  <2>4. PICK req \in Requests :
          \/ \E h \in PageHandlers : PageHandler(c, h, req)
          \/ QueryTrend(c, req) \/ QueryAnomaly(c, req) \/ QueryScoreRank(c, req) \/ QueryLatestScore(c, req)
    BY Zenon DEF Calls, QueryPerformance, QueryNetDetail, QueryDiskDetail, QueryMemDetail, QuerySoftIrqDetail,
           QueryMysqlDetail, QueryRedisDetail, PageHandlers, TableOf
  <2> QED
    BY <2>2, <2>3, <2>4, Zenon DEF QueryTrend, QueryAnomaly, QueryScoreRank, QueryLatestScore
<1>StatementsRecent. ASSUME ServiceInv, RecentInv, NEW c \in Clients, Statement(c)
                     PROVE  RecentInv'
  <2> USE <1>StatementsRecent
  <2> DEFINE k == call[c]
             Rest == now' = now /\ samples' = samples /\ cache' = cache
  <2>0. call[c].pc # "idle" => CallFits(c, k) /\ k.req \in Requests /\ k.h \in Handlers
    BY InvCall DEF Idle, CallFits
  <2>e. Written /\ now \in Nat /\ CacheTtl \in Nat \ {0} /\ CallTime \in Nat
    BY QueryServiceAssumption, InvWritten, Zenon
  <2>a. ASSUME CallFits(c, k), NEW status, NEW total \in Nat, NEW R, AnswerRows(k.h, k.req.scope, R),
               status # "OK" \/ k.h # "QueryLatestScore"
        PROVE  CallRecent(Answer(c, status, total, R))
    <3>1. /\ Answer(c, status, total, R).pc = "done"
          /\ Answer(c, status, total, R).h = k.h
          /\ Answer(c, status, total, R).status = status
      BY <2>a, AnswerFits
    <3> QED
      BY <2>a, <3>1, Zenon DEF CallRecent
  <2>1. CASE executeFails(c)
    <3>1. CallFits(c, k) /\ AnswerRows(k.h, k.req.scope, {})
      BY <2>0, <2>1, NoRows, Zenon DEF executeFails
    <3>2. CallRecent(Failed(c, "INTERNAL"))
      BY <2>a, <3>1, Zenon DEF Failed
    <3>3. Rest /\ call' = [call EXCEPT ![c] = Failed(c, "INTERNAL")]
      BY <2>1, Zenon DEF executeFails, Goes
    <3> QED
      BY <3>2, <3>3, <1>CallStaysRecent, Zenon
  <2>2. CASE executePreparedCount(c)
    <3> DEFINE new == [call[c] EXCEPT !.pc = "page", !.total = Total(call[c].h, DB, call[c].req)]
    <3>1. CallFits(c, k)
      BY <2>0, <2>2, Zenon DEF executePreparedCount
    <3>2. new.pc = "page"
      BY <3>1, Zenon DEF CallFits, CallFields
    <3>3. Rest /\ call' = [call EXCEPT ![c] = new]
      BY <2>2, Zenon DEF executePreparedCount, Goes
    <3> HIDE DEF new
    <3>4. CallRecent(new)
      BY <3>2, Zenon DEF CallRecent
    <3> QED
      BY <3>3, <3>4, <1>CallStaysRecent, Zenon
  <2>3. CASE executePreparedRows(c)
    <3>1. CallFits(c, k) /\ k.h \in Counting /\ k.total \in Nat /\ k.h # "QueryLatestScore" /\ k.req \in Requests
      <4>1. CallFits(c, k) /\ k.pc = "page" /\ k.req \in Requests
        BY <2>0, <2>3, Zenon DEF executePreparedRows
      <4>2. k.h \in Handlers /\ k.total \in Nat /\ "page" \in StepsOf(k.h)
        BY <4>1, Zenon DEF CallFits
      <4>3. k.h \in Counting
        BY <4>2, StepHandlers, Zenon
      <4>4. "QueryLatestScore" \notin Counting
        BY Zenon DEF Counting, PageHandlers, TableOf
      <4> QED
        BY <4>1, <4>2, <4>3, <4>4, Zenon
    <3>2. PICK P \in SUBSET Selected(k.h, DB, k.req) :
             call' = [call EXCEPT ![c] = Answer(c, "OK", k.total, P)]
      BY <2>3, Zenon DEF executePreparedRows, PagesOf, Goes
    <3>3. AnswerRows(k.h, k.req.scope, P)
      <4>1. Fits(k.req.scope, Selected(k.h, DB, k.req))
        BY <3>1, InvWritten, SelectedFits, Zenon DEF DB
      <4>2. Fits(k.req.scope, P)
        BY <4>1, PartFits, Zenon
      <4> QED
        BY <3>1, <4>2, OwnRows, Zenon
    <3>4. CallRecent(Answer(c, "OK", k.total, P))
      BY <2>a, <3>1, <3>3, Zenon
    <3>5. Rest
      BY <2>3, Zenon DEF executePreparedRows
    <3> QED
      BY <3>2, <3>4, <3>5, <1>CallStaysRecent, Zenon
  <2>4. CASE trendStatement(c)
    <3>1. CallFits(c, k) /\ k.req \in Requests /\ k.h # "QueryLatestScore"
      BY <2>0, <2>4, StepHandlers, Zenon DEF trendStatement, CallFits
    <3>2. CallRecent(Answer(c, "OK", 0, UNION queryTrend(DB, k.req)))
      <4>1. AnswerRows(k.h, k.req.scope, UNION queryTrend(DB, k.req))
        BY <3>1, StatementRows, OwnRows, Zenon
      <4> QED
        BY <2>a, <3>1, <4>1, Zenon
    <3>3. Rest /\ call' = [call EXCEPT ![c] = Answer(c, "OK", 0, UNION queryTrend(DB, k.req))]
      BY <2>4, Zenon DEF trendStatement, Goes
    <3> QED
      BY <3>2, <3>3, <1>CallStaysRecent, Zenon
  <2>5. CASE anomalyStatement(c)
    <3> DEFINE new == [call[c] EXCEPT !.pc = IF @ = "performance" THEN "mysql" ELSE "redis",
                                      !.rows = @ \cup Anomalous(call[c].pc, call[c].req)]
    <3>1. CallFits(c, k)
      BY <2>0, <2>5, Zenon DEF anomalyStatement
    <3>2. new.pc \in {"mysql", "redis"}
      BY <3>1, Zenon DEF CallFits, CallFields
    <3>3. Rest /\ call' = [call EXCEPT ![c] = new]
      BY <2>5, Zenon DEF anomalyStatement, Goes
    <3> HIDE DEF new
    <3>4. CallRecent(new)
      BY <3>2, Zenon DEF CallRecent
    <3> QED
      BY <3>3, <3>4, <1>CallStaysRecent, Zenon
  <2>6. CASE lastAnomalyStatement(c)
    <3> DEFINE R == k.rows \cup Anomalous("redis", k.req)
    <3>1. CallFits(c, k) /\ k.req \in Requests /\ "redis" \in Tables /\ k.h # "QueryLatestScore"
      BY <2>0, <2>6, StepHandlers, Zenon DEF lastAnomalyStatement, Tables, CallFits
    <3>2. Fits(k.req.scope, R)
      <4>1. Fits(k.req.scope, k.rows)
        BY <3>1, TableRows, Zenon DEF CallFits
      <4> QED
        BY <3>1, <4>1, StatementRows, BothFit, Zenon
    <3>3. PICK P \in SUBSET R : call' = [call EXCEPT ![c] = Answer(c, "OK", Cardinality(R), P)]
      BY <2>6, Zenon DEF lastAnomalyStatement, PagesOf, Goes
    <3> HIDE DEF R
    <3>4. Cardinality(R) \in Nat /\ AnswerRows(k.h, k.req.scope, P)
      <4>1. Cardinality(R) \in Nat /\ Fits(k.req.scope, P)
        BY <3>2, PartFits, FS_CardinalityType, Zenon DEF Fits
      <4> QED
        BY <3>1, <4>1, OwnRows, Zenon
    <3>5. CallRecent(Answer(c, "OK", Cardinality(R), P))
      BY <2>a, <3>1, <3>4, Zenon
    <3>6. Rest
      BY <2>6, Zenon DEF lastAnomalyStatement
    <3> QED
      BY <3>3, <3>5, <3>6, <1>CallStaysRecent, Zenon
  <2>7. CASE cacheHit(c)
    <3> DEFINE e == cache[KeyOf(c)]
               new == Answer(c, "OK", 0, e.rows)
    <3>1. CallFits(c, k) /\ k.req \in Requests /\ k.h = "QueryLatestScore"
      BY <2>0, <2>7, StepHandlers, Zenon DEF cacheHit, CallFits
    <3>2. /\ e # Absent /\ EntryFits(k.req.scope, e) /\ EntryRecent(k.req.scope, e)
      BY <2>7, <3>1, Zenon DEF cacheHit, ServiceInv, RecentInv, KeyOf
    <3>3. Rest /\ call' = [call EXCEPT ![c] = new]
      BY <2>7, Zenon DEF cacheHit, Goes
    <3> HIDE DEF e
    <3>4. AnswerRows(k.h, k.req.scope, e.rows)
      BY <3>1, <3>2, Zenon DEF EntryFits
    <3>5. /\ new.pc = "done" /\ new.req = k.req /\ new.rows = e.rows /\ new.time = now
      BY <3>1, <3>4, AnswerFits
    <3>6. Fresh(e.rows, k.req.scope, now - CacheTtl - CallTime + 1)
      <4>1. e.expires \in Nat /\ e.expires > now /\ Fresh(e.rows, k.req.scope, e.expires - CacheTtl - CallTime)
        BY <3>2, Zenon DEF EntryFits, EntryRecent
      <4>2. /\ now - CacheTtl - CallTime + 1 <= e.expires - CacheTtl - CallTime
            /\ now - CacheTtl - CallTime + 1 \in Int /\ e.expires - CacheTtl - CallTime \in Int
        BY <2>e, <4>1
      <4> QED
        BY <2>e, <4>1, <4>2, <1>FreshSince, Zenon
    <3> HIDE DEF new
    <3>7. CallRecent(new)
      BY <3>5, <3>6, Zenon DEF CallRecent
    <3> QED
      BY <3>3, <3>7, <1>CallStaysRecent, Zenon
  <2>8. CASE cacheMiss(c)
    <3> DEFINE new == [call[c] EXCEPT !.pc = "query"]
    <3>1. CallFits(c, k)
      BY <2>0, <2>8, Zenon DEF cacheMiss
    <3>2. new.pc = "query"
      BY <3>1, Zenon DEF CallFits, CallFields
    <3>3. Rest /\ call' = [call EXCEPT ![c] = new]
      BY <2>8, Zenon DEF cacheMiss, Goes
    <3> HIDE DEF new
    <3>4. CallRecent(new)
      BY <3>2, Zenon DEF CallRecent
    <3> QED
      BY <3>3, <3>4, <1>CallStaysRecent, Zenon
  <2>9. CASE latestStatement(c)
    <3> DEFINE new == [call[c] EXCEPT !.pc = "store", !.rows = LatestRows(DB, call[c].req.scope)]
    <3>1. CallFits(c, k) /\ k.req \in Requests
      BY <2>0, <2>9, Zenon DEF latestStatement
    <3>2. new.pc = "store" /\ new.req = k.req /\ new.rows = LatestRows(DB, k.req.scope)
      BY <3>1, Zenon DEF CallFits, CallFields
    <3>3. Rest /\ call' = [call EXCEPT ![c] = new]
      BY <2>9, Zenon DEF latestStatement, Goes
    <3> HIDE DEF new
    <3>4. Fresh(new.rows, new.req.scope, new.time)
      BY <2>e, <3>1, <3>2, <1>FreshNow, Zenon
    <3>5. CallRecent(new)
      BY <3>2, <3>4, Zenon DEF CallRecent
    <3> QED
      BY <3>3, <3>5, <1>CallStaysRecent, Zenon
  <2>10. ASSUME call[c].pc = "store"
         PROVE  /\ CallRecent(Answer(c, "OK", 0, k.rows))
                /\ Fresh(k.rows, k.req.scope, now - CallTime)
    <3> DEFINE new == Answer(c, "OK", 0, k.rows)
    <3>1. CallFits(c, k) /\ AnswerRows(k.h, k.req.scope, k.rows)
      BY <2>0, <2>10, Zenon DEF CallFits
    <3>2. new.pc = "done" /\ new.req = k.req /\ new.rows = k.rows /\ new.time = now
      BY <3>1, AnswerFits
    <3>3. k.time \in 0 .. now /\ now - k.time <= CallTime /\ Fresh(k.rows, k.req.scope, k.time)
      BY <2>10, <3>1, Zenon DEF CallFits, RecentInv, CallRecent
    <3>4. /\ now - CallTime <= k.time /\ now - CacheTtl - CallTime + 1 <= k.time
          /\ k.time \in Int /\ now - CallTime \in Int /\ now - CacheTtl - CallTime + 1 \in Int
      BY <2>e, <3>3
    <3>5. Fresh(k.rows, k.req.scope, now - CallTime) /\ Fresh(k.rows, k.req.scope, now - CacheTtl - CallTime + 1)
      BY <2>e, <3>3, <3>4, <1>FreshSince, Zenon
    <3> HIDE DEF new
    <3>6. CallRecent(new)
      BY <3>2, <3>5, Zenon DEF CallRecent
    <3> QED
      BY <3>5, <3>6, Zenon DEF new
  <2>11. CASE cacheSetFails(c)
    <3>1. Rest /\ call' = [call EXCEPT ![c] = Answer(c, "OK", 0, k.rows)] /\ call[c].pc = "store"
      BY <2>11, Zenon DEF cacheSetFails, Goes
    <3> QED
      BY <2>10, <3>1, <1>CallStaysRecent, Zenon
  <2>12. CASE cacheSet(c)
    <3> DEFINE new == Answer(c, "OK", 0, k.rows)
               e == Stored(k.rows)
    <3>1. /\ now' = now /\ samples' = samples /\ call[c].pc = "store"
          /\ call' = [call EXCEPT ![c] = new]
          /\ cache' = [cache EXCEPT ![KeyOf(c)] = e]
      BY <2>12, Zenon DEF cacheSet, Goes
    <3>2. k.req \in Requests
      BY <2>0, <3>1, Zenon
    <3>3. CallRecent(new) /\ Fresh(k.rows, k.req.scope, now - CallTime)
      BY <2>10, <3>1, Zenon
    <3>4. EntryRecent(k.req.scope, e)
      <4>1. e.rows = k.rows /\ e.expires = now + CacheTtl
        BY Zenon DEF Stored
      <4>2. e.expires <= now + CacheTtl /\ e.expires - CacheTtl - CallTime = now - CallTime
        BY <2>e, <4>1
      <4> HIDE DEF e
      <4> QED
        BY <3>3, <4>1, <4>2, Zenon DEF EntryRecent
    <3> HIDE DEF new, e
    <3>5. ASSUME NEW d \in Clients PROVE CallRecent(call[d])'
      <4>1. PICK q : q = call'[d]
        BY Zenon
      <4>2. CallRecent(q)
        BY <3>1, <3>3, <4>1, Zenon DEF ServiceInv, RecentInv
      <4>3. CallRecent(q)'
        BY <3>1, <4>2, <1>SameFresh, Zenon DEF CallRecent
      <4> QED
        BY <4>1, <4>3, Zenon DEF CallRecent
    <3>6. ASSUME NEW req \in Requests PROVE EntryRecent(req.scope, cache[latestScoreCacheKey(req.scope)])'
      <4>1. PICK q : q = cache'[latestScoreCacheKey(req.scope)]
        BY Zenon
      <4>2. EntryRecent(req.scope, q)
        <5>1. CASE latestScoreCacheKey(req.scope) = KeyOf(c)
          <6>1. Sharing(req.scope) = Sharing(k.req.scope)
            BY <5>1, Zenon DEF KeyOf, Sharing
          <6>2. q = e
            BY <3>1, <4>1, <5>1, Zenon DEF ServiceInv, Keys
          <6> QED
            BY <3>4, <6>1, <6>2, Zenon DEF EntryRecent, Fresh
        <5>2. CASE latestScoreCacheKey(req.scope) # KeyOf(c)
          <6>1. q = cache[latestScoreCacheKey(req.scope)]
            BY <3>1, <4>1, <5>2, Zenon DEF ServiceInv, Keys
          <6> QED
            BY <6>1, Zenon DEF RecentInv
        <5> QED
          BY <5>1, <5>2, Zenon
      <4>3. EntryRecent(req.scope, q)'
        BY <3>1, <4>2, <1>SameFresh, Zenon DEF EntryRecent
      <4> QED
        BY <4>1, <4>3, Zenon DEF EntryRecent
    <3> QED
      BY <3>5, <3>6, Zenon DEF RecentInv
  <2> QED
    BY <2>1, <2>2, <2>3, <2>4, <2>5, <2>6, <2>7, <2>8, <2>9, <2>11, <2>12, Zenon DEF Statement
<1>OthersRecent. ASSUME ServiceInv, RecentInv,
                        \/ \E h \in Hosts, ts \in {now - 1, now} : writeToMysql(h, ts)
                        \/ \E key \in Keys : redisForgets(key)
                        \/ tick
                        \/ UNCHANGED vars
                 PROVE  RecentInv'
  <2> USE <1>OthersRecent
  <2>e. Written /\ now \in Nat /\ CacheTtl \in Nat \ {0} /\ CallTime \in Nat
    BY QueryServiceAssumption, InvWritten, Zenon
  <2>1. CASE \E h \in Hosts, ts \in {now - 1, now} : writeToMysql(h, ts)
    <3>1. PICK h \in Hosts, ts \in {now - 1, now} : writeToMysql(h, ts)
      BY <2>1, Zenon
    <3>2. call' = call /\ cache' = cache /\ now' = now
      BY <3>1, Zenon DEF writeToMysql
    <3>3. ASSUME NEW d \in Clients PROVE CallRecent(call[d])'
      <4>1. PICK q : q = call[d]
        BY Zenon
      <4>2. CallRecent(q) /\ (q = Idle \/ CallFits(d, q))
        BY <4>1, Zenon DEF ServiceInv, RecentInv
      <4>3. CallRecent(q)'
        <5>1. CASE q = Idle
          BY <5>1, Zenon DEF CallRecent, Idle
        <5>2. CASE CallFits(d, q)
          <6>1. /\ q.time \in Int /\ q.time <= now
                /\ q.time - CacheTtl - CallTime + 1 \in Int /\ q.time - CacheTtl - CallTime + 1 <= now
            BY <2>e, <5>2 DEF CallFits
          <6>2. \A R, s : Fresh(R, s, q.time) => Fresh(R, s, q.time)'
            BY <2>e, <3>1, <6>1, <1>FreshWrite, Zenon
          <6>3. \A R, s : Fresh(R, s, q.time - CacheTtl - CallTime + 1)
                              => Fresh(R, s, q.time - CacheTtl - CallTime + 1)'
            BY <2>e, <3>1, <6>1, <1>FreshWrite, Zenon
          <6> QED
            BY <4>2, <6>2, <6>3, Zenon DEF CallRecent
        <5> QED
          BY <4>2, <5>1, <5>2, Zenon
      <4> QED
        BY <3>2, <4>1, <4>3, Zenon DEF CallRecent
    <3>4. ASSUME NEW req \in Requests PROVE EntryRecent(req.scope, cache[latestScoreCacheKey(req.scope)])'
      <4>1. PICK e : e = cache[latestScoreCacheKey(req.scope)]
        BY Zenon
      <4>2. EntryRecent(req.scope, e) /\ EntryFits(req.scope, e)
        BY <4>1, Zenon DEF ServiceInv, RecentInv
      <4>3. EntryRecent(req.scope, e)'
        <5> SUFFICES ASSUME e # Absent
                     PROVE  e.expires <= now + CacheTtl /\ Fresh(e.rows, req.scope, e.expires - CacheTtl - CallTime)'
          BY <3>2, Zenon DEF EntryRecent, Absent
        <5>1. /\ e.expires \in Nat /\ e.expires <= now + CacheTtl
              /\ Fresh(e.rows, req.scope, e.expires - CacheTtl - CallTime)
          BY <4>2, Zenon DEF EntryRecent, EntryFits
        <5>2. e.expires - CacheTtl - CallTime \in Int /\ e.expires - CacheTtl - CallTime <= now
          BY <2>e, <5>1
        <5>3. Fresh(e.rows, req.scope, e.expires - CacheTtl - CallTime)'
          BY <2>e, <3>1, <5>1, <5>2, <1>FreshWrite, Zenon
        <5> QED
          BY <5>1, <5>3, Zenon
      <4> QED
        BY <3>2, <4>1, <4>3, Zenon DEF EntryRecent
    <3> QED
      BY <3>3, <3>4, Zenon DEF RecentInv
  <2>2. ASSUME call' = call, samples' = samples, now' \in {now, now + 1},
               \A key \in Keys : cache'[key] \in {cache[key], Absent}
        PROVE  RecentInv'
    <3>1. ASSUME NEW d \in Clients PROVE CallRecent(call[d])'
      <4>1. PICK q : q = call[d]
        BY Zenon
      <4>2. CallRecent(q)
        BY <4>1, Zenon DEF RecentInv
      <4>3. CallRecent(q)'
        BY <2>2, <4>2, <1>SameFresh, Zenon DEF CallRecent
      <4> QED
        BY <2>2, <4>1, <4>3, Zenon DEF CallRecent
    <3>2. ASSUME NEW req \in Requests PROVE EntryRecent(req.scope, cache[latestScoreCacheKey(req.scope)])'
      <4>1. PICK e : e = cache'[latestScoreCacheKey(req.scope)]
        BY Zenon
      <4>2. latestScoreCacheKey(req.scope) \in Keys
        BY Zenon DEF Keys
      <4>3. EntryRecent(req.scope, e) /\ (e # Absent => e.expires \in Nat)
        BY <2>2, <4>1, <4>2, Zenon DEF RecentInv, EntryRecent, ServiceInv, EntryFits
      <4>4. EntryRecent(req.scope, e)'
        <5> SUFFICES ASSUME e # Absent
                     PROVE  e.expires <= now' + CacheTtl /\ Fresh(e.rows, req.scope, e.expires - CacheTtl - CallTime)'
          BY Zenon DEF EntryRecent, Absent
        <5>1. /\ e.expires \in Nat /\ e.expires <= now + CacheTtl
              /\ Fresh(e.rows, req.scope, e.expires - CacheTtl - CallTime)
          BY <4>3, Zenon DEF EntryRecent
        <5>2. e.expires <= now' + CacheTtl
          BY <2>2, <2>e, <5>1
        <5>3. Fresh(e.rows, req.scope, e.expires - CacheTtl - CallTime)'
          BY <2>2, <5>1, <1>SameFresh, Zenon
        <5> QED
          BY <5>2, <5>3, Zenon
      <4> QED
        BY <4>1, <4>4, Zenon DEF EntryRecent
    <3> QED
      BY <3>1, <3>2, Zenon DEF RecentInv
  <2>3. CASE \E key \in Keys : redisForgets(key)
    <3>1. call' = call /\ samples' = samples /\ now' = now /\ \A x \in Keys : cache'[x] \in {cache[x], Absent}
      BY <2>3, Zenon DEF redisForgets, ServiceInv
    <3> QED
      BY <2>2, <3>1, Zenon
  <2>4. CASE tick
    <3>1. call' = call /\ samples' = samples /\ now' = now + 1 /\ \A x \in Keys : cache'[x] \in {cache[x], Absent}
      BY <2>4, Zenon DEF tick
    <3> QED
      BY <2>2, <3>1, Zenon
  <2>5. CASE UNCHANGED vars
    <3>1. call' = call /\ samples' = samples /\ now' = now /\ cache' = cache
      BY <2>5, Zenon DEF vars
    <3> QED
      BY <2>2, <3>1, Zenon
  <2> QED
    BY <2>1, <2>3, <2>4, <2>5, Zenon
<1>1. Init => RecentInv
  <2> SUFFICES ASSUME Init PROVE RecentInv
    OBVIOUS
  <2>1. \A c \in Clients : call[c] = Idle
    BY DEF Init
  <2>2. \A key \in Keys : cache[key] = Absent
    BY Zenon DEF Init
  <2>3. \A req \in Requests : latestScoreCacheKey(req.scope) \in Keys
    BY Zenon DEF Keys
  <2> QED
    BY <2>1, <2>2, <2>3 DEF RecentInv, CallRecent, EntryRecent, Idle
<1>2. ServiceInv /\ RecentInv /\ [Next]_vars => RecentInv'
  BY <1>CallsRecent, <1>StatementsRecent, <1>OthersRecent, Zenon DEF Next
<1>3. ServiceInv /\ RecentInv => LatestScoresAreRecent
  <2> SUFFICES ASSUME ServiceInv, RecentInv, NEW c \in Clients,
                      Answered(c), call[c].h = "QueryLatestScore"
               PROVE  \E n \in 0 .. Len(samples), req \in Requests :
                          /\ latestScoreCacheKey(req.scope) = KeyOf(c)
                          /\ Plain(call[c].req.scope) => req.scope = call[c].req.scope
                          /\ call[c].rows = LatestRows(Database(n), req.scope)
                          /\ \A i \in n + 1 .. Len(samples) : samples[i].at > call[c].time - CacheTtl - CallTime
    BY Zenon DEF LatestScoresAreRecent
  <2>1. CallFits(c, call[c])
    BY DEF ServiceInv, Answered, Idle
  <2>2. call[c].time \in Int /\ CacheTtl \in Int /\ CallTime \in Int
    BY <2>1, QueryServiceAssumption DEF CallFits
  <2>3. Fresh(call[c].rows, call[c].req.scope, call[c].time - CacheTtl - CallTime + 1)
    BY Zenon DEF RecentInv, CallRecent, Answered
  <2>r. PICK req \in Requests : /\ latestScoreCacheKey(req.scope) = KeyOf(c)
                                /\ ReadOf(call[c].rows, req.scope, call[c].time - CacheTtl - CallTime + 1)
    BY <2>3, Zenon DEF Fresh, Sharing, KeyOf
  <2>s. Plain(call[c].req.scope) => req.scope = call[c].req.scope
    BY <2>1, <2>r, KeyIsScope, Zenon DEF CallFits, KeyOf
  <2>4. PICK n \in 0 .. Len(samples) :
           /\ call[c].rows = LatestRows(Database(n), req.scope)
           /\ \A i \in n + 1 .. Len(samples) : samples[i].at >= call[c].time - CacheTtl - CallTime + 1
    BY <2>r, Zenon DEF ReadOf
  <2>5. ASSUME NEW i \in n + 1 .. Len(samples) PROVE samples[i].at > call[c].time - CacheTtl - CallTime
    <3>1. i \in 1 .. Len(samples)
      BY DEF ServiceInv, Written
    <3>2. samples[i].at \in Nat /\ samples[i].at >= call[c].time - CacheTtl - CallTime + 1
      BY <2>4, <3>1, <1>SampleTimes, Zenon DEF ServiceInv
    <3> QED
      BY <2>2, <3>2
  <2> QED
    BY <2>r, <2>s, <2>4, <2>5, Zenon
<1> QED
  BY <1>1, <1>2, <1>3, ServiceStarts, ServiceKept, PTL DEF Spec
=============================================================================

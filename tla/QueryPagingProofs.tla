-------------------------- MODULE QueryPagingProofs --------------------------
(***************************************************************************)
(* Proofs about the pages of QueryService.tla, for lists of any length.    *)
(* To ServiceInv of QueryServiceProofs, PromiseInv adds what a total       *)
(* promises of its page, and WalkInv where the rows lie that a client      *)
(* paging through a list has not seen yet.                                 *)
(***************************************************************************)
EXTENDS QueryServiceProofs

-----------------------------------------------------------------------------
\* Pages and totals.

\* The database as it is holds every sample.
LEMMA WrittenLength == Written => Len(samples) \in Nat /\ Len(samples) \in 0 .. Len(samples)
  BY DEF Written

\* The handlers that page a list count it too, and none of them is the ranking.
LEMMA PagedHandlers == \A h \in PageHandlers : h \in Counting /\ h # "QueryScoreRank"
  BY Zenon DEF Counting, PageHandlers, TableOf

\* One page further on, the offset is at most one page beyond what fits.
LEMMA NextOffset ==
    ASSUME NEW num \in Nat \ {0}, NEW size \in Nat \ {0}, NEW half \in Nat, size < half,
           num - 1 > 0 => (num - 1 - 1) * size < half
    PROVE  (num - 1) * size < 2 * half /\ num * size = (num - 1) * size + size
<1>1. num * size = (num - 1) * size + size
  OBVIOUS
<1>2. CASE num = 1
  BY <1>2
<1>3. CASE num # 1
  <2>1. num - 1 > 0 /\ num - 1 - 1 \in Nat
    BY <1>3
  <2>2. (num - 1) * size = (num - 1 - 1) * size + size
    OBVIOUS
  <2>3. PICK x \in Nat : x = (num - 1 - 1) * size
    BY <2>1
  <2> QED
    BY <1>1, <2>1, <2>2, <2>3
<1> QED
  BY <1>1, <1>2, <1>3, Zenon

\* Disjoint sets add their sizes.
LEMMA DisjointUnion ==
    ASSUME NEW S, IsFiniteSet(S), NEW T, IsFiniteSet(T), S \cap T = {}
    PROVE  /\ Cardinality(S) \in Nat /\ Cardinality(T) \in Nat
           /\ IsFiniteSet(S \cup T)
           /\ Cardinality(S \cup T) = Cardinality(S) + Cardinality(T)
<1>1. Cardinality(S) \in Nat /\ Cardinality(T) \in Nat
  BY FS_CardinalityType, Zenon
<1>2. /\ IsFiniteSet(S \cup T)
      /\ Cardinality(S \cup T) = Cardinality(S) + Cardinality(T) - Cardinality(S \cap T)
  BY FS_Union, Zenon
<1>3. Cardinality(S \cap T) = 0
  BY FS_EmptySet, Zenon
<1> QED
  BY <1>1, <1>2, <1>3

\* Of an ordered list, the rows on a page whose key is above k are as many as
\* the positions of the page among the rows whose key is above k.
LEMMA PagePositions ==
    ASSUME NEW rows, IsFiniteSet(rows), NEW key \in [rows -> Int],
           NEW offset \in Int, NEW size \in Int, NEW P \in PagesOf(key, offset, size),
           NEW k \in Int
    PROVE  Cardinality({r \in P : key[r] > k})
               = Cardinality((1 .. Cardinality({r \in rows : key[r] > k})) \cap (offset + 1 .. offset + size))
<1> DEFINE W == offset + 1 .. offset + size
           Above(j) == {r \in rows : key[r] > j}
           Shown(j) == {r \in P : key[r] > j}
           At(j) == {r \in rows : key[r] = j}
           N(j) == Cardinality(Above(j))
           Counted(j) == Cardinality(Shown(j)) = Cardinality((1 .. N(j)) \cap W)
           Bad == {N(j) : j \in {i \in Int : ~Counted(i)}}
<1>0. P \subseteq rows /\ DOMAIN key = rows /\ IsFiniteSet(P)
  BY FS_Subset, Zenon DEF PagesOf
<1>1. \A j \in Int : /\ IsFiniteSet(Above(j)) /\ IsFiniteSet(Shown(j)) /\ IsFiniteSet(At(j))
                     /\ N(j) \in Nat /\ Cardinality(At(j)) \in Nat
  <2>1. \A j \in Int : Above(j) \subseteq rows /\ Shown(j) \subseteq P /\ At(j) \subseteq rows
    BY Zenon
  <2> QED
    BY <1>0, <2>1, FS_Subset, FS_CardinalityType, Zenon
<1>2. IsFiniteSet(W)
  <2>1. offset + 1 \in Int /\ offset + size \in Int
    OBVIOUS
  <2> QED
    BY <2>1, FS_Interval, Zenon
<1>3. \A i \in rows : Cardinality(P \cap At(key[i]))
          = Cardinality((N(key[i]) + 1 .. N(key[i]) + Cardinality(At(key[i]))) \cap W)
  <2>1. \A x \in {key[r] : r \in rows} : Cardinality(P \cap At(x))
            = Cardinality((N(x) + 1 .. N(x) + Cardinality(At(x))) \cap W)
    BY <1>0, Zenon DEF PagesOf
  <2> HIDE DEF N, At, W
  <2> QED
    BY <2>1, Zenon
<1> SUFFICES ASSUME Bad # {} PROVE FALSE
  <2>1. Counted(k)
    <3> HIDE DEF N, Counted
    <3> QED
      BY Zenon
  <2> QED
    BY <2>1, Zenon
<1>4. PICK j \in Int : ~Counted(j) /\ \A i \in Int : ~Counted(i) => N(j) <= N(i)
  <2>1. Bad \subseteq Nat
    BY <1>1, Zenon
  <2>2. PICK n \in Bad : \A m \in Bad : n <= m
    <3> HIDE DEF Bad
    <3> QED
      BY <2>1, LeastNatural, Zenon
  <2> HIDE DEF N, Counted
  <2> QED
    BY <2>2, Zenon
<1>5. Above(j) # {}
  <2> SUFFICES ASSUME Above(j) = {} PROVE FALSE
    BY Zenon
  <2>1. Shown(j) = {} /\ N(j) = 0
    BY <1>0, FS_EmptySet, Zenon
  <2>2. (1 .. 0) \cap W = {}
    OBVIOUS
  <2> QED
    BY <1>4, <2>1, <2>2, Zenon
<1>6. PICK m \in rows : key[m] > j /\ \A r \in rows : key[r] > j => key[r] >= key[m]
  <2> DEFINE D == {key[r] - j : r \in Above(j)}
  <2>1. D \subseteq Nat /\ D # {}
    <3>1. \A r \in Above(j) : key[r] \in Int /\ key[r] > j
      BY Zenon
    <3>2. \A r \in Above(j) : key[r] - j \in Nat
      BY <3>1
    <3> HIDE DEF Above
    <3> QED
      BY <1>5, <3>2, Zenon
  <2>2. PICK d \in D : \A e \in D : d <= e
    <3> HIDE DEF D
    <3> QED
      BY <2>1, LeastNatural, Zenon
  <2>3. PICK m \in Above(j) : d = key[m] - j
    BY <2>2, Zenon
  <2>4. ASSUME NEW r \in rows, key[r] > j PROVE key[r] >= key[m]
    <3>1. key[r] - j \in D
      BY <2>4, Zenon
    <3>2. key[m] - j <= key[r] - j /\ key[m] \in Int /\ key[r] \in Int
      BY <2>2, <2>3, <3>1, Zenon
    <3> QED
      BY <3>2
  <2> QED
    BY <2>3, <2>4, Zenon
<1> DEFINE n == N(key[m])
           e == Cardinality(At(key[m]))
<1>7. /\ Above(j) = Above(key[m]) \cup At(key[m]) /\ Above(key[m]) \cap At(key[m]) = {}
      /\ Shown(j) = Shown(key[m]) \cup (P \cap At(key[m])) /\ Shown(key[m]) \cap (P \cap At(key[m])) = {}
      /\ key[m] \in Int
  BY <1>0, <1>6
<1>8. N(j) = n + e /\ n \in Nat /\ e \in Nat \ {0}
  <2>1. m \in At(key[m])
    BY Zenon
  <2>2. N(j) = n + e /\ n \in Nat /\ e \in Nat
    <3> HIDE DEF Above, At
    <3> QED
      BY <1>1, <1>7, DisjointUnion, Zenon
  <2>3. e # 0
    <3> HIDE DEF At
    <3> QED
      BY <1>1, <1>7, <2>1, FS_EmptySet, Zenon
  <2> QED
    BY <2>2, <2>3, Zenon
<1>9. Counted(key[m])
  <2> HIDE DEF N, Counted
  <2> QED
    BY <1>4, <1>7, <1>8
<1>10. Cardinality(Shown(j)) = Cardinality((1 .. n) \cap W) + Cardinality((n + 1 .. n + e) \cap W)
  <2>1. IsFiniteSet(P \cap At(key[m])) /\ IsFiniteSet(Shown(key[m]))
    BY <1>0, <1>1, <1>7, FS_Intersection, Zenon
  <2>2. Cardinality(Shown(j)) = Cardinality(Shown(key[m])) + Cardinality(P \cap At(key[m]))
    <3> HIDE DEF Shown, At
    <3> QED
      BY <1>7, <2>1, DisjointUnion, Zenon
  <2> QED
    BY <1>3, <1>9, <2>2, Zenon
<1>11. Cardinality((1 .. n + e) \cap W) = Cardinality((1 .. n) \cap W) + Cardinality((n + 1 .. n + e) \cap W)
  <2> HIDE DEF n, e
  <2>1. (1 .. n + e) \cap W = ((1 .. n) \cap W) \cup ((n + 1 .. n + e) \cap W)
    BY <1>8
  <2>2. ((1 .. n) \cap W) \cap ((n + 1 .. n + e) \cap W) = {}
    BY <1>8
  <2>3. IsFiniteSet((1 .. n) \cap W) /\ IsFiniteSet((n + 1 .. n + e) \cap W)
    BY <1>2, FS_Intersection, Zenon
  <2> QED
    BY <2>1, <2>2, <2>3, DisjointUnion, Zenon
<1> QED
  BY <1>4, <1>8, <1>10, <1>11, Zenon

\* How many rows a page holds: as many as there are positions between its
\* offset and the last row, and never more than its size.
LEMMA PageSize ==
    ASSUME NEW rows, IsFiniteSet(rows), NEW key \in [rows -> Int], NEW low \in Int,
           \A r \in rows : key[r] > low,
           NEW offset \in Nat, NEW size \in Nat, NEW P \in PagesOf(key, offset, size)
    PROVE  /\ IsFiniteSet(P) /\ Cardinality(P) \in Nat /\ Cardinality(rows) \in Nat
           /\ Cardinality(rows) <= offset => Cardinality(P) = 0
           /\ Cardinality(rows) \in offset .. offset + size => Cardinality(P) = Cardinality(rows) - offset
           /\ Cardinality(rows) >= offset + size => Cardinality(P) = size
<1> DEFINE n == Cardinality(rows)
           p == Cardinality(P)
<1>1. P \subseteq rows
  BY Zenon DEF PagesOf
<1>2. IsFiniteSet(P) /\ p \in Nat /\ n \in Nat
  BY <1>1, FS_Subset, FS_CardinalityType, Zenon
<1>3. {r \in P : key[r] > low} = P /\ {r \in rows : key[r] > low} = rows
  BY <1>1, Zenon
<1> SUFFICES /\ IsFiniteSet(P) /\ p \in Nat /\ n \in Nat
             /\ n <= offset => p = 0
             /\ n \in offset .. offset + size => p = n - offset
             /\ n >= offset + size => p = size
  BY Zenon
<1>4. p = Cardinality((1 .. n) \cap (offset + 1 .. offset + size))
  <2>1. offset \in Int /\ size \in Int
    OBVIOUS
  <2>2. Cardinality({r \in P : key[r] > low})
            = Cardinality((1 .. Cardinality({r \in rows : key[r] > low})) \cap (offset + 1 .. offset + size))
    BY <2>1, PagePositions
  <2> QED
    BY <1>3, <2>2, Zenon
<1> HIDE DEF n, p
<1>5. CASE n <= offset
  <2>1. (1 .. n) \cap (offset + 1 .. offset + size) = {}
    BY <1>2, <1>5
  <2>2. p = 0
    BY <1>4, <2>1, FS_EmptySet, Zenon
  <2> QED
    BY <1>2, <1>5, <2>2
<1>6. CASE n > offset /\ n <= offset + size
  <2>1. (1 .. n) \cap (offset + 1 .. offset + size) = offset + 1 .. n
    BY <1>2, <1>6
  <2>2. Cardinality(offset + 1 .. n) = n - offset
    BY <1>2, <1>6, FS_Interval
  <2>3. p = n - offset
    BY <1>4, <2>1, <2>2, Zenon
  <2> QED
    BY <1>2, <1>6, <2>3
<1>7. CASE n > offset + size
  <2>1. (1 .. n) \cap (offset + 1 .. offset + size) = offset + 1 .. offset + size
    BY <1>2, <1>7
  <2>2. Cardinality(offset + 1 .. offset + size) = size
    <3>1. offset + 1 \in Int /\ offset + size \in Int
      OBVIOUS
    <3> QED
      BY <3>1, FS_Interval
  <2>3. p = size
    BY <1>4, <2>1, <2>2, Zenon
  <2> QED
    BY <1>2, <1>7, <2>3
<1> QED
  BY <1>2, <1>5, <1>6, <1>7

\* The smaller of two numbers.
LEMMA MinOfTwo ==
    ASSUME NEW a \in Int, NEW b \in Int
    PROVE  Min({a, b}) \in Int /\ Min({a, b}) <= a /\ Min({a, b}) <= b
<1>1. \E x \in {a, b} : \A y \in {a, b} : x =< y
  OBVIOUS
<1>2. Min({a, b}) \in {a, b} /\ \A y \in {a, b} : Min({a, b}) =< y
  BY <1>1, Zenon DEF Min
<1> QED
  BY <1>2, Zenon

\* The greater of two numbers.
LEMMA MaxOfTwo ==
    ASSUME NEW a \in Int, NEW b \in Int
    PROVE  Max({a, b}) \in {a, b} /\ Max({a, b}) >= a /\ Max({a, b}) >= b
<1>1. \E x \in {a, b} : \A y \in {a, b} : x >= y
  OBVIOUS
<1>2. Max({a, b}) \in {a, b} /\ \A y \in {a, b} : Max({a, b}) >= y
  BY <1>1, Zenon DEF Max
<1> QED
  BY <1>2, Zenon

\* What the page of a call owes its total.
Owed(k) ==
    LET page == Paged(k.req.page)
    IN  Min({page.size, Max({0, k.total - (page.number - 1) * page.size})})

CallKeeps(k) ==
    /\ k.pc = "page" => k.total <= Total(k.h, DB, k.req)
    /\ k.pc = "done" /\ k.status = "OK" => Cardinality(k.rows) >= Owed(k)

\* A call about to read its page has counted no more rows than there are, and
\* an answered one has as many rows as its total promises.
PromiseInv == \A c \in Clients : CallKeeps(call[c])

\* A request's page and the rows in front of it; the offset is what the
\* product wraps to, never more than the product.
LEMMA PageNumbers ==
    ASSUME NEW req \in Requests
    PROVE  /\ Paged(req.page).number \in Nat \ {0} /\ Paged(req.page).size \in Nat \ {0}
           /\ Paged(req.page).size < 2^(IntBits - 1)
           /\ (Paged(req.page).number - 1) * Paged(req.page).size \in Nat
           /\ Offset(req.page) \in Int
           /\ Offset(req.page) <= (Paged(req.page).number - 1) * Paged(req.page).size
           /\ (Paged(req.page).number - 1) * Paged(req.page).size < 2^(IntBits - 1) =>
                 Offset(req.page) = (Paged(req.page).number - 1) * Paged(req.page).size
           /\ /\ 2^(IntBits - 1) <= (Paged(req.page).number - 1) * Paged(req.page).size
              /\ (Paged(req.page).number - 1) * Paged(req.page).size < 2 * 2^(IntBits - 1)
              => Offset(req.page) < 0
<1> DEFINE half == 2^(IntBits - 1)
           num == Paged(req.page).number
           size == Paged(req.page).size
           skip == (num - 1) * size
<1>1. half \in Nat /\ 2^IntBits = 2 * half /\ DefaultPageSize \in 1 .. half - 1
  BY IntAssumption, Zenon
<1>2. req.page.number \in Int /\ req.page.size \in Int /\ req.page.size <= half - 1
  BY <1>1, RequestAssumption DEF Ints
<1>3. num \in Nat \ {0} /\ size \in Nat \ {0} /\ size < half
  <2> HIDE DEF half
  <2> QED
    BY <1>1, <1>2 DEF Paged
<1>4. Offset(req.page) = ((skip + half) % (2 * half)) - half
  BY <1>1, Zenon DEF Offset, WrapInt
<1> HIDE DEF half, num, size
<1>5. skip \in Nat
  BY <1>3
<1> HIDE DEF skip
<1>6. half > 0
  BY <1>1
<1>7. \A a, h \in Nat : h > 0 => /\ (a + h) % (2 * h) \in Nat /\ (a + h) % (2 * h) <= a + h
                                 /\ a < h => (a + h) % (2 * h) = a + h
                                 /\ h <= a /\ a < 2 * h => (a + h) % (2 * h) = a - h
  <2> SUFFICES ASSUME NEW a \in Nat, NEW h \in Nat, h > 0
               PROVE  /\ (a + h) % (2 * h) \in Nat /\ (a + h) % (2 * h) <= a + h
                      /\ a < h => (a + h) % (2 * h) = a + h
                      /\ h <= a /\ a < 2 * h => (a + h) % (2 * h) = a - h
    BY Zenon
  <2> DEFINE d == 2 * h
  <2>1. d \in Nat \ {0} /\ a + h \in Nat
    OBVIOUS
  <2>2. \A x \in Nat, e \in Nat \ {0} : /\ x % e \in 0 .. e - 1 /\ x = (e * (x \div e)) + (x % e)
                                        /\ x \div e \in Nat
    OBVIOUS
  <2>3. (a + h) % d \in 0 .. d - 1 /\ a + h = (d * ((a + h) \div d)) + ((a + h) % d) /\ (a + h) \div d \in Nat
    BY <2>1, <2>2, Zenon
  <2> QED
    OBVIOUS
<1>a. LET m == (skip + half) % (2 * half)
      IN  /\ m \in Nat /\ m <= skip + half
          /\ skip < half => m = skip + half
          /\ half <= skip /\ skip < 2 * half => m = skip - half
  BY <1>1, <1>5, <1>6, <1>7, Zenon
<1> DEFINE m == (skip + half) % (2 * half)
<1>b. Offset(req.page) = m - half
  BY <1>4, Zenon
<1>c. /\ m \in Nat /\ m <= skip + half
      /\ skip < half => m = skip + half
      /\ half <= skip /\ skip < 2 * half => m = skip - half
  BY <1>a, Zenon
<1> HIDE DEF m
<1>8. Offset(req.page) \in Int /\ Offset(req.page) <= skip
  BY <1>1, <1>5, <1>c, <1>b
<1>9. skip < half => Offset(req.page) = skip
  BY <1>1, <1>5, <1>c, <1>b
<1>10. half <= skip /\ skip < 2 * half => Offset(req.page) < 0
  BY <1>1, <1>5, <1>c, <1>b
<1> QED
  BY <1>3, <1>5, <1>8, <1>9, <1>10, Zenon DEF half, num, size, skip

\* A page of the rows that were counted, or of more, is long enough.
LEMMA PageOwes ==
    ASSUME NEW req \in Requests, NEW rows, IsFiniteSet(rows), NEW key \in [rows -> Int],
           NEW low \in Int, \A r \in rows : key[r] > low,
           Offset(req.page) >= 0,
           NEW P \in PagesOf(key, Offset(req.page), Paged(req.page).size),
           NEW total \in Nat, total <= Cardinality(rows),
           NEW k, k.req = req, k.total = total
    PROVE  IsFiniteSet(P) /\ Cardinality(P) >= Owed(k)
<1> DEFINE num == Paged(req.page).number
           size == Paged(req.page).size
           skip == (num - 1) * size
           offset == Offset(req.page)
           n == Cardinality(rows)
           p == Cardinality(P)
           most == Max({0, total - skip})
<1>1. size \in Nat \ {0} /\ skip \in Nat /\ offset \in Nat /\ offset <= skip
  BY PageNumbers
<1>2. /\ IsFiniteSet(P) /\ p \in Nat /\ n \in Nat
      /\ n <= offset => p = 0
      /\ n \in offset .. offset + size => p = n - offset
      /\ n >= offset + size => p = size
  <2> HIDE DEF offset, size
  <2>1. P \in PagesOf(key, offset, size)
    BY Zenon DEF offset, size
  <2> QED
    BY <1>1, <2>1, PageSize
<1>3. Owed(k) = Min({size, most})
  BY Zenon DEF Owed
<1> HIDE DEF num, size, skip, offset, n, p
<1>4. most \in Int /\ (most = 0 \/ most = total - skip) /\ most >= 0 /\ most >= total - skip
  <2>1. total - skip \in Int /\ 0 \in Int
    BY <1>1
  <2> HIDE DEF most
  <2> QED
    BY <2>1, MaxOfTwo, Zenon DEF most
<1> HIDE DEF most
<1>5. Min({size, most}) \in Int /\ Min({size, most}) <= size /\ Min({size, most}) <= most
  <2>1. size \in Int
    BY <1>1
  <2> QED
    BY <1>4, <2>1, MinOfTwo, Zenon
<1>6. total <= n
  BY Zenon DEF n
<1>7. p >= size \/ p >= most
  <2>1. CASE n <= offset
    BY <1>1, <1>2, <1>4, <1>6, <2>1
  <2>2. CASE n > offset /\ n <= offset + size
    BY <1>1, <1>2, <1>4, <1>6, <2>2
  <2>3. CASE n > offset + size
    BY <1>1, <1>2, <2>3
  <2> QED
    BY <1>1, <1>2, <2>1, <2>2, <2>3
<1>8. p >= Min({size, most})
  BY <1>1, <1>2, <1>4, <1>5, <1>7
<1> QED
  BY <1>2, <1>3, <1>8, Zenon DEF p

\* An answer without a total owes nothing.
LEMMA NothingOwed ==
    ASSUME NEW k, k.req \in Requests, k.total = 0, IsFiniteSet(k.rows)
    PROVE  Cardinality(k.rows) >= Owed(k)
<1> DEFINE size == Paged(k.req.page).size
           skip == (Paged(k.req.page).number - 1) * size
           most == Max({0, 0 - skip})
<1>1. size \in Nat /\ skip \in Nat
  BY PageNumbers, Zenon
<1>2. Owed(k) = Min({size, most})
  BY Zenon DEF Owed
<1> HIDE DEF size, skip
<1>3. most = 0
  <2>1. 0 - skip \in Int /\ 0 \in Int
    BY <1>1
  <2>2. (most = 0 \/ most = 0 - skip) /\ most >= 0
    BY <2>1, MaxOfTwo, Zenon
  <2> QED
    BY <1>1, <2>2
<1> HIDE DEF most
<1>4. Min({size, most}) \in Int /\ Min({size, most}) <= 0
  BY <1>1, <1>3, MinOfTwo
<1>5. Cardinality(k.rows) \in Nat
  BY FS_CardinalityType, Zenon
<1> QED
  BY <1>2, <1>4, <1>5

\* A step of one client that leaves the tables alone.
LEMMA CallStillKeeps ==
    ASSUME ServiceInv, PromiseInv, NEW c \in Clients, NEW k, CallKeeps(k),
           call' = [call EXCEPT ![c] = k], samples' = samples
    PROVE  PromiseInv'
<1>1. ASSUME NEW d \in Clients PROVE CallKeeps(call[d])'
  <2>1. PICK q : q = call'[d]
    BY Zenon
  <2>2. CallKeeps(q)
    BY <2>1, Zenon DEF ServiceInv, PromiseInv
  <2>3. DB' = DB
    BY DEF DB, Database, RowsOf
  <2>4. CallKeeps(q)'
    BY <2>2, <2>3, Zenon DEF CallKeeps
  <2> QED
    BY <2>1, <2>4, Zenon DEF CallKeeps
<1> QED
  BY <1>1, Zenon DEF PromiseInv

\* The start of a call keeps PromiseInv.
LEMMA CallsKeep ==
    ASSUME ServiceInv, PromiseInv, NEW c \in Clients, Calls(c)
    PROVE  PromiseInv'
<1>1. ASSUME NEW h, NEW req, NEW refusal, NEW first, first # "page", first # "done",
             Begin(c, h, req, refusal, first), samples' = samples
      PROVE  PromiseInv'
  <2> DEFINE k == [pc |-> IF refusal = "OK" THEN first ELSE "done", h |-> h, req |-> req,
                   status |-> refusal, total |-> 0, rows |-> {}, time |-> now]
  <2>1. call' = [call EXCEPT ![c] = k]
    BY <1>1, Zenon DEF Begin
  <2>2. k.pc # "page" /\ (k.pc = "done" => k.status # "OK")
    BY <1>1, Zenon
  <2> HIDE DEF k
  <2>3. CallKeeps(k)
    BY <2>2, Zenon DEF CallKeeps
  <2> QED
    BY <1>1, <2>1, <2>3, CallStillKeeps, Zenon
<1>2. PICK req \in Requests :
        \/ \E h \in PageHandlers : PageHandler(c, h, req)
        \/ QueryTrend(c, req) \/ QueryAnomaly(c, req) \/ QueryScoreRank(c, req) \/ QueryLatestScore(c, req)
  BY Zenon DEF Calls, QueryPerformance, QueryNetDetail, QueryDiskDetail, QueryMemDetail, QuerySoftIrqDetail,
         QueryMysqlDetail, QueryRedisDetail, PageHandlers, TableOf
<1> QED
  BY <1>1, <1>2, Zenon DEF PageHandler, OtherHandler, QueryTrend, QueryAnomaly, QueryScoreRank, QueryLatestScore

\* A statement of a call keeps PromiseInv.
LEMMA StatementsKeep ==
    ASSUME ServiceInv, PromiseInv, NEW c \in Clients, Statement(c)
    PROVE  PromiseInv'
<1> DEFINE k == call[c]
<1>0. call[c].pc # "idle" => CallFits(c, k) /\ k.req \in Requests /\ k.h \in Handlers
  BY InvCall DEF Idle, CallFits
<1>a. ASSUME CallFits(c, k), NEW R, AnswerRows(k.h, k.req.scope, R)
      PROVE  CallKeeps(Answer(c, "OK", 0, R))
  <2> DEFINE new == Answer(c, "OK", 0, R)
  <2>0. k.req \in Requests /\ IsFiniteSet(R) /\ 0 \in Nat
    BY <1>a, Zenon DEF CallFits, AnswerRows, Fits
  <2>1. new.pc = "done" /\ new.req \in Requests /\ new.total = 0 /\ new.rows = R /\ IsFiniteSet(R)
    BY <1>a, <2>0, AnswerFits
  <2> HIDE DEF new
  <2>2. CallKeeps(new)
    BY <2>1, NothingOwed, Zenon DEF CallKeeps
  <2> QED
    BY <2>2, Zenon DEF new
<1>1. CASE executeFails(c)
  <2> DEFINE new == Failed(c, "INTERNAL")
  <2>1. CallFits(c, k) /\ AnswerRows(k.h, k.req.scope, {})
    BY <1>0, <1>1, NoRows, Zenon DEF executeFails
  <2>2. new.pc = "done" /\ new.status = "INTERNAL"
    BY <2>1, AnswerFits DEF Failed
  <2>3. samples' = samples /\ call' = [call EXCEPT ![c] = new]
    BY <1>1, Zenon DEF executeFails, Goes
  <2> HIDE DEF new
  <2>4. CallKeeps(new)
    BY <2>2, Zenon DEF CallKeeps
  <2> QED
    BY <2>3, <2>4, CallStillKeeps, Zenon
<1>2. CASE executePreparedCount(c)
  <2> DEFINE new == [call[c] EXCEPT !.pc = "page", !.total = Total(call[c].h, DB, call[c].req)]
  <2>1. CallFits(c, k) /\ k.h \in Counting
    BY <1>0, <1>2, StepHandlers, Zenon DEF executePreparedCount, CallFits
  <2>2. new.pc = "page" /\ new.h = k.h /\ new.req = k.req /\ new.total = Total(k.h, DB, k.req)
    BY <2>1, Zenon DEF CallFits, CallFields
  <2>3. Total(k.h, DB, k.req) \in Nat
    BY <2>1, InvWritten, TotalFits, Zenon DEF DB
  <2>4. samples' = samples /\ call' = [call EXCEPT ![c] = new]
    BY <1>2, Zenon DEF executePreparedCount, Goes
  <2> HIDE DEF new
  <2>5. CallKeeps(new)
    BY <2>2, <2>3 DEF CallKeeps
  <2> QED
    BY <2>4, <2>5, CallStillKeeps, Zenon
<1>3. CASE executePreparedRows(c)
  <2> DEFINE rows == Selected(k.h, DB, k.req)
             key == [r \in rows |-> SortKey(k.h, r)]
  <2>1. CallFits(c, k) /\ k.h \in Counting /\ k.total \in Nat /\ k.req \in Requests /\ k.pc = "page"
    BY <1>0, <1>3, StepHandlers, Zenon DEF executePreparedRows, CallFits
  <2>2. PICK P \in PagesOf(key, Offset(k.req.page), Paged(k.req.page).size) :
           call' = [call EXCEPT ![c] = Answer(c, "OK", k.total, P)]
    BY <1>3, Zenon DEF executePreparedRows, Goes
  <2> DEFINE new == Answer(c, "OK", k.total, P)
  <2>3. Fits(k.req.scope, rows)
    BY <2>1, InvWritten, SelectedFits, Zenon DEF DB
  <2>4. key \in [rows -> Int] /\ \A r \in rows : key[r] > -2
    <3>1. \A r \in rows : SortKey(k.h, r) \in Int /\ SortKey(k.h, r) > -2
      BY <2>3, InvWritten DEF Fits, SortKey
    <3> HIDE DEF rows
    <3> QED
      BY <3>1, Zenon
  <2>5. k.total <= Cardinality(rows)
    <3>1. k.total <= Total(k.h, DB, k.req)
      BY <2>1, Zenon DEF PromiseInv, CallKeeps
    <3>2. Total(k.h, DB, k.req) \in Nat /\ Total(k.h, DB, k.req) <= Cardinality(rows)
      BY <2>1, InvWritten, TotalFits, Zenon DEF DB
    <3>3. Cardinality(rows) \in Nat
      BY <2>3, FS_CardinalityType, Zenon DEF Fits
    <3> HIDE DEF rows, k
    <3> QED
      BY <2>1, <3>1, <3>2, <3>3
  <2>6. AnswerRows(k.h, k.req.scope, P)
    <3>1. P \in SUBSET rows
      BY Zenon DEF PagesOf
    <3>2. Fits(k.req.scope, P)
      BY <2>3, <3>1, PartFits, Zenon
    <3> QED
      BY <2>1, <3>2, OwnRows, Zenon
  <2>7. /\ new.pc = "done" /\ new.req = k.req /\ new.total = k.total /\ new.rows = P
    BY <2>1, <2>6, AnswerFits
  <2>8. Offset(k.req.page) >= 0 /\ IsFiniteSet(rows) /\ samples' = samples
    BY <1>3, <2>3, Zenon DEF executePreparedRows, Fits
  <2>9. Cardinality(P) >= Owed(new)
    <3> HIDE DEF rows, key, new, k
    <3>1. -2 \in Int
      OBVIOUS
    <3> QED
      BY <2>1, <2>2, <2>4, <2>5, <2>7, <2>8, <3>1, PageOwes, Zenon
  <2> HIDE DEF new
  <2>10. CallKeeps(new)
    BY <2>7, <2>9, Zenon DEF CallKeeps
  <2> QED
    BY <2>2, <2>8, <2>10, CallStillKeeps, Zenon DEF new
<1>4. CASE trendStatement(c)
  <2>1. CallFits(c, k) /\ k.req \in Requests
    BY <1>0, <1>4, Zenon DEF trendStatement
  <2>2. CallKeeps(Answer(c, "OK", 0, UNION queryTrend(DB, k.req)))
    <3>1. AnswerRows(k.h, k.req.scope, UNION queryTrend(DB, k.req))
      BY <2>1, StatementRows, OwnRows, Zenon
    <3> QED
      BY <1>a, <2>1, <3>1, Zenon
  <2>3. samples' = samples /\ call' = [call EXCEPT ![c] = Answer(c, "OK", 0, UNION queryTrend(DB, k.req))]
    BY <1>4, Zenon DEF trendStatement, Goes
  <2> QED
    BY <2>2, <2>3, CallStillKeeps, Zenon
<1>5. CASE anomalyStatement(c)
  <2> DEFINE new == [call[c] EXCEPT !.pc = IF @ = "performance" THEN "mysql" ELSE "redis",
                                    !.rows = @ \cup Anomalous(call[c].pc, call[c].req)]
  <2>1. CallFits(c, k)
    BY <1>0, <1>5, Zenon DEF anomalyStatement
  <2>2. new.pc \in {"mysql", "redis"}
    BY <2>1, Zenon DEF CallFits, CallFields
  <2>3. samples' = samples /\ call' = [call EXCEPT ![c] = new]
    BY <1>5, Zenon DEF anomalyStatement, Goes
  <2> HIDE DEF new
  <2>4. CallKeeps(new)
    BY <2>2, Zenon DEF CallKeeps
  <2> QED
    BY <2>3, <2>4, CallStillKeeps, Zenon
<1>6. CASE lastAnomalyStatement(c)
  <2> DEFINE rows == k.rows \cup Anomalous("redis", k.req)
             key == [r \in rows |-> r.ts]
  <2>1. CallFits(c, k) /\ k.req \in Requests /\ "redis" \in Tables /\ k.h = "QueryAnomaly"
    BY <1>0, <1>6, StepHandlers, Zenon DEF lastAnomalyStatement, Tables, CallFits
  <2>2. Fits(k.req.scope, rows)
    <3>1. Fits(k.req.scope, k.rows)
      BY <2>1, TableRows, Zenon DEF CallFits
    <3> QED
      BY <2>1, <3>1, StatementRows, BothFit, Zenon
  <2>3. PICK P \in PagesOf(key, Offset(k.req.page), Paged(k.req.page).size) :
           call' = [call EXCEPT ![c] = Answer(c, "OK", Cardinality(rows), P)]
    BY <1>6, Zenon DEF lastAnomalyStatement, Goes
  <2> DEFINE new == Answer(c, "OK", Cardinality(rows), P)
  <2>4. key \in [rows -> Int] /\ \A r \in rows : key[r] > -2
    <3>1. \A r \in rows : r.ts \in Int /\ r.ts > -2
      BY <2>2, InvWritten DEF Fits
    <3> HIDE DEF rows
    <3> QED
      BY <3>1, Zenon
  <2>5. Cardinality(rows) \in Nat /\ IsFiniteSet(rows) /\ samples' = samples
    BY <1>6, <2>2, FS_CardinalityType, Zenon DEF Fits, lastAnomalyStatement
  <2>6. AnswerRows(k.h, k.req.scope, P)
    <3>1. P \in SUBSET rows
      BY Zenon DEF PagesOf
    <3> HIDE DEF rows
    <3>2. Fits(k.req.scope, P)
      BY <2>2, <3>1, PartFits, Zenon
    <3> QED
      BY <2>1, <3>2, OwnRows, Zenon
  <2>7. Offset(k.req.page) >= 0
    <3> DEFINE num == Paged(k.req.page).number
               size == Paged(k.req.page).size
               skip == (num - 1) * size
               half == 2^(IntBits - 1)
    <3>1. num * size <= half - 1 /\ half \in Nat
      <4>1. num * size \in Ints
        BY <2>1, AnomalyAssumption, Zenon DEF CallFits, ServiceInv
      <4> QED
        BY <4>1, IntAssumption DEF Ints
    <3>2. num \in Nat \ {0} /\ size \in Nat \ {0} /\ skip \in Nat /\ (skip < half => Offset(k.req.page) = skip)
      BY <2>1, PageNumbers, Zenon
    <3> HIDE DEF num, size, half
    <3>3. skip < half
      <4>1. skip = num * size - size
        BY <3>2
      <4>2. num * size \in Nat
        BY <3>2
      <4> HIDE DEF skip
      <4> QED
        BY <3>1, <3>2, <4>1, <4>2
    <3> QED
      BY <3>2, <3>3
  <2> HIDE DEF rows, key
  <2>8. /\ new.pc = "done" /\ new.req = k.req /\ new.total = Cardinality(rows) /\ new.rows = P
    BY <2>1, <2>5, <2>6, AnswerFits
  <2>9. Cardinality(P) >= Owed(new)
    <3> HIDE DEF new, k
    <3>1. -2 \in Int /\ Cardinality(rows) <= Cardinality(rows)
      BY <2>5
    <3> QED
      BY <2>1, <2>3, <2>4, <2>5, <2>7, <2>8, <3>1, PageOwes, Zenon
  <2> HIDE DEF new
  <2>10. CallKeeps(new)
    BY <2>8, <2>9, Zenon DEF CallKeeps
  <2> QED
    BY <2>3, <2>5, <2>10, CallStillKeeps, Zenon DEF new
<1>7. CASE cacheHit(c)
  <2>1. CallFits(c, k) /\ k.req \in Requests /\ k.h = "QueryLatestScore"
    BY <1>0, <1>7, StepHandlers, Zenon DEF cacheHit, CallFits
  <2>2. AnswerRows(k.h, k.req.scope, cache[KeyOf(c)].rows)
    BY <2>1, Zenon DEF ServiceInv, EntryFits, KeyOf
  <2>3. samples' = samples /\ call' = [call EXCEPT ![c] = Answer(c, "OK", 0, cache[KeyOf(c)].rows)]
    BY <1>7, Zenon DEF cacheHit, Goes
  <2> QED
    BY <1>a, <2>1, <2>2, <2>3, CallStillKeeps, Zenon
<1>8. CASE cacheMiss(c)
  <2> DEFINE new == [call[c] EXCEPT !.pc = "query"]
  <2>1. CallFits(c, k)
    BY <1>0, <1>8, Zenon DEF cacheMiss
  <2>2. new.pc = "query"
    BY <2>1, Zenon DEF CallFits, CallFields
  <2>3. samples' = samples /\ call' = [call EXCEPT ![c] = new]
    BY <1>8, Zenon DEF cacheMiss, Goes
  <2> HIDE DEF new
  <2>4. CallKeeps(new)
    BY <2>2, Zenon DEF CallKeeps
  <2> QED
    BY <2>3, <2>4, CallStillKeeps, Zenon
<1>9. CASE latestStatement(c)
  <2> DEFINE new == [call[c] EXCEPT !.pc = "store", !.rows = LatestRows(DB, call[c].req.scope)]
  <2>1. CallFits(c, k)
    BY <1>0, <1>9, Zenon DEF latestStatement
  <2>2. new.pc = "store"
    BY <2>1, Zenon DEF CallFits, CallFields
  <2>3. samples' = samples /\ call' = [call EXCEPT ![c] = new]
    BY <1>9, Zenon DEF latestStatement, Goes
  <2> HIDE DEF new
  <2>4. CallKeeps(new)
    BY <2>2, Zenon DEF CallKeeps
  <2> QED
    BY <2>3, <2>4, CallStillKeeps, Zenon
<1>10. CASE cacheSet(c) \/ cacheSetFails(c)
  <2>1. CallFits(c, k) /\ AnswerRows(k.h, k.req.scope, k.rows)
    BY <1>0, <1>10, Zenon DEF cacheSet, cacheSetFails, CallFits
  <2>2. samples' = samples /\ call' = [call EXCEPT ![c] = Answer(c, "OK", 0, k.rows)]
    BY <1>10, Zenon DEF cacheSet, cacheSetFails, Goes
  <2> QED
    BY <1>a, <2>1, <2>2, CallStillKeeps, Zenon
<1> QED
  BY <1>1, <1>2, <1>3, <1>4, <1>5, <1>6, <1>7, <1>8, <1>9, <1>10, Zenon DEF Statement

\* The newest database has counted at least what an older one had.
Growing ==
    \A h \in Counting, req \in Requests, n \in 0 .. Len(samples) :
        Total(h, Database(n), req) \in Nat /\ Total(h, Database(n), req) <= Total(h, DB, req)

\* In every state reached the lists only grow.
LEMMA AlwaysGrowing == Written => Growing
<1> SUFFICES ASSUME Written, NEW h \in Counting, NEW req \in Requests, NEW n \in 0 .. Len(samples)
             PROVE  Total(h, Database(n), req) \in Nat /\ Total(h, Database(n), req) <= Total(h, DB, req)
  BY Zenon DEF Growing
<1>1. Len(samples) \in n .. Len(samples)
  BY DEF Written
<1> QED
  BY <1>1, TotalFits, TotalGrows, Zenon DEF DB

\* And in the state after a step.
LEMMA StillGrowing == Written' => Growing'
  BY AlwaysGrowing, PTL

\* The steps of others keep PromiseInv.
LEMMA OthersKeep ==
    ASSUME ServiceInv, PromiseInv,
           \/ \E h \in Hosts, ts \in {now - 1, now} : writeToMysql(h, ts)
           \/ \E key \in Keys : redisForgets(key)
           \/ tick
           \/ UNCHANGED vars
    PROVE  PromiseInv'
<1>1. CASE \E h \in Hosts, ts \in {now - 1, now} : writeToMysql(h, ts)
  <2>1. PICK h \in Hosts, ts \in {now - 1, now} : writeToMysql(h, ts)
    BY <1>1, Zenon
  <2>2. /\ call' = call /\ Written' /\ Len(samples) \in 0 .. Len(samples') /\ Len(samples') \in Nat
    <3>1. /\ Len(samples') = Len(samples) + 1 /\ Len(samples) \in Nat /\ Written'
      BY <2>1, WriteKeeps, Zenon DEF ServiceInv
    <3>2. call' = call
      BY <2>1, Zenon DEF writeToMysql
    <3> QED
      BY <3>1, <3>2
  <2>3. PICK n \in 0 .. Len(samples) : n = Len(samples)
    BY DEF ServiceInv, Written
  <2>4. Database(n)' = Database(n) /\ DB = Database(n) /\ n \in 0 .. Len(samples')
    BY <2>1, <2>2, <2>3, WriteKeeps, Zenon DEF ServiceInv, DB
  <2>5. ASSUME NEW g \in Counting, NEW req \in Requests
        PROVE  Total(g, DB, req) <= Total(g, DB, req)'
    <3>1. Total(g, Database(n), req)' <= Total(g, DB, req)'
      BY <2>2, <2>4, StillGrowing, Zenon DEF Growing
    <3>2. Total(g, Database(n), req)' = Total(g, Database(n), req)
      BY <2>4 DEF Total, Selected
    <3> QED
      BY <2>4, <3>1, <3>2, Zenon
  <2>6. ASSUME NEW d \in Clients PROVE CallKeeps(call[d])'
    <3>1. PICK q : q = call[d]
      BY Zenon
    <3>2. CallKeeps(q) /\ (q = Idle \/ CallFits(d, q))
      BY <3>1, Zenon DEF ServiceInv, PromiseInv
    <3>3. CallKeeps(q)'
      <4>1. CASE q = Idle
        BY <4>1, Zenon DEF CallKeeps, Idle
      <4>2. CASE CallFits(d, q)
        <5>1. q.pc = "page" => q.total <= Total(q.h, DB, q.req)'
          <6> SUFFICES ASSUME q.pc = "page" PROVE q.total <= Total(q.h, DB, q.req)'
            BY Zenon
          <6>1. q.h \in Counting /\ q.req \in Requests /\ q.total \in Nat
            BY <4>2, StepHandlers, Zenon DEF CallFits
          <6>2. q.total <= Total(q.h, DB, q.req) /\ Total(q.h, DB, q.req) <= Total(q.h, DB, q.req)'
            BY <2>5, <3>2, <6>1, Zenon DEF CallKeeps
          <6>3. Total(q.h, DB, q.req) \in Nat
            BY <6>1, InvWritten, TotalFits, Zenon DEF DB
          <6>4. Total(q.h, DB, q.req)' \in Nat
            <7>1. PICK m \in Nat : m = Len(samples')
              BY <2>2, Zenon
            <7>2. Total(q.h, Database(m), q.req)' \in Nat
              BY <2>2, <6>1, <7>1, StillGrowing DEF Growing
            <7> QED
              BY <7>1, <7>2, Zenon DEF DB
          <6> QED
            BY <6>1, <6>2, <6>3, <6>4
        <5> QED
          BY <3>2, <5>1, Zenon DEF CallKeeps
      <4> QED
        BY <3>2, <4>1, <4>2, Zenon
    <3> QED
      BY <2>2, <3>1, <3>3, Zenon DEF CallKeeps
  <2> QED
    BY <2>6, Zenon DEF PromiseInv
<1>2. ASSUME call' = call, samples' = samples PROVE PromiseInv'
  <2>1. DB' = DB
    BY <1>2 DEF DB, Database, RowsOf
  <2>2. ASSUME NEW d \in Clients PROVE CallKeeps(call[d])'
    <3>1. CallKeeps(call[d])
      BY Zenon DEF PromiseInv
    <3> QED
      BY <1>2, <2>1, <3>1, Zenon DEF CallKeeps, Owed
  <2> QED
    BY <2>2, Zenon DEF PromiseInv
<1>3. CASE (\E key \in Keys : redisForgets(key)) \/ tick \/ UNCHANGED vars
  BY <1>2, <1>3, Zenon DEF redisForgets, tick, vars
<1> QED
  BY <1>1, <1>3, Zenon

\* PageKeepsPromise: a page is never shorter than the total returned with it
\* promises, for any page, any page size that an int holds and any writes
\* between the two statements.
THEOREM PromiseHolds == Spec => []PageKeepsPromise
<1>1. Init => PromiseInv
  BY DEF Init, PromiseInv, CallKeeps, Idle
<1>2. ServiceInv /\ PromiseInv /\ [Next]_vars => PromiseInv'
  BY CallsKeep, StatementsKeep, OthersKeep, Zenon DEF Next
<1>3. PromiseInv => PageKeepsPromise
  BY Zenon DEF PromiseInv, CallKeeps, PageKeepsPromise, Answered, Owed, Promised
<1> QED
  BY <1>1, <1>2, <1>3, ServiceStarts, ServiceKept, PTL DEF Spec

-----------------------------------------------------------------------------
\* Walks from page to page.

\* The rows in front of a time.
Ahead(h, n, req, ts) == Cardinality({q \in Selected(h, Database(n), req) : q.ts > ts})

\* The rows ahead of a time only grow in number.
LEMMA AheadGrows ==
    ASSUME Written, NEW h \in PageHandlers, NEW req, NEW ts \in Int, NEW n \in 0 .. Len(samples)
    PROVE  /\ Ahead(h, n, req, ts) \in Nat
           /\ Ahead(h, n, req, ts) <= Ahead(h, Len(samples), req, ts)
           /\ Selected(h, Database(n), req) \subseteq Selected(h, DB, req)
<1> DEFINE all == {q \in Selected(h, Database(Len(samples)), req) : q.ts > ts}
           old == {q \in Selected(h, Database(n), req) : q.ts > ts}
<1>1. Len(samples) \in n .. Len(samples) /\ Len(samples) \in 0 .. Len(samples) /\ h \in Counting
  BY DEF Written, Counting
<1>2. Selected(h, Database(n), req) \subseteq Selected(h, Database(Len(samples)), req)
  <2>1. RowsOf(TableOf[h], n) \subseteq RowsOf(TableOf[h], Len(samples))
    BY <1>1, PageSelected, RowsGrow, Zenon
  <2> QED
    BY <1>1, <2>1, PageSelected DEF OfServer
<1>3. IsFiniteSet(Selected(h, Database(Len(samples)), req))
  BY <1>1, SelectedFits, Zenon DEF Fits
<1>4. IsFiniteSet(all)
  BY <1>3, FS_Subset, Zenon
<1>5. Cardinality(old) \in Nat /\ Cardinality(old) <= Cardinality(all)
  <2>1. old \subseteq all
    BY <1>2, Zenon
  <2> HIDE DEF old, all
  <2> QED
    BY <1>4, <2>1, FS_Subset, FS_CardinalityType, Zenon
<1> QED
  BY <1>2, <1>5, Zenon DEF Ahead, DB

\* A row without a tie and with at least the page's offset in front of it that
\* is not on the page lies behind the page, which is then full.
LEMMA BehindThePage ==
    ASSUME Written, NEW h \in PageHandlers, NEW req, NEW from \in 0 .. Len(samples),
           NEW offset \in Nat, NEW size \in Nat,
           NEW P \in PagesOf([r \in Selected(h, DB, req) |-> SortKey(h, r)], offset, size),
           NEW r \in Selected(h, Database(from), req), Alone(h, req, r), r \notin P,
           Ahead(h, Len(samples), req, r.ts) >= offset
    PROVE  /\ Ahead(h, Len(samples), req, r.ts) >= offset + size
           /\ Cardinality(P) = size
<1> DEFINE rows == Selected(h, DB, req)
           key == [q \in rows |-> SortKey(h, q)]
           newer == {q \in rows : key[q] > r.ts}
           same == {q \in rows : key[q] = r.ts}
<1>1. Len(samples) \in 0 .. Len(samples) /\ h \in Counting /\ h # "QueryScoreRank" /\ now \in Nat
  BY WrittenLength, PagedHandlers, Zenon DEF Written
<1>2. IsFiniteSet(rows) /\ \A q \in rows : q.ts \in Int /\ q.ts > -2
  BY <1>1, SelectedFits DEF Fits, DB
<1>3. r \in rows
  <2>1. PICK z \in Int : TRUE
    OBVIOUS
  <2> QED
    BY <2>1, AheadGrows, Zenon
<1>4. \A q \in rows : key[q] = q.ts
  BY <1>1, Zenon DEF SortKey
<1>5. key \in [rows -> Int] /\ \A q \in rows : key[q] > -2
  BY <1>2, <1>4, Zenon
<1>6. same = {r}
  <2>1. \A q \in rows : q.ts = r.ts => q = r
    BY Zenon DEF Alone
  <2> HIDE DEF rows
  <2> QED
    BY <1>3, <1>4, <2>1, Zenon
<1>7. Cardinality(newer) = Ahead(h, Len(samples), req, r.ts)
  <2>1. newer = {q \in rows : q.ts > r.ts}
    BY <1>4, Zenon
  <2> QED
    BY <2>1, Zenon DEF Ahead, DB
<1>8. Cardinality(P \cap same)
        = Cardinality((Cardinality(newer) + 1 .. Cardinality(newer) + Cardinality(same)) \cap (offset + 1 .. offset + size))
  <2>1. \E q \in rows : key[q] = r.ts
    BY <1>3, <1>4, Zenon
  <2> HIDE DEF rows
  <2>2. DOMAIN key = rows /\ r.ts \in {key[q] : q \in rows}
    BY <2>1, Zenon
  <2>3. P \in PagesOf(key, offset, size)
    BY Zenon DEF rows
  <2> HIDE DEF key
  <2> QED
    BY <2>2, <2>3, Zenon DEF PagesOf
<1>9. Cardinality(newer) \in Nat /\ Cardinality(newer) < Cardinality(rows) /\ Cardinality(rows) \in Nat
  <2>1. newer \subseteq rows /\ r \notin newer
    BY <1>2, <1>3, <1>4
  <2> HIDE DEF newer, rows
  <2>2. newer # rows
    BY <1>3, <2>1, Zenon
  <2> QED
    BY <1>2, <2>1, <2>2, FS_Subset, FS_CardinalityType
<1>10. Cardinality(newer) >= offset + size
  <2> DEFINE n == Cardinality(newer)
             window == (n + 1 .. n + Cardinality(same)) \cap (offset + 1 .. offset + size)
  <2>1. Cardinality(same) = 1 /\ P \cap same = {} /\ Cardinality(P \cap same) = 0
    <3> HIDE DEF same
    <3>1. Cardinality(same) = 1
      BY <1>6, FS_Singleton, Zenon
    <3>2. P \cap same = {}
      BY <1>6, Zenon
    <3> QED
      BY <3>1, <3>2, FS_EmptySet, Zenon
  <2>2. n \in Nat /\ n >= offset
    BY <1>7, <1>9, Zenon
  <2> HIDE DEF n, same
  <2>3. n < offset + size => window = {n + 1}
    BY <2>1, <2>2
  <2>4. Cardinality(window) = 0
    BY <1>8, <2>1, Zenon DEF n
  <2>5. n < offset + size => Cardinality(window) = 1
    BY <2>3, FS_Singleton, Zenon
  <2>6. ~(n < offset + size)
    BY <2>4, <2>5
  <2> QED
    BY <2>2, <2>6 DEF n
<1>11. Cardinality(P) = size
  <2>1. Cardinality(rows) >= offset + size
    BY <1>9, <1>10
  <2>2. P \in PagesOf(key, offset, size) /\ -2 \in Int
    OBVIOUS
  <2> HIDE DEF rows, key
  <2> QED
    BY <1>2, <1>5, <2>1, <2>2, PageSize
<1> QED
  BY <1>7, <1>10, <1>11, Zenon

WalkFields == {"h", "req", "page", "from", "seen", "over"}

\* The rows of the beginning that have no tie and were not seen yet.
Missing(w) == {r \in Selected(w.h, Database(w.from), w.req) : Alone(w.h, w.req, r) /\ r \notin w.seen}

\* After n pages: their positions fit in an int, every row that is missing has
\* at least the rows of n pages in front of it, and when the last page was short
\* there is none.
SeenAfter(w, n) ==
    LET size == Paged(w.req.page).size
    IN  /\ n > 0 => (n - 1) * size < 2^(IntBits - 1)
        /\ \A r \in Missing(w) : Ahead(w.h, Len(samples), w.req, r.ts) >= n * size
        /\ w.over => Missing(w) = {}

\* A walk and the call that reads its current page.
WalkFits(w, k) ==
    /\ DOMAIN w = WalkFields
    /\ w.page \in Nat \ {0} /\ w.h \in PageHandlers /\ w.from \in 0 .. Len(samples)
    /\ k.pc # "idle" /\ k.h = w.h /\ k.req.page.number = w.page
    /\ w.req = [k.req EXCEPT !.page.number = 1]
    /\ k.status = Refusal(k.req, TRUE)
    /\ k.status # "OK" => w.over = FALSE /\ k.pc = "done"
    /\ k.status = "OK" => SeenAfter(w, IF k.pc = "done" THEN w.page ELSE w.page - 1)

WalkInv == \A c \in Clients : walk[c] = NoWalk \/ WalkFits(walk[c], call[c])

\* The pages of a walk are of one list.
LEMMA SameList ==
    ASSUME Written, NEW req \in Requests, NEW h \in PageHandlers
    PROVE  LET first == [req EXCEPT !.page.number = 1]
           IN  /\ first.scope = req.scope /\ first.server = req.server /\ first.range = req.range
               /\ Paged(first.page).size = Paged(req.page).size
               /\ Paged(first.page).size \in Nat \ {0} /\ Paged(first.page).size < 2^(IntBits - 1)
               /\ \A n \in 0 .. Len(samples) : Selected(h, Database(n), first) = Selected(h, Database(n), req)
<1> DEFINE first == [req EXCEPT !.page.number = 1]
<1>1. req \in [scope : [tenant : Seq(STRING), team : Seq(STRING), cluster : Seq(STRING)],
               server : Seq(STRING), range : [start : Int, end : Int],
               page : [number : Ints, size : Ints], interval : Int]
  BY RequestAssumption, Zenon
<1>2. /\ first.scope = req.scope /\ first.server = req.server /\ first.range = req.range
      /\ first.page.size = req.page.size
  BY <1>1, Zenon
<1>3. Paged(first.page).size = Paged(req.page).size
  BY <1>2, Zenon DEF Paged
<1>4. Paged(req.page).size \in Nat \ {0} /\ Paged(req.page).size < 2^(IntBits - 1)
  BY PageNumbers, Zenon
<1> HIDE DEF first
<1>5. ASSUME NEW n \in 0 .. Len(samples)
      PROVE  Selected(h, Database(n), first) = Selected(h, Database(n), req)
  <2>1. /\ Selected(h, Database(n), first) = OfServer(RowsOf(TableOf[h], n), first)
        /\ Selected(h, Database(n), req) = OfServer(RowsOf(TableOf[h], n), req)
    BY PageSelected, Zenon
  <2> QED
    BY <1>2, <2>1, Zenon DEF OfServer
<1> QED
  BY <1>2, <1>3, <1>4, <1>5, Zenon DEF first

\* A step of one client that leaves the tables alone.
LEMMA WalkMoves ==
    ASSUME ServiceInv, WalkInv, NEW c \in Clients, NEW k, NEW w, w = NoWalk \/ WalkFits(w, k),
           call' = [call EXCEPT ![c] = k], walk'[c] = w, \A d \in Clients \ {c} : walk'[d] = walk[d],
           samples' = samples, initialized' = initialized
    PROVE  WalkInv'
<1>1. ASSUME NEW d \in Clients PROVE walk'[d] = NoWalk \/ WalkFits(walk[d], call[d])'
  <2>1. PICK q, v : q = call'[d] /\ v = walk'[d]
    BY Zenon
  <2>2. v = NoWalk \/ WalkFits(v, q)
    BY <2>1, Zenon DEF ServiceInv, WalkInv
  <2>3. \A n : Database(n)' = Database(n)
    BY DEF Database, RowsOf
  <2>m. Missing(v)' = Missing(v)
    BY <2>3, Zenon DEF Missing, Alone, DB
  <2>4. \A n : SeenAfter(v, n)' <=> SeenAfter(v, n)
    BY <2>3, <2>m, Zenon DEF SeenAfter, Ahead
  <2>5. Refusal(q.req, TRUE)' = Refusal(q.req, TRUE)
    BY Zenon DEF Refusal
  <2>6. WalkFits(v, q) => WalkFits(v, q)'
    BY <2>4, <2>5, Zenon DEF WalkFits
  <2>7. \A n : SeenAfter(v, n)' <=> SeenAfter(walk[d], n)'
    BY <2>1, Zenon DEF SeenAfter, Missing, Alone, Ahead
  <2>8. Refusal(q.req, TRUE)' = Refusal(call[d].req, TRUE)'
    BY <2>1, Zenon DEF Refusal
  <2>9. ASSUME WalkFits(v, q)' PROVE WalkFits(walk[d], call[d])'
    <3>1. PICK n : n = IF q.pc = "done" THEN v.page ELSE v.page - 1
      BY Zenon
    <3>2. n = IF call'[d].pc = "done" THEN walk'[d].page ELSE walk'[d].page - 1
      BY <2>1, <3>1, Zenon
    <3>3. q.status = "OK" => SeenAfter(v, n)'
      BY <2>9, <3>1, Zenon DEF WalkFits
    <3>4. q.status = "OK" => SeenAfter(walk[d], n)'
      BY <2>7, <3>3, Zenon
    <3>5. call'[d].status = "OK" => SeenAfter(walk[d], IF call[d].pc = "done" THEN walk[d].page ELSE walk[d].page - 1)'
      BY <2>1, <3>2, <3>4
    <3>6. call'[d].status = Refusal(call[d].req, TRUE)'
      BY <2>1, <2>8, <2>9, Zenon DEF WalkFits
    <3>7. /\ DOMAIN walk'[d] = WalkFields
          /\ walk'[d].page \in Nat \ {0} /\ walk'[d].h \in PageHandlers /\ walk'[d].from \in 0 .. Len(samples')
          /\ call'[d].pc # "idle" /\ call'[d].h = walk'[d].h /\ call'[d].req.page.number = walk'[d].page
          /\ walk'[d].req = [call'[d].req EXCEPT !.page.number = 1]
          /\ call'[d].status # "OK" => walk'[d].over = FALSE /\ call'[d].pc = "done"
      BY <2>1, <2>9, Zenon DEF WalkFits
    <3> QED
      BY <3>5, <3>6, <3>7, Zenon DEF WalkFits
  <2> QED
    BY <2>1, <2>2, <2>6, <2>9, Zenon
<1> QED
  BY <1>1, Zenon DEF WalkInv

\* The first page, and every next one.
LEMMA WalksBegin ==
    ASSUME ServiceInv, WalkInv, NEW c \in Clients, NEW h \in PageHandlers, NEW req \in Requests,
           PageHandler(c, h, req)
    PROVE  WalkInv'
<1> DEFINE first == [req EXCEPT !.page.number = 1]
           refusal == Refusal(req, TRUE)
           k == [pc |-> IF refusal = "OK" THEN "count" ELSE "done", h |-> h, req |-> req,
                 status |-> refusal, total |-> 0, rows |-> {}, time |-> now]
           begun == [h |-> h, req |-> first, page |-> 1, from |-> Len(samples), seen |-> {}, over |-> FALSE]
           more == [walk[c] EXCEPT !.page = req.page.number]
           going == /\ walk[c].page > 0 /\ walk[c].page + 1 = req.page.number
                    /\ walk[c].h = h /\ walk[c].req = first
           w == IF req.page.number = 1 THEN begun ELSE IF going THEN more ELSE NoWalk
<1>1. /\ call' = [call EXCEPT ![c] = k] /\ walk'[c] = w /\ \A d \in Clients \ {c} : walk'[d] = walk[d]
      /\ samples' = samples /\ initialized' = initialized /\ call[c].pc \in {"idle", "done"}
  BY Zenon DEF PageHandler, Begin, WalkOn, ServiceInv
<1>2. /\ k.pc = (IF refusal = "OK" THEN "count" ELSE "done") /\ k.h = h /\ k.req = req /\ k.status = refusal
  BY Zenon
<1>3. Written /\ Len(samples) \in Nat
  BY InvWritten, WrittenLength, Zenon
<1>4. w = NoWalk \/ WalkFits(w, k)
  <2>1. CASE req.page.number = 1
    <3>1. /\ DOMAIN begun = WalkFields /\ begun.page = 1 /\ begun.h = h /\ begun.from = Len(samples)
          /\ begun.req = first /\ begun.over = FALSE /\ begun.seen = {}
      BY Zenon DEF WalkFields
    <3> HIDE DEF begun, first
    <3>2. SeenAfter(begun, 0)
      <4>1. Paged(first.page).size \in Nat
        BY <1>3, SameList, Zenon DEF first
      <4>2. ASSUME NEW r \in Selected(h, DB, first) PROVE Ahead(h, Len(samples), first, r.ts) \in Nat
        <5>1. r.ts \in Int
          <6>1. h \in Counting /\ Len(samples) \in 0 .. Len(samples) /\ now \in Nat
            BY <1>3 DEF Counting, Written
          <6> QED
            BY <1>3, <4>2, <6>1, SelectedFits DEF Fits, DB
        <5>2. Len(samples) \in 0 .. Len(samples)
          BY <1>3
        <5> QED
          BY <1>3, <5>1, <5>2, AheadGrows, Zenon
      <4>3. 0 * Paged(first.page).size = 0 /\ ~(0 > 0)
        BY <4>1
      <4>4. \A r \in Selected(h, DB, first) : Ahead(h, Len(samples), first, r.ts) >= 0 * Paged(first.page).size
        BY <4>2, <4>3
      <4> QED
        BY <3>1, <4>3, <4>4, Zenon DEF SeenAfter, Missing, DB
    <3> HIDE DEF k, refusal
    <3>3. k.status = "OK" => SeenAfter(begun, IF k.pc = "done" THEN begun.page ELSE begun.page - 1)
      BY <1>2, <3>1, <3>2
    <3>4. k.pc # "idle" /\ Len(samples) \in 0 .. Len(samples)
      BY <1>2, <1>3
    <3>5. WalkFits(begun, k)
      <4>1. begun.req = [k.req EXCEPT !.page.number = 1] /\ k.status = Refusal(k.req, TRUE)
        BY <1>2, <3>1, Zenon DEF first, refusal
      <4>3. k.status # "OK" => begun.over = FALSE /\ k.pc = "done"
        BY <1>2, <3>1, Zenon
      <4>2. begun.page \in Nat \ {0} /\ k.req.page.number = begun.page /\ begun.from \in 0 .. Len(samples)
        BY <1>2, <2>1, <3>1, <3>4
      <4> QED
        BY <1>2, <3>1, <3>3, <3>4, <4>1, <4>2, <4>3, Zenon DEF WalkFits
    <3> QED
      BY <2>1, <3>5, Zenon
  <2>2. CASE req.page.number # 1 /\ going
    <3>1. walk[c] # NoWalk
      BY <2>2 DEF NoWalk
    <3>2. WalkFits(walk[c], call[c]) /\ call[c].pc = "done" /\ CallFits(c, call[c])
      <4>1. WalkFits(walk[c], call[c])
        BY <3>1, Zenon DEF WalkInv
      <4>2. call[c].pc # "idle"
        BY <4>1, Zenon DEF WalkFits
      <4>3. call[c] # Idle
        BY <4>2 DEF Idle
      <4> QED
        BY <1>1, <4>1, <4>2, <4>3, Zenon DEF ServiceInv
    <3>3. /\ DOMAIN more = WalkFields /\ more.page = req.page.number /\ more.h = h
          /\ more.from = walk[c].from /\ more.req = first /\ more.over = walk[c].over /\ more.seen = walk[c].seen
          /\ more.page \in Nat \ {0} /\ more.page - 1 = walk[c].page
      BY <2>2, <3>2 DEF WalkFits, WalkFields
    <3>4. refusal = call[c].status
      <4>1. call[c].req \in Requests /\ first = [call[c].req EXCEPT !.page.number = 1]
        BY <2>2, <3>2, Zenon DEF CallFits, WalkFits
      <4>2. first.scope = call[c].req.scope /\ first.range = call[c].req.range
        BY <1>3, <4>1, SameList, Zenon
      <4>3. first.scope = req.scope /\ first.range = req.range
        BY <1>3, SameList, Zenon
      <4> QED
        BY <3>2, <4>2, <4>3, Zenon DEF WalkFits, Refusal
    <3> HIDE DEF more, first, refusal, going
    <3>5. k.status = "OK" => SeenAfter(more, IF k.pc = "done" THEN more.page ELSE more.page - 1)
      <4> SUFFICES ASSUME k.status = "OK" PROVE SeenAfter(more, more.page - 1)
        BY <1>2, Zenon
      <4>1. SeenAfter(walk[c], walk[c].page)
        BY <1>2, <3>2, <3>4, Zenon DEF WalkFits
      <4>2. walk[c].h = more.h /\ walk[c].req = more.req
        BY <2>2, <3>3, Zenon DEF going
      <4> HIDE DEF k
      <4> QED
        BY <3>3, <4>1, <4>2, Zenon DEF SeenAfter, Missing
    <3>6. k.pc # "idle" /\ (k.status # "OK" => more.over = FALSE /\ k.pc = "done")
      BY <1>2, <3>2, <3>3, <3>4, Zenon DEF WalkFits
    <3> HIDE DEF k
    <3>7. WalkFits(more, k)
      <4>1. more.from \in 0 .. Len(samples)
        BY <3>2, <3>3, Zenon DEF WalkFits
      <4> QED
        BY <1>2, <3>3, <3>5, <3>6, <4>1, Zenon DEF WalkFits, first, refusal
    <3> QED
      BY <2>2, <3>7, Zenon
  <2> HIDE DEF begun, more, k, going
  <2> QED
    BY <2>1, <2>2, Zenon
<1> HIDE DEF w, k
<1> QED
  BY <1>1, <1>4, WalkMoves, Zenon

\* Reading a page of a walk.
LEMMA PageSeen ==
    ASSUME Written, NEW k, k.req \in Requests, k.pc = "page", k.status = "OK", NEW w, WalkFits(w, k),
           Offset(k.req.page) >= 0,
           NEW P \in PagesOf([r \in Selected(k.h, DB, k.req) |-> SortKey(k.h, r)],
                             Offset(k.req.page), Paged(k.req.page).size),
           NEW v, DOMAIN v = WalkFields, v.h = w.h, v.req = w.req, v.page = w.page, v.from = w.from,
           v.seen = w.seen \cup P, v.over = (Cardinality(P) < Paged(k.req.page).size)
    PROVE  SeenAfter(v, v.page)
<1> DEFINE size == Paged(k.req.page).size
           num == w.page
           skip == (num - 1) * size
           half == 2^(IntBits - 1)
           list == [k.req EXCEPT !.page.number = 1]
<1>1. /\ w.h \in PageHandlers /\ k.h = w.h /\ w.req = list /\ w.from \in 0 .. Len(samples)
      /\ num \in Nat \ {0} /\ k.req.page.number = num /\ SeenAfter(w, num - 1)
  BY Zenon DEF WalkFits
<1>2. /\ size \in Nat \ {0} /\ size < half /\ Paged(w.req.page).size = size
      /\ Selected(w.h, DB, w.req) = Selected(w.h, DB, k.req)
  <2>1. Len(samples) \in 0 .. Len(samples)
    BY WrittenLength, Zenon
  <2>2. /\ Paged(list.page).size = size /\ size \in Nat \ {0} /\ size < half
        /\ Selected(w.h, DB, list) = Selected(w.h, DB, k.req)
    <3>1. PICK req \in Requests : req = k.req
      BY Zenon
    <3>2. PICK h \in PageHandlers : h = w.h
      BY <1>1, Zenon
    <3>3. LET first == [req EXCEPT !.page.number = 1]
          IN  /\ Paged(first.page).size = Paged(req.page).size
              /\ Paged(first.page).size \in Nat \ {0} /\ Paged(first.page).size < 2^(IntBits - 1)
              /\ \A n \in 0 .. Len(samples) : Selected(h, Database(n), first) = Selected(h, Database(n), req)
      BY SameList, Zenon
    <3>4. Selected(h, DB, [req EXCEPT !.page.number = 1]) = Selected(h, DB, req)
      BY <2>1, <3>3, Zenon DEF DB
    <3> QED
      BY <3>1, <3>2, <3>3, <3>4, Zenon
  <2> HIDE DEF list
  <2> QED
    BY <1>1, <2>2, Zenon
<1>3. Paged(k.req.page).number = num
  BY <1>1 DEF Paged
<1> HIDE DEF list
<1>4. half \in Nat
  BY IntAssumption, Zenon
<1>5. skip \in Nat /\ skip < half /\ Offset(k.req.page) = skip
  <2>1. /\ skip \in Nat /\ (skip < half => Offset(k.req.page) = skip)
        /\ half <= skip /\ skip < 2 * half => Offset(k.req.page) < 0
        /\ Offset(k.req.page) \in Int
    BY <1>3, PageNumbers, Zenon
  <2>2. num - 1 > 0 => (num - 1 - 1) * size < half
    BY <1>1, <1>2, Zenon DEF SeenAfter
  <2>3. skip < 2 * half
    BY <1>1, <1>2, <1>4, <2>2, NextOffset, Zenon
  <2> HIDE DEF skip, half
  <2> QED
    BY <1>4, <2>1, <2>3
<1>6. num * size = skip + size
  <2>1. num - 1 > 0 => (num - 1 - 1) * size < half
    BY <1>1, <1>2, Zenon DEF SeenAfter
  <2> QED
    BY <1>1, <1>2, <1>4, <2>1, NextOffset, Zenon
<1>7. ASSUME NEW r \in Missing(v)
      PROVE  Ahead(w.h, Len(samples), w.req, r.ts) >= num * size /\ Cardinality(P) = size
  <2>1. /\ r \in Selected(w.h, Database(w.from), w.req) /\ Alone(w.h, w.req, r)
        /\ r \notin w.seen /\ r \notin P
    BY <1>7, Zenon DEF Missing
  <2>2. Ahead(w.h, Len(samples), w.req, r.ts) >= skip
    <3>1. r \in Missing(w)
      BY <2>1, Zenon DEF Missing
    <3> QED
      BY <1>1, <1>2, <3>1, Zenon DEF SeenAfter
  <2>3. P \in PagesOf([q \in Selected(w.h, DB, w.req) |-> SortKey(w.h, q)], skip, size)
    BY <1>1, <1>2, <1>5, Zenon
  <2>4. size \in Nat /\ skip \in Nat
    BY <1>2, <1>5, Zenon
  <2> HIDE DEF skip, size, num
  <2>5. Ahead(w.h, Len(samples), w.req, r.ts) >= skip + size /\ Cardinality(P) = size
    <3>1. PICK h \in PageHandlers, from \in 0 .. Len(samples) : h = w.h /\ from = w.from
      BY <1>1, Zenon
    <3>2. Alone(h, w.req, r) /\ r \in Selected(h, Database(from), w.req)
      BY <2>1, <3>1, Zenon
    <3>3. P \in PagesOf([q \in Selected(h, DB, w.req) |-> SortKey(h, q)], skip, size)
      BY <2>3, <3>1, Zenon
    <3>4. Ahead(h, Len(samples), w.req, r.ts) >= skip /\ r \notin P
      BY <2>1, <2>2, <3>1, Zenon
    <3>5. Ahead(h, Len(samples), w.req, r.ts) >= skip + size /\ Cardinality(P) = size
      BY <2>4, <3>2, <3>3, <3>4, BehindThePage
    <3> QED
      BY <3>1, <3>5, Zenon
  <2> QED
    BY <1>6, <2>5, Zenon
<1>8. v.over => Missing(v) = {}
  <2>1. size \in Int /\ (v.over => Cardinality(P) < size)
    <3>1. size \in Int
      BY <1>2
    <3>2. v.over => Cardinality(P) < size
      BY Zenon
    <3> QED
      BY <3>1, <3>2, Zenon
  <2> HIDE DEF size
  <2>2. ASSUME v.over, NEW r \in Missing(v)
        PROVE  FALSE
    <3>1. Cardinality(P) = size
      BY <1>7, <2>2, Zenon
    <3>2. size < size
      BY <2>1, <2>2, <3>1, Zenon
    <3> QED
      BY <2>1, <3>2
  <2> QED
    BY <2>2, Zenon
<1>9. num > 0 => (num - 1) * size < half
  BY <1>5, Zenon
<1> HIDE DEF num, size, half, skip
<1> QED
  BY <1>2, <1>7, <1>8, <1>9, Zenon DEF SeenAfter, num, size, half

\* A statement of a call keeps WalkInv.
LEMMA StatementsWalk ==
    ASSUME ServiceInv, WalkInv, NEW c \in Clients, Statement(c)
    PROVE  WalkInv'
<1> DEFINE k == call[c]
           w == walk[c]
<1>0. k.pc # "idle" => CallFits(c, k) /\ k.req \in Requests /\ k.h \in Handlers
  BY DEF ServiceInv, Idle, CallFits
<1>a. Written /\ DOMAIN walk = Clients
  BY Zenon DEF ServiceInv
<1>1. CASE executeFails(c)
  <2>1. PICK q : call' = [call EXCEPT ![c] = q]
    BY <1>1, Zenon DEF executeFails, Goes
  <2>2. samples' = samples /\ initialized' = initialized /\ walk' = [walk EXCEPT ![c] = NoWalk]
    BY <1>1, Zenon DEF executeFails
  <2>3. walk'[c] = NoWalk /\ \A d \in Clients \ {c} : walk'[d] = walk[d]
    BY <1>a, <2>2, Zenon
  <2> QED
    BY <2>1, <2>2, <2>3, WalkMoves, Zenon
<1>2. CASE executePreparedCount(c)
  <2> DEFINE new == [call[c] EXCEPT !.pc = "page", !.total = Total(call[c].h, DB, call[c].req)]
  <2>1. CallFits(c, k) /\ k.pc = "count"
    BY <1>0, <1>2, Zenon DEF executePreparedCount
  <2>2. new.pc = "page" /\ new.h = k.h /\ new.req = k.req /\ new.status = k.status
    BY <2>1, Zenon DEF CallFits, CallFields
  <2>3. /\ samples' = samples /\ initialized' = initialized /\ call' = [call EXCEPT ![c] = new]
        /\ walk'[c] = w /\ \A d \in Clients \ {c} : walk'[d] = walk[d]
    BY <1>2, <1>a, Zenon DEF executePreparedCount, Goes
  <2> HIDE DEF new
  <2>4. w = NoWalk \/ WalkFits(w, new)
    <3>1. w = NoWalk \/ WalkFits(w, k)
      BY Zenon DEF WalkInv
    <3>2. (IF new.pc = "done" THEN w.page ELSE w.page - 1) = (IF k.pc = "done" THEN w.page ELSE w.page - 1)
      BY <2>1, <2>2, Zenon
    <3> HIDE DEF w, k
    <3> QED
      BY <2>1, <2>2, <3>1, <3>2, Zenon DEF WalkFits
  <2> HIDE DEF w, k
  <2> QED
    BY <2>3, <2>4, WalkMoves, Zenon
<1>3. CASE executePreparedRows(c)
  <2>1. CallFits(c, k) /\ k.req \in Requests /\ k.pc = "page" /\ k.total \in Nat /\ k.h \in Counting
    BY <1>0, <1>3, StepHandlers, Zenon DEF executePreparedRows, CallFits
  <2>2. PICK P \in PagesOf([r \in Selected(k.h, DB, k.req) |-> SortKey(k.h, r)],
                           Offset(k.req.page), Paged(k.req.page).size) :
           call' = [call EXCEPT ![c] = Answer(c, "OK", k.total, P)] /\ WalkSees(c, P)
    BY <1>3, Zenon DEF executePreparedRows, Goes
  <2> DEFINE new == Answer(c, "OK", k.total, P)
             v == [w EXCEPT !.seen = @ \cup P, !.over = Cardinality(P) < Paged(k.req.page).size]
             to == IF w.page = 0 THEN NoWalk ELSE v
  <2>3. /\ samples' = samples /\ initialized' = initialized
        /\ walk'[c] = to /\ \A d \in Clients \ {c} : walk'[d] = walk[d]
    <3>1. samples' = samples /\ initialized' = initialized
      BY <1>3, Zenon DEF executePreparedRows
    <3>2. walk' = [walk EXCEPT ![c] = to]
      BY <2>2, Zenon DEF WalkSees
    <3> HIDE DEF to
    <3> QED
      BY <1>a, <3>1, <3>2, Zenon
  <2>4. new.pc = "done" /\ new.h = k.h /\ new.req = k.req /\ new.status = "OK"
    <3>1. DOMAIN call[c] = CallFields
      BY <2>1, Zenon DEF CallFits
    <3> QED
      BY <3>1, Zenon DEF Answer, CallFields
  <2>5. to = NoWalk \/ WalkFits(to, new)
    <3>1. CASE w = NoWalk
      BY <3>1, Zenon DEF NoWalk
    <3>2. CASE WalkFits(w, k) /\ w # NoWalk
      <4>1. w.page # 0 /\ DOMAIN w = WalkFields
        BY <3>2, Zenon DEF WalkFits
      <4>2. /\ DOMAIN v = WalkFields /\ v.h = w.h /\ v.req = w.req /\ v.page = w.page /\ v.from = w.from
            /\ v.seen = w.seen \cup P /\ v.over = (Cardinality(P) < Paged(k.req.page).size)
        BY <4>1, Zenon DEF WalkFields
      <4>3. k.status = "OK"
        BY <2>1, <3>2, Zenon DEF WalkFits
      <4>4. Offset(k.req.page) >= 0
        BY <1>3, Zenon DEF executePreparedRows
      <4> HIDE DEF v, w, k, new
      <4>5. SeenAfter(v, v.page)
        BY <1>a, <2>1, <2>2, <3>2, <4>2, <4>3, <4>4, PageSeen, Zenon
      <4>6. WalkFits(v, new)
        BY <2>4, <3>2, <4>2, <4>3, <4>5, Zenon DEF WalkFits
      <4> QED
        BY <4>1, <4>6, Zenon
    <3> QED
      BY <3>1, <3>2, Zenon DEF WalkInv
  <2> HIDE DEF to, new
  <2> QED
    BY <2>2, <2>3, <2>5, WalkMoves, Zenon DEF new
<1>4. ASSUME k.pc # "idle", k.h \notin PageHandlers, NEW q, call' = [call EXCEPT ![c] = q],
             samples' = samples, initialized' = initialized, walk' = walk
      PROVE  WalkInv'
  <2>1. w = NoWalk
    BY <1>4, Zenon DEF WalkInv, WalkFits
  <2>2. walk'[c] = w /\ \A d \in Clients \ {c} : walk'[d] = walk[d]
    BY <1>4, Zenon
  <2> HIDE DEF w, k
  <2> QED
    BY <1>4, <2>1, <2>2, WalkMoves, Zenon
<1>5. CASE \/ trendStatement(c) \/ anomalyStatement(c) \/ lastAnomalyStatement(c)
           \/ cacheHit(c) \/ cacheMiss(c) \/ latestStatement(c) \/ cacheSet(c) \/ cacheSetFails(c)
  <2>1. k.pc \in {"trend", "performance", "mysql", "redis", "cached", "query", "store"}
    BY <1>5, Zenon DEF trendStatement, anomalyStatement, lastAnomalyStatement, cacheHit, cacheMiss,
                latestStatement, cacheSet, cacheSetFails
  <2>2. k.h \notin PageHandlers
    <3>1. k.h \in {"QueryTrend", "QueryAnomaly", "QueryLatestScore"}
      BY <1>0, <2>1, StepHandlers, Zenon DEF CallFits
    <3> QED
      BY <3>1, Zenon DEF PageHandlers, TableOf
  <2>3. \E q : call' = [call EXCEPT ![c] = q]
    BY <1>5, Zenon DEF trendStatement, anomalyStatement, lastAnomalyStatement, cacheHit, cacheMiss,
                latestStatement, cacheSet, cacheSetFails, Goes
  <2>4. samples' = samples /\ initialized' = initialized /\ walk' = walk
    BY <1>5, Zenon DEF trendStatement, anomalyStatement, lastAnomalyStatement, cacheHit, cacheMiss,
                latestStatement, cacheSet, cacheSetFails
  <2> QED
    BY <1>4, <2>1, <2>2, <2>3, <2>4, Zenon
<1> QED
  BY <1>1, <1>2, <1>3, <1>5, Zenon DEF Statement

\* The start of a call keeps WalkInv.
LEMMA CallsWalk ==
    ASSUME ServiceInv, WalkInv, NEW c \in Clients, Calls(c)
    PROVE  WalkInv'
<1>1. PICK req \in Requests :
        \/ \E h \in PageHandlers : PageHandler(c, h, req)
        \/ QueryTrend(c, req) \/ QueryAnomaly(c, req) \/ QueryScoreRank(c, req) \/ QueryLatestScore(c, req)
  BY DEF Calls, QueryPerformance, QueryNetDetail, QueryDiskDetail, QueryMemDetail, QuerySoftIrqDetail,
         QueryMysqlDetail, QueryRedisDetail, PageHandlers, TableOf
<1>2. ASSUME NEW h, NEW refusal, NEW first, OtherHandler(c, h, req, refusal, first)
      PROVE  WalkInv'
  <2>1. \E q : call' = [call EXCEPT ![c] = q]
    BY <1>2, Zenon DEF OtherHandler, Begin
  <2>2. samples' = samples /\ initialized' = initialized /\ walk' = [walk EXCEPT ![c] = NoWalk]
    BY <1>2, Zenon DEF OtherHandler
  <2>3. walk'[c] = NoWalk /\ \A d \in Clients \ {c} : walk'[d] = walk[d]
    BY <2>2, Zenon DEF ServiceInv
  <2> QED
    BY <2>1, <2>2, <2>3, WalkMoves, Zenon
<1> QED
  BY <1>1, <1>2, WalksBegin, Zenon DEF QueryTrend, QueryAnomaly, QueryScoreRank, QueryLatestScore

\* A list, and what is in front of a time, only grows.
Advancing ==
    \A req : \A h \in PageHandlers, ts \in Int, n \in 0 .. Len(samples) :
        /\ Ahead(h, n, req, ts) \in Nat
        /\ Ahead(h, n, req, ts) <= Ahead(h, Len(samples), req, ts)
        /\ Selected(h, Database(n), req) \subseteq Selected(h, DB, req)

\* In every state reached the lists only grow.
LEMMA AlwaysAdvancing == Written => Advancing
  BY AheadGrows, Zenon DEF Advancing

\* And in the state after a step.
LEMMA StillAdvancing == Written' => Advancing'
  BY AlwaysAdvancing, PTL

\* The steps of others keep WalkInv.
LEMMA OthersWalk ==
    ASSUME ServiceInv, WalkInv,
           \/ \E h \in Hosts, ts \in {now - 1, now} : writeToMysql(h, ts)
           \/ \E key \in Keys : redisForgets(key)
           \/ tick
           \/ UNCHANGED vars
    PROVE  WalkInv'
<1>1. ASSUME call' = call, walk' = walk, initialized' = initialized,
             \A n \in 0 .. Len(samples) : Database(n)' = Database(n),
             Len(samples) \in 0 .. Len(samples'), Len(samples') \in Nat, Written'
      PROVE  WalkInv'
  <2> SUFFICES ASSUME NEW d \in Clients, walk[d] # NoWalk PROVE WalkFits(walk[d], call[d])'
    BY <1>1, Zenon DEF WalkInv
  <2>1. PICK q, v : q = call[d] /\ v = walk[d]
    BY Zenon
  <2>2. WalkFits(v, q) /\ CallFits(d, q)
    <3>1. WalkFits(v, q)
      BY <2>1, Zenon DEF WalkInv
    <3>2. q # Idle
      BY <3>1 DEF WalkFits, Idle
    <3> QED
      BY <2>1, <3>1, <3>2, Zenon DEF ServiceInv
  <2>3. /\ v.from \in 0 .. Len(samples) /\ v.from \in 0 .. Len(samples') /\ v.h \in PageHandlers
        /\ Database(v.from)' = Database(v.from)
    BY <1>1, <2>2 DEF WalkFits
  <2>4. Selected(v.h, Database(v.from), v.req)' = Selected(v.h, Database(v.from), v.req)
    BY <2>3, Zenon
  <2>a. \A req : \A h \in PageHandlers, ts \in Int, n \in 0 .. Len(samples') :
          /\ Ahead(h, n, req, ts)' \in Nat
          /\ Ahead(h, n, req, ts)' <= Ahead(h, Len(samples), req, ts)'
    BY <1>1, StillAdvancing, Zenon DEF Advancing
  <2>b. \A req : \A h \in PageHandlers, ts \in Int, n \in 0 .. Len(samples') :
          Selected(h, Database(n)', req) \subseteq Selected(h, DB', req)
    BY <1>1, StillAdvancing, Zenon DEF Advancing
  <2>5. PICK m \in 0 .. Len(samples) : m = Len(samples)
    BY InvWritten, WrittenLength, Zenon
  <2>c. Missing(v)' \subseteq Missing(v)
    <3>1. m \in 0 .. Len(samples') /\ Database(m)' = DB
      BY <1>1, <2>5, Zenon DEF DB
    <3>2. PICK h \in PageHandlers, ts \in Int : h = v.h
      <4>1. 0 \in Int
        OBVIOUS
      <4> QED
        BY <2>3, <4>1, Zenon
    <3>3. Selected(h, DB, v.req) \subseteq Selected(h, DB', v.req)
      BY <2>b, <3>1, Zenon
    <3>4. ASSUME NEW r, Alone(v.h, v.req, r)' PROVE Alone(v.h, v.req, r)
      BY <3>2, <3>3, <3>4, Zenon DEF Alone
    <3> QED
      BY <2>4, <3>4, Zenon DEF Missing
  <2>6. ASSUME NEW n \in Nat, SeenAfter(v, n) PROVE SeenAfter(v, n)'
    <3> DEFINE size == Paged(v.req.page).size
    <3>1. n > 0 => (n - 1) * size < 2^(IntBits - 1)
      BY <2>6, Zenon DEF SeenAfter
    <3>2. ASSUME NEW r \in Missing(v)
          PROVE  Ahead(v.h, Len(samples), v.req, r.ts)' >= n * size
      <4>1. r.ts \in Int
        <5>1. v.h \in Counting /\ Written /\ now \in Nat
          BY <2>3, Zenon DEF Counting, ServiceInv, Written
        <5>2. Fits(v.req.scope, Selected(v.h, Database(v.from), v.req))
          BY <2>3, <5>1, SelectedFits, Zenon
        <5>3. r.ts \in -1 .. now
          BY <3>2, <5>2, Zenon DEF Fits, Missing
        <5> QED
          BY <5>1, <5>3
      <4>2. Ahead(v.h, m, v.req, r.ts) >= n * size
        BY <2>5, <2>6, <3>2, Zenon DEF SeenAfter
      <4>3. Ahead(v.h, m, v.req, r.ts)' = Ahead(v.h, m, v.req, r.ts)
        <5>1. Database(m)' = Database(m)
          BY <1>1, Zenon
        <5> QED
          BY <5>1, Zenon DEF Ahead
      <4>4. m \in 0 .. Len(samples')
        BY <1>1, <2>5, Zenon
      <4>5. PICK ts \in Int : ts = r.ts
        BY <4>1, Zenon
      <4>a. PICK h \in PageHandlers : h = v.h
        BY <2>3, Zenon
      <4>b. PICK req : req = v.req
        BY Zenon
      <4>6. /\ Ahead(v.h, m, v.req, ts)' \in Nat
            /\ Ahead(v.h, m, v.req, ts)' <= Ahead(v.h, Len(samples), v.req, ts)'
        <5>1. Ahead(h, m, req, ts)' \in Nat /\ Ahead(h, m, req, ts)' <= Ahead(h, Len(samples), req, ts)'
          BY <2>a, <4>4, Zenon
        <5> QED
          BY <4>a, <4>b, <5>1, Zenon DEF Ahead
      <4>7. Ahead(v.h, Len(samples), v.req, ts)' \in Nat
        <5>1. PICK j \in 0 .. Len(samples') : j = Len(samples')
          BY <1>1
        <5>2. Ahead(h, j, req, ts)' \in Nat
          BY <2>a, Zenon
        <5> QED
          BY <4>a, <4>b, <5>1, <5>2, Zenon DEF Ahead
      <4>8. n * size \in Int
        <5>1. size \in Nat
          <6>1. q.req \in Requests /\ v.req = [q.req EXCEPT !.page.number = 1] /\ Written
            BY <2>2, Zenon DEF WalkFits, CallFits, ServiceInv
          <6> QED
            BY <2>3, <6>1, SameList, Zenon
        <5> HIDE DEF size
        <5> QED
          BY <5>1
      <4>9. Ahead(v.h, Len(samples), v.req, ts)' >= n * size
        <5> HIDE DEF size
        <5>1. PICK a \in Nat : a = Ahead(v.h, m, v.req, ts)'
          BY <4>6, Zenon
        <5>2. PICK b \in Nat : b = Ahead(v.h, Len(samples), v.req, ts)'
          BY <4>7, Zenon
        <5>3. PICK x \in Int : x = n * size
          BY <4>8, Zenon
        <5>4. a >= x /\ a <= b
          BY <4>2, <4>3, <4>5, <4>6, <5>1, <5>2, <5>3, Zenon
        <5>5. b >= x
          BY <5>4
        <5> QED
          BY <5>2, <5>3, <5>5, Zenon
      <4> QED
        BY <4>5, <4>9, Zenon DEF Ahead
    <3>3. v.over => Missing(v) = {}
      BY <2>6, Zenon DEF SeenAfter
    <3> QED
      BY <2>c, <3>1, <3>2, <3>3, Zenon DEF SeenAfter
  <2>7. PICK n : n = IF q.pc = "done" THEN v.page ELSE v.page - 1
    BY Zenon
  <2>8. n \in Nat
    BY <2>2, <2>7 DEF WalkFits
  <2>9. q.status = "OK" => SeenAfter(v, n)'
    BY <2>2, <2>6, <2>7, <2>8, Zenon DEF WalkFits
  <2>10. SeenAfter(v, n)' <=> SeenAfter(walk[d], n)'
    BY <1>1, <2>1, Zenon DEF SeenAfter, Missing, Alone, Ahead
  <2>11. call'[d].status = "OK" => SeenAfter(walk[d], IF call[d].pc = "done" THEN walk[d].page ELSE walk[d].page - 1)'
    BY <1>1, <2>1, <2>7, <2>9, <2>10, Zenon
  <2>12. call'[d].status = Refusal(call[d].req, TRUE)'
    BY <1>1, <2>1, <2>2, Zenon DEF WalkFits, Refusal
  <2>13. /\ DOMAIN walk'[d] = WalkFields
         /\ walk'[d].page \in Nat \ {0} /\ walk'[d].h \in PageHandlers /\ walk'[d].from \in 0 .. Len(samples')
         /\ call'[d].pc # "idle" /\ call'[d].h = walk'[d].h /\ call'[d].req.page.number = walk'[d].page
         /\ walk'[d].req = [call'[d].req EXCEPT !.page.number = 1]
         /\ call'[d].status # "OK" => walk'[d].over = FALSE /\ call'[d].pc = "done"
    BY <1>1, <2>1, <2>2, <2>3, Zenon DEF WalkFits
  <2> QED
    BY <2>11, <2>12, <2>13, Zenon DEF WalkFits
<1>2. CASE \E h \in Hosts, ts \in {now - 1, now} : writeToMysql(h, ts)
  <2>1. PICK h \in Hosts, ts \in {now - 1, now} : writeToMysql(h, ts)
    BY <1>2
  <2>2. call' = call /\ walk' = walk /\ initialized' = initialized
    BY <2>1, Zenon DEF writeToMysql
  <2>3. /\ Len(samples') = Len(samples) + 1 /\ Len(samples) \in Nat /\ Written'
        /\ \A n \in 0 .. Len(samples) : Database(n)' = Database(n)
    BY <2>1, WriteKeeps, Zenon DEF ServiceInv
  <2>4. Len(samples) \in 0 .. Len(samples') /\ Len(samples') \in Nat
    BY <2>3
  <2> QED
    BY <1>1, <2>2, <2>3, <2>4, Zenon
<1>3. CASE (\E key \in Keys : redisForgets(key)) \/ tick \/ UNCHANGED vars
  <2>1. call' = call /\ walk' = walk /\ initialized' = initialized /\ samples' = samples
    BY <1>3, Zenon DEF redisForgets, tick, vars
  <2>2. Written'
    <3>1. [Next]_vars
      BY <1>3, Zenon DEF Next
    <3> QED
      BY <3>1, ServiceKept, Zenon DEF ServiceInv
  <2>3. \A n \in 0 .. Len(samples) : Database(n)' = Database(n)
    BY <2>1 DEF Database, RowsOf
  <2>4. Len(samples) \in 0 .. Len(samples') /\ Len(samples') \in Nat
    <3>1. Len(samples) \in Nat /\ Len(samples) \in 0 .. Len(samples)
      BY WrittenLength, Zenon DEF ServiceInv
    <3> QED
      BY <2>1, <3>1, Zenon
  <2> QED
    BY <1>1, <2>1, <2>2, <2>3, <2>4, Zenon
<1> QED
  BY <1>2, <1>3

\* PagingMissesNothing: whatever is written between the pages, a client that
\* reads them one after another until one is short has seen every row that was
\* there when it began and shares its time with no other row of the list, for any
\* samples, requests, parts of a sample and number of clients.  Such a row that
\* it has not seen yet always has at least the pages it has read in front of it,
\* because a write only adds rows; a short page leaves no room for it.
THEOREM PagingHolds == Spec => []PagingMissesNothing
<1>1. Init => WalkInv
  BY Zenon DEF Init, WalkInv
<1>2. ServiceInv /\ WalkInv /\ [Next]_vars => WalkInv'
  BY CallsWalk, StatementsWalk, OthersWalk, Zenon DEF Next
<1>3. WalkInv => PagingMissesNothing
  <2> SUFFICES ASSUME WalkInv, NEW c \in Clients, walk[c].page > 0, walk[c].over,
                      NEW r \in Selected(walk[c].h, Database(walk[c].from), walk[c].req),
                      Alone(walk[c].h, walk[c].req, r)
               PROVE  r \in walk[c].seen
    BY Zenon DEF PagingMissesNothing
  <2>1. walk[c] # NoWalk
    BY DEF NoWalk
  <2>2. WalkFits(walk[c], call[c])
    BY <2>1, Zenon DEF WalkInv
  <2>3. call[c].status = "OK"
    BY <2>2, Zenon DEF WalkFits
  <2>4. \E n : SeenAfter(walk[c], n)
    BY <2>2, <2>3, Zenon DEF WalkFits
  <2> QED
    BY <2>4, Zenon DEF SeenAfter, Missing
<1> QED
  BY <1>1, <1>2, <1>3, ServiceStarts, ServiceKept, PTL DEF Spec
=============================================================================

------------------------- MODULE OrderedTable_proofs -------------------------
(***************************************************************************)
(* The buckets and the vector of entries of OrderedMap: what the loops of  *)
(* probeBuckets, insertEntryIndex, remove, compact and rehash compute, and *)
(* that each leaves a Robin Hood table of the entries.                     *)
(***************************************************************************)
EXTENDS OrderedMap, FiniteSetTheorems, WellFoundedInduction, TLAPS

-----------------------------------------------------------------------------
(* Numbers, and functions defined by a loop *)

\* A set of naturals that is not empty has a least element.
LEMMA LeastNumber ==
  ASSUME NEW E \in SUBSET Nat, E # {}
  PROVE  \E n \in E : \A a \in E : n <= a
<1> DEFINE T == {0..n : n \in E}
<1>1. T \subseteq FiniteSubsetsOf(Nat)
  <2> SUFFICES ASSUME NEW n \in E PROVE 0..n \in FiniteSubsetsOf(Nat)
    OBVIOUS
  <2>1. IsFiniteSet(0..n)
    BY FS_Interval
  <2> QED BY <2>1 DEF FiniteSubsetsOf
<1>2. T # {}
  BY Zenon
<1>3. IsWellFoundedOn(StrictSubsetOrdering(Nat), FiniteSubsetsOf(Nat))
  BY FS_StrictSubsetOrderingWellFounded
<1>4. \E x \in T : \A y \in T : ~(<<y, x>> \in StrictSubsetOrdering(Nat))
  <2> HIDE DEF T
  <2> QED BY <1>1, <1>2, <1>3, WFMin
<1>5. PICK n \in E : \A y \in T : ~(<<y, 0..n>> \in StrictSubsetOrdering(Nat))
  BY <1>4
<1>6. ASSUME NEW a \in E, a < n PROVE FALSE
  <2>1. 0..a \subseteq 0..n /\ 0..a # 0..n
    <3>1. 0..a \subseteq 0..n
      BY <1>6
    <3>2. n \in 0..n /\ n \notin 0..a
      BY <1>6
    <3> QED BY <3>1, <3>2
  <2>2. <<0..a, 0..n>> \in StrictSubsetOrdering(Nat)
    <3>1. 0..a \in SUBSET Nat /\ 0..n \in SUBSET Nat
      OBVIOUS
    <3> QED BY <2>1, <3>1 DEF StrictSubsetOrdering
  <2> QED BY Zenon, <1>5, <2>2
<1>7. \A a \in E : n <= a
  BY <1>6
<1> QED BY <1>7

\* Min is the least element.
LEMMA MinIsLeast ==
  ASSUME NEW E \in SUBSET Nat, E # {}
  PROVE  Min(E) \in E /\ \A a \in E : Min(E) <= a
BY Zenon, LeastNumber DEF Min

\* Induction up to N, for a set.
LEMMA UpTo ==
  ASSUME NEW N \in Nat, NEW G, 0 \in G, \A i \in 1..N : i - 1 \in G => i \in G
  PROVE  \A i \in 0..N : i \in G
<1> DEFINE E == {i \in 0..N : i \notin G}
<1>1. SUFFICES ASSUME E # {} PROVE FALSE
  BY Zenon
<1>2. PICK n \in E : \A a \in E : n <= a
  <2>1. E \in SUBSET Nat
    OBVIOUS
  <2> HIDE DEF E
  <2> QED BY Zenon, <1>1, <2>1, LeastNumber
<1>3. n \in 0..N /\ n \notin G
  BY Zenon
<1>4. n \in 1..N /\ n - 1 \notin E
  <2>1. n # 0
    BY Zenon, <1>3
  <2> HIDE DEF E
  <2> QED BY <1>2, <1>3, <2>1
<1>5. n - 1 \in 0..N
  BY <1>4
<1> QED BY Zenon, <1>3, <1>4, <1>5

\* The loops of the model: the rounds of insertEntryIndex, the entries that
\* compact, rehash, map_putAll and map_copy go through.
Step(kind, par, s, n) ==
  CASE kind = "walk"   -> Turn(par, s)
    [] kind = "kept"   -> IF par[n] = Hole THEN s ELSE Append(s, par[n])
    [] kind = "placed" -> Place(s, n)
    [] kind = "put"    -> PutNext(par.hs, s, par.vals[n])
    [] kind = "copied" -> Insert(s, par.hs, par.vals[n].key, par.vals[n].val).map

\* f has the states of the loop after each of its first N rounds.
Rounds(f, kind, par, base, N) ==
  f = [n \in 0..N |-> IF n = 0 THEN base ELSE Step(kind, par, f[n - 1], n)]

\* Every loop has its states.
LEMMA RoundsExist ==
  ASSUME NEW kind, NEW par, NEW base, NEW N \in Nat
  PROVE  \E f : Rounds(f, kind, par, base, N)
<1> DEFINE Is(f, n) == Rounds(f, kind, par, base, n)
           E == {n \in Nat : ~\E f : Is(f, n)}
<1>1. SUFFICES ASSUME E # {} PROVE FALSE
  BY Zenon
<1>2. PICK n \in E : \A a \in E : n <= a
  <2>1. E \in SUBSET Nat
    BY Zenon
  <2> HIDE DEF E
  <2> QED BY Zenon, <1>1, <2>1, LeastNumber
<1>3. n \in Nat /\ ~\E f : Is(f, n)
  BY Zenon
<1>4. n # 0
  <2>1. ASSUME n = 0 PROVE Is([i \in 0..n |-> base], n)
    BY <2>1 DEF Rounds
  <2> QED BY Zenon, <1>3, <2>1
<1>5. n - 1 \in Nat /\ n - 1 \notin E
  <2> HIDE DEF E
  <2> QED BY <1>2, <1>3, <1>4
<1>6. PICK f : Is(f, n - 1)
  BY Zenon, <1>5
<1> DEFINE g == [i \in 0..n |-> IF i = n THEN Step(kind, par, f[n - 1], n) ELSE f[i]]
<1>7. Is(g, n)
  <2>1. \A i \in 0..n : g[i] = IF i = n THEN Step(kind, par, f[n - 1], n) ELSE f[i]
    BY Zenon
  <2>2. \A i \in 0..(n - 1) : f[i] = IF i = 0 THEN base ELSE Step(kind, par, f[i - 1], i)
    BY Zenon, <1>6 DEF Rounds
  <2>3. ASSUME NEW i \in 0..n PROVE g[i] = IF i = 0 THEN base ELSE Step(kind, par, g[i - 1], i)
    <3>1. CASE i = n
      <4>1. n \in 0..n /\ n - 1 \in 0..n /\ n - 1 # n
        BY <1>3, <1>4
      <4>2. g[n] = Step(kind, par, f[n - 1], n) /\ g[n - 1] = f[n - 1]
        BY Zenon, <2>1, <4>1
      <4> HIDE DEF g
      <4> QED BY Zenon, <1>4, <3>1, <4>2
    <3>2. CASE i # n /\ i # 0
      <4>1. i \in 0..(n - 1) /\ i - 1 \in 0..n /\ i - 1 # n
        BY <1>3, <3>2
      <4>2. g[i] = f[i] /\ g[i - 1] = f[i - 1]
        BY Zenon, <2>1, <3>2, <4>1
      <4> HIDE DEF g
      <4> QED BY Zenon, <2>2, <3>2, <4>1, <4>2
    <3>3. CASE i = 0
      <4>1. i \in 0..(n - 1)
        BY <1>3, <1>4, <3>3
      <4>2. g[i] = f[i]
        BY Zenon, <1>4, <2>1, <3>3
      <4> HIDE DEF g
      <4> QED BY Zenon, <2>2, <3>3, <4>1, <4>2
    <3> QED BY Zenon, <3>1, <3>2, <3>3
  <2>4. g = [i \in 0..n |-> g[i]]
    BY Zenon
  <2> HIDE DEF g
  <2> QED BY Zenon, <2>3, <2>4 DEF Rounds
<1> QED BY Zenon, <1>3, <1>7

-----------------------------------------------------------------------------
(* Buckets in a circle *)

\* The buckets behind and before bucket b, and how far bucket e is behind b.
Succ(c, b) == IF b = c - 1 THEN 0 ELSE b + 1
Prev(c, b) == IF b = 0 THEN c - 1 ELSE b - 1
Gap(c, b, e) == IF b <= e THEN e - b ELSE e + c - b

\* The bucket that a place past the last one stands for.
Wrap(c, a) == IF a < c THEN a ELSE a - c

\* A remainder is the only bucket a multiple of c away.
LEMMA ModIs ==
  ASSUME NEW c \in Nat \ {0}, NEW q \in Nat, NEW r \in 0..(c - 1)
  PROVE  (c * q + r) % c = r
OBVIOUS

\* A number is its remainder and a multiple of c.
LEMMA ModDiv == ASSUME NEW c \in Nat \ {0}, NEW a \in Nat PROVE a = c * (a \div c) + (a % c)
OBVIOUS

\* toBucketIndex answers a bucket.
LEMMA ModBucket ==
  ASSUME NEW c \in Nat \ {0}, NEW a \in Nat
  PROVE  a % c \in 0..(c - 1) /\ a \div c \in Nat /\ a = c * (a \div c) + (a % c)
<1>1. a % c \in 0..(c - 1)
  OBVIOUS
<1>2. a \div c \in Nat
  <2>1. a \div c \in Int
    OBVIOUS
  <2>2. a \div c >= 0
    OBVIOUS
  <2> QED BY <2>1, <2>2
<1> QED BY Zenon, <1>1, <1>2, ModDiv

\* The bucket d places behind another one.
LEMMA ModAdd ==
  ASSUME NEW c \in Nat \ {0}, NEW a \in Nat, NEW d \in 0..c
  PROVE  (a + d) % c = Wrap(c, (a % c) + d)
<1> DEFINE q == a \div c
           r == a % c
<1>1. r \in 0..(c - 1) /\ q \in Nat /\ a = c * q + r
  BY Zenon, ModBucket
<1>2. c * (q + 1) = c * q + c /\ q + 1 \in Nat /\ c * q \in Nat
  <2> HIDE DEF q, r
  <2> QED BY <1>1
<1>3. CASE r + d < c
  <2>1. a + d = c * q + (r + d) /\ r + d \in 0..(c - 1)
    <3> DEFINE w == c * q
    <3>1. w \in Nat /\ a = w + r
      BY <1>1, <1>2
    <3> HIDE DEF q, r, w
    <3>2. a + d = w + (r + d) /\ r + d \in 0..(c - 1)
      BY <1>1, <1>3, <3>1
    <3> QED BY <3>2 DEF w
  <2> HIDE DEF q, r
  <2>2. (c * q + (r + d)) % c = r + d
    BY <1>1, <2>1, ModIs
  <2> QED BY Zenon, <1>3, <2>1, <2>2 DEF r, Wrap
<1>4. CASE ~(r + d < c)
  <2>1. a + d = c * (q + 1) + ((r + d) - c) /\ (r + d) - c \in 0..(c - 1)
    <3> DEFINE w == c * q
               v == c * (q + 1)
    <3>1. w \in Nat /\ a = w + r /\ v = w + c
      BY <1>1, <1>2
    <3> HIDE DEF q, r, w, v
    <3>2. a + d = v + ((r + d) - c) /\ (r + d) - c \in 0..(c - 1)
      BY <1>1, <1>4, <3>1
    <3> QED BY <3>2 DEF v
  <2> HIDE DEF q, r
  <2>2. (c * (q + 1) + ((r + d) - c)) % c = (r + d) - c
    BY Zenon, <1>2, <2>1, ModIs
  <2>3. Wrap(c, r + d) = (r + d) - c
    BY <1>4 DEF Wrap
  <2> QED BY Zenon, <2>1, <2>2, <2>3 DEF r
<1> QED BY <1>3, <1>4

\* nextBucketIndex.
LEMMA ModNext ==
  ASSUME NEW c \in Nat \ {0}, NEW a \in Nat
  PROVE  (a + 1) % c = Succ(c, a % c)
<1>1. 1 \in 0..c /\ a % c \in 0..(c - 1)
  BY ModBucket
<1>2. (a + 1) % c = Wrap(c, (a % c) + 1)
  BY Zenon, <1>1, ModAdd
<1>3. Wrap(c, (a % c) + 1) = Succ(c, a % c)
  <2> DEFINE r == a % c
  <2>1. r \in 0..(c - 1)
    BY Zenon, <1>1
  <2> HIDE DEF r
  <2>2. Wrap(c, r + 1) = Succ(c, r)
    BY <2>1 DEF Succ, Wrap
  <2> QED BY Zenon, <2>2 DEF r
<1> QED BY Zenon, <1>2, <1>3

\* A bucket is its own index.
LEMMA ModSmall == ASSUME NEW c \in Nat \ {0}, NEW b \in 0..(c - 1) PROVE b % c = b
OBVIOUS

\* The indexes of the bucket behind, of the one before, and of the distance
\* between two buckets.
LEMMA ModBuckets ==
  ASSUME NEW c \in Nat \ {0}, NEW b \in 0..(c - 1)
  PROVE  /\ (b + 1) % c = Succ(c, b) /\ (b + (c - 1)) % c = Prev(c, b)
         /\ \A a \in 0..(c - 1) : (a + (c - b)) % c = Gap(c, b, a)
<1>1. (b + 1) % c = Succ(c, b)
  <2>1. b \in Nat /\ b % c = b
    BY ModSmall
  <2> QED BY Zenon, <2>1, ModNext
<1>2. ASSUME NEW a \in 0..(c - 1), NEW d \in 0..c PROVE (a + d) % c = Wrap(c, a + d)
  <2>1. a % c = a /\ a \in Nat
    BY ModSmall
  <2> QED BY Zenon, <2>1, ModAdd
<1>3. (b + (c - 1)) % c = Prev(c, b)
  <2>1. c - 1 \in 0..c
    OBVIOUS
  <2>2. Wrap(c, b + (c - 1)) = Prev(c, b)
    BY DEF Prev, Wrap
  <2> QED BY Zenon, <1>2, <2>1, <2>2
<1>4. ASSUME NEW a \in 0..(c - 1) PROVE (a + (c - b)) % c = Gap(c, b, a)
  <2>1. c - b \in 0..c
    OBVIOUS
  <2>2. Wrap(c, a + (c - b)) = Gap(c, b, a)
    BY DEF Gap, Wrap
  <2> QED BY Zenon, <1>2, <2>1, <2>2
<1> QED BY Zenon, <1>1, <1>3, <1>4

\* A probe that starts anywhere comes past every bucket.
LEMMA Reached ==
  ASSUME NEW c \in Nat \ {0}, NEW a \in Nat, NEW e \in 0..(c - 1)
  PROVE  Gap(c, a % c, e) \in 0..(c - 1) /\ (a + Gap(c, a % c, e)) % c = e
<1> DEFINE r == a % c
           d == Gap(c, r, e)
<1>1. r \in 0..(c - 1)
  BY ModBucket
<1>2. d \in 0..(c - 1) /\ e = Wrap(c, r + d)
  <2> HIDE DEF r
  <2> QED BY <1>1 DEF Gap, Wrap
<1>3. d \in 0..c
  <2> HIDE DEF d
  <2> QED BY <1>2
<1>4. (a + d) % c = Wrap(c, r + d)
  <2> HIDE DEF d
  <2> QED BY Zenon, <1>3, ModAdd
<1> QED BY Zenon, <1>2, <1>4

\* Buckets in a circle: going on and going back.
LEMMA Circle ==
  ASSUME NEW c \in Nat \ {0}, NEW b \in 0..(c - 1)
  PROVE  /\ Succ(c, b) \in 0..(c - 1) /\ Prev(c, b) \in 0..(c - 1)
         /\ Prev(c, Succ(c, b)) = b /\ Succ(c, Prev(c, b)) = b
BY DEF Succ, Prev

-----------------------------------------------------------------------------
(* The table of buckets *)

\* The bucket d places behind the one of entry n, whose hash is H[n].
Home(c, H, n, d) == (H[n] + d) % c

\* The c buckets idx and dist hold the entries D, each in one bucket, as far
\* behind its own as dist says, and nowhere is an entry more than one bucket
\* farther from its own than the entry before it.
Ordered(c, idx, dist, b, d) ==
  d > 0 => idx[Prev(c, b)] # -1 /\ d <= dist[Prev(c, b)] + 1

Table(c, idx, dist, D, H) ==
  /\ idx \in [0..(c - 1) -> D \cup {-1}] /\ dist \in [0..(c - 1) -> Nat]
  /\ \A n \in D : \E b \in 0..(c - 1) : idx[b] = n
  /\ \A a, b \in 0..(c - 1) : idx[a] = idx[b] /\ idx[a] # -1 => a = b
  /\ \A b \in 0..(c - 1) : idx[b] # -1 => b = Home(c, H, idx[b], dist[b])
  /\ \A b \in 0..(c - 1) : idx[b] # -1 => Ordered(c, idx, dist, b, dist[b])

\* The bucket behind the home of an entry.
LEMMA HomeNext ==
  ASSUME NEW c \in Nat \ {0}, NEW H, NEW n, H[n] \in Nat, NEW d \in Nat
  PROVE  /\ Home(c, H, n, d) \in 0..(c - 1)
         /\ Home(c, H, n, d + 1) = Succ(c, Home(c, H, n, d))
<1>1. H[n] + d \in Nat /\ H[n] + (d + 1) = (H[n] + d) + 1
  OBVIOUS
<1> QED BY Zenon, <1>1, ModBucket, ModNext DEF Home

\* An entry put in a bucket that is empty or whose entry is nearer to its own
\* replaces that entry: the rest stays a table.
LEMMA Replaced ==
  ASSUME NEW c \in Nat \ {0}, NEW D \in SUBSET Nat, NEW H, NEW idx, NEW dist,
         Table(c, idx, dist, D, H), NEW n \in Nat \ D, NEW b \in 0..(c - 1), NEW d \in Nat,
         b = Home(c, H, n, d), Ordered(c, idx, dist, b, d),
         idx[b] = -1 \/ dist[b] < d
  PROVE  Table(c, [idx EXCEPT ![b] = n], [dist EXCEPT ![b] = d], (D \cup {n}) \ {idx[b]}, H)
<1> DEFINE i2 == [idx EXCEPT ![b] = n]
           d2 == [dist EXCEPT ![b] = d]
           D2 == (D \cup {n}) \ {idx[b]}
<1>1. idx \in [0..(c - 1) -> D \cup {-1}] /\ dist \in [0..(c - 1) -> Nat]
  BY Zenon DEF Table
<1>2. /\ \A a \in 0..(c - 1) : i2[a] = IF a = b THEN n ELSE idx[a]
      /\ \A a \in 0..(c - 1) : d2[a] = IF a = b THEN d ELSE dist[a]
  BY <1>1
<1>3. \A a, e \in 0..(c - 1) : idx[a] = idx[e] /\ idx[a] # -1 => a = e
  BY Zenon DEF Table
<1>4. i2 \in [0..(c - 1) -> D2 \cup {-1}] /\ d2 \in [0..(c - 1) -> Nat]
  <2>1. ASSUME NEW a \in 0..(c - 1) PROVE i2[a] \in D2 \cup {-1} /\ d2[a] \in Nat
    <3>1. idx[a] \in D \cup {-1} /\ dist[a] \in Nat
      BY Zenon, <1>1
    <3>2. CASE a = b
      <4>1. n # idx[b]
        BY <3>1, <3>2
      <4> QED BY Zenon, <1>2, <3>2, <4>1
    <3>3. CASE a # b
      <4>1. idx[a] # -1 => idx[a] # idx[b]
        BY Zenon, <1>3, <3>3
      <4> QED BY Zenon, <1>2, <3>1, <3>3, <4>1
    <3> QED BY Zenon, <3>2, <3>3
  <2>2. i2 = [a \in 0..(c - 1) |-> i2[a]] /\ d2 = [a \in 0..(c - 1) |-> d2[a]]
    BY Zenon, <1>1
  <2> HIDE DEF i2, d2, D2
  <2> QED BY Zenon, <2>1, <2>2
<1>5. ASSUME NEW e \in D2 PROVE \E a \in 0..(c - 1) : i2[a] = e
  <2>1. CASE e = n
    BY Zenon, <1>2, <2>1
  <2>2. CASE e # n
    <3>1. PICK a \in 0..(c - 1) : idx[a] = e
      BY Zenon, <2>2 DEF Table
    <3>2. a # b
      BY Zenon, <3>1
    <3> QED BY Zenon, <1>2, <3>1, <3>2
  <2> QED BY Zenon, <2>1, <2>2
<1>6. ASSUME NEW a \in 0..(c - 1), NEW e \in 0..(c - 1), i2[a] = i2[e], i2[a] # -1 PROVE a = e
  <2>1. idx[a] # n /\ idx[e] # n
    BY <1>1
  <2>2. /\ i2[a] = (IF a = b THEN n ELSE idx[a])
        /\ i2[e] = (IF e = b THEN n ELSE idx[e])
    BY Zenon, <1>2
  <2>3. idx[a] = idx[e] /\ idx[a] # -1 => a = e
    BY Zenon, <1>3
  <2> HIDE DEF i2
  <2> QED BY Zenon, <1>6, <2>1, <2>2, <2>3
<1>7. ASSUME NEW a \in 0..(c - 1), i2[a] # -1 PROVE a = Home(c, H, i2[a], d2[a])
  <2>1. idx[a] # -1 => a = Home(c, H, idx[a], dist[a])
    BY Zenon DEF Table
  <2> HIDE DEF i2, d2
  <2> QED BY Zenon, <1>2, <1>7, <2>1
<1>8. ASSUME NEW a \in 0..(c - 1), i2[a] # -1 PROVE Ordered(c, i2, d2, a, d2[a])
  <2> DEFINE p == Prev(c, a)
  <2>1. SUFFICES ASSUME d2[a] > 0 PROVE i2[p] # -1 /\ d2[a] <= d2[p] + 1
    <3> HIDE DEF i2, d2
    <3> QED BY Zenon DEF Ordered
  <2>2. p \in 0..(c - 1) /\ n # -1
    BY Circle
  <2>3. dist[p] \in Nat /\ dist[a] \in Nat /\ dist[b] \in Nat /\ d2[a] \in Nat /\ d2[p] \in Nat
    BY Zenon, <1>1, <1>4, <2>2
  <2>4. CASE a = b
    <3>1. d2[a] = d /\ idx[p] # -1 /\ d <= dist[p] + 1
      BY Zenon, <1>2, <2>1, <2>4 DEF Ordered
    <3>2. CASE p = b
      <4>1. i2[p] = n /\ d2[p] = d
        BY Zenon, <1>2, <2>2, <3>2
      <4> HIDE DEF i2, d2, p
      <4> QED BY <2>2, <3>1, <4>1
    <3>3. CASE p # b
      <4>1. i2[p] = idx[p] /\ d2[p] = dist[p]
        BY Zenon, <1>2, <2>2, <3>3
      <4> HIDE DEF i2, d2, p
      <4> QED BY Zenon, <3>1, <4>1
    <3> QED BY Zenon, <3>2, <3>3
  <2>5. CASE a # b
    <3>1. i2[a] = idx[a] /\ d2[a] = dist[a]
      BY Zenon, <1>2, <2>5
    <3>2. idx[p] # -1 /\ dist[a] <= dist[p] + 1
      <4>1. Ordered(c, idx, dist, a, dist[a])
        BY Zenon, <1>8, <3>1 DEF Table
      <4> QED BY Zenon, <2>1, <3>1, <4>1 DEF Ordered
    <3>3. CASE p = b
      <4>1. i2[p] = n /\ d2[p] = d /\ dist[p] < d
        BY Zenon, <1>2, <2>2, <3>2, <3>3
      <4> HIDE DEF i2, d2, p
      <4> QED BY <2>2, <2>3, <3>1, <3>2, <4>1
    <3>4. CASE p # b
      <4>1. i2[p] = idx[p] /\ d2[p] = dist[p]
        BY Zenon, <1>2, <2>2, <3>4
      <4> HIDE DEF i2, d2, p
      <4> QED BY Zenon, <3>1, <3>2, <4>1
    <3> QED BY Zenon, <3>3, <3>4
  <2> QED BY Zenon, <2>4, <2>5
<1> HIDE DEF i2, d2, D2
<1>9. Table(c, i2, d2, D2, H)
  BY Zenon, <1>4, <1>5, <1>6, <1>7, <1>8 DEF Table
<1> QED BY Zenon, <1>9 DEF i2, d2, D2

-----------------------------------------------------------------------------
(* insertEntryIndex *)

\* The loop of insertEntryIndex carries entry n to bucket b: the buckets are a
\* table of the other entries of D, and bucket e is empty.
State(idx, dist, n, b, d) == [idx |-> idx, dist |-> dist, n |-> n, b |-> b, d |-> d]

Carries(c, H, D, e, idx, dist, n, b, d) ==
  /\ n \in D /\ b \in 0..(c - 1) /\ d \in Nat
  /\ Table(c, idx, dist, D \ {n}, H)
  /\ b = Home(c, H, n, d) /\ Ordered(c, idx, dist, b, d)
  /\ idx[e] = -1

\* A round leaves the loop, takes the bucket over or passes it by.
TurnTo(c, idx, dist, n, b, d, t) ==
  /\ idx[b] = -1 => t = State(idx, dist, n, b, d)
  /\ idx[b] # -1 /\ dist[b] < d =>
       t = State([idx EXCEPT ![b] = n], [dist EXCEPT ![b] = d], idx[b], Succ(c, b), dist[b] + 1)
  /\ idx[b] # -1 /\ ~(dist[b] < d) => t = State(idx, dist, n, Succ(c, b), d + 1)

\* The body of the loop of insertEntryIndex is such a round.
LEMMA TurnIs ==
  ASSUME NEW c \in Nat \ {0}, NEW x, x.len = c,
         NEW idx, NEW dist, NEW n, NEW b \in 0..(c - 1), NEW d
  PROVE  TurnTo(c, idx, dist, n, b, d, Turn(x, State(idx, dist, n, b, d)))
<1> DEFINE s == State(idx, dist, n, b, d)
<1>1. s.idx = idx /\ s.dist = dist /\ s.n = n /\ s.b = b /\ s.d = d
  BY DEF State
<1>2. BucketIndex(x, b + 1) = Succ(c, b)
  BY Zenon, ModBuckets DEF BucketIndex
<1> HIDE DEF s
<1>3. TurnTo(c, idx, dist, n, b, d, Turn(x, s))
  BY Zenon, <1>1, <1>2 DEF Turn, State, TurnTo, s
<1> QED BY Zenon, <1>3 DEF s

\* A bucket nearer to e.
LEMMA GapShrinks ==
  ASSUME NEW c \in Nat \ {0}, NEW b \in 0..(c - 1), NEW e \in 0..(c - 1), b # e
  PROVE  Gap(c, Succ(c, b), e) = Gap(c, b, e) - 1
BY DEF Succ, Gap

\* An entry that takes over a bucket leaves its old entry to be carried on.
LEMMA TakesOver ==
  ASSUME NEW c \in Nat \ {0}, NEW D \in SUBSET Nat, NEW H \in [D -> Nat], NEW e \in 0..(c - 1),
         NEW idx, NEW dist, NEW n, NEW b, NEW d, Carries(c, H, D, e, idx, dist, n, b, d),
         idx[b] # -1, dist[b] < d
  PROVE  Carries(c, H, D, e, [idx EXCEPT ![b] = n], [dist EXCEPT ![b] = d], idx[b],
                 Succ(c, b), dist[b] + 1)
<1> DEFINE D1 == D \ {n}
           i2 == [idx EXCEPT ![b] = n]
           d2 == [dist EXCEPT ![b] = d]
<1>1. /\ n \in D /\ b \in 0..(c - 1) /\ d \in Nat /\ Table(c, idx, dist, D1, H)
      /\ b = Home(c, H, n, d) /\ Ordered(c, idx, dist, b, d) /\ idx[e] = -1 /\ b # e
  BY Zenon DEF Carries
<1>2. /\ idx \in [0..(c - 1) -> D1 \cup {-1}] /\ dist \in [0..(c - 1) -> Nat]
      /\ b = Home(c, H, idx[b], dist[b])
  BY Zenon, <1>1 DEF Table
<1>3. idx[b] \in D1 /\ idx[b] \in D /\ dist[b] \in Nat /\ H[idx[b]] \in Nat
  <2>1. idx[b] \in D1 \cup {-1} /\ dist[b] \in Nat
    BY Zenon, <1>1, <1>2
  <2> QED BY Zenon, <2>1
<1>4. Table(c, i2, d2, D \ {idx[b]}, H)
  <2>1. D1 \in SUBSET Nat /\ n \in Nat \ D1 /\ D1 \cup {n} = D
    BY Zenon, <1>1
  <2> HIDE DEF D1
  <2>2. Table(c, i2, d2, (D1 \cup {n}) \ {idx[b]}, H)
    BY Zenon, <1>1, <2>1, Replaced
  <2> QED BY Zenon, <2>1, <2>2
<1>5. Succ(c, b) \in 0..(c - 1) /\ dist[b] + 1 \in Nat /\ Prev(c, Succ(c, b)) = b
  BY <1>1, <1>3, Circle
<1>6. Succ(c, b) = Home(c, H, idx[b], dist[b] + 1)
  <2>1. Home(c, H, idx[b], dist[b] + 1) = Succ(c, Home(c, H, idx[b], dist[b]))
    BY ZenonT(40), <1>3, HomeNext
  <2> QED BY Zenon, <1>2, <2>1
<1>7. i2[b] = n /\ d2[b] = d /\ i2[e] = -1
  BY <1>1, <1>2
<1>8. n # -1 /\ dist[b] + 1 <= d + 1
  BY <1>1, <1>3
<1> HIDE DEF i2, d2, D1
<1>9. Ordered(c, i2, d2, Succ(c, b), dist[b] + 1)
  BY Zenon, <1>5, <1>7, <1>8 DEF Ordered
<1>10. Carries(c, H, D, e, i2, d2, idx[b], Succ(c, b), dist[b] + 1)
  BY Zenon, <1>3, <1>4, <1>5, <1>6, <1>7, <1>9 DEF Carries
<1> QED BY Zenon, <1>10 DEF i2, d2

\* An entry that passes by a bucket is carried on.
LEMMA PassesBy ==
  ASSUME NEW c \in Nat \ {0}, NEW D \in SUBSET Nat, NEW H \in [D -> Nat], NEW e \in 0..(c - 1),
         NEW idx, NEW dist, NEW n, NEW b, NEW d, Carries(c, H, D, e, idx, dist, n, b, d),
         idx[b] # -1, ~(dist[b] < d)
  PROVE  Carries(c, H, D, e, idx, dist, n, Succ(c, b), d + 1)
<1>1. /\ n \in D /\ b \in 0..(c - 1) /\ d \in Nat /\ Table(c, idx, dist, D \ {n}, H)
      /\ b = Home(c, H, n, d) /\ idx[e] = -1
  BY Zenon DEF Carries
<1>2. dist[b] \in Nat /\ H[n] \in Nat
  <2>1. dist \in [0..(c - 1) -> Nat]
    BY Zenon, <1>1 DEF Table
  <2> QED BY Zenon, <1>1, <2>1
<1>3. Succ(c, b) \in 0..(c - 1) /\ d + 1 \in Nat /\ Prev(c, Succ(c, b)) = b
  BY <1>1, Circle
<1>4. Succ(c, b) = Home(c, H, n, d + 1)
  BY ZenonT(40), <1>1, <1>2, HomeNext
<1>5. d + 1 <= dist[b] + 1
  BY <1>1, <1>2
<1>6. Ordered(c, idx, dist, Succ(c, b), d + 1)
  BY Zenon, <1>3, <1>5 DEF Ordered
<1> QED BY Zenon, <1>1, <1>3, <1>4, <1>6 DEF Carries

\* The steps of the loops.
LEMMA StepIs ==
  ASSUME NEW par, NEW s, NEW n
  PROVE  /\ Step("walk", par, s, n) = Turn(par, s)
         /\ Step("kept", par, s, n) = IF par[n] = Hole THEN s ELSE Append(s, par[n])
         /\ Step("placed", par, s, n) = Place(s, n)
         /\ Step("put", par, s, n) = PutNext(par.hs, s, par.vals[n])
         /\ Step("copied", par, s, n) = Insert(s, par.hs, par.vals[n].key, par.vals[n].val).map
<1>1. Step("walk", par, s, n) = Turn(par, s)
  BY DEF Step
<1>2. Step("kept", par, s, n) = IF par[n] = Hole THEN s ELSE Append(s, par[n])
  BY DEF Step
<1>3. Step("placed", par, s, n) = Place(s, n)
  BY DEF Step
<1>4. Step("put", par, s, n) = PutNext(par.hs, s, par.vals[n])
  BY DEF Step
<1>5. Step("copied", par, s, n) = Insert(s, par.hs, par.vals[n].key, par.vals[n].val).map
  BY DEF Step
<1> QED BY Zenon, <1>1, <1>2, <1>3, <1>4, <1>5

\* Some entry is carried in state s, which is at an empty bucket or near
\* enough to e.
Walking(c, H, D, e, s, i) ==
  \E idx, dist, n, b, d :
    /\ s = State(idx, dist, n, b, d) /\ Carries(c, H, D, e, idx, dist, n, b, d)
    /\ idx[b] = -1 \/ Gap(c, b, e) + i <= c - 1

\* A round goes on walking.
LEMMA TurnWalks ==
  ASSUME NEW c \in Nat \ {0}, NEW x, x.len = c, NEW D \in SUBSET Nat, NEW H \in [D -> Nat],
         NEW e \in 0..(c - 1), NEW s, NEW i \in Nat, Walking(c, H, D, e, s, i)
  PROVE  Walking(c, H, D, e, Turn(x, s), i + 1)
<1>1. PICK idx, dist, n, b, d :
        /\ s = State(idx, dist, n, b, d) /\ Carries(c, H, D, e, idx, dist, n, b, d)
        /\ idx[b] = -1 \/ Gap(c, b, e) + i <= c - 1
  BY Zenon DEF Walking
<1>2. b \in 0..(c - 1) /\ idx[e] = -1
  BY Zenon, <1>1 DEF Carries
<1> DEFINE t == Turn(x, s)
<1>3. TurnTo(c, idx, dist, n, b, d, t)
  BY Zenon, <1>1, <1>2, TurnIs
<1> HIDE DEF t
<1>4. SUFFICES Walking(c, H, D, e, t, i + 1)
  BY Zenon DEF t
<1>5. CASE idx[b] = -1
  BY Zenon, <1>1, <1>5, <1>3 DEF Walking, TurnTo
<1>6. CASE idx[b] # -1
  <2>1. b # e /\ Gap(c, Succ(c, b), e) = Gap(c, b, e) - 1 /\ Gap(c, b, e) \in Int
    <3>1. b # e
      BY Zenon, <1>2, <1>6
    <3>2. Gap(c, b, e) \in Int
      BY <1>2 DEF Gap
    <3> QED BY Zenon, <1>2, <3>1, <3>2, GapShrinks
  <2>2. Gap(c, Succ(c, b), e) + (i + 1) <= c - 1
    <3> DEFINE g == Gap(c, b, e)
               h == Gap(c, Succ(c, b), e)
    <3>1. g \in Int /\ h = g - 1 /\ g + i <= c - 1
      BY Zenon, <1>1, <1>6, <2>1
    <3> HIDE DEF g, h
    <3>2. h + (i + 1) <= c - 1
      BY <3>1
    <3> QED BY Zenon, <3>2 DEF h
  <2>3. CASE dist[b] < d
    <3>1. t = State([idx EXCEPT ![b] = n], [dist EXCEPT ![b] = d], idx[b], Succ(c, b), dist[b] + 1)
      BY Zenon, <1>6, <1>3, <2>3 DEF TurnTo
    <3>2. Carries(c, H, D, e, [idx EXCEPT ![b] = n], [dist EXCEPT ![b] = d], idx[b],
                  Succ(c, b), dist[b] + 1)
      BY Zenon, <1>1, <1>6, <2>3, TakesOver
    <3> QED BY Zenon, <2>2, <3>1, <3>2 DEF Walking
  <2>4. CASE ~(dist[b] < d)
    <3>1. t = State(idx, dist, n, Succ(c, b), d + 1)
      BY Zenon, <1>6, <1>3, <2>4 DEF TurnTo
    <3>2. Carries(c, H, D, e, idx, dist, n, Succ(c, b), d + 1)
      BY Zenon, <1>1, <1>6, <2>4, PassesBy
    <3> QED BY Zenon, <2>2, <3>1, <3>2 DEF Walking
  <2> QED BY Zenon, <2>3, <2>4
<1> QED BY Zenon, <1>5, <1>6

\* The fields that the loops over buckets leave alone.
IsMap(x) ==
  x = [len |-> x.len, size |-> x.size, dist |-> x.dist, idx |-> x.idx, vals |-> x.vals, cap |-> x.cap]

SameEntries(x, y) ==
  IsMap(y) /\ y.len = x.len /\ y.size = x.size /\ y.vals = x.vals /\ y.cap = x.cap

\* The fields of a map.
Fields(y, l, s, d, i, v, c) ==
  IsMap(y) /\ y.len = l /\ y.size = s /\ y.dist = d /\ y.idx = i /\ y.vals = v /\ y.cap = c

\* The map with another size.
LEMMA WithSize ==
  ASSUME NEW x, IsMap(x), NEW n, NEW y, y = [x EXCEPT !.size = n]
  PROVE  Fields(y, x.len, n, x.dist, x.idx, x.vals, x.cap)
<1>1. y = [len |-> x.len, size |-> n, dist |-> x.dist, idx |-> x.idx, vals |-> x.vals, cap |-> x.cap]
  BY Zenon DEF IsMap
<1> QED BY Zenon, <1>1 DEF Fields, IsMap

\* The map with another vector.
LEMMA WithVals ==
  ASSUME NEW x, IsMap(x), NEW n, NEW y, y = [x EXCEPT !.vals = n]
  PROVE  Fields(y, x.len, x.size, x.dist, x.idx, n, x.cap)
<1>1. y = [len |-> x.len, size |-> x.size, dist |-> x.dist, idx |-> x.idx, vals |-> n, cap |-> x.cap]
  BY Zenon DEF IsMap
<1> QED BY Zenon, <1>1 DEF Fields, IsMap

\* The map with other buckets.
LEMMA WithTable ==
  ASSUME NEW x, IsMap(x), NEW n, NEW k, NEW y, y = [x EXCEPT !.dist = n, !.idx = k]
  PROVE  Fields(y, x.len, x.size, n, k, x.vals, x.cap)
<1>1. y = [len |-> x.len, size |-> x.size, dist |-> n, idx |-> k, vals |-> x.vals, cap |-> x.cap]
  BY Zenon DEF IsMap
<1> QED BY Zenon, <1>1 DEF Fields, IsMap

\* The map with another vector of another capacity.
LEMMA WithCapVals ==
  ASSUME NEW x, IsMap(x), NEW n, NEW k, NEW y, y = [x EXCEPT !.cap = n, !.vals = k]
  PROVE  Fields(y, x.len, x.size, x.dist, x.idx, k, n)
<1>1. y = [len |-> x.len, size |-> x.size, dist |-> x.dist, idx |-> x.idx, vals |-> k, cap |-> n]
  BY Zenon DEF IsMap
<1> QED BY Zenon, <1>1 DEF Fields, IsMap

\* The map with another size and another vector.
LEMMA WithSizeVals ==
  ASSUME NEW x, IsMap(x), NEW n, NEW k, NEW y, y = [x EXCEPT !.size = n, !.vals = k]
  PROVE  Fields(y, x.len, n, x.dist, x.idx, k, x.cap)
<1>1. y = [len |-> x.len, size |-> n, dist |-> x.dist, idx |-> x.idx, vals |-> k, cap |-> x.cap]
  BY Zenon DEF IsMap
<1> QED BY Zenon, <1>1 DEF Fields, IsMap

\* insertEntryIndex adds an entry to the table.
LEMMA InsertEntryIndexOK ==
  ASSUME NEW c \in Nat \ {0}, NEW x, IsMap(x), x.len = c, NEW D \in SUBSET Nat, NEW H \in [D -> Nat],
         NEW e \in 0..(c - 1), NEW n, NEW b, NEW d, Carries(c, H, D, e, x.idx, x.dist, n, b, d)
  PROVE  LET y == InsertEntryIndex(x, n, b, d)
         IN  Table(c, y.idx, y.dist, D, H) /\ SameEntries(x, y)
<1> DEFINE base == [idx |-> x.idx, dist |-> x.dist, n |-> n, b |-> b, d |-> d]
           F == CHOOSE f : f = [i \in 0..x.len |-> IF i = 0 THEN base ELSE Turn(x, f[i - 1])]
           G == {i \in 0..c : Walking(c, H, D, e, F[i], i)}
<1>1. F = [i \in 0..x.len |-> IF i = 0 THEN base ELSE Turn(x, F[i - 1])]
  <2>1. \E f : Rounds(f, "walk", x, base, x.len)
    BY Zenon, RoundsExist
  <2>2. \E f : f = [i \in 0..x.len |-> IF i = 0 THEN base ELSE Turn(x, f[i - 1])]
    <3> HIDE DEF base
    <3>1. PICK f : f = [i \in 0..x.len |-> IF i = 0 THEN base ELSE Step("walk", x, f[i - 1], i)]
      BY Zenon, <2>1 DEF Rounds
    <3>2. \A i \in 0..x.len : Step("walk", x, f[i - 1], i) = Turn(x, f[i - 1])
      BY Zenon, StepIs
    <3>3. \A i \in 0..x.len : f[i] = IF i = 0 THEN base ELSE Step("walk", x, f[i - 1], i)
      BY Zenon, <3>1
    <3>4. \A i \in 0..x.len : f[i] = IF i = 0 THEN base ELSE Turn(x, f[i - 1])
      BY Zenon, <3>2, <3>3
    <3>5. f = [i \in 0..x.len |-> f[i]]
      BY Zenon, <3>1
    <3> QED BY Zenon, <3>4, <3>5
  <2> QED BY Zenon, <2>2
<1> DEFINE z == F[x.len]
           y == [x EXCEPT !.idx = [z.idx EXCEPT ![z.b] = z.n], !.dist = [z.dist EXCEPT ![z.b] = z.d]]
<1>2. InsertEntryIndex(x, n, b, d) = y
  BY Zenon DEF InsertEntryIndex
<1> HIDE DEF F
<1>3. \A i \in 0..c : F[i] = IF i = 0 THEN base ELSE Turn(x, F[i - 1])
  BY Zenon, <1>1
<1>4. Walking(c, H, D, e, z, c)
  <2>1. 0 \in G
    <3>1. F[0] = State(x.idx, x.dist, n, b, d) /\ 0 \in 0..c
      <4>1. 0 \in 0..c
        OBVIOUS
      <4> QED BY Zenon, <1>3, <4>1 DEF State
    <3>2. Gap(c, b, e) + 0 <= c - 1
      <4>1. b \in 0..(c - 1)
        BY Zenon DEF Carries
      <4> QED BY <4>1 DEF Gap
    <3> QED BY Zenon, <3>1, <3>2 DEF Walking
  <2>2. ASSUME NEW i \in 1..c, i - 1 \in G PROVE i \in G
    <3>1. i \in 0..c /\ i # 0 /\ i - 1 \in Nat /\ (i - 1) + 1 = i
      OBVIOUS
    <3>2. F[i] = Turn(x, F[i - 1])
      BY Zenon, <1>3, <3>1
    <3>3. Walking(c, H, D, e, F[i - 1], i - 1)
      BY Zenon, <2>2
    <3>4. Walking(c, H, D, e, Turn(x, F[i - 1]), (i - 1) + 1)
      BY Zenon, <3>1, <3>3, TurnWalks
    <3> QED BY Zenon, <3>1, <3>2, <3>4
  <2>3. c \in 0..c /\ c \in Nat
    OBVIOUS
  <2> HIDE DEF G
  <2>4. c \in G
    BY Zenon, <2>1, <2>2, <2>3, UpTo
  <2> QED BY Zenon, <2>4 DEF G
<1> HIDE DEF z
<1>5. PICK idx, dist, k, a, o :
        /\ z = State(idx, dist, k, a, o) /\ Carries(c, H, D, e, idx, dist, k, a, o)
        /\ idx[a] = -1 \/ Gap(c, a, e) + c <= c - 1
  BY Zenon, <1>4 DEF Walking
<1>6. idx[a] = -1
  <2>1. a \in 0..(c - 1)
    BY Zenon, <1>5 DEF Carries
  <2>2. ~(Gap(c, a, e) + c <= c - 1)
    BY <2>1 DEF Gap
  <2> QED BY Zenon, <1>5, <2>2
<1>7. y = [x EXCEPT !.idx = [idx EXCEPT ![a] = k], !.dist = [dist EXCEPT ![a] = o]]
  <2>1. z.idx = idx /\ z.dist = dist /\ z.n = k /\ z.b = a /\ z.d = o
    BY <1>5 DEF State
  <2> QED BY Zenon, <2>1
<1> DEFINE i2 == [idx EXCEPT ![a] = k]
           d2 == [dist EXCEPT ![a] = o]
<1>8. Table(c, i2, d2, D, H)
  <2>1. /\ k \in D /\ a \in 0..(c - 1) /\ o \in Nat /\ Table(c, idx, dist, D \ {k}, H)
        /\ a = Home(c, H, k, o) /\ Ordered(c, idx, dist, a, o)
    BY Zenon, <1>5 DEF Carries
  <2>2. D \ {k} \in SUBSET Nat /\ k \in Nat \ (D \ {k})
    BY Zenon, <2>1
  <2>3. Table(c, i2, d2, ((D \ {k}) \cup {k}) \ {idx[a]}, H)
    BY Zenon, <1>6, <2>1, <2>2, Replaced
  <2>4. ((D \ {k}) \cup {k}) \ {idx[a]} = D
    <3>1. -1 \notin D
      OBVIOUS
    <3> QED BY Zenon, <1>6, <2>1, <3>1
  <2> QED BY Zenon, <2>3, <2>4
<1> HIDE DEF i2, d2
<1>9. y.idx = i2 /\ y.dist = d2 /\ SameEntries(x, y)
  <2>1. y = [x EXCEPT !.idx = i2, !.dist = d2]
    BY Zenon, <1>7 DEF i2, d2
  <2> HIDE DEF y
  <2>2. y = [len |-> x.len, size |-> x.size, dist |-> d2, idx |-> i2, vals |-> x.vals, cap |-> x.cap]
    BY Zenon, <2>1 DEF IsMap
  <2> QED BY <2>2 DEF SameEntries, IsMap
<1> HIDE DEF y
<1> QED BY Zenon, <1>2, <1>8, <1>9

-----------------------------------------------------------------------------
(* probeBuckets *)

\* Fewer entries than buckets leave a bucket empty.
LEMMA EmptyBucket ==
  ASSUME NEW c \in Nat \ {0}, NEW D, IsFiniteSet(D), Cardinality(D) < c, NEW H,
         NEW idx, NEW dist, Table(c, idx, dist, D, H)
  PROVE  \E e \in 0..(c - 1) : idx[e] = -1
<1>1. SUFFICES ASSUME \A e \in 0..(c - 1) : idx[e] # -1 PROVE FALSE
  BY Zenon
<1>2. idx \in [0..(c - 1) -> D]
  <2>1. idx \in [0..(c - 1) -> D \cup {-1}]
    BY Zenon DEF Table
  <2> QED BY Zenon, <1>1, <2>1
<1>3. IsFiniteSet(0..(c - 1)) /\ Cardinality(0..(c - 1)) = c
  <2>1. 0 \in Int /\ c - 1 \in Int /\ ~(0 > c - 1) /\ c - 1 - 0 + 1 = c
    OBVIOUS
  <2>2. Cardinality(0..(c - 1)) = IF 0 > c - 1 THEN 0 ELSE c - 1 - 0 + 1
    BY Zenon, <2>1, FS_Interval
  <2> QED BY Zenon, <2>1, <2>2, FS_Interval
<1>4. PICK a \in 0..(c - 1), b \in 0..(c - 1) : a # b /\ idx[a] = idx[b]
  <2> DEFINE S == 0..(c - 1)
  <2>1. idx \in [S -> D] /\ IsFiniteSet(S) /\ Cardinality(D) < Cardinality(S)
    BY Zenon, <1>2, <1>3
  <2> HIDE DEF S
  <2>2. \E a, b \in S : a # b /\ idx[a] = idx[b]
    BY <2>1, FS_PigeonHole
  <2> QED BY Zenon, <2>2 DEF S
<1> QED BY Zenon, <1>1, <1>4 DEF Table

\* Between the bucket of an entry and its own there is no empty bucket and no
\* entry nearer to its own: a probe for it does not stop before.
LEMMA Behind ==
  ASSUME NEW c \in Nat \ {0}, NEW D, NEW H, NEW idx, NEW dist, Table(c, idx, dist, D, H),
         NEW b \in 0..(c - 1), idx[b] # -1, H[idx[b]] \in Nat, NEW j \in 0..dist[b]
  PROVE  LET a == Home(c, H, idx[b], j) IN idx[a] # -1 /\ j <= dist[a]
<1> DEFINE n == idx[b]
           N == dist[b]
           A(i) == Home(c, H, n, N - i)
           G == {i \in 0..N : idx[A(i)] # -1 /\ N - i <= dist[A(i)]}
<1>1. /\ dist \in [0..(c - 1) -> Nat] /\ N \in Nat /\ b = Home(c, H, n, N)
      /\ \A a \in 0..(c - 1) : idx[a] # -1 => Ordered(c, idx, dist, a, dist[a])
  BY Zenon DEF Table
<1>2. 0 \in G
  <2> HIDE DEF n, N
  <2>1. N - 0 = N /\ 0 \in 0..N /\ N <= N
    BY <1>1
  <2>2. A(0) = b /\ dist[A(0)] = N /\ idx[A(0)] # -1
    BY Zenon, <1>1, <2>1 DEF n, N
  <2> QED BY Zenon, <2>1, <2>2
<1>3. ASSUME NEW i \in 1..N, i - 1 \in G PROVE i \in G
  <2> HIDE DEF N
  <2> DEFINE a == A(i - 1)
             p == A(i)
  <2>1. N - i \in Nat /\ N - (i - 1) = (N - i) + 1 /\ N - (i - 1) > 0 /\ i \in 0..N
    BY <1>1
  <2>2. a \in 0..(c - 1) /\ p \in 0..(c - 1) /\ a = Succ(c, p)
    <3>1. N - (i - 1) \in Nat /\ H[n] \in Nat
      BY <1>1
    <3>2. Home(c, H, n, N - (i - 1)) \in 0..(c - 1) /\ Home(c, H, n, N - i) \in 0..(c - 1)
      BY Zenon, <2>1, <3>1, HomeNext
    <3>3. Home(c, H, n, (N - i) + 1) = Succ(c, Home(c, H, n, N - i))
      BY Zenon, <2>1, <3>1, HomeNext
    <3> QED BY Zenon, <2>1, <3>2, <3>3
  <2>3. Prev(c, a) = p
    BY ZenonT(40), <2>2, Circle
  <2>4. idx[a] # -1 /\ N - (i - 1) <= dist[a]
    BY Zenon, <1>3
  <2> HIDE DEF a, p
  <2>5. dist[a] \in Nat /\ dist[p] \in Nat
    BY Zenon, <1>1, <2>2
  <2>6. dist[a] > 0
    BY <2>1, <2>4, <2>5
  <2>7. idx[p] # -1 /\ dist[a] <= dist[p] + 1
    BY Zenon, <1>1, <2>2, <2>3, <2>4, <2>6 DEF Ordered
  <2>8. N - i <= dist[p]
    BY SMTT(30), <1>1, <2>4, <2>5, <2>7
  <2> QED BY Zenon, <2>1, <2>7, <2>8 DEF p
<1>4. N - j \in 0..N /\ N - (N - j) = j
  <2> HIDE DEF N
  <2>1. j \in 0..N
    BY Zenon DEF N
  <2> QED BY <1>1, <2>1
<1>5. N - j \in G
  <2> HIDE DEF G, N
  <2> QED BY Zenon, <1>1, <1>2, <1>3, <1>4, UpTo
<1> QED BY Zenon, <1>4, <1>5

\* An entry is nearer to its own bucket than an empty bucket is.
LEMMA DistSmall ==
  ASSUME NEW c \in Nat \ {0}, NEW D, NEW H, NEW idx, NEW dist, Table(c, idx, dist, D, H),
         NEW b \in 0..(c - 1), idx[b] # -1, H[idx[b]] \in Nat,
         NEW e \in 0..(c - 1), idx[e] = -1
  PROVE  dist[b] \in 0..(c - 1)
<1> DEFINE j == Gap(c, H[idx[b]] % c, e)
<1>1. j \in 0..(c - 1) /\ Home(c, H, idx[b], j) = e
  BY Zenon, Reached DEF Home
<1>2. dist[b] \in Nat
  BY Zenon DEF Table
<1> HIDE DEF j
<1>3. j \notin 0..dist[b]
  BY Zenon, <1>1, Behind
<1> QED BY <1>1, <1>2, <1>3

\* What probeBuckets answers: a bucket with the key, or the place where an
\* entry with the hash h belongs.
ProbeResult(x, h, k, p) ==
  /\ p.bucket \in 0..(x.len - 1) /\ p.dist \in Nat /\ p.found \in BOOLEAN
  /\ p.bucket = (h + p.dist) % x.len /\ Ordered(x.len, x.idx, x.dist, p.bucket, p.dist)
  /\ p.found => Holds(x, p.bucket, h, k)
  /\ ~p.found => \A b \in 0..(x.len - 1) : ~Holds(x, b, h, k)

\* The table of the buckets of a map knows the hashes of the entries.
Indexed(x, D, H) ==
  /\ D \in SUBSET Nat /\ H \in [D -> Nat]
  /\ \A n \in D : H[n] = x.vals[n + 1].hash
  /\ Table(x.len, x.idx, x.dist, D, H)

\* probeBuckets stops, and finds the key exactly when some bucket holds it.
LEMMA ProbeOK ==
  ASSUME NEW x, x.len \in Nat \ {0}, NEW D, NEW H, Indexed(x, D, H),
         NEW e \in 0..(x.len - 1), x.idx[e] = -1, NEW h \in Nat, NEW k
  PROVE  ProbeResult(x, h, k, Probe(x, h, k))
<1> DEFINE c == x.len
           at(d) == BucketIndex(x, h + d)
           S == {d \in 0..c : \/ x.idx[at(d)] = -1 \/ d > x.dist[at(d)] \/ Holds(x, at(d), h, k)}
           l == Min(S)
           q == at(l)
           p == Probe(x, h, k)
<1>1. p = [bucket |-> q, dist |-> l, found |-> x.idx[q] > -1 /\ ~(l > x.dist[q])]
  BY Zenon DEF Probe
<1>2. \A d \in Nat : at(d) \in 0..(c - 1) /\ at(d + 1) = Succ(c, at(d)) /\ at(d) = (h + d) % c
  <2> SUFFICES ASSUME NEW d \in Nat
               PROVE  at(d) \in 0..(c - 1) /\ at(d + 1) = Succ(c, at(d)) /\ at(d) = (h + d) % c
    BY Zenon
  <2>1. h + d \in Nat /\ h + (d + 1) = (h + d) + 1
    OBVIOUS
  <2> QED BY Zenon, <2>1, ModBucket, ModNext DEF BucketIndex
<1>3. /\ x.idx \in [0..(c - 1) -> D \cup {-1}] /\ x.dist \in [0..(c - 1) -> Nat]
      /\ D \in SUBSET Nat /\ H \in [D -> Nat] /\ \A n \in D : H[n] = x.vals[n + 1].hash
      /\ Table(c, x.idx, x.dist, D, H)
  BY Zenon DEF Table, Indexed
<1>4. S # {} /\ S \in SUBSET Nat
  <2> DEFINE j == Gap(c, h % c, e)
  <2>1. j \in 0..(c - 1) /\ at(j) = e
    BY Zenon, Reached DEF BucketIndex
  <2> HIDE DEF j
  <2>2. j \in 0..c
    BY <2>1
  <2>3. \A d \in 0..c : d \in Nat
    OBVIOUS
  <2> QED BY Zenon, <2>1, <2>2, <2>3
<1>5. l \in S /\ \A d \in S : l <= d
  <2> HIDE DEF S
  <2> QED BY Zenon, <1>4, MinIsLeast
<1> HIDE DEF l
<1>6. /\ l \in 0..c /\ l \in Nat
      /\ x.idx[q] = -1 \/ l > x.dist[q] \/ Holds(x, q, h, k)
      /\ \A d \in 0..c : d < l => x.idx[at(d)] # -1 /\ ~(d > x.dist[at(d)]) /\ ~Holds(x, at(d), h, k)
  <2>1. \A d \in 0..c : d < l => d \notin S
    <3>1. l \in Nat
      BY Zenon, <1>4, <1>5
    <3> HIDE DEF S
    <3> QED BY <1>5, <3>1
  <2>2. l \in Nat
    BY Zenon, <1>4, <1>5
  <2> QED BY Zenon, <1>5, <2>1, <2>2
<1>7. q \in 0..(c - 1) /\ q = (h + l) % c /\ x.dist[q] \in Nat /\ x.idx[q] \in D \cup {-1}
  BY Zenon, <1>2, <1>3, <1>6
<1> HIDE DEF S
<1>8. Ordered(c, x.idx, x.dist, q, l)
  <2>1. SUFFICES ASSUME l > 0 PROVE x.idx[Prev(c, q)] # -1 /\ l <= x.dist[Prev(c, q)] + 1
    BY Zenon DEF Ordered
  <2>2. l - 1 \in Nat /\ l - 1 \in 0..c /\ l - 1 < l /\ (l - 1) + 1 = l
    BY <1>6, <2>1
  <2>3. at(l - 1) \in 0..(c - 1) /\ q = Succ(c, at(l - 1))
    BY Zenon, <1>2, <2>2
  <2>4. Prev(c, q) = at(l - 1)
    BY ZenonT(40), <2>3, Circle
  <2>5. x.idx[at(l - 1)] # -1 /\ ~(l - 1 > x.dist[at(l - 1)]) /\ x.dist[at(l - 1)] \in Nat
    BY Zenon, <1>3, <1>6, <2>2, <2>3
  <2> DEFINE o == x.dist[at(l - 1)]
  <2>6. l <= o + 1
    <3>1. o \in Nat /\ ~(l - 1 > o)
      BY Zenon, <2>5
    <3> HIDE DEF o
    <3> QED BY <1>6, <3>1
  <2> QED BY Zenon, <2>4, <2>5, <2>6
<1> DEFINE f == x.idx[q] > -1 /\ ~(l > x.dist[q])
<1>9. f => Holds(x, q, h, k)
  <2>1. x.idx[q] > -1 => x.idx[q] # -1
    BY <1>3, <1>7
  <2> QED BY Zenon, <1>6, <2>1
<1>10. ASSUME NEW b \in 0..(c - 1), Holds(x, b, h, k) PROVE f
  <2> DEFINE n == x.idx[b]
             N == x.dist[b]
  <2>1. n > -1 /\ x.vals[n + 1].hash = h
    BY Zenon, <1>10 DEF Holds
  <2>2. n \in D /\ n # -1 /\ N \in Nat /\ H[n] = h
    <3>1. n \in D \cup {-1} /\ N \in Nat
      BY Zenon, <1>3
    <3>2. n # -1
      BY <2>1
    <3> QED BY Zenon, <1>3, <2>1, <3>1, <3>2
  <2>3. b = (h + N) % c /\ N \in 0..(c - 1)
    <3>1. b = Home(c, H, n, N)
      BY Zenon, <1>3, <2>2 DEF Table
    <3>2. H[n] \in Nat
      BY Zenon, <2>2
    <3>3. N \in 0..(c - 1)
      <4> DEFINE idx == x.idx
                 dist == x.dist
      <4>1. Table(c, idx, dist, D, H) /\ idx[b] # -1 /\ H[idx[b]] \in Nat /\ idx[e] = -1
        BY Zenon, <1>3, <2>2, <3>2
      <4> HIDE DEF idx, dist, c
      <4>2. dist[b] \in 0..(c - 1)
        BY Zenon, <4>1, DistSmall DEF c
      <4> QED BY Zenon, <4>2 DEF dist, c
    <3> QED BY Zenon, <2>2, <3>1, <3>3 DEF Home
  <2>4. N \in S
    <3>1. N \in 0..c
      BY <2>3
    <3>2. at(N) = b
      BY Zenon, <2>3 DEF BucketIndex
    <3> QED BY Zenon, <1>10, <3>1, <3>2 DEF S
  <2>5. l \in 0..N
    <3>1. l <= N
      BY Zenon, <1>5, <2>4
    <3> HIDE DEF N
    <3> QED BY <1>6, <2>2, <3>1
  <2>6. x.idx[q] # -1 /\ l <= x.dist[q]
    <3>1. Home(c, H, n, l) = q
      BY Zenon, <1>7, <2>2 DEF Home
    <3>2. H[n] \in Nat
      BY Zenon, <2>2
    <3> DEFINE idx == x.idx
               dist == x.dist
    <3>3. /\ Table(c, idx, dist, D, H) /\ idx[b] # -1 /\ H[idx[b]] \in Nat /\ l \in 0..dist[b]
          /\ Home(c, H, idx[b], l) = q
      BY Zenon, <1>3, <2>2, <2>5, <3>1, <3>2
    <3> HIDE DEF idx, dist, c, q
    <3>4. LET a == Home(c, H, idx[b], l) IN idx[a] # -1 /\ l <= dist[a]
      BY Zenon, <3>3, Behind DEF c
    <3>5. idx[q] # -1 /\ l <= dist[q]
      BY Zenon, <3>3, <3>4
    <3> QED BY Zenon, <3>5 DEF idx, dist
  <2>7. x.idx[q] > -1 /\ ~(l > x.dist[q])
    <3> DEFINE i == x.idx[q]
               o == x.dist[q]
    <3>1. i \in D /\ D \in SUBSET Nat /\ l <= o /\ o \in Nat
      BY Zenon, <1>3, <1>7, <2>6
    <3> HIDE DEF i, o
    <3>2. i > -1 /\ ~(l > o)
      BY <1>6, <3>1
    <3> QED BY Zenon, <3>2 DEF i, o
  <2> QED BY Zenon, <2>7
<1>11. p = [bucket |-> q, dist |-> l, found |-> f] /\ f \in BOOLEAN
  BY Zenon, <1>1
<1> HIDE DEF p, q, f
<1>12. p.bucket = q /\ p.dist = l /\ p.found = f
  BY <1>11
<1> QED BY Zenon, <1>6, <1>7, <1>8, <1>9, <1>10, <1>11, <1>12 DEF ProbeResult, p

-----------------------------------------------------------------------------
(* remove *)

\* How far behind b the buckets behind and before a are.
LEMMA GapNext ==
  ASSUME NEW c \in Nat \ {0}, NEW b \in 0..(c - 1), NEW a \in 0..(c - 1)
  PROVE  /\ Gap(c, b, a) \in 0..(c - 1) /\ (Gap(c, b, a) = 0 => a = b) /\ Gap(c, b, b) = 0
         /\ Gap(c, b, a) # c - 1 => Gap(c, b, Succ(c, a)) = Gap(c, b, a) + 1
         /\ Gap(c, b, a) # 0 => Gap(c, b, Prev(c, a)) = Gap(c, b, a) - 1
         /\ Gap(c, b, Prev(c, b)) = c - 1
<1>1. Gap(c, b, a) \in 0..(c - 1) /\ (Gap(c, b, a) = 0 => a = b) /\ Gap(c, b, b) = 0
  BY DEF Gap
<1>2. Gap(c, b, a) # c - 1 => Gap(c, b, Succ(c, a)) = Gap(c, b, a) + 1
  BY DEF Gap, Succ
<1>3. Gap(c, b, a) # 0 => Gap(c, b, Prev(c, a)) = Gap(c, b, a) - 1
  BY DEF Gap, Prev
<1>4. Gap(c, b, Prev(c, b)) = c - 1
  BY DEF Gap, Prev
<1> QED BY Zenon, <1>1, <1>2, <1>3, <1>4

\* The entries from b up to run buckets behind it are behind their own bucket,
\* the entry there is not.
IsRun(c, idx, dist, b, run) ==
  /\ run \in 1..(c - 1)
  /\ \A a \in 0..(c - 1) : 0 < Gap(c, b, a) /\ Gap(c, b, a) < run => idx[a] # -1 /\ dist[a] > 0
  /\ \A a \in 0..(c - 1) : Gap(c, b, a) = run => idx[a] = -1 \/ dist[a] = 0

\* What the loop of remove leaves in bucket a.
Kept(c, b, run, f, none, o) ==
  [a \in 0..(c - 1) |-> IF Gap(c, b, a) < run - 1 THEN f[Succ(c, a)] - o
                        ELSE IF Gap(c, b, a) = run - 1 THEN none ELSE f[a]]

\* Moving a run back by one bucket takes the entry of bucket b out of a table.
LEMMA ShiftedBack ==
  ASSUME NEW c \in Nat \ {0}, NEW D \in SUBSET Nat, NEW H \in [D -> Nat], NEW idx, NEW dist,
         Table(c, idx, dist, D, H), NEW b \in 0..(c - 1), idx[b] # -1,
         NEW run, IsRun(c, idx, dist, b, run)
  PROVE  Table(c, Kept(c, b, run, idx, -1, 0), Kept(c, b, run, dist, 0, 1), D \ {idx[b]}, H)
<1> DEFINE B == 0..(c - 1)
           g(a) == Gap(c, b, a)
           i2 == Kept(c, b, run, idx, -1, 0)
           d2 == Kept(c, b, run, dist, 0, 1)
           D2 == D \ {idx[b]}
<1>1. /\ idx \in [B -> D \cup {-1}] /\ dist \in [B -> Nat]
      /\ \A n \in D : \E a \in B : idx[a] = n
      /\ \A a, e \in B : idx[a] = idx[e] /\ idx[a] # -1 => a = e
      /\ \A a \in B : idx[a] # -1 => a = Home(c, H, idx[a], dist[a])
      /\ \A a \in B : idx[a] # -1 => Ordered(c, idx, dist, a, dist[a])
  BY Zenon DEF Table
<1>2. /\ run \in 1..(c - 1)
      /\ \A a \in B : 0 < g(a) /\ g(a) < run => idx[a] # -1 /\ dist[a] > 0
      /\ \A a \in B : g(a) = run => idx[a] = -1 \/ dist[a] = 0
  BY Zenon DEF IsRun
<1>3. ASSUME NEW a \in B
      PROVE  /\ g(a) \in 0..(c - 1) /\ (g(a) = 0 => a = b)
             /\ g(a) # c - 1 => g(Succ(c, a)) = g(a) + 1
             /\ g(a) # 0 => g(Prev(c, a)) = g(a) - 1
             /\ Succ(c, a) \in B /\ Prev(c, a) \in B /\ Prev(c, Succ(c, a)) = a
             /\ Succ(c, Prev(c, a)) = a
  BY ZenonT(40), GapNext, Circle
<1>4. ASSUME NEW a \in B, g(a) < run - 1
      PROVE  /\ i2[a] = idx[Succ(c, a)] /\ d2[a] = dist[Succ(c, a)] - 1 /\ d2[a] \in Nat
             /\ idx[Succ(c, a)] # -1 /\ dist[Succ(c, a)] > 0 /\ Succ(c, a) # b /\ i2[a] # -1
  <2> DEFINE s == Succ(c, a)
  <2>1. s \in B /\ 0 < g(s) /\ g(s) < run /\ s # b
    <3>1. s \in B /\ (g(a) # c - 1 => g(s) = g(a) + 1) /\ g(a) \in 0..(c - 1) /\ g(b) = 0
      BY Zenon, <1>3, GapNext
    <3> DEFINE u == g(a)
               v == g(s)
               w == g(b)
    <3>2. u # c - 1 => v = u + 1
      BY Zenon, <3>1
    <3>3. u \in 0..(c - 1) /\ u < run - 1 /\ run \in 1..(c - 1)
      BY Zenon, <1>2, <1>4, <3>1
    <3> HIDE DEF u, v, w
    <3>4. 0 < v /\ v < run /\ v # 0
      BY <3>2, <3>3
    <3> QED BY Zenon, <3>1, <3>4 DEF v
  <2>2. idx[s] # -1 /\ dist[s] > 0 /\ dist[s] \in Nat /\ idx[s] \in D \cup {-1}
    BY Zenon, <1>1, <1>2, <2>1
  <2>3. i2[a] = idx[s] - 0 /\ d2[a] = dist[s] - 1
    BY Zenon, <1>4 DEF Kept
  <2> HIDE DEF s, i2, d2
  <2>4. idx[s] \in Int
    <3>1. -1 \in Int /\ \A n \in D : n \in Int
      OBVIOUS
    <3> QED BY Zenon, <2>2, <3>1
  <2>5. i2[a] = idx[s] /\ d2[a] \in Nat
    BY <2>2, <2>3, <2>4
  <2> QED BY Zenon, <2>1, <2>2, <2>3, <2>5 DEF s
<1>5. ASSUME NEW a \in B, g(a) = run - 1 PROVE i2[a] = -1 /\ d2[a] = 0
  <2>1. ~(g(a) < run - 1)
    BY <1>2, <1>5
  <2> QED BY Zenon, <1>5, <2>1 DEF Kept
<1>6. ASSUME NEW a \in B, g(a) >= run
      PROVE  i2[a] = idx[a] /\ d2[a] = dist[a] /\ a # b /\ d2[a] \in Nat /\ idx[a] \in D \cup {-1}
  <2>1. ~(g(a) < run - 1) /\ ~(g(a) = run - 1) /\ g(a) # 0
    BY <1>2, <1>3, <1>6
  <2>2. g(b) = 0
    BY Zenon, GapNext
  <2>3. a # b
    BY Zenon, <2>1, <2>2
  <2> QED BY Zenon, <1>1, <2>1, <2>3 DEF Kept
<1>7. ASSUME NEW a \in B PROVE g(a) < run - 1 \/ g(a) = run - 1 \/ g(a) >= run
  <2>1. g(a) \in 0..(c - 1)
    BY Zenon, <1>3
  <2> DEFINE u == g(a)
  <2> HIDE DEF u
  <2>2. u \in 0..(c - 1)
    BY Zenon, <2>1 DEF u
  <2>3. u < run - 1 \/ u = run - 1 \/ u >= run
    BY <1>2, <2>2
  <2> QED BY Zenon, <2>3 DEF u
<1> HIDE DEF i2, d2
<1>8. i2 \in [B -> D2 \cup {-1}] /\ d2 \in [B -> Nat]
  <2>1. ASSUME NEW a \in B PROVE i2[a] \in D2 \cup {-1} /\ d2[a] \in Nat
    <3>1. CASE g(a) < run - 1
      <4>1. /\ i2[a] = idx[Succ(c, a)] /\ d2[a] \in Nat /\ idx[Succ(c, a)] # -1
            /\ Succ(c, a) # b /\ Succ(c, a) \in B
        BY Zenon, <1>3, <1>4, <3>1
      <4>2. idx[Succ(c, a)] \in D \cup {-1} /\ idx[Succ(c, a)] # idx[b]
        BY Zenon, <1>1, <4>1
      <4> QED BY Zenon, <4>1, <4>2
    <3>2. CASE g(a) = run - 1
      BY <1>5, <3>2
    <3>3. CASE g(a) >= run
      <4>1. i2[a] = idx[a] /\ d2[a] \in Nat /\ a # b /\ idx[a] \in D \cup {-1}
        BY Zenon, <1>6, <3>3
      <4>2. idx[a] # idx[b]
        BY Zenon, <1>1, <4>1
      <4> QED BY Zenon, <4>1, <4>2
    <3> QED BY Zenon, <1>7, <3>1, <3>2, <3>3
  <2>2. i2 = [a \in B |-> i2[a]] /\ d2 = [a \in B |-> d2[a]]
    BY Zenon DEF i2, d2, Kept
  <2> QED BY Zenon, <2>1, <2>2
<1>9. ASSUME NEW n \in D2 PROVE \E a \in B : i2[a] = n
  <2>1. PICK a \in B : idx[a] = n
    BY Zenon, <1>1
  <2>2. a # b
    BY Zenon, <2>1
  <2>3. CASE g(a) >= run
    BY Zenon, <1>6, <2>1, <2>3
  <2>4. CASE ~(g(a) >= run)
    <3> DEFINE p == Prev(c, a)
    <3>1. p \in B /\ Succ(c, p) = a /\ g(a) \in 0..(c - 1) /\ g(a) # 0 /\ g(p) = g(a) - 1
      BY Zenon, <1>3, <2>2
    <3>2. g(p) < run - 1
      <4> DEFINE u == g(a)
                 v == g(p)
      <4>1. u \in 0..(c - 1) /\ v = u - 1 /\ ~(u >= run)
        BY Zenon, <2>4, <3>1
      <4> HIDE DEF u, v
      <4>2. v < run - 1
        BY <1>2, <4>1
      <4> QED BY Zenon, <4>2 DEF v
    <3> QED BY Zenon, <1>4, <2>1, <3>1, <3>2
  <2> QED BY Zenon, <2>3, <2>4
<1>10. ASSUME NEW a \in B, NEW e \in B, i2[a] = i2[e], i2[a] # -1 PROVE a = e
  <2>1. ASSUME NEW z \in B, i2[z] # -1
        PROVE  \/ g(z) < run - 1 /\ i2[z] = idx[Succ(c, z)] /\ Succ(c, z) \in B
               \/ g(z) >= run /\ i2[z] = idx[z]
    BY Zenon, <1>3, <1>4, <1>5, <1>6, <1>7, <2>1
  <2>2. ASSUME NEW u \in B, NEW v \in B, g(u) < run - 1, g(v) >= run, Succ(c, u) = v PROVE FALSE
    <3>1. g(u) \in 0..(c - 1) /\ (g(u) # c - 1 => g(v) = g(u) + 1)
      BY Zenon, <1>3, <2>2
    <3> DEFINE i == g(u)
               j == g(v)
    <3>2. i \in 0..(c - 1) /\ (i # c - 1 => j = i + 1) /\ i < run - 1 /\ j >= run
      BY Zenon, <2>2, <3>1
    <3> HIDE DEF i, j
    <3> QED BY <1>2, <3>2
  <2>3. CASE g(a) < run - 1 /\ i2[a] = idx[Succ(c, a)] /\ Succ(c, a) \in B
    <3>1. CASE g(e) < run - 1 /\ i2[e] = idx[Succ(c, e)] /\ Succ(c, e) \in B
      <4>1. Succ(c, a) = Succ(c, e)
        BY Zenon, <1>1, <1>10, <2>3, <3>1
      <4> QED BY Zenon, <1>3, <4>1
    <3>2. CASE g(e) >= run /\ i2[e] = idx[e]
      <4>1. Succ(c, a) = e
        BY Zenon, <1>1, <1>10, <2>3, <3>2
      <4> QED BY Zenon, <2>2, <2>3, <3>2, <4>1
    <3> QED BY Zenon, <1>10, <2>1, <3>1, <3>2
  <2>4. CASE g(a) >= run /\ i2[a] = idx[a]
    <3>1. CASE g(e) < run - 1 /\ i2[e] = idx[Succ(c, e)] /\ Succ(c, e) \in B
      <4>1. Succ(c, e) = a
        BY Zenon, <1>1, <1>10, <2>4, <3>1
      <4> QED BY Zenon, <2>2, <2>4, <3>1, <4>1
    <3>2. CASE g(e) >= run /\ i2[e] = idx[e]
      BY Zenon, <1>1, <1>10, <2>4, <3>2
    <3> QED BY Zenon, <1>10, <2>1, <3>1, <3>2
  <2> QED BY Zenon, <1>10, <2>1, <2>3, <2>4
<1>11. ASSUME NEW a \in B, i2[a] # -1 PROVE a = Home(c, H, i2[a], d2[a])
  <2>1. CASE g(a) < run - 1
    <3> DEFINE s == Succ(c, a)
               n == idx[s]
    <3>1. /\ i2[a] = n /\ d2[a] = dist[s] - 1 /\ d2[a] \in Nat /\ n # -1 /\ s \in B
          /\ Prev(c, s) = a
      BY Zenon, <1>3, <1>4, <2>1
    <3>2. n \in D /\ dist[s] \in Nat /\ H[n] \in Nat /\ s = Home(c, H, n, dist[s])
      <4>1. n \in D \cup {-1} /\ dist[s] \in Nat /\ s = Home(c, H, n, dist[s])
        BY Zenon, <1>1, <3>1
      <4> QED BY Zenon, <3>1, <4>1
    <3>3. d2[a] + 1 = dist[s]
      <4> HIDE DEF s
      <4> QED BY <3>1, <3>2
    <3>4. Home(c, H, n, d2[a]) \in B /\ Home(c, H, n, d2[a] + 1) = Succ(c, Home(c, H, n, d2[a]))
      BY ZenonT(40), <3>1, <3>2, HomeNext
    <3> DEFINE h == Home(c, H, n, d2[a])
    <3>5. s = Succ(c, h) /\ h \in B
      BY Zenon, <3>2, <3>3, <3>4
    <3> HIDE DEF h
    <3>6. Prev(c, s) = h
      BY Zenon, <3>5, Circle
    <3> QED BY Zenon, <3>1, <3>6 DEF h
  <2>2. CASE g(a) = run - 1
    BY Zenon, <1>5, <1>11, <2>2
  <2>3. CASE g(a) >= run
    <3>1. i2[a] = idx[a] /\ d2[a] = dist[a]
      BY Zenon, <1>6, <2>3
    <3> QED BY Zenon, <1>1, <1>11, <3>1
  <2> QED BY Zenon, <1>7, <2>1, <2>2, <2>3
<1>12. ASSUME NEW a \in B, i2[a] # -1 PROVE Ordered(c, i2, d2, a, d2[a])
  <2> DEFINE p == Prev(c, a)
  <2>1. SUFFICES ASSUME d2[a] > 0 PROVE i2[p] # -1 /\ d2[a] <= d2[p] + 1
    BY Zenon DEF Ordered
  <2>2. p \in B /\ Succ(c, p) = a /\ g(a) \in 0..(c - 1) /\ (g(a) # 0 => g(p) = g(a) - 1) /\ dist[a] \in Nat
    BY Zenon, <1>1, <1>3
  <2>3. CASE g(a) < run - 1
    <3> DEFINE s == Succ(c, a)
    <3>1. /\ s \in B /\ Prev(c, s) = a /\ d2[a] = dist[s] - 1 /\ idx[s] # -1 /\ dist[s] > 0
          /\ dist[s] \in Nat
      BY ZenonT(40), <1>1, <1>3, <1>4, <2>3
    <3>2. idx[a] # -1 /\ dist[s] <= dist[a] + 1
      BY Zenon, <1>1, <3>1 DEF Ordered
    <3>3. d2[a] <= dist[a]
      <4> HIDE DEF s
      <4> QED BY <2>2, <3>1, <3>2
    <3>4. CASE g(a) = 0
      <4>1. a = b /\ g(p) = c - 1
        <5>1. Gap(c, b, Prev(c, b)) = c - 1
          BY Zenon, GapNext
        <5> QED BY Zenon, <1>3, <3>4, <5>1
      <4>2. g(p) >= run
        BY <1>2, <4>1
      <4>3. i2[p] = idx[p] /\ d2[p] = dist[p]
        BY Zenon, <1>6, <2>2, <4>2
      <4>4. dist[a] > 0
        BY <2>1, <2>2, <3>1, <3>3
      <4>5. idx[p] # -1 /\ dist[a] <= dist[p] + 1
        BY Zenon, <1>1, <3>2, <4>4 DEF Ordered
      <4>6. dist[p] \in Nat
        BY Zenon, <1>1, <2>2
      <4> DEFINE q == d2[a]
                 r == dist[a]
                 t == dist[p]
      <4>7. r \in Nat /\ t \in Nat /\ q <= r /\ r <= t + 1 /\ q \in Nat
        BY Zenon, <1>4, <2>2, <2>3, <3>3, <4>5, <4>6
      <4> HIDE DEF q, r, t
      <4>8. q <= t + 1
        BY <4>7
      <4> QED BY Zenon, <4>3, <4>5, <4>8 DEF q, t
    <3>5. CASE g(a) # 0
      <4>1. g(p) < run - 1
        <5> DEFINE u == g(a)
                   v == g(p)
        <5>1. u \in 0..(c - 1) /\ v = u - 1 /\ u < run - 1
          BY Zenon, <2>2, <2>3, <3>5
        <5> HIDE DEF u, v
        <5>2. v < run - 1
          BY <1>2, <5>1
        <5> QED BY Zenon, <5>2 DEF v
      <4>2. i2[p] # -1 /\ d2[p] = dist[a] - 1
        BY Zenon, <1>4, <2>2, <4>1
      <4>3. d2[a] <= d2[p] + 1
        <5> DEFINE q == d2[a]
                   r == dist[a]
                   t == d2[p]
        <5>1. r \in Nat /\ q <= r /\ t = r - 1 /\ q \in Nat
          BY Zenon, <1>4, <2>2, <2>3, <3>3, <4>2
        <5> HIDE DEF q, r, t
        <5>2. q <= t + 1
          BY <5>1
        <5> QED BY Zenon, <5>2 DEF q, t
      <4> QED BY Zenon, <4>2, <4>3
    <3> QED BY Zenon, <3>4, <3>5
  <2>4. CASE g(a) = run - 1
    BY Zenon, <1>5, <1>12, <2>4
  <2>5. CASE g(a) >= run
    <3>1. i2[a] = idx[a] /\ d2[a] = dist[a] /\ idx[a] # -1 /\ dist[a] > 0
      BY Zenon, <1>6, <1>12, <2>1, <2>5
    <3>2. dist[a] # 0 /\ g(a) # run
      <4>1. dist[a] # 0
        BY <2>2, <3>1
      <4> QED BY Zenon, <1>2, <3>1, <4>1
    <3>3. g(p) >= run
      <4> DEFINE u == g(a)
                 v == g(p)
      <4>1. u \in 0..(c - 1) /\ (u # 0 => v = u - 1) /\ u >= run /\ u # run
        BY Zenon, <2>2, <2>5, <3>2
      <4> HIDE DEF u, v
      <4>2. v >= run
        BY <1>2, <4>1
      <4> QED BY Zenon, <4>2 DEF v
    <3>4. i2[p] = idx[p] /\ d2[p] = dist[p]
      BY Zenon, <1>6, <2>2, <3>3
    <3>5. idx[p] # -1 /\ dist[a] <= dist[p] + 1
      BY Zenon, <1>1, <3>1 DEF Ordered
    <3> QED BY Zenon, <3>1, <3>4, <3>5
  <2> QED BY Zenon, <1>7, <2>3, <2>4, <2>5
<1> HIDE DEF D2
<1>13. Table(c, i2, d2, D2, H)
  BY Zenon, <1>8, <1>9, <1>10, <1>11, <1>12 DEF Table
<1> QED BY Zenon, <1>13 DEF i2, d2, D2

\* The loop of remove takes the entry of bucket b out of the table.
LEMMA VacateOK ==
  ASSUME NEW c \in Nat \ {0}, NEW x, IsMap(x), x.len = c, NEW D \in SUBSET Nat, NEW H \in [D -> Nat],
         Table(c, x.idx, x.dist, D, H), NEW b \in 0..(c - 1), x.idx[b] # -1,
         NEW e \in 0..(c - 1), x.idx[e] = -1
  PROVE  LET y == Vacate(x, b)
         IN  Table(c, y.idx, y.dist, D \ {x.idx[b]}, H) /\ SameEntries(x, y)
<1> DEFINE B == 0..(c - 1)
           at(d) == BucketIndex(x, b + d)
           S == {d \in 1..x.len : x.idx[at(d)] = -1 \/ x.dist[at(d)] = 0}
           run == Min(S)
           off(a) == BucketIndex(x, a + x.len - b)
           i2 == [a \in DOMAIN x.idx |-> IF off(a) < run - 1 THEN x.idx[BucketIndex(x, a + 1)]
                                         ELSE IF off(a) = run - 1 THEN -1 ELSE x.idx[a]]
           d2 == [a \in DOMAIN x.dist |-> IF off(a) < run - 1 THEN x.dist[BucketIndex(x, a + 1)] - 1
                                          ELSE IF off(a) = run - 1 THEN 0 ELSE x.dist[a]]
           y == Vacate(x, b)
<1>1. y = [x EXCEPT !.idx = i2, !.dist = d2]
  BY Zenon DEF Vacate
<1>2. x.idx \in [B -> D \cup {-1}] /\ x.dist \in [B -> Nat]
  BY Zenon DEF Table
<1>3. ASSUME NEW a \in B
      PROVE  /\ off(a) = Gap(c, b, a) /\ BucketIndex(x, a + 1) = Succ(c, a) /\ Succ(c, a) \in B
             /\ Gap(c, b, a) \in B /\ at(Gap(c, b, a)) = a
  <2>1. off(a) = Gap(c, b, a) /\ BucketIndex(x, a + 1) = Succ(c, a) /\ Succ(c, a) \in B
    BY ZenonT(40), ModBuckets, Circle DEF BucketIndex
  <2>2. b \in Nat /\ b % c = b
    BY ModSmall
  <2>3. Gap(c, b % c, a) \in B /\ (b + Gap(c, b % c, a)) % c = a
    BY ZenonT(40), <2>2, Reached
  <2> QED BY Zenon, <2>1, <2>2, <2>3 DEF BucketIndex
<1>4. S # {} /\ S \in SUBSET Nat /\ Gap(c, b, e) \in S /\ Gap(c, b, e) \in B
  <2> DEFINE j == Gap(c, b, e)
  <2>0. b # e
    BY Zenon
  <2>1. j \in B /\ at(j) = e /\ j # 0
    <3>1. j \in B /\ at(j) = e
      BY Zenon, <1>3
    <3>2. j = 0 => e = b
      BY ZenonT(40), GapNext
    <3> QED BY Zenon, <2>0, <3>1, <3>2
  <2>2. j \in 1..x.len
    <3> HIDE DEF j
    <3> QED BY <2>1
  <2>3. \A d \in 1..x.len : d \in Nat
    OBVIOUS
  <2> QED BY Zenon, <2>1, <2>2, <2>3
<1>5. run \in S /\ \A d \in S : run <= d
  <2> HIDE DEF S
  <2> QED BY Zenon, <1>4, MinIsLeast
<1> HIDE DEF run
<1>6. IsRun(c, x.idx, x.dist, b, run)
  <2>1. run \in 1..(c - 1)
    <3>1. run \in 1..c /\ run <= Gap(c, b, e) /\ Gap(c, b, e) \in B
      BY Zenon, <1>4, <1>5
    <3> DEFINE j == Gap(c, b, e)
    <3> HIDE DEF j
    <3>2. run \in 1..c /\ run <= j /\ j \in B
      BY Zenon, <3>1 DEF j
    <3> QED BY <3>2
  <2>2. ASSUME NEW a \in B, 0 < Gap(c, b, a), Gap(c, b, a) < run
        PROVE  x.idx[a] # -1 /\ x.dist[a] > 0
    <3> DEFINE j == Gap(c, b, a)
    <3>1. j \in B /\ at(j) = a /\ 0 < j /\ j < run
      BY Zenon, <1>3, <2>2
    <3>2. j \in 1..x.len /\ ~(run <= j)
      <4> HIDE DEF j
      <4> QED BY <2>1, <3>1
    <3>3. j \notin S
      BY Zenon, <1>5, <3>2
    <3>4. x.idx[a] # -1 /\ x.dist[a] # 0 /\ x.dist[a] \in Nat
      BY Zenon, <1>2, <3>1, <3>2, <3>3
    <3> QED BY <3>4
  <2>3. ASSUME NEW a \in B, Gap(c, b, a) = run PROVE x.idx[a] = -1 \/ x.dist[a] = 0
    <3>1. at(run) = a
      BY Zenon, <1>3, <2>3
    <3>2. x.idx[at(run)] = -1 \/ x.dist[at(run)] = 0
      BY Zenon, <1>5
    <3> QED BY Zenon, <3>1, <3>2
  <2> HIDE DEF S
  <2> QED BY Zenon, <2>1, <2>2, <2>3 DEF IsRun
<1>7. i2 = Kept(c, b, run, x.idx, -1, 0) /\ d2 = Kept(c, b, run, x.dist, 0, 1)
  <2> HIDE DEF S
  <2>1. ASSUME NEW a \in B
        PROVE  /\ i2[a] = IF Gap(c, b, a) < run - 1 THEN x.idx[Succ(c, a)] - 0
                          ELSE IF Gap(c, b, a) = run - 1 THEN -1 ELSE x.idx[a]
               /\ d2[a] = IF Gap(c, b, a) < run - 1 THEN x.dist[Succ(c, a)] - 1
                          ELSE IF Gap(c, b, a) = run - 1 THEN 0 ELSE x.dist[a]
    <3>1. x.idx[Succ(c, a)] \in D \cup {-1}
      BY Zenon, <1>2, <1>3
    <3>2. x.idx[Succ(c, a)] - 0 = x.idx[Succ(c, a)]
      <4>1. -1 \in Int /\ \A n \in D : n \in Int
        OBVIOUS
      <4>2. x.idx[Succ(c, a)] \in Int
        BY Zenon, <3>1, <4>1
      <4> QED BY <4>2
    <3>3. DOMAIN x.idx = B /\ DOMAIN x.dist = B
      BY Zenon, <1>2
    <3>4. /\ i2[a] = IF off(a) < run - 1 THEN x.idx[BucketIndex(x, a + 1)]
                     ELSE IF off(a) = run - 1 THEN -1 ELSE x.idx[a]
          /\ d2[a] = IF off(a) < run - 1 THEN x.dist[BucketIndex(x, a + 1)] - 1
                     ELSE IF off(a) = run - 1 THEN 0 ELSE x.dist[a]
      BY Zenon, <3>3
    <3> HIDE DEF i2, d2
    <3> QED BY Zenon, <1>3, <3>2, <3>4
  <2>2. i2 = [a \in B |-> i2[a]] /\ d2 = [a \in B |-> d2[a]]
    <3>1. DOMAIN x.idx = B /\ DOMAIN x.dist = B
      BY Zenon, <1>2
    <3> QED BY Zenon, <3>1
  <2> HIDE DEF i2, d2
  <2> QED BY Zenon, <2>1, <2>2 DEF Kept
<1> HIDE DEF y, i2, d2
<1>8. Table(c, i2, d2, D \ {x.idx[b]}, H)
  BY Zenon, <1>6, <1>7, ShiftedBack
<1>9. y = [len |-> x.len, size |-> x.size, dist |-> d2, idx |-> i2, vals |-> x.vals, cap |-> x.cap]
  BY Zenon, <1>1 DEF IsMap
<1>10. y.idx = i2 /\ y.dist = d2 /\ SameEntries(x, y)
  BY <1>9 DEF SameEntries, IsMap
<1> QED BY Zenon, <1>8, <1>10 DEF y

-----------------------------------------------------------------------------
(* The entries *)

\* The indexes of the entries, as the buckets hold them, and their hashes.
Slots(x) == {n - 1 : n \in Live(x)}

Hashes(x) == [n \in Slots(x) |-> x.vals[n + 1].hash]

Entry == [key : Key, val : Val, hash : Nat]

\* The vector of entries: the keys differ, every entry remembers the hash of
\* its key, and the last slot is no hole.
ValsOK(vals, hs) ==
  /\ vals \in Seq(Entry \cup {Hole})
  /\ \A n \in DOMAIN vals : vals[n] # Hole => vals[n].hash = hs[vals[n].key]
  /\ \A a, b \in DOMAIN vals : vals[a] # Hole /\ vals[a].key = vals[b].key => a = b
  /\ vals # << >> => vals[Len(vals)] # Hole

\* The numbers of a map: the counts, the limits and the load factor.
CountsOK(x) ==
  /\ x.len \in Nat /\ x.len > 1 /\ x.cap \in Nat /\ x.cap # 1
  /\ x.size = Cardinality(Live(x)) /\ x.size <= MaxSize
  /\ Len(x.vals) <= x.cap

\* What holds of a map between two methods.
MapOK(x, hs) ==
  /\ IsMap(x) /\ CountsOK(x) /\ ValsOK(x.vals, hs)
  /\ IF x.idx = << >> THEN x.dist = << >> /\ x.vals = << >>
     ELSE Table(x.len, x.idx, x.dist, Slots(x), Hashes(x)) /\ 10 * x.size <= 9 * x.len

\* The inductive invariant.
Inv == hash \in [Key -> Hash] /\ MapOK(m, hash)

\* Max is the greatest element of a bounded set.
LEMMA MaxIsGreatest ==
  ASSUME NEW E \in SUBSET Nat, E # {}, NEW N \in Nat, \A a \in E : a <= N
  PROVE  Max(E) \in E /\ \A a \in E : a <= Max(E)
<1> DEFINE U == {u \in Nat : \A a \in E : a <= u}
<1>1. PICK u \in U : \A w \in U : u <= w
  <2>1. U \in SUBSET Nat /\ U # {}
    BY Zenon
  <2> HIDE DEF U
  <2> QED BY Zenon, <2>1, LeastNumber
<1>2. u \in Nat /\ \A a \in E : a <= u
  BY Zenon
<1>3. u \in E
  <2>1. SUFFICES ASSUME u \notin E PROVE FALSE
    BY Zenon
  <2>2. PICK a \in E : TRUE
    BY Zenon
  <2>3. u - 1 \in Nat
    BY <1>2, <2>1, <2>2
  <2>4. \A o \in E : o <= u - 1
    BY <1>2, <2>1
  <2>5. u - 1 \in U /\ ~(u <= u - 1)
    <3>1. u - 1 \in U
      BY Zenon, <2>3, <2>4
    <3> QED BY <1>2, <3>1
  <2> QED BY Zenon, <1>1, <2>5
<1>4. \A a \in E : u >= a
  BY <1>2
<1>5. Max(E) \in E /\ \A a \in E : Max(E) >= a
  BY Zenon, <1>3, <1>4 DEF Max
<1>6. Max(E) \in Nat
  BY Zenon, <1>5
<1> DEFINE g == Max(E)
<1> HIDE DEF g
<1>7. g \in E /\ \A a \in E : g >= a
  BY Zenon, <1>5 DEF g
<1>8. \A a \in E : a <= g
  BY <1>7
<1> QED BY Zenon, <1>7, <1>8 DEF g

\* Entries and the indexes the buckets hold correspond.
LiveSlots(x) ==
  /\ Live(x) \in SUBSET (1..Len(x.vals)) /\ IsFiniteSet(Live(x))
  /\ Slots(x) \in SUBSET Nat /\ IsFiniteSet(Slots(x))
  /\ Cardinality(Slots(x)) = Cardinality(Live(x)) /\ Cardinality(Live(x)) \in Nat
  /\ \A n \in Slots(x) : n + 1 \in Live(x)
  /\ \A n \in Nat : n + 1 \in Live(x) => n \in Slots(x)

\* They do for every vector.
LEMMA LiveSlotsOK ==
  ASSUME NEW x, NEW E, x.vals \in Seq(E)
  PROVE  LiveSlots(x) /\ DOMAIN x.vals = 1..Len(x.vals) /\ Len(x.vals) \in Nat
<1>0. DOMAIN x.vals = 1..Len(x.vals) /\ Len(x.vals) \in Nat
  OBVIOUS
<1>1. Live(x) \in SUBSET (1..Len(x.vals))
  BY Zenon, <1>0 DEF Live
<1>2. IsFiniteSet(Live(x))
  <2>1. IsFiniteSet(1..Len(x.vals))
    BY <1>0, FS_Interval
  <2> QED BY Zenon, <1>1, <2>1, FS_Subset
<1> DEFINE L == Live(x)
           S == Slots(x)
           f == [n \in L |-> n - 1]
<1>3. \A n \in L : n - 1 \in Nat /\ (n - 1) + 1 = n
  <2> HIDE DEF L
  <2>1. L \in SUBSET (1..Len(x.vals))
    BY Zenon, <1>1 DEF L
  <2> QED BY <1>0, <2>1
<1>4. S \in SUBSET Nat /\ \A n \in S : n + 1 \in L
  BY Zenon, <1>3 DEF Slots
<1>5. \A n \in Nat : n + 1 \in L => n \in S
  <2>1. \A n \in Nat : (n + 1) - 1 = n
    OBVIOUS
  <2> QED BY Zenon, <2>1 DEF Slots
<1>6. f \in Bijection(L, S)
  <2>1. \A n \in L : n - 1 \in S
    BY Zenon DEF Slots
  <2>2. \A s \in S : \E n \in L : s = n - 1
    BY Zenon DEF Slots
  <2>3. \A a, b \in L : a - 1 = b - 1 => a = b
    BY Zenon, <1>3
  <2>4. f \in [L -> S] /\ \A n \in L : f[n] = n - 1
    BY Zenon, <2>1
  <2> HIDE DEF L, S, f
  <2>5. f \in Injection(L, S)
    <3>1. \A a, b \in L : f[a] = f[b] => a = b
      BY Zenon, <2>3, <2>4
    <3> QED BY Zenon, <2>4, <3>1 DEF Injection, IsInjective
  <2>6. f \in Surjection(L, S)
    <3>1. \A s \in S : \E n \in L : f[n] = s
      BY Zenon, <2>2, <2>4
    <3> QED BY Zenon, <2>4, <3>1 DEF Surjection
  <2> QED BY Zenon, <2>5, <2>6 DEF Bijection
<1>7. IsFiniteSet(S) /\ Cardinality(S) = Cardinality(L)
  <2>1. ExistsBijection(L, S)
    BY Zenon, <1>6 DEF ExistsBijection
  <2> HIDE DEF L, S
  <2>2. IsFiniteSet(L)
    BY Zenon, <1>2 DEF L
  <2> QED BY Zenon, <2>1, <2>2, FS_Bijection
<1>8. Cardinality(Live(x)) \in Nat
  BY Zenon, <1>2, FS_CardinalityType
<1> QED BY Zenon, <1>0, <1>1, <1>2, <1>4, <1>5, <1>7, <1>8 DEF LiveSlots

\* A table only depends on the hashes of its entries.
LEMMA TableSame ==
  ASSUME NEW c, NEW idx, NEW dist, NEW D, NEW H, NEW G, -1 \notin D,
         \A n \in D : H[n] = G[n], Table(c, idx, dist, D, H)
  PROVE  Table(c, idx, dist, D, G)
<1>1. \A b \in 0..(c - 1) : idx[b] # -1 => b = Home(c, G, idx[b], dist[b])
  <2>1. ASSUME NEW b \in 0..(c - 1), idx[b] # -1 PROVE H[idx[b]] = G[idx[b]]
    <3>1. idx[b] \in D
      BY Zenon, <2>1 DEF Table
    <3> QED BY Zenon, <3>1
  <2>2. \A b \in 0..(c - 1) : idx[b] # -1 => b = Home(c, H, idx[b], dist[b])
    BY Zenon DEF Table
  <2> QED BY Zenon, <2>1, <2>2 DEF Home
<1> QED BY Zenon, <1>1 DEF Table

\* An entry is no hole.
LEMMA EntryNotHole == ASSUME NEW e \in Entry PROVE e # Hole /\ e.key # NoKey
<1>1. e.key \in Key
  BY DEF Entry
<1>2. e.key # NoKey
  BY Zenon, <1>1, NoKeyAssumption
<1>3. Hole.key = NoKey
  BY DEF Hole
<1> QED BY Zenon, <1>2, <1>3

\* What the slots of the vector hold.
LEMMA ValsAre ==
  ASSUME NEW vals, NEW hs, ValsOK(vals, hs)
  PROVE  /\ vals \in Seq(Entry \cup {Hole}) /\ DOMAIN vals = 1..Len(vals) /\ Len(vals) \in Nat
         /\ \A n \in 1..Len(vals) : vals[n] # Hole => vals[n] \in Entry /\ vals[n].hash = hs[vals[n].key]
<1>1. vals \in Seq(Entry \cup {Hole})
  BY Zenon DEF ValsOK
<1>2. DOMAIN vals = 1..Len(vals) /\ Len(vals) \in Nat
  BY <1>1
<1>3. \A n \in 1..Len(vals) : vals[n] \in Entry \cup {Hole}
  BY <1>1
<1>4. \A n \in DOMAIN vals : vals[n] # Hole => vals[n].hash = hs[vals[n].key]
  BY Zenon DEF ValsOK
<1> QED BY Zenon, <1>1, <1>2, <1>3, <1>4

\* The hashes the buckets rely on.
LEMMA HashesOK ==
  ASSUME NEW x, NEW hs, ValsOK(x.vals, hs)
  PROVE  /\ LiveSlots(x) /\ Hashes(x) \in [Slots(x) -> Nat]
         /\ \A n \in Slots(x) : Hashes(x)[n] = x.vals[n + 1].hash
<1>1. LiveSlots(x)
  <2>1. x.vals \in Seq(Entry \cup {Hole})
    BY Zenon, ValsAre
  <2> QED BY Zenon, <2>1, LiveSlotsOK
<1>2. \A n \in Slots(x) : x.vals[n + 1].hash \in Nat
  <2> TAKE n \in Slots(x)
  <2>1. n + 1 \in Live(x)
    BY Zenon, <1>1 DEF LiveSlots
  <2>2. n + 1 \in 1..Len(x.vals) /\ x.vals[n + 1] # Hole
    <3>1. DOMAIN x.vals = 1..Len(x.vals)
      BY Zenon, ValsAre
    <3> QED BY Zenon, <2>1, <3>1 DEF Live
  <2>3. x.vals[n + 1] \in Entry
    BY Zenon, <2>2, ValsAre
  <2> QED BY <2>3 DEF Entry
<1> QED BY Zenon, <1>1, <1>2 DEF Hashes

-----------------------------------------------------------------------------
(* compact *)

\* The entries up to slot n that are not holes.
Rank(vals, n) == Cardinality({a \in 1..n : vals[a] # Hole})

\* The rank grows by one at an entry.
LEMMA RankStep ==
  ASSUME NEW vals, NEW n \in Nat \ {0}
  PROVE  /\ Rank(vals, n - 1) \in Nat /\ Rank(vals, 0) = 0
         /\ vals[n] = Hole => Rank(vals, n) = Rank(vals, n - 1)
         /\ vals[n] # Hole => Rank(vals, n) = Rank(vals, n - 1) + 1
<1> DEFINE S == {a \in 1..(n - 1) : vals[a] # Hole}
           T == {a \in 1..n : vals[a] # Hole}
<1>1. \A a : a \in 1..n <=> a \in 1..(n - 1) \/ a = n
  OBVIOUS
<1>2. n \notin 1..(n - 1)
  OBVIOUS
<1>3. IsFiniteSet(S)
  <2>1. IsFiniteSet(1..(n - 1))
    BY FS_Interval
  <2>2. S \in SUBSET (1..(n - 1))
    BY Zenon
  <2> HIDE DEF S
  <2> QED BY Zenon, <2>1, <2>2, FS_Subset
<1>4. Rank(vals, n - 1) = Cardinality(S) /\ Rank(vals, n) = Cardinality(T)
  BY Zenon DEF Rank
<1>5. Rank(vals, 0) = 0
  <2>1. {a \in 1..0 : vals[a] # Hole} = {}
    OBVIOUS
  <2> QED BY Zenon, <2>1, FS_EmptySet DEF Rank
<1>6. Cardinality(S) \in Nat
  <2> HIDE DEF S
  <2> QED BY Zenon, <1>3, FS_CardinalityType
<1>7. ASSUME vals[n] = Hole PROVE T = S
  BY Zenon, <1>1, <1>7
<1>8. ASSUME vals[n] # Hole PROVE Cardinality(T) = Cardinality(S) + 1
  <2>1. T = S \cup {n} /\ n \notin S
    BY Zenon, <1>1, <1>2, <1>8
  <2> HIDE DEF S, T
  <2> QED BY Zenon, <1>3, <2>1, FS_AddElement
<1> QED BY Zenon, <1>4, <1>5, <1>6, <1>7, <1>8

\* k holds the entries of the first n slots in their order.
Packed(vals, n, k) ==
  /\ k \in Seq(Entry) /\ Len(k) = Rank(vals, n)
  /\ \A a \in 1..n : vals[a] # Hole => Rank(vals, a) \in 1..Rank(vals, n) /\ k[Rank(vals, a)] = vals[a]
  /\ \A j \in 1..Rank(vals, n) : \E a \in 1..n : vals[a] # Hole /\ Rank(vals, a) = j

\* A round of the loop of compact.
LEMMA PackedNext ==
  ASSUME NEW vals \in Seq(Entry \cup {Hole}), NEW n \in 1..Len(vals), NEW k, Packed(vals, n - 1, k)
  PROVE  Packed(vals, n, IF vals[n] = Hole THEN k ELSE Append(k, vals[n]))
<1> DEFINE r == Rank(vals, n - 1)
<1>0. n \in Nat \ {0} /\ \A a : a \in 1..n <=> a \in 1..(n - 1) \/ a = n
  OBVIOUS
<1>1. r \in Nat
  BY Zenon, <1>0, RankStep
<1>2. /\ k \in Seq(Entry) /\ Len(k) = r
      /\ \A a \in 1..(n - 1) : vals[a] # Hole => Rank(vals, a) \in 1..r /\ k[Rank(vals, a)] = vals[a]
      /\ \A j \in 1..r : \E a \in 1..(n - 1) : vals[a] # Hole /\ Rank(vals, a) = j
  BY Zenon DEF Packed
<1>3. CASE vals[n] = Hole
  <2>1. Rank(vals, n) = r
    BY Zenon, <1>0, <1>3, RankStep
  <2> QED BY Zenon, <1>0, <1>2, <1>3, <2>1 DEF Packed
<1>4. CASE vals[n] # Hole
  <2>1. Rank(vals, n) = r + 1
    BY Zenon, <1>0, <1>4, RankStep
  <2> DEFINE e == vals[n]
             q == Append(k, e)
  <2>2. e \in Entry
    <3>1. e \in Entry \cup {Hole}
      OBVIOUS
    <3> QED BY Zenon, <1>4, <3>1
  <2> HIDE DEF r, e
  <2>3. q \in Seq(Entry) /\ Len(q) = r + 1 /\ q[r + 1] = e /\ \A j \in 1..r : q[j] = k[j]
    BY <1>1, <1>2, <2>2
  <2>4. \A j : j \in 1..(r + 1) <=> j \in 1..r \/ j = r + 1
    BY <1>1
  <2> HIDE DEF q
  <2>5. ASSUME NEW a \in 1..n, vals[a] # Hole
        PROVE  Rank(vals, a) \in 1..(r + 1) /\ q[Rank(vals, a)] = vals[a]
    <3>1. CASE a = n
      BY Zenon, <2>1, <2>3, <2>4, <3>1 DEF e
    <3>2. CASE a \in 1..(n - 1)
      BY Zenon, <1>2, <2>3, <2>4, <2>5, <3>2
    <3> QED BY Zenon, <1>0, <3>1, <3>2
  <2>6. ASSUME NEW j \in 1..(r + 1) PROVE \E a \in 1..n : vals[a] # Hole /\ Rank(vals, a) = j
    <3>1. CASE j = r + 1
      BY Zenon, <1>0, <1>4, <2>1, <3>1
    <3>2. CASE j \in 1..r
      BY Zenon, <1>0, <1>2, <3>2
    <3> QED BY Zenon, <2>4, <3>1, <3>2
  <2> QED BY Zenon, <1>4, <2>1, <2>3, <2>5, <2>6 DEF Packed, q, e
<1> QED BY Zenon, <1>3, <1>4

\* compact keeps the entries in their order.
LEMMA PackOK ==
  ASSUME NEW vals \in Seq(Entry \cup {Hole})
  PROVE  Packed(vals, Len(vals), Pack(vals))
<1> DEFINE N == Len(vals)
           Nxt(s, i) == IF vals[i] = Hole THEN s ELSE Append(s, vals[i])
           F == CHOOSE f : f = [n \in 0..N |-> IF n = 0 THEN << >>
                                               ELSE IF vals[n] = Hole THEN f[n - 1]
                                               ELSE Append(f[n - 1], vals[n])]
           G == {i \in 0..N : Packed(vals, i, F[i])}
<1>0. N \in Nat
  OBVIOUS
<1>1. \A i \in 0..N : F[i] = IF i = 0 THEN << >> ELSE Nxt(F[i - 1], i)
  <2>1. \E f : Rounds(f, "kept", vals, << >>, N)
    BY Zenon, <1>0, RoundsExist
  <2>2. \E f : f = [n \in 0..N |-> IF n = 0 THEN << >>
                                   ELSE IF vals[n] = Hole THEN f[n - 1] ELSE Append(f[n - 1], vals[n])]
    <3>1. PICK f : f = [i \in 0..N |-> IF i = 0 THEN << >> ELSE Step("kept", vals, f[i - 1], i)]
      BY Zenon, <2>1 DEF Rounds
    <3>2. ASSUME NEW i \in 0..N PROVE Step("kept", vals, f[i - 1], i) = Nxt(f[i - 1], i)
      <4> DEFINE s == f[i - 1]
      <4> HIDE DEF s
      <4>1. Step("kept", vals, s, i) = IF vals[i] = Hole THEN s ELSE Append(s, vals[i])
        BY StepIs
      <4> QED BY Zenon, <4>1 DEF s
    <3>3. \A i \in 0..N : f[i] = IF i = 0 THEN << >> ELSE Step("kept", vals, f[i - 1], i)
      BY Zenon, <3>1
    <3>4. \A i \in 0..N : f[i] = IF i = 0 THEN << >> ELSE Nxt(f[i - 1], i)
      BY Zenon, <3>2, <3>3
    <3>5. f = [i \in 0..N |-> f[i]]
      BY Zenon, <3>1
    <3> QED BY Zenon, <3>4, <3>5
  <2>3. F = [n \in 0..N |-> IF n = 0 THEN << >>
                            ELSE IF vals[n] = Hole THEN F[n - 1] ELSE Append(F[n - 1], vals[n])]
    BY Zenon, <2>2
  <2> HIDE DEF F
  <2> QED BY Zenon, <2>3
<1>2. Pack(vals) = F[N]
  BY Zenon DEF Pack
<1> HIDE DEF F
<1>3. 0 \in G
  <2>1. 0 \in 0..N /\ 1 \in Nat \ {0}
    BY <1>0
  <2>2. F[0] = << >> /\ Rank(vals, 0) = 0
    BY Zenon, <1>1, <2>1, RankStep
  <2>3. << >> \in Seq(Entry) /\ Len(<< >>) = 0 /\ (\A a \in 1..0 : FALSE)
    OBVIOUS
  <2>4. Packed(vals, 0, << >>)
    BY Zenon, <2>2, <2>3 DEF Packed
  <2> QED BY Zenon, <2>1, <2>2, <2>4
<1>4. ASSUME NEW i \in 1..N, i - 1 \in G PROVE i \in G
  <2>1. i \in 0..N /\ i # 0
    BY <1>0
  <2>2. F[i] = Nxt(F[i - 1], i)
    BY Zenon, <1>1, <2>1
  <2>3. Packed(vals, i - 1, F[i - 1])
    BY Zenon, <1>4
  <2>4. Packed(vals, i, Nxt(F[i - 1], i))
    BY Zenon, <2>3, PackedNext
  <2> QED BY Zenon, <2>1, <2>2, <2>4
<1>5. N \in G
  <2>1. N \in 0..N
    BY <1>0
  <2> HIDE DEF G
  <2> QED BY Zenon, <1>0, <1>3, <1>4, <2>1, UpTo
<1> QED BY Zenon, <1>2, <1>5

\* compact: no hole is left, no entry is lost, and the rest of the map stays.
LEMMA CompactOK ==
  ASSUME NEW x, NEW hs, IsMap(x), ValsOK(x.vals, hs)
  PROVE  LET y == Compact(x)
         IN  /\ IsMap(y) /\ ValsOK(y.vals, hs)
             /\ y.len = x.len /\ y.size = x.size /\ y.cap = x.cap /\ y.idx = x.idx /\ y.dist = x.dist
             /\ Live(y) = 1..Len(y.vals) /\ Len(y.vals) = Cardinality(Live(x))
             /\ \A k : (\E a \in Live(y) : y.vals[a].key = k) => \E a \in Live(x) : x.vals[a].key = k
<1> DEFINE vals == x.vals
           N == Len(vals)
           q == Pack(vals)
           y == Compact(x)
<1>1. vals \in Seq(Entry \cup {Hole}) /\ DOMAIN vals = 1..N
  BY Zenon, ValsAre
<1>2. Packed(vals, N, q)
  BY Zenon, <1>1, PackOK
<1>3. y = [len |-> x.len, size |-> x.size, dist |-> x.dist, idx |-> x.idx, vals |-> q, cap |-> x.cap]
  <2>1. y = [x EXCEPT !.vals = q]
    BY Zenon DEF Compact
  <2> QED BY Zenon, <2>1 DEF IsMap
<1> HIDE DEF q, y
<1>4. /\ IsMap(y) /\ y.len = x.len /\ y.size = x.size /\ y.cap = x.cap
      /\ y.idx = x.idx /\ y.dist = x.dist /\ y.vals = q
  BY <1>3 DEF IsMap
<1>5. q \in Seq(Entry) /\ Len(q) = Rank(vals, N)
  BY Zenon, <1>2 DEF Packed
<1>6. Rank(vals, N) = Cardinality(Live(x))
  BY Zenon, <1>1 DEF Rank, Live
<1>7. DOMAIN q = 1..Len(q) /\ (\A j \in 1..Len(q) : q[j] \in Entry) /\ q \in Seq(Entry \cup {Hole}) /\ Len(q) \in Nat
  BY <1>5
<1>8. \A j \in 1..Len(q) : q[j] # Hole
  BY Zenon, <1>7, EntryNotHole
<1>9. Live(y) = 1..Len(q)
  BY Zenon, <1>4, <1>7, <1>8 DEF Live
<1>10. \A j \in 1..Len(q) : \E a \in 1..N : vals[a] # Hole /\ Rank(vals, a) = j /\ q[j] = vals[a]
  <2>1. \A a \in 1..N : vals[a] # Hole => q[Rank(vals, a)] = vals[a]
    BY Zenon, <1>2 DEF Packed
  <2>2. \A j \in 1..Len(q) : \E a \in 1..N : vals[a] # Hole /\ Rank(vals, a) = j
    BY Zenon, <1>2, <1>5 DEF Packed
  <2> QED BY Zenon, <2>1, <2>2
<1>11. ValsOK(q, hs)
  <2>1. ASSUME NEW n \in 1..Len(q) PROVE q[n].hash = hs[q[n].key]
    <3>1. PICK a \in 1..N : vals[a] # Hole /\ q[n] = vals[a]
      BY Zenon, <1>10
    <3>2. vals[a].hash = hs[vals[a].key]
      BY Zenon, <3>1, ValsAre
    <3> QED BY Zenon, <3>1, <3>2
  <2>2. ASSUME NEW i \in 1..Len(q), NEW j \in 1..Len(q), q[i].key = q[j].key PROVE i = j
    <3>1. PICK a \in 1..N : vals[a] # Hole /\ Rank(vals, a) = i /\ q[i] = vals[a]
      BY Zenon, <1>10
    <3>2. PICK b \in 1..N : vals[b] # Hole /\ Rank(vals, b) = j /\ q[j] = vals[b]
      BY Zenon, <1>10
    <3>3. a = b
      BY Zenon, <1>1, <2>2, <3>1, <3>2 DEF ValsOK
    <3> QED BY Zenon, <3>1, <3>2, <3>3
  <2>3. q # << >> => q[Len(q)] # Hole
    <3>1. q # << >> => Len(q) \in 1..Len(q)
      BY <1>5
    <3> QED BY Zenon, <1>8, <3>1
  <2> QED BY Zenon, <1>7, <2>1, <2>2, <2>3 DEF ValsOK
<1>12. ASSUME NEW k, NEW j \in Live(y), y.vals[j].key = k PROVE \E a \in Live(x) : x.vals[a].key = k
  <2>1. PICK a \in 1..N : vals[a] # Hole /\ q[j] = vals[a]
    BY Zenon, <1>9, <1>10
  <2> QED BY Zenon, <1>1, <1>4, <1>12, <2>1 DEF Live
<1> QED BY Zenon, <1>4, <1>5, <1>6, <1>9, <1>11, <1>12 DEF y

-----------------------------------------------------------------------------
(* rehash *)

\* Buckets that are all empty.
LEMMA EmptyTable ==
  ASSUME NEW c, NEW H
  PROVE  Table(c, [b \in 0..(c - 1) |-> -1], [b \in 0..(c - 1) |-> 0], {}, H)
<1> DEFINE i0 == [b \in 0..(c - 1) |-> -1]
           d0 == [b \in 0..(c - 1) |-> 0]
<1>1. i0 \in [0..(c - 1) -> {} \cup {-1}] /\ \A b \in 0..(c - 1) : i0[b] = -1
  BY Zenon
<1>2. d0 \in [0..(c - 1) -> Nat]
  <2>1. 0 \in Nat
    OBVIOUS
  <2> QED BY Zenon, <2>1
<1> HIDE DEF i0, d0
<1>3. Table(c, i0, d0, {}, H)
  BY Zenon, <1>1, <1>2 DEF Table
<1> QED BY Zenon, <1>3 DEF i0, d0

\* insertEntryIndex of an entry that is not in the table yet, when there are
\* fewer entries than buckets.
LEMMA InsertOK ==
  ASSUME NEW c \in Nat \ {0}, NEW x, IsMap(x), x.len = c,
         NEW D \in SUBSET Nat, IsFiniteSet(D), Cardinality(D) < c, NEW n \in Nat \ D,
         NEW H, \A s \in D \cup {n} : H[s] \in Nat, Table(c, x.idx, x.dist, D, H),
         NEW b \in 0..(c - 1), NEW d \in Nat, b = Home(c, H, n, d), Ordered(c, x.idx, x.dist, b, d)
  PROVE  LET y == InsertEntryIndex(x, n, b, d)
         IN  Table(c, y.idx, y.dist, D \cup {n}, H) /\ SameEntries(x, y)
<1> DEFINE C == D \cup {n}
           G == [s \in C |-> H[s]]
           y == InsertEntryIndex(x, n, b, d)
<1>1. PICK e \in 0..(c - 1) : x.idx[e] = -1
  <2> DEFINE idx == x.idx
             dist == x.dist
  <2>1. Table(c, idx, dist, D, H)
    BY Zenon
  <2> HIDE DEF idx, dist
  <2>2. \E e \in 0..(c - 1) : idx[e] = -1
    BY <2>1, EmptyBucket
  <2> QED BY Zenon, <2>2 DEF idx
<1>2. C \in SUBSET Nat /\ n \in C /\ C \ {n} = D /\ G \in [C -> Nat] /\ \A s \in C : H[s] = G[s]
  <2>1. C \in SUBSET Nat /\ n \in C
    BY Zenon
  <2>2. C \ {n} = D
    BY Zenon
  <2> HIDE DEF C
  <2>3. G \in [C -> Nat] /\ \A s \in C : H[s] = G[s]
    <3>1. \A s \in C : H[s] \in Nat
      BY Zenon DEF C
    <3> QED BY Zenon, <3>1
  <2> QED BY Zenon, <2>1, <2>2, <2>3
<1>3. -1 \notin C
  <2>1. -1 \notin Nat
    OBVIOUS
  <2> QED BY Zenon, <1>2, <2>1
<1> HIDE DEF G
<1>4. Table(c, x.idx, x.dist, C \ {n}, G)
  <2>1. Table(c, x.idx, x.dist, D, G)
    <3>1. -1 \notin D /\ \A s \in D : H[s] = G[s]
      BY Zenon, <1>2, <1>3
    <3> QED BY Zenon, <3>1, TableSame
  <2> QED BY Zenon, <1>2, <2>1
<1>5. b = Home(c, G, n, d)
  BY Zenon, <1>2 DEF Home
<1> HIDE DEF C, y
<1>6. Carries(c, G, C, e, x.idx, x.dist, n, b, d)
  BY Zenon, <1>1, <1>2, <1>4, <1>5 DEF Carries
<1>7. Table(c, y.idx, y.dist, C, G) /\ SameEntries(x, y)
  BY Zenon, <1>2, <1>6, InsertEntryIndexOK DEF y
<1>8. Table(c, y.idx, y.dist, C, H)
  <2>1. \A s \in C : G[s] = H[s]
    BY Zenon, <1>2
  <2> QED BY Zenon, <1>3, <1>7, <2>1, TableSame
<1> QED BY Zenon, <1>7, <1>8 DEF C, y

\* The buckets after the round for slot n of the loop of rehash.
Below(x, n) == {s \in Slots(x) : s < n}

Rehashed(x, c, n, p) ==
  /\ IsMap(p) /\ p.len = c /\ p.size = x.size /\ p.vals = x.vals /\ p.cap = x.cap
  /\ Table(c, p.idx, p.dist, Below(x, n), Hashes(x))

\* A round of the loop of rehash.
LEMMA RehashedNext ==
  ASSUME NEW c \in Nat \ {0}, NEW x, NEW hs, ValsOK(x.vals, hs), Cardinality(Live(x)) < c,
         NEW n \in 1..Len(x.vals), NEW p, Rehashed(x, c, n - 1, p)
  PROVE  Rehashed(x, c, n, Place(p, n))
<1> DEFINE D == Below(x, n - 1)
           H == Hashes(x)
<1>0. /\ LiveSlots(x) /\ H \in [Slots(x) -> Nat] /\ \A s \in Slots(x) : H[s] = x.vals[s + 1].hash
  BY Zenon, HashesOK
<1>1. n - 1 \in Nat /\ (n - 1) + 1 = n /\ n \in Nat /\ DOMAIN x.vals = 1..Len(x.vals)
  <2>1. Len(x.vals) \in Nat /\ DOMAIN x.vals = 1..Len(x.vals)
    BY Zenon, ValsAre
  <2> QED BY <2>1
<1>2. /\ IsMap(p) /\ p.len = c /\ p.size = x.size /\ p.vals = x.vals /\ p.cap = x.cap
      /\ Table(c, p.idx, p.dist, D, H)
  BY Zenon DEF Rehashed
<1>3. Slots(x) \in SUBSET Nat /\ IsFiniteSet(Slots(x)) /\ Cardinality(Slots(x)) < c
  BY Zenon, <1>0 DEF LiveSlots
<1>4. \A s \in Nat : s < n <=> s < n - 1 \/ s = n - 1
  BY <1>1
<1>5. CASE x.vals[n] = Hole
  <2>1. n - 1 \notin Slots(x)
    <3>1. n \notin Live(x)
      BY Zenon, <1>5 DEF Live
    <3> QED BY Zenon, <1>0, <1>1, <3>1 DEF LiveSlots
  <2>2. Below(x, n) = D
    BY Zenon, <1>3, <1>4, <2>1 DEF Below
  <2>3. Place(p, n) = p
    BY Zenon, <1>2, <1>5 DEF Place
  <2> QED BY Zenon, <1>2, <2>2, <2>3 DEF Rehashed
<1>6. CASE x.vals[n] # Hole
  <2> DEFINE a == n - 1
             h == x.vals[n].hash
             b == BucketIndex(p, h)
             y == InsertEntryIndex(p, a, b, 0)
  <2>1. a \in Slots(x)
    <3>1. n \in Live(x)
      BY Zenon, <1>1, <1>6 DEF Live
    <3> QED BY Zenon, <1>0, <1>1, <3>1 DEF LiveSlots
  <2>2. Below(x, n) = D \cup {a} /\ a \in Nat \ D /\ D \in SUBSET Nat
    <3>1. ~(a < n - 1)
      BY <1>1
    <3> QED BY Zenon, <1>1, <1>3, <1>4, <2>1, <3>1 DEF Below
  <2>3. H[a] = h /\ h \in Nat
    BY Zenon, <1>0, <1>1, <2>1
  <2>4. IsFiniteSet(D) /\ Cardinality(D) < c
    <3>1. D \in SUBSET Slots(x)
      BY Zenon DEF Below
    <3>2. IsFiniteSet(D) /\ Cardinality(D) <= Cardinality(Slots(x))
      BY Zenon, <1>3, <3>1, FS_Subset
    <3>3. Cardinality(D) \in Nat /\ Cardinality(Slots(x)) \in Nat
      BY Zenon, <1>3, <3>2, FS_CardinalityType
    <3> DEFINE u == Cardinality(D)
               v == Cardinality(Slots(x))
    <3>4. u \in Nat /\ v \in Nat /\ u <= v /\ v < c
      BY Zenon, <1>3, <3>2, <3>3
    <3> HIDE DEF u, v
    <3>5. u < c
      BY <3>4
    <3> QED BY Zenon, <3>2, <3>5 DEF u
  <2>5. \A s \in D \cup {a} : H[s] \in Nat
    BY Zenon, <1>0, <2>1 DEF Below
  <2>6. b \in 0..(c - 1) /\ b = Home(c, H, a, 0)
    <3>1. b = h % c /\ Home(c, H, a, 0) = (h + 0) % c
      BY Zenon, <1>2, <2>3 DEF BucketIndex, Home
    <3> HIDE DEF h, b
    <3>2. h + 0 = h
      BY <2>3
    <3>3. h % c \in 0..(c - 1)
      BY <2>3
    <3> QED BY Zenon, <3>1, <3>2, <3>3
  <2>7. Ordered(c, p.idx, p.dist, b, 0) /\ 0 \in Nat
    <3>1. ~(0 > 0) /\ 0 \in Nat
      OBVIOUS
    <3> QED BY Zenon, <3>1 DEF Ordered
  <2> HIDE DEF D, H, a, b
  <2>8. Table(c, y.idx, y.dist, D \cup {a}, H) /\ SameEntries(p, y)
    BY Zenon, <1>2, <2>2, <2>4, <2>5, <2>6, <2>7, InsertOK
  <2>9. Place(p, n) = y
    BY Zenon, <1>2, <1>6 DEF Place, a, b
  <2> HIDE DEF y
  <2> QED BY Zenon, <1>2, <2>2, <2>8, <2>9 DEF Rehashed, SameEntries, H
<1> QED BY Zenon, <1>5, <1>6

\* rehash indexes every entry of the vector anew.
LEMMA RehashOK ==
  ASSUME NEW x, NEW hs, IsMap(x), ValsOK(x.vals, hs), NEW grow \in BOOLEAN, NEW c \in Nat \ {0},
         c = IF grow THEN 2 * x.len ELSE x.len, Cardinality(Live(x)) < c
  PROVE  LET y == Rehash(x, grow)
         IN  /\ IsMap(y) /\ y.len = c /\ y.size = x.size /\ y.vals = x.vals /\ y.cap = x.cap
             /\ Table(c, y.idx, y.dist, Slots(x), Hashes(x))
<1> DEFINE N == Len(x.vals)
           i0 == [b \in 0..(c - 1) |-> -1]
           d0 == [b \in 0..(c - 1) |-> 0]
           clean == EmptyBuckets([x EXCEPT !.len = IF grow THEN 2 * x.len ELSE x.len])
           F == CHOOSE f : f = [n \in 0..N |-> IF n = 0 THEN clean ELSE Place(f[n - 1], n)]
           G == {i \in 0..N : Rehashed(x, c, i, F[i])}
<1>0. N \in Nat /\ LiveSlots(x)
  BY Zenon, ValsAre, HashesOK
<1>1. clean = [len |-> c, size |-> x.size, dist |-> d0, idx |-> i0, vals |-> x.vals, cap |-> x.cap]
  <2> DEFINE w == [x EXCEPT !.len = IF grow THEN 2 * x.len ELSE x.len]
  <2>1. w = [len |-> c, size |-> x.size, dist |-> x.dist, idx |-> x.idx, vals |-> x.vals, cap |-> x.cap]
    <3>1. w = [x EXCEPT !.len = c]
      BY Zenon
    <3> HIDE DEF w
    <3> QED BY Zenon, <3>1 DEF IsMap
  <2>2. clean = EmptyBuckets(w)
    BY Zenon
  <2> HIDE DEF w, clean
  <2>3. w.len = c
    BY <2>1
  <2>4. clean = [w EXCEPT !.dist = d0, !.idx = i0]
    BY Zenon, <2>2, <2>3 DEF EmptyBuckets
  <2> HIDE DEF d0, i0
  <2> QED BY Zenon, <2>1, <2>4
<1>2. \A i \in 0..N : F[i] = IF i = 0 THEN clean ELSE Place(F[i - 1], i)
  <2> HIDE DEF clean
  <2>1. \E f : Rounds(f, "placed", x, clean, N)
    BY Zenon, <1>0, RoundsExist
  <2>2. \E f : f = [n \in 0..N |-> IF n = 0 THEN clean ELSE Place(f[n - 1], n)]
    <3>1. PICK f : f = [i \in 0..N |-> IF i = 0 THEN clean ELSE Step("placed", x, f[i - 1], i)]
      BY Zenon, <2>1 DEF Rounds
    <3>2. ASSUME NEW i \in 0..N PROVE Step("placed", x, f[i - 1], i) = Place(f[i - 1], i)
      <4> DEFINE s == f[i - 1]
      <4> HIDE DEF s
      <4>1. Step("placed", x, s, i) = Place(s, i)
        BY StepIs
      <4> QED BY Zenon, <4>1 DEF s
    <3>3. \A i \in 0..N : f[i] = IF i = 0 THEN clean ELSE Step("placed", x, f[i - 1], i)
      BY Zenon, <3>1
    <3>4. \A i \in 0..N : f[i] = IF i = 0 THEN clean ELSE Place(f[i - 1], i)
      BY Zenon, <3>2, <3>3
    <3>5. f = [i \in 0..N |-> f[i]]
      BY Zenon, <3>1
    <3> QED BY Zenon, <3>4, <3>5
  <2>3. F = [n \in 0..N |-> IF n = 0 THEN clean ELSE Place(F[n - 1], n)]
    BY Zenon, <2>2
  <2> HIDE DEF F
  <2> QED BY Zenon, <2>3
<1>3. Rehash(x, grow) = F[N]
  BY Zenon DEF Rehash
<1> HIDE DEF F, clean
<1>4. 0 \in G
  <2>1. 0 \in 0..N
    BY <1>0
  <2>2. F[0] = clean
    BY Zenon, <1>2, <2>1
  <2>3. /\ IsMap(clean) /\ clean.len = c /\ clean.size = x.size /\ clean.vals = x.vals
        /\ clean.cap = x.cap /\ clean.idx = i0 /\ clean.dist = d0
    <3> HIDE DEF i0, d0
    <3> QED BY <1>1 DEF IsMap
  <2>4. Below(x, 0) = {}
    <3>1. \A s \in Nat : ~(s < 0)
      OBVIOUS
    <3> QED BY Zenon, <1>0, <3>1 DEF Below, LiveSlots
  <2>5. Table(c, i0, d0, {}, Hashes(x))
    BY Zenon, EmptyTable
  <2> HIDE DEF i0, d0
  <2>6. Rehashed(x, c, 0, clean)
    BY Zenon, <2>3, <2>4, <2>5 DEF Rehashed
  <2> QED BY Zenon, <2>1, <2>2, <2>6
<1>5. ASSUME NEW i \in 1..N, i - 1 \in G PROVE i \in G
  <2>1. i \in 0..N /\ i # 0
    BY <1>0
  <2>2. F[i] = Place(F[i - 1], i)
    BY Zenon, <1>2, <2>1
  <2>3. Rehashed(x, c, i - 1, F[i - 1])
    BY Zenon, <1>5
  <2>4. Rehashed(x, c, i, Place(F[i - 1], i))
    BY Zenon, <2>3, RehashedNext
  <2> QED BY Zenon, <2>1, <2>2, <2>4
<1>6. N \in G
  <2>1. N \in 0..N
    BY <1>0
  <2> HIDE DEF G
  <2> QED BY Zenon, <1>0, <1>4, <1>5, <2>1, UpTo
<1>7. Rehashed(x, c, N, F[N])
  BY Zenon, <1>6
<1>8. Below(x, N) = Slots(x)
  <2>1. ASSUME NEW s \in Slots(x) PROVE s < N
    <3>1. s \in Nat /\ s + 1 \in 1..N
      BY Zenon, <1>0, <2>1 DEF LiveSlots
    <3> QED BY <1>0, <3>1
  <2> QED BY Zenon, <2>1 DEF Below
<1> QED BY Zenon, <1>3, <1>7, <1>8 DEF Rehashed

=============================================================================

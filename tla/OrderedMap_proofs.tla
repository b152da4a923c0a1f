------------------------- MODULE OrderedMap_proofs -------------------------
(***************************************************************************)
(* Theorems about OrderedMap: whatever the number of keys, their hashes    *)
(* and the size of the map, the buckets stay a Robin Hood table of the     *)
(* entries and lookup finds every key that is in the map and no other.     *)
(***************************************************************************)
EXTENDS OrderedTable_proofs

-----------------------------------------------------------------------------
(* insert *)

\* The entries of a vector with one more entry at its end.
OneMore(x, y, e) ==
  /\ Live(y) = Live(x) \cup {Len(x.vals) + 1} /\ Slots(y) = Slots(x) \cup {Len(x.vals)}
  /\ Len(x.vals) \notin Slots(x) /\ Cardinality(Live(y)) = Cardinality(Live(x)) + 1
  /\ \A n \in Slots(x) : Hashes(y)[n] = Hashes(x)[n]
  /\ Hashes(y)[Len(x.vals)] = e.hash /\ Len(y.vals) = Len(x.vals) + 1

Absent(x, k) == \A a \in Live(x) : x.vals[a].key # k

\* OrderedMapEntries::add of an entry with a new key.
LEMMA AppendOK ==
  ASSUME NEW x, NEW hs, ValsOK(x.vals, hs), NEW e \in Entry, e.hash = hs[e.key], Absent(x, e.key),
         NEW y, y.vals = Append(x.vals, e)
  PROVE  ValsOK(y.vals, hs) /\ OneMore(x, y, e)
<1> DEFINE u == x.vals
           v == y.vals
           N == Len(u)
           n == N + 1
<1>1. u \in Seq(Entry \cup {Hole}) /\ DOMAIN u = 1..N /\ N \in Nat /\ LiveSlots(x)
  BY Zenon, ValsAre, HashesOK
<1>2. v \in Seq(Entry \cup {Hole}) /\ Len(v) = n /\ DOMAIN v = 1..n /\ v[n] = e /\ v # << >>
  <2>1. v = Append(u, e) /\ e \in Entry \cup {Hole}
    BY Zenon
  <2> HIDE DEF u, v
  <2> QED BY <1>1, <2>1
<1>3. \A a \in 1..N : v[a] = u[a]
  <2>1. v = Append(u, e)
    BY Zenon
  <2> HIDE DEF u, v
  <2> QED BY <1>1, <2>1
<1>4. (\A a : a \in 1..n <=> a \in 1..N \/ a = n) /\ n \notin 1..N
  <2> HIDE DEF N
  <2> QED BY <1>1
<1>5. e # Hole /\ e.key # NoKey
  BY Zenon, EntryNotHole
<1> HIDE DEF n, N
<1>6. Live(y) = Live(x) \cup {n} /\ n \notin Live(x)
  BY ZenonT(40), <1>1, <1>2, <1>3, <1>4, <1>5 DEF Live
<1>7. LiveSlots(y)
  BY Zenon, <1>2, LiveSlotsOK
<1>8. ValsOK(v, hs)
  <2>1. ASSUME NEW a \in 1..n, v[a] # Hole PROVE v[a].hash = hs[v[a].key]
    <3>1. CASE a = n
      BY Zenon, <1>2, <3>1
    <3>2. CASE a \in 1..N
      <4>1. v[a] = u[a] /\ u[a] # Hole /\ a \in 1..Len(u)
        BY Zenon, <1>3, <2>1, <3>2 DEF N
      <4>2. u[a].hash = hs[u[a].key]
        BY Zenon, <4>1, ValsAre
      <4> QED BY Zenon, <4>1, <4>2
    <3> QED BY Zenon, <1>4, <3>1, <3>2
  <2>2. ASSUME NEW a \in 1..n, NEW b \in 1..n, v[a] # Hole, v[a].key = v[b].key PROVE a = b
    <3>0. v[b] # Hole
      <4>1. v[a] \in Entry
        <5>1. v[a] \in Entry \cup {Hole}
          BY <1>2
        <5> QED BY ZenonT(40), <2>2, <5>1
      <4>2. v[a].key # NoKey
        BY Zenon, <4>1, EntryNotHole
      <4>3. Hole.key = NoKey
        BY DEF Hole
      <4> QED BY Zenon, <2>2, <4>2, <4>3
    <3>1. CASE a \in 1..N /\ b \in 1..N
      <4>1. u[a] # Hole /\ u[a].key = u[b].key
        BY Zenon, <1>3, <2>2, <3>1
      <4> QED BY Zenon, <1>1, <3>1, <4>1 DEF ValsOK
    <3>2. CASE a = n /\ b \in 1..N
      <4>1. b \in Live(x)
        BY Zenon, <1>1, <1>3, <3>0, <3>2 DEF Live
      <4> QED BY Zenon, <1>2, <1>3, <2>2, <3>2, <4>1 DEF Absent
    <3>3. CASE a \in 1..N /\ b = n
      <4>1. a \in Live(x)
        BY Zenon, <1>1, <1>3, <2>2, <3>3 DEF Live
      <4> QED BY Zenon, <1>2, <1>3, <2>2, <3>3, <4>1 DEF Absent
    <3> QED BY Zenon, <1>4, <3>1, <3>2, <3>3
  <2> QED BY Zenon, <1>2, <1>5, <2>1, <2>2 DEF ValsOK
<1>9. Slots(y) = Slots(x) \cup {N} /\ N \notin Slots(x)
  <2>1. \A s \in Nat : s + 1 = n <=> s = N
    BY <1>1 DEF n
  <2>2. \A s \in Slots(y) : s \in Nat /\ s + 1 \in Live(y)
    BY Zenon, <1>7 DEF LiveSlots
  <2>3. \A s \in Slots(x) : s \in Nat /\ s + 1 \in Live(x)
    BY Zenon, <1>1 DEF LiveSlots
  <2>4. \A s \in Nat : s + 1 \in Live(y) => s \in Slots(y)
    BY Zenon, <1>7 DEF LiveSlots
  <2>5. \A s \in Nat : s + 1 \in Live(x) => s \in Slots(x)
    BY Zenon, <1>1 DEF LiveSlots
  <2>6. N + 1 = n
    BY Zenon DEF n
  <2> QED BY ZenonT(40), <1>1, <1>6, <2>1, <2>2, <2>3, <2>4, <2>5, <2>6
<1>10. Cardinality(Live(y)) = Cardinality(Live(x)) + 1
  <2> DEFINE L == Live(x)
  <2>1. IsFiniteSet(L) /\ n \notin L /\ Live(y) = L \cup {n}
    BY Zenon, <1>1, <1>6 DEF LiveSlots
  <2> HIDE DEF L
  <2>2. Cardinality(L \cup {n}) = IF n \in L THEN Cardinality(L) ELSE Cardinality(L) + 1
    BY Zenon, <2>1, FS_AddElement
  <2> QED BY Zenon, <2>1, <2>2 DEF L
<1>11. ASSUME NEW s \in Slots(x) PROVE Hashes(y)[s] = Hashes(x)[s]
  <2>1. s + 1 \in 1..N
    BY Zenon, <1>1, <1>11 DEF LiveSlots, N
  <2> QED BY Zenon, <1>3, <1>9, <2>1 DEF Hashes
<1>12. Hashes(y)[N] = e.hash
  BY Zenon, <1>2, <1>9 DEF Hashes, n
<1> QED BY Zenon, <1>2, <1>6, <1>8, <1>9, <1>10, <1>11, <1>12 DEF OneMore, n, N

\* A map that has room for one more entry, and the place of the entry e with a
\* new key: d buckets behind its own.
Room(x, hs, e, b, d) ==
  /\ IsMap(x) /\ ValsOK(x.vals, hs) /\ Table(x.len, x.idx, x.dist, Slots(x), Hashes(x))
  /\ x.len \in Nat /\ x.len > 1 /\ x.cap \in Nat /\ x.cap # 1 /\ Len(x.vals) <= x.cap
  /\ 10 * (Cardinality(Live(x)) + 1) <= 9 * x.len /\ Cardinality(Live(x)) + 1 <= MaxSize
  /\ e \in Entry /\ e.hash = hs[e.key] /\ Absent(x, e.key)
  /\ b \in 0..(x.len - 1) /\ d \in Nat /\ b = (e.hash + d) % x.len
  /\ Ordered(x.len, x.idx, x.dist, b, d)

\* The capacity of the vector after add.
NewCap(n, c) == IF n # c THEN c ELSE IF c = 0 THEN InitCap ELSE c + c \div 2

\* The capacity of the vector grows before it is exceeded.
LEMMA CapOK ==
  ASSUME NEW n \in Nat, NEW c \in Nat, c # 1, n <= c
  PROVE  NewCap(n, c) \in Nat /\ NewCap(n, c) # 1 /\ n + 1 <= NewCap(n, c)
<1>1. InitCap \in Nat /\ InitCap > 1
  BY Zenon, SizeAssumption
<1>2. CASE n # c
  BY <1>2 DEF NewCap
<1>3. CASE n = c /\ c = 0
  BY <1>1, <1>3 DEF NewCap
<1>4. CASE n = c /\ c # 0
  <2>1. c \div 2 \in Nat /\ c \div 2 >= 1
    BY <1>4
  <2> DEFINE h == c \div 2
  <2>2. h \in Nat /\ h >= 1
    BY Zenon, <2>1
  <2> HIDE DEF h
  <2>3. c + h \in Nat /\ c + h # 1 /\ n + 1 <= c + h
    BY <1>4, <2>2
  <2> QED BY Zenon, <1>4, <2>3 DEF NewCap, h
<1> QED BY Zenon, <1>2, <1>3, <1>4

\* The map with the new entry.
Added(x, e, z) == IsMap(z) /\ z.len = x.len /\ z.vals = Append(x.vals, e) /\ z.idx # << >>

\* The last lines of insert.
LEMMA AddOK ==
  ASSUME NEW x, NEW hs, NEW e, NEW b, NEW d, Room(x, hs, e, b, d),
         NEW s, s = Cardinality(Live(x)) + 1
  PROVE  LET z == [InsertEntryIndex(Add(x, e), Len(x.vals), b, d) EXCEPT !.size = s]
         IN  MapOK(z, hs) /\ Added(x, e, z)
<1> DEFINE c == x.len
           N == Len(x.vals)
           g == NewCap(Len(x.vals), x.cap)
           w == Add(x, e)
           y == InsertEntryIndex(w, N, b, d)
           z == [y EXCEPT !.size = s]
           D == Slots(x)
<1>1. /\ IsMap(x) /\ ValsOK(x.vals, hs) /\ Table(c, x.idx, x.dist, D, Hashes(x))
      /\ c \in Nat /\ c > 1 /\ x.cap \in Nat /\ x.cap # 1 /\ N <= x.cap
      /\ e \in Entry /\ e.hash = hs[e.key] /\ Absent(x, e.key)
      /\ b \in 0..(c - 1) /\ d \in Nat /\ b = (e.hash + d) % c /\ Ordered(c, x.idx, x.dist, b, d)
  BY Zenon DEF Room
<1>2. LiveSlots(x) /\ N \in Nat /\ Hashes(x) \in [D -> Nat]
  BY Zenon, <1>1, ValsAre, HashesOK
<1>3. g \in Nat /\ g # 1 /\ N + 1 <= g
  BY Zenon, <1>1, <1>2, CapOK
<1>4. w = [x EXCEPT !.cap = g, !.vals = Append(x.vals, e)]
  BY Zenon DEF Add, NewCap
<1> HIDE DEF w, g, N
<1>5. /\ IsMap(w) /\ w.len = c /\ w.dist = x.dist /\ w.idx = x.idx /\ w.cap = g
      /\ w.vals = Append(x.vals, e)
  <2>1. Fields(w, c, x.size, x.dist, x.idx, Append(x.vals, e), g)
    BY Zenon, <1>1, <1>4, WithCapVals
  <2> QED BY Zenon, <2>1 DEF Fields
<1>6. ValsOK(w.vals, hs) /\ OneMore(x, w, e)
  BY Zenon, <1>1, <1>5, AppendOK
<1>7. /\ Live(w) = Live(x) \cup {N + 1} /\ Slots(w) = D \cup {N} /\ N \notin D
      /\ Cardinality(Live(w)) = s
      /\ (\A n \in D : Hashes(w)[n] = Hashes(x)[n]) /\ Hashes(w)[N] = e.hash /\ Len(w.vals) = N + 1
  BY Zenon, <1>6 DEF OneMore, N
<1> DEFINE H == Hashes(w)
<1>8. D \in SUBSET Nat /\ IsFiniteSet(D) /\ Cardinality(D) = Cardinality(Live(x)) /\ Cardinality(D) \in Nat
  BY Zenon, <1>2 DEF LiveSlots
<1>9. Cardinality(D) < c /\ c \in Nat \ {0} /\ 10 * s <= 9 * c /\ s <= MaxSize
  <2> DEFINE t == Cardinality(D)
  <2>1. 10 * (t + 1) <= 9 * c /\ t \in Nat /\ c \in Nat /\ c > 1 /\ s = t + 1 /\ s <= MaxSize
    BY Zenon, <1>1, <1>8 DEF Room
  <2> HIDE DEF t
  <2>2. t < c /\ c \in Nat \ {0} /\ 10 * s <= 9 * c
    BY <2>1
  <2> QED BY Zenon, <2>1, <2>2 DEF t
<1>10. \A n \in D \cup {N} : H[n] \in Nat
  <2>1. e.hash \in Nat
    BY <1>1 DEF Entry
  <2> QED BY ZenonT(40), <1>2, <1>7, <2>1
<1>11. Table(c, w.idx, w.dist, D, H)
  <2>1. -1 \notin D
    <3>1. -1 \notin Nat
      OBVIOUS
    <3> QED BY Zenon, <1>8, <3>1
  <2> DEFINE idx == x.idx
             dist == x.dist
             K == Hashes(x)
  <2>2. (\A n \in D : K[n] = H[n]) /\ Table(c, idx, dist, D, K)
    BY Zenon, <1>1, <1>7
  <2> HIDE DEF idx, dist, K, D, H
  <2>3. Table(c, idx, dist, D, H)
    BY Zenon, <2>1, <2>2, TableSame
  <2> QED BY Zenon, <1>5, <2>3 DEF idx, dist
<1>12. b = Home(c, H, N, d)
  BY Zenon, <1>1, <1>7 DEF Home
<1>13. Table(c, y.idx, y.dist, D \cup {N}, H) /\ SameEntries(w, y)
  <2>1. N \in Nat \ D /\ Ordered(c, w.idx, w.dist, b, d)
    BY Zenon, <1>1, <1>2, <1>5, <1>7
  <2> HIDE DEF H, c, D
  <2> QED BY Zenon, <1>1, <1>5, <1>8, <1>9, <1>10, <1>11, <1>12, <2>1, InsertOK
<1> HIDE DEF y
<1>14. /\ IsMap(y) /\ y.len = c /\ y.vals = w.vals /\ y.cap = g
  BY Zenon, <1>5, <1>13 DEF SameEntries
<1>15. z = [y EXCEPT !.size = s]
  BY Zenon
<1> HIDE DEF z
<1>16. /\ IsMap(z) /\ z.len = c /\ z.size = s /\ z.dist = y.dist /\ z.idx = y.idx
       /\ z.vals = w.vals /\ z.cap = g
  <2>1. Fields(z, y.len, s, y.dist, y.idx, y.vals, y.cap)
    BY <1>14, <1>15, WithSize
  <2> QED BY Zenon, <1>14, <2>1 DEF Fields
<1>17. Live(z) = Live(w) /\ Slots(z) = Slots(w) /\ Hashes(z) = H
  BY Zenon, <1>16 DEF Live, Slots, Hashes
<1>18. z.idx # << >>
  <2>1. 0 \in 0..(c - 1)
    BY <1>9
  <2>2. DOMAIN y.idx = 0..(c - 1)
    BY Zenon, <1>13 DEF Table
  <2>3. DOMAIN << >> = {}
    OBVIOUS
  <2> QED BY Zenon, <1>16, <2>1, <2>2, <2>3
<1>19. CountsOK(z)
  BY Zenon, <1>1, <1>3, <1>7, <1>9, <1>16, <1>17 DEF CountsOK
<1>20. Table(z.len, z.idx, z.dist, Slots(z), Hashes(z)) /\ 10 * z.size <= 9 * z.len
  BY Zenon, <1>7, <1>9, <1>13, <1>16, <1>17
<1>21. MapOK(z, hs)
  BY Zenon, <1>6, <1>16, <1>18, <1>19, <1>20 DEF MapOK
<1>22. Added(x, e, z)
  BY Zenon, <1>5, <1>16, <1>18 DEF Added
<1> QED BY Zenon, <1>21, <1>22 DEF z, y, w, N

\* A map whose buckets are allocated.
LEMMA MapIs ==
  ASSUME NEW x, NEW hs, MapOK(x, hs), x.idx # << >>
  PROVE  /\ IsMap(x) /\ ValsOK(x.vals, hs) /\ Table(x.len, x.idx, x.dist, Slots(x), Hashes(x))
         /\ x.len \in Nat \ {0} /\ x.len > 1 /\ x.cap \in Nat /\ x.cap # 1 /\ Len(x.vals) <= x.cap
         /\ x.size = Cardinality(Live(x)) /\ x.size \in Nat /\ x.size <= MaxSize /\ 10 * x.size <= 9 * x.len
         /\ LiveSlots(x) /\ Indexed(x, Slots(x), Hashes(x)) /\ \E e \in 0..(x.len - 1) : x.idx[e] = -1
<1>1. /\ IsMap(x) /\ ValsOK(x.vals, hs) /\ Table(x.len, x.idx, x.dist, Slots(x), Hashes(x))
      /\ x.len \in Nat /\ x.len > 1 /\ x.cap \in Nat /\ x.cap # 1 /\ Len(x.vals) <= x.cap
      /\ x.size = Cardinality(Live(x)) /\ x.size <= MaxSize /\ 10 * x.size <= 9 * x.len
  BY Zenon DEF MapOK, CountsOK
<1>2. /\ LiveSlots(x) /\ Hashes(x) \in [Slots(x) -> Nat]
      /\ \A n \in Slots(x) : Hashes(x)[n] = x.vals[n + 1].hash
  BY Zenon, <1>1, HashesOK
<1>3. x.size \in Nat /\ Cardinality(Slots(x)) = x.size /\ IsFiniteSet(Slots(x)) /\ Slots(x) \in SUBSET Nat
  BY Zenon, <1>1, <1>2 DEF LiveSlots
<1>4. Indexed(x, Slots(x), Hashes(x))
  BY Zenon, <1>1, <1>2, <1>3 DEF Indexed
<1>5. x.len \in Nat \ {0} /\ x.size < x.len
  <2> DEFINE s == x.size
             c == x.len
  <2>1. s \in Nat /\ c \in Nat /\ c > 1 /\ 10 * s <= 9 * c
    BY Zenon, <1>1, <1>3
  <2> HIDE DEF s, c
  <2>2. c \in Nat \ {0} /\ s < c
    BY <2>1
  <2> QED BY Zenon, <2>2 DEF s, c
<1>6. \E e \in 0..(x.len - 1) : x.idx[e] = -1
  <2> DEFINE c == x.len
             idx == x.idx
             dist == x.dist
             D == Slots(x)
             H == Hashes(x)
  <2>1. Table(c, idx, dist, D, H) /\ IsFiniteSet(D) /\ Cardinality(D) < c /\ c \in Nat \ {0}
    BY Zenon, <1>1, <1>3, <1>5
  <2> HIDE DEF c, idx, dist, D, H
  <2>2. \E e \in 0..(c - 1) : idx[e] = -1
    BY <2>1, EmptyBucket
  <2> QED BY Zenon, <2>2 DEF c, idx
<1> QED BY Zenon, <1>1, <1>2, <1>3, <1>4, <1>5, <1>6

\* A bucket that holds a key has its entry, and a key that no bucket holds has
\* none.
KeyHeld(x, h, k) ==
  /\ \A b \in 0..(x.len - 1) : Holds(x, b, h, k) =>
       x.idx[b] \in Slots(x) /\ x.idx[b] + 1 \in Live(x) /\ x.vals[x.idx[b] + 1].key = k
  /\ (\A b \in 0..(x.len - 1) : ~Holds(x, b, h, k)) => Absent(x, k)

\* The buckets hold the keys of the entries.
LEMMA HoldsKey ==
  ASSUME NEW x, NEW hs, MapOK(x, hs), x.idx # << >>, NEW k
  PROVE  KeyHeld(x, hs[k], k)
<1>1. LiveSlots(x) /\ Table(x.len, x.idx, x.dist, Slots(x), Hashes(x)) /\ ValsOK(x.vals, hs)
  BY Zenon, MapIs
<1>2. ASSUME NEW b \in 0..(x.len - 1), Holds(x, b, hs[k], k)
      PROVE  x.idx[b] \in Slots(x) /\ x.idx[b] + 1 \in Live(x) /\ x.vals[x.idx[b] + 1].key = k
  <2>1. x.idx[b] > -1 /\ x.vals[x.idx[b] + 1].key = k
    BY Zenon, <1>2 DEF Holds
  <2>2. x.idx[b] \in Slots(x) \cup {-1}
    BY Zenon, <1>1 DEF Table
  <2>3. ~(-1 > -1)
    OBVIOUS
  <2>4. x.idx[b] \in Slots(x)
    BY Zenon, <2>1, <2>2, <2>3
  <2> QED BY Zenon, <1>1, <2>1, <2>4 DEF LiveSlots
<1>3. ASSUME NEW a \in Live(x), x.vals[a].key = k PROVE \E b \in 0..(x.len - 1) : Holds(x, b, hs[k], k)
  <2>1. a \in 1..Len(x.vals) /\ x.vals[a] # Hole
    BY Zenon, <1>1, <1>3 DEF LiveSlots, Live
  <2>2. a - 1 \in Nat /\ (a - 1) + 1 = a /\ a - 1 > -1
    <3>1. Len(x.vals) \in Nat
      BY Zenon, <1>1, ValsAre
    <3> QED BY <2>1, <3>1
  <2>3. PICK b \in 0..(x.len - 1) : x.idx[b] = a - 1
    <3>1. a - 1 \in Slots(x)
      BY Zenon, <1>1, <1>3, <2>2 DEF LiveSlots
    <3> QED BY Zenon, <1>1, <3>1 DEF Table
  <2>4. x.vals[a].hash = hs[k]
    <3>1. x.vals[a].hash = hs[x.vals[a].key]
      BY Zenon, <1>1, <2>1, ValsAre
    <3> QED BY Zenon, <1>3, <3>1
  <2> QED BY Zenon, <1>3, <2>2, <2>3, <2>4 DEF Holds
<1> QED BY Zenon, <1>2, <1>3 DEF Absent, KeyHeld

\* What insert leaves: the new entry behind the others, compacted or not.
Inserted(x, hs, e, z) ==
  MapOK(z, hs) /\ z.idx # << >> /\ \E u \in {x.vals, Pack(x.vals)} : z.vals = Append(u, e)

\* The vector that rehash starts from has room for the entry.
LEMMA CompactedOK ==
  ASSUME NEW x, NEW hs, MapOK(x, hs), x.idx # << >>, NEW k, Absent(x, k), NEW pack \in BOOLEAN
  PROVE  LET w == IF pack THEN Compact(x) ELSE x
         IN  /\ IsMap(w) /\ ValsOK(w.vals, hs) /\ w.len = x.len /\ w.cap = x.cap /\ w.size = x.size
             /\ Len(w.vals) <= x.cap /\ Cardinality(Live(w)) = x.size /\ Absent(w, k)
             /\ w.vals \in {x.vals, Pack(x.vals)}
<1>1. /\ IsMap(x) /\ ValsOK(x.vals, hs) /\ x.cap \in Nat /\ Len(x.vals) <= x.cap
      /\ x.size = Cardinality(Live(x)) /\ LiveSlots(x) /\ x.size \in Nat
  BY Zenon, MapIs
<1>2. CASE ~pack
  BY Zenon, <1>1, <1>2
<1>3. CASE pack
  <2> DEFINE w == Compact(x)
  <2>1. /\ IsMap(w) /\ ValsOK(w.vals, hs) /\ w.len = x.len /\ w.size = x.size /\ w.cap = x.cap
        /\ Live(w) = 1..Len(w.vals) /\ Len(w.vals) = x.size
        /\ \A q : (\E a \in Live(w) : w.vals[a].key = q) => \E a \in Live(x) : x.vals[a].key = q
    BY Zenon, <1>1, CompactOK
  <2>2. w.vals = Pack(x.vals)
    <3>1. w = [x EXCEPT !.vals = Pack(x.vals)]
      BY Zenon DEF Compact
    <3> HIDE DEF w
    <3>2. Fields(w, x.len, x.size, x.dist, x.idx, Pack(x.vals), x.cap)
      BY Zenon, <1>1, <3>1, WithVals
    <3> QED BY Zenon, <3>2 DEF Fields
  <2> HIDE DEF w
  <2>3. Absent(w, k)
    BY Zenon, <2>1 DEF Absent
  <2> DEFINE s == x.size
  <2>4. Cardinality(Live(w)) = s
    <3>1. s \in Nat /\ Live(w) = 1..s
      BY Zenon, <1>1, <2>1
    <3> HIDE DEF s
    <3>2. Cardinality(1..s) = s
      BY <3>1, FS_Interval
    <3> QED BY Zenon, <3>1, <3>2
  <2>5. s <= Len(x.vals)
    <3> DEFINE N == Len(x.vals)
    <3>1. N \in Nat /\ Live(x) \in SUBSET (1..N)
      BY Zenon, <1>1, ValsAre DEF LiveSlots
    <3>2. s = Cardinality(Live(x))
      BY Zenon, <1>1
    <3> HIDE DEF s, N
    <3>3. IsFiniteSet(1..N) /\ Cardinality(1..N) = N
      BY <3>1, FS_Interval
    <3>4. Cardinality(Live(x)) <= Cardinality(1..N)
      BY Zenon, <3>1, <3>3, FS_Subset
    <3> QED BY Zenon, <3>2, <3>3, <3>4 DEF N
  <2>6. Len(w.vals) <= x.cap
    <3> DEFINE N == Len(x.vals)
               c == x.cap
    <3>1. s \in Nat /\ N \in Nat /\ c \in Nat /\ s <= N /\ N <= c
      BY Zenon, <1>1, <2>5, ValsAre
    <3> HIDE DEF s, N, c
    <3>2. s <= c
      BY <3>1
    <3> QED BY Zenon, <2>1, <3>2 DEF s, c
  <2> QED BY Zenon, <1>3, <2>1, <2>2, <2>3, <2>4, <2>6 DEF w
<1> QED BY Zenon, <1>2, <1>3

\* insert of a new key keeps the map well formed, compacted and rehashed or not.
LEMMA AddEntryOK ==
  ASSUME NEW x, NEW hs, MapOK(x, hs), x.idx # << >>, x.size # MaxSize,
         NEW e \in Entry, e.hash = hs[e.key], NEW p, ProbeResult(x, e.hash, e.key, p), ~p.found
  PROVE  Inserted(x, hs, e, AddEntry(x, p, e))
<1> DEFINE k == e.key
           grow == NeedGrow(x)
           pack == NeedCompaction(x)
           s == x.size
           c == x.len
<1>1. /\ IsMap(x) /\ ValsOK(x.vals, hs) /\ Table(c, x.idx, x.dist, Slots(x), Hashes(x))
      /\ c \in Nat \ {0} /\ c > 1 /\ x.cap \in Nat /\ x.cap # 1 /\ Len(x.vals) <= x.cap
      /\ s = Cardinality(Live(x)) /\ s \in Nat /\ s <= MaxSize /\ 10 * s <= 9 * c
  BY Zenon, MapIs
<1>2. Absent(x, k)
  <2>1. \A b \in 0..(x.len - 1) : ~Holds(x, b, hs[k], k)
    BY Zenon DEF ProbeResult
  <2> QED BY Zenon, <2>1, HoldsKey DEF KeyHeld
<1>3. grow \in BOOLEAN /\ pack \in BOOLEAN /\ (grow <=> 10 * (s + 1) > 9 * c)
  <2>1. grow <=> 10 * (s + 1) > 9 * c
    BY Zenon DEF NeedGrow
  <2>2. grow \in BOOLEAN
    BY DEF NeedGrow
  <2>3. pack \in BOOLEAN
    BY DEF NeedCompaction
  <2> QED BY Zenon, <2>1, <2>2, <2>3
<1>4. e.hash \in Nat
  BY DEF Entry
<1>5. s + 1 <= MaxSize /\ s + 1 \in Nat
  <2>1. MaxSize \in Nat /\ s # MaxSize
    BY Zenon, SizeAssumption
  <2> HIDE DEF s
  <2> QED BY <1>1, <2>1
<1>6. CASE ~grow /\ ~pack
  <2> DEFINE b == p.bucket
             d == p.dist
             z == [InsertEntryIndex(Add(x, e), Len(x.vals), b, d) EXCEPT !.size = s + 1]
  <2>1. AddEntry(x, p, e) = z
    BY Zenon, <1>6 DEF AddEntry
  <2>2. 10 * (s + 1) <= 9 * c
    <3>1. ~(10 * (s + 1) > 9 * c)
      BY Zenon, <1>3, <1>6
    <3> HIDE DEF s, c
    <3> QED BY <1>1, <3>1
  <2>3. /\ b \in 0..(c - 1) /\ d \in Nat /\ b = (e.hash + d) % c /\ Ordered(c, x.idx, x.dist, b, d)
    BY Zenon DEF ProbeResult
  <2>4. Room(x, hs, e, b, d)
    BY Zenon, <1>1, <1>2, <1>5, <2>2, <2>3 DEF Room
  <2>5. MapOK(z, hs) /\ Added(x, e, z)
    BY Zenon, <1>1, <2>4, AddOK
  <2> HIDE DEF z
  <2> QED BY Zenon, <2>1, <2>5 DEF Inserted, Added
<1>7. CASE grow \/ pack
  <2> DEFINE w == IF pack THEN Compact(x) ELSE x
             r == Rehash(w, grow)
             g == IF grow THEN 2 * c ELSE c
             h == e.hash
             b == BucketIndex(r, h)
             z == [InsertEntryIndex(Add(r, e), Len(r.vals), b, 0) EXCEPT !.size = s + 1]
  <2>1. AddEntry(x, p, e) = z
    BY Zenon, <1>7 DEF AddEntry
  <2>2. /\ IsMap(w) /\ ValsOK(w.vals, hs) /\ w.len = c /\ w.cap = x.cap
        /\ Len(w.vals) <= x.cap /\ Cardinality(Live(w)) = s /\ Absent(w, k)
        /\ w.vals \in {x.vals, Pack(x.vals)}
    BY Zenon, <1>2, <1>3, CompactedOK
  <2>3. g \in Nat \ {0} /\ g > 1 /\ s < g /\ 10 * (s + 1) <= 9 * g
    <3>1. c \in Nat \ {0} /\ c > 1 /\ s \in Nat /\ 10 * s <= 9 * c /\ (~grow => ~(10 * (s + 1) > 9 * c))
      BY Zenon, <1>1, <1>3
    <3> HIDE DEF s, c, grow
    <3>2. CASE grow
      BY <3>1, <3>2
    <3>3. CASE ~grow
      BY <3>1, <3>3
    <3> QED BY Zenon, <3>2, <3>3
  <2> HIDE DEF w
  <2>4. /\ IsMap(r) /\ r.len = g /\ r.vals = w.vals /\ r.cap = w.cap
        /\ Table(g, r.idx, r.dist, Slots(w), Hashes(w))
    <3>1. g = IF grow THEN 2 * w.len ELSE w.len
      BY Zenon, <2>2
    <3>2. Cardinality(Live(w)) < g
      BY Zenon, <2>2, <2>3
    <3> HIDE DEF g, grow
    <3> QED BY ZenonT(40), <1>3, <2>2, <2>3, <3>1, <3>2, RehashOK
  <2> HIDE DEF r
  <2>5. Live(r) = Live(w) /\ Slots(r) = Slots(w) /\ Hashes(r) = Hashes(w) /\ Absent(r, k)
    BY Zenon, <2>2, <2>4 DEF Live, Slots, Hashes, Absent
  <2>6. b \in 0..(g - 1) /\ b = (h + 0) % g /\ 0 \in Nat /\ Ordered(g, r.idx, r.dist, b, 0)
    <3>1. b = h % g
      BY Zenon, <2>4 DEF BucketIndex
    <3>2. ~(0 > 0) /\ 0 \in Nat
      OBVIOUS
    <3>3. Ordered(g, r.idx, r.dist, b, 0)
      BY Zenon, <3>2 DEF Ordered
    <3> HIDE DEF b, h, g
    <3>4. h \in Nat
      BY Zenon, <1>4 DEF h
    <3>5. h + 0 = h
      BY <3>4
    <3>6. h % g \in 0..(g - 1)
      BY <2>3, <3>4
    <3> QED BY Zenon, <3>1, <3>2, <3>3, <3>5, <3>6
  <2> HIDE DEF b
  <2>7. Room(r, hs, e, b, 0)
    BY Zenon, <1>1, <1>5, <2>2, <2>3, <2>4, <2>5, <2>6 DEF Room
  <2>8. s + 1 = Cardinality(Live(r)) + 1
    BY Zenon, <2>2, <2>5
  <2>9. MapOK(z, hs) /\ Added(r, e, z)
    BY Zenon, <2>7, <2>8, AddOK
  <2> HIDE DEF z
  <2> QED BY Zenon, <2>1, <2>2, <2>4, <2>9 DEF Inserted, Added
<1> QED BY Zenon, <1>6, <1>7

\* The buckets are allocated by the first insert.
LEMMA ReadyOK ==
  ASSUME NEW x, NEW hs, MapOK(x, hs)
  PROVE  LET y == IF x.idx = << >> THEN EmptyBuckets(x) ELSE x
         IN  MapOK(y, hs) /\ y.idx # << >> /\ y.vals = x.vals /\ y.size = x.size
<1>1. CASE x.idx # << >>
  BY Zenon, <1>1
<1>2. CASE x.idx = << >>
  <2> DEFINE c == x.len
             i0 == [b \in 0..(c - 1) |-> -1]
             d0 == [b \in 0..(c - 1) |-> 0]
             y == EmptyBuckets(x)
  <2>1. y = [x EXCEPT !.dist = d0, !.idx = i0]
    BY Zenon DEF EmptyBuckets
  <2>2. IsMap(x) /\ CountsOK(x) /\ ValsOK(x.vals, hs) /\ x.vals = << >>
    BY Zenon, <1>2 DEF MapOK
  <2>3. c \in Nat /\ c > 1 /\ x.size = Cardinality(Live(x))
    BY Zenon, <2>2 DEF CountsOK
  <2> HIDE DEF y
  <2>4. Fields(y, x.len, x.size, d0, i0, x.vals, x.cap)
    <3> HIDE DEF d0, i0
    <3> QED BY Zenon, <2>1, <2>2, WithTable
  <2>5. Live(x) = {} /\ Slots(x) = {} /\ x.size = 0
    <3>1. DOMAIN << >> = {}
      OBVIOUS
    <3>2. Live(x) = {}
      BY Zenon, <2>2, <3>1 DEF Live
    <3> QED BY Zenon, <2>3, <3>2, FS_EmptySet DEF Slots
  <2>6. Table(c, i0, d0, {}, Hashes(x))
    BY Zenon, EmptyTable
  <2>7. i0 # << >>
    <3>1. 0 \in 0..(c - 1)
      BY <2>3
    <3>2. DOMAIN << >> = {} /\ DOMAIN i0 = 0..(c - 1)
      OBVIOUS
    <3> HIDE DEF i0
    <3> QED BY Zenon, <3>1, <3>2
  <2> HIDE DEF i0, d0
  <2>8. /\ IsMap(y) /\ y.len = c /\ y.size = x.size /\ y.dist = d0 /\ y.idx = i0 /\ y.vals = x.vals
        /\ y.cap = x.cap
    BY Zenon, <2>4 DEF Fields
  <2>9. Live(y) = Live(x) /\ Slots(y) = Slots(x) /\ Hashes(y) = Hashes(x)
    BY Zenon, <2>8 DEF Live, Slots, Hashes
  <2>10. CountsOK(y)
    BY Zenon, <2>2, <2>8, <2>9 DEF CountsOK
  <2>11. 10 * y.size <= 9 * y.len
    <3>1. y.size = 0 /\ y.len = c
      BY Zenon, <2>5, <2>8
    <3>2. 10 * 0 <= 9 * c
      BY <2>3
    <3> QED BY Zenon, <3>1, <3>2
  <2>12. Table(y.len, y.idx, y.dist, Slots(y), Hashes(y))
    BY Zenon, <2>5, <2>6, <2>8, <2>9
  <2>13. MapOK(y, hs) /\ y.idx # << >> /\ y.vals = x.vals /\ y.size = x.size
    BY Zenon, <2>2, <2>7, <2>8, <2>10, <2>11, <2>12 DEF MapOK
  <2> QED BY Zenon, <1>2, <2>13 DEF y
<1> QED BY Zenon, <1>1, <1>2

\* What insert answers for a valid key: it is there, the map is full, or its
\* entry is new.
IsThere(x, k, r) ==
  /\ r.status = "INSERTED" /\ r.map.vals = x.vals /\ r.index \in Slots(r.map)
  /\ r.index + 1 \in Live(r.map) /\ r.map.vals[r.index + 1].key = k

IsFull(x, k, r) ==
  /\ r.status = "LIMIT" /\ Absent(x, k) /\ x.size = MaxSize
  /\ r.map.vals = x.vals /\ r.map.size = x.size /\ r.index = -1

IsNew(x, hs, k, v, r) ==
  /\ r.status = "OK" /\ Absent(x, k) /\ x.size # MaxSize /\ r.index = Len(r.map.vals) - 1
  /\ \E u \in {x.vals, Pack(x.vals)} : r.map.vals = Append(u, [key |-> k, val |-> v, hash |-> hs[k]])

InsertTo(x, hs, k, v, r) ==
  /\ MapOK(r.map, hs) /\ r.map.idx # << >>
  /\ IsThere(x, k, r) \/ IsFull(x, k, r) \/ IsNew(x, hs, k, v, r)

\* insert finds the key, refuses to grow beyond the limit or adds an entry.
LEMMA InsertIs ==
  ASSUME NEW x, NEW hs \in [Key -> Nat], MapOK(x, hs), NEW k \in Key, NEW v \in Val
  PROVE  InsertTo(x, hs, k, v, Insert(x, hs, k, v))
<1> DEFINE y == IF x.idx = << >> THEN EmptyBuckets(x) ELSE x
           p == Probe(y, hs[k], k)
           e == [key |-> k, val |-> v, hash |-> hs[k]]
           z == AddEntry(y, p, e)
           r == Insert(x, hs, k, v)
<1>1. MapOK(y, hs) /\ y.idx # << >> /\ y.vals = x.vals /\ y.size = x.size
  BY Zenon, ReadyOK
<1>2. r = IF k = NoKey THEN [map |-> x, index |-> -1, status |-> "INVALID_KEY"]
          ELSE IF p.found THEN [map |-> y, index |-> y.idx[p.bucket], status |-> "INSERTED"]
          ELSE IF y.size = MaxSize THEN [map |-> y, index |-> -1, status |-> "LIMIT"]
          ELSE [map |-> z, index |-> Len(z.vals) - 1, status |-> "OK"]
  BY Zenon DEF Insert
<1>3. k # NoKey
  BY Zenon, NoKeyAssumption
<1>4. hs[k] \in Nat
  BY Zenon
<1>5. e \in Entry /\ e.hash = hs[k] /\ e.key = k
  BY <1>4 DEF Entry
<1> HIDE DEF y, z, r, e
<1>6. ProbeResult(y, hs[k], k, p)
  <2>1. Indexed(y, Slots(y), Hashes(y)) /\ y.len \in Nat \ {0} /\ \E b \in 0..(y.len - 1) : y.idx[b] = -1
    BY Zenon, <1>1, MapIs
  <2>2. PICK b \in 0..(y.len - 1) : y.idx[b] = -1
    BY Zenon, <2>1
  <2> QED BY Zenon, <1>4, <2>1, <2>2, ProbeOK
<1> HIDE DEF p
<1>7. p.bucket \in 0..(y.len - 1) /\ (p.found => Holds(y, p.bucket, hs[k], k))
      /\ (~p.found => \A b \in 0..(y.len - 1) : ~Holds(y, b, hs[k], k))
  BY Zenon, <1>6 DEF ProbeResult
<1>8. ~p.found => Absent(x, k)
  <2>1. ~p.found => Absent(y, k)
    BY Zenon, <1>1, <1>7, HoldsKey DEF KeyHeld
  <2> QED BY Zenon, <1>1, <2>1 DEF Absent, Live
<1>9. CASE p.found
  <2> DEFINE n == y.idx[p.bucket]
  <2>1. n \in Slots(y) /\ n + 1 \in Live(y) /\ y.vals[n + 1].key = k
    <3>1. KeyHeld(y, hs[k], k)
      BY Zenon, <1>1, HoldsKey
    <3> QED BY Zenon, <1>7, <1>9, <3>1 DEF KeyHeld
  <2>2. r = [map |-> y, index |-> n, status |-> "INSERTED"]
    BY Zenon, <1>2, <1>3, <1>9
  <2> HIDE DEF n
  <2>3. r.map = y /\ r.index = n /\ r.status = "INSERTED"
    BY <2>2
  <2>4. IsThere(x, k, r)
    BY Zenon, <1>1, <2>1, <2>3 DEF IsThere
  <2> QED BY Zenon, <1>1, <2>3, <2>4 DEF InsertTo, r
<1>10. CASE ~p.found /\ y.size = MaxSize
  <2>1. r = [map |-> y, index |-> -1, status |-> "LIMIT"]
    BY Zenon, <1>2, <1>3, <1>10
  <2>2. r.map = y /\ r.index = -1 /\ r.status = "LIMIT"
    BY <2>1
  <2>3. IsFull(x, k, r)
    BY Zenon, <1>1, <1>8, <1>10, <2>2 DEF IsFull
  <2> QED BY Zenon, <1>1, <2>2, <2>3 DEF InsertTo, r
<1>11. CASE ~p.found /\ y.size # MaxSize
  <2>1. r = [map |-> z, index |-> Len(z.vals) - 1, status |-> "OK"]
    BY Zenon, <1>2, <1>3, <1>11
  <2>2. r.map = z /\ r.index = Len(z.vals) - 1 /\ r.status = "OK"
    BY <2>1
  <2>3. Inserted(y, hs, e, z)
    BY Zenon, <1>1, <1>5, <1>6, <1>11, AddEntryOK DEF z
  <2>4. MapOK(z, hs) /\ z.idx # << >> /\ \E u \in {x.vals, Pack(x.vals)} : z.vals = Append(u, e)
    BY Zenon, <1>1, <2>3 DEF Inserted
  <2>5. IsNew(x, hs, k, v, r)
    BY Zenon, <1>1, <1>8, <1>11, <2>2, <2>4 DEF IsNew, e
  <2> QED BY Zenon, <2>2, <2>4, <2>5 DEF InsertTo, r
<1> QED BY Zenon, <1>9, <1>10, <1>11

-----------------------------------------------------------------------------
(* Another value for a key *)

\* The vector with another value in slot n.
SetVal(vals, n, v) == [vals EXCEPT ![n].val = v]

\* u is the vector with the value v in slot n.
OtherVal(vals, hs, n, v, u) ==
  /\ ValsOK(u, hs) /\ Len(u) = Len(vals) /\ DOMAIN u = 1..Len(vals)
  /\ \A a \in 1..Len(vals) : (u[a] # Hole <=> vals[a] # Hole)
                             /\ u[a].key = vals[a].key /\ u[a].hash = vals[a].hash
  /\ \A a \in 1..Len(vals) : a # n => u[a] = vals[a]
  /\ u[n] = [key |-> vals[n].key, val |-> v, hash |-> vals[n].hash]

\* A value that is replaced leaves keys, hashes and holes alone.
LEMMA SetValIs ==
  ASSUME NEW vals, NEW hs, ValsOK(vals, hs), NEW n \in 1..Len(vals), vals[n] # Hole, NEW v \in Val
  PROVE  OtherVal(vals, hs, n, v, SetVal(vals, n, v))
<1> DEFINE N == Len(vals)
           e == [vals[n] EXCEPT !.val = v]
           u == SetVal(vals, n, v)
<1>1. /\ vals \in Seq(Entry \cup {Hole}) /\ DOMAIN vals = 1..N /\ N \in Nat
      /\ \A a \in 1..N : vals[a] # Hole => vals[a] \in Entry /\ vals[a].hash = hs[vals[a].key]
  BY Zenon, ValsAre
<1>2. vals[n] \in Entry
  BY Zenon, <1>1
<1>3. e = [key |-> vals[n].key, val |-> v, hash |-> vals[n].hash]
  <2> DEFINE o == vals[n]
  <2>1. o \in Entry
    BY Zenon, <1>2
  <2> HIDE DEF o
  <2>2. [o EXCEPT !.val = v] = [key |-> o.key, val |-> v, hash |-> o.hash]
    BY <2>1 DEF Entry
  <2> QED BY Zenon, <2>2 DEF o
<1>4. e \in Entry /\ e.key = vals[n].key /\ e.hash = vals[n].hash
  <2> DEFINE k == vals[n].key
             h == vals[n].hash
  <2>1. k \in Key /\ h \in Nat
    BY <1>2 DEF Entry
  <2>2. e = [key |-> k, val |-> v, hash |-> h]
    BY Zenon, <1>3
  <2> HIDE DEF k, h, e
  <2>3. e \in Entry /\ e.key = k /\ e.hash = h
    BY <2>1, <2>2 DEF Entry
  <2> QED BY Zenon, <2>3 DEF k, h
<1>5. u = [vals EXCEPT ![n] = e]
  BY Zenon DEF SetVal
<1> HIDE DEF e, u
<1>6. u \in Seq(Entry \cup {Hole}) /\ Len(u) = N /\ DOMAIN u = 1..N
  <2>1. e \in Entry \cup {Hole}
    BY Zenon, <1>4
  <2> QED BY <1>1, <1>5, <2>1
<1>7. u[n] = e /\ \A a \in 1..N : a # n => u[a] = vals[a]
  BY Zenon, <1>1, <1>5
<1>8. e # Hole
  BY Zenon, <1>4, EntryNotHole
<1>9. ASSUME NEW a \in 1..N
      PROVE  (u[a] # Hole <=> vals[a] # Hole) /\ u[a].key = vals[a].key /\ u[a].hash = vals[a].hash
  <2>1. CASE a = n
    BY Zenon, <1>4, <1>7, <1>8, <2>1
  <2>2. CASE a # n
    BY Zenon, <1>7, <2>2
  <2> QED BY Zenon, <2>1, <2>2
<1>10. ValsOK(u, hs)
  <2>1. ASSUME NEW a \in 1..N, u[a] # Hole PROVE u[a].hash = hs[u[a].key]
    BY Zenon, <1>1, <1>9, <2>1
  <2>2. ASSUME NEW a \in 1..N, NEW b \in 1..N, u[a] # Hole, u[a].key = u[b].key PROVE a = b
    <3>1. vals[a] # Hole /\ vals[a].key = vals[b].key
      BY Zenon, <1>9, <2>2
    <3> QED BY Zenon, <1>1, <3>1 DEF ValsOK
  <2>3. u[N] # Hole
    <3>1. vals # << >> /\ N \in 1..N
      BY <1>1
    <3>2. vals[N] # Hole
      BY Zenon, <3>1 DEF ValsOK
    <3> QED BY Zenon, <1>9, <3>1, <3>2
  <2> QED BY Zenon, <1>6, <2>1, <2>2, <2>3 DEF ValsOK
<1> QED BY Zenon, <1>3, <1>6, <1>7, <1>9, <1>10 DEF u, OtherVal

WithVal(x, hs, n, v, y) == MapOK(y, hs) /\ y.vals = SetVal(x.vals, n + 1, v)

\* The map stays well formed.
LEMMA SetValOK ==
  ASSUME NEW x, NEW hs, MapOK(x, hs), x.idx # << >>, NEW n, n + 1 \in Live(x), NEW v \in Val
  PROVE  WithVal(x, hs, n, v, [x EXCEPT !.vals[n + 1].val = v])
<1> DEFINE y == [x EXCEPT !.vals[n + 1].val = v]
           u == SetVal(x.vals, n + 1, v)
           N == Len(x.vals)
<1>1. y = [x EXCEPT !.vals = u]
  BY Zenon DEF SetVal
<1>2. IsMap(x) /\ CountsOK(x) /\ ValsOK(x.vals, hs) /\ LiveSlots(x)
  BY Zenon, MapIs DEF MapOK
<1>3. n + 1 \in 1..N /\ x.vals[n + 1] # Hole /\ DOMAIN x.vals = 1..N
  BY Zenon, <1>2, ValsAre DEF LiveSlots, Live
<1>4. /\ ValsOK(u, hs) /\ Len(u) = N /\ DOMAIN u = 1..N
      /\ \A a \in 1..N : (u[a] # Hole <=> x.vals[a] # Hole) /\ u[a].hash = x.vals[a].hash
  <2>1. OtherVal(x.vals, hs, n + 1, v, u)
    BY Zenon, <1>2, <1>3, SetValIs
  <2> QED BY Zenon, <2>1 DEF OtherVal
<1> HIDE DEF y, u
<1>5. Fields(y, x.len, x.size, x.dist, x.idx, u, x.cap)
  BY Zenon, <1>1, <1>2, WithVals
<1>6. /\ IsMap(y) /\ y.len = x.len /\ y.size = x.size /\ y.dist = x.dist /\ y.idx = x.idx
      /\ y.vals = u /\ y.cap = x.cap
  BY Zenon, <1>5 DEF Fields
<1>7. Live(y) = Live(x) /\ Slots(y) = Slots(x)
  <2>1. Live(y) = Live(x)
    BY Zenon, <1>3, <1>4, <1>6 DEF Live
  <2> QED BY Zenon, <2>1 DEF Slots
<1>8. Hashes(y) = Hashes(x)
  <2>1. \A s \in Slots(x) : y.vals[s + 1].hash = x.vals[s + 1].hash
    BY Zenon, <1>2, <1>4, <1>6 DEF LiveSlots
  <2> QED BY Zenon, <1>7, <2>1 DEF Hashes
<1>9. CountsOK(y)
  BY Zenon, <1>2, <1>4, <1>6, <1>7 DEF CountsOK
<1>10. Table(y.len, y.idx, y.dist, Slots(y), Hashes(y)) /\ 10 * y.size <= 9 * y.len
  BY Zenon, <1>6, <1>7, <1>8, MapIs
<1>11. MapOK(y, hs) /\ y.vals = u
  BY Zenon, <1>4, <1>6, <1>9, <1>10 DEF MapOK
<1> QED BY Zenon, <1>11 DEF WithVal, y, u

\* What put does: the key gets another value, the map is full, or the key gets
\* an entry.
Replaces(x, k, v, r) ==
  \E n \in Nat : /\ n + 1 \in Live(x) /\ x.vals[n + 1].key = k
                 /\ r.map.vals = SetVal(x.vals, n + 1, v) /\ r.ret = Ret("ok", NoKey, x.vals[n + 1].val)

Refuses(x, k, r) ==
  Absent(x, k) /\ x.size = MaxSize /\ r.map.vals = x.vals /\ r.ret = Ret("OutOfRangeError", NoKey, NoVal)

Appends(x, hs, k, v, r) ==
  /\ Absent(x, k) /\ x.size # MaxSize /\ r.ret = Ret("none", NoKey, NoVal)
  /\ \E u \in {x.vals, Pack(x.vals)} : r.map.vals = Append(u, [key |-> k, val |-> v, hash |-> hs[k]])

PutTo(x, hs, k, v, r) ==
  /\ MapOK(r.map, hs)
  /\ Replaces(x, k, v, r) \/ Refuses(x, k, r) \/ Appends(x, hs, k, v, r)

\* put of a valid key.
LEMMA PutValueOK ==
  ASSUME NEW x, NEW hs \in [Key -> Nat], MapOK(x, hs), NEW k \in Key, NEW v \in Val
  PROVE  PutTo(x, hs, k, v, PutValue(x, hs, k, v))
<1> DEFINE r == Insert(x, hs, k, v)
           w == [r.map EXCEPT !.vals[r.index + 1].val = v]
           a == [map |-> w, ret |-> Ret("ok", NoKey, r.map.vals[r.index + 1].val)]
           b == [map |-> r.map, ret |-> Ret("OutOfRangeError", NoKey, NoVal)]
           c == [map |-> r.map, ret |-> Ret("none", NoKey, NoVal)]
           p == PutValue(x, hs, k, v)
<1>1. InsertTo(x, hs, k, v, r)
  BY Zenon, InsertIs
<1>2. p = CASE r.status = "INSERTED" -> a [] r.status = "LIMIT" -> b [] OTHER -> c
  BY Zenon DEF PutValue
<1>3. MapOK(r.map, hs) /\ r.map.idx # << >>
  BY Zenon, <1>1 DEF InsertTo
<1> HIDE DEF r, a, b, c, p
<1>4. CASE IsThere(x, k, r)
  <2>1. /\ r.status = "INSERTED" /\ r.map.vals = x.vals /\ r.index \in Slots(r.map)
        /\ r.index + 1 \in Live(r.map) /\ r.map.vals[r.index + 1].key = k
    BY Zenon, <1>4 DEF IsThere
  <2>2. p = a
    <3>1. r.status # "LIMIT"
      BY <2>1
    <3> QED BY <1>2, <2>1, <3>1
  <2>3. MapOK(w, hs) /\ w.vals = SetVal(r.map.vals, r.index + 1, v)
    <3>1. WithVal(r.map, hs, r.index, v, w)
      BY Zenon, <1>3, <2>1, SetValOK
    <3> QED BY Zenon, <3>1 DEF WithVal
  <2>4. Live(r.map) = Live(x) /\ r.index \in Nat
    <3>1. LiveSlots(r.map)
      BY Zenon, <1>3, MapIs
    <3> QED BY Zenon, <2>1, <3>1 DEF Live, LiveSlots
  <2>5. p.map = w /\ p.ret = Ret("ok", NoKey, x.vals[r.index + 1].val)
    <3>1. a = [map |-> w, ret |-> Ret("ok", NoKey, x.vals[r.index + 1].val)]
      BY Zenon, <2>1 DEF a
    <3> HIDE DEF w
    <3> QED BY Zenon, <2>2, <3>1
  <2> HIDE DEF w
  <2>6. Replaces(x, k, v, p)
    BY Zenon, <2>1, <2>3, <2>4, <2>5 DEF Replaces
  <2> QED BY Zenon, <2>3, <2>5, <2>6 DEF PutTo, p
<1>5. CASE IsFull(x, k, r)
  <2>1. r.status = "LIMIT" /\ Absent(x, k) /\ x.size = MaxSize /\ r.map.vals = x.vals
    BY Zenon, <1>5 DEF IsFull
  <2>2. p = b
    <3>1. r.status # "INSERTED"
      BY <2>1
    <3> QED BY <1>2, <2>1, <3>1
  <2>3. p.map = r.map /\ p.ret = Ret("OutOfRangeError", NoKey, NoVal)
    BY Zenon, <2>2 DEF b
  <2>4. Refuses(x, k, p)
    BY Zenon, <2>1, <2>3 DEF Refuses
  <2> QED BY Zenon, <1>3, <2>3, <2>4 DEF PutTo, p
<1>6. CASE IsNew(x, hs, k, v, r)
  <2>1. /\ r.status = "OK" /\ Absent(x, k) /\ x.size # MaxSize
        /\ \E u \in {x.vals, Pack(x.vals)} : r.map.vals = Append(u, [key |-> k, val |-> v, hash |-> hs[k]])
    BY Zenon, <1>6 DEF IsNew
  <2>2. p = c
    <3>1. r.status # "INSERTED" /\ r.status # "LIMIT"
      BY <2>1
    <3> QED BY <1>2, <3>1
  <2>3. p.map = r.map /\ p.ret = Ret("none", NoKey, NoVal)
    BY Zenon, <2>2 DEF c
  <2>4. Appends(x, hs, k, v, p)
    BY Zenon, <2>1, <2>3 DEF Appends
  <2> QED BY Zenon, <1>3, <2>3, <2>4 DEF PutTo, p
<1> QED BY Zenon, <1>1, <1>4, <1>5, <1>6 DEF InsertTo

\* put of the key of a hole, that map_putAll meets.
LEMMA PutHole ==
  ASSUME NEW x, NEW hs, NEW v
  PROVE  PutValue(x, hs, NoKey, v) = [map |-> x, ret |-> Ret("none", NoKey, NoVal)]
         /\ Insert(x, hs, NoKey, v).map = x
<1> DEFINE r == Insert(x, hs, NoKey, v)
<1>1. r = [map |-> x, index |-> -1, status |-> "INVALID_KEY"]
  BY Zenon DEF Insert
<1> HIDE DEF r
<1>2. r.map = x /\ r.status # "INSERTED" /\ r.status # "LIMIT"
  BY <1>1
<1>3. PutValue(x, hs, NoKey, v) = [map |-> r.map, ret |-> Ret("none", NoKey, NoVal)]
  <2> DEFINE a == [map |-> [r.map EXCEPT !.vals[r.index + 1].val = v],
                   ret |-> Ret("ok", NoKey, r.map.vals[r.index + 1].val)]
             b == [map |-> r.map, ret |-> Ret("OutOfRangeError", NoKey, NoVal)]
             c == [map |-> r.map, ret |-> Ret("none", NoKey, NoVal)]
  <2>1. PutValue(x, hs, NoKey, v) = CASE r.status = "INSERTED" -> a [] r.status = "LIMIT" -> b [] OTHER -> c
    BY Zenon DEF PutValue, r
  <2> HIDE DEF a, b, c
  <2>2. PutValue(x, hs, NoKey, v) = c
    BY <1>2, <2>1
  <2> QED BY Zenon, <2>2 DEF c
<1> QED BY Zenon, <1>2, <1>3 DEF r

-----------------------------------------------------------------------------
(* lookup and remove *)

\* What lookup answers: the index of the entry of the key, or none.
LookupTo(x, k, n) ==
  \/ n = -1 /\ Absent(x, k)
  \/ n \in Nat /\ n \in Slots(x) /\ n + 1 \in Live(x) /\ x.vals[n + 1].key = k /\ x.idx # << >>

\* The bucket where remove and lookup find the key.
LEMMA FoundAt ==
  ASSUME NEW x, NEW hs \in [Key -> Nat], MapOK(x, hs), x.idx # << >>, NEW k \in Key
  PROVE  LET p == Probe(x, hs[k], k)
         IN  /\ p.found \in BOOLEAN /\ p.bucket \in 0..(x.len - 1)
             /\ p.found => /\ x.idx[p.bucket] \in Slots(x) /\ x.idx[p.bucket] \in Nat
                           /\ x.idx[p.bucket] + 1 \in Live(x) /\ x.vals[x.idx[p.bucket] + 1].key = k
             /\ ~p.found => Absent(x, k)
<1> DEFINE p == Probe(x, hs[k], k)
<1>1. /\ Indexed(x, Slots(x), Hashes(x)) /\ x.len \in Nat \ {0} /\ LiveSlots(x)
      /\ \E b \in 0..(x.len - 1) : x.idx[b] = -1
  BY Zenon, MapIs
<1>2. PICK e \in 0..(x.len - 1) : x.idx[e] = -1
  BY Zenon, <1>1
<1>3. hs[k] \in Nat
  BY Zenon
<1>4. ProbeResult(x, hs[k], k, p)
  BY Zenon, <1>1, <1>2, <1>3, ProbeOK
<1>5. KeyHeld(x, hs[k], k)
  BY Zenon, HoldsKey
<1> HIDE DEF p
<1>6. Slots(x) \in SUBSET Nat
  BY Zenon, <1>1 DEF LiveSlots
<1>7. /\ p.found \in BOOLEAN /\ p.bucket \in 0..(x.len - 1)
      /\ p.found => Holds(x, p.bucket, hs[k], k)
      /\ ~p.found => \A b \in 0..(x.len - 1) : ~Holds(x, b, hs[k], k)
  BY Zenon, <1>4 DEF ProbeResult
<1>8. ~p.found => Absent(x, k)
  BY Zenon, <1>5, <1>7 DEF KeyHeld
<1>9. p.found => /\ x.idx[p.bucket] \in Slots(x) /\ x.idx[p.bucket] \in Nat
                 /\ x.idx[p.bucket] + 1 \in Live(x) /\ x.vals[x.idx[p.bucket] + 1].key = k
  BY Zenon, <1>5, <1>6, <1>7 DEF KeyHeld
<1> QED BY Zenon, <1>7, <1>8, <1>9 DEF p

\* A map without entries holds no key; one with entries has buckets.
LEMMA SizeZero ==
  ASSUME NEW x, NEW hs, MapOK(x, hs)
  PROVE  (x.size = 0 => \A k : Absent(x, k)) /\ (x.size # 0 => x.idx # << >>)
<1>1. x.size = Cardinality(Live(x)) /\ ValsOK(x.vals, hs)
  BY Zenon DEF MapOK, CountsOK
<1>2. IsFiniteSet(Live(x))
  BY Zenon, <1>1, HashesOK DEF LiveSlots
<1>3. x.size = 0 <=> Live(x) = {}
  <2> DEFINE L == Live(x)
  <2> HIDE DEF L
  <2>1. IsFiniteSet(L)
    BY Zenon, <1>2 DEF L
  <2>2. Cardinality(L) = 0 <=> L = {}
    BY Zenon, <2>1, FS_EmptySet
  <2> QED BY Zenon, <1>1, <2>2 DEF L
<1>4. x.idx = << >> => Live(x) = {}
  <2>1. DOMAIN << >> = {}
    OBVIOUS
  <2>2. x.idx = << >> => x.vals = << >>
    BY Zenon DEF MapOK
  <2> QED BY Zenon, <2>1, <2>2 DEF Live
<1> QED BY Zenon, <1>3, <1>4 DEF Absent

\* lookup finds every key that is there and no other.
LEMMA LookupOK ==
  ASSUME NEW x, NEW hs \in [Key -> Nat], MapOK(x, hs), NEW k \in Key
  PROVE  LookupTo(x, k, Lookup(x, hs, k))
<1> DEFINE p == Probe(x, hs[k], k)
           n == Lookup(x, hs, k)
<1>1. n = IF x.size = 0 THEN -1 ELSE IF p.found THEN x.idx[p.bucket] ELSE -1
  BY Zenon DEF Lookup
<1> HIDE DEF n
<1>2. CASE x.size = 0
  <2>1. Absent(x, k)
    BY Zenon, <1>2, SizeZero
  <2> QED BY Zenon, <1>1, <1>2, <2>1 DEF LookupTo, n
<1>3. CASE x.size # 0
  <2>1. x.idx # << >>
    BY Zenon, <1>3, SizeZero
  <2>2. /\ p.found \in BOOLEAN
        /\ p.found => /\ x.idx[p.bucket] \in Slots(x) /\ x.idx[p.bucket] \in Nat
                      /\ x.idx[p.bucket] + 1 \in Live(x) /\ x.vals[x.idx[p.bucket] + 1].key = k
        /\ ~p.found => Absent(x, k)
    BY Zenon, <2>1, FoundAt
  <2> HIDE DEF p
  <2>3. CASE p.found
    BY Zenon, <1>1, <1>3, <2>1, <2>2, <2>3 DEF LookupTo, n
  <2>4. CASE ~p.found
    BY Zenon, <1>1, <1>3, <2>2, <2>4 DEF LookupTo, n
  <2> QED BY Zenon, <2>3, <2>4
<1> QED BY Zenon, <1>2, <1>3

\* y is x without the entry in slot n of its vector.
Deleted(x, hs, n, y) ==
  /\ IsMap(y) /\ y.len = x.len /\ y.size = x.size /\ y.dist = x.dist /\ y.idx = x.idx /\ y.cap = x.cap
  /\ ValsOK(y.vals, hs) /\ Len(y.vals) <= Len(x.vals) /\ Live(y) = Live(x) \ {n}
  /\ \A a \in 1..Len(y.vals) : a # n => y.vals[a] = x.vals[a]

\* OrderedMapEntries::del leaves a hole, or pops it and the holes before it.
LEMMA DelOK ==
  ASSUME NEW x, NEW hs, MapOK(x, hs), NEW n \in Nat, n + 1 \in Live(x)
  PROVE  Deleted(x, hs, n + 1, Del(x, n))
<1> DEFINE j == n + 1
           N == Len(x.vals)
           u == [x.vals EXCEPT ![j] = Hole]
           L == {a \in DOMAIN u : u[a] # Hole}
           l == Max(L \cup {0})
           v == SubSeq(u, 1, l)
           y == Del(x, n)
           E == Entry \cup {Hole}
<1>1. /\ IsMap(x) /\ ValsOK(x.vals, hs) /\ x.vals \in Seq(E) /\ DOMAIN x.vals = 1..N /\ N \in Nat
      /\ \A a \in 1..N : x.vals[a] # Hole => x.vals[a] \in Entry /\ x.vals[a].hash = hs[x.vals[a].key]
  BY Zenon, ValsAre DEF MapOK
<1>2. y = [x EXCEPT !.vals = v]
  BY Zenon DEF Del
<1>3. j \in 1..N /\ x.vals[j] # Hole
  BY Zenon, <1>1 DEF Live
<1>4. u \in Seq(E) /\ Len(u) = N /\ DOMAIN u = 1..N /\ u[j] = Hole /\ \A a \in 1..N : a # j => u[a] = x.vals[a]
  <2> DEFINE o == x.vals
  <2>1. o \in Seq(E) /\ Len(o) = N /\ DOMAIN o = 1..N /\ Hole \in E
    BY Zenon, <1>1
  <2> HIDE DEF E, N, j, o
  <2>2. [o EXCEPT ![j] = Hole] \in Seq(E) /\ Len([o EXCEPT ![j] = Hole]) = N
    BY <1>1, <1>3, <2>1
  <2>3. DOMAIN [o EXCEPT ![j] = Hole] = 1..N /\ [o EXCEPT ![j] = Hole][j] = Hole
    BY Zenon, <1>3, <2>1
  <2>4. \A a \in 1..N : a # j => [o EXCEPT ![j] = Hole][a] = o[a]
    BY Zenon, <1>3, <2>1
  <2> QED BY Zenon, <2>2, <2>3, <2>4 DEF o
<1> HIDE DEF u, j, N, y
<1>5. L = Live(x) \ {j}
  BY Zenon, <1>1, <1>4 DEF Live
<1>6. l \in L \cup {0} /\ (\A a \in L : a <= l) /\ l \in 0..N
  <2> DEFINE M == L \cup {0}
  <2>1. \A a \in M : a \in 0..N
    <3>1. 0 \in 0..N /\ \A a \in 1..N : a \in 0..N
      BY <1>1
    <3> QED BY Zenon, <1>4, <3>1
  <2>2. 0 \in M /\ \A a \in L : a \in M
    BY Zenon
  <2> HIDE DEF L, M
  <2>3. M \in SUBSET Nat /\ M # {} /\ \A a \in M : a <= N
    <3>1. \A a \in 0..N : a \in Nat /\ a <= N
      BY <1>1
    <3> QED BY Zenon, <2>1, <2>2, <3>1
  <2>4. Max(M) \in M /\ \A a \in M : a <= Max(M)
    BY Zenon, <1>1, <2>3, MaxIsGreatest
  <2> QED BY Zenon, <2>1, <2>2, <2>4 DEF M
<1> HIDE DEF l
<1>7. v \in Seq(E) /\ Len(v) = l /\ DOMAIN v = 1..l /\ \A a \in 1..l : v[a] = u[a] /\ a \in 1..N
  <2> HIDE DEF E, L
  <2>1. v \in Seq(E) /\ Len(v) = l
    BY <1>1, <1>4, <1>6
  <2>2. \A a \in 1..l : v[a] = u[a] /\ a \in 1..N
    BY <1>1, <1>4, <1>6
  <2>3. DOMAIN v = 1..Len(v)
    <3> HIDE DEF v
    <3> QED BY <2>1
  <2> QED BY Zenon, <2>1, <2>2, <2>3
<1> HIDE DEF v
<1>8. Fields(y, x.len, x.size, x.dist, x.idx, v, x.cap)
  BY Zenon, <1>1, <1>2, WithVals
<1>9. /\ IsMap(y) /\ y.len = x.len /\ y.size = x.size /\ y.dist = x.dist /\ y.idx = x.idx
      /\ y.vals = v /\ y.cap = x.cap
  BY Zenon, <1>8 DEF Fields
<1>10. \A a \in L : a \in 1..l
  <2>1. \A a \in L : a \in 1..N /\ a <= l
    BY Zenon, <1>4, <1>6
  <2> HIDE DEF L
  <2> QED BY <1>1, <1>6, <2>1
<1>11. Live(y) = Live(x) \ {j}
  <2>1. Live(y) = L
    BY Zenon, <1>4, <1>7, <1>9, <1>10 DEF Live
  <2> QED BY Zenon, <1>5, <2>1
<1>12. \A a \in 1..l : a # j => v[a] = x.vals[a]
  BY Zenon, <1>4, <1>7
<1>13. ValsOK(v, hs)
  <2>1. \A a \in 1..l : v[a] # Hole => a # j
    BY Zenon, <1>4, <1>7
  <2>2. ASSUME NEW a \in 1..l, v[a] # Hole PROVE v[a].hash = hs[v[a].key]
    BY Zenon, <1>1, <1>7, <1>12, <2>1, <2>2
  <2>3. ASSUME NEW a \in 1..l, NEW b \in 1..l, v[a] # Hole, v[a].key = v[b].key PROVE a = b
    <3>1. v[a] = x.vals[a] /\ x.vals[a] \in Entry /\ a \in 1..N /\ b \in 1..N
      BY ZenonT(40), <1>1, <1>7, <1>12, <2>1, <2>3
    <3>2. v[b] # Hole
      <4>1. v[a].key # NoKey
        BY ZenonT(40), <3>1, EntryNotHole
      <4>2. Hole.key = NoKey
        BY DEF Hole
      <4> QED BY Zenon, <2>3, <4>1, <4>2
    <3>3. v[b] = x.vals[b]
      BY Zenon, <1>12, <2>1, <3>2
    <3>4. x.vals[a] # Hole /\ x.vals[a].key = x.vals[b].key
      BY Zenon, <2>3, <3>1, <3>3
    <3> QED BY Zenon, <1>1, <3>1, <3>4 DEF ValsOK
  <2>4. v # << >> => v[Len(v)] # Hole
    <3>1. v # << >> => l \in 1..l
      BY <1>6, <1>7
    <3>2. l \in 1..l => l # 0
      OBVIOUS
    <3>3. v # << >> => l \in L
      BY Zenon, <1>6, <3>1, <3>2
    <3> QED BY Zenon, <1>7, <3>1, <3>3
  <2> QED BY Zenon, <1>7, <2>2, <2>3, <2>4 DEF ValsOK, E
<1>14. Len(v) <= N
  BY <1>1, <1>6, <1>7
<1> QED BY Zenon, <1>7, <1>9, <1>11, <1>12, <1>13, <1>14 DEF Deleted, y, j, N

\* remove of the key in slot n.
Removed(x, hs, n, z) ==
  /\ MapOK(z, hs) /\ Live(z) = Live(x) \ {n} /\ Len(z.vals) <= Len(x.vals)
  /\ \A a \in 1..Len(z.vals) : a # n => z.vals[a] = x.vals[a]

\* remove keeps the map well formed.
LEMMA RemoveKeyOK ==
  ASSUME NEW x, NEW hs \in [Key -> Nat], MapOK(x, hs), NEW k \in Key, ~Absent(x, k)
  PROVE  \E n \in Nat : /\ n + 1 \in Live(x) /\ x.vals[n + 1].key = k
                        /\ Removed(x, hs, n + 1, RemoveKey(x, hs, k))
<1> DEFINE p == Probe(x, hs[k], k)
           b == p.bucket
           n == x.idx[b]
           d == Del(x, n)
           y == Vacate(d, b)
           s == x.size - 1
           z == [y EXCEPT !.size = s]
           c == x.len
           D == Slots(x)
           H == Hashes(x)
<1>0. x.idx # << >>
  BY Zenon, SizeZero
<1>1. /\ IsMap(x) /\ ValsOK(x.vals, hs) /\ Table(c, x.idx, x.dist, D, H) /\ LiveSlots(x)
      /\ c \in Nat \ {0} /\ c > 1 /\ x.cap \in Nat /\ x.cap # 1 /\ Len(x.vals) <= x.cap
      /\ x.size = Cardinality(Live(x)) /\ x.size \in Nat /\ x.size <= MaxSize /\ 10 * x.size <= 9 * c
  BY Zenon, <1>0, MapIs
<1>2. H \in [D -> Nat] /\ D \in SUBSET Nat /\ \A a \in D : H[a] = x.vals[a + 1].hash
  BY Zenon, <1>1, HashesOK DEF LiveSlots
<1>3. b \in 0..(c - 1) /\ n \in D /\ n \in Nat /\ n + 1 \in Live(x) /\ x.vals[n + 1].key = k
  BY Zenon, <1>0, FoundAt
<1>4. RemoveKey(x, hs, k) = z
  BY Zenon DEF RemoveKey
<1> HIDE DEF p, b, n
<1>5. Deleted(x, hs, n + 1, d)
  BY Zenon, <1>3, DelOK
<1> HIDE DEF d
<1>6. /\ IsMap(d) /\ d.len = c /\ d.size = x.size /\ d.dist = x.dist /\ d.idx = x.idx /\ d.cap = x.cap
      /\ ValsOK(d.vals, hs) /\ Len(d.vals) <= Len(x.vals) /\ Live(d) = Live(x) \ {n + 1}
      /\ \A a \in 1..Len(d.vals) : a # n + 1 => d.vals[a] = x.vals[a]
  BY Zenon, <1>5 DEF Deleted
<1>7. Table(c, y.idx, y.dist, D \ {n}, H) /\ SameEntries(d, y)
  <2>1. PICK e \in 0..(c - 1) : x.idx[e] = -1
    BY Zenon, <1>0, MapIs
  <2>2. d.idx[b] = n /\ n # -1 /\ d.idx[e] = -1
    <3>1. -1 \notin Nat
      OBVIOUS
    <3> QED BY Zenon, <1>3, <1>6, <2>1, <3>1 DEF n
  <2>3. Table(c, d.idx, d.dist, D, H)
    BY Zenon, <1>1, <1>6
  <2> HIDE DEF D, H, c
  <2>4. Table(c, y.idx, y.dist, D \ {d.idx[b]}, H) /\ SameEntries(d, y)
    BY Zenon, <1>1, <1>2, <1>3, <1>6, <2>1, <2>2, <2>3, VacateOK
  <2> QED BY Zenon, <2>2, <2>4
<1> HIDE DEF y
<1>8. IsMap(y) /\ y.len = c /\ y.vals = d.vals /\ y.cap = x.cap
  BY Zenon, <1>6, <1>7 DEF SameEntries
<1>9. z = [y EXCEPT !.size = s]
  BY Zenon
<1> HIDE DEF z, s
<1>10. /\ IsMap(z) /\ z.len = c /\ z.size = s /\ z.dist = y.dist /\ z.idx = y.idx
       /\ z.vals = d.vals /\ z.cap = x.cap
  <2>1. Fields(z, y.len, s, y.dist, y.idx, y.vals, y.cap)
    BY Zenon, <1>8, <1>9, WithSize
  <2> QED BY Zenon, <1>8, <2>1 DEF Fields
<1>11. Live(z) = Live(x) \ {n + 1}
  BY Zenon, <1>6, <1>10 DEF Live
<1>12. LiveSlots(z)
  BY Zenon, <1>6, <1>10, HashesOK
<1>13. Slots(z) = D \ {n}
  <2>1. \A a \in Nat : a + 1 = n + 1 => a = n
    BY <1>3
  <2>2. \A a \in Slots(z) : a \in Nat /\ a + 1 \in Live(z)
    BY Zenon, <1>12 DEF LiveSlots
  <2>3. \A a \in Nat : a + 1 \in Live(z) => a \in Slots(z)
    BY Zenon, <1>12 DEF LiveSlots
  <2>4. \A a \in D : a \in Nat /\ a + 1 \in Live(x)
    BY Zenon, <1>1 DEF LiveSlots
  <2>5. \A a \in Nat : a + 1 \in Live(x) => a \in D
    BY Zenon, <1>1 DEF LiveSlots
  <2> HIDE DEF D
  <2> QED BY Zenon, <1>11, <2>1, <2>2, <2>3, <2>4, <2>5
<1>14. \A a \in D \ {n} : H[a] = Hashes(z)[a]
  <2> TAKE a \in D \ {n}
  <2>1. a \in Slots(z) /\ a + 1 \in Live(z) /\ a + 1 \in 1..Len(z.vals)
    BY Zenon, <1>12, <1>13 DEF LiveSlots
  <2>2. a + 1 # n + 1
    BY <1>2, <1>3
  <2>3. z.vals[a + 1] = x.vals[a + 1]
    BY Zenon, <1>6, <1>10, <2>1, <2>2
  <2> QED BY Zenon, <1>2, <2>1, <2>3 DEF Hashes
<1>15. Table(c, y.idx, y.dist, D \ {n}, Hashes(z))
  <2> DEFINE C == D \ {n}
             idx == y.idx
             dist == y.dist
             G == Hashes(z)
  <2>1. -1 \notin C
    <3>1. -1 \notin Nat
      OBVIOUS
    <3> QED BY Zenon, <1>2, <3>1
  <2>2. Table(c, idx, dist, C, H) /\ \A a \in C : H[a] = G[a]
    BY Zenon, <1>7, <1>14
  <2> HIDE DEF C, idx, dist, G, H
  <2>3. Table(c, idx, dist, C, G)
    BY Zenon, <2>1, <2>2, TableSame
  <2> QED BY Zenon, <2>3 DEF C, idx, dist, G
<1>16. s = Cardinality(Live(z)) /\ s <= MaxSize /\ 10 * s <= 9 * c
  <2> DEFINE L == Live(x)
             t == x.size
             a == n + 1
  <2>1. IsFiniteSet(L) /\ a \in L /\ t = Cardinality(L) /\ Live(z) = L \ {a}
    BY Zenon, <1>1, <1>3, <1>11 DEF LiveSlots
  <2>2. s = t - 1 /\ t \in Nat /\ t <= MaxSize /\ 10 * t <= 9 * c /\ MaxSize \in Nat
    BY Zenon, <1>1, SizeAssumption DEF s
  <2> HIDE DEF L, a, t, c
  <2>3. Cardinality(L \ {a}) = IF a \in L THEN Cardinality(L) - 1 ELSE Cardinality(L)
    BY Zenon, <2>1, FS_RemoveElement
  <2>4. s = Cardinality(Live(z))
    BY Zenon, <2>1, <2>2, <2>3
  <2>5. s <= MaxSize
    BY <2>2
  <2>6. 10 * s <= 9 * c
    BY <1>1, <2>2 DEF c
  <2> QED BY Zenon, <2>4, <2>5, <2>6
<1>17. Len(z.vals) <= x.cap /\ Len(z.vals) <= Len(x.vals)
  <2> DEFINE i == Len(z.vals)
             j == Len(x.vals)
             g == x.cap
  <2>1. i \in Nat /\ j \in Nat /\ g \in Nat /\ i <= j /\ j <= g
    BY Zenon, <1>1, <1>6, <1>10, ValsAre
  <2> HIDE DEF i, j, g
  <2>2. i <= g
    BY <2>1
  <2> QED BY Zenon, <2>1, <2>2 DEF i, j, g
<1>18. CountsOK(z)
  BY Zenon, <1>1, <1>10, <1>16, <1>17 DEF CountsOK
<1>19. z.idx # << >>
  <2>1. DOMAIN y.idx = 0..(c - 1) /\ DOMAIN << >> = {}
    <3>1. DOMAIN << >> = {}
      OBVIOUS
    <3> QED BY Zenon, <1>7, <3>1 DEF Table
  <2> QED BY Zenon, <1>3, <1>10, <2>1
<1>20. MapOK(z, hs)
  BY Zenon, <1>6, <1>10, <1>13, <1>15, <1>16, <1>18, <1>19 DEF MapOK
<1>21. Removed(x, hs, n + 1, z)
  BY Zenon, <1>6, <1>10, <1>11, <1>17, <1>20 DEF Removed
<1> QED BY Zenon, <1>3, <1>4, <1>21

-----------------------------------------------------------------------------
(* The loops of map_putAll and map_copy *)

\* An entry of the argument of map_putAll: one that can be put, or a hole.
Argument(e) == e = Hole \/ (e.key \in Key /\ e.val \in Val)

\* The states of the loops.
PutRounds(f, x, hs, other) ==
  \A n \in 0..Len(other) :
    f[n] = IF n = 0 THEN [map |-> x, ret |-> Ret("ok", NoKey, NoVal)] ELSE PutNext(hs, f[n - 1], other[n])

CopyRounds(f, vals, hs) ==
  \A n \in 0..Len(vals) :
    f[n] = IF n = 0 THEN NewMap ELSE Insert(f[n - 1], hs, vals[n].key, vals[n].val).map

\* A step of map_putAll is what its loop leaves.
LEMMA PutAllIs ==
  ASSUME NEW other, Len(other) \in Nat, PutAll(other)
  PROVE  \E f : /\ PutRounds(f, m, hash, other)
                /\ LET r == f[Len(other)]
                   IN  Modify(r.map, IF r.ret.status = "OutOfRangeError" THEN r.ret ELSE Ret("ok", NoKey, NoVal))
<1> DEFINE N == Len(other)
           base == [map |-> m, ret |-> Ret("ok", NoKey, NoVal)]
           par == [hs |-> hash, vals |-> other]
           F == CHOOSE f : f = [n \in 0..N |-> IF n = 0 THEN base ELSE PutNext(hash, f[n - 1], other[n])]
<1>1. par.hs = hash /\ par.vals = other
  OBVIOUS
<1>2. \E f : f = [n \in 0..N |-> IF n = 0 THEN base ELSE PutNext(hash, f[n - 1], other[n])]
  <2> HIDE DEF base, par
  <2>1. PICK f : Rounds(f, "put", par, base, N)
    BY Zenon, RoundsExist
  <2>2. f = [i \in 0..N |-> IF i = 0 THEN base ELSE Step("put", par, f[i - 1], i)]
    BY Zenon, <2>1 DEF Rounds
  <2>3. ASSUME NEW i \in 0..N PROVE Step("put", par, f[i - 1], i) = PutNext(hash, f[i - 1], other[i])
    <3> DEFINE s == f[i - 1]
    <3> HIDE DEF s
    <3>1. Step("put", par, s, i) = PutNext(par.hs, s, par.vals[i])
      BY StepIs
    <3> QED BY Zenon, <1>1, <3>1 DEF s
  <2>4. \A i \in 0..N : f[i] = IF i = 0 THEN base ELSE Step("put", par, f[i - 1], i)
    BY Zenon, <2>2
  <2>5. \A i \in 0..N : f[i] = IF i = 0 THEN base ELSE PutNext(hash, f[i - 1], other[i])
    BY Zenon, <2>3, <2>4
  <2>6. f = [i \in 0..N |-> f[i]]
    BY Zenon, <2>2
  <2> QED BY Zenon, <2>5, <2>6
<1>3. F = [n \in 0..N |-> IF n = 0 THEN base ELSE PutNext(hash, F[n - 1], other[n])]
  BY Zenon, <1>2
<1>4. LET r == F[N]
      IN  Modify(r.map, IF r.ret.status = "OutOfRangeError" THEN r.ret ELSE Ret("ok", NoKey, NoVal))
  BY Zenon DEF PutAll
<1> HIDE DEF F
<1>5. PutRounds(F, m, hash, other)
  BY Zenon, <1>3 DEF PutRounds
<1> QED BY Zenon, <1>4, <1>5

\* A step of map_copy is what its loop leaves.
LEMMA CopyIs ==
  ASSUME NEW hs, Len(m.vals) \in Nat, Copy(hs)
  PROVE  \E f : CopyRounds(f, m.vals, hs) /\ m' = f[Len(m.vals)] /\ hash' = hs
<1> DEFINE vals == m.vals
           N == Len(vals)
           base == NewMap
           par == [hs |-> hs, vals |-> vals]
           F == CHOOSE f : f = [n \in 0..Len(m.vals) |->
                                  IF n = 0 THEN NewMap
                                  ELSE Insert(f[n - 1], hs, m.vals[n].key, m.vals[n].val).map]
<1>1. par.hs = hs /\ par.vals = vals
  OBVIOUS
<1>2. \E f : f = [n \in 0..N |-> IF n = 0 THEN base ELSE Insert(f[n - 1], hs, vals[n].key, vals[n].val).map]
  <2> HIDE DEF base, par, vals
  <2>0. N \in Nat
    BY Zenon DEF vals
  <2>1. PICK f : Rounds(f, "copied", par, base, N)
    BY Zenon, <2>0, RoundsExist
  <2>2. f = [i \in 0..N |-> IF i = 0 THEN base ELSE Step("copied", par, f[i - 1], i)]
    BY Zenon, <2>1 DEF Rounds
  <2>3. ASSUME NEW i \in 0..N
        PROVE  Step("copied", par, f[i - 1], i) = Insert(f[i - 1], hs, vals[i].key, vals[i].val).map
    <3> DEFINE s == f[i - 1]
    <3> HIDE DEF s
    <3>1. Step("copied", par, s, i) = Insert(s, par.hs, par.vals[i].key, par.vals[i].val).map
      BY StepIs
    <3> QED BY Zenon, <1>1, <3>1 DEF s
  <2>4. \A i \in 0..N : f[i] = IF i = 0 THEN base ELSE Step("copied", par, f[i - 1], i)
    BY Zenon, <2>2
  <2>5. \A i \in 0..N : f[i] = IF i = 0 THEN base ELSE Insert(f[i - 1], hs, vals[i].key, vals[i].val).map
    BY Zenon, <2>3, <2>4
  <2>6. f = [i \in 0..N |-> f[i]]
    BY Zenon, <2>2
  <2> QED BY Zenon, <2>5, <2>6
<1>3. F = [n \in 0..N |-> IF n = 0 THEN base ELSE Insert(F[n - 1], hs, vals[n].key, vals[n].val).map]
  BY Zenon, <1>2
<1>4. m' = F[N] /\ hash' = hs
  BY Zenon DEF Copy
<1> HIDE DEF F
<1>5. CopyRounds(F, vals, hs)
  BY Zenon, <1>3 DEF CopyRounds
<1> QED BY Zenon, <1>4, <1>5

\* The rounds of map_putAll.
LEMMA PutAllOK ==
  ASSUME NEW x, NEW hs \in [Key -> Nat], MapOK(x, hs), NEW other, Len(other) \in Nat,
         \A n \in 1..Len(other) : Argument(other[n]), NEW f, PutRounds(f, x, hs, other)
  PROVE  \A n \in 0..Len(other) : MapOK(f[n].map, hs)
<1> DEFINE N == Len(other)
           G == {n \in 0..N : MapOK(f[n].map, hs)}
<1>1. 0 \in G
  <2>1. 0 \in 0..N
    OBVIOUS
  <2>2. f[0] = [map |-> x, ret |-> Ret("ok", NoKey, NoVal)]
    BY Zenon, <2>1 DEF PutRounds
  <2>3. f[0].map = x
    BY <2>2
  <2> QED BY Zenon, <2>1, <2>3
<1>2. ASSUME NEW n \in 1..N, n - 1 \in G PROVE n \in G
  <2> DEFINE a == f[n - 1]
             e == other[n]
  <2>1. n \in 0..N /\ n # 0
    OBVIOUS
  <2>2. f[n] = PutNext(hs, a, e)
    BY Zenon, <2>1 DEF PutRounds
  <2>3. MapOK(a.map, hs) /\ Argument(e)
    BY Zenon, <1>2
  <2> HIDE DEF a, e
  <2>4. CASE a.ret.status = "OutOfRangeError"
    BY Zenon, <2>1, <2>2, <2>3, <2>4 DEF PutNext
  <2>5. CASE a.ret.status # "OutOfRangeError"
    <3>1. f[n] = PutValue(a.map, hs, e.key, e.val)
      BY Zenon, <2>2, <2>5 DEF PutNext
    <3>2. CASE e = Hole
      <4>1. e.key = NoKey
        BY <3>2 DEF Hole
      <4>2. f[n] = [map |-> a.map, ret |-> Ret("none", NoKey, NoVal)]
        <5>1. f[n] = PutValue(a.map, hs, NoKey, e.val)
          BY Zenon, <3>1, <4>1
        <5>2. PutValue(a.map, hs, NoKey, e.val) = [map |-> a.map, ret |-> Ret("none", NoKey, NoVal)]
          BY Zenon, PutHole
        <5> QED BY Zenon, <5>1, <5>2
      <4>3. f[n].map = a.map
        BY <4>2
      <4> QED BY Zenon, <2>1, <2>3, <4>3
    <3>3. CASE e.key \in Key /\ e.val \in Val
      <4>1. PutTo(a.map, hs, e.key, e.val, f[n])
        BY Zenon, <2>3, <3>1, <3>3, PutValueOK
      <4> QED BY Zenon, <2>1, <4>1 DEF PutTo
    <3> QED BY Zenon, <2>3, <3>2, <3>3 DEF Argument
  <2> QED BY Zenon, <2>4, <2>5
<1>3. \A n \in 0..N : n \in G
  <2> HIDE DEF G
  <2> QED BY Zenon, <1>1, <1>2, UpTo
<1> QED BY Zenon, <1>3

\* The map an OrderedMapObject starts as.
LEMMA NewMapOK == ASSUME NEW hs PROVE MapOK(NewMap, hs)
<1> DEFINE x == NewMap
<1>1. /\ IsMap(x) /\ x.len = InitLen /\ x.size = 0 /\ x.dist = << >> /\ x.idx = << >> /\ x.vals = << >>
      /\ x.cap = 0
  BY Zenon DEF NewMap, IsMap
<1> HIDE DEF x
<1>2. DOMAIN << >> = {} /\ Len(<< >>) = 0 /\ << >> \in Seq(Entry \cup {Hole}) /\ 0 \in Nat /\ 0 # 1 /\ 0 <= 0
  OBVIOUS
<1>3. Live(x) = {} /\ Cardinality({}) = 0
  BY Zenon, <1>1, <1>2, FS_EmptySet DEF Live
<1>4. CountsOK(x)
  <2>1. InitLen \in Nat /\ InitLen > 1 /\ 0 <= MaxSize
    BY SizeAssumption
  <2> QED BY Zenon, <1>1, <1>2, <1>3, <2>1 DEF CountsOK
<1>5. ValsOK(x.vals, hs)
  BY Zenon, <1>1, <1>2 DEF ValsOK
<1> QED BY Zenon, <1>1, <1>4, <1>5 DEF MapOK, x

\* The rounds of map_copy.
LEMMA CopyOK ==
  ASSUME NEW vals, NEW hs \in [Key -> Nat], Len(vals) \in Nat,
         \A n \in 1..Len(vals) : Argument(vals[n]), NEW f, CopyRounds(f, vals, hs)
  PROVE  \A n \in 0..Len(vals) : MapOK(f[n], hs)
<1> DEFINE N == Len(vals)
           G == {n \in 0..N : MapOK(f[n], hs)}
<1>1. 0 \in G
  <2>1. 0 \in 0..N
    OBVIOUS
  <2>2. f[0] = NewMap
    BY Zenon, <2>1 DEF CopyRounds
  <2> QED BY Zenon, <2>1, <2>2, NewMapOK
<1>2. ASSUME NEW n \in 1..N, n - 1 \in G PROVE n \in G
  <2> DEFINE a == f[n - 1]
             e == vals[n]
  <2>1. n \in 0..N /\ n # 0
    OBVIOUS
  <2>2. f[n] = Insert(a, hs, e.key, e.val).map
    BY Zenon, <2>1 DEF CopyRounds
  <2>3. MapOK(a, hs) /\ Argument(e)
    BY Zenon, <1>2
  <2> HIDE DEF a, e
  <2>4. CASE e = Hole
    <3>1. e.key = NoKey
      BY <2>4 DEF Hole
    <3>2. f[n] = a
      BY Zenon, <2>2, <3>1, PutHole
    <3> QED BY Zenon, <2>1, <2>3, <3>2
  <2>5. CASE e.key \in Key /\ e.val \in Val
    <3>1. InsertTo(a, hs, e.key, e.val, Insert(a, hs, e.key, e.val))
      BY Zenon, <2>3, <2>5, InsertIs
    <3> QED BY Zenon, <2>1, <2>2, <3>1 DEF InsertTo
  <2> QED BY Zenon, <2>3, <2>4, <2>5 DEF Argument
<1>3. \A n \in 0..N : n \in G
  <2> HIDE DEF G
  <2> QED BY Zenon, <1>1, <1>2, UpTo
<1> QED BY Zenon, <1>3

\* clear empties the buckets and the vector.
LEMMA ClearOK ==
  ASSUME NEW x, NEW hs, MapOK(x, hs)
  PROVE  LET y == IF x.size = 0 THEN x ELSE [EmptyBuckets(x) EXCEPT !.size = 0, !.vals = << >>]
         IN  MapOK(y, hs) /\ Live(y) = {}
<1>1. CASE x.size = 0
  <2>1. Live(x) = {}
    <3>1. x.size = Cardinality(Live(x)) /\ ValsOK(x.vals, hs)
      BY Zenon DEF MapOK, CountsOK
    <3>2. IsFiniteSet(Live(x))
      BY Zenon, <3>1, HashesOK DEF LiveSlots
    <3> QED BY Zenon, <1>1, <3>1, <3>2, FS_EmptySet
  <2> QED BY Zenon, <1>1, <2>1
<1>2. CASE x.size # 0
  <2> DEFINE c == x.len
             i0 == [b \in 0..(c - 1) |-> -1]
             d0 == [b \in 0..(c - 1) |-> 0]
             w == EmptyBuckets(x)
             y == [w EXCEPT !.size = 0, !.vals = << >>]
  <2>1. w = [x EXCEPT !.dist = d0, !.idx = i0]
    BY Zenon DEF EmptyBuckets
  <2>2. /\ IsMap(x) /\ c \in Nat \ {0} /\ c > 1 /\ x.cap \in Nat /\ x.cap # 1
    BY Zenon, <1>2, SizeZero, MapIs
  <2>3. \A H : Table(c, i0, d0, {}, H)
    BY Zenon, EmptyTable
  <2>4. i0 # << >>
    <3>1. 0 \in 0..(c - 1)
      BY <2>2
    <3>2. DOMAIN << >> = {} /\ DOMAIN i0 = 0..(c - 1)
      OBVIOUS
    <3> HIDE DEF i0
    <3> QED BY Zenon, <3>1, <3>2
  <2> HIDE DEF i0, d0, w
  <2>5. Fields(w, x.len, x.size, d0, i0, x.vals, x.cap)
    BY Zenon, <2>1, <2>2, WithTable
  <2>6. IsMap(w) /\ w.len = c /\ w.dist = d0 /\ w.idx = i0 /\ w.cap = x.cap
    BY Zenon, <2>5 DEF Fields
  <2>7. y = [w EXCEPT !.size = 0, !.vals = << >>]
    BY Zenon
  <2> HIDE DEF y
  <2>8. Fields(y, w.len, 0, w.dist, w.idx, << >>, w.cap)
    BY Zenon, <2>6, <2>7, WithSizeVals
  <2>9. IsMap(y) /\ y.len = c /\ y.size = 0 /\ y.dist = d0 /\ y.idx = i0 /\ y.vals = << >> /\ y.cap = x.cap
    BY Zenon, <2>6, <2>8 DEF Fields
  <2>10. DOMAIN << >> = {} /\ Len(<< >>) = 0 /\ << >> \in Seq(Entry \cup {Hole}) /\ 0 \in Nat
    OBVIOUS
  <2>11. Live(y) = {} /\ Slots(y) = {} /\ Cardinality({}) = 0
    <3>1. Live(y) = {}
      BY Zenon, <2>9, <2>10 DEF Live
    <3> QED BY Zenon, <3>1, FS_EmptySet DEF Slots
  <2>12. 0 <= MaxSize /\ 0 <= x.cap /\ 10 * 0 <= 9 * c
    <3>1. 0 <= MaxSize
      BY SizeAssumption
    <3>2. 0 <= x.cap
      BY <2>2
    <3>3. 10 * 0 <= 9 * c
      BY <2>2
    <3> QED BY Zenon, <3>1, <3>2, <3>3
  <2>13. CountsOK(y)
    BY Zenon, <2>2, <2>9, <2>10, <2>11, <2>12 DEF CountsOK
  <2>14. ValsOK(y.vals, hs)
    BY Zenon, <2>9, <2>10 DEF ValsOK
  <2>15. Table(y.len, y.idx, y.dist, Slots(y), Hashes(y)) /\ 10 * y.size <= 9 * y.len
    BY Zenon, <2>3, <2>9, <2>11, <2>12
  <2>16. MapOK(y, hs)
    BY Zenon, <2>4, <2>9, <2>13, <2>14, <2>15 DEF MapOK
  <2> QED BY Zenon, <1>2, <2>11, <2>16 DEF y, w
<1> QED BY Zenon, <1>1, <1>2

-----------------------------------------------------------------------------
(* The methods *)

\* What Inv says of the map and of the hashes.
LEMMA InvIs == Inv => hash \in [Key -> Nat] /\ MapOK(m, hash)
<1> SUFFICES ASSUME Inv PROVE hash \in [Key -> Nat] /\ MapOK(m, hash)
  OBVIOUS
<1>1. hash \in [Key -> Hash] /\ MapOK(m, hash)
  BY Zenon DEF Inv
<1>2. \A h \in Hash : h \in Nat
  BY Zenon, HashAssumption
<1> QED BY Zenon, <1>1, <1>2

\* A method that leaves a well-formed map.
LEMMA ModifyOK ==
  ASSUME Inv, NEW x, NEW r, MapOK(x, hash), Modify(x, r)
  PROVE  Inv'
<1>1. (m' = m \/ m' = x) /\ hash' = hash
  BY Zenon DEF Modify
<1>2. hash \in [Key -> Hash] /\ MapOK(m, hash)
  BY Zenon DEF Inv
<1> QED BY Zenon, <1>1, <1>2 DEF Inv

\* The constructor.
LEMMA InvInit == Init => Inv
<1> SUFFICES ASSUME Init PROVE Inv
  OBVIOUS
<1>1. m = NewMap /\ hash \in [Key -> Hash]
  BY Zenon DEF Init
<1> QED BY Zenon, <1>1, NewMapOK DEF Inv

\* The entries another map can have are arguments that map_putAll expects.
LEMMA OtherIs ==
  ASSUME NEW other \in OtherEntries
  PROVE  Len(other) \in Nat /\ \A n \in 1..Len(other) : Argument(other[n])
<1> DEFINE E == {Hole} \cup [key : Key, val : Val, hash : {0}]
<1>1. other \in UNION {[1..n -> E] : n \in 0..MaxOther}
  BY Zenon DEF OtherEntries
<1>2. PICK n \in 0..MaxOther : other \in [1..n -> E]
  BY Zenon, <1>1
<1>3. n \in Nat
  BY <1>2
<1>4. Len(other) = n
  <2> HIDE DEF E
  <2> QED BY <1>2, <1>3
<1>5. \A e \in E : Argument(e)
  <2>1. \A e \in [key : Key, val : Val, hash : {0}] : e.key \in Key /\ e.val \in Val
    OBVIOUS
  <2> QED BY Zenon, <2>1 DEF Argument
<1> QED BY Zenon, <1>2, <1>3, <1>4, <1>5

\* Every method keeps the invariant, and so does everything else.
LEMMA InvStep == Inv /\ [Next]_vars => Inv'
<1> SUFFICES ASSUME Inv, [Next]_vars PROVE Inv'
  OBVIOUS
<1>0. hash \in [Key -> Nat] /\ MapOK(m, hash)
  BY Zenon, InvIs
<1>1. ASSUME NEW k \in Key, NEW v \in Val, Put(k, v) PROVE Inv'
  <2> DEFINE r == PutValue(m, hash, k, v)
  <2>1. Modify(r.map, r.ret)
    BY Zenon, <1>1 DEF Put
  <2>2. PutTo(m, hash, k, v, r)
    BY Zenon, <1>0, PutValueOK
  <2> HIDE DEF r
  <2>3. MapOK(r.map, hash)
    BY Zenon, <2>2 DEF PutTo
  <2> QED BY Zenon, <2>1, <2>3, ModifyOK
<1>2. ASSUME NEW k \in Key, NEW v \in Val, PutIfAbsent(k, v) PROVE Inv'
  <2> DEFINE r == Insert(m, hash, k, v)
             q == IF r.index = -1 THEN Ret("OutOfRangeError", NoKey, NoVal)
                  ELSE Ret("ok", NoKey, r.map.vals[r.index + 1].val)
  <2>1. Modify(r.map, q)
    BY Zenon, <1>2 DEF PutIfAbsent
  <2>2. InsertTo(m, hash, k, v, r)
    BY Zenon, <1>0, InsertIs
  <2> HIDE DEF r, q
  <2>3. MapOK(r.map, hash)
    BY Zenon, <2>2 DEF InsertTo
  <2> QED BY Zenon, <2>1, <2>3, ModifyOK
<1>3. ASSUME NEW k \in Key, NEW v \in Val, Swap(k, v) PROVE Inv'
  <2> DEFINE n == Lookup(m, hash, k)
  <2>1. LookupTo(m, k, n)
    BY Zenon, <1>0, LookupOK
  <2>2. CASE n = -1
    <3>1. Modify(m, Ret("KeyNotFoundError", NoKey, NoVal))
      BY Zenon, <1>3, <2>2 DEF Swap
    <3> QED BY Zenon, <1>0, <3>1, ModifyOK
  <2>3. CASE n # -1
    <3> DEFINE y == [m EXCEPT !.vals[n + 1].val = v]
               q == Ret("ok", NoKey, m.vals[n + 1].val)
    <3>1. Modify(y, q)
      BY Zenon, <1>3, <2>3 DEF Swap
    <3>2. n + 1 \in Live(m) /\ m.idx # << >>
      BY Zenon, <2>1, <2>3 DEF LookupTo
    <3> HIDE DEF n
    <3>3. WithVal(m, hash, n, v, y)
      BY Zenon, <1>0, <3>2, SetValOK
    <3> HIDE DEF y, q
    <3> QED BY Zenon, <3>1, <3>3, ModifyOK DEF WithVal
  <2> QED BY Zenon, <2>2, <2>3
<1>4. ASSUME NEW k \in Key, MapRemove(k) PROVE Inv'
  <2> DEFINE n == Lookup(m, hash, k)
  <2>1. LookupTo(m, k, n)
    BY Zenon, <1>0, LookupOK
  <2>2. CASE n = -1
    <3>1. Modify(m, Ret("none", NoKey, NoVal))
      BY Zenon, <1>4, <2>2 DEF MapRemove
    <3> QED BY Zenon, <1>0, <3>1, ModifyOK
  <2>3. CASE n # -1
    <3> DEFINE y == RemoveKey(m, hash, k)
               q == Ret("ok", NoKey, m.vals[n + 1].val)
    <3>1. Modify(y, q)
      BY Zenon, <1>4, <2>3 DEF MapRemove
    <3>2. ~Absent(m, k)
      BY Zenon, <2>1, <2>3 DEF LookupTo, Absent
    <3>3. \E a \in Nat : Removed(m, hash, a + 1, y)
      BY Zenon, <1>0, <3>2, RemoveKeyOK
    <3> HIDE DEF y, q
    <3> QED BY Zenon, <3>1, <3>3, ModifyOK DEF Removed
  <2> QED BY Zenon, <2>2, <2>3
<1>5. ASSUME NEW other \in OtherEntries, PutAll(other) PROVE Inv'
  <2>1. Len(other) \in Nat /\ \A n \in 1..Len(other) : Argument(other[n])
    BY Zenon, OtherIs
  <2>2. PICK f : /\ PutRounds(f, m, hash, other)
                 /\ LET r == f[Len(other)]
                    IN  Modify(r.map, IF r.ret.status = "OutOfRangeError" THEN r.ret
                                      ELSE Ret("ok", NoKey, NoVal))
    BY Zenon, <1>5, <2>1, PutAllIs
  <2>3. Len(other) \in 0..Len(other)
    BY <2>1
  <2>4. \A n \in 0..Len(other) : MapOK(f[n].map, hash)
    BY Zenon, <1>0, <2>1, <2>2, PutAllOK
  <2>5. MapOK(f[Len(other)].map, hash)
    BY Zenon, <2>3, <2>4
  <2> QED BY Zenon, <2>2, <2>5, ModifyOK
<1>6. ASSUME NEW hs \in [Key -> Hash], Copy(hs) PROVE Inv'
  <2>1. ValsOK(m.vals, hash)
    BY Zenon, <1>0 DEF MapOK
  <2>2. /\ Len(m.vals) \in Nat
        /\ \A n \in 1..Len(m.vals) : m.vals[n] # Hole => m.vals[n] \in Entry
    BY Zenon, <2>1, ValsAre
  <2>3. \A n \in 1..Len(m.vals) : Argument(m.vals[n])
    <3>1. \A e \in Entry : e.key \in Key /\ e.val \in Val
      BY DEF Entry
    <3> QED BY Zenon, <2>2, <3>1 DEF Argument
  <2>4. hs \in [Key -> Nat]
    <3>1. \A h \in Hash : h \in Nat
      BY Zenon, HashAssumption
    <3> QED BY Zenon, <3>1
  <2>5. PICK f : CopyRounds(f, m.vals, hs) /\ m' = f[Len(m.vals)] /\ hash' = hs
    BY Zenon, <1>6, <2>2, CopyIs
  <2>6. Len(m.vals) \in 0..Len(m.vals)
    BY <2>2
  <2>7. \A n \in 0..Len(m.vals) : MapOK(f[n], hs)
    BY Zenon, <2>2, <2>3, <2>4, <2>5, CopyOK
  <2>8. MapOK(m', hash') /\ hash' \in [Key -> Hash]
    BY Zenon, <2>5, <2>6, <2>7
  <2> QED BY Zenon, <2>8 DEF Inv
<1>7. ASSUME Clear PROVE Inv'
  <2> DEFINE y == IF m.size = 0 THEN m ELSE [EmptyBuckets(m) EXCEPT !.size = 0, !.vals = << >>]
  <2>1. Modify(y, Ret("none", NoKey, NoVal))
    BY Zenon, <1>7 DEF Clear
  <2>2. MapOK(y, hash)
    BY Zenon, <1>0, ClearOK
  <2> HIDE DEF y
  <2> QED BY Zenon, <2>1, <2>2, ModifyOK
<1>8. ASSUME UNCHANGED <<m, hash>> PROVE Inv'
  <2>1. m' = m /\ hash' = hash
    BY Zenon, <1>8
  <2> QED BY Zenon, <2>1 DEF Inv
<1>9. ASSUME PutAllSelf \/ \E i \in Iter : OpenIter(i) \/ NextOf(i) \/ CloseIter(i)
      PROVE  UNCHANGED <<m, hash>>
  BY Zenon, <1>9 DEF PutAllSelf, OpenIter, NextOf, CloseIter
<1>10. CASE Next
  BY Zenon, <1>1, <1>2, <1>3, <1>4, <1>5, <1>6, <1>7, <1>8, <1>9, <1>10 DEF Next
<1>11. CASE UNCHANGED vars
  BY Zenon, <1>8, <1>11 DEF vars
<1> QED BY Zenon, <1>10, <1>11

-----------------------------------------------------------------------------
(* Theorems *)

\* Between two methods the map is well formed: its buckets are a Robin Hood
\* table of the entries of the vector, whose keys differ, and the counts, the
\* capacity and the load factor are within their limits.
THEOREM MapWellFormed == Spec => []Inv
<1>1. Init => Inv
  BY InvInit
<1>2. Inv /\ [Next]_vars => Inv'
  BY InvStep
<1> QED BY <1>1, <1>2, PTL DEF Spec

\* The size is the number of entries, the vector fits its capacity and never
\* ends in a hole.
LEMMA InvTypeOK == Inv => TypeOK
<1> SUFFICES ASSUME Inv PROVE TypeOK
  OBVIOUS
<1>1. hash \in [Key -> Hash] /\ CountsOK(m) /\ ValsOK(m.vals, hash)
  BY Zenon DEF Inv, MapOK
<1> QED BY Zenon, <1>1 DEF TypeOK, CountsOK, ValsOK

\* The types, for all keys, hashes and sizes.
THEOREM TypeCorrect == Spec => []TypeOK
BY MapWellFormed, InvTypeOK, PTL

\* The buckets that are not empty hold each entry once.
LEMMA EntriesIndexed ==
  ASSUME NEW x, NEW hs, MapOK(x, hs), x.idx # << >>
  PROVE  LET B == 0..(x.len - 1)
             E == {b \in B : x.idx[b] > -1}
         IN  {x.idx[b] + 1 : b \in E} = Live(x) /\ Cardinality(E) = x.size /\ E # B
<1> DEFINE B == 0..(x.len - 1)
           E == {b \in B : x.idx[b] > -1}
           D == Slots(x)
           f == [b \in E |-> x.idx[b]]
<1>1. /\ Table(x.len, x.idx, x.dist, D, Hashes(x)) /\ LiveSlots(x) /\ x.size = Cardinality(Live(x))
      /\ x.len \in Nat \ {0}
  BY Zenon, MapIs
<1>2. D \in SUBSET Nat /\ IsFiniteSet(D) /\ Cardinality(D) = x.size
  BY Zenon, <1>1 DEF LiveSlots
<1>3. ASSUME NEW b \in B PROVE x.idx[b] > -1 <=> x.idx[b] \in D
  <2>1. x.idx[b] \in D \cup {-1}
    BY Zenon, <1>1 DEF Table
  <2>2. ~(-1 > -1) /\ -1 \notin Nat
    OBVIOUS
  <2>3. \A n \in D : n > -1
    <3> HIDE DEF D
    <3> QED BY <1>2
  <2> QED BY Zenon, <1>2, <2>1, <2>2, <2>3
<1>4. f \in [E -> D] /\ \A b \in E : f[b] = x.idx[b] /\ b \in B
  BY Zenon, <1>3
<1>5. \A n \in D : \E b \in E : x.idx[b] = n
  <2>1. \A n \in D : \E b \in B : x.idx[b] = n
    BY Zenon, <1>1 DEF Table
  <2> QED BY Zenon, <1>3, <2>1
<1>6. ASSUME NEW a \in E, NEW b \in E, f[a] = f[b] PROVE a = b
  <2>1. x.idx[a] = x.idx[b] /\ a \in B /\ b \in B /\ x.idx[a] \in D
    BY Zenon, <1>3, <1>4, <1>6
  <2>2. x.idx[a] # -1
    <3>1. -1 \notin Nat
      OBVIOUS
    <3> QED BY Zenon, <1>2, <2>1, <3>1
  <2> QED BY Zenon, <1>1, <2>1, <2>2 DEF Table
<1>7. Cardinality(E) = x.size
  <2>1. \A n \in D : \E b \in E : f[b] = n
    BY Zenon, <1>4, <1>5
  <2>2. IsFiniteSet(B)
    BY <1>1, FS_Interval
  <2>3. IsFiniteSet(E)
    <3>1. E \in SUBSET B
      BY Zenon
    <3> HIDE DEF E, B
    <3> QED BY Zenon, <2>2, <3>1, FS_Subset
  <2> HIDE DEF E, D, f
  <2>4. f \in Injection(E, D)
    BY Zenon, <1>4, <1>6 DEF Injection, IsInjective
  <2>5. f \in Surjection(E, D)
    BY Zenon, <1>4, <2>1 DEF Surjection
  <2>6. ExistsBijection(E, D)
    BY Zenon, <2>4, <2>5 DEF ExistsBijection, Bijection
  <2>7. Cardinality(D) = Cardinality(E)
    BY Zenon, <2>3, <2>6, FS_Bijection
  <2> QED BY Zenon, <1>2, <2>7
<1>8. {x.idx[b] + 1 : b \in E} = Live(x)
  <2>1. \A b \in E : x.idx[b] + 1 \in Live(x)
    BY Zenon, <1>1, <1>3 DEF LiveSlots
  <2>2. ASSUME NEW a \in Live(x) PROVE \E b \in E : a = x.idx[b] + 1
    <3>1. \E n \in D : a = n + 1
      <4>1. a - 1 \in D
        BY Zenon, <2>2 DEF Slots
      <4>2. a \in 1..Len(x.vals)
        BY Zenon, <1>1, <2>2 DEF LiveSlots
      <4>3. a = (a - 1) + 1
        BY <4>2
      <4> QED BY Zenon, <4>1, <4>3
    <3> QED BY Zenon, <1>5, <3>1
  <2> HIDE DEF E
  <2> QED BY Zenon, <2>1, <2>2
<1>9. E # B
  <2>1. PICK e \in B : x.idx[e] = -1
    BY Zenon, MapIs
  <2>2. ~(-1 > -1)
    OBVIOUS
  <2> QED BY Zenon, <2>1, <2>2
<1> QED BY Zenon, <1>7, <1>8, <1>9

\* The buckets of a well-formed map are as probeBuckets relies on.
LEMMA InvRobinHood == Inv => RobinHood
<1> SUFFICES ASSUME Inv, m.idx # << >> PROVE RobinHood
  BY Zenon DEF RobinHood
<1> DEFINE B == 0..(m.len - 1)
           E == {b \in B : m.idx[b] > -1}
           c == m.len
           H == Hashes(m)
<1>1. hash \in [Key -> Nat] /\ MapOK(m, hash)
  BY Zenon, InvIs
<1>2. Table(c, m.idx, m.dist, Slots(m), H) /\ LiveSlots(m) /\ c \in Nat \ {0} /\ Slots(m) \in SUBSET Nat
  BY Zenon, <1>1, MapIs DEF LiveSlots
<1>3. DOMAIN m.idx = B /\ DOMAIN m.dist = B
  BY Zenon, <1>2 DEF Table
<1>4. {m.idx[b] + 1 : b \in E} = Live(m) /\ Cardinality(E) = m.size /\ E # B
  BY Zenon, <1>1, EntriesIndexed
<1>5. ASSUME NEW b \in B PROVE b \in E <=> m.idx[b] # -1
  <2>1. m.idx[b] \in Slots(m) \cup {-1}
    BY Zenon, <1>2 DEF Table
  <2>2. m.idx[b] \in Nat \cup {-1}
    BY Zenon, <1>2, <2>1
  <2>3. m.idx[b] > -1 <=> m.idx[b] # -1
    BY <2>2
  <2> QED BY Zenon, <2>3
<1>6. ASSUME NEW b \in E PROVE b = BucketIndex(m, m.vals[m.idx[b] + 1].hash + m.dist[b])
  <2>1. b \in B /\ m.idx[b] # -1
    BY Zenon, <1>5
  <2>2. b = Home(c, H, m.idx[b], m.dist[b]) /\ m.idx[b] \in Slots(m)
    BY Zenon, <1>2, <2>1 DEF Table
  <2>3. H[m.idx[b]] = m.vals[m.idx[b] + 1].hash
    BY Zenon, <2>2 DEF Hashes
  <2>4. b = (H[m.idx[b]] + m.dist[b]) % c
    BY Zenon, <2>2 DEF Home
  <2> QED BY Zenon, <2>3, <2>4 DEF BucketIndex
<1>7. ASSUME NEW b \in E, m.dist[b] > 0
      PROVE  LET a == BucketIndex(m, b + m.len - 1) IN a \in E /\ m.dist[b] <= m.dist[a] + 1
  <2> DEFINE a == BucketIndex(m, b + m.len - 1)
  <2>1. b \in B /\ m.idx[b] # -1
    BY Zenon, <1>5
  <2>2. b + m.len - 1 = b + (m.len - 1)
    <3>1. b \in 0..(c - 1)
      BY Zenon, <2>1
    <3> HIDE DEF E, H
    <3> QED BY <1>2, <3>1
  <2>3. a = Prev(c, b)
    BY Zenon, <1>2, <2>1, <2>2, ModBuckets DEF BucketIndex
  <2>4. Ordered(c, m.idx, m.dist, b, m.dist[b])
    BY Zenon, <1>2, <2>1 DEF Table
  <2>5. m.idx[a] # -1 /\ m.dist[b] <= m.dist[a] + 1
    BY Zenon, <1>7, <2>3, <2>4 DEF Ordered
  <2>6. a \in B
    BY Zenon, <1>2, <2>1, <2>3, Circle
  <2> QED BY Zenon, <1>5, <2>5, <2>6
<1> QED BY Zenon, <1>3, <1>4, <1>6, <1>7 DEF RobinHood

\* The table stays a Robin Hood table through every insertion, removal,
\* compaction, rehash and copy, for all hashes, however they collide.
THEOREM TableOrdered == Spec => []RobinHood
BY MapWellFormed, InvRobinHood, PTL

\* The entry of a key, and what lookup says.
LEMMA InvLookupExact == Inv => LookupExact
<1> SUFFICES ASSUME Inv, NEW k \in Key
             PROVE  LET n == {a \in Live(m) : m.vals[a].key = k}
                    IN  Lookup(m, hash, k) = (IF n = {} THEN -1 ELSE Max(n) - 1) /\ Cardinality(n) <= 1
  BY Zenon DEF LookupExact
<1> DEFINE n == {a \in Live(m) : m.vals[a].key = k}
           l == Lookup(m, hash, k)
<1>1. hash \in [Key -> Nat] /\ MapOK(m, hash)
  BY Zenon, InvIs
<1>2. LookupTo(m, k, l)
  BY Zenon, <1>1, LookupOK
<1>3. ValsOK(m.vals, hash)
  BY Zenon, <1>1 DEF MapOK
<1> HIDE DEF l
<1>4. CASE l = -1 /\ Absent(m, k)
  <2>1. n = {}
    BY Zenon, <1>4 DEF Absent
  <2>2. Cardinality(n) = 0
    BY Zenon, <2>1, FS_EmptySet
  <2>3. Cardinality(n) <= 1
    <3> HIDE DEF n
    <3> QED BY <2>2
  <2> QED BY Zenon, <1>4, <2>1, <2>3 DEF l
<1>5. CASE l \in Nat /\ l + 1 \in Live(m) /\ m.vals[l + 1].key = k
  <2> DEFINE s == l + 1
  <2>1. s \in n /\ s \in Live(m)
    BY Zenon, <1>5
  <2>2. ASSUME NEW a \in n PROVE a = s
    <3>1. a \in Live(m) /\ m.vals[a].key = m.vals[s].key
      BY Zenon, <1>5, <2>2
    <3>2. a \in DOMAIN m.vals /\ m.vals[a] # Hole /\ s \in DOMAIN m.vals
      BY Zenon, <2>1, <3>1 DEF Live
    <3> QED BY Zenon, <1>3, <3>1, <3>2 DEF ValsOK
  <2>3. s \in Nat /\ s <= s /\ s - 1 = l
    BY <1>5
  <2> HIDE DEF s, n
  <2>4. n = {s} /\ n # {} /\ n \in SUBSET Nat
    BY Zenon, <2>1, <2>2, <2>3
  <2>5. \A a \in n : a <= s
    BY Zenon, <2>2, <2>3
  <2>6. Max(n) = s
    BY Zenon, <2>2, <2>3, <2>4, <2>5, MaxIsGreatest
  <2>7. Cardinality(n) = 1
    BY Zenon, <2>4, FS_Singleton
  <2>8. Cardinality(n) <= 1
    BY <2>7
  <2>9. l = Max(n) - 1
    BY Zenon, <2>3, <2>6
  <2> QED BY Zenon, <2>4, <2>8, <2>9 DEF l, n
<1> QED BY Zenon, <1>2, <1>4, <1>5 DEF LookupTo

\* Whatever the hashes, lookup finds every key of the map and no other.
THEOREM LookupFinds == Spec => []LookupExact
BY MapWellFormed, InvLookupExact, PTL

=============================================================================

----------------------------- MODULE OrderedMap -----------------------------
(***************************************************************************)
(* OrderedMapObject (src/src/ordered_map.{h,cpp}) and the methods of Map   *)
(* (src/src/builtin.h): a Robin Hood hash table of indexes into a vector   *)
(* of entries kept in insertion order, where a removed entry leaves a      *)
(* hole until the vector is compacted.                                     *)
(*                                                                         *)
(* A map is a record: len and size are the capacity and the size that      *)
(* BucketLen packs in a word, dist and idx the two fields of each Bucket   *)
(* (idx -1: an empty bucket; they are << >> while buckets is null), vals   *)
(* the used part of the vector of entries (vals[n + 1] is the code's       *)
(* values[n]) and cap its capacity.  The hash of a key under the seed of a *)
(* map is any number of Hash.                                              *)
(***************************************************************************)
EXTENDS Integers, Sequences, FiniteSets, FiniteSetsExt

CONSTANTS
  Key, Val, Iter,
  Hash,          \* the hash values of keys
  InitLen,       \* the first number of buckets, 2 ^ 2
  InitCap,       \* the first capacity of the entries (4)
  MaxSize,       \* MAX_SIZE
  MaxOther,      \* the entries of the argument of putAll
  NoKey, NoVal

ASSUME NoKeyAssumption == NoKey \notin Key

ASSUME HashAssumption == Hash \subseteq Nat

ASSUME SizeAssumption ==
  MaxSize \in Nat /\ InitLen \in Nat /\ InitCap \in Nat /\ InitLen > 1 /\ InitCap > 1

VARIABLES
  m,             \* the map
  hash,          \* the hash of each key under the seed of the map
  it,            \* the index of every OrderedMapIterObject that is alive
  ret            \* the outcome of the last method

vars == <<m, hash, it, ret>>

Hole == [key |-> NoKey, val |-> NoVal, hash |-> 0]

Ret(status, key, val) == [status |-> status, key |-> key, val |-> val]

NewMap == [len |-> InitLen, size |-> 0, dist |-> << >>, idx |-> << >>, vals |-> << >>, cap |-> 0]

\* toBucketIndex: the capacity is a power of two, so the mask is a remainder.
BucketIndex(x, n) == n % x.len

EmptyBuckets(x) ==
  [x EXCEPT !.dist = [b \in 0..(x.len - 1) |-> 0], !.idx = [b \in 0..(x.len - 1) |-> -1]]

\* The bucket holds the entry of the key.
Holds(x, b, h, k) ==
  x.idx[b] > -1 /\ x.vals[x.idx[b] + 1].hash = h /\ x.vals[x.idx[b] + 1].key = k

\* probeBuckets: the loop leaves at the first bucket that is empty, that holds
\* an entry nearer to its place, or that holds the key.
Probe(x, h, k) ==
  LET at(d) == BucketIndex(x, h + d)
      last  == Min({d \in 0..x.len : \/ x.idx[at(d)] = -1 \/ d > x.dist[at(d)]
                                     \/ Holds(x, at(d), h, k)})
  IN  [bucket |-> at(last), dist |-> last,
       found  |-> x.idx[at(last)] > -1 /\ ~(last > x.dist[at(last)])]

\* Variant: no bucket is taken over.
TurnLinear(x, s) ==
  IF s.idx[s.b] = -1 THEN s ELSE [s EXCEPT !.b = BucketIndex(x, s.b + 1), !.d = s.d + 1]

\* A round of the loop of insertEntryIndex, that carries the entry n to bucket
\* b, d buckets behind its own: a bucket whose entry is nearer to its place is
\* taken over and its entry moves on.
Turn(x, s) ==
  IF s.idx[s.b] = -1 THEN s
  ELSE IF s.dist[s.b] < s.d
       THEN [idx |-> [s.idx EXCEPT ![s.b] = s.n], dist |-> [s.dist EXCEPT ![s.b] = s.d],
             n   |-> s.idx[s.b], b |-> BucketIndex(x, s.b + 1), d |-> s.dist[s.b] + 1]
       ELSE [idx |-> s.idx, dist |-> s.dist, n |-> s.n, b |-> BucketIndex(x, s.b + 1), d |-> s.d + 1]

\* insertEntryIndex: the loop leaves at an empty bucket.
InsertEntryIndex(x, n, b, d) ==
  LET walk[i \in 0..x.len] ==
        IF i = 0 THEN [idx |-> x.idx, dist |-> x.dist, n |-> n, b |-> b, d |-> d]
        ELSE Turn(x, walk[i - 1])
      last == walk[x.len]
  IN  [x EXCEPT !.idx = [last.idx EXCEPT ![last.b] = last.n],
                !.dist = [last.dist EXCEPT ![last.b] = last.d]]

\* The entries of a vector that are not holes.
Pack(vals) ==
  LET kept[n \in 0..Len(vals)] ==
        IF n = 0 THEN << >>
        ELSE IF vals[n] = Hole THEN kept[n - 1] ELSE Append(kept[n - 1], vals[n])
  IN  kept[Len(vals)]

\* OrderedMapEntries::compact.
Compact(x) == [x EXCEPT !.vals = Pack(x.vals)]

\* The body of the loop of rehash.
Place(x, n) ==
  IF x.vals[n] = Hole THEN x
  ELSE InsertEntryIndex(x, n - 1, BucketIndex(x, x.vals[n].hash), 0)

Rehash(x, grow) ==
  LET clean == EmptyBuckets([x EXCEPT !.len = IF grow THEN 2 * x.len ELSE x.len])
      placed[n \in 0..Len(x.vals)] == IF n = 0 THEN clean ELSE Place(placed[n - 1], n)
  IN  placed[Len(x.vals)]

\* OrderedMapEntries::add.
Add(x, e) ==
  [x EXCEPT !.cap  = IF Len(x.vals) # x.cap THEN x.cap
                      ELSE IF x.cap = 0 THEN InitCap ELSE x.cap + x.cap \div 2,
            !.vals = Append(x.vals, e)]

\* loadFactor(1) > MAX_LOAD_FACTOR, that is 0.9.
NeedGrow(x) == 10 * (x.size + 1) > 9 * x.len

NeedCompaction(x) == Len(x.vals) # x.size /\ (NeedGrow(x) \/ Len(x.vals) = x.cap)

\* The part of insert that adds a new entry.
AddEntry(x, probe, e) ==
  LET moved == NeedGrow(x) \/ NeedCompaction(x)
      room  == IF moved THEN Rehash(IF NeedCompaction(x) THEN Compact(x) ELSE x, NeedGrow(x)) ELSE x
      b     == IF moved THEN BucketIndex(room, e.hash) ELSE probe.bucket
      d     == IF moved THEN 0 ELSE probe.dist
  IN  [InsertEntryIndex(Add(room, e), Len(room.vals), b, d) EXCEPT !.size = x.size + 1]

Insert(x, hs, k, v) ==
  LET y     == IF x.idx = << >> THEN EmptyBuckets(x) ELSE x
      probe == Probe(y, hs[k], k)
      z     == AddEntry(y, probe, [key |-> k, val |-> v, hash |-> hs[k]])
  IN  IF k = NoKey THEN [map |-> x, index |-> -1, status |-> "INVALID_KEY"]
      ELSE IF probe.found THEN [map |-> y, index |-> y.idx[probe.bucket], status |-> "INSERTED"]
      ELSE IF y.size = MaxSize THEN [map |-> y, index |-> -1, status |-> "LIMIT"]
      ELSE [map |-> z, index |-> Len(z.vals) - 1, status |-> "OK"]

\* lookup.
Lookup(x, hs, k) ==
  IF x.size = 0 THEN -1
  ELSE LET probe == Probe(x, hs[k], k) IN IF probe.found THEN x.idx[probe.bucket] ELSE -1

\* Variant: the holes at the end stay.
DelHole(x, n) == [x EXCEPT !.vals[n + 1] = Hole]

\* OrderedMapEntries::del: the holes at the end are popped.
Del(x, n) ==
  LET holed == [x.vals EXCEPT ![n + 1] = Hole]
      live  == {a \in DOMAIN holed : holed[a] # Hole}
  IN  [x EXCEPT !.vals = SubSeq(holed, 1, Max(live \cup {0}))]

\* Variant: the entries behind the removed one stay.
VacateGap(x, b) == [x EXCEPT !.idx[b] = -1, !.dist[b] = 0]

\* The buckets from b up to the first that is empty or whose entry is in its
\* place: the loop of remove moves the entries behind b back by one bucket.
Vacate(x, b) ==
  LET at(d)  == BucketIndex(x, b + d)
      run    == Min({d \in 1..x.len : x.idx[at(d)] = -1 \/ x.dist[at(d)] = 0})
      off(a) == BucketIndex(x, a + x.len - b)
  IN  [x EXCEPT !.idx  = [a \in DOMAIN x.idx |->
                            IF off(a) < run - 1 THEN x.idx[BucketIndex(x, a + 1)]
                            ELSE IF off(a) = run - 1 THEN -1 ELSE x.idx[a]],
                !.dist = [a \in DOMAIN x.dist |->
                            IF off(a) < run - 1 THEN x.dist[BucketIndex(x, a + 1)] - 1
                            ELSE IF off(a) = run - 1 THEN 0 ELSE x.dist[a]]]

\* remove of a key that is there.
RemoveKey(x, hs, k) ==
  LET b == Probe(x, hs[k], k).bucket
  IN  [Vacate(Del(x, x.idx[b]), b) EXCEPT !.size = x.size - 1]

\* put: the outcome is the old value.
PutValue(x, hs, k, v) ==
  LET res == Insert(x, hs, k, v)
  IN  CASE res.status = "INSERTED" ->
             [map |-> [res.map EXCEPT !.vals[res.index + 1].val = v],
              ret |-> Ret("ok", NoKey, res.map.vals[res.index + 1].val)]
        [] res.status = "LIMIT" -> [map |-> res.map, ret |-> Ret("OutOfRangeError", NoKey, NoVal)]
        [] OTHER -> [map |-> res.map, ret |-> Ret("none", NoKey, NoVal)]

-----------------------------------------------------------------------------
(* The methods of Map *)

\* Variant: iterators are not counted.
InIterationNever == FALSE

InIteration == DOMAIN it # {}

\* checkIteratorInvalidation, and what a method does when it holds.
Modify(newMap, newRet) ==
  /\ IF InIteration THEN m' = m /\ ret' = Ret("InvalidOperationError", NoKey, NoVal)
     ELSE m' = newMap /\ ret' = newRet
  /\ UNCHANGED <<hash, it>>

Init ==
  /\ m = NewMap
  /\ hash \in [Key -> Hash]
  /\ it = << >>
  /\ ret = Ret("none", NoKey, NoVal)

\* map_set and map_put.
Put(k, v) == LET res == PutValue(m, hash, k, v) IN Modify(res.map, res.ret)

PutIfAbsent(k, v) ==
  LET res == Insert(m, hash, k, v)
  IN  Modify(res.map, IF res.index = -1 THEN Ret("OutOfRangeError", NoKey, NoVal)
                      ELSE Ret("ok", NoKey, res.map.vals[res.index + 1].val))

MapRemove(k) ==
  LET n == Lookup(m, hash, k)
  IN  IF n = -1 THEN Modify(m, Ret("none", NoKey, NoVal))
      ELSE Modify(RemoveKey(m, hash, k), Ret("ok", NoKey, m.vals[n + 1].val))

Swap(k, v) ==
  LET n == Lookup(m, hash, k)
  IN  IF n = -1 THEN Modify(m, Ret("KeyNotFoundError", NoKey, NoVal))
      ELSE Modify([m EXCEPT !.vals[n + 1].val = v], Ret("ok", NoKey, m.vals[n + 1].val))

Clear ==
  Modify(IF m.size = 0 THEN m ELSE [EmptyBuckets(m) EXCEPT !.size = 0, !.vals = << >>],
         Ret("none", NoKey, NoVal))

\* The body of the loop of map_putAll, that an error leaves.
PutNext(hs, acc, e) ==
  IF acc.ret.status = "OutOfRangeError" THEN acc ELSE PutValue(acc.map, hs, e.key, e.val)

\* map_putAll of the entries of another map, its holes included.
PutAll(other) ==
  LET put[n \in 0..Len(other)] ==
        IF n = 0 THEN [map |-> m, ret |-> Ret("ok", NoKey, NoVal)]
        ELSE PutNext(hash, put[n - 1], other[n])
      res == put[Len(other)]
  IN  Modify(res.map, IF res.ret.status = "OutOfRangeError" THEN res.ret ELSE Ret("ok", NoKey, NoVal))

\* map_putAll of the map itself.
PutAllSelf == ret' = Ret("ok", NoKey, NoVal) /\ UNCHANGED <<m, hash, it>>

\* map_copy into a map with another seed; the script drops the old one.
Copy(newHash) ==
  LET copied[n \in 0..Len(m.vals)] ==
        IF n = 0 THEN NewMap
        ELSE Insert(copied[n - 1], newHash, m.vals[n].key, m.vals[n].val).map
  IN  /\ ~InIteration
      /\ m' = copied[Len(m.vals)]
      /\ hash' = newHash
      /\ ret' = Ret("ok", NoKey, NoVal)
      /\ UNCHANGED it

\* map_iter, and the constructor of OrderedMapIterObject.
OpenIter(i) ==
  /\ i \notin DOMAIN it
  /\ it' = [j \in DOMAIN it \cup {i} |-> IF j = i THEN 0 ELSE it[j]]
  /\ ret' = Ret("ok", NoKey, NoVal)
  /\ UNCHANGED <<m, hash>>

\* map_next: hasNext, and nextEntry skips the holes.
NextOf(i) ==
  /\ i \in DOMAIN it
  /\ IF it[i] < Len(m.vals)
     THEN LET n == Min({a \in (it[i] + 1)..Len(m.vals) : m.vals[a] # Hole})
          IN  /\ ret' = Ret("ok", m.vals[n].key, m.vals[n].val)
              /\ it' = [it EXCEPT ![i] = n]
     ELSE ret' = Ret("void", NoKey, NoVal) /\ UNCHANGED it
  /\ UNCHANGED <<m, hash>>

\* The destructor of OrderedMapIterObject.
CloseIter(i) ==
  /\ i \in DOMAIN it
  /\ it' = [j \in DOMAIN it \ {i} |-> it[j]]
  /\ UNCHANGED <<m, hash, ret>>

\* The vectors of entries another map can have.
OtherEntries ==
  {o \in UNION {[1..n -> {Hole} \cup [key : Key, val : Val, hash : {0}]] : n \in 0..MaxOther} :
     /\ \A a, b \in DOMAIN o : o[a] # Hole /\ o[a].key = o[b].key => a = b
     /\ o # << >> => o[Len(o)] # Hole}

Next ==
  \/ \E k \in Key, v \in Val : Put(k, v) \/ PutIfAbsent(k, v) \/ Swap(k, v)
  \/ \E k \in Key : MapRemove(k)
  \/ \E other \in OtherEntries : PutAll(other)
  \/ \E newHash \in [Key -> Hash] : Copy(newHash)
  \/ Clear \/ PutAllSelf
  \/ \E i \in Iter : OpenIter(i) \/ NextOf(i) \/ CloseIter(i)

Spec == Init /\ [][Next]_vars

-----------------------------------------------------------------------------
(* Properties *)

Live(x) == {n \in DOMAIN x.vals : x.vals[n] # Hole}

\* Types; the vector fits its capacity and never ends in a hole, so that
\* nextEntry finds an entry whenever hasNext says so.
TypeOK ==
  /\ m.size = Cardinality(Live(m))
  /\ Len(m.vals) <= m.cap
  /\ m.vals # << >> => m.vals[Len(m.vals)] # Hole
  /\ hash \in [Key -> Hash]

\* Every entry is in exactly one bucket, as many buckets behind its own as the
\* bucket says, no bucket is left with a removed entry, and one is always empty,
\* so that insertEntryIndex ends.  Entries are ordered the way probeBuckets
\* relies on: the one before in the cluster is at most one bucket nearer.
RobinHood ==
  m.idx # << >> =>
    LET B == 0..(m.len - 1)
        E == {b \in B : m.idx[b] > -1}
    IN  /\ DOMAIN m.idx = B /\ DOMAIN m.dist = B
        /\ {m.idx[b] + 1 : b \in E} = Live(m) /\ Cardinality(E) = m.size
        /\ E # B
        /\ \A b \in E : b = BucketIndex(m, m.vals[m.idx[b] + 1].hash + m.dist[b])
        /\ \A b \in E : LET a == BucketIndex(m, b + m.len - 1)
                        IN  m.dist[b] > 0 => a \in E /\ m.dist[b] <= m.dist[a] + 1

\* Whatever the order of insertions and removals, lookup finds the entry of
\* every key that is in the map (map_get, map_find) and no other.
LookupExact ==
  \A k \in Key : LET n == {a \in Live(m) : m.vals[a].key = k}
                 IN  Lookup(m, hash, k) = (IF n = {} THEN -1 ELSE Max(n) - 1) /\ Cardinality(n) <= 1

=============================================================================

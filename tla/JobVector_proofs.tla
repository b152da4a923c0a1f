-------------------------- MODULE JobVector_proofs --------------------------
(***************************************************************************)
(* The binary search and the compaction of JobVector for vectors of any    *)
(* length, and the proof that the vector implements the list of job ids.   *)
(*                                                                         *)
(* That the ids ascend is not enough for the binary search: it compares an *)
(* id with an index, so it needs that ids grow at least as fast as indexes *)
(* (GapOK).  During the compaction this holds of the compacted prefix and  *)
(* of the tail that has not been looked at, and across the two for the     *)
(* indexes that the tail may end up at.                                    *)
(***************************************************************************)
EXTENDS JobVector, TLAPS

\* Ids grow at least as fast as indexes.
GapOK ==
  /\ \A a \in DOMAIN v : v[a].id >= a
  /\ \A a, b \in DOMAIN v : a < b => v[b].id >= v[a].id + (b - a)

\* The compacted prefix, the holes and the tail of the compaction.
CompactOK ==
  /\ \A a \in 1..first : v[a].avail /\ v[a].id >= a
  /\ \A a \in (first + 1)..i : ~v[a].avail
  /\ \A a, b \in 1..first : a < b => v[b].id >= v[a].id + (b - a)
  /\ \A a, b \in (i + 1)..Len(v) : a < b => v[b].id >= v[a].id + (b - a)
  /\ \A b \in (i + 1)..Len(v) : v[b].id >= first + (b - i)
  /\ \A a \in 1..first, b \in (i + 1)..Len(v) : v[b].id >= v[a].id + (first - a) + (b - i)

IInv ==
  /\ TypeOK
  /\ \A a, b \in DOMAIN v : v[a].id = v[b].id => a = b
  /\ pc # "compact" => GapOK
  /\ pc = "search" => /\ Len(v) < MaxJob
                      /\ \A a \in 1..first : v[a].id = a
                      /\ \A a \in (first + dist + 1)..Len(v) : v[a].id > a
  /\ pc = "scan" => \A a \in 1..first : v[a].avail
  /\ pc = "compact" => CompactOK

\* What the entries of a vector are.
LEMMA Entries ==
  ASSUME NEW s \in Seq(Entry)
  PROVE  /\ Len(s) \in Nat /\ DOMAIN s = 1..Len(s)
         /\ \A a \in 1..Len(s) : s[a] \in Entry /\ s[a].id \in Nat /\ s[a].id \in 1..MaxJob
<1>1. Len(s) \in Nat /\ DOMAIN s = 1..Len(s) /\ \A a \in 1..Len(s) : s[a] \in Entry
  OBVIOUS
<1>2. \A e \in Entry : e.id \in 1..MaxJob
  BY DEF Entry
<1> QED BY <1>1, <1>2, MaxJobAssumption

\* The index a job of the tail may end up at, after one more round.
LEMMA Shift ==
  ASSUME NEW x \in Int, NEW y \in Int, NEW f \in Int, NEW a \in Int, NEW b \in Int, NEW j \in Int,
         y >= x + (f - a) + (b - j)
  PROVE  /\ y >= x + ((f + 1) - a) + (b - (j + 1))
         /\ y >= x + (f - a) + (b - (j + 1))
OBVIOUS

\* The same for the job that has just been moved.
LEMMA ShiftMoved ==
  ASSUME NEW x \in Int, NEW y \in Int, NEW f \in Int, NEW b \in Int, NEW j \in Int,
         y >= x + (b - (j + 1))
  PROVE  y >= x + ((f + 1) - (f + 1)) + (b - (j + 1))
OBVIOUS

\* The same for the gap before the jobs that are still to be moved.
LEMMA ShiftGap ==
  ASSUME NEW y \in Int, NEW f \in Int, NEW b \in Int, NEW j \in Int, y >= f + (b - j)
  PROVE  y >= f + (b - (j + 1))
OBVIOUS

\* The vector starts empty.
LEMMA InitInv == Init => IInv
BY MaxJobAssumption DEF Init, IInv, TypeOK, GapOK

\* One round of the search (job.cpp:654-663).
LEMMA SearchInv ==
  ASSUME IInv, SearchStep
  PROVE  IInv'
<1> DEFINE half == dist \div 2
           mid == half + first
<1>1. /\ v \in Seq(Entry) /\ Len(v) \in Nat /\ first \in 0..Len(v)
      /\ dist \in 0..(Len(v) - first) /\ dist > 0 /\ pc = "search"
      /\ UNCHANGED <<v, pc, i>>
  BY DEF IInv, TypeOK, SearchStep
<1>2. half \in Nat /\ half < dist
  BY <1>1
<1>3. /\ IF v[mid + 1].id = mid + 1 THEN first' = mid + 1 /\ dist' = dist - half - 1
         ELSE first' = first /\ dist' = half
  BY DEF SearchStep
<1>4. mid + 1 \in DOMAIN v /\ mid \in Nat
  BY <1>1, <1>2
<1> HIDE DEF half
<1>5. \A a \in DOMAIN v : v[a].id \in Nat /\ v[a].id >= a
  BY <1>1, Entries DEF IInv, GapOK
<1>6. \A a, b \in DOMAIN v : a < b => v[b].id >= v[a].id + (b - a)
  BY <1>1 DEF IInv, GapOK
<1>7. CASE v[mid + 1].id = mid + 1
  <2>1. first' = mid + 1 /\ dist' = dist - half - 1
    BY <1>3, <1>7
  <2>2. ASSUME NEW a \in 1..(mid + 1)
        PROVE  v[a].id = a
    <3>1. a \in DOMAIN v /\ a \in Nat /\ a <= mid + 1 /\ v[a].id \in Nat /\ v[a].id >= a
      BY <1>1, <1>4, <1>5
    <3>2. a < mid + 1 => mid + 1 >= v[a].id + (mid + 1 - a)
      BY <1>4, <1>6, <1>7, <3>1
    <3> QED BY <1>4, <1>7, <3>1, <3>2
  <2>3. first' + dist' = first + dist
    BY <1>1, <1>2, <2>1
  <2>4. TypeOK'
    BY <1>1, <1>2, <2>1 DEF IInv, TypeOK
  <2> QED BY <1>1, <2>1, <2>2, <2>3, <2>4 DEF IInv, GapOK
<1>8. CASE v[mid + 1].id # mid + 1
  <2>1. first' = first /\ dist' = half
    BY <1>3, <1>8
  <2>2. v[mid + 1].id > mid + 1
    BY <1>4, <1>5, <1>8
  <2>3. \A a \in (mid + 1)..Len(v) : v[a].id > a
    BY SMTT(30), <1>1, <1>4, <1>5, <1>6, <2>2
  <2>4. TypeOK'
    BY <1>1, <1>2, <2>1 DEF IInv, TypeOK
  <2>5. first' + dist' = mid
    BY <1>1, <1>2, <2>1
  <2> QED BY <1>1, <2>1, <2>3, <2>4, <2>5 DEF IInv, GapOK
<1> QED BY <1>7, <1>8

\* Attaching a job at the index the search has found (job.cpp:525-527).
LEMMA InsertInv ==
  ASSUME IInv, Insert
  PROVE  /\ IInv'
         /\ first + 1 \in 1..MaxJob /\ first + 1 \notin used
         /\ \A x \in 1..first : x \in used
         /\ used' = used \cup {first + 1} /\ gone' = gone
<1> DEFINE e == [id |-> first + 1, avail |-> TRUE]
<1>1. /\ v \in Seq(Entry) /\ Len(v) \in Nat /\ first \in 0..Len(v) /\ Len(v) < MaxJob
      /\ dist = 0 /\ pc = "search" /\ pc' = "idle" /\ UNCHANGED <<first, dist, i>>
  BY DEF IInv, TypeOK, Insert
<1>2. first + 1 \in 1..MaxJob /\ e \in Entry /\ e.id = first + 1 /\ e.avail
  BY <1>1, MaxJobAssumption DEF Entry
<1>3. /\ \A a \in 1..first : v[a].id = a
      /\ \A a \in (first + 1)..Len(v) : v[a].id > a
  BY <1>1 DEF IInv
<1>4. DOMAIN v = 1..Len(v) /\ \A a \in DOMAIN v : v[a] \in Entry /\ v[a].id \in Nat
  BY <1>1, Entries
<1>5. v' = [a \in 1..(Len(v) + 1) |-> IF a <= first THEN v[a]
                                      ELSE IF a = first + 1 THEN e ELSE v[a - 1]]
  BY DEF Insert, InsertBefore
<1> HIDE DEF e
<1>6. /\ v' \in Seq(Entry) /\ Len(v') = Len(v) + 1 /\ DOMAIN v' = 1..(Len(v) + 1)
      /\ \A a \in 1..first : v'[a] = v[a]
      /\ v'[first + 1] = e
      /\ \A a \in (first + 2)..(Len(v) + 1) : v'[a] = v[a - 1] /\ a - 1 \in (first + 1)..Len(v)
  <2>1. \A a \in 1..(Len(v) + 1) :
          (IF a <= first THEN v[a] ELSE IF a = first + 1 THEN e ELSE v[a - 1]) \in Entry
    BY <1>1, <1>2, <1>4
  <2>2. v' \in [1..(Len(v) + 1) -> Entry]
    BY <1>5, <2>1
  <2>3. v' \in Seq(Entry) /\ Len(v') = Len(v) + 1
    BY <1>1, <2>2
  <2> QED BY <1>1, <1>5, <2>3
<1>7. \A a \in 1..first : v'[a].id = a
  BY <1>3, <1>6
<1>8. \A a \in (first + 2)..(Len(v) + 1) : v'[a].id >= a /\ v'[a].id = v[a - 1].id
  BY SMTT(30), <1>1, <1>3, <1>4, <1>6
<1>9. \A a, b \in (first + 1)..Len(v) : a < b => v[b].id >= v[a].id + (b - a)
  <2>1. \A a, b \in DOMAIN v : a < b => v[b].id >= v[a].id + (b - a)
    BY <1>1 DEF IInv, GapOK
  <2> QED BY SMTT(30), <1>1, <1>4, <2>1
<1>10. ASSUME NEW a \in (first + 2)..(Len(v) + 1), NEW b \in (first + 2)..(Len(v) + 1), a < b
       PROVE  v'[b].id >= v'[a].id + (b - a)
  <2>1. /\ v'[a].id = v[a - 1].id /\ v'[b].id = v[b - 1].id
        /\ a - 1 \in (first + 1)..Len(v) /\ b - 1 \in (first + 1)..Len(v)
    BY <1>6, <1>8
  <2>2. v[b - 1].id >= v[a - 1].id + ((b - 1) - (a - 1))
    BY SMTT(30), <1>1, <1>9, <1>10, <2>1
  <2>3. (b - 1) - (a - 1) = b - a
    BY <1>1
  <2> QED BY <2>1, <2>2, <2>3
<1>11. GapOK'
  <2>1. \A a \in 1..(Len(v) + 1) : v'[a].id >= a /\ v'[a].id \in Nat
    <3>1. \A a \in 1..(Len(v) + 1) : v'[a].id \in Nat
      BY <1>6, Entries
    <3>2. \A a \in 1..(Len(v) + 1) : a \in 1..first \/ a = first + 1 \/ a \in (first + 2)..(Len(v) + 1)
      BY <1>1
    <3>3. v'[first + 1].id >= first + 1
      BY <1>1, <1>2, <1>6
    <3> QED BY <1>1, <1>7, <1>8, <3>1, <3>2, <3>3
  <2>2. ASSUME NEW a \in 1..(Len(v) + 1), NEW b \in 1..(Len(v) + 1), a < b
        PROVE  v'[b].id >= v'[a].id + (b - a)
    <3>1. CASE a <= first + 1
      <4>1. v'[a].id = a
        BY <1>1, <1>2, <1>6, <1>7, <3>1
      <4> QED BY <1>1, <2>1, <2>2, <4>1
    <3>2. CASE a > first + 1
      BY <1>1, <1>10, <2>2, <3>2
    <3> QED BY <1>1, <3>1, <3>2
  <2> QED BY <1>6, <2>1, <2>2 DEF GapOK
<1>12. \A a, b \in DOMAIN v' : v'[a].id = v'[b].id => a = b
  <2>1. \A a \in DOMAIN v' : v'[a].id \in Nat
    BY <1>6, Entries
  <2>2. \A a, b \in DOMAIN v' : a < b => v'[b].id >= v'[a].id + (b - a)
    BY <1>11 DEF GapOK
  <2>3. \A a, b \in DOMAIN v' : a < b => v'[b].id # v'[a].id
    BY <1>1, <1>6, <2>1, <2>2
  <2>4. \A a, b \in DOMAIN v' : a < b \/ b < a \/ a = b
    BY <1>1, <1>6
  <2> QED BY <2>3, <2>4
<1>13. TypeOK'
  <2>1. Len(v') <= MaxJob /\ first' \in 0..Len(v')
    BY <1>1, <1>6, MaxJobAssumption
  <2> QED BY <1>1, <1>6, <2>1 DEF TypeOK
<1>14. first + 1 \notin used /\ \A x \in 1..first : x \in used
  BY <1>1, <1>3, <1>4 DEF used
<1>15. used' = used \cup {first + 1}
  <2>1. \A a \in DOMAIN v : v[a].id \in used'
    <3>1. \A a \in 1..first : v[a] = v'[a] /\ a \in DOMAIN v'
      BY <1>1, <1>6
    <3>2. \A a \in (first + 1)..Len(v) : v[a] = v'[a + 1] /\ a + 1 \in DOMAIN v'
      BY SMTT(30), <1>1, <1>6
    <3> QED BY <1>1, <1>4, <3>1, <3>2 DEF used
  <2>2. \A a \in DOMAIN v' : v'[a].id \in used \cup {first + 1}
    <3>1. \A a \in DOMAIN v' : v'[a] = e \/ \E b \in DOMAIN v : v'[a] = v[b]
      <4>1. \A a \in 1..first : a \in DOMAIN v
        BY <1>1, <1>4
      <4>2. \A a \in (first + 2)..(Len(v) + 1) : a - 1 \in DOMAIN v
        BY <1>1, <1>4
      <4>3. \A a \in DOMAIN v' : a \in 1..first \/ a = first + 1 \/ a \in (first + 2)..(Len(v) + 1)
        BY <1>1, <1>6
      <4> QED BY <1>6, <4>1, <4>2, <4>3
    <3> QED BY <1>2, <3>1 DEF used
  <2>3. first + 1 \in used'
    BY <1>1, <1>2, <1>6 DEF used
  <2> QED BY <2>1, <2>2, <2>3 DEF used
<1>16. gone' = gone
  <2>1. \A a \in DOMAIN v : ~v[a].avail => v[a].id \in gone'
    <3>1. \A a \in 1..first : v[a] = v'[a] /\ a \in DOMAIN v'
      BY <1>1, <1>6
    <3>2. \A a \in (first + 1)..Len(v) : v[a] = v'[a + 1] /\ a + 1 \in DOMAIN v'
      BY <1>1, <1>6
    <3> QED BY <1>1, <1>4, <3>1, <3>2 DEF gone
  <2>2. \A a \in DOMAIN v' : ~v'[a].avail => v'[a].id \in gone
    <3>1. \A a \in DOMAIN v' : ~v'[a].avail => \E b \in DOMAIN v : v'[a] = v[b]
      BY SMTT(60), <1>1, <1>2, <1>4, <1>6
    <3> QED BY <3>1 DEF gone
  <2> QED BY <2>1, <2>2 DEF gone
<1> QED BY <1>1, <1>2, <1>11, <1>12, <1>13, <1>14, <1>15, <1>16 DEF IInv

\* A job terminates (job.h:373-385).
LEMMA LeaveInv ==
  ASSUME IInv, NEW k \in DOMAIN v, Leave(k)
  PROVE  /\ IInv'
         /\ v[k].id \in used \ gone
         /\ used' = used /\ gone' = gone \cup {v[k].id}
<1>1. /\ v \in Seq(Entry) /\ pc = "idle" /\ pc' = "idle" /\ UNCHANGED <<first, dist, i>>
      /\ v' = [v EXCEPT ![k] = [v[k] EXCEPT !.avail = FALSE]] /\ v[k].avail
  BY DEF IInv, TypeOK, Leave
<1>2. DOMAIN v = 1..Len(v) /\ \A a \in DOMAIN v : v[a] \in Entry /\ v[a].id \in Nat
  BY Zenon, <1>1, Entries
<1>3. /\ [v[k] EXCEPT !.avail = FALSE] \in Entry
      /\ [v[k] EXCEPT !.avail = FALSE].id = v[k].id
      /\ ~[v[k] EXCEPT !.avail = FALSE].avail
  BY Zenon, <1>2 DEF Entry
<1>4. v' \in Seq(Entry) /\ Len(v') = Len(v) /\ DOMAIN v' = DOMAIN v
  BY <1>1, <1>2, <1>3
<1>5. \A a \in DOMAIN v : /\ v'[a].id = v[a].id
                          /\ a # k => v'[a] = v[a]
                          /\ ~v'[k].avail
  BY Zenon, <1>1, <1>3
<1>6. \A a \in DOMAIN v : v[a].id = v[k].id => a = k
  BY DEF IInv
<1>7. IInv'
  <2>1. TypeOK'
    BY <1>1, <1>4 DEF IInv, TypeOK
  <2>2. GapOK'
    BY <1>1, <1>4, <1>5 DEF IInv, GapOK
  <2>3. \A a, b \in DOMAIN v' : v'[a].id = v'[b].id => a = b
    BY <1>4, <1>5 DEF IInv
  <2> QED BY <1>1, <2>1, <2>2, <2>3 DEF IInv
<1>8. v[k].id \in used \ gone
  BY <1>1, <1>6 DEF used, gone
<1>9. used' = used
  BY <1>4, <1>5 DEF used
<1>10. gone' = gone \cup {v[k].id}
  <2>1. \A a \in DOMAIN v : ~v[a].avail => v[a].id \in gone'
    BY <1>1, <1>4, <1>5 DEF gone
  <2>2. v[k].id \in gone'
    BY <1>4, <1>5 DEF gone
  <2>3. \A a \in DOMAIN v' : ~v'[a].avail => v'[a].id \in gone \cup {v[k].id}
    BY <1>4, <1>5 DEF gone
  <2> QED BY <2>1, <2>2, <2>3 DEF gone
<1> QED BY <1>7, <1>8, <1>9, <1>10

\* One round of the compaction (job.cpp:731-737).
LEMMA CompactInv ==
  ASSUME IInv, CompactStep
  PROVE  IInv' /\ used' = used /\ gone' = gone
<1>1. /\ v \in Seq(Entry) /\ Len(v) <= MaxJob /\ pc = "compact" /\ pc' = "compact" /\ dist' = dist
      /\ first \in Nat /\ i \in (first + 1)..Len(v) /\ i < Len(v) /\ i' = i + 1
      /\ CompactOK
  BY DEF IInv, TypeOK, CompactStep
<1>2. /\ DOMAIN v = 1..Len(v) /\ Len(v) \in Nat
      /\ \A a \in DOMAIN v : v[a] \in Entry /\ v[a].id \in Nat
  BY <1>1, Entries
<1>a. \A a \in (first + 1)..i : ~v[a].avail
  BY Zenon, <1>1 DEF CompactOK
<1>b. \A a, b \in (i + 1)..Len(v) : a < b => v[b].id >= v[a].id + (b - a)
  BY Zenon, <1>1 DEF CompactOK
<1>c. \A b \in (i + 1)..Len(v) : v[b].id >= first + (b - i)
  BY Zenon, <1>1 DEF CompactOK
<1>d. \A a \in 1..first, b \in (i + 1)..Len(v) : v[b].id >= v[a].id + (first - a) + (b - i)
  BY Zenon, <1>1 DEF CompactOK
<1>e. first \in Nat /\ i \in Nat /\ first < i /\ i < Len(v) /\ Len(v) \in Nat
      /\ i + 1 \in (i + 1)..Len(v)
  BY <1>1, <1>2
<1>3. CASE v[i + 1].avail
  <2>1. /\ v' = [v EXCEPT ![i + 1] = v[first + 1], ![first + 1] = v[i + 1]]
        /\ first' = first + 1
    BY <1>3 DEF CompactStep
  <2>2. i + 1 \in DOMAIN v /\ first + 1 \in DOMAIN v /\ first + 1 # i + 1 /\ i \in Nat
    BY <1>1, <1>2
  <2>3. /\ v' \in Seq(Entry) /\ Len(v') = Len(v) /\ DOMAIN v' = DOMAIN v
        /\ v'[i + 1] = v[first + 1] /\ v'[first + 1] = v[i + 1]
        /\ \A a \in DOMAIN v : a # i + 1 /\ a # first + 1 => v'[a] = v[a]
    BY <1>1, <1>2, <2>1, <2>2
  <2>4. TypeOK'
    BY <1>1, <1>2, <2>1, <2>3 DEF TypeOK
  <2>5. \A a, b \in DOMAIN v' : v'[a].id = v'[b].id => a = b
    <3>1. \A a, b \in DOMAIN v : v[a].id = v[b].id => a = b
      BY DEF IInv
    <3> QED BY <2>2, <2>3, <3>1
  <2>6. ~v[first + 1].avail
    BY <1>a, <1>e
  <2>7. /\ \A a \in 1..first : v'[a] = v[a]
        /\ \A a \in (i + 2)..Len(v) : v'[a] = v[a]
        /\ \A a \in (first + 2)..i : v'[a] = v[a]
    <3>1. /\ \A a \in 1..first : a \in DOMAIN v /\ a # i + 1 /\ a # first + 1
          /\ \A a \in (i + 2)..Len(v) : a \in DOMAIN v /\ a # i + 1 /\ a # first + 1
          /\ \A a \in (first + 2)..i : a \in DOMAIN v /\ a # i + 1 /\ a # first + 1
      BY <1>1, <1>2
    <3> QED BY <2>3, <3>1
  <2>8. \A a \in 1..(first + 1) : v'[a].avail /\ v'[a].id >= a
    <3>1. v[i + 1].id >= first + 1
      <4>1. v[i + 1].id >= first + ((i + 1) - i)
        BY Zenon, <1>c, <1>e
      <4> QED BY <1>e, <4>1
    <3>2. \A a \in 1..first : v'[a].avail /\ v'[a].id >= a
      BY Zenon, <1>1, <2>7 DEF CompactOK
    <3> QED BY SMTT(30), <1>1, <1>3, <2>3, <3>1, <3>2
  <2>9. \A a \in (first + 2)..(i + 1) : ~v'[a].avail
    <3>1. \A a \in (first + 2)..i : ~v'[a].avail
      <4>1. (first + 2)..i \subseteq (first + 1)..i
        BY <1>e
      <4> QED BY Zenon, <1>a, <2>7, <4>1
    <3>2. \A a \in (first + 2)..(i + 1) : a \in (first + 2)..i \/ a = i + 1
      BY <1>e
    <3> QED BY Zenon, <2>3, <2>6, <3>1, <3>2
  <2>10. \A a, b \in 1..(first + 1) : a < b => v'[b].id >= v'[a].id + (b - a)
    <3>1. i + 1 \in (i + 1)..Len(v)
      BY <1>1, <1>2, <2>2
    <3>2. ASSUME NEW a \in 1..first
          PROVE  v'[first + 1].id >= v'[a].id + ((first + 1) - a)
      <4>1. v[i + 1].id >= v[a].id + (first - a) + ((i + 1) - i)
        BY Zenon, <1>d, <3>1
      <4>2. v[a].id \in Nat /\ v[i + 1].id \in Nat /\ a \in Nat
        BY SMTT(30), <1>1, <1>2, <2>2
      <4>3. v[i + 1].id >= v[a].id + ((first + 1) - a)
        BY SMTT(60), <1>1, <2>2, <4>1, <4>2
      <4> QED BY <2>3, <2>7, <4>3
    <3>3. \A a, b \in 1..first : a < b => v'[b].id >= v'[a].id + (b - a)
      BY Zenon, <1>1, <2>7 DEF CompactOK
    <3>4. \A a, b \in 1..(first + 1) :
            a < b => a \in 1..first /\ (b \in 1..first \/ b = first + 1)
      BY <1>1
    <3> QED BY <3>2, <3>3, <3>4
  <2>a. (i + 2)..Len(v) \subseteq (i + 1)..Len(v)
    BY <1>2, <2>2
  <2>11. \A a, b \in (i + 2)..Len(v) : a < b => v'[b].id >= v'[a].id + (b - a)
    BY Zenon, <1>b, <2>7, <2>a
  <2>12. \A b \in (i + 2)..Len(v) : v'[b].id >= (first + 1) + (b - (i + 1))
    <3>1. \A b \in (i + 2)..Len(v) : (first + 1) + (b - (i + 1)) = first + (b - i)
      BY <1>e
    <3> QED BY Zenon, <1>c, <2>7, <2>a, <3>1
  <2>13. ASSUME NEW a \in 1..(first + 1), NEW b \in (i + 2)..Len(v)
         PROVE  v'[b].id >= v'[a].id + ((first + 1) - a) + (b - (i + 1))
    <3>1. CASE a = first + 1
      <4>1. v[b].id >= v[i + 1].id + (b - (i + 1))
        <5>1. b \in (i + 1)..Len(v) /\ i + 1 < b
          BY <1>e
        <5> QED BY Zenon, <1>b, <1>e, <5>1
      <4>2. v[b].id \in Nat /\ v[i + 1].id \in Nat
        BY <1>2, <1>e
      <4>3. v[b].id >= v[i + 1].id + ((first + 1) - (first + 1)) + (b - (i + 1))
        <5>1. v[b].id \in Int /\ v[i + 1].id \in Int /\ first \in Int /\ b \in Int /\ i \in Int
          BY <1>e, <4>2
        <5> QED BY Zenon, <4>1, <5>1, ShiftMoved
      <4> QED BY Zenon, <2>3, <2>7, <3>1, <4>3
    <3>2. CASE a \in 1..first
      <4>1. v[b].id >= v[a].id + (first - a) + (b - i)
        BY Zenon, <1>d, <2>a, <3>2
      <4>2. v[a].id \in Nat /\ v[b].id \in Nat
        BY <1>1, <1>2, <3>2
      <4>3. v[b].id >= v[a].id + ((first + 1) - a) + (b - (i + 1))
        <5>1. v[a].id \in Int /\ v[b].id \in Int /\ first \in Int /\ a \in Int /\ b \in Int /\ i \in Int
          BY <1>1, <2>2, <3>2, <4>2
        <5> QED BY Zenon, <4>1, <5>1, Shift
      <4> QED BY <2>7, <3>2, <4>3
    <3> QED BY <1>1, <3>1, <3>2
  <2>14. (i + 1) + 1 = i + 2 /\ (first + 1) + 1 = first + 2
    BY <1>1, <2>2
  <2>15. CompactOK'
    BY ZenonT(40), <1>1, <2>1, <2>3, <2>8, <2>9, <2>10, <2>11, <2>12, <2>13, <2>14 DEF CompactOK
  <2>16. used' = used
    BY <2>2, <2>3 DEF used
  <2>17. gone' = gone
    BY <2>2, <2>3 DEF gone
  <2> QED BY <1>1, <2>4, <2>5, <2>15, <2>16, <2>17 DEF IInv
<1>4. CASE ~v[i + 1].avail
  <2>1. UNCHANGED <<v, first>>
    BY <1>4 DEF CompactStep
  <2>2. TypeOK'
    BY <1>1, <1>2, <2>1 DEF TypeOK
  <2>3. \A a \in (first + 1)..(i + 1) : ~v[a].avail
    <3>1. \A a \in (first + 1)..(i + 1) : a \in (first + 1)..i \/ a = i + 1
      BY <1>e
    <3> QED BY Zenon, <1>a, <1>4, <3>1
  <2>4. \A b \in ((i + 1) + 1)..Len(v) : b \in (i + 1)..Len(v) /\ b - i >= b - (i + 1)
    BY <1>1, <1>2
  <2>5. \A b \in ((i + 1) + 1)..Len(v) : v[b].id >= first + (b - (i + 1))
    <3> SUFFICES ASSUME NEW b \in ((i + 1) + 1)..Len(v)
                 PROVE  v[b].id >= first + (b - (i + 1))
      BY Zenon
    <3>1. v[b].id >= first + (b - i)
      BY Zenon, <1>c, <2>4
    <3>2. v[b].id \in Nat
      BY <1>2, <1>e
    <3>3. v[b].id \in Int /\ first \in Int /\ b \in Int /\ i \in Int
      BY <1>e, <3>2
    <3> QED BY Zenon, <3>1, <3>3, ShiftGap
  <2>6. ASSUME NEW a \in 1..first, NEW b \in ((i + 1) + 1)..Len(v)
        PROVE  v[b].id >= v[a].id + (first - a) + (b - (i + 1))
    <3>1. v[b].id >= v[a].id + (first - a) + (b - i)
      BY Zenon, <1>d, <2>4
    <3>2. v[a].id \in Int /\ v[b].id \in Int /\ a \in Int /\ b \in Int /\ i \in Int /\ first \in Int
      BY SMTT(30), <1>1, <1>2
    <3> QED BY Zenon, <3>1, <3>2, Shift
  <2>7. CompactOK'
    BY <1>1, <2>1, <2>3, <2>4, <2>5, <2>6 DEF CompactOK
  <2> QED BY <1>1, <2>1, <2>2, <2>7 DEF IInv, used, gone
<1> QED BY <1>3, <1>4

\* The end of the compaction (job.cpp:738-743).
LEMMA PopInv ==
  ASSUME IInv, PopBack
  PROVE  IInv' /\ used' = used \ gone /\ gone' = {}
<1>1. /\ v \in Seq(Entry) /\ Len(v) <= MaxJob /\ pc = "compact" /\ pc' = "idle"
      /\ first \in 0..Len(v) /\ i \in (first + 1)..Len(v) /\ i >= Len(v)
      /\ UNCHANGED <<first, dist, i>> /\ v' = SubSeq(v, 1, first) /\ CompactOK
  BY DEF IInv, TypeOK, PopBack
<1>2. /\ DOMAIN v = 1..Len(v) /\ Len(v) \in Nat
      /\ \A a \in DOMAIN v : v[a] \in Entry /\ v[a].id \in Nat
  BY <1>1, Entries
<1>3. /\ v' \in Seq(Entry) /\ Len(v') = first /\ DOMAIN v' = 1..first
      /\ \A a \in 1..first : v'[a] = v[a] /\ a \in DOMAIN v
  BY <1>1, <1>2
<1>4. i = Len(v)
  BY <1>1, <1>2
<1>5. \A a \in DOMAIN v : v[a].avail <=> a \in 1..first
  <2>1. \A a \in DOMAIN v : a \in 1..first \/ a \in (first + 1)..i
    BY <1>1, <1>2, <1>4
  <2>2. \A a \in (first + 1)..i : a \notin 1..first
    BY <1>1
  <2> QED BY <1>1, <2>1, <2>2 DEF CompactOK
<1>6. \A a, b \in DOMAIN v : v[a].id = v[b].id => a = b
  BY DEF IInv
<1>7. TypeOK'
  <2>1. Len(v') <= MaxJob /\ first' \in 0..Len(v')
    BY <1>1, <1>2, <1>3, MaxJobAssumption
  <2> QED BY <1>1, <1>3, <2>1 DEF TypeOK
<1>8. GapOK'
  BY ZenonT(40), <1>1, <1>3 DEF GapOK, CompactOK
<1>9. \A a, b \in DOMAIN v' : v'[a].id = v'[b].id => a = b
  BY <1>3, <1>6
<1>10. used' = used \ gone
  <2>1. \A a \in DOMAIN v : v[a].id \in gone <=> ~v[a].avail
    BY <1>6 DEF gone
  <2>2. used' = {v[a].id : a \in 1..first}
    BY <1>3 DEF used
  <2>3. used \ gone = {v[a].id : a \in 1..first}
    BY <1>3, <1>5, <2>1 DEF used
  <2> QED BY <2>2, <2>3
<1>11. gone' = {}
  BY <1>3, <1>5 DEF gone
<1> QED BY <1>1, <1>7, <1>8, <1>9, <1>10, <1>11 DEF IInv

\* One round of the loop that looks for the first hole (job.cpp:722-729).
LEMMA ScanInv ==
  ASSUME IInv, ScanStep
  PROVE  /\ IInv' /\ used' = used
         /\ gone' = gone
<1>1. /\ v \in Seq(Entry) /\ pc = "scan" /\ first \in 0..Len(v) /\ UNCHANGED <<v, dist>>
      /\ GapOK /\ \A a \in 1..first : v[a].avail
      /\ \A a, b \in DOMAIN v : v[a].id = v[b].id => a = b
  BY DEF IInv, TypeOK, ScanStep
<1>2. /\ DOMAIN v = 1..Len(v) /\ Len(v) \in Nat
      /\ \A a \in DOMAIN v : v[a] \in Entry /\ v[a].id \in Nat
  BY <1>1, Entries
<1>3. used' = used /\ gone' = gone
  BY <1>1 DEF used, gone
<1>4. CASE first = Len(v)
  <2>1. pc' = "idle" /\ UNCHANGED <<first, i>>
    BY <1>4 DEF ScanStep
  <2> QED BY <1>1, <1>3, <2>1 DEF IInv, TypeOK, GapOK
<1>5. CASE first # Len(v) /\ v[first + 1].avail
  <2>1. pc' = "scan" /\ first' = first + 1 /\ i' = i
    BY <1>1, <1>5 DEF ScanStep
  <2>2. first' \in 0..Len(v) /\ \A a \in 1..(first + 1) : v[a].avail
    BY <1>1, <1>2, <1>5, <2>1
  <2> QED BY <1>1, <1>3, <2>1, <2>2 DEF IInv, TypeOK, GapOK
<1>6. CASE first # Len(v) /\ ~v[first + 1].avail
  <2>1. pc' = "compact" /\ i' = first + 1 /\ first' = first
    BY <1>1, <1>6 DEF ScanStep
  <2>2. TypeOK'
    BY <1>1, <1>2, <1>6, <2>1 DEF IInv, TypeOK
  <2>3. \A a \in 1..Len(v) : v[a].id >= a
    BY <1>1, <1>2 DEF GapOK
  <2>4. \A a, b \in 1..Len(v) : a < b => v[b].id >= v[a].id + (b - a)
    BY Zenon, <1>1, <1>2 DEF GapOK
  <2>5. /\ \A a \in 1..first : a \in 1..Len(v)
        /\ \A a \in ((first + 1) + 1)..Len(v) : a \in 1..Len(v)
        /\ \A a \in (first + 1)..(first + 1) : a = first + 1
        /\ first + 1 \in Nat
    BY <1>1, <1>2
  <2>6. \A b \in ((first + 1) + 1)..Len(v) : v[b].id >= first + (b - (first + 1))
    BY <1>1, <1>2, <2>3, <2>5
  <2>7. ASSUME NEW a \in 1..first, NEW b \in ((first + 1) + 1)..Len(v)
        PROVE  v[b].id >= v[a].id + (first - a) + (b - (first + 1))
    <3>1. a \in Nat /\ b \in Nat /\ a < b /\ v[a].id \in Nat /\ v[b].id \in Nat
      BY <1>1, <1>2, <2>5
    <3>2. v[b].id >= v[a].id + (b - a)
      BY <2>4, <2>5, <3>1
    <3> QED BY SMTT(30), <1>1, <3>1, <3>2
  <2>8. CompactOK'
    BY <1>1, <1>6, <2>1, <2>3, <2>4, <2>5, <2>6, <2>7 DEF CompactOK
  <2> QED BY <1>1, <1>3, <2>1, <2>2, <2>8 DEF IInv
<1> QED BY <1>4, <1>5, <1>6

\* Every step keeps the invariant.
LEMMA NextInv == IInv /\ [Next]_vars => IInv'
<1> SUFFICES ASSUME IInv, [Next]_vars PROVE IInv'
  OBVIOUS
<1>1. CASE Attach
  <2>1. v \in Seq(Entry) /\ Len(v) \in Nat /\ Len(v) < MaxJob /\ pc = "idle" /\ pc' = "search"
    BY <1>1 DEF IInv, TypeOK, Attach
  <2>2. v' = v /\ first' = 0 /\ dist' = Len(v)
    BY <1>1 DEF Attach
  <2>3. TypeOK'
    BY <2>1, <2>2 DEF IInv, TypeOK
  <2>4. /\ \A a \in 1..first' : FALSE
        /\ \A a \in (first' + dist' + 1)..Len(v) : FALSE
    BY <2>1, <2>2
  <2> QED BY <2>1, <2>2, <2>3, <2>4 DEF IInv, GapOK
<1>2. CASE RemoveTerminatedJobs
  <2>1. v \in Seq(Entry) /\ Len(v) \in Nat /\ pc = "idle" /\ pc' = "scan" /\ v' = v /\ first' = 0
    BY <1>2 DEF IInv, TypeOK, RemoveTerminatedJobs
  <2>2. TypeOK'
    BY <2>1 DEF IInv, TypeOK
  <2> QED BY <2>1, <2>2 DEF IInv, GapOK
<1>3. CASE UNCHANGED vars
  BY ZenonT(40), <1>3 DEF IInv, TypeOK, GapOK, CompactOK, vars
<1> QED BY <1>1, <1>2, <1>3, SearchInv, InsertInv, LeaveInv, ScanInv, CompactInv, PopInv DEF Next

\* The invariant of the vector.
THEOREM Invariance == Spec => []IInv
BY InitInv, NextInv, PTL DEF Spec

\* No index of findEmptyEntry or removeTerminatedJobs leaves the vector
\* (job.cpp:650-665, 715-743), for every limit of the job table.
THEOREM TypeCorrect == Spec => []TypeOK
BY Invariance, PTL DEF IInv

\* std::lower_bound always searches a vector of ascending ids (job.cpp:673-681).
THEOREM StaysSorted == Spec => []Sorted
<1>1. IInv => Sorted
  <2> SUFFICES ASSUME IInv, pc # "compact", NEW a \in DOMAIN v, NEW b \in DOMAIN v, a < b
               PROVE  v[a].id < v[b].id
    BY DEF Sorted
  <2>1. a \in Nat /\ b \in Nat /\ v[a].id \in Nat /\ v[b].id \in Nat
    BY Entries DEF IInv, TypeOK
  <2>2. v[b].id >= v[a].id + (b - a)
    BY DEF IInv, GapOK
  <2> QED BY <2>1, <2>2
<1> QED BY <1>1, Invariance, PTL

\* The assertions of removeTerminatedJobs never fail (job.cpp:733 and 738).
THEOREM AssertionsHold == Spec => []CompactAssertions
<1>1. IInv => CompactAssertions
  <2> SUFFICES ASSUME IInv, pc = "compact"
               PROVE  first < Len(v) /\ ~v[first + 1].avail
    BY DEF CompactAssertions
  <2>1. first \in Nat /\ Len(v) \in Nat /\ i \in (first + 1)..Len(v) /\ CompactOK
    BY DEF IInv, TypeOK
  <2>2. first + 1 \in (first + 1)..i /\ first < Len(v)
    BY <2>1
  <2> QED BY <2>1, <2>2 DEF CompactOK
<1> QED BY <1>1, Invariance, PTL

\* The binary search and the in-place compaction implement the list of job ids:
\* a new job gets the smallest free id, a purge frees exactly the ids of the
\* jobs that have terminated, and no other step changes an id.
THEOREM Refinement == Spec => Implements
<1>1. Init => List!Init
  BY DEF Init, List!Init, used, gone
<1>2. IInv /\ [Next]_vars => [List!Next]_(List!vars)
  <2> SUFFICES ASSUME IInv, [Next]_vars PROVE List!Next \/ (used' = used /\ gone' = gone)
    BY DEF List!vars
  <2>1. CASE Insert
    <3>1. List!Attach
      BY <2>1, InsertInv DEF List!Attach, List!Smallest, IInv, TypeOK
    <3> QED BY <3>1 DEF List!Next
  <2>2. ASSUME NEW k \in DOMAIN v, Leave(k) PROVE List!Next
    <3>1. v[k].id \in used \ gone /\ used' = used /\ gone' = gone \cup {v[k].id}
      BY <2>2, LeaveInv
    <3> QED BY <3>1 DEF List!Next, List!Leave
  <2>3. CASE PopBack
    BY <2>3, PopInv DEF List!Next, List!Purge
  <2>4. CASE Attach \/ SearchStep \/ RemoveTerminatedJobs \/ UNCHANGED vars
    <3>1. v' = v
      BY <2>4 DEF Attach, SearchStep, RemoveTerminatedJobs, vars
    <3> QED BY <3>1 DEF used, gone
  <2> QED BY <2>1, <2>2, <2>3, <2>4, ScanInv, CompactInv DEF Next
<1> QED BY <1>1, <1>2, Invariance, PTL DEF Spec, Implements, List!Spec

=============================================================================

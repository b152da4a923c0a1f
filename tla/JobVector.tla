----------------------------- MODULE JobVector -----------------------------
(***************************************************************************)
(* The vector of attached jobs (JobTable::jobs, src/src/job.cpp), sorted   *)
(* by job id: the binary search of findEmptyEntry for the id of a new job  *)
(* and the in-place compaction of removeTerminatedJobs, one action per     *)
(* round of a loop.  ProcTable::batchedRemove is the same compaction over  *)
(* the entries of the ProcTable.                                           *)
(*                                                                         *)
(* A job is its id and whether it is available.  Vectors of the code are   *)
(* indexed from 0; v[k + 1] is the code's jobs[k].                         *)
(***************************************************************************)
EXTENDS Integers, Sequences

CONSTANT MaxJob   \* SYS_LIMIT_JOB_TABLE_SIZE

ASSUME MaxJobAssumption == MaxJob \in Nat \ {0}

VARIABLES
  v,        \* the vector of jobs
  pc,       \* the loop that is running
  first,    \* findEmptyEntry: firstIndex; removeTerminatedJobs: removedIndex
  dist,     \* findEmptyEntry: dist
  i         \* removeTerminatedJobs: i

vars == <<v, pc, first, dist, i>>

Entry == [id : 1..MaxJob, avail : BOOLEAN]

Init == v = << >> /\ pc = "idle" /\ first = 0 /\ dist = 0 /\ i = 0

\* JobTable::attach, from the entry of findEmptyEntry.  Proc::fork has checked
\* that the table is not full.
Attach ==
  /\ pc = "idle"
  /\ Len(v) < MaxJob
  /\ pc' = "search" /\ first' = 0 /\ dist' = Len(v)
  /\ UNCHANGED <<v, i>>

\* Variant: the left half is rounded up.
SearchStepUp ==
  LET half == dist \div 2
      mid  == half + first
  IN  /\ pc = "search"
      /\ dist > 0
      /\ IF v[mid + 1].id = mid + 1
         THEN first' = mid + 1 /\ dist' = dist - half - 1
         ELSE first' = first /\ dist' = dist - half
      /\ UNCHANGED <<v, pc, i>>

\* One round of the binary search.
SearchStep ==
  LET half == dist \div 2
      mid  == half + first
  IN  /\ pc = "search"
      /\ dist > 0
      /\ IF v[mid + 1].id = mid + 1
         THEN first' = mid + 1 /\ dist' = dist - half - 1
         ELSE first' = first /\ dist' = half
      /\ UNCHANGED <<v, pc, i>>

\* Variant: the job is added at the end.
InsertBack(s, k, e) == Append(s, e)

\* std::vector::insert of e before index k of the code.
InsertBefore(s, k, e) ==
  [a \in 1..(Len(s) + 1) |-> IF a <= k THEN s[a] ELSE IF a = k + 1 THEN e ELSE s[a - 1]]

\* The search is over: the job goes to that index and its id is index + 1.
Insert ==
  /\ pc = "search"
  /\ dist = 0
  /\ v' = InsertBefore(v, first, [id |-> first + 1, avail |-> TRUE])
  /\ pc' = "idle"
  /\ UNCHANGED <<first, dist, i>>

\* JobObject::updateState: the job at index k has terminated.
Leave(k) ==
  /\ pc = "idle"
  /\ v[k].avail
  /\ v' = [v EXCEPT ![k].avail = FALSE]
  /\ UNCHANGED <<pc, first, dist, i>>

\* removeTerminatedJobs, after batchedRemove.  Whether there is anything to
\* remove (getDeletedCount) is left open.
RemoveTerminatedJobs ==
  /\ pc = "idle"
  /\ pc' = "scan" /\ first' = 0
  /\ UNCHANGED <<v, dist, i>>

\* The loop that looks for the first job that is not available.
ScanStep ==
  /\ pc = "scan"
  /\ IF first = Len(v) THEN pc' = "idle" /\ UNCHANGED <<first, i>>
     ELSE IF v[first + 1].avail THEN first' = first + 1 /\ UNCHANGED <<pc, i>>
     ELSE pc' = "compact" /\ i' = first + 1 /\ UNCHANGED first
  /\ UNCHANGED <<v, dist>>

\* Variant: the loop ends at the next job that is not available.
CompactStepBreak ==
  /\ pc = "compact"
  /\ i < Len(v)
  /\ IF v[i + 1].avail
     THEN /\ v' = [v EXCEPT ![i + 1] = v[first + 1], ![first + 1] = v[i + 1]]
          /\ first' = first + 1 /\ i' = i + 1
     ELSE i' = Len(v) /\ UNCHANGED <<v, first>>
  /\ UNCHANGED <<pc, dist>>

\* Variant: a job is moved behind the hole, not into it.
CompactStepShift ==
  /\ pc = "compact"
  /\ i < Len(v)
  /\ IF v[i + 1].avail
     THEN /\ first' = first + 1
          /\ v' = [v EXCEPT ![i + 1] = v[first' + 1], ![first' + 1] = v[i + 1]]
     ELSE UNCHANGED <<v, first>>
  /\ i' = i + 1
  /\ UNCHANGED <<pc, dist>>

\* One round of the compaction: an available job is swapped into the hole.
CompactStep ==
  /\ pc = "compact"
  /\ i < Len(v)
  /\ IF v[i + 1].avail
     THEN /\ v' = [v EXCEPT ![i + 1] = v[first + 1], ![first + 1] = v[i + 1]]
          /\ first' = first + 1
     ELSE UNCHANGED <<v, first>>
  /\ i' = i + 1
  /\ UNCHANGED <<pc, dist>>

\* The jobs behind removedIndex are popped.
PopBack ==
  /\ pc = "compact"
  /\ i >= Len(v)
  /\ v' = SubSeq(v, 1, first)
  /\ pc' = "idle"
  /\ UNCHANGED <<first, dist, i>>

Next ==
  \/ Attach \/ SearchStep \/ Insert
  \/ \E k \in DOMAIN v : Leave(k)
  \/ RemoveTerminatedJobs \/ ScanStep \/ CompactStep \/ PopBack

Spec == Init /\ [][Next]_vars

FairSpec == Spec /\ WF_vars(SearchStep \/ Insert \/ ScanStep \/ CompactStep \/ PopBack)

-----------------------------------------------------------------------------
(* Properties *)

\* Types; no index is ever out of the vector.
TypeOK ==
  /\ v \in Seq(Entry) /\ Len(v) <= MaxJob
  /\ pc \in {"idle", "search", "scan", "compact"}
  /\ first \in 0..Len(v)
  /\ pc = "search" => dist \in 0..(Len(v) - first)
  /\ pc = "compact" => i \in (first + 1)..Len(v)

\* The ids ascend whenever std::lower_bound searches the vector (findIter,
\* job.cpp:673-681), although removeTerminatedJobs swaps jobs in place.
Sorted ==
  pc # "compact" => \A a, b \in DOMAIN v : a < b => v[a].id < v[b].id

\* The assertions of removeTerminatedJobs (job.cpp:733 and 738): the place an
\* available job is swapped into is a hole, and something is left to pop.
CompactAssertions ==
  pc = "compact" => first < Len(v) /\ ~v[first + 1].avail

used == {v[k].id : k \in DOMAIN v}

gone == {v[k].id : k \in {a \in DOMAIN v : ~v[a].avail}}

List == INSTANCE JobIds WITH used <- used, gone <- gone, MaxJob <- MaxJob

\* The vector implements the list of job ids: findEmptyEntry (job.cpp:650-665)
\* finds the smallest free id, and the compaction (job.cpp:715-743) loses no
\* available job and frees the id of every other one.
Implements == List!Spec

\* The two loops end.
LoopsEnd == pc # "idle" ~> pc = "idle"

=============================================================================

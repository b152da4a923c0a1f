--------------------------- MODULE JobTable_proofs ---------------------------
(***************************************************************************)
(* What each operation of the job table preserves (module JobTable), for   *)
(* any set of jobs and pids and any table limit.                           *)
(***************************************************************************)
EXTENDS JobTable, WellFoundedInduction, TLAPS

-----------------------------------------------------------------------------
(* Sequences *)

\* What a vector of the code holds at a valid offset.
LEMMA ElementOfSeq ==
  ASSUME NEW S, NEW seq \in Seq(S), NEW n \in 1..Len(seq)
  PROVE  seq[n] \in S
OBVIOUS

\* The same for an offset in the domain.
LEMMA ElementInDomain ==
  ASSUME NEW S, NEW seq \in Seq(S), NEW n \in DOMAIN seq
  PROVE  seq[n] \in S
OBVIOUS

\* A vector that holds nothing yet.
LEMMA EmptySeq ==
  ASSUME NEW S
  PROVE  << >> \in Seq(S)
OBVIOUS

-----------------------------------------------------------------------------
(* Numbers *)

\* A set of naturals that is not empty has a least element: what a CHOOSE of
\* the smallest pid, free job id or distance rests on.
LEMMA NatMin ==
  ASSUME NEW E \in SUBSET Nat, E # {}
  PROVE  \E m \in E : \A n \in E : m <= n
<1>1. PICK m \in E : \A n \in E : ~(<<n, m>> \in OpToRel(<, Nat))
  BY Zenon, NatLessThanWellFounded, WFMin
<1>2. ASSUME NEW n \in E PROVE m <= n
  <2>1. m \in Nat /\ n \in Nat
    OBVIOUS
  <2>2. n < m => <<n, m>> \in OpToRel(<, Nat)
    BY <2>1 DEF OpToRel
  <2>3. ~(n < m)
    BY Zenon, <1>1, <2>2
  <2> QED BY <2>1, <2>3
<1> QED BY <1>2

\* The job a backward scan of the list meets first is a job of the list.
LEMMA LastAttachedIn ==
  ASSUME NEW t, TableType(t), NEW S \in SUBSET Job, S # {}
  PROVE  LastAttached(t, S) \in S
<1> DEFINE E == {MaxJob - t.jobID[j] : j \in S}
<1>1. E \in SUBSET Nat /\ E # {}
  <2>1. \A j \in S : t.jobID[j] \in 0..MaxJob
    BY DEF TableType
  <2>2. \A j \in S : MaxJob - t.jobID[j] \in Nat
    BY <2>1, MaxJobAssumption
  <2> QED BY Zenon, <2>2
<1>2. PICK m \in E : \A n \in E : m <= n
  <2> HIDE DEF E
  <2> QED BY <1>1, NatMin
<1>3. PICK j \in S : m = MaxJob - t.jobID[j]
  BY <1>2
<1>4. \A k \in S : t.jobID[k] <= t.jobID[j]
  <2> SUFFICES ASSUME NEW k \in S PROVE t.jobID[k] <= t.jobID[j]
    OBVIOUS
  <2>1. t.jobID[k] \in 0..MaxJob /\ t.jobID[j] \in 0..MaxJob
    BY DEF TableType
  <2>2. MaxJob - t.jobID[j] <= MaxJob - t.jobID[k]
    BY <1>2, <1>3
  <2> QED BY <2>1, <2>2, MaxJobAssumption
<1> QED
  BY <1>3, <1>4 DEF LastAttached

-----------------------------------------------------------------------------
(* Looking up *)

\* A pid that has an entry is found, although findProc (job.cpp:476-494) does
\* not compare the pid of the entry it returns.
LEMMA FindProcHit ==
  ASSUME NEW t, TableType(t), NEW p \in DOMAIN t.entries
  PROVE  FindProc(t, p) = p
<1> DEFINE above == {q \in DOMAIN t.entries : q >= p}
<1>1. DOMAIN t.entries \subseteq Nat
  BY PidAssumption DEF TableType, IsPartialFcn
<1>2. p \in above /\ \A q \in above : p <= q
  BY <1>1
<1>3. \A r \in above : (\A q \in above : r <= q) => r = p
  BY <1>1, <1>2
<1>4. (CHOOSE r \in above : \A q \in above : r <= q) = p
  BY <1>2, <1>3
<1> QED
  BY <1>2, <1>4 DEF FindProc

\* A job is in the list exactly when it has an id (job.cpp:523, 742).
LEMMA AttachedId ==
  ASSUME NEW t, TableType(t), JobsOK(t), NEW j \in Job
  PROVE  j \in Attached(t) <=> t.jobID[j] # 0
BY DEF TableType, IsPartialFcn, JobsOK, Attached, JobId

-----------------------------------------------------------------------------
(* The current and the previous job *)

\* Two tables that differ in the current and the previous job only.
SameButMarks(t, u) ==
  /\ u.jobs = t.jobs /\ u.entries = t.entries
  /\ u.deletedCount = t.deletedCount /\ u.toplevel = t.toplevel
  /\ u.jobID = t.jobID /\ u.state = t.state /\ u.procs = t.procs
  /\ u.disowned = t.disowned /\ u.lastPipe = t.lastPipe /\ u.grouped = t.grouped

\* syncAndGetCurPrevJobs (job.cpp:557-586) only moves the two marks, and keeps
\* what they promise.
LEMMA SyncMarks ==
  ASSUME NEW t, TableType(t), JobsOK(t), MarksOK(t)
  PROVE  LET u == SyncCurPrev(t)
         IN  TableType(u) /\ SameButMarks(t, u) /\ MarksOK(u)
<1> DEFINE C == Candidates(t)
           prev1 == IF t.prev \in t.disowned THEN NoJob ELSE t.prev
           drop  == t.cur \in t.disowned
           cur1  == IF drop THEN prev1 ELSE t.cur
           prev2 == IF drop THEN NoJob ELSE prev1
           cur2  == IF cur1 # NoJob THEN cur1 ELSE LastAttached(t, C)
           prev3 == LastAttached(t, C \ {cur2})
           u == SyncCurPrev(t)
<1>1. C \subseteq Job /\ \A j \in C : j \notin t.lastPipe /\ j \in Attached(t)
  BY DEF Candidates, Attached, TableType, IsPartialFcn
<1>2. \A S \in SUBSET C : LastAttached(t, S) \in S \cup {NoJob}
        /\ (S # {} => LastAttached(t, S) \in S)
  <2> SUFFICES ASSUME NEW S \in SUBSET C
               PROVE  S # {} => LastAttached(t, S) \in S
    BY DEF LastAttached
  <2>1. S \in SUBSET Job
    BY <1>1
  <2> HIDE DEF C
  <2> QED BY <2>1, LastAttachedIn
<1>3. \A j \in {t.cur, t.prev} \ {NoJob} :
        /\ j \in Job /\ j \notin t.lastPipe
        /\ j \in Attached(t) \/ (~IsControlled(t, j) /\ j \in t.disowned)
  BY DEF MarksOK, TableType
<1>4. /\ prev2 # NoJob => cur1 # NoJob /\ cur1 # prev2
      /\ {cur1, prev2} \ {NoJob} \subseteq {t.cur, t.prev}
  BY JobAssumption DEF MarksOK, TableType
<1>5. /\ cur2 \in C \cup {NoJob, t.cur, t.prev} /\ (cur2 = NoJob => C = {})
      /\ prev3 \in C \cup {NoJob}
      /\ prev3 # NoJob => prev3 # cur2 /\ cur2 # NoJob
  <2>1. cur2 \in C \cup {NoJob, t.cur, t.prev} /\ (cur2 = NoJob => C = {})
    <3>1. C \in SUBSET C /\ NoJob \notin C
      BY <1>1, JobAssumption
    <3> HIDE DEF C
    <3> QED BY <1>2, <1>4, <3>1
  <2>2. (C \ {cur2}) \in SUBSET C /\ NoJob \notin C
    BY <1>1, JobAssumption
  <2>3. prev3 \in (C \ {cur2}) \cup {NoJob} /\ (C \ {cur2} # {} => prev3 \in C \ {cur2})
    <3> HIDE DEF C, cur2
    <3> QED BY <1>2, <2>2
  <2> HIDE DEF C, cur2
  <2> QED BY <2>1, <2>2, <2>3 DEF LastAttached
<1>6. u = IF prev2 # NoJob THEN [t EXCEPT !.cur = cur1, !.prev = prev2]
          ELSE [t EXCEPT !.cur = cur2, !.prev = prev3]
  BY DEF SyncCurPrev
<1> HIDE DEF C, prev1, drop, cur1, prev2, cur2, prev3, u
<1>7. CASE prev2 # NoJob
  <2>1. u = [t EXCEPT !.cur = cur1, !.prev = prev2]
    BY <1>6, <1>7
  <2>2. {cur1, prev2} \subseteq Job \cup {NoJob}
    BY <1>3, <1>4
  <2>3. TableType(u) /\ SameButMarks(t, u) /\ u.cur = cur1 /\ u.prev = prev2
    BY Zenon, <2>1, <2>2 DEF TableType, SameButMarks
  <2>4. MarksOK(u)
    BY <1>3, <1>4, <2>3 DEF MarksOK, SameButMarks, Attached, IsControlled
  <2> QED BY <2>3, <2>4 DEF u
<1>8. CASE prev2 = NoJob
  <2>1. u = [t EXCEPT !.cur = cur2, !.prev = prev3]
    BY <1>6, <1>8
  <2>2. {cur2, prev3} \subseteq Job \cup {NoJob}
    BY <1>1, <1>3, <1>5
  <2>3. TableType(u) /\ SameButMarks(t, u) /\ u.cur = cur2 /\ u.prev = prev3
    BY Zenon, <2>1, <2>2 DEF TableType, SameButMarks
  <2>4. MarksOK(u)
    BY <1>1, <1>3, <1>5, <2>3 DEF MarksOK, SameButMarks, Attached, IsControlled
  <2> QED BY <2>3, <2>4 DEF u
<1> QED
  BY <1>7, <1>8

\* syncAndGetCurPrevJobs (job.cpp:557-586) leaves no mark unset that a job of the
\* list could have.
LEMMA SyncComplete ==
  ASSUME NEW t, TableType(t), JobsOK(t), MarksOK(t)
  PROVE  LET u == SyncCurPrev(t)
             C == Candidates(t)
         IN  /\ {u.cur, u.prev} \ {NoJob} \subseteq C \cup ({t.cur, t.prev} \ t.disowned)
             /\ u.cur = NoJob => C = {}
             /\ u.prev = NoJob => C \subseteq {u.cur}
<1> DEFINE C == Candidates(t)
           prev1 == IF t.prev \in t.disowned THEN NoJob ELSE t.prev
           drop  == t.cur \in t.disowned
           cur1  == IF drop THEN prev1 ELSE t.cur
           prev2 == IF drop THEN NoJob ELSE prev1
           cur2  == IF cur1 # NoJob THEN cur1 ELSE LastAttached(t, C)
           prev3 == LastAttached(t, C \ {cur2})
           u == SyncCurPrev(t)
<1>1. C \subseteq Job /\ C \subseteq Attached(t) /\ NoJob \notin C
  BY JobAssumption DEF Candidates, Attached, TableType, IsPartialFcn
<1>2. ASSUME NEW S \in SUBSET C
      PROVE  /\ S # {} => LastAttached(t, S) \in S
             /\ S = {} => LastAttached(t, S) = NoJob
  <2>1. S \in SUBSET Job
    BY <1>1
  <2> HIDE DEF C
  <2> QED BY <2>1, LastAttachedIn DEF LastAttached
<1>3. {cur1, prev2} \ {NoJob} \subseteq {t.cur, t.prev} \ t.disowned
  BY JobAssumption DEF TableType
<1>4. prev2 # NoJob => cur1 # NoJob
  BY JobAssumption DEF MarksOK, TableType
<1>5. /\ cur2 = NoJob => C = {}
      /\ cur2 # NoJob => cur2 \in C \cup ({t.cur, t.prev} \ t.disowned)
  <2>1. C \in SUBSET C
    OBVIOUS
  <2>2. /\ C # {} => LastAttached(t, C) \in C
        /\ C = {} => LastAttached(t, C) = NoJob
    BY <1>2, <2>1
  <2> HIDE DEF C, cur1
  <2> QED BY <1>1, <1>3, <2>2
<1>6. /\ prev3 = NoJob => C \subseteq {cur2}
      /\ prev3 # NoJob => prev3 \in C
  <2>1. (C \ {cur2}) \in SUBSET C
    OBVIOUS
  <2>2. /\ C \ {cur2} # {} => prev3 \in C \ {cur2}
        /\ C \ {cur2} = {} => prev3 = NoJob
    BY <1>2, <2>1
  <2> HIDE DEF C, cur2, prev3
  <2> QED BY <1>1, <2>2
<1>7. u = IF prev2 # NoJob THEN [t EXCEPT !.cur = cur1, !.prev = prev2]
          ELSE [t EXCEPT !.cur = cur2, !.prev = prev3]
  BY DEF SyncCurPrev
<1> HIDE DEF C, prev1, drop, cur1, prev2, cur2, prev3, u
<1>8. /\ u.jobs = t.jobs /\ u.disowned = t.disowned
      /\ prev2 # NoJob => u.cur = cur1 /\ u.prev = prev2
      /\ prev2 = NoJob => u.cur = cur2 /\ u.prev = prev3
  BY Zenon, <1>7 DEF TableType
<1>9. /\ {u.cur, u.prev} \ {NoJob} \subseteq C \cup ({t.cur, t.prev} \ t.disowned)
      /\ u.cur = NoJob => C = {}
      /\ u.prev = NoJob => C \subseteq {u.cur}
  BY <1>3, <1>4, <1>5, <1>6, <1>8
<1> QED BY Zenon, <1>9 DEF u, C

\* What does not mention the marks does not depend on them.
LEMMA SameButMarksInv ==
  ASSUME NEW t, NEW u, SameButMarks(t, u)
  PROVE  /\ JobsOK(u) <=> JobsOK(t)
         /\ IndexOK(u) <=> IndexOK(t)
         /\ CountOK(u) <=> CountOK(t)
         /\ Live(u) = Live(t)
         /\ Attached(u) = Attached(t)
         /\ \A j : LiveOffsets(u, j) = LiveOffsets(t, j)
BY DEF SameButMarks, JobsOK, IndexOK, CountOK, Live, IsDeleted, Attached,
       IsAvailable, IsTerminated, LiveOffsets

\* setCurrentJob (job.h:630-639) on a job of the list.
LEMMA SetCurrentMarks ==
  ASSUME NEW t, TableType(t), JobsOK(t), MarksOK(t), NEW j \in Job
  PROVE  LET u == SetCurrentJob(t, j)
         IN  TableType(u) /\ SameButMarks(t, u) /\ MarksOK(u)
<1>1. CASE SetCurrentJob(t, j) = t
  BY <1>1 DEF SameButMarks
<1>2. CASE SetCurrentJob(t, j) # t
  <2> DEFINE u == [t EXCEPT !.prev = IF t.cur \in t.disowned THEN NoJob ELSE t.cur,
                            !.cur = j]
  <2>1. u = SetCurrentJob(t, j) /\ t.jobID[j] # 0 /\ j \notin t.lastPipe /\ t.cur # j
    BY <1>2 DEF SetCurrentJob
  <2>2. TableType(u) /\ SameButMarks(t, u) /\ u.cur = j /\ u.prev \in {t.cur, NoJob}
    BY Zenon DEF TableType, SameButMarks
  <2>3. j \in Attached(t)
    BY <2>1, AttachedId
  <2> HIDE DEF u
  <2>4. MarksOK(u)
    BY <2>1, <2>2, <2>3, JobAssumption
    DEF MarksOK, SameButMarks, Attached, IsControlled
  <2> QED BY <2>1, <2>2, <2>4
<1> QED BY <1>1, <1>2

-----------------------------------------------------------------------------
(* Updates of one part of the table *)

\* The states of the jobs.
LEMMA SetStates ==
  ASSUME NEW t, TableType(t), NEW f \in [Job -> JobState],
         NEW u, u = [t EXCEPT !.state = f]
  PROVE  /\ TableType(u) /\ u.state = f
         /\ u.entries = t.entries /\ u.deletedCount = t.deletedCount
         /\ u.jobs = t.jobs /\ u.jobID = t.jobID
         /\ u.procs = t.procs /\ u.cur = t.cur /\ u.prev = t.prev
         /\ u.toplevel = t.toplevel /\ u.disowned = t.disowned
         /\ u.lastPipe = t.lastPipe /\ u.grouped = t.grouped
BY Zenon DEF TableType

-----------------------------------------------------------------------------
(* Applying a wait result *)

\* Replacing one process of a job.
LEMMA SetProc ==
  ASSUME NEW s \in Seq(Proc), NEW k \in DOMAIN s, NEW e \in Proc
  PROVE  LET r == [s EXCEPT ![k] = e]
         IN  /\ r \in Seq(Proc)
             /\ DOMAIN r = DOMAIN s
             /\ r[k] = e
             /\ \A o \in DOMAIN s : o # k => r[o] = s[o]
<1>1. k \in 1..Len(s)
  OBVIOUS
<1>2. [s EXCEPT ![k] = e] \in Seq(Proc)
  BY <1>1
<1> QED BY <1>2

WaitKind == {"EXITED", "STOPPED", "CONTINUED"}

\* The same processes, in possibly other states: no terminated one revives.
SameProcs(t, u) ==
  \A j \in Job :
    /\ DOMAIN u.procs[j] = DOMAIN t.procs[j]
    /\ \A k \in DOMAIN t.procs[j] : u.procs[j][k].pid = t.procs[j][k].pid
    /\ LiveOffsets(u, j) \subseteq LiveOffsets(t, j)

\* updateProcState (job.cpp:683-701) for a pid with a live entry: no assertion
\* on the way fails, the result goes to the process with that pid, the entry
\* is deleted if and only if the process ended, and the index stays exact.
LEMMA UpdateInv ==
  ASSUME NEW t, TableInv(t), NEW p \in Live(t), NEW kind \in WaitKind,
         NEW notify \in BOOLEAN
  PROVE  LET u == UpdateProcState(t, p, kind, notify)
         IN  /\ UpdateAssertions(t, p)
             /\ FoundJob(t, p) \in Attached(t)
             /\ TableInv(u)
             /\ Live(u) = IF kind = "EXITED" THEN Live(t) \ {p} ELSE Live(t)
             /\ u.jobs = t.jobs /\ u.jobID = t.jobID /\ u.toplevel = t.toplevel
             /\ u.grouped = t.grouped /\ u.lastPipe = t.lastPipe
             /\ SameProcs(t, u)
             /\ \A j \in Job : IsAvailable(u, j) => IsAvailable(t, j)
<1> DEFINE u == UpdateProcState(t, p, kind, notify)
           i == t.entries[p].jobId
           k == t.entries[p].procOffset
           j == t.jobs[i]
           ps == [t.procs[j] EXCEPT ![k] = UpdateProc(@, kind)]
           t1 == [t EXCEPT !.procs[j][k] = UpdateProc(@, kind)]
           t2 == DeleteProc(t1, p)
           t3 == IF t1.procs[j][k].state # "TERMINATED" THEN t1
                 ELSE IF notify /\ t2.deletedCount = 1 THEN SyncCurPrev(t2)
                 ELSE t2
<1> USE DEF TableInv
<1>1. FindProc(t, p) = p /\ p # 0 /\ p \in DOMAIN t.entries
  BY Zenon, FindProcHit, PidAssumption DEF Live, TableType, IsPartialFcn
<1>2. /\ i \in DOMAIN t.jobs /\ j \in Job /\ IsAvailable(t, j) /\ i # 0
      /\ k \in LiveOffsets(t, j) /\ t.procs[j][k].pid = p
  BY ZenonT(40) DEF IndexOK, TableType, IsPartialFcn, Live, IsDeleted
<1>3. UpdateAssertions(t, p) /\ FoundJob(t, p) \in Attached(t)
  BY ZenonT(40), <1>1, <1>2 DEF UpdateAssertions, FoundJob, Attached, Live
<1>4. u = UpdateJob(t3, j)
  BY Zenon, <1>1 DEF UpdateProcState, SetProcState
<1>5. /\ t.procs[j] \in Seq(Proc)
      /\ k \in DOMAIN t.procs[j] /\ t.procs[j][k].state # "TERMINATED"
  <2> HIDE DEF i, j, k
  <2> QED BY <1>2 DEF LiveOffsets, TableType
<1>6. t.procs[j][k] \in Proc
  <2> HIDE DEF i, j, k
  <2> QED BY <1>5, ElementOfSeq
<1>7. /\ UpdateProc(t.procs[j][k], kind) \in Proc
      /\ UpdateProc(t.procs[j][k], kind).pid = p
      /\ UpdateProc(t.procs[j][k], kind).state = "TERMINATED" <=> kind = "EXITED"
  <2> HIDE DEF i, j, k
  <2> QED BY <1>2, <1>5, <1>6 DEF UpdateProc, Proc, ProcState, WaitKind
<1>8. /\ ps \in Seq(Proc) /\ DOMAIN ps = DOMAIN t.procs[j]
      /\ ps[k] = UpdateProc(t.procs[j][k], kind)
      /\ \A o \in DOMAIN ps : o # k => ps[o] = t.procs[j][o]
  <2> HIDE DEF i, j, k
  <2> QED BY <1>5, <1>7, SetProc
<1>9. TableType(t1) /\ t1.procs = [t.procs EXCEPT ![j] = ps]
      /\ t1.jobs = t.jobs /\ t1.entries = t.entries /\ t1.deletedCount = t.deletedCount
      /\ t1.jobID = t.jobID /\ t1.state = t.state /\ t1.toplevel = t.toplevel
      /\ t1.disowned = t.disowned /\ t1.lastPipe = t.lastPipe
      /\ t1.grouped = t.grouped /\ t1.cur = t.cur /\ t1.prev = t.prev
  <2> HIDE DEF i, j, k
  <2>1. t1 = [t EXCEPT !.procs = [t.procs EXCEPT ![j] = ps]]
    OBVIOUS
  <2>2. [t.procs EXCEPT ![j] = ps] \in [Job -> Seq(Proc)]
    BY <1>2, <1>8 DEF TableType
  <2> HIDE DEF t1, ps
  <2> QED BY Zenon, <2>1, <2>2 DEF TableType
<1>10. t1.procs[j][k].state = "TERMINATED" <=> kind = "EXITED"
  <2> HIDE DEF i, j, k, t1, ps
  <2> QED BY <1>2, <1>7, <1>8, <1>9 DEF TableType
<1>11. /\ TableType(t3) /\ MarksOK(t3)
       /\ t3.jobs = t.jobs /\ t3.jobID = t.jobID /\ t3.state = t.state
       /\ t3.toplevel = t.toplevel /\ t3.grouped = t.grouped
       /\ t3.lastPipe = t.lastPipe /\ t3.procs = t1.procs
       /\ kind # "EXITED" => t3.entries = t.entries /\ t3.deletedCount = t.deletedCount
       /\ kind = "EXITED" =>
            /\ t3.deletedCount = t.deletedCount + 1
            /\ t3.entries = [t.entries EXCEPT ![p] = [@ EXCEPT !.jobId = 0]]
  <2> HIDE DEF i, j, k, ps
  <2>0. MarksOK(t1) /\ JobsOK(t1)
    BY SMTT(30), <1>9 DEF MarksOK, JobsOK, Attached, IsControlled
  <2>1. CASE kind # "EXITED"
    BY Zenon, <1>9, <1>10, <2>0, <2>1
  <2>2. CASE kind = "EXITED"
    <3> HIDE DEF t1
    <3>1. t2 = [t1 EXCEPT !.entries = [t1.entries EXCEPT ![p] = [@ EXCEPT !.jobId = 0]],
                          !.deletedCount = t1.deletedCount + 1]
      BY <1>1, <1>9 DEF DeleteProc, IsDeleted, Live
    <3>2. IsPartialFcn([t.entries EXCEPT ![p] = [@ EXCEPT !.jobId = 0]], Pid, Entry)
      <4>1. t.entries[p] \in Entry
        BY <1>1 DEF TableType, IsPartialFcn
      <4>2. [t.entries[p] EXCEPT !.jobId = 0] \in Entry
        BY <4>1, MaxJobAssumption DEF Entry
      <4> QED BY <1>1, <4>2 DEF TableType, IsPartialFcn
    <3>3. /\ TableType(t2)
          /\ t2.entries = [t.entries EXCEPT ![p] = [@ EXCEPT !.jobId = 0]]
          /\ t2.deletedCount = t.deletedCount + 1
          /\ t2.jobs = t1.jobs /\ t2.jobID = t1.jobID /\ t2.state = t1.state
          /\ t2.toplevel = t1.toplevel /\ t2.disowned = t1.disowned
          /\ t2.lastPipe = t1.lastPipe /\ t2.grouped = t1.grouped
          /\ t2.cur = t1.cur /\ t2.prev = t1.prev /\ t2.procs = t1.procs
      <4> HIDE DEF t2
      <4> DEFINE e == [t.entries EXCEPT ![p] = [@ EXCEPT !.jobId = 0]]
                 n == t.deletedCount + 1
      <4>1. n \in Nat /\ IsPartialFcn(e, Pid, Entry)
        BY <3>2 DEF TableType
      <4>2. t2 = [t1 EXCEPT !.entries = e, !.deletedCount = n]
        BY <1>9, <3>1
      <4>3. TableType(t1)
        BY <1>9
      <4> SUFFICES /\ TableType(t2) /\ t2.entries = e /\ t2.deletedCount = n
                   /\ t2.jobs = t1.jobs /\ t2.jobID = t1.jobID /\ t2.state = t1.state
                   /\ t2.toplevel = t1.toplevel /\ t2.disowned = t1.disowned
                   /\ t2.lastPipe = t1.lastPipe /\ t2.grouped = t1.grouped
                   /\ t2.cur = t1.cur /\ t2.prev = t1.prev /\ t2.procs = t1.procs
        OBVIOUS
      <4> HIDE DEF e, n
      <4> QED BY Zenon, <4>1, <4>2, <4>3 DEF TableType
    <3>4. MarksOK(t2) /\ JobsOK(t2)
      BY <2>0, <3>3 DEF MarksOK, JobsOK, Attached, IsControlled
    <3>5. TableType(t3) /\ MarksOK(t3) /\ SameButMarks(t2, t3)
      <4> HIDE DEF t2
      <4> QED BY <1>10, <2>2, <3>3, <3>4, SyncMarks DEF SameButMarks
    <3> HIDE DEF t2, t3
    <3> QED BY <1>9, <2>2, <3>3, <3>5 DEF SameButMarks
  <2> QED BY Zenon, <2>1, <2>2
<1>12. /\ TableType(u) /\ MarksOK(u)
       /\ u.jobs = t.jobs /\ u.jobID = t.jobID /\ u.toplevel = t.toplevel
       /\ u.grouped = t.grouped /\ u.lastPipe = t.lastPipe
       /\ u.procs = [t.procs EXCEPT ![j] = ps]
       /\ u.entries = t3.entries /\ u.deletedCount = t3.deletedCount
       /\ u.state = IF LiveOffsets(u, j) = {} THEN [t.state EXCEPT ![j] = "TERMINATED"]
                    ELSE t.state
  <2> HIDE DEF i, j, k, ps, t1, t2, t3, u
  <2>1. IsAvailable(t3, j)
    BY <1>2, <1>11 DEF IsAvailable
  <2>2. CASE LiveOffsets(t3, j) # {}
    BY <1>4, <1>9, <1>11, <2>1, <2>2 DEF UpdateJob
  <2>3. CASE LiveOffsets(t3, j) = {}
    <3>1. u = [t3 EXCEPT !.state = [t3.state EXCEPT ![j] = "TERMINATED"]]
      BY <1>4, <2>1, <2>3 DEF UpdateJob
    <3>2. [t3.state EXCEPT ![j] = "TERMINATED"] \in [Job -> JobState]
      BY <1>2, <1>11 DEF TableType, JobState
    <3>3. /\ TableType(u) /\ u.state = [t3.state EXCEPT ![j] = "TERMINATED"]
          /\ u.jobs = t3.jobs /\ u.jobID = t3.jobID /\ u.toplevel = t3.toplevel
          /\ u.grouped = t3.grouped /\ u.lastPipe = t3.lastPipe /\ u.procs = t3.procs
          /\ u.entries = t3.entries /\ u.deletedCount = t3.deletedCount
          /\ u.cur = t3.cur /\ u.prev = t3.prev /\ u.disowned = t3.disowned
      <4> DEFINE f == [t3.state EXCEPT ![j] = "TERMINATED"]
      <4>1. f \in [Job -> JobState] /\ u = [t3 EXCEPT !.state = f]
        BY <3>1, <3>2
      <4> HIDE DEF f
      <4>2. u.state = f
        BY <1>11, <4>1, SetStates
      <4>3. u.state = [t3.state EXCEPT ![j] = "TERMINATED"]
        BY <4>2 DEF f
      <4> QED BY <1>11, <4>1, <4>3, SetStates
    <3>4. ASSUME NEW x \in {t3.cur, t3.prev} \ {NoJob}
          PROVE  /\ x \notin u.lastPipe
                 /\ x \in Attached(u) \/ (~IsControlled(u, x) /\ x \in u.disowned)
      <4>1. x \in Job
        BY <1>11 DEF TableType
      <4>2. /\ x \notin t3.lastPipe
            /\ x \in Attached(t3) \/ (~IsControlled(t3, x) /\ x \in t3.disowned)
        BY <1>11 DEF MarksOK
      <4>3. ~IsControlled(t3, x) => ~IsControlled(u, x)
        BY <2>1, <3>3, <4>1, <1>11 DEF IsControlled, IsAvailable, TableType
      <4> QED BY <3>3, <4>2, <4>3 DEF Attached
    <3>5. MarksOK(u)
      BY <1>11, <3>3, <3>4 DEF MarksOK
    <3>6. LiveOffsets(u, j) = {}
      BY Zenon, <2>3, <3>3 DEF LiveOffsets
    <3> QED BY <1>9, <1>11, <3>3, <3>5, <3>6
  <2> QED BY <2>2, <2>3
<1> HIDE DEF i, j, k, t1, t2, t3, u
<1>13. /\ \A x \in Job \ {j} : u.procs[x] = t.procs[x] /\ LiveOffsets(u, x) = LiveOffsets(t, x)
       /\ DOMAIN u.procs[j] = DOMAIN t.procs[j]
       /\ \A o \in DOMAIN t.procs[j] : u.procs[j][o].pid = t.procs[j][o].pid
       /\ LiveOffsets(u, j) = IF kind = "EXITED" THEN LiveOffsets(t, j) \ {k}
                              ELSE LiveOffsets(t, j)
  <2> HIDE DEF ps
  <2>1. u.procs[j] = ps /\ \A x \in Job \ {j} : u.procs[x] = t.procs[x]
    BY <1>2, <1>12 DEF TableType
  <2>2. \A o \in DOMAIN t.procs[j] : ps[o].pid = t.procs[j][o].pid
    BY Zenon, <1>2, <1>7, <1>8
  <2>3. LiveOffsets(u, j) = IF kind = "EXITED" THEN LiveOffsets(t, j) \ {k}
                            ELSE LiveOffsets(t, j)
    BY <1>2, <1>5, <1>7, <1>8, <2>1 DEF LiveOffsets
  <2> QED BY <1>8, <2>1, <2>2, <2>3 DEF LiveOffsets
<1> HIDE DEF ps
<1>14. SameProcs(t, u)
  BY <1>2, <1>13 DEF SameProcs
<1>15. /\ DOMAIN u.entries = DOMAIN t.entries
       /\ \A q \in DOMAIN t.entries :
            q # p \/ kind # "EXITED" => u.entries[q] = t.entries[q]
       /\ kind = "EXITED" => u.entries[p].jobId = 0
  <2>1. t.entries[p] \in Entry
    BY <1>1 DEF TableType, IsPartialFcn
  <2>2. u.entries = t3.entries
    BY Zenon, <1>12
  <2>3. CASE kind # "EXITED"
    BY Zenon, <1>11, <2>2, <2>3
  <2>4. CASE kind = "EXITED"
    <3>1. u.entries = [t.entries EXCEPT ![p] = [t.entries[p] EXCEPT !.jobId = 0]]
      BY Zenon, <1>11, <2>2, <2>4
    <3>2. p \in DOMAIN t.entries
      BY <1>1
    <3>3. [t.entries[p] EXCEPT !.jobId = 0].jobId = 0
      BY <2>1 DEF Entry
    <3> QED BY Zenon, <2>4, <3>1, <3>2, <3>3
  <2> QED BY Zenon, <2>3, <2>4
<1>16. Live(u) = IF kind = "EXITED" THEN Live(t) \ {p} ELSE Live(t)
  BY <1>1, <1>15 DEF Live, IsDeleted
<1>17. /\ \A y \in Job : IsAvailable(u, y) => IsAvailable(t, y)
       /\ \A y \in Job : IsAvailable(t, y) => IsAvailable(u, y) \/ LiveOffsets(u, y) = {}
       /\ IsAvailable(u, j) => LiveOffsets(u, j) # {}
  BY ZenonT(40), <1>2, <1>12 DEF IsAvailable, TableType
<1>18. JobsOK(u)
  BY <1>12 DEF JobsOK
<1>19. IndexOK(u)
  <2>1. ASSUME NEW q \in Live(u)
        PROVE  LET i2 == u.entries[q].jobId
                   k2 == u.entries[q].procOffset
               IN  /\ i2 \in DOMAIN u.jobs
                   /\ IsAvailable(u, u.jobs[i2])
                   /\ k2 \in LiveOffsets(u, u.jobs[i2])
                   /\ u.procs[u.jobs[i2]][k2].pid = q
    <3> DEFINE i2 == t.entries[q].jobId
               k2 == t.entries[q].procOffset
               x  == t.jobs[i2]
    <3>1. q \in Live(t) /\ (kind = "EXITED" => q # p) /\ u.entries[q] = t.entries[q]
      BY <1>15, <1>16 DEF Live
    <3>2. /\ i2 \in DOMAIN t.jobs /\ IsAvailable(t, x) /\ x \in Job
          /\ k2 \in LiveOffsets(t, x) /\ t.procs[x][k2].pid = q
      BY Zenon, <3>1 DEF IndexOK, TableType, IsPartialFcn
    <3> HIDE DEF i2, k2, x
    <3>3. k2 \in LiveOffsets(u, x) /\ u.procs[x][k2].pid = q
      BY <1>2, <1>13, <3>1, <3>2 DEF LiveOffsets
    <3>4. IsAvailable(u, x)
      <4>1. LiveOffsets(u, x) # {}
        BY <3>3
      <4>2. x \in Job /\ IsAvailable(t, x)
        BY Zenon, <3>2
      <4> QED BY <1>17, <4>1, <4>2 DEF IsAvailable
    <3> QED BY Zenon, <1>12, <3>1, <3>2, <3>3, <3>4 DEF i2, k2, x
  <2>2. ASSUME NEW i2 \in DOMAIN u.jobs, IsAvailable(u, u.jobs[i2])
        PROVE  /\ LiveOffsets(u, u.jobs[i2]) # {}
               /\ \A k2 \in LiveOffsets(u, u.jobs[i2]) :
                    LET q == u.procs[u.jobs[i2]][k2].pid
                    IN  /\ q \in DOMAIN u.entries
                        /\ u.entries[q] = [jobId |-> i2, procOffset |-> k2]
    <3> DEFINE x == t.jobs[i2]
    <3>1. i2 \in DOMAIN t.jobs /\ x \in Job /\ u.jobs[i2] = x /\ IsAvailable(t, x)
      BY <1>12, <1>17, <2>2 DEF TableType, IsPartialFcn, IsAvailable
    <3>2. /\ LiveOffsets(t, x) # {}
          /\ \A k2 \in LiveOffsets(t, x) :
               /\ t.procs[x][k2].pid \in DOMAIN t.entries
               /\ t.entries[t.procs[x][k2].pid] = [jobId |-> i2, procOffset |-> k2]
      BY Zenon, <3>1 DEF IndexOK
    <3> HIDE DEF x
    <3>3. LiveOffsets(u, x) # {} /\ LiveOffsets(u, x) \subseteq LiveOffsets(t, x)
      <4>1. CASE x = j
        BY <1>13, <1>17, <2>2, <3>1, <4>1
      <4>2. CASE x # j
        BY Zenon, <1>13, <3>1, <3>2, <4>2
      <4> QED BY <4>1, <4>2
    <3>4. ASSUME NEW k2 \in LiveOffsets(u, x)
          PROVE  /\ u.procs[x][k2].pid \in DOMAIN u.entries
                 /\ u.entries[u.procs[x][k2].pid] = [jobId |-> i2, procOffset |-> k2]
      <4> DEFINE q == t.procs[x][k2].pid
      <4>1. k2 \in LiveOffsets(t, x) /\ u.procs[x][k2].pid = q
        BY Zenon, <1>13, <3>3, <3>4, <3>1 DEF LiveOffsets
      <4>2. q \in DOMAIN t.entries /\ t.entries[q] = [jobId |-> i2, procOffset |-> k2]
        BY <3>2, <4>1
      <4>3. q # p \/ kind # "EXITED"
        <5> SUFFICES ASSUME q = p, kind = "EXITED" PROVE FALSE
          OBVIOUS
        <5>1. i2 = i /\ k2 = k
          BY <4>2 DEF i, k
        <5> QED BY <1>13, <3>4, <5>1 DEF x, j
      <4> QED BY Zenon, <1>15, <4>1, <4>2, <4>3
    <3> QED BY <3>1, <3>3, <3>4
  <2> QED BY Zenon, <2>1, <2>2 DEF IndexOK
<1>20. CountOK(u)
  <2> SUFFICES ASSUME u.deletedCount = 0
               PROVE  Live(u) = DOMAIN u.entries /\ \A x \in Attached(u) : ~IsTerminated(u, x)
    BY DEF CountOK
  <2>1. kind # "EXITED" /\ t.deletedCount = 0
    BY <1>11, <1>12 DEF TableType
  <2>2. u.state = t.state
    BY <1>2, <1>12, <1>13, <2>1
  <2> QED BY <1>12, <1>15, <1>16, <2>1, <2>2 DEF CountOK, Attached, IsTerminated
<1> QED
  BY <1>3, <1>12, <1>14, <1>16, <1>17, <1>18, <1>19, <1>20 DEF u, IsAvailable, TableInv

\* updateProcState (job.cpp:683-701) only ends the job the result is for, and
\* only when all of its processes have ended.
LEMMA UpdateStates ==
  ASSUME NEW t, TableInv(t), NEW p \in Live(t), NEW kind \in WaitKind,
         NEW notify \in BOOLEAN
  PROVE  LET u == UpdateProcState(t, p, kind, notify)
             j == FoundJob(t, p)
         IN  /\ j \in Job /\ IsAvailable(t, j) /\ LiveOffsets(t, j) # {}
             /\ \A x \in Job : u.state[x] = t.state[x] \/ (x = j /\ u.state[x] = "TERMINATED")
             /\ IsTerminated(u, j) => LiveOffsets(u, j) = {}
<1> DEFINE i == t.entries[p].jobId
           k == t.entries[p].procOffset
           j == t.jobs[i]
           t1 == SetProcState(t, j, k, kind)
           t2 == DeleteProc(t1, p)
           t3 == IF t1.procs[j][k].state # "TERMINATED" THEN t1
                 ELSE IF notify /\ t2.deletedCount = 1 THEN SyncCurPrev(t2)
                 ELSE t2
           u == UpdateJob(t3, j)
<1>1. FindProc(t, p) = p /\ p # 0 /\ p \in DOMAIN t.entries
  BY Zenon, FindProcHit, PidAssumption DEF TableInv, Live, TableType, IsPartialFcn
<1>2. /\ i \in DOMAIN t.jobs /\ j \in Job /\ IsAvailable(t, j) /\ k \in LiveOffsets(t, j)
  BY Zenon DEF TableInv, IndexOK, TableType, IsPartialFcn, Live, IsDeleted
<1>3. FoundJob(t, p) = j
  BY Zenon, <1>1 DEF FoundJob
<1>4. UpdateProcState(t, p, kind, notify) = u
  BY Zenon, <1>1 DEF UpdateProcState
<1>5. {"state", "procs"} \subseteq DOMAIN t /\ t.state \in [Job -> JobState]
  BY DEF TableInv, TableType
<1> HIDE DEF i, j, k
<1>6. t1.state = t.state /\ {"state", "procs"} \subseteq DOMAIN t1
  BY <1>5 DEF SetProcState
<1>7. /\ t2.state = t1.state /\ t2.procs = t1.procs
      /\ {"state", "procs"} \subseteq DOMAIN t2
  <2> HIDE DEF t1
  <2> QED BY <1>6 DEF DeleteProc
<1>8. /\ SyncCurPrev(t2).state = t2.state /\ SyncCurPrev(t2).procs = t2.procs
      /\ {"state", "procs"} \subseteq DOMAIN SyncCurPrev(t2)
  <2> HIDE DEF t1, t2
  <2> QED BY <1>7 DEF SyncCurPrev
<1> HIDE DEF t1, t2
<1>9. t3.state = t.state /\ {"state", "procs"} \subseteq DOMAIN t3
  BY <1>6, <1>7, <1>8
<1> HIDE DEF t3
<1>10. IsAvailable(t3, j)
  BY <1>2, <1>9 DEF IsAvailable
<1>11. /\ \A x \in Job : u.state[x] = t.state[x] \/ (x = j /\ u.state[x] = "TERMINATED")
       /\ IsTerminated(u, j) => LiveOffsets(u, j) = {}
  <2>1. CASE LiveOffsets(t3, j) = {}
    <3>1. u = [t3 EXCEPT !.state[j] = "TERMINATED"]
      BY <1>10, <2>1 DEF UpdateJob
    <3> HIDE DEF u
    <3>2. u.state = [t3.state EXCEPT ![j] = "TERMINATED"] /\ u.procs = t3.procs
      BY <1>9, <3>1
    <3> QED BY <1>2, <1>5, <1>9, <2>1, <3>2 DEF LiveOffsets
  <2>2. CASE LiveOffsets(t3, j) # {}
    BY <1>9, <1>10, <2>2 DEF UpdateJob, IsAvailable, IsTerminated
  <2> QED BY <2>1, <2>2
<1> HIDE DEF u
<1> QED BY <1>2, <1>3, <1>4, <1>11

-----------------------------------------------------------------------------
(* Removing what has ended *)

\* removeTerminatedJobs (job.cpp:715-762): the jobs that are not available any
\* more leave the list, the marks move off them, and nothing deleted is left.
LEMMA RemoveInv ==
  ASSUME NEW t, TableInv(t)
  PROVE  LET u == RemoveTerminatedJobs(t)
         IN  /\ TableInv(u)
             /\ Live(u) = Live(t)
             /\ u.deletedCount = 0
             /\ u.procs = t.procs /\ u.state = t.state
             /\ u.grouped = t.grouped /\ u.lastPipe = t.lastPipe
             /\ u.toplevel \in {t.toplevel, NoJob}
             /\ \A j \in Job : t.jobID[j] # 0 /\ IsAvailable(t, j) => u.jobID[j] # 0
<1> DEFINE u == RemoveTerminatedJobs(t)
           kept == {i \in DOMAIN t.jobs : IsAvailable(t, t.jobs[i])}
           gone == {t.jobs[i] : i \in DOMAIN t.jobs \ kept}
           live == [p \in Live(t) |-> t.entries[p]]
           t1   == BatchedRemove(t)
           prev1 == IF t.prev # NoJob /\ IsTerminated(t, t.prev) THEN NoJob ELSE t.prev
           drop == t.cur # NoJob /\ IsTerminated(t, t.cur)
           cur2 == IF drop THEN prev1 ELSE t.cur
           prev2 == IF drop THEN NoJob ELSE prev1
           top  == IF t.toplevel # NoJob /\ IsTerminated(t, t.toplevel) THEN NoJob
                   ELSE t.toplevel
           jobs2 == [i \in kept |-> t.jobs[i]]
           id2  == [j \in Job |-> IF j \in gone THEN 0 ELSE t.jobID[j]]
           dis2 == t.disowned \cup gone
<1> USE DEF TableInv
<1>1. CASE t.deletedCount = 0
  BY Zenon, <1>1 DEF RemoveTerminatedJobs
<1>2. CASE t.deletedCount # 0
  <2>1. IsPartialFcn(live, Pid, Entry)
    BY DEF TableType, IsPartialFcn, Live
  <2>2. /\ TableType(t1) /\ t1.entries = live /\ t1.deletedCount = 0
        /\ t1.jobs = t.jobs /\ t1.jobID = t.jobID /\ t1.state = t.state
        /\ t1.procs = t.procs /\ t1.cur = t.cur /\ t1.prev = t.prev
        /\ t1.toplevel = t.toplevel /\ t1.disowned = t.disowned
        /\ t1.lastPipe = t.lastPipe /\ t1.grouped = t.grouped
    <3>1. t1 = [t EXCEPT !.deletedCount = 0, !.entries = live]
      BY DEF BatchedRemove, Live
    <3> HIDE DEF t1, live
    <3> QED BY Zenon, <2>1, <3>1 DEF TableType
  <2>3. kept \subseteq DOMAIN t.jobs /\ gone \subseteq Job
        /\ \A j \in gone : ~IsAvailable(t, j) /\ t.jobID[j] # 0
    BY DEF TableType, IsPartialFcn, JobsOK, JobId
  <2>4. /\ IsPartialFcn(jobs2, JobId, Job) /\ id2 \in [Job -> 0..MaxJob]
        /\ dis2 \in SUBSET Job /\ {cur2, prev2, top} \subseteq Job \cup {NoJob}
    BY SMTT(30), <2>3, MaxJobAssumption DEF TableType, IsPartialFcn
  <2>5. /\ TableType(u) /\ u.entries = live /\ u.deletedCount = 0
        /\ u.state = t.state /\ u.procs = t.procs
        /\ u.lastPipe = t.lastPipe /\ u.grouped = t.grouped
        /\ \/ /\ gone = {} /\ u.jobs = t.jobs /\ u.jobID = t.jobID
              /\ u.cur = t.cur /\ u.prev = t.prev /\ u.toplevel = t.toplevel
              /\ u.disowned = t.disowned
           \/ /\ u.jobs = jobs2 /\ u.jobID = id2 /\ u.disowned = dis2
              /\ u.cur = cur2 /\ u.prev = prev2 /\ u.toplevel = top
    <3>1. CASE gone = {}
      <4>1. u = t1
        BY <1>2, <3>1 DEF RemoveTerminatedJobs
      <4> HIDE DEF u, t1, live, gone
      <4> QED BY <2>2, <3>1, <4>1
    <3>2. CASE gone # {}
      <4>1. u = [t1 EXCEPT !.jobs = jobs2, !.jobID = id2, !.disowned = @ \cup gone,
                           !.cur = cur2, !.prev = prev2, !.toplevel = top]
        BY <1>2, <3>2 DEF RemoveTerminatedJobs
      <4>2. t1.disowned \cup gone = dis2
        BY <2>2
      <4> HIDE DEF u, t1, live, gone, jobs2, id2, dis2, cur2, prev2, top
      <4> QED BY ZenonT(40), <2>2, <2>4, <4>1, <4>2 DEF TableType
    <3> QED BY Zenon, <3>1, <3>2
  <2> HIDE DEF u, t1
  <2>6. Live(u) = Live(t) /\ DOMAIN u.entries = Live(t)
    BY SMTT(30), <2>5 DEF Live, IsDeleted
  <2>7. /\ \A i \in DOMAIN u.jobs : i \in DOMAIN t.jobs /\ u.jobs[i] = t.jobs[i]
        /\ \A i \in DOMAIN u.jobs : u.jobs[i] \in Job /\ ~IsTerminated(u, u.jobs[i])
        /\ \A i \in DOMAIN t.jobs : IsAvailable(t, t.jobs[i]) => i \in DOMAIN u.jobs
    <3>1. gone = {} => kept = DOMAIN t.jobs
      OBVIOUS
    <3>2. DOMAIN u.jobs = kept /\ \A i \in kept : u.jobs[i] = t.jobs[i]
      <4> HIDE DEF gone, kept
      <4> QED BY <2>5, <3>1
    <3>3. \A i \in DOMAIN t.jobs : t.jobs[i] \in Job
      BY DEF TableType, IsPartialFcn
    <3> QED BY Zenon, <2>3, <2>5, <3>2, <3>3 DEF IsAvailable, IsTerminated
  <2>8. JobsOK(u)
    <3>1. \A i \in DOMAIN t.jobs : i \in kept <=> t.jobs[i] \notin gone
      BY DEF JobsOK
    <3>2. \A i \in DOMAIN t.jobs : t.jobs[i] \in Job /\ i # 0
      BY DEF TableType, IsPartialFcn, JobId
    <3>3. CASE u.jobs = t.jobs /\ u.jobID = t.jobID
      BY <3>3 DEF JobsOK
    <3>4. CASE u.jobs = jobs2 /\ u.jobID = id2
      <4>1. DOMAIN u.jobs = kept /\ \A i \in kept : u.jobs[i] = t.jobs[i]
        BY <3>4
      <4>2. \A j \in Job : u.jobID[j] = IF j \in gone THEN 0 ELSE t.jobID[j]
        BY Zenon, <3>4
      <4> HIDE DEF gone, kept, jobs2, id2
      <4>3. \A i \in DOMAIN u.jobs : u.jobID[u.jobs[i]] = i
        BY <2>3, <3>1, <3>2, <4>1, <4>2 DEF JobsOK
      <4>4. ASSUME NEW j \in Job, u.jobID[j] # 0
            PROVE  u.jobID[j] \in DOMAIN u.jobs /\ u.jobs[u.jobID[j]] = j
        <5>1. j \notin gone /\ u.jobID[j] = t.jobID[j]
          BY <4>2, <4>4
        <5>2. t.jobID[j] \in DOMAIN t.jobs /\ t.jobs[t.jobID[j]] = j
          BY <4>4, <5>1 DEF JobsOK
        <5> QED BY <3>1, <4>1, <5>1, <5>2
      <4> QED BY <4>3, <4>4 DEF JobsOK
    <3> QED BY <2>5, <3>3, <3>4
  <2>9. IndexOK(u)
    <3>1. \A j : LiveOffsets(u, j) = LiveOffsets(t, j)
      BY Zenon, <2>5 DEF LiveOffsets
    <3>2. \A p \in Live(t) : u.entries[p] = t.entries[p]
      BY Zenon, <2>5
    <3>0. u.procs = t.procs /\ u.state = t.state
      BY <2>5
    <3> HIDE DEF live, kept, gone, jobs2, id2, dis2
    <3>3. ASSUME NEW p \in Live(u)
          PROVE  LET i == u.entries[p].jobId
                     k == u.entries[p].procOffset
                 IN  /\ i \in DOMAIN u.jobs
                     /\ IsAvailable(u, u.jobs[i])
                     /\ k \in LiveOffsets(u, u.jobs[i])
                     /\ u.procs[u.jobs[i]][k].pid = p
      <4> DEFINE i == t.entries[p].jobId
                 k == t.entries[p].procOffset
      <4>1. p \in Live(t) /\ u.entries[p] = t.entries[p]
        BY <2>6, <3>2
      <4>2. /\ i \in DOMAIN t.jobs /\ IsAvailable(t, t.jobs[i])
            /\ k \in LiveOffsets(t, t.jobs[i]) /\ t.procs[t.jobs[i]][k].pid = p
        BY Zenon, <4>1 DEF IndexOK
      <4> HIDE DEF i, k
      <4>3. i \in DOMAIN u.jobs /\ u.jobs[i] = t.jobs[i]
        BY <2>7, <4>2
      <4>4. IsAvailable(u, u.jobs[i])
        BY Zenon, <3>0, <4>2, <4>3 DEF IsAvailable
      <4> QED BY Zenon, <3>0, <3>1, <4>1, <4>2, <4>3, <4>4 DEF i, k
    <3>4. ASSUME NEW i \in DOMAIN u.jobs, IsAvailable(u, u.jobs[i])
          PROVE  /\ LiveOffsets(u, u.jobs[i]) # {}
                 /\ \A k \in LiveOffsets(u, u.jobs[i]) :
                      LET p == u.procs[u.jobs[i]][k].pid
                      IN  p \in DOMAIN u.entries /\ u.entries[p] = [jobId |-> i, procOffset |-> k]
      <4> DEFINE j == t.jobs[i]
      <4>1. i \in DOMAIN t.jobs /\ u.jobs[i] = j /\ IsAvailable(t, j) /\ i # 0
        BY <2>7, <3>0, <3>4 DEF IsAvailable, TableType, IsPartialFcn, JobId
      <4>2. /\ LiveOffsets(t, j) # {}
            /\ \A k \in LiveOffsets(t, j) :
                 /\ t.procs[j][k].pid \in DOMAIN t.entries
                 /\ t.entries[t.procs[j][k].pid] = [jobId |-> i, procOffset |-> k]
        BY Zenon, <4>1 DEF IndexOK
      <4> HIDE DEF j
      <4>3. \A k \in LiveOffsets(t, j) : t.procs[j][k].pid \in Live(t)
        <5> SUFFICES ASSUME NEW k \in LiveOffsets(t, j)
                     PROVE  t.procs[j][k].pid \in Live(t)
          BY Zenon
        <5> DEFINE p == t.procs[j][k].pid
        <5>1. p \in DOMAIN t.entries /\ t.entries[p] = [jobId |-> i, procOffset |-> k]
          BY <4>2
        <5> HIDE DEF p
        <5>2. t.entries[p].jobId # 0
          BY <4>1, <5>1
        <5>3. p \in Live(t)
          BY <5>1, <5>2 DEF Live, IsDeleted
        <5> QED BY <5>3 DEF p
      <4> QED BY <2>6, <3>0, <3>1, <3>2, <4>1, <4>2, <4>3
    <3> QED BY Zenon, <3>3, <3>4 DEF IndexOK
  <2>10. CountOK(u)
    BY Zenon, <2>6, <2>7 DEF CountOK, Attached
  <2>11. MarksOK(u)
    <3>1. \A j \in Attached(t) : IsAvailable(t, j) \/ j \in gone
      BY Zenon DEF Attached
    <3>2. \A j \in Attached(t) : IsAvailable(t, j) => j \in Attached(u)
      BY Zenon, <2>7 DEF Attached
    <3>3. CASE u.cur = t.cur /\ u.prev = t.prev /\ u.jobs = t.jobs /\ u.disowned = t.disowned
      BY <2>5, <3>3 DEF MarksOK, Attached, IsControlled
    <3>4. CASE u.cur = cur2 /\ u.prev = prev2 /\ u.disowned = dis2
      <4>1. ASSUME NEW j \in {u.cur, u.prev} \ {NoJob}
            PROVE  j \in {t.cur, t.prev} \ {NoJob} /\ ~IsTerminated(t, j) /\ j \in Job
        BY <3>4, JobAssumption DEF TableType
      <4>2. ASSUME NEW j \in {u.cur, u.prev} \ {NoJob}
            PROVE  /\ j \notin u.lastPipe
                   /\ j \in Attached(u) \/ (~IsControlled(u, j) /\ j \in u.disowned)
        <5> HIDE DEF kept, gone, cur2, prev2, jobs2, id2
        <5>1. /\ j \notin t.lastPipe
              /\ j \in Attached(t) \/ (~IsControlled(t, j) /\ j \in t.disowned)
          BY <4>1 DEF MarksOK
        <5>2. ~IsAvailable(t, j) => ~IsControlled(u, j)
          BY <2>5, <4>1 DEF IsAvailable, IsControlled, IsTerminated, TableType, JobState
        <5>3. ~IsControlled(t, j) => ~IsControlled(u, j)
          BY <2>5 DEF IsControlled
        <5> QED BY Zenon, <2>5, <3>1, <3>2, <3>4, <5>1, <5>2, <5>3 DEF dis2
      <4>3. u.prev # NoJob => u.cur # NoJob /\ u.cur # u.prev
        BY <3>4, JobAssumption DEF MarksOK, TableType
      <4> QED BY <4>2, <4>3 DEF MarksOK
    <3> QED BY <2>5, <3>3, <3>4
  <2> QED BY <2>3, <2>5, <2>6, <2>8, <2>9, <2>10, <2>11 DEF u
<1> QED BY <1>1, <1>2

-----------------------------------------------------------------------------
(* Job objects outside the list *)

\* What happens to a job object that is not in the list (it is created, or
\* Proc::wait is called on its processes) does not concern the table.
LEMMA UnattachedInv ==
  ASSUME NEW t, TableInv(t), NEW u, TableType(u),
         NEW j \in Job, t.jobID[j] = 0, u.jobID[j] = 0, j \notin {t.cur, t.prev},
         u.jobs = t.jobs, u.entries = t.entries, u.deletedCount = t.deletedCount,
         u.cur = t.cur, u.prev = t.prev,
         \A x \in Job \ {j} : /\ u.jobID[x] = t.jobID[x] /\ u.state[x] = t.state[x]
                              /\ u.procs[x] = t.procs[x]
                              /\ x \in u.lastPipe <=> x \in t.lastPipe
                              /\ x \in t.disowned => x \in u.disowned
  PROVE  TableInv(u) /\ Live(u) = Live(t)
<1> USE DEF TableInv
<1>1. \A i \in DOMAIN t.jobs : t.jobs[i] \in Job \ {j} /\ t.jobID[t.jobs[i]] = i
  BY DEF JobsOK, TableType, IsPartialFcn, JobId
<1>2. \A x \in Job \ {j} : LiveOffsets(u, x) = LiveOffsets(t, x)
  BY Zenon DEF LiveOffsets
<1>3. Live(u) = Live(t) /\ Attached(u) = Attached(t)
  BY DEF Live, IsDeleted, Attached
<1>4. JobsOK(u)
  BY <1>1 DEF JobsOK
<1>5. IndexOK(u)
  <2>1. \A i \in DOMAIN t.jobs :
          /\ IsAvailable(u, t.jobs[i]) <=> IsAvailable(t, t.jobs[i])
          /\ LiveOffsets(u, t.jobs[i]) = LiveOffsets(t, t.jobs[i])
          /\ u.procs[t.jobs[i]] = t.procs[t.jobs[i]]
    BY <1>1, <1>2 DEF IsAvailable
  <2>2. ASSUME NEW p \in Live(u)
        PROVE  LET i == u.entries[p].jobId
                   k == u.entries[p].procOffset
               IN  /\ i \in DOMAIN u.jobs
                   /\ IsAvailable(u, u.jobs[i])
                   /\ k \in LiveOffsets(u, u.jobs[i])
                   /\ u.procs[u.jobs[i]][k].pid = p
    <3> DEFINE i == t.entries[p].jobId
               k == t.entries[p].procOffset
    <3>1. /\ i \in DOMAIN t.jobs /\ IsAvailable(t, t.jobs[i])
          /\ k \in LiveOffsets(t, t.jobs[i]) /\ t.procs[t.jobs[i]][k].pid = p
      BY ZenonT(40), <1>3 DEF IndexOK
    <3> HIDE DEF i, k
    <3> QED BY ZenonT(40), <2>1, <3>1 DEF i, k
  <2>3. ASSUME NEW i \in DOMAIN u.jobs, IsAvailable(u, u.jobs[i])
        PROVE  /\ LiveOffsets(u, u.jobs[i]) # {}
               /\ \A k \in LiveOffsets(u, u.jobs[i]) :
                    LET p == u.procs[u.jobs[i]][k].pid
                    IN  p \in DOMAIN u.entries /\ u.entries[p] = [jobId |-> i, procOffset |-> k]
    <3>1. i \in DOMAIN t.jobs /\ IsAvailable(t, t.jobs[i])
      BY <2>1, <2>3
    <3>2. /\ LiveOffsets(t, t.jobs[i]) # {}
          /\ \A k \in LiveOffsets(t, t.jobs[i]) :
               /\ t.procs[t.jobs[i]][k].pid \in DOMAIN t.entries
               /\ t.entries[t.procs[t.jobs[i]][k].pid] = [jobId |-> i, procOffset |-> k]
      BY Zenon, <3>1 DEF IndexOK
    <3>3. /\ LiveOffsets(u, t.jobs[i]) = LiveOffsets(t, t.jobs[i])
          /\ u.procs[t.jobs[i]] = t.procs[t.jobs[i]]
      BY <2>1, <3>1
    <3> SUFFICES /\ LiveOffsets(u, t.jobs[i]) # {}
                 /\ \A k \in LiveOffsets(u, t.jobs[i]) :
                      /\ u.procs[t.jobs[i]][k].pid \in DOMAIN t.entries
                      /\ t.entries[u.procs[t.jobs[i]][k].pid]
                           = [jobId |-> i, procOffset |-> k]
      BY Zenon
    <3> QED BY ZenonT(40), <3>2, <3>3
  <2> QED BY Zenon, <2>2, <2>3 DEF IndexOK
<1>6. CountOK(u)
  BY <1>1, <1>3 DEF CountOK, IsTerminated, Attached
<1>7. MarksOK(u)
  BY <1>3 DEF MarksOK, IsControlled, TableType
<1> QED BY <1>3, <1>4, <1>5, <1>6, <1>7

\* A job object j that is not in use, for n processes.
NewJob(t, j, n, pids) ==
  /\ TableInv(t) /\ j \in Job /\ j \notin Attached(t) /\ j \notin {t.cur, t.prev}
  /\ n \in Nat /\ pids \in [1..n -> Pid]

\* From t to u by a new job object j.
Created(t, j, n, pids, g, u) ==
  /\ TableInv(u) /\ Live(u) = Live(t) /\ u.entries = t.entries
  /\ u.jobs = t.jobs /\ u.toplevel = t.toplevel /\ u.deletedCount = t.deletedCount
  /\ u.jobID = t.jobID /\ u.jobID[j] = 0
  /\ IsAvailable(u, j) /\ DOMAIN u.procs[j] = 1..n /\ LiveOffsets(u, j) = 1..n
  /\ \A x \in Job \ {j} : /\ u.state[x] = t.state[x] /\ u.procs[x] = t.procs[x]
                          /\ x \in u.grouped <=> x \in t.grouped
  /\ j \in u.grouped <=> g
  /\ \A k \in 1..n : u.procs[j][k].pid = pids[k]

\* A job object that the program makes (job.h:254-275, vm.cpp:444-472).
LEMMA CreateInv ==
  ASSUME NEW t, TableInv(t), NEW j \in Job, j \notin Attached(t),
         j \notin {t.cur, t.prev}, NEW n \in Nat, NEW pids \in [1..n -> Pid],
         NEW lp \in BOOLEAN, NEW g \in BOOLEAN
  PROVE  Created(t, j, n, pids, g, Create(t, j, pids, lp, g))
<1> DEFINE u == Create(t, j, pids, lp, g)
           ps == [k \in DOMAIN pids |-> [pid |-> pids[k], state |-> "RUNNING"]]
           ids == [t.jobID EXCEPT ![j] = 0]
           sts == [t.state EXCEPT ![j] = "AVAILABLE"]
           prs == [t.procs EXCEPT ![j] = ps]
           lps == IF lp THEN t.lastPipe \cup {j} ELSE t.lastPipe \ {j}
           gs  == IF g THEN t.grouped \cup {j} ELSE t.grouped \ {j}
           ds  == t.disowned \ {j}
<1> USE DEF TableInv
<1>1. t.jobID[j] = 0
  BY AttachedId
<1>2. ps \in Seq(Proc) /\ DOMAIN ps = 1..n /\ Len(ps) = n
      /\ \A k \in 1..n : ps[k] = [pid |-> pids[k], state |-> "RUNNING"]
  <2>1. \A k \in 1..n : [pid |-> pids[k], state |-> "RUNNING"] \in Proc
    BY DEF Proc, ProcState
  <2>2. ps \in [1..n -> Proc]
    BY <2>1
  <2>3. DOMAIN ps = 1..n /\ \A k \in 1..n : ps[k] = [pid |-> pids[k], state |-> "RUNNING"]
    OBVIOUS
  <2> HIDE DEF ps
  <2>4. ps \in Seq(Proc) /\ Len(ps) = n
    BY <2>2, <2>3
  <2> QED BY <2>3, <2>4
<1>3. /\ ids \in [Job -> 0..MaxJob] /\ ids = t.jobID
      /\ sts \in [Job -> JobState] /\ lps \in SUBSET Job /\ gs \in SUBSET Job
      /\ ds \in SUBSET Job
  BY <1>1 DEF TableType, JobState
<1>4. prs \in [Job -> Seq(Proc)]
  <2> HIDE DEF ps
  <2> QED BY <1>2 DEF TableType
<1>5. u = [t EXCEPT !.jobID = ids, !.state = sts, !.procs = prs, !.disowned = ds,
                    !.lastPipe = lps, !.grouped = gs]
  BY DEF Create
<1>6. /\ TableType(u)
      /\ u.jobs = t.jobs /\ u.entries = t.entries
      /\ u.deletedCount = t.deletedCount /\ u.toplevel = t.toplevel
      /\ u.cur = t.cur /\ u.prev = t.prev
      /\ u.jobID = ids /\ u.state = sts /\ u.procs = prs /\ u.lastPipe = lps
      /\ u.grouped = gs /\ u.disowned = ds
  <2> HIDE DEF u, ids, sts, prs, ds, lps, gs
  <2> QED BY ZenonT(40), <1>3, <1>4, <1>5 DEF TableType
<1> HIDE DEF u, ps
<1>7. \A x \in Job \ {j} : /\ u.jobID[x] = t.jobID[x] /\ u.state[x] = t.state[x]
                           /\ u.procs[x] = t.procs[x]
                           /\ x \in u.lastPipe <=> x \in t.lastPipe
                           /\ x \in u.grouped <=> x \in t.grouped
                           /\ x \in t.disowned => x \in u.disowned
  BY <1>6 DEF TableType
<1>8. /\ u.jobID = t.jobID /\ u.jobID[j] = 0 /\ u.state[j] = "AVAILABLE"
      /\ u.procs[j] = ps /\ (j \in u.grouped <=> g)
  BY <1>1, <1>3, <1>6 DEF TableType
<1>9. TableInv(u) /\ Live(u) = Live(t)
  <2> HIDE DEF TableInv
  <2>1. \A x \in Job \ {j} : /\ u.jobID[x] = t.jobID[x] /\ u.state[x] = t.state[x]
                             /\ u.procs[x] = t.procs[x]
                             /\ x \in u.lastPipe <=> x \in t.lastPipe
                             /\ x \in t.disowned => x \in u.disowned
    BY Zenon, <1>7
  <2> HIDE DEF ids, sts, prs, lps, gs
  <2> QED BY <1>1, <1>6, <1>8, <2>1, UnattachedInv
<1>10. LiveOffsets(u, j) = 1..n
  BY <1>2, <1>8 DEF LiveOffsets
<1>11. IsAvailable(u, j)
  BY <1>8 DEF IsAvailable
<1>12. /\ DOMAIN u.procs[j] = 1..n /\ Len(u.procs[j]) = n
       /\ \A k \in 1..n : u.procs[j][k].pid = pids[k]
  BY <1>2, <1>8
<1> HIDE DEF TableInv, ids, sts, prs, lps, gs, ds
<1>13. \A x \in Job \ {j} : /\ u.state[x] = t.state[x] /\ u.procs[x] = t.procs[x]
                            /\ x \in u.grouped <=> x \in t.grouped
  BY Zenon, <1>7
<1>14. Created(t, j, n, pids, g, u)
  BY ZenonT(40), <1>6, <1>8, <1>9, <1>10, <1>11, <1>12, <1>13 DEF Created
<1> QED BY Zenon, <1>14 DEF u

-----------------------------------------------------------------------------
(* Attaching a job *)

\* Two tables that differ in the toplevel job and the disowned jobs only.
SameButNames(t, u) ==
  /\ u.jobs = t.jobs /\ u.entries = t.entries
  /\ u.deletedCount = t.deletedCount
  /\ u.cur = t.cur /\ u.prev = t.prev
  /\ u.jobID = t.jobID /\ u.state = t.state /\ u.procs = t.procs
  /\ u.lastPipe = t.lastPipe /\ u.grouped = t.grouped
  /\ t.disowned \subseteq u.disowned

\* Which job is the toplevel one, and whether more are disowned, is not part of
\* what the table promises.
LEMMA SameButNamesInv ==
  ASSUME NEW t, TableInv(t), NEW u, TableType(u), SameButNames(t, u)
  PROVE  /\ TableInv(u) /\ Live(u) = Live(t) /\ Attached(u) = Attached(t)
         /\ \A j : LiveOffsets(u, j) = LiveOffsets(t, j)
<1>1. JobsOK(u) /\ IndexOK(u) /\ CountOK(u)
  <2>1. JobsOK(u) <=> JobsOK(t)
    BY DEF SameButNames, JobsOK
  <2>2. IndexOK(u) <=> IndexOK(t)
    BY DEF SameButNames, IndexOK, Live, IsDeleted, IsAvailable, LiveOffsets
  <2>3. CountOK(u) <=> CountOK(t)
    BY DEF SameButNames, CountOK, Live, IsDeleted, Attached, IsTerminated
  <2> QED BY <2>1, <2>2, <2>3 DEF TableInv
<1>2. MarksOK(u)
  BY DEF TableInv, SameButNames, MarksOK, Attached, IsControlled
<1>3. Live(u) = Live(t) /\ Attached(u) = Attached(t)
  BY DEF SameButNames, Live, IsDeleted, Attached
<1>4. \A j : LiveOffsets(u, j) = LiveOffsets(t, j)
  BY DEF SameButNames, LiveOffsets
<1> QED BY <1>1, <1>2, <1>3, <1>4 DEF TableInv

\* Setting or clearing the toplevel last-pipe job (job.h:647-651).
LEMMA SetToplevel ==
  ASSUME NEW t, TableInv(t), NEW x \in Job \cup {NoJob},
         NEW u, u = [t EXCEPT !.toplevel = x]
  PROVE  /\ TableInv(u) /\ Live(u) = Live(t) /\ SameButNames(t, u)
         /\ u.toplevel = x /\ u.disowned = t.disowned
<1>1. TableType(u) /\ SameButNames(t, u) /\ u.toplevel = x /\ u.disowned = t.disowned
  BY Zenon DEF TableInv, TableType, SameButNames
<1> QED BY <1>1, SameButNamesInv

\* Disowning jobs (JobObject::disown).
LEMMA SetDisowned ==
  ASSUME NEW t, TableInv(t), NEW x \in SUBSET Job, t.disowned \subseteq x,
         NEW u, u = [t EXCEPT !.disowned = x]
  PROVE  /\ TableInv(u) /\ Live(u) = Live(t) /\ SameButNames(t, u)
         /\ u.toplevel = t.toplevel
<1>1. TableType(u) /\ SameButNames(t, u) /\ u.toplevel = t.toplevel
  BY Zenon DEF TableInv, TableType, SameButNames
<1> QED BY <1>1, SameButNamesInv

\* findEmptyEntry (job.cpp:650-665) finds an id below the limit as long as the
\* list is not full.
LEMMA FreeId ==
  ASSUME NEW t, TableType(t), DOMAIN t.jobs # JobId
  PROVE  FindEmptyEntry(t) \in JobId \ DOMAIN t.jobs
<1> DEFINE E == 1..(MaxJob + 1) \ DOMAIN t.jobs
           D == DOMAIN t.jobs
<1>1. D \subseteq JobId /\ JobId = 1..MaxJob /\ MaxJob \in Nat
  BY MaxJobAssumption DEF TableType, IsPartialFcn, JobId
<1>2. PICK x \in JobId : x \notin D
  BY Zenon, <1>1
<1>3. E \in SUBSET Nat /\ E # {}
  BY <1>1, <1>2
<1>4. PICK m \in E : \A n \in E : m <= n
  <2> HIDE DEF E
  <2> QED BY <1>3, NatMin
<1>5. \A i \in 1..(m - 1) : i \in D
  BY <1>1, <1>4
<1>6. /\ FindEmptyEntry(t) \in E
      /\ \A i \in 1..(FindEmptyEntry(t) - 1) : i \in D
  BY Zenon, <1>4, <1>5 DEF FindEmptyEntry
<1> QED BY <1>1, <1>2, <1>6

\* A job object that can be attached.
Attachable(t, j) ==
  /\ TableInv(t) /\ t.jobID[j] = 0 /\ DOMAIN t.jobs # JobId
  /\ IsAvailable(t, j) /\ LiveOffsets(t, j) # {}
  /\ \A a, b \in LiveOffsets(t, j) : t.procs[j][a].pid = t.procs[j][b].pid => a = b
  /\ \A k \in LiveOffsets(t, j) : t.procs[j][k].pid \notin DOMAIN t.entries

\* From t to u by attaching j.
AttachedAs(t, j, u) ==
  /\ TableInv(u) /\ u.procs = t.procs /\ u.state = t.state
  /\ Live(u) = Live(t) \cup {t.procs[j][k].pid : k \in LiveOffsets(t, j)}
  /\ u.deletedCount = t.deletedCount
  /\ u.grouped = t.grouped /\ u.lastPipe = t.lastPipe
  /\ u.jobID[j] # 0 /\ \A x \in Job \ {j} : u.jobID[x] = t.jobID[x]

\* attach (job.cpp:522-539) of an available job none of whose live processes
\* has an entry yet: the job gets a free id, every live process an entry.
LEMMA AttachInv ==
  ASSUME NEW t, TableInv(t), NEW j \in Job, t.jobID[j] = 0, IsAvailable(t, j),
         LiveOffsets(t, j) # {},
         \A a, b \in LiveOffsets(t, j) :
           t.procs[j][a].pid = t.procs[j][b].pid => a = b,
         \A k \in LiveOffsets(t, j) : t.procs[j][k].pid \notin DOMAIN t.entries,
         DOMAIN t.jobs # JobId, NEW disown \in BOOLEAN
  PROVE  AttachedAs(t, j, Attach(t, j, disown))
<1> DEFINE id == FindEmptyEntry(t)
           new == {t.procs[j][k].pid : k \in LiveOffsets(t, j)}
           jobs2 == [i \in DOMAIN t.jobs \cup {id} |-> IF i = id THEN j ELSE t.jobs[i]]
           ids == [t.jobID EXCEPT ![j] = id]
           t1 == [t EXCEPT !.jobs = jobs2, !.jobID[j] = id]
           off(p) == CHOOSE k \in LiveOffsets(t1, j) : t1.procs[j][k].pid = p
           ents == [p \in DOMAIN t1.entries \cup (ValidPids(t1, j) \ DOMAIN t1.entries) |->
                      IF p \in DOMAIN t1.entries THEN t1.entries[p]
                      ELSE [jobId |-> t1.jobID[j], procOffset |-> off(p)]]
           t2 == AddProcs(t1, j)
           t3 == SetCurrentJob(t2, j)
           u == Attach(t, j, disown)
<1> USE DEF TableInv
<1>1. id \in JobId /\ id \notin DOMAIN t.jobs /\ id # 0 /\ id \in 0..MaxJob
  BY FreeId, MaxJobAssumption DEF JobId
<1>2. t.procs[j] \in Seq(Proc) /\ LiveOffsets(t, j) \subseteq DOMAIN t.procs[j]
      /\ \A k \in LiveOffsets(t, j) : k \in Nat /\ t.procs[j][k].pid \in Pid
  <2>1. t.procs[j] \in Seq(Proc) /\ LiveOffsets(t, j) \subseteq DOMAIN t.procs[j]
    BY DEF TableType, LiveOffsets
  <2>2. \A k \in DOMAIN t.procs[j] : k \in Nat /\ t.procs[j][k] \in Proc
    BY <2>1, ElementOfSeq
  <2> QED BY <2>1, <2>2 DEF Proc
<1>3. /\ IsPartialFcn(jobs2, JobId, Job) /\ ids \in [Job -> 0..MaxJob] /\ ids[j] = id
  BY <1>1 DEF TableType, IsPartialFcn
<1>4. /\ t1.procs = t.procs /\ t1.state = t.state /\ t1.entries = t.entries
      /\ t1.jobID[j] = id /\ t1 = [t EXCEPT !.jobs = jobs2, !.jobID = ids]
  <2>1. t1 = [t EXCEPT !.jobs = jobs2, !.jobID = ids]
    BY Zenon
  <2> HIDE DEF t1, jobs2, ids, id
  <2> QED BY <1>3, <2>1 DEF TableType
<1>5. LiveOffsets(t1, j) = LiveOffsets(t, j) /\ ValidPids(t1, j) = new
  <2>1. LiveOffsets(t1, j) = LiveOffsets(t, j) /\ IsControlled(t1, j)
    BY <1>4 DEF LiveOffsets, IsControlled, IsAvailable
  <2> HIDE DEF t1
  <2>2. {o \in LiveOffsets(t1, j) : IsControlled(t1, j)} = LiveOffsets(t, j)
    BY <2>1
  <2>3. ValidPids(t1, j) = {t1.procs[j][k].pid : k \in LiveOffsets(t, j)}
    BY <2>2 DEF ValidPids
  <2>4. t1.procs = t.procs
    BY <1>4
  <2> QED BY <2>1, <2>3, <2>4
<1>6. t2 = [t1 EXCEPT !.entries = ents]
  BY DEF AddProcs
<1> HIDE DEF t1, t2
<1>7. \A k \in LiveOffsets(t, j) : off(t.procs[j][k].pid) = k
  <2> SUFFICES ASSUME NEW k \in LiveOffsets(t, j) PROVE off(t.procs[j][k].pid) = k
    OBVIOUS
  <2>1. /\ k \in LiveOffsets(t1, j) /\ t1.procs[j][k].pid = t.procs[j][k].pid
        /\ \A o \in LiveOffsets(t1, j) : t1.procs[j][o].pid = t.procs[j][k].pid => o = k
    BY ZenonT(40), <1>4, <1>5
  <2> QED BY <2>1
<1> HIDE DEF off
<1>8. /\ DOMAIN ents = DOMAIN t.entries \cup new
      /\ \A p \in DOMAIN t.entries : ents[p] = t.entries[p]
      /\ \A k \in LiveOffsets(t, j) :
           ents[t.procs[j][k].pid] = [jobId |-> id, procOffset |-> k]
      /\ IsPartialFcn(ents, Pid, Entry)
  <2>1. \A p \in new : p \in Pid /\ off(p) \in Nat
    BY Zenon, <1>2, <1>7
  <2>2. \A p \in new : [jobId |-> id, procOffset |-> off(p)] \in Entry
    BY <1>1, <2>1 DEF Entry
  <2>3. DOMAIN ents = DOMAIN t.entries \cup new
    BY ZenonT(40), <1>4, <1>5
  <2>4. \A p \in DOMAIN t.entries : ents[p] = t.entries[p]
    BY Zenon, <1>4
  <2>5. \A p \in new : p \notin DOMAIN t.entries
    OBVIOUS
  <2> HIDE DEF id
  <2>6. \A p \in new : ents[p] = [jobId |-> id, procOffset |-> off(p)]
    <3> HIDE DEF new
    <3> QED BY Zenon, <1>4, <1>5, <2>5
  <2>7. \A k \in LiveOffsets(t, j) : t.procs[j][k].pid \in new
    OBVIOUS
  <2>8. IsPartialFcn(ents, Pid, Entry)
    <3>1. \A p \in DOMAIN ents : p \in Pid /\ ents[p] \in Entry
      <4> HIDE DEF new, ents
      <4> QED BY <2>1, <2>2, <2>3, <2>4, <2>6 DEF TableType, IsPartialFcn
    <3>2. ents \in [DOMAIN ents -> Entry]
      BY Zenon, <3>1
    <3> QED BY Zenon, <3>1, <3>2 DEF IsPartialFcn
  <2>9. \A k \in LiveOffsets(t, j) :
          ents[t.procs[j][k].pid] = [jobId |-> id, procOffset |-> k]
    <3> HIDE DEF new, ents
    <3> QED BY <1>7, <2>6, <2>7
  <2> QED BY Zenon, <2>3, <2>4, <2>8, <2>9
<1>9. /\ TableType(t2) /\ t2.jobs = jobs2 /\ t2.jobID = ids /\ t2.entries = ents
      /\ t2.deletedCount = t.deletedCount /\ t2.state = t.state /\ t2.procs = t.procs
      /\ t2.lastPipe = t.lastPipe /\ t2.grouped = t.grouped
      /\ t2.cur = t.cur /\ t2.prev = t.prev /\ t2.toplevel = t.toplevel
      /\ t2.disowned = t.disowned
  <2> HIDE DEF jobs2, ids, ents
  <2>1. /\ TableType(t1) /\ t1.jobs = jobs2 /\ t1.jobID = ids
        /\ t1.deletedCount = t.deletedCount /\ t1.state = t.state /\ t1.procs = t.procs
        /\ t1.lastPipe = t.lastPipe /\ t1.grouped = t.grouped
        /\ t1.cur = t.cur /\ t1.prev = t.prev /\ t1.toplevel = t.toplevel
        /\ t1.disowned = t.disowned
    BY Zenon, <1>3, <1>4 DEF TableType
  <2>2. IsPartialFcn(ents, Pid, Entry)
    BY Zenon, <1>8
  <2> HIDE DEF new
  <2> QED BY Zenon, <1>6, <2>1, <2>2 DEF TableType
<1>9a. \A k \in LiveOffsets(t, j) : t.procs[j][k].pid \in new
  OBVIOUS
<1>9b. \A p \in new : p \notin DOMAIN t.entries
                       /\ \E k \in LiveOffsets(t, j) : p = t.procs[j][k].pid
  BY Zenon
<1> HIDE DEF id, ents, new, t3, u
<1>9c. /\ DOMAIN t2.entries = DOMAIN t.entries \cup new
       /\ \A p \in DOMAIN t.entries : t2.entries[p] = t.entries[p]
  BY Zenon, <1>8, <1>9
<1>9d. \A k \in LiveOffsets(t, j) :
          t2.entries[t.procs[j][k].pid] = [jobId |-> id, procOffset |-> k]
  BY Zenon, <1>8, <1>9
<1>10. /\ DOMAIN t2.jobs = DOMAIN t.jobs \cup {id} /\ t2.jobs[id] = j
       /\ \A i \in DOMAIN t.jobs : t2.jobs[i] = t.jobs[i] /\ t.jobs[i] \in Job \ {j}
                                   /\ t.jobID[t.jobs[i]] = i /\ i # 0
       /\ t2.jobID[j] = id /\ \A x \in Job \ {j} : t2.jobID[x] = t.jobID[x]
  <2>1. \A i \in DOMAIN t.jobs : /\ t.jobs[i] \in Job \ {j} /\ t.jobID[t.jobs[i]] = i
                                 /\ i # 0
    BY DEF JobsOK, TableType, IsPartialFcn, JobId
  <2>2. t2.jobID[j] = id /\ \A x \in Job \ {j} : t2.jobID[x] = t.jobID[x]
    BY <1>3, <1>9 DEF TableType
  <2> QED BY <1>1, <1>9, <2>1, <2>2
<1> HIDE DEF jobs2, ids
<1>11. Live(t2) = Live(t) \cup new
  <2>1. \A p \in new : t2.entries[p].jobId = id /\ p \notin DOMAIN t.entries
    <3> SUFFICES ASSUME NEW p \in new PROVE t2.entries[p].jobId = id
      BY <1>9b
    <3>1. PICK k \in LiveOffsets(t, j) : p = t.procs[j][k].pid
      BY Zenon, <1>9b
    <3>2. t2.entries[p] = [jobId |-> id, procOffset |-> k]
      BY Zenon, <1>9d, <3>1
    <3> QED BY <3>2
  <2> QED BY <1>1, <1>9c, <2>1 DEF Live, IsDeleted
<1>12. JobsOK(t2)
  BY <1>1, <1>10 DEF JobsOK
<1>13. \A x \in Job : LiveOffsets(t2, x) = LiveOffsets(t, x)
  BY <1>9 DEF LiveOffsets
<1>14. IndexOK(t2)
  <2>1. ASSUME NEW p \in Live(t2)
        PROVE  LET i == t2.entries[p].jobId
                   k == t2.entries[p].procOffset
               IN  /\ i \in DOMAIN t2.jobs
                   /\ IsAvailable(t2, t2.jobs[i])
                   /\ k \in LiveOffsets(t2, t2.jobs[i])
                   /\ t2.procs[t2.jobs[i]][k].pid = p
    <3>1. CASE p \in Live(t)
      <4> DEFINE i == t.entries[p].jobId
                 k == t.entries[p].procOffset
      <4>1. /\ i \in DOMAIN t.jobs /\ IsAvailable(t, t.jobs[i])
            /\ k \in LiveOffsets(t, t.jobs[i]) /\ t.procs[t.jobs[i]][k].pid = p
        BY Zenon, <3>1 DEF IndexOK
      <4>2. t2.entries[p] = t.entries[p]
        BY Zenon, <1>9c, <3>1 DEF Live
      <4> HIDE DEF i, k
      <4>3. i \in DOMAIN t2.jobs /\ t2.jobs[i] = t.jobs[i] /\ t.jobs[i] \in Job
        BY Zenon, <1>10, <4>1
      <4>4. IsAvailable(t2, t2.jobs[i])
        BY Zenon, <1>9, <4>1, <4>3 DEF IsAvailable
      <4> QED BY ZenonT(40), <1>9, <1>13, <4>1, <4>2, <4>3, <4>4 DEF i, k
    <3>2. CASE p \in new
      <4>1. PICK k \in LiveOffsets(t, j) : p = t.procs[j][k].pid
        BY Zenon, <1>9b, <3>2
      <4>2. t2.entries[p] = [jobId |-> id, procOffset |-> k]
        BY Zenon, <1>9d, <4>1
      <4>3. t2.entries[p].jobId = id /\ t2.entries[p].procOffset = k
        BY <4>2
      <4>4. IsAvailable(t2, j)
        BY <1>9 DEF IsAvailable
      <4>5. /\ id \in DOMAIN t2.jobs /\ t2.jobs[id] = j
            /\ LiveOffsets(t2, j) = LiveOffsets(t, j) /\ t2.procs[j] = t.procs[j]
        BY Zenon, <1>9, <1>10, <1>13
      <4> HIDE DEF t2, id
      <4>6. IsAvailable(t2, t2.jobs[id]) /\ k \in LiveOffsets(t2, t2.jobs[id])
            /\ t2.procs[t2.jobs[id]][k].pid = p
        BY Zenon, <4>1, <4>4, <4>5
      <4> QED BY Zenon, <4>3, <4>5, <4>6
    <3> QED BY ZenonT(40), <1>11, <3>1, <3>2
  <2>2. ASSUME NEW i \in DOMAIN t2.jobs, IsAvailable(t2, t2.jobs[i])
        PROVE  /\ LiveOffsets(t2, t2.jobs[i]) # {}
               /\ \A k \in LiveOffsets(t2, t2.jobs[i]) :
                    LET p == t2.procs[t2.jobs[i]][k].pid
                    IN  /\ p \in DOMAIN t2.entries
                        /\ t2.entries[p] = [jobId |-> i, procOffset |-> k]
    <3>1. CASE i = id
      <4>1. t2.jobs[i] = j /\ t2.procs[j] = t.procs[j] /\ LiveOffsets(t2, j) = LiveOffsets(t, j)
        BY <1>9, <1>10, <1>13, <3>1
      <4>2. LiveOffsets(t2, t2.jobs[i]) = LiveOffsets(t, j) /\ t2.procs[t2.jobs[i]] = t.procs[j]
        BY ZenonT(40), <4>1
      <4>3. \A k \in LiveOffsets(t, j) :
              /\ t.procs[j][k].pid \in DOMAIN t2.entries
              /\ t2.entries[t.procs[j][k].pid] = [jobId |-> i, procOffset |-> k]
        BY Zenon, <1>9a, <1>9c, <1>9d, <3>1
      <4> HIDE DEF t2
      <4> QED BY <4>2, <4>3
    <3>2. CASE i \in DOMAIN t.jobs
      <4> DEFINE x == t.jobs[i]
      <4>1. x \in Job /\ IsAvailable(t, x) /\ t2.jobs[i] = x
        BY <1>9, <1>10, <2>2, <3>2 DEF IsAvailable
      <4>2. /\ LiveOffsets(t, x) # {}
            /\ \A k \in LiveOffsets(t, x) :
                 /\ t.procs[x][k].pid \in DOMAIN t.entries
                 /\ t.entries[t.procs[x][k].pid] = [jobId |-> i, procOffset |-> k]
        BY ZenonT(40), <3>2, <4>1 DEF IndexOK
      <4> HIDE DEF x
      <4> SUFFICES /\ LiveOffsets(t, x) # {}
                   /\ \A k \in LiveOffsets(t, x) :
                        /\ t.procs[x][k].pid \in DOMAIN t2.entries
                        /\ t2.entries[t.procs[x][k].pid] = [jobId |-> i, procOffset |-> k]
        BY ZenonT(40), <1>9, <1>13, <4>1
      <4> QED BY <1>9c, <4>2
    <3> QED BY ZenonT(40), <1>10, <3>1, <3>2
  <2> QED BY ZenonT(40), <2>1, <2>2 DEF IndexOK
<1>15. Attached(t2) = Attached(t) \cup {j}
  BY <1>10 DEF Attached
<1>16. CountOK(t2) /\ MarksOK(t2)
  <2>1. CountOK(t2)
    BY <1>9, <1>9c, <1>11, <1>15 DEF CountOK, IsTerminated, IsAvailable
  <2>2. MarksOK(t2)
    BY <1>9, <1>15 DEF MarksOK, IsControlled
  <2> QED BY <2>1, <2>2
<1>17. TableInv(t2)
  BY <1>9, <1>12, <1>14, <1>16
<1>18. TableInv(t3) /\ SameButMarks(t2, t3) /\ Live(t3) = Live(t2)
  BY ZenonT(40), <1>9, <1>12, <1>14, <1>16, SetCurrentMarks, SameButMarksInv DEF t3
<1>19. \/ u = Disown(t2, j) \/ u = t3 \/ u = [t3 EXCEPT !.toplevel = j]
  BY Zenon DEF Attach, IsAvailable, t2, t1, jobs2, id, t3, u
<1> HIDE DEF TableInv
<1>20. \/ TableInv(u) /\ Live(u) = Live(t2) /\ SameButNames(t2, u)
       \/ TableInv(u) /\ Live(u) = Live(t3) /\ SameButNames(t3, u)
  <2>1. CASE u = Disown(t2, j)
    <3>1. u = [t2 EXCEPT !.disowned = t2.disowned \cup {j}]
      BY <2>1 DEF Disown
    <3>2. t2.disowned \cup {j} \in SUBSET Job
      BY <1>9 DEF TableType
    <3> QED BY Zenon, <1>17, <3>1, <3>2, SetDisowned
  <2>2. CASE u = t3
    BY <1>18, <2>2 DEF SameButNames
  <2>3. CASE u = [t3 EXCEPT !.toplevel = j]
    BY <1>18, <2>3, SetToplevel
  <2> QED BY <1>19, <2>1, <2>2, <2>3
<1>21. /\ TableInv(u) /\ Live(u) = Live(t2)
       /\ u.deletedCount = t2.deletedCount /\ u.procs = t2.procs /\ u.state = t2.state
       /\ u.grouped = t2.grouped /\ u.lastPipe = t2.lastPipe /\ u.jobID = t2.jobID
  BY Zenon, <1>18, <1>20 DEF SameButNames, SameButMarks
<1> HIDE DEF u, t1, t2, t3, ids, jobs2, ents, id, new
<1>22. u.procs = t.procs /\ u.state = t.state /\ u.deletedCount = t.deletedCount
       /\ u.grouped = t.grouped /\ u.lastPipe = t.lastPipe
  BY Zenon, <1>9, <1>21
<1>23. u.jobID[j] # 0 /\ \A x \in Job \ {j} : u.jobID[x] = t.jobID[x]
  <2>1. u.jobID = t2.jobID
    BY Zenon, <1>21
  <2>2. t2.jobID[j] # 0 /\ \A x \in Job \ {j} : t2.jobID[x] = t.jobID[x]
    BY Zenon, <1>1, <1>10
  <2> QED BY Zenon, <2>1, <2>2
<1>24. Live(u) = Live(t) \cup {t.procs[j][k].pid : k \in LiveOffsets(t, j)}
  BY Zenon, <1>11, <1>21 DEF new
<1>25. AttachedAs(t, j, u)
  BY Zenon, <1>21, <1>22, <1>23, <1>24 DEF AttachedAs
<1> QED BY Zenon, <1>25 DEF u

-----------------------------------------------------------------------------
(* Subshells *)

\* loseControlOfJobs (job.h:597-603): the jobs a subshell inherits keep their
\* place in the list, but none of their processes is its own any more.
LEMMA LoseControlInv ==
  ASSUME NEW t, TableInv(t)
  PROVE  LET u == LoseControlOfJobs(t)
         IN  /\ TableInv(u)
             /\ Live(u) = {} /\ u.deletedCount = 0
             /\ u.procs = t.procs /\ u.grouped = t.grouped /\ u.jobID = t.jobID
             /\ \A j \in Job : IsAvailable(u, j) => IsAvailable(t, j) /\ t.jobID[j] = 0
<1> DEFINE u == LoseControlOfJobs(t)
           sts == [j \in Job |-> IF j \in Attached(t) THEN "UNCONTROLLED" ELSE t.state[j]]
           none == [p \in {} |-> [jobId |-> 0, procOffset |-> 0]]
<1> USE DEF TableInv
<1>1. sts \in [Job -> JobState] /\ DOMAIN none = {} /\ IsPartialFcn(none, Pid, Entry)
  BY DEF TableType, JobState, IsPartialFcn
<1>2. u = [t EXCEPT !.state = sts, !.entries = none, !.deletedCount = 0,
                    !.toplevel = NoJob]
  BY DEF LoseControlOfJobs
<1>3. /\ TableType(u) /\ u.state = sts /\ u.entries = none /\ u.deletedCount = 0
      /\ u.jobs = t.jobs /\ u.jobID = t.jobID /\ u.procs = t.procs
      /\ u.cur = t.cur /\ u.prev = t.prev /\ u.lastPipe = t.lastPipe
      /\ u.grouped = t.grouped /\ u.disowned = t.disowned
  <2> HIDE DEF u, sts, none
  <2> QED BY Zenon, <1>1, <1>2 DEF TableType
<1> HIDE DEF u
<1>4. \A j \in Job : u.state[j] = IF j \in Attached(t) THEN "UNCONTROLLED" ELSE t.state[j]
  BY Zenon, <1>3
<1>5. Live(u) = {} /\ DOMAIN u.entries = {} /\ Attached(u) = Attached(t)
  BY <1>3 DEF Live, Attached
<1>6. Attached(t) \subseteq Job /\ \A i \in DOMAIN t.jobs : t.jobs[i] \in Attached(t)
  BY DEF Attached, TableType, IsPartialFcn
<1>7. JobsOK(u)
  BY <1>3 DEF JobsOK
<1>8. IndexOK(u)
  BY Zenon, <1>3, <1>4, <1>5, <1>6 DEF IndexOK, IsAvailable
<1>9. CountOK(u)
  BY <1>4, <1>5, <1>6 DEF CountOK, IsTerminated
<1>10. MarksOK(u)
  <2>1. u.cur = t.cur /\ u.prev = t.prev /\ u.lastPipe = t.lastPipe
    BY <1>3
  <2>2. \A j \in {t.cur, t.prev} \ {NoJob} : j \in Job
    BY DEF TableType
  <2>3. \A j \in {t.cur, t.prev} \ {NoJob} :
          j \in Attached(u) \/ (~IsControlled(u, j) /\ j \in u.disowned)
    BY Zenon, <1>3, <1>4, <1>5, <2>2 DEF MarksOK, IsControlled
  <2> QED BY <2>1, <2>3 DEF MarksOK
<1>11. \A j \in Job : IsAvailable(u, j) => IsAvailable(t, j) /\ t.jobID[j] = 0
  <2>1. \A j \in Job : j \in Attached(t) <=> t.jobID[j] # 0
    BY AttachedId
  <2> QED BY <1>4, <2>1 DEF IsAvailable
<1> QED BY <1>3, <1>5, <1>7, <1>8, <1>9, <1>10, <1>11 DEF u

-----------------------------------------------------------------------------
(* What the methods do to a table, named *)

\* From t to u by a wait result for p.
Updated(t, p, kind, u) ==
  /\ UpdateAssertions(t, p) /\ TableInv(u) /\ SameProcs(t, u)
  /\ u.jobs = t.jobs /\ u.toplevel = t.toplevel
  /\ u.grouped = t.grouped /\ u.lastPipe = t.lastPipe

\* updateProcState (job.cpp:683-701).
LEMMA UpdateNamed ==
  ASSUME NEW t, TableInv(t), NEW p \in Live(t), NEW kind \in WaitKind,
         NEW notify \in BOOLEAN
  PROVE  Updated(t, p, kind, UpdateProcState(t, p, kind, notify))
BY SMTT(30), UpdateInv DEF Updated

\* JobObject::create (job.h:254-275).
LEMMA CreateNamed ==
  ASSUME NEW t, NEW j, NEW n, NEW pids, NewJob(t, j, n, pids),
         NEW lp \in BOOLEAN, NEW g \in BOOLEAN
  PROVE  Created(t, j, n, pids, g, Create(t, j, pids, lp, g))
<1>1. TableInv(t) /\ j \in Job /\ j \notin Attached(t) /\ j \notin {t.cur, t.prev}
  BY Zenon DEF NewJob
<1>2. n \in Nat /\ pids \in [1..n -> Pid]
  BY Zenon DEF NewJob
<1> QED BY Zenon, <1>1, <1>2, CreateInv

\* JobTable::attach (job.cpp:522-539).
LEMMA AttachNamed ==
  ASSUME NEW t, NEW j \in Job, Attachable(t, j), NEW disown \in BOOLEAN
  PROVE  AttachedAs(t, j, Attach(t, j, disown))
<1>1. /\ TableInv(t) /\ t.jobID[j] = 0 /\ DOMAIN t.jobs # JobId
      /\ IsAvailable(t, j) /\ LiveOffsets(t, j) # {}
  BY Zenon DEF Attachable
<1>2. /\ \A a, b \in LiveOffsets(t, j) : t.procs[j][a].pid = t.procs[j][b].pid => a = b
      /\ \A k \in LiveOffsets(t, j) : t.procs[j][k].pid \notin DOMAIN t.entries
  BY Zenon DEF Attachable
<1> QED BY Zenon, <1>1, <1>2, AttachInv

-----------------------------------------------------------------------------
(* The table and the kernel's processes *)

\* The live processes of a job with a group of its own are in that group.
Group(t, kg) ==
  \A j \in t.grouped : IsAvailable(t, j) =>
    \A k \in LiveOffsets(t, j) : kg[t.procs[j][k].pid] = t.procs[j][1].pid

LivePids(t, j) == {t.procs[j][k].pid : k \in LiveOffsets(t, j)}

\* The table when every child is in it; ks and kg are the kernel's process
\* states and process groups.
Settled(t, ks, kg) ==
  /\ TableInv(t)
  /\ \A p \in Pid : ks[p] # "none" <=> p \in Live(t)
  /\ \A j \in Job : IsAvailable(t, j) => t.jobID[j] # 0
  /\ Group(t, kg)

\* The table when the job j has been forked and is not attached yet: its live
\* processes have pids of their own without an entry, and there is room for it.
Forked(t, j, ks, kg) ==
  /\ TableInv(t)
  /\ t.jobID[j] = 0 /\ IsControlled(t, j) /\ DOMAIN t.jobs # JobId
  /\ IsAvailable(t, j) =>
       /\ LiveOffsets(t, j) # {}
       /\ \A a, b \in LiveOffsets(t, j) :
            t.procs[j][a].pid = t.procs[j][b].pid => a = b
       /\ \A k \in LiveOffsets(t, j) : t.procs[j][k].pid \notin DOMAIN t.entries
  /\ \A p \in Pid :
       ks[p] # "none" <=> p \in Live(t) \/ (IsAvailable(t, j) /\ p \in LivePids(t, j))
  /\ \A x \in Job : IsAvailable(t, x) /\ t.jobID[x] = 0 => x = j
  /\ Group(t, kg)

\* Operations that neither touch a process nor drop an available job.
LEMMA SettledSame ==
  ASSUME NEW t, NEW ks, NEW kg, Settled(t, ks, kg),
         NEW u, TableInv(u), Live(u) = Live(t),
         u.procs = t.procs, u.state = t.state, u.grouped = t.grouped,
         \A j \in Job : t.jobID[j] # 0 /\ IsAvailable(t, j) => u.jobID[j] # 0
  PROVE  Settled(u, ks, kg)
<1>1. Group(u, kg)
  BY DEF Settled, Group, IsAvailable, LiveOffsets
<1>2. \A j \in Job : IsAvailable(u, j) => u.jobID[j] # 0
  BY DEF Settled, IsAvailable
<1> QED BY <1>1, <1>2 DEF Settled

\* An available job of a settled table has a live process, each of its live
\* processes is a child, and it has a first process.
LEMMA SettledLive ==
  ASSUME NEW t, NEW ks, NEW kg, Settled(t, ks, kg), NEW j \in Job, IsAvailable(t, j)
  PROVE  /\ j \in Attached(t)
         /\ LiveOffsets(t, j) # {}
         /\ \A k \in LiveOffsets(t, j) :
              t.procs[j][k].pid \in Live(t) /\ t.procs[j][k].pid \in Pid
         /\ t.procs[j][1].pid \in Pid
<1> DEFINE i == t.jobID[j]
<1>1. i \in DOMAIN t.jobs /\ t.jobs[i] = j /\ i # 0
  BY DEF Settled, TableInv, JobsOK
<1> HIDE DEF i
<1>2. /\ LiveOffsets(t, j) # {}
      /\ \A k \in LiveOffsets(t, j) :
           /\ t.procs[j][k].pid \in DOMAIN t.entries
           /\ t.entries[t.procs[j][k].pid] = [jobId |-> i, procOffset |-> k]
  <2>1. IndexOK(t)
    BY DEF Settled, TableInv
  <2> QED BY Zenon, <1>1, <2>1 DEF IndexOK
<1>4. ASSUME NEW k \in LiveOffsets(t, j)
      PROVE  t.procs[j][k].pid \in Live(t) /\ t.procs[j][k].pid \in Pid
  <2> DEFINE p == t.procs[j][k].pid
  <2>1. p \in DOMAIN t.entries /\ t.entries[p] = [jobId |-> i, procOffset |-> k]
    BY Zenon, <1>2
  <2>2. DOMAIN t.entries \subseteq Pid
    BY DEF Settled, TableInv, TableType, IsPartialFcn
  <2> HIDE DEF p
  <2>3. t.entries[p].jobId # 0
    BY <1>1, <2>1
  <2>4. p \in Live(t) /\ p \in Pid
    BY <2>1, <2>2, <2>3 DEF Live, IsDeleted
  <2> QED BY Zenon, <2>4 DEF p
<1>5. t.procs[j] \in Seq(Proc) /\ LiveOffsets(t, j) \subseteq DOMAIN t.procs[j]
  BY DEF Settled, TableInv, TableType, LiveOffsets
<1>6. 1 \in DOMAIN t.procs[j]
  <2>1. PICK k \in LiveOffsets(t, j) : TRUE
    BY <1>2
  <2> QED BY <1>5, <2>1
<1>7. t.procs[j][1] \in Proc
  BY SMTT(30), <1>5, <1>6, ElementOfSeq
<1> QED BY <1>1, <1>2, <1>4, <1>7 DEF Proc, Attached

\* A wait result for a child of a settled shell.
LEMMA SettledUpdate ==
  ASSUME NEW t, NEW ks, NEW kg, Settled(t, ks, kg),
         NEW p \in Live(t), NEW kind \in WaitKind, NEW notify \in BOOLEAN,
         NEW ks2, NEW kg2,
         \A q \in Pid : ks2[q] # "none" <=> ks[q] # "none" /\ (kind = "EXITED" => q # p),
         \A q \in Pid : kind # "EXITED" \/ q # p => kg2[q] = kg[q]
  PROVE  Settled(UpdateProcState(t, p, kind, notify), ks2, kg2)
<1> DEFINE u == UpdateProcState(t, p, kind, notify)
<1>1. /\ TableInv(u)
      /\ Live(u) = IF kind = "EXITED" THEN Live(t) \ {p} ELSE Live(t)
      /\ u.jobs = t.jobs /\ u.jobID = t.jobID /\ u.grouped = t.grouped
      /\ SameProcs(t, u)
      /\ \A j \in Job : IsAvailable(u, j) => IsAvailable(t, j)
  <2>1. TableInv(t)
    BY Zenon DEF Settled
  <2> QED BY SMTT(30), <2>1, UpdateInv
<1> HIDE DEF u
<1>2. \A q \in Pid : ks2[q] # "none" <=> q \in Live(u)
  BY <1>1 DEF Settled
<1>3. \A j \in Job : IsAvailable(u, j) => u.jobID[j] # 0
  BY Zenon, <1>1 DEF Settled
<1>4. Group(u, kg2)
  <2> SUFFICES ASSUME NEW j \in u.grouped, IsAvailable(u, j),
                      NEW k \in LiveOffsets(u, j)
               PROVE  kg2[u.procs[j][k].pid] = u.procs[j][1].pid
    BY DEF Group
  <2>1. j \in Job /\ j \in t.grouped /\ IsAvailable(t, j)
    BY Zenon, <1>1 DEF Settled, TableInv, TableType
  <2>2. /\ k \in LiveOffsets(t, j) /\ k \in DOMAIN t.procs[j]
        /\ u.procs[j][k].pid = t.procs[j][k].pid
    BY Zenon, <1>1, <2>1 DEF SameProcs, LiveOffsets
  <2>3. 1 \in DOMAIN t.procs[j] /\ u.procs[j][1].pid = t.procs[j][1].pid
    <3>1. t.procs[j] \in Seq(Proc)
      BY <2>1 DEF Settled, TableInv, TableType
    <3>2. 1 \in DOMAIN t.procs[j]
      BY <2>2, <3>1
    <3> QED BY <1>1, <2>1, <3>2 DEF SameProcs
  <2>4. u.procs[j][k].pid \in Live(u) /\ u.procs[j][k].pid \in Pid
    <3> DEFINE i == u.jobID[j]
    <3>1. i \in DOMAIN u.jobs /\ u.jobs[i] = j /\ i # 0
      BY <1>1, <1>3, <2>1 DEF TableInv, JobsOK
    <3> HIDE DEF i
    <3>2. /\ u.procs[j][k].pid \in DOMAIN u.entries
          /\ u.entries[u.procs[j][k].pid] = [jobId |-> i, procOffset |-> k]
      <4>1. IndexOK(u)
        BY Zenon, <1>1 DEF TableInv
      <4> QED BY ZenonT(40), <3>1, <4>1 DEF IndexOK
    <3> DEFINE q == u.procs[j][k].pid
    <3>3. DOMAIN u.entries \subseteq Pid
      BY <1>1 DEF TableInv, TableType, IsPartialFcn
    <3> HIDE DEF q
    <3>4. q \in DOMAIN u.entries /\ u.entries[q].jobId # 0
      BY <3>1, <3>2 DEF q
    <3>5. q \in Live(u) /\ q \in Pid
      BY Zenon, <3>3, <3>4 DEF Live, IsDeleted
    <3> QED BY Zenon, <3>5 DEF q
  <2>5. kg[t.procs[j][k].pid] = t.procs[j][1].pid
    BY <2>1, <2>2 DEF Settled, Group
  <2> QED BY Zenon, <1>1, <2>2, <2>3, <2>4, <2>5
<1> QED BY Zenon, <1>1, <1>2, <1>3, <1>4 DEF Settled, u

\* Operations that only move the current and the previous job.
LEMMA SettledMarks ==
  ASSUME NEW t, NEW ks, NEW kg, Settled(t, ks, kg),
         NEW u, TableType(u), SameButMarks(t, u), MarksOK(u)
  PROVE  Settled(u, ks, kg) /\ u.deletedCount = t.deletedCount
<1>1. TableInv(u) /\ Live(u) = Live(t)
  BY SameButMarksInv DEF Settled, TableInv
<1>2. /\ u.procs = t.procs /\ u.state = t.state /\ u.grouped = t.grouped
      /\ u.jobID = t.jobID /\ u.deletedCount = t.deletedCount
  BY DEF SameButMarks
<1> QED BY Zenon, <1>1, <1>2, SettledSame

\* syncAndGetCurPrevJobs and removeTerminatedJobs.
LEMMA SettledSyncRemove ==
  ASSUME NEW t, NEW ks, NEW kg, Settled(t, ks, kg)
  PROVE  /\ Settled(SyncCurPrev(t), ks, kg)
         /\ SyncCurPrev(t).deletedCount = t.deletedCount
         /\ Settled(RemoveTerminatedJobs(t), ks, kg)
         /\ RemoveTerminatedJobs(t).deletedCount = 0
<1>0. TableInv(t) /\ TableType(t) /\ JobsOK(t) /\ MarksOK(t)
  BY DEF Settled, TableInv
<1>1. Settled(SyncCurPrev(t), ks, kg) /\ SyncCurPrev(t).deletedCount = t.deletedCount
  BY <1>0, SyncMarks, SettledMarks
<1>2. Settled(RemoveTerminatedJobs(t), ks, kg) /\ RemoveTerminatedJobs(t).deletedCount = 0
  <2> DEFINE u == RemoveTerminatedJobs(t)
  <2>1. /\ TableInv(u) /\ Live(u) = Live(t) /\ u.deletedCount = 0
        /\ u.procs = t.procs /\ u.state = t.state /\ u.grouped = t.grouped
        /\ \A x \in Job : t.jobID[x] # 0 /\ IsAvailable(t, x) => u.jobID[x] # 0
    BY <1>0, RemoveInv
  <2> HIDE DEF u
  <2>2. Settled(u, ks, kg)
    BY <2>1, SettledSame
  <2> QED BY Zenon, <2>1, <2>2 DEF u
<1> QED BY <1>1, <1>2

\* setCurrentJob, disown and removeToplevelLastPipeJobIfSame.
LEMMA SettledOps ==
  ASSUME NEW t, NEW ks, NEW kg, Settled(t, ks, kg), NEW j \in Job
  PROVE  /\ Settled(SetCurrentJob(t, j), ks, kg)
         /\ SetCurrentJob(t, j).deletedCount = t.deletedCount
         /\ Settled(Disown(t, j), ks, kg)
         /\ Disown(t, j).deletedCount = t.deletedCount
         /\ Settled(RemoveToplevelIfSame(t, j), ks, kg)
         /\ RemoveToplevelIfSame(t, j).deletedCount = t.deletedCount
<1>0. TableInv(t) /\ TableType(t) /\ JobsOK(t) /\ MarksOK(t)
  BY Zenon DEF Settled, TableInv
<1>2. ASSUME NEW u, TableInv(u), Live(u) = Live(t), SameButNames(t, u)
      PROVE  Settled(u, ks, kg) /\ u.deletedCount = t.deletedCount
  <2>1. /\ u.procs = t.procs /\ u.state = t.state /\ u.grouped = t.grouped
        /\ u.jobID = t.jobID /\ u.deletedCount = t.deletedCount
    BY <1>2 DEF SameButNames
  <2> QED BY <1>2, <2>1, SettledSame
<1>3. /\ Settled(SetCurrentJob(t, j), ks, kg)
      /\ SetCurrentJob(t, j).deletedCount = t.deletedCount
  BY <1>0, SetCurrentMarks, SettledMarks
<1>4. Settled(Disown(t, j), ks, kg) /\ Disown(t, j).deletedCount = t.deletedCount
  <2> DEFINE x == t.disowned \cup {j}
  <2>1. x \in SUBSET Job /\ t.disowned \subseteq x /\ Disown(t, j) = [t EXCEPT !.disowned = x]
    BY <1>0 DEF TableType, Disown
  <2> HIDE DEF x
  <2> QED BY <1>0, <1>2, <2>1, SetDisowned
<1>5. /\ Settled(RemoveToplevelIfSame(t, j), ks, kg)
      /\ RemoveToplevelIfSame(t, j).deletedCount = t.deletedCount
  <2>1. CASE t.toplevel = j
    <3>1. RemoveToplevelIfSame(t, j) = [t EXCEPT !.toplevel = NoJob]
      BY <2>1 DEF RemoveToplevelIfSame
    <3> QED BY <1>0, <1>2, <3>1, SetToplevel
  <2>2. CASE t.toplevel # j
    BY Zenon, <2>2 DEF RemoveToplevelIfSame
  <2> QED BY <2>1, <2>2
<1> QED BY Zenon, <1>3, <1>4, <1>5

\* The pids of the processes of a new job.
FreshPids(ks, n, pids) ==
  /\ pids \in [1..n -> Pid]
  /\ \A a, b \in 1..n : a # b => pids[a] # pids[b]
  /\ \A k \in 1..n : ks[pids[k]] = "none"

\* The kernel after they have been forked, in a group of their own if g.
ForkedKernel(ks, kg, n, pids, g, ks2, kg2) ==
  /\ \A p \in Pid : ks2[p] # "none" <=> ks[p] # "none" \/ \E k \in 1..n : p = pids[k]
  /\ \A p \in Pid : (\A k \in 1..n : p # pids[k]) => kg2[p] = kg[p]
  /\ g => \A k \in 1..n : kg2[pids[k]] = pids[1]

\* A table and a job object j ready for n new processes.
ForkReady(t, ks, kg, j, n, pids) ==
  /\ Settled(t, ks, kg) /\ t.deletedCount = 0 /\ DOMAIN t.jobs # JobId
  /\ j \in Job /\ j \notin Attached(t) /\ j \notin {t.cur, t.prev}
  /\ n \in Nat \ {0} /\ FreshPids(ks, n, pids)

\* Forking the processes of a new job.
LEMMA ForkNamed ==
  ASSUME NEW t, NEW ks, NEW kg, NEW j, NEW n, NEW pids, ForkReady(t, ks, kg, j, n, pids),
         NEW lp \in BOOLEAN, NEW g \in BOOLEAN, NEW ks2, NEW kg2,
         ForkedKernel(ks, kg, n, pids, g, ks2, kg2)
  PROVE  /\ Forked(Create(t, j, pids, lp, g), j, ks2, kg2)
         /\ Create(t, j, pids, lp, g).deletedCount = 0
<1>0. /\ Settled(t, ks, kg) /\ t.deletedCount = 0 /\ DOMAIN t.jobs # JobId
      /\ j \in Job /\ j \notin Attached(t) /\ j \notin {t.cur, t.prev}
      /\ n \in Nat \ {0} /\ FreshPids(ks, n, pids)
  BY Zenon DEF ForkReady
<1> USE <1>0
<1> DEFINE u == Create(t, j, pids, lp, g)
<1>1. /\ pids \in [1..n -> Pid]
      /\ \A a, b \in 1..n : a # b => pids[a] # pids[b]
      /\ \A k \in 1..n : ks[pids[k]] = "none"
  BY DEF FreshPids
<1>2. /\ \A p \in Pid : ks2[p] # "none" <=> ks[p] # "none" \/ \E k \in 1..n : p = pids[k]
      /\ \A p \in Pid : (\A k \in 1..n : p # pids[k]) => kg2[p] = kg[p]
      /\ g => \A k \in 1..n : kg2[pids[k]] = pids[1]
  BY DEF ForkedKernel
<1>3. TableInv(t)
  BY Zenon DEF Settled
<1>4. NewJob(t, j, n, pids)
  BY <1>3, <1>1 DEF NewJob
<1>5. Created(t, j, n, pids, g, u)
  BY Zenon, <1>4, CreateNamed
<1> HIDE DEF u
<1>6. /\ TableInv(u) /\ Live(u) = Live(t)
      /\ u.jobs = t.jobs /\ u.entries = t.entries
      /\ u.deletedCount = t.deletedCount /\ u.toplevel = t.toplevel
      /\ u.jobID = t.jobID /\ u.jobID[j] = 0
      /\ IsAvailable(u, j)
      /\ DOMAIN u.procs[j] = 1..n /\ LiveOffsets(u, j) = 1..n
  BY Zenon, <1>5 DEF Created
<1>7. /\ \A x \in Job \ {j} : /\ u.state[x] = t.state[x]
                              /\ u.procs[x] = t.procs[x]
                              /\ x \in u.grouped <=> x \in t.grouped
      /\ j \in u.grouped <=> g
      /\ \A k \in 1..n : u.procs[j][k].pid = pids[k]
  BY Zenon, <1>5 DEF Created
<1>8. \A k \in 1..n : pids[k] \notin DOMAIN t.entries
  <2>1. Live(t) = DOMAIN t.entries
    BY Zenon, <1>3 DEF TableInv, CountOK
  <2>2. \A k \in 1..n : pids[k] \in Pid /\ ks[pids[k]] = "none"
    BY Zenon, <1>1
  <2> QED BY ZenonT(40), <2>1, <2>2 DEF Settled
<1>9. \A p \in Pid : p \in LivePids(u, j) <=> \E k \in 1..n : p = pids[k]
  <2>1. LivePids(u, j) = {u.procs[j][k].pid : k \in 1..n}
    BY Zenon, <1>6 DEF LivePids
  <2>2. \A k \in 1..n : u.procs[j][k].pid = pids[k]
    BY Zenon, <1>7
  <2>3. ASSUME NEW p \in LivePids(u, j) PROVE \E k \in 1..n : p = pids[k]
    <3>1. PICK k \in 1..n : p = u.procs[j][k].pid
      BY Zenon, <2>1
    <3> QED BY Zenon, <2>2, <3>1
  <2>4. ASSUME NEW k \in 1..n PROVE pids[k] \in LivePids(u, j)
    BY Zenon, <2>1, <2>2
  <2> QED BY Zenon, <2>3, <2>4
<1>10. IsControlled(u, j)
  BY Zenon, <1>6 DEF IsControlled, IsAvailable
<1>11. \A p \in Pid :
        ks2[p] # "none" <=> p \in Live(u) \/ (IsAvailable(u, j) /\ p \in LivePids(u, j))
  BY Zenon, <1>6, <1>9, <1>2 DEF Settled
<1>12. \A x \in Job : IsAvailable(u, x) /\ u.jobID[x] = 0 => x = j
  BY Zenon, <1>6, <1>7 DEF Settled, IsAvailable
<1>13. Group(u, kg2)
  <2> SUFFICES ASSUME NEW x \in u.grouped, IsAvailable(u, x),
                      NEW k \in LiveOffsets(u, x)
               PROVE  kg2[u.procs[x][k].pid] = u.procs[x][1].pid
    BY DEF Group
  <2>1. x \in Job
    BY Zenon, <1>6 DEF TableInv, TableType
  <2>2. CASE x = j
    <3>1. k \in 1..n /\ g
      BY Zenon, <1>6, <1>7, <2>2
    <3>2. 1 \in 1..n
      OBVIOUS
    <3>3. u.procs[j][k].pid = pids[k] /\ u.procs[j][1].pid = pids[1]
      BY Zenon, <1>7, <3>1, <3>2
    <3>4. kg2[pids[k]] = pids[1]
      BY ZenonT(40), <1>2, <3>1
    <3> QED BY Zenon, <2>2, <3>3, <3>4
  <2>3. CASE x # j
    <3>1. x \in t.grouped /\ IsAvailable(t, x) /\ u.procs[x] = t.procs[x]
      BY Zenon, <1>7, <2>1, <2>3 DEF IsAvailable
    <3>2. k \in LiveOffsets(t, x)
      BY <3>1 DEF LiveOffsets
    <3>3. t.procs[x][k].pid \in Live(t) /\ t.procs[x][k].pid \in Pid
      BY ZenonT(30), <2>1, <3>1, <3>2, SettledLive
    <3>4. \A o \in 1..n : t.procs[x][k].pid # pids[o]
      BY <1>8, <3>3 DEF Live
    <3>5. kg2[t.procs[x][k].pid] = kg[t.procs[x][k].pid]
      BY ZenonT(40), <1>2, <3>3, <3>4
    <3>6. kg[t.procs[x][k].pid] = t.procs[x][1].pid
      BY Zenon, <3>1, <3>2 DEF Settled, Group
    <3> QED BY Zenon, <3>1, <3>5, <3>6
  <2> QED BY Zenon, <2>2, <2>3
<1>14. /\ LiveOffsets(u, j) # {}
      /\ \A a, b \in LiveOffsets(u, j) : u.procs[j][a].pid = u.procs[j][b].pid => a = b
      /\ \A k \in LiveOffsets(u, j) : u.procs[j][k].pid \notin DOMAIN u.entries
  <2>1. 1 \in 1..n
    OBVIOUS
  <2>2. LiveOffsets(u, j) = 1..n /\ u.entries = t.entries
    BY <1>6
  <2>3. \A k \in 1..n : u.procs[j][k].pid = pids[k]
    BY <1>7
  <2>4. \A a, b \in 1..n : u.procs[j][a].pid = u.procs[j][b].pid => a = b
    BY <1>1, <2>3
  <2>5. \A k \in 1..n : u.procs[j][k].pid \notin DOMAIN u.entries
    BY ZenonT(30), <1>8, <2>2, <2>3
  <2> QED BY ZenonT(30), <2>1, <2>2, <2>4, <2>5
<1>15. Forked(u, j, ks2, kg2)
  BY ZenonT(30), <1>6, <1>10, <1>11, <1>12, <1>13, <1>14 DEF Forked
<1> QED BY Zenon, <1>6, <1>15 DEF u

\* Attaching it, unless it has terminated.
LEMMA ForkedAttach ==
  ASSUME NEW t, NEW ks, NEW kg, NEW j \in Job, Forked(t, j, ks, kg),
         NEW disown \in BOOLEAN
  PROVE  /\ Settled(Attach(t, j, disown), ks, kg)
         /\ Attach(t, j, disown).deletedCount = t.deletedCount
<1> DEFINE u == Attach(t, j, disown)
<1>1. CASE IsAvailable(t, j)
  <2>1. /\ TableInv(u) /\ Live(u) = Live(t) \cup LivePids(t, j)
        /\ u.deletedCount = t.deletedCount
        /\ u.procs = t.procs /\ u.state = t.state /\ u.grouped = t.grouped
        /\ u.jobID[j] # 0 /\ \A x \in Job \ {j} : u.jobID[x] = t.jobID[x]
    <3>1. Attachable(t, j)
      BY Zenon, <1>1 DEF Forked, Attachable
    <3>2. AttachedAs(t, j, u)
      BY Zenon, <3>1, AttachNamed
    <3> HIDE DEF u
    <3> QED BY Zenon, <3>2 DEF AttachedAs, LivePids
  <2> HIDE DEF u
  <2>2. \A p \in Pid : ks[p] # "none" <=> p \in Live(u)
    BY ZenonT(40), <1>1, <2>1 DEF Forked
  <2>a. \A x \in Job : /\ IsAvailable(u, x) <=> IsAvailable(t, x)
                       /\ LiveOffsets(u, x) = LiveOffsets(t, x)
    BY Zenon, <2>1 DEF IsAvailable, LiveOffsets
  <2>3. \A x \in Job : IsAvailable(u, x) => u.jobID[x] # 0
    <3>1. \A x \in Job \ {j} : IsAvailable(t, x) => t.jobID[x] # 0
      BY Zenon DEF Forked
    <3> QED BY Zenon, <2>1, <2>a, <3>1
  <2>4. Group(u, kg)
    <3>1. Group(t, kg)
      BY Zenon DEF Forked
    <3>2. t.grouped \subseteq Job
      BY Zenon DEF Forked, TableInv, TableType
    <3> QED BY ZenonT(40), <2>1, <2>a, <3>1, <3>2 DEF Group
  <2>5. Settled(u, ks, kg)
    BY Zenon, <2>1, <2>2, <2>3, <2>4 DEF Settled
  <2> QED BY ZenonT(30), <2>1, <2>5 DEF u
<1>2. CASE ~IsAvailable(t, j)
  <2>1. u = t
    BY <1>2 DEF Attach
  <2>2. Settled(t, ks, kg)
    BY <1>2 DEF Forked, Settled
  <2> QED BY <2>1, <2>2
<1> QED BY <1>1, <1>2

\* Process k of job j, which is being forked, is reported as kind: what ForkedWait
\* asks of the processes of the kernel before (ks, kg) and after it (ks2, kg2).
WaitedFor(t, j, k, kind, ks, kg, ks2, kg2) ==
  /\ j \in Job /\ Forked(t, j, ks, kg) /\ IsAvailable(t, j)
  /\ k \in LiveOffsets(t, j) /\ kind \in WaitKind
  /\ \A q \in Pid : ks2[q] # "none" <=>
                     ks[q] # "none" /\ (kind = "EXITED" => q # t.procs[j][k].pid)
  /\ \A q \in Pid : kind # "EXITED" \/ q # t.procs[j][k].pid => kg2[q] = kg[q]

\* What it shows of the table t1 with the new state and of u, the updated job's.
Waited(t, j, k, kind, ks2, kg2, t1, u) ==
  /\ Forked(u, j, ks2, kg2)
  /\ u.deletedCount = t.deletedCount
  /\ LiveOffsets(t1, j) # {} => u = t1
  /\ DOMAIN t1.procs[j] = DOMAIN t.procs[j]
  /\ LiveOffsets(t1, j) =
       IF kind = "EXITED" THEN LiveOffsets(t, j) \ {k} ELSE LiveOffsets(t, j)
  /\ IsAvailable(t1, j)

\* Waiting for one of its processes (Proc::wait, job.cpp:430-452).
LEMMA ForkedWait ==
  ASSUME NEW t, NEW ks, NEW kg, NEW j, NEW k, NEW kind, NEW ks2, NEW kg2,
         WaitedFor(t, j, k, kind, ks, kg, ks2, kg2)
  PROVE  Waited(t, j, k, kind, ks2, kg2, SetProcState(t, j, k, kind),
                UpdateJob(SetProcState(t, j, k, kind), j))
<1> USE DEF WaitedFor
<1> DEFINE p == t.procs[j][k].pid
           t1 == SetProcState(t, j, k, kind)
           ps == [t.procs[j] EXCEPT ![k] = UpdateProc(@, kind)]
           prs == [t.procs EXCEPT ![j] = ps]
           sts == [t.state EXCEPT ![j] = "TERMINATED"]
           u  == UpdateJob(t1, j)
<1>0. TableInv(t) /\ TableType(t)
  BY Zenon DEF Forked, TableInv
<1>1. /\ t.procs[j] \in Seq(Proc)
      /\ k \in DOMAIN t.procs[j] /\ t.procs[j][k].state # "TERMINATED"
  BY Zenon, <1>0 DEF LiveOffsets, TableType
<1>2. t.procs[j][k] \in Proc /\ p \in Pid
  <2>1. t.procs[j][k] \in Proc
    BY <1>1, ElementOfSeq
  <2> QED BY <2>1 DEF Proc
<1>3. /\ UpdateProc(t.procs[j][k], kind) \in Proc
      /\ UpdateProc(t.procs[j][k], kind).pid = p
      /\ UpdateProc(t.procs[j][k], kind).state = "TERMINATED" <=> kind = "EXITED"
  BY <1>1, <1>2 DEF UpdateProc, Proc, ProcState, WaitKind
<1>4. /\ ps \in Seq(Proc) /\ DOMAIN ps = DOMAIN t.procs[j]
      /\ ps[k] = UpdateProc(t.procs[j][k], kind)
      /\ \A o \in DOMAIN ps : o # k => ps[o] = t.procs[j][o]
  BY <1>1, <1>3, SetProc
<1>5. prs \in [Job -> Seq(Proc)] /\ prs[j] = ps /\ \A x \in Job \ {j} : prs[x] = t.procs[x]
  <2> HIDE DEF ps
  <2> QED BY <1>0, <1>4 DEF TableType
<1>6. sts \in [Job -> JobState] /\ \A x \in Job \ {j} : sts[x] = t.state[x]
  BY <1>0 DEF TableType, JobState
<1>7. t1 = [t EXCEPT !.procs = prs]
  BY DEF SetProcState
<1> HIDE DEF t1, ps, prs
<1>8. /\ TableType(t1) /\ t1.procs = prs /\ t1.state = t.state
      /\ t1.jobs = t.jobs /\ t1.entries = t.entries /\ t1.deletedCount = t.deletedCount
      /\ t1.cur = t.cur /\ t1.prev = t.prev /\ t1.jobID = t.jobID
      /\ t1.lastPipe = t.lastPipe /\ t1.grouped = t.grouped /\ t1.disowned = t.disowned
  BY Zenon, <1>0, <1>5, <1>7 DEF TableType
<1>9. /\ DOMAIN t1.procs[j] = DOMAIN t.procs[j]
      /\ \A o \in DOMAIN t.procs[j] : t1.procs[j][o].pid = t.procs[j][o].pid
      /\ LiveOffsets(t1, j) =
           IF kind = "EXITED" THEN LiveOffsets(t, j) \ {k} ELSE LiveOffsets(t, j)
      /\ IsAvailable(t1, j)
  <2>1. t1.procs[j] = ps
    BY <1>5, <1>8
  <2>2. \A o \in DOMAIN t.procs[j] : ps[o].pid = t.procs[j][o].pid
    BY ZenonT(30), <1>3, <1>4
  <2>3. LiveOffsets(t1, j) =
           IF kind = "EXITED" THEN LiveOffsets(t, j) \ {k} ELSE LiveOffsets(t, j)
    <3>1. \A o \in DOMAIN ps : ps[o].state # "TERMINATED" <=>
            IF o = k THEN kind # "EXITED" ELSE t.procs[j][o].state # "TERMINATED"
      BY Zenon, <1>3, <1>4
    <3>2. CASE kind = "EXITED"
      BY Zenon, <1>1, <1>4, <2>1, <3>1, <3>2 DEF LiveOffsets
    <3>3. CASE kind # "EXITED"
      BY Zenon, <1>1, <1>4, <2>1, <3>1, <3>3 DEF LiveOffsets
    <3> QED BY Zenon, <3>2, <3>3
  <2> QED BY ZenonT(30), <1>4, <1>8, <2>1, <2>2, <2>3 DEF IsAvailable
<1>10. u = IF LiveOffsets(t1, j) = {} THEN [t1 EXCEPT !.state = sts] ELSE t1
  BY <1>8, <1>9 DEF UpdateJob
<1> HIDE DEF u, sts
<1>11. /\ TableType(u) /\ u.procs = prs
       /\ u.state = IF LiveOffsets(t1, j) = {} THEN sts ELSE t.state
       /\ u.jobs = t.jobs /\ u.entries = t.entries /\ u.deletedCount = t.deletedCount
       /\ u.cur = t.cur /\ u.prev = t.prev /\ u.jobID = t.jobID
       /\ u.lastPipe = t.lastPipe /\ u.grouped = t.grouped /\ u.disowned = t.disowned
  <2>1. CASE LiveOffsets(t1, j) # {}
    BY <1>8, <1>10, <2>1
  <2>2. CASE LiveOffsets(t1, j) = {}
    <3>1. u = [t1 EXCEPT !.state = sts]
      BY ZenonT(30), <1>10, <2>2
    <3> QED BY SMTT(60), <1>6, <1>8, <2>2, <3>1, SetStates
  <2> QED BY <2>1, <2>2
<1>12. /\ DOMAIN u.procs[j] = DOMAIN t.procs[j]
       /\ \A o \in DOMAIN t.procs[j] : u.procs[j][o].pid = t.procs[j][o].pid
       /\ LiveOffsets(u, j) = LiveOffsets(t1, j)
       /\ LiveOffsets(u, j) \subseteq LiveOffsets(t, j)
  <2>1. u.procs = t1.procs
    BY Zenon, <1>8, <1>11
  <2>2. LiveOffsets(u, j) = LiveOffsets(t1, j)
    BY ZenonT(40), <2>1 DEF LiveOffsets
  <2>3. LiveOffsets(t1, j) \subseteq LiveOffsets(t, j)
    BY <1>9
  <2> QED BY ZenonT(40), <1>9, <2>1, <2>2, <2>3
<1>13. \A x \in Job \ {j} : /\ u.state[x] = t.state[x] /\ u.procs[x] = t.procs[x]
                            /\ LiveOffsets(u, x) = LiveOffsets(t, x)
  <2>1. \A x \in Job \ {j} : u.state[x] = t.state[x] /\ u.procs[x] = t.procs[x]
    BY Zenon, <1>5, <1>6, <1>11
  <2> QED BY ZenonT(60), <2>1 DEF LiveOffsets
<1>14. (IsAvailable(u, j) <=> LiveOffsets(u, j) # {}) /\ IsControlled(u, j)
  <2>1. u.state[j] = IF LiveOffsets(u, j) = {} THEN "TERMINATED" ELSE "AVAILABLE"
    <3>1. sts[j] = "TERMINATED" /\ t.state[j] = "AVAILABLE"
      BY ZenonT(30), <1>0 DEF sts, TableType, IsAvailable
    <3> QED BY Zenon, <1>11, <1>12, <3>1
  <2> QED BY <2>1 DEF IsAvailable, IsControlled
<1>15. TableInv(u) /\ Live(u) = Live(t)
  <2>1. t.jobID[j] = 0 /\ u.jobID[j] = 0
    BY Zenon, <1>11 DEF Forked
  <2>2. j \notin Attached(t)
    BY ZenonT(30), <1>0, <2>1, AttachedId DEF TableInv
  <2>3. j \notin {t.cur, t.prev}
    BY Zenon, <1>0, <2>2, JobAssumption DEF TableInv, MarksOK, Forked
  <2>4. \A x \in Job \ {j} : /\ u.jobID[x] = t.jobID[x] /\ u.state[x] = t.state[x]
                             /\ u.procs[x] = t.procs[x]
                             /\ x \in u.lastPipe <=> x \in t.lastPipe
                             /\ x \in t.disowned => x \in u.disowned
    BY Zenon, <1>11, <1>13
  <2>5. /\ TableType(u) /\ u.jobs = t.jobs /\ u.entries = t.entries
        /\ u.deletedCount = t.deletedCount /\ u.cur = t.cur /\ u.prev = t.prev
    BY Zenon, <1>11
  <2>6. TableInv(t)
    BY Zenon, <1>0
  <2> QED BY ZenonT(40), <2>1, <2>3, <2>4, <2>5, <2>6, UnattachedInv
<1>16. /\ \A a, b \in LiveOffsets(u, j) : u.procs[j][a].pid = u.procs[j][b].pid => a = b
       /\ \A o \in LiveOffsets(u, j) : u.procs[j][o].pid \notin DOMAIN u.entries
  <2>1. /\ \A a, b \in LiveOffsets(t, j) : t.procs[j][a].pid = t.procs[j][b].pid => a = b
        /\ \A o \in LiveOffsets(t, j) : t.procs[j][o].pid \notin DOMAIN t.entries
    BY ZenonT(30) DEF Forked
  <2>2. \A o \in LiveOffsets(u, j) : /\ o \in LiveOffsets(t, j)
                                     /\ u.procs[j][o].pid = t.procs[j][o].pid
    BY ZenonT(30), <1>12 DEF LiveOffsets
  <2> QED BY ZenonT(30), <1>11, <2>1, <2>2
<1>17. \A q \in Pid : q \in LivePids(u, j) <=>
                        q \in LivePids(t, j) /\ (kind = "EXITED" => q # p)
  <2>1. \A o \in LiveOffsets(t, j) : t.procs[j][o].pid = p => o = k
    BY ZenonT(40) DEF Forked
  <2>2. \A o \in LiveOffsets(t, j) : u.procs[j][o].pid = t.procs[j][o].pid
    BY <1>12 DEF LiveOffsets
  <2>3. LiveOffsets(u, j) =
          IF kind = "EXITED" THEN LiveOffsets(t, j) \ {k} ELSE LiveOffsets(t, j)
    BY ZenonT(30), <1>9, <1>12
  <2>5. ASSUME NEW q \in LivePids(u, j)
        PROVE  q \in LivePids(t, j) /\ (kind = "EXITED" => q # p)
    <3>1. PICK o \in LiveOffsets(u, j) : q = u.procs[j][o].pid
      BY ZenonT(40) DEF LivePids
    <3>2. o \in LiveOffsets(t, j) /\ (kind = "EXITED" => o # k)
      BY <2>3
    <3> QED BY Zenon, <2>1, <2>2, <3>1, <3>2 DEF LivePids
  <2>6. ASSUME NEW q \in LivePids(t, j), kind = "EXITED" => q # p
        PROVE  q \in LivePids(u, j)
    <3>1. PICK o \in LiveOffsets(t, j) : q = t.procs[j][o].pid
      BY Zenon DEF LivePids
    <3>2. o \in LiveOffsets(u, j)
      BY <2>3, <2>6, <3>1
    <3> QED BY Zenon, <2>2, <3>1, <3>2 DEF LivePids
  <2> QED BY ZenonT(40), <2>5, <2>6
<1>18. \A q \in Pid :
         ks2[q] # "none" <=> q \in Live(u) \/ (IsAvailable(u, j) /\ q \in LivePids(u, j))
  <2>1. \A q : q \in LivePids(u, j) => IsAvailable(u, j)
    BY ZenonT(30), <1>14 DEF LivePids
  <2>2. p \notin Live(t)
    BY ZenonT(30) DEF Forked, Live
  <2> QED BY ZenonT(30), <1>15, <1>17, <2>1, <2>2 DEF Forked
<1>19. \A x \in Job : IsAvailable(u, x) /\ u.jobID[x] = 0 => x = j
  BY ZenonT(30), <1>11, <1>13 DEF Forked, IsAvailable
<1>20. Group(u, kg2)
  <2> SUFFICES ASSUME NEW x \in u.grouped, IsAvailable(u, x),
                      NEW o \in LiveOffsets(u, x)
               PROVE  kg2[u.procs[x][o].pid] = u.procs[x][1].pid
    BY DEF Group
  <2>1. x \in Job /\ x \in t.grouped /\ IsAvailable(t, x) /\ o \in LiveOffsets(t, x)
    BY Zenon, <1>0, <1>11, <1>12, <1>13 DEF TableType, IsAvailable
  <2>2. t.procs[x] \in Seq(Proc) /\ o \in DOMAIN t.procs[x] /\ 1 \in DOMAIN t.procs[x]
    <3>1. t.procs[x] \in Seq(Proc) /\ o \in DOMAIN t.procs[x]
      BY ZenonT(30), <1>0, <2>1 DEF TableType, LiveOffsets
    <3> QED BY <3>1
  <2>3. u.procs[x][o].pid = t.procs[x][o].pid /\ u.procs[x][1].pid = t.procs[x][1].pid
    BY ZenonT(30), <1>12, <1>13, <2>1, <2>2
  <2>4. kg[t.procs[x][o].pid] = t.procs[x][1].pid
    BY Zenon, <2>1 DEF Forked, Group
  <2>5. t.procs[x][o].pid \in Pid
    <3>1. t.procs[x][o] \in Proc
      BY Zenon, <2>2, ElementInDomain
    <3> QED BY <3>1 DEF Proc
  <2>6. kind = "EXITED" => t.procs[x][o].pid # p
    <3>1. CASE x = j
      <4>1. \A b \in LiveOffsets(t, j) : t.procs[j][b].pid = p => b = k
        BY ZenonT(30) DEF Forked
      <4> QED BY ZenonT(30), <1>9, <1>12, <2>1, <3>1, <4>1
    <3>2. CASE x # j
      <4>1. t.jobID[x] # 0
        BY ZenonT(30), <2>1, <3>2 DEF Forked
      <4> DEFINE i == t.jobID[x]
      <4>2. i \in DOMAIN t.jobs /\ t.jobs[i] = x
        BY <1>0, <2>1, <4>1 DEF TableInv, JobsOK
      <4> HIDE DEF i
      <4>3. t.procs[x][o].pid \in DOMAIN t.entries
        <5>1. IndexOK(t)
          BY ZenonT(30), <1>0 DEF TableInv
        <5> QED BY Zenon, <2>1, <4>2, <5>1 DEF IndexOK
      <4> QED BY ZenonT(30), <4>3 DEF Forked
    <3> QED BY ZenonT(30), <3>1, <3>2
  <2> QED BY ZenonT(30), <2>3, <2>4, <2>5, <2>6
<1>21. Forked(u, j, ks2, kg2)
  <2>1. u.jobID[j] = 0 /\ DOMAIN u.jobs # JobId
    BY <1>11 DEF Forked
  <2> QED BY ZenonT(30), <1>14, <1>15, <1>16, <1>18, <1>19, <1>20, <2>1 DEF Forked
<1> QED BY ZenonT(30), <1>9, <1>10, <1>11, <1>21 DEF u, t1, Waited

\* A process group a settled table names is a pid.
LEMMA SettledPgid ==
  ASSUME NEW t, NEW ks, NEW kg, Settled(t, ks, kg)
  PROVE  /\ \A j \in Job : GetPGID(t, j) \in Pid \cup {-1}
         /\ ToplevelLastPipePGID(t) \in Pid \cup {-1}
<1>1. \A j \in Job : GetPGID(t, j) \in Pid \cup {-1}
  BY SettledLive DEF GetPGID
<1>2. t.toplevel # NoJob => t.toplevel \in Job
  BY DEF Settled, TableInv, TableType
<1> QED BY <1>1, <1>2 DEF ToplevelLastPipePGID

\* A table stays settled when the same processes are children.
LEMMA SettledKernel ==
  ASSUME NEW t, NEW ks, NEW kg, NEW ks2, Settled(t, ks, kg),
         \A q \in Pid : ks2[q] # "none" <=> ks[q] # "none"
  PROVE  Settled(t, ks2, kg)
BY DEF Settled

\* Operations that leave every process as it is.
LEMMA ProcsSame ==
  ASSUME NEW t, TableInv(t), NEW j \in Job
  PROVE  /\ SyncCurPrev(t).procs = t.procs
         /\ SetCurrentJob(t, j).procs = t.procs
         /\ Disown(t, j).procs = t.procs
         /\ RemoveToplevelIfSame(t, j).procs = t.procs
         /\ LoseControlOfJobs(t).procs = t.procs
         /\ RemoveTerminatedJobs(t).procs = t.procs
<1>1. TableType(t) /\ JobsOK(t) /\ MarksOK(t)
  BY DEF TableInv
<1>2. SyncCurPrev(t).procs = t.procs /\ SetCurrentJob(t, j).procs = t.procs
  BY Zenon, <1>1, SyncMarks, SetCurrentMarks DEF SameButMarks
<1>3. Disown(t, j).procs = t.procs /\ RemoveToplevelIfSame(t, j).procs = t.procs
  BY <1>1 DEF TableType, Disown, RemoveToplevelIfSame
<1>4. LoseControlOfJobs(t).procs = t.procs /\ RemoveTerminatedJobs(t).procs = t.procs
  BY Zenon, LoseControlInv, RemoveInv
<1> QED BY <1>2, <1>3, <1>4

\* Neither does attaching a job (job.cpp:522-539).
LEMMA AttachProcs ==
  ASSUME NEW t, NEW j \in Job, NEW ks, NEW kg, Forked(t, j, ks, kg),
         NEW disown \in BOOLEAN
  PROVE  Attach(t, j, disown).procs = t.procs
<1>1. CASE IsAvailable(t, j)
  <2>1. Attachable(t, j)
    BY Zenon, <1>1 DEF Forked, Attachable
  <2> QED BY Zenon, <2>1, AttachNamed DEF AttachedAs
<1>2. CASE ~IsAvailable(t, j)
  BY <1>2 DEF Attach
<1> QED BY <1>1, <1>2

\* The toplevel last-pipe job is in the table, is ours and leads a group.
TopOK(t) ==
  t.toplevel # NoJob => /\ t.toplevel \in Attached(t)
                        /\ t.toplevel \in t.grouped
                        /\ IsControlled(t, t.toplevel)
                        /\ 1 \in DOMAIN t.procs[t.toplevel]

\* The job that has been forked is not the toplevel one.
LEMMA ForkedOther ==
  ASSUME NEW t, NEW j \in Job, NEW ks, NEW kg, Forked(t, j, ks, kg), TopOK(t)
  PROVE  j # t.toplevel
<1>1. TableType(t) /\ JobsOK(t) /\ t.jobID[j] = 0
  BY DEF Forked, TableInv
<1>2. j \notin Attached(t)
  BY <1>1, AttachedId
<1> QED BY Zenon, <1>2, JobAssumption DEF TopOK

\* JobTable::attach (job.cpp:522-539) makes a last-pipe that leads a group the
\* toplevel one if there is none.
LEMMA AttachToplevel ==
  ASSUME NEW t, TableInv(t), NEW j \in Job, t.jobID[j] = 0, IsAvailable(t, j),
         DOMAIN t.jobs # JobId, NEW disown \in BOOLEAN
  PROVE  LET u == Attach(t, j, disown)
         IN  u.toplevel = IF ~disown /\ t.toplevel = NoJob /\ j \in t.lastPipe
                             /\ j \in t.grouped
                          THEN j ELSE t.toplevel
<1> DEFINE id == FindEmptyEntry(t)
           t1 == [t EXCEPT !.jobs = [i \in DOMAIN t.jobs \cup {id} |->
                                       IF i = id THEN j ELSE t.jobs[i]],
                           !.jobID[j] = id]
           t2 == AddProcs(t1, j)
           t3 == SetCurrentJob(t2, j)
           u  == Attach(t, j, disown)
           F  == {"toplevel", "lastPipe", "grouped"}
           Same(v) == /\ F \subseteq DOMAIN v /\ v.toplevel = t.toplevel
                      /\ v.lastPipe = t.lastPipe /\ v.grouped = t.grouped
<1>1. Same(t)
  BY DEF TableInv, TableType
<1>2. Same(t1)
  <2> DEFINE jj == [i \in DOMAIN t.jobs \cup {id} |-> IF i = id THEN j ELSE t.jobs[i]]
  <2> HIDE DEF jj
  <2>1. t1 = [t EXCEPT !.jobs = jj, !.jobID[j] = id]
    BY DEF jj
  <2> HIDE DEF t1
  <2> QED BY <1>1, <2>1
<1> HIDE DEF t1
<1>3. Same(t2)
  <2> DEFINE new == ValidPids(t1, j) \ DOMAIN t1.entries
             ee == [p \in DOMAIN t1.entries \cup new |->
                      IF p \in DOMAIN t1.entries THEN t1.entries[p]
                      ELSE [jobId |-> t1.jobID[j],
                            procOffset |-> CHOOSE k \in LiveOffsets(t1, j) :
                                             t1.procs[j][k].pid = p]]
  <2>1. t2 = [t1 EXCEPT !.entries = ee]
    BY DEF AddProcs
  <2> HIDE DEF t2, ee
  <2> QED BY <1>2, <2>1
<1> HIDE DEF t2
<1>4. Same(t3) /\ Same(Disown(t2, j))
  BY <1>3 DEF SetCurrentJob, Disown
<1>5. u = IF disown THEN Disown(t2, j)
          ELSE IF t3.toplevel = NoJob /\ j \in t3.lastPipe /\ j \in t3.grouped
               THEN [t3 EXCEPT !.toplevel = j]
               ELSE t3
  BY Zenon DEF Attach, t1, t2
<1> HIDE DEF u, t3
<1> QED BY <1>4, <1>5 DEF u

=============================================================================

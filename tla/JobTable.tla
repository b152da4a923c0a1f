------------------------------ MODULE JobTable ------------------------------
(***************************************************************************)
(* The job table of the shell (src/src/job.h, src/src/job.cpp): job        *)
(* objects and their processes, the pid -> job index (ProcTable), the      *)
(* list of attached jobs, the current/previous job and the toplevel        *)
(* last-pipe job.                                                          *)
(*                                                                         *)
(* The table is a record t, and every method is an operator from records   *)
(* to records, so that a handler that calls several methods is their       *)
(* composition.  The two sorted vectors of the code are abstracted to      *)
(* functions: t.jobs from job id to job (std::vector<Job> sorted by id)    *)
(* and t.entries from pid to entry (FlexBuffer<Entry> sorted by pid).      *)
(* Module JobVector models the vector layout of both.                      *)
(***************************************************************************)
EXTENDS Integers, Sequences

CONSTANTS
  Job,      \* job objects
  Pid,      \* process ids the kernel hands out
  NoJob,    \* the null Job pointer
  MaxJob    \* SYS_LIMIT_JOB_TABLE_SIZE

ASSUME JobAssumption == NoJob \notin Job
ASSUME PidAssumption == Pid \subseteq Nat \ {0}
ASSUME MaxJobAssumption == MaxJob \in Nat \ {0}

JobId == 1..MaxJob

ProcState == {"RUNNING", "STOPPED", "TERMINATED"}

JobState == {"AVAILABLE", "TERMINATED", "UNCONTROLLED"}

Proc == [pid : Pid, state : ProcState]

Entry == [jobId : 0..MaxJob, procOffset : Nat]

\* JobTable(ttyFd): nothing attached.  The fields jobID, state, disowned,
\* lastPipe, grouped and procs are those of the job objects.
EmptyTable ==
  [jobs         |-> [i \in {} |-> NoJob],
   entries      |-> [p \in {} |-> [jobId |-> 0, procOffset |-> 0]],
   deletedCount |-> 0,
   cur          |-> NoJob,
   prev         |-> NoJob,
   toplevel     |-> NoJob,
   jobID        |-> [j \in Job |-> 0],
   state        |-> [j \in Job |-> "TERMINATED"],
   procs        |-> [j \in Job |-> << >>],
   disowned     |-> {},
   lastPipe     |-> {},
   grouped      |-> {}]

Attached(t) == {t.jobs[i] : i \in DOMAIN t.jobs}

-----------------------------------------------------------------------------
(* JobObject *)

IsAvailable(t, j) == t.state[j] = "AVAILABLE"

IsTerminated(t, j) == t.state[j] = "TERMINATED"

IsControlled(t, j) == t.state[j] # "UNCONTROLLED"

\* A fresh job object over forked processes (fromPipe, fromLastPipe, ...).
Create(t, j, pids, lastPipe, grouped) ==
  [t EXCEPT !.jobID[j]  = 0,
            !.state[j]  = "AVAILABLE",
            !.procs[j]  = [k \in DOMAIN pids |->
                             [pid |-> pids[k], state |-> "RUNNING"]],
            !.disowned  = @ \ {j},
            !.lastPipe  = IF lastPipe THEN @ \cup {j} ELSE @ \ {j},
            !.grouped   = IF grouped THEN @ \cup {j} ELSE @ \ {j}]

\* Offsets of the processes that are not known to have terminated.
LiveOffsets(t, j) ==
  {k \in DOMAIN t.procs[j] : t.procs[j][k].state # "TERMINATED"}

\* getValidPid for every offset of the job that has one.
ValidPids(t, j) ==
  {t.procs[j][k].pid : k \in {o \in LiveOffsets(t, j) : IsControlled(t, j)}}

\* The process group of the job, or -1.
GetPGID(t, j) ==
  IF IsAvailable(t, j) /\ j \in t.grouped THEN t.procs[j][1].pid ELSE -1

ToplevelLastPipePGID(t) ==
  IF t.toplevel # NoJob THEN GetPGID(t, t.toplevel) ELSE -1

\* Proc::updateState with the WaitResult kind.
UpdateProc(p, kind) ==
  IF p.state = "TERMINATED" THEN p
  ELSE [p EXCEPT !.state = CASE kind = "EXITED"    -> "TERMINATED"
                             [] kind = "STOPPED"   -> "STOPPED"
                             [] kind = "CONTINUED" -> "RUNNING"]

\* Variant: a job never becomes TERMINATED.
UpdateJobNever(t, j) == t

\* JobObject::updateState: terminated once every process is.
UpdateJob(t, j) ==
  IF IsAvailable(t, j) /\ LiveOffsets(t, j) = {}
  THEN [t EXCEPT !.state[j] = "TERMINATED"]
  ELSE t

Disown(t, j) == [t EXCEPT !.disowned = @ \cup {j}]

\* The last stopped process of a job none of whose processes runs.
HasLastStopped(t, j) ==
  /\ \A k \in DOMAIN t.procs[j] : t.procs[j][k].state # "RUNNING"
  /\ \E k \in DOMAIN t.procs[j] : t.procs[j][k].state = "STOPPED"

-----------------------------------------------------------------------------
(* ProcTable *)

\* The entry std::lower_bound finds for a pid, as the pid of that entry; 0 is
\* the null pointer.  The code does not compare the pid it finds.
FindProc(t, pid) ==
  LET above == {p \in DOMAIN t.entries : p >= pid}
  IN  IF above = {} THEN 0
      ELSE CHOOSE p \in above : \A q \in above : p <= q

\* ProcTable::add: one entry per process with a valid pid; a pid that already
\* has an entry is skipped (addProc returns null).
AddProcs(t, j) ==
  LET id  == t.jobID[j]
      new == ValidPids(t, j) \ DOMAIN t.entries
  IN  [t EXCEPT !.entries =
         [p \in DOMAIN t.entries \cup new |->
            IF p \in DOMAIN t.entries THEN t.entries[p]
            ELSE [jobId |-> id,
                  procOffset |-> CHOOSE k \in LiveOffsets(t, j) :
                                   t.procs[j][k].pid = p]]]

IsDeleted(t, p) == t.entries[p].jobId = 0

\* Variant: the entry of a terminated process is kept.
DeleteProcKeep(t, p) == t

DeleteProc(t, p) ==
  IF IsDeleted(t, p) THEN t
  ELSE [t EXCEPT !.entries[p].jobId = 0, !.deletedCount = @ + 1]

\* Variant: the count is reset but the deleted entries stay.
BatchedRemoveCount(t) == [t EXCEPT !.deletedCount = 0]

BatchedRemove(t) ==
  [t EXCEPT !.deletedCount = 0,
            !.entries = [p \in {q \in DOMAIN t.entries : ~IsDeleted(t, q)} |->
                           t.entries[p]]]

-----------------------------------------------------------------------------
(* JobTable *)

\* Variant: no check that the job is already the current one.
SetCurrentJobAgain(t, j) ==
  IF t.jobID[j] # 0 /\ IsAvailable(t, j) /\ j \notin t.disowned /\ j \notin t.lastPipe
  THEN [t EXCEPT !.prev = IF t.cur \in t.disowned THEN NoJob ELSE t.cur, !.cur = j]
  ELSE t

SetCurrentJob(t, j) ==
  IF /\ t.jobID[j] # 0
     /\ IsAvailable(t, j)
     /\ j \notin t.disowned
     /\ j \notin t.lastPipe
     /\ t.cur # j
  THEN [t EXCEPT !.prev = IF t.cur \in t.disowned THEN NoJob ELSE t.cur,
                 !.cur = j]
  ELSE t

\* The smallest job id that is not in use.
FindEmptyEntry(t) ==
  CHOOSE id \in 1..(MaxJob + 1) \ DOMAIN t.jobs :
    \A i \in 1..(id - 1) : i \in DOMAIN t.jobs

Attach(t, j, disown) ==
  IF t.jobID[j] # 0 \/ ~IsAvailable(t, j) THEN t
  ELSE
    LET id == FindEmptyEntry(t)
        t1 == [t EXCEPT !.jobs = [i \in DOMAIN t.jobs \cup {id} |->
                                    IF i = id THEN j ELSE t.jobs[i]],
                        !.jobID[j] = id]
        t2 == AddProcs(t1, j)
        t3 == SetCurrentJob(t2, j)
    IN  IF disown THEN Disown(t2, j)
        ELSE IF t3.toplevel = NoJob /\ j \in t3.lastPipe /\ j \in t3.grouped
             THEN [t3 EXCEPT !.toplevel = j]
             ELSE t3

\* The attached jobs that may become the current or the previous job.
Candidates(t) ==
  {j \in Attached(t) :
     ~IsTerminated(t, j) /\ j \notin t.disowned /\ j \notin t.lastPipe}

\* The job of S that a backward scan of the list meets first.
LastAttached(t, S) ==
  IF S = {} THEN NoJob
  ELSE CHOOSE j \in S : \A k \in S : t.jobID[k] <= t.jobID[j]

\* Variant: only the previous job is looked at.
SyncCurPrevKeep(t) ==
  LET prev1 == IF t.prev \in t.disowned THEN NoJob ELSE t.prev
  IN  [t EXCEPT !.prev = IF prev1 # NoJob THEN prev1 ELSE LastAttached(t, Candidates(t) \ {t.cur})]

SyncCurPrev(t) ==
  LET prev1 == IF t.prev \in t.disowned THEN NoJob ELSE t.prev
      drop  == t.cur \in t.disowned
      cur1  == IF drop THEN prev1 ELSE t.cur
      prev2 == IF drop THEN NoJob ELSE prev1
      cur2  == IF cur1 # NoJob THEN cur1 ELSE LastAttached(t, Candidates(t))
  IN  IF prev2 # NoJob
      THEN [t EXCEPT !.cur = cur1, !.prev = prev2]
      ELSE [t EXCEPT !.cur = cur2,
                     !.prev = LastAttached(t, Candidates(t) \ {cur2})]

RemoveToplevelIfSame(t, j) ==
  IF t.toplevel = j THEN [t EXCEPT !.toplevel = NoJob] ELSE t

\* Variant: the ProcTable is not cleared.
LoseControlKeepEntries(t) ==
  [t EXCEPT !.state = [j \in Job |-> IF j \in Attached(t) THEN "UNCONTROLLED"
                                     ELSE t.state[j]],
            !.toplevel = NoJob]

\* Variant: the jobs stay available.
LoseControlKeepState(t) ==
  [t EXCEPT !.entries = [p \in {} |-> [jobId |-> 0, procOffset |-> 0]],
            !.deletedCount = 0,
            !.toplevel = NoJob]

\* A subshell keeps the jobs of its parent but does not own their processes.
LoseControlOfJobs(t) ==
  [t EXCEPT !.state = [j \in Job |-> IF j \in Attached(t) THEN "UNCONTROLLED"
                                     ELSE t.state[j]],
            !.entries = [p \in {} |-> [jobId |-> 0, procOffset |-> 0]],
            !.deletedCount = 0,
            !.toplevel = NoJob]

\* JobTable::find: no result for a disowned job.
Find(t, id) ==
  IF id \in DOMAIN t.jobs /\ t.jobs[id] \notin t.disowned
  THEN t.jobs[id] ELSE NoJob

\* The job and the process a wait result for pid is applied to.
FoundJob(t, pid) ==
  LET p == FindProc(t, pid)
  IN  IF p = 0 THEN NoJob ELSE t.jobs[t.entries[p].jobId]

\* The assertions on the way of a wait result (job.cpp:685, 687 and 223).
UpdateAssertions(t, pid) ==
  LET p == FindProc(t, pid)
      e == t.entries[p]
  IN  p # 0 => /\ ~IsDeleted(t, p)
               /\ e.jobId \in DOMAIN t.jobs
               /\ t.procs[t.jobs[e.jobId]][e.procOffset].pid = pid

\* Proc::updateState on the process at an offset of a job.
SetProcState(t, j, o, kind) == [t EXCEPT !.procs[j][o] = UpdateProc(@, kind)]

\* JobTable::updateProcState; notify is whether a notify callback is set.
UpdateProcState(t, pid, kind, notify) ==
  LET p  == FindProc(t, pid)
      e  == t.entries[p]
      j  == t.jobs[e.jobId]
      t1 == SetProcState(t, j, e.procOffset, kind)
      t2 == DeleteProc(t1, p)
      t3 == IF t1.procs[j][e.procOffset].state # "TERMINATED" THEN t1
            ELSE IF notify /\ t2.deletedCount = 1 THEN SyncCurPrev(t2)
            ELSE t2
  IN  IF p = 0 THEN t ELSE UpdateJob(t3, j)

\* JobTable::removeTerminatedJobs.
RemoveTerminatedJobs(t) ==
  LET t1   == BatchedRemove(t)
      kept == {i \in DOMAIN t.jobs : IsAvailable(t, t.jobs[i])}
      gone == {t.jobs[i] : i \in DOMAIN t.jobs \ kept}
      prev1 == IF t.prev # NoJob /\ IsTerminated(t, t.prev) THEN NoJob
               ELSE t.prev
      drop  == t.cur # NoJob /\ IsTerminated(t, t.cur)
  IN  IF t.deletedCount = 0 THEN t
      ELSE IF gone = {} THEN t1
      ELSE [t1 EXCEPT
              !.jobs     = [i \in kept |-> t.jobs[i]],
              !.jobID    = [j \in Job |-> IF j \in gone THEN 0 ELSE t.jobID[j]],
              !.disowned = @ \cup gone,
              !.cur      = IF drop THEN prev1 ELSE t.cur,
              !.prev     = IF drop THEN NoJob ELSE prev1,
              !.toplevel = IF t.toplevel # NoJob /\ IsTerminated(t, t.toplevel)
                           THEN NoJob ELSE t.toplevel]

-----------------------------------------------------------------------------
(* What the table promises *)

IsPartialFcn(f, D, R) == DOMAIN f \subseteq D /\ f \in [DOMAIN f -> R]

TableType(t) ==
  /\ t \in [jobs         : {t.jobs},
            entries      : {t.entries},
            deletedCount : Nat,
            cur          : Job \cup {NoJob},
            prev         : Job \cup {NoJob},
            toplevel     : Job \cup {NoJob},
            jobID        : [Job -> 0..MaxJob],
            state        : [Job -> JobState],
            procs        : [Job -> Seq(Proc)],
            disowned     : SUBSET Job,
            lastPipe     : SUBSET Job,
            grouped      : SUBSET Job]
  /\ IsPartialFcn(t.jobs, JobId, Job)
  /\ IsPartialFcn(t.entries, Pid, Entry)

\* The id of a job is its place in the list.
JobsOK(t) ==
  /\ \A i \in DOMAIN t.jobs : t.jobID[t.jobs[i]] = i
  /\ \A j \in Job : t.jobID[j] # 0 =>
       t.jobID[j] \in DOMAIN t.jobs /\ t.jobs[t.jobID[j]] = j

\* The pids of the processes that have not been reaped.
Live(t) == {p \in DOMAIN t.entries : ~IsDeleted(t, p)}

\* A live entry designates a live process with that pid of an available job
\* of the list, and every live process of such a job has its entry.
IndexOK(t) ==
  /\ \A p \in Live(t) :
       LET i == t.entries[p].jobId
           k == t.entries[p].procOffset
       IN  /\ i \in DOMAIN t.jobs
           /\ IsAvailable(t, t.jobs[i])
           /\ k \in LiveOffsets(t, t.jobs[i])
           /\ t.procs[t.jobs[i]][k].pid = p
  /\ \A i \in DOMAIN t.jobs :
       IsAvailable(t, t.jobs[i]) =>
         /\ LiveOffsets(t, t.jobs[i]) # {}
         /\ \A k \in LiveOffsets(t, t.jobs[i]) :
              LET p == t.procs[t.jobs[i]][k].pid
              IN  /\ p \in DOMAIN t.entries
                  /\ t.entries[p] = [jobId |-> i, procOffset |-> k]

\* Deleted entries and terminated jobs only exist while the count says so.
CountOK(t) ==
  t.deletedCount = 0 => /\ Live(t) = DOMAIN t.entries
                        /\ \A j \in Attached(t) : ~IsTerminated(t, j)

\* The current and the previous job: distinct, no previous without a current
\* one, no last-pipe, and in the list, unless a subshell has inherited and
\* dropped them.
MarksOK(t) ==
  /\ t.prev # NoJob => t.cur # NoJob /\ t.cur # t.prev
  /\ \A j \in {t.cur, t.prev} \ {NoJob} :
       /\ j \notin t.lastPipe
       /\ j \in Attached(t) \/ (~IsControlled(t, j) /\ j \in t.disowned)

TableInv(t) ==
  TableType(t) /\ JobsOK(t) /\ IndexOK(t) /\ CountOK(t) /\ MarksOK(t)

=============================================================================

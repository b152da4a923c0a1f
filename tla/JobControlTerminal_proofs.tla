---------------------- MODULE JobControlTerminal_proofs ----------------------
(***************************************************************************)
(* Who has the terminal between two commands of JobControl, for any number *)
(* of jobs, pids and nested last-pipes.                                    *)
(***************************************************************************)
EXTENDS JobControl_proofs

-----------------------------------------------------------------------------
(* The inductive invariant of the terminal *)

\* Whom the terminal belongs to: the group of the toplevel last-pipe job, named
\* after its first process, or the shell.
Owner(t) == IF t.toplevel = NoJob THEN ShellPg ELSE t.procs[t.toplevel][1].pid

Calls(s) == {s[n] : n \in DOMAIN s}

\* The rest s of the handler will still give the terminal back.
Restoring(t, s) ==
  \E c \in Calls(s) :
    c.op = "fgEnd" \/ (c.op = "tryToBeForeground" /\ t.toplevel = NoJob)

\* A job that is attached after its wait is no last-pipe.
AttachOK(t, s) == \A c \in Calls(s) : c.op = "attach" => c.job \notin t.lastPipe

TermInv ==
  /\ TopOK(tbl)
  /\ IsJobControl => tty = Owner(tbl) \/ Restoring(tbl, todo)
  /\ AttachOK(tbl, todo)

\* From the handler s to r: nothing that gives the terminal back is dropped,
\* and no job to attach is added.
CallsKept(s, r) ==
  /\ \A c \in Calls(s) : c \in Calls(r) \/ c.op \notin {"fgEnd", "tryToBeForeground"}
  /\ \A c \in Calls(r) : c \in Calls(s) \/ c.op # "attach"

\* From table t and terminal x to table u and terminal y.
OwnerKept(t, x, u, y) ==
  /\ TopOK(u)
  /\ u.lastPipe = t.lastPipe
  /\ u.toplevel \in {t.toplevel, NoJob}
  /\ x = Owner(t) => y = Owner(u)

\* A step that keeps both preserves the invariant.
LEMMA TermStep ==
  ASSUME TermInv, OwnerKept(tbl, tty, tbl', tty'), CallsKept(todo, todo'), level' = level
  PROVE  TermInv'
<1>1. IsJobControl' <=> IsJobControl
  BY DEF IsJobControl, IsRootShell
<1>2. Restoring(tbl, todo) => Restoring(tbl', todo')
  BY Zenon DEF OwnerKept, CallsKept, Restoring
<1>3. AttachOK(tbl', todo')
  BY Zenon DEF TermInv, AttachOK, OwnerKept, CallsKept
<1> QED BY Zenon, <1>1, <1>2, <1>3 DEF TermInv, OwnerKept

-----------------------------------------------------------------------------
(* Handlers *)

\* The calls that remain are the first and those behind it.
LEMMA CallsTail ==
  ASSUME NEW s \in Seq(Call), s # << >>
  PROVE  Calls(s) = {Head(s)} \cup Calls(Tail(s))
<1> DEFINE r == Tail(s)
<1>1. /\ Len(s) \in Nat \ {0} /\ DOMAIN s = 1..Len(s) /\ Head(s) = s[1]
      /\ DOMAIN r = 1..(Len(s) - 1) /\ \A n \in 1..(Len(s) - 1) : r[n] = s[n + 1]
  OBVIOUS
<1> HIDE DEF r
<1>2. ASSUME NEW n \in DOMAIN s PROVE s[n] \in {Head(s)} \cup Calls(r)
  <2>1. CASE n = 1
    BY Zenon, <1>1, <2>1
  <2>2. CASE n # 1
    <3>1. n - 1 \in DOMAIN r /\ r[n - 1] = s[n]
      BY <1>1, <2>2
    <3> QED BY <3>1 DEF Calls
  <2> QED BY Zenon, <2>1, <2>2
<1>3. ASSUME NEW n \in DOMAIN r PROVE r[n] \in Calls(s)
  <2>1. n + 1 \in DOMAIN s /\ r[n] = s[n + 1]
    BY <1>1
  <2> QED BY <2>1 DEF Calls
<1>4. Head(s) \in Calls(s)
  BY <1>1 DEF Calls
<1>5. Calls(s) \subseteq {Head(s)} \cup Calls(r)
  BY Zenon, <1>2 DEF Calls
<1>6. Calls(r) \subseteq Calls(s)
  BY Zenon, <1>3 DEF Calls
<1> QED BY Zenon, <1>4, <1>5, <1>6 DEF r

\* The calls that remain when a handler puts one before the others.
LEMMA CallsCons ==
  ASSUME NEW c \in Call, NEW r \in Seq(Call)
  PROVE  Calls(<< c >> \o r) = {c} \cup Calls(r)
<1> DEFINE s == << c >> \o r
<1>1. s \in Seq(Call) /\ s # << >> /\ Head(s) = c /\ Tail(s) = r
  OBVIOUS
<1> HIDE DEF s
<1>2. Calls(s) = {c} \cup Calls(r)
  BY Zenon, <1>1, CallsTail
<1> QED BY Zenon, <1>2 DEF s

\* The call that returns is none of those that give the terminal back.
LEMMA KeptTail ==
  ASSUME NEW s \in Seq(Call), s # << >>, Head(s).op \notin {"fgEnd", "tryToBeForeground"}
  PROVE  CallsKept(s, Tail(s))
BY Zenon, CallsTail DEF CallsKept

\* ... or is replaced by another one.
LEMMA KeptReplace ==
  ASSUME NEW s \in Seq(Call), s # << >>, Head(s).op \notin {"fgEnd", "tryToBeForeground"},
         NEW c \in Call, c.op # "attach"
  PROVE  CallsKept(s, << c >> \o Tail(s))
<1>1. Tail(s) \in Seq(Call)
  OBVIOUS
<1>2. Calls(<< c >> \o Tail(s)) = {c} \cup Calls(Tail(s))
  BY Zenon, <1>1, CallsCons
<1> QED BY ZenonT(40), <1>2, CallsTail DEF CallsKept

\* builtin_wait drops the waits for its other targets, and nothing else.
LEMMA KeptDrop ==
  ASSUME NEW s \in Seq(Call), NEW n \in 1..Len(s), s[1].op \in {"waitForJob", "waitLoop"},
         \A i \in 2..n : s[i].op = "waitForJob"
  PROVE  CallsKept(s, SubSeq(s, n + 1, Len(s)))
<1> DEFINE r == SubSeq(s, n + 1, Len(s))
<1>1. /\ Len(s) \in Nat /\ DOMAIN s = 1..Len(s)
      /\ DOMAIN r = 1..(Len(s) - n) /\ \A i \in 1..(Len(s) - n) : r[i] = s[n + i]
  OBVIOUS
<1> HIDE DEF r
<1>2. ASSUME NEW i \in DOMAIN s
      PROVE  s[i] \in Calls(r) \/ s[i].op \notin {"fgEnd", "tryToBeForeground"}
  <2>1. CASE i <= n
    <3>1. i = 1 \/ i \in 2..n
      BY <1>1, <2>1
    <3> QED BY Zenon, <3>1
  <2>2. CASE ~(i <= n)
    <3>1. i - n \in DOMAIN r /\ r[i - n] = s[i]
      BY <1>1, <2>2
    <3> QED BY <3>1 DEF Calls
  <2> QED BY Zenon, <2>1, <2>2
<1>3. ASSUME NEW i \in DOMAIN r PROVE r[i] \in Calls(s)
  <2>1. n + i \in DOMAIN s /\ r[i] = s[n + i]
    BY <1>1
  <2> QED BY Zenon, <2>1 DEF Calls
<1>4. CallsKept(s, r)
  BY Zenon, <1>2, <1>3 DEF CallsKept, Calls
<1> QED BY Zenon, <1>4 DEF r

\* A command starts a handler that attaches nothing.
LEMMA KeptStart ==
  ASSUME Idle, NEW r \in Seq(PlainCall)
  PROVE  CallsKept(todo, r)
<1>1. Calls(todo) = {}
  BY DEF Calls, Idle
<1>2. ASSUME NEW c \in Calls(r) PROVE c.op # "attach"
  <2>1. PICK n \in DOMAIN r : c = r[n]
    BY DEF Calls
  <2>2. c \in PlainCall
    BY <2>1
  <2> QED BY <2>2 DEF PlainCall
<1> QED BY Zenon, <1>1, <1>2 DEF CallsKept

-----------------------------------------------------------------------------
(* The table *)

\* The toplevel last-pipe job of a table without deleted entries is available,
\* so that the terminal is its group's.
LEMMA TopAvailable ==
  ASSUME NEW t, TableInv(t), TopOK(t), t.deletedCount = 0
  PROVE  /\ t.toplevel = NoJob => ToplevelLastPipePGID(t) = -1
         /\ t.toplevel # NoJob => /\ ToplevelLastPipePGID(t) = Owner(t)
                                  /\ GetPGID(t, t.toplevel) = Owner(t)
                                  /\ Owner(t) \in Pid /\ Owner(t) > -1
<1>1. t.toplevel = NoJob => ToplevelLastPipePGID(t) = -1
  BY DEF ToplevelLastPipePGID
<1>2. ASSUME t.toplevel # NoJob
      PROVE  /\ ToplevelLastPipePGID(t) = Owner(t) /\ GetPGID(t, t.toplevel) = Owner(t)
             /\ Owner(t) \in Pid /\ Owner(t) > -1
  <2> DEFINE j == t.toplevel
  <2>1. j \in Job /\ j \in Attached(t) /\ j \in t.grouped /\ 1 \in DOMAIN t.procs[j]
    BY Zenon, <1>2 DEF TableInv, TableType, TopOK
  <2>2. ~IsTerminated(t, j) /\ IsControlled(t, j)
    BY Zenon, <1>2, <2>1 DEF TableInv, CountOK, TopOK
  <2>3. IsAvailable(t, j)
    BY Zenon, <2>1, <2>2 DEF TableInv, TableType, JobState, IsTerminated, IsControlled, IsAvailable
  <2>4. t.procs[j][1].pid \in Pid
    <3>1. t.procs[j] \in Seq(Proc)
      BY Zenon, <2>1 DEF TableInv, TableType
    <3>2. t.procs[j][1] \in Proc
      BY <2>1, <3>1, ElementOfSeq
    <3> QED BY Zenon, <3>2 DEF Proc
  <2>5. /\ Owner(t) = t.procs[j][1].pid /\ GetPGID(t, j) = t.procs[j][1].pid
        /\ ToplevelLastPipePGID(t) = GetPGID(t, j)
    BY Zenon, <1>2, <2>1, <2>3 DEF GetPGID, ToplevelLastPipePGID, Owner
  <2>6. \A p \in Pid : p > -1
    BY PidAssumption
  <2> QED BY Zenon, <2>4, <2>5, <2>6
<1> QED BY Zenon, <1>1, <1>2

\* Operations that touch neither the jobs nor which one is the toplevel one.
LEMMA OwnerSame ==
  ASSUME NEW t, TopOK(t), NEW x, NEW u, u.toplevel = t.toplevel, u.jobs = t.jobs,
         u.state = t.state, u.procs = t.procs, u.grouped = t.grouped,
         u.lastPipe = t.lastPipe
  PROVE  OwnerKept(t, x, u, x)
BY DEF OwnerKept, TopOK, Owner, Attached, IsControlled

\* Two tables that differ in the current and the previous job only.
LEMMA OwnerMarks ==
  ASSUME NEW t, TopOK(t), NEW x, NEW u, SameButMarks(t, u)
  PROVE  OwnerKept(t, x, u, x)
BY OwnerSame DEF SameButMarks

\* syncAndGetCurPrevJobs.
LEMMA OwnerSync ==
  ASSUME NEW t, TableInv(t), TopOK(t), NEW x
  PROVE  OwnerKept(t, x, SyncCurPrev(t), x)
BY ZenonT(40), SyncMarks, OwnerMarks DEF TableInv

\* setCurrentJob and disown.
LEMMA OwnerNames ==
  ASSUME NEW t, TableInv(t), TopOK(t), NEW x, NEW j \in Job
  PROVE  /\ OwnerKept(t, x, SetCurrentJob(t, j), x)
         /\ OwnerKept(t, x, Disown(t, j), x)
<1>0. TableType(t) /\ JobsOK(t) /\ MarksOK(t)
  BY DEF TableInv
<1>1. OwnerKept(t, x, SetCurrentJob(t, j), x)
  BY Zenon, <1>0, SetCurrentMarks, OwnerMarks
<1>2. OwnerKept(t, x, Disown(t, j), x)
  <2> DEFINE d == t.disowned \cup {j}
             u == Disown(t, j)
  <2>1. d \in SUBSET Job /\ t.disowned \subseteq d /\ u = [t EXCEPT !.disowned = d]
    BY <1>0 DEF TableType, Disown
  <2> HIDE DEF d, u
  <2>2. SameButNames(t, u) /\ u.toplevel = t.toplevel
    BY Zenon, <2>1, SetDisowned
  <2>3. OwnerKept(t, x, u, x)
    BY Zenon, <2>2, OwnerSame DEF SameButNames
  <2> QED BY <2>3 DEF u
<1> QED BY Zenon, <1>1, <1>2

\* A wait result (job.cpp:683-701) may end the toplevel job, which keeps its
\* place until removeTerminatedJobs.
LEMMA OwnerUpdate ==
  ASSUME NEW t, TableInv(t), TopOK(t), NEW x, NEW p \in Live(t), NEW kind \in WaitKind,
         NEW notify \in BOOLEAN
  PROVE  OwnerKept(t, x, UpdateProcState(t, p, kind, notify), x)
<1> DEFINE u == UpdateProcState(t, p, kind, notify)
<1>1. /\ u.jobs = t.jobs /\ u.toplevel = t.toplevel
      /\ u.grouped = t.grouped /\ u.lastPipe = t.lastPipe
      /\ SameProcs(t, u)
  BY Zenon, UpdateNamed DEF Updated
<1>2. \A y \in Job : u.state[y] = t.state[y] \/ u.state[y] = "TERMINATED"
  BY UpdateStates
<1> HIDE DEF u
<1>3. t.toplevel # NoJob => t.toplevel \in Job
  BY DEF TableInv, TableType
<1>4. t.toplevel # NoJob => /\ 1 \in DOMAIN u.procs[t.toplevel]
                            /\ u.procs[t.toplevel][1].pid = t.procs[t.toplevel][1].pid
                            /\ IsControlled(u, t.toplevel)
  BY Zenon, <1>1, <1>2, <1>3 DEF TopOK, SameProcs, IsControlled
<1>5. TopOK(u)
  BY Zenon, <1>1, <1>4 DEF TopOK, Attached
<1>6. Owner(u) = Owner(t)
  BY <1>1, <1>4 DEF Owner
<1>7. OwnerKept(t, x, u, x)
  BY Zenon, <1>1, <1>5, <1>6 DEF OwnerKept
<1> QED BY <1>7 DEF u

\* removeTerminatedJobs (job.cpp:715-762) drops a toplevel job that has ended
\* and gives the terminal back to the shell.
LEMMA OwnerCleanup ==
  ASSUME NEW t, TableInv(t), TopOK(t), Cleanup(t)
  PROVE  OwnerKept(t, tty, tbl', tty')
<1> DEFINE u == RemoveTerminatedJobs(t)
           kept == {i \in DOMAIN t.jobs : IsAvailable(t, t.jobs[i])}
           gone == {t.jobs[i] : i \in DOMAIN t.jobs \ kept}
<1>1. /\ TableInv(u) /\ u.procs = t.procs /\ u.state = t.state /\ u.grouped = t.grouped
      /\ u.lastPipe = t.lastPipe /\ u.toplevel \in {t.toplevel, NoJob}
      /\ \A j \in Job : t.jobID[j] # 0 /\ IsAvailable(t, j) => u.jobID[j] # 0
  BY Zenon, RemoveInv
<1>2. /\ tbl' = u
      /\ tty' = IF t.toplevel # NoJob /\ u.toplevel = NoJob THEN ShellPg ELSE tty
  BY Zenon DEF Cleanup
<1>3. ASSUME u.toplevel # NoJob PROVE u.toplevel \in Attached(u)
  <2> DEFINE j == t.toplevel
  <2>1. j # NoJob /\ u.toplevel = j /\ j \in Attached(t) /\ j \in Job /\ IsControlled(t, j)
    BY Zenon, <1>1, <1>3 DEF TopOK, TableInv, TableType
  <2>2. CASE t.deletedCount = 0
    <3>1. u = t
      BY Zenon, <2>2 DEF RemoveTerminatedJobs
    <3> QED BY Zenon, <2>1, <3>1
  <2>3. CASE t.deletedCount # 0
    <3>1. IsAvailable(t, j)
      <4>1. SUFFICES ASSUME ~IsAvailable(t, j) PROVE FALSE
        OBVIOUS
      <4>2. IsTerminated(t, j)
        BY Zenon, <2>1, <4>1 DEF TableInv, TableType, JobState, IsAvailable, IsControlled, IsTerminated
      <4>3. gone # {}
        BY Zenon, <2>1, <4>1 DEF Attached
      <4>4. u.toplevel = NoJob
        <5> DEFINE t1 == BatchedRemove(t)
                   jobs2 == [i \in kept |-> t.jobs[i]]
                   id2 == [y \in Job |-> IF y \in gone THEN 0 ELSE t.jobID[y]]
                   prev1 == IF t.prev # NoJob /\ IsTerminated(t, t.prev) THEN NoJob
                            ELSE t.prev
                   drop == t.cur # NoJob /\ IsTerminated(t, t.cur)
                   cur2 == IF drop THEN prev1 ELSE t.cur
                   prev2 == IF drop THEN NoJob ELSE prev1
                   top == IF t.toplevel # NoJob /\ IsTerminated(t, t.toplevel) THEN NoJob
                          ELSE t.toplevel
        <5>1. "toplevel" \in DOMAIN t1
          BY DEF BatchedRemove, TableInv, TableType
        <5>2. u = [t1 EXCEPT !.jobs = jobs2, !.jobID = id2, !.disowned = @ \cup gone,
                             !.cur = cur2, !.prev = prev2, !.toplevel = top]
          BY Zenon, <2>3, <4>3 DEF RemoveTerminatedJobs
        <5>3. top = NoJob
          BY ZenonT(40), <2>1, <4>2
        <5> HIDE DEF u, t1, jobs2, id2, cur2, prev2, top, gone
        <5> QED BY Zenon, <5>1, <5>2, <5>3
      <4> QED BY <1>3, <4>4
    <3>2. t.jobID[j] # 0
      BY Zenon, <2>1, AttachedId DEF TableInv
    <3>3. u.jobID[j] # 0
      BY Zenon, <1>1, <2>1, <3>1, <3>2
    <3> HIDE DEF u
    <3> QED BY Zenon, <1>1, <2>1, <3>3, AttachedId DEF TableInv
  <2> QED BY Zenon, <2>2, <2>3
<1> HIDE DEF u
<1>4. TopOK(u)
  BY Zenon, <1>1, <1>3 DEF TopOK, IsControlled
<1>5. tty = Owner(t) => tty' = Owner(u)
  BY Zenon, <1>1, <1>2 DEF Owner
<1> QED BY Zenon, <1>1, <1>2, <1>4, <1>5 DEF OwnerKept

\* Operations on a job that is not in the table.
LEMMA OwnerOther ==
  ASSUME NEW t, TopOK(t), NEW j, j # t.toplevel, NEW u, u.toplevel = t.toplevel,
         u.jobs = t.jobs,
         \A y \in Job \ {j} : /\ u.state[y] = t.state[y] /\ u.procs[y] = t.procs[y]
                              /\ y \in t.grouped => y \in u.grouped,
         t.toplevel \in Job \cup {NoJob}
  PROVE  TopOK(u) /\ Owner(u) = Owner(t)
BY DEF TopOK, Owner, Attached, IsControlled

\* Proc::wait on a process of a job that is not attached (job.cpp:430-452).
LEMMA OwnerWait ==
  ASSUME NEW t, TableInv(t), TopOK(t), NEW x, NEW j \in Job, j # t.toplevel, NEW k, NEW kind
  PROVE  LET t1 == SetProcState(t, j, k, kind)
         IN  OwnerKept(t, x, t1, x) /\ OwnerKept(t, x, UpdateJob(t1, j), x)
<1> DEFINE t1 == SetProcState(t, j, k, kind)
           u == UpdateJob(t1, j)
<1>1. TableType(t) /\ t.toplevel \in Job \cup {NoJob}
  BY DEF TableInv, TableType
<1>2. /\ {"jobs", "toplevel", "state", "procs", "grouped", "lastPipe"} \subseteq DOMAIN t
      /\ DOMAIN t.procs = Job /\ DOMAIN t.state = Job
  BY <1>1 DEF TableType
<1>3. /\ {"jobs", "toplevel", "state", "procs", "grouped", "lastPipe"} \subseteq DOMAIN t1
      /\ t1.jobs = t.jobs /\ t1.toplevel = t.toplevel /\ t1.grouped = t.grouped
      /\ t1.lastPipe = t.lastPipe /\ t1.state = t.state
      /\ \A y \in Job \ {j} : t1.procs[y] = t.procs[y]
  BY <1>2 DEF SetProcState
<1> HIDE DEF t1
<1>4. /\ u.jobs = t.jobs /\ u.toplevel = t.toplevel /\ u.grouped = t.grouped
      /\ u.lastPipe = t.lastPipe /\ u.procs = t1.procs
      /\ \A y \in Job \ {j} : u.state[y] = t.state[y]
  <2>1. CASE u = t1
    BY <1>3, <2>1
  <2>2. CASE u = [t1 EXCEPT !.state[j] = "TERMINATED"]
    <3> HIDE DEF u
    <3> QED BY Zenon, <1>2, <1>3, <2>2
  <2> QED BY Zenon, <2>1, <2>2 DEF UpdateJob
<1> HIDE DEF u
<1>5. OwnerKept(t, x, t1, x)
  BY <1>1, <1>3, OwnerOther DEF OwnerKept
<1>6. OwnerKept(t, x, u, x)
  BY <1>1, <1>3, <1>4, OwnerOther DEF OwnerKept
<1> QED BY Zenon, <1>5, <1>6 DEF t1, u

\* A new job object (job.h:262-300).
LEMMA OwnerCreate ==
  ASSUME NEW t, TableInv(t), TopOK(t), NEW j \in Job, j \notin Attached(t),
         j \notin {t.cur, t.prev, t.toplevel}, NEW n \in Nat, NEW pids \in [1..n -> Pid],
         NEW lp \in BOOLEAN, NEW g \in BOOLEAN
  PROVE  LET u == Create(t, j, pids, lp, g)
         IN  /\ TopOK(u) /\ Owner(u) = Owner(t) /\ u.toplevel = t.toplevel
             /\ j \in u.lastPipe <=> lp
<1> DEFINE u == Create(t, j, pids, lp, g)
<1>1. /\ u.jobs = t.jobs /\ u.toplevel = t.toplevel
      /\ \A y \in Job \ {j} : /\ u.state[y] = t.state[y] /\ u.procs[y] = t.procs[y]
                              /\ y \in u.grouped <=> y \in t.grouped
  <2>1. NewJob(t, j, n, pids)
    BY DEF NewJob
  <2>2. Created(t, j, n, pids, g, u)
    BY Zenon, <2>1, CreateNamed
  <2> HIDE DEF u
  <2> QED BY Zenon, <2>2 DEF Created
<1>2. t.toplevel \in Job \cup {NoJob} /\ "lastPipe" \in DOMAIN t
  BY DEF TableInv, TableType
<1>3. u.lastPipe = IF lp THEN t.lastPipe \cup {j} ELSE t.lastPipe \ {j}
  BY <1>2 DEF Create
<1> HIDE DEF u
<1>4. TopOK(u) /\ Owner(u) = Owner(t)
  BY <1>1, <1>2, OwnerOther
<1> QED BY <1>1, <1>3, <1>4 DEF u

\* Attaching a job that has been forked.
LEMMA OwnerAttach ==
  ASSUME NEW t, NEW j \in Job, NEW ks, NEW kg, Forked(t, j, ks, kg), TopOK(t), NEW x,
         NEW disown \in BOOLEAN
  PROVE  LET u == Attach(t, j, disown)
         IN  /\ j \notin t.lastPipe => OwnerKept(t, x, u, x)
             /\ t.toplevel # NoJob => OwnerKept(t, x, u, x)
             /\ j \notin t.grouped => OwnerKept(t, x, u, x)
             /\ /\ IsAvailable(t, j) /\ ~disown /\ t.toplevel = NoJob
                /\ j \in t.lastPipe /\ j \in t.grouped
                => u.toplevel = j /\ Owner(u) = t.procs[j][1].pid /\ TopOK(u)
<1> DEFINE u == Attach(t, j, disown)
<1>0. TableInv(t) /\ t.jobID[j] = 0 /\ j # t.toplevel /\ t.toplevel \in Job \cup {NoJob}
  <2>1. TableInv(t) /\ t.jobID[j] = 0
    BY Zenon DEF Forked
  <2>2. j # t.toplevel
    BY ZenonT(40), ForkedOther
  <2>3. t.toplevel \in Job \cup {NoJob}
    BY <2>1 DEF TableInv, TableType
  <2> QED BY Zenon, <2>1, <2>2, <2>3
<1>1. CASE ~IsAvailable(t, j)
  <2>1. u = t
    BY <1>1 DEF Attach
  <2>2. OwnerKept(t, x, t, x)
    BY Zenon DEF OwnerKept
  <2> HIDE DEF u
  <2> QED BY Zenon, <1>1, <2>1, <2>2 DEF u
<1>2. CASE IsAvailable(t, j)
  <2>1. /\ TableInv(u) /\ u.procs = t.procs /\ u.state = t.state
        /\ u.grouped = t.grouped /\ u.lastPipe = t.lastPipe
        /\ u.jobID[j] # 0 /\ \A y \in Job \ {j} : u.jobID[y] = t.jobID[y]
    <3>1. Attachable(t, j)
      BY Zenon, <1>2 DEF Forked, Attachable
    <3>2. AttachedAs(t, j, u)
      BY ZenonT(40), <3>1, AttachNamed
    <3> HIDE DEF u
    <3> QED BY Zenon, <3>2 DEF AttachedAs
  <2>2. u.toplevel = IF ~disown /\ t.toplevel = NoJob /\ j \in t.lastPipe
                        /\ j \in t.grouped
                     THEN j ELSE t.toplevel
    BY ZenonT(40), <1>0, <1>2, AttachToplevel DEF Forked
  <2> HIDE DEF u
  <2>3. \A y \in Job : y \in Attached(t) \/ y = j => y \in Attached(u)
    BY <1>0, <2>1, AttachedId DEF TableInv
  <2>4. CASE u.toplevel = t.toplevel
    <3>1. TopOK(u) /\ Owner(u) = Owner(t)
      BY Zenon, <1>0, <2>1, <2>3, <2>4 DEF TopOK, Owner, IsControlled
    <3>2. OwnerKept(t, x, u, x)
      BY Zenon, <2>1, <2>4, <3>1 DEF OwnerKept
    <3> QED BY Zenon, <1>0, <2>2, <2>4, <3>2 DEF u
  <2>5. CASE u.toplevel # t.toplevel
    <3>1. u.toplevel = j /\ t.toplevel = NoJob /\ j \in t.lastPipe /\ j \in t.grouped
      BY <2>2, <2>5
    <3>2. 1 \in DOMAIN t.procs[j]
      <4>1. PICK k : k \in LiveOffsets(t, j)
        BY <1>2 DEF Forked
      <4>2. k \in DOMAIN t.procs[j] /\ t.procs[j] \in Seq(Proc)
        BY Zenon, <1>0, <4>1 DEF LiveOffsets, TableInv, TableType
      <4> QED BY <4>2
    <3>3. TopOK(u) /\ Owner(u) = t.procs[j][1].pid
      BY Zenon, <1>2, <2>1, <2>3, <3>1, <3>2, JobAssumption
         DEF TopOK, Owner, IsControlled, IsAvailable
    <3> QED BY Zenon, <3>1, <3>3 DEF u
  <2> QED BY <2>4, <2>5
<1> QED BY Zenon, <1>1, <1>2

-----------------------------------------------------------------------------
(* The steps *)

\* Between two commands the terminal is where it belongs.
LEMMA IdleTerm ==
  ASSUME IInv, TermInv, Idle
  PROVE  /\ IsJobControl => tty = Owner(tbl)
         /\ TableInv(tbl) /\ TopOK(tbl) /\ tbl.deletedCount = 0 /\ Settled(tbl, kst, kpg)
<1>1. Settled(tbl, kst, kpg) /\ tbl.deletedCount = 0
  BY IdleState, SettledState
<1>2. ~Restoring(tbl, todo)
  BY DEF Restoring, Calls, Idle
<1> QED BY <1>1, <1>2 DEF TermInv, Settled

\* Steps of the kernel.
LEMMA KernelTerm ==
  ASSUME TermInv, UNCHANGED <<tbl, todo, level, tty>>
  PROVE  TermInv'
BY DEF TermInv, IsJobControl, IsRootShell

\* The table and what is left of a handler in a state without a forked job.
LEMMA PlainState ==
  ASSUME IInv, TermInv, ~Forking
  PROVE  /\ TableInv(tbl) /\ TopOK(tbl) /\ todo \in Seq(Call) /\ Shape(todo)
         /\ Settled(tbl, kst, kpg)
<1>1. Settled(tbl, kst, kpg)
  BY Zenon, SettledState
<1> QED BY Zenon, <1>1 DEF Settled, IInv, TermInv

\* A wait result reported to a wait loop: the table it leads to.
LEMMA ReapTerm ==
  ASSUME IInv, TermInv, ~Forking, NEW p \in Pid, NEW w \in WaitOp, NEW kind \in Report(p, w),
         NEW x
  PROVE  LET t == UpdateProcState(tbl, p, kind, NotifyCallback)
         IN  /\ UpdateAssertions(tbl, p) /\ TableInv(t) /\ TopOK(t)
             /\ OwnerKept(tbl, x, t, x)
<1>1. TableInv(tbl) /\ TopOK(tbl) /\ Settled(tbl, kst, kpg)
  BY PlainState
<1>2. kind \in WaitKind /\ kst[p] # "none"
  BY ReportFacts DEF IInv
<1>3. p \in Live(tbl)
  BY <1>1, <1>2 DEF Settled
<1>4. NotifyCallback \in BOOLEAN
  BY OptionAssumption DEF NotifyCallback
<1>5. /\ UpdateAssertions(tbl, p) /\ TableInv(UpdateProcState(tbl, p, kind, NotifyCallback))
  BY Zenon, <1>1, <1>2, <1>3, <1>4, UpdateNamed DEF Updated
<1>6. OwnerKept(tbl, x, UpdateProcState(tbl, p, kind, NotifyCallback), x)
  BY Zenon, <1>1, <1>2, <1>3, <1>4, OwnerUpdate
<1> QED BY Zenon, <1>5, <1>6 DEF OwnerKept

\* One step after another.
LEMMA OwnerTrans ==
  ASSUME NEW t, NEW x, NEW u, NEW y, OwnerKept(t, x, u, y), NEW v, NEW z,
         OwnerKept(u, y, v, z)
  PROVE  OwnerKept(t, x, v, z)
BY Zenon DEF OwnerKept

\* A handler that does not change.
LEMMA KeptSame == CallsKept(todo, todo)
BY Zenon DEF CallsKept

\* A round of waitForAny, of waitForJob or of `wait -n' (job.cpp:541-648,
\* cmd_job.cpp:286-353).
LEMMA ReapStepTerm ==
  ASSUME IInv, TermInv, NEW p \in Pid, Reap(p)
  PROVE  TermInv'
<1>1. CASE AnyReap(p)
  <2>1. Calling("waitForAny") /\ ~Forking /\ level' = level /\ tty' = tty
    BY <1>1 DEF AnyReap, Calling, Forking
  <2>2. PICK kind \in Report(p, "NONBLOCKING") :
          IF UpdateAssertions(tbl, p)
          THEN tbl' = UpdateProcState(tbl, p, kind, NotifyCallback) /\ UNCHANGED todo
          ELSE todo' = Abort
    BY Zenon, <1>1 DEF AnyReap
  <2>3. "NONBLOCKING" \in WaitOp
    BY DEF WaitOp
  <2>4. /\ UpdateAssertions(tbl, p)
        /\ OwnerKept(tbl, tty, UpdateProcState(tbl, p, kind, NotifyCallback), tty)
    BY Zenon, <2>1, <2>3, ReapTerm
  <2>5. OwnerKept(tbl, tty, tbl', tty') /\ todo' = todo
    BY Zenon, <2>1, <2>2, <2>4
  <2> QED BY Zenon, <2>1, <2>5, KeptSame, TermStep
<1>2. CASE JobReap(p)
  <2> DEFINE c == Head(todo)
  <2>1. todo # << >> /\ c.op = "waitLoop" /\ ~Forking /\ level' = level
    BY <1>2 DEF JobReap, Calling, Forking
  <2>2. PICK kind \in Report(p, c.wop) :
          UpdateAssertions(tbl, p) =>
            LET t == UpdateProcState(tbl, p, kind, NotifyCallback)
            IN  \/ Cleanup(t) /\ todo' = Tail(todo)
                \/ tbl' = t /\ UNCHANGED <<todo, tty>>
    BY Zenon, <1>2 DEF JobReap
  <2>3. todo \in Seq(Call) /\ c.wop \in WaitOp
    BY Zenon, <2>1, PlainState, ShapeTail, CallArgs
  <2> DEFINE t == UpdateProcState(tbl, p, kind, NotifyCallback)
  <2>4. /\ UpdateAssertions(tbl, p) /\ TableInv(t) /\ TopOK(t)
        /\ OwnerKept(tbl, tty, t, tty)
    BY <2>1, <2>3, ReapTerm
  <2>5. \/ Cleanup(t) /\ todo' = Tail(todo)
        \/ tbl' = t /\ todo' = todo /\ tty' = tty
    BY Zenon, <2>2, <2>4
  <2> HIDE DEF t
  <2>6. CASE Cleanup(t) /\ todo' = Tail(todo)
    <3>1. OwnerKept(tbl, tty, tbl', tty')
      BY Zenon, <2>4, <2>6, OwnerCleanup, OwnerTrans
    <3>2. CallsKept(todo, todo')
      BY <2>1, <2>3, <2>6, KeptTail
    <3> QED BY Zenon, <2>1, <3>1, <3>2, TermStep
  <2>7. CASE tbl' = t /\ todo' = todo /\ tty' = tty
    BY Zenon, <2>1, <2>4, <2>7, KeptSame, TermStep
  <2> QED BY Zenon, <2>5, <2>6, <2>7
<1>3. CASE NextReap(p)
  <2>1. Calling("waitNext") /\ ~Forking /\ level' = level
    BY Zenon, <1>3 DEF NextReap, Calling, Forking
  <2>2. PICK kind \in Report(p, ForegroundOp) :
          UpdateAssertions(tbl, p) =>
            Cleanup(UpdateProcState(tbl, p, kind, NotifyCallback)) /\ UNCHANGED todo
    BY Zenon, <1>3 DEF NextReap
  <2>3. ForegroundOp \in WaitOp
    BY DEF ForegroundOp, WaitOp
  <2> DEFINE t == UpdateProcState(tbl, p, kind, NotifyCallback)
  <2>4. /\ UpdateAssertions(tbl, p) /\ TableInv(t) /\ TopOK(t)
        /\ OwnerKept(tbl, tty, t, tty)
    BY <2>1, <2>3, ReapTerm
  <2>5. Cleanup(t) /\ todo' = todo
    BY Zenon, <2>2, <2>4
  <2> HIDE DEF t
  <2>6. OwnerKept(tbl, tty, tbl', tty')
    BY Zenon, <2>4, <2>5, OwnerCleanup, OwnerTrans
  <2> QED BY Zenon, <2>1, <2>5, <2>6, KeptSame, TermStep
<1> QED BY <1>1, <1>2, <1>3 DEF Reap

\* The ends of the wait loops (job.cpp:541-648, cmd_job.cpp:286-353).
LEMMA WaitEndTerm ==
  ASSUME IInv, TermInv,
         AnyDone \/ JobEnter \/ (Calling("waitLoop") /\ JobFail)
           \/ (Calling("waitNext") /\ (NextDone \/ NextFail))
  PROVE  TermInv'
<1>1. /\ todo # << >> /\ Head(todo).op \in {"waitForAny", "waitForJob", "waitLoop", "waitNext"}
      /\ ~Forking /\ level' = level
  BY DEF AnyDone, JobEnter, JobFail, NextDone, NextFail, Calling, Forking
<1>2. /\ TableInv(tbl) /\ TopOK(tbl) /\ todo \in Seq(Call) /\ Shape(todo)
  BY <1>1, PlainState
<1>3. Cleanup(tbl) \/ (tbl' = tbl /\ tty' = tty)
  BY Zenon DEF AnyDone, JobEnter, JobFail, NextDone, NextFail
<1>4. OwnerKept(tbl, tty, tbl', tty')
  <2>1. OwnerKept(tbl, tty, tbl, tty)
    BY <1>2 DEF OwnerKept
  <2> QED BY Zenon, <1>2, <1>3, <2>1, OwnerCleanup
<1>5. CallsKept(todo, todo')
  <2>1. CallsKept(todo, Tail(todo))
    BY <1>1, <1>2, KeptTail
  <2>2. CASE AnyDone \/ NextDone \/ NextFail
    BY Zenon, <2>1, <2>2 DEF AnyDone, NextDone, NextFail
  <2>3. ASSUME LeaveTargets, Head(todo).op \in {"waitForJob", "waitLoop"}
        PROVE  CallsKept(todo, todo')
    <3>1. PICK n \in 1..Len(todo) : /\ \A i \in 2..n : todo[i].op = "waitForJob"
                                    /\ todo' = SubSeq(todo, n + 1, Len(todo))
      BY Zenon, <2>3 DEF LeaveTargets
    <3>2. todo[1].op \in {"waitForJob", "waitLoop"}
      BY <1>1, <1>2, <2>3
    <3>3. CallsKept(todo, SubSeq(todo, n + 1, Len(todo)))
      BY Zenon, <1>2, <3>1, <3>2, KeptDrop
    <3> QED BY Zenon, <3>1, <3>3
  <2>4. CASE JobEnter
    <3> DEFINE c == Head(todo)
               w == WaitLoop(c.job, c.wop, c.quiet)
    <3>1. c.job \in Job /\ c.wop \in WaitOp /\ c.quiet \in BOOLEAN
      <4>1. c \in Call /\ c.op = "waitForJob"
        BY ZenonT(40), <1>1, <1>2, <2>4, ShapeTail DEF JobEnter, Calling
      <4> QED BY Zenon, <4>1, CallArgs
    <3>2. todo' = Tail(todo) \/ todo' = << w >> \o Tail(todo) \/ LeaveTargets
      BY Zenon, <2>4 DEF JobEnter
    <3>3. w \in Call /\ w.op # "attach"
      BY Zenon, <3>1, CallCons DEF WaitLoop
    <3> HIDE DEF w
    <3>4. CallsKept(todo, << w >> \o Tail(todo))
      BY Zenon, <1>1, <1>2, <3>3, KeptReplace
    <3>5. ASSUME LeaveTargets PROVE CallsKept(todo, todo')
      BY Zenon, <2>3, <2>4, <3>5 DEF JobEnter, Calling
    <3> QED BY Zenon, <2>1, <3>2, <3>4, <3>5
  <2>5. CASE Calling("waitLoop") /\ JobFail
    BY Zenon, <2>3, <2>5 DEF JobFail, Calling
  <2> QED BY <2>2, <2>4, <2>5
<1> QED BY Zenon, <1>1, <1>4, <1>5, TermStep

\* The calls for a forked job (job.cpp:430-452, vm.cpp:460-472).
LEMMA ForkedTerm ==
  ASSUME IInv, TermInv, ProcWait \/ ProcWaitInterrupted \/ CallAttach
  PROVE  TermInv'
<1> DEFINE c == Head(todo)
           j == c.job
<1>1. /\ todo # << >> /\ Forking /\ c.op \in {"Proc::wait", "attach"}
      /\ level' = level /\ tty' = tty
  BY Zenon DEF ProcWait, ProcWaitInterrupted, CallAttach, Calling, Forking
<1>2. /\ todo \in Seq(Call) /\ Shape(todo) /\ Forked(tbl, j, kst, kpg) /\ TopOK(tbl)
      /\ AttachOK(tbl, todo) /\ TableInv(tbl)
  BY Zenon, <1>1 DEF IInv, TermInv, Forked
<1>3. j \in Job /\ c \in Call /\ (c.op = "Proc::wait" => c.offset \in Nat)
  BY Zenon, <1>1, <1>2, ShapeTail, CallArgs
<1>4. j # tbl.toplevel
  BY ZenonT(40), <1>2, <1>3, ForkedOther
<1>5. CallsKept(todo, Tail(todo))
  BY <1>1, <1>2, KeptTail
<1>6. CASE ProcWaitInterrupted
  <2>1. tbl' = tbl /\ todo' = Tail(todo)
    BY <1>6 DEF ProcWaitInterrupted
  <2>2. OwnerKept(tbl, tty, tbl', tty')
    BY <1>1, <1>2, <2>1 DEF OwnerKept
  <2> QED BY Zenon, <1>1, <1>5, <2>1, <2>2, TermStep
<1>7. CASE CallAttach
  <2>1. tbl' = Attach(tbl, j, FALSE) /\ todo' = Tail(todo) /\ c.op = "attach"
    BY <1>7 DEF CallAttach, Calling
  <2>2. c \in Calls(todo)
    BY Zenon, <1>1, <1>2, CallsTail
  <2>3. j \notin tbl.lastPipe
    BY Zenon, <1>2, <2>1, <2>2 DEF AttachOK
  <2> HIDE DEF c, j
  <2>4. OwnerKept(tbl, tty, Attach(tbl, j, FALSE), tty)
    BY Zenon, <1>2, <1>3, <2>3, OwnerAttach
  <2> QED BY Zenon, <1>1, <1>5, <2>1, <2>4, TermStep
<1>8. CASE ProcWait
  <2> DEFINE k == c.offset
             w == WaitProc(j, k + 1)
  <2>1. PICK kind : LET t == SetProcState(tbl, j, k, kind)
                    IN  \/ tbl' = UpdateJob(t, j) /\ todo' = Tail(todo)
                        \/ tbl' = t /\ todo' = << w >> \o Tail(todo)
    BY Zenon, <1>8 DEF ProcWait
  <2>2. w \in Call /\ w.op # "attach"
    <3>1. c.op = "Proc::wait"
      BY Zenon, <1>8 DEF ProcWait, Calling
    <3>2. k \in Nat
      BY Zenon, <1>3, <3>1
    <3> HIDE DEF k, c, j
    <3>3. k + 1 \in Nat
      BY <3>2
    <3> QED BY <1>3, <3>3, CallCons DEF WaitProc
  <2> HIDE DEF c, j, k, w
  <2>3. /\ OwnerKept(tbl, tty, SetProcState(tbl, j, k, kind), tty)
        /\ OwnerKept(tbl, tty, UpdateJob(SetProcState(tbl, j, k, kind), j), tty)
    BY Zenon, <1>2, <1>3, <1>4, OwnerWait
  <2>4. OwnerKept(tbl, tty, tbl', tty')
    BY ZenonT(40), <1>1, <2>1, <2>3
  <2>5. CallsKept(todo, << w >> \o Tail(todo))
    BY Zenon, <1>1, <1>2, <2>2, KeptReplace DEF c
  <2>6. CallsKept(todo, todo')
    BY Zenon, <1>5, <2>1, <2>5
  <2> QED BY ZenonT(40), <1>1, <2>4, <2>6, TermStep
<1> QED BY Zenon, <1>6, <1>7, <1>8

\* The next argument of `bg' or `kill' (cmd_job.cpp:113-284).
LEMMA SendMoreTerm ==
  ASSUME IInv, TermInv, CallSendMore
  PROVE  TermInv'
<1>1. /\ todo # << >> /\ Head(todo).op = "sendMore" /\ ~Forking /\ level' = level
      /\ tty' = tty
  BY DEF CallSendMore, Calling, Forking
<1>2. TableInv(tbl) /\ TopOK(tbl) /\ todo \in Seq(Call)
  BY <1>1, PlainState
<1>3. tbl' \in {tbl, SyncCurPrev(tbl)}
  BY Zenon, <1>1, LookupFacts DEF CallSendMore
<1>4. OwnerKept(tbl, tty, tbl', tty')
  <2>1. OwnerKept(tbl, tty, tbl, tty)
    BY <1>2 DEF OwnerKept
  <2>2. OwnerKept(tbl, tty, SyncCurPrev(tbl), tty)
    BY Zenon, <1>2, OwnerSync
  <2> QED BY Zenon, <1>1, <1>3, <2>1, <2>2
<1>5. CallsKept(todo, todo')
  <2>1. todo' = todo \/ todo' = << WaitAny >> \o Tail(todo)
    BY Zenon DEF CallSendMore
  <2>2. WaitAny \in Call /\ WaitAny.op # "attach"
    BY CallCons DEF WaitAny
  <2>3. CallsKept(todo, << WaitAny >> \o Tail(todo))
    BY Zenon, <1>1, <1>2, <2>2, KeptReplace
  <2> QED BY Zenon, <2>1, <2>3, KeptSame
<1> QED BY Zenon, <1>1, <1>4, <1>5, TermStep

\* The calls that give the terminal back find a table without deleted entries.
LEMMA GiveBackState ==
  ASSUME IInv, TermInv, todo # << >>,
         Head(todo).op \in {"tryToBeForeground", "fgEnd", "dispose"}
  PROVE  /\ TableInv(tbl) /\ TopOK(tbl) /\ tbl.deletedCount = 0 /\ todo \in Seq(Call)
         /\ Head(todo).op # "tryToBeForeground" => Head(todo).job \in Job
         /\ AttachOK(tbl, Tail(todo))
         /\ \A c \in Calls(todo) : c = Head(todo) \/ c \in Calls(Tail(todo))
<1>1. ~Forking /\ tbl.deletedCount = 0
  BY DEF IInv, DeletedOK, Calling, Forking
<1>2. TableInv(tbl) /\ TopOK(tbl) /\ todo \in Seq(Call) /\ Shape(todo)
  BY Zenon, <1>1, PlainState
<1>3. Calls(todo) = {Head(todo)} \cup Calls(Tail(todo))
  BY ZenonT(40), <1>2, CallsTail
<1>4. Head(todo).op # "tryToBeForeground" => Head(todo).job \in Job
  BY Zenon, <1>2, ShapeTail, CallArgs
<1>5. AttachOK(tbl, Tail(todo))
  BY Zenon, <1>3 DEF TermInv, AttachOK
<1> QED BY Zenon, <1>1, <1>2, <1>3, <1>4, <1>5

\* After a foreground job (vm.cpp:466-468): the shell takes the terminal unless
\* there is a last-pipe, whose group has had it all along.
LEMMA ForegroundTerm ==
  ASSUME IInv, TermInv, CallForeground
  PROVE  TermInv'
<1>1. /\ todo # << >> /\ Head(todo).op = "tryToBeForeground" /\ level' = level
      /\ tbl' = tbl /\ todo' = Tail(todo) /\ tty' = ShellForeground(tbl)
  BY DEF CallForeground, Calling
<1>2. /\ TableInv(tbl) /\ TopOK(tbl) /\ tbl.deletedCount = 0 /\ AttachOK(tbl, Tail(todo))
      /\ \A c \in Calls(todo) : c = Head(todo) \/ c \in Calls(Tail(todo))
  BY <1>1, GiveBackState
<1>3. IsJobControl' <=> IsJobControl
  BY <1>1 DEF IsJobControl, IsRootShell
<1>4. ASSUME IsJobControl PROVE tty' = Owner(tbl') \/ Restoring(tbl', todo')
  <2>1. CASE tbl.toplevel = NoJob
    <3>1. ToplevelLastPipePGID(tbl) = -1
      BY Zenon, <1>2, <2>1, TopAvailable
    <3>2. tty' = ShellPg
      BY <1>1, <1>4, <3>1 DEF ShellForeground
    <3> QED BY Zenon, <1>1, <2>1, <3>2 DEF Owner
  <2>2. CASE tbl.toplevel # NoJob
    <3>1. tty' = tty
      <4>1. ToplevelLastPipePGID(tbl) \in Pid
        BY Zenon, <1>2, <2>2, TopAvailable
      <4>2. \A p \in Pid : ~(p < 0)
        BY PidAssumption
      <4> QED BY Zenon, <1>1, <4>1, <4>2 DEF ShellForeground
    <3>2. Restoring(tbl, todo) => Restoring(tbl', todo')
      BY Zenon, <1>1, <1>2, <2>2 DEF Restoring
    <3> QED BY Zenon, <1>1, <1>4, <3>1, <3>2 DEF TermInv
  <2> QED BY Zenon, <2>1, <2>2
<1> QED BY Zenon, <1>1, <1>2, <1>3, <1>4 DEF TermInv

\* The end of `fg' (cmd_job.cpp:202-284): the last-pipe or the shell takes the
\* terminal.
LEMMA FgEndTerm ==
  ASSUME IInv, TermInv, CallFgEnd
  PROVE  TermInv'
<1> DEFINE j == Head(todo).job
           t == IF IsAvailable(tbl, j) THEN SetCurrentJob(tbl, j) ELSE tbl
<1>1. /\ todo # << >> /\ Head(todo).op = "fgEnd" /\ level' = level
      /\ todo' = Tail(todo) /\ tbl' = t
      /\ tty' = IF t.toplevel # NoJob THEN JobForeground(t, t.toplevel)
                ELSE ShellForeground(t)
  BY ZenonT(40) DEF CallFgEnd, Calling
<1>2. /\ TableInv(tbl) /\ TopOK(tbl) /\ tbl.deletedCount = 0 /\ AttachOK(tbl, Tail(todo))
      /\ j \in Job
  BY Zenon, <1>1, GiveBackState
<1>3. TableInv(t) /\ TopOK(t) /\ t.deletedCount = 0 /\ t.lastPipe = tbl.lastPipe
  <2>1. CASE t = tbl
    BY Zenon, <1>2, <2>1
  <2>2. CASE t = SetCurrentJob(tbl, j)
    <3>1. TableType(tbl) /\ JobsOK(tbl) /\ MarksOK(tbl) /\ IndexOK(tbl) /\ CountOK(tbl)
      BY <1>2 DEF TableInv
    <3> HIDE DEF j
    <3>2. TableType(SetCurrentJob(tbl, j)) /\ SameButMarks(tbl, SetCurrentJob(tbl, j))
          /\ MarksOK(SetCurrentJob(tbl, j))
      BY Zenon, <1>2, <3>1, SetCurrentMarks
    <3> HIDE DEF t
    <3>3. TableType(t) /\ SameButMarks(tbl, t) /\ MarksOK(t)
      BY Zenon, <2>2, <3>2
    <3>4. TableInv(t)
      BY Zenon, <3>1, <3>3, SameButMarksInv DEF TableInv
    <3>5. OwnerKept(tbl, tty, t, tty)
      BY Zenon, <1>2, <3>3, OwnerMarks
    <3> QED BY Zenon, <1>2, <3>3, <3>4, <3>5 DEF OwnerKept, SameButMarks
  <2> QED BY Zenon, <2>1, <2>2
<1>4. IsJobControl' <=> IsJobControl
  BY <1>1 DEF IsJobControl, IsRootShell
<1> HIDE DEF t, j
<1>5. ASSUME IsJobControl PROVE tty' = Owner(t)
  <2>1. CASE t.toplevel = NoJob
    <3>1. ToplevelLastPipePGID(t) = -1
      BY Zenon, <1>3, <2>1, TopAvailable
    <3>2. tty' = ShellPg
      BY <1>1, <1>5, <2>1, <3>1 DEF ShellForeground
    <3> QED BY Zenon, <2>1, <3>2 DEF Owner
  <2>2. CASE t.toplevel # NoJob
    <3>1. GetPGID(t, t.toplevel) = Owner(t) /\ Owner(t) > -1
      BY Zenon, <1>3, <2>2, TopAvailable
    <3> QED BY ZenonT(40), <1>1, <2>2, <3>1 DEF JobForeground
  <2> QED BY Zenon, <2>1, <2>2
<1>6. AttachOK(tbl', todo')
  BY Zenon, <1>1, <1>2, <1>3 DEF AttachOK
<1> QED BY Zenon, <1>1, <1>3, <1>4, <1>5, <1>6 DEF TermInv

\* The end of a last-pipe (redir.cpp:40-64): if it was the toplevel one the
\* shell takes the terminal.
LEMMA DisposeTerm ==
  ASSUME IInv, TermInv, CallDispose
  PROVE  TermInv'
<1> DEFINE j == Head(todo).job
           t == RemoveToplevelIfSame(tbl, j)
<1>1. /\ todo # << >> /\ Head(todo).op = "dispose" /\ level' = level
      /\ todo' = Tail(todo) /\ tbl' = t /\ tty' = ShellForeground(t)
  BY Zenon DEF CallDispose, Calling
<1>2. /\ TableInv(tbl) /\ TopOK(tbl) /\ tbl.deletedCount = 0 /\ AttachOK(tbl, Tail(todo))
      /\ \A c \in Calls(todo) : c = Head(todo) \/ c \in Calls(Tail(todo))
      /\ j \in Job
  BY <1>1, GiveBackState
<1> HIDE DEF j
<1>3. /\ t.lastPipe = tbl.lastPipe
      /\ t.toplevel = NoJob \/ t = tbl
      /\ t.toplevel = NoJob => ToplevelLastPipePGID(t) = -1
  BY Zenon, <1>2 DEF RemoveToplevelIfSame, TableInv, TableType, ToplevelLastPipePGID
<1>4. IsJobControl' <=> IsJobControl
  BY Zenon, <1>1 DEF IsJobControl, IsRootShell
<1> HIDE DEF t
<1>5. TopOK(t)
  BY <1>2, <1>3 DEF TopOK
<1>6. ASSUME IsJobControl PROVE tty' = Owner(tbl') \/ Restoring(tbl', todo')
  <2>1. CASE t.toplevel = NoJob
    <3>1. tty' = ShellPg
      BY SMTT(30), <1>1, <1>3, <1>6, <2>1 DEF ShellForeground
    <3> QED BY Zenon, <1>1, <2>1, <3>1 DEF Owner
  <2>2. CASE t.toplevel # NoJob
    <3>1. t = tbl
      BY Zenon, <1>3, <2>2
    <3>2. ToplevelLastPipePGID(tbl) \in Pid
      BY Zenon, <1>2, <2>2, <3>1, TopAvailable
    <3>3. \A p \in Pid : ~(p < 0)
      BY PidAssumption
    <3>4. tty' = tty
      BY Zenon, <1>1, <3>1, <3>2, <3>3 DEF ShellForeground
    <3>5. Restoring(tbl, todo) => Restoring(tbl', todo')
      BY Zenon, <1>1, <1>2, <2>2, <3>1 DEF Restoring
    <3> QED BY Zenon, <1>1, <1>6, <3>1, <3>4, <3>5 DEF TermInv
  <2> QED BY Zenon, <2>1, <2>2
<1>7. AttachOK(tbl', todo')
  BY Zenon, <1>1, <1>2, <1>3 DEF AttachOK
<1> QED BY Zenon, <1>1, <1>4, <1>5, <1>6, <1>7 DEF TermInv

\* The builtins, SIGCHLD and the end of a last-pipe start a handler, and leave
\* the terminal alone; `fg' gives it to a job, and ends by giving it back.
LEMMA CommandTerm ==
  ASSUME IInv, TermInv, CommandStep, tty' = tty \/ BuiltinFg
  PROVE  TermInv'
<1>1. /\ Idle /\ todo' \in Seq(PlainCall) /\ tbl' \in {tbl, SyncCurPrev(tbl)}
      /\ level' = level
  BY Zenon DEF CommandStep
<1>2. TableInv(tbl) /\ TopOK(tbl) /\ CallsKept(todo, todo')
  BY Zenon, <1>1, IdleTerm, KeptStart
<1>3. OwnerKept(tbl, tty, tbl', tty)
  <2>1. OwnerKept(tbl, tty, tbl, tty)
    BY <1>2 DEF OwnerKept
  <2>2. OwnerKept(tbl, tty, SyncCurPrev(tbl), tty)
    BY Zenon, <1>2, OwnerSync
  <2> QED BY Zenon, <1>1, <2>1, <2>2
<1>4. CASE tty' = tty
  BY Zenon, <1>1, <1>2, <1>3, <1>4, TermStep
<1>5. CASE BuiltinFg
  <2>1. PICK x \in Lookup :
          todo' = << WaitAny, WaitJob(x[2], "BLOCK_UNTRACED", TRUE), FgEnd(x[2]) >>
    BY Zenon, <1>5 DEF BuiltinFg
  <2>2. FgEnd(x[2]).op = "fgEnd"
    BY DEF FgEnd
  <2>3. FgEnd(x[2]) \in Calls(todo')
    <3>1. 3 \in DOMAIN todo' /\ todo'[3] = FgEnd(x[2])
      BY <2>1
    <3> QED BY <3>1 DEF Calls
  <2>4. Restoring(tbl', todo')
    BY Zenon, <2>2, <2>3 DEF Restoring
  <2>5. AttachOK(tbl', todo') /\ TopOK(tbl')
    <3>1. Calls(todo) = {}
      BY <1>1 DEF Calls, Idle
    <3> QED BY Zenon, <1>2, <1>3, <3>1 DEF AttachOK, CallsKept, OwnerKept
  <2> QED BY Zenon, <2>4, <2>5 DEF TermInv
<1> QED BY <1>4, <1>5

\* `disown' (cmd_job.cpp:453-482).
LEMMA DisownTerm ==
  ASSUME IInv, TermInv, BuiltinDisown
  PROVE  TermInv'
<1>1. Idle /\ UNCHANGED <<todo, level, tty>>
  BY DEF BuiltinDisown
<1>2. PICK x \in Lookup \cup {<<tbl, j>> : j \in Held} : tbl' = Disown(x[1], x[2])
  BY DEF BuiltinDisown
<1>3. ~Forking /\ TableInv(tbl) /\ TopOK(tbl) /\ Settled(tbl, kst, kpg)
  BY Zenon, <1>1, IdleTerm, IdleState
<1>4. x[2] \in Job /\ TableInv(x[1]) /\ x[1] \in {tbl, SyncCurPrev(tbl)}
  <2>1. CASE x \in Lookup
    BY Zenon, <1>3, <2>1, LookupFacts DEF Settled
  <2>2. CASE x \in {<<tbl, j>> : j \in Held}
    BY <1>3, <2>2 DEF Held
  <2> QED BY Zenon, <2>1, <2>2
<1>5. OwnerKept(tbl, tty, x[1], tty)
  <2>1. OwnerKept(tbl, tty, tbl, tty)
    BY <1>3 DEF OwnerKept
  <2>2. OwnerKept(tbl, tty, SyncCurPrev(tbl), tty)
    BY Zenon, <1>3, OwnerSync
  <2> QED BY Zenon, <1>4, <2>1, <2>2
<1>6. TopOK(x[1])
  BY Zenon, <1>5 DEF OwnerKept
<1>7. OwnerKept(x[1], tty, Disown(x[1], x[2]), tty)
  BY Zenon, <1>4, <1>6, OwnerNames
<1>8. OwnerKept(tbl, tty, Disown(x[1], x[2]), tty)
  BY Zenon, <1>5, <1>7 DEF OwnerKept
<1>9. OwnerKept(tbl, tty, tbl', tty')
  BY <1>1, <1>2, <1>8
<1> QED BY Zenon, <1>1, <1>9, KeptSame, TermStep

\* The end of a last-pipe begins (vm.cpp:2116-2140), and a subshell, which has
\* no job control.
LEMMA OtherTerm ==
  ASSUME IInv, TermInv, EnterSubshell \/ \E unwind \in BOOLEAN : EndLastPipe(unwind)
  PROVE  TermInv'
<1>1. CASE EnterSubshell
  <2>1. Idle /\ level' = level + 1 /\ tbl' = LoseControlOfJobs(tbl) /\ todo' = todo
    BY Zenon, <1>1 DEF EnterSubshell
  <2>2. TableInv(tbl) /\ level \in Nat
    BY SMTT(30), <2>1, IdleTerm, BoundAssumption DEF IInv, TypeOK
  <2>3. tbl'.toplevel = NoJob
    BY Zenon, <2>1, <2>2 DEF LoseControlOfJobs, TableInv, TableType
  <2>4. TopOK(tbl')
    BY <2>3 DEF TopOK
  <2>5. ~IsJobControl'
    BY <2>1, <2>2 DEF IsJobControl, IsRootShell
  <2>6. AttachOK(tbl', todo')
    BY <2>1 DEF AttachOK, Calls, Idle
  <2> QED BY Zenon, <2>4, <2>5, <2>6 DEF TermInv
<1>2. CASE \E unwind \in BOOLEAN : EndLastPipe(unwind)
  <2>1. PICK unwind \in BOOLEAN : EndLastPipe(unwind)
    BY <1>2
  <2> DEFINE j == pipes[Len(pipes)]
             wop == IF unwind THEN "NONBLOCKING" ELSE ForegroundOp
  <2>2. /\ Idle /\ todo' = << WaitJob(j, wop, FALSE), DisposeEnd(j) >> /\ pipes # << >>
        /\ UNCHANGED <<tbl, level, tty>>
    BY Zenon, <2>1 DEF EndLastPipe
  <2>3. TopOK(tbl) /\ pipes \in Seq(Job)
    BY SMTT(30), <2>2, IdleTerm DEF IInv, TypeOK
  <2>4. WaitJob(j, wop, FALSE).op = "waitForJob" /\ DisposeEnd(j).op = "dispose"
    BY DEF WaitJob, DisposeEnd
  <2> HIDE DEF j, wop
  <2>5. Calls(todo') = {WaitJob(j, wop, FALSE), DisposeEnd(j)} /\ Calls(todo) = {}
    <3> DEFINE a == WaitJob(j, wop, FALSE)
               b == DisposeEnd(j)
    <3> HIDE DEF a, b
    <3>1. todo' = << a, b >>
      BY <2>2 DEF a, b
    <3>2. DOMAIN todo' = {1, 2} /\ todo'[1] = a /\ todo'[2] = b
      BY <3>1
    <3>3. Calls(todo') = {a, b}
      BY <3>2 DEF Calls
    <3>4. Calls(todo) = {}
      BY <2>2 DEF Calls, Idle
    <3> QED BY <3>3, <3>4 DEF a, b
  <2>6. CallsKept(todo, todo')
    BY Zenon, <2>4, <2>5 DEF CallsKept
  <2>7. OwnerKept(tbl, tty, tbl', tty')
    BY <2>2, <2>3 DEF OwnerKept
  <2> QED BY Zenon, <2>2, <2>6, <2>7, TermStep
<1> QED BY <1>1, <1>2

\* The terminal and the group of a new job: a job of job control joins the group
\* of the toplevel last-pipe if there is one and leads its own otherwise, and a
\* foreground one takes the terminal (vm.cpp:531-574, job.cpp:40-122).
LEMMA ForkTerminal ==
  ASSUME IInv, TermInv, Idle, NEW pids \in PidLists,
         NEW kind \in {"NONE", "JOB", "STR"}, Fork(kind, pids)
  PROVE  /\ \E n \in Nat \ {0} : pids \in [1..n -> Pid]
         /\ Grouped(kind) \in BOOLEAN
         /\ kind # "NONE" \/ ~IsJobControl => tty' = tty
         /\ ~IsJobControl => ~Grouped(kind)
         /\ IsJobControl /\ kind = "NONE" =>
              IF tbl.toplevel = NoJob THEN tty' = pids[1] /\ Grouped(kind)
              ELSE tty' = Owner(tbl)
<1>1. PICK n \in 1..MaxProc : pids \in [1..n -> FreePid]
  BY DEF PidLists
<1>2. n \in Nat \ {0} /\ pids \in [1..n -> Pid]
  BY <1>1, BoundAssumption DEF FreePid
<1>3. /\ tty' = IF IsJobControl /\ kind # "STR" /\ kind = "NONE"
                THEN IF ResolvePGID(kind) < 0 THEN pids[1] ELSE ResolvePGID(kind)
                ELSE tty
      /\ Grouped(kind) <=> IsJobControl /\ kind # "STR" /\ ResolvePGID(kind) < 0
  BY Zenon DEF Fork, Grouped
<1>4. Grouped(kind) \in BOOLEAN
  BY DEF Grouped
<1>5. IsJobControl /\ kind = "NONE" => ResolvePGID(kind) = ToplevelLastPipePGID(tbl)
  BY DEF ResolvePGID, IsJobControl
<1>6. /\ tbl.toplevel = NoJob => ToplevelLastPipePGID(tbl) = -1
      /\ tbl.toplevel # NoJob => /\ ToplevelLastPipePGID(tbl) = Owner(tbl)
                                 /\ Owner(tbl) > -1 /\ Owner(tbl) \in Pid
  BY IdleTerm, TopAvailable
<1>7. \A p \in Pid : ~(p < 0)
  BY PidAssumption
<1>8. -1 < 0
  OBVIOUS
<1>9. ASSUME IsJobControl, kind = "NONE"
      PROVE  IF tbl.toplevel = NoJob THEN tty' = pids[1] /\ Grouped(kind)
             ELSE tty' = Owner(tbl)
  <2>1. CASE tbl.toplevel = NoJob
    <3>1. ResolvePGID(kind) < 0
      BY SMTT(30), <1>5, <1>6, <1>9, <2>1
    <3> QED BY Zenon, <1>3, <1>9, <2>1, <3>1
  <2>2. CASE tbl.toplevel # NoJob
    <3>1. ~(ResolvePGID(kind) < 0) /\ ResolvePGID(kind) = Owner(tbl)
      BY Zenon, <1>5, <1>6, <1>7, <1>9, <2>2
    <3> QED BY Zenon, <1>3, <1>9, <2>2, <3>1
  <2> QED BY SMTT(30), <2>1, <2>2
<1> QED BY Zenon, <1>2, <1>3, <1>4, <1>9

\* A foreground job and a command substitution (vm.cpp:576-712, 750-861).
LEMMA RunWaitedTerm ==
  ASSUME IInv, TermInv, NEW j \in FreeJob, NEW pids \in PidLists,
         RunForeground(j, pids) \/ \E readOk \in BOOLEAN : RunCmdSub(j, pids, readOk)
  PROVE  TermInv'
<1>1. PICK kind \in {"NONE", "STR"} :
        /\ Idle /\ Fork(kind, pids) /\ level' = level
        /\ tbl' = Create(tbl, j, pids, FALSE, Grouped(kind))
        /\ kind = "NONE" =>
             todo' = << WaitProc(j, 1), AttachCall(j), ForegroundCall, WaitAny >>
        /\ kind = "STR" =>
             todo' \in {<< WaitProc(j, 1), AttachCall(j) >>, << AttachCall(j) >>}
  BY Zenon DEF RunForeground, RunCmdSub
<1>2. PICK n \in Nat \ {0} : pids \in [1..n -> Pid]
  BY SMTT(30), <1>1, ForkTerminal
<1>3. /\ Grouped(kind) \in BOOLEAN
      /\ kind = "STR" => tty' = tty
      /\ IsJobControl /\ kind = "NONE" /\ tbl.toplevel # NoJob => tty' = Owner(tbl)
  BY Zenon, <1>1, ForkTerminal
<1>4. /\ TableInv(tbl) /\ TopOK(tbl) /\ (IsJobControl => tty = Owner(tbl))
      /\ j \in Job /\ j \notin Attached(tbl) /\ j \notin {tbl.cur, tbl.prev, tbl.toplevel}
      /\ IsJobControl' = IsJobControl
  BY <1>1, IdleTerm DEF FreeJob, IsJobControl, IsRootShell
<1>5. /\ TopOK(tbl') /\ Owner(tbl') = Owner(tbl) /\ tbl'.toplevel = tbl.toplevel
      /\ j \notin tbl'.lastPipe
  <2> DEFINE g == Grouped(kind)
  <2>1. n \in Nat /\ g \in BOOLEAN /\ FALSE \in BOOLEAN
    BY Zenon, <1>2, <1>3
  <2> HIDE DEF g
  <2>2. ASSUME NEW lp \in BOOLEAN
        PROVE  LET u == Create(tbl, j, pids, lp, g)
               IN  /\ TopOK(u) /\ Owner(u) = Owner(tbl) /\ u.toplevel = tbl.toplevel
                   /\ j \in u.lastPipe <=> lp
    BY SMTT(30), <1>2, <1>4, <2>1, OwnerCreate
  <2>3. tbl' = Create(tbl, j, pids, FALSE, g)
    BY <1>1 DEF g
  <2> QED BY Zenon, <2>1, <2>2, <2>3
<1>6. /\ WaitProc(j, 1).op = "Proc::wait" /\ AttachCall(j).op = "attach"
      /\ AttachCall(j).job = j /\ ForegroundCall.op = "tryToBeForeground"
      /\ WaitAny.op = "waitForAny"
  BY DEF WaitProc, AttachCall, ForegroundCall, WaitAny
<1>7. /\ Calls(todo') \subseteq {WaitProc(j, 1), AttachCall(j), ForegroundCall, WaitAny}
      /\ kind = "NONE" => ForegroundCall \in Calls(todo')
  <2> DEFINE a == WaitProc(j, 1)
             b == AttachCall(j)
             c == ForegroundCall
             d == WaitAny
  <2> HIDE DEF a, b, c, d
  <2>1. Calls(<< a, b, c, d >>) = {a, b, c, d}
    <3>1. DOMAIN << a, b, c, d >> = {1, 2, 3, 4}
      OBVIOUS
    <3> QED BY <3>1 DEF Calls
  <2>2. Calls(<< a, b >>) = {a, b} /\ Calls(<< b >>) = {b}
    <3>1. DOMAIN << a, b >> = {1, 2} /\ DOMAIN << b >> = {1}
      OBVIOUS
    <3> QED BY <3>1 DEF Calls
  <2>3. /\ kind = "NONE" => todo' = << a, b, c, d >>
        /\ kind = "STR" => todo' \in {<< a, b >>, << b >>}
    BY <1>1 DEF a, b, c, d
  <2> QED BY SMTT(30), <2>1, <2>2, <2>3 DEF a, b, c, d
<1>8. AttachOK(tbl', todo')
  BY Zenon, <1>5, <1>6, <1>7 DEF AttachOK
<1>9. ASSUME IsJobControl'
      PROVE  tty' = Owner(tbl') \/ Restoring(tbl', todo')
  <2>1. IsJobControl /\ tty = Owner(tbl)
    BY <1>4, <1>9
  <2>2. CASE kind = "NONE" /\ tbl.toplevel = NoJob
    BY Zenon, <1>5, <1>6, <1>7, <2>2 DEF Restoring
  <2>3. CASE ~(kind = "NONE" /\ tbl.toplevel = NoJob)
    BY Zenon, <1>3, <1>5, <2>1, <2>3
  <2> QED BY SMTT(30), <2>2, <2>3
<1> QED BY Zenon, <1>5, <1>8, <1>9 DEF TermInv

\* A background job (vm.cpp:750-861) is attached at once and leaves the terminal
\* alone; a last-pipe takes it, as the toplevel one or inside its group
\* (vm.cpp:863-949).
LEMMA RunAttachedTerm ==
  ASSUME IInv, TermInv, NEW j \in FreeJob, NEW pids \in PidLists,
         \/ \E disown \in BOOLEAN : RunAsync(j, pids, disown)
         \/ \E dupOk \in BOOLEAN : RunLastPipe(j, pids, dupOk)
  PROVE  TermInv'
<1>1. PICK kind \in {"NONE", "JOB"}, lp \in BOOLEAN, disown \in BOOLEAN :
        /\ Idle /\ Fork(kind, pids) /\ level' = level /\ todo' = todo
        /\ tbl' = Attach(Create(tbl, j, pids, lp, Grouped(kind)), j, disown)
        /\ (kind = "NONE" <=> lp) /\ (lp => ~disown)
  <2>1. CASE \E disown \in BOOLEAN : RunAsync(j, pids, disown)
    <3>1. PICK disown \in BOOLEAN : RunAsync(j, pids, disown)
      BY <2>1
    <3>2. /\ Idle /\ Fork("JOB", pids) /\ level' = level /\ todo' = todo
          /\ tbl' = Attach(Create(tbl, j, pids, FALSE, Grouped("JOB")), j, disown)
      BY Zenon, <3>1 DEF RunAsync
    <3>3. "JOB" # "NONE"
      OBVIOUS
    <3> QED BY Zenon, <3>2, <3>3
  <2>2. CASE \E dupOk \in BOOLEAN : RunLastPipe(j, pids, dupOk)
    <3>1. /\ Idle /\ Fork("NONE", pids) /\ level' = level /\ todo' = todo
          /\ tbl' = Attach(Create(tbl, j, pids, TRUE, Grouped("NONE")), j, FALSE)
      BY Zenon, <2>2 DEF RunLastPipe
    <3> QED BY Zenon, <3>1
  <2> QED BY <2>1, <2>2
<1> DEFINE g == Grouped(kind)
           t == Create(tbl, j, pids, lp, g)
<1>2. PICK n \in Nat \ {0} : pids \in [1..n -> Pid]
  BY <1>1, ForkTerminal
<1>3. /\ g \in BOOLEAN
      /\ kind # "NONE" \/ ~IsJobControl => tty' = tty
      /\ ~IsJobControl => ~g
      /\ IsJobControl /\ kind = "NONE" =>
           IF tbl.toplevel = NoJob THEN tty' = pids[1] /\ g ELSE tty' = Owner(tbl)
  BY <1>1, ForkTerminal
<1>4. Forked(t, j, kst', kpg') /\ IsAvailable(t, j)
  <2>1. ForkResult(t, j, pids)
    BY Zenon, <1>1, ForkFacts
  <2> QED BY Zenon, <2>1 DEF ForkResult
<1> HIDE DEF g
<1>5. /\ TableInv(tbl) /\ TopOK(tbl) /\ (IsJobControl => tty = Owner(tbl))
      /\ j \in Job /\ j \notin Attached(tbl) /\ j \notin {tbl.cur, tbl.prev, tbl.toplevel}
      /\ IsJobControl' = IsJobControl /\ n \in Nat
  BY Zenon, <1>1, <1>2, IdleTerm DEF FreeJob, IsJobControl, IsRootShell
<1>6. /\ TopOK(t) /\ Owner(t) = Owner(tbl) /\ t.toplevel = tbl.toplevel
      /\ j \in t.lastPipe <=> lp
  BY SMTT(30), <1>2, <1>3, <1>5, OwnerCreate
<1>7. (j \in t.grouped <=> g) /\ t.procs[j][1].pid = pids[1]
  <2>1. (j \in t.grouped <=> g) /\ \A k \in 1..n : t.procs[j][k].pid = pids[k]
    <3>1. NewJob(tbl, j, n, pids)
      BY <1>2, <1>5 DEF NewJob
    <3>2. Created(tbl, j, n, pids, g, t)
      BY Zenon, <1>3, <3>1, CreateNamed
    <3> HIDE DEF t
    <3> QED BY Zenon, <3>2 DEF Created
  <2>2. 1 \in 1..n
    BY <1>2
  <2> QED BY Zenon, <2>1, <2>2
<1> HIDE DEF t
<1>8. /\ j \notin t.lastPipe \/ t.toplevel # NoJob \/ j \notin t.grouped =>
           OwnerKept(t, tty, tbl', tty)
      /\ ~disown /\ t.toplevel = NoJob /\ j \in t.lastPipe /\ j \in t.grouped =>
           Owner(tbl') = t.procs[j][1].pid /\ TopOK(tbl')
  <2>1. tbl' = Attach(t, j, disown)
    BY <1>1 DEF t, g
  <2> QED BY ZenonT(40), <1>4, <1>5, <1>6, <2>1, OwnerAttach
<1>9. AttachOK(tbl', todo')
  BY <1>1 DEF AttachOK, Calls, Idle
<1>10. CASE lp /\ g /\ tbl.toplevel = NoJob
  <2>1. TopOK(tbl') /\ Owner(tbl') = pids[1]
    BY Zenon, <1>1, <1>6, <1>7, <1>8, <1>10
  <2>2. tty' = pids[1]
    BY Zenon, <1>1, <1>3, <1>10
  <2> QED BY Zenon, <1>9, <2>1, <2>2 DEF TermInv
<1>11. CASE ~(lp /\ g /\ tbl.toplevel = NoJob)
  <2>1. OwnerKept(t, tty, tbl', tty)
    BY Zenon, <1>6, <1>7, <1>8, <1>11
  <2>2. TopOK(tbl') /\ (IsJobControl => Owner(tbl') = tty)
    BY Zenon, <1>5, <1>6, <2>1 DEF OwnerKept
  <2>3. IsJobControl => tty' = tty
    BY Zenon, <1>1, <1>3, <1>5, <1>11
  <2> QED BY Zenon, <1>5, <1>9, <2>2, <2>3 DEF TermInv
<1> QED BY <1>10, <1>11

\* A new shell.
LEMMA InitTerm == Init => TermInv
<1> SUFFICES ASSUME Init PROVE TermInv
  OBVIOUS
<1>1. tbl.toplevel = NoJob /\ tty = ShellPg /\ todo = << >>
  BY DEF Init, EmptyTable
<1>2. TopOK(tbl) /\ Owner(tbl) = ShellPg
  BY <1>1 DEF TopOK, Owner
<1>3. AttachOK(tbl, todo)
  BY <1>1 DEF AttachOK, Calls
<1> QED BY <1>1, <1>2, <1>3 DEF TermInv

\* Every step of the shell and of the kernel.
LEMMA NextTerm == IInv /\ TermInv /\ [Next]_vars => TermInv'
<1> SUFFICES ASSUME IInv, TermInv, [Next]_vars PROVE TermInv'
  OBVIOUS
<1>1. CASE UNCHANGED vars \/ KernelStep
  <2>1. UNCHANGED <<tbl, todo, level, tty>>
    BY Zenon, <1>1 DEF vars, KernelStep, Exit, Stop, Cont
  <2> QED BY <2>1, KernelTerm
<1>2. CASE Running
  <2>1. CASE Step
    <3>1. CASE AnyDone \/ JobEnter \/ JobGiveUp \/ NextDone \/ NextGiveUp
      BY Zenon, <3>1, WaitEndTerm DEF JobGiveUp, NextDone, NextGiveUp
    <3> QED BY Zenon, <2>1, <3>1, ForkedTerm, ForegroundTerm, FgEndTerm, DisposeTerm,
               SendMoreTerm DEF Step
  <2>2. CASE Interruption
    BY Zenon, <2>2, WaitEndTerm, ForkedTerm
       DEF Interruption, JobInterrupted, NextInterrupted
  <2>3. ASSUME NEW p \in Pid, Reap(p) PROVE TermInv'
    BY <2>3, ReapStepTerm
  <2> QED BY Zenon, <1>2, <2>1, <2>2, <2>3 DEF Running
<1>3. CASE Command
  <2>1. ASSUME NEW j \in FreeJob, NEW pids \in PidLists, NEW b \in BOOLEAN,
               \/ RunForeground(j, pids) \/ RunCmdSub(j, pids, b)
               \/ RunAsync(j, pids, b) \/ RunLastPipe(j, pids, b)
        PROVE  TermInv'
    BY <2>1, RunWaitedTerm, RunAttachedTerm
  <2>2. CASE EnterSubshell \/ \E u \in BOOLEAN : EndLastPipe(u)
    BY <2>2, OtherTerm
  <2>3. CASE BuiltinFg
    BY Zenon, <2>3, SignalBuiltin, CommandTerm
  <2>4. CASE BuiltinBg \/ BuiltinKill \/ JobKill
    <3>1. tty' = tty
      BY Zenon, <2>4 DEF BuiltinBg, BuiltinKill, JobKill
    <3> QED BY Zenon, <2>4, <3>1, SignalBuiltin, CommandTerm
  <2>5. CASE BuiltinWaitAll \/ BuiltinWait \/ BuiltinWaitPid \/ BuiltinWaitNext
               \/ JobWait \/ JobPoll
    <3>1. tty' = tty
      BY Zenon, <2>5 DEF BuiltinWaitAll, BuiltinWait, BuiltinWaitPid, WaitPid,
                         BuiltinWaitNext, JobWait, JobPoll
    <3> QED BY Zenon, <2>5, <3>1, WaitBuiltin, CommandTerm
  <2>6. CASE BuiltinJobs \/ HandleSigchld
    <3>1. tty' = tty
      BY <2>6 DEF BuiltinJobs, HandleSigchld
    <3> QED BY Zenon, <2>6, <3>1, QuietBuiltin, CommandTerm
  <2>7. TRUE \in BOOLEAN
    OBVIOUS
  <2> QED BY Zenon, <1>3, <2>1, <2>2, <2>3, <2>4, <2>5, <2>6, <2>7, DisownTerm
             DEF Command
<1> QED BY Zenon, <1>1, <1>2, <1>3 DEF Next

\* Between two commands the terminal belongs to the toplevel last-pipe job if
\* there is one and to the shell otherwise, whatever foreground job, `fg',
\* last-pipe or interrupted wait came before (job.cpp:604-648, vm.cpp:460-472,
\* redir.cpp:40-64, cmd_job.cpp:202-284).
THEOREM TerminalBack == Spec => []TerminalReturned
<1>1. IInv /\ TermInv => TerminalReturned
  <2>1. SUFFICES ASSUME IInv, TermInv, Idle, IsJobControl
                 PROVE  tty = IF ToplevelLastPipePGID(tbl) > -1
                              THEN ToplevelLastPipePGID(tbl) ELSE ShellPg
    BY DEF TerminalReturned
  <2>2. /\ tty = Owner(tbl) /\ TableInv(tbl) /\ TopOK(tbl) /\ tbl.deletedCount = 0
    BY <2>1, IdleTerm
  <2>3. CASE tbl.toplevel = NoJob
    <3>1. Owner(tbl) = ShellPg
      BY <2>3 DEF Owner
    <3>2. ~(ToplevelLastPipePGID(tbl) > -1)
      BY <2>2, <2>3, TopAvailable
    <3> QED BY Zenon, <2>2, <3>1, <3>2
  <2>4. CASE tbl.toplevel # NoJob
    <3>1. ToplevelLastPipePGID(tbl) = Owner(tbl) /\ Owner(tbl) > -1
      BY <2>2, <2>4, TopAvailable
    <3> QED BY Zenon, <2>2, <3>1
  <2> QED BY <2>3, <2>4
<1> QED BY <1>1, InitTerm, NextTerm, Invariance, PTL DEF Spec

=============================================================================

-------------------------- MODULE JobControl_proofs --------------------------
(***************************************************************************)
(* The safety properties of JobControl for any number of jobs, pids,       *)
(* processes per job, nested last-pipes and subshells.                     *)
(*                                                                         *)
(* The invariants of JobControl are not inductive as they stand.  What is  *)
(* missing is where the control of the shell is: todo holds calls of the   *)
(* known kinds, a job that has been forked and not attached is the one of  *)
(* the first call, deleted entries only exist inside a wait loop, and the  *)
(* processes of a job with a group of its own are in that group.           *)
(***************************************************************************)
EXTENDS JobControl, JobTable_proofs

-----------------------------------------------------------------------------
(* The inductive invariant *)

Call ==
  [op : {"waitForAny", "tryToBeForeground", "sendMore"}]
  \cup [op : {"waitForJob", "waitLoop"}, job : Job, wop : WaitOp, quiet : BOOLEAN]
  \cup [op : {"waitNext"}, jobs : SUBSET Job]
  \cup [op : {"Proc::wait"}, job : Job, offset : Nat]
  \cup [op : {"attach", "fgEnd", "dispose"}, job : Job]

\* No call for a forked job from position m on.
PlainFrom(s, m) == \A n \in m..Len(s) : s[n].op \notin {"Proc::wait", "attach"}

\* Proc::wait and attach of a forked job come first, in this order.
Shape(s) ==
  \/ PlainFrom(s, 1)
  \/ Len(s) >= 1 /\ s[1].op = "attach" /\ PlainFrom(s, 2)
  \/ /\ Len(s) >= 2 /\ s[1].op = "Proc::wait"
     /\ s[2].op = "attach" /\ s[2].job = s[1].job
     /\ PlainFrom(s, 3)

\* There is a job that has been forked and is not attached yet.
Forking == todo # << >> /\ Head(todo).op \in {"Proc::wait", "attach"}

\* Proc::wait goes through the processes in order.
WaitingOK ==
  LET c == Head(todo)
  IN  Calling("Proc::wait") =>
        /\ IsAvailable(tbl, c.job)
        /\ c.offset \in DOMAIN tbl.procs[c.job]
        /\ \A k \in DOMAIN tbl.procs[c.job] :
             k >= c.offset => k \in LiveOffsets(tbl, c.job)

\* Deleted entries wait for removeTerminatedJobs inside the wait loops only.
DeletedOK ==
  tbl.deletedCount # 0 => Calling("waitForAny") \/ Calling("waitLoop")

\* A process has a stop or a continuation to report only while it is in that
\* state.
ReportOK ==
  \A p \in Pid : /\ rep[p] = "stopped" => kst[p] = "stop"
                 /\ rep[p] = "continued" => kst[p] = "run"

IInv ==
  /\ TypeOK
  /\ todo \in Seq(Call) /\ Shape(todo)
  /\ Forking => Forked(tbl, Head(todo).job, kst, kpg)
  /\ ~Forking => Settled(tbl, kst, kpg)
  /\ WaitingOK
  /\ DeletedOK
  /\ ReportOK

-----------------------------------------------------------------------------
(* The calls of a handler *)

\* What the arguments of a call are.
LEMMA CallArgs ==
  ASSUME NEW c \in Call
  PROVE  /\ c.op \in {"waitForAny", "tryToBeForeground", "sendMore", "waitForJob",
                      "waitLoop", "waitNext", "Proc::wait", "attach", "fgEnd", "dispose"}
         /\ c.op \in {"waitForJob", "waitLoop"} =>
              c.job \in Job /\ c.wop \in WaitOp /\ c.quiet \in BOOLEAN
         /\ c.op \in {"attach", "fgEnd", "dispose"} => c.job \in Job
         /\ c.op = "Proc::wait" => c.job \in Job /\ c.offset \in Nat
         /\ c.op = "waitNext" => c.jobs \in SUBSET Job
BY ZenonT(30) DEF Call

\* The calls the handlers are made of.
LEMMA CallCons ==
  /\ WaitAny \in Call /\ ForegroundCall \in Call /\ SendMore \in Call
  /\ \A j \in Job, w \in WaitOp, b \in BOOLEAN :
       WaitJob(j, w, b) \in Call /\ WaitLoop(j, w, b) \in Call
  /\ \A S \in SUBSET Job : WaitNext(S) \in Call
  /\ \A j \in Job, k \in Nat : WaitProc(j, k) \in Call
  /\ \A j \in Job : AttachCall(j) \in Call /\ FgEnd(j) \in Call /\ DisposeEnd(j) \in Call
BY Zenon DEF Call, WaitAny, ForegroundCall, SendMore, WaitJob, WaitLoop, WaitNext, WaitProc,
       AttachCall, FgEnd, DisposeEnd

\* Returning from a call.
LEMMA ShapeTail ==
  ASSUME NEW s \in Seq(Call), s # << >>, Shape(s)
  PROVE  /\ Tail(s) \in Seq(Call) /\ Shape(Tail(s))
         /\ Head(s) \in Call
         /\ Head(s).op # "Proc::wait" => PlainFrom(Tail(s), 1)
         /\ Head(s).op = "Proc::wait" =>
              /\ Tail(s) # << >> /\ Head(Tail(s)).op = "attach"
              /\ Head(Tail(s)).job = Head(s).job
         /\ Head(s).op \notin {"Proc::wait", "attach"} => PlainFrom(s, 1)
<1>1. /\ Tail(s) \in Seq(Call) /\ Len(Tail(s)) = Len(s) - 1 /\ Len(s) \in Nat
      /\ Len(s) >= 1 /\ Head(s) = s[1] /\ Head(s) \in Call
      /\ \A n \in 1..Len(Tail(s)) : Tail(s)[n] = s[n + 1]
  OBVIOUS
<1>2. \A m \in 1..3 : PlainFrom(s, m + 1) => PlainFrom(Tail(s), m)
  BY <1>1 DEF PlainFrom
<1>3. CASE PlainFrom(s, 1)
  <2>1. PlainFrom(Tail(s), 1) /\ Head(s).op \notin {"Proc::wait", "attach"}
    BY <1>1, <1>3 DEF PlainFrom
  <2> QED BY Zenon, <1>1, <1>3, <2>1 DEF Shape
<1>4. CASE s[1].op = "attach" /\ PlainFrom(s, 2)
  <2>1. PlainFrom(Tail(s), 1)
    BY <1>1, <1>4 DEF PlainFrom
  <2> QED BY Zenon, <1>1, <1>4, <2>1 DEF Shape
<1>5. CASE /\ Len(s) >= 2 /\ s[1].op = "Proc::wait" /\ s[2].op = "attach"
           /\ s[2].job = s[1].job /\ PlainFrom(s, 3)
  <2>1. PlainFrom(Tail(s), 2)
    BY <1>1, <1>5 DEF PlainFrom
  <2>2. Len(Tail(s)) >= 1 /\ Tail(s)[1] = s[2] /\ Tail(s) # << >> /\ Head(Tail(s)) = s[2]
    <3>1. Len(Tail(s)) >= 1 /\ 1 \in 1..Len(Tail(s))
      BY <1>1, <1>5
    <3>2. Tail(s)[1] = s[2]
      BY <1>1, <3>1
    <3> DEFINE r == Tail(s)
    <3>3. r \in Seq(Call) /\ Len(r) >= 1
      BY <1>1, <3>1
    <3> HIDE DEF r
    <3>4. r # << >> /\ Head(r) = r[1]
      BY <3>3
    <3> QED BY Zenon, <3>1, <3>2, <3>4 DEF r
  <2> QED BY Zenon, <1>1, <1>5, <2>1, <2>2 DEF Shape
<1> QED BY Zenon, <1>3, <1>4, <1>5 DEF Shape

\* Replacing the first call by one that is not for a forked job.
LEMMA ShapeReplace ==
  ASSUME NEW s \in Seq(Call), s # << >>, PlainFrom(s, 1), NEW c \in Call,
         c.op \notin {"Proc::wait", "attach"}
  PROVE  LET r == << c >> \o Tail(s)
         IN  r \in Seq(Call) /\ PlainFrom(r, 1) /\ r # << >> /\ Head(r) = c
<1> DEFINE r == << c >> \o Tail(s)
<1>1. Tail(s) \in Seq(Call) /\ Len(Tail(s)) = Len(s) - 1 /\ Len(s) \in Nat
      /\ \A n \in 1..Len(Tail(s)) : Tail(s)[n] = s[n + 1]
  OBVIOUS
<1>2. r \in Seq(Call) /\ Len(r) = Len(s) /\ r[1] = c /\ r # << >> /\ Head(r) = c
  BY <1>1
<1>3. \A n \in 2..Len(r) : r[n] = s[n]
  BY <1>1, <1>2
<1>4. PlainFrom(r, 1)
  BY <1>2, <1>3 DEF PlainFrom
<1> QED BY <1>2, <1>4

-----------------------------------------------------------------------------
(* Settled states *)

\* Outside a fork the invariant says that the table is settled.
LEMMA SettledState ==
  ASSUME IInv, ~Forking
  PROVE  /\ Settled(tbl, kst, kpg) /\ PlainFrom(todo, 1)
         /\ Idle => tbl.deletedCount = 0
<1>1. Settled(tbl, kst, kpg) /\ todo \in Seq(Call) /\ Shape(todo)
  BY DEF IInv
<1>2. Idle => tbl.deletedCount = 0
  BY DEF IInv, DeletedOK, Calling, Idle
<1>3. CASE todo = << >>
  BY <1>1, <1>2, <1>3 DEF PlainFrom
<1>4. CASE todo # << >>
  BY Zenon, <1>1, <1>2, <1>4, ShapeTail DEF Forking
<1> QED BY <1>3, <1>4

\* ... and a settled state satisfies it.
LEMMA SettledInv ==
  ASSUME TypeOK', todo' \in Seq(Call), PlainFrom(todo', 1),
         Settled(tbl', kst', kpg'), DeletedOK', ReportOK'
  PROVE  IInv'
<1>1. ASSUME todo' # << >>
      PROVE  Head(todo').op \notin {"Proc::wait", "attach"}
  <2>1. Head(todo') = todo'[1] /\ 1 \in 1..Len(todo')
    BY <1>1
  <2> QED BY <2>1 DEF PlainFrom
<1>2. ~Forking' /\ WaitingOK'
  BY <1>1 DEF Forking, WaitingOK, Calling
<1> QED BY <1>2 DEF IInv, Shape

\* Giving the terminal to someone.
LEMMA TerminalType ==
  ASSUME NEW t, NEW ks, NEW kg, Settled(t, ks, kg), TypeOK, NEW j \in Job
  PROVE  JobForeground(t, j) \in Pid \cup {ShellPg} /\ ShellForeground(t) \in Pid \cup {ShellPg}
BY SettledPgid, PidAssumption DEF JobForeground, ShellForeground, TypeOK

-----------------------------------------------------------------------------
(* The kernel *)

\* What waitpid reports is about a child.
LEMMA ReportFacts ==
  ASSUME TypeOK, ReportOK, NEW p \in Pid, NEW w \in WaitOp, NEW kind \in Report(p, w)
  PROVE  /\ kind \in WaitKind /\ kst[p] # "none"
         /\ kind = "EXITED" <=> kst[p] = "zombie"
BY DEF TypeOK, ReportOK, Report, WaitKind, WaitOp

\* ... which exists no more when it has been reported to have ended.
LEMMA ReportedFacts ==
  ASSUME TypeOK, ReportOK, NEW p \in Pid, Reported(p)
  PROVE  /\ kst' \in [Pid -> {"none", "run", "stop", "zombie"}]
         /\ rep' \in [Pid -> {"none", "stopped", "continued"}]
         /\ kpg' \in [Pid -> Pid \cup {ShellPg}]
         /\ ReportOK'
         /\ kst[p] # "none" =>
              \A q \in Pid : kst'[q] # "none" <=>
                               kst[q] # "none" /\ (kst[p] = "zombie" => q # p)
         /\ \A q \in Pid : kst[p] # "zombie" \/ q # p => kpg'[q] = kpg[q]
BY DEF TypeOK, ReportOK, Reported

\* SIGCONT changes no more than whether a child runs.
LEMMA ContinueFacts ==
  ASSUME TypeOK, ReportOK, NEW S, Continue(S)
  PROVE  /\ kst' \in [Pid -> {"none", "run", "stop", "zombie"}]
         /\ rep' \in [Pid -> {"none", "stopped", "continued"}]
         /\ kpg' \in [Pid -> Pid \cup {ShellPg}] /\ kpg' = kpg
         /\ ReportOK'
         /\ \A q \in Pid : kst'[q] # "none" <=> kst[q] # "none"
BY DEF TypeOK, ReportOK, Continue

\* The kernel's own steps.
LEMMA KernelStepInv ==
  ASSUME IInv, KernelStep
  PROVE  IInv'
<1>1. PICK p \in Pid : Exit(p) \/ Stop(p) \/ Cont(p)
  BY DEF KernelStep
<1>2. TypeOK /\ ReportOK
  BY DEF IInv
<1>3. /\ kst' \in [Pid -> {"none", "run", "stop", "zombie"}]
      /\ rep' \in [Pid -> {"none", "stopped", "continued"}]
      /\ kpg' = kpg
      /\ ReportOK'
      /\ \A q \in Pid : kst'[q] # "none" <=> kst[q] # "none"
      /\ UNCHANGED <<tbl, todo, pipes, level, notified, tty>>
  <2>1. CASE Exit(p)
    BY Zenon, <1>2, <2>1 DEF Exit, TypeOK, ReportOK
  <2>2. CASE Stop(p)
    BY <1>2, <2>2 DEF Stop, TypeOK, ReportOK
  <2>3. CASE Cont(p)
    BY ZenonT(60), <1>2, <2>3, ContinueFacts DEF Cont, Continue
  <2> QED BY ZenonT(30), <1>1, <2>1, <2>2, <2>3
<1>4. TypeOK'
  BY ZenonT(30), <1>2, <1>3 DEF TypeOK
<1>5. /\ todo' \in Seq(Call) /\ Shape(todo') /\ (Forking' <=> Forking)
      /\ WaitingOK' /\ DeletedOK'
  BY <1>3 DEF IInv, Forking, WaitingOK, DeletedOK, Calling
<1>6. Forking => Forked(tbl, Head(todo).job, kst', kpg)
  BY Zenon, <1>3 DEF IInv, Forked
<1>7. ~Forking => Settled(tbl, kst', kpg)
  BY ZenonT(30), <1>3 DEF IInv, Settled
<1> QED BY ZenonT(30), <1>3, <1>4, <1>5, <1>6, <1>7 DEF IInv

-----------------------------------------------------------------------------
(* The wait loops *)

\* A report inside a wait loop: the job table takes it without a failed
\* assertion and stays settled.
LEMMA ReapFacts ==
  ASSUME IInv, ~Forking, NEW p \in Pid, NEW w \in WaitOp, NEW kind \in Report(p, w),
         Reported(p)
  PROVE  LET t == UpdateProcState(tbl, p, kind, NotifyCallback)
         IN  /\ UpdateAssertions(tbl, p)
             /\ FoundJob(tbl, p) \in Job
             /\ Settled(t, kst', kpg')
             /\ kst' \in [Pid -> {"none", "run", "stop", "zombie"}]
             /\ rep' \in [Pid -> {"none", "stopped", "continued"}]
             /\ kpg' \in [Pid -> Pid \cup {ShellPg}]
             /\ ReportOK'
<1>1. TypeOK /\ ReportOK /\ Settled(tbl, kst, kpg)
  BY DEF IInv
<1>2. kind \in WaitKind /\ kst[p] # "none" /\ (kind = "EXITED" <=> kst[p] = "zombie")
  BY <1>1, ReportFacts
<1>3. /\ kst' \in [Pid -> {"none", "run", "stop", "zombie"}]
      /\ rep' \in [Pid -> {"none", "stopped", "continued"}]
      /\ kpg' \in [Pid -> Pid \cup {ShellPg}]
      /\ ReportOK'
      /\ \A q \in Pid : kst'[q] # "none" <=>
                          kst[q] # "none" /\ (kind = "EXITED" => q # p)
      /\ \A q \in Pid : kind # "EXITED" \/ q # p => kpg'[q] = kpg[q]
  BY ZenonT(30), <1>1, <1>2, ReportedFacts
<1>4. p \in Live(tbl) /\ NotifyCallback \in BOOLEAN
  BY Zenon, <1>1, <1>2, OptionAssumption DEF Settled, NotifyCallback, IsRootShell
<1>5. Settled(UpdateProcState(tbl, p, kind, NotifyCallback), kst', kpg')
  BY SMTT(60), <1>1, <1>2, <1>3, <1>4, SettledUpdate
<1>6. UpdateAssertions(tbl, p) /\ FoundJob(tbl, p) \in Attached(tbl)
  <2>1. TableInv(tbl)
    BY <1>1 DEF Settled
  <2> QED BY ZenonT(30), <1>2, <1>4, <2>1, UpdateInv
<1>7. Attached(tbl) \subseteq Job
  BY <1>1 DEF Settled, TableInv, TableType, IsPartialFcn, Attached
<1> QED BY Zenon, <1>3, <1>5, <1>6, <1>7

\* Terminated jobs may have been removed after it.
LEMMA CleanupFacts ==
  ASSUME TypeOK, NEW t, NEW ks, NEW kg, Settled(t, ks, kg), Cleanup(t)
  PROVE  /\ Settled(tbl', ks, kg) /\ tbl'.deletedCount = 0
         /\ tty' \in Pid \cup {ShellPg}
BY SettledSyncRemove DEF Cleanup, TypeOK

\* notifyTermination (job.cpp:703-713) only counts.
LEMMA NotifyType ==
  ASSUME TypeOK, NEW t, NEW j \in Job \cup {NoJob}, NEW quiet, Notify(t, j, quiet)
  PROVE  notified' \in [Job -> Nat]
BY DEF TypeOK, Notify

\* One round of waitForAny (job.cpp:541-555).
LEMMA AnyReapInv ==
  ASSUME IInv, NEW p \in Pid, AnyReap(p)
  PROVE  IInv'
<1>1. Calling("waitForAny") /\ ~Forking
  BY DEF AnyReap, Calling, Forking
<1>2. PICK kind \in Report(p, "NONBLOCKING") :
        LET t == UpdateProcState(tbl, p, kind, NotifyCallback)
        IN  IF UpdateAssertions(tbl, p)
            THEN tbl' = t /\ Notify(t, FoundJob(tbl, p), FALSE) /\ UNCHANGED todo
            ELSE todo' = Abort /\ UNCHANGED <<tbl, notified>>
  BY ZenonT(60) DEF AnyReap
<1> DEFINE t == UpdateProcState(tbl, p, kind, NotifyCallback)
<1>3. Reported(p) /\ UNCHANGED <<pipes, level, tty>>
  BY DEF AnyReap
<1>4. /\ UpdateAssertions(tbl, p) /\ FoundJob(tbl, p) \in Job /\ Settled(t, kst', kpg')
      /\ kst' \in [Pid -> {"none", "run", "stop", "zombie"}]
      /\ rep' \in [Pid -> {"none", "stopped", "continued"}]
      /\ kpg' \in [Pid -> Pid \cup {ShellPg}] /\ ReportOK'
  BY Zenon, <1>1, <1>3, ReapFacts DEF WaitOp
<1>5. tbl' = t /\ Notify(t, FoundJob(tbl, p), FALSE) /\ todo' = todo
  BY ZenonT(60), <1>2, <1>4
<1> HIDE DEF t
<1>6. TypeOK /\ notified' \in [Job -> Nat] /\ todo \in Seq(Call) /\ PlainFrom(todo, 1)
  BY ZenonT(60), <1>1, <1>4, <1>5, NotifyType, SettledState DEF IInv
<1>7. TypeOK'
  BY Zenon, <1>3, <1>4, <1>5, <1>6 DEF TypeOK, Settled, TableInv
<1>8. DeletedOK'
  BY <1>1, <1>5 DEF DeletedOK, Calling
<1> QED BY Zenon, <1>4, <1>5, <1>6, <1>7, <1>8, SettledInv

\* A call returns from a settled state after removeTerminatedJobs.
LEMMA ReturnInv ==
  ASSUME IInv, ~Forking, todo' \in Seq(Call), PlainFrom(todo', 1),
         Cleanup(tbl), UNCHANGED <<pipes, level, notified, kernel>>
  PROVE  IInv'
<1>1. TypeOK /\ Settled(tbl, kst, kpg) /\ ReportOK
  BY DEF IInv
<1>2. /\ Settled(tbl', kst, kpg) /\ tbl'.deletedCount = 0
      /\ tty' \in Pid \cup {ShellPg}
  BY <1>1, CleanupFacts
<1>3. kst' = kst /\ rep' = rep /\ kpg' = kpg
  BY ZenonT(30) DEF kernel
<1>4. TypeOK'
  BY ZenonT(30), <1>1, <1>2, <1>3 DEF TypeOK, Settled, TableInv
<1>5. DeletedOK' /\ ReportOK'
  BY <1>1, <1>2, <1>3 DEF DeletedOK, ReportOK
<1> QED BY ZenonT(30), <1>2, <1>3, <1>4, <1>5, SettledInv

\* The end of waitForAny.
LEMMA AnyDoneInv ==
  ASSUME IInv, AnyDone
  PROVE  IInv'
<1>1. todo # << >> /\ ~Forking /\ Head(todo).op = "waitForAny"
  BY DEF AnyDone, Calling, Forking
<1>2. todo' = Tail(todo) /\ todo \in Seq(Call) /\ Shape(todo)
  BY DEF AnyDone, IInv
<1>3. todo' \in Seq(Call) /\ PlainFrom(todo', 1)
  BY <1>1, <1>2, ShapeTail
<1> QED BY <1>1, <1>3, ReturnInv DEF AnyDone

\* A step that only moves control between settled states.
LEMMA ControlInv ==
  ASSUME IInv, ~Forking, todo' \in Seq(Call), PlainFrom(todo', 1),
         DeletedOK', UNCHANGED <<tbl, pipes, level, notified, kernel, tty>>
  PROVE  IInv'
<1>1. TypeOK /\ Settled(tbl, kst, kpg) /\ ReportOK
  BY DEF IInv
<1>2. kst' = kst /\ rep' = rep /\ kpg' = kpg /\ tbl' = tbl
  BY DEF kernel
<1>3. TypeOK' /\ ReportOK'
  BY <1>1, <1>2 DEF TypeOK, ReportOK
<1> QED BY <1>1, <1>2, <1>3, SettledInv

\* A wait that fails leaves calls of the same kind (cmd_job.cpp:341-345).
LEMMA LeaveTargetsPlain ==
  ASSUME todo \in Seq(Call), PlainFrom(todo, 1), LeaveTargets
  PROVE  todo' \in Seq(Call) /\ PlainFrom(todo', 1)
<1>1. PICK n \in 1..Len(todo) : todo' = SubSeq(todo, n + 1, Len(todo))
  BY DEF LeaveTargets
<1>2. /\ todo' \in Seq(Call) /\ Len(todo') = Len(todo) - n /\ Len(todo) \in Nat
      /\ \A i \in 1..Len(todo') : todo'[i] = todo[n + i]
  BY SMTT(60), <1>1
<1>3. ASSUME NEW i \in 1..Len(todo') PROVE todo'[i] = todo[n + i] /\ n + i \in 1..Len(todo)
  BY SMTT(60), <1>2
<1>4. ASSUME NEW i \in 1..Len(todo') PROVE todo'[i].op \notin {"Proc::wait", "attach"}
  BY ZenonT(30), <1>3 DEF PlainFrom
<1> QED BY <1>2, <1>4 DEF PlainFrom

\* The entry checks of waitForJob (job.cpp:604-621).
LEMMA JobEnterInv ==
  ASSUME IInv, JobEnter
  PROVE  IInv'
<1> DEFINE c == Head(todo)
           r == << WaitLoop(c.job, c.wop, c.quiet) >> \o Tail(todo)
<1>1. todo # << >> /\ ~Forking /\ c.op = "waitForJob"
  BY DEF JobEnter, Calling, Forking
<1>2. todo \in Seq(Call) /\ Shape(todo) /\ PlainFrom(todo, 1)
  BY ZenonT(30), <1>1, SettledState DEF IInv
<1>3. c.job \in Job /\ c.wop \in WaitOp /\ c.quiet \in BOOLEAN
  BY Zenon, <1>1, <1>2, ShapeTail, CallArgs
<1>4. tbl.deletedCount = 0 /\ UNCHANGED <<tbl, pipes, level, notified, kernel, tty>>
  BY <1>1 DEF JobEnter, IInv, DeletedOK, Calling
<1>5. todo' \in {Tail(todo), r} \/ LeaveTargets
  BY Zenon DEF JobEnter
<1>6. WaitLoop(c.job, c.wop, c.quiet) \in Call
      /\ WaitLoop(c.job, c.wop, c.quiet).op \notin {"Proc::wait", "attach"}
  BY <1>3, CallCons DEF WaitLoop
<1>7. r \in Seq(Call) /\ PlainFrom(r, 1)
  <2> HIDE DEF c
  <2> QED BY ZenonT(30), <1>1, <1>2, <1>6, ShapeReplace
<1>8. Tail(todo) \in Seq(Call) /\ PlainFrom(Tail(todo), 1)
  BY <1>1, <1>2, ShapeTail
<1> HIDE DEF c, r
<1>9. DeletedOK'
  BY <1>4 DEF DeletedOK
<1>10. todo' \in Seq(Call) /\ PlainFrom(todo', 1)
  BY Zenon, <1>2, <1>5, <1>7, <1>8, LeaveTargetsPlain
<1> QED BY Zenon, <1>1, <1>4, <1>9, <1>10, ControlInv

\* One round of the loop of waitForJob (job.cpp:622-646).
LEMMA JobReapInv ==
  ASSUME IInv, NEW p \in Pid, JobReap(p)
  PROVE  IInv'
<1> DEFINE c == Head(todo)
<1>1. todo # << >> /\ ~Forking /\ c.op = "waitLoop"
  BY DEF JobReap, Calling, Forking
<1>2. todo \in Seq(Call) /\ Shape(todo) /\ PlainFrom(todo, 1) /\ TypeOK
  BY <1>1, SettledState DEF IInv
<1>3. c.job \in Job /\ c.wop \in WaitOp /\ c.quiet \in BOOLEAN
  BY <1>1, <1>2, ShapeTail, CallArgs
<1>4. PICK kind \in Report(p, c.wop) :
        LET t == UpdateProcState(tbl, p, kind, NotifyCallback)
            j == FoundJob(tbl, p)
            return == \/ IsTerminated(t, c.job)
                      \/ /\ j = c.job
                         /\ c.wop = "BLOCK_UNTRACED"
                         /\ kind = "STOPPED"
                         /\ HasLastStopped(t, c.job)
        IN  IF ~UpdateAssertions(tbl, p)
            THEN todo' = Abort /\ UNCHANGED <<tbl, notified, tty>>
            ELSE /\ Notify(t, j, j = c.job /\ c.quiet)
                 /\ IF return
                    THEN Cleanup(t) /\ todo' = Tail(todo)
                    ELSE tbl' = t /\ UNCHANGED <<todo, tty>>
  BY ZenonT(60) DEF JobReap
<1>5. Reported(p) /\ UNCHANGED <<pipes, level>>
  BY Zenon DEF JobReap
<1> DEFINE t == UpdateProcState(tbl, p, kind, NotifyCallback)
<1>6. /\ UpdateAssertions(tbl, p) /\ FoundJob(tbl, p) \in Job /\ Settled(t, kst', kpg')
      /\ kst' \in [Pid -> {"none", "run", "stop", "zombie"}]
      /\ rep' \in [Pid -> {"none", "stopped", "continued"}]
      /\ kpg' \in [Pid -> Pid \cup {ShellPg}] /\ ReportOK'
  BY <1>1, <1>3, <1>5, ReapFacts
<1>7. /\ Notify(t, FoundJob(tbl, p), FoundJob(tbl, p) = c.job /\ c.quiet)
      /\ \/ Cleanup(t) /\ todo' = Tail(todo)
         \/ tbl' = t /\ todo' = todo /\ tty' = tty
  BY Zenon, <1>4, <1>6
<1> HIDE DEF t, c
<1>8. notified' \in [Job -> Nat]
  BY ZenonT(30), <1>2, <1>6, <1>7, NotifyType
<1>9. CASE Cleanup(t) /\ todo' = Tail(todo)
  <2>1. Settled(tbl', kst', kpg') /\ tbl'.deletedCount = 0 /\ tty' \in Pid \cup {ShellPg}
    BY ZenonT(30), <1>2, <1>6, <1>9, CleanupFacts
  <2>2. todo' \in Seq(Call) /\ PlainFrom(todo', 1)
    BY Zenon, <1>1, <1>2, <1>9, ShapeTail DEF c
  <2>3. TypeOK' /\ DeletedOK'
    BY Zenon, <1>2, <1>5, <1>6, <1>8, <2>1 DEF TypeOK, DeletedOK, Settled, TableInv
  <2> QED BY ZenonT(30), <1>6, <2>1, <2>2, <2>3, SettledInv
<1>10. CASE tbl' = t /\ todo' = todo /\ tty' = tty
  <2>1. TypeOK'
    BY Zenon, <1>2, <1>5, <1>6, <1>8, <1>10 DEF TypeOK, Settled, TableInv
  <2>2. DeletedOK'
    BY <1>1, <1>10 DEF DeletedOK, Calling, c
  <2> QED BY Zenon, <1>2, <1>6, <1>10, <2>1, <2>2, SettledInv
<1> QED BY ZenonT(30), <1>7, <1>9, <1>10

\* The loop of waitForJob left by an error (job.cpp:624-627).
LEMMA JobFailInv ==
  ASSUME IInv, Calling("waitLoop"), JobFail
  PROVE  IInv'
<1>1. todo # << >> /\ ~Forking
  BY ZenonT(30) DEF Calling, Forking
<1>2. todo \in Seq(Call) /\ PlainFrom(todo, 1)
  <2>1. todo \in Seq(Call)
    BY Zenon DEF IInv
  <2> QED BY Zenon, <1>1, <2>1, SettledState
<1>3. todo' \in Seq(Call) /\ PlainFrom(todo', 1)
  BY Zenon, <1>2, LeaveTargetsPlain DEF JobFail
<1> QED BY <1>1, <1>3, ReturnInv DEF JobFail

\* One round of `wait -n' (cmd_job.cpp:286-353).
LEMMA NextReapInv ==
  ASSUME IInv, NEW p \in Pid, NextReap(p)
  PROVE  IInv'
<1>1. Calling("waitNext") /\ ~Forking
  BY ZenonT(60) DEF NextReap, Calling, Forking
<1>2. PICK kind \in Report(p, ForegroundOp) :
        LET t == UpdateProcState(tbl, p, kind, NotifyCallback)
        IN  IF UpdateAssertions(tbl, p)
            THEN Cleanup(t) /\ Notify(t, FoundJob(tbl, p), FALSE) /\ UNCHANGED todo
            ELSE todo' = Abort /\ UNCHANGED <<tbl, notified, tty>>
  BY Zenon DEF NextReap
<1> DEFINE t == UpdateProcState(tbl, p, kind, NotifyCallback)
<1>3. Reported(p) /\ UNCHANGED <<pipes, level>>
  BY Zenon DEF NextReap
<1>4. /\ UpdateAssertions(tbl, p) /\ FoundJob(tbl, p) \in Job /\ Settled(t, kst', kpg')
      /\ kst' \in [Pid -> {"none", "run", "stop", "zombie"}]
      /\ rep' \in [Pid -> {"none", "stopped", "continued"}]
      /\ kpg' \in [Pid -> Pid \cup {ShellPg}] /\ ReportOK'
  <2>1. ForegroundOp \in WaitOp
    BY DEF ForegroundOp, WaitOp
  <2> QED BY Zenon, <1>1, <1>3, <2>1, ReapFacts
<1>5. Cleanup(t) /\ Notify(t, FoundJob(tbl, p), FALSE) /\ todo' = todo
  BY Zenon, <1>2, <1>4
<1> HIDE DEF t
<1>6. TypeOK /\ notified' \in [Job -> Nat] /\ todo \in Seq(Call) /\ PlainFrom(todo, 1)
  BY ZenonT(60), <1>1, <1>4, <1>5, NotifyType, SettledState DEF IInv
<1>7. Settled(tbl', kst', kpg') /\ tbl'.deletedCount = 0 /\ tty' \in Pid \cup {ShellPg}
  BY <1>4, <1>5, <1>6, CleanupFacts
<1>8. TypeOK' /\ DeletedOK'
  BY Zenon, <1>3, <1>4, <1>6, <1>7 DEF TypeOK, DeletedOK, Settled, TableInv
<1> QED BY ZenonT(30), <1>4, <1>5, <1>6, <1>7, <1>8, SettledInv

\* The end of `wait -n'.
LEMMA NextEndInv ==
  ASSUME IInv, Calling("waitNext"), NextDone \/ NextFail
  PROVE  IInv'
<1>1. todo # << >> /\ ~Forking /\ Head(todo).op = "waitNext"
  BY DEF Calling, Forking
<1>2. todo' = Tail(todo) /\ todo \in Seq(Call) /\ Shape(todo)
  BY Zenon DEF NextDone, NextFail, IInv
<1>3. todo' \in Seq(Call) /\ PlainFrom(todo', 1)
  BY ZenonT(30), <1>1, <1>2, ShapeTail
<1>4. CASE NextDone
  <2>1. tbl.deletedCount = 0 /\ UNCHANGED <<tbl, pipes, level, notified, kernel, tty>>
    BY <1>1, <1>4 DEF NextDone, IInv, DeletedOK, Calling
  <2>2. DeletedOK'
    BY ZenonT(30), <2>1 DEF DeletedOK
  <2> QED BY ZenonT(30), <1>1, <1>3, <2>1, <2>2, ControlInv
<1>5. CASE NextFail
  BY <1>1, <1>3, <1>5, ReturnInv DEF NextFail
<1> QED BY <1>4, <1>5

-----------------------------------------------------------------------------
(* The calls for a forked job *)

\* Proc::wait on the next process of a forked job (job.cpp:430-452).
LEMMA ProcWaitInv ==
  ASSUME IInv, ProcWait
  PROVE  IInv'
<1> DEFINE c == Head(todo)
           j == c.job
           k == c.offset
           p == tbl.procs[j][k].pid
<1>1. todo # << >> /\ Forking /\ c.op = "Proc::wait" /\ Calling("Proc::wait")
  BY Zenon DEF ProcWait, Calling, Forking
<1>2. /\ todo \in Seq(Call) /\ Shape(todo) /\ TypeOK /\ ReportOK
      /\ Forked(tbl, j, kst, kpg) /\ tbl.deletedCount = 0
  BY ZenonT(30), <1>1 DEF IInv, DeletedOK, Calling
<1>3. /\ j \in Job /\ k \in Nat
      /\ Tail(todo) \in Seq(Call) /\ Shape(Tail(todo)) /\ Tail(todo) # << >>
      /\ Head(Tail(todo)).op = "attach" /\ Head(Tail(todo)).job = j
  BY ZenonT(30), <1>1, <1>2, ShapeTail, CallArgs
<1>4. /\ IsAvailable(tbl, j) /\ k \in DOMAIN tbl.procs[j]
      /\ \A o \in DOMAIN tbl.procs[j] : o >= k => o \in LiveOffsets(tbl, j)
  BY <1>1 DEF IInv, WaitingOK
<1>5. PICK kind \in Report(p, ForegroundOp) :
        LET t == SetProcState(tbl, j, k, kind)
        IN  /\ IF k = Len(tbl.procs[j])
               THEN tbl' = UpdateJob(t, j) /\ todo' = Tail(todo)
               ELSE tbl' = t /\ todo' = << WaitProc(j, k + 1) >> \o Tail(todo)
            /\ Reported(p)
  BY ZenonT(60) DEF ProcWait
<1> DEFINE t1 == SetProcState(tbl, j, k, kind)
           u  == UpdateJob(t1, j)
<1>6. UNCHANGED <<pipes, level, notified, tty>>
  BY Zenon DEF ProcWait
<1> HIDE DEF c
<1>7. tbl.procs[j] \in Seq(Proc) /\ k \in LiveOffsets(tbl, j) /\ p \in Pid
  <2>1. tbl.procs[j] \in Seq(Proc) /\ k \in LiveOffsets(tbl, j)
    BY SMTT(60), <1>2, <1>3, <1>4 DEF Forked, TableInv, TableType
  <2> HIDE DEF j, k
  <2>2. tbl.procs[j][k] \in Proc
    BY Zenon, <1>4, <2>1, ElementInDomain
  <2> QED BY ZenonT(30), <2>1, <2>2 DEF Proc
<1> HIDE DEF j, k
<1>8. kind \in WaitKind /\ kst[p] # "none" /\ (kind = "EXITED" <=> kst[p] = "zombie")
  <2>1. ForegroundOp \in WaitOp
    BY ZenonT(30) DEF ForegroundOp, WaitOp
  <2> HIDE DEF p
  <2> QED BY <1>2, <1>7, <2>1, ReportFacts
<1>9. /\ kst' \in [Pid -> {"none", "run", "stop", "zombie"}]
      /\ rep' \in [Pid -> {"none", "stopped", "continued"}]
      /\ kpg' \in [Pid -> Pid \cup {ShellPg}]
      /\ ReportOK'
      /\ \A q \in Pid : kst'[q] # "none" <=>
                          kst[q] # "none" /\ (kind = "EXITED" => q # p)
      /\ \A q \in Pid : kind # "EXITED" \/ q # p => kpg'[q] = kpg[q]
  <2>1. Reported(p)
    BY ZenonT(30), <1>5
  <2> HIDE DEF p
  <2> QED BY ZenonT(60), <1>2, <1>7, <1>8, <2>1, ReportedFacts
<1>10. /\ Forked(u, j, kst', kpg') /\ u.deletedCount = tbl.deletedCount
       /\ LiveOffsets(t1, j) # {} => u = t1
       /\ DOMAIN t1.procs[j] = DOMAIN tbl.procs[j]
       /\ LiveOffsets(t1, j) = IF kind = "EXITED" THEN LiveOffsets(tbl, j) \ {k}
                               ELSE LiveOffsets(tbl, j)
       /\ IsAvailable(t1, j)
  <2>1. \A q \in Pid : kst'[q] # "none" <=>
                         kst[q] # "none" /\ (kind = "EXITED" => q # tbl.procs[j][k].pid)
    BY ZenonT(60), <1>9
  <2>2. \A q \in Pid : kind # "EXITED" \/ q # tbl.procs[j][k].pid => kpg'[q] = kpg[q]
    BY ZenonT(60), <1>9
  <2>3. /\ Forked(tbl, j, kst, kpg) /\ j \in Job /\ IsAvailable(tbl, j)
        /\ k \in LiveOffsets(tbl, j) /\ kind \in WaitKind
    BY Zenon, <1>2, <1>3, <1>4, <1>7, <1>8
  <2> DEFINE ks2 == kst'
             kg2 == kpg'
  <2>4. /\ \A q \in Pid : ks2[q] # "none" <=>
                            kst[q] # "none" /\ (kind = "EXITED" => q # tbl.procs[j][k].pid)
        /\ \A q \in Pid : kind # "EXITED" \/ q # tbl.procs[j][k].pid => kg2[q] = kpg[q]
    BY Zenon, <2>1, <2>2
  <2> HIDE DEF ks2, kg2, p
  <2>5. WaitedFor(tbl, j, k, kind, kst, kpg, ks2, kg2)
    BY Zenon, <2>3, <2>4 DEF WaitedFor
  <2>6. Waited(tbl, j, k, kind, ks2, kg2, t1, u)
    BY Zenon, <2>5, ForkedWait
  <2> HIDE DEF t1, u
  <2> QED BY Zenon, <2>6 DEF Waited, ks2, kg2
<1>11. IF k = Len(tbl.procs[j]) THEN tbl' = u /\ todo' = Tail(todo)
       ELSE tbl' = t1 /\ todo' = << WaitProc(j, k + 1) >> \o Tail(todo)
  BY ZenonT(30), <1>5
<1> HIDE DEF t1, u, p
<1>12. CASE k = Len(tbl.procs[j])
  <2>1. tbl' = u /\ todo' = Tail(todo)
    BY <1>11, <1>12
  <2>2. TypeOK'
    BY ZenonT(60), <1>2, <1>6, <1>9, <1>10, <2>1 DEF TypeOK, Forked, TableInv
  <2>3. Forking' /\ Forked(tbl', Head(todo').job, kst', kpg') /\ WaitingOK'
    BY <1>3, <1>10, <2>1 DEF Forking, WaitingOK, Calling
  <2>4. DeletedOK'
    BY ZenonT(30), <1>2, <1>10, <2>1 DEF DeletedOK
  <2> QED BY ZenonT(30), <1>3, <1>9, <2>1, <2>2, <2>3, <2>4 DEF IInv
<1>13. CASE k # Len(tbl.procs[j])
  <2>1. tbl' = t1 /\ todo' = << WaitProc(j, k + 1) >> \o Tail(todo)
    BY ZenonT(30), <1>11, <1>13
  <2>2. /\ k + 1 \in DOMAIN tbl.procs[j] /\ k + 1 \in LiveOffsets(t1, j) /\ k + 1 \in Nat
        /\ \A o \in DOMAIN t1.procs[j] : o >= k + 1 => o \in LiveOffsets(t1, j)
    <3>1. k + 1 \in DOMAIN tbl.procs[j]
      BY SMTT(60), <1>3, <1>4, <1>7, <1>13
    <3>2. \A o \in DOMAIN tbl.procs[j] : o >= k + 1 => o >= k /\ o # k
      BY SMTT(60), <1>3, <1>7
    <3>3. \A o \in DOMAIN tbl.procs[j] : o >= k + 1 => o \in LiveOffsets(t1, j)
      BY ZenonT(30), <1>4, <1>10, <3>2
    <3> QED BY SMTT(60), <1>3, <1>10, <3>1, <3>3
  <2>3. u = t1
    BY <1>10, <2>2
  <2>4. TypeOK'
    BY Zenon, <1>2, <1>6, <1>9, <1>10, <2>1, <2>3 DEF TypeOK, Forked, TableInv
  <2>5. WaitProc(j, k + 1) \in Call /\ WaitProc(j, k + 1).op = "Proc::wait"
        /\ WaitProc(j, k + 1).job = j /\ WaitProc(j, k + 1).offset = k + 1
    BY <1>3, <2>2, CallCons DEF WaitProc
  <2>6. todo' \in Seq(Call) /\ todo' # << >> /\ Head(todo') = WaitProc(j, k + 1)
        /\ Tail(todo') = Tail(todo)
    <3> DEFINE r == Tail(todo)
               w == WaitProc(j, k + 1)
    <3> HIDE DEF r, w
    <3>1. r \in Seq(Call) /\ w \in Call /\ todo' = << w >> \o r
      BY <1>3, <2>1, <2>5 DEF r, w
    <3>2. todo' \in Seq(Call) /\ todo' # << >> /\ Head(todo') = w /\ Tail(todo') = r
      BY SMTT(60), <3>1
    <3> QED BY <3>2 DEF r, w
  <2>7. Shape(todo')
    <3> DEFINE r == Tail(todo)
    <3>1. PlainFrom(r, 2) /\ r \in Seq(Call) /\ Len(r) >= 1 /\ r[1].op = "attach"
          /\ r[1].job = j
      <4> HIDE DEF r
      <4>1. r \in Seq(Call) /\ Shape(r) /\ r # << >> /\ Head(r).op = "attach"
            /\ Head(r).job = j
        BY <1>3 DEF r
      <4>2. Len(r) >= 1 /\ Head(r) = r[1] /\ Len(r) \in Nat
        BY <4>1
      <4> QED BY <4>1, <4>2 DEF Shape, PlainFrom
    <3>2. todo' = << WaitProc(j, k + 1) >> \o r
      BY <2>1
    <3> HIDE DEF r
    <3>3. /\ Len(todo') = Len(r) + 1 /\ todo'[1] = WaitProc(j, k + 1) /\ Len(r) \in Nat
          /\ \A n \in 1..Len(r) : todo'[n + 1] = r[n]
      BY SMTT(60), <2>5, <3>1, <3>2
    <3>4. todo'[2] = r[1]
      BY <3>1, <3>3
    <3>5. \A n \in 3..Len(todo') : todo'[n] = r[n - 1] /\ n - 1 \in 2..Len(r)
      BY <3>3
    <3>6. PlainFrom(todo', 3)
      BY ZenonT(30), <3>1, <3>5 DEF PlainFrom
    <3> QED BY SMTT(60), <2>5, <3>1, <3>3, <3>4, <3>6 DEF Shape
  <2>8. Forking' /\ Forked(tbl', Head(todo').job, kst', kpg')
    BY ZenonT(30), <1>10, <2>1, <2>3, <2>5, <2>6 DEF Forking
  <2>9. WaitingOK'
    <3>1. /\ IsAvailable(tbl', j) /\ k + 1 \in DOMAIN tbl'.procs[j]
          /\ \A o \in DOMAIN tbl'.procs[j] : o >= k + 1 => o \in LiveOffsets(tbl', j)
      BY Zenon, <1>10, <2>1, <2>2
    <3>2. Head(todo').job = j /\ Head(todo').offset = k + 1
      BY Zenon, <2>5, <2>6
    <3> QED BY ZenonT(60), <3>1, <3>2 DEF WaitingOK
  <2>10. DeletedOK'
    BY ZenonT(30), <1>2, <1>10, <2>1, <2>3 DEF DeletedOK
  <2> QED BY ZenonT(30), <1>9, <2>4, <2>6, <2>7, <2>8, <2>9, <2>10 DEF IInv
<1> QED BY <1>12, <1>13

\* ... or an interrupted Proc::wait: the job is attached as it is.
LEMMA ProcWaitInterruptedInv ==
  ASSUME IInv, ProcWaitInterrupted
  PROVE  IInv'
<1>1. todo # << >> /\ Forking /\ Head(todo).op = "Proc::wait" /\ todo' = Tail(todo)
  BY DEF ProcWaitInterrupted, Calling, Forking
<1>2. /\ todo \in Seq(Call) /\ Shape(todo) /\ TypeOK /\ ReportOK
      /\ Forked(tbl, Head(todo).job, kst, kpg) /\ tbl.deletedCount = 0
  BY <1>1 DEF IInv, DeletedOK, Calling
<1>3. /\ todo' \in Seq(Call) /\ Shape(todo') /\ todo' # << >>
      /\ Head(todo').op = "attach" /\ Head(todo').job = Head(todo).job
  BY ZenonT(30), <1>1, <1>2, ShapeTail
<1>4. UNCHANGED <<tbl, pipes, level, notified, kst, rep, kpg, tty>>
  BY DEF ProcWaitInterrupted, kernel
<1>5. TypeOK' /\ ReportOK' /\ DeletedOK'
  BY <1>2, <1>4 DEF TypeOK, ReportOK, DeletedOK
<1>6. Forking' /\ Forked(tbl', Head(todo').job, kst', kpg') /\ WaitingOK'
  BY Zenon, <1>2, <1>3, <1>4 DEF Forking, WaitingOK, Calling
<1> QED BY ZenonT(30), <1>3, <1>5, <1>6 DEF IInv

\* Attaching the job that was forked and waited for (vm.cpp:460-472).
LEMMA CallAttachInv ==
  ASSUME IInv, CallAttach
  PROVE  IInv'
<1> DEFINE j == Head(todo).job
<1>1. todo # << >> /\ Forking /\ Head(todo).op = "attach"
  BY DEF CallAttach, Calling, Forking
<1>2. /\ todo \in Seq(Call) /\ Shape(todo) /\ TypeOK /\ ReportOK
      /\ Forked(tbl, j, kst, kpg) /\ tbl.deletedCount = 0
  BY ZenonT(30), <1>1 DEF IInv, DeletedOK, Calling
<1>3. j \in Job /\ Tail(todo) \in Seq(Call) /\ PlainFrom(Tail(todo), 1)
  BY ZenonT(30), <1>1, <1>2, ShapeTail, CallArgs
<1>4. /\ tbl' = Attach(tbl, j, FALSE) /\ todo' = Tail(todo)
      /\ UNCHANGED <<pipes, level, notified, kst, rep, kpg, tty>>
  BY DEF CallAttach, kernel
<1> HIDE DEF j
<1>5. Settled(tbl', kst', kpg') /\ tbl'.deletedCount = 0
  BY Zenon, <1>2, <1>3, <1>4, ForkedAttach
<1>6. TypeOK' /\ ReportOK' /\ DeletedOK'
  BY Zenon, <1>2, <1>4, <1>5 DEF TypeOK, ReportOK, DeletedOK, Settled, TableInv
<1> QED BY ZenonT(30), <1>3, <1>4, <1>5, <1>6, SettledInv

-----------------------------------------------------------------------------
(* The other calls and the builtins *)

\* A call that does not concern a forked job.
PlainCall == {c \in Call : c.op \notin {"Proc::wait", "attach"}}

\* What the handlers of the builtins are made of.
LEMMA PlainCons ==
  /\ WaitAny \in PlainCall /\ ForegroundCall \in PlainCall /\ SendMore \in PlainCall
  /\ \A j \in Job, w \in WaitOp, b \in BOOLEAN : WaitJob(j, w, b) \in PlainCall
  /\ \A S \in SUBSET Job : WaitNext(S) \in PlainCall
  /\ \A j \in Job : FgEnd(j) \in PlainCall /\ DisposeEnd(j) \in PlainCall
<1>1. /\ WaitAny.op = "waitForAny" /\ ForegroundCall.op = "tryToBeForeground"
      /\ SendMore.op = "sendMore"
      /\ \A j, w, b : WaitJob(j, w, b).op = "waitForJob"
      /\ \A S : WaitNext(S).op = "waitNext"
      /\ \A j : FgEnd(j).op = "fgEnd" /\ DisposeEnd(j).op = "dispose"
  BY DEF WaitAny, ForegroundCall, SendMore, WaitJob, WaitNext, FgEnd, DisposeEnd
<1> QED BY <1>1, CallCons DEF PlainCall

\* Handlers of up to three calls.
LEMMA PlainTuples ==
  \A a, b, c \in PlainCall : /\ << a >> \in Seq(PlainCall) /\ << a, b >> \in Seq(PlainCall)
                             /\ << a, b, c >> \in Seq(PlainCall)
OBVIOUS

\* A handler made of such calls only.
LEMMA PlainSeq ==
  ASSUME NEW s \in Seq(PlainCall)
  PROVE  s \in Seq(Call) /\ PlainFrom(s, 1)
<1>1. \A n \in 1..Len(s) : s[n] \in PlainCall
  OBVIOUS
<1>2. s \in Seq(Call)
  BY DEF PlainCall
<1> QED BY <1>1, <1>2 DEF PlainFrom, PlainCall

\* A builtin or a call that may signal processes, move the two job marks and
\* the terminal, and sets up what remains to be done.
LEMMA SendInv ==
  ASSUME IInv, ~Forking, tbl.deletedCount = 0,
         tbl' \in {tbl, SyncCurPrev(tbl)},
         UNCHANGED kernel \/ \E S : Continue(S),
         tty' \in Pid \cup {ShellPg},
         todo' \in Seq(Call), PlainFrom(todo', 1),
         UNCHANGED <<pipes, level, notified>>
  PROVE  IInv'
<1>1. Settled(tbl, kst, kpg) /\ TypeOK /\ ReportOK
  BY SettledState DEF IInv
<1>2. /\ kst' \in [Pid -> {"none", "run", "stop", "zombie"}]
      /\ rep' \in [Pid -> {"none", "stopped", "continued"}]
      /\ kpg' \in [Pid -> Pid \cup {ShellPg}] /\ kpg' = kpg
      /\ ReportOK'
      /\ \A q \in Pid : kst'[q] # "none" <=> kst[q] # "none"
  <2>1. CASE UNCHANGED kernel
    BY <1>1, <2>1 DEF kernel, TypeOK, ReportOK
  <2>2. CASE \E S : Continue(S)
    BY <1>1, <2>2, ContinueFacts
  <2> QED BY <2>1, <2>2
<1>3. Settled(tbl', kst, kpg) /\ tbl'.deletedCount = 0
  BY Zenon, <1>1, SettledSyncRemove
<1>4. Settled(tbl', kst', kpg')
  BY <1>2, <1>3, SettledKernel
<1>5. TypeOK' /\ DeletedOK'
  BY Zenon, <1>1, <1>2, <1>3 DEF TypeOK, DeletedOK, Settled, TableInv
<1> QED BY <1>2, <1>4, <1>5, SettledInv

\* What a job-spec resolves to (JobTable::lookup, job.cpp:766-807).
LEMMA LookupFacts ==
  ASSUME IInv, ~Forking, NEW x \in Lookup
  PROVE  /\ x[1] \in {tbl, SyncCurPrev(tbl)} /\ x[2] \in Job
         /\ Settled(x[1], kst, kpg) /\ x[1].deletedCount = tbl.deletedCount
<1> DEFINE s == SyncCurPrev(tbl)
           Ids(t) == {Find(t, i) : i \in DOMAIN t.jobs}
<1>1. Settled(tbl, kst, kpg) /\ Settled(s, kst, kpg) /\ s.deletedCount = tbl.deletedCount
  BY Zenon, SettledState, SettledSyncRemove
<1>2. /\ TableType(tbl) /\ TableType(s)
  BY <1>1 DEF Settled, TableInv
<1>3. Lookup = {y \in {<<tbl, j>> : j \in Ids(tbl)}
                        \cup {<<s, j>> : j \in Ids(s) \cup {s.cur, s.prev}} : y[2] # NoJob}
  BY DEF Lookup
<1> HIDE DEF s
<1>4. \A t : TableType(t) =>
        /\ \A i \in DOMAIN t.jobs : Find(t, i) \in Job \cup {NoJob}
        /\ t.cur \in Job \cup {NoJob} /\ t.prev \in Job \cup {NoJob}
  BY DEF TableType, IsPartialFcn, Find
<1>5. PICK j : /\ \/ x = <<tbl, j>> /\ j \in Ids(tbl)
                  \/ x = <<s, j>> /\ j \in Ids(s) \cup {s.cur, s.prev}
               /\ x[2] # NoJob
  <2> HIDE DEF Ids
  <2> QED BY <1>3
<1>6. x[1] \in {tbl, s} /\ x[2] = j /\ j # NoJob
  BY <1>5
<1>7. j \in Job
  BY <1>2, <1>4, <1>5, <1>6
<1> QED BY <1>1, <1>6, <1>7 DEF s

\* Between two commands the table is settled and clean.
LEMMA IdleState ==
  ASSUME IInv, Idle
  PROVE  /\ ~Forking /\ tbl.deletedCount = 0 /\ todo = << >>
         /\ todo \in Seq(PlainCall)
         /\ tty \in Pid \cup {ShellPg} /\ ForegroundOp \in WaitOp
<1>1. ~Forking
  BY DEF Forking, Idle
<1>2. ForegroundOp \in WaitOp
  BY DEF ForegroundOp, WaitOp
<1>3. tty \in Pid \cup {ShellPg}
  BY DEF IInv, TypeOK
<1>4. todo = << >>
  BY DEF Idle
<1> QED BY <1>1, <1>2, <1>3, <1>4, SettledState

\* The terminal goes back after a foreground job (vm.cpp:466-468).
LEMMA CallForegroundInv ==
  ASSUME IInv, CallForeground
  PROVE  IInv'
<1>1. todo # << >> /\ Head(todo).op = "tryToBeForeground" /\ ~Forking
  BY DEF CallForeground, Calling, Forking
<1>2. todo \in Seq(Call) /\ Shape(todo) /\ TypeOK /\ tbl.deletedCount = 0
  BY <1>1 DEF IInv, DeletedOK, Calling
<1>3. todo' \in Seq(Call) /\ PlainFrom(todo', 1)
  BY <1>1, <1>2, ShapeTail DEF CallForeground
<1>4. tty' \in Pid \cup {ShellPg}
  <2>1. ToplevelLastPipePGID(tbl) \in Pid \cup {-1}
    BY <1>1, SettledState, SettledPgid
  <2> QED BY <1>2, <2>1 DEF CallForeground, ShellForeground, TypeOK
<1> QED BY <1>1, <1>2, <1>3, <1>4, SendInv DEF CallForeground

\* The end of `fg' (cmd_job.cpp:202-284) and of a last-pipe (redir.cpp:40-64).
LEMMA CallEndInv ==
  ASSUME IInv, CallFgEnd \/ CallDispose
  PROVE  IInv'
<1> DEFINE j == Head(todo).job
<1>1. todo # << >> /\ Head(todo).op \in {"fgEnd", "dispose"} /\ ~Forking
  BY DEF CallFgEnd, CallDispose, Calling, Forking
<1>2. /\ todo \in Seq(Call) /\ Shape(todo) /\ TypeOK /\ tbl.deletedCount = 0
      /\ ReportOK
  BY <1>1 DEF IInv, DeletedOK, Calling
<1>3. Tail(todo) \in Seq(Call) /\ PlainFrom(Tail(todo), 1) /\ j \in Job
  BY Zenon, <1>1, <1>2, ShapeTail, CallArgs
<1>4. /\ todo' = Tail(todo)
      /\ UNCHANGED <<pipes, level, notified, kst, rep, kpg>>
      /\ tbl' \in {tbl, SetCurrentJob(tbl, j), RemoveToplevelIfSame(tbl, j)}
      /\ \/ tty' = ShellForeground(tbl')
         \/ tbl'.toplevel # NoJob /\ tty' = JobForeground(tbl', tbl'.toplevel)
  BY DEF CallFgEnd, CallDispose, kernel
<1> HIDE DEF j
<1>5. Settled(tbl', kst, kpg) /\ tbl'.deletedCount = 0
  BY Zenon, <1>1, <1>2, <1>3, <1>4, SettledState, SettledOps
<1>6. tty' \in Pid \cup {ShellPg}
  <2>1. tbl'.toplevel # NoJob => tbl'.toplevel \in Job
    BY <1>5 DEF Settled, TableInv, TableType
  <2> QED BY <1>2, <1>3, <1>4, <1>5, <2>1, TerminalType
<1>7. TypeOK' /\ ReportOK' /\ DeletedOK'
  BY Zenon, <1>2, <1>4, <1>5, <1>6 DEF TypeOK, ReportOK, DeletedOK, Settled, TableInv
<1> QED BY Zenon, <1>3, <1>4, <1>5, <1>7, SettledInv

\* The arguments of `bg' and `kill' (cmd_job.cpp:113-284).
LEMMA CallSendMoreInv ==
  ASSUME IInv, CallSendMore
  PROVE  IInv'
<1>1. todo # << >> /\ Head(todo).op = "sendMore" /\ ~Forking
  BY DEF CallSendMore, Calling, Forking
<1>2. todo \in Seq(Call) /\ TypeOK /\ tbl.deletedCount = 0
  BY <1>1 DEF IInv, DeletedOK, Calling
<1>3. todo' \in Seq(Call) /\ PlainFrom(todo', 1)
  <2>1. PlainFrom(todo, 1)
    BY <1>1, SettledState
  <2>2. WaitAny \in Call /\ WaitAny.op \notin {"Proc::wait", "attach"}
    BY CallCons DEF WaitAny
  <2>3. todo' = todo \/ todo' = << WaitAny >> \o Tail(todo)
    BY Zenon DEF CallSendMore
  <2> QED BY ZenonT(40), <1>1, <1>2, <2>1, <2>2, <2>3, ShapeReplace
<1>4. tbl' \in {tbl, SyncCurPrev(tbl)} /\ (UNCHANGED kernel \/ \E S : Continue(S))
  BY ZenonT(40), <1>1, LookupFacts DEF CallSendMore
<1>5. tty' \in Pid \cup {ShellPg} /\ UNCHANGED <<pipes, level, notified>>
  BY <1>2 DEF CallSendMore, TypeOK
<1> QED BY Zenon, <1>1, <1>2, <1>3, <1>4, <1>5, SendInv

\* A command that ends up waiting, or that is done at once.
CommandStep ==
  /\ Idle
  /\ todo' \in Seq(PlainCall)
  /\ tbl' \in {tbl, SyncCurPrev(tbl)}
  /\ UNCHANGED kernel \/ \E S : Continue(S)
  /\ tty' \in Pid \cup {ShellPg}
  /\ UNCHANGED <<pipes, level, notified>>

\* Such a command preserves the invariant.
LEMMA CommandInv ==
  ASSUME IInv, CommandStep
  PROVE  IInv'
<1>1. ~Forking /\ tbl.deletedCount = 0
  BY IdleState DEF CommandStep
<1>2. todo' \in Seq(Call) /\ PlainFrom(todo', 1)
  BY PlainSeq DEF CommandStep
<1> QED BY <1>1, <1>2, SendInv DEF CommandStep

\* The builtins that signal jobs (cmd_job.cpp:113-284, builtin.h:2905-2917).
LEMMA SignalBuiltin ==
  ASSUME IInv, BuiltinFg \/ BuiltinBg \/ BuiltinKill \/ JobKill
  PROVE  CommandStep
<1>1. Idle /\ UNCHANGED <<pipes, level, notified>>
  BY ZenonT(40) DEF BuiltinFg, BuiltinBg, BuiltinKill, JobKill
<1>2. ~Forking /\ tty \in Pid \cup {ShellPg} /\ TypeOK /\ Settled(tbl, kst, kpg)
  BY <1>1, IdleState, SettledState DEF IInv
<1>3. CASE BuiltinFg
  <2>1. PICK x \in Lookup :
          /\ tbl' = x[1] /\ tty' = JobForeground(tbl, x[2]) /\ Continue(SendTargets(x[2]))
          /\ todo' = << WaitAny, WaitJob(x[2], "BLOCK_UNTRACED", TRUE), FgEnd(x[2]) >>
    BY Zenon, <1>3 DEF BuiltinFg
  <2>2. tbl' \in {tbl, SyncCurPrev(tbl)} /\ x[2] \in Job
    BY <1>2, <2>1, LookupFacts
  <2>3. "BLOCK_UNTRACED" \in WaitOp
    BY DEF WaitOp
  <2>4. /\ WaitAny \in PlainCall /\ WaitJob(x[2], "BLOCK_UNTRACED", TRUE) \in PlainCall
        /\ FgEnd(x[2]) \in PlainCall
    BY Zenon, <2>2, <2>3, PlainCons
  <2>5. todo' \in Seq(PlainCall)
    BY ZenonT(40), <2>1, <2>4, PlainTuples
  <2>6. tty' \in Pid \cup {ShellPg}
    BY <1>2, <2>1, <2>2, TerminalType
  <2> QED BY Zenon, <1>1, <2>1, <2>2, <2>5, <2>6 DEF CommandStep
<1>4. CASE BuiltinBg
  <2>1. tbl' \in {tbl, SyncCurPrev(tbl)} /\ (UNCHANGED kernel \/ \E S : Continue(S))
    BY <1>2, <1>4, LookupFacts DEF BuiltinBg
  <2>2. todo' = << WaitAny, SendMore >> \/ todo' = << SendMore >>
    BY <1>4 DEF BuiltinBg
  <2>3. todo' \in Seq(PlainCall)
    BY Zenon, <2>2, PlainCons, PlainTuples
  <2>4. tty' = tty
    BY <1>4 DEF BuiltinBg
  <2> QED BY ZenonT(40), <1>1, <1>2, <2>1, <2>3, <2>4 DEF CommandStep
<1>5. CASE BuiltinKill \/ JobKill
  <2>1. todo' = << WaitAny >> \/ todo' = << SendMore >>
    BY <1>5 DEF BuiltinKill, JobKill
  <2>2. todo' \in Seq(PlainCall)
    BY ZenonT(40), <2>1, PlainCons, PlainTuples
  <2>3. /\ tbl' = tbl /\ tty' = tty
        /\ UNCHANGED kernel \/ \E S : Continue(S)
    BY <1>5 DEF BuiltinKill, JobKill
  <2> QED BY ZenonT(40), <1>1, <1>2, <2>2, <2>3 DEF CommandStep
<1> QED BY <1>3, <1>4, <1>5

\* The builtins that wait for jobs (cmd_job.cpp:286-353, builtin.h:2882-2902).
LEMMA WaitBuiltin ==
  ASSUME IInv, BuiltinWaitAll \/ BuiltinWait \/ BuiltinWaitPid \/ BuiltinWaitNext
                 \/ JobWait \/ JobPoll
  PROVE  CommandStep
<1>1. Idle /\ UNCHANGED <<pipes, level, notified, tty>> /\ UNCHANGED kernel
  BY ZenonT(40) DEF BuiltinWaitAll, BuiltinWait, BuiltinWaitPid, WaitPid, BuiltinWaitNext, JobWait,
         JobPoll
<1>2. /\ ~Forking /\ tty \in Pid \cup {ShellPg} /\ TableType(tbl)
      /\ ForegroundOp \in WaitOp /\ "NONBLOCKING" \in WaitOp
  BY Zenon, <1>1, IdleState DEF IInv, TypeOK, WaitOp
<1> DEFINE W(j) == WaitJob(j, ForegroundOp, FALSE)
<1>3. WaitAny \in PlainCall /\ \A j \in Job : W(j) \in PlainCall
  BY ZenonT(40), <1>2, PlainCons
<1>4. SUFFICES todo' \in Seq(PlainCall) /\ tbl' \in {tbl, SyncCurPrev(tbl)}
  BY Zenon, <1>1, <1>2 DEF CommandStep
<1>5. CASE BuiltinWaitAll
  <2> DEFINE ids == {i \in DOMAIN tbl.jobs : /\ tbl.jobs[i] \notin tbl.disowned
                                             /\ IsControlled(tbl, tbl.jobs[i])}
  <2>1. PICK m \in 0..MaxJob : \E q \in [1..m -> ids] :
          todo' = [n \in 1..m |-> W(tbl.jobs[q[n]])] \o << WaitAny >>
    BY Zenon, <1>5 DEF BuiltinWaitAll
  <2>2. PICK q \in [1..m -> ids] :
          todo' = [n \in 1..m |-> W(tbl.jobs[q[n]])] \o << WaitAny >>
    BY Zenon, <2>1
  <2>3. \A i \in ids : tbl.jobs[i] \in Job
    BY <1>2 DEF TableType, IsPartialFcn
  <2> HIDE DEF ids, W
  <2>4. \A n \in 1..m : W(tbl.jobs[q[n]]) \in PlainCall
    BY <1>3, <2>3
  <2>5. [n \in 1..m |-> W(tbl.jobs[q[n]])] \in Seq(PlainCall)
    BY <2>4, MaxJobAssumption
  <2>6. << WaitAny >> \in Seq(PlainCall)
    BY <1>3
  <2>7. tbl' = tbl
    BY Zenon, <1>5 DEF BuiltinWaitAll
  <2> QED BY <2>2, <2>5, <2>6, <2>7
<1>6. CASE BuiltinWait
  <2>1. PICK x \in Lookup, y \in Lookup :
          /\ tbl' = x[1]
          /\ todo' \in {<< W(x[2]), WaitAny >>, << W(x[2]), W(y[2]), WaitAny >>}
    BY Zenon, <1>6 DEF BuiltinWait
  <2>2. tbl' \in {tbl, SyncCurPrev(tbl)} /\ x[2] \in Job /\ y[2] \in Job
    BY <1>2, <2>1, LookupFacts
  <2>3. W(x[2]) \in PlainCall /\ W(y[2]) \in PlainCall
    BY Zenon, <1>3, <2>2
  <2> HIDE DEF W
  <2> QED BY Zenon, <1>3, <2>1, <2>2, <2>3, PlainTuples
<1>7. CASE BuiltinWaitPid \/ JobWait
  <2>1. PICK j \in Job : todo' = << W(j), WaitAny >>
    <3>1. \A i : Find(tbl, i) # NoJob => Find(tbl, i) \in Job
      BY <1>2 DEF TableType, IsPartialFcn, Find
    <3>2. CASE BuiltinWaitPid
      <4>1. PICK p \in DOMAIN tbl.entries :
              Find(tbl, tbl.entries[p].jobId) # NoJob /\ WaitPid(p)
        BY <3>2 DEF BuiltinWaitPid
      <4>2. FindProc(tbl, p) = p
        BY <1>2, FindProcHit
      <4> QED BY Zenon, <3>1, <4>1, <4>2 DEF WaitPid
    <3>3. CASE JobWait
      BY Zenon, <3>3 DEF JobWait, Held
    <3> QED BY Zenon, <1>7, <3>2, <3>3
  <2>2. W(j) \in PlainCall
    BY Zenon, <1>3
  <2>3. tbl' = tbl
    BY Zenon, <1>7 DEF BuiltinWaitPid, WaitPid, JobWait
  <2> HIDE DEF W
  <2> QED BY Zenon, <1>3, <2>1, <2>2, <2>3, PlainTuples
<1>8. CASE BuiltinWaitNext
  <2> DEFINE S == {j \in Attached(tbl) : j \notin tbl.disowned /\ IsControlled(tbl, j)}
  <2>1. S \in SUBSET Job
    BY <1>2 DEF Attached, TableType, IsPartialFcn
  <2>2. \/ todo' = << WaitNext(S), WaitAny >> /\ tbl' = tbl
        \/ \E x, y \in Lookup : tbl' = x[1] /\ todo' = << WaitNext({x[2], y[2]}), WaitAny >>
    BY Zenon, <1>8 DEF BuiltinWaitNext
  <2>3. PICK T \in SUBSET Job :
          todo' = << WaitNext(T), WaitAny >> /\ tbl' \in {tbl, SyncCurPrev(tbl)}
    <3> HIDE DEF S
    <3>1. ASSUME NEW x \in Lookup, NEW y \in Lookup
          PROVE  x[1] \in {tbl, SyncCurPrev(tbl)} /\ {x[2], y[2]} \in SUBSET Job
      BY <1>2, LookupFacts
    <3> QED BY Zenon, <2>1, <2>2, <3>1
  <2>4. WaitNext(T) \in PlainCall
    BY <2>3, PlainCons
  <2> QED BY ZenonT(40), <1>3, <2>3, <2>4, PlainTuples
<1>9. CASE JobPoll
  <2>1. PICK j \in Job : todo' = << WaitJob(j, "NONBLOCKING", FALSE) >>
    BY Zenon, <1>9 DEF JobPoll, Held
  <2>2. WaitJob(j, "NONBLOCKING", FALSE) \in PlainCall
    BY Zenon, <1>2, PlainCons
  <2>3. tbl' = tbl
    BY <1>9 DEF JobPoll
  <2> QED BY Zenon, <2>1, <2>2, <2>3, PlainTuples
<1> QED BY <1>5, <1>6, <1>7, <1>8, <1>9

\* `jobs', and SIGCHLD found pending (cmd_job.cpp:367-451, vm.cpp:1536-1547).
LEMMA QuietBuiltin ==
  ASSUME IInv, BuiltinJobs \/ HandleSigchld
  PROVE  CommandStep
<1>1. Idle /\ UNCHANGED <<pipes, level, notified, tty>> /\ UNCHANGED kernel
  BY DEF BuiltinJobs, HandleSigchld
<1>2. todo \in Seq(PlainCall) /\ tty \in Pid \cup {ShellPg}
  BY <1>1, IdleState
<1>3. tbl' \in {tbl, SyncCurPrev(tbl)}
  BY DEF BuiltinJobs, HandleSigchld
<1>4. todo' \in Seq(PlainCall)
  BY ZenonT(40), <1>2, PlainCons, PlainTuples DEF BuiltinJobs, HandleSigchld
<1> QED BY Zenon, <1>1, <1>2, <1>3, <1>4 DEF CommandStep

\* `disown' (cmd_job.cpp:453-482, builtin.h:2920-2925).
LEMMA DisownInv ==
  ASSUME IInv, BuiltinDisown
  PROVE  IInv'
<1>1. Idle /\ UNCHANGED <<todo, pipes, level, notified, kst, rep, kpg, tty>>
  BY DEF BuiltinDisown, kernel
<1>2. ~Forking /\ tbl.deletedCount = 0 /\ TypeOK /\ ReportOK /\ todo' \in Seq(PlainCall)
  BY <1>1, IdleState DEF IInv
<1>3. PICK x \in Lookup \cup {<<tbl, j>> : j \in Held} : tbl' = Disown(x[1], x[2])
  BY DEF BuiltinDisown
<1>4. /\ x[2] \in Job /\ Settled(x[1], kst, kpg) /\ x[1].deletedCount = 0
  <2>1. CASE x \in Lookup
    BY Zenon, <1>2, <2>1, LookupFacts
  <2>2. CASE x \in {<<tbl, j>> : j \in Held}
    BY <1>2, <2>2, SettledState DEF Held
  <2> QED BY <2>1, <2>2
<1>5. Settled(tbl', kst, kpg) /\ tbl'.deletedCount = 0
  BY Zenon, <1>3, <1>4, SettledOps
<1>6. TypeOK' /\ ReportOK' /\ DeletedOK'
  BY Zenon, <1>1, <1>2, <1>5 DEF TypeOK, ReportOK, DeletedOK, Settled, TableInv
<1> QED BY Zenon, <1>1, <1>2, <1>5, <1>6, PlainSeq, SettledInv

\* The end of a last-pipe (vm.cpp:2116-2140, redir.cpp:40-64).
LEMMA EndLastPipeInv ==
  ASSUME IInv, NEW unwind \in BOOLEAN, EndLastPipe(unwind)
  PROVE  IInv'
<1> DEFINE j == pipes[Len(pipes)]
           wop == IF unwind THEN "NONBLOCKING" ELSE ForegroundOp
<1>1. /\ Idle /\ pipes # << >> /\ todo' = << WaitJob(j, wop, FALSE), DisposeEnd(j) >>
      /\ pipes' = SubSeq(pipes, 1, Len(pipes) - 1)
      /\ UNCHANGED <<tbl, level, notified, kst, rep, kpg, tty>>
  BY DEF EndLastPipe, kernel
<1>2. /\ ~Forking /\ TypeOK /\ ReportOK /\ tbl.deletedCount = 0 /\ pipes \in Seq(Job)
      /\ Settled(tbl, kst, kpg) /\ ForegroundOp \in WaitOp
  BY Zenon, <1>1, IdleState, SettledState DEF IInv, TypeOK
<1>3. j \in Job /\ pipes' \in Seq(Job) /\ wop \in WaitOp
  <2>1. Len(pipes) \in 1..Len(pipes)
    BY <1>1, <1>2
  <2>2. pipes' \in Seq(Job)
    BY <1>1, <1>2
  <2> QED BY <1>2, <2>1, <2>2 DEF WaitOp
<1> HIDE DEF j, wop
<1>4. todo' \in Seq(PlainCall)
  BY Zenon, <1>1, <1>3, PlainCons, PlainTuples
<1>5. TypeOK' /\ ReportOK' /\ DeletedOK'
  BY <1>1, <1>2, <1>3 DEF TypeOK, ReportOK, DeletedOK
<1> QED BY Zenon, <1>1, <1>2, <1>4, <1>5, PlainSeq, SettledInv

\* A subshell (vm.cpp:576-665, job.h:597-603) owns no process at all.
LEMMA EnterSubshellInv ==
  ASSUME IInv, EnterSubshell
  PROVE  IInv'
<1>1. /\ Idle /\ level < MaxLevel /\ level' = level + 1
      /\ tbl' = LoseControlOfJobs(tbl)
      /\ kst' = [p \in Pid |-> "none"] /\ rep' = [p \in Pid |-> "none"]
      /\ kpg' = [p \in Pid |-> ShellPg]
      /\ UNCHANGED <<todo, pipes, notified, tty>>
  BY Zenon DEF EnterSubshell
<1>2. /\ ~Forking /\ TypeOK /\ Settled(tbl, kst, kpg) /\ todo' \in Seq(PlainCall)
  BY ZenonT(40), <1>1, IdleState, SettledState DEF IInv
<1>3. /\ TableInv(tbl') /\ Live(tbl') = {} /\ tbl'.deletedCount = 0
      /\ \A j \in Job : IsAvailable(tbl', j) => IsAvailable(tbl, j) /\ tbl.jobID[j] = 0
  BY ZenonT(40), <1>1, <1>2, LoseControlInv DEF Settled
<1>4. \A j \in Job : ~IsAvailable(tbl', j)
  BY Zenon, <1>2, <1>3 DEF Settled
<1>5. tbl'.grouped \subseteq Job
  BY Zenon, <1>3 DEF TableInv, TableType
<1>6. Settled(tbl', kst', kpg')
  BY Zenon, <1>1, <1>3, <1>4, <1>5 DEF Settled, Group
<1>7. level' \in 0..MaxLevel
  BY <1>1, <1>2, BoundAssumption DEF TypeOK
<1>8. TypeOK' /\ ReportOK' /\ DeletedOK'
  BY ZenonT(40), <1>1, <1>2, <1>3, <1>7 DEF TypeOK, ReportOK, DeletedOK, TableInv
<1> QED BY Zenon, <1>2, <1>6, <1>8, PlainSeq, SettledInv

-----------------------------------------------------------------------------
(* Forking *)

\* What forking the processes pids of a job j leaves: u is the table with the
\* new job object in it.
ForkResult(u, j, pids) ==
  /\ j \in Job /\ Len(pids) \in Nat /\ 1 \in DOMAIN pids
  /\ Forked(u, j, kst', kpg') /\ u.deletedCount = 0
  /\ IsAvailable(u, j)
  /\ DOMAIN u.procs[j] = DOMAIN pids /\ LiveOffsets(u, j) = DOMAIN pids
  /\ kst' \in [Pid -> {"none", "run", "stop", "zombie"}]
  /\ rep' \in [Pid -> {"none", "stopped", "continued"}]
  /\ kpg' \in [Pid -> Pid \cup {ShellPg}]
  /\ tty' \in Pid \cup {ShellPg}
  /\ ReportOK'

\* resolvePGID, resolveProcParam and Proc::fork (vm.cpp:531-574, job.cpp:40-122)
\* for all processes of a new job object.
LEMMA ForkFacts ==
  ASSUME IInv, Idle, NEW j \in FreeJob, NEW pids \in PidLists,
         NEW kind \in {"NONE", "JOB", "STR"}, Fork(kind, pids), NEW lp \in BOOLEAN
  PROVE  ForkResult(Create(tbl, j, pids, lp, Grouped(kind)), j, pids)
<1> DEFINE jobControl == IsJobControl /\ kind # "STR"
           pgid == IF ~jobControl THEN ShellPg
                   ELSE IF ResolvePGID(kind) < 0 THEN pids[1] ELSE ResolvePGID(kind)
           ps == {pids[k] : k \in DOMAIN pids}
           g == Grouped(kind)
<1>1. PICK n \in 1..MaxProc : /\ pids \in [1..n -> FreePid]
                              /\ \A a, b \in 1..n : a # b => pids[a] # pids[b]
  BY DEF PidLists
<1>2. /\ n \in Nat \ {0} /\ DOMAIN pids = 1..n /\ pids \in [1..n -> Pid] /\ Len(pids) = n
      /\ \A k \in 1..n : kst[pids[k]] = "none"
  <2>1. n \in Nat \ {0} /\ DOMAIN pids = 1..n
    BY <1>1, BoundAssumption
  <2>2. \A k \in 1..n : pids[k] \in Pid /\ kst[pids[k]] = "none"
    BY <1>1 DEF FreePid, Child
  <2>3. pids \in Seq(FreePid) /\ Len(pids) = n
    BY <1>1, <2>1
  <2> QED BY Zenon, <1>1, <2>1, <2>2, <2>3
<1>3. /\ DOMAIN tbl.jobs # JobId
      /\ kst' = [p \in Pid |-> IF p \in ps THEN "run" ELSE kst[p]]
      /\ rep' = [p \in Pid |-> IF p \in ps THEN "none" ELSE rep[p]]
      /\ kpg' = [p \in Pid |-> IF p \in ps THEN pgid ELSE kpg[p]]
      /\ tty' = IF jobControl /\ kind = "NONE" THEN pgid ELSE tty
  BY Zenon DEF Fork
<1>4. /\ Settled(tbl, kst, kpg) /\ tbl.deletedCount = 0 /\ TypeOK /\ ReportOK
  BY IdleState, SettledState DEF IInv
<1>5. pgid \in Pid \cup {ShellPg} /\ g \in BOOLEAN /\ (g => pgid = pids[1])
  <2>1. ToplevelLastPipePGID(tbl) \in Pid \cup {-1}
    BY <1>4, SettledPgid
  <2>2. ResolvePGID(kind) \in Pid \cup {-1, ShellPg}
    BY <2>1 DEF ResolvePGID
  <2>3. pids[1] \in Pid
    BY <1>2
  <2>4. pgid \in Pid \cup {ShellPg}
    BY <2>2, <2>3, PidAssumption DEF ShellPg
  <2> QED BY <2>4 DEF Grouped
<1>6. j \in Job /\ j \notin Attached(tbl) /\ j \notin {tbl.cur, tbl.prev}
  BY DEF FreeJob
<1>7. \A p \in Pid : p \in ps <=> \E k \in 1..n : p = pids[k]
  BY <1>2
<1> HIDE DEF pgid, ps, g, jobControl
<1>8. /\ kst' \in [Pid -> {"none", "run", "stop", "zombie"}]
      /\ rep' \in [Pid -> {"none", "stopped", "continued"}]
      /\ kpg' \in [Pid -> Pid \cup {ShellPg}]
      /\ tty' \in Pid \cup {ShellPg}
  BY <1>3, <1>4, <1>5 DEF TypeOK
<1>9. ReportOK'
  BY ZenonT(40), <1>3, <1>4 DEF ReportOK
<1>10. /\ \A p \in Pid : kst'[p] # "none" <=> kst[p] # "none" \/ \E k \in 1..n : p = pids[k]
       /\ \A p \in Pid : (\A k \in 1..n : p # pids[k]) => kpg'[p] = kpg[p]
       /\ g => \A k \in 1..n : kpg'[pids[k]] = pids[1]
  BY Zenon, <1>2, <1>3, <1>5, <1>7
<1>11. g \in BOOLEAN
  BY Zenon, <1>5
<1> DEFINE u == Create(tbl, j, pids, lp, g)
<1>12. Forked(u, j, kst', kpg') /\ u.deletedCount = 0
  <2>1. FreshPids(kst, n, pids)
    BY Zenon, <1>1, <1>2 DEF FreshPids
  <2>2. ForkedKernel(kst, kpg, n, pids, g, kst', kpg')
    BY <1>10 DEF ForkedKernel
  <2>3. DOMAIN tbl.jobs # JobId
    BY Zenon, <1>3
  <2>4. ForkReady(tbl, kst, kpg, j, n, pids)
    BY Zenon, <1>2, <1>4, <1>6, <2>1, <2>3 DEF ForkReady
  <2> QED BY <1>11, <2>2, <2>4, ForkNamed
<1>13. /\ IsAvailable(u, j) /\ DOMAIN u.procs[j] = 1..n /\ LiveOffsets(u, j) = 1..n
  <2>1. NewJob(tbl, j, n, pids)
    BY Zenon, <1>2, <1>4, <1>6 DEF NewJob, Settled
  <2>2. Created(tbl, j, n, pids, g, u)
    BY Zenon, <1>11, <2>1, CreateNamed
  <2> HIDE DEF u
  <2> QED BY Zenon, <2>2 DEF Created
<1> HIDE DEF u
<1>14. 1 \in DOMAIN pids /\ Len(pids) \in Nat
  BY <1>2
<1>15. ForkResult(u, j, pids)
  BY Zenon, <1>2, <1>6, <1>8, <1>9, <1>12, <1>13, <1>14 DEF ForkResult
<1> QED BY Zenon, <1>15 DEF u, g

\* A state with a job forked and not attached.
LEMMA ForkedInv ==
  ASSUME NEW j \in Job, TypeOK', todo' \in Seq(Call), Shape(todo'), todo' # << >>,
         Head(todo').op = "attach" \/ Head(todo') = WaitProc(j, 1),
         Head(todo').job = j, IsAvailable(tbl', j), 1 \in DOMAIN tbl'.procs[j],
         LiveOffsets(tbl', j) = DOMAIN tbl'.procs[j],
         Forked(tbl', j, kst', kpg'), tbl'.deletedCount = 0, ReportOK'
  PROVE  IInv'
<1>1. WaitProc(j, 1).op = "Proc::wait" /\ WaitProc(j, 1).offset = 1
  BY DEF WaitProc
<1>2. Forking' /\ Forked(tbl', Head(todo').job, kst', kpg')
  BY ZenonT(40), <1>1 DEF Forking
<1>3. WaitingOK'
  BY Zenon, <1>1 DEF WaitingOK, Calling
<1>4. DeletedOK'
  BY DEF DeletedOK
<1> QED BY Zenon, <1>2, <1>3, <1>4 DEF IInv

\* The handlers that begin with a job forked and not attached.
LEMMA ForkShapes ==
  ASSUME NEW j \in Job,
         NEW s \in {<< WaitProc(j, 1), AttachCall(j), ForegroundCall, WaitAny >>,
                    << WaitProc(j, 1), AttachCall(j) >>, << AttachCall(j) >>}
  PROVE  /\ s \in Seq(Call) /\ Shape(s) /\ s # << >> /\ Head(s).job = j
         /\ Head(s).op = "attach" \/ Head(s) = WaitProc(j, 1)
<1> DEFINE w == WaitProc(j, 1)
           a == AttachCall(j)
           f == ForegroundCall
           y == WaitAny
<1>1. /\ w \in Call /\ a \in Call /\ f \in Call /\ y \in Call
  BY CallCons
<1>2. /\ w.op = "Proc::wait" /\ w.job = j /\ a.op = "attach" /\ a.job = j
      /\ f.op = "tryToBeForeground" /\ y.op = "waitForAny"
  BY DEF WaitProc, AttachCall, ForegroundCall, WaitAny
<1>3. s \in {<< w, a, f, y >>, << w, a >>, << a >>}
  OBVIOUS
<1> HIDE DEF w, a, f, y
<1>4. CASE s = << w, a, f, y >>
  <2>1. s \in Seq(Call) /\ Len(s) = 4 /\ s[1] = w /\ s[2] = a /\ s[3] = f /\ s[4] = y
        /\ Head(s) = w /\ s # << >>
    BY <1>1, <1>4
  <2>2. PlainFrom(s, 3)
    <3>1. 3..4 = {3, 4}
      OBVIOUS
    <3> QED BY <1>2, <2>1, <3>1 DEF PlainFrom
  <2> QED BY <1>2, <2>1, <2>2 DEF Shape, w
<1>5. CASE s = << w, a >>
  <2>1. s \in Seq(Call) /\ Len(s) = 2 /\ s[1] = w /\ s[2] = a /\ Head(s) = w /\ s # << >>
    BY <1>1, <1>5
  <2>2. PlainFrom(s, 3)
    BY <2>1 DEF PlainFrom
  <2> QED BY <1>2, <2>1, <2>2 DEF Shape, w
<1>6. CASE s = << a >>
  <2>1. s \in Seq(Call) /\ Len(s) = 1 /\ s[1] = a /\ Head(s) = a /\ s # << >>
    BY <1>1, <1>6
  <2>2. PlainFrom(s, 2)
    BY <2>1 DEF PlainFrom
  <2> QED BY <1>2, <2>1, <2>2 DEF Shape
<1> QED BY Zenon, <1>3, <1>4, <1>5, <1>6

\* Foreground commands and command substitutions (vm.cpp:444-472, 576-665,
\* 835-896), which are waited for before they are attached.
LEMMA RunWaitedInv ==
  ASSUME IInv, NEW j \in FreeJob, NEW pids \in PidLists, NEW readOk \in BOOLEAN,
         RunForeground(j, pids) \/ RunCmdSub(j, pids, readOk)
  PROVE  IInv'
<1>1. /\ Idle /\ notified' = [notified EXCEPT ![j] = 0] /\ UNCHANGED <<pipes, level>>
      /\ todo' \in {<< WaitProc(j, 1), AttachCall(j), ForegroundCall, WaitAny >>,
                    << WaitProc(j, 1), AttachCall(j) >>, << AttachCall(j) >>}
  BY ZenonT(40) DEF RunForeground, RunCmdSub
<1>2. PICK kind \in {"NONE", "JOB", "STR"}, lp \in BOOLEAN :
        Fork(kind, pids) /\ tbl' = Create(tbl, j, pids, lp, Grouped(kind))
  BY Zenon DEF RunForeground, RunCmdSub
<1>3. /\ j \in Job /\ 1 \in DOMAIN pids
      /\ Forked(tbl', j, kst', kpg') /\ tbl'.deletedCount = 0 /\ IsAvailable(tbl', j)
      /\ DOMAIN tbl'.procs[j] = DOMAIN pids /\ LiveOffsets(tbl', j) = DOMAIN pids
      /\ kst' \in [Pid -> {"none", "run", "stop", "zombie"}]
      /\ rep' \in [Pid -> {"none", "stopped", "continued"}]
      /\ kpg' \in [Pid -> Pid \cup {ShellPg}]
      /\ tty' \in Pid \cup {ShellPg} /\ ReportOK'
  <2>1. ForkResult(Create(tbl, j, pids, lp, Grouped(kind)), j, pids)
    BY Zenon, <1>1, <1>2, ForkFacts
  <2>2. ForkResult(tbl', j, pids)
    BY Zenon, <1>2, <2>1
  <2> QED BY Zenon, <2>2 DEF ForkResult
<1>4. TypeOK'
  BY Zenon, <1>1, <1>3 DEF IInv, TypeOK, Forked, TableInv
<1>5. /\ todo' \in Seq(Call) /\ Shape(todo') /\ todo' # << >> /\ Head(todo').job = j
      /\ Head(todo').op = "attach" \/ Head(todo') = WaitProc(j, 1)
  BY Zenon, <1>1, <1>3, ForkShapes
<1> QED BY Zenon, <1>3, <1>4, <1>5, ForkedInv

\* Background jobs, coprocesses, process substitutions and last-pipes
\* (vm.cpp:444-503, 1339-1461), which are attached at once.
LEMMA RunAttachedInv ==
  ASSUME IInv, NEW j \in FreeJob, NEW pids \in PidLists, NEW b \in BOOLEAN,
         RunAsync(j, pids, b) \/ RunLastPipe(j, pids, b)
  PROVE  IInv'
<1>1. /\ Idle /\ notified' = [notified EXCEPT ![j] = 0] /\ UNCHANGED <<todo, level>>
      /\ pipes' = pipes \/ pipes' = Append(pipes, j)
  BY Zenon DEF RunAsync, RunLastPipe
<1>2. PICK kind \in {"NONE", "JOB", "STR"}, lp \in BOOLEAN, disown \in BOOLEAN :
        /\ Fork(kind, pids)
        /\ tbl' = Attach(Create(tbl, j, pids, lp, Grouped(kind)), j, disown)
  BY Zenon DEF RunAsync, RunLastPipe
<1> DEFINE u == Create(tbl, j, pids, lp, Grouped(kind))
<1>3. /\ j \in Job /\ Forked(u, j, kst', kpg') /\ u.deletedCount = 0
      /\ kst' \in [Pid -> {"none", "run", "stop", "zombie"}]
      /\ rep' \in [Pid -> {"none", "stopped", "continued"}]
      /\ kpg' \in [Pid -> Pid \cup {ShellPg}]
      /\ tty' \in Pid \cup {ShellPg} /\ ReportOK'
  <2>1. ForkResult(u, j, pids)
    BY Zenon, <1>1, <1>2, ForkFacts
  <2> HIDE DEF u
  <2> QED BY Zenon, <2>1 DEF ForkResult
<1> HIDE DEF u
<1>4. Settled(tbl', kst', kpg') /\ tbl'.deletedCount = 0
  BY <1>2, <1>3, ForkedAttach DEF u
<1>5. pipes' \in Seq(Job)
  <2>1. pipes \in Seq(Job)
    BY DEF IInv, TypeOK
  <2> QED BY <1>1, <1>3, <2>1
<1>6. TypeOK' /\ DeletedOK'
  BY Zenon, <1>1, <1>3, <1>4, <1>5 DEF IInv, TypeOK, DeletedOK, Settled, TableInv
<1>7. todo' \in Seq(PlainCall)
  BY <1>1, IdleState
<1> QED BY <1>3, <1>4, <1>6, <1>7, PlainSeq, SettledInv

-----------------------------------------------------------------------------
(* The theorems *)

\* The shell starts with an empty table and no children.
LEMMA InitInv == Init => IInv
<1> SUFFICES ASSUME Init PROVE IInv
  OBVIOUS
<1> DEFINE none == [p \in {} |-> [jobId |-> 0, procOffset |-> 0]]
           nojobs == [i \in {} |-> NoJob]
<1>1. TableType(tbl)
  <2>1. IsPartialFcn(nojobs, JobId, Job) /\ IsPartialFcn(none, Pid, Entry)
    BY DEF IsPartialFcn
  <2>2. [j \in Job |-> << >>] \in [Job -> Seq(Proc)]
    BY EmptySeq
  <2>3. tbl = EmptyTable
    BY DEF Init
  <2> HIDE DEF none, nojobs
  <2>4. /\ tbl.jobs = nojobs /\ tbl.entries = none
        /\ tbl.jobID \in [Job -> 0..MaxJob] /\ tbl.state \in [Job -> JobState]
        /\ tbl.procs \in [Job -> Seq(Proc)]
    BY SMTT(30), <2>2, <2>3, MaxJobAssumption DEF EmptyTable, nojobs, none, JobState
  <2>5. /\ tbl.deletedCount = 0 /\ tbl.cur = NoJob /\ tbl.prev = NoJob
        /\ tbl.toplevel = NoJob /\ tbl.disowned = {} /\ tbl.lastPipe = {}
        /\ tbl.grouped = {}
    BY <2>3 DEF EmptyTable
  <2>6. tbl = [jobs |-> tbl.jobs, entries |-> tbl.entries,
               deletedCount |-> tbl.deletedCount, cur |-> tbl.cur, prev |-> tbl.prev,
               toplevel |-> tbl.toplevel, jobID |-> tbl.jobID, state |-> tbl.state,
               procs |-> tbl.procs, disowned |-> tbl.disowned,
               lastPipe |-> tbl.lastPipe, grouped |-> tbl.grouped]
    BY <2>3 DEF EmptyTable
  <2> QED BY <2>1, <2>4, <2>5, <2>6 DEF TableType
<1>2. /\ DOMAIN tbl.jobs = {} /\ DOMAIN tbl.entries = {} /\ tbl.deletedCount = 0
      /\ tbl.cur = NoJob /\ tbl.prev = NoJob /\ tbl.grouped = {}
      /\ \A j \in Job : tbl.jobID[j] = 0 /\ tbl.state[j] = "TERMINATED"
  BY DEF Init, EmptyTable
<1>3. Live(tbl) = {} /\ Attached(tbl) = {}
  BY <1>2 DEF Live, Attached
<1>4. TableInv(tbl)
  BY Zenon, <1>1, <1>2, <1>3 DEF TableInv, JobsOK, IndexOK, CountOK, MarksOK
<1>5. todo = << >> /\ kst = [p \in Pid |-> "none"] /\ rep = [p \in Pid |-> "none"]
  BY DEF Init
<1>6. Settled(tbl, kst, kpg)
  BY Zenon, <1>2, <1>3, <1>4, <1>5 DEF Settled, Group, IsAvailable
<1>7. TypeOK
  <2>1. << >> \in Seq(Job)
    BY EmptySeq
  <2> QED BY <1>1, <2>1, BoundAssumption DEF Init, TypeOK
<1>8. todo \in Seq(Call) /\ Shape(todo) /\ ~Forking /\ WaitingOK
  <2>1. todo \in Seq(Call) /\ Len(todo) = 0
    BY <1>5
  <2> QED BY <1>5, <2>1 DEF Shape, PlainFrom, Forking, WaitingOK, Calling
<1>9. DeletedOK /\ ReportOK
  BY <1>2, <1>5 DEF DeletedOK, ReportOK
<1> QED BY <1>6, <1>7, <1>8, <1>9 DEF IInv

\* Every step of the kernel, of a handler and of a command preserves the
\* inductive invariant.
LEMMA NextInv == IInv /\ [Next]_vars => IInv'
<1> SUFFICES ASSUME IInv, [Next]_vars PROVE IInv'
  OBVIOUS
<1>1. CASE UNCHANGED vars
  BY Zenon, <1>1 DEF vars, IInv, TypeOK, Forking, WaitingOK, DeletedOK, ReportOK, Calling
<1>2. CASE KernelStep
  BY <1>2, KernelStepInv
<1>3. CASE Running
  <2>1. CASE Step
    <3>1. CASE JobGiveUp
      BY <3>1, JobFailInv DEF JobGiveUp
    <3>2. CASE NextDone \/ NextGiveUp
      BY Zenon, <3>2, NextEndInv DEF NextDone, NextGiveUp
    <3> QED BY Zenon, <2>1, <3>1, <3>2, AnyDoneInv, JobEnterInv, ProcWaitInv, CallAttachInv,
               CallForegroundInv, CallEndInv, CallSendMoreInv DEF Step
  <2>2. CASE Interruption
    <3>1. CASE JobInterrupted
      BY <3>1, JobFailInv DEF JobInterrupted
    <3>2. CASE NextInterrupted
      BY <3>2, NextEndInv DEF NextInterrupted
    <3> QED BY <2>2, <3>1, <3>2, ProcWaitInterruptedInv DEF Interruption
  <2>3. ASSUME NEW p \in Pid, Reap(p) PROVE IInv'
    BY <2>3, AnyReapInv, JobReapInv, NextReapInv DEF Reap
  <2> QED BY <1>3, <2>1, <2>2, <2>3 DEF Running
<1>4. CASE Command
  <2>1. ASSUME NEW j \in FreeJob, NEW pids \in PidLists, NEW b \in BOOLEAN,
               \/ RunForeground(j, pids) \/ RunCmdSub(j, pids, b)
               \/ RunAsync(j, pids, b) \/ RunLastPipe(j, pids, b)
        PROVE  IInv'
    BY <2>1, RunWaitedInv, RunAttachedInv
  <2>2. CASE \E u \in BOOLEAN : EndLastPipe(u)
    BY <2>2, EndLastPipeInv
  <2>3. CASE BuiltinFg \/ BuiltinBg \/ BuiltinKill \/ JobKill
    BY <2>3, SignalBuiltin, CommandInv
  <2>4. CASE BuiltinWaitAll \/ BuiltinWait \/ BuiltinWaitPid \/ BuiltinWaitNext
               \/ JobWait \/ JobPoll
    BY <2>4, WaitBuiltin, CommandInv
  <2>5. CASE EnterSubshell \/ BuiltinDisown \/ BuiltinJobs \/ HandleSigchld
    BY <2>5, EnterSubshellInv, DisownInv, QuietBuiltin, CommandInv
  <2>6. TRUE \in BOOLEAN
    OBVIOUS
  <2> QED BY Zenon, <1>4, <2>1, <2>2, <2>3, <2>4, <2>5, <2>6 DEF Command
<1> QED BY <1>1, <1>2, <1>3, <1>4 DEF Next

\* What the inductive invariant says of the properties of JobControl.
LEMMA InvImplies ==
  ASSUME IInv
  PROVE  /\ NoAssertFailure /\ NoLostChild /\ IndexExact /\ CurPrevOK /\ NoLeftover
         /\ SignalOwn
<1>1. TableInv(tbl) /\ todo \in Seq(Call) /\ TypeOK
  BY Zenon DEF IInv, Forked, Settled
<1>2. NoAssertFailure
  <2>1. SUFFICES ASSUME todo = Abort PROVE FALSE
    BY DEF NoAssertFailure
  <2>2. todo # << >> /\ Head(todo).op = "abort"
    BY <2>1 DEF Abort
  <2>3. Head(todo) \in Call
    BY <1>1, <2>2
  <2> QED BY <2>2, <2>3, CallArgs
<1>3. NoLostChild
  <2>1. CASE Forking
    <3> DEFINE j == Head(todo).job
    <3>1. Forked(tbl, j, kst, kpg)
      BY ZenonT(40), <2>1 DEF IInv
    <3>2. \A p \in Pid : Pending(p) <=> IsAvailable(tbl, j) /\ p \in LivePids(tbl, j)
      BY <2>1 DEF Forking, Pending, ValidPids, LivePids, IsAvailable, IsControlled
    <3> QED BY ZenonT(40), <3>1, <3>2 DEF NoLostChild, Child, Forked
  <2>2. CASE ~Forking
    <3>1. Settled(tbl, kst, kpg)
      BY <2>2 DEF IInv
    <3> QED BY <2>2, <3>1 DEF NoLostChild, Child, Settled, Pending, Forking
  <2> QED BY <2>1, <2>2
<1>4. IndexExact
  BY <1>1 DEF IndexExact, TableInv
<1>5. Idle => Settled(tbl, kst, kpg) /\ tbl.deletedCount = 0
  BY SettledState, IdleState
<1>6. NoLeftover
  BY <1>1, <1>5 DEF NoLeftover, TableInv, CountOK
<1>7. CurPrevOK
  <2>1. ASSUME Idle, NEW j \in {tbl.cur, tbl.prev} \ {NoJob} PROVE ~IsTerminated(tbl, j)
    <3>1. j \in Attached(tbl) \/ ~IsControlled(tbl, j)
      BY <1>1, <2>1 DEF TableInv, MarksOK
    <3>2. j \in Attached(tbl) => ~IsTerminated(tbl, j)
      BY <1>6, <2>1 DEF NoLeftover
    <3> QED BY <3>1, <3>2 DEF IsControlled, IsTerminated
  <2> QED BY Zenon, <1>1, <2>1 DEF CurPrevOK, TableInv, MarksOK
<1>8. SignalOwn
  <2>1. SUFFICES ASSUME Idle, NEW j \in Held
                 PROVE  /\ \A p \in SendTargets(j) : Child(p)
                        /\ GetPGID(tbl, j) > -1 => SendTargets(j) # {}
    BY DEF SignalOwn
  <2>2. j \in Job /\ Settled(tbl, kst, kpg)
    BY <1>5, <2>1 DEF Held
  <2>3. CASE ~IsAvailable(tbl, j)
    BY <2>3 DEF SendTargets, GetPGID
  <2>4. CASE IsAvailable(tbl, j)
    <3>1. /\ LiveOffsets(tbl, j) # {}
          /\ \A k \in LiveOffsets(tbl, j) :
               tbl.procs[j][k].pid \in Pid /\ Child(tbl.procs[j][k].pid)
      BY ZenonT(40), <2>2, <2>4, SettledLive DEF Child, Settled
    <3>2. CASE GetPGID(tbl, j) > -1
      <4>1. j \in tbl.grouped /\ GetPGID(tbl, j) = tbl.procs[j][1].pid
        BY <3>2 DEF GetPGID
      <4>2. \A k \in LiveOffsets(tbl, j) : kpg[tbl.procs[j][k].pid] = GetPGID(tbl, j)
        BY <2>2, <2>4, <4>1 DEF Settled, Group
      <4>3. SendTargets(j) = {p \in Pid : Child(p) /\ kpg[p] = GetPGID(tbl, j)}
        BY <2>4, <3>2 DEF SendTargets
      <4> QED BY ZenonT(40), <3>1, <4>2, <4>3
    <3>3. CASE ~(GetPGID(tbl, j) > -1)
      BY Zenon, <2>4, <3>1, <3>3 DEF SendTargets
    <3> QED BY <3>2, <3>3
  <2> QED BY <2>3, <2>4
<1> QED BY <1>2, <1>3, <1>4, <1>6, <1>7, <1>8

\* What it says of the processes a SIGHUP reaches and of %+ and %-.
LEMMA InvImpliesNames ==
  ASSUME IInv
  PROVE  HangupReaches /\ CurPrevComplete
<1>1. Idle => Settled(tbl, kst, kpg) /\ tbl.deletedCount = 0
  BY SettledState, IdleState
<1>2. HangupReaches
  <2>1. SUFFICES ASSUME Idle, NEW j \in Attached(tbl) \ tbl.disowned, IsAvailable(tbl, j)
                 PROVE  ValidPids(tbl, j) \subseteq SendTargets(j)
    BY Zenon DEF HangupReaches, HangupTargets
  <2>2. j \in Job /\ Settled(tbl, kst, kpg)
    BY Zenon, <1>1, <2>1 DEF Settled, TableInv, TableType, IsPartialFcn, Attached
  <2>3. ASSUME NEW p \in ValidPids(tbl, j)
        PROVE  /\ p \in Pid /\ Child(p)
               /\ j \in tbl.grouped => kpg[p] = tbl.procs[j][1].pid
    <3>1. PICK k \in LiveOffsets(tbl, j) : p = tbl.procs[j][k].pid
      BY <2>3 DEF ValidPids
    <3>2. p \in Pid /\ p \in Live(tbl)
      BY Zenon, <2>1, <2>2, <3>1, SettledLive
    <3> QED BY <2>1, <2>2, <3>1, <3>2 DEF Settled, Group, Child
  <2>4. CASE GetPGID(tbl, j) > -1
    <3>1. j \in tbl.grouped /\ GetPGID(tbl, j) = tbl.procs[j][1].pid
      BY SMTT(30), <2>4 DEF GetPGID
    <3>2. SendTargets(j) = {p \in Pid : Child(p) /\ kpg[p] = GetPGID(tbl, j)}
      BY <2>1, <2>4 DEF SendTargets
    <3> QED BY Zenon, <2>3, <3>1, <3>2
  <2>5. CASE ~(GetPGID(tbl, j) > -1)
    <3>1. SendTargets(j) = {tbl.procs[j][k].pid : k \in LiveOffsets(tbl, j)}
      BY Zenon, <2>1, <2>5 DEF SendTargets
    <3> QED BY Zenon, <3>1 DEF ValidPids
  <2> QED BY <2>4, <2>5
<1>3. CurPrevComplete
  <2> DEFINE t == SyncCurPrev(tbl)
             C == Candidates(tbl)
  <2>1. SUFFICES ASSUME Idle
                 PROVE  /\ {t.cur, t.prev} \ {NoJob} \subseteq Candidates(t)
                        /\ t.cur = NoJob <=> Candidates(t) = {}
                        /\ t.prev = NoJob <=> Candidates(t) \subseteq {t.cur}
    BY Zenon DEF CurPrevComplete
  <2>2. /\ TableType(tbl) /\ JobsOK(tbl) /\ CountOK(tbl) /\ MarksOK(tbl)
        /\ tbl.deletedCount = 0
    BY <1>1, <2>1 DEF Settled, TableInv
  <2>3. TableType(t) /\ SameButMarks(tbl, t) /\ MarksOK(t)
    BY <2>2, SyncMarks
  <2>4. Candidates(t) = C
    <3> HIDE DEF t
    <3> QED BY <2>3 DEF SameButMarks, Candidates, Attached, IsTerminated
  <2>5. /\ {t.cur, t.prev} \ {NoJob} \subseteq C \cup ({tbl.cur, tbl.prev} \ tbl.disowned)
        /\ t.cur = NoJob => C = {}
        /\ t.prev = NoJob => C \subseteq {t.cur}
    BY Zenon, <2>2, SyncComplete
  <2>6. ASSUME NEW j \in ({tbl.cur, tbl.prev} \ tbl.disowned) \ {NoJob} PROVE j \in C
    BY <2>2 DEF MarksOK, CountOK, Candidates
  <2>7. NoJob \notin C
    BY SMTT(30), <2>2, JobAssumption DEF Candidates, Attached, TableType, IsPartialFcn
  <2>8. t.prev # NoJob => t.cur # NoJob /\ t.cur # t.prev
    BY <2>3 DEF MarksOK
  <2> HIDE DEF t, C
  <2>9. {t.cur, t.prev} \ {NoJob} \subseteq C
    BY Zenon, <2>5, <2>6
  <2> QED BY <2>4, <2>5, <2>7, <2>8, <2>9
<1> QED BY <1>2, <1>3

\* The inductive invariant holds in every state of the shell.
THEOREM Invariance == Spec => []IInv
BY InitInv, NextInv, PTL DEF Spec

\* Every state of the shell is well-typed; in particular attach (job.cpp:522)
\* never needs a job id beyond the limit that Proc::fork checks.
THEOREM TypeCorrect == Spec => []TypeOK
<1>1. IInv => TypeOK
  BY DEF IInv
<1> QED BY <1>1, Invariance, PTL

\* The assertions of updateProcState, Proc::updateState and builtin_wait
\* (job.cpp:685, 687, 223; cmd_job.cpp:322) never fail.
THEOREM AssertionsHold == Spec => []NoAssertFailure
BY InvImplies, Invariance, PTL

\* A process is a child of the shell exactly while the ProcTable has a live
\* entry for it or the running handler is about to wait for or attach it.
THEOREM ChildrenKnown == Spec => []NoLostChild
BY InvImplies, Invariance, PTL

\* The ProcTable and the job list are exact indexes of the live processes.
THEOREM IndexCorrect == Spec => []IndexExact
BY InvImplies, Invariance, PTL

\* The current and the previous job are distinct, never dangling between two
\* commands and never a last-pipe (job.cpp:557-586, 715-743).
THEOREM MarksCorrect == Spec => []CurPrevOK
BY InvImplies, Invariance, PTL

\* Every wait loop ends in removeTerminatedJobs: nothing deleted or terminated
\* is left between two commands.
THEOREM TableClean == Spec => []NoLeftover
BY InvImplies, Invariance, PTL

\* JobObject::send (job.cpp:414-428) only ever signals children of this shell,
\* however old the job object and however often pids are recycled.
THEOREM SignalsOwned == Spec => []SignalOwn
BY InvImplies, Invariance, PTL

\* The SIGHUP of a shell that ends (vm.cpp:2704) reaches every live process of
\* every available job that is not disowned.
THEOREM HangupComplete == Spec => []HangupReaches
BY InvImpliesNames, Invariance, PTL

\* After a sync (job.cpp:557-586) %+ names a job whenever one can be named and
\* %- whenever a second one can, also in a subshell that has dropped the jobs
\* it inherited.
THEOREM NamesComplete == Spec => []CurPrevComplete
BY InvImpliesNames, Invariance, PTL

-----------------------------------------------------------------------------
(* Announcing the end of a job *)

\* No process of a job comes back to life from table t to table u.
Shrunk(t, u) == \A j \in Job : LiveOffsets(u, j) \subseteq LiveOffsets(t, j)

\* A step that announces nothing and revives no process.
LEMMA OnceKept ==
  ASSUME NotifiedOnce, notified' = notified, Shrunk(tbl, tbl')
  PROVE  NotifiedOnce'
BY Zenon DEF NotifiedOnce, Shrunk

\* In particular one that leaves the processes alone.
LEMMA OnceSame ==
  ASSUME NotifiedOnce, notified' = notified, tbl'.procs = tbl.procs
  PROVE  NotifiedOnce'
<1>1. Shrunk(tbl, tbl')
  BY DEF Shrunk, LiveOffsets
<1> QED BY <1>1, OnceKept

\* updateProcState and notifyTermination (job.cpp:683-713) for a wait result:
\* the job had a live process, so its end was not announced before, and it is
\* announced only if none is left.
LEMMA OnceReap ==
  ASSUME IInv, NotifiedOnce, ~Forking, NEW p \in Pid, NEW w \in WaitOp,
         NEW kind \in Report(p, w), NEW quiet,
         Notify(UpdateProcState(tbl, p, kind, NotifyCallback), FoundJob(tbl, p), quiet),
         tbl'.procs = UpdateProcState(tbl, p, kind, NotifyCallback).procs
  PROVE  NotifiedOnce'
<1> DEFINE t == UpdateProcState(tbl, p, kind, NotifyCallback)
           j == FoundJob(tbl, p)
<1>1. Settled(tbl, kst, kpg) /\ TypeOK
  BY ZenonT(40), SettledState DEF IInv
<1>2. kind \in WaitKind /\ kst[p] # "none"
  BY SMTT(30), ReportFacts DEF IInv
<1>3. TableInv(tbl) /\ p \in Live(tbl)
  BY ZenonT(40), <1>1, <1>2 DEF Settled
<1>4. NotifyCallback \in BOOLEAN
  BY OptionAssumption DEF NotifyCallback
<1>5. SameProcs(tbl, t)
  BY ZenonT(40), <1>2, <1>3, <1>4, UpdateNamed DEF Updated
<1>6. /\ j \in Job /\ LiveOffsets(tbl, j) # {}
      /\ IsTerminated(t, j) => LiveOffsets(t, j) = {}
  BY Zenon, <1>2, <1>3, <1>4, UpdateStates
<1>7. \/ notified' = notified
      \/ IsTerminated(t, j) /\ notified' = [notified EXCEPT ![j] = @ + 1]
  BY ZenonT(40) DEF Notify
<1>8. \A x \in Job : LiveOffsets(tbl', x) = LiveOffsets(t, x)
  BY Zenon DEF LiveOffsets
<1> HIDE DEF t, j
<1>9. Shrunk(tbl, tbl')
  BY ZenonT(40), <1>5, <1>8 DEF Shrunk, SameProcs
<1>10. CASE notified' = notified
  BY <1>9, <1>10, OnceKept
<1>11. CASE IsTerminated(t, j) /\ notified' = [notified EXCEPT ![j] = @ + 1]
  <2>1. notified \in [Job -> Nat]
    BY Zenon, <1>1 DEF TypeOK
  <2>2. notified[j] = 0
    <3>1. notified[j] \in Nat /\ notified[j] <= 1
      BY Zenon, <1>6, <2>1 DEF NotifiedOnce
    <3>2. notified[j] # 1
      BY Zenon, <1>6 DEF NotifiedOnce
    <3> QED BY <3>1, <3>2
  <2>3. \A x \in Job : notified'[x] = IF x = j THEN 1 ELSE notified[x]
    <3>1. notified' = [notified EXCEPT ![j] = 1]
      <4>1. notified' = [notified EXCEPT ![j] = notified[j] + 1]
        BY Zenon, <1>11
      <4>2. notified[j] + 1 = 1
        BY <2>2
      <4> QED BY ZenonT(40), <4>1, <4>2
    <3> QED BY Zenon, <2>1, <3>1
  <2>4. LiveOffsets(tbl', j) = {}
    BY Zenon, <1>6, <1>8, <1>11
  <2>5. ASSUME NEW x \in Job
        PROVE  notified'[x] <= 1 /\ (notified'[x] = 1 => LiveOffsets(tbl', x) = {})
    <3>1. CASE x = j
      BY <2>3, <2>4, <3>1
    <3>2. CASE x # j
      BY Zenon, <1>9, <2>3, <3>2 DEF NotifiedOnce, Shrunk
    <3> QED BY Zenon, <3>1, <3>2
  <2> QED BY Zenon, <2>5 DEF NotifiedOnce
<1> QED BY <1>7, <1>10, <1>11

\* A round of waitForAny, of waitForJob or of `wait -n' (job.cpp:541-648,
\* cmd_job.cpp:286-353).
LEMMA OnceReapStep ==
  ASSUME IInv, NotifiedOnce, NEW p \in Pid, Reap(p)
  PROVE  NotifiedOnce'
<1> DEFINE c == Head(todo)
           U(kind) == UpdateProcState(tbl, p, kind, NotifyCallback)
<1>1. ~Forking /\ todo # << >>
  BY Zenon DEF Reap, AnyReap, JobReap, NextReap, Calling, Forking
<1>2. c.op = "waitLoop" => c.wop \in WaitOp
  <2>1. todo \in Seq(Call) /\ Shape(todo)
    BY Zenon DEF IInv
  <2> QED BY <1>1, <2>1, ShapeTail, CallArgs
<1>3. {"NONBLOCKING", ForegroundOp} \subseteq WaitOp
  BY DEF ForegroundOp, WaitOp
<1>4. PICK w \in WaitOp : \E kind \in Report(p, w) :
        UpdateAssertions(tbl, p) =>
          /\ \E quiet : Notify(U(kind), FoundJob(tbl, p), quiet)
          /\ tbl' = U(kind) \/ Cleanup(U(kind))
  <2>1. CASE AnyReap(p)
    BY Zenon, <1>3, <2>1 DEF AnyReap
  <2>2. CASE JobReap(p)
    <3>1. c.op = "waitLoop"
      BY Zenon, <2>2 DEF JobReap, Calling
    <3> QED BY Zenon, <1>2, <2>2, <3>1 DEF JobReap
  <2>3. CASE NextReap(p)
    BY Zenon, <1>3, <2>3 DEF NextReap
  <2> QED BY <2>1, <2>2, <2>3 DEF Reap
<1>5. PICK kind \in Report(p, w) :
        UpdateAssertions(tbl, p) =>
          /\ \E quiet : Notify(U(kind), FoundJob(tbl, p), quiet)
          /\ tbl' = U(kind) \/ Cleanup(U(kind))
  BY Zenon, <1>4
<1>6. UpdateAssertions(tbl, p) /\ TableInv(U(kind))
  <2>1. TypeOK /\ Settled(tbl, kst, kpg)
    BY Zenon, <1>1, SettledState DEF IInv
  <2>2. kind \in WaitKind /\ kst[p] # "none"
    BY Zenon, ReportFacts DEF IInv
  <2>3. TableInv(tbl) /\ p \in Live(tbl)
    BY Zenon, <2>1, <2>2 DEF Settled
  <2>4. NotifyCallback \in BOOLEAN
    BY OptionAssumption DEF NotifyCallback
  <2> QED BY Zenon, <2>2, <2>3, <2>4, UpdateNamed DEF Updated
<1>7. PICK quiet : Notify(U(kind), FoundJob(tbl, p), quiet)
  BY Zenon, <1>5, <1>6
<1>8. tbl'.procs = U(kind).procs
  <2>1. RemoveTerminatedJobs(U(kind)).procs = U(kind).procs
    BY <1>6, RemoveInv
  <2> QED BY ZenonT(40), <1>5, <1>6, <2>1 DEF Cleanup
<1> QED BY Zenon, <1>1, <1>7, <1>8, OnceReap

\* The other steps of the handlers (job.cpp:430-648, cmd_job.cpp:113-353).
LEMMA OnceStep ==
  ASSUME IInv, NotifiedOnce, Step \/ Interruption
  PROVE  NotifiedOnce'
<1>0. todo # << >> /\ todo \in Seq(Call) /\ Shape(todo) /\ TableInv(tbl)
  <2>1. todo # << >>
    BY Zenon DEF Step, Interruption, AnyDone, JobEnter, JobGiveUp, NextDone, NextGiveUp,
                 ProcWait, CallAttach, CallForeground, CallFgEnd, CallDispose,
                 CallSendMore, JobInterrupted, NextInterrupted, ProcWaitInterrupted, Calling
  <2> QED BY Zenon, <2>1 DEF IInv, Settled, Forked
<1> DEFINE c == Head(todo)
           j == c.job
<1>1. CASE AnyDone \/ JobEnter \/ JobGiveUp \/ NextDone \/ NextGiveUp \/ JobInterrupted
           \/ NextInterrupted \/ ProcWaitInterrupted \/ CallForeground
  <2>1. notified' = notified /\ (tbl' = tbl \/ tbl' = RemoveTerminatedJobs(tbl))
    BY ZenonT(40), <1>1 DEF AnyDone, JobEnter, JobGiveUp, JobFail, NextDone, NextGiveUp,
                       NextFail, JobInterrupted, NextInterrupted, ProcWaitInterrupted,
                       CallForeground, Cleanup
  <2>2. tbl'.procs = tbl.procs
    BY <1>0, <2>1, RemoveInv
  <2> QED BY <2>1, <2>2, OnceSame
<1>2. CASE CallFgEnd \/ CallDispose
  <2>1. c.op \in {"fgEnd", "dispose"} /\ notified' = notified
    BY Zenon, <1>2 DEF CallFgEnd, CallDispose, Calling
  <2>2. j \in Job
    BY ZenonT(40), <1>0, <2>1, ShapeTail, CallArgs
  <2>3. tbl' \in {tbl, SetCurrentJob(tbl, j), RemoveToplevelIfSame(tbl, j)}
    BY <1>2 DEF CallFgEnd, CallDispose
  <2> HIDE DEF j
  <2>4. tbl'.procs = tbl.procs
    BY Zenon, <1>0, <2>2, <2>3, ProcsSame
  <2> QED BY Zenon, <2>1, <2>4, OnceSame
<1>3. CASE CallSendMore
  <2>1. ~Forking /\ notified' = notified
    BY <1>3 DEF CallSendMore, Calling, Forking
  <2>2. tbl' = tbl \/ \E x \in Lookup : tbl' = x[1]
    BY Zenon, <1>3 DEF CallSendMore
  <2>3. tbl' \in {tbl, SyncCurPrev(tbl)}
    BY <2>1, <2>2, LookupFacts
  <2>4. tbl'.procs = tbl.procs
    <3>1. SyncCurPrev(tbl).procs = tbl.procs
      BY Zenon, <1>0, SyncMarks DEF TableInv, SameButMarks
    <3> QED BY <2>3, <3>1
  <2> QED BY SMTT(30), <2>1, <2>4, OnceSame
<1>4. CASE CallAttach
  <2>1. Forking /\ c.op = "attach" /\ notified' = notified /\ tbl' = Attach(tbl, j, FALSE)
    <3>1. todo # << >> /\ c.op = "attach" /\ tbl' = Attach(tbl, j, FALSE)
      BY Zenon, <1>4 DEF CallAttach, Calling
    <3>2. notified' = notified
      BY ZenonT(40), <1>4 DEF CallAttach
    <3> QED BY Zenon, <3>1, <3>2 DEF Forking
  <2>2. j \in Job
    BY Zenon, <1>0, <2>1, ShapeTail, CallArgs
  <2>3. Forked(tbl, j, kst, kpg)
    BY Zenon, <2>1 DEF IInv
  <2> HIDE DEF j
  <2>4. tbl'.procs = tbl.procs
    BY Zenon, <2>1, <2>2, <2>3, AttachProcs
  <2> QED BY Zenon, <2>1, <2>4, OnceSame
<1>5. CASE ProcWait
  <2> DEFINE k == c.offset
  <2>1. c.op = "Proc::wait" /\ notified' = notified
    BY Zenon, <1>5 DEF ProcWait, Calling
  <2>2. PICK kind : LET t == SetProcState(tbl, j, k, kind)
                    IN  tbl' = UpdateJob(t, j) \/ tbl' = t
    BY Zenon, <1>5 DEF ProcWait
  <2>3. j \in Job
    BY SMTT(30), <1>0, <2>1, ShapeTail, CallArgs
  <2>4. tbl.procs \in [Job -> Seq(Proc)] /\ {"procs", "state"} \subseteq DOMAIN tbl
    BY <1>0 DEF TableInv, TableType
  <2> HIDE DEF j, k
  <2> DEFINE t == SetProcState(tbl, j, k, kind)
  <2>5. tbl'.procs = t.procs
    <3>1. "procs" \in DOMAIN t
      BY <2>4 DEF SetProcState
    <3> HIDE DEF t
    <3>2. UpdateJob(t, j).procs = t.procs
      BY <3>1 DEF UpdateJob
    <3> QED BY Zenon, <2>2, <3>2 DEF t
  <2>6. t.procs = [tbl.procs EXCEPT ![j][k] = UpdateProc(@, kind)]
    BY <2>4 DEF SetProcState
  <2> HIDE DEF t
  <2>7. ASSUME NEW x \in Job PROVE LiveOffsets(tbl', x) \subseteq LiveOffsets(tbl, x)
    <3>1. DOMAIN t.procs[x] = DOMAIN tbl.procs[x]
      BY SMTT(30), <2>3, <2>4, <2>6
    <3>2. ASSUME NEW o \in DOMAIN tbl.procs[x], tbl.procs[x][o].state = "TERMINATED"
          PROVE  t.procs[x][o] = tbl.procs[x][o]
      <4>1. CASE x = j /\ o = k
        <5>1. UpdateProc(tbl.procs[x][o], kind) = tbl.procs[x][o]
          BY SMTT(30), <3>2 DEF UpdateProc
        <5> QED BY SMTT(30), <2>3, <2>4, <2>6, <3>2, <4>1, <5>1
      <4>2. CASE ~(x = j /\ o = k)
        BY SMTT(30), <2>3, <2>4, <2>6, <3>2, <4>2
      <4> QED BY SMTT(30), <4>1, <4>2
    <3> QED BY SMTT(30), <2>5, <3>1, <3>2 DEF LiveOffsets
  <2>8. Shrunk(tbl, tbl')
    BY <2>7 DEF Shrunk
  <2> QED BY <2>1, <2>8, OnceKept
<1> QED BY Zenon, <1>1, <1>2, <1>3, <1>4, <1>5 DEF Step, Interruption

\* A new job object has not been announced (job.h:262-300, vm.cpp:576-949).
LEMMA OnceRun ==
  ASSUME IInv, NotifiedOnce, NEW j \in FreeJob, NEW pids \in PidLists, NEW b \in BOOLEAN,
         \/ RunForeground(j, pids) \/ RunCmdSub(j, pids, b)
         \/ RunAsync(j, pids, b) \/ RunLastPipe(j, pids, b)
  PROVE  NotifiedOnce'
<1> DEFINE New(kind, lp) == Create(tbl, j, pids, lp, Grouped(kind))
<1>1. PICK kind \in {"NONE", "JOB", "STR"}, lp \in BOOLEAN :
        /\ Idle /\ Fork(kind, pids) /\ notified' = [notified EXCEPT ![j] = 0]
        /\ \/ tbl' = New(kind, lp)
           \/ \E disown \in BOOLEAN : tbl' = Attach(New(kind, lp), j, disown)
  <2>1. CASE RunForeground(j, pids)
    BY Zenon, <2>1 DEF RunForeground
  <2>2. CASE RunCmdSub(j, pids, b)
    BY Zenon, <2>2 DEF RunCmdSub
  <2>3. CASE RunAsync(j, pids, b)
    BY Zenon, <2>3 DEF RunAsync
  <2>4. CASE RunLastPipe(j, pids, b)
    BY Zenon, <2>4 DEF RunLastPipe
  <2> QED BY <2>1, <2>2, <2>3, <2>4
<1> DEFINE t == New(kind, lp)
<1>2. j \in Job /\ Forked(t, j, kst', kpg')
  <2>1. ForkResult(t, j, pids)
    BY Zenon, <1>1, ForkFacts
  <2> QED BY Zenon, <2>1 DEF ForkResult
<1>3. \A x \in Job \ {j} : t.procs[x] = tbl.procs[x]
  <2>1. tbl.procs \in [Job -> Seq(Proc)] /\ {"procs"} \subseteq DOMAIN tbl
    BY <1>1, IdleState, SettledState DEF Settled, TableInv, TableType
  <2>2. t.procs = [tbl.procs EXCEPT ![j] = [k \in DOMAIN pids |->
                                              [pid |-> pids[k], state |-> "RUNNING"]]]
    BY <2>1 DEF Create
  <2> HIDE DEF t
  <2> QED BY Zenon, <2>1, <2>2
<1>4. tbl'.procs = t.procs
  <2>1. tbl' = t \/ \E disown \in BOOLEAN : tbl' = Attach(t, j, disown)
    BY Zenon, <1>1
  <2> HIDE DEF t
  <2>2. \A disown \in BOOLEAN : Attach(t, j, disown).procs = t.procs
    BY Zenon, <1>2, AttachProcs
  <2> QED BY <2>1, <2>2
<1> HIDE DEF t, New
<1>5. ASSUME NEW x \in Job
      PROVE  notified'[x] <= 1 /\ (notified'[x] = 1 => LiveOffsets(tbl', x) = {})
  <2>1. notified \in [Job -> Nat]
    BY DEF IInv, TypeOK
  <2>2. CASE x = j
    <3>1. notified'[x] = 0
      BY Zenon, <1>1, <2>1, <2>2
    <3> QED BY <3>1
  <2>3. CASE x # j
    <3>1. notified'[x] = notified[x] /\ tbl'.procs[x] = tbl.procs[x]
      BY Zenon, <1>1, <1>3, <1>4, <2>1, <2>3
    <3>2. LiveOffsets(tbl', x) = LiveOffsets(tbl, x)
      BY <3>1 DEF LiveOffsets
    <3> QED BY Zenon, <3>1, <3>2 DEF NotifiedOnce
  <2> QED BY <2>2, <2>3
<1> QED BY ZenonT(40), <1>5 DEF NotifiedOnce

\* The other commands neither announce a job nor touch a process.
LEMMA OnceCommand ==
  ASSUME IInv, NotifiedOnce,
         CommandStep \/ EnterSubshell \/ BuiltinDisown \/ \E u \in BOOLEAN : EndLastPipe(u)
  PROVE  NotifiedOnce'
<1>1. Idle /\ notified' = notified
  BY ZenonT(40) DEF CommandStep, EnterSubshell, BuiltinDisown, EndLastPipe
<1>2. TableInv(tbl) /\ ~Forking
  BY <1>1, IdleState, SettledState DEF Settled
<1>3. SyncCurPrev(tbl).procs = tbl.procs /\ LoseControlOfJobs(tbl).procs = tbl.procs
  <2>1. TableType(tbl) /\ JobsOK(tbl) /\ MarksOK(tbl)
    BY <1>2 DEF TableInv
  <2> QED BY Zenon, <1>2, <2>1, SyncMarks, LoseControlInv DEF SameButMarks
<1>4. CASE CommandStep \/ EnterSubshell \/ \E u \in BOOLEAN : EndLastPipe(u)
  <2>1. tbl' \in {tbl, SyncCurPrev(tbl), LoseControlOfJobs(tbl)}
    BY Zenon, <1>4 DEF CommandStep, EnterSubshell, EndLastPipe
  <2>2. tbl'.procs = tbl.procs
    BY Zenon, <1>3, <2>1
  <2> QED BY <1>1, <2>2, OnceSame
<1>5. CASE BuiltinDisown
  <2>1. PICK x \in Lookup \cup {<<tbl, j>> : j \in Held} : tbl' = Disown(x[1], x[2])
    BY <1>5 DEF BuiltinDisown
  <2>2. x[2] \in Job /\ TableInv(x[1]) /\ x[1] \in {tbl, SyncCurPrev(tbl)}
    <3>1. CASE x \in Lookup
      BY SMTT(30), <1>2, <3>1, LookupFacts DEF Settled
    <3>2. CASE x \in {<<tbl, j>> : j \in Held}
      BY <1>2, <3>2 DEF Held
    <3> QED BY Zenon, <3>1, <3>2
  <2>3. x[1].procs = tbl.procs
    BY Zenon, <1>3, <2>2
  <2>4. Disown(x[1], x[2]).procs = x[1].procs
    BY Zenon, <2>2, ProcsSame
  <2>5. tbl'.procs = tbl.procs
    BY <2>1, <2>3, <2>4
  <2> QED BY Zenon, <1>1, <2>5, OnceSame
<1> QED BY <1>4, <1>5

\* Every step.
LEMMA NextOnce == IInv /\ NotifiedOnce /\ [Next]_vars => NotifiedOnce'
<1> SUFFICES ASSUME IInv, NotifiedOnce, [Next]_vars PROVE NotifiedOnce'
  OBVIOUS
<1>1. CASE UNCHANGED vars \/ KernelStep
  <2>1. notified' = notified /\ tbl' = tbl
    BY Zenon, <1>1 DEF vars, KernelStep, Exit, Stop, Cont
  <2> QED BY <2>1, OnceSame
<1>2. CASE Running
  BY Zenon, <1>2, OnceStep, OnceReapStep DEF Running
<1>3. CASE Command
  <2>1. ASSUME NEW j \in FreeJob, NEW pids \in PidLists, NEW b \in BOOLEAN,
               \/ RunForeground(j, pids) \/ RunCmdSub(j, pids, b)
               \/ RunAsync(j, pids, b) \/ RunLastPipe(j, pids, b)
        PROVE  NotifiedOnce'
    BY Zenon, <2>1, OnceRun
  <2>2. CASE EnterSubshell \/ BuiltinDisown \/ \E u \in BOOLEAN : EndLastPipe(u)
    BY Zenon, <2>2, OnceCommand
  <2>3. CASE BuiltinFg \/ BuiltinBg \/ BuiltinKill \/ JobKill
    BY Zenon, <2>3, SignalBuiltin, OnceCommand
  <2>4. CASE BuiltinWaitAll \/ BuiltinWait \/ BuiltinWaitPid \/ BuiltinWaitNext
               \/ JobWait \/ JobPoll
    BY Zenon, <2>4, WaitBuiltin, OnceCommand
  <2>5. CASE BuiltinJobs \/ HandleSigchld
    BY Zenon, <2>5, QuietBuiltin, OnceCommand
  <2>6. TRUE \in BOOLEAN
    OBVIOUS
  <2> QED BY Zenon, <1>3, <2>1, <2>2, <2>3, <2>4, <2>5, <2>6 DEF Command
<1> QED BY SMTT(30), <1>1, <1>2, <1>3 DEF Next

\* The end of a job is announced at most once, and only when all of its
\* processes have ended, whichever wait loop learns of it (job.cpp:703-713).
THEOREM AnnouncedOnce == Spec => []NotifiedOnce
<1>1. Init => NotifiedOnce
  <2>1. SUFFICES ASSUME Init, NEW j \in Job
                 PROVE  notified[j] <= 1 /\ (notified[j] = 1 => LiveOffsets(tbl, j) = {})
    BY Zenon DEF NotifiedOnce
  <2>2. notified[j] = 0
    BY <2>1 DEF Init
  <2> QED BY <2>2
<1> QED BY <1>1, NextOnce, Invariance, PTL DEF Spec

=============================================================================

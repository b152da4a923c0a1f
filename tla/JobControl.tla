----------------------------- MODULE JobControl -----------------------------
(***************************************************************************)
(* The shell process driving its job table: forking jobs (vm.cpp), waiting *)
(* for them (job.cpp), the job-control builtins (cmd_job.cpp, builtin.h),  *)
(* last-pipes (redir.cpp) and subshells, against a kernel in which child   *)
(* processes stop, continue and exit at any moment.                        *)
(*                                                                         *)
(* The shell is one thread.  todo is what remains of the handler it is     *)
(* executing: a sequence of calls (waitForAny, waitForJob, ...), each of   *)
(* which is one or more actions, one per waitpid.  Between two of them the *)
(* kernel may take any number of steps.  todo = << >> is the interpreter   *)
(* between two commands.                                                   *)
(***************************************************************************)
EXTENDS JobTable

CONSTANTS
  MaxProc,      \* processes per job
  MaxPipes,     \* nested last-pipes
  MaxLevel,     \* subshells followed
  Monitor,      \* RuntimeOption::MONITOR: job control is on
  Interactive   \* a notify callback is set

ASSUME BoundAssumption == MaxProc \in Nat \ {0} /\ MaxPipes \in Nat /\ MaxLevel \in Nat
ASSUME OptionAssumption == Monitor \in BOOLEAN /\ Interactive \in BOOLEAN

VARIABLES
  tbl,       \* the job table
  todo,      \* rest of the current handler
  pipes,     \* last-pipe jobs whose PipelineObject is on the stack
  level,     \* subshell level
  notified,  \* per job, number of termination notices
  kst,       \* kernel: per pid, none/run/stop/zombie (child of this shell)
  rep,       \* kernel: per pid, state change not yet reported by waitpid
  kpg,       \* kernel: per pid, its process group
  tty        \* kernel: foreground process group of the terminal

kernel == <<kst, rep, kpg>>

vars == <<tbl, todo, pipes, level, notified, kst, rep, kpg, tty>>

\* The process group of the shell.
ShellPg == 0

WaitOp == {"BLOCKING", "BLOCK_UNTRACED", "NONBLOCKING"}

Idle == todo = << >>

IsRootShell == level = 0

IsJobControl == IsRootShell /\ Monitor

\* WaitOp of a foreground wait.
ForegroundOp == IF IsJobControl THEN "BLOCK_UNTRACED" ELSE "BLOCKING"

NotifyCallback == IsRootShell /\ Interactive

-----------------------------------------------------------------------------
(* Calls a handler is made of *)

WaitAny == [op |-> "waitForAny"]

WaitJob(j, wop, quiet) ==
  [op |-> "waitForJob", job |-> j, wop |-> wop, quiet |-> quiet]

\* waitForJob past its entry checks, inside the loop.
WaitLoop(j, wop, quiet) ==
  [op |-> "waitLoop", job |-> j, wop |-> wop, quiet |-> quiet]

WaitNext(S) == [op |-> "waitNext", jobs |-> S]

WaitProc(j, k) == [op |-> "Proc::wait", job |-> j, offset |-> k]

AttachCall(j) == [op |-> "attach", job |-> j]

ForegroundCall == [op |-> "tryToBeForeground"]

FgEnd(j) == [op |-> "fgEnd", job |-> j]

\* The remaining arguments of `bg' and `kill'.
SendMore == [op |-> "sendMore"]

DisposeEnd(j) == [op |-> "dispose", job |-> j]

\* A failed assertion ends the process.
Abort == << [op |-> "abort"] >>

Calling(op) == todo # << >> /\ Head(todo).op = op

-----------------------------------------------------------------------------
(* The kernel *)

Child(p) == kst[p] # "none"

\* The status changes of p that waitpid reports under the options of wop.
Report(p, wop) ==
  CASE kst[p] = "zombie" -> {"EXITED"}
    [] kst[p] # "zombie" /\ rep[p] = "stopped" /\ wop # "BLOCKING" -> {"STOPPED"}
    [] kst[p] # "zombie" /\ rep[p] = "continued" /\ wop = "NONBLOCKING" ->
         {"CONTINUED"}
    [] OTHER -> {}

\* waitpid has reported the status change of p.
Reported(p) ==
  /\ kst' = IF kst[p] = "zombie" THEN [kst EXCEPT ![p] = "none"] ELSE kst
  /\ rep' = [rep EXCEPT ![p] = "none"]
  /\ kpg' = IF kst[p] = "zombie" THEN [kpg EXCEPT ![p] = ShellPg] ELSE kpg

\* A pid is not handed out while a child has it as its pid or process group.
FreePid == {p \in Pid : ~Child(p) /\ \A q \in Pid : Child(q) => kpg[q] # p}

\* kill(SIGCONT) takes effect at once; other signals only allow a process
\* what the Stop and Exit actions let it do anyway.
Continue(S) ==
  /\ kst' = [p \in Pid |-> IF p \in S /\ kst[p] = "stop" THEN "run" ELSE kst[p]]
  /\ rep' = [p \in Pid |-> IF p \in S /\ kst[p] = "stop" THEN "continued"
                           ELSE rep[p]]
  /\ UNCHANGED kpg

Exit(p) ==
  /\ kst[p] \in {"run", "stop"}
  /\ kst' = [kst EXCEPT ![p] = "zombie"]
  /\ rep' = [rep EXCEPT ![p] = "none"]
  /\ UNCHANGED <<tbl, todo, pipes, level, notified, kpg, tty>>

Stop(p) ==
  /\ kst[p] = "run"
  /\ kst' = [kst EXCEPT ![p] = "stop"]
  /\ rep' = [rep EXCEPT ![p] = "stopped"]
  /\ UNCHANGED <<tbl, todo, pipes, level, notified, kpg, tty>>

\* Another process sends SIGCONT.
Cont(p) ==
  /\ kst[p] = "stop"
  /\ Continue({p})
  /\ UNCHANGED <<tbl, todo, pipes, level, notified, tty>>

-----------------------------------------------------------------------------
(* Sending signals *)

\* The processes JobObject::send signals: the process group, or each process
\* that is not terminated.
SendTargets(j) ==
  IF ~IsAvailable(tbl, j) THEN {}
  ELSE IF GetPGID(tbl, j) > -1
       THEN {p \in Pid : Child(p) /\ kpg[p] = GetPGID(tbl, j)}
       ELSE {tbl.procs[j][k].pid : k \in LiveOffsets(tbl, j)}

\* Variant: a job that is stopped is passed over.
HangupTargetsRunning ==
  UNION {SendTargets(j) : j \in {x \in Attached(tbl) \ tbl.disowned :
           \E k \in LiveOffsets(tbl, x) : tbl.procs[x][k].state = "RUNNING"}}

\* The processes JobTable::send signals when the shell ends (HUP_EXIT).
HangupTargets == UNION {SendTargets(j) : j \in Attached(tbl) \ tbl.disowned}

\* JobObject::tryToBeForeground.
JobForeground(t, j) == IF GetPGID(t, j) > -1 THEN GetPGID(t, j) ELSE tty

\* ARState::tryToBeForeground.
ShellForeground(t) ==
  IF IsJobControl /\ ToplevelLastPipePGID(t) < 0 THEN ShellPg ELSE tty

-----------------------------------------------------------------------------
(* Waiting *)

\* removeTerminatedJobs of table t, with the tcsetpgrp it ends in.
Cleanup(t) ==
  /\ tbl' = RemoveTerminatedJobs(t)
  /\ tty' = IF t.toplevel # NoJob /\ RemoveTerminatedJobs(t).toplevel = NoJob
            THEN ShellPg ELSE tty

\* Variant: every terminated process is announced.
NotifyEach(t, j, quiet) ==
  notified' = IF /\ j # NoJob /\ ~quiet /\ NotifyCallback
                 /\ j \notin t.disowned /\ j \notin t.lastPipe
              THEN [notified EXCEPT ![j] = @ + 1]
              ELSE notified

\* notifyTermination of the job that a wait result was applied to.
Notify(t, j, quiet) ==
  notified' = IF /\ j # NoJob
                 /\ IsTerminated(t, j)
                 /\ ~quiet
                 /\ NotifyCallback
                 /\ j \notin t.disowned
                 /\ j \notin t.lastPipe
              THEN [notified EXCEPT ![j] = @ + 1]
              ELSE notified

\* One round of waitForAny: waitpid reports p.
AnyReap(p) ==
  /\ Calling("waitForAny")
  /\ \E kind \in Report(p, "NONBLOCKING") :
       LET t == UpdateProcState(tbl, p, kind, NotifyCallback)
       IN  IF UpdateAssertions(tbl, p)
           THEN /\ tbl' = t
                /\ Notify(t, FoundJob(tbl, p), FALSE)
                /\ UNCHANGED todo
           ELSE todo' = Abort /\ UNCHANGED <<tbl, notified>>
  /\ Reported(p)
  /\ UNCHANGED <<pipes, level, tty>>

\* Variant: waitForAny without removeTerminatedJobs.
AnyDoneNoCleanup ==
  /\ Calling("waitForAny")
  /\ \A p \in Pid : Report(p, "NONBLOCKING") = {}
  /\ todo' = Tail(todo)
  /\ UNCHANGED <<tbl, pipes, level, notified, kernel, tty>>

\* waitForAny: waitpid has nothing to report (0), or there is no child (-1).
AnyDone ==
  /\ Calling("waitForAny")
  /\ \A p \in Pid : Report(p, "NONBLOCKING") = {}
  /\ Cleanup(tbl)
  /\ todo' = Tail(todo)
  /\ UNCHANGED <<pipes, level, notified, kernel>>

\* A wait that fails ends the loop of builtin_wait over its targets: the call
\* at work is left together with those for the remaining targets.
LeaveTargets ==
  \E n \in 1..Len(todo) :
    /\ \A i \in 2..n : todo[i].op = "waitForJob"
    /\ n < Len(todo) => todo[n + 1].op # "waitForJob"
    /\ todo' = SubSeq(todo, n + 1, Len(todo))

\* waitForJob up to its loop: the wait fails (ECHILD) for a job of the parent
\* of a subshell, and there is nothing to wait for if the job is not available
\* or, under BLOCK_UNTRACED, already stopped.
JobEnter ==
  /\ Calling("waitForJob")
  /\ LET c == Head(todo)
     IN  \/ ~IsControlled(tbl, c.job) /\ LeaveTargets
         \/ /\ IsControlled(tbl, c.job)
            /\ todo' = IF \/ ~IsAvailable(tbl, c.job)
                          \/ c.wop = "BLOCK_UNTRACED" /\ HasLastStopped(tbl, c.job)
                       THEN Tail(todo)
                       ELSE << WaitLoop(c.job, c.wop, c.quiet) >> \o Tail(todo)
  /\ UNCHANGED <<tbl, pipes, level, notified, kernel, tty>>

\* waitForJob's loop: waitpid(-1) reports p.
JobReap(p) ==
  /\ Calling("waitLoop")
  /\ LET c == Head(todo)
     IN  \E kind \in Report(p, c.wop) :
           LET t == UpdateProcState(tbl, p, kind, NotifyCallback)
               j == FoundJob(tbl, p)
               return == \/ IsTerminated(t, c.job)
                         \/ /\ j = c.job
                            /\ c.wop = "BLOCK_UNTRACED"
                            /\ kind = "STOPPED"
                            /\ HasLastStopped(t, c.job)
           IN  IF ~UpdateAssertions(tbl, p)
               THEN todo' = Abort /\ UNCHANGED <<tbl, notified, tty>>
               ELSE /\ Notify(t, j, j = c.job /\ c.quiet)
                    /\ IF return
                       THEN Cleanup(t) /\ todo' = Tail(todo)
                       ELSE tbl' = t /\ UNCHANGED <<todo, tty>>
  /\ Reported(p)
  /\ UNCHANGED <<pipes, level>>

\* waitForJob's loop ends without the job.
JobFail ==
  /\ LeaveTargets
  /\ Cleanup(tbl)
  /\ UNCHANGED <<pipes, level, notified, kernel>>

\* There is no child (ECHILD), or WNOHANG finds nothing to report.
JobGiveUp ==
  /\ Calling("waitLoop")
  /\ \A p \in Pid :
       \/ ~Child(p)
       \/ Head(todo).wop = "NONBLOCKING" /\ Report(p, "NONBLOCKING") = {}
  /\ JobFail

\* A SIGINT handler ran while waitpid was blocked (EINTR).
JobInterrupted ==
  /\ Calling("waitLoop")
  /\ Head(todo).wop # "NONBLOCKING"
  /\ \A p \in Pid : Report(p, Head(todo).wop) = {}
  /\ JobFail

\* `wait -n': one waitpid(-1) at a time until a target is not available.
NextReap(p) ==
  /\ Calling("waitNext")
  /\ \A j \in Head(todo).jobs : IsAvailable(tbl, j)
  /\ \E kind \in Report(p, ForegroundOp) :
       LET t == UpdateProcState(tbl, p, kind, NotifyCallback)
       IN  IF UpdateAssertions(tbl, p)
           THEN /\ Cleanup(t)
                /\ Notify(t, FoundJob(tbl, p), FALSE)
                /\ UNCHANGED todo
           ELSE todo' = Abort /\ UNCHANGED <<tbl, notified, tty>>
  /\ Reported(p)
  /\ UNCHANGED <<pipes, level>>

NextDone ==
  /\ Calling("waitNext")
  /\ \E j \in Head(todo).jobs : ~IsAvailable(tbl, j)
  /\ todo' = Tail(todo)
  /\ UNCHANGED <<tbl, pipes, level, notified, kernel, tty>>

\* ... or until waitpid fails (ECHILD, EINTR).
NextFail ==
  /\ \A j \in Head(todo).jobs : IsAvailable(tbl, j)
  /\ Cleanup(tbl)
  /\ todo' = Tail(todo)
  /\ UNCHANGED <<pipes, level, notified, kernel>>

NextGiveUp ==
  /\ Calling("waitNext")
  /\ \A p \in Pid : ~Child(p)
  /\ NextFail

NextInterrupted ==
  /\ Calling("waitNext")
  /\ \A p \in Pid : Report(p, ForegroundOp) = {}
  /\ NextFail

\* Proc::wait on the next process of a job that is not attached yet.
ProcWait ==
  /\ Calling("Proc::wait")
  /\ LET c == Head(todo)
         p == tbl.procs[c.job][c.offset].pid
     IN  \E kind \in Report(p, ForegroundOp) :
           LET t == SetProcState(tbl, c.job, c.offset, kind)
           IN  /\ IF c.offset = Len(tbl.procs[c.job])
                  THEN /\ tbl' = UpdateJob(t, c.job)
                       /\ todo' = Tail(todo)
                  ELSE /\ tbl' = t
                       /\ todo' = << WaitProc(c.job, c.offset + 1) >> \o Tail(todo)
               /\ Reported(p)
  /\ UNCHANGED <<pipes, level, notified, tty>>

\* ... interrupted by SIGINT: the remaining processes are not waited for.
ProcWaitInterrupted ==
  /\ Calling("Proc::wait")
  /\ LET c == Head(todo)
     IN  Report(tbl.procs[c.job][c.offset].pid, ForegroundOp) = {}
  /\ todo' = Tail(todo)
  /\ UNCHANGED <<tbl, pipes, level, notified, kernel, tty>>

-----------------------------------------------------------------------------
(* The other calls *)

\* Variant: a job is only attached when its first process is stopped.
CallAttachStopped ==
  /\ Calling("attach")
  /\ LET j == Head(todo).job
     IN  tbl' = IF tbl.procs[j][1].state = "STOPPED" THEN Attach(tbl, j, FALSE) ELSE tbl
  /\ todo' = Tail(todo)
  /\ UNCHANGED <<pipes, level, notified, kernel, tty>>

\* Attach the waited job unless it has terminated.
CallAttach ==
  /\ Calling("attach")
  /\ tbl' = Attach(tbl, Head(todo).job, FALSE)
  /\ todo' = Tail(todo)
  /\ UNCHANGED <<pipes, level, notified, kernel, tty>>

CallForeground ==
  /\ Calling("tryToBeForeground")
  /\ tty' = ShellForeground(tbl)
  /\ todo' = Tail(todo)
  /\ UNCHANGED <<tbl, pipes, level, notified, kernel>>

\* Variant: `fg' leaves the terminal to the job.
CallFgEndNoTerminal ==
  /\ Calling("fgEnd")
  /\ LET j == Head(todo).job
     IN  tbl' = IF IsAvailable(tbl, j) THEN SetCurrentJob(tbl, j) ELSE tbl
  /\ todo' = Tail(todo)
  /\ UNCHANGED <<pipes, level, notified, kernel, tty>>

\* `fg' after its wait: the job is the current one again if it is still
\* there, and the terminal goes back to the last-pipe or to the shell.
CallFgEnd ==
  /\ Calling("fgEnd")
  /\ LET j == Head(todo).job
         t == IF IsAvailable(tbl, j) THEN SetCurrentJob(tbl, j) ELSE tbl
     IN  /\ tbl' = t
         /\ tty' = IF t.toplevel # NoJob THEN JobForeground(t, t.toplevel)
                   ELSE ShellForeground(t)
  /\ todo' = Tail(todo)
  /\ UNCHANGED <<pipes, level, notified, kernel>>

\* syncStatusAndDispose after its wait.
CallDispose ==
  /\ Calling("dispose")
  /\ LET t == RemoveToplevelIfSame(tbl, Head(todo).job)
     IN  tbl' = t /\ tty' = ShellForeground(t)
  /\ todo' = Tail(todo)
  /\ UNCHANGED <<pipes, level, notified, kernel>>

-----------------------------------------------------------------------------
(* Forking *)

\* Job objects nothing refers to.
FreeJob == {j \in Job : /\ j \notin Attached(tbl)
                        /\ j \notin {tbl.cur, tbl.prev, tbl.toplevel}
                        /\ \A i \in DOMAIN pipes : pipes[i] # j}

\* Pids of the processes of a new job, in fork order.
PidLists ==
  UNION {{f \in [1..n -> FreePid] : \A a, b \in 1..n : a # b => f[a] # f[b]} :
           n \in 1..MaxProc}

\* resolvePGID: -1 asks for a new group led by the first process.
ResolvePGID(kind) ==
  IF ~IsRootShell \/ kind = "STR" THEN ShellPg
  ELSE IF kind = "NONE" THEN ToplevelLastPipePGID(tbl)
  ELSE -1

\* resolveProcParam and Proc::fork for every process of a job.
Fork(kind, pids) ==
  LET jobControl == IsJobControl /\ kind # "STR"
      pgid == IF ~jobControl THEN ShellPg
              ELSE IF ResolvePGID(kind) < 0 THEN pids[1] ELSE ResolvePGID(kind)
      ps   == {pids[k] : k \in DOMAIN pids}
  IN  /\ DOMAIN tbl.jobs # JobId
      /\ kst' = [p \in Pid |-> IF p \in ps THEN "run" ELSE kst[p]]
      /\ rep' = [p \in Pid |-> IF p \in ps THEN "none" ELSE rep[p]]
      /\ kpg' = [p \in Pid |-> IF p \in ps THEN pgid ELSE kpg[p]]
      /\ tty' = IF jobControl /\ kind = "NONE" THEN pgid ELSE tty

\* The group leader attribute of the first process.
Grouped(kind) == IsJobControl /\ kind # "STR" /\ ResolvePGID(kind) < 0

\* A foreground command or pipeline (forkAndExec; attachAsyncJob, NONE).
RunForeground(j, pids) ==
  /\ Idle
  /\ Fork("NONE", pids)
  /\ tbl' = Create(tbl, j, pids, FALSE, Grouped("NONE"))
  /\ notified' = [notified EXCEPT ![j] = 0]
  /\ todo' = << WaitProc(j, 1), AttachCall(j), ForegroundCall, WaitAny >>
  /\ UNCHANGED <<pipes, level>>

\* A background job, coprocess (JOB, COPROC), disowned job or process
\* substitution (DISOWN, IN_PIPE, OUT_PIPE).
RunAsync(j, pids, disown) ==
  /\ Idle
  /\ Fork("JOB", pids)
  /\ tbl' = Attach(Create(tbl, j, pids, FALSE, Grouped("JOB")), j, disown)
  /\ notified' = [notified EXCEPT ![j] = 0]
  /\ UNCHANGED <<todo, pipes, level>>

\* A command substitution: its output is read, then it is waited for; if the
\* read failed or was interrupted it is attached as it is.
RunCmdSub(j, pids, readOk) ==
  /\ Idle
  /\ Len(pids) = 1
  /\ Fork("STR", pids)
  /\ tbl' = Create(tbl, j, pids, FALSE, Grouped("STR"))
  /\ notified' = [notified EXCEPT ![j] = 0]
  /\ todo' = IF readOk THEN << WaitProc(j, 1), AttachCall(j) >> ELSE << AttachCall(j) >>
  /\ UNCHANGED <<pipes, level>>

\* A pipeline whose last element runs in the shell itself.
\* If its stdin cannot be set up (dup2 fails) the job stays attached, but no
\* PipelineObject is pushed.
RunLastPipe(j, pids, dupOk) ==
  /\ Idle
  /\ Len(pipes) < MaxPipes
  /\ Fork("NONE", pids)
  /\ tbl' = Attach(Create(tbl, j, pids, TRUE, Grouped("NONE")), j, FALSE)
  /\ notified' = [notified EXCEPT ![j] = 0]
  /\ pipes' = IF dupOk THEN Append(pipes, j) ELSE pipes
  /\ UNCHANGED <<todo, level>>

\* The last element is done, or is unwound by an exception: the pipeline
\* object waits for the other processes, or interrupts and polls them.
EndLastPipe(unwind) ==
  /\ Idle
  /\ pipes # << >>
  /\ LET j == pipes[Len(pipes)]
         wop == IF unwind THEN "NONBLOCKING" ELSE ForegroundOp
     IN  todo' = << WaitJob(j, wop, FALSE), DisposeEnd(j) >>
  /\ pipes' = SubSeq(pipes, 1, Len(pipes) - 1)
  /\ UNCHANGED <<tbl, level, notified, kernel, tty>>

\* Follow the child of a fork (STR, JOB, ...): it owns no process.
EnterSubshell ==
  /\ Idle
  /\ level < MaxLevel
  /\ level' = level + 1
  /\ tbl' = LoseControlOfJobs(tbl)
  /\ kst' = [p \in Pid |-> "none"]
  /\ rep' = [p \in Pid |-> "none"]
  /\ kpg' = [p \in Pid |-> ShellPg]
  /\ UNCHANGED <<todo, pipes, notified, tty>>

-----------------------------------------------------------------------------
(* Builtins *)

\* What a job-spec can name, with the table after the lookup: a job id, or
\* the current and the previous job, which syncs the two.  A command with
\* several arguments may have synced before.
Lookup ==
  LET Ids(t) == {Find(t, i) : i \in DOMAIN t.jobs}
      s == SyncCurPrev(tbl)
  IN  {x \in {<<tbl, j>> : j \in Ids(tbl)}
               \cup {<<s, j>> : j \in Ids(s) \cup {s.cur, s.prev}} : x[2] # NoJob}

\* A job object some script variable holds, attached or not.
Held == {j \in Job : tbl.procs[j] # << >>}

BuiltinFg ==
  /\ Idle
  /\ IsJobControl
  /\ \E x \in Lookup :
       LET j == x[2]
       IN  /\ tbl' = x[1]
           /\ tty' = JobForeground(tbl, j)
           /\ Continue(SendTargets(j))
           /\ todo' = << WaitAny, WaitJob(j, "BLOCK_UNTRACED", TRUE), FgEnd(j) >>
  /\ UNCHANGED <<pipes, level, notified>>

\* `bg': the first job is continued (if there is one) and states refreshed.
BuiltinBg ==
  /\ Idle
  /\ IsJobControl
  /\ \/ \E x \in Lookup :
          /\ tbl' = x[1]
          /\ Continue(SendTargets(x[2]))
          /\ todo' = << WaitAny, SendMore >>
     \/ /\ tbl' \in {tbl, SyncCurPrev(tbl)}
        /\ todo' = << SendMore >>
        /\ UNCHANGED kernel
  /\ UNCHANGED <<pipes, level, notified, tty>>

\* `kill': SIGCONT to jobs and, through their pid, to single processes.
BuiltinKill ==
  /\ Idle
  /\ todo' = << SendMore >>
  /\ UNCHANGED <<tbl, pipes, level, notified, kernel, tty>>

\* The next argument of `bg' or `kill', or waitForAny after the last one.
CallSendMore ==
  /\ Calling("sendMore")
  /\ \/ \E x \in Lookup : /\ tbl' = x[1]
                          /\ Continue(SendTargets(x[2]))
                          /\ UNCHANGED todo
     \/ \E p \in DOMAIN tbl.entries : Continue({p}) /\ UNCHANGED <<tbl, todo>>
     \/ todo' = << WaitAny >> \o Tail(todo) /\ UNCHANGED <<tbl, kernel>>
  /\ UNCHANGED <<pipes, level, notified, tty>>

\* The kill method of a held job.
JobKill ==
  /\ Idle
  /\ \E j \in Held : Continue(SendTargets(j))
  /\ todo' = << WaitAny >>
  /\ UNCHANGED <<tbl, pipes, level, notified, tty>>

\* `wait' with no argument: every owned job of the table, in job id order.
BuiltinWaitAll ==
  /\ Idle
  /\ LET ids == {i \in DOMAIN tbl.jobs : /\ tbl.jobs[i] \notin tbl.disowned
                                         /\ IsControlled(tbl, tbl.jobs[i])}
     IN  \E m \in 0..MaxJob : \E q \in [1..m -> ids] :
           /\ {q[n] : n \in 1..m} = ids
           /\ \A a, b \in 1..m : a < b => q[a] < q[b]
           /\ todo' = [n \in 1..m |-> WaitJob(tbl.jobs[q[n]], ForegroundOp, FALSE)]
                      \o << WaitAny >>
  /\ UNCHANGED <<tbl, pipes, level, notified, kernel, tty>>

\* `wait %n %m': the jobs are resolved first, then waited for in order.
BuiltinWait ==
  /\ Idle
  /\ \E x, y \in Lookup :
       /\ x[1] = y[1]
       /\ tbl' = x[1]
       /\ LET W(j) == WaitJob(j, ForegroundOp, FALSE)
          IN  todo' \in {<< W(x[2]), WaitAny >>, << W(x[2]), W(y[2]), WaitAny >>}
  /\ UNCHANGED <<pipes, level, notified, kernel, tty>>

\* `wait pid': the process is looked up, then the job of its entry; `assert'
\* is the check that there is one.
WaitPid(p) ==
  LET e == FindProc(tbl, p)
      j == Find(tbl, tbl.entries[e].jobId)
  IN  /\ e # 0
      /\ todo' = IF j = NoJob THEN Abort
                 ELSE << WaitJob(j, ForegroundOp, FALSE), WaitAny >>
      /\ UNCHANGED <<tbl, pipes, level, notified, kernel, tty>>

\* ... for a process of a job that is not disowned.
BuiltinWaitPid ==
  /\ Idle
  /\ \E p \in DOMAIN tbl.entries :
       Find(tbl, tbl.entries[p].jobId) # NoJob /\ WaitPid(p)

\* The wait method of a held job.
JobWait ==
  /\ Idle
  /\ \E j \in Held : todo' = << WaitJob(j, ForegroundOp, FALSE), WaitAny >>
  /\ UNCHANGED <<tbl, pipes, level, notified, kernel, tty>>

\* `wait -n', for every owned job of the table or for the jobs of a lookup (a
\* pid stands for the job of its entry).
BuiltinWaitNext ==
  /\ Idle
  /\ \/ /\ LET S == {j \in Attached(tbl) : /\ j \notin tbl.disowned
                                            /\ IsControlled(tbl, j)}
           IN  todo' = << WaitNext(S), WaitAny >>
        /\ UNCHANGED tbl
     \/ \E x, y \in Lookup :
          /\ x[1] = y[1]
          /\ tbl' = x[1]
          /\ todo' = << WaitNext({x[2], y[2]}), WaitAny >>
  /\ UNCHANGED <<pipes, level, notified, kernel, tty>>

BuiltinDisown ==
  /\ Idle
  /\ \E x \in Lookup \cup {<<tbl, j>> : j \in Held} : tbl' = Disown(x[1], x[2])
  /\ UNCHANGED <<todo, pipes, level, notified, kernel, tty>>

BuiltinJobs ==
  /\ Idle
  /\ tbl' = SyncCurPrev(tbl)
  /\ UNCHANGED <<todo, pipes, level, notified, kernel, tty>>

\* The poll method of a held job.
JobPoll ==
  /\ Idle
  /\ \E j \in Held : todo' = << WaitJob(j, "NONBLOCKING", FALSE) >>
  /\ UNCHANGED <<tbl, pipes, level, notified, kernel, tty>>

\* The interpreter finds SIGCHLD pending.
HandleSigchld ==
  /\ Idle
  /\ todo' = << WaitAny >>
  /\ UNCHANGED <<tbl, pipes, level, notified, kernel, tty>>

-----------------------------------------------------------------------------

\* callPipeline when a later fork fails: the processes forked so far are sent
\* SIGKILL and are neither waited for nor attached.
PartialFork(pids) ==
  /\ Idle
  /\ Fork("NONE", pids)
  /\ UNCHANGED <<tbl, todo, pipes, level, notified>>

Init ==
  /\ tbl = EmptyTable
  /\ todo = << >>
  /\ pipes = << >>
  /\ level = 0
  /\ notified = [j \in Job |-> 0]
  /\ kst = [p \in Pid |-> "none"]
  /\ rep = [p \in Pid |-> "none"]
  /\ kpg = [p \in Pid |-> ShellPg]
  /\ tty = ShellPg

KernelStep == \E p \in Pid : Exit(p) \/ Stop(p) \/ Cont(p)

Reap(p) == AnyReap(p) \/ JobReap(p) \/ NextReap(p)

Step ==
  \/ AnyDone \/ JobEnter \/ JobGiveUp \/ NextDone \/ NextGiveUp \/ ProcWait
  \/ CallAttach \/ CallForeground \/ CallFgEnd \/ CallDispose \/ CallSendMore

Interruption == JobInterrupted \/ NextInterrupted \/ ProcWaitInterrupted

Running == Step \/ Interruption \/ \E p \in Pid : Reap(p)

Command ==
  \/ \E j \in FreeJob, pids \in PidLists :
       \/ RunForeground(j, pids)
       \/ \E b \in BOOLEAN :
            RunAsync(j, pids, b) \/ RunCmdSub(j, pids, b) \/ RunLastPipe(j, pids, b)
  \/ \E u \in BOOLEAN : EndLastPipe(u)
  \/ EnterSubshell
  \/ BuiltinFg \/ BuiltinBg \/ BuiltinKill \/ BuiltinDisown \/ BuiltinJobs
  \/ BuiltinWaitAll \/ BuiltinWait \/ BuiltinWaitPid \/ BuiltinWaitNext
  \/ JobKill \/ JobWait \/ JobPoll \/ HandleSigchld

Next == KernelStep \/ Running \/ Command

Spec == Init /\ [][Next]_vars

\* Commands that end in a wait for a job, in the shell or in a child of it.
WaitCommand ==
  \/ \E j \in FreeJob, pids \in PidLists :
       RunForeground(j, pids) \/ RunAsync(j, pids, FALSE)
  \/ BuiltinFg \/ BuiltinWaitAll \/ BuiltinWait \/ EnterSubshell

\* The shell is in a waitpid(-1).
InWaitpid ==
  \/ Calling("waitForAny") \/ Calling("waitLoop")
  \/ Calling("waitNext") /\ \A j \in Head(todo).jobs : IsAvailable(tbl, j)

\* The shell thread runs whenever it is not blocked, and waitpid(-1) does not
\* pass over the same terminated child for ever: either it is reported or the
\* shell stops asking.  Nothing is assumed of the children, nor of the user who
\* may or may not interrupt a wait.
WaitSpec ==
  /\ Init
  /\ [][KernelStep \/ Running \/ WaitCommand]_vars
  /\ WF_vars(Step)
  /\ \A p \in Pid : []<>~(InWaitpid /\ kst[p] = "zombie")

\* With forks that fail half way through a pipeline.
ForkFailureSpec ==
  Init /\ [][Next \/ \E pids \in PidLists : PartialFork(pids)]_vars

-----------------------------------------------------------------------------
(* Properties *)

\* Types of the kernel's state, of the shell's own and of the job table.  In
\* particular a job id never exceeds the table limit Proc::fork checks
\* (job.cpp:46), although attach (job.cpp:522) does not check it.
TypeOK ==
  /\ kst \in [Pid -> {"none", "run", "stop", "zombie"}]
  /\ rep \in [Pid -> {"none", "stopped", "continued"}]
  /\ kpg \in [Pid -> Pid \cup {ShellPg}]
  /\ tty \in Pid \cup {ShellPg}
  /\ level \in 0..MaxLevel
  /\ notified \in [Job -> Nat]
  /\ pipes \in Seq(Job)
  /\ TableType(tbl)

\* No wait result is ever applied to a deleted entry, to a job that left the
\* table or to a process with another pid: the assertions of updateProcState
\* and Proc::updateState (job.cpp:685, 687, 223) hold although pids are
\* recycled and entries are removed in batches.
NoAssertFailure == todo # Abort

\* The job the current handler has forked and not attached yet.
Pending(p) ==
  /\ todo # << >>
  /\ Head(todo).op \in {"Proc::wait", "attach"}
  /\ IsAvailable(tbl, Head(todo).job)
  /\ p \in ValidPids(tbl, Head(todo).job)

\* Every child of the shell is known to it and every process it takes for
\* alive is a child: whatever interrupts a wait, a pid has a live entry in the
\* ProcTable exactly while it has not been reaped, save the processes that the
\* running handler itself is about to wait for or attach (vm.cpp:444-472).
NoLostChild ==
  \A p \in Pid :
    Child(p) <=> p \in Live(tbl) \/ Pending(p)

\* The pid index and the job list are exact: a live entry designates a live
\* process with that pid of an attached, available job, every live process of
\* such a job has its entry, and a job's id is its place in the list, also
\* for disowned jobs, whose ids are not handed out again (job.cpp:464-516,
\* 522-539, 715-743).
IndexExact == JobsOK(tbl) /\ IndexOK(tbl)

\* The current and the previous job differ, there is no previous without a
\* current one (the assertion at job.cpp:583) and neither is a last-pipe job;
\* both are attached, or belong to the parent of a subshell.
CurPrevOK ==
  /\ tbl.prev # NoJob => tbl.cur # NoJob /\ tbl.cur # tbl.prev
  /\ \A j \in {tbl.cur, tbl.prev} \ {NoJob} :
       /\ j \in Attached(tbl) \/ (~IsControlled(tbl, j) /\ j \in tbl.disowned)
       /\ j \notin tbl.lastPipe
       /\ Idle => ~IsTerminated(tbl, j)

\* After a sync (job.cpp:557-586), %+ names a job whenever one can be named
\* and %- whenever a second one can.
CurPrevComplete ==
  LET t == SyncCurPrev(tbl)
  IN  Idle => /\ {t.cur, t.prev} \ {NoJob} \subseteq Candidates(t)
              /\ t.cur = NoJob <=> Candidates(t) = {}
              /\ t.prev = NoJob <=> Candidates(t) \subseteq {t.cur}

\* Between two commands no deleted entry and no terminated job is left in the
\* table (waitForAny and waitForJob end in removeTerminatedJobs).
NoLeftover ==
  Idle => /\ tbl.deletedCount = 0
          /\ \A j \in Attached(tbl) : ~IsTerminated(tbl, j)

\* Between two commands the terminal belongs to the outermost last-pipe job if
\* there is one and to the shell otherwise, on every path through a
\* foreground job, `fg', a last-pipe and an interrupted wait.
TerminalReturned ==
  Idle /\ IsJobControl =>
    tty = IF ToplevelLastPipePGID(tbl) > -1 THEN ToplevelLastPipePGID(tbl)
          ELSE ShellPg

\* A job object, however stale, never signals a pid or a process group that
\* may belong to someone else: JobObject::send (job.cpp:414-428) only reaches
\* children that have not been reaped, and a group with a child in it.  This
\* includes the jobs a subshell inherits ("disallow signal sending to sibling
\* jobs", CHANGELOG.md:2245).
SignalOwn ==
  Idle => \A j \in Held :
    /\ \A p \in SendTargets(j) : Child(p)
    /\ GetPGID(tbl, j) > -1 => SendTargets(j) # {}

\* The SIGHUP of a shell that ends (vm.cpp:2704) reaches every live process of
\* every available job that is not disowned, also when the first process of
\* the job, which its group is named after, has been reaped.
HangupReaches ==
  Idle => \A j \in Attached(tbl) \ tbl.disowned :
    IsAvailable(tbl, j) => ValidPids(tbl, j) \subseteq HangupTargets

\* The user is told of a job's termination at most once, and only when all of
\* it has ended, although notifyTermination is called from every wait loop.
NotifiedOnce ==
  \A j \in Job : notified[j] <= 1 /\ (notified[j] = 1 => LiveOffsets(tbl, j) = {})

\* A wait for a job.
WaitingFor(j) ==
  /\ todo # << >>
  /\ Head(todo).op \in {"waitForJob", "waitLoop", "Proc::wait"}
  /\ Head(todo).job = j

\* The kernel knows that every process of the job has ended.
Ended(j) == \A k \in LiveOffsets(tbl, j) : kst[tbl.procs[j][k].pid] = "zombie"

\* A wait for a job all of whose processes have exited returns, whatever the
\* other children do: waitForJob (job.cpp:622-646) does not miss the exit
\* among the reports of other jobs.
WaitEnds == \A j \in Job : WaitingFor(j) /\ Ended(j) ~> ~WaitingFor(j)

=============================================================================

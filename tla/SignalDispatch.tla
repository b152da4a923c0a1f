--------------------------- MODULE SignalDispatch ---------------------------
(***************************************************************************)
(* Signals between the kernel and the handlers of a script: the handler    *)
(* that only records the signal (core.cpp), the set of pending signals     *)
(* (AtomicSigSet, signals.h), the SIGNAL label of the main loop, the frame *)
(* of a running handler and its removal by a return or by an exception     *)
(* (vm.cpp), the reaping of children and the reset in a forked child       *)
(* (job.cpp).                                                              *)
(*                                                                         *)
(* A signal may arrive between any two steps.  SignalGuard blocks every    *)
(* signal; the kernel keeps what arrives meanwhile and delivers it when    *)
(* the guard ends.  The functions of the script are any sequence of calls, *)
(* returns, commands and exceptions.                                       *)
(***************************************************************************)
EXTENDS Integers, Sequences

CONSTANTS
  NSIG,              \* signals are 1..NSIG - 1
  INT, CHLD, WINCH,
  JobSig,            \* SIGINT, SIGQUIT, SIGTSTP, SIGTTIN, SIGTTOU
  Status,            \* exit statuses
  MaxFrame,          \* VMState::MAX_FRAME_SIZE
  MaxLevel,          \* SYS_LIMIT_SUBSHELL_LEVEL
  MaxChild           \* bound: children that have not been waited for

ASSUME SignalAssumption ==
  /\ NSIG \in Nat /\ {INT, CHLD, WINCH} \subseteq 1..(NSIG - 1)
  /\ INT # CHLD /\ CHLD # WINCH
  /\ INT \in JobSig /\ JobSig \subseteq 1..(NSIG - 1) \ {CHLD, WINCH}
  /\ 0 \in Status
  /\ MaxFrame \in Nat \ {0} /\ MaxLevel \in Nat /\ MaxChild \in Nat

Sig == 1..(NSIG - 1)

VARIABLES
  pending,           \* pendingSigSet
  index,             \* pendingIndex
  kpend,             \* blocked signals, pending in the kernel
  masked,            \* a SignalGuard blocks every signal
  handlers,          \* signals with an entry in sigVector
  canHandleSignal,
  status,            \* EXIT_STATUS
  frames,            \* control frames; saved is local 0 of a trampoline
  level,             \* subshellLevel
  pc,                \* where the main loop, waitForAny or Proc::fork is
  live,              \* running children
  zombies,           \* children that have terminated and not been waited for
  lost,              \* history: a SIGCHLD has been popped like any other signal
  was                \* history: the exit status when the last handler was started

sigvars == <<pending, index, kpend, masked>>
vmvars  == <<handlers, canHandleSignal, status, frames, level>>
kids    == <<live, zombies, lost, was>>
vars    == <<sigvars, vmvars, pc, kids>>

Frame == [kind : {"code", "sig", "term", "fork"}, saved : Status]

Code == [kind |-> "code", saved |-> 0]

\* The frame of a trampoline; it saves the exit status.
Trampoline(kind) == [kind |-> kind, saved |-> status]

Top == frames[Len(frames)].kind

PopFrame == frames' = SubSeq(frames, 1, Len(frames) - 1)

Init ==
  /\ pending = {} /\ index = 1 /\ kpend = {} /\ masked = FALSE
  /\ handlers = {} /\ canHandleSignal = TRUE /\ status = 0 /\ frames = <<Code>> /\ level = 0
  /\ pc = "run"
  /\ live = 0 /\ zombies = 0 /\ lost = FALSE /\ was = 0

-----------------------------------------------------------------------------
(* The kernel *)

\* The signals whose disposition is signalHandler.
Caught == handlers \cup {CHLD, WINCH}

\* s is sent to the shell: signalHandler adds it to the pending signals, now or
\* when the guard ends.
Send(s) ==
  IF masked THEN kpend' = kpend \cup {s} /\ UNCHANGED pending
  ELSE pending' = pending \cup {s} /\ UNCHANGED kpend

Raise(s) ==
  /\ pc # "done"
  /\ s \in Caught
  /\ Send(s)
  /\ UNCHANGED <<index, masked, vmvars, pc, kids>>

ChildExit ==
  /\ pc # "done"
  /\ live > 0
  /\ live' = live - 1 /\ zombies' = zombies + 1
  /\ Send(CHLD)
  /\ UNCHANGED <<index, masked, vmvars, pc, lost, was>>

\* The end of a SignalGuard, with p the pending signals the shell has left.
Unblock(p) == pending' = p \cup kpend /\ kpend' = {} /\ masked' = FALSE

\* ... under which the handlers have become hs: the default action of a signal
\* that has lost its handler may end the process, which goes on at next.
UnblockDefault(hs, next) ==
  LET caught == hs \cup {CHLD, WINCH}
  IN  /\ pending' = pending \cup (kpend \cap caught) /\ kpend' = {} /\ masked' = FALSE
      /\ pc' \in {next} \cup {"done" : s \in kpend \ caught}

-----------------------------------------------------------------------------
(* The script *)

\* CHECK_SIGNAL at the end of an instruction.
CheckSignal == pc' = IF pending = {} THEN "run" ELSE "signal"

Running == pc = "run" /\ Top \in {"code", "fork"}

\* A command or a branch: it may set the exit status.
Operate(st) ==
  /\ Running
  /\ status' = st
  /\ CheckSignal
  /\ UNCHANGED <<sigvars, handlers, canHandleSignal, frames, kids, level>>

\* windStackFrame of a function, or its stack overflow error.
Call ==
  /\ Running
  /\ IF Len(frames) < MaxFrame THEN frames' = Append(frames, Code) /\ pc' = pc
     ELSE pc' = "throw" /\ UNCHANGED frames
  /\ UNCHANGED <<sigvars, handlers, canHandleSignal, status, kids, level>>

Return ==
  /\ Running
  /\ Top = "code" /\ Len(frames) > 1
  /\ PopFrame
  /\ CheckSignal
  /\ UNCHANGED <<sigvars, handlers, canHandleSignal, status, kids, level>>

\* The handlers below a frame are no longer running.
Unwound(f) ==
  canHandleSignal' = (canHandleSignal \/ \E a \in (f + 1)..Len(frames) : frames[a].kind = "sig")

\* Variant: the exception does not know about trampolines.
HandleExceptionKeep(f, st) ==
  /\ pc = "throw" \/ Running
  /\ frames[f].kind # "sig"
  /\ \A a \in (f + 1)..Len(frames) : frames[a].kind \in {"code", "sig"}
  /\ frames' = SubSeq(frames, 1, f)
  /\ status' = st
  /\ pc' \in IF frames[f].kind = "fork" THEN {"run", "term"} ELSE {"run"}
  /\ UNCHANGED <<sigvars, canHandleSignal, handlers, kids, level>>

\* handleException: frame f catches, and the ones above it are dropped.  The
\* guard of a subshell and the trampoline of the termination hook let nothing
\* pass; an exception that is not caught in a subshell ends it.
HandleException(f, st) ==
  /\ pc = "throw" \/ Running
  /\ frames[f].kind # "sig"
  /\ \A a \in (f + 1)..Len(frames) : frames[a].kind \in {"code", "sig"}
  /\ Unwound(f)
  /\ frames' = SubSeq(frames, 1, f)
  /\ status' = st
  /\ pc' \in IF frames[f].kind = "fork" THEN {"run", "term"} ELSE {"run"}
  /\ UNCHANGED <<sigvars, handlers, kids, level>>

\* An interrupted system call: the SIGINT that raises the error is cleared.
RaiseEINTR ==
  /\ Running
  /\ INT \in pending
  /\ pending' = pending \ {INT}
  /\ pc' = "throw"
  /\ UNCHANGED <<index, kpend, masked, vmvars, kids>>

\* installSignalHandler; SIGCHLD is an unhandled signal.
Install(s) ==
  /\ Running
  /\ s # CHLD
  /\ handlers' = handlers \cup {s}
  /\ CheckSignal
  /\ UNCHANGED <<sigvars, canHandleSignal, status, frames, kids, level>>

Uninstall(s) ==
  /\ Running
  /\ handlers' = handlers \ {s}
  /\ CheckSignal
  /\ UNCHANGED <<sigvars, canHandleSignal, status, frames, kids, level>>

\* Variant: the exit status of the handler stays.
ReturnSigKeep ==
  /\ pc = "run" /\ Top = "sig"
  /\ canHandleSignal' = TRUE
  /\ PopFrame
  /\ CheckSignal
  /\ UNCHANGED <<sigvars, handlers, status, kids, level>>

\* RETURN_SIG, at the end of the trampoline.
ReturnSig ==
  /\ pc = "run" /\ Top = "sig"
  /\ canHandleSignal' = TRUE
  /\ status' = frames[Len(frames)].saved
  /\ PopFrame
  /\ CheckSignal
  /\ UNCHANGED <<sigvars, handlers, kids, level>>

\* The end of the script or of a subshell.
Finish ==
  /\ Running
  /\ Top = "fork" \/ Len(frames) = 1
  /\ pc' = "term"
  /\ UNCHANGED <<sigvars, vmvars, kids>>

\* prepareTermination or TERM_HOOK, if there is a termination hook; the main loop
\* that prepareTermination starts begins with CHECK_SIGNAL.
KickTermHook ==
  /\ pc = "term"
  /\ Len(frames) + 1 < MaxFrame
  /\ frames' = Append(Append(frames, Trampoline("term")), Code)
  /\ IF Top = "fork" THEN pc' = "run" ELSE CheckSignal
  /\ UNCHANGED <<sigvars, handlers, canHandleSignal, status, kids, level>>

\* ... or if there is none.
NoTermHook ==
  /\ pc = "term"
  /\ pc' = "done"
  /\ UNCHANGED <<sigvars, vmvars, kids>>

ReturnTerm ==
  /\ pc = "run" /\ Top = "term"
  /\ status' = frames[Len(frames)].saved
  /\ pc' = "done"
  /\ UNCHANGED <<sigvars, handlers, canHandleSignal, frames, kids, level>>

-----------------------------------------------------------------------------
(* The SIGNAL label and waitForAny *)

\* The label; waitForAny blocks signals, then clears SIGCHLD.
SignalLabel ==
  /\ pc = "signal"
  /\ IF CHLD \in pending
     THEN masked' = TRUE /\ pending' = pending \ {CHLD} /\ pc' = "reap"
     ELSE pc' = "test" /\ UNCHANGED <<pending, masked>>
  /\ UNCHANGED <<index, kpend, vmvars, kids>>

\* waitpid(-1, WNOHANG) in the loop of waitForAny.
Reap ==
  /\ pc = "reap"
  /\ IF zombies > 0 THEN zombies' = zombies - 1 /\ pc' = pc
     ELSE pc' = "reaped" /\ UNCHANGED zombies
  /\ UNCHANGED <<sigvars, vmvars, live, lost, was>>

\* Variant: SIGCHLD is cleared at the end.
ReapEndClear ==
  /\ pc = "reaped"
  /\ pending' = (pending \cup kpend) \ {CHLD} /\ kpend' = {} /\ masked' = FALSE
  /\ pc' = "test"
  /\ UNCHANGED <<index, vmvars, kids>>

\* The end of waitForAny.
ReapEnd ==
  /\ pc = "reaped"
  /\ Unblock(pending)
  /\ pc' = "test"
  /\ UNCHANGED <<index, vmvars, kids>>

\* Variant: signals are assumed to be pending still.
TestSignalOnce ==
  /\ pc = "test"
  /\ IF canHandleSignal THEN pc' = "pop" /\ masked' = TRUE
     ELSE pc' = "run" /\ UNCHANGED masked
  /\ UNCHANGED <<pending, index, kpend, vmvars, kids>>

\* Is there a signal, and may a handler run?
TestSignal ==
  /\ pc = "test"
  /\ IF canHandleSignal /\ pending # {} THEN pc' = "pop" /\ masked' = TRUE
     ELSE pc' = "run" /\ UNCHANGED masked
  /\ UNCHANGED <<pending, index, kpend, vmvars, kids>>

NextIndex(k) == IF k + 1 = NSIG THEN 1 ELSE k + 1

\* kickSignalHandler: the trampoline and the function it calls, or a stack
\* overflow error of one of the two.
Kick(s) ==
  IF Len(frames) + 1 < MaxFrame
  THEN /\ frames' = Append(Append(frames, Trampoline("sig")), Code)
       /\ canHandleSignal' = FALSE
       /\ was' = status
       /\ pc' = "run"
  ELSE pc' = "throw" /\ UNCHANGED <<frames, canHandleSignal, was>>

\* Variant: the search always starts with the first signal.
PopPendingSigFirst ==
  /\ pc = "pop"
  /\ IF index \notin pending
     THEN index' = NextIndex(index) /\ UNCHANGED <<pending, kpend, masked, vmvars, pc, kids>>
     ELSE /\ index' = 1
          /\ Unblock(pending \ {index})
          /\ lost' = (lost \/ index = CHLD)
          /\ IF index \in handlers THEN Kick(index)
             ELSE pc' = "run" /\ UNCHANGED <<frames, canHandleSignal, was>>
          /\ UNCHANGED <<handlers, status, live, zombies, level>>

\* One round of popPendingSig; the signal it finds goes to its handler.
PopPendingSig ==
  /\ pc = "pop"
  /\ index' = NextIndex(index)
  /\ IF index \notin pending THEN UNCHANGED <<pending, kpend, masked, vmvars, pc, kids>>
     ELSE /\ Unblock(pending \ {index})
          /\ lost' = (lost \/ index = CHLD)
          /\ IF index \in handlers THEN Kick(index)
             ELSE pc' = "run" /\ UNCHANGED <<frames, canHandleSignal, was>>
          /\ UNCHANGED <<handlers, status, live, zombies, level>>

-----------------------------------------------------------------------------
(* Proc::fork *)

\* The limit of subshells, or another error.
ForkFailure ==
  /\ Running
  /\ pc' = "throw"
  /\ UNCHANGED <<sigvars, vmvars, kids>>

ForkParent ==
  /\ Running
  /\ level < MaxLevel
  /\ live + zombies < MaxChild
  /\ live' = live + 1
  /\ CheckSignal
  /\ UNCHANGED <<sigvars, vmvars, zombies, lost, was>>

\* From here on the model follows the child, under the guard of the parent.  Its
\* frame now has the guard of the subshell.
ForkChild(jobControl) ==
  /\ Running
  /\ level < MaxLevel
  /\ level' = level + 1
  /\ masked' = TRUE
  /\ frames' = [frames EXCEPT ![Len(frames)].kind = "fork"]
  /\ live' = 0 /\ zombies' = 0 /\ lost' = FALSE
  /\ pc' = IF jobControl THEN "setting" ELSE "clear"
  /\ UNCHANGED <<pending, index, kpend, handlers, canHandleSignal, status, was>>

\* setJobControlSignalSetting(st, false): the end of its own guard unblocks every
\* signal, although Proc::fork's guard is still there.
ChildSetting ==
  /\ pc = "setting"
  /\ handlers' = handlers \ JobSig
  /\ UnblockDefault(handlers', "clear")
  /\ UNCHANGED <<index, canHandleSignal, status, frames, kids, level>>

\* clearPendingSignal and canHandleSignal.
ChildClear ==
  /\ pc = "clear"
  /\ pending' = {} /\ index' = 1
  /\ canHandleSignal' = TRUE
  /\ pc' = "reset"
  /\ UNCHANGED <<kpend, masked, handlers, status, frames, kids, level>>

\* resetSignalSettingUnblock, the rest of Proc::fork and the end of its guard.
ChildReset ==
  /\ pc = "reset"
  /\ handlers' = {}
  /\ UnblockDefault({}, "run")
  /\ UNCHANGED <<index, canHandleSignal, status, frames, kids, level>>

-----------------------------------------------------------------------------

Script ==
  \/ \E st \in Status : Operate(st)
  \/ Call \/ Return \/ RaiseEINTR
  \/ \E f \in DOMAIN frames, st \in Status : HandleException(f, st)
  \/ \E s \in Sig : Install(s) \/ Uninstall(s)
  \/ Finish
  \/ ForkParent \/ ForkFailure
  \/ \E jobControl \in BOOLEAN : ForkChild(jobControl)

\* What the shell does by itself.
Shell ==
  \/ SignalLabel \/ Reap \/ ReapEnd \/ TestSignal \/ PopPendingSig
  \/ ReturnSig \/ ReturnTerm \/ KickTermHook \/ NoTermHook
  \/ ChildSetting \/ ChildClear \/ ChildReset

Next == Script \/ Shell \/ ChildExit \/ \E s \in Sig : Raise(s)

Spec == Init /\ [][Next]_vars

\* The shell goes on; an exception that has been raised is handled; a script
\* comes to a command or a branch again and again, and every function it calls
\* returns or is left by an exception.
FairSpec ==
  /\ Spec
  /\ WF_vars(Shell)
  /\ WF_vars(pc = "throw" /\ \E f \in DOMAIN frames, st \in Status : HandleException(f, st))
  /\ SF_vars(\E st \in Status : Operate(st))
  /\ \A n \in 2..MaxFrame : SF_vars(Len(frames) = n /\ Return)

-----------------------------------------------------------------------------
(* Properties *)

\* Types.  In particular pendingIndex is a signal after every round of
\* popPendingSig (signals.cpp:303-311), and the stack keeps its limit although a
\* handler needs two frames (vm.cpp:1477-1484).
TypeOK ==
  /\ pending \subseteq Sig /\ kpend \subseteq Sig /\ index \in Sig
  /\ masked \in BOOLEAN /\ canHandleSignal \in BOOLEAN /\ lost \in BOOLEAN
  /\ handlers \subseteq Sig /\ status \in Status /\ was \in Status
  /\ frames \in Seq(Frame) /\ Len(frames) \in 1..MaxFrame
  /\ pc \in {"run", "throw", "signal", "reap", "reaped", "test", "pop",
             "setting", "clear", "reset", "term", "done"}
  /\ level \in 0..MaxLevel /\ live \in 0..MaxChild /\ zombies \in 0..MaxChild

\* The trampolines of the handlers that run in this process.
Handling ==
  {a \in DOMAIN frames : /\ frames[a].kind = "sig"
                         /\ \A c \in (a + 1)..Len(frames) : frames[c].kind # "fork"}

\* Handlers do not nest, and canHandleSignal says whether one is running,
\* however it is left: by RETURN_SIG (vm.cpp:1956-1964), by an exception that
\* drops the trampoline (vm.cpp:2510-2511) or in a subshell forked by a handler
\* (job.cpp:69).
OneTrampoline ==
  /\ \A a, b \in DOMAIN frames :
       a < b /\ frames[a].kind = "sig" /\ frames[b].kind = "sig"
         => \E c \in (a + 1)..(b - 1) : frames[c].kind = "fork"
  /\ pc \notin {"setting", "clear", "done"} => (canHandleSignal <=> Handling = {})

\* Code that is interrupted by a handler goes on with the exit status it had,
\* whatever the handler did: commands, exceptions it caught itself, children
\* (vm.cpp:1479, 1957-1959).
StatusRestored == [][pc = "run" /\ Top = "sig" /\ ~UNCHANGED frames => status' = was]_vars

\* The assertion of popPendingSig (signals.cpp:302), without which its loop
\* would not end: waitForAny may have taken the only signal.
PopNonEmpty == pc = "pop" => pending # {}

\* waitForAny misses no child: unless a SIGCHLD has been popped like any other
\* signal, a child that has not been waited for has a SIGCHLD that is yet to be
\* seen (job.cpp:541-555).
NoLostExit == zombies > 0 => lost \/ pc = "reap" \/ CHLD \in pending \cup kpend

\* A pending signal is taken (or cleared), even if others keep arriving:
\* popPendingSig goes on where it stopped (signals.cpp:301-312).
TakenEventually ==
  \A s \in Sig : s \in pending ~> s \notin pending \/ (pc = "pop" /\ index = s) \/ pc = "done"

\* core.cpp:223-227 keeps SIGCHLD from user-defined handlers "for automatically
\* wait process termination": a child that has terminated is waited for.
AutoReap == zombies > 0 ~> zombies = 0 \/ pc = "done"

=============================================================================

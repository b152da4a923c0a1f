--------------------------- MODULE VirtualMachine ---------------------------
(***************************************************************************)
(* The interpreter (VM::mainLoop and VM::handleException, src/src/vm.cpp,  *)
(* on VMState, src/src/state.h) running the code that ByteCode generates   *)
(* for the body of a function: one step per instruction, in one frame.     *)
(* The machine is a record m:                                              *)
(*   ip       the instruction that is executed next                        *)
(*   stack    the operands of the frame, the top last                      *)
(*   locals   the local variables of the frame                             *)
(*   fins     finallyEntries: a return address or an exception             *)
(*   thrown   the exception on its way, 0 if none                          *)
(*   fd       the file behind the standard output                          *)
(*   out      what was written, and to which file                          *)
(*   choices  the outcomes of the conditions so far                        *)
(*   halt     whether the frame is gone                                    *)
(* An operand or a local variable is a record: a value, a guard of a loop  *)
(* or a try, or a RedirObject, which restores the file when it is          *)
(* destroyed.                                                              *)
(***************************************************************************)
EXTENDS Meaning

CONSTANTS
  Programs,     \* bodies of functions
  MaxChoices    \* bound: the conditions that may be true or false; later ones are false

VARIABLES
  prog,    \* the program
  code,    \* its code
  m        \* the machine

vars == <<prog, code, m>>

NoValue == [t |-> "none", v |-> 0]
Val(x) == [t |-> "value", v |-> x]
Guard(kind, level) == [t |-> kind, v |-> level]

Init ==
  /\ prog \in Programs
  /\ code = Compile(prog)
  /\ m = [ip |-> 1, stack |-> << >>, locals |-> [i \in 0..code.locals |-> NoValue], fins |-> << >>,
          thrown |-> 0, fd |-> 0, out |-> << >>, choices |-> << >>, halt |-> FALSE]

-----------------------------------------------------------------------------
(* VMState *)

\* The value x is destroyed: a RedirObject restores the file (restoreFDs).
Release(s, x) == IF x.t = "redir" /\ x.saved THEN [s EXCEPT !.fd = x.v] ELSE s

Push(s, x) == [s EXCEPT !.stack = Append(@, x)]
Pop(s) == [s EXCEPT !.stack = Front(@)]
Top(s) == Last(s.stack)
PopNoReturn(s) == Release(Pop(s), Top(s))

RECURSIVE ClearOperandsUntilGuard(_, _, _)
ClearOperandsUntilGuard(s, kind, level) ==
  IF s.stack = << >> THEN s
  ELSE IF Top(s).t = kind /\ (level = 0 \/ Top(s).v = level) THEN Pop(s)
  ELSE ClearOperandsUntilGuard(PopNoReturn(s), kind, level)

SetLocal(s, i, x) == [Release(s, s.locals[i]) EXCEPT !.locals[i] = x]

ReclaimLocals(s, off, size) ==
  FoldLeft(LAMBDA r, i : SetLocal(r, off + size - i, NoValue), s, [i \in 1..size |-> i])

\* The operands and then the local variables are popped.
Unwind(s) ==
  LET r == FoldLeft(LAMBDA q, i : PopNoReturn(q), s, s.stack)
  IN  [ReclaimLocals(r, 0, code.locals) EXCEPT !.halt = TRUE]

\* The first entry around the instruction that matches takes the exception.
HandleException(s) ==
  LET es == {i \in DOMAIN code.entries :
               /\ code.entries[i].begin <= s.ip /\ s.ip < code.entries[i].end
               /\ Matches(code.entries[i].type, s.thrown)}
      e  == code.entries[Min(es)]
      r  == ReclaimLocals(ClearOperandsUntilGuard(s, "try", e.level), e.off, e.size)
  IN  CASE es = {} -> Unwind(s)
        [] es # {} /\ e.type = "ProcGuard" -> [s EXCEPT !.ip = e.dest]
        [] es # {} /\ e.type = "Throwable" ->
             [r EXCEPT !.ip = e.dest, !.thrown = 0,
                       !.fins = Append(@, [addr |-> 0, err |-> s.thrown])]
        [] OTHER -> Push([r EXCEPT !.ip = e.dest, !.thrown = 0], Val(s.thrown))

RaiseError(s, x) == HandleException([s EXCEPT !.thrown = x])

-----------------------------------------------------------------------------
(* mainLoop *)

Ins == code.code[m.ip]
At(ops) == ~m.halt /\ Ins.op \in ops
Operands(n) == Len(m.stack) >= n
Become(s) == m' = s /\ UNCHANGED <<prog, code>>
Step(s) == Become([s EXCEPT !.ip = @ + 1])
Goto(s, a) == Become([s EXCEPT !.ip = a])

PushValue ==
  /\ At({"PUSH_INT", "PUSH_ERR", "PUSH_INVALID"})
  /\ Step(Push(m, Val(Ins.a)))

Load ==
  /\ At({"LOAD_LOCAL"})
  /\ Step(Push(m, m.locals[Ins.a]))

Store ==
  /\ At({"STORE_LOCAL"}) /\ Operands(1)
  /\ Step(SetLocal(Pop(m), Ins.a, Top(m)))

Reclaim ==
  /\ At({"RECLAIM_LOCAL"})
  /\ Step(ReclaimLocals(m, Ins.a, Ins.b))

Discard ==
  /\ At({"POP"}) /\ Operands(1)
  /\ Step(PopNoReturn(m))

Add ==
  /\ At({"ADD"}) /\ Operands(2)
  /\ Step(Push(Pop(Pop(m)), Val(Top(m).v + Top(Pop(m)).v)))

\* A command that writes its argument.
Command ==
  \/ At({"COMMAND"}) /\ Step(Write(m, Ins.a))
  \/ At({"ECHO"}) /\ Operands(1) /\ Step(Write(Pop(m), Top(m).v))

\* A command or an operation that raises an exception.
FailedCommand ==
  /\ At({"FAIL"})
  /\ Become(RaiseError(m, Ins.a))

\* The evaluation of a condition.
Cond ==
  /\ At({"COND"})
  /\ \/ /\ Len(m.choices) < MaxChoices
        /\ \E b \in BOOLEAN :
             Step([Push(m, Val(IF b THEN 1 ELSE 0)) EXCEPT !.choices = Append(@, b)])
     \/ /\ Len(m.choices) = MaxChoices
        /\ Step(Push(m, Val(0)))

Branch ==
  /\ At({"BRANCH"}) /\ Operands(1)
  /\ IF Top(m).v = 1 THEN Step(Pop(m)) ELSE Goto(Pop(m), Ins.a)

PushGuard ==
  \/ At({"LOOP_GUARD"}) /\ Step(Push(m, Guard("loop", 0)))
  \/ At({"TRY_GUARD"}) /\ Step(Push(m, Guard("try", Ins.a)))

Jump ==
  \/ At({"GOTO"}) /\ Goto(m, Ins.a)
  \/ At({"JUMP_LOOP"}) /\ Goto(ClearOperandsUntilGuard(m, "loop", 0), Ins.a)
  \/ At({"JUMP_TRY"}) /\ Goto(ClearOperandsUntilGuard(m, "try", 0), Ins.a)
  \/ At({"JUMP_TRY_V"}) /\ Operands(1) /\ Goto(Push(ClearOperandsUntilGuard(Pop(m), "try", 0), Top(m)), Ins.a)

ThrowError ==
  /\ At({"THROW"}) /\ Operands(1)
  /\ Become(RaiseError(Pop(m), Top(m).v))

EnterFinally ==
  /\ At({"ENTER_FINALLY"})
  /\ Goto([m EXCEPT !.fins = Append(@, [addr |-> m.ip + 1, err |-> 0])], Ins.a)

\* The exception the finally was entered with wins over one of its own.
ExitFinally ==
  /\ At({"EXIT_FINALLY"}) /\ m.fins # << >>
  /\ LET e == Last(m.fins)
         s == [m EXCEPT !.fins = Front(@)]
     IN  IF e.err # 0 THEN Become(RaiseError(s, e.err))
         ELSE IF m.thrown # 0 THEN Become(HandleException(s))
         ELSE Goto(s, e.addr)

NewRedir ==
  /\ At({"NEW_REDIR"})
  /\ Step(Push(m, [t |-> "redir", v |-> m.fd, saved |-> FALSE]))

\* RedirObject::redirect: all files are saved first (saveFDs), then they are
\* redirected one by one.
DoRedir ==
  LET done == Push(Pop(m), [t |-> "redir", v |-> m.fd, saved |-> TRUE])
  IN  /\ At({"DO_REDIR"}) /\ Operands(1)
      /\ CASE Ins.a = "ok"   -> Step([done EXCEPT !.fd = @ + 1])
           [] Ins.a = "open" -> Become(RaiseError([done EXCEPT !.fd = @ + 1], E2))  \* a later one fails
           [] Ins.a = "save" -> Become(RaiseError(m, E2))

ReturnValue ==
  /\ At({"RETURN"}) /\ Operands(1)
  /\ Become(Unwind(Pop(m)))

Next ==
  \/ PushValue \/ Load \/ Store \/ Reclaim \/ Discard \/ Add \/ Command \/ FailedCommand
  \/ Cond \/ Branch \/ PushGuard \/ Jump \/ ThrowError \/ EnterFinally \/ ExitFinally
  \/ NewRedir \/ DoRedir \/ ReturnValue

Spec == Init /\ [][Next]_vars

\* The interpreter goes on while the frame is there.
FairSpec == Spec /\ WF_vars(Next)

-----------------------------------------------------------------------------
(* Properties *)

\* What a program has written to which file, the exception it ends with, and the
\* file left behind the standard output are those of the source: a finally and a
\* defer run once at every exit, in order, a catch takes the exceptions of its
\* class, no variable is reclaimed before it is used, and every redirection is
\* undone where its with ends (visitBlockNode, visitTryNode, visitDeferNode,
\* enterMultiFinally, codegen.cpp; handleException, vm.cpp).
SameAsSource ==
  m.halt => LET r == Eval(Start(m.choices), prog)
            IN  m.out = r.out /\ m.thrown = r.err /\ m.fd = r.fd

\* finallyEntries, which is not per frame, is as it was when the function is left,
\* and never empty where exitFinally takes an entry (its assertion, state.h).
FinallyBalanced ==
  /\ m.halt => m.fins = << >>
  /\ At({"EXIT_FINALLY"}) => m.fins # << >>

\* The operands fit in the room emitIns computes for the function (codegen.cpp:109-124),
\* unless a try has several catches: each of them counts one operand less, for the
\* exception that handleException pushes.
StackFits ==
  (\A t \in Sub(prog) : t.k = "try" => Len(t.catches) <= 1) => Len(m.stack) <= code.depth

\* Every program ends: no jump goes back to where a finally was entered, and no
\* instruction misses an operand.
Halts == <>m.halt

\* What defers write.
Deferred ==
  {x.x : x \in {y \in UNION {Sub(d) : d \in {e \in Sub(prog) : e.k = "defer"}} : y.k = "echo"}}

\* CHANGELOG.md:1956: "like swift, ``defer`` statement evaluated in end of scope (block,
\* function, user-defined command)": at every end of the scope, each defer that was
\* met is evaluated.
DefersEvaluated ==
  m.halt => LET W(out) == SelectSeq(out, LAMBDA x : x[1] \in Deferred)
            IN  W(m.out) = W(Eval(Start(m.choices), prog).out)
=============================================================================

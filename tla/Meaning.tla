------------------------------ MODULE Meaning -------------------------------
(***************************************************************************)
(* What the statements of ByteCode mean: the reference the generated code  *)
(* is compared with.  A state of the evaluation is                         *)
(*   out   the pairs of a written value and the file it went to            *)
(*   fd    the file of the standard output; a redirection is to fd + 1     *)
(*   ch    the outcomes of the conditions to come, FALSE when used up      *)
(*   env   the values of the variables                                     *)
(*   res   how the node was left: ok, break, continue, return, throw       *)
(*   err   the exception of a throw, 0 if none                             *)
(*   val   the value of the node                                           *)
(***************************************************************************)
EXTENDS ByteCode

E1 == -1       \* an exception of class E1, a subclass of Error
E2 == -2       \* another Error
ShellExit == -3   \* raised by exit; not an Error

Matches(type, e) ==
  CASE type = "E1" -> e = E1
    [] type = "Error" -> e \in {E1, E2}
    [] OTHER -> TRUE                       \* Throwable, ProcGuard_

Start(choices) ==
  [out |-> << >>, fd |-> 0, ch |-> choices, env |-> << >>, res |-> "ok", err |-> 0, val |-> 0]

Write(s, x) == [s EXCEPT !.out = Append(@, <<x, s.fd>>)]

Raise(s, e) == [s EXCEPT !.res = "throw", !.err = e]

RECURSIVE Eval(_, _), EvalBlock(_, _, _)

\* A defer or a finally, entered from s.  What it throws replaces a jump, but not
\* an exception that is already on its way.
Finally(s, body) ==
  LET r == Eval([s EXCEPT !.res = "ok", !.err = 0], body)
  IN  IF r.res = "throw" /\ s.res # "throw" THEN r
      ELSE [r EXCEPT !.res = s.res, !.err = s.err, !.val = s.val]

\* The defers met so far run at every exit of the block, the last one first.
EvalBlock(s, nodes, defers) ==
  IF s.res # "ok" \/ nodes = << >>
  THEN FoldLeft(LAMBDA r, d : Finally(r, d), s, Reverse(defers))
  ELSE IF Head(nodes).k = "defer" THEN EvalBlock(s, Tail(nodes), Append(defers, Head(nodes).body))
       ELSE EvalBlock(Eval(s, Head(nodes)), Tail(nodes), defers)

\* A condition.
Test(s) == s.ch # << >> /\ Head(s.ch)
Tested(s) == IF s.ch = << >> THEN s ELSE [s EXCEPT !.ch = Tail(@)]

EvalTry(s, n) ==
  LET r  == Eval(s, n.body)
      cs == {i \in DOMAIN n.catches : r.res = "throw" /\ Matches(n.catches[i].type, r.err)}
      c  == n.catches[Min(cs)]
      h  == IF cs = {} THEN r
            ELSE Eval([r EXCEPT !.res = "ok", !.err = 0, !.env = (c.v :> r.err) @@ @], c.body)
  IN  IF n.fin = << >> THEN h ELSE Finally(h, n.fin[1])

Eval(s, n) ==
  CASE n.k = "echo"  -> Write(s, n.x)
    [] n.k = "var"   -> [s EXCEPT !.env = (n.v :> n.x) @@ @]
    [] n.k = "use"   -> Write(s, s.env[n.v])
    [] n.k = "num"   -> [s EXCEPT !.val = n.x]
    [] n.k = "show"  -> LET r == Eval(s, n.e) IN IF r.res = "ok" THEN Write(r, 1 + r.val) ELSE r
    [] n.k \in {"throw", "fail"} -> Raise(s, n.x)
    [] n.k \in {"break", "continue", "return"} -> [s EXCEPT !.res = n.k]
    [] n.k = "block" -> EvalBlock(s, n.nodes, << >>)
    [] n.k = "if"    -> IF Test(s) THEN Eval(Tested(s), n.body) ELSE Tested(s)
    [] n.k = "loop"  -> IF ~Test(s) THEN Tested(s)
                        ELSE LET r == Eval(Tested(s), n.body)
                             IN  CASE r.res \in {"ok", "continue"} -> Eval([r EXCEPT !.res = "ok"], n)
                                   [] r.res = "break" -> [r EXCEPT !.res = "ok"]
                                   [] OTHER -> r
    [] n.k = "try"   -> EvalTry(s, n)
    [] n.k = "with"  -> IF n.mode # "ok" THEN Raise(s, E2)
                        ELSE [Eval([s EXCEPT !.fd = @ + 1], n.body) EXCEPT !.fd = s.fd]

-----------------------------------------------------------------------------
(* The programs the TypeChecker accepts, and those whose jumps the          *)
(* generator treats as the reference does.                                  *)

RECURSIVE Sub(_)
\* All the nodes of n.
Sub(n) ==
  {n} \cup
  CASE n.k = "block" -> UNION {Sub(n.nodes[i]) : i \in DOMAIN n.nodes}
    [] n.k \in {"if", "loop", "with", "defer"} -> Sub(n.body)
    [] n.k = "show" -> Sub(n.e)
    [] n.k = "try" -> UNION {Sub(n.body), UNION {Sub(n.catches[i].body) : i \in DOMAIN n.catches},
                             UNION {Sub(n.fin[i]) : i \in DOMAIN n.fin}}
    [] OTHER -> {}

Has(n, kinds) == \E x \in Sub(n) : x.k \in kinds

RECURSIVE Jumps(_)
\* Whether a break or continue of n leaves n; the continue that ends the body of a
\* loop does not.
Jumps(n) ==
  CASE n.k \in {"break", "continue"} -> TRUE
    [] n.k = "block" -> \E i \in DOMAIN n.nodes : Jumps(n.nodes[i])
    [] n.k \in {"if", "with", "defer"} -> Jumps(n.body)
    [] n.k = "show" -> Jumps(n.e)
    [] n.k = "try" -> \/ Jumps(n.body)
                      \/ \E i \in DOMAIN n.catches : Jumps(n.catches[i].body)
                      \/ \E i \in DOMAIN n.fin : Jumps(n.fin[i])
    [] OTHER -> FALSE

\* The bodies of the finally and defer blocks of n.
Cleanups(n) ==
  {x.body : x \in {y \in Sub(n) : y.k = "defer"}} \cup
  {x.fin[1] : x \in {y \in Sub(n) : y.k = "try" /\ y.fin # << >>}}

\* Unreachable, InsideLoop and InsideFinally.
WellTyped(p) ==
  /\ ~Jumps(p)
  /\ \A c \in Cleanups(p) : ~Jumps(c) /\ ~Has(c, {"return", "throw"}) /\ TypeOf(c) # "Nothing"
  /\ \A b \in {x \in Sub(p) : x.k = "block"} : \A i \in 1..(Len(b.nodes) - 1) :
       TypeOf(b.nodes[i]) = "Nothing" => i = Len(b.nodes) - 1 /\ b.nodes[i + 1] = Continue

Defers(b) == IF b.k = "block" THEN Count(b.nodes, "defer") ELSE 0

\* No break or continue leaves a block with several defers: the TypeChecker counts one
\* try for all of them, and only the last one is entered.
OneDefer(p) == \A b \in Sub(p) : Defers(b) > 1 => ~Jumps(b)

\* Where operands are pending, every exception entry has its guard on the stack.
Guarded(p) ==
  \A s \in {x \in Sub(p) : x.k = "show"} : \A b \in Sub(s) :
    Defers(b) <= 1 /\ (b.k = "try" /\ b.fin # << >> => b.catches = << >>)

\* A jump out of a try reclaims the variables of the loop, its redirections included,
\* before the finally and the defers around the try run.
LocalsKept(p) ==
  \A l \in {x \in Sub(p) : x.k = "loop"} : \A t \in {x \in Sub(l.body) : x.k = "try" /\ Jumps(x)} :
    /\ \A c \in Cleanups(l) : ~Has(c, {"use"})
    /\ \A w \in Sub(l.body) : w.k = "with" /\ t \in Sub(w) => Cleanups(w) = {}

\* A redirection that is left by a jump or an exception is still there in the defer,
\* and, by a return, in the finally.
Restored(p) ==
  /\ \A b \in Sub(p) : Defers(b) > 0 =>
       \A w \in {x \in Sub(b) : x.k = "with"} :
         /\ ~Jumps(w) /\ ~Has(w.body, {"throw", "fail", "return"})
         /\ \A x \in Sub(w.body) : x.k = "with" => x.mode = "ok"
  /\ \A t \in {x \in Sub(p) : x.k = "try" /\ x.fin # << >>} :
       \A w \in {x \in Sub(t) : x.k = "with"} : ~Has(w, {"return"})

Regular(p) == OneDefer(p) /\ Guarded(p) /\ LocalsKept(p) /\ Restored(p)
=============================================================================

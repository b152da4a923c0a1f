------------------------------ MODULE ByteCode ------------------------------
(***************************************************************************)
(* The code ByteCodeGenerator (src/src/codegen.{h,cpp}) generates for the  *)
(* statements that leave blocks: loops with break and continue, try, catch *)
(* and finally, defer, with (redirections), return and throw; and what the *)
(* TypeChecker (src/src/type_checker.{h,cpp}) computes for them: types,    *)
(* the depth of try of a jump and the places of local variables.           *)
(*                                                                         *)
(* A node is a record with its kind in k.  A command is the value it       *)
(* writes, a condition is left to the machine, and an address is the index *)
(* of an instruction.  What a node is visited with is a record c:          *)
(*   path    the place of the node in the program, which names its labels  *)
(*   names, cur, max  the variables in scope, curLocalIndex, maxVarCount   *)
(*   flow    the FlowContext: its size, tryLevel and loopLevel             *)
(*   tries, loops, locals  tryFinallyLabels, loopLabels, localVars         *)
(* A visit returns a record: the code, with labels and exception entries   *)
(* among the instructions, and maxVarCount after it.                       *)
(***************************************************************************)
EXTENDS Integers, FiniteSets, Sequences, SequencesExt, TLC

\* The nodes.
Echo(x)      == [k |-> "echo", x |-> x]
Decl(v, x)   == [k |-> "var", v |-> v, x |-> x]
Use(v)       == [k |-> "use", v |-> v]
Throw(e)     == [k |-> "throw", x |-> e]
Fail(e)      == [k |-> "fail", x |-> e]   \* a command that raises e
Break        == [k |-> "break"]
Continue     == [k |-> "continue"]
Return       == [k |-> "return"]
If(b)        == [k |-> "if", body |-> b]
Block(s)     == [k |-> "block", nodes |-> s]
IsJump(n)    == n.k \in {"throw", "break", "continue", "return"}
Loop(b)      == [k |-> "loop", body |-> IF b.nodes # << >> /\ IsJump(Last(b.nodes)) THEN b
                                        ELSE [b EXCEPT !.nodes = Append(@, Continue)]]
Try(b, c, f) == [k |-> "try", body |-> b, catches |-> c, fin |-> f]  \* f: at most one block
Defer(b)     == [k |-> "defer", body |-> b]
With(m, b)   == [k |-> "with", mode |-> m, body |-> b]
Num(x)       == [k |-> "num", x |-> x]
Show(e)      == [k |-> "show", e |-> e]   \* writes 1 + e

Count(s, kind) == Len(SelectSeq(s, LAMBDA n : n.k = kind))

\* The indices of the elements of s that satisfy P, in order.
Positions(s, P(_)) == SelectSeq([i \in DOMAIN s |-> i], LAMBDA i : P(s[i]))

\* The type of a node; that of a jump is Nothing.
RECURSIVE TypeOf(_)
TypeOf(n) ==
  CASE IsJump(n)     -> "Nothing"
    [] n.k = "num"   -> "Int"
    [] n.k = "block" -> IF n.nodes = << >> THEN "Void" ELSE TypeOf(Last(n.nodes))
    [] n.k = "with"  -> TypeOf(n.body)
    [] n.k = "try"   -> LET t == TypeOf(n.body)
                        IN  IF \A i \in DOMAIN n.catches : TypeOf(n.catches[i].body) \in {t, "Nothing"}
                            THEN t ELSE "Void"
    [] OTHER         -> "Void"

-----------------------------------------------------------------------------
(* The generator *)

Ins2(op, a, b) == [op |-> op, a |-> a, b |-> b]
Ins1(op, a) == Ins2(op, a, 0)
Ins0(op) == Ins2(op, 0, 0)

Label(l) == Ins1("LABEL", l)

\* catchException: the handler starts where the entry stands.
CatchEntry(begin, end, type, off, size, level) ==
  [op |-> "ENTRY", begin |-> begin, end |-> end, type |-> type, off |-> off, size |-> size,
   level |-> level]

ReclaimLocal(off, size) == IF size > 0 THEN <<Ins2("RECLAIM_LOCAL", off, size)>> ELSE << >>

EnterFinallyOf(es) == [i \in DOMAIN es |-> Ins1("ENTER_FINALLY", es[i].fin)]

\* Variant: locals are reclaimed first.
EnterMultiFinallyLate(tries, depth, off, size) ==
  LET n  == Len(tries)
      es == [i \in 1..Min({depth, n}) |-> tries[n + 1 - i]]
  IN  ReclaimLocal(off, size) \o EnterFinallyOf(SelectSeq(es, LAMBDA e : e.hasFinally))

\* The defers before the first try are entered before locals are reclaimed: they
\* reclaim theirs themselves.
EnterMultiFinally(tries, depth, off, size) ==
  LET n  == Len(tries)
      es == [i \in 1..Min({depth, n}) |-> tries[n + 1 - i]]
      k  == Cardinality({i \in DOMAIN es : \A j \in 1..i : es[j].defer})
  IN  EnterFinallyOf(SubSeq(es, 1, k)) \o ReclaimLocal(off, size)
        \o EnterFinallyOf(SelectSeq(SubSeq(es, k + 1, Len(es)), LAMBDA e : e.hasFinally))

\* FlowContext.
EnterTry(f) == [f EXCEPT !.try = f.size, !.size = @ + 1]
EnterLoop(f) == [f EXCEPT !.loop = f.size, !.size = @ + 1]
TryDepth(f) == IF f.try > f.loop THEN f.try - f.loop ELSE 0

\* NameScope::add of a local variable.
AddEntry(c, v) ==
  [c EXCEPT !.names = (v :> c.cur) @@ @, !.cur = @ + 1, !.max = Max({@, c.cur + 1})]

In(c, i) == [c EXCEPT !.path = Append(@, i)]

BreakContinue(c, op) ==
  LET loop  == Last(c.loops)
      start == c.locals[loop.block].off
      stop  == Last(c.locals).off + Last(c.locals).size
  IN  EnterMultiFinally(c.tries, TryDepth(c.flow), start, stop - start)
        \o <<Ins1("JUMP_LOOP", IF op = "break" THEN loop.brk ELSE loop.cont)>>

ReturnJump(c) ==
  EnterMultiFinally(c.tries, Len(c.tries), 0, 0) \o <<Ins0("PUSH_INVALID"), Ins0("RETURN")>>

\* Variant: the value of the try is dropped.
JumpTryVoid(type, merge) == <<Ins1("JUMP_TRY", merge)>>

\* The end of a try or of a block with defers.
JumpTry(type, merge) == <<Ins1(IF type = "Void" THEN "JUMP_TRY" ELSE "JUMP_TRY_V", merge)>>

Code(c, s) == [code |-> s, max |-> c.max]

RECURSIVE Visit(_, _), VisitBlock(_, _, _), VisitNodes(_, _, _, _), VisitDefers(_, _, _),
          VisitCatches(_, _, _, _)

\* Variant: the body is not guarded.
VisitDeferOpen(c, body, off, size, drop) ==
  LET e == Last(c.tries)
      r == VisitBlock([c EXCEPT !.cur = e.cur, !.names = e.names], body, 0)
  IN  [code |-> <<Label(e.fin),
                  CatchEntry(e.begin, e.end, "Throwable", off, size, Len(c.tries))>>
                \o ReclaimLocal(e.cur, drop) \o r.code \o <<Ins0("EXIT_FINALLY")>>,
       max  |-> r.max]

\* visitDeferNode, of a defer or a finally, the last of tries; drop is dropLocalSize.
VisitDefer(c, body, off, size, drop) ==
  LET e     == Last(c.tries)
      begin == <<"body", c.path>>
      end   == <<"bodyEnd", c.path>>
      r     == VisitBlock([c EXCEPT !.cur = e.cur, !.names = e.names], body, 0)
  IN  [code |-> <<Label(e.fin),
                  CatchEntry(e.begin, e.end, "Throwable", off, size, Len(c.tries))>>
                \o ReclaimLocal(e.cur, drop)
                \o <<Label(begin)>> \o r.code
                \o <<Label(end), CatchEntry(begin, end, "ProcGuard", 0, 0, 0),
                     Ins0("EXIT_FINALLY")>>,
       max  |-> r.max]

\* The nodes of a block from the i-th; k defers of it were met.  Only the first of
\* them has a guard, and is a try to the TypeChecker, which checks their bodies
\* where they are met.
VisitNodes(c, nodes, i, k) ==
  LET n == nodes[i]
      p == Append(c.path, i)
      t == [begin |-> <<"begin", p>>, end |-> <<"end", p>>, fin |-> <<"fin", p>>, hasFinally |-> TRUE,
            defer |-> TRUE, cur |-> c.cur, names |-> c.names]
      d == [c EXCEPT !.tries = Append(@, t), !.max = VisitBlock(In(c, i), n.body, 0).max,
                     !.flow = IF k = 0 THEN EnterTry(@) ELSE @]
      r == Visit(In(c, i), n)
      s == CASE n.k = "defer" -> VisitNodes(d, nodes, i + 1, k + 1)
             [] n.k = "var"   -> VisitNodes(AddEntry(c, n.v), nodes, i + 1, k)
             [] OTHER         -> VisitNodes([c EXCEPT !.max = r.max], nodes, i + 1, k)
  IN  IF i > Len(nodes) THEN [code |-> << >>, max |-> c.max, tries |-> c.tries]
      ELSE [s EXCEPT !.code = (IF n.k # "defer" THEN r.code
                               ELSE <<Label(t.begin)>> \o
                                    (IF k = 0 THEN <<Ins1("TRY_GUARD", Len(d.tries))>> ELSE << >>))
                              \o @]

\* The bodies of the defers (pairs of a node and its dropLocalSize), which are the
\* last of tries, the last one first.
VisitDefers(c, defers, k) ==
  LET r == VisitDefer(In(c, -k), defers[k][1].body, 0, 0, defers[k][2])
      s == VisitDefers([c EXCEPT !.tries = Front(@), !.max = r.max], defers, k - 1)
  IN  IF k = 0 THEN Code(c, << >>)
      ELSE [s EXCEPT !.code = <<Label(Last(c.tries).end)>> \o r.code \o @]

\* visitBlockNode, of a block in whose scope there are pre variables already.
VisitBlock(c, n, pre) ==
  LET base  == c.cur - pre
      D     == {i \in DOMAIN n.nodes : n.nodes[i].k = "defer"}
      Vars(i, j) == Count(SubSeq(n.nodes, i, j), "var")
      until(i) == Min({j \in D : j > i} \cup {Len(n.nodes)})
      ds    == Positions(n.nodes, LAMBDA x : x.k = "defer")
      size  == pre + Vars(1, IF D = {} THEN Len(n.nodes) ELSE Min(D))   \* reclaimSize
      need  == /\ TypeOf(n) # "Nothing"
               /\ c.locals # << >>                \* not the block of the function
      merge == <<"blockEnd", c.path>>
      c1    == [c EXCEPT !.locals = Append(@, [off |-> base, size |-> size])]
      b     == VisitNodes(c1, n.nodes, 1, 0)
      exit  == IF D = {} \/ TypeOf(n) = "Nothing" THEN << >>
               ELSE EnterMultiFinally(b.tries, Len(ds), 0, 0) \o JumpTry(TypeOf(n), merge)
      d     == VisitDefers([c1 EXCEPT !.tries = b.tries, !.max = b.max],
                           [i \in DOMAIN ds |-> <<n.nodes[ds[i]], Vars(ds[i], until(ds[i]))>>],
                           Len(ds))
  IN  IF n.nodes = << >> THEN Code(c, << >>)
      ELSE [code |-> b.code \o exit \o d.code \o <<Label(merge)>>
                     \o (IF need THEN ReclaimLocal(base, size) ELSE << >>),
            max  |-> d.max]

\* The catch blocks from the i-th; body is [off, size] of the locals of the try block
\* and m its labels.
VisitCatches(c, n, i, m) ==
  LET h == n.catches[i]
      r == VisitBlock(AddEntry([In(c, i) EXCEPT !.flow = EnterTry(@)], h.v), h.body, 1)
      s == VisitCatches([c EXCEPT !.max = r.max], n, i + 1, m)
  IN  IF i > Len(n.catches) THEN Code(c, << >>)
      ELSE [s EXCEPT !.code =
             <<CatchEntry(m.begin, m.end, h.type, c.cur, m.size, Len(c.tries))>>
             \o (IF h.body.nodes = << >> THEN <<Ins0("POP")>>
                 ELSE <<Ins1("STORE_LOCAL", c.cur)>> \o r.code)
             \o (IF TypeOf(h.body) = "Nothing" THEN << >>
                 ELSE m.enter \o <<Ins1("GOTO", m.merge)>>) \o @]

VisitTry(c, n) ==
  LET begin == <<"begin", c.path>>
      end   == <<"end", c.path>>
      fin   == <<"fin", c.path>>
      merge == <<"merge", c.path>>
      t     == [begin |-> begin, end |-> fin, fin |-> fin, hasFinally |-> n.fin # << >>,
                defer |-> FALSE, cur |-> c.cur, names |-> c.names]
      c1    == [c EXCEPT !.tries = Append(@, t)]
      b     == VisitBlock([In(c1, 0) EXCEPT !.flow = EnterTry(@)], n.body, 0)
      enter == IF n.fin # << >> THEN <<Ins1("ENTER_FINALLY", fin)>> ELSE << >>
      h     == VisitCatches([c1 EXCEPT !.max = b.max], n, 1,
                            [begin |-> begin, end |-> end, merge |-> merge, enter |-> enter,
                             size |-> b.max - c.cur])
      f     == IF n.fin = << >> THEN h
               ELSE VisitDefer([c1 EXCEPT !.max = h.max], n.fin[1], c.cur, h.max - c.cur, 0)
  IN  [code |-> <<Label(begin), Ins1("TRY_GUARD", Len(c1.tries))>> \o b.code \o <<Label(end)>>
                \o (IF TypeOf(n.body) = "Nothing" THEN << >> ELSE enter \o JumpTry(TypeOf(n.body), merge))
                \o h.code \o (IF n.fin = << >> THEN << >> ELSE f.code) \o <<Label(merge)>>,
       max  |-> f.max]

VisitLoop(c, n) ==
  LET brk  == <<"break", c.path>>
      cont == <<"continue", c.path>>
      c1   == [c EXCEPT !.locals = Append(@, [off |-> 0, size |-> 0]), !.flow = EnterLoop(@),
                        !.loops = Append(@, [brk |-> brk, cont |-> cont, block |-> Len(c.locals) + 2])]
      b    == VisitBlock(In(c1, 0), n.body, 0)
  IN  [code |-> <<Label(cont), Ins0("COND"), Ins1("BRANCH", brk), Ins0("LOOP_GUARD")>>
                \o b.code \o <<Label(brk)>>,
       max  |-> b.max]

VisitWith(c, n) ==
  LET c1 == [AddEntry(In(c, 0), <<"with", c.path>>) EXCEPT !.locals = Append(@, [off |-> c.cur, size |-> 1])]
      b  == Visit(c1, n.body)
  IN  [code |-> <<Ins0("NEW_REDIR"), Ins1("DO_REDIR", n.mode), Ins1("STORE_LOCAL", c.cur)>>
                \o b.code \o ReclaimLocal(c.cur, 1),
       max  |-> b.max]

VisitIf(c, n) ==
  LET else == <<"else", c.path>>
      b    == Visit(In(c, 0), n.body)
  IN  [b EXCEPT !.code = <<Ins0("COND"), Ins1("BRANCH", else)>> \o @ \o <<Label(else)>>]

VisitShow(c, n) ==
  LET b == Visit(In(c, 0), n.e)
  IN  [b EXCEPT !.code = <<Ins1("PUSH_INT", 1)>> \o @ \o <<Ins0("ADD"), Ins0("ECHO")>>]

Visit(c, n) ==
  CASE n.k = "echo"   -> Code(c, <<Ins1("COMMAND", n.x)>>)
    [] n.k = "fail"   -> Code(c, <<Ins1("FAIL", n.x)>>)
    [] n.k = "num"    -> Code(c, <<Ins1("PUSH_INT", n.x)>>)
    [] n.k = "var"    -> Code(c, <<Ins1("PUSH_INT", n.x), Ins1("STORE_LOCAL", c.cur)>>)
    [] n.k = "use"    -> Code(c, <<Ins1("LOAD_LOCAL", c.names[n.v]), Ins0("ECHO")>>)
    [] n.k = "throw"  -> Code(c, <<Ins1("PUSH_ERR", n.x), Ins0("THROW")>>)
    [] n.k = "return" -> Code(c, ReturnJump(c))
    [] n.k \in {"break", "continue"} -> Code(c, BreakContinue(c, n.k))
    [] n.k = "show"   -> VisitShow(c, n)
    [] n.k = "block"  -> VisitBlock(c, n, 0)
    [] n.k = "if"     -> VisitIf(c, n)
    [] n.k = "loop"   -> VisitLoop(c, n)
    [] n.k = "try"    -> VisitTry(c, n)
    [] n.k = "with"   -> VisitWith(c, n)

\* Variant: the guard of a try is not counted.
EffectNoGuard(op) ==
  CASE op \in {"PUSH_INT", "PUSH_ERR", "PUSH_INVALID", "LOAD_LOCAL", "COND", "LOOP_GUARD",
               "NEW_REDIR"} -> 1
    [] op \in {"STORE_LOCAL", "ECHO", "ADD", "POP", "THROW", "BRANCH", "RETURN"} -> -1
    [] OTHER -> 0

\* The effect of an instruction on the depth of the stack (opcode.h).
Effect(op) ==
  CASE op \in {"PUSH_INT", "PUSH_ERR", "PUSH_INVALID", "LOAD_LOCAL", "COND", "LOOP_GUARD",
               "TRY_GUARD", "NEW_REDIR"} -> 1
    [] op \in {"STORE_LOCAL", "ECHO", "ADD", "POP", "THROW", "BRANCH", "RETURN"} -> -1
    [] OTHER -> 0

\* emitIns adds up the effects in the order of the code; maxStackDepth is the greatest sum.
MaxStackDepth(code) ==
  LET N(i, d) == Cardinality({j \in 1..i : Effect(code[j].op) = d})
  IN  Max({0} \cup {N(i, 1) - N(i, -1) : i \in DOMAIN code})

\* The labels become addresses.  An entry with no code to guard is not added.
Assemble(r) ==
  LET Pseudo(x) == x.op \in {"LABEL", "ENTRY"}
      addr(i)   == 1 + Cardinality({j \in 1..(i - 1) : ~Pseudo(r.code[j])})
      at(l)     == addr(CHOOSE i \in DOMAIN r.code : r.code[i].op = "LABEL" /\ r.code[i].a = l)
      ins       == SelectSeq(r.code, LAMBDA x : ~Pseudo(x))
      entry(i)  == LET x == r.code[i]
                   IN  [begin |-> at(x.begin), end |-> at(x.end), type |-> x.type, dest |-> addr(i),
                        off |-> x.off, size |-> x.size, level |-> x.level]
      all       == Positions(r.code, LAMBDA x : x.op = "ENTRY")
  IN  [code    |-> [i \in DOMAIN ins |->
                      IF ins[i].op \in {"GOTO", "BRANCH", "JUMP_LOOP", "JUMP_TRY", "JUMP_TRY_V",
                                        "ENTER_FINALLY"}
                      THEN [ins[i] EXCEPT !.a = at(@)] ELSE ins[i]],
       entries |-> SelectSeq([i \in DOMAIN all |-> entry(all[i])], LAMBDA e : e.begin # e.end),
       locals  |-> r.max,
       depth   |-> MaxStackDepth(ins)]

\* visitFunctionNode; addReturnNodeToLast adds a return.
Compile(b) ==
  Assemble(VisitBlock([path |-> << >>, names |-> << >>, cur |-> 0, max |-> 0,
                       flow |-> [size |-> 1, try |-> 0, loop |-> 0],
                       tries |-> << >>, loops |-> << >>, locals |-> << >>],
                      IF TypeOf(b) = "Nothing" THEN b ELSE [b EXCEPT !.nodes = Append(@, Return)], 0))
=============================================================================

-------------------------- MODULE MCVirtualMachine --------------------------
(***************************************************************************)
(* The programs on which the generated code is compared with the source:   *)
(* a core statement inside one, two or three constructs.                   *)
(***************************************************************************)
EXTENDS VirtualMachine

\* b and then rest, unless that could not be reached.
Then(b, rest) == IF TypeOf(b) = "Nothing" THEN <<b>> ELSE <<b>> \o rest

Catch(type, v, b) == [type |-> type, v |-> v, body |-> b]

Cores ==
  {Echo(1), Throw(E1), Throw(E2), Fail(E1), Fail(ShellExit), Break, Continue, Return,
   If(Block(<<Break>>)), If(Block(<<Return>>)), If(Block(<<Throw(E1)>>)),
   With("open", Block(<<Echo(1)>>)), With("save", Block(<<Echo(1)>>))}

\* The constructs a statement b may be in; d tells the variables of the levels apart.
Around(b, d) ==
  {Loop(Block(<<Decl(<<"x", d>>, 7)>> \o Then(b, <<Use(<<"x", d>>)>>))),
   Loop(Block(<<Decl(<<"x", d>>, 7), Defer(Block(<<Use(<<"x", d>>)>>))>> \o Then(b, <<Echo(2)>>))),
   Try(Block(Then(b, <<Echo(3)>>)), <<Catch("E1", <<"e", d>>, Block(<<Use(<<"e", d>>)>>))>>, << >>),
   Try(Block(<<Decl(<<"x", d>>, 7), b>>), << >>, <<Block(<<Echo(5)>>)>>),
   Try(Block(<<b>>), <<Catch("Error", <<"e", d>>, Block(<<Throw(E2)>>))>>, <<Block(<<Echo(6)>>)>>),
   Block(<<Decl(<<"x", d>>, 7), Defer(Block(<<Decl(<<"y", d>>, 8), Use(<<"x", d>>), Use(<<"y", d>>)>>)),
           Decl(<<"z", d>>, 9)>> \o Then(b, <<Use(<<"z", d>>)>>)),
   Block(<<Defer(Block(<<b>>)), Echo(11)>>),
   With("ok", Block(Then(b, <<Echo(13)>>)))}

\* More of them; those that are left as expressions have a value.
AroundToo(b, d) ==
  {Loop(Block(Then(b, <<Echo(2)>>))),
   Loop(Block(<<Decl(<<"x", d>>, 7), Try(Block(<<b>>), << >>, <<Block(<<Use(<<"x", d>>)>>)>>)>>)),
   If(Block(<<b>>)),
   Try(Block(<<b>>), <<Catch("E1", <<"e", d>>, Block(<<Echo(4)>>)),
                       Catch("Error", <<"e", d>>, Block(<< >>))>>, << >>),
   Try(Block(<<b>>), << >>, <<Block(<<Fail(E2)>>)>>),
   Block(<<Defer(Block(<<Echo(8)>>))>> \o Then(b, <<Echo(9)>>)),
   Block(<<Defer(Block(<<Echo(10)>>)), Decl(<<"x", d>>, 7), Defer(Block(<<Use(<<"x", d>>), Fail(E2)>>)), b>>),
   Block(<<Defer(Block(<<Echo(16)>>)), Defer(Block(<<Echo(17)>>)), b>>),
   Try(Block(<<Echo(12)>>), << >>, <<Block(<<b>>)>>)}
  \cup (IF TypeOf(b) = "Nothing" THEN {}
        ELSE {Show(Try(Block(<<b, Num(20)>>), <<Catch("E1", <<"e", d>>, Block(<<Num(30)>>))>>, << >>)),
              Show(Try(Block(<<Defer(Block(<<Echo(14)>>)), b, Num(20)>>), << >>,
                       <<Block(<<Echo(15)>>)>>))})

\* A core in two constructs of any kind, and in three of the first kind.
Two ==
  LET W(S, d) == UNION {Around(b, d) \cup AroundToo(b, d) : b \in S}
  IN  W(W(Cores, 1), 2)

Three ==
  LET W(S, d) == UNION {Around(b, d) : b \in S}
  IN  W(W(W({If(Block(<<Throw(E1)>>)), Break, If(Block(<<Return>>)), Fail(E2)}, 1), 2), 3)

\* The body of a function.
Body(b) == Block(Then(b, <<Echo(0)>>))

\* Those that the TypeChecker accepts.
Accepted == {p \in {Body(b) : b \in Two \cup Three} : WellTyped(p)}

MCPrograms == {p \in Accepted : Regular(p)}

\* A loop whose body has two defers.
TwoDefers ==
  {Block(<<Loop(Block(<<Defer(Block(<<Echo(16)>>)), Defer(Block(<<Echo(17)>>))>> \o b))>>) :
     b \in {<<Echo(1)>>, <<If(Block(<<Break>>)), Echo(1)>>, <<Fail(E1)>>}}
=============================================================================

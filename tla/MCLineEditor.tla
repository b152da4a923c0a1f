---------------------------- MODULE MCLineEditor ----------------------------
(* Instances of LineEditor for TLC. *)
EXTENDS LineUndo

MCAbbr == { [word |-> <<"a">>, text |-> <<"b", "a">>] }
MCPastes == { << >>, <<"a", "n">> }
MCHistory == << <<"b">>, <<"a", "n">>, <<"a">> >>
Item(s, x) == [text |-> s, suffix |-> x]
MCCompletions ==
  { [items |-> << >>, trim |-> 0],
    [items |-> << Item(<<"a", "b">>, <<"s">>) >>, trim |-> 0],
    [items |-> << Item(<<"a">>, << >>), Item(<<"a", "b">>, <<"s">>) >>, trim |-> 0],
    [items |-> << Item(<<"b">>, << >>), Item(<<"a">>, << >>) >>, trim |-> 1] }
=============================================================================

------------------------ MODULE SignalDispatch_proofs ------------------------
(***************************************************************************)
(* The safety of SignalDispatch for any number of signals, any depth of    *)
(* the stack, any number of children and of nested subshells.              *)
(*                                                                         *)
(* That handlers do not nest follows from canHandleSignal only because the *)
(* flag is exact, on every way out of a handler; in a subshell the         *)
(* trampolines below its guard no longer count.                            *)
(***************************************************************************)
EXTENDS SignalDispatch, TLAPS

\* Of two trampolines, a subshell was forked by the handler of the lower one.
Separated(fr) ==
  \A a, b \in DOMAIN fr :
    a < b /\ fr[a].kind = "sig" /\ fr[b].kind = "sig"
      => \E c \in (a + 1)..(b - 1) : fr[c].kind = "fork"

\* The trampolines above the guard of the subshell.
Active(fr) ==
  {a \in DOMAIN fr : /\ fr[a].kind = "sig"
                     /\ \A c \in (a + 1)..Len(fr) : fr[c].kind # "fork"}

TypeInv == TypeOK /\ live + zombies <= MaxChild

FrameInv ==
  /\ frames[1].kind # "sig"
  /\ Separated(frames)
  /\ pc \notin {"setting", "clear", "done"} => (canHandleSignal <=> Active(frames) = {})
  /\ pc \in {"setting", "clear"} => Active(frames) = {}
  /\ pc = "pop" => canHandleSignal
  /\ \A a \in Active(frames) : frames[a].saved = was

SignalInv ==
  /\ PopNonEmpty
  /\ NoLostExit
  /\ pc \in {"setting", "clear"} => live = 0 /\ zombies = 0

IInv == TypeInv /\ FrameInv /\ SignalInv

-----------------------------------------------------------------------------
(* Frames *)

\* A function or the termination hook is called.
LEMMA PushCode ==
  ASSUME NEW fr \in Seq(Frame), Separated(fr), NEW e \in Frame, e.kind \in {"code", "term"}
  PROVE  /\ Append(fr, e) \in Seq(Frame) /\ Len(Append(fr, e)) = Len(fr) + 1
         /\ Separated(Append(fr, e)) /\ Active(Append(fr, e)) = Active(fr)
         /\ \A a \in Active(fr) : Append(fr, e)[a] = fr[a]
         /\ Len(fr) > 0 => Append(fr, e)[1] = fr[1]
<1> DEFINE g == Append(fr, e)
<1>1. e.kind # "sig" /\ e.kind # "fork"
  OBVIOUS
<1>2. /\ g \in Seq(Frame) /\ Len(g) = Len(fr) + 1 /\ Len(fr) \in Nat
      /\ DOMAIN g = 1..(Len(fr) + 1) /\ DOMAIN fr = 1..Len(fr)
      /\ \A a \in 1..Len(fr) : g[a] = fr[a]
      /\ g[Len(fr) + 1] = e
  OBVIOUS
<1> HIDE DEF g
<1>3. Separated(g)
  <2> SUFFICES ASSUME NEW a \in 1..(Len(fr) + 1), NEW b \in 1..(Len(fr) + 1), a < b,
                      g[a].kind = "sig", g[b].kind = "sig"
               PROVE  \E c \in (a + 1)..(b - 1) : g[c].kind = "fork"
    BY SMTT(30), <1>2 DEF Separated
  <2>1. a \in DOMAIN fr /\ b \in DOMAIN fr
    BY <1>1, <1>2
  <2>2. PICK c \in (a + 1)..(b - 1) : fr[c].kind = "fork"
    BY <1>2, <2>1 DEF Separated
  <2>3. g[c] = fr[c]
    BY <1>2, <2>1
  <2> QED BY <2>2, <2>3
<1>4. Active(g) = Active(fr)
  BY <1>1, <1>2 DEF Active
<1>5. \A a \in Active(fr) : g[a] = fr[a]
  BY <1>2 DEF Active
<1>6. Len(fr) > 0 => g[1] = fr[1]
  BY <1>2
<1> QED BY Zenon, <1>2, <1>3, <1>4, <1>5, <1>6 DEF g

\* The frame of a function.
LEMMA CodeFrame == Code \in Frame /\ Code.kind \in {"code", "term"}
BY SignalAssumption DEF Code, Frame

\* The frames above f are dropped, by a return or by an exception.
LEMMA Cut ==
  ASSUME NEW fr \in Seq(Frame), Separated(fr), NEW f \in 1..Len(fr),
         \A a \in (f + 1)..Len(fr) : fr[a].kind # "fork"
  PROVE  /\ SubSeq(fr, 1, f) \in Seq(Frame) /\ Len(SubSeq(fr, 1, f)) = f
         /\ Separated(SubSeq(fr, 1, f))
         /\ (\E a \in (f + 1)..Len(fr) : fr[a].kind = "sig") => Active(SubSeq(fr, 1, f)) = {}
         /\ (\A a \in (f + 1)..Len(fr) : fr[a].kind # "sig") => Active(SubSeq(fr, 1, f)) = Active(fr)
         /\ \A a \in Active(SubSeq(fr, 1, f)) : SubSeq(fr, 1, f)[a] = fr[a]
         /\ SubSeq(fr, 1, f)[1] = fr[1]
<1> DEFINE g == SubSeq(fr, 1, f)
<1>1. /\ g \in Seq(Frame) /\ Len(g) = f /\ Len(fr) \in Nat /\ f \in Nat
      /\ DOMAIN g = 1..f /\ DOMAIN fr = 1..Len(fr)
      /\ \A a \in 1..f : g[a] = fr[a] /\ a \in DOMAIN fr
  OBVIOUS
<1> HIDE DEF g
<1>2. Separated(g)
  <2> SUFFICES ASSUME NEW a \in 1..f, NEW b \in 1..f, a < b, g[a].kind = "sig", g[b].kind = "sig"
               PROVE  \E c \in (a + 1)..(b - 1) : g[c].kind = "fork"
    BY <1>1 DEF Separated
  <2>1. PICK c \in (a + 1)..(b - 1) : fr[c].kind = "fork"
    BY <1>1 DEF Separated
  <2>2. g[c] = fr[c]
    BY <1>1
  <2> QED BY <2>1, <2>2
<1>3. ASSUME NEW b \in (f + 1)..Len(fr), fr[b].kind = "sig"
      PROVE  Active(g) = {}
  <2> SUFFICES ASSUME NEW a \in 1..f, fr[a].kind = "sig",
                      \A c \in (a + 1)..f : fr[c].kind # "fork"
               PROVE  FALSE
    BY <1>1 DEF Active
  <2>1. a \in DOMAIN fr /\ b \in DOMAIN fr /\ a < b
    BY <1>1
  <2>2. PICK c \in (a + 1)..(b - 1) : fr[c].kind = "fork"
    BY <1>3, <2>1 DEF Separated
  <2>3. c \in (a + 1)..f \/ c \in (f + 1)..Len(fr)
    BY <1>1
  <2> QED BY <2>2, <2>3
<1>4. ASSUME \A a \in (f + 1)..Len(fr) : fr[a].kind # "sig"
      PROVE  Active(g) = Active(fr)
  <2>1. ASSUME NEW a \in Active(g) PROVE a \in Active(fr)
    <3>1. a \in 1..f /\ fr[a].kind = "sig" /\ \A c \in (a + 1)..f : fr[c].kind # "fork"
      BY <1>1 DEF Active
    <3>2. \A c \in (a + 1)..Len(fr) : c \in (a + 1)..f \/ c \in (f + 1)..Len(fr)
      BY <1>1, <3>1
    <3> QED BY <1>1, <3>1, <3>2 DEF Active
  <2>2. ASSUME NEW a \in Active(fr) PROVE a \in Active(g)
    <3>1. a \in 1..Len(fr) /\ fr[a].kind = "sig" /\ \A c \in (a + 1)..Len(fr) : fr[c].kind # "fork"
      BY <1>1 DEF Active
    <3>2. a \in 1..f
      BY <1>1, <1>4, <3>1
    <3>3. \A c \in (a + 1)..f : c \in (a + 1)..Len(fr) /\ c \in 1..f
      BY <1>1, <3>2
    <3> QED BY <1>1, <3>1, <3>2, <3>3 DEF Active
  <2> QED BY Zenon, <2>1, <2>2
<1>5. \A a \in Active(g) : g[a] = fr[a]
  BY <1>1 DEF Active
<1>6. g[1] = fr[1]
  BY <1>1
<1> QED BY Zenon, <1>1, <1>2, <1>3, <1>4, <1>5, <1>6 DEF g

\* A handler is started.
LEMMA PushSig ==
  ASSUME NEW fr \in Seq(Frame), Separated(fr), Active(fr) = {}, NEW e \in Frame, e.kind = "sig"
  PROVE  /\ Append(fr, e) \in Seq(Frame) /\ Len(Append(fr, e)) = Len(fr) + 1
         /\ Separated(Append(fr, e)) /\ Active(Append(fr, e)) = {Len(fr) + 1}
         /\ Append(fr, e)[Len(fr) + 1] = e
         /\ Len(fr) > 0 => Append(fr, e)[1] = fr[1]
<1> DEFINE g == Append(fr, e)
<1>1. /\ g \in Seq(Frame) /\ Len(g) = Len(fr) + 1 /\ Len(fr) \in Nat
      /\ DOMAIN g = 1..(Len(fr) + 1) /\ DOMAIN fr = 1..Len(fr)
      /\ \A a \in 1..Len(fr) : g[a] = fr[a]
      /\ g[Len(fr) + 1] = e
  OBVIOUS
<1> HIDE DEF g
<1>2. \A a \in 1..Len(fr) : fr[a].kind = "sig" => \E c \in (a + 1)..Len(fr) : fr[c].kind = "fork"
  BY Zenon, <1>1 DEF Active
<1>3. Separated(g)
  <2> SUFFICES ASSUME NEW a \in 1..(Len(fr) + 1), NEW b \in 1..(Len(fr) + 1), a < b,
                      g[a].kind = "sig", g[b].kind = "sig"
               PROVE  \E c \in (a + 1)..(b - 1) : g[c].kind = "fork"
    BY Zenon, <1>1 DEF Separated
  <2>1. a \in 1..Len(fr) /\ fr[a].kind = "sig"
    BY <1>1
  <2>2. CASE b = Len(fr) + 1
    <3>1. PICK c \in (a + 1)..Len(fr) : fr[c].kind = "fork"
      BY <1>2, <2>1
    <3>2. c \in (a + 1)..(b - 1) /\ g[c] = fr[c]
      BY <1>1, <2>1, <2>2
    <3> QED BY <3>1, <3>2
  <2>3. CASE b \in 1..Len(fr)
    <3>1. PICK c \in (a + 1)..(b - 1) : fr[c].kind = "fork"
      BY Zenon, <1>1, <2>1, <2>3 DEF Separated
    <3>2. g[c] = fr[c]
      BY <1>1, <2>1, <2>3
    <3> QED BY <3>1, <3>2
  <2> QED BY <1>1, <2>2, <2>3
<1>4. ASSUME NEW a \in Active(g) PROVE a = Len(fr) + 1
  <2>1. a \in 1..(Len(fr) + 1) /\ g[a].kind = "sig" /\ \A c \in (a + 1)..(Len(fr) + 1) : g[c].kind # "fork"
    BY <1>1 DEF Active
  <2>2. CASE a \in 1..Len(fr)
    <3>1. PICK c \in (a + 1)..Len(fr) : fr[c].kind = "fork"
      BY <1>1, <1>2, <2>1, <2>2
    <3>2. c \in (a + 1)..(Len(fr) + 1) /\ g[c] = fr[c]
      BY <1>1, <2>2
    <3> QED BY <2>1, <3>1, <3>2
  <2> QED BY <1>1, <2>1, <2>2
<1>5. Len(fr) + 1 \in Active(g)
  BY <1>1 DEF Active
<1>6. Len(fr) > 0 => g[1] = fr[1]
  BY <1>1
<1> QED BY <1>1, <1>3, <1>4, <1>5, <1>6 DEF g

\* A subshell is forked.
LEMMA Guarded ==
  ASSUME NEW fr \in Seq(Frame), Separated(fr), Len(fr) > 0, fr[Len(fr)].kind # "sig"
  PROVE  /\ [fr EXCEPT ![Len(fr)].kind = "fork"] \in Seq(Frame)
         /\ Len([fr EXCEPT ![Len(fr)].kind = "fork"]) = Len(fr)
         /\ Separated([fr EXCEPT ![Len(fr)].kind = "fork"])
         /\ Active([fr EXCEPT ![Len(fr)].kind = "fork"]) = {}
         /\ [fr EXCEPT ![Len(fr)].kind = "fork"][1].kind \in {fr[1].kind, "fork"}
<1> DEFINE n == Len(fr)
           e == [fr[n] EXCEPT !.kind = "fork"]
           g == [fr EXCEPT ![n] = e]
<1>1. n \in Nat /\ n \in DOMAIN fr /\ DOMAIN fr = 1..n /\ fr[n] \in Frame
  OBVIOUS
<1>2. e \in Frame /\ e.kind = "fork"
  BY <1>1 DEF Frame
<1> HIDE DEF e
<1>3. /\ g \in Seq(Frame) /\ Len(g) = n /\ DOMAIN g = 1..n
      /\ g[n] = e /\ \A a \in 1..n : a # n => g[a] = fr[a]
  BY <1>1, <1>2
<1>4. [fr EXCEPT ![Len(fr)].kind = "fork"] = g
  BY DEF e
<1> HIDE DEF g, n
<1>5. Separated(g)
  <2> SUFFICES ASSUME NEW a \in 1..n, NEW b \in 1..n, a < b, g[a].kind = "sig", g[b].kind = "sig"
               PROVE  \E c \in (a + 1)..(b - 1) : g[c].kind = "fork"
    BY SMTT(30), <1>3 DEF Separated
  <2>1. b # n /\ a # n
    BY <1>1, <1>2, <1>3
  <2>2. fr[a].kind = "sig" /\ fr[b].kind = "sig"
    BY <1>3, <2>1
  <2>3. PICK c \in (a + 1)..(b - 1) : fr[c].kind = "fork"
    BY <1>1, <2>2 DEF Separated
  <2>4. c \in 1..n /\ c # n
    BY <1>1
  <2> QED BY <1>3, <2>3, <2>4
<1>6. Active(g) = {}
  BY <1>1, <1>2, <1>3 DEF Active
<1>7. g[1].kind \in {fr[1].kind, "fork"}
  BY <1>1, <1>2, <1>3
<1> QED BY Zenon, <1>3, <1>4, <1>5, <1>6, <1>7 DEF n

-----------------------------------------------------------------------------
(* Initial states and steps *)

\* The shell starts at the top level with nothing pending.
LEMMA InitInv == Init => IInv
<1> SUFFICES ASSUME Init PROVE IInv
  OBVIOUS
<1>1. Code \in Frame /\ Code.kind = "code"
  BY SignalAssumption DEF Code, Frame
<1>2. frames \in Seq(Frame) /\ Len(frames) = 1 /\ frames[1] = Code /\ DOMAIN frames = 1..1
  BY <1>1 DEF Init
<1>3. Separated(frames) /\ Active(frames) = {}
  BY <1>1, <1>2 DEF Separated, Active
<1>4. 1 \in Sig /\ 1 \in 1..MaxFrame /\ 0 \in 0..MaxLevel /\ 0 \in 0..MaxChild /\ 0 + 0 <= MaxChild
  BY SignalAssumption DEF Sig
<1>5. TypeInv
  BY Zenon, <1>2, <1>4, SignalAssumption DEF Init, TypeInv, TypeOK
<1> QED BY <1>1, <1>2, <1>3, <1>5 DEF Init, IInv, FrameInv, SignalInv, PopNonEmpty, NoLostExit

\* The steps that leave the frames alone: signals, reaping, plain instructions.
Plain ==
  \/ \E st \in Status : Operate(st)
  \/ RaiseEINTR \/ (\E s \in Sig : Install(s) \/ Uninstall(s))
  \/ ForkParent \/ ForkFailure
  \/ SignalLabel \/ Reap \/ ReapEnd \/ TestSignal
  \/ ReturnTerm \/ ChildSetting \/ ChildClear \/ ChildReset \/ Finish \/ NoTermHook
  \/ ChildExit \/ (\E s \in Sig : Raise(s)) \/ UNCHANGED vars

\* The types of what the plain steps change.
LEMMA PlainType ==
  ASSUME TypeInv, Plain
  PROVE  TypeInv'
<1> USE DEF TypeInv, TypeOK
<1>1. CASE \E st \in Status : Operate(st)
  BY <1>1 DEF Operate, CheckSignal, sigvars, kids
<1>2. CASE RaiseEINTR
  BY <1>2 DEF RaiseEINTR, vmvars, kids
<1>3. CASE \E s \in Sig : Install(s) \/ Uninstall(s)
  BY <1>3 DEF Install, Uninstall, CheckSignal, sigvars, kids
<1>4. CASE ForkParent
  BY <1>4, SignalAssumption DEF ForkParent, CheckSignal, sigvars, vmvars
<1>5. CASE ForkFailure
  BY <1>5 DEF ForkFailure, sigvars, vmvars, kids
<1>6. CASE SignalLabel
  BY Zenon, <1>6 DEF SignalLabel, vmvars, kids
<1>7. CASE Reap
  BY <1>7, SignalAssumption DEF Reap, sigvars, vmvars
<1>8. CASE ReapEnd
  BY Zenon, <1>8 DEF ReapEnd, Unblock, vmvars, kids
<1>9. CASE TestSignal
  BY Zenon, <1>9 DEF TestSignal, vmvars, kids
<1>10. CASE ReturnTerm
  <2>1. frames[Len(frames)] \in Frame
    BY <1>10
  <2>2. frames[Len(frames)].saved \in Status
    BY <2>1 DEF Frame
  <2> QED BY <1>10, <2>2 DEF ReturnTerm, sigvars, kids
<1>11. CASE ChildSetting
  BY Zenon, <1>11 DEF ChildSetting, UnblockDefault, kids
<1>12. CASE ChildClear
  <2>1. 1 \in Sig
    BY SignalAssumption DEF Sig
  <2> QED BY <1>12, <2>1 DEF ChildClear, kids
<1>13. CASE ChildReset
  BY Zenon, <1>13 DEF ChildReset, UnblockDefault, kids
<1>14. CASE Finish \/ NoTermHook
  BY <1>14 DEF Finish, NoTermHook, Running, sigvars, vmvars, kids
<1>15. CASE ChildExit
  <2>1. CHLD \in Sig
    BY SignalAssumption DEF Sig
  <2> QED BY <1>15, <2>1, SignalAssumption DEF ChildExit, Send, vmvars
<1>16. CASE \E s \in Sig : Raise(s)
  BY <1>16 DEF Raise, Send, vmvars, kids
<1>17. CASE UNCHANGED vars
  BY <1>17 DEF vars, sigvars, vmvars, kids
<1> QED BY Zenon, <1>1, <1>2, <1>3, <1>4, <1>5, <1>6, <1>7, <1>8, <1>9, <1>10, <1>11, <1>12, <1>13,
           <1>14, <1>15, <1>16, <1>17 DEF Plain

\* The plain steps change canHandleSignal and the frames only in a child.
LEMMA PlainFrames ==
  ASSUME TypeInv, FrameInv, Plain
  PROVE  FrameInv'
<1>1. frames' = frames /\ was' = was
  BY ZenonT(40) DEF Plain, Operate, RaiseEINTR, Install, Uninstall, ForkParent, ForkFailure, SignalLabel, Reap,
         ReapEnd, TestSignal, ReturnTerm, ChildSetting, ChildClear, ChildReset, Finish, NoTermHook, ChildExit,
         Raise, sigvars, vmvars, kids, vars
<1>2. CASE ChildClear
  <2>1. pc = "clear" /\ pc' = "reset" /\ canHandleSignal' = TRUE
    BY Zenon, <1>2 DEF ChildClear
  <2>2. Active(frames) = {}
    BY Zenon, <2>1 DEF FrameInv
  <2> QED BY Zenon, <1>1, <2>1, <2>2 DEF FrameInv
<1>3. CASE ChildSetting
  <2>1. pc = "setting" /\ pc' \in {"clear", "done"}
    BY Zenon, <1>3 DEF ChildSetting, UnblockDefault
  <2>2. Active(frames) = {}
    BY Zenon, <2>1 DEF FrameInv
  <2> QED BY Zenon, <1>1, <2>1, <2>2 DEF FrameInv
<1>4. CASE ~ChildClear /\ ~ChildSetting
  <2>1. canHandleSignal' = canHandleSignal
    BY Zenon, <1>4
    DEF Plain, Operate, RaiseEINTR, Install, Uninstall, ForkParent, ForkFailure, SignalLabel, Reap,
        ReapEnd, TestSignal, ReturnTerm, ChildReset, Finish, NoTermHook, ChildExit, Raise, vmvars, vars
  <2>2. /\ pc' \in {"setting", "clear"} <=> pc \in {"setting", "clear"}
        /\ pc = "done" => pc' = "done"
    BY Zenon, <1>4
    DEF Plain, Operate, RaiseEINTR, Install, Uninstall, ForkParent, ForkFailure, SignalLabel, Reap,
        ReapEnd, TestSignal, ReturnTerm, ChildReset, UnblockDefault, Finish, NoTermHook, ChildExit,
        Raise, CheckSignal, Running, vars
  <2>3. pc' = "pop" => canHandleSignal
    BY Zenon, <1>4
    DEF FrameInv, Plain, Operate, RaiseEINTR, Install, Uninstall, ForkParent, ForkFailure, SignalLabel,
        Reap, ReapEnd, TestSignal, ReturnTerm, ChildReset, UnblockDefault, Finish, NoTermHook,
        ChildExit, Raise, CheckSignal, vars
  <2> QED BY Zenon, <1>1, <2>1, <2>2, <2>3 DEF FrameInv
<1> QED BY Zenon, <1>2, <1>3, <1>4

\* No plain step loses a SIGCHLD.
LEMMA PlainSignals ==
  ASSUME TypeInv, SignalInv, Plain
  PROVE  SignalInv'
<1> USE DEF SignalInv, PopNonEmpty, NoLostExit
<1>1. CASE \E st \in Status : Operate(st)
  BY <1>1 DEF Operate, CheckSignal, Running, sigvars, kids
<1>2. CASE RaiseEINTR
  BY <1>2, SignalAssumption DEF RaiseEINTR, Running, kids
<1>3. CASE \E s \in Sig : Install(s) \/ Uninstall(s)
  BY <1>3 DEF Install, Uninstall, CheckSignal, Running, sigvars, kids
<1>4. CASE ForkParent
  BY <1>4 DEF ForkParent, CheckSignal, Running, sigvars
<1>5. CASE ForkFailure
  BY <1>5 DEF ForkFailure, Running, sigvars, kids
<1>6. CASE SignalLabel
  BY <1>6 DEF SignalLabel, kids
<1>7. CASE Reap
  BY <1>7 DEF Reap, sigvars, TypeInv, TypeOK
<1>8. CASE ReapEnd
  BY <1>8 DEF ReapEnd, Unblock, kids
<1>9. CASE TestSignal
  BY <1>9 DEF TestSignal, kids
<1>10. CASE ReturnTerm
  BY <1>10 DEF ReturnTerm, sigvars, kids
<1>11. CASE ChildSetting
  BY <1>11 DEF ChildSetting, UnblockDefault, kids
<1>12. CASE ChildClear
  BY <1>12 DEF ChildClear, kids
<1>13. CASE ChildReset
  BY <1>13 DEF ChildReset, UnblockDefault, kids
<1>14. CASE Finish \/ NoTermHook
  BY <1>14 DEF Finish, NoTermHook, Running, sigvars, kids
<1>15. CASE ChildExit
  BY <1>15 DEF ChildExit, Send
<1>16. CASE \E s \in Sig : Raise(s)
  BY <1>16 DEF Raise, Send, kids
<1>17. CASE UNCHANGED vars
  BY <1>17 DEF vars, sigvars, kids
<1> QED BY <1>1, <1>2, <1>3, <1>4, <1>5, <1>6, <1>7, <1>8, <1>9, <1>10, <1>11, <1>12, <1>13,
           <1>14, <1>15, <1>16, <1>17 DEF Plain

\* A function call keeps the invariant.
LEMMA CallInv ==
  ASSUME IInv, Call
  PROVE  IInv'
<1>1. frames \in Seq(Frame) /\ Len(frames) \in Nat /\ Len(frames) > 0 /\ Separated(frames) /\ pc = "run"
  BY DEF IInv, TypeInv, TypeOK, FrameInv, Call, Running
<1>2. CASE Len(frames) < MaxFrame
  <2>1. frames' = Append(frames, Code) /\ pc' = pc
    BY <1>2 DEF Call
  <2>2. /\ frames' \in Seq(Frame) /\ Len(frames') = Len(frames) + 1
        /\ Separated(frames') /\ Active(frames') = Active(frames)
        /\ \A a \in Active(frames) : frames'[a] = frames[a]
        /\ frames'[1] = frames[1]
    BY Zenon, <1>1, <2>1, CodeFrame, PushCode
  <2>3. TypeInv'
    BY <1>1, <1>2, <2>1, <2>2, SignalAssumption DEF IInv, TypeInv, TypeOK, Call, sigvars, kids
  <2>4. FrameInv'
    BY Zenon, <1>1, <2>1, <2>2 DEF IInv, FrameInv, Call, kids
  <2> QED BY <2>1, <2>3, <2>4 DEF IInv, SignalInv, PopNonEmpty, NoLostExit, Call, sigvars, kids
<1>3. CASE ~(Len(frames) < MaxFrame)
  <2>1. frames' = frames /\ pc' = "throw"
    BY <1>3 DEF Call
  <2>2. TypeInv'
    BY <2>1 DEF IInv, TypeInv, TypeOK, Call, sigvars, kids
  <2>3. FrameInv'
    BY <1>1, <2>1 DEF IInv, FrameInv, Call, kids
  <2> QED BY <1>1, <2>1, <2>2, <2>3 DEF IInv, SignalInv, PopNonEmpty, NoLostExit, Call, sigvars, kids
<1> QED BY <1>2, <1>3

\* A return keeps it.
LEMMA ReturnInv ==
  ASSUME IInv, Return
  PROVE  IInv'
<1> DEFINE f == Len(frames) - 1
<1>1. /\ frames \in Seq(Frame) /\ Len(frames) \in 1..MaxFrame /\ Separated(frames) /\ pc = "run"
      /\ Len(frames) > 1 /\ frames[Len(frames)].kind = "code" /\ frames' = SubSeq(frames, 1, f)
      /\ pc' \in {"run", "signal"} /\ UNCHANGED <<sigvars, handlers, canHandleSignal, status, kids, level>>
  BY DEF IInv, TypeInv, TypeOK, FrameInv, Return, Running, Top, PopFrame, CheckSignal
<1>2. f \in 1..Len(frames) /\ \A a \in (f + 1)..Len(frames) : a = Len(frames)
  BY <1>1
<1> HIDE DEF f
<1>3. \A a \in (f + 1)..Len(frames) : frames[a].kind # "fork" /\ frames[a].kind # "sig"
  BY <1>1, <1>2
<1>4. /\ frames' \in Seq(Frame) /\ Len(frames') = f /\ Separated(frames')
      /\ Active(frames') = Active(frames) /\ \A a \in Active(frames') : frames'[a] = frames[a]
      /\ frames'[1] = frames[1]
  BY Zenon, <1>1, <1>2, <1>3, Cut
<1>5. Len(frames') \in 1..MaxFrame
  BY <1>1, <1>2, <1>4, SignalAssumption
<1>6. TypeInv'
  BY Zenon, <1>1, <1>4, <1>5 DEF IInv, TypeInv, TypeOK, sigvars, kids
<1>7. FrameInv'
  BY Zenon, <1>1, <1>4 DEF IInv, FrameInv, kids
<1> QED BY <1>1, <1>6, <1>7 DEF IInv, SignalInv, PopNonEmpty, NoLostExit, sigvars, kids

\* An exception that drops a trampoline sets canHandleSignal.
LEMMA ExceptionInv ==
  ASSUME IInv, NEW f \in DOMAIN frames, NEW st \in Status, HandleException(f, st)
  PROVE  IInv'
<1>1. /\ frames \in Seq(Frame) /\ Len(frames) \in 1..MaxFrame /\ Separated(frames)
      /\ pc \in {"run", "throw"} /\ pc' \in {"run", "term"}
      /\ frames' = SubSeq(frames, 1, f) /\ status' = st
      /\ canHandleSignal' = (canHandleSignal \/ \E a \in (f + 1)..Len(frames) : frames[a].kind = "sig")
      /\ \A a \in (f + 1)..Len(frames) : frames[a].kind # "fork"
      /\ UNCHANGED <<sigvars, handlers, kids, level>>
  BY Zenon DEF IInv, TypeInv, TypeOK, FrameInv, HandleException, Running, Unwound
<1>2. f \in 1..Len(frames) /\ f \in 1..MaxFrame
  BY <1>1, SignalAssumption
<1>3. /\ frames' \in Seq(Frame) /\ Len(frames') = f /\ Separated(frames')
      /\ (\E a \in (f + 1)..Len(frames) : frames[a].kind = "sig") => Active(frames') = {}
      /\ (\A a \in (f + 1)..Len(frames) : frames[a].kind # "sig") => Active(frames') = Active(frames)
      /\ \A a \in Active(frames') : frames'[a] = frames[a]
      /\ frames'[1] = frames[1]
  BY Zenon, <1>1, <1>2, Cut
<1>4. canHandleSignal' \in BOOLEAN
  BY <1>1
<1>5. TypeInv'
  BY Zenon, <1>1, <1>2, <1>3, <1>4 DEF IInv, TypeInv, TypeOK, sigvars, kids
<1>6. FrameInv'
  <2>1. canHandleSignal <=> Active(frames) = {}
    BY <1>1 DEF IInv, FrameInv
  <2>2. canHandleSignal' <=> Active(frames') = {}
    BY Zenon, <1>1, <1>3, <2>1
  <2>3. \A a \in Active(frames') : frames'[a].saved = was
    BY <1>3 DEF IInv, FrameInv
  <2> QED BY Zenon, <1>1, <1>3, <2>2, <2>3 DEF IInv, FrameInv, kids
<1> QED BY <1>1, <1>5, <1>6 DEF IInv, SignalInv, PopNonEmpty, NoLostExit, sigvars, kids

\* RETURN_SIG drops the only trampoline and gives the exit status back.
LEMMA ReturnSigInv ==
  ASSUME IInv, ReturnSig
  PROVE  IInv' /\ status' = was
<1> DEFINE n == Len(frames)
           f == n - 1
<1>1. /\ frames \in Seq(Frame) /\ n \in 1..MaxFrame /\ Separated(frames) /\ pc = "run"
      /\ frames[n].kind = "sig" /\ frames' = SubSeq(frames, 1, f) /\ canHandleSignal'
      /\ pc' \in {"run", "signal"} /\ status' = frames[n].saved
      /\ UNCHANGED <<sigvars, handlers, kids, level>>
  BY DEF IInv, TypeInv, TypeOK, FrameInv, ReturnSig, Top, PopFrame, CheckSignal
<1>2. n \in Active(frames) /\ frames[n] \in Frame
  BY <1>1 DEF Active
<1>3. status' = was /\ status' \in Status
  BY <1>1, <1>2 DEF IInv, FrameInv, Frame
<1>4. n > 1
  BY <1>1 DEF IInv, FrameInv
<1>5. f \in 1..Len(frames) /\ f \in 1..MaxFrame /\ \A a \in (f + 1)..Len(frames) : a = n
  BY <1>1, <1>4, SignalAssumption
<1>6. n \in (f + 1)..Len(frames)
  BY <1>1
<1> HIDE DEF n, f
<1>7. \A a \in (f + 1)..Len(frames) : frames[a].kind # "fork"
  BY <1>1, <1>5
<1>8. /\ frames' \in Seq(Frame) /\ Len(frames') = f /\ Separated(frames')
      /\ Active(frames') = {} /\ frames'[1] = frames[1]
  BY <1>1, <1>5, <1>6, <1>7, Cut
<1>9. TypeInv'
  BY <1>1, <1>3, <1>5, <1>8 DEF IInv, TypeInv, TypeOK, sigvars, kids
<1>10. FrameInv'
  BY Zenon, <1>1, <1>8 DEF IInv, FrameInv
<1> QED BY <1>1, <1>3, <1>9, <1>10 DEF IInv, SignalInv, PopNonEmpty, NoLostExit, sigvars, kids

\* The termination hook is started.
LEMMA TermInv ==
  ASSUME IInv, KickTermHook
  PROVE  IInv'
<1> DEFINE e == Trampoline("term")
           g == Append(frames, e)
<1>1. /\ frames \in Seq(Frame) /\ Len(frames) \in 1..MaxFrame /\ Separated(frames) /\ pc = "term"
      /\ Len(frames) + 1 < MaxFrame /\ Len(frames) > 0
      /\ frames' = Append(g, Code) /\ pc' \in {"run", "signal"}
      /\ UNCHANGED <<sigvars, handlers, canHandleSignal, status, kids, level>>
  BY DEF IInv, TypeInv, TypeOK, FrameInv, KickTermHook, CheckSignal
<1>2. e \in Frame /\ e.kind \in {"code", "term"}
  BY DEF IInv, TypeInv, TypeOK, Trampoline, Frame
<1> HIDE DEF e
<1>3. /\ g \in Seq(Frame) /\ Len(g) = Len(frames) + 1 /\ Separated(g) /\ Active(g) = Active(frames)
      /\ \A a \in Active(frames) : g[a] = frames[a]
      /\ Len(frames) > 0 => g[1] = frames[1]
  BY Zenon, <1>1, <1>2, PushCode
<1> HIDE DEF g
<1>4. /\ frames' \in Seq(Frame) /\ Len(frames') = Len(g) + 1 /\ Separated(frames')
      /\ Active(frames') = Active(g) /\ \A a \in Active(g) : frames'[a] = g[a]
      /\ Len(g) > 0 => frames'[1] = g[1]
  BY Zenon, <1>1, <1>3, CodeFrame, PushCode
<1>5. frames'[1] = frames[1] /\ Len(frames') \in 1..MaxFrame
  BY <1>1, <1>3, <1>4, SignalAssumption
<1>6. TypeInv'
  BY <1>1, <1>4, <1>5 DEF IInv, TypeInv, TypeOK, sigvars, kids
<1>7. FrameInv'
  BY ZenonT(40), <1>1, <1>3, <1>4, <1>5 DEF IInv, FrameInv, kids
<1> QED BY <1>1, <1>6, <1>7 DEF IInv, SignalInv, PopNonEmpty, NoLostExit, sigvars, kids

\* A child is forked, in a handler or not.
LEMMA ForkInv ==
  ASSUME IInv, NEW jobControl \in BOOLEAN, ForkChild(jobControl)
  PROVE  IInv'
<1>1. /\ frames \in Seq(Frame) /\ Len(frames) \in 1..MaxFrame /\ Len(frames) > 0 /\ Separated(frames)
      /\ pc = "run" /\ frames[Len(frames)].kind # "sig" /\ frames[1].kind # "sig"
      /\ level \in 0..MaxLevel /\ level < MaxLevel /\ level' = level + 1
      /\ frames' = [frames EXCEPT ![Len(frames)].kind = "fork"] /\ masked' = TRUE
      /\ live' = 0 /\ zombies' = 0 /\ lost' = FALSE /\ pc' \in {"setting", "clear"}
      /\ UNCHANGED <<pending, index, kpend, handlers, canHandleSignal, status, was>>
  BY DEF IInv, TypeInv, TypeOK, FrameInv, ForkChild, Running, Top
<1>2. /\ frames' \in Seq(Frame) /\ Len(frames') = Len(frames) /\ Separated(frames')
      /\ Active(frames') = {} /\ frames'[1].kind \in {frames[1].kind, "fork"}
  BY Zenon, <1>1, Guarded
<1>3. level' \in 0..MaxLevel /\ 0 \in 0..MaxChild /\ 0 + 0 <= MaxChild
  BY SMTT(30), <1>1, SignalAssumption
<1>4. TypeInv'
  BY Zenon, <1>1, <1>2, <1>3 DEF IInv, TypeInv, TypeOK
<1>5. FrameInv'
  BY Zenon, <1>1, <1>2 DEF FrameInv
<1> QED BY <1>1, <1>4, <1>5 DEF IInv, SignalInv, PopNonEmpty, NoLostExit

\* The signal that is popped starts a handler only if none is running.
LEMMA PopInv ==
  ASSUME IInv, PopPendingSig
  PROVE  IInv'
<1>1. /\ pc = "pop" /\ canHandleSignal /\ Active(frames) = {} /\ Separated(frames)
      /\ frames \in Seq(Frame) /\ Len(frames) \in 1..MaxFrame /\ Len(frames) > 0
      /\ frames[1].kind # "sig" /\ index \in Sig /\ index' = NextIndex(index)
  BY DEF IInv, TypeInv, TypeOK, FrameInv, PopPendingSig
<1>2. index' \in Sig
  BY <1>1, SignalAssumption DEF NextIndex, Sig
<1>3. CASE index \notin pending
  <2>1. UNCHANGED <<pending, kpend, masked, vmvars, pc, kids>>
    BY <1>3 DEF PopPendingSig
  <2>2. TypeInv'
    BY <1>2, <2>1 DEF IInv, TypeInv, TypeOK, vmvars, kids
  <2>3. FrameInv'
    BY <2>1 DEF IInv, FrameInv, vmvars, kids
  <2> QED BY <2>1, <2>2, <2>3 DEF IInv, SignalInv, PopNonEmpty, NoLostExit, kids
<1>4. CASE index \in pending
  <2>1. /\ pending' = (pending \ {index}) \cup kpend /\ kpend' = {} /\ masked' = FALSE
        /\ lost' = (lost \/ index = CHLD)
        /\ UNCHANGED <<handlers, status, live, zombies, level>>
    BY <1>4 DEF PopPendingSig, Unblock
  <2>2. CASE index \in handlers /\ Len(frames) + 1 < MaxFrame
    <3> DEFINE e == Trampoline("sig")
               g == Append(frames, e)
    <3>1. /\ frames' = Append(g, Code) /\ canHandleSignal' = FALSE /\ was' = status /\ pc' = "run"
      BY <1>4, <2>2 DEF PopPendingSig, Kick
    <3>2. e \in Frame /\ e.kind = "sig" /\ e.saved = status
      BY DEF IInv, TypeInv, TypeOK, Trampoline, Frame
    <3> HIDE DEF e
    <3>3. /\ g \in Seq(Frame) /\ Len(g) = Len(frames) + 1 /\ Separated(g)
          /\ Active(g) = {Len(frames) + 1} /\ g[Len(frames) + 1] = e /\ g[1] = frames[1]
      BY <1>1, <3>2, PushSig
    <3> HIDE DEF g
    <3>4. /\ frames' \in Seq(Frame) /\ Len(frames') = Len(g) + 1 /\ Separated(frames')
          /\ Active(frames') = Active(g) /\ \A a \in Active(g) : frames'[a] = g[a]
          /\ Len(g) > 0 => frames'[1] = g[1]
      BY <3>1, <3>3, CodeFrame, PushCode
    <3>5. frames'[1] = frames[1] /\ Len(frames') \in 1..MaxFrame
      BY <1>1, <2>2, <3>3, <3>4, SignalAssumption
    <3>6. TypeInv'
      BY Zenon, <1>2, <2>1, <3>1, <3>4, <3>5 DEF IInv, TypeInv, TypeOK
    <3>7. Active(frames') # {} /\ \A a \in Active(frames') : frames'[a].saved = was'
      BY <3>1, <3>2, <3>3, <3>4
    <3>8. FrameInv'
      BY Zenon, <1>1, <3>1, <3>4, <3>5, <3>7 DEF FrameInv
    <3> QED BY Zenon, <1>1, <2>1, <3>1, <3>6, <3>8 DEF IInv, SignalInv, PopNonEmpty, NoLostExit
  <2>3. CASE ~(index \in handlers /\ Len(frames) + 1 < MaxFrame)
    <3>1. UNCHANGED <<frames, canHandleSignal, was>> /\ pc' \in {"run", "throw"}
      BY <1>4, <2>3 DEF PopPendingSig, Kick
    <3>2. TypeInv'
      BY Zenon, <1>2, <2>1, <3>1 DEF IInv, TypeInv, TypeOK
    <3>3. FrameInv'
      BY <1>1, <3>1 DEF IInv, FrameInv
    <3> QED BY Zenon, <1>1, <2>1, <3>1, <3>2, <3>3 DEF IInv, SignalInv, PopNonEmpty, NoLostExit
  <2> QED BY <2>2, <2>3
<1> QED BY <1>3, <1>4

\* Every step keeps the invariant.
LEMMA NextInv == IInv /\ [Next]_vars => IInv'
<1> SUFFICES ASSUME IInv, [Next]_vars PROVE IInv'
  OBVIOUS
<1>1. Plain => IInv'
  BY PlainType, PlainFrames, PlainSignals DEF IInv
<1>2. \/ Plain \/ Call \/ Return \/ ReturnSig \/ KickTermHook \/ PopPendingSig
      \/ \E f \in DOMAIN frames, st \in Status : HandleException(f, st)
      \/ \E jobControl \in BOOLEAN : ForkChild(jobControl)
  BY DEF Next, Script, Shell, Plain
<1> QED BY <1>1, <1>2, CallInv, ReturnInv, ReturnSigInv, TermInv, PopInv, ExceptionInv, ForkInv

-----------------------------------------------------------------------------
(* Theorems *)

\* The invariant of signal dispatch.
THEOREM Invariance == Spec => []IInv
BY InitInv, NextInv, PTL DEF Spec

\* Types of the pending set, the frames and the children, for all constants;
\* the index of popPendingSig (signals.cpp:301-312) stays in the signals.
THEOREM TypeCorrect == Spec => []TypeOK
BY Invariance, PTL DEF IInv, TypeInv

\* Handlers do not nest, and canHandleSignal is exact (vm.cpp:2445-2456), in any
\* nesting of calls, exceptions and subshells.
THEOREM HandlersDoNotNest == Spec => []OneTrampoline
<1>1. Handling = Active(frames)
  BY DEF Handling, Active
<1>2. IInv => OneTrampoline
  BY <1>1 DEF IInv, FrameInv, OneTrampoline, Separated
<1> QED BY <1>2, Invariance, PTL

\* The assertion of popPendingSig holds (signals.cpp:302).
THEOREM PopAssertion == Spec => []PopNonEmpty
BY Invariance, PTL DEF IInv, SignalInv

\* waitForAny misses no child (job.cpp:541-555): only the pop of a SIGCHLD can.
THEOREM ChildrenSeen == Spec => []NoLostExit
BY Invariance, PTL DEF IInv, SignalInv

\* A handler that returns gives the exit status back to the code it interrupted
\* (vm.cpp:1956-1964).
THEOREM ExitStatusKept == Spec => StatusRestored
<1>1. IInv /\ [Next]_vars => [pc = "run" /\ Top = "sig" /\ ~UNCHANGED frames => status' = was]_vars
  <2> SUFFICES ASSUME IInv, [Next]_vars, pc = "run", Top = "sig", frames' # frames
               PROVE  status' = was
    OBVIOUS
  <2>1. ReturnSig
    BY DEF Next, Script, Shell, Operate, Call, Return, RaiseEINTR, HandleException, Install, Uninstall,
           KickTermHook, ForkParent, ForkFailure, ForkChild, SignalLabel, Reap, ReapEnd, TestSignal,
           PopPendingSig, ReturnTerm, ChildSetting, ChildClear, ChildReset, Finish, NoTermHook, ChildExit, Raise,
           Running, vars, vmvars
  <2> QED BY <2>1, ReturnSigInv
<1> QED BY <1>1, Invariance, PTL DEF Spec, StatusRestored

=============================================================================

-------------------------- MODULE LineEditor_proofs --------------------------
(***************************************************************************)
(* The history of the line editor (module LineEditor), for any history,    *)
(* buffer size, completer and number of keys.                              *)
(***************************************************************************)
EXTENDS LineEditor, FiniteSetTheorems, WellFoundedInduction, TLAPS

-----------------------------------------------------------------------------
(* Sequences *)

\* A vector.
IsSeq(s) == s \in Seq({s[n] : n \in DOMAIN s})

\* A vector has a length.
LEMMA SeqFacts ==
  ASSUME NEW s, IsSeq(s)
  PROVE  Len(s) \in Nat /\ DOMAIN s = 1..Len(s) /\ s = [n \in 1..Len(s) |-> s[n]]
BY DEF IsSeq

\* A function from the first numbers is a vector.
LEMMA FcnSeq ==
  ASSUME NEW n \in Nat, NEW s, s = [i \in 1..n |-> s[i]]
  PROVE  IsSeq(s) /\ Len(s) = n /\ DOMAIN s = 1..n
<1>1. DOMAIN s = 1..n
  BY Zenon
<1>2. s \in [1..n -> {s[i] : i \in 1..n}]
  BY Zenon
<1>3. s \in Seq({s[i] : i \in 1..n})
  BY <1>2
<1>4. IsSeq(s)
  BY ZenonT(40), <1>1, <1>3 DEF IsSeq
<1> QED BY <1>1, <1>3, <1>4

\* Appending to a vector.
LEMMA AppendSeq ==
  ASSUME NEW s, IsSeq(s), NEW x
  PROVE  /\ IsSeq(Append(s, x)) /\ Len(Append(s, x)) = Len(s) + 1
         /\ Append(s, x)[Len(s) + 1] = x
<1> DEFINE S == {s[n] : n \in DOMAIN s} \cup {x}
           a == Append(s, x)
<1>1. s \in Seq(S) /\ x \in S
  BY DEF IsSeq
<1> HIDE DEF S
<1>2. a \in Seq(S) /\ Len(a) = Len(s) + 1 /\ a[Len(s) + 1] = x /\ Len(s) \in Nat
  BY <1>1
<1> HIDE DEF a
<1>3. Len(s) + 1 \in Nat /\ a = [n \in 1..(Len(s) + 1) |-> a[n]]
  BY <1>2
<1>4. IsSeq(a)
  BY ZenonT(40), <1>3, FcnSeq
<1> QED BY Zenon, <1>2, <1>4 DEF a

\* The first elements of a vector.
LEMMA PrefixSeq ==
  ASSUME NEW s, IsSeq(s), NEW n \in 0..Len(s)
  PROVE  /\ IsSeq(SubSeq(s, 1, n)) /\ Len(SubSeq(s, 1, n)) = n
         /\ \A i \in 1..n : SubSeq(s, 1, n)[i] = s[i]
<1> DEFINE S == {s[i] : i \in DOMAIN s}
           a == SubSeq(s, 1, n)
<1>1. s \in Seq(S)
  BY DEF IsSeq
<1> HIDE DEF S
<1>2. n \in Nat /\ a \in Seq(S) /\ Len(a) = n /\ \A i \in 1..n : a[i] = s[i]
  BY <1>1
<1> HIDE DEF a
<1>3. a = [i \in 1..n |-> a[i]]
  BY <1>2
<1>4. IsSeq(a)
  BY Zenon, <1>2, <1>3, FcnSeq
<1> QED BY Zenon, <1>2, <1>4 DEF a

\* A vector without its first element.
LEMMA TailSeq ==
  ASSUME NEW s, IsSeq(s), Len(s) > 0
  PROVE  /\ IsSeq(Tail(s)) /\ Len(Tail(s)) = Len(s) - 1
         /\ \A i \in 1..(Len(s) - 1) : Tail(s)[i] = s[i + 1]
<1> DEFINE S == {s[i] : i \in DOMAIN s}
           a == Tail(s)
<1>1. s \in Seq(S) /\ s # << >>
  BY DEF IsSeq
<1> HIDE DEF S
<1>2. /\ Len(s) - 1 \in Nat /\ a \in Seq(S) /\ Len(a) = Len(s) - 1
      /\ \A i \in 1..(Len(s) - 1) : a[i] = s[i + 1]
  BY <1>1
<1> HIDE DEF a
<1>3. a = [i \in 1..(Len(s) - 1) |-> a[i]]
  BY <1>2
<1>4. IsSeq(a)
  BY Zenon, <1>2, <1>3, FcnSeq
<1> QED BY Zenon, <1>2, <1>4 DEF a

\* Replacing an element of a vector.
LEMMA ExceptSeqOK ==
  ASSUME NEW s, IsSeq(s), NEW n, NEW x
  PROVE  IsSeq([s EXCEPT ![n] = x]) /\ Len([s EXCEPT ![n] = x]) = Len(s)
<1> DEFINE a == [s EXCEPT ![n] = x]
<1>1. Len(s) \in Nat /\ DOMAIN s = 1..Len(s)
  BY Zenon, SeqFacts
<1>2. a = [i \in 1..Len(s) |-> a[i]]
  BY ZenonT(40), <1>1
<1> HIDE DEF a
<1>3. IsSeq(a) /\ Len(a) = Len(s)
  BY Zenon, <1>1, <1>2, FcnSeq
<1> QED BY Zenon, <1>3 DEF a

\* RingBuffer::push_back: the last element is the new one, the capacity is kept.
LEMMA PushBackSeq ==
  ASSUME NEW r, IsSeq(r), NEW x, NEW max \in Nat \ {0}, Len(r) <= max
  PROVE  LET p == PushBack(r, x, max)
         IN  IsSeq(p) /\ Len(p) \in 1..max /\ p[Len(p)] = x
<1> DEFINE a == Append(r, x)
           p == PushBack(r, x, max)
<1>1. IsSeq(a) /\ Len(a) = Len(r) + 1 /\ a[Len(a)] = x /\ Len(r) \in Nat
  BY Zenon, AppendSeq, SeqFacts
<1>2. p = IF Len(a) > max THEN Tail(a) ELSE a
  BY DEF PushBack
<1> HIDE DEF a, p
<1>3. CASE Len(a) > max
  <2>1. p = Tail(a) /\ Len(a) > 1 /\ Len(a) = max + 1
    BY <1>1, <1>2, <1>3
  <2>2. IsSeq(p) /\ Len(p) = Len(a) - 1 /\ \A i \in 1..(Len(a) - 1) : p[i] = a[i + 1]
    BY <1>1, <2>1, TailSeq
  <2>3. p[Len(p)] = a[Len(a)]
    BY <1>1, <2>1, <2>2
  <2> QED BY <1>1, <2>1, <2>2, <2>3 DEF p
<1>4. CASE ~(Len(a) > max)
  BY <1>1, <1>2, <1>4 DEF p
<1> QED BY Zenon, <1>3, <1>4

-----------------------------------------------------------------------------
(* The history *)

\* The entries that readline found.
Kept == Truncated(History)

\* While keys are read the list has one entry more, for the current line, and
\* every other entry is as it was, or is saved in old.
HistOK(h) ==
  /\ IsSeq(h.list) /\ Len(h.list) = Len(Kept) + 1
  /\ h.index \in 0..Len(Kept)
  /\ DOMAIN h.old \subseteq 1..(Len(Kept) + 1)
  /\ \A n \in 1..Len(Kept) :
       IF n \in DOMAIN h.old THEN h.old[n] = Kept[n] ELSE h.list[n] = Kept[n]

HistInv == HistoryKept /\ (mode # "done" => HistOK(hist))

\* The constructor of HistRotator (pager.cpp:445-451) leaves a list of entries.
LEMMA KeptSeq == IsSeq(Kept) /\ Len(Kept) \in Nat /\ DOMAIN Kept = 1..Len(Kept)
<1> DEFINE R == {History[n] : n \in DOMAIN History}
<1>1. History \in Seq(R) /\ MaxHist \in Nat \ {0}
  BY Zenon, HistoryAssumption DEF Range
<1> HIDE DEF R
<1>2. Kept \in Seq(R)
  <2>1. CASE Len(History) + 1 > MaxHist
    BY <1>1, <2>1 DEF Kept, Truncated
  <2>2. CASE ~(Len(History) + 1 > MaxHist)
    BY Zenon, <1>1, <2>2 DEF Kept, Truncated
  <2> QED BY Zenon, <2>1, <2>2
<1>3. Len(Kept) \in Nat /\ DOMAIN Kept = 1..Len(Kept)
  BY <1>2
<1>4. Kept = [n \in 1..Len(Kept) |-> Kept[n]]
  BY <1>2
<1>5. Kept \in [1..Len(Kept) -> {Kept[n] : n \in 1..Len(Kept)}]
  BY <1>4
<1> HIDE DEF Kept
<1>6. Kept \in Seq({Kept[n] : n \in 1..Len(Kept)})
  BY <1>3, <1>5
<1> QED BY Zenon, <1>3, <1>6 DEF IsSeq

\* The constructor appends the entry for the line.
LEMMA NewOK == HistOK(NewRotator)
<1> DEFINE R == {Kept[n] : n \in DOMAIN Kept}
           l == Append(Kept, << >>)
<1>1. Kept \in Seq(R) /\ Len(Kept) \in Nat /\ DOMAIN Kept = 1..Len(Kept)
  BY KeptSeq DEF IsSeq
<1>2. /\ NewRotator.list = l /\ DOMAIN NewRotator.old = {} /\ NewRotator.index = 0
  BY DEF NewRotator, Kept
<1> HIDE DEF R, Kept
<1>3. /\ Len(l) = Len(Kept) + 1 /\ DOMAIN l = 1..(Len(Kept) + 1)
      /\ \A n \in 1..Len(Kept) : l[n] = Kept[n]
  BY <1>1
<1>4. l = [n \in 1..(Len(Kept) + 1) |-> l[n]]
  <2> DEFINE S == R \cup {<< >>}
  <2>1. Kept \in Seq(S) /\ << >> \in S
    BY <1>1
  <2> HIDE DEF S
  <2>2. l \in Seq(S)
    BY <2>1
  <2> HIDE DEF l
  <2> QED BY <1>3, <2>2
<1> HIDE DEF l
<1>5. l \in Seq({l[n] : n \in DOMAIN l})
  <2>1. l \in [1..(Len(Kept) + 1) -> {l[n] : n \in 1..(Len(Kept) + 1)}]
    BY <1>4
  <2> QED BY <1>1, <1>3, <2>1
<1> QED BY <1>1, <1>2, <1>3, <1>5 DEF HistOK, IsSeq

\* revertAll (pager.cpp:453-467) restores every entry.
LEMMA RevertKept ==
  ASSUME HistOK(hist)
  PROVE  RevertAll(hist).list = Kept
<1> DEFINE l == Front(hist.list)
           r == [n \in DOMAIN l |-> IF n \in DOMAIN hist.old THEN hist.old[n] ELSE l[n]]
<1>1. Len(Kept) \in Nat /\ DOMAIN Kept = 1..Len(Kept) /\ Kept = [n \in DOMAIN Kept |-> Kept[n]]
  BY KeptSeq DEF IsSeq
<1>2. RevertAll(hist).list = r
  BY DEF RevertAll
<1>3. DOMAIN l = 1..Len(Kept) /\ \A n \in 1..Len(Kept) : l[n] = hist.list[n]
  BY <1>1 DEF HistOK, IsSeq, Front
<1> HIDE DEF l, Kept
<1>4. DOMAIN r = 1..Len(Kept) /\ \A n \in 1..Len(Kept) : r[n] = Kept[n]
  BY ZenonT(40), <1>3 DEF HistOK
<1> HIDE DEF r
<1>5. r = [n \in 1..Len(Kept) |-> Kept[n]]
  BY Zenon, <1>4, <1>2 DEF r
<1> QED BY Zenon, <1>1, <1>2, <1>5

\* rotate (pager.cpp:469-512) saves an entry before it is overwritten.
LEMMA RotateOK ==
  ASSUME HistOK(hist), NEW op \in {"PREV", "NEXT"}, CanRotate(hist, op), NEW s
  PROVE  HistOK(Rotate(hist, op, s))
<1> DEFINE N == Len(Kept)
           n == Slot(hist, hist.index)
           h == Rotate(hist, op, s)
           l == [hist.list EXCEPT ![n] = s]
           o == [m \in DOMAIN hist.old \cup {n} |->
                   IF m \in DOMAIN hist.old THEN hist.old[m] ELSE hist.list[n]]
<1>1. N \in Nat
  BY Zenon, KeptSeq
<1>2. /\ hist.list \in Seq({hist.list[m] : m \in DOMAIN hist.list})
      /\ Len(hist.list) = N + 1 /\ hist.index \in 0..N
      /\ DOMAIN hist.old \subseteq 1..(N + 1)
      /\ \A m \in 1..N : IF m \in DOMAIN hist.old THEN hist.old[m] = Kept[m]
                         ELSE hist.list[m] = Kept[m]
  BY DEF HistOK, IsSeq
<1>3. DOMAIN hist.list = 1..(N + 1) /\ n \in 1..(N + 1)
  BY <1>1, <1>2 DEF Slot
<1>4. h.list = l /\ h.old = o /\ h.index \in 0..N
  <2>1. h.list = l /\ h.old = o
    BY DEF Rotate
  <2>2. h.index = IF op = "PREV" THEN hist.index + 1 ELSE hist.index - 1
    BY DEF Rotate
  <2> QED BY <1>1, <1>2, <2>1, <2>2 DEF CanRotate
<1> HIDE DEF N, n, h
<1>5. DOMAIN l = 1..(N + 1) /\ \A m \in 1..(N + 1) : m # n => l[m] = hist.list[m]
  BY Zenon, <1>3
<1>6. l \in Seq({l[m] : m \in DOMAIN l}) /\ Len(l) = N + 1
  <2>1. l \in [1..(N + 1) -> {l[m] : m \in 1..(N + 1)}]
    BY Zenon, <1>5
  <2> HIDE DEF l
  <2>2. l \in Seq({l[m] : m \in 1..(N + 1)})
    BY <1>1, <2>1
  <2> QED BY <1>1, <1>5, <2>2
<1>7. DOMAIN o = DOMAIN hist.old \cup {n} /\ \A m \in DOMAIN hist.old : o[m] = hist.old[m]
  BY Zenon
<1>8. n \notin DOMAIN hist.old => o[n] = hist.list[n]
  BY Zenon
<1> HIDE DEF l, o
<1>9. ASSUME NEW m \in 1..N
      PROVE  IF m \in DOMAIN o THEN o[m] = Kept[m] ELSE l[m] = Kept[m]
  <2>1. m \in 1..(N + 1)
    BY <1>1
  <2> QED BY Zenon, <1>2, <1>5, <1>7, <1>8, <2>1
<1>10. DOMAIN o \subseteq 1..(N + 1)
  BY Zenon, <1>2, <1>3, <1>7
<1> QED BY Zenon, <1>4, <1>6, <1>9, <1>10 DEF HistOK, IsSeq, N, h

-----------------------------------------------------------------------------
(* Keys *)

\* A key that leaves the history alone.
Reading == mode # "done" /\ mode' # "done" /\ hist' = hist

\* A key that ends readline.
Ending ==
  /\ mode # "done" /\ mode' = "done"
  /\ LET l == RevertAll(hist).list IN hist'.list \in {l, Append(l, line'.text)}

\* A failing key (the destructor of histRotate runs).
LEMMA FailEnding == ASSUME NEW b, mode # "done", Fail(b) PROVE Ending
BY Zenon DEF Fail, Ending

\* accept and its acceptor (line_editor.cpp:504-517), after which the history is
\* reverted.
LEMMA AcceptEnding == ASSUME NEW x, mode # "done", AcceptLine(x) PROVE Ending
<1> DEFINE h == RevertAll(hist)
<1>1. "list" \in DOMAIN h
  BY DEF RevertAll
<1>2. hist' \in {h, [h EXCEPT !.list = Append(h.list, x.text)]} /\ line' = x /\ mode' = "done"
  BY Zenon DEF AcceptLine
<1> HIDE DEF h
<1>3. hist'.list \in {h.list, Append(h.list, x.text)}
  BY <1>1, <1>2
<1> QED BY ZenonT(40), <1>2, <1>3 DEF Ending, h

\* A key that edits the line and goes on.
LEMMA EditedReading ==
  ASSUME NEW m, NEW k, NEW b, Key(m, k), m # "done", Edited(b)
  PROVE  Reading
BY Zenon DEF Key, Edited, Reading

\* Characters and pastes: they are inserted, or readline fails.
LEMMA InsertingKey ==
  ASSUME \/ \E c \in Chars \cup {Space, Newline} : InsertChar(c)
         \/ \E s \in Pastes : Paste(s)
  PROVE  Reading \/ Ending
<1>1. ASSUME NEW c, InsertChar(c) PROVE Reading \/ Ending
  <2>1. Key("edit", "char") /\ mode # "done"
    BY ZenonT(40), <1>1 DEF InsertChar, Key
  <2>2. Fail(line) \/ \E x : Edited(x)
    BY Zenon, <1>1 DEF InsertChar
  <2> QED BY Zenon, <2>1, <2>2, FailEnding, EditedReading
<1>2. ASSUME NEW s, Paste(s) PROVE Reading \/ Ending
  <2>1. Key("edit", "paste") /\ mode # "done"
    BY Zenon, <1>2 DEF Paste, Key
  <2>2. \E x : Fail(x) \/ Edited(x)
    BY ZenonT(40), <1>2 DEF Paste
  <2> QED BY Zenon, <2>1, <2>2, FailEnding, EditedReading
<1> QED BY ZenonT(40), <1>1, <1>2

\* Keys that end readline: ACCEPT, CANCEL and the end of the input.
LEMMA EndingKey == ASSUME Accept \/ Quit PROVE Ending
<1>1. ASSUME Accept PROVE Ending
  <2>1. mode # "done" /\ \E x : AcceptLine(x)
    BY Zenon, <1>1 DEF Accept, Key
  <2> QED BY Zenon, <2>1, AcceptEnding
<1>2. ASSUME Quit PROVE Ending
  BY Zenon, <1>2, FailEnding DEF Quit
<1> QED BY Zenon, <1>1, <1>2

\* Deletions, movements, kills, undo and redo.
LEMMA EditingKey ==
  ASSUME \/ BackwardDeleteChar \/ DeleteChar \/ TransposeChar
         \/ \E n \in 0..BufSize : MoveTo(n)
         \/ BeginningOfLine \/ EndOfLineKey
         \/ BackwardKillLine \/ KillLine
         \/ \E n \in 1..BufSize : BackwardKillWord(n) \/ KillWord(n)
         \/ UndoKey \/ RedoKey
         \/ \E up \in BOOLEAN : UpDown(up)
  PROVE  Reading
<1>1. ASSUME NEW n, MoveTo(n) PROVE Reading
  BY Zenon, <1>1 DEF MoveTo, Key, Reading
<1>2. ASSUME NEW b, NEW s, NEW k, Key("edit", k), Kill(b, s) PROVE Reading
  BY Zenon, <1>2 DEF Kill, Key, Reading
<1>3. ASSUME NEW b, NEW k, Key("edit", k), Edited(b) PROVE Reading
  BY Zenon, <1>3, EditedReading
<1>4. ASSUME BackwardDeleteChar \/ DeleteChar \/ TransposeChar \/ UndoKey \/ RedoKey
             \/ \E up \in BOOLEAN : UpDown(up)
      PROVE  Reading
  BY Zenon, <1>3, <1>4
  DEF BackwardDeleteChar, DeleteChar, TransposeChar, UndoKey, RedoKey, UpDown
<1>5. ASSUME BeginningOfLine \/ EndOfLineKey PROVE Reading
  BY ZenonT(40), <1>1, <1>5 DEF BeginningOfLine, EndOfLineKey, Key, Reading
<1>6. ASSUME \/ BackwardKillLine \/ KillLine
             \/ \E n \in 1..BufSize : BackwardKillWord(n) \/ KillWord(n)
      PROVE  Reading
  BY Zenon, <1>2, <1>6 DEF BackwardKillLine, KillLine, BackwardKillWord, KillWord
<1> QED BY Zenon, <1>1, <1>4, <1>5, <1>6

\* Yanks: the text is inserted, or readline fails.
LEMMA YankKey == ASSUME Yank \/ YankPop PROVE Reading \/ Ending
<1>1. mode = "edit" /\ \E b, n : Insert(b, n)
  BY Zenon DEF Yank, YankPop, Key
<1>2. PICK b, n : Insert(b, n)
  BY Zenon, <1>1
<1> QED BY Zenon, <1>1, <1>2 DEF Insert, Reading, Ending

\* The callbacks of the user.
LEMMA CustomKey ==
  ASSUME NEW type, NEW s, Custom(type, s)
  PROVE  Reading \/ Ending
<1>1. Key("edit", "custom") /\ \E x : Edited(x) \/ AcceptLine(x)
  BY Zenon DEF Custom
<1>2. mode # "done"
  BY Zenon, <1>1 DEF Key
<1> QED BY Zenon, <1>1, <1>2, AcceptEnding, EditedReading

\* completeLine, up to the pager.
LEMMA CompleteKey == ASSUME NEW c, Complete(c) PROVE Reading \/ Ending
<1>1. mode = "edit"
  BY Zenon DEF Complete, Key
<1>2. \/ UNCHANGED <<mode, hist>>
      \/ mode' = "done" /\ hist' = RevertAll(hist)
      \/ mode' \in {"edit", "first"} /\ hist' = hist
  BY Zenon DEF Complete
<1> QED BY Zenon, <1>1, <1>2 DEF Reading, Ending

\* The keys of the pager.
LEMMA PagerKeys == ASSUME PagerKey PROVE Reading \/ Ending
<1>1. mode # "done"
  BY Zenon DEF PagerKey, StartPager, MovePager, LeavePager, RevertPager, Key
<1>2. ASSUME NEW c, NEW n, ShowItem(c, n) PROVE Reading \/ Ending
  <2>1. (mode' = "page" /\ hist' = hist) \/ \E x : Fail(x)
    BY Zenon, <1>2 DEF ShowItem
  <2> QED BY Zenon, <1>1, <2>1, FailEnding DEF Reading
<1>3. ASSUME LeavePager \/ RevertPager PROVE Reading
  BY Zenon, <1>1, <1>3 DEF LeavePager, RevertPager, Reading
<1> QED BY Zenon, <1>2, <1>3 DEF PagerKey, StartPager, MovePager

\* Every key but those that rotate the history.
LEMMA EditKeys == ASSUME EditKey PROVE Reading \/ Ending
BY Zenon, InsertingKey, EndingKey, EditingKey, YankKey, CustomKey DEF EditKey

\* rotateHistory: at either end of the history only the index is set.
LEMMA RotateKey ==
  ASSUME HistInv, NEW op \in {"PREV", "NEXT"}, NEW multi, RotateHistory(op, multi)
  PROVE  HistInv'
<1>1. mode = "edit" /\ mode' = mode
  BY Zenon DEF RotateHistory, Key
<1>2. HistOK(hist)
  BY Zenon, <1>1 DEF HistInv
<1>3. CASE CanRotate(hist, op)
  <2>1. \E s : hist' = Rotate(hist, op, s)
    BY Zenon, <1>3 DEF RotateHistory
  <2>2. HistOK(hist')
    BY ZenonT(40), <1>2, <1>3, <2>1, RotateOK
  <2> QED BY Zenon, <1>1, <2>2 DEF HistInv, HistOK, HistoryKept, Kept
<1>4. CASE ~CanRotate(hist, op)
  <2> DEFINE i == IF op = "PREV" THEN Len(hist.list) - 1 ELSE 0
  <2>1. hist' = [hist EXCEPT !.index = i]
    BY Zenon, <1>4 DEF RotateHistory
  <2>2. i \in 0..Len(Kept)
    BY <1>2, KeptSeq DEF HistOK
  <2> HIDE DEF i
  <2>3. hist'.list = hist.list /\ hist'.old = hist.old /\ hist'.index \in {i, hist.index}
    BY <2>1
  <2>4. hist'.index \in 0..Len(Kept)
    BY ZenonT(40), <1>2, <2>2, <2>3 DEF HistOK
  <2>5. HistOK(hist')
    BY <1>2, <2>3, <2>4 DEF HistOK
  <2> QED BY Zenon, <1>1, <2>5 DEF HistInv, HistOK, HistoryKept, Kept
<1> QED BY <1>3, <1>4

\* What the other keys do to the history.
LEMMA OtherKey == ASSUME HistInv, Reading \/ Ending PROVE HistInv'
<1>1. HistOK(hist)
  BY Zenon DEF HistInv, Reading, Ending
<1>2. CASE Reading
  BY Zenon, <1>1, <1>2 DEF Reading, HistInv, HistOK, HistoryKept, Kept
<1>3. CASE Ending
  <2>1. hist'.list \in {Kept, Append(Kept, line'.text)}
    BY Zenon, <1>1, <1>3, RevertKept DEF Ending
  <2> QED BY Zenon, <1>3, <2>1 DEF Ending, HistInv, HistoryKept, Kept
<1> QED BY Zenon, <1>2, <1>3

\* readline starts with the history as it is.
LEMMA InitHist == Init => HistInv
BY Zenon, NewOK DEF Init, HistInv, HistoryKept

\* A key of any kind.
LEMMA NextHist == HistInv /\ [NextAny]_vars => HistInv'
<1> SUFFICES ASSUME HistInv, [NextAny]_vars PROVE HistInv'
  OBVIOUS
<1>1. CASE EditKey
  BY Zenon, <1>1, EditKeys, OtherKey
<1>2. CASE PagerKey
  BY Zenon, <1>2, PagerKeys, OtherKey
<1>3. CASE \E op \in {"PREV", "NEXT"}, multi \in BOOLEAN : RotateHistory(op, multi)
  BY Zenon, <1>3, RotateKey
<1>4. CASE \E c \in Completions : Complete(c)
  BY Zenon, <1>4, CompleteKey, OtherKey
<1>5. CASE UNCHANGED vars
  BY Zenon, <1>5 DEF vars, HistInv, HistOK, HistoryKept, Kept
<1> QED BY Zenon, <1>1, <1>2, <1>3, <1>4, <1>5 DEF NextAny

\* The keys of Spec are keys of SpecAny.
LEMMA NextIsAny == [Next]_vars => [NextAny]_vars
BY Zenon DEF Next, NextAny

\* Whatever keys are pressed, for any history, any buffer size and any completer:
\* when readline ends, the destructor of HistRotator (pager.cpp:453) has put back
\* every entry, with the accepted line at most.
THEOREM HistoryRestored == SpecAny => []HistoryKept
<1>1. HistInv => HistoryKept
  BY DEF HistInv
<1> QED BY InitHist, NextHist, <1>1, PTL DEF SpecAny

\* The same when every entry fits the buffer.
THEOREM HistoryRestoredFitting == Spec => []HistoryKept
<1>1. HistInv => HistoryKept
  BY DEF HistInv
<1> QED BY InitHist, NextHist, NextIsAny, <1>1, PTL DEF Spec

-----------------------------------------------------------------------------
(* The list of changes *)

\* A buffer whose list of changes keeps its capacity, with an index into it.
BufOK(b) ==
  /\ DOMAIN b = {"text", "cursor", "nl", "changes", "idx"}
  /\ IsSeq(b.changes) /\ Len(b.changes) <= MaxChange
  /\ b.idx \in 0..Len(b.changes)

\* The last change inserted e, and nothing else.
Inserted(b, e) ==
  LET c == b.changes[b.idx]
  IN  Len(c.chain) = 1 /\ c.chain[1].op = "INSERT" /\ c.chain[1].delta = e

\* Edits of the text, the cursor or the newlines keep the changes.
LEMMA OtherFields ==
  ASSUME NEW b, BufOK(b), NEW t, NEW c, NEW l
  PROVE  /\ BufOK([b EXCEPT !.text = t]) /\ BufOK([b EXCEPT !.cursor = c])
         /\ BufOK([b EXCEPT !.text = t, !.cursor = c]) /\ BufOK([b EXCEPT !.nl = l])
BY DEF BufOK

\* trackChange (line_buffer.cpp) keeps the capacity.
LEMMA TrackOK ==
  ASSUME NEW b, BufOK(b), NEW op, NEW delta, NEW how
  PROVE  BufOK(TrackChange(b, op, delta, how))
<1> DEFINE done == SubSeq(b.changes, 1, b.idx)
           new  == [merge |-> how = "merge",
                    chain |-> << [op |-> op, cursor |-> b.cursor, delta |-> delta] >>]
           last == done[Len(done)]
           rest == SubSeq(done, 1, Len(done) - 1)
           list == IF done = << >> THEN <<new>>
                   ELSE IF CanMerge(last, new) THEN Append(rest, Merged(last, new))
                   ELSE IF how = "atomic"
                   THEN Append(rest, [new EXCEPT !.chain = @ \o last.chain])
                   ELSE PushBack(Append(rest, [last EXCEPT !.merge = FALSE]), new, MaxChange)
           x == TrackChange(b, op, delta, how)
<1>1. x = [b EXCEPT !.changes = list, !.idx = Len(list)]
  BY Zenon DEF TrackChange
<1>2. IsSeq(b.changes) /\ Len(b.changes) <= MaxChange /\ b.idx \in 0..Len(b.changes)
  BY Zenon DEF BufOK
<1>3. IsSeq(done) /\ Len(done) = b.idx /\ Len(b.changes) \in Nat
  BY Zenon, <1>2, PrefixSeq, SeqFacts
<1> HIDE DEF done, new, x, last
<1>4. ASSUME done # << >>, NEW z
      PROVE  /\ IsSeq(Append(rest, z)) /\ Len(Append(rest, z)) = Len(done)
             /\ Len(done) \in 1..MaxChange
  <2>1. Len(done) \in 1..MaxChange
    BY SMTT(30), <1>2, <1>3, <1>4, CapacityAssumption DEF IsSeq
  <2>2. Len(done) - 1 \in 0..Len(done)
    BY <1>3, <2>1
  <2>3. IsSeq(rest) /\ Len(rest) = Len(done) - 1
    BY Zenon, <1>3, <2>2, PrefixSeq
  <2> HIDE DEF rest
  <2> QED BY <2>1, <2>3, AppendSeq
<1> HIDE DEF rest
<1>5. IsSeq(list) /\ Len(list) \in 1..MaxChange
  <2>1. CASE done = << >>
    <3>1. list = <<new>>
      BY Zenon, <2>1
    <3>2. <<new>> = [i \in 1..1 |-> <<new>>[i]] /\ 1 \in Nat /\ 1 \in 1..MaxChange
      BY CapacityAssumption
    <3> QED BY Zenon, <3>1, <3>2, FcnSeq
  <2>2. CASE done # << >> /\ \E z : list = Append(rest, z)
    <3>1. PICK z : list = Append(rest, z)
      BY ZenonT(40), <2>2
    <3>2. IsSeq(Append(rest, z)) /\ Len(Append(rest, z)) \in 1..MaxChange
      BY ZenonT(40), <1>4, <2>2
    <3> HIDE DEF list
    <3> QED BY Zenon, <3>1, <3>2
  <2>3. CASE done # << >> /\ \E z : list = PushBack(Append(rest, z), new, MaxChange)
    <3>1. PICK z : list = PushBack(Append(rest, z), new, MaxChange)
      BY ZenonT(40), <2>3
    <3>2. /\ IsSeq(Append(rest, z)) /\ Len(Append(rest, z)) <= MaxChange
      BY <1>4, <2>3, CapacityAssumption
    <3> HIDE DEF list
    <3> QED BY Zenon, <3>1, <3>2, PushBackSeq, CapacityAssumption
  <2> QED BY Zenon, <2>1, <2>2, <2>3
<1> HIDE DEF list
<1>6. /\ DOMAIN x = DOMAIN b /\ x.changes = list /\ x.idx = Len(list)
  BY <1>1 DEF BufOK
<1>7. Len(list) \in 0..Len(list) /\ Len(list) <= MaxChange
  BY <1>5, CapacityAssumption
<1>8. BufOK(x)
  BY Zenon, <1>5, <1>6, <1>7 DEF BufOK
<1> QED BY Zenon, <1>8 DEF x

\* A change that is not merged is a change of its own.
LEMMA TrackNew ==
  ASSUME NEW b, BufOK(b), NEW delta
  PROVE  Inserted(TrackChange(b, "INSERT", delta, "new"), delta)
<1> DEFINE done == SubSeq(b.changes, 1, b.idx)
           new  == [merge |-> FALSE,
                    chain |-> << [op |-> "INSERT", cursor |-> b.cursor, delta |-> delta] >>]
           last == done[Len(done)]
           rest == SubSeq(done, 1, Len(done) - 1)
           list == IF done = << >> THEN <<new>>
                   ELSE PushBack(Append(rest, [last EXCEPT !.merge = FALSE]), new, MaxChange)
           x == TrackChange(b, "INSERT", delta, "new")
<1>1. x = [b EXCEPT !.changes = list, !.idx = Len(list)]
  <2>1. ("new" = "merge") = FALSE /\ "new" # "atomic" /\ ~CanMerge(last, new)
    BY Zenon DEF CanMerge
  <2> QED BY Zenon, <2>1 DEF TrackChange
<1>2. IsSeq(b.changes) /\ Len(b.changes) <= MaxChange /\ b.idx \in 0..Len(b.changes)
  BY Zenon DEF BufOK
<1>3. IsSeq(done) /\ Len(done) = b.idx /\ Len(b.changes) \in Nat
  BY <1>2, PrefixSeq, SeqFacts
<1>4. /\ Len(new.chain) = 1 /\ new.chain[1].op = "INSERT" /\ new.chain[1].delta = delta
  OBVIOUS
<1> HIDE DEF done, new, x, last
<1>5. list[Len(list)] = new
  <2>1. CASE done = << >>
    BY <2>1
  <2>2. CASE done # << >>
    <3> DEFINE a == Append(rest, [last EXCEPT !.merge = FALSE])
    <3>1. Len(done) \in 1..MaxChange /\ Len(done) - 1 \in 0..Len(done)
      BY SMTT(30), <1>2, <1>3, <2>2, CapacityAssumption DEF IsSeq
    <3>2. IsSeq(rest) /\ Len(rest) = Len(done) - 1
      BY Zenon, <1>3, <3>1, PrefixSeq
    <3> HIDE DEF rest
    <3>3. IsSeq(a) /\ Len(a) <= MaxChange
      BY SMTT(30), <3>1, <3>2, AppendSeq, CapacityAssumption
    <3> HIDE DEF a
    <3>4. list = PushBack(a, new, MaxChange)
      BY Zenon, <2>2 DEF a
    <3> HIDE DEF list
    <3> QED BY Zenon, <3>3, <3>4, PushBackSeq, CapacityAssumption
  <2> QED BY Zenon, <2>1, <2>2
<1> HIDE DEF list
<1>6. x.changes = list /\ x.idx = Len(list)
  BY <1>1 DEF BufOK
<1>7. Inserted(x, delta)
  BY ZenonT(40), <1>4, <1>5, <1>6 DEF Inserted
<1> QED BY Zenon, <1>7 DEF x

-----------------------------------------------------------------------------
(* The methods of the buffer *)

\* syncNewlinePosList and the movements leave the changes alone.
LEMMA SyncOK == ASSUME NEW b, BufOK(b) PROVE BufOK(SyncNewlinePosList(b))
BY Zenon, OtherFields DEF SyncNewlinePosList

\* syncNewlinePosList keeps the change that an insertion has tracked last.
LEMMA SyncInserted ==
  ASSUME NEW b, BufOK(b), NEW e, Inserted(b, e)
  PROVE  Inserted(SyncNewlinePosList(b), e)
<1>1. /\ SyncNewlinePosList(b).changes = b.changes
      /\ SyncNewlinePosList(b).idx = b.idx
  BY DEF SyncNewlinePosList
<1> QED BY Zenon, <1>1 DEF Inserted

\* insertToCursor, deleteToCursor and deleteFromCursor.
LEMMA InsertOK ==
  ASSUME NEW b, BufOK(b), NEW s, NEW how
  PROVE  BufOK(InsertToCursor(b, s, how))
BY Zenon, OtherFields, TrackOK DEF InsertToCursor

\* insertToCursor of a text that fits tracks it as a change of its own.
LEMMA InsertNew ==
  ASSUME NEW b, BufOK(b), NEW s, Fits(b, s)
  PROVE  Inserted(InsertToCursor(b, s, "new"), s)
BY Zenon, OtherFields, TrackNew DEF InsertToCursor

\* deleteToCursor leaves a well-formed list of changes.
LEMMA DeleteToOK ==
  ASSUME NEW b, BufOK(b), NEW n, NEW how
  PROVE  BufOK(DeleteToCursor(b, n, how))
BY Zenon, OtherFields, TrackOK DEF DeleteToCursor

\* deleteFromCursor leaves a well-formed list of changes.
LEMMA DeleteFromOK ==
  ASSUME NEW b, BufOK(b), NEW n, NEW how
  PROVE  BufOK(DeleteFromCursor(b, n, how))
BY Zenon, OtherFields, TrackOK DEF DeleteFromCursor

\* Clearing a merge flag.
LEMMA FlagOK ==
  ASSUME NEW b, BufOK(b), NEW n, NEW x, NEW t, NEW c, NEW i \in 0..Len(b.changes)
  PROVE  /\ BufOK([b EXCEPT !.changes[n] = x])
         /\ BufOK([b EXCEPT !.text = t, !.cursor = c, !.idx = i, !.changes[n] = x])
<1> DEFINE l == [b.changes EXCEPT ![n] = x]
           y == [b EXCEPT !.text = t, !.cursor = c, !.idx = i, !.changes = l]
           z == [b EXCEPT !.changes = l]
<1>1. IsSeq(l) /\ Len(l) = Len(b.changes)
  BY ZenonT(40), ExceptSeqOK DEF BufOK
<1> HIDE DEF l
<1>2. y.changes = l /\ y.idx = i /\ DOMAIN y = DOMAIN b
  BY DEF BufOK
<1>3. z.changes = l /\ z.idx = b.idx /\ DOMAIN z = DOMAIN b
  BY DEF BufOK
<1> HIDE DEF y, z
<1>4. BufOK(y) /\ BufOK(z)
  BY Zenon, <1>1, <1>2, <1>3 DEF BufOK
<1> QED BY <1>4 DEF y, z, l

\* commitLastChange, undo and redo.
LEMMA CommitOK == ASSUME NEW b, BufOK(b) PROVE BufOK(CommitLastChange(b))
<1>1. 0 \in 0..Len(b.changes)
  BY SeqFacts DEF BufOK
<1> QED BY ZenonT(40), <1>1, FlagOK DEF CommitLastChange

\* undo leaves a well-formed list of changes.
LEMMA UndoOK == ASSUME NEW b, BufOK(b) PROVE BufOK(Undo(b))
<1>1. CASE b.idx = 0
  BY Zenon, <1>1 DEF Undo
<1>2. CASE b.idx # 0
  <2>1. b.idx - 1 \in 0..Len(b.changes)
    BY <1>2, SeqFacts DEF BufOK
  <2>2. PICK t, c, x :
          Undo(b) = [b EXCEPT !.text = t, !.cursor = c, !.idx = b.idx - 1, !.changes[b.idx] = x]
    BY Zenon, <1>2 DEF Undo
  <2>3. BufOK([b EXCEPT !.text = t, !.cursor = c, !.idx = b.idx - 1, !.changes[b.idx] = x])
    BY Zenon, <2>1, FlagOK
  <2> QED BY Zenon, <2>2, <2>3
<1> QED BY Zenon, <1>1, <1>2

\* redo leaves a well-formed list of changes.
LEMMA RedoOK == ASSUME NEW b, BufOK(b) PROVE BufOK(Redo(b))
<1>1. CASE b.idx = Len(b.changes)
  BY Zenon, <1>1 DEF Redo
<1>2. CASE b.idx # Len(b.changes)
  <2>1. b.idx + 1 \in 0..Len(b.changes)
    BY SMTT(30), <1>2, SeqFacts DEF BufOK
  <2>2. PICK t, c, x :
          Redo(b) = [b EXCEPT !.text = t, !.cursor = c, !.idx = b.idx + 1,
                              !.changes[b.idx + 1] = x]
    BY Zenon, <1>2 DEF Redo
  <2>3. BufOK([b EXCEPT !.text = t, !.cursor = c, !.idx = b.idx + 1,
                      !.changes[b.idx + 1] = x])
    BY Zenon, <2>1, FlagOK
  <2> QED BY Zenon, <2>2, <2>3
<1> QED BY Zenon, <1>1, <1>2

\* Atomic edits, and their failure.
LEMMA FailAtomicOK == ASSUME NEW b, NEW x, BufOK(x) PROVE BufOK(FailAtomic(b, x))
<1> DEFINE u == Undo(x)
           l == SubSeq(u.changes, 1, u.idx)
           y == [u EXCEPT !.changes = l, !.cursor = b.cursor]
<1>1. FailAtomic(b, x) = y
  BY Zenon DEF FailAtomic
<1>2. BufOK(u)
  BY ZenonT(40), UndoOK
<1> HIDE DEF u
<1>3. IsSeq(l) /\ Len(l) = u.idx /\ u.idx \in Nat /\ u.idx <= MaxChange
  <2>1. IsSeq(u.changes) /\ u.idx \in 0..Len(u.changes) /\ Len(u.changes) <= MaxChange
    BY Zenon, <1>2 DEF BufOK
  <2> QED BY SMTT(30), <2>1, PrefixSeq, SeqFacts, CapacityAssumption
<1> HIDE DEF l
<1>4. y.changes = l /\ y.idx = u.idx /\ DOMAIN y = DOMAIN u
  BY Zenon, <1>2 DEF BufOK
<1> HIDE DEF y
<1>5. BufOK(y)
  BY SMTT(30), <1>2, <1>3, <1>4 DEF BufOK
<1> QED BY Zenon, <1>1, <1>5

\* swapChars, an atomic edit, leaves a well-formed list of changes.
LEMMA SwapOK == ASSUME NEW b, BufOK(b) PROVE BufOK(SwapChars(b))
BY Zenon, OtherFields, InsertOK, DeleteToOK, FailAtomicOK DEF SwapChars, BeginAtomic

\* The replacement of a range, an atomic edit, does so too.
LEMMA ReplaceOK ==
  ASSUME NEW b, BufOK(b), NEW p, NEW q, NEW s
  PROVE  BufOK(ReplaceBytes(b, p, q, s))
BY Zenon, OtherFields, InsertOK, DeleteToOK, FailAtomicOK DEF ReplaceBytes, BeginAtomic

\* Deletions of lines.
LEMMA DeleteLineOK ==
  ASSUME NEW b, BufOK(b), NEW w
  PROVE  /\ BufOK(DeleteLineToCursor(b, w)) /\ BufOK(DeleteLineFromCursor(b))
         /\ BufOK(DeleteAll(b))
BY Zenon, OtherFields, DeleteToOK, DeleteFromOK
DEF DeleteLineToCursor, DeleteLineFromCursor, DeleteAll

\* The movements between lines leave the changes alone.
LEMMA MoveOK == ASSUME NEW b, BufOK(b), NEW up PROVE BufOK(MoveUpDown(b, up))
BY ZenonT(40), OtherFields DEF MoveUpDown

-----------------------------------------------------------------------------
(* Repeated edits *)

\* A set of naturals that is not empty has a least element.
LEMMA NatMin ==
  ASSUME NEW E \in SUBSET Nat, E # {}
  PROVE  \E m \in E : \A n \in E : m <= n
<1> DEFINE T == {0..n : n \in E}
<1>1. T \subseteq FiniteSubsetsOf(Nat)
  <2> SUFFICES ASSUME NEW n \in E PROVE 0..n \in FiniteSubsetsOf(Nat)
    OBVIOUS
  <2>1. IsFiniteSet(0..n)
    BY FS_Interval
  <2> QED BY <2>1 DEF FiniteSubsetsOf
<1>2. T # {}
  BY Zenon
<1>3. IsWellFoundedOn(StrictSubsetOrdering(Nat), FiniteSubsetsOf(Nat))
  BY Zenon, FS_StrictSubsetOrderingWellFounded
<1>4. \E x \in T : \A y \in T : ~(<<y, x>> \in StrictSubsetOrdering(Nat))
  <2> HIDE DEF T
  <2> QED BY Zenon, <1>1, <1>2, <1>3, WFMin
<1>5. PICK m \in E : \A y \in T : ~(<<y, 0..m>> \in StrictSubsetOrdering(Nat))
  BY <1>4
<1>6. \A n \in E : m <= n
  <2> SUFFICES ASSUME NEW n \in E, n < m PROVE FALSE
    OBVIOUS
  <2>1. 0..n \subseteq 0..m /\ 0..n # 0..m
    <3>1. 0..n \subseteq 0..m
      OBVIOUS
    <3>2. m \in 0..m /\ m \notin 0..n
      OBVIOUS
    <3> QED BY Zenon, <3>1, <3>2
  <2>2. <<0..n, 0..m>> \in StrictSubsetOrdering(Nat)
    <3>1. 0..n \in SUBSET Nat /\ 0..m \in SUBSET Nat
      OBVIOUS
    <3> QED BY Zenon, <2>1, <3>1 DEF StrictSubsetOrdering
  <2> QED BY Zenon, <1>5, <2>2
<1> QED BY <1>6

\* Undos can be repeated: a recursive function for UndoTimes.
LEMMA UndoFcn ==
  ASSUME NEW b, NEW N \in Nat
  PROVE  \E f : f = [i \in 0..N |-> IF i = 0 THEN b ELSE Undo(f[i - 1])]
<1> DEFINE Is(f, n) == f = [i \in 0..n |-> IF i = 0 THEN b ELSE Undo(f[i - 1])]
           E == {n \in Nat : ~\E f : Is(f, n)}
<1>1. SUFFICES ASSUME E # {} PROVE FALSE
  BY Zenon
<1>2. PICK m \in E : \A n \in E : m <= n
  <2>1. E \in SUBSET Nat
    BY Zenon
  <2> HIDE DEF E
  <2> QED BY Zenon, <1>1, <2>1, NatMin
<1>3. m \in Nat /\ ~\E f : Is(f, m)
  BY Zenon
<1>4. m # 0
  <2>1. ASSUME m = 0 PROVE Is([i \in 0..m |-> b], m)
    BY <2>1
  <2> QED BY ZenonT(40), <1>3, <2>1
<1>5. m - 1 \in Nat /\ m - 1 \notin E
  BY SMTT(30), <1>2, <1>3, <1>4
<1>6. PICK f : Is(f, m - 1)
  BY ZenonT(40), <1>5
<1> DEFINE g == [i \in 0..m |-> IF i = m THEN Undo(f[m - 1]) ELSE f[i]]
<1>7. Is(g, m)
  <2>1. \A i \in 0..m : g[i] = IF i = m THEN Undo(f[m - 1]) ELSE f[i]
    BY Zenon
  <2>2. \A i \in 0..(m - 1) : f[i] = IF i = 0 THEN b ELSE Undo(f[i - 1])
    BY Zenon, <1>6
  <2>3. ASSUME NEW i \in 0..m PROVE g[i] = IF i = 0 THEN b ELSE Undo(g[i - 1])
    <3>1. CASE i = m
      <4>1. g[m] = Undo(f[m - 1]) /\ g[m - 1] = f[m - 1]
        BY SMTT(30), <1>3, <1>4, <2>1
      <4> HIDE DEF g
      <4> QED BY Zenon, <1>4, <3>1, <4>1
    <3>2. CASE i # m /\ i # 0
      <4>1. g[i] = f[i] /\ g[i - 1] = f[i - 1] /\ i \in 0..(m - 1)
        BY SMTT(30), <1>3, <3>2, <2>1
      <4> HIDE DEF g
      <4> QED BY Zenon, <2>2, <3>2, <4>1
    <3>3. CASE i = 0
      <4>1. g[i] = f[i] /\ i \in 0..(m - 1)
        BY SMTT(30), <1>3, <1>4, <3>3, <2>1
      <4> HIDE DEF g
      <4> QED BY Zenon, <2>2, <3>3, <4>1
    <3> QED BY Zenon, <3>1, <3>2, <3>3
  <2>4. g = [i \in 0..m |-> g[i]]
    BY Zenon
  <2> HIDE DEF g
  <2> QED BY Zenon, <2>3, <2>4
<1> QED BY Zenon, <1>3, <1>7

\* The buffers after each of the first n characters of a paste.
Typed(f, b, s, n) == f = [i \in 0..n |-> IF i = 0 THEN b ELSE InsertOne(f[i - 1], s[i])]

\* Insertions can be repeated: a recursive function for InsertEach.
LEMMA InsertFcn ==
  ASSUME NEW b, NEW N \in Nat, NEW s
  PROVE  \E f : Typed(f, b, s, N)
<1> USE DEF Typed
<1> DEFINE Is(f, n) == Typed(f, b, s, n)
           E == {n \in Nat : ~\E f : Is(f, n)}
<1>1. SUFFICES ASSUME E # {} PROVE FALSE
  BY Zenon
<1>2. PICK m \in E : \A k \in E : m <= k
  <2>1. E \in SUBSET Nat
    BY Zenon
  <2> HIDE DEF E
  <2> QED BY Zenon, <1>1, <2>1, NatMin
<1>3. m \in Nat /\ ~\E f : Is(f, m)
  BY Zenon
<1>4. m # 0
  <2>1. ASSUME m = 0 PROVE Is([i \in 0..m |-> b], m)
    BY <2>1
  <2> QED BY Zenon, <1>3, <2>1
<1>5. m - 1 \in Nat /\ m - 1 \notin E
  <2> HIDE DEF E
  <2> QED BY SMTT(30), <1>2, <1>3, <1>4
<1>6. PICK f : Is(f, m - 1)
  BY Zenon, <1>5
<1> DEFINE g == [i \in 0..m |-> IF i = m THEN InsertOne(f[m - 1], s[m]) ELSE f[i]]
<1>7. Is(g, m)
  <2>1. \A i \in 0..m : g[i] = IF i = m THEN InsertOne(f[m - 1], s[m]) ELSE f[i]
    BY Zenon
  <2>2. \A i \in 0..(m - 1) : f[i] = IF i = 0 THEN b ELSE InsertOne(f[i - 1], s[i])
    BY Zenon, <1>6
  <2>3. ASSUME NEW i \in 0..m PROVE g[i] = IF i = 0 THEN b ELSE InsertOne(g[i - 1], s[i])
    <3>1. CASE i = m
      <4>1. g[m] = InsertOne(f[m - 1], s[m]) /\ g[m - 1] = f[m - 1]
        <5>1. m \in 0..m /\ m - 1 \in 0..m /\ m - 1 # m
          BY SMTT(30), <1>3, <1>4
        <5> QED BY Zenon, <2>1, <5>1
      <4> HIDE DEF g
      <4> QED BY Zenon, <1>4, <3>1, <4>1
    <3>2. CASE i # m /\ i # 0
      <4>1. i \in 0..(m - 1) /\ i - 1 \in 0..m /\ i - 1 # m
        BY <1>3, <3>2
      <4>2. g[i] = f[i] /\ g[i - 1] = f[i - 1]
        BY Zenon, <2>1, <3>2, <4>1
      <4> HIDE DEF g
      <4> QED BY Zenon, <2>2, <3>2, <4>1, <4>2
    <3>3. CASE i = 0
      <4>1. g[i] = f[i] /\ i \in 0..(m - 1)
        BY SMTT(30), <1>3, <1>4, <3>3, <2>1
      <4> HIDE DEF g
      <4> QED BY Zenon, <2>2, <3>3, <4>1
    <3> QED BY Zenon, <3>1, <3>2, <3>3
  <2>4. g = [i \in 0..m |-> g[i]]
    BY Zenon
  <2> HIDE DEF g
  <2> QED BY Zenon, <2>3, <2>4
<1> QED BY Zenon, <1>3, <1>7

\* The undos that revert the pager.
LEMMA UndoTimesOK ==
  ASSUME NEW b, BufOK(b), NEW n \in Nat
  PROVE  BufOK(UndoTimes(b, n))
<1> DEFINE F == CHOOSE f : f = [i \in 0..n |-> IF i = 0 THEN b ELSE Undo(f[i - 1])]
           E == {i \in 0..n : ~BufOK(F[i])}
<1>1. F = [i \in 0..n |-> IF i = 0 THEN b ELSE Undo(F[i - 1])]
  <2>1. \E f : f = [i \in 0..n |-> IF i = 0 THEN b ELSE Undo(f[i - 1])]
    BY Zenon, UndoFcn
  <2> QED BY Zenon, <2>1
<1>2. UndoTimes(b, n) = F[n]
  BY Zenon DEF UndoTimes
<1> HIDE DEF F
<1>3. SUFFICES ASSUME E # {} PROVE FALSE
  <2>1. n \in 0..n
    OBVIOUS
  <2> QED BY Zenon, <1>2, <2>1
<1>4. PICK m \in E : \A k \in E : m <= k
  <2>1. E \in SUBSET Nat
    OBVIOUS
  <2> HIDE DEF E
  <2> QED BY Zenon, <1>3, <2>1, NatMin
<1>5. m \in 0..n /\ ~BufOK(F[m]) /\ F[m] = IF m = 0 THEN b ELSE Undo(F[m - 1])
  BY Zenon, <1>1, <1>4
<1>6. m # 0 => m - 1 \in 0..n /\ m - 1 \notin E
  BY <1>4
<1>7. m # 0 => BufOK(F[m - 1])
  BY Zenon, <1>6
<1> QED BY Zenon, <1>5, <1>7, UndoOK

\* The insertions of a paste.
LEMMA InsertEachOK ==
  ASSUME NEW b, BufOK(b), NEW s, Len(s) \in Nat
  PROVE  BufOK(InsertEach(b, s))
<1> DEFINE F == CHOOSE f : f = [i \in 0..Len(s) |-> IF i = 0 THEN b ELSE InsertOne(f[i - 1], s[i])]
           E == {i \in 0..Len(s) : ~BufOK(F[i])}
<1>1. F = [i \in 0..Len(s) |-> IF i = 0 THEN b ELSE InsertOne(F[i - 1], s[i])]
  <2>1. \E f : Typed(f, b, s, Len(s))
    BY Zenon, InsertFcn
  <2>2. Typed(F, b, s, Len(s))
    BY Zenon, <2>1 DEF Typed
  <2> QED BY Zenon, <2>2 DEF Typed
<1>2. InsertEach(b, s) = F[Len(s)]
  BY Zenon DEF InsertEach
<1> HIDE DEF F
<1>3. SUFFICES ASSUME E # {} PROVE FALSE
  <2>1. Len(s) \in 0..Len(s)
    OBVIOUS
  <2> QED BY Zenon, <1>2, <2>1
<1>4. PICK m \in E : \A k \in E : m <= k
  <2>1. E \in SUBSET Nat
    OBVIOUS
  <2> HIDE DEF E
  <2> QED BY Zenon, <1>3, <2>1, NatMin
<1>5. m \in 0..Len(s) /\ ~BufOK(F[m]) /\ F[m] = IF m = 0 THEN b ELSE InsertOne(F[m - 1], s[m])
  BY Zenon, <1>1, <1>4
<1>6. m # 0 => m - 1 \in 0..Len(s) /\ m - 1 \notin E
  BY <1>4
<1>7. m # 0 => BufOK(F[m - 1])
  BY Zenon, <1>6
<1> QED BY Zenon, <1>5, <1>7, InsertOK DEF InsertOne

-----------------------------------------------------------------------------
(* The change that a rotation undoes *)

\* The list of changes and the kill ring keep their capacities, with their
\* indices inside.
RingsBounded ==
  /\ line.idx \in 0..Len(line.changes) /\ Len(line.changes) <= MaxChange
  /\ Len(kill) <= MaxKill /\ ki \in 0..Len(kill)

\* The history rotates in the loop only, never in the pager.
RotateInv ==
  /\ BufOK(line)
  /\ IsSeq(kill) /\ Len(kill) <= MaxKill /\ ki \in 0..Len(kill)
  /\ "undoCount" \in DOMAIN comp /\ comp.undoCount \in Nat
  /\ rotating => mode = "edit"
  /\ rotating => Inserted(line, hist.list[Slot(hist, hist.index)])

\* A key that leaves the kill ring alone and ends a rotation.
Calm ==
  /\ BufOK(line') /\ rotating' = FALSE /\ UNCHANGED <<kill, ki>>
  /\ comp' \in {comp, NoComp}

\* Such a step keeps the invariant of the rotation.
LEMMA CalmInv == ASSUME RotateInv, Calm PROVE RotateInv'
<1>1. "undoCount" \in DOMAIN NoComp /\ NoComp.undoCount \in Nat
  BY DEF NoComp
<1> QED BY Zenon, <1>1 DEF RotateInv, Calm

\* An edit is such a step.
LEMMA EditedCalm == ASSUME NEW b, BufOK(b), Edited(b) PROVE Calm
BY Zenon, SyncOK DEF Edited, Calm

\* A key that fails is such a step.
LEMMA FailCalm == ASSUME NEW b, BufOK(b), Fail(b) PROVE Calm
BY Zenon DEF Fail, Calm

\* So is accepting the line.
LEMMA AcceptCalm == ASSUME NEW x, BufOK(x), AcceptLine(x) PROVE Calm
BY Zenon DEF AcceptLine, Calm

\* tryToExpandAbbreviation.
LEMMA ExpandedOK == ASSUME NEW b, BufOK(b), NEW x \in Expanded(b) PROVE BufOK(x)
<1>1. x = b \/ \E p, q, s : x = ReplaceBytes(b, p, q, s)
  BY Zenon DEF Expanded
<1> QED BY Zenon, <1>1, ReplaceOK

\* Characters, pastes, and the end of readline.
LEMMA InsertingCalm ==
  ASSUME BufOK(line),
         \/ \E c \in Chars \cup {Space, Newline} : InsertChar(c)
         \/ \E s \in Pastes : Paste(s)
         \/ Accept \/ Quit
  PROVE  Calm
<1>1. ASSUME NEW c, InsertChar(c) PROVE Calm
  <2> DEFINE b == InsertToCursor(line, <<c>>, IF c \in Chars THEN "merge" ELSE "new")
  <2>1. BufOK(b)
    BY Zenon, InsertOK
  <2> HIDE DEF b
  <2>2. Fail(line) \/ \E x \in {b} \cup Expanded(b) : Edited(x)
    BY Zenon, <1>1 DEF InsertChar, b
  <2> QED BY Zenon, <2>1, <2>2, ExpandedOK, FailCalm, EditedCalm
<1>2. ASSUME NEW s \in Pastes, Paste(s) PROVE Calm
  <2> DEFINE b == InsertEach(CommitLastChange(line), s)
             x == SyncNewlinePosList(CommitLastChange(b))
  <2>1. Len(s) \in Nat
    BY PasteAssumption
  <2>2. BufOK(x)
    BY Zenon, <2>1, CommitOK, InsertEachOK, SyncOK
  <2>3. Edited(x) \/ Fail(x)
    BY Zenon, <1>2 DEF Paste
  <2> HIDE DEF x
  <2> QED BY Zenon, <2>2, <2>3, FailCalm, EditedCalm
<1>3. ASSUME Accept PROVE Calm
  <2> DEFINE b == [line EXCEPT !.cursor = UsedSize(line)]
  <2>1. BufOK(b)
    BY Zenon, OtherFields
  <2> HIDE DEF b
  <2>2. PICK x \in Expanded(b) : AcceptLine(SyncNewlinePosList(x))
    BY Zenon, <1>3 DEF Accept, b
  <2> QED BY Zenon, <2>1, <2>2, ExpandedOK, SyncOK, AcceptCalm
<1>4. ASSUME Quit PROVE Calm
  BY Zenon, <1>4, FailCalm DEF Quit
<1> QED BY Zenon, <1>1, <1>2, <1>3, <1>4

\* Deletions, movements, undo and redo, and the callbacks of the user.
LEMMA EditingCalm ==
  ASSUME BufOK(line),
         \/ BackwardDeleteChar \/ DeleteChar \/ TransposeChar
         \/ \E n \in 0..BufSize : MoveTo(n)
         \/ BeginningOfLine \/ EndOfLineKey
         \/ UndoKey \/ RedoKey
         \/ \E up \in BOOLEAN : UpDown(up)
  PROVE  Calm
<1>1. ASSUME BackwardDeleteChar \/ DeleteChar \/ TransposeChar \/ UndoKey \/ RedoKey
             \/ \E up \in BOOLEAN : UpDown(up)
      PROVE  Calm
  <2>1. \E b : BufOK(b) /\ Edited(b)
    BY Zenon, <1>1, DeleteToOK, DeleteFromOK, SwapOK, UndoOK, RedoOK, MoveOK
    DEF BackwardDeleteChar, DeleteChar, TransposeChar, UndoKey, RedoKey, UpDown
  <2> QED BY Zenon, <2>1, EditedCalm
<1>2. ASSUME EndOfLineKey \/ BeginningOfLine \/ \E n : MoveTo(n) PROVE Calm
  <2>1. /\ \E n : line' = [line EXCEPT !.cursor = n]
        /\ rotating' = FALSE /\ UNCHANGED <<kill, ki, comp>>
    BY Zenon, <1>2 DEF EndOfLineKey, BeginningOfLine, MoveTo
  <2>2. PICK n : line' = [line EXCEPT !.cursor = n]
    BY Zenon, <2>1
  <2>3. BufOK([line EXCEPT !.cursor = n])
    BY Zenon, OtherFields
  <2> QED BY Zenon, <2>1, <2>2, <2>3 DEF Calm
<1> QED BY Zenon, <1>1, <1>2

\* So is a custom action of the user.
LEMMA CustomCalm ==
  ASSUME BufOK(line), NEW type \in {"whole", "line", "insert"}, NEW s, Custom(type, s)
  PROVE  Calm
<1> DEFINE b == CASE type = "whole" -> DeleteAll(line)
                  [] type = "line"  -> DeleteLineToCursor(line, TRUE)
                  [] type = "insert" -> line
           x == SyncNewlinePosList(InsertToCursor(b, s, "new"))
<1>1. BufOK(b)
  <2>1. b \in {DeleteAll(line), DeleteLineToCursor(line, TRUE), line}
    BY Zenon
  <2> QED BY Zenon, <2>1, DeleteLineOK
<1>2. Edited(x) \/ Edited(line) \/ AcceptLine([x EXCEPT !.cursor = UsedSize(x)])
  BY Zenon DEF Custom
<1> HIDE DEF b
<1>3. BufOK(x)
  BY Zenon, <1>1, InsertOK, SyncOK
<1> HIDE DEF x
<1>4. BufOK([x EXCEPT !.cursor = UsedSize(x)])
  BY Zenon, <1>3, OtherFields
<1> QED BY Zenon, <1>2, <1>3, <1>4, EditedCalm, AcceptCalm

\* Kills: the kill ring keeps its capacity.
LEMMA KillKeys ==
  ASSUME RotateInv,
         \/ BackwardKillLine \/ KillLine
         \/ \E n \in 1..BufSize : BackwardKillWord(n) \/ KillWord(n)
  PROVE  RotateInv'
<1>1. BufOK(line) /\ IsSeq(kill) /\ Len(kill) <= MaxKill /\ ki \in 0..Len(kill)
  BY Zenon DEF RotateInv
<1>2. PICK b, s : BufOK(b) /\ Kill(b, s)
  BY Zenon, <1>1, DeleteLineOK, DeleteToOK, DeleteFromOK
  DEF BackwardKillLine, KillLine, BackwardKillWord, KillWord
<1>3. /\ kill' = KillAdd(kill, s) /\ BufOK(line') /\ rotating' = FALSE
      /\ UNCHANGED <<ki, comp, mode>>
  BY Zenon, <1>2, SyncOK DEF Kill
<1>4. IsSeq(kill') /\ Len(kill') <= MaxKill /\ ki \in 0..Len(kill')
  <2>1. CASE kill' = kill
    BY Zenon, <1>1, <2>1
  <2>2. CASE kill' = PushBack(kill, s, MaxKill)
    <3>1. IsSeq(kill') /\ Len(kill') \in 1..MaxKill
      BY Zenon, <1>1, <2>2, PushBackSeq, CapacityAssumption
    <3>2. Len(kill) <= Len(kill')
      <4>1. Len(Append(kill, s)) = Len(kill) + 1 /\ IsSeq(Append(kill, s)) /\ Len(kill) \in Nat
        BY Zenon, <1>1, AppendSeq, SeqFacts
      <4>2. CASE Len(Append(kill, s)) > MaxKill
        BY SMTT(30), <2>2, <4>1, <4>2, TailSeq DEF PushBack
      <4>3. CASE ~(Len(Append(kill, s)) > MaxKill)
        BY SMTT(30), <2>2, <4>1, <4>3 DEF PushBack
      <4> QED BY SMTT(30), <4>2, <4>3
    <3>3. Len(kill) \in Nat
      BY <1>1, SeqFacts
    <3> QED BY SMTT(30), <1>1, <3>1, <3>2, <3>3, CapacityAssumption
  <2> QED BY Zenon, <1>3, <2>1, <2>2 DEF KillAdd
<1> QED BY Zenon, <1>3, <1>4 DEF RotateInv

\* Yanks: the index of the kill ring stays inside.
LEMMA YankKeys == ASSUME RotateInv, Yank \/ YankPop PROVE RotateInv'
<1>1. BufOK(line) /\ IsSeq(kill) /\ ki \in 0..Len(kill) /\ Len(kill) \in Nat
  BY SeqFacts DEF RotateInv
<1>2. Len(kill) \in 0..Len(kill) /\ KillRotate(kill, ki) \in 0..Len(kill)
  BY <1>1 DEF KillRotate
<1>3. PICK b, n : BufOK(b) /\ n \in 0..Len(kill) /\ Insert(b, n)
  BY Zenon, <1>1, <1>2, UndoOK DEF Yank, YankPop
<1>4. /\ ki' = n /\ rotating' = FALSE /\ BufOK(line') /\ UNCHANGED <<kill, comp>>
  BY Zenon, <1>3, InsertOK, SyncOK DEF Insert
<1> QED BY Zenon, <1>3, <1>4 DEF RotateInv

\* rotateHistory: the entry is inserted as a change of its own, so that the next
\* rotation can undo it.
LEMMA RotateKeys ==
  ASSUME RotateInv, NEW op, NEW multi, RotateHistory(op, multi)
  PROVE  RotateInv'
<1>1. BufOK(line) /\ mode' = "edit" /\ UNCHANGED <<kill, ki, comp>>
  BY Zenon DEF RotateInv, RotateHistory, Key
<1> DEFINE b == Emptied(multi)
<1>2. BufOK(b)
  BY Zenon, <1>1, UndoOK, DeleteLineOK DEF Emptied
<1> HIDE DEF b
<1>3. CASE CanRotate(hist, op)
  <2> DEFINE h == Rotate(hist, op, CurLine(line))
             e == h.list[Slot(h, h.index)]
             x == InsertToCursor(b, e, "new")
  <2>1. /\ hist' = h /\ rotating' = Fits(b, e)
        /\ line' = IF Fits(b, e) THEN SyncNewlinePosList(x) ELSE b
    BY Zenon, <1>3 DEF RotateHistory, b
  <2> HIDE DEF h, e
  <2>2. BufOK(x) /\ (Fits(b, e) => Inserted(x, e))
    BY Zenon, <1>2, InsertOK, InsertNew
  <2> HIDE DEF x
  <2>3. BufOK(line') /\ (rotating' => Inserted(line', e))
    BY Zenon, <1>2, <2>1, <2>2, SyncOK, SyncInserted
  <2>4. e = hist'.list[Slot(hist', hist'.index)]
    BY Zenon, <2>1 DEF e
  <2> QED BY Zenon, <1>1, <2>3, <2>4 DEF RotateInv, Slot
<1>4. CASE ~CanRotate(hist, op)
  <2>1. rotating' = FALSE /\ line' = line
    BY Zenon, <1>4 DEF RotateHistory
  <2> QED BY Zenon, <1>1, <2>1 DEF RotateInv
<1> QED BY <1>3, <1>4

\* insertCandidate.
LEMMA CandidateOK ==
  ASSUME NEW b, BufOK(b), NEW s, NEW suffix
  PROVE  BufOK(InsertCandidate(b, s, suffix))
BY Zenon, InsertOK, CommitOK DEF InsertCandidate

\* completeLine: the undos that revert the pager are counted.
LEMMA CompleteKeys == ASSUME RotateInv, NEW c, Complete(c) PROVE RotateInv'
<1> DEFINE trimmed == c.trim > 0
           b == IF trimmed
                THEN DeleteToCursor(CommitLastChange(line), Min({c.trim, line.cursor}), "new")
                ELSE CommitLastChange(line)
           common == IF c.items = << >> THEN << >> ELSE CommonPrefix(c.items)
           offset == IF trimmed THEN b.cursor ELSE ResolveOffset(b, common)
           inserting == IF trimmed \/ Len(c.items) = 1 \/ offset < b.cursor
                        THEN SubSeq(common, b.cursor - offset + 1, Len(common)) ELSE << >>
<1>1. BufOK(line)
  BY Zenon DEF RotateInv
<1>2. BufOK(b)
  BY Zenon, <1>1, CommitOK, DeleteToOK
<1> HIDE DEF b
<1>3. /\ rotating' = FALSE /\ UNCHANGED <<kill, ki>>
      /\ \/ line' = b
         \/ \E i, x : \/ line' = InsertCandidate(b, i, x)
                      \/ line' = SyncNewlinePosList(InsertCandidate(b, i, x))
  BY Zenon DEF Complete, b
<1>4. \/ comp' \in {comp, NoComp}
      \/ comp' = [items     |-> c.items, offset |-> offset, oldSize |-> 0,
                  undoCount |-> (IF trimmed THEN 1 ELSE 0)
                                + (IF inserting # << >> THEN 1 ELSE 0),
                  cur       |-> 0, start |-> line.text]
  BY Zenon DEF Complete, b
<1> HIDE DEF common, offset, inserting
<1>5. BufOK(line')
  BY Zenon, <1>2, <1>3, CandidateOK, SyncOK
<1>6. "undoCount" \in DOMAIN comp' /\ comp'.undoCount \in Nat
  <2>1. CASE comp' \in {comp, NoComp}
    <3>1. "undoCount" \in DOMAIN NoComp /\ NoComp.undoCount \in Nat
      BY DEF NoComp
    <3> QED BY Zenon, <2>1, <3>1 DEF RotateInv
  <2>2. CASE comp' \notin {comp, NoComp}
    BY <1>4, <2>2
  <2> QED BY <2>1, <2>2
<1> QED BY Zenon, <1>3, <1>5, <1>6 DEF RotateInv

\* One round of the pager.
LEMMA ShowKeys ==
  ASSUME RotateInv, mode # "edit", NEW c, NEW n, ShowItem(c, n),
         "undoCount" \in DOMAIN c, c.undoCount \in Nat
  PROVE  RotateInv'
<1> DEFINE b == IF c.oldSize # UsedSize(line) THEN Undo(line) ELSE line
<1>1. BufOK(line) /\ ~rotating
  BY Zenon DEF RotateInv
<1>2. BufOK(b)
  BY Zenon, <1>1, UndoOK
<1> HIDE DEF b
<1>3. \E s, x : LET y == InsertCandidate(b, s, x)
                IN  \/ Fail(y)
                    \/ /\ line' = SyncNewlinePosList(y) /\ comp' = [c EXCEPT !.cur = n]
                       /\ UNCHANGED <<kill, ki, rotating>>
  BY Zenon DEF ShowItem, b
<1>4. PICK y : /\ BufOK(y)
               /\ \/ Fail(y)
                  \/ /\ line' = SyncNewlinePosList(y) /\ comp' = [c EXCEPT !.cur = n]
                     /\ UNCHANGED <<kill, ki, rotating>>
  BY Zenon, <1>2, <1>3, CandidateOK
<1>5. CASE Fail(y)
  BY Zenon, <1>4, <1>5, FailCalm, CalmInv
<1>6. CASE /\ line' = SyncNewlinePosList(y) /\ comp' = [c EXCEPT !.cur = n]
           /\ UNCHANGED <<kill, ki, rotating>>
  <2>1. "undoCount" \in DOMAIN comp' /\ comp'.undoCount \in Nat
    BY <1>6
  <2>2. BufOK(line')
    BY Zenon, <1>4, <1>6, SyncOK
  <2> QED BY ZenonT(40), <1>1, <1>6, <2>1, <2>2 DEF RotateInv
<1> QED BY Zenon, <1>4, <1>5, <1>6

\* The keys of the pager, which is not shown while the history rotates.
LEMMA PagerInv == ASSUME RotateInv, PagerKey PROVE RotateInv'
<1>1. /\ BufOK(line) /\ (rotating => mode = "edit")
      /\ "undoCount" \in DOMAIN comp /\ comp.undoCount \in Nat
  BY Zenon DEF RotateInv
<1>2. ASSUME NEW n, StartPager(n) PROVE RotateInv'
  <2> DEFINE c == [comp EXCEPT !.undoCount = @ + 1, !.oldSize = UsedSize(line)]
  <2>1. mode # "edit" /\ ShowItem(c, n)
    BY Zenon, <1>2 DEF StartPager, Key
  <2>2. "undoCount" \in DOMAIN c /\ c.undoCount \in Nat
    BY <1>1
  <2> HIDE DEF c
  <2> QED BY Zenon, <2>1, <2>2, ShowKeys
<1>3. ASSUME NEW n, MovePager(n) PROVE RotateInv'
  <2>1. mode # "edit" /\ ShowItem(comp, n)
    BY Zenon, <1>3 DEF MovePager, Key
  <2> QED BY Zenon, <1>1, <2>1, ShowKeys
<1>4. ASSUME LeavePager \/ RevertPager PROVE RotateInv'
  <2>1. ~rotating /\ UNCHANGED <<kill, ki, rotating>> /\ comp' = NoComp
    BY Zenon, <1>1, <1>4 DEF LeavePager, RevertPager, Key
  <2>2. BufOK(line')
    <3>1. line' = line \/ line' = SyncNewlinePosList(UndoTimes(line, comp.undoCount))
      BY Zenon, <1>4 DEF LeavePager, RevertPager
    <3> QED BY Zenon, <1>1, <3>1, UndoTimesOK, SyncOK
  <2>3. "undoCount" \in DOMAIN NoComp /\ NoComp.undoCount \in Nat
    BY DEF NoComp
  <2> QED BY Zenon, <2>1, <2>2, <2>3 DEF RotateInv
<1> QED BY Zenon, <1>2, <1>3, <1>4 DEF PagerKey

\* readline starts with an empty buffer.
LEMMA InitRotate == Init => RotateInv
<1> SUFFICES ASSUME Init PROVE RotateInv
  OBVIOUS
<1>1. << >> = [n \in 1..0 |-> << >>[n]] /\ 0 \in Nat
  OBVIOUS
<1>2. IsSeq(<< >>) /\ Len(<< >>) = 0
  BY Zenon, <1>1, FcnSeq
<1>3. line = EmptyBuffer /\ kill = << >> /\ ki = 0 /\ rotating = FALSE /\ comp = NoComp
  BY Zenon DEF Init
<1>4. BufOK(line)
  BY SMTT(30), <1>2, <1>3, CapacityAssumption DEF BufOK, EmptyBuffer
<1>5. IsSeq(kill) /\ Len(kill) <= MaxKill /\ ki \in 0..Len(kill)
  BY SMTT(30), <1>2, <1>3, CapacityAssumption
<1>6. "undoCount" \in DOMAIN comp /\ comp.undoCount \in Nat
  BY Zenon, <1>3 DEF NoComp
<1> QED BY Zenon, <1>3, <1>4, <1>5, <1>6 DEF RotateInv

\* A key of any kind.
LEMMA NextRotate == RotateInv /\ [NextAny]_vars => RotateInv'
<1> SUFFICES ASSUME RotateInv, [NextAny]_vars PROVE RotateInv'
  OBVIOUS
<1>1. BufOK(line)
  BY Zenon DEF RotateInv
<1>2. CASE EditKey
  BY Zenon, <1>1, <1>2, InsertingCalm, EditingCalm, CustomCalm, CalmInv, KillKeys, YankKeys
  DEF EditKey
<1>3. CASE PagerKey
  BY Zenon, <1>3, PagerInv
<1>4. CASE \E op \in {"PREV", "NEXT"}, multi \in BOOLEAN : RotateHistory(op, multi)
  BY Zenon, <1>4, RotateKeys
<1>5. CASE \E c \in Completions : Complete(c)
  BY Zenon, <1>5, CompleteKeys
<1>6. CASE UNCHANGED vars
  BY Zenon, <1>6 DEF vars, RotateInv, BufOK, Inserted, Slot, IsSeq
<1> QED BY Zenon, <1>2, <1>3, <1>4, <1>5, <1>6 DEF NextAny

\* The invariant is what the undo of the next rotation needs.
LEMMA RotateInvImplies == RotateInv => RotatingUndoable /\ RingsBounded
BY Zenon DEF RotateInv, RotatingUndoable, Inserted, RingsBounded, BufOK

\* While the history is rotating, the last change is the insertion of the current
\* entry, whatever was merged, chained or evicted before and also when entries do
\* not fit: the undo at line_editor.cpp:530 takes back that entry and no more.
THEOREM RotationUndoable == SpecAny => []RotatingUndoable
BY InitRotate, NextRotate, RotateInvImplies, PTL DEF SpecAny

\* The same when every entry fits the buffer.
THEOREM RotationUndoableFitting == Spec => []RotatingUndoable
BY InitRotate, NextRotate, NextIsAny, RotateInvImplies, PTL DEF Spec

\* The rings of line_buffer.h never exceed their capacities, and changeIndex and
\* rotateIndex stay inside them, over undo, redo, failed atomic edits and evictions.
THEOREM RingsInBounds == SpecAny => []RingsBounded
BY InitRotate, NextRotate, RotateInvImplies, PTL DEF SpecAny

=============================================================================

----------------------------- MODULE LineBuffer -----------------------------
(***************************************************************************)
(* LineBuffer and KillRing (src/src/line_buffer.{h,cpp}), the text being   *)
(* edited with its list of changes, and the atomic edits of line_editor.cpp*)
(* and token_edit.cpp.                                                     *)
(*                                                                         *)
(* A buffer is a record b: text (a sequence of characters), cursor,        *)
(* nl (newlinePosList), changes (a RingBuffer) and idx (changeIndex).  A   *)
(* change is its merge flag and the chain of single changes from the       *)
(* latest to the earliest (Change::prev).  Each method is an operator from *)
(* buffers to buffers.  A grapheme is one character.                       *)
(***************************************************************************)
EXTENDS Naturals, Sequences, FiniteSets, SequencesExt

CONSTANTS
  BufSize,     \* bufSize
  MaxChange,   \* capacity of the list of changes (RingBuffer(10): 15)
  MaxKill,     \* capacity of the kill ring
  Newline      \* the newline character

ASSUME CapacityAssumption == MaxChange \in Nat \ {0} /\ MaxKill \in Nat \ {0}

EmptyBuffer == [text |-> << >>, cursor |-> 0, nl |-> << >>, changes |-> << >>, idx |-> 0]

UsedSize(b) == Len(b.text)

\* The text with the characters from position p up to q replaced by s.
Splice(t, p, q, s) == SubSeq(t, 1, p) \o s \o SubSeq(t, q + 1, Len(t))

\* RingBuffer::push_back: the oldest element is dropped when it is full.
PushBack(r, x, max) == LET s == Append(r, x) IN IF Len(s) > max THEN Tail(s) ELSE s

SyncNewlinePosList(b) ==
  [b EXCEPT !.nl = SelectSeq([n \in DOMAIN b.text |-> n - 1], LAMBDA p : b.text[p + 1] = Newline)]

\* Change::tryMerge of a new change into the last one.
CanMerge(last, new) ==
  LET c == Head(last.chain)
      o == Head(new.chain)
  IN  /\ last.merge /\ new.merge
      /\ c.op = o.op
      /\ CASE o.op = "INSERT"      -> c.cursor + Len(o.delta) = o.cursor
           [] o.op = "DELETE_TO"   -> c.cursor = o.cursor + Len(o.delta)
           [] o.op = "DELETE_FROM" -> c.cursor = o.cursor

\* Variant: the deleted texts are joined in the order of the deletions.
MergedForward(last, new) ==
  LET o == Head(new.chain)
  IN  [last EXCEPT !.chain[1].cursor = o.cursor, !.chain[1].delta = @ \o o.delta]

Merged(last, new) ==
  LET c == Head(last.chain)
      o == Head(new.chain)
  IN  [last EXCEPT !.chain[1].cursor = o.cursor,
                   !.chain[1].delta  = IF o.op = "DELETE_TO" THEN o.delta \o c.delta
                                       ELSE c.delta \o o.delta]

\* trackChange, after the edit: how is "merge" or "new" (mergeChange), or
\* "atomic" inside intoAtomicEdit.
TrackChange(b, op, delta, how) ==
  LET done == SubSeq(b.changes, 1, b.idx)
      new  == [merge |-> how = "merge",
               chain |-> << [op |-> op, cursor |-> b.cursor, delta |-> delta] >>]
      last == done[Len(done)]
      rest == SubSeq(done, 1, Len(done) - 1)
      list == IF done = << >> THEN <<new>>
              ELSE IF CanMerge(last, new) THEN Append(rest, Merged(last, new))
              ELSE IF how = "atomic"
              THEN Append(rest, [new EXCEPT !.chain = @ \o last.chain])
              ELSE PushBack(Append(rest, [last EXCEPT !.merge = FALSE]), new, MaxChange)
  IN  [b EXCEPT !.changes = list, !.idx = Len(list)]

Fits(b, s) == UsedSize(b) + Len(s) <= BufSize

InsertToCursor(b, s, how) ==
  IF ~Fits(b, s) THEN b
  ELSE TrackChange([b EXCEPT !.text   = Splice(@, b.cursor, b.cursor, s),
                             !.cursor = @ + Len(s)], "INSERT", s, how)

DeleteToCursor(b, n, how) ==
  IF n = 0 \/ n > b.cursor THEN b
  ELSE TrackChange([b EXCEPT !.text   = Splice(@, b.cursor - n, b.cursor, << >>),
                             !.cursor = @ - n],
                   "DELETE_TO", SubSeq(b.text, b.cursor - n + 1, b.cursor), how)

DeleteFromCursor(b, n, how) ==
  IF n = 0 \/ n > UsedSize(b) - b.cursor THEN b
  ELSE TrackChange([b EXCEPT !.text = Splice(@, b.cursor, b.cursor + n, << >>)],
                   "DELETE_FROM", SubSeq(b.text, b.cursor + 1, b.cursor + n), how)

CommitLastChange(b) == IF b.idx > 0 THEN [b EXCEPT !.changes[b.idx].merge = FALSE] ELSE b

\* undo: the chain from the latest change to the earliest.
Undo(b) ==
  LET Back(x, c) ==
        IF c.op = "INSERT"
        THEN [x EXCEPT !.text   = Splice(@, c.cursor - Len(c.delta), c.cursor, << >>),
                       !.cursor = c.cursor - Len(c.delta)]
        ELSE [x EXCEPT !.text   = Splice(@, c.cursor, c.cursor, c.delta),
                       !.cursor = c.cursor + IF c.op = "DELETE_TO" THEN Len(c.delta) ELSE 0]
      x == FoldLeft(Back, b, b.changes[b.idx].chain)
  IN  IF b.idx = 0 THEN b
      ELSE [b EXCEPT !.text = x.text, !.cursor = x.cursor, !.idx = @ - 1,
                     !.changes[b.idx].merge = FALSE]

\* redo: the chain in the reverse order.
Redo(b) ==
  LET Forth(x, c) ==
        CASE c.op = "INSERT" ->
               [x EXCEPT !.text   = Splice(@, c.cursor - Len(c.delta), c.cursor - Len(c.delta), c.delta),
                         !.cursor = c.cursor]
          [] OTHER ->
               [x EXCEPT !.text   = Splice(@, c.cursor, c.cursor + Len(c.delta), << >>),
                         !.cursor = c.cursor]
      x == FoldLeft(Forth, b, Reverse(b.changes[b.idx + 1].chain))
  IN  IF b.idx = Len(b.changes) THEN b
      ELSE [b EXCEPT !.text = x.text, !.cursor = x.cursor, !.idx = @ + 1,
                     !.changes[b.idx + 1].merge = FALSE]

\* intoAtomicEdit: an empty change to chain the others to.  If the edit fails
\* it is undone and forgotten.
BeginAtomic(b) == InsertToCursor(b, << >>, "new")

FailAtomic(b, x) ==
  LET u == Undo(x) IN [u EXCEPT !.changes = SubSeq(@, 1, u.idx), !.cursor = b.cursor]

\* linenoiseEditSwapChars.
SwapChars(b0) ==
  LET b == IF b0.cursor = UsedSize(b0) THEN [b0 EXCEPT !.cursor = @ - 1] ELSE b0
      x == BeginAtomic(b)
      y == DeleteToCursor(x, 1, "atomic")
  IN  IF b0.cursor = 0 THEN b0
      ELSE IF b.cursor = 0 THEN FailAtomic(b, x)
      ELSE InsertToCursor([y EXCEPT !.cursor = @ + 1], << b.text[b.cursor] >>, "atomic")

\* replaceBytes: the token from p up to q, before the cursor, is replaced.
ReplaceBytes(b, p, q, s) ==
  LET x == [BeginAtomic(b) EXCEPT !.cursor = q]
      y == DeleteToCursor(x, q - p, "atomic")
      z == InsertToCursor(y, s, "atomic")
  IN  IF ~Fits(y, s) THEN FailAtomic(b, y)
      ELSE [z EXCEPT !.cursor = @ + (b.cursor - q)]

\* findCurNewlineIndex.
CurNewlineIndex(b) == Cardinality({n \in DOMAIN b.nl : b.nl[n] < b.cursor})

StartOfLine(b) == LET i == CurNewlineIndex(b) IN IF i = 0 THEN 0 ELSE b.nl[i] + 1

EndOfLine(b) == LET i == CurNewlineIndex(b) IN IF i < Len(b.nl) THEN b.nl[i + 1] ELSE UsedSize(b)

\* getCurLine(true).
CurLine(b) == SubSeq(b.text, StartOfLine(b) + 1, EndOfLine(b))

\* deleteLineToCursor, of the whole line or up to the cursor.
DeleteLineToCursor(b, wholeLine) ==
  LET end == IF wholeLine THEN EndOfLine(b) ELSE b.cursor
  IN  DeleteToCursor([b EXCEPT !.cursor = end], end - StartOfLine(b), "new")

DeleteLineFromCursor(b) == DeleteFromCursor(b, EndOfLine(b) - b.cursor, "new")

DeleteAll(b) == DeleteToCursor([b EXCEPT !.cursor = UsedSize(b)], UsedSize(b), "new")

\* Variant: the column is kept on a shorter line.
MoveUpDownLong(b, up) ==
  LET edge  == IF up THEN StartOfLine(b) ELSE EndOfLine(b)
      dest  == [b EXCEPT !.cursor = IF up THEN edge - 1 ELSE edge + 1]
  IN  IF edge = (IF up THEN 0 ELSE UsedSize(b)) THEN b
      ELSE [b EXCEPT !.cursor = StartOfLine(dest) + (b.cursor - StartOfLine(b))]

\* moveCursorUpDown.
MoveUpDown(b, up) ==
  LET edge  == IF up THEN StartOfLine(b) ELSE EndOfLine(b)
      dest  == [b EXCEPT !.cursor = IF up THEN edge - 1 ELSE edge + 1]
      count == b.cursor - StartOfLine(b)
      len   == EndOfLine(dest) - StartOfLine(dest)
  IN  IF edge = (IF up THEN 0 ELSE UsedSize(b)) THEN b
      ELSE [b EXCEPT !.cursor = StartOfLine(dest) + IF count < len THEN count ELSE len]

\* resolveInsertingSuffix: where the longest suffix of the text before the
\* cursor that the candidate starts with begins (the cursor if there is none).
ResolveOffset(b, prefix) ==
  LET ok == {o \in 0..b.cursor : /\ b.cursor - o <= Len(prefix)
                                 /\ IsPrefix(SubSeq(b.text, o + 1, b.cursor), prefix)}
  IN  CHOOSE o \in ok : \A p \in ok : o <= p

\* KillRing::add and rotate.
KillAdd(ring, s) == IF s = << >> THEN ring ELSE PushBack(ring, s, MaxKill)

KillRotate(ring, i) == IF i > 1 /\ i <= Len(ring) THEN i - 1 ELSE Len(ring)

=============================================================================

----------------------------- MODULE LineEditor -----------------------------
(***************************************************************************)
(* One call of readline: the loop of LineEditorObject::editInRawMode       *)
(* (src/src/line_editor.cpp), one action per key, with the completion      *)
(* pager, the kill ring and the rotation of the history (HistRotator,      *)
(* src/src/pager.cpp).                                                     *)
(*                                                                         *)
(* The words and tokens of the line are left open: a movement or a kill by *)
(* word takes any number of characters, and any word of an abbreviation    *)
(* may be a command.  Callbacks of the user return any of a few texts.     *)
(***************************************************************************)
EXTENDS LineBuffer, FiniteSetsExt

CONSTANTS
  Space,        \* starts a change of its own, and triggers abbreviations
  Chars,        \* the other characters
  Triggers,     \* ... of which these trigger abbreviations
  Pastes,       \* texts pasted, and texts callbacks return
  Abbreviations,\* the map of abbreviations: records of word and text
  Completions,  \* what the completer returns: records of items and trim
  History,      \* the history, the oldest entry first
  MaxHist,      \* SYS_LIMIT_HIST_SIZE
  MaxKeys       \* bound: keys pressed

ASSUME HistoryAssumption == MaxHist \in Nat \ {0} /\ History \in Seq(Range(History))

ASSUME PasteAssumption == \A s \in Pastes : s \in Seq(Range(s))

VARIABLES
  line,     \* ctx.buf
  kill,     \* killRing
  ki,       \* rotateIndex of the kill ring, from 1
  hist,     \* the history with histRotate: list, old (oldEntries), index
  rotating, \* the last key rotated the history
  yanked,   \* yankedSize
  comp,     \* the locals of completeLine, and the text it was called with
  mode,     \* "edit", "first" (pager shown), "page" (pager active), "done"
  key,      \* the last key
  keys,     \* number of keys pressed
  texts     \* the texts that undo and redo lead to from line

vars == <<line, kill, ki, hist, rotating, yanked, comp, mode, key, keys, texts>>

NoComp == [items |-> << >>, offset |-> 0, oldSize |-> 0, undoCount |-> 0, cur |-> 0,
           start |-> << >>]

-----------------------------------------------------------------------------
(* HistRotator *)

\* truncateUntilLimit(true) of the constructor.
Truncated(list) ==
  IF Len(list) + 1 > MaxHist THEN SubSeq(list, Len(list) + 2 - MaxHist, Len(list)) ELSE list

\* The constructor appends an entry for the current line.
NewRotator == [list |-> Append(Truncated(History), << >>), old |-> << >>, index |-> 0]

\* Variant: the edited entries stay.
RevertAllEdited(h) == [list |-> Front(h.list), old |-> << >>, index |-> 0]

\* revertAll: the appended entry is removed and the saved entries are put back.
RevertAll(h) ==
  LET list == Front(h.list)
  IN  [list  |-> [n \in DOMAIN list |-> IF n \in DOMAIN h.old THEN h.old[n] ELSE list[n]],
       old   |-> << >>, index |-> 0]

Slot(h, index) == Len(h.list) - index

CanRotate(h, op) == IF op = "PREV" THEN h.index + 1 < Len(h.list) ELSE h.index > 0

\* rotate: save(bufIndex, curBuf), then the next entry.
Rotate(h, op, curBuf) ==
  LET n == Slot(h, h.index)
  IN  [list  |-> [h.list EXCEPT ![n] = curBuf],
       old   |-> [m \in DOMAIN h.old \cup {n} |-> IF m \in DOMAIN h.old THEN h.old[m] ELSE h.list[n]],
       index |-> IF op = "PREV" THEN h.index + 1 ELSE h.index - 1]

-----------------------------------------------------------------------------
(* The loop *)

Init ==
  /\ line = EmptyBuffer /\ kill = << >> /\ ki = 0 /\ hist = NewRotator
  /\ rotating = FALSE /\ yanked = 0 /\ comp = NoComp
  /\ mode = "edit" /\ key = "none" /\ keys = 0
  /\ texts = [past |-> << >>, future |-> << >>]

\* A key is read.  The flags of the last key are reset, after this key has used
\* them.
Key(m, k) ==
  /\ mode = m
  /\ keys < MaxKeys /\ keys' = keys + 1 /\ key' = k

\* Variant: the next key goes on rotating.
EditedRotating(b) ==
  /\ line' = SyncNewlinePosList(b)
  /\ yanked' = 0
  /\ UNCHANGED <<kill, ki, hist, rotating, comp, mode>>

\* A key that only changes the line, followed by refreshLine.
Edited(b) ==
  /\ line' = SyncNewlinePosList(b)
  /\ rotating' = FALSE /\ yanked' = 0
  /\ UNCHANGED <<kill, ki, hist, comp, mode>>

\* readline returns without a line (or at the end of the input): the destructor
\* of histRotate reverts the history.
Fail(b) ==
  /\ mode' = "done" /\ line' = b /\ hist' = RevertAll(hist)
  /\ rotating' = FALSE /\ yanked' = 0 /\ comp' = NoComp
  /\ UNCHANGED <<kill, ki>>

\* tryToExpandAbbreviation: the command before the last character, or before the
\* cursor, may be an abbreviation.
Expanded(b) ==
  LET ends(a) == {q \in {b.cursor - 1, b.cursor} :
                    /\ b.cursor > 0 /\ q >= Len(a.word)
                    /\ SubSeq(b.text, q - Len(a.word) + 1, q) = a.word}
  IN  {b} \cup UNION {{ReplaceBytes(b, q - Len(a.word), q, a.text) : q \in ends(a)} :
                        a \in Abbreviations}

\* A character, ACCEPT of an unfinished line, NEWLINE, or INSERT_KEYCODE.
InsertChar(c) ==
  /\ Key("edit", "char")
  /\ LET b == InsertToCursor(line, <<c>>, IF c \in Chars THEN "merge" ELSE "new")
     IN  IF ~Fits(line, <<c>>) THEN Fail(line)
         ELSE \E x \in IF c \in Chars \ Triggers THEN {b} ELSE Expanded(b) : Edited(x)

\* A character of a paste; what does not fit is skipped.
InsertOne(b, c) == InsertToCursor(b, <<c>>, "merge")

InsertEach(b, s) ==
  LET typed[n \in 0..Len(s)] == IF n = 0 THEN b ELSE InsertOne(typed[n - 1], s[n])
  IN  typed[Len(s)]

\* A bracketed paste: one that does not fit, or that is cut off by the timeout,
\* ends readline.
Paste(s) ==
  /\ Key("edit", "paste")
  /\ LET b == InsertEach(CommitLastChange(line), s)
         x == SyncNewlinePosList(CommitLastChange(b))
     IN  Fail(x) \/ (Fits(line, s) /\ Edited(x))

\* accept: the history gets the line, unless the acceptor fails.
AcceptLine(x) ==
  /\ mode' = "done" /\ line' = x
  /\ LET h == RevertAll(hist) IN hist' \in {h, [h EXCEPT !.list = Append(@, x.text)]}
  /\ rotating' = FALSE /\ yanked' = 0
  /\ UNCHANGED <<kill, ki, comp>>

Accept ==
  /\ Key("edit", "accept")
  /\ \E x \in Expanded([line EXCEPT !.cursor = UsedSize(line)]) : AcceptLine(SyncNewlinePosList(x))

\* CANCEL, DELETE_OR_EXIT of an empty line, an error of a handler or a callback,
\* or the end of the input.
Quit ==
  /\ mode # "done"
  /\ Key(mode, "quit")
  /\ Fail(line)

BackwardDeleteChar == Key("edit", "backspace") /\ Edited(DeleteToCursor(line, 1, "merge"))

DeleteChar == Key("edit", "delete") /\ Edited(DeleteFromCursor(line, 1, "merge"))

TransposeChar == Key("edit", "transpose") /\ Edited(SwapChars(line))

\* Movements by character, word or token, and to the ends of the buffer.
MoveTo(n) ==
  /\ Key("edit", "move")
  /\ n \in 0..UsedSize(line)
  /\ line' = [line EXCEPT !.cursor = n]
  /\ rotating' = FALSE /\ yanked' = 0
  /\ UNCHANGED <<kill, ki, hist, comp, mode>>

BeginningOfLine == MoveTo(StartOfLine(line))

\* END_OF_LINE; the list of newlines may point behind the text.
EndOfLineKey ==
  /\ Key("edit", "eol")
  /\ line' = [line EXCEPT !.cursor = EndOfLine(line)]
  /\ rotating' = FALSE /\ yanked' = 0
  /\ UNCHANGED <<kill, ki, hist, comp, mode>>

\* BACKWARD_KILL_LINE, KILL_LINE and the kills of n characters (by word or
\* token); nothing is killed if nothing is deleted.
Kill(b, s) ==
  /\ kill' = KillAdd(kill, s)
  /\ line' = SyncNewlinePosList(b)
  /\ rotating' = FALSE /\ yanked' = 0
  /\ UNCHANGED <<ki, hist, comp, mode>>

BackwardKillLine ==
  /\ Key("edit", "killToStart")
  /\ Kill(DeleteLineToCursor(line, FALSE), SubSeq(line.text, StartOfLine(line) + 1, line.cursor))

KillLine ==
  /\ Key("edit", "killToEnd")
  /\ Kill(DeleteLineFromCursor(line), SubSeq(line.text, line.cursor + 1, EndOfLine(line)))

BackwardKillWord(n) ==
  /\ Key("edit", "killBack")
  /\ n \in 1..line.cursor
  /\ Kill(DeleteToCursor(line, n, "new"), SubSeq(line.text, line.cursor - n + 1, line.cursor))

KillWord(n) ==
  /\ Key("edit", "killWord")
  /\ n \in 1..(UsedSize(line) - line.cursor)
  /\ Kill(DeleteFromCursor(line, n, "new"), SubSeq(line.text, line.cursor + 1, line.cursor + n))

\* The text of the kill ring at index n is inserted into b.
Insert(b, n) ==
  /\ ki' = n
  /\ yanked' = Len(kill[n]) /\ rotating' = FALSE
  /\ line' = SyncNewlinePosList(InsertToCursor(b, kill[n], "new"))
  /\ IF Fits(b, kill[n]) THEN UNCHANGED <<mode, hist>>
     ELSE mode' = "done" /\ hist' = RevertAll(hist)
  /\ UNCHANGED <<kill, comp>>

Yank ==
  /\ Key("edit", "yank")
  /\ kill # << >>
  /\ Insert(line, Len(kill))

\* Variant: the yanked text stays.
YankPopInsert ==
  /\ Key("edit", "yankPop")
  /\ yanked > 0
  /\ Insert(line, KillRotate(kill, ki))

YankPop ==
  /\ Key("edit", "yankPop")
  /\ yanked > 0
  /\ Insert(Undo(line), KillRotate(kill, ki))

UndoKey == Key("edit", "undo") /\ Edited(Undo(line))

RedoKey == Key("edit", "redo") /\ Edited(Redo(line))

\* rotateHistory: the buffer emptied for the next entry.
Emptied(multi) ==
  IF rotating THEN Undo(line)
  ELSE IF multi /\ line.nl # << >> THEN DeleteLineToCursor(line, TRUE)
  ELSE DeleteAll(line)

RotateFits(op, multi) ==
  CanRotate(hist, op) =>
    LET h == Rotate(hist, op, CurLine(line)) IN Fits(Emptied(multi), h.list[Slot(h, h.index)])

\* PREV_HISTORY and NEXT_HISTORY (multi), or UP_OR_HISTORY and DOWN_OR_HISTORY
\* of a single line or while the history is rotating.  When the entry does not
\* fit the buffer has been emptied, and is not refreshed.
RotateHistory(op, multi) ==
  /\ Key("edit", op)
  /\ multi \/ line.nl = << >> \/ rotating
  /\ yanked' = 0
  /\ IF CanRotate(hist, op)
     THEN LET h == Rotate(hist, op, CurLine(line))
              e == h.list[Slot(h, h.index)]
              b == Emptied(multi)
          IN  /\ hist' = h
              /\ rotating' = Fits(b, e)
              /\ line' = IF Fits(b, e) THEN SyncNewlinePosList(InsertToCursor(b, e, "new")) ELSE b
     ELSE /\ hist' = [hist EXCEPT !.index = IF op = "PREV" THEN Len(hist.list) - 1 ELSE 0]
          /\ rotating' = FALSE
          /\ UNCHANGED line
  /\ UNCHANGED <<kill, ki, comp, mode>>

UpDown(up) ==
  /\ Key("edit", "updown")
  /\ line.nl # << >> /\ ~rotating
  /\ Edited(MoveUpDown(line, up))

\* CUSTOM: a callback of the user replaces the buffer, or the line, or inserts,
\* or returns nothing.
Custom(type, s) ==
  LET b == CASE type = "whole" -> DeleteAll(line)
             [] type = "line"  -> DeleteLineToCursor(line, TRUE)
             [] type = "insert" -> line
      x == SyncNewlinePosList(InsertToCursor(b, s, "new"))
  IN  /\ Key("edit", "custom")
      /\ \/ Edited(x)
         \/ Edited(line)
         \/ type = "whole" /\ Fits(b, s) /\ AcceptLine([x EXCEPT !.cursor = UsedSize(x)])

-----------------------------------------------------------------------------
(* Completion *)

\* insertCandidate.
InsertCandidate(b, s, suffix) ==
  CommitLastChange(
    IF Fits(b, s) /\ suffix # << >>
    THEN InsertToCursor(InsertToCursor(b, s, "merge"), suffix, "merge")
    ELSE InsertToCursor(b, s, "merge"))

CommonPrefix(items) == LongestCommonPrefix({items[n].text : n \in DOMAIN items})

\* completeLine up to the pager.
Complete(c) ==
  LET trimmed  == c.trim > 0
      b        == IF trimmed THEN DeleteToCursor(CommitLastChange(line), Min({c.trim, line.cursor}), "new")
                  ELSE CommitLastChange(line)
      single   == Len(c.items) = 1
      common   == IF c.items = << >> THEN << >> ELSE CommonPrefix(c.items)
      offset   == IF trimmed THEN b.cursor ELSE ResolveOffset(b, common)
      inserting == IF trimmed \/ single \/ offset < b.cursor
                   THEN SubSeq(common, b.cursor - offset + 1, Len(common)) ELSE << >>
      suffix   == IF single THEN c.items[1].suffix ELSE << >>
      x        == InsertCandidate(b, inserting, suffix)
  IN  /\ Key("edit", "complete")
      /\ IF c.items = << >> THEN line' = b /\ UNCHANGED <<mode, comp, hist>>
         ELSE IF ~Fits(b, inserting \o suffix)
         THEN line' = x /\ mode' = "done" /\ hist' = RevertAll(hist) /\ UNCHANGED comp
         ELSE /\ line' = SyncNewlinePosList(x)
              /\ mode' = IF single THEN "edit" ELSE "first"
              /\ comp' = IF single THEN NoComp
                         ELSE [items     |-> c.items, offset |-> offset, oldSize |-> 0,
                               undoCount |-> (IF trimmed THEN 1 ELSE 0)
                                             + (IF inserting # << >> THEN 1 ELSE 0),
                               cur       |-> 0, start |-> line.text]
              /\ UNCHANGED hist
      /\ rotating' = FALSE /\ yanked' = 0
      /\ UNCHANGED <<kill, ki>>

\* Variant: the last candidate is not taken back.
ShowItemKeep(c, n) ==
  LET b == line
      s == IF n = 0 THEN << >>
           ELSE SubSeq(c.items[n].text, b.cursor - c.offset + 1, Len(c.items[n].text))
      suffix == IF n = 0 THEN << >> ELSE c.items[n].suffix
      x == InsertCandidate(b, s, suffix)
  IN  IF Fits(b, s \o suffix)
      THEN /\ line' = SyncNewlinePosList(x)
           /\ mode' = "page" /\ comp' = [c EXCEPT !.cur = n]
           /\ UNCHANGED <<kill, ki, hist, rotating, yanked>>
      ELSE Fail(x)

\* One round of the pager: the inserted candidate is taken back and the n-th
\* candidate is inserted, or nothing if the filter leaves none (n = 0).
ShowItem(c, n) ==
  LET b == IF c.oldSize # UsedSize(line) THEN Undo(line) ELSE line
      s == IF n = 0 THEN << >>
           ELSE SubSeq(c.items[n].text, b.cursor - c.offset + 1, Len(c.items[n].text))
      suffix == IF n = 0 THEN << >> ELSE c.items[n].suffix
      x == InsertCandidate(b, s, suffix)
  IN  IF Fits(b, s \o suffix)
      THEN /\ line' = SyncNewlinePosList(x)
           /\ mode' = "page" /\ comp' = [c EXCEPT !.cur = n]
           /\ UNCHANGED <<kill, ki, hist, rotating, yanked>>
      ELSE Fail(x)

\* ROTATE: a second completion key.
StartPager(n) ==
  /\ Key("first", "pager")
  /\ n \in 0..Len(comp.items)
  /\ ShowItem([comp EXCEPT !.undoCount = @ + 1, !.oldSize = UsedSize(line)], n)

MovePager(n) ==
  /\ Key("page", "pager")
  /\ n \in 0..Len(comp.items)
  /\ ShowItem(comp, n)

\* Any other key leaves the pager, and is then handled by the loop.
LeavePager ==
  /\ mode \in {"first", "page"}
  /\ Key(mode, "leave")
  /\ comp' = NoComp /\ mode' = "edit"
  /\ UNCHANGED <<line, kill, ki, hist, rotating, yanked>>

\* REVERT.
UndoTimes(b, n) ==
  LET undone[i \in 0..n] == IF i = 0 THEN b ELSE Undo(undone[i - 1]) IN undone[n]

RevertPager ==
  /\ Key("page", "revert")
  /\ line' = SyncNewlinePosList(UndoTimes(line, comp.undoCount))
  /\ comp' = NoComp /\ mode' = "edit"
  /\ UNCHANGED <<kill, ki, hist, rotating, yanked>>

-----------------------------------------------------------------------------

RedoTimes(b, n) ==
  LET redone[i \in 0..n] == IF i = 0 THEN b ELSE Redo(redone[i - 1]) IN redone[n]

\* The texts that repeated undos and redos give, without any effect on the line.
Texts(b) ==
  [past   |-> [n \in 1..b.idx |-> UndoTimes(b, b.idx + 1 - n).text],
   future |-> [n \in 1..(Len(b.changes) - b.idx) |-> RedoTimes(b, n).text]]

EditKey ==
  \/ \E c \in Chars \cup {Space, Newline} : InsertChar(c)
  \/ \E s \in Pastes : Paste(s)
  \/ Accept \/ Quit
  \/ BackwardDeleteChar \/ DeleteChar \/ TransposeChar
  \/ \E n \in 0..BufSize : MoveTo(n)
  \/ BeginningOfLine \/ EndOfLineKey
  \/ BackwardKillLine \/ KillLine
  \/ \E n \in 1..BufSize : BackwardKillWord(n) \/ KillWord(n)
  \/ Yank \/ YankPop \/ UndoKey \/ RedoKey
  \/ \E up \in BOOLEAN : UpDown(up)
  \/ \E type \in {"whole", "line", "insert"}, s \in Pastes : Custom(type, s)

PagerKey ==
  \/ \E n \in 0..2 : StartPager(n) \/ MovePager(n)
  \/ LeavePager \/ RevertPager

\* The history entry fits the buffer.
Next ==
  /\ \/ EditKey \/ PagerKey
     \/ \E op \in {"PREV", "NEXT"}, multi \in BOOLEAN :
          RotateFits(op, multi) /\ RotateHistory(op, multi)
     \/ \E c \in Completions : (c.items # << >> \/ c.trim = 0) /\ Complete(c)
  /\ texts' = Texts(line')

Spec == Init /\ [][Next]_vars

\* Any history and any answer of the completer.
NextAny ==
  /\ \/ EditKey \/ PagerKey
     \/ \E op \in {"PREV", "NEXT"}, multi \in BOOLEAN : RotateHistory(op, multi)
     \/ \E c \in Completions : Complete(c)
  /\ texts' = Texts(line')

SpecAny == Init /\ [][NextAny]_vars

-----------------------------------------------------------------------------
(* Properties *)

\* Types; the cursor is inside the text (the assertion of insertToCursor), and
\* the list of newlines is that of the text (line_buffer.cpp:28) while keys are read.
TypeOK ==
  /\ UsedSize(line) <= BufSize /\ line.cursor \in 0..UsedSize(line)
  /\ line.idx \in 0..Len(line.changes) /\ Len(line.changes) <= MaxChange
  /\ mode # "done" => line.nl = SyncNewlinePosList(line).nl
  /\ Len(kill) <= MaxKill /\ ki \in 0..Len(kill)
  /\ mode \in {"edit", "first", "page", "done"}

\* However the history was rotated and edited, it is as before when readline
\* ends, with the accepted line at most (pager.cpp:453).
HistoryKept ==
  mode = "done" => hist.list \in {Truncated(History), Append(Truncated(History), line.text)}

\* What the undo of the next rotation relies on (line_editor.cpp:530): while the
\* history is rotating, the last change inserted the current entry.
RotatingUndoable ==
  rotating =>
    LET c == line.changes[line.idx]
    IN  Len(c.chain) = 1 /\ c.chain[1].op = "INSERT"
        /\ c.chain[1].delta = hist.list[Slot(hist, hist.index)]

\* Yank-pop puts the other killed text in the place of the yanked one
\* (line_editor.cpp:919).
YankPopReplaces ==
  [][key' = "yankPop" /\ mode' = "edit" =>
       line'.text = Splice(line.text, line.cursor - yanked, line.cursor, kill[ki'])]_vars

\* In the pager, the completed word is the current candidate with its suffix
\* (line_editor.cpp:1176).
PagerShowsCandidate ==
  mode = "page" /\ comp.cur > 0 =>
    SubSeq(line.text, comp.offset + 1, line.cursor)
      = comp.items[comp.cur].text \o comp.items[comp.cur].suffix

\* Reverting the pager gives the text before the completion (line_editor.cpp:1206).
RevertRestores == [][key' = "revert" => line'.text = comp.start]_vars

=============================================================================

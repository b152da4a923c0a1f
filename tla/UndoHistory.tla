---------------------------- MODULE UndoHistory ----------------------------
(***************************************************************************)
(* What the undo list of the line editor promises: the texts undo goes     *)
(* back through are texts the line had, the latest last, and redo goes     *)
(* forward through the texts that were undone.  A bounded list forgets     *)
(* its oldest texts.                                                       *)
(***************************************************************************)
EXTENDS Naturals, Sequences, SequencesExt

CONSTANT MaxChange

VARIABLES text, past, future

vars == <<text, past, future>>

Init == text = << >> /\ past = << >> /\ future = << >>

\* t is s with one character more.
Typed(s, t) == \E n \in 1..Len(t) : RemoveAt(t, n) = s

\* One or more edits: past texts stay, except for the oldest when the list was
\* full, and are followed by the text before the edit, unless the edit goes on
\* with the last one.  A character that goes on with it may be followed by
\* another edit, and the text with the character is the past of that one.
\* Nothing can be redone.
Edit ==
  /\ \E d \in 0..Len(past) :
       LET kept == SubSeq(past, d + 1, Len(past))
       IN  /\ d > 0 => Len(past) + Len(past') - Len(kept) >= MaxChange
           /\ IsPrefix(kept, past')
           /\ Len(past') > Len(kept) =>
                LET t == past'[Len(kept) + 1]
                IN  t = text \/ (past # << >> /\ Typed(text, t))
  /\ Len(past') <= MaxChange
  /\ future' = << >>

Undo ==
  \E n \in 1..Len(past) :
    /\ text' = past[n]
    /\ past' = SubSeq(past, 1, n - 1)
    /\ future' = SubSeq(past, n + 1, Len(past)) \o <<text>> \o future

Redo ==
  /\ future # << >>
  /\ text' = Head(future)
  /\ past' = Append(past, text)
  /\ future' = Tail(future)

Next == Edit \/ Undo \/ Redo

Spec == Init /\ [][Next]_vars

=============================================================================

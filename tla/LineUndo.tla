------------------------------ MODULE LineUndo ------------------------------
(***************************************************************************)
(* The line editor implements the undo history of module UndoHistory: the  *)
(* texts that repeated undos and redos would give are its past and future. *)
(***************************************************************************)
EXTENDS LineEditor

History_ == INSTANCE UndoHistory WITH text <- line.text, past <- texts.past,
                                     future <- texts.future

\* The list of changes implements the list of past texts: merged and atomic
\* changes, evicted ones and the undos of yank-pop, history and pager included.
ImplementsUndo == History_!Spec

=============================================================================

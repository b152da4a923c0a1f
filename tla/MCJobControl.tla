---------------------------- MODULE MCJobControl ----------------------------
(* Small instances of JobControl for TLC. *)
EXTENDS JobControl, TLC

JobSymmetry == Permutations(Job)

=============================================================================

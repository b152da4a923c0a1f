------------------------------- MODULE JobIds -------------------------------
(***************************************************************************)
(* What the list of attached jobs promises about job ids: a job that is    *)
(* attached gets the smallest id that is not in use, keeps it until it is  *)
(* purged, and a purge frees the ids of the jobs that are no longer        *)
(* available and of no others.  JobTable works with this list; JobVector   *)
(* implements it.                                                          *)
(***************************************************************************)
EXTENDS Integers

CONSTANT MaxJob   \* SYS_LIMIT_JOB_TABLE_SIZE

VARIABLES
  used,   \* ids in use
  gone    \* those of jobs that are not available any more

vars == <<used, gone>>

Init == used = {} /\ gone = {}

\* id is the smallest free one.
Smallest(id) == id \notin used /\ \A i \in 1..(id - 1) : i \in used

Attach ==
  \E id \in 1..MaxJob : /\ Smallest(id)
                        /\ used' = used \cup {id}
                        /\ gone' = gone

Leave == \E id \in used \ gone : gone' = gone \cup {id} /\ used' = used

Purge == used' = used \ gone /\ gone' = {}

Next == Attach \/ Leave \/ Purge

Spec == Init /\ [][Next]_vars

=============================================================================

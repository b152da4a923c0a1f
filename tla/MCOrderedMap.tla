---------------------------- MODULE MCOrderedMap ----------------------------
(* Instances of OrderedMap for TLC.  Keys and values are interchangeable: *)
(* only their hashes tell keys apart, and every hash function is tried.   *)
EXTENDS OrderedMapDict, TLC

Sym == Permutations(Key) \cup Permutations(Val)
=============================================================================

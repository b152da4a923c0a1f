--------------------------- MODULE OrderedMapDict ---------------------------
(***************************************************************************)
(* The map of OrderedMap seen as the dictionary of OrderedDict.            *)
(***************************************************************************)
EXTENDS OrderedMap

\* The entries in order, and how many of them an iterator is past.
Entries == LET live == Pack(m.vals)
           IN  [n \in DOMAIN live |-> [key |-> live[n].key, val |-> live[n].val]]

Past == [i \in DOMAIN it |-> Cardinality({n \in Live(m) : n <= it[i]})]

Dict == INSTANCE OrderedDict WITH dict <- Entries, pos <- Past, ret <- ret

\* The map implements the dictionary in insertion order, whatever the hashes:
\* removals, compactions, rehashes and copies lose, duplicate or reorder no
\* entry, and an iterator returns each entry once.
ImplementsDict == Dict!Spec

=============================================================================

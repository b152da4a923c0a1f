---------------------------- MODULE OrderedDict ----------------------------
(***************************************************************************)
(* What a Map object of the language promises: a dictionary that is        *)
(* iterated in the order the keys were first inserted, holds at most       *)
(* MaxSize entries and cannot be modified while an iterator is alive.      *)
(***************************************************************************)
EXTENDS Naturals, Sequences, SequencesExt

CONSTANTS Key, Val, Iter, MaxSize, MaxOther, NoKey, NoVal

VARIABLES
  dict,     \* the entries, in insertion order
  pos,      \* for every iterator that is alive, the entries it has returned
  ret       \* the outcome of the last method

vars == <<dict, pos, ret>>

Ret(status, key, val) == [status |-> status, key |-> key, val |-> val]

Index(d, k) == {n \in DOMAIN d : d[n].key = k}

Has(d, k) == Index(d, k) # {}

Value(d, k) == d[CHOOSE n \in Index(d, k) : TRUE].val

\* What a method that answers an optional value returns for the key.
Optional(d, k) ==
  IF Has(d, k) THEN Ret("ok", NoKey, Value(d, k)) ELSE Ret("none", NoKey, NoVal)

Full(d, k) == ~Has(d, k) /\ Len(d) = MaxSize

PutEntry(d, k, v) ==
  IF Has(d, k) THEN [n \in DOMAIN d |-> IF d[n].key = k THEN [d[n] EXCEPT !.val = v] ELSE d[n]]
  ELSE Append(d, [key |-> k, val |-> v])

Init == dict = << >> /\ pos = << >> /\ ret = Ret("none", NoKey, NoVal)

\* A method that modifies the dictionary, unless an iterator is alive.
Modify(newDict, newRet) ==
  /\ IF DOMAIN pos # {}
     THEN dict' = dict /\ ret' = Ret("InvalidOperationError", NoKey, NoVal)
     ELSE dict' = newDict /\ ret' = newRet
  /\ UNCHANGED pos

Put(k, v) ==
  IF Full(dict, k) THEN Modify(dict, Ret("OutOfRangeError", NoKey, NoVal))
  ELSE Modify(PutEntry(dict, k, v), Optional(dict, k))

PutIfAbsent(k, v) ==
  IF Full(dict, k) THEN Modify(dict, Ret("OutOfRangeError", NoKey, NoVal))
  ELSE IF Has(dict, k) THEN Modify(dict, Optional(dict, k))
  ELSE Modify(PutEntry(dict, k, v), Ret("ok", NoKey, v))

MapRemove(k) == Modify(SelectSeq(dict, LAMBDA e : e.key # k), Optional(dict, k))

Swap(k, v) ==
  IF Has(dict, k) THEN Modify(PutEntry(dict, k, v), Optional(dict, k))
  ELSE Modify(dict, Ret("KeyNotFoundError", NoKey, NoVal))

Clear == Modify(<< >>, Ret("none", NoKey, NoVal))

\* The entries of another map, one after the other: the ones before the first
\* that does not fit stay.
PutAll(other) ==
  LET Step(d, e) == IF Full(d, e.key) THEN d ELSE PutEntry(d, e.key, e.val)
      upTo(n)    == FoldLeft(Step, dict, SubSeq(other, 1, n))
      bad        == {n \in DOMAIN other : Full(upTo(n - 1), other[n].key)}
  IN  IF bad = {} THEN Modify(upTo(Len(other)), Ret("ok", NoKey, NoVal))
      ELSE Modify(upTo((CHOOSE n \in bad : \A o \in bad : n <= o) - 1),
                  Ret("OutOfRangeError", NoKey, NoVal))

\* The argument is the dictionary itself: allowed even while it is iterated.
PutAllSelf == ret' = Ret("ok", NoKey, NoVal) /\ UNCHANGED <<dict, pos>>

\* The script goes on with a copy of the map.
Copy ==
  /\ DOMAIN pos = {}
  /\ ret' = Ret("ok", NoKey, NoVal)
  /\ UNCHANGED <<dict, pos>>

OpenIter(i) ==
  /\ i \notin DOMAIN pos
  /\ pos' = [j \in DOMAIN pos \cup {i} |-> IF j = i THEN 0 ELSE pos[j]]
  /\ ret' = Ret("ok", NoKey, NoVal)
  /\ UNCHANGED dict

NextOf(i) ==
  /\ i \in DOMAIN pos
  /\ IF pos[i] < Len(dict)
     THEN /\ ret' = Ret("ok", dict[pos[i] + 1].key, dict[pos[i] + 1].val)
          /\ pos' = [pos EXCEPT ![i] = @ + 1]
     ELSE ret' = Ret("void", NoKey, NoVal) /\ UNCHANGED pos
  /\ UNCHANGED dict

CloseIter(i) ==
  /\ i \in DOMAIN pos
  /\ pos' = [j \in DOMAIN pos \ {i} |-> pos[j]]
  /\ UNCHANGED <<dict, ret>>

Next ==
  \/ \E k \in Key, v \in Val : Put(k, v) \/ PutIfAbsent(k, v) \/ Swap(k, v)
  \/ \E k \in Key : MapRemove(k)
  \/ Clear \/ Copy \/ PutAllSelf
  \/ \E i \in Iter : OpenIter(i) \/ NextOf(i) \/ CloseIter(i)
  \/ \E n \in 0..MaxOther : \E other \in [1..n -> [key : Key, val : Val]] : PutAll(other)

Spec == Init /\ [][Next]_vars

=============================================================================

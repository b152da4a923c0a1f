CONSTANTS
  Key = {k1, k2, k3, k4, k5}
  Val = {v1}
  Iter = {i1}
  Hash = {0, 7}
  InitLen = 4
  InitCap = 4
  MaxSize = 4
  MaxOther = 2
  NoKey = NoKey
  NoVal = NoVal
SPECIFICATION Spec
INVARIANTS TypeOK RobinHood LookupExact
PROPERTY ImplementsDict
SYMMETRY Sym

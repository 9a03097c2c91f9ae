SPECIFICATION Spec
CONSTANTS
  Refs = {1, 2, 3}
  Locates = {1}
  Msgs = {}
  Prices = {1, 2, 3}
  MaxShares = 3
  P = 2
  QLim = 8
  MinReduce = 1
INVARIANTS
  TypeOK
  Ordered
  Agrees

SPECIFICATION Spec
CONSTANTS
  Refs = {0, 4, 3}
  Locates = {1}
  Prices = {1}
  MaxShares = 1
  Msgs <- CollisionMsgs
  P = 2
  QLim = 8
  DW = 64
  NSLOT = 4
  PROBE = 2
  ND = 1
  NSYM = 1
  BootTables <- Boots
  MaxMsgs = 4
INVARIANTS
  TypeOK
  Aligned
  BodyIntact
  ProbeFresh
  TableSound

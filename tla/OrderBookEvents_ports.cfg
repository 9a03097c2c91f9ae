SPECIFICATION HSpec
CONSTANTS
  Refs = {0, 1, 2}
  Locates = {0, 1, 2}
  Prices = {1}
  MaxShares = 1
  Msgs <- EventMsgs
  P = 2
  QLim = 8
  DW = 32
  NSLOT = 4
  PROBE = 1
  ND = 1
  NSYM = 2
  BootTables <- Boots
  MaxMsgs = 3
INVARIANTS
  Delivered
  PairsAgree
  SymbolRight
PROPERTIES
  EveryMessageApplied
  EveryEffectTaken

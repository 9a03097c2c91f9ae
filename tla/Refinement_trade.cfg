SPECIFICATION RSpec
CONSTANTS
  Refs = {0, 4}
  Locates = {0, 1}
  Prices = {1, 2}
  MaxShares = 2
  Msgs <- TradeMsgs
  P = 2
  QLim = 8
  DW = 64
  NSLOT = 4
  PROBE = 2
  ND = 1
  NSYM = 2
  BootTables <- Boots
  MaxMsgs = 4
  RefLoc <- SymbolOf
PROPERTIES
  ImplementsGolden
  AppliesMessage

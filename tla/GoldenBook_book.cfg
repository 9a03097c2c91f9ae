SPECIFICATION Spec
CONSTANTS
  Refs = {1, 2, 3}
  Locates = {1, 2}
  Prices = {1, 2, 3}
  MaxShares = 2
  Msgs <- MCMsgs
  StrictCross = TRUE
  MaxEvents = 1
  WithSession = TRUE
INVARIANTS
  Consistent
  BestIsExtreme
  LastBboCurrent
PROPERTY StrictStaysUncrossed
CHECK_DEADLOCK FALSE

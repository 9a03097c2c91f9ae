SPECIFICATION DSpec
CONSTANTS
  Refs = {1, 2, 3, 4}
  Locates = {0, 1, 2}
  Prices = {1, 2}
  MaxShares = 2
  Msgs <- MCMsgs
  StrictCross = FALSE
  MaxEvents = 5
  RecordMax = 3
  DeepEvery = 2
  PickMax = 1
  Days <- MCDays
  Calls <- MCCalls
  MaxCalls = 2
INVARIANTS
  SizesAreTrue
  VectorsAreEvents
  DownloadSafe
  CaptureExact
  ToolsAgree
CHECK_DEADLOCK FALSE

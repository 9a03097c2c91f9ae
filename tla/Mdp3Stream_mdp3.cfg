SPECIFICATION HSpec
CONSTANTS
  DW = 32
  FIFO_DEPTH = 3
  Packets <- Traffic
  MaxPackets = 2
INVARIANTS
  TypeOK
  InSync
  RecordsInOrder
  Judged
  GapsFound
PROPERTY AllDelivered
CHECK_DEADLOCK FALSE

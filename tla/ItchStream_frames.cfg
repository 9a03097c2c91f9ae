SPECIFICATION HSpec
CONSTANTS
  DW = 32
  QB = 46
  Datagrams <- Mix
  IdleKeeps = {0}
  MaxDatagrams = 2
INVARIANTS
  TypeOK
  Framed
  
  Judged
PROPERTIES
  GapsFound
  EveryDatagramEnds

SPECIFICATION SSpec
CONSTANTS
  DW = 64
  QB = 46
  Datagrams <- Good
  IdleKeeps = {0}
  MaxDatagrams = 1
INVARIANT NoOverflow

SPECIFICATION Spec
CONSTANTS
  Bufs = {0, 1, 2, 3}
  Cores = {c1, c2}
  RealSize = 1
  MaxReorder = 1
  VcmdUsed = FALSE
  Results = {"rdy"}
  SeekPoints = {"idle"}
INVARIANTS
  TypeOK
  RefCountsExact
  DeliveredIsDone
  NoLostWakeup
  DpbCountsExact
  BufferWillCome
PROPERTIES
  NeverOverwrites
CHECK_DEADLOCK TRUE

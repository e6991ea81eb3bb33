SPECIFICATION Spec
CONSTANTS
  Bufs = {0, 1, 2, 3}
  Cores = {c1, c2}
  RealSize = 1
  MaxReorder = 1
  VcmdUsed = FALSE
  Results = {"rdy", "error"}
  SeekPoints = {"idle"}
INVARIANTS
  CorruptIsMarked
CHECK_DEADLOCK TRUE

SPECIFICATION Spec
CONSTANTS
  Bufs = {0, 1, 2, 3}
  Cores = {c1, c2}
  RealSize = 1
  MaxReorder = 1
  VcmdUsed = TRUE
  Results = {"rdy"}
  SeekPoints = {"idle"}
INVARIANTS
  ReleaseFindsListUnused
CHECK_DEADLOCK TRUE

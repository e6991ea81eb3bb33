SPECIFICATION Spec
CONSTANTS
  m1 = m1
  m2 = m2
  s1 = s1
  s2 = s2
  f1 = f1
  f2 = f2
  Nil = Nil
  Cores <- TwoCores
  Clients = {m1, m2, s1, s2}
  Files = {f1, f2}
  FileOf <- MCFileOf
  MultiCore = {m1, m2}
  Mask <- MCMask
  KillAt = {"idle", "own"}
  EarlySync = FALSE
INVARIANTS
  TypeOK
  PermitsExact
  NoLostWakeup
  ReportIsTrue
  JobCountExact
PROPERTIES
  WaitsEnd
CHECK_DEADLOCK TRUE

SPECIFICATION Spec
CONSTANTS
  m1 = m1
  m2 = m2
  s1 = s1
  s2 = s2
  f1 = f1
  f2 = f2
  Nil = Nil
  Cores <- TwoCores
  Clients = {m1, s1}
  Files = {f1}
  FileOf <- MCFileOf
  MultiCore = {m1}
  Mask <- MCMask
  KillAt = {}
  EarlySync = TRUE
PROPERTIES
  WaitsEnd
CHECK_DEADLOCK FALSE

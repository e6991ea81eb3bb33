SPECIFICATION Spec
CONSTANTS
  o1 = o1
  o2 = o2
  o3 = o3
  t1 = t1
  t2 = t2
  t3 = t3
  p1 = p1
  p2 = p2
  i1 = i1
  i2 = i2
  d1 = d1
  d2 = d2
  Objs = {o1, o2, o3}
  Threads = {t1, t2}
  Listeners = {}
  Procs = {p1, p2}
  ProcOf <- OwnProc
  Owners = {i1}
  OwnerOf <- OneOwner
  Devs = {d1, d2}
  DevSeq <- TwoDevices
  Cores <- MixedCores
  Workloads = {1}
  MaxWorkload = 1
  MaxOwned = 1
  JmpChoices = {TRUE}
  ErrorKinds = {}
  Droppers = {}
  Closers = {p1}
  Interrupts = FALSE
  Smp = FALSE
  SerialCalls = TRUE
  Nil = Nil
INVARIANTS
  HwOnWorkList
  SomebodyStarts
SYMMETRY Symmetry

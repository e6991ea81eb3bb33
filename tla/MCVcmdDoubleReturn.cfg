SPECIFICATION Spec
CONSTANTS
  o1 = o1
  o2 = o2
  o3 = o3
  t1 = t1
  t2 = t2
  t3 = t3
  p1 = p1
  p2 = p2
  i1 = i1
  i2 = i2
  d1 = d1
  d2 = d2
  Objs = {o1, o2, o3}
  Threads = {t1, t2}
  Listeners = {t2}
  Procs = {p1}
  ProcOf <- AllOfP1
  Owners = {i1}
  OwnerOf <- OneOwner
  Devs = {d1}
  DevSeq <- OneDevice
  Cores <- AllCores
  Workloads = {1}
  MaxWorkload = 2
  MaxOwned = 2
  JmpChoices = {TRUE}
  ErrorKinds = {}
  Droppers = {}
  Closers = {}
  Interrupts = FALSE
  Smp = FALSE
  SerialCalls = FALSE
  Nil = Nil
INVARIANTS
  PoolExact
SYMMETRY Symmetry

SPECIFICATION Spec
CONSTANTS
  o1 = o1
  o2 = o2
  o3 = o3
  Objs <- MCObjs
  InitOrder <- MCOrder
  Threads = {t1, t2, t3}
  Nobody = nobody
INVARIANTS
  TypeOK
  PermitsMatchNodes
  InOnePlace
PROPERTIES
  PermitsComeBack
  ImplementsOwnership

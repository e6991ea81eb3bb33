SPECIFICATION Spec
CONSTANTS
  f1 = f1
  f2 = f2
  Files = {f1, f2}
  Chunks = 5
  ChunkSize = 4
  Sizes = {1, 4, 5, 12}
  NoFile = NoFile
  NoChunk = NoChunk
INVARIANTS
  TypeOK
  BuffersDisjoint
  TableIsHeld
PROPERTIES
  ImplementsAllocator
  ScanEnds

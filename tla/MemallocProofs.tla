--------------------------- MODULE MemallocProofs ---------------------------
(***************************************************************************)
(* Proofs about the memalloc driver, for any number of chunks, clients and *)
(* sizes: buffers never overlap, the table and the clients agree, and the  *)
(* loop of AllocMemory is a first-fit allocator.                           *)
(*                                                                         *)
(* The invariant behind them says what makes it sound to look only at the  *)
(* heads: the chunks behind a head look free and no buffer begins there    *)
(* (Shape), the loop never stands inside a buffer, and what it has passed  *)
(* over is too small (Passed).                                             *)
(***************************************************************************)
EXTENDS Memalloc, TLAPS

USE ChunksAssumption, NoneAssumption DEF Index

Covers(h, c) == reserved[h] # 0 /\ h <= c /\ c < h + reserved[h]
FitsAt(at, n) ==
  /\ at + n <= Chunks
  /\ \A c \in at .. at + n - 1 : \A h \in Index : ~Covers(h, c)

Shape ==
  /\ \A c \in Index : reserved[c] # 0 <=> filp[c] # NoFile
  /\ \A c \in Index : reserved[c] # 0 => c + reserved[c] <= Chunks
  /\ \A c, k \in Index : Covers(c, k) /\ c # k => reserved[k] = 0

BufferAt(c) == [file |-> filp[c], at |-> c, n |-> reserved[c]]
HeldIsTable == held = {BufferAt(c) : c \in {x \in Index : reserved[x] # 0}}

Passed ==
  scan.by # NoFile =>
    /\ \A c \in Index : reserved[c] # 0 /\ c < scan.i => c + reserved[c] <= scan.i
    /\ \A at \in Index : at < scan.i => ~FitsAt(at, scan.n)

Lengths == {NumChunks(s) : s \in Sizes}
ScanOfRequest == scan.by # NoFile => scan.n \in Lengths

IInv == TypeOK /\ Shape /\ HeldIsTable /\ Passed /\ ScanOfRequest

---------------------------------------------------------------------------
(* Rounding up gives at least one chunk.                                   *)
LEMMA AtLeastOne ==
  ASSUME NEW size \in Nat \ {0}
  PROVE  NumChunks(size) \in Nat \ {0}
<1> DEFINE q == (size + ChunkSize - 1) \div ChunkSize
<1>1. size + ChunkSize - 1 \in Nat /\ size + ChunkSize - 1 >= ChunkSize
  OBVIOUS
<1>2. q \in Int /\ ChunkSize * (q + 1) > size + ChunkSize - 1
  BY <1>1
<1>3. q >= 1
  BY <1>1, <1>2
<1> QED
  BY <1>3 DEF NumChunks

(* What the allocation of a buffer does to the table.                      *)
LEMMA TakeShape ==
  ASSUME TypeOK, Shape, Passed, Take
  PROVE  Shape'
<1> DEFINE i == scan.i
           n == scan.n
<1>0. /\ i \in Index /\ n \in Nat /\ n > 0 /\ i + n <= Chunks /\ scan.by # NoFile
      /\ reserved[i] = 0
      /\ reserved \in [Index -> Nat] /\ filp \in [Index -> Files \cup {NoFile}]
  BY DEF Take, TypeOK, Scanning, TooShort
<1>1. \A j \in i .. i + n - 1 : reserved[j] = 0
  BY DEF Take, Wanted
<1>2. /\ \A c \in Index : reserved'[c] = IF c = i THEN n ELSE reserved[c]
      /\ \A c \in Index : filp'[c] = IF c = i THEN scan.by ELSE filp[c]
  BY <1>0 DEF Take
<1>3. \A c \in Index : reserved'[c] # 0 <=> filp'[c] # NoFile
  BY <1>0, <1>2 DEF Shape
<1>4. \A c \in Index : reserved'[c] # 0 => c + reserved'[c] <= Chunks
  BY <1>0, <1>2 DEF Shape
<1>5. ASSUME NEW c \in Index, NEW k \in Index, Covers(c, k)', c # k
      PROVE  reserved'[k] = 0
  <2>1. CASE c = i
    <3>1. k \in i .. i + n - 1 /\ k # i
      BY <1>0, <1>2, <1>5, <2>1 DEF Covers
    <3> QED
      BY <1>1, <1>2, <3>1
  <2>2. CASE c # i
    <3>1. Covers(c, k)
      BY <1>2, <1>5, <2>2 DEF Covers
    <3>2. k # i
      BY <1>0, <1>5, <3>1 DEF Covers, Passed
    <3> QED
      BY <1>2, <1>5, <3>1, <3>2 DEF Shape
  <2> QED
    BY <2>1, <2>2
<1> QED
  BY <1>3, <1>4, <1>5 DEF Shape

(* The head of a used buffer and the buffers behind it.                    *)
LEMMA SkipUsedPassed ==
  ASSUME TypeOK, Shape, Passed, SkipUsed
  PROVE  Passed'
<1> DEFINE i == scan.i
           n == scan.n
<1>0. /\ i \in Index /\ n \in Nat /\ n > 0 /\ scan.by # NoFile
      /\ reserved[i] \in Nat /\ reserved[i] # 0 /\ reserved \in [Index -> Nat]
  BY DEF SkipUsed, TypeOK, Scanning
<1>1. scan' = [scan EXCEPT !.i = i + reserved[i]]
  BY DEF SkipUsed, Length
<1>2. scan'.i = i + reserved[i] /\ scan'.n = n /\ scan'.by = scan.by
  BY <1>1 DEF TypeOK
<1>3. UNCHANGED reserved
  BY DEF SkipUsed, table
<1>4. ASSUME NEW c \in Index, reserved[c] # 0, c < i + reserved[i]
      PROVE  c + reserved[c] <= i + reserved[i]
  <2>1. CASE c < i
    BY <1>0, <1>4, <2>1 DEF Passed
  <2>2. CASE c > i
    BY <1>0, <1>4, <2>2 DEF Shape, Covers
  <2> QED
    BY <1>0, <2>1, <2>2
<1>5. ASSUME NEW at \in Index, at < i + reserved[i]
      PROVE  ~FitsAt(at, n)
  <2>1. CASE at < i
    BY <1>0, <2>1 DEF Passed
  <2>2. CASE at >= i
    <3>1. Covers(i, at) /\ at \in at .. at + n - 1
      BY <1>0, <1>5, <2>2 DEF Covers
    <3> QED
      BY <1>0, <3>1 DEF FitsAt
  <2> QED
    BY <1>0, <2>1, <2>2
<1> QED
  BY <1>2, <1>3, <1>4, <1>5 DEF Passed, FitsAt, Covers

(* A gap that is too small and the buffer behind it.                       *)
LEMMA SkipGapPassed ==
  ASSUME TypeOK, Shape, Passed, SkipGap
  PROVE  Passed'
<1> DEFINE i == scan.i
           n == scan.n
<1>0. /\ i \in Index /\ n \in Nat /\ n > 0 /\ scan.by # NoFile
      /\ i + n <= Chunks /\ reserved \in [Index -> Nat]
  BY DEF SkipGap, TypeOK, Scanning, TooShort
<1>1. PICK j \in i .. i + n - 1 :
        /\ reserved[j] # 0
        /\ \A k \in i .. j - 1 : reserved[k] = 0
        /\ scan' = [scan EXCEPT !.i = j + reserved[j]]
  BY DEF SkipGap, Wanted, AfterBlocker
<1>2. scan'.i = j + reserved[j] /\ scan'.n = n /\ scan'.by = scan.by
  BY <1>1 DEF TypeOK
<1>3. UNCHANGED reserved
  BY DEF SkipGap, table
<1>j. j \in Index /\ reserved[j] \in Nat
  BY <1>0
<1>4. ASSUME NEW c \in Index, reserved[c] # 0, c < j + reserved[j]
      PROVE  c + reserved[c] <= j + reserved[j]
  <2>1. CASE c < i
    BY <1>0, <1>4, <1>j, <2>1 DEF Passed
  <2>2. CASE c >= i /\ c < j
    BY <1>0, <1>1, <1>4, <1>j, <2>2
  <2>3. CASE c > j
    BY <1>1, <1>4, <1>j, <2>3 DEF Shape, Covers
  <2> QED
    BY <1>0, <1>j, <2>1, <2>2, <2>3
<1>5. ASSUME NEW at \in Index, at < j + reserved[j]
      PROVE  ~FitsAt(at, n)
  <2>1. CASE at < i
    BY <1>0, <2>1 DEF Passed
  <2>2. CASE at >= i /\ at <= j
    <3>1. Covers(j, j) /\ j \in at .. at + n - 1
      BY <1>0, <1>1, <1>j, <2>2 DEF Covers
    <3> QED
      BY <1>j, <3>1 DEF FitsAt
  <2>3. CASE at > j
    <3>1. Covers(j, at) /\ at \in at .. at + n - 1
      BY <1>0, <1>1, <1>5, <1>j, <2>3 DEF Covers
    <3> QED
      BY <1>j, <3>1 DEF FitsAt
  <2> QED
    BY <1>0, <1>j, <2>1, <2>2, <2>3
<1> QED
  BY <1>2, <1>3, <1>4, <1>5 DEF Passed, FitsAt, Covers

---------------------------------------------------------------------------
(* The invariant holds at first ...                                        *)
LEMMA InitIInv == Init => IInv
  BY DEF Init, IInv, TypeOK, Shape, HeldIsTable, Passed, ScanOfRequest, Idle, Covers

(* ... and every action preserves it.                                      *)
LEMMA AllocCallIInv ==
  ASSUME IInv, NEW f \in Files, NEW size \in Sizes, AllocCall(f, size)
  PROVE  IInv'
<1>1. NumChunks(size) \in Nat \ {0} /\ NumChunks(size) \in Lengths
  BY AtLeastOne, SizesAssumption DEF Lengths
<1>2. /\ scan' = [by |-> f, n |-> NumChunks(size), i |-> 0]
      /\ f # NoFile /\ UNCHANGED <<reserved, filp, held, answer>>
  BY DEF AllocCall, table
<1>3. TypeOK'
  BY <1>1, <1>2 DEF IInv, TypeOK, Idle, Buffer
<1>4. Shape' /\ HeldIsTable'
  BY <1>2 DEF IInv, Shape, HeldIsTable, BufferAt, Covers
<1>5. Passed' /\ ScanOfRequest'
  BY <1>1, <1>2 DEF Passed, ScanOfRequest, FitsAt, Covers
<1> QED
  BY <1>3, <1>4, <1>5 DEF IInv

LEMMA SkipIInv ==
  ASSUME IInv, SkipUsed \/ SkipGap
  PROVE  IInv'
<1>1. PICK next \in Nat : scan' = [scan EXCEPT !.i = next]
  BY DEF IInv, TypeOK, SkipUsed, SkipGap, Length, AfterBlocker, Wanted, TooShort
<1>2. UNCHANGED <<reserved, filp, held, answer>>
  BY DEF SkipUsed, SkipGap, table
<1>3. scan'.by = scan.by /\ scan'.n = scan.n /\ scan.by # NoFile
      /\ scan' \in [by : Files \cup {NoFile}, n : Nat, i : Nat]
  BY <1>1 DEF IInv, TypeOK, SkipUsed, SkipGap, Scanning
<1>4. TypeOK'
  BY <1>2, <1>3 DEF IInv, TypeOK, Buffer
<1>5. Shape' /\ HeldIsTable'
  BY <1>2 DEF IInv, Shape, HeldIsTable, BufferAt, Covers
<1>6. Passed' /\ ScanOfRequest'
  BY <1>3, SkipUsedPassed, SkipGapPassed DEF IInv, ScanOfRequest, Lengths, NumChunks
<1> QED
  BY <1>4, <1>5, <1>6 DEF IInv

LEMMA TakeIInv ==
  ASSUME IInv, Take
  PROVE  IInv'
<1> DEFINE i == scan.i
           n == scan.n
<1>0. /\ i \in Index /\ n \in Nat /\ n > 0 /\ scan.by \in Files
      /\ reserved[i] = 0
      /\ reserved \in [Index -> Nat] /\ filp \in [Index -> Files \cup {NoFile}]
  BY DEF IInv, Take, TypeOK, Scanning
<1>1. /\ reserved' = [reserved EXCEPT ![i] = n]
      /\ filp' = [filp EXCEPT ![i] = scan.by]
      /\ held' = held \cup {[file |-> scan.by, at |-> i, n |-> n]}
      /\ answer' = [by |-> scan.by, n |-> n, at |-> i]
      /\ scan' = Idle
  BY DEF Take
<1>2. TypeOK'
  BY <1>0, <1>1 DEF IInv, TypeOK, Idle, Buffer
<1>3. Shape'
  BY TakeShape DEF IInv
<1>4. HeldIsTable'
  <2>1. \A c \in Index : BufferAt(c)' = IF c = i
                           THEN [file |-> scan.by, at |-> i, n |-> n] ELSE BufferAt(c)
    BY <1>0, <1>1 DEF BufferAt
  <2>2. \A c \in Index : reserved'[c] # 0 <=> (c = i \/ reserved[c] # 0)
    BY <1>0, <1>1
  <2>3. held = {BufferAt(c) : c \in {x \in Index : reserved[x] # 0}}
    BY DEF IInv, HeldIsTable
  <2>4. held' = {BufferAt(c)' : c \in {x \in Index : reserved'[x] # 0}}
    BY <1>0, <1>1, <2>1, <2>2, <2>3
  <2> QED
    BY <2>4 DEF HeldIsTable
<1>5. Passed' /\ ScanOfRequest'
  BY <1>1 DEF Passed, ScanOfRequest, Idle
<1> QED
  BY <1>2, <1>3, <1>4, <1>5 DEF IInv

LEMMA FailIInv ==
  ASSUME IInv, Fail
  PROVE  IInv'
<1>1. /\ answer' = [by |-> scan.by, n |-> scan.n, at |-> NoChunk]
      /\ scan' = Idle /\ UNCHANGED <<reserved, filp, held>>
  BY DEF Fail, table
<1>2. TypeOK'
  BY <1>1 DEF IInv, TypeOK, Idle, Buffer
<1>3. Shape' /\ HeldIsTable'
  BY <1>1 DEF IInv, Shape, HeldIsTable, BufferAt, Covers
<1>4. Passed' /\ ScanOfRequest'
  BY <1>1 DEF Passed, ScanOfRequest, Idle
<1> QED
  BY <1>2, <1>3, <1>4 DEF IInv

(* FreeMemory and memalloc_release both drop some buffers from the table:  *)
(* the ones the set gone holds the heads of.                               *)
LEMMA DropHeads ==
  ASSUME IInv, Unlocked, UNCHANGED <<scan, answer>>,
         NEW gone \in SUBSET Index,
         reserved' = [c \in Index |-> IF c \in gone THEN 0 ELSE reserved[c]],
         filp' = [c \in Index |-> IF c \in gone THEN NoFile ELSE filp[c]],
         held' = {b \in held : b.at \notin gone}
  PROVE  IInv'
<1>0. /\ reserved \in [Index -> Nat] /\ filp \in [Index -> Files \cup {NoFile}]
      /\ held = {BufferAt(c) : c \in {x \in Index : reserved[x] # 0}}
  BY DEF IInv, TypeOK, HeldIsTable
<1>1. TypeOK'
  BY <1>0 DEF IInv, TypeOK, Idle, Unlocked
<1>2. Shape'
  BY <1>0 DEF IInv, Shape, Covers
<1>3. HeldIsTable'
  <2>1. \A c \in Index : c \notin gone => BufferAt(c)' = BufferAt(c)
    BY DEF BufferAt
  <2>2. \A c \in Index : reserved'[c] # 0 <=> (c \notin gone /\ reserved[c] # 0)
    BY <1>0
  <2>3. \A c \in Index : BufferAt(c).at = c
    BY DEF BufferAt
  <2>4. held' = {BufferAt(c)' : c \in {x \in Index : reserved'[x] # 0}}
    BY <1>0, <2>1, <2>2, <2>3
  <2> QED
    BY <2>4 DEF HeldIsTable
<1>4. Passed' /\ ScanOfRequest'
  BY DEF Passed, ScanOfRequest, Unlocked, Idle
<1> QED
  BY <1>1, <1>2, <1>3, <1>4 DEF IInv

(* A client's buffer is at the head that carries the client's name.        *)
LEMMA OwnerOfHead ==
  ASSUME IInv, NEW b \in held
  PROVE  b.at \in Index /\ filp[b.at] = b.file /\ b.file \in Files
         /\ reserved[b.at] = b.n /\ b.n # 0
  BY DEF IInv, TypeOK, HeldIsTable, BufferAt, Buffer

LEMMA FreeMemoryIInv ==
  ASSUME IInv, NEW f \in Files, NEW c \in Index, FreeMemory(f, c)
  PROVE  IInv'
<1> DEFINE gone == {x \in Index : x = c /\ filp[c] = f}
<1>1. reserved \in [Index -> Nat] /\ filp \in [Index -> Files \cup {NoFile}]
  BY DEF IInv, TypeOK
<1>2. /\ reserved' = [x \in Index |-> IF x \in gone THEN 0 ELSE reserved[x]]
      /\ filp' = [x \in Index |-> IF x \in gone THEN NoFile ELSE filp[x]]
  BY <1>1 DEF FreeMemory, table
<1>3. held' = {b \in held : b.at \notin gone}
  BY OwnerOfHead DEF FreeMemory
<1> QED
  BY <1>2, <1>3, DropHeads DEF FreeMemory

LEMMA CloseFileIInv ==
  ASSUME IInv, NEW f \in Files, CloseFile(f)
  PROVE  IInv'
<1> DEFINE gone == {x \in Index : filp[x] = f}
<1>1. /\ reserved' = [x \in Index |-> IF x \in gone THEN 0 ELSE reserved[x]]
      /\ filp' = [x \in Index |-> IF x \in gone THEN NoFile ELSE filp[x]]
  BY DEF CloseFile
<1>2. held' = {b \in held : b.at \notin gone}
  BY OwnerOfHead DEF CloseFile
<1> QED
  BY <1>1, <1>2, DropHeads DEF CloseFile

LEMMA HardResetIInv ==
  ASSUME IInv, HardReset
  PROVE  IInv'
<1>1. held' = {b \in held : b.at \notin Index}
  BY OwnerOfHead DEF HardReset
<1> QED
  BY <1>1, DropHeads DEF HardReset

LEMMA StepIInv == IInv /\ [Next]_vars => IInv'
<1> SUFFICES ASSUME IInv, [Next]_vars PROVE IInv'
  OBVIOUS
<1>1. CASE Scan
  BY <1>1, SkipIInv, TakeIInv, FailIInv DEF Scan
<1>2. ASSUME NEW f \in Files, NEW size \in Sizes, AllocCall(f, size) PROVE IInv'
  BY <1>2, AllocCallIInv
<1>3. ASSUME NEW f \in Files, NEW c \in Index, FreeMemory(f, c) PROVE IInv'
  BY <1>3, FreeMemoryIInv
<1>4. ASSUME NEW f \in Files, CloseFile(f) PROVE IInv'
  BY <1>4, CloseFileIInv
<1>5. CASE HardReset
  BY <1>5, HardResetIInv
<1>6. CASE UNCHANGED vars
  BY <1>6 DEF vars, IInv, TypeOK, Shape, HeldIsTable, BufferAt, Covers, Passed,
              FitsAt, ScanOfRequest, Idle, Buffer
<1> QED
  BY <1>1, <1>2, <1>3, <1>4, <1>5, <1>6 DEF Next

(* So it holds in every state the driver reaches.                          *)
THEOREM Invariant == Spec => []IInv
  BY InitIInv, StepIInv, PTL DEF Spec

---------------------------------------------------------------------------
(* Every field of the chunk table, the scan and the buffers stays in range,*)
(* and a request is never for no chunks.                                   *)
THEOREM TypeCorrect == Spec => []TypeOK
  BY Invariant, PTL DEF IInv

(* No two buffers that clients have share a chunk and none reaches beyond  *)
(* the table, whatever the order of the calls of AllocMemory, FreeMemory,  *)
(* memalloc_release and ResetMems.                                         *)
THEOREM Disjoint == Spec => []BuffersDisjoint
<1>1. IInv => BuffersDisjoint
  <2> SUFFICES ASSUME IInv PROVE BuffersDisjoint
    OBVIOUS
  <2>0. reserved \in [Index -> Nat]
    BY DEF IInv, TypeOK
  <2>1. ASSUME NEW b \in held PROVE ChunksOf(b) \subseteq Index
    BY <2>0, OwnerOfHead DEF IInv, Shape, ChunksOf
  <2>2. ASSUME NEW b \in held, NEW c \in held, NEW k \in ChunksOf(b) \cap ChunksOf(c)
        PROVE  b.at = c.at
    <3>1. b.at \in Index /\ c.at \in Index
          /\ reserved[b.at] = b.n /\ reserved[c.at] = c.n /\ b.n # 0 /\ c.n # 0
      BY OwnerOfHead
    <3>2. /\ k \in b.at .. b.at + b.n - 1
          /\ k \in c.at .. c.at + c.n - 1
      BY <2>2 DEF ChunksOf
    <3>3. \A x, y \in Index : Covers(x, y) /\ x # y => reserved[y] = 0
      BY DEF IInv, Shape
    <3>4. ~Covers(b.at, c.at) \/ b.at = c.at
      BY <3>1, <3>3
    <3>5. ~Covers(c.at, b.at) \/ b.at = c.at
      BY <3>1, <3>3
    <3>6. b.at < c.at => Covers(b.at, c.at)
      BY <2>0, <3>1, <3>2 DEF Covers
    <3>7. c.at < b.at => Covers(c.at, b.at)
      BY <2>0, <3>1, <3>2 DEF Covers
    <3> QED
      BY <3>1, <3>4, <3>5, <3>6, <3>7
  <2>3. ASSUME NEW b \in held, NEW c \in held, b.at = c.at PROVE b = c
    BY <2>3, OwnerOfHead DEF IInv, HeldIsTable, BufferAt
  <2> QED
    BY <2>1, <2>2, <2>3 DEF BuffersDisjoint
<1> QED
  BY <1>1, Invariant, PTL

(* The chunk table marks exactly the buffers the clients have.             *)
THEOREM TableAgrees == Spec => []TableIsHeld
<1>1. IInv => TableIsHeld
  <2> SUFFICES ASSUME IInv PROVE TableIsHeld
    OBVIOUS
  <2>1. ASSUME NEW c \in Index, reserved[c] # 0 \/ filp[c] # NoFile
        PROVE  \E b \in held : b.at = c
    <3>1. reserved[c] # 0
      BY <2>1 DEF IInv, Shape
    <3>2. BufferAt(c) \in held /\ BufferAt(c).at = c
      BY <3>1 DEF IInv, HeldIsTable, BufferAt
    <3> QED
      BY <3>2
  <2> QED
    BY <2>1, OwnerOfHead DEF TableIsHeld
<1> QED
  BY <1>1, Invariant, PTL

---------------------------------------------------------------------------
(* A run of chunks is free of buffers for the clients when it is free in   *)
(* the table.                                                              *)
LEMMA FitsInTable ==
  ASSUME IInv, NEW at \in Index, NEW n \in Nat
  PROVE  Contract!Fits(at, n) <=> FitsAt(at, n)
<1>1. ASSUME NEW c, NEW b \in held, Contract!InBuffer(c, b)
      PROVE  b.at \in Index /\ Covers(b.at, c)
  BY <1>1, OwnerOfHead DEF Contract!InBuffer, Covers
<1>2. ASSUME NEW c, NEW h \in Index, Covers(h, c)
      PROVE  BufferAt(h) \in held /\ Contract!InBuffer(c, BufferAt(h))
  BY <1>2 DEF IInv, HeldIsTable, BufferAt, Covers, Contract!InBuffer
<1> QED
  BY <1>1, <1>2 DEF Contract!Fits, Contract!Free, FitsAt

LEMMA TakeGrants ==
  ASSUME IInv, Take
  PROVE  Contract!Grant(scan.by, scan.n)
<1> DEFINE i == scan.i
           n == scan.n
<1>0. /\ i \in Index /\ n \in Nat /\ n > 0 /\ i + n <= Chunks
      /\ scan.by # NoFile /\ reserved \in [Index -> Nat]
  BY DEF IInv, Take, TypeOK, Scanning, TooShort
<1>1. FitsAt(i, n)
  <2> SUFFICES ASSUME NEW c \in i .. i + n - 1, NEW h \in Index, Covers(h, c)
               PROVE  FALSE
    BY <1>0 DEF FitsAt
  <2>1. \A j \in i .. i + n - 1 : reserved[j] = 0
    BY DEF Take, Wanted
  <2>2. h < i
    <3>1. h \in i .. i + n - 1 => FALSE
      BY <2>1 DEF Covers
    <3>2. h <= c /\ c <= i + n - 1
      BY <1>0 DEF Covers
    <3> QED
      BY <1>0, <3>1, <3>2
  <2>3. h + reserved[h] <= i
    BY <1>0, <2>2 DEF IInv, Passed, Covers
  <2> QED
    BY <1>0, <2>3 DEF Covers
<1>2. ASSUME NEW lower \in 0 .. i - 1
      PROVE  ~Contract!Fits(lower, n)
  <2>1. lower \in Index /\ lower < i
    BY <1>0
  <2> QED
    BY <1>0, <2>1, FitsInTable DEF IInv, Passed
<1>3. Contract!Fits(i, n) /\ i \in 0 .. Chunks - 1
  BY <1>0, <1>1, FitsInTable
<1>4. /\ held' = held \cup {[file |-> scan.by, at |-> i, n |-> n]}
      /\ answer' = [by |-> scan.by, n |-> n, at |-> i]
  BY DEF Take
<1> QED
  BY <1>2, <1>3, <1>4 DEF Contract!Grant

LEMMA FailRefuses ==
  ASSUME IInv, Fail
  PROVE  Contract!Refuse(scan.by, scan.n)
<1> DEFINE i == scan.i
           n == scan.n
<1>0. i \in Nat /\ n \in Nat /\ scan.by # NoFile
  BY DEF IInv, Fail, TypeOK, Scanning
<1>1. ASSUME NEW at \in 0 .. Chunks - 1
      PROVE  ~Contract!Fits(at, n)
  <2>1. CASE at < i
    BY <1>0, <2>1, FitsInTable DEF IInv, Passed
  <2>2. CASE at >= i
    <3>1. at + n > Chunks
      BY <1>0, <2>2 DEF Fail, TooShort
    <3> QED
      BY <1>0, <3>1 DEF Contract!Fits
  <2> QED
    BY <1>0, <2>1, <2>2
<1> QED
  BY <1>1 DEF Contract!Refuse, Fail

LEMMA InitRefines == Init => Contract!Init
  BY DEF Init, Contract!Init

LEMMA StepRefines ==
  IInv /\ [Next]_vars => [Contract!Next]_<<held, answer>>
<1> SUFFICES ASSUME IInv, [Next]_vars
             PROVE  Contract!Next \/ UNCHANGED <<held, answer>>
  OBVIOUS
<1>1. CASE SkipUsed \/ SkipGap
  BY <1>1 DEF SkipUsed, SkipGap
<1>2. CASE Take \/ Fail
  <2>1. scan.by \in Files /\ scan.n \in Lengths
    BY <1>2 DEF IInv, TypeOK, ScanOfRequest, Take, Fail, Scanning
  <2>2. Contract!Grant(scan.by, scan.n) \/ Contract!Refuse(scan.by, scan.n)
    BY <1>2, TakeGrants, FailRefuses
  <2> QED
    BY <2>1, <2>2 DEF Contract!Next, Lengths
<1>3. ASSUME NEW f \in Files, NEW size \in Sizes, AllocCall(f, size)
      PROVE  UNCHANGED <<held, answer>>
  BY <1>3 DEF AllocCall
<1>4. ASSUME NEW f \in Files, NEW c \in Index, FreeMemory(f, c)
      PROVE  Contract!Next
  <2>1. Contract!Release(f, c) /\ c \in 0 .. Chunks - 1
    BY <1>4 DEF FreeMemory, Contract!Release
  <2> QED
    BY <2>1 DEF Contract!Next
<1>5. ASSUME NEW f \in Files, CloseFile(f) PROVE Contract!Next
  BY <1>5 DEF CloseFile, Contract!Close, Contract!Next
<1>6. CASE HardReset
  BY <1>6 DEF HardReset, Contract!Reset, Contract!Next
<1>7. CASE UNCHANGED vars
  BY <1>7 DEF vars
<1> QED
  BY <1>1, <1>2, <1>3, <1>4, <1>5, <1>6, <1>7 DEF Next, Scan

(* AllocMemory, which looks only at the heads and jumps over what it has   *)
(* seen, is a first-fit allocator: it gives the lowest run of free chunks  *)
(* that is long enough, and refuses a request only when there is none.     *)
THEOREM FirstFit == Spec => ImplementsAllocator
  BY InitRefines, StepRefines, Invariant, PTL
     DEF Spec, ImplementsAllocator, Contract!Spec
=============================================================================

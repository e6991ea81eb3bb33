------------------------------ MODULE Memalloc ------------------------------
(***************************************************************************)
(* The memalloc driver, memalloc.c: a table of chunks of one block of      *)
(* memory.  The head of a buffer holds the number of its chunks and its    *)
(* owner; the other chunks of a buffer look free and are passed over       *)
(* because every scan starts from a head.  All accesses are under mem_lock;*)
(* a step of the scan is one turn of the loop of AllocMemory.              *)
(*                                                                         *)
(* An operator named X_Variant is X with a plausible bug in it.  Nothing   *)
(* uses it; put in the place of X it breaks one of the properties below.   *)
(***************************************************************************)
EXTENDS Integers, FiniteSets

CONSTANTS
  Files,       \* open file descriptors
  Chunks,      \* chunks, the length of hlina_chunks[]
  ChunkSize,   \* CHUNK_SIZE
  Sizes,       \* sizes asked for, in bytes: none that is 0 or wraps around
  NoFile,      \* NULL in a filp field
  NoChunk      \* the bus address 0 of a failed allocation

ASSUME ChunksAssumption == Chunks \in Nat /\ ChunkSize \in Nat \ {0}
ASSUME SizesAssumption == Sizes \subseteq Nat \ {0}
ASSUME NoneAssumption == NoFile \notin Files /\ NoChunk \notin Nat

VARIABLES
  reserved,    \* hlina_chunks[].chunks_reserved
  filp,        \* hlina_chunks[].filp
  scan,        \* AllocMemory at work: who asked, how many chunks, and i
  held,        \* what the clients have: the buffers they were given
  answer       \* the last allocation and its *busaddr, as a chunk number

table == <<reserved, filp>>
vars == <<reserved, filp, scan, held, answer>>

Index == 0 .. Chunks - 1
Idle == [by |-> NoFile, n |-> 0, i |-> 0]
Unlocked == scan = Idle                         \* mem_lock is free

(* ResetMems, called by the probe; nobody has a buffer.                    *)
Init ==
  /\ reserved = [c \in Index |-> 0]
  /\ filp = [c \in Index |-> NoFile]
  /\ scan = Idle
  /\ held = {}
  /\ answer = [by |-> NoFile, n |-> 0, at |-> NoChunk]

(* The size in chunks, rounded up.                                         *)
NumChunks_RoundsDown(size) == size \div ChunkSize
NumChunks(size) == (size + ChunkSize - 1) \div ChunkSize

(* MEMALLOC_IOCXGETBUFFER: AllocMemory takes the lock ...                  *)
AllocCall(f, size) ==
  /\ Unlocked
  /\ scan' = [by |-> f, n |-> NumChunks(size), i |-> 0]
  /\ UNCHANGED <<table, held, answer>>

Scanning == scan.by # NoFile
TooShort_OffByOne == scan.i + scan.n >= Chunks
TooShort == scan.i + scan.n > Chunks
Wanted == scan.i .. scan.i + scan.n - 1         \* the chunks under test

(* ... passes over a used buffer, by its length ...                        *)
Length_Last(c) == reserved[c] - 1
Length(c) == reserved[c]

SkipUsed ==
  /\ Scanning /\ scan.i < Chunks
  /\ reserved[scan.i] # 0
  /\ scan' = [scan EXCEPT !.i = @ + Length(@)]
  /\ UNCHANGED <<table, held, answer>>

(* ... and over a gap that is too small, up to the end of the buffer       *)
(* behind it ...                                                           *)
AfterBlocker_Next(j) == j + 1
AfterBlocker(j) == j + reserved[j]

SkipGap ==
  /\ Scanning /\ scan.i < Chunks
  /\ reserved[scan.i] = 0 /\ ~TooShort
  /\ \E j \in Wanted :
       /\ reserved[j] # 0
       /\ \A k \in scan.i .. j - 1 : reserved[k] = 0
       /\ scan' = [scan EXCEPT !.i = AfterBlocker(j)]
  /\ UNCHANGED <<table, held, answer>>

(* ... takes the first gap that is long enough ...                         *)
Take ==
  /\ Scanning /\ scan.i < Chunks
  /\ reserved[scan.i] = 0 /\ ~TooShort
  /\ \A j \in Wanted : reserved[j] = 0
  /\ reserved' = [reserved EXCEPT ![scan.i] = scan.n]
  /\ filp' = [filp EXCEPT ![scan.i] = scan.by]
  /\ held' = held \cup {[file |-> scan.by, at |-> scan.i, n |-> scan.n]}
  /\ answer' = [by |-> scan.by, n |-> scan.n, at |-> scan.i]
  /\ scan' = Idle

(* ... or gives up at the end of the table.                                *)
Fail ==
  /\ Scanning
  /\ \/ scan.i >= Chunks
     \/ scan.i < Chunks /\ reserved[scan.i] = 0 /\ TooShort
  /\ answer' = [by |-> scan.by, n |-> scan.n, at |-> NoChunk]
  /\ scan' = Idle
  /\ UNCHANGED <<table, held>>

(* MEMALLOC_IOCSFREEBUFFER: FreeMemory, by any file and for any chunk.     *)
FreeMemory_KeepsCount(f, c) ==
  /\ Unlocked
  /\ filp' = [filp EXCEPT ![c] = IF @ = f THEN NoFile ELSE @]
  /\ held' = {b \in held : ~(b.file = f /\ b.at = c)}
  /\ UNCHANGED <<reserved, scan, answer>>

FreeMemory(f, c) ==
  /\ Unlocked
  /\ IF filp[c] = f
     THEN /\ filp' = [filp EXCEPT ![c] = NoFile]
          /\ reserved' = [reserved EXCEPT ![c] = 0]
     ELSE UNCHANGED table
  /\ held' = {b \in held : ~(b.file = f /\ b.at = c)}
  /\ UNCHANGED <<scan, answer>>

(* memalloc_release: what the file still has is freed.                     *)
CloseFile(f) ==
  /\ Unlocked
  /\ filp' = [c \in Index |-> IF filp[c] = f THEN NoFile ELSE filp[c]]
  /\ reserved' = [c \in Index |-> IF filp[c] = f THEN 0 ELSE reserved[c]]
  /\ held' = {b \in held : b.file # f}
  /\ UNCHANGED <<scan, answer>>

(* MEMALLOC_IOCHARDRESET: ResetMems takes every buffer from its client.    *)
HardReset ==
  /\ Unlocked
  /\ filp' = [c \in Index |-> NoFile]
  /\ reserved' = [c \in Index |-> 0]
  /\ held' = {}
  /\ UNCHANGED <<scan, answer>>

Scan == SkipUsed \/ SkipGap \/ Take \/ Fail

Next == \/ Scan
        \/ \E f \in Files : \/ \E size \in Sizes : AllocCall(f, size)
                            \/ \E c \in Index : FreeMemory(f, c)
                            \/ CloseFile(f)
        \/ HardReset

(* The loop runs under a spinlock, which nobody interrupts for ever.       *)
Spec == Init /\ [][Next]_vars /\ WF_vars(Scan)

---------------------------------------------------------------------------
Buffer == [file : Files, at : Index, n : Nat \ {0}]

TypeOK ==
  /\ reserved \in [Index -> Nat]
  /\ filp \in [Index -> Files \cup {NoFile}]
  /\ scan \in [by : Files \cup {NoFile}, n : Nat, i : Nat]
  /\ scan.by = NoFile => scan = Idle
  /\ scan.by # NoFile => scan.n > 0
  /\ held \subseteq Buffer
  /\ answer \in [by : Files \cup {NoFile}, n : Nat, at : Index \cup {NoChunk}]

ChunksOf(b) == b.at .. b.at + b.n - 1

(* Two buffers that clients have at the same time share no chunk, and all  *)
(* of a buffer is inside the memory of the driver: AllocMemory looks only  *)
(* at heads, so a scan that started inside a buffer would give it away.    *)
BuffersDisjoint ==
  \A b \in held :
    /\ ChunksOf(b) \subseteq Index
    /\ \A c \in held : b # c => ChunksOf(b) \cap ChunksOf(c) = {}

(* The table and the clients agree: each buffer is marked with its owner   *)
(* and its length, and every mark is the buffer of a client.  No free or   *)
(* close loses a chunk for good or frees a buffer of another client.       *)
TableIsHeld ==
  /\ \A b \in held : filp[b.at] = b.file /\ reserved[b.at] = b.n
  /\ \A c \in Index : (reserved[c] # 0 \/ filp[c] # NoFile)
                        => \E b \in held : b.at = c

(* AllocMemory, loop and all, is first fit: it gives the lowest gap that   *)
(* is long enough and fails only when there is none.                       *)
Contract == INSTANCE Allocator WITH N <- Chunks,
                                    Lengths <- {NumChunks(s) : s \in Sizes}
ImplementsAllocator == Contract!Spec

(* The loop of AllocMemory always comes to an end.                         *)
ScanEnds == Scanning ~> Unlocked
=============================================================================

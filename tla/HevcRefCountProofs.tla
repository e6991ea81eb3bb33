------------------------- MODULE HevcRefCountProofs -------------------------
(***************************************************************************)
(* The frame buffers of the multi-core HEVC decoder, for every number of   *)
(* cores and every DPB size: who uses a buffer, what its flags say and     *)
(* what n_ref_count counts.  The invariant RefInv holds when the           *)
(* application seeks only between two pictures, and not at all with VCMD:  *)
(* the run MCHevcSeekVcmd shows the one case, and the README what RefInv   *)
(* misses in the other.                                                    *)
(***************************************************************************)
EXTENDS HevcDpbProofs

\* HevcDecAbort comes between two pictures, and not when cores are driven
\* through command buffers.
SafeSeeks == SeekPoints \subseteq {"idle"} /\ (VcmdUsed => SeekPoints = {})

Temp(b) == "TEMP_OUTPUT" \in Used(fb, b)
Final(b) == "OUTPUT" \in Used(fb, b)
Hw(b) == "HW_ONGOING" \in Used(fb, b)

SlotIds == {Mem(dpb, i) : i \in Slots}
Users(b) == {c \in Cores : Counting(c) /\ b \in core[c].ref_id}
Prepared(b) == dpc = "run" /\ b \in DpbIds

\* No two pictures of a sequence are in the same buffer.
Ordered(q) == \A i, j \in DOMAIN q : q[i].mem_idx = q[j].mem_idx => i = j
SameIds(p, q) ==
  Len(p) = Len(q) /\ \A i \in DOMAIN p : p[i].mem_idx = q[i].mem_idx

One(p) == IF p THEN 1 ELSE 0

-----------------------------------------------------------------------------
(* The invariant *)

NoneLost ==
  /\ \A c \in Cores : core[c].st # "lost"
  /\ dpc \in {"abort", "stop"} => ~VcmdUsed

\* The slots hold different buffers, and those are the allocated ones.
SlotsRight ==
  /\ \A i, j \in Slots : Mem(dpb, i) = Mem(dpb, j) => i = j
  /\ \A b \in Bufs : /\ "ALLOCATED" \in Used(fb, b) <=> b \in SlotIds
                     /\ "FREE" \in Used(fb, b) <=> b \notin SlotIds

\* A buffer is on its way to the application at most once.
OutputsRight ==
  /\ Ordered(dpb.out_buf) /\ Ordered(out_fifo)
  /\ \A p, q \in held : p.mem_idx = q.mem_idx => p = q
  /\ Ids(dpb.out_buf) \cap Ids(out_fifo) = {}
  /\ Ids(dpb.out_buf) \cap HeldIds = {}
  /\ Ids(out_fifo) \cap HeldIds = {}

\* The output flags say where it is.
FlagsRight ==
  \A b \in Bufs :
    /\ b \in Ids(dpb.out_buf) => Temp(b) \/ Final(b)
    /\ b \in Ids(out_fifo) \cup HeldIds => Final(b)
    /\ Temp(b) => b \in Ids(dpb.out_buf)
    /\ Final(b) => b \in Outputs

\* out_buf at the points of a call.
PhaseRight ==
  /\ dpc \in {"idle", "abort", "stop", "eoswait", "eos"} => dpb.out_buf = <<>>
  /\ dpc \in {"flush", "bump", "get", "retry"} => Ids(dpb.out_buf) \subseteq SlotIds
  /\ dpc = "flush" => \A b \in Ids(dpb.out_buf) : Temp(b)
  /\ dpc = "push" => \A b \in Bufs : ~Temp(b)

\* A slot that waits for display is not on its way yet.
DisplayRight == \A i \in Slots : Display(dpb, i) # "no" => Mem(dpb, i) \notin Outputs

\* A buffer is marked as written while one core, and only one, writes it.
HwRight ==
  /\ \A b \in Bufs : Hw(b) <=> \E c \in Cores : Writing(c) /\ core[c].out_id = b
  /\ \A c, d \in Cores :
       Writing(c) /\ Writing(d) /\ core[c].out_id = core[d].out_id => c = d

\* A job counts every reference it reads.
RefsHeld == \A c \in Cores : Counting(c) => core[c].ref_mem_idx \subseteq core[c].ref_id

CountsRight ==
  \A b \in Bufs : Count(fb, b) = One(Hw(b)) + Cardinality(Users(b))
                                   + One(b \in Outputs) + One(Prepared(b))

\* The buffer of a new picture is in no other use.
Unused(b) == ~Hw(b) /\ Users(b) = {} /\ b \notin Outputs
TakenRight == dpc = "run" => Unused(Mem(dpb, cur.pos))

SleepRight == opc = "asleep" => out_fifo # <<>> /\ Hw(Head(out_fifo).mem_idx)

RefInv ==
  /\ DpbInv
  /\ NoneLost /\ SlotsRight
  /\ OutputsRight /\ FlagsRight /\ PhaseRight /\ DisplayRight
  /\ HwRight /\ RefsHeld /\ CountsRight /\ FreeExact(fb)
  /\ TakenRight /\ SleepRight

-----------------------------------------------------------------------------
(* Sequences of pictures *)

LEMMA IdsAppend ==
  ASSUME NEW q \in Seq(Pics), NEW p \in Pics
  PROVE  /\ Ids(Append(q, p)) = Ids(q) \cup {p.mem_idx}
         /\ Ordered(q) /\ p.mem_idx \notin Ids(q) => Ordered(Append(q, p))
<1> DEFINE r == Append(q, p)
<1>1. /\ DOMAIN q = 1 .. Len(q) /\ DOMAIN r = 1 .. Len(q) + 1 /\ Len(q) \in Nat
      /\ r[Len(q) + 1] = p /\ \A i \in 1 .. Len(q) : r[i] = q[i]
  OBVIOUS
<1> HIDE DEF r
<1>2. Ids(r) = Ids(q) \cup {p.mem_idx}
  <2>1. Ids(r) \subseteq Ids(q) \cup {p.mem_idx}
    BY <1>1 DEF Ids
  <2>2. \A i \in 1 .. Len(q) : q[i].mem_idx = r[i].mem_idx /\ i \in 1 .. Len(q) + 1
    BY <1>1
  <2>3. p.mem_idx = r[Len(q) + 1].mem_idx /\ Len(q) + 1 \in 1 .. Len(q) + 1
    BY <1>1
  <2> QED
    BY <1>1, <2>1, <2>2, <2>3 DEF Ids
<1>3. ASSUME Ordered(q), p.mem_idx \notin Ids(q) PROVE Ordered(r)
  <2>1. \A i \in 1 .. Len(q) : r[i].mem_idx # p.mem_idx
    BY <1>1, <1>3 DEF Ids
  <2> QED
    BY <1>1, <1>3, <2>1 DEF Ordered
<1> QED
  BY <1>2, <1>3 DEF r

LEMMA IdsTail ==
  ASSUME NEW q \in Seq(Pics), q # <<>>, Ordered(q)
  PROVE  /\ Head(q) \in Pics /\ Tail(q) \in Seq(Pics) /\ Ordered(Tail(q))
         /\ Head(q).mem_idx \in Ids(q)
         /\ Ids(Tail(q)) = Ids(q) \ {Head(q).mem_idx}
<1> DEFINE r == Tail(q)
           h == Head(q)
<1>1. /\ DOMAIN q = 1 .. Len(q) /\ Len(q) \in Nat /\ Len(q) > 0
      /\ DOMAIN r = 1 .. Len(q) - 1 /\ r \in Seq(Pics)
      /\ h = q[1] /\ \A i \in 1 .. Len(q) - 1 : r[i] = q[i + 1]
      /\ h \in Pics
  OBVIOUS
<1> HIDE DEF r, h
<1>2. h.mem_idx \in Ids(q)
  BY <1>1 DEF Ids
<1>3. Ordered(r)
  <2>1. ASSUME NEW i \in DOMAIN r, NEW j \in DOMAIN r, r[i].mem_idx = r[j].mem_idx
        PROVE  i = j
    <3>1. i + 1 \in DOMAIN q /\ j + 1 \in DOMAIN q /\ i \in Int /\ j \in Int
      BY <1>1
    <3>2. q[i + 1].mem_idx = q[j + 1].mem_idx
      BY <1>1, <2>1
    <3>3. i + 1 = j + 1
      BY <3>1, <3>2 DEF Ordered
    <3> QED
      BY <3>1, <3>3
  <2> QED
    BY <2>1 DEF Ordered
<1>4. Ids(r) \subseteq Ids(q) \ {h.mem_idx}
  <2>1. ASSUME NEW i \in DOMAIN r
        PROVE  r[i].mem_idx \in Ids(q) /\ r[i].mem_idx # h.mem_idx
    <3>1. i + 1 \in DOMAIN q /\ i + 1 # 1 /\ 1 \in DOMAIN q /\ r[i] = q[i + 1]
      BY <1>1
    <3> QED
      BY <1>1, <3>1 DEF Ids, Ordered
  <2> QED
    BY <2>1 DEF Ids
<1>5. Ids(q) \ {h.mem_idx} \subseteq Ids(r)
  <2>1. ASSUME NEW i \in DOMAIN q, q[i].mem_idx # h.mem_idx
        PROVE  q[i].mem_idx \in Ids(r)
    <3>1. i # 1
      BY <1>1, <2>1
    <3>2. i - 1 \in DOMAIN r /\ r[i - 1] = q[i]
      BY <1>1, <3>1
    <3> QED
      BY <3>2 DEF Ids
  <2> QED
    BY <2>1 DEF Ids
<1> QED
  BY <1>1, <1>2, <1>3, <1>4, <1>5 DEF r, h

LEMMA IdsEmpty == Ids(<<>>) = {} /\ Ordered(<<>>)
BY DEF Ids, Ordered

LEMMA SameIdsEffect ==
  ASSUME NEW p \in Seq(Pics), NEW q \in Seq(Pics), SameIds(p, q)
  PROVE  Ids(q) = Ids(p) /\ (Ordered(p) => Ordered(q)) /\ (p = <<>> <=> q = <<>>)
<1>1. DOMAIN q = DOMAIN p /\ \A i \in DOMAIN p : p[i].mem_idx = q[i].mem_idx
  BY DEF SameIds
<1>2. p = <<>> <=> q = <<>>
  BY DEF SameIds
<1> QED
  BY <1>1, <1>2 DEF Ids, Ordered

-----------------------------------------------------------------------------
(* Reading the invariant *)

LEMMA OneFacts ==
  /\ \A p \in BOOLEAN : One(p) \in {0, 1}
  /\ One(TRUE) = 1 /\ One(FALSE) = 0
BY DEF One

LEMMA UsersFinite ==
  ASSUME NEW b
  PROVE  IsFiniteSet(Users(b)) /\ Cardinality(Users(b)) \in Nat
         /\ (Cardinality(Users(b)) = 0 <=> Users(b) = {})
<1>1. IsFiniteSet(Users(b))
  BY ConstantsAssumption, FS_Subset DEF Users
<1> QED
  BY <1>1, FS_CardinalityType, FS_EmptySet

LEMMA BasicTypes ==
  ASSUME DpbInv
  PROVE  /\ fb \in FrameBufferList /\ dpb \in DpbStorage /\ cur \in Locals
         /\ dpb.out_buf \in Seq(Pics) /\ out_fifo \in Seq(Pics) /\ held \subseteq Pics
         /\ core \in [Cores -> Job]
         /\ \A i \in Slots : Mem(dpb, i) \in Bufs
         /\ SlotIds \subseteq Bufs /\ DpbIds \subseteq SlotIds /\ DpbIds \subseteq Bufs
         /\ Ids(dpb.out_buf) \subseteq Bufs /\ Ids(out_fifo) \subseteq Bufs
         /\ HeldIds \subseteq Bufs /\ Outputs \subseteq Bufs
         /\ \A c \in Cores : core[c].out_id \in Bufs /\ core[c].ref_id \subseteq Bufs
         /\ \A b \in Bufs : Used(fb, b) \subseteq Flags /\ Count(fb, b) \in Nat
<1>1. /\ fb \in FrameBufferList /\ dpb \in DpbStorage /\ cur \in Locals
      /\ out_fifo \in Seq(Pics) /\ held \subseteq Pics /\ core \in [Cores -> Job]
  BY DEF DpbInv, TypeOK
<1>2. dpb.out_buf \in Seq(Pics) /\ \A i \in Slots : Mem(dpb, i) \in Bufs
  BY <1>1 DEF DpbStorage, SlotType, Mem
<1>3. SlotIds \subseteq Bufs /\ DpbIds \subseteq SlotIds
  BY <1>2 DEF SlotIds, DpbIds, Mem
<1>4. HeldIds \subseteq Bufs
  BY <1>1 DEF HeldIds, Pics
<1>5. Ids(dpb.out_buf) \subseteq Bufs /\ Ids(out_fifo) \subseteq Bufs
  BY <1>1, <1>2, IdsInBufs
<1>6. \A c \in Cores : core[c].out_id \in Bufs /\ core[c].ref_id \subseteq Bufs
  BY <1>1 DEF Job
<1>7. \A b \in Bufs : Used(fb, b) \subseteq Flags /\ Count(fb, b) \in Nat
  BY <1>1 DEF FrameBufferList, Used, Count
<1> QED
  BY <1>1, <1>2, <1>3, <1>4, <1>5, <1>6, <1>7 DEF Outputs

\* A buffer whose n_ref_count is 0 is in no use; an idle one is no slot's.
LEMMA ZeroIsUnused ==
  ASSUME RefInv, NEW b \in Bufs, Count(fb, b) = 0
  PROVE  Unused(b) /\ ~Prepared(b)
<1> DEFINE h == One(Hw(b))
           o == One(b \in Outputs)
           p == One(Prepared(b))
           n == Cardinality(Users(b))
<1>1. h + n + o + p = 0
  BY DEF RefInv, CountsRight
<1>2. h \in {0, 1} /\ o \in {0, 1} /\ p \in {0, 1}
  BY DEF One
<1>3. n \in Nat /\ (n = 0 => Users(b) = {})
  BY UsersFinite
<1>4. /\ Hw(b) => h = 1
      /\ b \in Outputs => o = 1
      /\ Prepared(b) => p = 1
  BY DEF One
<1> HIDE DEF h, o, p, n
<1>5. h = 0 /\ n = 0 /\ o = 0 /\ p = 0
  BY <1>1, <1>2, <1>3
<1> QED
  BY <1>3, <1>4, <1>5 DEF Unused

LEMMA IdleIsOutside ==
  ASSUME RefInv, NEW b \in IdleIds(fb)
  PROVE  b \in Bufs /\ b \notin SlotIds /\ Count(fb, b) = 0 /\ Used(fb, b) = {"FREE"}
BY DEF RefInv, SlotsRight, IdleIds, IsIdle, Count, Used

LEMMA SlotIsNotIdle ==
  ASSUME RefInv
  PROVE  SlotIds \cap IdleIds(fb) = {} /\ Outputs \cap IdleIds(fb) = {}
         /\ \A b \in Bufs : Hw(b) \/ Temp(b) \/ Final(b) => b \notin IdleIds(fb)
<1>1. \A b \in IdleIds(fb) : b \in Bufs /\ b \notin SlotIds /\ Count(fb, b) = 0
                             /\ Used(fb, b) = {"FREE"}
  BY IdleIsOutside
<1>2. \A b \in IdleIds(fb) : b \notin Outputs
  BY <1>1, ZeroIsUnused DEF Unused
<1> QED
  BY <1>1, <1>2 DEF Hw, Temp, Final

-----------------------------------------------------------------------------
(* What a step that leaves one of the parts alone preserves *)

LEMMA SlotsKept ==
  ASSUME RefInv, \A i \in Slots : Mem(dpb', i) = Mem(dpb, i)
  PROVE  /\ SlotIds' = SlotIds /\ DpbIds' = DpbIds
         /\ (\A b \in Bufs : /\ "ALLOCATED" \in Used(fb', b) <=> "ALLOCATED" \in Used(fb, b)
                             /\ "FREE" \in Used(fb', b) <=> "FREE" \in Used(fb, b))
              => SlotsRight'
<1>1. SlotIds' = SlotIds
  BY DEF SlotIds
<1>2. DpbIds' = DpbIds
  BY DEF DpbIds, Mem
<1> QED
  BY <1>1, <1>2 DEF RefInv, SlotsRight

\* Nothing moves on the way to the application.
LEMMA OutputsKept ==
  ASSUME RefInv, DpbInv', SameIds(dpb.out_buf, dpb'.out_buf),
         SameIds(out_fifo, out_fifo'), held' = held
  PROVE  /\ OutputsRight' /\ Outputs' = Outputs
         /\ Ids(dpb'.out_buf) = Ids(dpb.out_buf) /\ Ids(out_fifo') = Ids(out_fifo)
         /\ HeldIds' = HeldIds
         /\ (\A b \in Bufs : (Temp(b)' <=> Temp(b)) /\ (Final(b)' <=> Final(b)))
              => FlagsRight'
<1>1. /\ dpb.out_buf \in Seq(Pics) /\ out_fifo \in Seq(Pics)
      /\ dpb'.out_buf \in Seq(Pics) /\ out_fifo' \in Seq(Pics)
  BY DEF RefInv, DpbInv, TypeOK, DpbStorage
<1>2. Ids(dpb'.out_buf) = Ids(dpb.out_buf) /\ Ids(out_fifo') = Ids(out_fifo)
  BY <1>1, SameIdsEffect
<1>3. HeldIds' = HeldIds
  BY DEF HeldIds
<1>4. Outputs' = Outputs
  BY <1>2, <1>3 DEF Outputs
<1>5. OutputsRight'
  BY <1>1, <1>2, <1>3, SameIdsEffect DEF RefInv, OutputsRight
<1>6. ASSUME \A b \in Bufs : (Temp(b)' <=> Temp(b)) /\ (Final(b)' <=> Final(b))
      PROVE  FlagsRight'
  BY <1>2, <1>3, <1>4, <1>6 DEF RefInv, FlagsRight
<1> QED
  BY <1>2, <1>3, <1>4, <1>5, <1>6

LEMMA DisplayKept ==
  ASSUME RefInv, Outputs' \subseteq Outputs,
         \A i \in Slots : /\ Mem(dpb', i) = Mem(dpb, i)
                          /\ Display(dpb', i) # "no" => Display(dpb, i) # "no"
  PROVE  DisplayRight'
BY DEF RefInv, DisplayRight

LEMMA CoresKept ==
  ASSUME RefInv, core' = core
  PROVE  /\ RefsHeld' /\ \A b : Users(b)' = Users(b)
         /\ (\A b \in Bufs : Hw(b)' <=> Hw(b)) => HwRight'
<1>1. \A c : (Writing(c)' <=> Writing(c)) /\ (Counting(c)' <=> Counting(c))
  BY DEF Writing, Counting
<1> QED
  BY <1>1 DEF RefInv, RefsHeld, HwRight, Users

LEMMA TakenKept ==
  ASSUME RefInv, dpc' = "run" => dpc = "run" /\ cur' = cur,
         \A i \in Slots : Mem(dpb', i) = Mem(dpb, i),
         \A b \in Bufs : Hw(b)' => Hw(b),
         \A b \in Bufs : Users(b)' \subseteq Users(b),
         Outputs' \subseteq Outputs
  PROVE  TakenRight'
<1>1. cur.pos \in Slots /\ Mem(dpb, cur.pos) \in Bufs
  BY BasicTypes DEF RefInv, Locals
<1> QED
  BY <1>1 DEF RefInv, TakenRight, Unused

LEMMA SleepKept ==
  ASSUME RefInv, out_fifo' = out_fifo, opc' = "asleep" => opc = "asleep",
         \A b \in Bufs : Hw(b) => Hw(b)'
  PROVE  SleepRight'
<1>1. out_fifo # <<>> => Head(out_fifo).mem_idx \in Bufs
  <2>1. out_fifo \in Seq(Pics)
    BY BasicTypes DEF RefInv
  <2>2. out_fifo # <<>> => Head(out_fifo) \in Pics
    BY <2>1
  <2> QED
    BY <2>2 DEF Pics
<1> QED
  BY <1>1 DEF RefInv, SleepRight

\* The counts stay right when each of the four terms stays or moves with it.
LEMMA CountsKept ==
  ASSUME RefInv,
         \A b \in Bufs :
           /\ Count(fb', b) = Count(fb, b)
           /\ Hw(b)' <=> Hw(b)
           /\ Users(b)' = Users(b)
           /\ b \in Outputs' <=> b \in Outputs
           /\ Prepared(b)' <=> Prepared(b)
  PROVE  CountsRight'
<1>1. ASSUME NEW b \in Bufs
      PROVE  /\ One(Hw(b))' = One(Hw(b)) /\ One(b \in Outputs)' = One(b \in Outputs)
             /\ One(Prepared(b))' = One(Prepared(b))
  BY DEF One
<1> QED
  BY <1>1 DEF RefInv, CountsRight

-----------------------------------------------------------------------------
(* The steps *)

LEMMA RefInitially ==
  ASSUME Init
  PROVE  RefInv
<1>1. DpbInv
  BY DpbInitially
<1>2. /\ dpc = "idle" /\ opc = "idle" /\ held = {} /\ out_fifo = <<>>
      /\ core = [c \in Cores |-> IdleCore] /\ dpb.out_buf = <<>>
      /\ fb = AllocateIds(Slots)
      /\ \A i \in Slots : Mem(dpb, i) = i /\ Display(dpb, i) = "no"
  BY DEF Init, Mem, Display
<1>3. SlotIds = Slots /\ Outputs = {}
  BY <1>2 DEF SlotIds, Outputs, HeldIds, Ids
<1>4. \A c \in Cores : core[c].st = "idle" /\ ~Writing(c) /\ ~Counting(c)
  BY <1>2 DEF IdleCore, Writing, Counting
<1>5. \A b \in Bufs : /\ Used(fb, b) = IF b \in Slots THEN {"ALLOCATED"} ELSE {"FREE"}
                      /\ Count(fb, b) = 0
  BY <1>2 DEF AllocateIds, Used, Count
<1>6. \A b \in Bufs : ~Hw(b) /\ ~Temp(b) /\ ~Final(b) /\ Users(b) = {} /\ ~Prepared(b)
  BY <1>2, <1>4, <1>5 DEF Hw, Temp, Final, Users, Prepared
<1>7. NoneLost /\ RefsHeld /\ TakenRight /\ SleepRight
  BY <1>2, <1>4 DEF NoneLost, RefsHeld, TakenRight, SleepRight
<1>8. SlotsRight
  BY <1>2, <1>3, <1>5 DEF SlotsRight
<1>9. OutputsRight /\ FlagsRight /\ PhaseRight /\ DisplayRight
  <2>1. HeldIds = {}
    BY <1>2 DEF HeldIds
  <2> QED
    BY <1>2, <1>3, <1>6, <2>1, IdsEmpty
       DEF OutputsRight, FlagsRight, PhaseRight, DisplayRight
<1>10. HwRight
  BY <1>4, <1>6 DEF HwRight
<1>11. CountsRight
  <2>1. ASSUME NEW b \in Bufs
        PROVE  Count(fb, b) = One(Hw(b)) + Cardinality(Users(b))
                                + One(b \in Outputs) + One(Prepared(b))
    <3>1. One(Hw(b)) = 0 /\ One(b \in Outputs) = 0 /\ One(Prepared(b)) = 0
      BY <1>3, <1>6 DEF One
    <3>2. Cardinality(Users(b)) = 0
      BY <1>6, FS_EmptySet
    <3> QED
      BY <1>5, <3>1, <3>2
  <2> QED
    BY <2>1 DEF CountsRight
<1>12. FreeExact(fb)
  <2>1. fb.free_buffers = Cardinality(Bufs \ Slots)
    BY <1>2 DEF AllocateIds
  <2>2. IdleIds(fb) = Bufs \ Slots
    BY <1>5 DEF IdleIds, IsIdle, Used, Count
  <2> QED
    BY <2>1, <2>2 DEF FreeExact
<1> QED
  BY <1>1, <1>7, <1>8, <1>9, <1>10, <1>11, <1>12 DEF RefInv

\* A step that moves a thread on, and no buffer from one user to another.
LEMMA QuietStep ==
  ASSUME RefInv, DpbInv', fb'.fb_stat = fb.fb_stat, fb'.free_buffers = fb.free_buffers,
         core' = core, out_fifo' = out_fifo, held' = held, dpb'.out_buf = dpb.out_buf,
         \A i \in Slots : /\ Mem(dpb', i) = Mem(dpb, i)
                          /\ Display(dpb', i) # "no" => Display(dpb, i) # "no",
         \/ dpc' = dpc /\ cur' = cur
         \/ dpc # "run" /\ dpc' # "run",
         NoneLost', PhaseRight',
         SleepRight' \/ (opc' = "asleep" => opc = "asleep")
  PROVE  RefInv'
<1>1. \A b : Used(fb', b) = Used(fb, b) /\ Count(fb', b) = Count(fb, b)
  BY DEF Used, Count
<1>2. \A b : (Hw(b)' <=> Hw(b)) /\ (Temp(b)' <=> Temp(b)) /\ (Final(b)' <=> Final(b))
  BY <1>1 DEF Hw, Temp, Final
<1>3. SlotsRight' /\ DpbIds' = DpbIds
  BY <1>1, SlotsKept
<1>4. SameIds(dpb.out_buf, dpb'.out_buf) /\ SameIds(out_fifo, out_fifo')
  BY DEF SameIds
<1>5. OutputsRight' /\ FlagsRight' /\ Outputs' = Outputs
  BY <1>2, <1>4, OutputsKept
<1>6. DisplayRight'
  BY <1>5, DisplayKept
<1>7. RefsHeld' /\ HwRight' /\ \A b : Users(b)' = Users(b)
  BY <1>2, CoresKept
<1>8. TakenRight'
  BY <1>2, <1>5, <1>7, TakenKept
<1>9. SleepRight'
  BY <1>2, SleepKept
<1>10. CountsRight'
  BY <1>1, <1>2, <1>3, <1>5, <1>7, CountsKept DEF Prepared
<1>11. FreeExact(fb')
  BY DEF RefInv, FreeExact, IdleIds
<1> QED
  BY <1>3, <1>5, <1>6, <1>7, <1>8, <1>9, <1>10, <1>11 DEF RefInv

LEMMA RefDecodePicture ==
  ASSUME RefInv, DpbInv', NEW kind \in {"idr", "idr_no_output", "trail"},
         NEW keep \in SUBSET Slots,
         NEW display \in {"hidden", "shown"}, DecodePicture(kind, keep, display)
  PROVE  RefInv'
<1>1. dpb \in DpbStorage /\ DpbExact(dpb) /\ keep \in SUBSET Refs(dpb)
  BY DEF RefInv, DpbInv, TypeOK, DecodePicture, Refs, IsRef
<1>2. LET e == SetRefPics(dpb, keep) IN
      /\ e \in DpbStorage /\ DpbExact(e) /\ e.out_buf = dpb.out_buf
      /\ \A i \in Slots : Mem(e, i) = Mem(dpb, i) /\ Display(e, i) = Display(dpb, i)
  BY <1>1, SetRefPicsEffect
<1>3. LET e == DropUnshown(SetRefPics(dpb, keep)) IN
      /\ e.out_buf = dpb.out_buf
      /\ \A i \in Slots : /\ Mem(e, i) = Mem(dpb, i)
                          /\ Display(e, i) # "no" => Display(dpb, i) # "no"
  BY <1>2, DropUnshownEffect
<1>4. /\ dpc = "idle" /\ kind # "trail" => keep = {}
      /\ \/ dpc' = "bump" /\ dpb' = DropUnshown(SetRefPics(dpb, keep))
         \/ dpc' = "flush" /\ dpb' = SetRefPics(dpb, keep)
      /\ UNCHANGED <<fb, out_fifo, core, opc, held, acked, broken>>
  BY DEF DecodePicture
<1>5. /\ dpb'.out_buf = dpb.out_buf
      /\ \A i \in Slots : /\ Mem(dpb', i) = Mem(dpb, i)
                          /\ Display(dpb', i) # "no" => Display(dpb, i) # "no"
  BY <1>2, <1>3, <1>4
<1>6. dpc = "idle" /\ dpb.out_buf = <<>>
  BY <1>4 DEF RefInv, PhaseRight, DecodePicture
<1>7. PhaseRight' /\ NoneLost'
  BY <1>4, <1>5, <1>6, IdsEmpty DEF PhaseRight, NoneLost, RefInv
<1> QED
  BY <1>4, <1>5, <1>6, <1>7, QuietStep

LEMMA RefCallSteps ==
  ASSUME RefInv, DpbInv', SafeSeeks,
         \/ SCCheckRefs \/ Retry \/ PushOutputDone
         \/ EndOfStream \/ EosCoresDone \/ Abort \/ AbortCores
  PROVE  RefInv'
<1>1. /\ UNCHANGED <<out_fifo, dpb, opc, held>>
      /\ fb'.fb_stat = fb.fb_stat /\ fb'.free_buffers = fb.free_buffers
  BY DEF SCCheckRefs, Retry, PushOutputDone, EndOfStream, EosCoresDone, Abort, AbortCores,
         SetAbortStatusInList, RefInv, DpbInv, TypeOK, FrameBufferList
<1>2. core' = core
  <2>1. CASE AbortCores
    <3>1. ~VcmdUsed
      BY <2>1 DEF AbortCores, RefInv, NoneLost
    <3>2. core' = [c \in Cores |-> core[c]]
      BY <2>1, <3>1 DEF AbortCores
    <3> QED
      BY <3>2, BasicTypes DEF RefInv
  <2> QED
    BY <2>1 DEF SCCheckRefs, Retry, PushOutputDone, EndOfStream, EosCoresDone, Abort
<1>3. dpc # "run" /\ dpc' # "run" /\ dpc' # "flush"
  BY DEF SCCheckRefs, Retry, PushOutputDone, EndOfStream, EosCoresDone, Abort, AbortCores,
         SafeSeeks
<1>4. NoneLost'
  <2>1. Abort => ~VcmdUsed
    BY DEF Abort, SafeSeeks
  <2> QED
    BY <1>2, <2>1
       DEF SCCheckRefs, Retry, PushOutputDone, EndOfStream, EosCoresDone, Abort, AbortCores,
           RefInv, NoneLost
<1>5. PhaseRight'
  <2>1. /\ dpc' \in {"idle", "abort", "stop", "eoswait", "eos"} => dpb.out_buf = <<>>
        /\ dpc' \in {"flush", "bump", "get", "retry"} => Ids(dpb.out_buf) \subseteq SlotIds
        /\ dpc' # "push"
    BY DEF SCCheckRefs, Retry, PushOutputDone, EndOfStream, EosCoresDone, Abort, AbortCores,
           RefInv, PhaseRight, SafeSeeks
  <2>2. SlotIds' = SlotIds
    BY <1>1 DEF SlotIds
  <2> QED
    BY <1>1, <1>3, <2>1, <2>2 DEF PhaseRight
<1> QED
  BY <1>1, <1>2, <1>3, <1>4, <1>5, QuietStep

LEMMA RefSCMarkOutputPicInfo ==
  ASSUME RefInv, DpbInv', SCMarkOutputPicInfo
  PROVE  RefInv'
<1>1. SlotsLike(dpb, dpb') /\ dpb'.out_buf = dpb.out_buf
  BY DpbSCMarkOutputPicInfo DEF RefInv
<1>2. /\ dpc = "mark" /\ dpc' = "late" /\ UNCHANGED <<fb, out_fifo, core, opc, held>>
  BY DEF SCMarkOutputPicInfo
<1>3. NoneLost' /\ PhaseRight'
  BY <1>2 DEF NoneLost, PhaseRight, RefInv
<1> QED
  BY <1>1, <1>2, <1>3, QuietStep DEF SlotsLike

LEMMA RefOutputThreadWaits ==
  ASSUME RefInv, DpbInv',
         PeekWaits \/ NextPictureAborted \/ NextPictureEnd \/ UNCHANGED vars
  PROVE  RefInv'
<1>1. UNCHANGED <<fb, out_fifo, dpb, dpc, cur, core, held>>
  BY DEF PeekWaits, NextPictureAborted, NextPictureEnd, vars
<1>2. NoneLost' /\ PhaseRight'
  BY <1>1 DEF NoneLost, PhaseRight, RefInv, SlotIds, Temp
<1>3. SleepRight' \/ (opc' = "asleep" => opc = "asleep")
  BY <1>1 DEF PeekWaits, Peeking, IsHwOngoing, SleepRight, Hw, Used, NextPictureAborted,
              NextPictureEnd, vars
<1> QED
  BY <1>1, <1>2, <1>3, QuietStep

\* FinalizeOutputAll makes the temporary outputs final: no buffer changes hands.
LEMMA RefFinalizeFlags ==
  ASSUME RefInv, DpbInv', fb' = FinalizeOutputAll(fb),
         UNCHANGED <<out_fifo, dpb, core, opc, held>>,
         dpc # "run", dpc' \in {"push", "retry"}, dpc' = "retry" => dpc = "get"
  PROVE  RefInv'
<1>1. /\ \A b \in Bufs :
           /\ Used(fb', b) = IF "TEMP_OUTPUT" \in Used(fb, b)
                             THEN (Used(fb, b) \ {"TEMP_OUTPUT"}) \cup {"OUTPUT"}
                             ELSE Used(fb, b)
           /\ Count(fb', b) = Count(fb, b)
      /\ FreeExact(fb')
  BY FinalizeEffect, BasicTypes DEF RefInv
<1>2. ASSUME NEW b \in Bufs
      PROVE  /\ Hw(b)' <=> Hw(b)
             /\ ~Temp(b)'
             /\ Final(b)' <=> Final(b) \/ Temp(b)
             /\ "ALLOCATED" \in Used(fb', b) <=> "ALLOCATED" \in Used(fb, b)
             /\ "FREE" \in Used(fb', b) <=> "FREE" \in Used(fb, b)
  BY <1>1 DEF Hw, Temp, Final
<1>3. SlotsRight' /\ SlotIds' = SlotIds /\ DpbIds' = DpbIds
  BY <1>2, SlotsKept
<1>4. SameIds(dpb.out_buf, dpb'.out_buf) /\ SameIds(out_fifo, out_fifo')
  BY DEF SameIds
<1>5. OutputsRight' /\ Outputs' = Outputs
  BY <1>4, OutputsKept
<1>6. FlagsRight'
  <2>1. UNCHANGED <<Ids(dpb.out_buf), Ids(out_fifo), HeldIds>>
    BY DEF HeldIds
  <2> QED
    BY <1>2, <1>5, <2>1 DEF RefInv, FlagsRight, Outputs
<1>7. DisplayRight'
  BY <1>5, DisplayKept
<1>8. RefsHeld' /\ HwRight' /\ \A b : Users(b)' = Users(b)
  BY <1>2, CoresKept
<1>9. TakenRight' /\ NoneLost'
  BY DEF TakenRight, NoneLost, RefInv
<1>10. SleepRight'
  BY <1>2, SleepKept
<1>11. CountsRight'
  BY <1>1, <1>2, <1>3, <1>5, <1>8, CountsKept DEF Prepared
<1>12. PhaseRight'
  BY <1>2, <1>3 DEF PhaseRight, RefInv
<1> QED
  BY <1>1, <1>3, <1>5, <1>6, <1>7, <1>8, <1>9, <1>10, <1>11, <1>12 DEF RefInv

LEMMA RefFinalize ==
  ASSUME RefInv, DpbInv', Finalize
  PROVE  RefInv'
BY RefFinalizeFlags DEF Finalize

\* The new picture takes slot i with buffer id, which nobody uses; f is the list
\* in which the ids of the slots have changed hands.
LEMMA RefTakeBuffer ==
  ASSUME RefInv, DpbInv', dpc \in {"bump", "get"},
         NEW f \in FrameBufferList, NEW i \in Free(dpb) \ {DpbSize}, NEW id \in Bufs,
         TakeBuffer(f, i, id), cur'.pos = i, Count(fb, id) = 0,
         id = Mem(dpb, i) \/ id \notin SlotIds,
         UNCHANGED <<out_fifo, core, opc, held>>,
         FreeExact(f),
         \A b \in Bufs :
           /\ Count(f, b) = Count(fb, b)
           /\ "HW_ONGOING" \in Used(f, b) <=> Hw(b)
           /\ "TEMP_OUTPUT" \in Used(f, b) <=> Temp(b)
           /\ "OUTPUT" \in Used(f, b) <=> Final(b)
           /\ "ALLOCATED" \in Used(f, b)
                <=> b = id \/ \E j \in Slots \ {i} : Mem(dpb, j) = b
           /\ "FREE" \in Used(f, b)
                <=> ~ (b = id \/ \E j \in Slots \ {i} : Mem(dpb, j) = b)
  PROVE  RefInv'
<1> DEFINE ids == {Mem(dpb', j) : j \in Slots \ {DpbSize}}
<1>1. /\ dpb'.out_buf = dpb.out_buf /\ dpc' = "run"
      /\ \A j \in Slots : /\ Mem(dpb', j) = IF j = i THEN id ELSE Mem(dpb, j)
                          /\ Display(dpb', j) = IF j = i THEN cur.display
                                                         ELSE Display(dpb, j)
      /\ fb' = IncrementDPBRefCount(f, ids) /\ ids \in SUBSET Bufs
  BY TakeBufferIs DEF RefInv
<1>2. i \in Slots /\ DpbIds' = ids
  BY DEF Free, DpbIds, Mem
<1> HIDE DEF ids
<1>3. \A b \in Bufs : /\ Used(fb', b) = Used(f, b)
                      /\ Count(fb', b) = IF b \in ids THEN Count(fb, b) + 1 ELSE Count(fb, b)
  BY <1>1, IncrementEffect
<1>4. \A b \in Bufs : (Hw(b)' <=> Hw(b)) /\ (Temp(b)' <=> Temp(b)) /\ (Final(b)' <=> Final(b))
  BY <1>3 DEF Hw, Temp, Final
<1>5. \A b : b \in SlotIds' <=> b = id \/ \E j \in Slots \ {i} : Mem(dpb, j) = b
  BY <1>1, <1>2 DEF SlotIds
<1>6. SlotsRight'
  <2>1. \A j, k \in Slots : Mem(dpb, j) = Mem(dpb, k) => j = k
    BY DEF RefInv, SlotsRight
  <2>2. \A j \in Slots : j # i => Mem(dpb, j) # id
    BY <1>2, <2>1 DEF SlotIds
  <2>3. \A j, k \in Slots : Mem(dpb', j) = Mem(dpb', k) => j = k
    BY <1>1, <2>1, <2>2
  <2> QED
    BY <1>3, <1>5, <2>3 DEF SlotsRight
<1>7. SameIds(dpb.out_buf, dpb'.out_buf) /\ SameIds(out_fifo, out_fifo')
  BY <1>1 DEF SameIds
<1>8. OutputsRight' /\ FlagsRight' /\ Outputs' = Outputs
  BY <1>4, <1>7, OutputsKept
<1>9. Unused(id)
  BY ZeroIsUnused
<1>10. DisplayRight'
  BY <1>1, <1>8, <1>9 DEF DisplayRight, Unused, RefInv
<1>11. RefsHeld' /\ HwRight' /\ \A b : Users(b)' = Users(b)
  BY <1>4, CoresKept
<1>12. NoneLost' /\ PhaseRight'
  BY <1>1 DEF NoneLost, PhaseRight, RefInv
<1>13. TakenRight'
  <2>1. Mem(dpb', cur'.pos) = id
    BY <1>1, <1>2
  <2> QED
    BY <1>4, <1>8, <1>9, <1>11, <2>1 DEF TakenRight, Unused
<1>14. SleepRight'
  BY <1>4, SleepKept
<1>15. CountsRight'
  <2>1. ASSUME NEW b \in Bufs
        PROVE  Count(fb', b) = One(Hw(b)) + Cardinality(Users(b)) + One(b \in Outputs)
                                 + One(b \in ids)
    <3>1. ~Prepared(b) /\ One(Prepared(b)) = 0
      BY DEF Prepared, One
    <3>2. Count(fb, b) = One(Hw(b)) + Cardinality(Users(b)) + One(b \in Outputs)
      BY <3>1, UsersFinite DEF RefInv, CountsRight, One
    <3> QED
      BY <1>3, <3>2, UsersFinite DEF One
  <2>2. ASSUME NEW b \in Bufs
        PROVE  /\ One(Hw(b))' = One(Hw(b)) /\ One(b \in Outputs)' = One(b \in Outputs)
               /\ One(Prepared(b))' = One(b \in ids)
               /\ Cardinality(Users(b))' = Cardinality(Users(b))
    BY <1>1, <1>2, <1>4, <1>8, <1>11 DEF One, Prepared
  <2> QED
    BY <2>1, <2>2 DEF CountsRight
<1>16. FreeExact(fb')
  <2>1. ids \subseteq SlotIds'
    BY <1>1, <1>2, <1>5 DEF ids, SlotIds
  <2>2. ids \cap IdleIds(f) = {}
    <3>1. \A b \in IdleIds(f) : b \in Bufs /\ "ALLOCATED" \notin Used(f, b)
      BY DEF IdleIds, IsIdle, Used
    <3> QED
      BY <1>5, <2>1, <3>1
  <2> QED
    BY <1>1, <2>2, IncrementEffect
<1> QED
  BY <1>6, <1>8, <1>10, <1>11, <1>12, <1>13, <1>14, <1>15, <1>16 DEF RefInv

LEMMA RefAllocateDpbImage ==
  ASSUME RefInv, DpbInv', AllocateDpbImage
  PROVE  RefInv'
<1>1. PICK i \in Free(dpb) \ {DpbSize} :
        /\ dpc = "bump" /\ cur' = [cur EXCEPT !.pos = i]
        /\ \/ dpc' = "get" /\ UNCHANGED <<fb, dpb>>
           \/ /\ ~IsBufferReferenced(fb, Mem(dpb, i))
              /\ TakeBuffer(fb, i, Mem(dpb, i))
        /\ UNCHANGED <<out_fifo, core, opc, held, acked, broken>>
  BY AllocateDpbImageIs DEF RefInv
<1>2. i \in Slots /\ Mem(dpb, i) \in Bufs /\ cur \in Locals /\ fb \in FrameBufferList
  BY BasicTypes DEF RefInv, Free
<1>3. cur'.pos = i
  BY <1>1, <1>2 DEF Locals
<1>4. CASE dpc' = "get" /\ UNCHANGED <<fb, dpb>>
  <2>1. NoneLost' /\ PhaseRight'
    BY <1>1, <1>4 DEF NoneLost, PhaseRight, RefInv, SlotIds
  <2> QED
    BY <1>1, <1>4, <2>1, QuietStep
<1>5. CASE /\ ~IsBufferReferenced(fb, Mem(dpb, i))
           /\ TakeBuffer(fb, i, Mem(dpb, i))
  <2> DEFINE id == Mem(dpb, i)
  <2>1. Count(fb, id) = 0
    BY <1>5 DEF IsBufferReferenced, Count
  <2>2. \A b : b \in SlotIds <=> b = id \/ \E j \in Slots \ {i} : Mem(dpb, j) = b
    BY <1>2 DEF SlotIds
  <2>3. \A b \in Bufs :
           /\ "ALLOCATED" \in Used(fb, b) <=> b \in SlotIds
           /\ "FREE" \in Used(fb, b) <=> ~ (b \in SlotIds)
    BY DEF RefInv, SlotsRight
  <2>4. FreeExact(fb)
    BY DEF RefInv
  <2>5. id \in Bufs /\ TakeBuffer(fb, i, id) /\ id = Mem(dpb, i)
    BY <1>2, <1>5
  <2> HIDE DEF id
  <2> QED
    BY <1>1, <1>2, <1>3, <2>1, <2>2, <2>3, <2>4, <2>5, RefTakeBuffer DEF Hw, Temp, Final
<1> QED
  BY <1>1, <1>4, <1>5

LEMMA RefGetFreeBuffer ==
  ASSUME RefInv, DpbInv', GetFreeBuffer
  PROVE  RefInv'
<1> DEFINE old == Mem(dpb, cur.pos)
<1>1. /\ cur \in Locals /\ fb \in FrameBufferList
      /\ dpc = "get" /\ cur.pos \in Free(dpb) \ {DpbSize}
  BY BasicTypes DEF RefInv, DpbInv, SlotChosen, GetFreeBuffer
<1>2. cur.pos \in Slots /\ old \in Bufs /\ old \in SlotIds
  BY <1>1, BasicTypes DEF RefInv, Free, SlotIds
<1>3. /\ \/ \E id \in FreePicBuffer(fb, old) :
              TakeBuffer(IF id = old THEN fb
                         ELSE PushFreeBuffer(PopFreeBuffer(fb, id), old), cur.pos, id)
         \/ fb' = FinalizeOutputAll(fb) /\ dpc' = "retry" /\ UNCHANGED dpb
      /\ UNCHANGED <<out_fifo, cur, core, opc, held, acked, broken>>
  BY DEF GetFreeBuffer, Mem
<1>4. \A j, k \in Slots : Mem(dpb, j) = Mem(dpb, k) => j = k
  BY DEF RefInv, SlotsRight
<1>5. \A b : b \in SlotIds <=> b = old \/ \E j \in Slots \ {cur.pos} : Mem(dpb, j) = b
  BY <1>2 DEF SlotIds
<1>6. ~ \E j \in Slots \ {cur.pos} : Mem(dpb, j) = old
  BY <1>2, <1>4
<1> HIDE DEF old
<1>7. ASSUME NEW id \in FreePicBuffer(fb, old),
             TakeBuffer(IF id = old THEN fb
                        ELSE PushFreeBuffer(PopFreeBuffer(fb, id), old), cur.pos, id)
      PROVE  RefInv'
  <2> DEFINE f == PushFreeBuffer(PopFreeBuffer(fb, id), old)
  <2>1. id \in IdleIds(fb)
    BY <1>1, <1>2, FreePicBufferIs
  <2>2. id \in Bufs /\ id \notin SlotIds /\ Count(fb, id) = 0 /\ Used(fb, id) = {"FREE"}
    BY <2>1, IdleIsOutside
  <2>3. id # old /\ old \notin IdleIds(fb)
    BY <1>2, <2>2, SlotIsNotIdle
  <2>4. Count(fb, old) = 0 => Used(fb, old) = {"ALLOCATED"}
    <3>1. ASSUME Count(fb, old) = 0 PROVE Used(fb, old) = {"ALLOCATED"}
      <4>1. ~Hw(old) /\ old \notin Outputs
        BY <1>2, <3>1, ZeroIsUnused DEF Unused
      <4>2. ~Temp(old) /\ ~Final(old)
        BY <1>2, <4>1 DEF RefInv, FlagsRight, Outputs
      <4>3. "ALLOCATED" \in Used(fb, old) /\ "FREE" \notin Used(fb, old)
        BY <1>2 DEF RefInv, SlotsRight
      <4>4. Used(fb, old) \subseteq Flags
        BY <1>2, BasicTypes DEF RefInv
      <4> QED
        BY <4>1, <4>2, <4>3, <4>4 DEF Hw, Temp, Final, Flags
    <3> QED
      BY <3>1
  <2>5. /\ f \in FrameBufferList
        /\ \A b \in Bufs :
             /\ Used(f, b) = IF b = id THEN {"ALLOCATED"}
                             ELSE IF b = old
                                  THEN (Used(fb, b) \ {"ALLOCATED"}) \cup {"FREE"}
                                  ELSE Used(fb, b)
             /\ Count(f, b) = Count(fb, b)
        /\ FreeExact(f)
    BY <1>1, <1>2, <2>1, <2>3, <2>4, SwapEffect DEF RefInv
  <2>6. TakeBuffer(f, cur.pos, id) /\ cur'.pos = cur.pos
    BY <1>3, <1>7, <2>3
  <2> HIDE DEF f
  <2>7. ASSUME NEW b \in Bufs
        PROVE  /\ "HW_ONGOING" \in Used(f, b) <=> Hw(b)
               /\ "TEMP_OUTPUT" \in Used(f, b) <=> Temp(b)
               /\ "OUTPUT" \in Used(f, b) <=> Final(b)
    BY <2>2, <2>5 DEF Hw, Temp, Final
  <2>8. ASSUME NEW b \in Bufs
        PROVE  /\ "ALLOCATED" \in Used(f, b)
                    <=> b = id \/ \E j \in Slots \ {cur.pos} : Mem(dpb, j) = b
               /\ "FREE" \in Used(f, b)
                    <=> ~ (b = id \/ \E j \in Slots \ {cur.pos} : Mem(dpb, j) = b)
    <3>1. /\ "ALLOCATED" \in Used(fb, b) <=> b \in SlotIds
          /\ "FREE" \in Used(fb, b) <=> b \notin SlotIds
      BY DEF RefInv, SlotsRight
    <3>2. CASE b = id
      BY <2>5, <3>2
    <3>3. CASE b = old
      BY <1>6, <2>3, <2>5, <3>3
    <3>4. CASE b # id /\ b # old
      BY <1>5, <2>5, <3>1, <3>4
    <3> QED
      BY <3>2, <3>3, <3>4
  <2> QED
    BY <1>1, <1>3, <2>2, <2>5, <2>6, <2>7, <2>8, RefTakeBuffer
<1>8. CASE fb' = FinalizeOutputAll(fb) /\ dpc' = "retry" /\ UNCHANGED dpb
  BY <1>1, <1>3, <1>8, RefFinalizeFlags
<1> QED
  BY <1>3, <1>7, <1>8

\* The preparing thread's counts become the job's: HevcMCSetHwRdyCallback.
LEMMA RefRunAsic ==
  ASSUME RefInv, DpbInv', NEW c \in Cores, RunAsic(c)
  PROVE  RefInv'
<1> DEFINE out == Mem(dpb, cur.pos)
           refs == {dpb.slots[i].mem_idx : i \in {j \in Slots : dpb.slots[j].reference}}
           job == [st |-> "run", out_id |-> out, ref_id |-> DpbIds, ref_mem_idx |-> refs]
<1>1. /\ fb \in FrameBufferList /\ cur.pos \in Slots /\ out \in Bufs /\ out \in SlotIds
      /\ core \in [Cores -> Job]
  BY BasicTypes DEF RefInv, Locals, SlotIds
<1>2. /\ fb' = MarkHWOutput(fb, out) /\ core' = [core EXCEPT ![c] = job]
      /\ core[c].st = "idle" /\ dpc = "run" /\ dpc' = "check"
      /\ UNCHANGED <<out_fifo, dpb, opc, held, acked>>
  BY DEF RunAsic, Mem
<1>3. Unused(out)
  BY <1>2 DEF RefInv, TakenRight
<1>4. refs \subseteq DpbIds
  <2>1. DpbSize \in Free(dpb)
    BY DEF RefInv, DpbInv, DpbExact
  <2>2. \A j \in Slots : dpb.slots[j].reference => j # DpbSize
    BY <2>1 DEF Free, IsRef
  <2> QED
    BY <2>2 DEF DpbIds
<1> HIDE DEF out, refs
<1>5. /\ \A b \in Bufs :
           /\ Used(fb', b) = IF b = out THEN Used(fb, b) \cup {"HW_ONGOING"} ELSE Used(fb, b)
           /\ Count(fb', b) = IF b = out THEN Count(fb, b) + 1 ELSE Count(fb, b)
      /\ FreeExact(fb')
  <2>1. out \notin IdleIds(fb) /\ FreeExact(fb)
    BY <1>1, SlotIsNotIdle DEF RefInv
  <2>2. fb' = Mark(fb, out, "HW_ONGOING") /\ "HW_ONGOING" \in Flags
    BY <1>2 DEF MarkHWOutput, Flags
  <2> QED
    BY <1>1, <2>1, <2>2, MarkEffect
<1>6. ASSUME NEW b \in Bufs
      PROVE  /\ Hw(b)' <=> Hw(b) \/ b = out
             /\ Temp(b)' <=> Temp(b)
             /\ Final(b)' <=> Final(b)
             /\ "ALLOCATED" \in Used(fb', b) <=> "ALLOCATED" \in Used(fb, b)
             /\ "FREE" \in Used(fb', b) <=> "FREE" \in Used(fb, b)
  BY <1>5 DEF Hw, Temp, Final
<1>7. SlotsRight' /\ DpbIds' = DpbIds /\ SlotIds' = SlotIds
  BY <1>2, <1>6, SlotsKept
<1>8. SameIds(dpb.out_buf, dpb'.out_buf) /\ SameIds(out_fifo, out_fifo')
  BY <1>2 DEF SameIds
<1>9. OutputsRight' /\ FlagsRight' /\ Outputs' = Outputs
  BY <1>2, <1>6, <1>8, OutputsKept
<1>10. DisplayRight'
  BY <1>2, <1>9, DisplayKept
<1>11. /\ core'[c] = job /\ \A d \in Cores \ {c} : core'[d] = core[d]
       /\ ~Writing(c) /\ ~Counting(c) /\ Writing(c)' /\ Counting(c)'
       /\ \A d \in Cores \ {c} : (Writing(d)' <=> Writing(d)) /\ (Counting(d)' <=> Counting(d))
  BY <1>1, <1>2 DEF Writing, Counting
<1>12. \A b : Users(b)' = IF b \in DpbIds THEN Users(b) \cup {c} ELSE Users(b)
  BY <1>11 DEF Users
<1>13. \A b : c \notin Users(b)
  BY <1>11 DEF Users
<1>14. NoneLost' /\ RefsHeld'
  BY <1>2, <1>4, <1>11 DEF RefInv, NoneLost, RefsHeld
<1>15. HwRight'
  <2>1. \A d \in Cores \ {c} : Writing(d) => core[d].out_id # out
    BY <1>1, <1>3 DEF RefInv, HwRight, Unused
  <2>2. core'[c].out_id = out
    BY <1>11
  <2>3. \A d, e \in Cores : Writing(d)' /\ Writing(e)' /\ core'[d].out_id = core'[e].out_id
                            => d = e
    BY <1>11, <2>1, <2>2 DEF RefInv, HwRight
  <2>4. \A b \in Bufs : Hw(b)' <=> \E d \in Cores : Writing(d)' /\ core'[d].out_id = b
    BY <1>6, <1>11, <2>2 DEF RefInv, HwRight
  <2> QED
    BY <2>3, <2>4 DEF HwRight
<1>16. TakenRight' /\ PhaseRight'
  BY <1>2 DEF TakenRight, PhaseRight
<1>17. SleepRight'
  BY <1>2, <1>6, SleepKept
<1>18. CountsRight'
  <2>1. ASSUME NEW b \in Bufs
        PROVE  Count(fb', b) = One(Hw(b) \/ b = out) + Cardinality(Users(b)')
                                 + One(b \in Outputs)
    <3>1. Count(fb, b) = One(Hw(b)) + Cardinality(Users(b)) + One(b \in Outputs)
                           + One(b \in DpbIds)
      BY <1>2 DEF RefInv, CountsRight, Prepared
    <3>2. Cardinality(Users(b)') = Cardinality(Users(b)) + One(b \in DpbIds)
      BY <1>12, <1>13, UsersFinite, FS_AddElement DEF One
    <3>3. Count(fb', b) = Count(fb, b) + One(b = out)
      BY <1>5, BasicTypes DEF One, RefInv
    <3>4. One(Hw(b) \/ b = out) = One(Hw(b)) + One(b = out)
      BY <1>3 DEF One, Unused
    <3>5. /\ One(Hw(b)) \in Int /\ One(b \in DpbIds) \in Int /\ One(b = out) \in Int
          /\ One(b \in Outputs) \in Int /\ Cardinality(Users(b)) \in Int
      BY UsersFinite DEF One
    <3> QED
      BY <3>1, <3>2, <3>3, <3>4, <3>5
  <2>2. ASSUME NEW b \in Bufs
        PROVE  /\ One(Hw(b))' = One(Hw(b) \/ b = out)
               /\ One(b \in Outputs)' = One(b \in Outputs)
               /\ One(Prepared(b))' = 0
    BY <1>2, <1>6, <1>9 DEF One, Prepared
  <2>3. ASSUME NEW b \in Bufs
        PROVE  /\ One(Hw(b) \/ b = out) \in Int /\ One(b \in Outputs) \in Int
               /\ Cardinality(Users(b)') \in Int
    <3>1. Cardinality(Users(b) \cup {c}) \in Int /\ Cardinality(Users(b)) \in Int
      BY <1>13, UsersFinite, FS_AddElement
    <3>2. Cardinality(Users(b)') \in Int
      BY <1>12, <3>1
    <3> QED
      BY <3>2 DEF One
  <2> QED
    BY <2>1, <2>2, <2>3 DEF CountsRight
<1> QED
  BY <1>5, <1>7, <1>9, <1>10, <1>14, <1>15, <1>16, <1>17, <1>18 DEF RefInv

\* The callback ends the writing: ClearHWOutput takes the core's count, and
\* wakes the output thread when it is this picture it waits for.
LEMMA RefHwReady ==
  ASSUME RefInv, DpbInv', NEW c \in Cores, NEW result \in Results, HwReady(c, result)
  PROVE  RefInv'
<1> DEFINE out == core[c].out_id
<1>1. /\ fb \in FrameBufferList /\ out \in Bufs /\ core \in [Cores -> Job]
      /\ out_fifo \in Seq(Pics) /\ dpb.out_buf \in Seq(Pics)
  BY BasicTypes DEF RefInv
<1>2. /\ fb' = ClearHWOutput(fb, out) /\ core' = [core EXCEPT ![c].st = "cleared"]
      /\ opc' = IF SignalsHwReady(fb, out) /\ opc = "asleep" THEN "awake" ELSE opc
      /\ core[c].st = "run" /\ UNCHANGED <<dpc, cur, held, acked>>
  BY DEF HwReady
<1>3. /\ SlotsLike(dpb, dpb') /\ SameIds(dpb.out_buf, dpb'.out_buf)
      /\ SameIds(out_fifo, out_fifo')
  BY HwReadyTells DEF RefInv, SameIds
<1> HIDE DEF out
<1>4. Writing(c) /\ Counting(c) /\ Hw(out)
  BY <1>1, <1>2 DEF Writing, Counting, RefInv, HwRight, out
<1>5. /\ \A b \in Bufs :
           /\ Used(fb', b) = IF b = out THEN Used(fb, b) \ {"HW_ONGOING"} ELSE Used(fb, b)
           /\ Count(fb', b) = IF b = out /\ Count(fb, b) > 0 THEN Count(fb, b) - 1
                                                             ELSE Count(fb, b)
      /\ FreeExact(fb')
  <2>1. out \notin IdleIds(fb) /\ FreeExact(fb)
    BY <1>1, <1>4, SlotIsNotIdle DEF RefInv
  <2> DEFINE types == {"HW_ONGOING"}
  <2>2. fb' = Unmark(fb, out, types) /\ types \in SUBSET Flags
    BY <1>2 DEF ClearHWOutput, Flags
  <2> HIDE DEF types
  <2>3. /\ \A b \in Bufs :
             /\ Used(fb', b) = IF b = out THEN Used(fb, b) \ types ELSE Used(fb, b)
             /\ Count(fb', b) = IF b = out /\ Count(fb, b) > 0 THEN Count(fb, b) - 1
                                                               ELSE Count(fb, b)
        /\ FreeExact(fb')
    BY <1>1, <2>1, <2>2, UnmarkEffect
  <2> QED
    BY <2>3 DEF types
<1>6. ASSUME NEW b \in Bufs
      PROVE  /\ Hw(b)' <=> Hw(b) /\ b # out
             /\ Temp(b)' <=> Temp(b)
             /\ Final(b)' <=> Final(b)
             /\ "ALLOCATED" \in Used(fb', b) <=> "ALLOCATED" \in Used(fb, b)
             /\ "FREE" \in Used(fb', b) <=> "FREE" \in Used(fb, b)
  BY <1>5 DEF Hw, Temp, Final
<1>7. SlotsRight' /\ DpbIds' = DpbIds /\ SlotIds' = SlotIds
  BY <1>3, <1>6, SlotsKept DEF SlotsLike
<1>8. OutputsRight' /\ FlagsRight' /\ Outputs' = Outputs
      /\ Ids(dpb'.out_buf) = Ids(dpb.out_buf)
  BY <1>2, <1>3, <1>6, OutputsKept
<1>9. DisplayRight'
  BY <1>3, <1>8, DisplayKept DEF SlotsLike
<1>10. /\ \A d \in Cores : /\ core'[d].out_id = core[d].out_id
                           /\ core'[d].ref_id = core[d].ref_id
                           /\ core'[d].ref_mem_idx = core[d].ref_mem_idx
                           /\ Counting(d)' <=> Counting(d)
                           /\ Writing(d)' <=> Writing(d) /\ d # c
       /\ \A d \in Cores : core[d].st # "lost" => core'[d].st # "lost"
  <2>1. /\ core'[c].st = "cleared" /\ core'[c].out_id = core[c].out_id
        /\ core'[c].ref_id = core[c].ref_id /\ core'[c].ref_mem_idx = core[c].ref_mem_idx
        /\ \A d \in Cores \ {c} : core'[d] = core[d]
    BY <1>1, <1>2 DEF Job
  <2> QED
    BY <1>4, <2>1 DEF Writing, Counting
<1>11. \A b : Users(b)' = Users(b)
  BY <1>10 DEF Users
<1>12. NoneLost' /\ RefsHeld'
  BY <1>2, <1>10 DEF RefInv, NoneLost, RefsHeld
<1>13. HwRight'
  <2>1. \A d \in Cores : Writing(d) /\ core[d].out_id = out => d = c
    BY <1>4 DEF RefInv, HwRight, out
  <2>2. core[c].out_id = out
    BY DEF out
  <2>3. \A b \in Bufs : Hw(b)' <=> \E d \in Cores : Writing(d)' /\ core'[d].out_id = b
    BY <1>6, <1>10, <2>1, <2>2 DEF RefInv, HwRight
  <2>4. \A d, e \in Cores : Writing(d)' /\ Writing(e)' /\ core'[d].out_id = core'[e].out_id
                            => d = e
    BY <1>10 DEF RefInv, HwRight
  <2> QED
    BY <2>3, <2>4 DEF HwRight
<1>14. TakenRight'
  BY <1>2, <1>3, <1>6, <1>8, <1>11, TakenKept DEF SlotsLike
<1>15. PhaseRight'
  <2>1. dpb.out_buf = <<>> => dpb'.out_buf = <<>>
    <3>1. dpb'.out_buf \in Seq(Pics)
      BY DEF DpbInv, TypeOK, DpbStorage
    <3> QED
      BY <1>1, <1>3, <3>1, SameIdsEffect
  <2>2. Ids(dpb.out_buf) \subseteq Bufs
    BY BasicTypes DEF RefInv
  <2> QED
    BY <1>2, <1>6, <1>7, <1>8, <2>1, <2>2 DEF PhaseRight, RefInv
<1>16. SleepRight'
  <2>1. ASSUME opc' = "asleep"
        PROVE  out_fifo' # <<>> /\ Hw(Head(out_fifo).mem_idx)'
    <3>1. opc = "asleep" /\ ~SignalsHwReady(fb, out)
      BY <1>2, <2>1
    <3>2. out_fifo # <<>> /\ Hw(Head(out_fifo).mem_idx)
      BY <3>1 DEF RefInv, SleepRight
    <3>3. /\ Len(out_fifo') = Len(out_fifo) /\ out_fifo' \in Seq(Pics)
          /\ out_fifo'[1].mem_idx = out_fifo[1].mem_idx
          /\ Head(out_fifo).mem_idx \in Ids(out_fifo) /\ Head(out_fifo) = out_fifo[1]
      <4>1. out_fifo' \in Seq(Pics)
        BY DEF DpbInv, TypeOK
      <4>2. 1 \in DOMAIN out_fifo /\ Head(out_fifo) = out_fifo[1]
        BY <1>1, <3>2
      <4> QED
        BY <1>3, <4>1, <4>2 DEF SameIds, Ids
    <3>4. out_fifo' # <<>> /\ Head(out_fifo') = out_fifo'[1]
      <4>1. Len(out_fifo) # 0
        BY <1>1, <3>2
      <4> QED
        BY <3>3, <4>1
    <3>5. Head(out_fifo).mem_idx \in Bufs /\ Final(Head(out_fifo).mem_idx)
      BY <3>3, BasicTypes DEF RefInv, FlagsRight
    <3>6. ~Final(out)
      <4>1. "OUTPUT" \notin Used(fb', out)
        BY <1>2, <3>1 DEF SignalsHwReady, IsBufferOutput, Used
      <4> QED
        BY <1>1, <1>5, <4>1 DEF Final
    <3>7. (Head(out_fifo).mem_idx)' = Head(out_fifo).mem_idx
      BY <3>3, <3>4
    <3>8. Hw(Head(out_fifo).mem_idx)'
      <4> DEFINE h == Head(out_fifo).mem_idx
      <4>1. h \in Bufs /\ Hw(h) /\ h # out /\ h' = h
        BY <3>2, <3>5, <3>6, <3>7
      <4> QED
        BY <1>6, <4>1 DEF Hw
    <3> QED
      BY <3>4, <3>8
  <2> QED
    BY <2>1 DEF SleepRight
<1>17. CountsRight'
  <2>1. ASSUME NEW b \in Bufs
        PROVE  Count(fb', b) = One(Hw(b) /\ b # out) + Cardinality(Users(b))
                                 + One(b \in Outputs) + One(Prepared(b))
    <3>1. Count(fb, b) = One(Hw(b)) + Cardinality(Users(b)) + One(b \in Outputs)
                           + One(Prepared(b))
      BY DEF RefInv, CountsRight
    <3>2. /\ One(Hw(b) /\ b # out) \in Nat /\ One(b \in Outputs) \in Nat
          /\ One(Prepared(b)) \in Nat /\ Cardinality(Users(b)) \in Nat
      BY UsersFinite DEF One
    <3>3. One(Hw(b)) = One(Hw(b) /\ b # out) + One(b = out)
      BY <1>4 DEF One
    <3>4. One(b = out) = IF b = out THEN 1 ELSE 0
      BY DEF One
    <3>5. CASE b = out
      <4>1. Count(fb', b) = IF Count(fb, b) > 0 THEN Count(fb, b) - 1 ELSE Count(fb, b)
        BY <1>5, <3>5
      <4>2. Count(fb, b) = One(Hw(b) /\ b # out) + 1 + Cardinality(Users(b))
                             + One(b \in Outputs) + One(Prepared(b))
        BY <3>1, <3>3, <3>4, <3>5
      <4> QED
        BY <3>2, <4>1, <4>2
    <3>6. CASE b # out
      <4>1. Count(fb', b) = Count(fb, b) /\ One(b = out) = 0
        BY <1>5, <3>4, <3>6
      <4> QED
        BY <3>1, <3>2, <3>3, <4>1
    <3> QED
      BY <3>5, <3>6
  <2>2. ASSUME NEW b \in Bufs
        PROVE  /\ One(Hw(b))' = One(Hw(b) /\ b # out)
               /\ One(b \in Outputs)' = One(b \in Outputs)
               /\ One(Prepared(b))' = One(Prepared(b))
               /\ Cardinality(Users(b))' = Cardinality(Users(b))
    BY <1>2, <1>6, <1>7, <1>8, <1>11 DEF One, Prepared
  <2> QED
    BY <2>1, <2>2 DEF CountsRight
<1> QED
  BY <1>5, <1>7, <1>8, <1>9, <1>12, <1>13, <1>14, <1>15, <1>16, <1>17 DEF RefInv

\* DecrementDPBRefCountExt takes the job's counts.
LEMMA RefReleaseCore ==
  ASSUME RefInv, DpbInv', NEW c \in Cores, ReleaseCore(c)
  PROVE  RefInv'
<1> DEFINE ids == core[c].ref_id
<1>1. /\ fb \in FrameBufferList /\ ids \in SUBSET Bufs /\ core \in [Cores -> Job]
  BY BasicTypes DEF RefInv
<1>2. /\ fb' = DecrementDPBRefCountExt(fb, ids) /\ core' = [core EXCEPT ![c] = IdleCore]
      /\ core[c].st = "cleared" /\ UNCHANGED <<out_fifo, dpb, dpc, cur, opc, held, acked>>
  BY DEF ReleaseCore
<1>3. /\ \A b \in Bufs :
           /\ Used(fb', b) = Used(fb, b)
           /\ Count(fb', b) = IF b \in ids /\ Count(fb, b) > 0 THEN Count(fb, b) - 1
                                                               ELSE Count(fb, b)
      /\ FreeExact(fb')
  BY <1>1, <1>2, DecrementEffect DEF RefInv
<1>4. \A b \in Bufs : (Hw(b)' <=> Hw(b)) /\ (Temp(b)' <=> Temp(b)) /\ (Final(b)' <=> Final(b))
  BY <1>3 DEF Hw, Temp, Final
<1>5. SlotsRight' /\ DpbIds' = DpbIds /\ SlotIds' = SlotIds
  BY <1>2, <1>3, SlotsKept
<1>6. SameIds(dpb.out_buf, dpb'.out_buf) /\ SameIds(out_fifo, out_fifo')
  BY <1>2 DEF SameIds
<1>7. OutputsRight' /\ FlagsRight' /\ Outputs' = Outputs
  BY <1>2, <1>4, <1>6, OutputsKept
<1>8. DisplayRight'
  BY <1>2, <1>7, DisplayKept
<1>9. /\ core'[c].st = "idle" /\ \A d \in Cores \ {c} : core'[d] = core[d]
      /\ ~Writing(c) /\ Counting(c) /\ ~Writing(c)' /\ ~Counting(c)'
      /\ \A d \in Cores \ {c} : (Writing(d)' <=> Writing(d)) /\ (Counting(d)' <=> Counting(d))
  BY <1>1, <1>2 DEF IdleCore, Writing, Counting
<1>10. \A b : Users(b)' = Users(b) \ {c}
  BY <1>9 DEF Users
<1>11. \A b : c \in Users(b) <=> b \in ids
  BY <1>9 DEF Users
<1> HIDE DEF ids
<1>12. NoneLost' /\ RefsHeld' /\ HwRight'
  BY <1>2, <1>4, <1>9 DEF RefInv, NoneLost, RefsHeld, HwRight
<1>13. TakenRight'
  BY <1>2, <1>4, <1>7, <1>10, TakenKept
<1>14. PhaseRight'
  <2>1. Ids(dpb.out_buf) \subseteq Bufs
    BY BasicTypes DEF RefInv
  <2> QED
    BY <1>2, <1>4, <1>5, <2>1 DEF PhaseRight, RefInv
<1>15. SleepRight'
  BY <1>2, <1>4, SleepKept
<1>16. CountsRight'
  <2>1. ASSUME NEW b \in Bufs
        PROVE  Count(fb', b) = One(Hw(b)) + Cardinality(Users(b)')
                                 + One(b \in Outputs) + One(Prepared(b))
    <3>1. Count(fb, b) = One(Hw(b)) + Cardinality(Users(b)) + One(b \in Outputs)
                           + One(Prepared(b))
      BY DEF RefInv, CountsRight
    <3>2. /\ One(Hw(b)) \in Nat /\ One(b \in Outputs) \in Nat
          /\ One(Prepared(b)) \in Nat /\ Cardinality(Users(b)) \in Nat
      BY UsersFinite DEF One
    <3>3. CASE b \in ids
      <4>1. Cardinality(Users(b)') = Cardinality(Users(b)) - 1 /\ Users(b) # {}
        BY <1>10, <1>11, <3>3, UsersFinite, FS_RemoveElement
      <4>2. Cardinality(Users(b)) > 0
        BY <3>2, <4>1, UsersFinite
      <4> QED
        BY <1>3, <3>1, <3>2, <3>3, <4>1, <4>2
    <3>4. CASE b \notin ids
      <4>1. Users(b)' = Users(b)
        BY <1>10, <1>11, <3>4
      <4> QED
        BY <1>3, <3>1, <3>4, <4>1
    <3> QED
      BY <3>3, <3>4
  <2>2. ASSUME NEW b \in Bufs
        PROVE  /\ One(Hw(b))' = One(Hw(b))
               /\ One(b \in Outputs)' = One(b \in Outputs)
               /\ One(Prepared(b))' = One(Prepared(b))
    BY <1>2, <1>4, <1>5, <1>7 DEF One, Prepared
  <2> QED
    BY <2>1, <2>2 DEF CountsRight
<1> QED
  BY <1>3, <1>5, <1>7, <1>8, <1>12, <1>13, <1>14, <1>15, <1>16 DEF RefInv

LEMMA OutputIsCounted ==
  ASSUME RefInv, NEW b \in Outputs
  PROVE  b \in Bufs /\ Count(fb, b) \in Nat /\ Count(fb, b) > 0
<1>1. b \in Bufs /\ Count(fb, b) \in Nat
  BY BasicTypes DEF RefInv
<1> QED
  BY <1>1, ZeroIsUnused DEF Unused

\* What a step adds to the outputs, or takes from them, it counts.
LEMMA CountsOfOutputs ==
  ASSUME RefInv, core' = core,
         \A b \in Bufs :
           /\ Hw(b)' <=> Hw(b)
           /\ Prepared(b)' <=> Prepared(b)
           /\ Count(fb', b) = IF b \in Outputs
                              THEN IF b \in Outputs' THEN Count(fb, b) ELSE Count(fb, b) - 1
                              ELSE IF b \in Outputs' THEN Count(fb, b) + 1 ELSE Count(fb, b)
  PROVE  CountsRight'
<1>1. \A b : Users(b)' = Users(b)
  BY CoresKept
<1>2. ASSUME NEW b \in Bufs
      PROVE  Count(fb', b) = One(Hw(b)) + Cardinality(Users(b)) + One(b \in Outputs')
                               + One(Prepared(b))
  <2>1. Count(fb, b) = One(Hw(b)) + Cardinality(Users(b)) + One(b \in Outputs)
                         + One(Prepared(b))
    BY DEF RefInv, CountsRight
  <2>2. /\ One(Hw(b)) \in Nat /\ One(Prepared(b)) \in Nat /\ Cardinality(Users(b)) \in Nat
    BY UsersFinite DEF One
  <2>3. /\ One(b \in Outputs) = IF b \in Outputs THEN 1 ELSE 0
        /\ One(b \in Outputs') = IF b \in Outputs' THEN 1 ELSE 0
    BY DEF One
  <2>4. CASE b \in Outputs
    BY <2>1, <2>2, <2>3, <2>4
  <2>5. CASE b \notin Outputs
    BY <2>1, <2>2, <2>3, <2>5
  <2> QED
    BY <2>4, <2>5
<1>3. ASSUME NEW b \in Bufs
      PROVE  /\ One(Hw(b))' = One(Hw(b)) /\ One(Prepared(b))' = One(Prepared(b))
             /\ One(b \in Outputs)' = One(b \in Outputs')
             /\ Cardinality(Users(b))' = Cardinality(Users(b))
  BY <1>1 DEF One
<1> QED
  BY <1>2, <1>3 DEF CountsRight

LEMMA RefOutputPicture ==
  ASSUME RefInv, DpbInv', OutputPicture
  PROVE  RefInv'
<1>1. PICK i \in Displayable :
        LET s == dpb.slots[i]
            shown == s.display = "shown"
            full == shown /\ Len(dpb.out_buf) = DpbSize + 1
            kept == IF full THEN Tail(dpb.out_buf) ELSE dpb.out_buf
            pic == [mem_idx |-> s.mem_idx, error_info |-> s.error_info]
            fb1 == IF full THEN ClearOutput(fb, Head(dpb.out_buf).mem_idx) ELSE fb
        IN /\ dpb' = [dpb EXCEPT
                !.slots[i].display = "no",
                !.num_out_pics_buffered = IF shown THEN @ - 1 ELSE @,
                !.fullness = IF s.reference THEN @ ELSE @ - 1,
                !.out_buf = IF shown THEN Append(kept, pic) ELSE @]
           /\ fb' = IF shown THEN MarkTempOutput(fb1, s.mem_idx) ELSE fb
  BY DEF OutputPicture
<1> DEFINE m == Mem(dpb, i)
           pic == [mem_idx |-> m, error_info |-> dpb.slots[i].error_info]
           q == IF Display(dpb, i) = "shown" THEN Append(dpb.out_buf, pic) ELSE dpb.out_buf
<1>2. /\ dpb \in DpbStorage /\ fb \in FrameBufferList /\ DpbExact(dpb)
      /\ dpb.out_buf \in Seq(Pics)
  BY BasicTypes DEF RefInv, DpbInv
<1>3. i \in Slots /\ Display(dpb, i) # "no" /\ dpb.slots[i] \in SlotType
      /\ m \in Bufs /\ m \in SlotIds
  BY <1>2, ModelSets, BasicTypes DEF DpbStorage, RefInv, SlotIds
<1>4. Len(dpb.out_buf) # DpbSize + 1
  BY CountersNat, SlotsFacts DEF RefInv
<1>5. pic \in Pics /\ pic.mem_idx = m
  BY <1>3 DEF SlotType, Pics
<1>6. /\ dpb' = PutOut(dpb, i, q)
      /\ fb' = IF Display(dpb, i) = "shown" THEN MarkTempOutput(fb, m) ELSE fb
  BY <1>1, <1>4 DEF Display, Mem, IsRef, PutOut
<1>7. q \in Seq(Pics)
  <2> HIDE DEF pic
  <2> QED
    BY <1>2, <1>5
<1>8. m \notin Outputs
  BY <1>3 DEF RefInv, DisplayRight
<1> HIDE DEF pic, m
<1>9. /\ Ids(q) = IF Display(dpb, i) = "shown" THEN Ids(dpb.out_buf) \cup {m}
                                               ELSE Ids(dpb.out_buf)
      /\ Ordered(q)
  BY <1>2, <1>5, <1>8, IdsAppend DEF Outputs, RefInv, OutputsRight
<1> HIDE DEF q
<1>10. /\ dpb'.out_buf = q
       /\ \A j \in Slots : Mem(dpb', j) = Mem(dpb, j)
       /\ \A j \in Slots : Display(dpb', j) = IF j = i THEN "no" ELSE Display(dpb, j)
  BY <1>2, <1>3, <1>6, <1>7, PutOutEffect
<1>11. UNCHANGED <<out_fifo, dpc, cur, core, opc, held, acked, broken>>
       /\ dpc \in {"flush", "eosflush", "bump", "late"}
  BY DEF OutputPicture, MoreToOutput
<1>12. CASE Display(dpb, i) # "shown"
  <2>1. NoneLost' /\ SlotIds' = SlotIds
    BY <1>10, <1>11 DEF NoneLost, RefInv, SlotIds
  <2>2. fb' = fb /\ dpb'.out_buf = dpb.out_buf
    BY <1>6, <1>10, <1>12 DEF q
  <2>3. PhaseRight'
    BY <1>11, <2>1, <2>2 DEF PhaseRight, RefInv, Temp
  <2> QED
    BY <1>10, <1>11, <2>1, <2>2, <2>3, QuietStep
<1>13. CASE Display(dpb, i) = "shown"
  <2>1. /\ \A b \in Bufs :
             /\ Used(fb', b) = IF b = m THEN Used(fb, b) \cup {"TEMP_OUTPUT"} ELSE Used(fb, b)
             /\ Count(fb', b) = IF b = m THEN Count(fb, b) + 1 ELSE Count(fb, b)
        /\ FreeExact(fb')
    <3>1. m \notin IdleIds(fb) /\ FreeExact(fb)
      BY <1>3, SlotIsNotIdle DEF RefInv
    <3>2. fb' = Mark(fb, m, "TEMP_OUTPUT") /\ "TEMP_OUTPUT" \in Flags
      BY <1>6, <1>13 DEF MarkTempOutput, Flags
    <3> QED
      BY <1>2, <1>3, <3>1, <3>2, MarkEffect
  <2>2. ASSUME NEW b \in Bufs
        PROVE  /\ Hw(b)' <=> Hw(b)
               /\ Temp(b)' <=> Temp(b) \/ b = m
               /\ Final(b)' <=> Final(b)
               /\ "ALLOCATED" \in Used(fb', b) <=> "ALLOCATED" \in Used(fb, b)
               /\ "FREE" \in Used(fb', b) <=> "FREE" \in Used(fb, b)
    BY <2>1 DEF Hw, Temp, Final
  <2>3. SlotsRight' /\ DpbIds' = DpbIds /\ SlotIds' = SlotIds
    BY <1>10, <2>2, SlotsKept
  <2>4. /\ Ids(dpb'.out_buf) = Ids(dpb.out_buf) \cup {m} /\ Ids(out_fifo') = Ids(out_fifo)
        /\ HeldIds' = HeldIds /\ Outputs' = Outputs \cup {m} /\ Ordered(dpb'.out_buf)
    BY <1>9, <1>10, <1>11, <1>13 DEF Outputs, HeldIds
  <2>5. OutputsRight'
    BY <1>8, <1>11, <2>4 DEF RefInv, OutputsRight, Outputs
  <2>6. FlagsRight'
    BY <2>2, <2>4 DEF RefInv, FlagsRight
  <2>7. DisplayRight'
    <3>1. ASSUME NEW j \in Slots, Display(dpb', j) # "no"
          PROVE  Mem(dpb', j) \notin Outputs'
      <4>1. j # i /\ Display(dpb, j) # "no" /\ Mem(dpb', j) = Mem(dpb, j)
        BY <1>10, <3>1
      <4>2. Mem(dpb, j) # m
        BY <1>3, <4>1 DEF RefInv, SlotsRight, m
      <4> QED
        BY <2>4, <4>1, <4>2 DEF RefInv, DisplayRight
    <3> QED
      BY <3>1 DEF DisplayRight
  <2>8. RefsHeld' /\ HwRight' /\ \A b : Users(b)' = Users(b)
    BY <1>11, <2>2, CoresKept
  <2>9. NoneLost' /\ TakenRight'
    BY <1>11 DEF NoneLost, TakenRight, RefInv
  <2>10. SleepRight'
    BY <1>11, <2>2, SleepKept
  <2>11. PhaseRight'
    BY <1>3, <1>11, <2>2, <2>3, <2>4, BasicTypes DEF PhaseRight, RefInv
  <2>12. CountsRight'
    <3>1. \A b \in Bufs :
           /\ Hw(b)' <=> Hw(b)
           /\ Prepared(b)' <=> Prepared(b)
      BY <1>11, <2>2, <2>3 DEF Prepared
    <3> QED
      BY <1>8, <1>11, <2>1, <2>4, <3>1, CountsOfOutputs
  <2> QED
    BY <2>1, <2>3, <2>5, <2>6, <2>7, <2>8, <2>9, <2>10, <2>11, <2>12 DEF RefInv
<1> QED
  BY <1>12, <1>13

\* no_output_of_prior_pics_flag: what this call has output so far is dropped.
LEMMA RefIdrFlushed ==
  ASSUME RefInv, DpbInv', IdrFlushed
  PROVE  RefInv'
<1>1. /\ dpc = "flush" /\ dpc' = "bump"
      /\ UNCHANGED <<out_fifo, core, opc, held, acked, broken>>
  BY DEF IdrFlushed
<1>2. CASE cur.kind # "idr_no_output"
  <2>1. fb' = fb /\ dpb' = dpb
    BY <1>2 DEF IdrFlushed
  <2>2. NoneLost' /\ PhaseRight'
    BY <1>1, <2>1 DEF NoneLost, PhaseRight, RefInv, SlotIds
  <2> QED
    BY <1>1, <2>1, <2>2, QuietStep
<1>3. CASE cur.kind = "idr_no_output"
  <2> DEFINE ids == {b \in Bufs : "TEMP_OUTPUT" \in fb.fb_stat[b].b_used}
  <2>1. fb' = ClearOutputs(fb, ids) /\ dpb' = [dpb EXCEPT !.out_buf = <<>>]
    BY <1>3 DEF IdrFlushed, RemoveTempOutputAll
  <2>2. ids = Ids(dpb.out_buf)
    <3>1. ids = {b \in Bufs : Temp(b)}
      BY DEF Temp, Used
    <3> QED
      BY <1>1, <3>1, BasicTypes DEF RefInv, FlagsRight, PhaseRight
  <2>3. ids \in SUBSET Bufs /\ fb \in FrameBufferList /\ dpb \in DpbStorage
    BY BasicTypes DEF RefInv
  <2> HIDE DEF ids
  <2>4. dpb'.out_buf = <<>> /\ dpb'.slots = dpb.slots
    BY <2>1, <2>3 DEF DpbStorage
  <2>5. /\ \A b \in Bufs :
             /\ Used(fb', b) = IF b \in ids THEN Used(fb, b) \ {"OUTPUT", "TEMP_OUTPUT"}
                                            ELSE Used(fb, b)
             /\ Count(fb', b) = IF b \in ids /\ Count(fb, b) > 0 THEN Count(fb, b) - 1
                                                                 ELSE Count(fb, b)
        /\ FreeExact(fb')
    <3>1. ids \cap IdleIds(fb) = {} /\ FreeExact(fb)
      BY <2>2, SlotIsNotIdle DEF Outputs, RefInv
    <3> QED
      BY <2>1, <2>3, <3>1, ClearOutputsEffect
  <2>6. ASSUME NEW b \in Bufs
        PROVE  /\ Hw(b)' <=> Hw(b)
               /\ Temp(b)' <=> Temp(b) /\ b \notin ids
               /\ Final(b)' <=> Final(b) /\ b \notin ids
               /\ "ALLOCATED" \in Used(fb', b) <=> "ALLOCATED" \in Used(fb, b)
               /\ "FREE" \in Used(fb', b) <=> "FREE" \in Used(fb, b)
    BY <2>5 DEF Hw, Temp, Final
  <2>7. \A i \in Slots : Mem(dpb', i) = Mem(dpb, i) /\ Display(dpb', i) = Display(dpb, i)
    BY <2>4 DEF Mem, Display
  <2>8. SlotsRight' /\ DpbIds' = DpbIds /\ SlotIds' = SlotIds
    BY <2>6, <2>7, SlotsKept
  <2>9. /\ Ids(dpb'.out_buf) = {} /\ Ids(out_fifo') = Ids(out_fifo)
        /\ HeldIds' = HeldIds /\ Outputs' = Outputs \ ids /\ Ordered(dpb'.out_buf)
    BY <1>1, <2>2, <2>4, IdsEmpty DEF Outputs, HeldIds, RefInv, OutputsRight
  <2>10. OutputsRight'
    BY <1>1, <2>9 DEF RefInv, OutputsRight
  <2>11. FlagsRight'
    BY <2>2, <2>6, <2>9 DEF RefInv, FlagsRight, OutputsRight
  <2>12. DisplayRight'
    BY <2>7, <2>9, DisplayKept
  <2>13. RefsHeld' /\ HwRight' /\ \A b : Users(b)' = Users(b)
    BY <1>1, <2>6, CoresKept
  <2>14. NoneLost' /\ TakenRight' /\ PhaseRight'
    BY <1>1, <2>9 DEF NoneLost, TakenRight, PhaseRight, RefInv
  <2>15. SleepRight'
    BY <1>1, <2>6, SleepKept
  <2>16. CountsRight'
    <3>1. \A b \in Bufs :
           /\ Hw(b)' <=> Hw(b)
           /\ Prepared(b)' <=> Prepared(b)
      BY <1>1, <2>6, <2>8 DEF Prepared
    <3>2. ids \subseteq Outputs
      BY <2>2 DEF Outputs
    <3> QED
      BY <1>1, <2>5, <2>9, <3>1, <3>2, OutputIsCounted, CountsOfOutputs
  <2> QED
    BY <2>5, <2>8, <2>10, <2>11, <2>12, <2>13, <2>14, <2>15, <2>16 DEF RefInv
<1> QED
  BY <1>2, <1>3

\* A picture moves from out_buf to the fifo.
LEMMA RefPushOutputPic ==
  ASSUME RefInv, DpbInv', PushOutputPic
  PROVE  RefInv'
<1> DEFINE pic == Head(dpb.out_buf)
<1>1. /\ dpc = "push" /\ dpb.out_buf # <<>> /\ dpb.out_buf \in Seq(Pics)
      /\ out_fifo \in Seq(Pics)
      /\ out_fifo' = IF IsBufferOutput(fb, pic.mem_idx) THEN Append(out_fifo, pic)
                                                       ELSE out_fifo
      /\ UNCHANGED <<fb, dpc, cur, core, opc, held, acked, broken>>
  BY BasicTypes DEF PushOutputPic, RefInv
<1>2. SlotsLike(dpb, dpb') /\ dpb'.out_buf = Tail(dpb.out_buf)
  BY DpbPushOutputPic DEF RefInv
<1>3. /\ pic \in Pics /\ Ordered(dpb'.out_buf) /\ pic.mem_idx \in Ids(dpb.out_buf)
      /\ Ids(dpb'.out_buf) = Ids(dpb.out_buf) \ {pic.mem_idx} /\ pic.mem_idx \in Bufs
  BY <1>1, <1>2, IdsTail, BasicTypes DEF RefInv, OutputsRight
<1>4. out_fifo' = Append(out_fifo, pic)
  <2>1. Final(pic.mem_idx)
    BY <1>1, <1>3 DEF RefInv, FlagsRight, PhaseRight
  <2> QED
    BY <1>1, <2>1 DEF Final, Used, IsBufferOutput
<1> HIDE DEF pic
<1>5. Ids(out_fifo') = Ids(out_fifo) \cup {pic.mem_idx} /\ Ordered(out_fifo')
  <2>1. pic.mem_idx \notin Ids(out_fifo) /\ Ordered(out_fifo)
    BY <1>3 DEF RefInv, OutputsRight
  <2> QED
    BY <1>1, <1>3, <1>4, <2>1, IdsAppend
<1>6. HeldIds' = HeldIds /\ Outputs' = Outputs
  BY <1>1, <1>3, <1>5 DEF HeldIds, Outputs
<1>7. \A b : (Hw(b)' <=> Hw(b)) /\ (Temp(b)' <=> Temp(b)) /\ (Final(b)' <=> Final(b))
  BY <1>1 DEF Hw, Temp, Final
<1>8. SlotsRight' /\ DpbIds' = DpbIds
  BY <1>1, <1>2, SlotsKept DEF SlotsLike
<1>9. OutputsRight'
  BY <1>1, <1>3, <1>5, <1>6 DEF RefInv, OutputsRight
<1>10. FlagsRight'
  BY <1>1, <1>3, <1>5, <1>6, <1>7 DEF RefInv, FlagsRight, PhaseRight
<1>11. DisplayRight'
  BY <1>2, <1>6, DisplayKept DEF SlotsLike
<1>12. RefsHeld' /\ HwRight' /\ \A b : Users(b)' = Users(b)
  BY <1>1, <1>7, CoresKept
<1>13. NoneLost' /\ TakenRight' /\ PhaseRight'
  BY <1>1, <1>7 DEF NoneLost, TakenRight, PhaseRight, RefInv
<1>14. SleepRight'
  <2>1. out_fifo # <<>> => out_fifo' # <<>> /\ Head(out_fifo') = Head(out_fifo)
    BY <1>1, <1>3, <1>4
  <2>2. opc = "asleep" => out_fifo # <<>> /\ Hw(Head(out_fifo).mem_idx)
    BY DEF RefInv, SleepRight
  <2> QED
    BY <1>1, <2>1, <2>2 DEF SleepRight, Hw, Used
<1>15. CountsRight'
  BY <1>1, <1>6, <1>7, <1>8, <1>12, CountsKept DEF Prepared
<1>16. FreeExact(fb')
  BY <1>1 DEF RefInv
<1> QED
  BY <1>8, <1>9, <1>10, <1>11, <1>12, <1>13, <1>14, <1>15, <1>16 DEF RefInv

\* A picture moves from the fifo to the application.
LEMMA RefPeekOutputPic ==
  ASSUME RefInv, DpbInv', PeekOutputPic
  PROVE  RefInv'
<1> DEFINE pic == Head(out_fifo)
<1>1. /\ out_fifo # <<>> /\ out_fifo \in Seq(Pics)
      /\ held' = held \cup {pic} /\ out_fifo' = Tail(out_fifo) /\ opc' = "idle"
      /\ UNCHANGED <<fb, dpb, dpc, cur, core, acked, broken>>
  BY BasicTypes DEF PeekOutputPic, Peeking, RefInv
<1>2. /\ pic \in Pics /\ Ordered(out_fifo') /\ pic.mem_idx \in Ids(out_fifo)
      /\ Ids(out_fifo') = Ids(out_fifo) \ {pic.mem_idx} /\ pic.mem_idx \in Bufs
  BY <1>1, IdsTail, BasicTypes DEF RefInv, OutputsRight
<1> HIDE DEF pic
<1>3. HeldIds' = HeldIds \cup {pic.mem_idx} /\ pic.mem_idx \notin HeldIds
      /\ Ids(dpb'.out_buf) = Ids(dpb.out_buf)
  BY <1>1, <1>2 DEF HeldIds, RefInv, OutputsRight
<1>4. Outputs' = Outputs
  BY <1>2, <1>3 DEF Outputs
<1>5. \A b : (Hw(b)' <=> Hw(b)) /\ (Temp(b)' <=> Temp(b)) /\ (Final(b)' <=> Final(b))
  BY <1>1 DEF Hw, Temp, Final
<1>6. SlotsRight' /\ DpbIds' = DpbIds
  BY <1>1, SlotsKept
<1>7. OutputsRight'
  <2>1. \A p, q \in held' : p.mem_idx = q.mem_idx => p = q
    BY <1>1, <1>3 DEF HeldIds, RefInv, OutputsRight
  <2> QED
    BY <1>1, <1>2, <1>3, <2>1 DEF RefInv, OutputsRight
<1>8. FlagsRight'
  BY <1>2, <1>3, <1>4, <1>5 DEF RefInv, FlagsRight
<1>9. DisplayRight'
  BY <1>1, <1>4, DisplayKept
<1>10. RefsHeld' /\ HwRight' /\ \A b : Users(b)' = Users(b)
  BY <1>1, <1>5, CoresKept
<1>11. TakenRight'
  BY <1>1, <1>4, <1>5, <1>10, TakenKept
<1>12. NoneLost' /\ PhaseRight' /\ SleepRight'
  BY <1>1, <1>5 DEF NoneLost, PhaseRight, SleepRight, RefInv, SlotIds
<1>13. CountsRight'
  BY <1>1, <1>4, <1>5, <1>6, <1>10, CountsKept DEF Prepared
<1>14. FreeExact(fb')
  BY <1>1 DEF RefInv
<1> QED
  BY <1>6, <1>7, <1>8, <1>9, <1>10, <1>11, <1>12, <1>13, <1>14 DEF RefInv

\* The application gives a picture back.
LEMMA RefPictureConsumed ==
  ASSUME RefInv, DpbInv', NEW p \in held, PictureConsumed(p)
  PROVE  RefInv'
<1> DEFINE id == p.mem_idx
<1>1. /\ fb \in FrameBufferList /\ id \in Bufs /\ id \in HeldIds /\ id \in Outputs
  <2>1. id \in HeldIds
    BY DEF HeldIds
  <2> QED
    BY <2>1, BasicTypes DEF RefInv, Outputs
<1>2. /\ fb' = PopOutputPic(fb, id) /\ held' = held \ {p}
      /\ UNCHANGED <<out_fifo, dpb, dpc, cur, core, opc, acked, broken>>
  BY DEF PictureConsumed
<1>3. HeldIds' = HeldIds \ {id}
  BY <1>2 DEF HeldIds, RefInv, OutputsRight
<1> HIDE DEF id
<1>4. Outputs' = Outputs \ {id}
  BY <1>1, <1>2, <1>3 DEF Outputs, RefInv, OutputsRight
<1>5. Final(id) /\ ~Temp(id)
  BY <1>1 DEF RefInv, FlagsRight, OutputsRight
<1>6. /\ \A b \in Bufs :
           /\ Used(fb', b) = IF b = id THEN Used(fb, b) \ {"OUTPUT", "TEMP_OUTPUT"}
                                       ELSE Used(fb, b)
           /\ Count(fb', b) = IF b = id /\ Count(fb, b) > 0 THEN Count(fb, b) - 1
                                                            ELSE Count(fb, b)
      /\ FreeExact(fb')
  <2> DEFINE types == {"OUTPUT", "TEMP_OUTPUT"}
  <2>1. id \notin IdleIds(fb) /\ FreeExact(fb)
    BY <1>1, SlotIsNotIdle DEF RefInv
  <2>2. fb' = Unmark(fb, id, types) /\ types \in SUBSET Flags
    BY <1>2, <1>5 DEF PopOutputPic, IsBufferOutput, Final, Used, ClearOutput, Flags
  <2> HIDE DEF types
  <2>3. /\ \A b \in Bufs :
             /\ Used(fb', b) = IF b = id THEN Used(fb, b) \ types ELSE Used(fb, b)
             /\ Count(fb', b) = IF b = id /\ Count(fb, b) > 0 THEN Count(fb, b) - 1
                                                              ELSE Count(fb, b)
        /\ FreeExact(fb')
    BY <1>1, <2>1, <2>2, UnmarkEffect
  <2> QED
    BY <2>3 DEF types
<1>7. ASSUME NEW b \in Bufs
      PROVE  /\ Hw(b)' <=> Hw(b)
             /\ Temp(b)' <=> Temp(b)
             /\ Final(b)' <=> Final(b) /\ b # id
             /\ "ALLOCATED" \in Used(fb', b) <=> "ALLOCATED" \in Used(fb, b)
             /\ "FREE" \in Used(fb', b) <=> "FREE" \in Used(fb, b)
  BY <1>5, <1>6 DEF Hw, Temp, Final
<1>8. SlotsRight' /\ DpbIds' = DpbIds /\ SlotIds' = SlotIds
  BY <1>2, <1>7, SlotsKept
<1>9. OutputsRight'
  BY <1>2, <1>3 DEF RefInv, OutputsRight
<1>10. FlagsRight'
  <2>1. Ids(dpb'.out_buf) = Ids(dpb.out_buf) /\ Ids(out_fifo') = Ids(out_fifo)
    BY <1>2
  <2>2. id \notin Ids(dpb.out_buf) /\ id \notin Ids(out_fifo)
    BY <1>1 DEF RefInv, OutputsRight
  <2> QED
    BY <1>3, <1>4, <1>7, <2>1, <2>2 DEF RefInv, FlagsRight
<1>11. DisplayRight'
  BY <1>2, <1>4, DisplayKept
<1>12. RefsHeld' /\ HwRight' /\ \A b : Users(b)' = Users(b)
  BY <1>2, <1>7, CoresKept
<1>13. TakenRight'
  BY <1>2, <1>4, <1>7, <1>12, TakenKept
<1>14. NoneLost' /\ PhaseRight'
  <2>1. Ids(dpb.out_buf) \subseteq Bufs
    BY BasicTypes DEF RefInv
  <2> QED
    BY <1>2, <1>7, <1>8, <2>1 DEF NoneLost, PhaseRight, RefInv
<1>15. SleepRight'
  BY <1>2, <1>7, SleepKept
<1>16. CountsRight'
  <2>1. \A b \in Bufs :
         /\ Hw(b)' <=> Hw(b)
         /\ Prepared(b)' <=> Prepared(b)
    BY <1>2, <1>7, <1>8 DEF Prepared
  <2> QED
    BY <1>1, <1>2, <1>4, <1>6, <2>1, OutputIsCounted, CountsOfOutputs
<1> QED
  BY <1>6, <1>8, <1>9, <1>10, <1>11, <1>12, <1>13, <1>14, <1>15, <1>16 DEF RefInv

\* A seek empties the fifo.  No core runs any more, so nobody sleeps for one;
\* out_buf is empty between two pictures, so RemoveTempOutputAll finds nothing.
LEMMA RefAbortAfter ==
  ASSUME RefInv, DpbInv', AbortAfter
  PROVE  RefInv'
<1> DEFINE f == RemoveTempOutputAll(fb)
           ids == {b \in Ids(out_fifo) : IsBufferOutput(f, b)}
           g == ClearOutputs(f, ids)
           none == {b \in Bufs : "TEMP_OUTPUT" \in fb.fb_stat[b].b_used}
<1>1. /\ dpc = "stop" /\ CoresQuiet /\ dpc' = "idle" /\ out_fifo' = <<>>
      /\ fb' = ClearAbortStatusInList(g)
      /\ UNCHANGED <<cur, core, opc, held, acked, broken>>
  BY DEF AbortAfter, RemoveOutputAll
<1>2. /\ dpb'.out_buf = <<>>
      /\ \A i \in Slots : Mem(dpb', i) = Mem(dpb, i) /\ Display(dpb', i) = "no"
  BY DpbAbortAfter DEF RefInv
<1>3. fb \in FrameBufferList /\ Ids(out_fifo) \subseteq Bufs
  BY BasicTypes DEF RefInv
<1>4. none = {}
  <2>1. Ids(dpb.out_buf) = {}
    BY <1>1, IdsEmpty DEF RefInv, PhaseRight
  <2> QED
    BY <2>1 DEF RefInv, FlagsRight, Temp, Used
<1>5. f = ClearOutputs(fb, none) /\ none \in SUBSET Bufs
  BY DEF RemoveTempOutputAll
<1> HIDE DEF f, none
<1>6. /\ f \in FrameBufferList /\ FreeExact(f)
      /\ \A b \in Bufs : Used(f, b) = Used(fb, b) /\ Count(f, b) = Count(fb, b)
  BY <1>3, <1>4, <1>5, ClearOutputsEffect DEF RefInv
<1>7. ids = Ids(out_fifo)
  <2>1. \A b \in Ids(out_fifo) : "OUTPUT" \in Used(fb, b) /\ b \in Bufs
    BY <1>3 DEF RefInv, FlagsRight, Final
  <2> QED
    BY <1>6, <2>1 DEF IsBufferOutput, Used
<1>8. ids \cap IdleIds(f) = {}
  <2>1. \A b \in Ids(out_fifo) : b \in Bufs /\ "OUTPUT" \in Used(f, b)
    BY <1>3, <1>6 DEF RefInv, FlagsRight, Final
  <2> QED
    BY <1>7, <2>1 DEF IdleIds, IsIdle, Used
<1> HIDE DEF ids
<1>9. /\ g \in FrameBufferList /\ FreeExact(g)
      /\ \A b \in Bufs :
           /\ Used(g, b) = IF b \in ids THEN Used(f, b) \ {"OUTPUT", "TEMP_OUTPUT"}
                                        ELSE Used(f, b)
           /\ Count(g, b) = IF b \in ids /\ Count(f, b) > 0 THEN Count(f, b) - 1
                                                            ELSE Count(f, b)
  BY <1>3, <1>6, <1>7, <1>8, ClearOutputsEffect
<1> HIDE DEF g
<1>10. /\ fb'.fb_stat = g.fb_stat /\ FreeExact(fb')
  BY <1>1, <1>9, AbortEffect
<1>11. \A b \in Bufs :
         /\ Used(fb', b) = IF b \in ids THEN Used(fb, b) \ {"OUTPUT", "TEMP_OUTPUT"}
                                        ELSE Used(fb, b)
         /\ Count(fb', b) = IF b \in ids /\ Count(fb, b) > 0 THEN Count(fb, b) - 1
                                                              ELSE Count(fb, b)
  <2>1. \A b \in Bufs : Used(fb', b) = Used(g, b) /\ Count(fb', b) = Count(g, b)
    BY <1>10 DEF Used, Count
  <2> QED
    BY <1>6, <1>9, <2>1
<1>12. ASSUME NEW b \in Bufs
       PROVE  /\ Hw(b)' <=> Hw(b)
              /\ ~Temp(b) /\ ~Temp(b)'
              /\ Final(b)' <=> Final(b) /\ b \notin ids
              /\ "ALLOCATED" \in Used(fb', b) <=> "ALLOCATED" \in Used(fb, b)
              /\ "FREE" \in Used(fb', b) <=> "FREE" \in Used(fb, b)
  <2>1. ~Temp(b)
    BY <1>4 DEF none, Temp, Used
  <2> QED
    BY <1>11, <2>1 DEF Hw, Temp, Final
<1>13. SlotsRight' /\ DpbIds' = DpbIds /\ SlotIds' = SlotIds
  BY <1>2, <1>12, SlotsKept
<1>14. /\ Ids(dpb'.out_buf) = {} /\ Ids(out_fifo') = {} /\ HeldIds' = HeldIds
       /\ Ids(dpb.out_buf) = {} /\ Outputs' = Outputs \ ids
  <2>1. Ids(dpb.out_buf) = {}
    BY <1>1, IdsEmpty DEF RefInv, PhaseRight
  <2>2. Ids(dpb'.out_buf) = {} /\ Ids(out_fifo') = {} /\ HeldIds' = HeldIds
    BY <1>1, <1>2, IdsEmpty DEF HeldIds
  <2> QED
    BY <1>7, <2>1, <2>2 DEF Outputs, RefInv, OutputsRight
<1>15. OutputsRight'
  BY <1>1, <1>2, <1>14, IdsEmpty DEF RefInv, OutputsRight
<1>16. FlagsRight'
  BY <1>7, <1>12, <1>14 DEF RefInv, FlagsRight, OutputsRight
<1>17. DisplayRight'
  BY <1>2 DEF DisplayRight
<1>18. RefsHeld' /\ HwRight' /\ \A b : Users(b)' = Users(b)
  BY <1>1, <1>12, CoresKept
<1>19. NoneLost' /\ TakenRight' /\ PhaseRight'
  BY <1>1, <1>2 DEF NoneLost, TakenRight, PhaseRight, RefInv
<1>20. SleepRight'
  <2>1. opc # "asleep"
    <3>1. SUFFICES ASSUME opc = "asleep" PROVE FALSE
      OBVIOUS
    <3>2. out_fifo # <<>> /\ Hw(Head(out_fifo).mem_idx)
      BY <3>1 DEF RefInv, SleepRight
    <3>3. Head(out_fifo).mem_idx \in Bufs
      <4>1. out_fifo \in Seq(Pics) /\ Ordered(out_fifo)
        BY BasicTypes DEF RefInv, OutputsRight
      <4> QED
        BY <1>3, <3>2, <4>1, IdsTail
    <3>4. PICK c \in Cores : Writing(c)
      BY <3>2, <3>3 DEF RefInv, HwRight
    <3> QED
      BY <1>1, <3>4 DEF CoresQuiet, Writing
  <2> QED
    BY <1>1, <2>1 DEF SleepRight
<1>21. CountsRight'
  <2>1. \A b \in Bufs :
         /\ Hw(b)' <=> Hw(b)
         /\ Prepared(b)' <=> Prepared(b)
    BY <1>1, <1>12 DEF Prepared
  <2>2. ids \subseteq Outputs
    BY <1>7 DEF Outputs
  <2> QED
    BY <1>1, <1>11, <1>14, <2>1, <2>2, OutputIsCounted, CountsOfOutputs
<1> QED
  BY <1>10, <1>13, <1>15, <1>16, <1>17, <1>18, <1>19, <1>20, <1>21 DEF RefInv

LEMMA RefNext ==
  ASSUME SafeSeeks, RefInv, [Next]_vars
  PROVE  RefInv'
<1>1. DpbInv'
  BY DpbNext DEF RefInv
<1>2. ASSUME NEW kind \in {"idr", "idr_no_output", "trail"}, NEW keep \in SUBSET Slots,
             NEW display \in {"hidden", "shown"}, DecodePicture(kind, keep, display)
      PROVE  RefInv'
  BY <1>1, <1>2, RefDecodePicture
<1>3. CASE \/ SCCheckRefs \/ Retry \/ PushOutputDone
           \/ EndOfStream \/ EosCoresDone \/ Abort \/ AbortCores
  BY <1>1, <1>3, RefCallSteps
<1>4. CASE OutputPicture
  BY <1>1, <1>4, RefOutputPicture
<1>5. CASE IdrFlushed
  BY <1>1, <1>5, RefIdrFlushed
<1>6. CASE AllocateDpbImage
  BY <1>1, <1>6, RefAllocateDpbImage
<1>7. CASE GetFreeBuffer
  BY <1>1, <1>7, RefGetFreeBuffer
<1>8. CASE \E c \in Cores : RunAsic(c)
  BY <1>1, <1>8, RefRunAsic
<1>9. CASE SCMarkOutputPicInfo
  BY <1>1, <1>9, RefSCMarkOutputPicInfo
<1>10. CASE Finalize
  BY <1>1, <1>10, RefFinalize
<1>11. CASE PushOutputPic
  BY <1>1, <1>11, RefPushOutputPic
<1>12. CASE AbortAfter
  BY <1>1, <1>12, RefAbortAfter
<1>13. ASSUME NEW c \in Cores, NEW r \in Results, HwReady(c, r) PROVE RefInv'
  BY <1>1, <1>13, RefHwReady
<1>14. CASE \E c \in Cores : ReleaseCore(c)
  BY <1>1, <1>14, RefReleaseCore
<1>15. CASE PeekWaits \/ NextPictureAborted \/ NextPictureEnd \/ UNCHANGED vars
  BY <1>1, <1>15, RefOutputThreadWaits
<1>16. CASE PeekOutputPic
  BY <1>1, <1>16, RefPeekOutputPic
<1>17. CASE \E p \in held : PictureConsumed(p)
  BY <1>1, <1>17, RefPictureConsumed
<1> QED
  BY <1>2, <1>3, <1>4, <1>5, <1>6, <1>7, <1>8, <1>9, <1>10, <1>11, <1>12, <1>13,
     <1>14, <1>15, <1>16, <1>17
     DEF Next, InDecode, OutputThread, Finished

-----------------------------------------------------------------------------
(* The theorems *)

\* RefInv holds in every reachable state of a decoder whose application seeks
\* safely.
THEOREM RefInvHolds ==
  ASSUME SafeSeeks
  PROVE  Spec => []RefInv
<1>1. Init => RefInv
  BY RefInitially
<1>2. RefInv /\ [Next]_vars => RefInv'
  BY RefNext
<1> QED
  BY <1>1, <1>2, PTL DEF Spec

\* The same set of cores, each under a tag.
LEMMA TaggedCardinality ==
  ASSUME NEW S, IsFiniteSet(S), NEW tag
  PROVE  /\ IsFiniteSet({<<tag, c>> : c \in S})
         /\ Cardinality({<<tag, c>> : c \in S}) = Cardinality(S)
<1> DEFINE T == {<<tag, c>> : c \in S}
           f == [c \in S |-> <<tag, c>>]
<1>1. f \in [S -> T] /\ (\A c, d \in S : f[c] = f[d] => c = d)
      /\ \A t \in T : \E c \in S : f[c] = t
  OBVIOUS
<1> HIDE DEF f, T
<1>2. f \in Bijection(S, T)
  BY <1>1 DEF Bijection, Injection, Surjection, IsInjective
<1>3. ExistsBijection(S, T)
  BY <1>2 DEF ExistsBijection
<1>4. IsFiniteSet(T) /\ Cardinality(T) = Cardinality(S)
  BY <1>3, FS_Bijection
<1> QED
  BY <1>4 DEF T

LEMMA DisjointUnion ==
  ASSUME NEW S, NEW T, IsFiniteSet(S), IsFiniteSet(T), S \cap T = {}
  PROVE  /\ IsFiniteSet(S \cup T)
         /\ Cardinality(S \cup T) = Cardinality(S) + Cardinality(T)
<1>1. /\ IsFiniteSet(S \cup T)
      /\ Cardinality(S \cup T) = Cardinality(S) + Cardinality(T) - Cardinality(S \cap T)
  BY FS_Union
<1>2. Cardinality(S \cap T) = 0
  BY FS_EmptySet
<1>3. Cardinality(S) \in Nat /\ Cardinality(T) \in Nat
  BY FS_CardinalityType
<1> QED
  BY <1>1, <1>2, <1>3

\* The four terms of CountsRight are the four kinds of holders.
LEMMA HoldersCounted ==
  ASSUME RefInv, NEW b \in Bufs
  PROVE  /\ Count(fb, b) = Cardinality(Holders(b))
         /\ Holders(b) = {} <=> Count(fb, b) = 0
<1> DEFINE writers == {c \in Cores : Writing(c) /\ core[c].out_id = b}
           W == {<<"writes", c>> : c \in writers}
           U == {<<"uses", c>> : c \in Users(b)}
           O == IF b \in Outputs THEN {<<"output", "app">>} ELSE {}
           P == IF Prepared(b) THEN {<<"prepares", "dec">>} ELSE {}
<1>1. Holders(b) = W \cup U \cup O \cup P
  BY DEF Holders, Users, Prepared
<1>2. IsFiniteSet(W) /\ Cardinality(W) = One(Hw(b))
  <2>1. IsFiniteSet(writers)
    BY ConstantsAssumption, FS_Subset
  <2>2. Cardinality(writers) = One(Hw(b))
    <3>1. CASE Hw(b)
      <4>1. PICK c \in Cores : Writing(c) /\ core[c].out_id = b
        BY <3>1 DEF RefInv, HwRight
      <4>2. writers = {c}
        BY <4>1 DEF RefInv, HwRight
      <4> QED
        BY <3>1, <4>2, FS_Singleton DEF One
    <3>2. CASE ~Hw(b)
      <4>1. writers = {}
        BY <3>2 DEF RefInv, HwRight
      <4> QED
        BY <3>2, <4>1, FS_EmptySet DEF One
    <3> QED
      BY <3>1, <3>2
  <2> HIDE DEF writers
  <2>3. IsFiniteSet(W) /\ Cardinality(W) = Cardinality(writers)
    BY <2>1, TaggedCardinality
  <2> QED
    BY <2>2, <2>3
<1>3. IsFiniteSet(U) /\ Cardinality(U) = Cardinality(Users(b))
  BY UsersFinite, TaggedCardinality
<1>4. IsFiniteSet(O) /\ Cardinality(O) = One(b \in Outputs)
  BY FS_Singleton, FS_EmptySet DEF One
<1>5. IsFiniteSet(P) /\ Cardinality(P) = One(Prepared(b))
  BY FS_Singleton, FS_EmptySet DEF One
<1>6. W \cap U = {} /\ (W \cup U) \cap O = {} /\ (W \cup U \cup O) \cap P = {}
  OBVIOUS
<1> HIDE DEF W, U, O, P
<1>7. /\ One(Hw(b)) \in Nat /\ One(b \in Outputs) \in Nat
      /\ One(Prepared(b)) \in Nat /\ Cardinality(Users(b)) \in Nat
  BY UsersFinite DEF One
<1>8. IsFiniteSet(W \cup U) /\ Cardinality(W \cup U) = One(Hw(b)) + Cardinality(Users(b))
  BY <1>2, <1>3, <1>6, <1>7, DisjointUnion
<1>9. /\ IsFiniteSet(W \cup U \cup O)
      /\ Cardinality(W \cup U \cup O)
           = One(Hw(b)) + Cardinality(Users(b)) + One(b \in Outputs)
  <2>1. /\ IsFiniteSet((W \cup U) \cup O)
        /\ Cardinality((W \cup U) \cup O) = Cardinality(W \cup U) + Cardinality(O)
    BY <1>4, <1>6, <1>8, DisjointUnion
  <2> QED
    BY <1>4, <1>7, <1>8, <2>1
<1>10. /\ IsFiniteSet(W \cup U \cup O \cup P)
       /\ Cardinality(W \cup U \cup O \cup P)
            = One(Hw(b)) + Cardinality(Users(b)) + One(b \in Outputs) + One(Prepared(b))
  <2>1. /\ IsFiniteSet((W \cup U \cup O) \cup P)
        /\ Cardinality((W \cup U \cup O) \cup P)
             = Cardinality(W \cup U \cup O) + Cardinality(P)
    BY <1>5, <1>6, <1>9, DisjointUnion
  <2> QED
    BY <1>5, <1>7, <1>9, <2>1
<1>11. Count(fb, b) = Cardinality(Holders(b)) /\ IsFiniteSet(Holders(b))
  BY <1>1, <1>10 DEF RefInv, CountsRight
<1> QED
  BY <1>11, FS_EmptySet

\* n_ref_count of every buffer is the number of its users, and free_buffers the
\* number of idle buffers, whatever the decoding thread, the listener and the
\* output thread have done between their critical sections.
THEOREM RefCountsAreExact ==
  ASSUME SafeSeeks
  PROVE  Spec => []RefCountsExact
<1>1. RefInv => RefCountsExact
  BY HoldersCounted DEF RefCountsExact, RefInv, FreeExact, IdleIds, Count
<1> QED
  BY <1>1, RefInvHolds, PTL

-----------------------------------------------------------------------------
(* Which steps start a job, and which hand a picture out *)

LEMMA OnlyRunAsicStarts ==
  ASSUME [Next]_vars, core \in [Cores -> Job], NEW c \in Cores, core'[c].st = "run",
         ~RunAsic(c)
  PROVE  core[c].st = "run" /\ core'[c].out_id = core[c].out_id
<1>1. CASE core' = core
  BY <1>1
<1>2. ASSUME NEW d \in Cores, RunAsic(d) PROVE core'[c] = core[c]
  BY <1>2 DEF RunAsic
<1>3. ASSUME NEW d \in Cores, NEW r \in Results, HwReady(d, r)
      PROVE  core[c].st = "run" /\ core'[c].out_id = core[c].out_id
  <2>1. core' = [core EXCEPT ![d] = [core[d] EXCEPT !.st = "cleared"]]
    BY <1>3 DEF HwReady
  <2>2. d # c
    BY <2>1 DEF Job
  <2> QED
    BY <2>1, <2>2
<1>4. ASSUME NEW d \in Cores, ReleaseCore(d)
      PROVE  core[c].st = "run" /\ core'[c].out_id = core[c].out_id
  BY <1>4 DEF ReleaseCore, IdleCore
<1>5. CASE AbortCores
  BY <1>5 DEF AbortCores, IdleCore
<1>6. CASE \/ (\E kind \in {"idr", "idr_no_output", "trail"}, keep \in SUBSET Slots,
                display \in {"hidden", "shown"} : DecodePicture(kind, keep, display))
           \/ EndOfStream \/ Abort \/ OutputPicture \/ IdrFlushed \/ AllocateDpbImage
           \/ GetFreeBuffer \/ Retry \/ SCCheckRefs \/ SCMarkOutputPicInfo \/ Finalize
           \/ PushOutputPic \/ PushOutputDone \/ EosCoresDone \/ AbortAfter
           \/ OutputThread \/ (\E p \in held : PictureConsumed(p)) \/ UNCHANGED vars
  <2>1. core' = core
    BY <1>6 DEF DecodePicture, EndOfStream, Abort, OutputPicture, IdrFlushed,
                AllocateDpbImage, GetFreeBuffer, Retry, SCCheckRefs, SCMarkOutputPicInfo,
                Finalize, PushOutputPic, PushOutputDone, EosCoresDone, AbortAfter,
                OutputThread, PeekWaits, PeekOutputPic, NextPictureAborted,
                NextPictureEnd, PictureConsumed, vars
  <2> QED
    BY <1>1, <2>1
<1> QED
  BY <1>2, <1>3, <1>4, <1>5, <1>6 DEF Next, InDecode, Finished

LEMMA HeldGrowsInPeek ==
  ASSUME [Next]_vars, ~PeekOutputPic
  PROVE  held' \subseteq held
BY DEF Next, InDecode, Finished, DecodePicture, EndOfStream, Abort, OutputPicture,
       IdrFlushed, AllocateDpbImage, GetFreeBuffer, Retry, RunAsic, SCCheckRefs,
       SCMarkOutputPicInfo, Finalize, PushOutputPic, PushOutputDone, EosCoresDone,
       AbortCores, AbortAfter, HwReady, ReleaseCore, OutputThread, PeekWaits,
       NextPictureAborted, NextPictureEnd, PictureConsumed, vars

\* No core writes a picture that the application holds.
THEOREM DeliveredPicturesAreDone ==
  ASSUME SafeSeeks
  PROVE  Spec => []DeliveredIsDone
<1>1. Init => DeliveredIsDone
  BY DEF Init, DeliveredIsDone, HeldIds
<1>2. ASSUME RefInv, RefInv', DeliveredIsDone, [Next]_vars
      PROVE  DeliveredIsDone'
  <2>1. \A c \in Cores : Writing(c) => Hw(core[c].out_id)
    BY <1>2, BasicTypes DEF RefInv, HwRight
  <2>2. ASSUME NEW c \in Cores, RunAsic(c) PROVE DeliveredIsDone'
    <3>1. Unused(Mem(dpb, cur.pos))
      BY <1>2, <2>2 DEF RunAsic, RefInv, TakenRight
    <3>2. /\ HeldIds' = HeldIds
          /\ \A d \in Cores \ {c} : core'[d] = core[d]
          /\ core'[c].out_id = Mem(dpb, cur.pos)
      BY <1>2, <2>2, BasicTypes DEF RunAsic, HeldIds, RefInv, Mem
    <3> QED
      BY <1>2, <3>1, <3>2 DEF DeliveredIsDone, Writing, Unused, Outputs
  <2>3. CASE PeekOutputPic
    <3>1. core' = core /\ HeldIds' \subseteq HeldIds \cup {Head(out_fifo).mem_idx}
          /\ ~Hw(Head(out_fifo).mem_idx)
      BY <2>3 DEF PeekOutputPic, HeldIds, IsHwOngoing, Hw, Used
    <3> QED
      BY <1>2, <2>1, <3>1 DEF DeliveredIsDone, Writing
  <2>4. ASSUME HeldIds' \subseteq HeldIds,
               \A c \in Cores : core'[c].st = "run" =>
                 core[c].st = "run" /\ core'[c].out_id = core[c].out_id
        PROVE  DeliveredIsDone'
    BY <1>2, <2>4 DEF DeliveredIsDone, Writing
  <2>5. CASE /\ ~ \E c \in Cores : RunAsic(c)
             /\ ~PeekOutputPic
    <3>1. HeldIds' \subseteq HeldIds
      BY <1>2, <2>5, HeldGrowsInPeek DEF HeldIds
    <3> QED
      BY <1>2, <2>4, <2>5, <3>1, OnlyRunAsicStarts DEF RefInv, DpbInv, TypeOK
  <2> QED
    BY <2>2, <2>3, <2>5
<1> QED
  BY <1>1, <1>2, RefInvHolds, PTL DEF Spec

\* The output thread sleeps only for a picture that a core still writes.
THEOREM NoWakeupIsLost ==
  ASSUME SafeSeeks
  PROVE  Spec => []NoLostWakeup
<1>1. RefInv => NoLostWakeup
  BY DEF NoLostWakeup, RefInv, SleepRight, IsHwOngoing, Hw, Used
<1> QED
  BY <1>1, RefInvHolds, PTL

\* There is one buffer more than slots, and so one outside the DPB; a decode
\* call that found none idle waits for what others hold, not for itself.
LEMMA BufferOutside ==
  ASSUME RefInv
  PROVE  \E b \in Bufs : b \notin SlotIds
<1> DEFINE f == [i \in Slots |-> Mem(dpb, i)]
<1>1. f \in Surjection(Slots, SlotIds)
  BY DEF Surjection, SlotIds
<1> HIDE DEF f
<1>2. IsFiniteSet(SlotIds) /\ Cardinality(SlotIds) <= RealSize + 2
  BY <1>1, SlotsFacts, FS_Surjection
<1>3. PICK n \in MinBuffers .. TotBuffers : Bufs = 0 .. n - 1
  BY ConstantsAssumption
<1>4. n \in Int /\ n >= RealSize + 3
  <2>1. MinBuffers \in Int /\ MinBuffers = RealSize + 3
    BY SlotsFacts DEF MinBuffers
  <2>2. TotBuffers \in Int
    BY SlotsFacts, ConstantsAssumption, FS_CardinalityType DEF TotBuffers
  <2> QED
    BY <1>3, <2>1, <2>2
<1>5. Cardinality(Bufs) = n
  BY <1>3, <1>4, FS_Interval, SlotsFacts
<1>6. SlotIds # Bufs
  BY <1>2, <1>4, <1>5, SlotsFacts
<1> QED
  BY <1>6, BasicTypes DEF RefInv

\* While a decode call retries, a buffer outside the DPB is idle or in somebody
\* else's hands.
THEOREM ABufferWillCome ==
  ASSUME SafeSeeks
  PROVE  Spec => []BufferWillCome
<1>1. ASSUME RefInv PROVE BufferWillCome
  <2>1. SUFFICES ASSUME dpc = "retry"
                 PROVE  \E b \in Bufs \ SlotIds :
                          /\ "FREE" \in fb.fb_stat[b].b_used
                          /\ b \notin Ids(dpb.out_buf)
                          /\ Holders(b) = {} <=> IsIdle(fb.fb_stat[b])
    BY DEF BufferWillCome, SlotIds, Mem
  <2>2. PICK b \in Bufs : b \notin SlotIds
    BY <1>1, BufferOutside
  <2>3. "FREE" \in Used(fb, b) /\ "ALLOCATED" \notin Used(fb, b)
    BY <1>1, <2>2 DEF RefInv, SlotsRight
  <2>4. b \notin Ids(dpb.out_buf)
    BY <1>1, <2>1, <2>2 DEF RefInv, PhaseRight
  <2>5. Holders(b) = {} <=> Count(fb, b) = 0
    BY <1>1, HoldersCounted
  <2>6. Count(fb, b) = 0 => Used(fb, b) = {"FREE"}
    <3>1. ASSUME Count(fb, b) = 0 PROVE Used(fb, b) = {"FREE"}
      <4>1. ~Hw(b) /\ b \notin Outputs
        BY <1>1, <3>1, ZeroIsUnused DEF Unused
      <4>2. ~Temp(b) /\ ~Final(b)
        BY <1>1, <4>1 DEF RefInv, FlagsRight, Outputs
      <4>3. Used(fb, b) \subseteq Flags
        BY <1>1, BasicTypes DEF RefInv
      <4> QED
        BY <2>3, <4>1, <4>2, <4>3 DEF Hw, Temp, Final, Flags
    <3> QED
      BY <3>1
  <2> QED
    BY <2>2, <2>3, <2>4, <2>5, <2>6 DEF IsIdle, Used, Count
<1> QED
  BY <1>1, RefInvHolds, PTL

\* When no core works and no picture is on its way, HevcDecRelease's wait for
\* every n_ref_count to be 0 is over at once.
THEOREM ReleaseNeedNotWait ==
  ASSUME SafeSeeks
  PROVE  Spec => []ReleaseFindsListUnused
<1>1. ASSUME RefInv PROVE ReleaseFindsListUnused
  <2>1. SUFFICES ASSUME dpc = "idle", CoresQuiet, Outputs = {}, NEW b \in Bufs
                 PROVE  Count(fb, b) = 0
    BY DEF ReleaseFindsListUnused, IsBufferReferenced, Count
  <2>2. \A c \in Cores : ~Writing(c) /\ ~Counting(c)
    BY <2>1 DEF CoresQuiet, Writing, Counting
  <2>3. ~Hw(b) /\ Users(b) = {} /\ ~Prepared(b)
    BY <1>1, <2>1, <2>2 DEF RefInv, HwRight, Users, Prepared
  <2>4. /\ One(Hw(b)) = 0 /\ One(b \in Outputs) = 0 /\ One(Prepared(b)) = 0
        /\ Cardinality(Users(b)) = 0
    BY <2>1, <2>3, FS_EmptySet DEF One
  <2> QED
    BY <1>1, <2>4 DEF RefInv, CountsRight
<1> QED
  BY <1>1, RefInvHolds, PTL

\* A core is started only on a buffer that nobody else reads, writes or holds.
THEOREM NeverOverwritten ==
  ASSUME SafeSeeks
  PROVE  Spec => NeverOverwrites
<1>1. ASSUME RefInv, [Next]_vars, NEW c \in Cores, core[c].st # "run", core'[c].st = "run"
      PROVE  LET b == core'[c].out_id IN
             /\ b \notin Outputs
             /\ \A d \in Cores \ {c} : Writing(d) =>
                  b # core[d].out_id /\ b \notin core[d].ref_mem_idx
             /\ \A i \in Slots \ {cur.pos} : dpb.slots[i].mem_idx # b
  <2>1. RunAsic(c)
    BY <1>1, OnlyRunAsicStarts DEF RefInv, DpbInv, TypeOK
  <2> DEFINE b == Mem(dpb, cur.pos)
  <2>2. core'[c].out_id = b
    BY <1>1, <2>1, BasicTypes DEF RunAsic, RefInv, Mem
  <2>3. Unused(b) /\ b \in Bufs /\ cur.pos \in Slots
    BY <1>1, <2>1, BasicTypes DEF RunAsic, RefInv, TakenRight, Locals
  <2>4. \A i \in Slots \ {cur.pos} : dpb.slots[i].mem_idx # b
    BY <1>1, <2>3 DEF RefInv, SlotsRight, Mem
  <2> HIDE DEF b
  <2>5. ASSUME NEW d \in Cores, Writing(d)
        PROVE  b # core[d].out_id /\ b \notin core[d].ref_mem_idx
    <3>1. b # core[d].out_id
      BY <1>1, <2>3, <2>5 DEF Unused, RefInv, HwRight
    <3>2. b \notin core[d].ref_id
      BY <2>3, <2>5 DEF Unused, Users, Counting
    <3>3. core[d].ref_mem_idx \subseteq core[d].ref_id
      BY <1>1, <2>5 DEF RefInv, RefsHeld, Counting
    <3> QED
      BY <3>1, <3>2, <3>3
  <2> QED
    BY <2>2, <2>3, <2>4, <2>5 DEF Unused
<1>2. ASSUME RefInv, [Next]_vars
      PROVE  [\A c \in Cores : core[c].st # "run" /\ core'[c].st = "run" =>
                LET b == core'[c].out_id IN
                /\ b \notin Outputs
                /\ \A d \in Cores \ {c} : Writing(d) =>
                     b # core[d].out_id /\ b \notin core[d].ref_mem_idx
                /\ \A i \in Slots \ {cur.pos} : dpb.slots[i].mem_idx # b]_vars
  BY <1>1, <1>2
<1> QED
  BY <1>2, RefInvHolds, PTL DEF Spec, NeverOverwrites
=============================================================================

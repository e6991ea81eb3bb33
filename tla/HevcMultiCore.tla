---------------------------- MODULE HevcMultiCore ----------------------------
(***************************************************************************)
(* The HEVC decoder in multi-core mode (b_mc): the thread that decodes,    *)
(* the cores it starts without waiting for them, the listener thread that  *)
(* runs HevcMCHwRdyCallback for each finished picture, and the             *)
(* application's output thread.  What they share is the frame buffer list. *)
(*                                                                         *)
(* Scope: one instance, post-processor off, external reference buffers,    *)
(* default build (GET_FREE_BUFFER_NON_BLOCK, GET_OUTPUT_BUFFER_NON_BLOCK), *)
(* reordering on, hw_conceal off, no change of resolution and no latency   *)
(* limit in the sequence parameters, streams whose reference sets          *)
(* have at most real_size pictures (so no reference ever sits in the last  *)
(* slot, and HevcSetRefPics has nothing to swap).  Picture order counts    *)
(* are left to the stream: the smallest one can be any picture that waits  *)
(* for display.                                                            *)
(***************************************************************************)
EXTENDS FrameBuffers, Sequences

CONSTANTS
  Cores,        \* real core ids; the tokens of fifo_core when VcmdUsed
  RealSize,     \* real_size: the stream's DPB size
  MaxReorder,   \* sps->max_num_reorder_pics
  VcmdUsed,     \* vcmd_used: cores are driven through command buffers
  Results,      \* what the hardware may answer: "rdy", "error"
  SeekPoints    \* where the application may call HevcDecAbort: "idle", "retry"

DpbSize == RealSize + 1
Slots == 0 .. DpbSize
MinBuffers == DpbSize + 2       \* decoding starts with these
TotBuffers == DpbSize + 2 + Cardinality(Cores)

ASSUME ConstantsAssumption ==
  /\ Cores # {} /\ IsFiniteSet(Cores)
  /\ RealSize \in Nat \ {0} /\ MaxReorder \in 0 .. RealSize
  /\ VcmdUsed \in BOOLEAN
  /\ Results \subseteq {"rdy", "error"}
  /\ SeekPoints \subseteq {"idle", "retry"}
  /\ \E n \in MinBuffers .. TotBuffers : Bufs = 0 .. n - 1

VARIABLES
  fb,         \* fb_list, without its output fifo
  out_fifo,   \* fb_list->out_fifo: num_out pictures from out_rd_id on
  dpb,        \* slots, counters and out_buf; touched by the decoding thread
              \* and, for the error marks, by the listener
  dpc, cur,   \* where the decoding thread is, and its locals
  core,       \* per core: the job and the callback's progress on it
  opc,        \* the output thread
  held,       \* pictures the application has and has not given back
  acked,      \* the output thread has seen the abort (the test bench's abort_sem)
  broken      \* history: buffers whose last picture ended in a hardware error

vars == <<fb, out_fifo, dpb, dpc, cur, core, opc, held, acked, broken>>

Pics == [mem_idx : Bufs, error_info : BOOLEAN]
\* display is to_be_displayed and, while that is set, pic_output_flag.
SlotType == [mem_idx : Bufs, reference : BOOLEAN,
             display : {"no", "hidden", "shown"}, error_info : BOOLEAN]

DpbStorage == [slots : [Slots -> SlotType], num_out_pics_buffered : Int,
               fullness : Int, out_buf : Seq(Pics)]

\* The decoding thread's locals, and what HevcMCSetHwRdyCallback records.
Locals == [kind : {"none", "idr", "idr_no_output", "trail", "eos"},
           display : {"no", "hidden", "shown"}, pos : Slots, error : BOOLEAN]
Job == [st : {"idle", "run", "cleared", "lost"}, out_id : Bufs,
        ref_id : SUBSET Bufs, ref_mem_idx : SUBSET Bufs]

IdleCore == [st |-> "idle", out_id |-> 0, ref_id |-> {}, ref_mem_idx |-> {}]
NoLocals == [kind |-> "none", display |-> "no", pos |-> 0, error |-> FALSE]

Ids(seq) == {seq[i].mem_idx : i \in DOMAIN seq}

Init ==
  /\ fb = AllocateIds(Slots)
  /\ out_fifo = <<>>
  /\ dpb = [slots |-> [i \in Slots |->
                [mem_idx |-> i, reference |-> FALSE, display |-> "no",
                 error_info |-> FALSE]],
            num_out_pics_buffered |-> 0, fullness |-> 0, out_buf |-> <<>>]
  /\ dpc = "idle" /\ cur = NoLocals
  /\ core = [c \in Cores |-> IdleCore]
  /\ opc = "idle" /\ held = {} /\ acked = FALSE /\ broken = {}

-----------------------------------------------------------------------------
(* The decoded picture buffer *)

\* Marks the pictures that stay references, and counts out those that are
\* neither reference nor awaiting display any more (DpbBufFree).
SetRefPics(d, keep) ==
  LET freed == {i \in Slots : /\ d.slots[i].reference /\ i \notin keep
                              /\ d.slots[i].display = "no"}
  IN [d EXCEPT !.slots = [i \in Slots |->
                            [d.slots[i] EXCEPT !.reference = i \in keep]],
               !.fullness = @ - Cardinality(freed)]

\* HevcDpbUpdateOutputList starts by dropping what will never be shown.
DropUnshown_KeepsFullness(d) ==
  LET drop == {i \in Slots : d.slots[i].display = "hidden" /\ ~d.slots[i].reference}
  IN [d EXCEPT !.slots = [i \in Slots |-> [d.slots[i] EXCEPT
                            !.display = IF i \in drop THEN "no" ELSE @]]]
DropUnshown(d) ==
  LET drop == {i \in Slots : d.slots[i].display = "hidden" /\ ~d.slots[i].reference}
  IN [d EXCEPT !.slots = [i \in Slots |-> [d.slots[i] EXCEPT
                            !.display = IF i \in drop THEN "no" ELSE @]],
               !.fullness = @ - Cardinality(drop)]

Displayable == {i \in Slots : dpb.slots[i].display # "no"}

\* The loops around OutputPicture: HevcDpbMarkAllUnused and HevcFlushDpb empty
\* the DPB, HevcDpbUpdateOutputList and HevcDpbCheckMaxLatency bump it.
MoreToOutput ==
  CASE dpc \in {"flush", "eosflush"} -> Displayable # {}
    [] dpc = "bump" -> \/ dpb.num_out_pics_buffered > MaxReorder
                       \/ dpb.fullness > RealSize /\ Displayable # {}
    [] dpc = "late" -> dpb.num_out_pics_buffered > MaxReorder
    [] OTHER -> FALSE

\* One OutputPicture: FindSmallestPicOrderCnt, then out of the DPB and, if it
\* is to be shown, into out_buf and marked as temporary output.  A full out_buf
\* loses its oldest entry.
OutputPicture ==
  /\ MoreToOutput
  /\ \E i \in Displayable :
       LET s == dpb.slots[i]
           shown == s.display = "shown"
           full == shown /\ Len(dpb.out_buf) = DpbSize + 1
           kept == IF full THEN Tail(dpb.out_buf) ELSE dpb.out_buf
           pic == [mem_idx |-> s.mem_idx, error_info |-> s.error_info]
           fb1 == IF full THEN ClearOutput(fb, Head(dpb.out_buf).mem_idx) ELSE fb
       IN /\ dpb' = [dpb EXCEPT
               !.slots[i].display = "no",
               !.num_out_pics_buffered = IF shown THEN @ - 1 ELSE @,
               !.fullness = IF s.reference THEN @ ELSE @ - 1,
               !.out_buf = IF shown THEN Append(kept, pic) ELSE @]
          /\ fb' = IF shown THEN MarkTempOutput(fb1, s.mem_idx) ELSE fb
  /\ UNCHANGED <<out_fifo, dpc, cur, core, opc, held, acked, broken>>

-----------------------------------------------------------------------------
(* HevcDecDecode, one picture *)

\* The slice header: an IDR picture drops every reference and outputs all that
\* waits; any other picture names the references that stay.
DecodePicture(kind, keep, display) ==
  /\ dpc = "idle"
  /\ keep \subseteq {i \in Slots : dpb.slots[i].reference}
  /\ Cardinality(keep) <= RealSize
  /\ kind # "trail" => keep = {}
  /\ cur' = [NoLocals EXCEPT !.kind = kind, !.display = display]
  /\ IF kind = "trail"
     THEN /\ dpb' = DropUnshown(SetRefPics(dpb, keep))
          /\ dpc' = "bump"
     ELSE /\ dpb' = SetRefPics(dpb, {})
          /\ dpc' = "flush"
  /\ UNCHANGED <<fb, out_fifo, core, opc, held, acked, broken>>

\* The end of HevcSetRefPics for an IDR picture: no_output_of_prior_pics_flag
\* discards what was just output.
IdrFlushed ==
  /\ dpc = "flush" /\ ~MoreToOutput
  /\ dpc' = "bump"
  /\ IF cur.kind = "idr_no_output"
     THEN /\ fb' = RemoveTempOutputAll(fb)
          /\ dpb' = [dpb EXCEPT !.out_buf = <<>>]
     ELSE UNCHANGED <<fb, dpb>>
  /\ cur' = [cur EXCEPT !.kind = "trail"]
  /\ UNCHANGED <<out_fifo, core, opc, held, acked, broken>>

FreeSlots == {i \in Slots : dpb.slots[i].display = "no" /\ ~dpb.slots[i].reference}

\* The buffers whose use IncrementDPBRefCount counts, ref_id of the picture.
DpbIds == {dpb.slots[i].mem_idx : i \in Slots \ {DpbSize}}

\* The rest of HevcAllocateDpbImage, and IncrementDPBRefCount: slot i takes
\* the picture, in buffer id of the list f.
TakeBuffer(f, i, id) ==
  /\ dpb' = [dpb EXCEPT
       !.slots[i] = [mem_idx |-> id, reference |-> TRUE, display |-> cur.display,
                     error_info |-> FALSE],
       !.num_out_pics_buffered = IF cur.display = "shown" THEN @ + 1 ELSE @,
       !.fullness = @ + 1]
  /\ fb' = IncrementDPBRefCount(f,
             {IF j = i THEN id ELSE dpb.slots[j].mem_idx : j \in Slots \ {DpbSize}})
  /\ dpc' = "run"

AllocateDpbImage_TestsOutput ==
  /\ dpc = "bump" /\ ~MoreToOutput
  /\ LET i == CHOOSE i \in FreeSlots : \A j \in FreeSlots : i <= j
         old == dpb.slots[i].mem_idx
     IN /\ cur' = [cur EXCEPT !.pos = i]
        /\ IF IsBufferOutput(fb, old)
           THEN dpc' = "get" /\ UNCHANGED <<fb, dpb>>
           ELSE TakeBuffer(fb, i, old)
  /\ UNCHANGED <<out_fifo, core, opc, held, acked, broken>>

\* HevcAllocateDpbImage up to its test of the slot's old buffer.
AllocateDpbImage ==
  /\ dpc = "bump" /\ ~MoreToOutput
  /\ LET i == CHOOSE i \in FreeSlots : \A j \in FreeSlots : i <= j
         old == dpb.slots[i].mem_idx
     IN /\ cur' = [cur EXCEPT !.pos = i]
        /\ IF IsBufferReferenced(fb, old) \/ IsBufferOutput(fb, old)
           THEN dpc' = "get" /\ UNCHANGED <<fb, dpb>>
           ELSE TakeBuffer(fb, i, old)
  /\ UNCHANGED <<out_fifo, core, opc, held, acked, broken>>

\* GetFreePicBuffer and SetFreePicBuffer.  Without a buffer the call ends with
\* DEC_NO_DECODING_BUFFER: what it has output becomes final, and is not pushed.
GetFreeBuffer ==
  LET old == dpb.slots[cur.pos].mem_idx
      ids == FreePicBuffer(fb, old)
  IN /\ dpc = "get"
     /\ \/ \E id \in ids :
             TakeBuffer(IF id = old THEN fb
                        ELSE PushFreeBuffer(PopFreeBuffer(fb, id), old),
                        cur.pos, id)
        \/ /\ ids = {}
           /\ fb' = FinalizeOutputAll(fb)
           /\ dpc' = "retry"
           /\ UNCHANGED dpb
     /\ UNCHANGED <<out_fifo, cur, core, opc, held, acked, broken>>

\* The application calls again with the same data.  HevcSetRefPics finds its
\* work done, and so, after its loop, does HevcDpbUpdateOutputList.
Retry ==
  /\ dpc = "retry"
  /\ dpc' = "bump"
  /\ UNCHANGED <<fb, out_fifo, dpb, cur, core, opc, held, acked, broken>>

\* HevcRunAsic: a core (or a token of fifo_core and a command buffer) is
\* reserved, which blocks while there is none; HevcMCSetHwRdyCallback records
\* what the callback will need and marks the buffer; the core is enabled.
RunAsic(c) ==
  LET out == dpb.slots[cur.pos].mem_idx IN
  /\ dpc = "run" /\ core[c].st = "idle"
  /\ fb' = MarkHWOutput(fb, out)
  /\ core' = [core EXCEPT ![c] =
       [st |-> "run", out_id |-> out, ref_id |-> DpbIds,
        ref_mem_idx |-> {dpb.slots[i].mem_idx : i \in
                           {j \in Slots : dpb.slots[j].reference}}]]
  /\ broken' = broken \ {out}
  /\ cur' = [NoLocals EXCEPT !.pos = cur.pos]
  /\ dpc' = "check"
  /\ UNCHANGED <<out_fifo, dpb, opc, held, acked>>

\* HevcSCMarkOutputPicInfo, which the multi-core decoder runs too while the core
\* works: it looks for an error among the references, the new picture included ...
SCCheckRefs ==
  /\ dpc = "check"
  /\ cur' = [cur EXCEPT !.error =
       \E i \in Slots : dpb.slots[i].reference /\ dpb.slots[i].error_info]
  /\ dpc' = "mark"
  /\ UNCHANGED <<fb, out_fifo, dpb, core, opc, held, acked, broken>>

\* ... and writes what it found into the new picture's slot.
SCMarkOutputPicInfo ==
  /\ dpc = "mark"
  /\ dpb' = [dpb EXCEPT !.slots[cur.pos].error_info = cur.error]
  /\ cur' = NoLocals
  /\ dpc' = "late"
  /\ UNCHANGED <<fb, out_fifo, core, opc, held, acked, broken>>

\* After HevcDpbCheckMaxLatency, or HevcFlushDpb: FinalizeOutputAll.
Finalize ==
  /\ dpc \in {"late", "eosflush"} /\ ~MoreToOutput
  /\ fb' = FinalizeOutputAll(fb)
  /\ dpc' = "push"
  /\ UNCHANGED <<out_fifo, dpb, cur, core, opc, held, acked, broken>>

\* One turn of the loop of HevcMCPushOutputAll, which holds no lock between two
\* pictures: the next one of out_buf goes into the fifo, unless it is no output
\* any more.  The fifo holds MAX_PIC_BUFFERS pictures, one per buffer.
PushOutputPic ==
  /\ dpc = "push" /\ dpb.out_buf # <<>>
  /\ LET pic == Head(dpb.out_buf)
     IN out_fifo' = IF IsBufferOutput(fb, pic.mem_idx) THEN Append(out_fifo, pic)
                                                       ELSE out_fifo
  /\ dpb' = [dpb EXCEPT !.out_buf = Tail(@)]
  /\ UNCHANGED <<fb, dpc, cur, core, opc, held, acked, broken>>

\* The loop has found out_buf empty, and the call returns.
PushOutputDone ==
  /\ dpc = "push" /\ dpb.out_buf = <<>>
  /\ dpc' = IF cur.kind = "eos" THEN "eos" ELSE "idle"
  /\ cur' = NoLocals
  /\ UNCHANGED <<fb, out_fifo, dpb, core, opc, held, acked, broken>>

-----------------------------------------------------------------------------
(* HevcDecEndOfStream, HevcDecAbort, HevcDecAbortAfter *)

CoresQuiet == \A c \in Cores : core[c].st \in {"idle", "lost"}

EndOfStream ==
  /\ dpc = "idle"
  /\ cur' = [NoLocals EXCEPT !.kind = "eos"]
  /\ dpc' = "eoswait"
  /\ UNCHANGED <<fb, out_fifo, dpb, core, opc, held, acked, broken>>

\* The wait on dec_status, or DWLWaitCmdbufsDone; then HevcFlushDpb.
EosCoresDone ==
  /\ dpc = "eoswait" /\ CoresQuiet
  /\ dpc' = "eosflush"
  /\ UNCHANGED <<fb, out_fifo, dpb, cur, core, opc, held, acked, broken>>

Abort ==
  /\ dpc \in SeekPoints
  /\ fb' = SetAbortStatusInList(fb)
  /\ cur' = NoLocals
  /\ dpc' = "abort"
  /\ UNCHANGED <<out_fifo, dpb, core, opc, held, acked, broken>>

\* The application calls HevcDecAbortAfter once its output thread has been
\* told DEC_ABORTED.  SwAbortMCDec: with VCMD the owner's jobs that have not
\* run are dropped, and nobody calls their callback or returns their token.
AbortCores ==
  /\ dpc = "abort" /\ acked
  /\ core' = [c \in Cores |-> IF VcmdUsed /\ core[c].st = "run"
                              THEN [IdleCore EXCEPT !.st = "lost"] ELSE core[c]]
  /\ dpc' = "stop" /\ acked' = FALSE
  /\ UNCHANGED <<fb, out_fifo, dpb, cur, opc, held, broken>>

\* DWLWaitOwnerDone or DWLWaitCmdbufsDone, HevcEmptyDpb, HevcExistAbortState.
AbortAfter ==
  /\ dpc = "stop" /\ CoresQuiet
  /\ fb' = ClearAbortStatusInList(
             RemoveOutputAll(RemoveTempOutputAll(fb), Ids(out_fifo)))
  /\ out_fifo' = <<>>
  /\ dpb' = [slots |-> [i \in Slots |-> [dpb.slots[i] EXCEPT
                !.reference = FALSE, !.display = "no", !.error_info = FALSE]],
             num_out_pics_buffered |-> 0, fullness |-> 0, out_buf |-> <<>>]
  /\ dpc' = "idle"
  /\ UNCHANGED <<cur, core, opc, held, acked, broken>>

-----------------------------------------------------------------------------
(* The hardware, and HevcMCHwRdyCallback in the listener thread *)


\* The core ends the job and the listener, which runs one callback at a time,
\* finds it: nobody else can tell the two apart.  HevcMCMarkOutputPicInfo: the
\* picture inherits the error of a reference; out_buf, the DPB slot and the fifo
\* are told, the fifo only under the pic_id that one of the first two had.
\* Then ClearHWOutput, with its signal.
HwReady(c, result) ==
  LET out == core[c].out_id
      error == \/ result = "error"
               \/ \E i \in Slots : /\ dpb.slots[i].error_info
                                   /\ dpb.slots[i].mem_idx \in core[c].ref_mem_idx
      Told(p) == IF p.mem_idx = out THEN [p EXCEPT !.error_info = error] ELSE p
      known == \/ out \in Ids(dpb.out_buf)
               \/ \E i \in Slots : dpb.slots[i].mem_idx = out
  IN /\ core[c].st = "run"
     /\ \A d \in Cores : core[d].st # "cleared"
     /\ dpb' = [dpb EXCEPT
          !.slots = [i \in Slots |-> Told(@[i])],
          !.out_buf = [i \in DOMAIN @ |-> Told(@[i])]]
     /\ out_fifo' = IF known THEN [i \in DOMAIN out_fifo |-> Told(out_fifo[i])]
                             ELSE out_fifo
     /\ broken' = IF result = "error" THEN broken \cup {out} ELSE broken
     /\ fb' = ClearHWOutput(fb, out)
     /\ opc' = IF SignalsHwReady(fb, out) /\ opc = "asleep" THEN "awake" ELSE opc
     /\ core' = [core EXCEPT ![c].st = "cleared"]
     /\ UNCHANGED <<dpc, cur, held, acked>>

\* DecrementDPBRefCountExt, then DWLReleaseHw, or DWLReleaseCmdBuf and
\* FifoPush: the core is free again.
ReleaseCore(c) ==
  /\ core[c].st = "cleared"
  /\ fb' = DecrementDPBRefCountExt(fb, core[c].ref_id)
  /\ core' = [core EXCEPT ![c] = IdleCore]
  /\ UNCHANGED <<out_fifo, dpb, dpc, cur, opc, held, acked, broken>>

-----------------------------------------------------------------------------
(* The application's output thread: HevcDecNextPicture and PictureConsumed *)

\* PeekOutputPic has passed its first tests: a new call sees no abort, a thread
\* woken on hw_rdy_cv does not look again.
Peeking ==
  /\ out_fifo # <<>>
  /\ opc = "awake" \/ (opc = "idle" /\ ~fb.abort)

PeekWaits ==
  /\ Peeking
  /\ IsHwOngoing(fb, Head(out_fifo).mem_idx)
  /\ opc' = "asleep"
  /\ UNCHANGED <<fb, out_fifo, dpb, dpc, cur, core, held, acked, broken>>

PeekOutputPic ==
  /\ Peeking
  /\ ~IsHwOngoing(fb, Head(out_fifo).mem_idx)
  /\ held' = held \cup {Head(out_fifo)}
  /\ out_fifo' = Tail(out_fifo)
  /\ opc' = "idle"
  /\ UNCHANGED <<fb, dpb, dpc, cur, core, acked, broken>>

\* DEC_ABORTED, which the test bench answers with a post of abort_sem.
NextPictureAborted ==
  /\ opc = "idle" /\ dpc = "abort" /\ ~acked
  /\ acked' = TRUE
  /\ UNCHANGED <<fb, out_fifo, dpb, dpc, cur, core, opc, held, broken>>

\* DEC_END_OF_STREAM: the output thread exits.
NextPictureEnd ==
  /\ opc = "idle" /\ dpc = "eos" /\ out_fifo = <<>>
  /\ opc' = "exit"
  /\ UNCHANGED <<fb, out_fifo, dpb, dpc, cur, core, held, acked, broken>>

PictureConsumed(p) ==
  /\ p \in held
  /\ fb' = PopOutputPic(fb, p.mem_idx)
  /\ held' = held \ {p}
  /\ UNCHANGED <<out_fifo, dpb, dpc, cur, core, opc, acked, broken>>

-----------------------------------------------------------------------------
\* The stream has ended, all threads are done: HevcDecRelease is not modelled.
Finished == dpc = "eos" /\ opc = "exit" /\ held = {} /\ UNCHANGED vars

\* What the decoding thread does once it is in a call.
InDecode ==
  \/ OutputPicture \/ IdrFlushed \/ AllocateDpbImage \/ GetFreeBuffer
  \/ Retry \/ (\E c \in Cores : RunAsic(c)) \/ SCCheckRefs \/ SCMarkOutputPicInfo
  \/ Finalize \/ PushOutputPic \/ PushOutputDone
  \/ EosCoresDone \/ AbortCores \/ AbortAfter

OutputThread == PeekWaits \/ PeekOutputPic \/ NextPictureAborted \/ NextPictureEnd

Next ==
  \/ \E kind \in {"idr", "idr_no_output", "trail"}, keep \in SUBSET Slots,
        display \in {"hidden", "shown"} : DecodePicture(kind, keep, display)
  \/ EndOfStream \/ Abort
  \/ InDecode
  \/ \E c \in Cores : (\E r \in Results : HwReady(c, r)) \/ ReleaseCore(c)
  \/ OutputThread
  \/ \E p \in held : PictureConsumed(p)
  \/ Finished

Spec == Init /\ [][Next]_vars

-----------------------------------------------------------------------------
(* Properties *)

\* Every variable stays in its type.
TypeOK ==
  /\ fb \in FrameBufferList
  /\ out_fifo \in Seq(Pics)
  /\ dpb \in DpbStorage
  /\ dpc \in {"idle", "flush", "bump", "get", "run", "late", "push",
              "retry", "check", "mark", "abort", "stop", "eoswait", "eosflush", "eos"}
  /\ cur \in Locals
  /\ core \in [Cores -> Job]
  /\ opc \in {"idle", "asleep", "awake", "exit"}
  /\ held \subseteq Pics /\ acked \in BOOLEAN /\ broken \subseteq Bufs

HeldIds == {p.mem_idx : p \in held}

\* Buffers on their way to the application.
Outputs == Ids(dpb.out_buf) \cup Ids(out_fifo) \cup HeldIds

\* A job that still writes its picture, and one that still counts its references.
Writing(c) == core[c].st = "run"
Counting(c) == Writing(c) \/ core[c].st = "cleared"

\* Who has counted buffer b in n_ref_count.
Holders(b) ==
  {<<"writes", c>> : c \in {c \in Cores : Writing(c) /\ core[c].out_id = b}}
  \cup {<<"uses", c>> : c \in {c \in Cores : Counting(c) /\ b \in core[c].ref_id}}
  \cup (IF b \in Outputs THEN {<<"output", "app">>} ELSE {})
  \cup (IF dpc = "run" /\ b \in DpbIds THEN {<<"prepares", "dec">>} ELSE {})

\* n_ref_count is exactly the number of users a buffer has, and free_buffers
\* the number of buffers PopFreeBuffer could find: three threads count both up
\* and down, in pieces, and GetFreePicBuffer trusts free_buffers.
RefCountsExact ==
  /\ \A b \in Bufs : fb.fb_stat[b].n_ref_count = Cardinality(Holders(b))
  /\ fb.free_buffers = Cardinality({b \in Bufs : IsIdle(fb.fb_stat[b])})

\* A core is never started on a buffer that the application or the output
\* queues hold, that another running core writes or reads as a reference, or
\* that the DPB still needs.  (hevc_dpb.c hands out a slot whose old buffer
\* may be in any of these uses.)
NeverOverwrites ==
  [][\A c \in Cores : core[c].st # "run" /\ core'[c].st = "run" =>
       LET b == core'[c].out_id IN
       /\ b \notin Outputs
       /\ \A d \in Cores \ {c} : Writing(d) =>
            b # core[d].out_id /\ b \notin core[d].ref_mem_idx
       /\ \A i \in Slots \ {cur.pos} : dpb.slots[i].mem_idx # b]_vars

\* What the application has been given is finished: no core still writes it.
DeliveredIsDone ==
  \A c \in Cores : Writing(c) => core[c].out_id \notin HeldIds

\* The output thread sleeps on hw_rdy_cv only while the picture it wants is
\* being written: the one signal for it has not gone by.
NoLostWakeup ==
  opc = "asleep" => IsHwOngoing(fb, Head(out_fifo).mem_idx)

\* The DPB's counters are what they count, so that the bumping loops stop with
\* their assertion true and a slot is free for the next picture; and out_buf
\* is never so full that OutputPicture would drop a picture.
DpbCountsExact ==
  /\ dpb.fullness = Cardinality(Slots \ FreeSlots)
  /\ dpb.num_out_pics_buffered =
       Cardinality({i \in Slots : dpb.slots[i].display = "shown"})
  /\ dpc \in {"bump", "get"} /\ ~MoreToOutput => FreeSlots # {}
  /\ Len(dpb.out_buf) <= DpbSize

\* A decode call that found no buffer does not wait for itself: while it retries,
\* a buffer outside the DPB is idle, or is on its way back from a core, the
\* output thread or the application.  (What this call has put out stays in
\* out_buf until a later call succeeds, so those pictures cannot help.)
BufferWillCome ==
  dpc = "retry" =>
    \E b \in Bufs \ {dpb.slots[i].mem_idx : i \in Slots} :
      /\ "FREE" \in fb.fb_stat[b].b_used
      /\ b \notin Ids(dpb.out_buf)
      /\ Holders(b) = {} <=> IsIdle(fb.fb_stat[b])

\* hevcdecapi.c on release: "make sure all in sync in multicore mode, hw idle,
\* output empty", a wait for every n_ref_count to be 0.  With the cores quiet
\* and no picture on its way to the application there is nothing to wait for.
ReleaseFindsListUnused ==
  dpc = "idle" /\ CoresQuiet /\ Outputs = {} =>
    \A b \in Bufs : ~IsBufferReferenced(fb, b)

\* hevcdecapi.c: "mark corrupt picture in output queue for MC".  A picture the
\* hardware ended with an error reaches the application marked.
CorruptIsMarked ==
  \A p \in held : p.mem_idx \in broken => p.error_info
=============================================================================

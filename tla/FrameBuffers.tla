---------------------------- MODULE FrameBuffers ----------------------------
(***************************************************************************)
(* The frame buffer manager of the decoders: hevc_fb_mngr.c.  fb_list is a *)
(* record; every operator is one function of the file, and one critical    *)
(* section of ref_count_mutex, as a map from the list before to the list   *)
(* after.  The fifo of finished pictures, under its own out_count_mutex,   *)
(* is a sequence that HevcMultiCore keeps.                                 *)
(*                                                                         *)
(* Scope: the default build.  GET_FREE_BUFFER_NON_BLOCK is defined, so a   *)
(* buffer that is not there is an answer and not a wait, and               *)
(* ref_count_cv has no waiter while a stream is decoded.                   *)
(***************************************************************************)
EXTENDS Integers, FiniteSets

CONSTANT Bufs       \* the ids AllocateIdUsed and AllocateIdFree handed out

ASSUME BufsAssumption == Bufs \subseteq Nat /\ IsFiniteSet(Bufs)

\* b_used is a set of flags; FB_HW_OUT_FRAME is both halves of FB_HW_ONGOING,
\* which the progressive decoders only set and clear together.
Flags == {"FREE", "ALLOCATED", "TEMP_OUTPUT", "OUTPUT", "HW_ONGOING"}

FrameBufferList ==
  [fb_stat : [Bufs -> [b_used : SUBSET Flags, n_ref_count : Nat]],
   free_buffers : Int,
   abort : BOOLEAN]

\* AllocateIdUsed for the ids that go straight into DPB slots, AllocateIdFree
\* for the rest.
AllocateIds(used) ==
  [fb_stat |-> [b \in Bufs |->
      [b_used |-> IF b \in used THEN {"ALLOCATED"} ELSE {"FREE"},
       n_ref_count |-> 0]],
   free_buffers |-> Cardinality(Bufs \ used),
   abort |-> FALSE]

IsBufferReferenced(fb, id) == fb.fb_stat[id].n_ref_count # 0
IsBufferOutput(fb, id) == "OUTPUT" \in fb.fb_stat[id].b_used
IsHwOngoing(fb, id) == "HW_ONGOING" \in fb.fb_stat[id].b_used

\* A FREE buffer that nothing uses; b_used is compared with FB_FREE as a whole.
IsIdle(stat) == stat.b_used = {"FREE"} /\ stat.n_ref_count = 0

-----------------------------------------------------------------------------
\* n_ref_count++ and a flag.
Mark(fb, id, type) ==
  [fb EXCEPT !.fb_stat[id] = [b_used |-> @.b_used \cup {type},
                              n_ref_count |-> @.n_ref_count + 1]]

MarkHWOutput(fb, id) == Mark(fb, id, "HW_ONGOING")
MarkTempOutput(fb, id) == Mark(fb, id, "TEMP_OUTPUT")

\* The common body of ClearHWOutput and ClearOutput: n_ref_count-- unless it
\* is 0 already, the flags go, and a buffer left FREE and unused is counted.
Unmark(fb, id, types) ==
  LET old == fb.fb_stat[id]
      new == [b_used |-> old.b_used \ types,
              n_ref_count |-> IF old.n_ref_count > 0 THEN old.n_ref_count - 1
                                                     ELSE 0]
  IN [fb EXCEPT !.fb_stat[id] = new,
                !.free_buffers = IF IsIdle(new) THEN @ + 1 ELSE @]

ClearHWOutput(fb, id) == Unmark(fb, id, {"HW_ONGOING"})
ClearOutput(fb, id) == Unmark(fb, id, {"OUTPUT", "TEMP_OUTPUT"})
PopOutputPic(fb, id) ==
  IF IsBufferOutput(fb, id) THEN ClearOutput(fb, id) ELSE fb

\* ClearHWOutput signals hw_rdy_cv only for a picture that is a final output.
SignalsHwReady_WhileTemp(fb, id) ==
  "TEMP_OUTPUT" \in fb.fb_stat[id].b_used
SignalsHwReady(fb, id) == IsBufferOutput(ClearHWOutput(fb, id), id)

FinalizeOutputAll_Sets(fb) ==
  [fb EXCEPT !.fb_stat = [b \in Bufs |-> [fb.fb_stat[b] EXCEPT !.b_used =
     IF "TEMP_OUTPUT" \in @ THEN {"ALLOCATED", "OUTPUT"} ELSE @]]]
FinalizeOutputAll(fb) ==
  LET Final(used) == IF "TEMP_OUTPUT" \in used
                     THEN (used \ {"TEMP_OUTPUT"}) \cup {"OUTPUT"} ELSE used
  IN [fb EXCEPT !.fb_stat = [b \in Bufs |-> [fb.fb_stat[b] EXCEPT !.b_used = Final(@)]]]

\* ClearOutput of each id of a set.  Each call touches its own id.
ClearOutputs(fb, ids) ==
  LET new == [b \in Bufs |-> IF b \in ids THEN ClearOutput(fb, b).fb_stat[b]
                                          ELSE fb.fb_stat[b]]
  IN [fb EXCEPT !.fb_stat = new,
                !.free_buffers = @ + Cardinality({b \in ids : IsIdle(new[b])})]

RemoveTempOutputAll(fb) ==
  ClearOutputs(fb, {b \in Bufs : "TEMP_OUTPUT" \in fb.fb_stat[b].b_used})

\* Default build, pp off: only what the output fifo still holds is cleared.
RemoveOutputAll(fb, fifo) == ClearOutputs(fb, {b \in fifo : IsBufferOutput(fb, b)})

-----------------------------------------------------------------------------
\* The ids of IncrementDPBRefCount and DecrementDPBRefCountExt are those of
\* slots 0 .. dpb_size - 1, which are distinct: a set is as good as the loop.
IncrementDPBRefCount(fb, ids) ==
  [fb EXCEPT !.fb_stat = [b \in Bufs |->
     [fb.fb_stat[b] EXCEPT !.n_ref_count = IF b \in ids THEN @ + 1 ELSE @]]]

DecrementDPBRefCountExt(fb, ids) ==
  LET used == {b \in ids : IsBufferReferenced(fb, b)}
      new == [b \in Bufs |-> [fb.fb_stat[b] EXCEPT
                !.n_ref_count = IF b \in used THEN @ - 1 ELSE @]]
  IN [fb EXCEPT !.fb_stat = new,
                !.free_buffers = @ + Cardinality({b \in used : IsIdle(new[b])})]

-----------------------------------------------------------------------------
FreePicBuffer_OffTheEnd(fb, old) ==
  LET idle == {b \in Bufs : IsIdle(fb.fb_stat[b])} IN
  IF fb.abort THEN {}
  ELSE IF IsIdle(fb.fb_stat[old]) THEN {old}
  ELSE IF idle = {} THEN {Cardinality(Bufs)}
  ELSE {b \in idle : \A c \in idle : b <= c}

\* The id GetFreePicBuffer returns, as a set: empty for FB_NOT_VALID_ID.
\* PopFreeBuffer scans from id 0, so it finds the lowest idle id.
FreePicBuffer(fb, old) ==
  LET idle == {b \in Bufs : IsIdle(fb.fb_stat[b])} IN
  IF fb.abort \/ (fb.free_buffers = 0 /\ IsBufferReferenced(fb, old)) THEN {}
  ELSE IF IsIdle(fb.fb_stat[old]) THEN {old}
  ELSE {b \in idle : \A c \in idle : b <= c}

PopFreeBuffer(fb, id) ==
  [fb EXCEPT !.fb_stat[id].b_used = {"ALLOCATED"}, !.free_buffers = @ - 1]

PushFreeBuffer_Counts(fb, id) ==
  [fb EXCEPT !.fb_stat[id].b_used = (@ \ {"ALLOCATED"}) \cup {"FREE"},
             !.free_buffers = @ + 1]
PushFreeBuffer_KeepsState(fb, id) ==
  [fb EXCEPT !.free_buffers = IF IsBufferReferenced(fb, id) THEN @ ELSE @ + 1]
PushFreeBuffer(fb, id) ==
  [fb EXCEPT !.fb_stat[id].b_used = (@ \ {"ALLOCATED"}) \cup {"FREE"},
             !.free_buffers = IF IsBufferReferenced(fb, id) THEN @ ELSE @ + 1]

SetAbortStatusInList(fb) == [fb EXCEPT !.abort = TRUE]
ClearAbortStatusInList(fb) == [fb EXCEPT !.abort = FALSE]
=============================================================================

-------------------------- MODULE CmdbufOwnership --------------------------
(***************************************************************************)
(* What acquire_cmdbuf and return_cmdbuf of hantro_vcmd.c promise to their *)
(* callers: every command buffer is either free or owned by exactly one    *)
(* caller, a caller becomes the owner of a buffer only while it is free,   *)
(* and only its owner makes it free again.                                 *)
(***************************************************************************)
CONSTANTS Objs,     \* the command buffers, objs[SLOT_NUM_CMDBUF]
          Threads,  \* the callers
          Nobody    \* the owner of a free buffer

VARIABLE owner

Init == owner = [o \in Objs |-> Nobody]

Take(t, o) ==
  /\ owner[o] = Nobody
  /\ owner' = [owner EXCEPT ![o] = t]

Give(t, o) ==
  /\ owner[o] = t
  /\ owner' = [owner EXCEPT ![o] = Nobody]

Next == \E t \in Threads, o \in Objs : Take(t, o) \/ Give(t, o)

Spec == Init /\ [][Next]_owner
=============================================================================

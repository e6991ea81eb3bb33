--------------------------- MODULE MCHevcMultiCore ---------------------------
(***************************************************************************)
(* HevcMultiCore on the smallest DPB: one reference picture, so three      *)
(* slots, two cores, and the one buffer more with which decoding starts:  *)
(* buffers are scarce, and the decoder has to retry.                       *)
(***************************************************************************)
EXTENDS HevcMultiCore
=============================================================================

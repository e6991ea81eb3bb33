----------------------------- MODULE MCDecCores -----------------------------
(***************************************************************************)
(* DecCores with two cores and two processes: two multi-core instances and *)
(* a single-core one share the first, another single-core instance, which  *)
(* can use core 1 only, is the second.                                     *)
(***************************************************************************)
EXTENDS DecCores
CONSTANTS m1, m2, s1, s2, f1, f2

TwoCores == 0 .. 1
MCFileOf == [c \in Clients |-> IF c = s2 THEN f2 ELSE f1]
MCMask == [c \in Clients |-> IF c = s2 THEN {1} ELSE {0, 1}]
=============================================================================

---------------------------- MODULE MCCmdbufPool ----------------------------
(* Three buffers and three threads: more callers in flight than permits.   *)
EXTENDS CmdbufPool
CONSTANTS o1, o2, o3
MCObjs == {o1, o2, o3}
MCOrder == <<o1, o2, o3>>
=============================================================================

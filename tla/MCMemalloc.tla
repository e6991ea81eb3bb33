------------------------------ MODULE MCMemalloc ------------------------------
(* An instance of Memalloc: two clients and five chunks of four bytes.     *)
EXTENDS Memalloc
CONSTANTS f1, f2
=============================================================================

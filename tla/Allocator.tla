------------------------------ MODULE Allocator ------------------------------
(***************************************************************************)
(* What the memalloc driver promises to its clients: a request gets the    *)
(* lowest run of free chunks that is long enough, and is refused only if   *)
(* there is none; a buffer stays its owner's until the owner frees it or   *)
(* closes the file, or the driver is reset.                                *)
(***************************************************************************)
EXTENDS Integers

CONSTANTS
  Files,      \* open file descriptors of the clients
  N,          \* number of chunks
  Lengths,    \* numbers of chunks that are asked for
  NoFile,     \* before the first request
  NoChunk     \* the answer of a refused request

VARIABLES
  held,       \* the buffers: records of their file, first chunk and length
  answer      \* the last request and the first chunk it got

InBuffer(c, b) == b.at <= c /\ c < b.at + b.n
Free(at, n) == \A c \in at .. at + n - 1 : \A b \in held : ~InBuffer(c, b)
Fits(at, n) == at + n <= N /\ Free(at, n)

Init == held = {} /\ answer = [by |-> NoFile, n |-> 0, at |-> NoChunk]

Grant(f, n) == \E at \in 0 .. N - 1 :
  /\ Fits(at, n)
  /\ \A lower \in 0 .. at - 1 : ~Fits(lower, n)
  /\ held' = held \cup {[file |-> f, at |-> at, n |-> n]}
  /\ answer' = [by |-> f, n |-> n, at |-> at]

Refuse(f, n) ==
  /\ \A at \in 0 .. N - 1 : ~Fits(at, n)
  /\ answer' = [by |-> f, n |-> n, at |-> NoChunk]
  /\ UNCHANGED held

Release(f, at) == /\ held' = {b \in held : ~(b.file = f /\ b.at = at)}
                  /\ UNCHANGED answer

Close(f) == /\ held' = {b \in held : b.file # f}
            /\ UNCHANGED answer

Reset == held' = {} /\ UNCHANGED answer

Next == \/ \E f \in Files, n \in Lengths : Grant(f, n) \/ Refuse(f, n)
        \/ \E f \in Files : Close(f) \/ \E at \in 0 .. N - 1 : Release(f, at)
        \/ Reset

Spec == Init /\ [][Next]_<<held, answer>>
=============================================================================

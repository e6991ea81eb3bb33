------------------------------- MODULE MCVcmd -------------------------------
(* Instances of Vcmd: up to three threads in two processes, two devices.   *)
EXTENDS Vcmd
CONSTANTS o1, o2, o3, t1, t2, t3, p1, p2, i1, i2, d1, d2

OneThread == {t1}
TwoThreads == {t1, t2}
OneProc == {p1}
TwoProcs == {p1, p2}
AllOfP1 == [t \in Threads |-> p1]
OwnProc == [t \in Threads |-> IF t = t1 THEN p1 ELSE p2]
OwnOwner == [t \in Threads |-> IF t = t1 THEN i1 ELSE i2]
OneOwner == [t \in Threads |-> i1]
OneDevice == <<d1>>
TwoDevices == <<d1, d2>>
MixedCores == [t \in Threads |-> IF t = t1 THEN Devs ELSE {d1}]
AllCores == [t \in Threads |-> Devs]
Symmetry == Permutations(Objs)
=============================================================================

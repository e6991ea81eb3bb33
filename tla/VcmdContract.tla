---------------------------- MODULE VcmdContract ----------------------------
(***************************************************************************)
(* What the VCMD engine of hantro_vcmd.c promises to the processes that    *)
(* use it: a process reserves a command buffer, queues it on a device, is  *)
(* told once of its end, and releases it.  The jobs of a device run and    *)
(* are reported in the order in which they were queued, a job reported as  *)
(* good has run, and no buffer goes to another process before it was       *)
(* released.                                                               *)
(***************************************************************************)
CONSTANTS Objs,   \* the command buffers
          Procs,  \* the processes
          Devs,   \* the devices
          Nil     \* no process, no device

VARIABLES
  stage,    \* of the life of a command buffer
  proc,     \* the process that has it
  on,       \* the device it was queued on
  earlier,  \* the jobs of its device that must be reported before it
  ran,      \* the jobs that have run since they were reserved
  result    \* what was reported

vars == <<stage, proc, on, earlier, ran, result>>

Init ==
  /\ stage = [o \in Objs |-> "free"]
  /\ proc = [o \in Objs |-> Nil]
  /\ on = [o \in Objs |-> Nil]
  /\ earlier = [o \in Objs |-> {}]
  /\ ran = {}
  /\ result = [o \in Objs |-> "ok"]

Moves(o, from, to) == stage[o] = from /\ stage' = [stage EXCEPT ![o] = to]

Reserve(p, o) ==
  /\ Moves(o, "free", "reserved")
  /\ proc' = [proc EXCEPT ![o] = p]
  /\ on' = [on EXCEPT ![o] = Nil]
  /\ ran' = ran \ {o}
  /\ result' = [result EXCEPT ![o] = "ok"]
  /\ UNCHANGED earlier

(* Behind all that is queued on the device.                                *)
QueuedOn(d) == {x \in Objs : stage[x] = "queued" /\ on[x] = d}
Queue(p, o, d) ==
  /\ Moves(o, "reserved", "queued")
  /\ proc[o] = p
  /\ on' = [on EXCEPT ![o] = d]
  /\ earlier' = [earlier EXCEPT ![o] = QueuedOn(d)]
  /\ UNCHANGED <<proc, ran, result>>

Run(o) ==
  /\ stage[o] = "queued" /\ earlier[o] \subseteq ran
  /\ ran' = ran \cup {o}
  /\ UNCHANGED <<stage, proc, on, earlier, result>>

Report(o, status) ==
  /\ Moves(o, "queued", "reported")
  /\ earlier[o] = {}
  /\ status = "ok" => o \in ran
  /\ earlier' = [x \in Objs |-> earlier[x] \ {o}]
  /\ result' = [result EXCEPT ![o] = status]
  /\ UNCHANGED <<proc, on, ran>>

Deliver(p, o) ==
  /\ Moves(o, "reported", "delivered")
  /\ proc[o] = p
  /\ UNCHANGED <<proc, on, earlier, ran, result>>

(* A released buffer may be needed by its device for a while.              *)
Release(p, o) ==
  /\ \E s \in {"reserved", "delivered"} : Moves(o, s, "released")
  /\ proc[o] = p
  /\ UNCHANGED <<proc, on, earlier, ran, result>>

Free(o) ==
  /\ proc' = [proc EXCEPT ![o] = Nil]
  /\ UNCHANGED <<on, earlier, ran, result>>
Return(o) == Moves(o, "released", "free") /\ Free(o)
ReleaseAtOnce(p, o) ==
  /\ \E s \in {"reserved", "delivered"} : Moves(o, s, "free")
  /\ proc[o] = p
  /\ Free(o)

Client(p, o) == \/ Reserve(p, o) \/ Deliver(p, o) \/ Release(p, o)
                \/ ReleaseAtOnce(p, o) \/ \E d \in Devs : Queue(p, o, d)

Next == \E o \in Objs :
  \/ \E p \in Procs : Client(p, o)
  \/ Run(o) \/ Return(o)
  \/ \E status \in {"ok", "cmderr", "buserr"} : Report(o, status)

Spec == Init /\ [][Next]_vars
=============================================================================

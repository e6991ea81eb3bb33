----------------------------- MODULE VcmdProofs -----------------------------
(***************************************************************************)
(* Proofs about the VCMD engine, for any number of cmdbufs, threads,       *)
(* processes and devices, with and without SMP, signals and serial calls:  *)
(* every variable keeps its type and no handler follows a NULL pointer,    *)
(* and each spinlock and the semaphore of the module have one owner.       *)
(* The type invariant is inductive: besides the types it says where the    *)
(* locals of a call, the core of a linked cmdbuf, the buffer of a running  *)
(* device and the current buffer of the interrupt routine are given.       *)
(* LockOwners is inductive once the types are known; the lemmas say what a *)
(* step may do to the locks, and each action is one of those steps.        *)
(***************************************************************************)
EXTENDS Vcmd, FiniteSetTheorems, TLAPS

---------------------------------------------------------------------------
(* What the helpers return and leave.                                      *)
LEMMA NextOfType ==
  ASSUME TypeOK, NEW d \in Devs, NEW o \in Objs
  PROVE  NextOf(d, o) \in ObjOrNil /\ PrevOf(d, o) \in ObjOrNil
BY DEF TypeOK, ObjTypes, DevTypes, NextOf, PrevOf, ItemAt, ObjOrNil

LEMMA WithoutType ==
  ASSUME NEW s \in Seq(Objs), NEW o \in Objs
  PROVE  Without(s, o) \in Seq(Objs)
BY DEF Without, RemoveAt, On, Pos

(* The fields that taking a node off a work list changes.                  *)
ListTypes ==
  /\ jmpNext \in [Objs -> ObjOrNil]
  /\ stale \in [Objs -> [next : ObjOrNil, prev : ObjOrNil]]
  /\ workList \in [Devs -> Seq(Objs)]
  /\ linked \in [Objs -> BOOLEAN]
  /\ \A o \in Objs : linked[o] => coreId[o] # Nil

LEMMA RelinkType ==
  ASSUME TypeOK, NEW p \in ObjOrNil, NEW n \in ObjOrNil
  PROVE  Relink(p, n) \in [Objs -> ObjOrNil]
BY DEF TypeOK, ObjTypes, Relink, ObjOrNil

LEMMA UnlinkTypes ==
  ASSUME TypeOK, NEW d \in Devs, NEW o \in Objs, Unlink(d, o), UNCHANGED coreId
  PROVE  ListTypes'
<1>1. NextOf(d, o) \in ObjOrNil /\ PrevOf(d, o) \in ObjOrNil
  BY NextOfType
<1>2. jmpNext' \in [Objs -> ObjOrNil]
  BY <1>1, RelinkType DEF Unlink
<1>3. stale' \in [Objs -> [next : ObjOrNil, prev : ObjOrNil]]
  BY <1>1 DEF Unlink, TypeOK, ObjTypes
<1>4. workList' \in [Devs -> Seq(Objs)]
  BY WithoutType DEF Unlink, TypeOK, DevTypes
<1>5. linked' \in [Objs -> BOOLEAN] /\ (\A q \in Objs : linked'[q] => coreId'[q] # Nil)
  BY DEF Unlink, TypeOK, ObjTypes
<1> QED
  BY <1>2, <1>3, <1>4, <1>5 DEF ListTypes

LEMMA ListsKept ==
  ASSUME TypeOK, UNCHANGED <<jmpNext, stale, workList, linked, coreId>>
  PROVE  ListTypes'
BY DEF TypeOK, ObjTypes, DevTypes, ListTypes

LEMMA ReturnCmdbufTypes ==
  ASSUME TypeOK, NEW o \in Objs, ReturnCmdbuf(o)
  PROVE  PoolTypes' /\ po' \in [Objs -> Procs \cup {Nil}]
BY DEF TypeOK, PoolTypes, ObjTypes, ReturnCmdbuf

LEMMA RemoveJobTypes ==
  ASSUME TypeOK, NEW d \in Devs, NEW o \in Objs, RemoveJob(d, o), UNCHANGED coreId
  PROVE  ListTypes' /\ PoolTypes' /\ po' \in [Objs -> Procs \cup {Nil}]
<1>1. CASE linked[o] /\ ~CanDelink(state[d], d, o)
  <2>1. UNCHANGED <<po, poolVars, jmpNext, stale, workList, linked>>
    BY <1>1 DEF RemoveJob
  <2> QED
    BY <2>1, ListsKept DEF TypeOK, PoolTypes, ObjTypes, poolVars
<1>2. CASE ~(linked[o] /\ ~CanDelink(state[d], d, o))
  <2>1. ReturnCmdbuf(o)
    BY <1>2 DEF RemoveJob
  <2>2. \/ Unlink(d, o)
        \/ UNCHANGED <<jmpNext, stale, workList, linked>>
    BY <1>2 DEF RemoveJob
  <2> QED
    BY <2>1, <2>2, ReturnCmdbufTypes, UnlinkTypes, ListsKept
<1> QED
  BY <1>1, <1>2

LEMMA AddJobTypes ==
  ASSUME TypeOK, NEW d \in Devs, NEW o \in Objs, AddJob(d, o), UNCHANGED stale
  PROVE  ListTypes' /\ coreId' \in [Objs -> DevOrNil]
<1>1. ItemAt(workList[d], Len(workList[d])) \in ObjOrNil
  BY DEF TypeOK, DevTypes, ItemAt, ObjOrNil
<1>2. jmpNext' \in [Objs -> ObjOrNil]
  BY <1>1, RelinkType DEF AddJob, ObjOrNil
<1>3. workList' \in [Devs -> Seq(Objs)]
  BY DEF AddJob, TypeOK, DevTypes
<1>4. /\ linked' \in [Objs -> BOOLEAN]
      /\ coreId' \in [Objs -> DevOrNil]
      /\ \A q \in Objs : linked'[q] => coreId'[q] # Nil
  BY NilAssumption DEF AddJob, TypeOK, ObjTypes, DevOrNil
<1> QED
  BY <1>2, <1>3, <1>4 DEF ListTypes, TypeOK, ObjTypes

(* The registers and the software state that starting a device changes.    *)
RunTypes ==
  /\ state \in [Devs -> {"power_on", "idle", "working"}]
  /\ hw \in [Devs -> {"off", "run", "stall"}]
  /\ exeId \in [Devs -> ObjOrNil]
  /\ abortReq \in [Devs -> BOOLEAN]
  /\ \A d \in Devs : hw[d] # "off" => exeId[d] # Nil

LEMMA RunKept ==
  ASSUME TypeOK, UNCHANGED <<state, hw, exeId, abortReq>>
  PROVE  RunTypes'
BY DEF TypeOK, DevTypes, HwTypes, RunTypes

LEMMA StartDevTypes ==
  ASSUME TypeOK, NEW d \in Devs, StartDev(d)
  PROVE  RunTypes'
<1>1. CASE state[d] = "working" \/ Pending(d) = {}
  BY <1>1, RunKept DEF StartDev
<1>2. CASE ~(state[d] = "working" \/ Pending(d) = {})
  <2>1. PICK first \in Pending(d) :
           /\ state' = [state EXCEPT ![d] = "working"]
           /\ hw' = [hw EXCEPT ![d] = "run"]
           /\ exeId' = [exeId EXCEPT ![d] = workList[d][first]]
           /\ abortReq' = [abortReq EXCEPT ![d] = FALSE]
    BY <1>2 DEF StartDev
  <2>2. workList[d][first] \in Objs
    BY DEF Pending, TypeOK, DevTypes
  <2> QED
    BY <2>1, <2>2, NilAssumption
    DEF TypeOK, DevTypes, HwTypes, RunTypes, ObjOrNil
<1> QED
  BY <1>1, <1>2

LEMMA DoorbellTypes ==
  ASSUME TypeOK, NEW d \in Devs, Doorbell(d)
  PROVE  RunTypes'
<1>1. CASE hw[d] = "stall" /\ jmpNext[exeId[d]] # Nil
  <2>1. /\ UNCHANGED <<state, abortReq>>
        /\ hw' = [hw EXCEPT ![d] = "run"]
        /\ exeId' = [exeId EXCEPT ![d] = jmpNext[exeId[d]]]
    BY <1>1 DEF Doorbell
  <2>2. exeId[d] \in Objs
    BY <1>1 DEF TypeOK, HwTypes, ObjOrNil
  <2>3. jmpNext[exeId[d]] \in Objs
    BY <1>1, <2>2 DEF TypeOK, ObjTypes, ObjOrNil
  <2> QED
    BY <2>1, <2>3, NilAssumption
    DEF TypeOK, DevTypes, HwTypes, RunTypes, ObjOrNil
<1>2. CASE ~(hw[d] = "stall" /\ jmpNext[exeId[d]] # Nil)
  BY <1>2, RunKept DEF Doorbell
<1> QED
  BY <1>1, <1>2

LEMMA ReturnResourceTypes ==
  ASSUME TypeOK, NEW o \in Objs, ReturnResource(o)
  PROVE  /\ workload' \in [Objs -> Nat]
         /\ totalWorkload' \in [Procs -> Int]
<1>1. CASE po[o] = Nil
  BY <1>1 DEF ReturnResource, TypeOK, ObjTypes, ProcTypes
<1>2. CASE po[o] # Nil
  <2>1. po[o] \in Procs /\ workload[o] \in Nat
    BY <1>2 DEF TypeOK, ObjTypes
  <2>2. /\ workload' = [workload EXCEPT ![o] = 0]
        /\ totalWorkload' = [totalWorkload EXCEPT ![po[o]] = @ - workload[o]]
    BY <1>2 DEF ReturnResource
  <2>3. workload' \in [Objs -> Nat]
    BY <2>2 DEF TypeOK, ObjTypes
  <2>4. totalWorkload[po[o]] - workload[o] \in Int
    BY <2>1 DEF TypeOK, ProcTypes
  <2>5. totalWorkload' \in [Procs -> Int]
    BY <2>2, <2>4 DEF TypeOK, ProcTypes
  <2> QED
    BY <2>3, <2>5
<1> QED
  BY <1>1, <1>2

---------------------------------------------------------------------------
(* A step keeps the types of the variables it leaves alone, and the helpers *)
(* that wake threads up only move them to where they wait.                  *)
LEMMA Kept ==
  ASSUME TypeOK
  PROVE  /\ UNCHANGED poolVars => PoolTypes'
         /\ UNCHANGED objVars => ObjTypes'
         /\ UNCHANGED procVars => ProcTypes'
         /\ UNCHANGED devVars => DevTypes'
         /\ UNCHANGED hwVars => HwTypes'
         /\ UNCHANGED threadVars => ThreadTypes'
         /\ UNCHANGED clientVars => ClientTypes'
<1>1. UNCHANGED poolVars => PoolTypes'
  BY DEF TypeOK, PoolTypes, poolVars
<1>2. UNCHANGED objVars => ObjTypes'
  BY DEF TypeOK, ObjTypes, objVars
<1>3. UNCHANGED procVars => ProcTypes'
  BY DEF TypeOK, ProcTypes, procVars
<1>4. UNCHANGED devVars => DevTypes'
  BY DEF TypeOK, DevTypes, devVars
<1>5. UNCHANGED hwVars => HwTypes'
  BY DEF TypeOK, HwTypes, hwVars
<1>6. UNCHANGED threadVars => ThreadTypes'
  BY DEF TypeOK, ThreadTypes, threadVars
<1>7. UNCHANGED clientVars => ClientTypes'
  BY DEF TypeOK, ClientTypes, clientVars
<1> QED
  BY <1>1, <1>2, <1>3, <1>4, <1>5, <1>6, <1>7

(* Setting a field of the record of a DROP_OWNER, or of the interrupt       *)
(* routine.                                                                 *)
LEMMA DropFields ==
  ASSUME drop \in [Threads -> DropRecord], NEW t \in Threads, NEW o, NEW b \in BOOLEAN,
         \/ drop' = [drop EXCEPT ![t].aborted = b]
         \/ drop' = [drop EXCEPT ![t].handled = b]
         \/ drop' = [drop EXCEPT ![t].toSee = @ \ {o}]
         \/ drop' = [drop EXCEPT ![t].toSee = Objs]
  PROVE  drop' \in [Threads -> DropRecord]
<1>1. CASE drop' = [drop EXCEPT ![t].aborted = b]
  BY <1>1 DEF DropRecord
<1>2. CASE drop' = [drop EXCEPT ![t].handled = b]
  BY <1>2 DEF DropRecord
<1>3. CASE drop' = [drop EXCEPT ![t].toSee = @ \ {o}]
  BY <1>3 DEF DropRecord
<1>4. CASE drop' = [drop EXCEPT ![t].toSee = Objs]
  BY <1>4 DEF DropRecord
<1> QED
  BY <1>1, <1>2, <1>3, <1>4

LEMMA IsrFields ==
  ASSUME isr \in [Devs -> IsrRecord], NEW d \in Devs,
         NEW c \in ObjOrNil, NEW at \in {"walk", "curr"}
  PROVE  /\ isr' = [isr EXCEPT ![d].curr = c, ![d].at = at] =>
              /\ isr' \in [Devs -> IsrRecord]
              /\ isr'[d].curr = c
              /\ \A e \in Devs : e # d => isr'[e] = isr[e]
         /\ isr' = [isr EXCEPT ![d].node = c] =>
              /\ isr' \in [Devs -> IsrRecord]
              /\ \A e \in Devs : isr'[e].at = isr[e].at /\ isr'[e].curr = isr[e].curr
<1>1. ASSUME isr' = [isr EXCEPT ![d].curr = c, ![d].at = at]
      PROVE  /\ isr' \in [Devs -> IsrRecord]
             /\ isr'[d].curr = c
             /\ \A e \in Devs : e # d => isr'[e] = isr[e]
  BY <1>1 DEF IsrRecord
<1>2. ASSUME isr' = [isr EXCEPT ![d].node = c]
      PROVE  /\ isr' \in [Devs -> IsrRecord]
             /\ \A e \in Devs : isr'[e].at = isr[e].at /\ isr'[e].curr = isr[e].curr
  BY <1>2 DEF IsrRecord
<1> QED
  BY <1>1, <1>2

USE NilAssumption, MapsAssumption, WorkloadAssumption DEF ObjOrNil, DevOrNil, Goto

(* How wake-ups move the threads.                                          *)
MovesWithin(from, to) ==
  /\ to \in [Threads -> Locs]
  /\ \A u \in Threads : \/ to[u] = from[u]
                        \/ from[u] = "asleep" /\ to[u] = "waiting"
                        \/ from[u] = "dropAsleep" /\ to[u] = "dropWait"

LEMMA WokenMoves ==
  ASSUME NEW pcs \in [Threads -> Locs], NEW p
  PROVE  MovesWithin(pcs, Woken(pcs, p))
BY DEF MovesWithin, Woken, Locs

LEMMA AbortWokenMoves ==
  ASSUME NEW pcs, MovesWithin(pc, pcs), NEW d
  PROVE  MovesWithin(pc, AbortWoken(pcs, d))
BY DEF MovesWithin, AbortWoken, Locs, DropPcs

LEMMA PcAfterDoneMoves ==
  ASSUME TypeOK, NEW o
  PROVE  MovesWithin(pc, PcAfterDone(o))
<1>1. pc \in [Threads -> Locs]
  BY DEF TypeOK, ThreadTypes
<1>2. MovesWithin(pc, pc) /\ MovesWithin(pc, Woken(pc, po[o]))
  BY <1>1, WokenMoves DEF MovesWithin
<1> QED
  BY <1>2 DEF PcAfterDone

LEMMA PcMovesTypes ==
  ASSUME TypeOK, MovesWithin(pc, pc'),
         UNCHANGED <<moduleSem, job, want, dev, scan, node, drop>>
  PROVE  ThreadTypes'
<1>1. pc' \in [Threads -> Locs]
  BY DEF MovesWithin
<1>2. \A u \in Threads : /\ pc'[u] \in UsesJob => pc[u] \in UsesJob
                         /\ pc'[u] \in UsesDev => pc[u] \in UsesDev
  BY DEF MovesWithin, UsesJob, UsesDev, LinkPcs, ReleasePcs, HoldsLock
<1> QED
  BY <1>1, <1>2 DEF TypeOK, ThreadTypes

(* What reporting a job changes besides the work list.                     *)
NodeTypes ==
  /\ runDone \in [Objs -> BOOLEAN]
  /\ exeStatus \in [Objs -> {"ok", "cmderr", "buserr"}]
  /\ jobDone \in [Procs -> Seq(Objs)]
  /\ inWait \in [Procs -> BOOLEAN]

LEMMA AddDoneTypes ==
  ASSUME TypeOK, NEW o \in Objs, AddDone(o)
  PROVE  jobDone' \in [Procs -> Seq(Objs)] /\ inWait' \in [Procs -> BOOLEAN]
<1>1. CASE Reports(o)
  <2>1. po[o] \in Procs
    BY <1>1 DEF Reports, TypeOK, ObjTypes
  <2>2. /\ jobDone' = [jobDone EXCEPT ![po[o]] = Append(@, o)]
        /\ inWait' = [inWait EXCEPT ![po[o]] = FALSE]
    BY <1>1 DEF AddDone
  <2>3. Append(jobDone[po[o]], o) \in Seq(Objs)
    BY <2>1 DEF TypeOK, ProcTypes
  <2> QED
    BY <2>1, <2>2, <2>3 DEF TypeOK, ProcTypes
<1>2. CASE ~Reports(o)
  BY <1>2 DEF AddDone, TypeOK, ProcTypes
<1> QED
  BY <1>1, <1>2

LEMMA ProcessNodeTypes ==
  ASSUME TypeOK, NEW st, NEW d \in Devs, NEW o \in Objs,
         NEW status \in {"ok", "cmderr", "buserr"},
         ProcessNode(st, d, o, status), UNCHANGED coreId
  PROVE  ListTypes' /\ NodeTypes'
<1>1. CASE runDone[o]
  <2>1. UNCHANGED <<runDone, exeStatus, jmpNext, stale, workList, linked,
                    jobDone, inWait>>
    BY <1>1 DEF ProcessNode
  <2> QED
    BY <2>1, ListsKept DEF TypeOK, ObjTypes, ProcTypes, NodeTypes
<1>2. CASE ~runDone[o]
  <2>1. /\ runDone' = [runDone EXCEPT ![o] = TRUE]
        /\ exeStatus' = [exeStatus EXCEPT ![o] = status]
        /\ Unlink(d, o) \/ UNCHANGED <<jmpNext, stale, workList, linked>>
        /\ AddDone(o)
    BY <1>2 DEF ProcessNode
  <2>2. ListTypes'
    BY <2>1, UnlinkTypes, ListsKept
  <2>3. jobDone' \in [Procs -> Seq(Objs)] /\ inWait' \in [Procs -> BOOLEAN]
    BY <2>1, AddDoneTypes
  <2> QED
    BY <2>1, <2>2, <2>3 DEF TypeOK, ObjTypes, NodeTypes
<1> QED
  BY <1>1, <1>2

LEMMA RaiseType ==
  ASSUME TypeOK, NEW d \in Devs, NEW kinds \in SUBSET Kinds, Raise(d, kinds)
  PROVE  irq' \in [Devs -> SUBSET Kinds]
BY DEF TypeOK, HwTypes, Raise

(* The interrupt routine returns.                                          *)
IsrTypes ==
  /\ isr \in [Devs -> IsrRecord]
  /\ \A d \in Devs : isr[d].at \in {"walk", "curr"} => isr[d].curr # Nil
  /\ lock \in [Devs -> {"free", "isr", "thread"}]

LEMMA IsrGoesTo ==
  ASSUME TypeOK, NEW d \in Devs, NEW at \in {"out", "curr", "start"},
         isr[d].at \in {"walk", "curr"}, isr' = [isr EXCEPT ![d].at = at]
  PROVE  /\ isr' \in [Devs -> IsrRecord]
         /\ \A e \in Devs : isr'[e].at \in {"walk", "curr"} => isr'[e].curr # Nil
<1>1. isr \in [Devs -> IsrRecord]
      /\ \A e \in Devs : isr[e].at \in {"walk", "curr"} => isr[e].curr # Nil
  BY DEF TypeOK, DevTypes
<1>2. isr' \in [Devs -> IsrRecord]
  BY <1>1 DEF IsrRecord
<1>3. \A e \in Devs : isr'[e].at \in {"walk", "curr"} => isr'[e].curr # Nil
  BY <1>1 DEF IsrRecord
<1> QED
  BY <1>2, <1>3

LEMMA IsrLeaveTypes ==
  ASSUME TypeOK, NEW d \in Devs, IsrLeave(d)
  PROVE  IsrTypes'
<1>1. IsrIdle \in IsrRecord /\ IsrIdle.at = "out"
  BY DEF IsrIdle, IsrRecord
<1> QED
  BY <1>1 DEF IsrLeave, IsrTypes, TypeOK, DevTypes

---------------------------------------------------------------------------
(* Every action keeps TypeOK.                                              *)
LEMMA ReserveChargeTypes ==
  ASSUME TypeOK, NEW t \in Threads, NEW w \in Workloads, ReserveCharge(t, w)
  PROVE  TypeOK'
<1>1. ProcTypes'
  BY DEF ReserveCharge, TypeOK, ProcTypes
<1>2. ThreadTypes'
  BY DEF ReserveCharge, TypeOK, ThreadTypes, Locs, LinkPcs, ReleasePcs, DropPcs,
     HoldsLock, UsesJob, UsesDev, Enters, MayCall
<1>3. UNCHANGED <<poolVars, objVars, devVars, hwVars, clientVars>>
  BY DEF ReserveCharge
<1> QED
  BY <1>1, <1>2, <1>3, Kept DEF TypeOK

LEMMA ReserveWaitTypes ==
  ASSUME TypeOK, NEW t \in Threads, ReserveWait(t)
  PROVE  TypeOK'
<1>1. ThreadTypes'
  BY DEF ReserveWait, TypeOK, ThreadTypes, Locs, LinkPcs, ReleasePcs, DropPcs,
     HoldsLock, UsesJob, UsesDev, Enters, MayCall
<1>2. UNCHANGED <<poolVars, objVars, procVars, devVars, hwVars, clientVars>>
  BY DEF ReserveWait
<1> QED
  BY <1>1, <1>2, Kept DEF TypeOK

LEMMA ReserveTakeTypes ==
  ASSUME TypeOK, NEW t \in Threads, ReserveTake(t)
  PROVE  TypeOK'
<1>1. PoolTypes'
  BY DEF ReserveTake, TypeOK, PoolTypes
<1>2. ObjTypes'
  <2>1. PICK o \in avail :
          /\ po' = [po EXCEPT ![o] = ProcOf[t]]
          /\ owner' = [owner EXCEPT ![o] = OwnerOf[t]]
          /\ workload' = [workload EXCEPT ![o] = want[t]]
          /\ runDone' = [runDone EXCEPT ![o] = FALSE]
          /\ exeStatus' = [exeStatus EXCEPT ![o] = "ok"]
          /\ linked' = [linked EXCEPT ![o] = FALSE]
          /\ needRemove' = [needRemove EXCEPT ![o] = FALSE]
          /\ coreId' = [coreId EXCEPT ![o] = Nil]
          /\ hasJmp' = [hasJmp EXCEPT ![o] = TRUE]
          /\ jmpNext' = [jmpNext EXCEPT ![o] = Nil]
          /\ stale' = [stale EXCEPT ![o] = NoPtrs]
    BY DEF ReserveTake
  <2>2. o \in Objs /\ want[t] \in Nat
    BY DEF TypeOK, PoolTypes, ThreadTypes
  <2>3. NoPtrs \in [next : ObjOrNil, prev : ObjOrNil]
    BY DEF NoPtrs
  <2> QED
    BY <2>1, <2>2, <2>3 DEF TypeOK, ObjTypes
<1>3. HwTypes'
  BY DEF ReserveTake, TypeOK, HwTypes, Raise, Kinds
<1>4. ThreadTypes'
  BY DEF ReserveTake, TypeOK, ThreadTypes, Locs, LinkPcs, ReleasePcs, DropPcs,
     HoldsLock, UsesJob, UsesDev, Enters, MayCall
<1>5. ClientTypes'
  <2>1. PICK o \in avail : /\ phase' = [phase EXCEPT ![o] = "reserved"]
                           /\ holder' = [holder EXCEPT ![o] = t]
    BY DEF ReserveTake
  <2> QED
    BY <2>1 DEF TypeOK, ClientTypes
<1>6. UNCHANGED <<procVars, devVars>>
  BY DEF ReserveTake
<1> QED
  BY <1>1, <1>2, <1>3, <1>4, <1>5, <1>6, Kept DEF TypeOK

LEMMA ReserveInterruptedTypes ==
  ASSUME TypeOK, NEW t \in Threads, ReserveInterrupted(t)
  PROVE  TypeOK'
<1>1. ThreadTypes'
  BY DEF ReserveInterrupted, TypeOK, ThreadTypes, Locs, LinkPcs, ReleasePcs,
     DropPcs, HoldsLock, UsesJob, UsesDev, Enters, MayCall
<1>2. UNCHANGED <<poolVars, objVars, procVars, devVars, hwVars, clientVars>>
  BY DEF ReserveInterrupted
<1> QED
  BY <1>1, <1>2, Kept DEF TypeOK

LEMMA LinkCallTypes ==
  ASSUME TypeOK, NEW t \in Threads, NEW o \in Objs, LinkCall(t, o)
  PROVE  TypeOK'
<1>1. ObjTypes'
  BY BoolAssumption DEF LinkCall, TypeOK, ObjTypes
<1>2. ThreadTypes'
  <2>1. CASE po[o] # ProcOf[t]
    BY <2>1 DEF LinkCall, TypeOK, ThreadTypes
  <2>2. CASE po[o] = ProcOf[t]
    <3>1. /\ job' = [job EXCEPT ![t] = o]
          /\ scan' = [scan EXCEPT ![t] = 1]
          /\ pc' = [pc EXCEPT ![t] = "linkSem"]
          /\ UNCHANGED <<moduleSem, want, dev, node, drop>>
      BY <2>2 DEF LinkCall
    <3> QED
      BY <3>1 DEF TypeOK, ThreadTypes, Locs, LinkPcs, ReleasePcs, DropPcs,
         HoldsLock, UsesJob, UsesDev
  <2> QED
    BY <2>1, <2>2
<1>3. ClientTypes'
  BY DEF LinkCall, TypeOK, ClientTypes
<1>4. UNCHANGED <<poolVars, procVars, devVars, hwVars>>
  BY DEF LinkCall
<1> QED
  BY <1>1, <1>2, <1>3, <1>4, Kept DEF TypeOK

LEMMA LinkSemTypes ==
  ASSUME TypeOK, NEW t \in Threads, LinkSem(t)
  PROVE  TypeOK'
<1>1. ThreadTypes'
  BY DEF LinkSem, TypeOK, ThreadTypes, Locs, LinkPcs, ReleasePcs, DropPcs,
     HoldsLock, UsesJob, UsesDev, Enters, MayCall
<1>2. UNCHANGED <<poolVars, objVars, procVars, devVars, hwVars, clientVars>>
  BY DEF LinkSem
<1> QED
  BY <1>1, <1>2, Kept DEF TypeOK

LEMMA LinkInterruptedTypes ==
  ASSUME TypeOK, NEW t \in Threads, LinkInterrupted(t)
  PROVE  TypeOK'
<1>1. ThreadTypes'
  BY DEF LinkInterrupted, TypeOK, ThreadTypes, Locs, LinkPcs, ReleasePcs, DropPcs,
     HoldsLock, UsesJob, UsesDev, Enters, MayCall
<1>2. ClientTypes'
  BY DEF LinkInterrupted, TypeOK, ClientTypes
<1>3. UNCHANGED <<poolVars, objVars, procVars, devVars, hwVars>>
  BY DEF LinkInterrupted
<1> QED
  BY <1>1, <1>2, <1>3, Kept DEF TypeOK

LEMMA LinkScanTypes ==
  ASSUME TypeOK, NEW t \in Threads, LinkScan(t)
  PROVE  TypeOK'
<1> DEFINE d == DevSeq[scan[t]]
<1>1. d \in Devs /\ job[t] \in Objs
  BY DevSeqAssumption DEF LinkScan, TypeOK, ThreadTypes, UsesJob, LinkPcs
<1>2. ListTypes' /\ coreId' \in [Objs -> DevOrNil] /\ ThreadTypes'
  <2>1. CASE AddJob(d, job[t]) /\ Goto(t, "linkKick") /\ UNCHANGED scan
    <3>1. ThreadTypes'
      BY <2>1, <1>1 DEF LinkScan, TypeOK, ThreadTypes, Locs, LinkPcs,
         ReleasePcs, DropPcs, HoldsLock, UsesJob, UsesDev
    <3> QED
      BY <2>1, <3>1, <1>1, AddJobTypes DEF LinkScan
  <2>2. CASE /\ scan' = [scan EXCEPT ![t] = @ + 1]
             /\ UNCHANGED <<jmpNext, workList, coreId, linked, pc>>
    <3>1. ThreadTypes'
      BY <2>2 DEF LinkScan, TypeOK, ThreadTypes
    <3>2. coreId' \in [Objs -> DevOrNil]
      BY <2>2 DEF TypeOK, ObjTypes
    <3> QED
      BY <2>2, <3>1, <3>2, ListsKept DEF LinkScan
  <2> QED
    BY <2>1, <2>2 DEF LinkScan
<1>3. ObjTypes'
  BY <1>2 DEF LinkScan, TypeOK, ObjTypes, ListTypes
<1>4. DevTypes'
  BY <1>2 DEF LinkScan, TypeOK, DevTypes, ListTypes
<1>5. UNCHANGED <<poolVars, procVars, hwVars, clientVars>>
  BY DEF LinkScan
<1> QED
  BY <1>2, <1>3, <1>4, <1>5, Kept DEF TypeOK

LEMMA LinkLeastLoadedTypes ==
  ASSUME TypeOK, NEW t \in Threads, LinkLeastLoaded(t)
  PROVE  TypeOK'
<1>1. job[t] \in Objs /\ Cores[t] \subseteq Devs
  BY DEF LinkLeastLoaded, TypeOK, ThreadTypes, UsesJob, LinkPcs
<1>2. ListTypes' /\ coreId' \in [Objs -> DevOrNil]
  BY <1>1, AddJobTypes DEF LinkLeastLoaded
<1>3. ObjTypes'
  BY <1>2 DEF LinkLeastLoaded, TypeOK, ObjTypes, ListTypes
<1>4. DevTypes'
  BY <1>2 DEF LinkLeastLoaded, TypeOK, DevTypes, ListTypes
<1>5. ThreadTypes'
  BY DEF LinkLeastLoaded, TypeOK, ThreadTypes, Locs, LinkPcs, ReleasePcs, DropPcs,
     HoldsLock, UsesJob, UsesDev
<1>6. UNCHANGED <<poolVars, procVars, hwVars, clientVars>>
  BY DEF LinkLeastLoaded
<1> QED
  BY <1>3, <1>4, <1>5, <1>6, Kept DEF TypeOK

LEMMA LinkKickTypes ==
  ASSUME TypeOK, NEW t \in Threads, LinkKick(t)
  PROVE  TypeOK'
<1> DEFINE d == coreId[job[t]]
<1>1. d \in DevOrNil
  BY DEF LinkKick, TypeOK, ThreadTypes, ObjTypes, UsesJob, LinkPcs
<1>2. RunTypes' /\ lock' \in [Devs -> {"free", "isr", "thread"}] /\ ThreadTypes'
  <2>1. CASE d = Nil
    <3>1. /\ dev' = [dev EXCEPT ![t] = d]
          /\ pc' = [pc EXCEPT ![t] = "wild"]
          /\ UNCHANGED <<lock, state, hw, exeId, abortReq>>
      BY <2>1 DEF LinkKick
    <3>2. ThreadTypes'
      BY <3>1, <1>1 DEF LinkKick, TypeOK, ThreadTypes, Locs, LinkPcs,
         ReleasePcs, DropPcs, HoldsLock, UsesJob, UsesDev
    <3> QED
      BY <3>1, <3>2, RunKept DEF TypeOK, DevTypes
  <2>2. CASE d # Nil
    <3>1. /\ dev' = [dev EXCEPT ![t] = d]
          /\ lock' = [lock EXCEPT ![d] = "thread"]
          /\ StartDev(d) \/ Doorbell(d)
          /\ pc' = [pc EXCEPT ![t] = "linkPrev"]
      BY <2>2 DEF LinkKick
    <3>2. d \in Devs
      BY <1>1, <2>2
    <3>3. RunTypes'
      BY <3>1, <3>2, StartDevTypes, DoorbellTypes
    <3>4. ThreadTypes'
      BY <3>1, <3>2, <2>2 DEF LinkKick, TypeOK, ThreadTypes, Locs, LinkPcs,
         ReleasePcs, DropPcs, HoldsLock, UsesJob, UsesDev
    <3> QED
      BY <3>1, <3>3, <3>4 DEF TypeOK, DevTypes
  <2> QED
    BY <2>1, <2>2
<1>3. DevTypes'
  BY <1>2 DEF LinkKick, TypeOK, DevTypes, RunTypes
<1>4. HwTypes'
  BY <1>2 DEF LinkKick, TypeOK, HwTypes, RunTypes
<1>5. UNCHANGED <<poolVars, objVars, procVars, clientVars>>
  BY DEF LinkKick
<1> QED
  BY <1>2, <1>3, <1>4, <1>5, Kept DEF TypeOK

LEMMA LinkPrevTypes ==
  ASSUME TypeOK, NEW t \in Threads, LinkPrev(t)
  PROVE  TypeOK'
<1>1. dev[t] \in Devs /\ job[t] \in Objs
  BY DEF LinkPrev, TypeOK, ThreadTypes, UsesJob, UsesDev, LinkPcs, HoldsLock
<1> DEFINE p == PrevOf(dev[t], job[t])
<1>2. ListTypes' /\ PoolTypes' /\ po' \in [Objs -> Procs \cup {Nil}]
  <2>1. CASE KeptForJmp(p)
    <3>1. p \in Objs /\ RemoveJob(dev[t], p)
      BY <2>1, <1>1, NextOfType DEF LinkPrev, KeptForJmp
    <3> QED
      BY <3>1, <1>1, RemoveJobTypes DEF LinkPrev
  <2>2. CASE ~KeptForJmp(p)
    <3>1. UNCHANGED <<po, poolVars, jmpNext, stale, workList, linked, coreId>>
      BY <2>2 DEF LinkPrev
    <3> QED
      BY <3>1, ListsKept, Kept DEF TypeOK, ObjTypes
  <2> QED
    BY <2>1, <2>2
<1>3. ObjTypes'
  BY <1>2 DEF LinkPrev, TypeOK, ObjTypes, ListTypes
<1>4. DevTypes'
  BY <1>1, <1>2 DEF LinkPrev, TypeOK, DevTypes, ListTypes
<1>5. ThreadTypes'
  BY DEF LinkPrev, TypeOK, ThreadTypes, Locs, LinkPcs, ReleasePcs, DropPcs,
     HoldsLock, UsesJob, UsesDev
<1>6. UNCHANGED <<procVars, hwVars, clientVars>>
  BY DEF LinkPrev
<1> QED
  BY <1>2, <1>3, <1>4, <1>5, <1>6, Kept DEF TypeOK

LEMMA WaitAnyTypes ==
  ASSUME TypeOK, NEW t \in Threads, WaitAny(t)
  PROVE  TypeOK'
<1>1. ThreadTypes'
  BY DEF WaitAny, TypeOK, ThreadTypes, Locs, LinkPcs, ReleasePcs, DropPcs,
     HoldsLock, UsesJob, UsesDev, Enters, MayCall
<1>2. UNCHANGED <<poolVars, objVars, procVars, devVars, hwVars, clientVars>>
  BY DEF WaitAny
<1> QED
  BY <1>1, <1>2, Kept DEF TypeOK

LEMMA WaitJobTypes ==
  ASSUME TypeOK, NEW t \in Threads, NEW o \in Objs, WaitJob(t, o)
  PROVE  TypeOK'
<1>1. ThreadTypes'
  BY DEF WaitJob, TypeOK, ThreadTypes, Locs, LinkPcs, ReleasePcs, DropPcs,
     HoldsLock, UsesJob, UsesDev, Enters, MayCall
<1>2. UNCHANGED <<poolVars, objVars, procVars, devVars, hwVars, clientVars>>
  BY DEF WaitJob
<1> QED
  BY <1>1, <1>2, Kept DEF TypeOK

LEMMA WaitGotTypes ==
  ASSUME TypeOK, NEW t \in Threads, NEW o \in Objs, WaitGot(t, o)
  PROVE  TypeOK'
<1>1. ProcTypes'
  BY WithoutType DEF WaitGot, TakeDone, TypeOK, ProcTypes
<1>2. ThreadTypes'
  BY DEF WaitGot, TypeOK, ThreadTypes, Locs, LinkPcs, ReleasePcs, DropPcs,
     HoldsLock, UsesJob, UsesDev, Enters, MayCall
<1>3. ClientTypes'
  BY DEF WaitGot, TypeOK, ClientTypes
<1>4. UNCHANGED <<poolVars, objVars, devVars, hwVars>>
  BY DEF WaitGot
<1> QED
  BY <1>1, <1>2, <1>3, <1>4, Kept DEF TypeOK

LEMMA WaitNothingTypes ==
  ASSUME TypeOK, NEW t \in Threads, WaitNothing(t)
  PROVE  TypeOK'
<1>1. ProcTypes'
  BY DEF WaitNothing, TypeOK, ProcTypes
<1>2. ThreadTypes'
  BY DEF WaitNothing, TypeOK, ThreadTypes, Locs, LinkPcs, ReleasePcs, DropPcs,
     HoldsLock, UsesJob, UsesDev, Enters, MayCall
<1>3. ClientTypes'
  BY DEF WaitNothing, TypeOK, ClientTypes
<1>4. UNCHANGED <<poolVars, objVars, devVars, hwVars>>
  BY DEF WaitNothing
<1> QED
  BY <1>1, <1>2, <1>3, <1>4, Kept DEF TypeOK

LEMMA WaitSleepTypes ==
  ASSUME TypeOK, NEW t \in Threads, WaitSleep(t)
  PROVE  TypeOK'
<1>1. ProcTypes'
  BY DEF WaitSleep, TypeOK, ProcTypes
<1>2. ThreadTypes'
  BY DEF WaitSleep, TypeOK, ThreadTypes, Locs, LinkPcs, ReleasePcs, DropPcs,
     HoldsLock, UsesJob, UsesDev, Enters, MayCall
<1>3. UNCHANGED <<poolVars, objVars, devVars, hwVars, clientVars>>
  BY DEF WaitSleep
<1> QED
  BY <1>1, <1>2, <1>3, Kept DEF TypeOK

LEMMA WaitInterruptedTypes ==
  ASSUME TypeOK, NEW t \in Threads, WaitInterrupted(t)
  PROVE  TypeOK'
<1>1. ThreadTypes'
  BY DEF WaitInterrupted, TypeOK, ThreadTypes, Locs, LinkPcs, ReleasePcs, DropPcs,
     HoldsLock, UsesJob, UsesDev, Enters, MayCall
<1>2. UNCHANGED <<poolVars, objVars, procVars, devVars, hwVars, clientVars>>
  BY DEF WaitInterrupted
<1> QED
  BY <1>1, <1>2, Kept DEF TypeOK

LEMMA ReleaseCallTypes ==
  ASSUME TypeOK, NEW t \in Threads, NEW o \in Objs, ReleaseCall(t, o)
  PROVE  TypeOK'
<1>1. CASE po[o] # ProcOf[t]
  <2>1. UNCHANGED <<poolVars, objVars, procVars, devVars, hwVars, threadVars>>
    BY <1>1 DEF ReleaseCall, objVars, procVars, threadVars
  <2>2. ClientTypes'
    BY DEF ReleaseCall, TypeOK, ClientTypes
  <2> QED
    BY <2>1, <2>2, Kept DEF TypeOK
<1>2. CASE po[o] = ProcOf[t] /\ linked[o]
  <2>1. /\ owner' = [owner EXCEPT ![o] = Nil]
        /\ needRemove' = [needRemove EXCEPT ![o] = TRUE]
        /\ job' = [job EXCEPT ![t] = o]
        /\ dev' = [dev EXCEPT ![t] = coreId[o]]
        /\ pc' = [pc EXCEPT ![t] = "relAccount"]
        /\ UNCHANGED <<po, poolVars, totalWorkload, workload>>
    BY <1>2 DEF ReleaseCall
  <2>2. coreId[o] \in Devs
    BY <1>2 DEF TypeOK, ObjTypes
  <2>3. ObjTypes'
    BY <2>1 DEF ReleaseCall, TypeOK, ObjTypes
  <2>4. ThreadTypes'
    BY <2>1, <2>2 DEF ReleaseCall, TypeOK, ThreadTypes, Locs, LinkPcs,
       ReleasePcs, DropPcs, HoldsLock, UsesJob, UsesDev
  <2>5. ClientTypes'
    BY DEF ReleaseCall, TypeOK, ClientTypes
  <2>6. UNCHANGED <<poolVars, procVars, devVars, hwVars>>
    BY <2>1 DEF ReleaseCall, procVars
  <2> QED
    BY <2>3, <2>4, <2>5, <2>6, Kept DEF TypeOK
<1>3. CASE po[o] = ProcOf[t] /\ ~linked[o]
  <2>1. /\ owner' = [owner EXCEPT ![o] = Nil]
        /\ ReturnResource(o)
        /\ ReturnCmdbuf(o)
        /\ UNCHANGED <<needRemove, job, dev, pc>>
    BY <1>3 DEF ReleaseCall
  <2>2. /\ PoolTypes'
        /\ po' \in [Objs -> Procs \cup {Nil}]
        /\ workload' \in [Objs -> Nat]
        /\ totalWorkload' \in [Procs -> Int]
    BY <2>1, ReturnCmdbufTypes, ReturnResourceTypes
  <2>3. ObjTypes'
    BY <2>1, <2>2 DEF ReleaseCall, TypeOK, ObjTypes
  <2>4. ProcTypes'
    BY <2>2 DEF ReleaseCall, TypeOK, ProcTypes
  <2>5. ClientTypes'
    BY DEF ReleaseCall, TypeOK, ClientTypes
  <2>6. UNCHANGED <<devVars, hwVars, threadVars>>
    BY <2>1 DEF ReleaseCall, threadVars
  <2> QED
    BY <2>2, <2>3, <2>4, <2>5, <2>6, Kept DEF TypeOK
<1> QED
  BY <1>1, <1>2, <1>3

LEMMA ReleaseAccountTypes ==
  ASSUME TypeOK, NEW t \in Threads, ReleaseAccount(t)
  PROVE  TypeOK'
<1>1. job[t] \in Objs /\ ReturnResource(job[t])
  BY DEF ReleaseAccount, TypeOK, ThreadTypes, UsesJob, ReleasePcs
<1>2. /\ workload' \in [Objs -> Nat]
      /\ totalWorkload' \in [Procs -> Int]
  BY <1>1, ReturnResourceTypes
<1>3. ObjTypes'
  BY <1>2 DEF ReleaseAccount, TypeOK, ObjTypes
<1>4. ProcTypes'
  BY <1>2 DEF ReleaseAccount, TypeOK, ProcTypes
<1>5. ThreadTypes'
  BY DEF ReleaseAccount, TypeOK, ThreadTypes, Locs, LinkPcs, ReleasePcs, DropPcs,
     HoldsLock, UsesJob, UsesDev
<1>6. UNCHANGED <<poolVars, devVars, hwVars, clientVars>>
  BY DEF ReleaseAccount
<1> QED
  BY <1>3, <1>4, <1>5, <1>6, Kept DEF TypeOK

LEMMA ReleaseLockTypes ==
  ASSUME TypeOK, NEW t \in Threads, ReleaseLock(t)
  PROVE  TypeOK'
<1>1. dev[t] \in Devs /\ job[t] \in Objs
  BY DEF ReleaseLock, TypeOK, ThreadTypes, UsesJob, UsesDev, ReleasePcs
<1>2. ListTypes' /\ PoolTypes' /\ po' \in [Objs -> Procs \cup {Nil}]
  BY <1>1, RemoveJobTypes DEF ReleaseLock
<1>3. ObjTypes'
  BY <1>2 DEF ReleaseLock, TypeOK, ObjTypes, ListTypes
<1>4. DevTypes'
  BY <1>2 DEF ReleaseLock, TypeOK, DevTypes, ListTypes
<1>5. ThreadTypes'
  BY DEF ReleaseLock, TypeOK, ThreadTypes, Locs, LinkPcs, ReleasePcs, DropPcs,
     HoldsLock, UsesJob, UsesDev
<1>6. UNCHANGED <<procVars, hwVars, clientVars>>
  BY DEF ReleaseLock
<1> QED
  BY <1>2, <1>3, <1>4, <1>5, <1>6, Kept DEF TypeOK

LEMMA DropCallTypes ==
  ASSUME TypeOK, NEW t \in Threads, DropCall(t)
  PROVE  TypeOK'
<1>1. ThreadTypes'
  <2>1. [NoDrop EXCEPT !.owner = OwnerOf[t], !.toSee = Objs]
          \in DropRecord
    BY DEF NoDrop, DropRecord
  <2> QED
    BY <2>1 DEF DropCall, TypeOK, ThreadTypes, Locs, LinkPcs, ReleasePcs,
       DropPcs, HoldsLock, UsesJob, UsesDev
<1>2. UNCHANGED <<poolVars, objVars, procVars, devVars, hwVars, clientVars>>
  BY DEF DropCall
<1> QED
  BY <1>1, <1>2, Kept DEF TypeOK

LEMMA CloseCallTypes ==
  ASSUME TypeOK, NEW t \in Threads, CloseCall(t)
  PROVE  TypeOK'
<1>1. ThreadTypes'
  <2>1. drop' \in [Threads -> DropRecord]
    BY DropFields DEF CloseCall, TypeOK, ThreadTypes
  <2> QED
    BY <2>1 DEF CloseCall, TypeOK, ThreadTypes, Locs, LinkPcs, ReleasePcs,
       DropPcs, HoldsLock, UsesJob, UsesDev
<1>2. ClientTypes'
  BY DEF CloseCall, TypeOK, ClientTypes
<1>3. UNCHANGED <<poolVars, objVars, procVars, devVars, hwVars>>
  BY DEF CloseCall
<1> QED
  BY <1>1, <1>2, <1>3, Kept DEF TypeOK

LEMMA DropInterruptedTypes ==
  ASSUME TypeOK, NEW t \in Threads, DropInterrupted(t)
  PROVE  TypeOK'
<1>1. ThreadTypes'
  <2>1. CASE /\ drop' = [drop EXCEPT ![t] = NoDrop]
             /\ Goto(t, "user")
    <3>1. NoDrop \in DropRecord
      BY DEF NoDrop, DropRecord
    <3> QED
      BY <2>1, <3>1 DEF DropInterrupted, TypeOK, ThreadTypes, Locs, LinkPcs,
         ReleasePcs, DropPcs, HoldsLock, UsesJob, UsesDev
  <2>2. CASE /\ pc[t] = "dropAsleep"
             /\ Goto(t, "dropPoll")
             /\ UNCHANGED drop
    BY <2>2 DEF DropInterrupted, TypeOK, ThreadTypes, Locs, LinkPcs, ReleasePcs,
       DropPcs, HoldsLock, UsesJob, UsesDev
  <2> QED
    BY <2>1, <2>2 DEF DropInterrupted
<1>2. UNCHANGED <<poolVars, objVars, procVars, devVars, hwVars, clientVars>>
  BY DEF DropInterrupted
<1> QED
  BY <1>1, <1>2, Kept DEF TypeOK

LEMMA DropSemTypes ==
  ASSUME TypeOK, NEW t \in Threads, DropSem(t)
  PROVE  TypeOK'
<1>1. ThreadTypes'
  BY DEF DropSem, TypeOK, ThreadTypes, Locs, LinkPcs, ReleasePcs, DropPcs,
     HoldsLock, UsesJob, UsesDev, Enters, MayCall
<1>2. UNCHANGED <<poolVars, objVars, procVars, devVars, hwVars, clientVars>>
  BY DEF DropSem
<1> QED
  BY <1>1, <1>2, Kept DEF TypeOK

LEMMA DropDevTypes ==
  ASSUME TypeOK, NEW t \in Threads, DropDev(t)
  PROVE  TypeOK'
<1>1. DevTypes'
  BY DEF DropDev, TypeOK, DevTypes, IsrIdle, Kinds, Err
<1>2. ThreadTypes'
  <2> DEFINE d == DevSeq[scan[t]]
  <2>1. d \in Devs
    BY DevSeqAssumption DEF DropDev, TypeOK, ThreadTypes
  <2>2. CASE scan' = [scan EXCEPT ![t] = @ + 1] /\ UNCHANGED <<pc, dev>>
    BY <2>2 DEF DropDev, TypeOK, ThreadTypes
  <2>3. CASE /\ dev' = [dev EXCEPT ![t] = d]
             /\ pc' = [pc EXCEPT ![t] = "dropAbort"]
             /\ UNCHANGED scan
    BY <2>1, <2>3 DEF DropDev, TypeOK, ThreadTypes, Locs, LinkPcs, ReleasePcs,
       DropPcs, HoldsLock, UsesJob, UsesDev
  <2>4. CASE /\ dev' = [dev EXCEPT ![t] = d]
             /\ pc' = [pc EXCEPT ![t] = "dropWalk"]
             /\ UNCHANGED scan
    BY <2>1, <2>4 DEF DropDev, TypeOK, ThreadTypes, Locs, LinkPcs, ReleasePcs,
       DropPcs, HoldsLock, UsesJob, UsesDev
  <2> QED
    BY <2>2, <2>3, <2>4 DEF DropDev
<1>3. UNCHANGED <<poolVars, objVars, procVars, hwVars, clientVars>>
  BY DEF DropDev
<1> QED
  BY <1>1, <1>2, <1>3, Kept DEF TypeOK

LEMMA DropAbortTypes ==
  ASSUME TypeOK, NEW t \in Threads, DropAbort(t)
  PROVE  TypeOK'
<1>1. HwTypes'
  BY DEF DropAbort, TypeOK, HwTypes, Raise, Kinds
<1>2. ThreadTypes'
  BY DEF DropAbort, TypeOK, ThreadTypes, Locs, LinkPcs, ReleasePcs, DropPcs,
     HoldsLock, UsesJob, UsesDev, Enters, MayCall
<1>3. UNCHANGED <<poolVars, objVars, procVars, devVars, clientVars>>
  BY DEF DropAbort
<1> QED
  BY <1>1, <1>2, <1>3, Kept DEF TypeOK

LEMMA DropWaitTypes ==
  ASSUME TypeOK, NEW t \in Threads, DropWait(t)
  PROVE  TypeOK'
<1>1. ThreadTypes'
  BY DEF DropWait, TypeOK, ThreadTypes, Locs, LinkPcs, ReleasePcs, DropPcs,
     HoldsLock, UsesJob, UsesDev, Enters, MayCall
<1>2. UNCHANGED <<poolVars, objVars, procVars, devVars, hwVars, clientVars>>
  BY DEF DropWait
<1> QED
  BY <1>1, <1>2, Kept DEF TypeOK

LEMMA DropPollTypes ==
  ASSUME TypeOK, NEW t \in Threads, DropPoll(t)
  PROVE  TypeOK'
<1>1. ThreadTypes'
  BY DEF DropPoll, TypeOK, ThreadTypes, Locs, LinkPcs, ReleasePcs, DropPcs,
     HoldsLock, UsesJob, UsesDev, Enters, MayCall
<1>2. UNCHANGED <<poolVars, objVars, procVars, devVars, hwVars, clientVars>>
  BY DEF DropPoll
<1> QED
  BY <1>1, <1>2, Kept DEF TypeOK

LEMMA DropRelockTypes ==
  ASSUME TypeOK, NEW t \in Threads, DropRelock(t)
  PROVE  TypeOK'
<1>1. DevTypes'
  BY DEF DropRelock, TypeOK, DevTypes, IsrIdle, Kinds, Err
<1>2. ThreadTypes'
  <2>1. CASE /\ scan' = [scan EXCEPT ![t] = @ + 1]
             /\ dev' = [dev EXCEPT ![t] = Nil]
             /\ Goto(t, "dropDev")
             /\ UNCHANGED drop
    BY <2>1 DEF DropRelock, TypeOK, ThreadTypes, Locs, LinkPcs, ReleasePcs,
       DropPcs, HoldsLock, UsesJob, UsesDev
  <2>2. CASE /\ drop' = [drop EXCEPT ![t].aborted = TRUE]
             /\ Goto(t, "dropWalk")
             /\ UNCHANGED <<scan, dev>>
    <3>1. drop' \in [Threads -> DropRecord]
      BY <2>2, DropFields DEF TypeOK, ThreadTypes
    <3> QED
      BY <2>2, <3>1 DEF DropRelock, TypeOK, ThreadTypes, Locs, LinkPcs,
         ReleasePcs, DropPcs, HoldsLock, UsesJob, UsesDev
  <2> QED
    BY <2>1, <2>2 DEF DropRelock
<1>3. UNCHANGED <<poolVars, objVars, procVars, hwVars, clientVars>>
  BY DEF DropRelock
<1> QED
  BY <1>1, <1>2, <1>3, Kept DEF TypeOK

LEMMA DropWalkTypes ==
  ASSUME TypeOK, NEW t \in Threads, DropWalk(t)
  PROVE  TypeOK'
<1>1. dev[t] \in Devs
  BY DEF DropWalk, TypeOK, ThreadTypes, UsesDev, HoldsLock
<1> DEFINE d == dev[t]
           n == IF node[t] = Nil THEN ItemAt(workList[d], 1) ELSE NextOf(d, node[t])
<1>2. n \in ObjOrNil
  BY <1>1, NextOfType DEF TypeOK, ThreadTypes, DevTypes, ItemAt
<1>3. /\ ListTypes' /\ PoolTypes' /\ po' \in [Objs -> Procs \cup {Nil}]
      /\ ThreadTypes' /\ ClientTypes'
  <2>1. CASE n = Nil
    <3>1. /\ Goto(t, "dropStart")
          /\ node' = [node EXCEPT ![t] = Nil]
          /\ UNCHANGED <<po, poolVars, jmpNext, stale, workList, linked, coreId,
                         drop, clientVars>>
      BY <2>1 DEF DropWalk
    <3>2. ThreadTypes'
      BY <3>1 DEF DropWalk, TypeOK, ThreadTypes, Locs, LinkPcs, ReleasePcs,
         DropPcs, HoldsLock, UsesJob, UsesDev
    <3> QED
      BY <3>1, <3>2, ListsKept, Kept DEF TypeOK, ObjTypes
  <2>2. CASE /\ n # Nil
             /\ UNCHANGED <<po, poolVars, jmpNext, stale, workList, linked,
                            drop, clientVars>>
    <3>1. UNCHANGED pc /\ node' = [node EXCEPT ![t] = n] /\ UNCHANGED coreId
      BY <2>2 DEF DropWalk
    <3>2. ThreadTypes'
      BY <3>1, <2>2, <1>2 DEF DropWalk, TypeOK, ThreadTypes
    <3> QED
      BY <3>1, <2>2, <3>2, ListsKept, Kept DEF TypeOK, ObjTypes
  <2>3. CASE /\ n # Nil
             /\ RemoveJob(d, n)
             /\ drop' = [drop EXCEPT ![t].handled = TRUE]
             /\ phase' = [phase EXCEPT ![n] = "none"]
             /\ holder' = [holder EXCEPT ![n] = Nil]
    <3>1. UNCHANGED pc /\ node' = [node EXCEPT ![t] = n] /\ UNCHANGED coreId
      BY <2>3 DEF DropWalk
    <3>2. n \in Objs
      BY <2>3, <1>2
    <3>3. ThreadTypes'
      <4>1. drop' \in [Threads -> DropRecord]
        BY <2>3, DropFields DEF TypeOK, ThreadTypes
      <4> QED
        BY <3>1, <3>2, <4>1 DEF DropWalk, TypeOK, ThreadTypes
    <3>4. ClientTypes'
      BY <2>3, <3>2 DEF TypeOK, ClientTypes
    <3> QED
      BY <1>1, <2>3, <3>1, <3>2, <3>3, <3>4, RemoveJobTypes
  <2> QED
    BY <2>1, <2>2, <2>3 DEF DropWalk
<1>4. ObjTypes'
  BY <1>3 DEF DropWalk, TypeOK, ObjTypes, ListTypes
<1>5. DevTypes'
  BY <1>3 DEF DropWalk, TypeOK, DevTypes, ListTypes
<1>6. UNCHANGED <<procVars, hwVars>>
  BY DEF DropWalk
<1> QED
  BY <1>3, <1>4, <1>5, <1>6, Kept DEF TypeOK

LEMMA DropStartTypes ==
  ASSUME TypeOK, NEW t \in Threads, DropStart(t)
  PROVE  TypeOK'
<1>1. dev[t] \in Devs
  BY DEF DropStart, TypeOK, ThreadTypes, UsesDev, HoldsLock
<1>2. RunTypes'
  BY <1>1, StartDevTypes, RunKept DEF DropStart
<1>3. DevTypes'
  BY <1>1, <1>2 DEF DropStart, TypeOK, DevTypes, RunTypes
<1>4. HwTypes'
  BY <1>2 DEF DropStart, TypeOK, HwTypes, RunTypes
<1>5. ThreadTypes'
  <2>1. drop' \in [Threads -> DropRecord]
    BY DropFields DEF DropStart, TypeOK, ThreadTypes
  <2>2. /\ scan' = [scan EXCEPT ![t] = @ + 1]
        /\ dev' = [dev EXCEPT ![t] = Nil]
        /\ pc' = [pc EXCEPT ![t] = "dropDev"]
        /\ UNCHANGED <<moduleSem, job, want, node>>
    BY DEF DropStart
  <2> QED
    BY <2>1, <2>2 DEF TypeOK, ThreadTypes, Locs, LinkPcs, ReleasePcs, DropPcs,
       HoldsLock, UsesJob, UsesDev
<1>6. UNCHANGED <<poolVars, objVars, procVars, clientVars>>
  BY DEF DropStart
<1> QED
  BY <1>3, <1>4, <1>5, <1>6, Kept DEF TypeOK

LEMMA DropFindTypes ==
  ASSUME TypeOK, NEW t \in Threads, NEW o \in Objs, DropFind(t, o)
  PROVE  TypeOK'
<1>1. ThreadTypes'
  <2>1. drop' \in [Threads -> DropRecord]
    BY DropFields DEF DropFind, TypeOK, ThreadTypes
  <2>4. UNCHANGED <<moduleSem, want, scan, node>>
    BY DEF DropFind
  <2>2. CASE /\ job' = [job EXCEPT ![t] = o]
             /\ dev' = [dev EXCEPT ![t] = coreId[o]]
             /\ Goto(t, "dropReturn")
    BY <2>1, <2>2, <2>4 DEF TypeOK, ObjTypes, ThreadTypes, Locs, LinkPcs,
       ReleasePcs, DropPcs, HoldsLock, UsesJob, UsesDev
  <2>3. CASE UNCHANGED <<job, dev, pc>>
    BY <2>1, <2>3, <2>4 DEF TypeOK, ThreadTypes
  <2> QED
    BY <2>2, <2>3 DEF DropFind
<1>2. UNCHANGED <<poolVars, objVars, procVars, devVars, hwVars, clientVars>>
  BY DEF DropFind
<1> QED
  BY <1>1, <1>2, Kept DEF TypeOK

LEMMA DropReturnTypes ==
  ASSUME TypeOK, NEW t \in Threads, DropReturn(t)
  PROVE  TypeOK'
<1>1. job[t] \in Objs /\ ReturnCmdbuf(job[t])
  BY DEF DropReturn, TypeOK, ThreadTypes, UsesJob
<1>2. PoolTypes' /\ po' \in [Objs -> Procs \cup {Nil}]
  BY <1>1, ReturnCmdbufTypes
<1>3. ObjTypes'
  BY <1>2 DEF DropReturn, TypeOK, ObjTypes
<1>4. ThreadTypes'
  BY DEF DropReturn, TypeOK, ThreadTypes, Locs, LinkPcs, ReleasePcs, DropPcs,
     HoldsLock, UsesJob, UsesDev
<1>5. ClientTypes'
  BY DEF DropReturn, TypeOK, ClientTypes
<1>6. UNCHANGED <<procVars, devVars, hwVars>>
  BY DEF DropReturn
<1> QED
  BY <1>2, <1>3, <1>4, <1>5, <1>6, Kept DEF TypeOK

LEMMA DropEndTypes ==
  ASSUME TypeOK, NEW t \in Threads, DropEnd(t)
  PROVE  TypeOK'
<1>1. ProcTypes'
  <2>1. CASE drop[t].owner = Nil
    <3>1. /\ totalWorkload' = [totalWorkload EXCEPT ![ProcOf[t]] = 0]
          /\ jobDone' = [jobDone EXCEPT ![ProcOf[t]] = <<>>]
          /\ inWait' = [inWait EXCEPT ![ProcOf[t]] = FALSE]
      BY <2>1 DEF DropEnd
    <3> QED
      BY <3>1 DEF TypeOK, ProcTypes
  <2>2. CASE drop[t].owner # Nil
    BY <2>2, Kept DEF DropEnd
  <2> QED
    BY <2>1, <2>2
<1>2. ThreadTypes'
  <2> DEFINE pcs == [pc EXCEPT ![t] = "user"]
  <2>1. pc' = pcs \/ pc' = Woken(pcs, ProcOf[t])
    BY DEF DropEnd
  <2>2. pcs \in [Threads -> Locs] /\ (\A u \in Threads : pcs[u] \in {pc[u], "user"})
    BY DEF TypeOK, ThreadTypes, Locs
  <2> HIDE DEF pcs
  <2>3. MovesWithin(pcs, pc')
    BY <2>1, <2>2, WokenMoves DEF MovesWithin
  <2>4. /\ pc' \in [Threads -> Locs]
        /\ \A u \in Threads :
             pc'[u] \in {pc[u], "user", "waiting"} \/ (pc'[u] = "dropWait" /\ pc[u] = "dropAsleep")
    BY <2>2, <2>3 DEF MovesWithin
  <2>5. \A u \in Threads : /\ pc'[u] \in UsesJob => pc[u] \in UsesJob
                           /\ pc'[u] \in UsesDev => pc[u] \in UsesDev
    BY <2>4 DEF Locs, LinkPcs, ReleasePcs, DropPcs, HoldsLock, UsesJob, UsesDev
  <2>6. NoDrop \in DropRecord
    BY DEF NoDrop, DropRecord
  <2>7. /\ moduleSem' = Nil
        /\ drop' = [drop EXCEPT ![t] = NoDrop]
        /\ UNCHANGED <<job, want, dev, scan, node>>
    BY DEF DropEnd
  <2>8. drop' \in [Threads -> DropRecord]
    BY <2>6, <2>7 DEF TypeOK, ThreadTypes
  <2>9. /\ \A u \in Threads : pc'[u] \in UsesJob => job'[u] # Nil
        /\ \A u \in Threads : pc'[u] \in UsesDev => dev'[u] # Nil
    BY <2>5, <2>7 DEF TypeOK, ThreadTypes
  <2> QED
    BY <2>4, <2>7, <2>8, <2>9 DEF TypeOK, ThreadTypes
<1>3. UNCHANGED <<poolVars, objVars, devVars, hwVars, clientVars>>
  BY DEF DropEnd
<1> QED
  BY <1>1, <1>2, <1>3, Kept DEF TypeOK

LEMMA HwFinishTypes ==
  ASSUME TypeOK, NEW d \in Devs, HwFinish(d)
  PROVE  TypeOK'
<1>1. exeId[d] \in Objs
  BY DEF HwFinish, TypeOK, HwTypes
<1> DEFINE o == exeId[d]
<1>2. /\ ran' \subseteq Objs
      /\ memId' \in [Devs -> ObjOrNil]
  BY <1>1 DEF HwFinish, TypeOK, HwTypes
<1>3. irq' \in [Devs -> SUBSET Kinds]
  BY RaiseType DEF HwFinish, Kinds, Err
<1>4. RunTypes'
  <2>1. CASE /\ jmpNext[o] # Nil
             /\ exeId' = [exeId EXCEPT ![d] = jmpNext[o]]
             /\ UNCHANGED <<hw, abortReq>>
    <3>1. jmpNext[o] \in Objs
      BY <1>1, <2>1 DEF TypeOK, ObjTypes
    <3> QED
      BY <2>1, <3>1 DEF HwFinish, devVars, TypeOK, DevTypes, HwTypes, RunTypes
  <2>2. CASE /\ hw' = [hw EXCEPT ![d] = "stall"]
             /\ UNCHANGED <<exeId, abortReq>>
    BY <1>1, <2>2 DEF HwFinish, devVars, TypeOK, DevTypes, HwTypes, RunTypes
  <2>3. CASE /\ hw' = [hw EXCEPT ![d] = "off"]
             /\ abortReq' = [abortReq EXCEPT ![d] = FALSE]
             /\ UNCHANGED exeId
    BY <2>3 DEF HwFinish, devVars, TypeOK, DevTypes, HwTypes, RunTypes
  <2> QED
    BY <2>1, <2>2, <2>3 DEF HwFinish
<1>5. HwTypes'
  BY <1>2, <1>3, <1>4 DEF HwTypes, RunTypes
<1>6. UNCHANGED <<poolVars, objVars, procVars, devVars, threadVars, clientVars>>
  BY DEF HwFinish
<1> QED
  BY <1>5, <1>6, Kept DEF TypeOK

LEMMA HwAbortStalledTypes ==
  ASSUME TypeOK, NEW d \in Devs, HwAbortStalled(d)
  PROVE  TypeOK'
<1>1. HwTypes'
  <2>1. irq' \in [Devs -> SUBSET Kinds]
    BY RaiseType DEF HwAbortStalled, Kinds, Err
  <2> QED
    BY <2>1 DEF HwAbortStalled, TypeOK, HwTypes
<1>2. UNCHANGED <<poolVars, objVars, procVars, devVars, threadVars, clientVars>>
  BY DEF HwAbortStalled
<1> QED
  BY <1>1, <1>2, Kept DEF TypeOK

LEMMA HwErrorTypes ==
  ASSUME TypeOK, NEW d \in Devs, NEW k \in ErrorKinds, HwError(d, k)
  PROVE  TypeOK'
<1>1. HwTypes'
  <2>1. irq' \in [Devs -> SUBSET Kinds]
    BY KindsAssumption, RaiseType DEF HwError, Kinds, Err
  <2> QED
    BY <2>1 DEF HwError, TypeOK, HwTypes
<1>2. UNCHANGED <<poolVars, objVars, procVars, devVars, threadVars, clientVars>>
  BY DEF HwError
<1> QED
  BY <1>1, <1>2, Kept DEF TypeOK

LEMMA IsrEnterTypes ==
  ASSUME TypeOK, NEW d \in Devs, IsrEnter(d)
  PROVE  TypeOK'
<1>1. DevTypes'
  <2>1. CASE UNCHANGED <<isr, lock>>
    BY <2>1 DEF IsrEnter, TypeOK, DevTypes
  <2>2. CASE /\ lock' = [lock EXCEPT ![d] = "isr"]
             /\ isr' = [isr EXCEPT ![d] = [IsrIdle EXCEPT !.at = "read",
                                                         !.src = irq[d]]]
    <3>1. /\ [IsrIdle EXCEPT !.at = "read", !.src = irq[d]]
               \in IsrRecord
          /\ [IsrIdle EXCEPT !.at = "read", !.src = irq[d]].at = "read"
      BY DEF IsrIdle, IsrRecord, TypeOK, HwTypes
    <3> QED
      BY <2>2, <3>1 DEF IsrEnter, TypeOK, DevTypes
  <2> QED
    BY <2>1, <2>2 DEF IsrEnter
<1>2. HwTypes'
  BY DEF IsrEnter, TypeOK, HwTypes, Raise, Kinds
<1>3. UNCHANGED <<poolVars, objVars, procVars, threadVars, clientVars>>
  BY DEF IsrEnter
<1> QED
  BY <1>1, <1>2, <1>3, Kept DEF TypeOK

LEMMA IsrReadTypes ==
  ASSUME TypeOK, NEW d \in Devs, IsrRead(d)
  PROVE  TypeOK'
<1>1. DevTypes'
  <2> DEFINE c == CurrentOf(d)
  <2>1. c \in ObjOrNil
    BY DEF CurrentOf, TypeOK, HwTypes
  <2>2. CASE IsrLeave(d)
    BY <2>2, IsrLeaveTypes DEF IsrRead, TypeOK, DevTypes, IsrTypes
  <2>3. CASE /\ c # Nil
             /\ isr' = [isr EXCEPT ![d].curr = c, ![d].at = FirstStep(c)]
             /\ UNCHANGED lock
    <3>1. FirstStep(c) \in {"walk", "curr"}
      BY DEF FirstStep
    <3>2. /\ isr' \in [Devs -> IsrRecord]
          /\ isr'[d].curr = c
          /\ \A e \in Devs : e # d => isr'[e] = isr[e]
      BY <2>1, <2>3, <3>1, IsrFields DEF TypeOK, DevTypes
    <3> QED
      BY <2>3, <3>2 DEF IsrRead, TypeOK, DevTypes
  <2> QED
    BY <2>2, <2>3 DEF IsrRead
<1>2. UNCHANGED <<poolVars, objVars, procVars, hwVars, threadVars, clientVars>>
  BY DEF IsrRead
<1> QED
  BY <1>1, <1>2, Kept DEF TypeOK

LEMMA IsrWalkTypes ==
  ASSUME TypeOK, NEW d \in Devs, IsrWalk(d)
  PROVE  TypeOK'
<1>1. CASE WalkNext(d) \in {Nil, isr[d].curr}
  <2>1. /\ UNCHANGED <<runDone, exeStatus, jmpNext, stale, workList, linked,
                       jobDone, inWait, pc>>
        /\ \/ IsrLeave(d)
           \/ WalkNext(d) # Nil /\ isr' = [isr EXCEPT ![d].at = "curr"] /\ UNCHANGED lock
    BY <1>1 DEF IsrWalk
  <2>2. UNCHANGED <<poolVars, objVars, procVars, hwVars, threadVars, clientVars>>
    BY <2>1 DEF IsrWalk, objVars, procVars, threadVars
  <2>3. DevTypes'
    <3>1. CASE IsrLeave(d)
      BY <2>1, <3>1, IsrLeaveTypes DEF IsrWalk, TypeOK, DevTypes, IsrTypes
    <3>2. CASE isr' = [isr EXCEPT ![d].at = "curr"] /\ UNCHANGED lock
      BY <2>1, <3>2, IsrGoesTo DEF IsrWalk, TypeOK, DevTypes
    <3> QED
      BY <2>1, <3>1, <3>2
  <2> QED
    BY <2>2, <2>3, Kept DEF TypeOK
<1>2. CASE WalkNext(d) \notin {Nil, isr[d].curr}
  <2> DEFINE n == WalkNext(d)
  <2>1. n \in Objs
    BY <1>2, NextOfType DEF WalkNext, TypeOK, DevTypes, IsrRecord, ItemAt
  <2>2. /\ isr' = [isr EXCEPT ![d].node = n]
        /\ ProcessNode(state[d], d, n, "ok")
        /\ pc' = PcAfterDone(n)
        /\ UNCHANGED <<lock, coreId>>
    BY <1>2 DEF IsrWalk
  <2>3. ListTypes' /\ NodeTypes'
    BY <2>1, <2>2, ProcessNodeTypes DEF IsrWalk
  <2>4. ObjTypes'
    BY <2>3 DEF IsrWalk, TypeOK, ObjTypes, ListTypes, NodeTypes
  <2>5. ProcTypes'
    BY <2>3 DEF IsrWalk, TypeOK, ProcTypes, NodeTypes
  <2>6. DevTypes'
    <3>1. /\ isr' \in [Devs -> IsrRecord]
          /\ \A e \in Devs : isr'[e].at = isr[e].at /\ isr'[e].curr = isr[e].curr
      BY <2>1, <2>2, IsrFields DEF TypeOK, DevTypes
    <3> QED
      BY <2>3, <2>2, <3>1 DEF IsrWalk, TypeOK, DevTypes, ListTypes
  <2>7. ThreadTypes'
    BY <2>2, PcMovesTypes, PcAfterDoneMoves DEF IsrWalk
  <2>8. UNCHANGED <<poolVars, hwVars, clientVars>>
    BY DEF IsrWalk
  <2> QED
    BY <2>4, <2>5, <2>6, <2>7, <2>8, Kept DEF TypeOK
<1> QED
  BY <1>1, <1>2

LEMMA IsrAbortTypes ==
  ASSUME TypeOK, NEW d \in Devs, IsrAbort(d)
  PROVE  TypeOK'
<1> DEFINE c == isr[d].curr
<1>1. c \in Objs /\ UNCHANGED coreId
  BY DEF IsrAbort, TypeOK, DevTypes, IsrRecord
<1>2. ListTypes' /\ NodeTypes'
  BY <1>1, ProcessNodeTypes DEF IsrAbort
<1>3. ObjTypes'
  BY <1>2 DEF IsrAbort, TypeOK, ObjTypes, ListTypes, NodeTypes
<1>4. ProcTypes'
  BY <1>2 DEF IsrAbort, TypeOK, ProcTypes, NodeTypes
<1>5. DevTypes'
  BY <1>2, IsrLeaveTypes DEF IsrAbort, TypeOK, DevTypes, IsrTypes, ListTypes
<1>6. ThreadTypes'
  BY PcMovesTypes, PcAfterDoneMoves, AbortWokenMoves DEF IsrAbort
<1>7. UNCHANGED <<poolVars, hwVars, clientVars>>
  BY DEF IsrAbort
<1> QED
  BY <1>3, <1>4, <1>5, <1>6, <1>7, Kept DEF TypeOK

LEMMA IsrBusErrTypes ==
  ASSUME TypeOK, NEW d \in Devs, IsrBusErr(d)
  PROVE  TypeOK'
<1> DEFINE c == isr[d].curr
<1>1. c \in Objs /\ UNCHANGED coreId
  BY DEF IsrBusErr, TypeOK, DevTypes, IsrRecord
<1>2. ListTypes' /\ NodeTypes'
  BY <1>1, ProcessNodeTypes DEF IsrBusErr
<1>3. ObjTypes'
  BY <1>2 DEF IsrBusErr, TypeOK, ObjTypes, ListTypes, NodeTypes
<1>4. ProcTypes'
  BY <1>2 DEF IsrBusErr, TypeOK, ProcTypes, NodeTypes
<1>5. DevTypes'
  BY <1>2, IsrLeaveTypes DEF IsrBusErr, TypeOK, DevTypes, IsrTypes, ListTypes
<1>6. ThreadTypes'
  BY PcMovesTypes, PcAfterDoneMoves DEF IsrBusErr
<1>7. UNCHANGED <<poolVars, hwVars, clientVars>>
  BY DEF IsrBusErr
<1> QED
  BY <1>3, <1>4, <1>5, <1>6, <1>7, Kept DEF TypeOK

LEMMA IsrCmdErrTypes ==
  ASSUME TypeOK, NEW d \in Devs, IsrCmdErr(d)
  PROVE  TypeOK'
<1> DEFINE c == isr[d].curr
<1>1. c \in Objs /\ UNCHANGED coreId
  BY DEF IsrCmdErr, TypeOK, DevTypes, IsrRecord
<1>2. ListTypes' /\ NodeTypes'
  BY <1>1, ProcessNodeTypes DEF IsrCmdErr
<1>3. ObjTypes'
  BY <1>2 DEF IsrCmdErr, TypeOK, ObjTypes, ListTypes, NodeTypes
<1>4. ProcTypes'
  BY <1>2 DEF IsrCmdErr, TypeOK, ProcTypes, NodeTypes
<1>5. DevTypes'
  BY <1>2, IsrGoesTo DEF IsrCmdErr, TypeOK, DevTypes, ListTypes
<1>6. ThreadTypes'
  BY PcMovesTypes, PcAfterDoneMoves DEF IsrCmdErr
<1>7. UNCHANGED <<poolVars, hwVars, clientVars>>
  BY DEF IsrCmdErr
<1> QED
  BY <1>3, <1>4, <1>5, <1>6, <1>7, Kept DEF TypeOK

LEMMA IsrDoneTypes ==
  ASSUME TypeOK, NEW d \in Devs, IsrDone(d)
  PROVE  TypeOK'
<1> DEFINE c == isr[d].curr
<1>1. c \in Objs /\ UNCHANGED coreId
  BY DEF IsrDone, TypeOK, DevTypes, IsrRecord
<1>2. ListTypes' /\ NodeTypes'
  BY <1>1, ProcessNodeTypes DEF IsrDone
<1>3. ObjTypes'
  BY <1>2 DEF IsrDone, TypeOK, ObjTypes, ListTypes, NodeTypes
<1>4. ProcTypes'
  BY <1>2 DEF IsrDone, TypeOK, ProcTypes, NodeTypes
<1>5. DevTypes'
  <2>1. CASE IsrLeave(d) /\ UNCHANGED state
    BY <1>2, <2>1, IsrLeaveTypes DEF IsrDone, TypeOK, DevTypes, IsrTypes, ListTypes
  <2>2. CASE /\ state' = [state EXCEPT ![d] = "idle"]
             /\ isr' = [isr EXCEPT ![d].at = "start"]
             /\ UNCHANGED lock
    BY <1>2, <2>2, IsrGoesTo DEF IsrDone, TypeOK, DevTypes, ListTypes
  <2> QED
    BY <2>1, <2>2 DEF IsrDone
<1>6. ThreadTypes'
  BY PcMovesTypes, PcAfterDoneMoves DEF IsrDone
<1>7. UNCHANGED <<poolVars, hwVars, clientVars>>
  BY DEF IsrDone
<1> QED
  BY <1>3, <1>4, <1>5, <1>6, <1>7, Kept DEF TypeOK

LEMMA IsrStartTypes ==
  ASSUME TypeOK, NEW d \in Devs, IsrStart(d)
  PROVE  TypeOK'
<1>1. RunTypes'
  BY StartDevTypes DEF IsrStart
<1>2. DevTypes'
  BY <1>1, IsrLeaveTypes DEF IsrStart, TypeOK, DevTypes, RunTypes, IsrTypes
<1>3. HwTypes'
  BY <1>1 DEF IsrStart, TypeOK, HwTypes, RunTypes
<1>4. UNCHANGED <<poolVars, objVars, procVars, threadVars, clientVars>>
  BY DEF IsrStart
<1> QED
  BY <1>2, <1>3, <1>4, Kept DEF TypeOK

LEMMA KthreadBusErrTypes ==
  ASSUME TypeOK, NEW d \in Devs, KthreadBusErr(d)
  PROVE  TypeOK'
<1>1. RunTypes'
  BY StartDevTypes, RunKept DEF KthreadBusErr
<1>2. DevTypes'
  BY <1>1 DEF KthreadBusErr, TypeOK, DevTypes, RunTypes
<1>3. HwTypes'
  BY <1>1 DEF KthreadBusErr, TypeOK, HwTypes, RunTypes
<1>4. UNCHANGED <<poolVars, objVars, procVars, threadVars, clientVars>>
  BY DEF KthreadBusErr
<1> QED
  BY <1>2, <1>3, <1>4, Kept DEF TypeOK

LEMMA InitTypes ==
  ASSUME Init PROVE TypeOK
<1>1. PoolTypes
  BY ObjsFinite, FS_CardinalityType DEF Init, PoolTypes
<1>2. ObjTypes
  BY DEF Init, ObjTypes, NoPtrs
<1>3. ProcTypes
  BY DEF Init, ProcTypes
<1>4. DevTypes
  <2>1. IsrIdle \in IsrRecord /\ IsrIdle.at = "out"
    BY DEF IsrIdle, IsrRecord
  <2> QED
    BY <2>1 DEF Init, DevTypes
<1>5. HwTypes
  BY DEF Init, HwTypes
<1>6. ThreadTypes
  <2>1. NoDrop \in DropRecord
    BY DEF NoDrop, DropRecord
  <2> QED
    BY <2>1 DEF Init, ThreadTypes, Locs, LinkPcs, ReleasePcs, DropPcs, HoldsLock,
                UsesJob, UsesDev
<1>7. ClientTypes
  BY DEF Init, ClientTypes
<1> QED
  BY <1>1, <1>2, <1>3, <1>4, <1>5, <1>6, <1>7 DEF TypeOK

LEMMA NextTypes ==
  ASSUME TypeOK, [Next]_vars PROVE TypeOK'
<1>1. ASSUME NEW t \in Threads, InCall(t) PROVE TypeOK'
  <2>1. CASE ReserveWait(t) \/ ReserveTake(t) \/ Link(t)
    BY <2>1, ReserveWaitTypes, ReserveTakeTypes, LinkSemTypes, LinkScanTypes,
       LinkLeastLoadedTypes, LinkKickTypes, LinkPrevTypes DEF Link
  <2>2. CASE Wait(t) \/ Release(t)
    BY <2>2, WaitGotTypes, WaitNothingTypes, WaitSleepTypes, ReleaseAccountTypes,
       ReleaseLockTypes DEF Wait, Release
  <2>3. CASE Drop(t)
    BY <2>3, DropSemTypes, DropDevTypes, DropAbortTypes, DropWaitTypes,
       DropPollTypes, DropRelockTypes, DropWalkTypes, DropStartTypes,
       DropFindTypes, DropReturnTypes, DropEndTypes DEF Drop
  <2> QED
    BY <1>1, <2>1, <2>2, <2>3 DEF InCall
<1>2. ASSUME NEW t \in Threads, Calls(t) PROVE TypeOK'
  BY <1>2, ReserveChargeTypes, LinkCallTypes, WaitJobTypes, ReleaseCallTypes,
     WaitAnyTypes, DropCallTypes, CloseCallTypes DEF Calls
<1>3. ASSUME NEW t \in Threads, Signals(t) PROVE TypeOK'
  BY <1>3, ReserveInterruptedTypes, LinkInterruptedTypes, WaitInterruptedTypes,
     DropInterruptedTypes DEF Signals
<1>4. ASSUME NEW d \in Devs, Isr(d) \/ KthreadBusErr(d) PROVE TypeOK'
  BY <1>4, IsrEnterTypes, IsrReadTypes, IsrWalkTypes, IsrAbortTypes,
     IsrBusErrTypes, IsrCmdErrTypes, IsrDoneTypes, IsrStartTypes,
     KthreadBusErrTypes DEF Isr
<1>5. ASSUME NEW d \in Devs, Hw(d) PROVE TypeOK'
  BY <1>5, HwFinishTypes, HwAbortStalledTypes, HwErrorTypes DEF Hw
<1>6. CASE UNCHANGED vars
  BY <1>6, Kept DEF vars, TypeOK
<1> QED
  BY <1>1, <1>2, <1>3, <1>4, <1>5, <1>6 DEF Next

LEMMA SafetyTypes == Safety => []TypeOK
BY InitTypes, NextTypes, PTL DEF Safety

(* In every behaviour of the driver each variable has its type, and none   *)
(* of the pointers a handler follows is NULL: the cmdbuf and device of a   *)
(* call, the core of a linked cmdbuf, the buffer a device executes, the    *)
(* current buffer of the interrupt routine.                                *)
THEOREM TypeCorrect == Spec => []TypeOK
<1> QED
  BY SafetyTypes, PTL DEF Spec

---------------------------------------------------------------------------
(* The locks.  What a step may do to them: leave them and their owners     *)
(* alone, take one that is free, or give back the one it has.              *)
InIsr(d) == isr[d].at # "out"
InSection(t) == pc[t] \in HoldsLock

(* The step leaves thread u in the section it is in, or outside of one.    *)
SectionKept(u) ==
  /\ pc'[u] \in HoldsLock <=> pc[u] \in HoldsLock
  /\ pc[u] \in HoldsLock => dev'[u] = dev[u]

LEMMA LocksKept ==
  ASSUME LocksHeld, UNCHANGED lock,
         \A d \in Devs : InIsr(d)' <=> InIsr(d),
         \A u \in Threads : SectionKept(u)
  PROVE  LocksHeld'
BY DEF LocksHeld, Holds, InIsr, SectionKept

LEMMA LocksTaken ==
  ASSUME TypeOK, LocksHeld, NEW t \in Threads, NEW d \in Devs,
         lock[d] = "free", lock' = [lock EXCEPT ![d] = "thread"],
         UNCHANGED isr, ~InSection(t), InSection(t)', dev'[t] = d,
         \A u \in Threads \ {t} : SectionKept(u)
  PROVE  LocksHeld'
<1>1. /\ lock'[d] = "thread"
      /\ \A e \in Devs \ {d} : lock'[e] = lock[e]
  BY DEF TypeOK, DevTypes
<1>2. isr[d].at = "out" /\ \A u \in Threads : ~Holds(u, d)
  BY DEF LocksHeld
<1>3. \A u \in Threads \ {t}, e \in Devs : Holds(u, e)' <=> Holds(u, e)
  BY DEF Holds, SectionKept
<1>4. \A e \in Devs : /\ Holds(t, e)' <=> e = d
                      /\ ~Holds(t, e)
  BY DEF Holds, InSection
<1>5. \A e \in Devs : lock'[e] = "isr" <=> isr'[e].at # "out"
  BY <1>1, <1>2 DEF LocksHeld
<1>6. \A e \in Devs : lock'[e] = "thread" <=> \E u \in Threads : Holds(u, e)'
  BY <1>1, <1>2, <1>3, <1>4 DEF LocksHeld
<1>7. \A e \in Devs : \A u, v \in Threads : Holds(u, e)' /\ Holds(v, e)' => u = v
  BY <1>2, <1>3, <1>4 DEF LocksHeld
<1> QED
  BY <1>5, <1>6, <1>7 DEF LocksHeld

LEMMA LocksLeft ==
  ASSUME TypeOK, LocksHeld, NEW t \in Threads, InSection(t), ~InSection(t)',
         lock' = [lock EXCEPT ![dev[t]] = "free"], UNCHANGED isr,
         \A u \in Threads \ {t} : SectionKept(u)
  PROVE  LocksHeld'
<1> DEFINE d == dev[t]
<1>1. d \in Devs
  BY DEF InSection, TypeOK, ThreadTypes, UsesDev
<1>2. /\ lock'[d] = "free"
      /\ \A e \in Devs \ {d} : lock'[e] = lock[e]
  BY <1>1 DEF TypeOK, DevTypes
<1>3. Holds(t, d) /\ lock[d] = "thread" /\ isr[d].at = "out"
  BY <1>1 DEF LocksHeld, Holds, InSection
<1>4. \A u \in Threads \ {t}, e \in Devs : Holds(u, e)' <=> Holds(u, e)
  BY DEF Holds, SectionKept
<1>5. \A e \in Devs : ~Holds(t, e)' /\ (Holds(t, e) => e = d)
  BY DEF Holds, InSection
<1>6. \A u \in Threads : Holds(u, d) => u = t
  BY <1>1, <1>3 DEF LocksHeld
<1>7. \A e \in Devs : lock'[e] = "isr" <=> isr'[e].at # "out"
  BY <1>2, <1>3 DEF LocksHeld
<1>8. \A e \in Devs : lock'[e] = "thread" <=> \E u \in Threads : Holds(u, e)'
  BY <1>2, <1>4, <1>5, <1>6 DEF LocksHeld
<1>9. \A e \in Devs : \A u, v \in Threads : Holds(u, e)' /\ Holds(v, e)' => u = v
  BY <1>4, <1>5 DEF LocksHeld
<1> QED
  BY <1>7, <1>8, <1>9 DEF LocksHeld

LEMMA IsrTakes ==
  ASSUME TypeOK, LocksHeld, NEW d \in Devs, lock[d] = "free",
         lock' = [lock EXCEPT ![d] = "isr"], InIsr(d)',
         \A e \in Devs \ {d} : isr'[e] = isr[e],
         \A u \in Threads : SectionKept(u)
  PROVE  LocksHeld'
<1>1. /\ lock'[d] = "isr"
      /\ \A e \in Devs \ {d} : lock'[e] = lock[e]
  BY DEF TypeOK, DevTypes
<1>2. \A u \in Threads, e \in Devs : Holds(u, e)' <=> Holds(u, e)
  BY DEF Holds, SectionKept
<1> QED
  BY <1>1, <1>2 DEF LocksHeld, InIsr

LEMMA IsrLeaves ==
  ASSUME TypeOK, LocksHeld, NEW d \in Devs, InIsr(d), IsrLeave(d),
         \A u \in Threads : SectionKept(u)
  PROVE  LocksHeld'
<1>1. /\ lock'[d] = "free" /\ isr'[d].at = "out"
      /\ \A e \in Devs \ {d} : lock'[e] = lock[e] /\ isr'[e] = isr[e]
  BY DEF IsrLeave, IsrIdle, TypeOK, DevTypes
<1>2. \A u \in Threads, e \in Devs : Holds(u, e)' <=> Holds(u, e)
  BY DEF Holds, SectionKept
<1>3. lock[d] = "isr"
  BY DEF LocksHeld, InIsr
<1> QED
  BY <1>1, <1>2, <1>3 DEF LocksHeld

LEMMA SemKept ==
  ASSUME SemHeld, UNCHANGED moduleSem,
         \A u \in Threads : pc'[u] \in SemPcs <=> pc[u] \in SemPcs
  PROVE  SemHeld'
BY DEF SemHeld

LEMMA SemTaken ==
  ASSUME SemHeld, NEW t \in Threads, moduleSem = Nil, moduleSem' = t,
         pc'[t] \in SemPcs, \A u \in Threads \ {t} : pc'[u] = pc[u]
  PROVE  SemHeld'
BY DEF SemHeld

LEMMA SemLeft ==
  ASSUME SemHeld, NEW t \in Threads, pc[t] \in SemPcs, moduleSem' = Nil,
         pc'[t] \notin SemPcs,
         \A u \in Threads \ {t} : pc'[u] \in SemPcs <=> pc[u] \in SemPcs
  PROVE  SemHeld'
BY DEF SemHeld

(* Waking threads up changes nobody's locks, and neither does a step that  *)
(* moves a thread between two places of the same kind.                     *)
LEMMA MovesKeepLocks ==
  ASSUME TypeOK, MovesWithin(pc, pc'), UNCHANGED dev, NEW u \in Threads
  PROVE  SectionKept(u) /\ (pc'[u] \in SemPcs <=> pc[u] \in SemPcs)
BY DEF MovesWithin, SectionKept, HoldsLock, SemPcs, LinkPcs, DropPcs

Outside == {"user", "resWait", "resTake", "waiting", "asleep", "linkSem",
            "relAccount", "relLock", "dropSem"}
Inside == {"linkScan", "linkKick", "wild", "dropDev", "dropAbort", "dropWait",
           "dropAsleep", "dropPoll", "dropRelock", "dropReturn"}

LEMMA MoveKeepsLocks ==
  ASSUME TypeOK, LockOwners, NEW t \in Threads, NEW loc,
         \/ pc[t] \in Outside /\ loc \in Outside
         \/ pc[t] \in Inside /\ loc \in Inside,
         Goto(t, loc), UNCHANGED <<lock, isr, moduleSem>>,
         \A u \in Threads \ {t} : dev'[u] = dev[u]
  PROVE  LockOwners'
<1>1. pc'[t] = loc /\ \A u \in Threads \ {t} : pc'[u] = pc[u]
  BY DEF TypeOK, ThreadTypes
<1>2. \A u \in Threads : SectionKept(u) /\ (pc'[u] \in SemPcs <=> pc[u] \in SemPcs)
  BY <1>1 DEF SectionKept, Outside, Inside, SemPcs, LinkPcs, DropPcs, HoldsLock
<1> QED
  BY <1>2, LocksKept, SemKept DEF LockOwners, InIsr

LEMMA PcsKeptLocks ==
  ASSUME LockOwners, UNCHANGED <<pc, dev, lock, isr, moduleSem>>
  PROVE  LockOwners'
BY LocksKept, SemKept DEF LockOwners, SectionKept, InIsr

LEMMA CallLocks ==
  ASSUME TypeOK, LockOwners, NEW t \in Threads, Calls(t) \/ Signals(t)
  PROVE  LockOwners'
<1>1. ASSUME NEW w \in Workloads, ReserveCharge(t, w) PROVE LockOwners'
  BY <1>1, MoveKeepsLocks DEF ReserveCharge, MayCall, devVars, threadVars,
     Outside, Inside
<1>2. ASSUME NEW o \in Objs, LinkCall(t, o) PROVE LockOwners'
  <2>1. CASE UNCHANGED pc
    BY <1>2, <2>1, PcsKeptLocks DEF LinkCall, Enters, MayCall, devVars, threadVars
  <2>2. CASE Goto(t, "linkSem")
    BY <1>2, <2>2, MoveKeepsLocks DEF LinkCall, Enters, MayCall, devVars,
       threadVars, Outside, Inside
  <2> QED
    BY <1>2, <2>1, <2>2 DEF LinkCall
<1>3. ASSUME NEW o \in Objs, WaitJob(t, o) PROVE LockOwners'
  BY <1>3, MoveKeepsLocks DEF WaitJob, MayCall, devVars, threadVars, Outside, Inside
<1>4. ASSUME NEW o \in Objs, ReleaseCall(t, o) PROVE LockOwners'
  <2>1. CASE UNCHANGED <<pc, dev>>
    BY <1>4, <2>1, PcsKeptLocks DEF ReleaseCall, devVars, threadVars
  <2>2. CASE dev' = [dev EXCEPT ![t] = coreId[o]] /\ Goto(t, "relAccount")
    <3>1. \A u \in Threads \ {t} : dev'[u] = dev[u]
      BY <2>2 DEF TypeOK, ThreadTypes
    <3> QED
      BY <1>4, <2>2, <3>1, MoveKeepsLocks DEF ReleaseCall, Enters, MayCall,
         devVars, threadVars, Outside, Inside
  <2> QED
    BY <1>4, <2>1, <2>2 DEF ReleaseCall
<1>5. CASE WaitAny(t)
  BY <1>5, MoveKeepsLocks DEF WaitAny, Enters, MayCall, devVars, threadVars,
     Outside, Inside
<1>6. CASE DropCall(t)
  BY <1>6, MoveKeepsLocks DEF DropCall, Enters, MayCall, devVars, threadVars,
     Outside, Inside
<1>7. CASE CloseCall(t)
  BY <1>7, MoveKeepsLocks DEF CloseCall, Enters, MayCall, devVars, threadVars,
     Outside, Inside
<1>8. CASE ReserveInterrupted(t)
  BY <1>8, MoveKeepsLocks DEF ReserveInterrupted, devVars, threadVars, Outside, Inside
<1>9. CASE LinkInterrupted(t)
  BY <1>9, MoveKeepsLocks DEF LinkInterrupted, devVars, threadVars, Outside, Inside
<1>10. CASE WaitInterrupted(t)
  BY <1>10, MoveKeepsLocks DEF WaitInterrupted, devVars, threadVars, Outside, Inside
<1>11. CASE DropInterrupted(t)
  <2>1. CASE pc[t] = "dropSem" /\ Goto(t, "user")
    BY <1>11, <2>1, MoveKeepsLocks DEF DropInterrupted, devVars, threadVars,
       Outside, Inside
  <2>2. CASE pc[t] = "dropAsleep" /\ Goto(t, "dropPoll")
    BY <1>11, <2>2, MoveKeepsLocks DEF DropInterrupted, devVars, threadVars,
       Outside, Inside
  <2> QED
    BY <1>11, <2>1, <2>2 DEF DropInterrupted
<1> QED
  BY <1>1, <1>2, <1>3, <1>4, <1>5, <1>6, <1>7, <1>8, <1>9, <1>10, <1>11 DEF Calls,
     Signals

LEMMA InCallLocks ==
  ASSUME TypeOK, LockOwners, NEW t \in Threads, ReserveWait(t) \/ ReserveTake(t)
           \/ Wait(t) \/ Release(t)
  PROVE  LockOwners'
<1>1. CASE ReserveWait(t)
  BY <1>1, MoveKeepsLocks DEF ReserveWait, devVars, threadVars, Outside, Inside
<1>2. CASE ReserveTake(t)
  BY <1>2, MoveKeepsLocks DEF ReserveTake, devVars, threadVars, Outside, Inside
<1>3. CASE WaitNothing(t)
  BY <1>3, MoveKeepsLocks DEF WaitNothing, devVars, threadVars, Outside, Inside
<1>4. CASE WaitSleep(t)
  BY <1>4, MoveKeepsLocks DEF WaitSleep, devVars, threadVars, Outside, Inside
<1>5. CASE ReleaseAccount(t)
  BY <1>5, MoveKeepsLocks DEF ReleaseAccount, devVars, threadVars, Outside, Inside
<1>6. ASSUME NEW o \in Objs, WaitGot(t, o) PROVE LockOwners'
  BY <1>6, MoveKeepsLocks DEF WaitGot, devVars, threadVars, Outside, Inside
<1>7. CASE ReleaseLock(t)
  <2>1. \A u \in Threads \ {t} : dev'[u] = dev[u]
    BY <1>7 DEF ReleaseLock, TypeOK, ThreadTypes
  <2> QED
    BY <1>7, <2>1, MoveKeepsLocks DEF ReleaseLock, devVars, threadVars, Outside,
       Inside
<1> QED
  BY <1>1, <1>2, <1>3, <1>4, <1>5, <1>6, <1>7 DEF Wait, Release

LEMMA LinkLocks ==
  ASSUME TypeOK, LockOwners, NEW t \in Threads, Link(t)
  PROVE  LockOwners'
<1>1. CASE LinkSem(t)
  <2>1. /\ pc'[t] = "linkScan"
        /\ \A u \in Threads \ {t} : pc'[u] = pc[u]
    BY <1>1 DEF LinkSem, TypeOK, ThreadTypes
  <2>2. \A u \in Threads : SectionKept(u)
    BY <1>1, <2>1 DEF LinkSem, SectionKept, HoldsLock
  <2>3. LocksHeld'
    BY <1>1, <2>2, LocksKept DEF LinkSem, LockOwners, InIsr, devVars, threadVars
  <2>4. SemHeld'
    BY <1>1, <2>1, SemTaken DEF LinkSem, LockOwners, SemPcs, LinkPcs
  <2> QED
    BY <2>3, <2>4 DEF LockOwners
<1>2. CASE LinkScan(t)
  <2>1. CASE UNCHANGED pc
    BY <1>2, <2>1, PcsKeptLocks DEF LinkScan, devVars, threadVars
  <2>2. CASE Goto(t, "linkKick")
    BY <1>2, <2>2, MoveKeepsLocks DEF LinkScan, devVars, threadVars, Outside, Inside
  <2> QED
    BY <1>2, <2>1, <2>2 DEF LinkScan
<1>3. CASE LinkLeastLoaded(t)
  BY <1>3, MoveKeepsLocks DEF LinkLeastLoaded, devVars, threadVars, Outside, Inside
<1>4. CASE LinkKick(t) /\ coreId[job[t]] = Nil
  <2>1. \A u \in Threads \ {t} : dev'[u] = dev[u]
    BY <1>4 DEF LinkKick, TypeOK, ThreadTypes
  <2>2. Goto(t, "wild") /\ UNCHANGED <<lock, isr, moduleSem>>
    BY <1>4 DEF LinkKick
  <2> QED
    BY <1>4, <2>1, <2>2, MoveKeepsLocks DEF LinkKick, Outside, Inside
<1>5. CASE LinkKick(t) /\ coreId[job[t]] # Nil
  <2> DEFINE d == coreId[job[t]]
  <2>1. /\ dev' = [dev EXCEPT ![t] = d]
        /\ lock[d] = "free" /\ lock' = [lock EXCEPT ![d] = "thread"]
        /\ pc' = [pc EXCEPT ![t] = "linkPrev"]
        /\ UNCHANGED <<isr, moduleSem>>
    BY <1>5 DEF LinkKick
  <2>2. d \in Devs
    BY <1>5 DEF LinkKick, TypeOK, ThreadTypes, ObjTypes, UsesJob, LinkPcs
  <2>3. /\ pc'[t] = "linkPrev" /\ dev'[t] = d
        /\ \A u \in Threads \ {t} : pc'[u] = pc[u] /\ dev'[u] = dev[u]
    BY <2>1 DEF TypeOK, ThreadTypes
  <2>4. \A u \in Threads \ {t} : SectionKept(u)
    BY <2>3 DEF SectionKept
  <2>5. LocksHeld'
    BY <1>5, <2>1, <2>2, <2>3, <2>4, LocksTaken DEF LinkKick, LockOwners,
       InSection, HoldsLock
  <2>6. SemHeld'
    BY <1>5, <2>1, <2>3, SemKept DEF LinkKick, LockOwners, SemPcs, LinkPcs
  <2> QED
    BY <2>5, <2>6 DEF LockOwners
<1>6. CASE LinkPrev(t)
  <2>1. /\ pc'[t] = "user"
        /\ \A u \in Threads \ {t} : pc'[u] = pc[u] /\ dev'[u] = dev[u]
    BY <1>6 DEF LinkPrev, TypeOK, ThreadTypes
  <2>2. \A u \in Threads \ {t} : SectionKept(u)
    BY <2>1 DEF SectionKept
  <2>3. LocksHeld'
    BY <1>6, <2>1, <2>2, LocksLeft DEF LinkPrev, LockOwners, InSection, HoldsLock
  <2>4. SemHeld'
    BY <1>6, <2>1, SemLeft DEF LinkPrev, LockOwners, SemPcs, LinkPcs, DropPcs
  <2> QED
    BY <2>3, <2>4 DEF LockOwners
<1> QED
  BY <1>1, <1>2, <1>3, <1>4, <1>5, <1>6 DEF Link

LEMMA DropLocks ==
  ASSUME TypeOK, LockOwners, NEW t \in Threads, Drop(t)
  PROVE  LockOwners'
<1>1. CASE DropSem(t)
  <2>1. /\ pc'[t] = "dropDev"
        /\ \A u \in Threads \ {t} : pc'[u] = pc[u]
    BY <1>1 DEF DropSem, TypeOK, ThreadTypes
  <2>2. \A u \in Threads : SectionKept(u)
    BY <1>1, <2>1 DEF DropSem, SectionKept, HoldsLock
  <2>3. LocksHeld'
    BY <1>1, <2>2, LocksKept DEF DropSem, LockOwners, InIsr, devVars, threadVars
  <2>4. SemHeld'
    BY <1>1, <2>1, SemTaken DEF DropSem, LockOwners, SemPcs, DropPcs
  <2> QED
    BY <2>3, <2>4 DEF LockOwners
<1>2. CASE DropDev(t)
  <2> DEFINE d == DevSeq[scan[t]]
  <2>1. \A u \in Threads \ {t} : dev'[u] = dev[u]
    BY <1>2 DEF DropDev, TypeOK, ThreadTypes
  <2>2. CASE UNCHANGED <<pc, dev, lock>>
    BY <1>2, <2>2, PcsKeptLocks DEF DropDev
  <2>3. CASE Goto(t, "dropAbort") /\ UNCHANGED lock
    BY <1>2, <2>1, <2>3, MoveKeepsLocks DEF DropDev, Outside, Inside
  <2>4. CASE /\ dev' = [dev EXCEPT ![t] = d]
             /\ pc' = [pc EXCEPT ![t] = "dropWalk"]
             /\ lock' = [lock EXCEPT ![d] = "thread"]
    <3>1. d \in Devs
      BY <1>2, DevSeqAssumption DEF DropDev, TypeOK, ThreadTypes
    <3>2. /\ pc'[t] = "dropWalk" /\ dev'[t] = d
          /\ \A u \in Threads \ {t} : pc'[u] = pc[u] /\ SectionKept(u)
      BY <2>1, <2>4 DEF SectionKept, TypeOK, ThreadTypes
    <3>3. LocksHeld'
      BY <1>2, <2>4, <3>1, <3>2, LocksTaken DEF DropDev, LockOwners,
         InSection, HoldsLock
    <3>4. SemHeld'
      BY <1>2, <3>2, SemKept DEF DropDev, LockOwners, SemPcs, DropPcs
    <3> QED
      BY <3>3, <3>4 DEF LockOwners
  <2> QED
    BY <1>2, <2>2, <2>3, <2>4 DEF DropDev
<1>3. CASE DropAbort(t)
  BY <1>3, MoveKeepsLocks DEF DropAbort, devVars, threadVars, Outside, Inside
<1>4. CASE DropPoll(t)
  BY <1>4, MoveKeepsLocks DEF DropPoll, devVars, threadVars, Outside, Inside
<1>5. CASE DropWait(t)
  <2>1. CASE Goto(t, "dropRelock")
    BY <1>5, <2>1, MoveKeepsLocks DEF DropWait, devVars, threadVars, Outside, Inside
  <2>2. CASE Goto(t, "dropAsleep")
    BY <1>5, <2>2, MoveKeepsLocks DEF DropWait, devVars, threadVars, Outside, Inside
  <2> QED
    BY <1>5, <2>1, <2>2 DEF DropWait
<1>6. CASE DropRelock(t)
  <2>1. CASE dev' = [dev EXCEPT ![t] = Nil] /\ Goto(t, "dropDev") /\ UNCHANGED lock
    <3>1. \A u \in Threads \ {t} : dev'[u] = dev[u]
      BY <2>1 DEF TypeOK, ThreadTypes
    <3> QED
      BY <1>6, <2>1, <3>1, MoveKeepsLocks DEF DropRelock, Outside, Inside
  <2>2. CASE /\ lock' = [lock EXCEPT ![dev[t]] = "thread"]
             /\ Goto(t, "dropWalk") /\ UNCHANGED dev
    <3>1. dev[t] \in Devs
      BY <1>6 DEF DropRelock, TypeOK, ThreadTypes, UsesDev
    <3>2. /\ pc'[t] = "dropWalk" /\ dev'[t] = dev[t]
          /\ \A u \in Threads \ {t} : pc'[u] = pc[u] /\ SectionKept(u)
      BY <2>2 DEF SectionKept, TypeOK, ThreadTypes
    <3>3. LocksHeld'
      BY <1>6, <2>2, <3>1, <3>2, LocksTaken DEF DropRelock, LockOwners,
         InSection, HoldsLock
    <3>4. SemHeld'
      BY <1>6, <3>2, SemKept DEF DropRelock, LockOwners, SemPcs, DropPcs
    <3> QED
      BY <3>3, <3>4 DEF LockOwners
  <2> QED
    BY <1>6, <2>1, <2>2 DEF DropRelock
<1>7. CASE DropWalk(t)
  <2>1. pc'[t] \in {"dropWalk", "dropStart"} /\ \A u \in Threads \ {t} : pc'[u] = pc[u]
    BY <1>7 DEF DropWalk, TypeOK, ThreadTypes
  <2>2. \A u \in Threads : SectionKept(u)
    BY <1>7, <2>1 DEF DropWalk, SectionKept, HoldsLock
  <2>3. LocksHeld'
    BY <1>7, <2>2, LocksKept DEF DropWalk, LockOwners, InIsr
  <2>4. SemHeld'
    BY <1>7, <2>1, SemKept DEF DropWalk, LockOwners, SemPcs, DropPcs
  <2> QED
    BY <2>3, <2>4 DEF LockOwners
<1>8. CASE DropStart(t)
  <2>1. /\ pc'[t] = "dropDev"
        /\ \A u \in Threads \ {t} : pc'[u] = pc[u] /\ dev'[u] = dev[u]
    BY <1>8 DEF DropStart, TypeOK, ThreadTypes
  <2>2. \A u \in Threads \ {t} : SectionKept(u)
    BY <2>1 DEF SectionKept
  <2>3. LocksHeld'
    BY <1>8, <2>1, <2>2, LocksLeft DEF DropStart, LockOwners, InSection, HoldsLock
  <2>4. SemHeld'
    BY <1>8, <2>1, SemKept DEF DropStart, LockOwners, SemPcs, DropPcs
  <2> QED
    BY <2>3, <2>4 DEF LockOwners
<1>9. ASSUME NEW o \in Objs, DropFind(t, o) PROVE LockOwners'
  <2>1. \A u \in Threads \ {t} : dev'[u] = dev[u]
    BY <1>9 DEF DropFind, TypeOK, ThreadTypes
  <2>2. CASE Goto(t, "dropReturn")
    BY <1>9, <2>1, <2>2, MoveKeepsLocks DEF DropFind, devVars, threadVars,
       Outside, Inside
  <2>3. CASE UNCHANGED <<dev, pc>>
    BY <1>9, <2>3, PcsKeptLocks DEF DropFind, devVars, threadVars
  <2> QED
    BY <1>9, <2>2, <2>3 DEF DropFind
<1>10. CASE DropReturn(t)
  <2>1. \A u \in Threads \ {t} : dev'[u] = dev[u]
    BY <1>10 DEF DropReturn, TypeOK, ThreadTypes
  <2> QED
    BY <1>10, <2>1, MoveKeepsLocks DEF DropReturn, devVars, threadVars, Outside,
       Inside
<1>11. CASE DropEnd(t)
  <2> DEFINE pcs == [pc EXCEPT ![t] = "user"]
  <2>1. pc' = pcs \/ pc' = Woken(pcs, ProcOf[t])
    BY <1>11 DEF DropEnd
  <2>2. /\ pcs \in [Threads -> Locs]
        /\ pcs[t] = "user" /\ \A u \in Threads \ {t} : pcs[u] = pc[u]
    BY DEF TypeOK, ThreadTypes, Locs
  <2> HIDE DEF pcs
  <2>3. MovesWithin(pcs, pc')
    BY <2>1, <2>2, WokenMoves DEF MovesWithin
  <2>4. /\ pc'[t] = "user"
        /\ \A u \in Threads \ {t} : \/ pc'[u] = pc[u]
                                    \/ pc[u] = "asleep" /\ pc'[u] = "waiting"
                                    \/ pc[u] = "dropAsleep" /\ pc'[u] = "dropWait"
    BY <2>2, <2>3 DEF MovesWithin
  <2>5. \A u \in Threads : SectionKept(u)
    BY <1>11, <2>4 DEF DropEnd, SectionKept, HoldsLock
  <2>6. LocksHeld'
    BY <1>11, <2>5, LocksKept DEF DropEnd, LockOwners, InIsr, devVars, threadVars
  <2>7. SemHeld'
    BY <1>11, <2>4, SemLeft DEF DropEnd, LockOwners, SemPcs, LinkPcs, DropPcs
  <2> QED
    BY <2>6, <2>7 DEF LockOwners
<1> QED
  BY <1>1, <1>2, <1>3, <1>4, <1>5, <1>6, <1>7, <1>8, <1>9, <1>10, <1>11 DEF Drop

LEMMA IsrLocks ==
  ASSUME TypeOK, LockOwners, NEW d \in Devs, Isr(d)
  PROVE  LockOwners'
<1> DEFINE Others == \A u \in Threads : SectionKept(u)
<1>1. ASSUME UNCHANGED <<moduleSem, dev>>, MovesWithin(pc, pc')
      PROVE  SemHeld' /\ Others
  BY <1>1, MovesKeepLocks, SemKept DEF LockOwners
<1>2. ASSUME UNCHANGED threadVars
      PROVE  SemHeld' /\ Others
  <2>1. UNCHANGED <<pc, dev, moduleSem>>
    BY <1>2 DEF threadVars
  <2> QED
    BY <2>1, SemKept DEF LockOwners, SectionKept
<1>3. ASSUME Others, InIsr(d), IsrLeave(d)
      PROVE  LocksHeld'
  BY <1>3, IsrLeaves DEF LockOwners
<1>4. ASSUME Others, InIsr(d), UNCHANGED lock,
             InIsr(d)', \A e \in Devs \ {d} : isr'[e] = isr[e]
      PROVE  LocksHeld'
  BY <1>4, LocksKept DEF LockOwners, InIsr
<1>5. CASE IsrEnter(d)
  <2>1. SemHeld' /\ Others
    BY <1>2, <1>5 DEF IsrEnter
  <2>2. CASE UNCHANGED <<isr, lock>>
    BY <2>1, <2>2, LocksKept DEF LockOwners, InIsr
  <2>3. CASE /\ lock' = [lock EXCEPT ![d] = "isr"]
             /\ isr' = [isr EXCEPT ![d] = [IsrIdle EXCEPT !.at = "read", !.src = irq[d]]]
    <3>1. InIsr(d)' /\ \A e \in Devs \ {d} : isr'[e] = isr[e]
      BY <2>3 DEF InIsr, IsrIdle, TypeOK, DevTypes
    <3> QED
      BY <1>5, <2>1, <2>3, <3>1, IsrTakes DEF IsrEnter, LockOwners
  <2> QED
    BY <1>5, <2>2, <2>3 DEF IsrEnter
<1>6. CASE IsrRead(d)
  <2>1. SemHeld' /\ Others /\ InIsr(d)
    BY <1>2, <1>6 DEF IsrRead, InIsr
  <2>2. CASE IsrLeave(d)
    BY <1>3, <2>1, <2>2 DEF LockOwners
  <2>3. CASE isr' = [isr EXCEPT ![d].curr = CurrentOf(d), ![d].at = FirstStep(CurrentOf(d))]
             /\ UNCHANGED lock
    <3>1. InIsr(d)' /\ \A e \in Devs \ {d} : isr'[e] = isr[e]
      BY <2>3 DEF InIsr, FirstStep, TypeOK, DevTypes, IsrRecord
    <3> QED
      BY <1>4, <2>1, <2>3, <3>1 DEF LockOwners
  <2> QED
    BY <1>6, <2>2, <2>3 DEF IsrRead
<1>7. CASE IsrWalk(d)
  <2>1. MovesWithin(pc, pc') /\ UNCHANGED <<moduleSem, dev>> /\ InIsr(d)
    BY <1>7, PcAfterDoneMoves DEF IsrWalk, InIsr, MovesWithin, TypeOK, ThreadTypes
  <2>2. SemHeld' /\ Others
    BY <1>1, <2>1
  <2>3. CASE IsrLeave(d)
    BY <1>3, <2>1, <2>2, <2>3 DEF LockOwners
  <2>4. CASE /\ \/ isr' = [isr EXCEPT ![d].at = "curr"]
                \/ isr' = [isr EXCEPT ![d].node = WalkNext(d)]
             /\ UNCHANGED lock
    <3>1. InIsr(d)' /\ \A e \in Devs \ {d} : isr'[e] = isr[e]
      BY <2>1, <2>4 DEF InIsr, TypeOK, DevTypes, IsrRecord
    <3> QED
      BY <1>4, <2>1, <2>2, <2>4, <3>1 DEF LockOwners
  <2> QED
    BY <1>7, <2>3, <2>4 DEF IsrWalk
<1>8. CASE IsrAbort(d)
  <2>1. MovesWithin(pc, pc') /\ UNCHANGED <<moduleSem, dev>> /\ InIsr(d) /\ IsrLeave(d)
    BY <1>8, PcAfterDoneMoves, AbortWokenMoves DEF IsrAbort, InIsr
  <2>2. SemHeld' /\ Others
    BY <1>1, <2>1
  <2> QED
    BY <1>3, <2>1, <2>2 DEF LockOwners
<1>9. CASE IsrBusErr(d)
  <2>1. MovesWithin(pc, pc') /\ UNCHANGED <<moduleSem, dev>> /\ InIsr(d) /\ IsrLeave(d)
    BY <1>9, PcAfterDoneMoves DEF IsrBusErr, InIsr
  <2>2. SemHeld' /\ Others
    BY <1>1, <2>1
  <2> QED
    BY <1>3, <2>1, <2>2 DEF LockOwners
<1>10. CASE IsrCmdErr(d)
  <2>1. /\ MovesWithin(pc, pc') /\ UNCHANGED <<moduleSem, dev>> /\ InIsr(d)
        /\ isr' = [isr EXCEPT ![d].at = "start"] /\ UNCHANGED lock
    BY <1>10, PcAfterDoneMoves DEF IsrCmdErr, InIsr
  <2>2. SemHeld' /\ Others
    BY <1>1, <2>1
  <2>3. InIsr(d)' /\ \A e \in Devs \ {d} : isr'[e] = isr[e]
    BY <2>1 DEF InIsr, TypeOK, DevTypes, IsrRecord
  <2> QED
    BY <1>4, <2>1, <2>2, <2>3 DEF LockOwners
<1>11. CASE IsrDone(d)
  <2>1. MovesWithin(pc, pc') /\ UNCHANGED <<moduleSem, dev>> /\ InIsr(d)
    BY <1>11, PcAfterDoneMoves DEF IsrDone, InIsr
  <2>2. SemHeld' /\ Others
    BY <1>1, <2>1
  <2>3. CASE /\ isr' = [isr EXCEPT ![d].at = "start"]
             /\ UNCHANGED lock
    <3>1. InIsr(d)' /\ \A e \in Devs \ {d} : isr'[e] = isr[e]
      BY <2>3 DEF InIsr, TypeOK, DevTypes, IsrRecord
    <3> QED
      BY <1>4, <2>1, <2>2, <2>3, <3>1 DEF LockOwners
  <2>4. CASE IsrLeave(d)
    BY <1>3, <2>1, <2>2, <2>4 DEF LockOwners
  <2> QED
    BY <1>11, <2>3, <2>4 DEF IsrDone
<1>12. CASE IsrStart(d)
  <2>1. SemHeld' /\ Others /\ InIsr(d) /\ IsrLeave(d)
    BY <1>2, <1>12 DEF IsrStart, InIsr
  <2> QED
    BY <1>3, <2>1 DEF LockOwners
<1> QED
  BY <1>5, <1>6, <1>7, <1>8, <1>9, <1>10, <1>11, <1>12 DEF Isr

LEMMA HwLocks ==
  ASSUME LockOwners, NEW d \in Devs, KthreadBusErr(d) \/ Hw(d)
  PROVE  LockOwners'
<1>1. UNCHANGED <<pc, dev, lock, isr, moduleSem>>
  BY DEF KthreadBusErr, Hw, HwFinish, HwAbortStalled, HwError, devVars, threadVars
<1> QED
  BY <1>1, PcsKeptLocks

LEMMA InitLocks == Init => LockOwners
BY DEF Init, LockOwners, LocksHeld, SemHeld, Holds, IsrIdle, SemPcs,
       HoldsLock, LinkPcs, DropPcs

LEMMA NextLocks ==
  ASSUME TypeOK, LockOwners, [Next]_vars PROVE LockOwners'
<1>1. ASSUME NEW t \in Threads, InCall(t) PROVE LockOwners'
  BY <1>1, InCallLocks, LinkLocks, DropLocks DEF InCall
<1>2. ASSUME NEW t \in Threads, Calls(t) \/ Signals(t) PROVE LockOwners'
  BY <1>2, CallLocks
<1>3. ASSUME NEW d \in Devs, Isr(d) \/ KthreadBusErr(d) \/ Hw(d) PROVE LockOwners'
  BY <1>3, IsrLocks, HwLocks
<1>4. CASE UNCHANGED vars
  <2>1. UNCHANGED <<pc, dev, lock, isr, moduleSem>>
    BY <1>4 DEF vars, devVars, threadVars
  <2> QED
    BY <2>1, PcsKeptLocks
<1> QED
  BY <1>1, <1>2, <1>3, <1>4 DEF Next

LEMMA SafetyLocks == Safety => []LockOwners
BY InitLocks, NextLocks, SafetyTypes, PTL DEF Safety

(* The spinlock of each device is held by the interrupt routine exactly    *)
(* while that is inside, or by the one thread that is in a section, and    *)
(* the semaphore of the module by the one call that has passed its down:   *)
(* in every behaviour, whatever the calls and the interrupts interleave.   *)
THEOREM LocksOwned == Spec => []LockOwners
<1> QED
  BY SafetyLocks, PTL DEF Spec

---------------------------------------------------------------------------
(* What DROP_OWNER and close leave.  The last loop of drop_release_cmdbufs *)
(* looks at each cmdbuf once and without a lock, while other threads, the  *)
(* interrupt routine and other processes go on: what it has looked at must *)
(* not become one it should have returned.                                 *)

(* A decoder instance is driven by one thread, which drops its owner; only *)
(* a listener of the same instance may be in another call meanwhile.       *)
OneDriver == \A t \in Droppers, u \in Threads \ Listeners :
               ProcOf[u] = ProcOf[t] /\ OwnerOf[u] = OwnerOf[t] => u = t

Left(t, o) == po[o] = ProcOf[t] /\ OfOwner(t, o)
SeenOk(t) ==
  Dropping(t) =>
    /\ pc[t] = "dropSem" => drop[t].toSee = Objs
    /\ \A o \in Objs \ drop[t].toSee : Left(t, o) =>
         \/ drop[t].owner # Nil /\ runDone[o]
         \/ pc[t] = "dropReturn" /\ job[t] = o

CallerOk(t) ==
  /\ ~Dropping(t) => drop[t].owner = Nil
  /\ drop[t].owner # Nil => t \in Droppers /\ drop[t].owner = OwnerOf[t]
  /\ pc[t] \in {"resWait", "resTake"} => t \notin Listeners

Closes(t) == Dropping(t) /\ drop[t].owner = Nil
ClosesAlone(t) ==
  Closes(t) => \A u \in Threads \ {t} : ProcOf[u] = ProcOf[t] => pc[u] = "user"

DropInv == \A t \in Threads : CallerOk(t) /\ ClosesAlone(t) /\ SeenOk(t)

(* A step of one thread leaves the calls of the others, but for waking.    *)
OtherCall(u) ==
  /\ drop'[u] = drop[u] /\ job'[u] = job[u]
  /\ \/ pc'[u] = pc[u]
     \/ pc[u] = "asleep" /\ pc'[u] = "waiting"
     \/ pc[u] = "dropAsleep" /\ pc'[u] = "dropWait"

LEMMA OtherCalls ==
  ASSUME TypeOK, NEW t \in Threads, InCall(t) \/ Calls(t) \/ Signals(t)
  PROVE  \A u \in Threads \ {t} : OtherCall(u)
<1>0. /\ pc \in [Threads -> Locs] /\ job \in [Threads -> Objs \cup {Nil}]
      /\ drop \in [Threads -> DropRecord]
  BY DEF TypeOK, ThreadTypes
<1> USE DEF OtherCall, threadVars
<1>1. CASE \/ ReserveWait(t) \/ ReserveTake(t) \/ ReserveInterrupted(t)
           \/ \E w \in Workloads : ReserveCharge(t, w)
  BY <1>0, <1>1 DEF ReserveCharge, ReserveWait, ReserveTake, ReserveInterrupted
<1>2. CASE Link(t) \/ LinkInterrupted(t) \/ \E o \in Objs : LinkCall(t, o)
  BY <1>0, <1>2 DEF Link, LinkSem, LinkScan, LinkLeastLoaded, LinkKick, LinkPrev, LinkCall,
     LinkInterrupted
<1>3. CASE \/ Wait(t) \/ WaitAny(t) \/ WaitInterrupted(t) \/ \E o \in Objs : WaitJob(t, o)
  BY <1>0, <1>3 DEF Wait, WaitGot, WaitNothing, WaitSleep, WaitAny, WaitInterrupted, WaitJob
<1>4. CASE Release(t) \/ \E o \in Objs : ReleaseCall(t, o)
  BY <1>0, <1>4 DEF Release, ReleaseAccount, ReleaseLock, ReleaseCall
<1>5. CASE DropCall(t) \/ CloseCall(t) \/ DropInterrupted(t) \/ DropSem(t) \/ DropDev(t)
           \/ DropAbort(t) \/ DropWait(t) \/ DropPoll(t) \/ DropRelock(t)
  BY <1>0, <1>5 DEF DropCall, CloseCall, DropInterrupted, DropSem, DropDev, DropAbort,
     DropWait, DropPoll, DropRelock
<1>6. CASE DropWalk(t) \/ DropStart(t) \/ DropReturn(t) \/ \E o \in Objs : DropFind(t, o)
  BY <1>0, <1>6 DEF DropWalk, DropStart, DropReturn, DropFind
<1>7. CASE DropEnd(t)
  <2> DEFINE pcs == [pc EXCEPT ![t] = "user"]
  <2>1. pc' = pcs \/ pc' = Woken(pcs, ProcOf[t])
    BY <1>7 DEF DropEnd
  <2>2. \A u \in Threads \ {t} : pcs[u] = pc[u]
    BY <1>0
  <2>3. \A u \in Threads \ {t} : pc'[u] = pc[u] \/ (pc[u] = "asleep" /\ pc'[u] = "waiting")
    BY <2>1, <2>2 DEF Woken
  <2>4. drop' = [drop EXCEPT ![t] = NoDrop] /\ UNCHANGED job
    BY <1>7 DEF DropEnd
  <2> QED
    BY <1>0, <2>3, <2>4
<1> QED
  BY <1>1, <1>2, <1>3, <1>4, <1>5, <1>6, <1>7 DEF InCall, Calls, Signals, Drop

(* A thread that is not in a call makes one only while its descriptor is   *)
(* not being closed.                                                       *)
LEMMA NoCallWhileClosing ==
  ASSUME NEW t \in Threads, InCall(t) \/ Calls(t) \/ Signals(t), pc[t] = "user"
  PROVE  Calls(t) /\ ~Closing(ProcOf[t])
<1>1. ~InCall(t) /\ ~Signals(t)
  BY DEF InCall, Signals, Link, Wait, Release, Drop, ReserveWait, ReserveTake, LinkSem,
     LinkScan, LinkLeastLoaded, LinkKick, LinkPrev, WaitGot, WaitNothing, WaitSleep,
     ReleaseAccount, ReleaseLock, DropSem, DropDev, DropAbort, DropWait, DropPoll,
     DropRelock, DropWalk, DropStart, DropFind, DropReturn, DropEnd, ReserveInterrupted,
     LinkInterrupted, WaitInterrupted, DropInterrupted
<1>2. Calls(t) => MayCall(t)
  BY DEF Calls, ReserveCharge, LinkCall, WaitJob, ReleaseCall, WaitAny, DropCall, CloseCall,
     Enters
<1> QED
  BY <1>1, <1>2 DEF MayCall

(* No step gives a thread that drops a cmdbuf it has to return.            *)
NoNewLeft(t) ==
  \A o \in Objs : po'[o] = ProcOf[t] /\ drop[t].owner \in {Nil, owner'[o]} =>
    Left(t, o) /\ (runDone[o] => runDone'[o])

LEMMA ReturnedLeft ==
  ASSUME TypeOK, NEW t \in Threads, UNCHANGED owner,
         \A o \in Objs : po'[o] = po[o] \/ po'[o] = Nil,
         \A o \in Objs : runDone[o] => runDone'[o]
  PROVE  NoNewLeft(t)
BY DEF NoNewLeft, Left, OfOwner

LEMMA StepsNoNewLeft ==
  ASSUME TypeOK, OneDriver, DropInv, NEW t \in Threads, Dropping(t),
         NEW v \in Threads, InCall(v) \/ Calls(v) \/ Signals(v)
  PROVE  NoNewLeft(t)
<1>0. /\ po \in [Objs -> Procs \cup {Nil}] /\ owner \in [Objs -> Owners \cup {Nil}]
      /\ runDone \in [Objs -> BOOLEAN]
  BY DEF TypeOK, ObjTypes
<1>1. CASE ReserveTake(v)
  <2>1. PICK o \in Objs : /\ po' = [po EXCEPT ![o] = ProcOf[v]]
                          /\ owner' = [owner EXCEPT ![o] = OwnerOf[v]]
                          /\ runDone' = [runDone EXCEPT ![o] = FALSE]
    BY <1>1 DEF ReserveTake, TypeOK, PoolTypes
  <2>2. pc[v] = "resTake" /\ v # t /\ v \notin Listeners
    BY <1>1 DEF ReserveTake, Dropping, DropPcs, DropInv, CallerOk
  <2>3. ~(ProcOf[v] = ProcOf[t] /\ drop[t].owner \in {Nil, OwnerOf[v]})
    <3> SUFFICES ASSUME ProcOf[v] = ProcOf[t], drop[t].owner \in {Nil, OwnerOf[v]}
                 PROVE  FALSE
      OBVIOUS
    <3>1. CASE drop[t].owner = Nil
      BY <2>2, <3>1 DEF DropInv, ClosesAlone, Closes
    <3>2. CASE drop[t].owner # Nil
      BY <2>2, <3>2 DEF DropInv, CallerOk, OneDriver
    <3> QED
      BY <3>1, <3>2
  <2>4. po'[o] = ProcOf[v] /\ owner'[o] = OwnerOf[v]
    BY <1>0, <2>1
  <2>5. \A x \in Objs \ {o} : po'[x] = po[x] /\ owner'[x] = owner[x] /\ runDone'[x] = runDone[x]
    BY <1>0, <2>1
  <2> QED
    BY <2>3, <2>4, <2>5 DEF NoNewLeft, Left, OfOwner
<1>2. ASSUME NEW o \in Objs, ReleaseCall(v, o) PROVE NoNewLeft(t)
  <2>1. UNCHANGED runDone /\ (UNCHANGED <<po, owner>> \/ owner' = [owner EXCEPT ![o] = Nil])
    BY <1>2 DEF ReleaseCall
  <2>2. CASE UNCHANGED <<po, owner>>
    BY <2>1, <2>2, ReturnedLeft
  <2>3. CASE ~UNCHANGED <<po, owner>> /\ owner' = [owner EXCEPT ![o] = Nil]
    <3>1. po[o] = ProcOf[v] /\ (po' = po \/ po' = [po EXCEPT ![o] = Nil])
      BY <1>2, <2>3 DEF ReleaseCall, ReturnCmdbuf
    <3>2. owner'[o] = Nil /\ \A x \in Objs \ {o} : owner'[x] = owner[x]
      BY <1>0, <2>3
    <3>3. (po'[o] = po[o] \/ po'[o] = Nil) /\ \A x \in Objs \ {o} : po'[x] = po[x]
      BY <1>0, <3>1
    <3>4. pc[v] = "user" /\ ~Closing(ProcOf[v])
      BY <1>2 DEF ReleaseCall, Enters, MayCall
    <3>5. ~(ProcOf[v] = ProcOf[t] /\ drop[t].owner = Nil)
      BY <3>4 DEF Closing
    <3> QED
      BY <2>1, <3>1, <3>2, <3>3, <3>5 DEF NoNewLeft, Left, OfOwner
  <2> QED
    BY <2>1, <2>2, <2>3
<1>3. CASE ~ReserveTake(v) /\ ~\E o \in Objs : ReleaseCall(v, o)
  <2>1. UNCHANGED <<owner, runDone>> /\ (UNCHANGED po \/ \E o : ReturnCmdbuf(o))
    <3> USE DEF objVars
    <3>1. CASE \/ ReserveWait(v) \/ ReserveInterrupted(v)
               \/ \E w \in Workloads : ReserveCharge(v, w)
      BY <3>1 DEF ReserveCharge, ReserveWait, ReserveInterrupted
    <3>2. CASE Link(v) \/ LinkInterrupted(v) \/ \E o \in Objs : LinkCall(v, o)
      BY <3>2 DEF Link, LinkSem, LinkScan, LinkLeastLoaded, LinkKick, LinkPrev, LinkCall,
         LinkInterrupted, RemoveJob
    <3>3. CASE \/ Wait(v) \/ WaitAny(v) \/ WaitInterrupted(v) \/ \E o \in Objs : WaitJob(v, o)
      BY <3>3 DEF Wait, WaitGot, WaitNothing, WaitSleep, WaitAny, WaitInterrupted, WaitJob
    <3>4. CASE Release(v)
      BY <3>4 DEF Release, ReleaseAccount, ReleaseLock, RemoveJob
    <3>5. CASE \/ DropCall(v) \/ CloseCall(v) \/ DropInterrupted(v) \/ DropSem(v)
               \/ DropDev(v) \/ DropAbort(v) \/ DropWait(v) \/ DropPoll(v) \/ DropRelock(v)
      BY <3>5 DEF DropCall, CloseCall, DropInterrupted, DropSem, DropDev, DropAbort,
         DropWait, DropPoll, DropRelock
    <3>6. CASE \/ DropWalk(v) \/ DropStart(v) \/ DropReturn(v) \/ DropEnd(v)
               \/ \E o \in Objs : DropFind(v, o)
      BY <3>6 DEF DropWalk, DropStart, DropReturn, DropFind, DropEnd, RemoveJob
    <3> QED
      BY <1>3, <3>1, <3>2, <3>3, <3>4, <3>5, <3>6 DEF InCall, Calls, Signals, Drop
  <2>2. \A o \in Objs : po'[o] = po[o] \/ po'[o] = Nil
    BY <1>0, <2>1 DEF ReturnCmdbuf
  <2> QED
    BY <2>1, <2>2, ReturnedLeft
<1> QED
  BY <1>1, <1>2, <1>3

(* A thread whose call is left alone keeps what it has seen.               *)
LEMMA OthersSeen ==
  ASSUME TypeOK, NEW t \in Threads, OtherCall(t), SeenOk(t), Dropping(t) => NoNewLeft(t)
  PROVE  SeenOk(t)'
<1>1. Dropping(t)' <=> Dropping(t)
  BY DEF OtherCall, Dropping, DropPcs
<1>2. /\ pc'[t] = "dropSem" <=> pc[t] = "dropSem"
      /\ pc'[t] = "dropReturn" <=> pc[t] = "dropReturn"
      /\ drop'[t] = drop[t] /\ job'[t] = job[t]
  BY DEF OtherCall
<1> QED
  BY <1>1, <1>2 DEF SeenOk, NoNewLeft, Left, OfOwner

LEMMA OthersCaller ==
  ASSUME NEW t \in Threads, OtherCall(t), CallerOk(t)
  PROVE  CallerOk(t)'
BY DEF OtherCall, CallerOk, Dropping, DropPcs

(* The steps of the thread itself.                                         *)
LEMMA OwnSeen ==
  ASSUME TypeOK, DropInv, NEW t \in Threads, InCall(t) \/ Calls(t) \/ Signals(t),
         Dropping(t) => NoNewLeft(t)
  PROVE  SeenOk(t)' /\ CallerOk(t)'
<1>0. /\ pc \in [Threads -> Locs] /\ job \in [Threads -> Objs \cup {Nil}]
      /\ drop \in [Threads -> DropRecord] /\ po \in [Objs -> Procs \cup {Nil}]
      /\ CallerOk(t) /\ SeenOk(t)
  BY DEF TypeOK, ThreadTypes, ObjTypes, DropInv
<1>1. CASE ~Dropping(t) /\ pc'[t] \notin DropPcs /\ UNCHANGED drop
           /\ (pc'[t] \in {"resWait", "resTake"} =>
                 pc[t] \in {"resWait", "resTake"} \/ t \notin Listeners)
  BY <1>0, <1>1 DEF SeenOk, CallerOk, Dropping
<1>2. CASE \/ ReserveWait(t) \/ ReserveTake(t) \/ ReserveInterrupted(t)
           \/ \E w \in Workloads : ReserveCharge(t, w)
  BY <1>0, <1>1, <1>2 DEF ReserveCharge, ReserveWait, ReserveTake, ReserveInterrupted,
     Dropping, DropPcs, MayCall
<1>3. CASE Link(t) \/ LinkInterrupted(t) \/ \E o \in Objs : LinkCall(t, o)
  BY <1>0, <1>1, <1>3 DEF Link, LinkSem, LinkScan, LinkLeastLoaded, LinkKick, LinkPrev,
     LinkCall, LinkInterrupted, Dropping, DropPcs, Enters, MayCall
<1>4. CASE \/ Wait(t) \/ WaitAny(t) \/ WaitInterrupted(t) \/ \E o \in Objs : WaitJob(t, o)
  BY <1>0, <1>1, <1>4 DEF Wait, WaitGot, WaitNothing, WaitSleep, WaitAny, WaitInterrupted,
     WaitJob, Dropping, DropPcs, MayCall
<1>5. CASE Release(t) \/ \E o \in Objs : ReleaseCall(t, o)
  BY <1>0, <1>1, <1>5 DEF Release, ReleaseAccount, ReleaseLock, ReleaseCall, Dropping,
     DropPcs, Enters, MayCall
<1>6. CASE DropCall(t) \/ CloseCall(t)
  <2>1. /\ pc'[t] = "dropSem" /\ drop'[t].toSee = Objs
        /\ ~Dropping(t) /\ drop[t].owner = Nil
        /\ \/ drop'[t].owner = Nil
           \/ drop'[t].owner = OwnerOf[t] /\ t \in Droppers
    <3>1. pc'[t] = "dropSem" /\ ~Dropping(t) /\ drop[t].owner = Nil
      BY <1>0, <1>6 DEF DropCall, CloseCall, Enters, MayCall, Dropping, DropPcs, CallerOk
    <3>2. CASE DropCall(t)
      <4>1. PICK r : r = [NoDrop EXCEPT !.owner = OwnerOf[t], !.toSee = Objs]
        OBVIOUS
      <4>2. r.owner = OwnerOf[t] /\ r.toSee = Objs
        BY <4>1 DEF NoDrop
      <4>3. drop'[t] = r /\ t \in Droppers
        BY <1>0, <3>2, <4>1 DEF DropCall
      <4> QED
        BY <3>1, <4>2, <4>3
    <3>3. CASE CloseCall(t)
      <4>1. drop'[t] = [drop[t] EXCEPT !.toSee = Objs] /\ drop[t] \in DropRecord
        BY <1>0, <3>3 DEF CloseCall
      <4>2. drop'[t].owner = drop[t].owner /\ drop'[t].toSee = Objs
        BY <4>1 DEF DropRecord
      <4> QED
        BY <3>1, <4>2
    <3> QED
      BY <1>6, <3>2, <3>3
  <2> QED
    BY <2>1 DEF SeenOk, CallerOk, Dropping, DropPcs
<1>7. CASE /\ Dropping(t) /\ pc'[t] \in DropPcs \ {"dropSem", "dropReturn"}
           /\ pc[t] # "dropReturn"
           /\ drop'[t].owner = drop[t].owner /\ drop'[t].toSee = drop[t].toSee
  BY <1>0, <1>7 DEF SeenOk, CallerOk, Dropping, DropPcs, NoNewLeft, Left, OfOwner
<1>8. CASE DropSem(t) \/ DropDev(t) \/ DropAbort(t) \/ DropWait(t) \/ DropPoll(t)
  BY <1>0, <1>7, <1>8 DEF DropSem, DropDev, DropAbort, DropWait, DropPoll, Dropping, DropPcs
<1>9. CASE DropRelock(t) \/ DropStart(t)
  <2>1. \/ UNCHANGED drop
        \/ \E b : drop' = [drop EXCEPT ![t].aborted = b]
    BY <1>9 DEF DropRelock, DropStart
  <2>2. drop'[t].owner = drop[t].owner /\ drop'[t].toSee = drop[t].toSee
    BY <1>0, <2>1 DEF DropRecord
  <2> QED
    BY <1>0, <1>7, <1>9, <2>2 DEF DropRelock, DropStart, Dropping, DropPcs
<1>10. CASE DropWalk(t)
  <2>1. \/ UNCHANGED drop
        \/ drop' = [drop EXCEPT ![t].handled = TRUE]
    BY <1>10 DEF DropWalk
  <2>2. drop'[t].owner = drop[t].owner /\ drop'[t].toSee = drop[t].toSee
    BY <1>0, <2>1 DEF DropRecord
  <2>3. pc[t] = "dropWalk" /\ pc'[t] \in {"dropWalk", "dropStart"}
    BY <1>0, <1>10 DEF DropWalk
  <2> QED
    BY <1>0, <1>7, <2>2, <2>3 DEF Dropping, DropPcs
<1>11. ASSUME NEW o \in Objs, DropFind(t, o) PROVE SeenOk(t)' /\ CallerOk(t)'
  <2>1. drop' = [drop EXCEPT ![t].toSee = @ \ {o}] /\ pc[t] = "dropDev"
        /\ UNCHANGED <<po, owner, runDone>>
    BY <1>11 DEF DropFind, objVars
  <2>2. drop'[t].owner = drop[t].owner /\ drop'[t].toSee = drop[t].toSee \ {o}
    BY <1>0, <2>1 DEF DropRecord
  <2>3. \A x \in Objs \ drop[t].toSee : Left(t, x) => drop[t].owner # Nil /\ runDone[x]
    BY <1>0, <2>1 DEF SeenOk, Dropping, DropPcs
  <2>4. \A x \in Objs : Left(t, x)' <=> Left(t, x)
    BY <2>1, <2>2 DEF Left, OfOwner
  <2>5. CASE ToReturn(t, o)
    <3>1. pc'[t] = "dropReturn" /\ job'[t] = o
      BY <1>0, <1>11, <2>5 DEF DropFind
    <3> QED
      BY <1>0, <2>1, <2>2, <2>3, <2>4, <3>1 DEF SeenOk, CallerOk, Dropping, DropPcs
  <2>6. CASE ~ToReturn(t, o)
    <3>1. pc'[t] = "dropDev"
      BY <1>11, <2>1, <2>6 DEF DropFind
    <3>2. Left(t, o) => drop[t].owner # Nil /\ runDone[o]
      BY <2>6 DEF Left, OfOwner, ToReturn, Droppable
    <3> QED
      BY <1>0, <2>1, <2>2, <2>3, <2>4, <3>1, <3>2 DEF SeenOk, CallerOk, Dropping, DropPcs
  <2> QED
    BY <2>5, <2>6
<1>12. CASE DropReturn(t)
  <2>1. /\ pc[t] = "dropReturn" /\ pc'[t] = "dropDev" /\ UNCHANGED <<drop, owner, runDone>>
        /\ po' = [po EXCEPT ![job[t]] = Nil]
    BY <1>0, <1>12 DEF DropReturn, ReturnCmdbuf
  <2>2. po'[job[t]] = Nil \/ job[t] \notin Objs
    BY <1>0, <2>1
  <2>3. \A x \in Objs : Left(t, x)' => Left(t, x) /\ x # job[t]
    BY <1>0, <2>1, <2>2 DEF Left, OfOwner
  <2> QED
    BY <1>0, <2>1, <2>3 DEF SeenOk, CallerOk, Dropping, DropPcs
<1>13. CASE DropEnd(t) \/ (DropInterrupted(t) /\ drop' = [drop EXCEPT ![t] = NoDrop])
  <2>1. drop' = [drop EXCEPT ![t] = NoDrop]
    BY <1>13 DEF DropEnd
  <2>2. drop'[t].owner = Nil
    BY <1>0, <2>1 DEF NoDrop
  <2>3. pc'[t] = "user" \/ (drop[t].owner = Nil /\ pc[t] = "dropAsleep" /\ pc'[t] = "dropPoll")
    <3> DEFINE pcs == [pc EXCEPT ![t] = "user"]
    <3>1. pcs[t] = "user" /\ Woken(pcs, ProcOf[t])[t] = "user"
      BY <1>0 DEF Woken
    <3>2. CASE DropEnd(t)
      BY <3>1, <3>2 DEF DropEnd
    <3>3. CASE DropInterrupted(t) /\ pc[t] = "dropSem"
      BY <1>0, <3>3 DEF DropInterrupted
    <3>4. CASE DropInterrupted(t) /\ pc[t] = "dropAsleep"
      <4>1. UNCHANGED drop /\ pc'[t] = "dropPoll"
        BY <1>0, <3>4 DEF DropInterrupted
      <4> QED
        BY <2>2, <3>4, <4>1
    <3> QED
      BY <1>13, <3>2, <3>3, <3>4 DEF DropInterrupted
  <2>4. CASE pc'[t] = "user"
    BY <2>2, <2>4 DEF SeenOk, CallerOk, Dropping, DropPcs
  <2>5. CASE pc[t] = "dropAsleep" /\ pc'[t] = "dropPoll" /\ UNCHANGED drop
    BY <1>7, <2>5 DEF Dropping, DropPcs
  <2> QED
    BY <1>0, <1>13, <2>1, <2>3, <2>4, <2>5 DEF DropInterrupted, DropEnd
<1>14. CASE DropInterrupted(t) /\ pc[t] = "dropAsleep"
  <2>1. UNCHANGED drop /\ pc'[t] = "dropPoll"
    BY <1>0, <1>14 DEF DropInterrupted
  <2> QED
    BY <1>7, <1>14, <2>1 DEF Dropping, DropPcs
<1> QED
  BY <1>2, <1>3, <1>4, <1>5, <1>6, <1>8, <1>9, <1>10, <1>11, <1>12, <1>13, <1>14
     DEF InCall, Calls, Signals, Drop, DropInterrupted

(* While a descriptor is being closed, no other thread of it gets going.   *)
LEMMA StepsClose ==
  ASSUME TypeOK, DropInv, NEW v \in Threads, InCall(v) \/ Calls(v) \/ Signals(v),
         NEW t \in Threads
  PROVE  ClosesAlone(t)'
<1>0. \A u \in Threads \ {v} : OtherCall(u)
  BY OtherCalls
<1>1. ASSUME Closes(t) PROVE ClosesAlone(t)'
  <2> SUFFICES ASSUME NEW u \in Threads \ {t}, ProcOf[u] = ProcOf[t] PROVE pc'[u] = "user"
    BY DEF ClosesAlone
  <2>1. pc[u] = "user"
    BY <1>1 DEF DropInv, ClosesAlone
  <2>2. u # v
    <3>1. Closing(ProcOf[u])
      BY <1>1 DEF Closing, Closes
    <3> QED
      BY <2>1, <3>1, NoCallWhileClosing
  <2> QED
    BY <1>0, <2>1, <2>2 DEF OtherCall
<1>2. ASSUME ~Closes(t) PROVE Closes(t)' => t = v /\ CloseCall(t)
  <2> SUFFICES ASSUME Closes(t)' PROVE t = v /\ CloseCall(t)
    OBVIOUS
  <2>1. t = v
    BY <1>0, <1>2 DEF OtherCall, Closes, Dropping, DropPcs
  <2>2. CASE Dropping(t)
    <3>1. drop[t].owner # Nil
      BY <1>2, <2>2 DEF Closes
    <3>2. ~Calls(t)
      BY <2>2 DEF Calls, ReserveCharge, LinkCall, WaitJob, ReleaseCall, WaitAny, DropCall,
         CloseCall, Enters, MayCall, Dropping, DropPcs
    <3>3. drop'[t] = drop[t] \/ drop'[t].owner = drop[t].owner \/ pc'[t] = "user"
      <4>0. /\ pc \in [Threads -> Locs] /\ drop \in [Threads -> DropRecord]
        BY DEF TypeOK, ThreadTypes
      <4>1. CASE DropEnd(t)
        <5> DEFINE pcs == [pc EXCEPT ![t] = "user"]
        <5>1. pcs[t] = "user" /\ Woken(pcs, ProcOf[t])[t] = "user"
          BY <4>0 DEF Woken
        <5> QED
          BY <4>1, <5>1 DEF DropEnd
      <4>2. CASE DropInterrupted(t)
        BY <4>0, <4>2 DEF DropInterrupted
      <4>3. CASE DropSem(t) \/ DropDev(t) \/ DropAbort(t) \/ DropWait(t) \/ DropPoll(t)
                 \/ DropReturn(t)
        BY <4>3 DEF DropSem, DropDev, DropAbort, DropWait, DropPoll, DropReturn
      <4>4. CASE DropRelock(t) \/ DropStart(t) \/ DropWalk(t) \/ \E o \in Objs : DropFind(t, o)
        <5>1. \/ UNCHANGED drop
              \/ \E b : drop' = [drop EXCEPT ![t].aborted = b]
              \/ drop' = [drop EXCEPT ![t].handled = TRUE]
              \/ \E o : drop' = [drop EXCEPT ![t].toSee = @ \ {o}]
          BY <4>4 DEF DropRelock, DropStart, DropWalk, DropFind
        <5> QED
          BY <4>0, <5>1 DEF DropRecord
      <4>5. CASE ~Drop(t) /\ ~DropInterrupted(t)
        BY <2>1, <2>2, <3>2, <4>5 DEF InCall, Signals, Link, Wait, Release, ReserveWait,
           ReserveTake, LinkSem, LinkScan, LinkLeastLoaded, LinkKick, LinkPrev, WaitGot,
           WaitNothing, WaitSleep, ReleaseAccount, ReleaseLock, ReserveInterrupted,
           LinkInterrupted, WaitInterrupted, Dropping, DropPcs
      <4> QED
        BY <4>1, <4>2, <4>3, <4>4, <4>5 DEF Drop
    <3> QED
      BY <3>1, <3>3 DEF Closes, Dropping, DropPcs
  <2>3. CASE ~Dropping(t)
    <3>1. DropCall(t) \/ CloseCall(t)
      <4>0. pc \in [Threads -> Locs]
        BY DEF TypeOK, ThreadTypes
      <4>1. ~Drop(t) /\ ~DropInterrupted(t)
        BY <2>3 DEF Drop, DropSem, DropDev, DropAbort, DropWait, DropPoll, DropRelock,
           DropWalk, DropStart, DropFind, DropReturn, DropEnd, DropInterrupted, Dropping,
           DropPcs
      <4> SUFFICES ASSUME ~DropCall(t), ~CloseCall(t) PROVE pc'[t] \notin DropPcs
        BY DEF Closes, Dropping
      <4>2. CASE \/ ReserveWait(t) \/ ReserveTake(t) \/ ReserveInterrupted(t)
                 \/ \E w \in Workloads : ReserveCharge(t, w)
        BY <4>0, <4>2 DEF ReserveCharge, ReserveWait, ReserveTake, ReserveInterrupted, DropPcs
      <4>3. CASE Link(t) \/ LinkInterrupted(t) \/ \E o \in Objs : LinkCall(t, o)
        BY <4>0, <4>3 DEF Link, LinkSem, LinkScan, LinkLeastLoaded, LinkKick, LinkPrev,
           LinkCall, LinkInterrupted, Enters, MayCall, DropPcs
      <4>4. CASE Wait(t) \/ WaitAny(t) \/ WaitInterrupted(t) \/ \E o \in Objs : WaitJob(t, o)
        BY <4>0, <4>4 DEF Wait, WaitGot, WaitNothing, WaitSleep, WaitAny, WaitInterrupted,
           WaitJob, DropPcs
      <4>5. CASE Release(t) \/ \E o \in Objs : ReleaseCall(t, o)
        BY <4>0, <4>5 DEF Release, ReleaseAccount, ReleaseLock, ReleaseCall, Enters, MayCall,
           DropPcs
      <4> QED
        BY <2>1, <4>1, <4>2, <4>3, <4>4, <4>5 DEF InCall, Calls, Signals
    <3>2. ~DropCall(t)
      <4> SUFFICES ASSUME DropCall(t) PROVE FALSE
        OBVIOUS
      <4>1. PICK r : r = [NoDrop EXCEPT !.owner = OwnerOf[t], !.toSee = Objs]
        OBVIOUS
      <4>2. r.owner = OwnerOf[t]
        BY <4>1 DEF NoDrop
      <4>3. drop'[t] = r
        BY <4>1 DEF DropCall, TypeOK, ThreadTypes
      <4>4. OwnerOf[t] # Nil
        OBVIOUS
      <4> QED
        BY <4>2, <4>3, <4>4 DEF Closes
    <3> QED
      BY <2>1, <3>1, <3>2
  <2> QED
    BY <2>2, <2>3
<1>3. ASSUME t = v, CloseCall(t) PROVE ClosesAlone(t)'
  <2>1. \A u \in Threads \ {t} : ProcOf[u] = ProcOf[t] => pc'[u] = pc[u] /\ pc[u] = "user"
    BY <1>3 DEF CloseCall, TypeOK, ThreadTypes
  <2> QED
    BY <2>1 DEF ClosesAlone
<1>4. ~Closes(t)' => ClosesAlone(t)'
  BY DEF ClosesAlone
<1> QED
  BY <1>1, <1>2, <1>3, <1>4

LEMMA DevicesDrop ==
  ASSUME TypeOK, DropInv, NEW d \in Devs, Isr(d) \/ KthreadBusErr(d) \/ Hw(d)
  PROVE  DropInv' /\ \A t \in Threads : OtherCall(t)
<1>1. /\ UNCHANGED <<drop, job, po, owner>>
      /\ \A o \in Objs : runDone[o] => runDone'[o]
      /\ MovesWithin(pc, pc')
  <2>0. runDone \in [Objs -> BOOLEAN] /\ pc \in [Threads -> Locs]
    BY DEF TypeOK, ObjTypes, ThreadTypes
  <2>1. MovesWithin(pc, pc)
    BY <2>0 DEF MovesWithin
  <2>2. \A st, o, status : ProcessNode(st, d, o, status) =>
          \A x \in Objs : runDone[x] => runDone'[x]
    BY <2>0 DEF ProcessNode
  <2>3. CASE IsrWalk(d)
    <3>1. UNCHANGED <<drop, job, po, owner>>
      BY <2>3 DEF IsrWalk
    <3>2. CASE UNCHANGED <<runDone, pc>>
      BY <2>1, <3>1, <3>2
    <3>3. CASE \E n : ProcessNode(state[d], d, n, "ok") /\ pc' = PcAfterDone(n)
      BY <2>2, <3>1, <3>3, PcAfterDoneMoves
    <3> QED
      BY <2>3, <3>2, <3>3 DEF IsrWalk
  <2>4. CASE IsrAbort(d) \/ IsrBusErr(d) \/ IsrCmdErr(d) \/ IsrDone(d)
    <3>1. UNCHANGED <<drop, job, po, owner>>
      BY <2>4 DEF IsrAbort, IsrBusErr, IsrCmdErr, IsrDone
    <3>2. \E st, status : ProcessNode(st, d, isr[d].curr, status)
      BY <2>4 DEF IsrAbort, IsrBusErr, IsrCmdErr, IsrDone
    <3>3. \/ pc' = PcAfterDone(isr[d].curr)
          \/ pc' = AbortWoken(PcAfterDone(isr[d].curr), d)
      BY <2>4 DEF IsrAbort, IsrBusErr, IsrCmdErr, IsrDone
    <3> QED
      BY <2>2, <3>1, <3>2, <3>3, PcAfterDoneMoves, AbortWokenMoves
  <2>5. CASE \/ IsrEnter(d) \/ IsrRead(d) \/ IsrStart(d) \/ KthreadBusErr(d) \/ Hw(d)
    <3>1. UNCHANGED <<drop, job, po, owner, runDone, pc>>
      BY <2>5 DEF IsrEnter, IsrRead, IsrStart, KthreadBusErr, Hw, HwFinish, HwAbortStalled,
         HwError, objVars, threadVars
    <3> QED
      BY <2>1, <3>1
  <2> QED
    BY <2>3, <2>4, <2>5 DEF Isr
<1>2. \A t \in Threads : OtherCall(t) /\ NoNewLeft(t)
  BY <1>1, ReturnedLeft DEF OtherCall, MovesWithin
<1>3. \A t \in Threads : CallerOk(t)' /\ SeenOk(t)'
  BY <1>2, OthersSeen, OthersCaller DEF DropInv
<1>4. ASSUME NEW t \in Threads PROVE ClosesAlone(t)'
  BY <1>2 DEF DropInv, ClosesAlone, Closes, Dropping, DropPcs, OtherCall
<1> QED
  BY <1>2, <1>3, <1>4 DEF DropInv

LEMMA NextDrop ==
  ASSUME TypeOK, OneDriver, DropInv, [Next]_vars
  PROVE  DropInv'
<1>1. CASE UNCHANGED vars
  BY <1>1 DEF vars, threadVars, objVars, DropInv, CallerOk, ClosesAlone, SeenOk, Closes,
     Dropping, Left, OfOwner
<1>2. ASSUME NEW v \in Threads, InCall(v) \/ Calls(v) \/ Signals(v) PROVE DropInv'
  <2>1. \A t \in Threads : Dropping(t) => NoNewLeft(t)
    BY <1>2, StepsNoNewLeft
  <2>2. \A t \in Threads \ {v} : CallerOk(t)' /\ SeenOk(t)'
    BY <1>2, <2>1, OtherCalls, OthersSeen, OthersCaller DEF DropInv
  <2>3. CallerOk(v)' /\ SeenOk(v)'
    BY <1>2, <2>1, OwnSeen
  <2>4. \A t \in Threads : ClosesAlone(t)'
    BY <1>2, StepsClose
  <2> QED
    BY <2>2, <2>3, <2>4 DEF DropInv
<1>3. ASSUME NEW d \in Devs, Isr(d) \/ KthreadBusErr(d) \/ Hw(d) PROVE DropInv'
  BY <1>3, DevicesDrop
<1> QED
  BY <1>1, <1>2, <1>3 DEF Next

LEMMA InitDrop == Init => DropInv
BY DEF Init, DropInv, CallerOk, ClosesAlone, SeenOk, Closes, Dropping, DropPcs, NoDrop

LEMMA SafetyDrop ==
  ASSUME OneDriver PROVE Safety => []DropInv
BY InitDrop, NextDrop, SafetyTypes, PTL DEF Safety

(* What DropLeavesOnlyDone says of a step.                                 *)
DropsClean ==
  \A t \in Threads : Dropping(t) /\ drop[t].toSee = {} /\ pc'[t] = "user" =>
    \A o \in Owned(ProcOf[t]) : OfOwner(t, o) => drop[t].owner # Nil /\ runDone[o]

(* When DROP_OWNER or close comes back, all the process still has of that  *)
(* owner are cmdbufs that are done, and after a close nothing at all: for  *)
(* any interleaving with the interrupt routine, with the other processes   *)
(* and with the other decoder instances of the process.                    *)
THEOREM DropsLeaveOnlyDone ==
  ASSUME OneDriver PROVE Spec => DropLeavesOnlyDone
<1>1. ASSUME TypeOK, DropInv, [Next]_vars PROVE [DropsClean]_vars
  <2> SUFFICES ASSUME ~UNCHANGED vars, NEW t \in Threads, Dropping(t), drop[t].toSee = {},
                      pc'[t] = "user", NEW o \in Objs, Left(t, o)
               PROVE  drop[t].owner # Nil /\ runDone[o]
    BY DEF DropsClean, Owned, Left
  <2>1. \/ drop[t].owner # Nil /\ runDone[o]
        \/ pc[t] = "dropReturn" /\ job[t] = o
    BY <1>1 DEF DropInv, SeenOk
  <2>2. ASSUME pc[t] = "dropReturn" PROVE FALSE
    <3>0. pc \in [Threads -> Locs]
      BY <1>1 DEF TypeOK, ThreadTypes
    <3>1. CASE \E d \in Devs : Isr(d) \/ KthreadBusErr(d) \/ Hw(d)
      <4>1. OtherCall(t)
        BY <1>1, <3>1, DevicesDrop
      <4> QED
        BY <2>2, <4>1 DEF OtherCall
    <3>2. ASSUME NEW v \in Threads \ {t}, InCall(v) \/ Calls(v) \/ Signals(v) PROVE FALSE
      <4>1. OtherCall(t)
        BY <1>1, <3>2, OtherCalls
      <4> QED
        BY <2>2, <4>1 DEF OtherCall
    <3>3. CASE DropReturn(t)
      BY <2>2, <3>0, <3>3 DEF DropReturn
    <3>4. CASE InCall(t) \/ Calls(t) \/ Signals(t)
      BY <2>2, <3>3, <3>4 DEF InCall, Signals, Link, Wait, Release, ReserveWait,
         ReserveTake, LinkSem, LinkScan, LinkLeastLoaded, LinkKick, LinkPrev, WaitGot,
         WaitNothing, WaitSleep, ReleaseAccount, ReleaseLock, ReserveInterrupted,
         LinkInterrupted, WaitInterrupted, DropInterrupted, Drop, DropSem, DropDev,
         DropAbort, DropWait, DropPoll, DropRelock, DropWalk, DropStart, DropFind, DropEnd,
         Calls, ReserveCharge, LinkCall, WaitJob, ReleaseCall, WaitAny, DropCall,
         CloseCall, Enters, MayCall
    <3> QED
      BY <1>1, <3>1, <3>2, <3>4 DEF Next
  <2> QED
    BY <2>1, <2>2
<1>2. Safety => [][DropsClean]_vars
  BY <1>1, SafetyTypes, SafetyDrop, PTL DEF Safety
<1> QED
  BY <1>2, PTL DEF Spec, DropLeavesOnlyDone, DropsClean
=============================================================================

-------------------------------- MODULE Vcmd --------------------------------
(***************************************************************************)
(* The VCMD engine of the kernel driver, hantro_vcmd.c: processes reserve  *)
(* command buffers, link them into the work list of a device, the device   *)
(* runs them one after the other through the JMP command at the end of     *)
(* each, the interrupt service routine moves the finished ones to the      *)
(* done list of their process, and the process waits for them and releases *)
(* them.                                                                   *)
(*                                                                         *)
(* A step is one section under a spinlock, or one access outside of any    *)
(* lock; the interrupt routine and the walk of DROP_OWNER, whose sections  *)
(* run over a list while unlocked code of other threads goes on, take one  *)
(* step per node and hold lock[d] meanwhile.                               *)
(*                                                                         *)
(* An operator named X_Variant is X with a plausible bug in it.  Nothing   *)
(* uses it; put in the place of X it breaks one of the properties below.   *)
(***************************************************************************)
EXTENDS Integers, Sequences, FiniteSets, SequencesExt, FiniteSetsExt

CONSTANTS
  Objs,          \* the command buffers, objs[SLOT_NUM_CMDBUF]
  Threads,       \* user threads that issue ioctls
  Listeners,     \* those that only wait for any cmdbuf and release it
  Procs,         \* open file descriptors: one proc_obj each
  ProcOf,        \* the process of a thread
  Owners,        \* decoder instances, exchange_parameter.owner
  OwnerOf,       \* the instance a thread works for
  Devs,          \* vcmd devices of the one module type
  DevSeq,        \* module->dev[], the order in which select_vcmd scans them
  Cores,         \* thread -> devices of its core_mask
  Workloads,     \* executing_time of a cmdbuf
  MaxWorkload,   \* PROCESS_MAX_WORKLOAD
  MaxOwned,      \* bound: cmdbufs the clients of a process use at a time
  JmpChoices,    \* has_jmp_cmd values the clients use (FALSE: USE_END_CMD)
  ErrorKinds,    \* bound: error interrupts the hardware raises
  Droppers,      \* threads that may call DROP_OWNER
  Closers,       \* processes that may close their descriptor
  Interrupts,    \* whether signals interrupt the interruptible waits
  Smp,           \* FALSE: one CPU, an interrupt runs before any thread goes on
  SerialCalls,   \* TRUE: no two of link/release/drop/close calls overlap
  Nil            \* NULL

ASSUME ObjsFinite == IsFiniteSet(Objs)
ASSUME ThreadsFinite == IsFiniteSet(Threads)
ASSUME KindsAssumption == ErrorKinds \subseteq {"cmderr", "buserr"}
ASSUME BoolAssumption ==
  /\ Interrupts \in BOOLEAN /\ Smp \in BOOLEAN /\ SerialCalls \in BOOLEAN
  /\ JmpChoices \subseteq BOOLEAN
ASSUME WorkloadAssumption == Workloads \subseteq Nat /\ MaxWorkload \in Nat
ASSUME DevSeqAssumption ==
  /\ DevSeq \in Seq(Devs)
  /\ \A d \in Devs : \E i \in 1..Len(DevSeq) : DevSeq[i] = d
ASSUME MapsAssumption ==
  /\ Listeners \subseteq Threads /\ Droppers \subseteq Threads
  /\ Closers \subseteq Procs
  /\ ProcOf \in [Threads -> Procs] /\ OwnerOf \in [Threads -> Owners]
  /\ Cores \in [Threads -> SUBSET Devs]
  /\ \A t \in Threads : Cores[t] # {}
ASSUME NilAssumption ==
  /\ Nil \notin Objs /\ Nil \notin Procs /\ Nil \notin Devs
  /\ Nil \notin Threads /\ Nil \notin Owners

VARIABLES
  \* free cmdbufs: free_obj_sema and the contents of free_obj_list
  sema, avail,
  \* struct cmdbuf_obj
  po, owner, workload, runDone, exeStatus, linked, needRemove, coreId, hasJmp,
  jmpNext,       \* target of the JMP at the end of the buffer; Nil: RDY = 0
  stale,         \* next/prev left in a node by bi_list_remove_node
  \* struct proc_obj
  totalWorkload, jobDone, inWait,
  \* struct hantrovcmd_dev
  workList, state, lock, busErr, isr,
  \* the hardware
  hw, exeId, memId, irq, abortReq,
  ran,           \* the cmdbufs it has run since they were reserved
  \* threads inside ioctls
  moduleSem, pc, job, want, dev, scan, node, drop,
  \* what the clients know: DWL's view of a cmdbuf and the thread using it
  phase, holder

poolVars == <<sema, avail>>
objVars == <<po, owner, workload, runDone, exeStatus, linked, needRemove,
             coreId, hasJmp, jmpNext, stale>>
procVars == <<totalWorkload, jobDone, inWait>>
devVars == <<workList, state, lock, busErr, isr>>
hwVars == <<hw, exeId, memId, irq, abortReq, ran>>
threadVars == <<moduleSem, pc, job, want, dev, scan, node, drop>>
clientVars == <<phase, holder>>
vars == <<poolVars, objVars, procVars, devVars, hwVars, threadVars, clientVars>>

Err == {"abort", "cmderr", "buserr"}          \* VCMD_IRQ_ERR_MASK
NoPtrs == [next |-> Nil, prev |-> Nil]
NoDrop == [owner |-> Nil, aborted |-> FALSE, handled |-> FALSE, toSee |-> {}]
IsrIdle == [at |-> "out", src |-> {}, curr |-> Nil, node |-> Nil]

Init ==
  /\ sema = Cardinality(Objs) /\ avail = Objs
  /\ po = [o \in Objs |-> Nil]
  /\ owner = [o \in Objs |-> Nil]
  /\ workload = [o \in Objs |-> 0]
  /\ runDone = [o \in Objs |-> FALSE]
  /\ exeStatus = [o \in Objs |-> "ok"]
  /\ linked = [o \in Objs |-> FALSE]
  /\ needRemove = [o \in Objs |-> FALSE]
  /\ coreId = [o \in Objs |-> Nil]
  /\ hasJmp = [o \in Objs |-> TRUE]
  /\ jmpNext = [o \in Objs |-> Nil]
  /\ stale = [o \in Objs |-> NoPtrs]
  /\ totalWorkload = [p \in Procs |-> 0]
  /\ jobDone = [p \in Procs |-> <<>>]
  /\ inWait = [p \in Procs |-> FALSE]
  /\ workList = [d \in Devs |-> <<>>]
  /\ state = [d \in Devs |-> "power_on"]
  /\ lock = [d \in Devs |-> "free"]
  /\ busErr = [d \in Devs |-> FALSE]
  /\ isr = [d \in Devs |-> IsrIdle]
  /\ hw = [d \in Devs |-> "off"]
  /\ exeId = [d \in Devs |-> Nil]
  /\ memId = [d \in Devs |-> Nil]
  /\ irq = [d \in Devs |-> {}]
  /\ abortReq = [d \in Devs |-> FALSE]
  /\ ran = {}
  /\ moduleSem = Nil
  /\ pc = [t \in Threads |-> "user"]
  /\ job = [t \in Threads |-> Nil]
  /\ want = [t \in Threads |-> 0]
  /\ dev = [t \in Threads |-> Nil]
  /\ scan = [t \in Threads |-> 1]
  /\ node = [t \in Threads |-> Nil]
  /\ drop = [t \in Threads |-> NoDrop]
  /\ phase = [o \in Objs |-> "none"]
  /\ holder = [o \in Objs |-> Nil]

---------------------------------------------------------------------------
(* Work lists.  A node on a list has its neighbours as next and prev; one  *)
(* that was removed keeps the pointers it had, until it is reserved again. *)

On(s, o) == \E i \in 1..Len(s) : s[i] = o
Pos(s, o) == CHOOSE i \in 1..Len(s) : s[i] = o
Without(s, o) == IF On(s, o) THEN RemoveAt(s, Pos(s, o)) ELSE s
ItemAt(s, i) == IF i \in 1..Len(s) THEN s[i] ELSE Nil

NextOf(d, o) == IF On(workList[d], o)
                THEN ItemAt(workList[d], Pos(workList[d], o) + 1)
                ELSE stale[o].next
PrevOf(d, o) == IF On(workList[d], o)
                THEN ItemAt(workList[d], Pos(workList[d], o) - 1)
                ELSE stale[o].prev

(* dev_delink_job takes the node off the list and sets the JMP of its      *)
(* predecessor to its successor; the caller says what dev->state is.       *)
CanDelink_Always(st, d, o) == TRUE
CanDelink(st, d, o) ==
  st # "working" \/ ~hasJmp[o] \/ NextOf(d, o) # Nil

Relink(p, n) == IF p # Nil /\ hasJmp[p] THEN [jmpNext EXCEPT ![p] = n]
                                        ELSE jmpNext

Unlink_KeepsFlag(d, o) ==
  LET p == PrevOf(d, o)
      n == NextOf(d, o)
  IN /\ jmpNext' = Relink(p, n)
     /\ stale' = [stale EXCEPT ![o] = [next |-> n, prev |-> p]]
     /\ workList' = [workList EXCEPT ![d] = Without(@, o)]
     /\ UNCHANGED linked

Unlink_ClearsPointers(d, o) ==
  /\ jmpNext' = Relink(PrevOf(d, o), NextOf(d, o))
  /\ stale' = [stale EXCEPT ![o] = NoPtrs]
  /\ workList' = [workList EXCEPT ![d] = Without(@, o)]
  /\ linked' = [linked EXCEPT ![o] = FALSE]

Unlink(d, o) ==
  LET p == PrevOf(d, o)
      n == NextOf(d, o)
  IN /\ jmpNext' = Relink(p, n)
     /\ stale' = [stale EXCEPT ![o] = [next |-> n, prev |-> p]]
     /\ workList' = [workList EXCEPT ![d] = Without(@, o)]
     /\ linked' = [linked EXCEPT ![o] = FALSE]

(* return_cmdbuf, with the list access atomic (CmdbufPool refines it).     *)
ReturnCmdbuf(o) ==
  /\ po' = [po EXCEPT ![o] = Nil]
  /\ avail' = avail \cup {o}
  /\ sema' = sema + 1

(* dev_remove_job: de-link, and return the cmdbuf if that succeeded.       *)
RemoveJob_AlwaysReturns(d, o) ==
  /\ ReturnCmdbuf(o)
  /\ IF linked[o] /\ CanDelink(state[d], d, o) THEN Unlink(d, o)
     ELSE UNCHANGED <<jmpNext, stale, workList, linked>>

RemoveJob(d, o) ==
  IF linked[o] /\ ~CanDelink(state[d], d, o)
  THEN UNCHANGED <<po, poolVars, jmpNext, stale, workList, linked>>
  ELSE /\ ReturnCmdbuf(o)
       /\ IF linked[o] THEN Unlink(d, o)
          ELSE UNCHANGED <<jmpNext, stale, workList, linked>>

(* dev_add_job: to the tail, and behind the JMP of the old tail.           *)
AddJob_NoCore(d, o) ==
  /\ jmpNext' = Relink(ItemAt(workList[d], Len(workList[d])), o)
  /\ workList' = [workList EXCEPT ![d] = Append(@, o)]
  /\ linked' = [linked EXCEPT ![o] = TRUE]
  /\ UNCHANGED coreId

AddJob_AtHead(d, o) ==
  /\ jmpNext' = Relink(ItemAt(workList[d], Len(workList[d])), o)
  /\ workList' = [workList EXCEPT ![d] = <<o>> \o @]
  /\ coreId' = [coreId EXCEPT ![o] = d]
  /\ linked' = [linked EXCEPT ![o] = TRUE]

AddJob(d, o) ==
  /\ jmpNext' = Relink(ItemAt(workList[d], Len(workList[d])), o)
  /\ workList' = [workList EXCEPT ![d] = Append(@, o)]
  /\ coreId' = [coreId EXCEPT ![o] = d]
  /\ linked' = [linked EXCEPT ![o] = TRUE]

(* vcmd_start: from the first job that is not done, if there is one.       *)
Pending(d) == {i \in 1..Len(workList[d]) : ~runDone[workList[d][i]]}
StartDev(d) ==
  IF state[d] = "working" \/ Pending(d) = {}
  THEN UNCHANGED <<state, hw, exeId, abortReq>>
  ELSE \E first \in Pending(d) :
         /\ \A j \in Pending(d) : first <= j
         /\ state' = [state EXCEPT ![d] = "working"]
         /\ hw' = [hw EXCEPT ![d] = "run"]
         /\ exeId' = [exeId EXCEPT ![d] = workList[d][first]]
         /\ abortReq' = [abortReq EXCEPT ![d] = FALSE]

(* Writing RDY_CMDBUF_COUNT: a device stalled at a JMP reads it again.     *)
Doorbell(d) ==
  /\ IF hw[d] = "stall" /\ jmpNext[exeId[d]] # Nil
     THEN /\ hw' = [hw EXCEPT ![d] = "run"]
          /\ exeId' = [exeId EXCEPT ![d] = jmpNext[exeId[d]]]
     ELSE UNCHANGED <<hw, exeId>>
  /\ UNCHANGED <<state, abortReq>>

(* wake_up_interruptible_all on a process's job_waitq, and on abort_waitq.  *)
Woken(pcs, p) ==
  [t \in Threads |-> IF pcs[t] = "asleep" /\ ProcOf[t] = p THEN "waiting"
                     ELSE pcs[t]]

AbortWoken_Nobody(pcs, d) == pcs
AbortWoken(pcs, d) ==
  [t \in Threads |-> IF pcs[t] = "dropAsleep" /\ dev[t] = d THEN "dropWait"
                     ELSE pcs[t]]

(* return_process_resource.                                                *)
ReturnResource_Leaks(o) ==
  /\ workload' = [workload EXCEPT ![o] = 0]
  /\ UNCHANGED totalWorkload

ReturnResource_Swapped(o) ==
  IF po[o] = Nil THEN UNCHANGED <<totalWorkload, workload>>
  ELSE /\ workload' = [workload EXCEPT ![o] = @ - totalWorkload[po[o]]]
       /\ totalWorkload' = [totalWorkload EXCEPT ![po[o]] = 0]

ReturnResource(o) ==
  IF po[o] = Nil THEN UNCHANGED <<totalWorkload, workload>>
  ELSE /\ totalWorkload' = [totalWorkload EXCEPT ![po[o]] = @ - workload[o]]
       /\ workload' = [workload EXCEPT ![o] = 0]

---------------------------------------------------------------------------
(* Scheduling.  The bounds Smp and SerialCalls close windows between       *)
(* threads; with Smp and without SerialCalls all of them are open.         *)

HoldsLock == {"linkPrev", "dropWalk", "dropStart"}
LinkPcs == {"linkSem", "linkScan", "linkKick", "linkPrev"}
ReleasePcs == {"relAccount", "relLock"}
DropPcs == {"dropSem", "dropDev", "dropAbort", "dropWait", "dropAsleep",
            "dropPoll", "dropRelock", "dropWalk", "dropStart", "dropReturn"}
Quiet == \A d \in Devs : irq[d] = {} /\ isr[d].at = "out"
Runs(t) == Smp \/ Quiet \/ pc[t] \in HoldsLock
Overlaps(t) == \E u \in Threads \ {t} :
                 pc[u] \in LinkPcs \cup ReleasePcs \cup DropPcs
Dropping(t) == pc[t] \in DropPcs
Closing(p) == \E t \in Threads :
                ProcOf[t] = p /\ Dropping(t) /\ drop[t].owner = Nil

(* A thread may enter an ioctl unless its descriptor is being closed.      *)
MayCall(t) == pc[t] = "user" /\ Runs(t) /\ ~Closing(ProcOf[t])
Enters(t) == MayCall(t) /\ (SerialCalls => ~Overlaps(t))

Goto(t, loc) == pc' = [pc EXCEPT ![t] = loc]
Owned(p) == {o \in Objs : po[o] = p}
InUse(p) == {o \in Objs : holder[o] # Nil /\ ProcOf[holder[o]] = p}

---------------------------------------------------------------------------
(* HANTRO_VCMD_IOCH_RESERVE_CMDBUF: reserve_cmdbuf.                        *)

HasListener(p) == \E l \in Listeners : ProcOf[l] = p

(* acquire_process_resource charges the process first ...  A client runs   *)
(* or releases the cmdbuf it has reserved before it reserves another, and  *)
(* without a listener it also waits for it and releases it.                *)
ReserveCharge(t, w) ==
  /\ MayCall(t)
  /\ t \notin Listeners
  /\ \A o \in Objs : holder[o] = t => /\ phase[o] # "reserved"
                                      /\ HasListener(ProcOf[t])
  /\ Cardinality(InUse(ProcOf[t])) < MaxOwned
  /\ totalWorkload' = [totalWorkload EXCEPT ![ProcOf[t]] = @ + w]
  /\ want' = [want EXCEPT ![t] = w]
  /\ Goto(t, "resWait")
  /\ UNCHANGED <<poolVars, objVars, jobDone, inWait, devVars, hwVars,
                 moduleSem, job, dev, scan, node, drop, clientVars>>

(* ... and then waits until the charge is within the limit.                *)
ReserveWait(t) ==
  /\ pc[t] = "resWait" /\ Runs(t)
  /\ totalWorkload[ProcOf[t]] <= MaxWorkload
  /\ Goto(t, "resTake")
  /\ UNCHANGED <<poolVars, objVars, procVars, devVars, hwVars,
                 moduleSem, job, want, dev, scan, node, drop, clientVars>>

(* acquire_cmdbuf, reset_cmdbuf_obj, reset_cmdbuf_node and the fields of   *)
(* the request.  The client fills the buffer: its JMP has RDY = 0.         *)
ReserveTake(t) ==
  /\ pc[t] = "resTake" /\ Runs(t)
  /\ sema > 0
  /\ sema' = sema - 1
  /\ \E o \in avail :
       /\ avail' = avail \ {o}
       /\ po' = [po EXCEPT ![o] = ProcOf[t]]
       /\ owner' = [owner EXCEPT ![o] = OwnerOf[t]]
       /\ workload' = [workload EXCEPT ![o] = want[t]]
       /\ runDone' = [runDone EXCEPT ![o] = FALSE]
       /\ exeStatus' = [exeStatus EXCEPT ![o] = "ok"]
       /\ linked' = [linked EXCEPT ![o] = FALSE]
       /\ needRemove' = [needRemove EXCEPT ![o] = FALSE]
       /\ coreId' = [coreId EXCEPT ![o] = Nil]
       /\ hasJmp' = [hasJmp EXCEPT ![o] = TRUE]
       /\ jmpNext' = [jmpNext EXCEPT ![o] = Nil]
       /\ stale' = [stale EXCEPT ![o] = NoPtrs]
       /\ ran' = ran \ {o}
       /\ phase' = [phase EXCEPT ![o] = "reserved"]
       /\ holder' = [holder EXCEPT ![o] = t]
  /\ want' = [want EXCEPT ![t] = 0]
  /\ Goto(t, "user")
  /\ UNCHANGED <<procVars, devVars, hw, exeId, memId, irq, abortReq,
                 moduleSem, job, dev, scan, node, drop>>

(* A signal interrupts either wait: the call fails, and the charge stays.  *)
ReserveInterrupted(t) ==
  /\ Interrupts /\ Runs(t)
  /\ pc[t] \in {"resWait", "resTake"}
  /\ want' = [want EXCEPT ![t] = 0]
  /\ Goto(t, "user")
  /\ UNCHANGED <<poolVars, objVars, procVars, devVars, hwVars,
                 moduleSem, job, dev, scan, node, drop, clientVars>>

---------------------------------------------------------------------------
(* HANTRO_VCMD_IOCH_LINK_RUN_CMDBUF: link_and_run_cmdbuf.                  *)

LinkCall(t, o) ==
  /\ Enters(t)
  /\ phase[o] = "reserved" /\ holder[o] = t
  /\ IF po[o] # ProcOf[t]
     THEN UNCHANGED <<hasJmp, pc, job, scan, phase>>
     ELSE /\ \E j \in JmpChoices : hasJmp' = [hasJmp EXCEPT ![o] = j]
          /\ job' = [job EXCEPT ![t] = o]
          /\ scan' = [scan EXCEPT ![t] = 1]
          /\ phase' = [phase EXCEPT ![o] = "running"]
          /\ Goto(t, "linkSem")
  /\ UNCHANGED <<poolVars, po, owner, workload, runDone, exeStatus, linked,
                 needRemove, coreId, jmpNext, stale, procVars, devVars, hwVars,
                 moduleSem, want, dev, node, drop, holder>>

LinkSem(t) ==
  /\ pc[t] = "linkSem" /\ Runs(t)
  /\ moduleSem = Nil
  /\ moduleSem' = t
  /\ Goto(t, "linkScan")
  /\ UNCHANGED <<poolVars, objVars, procVars, devVars, hwVars,
                 job, want, dev, scan, node, drop, clientVars>>

LinkInterrupted(t) ==
  /\ Interrupts /\ Runs(t)
  /\ pc[t] = "linkSem"
  /\ phase' = [phase EXCEPT ![job[t]] = "reserved"]
  /\ job' = [job EXCEPT ![t] = Nil]
  /\ Goto(t, "user")
  /\ UNCHANGED <<poolVars, objVars, procVars, devVars, hwVars,
                 moduleSem, want, dev, scan, node, drop, holder>>

(* select_vcmd, first loop: a device whose list is empty or ends in a done *)
(* job takes the new one.                                                  *)
LinkScan(t) ==
  /\ pc[t] = "linkScan" /\ Runs(t)
  /\ scan[t] <= Len(DevSeq)
  /\ LET d == DevSeq[scan[t]]
         w == workList[d]
     IN /\ d \in Cores[t] => lock[d] = "free"
        /\ IF d \in Cores[t] /\ (w = <<>> \/ runDone[w[Len(w)]])
           THEN /\ AddJob(d, job[t])
                /\ Goto(t, "linkKick")
                /\ UNCHANGED scan
           ELSE /\ scan' = [scan EXCEPT ![t] = @ + 1]
                /\ UNCHANGED <<jmpNext, workList, coreId, linked, pc>>
  /\ UNCHANGED <<poolVars, po, owner, workload, runDone, exeStatus, needRemove,
                 hasJmp, stale, procVars, state, lock, busErr, isr, hwVars,
                 moduleSem, job, want, dev, node, drop, clientVars>>

(* select_vcmd, no device was free: the tail of the least loaded one.  The *)
(* estimate reads the executing id outside of the lock: any device may win.*)
LinkLeastLoaded(t) ==
  /\ pc[t] = "linkScan" /\ Runs(t)
  /\ scan[t] > Len(DevSeq)
  /\ \E d \in Cores[t] : lock[d] = "free" /\ AddJob(d, job[t])
  /\ Goto(t, "linkKick")
  /\ UNCHANGED <<poolVars, po, owner, workload, runDone, exeStatus, needRemove,
                 hasJmp, stale, procVars, state, lock, busErr, isr, hwVars,
                 moduleSem, job, want, dev, scan, node, drop, clientVars>>

(* link_and_run_cmdbuf, second section: start the device or tell it.  The  *)
(* device is looked up in obj->core_id again.                              *)
LinkKick(t) ==
  /\ pc[t] = "linkKick" /\ Runs(t)
  /\ LET d == coreId[job[t]]
     IN /\ dev' = [dev EXCEPT ![t] = d]
        /\ IF d = Nil
           THEN /\ Goto(t, "wild")
                /\ UNCHANGED <<lock, state, hw, exeId, abortReq>>
           ELSE /\ lock[d] = "free"
                /\ lock' = [lock EXCEPT ![d] = "thread"]
                /\ IF state[d] # "working" THEN StartDev(d) ELSE Doorbell(d)
                /\ Goto(t, "linkPrev")
  /\ UNCHANGED <<poolVars, objVars, procVars, workList, busErr, isr, memId, irq,
                 ran, moduleSem, job, want, scan, node, drop, clientVars>>

(* ... and remove the predecessor that was kept for its JMP.               *)
KeptForJmp(p) == p # Nil /\ needRemove[p]

LinkPrev(t) ==
  /\ pc[t] = "linkPrev"
  /\ LET d == dev[t]
         p == PrevOf(d, job[t])
     IN /\ IF KeptForJmp(p) THEN RemoveJob(d, p)
           ELSE UNCHANGED <<po, poolVars, jmpNext, stale, workList, linked>>
        /\ lock' = [lock EXCEPT ![d] = "free"]
  /\ moduleSem' = Nil
  /\ job' = [job EXCEPT ![t] = Nil]
  /\ dev' = [dev EXCEPT ![t] = Nil]
  /\ Goto(t, "user")
  /\ UNCHANGED <<owner, workload, runDone, exeStatus, needRemove, coreId, hasJmp,
                 procVars, state, busErr, isr, hwVars, want, scan, node, drop,
                 clientVars>>

---------------------------------------------------------------------------
(* HANTRO_VCMD_IOCH_WAIT_CMDBUF: wait_cmdbuf_ready.                        *)

(* A listener waits for any cmdbuf while one of its process is running.    *)
WaitAny(t) ==
  /\ MayCall(t) /\ t \in Listeners
  /\ \E o \in InUse(ProcOf[t]) : phase[o] = "running"
  /\ Goto(t, "waiting")
  /\ UNCHANGED <<poolVars, objVars, procVars, devVars, hwVars,
                 moduleSem, job, want, dev, scan, node, drop, clientVars>>

(* Without a listener, a thread waits for the cmdbuf it has run.           *)
WaitJob(t, o) ==
  /\ MayCall(t) /\ ~HasListener(ProcOf[t])
  /\ phase[o] = "running" /\ holder[o] = t
  /\ po[o] = ProcOf[t]
  /\ job' = [job EXCEPT ![t] = o]
  /\ Goto(t, "waiting")
  /\ UNCHANGED <<poolVars, objVars, procVars, devVars, hwVars,
                 moduleSem, want, dev, scan, node, drop, clientVars>>

(* The condition of wait_event, proc_get_done_job.                         *)
Gets(t, o) ==
  /\ On(jobDone[ProcOf[t]], o)
  /\ IF job[t] = Nil THEN o = Head(jobDone[ProcOf[t]])
     ELSE o = job[t] /\ runDone[o]

TakeDone_Head(p, o) == jobDone' = [jobDone EXCEPT ![p] = Tail(@)]
TakeDone(p, o) == jobDone' = [jobDone EXCEPT ![p] = Without(@, o)]

WaitGot(t, o) ==
  /\ pc[t] = "waiting" /\ Runs(t)
  /\ Gets(t, o)
  /\ TakeDone(ProcOf[t], o)
  /\ phase' = [phase EXCEPT ![o] = "ready"]
  /\ holder' = [holder EXCEPT ![o] = t]
  /\ job' = [job EXCEPT ![t] = Nil]
  /\ Goto(t, "user")
  /\ UNCHANGED <<poolVars, objVars, totalWorkload, inWait, devVars, hwVars,
                 moduleSem, want, dev, scan, node, drop>>

(* Nothing is done and the process has no cmdbuf at all: do not wait.      *)
WaitNothing(t) ==
  /\ pc[t] = "waiting" /\ Runs(t)
  /\ jobDone[ProcOf[t]] = <<>> /\ Owned(ProcOf[t]) = {}
  /\ inWait' = [inWait EXCEPT ![ProcOf[t]] = TRUE]
  /\ phase' = [o \in Objs |-> IF o = job[t] THEN "ready" ELSE phase[o]]
  /\ job' = [job EXCEPT ![t] = Nil]
  /\ Goto(t, "user")
  /\ UNCHANGED <<poolVars, objVars, totalWorkload, jobDone, devVars, hwVars,
                 moduleSem, want, dev, scan, node, drop, holder>>

WaitSleep(t) ==
  /\ pc[t] = "waiting" /\ Runs(t)
  /\ \A o \in Objs : ~Gets(t, o)
  /\ jobDone[ProcOf[t]] = <<>> => Owned(ProcOf[t]) # {}
  /\ inWait' = [inWait EXCEPT ![ProcOf[t]] = TRUE]
  /\ Goto(t, "asleep")
  /\ UNCHANGED <<poolVars, objVars, totalWorkload, jobDone, devVars, hwVars,
                 moduleSem, job, want, dev, scan, node, drop, clientVars>>

WaitInterrupted(t) ==
  /\ Interrupts /\ Runs(t)
  /\ pc[t] = "asleep"
  /\ job' = [job EXCEPT ![t] = Nil]
  /\ Goto(t, "user")
  /\ UNCHANGED <<poolVars, objVars, procVars, devVars, hwVars,
                 moduleSem, want, dev, scan, node, drop, clientVars>>

---------------------------------------------------------------------------
(* HANTRO_VCMD_IOCH_RELEASE_CMDBUF: release_cmdbuf.  A client releases the *)
(* cmdbufs a wait gave it, and on an error path one it only reserved.      *)

(* The part that runs without a lock: a cmdbuf that is not on a work list  *)
(* goes back at once, another one is marked first ...                      *)
ReleaseCall(t, o) ==
  /\ Enters(t)
  /\ phase[o] \in {"ready", "reserved"} /\ holder[o] = t
  /\ phase' = [phase EXCEPT ![o] = "none"]
  /\ holder' = [holder EXCEPT ![o] = Nil]
  /\ IF po[o] # ProcOf[t]
     THEN UNCHANGED <<owner, po, poolVars, totalWorkload, workload, needRemove,
                      job, dev, pc>>
     ELSE /\ owner' = [owner EXCEPT ![o] = Nil]
          /\ IF linked[o]
             THEN /\ needRemove' = [needRemove EXCEPT ![o] = TRUE]
                  /\ job' = [job EXCEPT ![t] = o]
                  /\ dev' = [dev EXCEPT ![t] = coreId[o]]
                  /\ Goto(t, "relAccount")
                  /\ UNCHANGED <<po, poolVars, totalWorkload, workload>>
             ELSE /\ ReturnResource(o)
                  /\ ReturnCmdbuf(o)
                  /\ UNCHANGED <<needRemove, job, dev, pc>>
  /\ UNCHANGED <<runDone, exeStatus, linked, coreId, hasJmp, jmpNext, stale,
                 jobDone, inWait, devVars, hwVars,
                 moduleSem, want, scan, node, drop>>

(* ... its workload is given back ...                                      *)
ReleaseAccount(t) ==
  /\ pc[t] = "relAccount" /\ Runs(t)
  /\ ReturnResource(job[t])
  /\ Goto(t, "relLock")
  /\ UNCHANGED <<poolVars, po, owner, runDone, exeStatus, linked, needRemove,
                 coreId, hasJmp, jmpNext, stale, jobDone, inWait, devVars, hwVars,
                 moduleSem, job, want, dev, scan, node, drop, clientVars>>

(* ... and under the lock it is removed, unless its JMP is still needed.   *)
ReleaseLock(t) ==
  /\ pc[t] = "relLock" /\ Runs(t)
  /\ lock[dev[t]] = "free"
  /\ RemoveJob(dev[t], job[t])
  /\ job' = [job EXCEPT ![t] = Nil]
  /\ dev' = [dev EXCEPT ![t] = Nil]
  /\ Goto(t, "user")
  /\ UNCHANGED <<owner, workload, runDone, exeStatus, needRemove, coreId, hasJmp,
                 procVars, state, lock, busErr, isr, hwVars,
                 moduleSem, want, scan, node, drop, clientVars>>

---------------------------------------------------------------------------
(* drop_release_cmdbufs, for HANTRO_VCMD_IOCH_DROP_OWNER (drop_owner, with *)
(* an owner) and for the close of a descriptor (hantrovcmd_release).       *)

OfOwner(t, o) == drop[t].owner \in {Nil, owner[o]}
Droppable(t, o) ==
  drop[t].owner = Nil \/ (drop[t].owner = owner[o] /\ ~runDone[o])

DropCall(t) ==
  /\ Enters(t) /\ t \in Droppers
  /\ drop' = [drop EXCEPT ![t] = [NoDrop EXCEPT !.owner = OwnerOf[t],
                                               !.toSee = Objs]]
  /\ Goto(t, "dropSem")
  /\ UNCHANGED <<poolVars, objVars, procVars, devVars, hwVars,
                 moduleSem, job, want, dev, scan, node, clientVars>>

(* The last reference to the descriptor goes: no thread is in an ioctl.    *)
CloseCall(t) ==
  /\ Enters(t) /\ ProcOf[t] \in Closers
  /\ \A u \in Threads : ProcOf[u] = ProcOf[t] => pc[u] = "user"
  /\ Owned(ProcOf[t]) # {}
  /\ drop' = [drop EXCEPT ![t].toSee = Objs]
  /\ Goto(t, "dropSem")
  /\ phase' = [o \in Objs |-> IF po[o] = ProcOf[t] THEN "none" ELSE phase[o]]
  /\ holder' = [o \in Objs |-> IF po[o] = ProcOf[t] THEN Nil ELSE holder[o]]
  /\ UNCHANGED <<poolVars, objVars, procVars, devVars, hwVars,
                 moduleSem, job, want, dev, scan, node>>

(* A signal ends a DROP_OWNER that waits for the module; a wait for the    *)
(* abort goes on by polling.  (The 10 s after which the poll gives up are  *)
(* longer than any buffer runs.)                                           *)
DropInterrupted(t) ==
  /\ Interrupts /\ Runs(t)
  /\ \/ /\ pc[t] = "dropSem" /\ drop[t].owner # Nil
        /\ drop' = [drop EXCEPT ![t] = NoDrop]
        /\ Goto(t, "user")
     \/ /\ pc[t] = "dropAsleep"
        /\ Goto(t, "dropPoll")
        /\ UNCHANGED drop
  /\ UNCHANGED <<poolVars, objVars, procVars, devVars, hwVars,
                 moduleSem, job, want, dev, scan, node, clientVars>>

DropSem(t) ==
  /\ pc[t] = "dropSem" /\ Runs(t)
  /\ moduleSem = Nil
  /\ moduleSem' = t
  /\ scan' = [scan EXCEPT ![t] = 1]
  /\ Goto(t, "dropDev")
  /\ UNCHANGED <<poolVars, objVars, procVars, devVars, hwVars,
                 job, want, dev, node, drop, clientVars>>

(* For each device: is there a job to drop on it, and does it work?        *)
DropDev_NoAbort(t) ==
  /\ pc[t] = "dropDev" /\ Runs(t)
  /\ scan[t] <= Len(DevSeq)
  /\ lock[DevSeq[scan[t]]] = "free"
  /\ dev' = [dev EXCEPT ![t] = DevSeq[scan[t]]]
  /\ lock' = [lock EXCEPT ![DevSeq[scan[t]]] = "thread"]
  /\ Goto(t, "dropWalk")
  /\ UNCHANGED <<poolVars, objVars, procVars, workList, state, busErr, isr, hwVars,
                 moduleSem, job, want, scan, node, drop, clientVars>>

DropDev(t) ==
  /\ pc[t] = "dropDev" /\ Runs(t)
  /\ scan[t] <= Len(DevSeq)
  /\ LET d == DevSeq[scan[t]]
         has == \E i \in 1..Len(workList[d]) :
                  /\ po[workList[d][i]] = ProcOf[t]
                  /\ OfOwner(t, workList[d][i])
     IN /\ lock[d] = "free"
        /\ IF ~has
           THEN /\ scan' = [scan EXCEPT ![t] = @ + 1]
                /\ UNCHANGED <<pc, dev, lock>>
           ELSE /\ dev' = [dev EXCEPT ![t] = d]
                /\ IF state[d] = "working"
                   THEN Goto(t, "dropAbort") /\ UNCHANGED lock
                   ELSE /\ Goto(t, "dropWalk")
                        /\ lock' = [lock EXCEPT ![d] = "thread"]
                /\ UNCHANGED scan
  /\ UNCHANGED <<poolVars, objVars, procVars, workList, state, busErr, isr, hwVars,
                 moduleSem, job, want, node, drop, clientVars>>

(* vcmd_abort: START_TRIGGER = 0, then wait until the device is idle.      *)
DropAbort(t) ==
  /\ pc[t] = "dropAbort" /\ Runs(t)
  /\ lock[dev[t]] = "free"
  /\ abortReq' = [abortReq EXCEPT ![dev[t]] = hw[dev[t]] # "off"]
  /\ Goto(t, "dropWait")
  /\ UNCHANGED <<poolVars, objVars, procVars, devVars, hw, exeId, memId, irq, ran,
                 moduleSem, job, want, dev, scan, node, drop, clientVars>>

DropWait(t) ==
  /\ pc[t] = "dropWait" /\ Runs(t)
  /\ Goto(t, IF state[dev[t]] = "idle" THEN "dropRelock" ELSE "dropAsleep")
  /\ UNCHANGED <<poolVars, objVars, procVars, devVars, hwVars,
                 moduleSem, job, want, dev, scan, node, drop, clientVars>>

DropPoll(t) ==
  /\ pc[t] = "dropPoll" /\ Runs(t)
  /\ state[dev[t]] = "idle"
  /\ Goto(t, "dropRelock")
  /\ UNCHANGED <<poolVars, objVars, procVars, devVars, hwVars,
                 moduleSem, job, want, dev, scan, node, drop, clientVars>>

(* Relock; a device that is not idle any more is left alone.               *)
DropRelock(t) ==
  /\ pc[t] = "dropRelock" /\ Runs(t)
  /\ lock[dev[t]] = "free"
  /\ IF state[dev[t]] # "idle"
     THEN /\ scan' = [scan EXCEPT ![t] = @ + 1]
          /\ dev' = [dev EXCEPT ![t] = Nil]
          /\ Goto(t, "dropDev")
          /\ UNCHANGED <<lock, drop>>
     ELSE /\ lock' = [lock EXCEPT ![dev[t]] = "thread"]
          /\ drop' = [drop EXCEPT ![t].aborted = TRUE]
          /\ Goto(t, "dropWalk")
          /\ UNCHANGED <<scan, dev>>
  /\ UNCHANGED <<poolVars, objVars, procVars, workList, state, busErr, isr, hwVars,
                 moduleSem, job, want, node, clientVars>>

(* One node of the walk over the work list; the next one is found through  *)
(* the pointers the node has after it was removed.                         *)
DropWalk(t) ==
  /\ pc[t] = "dropWalk"
  /\ LET d == dev[t]
         n == IF node[t] = Nil THEN ItemAt(workList[d], 1) ELSE NextOf(d, node[t])
     IN IF n = Nil
        THEN /\ Goto(t, "dropStart")
             /\ node' = [node EXCEPT ![t] = Nil]
             /\ UNCHANGED <<po, poolVars, jmpNext, stale, workList, linked, drop,
                            clientVars>>
        ELSE /\ node' = [node EXCEPT ![t] = n]
             /\ IF (po[n] = ProcOf[t] \/ needRemove[n]) /\ Droppable(t, n)
                THEN /\ RemoveJob(d, n)
                     /\ drop' = [drop EXCEPT ![t].handled = TRUE]
                     /\ phase' = [phase EXCEPT ![n] = "none"]
                     /\ holder' = [holder EXCEPT ![n] = Nil]
                ELSE UNCHANGED <<po, poolVars, jmpNext, stale, workList, linked,
                                 drop, clientVars>>
             /\ UNCHANGED pc
  /\ UNCHANGED <<owner, workload, runDone, exeStatus, needRemove, coreId, hasJmp,
                 procVars, state, lock, busErr, isr, hwVars,
                 moduleSem, job, want, dev, scan>>

(* Restart an aborted device and go on with the next one.                  *)
DropStart_NoRestart(t) ==
  /\ pc[t] = "dropStart"
  /\ lock' = [lock EXCEPT ![dev[t]] = "free"]
  /\ drop' = [drop EXCEPT ![t].aborted = FALSE]
  /\ scan' = [scan EXCEPT ![t] = @ + 1]
  /\ dev' = [dev EXCEPT ![t] = Nil]
  /\ Goto(t, "dropDev")
  /\ UNCHANGED <<poolVars, objVars, procVars, workList, state, busErr, isr, hwVars,
                 moduleSem, job, want, node, clientVars>>

DropStart(t) ==
  /\ pc[t] = "dropStart"
  /\ IF drop[t].aborted THEN StartDev(dev[t])
     ELSE UNCHANGED <<state, hw, exeId, abortReq>>
  /\ lock' = [lock EXCEPT ![dev[t]] = "free"]
  /\ drop' = [drop EXCEPT ![t].aborted = FALSE]
  /\ scan' = [scan EXCEPT ![t] = @ + 1]
  /\ dev' = [dev EXCEPT ![t] = Nil]
  /\ Goto(t, "dropDev")
  /\ UNCHANGED <<poolVars, objVars, procVars, workList, busErr, isr, memId, irq, ran,
                 moduleSem, job, want, node, clientVars>>

(* Last loop: every cmdbuf is looked at once, without a lock; those that   *)
(* are on no work list any more are to be returned.                        *)
ToReturn_OnlyLinked(t, o) ==
  po[o] = ProcOf[t] /\ Droppable(t, o) /\ coreId[o] # Nil
ToReturn(t, o) == po[o] = ProcOf[t] /\ Droppable(t, o)

DropFind(t, o) ==
  /\ pc[t] = "dropDev" /\ Runs(t)
  /\ scan[t] > Len(DevSeq)
  /\ o \in drop[t].toSee
  /\ drop' = [drop EXCEPT ![t].toSee = @ \ {o}]
  /\ IF ToReturn(t, o)
     THEN /\ job' = [job EXCEPT ![t] = o]
          /\ dev' = [dev EXCEPT ![t] = coreId[o]]
          /\ Goto(t, "dropReturn")
     ELSE UNCHANGED <<job, dev, pc>>
  /\ UNCHANGED <<poolVars, objVars, procVars, devVars, hwVars,
                 moduleSem, want, scan, node, clientVars>>

DropReturn(t) ==
  /\ pc[t] = "dropReturn" /\ Runs(t)
  /\ dev[t] # Nil => lock[dev[t]] = "free"
  /\ ReturnCmdbuf(job[t])
  /\ phase' = [phase EXCEPT ![job[t]] = "none"]
  /\ holder' = [holder EXCEPT ![job[t]] = Nil]
  /\ job' = [job EXCEPT ![t] = Nil]
  /\ dev' = [dev EXCEPT ![t] = Nil]
  /\ Goto(t, "dropDev")
  /\ UNCHANGED <<owner, workload, runDone, exeStatus, linked, needRemove, coreId,
                 hasJmp, jmpNext, stale, procVars, devVars, hwVars,
                 moduleSem, want, scan, node, drop>>

(* DROP_OWNER wakes the waiters of the process; close frees the proc_obj,  *)
(* and the next open starts with a new one.                                *)
DropEnd(t) ==
  /\ pc[t] = "dropDev" /\ Runs(t)
  /\ scan[t] > Len(DevSeq) /\ drop[t].toSee = {}
  /\ moduleSem' = Nil
  /\ drop' = [drop EXCEPT ![t] = NoDrop]
  /\ LET p == ProcOf[t]
         pcs == [pc EXCEPT ![t] = "user"]
     IN IF drop[t].owner = Nil
        THEN /\ totalWorkload' = [totalWorkload EXCEPT ![p] = 0]
             /\ jobDone' = [jobDone EXCEPT ![p] = <<>>]
             /\ inWait' = [inWait EXCEPT ![p] = FALSE]
             /\ pc' = pcs
        ELSE /\ pc' = IF drop[t].handled THEN Woken(pcs, p) ELSE pcs
             /\ UNCHANGED procVars
  /\ UNCHANGED <<poolVars, objVars, devVars, hwVars,
                 job, want, dev, scan, node, clientVars>>

---------------------------------------------------------------------------
(* The hardware (external).  It runs a buffer, writes the buffer's id to   *)
(* memory, and at the JMP goes on with the next buffer if RDY is set; at a *)
(* JMP without RDY it stalls and raises JMP, at an END it stops.           *)

Raise(d, kinds) == irq' = [irq EXCEPT ![d] = @ \cup kinds]

HwFinish(d) ==
  /\ hw[d] = "run"
  /\ LET o == exeId[d]
     IN /\ ran' = ran \cup {o}
        /\ memId' = [memId EXCEPT ![d] = o]
        /\ \/ /\ hasJmp[o] /\ ~abortReq[d] /\ jmpNext[o] # Nil
              /\ exeId' = [exeId EXCEPT ![d] = jmpNext[o]]
              /\ \E k \in {{}, {"jmp"}} : Raise(d, k)
              /\ UNCHANGED <<hw, abortReq>>
           \/ /\ hasJmp[o] /\ ~abortReq[d] /\ jmpNext[o] = Nil
              /\ hw' = [hw EXCEPT ![d] = "stall"]
              /\ Raise(d, {"jmp"})
              /\ UNCHANGED <<exeId, abortReq>>
           \/ /\ ~hasJmp[o] \/ abortReq[d]
              /\ hw' = [hw EXCEPT ![d] = "off"]
              /\ abortReq' = [abortReq EXCEPT ![d] = FALSE]
              /\ Raise(d, (IF abortReq[d] THEN {"abort"} ELSE {})
                          \cup (IF hasJmp[o] THEN {} ELSE {"end"}))
              /\ UNCHANGED exeId
  /\ UNCHANGED <<poolVars, objVars, procVars, devVars, threadVars, clientVars>>

HwAbortStalled(d) ==
  /\ hw[d] = "stall" /\ abortReq[d]
  /\ hw' = [hw EXCEPT ![d] = "off"]
  /\ abortReq' = [abortReq EXCEPT ![d] = FALSE]
  /\ Raise(d, {"abort"})
  /\ UNCHANGED <<poolVars, objVars, procVars, devVars, exeId, memId, ran,
                 threadVars, clientVars>>

HwError(d, kind) ==
  /\ hw[d] = "run"
  /\ hw' = [hw EXCEPT ![d] = "off"]
  /\ Raise(d, {kind})
  /\ UNCHANGED <<poolVars, objVars, procVars, devVars, exeId, memId, abortReq, ran,
                 threadVars, clientVars>>

---------------------------------------------------------------------------
(* hantrovcmd_isr, under the spinlock of the device.                       *)

IsrLeave(d) == /\ isr' = [isr EXCEPT ![d] = IsrIdle]
               /\ lock' = [lock EXCEPT ![d] = "free"]

(* Read and clear the interrupt status.                                    *)
IsrEnter_NoLock(d) ==
  /\ irq[d] # {} /\ isr[d].at = "out"
  /\ irq' = [irq EXCEPT ![d] = {}]
  /\ IF workList[d] = <<>> THEN UNCHANGED <<isr, lock>>
     ELSE /\ lock' = [lock EXCEPT ![d] = "isr"]
          /\ isr' = [isr EXCEPT ![d] = [IsrIdle EXCEPT !.at = "read",
                                                      !.src = irq[d]]]
  /\ UNCHANGED <<poolVars, objVars, procVars, workList, state, busErr, hw, exeId,
                 memId, abortReq, ran, threadVars, clientVars>>

IsrEnter(d) ==
  /\ irq[d] # {} /\ lock[d] = "free"
  /\ irq' = [irq EXCEPT ![d] = {}]
  /\ IF workList[d] = <<>> THEN UNCHANGED <<isr, lock>>
     ELSE /\ lock' = [lock EXCEPT ![d] = "isr"]
          /\ isr' = [isr EXCEPT ![d] = [IsrIdle EXCEPT !.at = "read",
                                                      !.src = irq[d]]]
  /\ UNCHANGED <<poolVars, objVars, procVars, workList, state, busErr, hw, exeId,
                 memId, abortReq, ran, threadVars, clientVars>>

(* The current buffer: from the register on an error, else from memory.    *)
CurrentOf_AlwaysRegister(d) == exeId[d]
CurrentOf_AlwaysMemory(d) == memId[d]
CurrentOf(d) == IF isr[d].src \cap Err # {} THEN exeId[d] ELSE memId[d]

(* Nothing before a buffer that is done already is left to be marked done. *)
FirstStep_NoWalk(c) == "curr"
FirstStep(c) == IF runDone[c] THEN "curr" ELSE "walk"

IsrRead(d) ==
  /\ isr[d].at = "read"
  /\ LET c == CurrentOf(d)
     IN IF c = Nil \/ coreId[c] # d THEN IsrLeave(d)
        ELSE /\ isr' = [isr EXCEPT ![d].curr = c, ![d].at = FirstStep(c)]
             /\ UNCHANGED lock
  /\ UNCHANGED <<poolVars, objVars, procVars, workList, state, busErr, hwVars,
                 threadVars, clientVars>>

(* proc_add_done_job, for a job that is not done yet.                      *)
Reports(o) == ~runDone[o] /\ po[o] # Nil /\ ~On(jobDone[po[o]], o)
AddDone(o) ==
  IF Reports(o)
  THEN /\ jobDone' = [jobDone EXCEPT ![po[o]] = Append(@, o)]
       /\ inWait' = [inWait EXCEPT ![po[o]] = FALSE]
  ELSE UNCHANGED <<jobDone, inWait>>
PcAfterDone_IfEmpty(o) == IF Reports(o) /\ jobDone[po[o]] = <<>>
                          THEN Woken(pc, po[o]) ELSE pc
PcAfterDone(o) == IF Reports(o) /\ (jobDone[po[o]] = <<>> \/ inWait[po[o]])
                  THEN Woken(pc, po[o]) ELSE pc

(* isr_process_node; st is the state the device has by then.               *)
ProcessNode(st, d, o, status) ==
  IF runDone[o]
  THEN UNCHANGED <<runDone, exeStatus, jmpNext, stale, workList, linked,
                   jobDone, inWait>>
  ELSE /\ runDone' = [runDone EXCEPT ![o] = TRUE]
       /\ exeStatus' = [exeStatus EXCEPT ![o] = status]
       /\ IF linked[o] /\ CanDelink(st, d, o) THEN Unlink(d, o)
          ELSE UNCHANGED <<jmpNext, stale, workList, linked>>
       /\ AddDone(o)

(* The nodes before the current one, one per step.  The next one is found  *)
(* through the pointers that a node has after it was handed to its client; *)
(* a walk that runs out of nodes gives up ("not find node").               *)
WalkNext(d) == IF isr[d].node = Nil THEN ItemAt(workList[d], 1)
               ELSE NextOf(d, isr[d].node)

IsrWalk(d) ==
  /\ isr[d].at = "walk"
  /\ LET n == WalkNext(d)
     IN IF n \in {Nil, isr[d].curr}
        THEN /\ IF n = Nil THEN IsrLeave(d)
                ELSE isr' = [isr EXCEPT ![d].at = "curr"] /\ UNCHANGED lock
             /\ UNCHANGED <<runDone, exeStatus, jmpNext, stale, workList, linked,
                            jobDone, inWait, pc>>
        ELSE /\ isr' = [isr EXCEPT ![d].node = n]
             /\ ProcessNode(state[d], d, n, "ok")
             /\ pc' = PcAfterDone(n)
             /\ UNCHANGED lock
  /\ UNCHANGED <<poolVars, po, owner, workload, needRemove, coreId, hasJmp,
                 totalWorkload, state, busErr, hwVars,
                 moduleSem, job, want, dev, scan, node, drop, clientVars>>

(* The current node: ABORT stops the device after the buffer it runs, and  *)
(* whoever asked for it restarts the device.                               *)
IsrAbort(d) ==
  /\ isr[d].at = "curr" /\ "abort" \in isr[d].src
  /\ state' = [state EXCEPT ![d] = "idle"]
  /\ ProcessNode("idle", d, isr[d].curr, "ok")
  /\ pc' = AbortWoken(PcAfterDone(isr[d].curr), d)
  /\ IsrLeave(d)
  /\ UNCHANGED busErr
  /\ UNCHANGED <<poolVars, po, owner, workload, needRemove, coreId, hasJmp,
                 totalWorkload, hwVars,
                 moduleSem, job, want, dev, scan, node, drop, clientVars>>

(* BUS_ERR stops the device; the kernel thread restarts it.                *)
IsrBusErr(d) ==
  /\ isr[d].at = "curr"
  /\ "buserr" \in isr[d].src /\ "abort" \notin isr[d].src
  /\ state' = [state EXCEPT ![d] = "idle"]
  /\ ProcessNode("idle", d, isr[d].curr, "buserr")
  /\ pc' = PcAfterDone(isr[d].curr)
  /\ busErr' = [busErr EXCEPT ![d] = TRUE]
  /\ IsrLeave(d)
  /\ UNCHANGED <<poolVars, po, owner, workload, needRemove, coreId, hasJmp,
                 totalWorkload, hwVars,
                 moduleSem, job, want, dev, scan, node, drop, clientVars>>

(* CMD_ERR stops the device, which starts again from the next job.         *)
IsrCmdErr(d) ==
  /\ isr[d].at = "curr"
  /\ "cmderr" \in isr[d].src /\ isr[d].src \cap {"abort", "buserr"} = {}
  /\ state' = [state EXCEPT ![d] = "idle"]
  /\ ProcessNode("idle", d, isr[d].curr, "cmderr")
  /\ pc' = PcAfterDone(isr[d].curr)
  /\ isr' = [isr EXCEPT ![d].at = "start"]
  /\ UNCHANGED <<busErr, lock>>
  /\ UNCHANGED <<poolVars, po, owner, workload, needRemove, coreId, hasJmp,
                 totalWorkload, hwVars,
                 moduleSem, job, want, dev, scan, node, drop, clientVars>>

(* JMP or END; after an END the device has stopped and starts again.       *)
IsrDone(d) ==
  /\ isr[d].at = "curr" /\ isr[d].src \cap Err = {}
  /\ ProcessNode(state[d], d, isr[d].curr, "ok")
  /\ pc' = PcAfterDone(isr[d].curr)
  /\ IF "end" \in isr[d].src
     THEN /\ state' = [state EXCEPT ![d] = "idle"]
          /\ isr' = [isr EXCEPT ![d].at = "start"]
          /\ UNCHANGED lock
     ELSE /\ IsrLeave(d)
          /\ UNCHANGED state
  /\ UNCHANGED busErr
  /\ UNCHANGED <<poolVars, po, owner, workload, needRemove, coreId, hasJmp,
                 totalWorkload, hwVars,
                 moduleSem, job, want, dev, scan, node, drop, clientVars>>

IsrStart(d) ==
  /\ isr[d].at = "start"
  /\ StartDev(d)
  /\ IsrLeave(d)
  /\ UNCHANGED <<poolVars, objVars, procVars, workList, busErr, memId, irq, ran,
                 threadVars, clientVars>>

(* The kernel thread handles KT_ACT_HW_BUS_ERR: _vcmd_bus_err_process.     *)
KthreadBusErr(d) ==
  /\ busErr[d] /\ lock[d] = "free" /\ (Smp \/ Quiet)
  /\ busErr' = [busErr EXCEPT ![d] = FALSE]
  /\ IF state[d] = "idle" THEN StartDev(d)
     ELSE UNCHANGED <<state, hw, exeId, abortReq>>
  /\ UNCHANGED <<poolVars, objVars, procVars, workList, lock, isr, memId, irq, ran,
                 threadVars, clientVars>>

---------------------------------------------------------------------------
Link(t) == LinkSem(t) \/ LinkScan(t) \/ LinkLeastLoaded(t) \/ LinkKick(t)
           \/ LinkPrev(t)
Wait(t) == (\E o \in Objs : WaitGot(t, o)) \/ WaitNothing(t) \/ WaitSleep(t)
Release(t) == ReleaseAccount(t) \/ ReleaseLock(t)
Drop(t) == \/ DropSem(t) \/ DropDev(t) \/ DropAbort(t) \/ DropWait(t) \/ DropPoll(t)
           \/ DropRelock(t) \/ DropWalk(t) \/ DropStart(t)
           \/ (\E o \in Objs : DropFind(t, o)) \/ DropReturn(t) \/ DropEnd(t)

(* Steps inside a call, which the scheduler gives to a runnable thread.    *)
InCall(t) == ReserveWait(t) \/ ReserveTake(t) \/ Link(t) \/ Wait(t)
             \/ Release(t) \/ Drop(t)

(* The calls a client makes.                                               *)
Calls(t) == \/ \E w \in Workloads : ReserveCharge(t, w)
            \/ \E o \in Objs : LinkCall(t, o) \/ WaitJob(t, o) \/ ReleaseCall(t, o)
            \/ WaitAny(t) \/ DropCall(t) \/ CloseCall(t)

Signals(t) == ReserveInterrupted(t) \/ LinkInterrupted(t) \/ WaitInterrupted(t)
              \/ DropInterrupted(t)

Isr(d) == IsrEnter(d) \/ IsrRead(d) \/ IsrWalk(d) \/ IsrAbort(d) \/ IsrBusErr(d)
          \/ IsrCmdErr(d) \/ IsrDone(d) \/ IsrStart(d)
Hw(d) == HwFinish(d) \/ HwAbortStalled(d) \/ \E k \in ErrorKinds : HwError(d, k)

Next == \/ \E t \in Threads : InCall(t) \/ Calls(t) \/ Signals(t)
        \/ \E d \in Devs : Isr(d) \/ KthreadBusErr(d) \/ Hw(d)

(* The kernel schedules threads that are inside a call (its semaphores and *)
(* spinlocks are fair queues), the hardware ends what it runs, and a       *)
(* raised interrupt is served.                                             *)
Fairness ==
  /\ \A t \in Threads : SF_vars(InCall(t))
  /\ \A d \in Devs : WF_vars(Isr(d)) /\ WF_vars(KthreadBusErr(d)) /\ WF_vars(Hw(d))

(* Clients wait for what they run, but need not go on reserving.           *)
ClientFairness ==
  \A t \in Threads : SF_vars(WaitAny(t) \/ \E o \in Objs : WaitJob(t, o))

Safety == Init /\ [][Next]_vars
Spec == Safety /\ Fairness
ClientSpec == Spec /\ ClientFairness

---------------------------------------------------------------------------
Locs == {"user", "resWait", "resTake", "waiting", "asleep", "wild"}
        \cup LinkPcs \cup ReleasePcs \cup DropPcs
Kinds == {"jmp", "end"} \cup Err
ObjOrNil == Objs \cup {Nil}
DevOrNil == Devs \cup {Nil}
IsrRecord == [at : {"out", "read", "walk", "curr", "start"},
              src : SUBSET Kinds, curr : ObjOrNil, node : ObjOrNil]
DropRecord == [owner : Owners \cup {Nil}, aborted : BOOLEAN,
               handled : BOOLEAN, toSee : SUBSET Objs]

PoolTypes == sema \in Nat /\ avail \subseteq Objs

ObjTypes ==
  /\ po \in [Objs -> Procs \cup {Nil}]
  /\ owner \in [Objs -> Owners \cup {Nil}]
  /\ workload \in [Objs -> Nat]
  /\ runDone \in [Objs -> BOOLEAN]
  /\ exeStatus \in [Objs -> {"ok", "cmderr", "buserr"}]
  /\ linked \in [Objs -> BOOLEAN]
  /\ needRemove \in [Objs -> BOOLEAN]
  /\ coreId \in [Objs -> DevOrNil]
  /\ hasJmp \in [Objs -> BOOLEAN]
  /\ jmpNext \in [Objs -> ObjOrNil]
  /\ stale \in [Objs -> [next : ObjOrNil, prev : ObjOrNil]]
  /\ \A o \in Objs : linked[o] => coreId[o] # Nil

ProcTypes ==
  /\ totalWorkload \in [Procs -> Int]
  /\ jobDone \in [Procs -> Seq(Objs)]
  /\ inWait \in [Procs -> BOOLEAN]

DevTypes ==
  /\ workList \in [Devs -> Seq(Objs)]
  /\ state \in [Devs -> {"power_on", "idle", "working"}]
  /\ lock \in [Devs -> {"free", "isr", "thread"}]
  /\ busErr \in [Devs -> BOOLEAN]
  /\ isr \in [Devs -> IsrRecord]
  /\ \A d \in Devs : isr[d].at \in {"walk", "curr"} => isr[d].curr # Nil

HwTypes ==
  /\ hw \in [Devs -> {"off", "run", "stall"}]
  /\ exeId \in [Devs -> ObjOrNil]
  /\ memId \in [Devs -> ObjOrNil]
  /\ irq \in [Devs -> SUBSET Kinds]
  /\ abortReq \in [Devs -> BOOLEAN]
  /\ ran \subseteq Objs
  /\ \A d \in Devs : hw[d] # "off" => exeId[d] # Nil

(* Where a call uses its cmdbuf and its device.                            *)
UsesJob == LinkPcs \cup ReleasePcs \cup {"dropReturn"}
UsesDev == ReleasePcs \cup HoldsLock
           \cup {"dropAbort", "dropWait", "dropAsleep", "dropPoll", "dropRelock"}

ThreadTypes ==
  /\ moduleSem \in Threads \cup {Nil}
  /\ pc \in [Threads -> Locs]
  /\ job \in [Threads -> ObjOrNil]
  /\ want \in [Threads -> Nat]
  /\ dev \in [Threads -> DevOrNil]
  /\ scan \in [Threads -> Nat \ {0}]
  /\ node \in [Threads -> ObjOrNil]
  /\ drop \in [Threads -> DropRecord]
  /\ \A t \in Threads : pc[t] \in UsesJob => job[t] # Nil
  /\ \A t \in Threads : pc[t] \in UsesDev => dev[t] # Nil

ClientTypes ==
  /\ phase \in [Objs -> {"none", "reserved", "running", "ready"}]
  /\ holder \in [Objs -> Threads \cup {Nil}]

(* The types, and what is not NULL where it is used: the local variables   *)
(* of a call, the core of a linked cmdbuf, the buffer of a device that is  *)
(* not off, the current buffer of the interrupt routine.  No handler       *)
(* follows a NULL pointer or the index of no device.  (link_and_run_cmdbuf *)
(* looks the core id up again: a thread that finds none stays at "wild",   *)
(* which EveryJobReported and the deadlock check find.)                    *)
TypeOK ==
  /\ PoolTypes /\ ObjTypes /\ ProcTypes /\ DevTypes
  /\ HwTypes /\ ThreadTypes /\ ClientTypes

(* A cmdbuf is on the work list of its device, once, exactly while it is   *)
(* linked: acquire, link, release, drop and the interrupt routine never    *)
(* leave a node on a list that the flag denies, or on two.  A released one *)
(* stays only for its JMP: at most one per device, unless its release is   *)
(* still going on.                                                         *)
WorkListsSound ==
  /\ \A o \in Objs : linked[o] <=> \E d \in Devs : On(workList[d], o)
  /\ \A d \in Devs : \A i, j \in 1..Len(workList[d]) :
       /\ coreId[workList[d][i]] = d
       /\ workList[d][i] = workList[d][j] => i = j
  /\ \A d \in Devs : \A o, q \in {x \in Objs : /\ On(workList[d], x) /\ needRemove[x]
                                      /\ \A t \in Threads : job[t] # x} : o = q

(* The pool holds what the semaphore counts, and what is in it belongs to  *)
(* no process, is on no work list and used by no client: no cmdbuf is      *)
(* returned twice or while somebody has it.                                *)
PoolExact ==
  /\ sema = Cardinality(avail)
  /\ \A o \in avail : (po[o] = Nil /\ ~linked[o] /\ phase[o] = "none")

(* A device that runs, or waits at a JMP, is inside a buffer of its own    *)
(* work list, not in one that was removed, returned or reused.             *)
HwOnWorkList == \A d \in Devs : hw[d] # "off" => On(workList[d], exeId[d])

(* A job the interrupt routine reports as done without an error is one     *)
(* the hardware has run since it was reserved.                             *)
DoneIsTrue == \A o \in Objs : runDone[o] /\ exeStatus[o] = "ok" => o \in ran

(* Jobs of a device are reported in the order in which they were linked.   *)
DoneInOrder ==
  \A d \in Devs : \A i, j \in 1..Len(workList[d]) :
    i < j /\ runDone[workList[d][j]] => runDone[workList[d][i]]

(* The done list of a process holds done jobs of that process, once each,  *)
(* that the client has not got yet.                                        *)
DoneListsSound ==
  \A p \in {q \in Procs : ~Closing(q)} : \A i, j \in 1..Len(jobDone[p]) :
    LET o == jobDone[p][i]
    IN /\ po[o] = p /\ runDone[o] /\ phase[o] \notin {"reserved", "ready"}
       /\ jobDone[p][j] = o => i = j

(* A thread does not sleep in wait_cmdbuf_ready while the job it waits for *)
(* is on the done list: no wake-up is lost between the two flags.          *)
NoLostWakeup ==
  \A t \in Threads : pc[t] = "asleep" => \A o \in Objs : ~Gets(t, o)

(* The walk of the interrupt routine from the head of the list arrives at  *)
(* the buffer the hardware reported: "node" has a successor until then.    *)
WalkReachesCurrent == \A d \in Devs : isr[d].at = "walk" => WalkNext(d) # Nil

(* A process is charged for the cmdbufs it has and the requests it waits   *)
(* with, so what it gives back is what it took (a close gives back nothing *)
(* and frees the account).                                                 *)
WorkloadExact ==
  \A p \in Procs :
    \/ Closing(p)
    \/ totalWorkload[p] =
      MapThenSumSet(LAMBDA o : workload[o], Owned(p))
      + MapThenSumSet(LAMBDA t : want[t], {t \in Threads : ProcOf[t] = p})

(* A device that is not working and has jobs to do has somebody who is     *)
(* about to start it.                                                      *)
SomebodyStarts ==
  \A d \in Devs : state[d] # "working" /\ Pending(d) # {} =>
    \/ busErr[d]
    \/ isr[d].at = "start"
    \/ \E t \in Threads : \/ (pc[t] = "linkKick" /\ coreId[job[t]] = d)
                         \/ (pc[t] \in DropPcs /\ dev[t] = d)

Holds(t, d) == pc[t] \in HoldsLock /\ dev[t] = d
SemPcs == (LinkPcs \cup DropPcs \cup {"wild"}) \ {"linkSem", "dropSem"}
LocksHeld ==
  \A d \in Devs :
    /\ lock[d] = "isr" <=> isr[d].at # "out"
    /\ lock[d] = "thread" <=> \E t \in Threads : Holds(t, d)
    /\ \A t, u \in Threads : Holds(t, d) /\ Holds(u, d) => t = u

SemHeld == \A t \in Threads : pc[t] \in SemPcs <=> moduleSem = t

(* The spinlock of a device has one holder, the interrupt routine or the   *)
(* thread that is inside one of its sections, the semaphore of the module  *)
(* the one that links, drops or closes; and every way out of such a        *)
(* section gives them back: no path leaves one taken or frees it twice.    *)
LockOwners == LocksHeld /\ SemHeld

(* What VcmdContract sees of the engine: the stage of a cmdbuf is read off *)
(* what driver and client know of it, the jobs before it off its list.     *)
Stage(o) ==
  IF po[o] = Nil THEN "free"
  ELSE IF phase[o] = "none" THEN "released"
  ELSE IF phase[o] = "ready" THEN "delivered"
  ELSE IF coreId[o] = Nil THEN "reserved"
  ELSE IF runDone[o] THEN "reported"
  ELSE "queued"
Before(s, a, b) == \E i, j \in 1..Len(s) : i < j /\ s[i] = a /\ s[j] = b
Earlier(o) ==
  {a \in Objs : ~runDone[a] /\ \E d \in Devs : Before(workList[d], a, o)}

Contract ==
  INSTANCE VcmdContract WITH
    stage <- [o \in Objs |-> Stage(o)], proc <- po, on <- coreId,
    earlier <- [o \in Objs |-> Earlier(o)], result <- exeStatus

(* The engine keeps the contract: a cmdbuf is reserved, queued, run,       *)
(* reported, delivered, released and returned in this order, once each and *)
(* for one process; the jobs of a device run and are reported in the order *)
(* in which they were queued, and one reported as good has run.            *)
ImplementsContract == Contract!Spec

(* When DROP_OWNER or close comes back, all the process still has of that   *)
(* owner are cmdbufs that DROP_OWNER leaves because they are done.         *)
DropLeavesOnlyDone ==
  [][\A t \in Threads : Dropping(t) /\ drop[t].toSee = {} /\ pc'[t] = "user" =>
       \A o \in Owned(ProcOf[t]) : OfOwner(t, o) =>
         drop[t].owner # Nil /\ runDone[o]]_vars

(* Every job that was linked is reported, or dropped with its owner.       *)
EveryJobReported ==
  \A o \in Objs : phase[o] = "running" ~> phase[o] # "running"

(* A thread that drops an owner or closes its descriptor gets back.        *)
DropsEnd == \A t \in Threads : Dropping(t) ~> pc[t] = "user"
=============================================================================

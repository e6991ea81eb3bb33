----------------------------- MODULE CmdbufPool -----------------------------
(***************************************************************************)
(* The pool of free command buffers of the VCMD driver (hantro_vcmd.c):    *)
(* the si-list free_obj_list, guarded by its spinlock, and the counting    *)
(* semaphore free_obj_sema.  A step of this module is one access to the    *)
(* semaphore or one section under the list's spinlock, so the calls of     *)
(* several threads interleave between the semaphore and the list.          *)
(*                                                                         *)
(* An operator named X_Variant is X with a plausible bug in it.  Nothing   *)
(* uses it; put in the place of X it breaks one of the properties below.   *)
(***************************************************************************)
EXTENDS Integers, Sequences, FiniteSets

CONSTANTS Objs,        \* the command buffers, objs[SLOT_NUM_CMDBUF]
          Threads,     \* the threads that call acquire_cmdbuf / return_cmdbuf
          Nobody,      \* not a thread, and the owner of a free buffer
          InitOrder    \* the order in which vcmd_init_free_obj_list links objs

ASSUME ObjsFinite == IsFiniteSet(Objs)
ASSUME ThreadsFinite == IsFiniteSet(Threads)
ASSUME NobodyIsNoThread == Nobody \notin Threads
ASSUME InitOrderListsObjs ==
  /\ InitOrder \in Seq(Objs)
  /\ Len(InitOrder) = Cardinality(Objs)
  /\ \A o \in Objs : \E i \in 1..Len(InitOrder) : InitOrder[i] = o
  /\ \A i, j \in 1..Len(InitOrder) : InitOrder[i] = InitOrder[j] => i = j

VARIABLES sema,    \* the count of free_obj_sema
          list,    \* free_obj_list, head first
          pc,      \* where each thread is inside a call
          node,    \* the buffer a thread is returning
          owner    \* the thread that acquired a buffer and not returned it

vars == <<sema, list, pc, node, owner>>

Init_OneMore ==
  /\ sema = Len(InitOrder) + 1
  /\ list = InitOrder
  /\ pc = [t \in Threads |-> "idle"]
  /\ node = [t \in Threads |-> Nobody]
  /\ owner = [o \in Objs |-> Nobody]

Init ==
  /\ sema = Len(InitOrder)
  /\ list = InitOrder
  /\ pc = [t \in Threads |-> "idle"]
  /\ node = [t \in Threads |-> Nobody]
  /\ owner = [o \in Objs |-> Nobody]

---------------------------------------------------------------------------
(* acquire_cmdbuf: down_interruptible succeeds.  When it is interrupted    *)
(* the call returns with nothing changed, a step that stutters.            *)
SemDown_IgnoresSignal(t) ==
  /\ pc[t] = "idle"
  /\ sema' \in {sema, sema - 1} \cap Nat
  /\ pc' = [pc EXCEPT ![t] = "get"]
  /\ UNCHANGED <<list, node, owner>>

SemDown_NoWait(t) ==
  /\ pc[t] = "idle"
  /\ sema' = sema - 1
  /\ pc' = [pc EXCEPT ![t] = "get"]
  /\ UNCHANGED <<list, node, owner>>

SemDown(t) ==
  /\ pc[t] = "idle"
  /\ sema > 0
  /\ sema' = sema - 1
  /\ pc' = [pc EXCEPT ![t] = "get"]
  /\ UNCHANGED <<list, node, owner>>

(* acquire_cmdbuf: _si_list_get under the list's lock.  If the list is     *)
(* empty although the semaphore was not zero, the call fails ("get NULL    *)
(* node!") and the permit it took is gone.                                 *)
ListGet_Peeks(t) ==
  /\ pc[t] = "get"
  /\ pc' = [pc EXCEPT ![t] = "idle"]
  /\ IF list = <<>> THEN UNCHANGED owner
     ELSE owner' = [owner EXCEPT ![Head(list)] = t]
  /\ UNCHANGED <<sema, list, node>>

ListGet(t) ==
  /\ pc[t] = "get"
  /\ pc' = [pc EXCEPT ![t] = "idle"]
  /\ IF list = <<>>
       THEN UNCHANGED <<list, owner>>
       ELSE /\ owner' = [owner EXCEPT ![Head(list)] = t]
            /\ list' = Tail(list)
  /\ UNCHANGED <<sema, node>>

(* return_cmdbuf is called: obj->po = NULL ends the ownership, the node is *)
(* not yet on the list.                                                    *)
ReturnCall_KeepsPo(t, o) ==
  /\ pc[t] = "idle"
  /\ owner[o] = t
  /\ node' = [node EXCEPT ![t] = o]
  /\ pc' = [pc EXCEPT ![t] = "put"]
  /\ UNCHANGED <<sema, list, owner>>

ReturnCall(t, o) ==
  /\ pc[t] = "idle"
  /\ owner[o] = t
  /\ owner' = [owner EXCEPT ![o] = Nobody]
  /\ node' = [node EXCEPT ![t] = o]
  /\ pc' = [pc EXCEPT ![t] = "put"]
  /\ UNCHANGED <<sema, list>>

(* return_cmdbuf: _si_list_put under the list's lock.                      *)
ListPut_Overwrites(t) ==
  /\ pc[t] = "put"
  /\ list' = <<node[t]>>
  /\ node' = [node EXCEPT ![t] = Nobody]
  /\ pc' = [pc EXCEPT ![t] = "up"]
  /\ UNCHANGED <<sema, owner>>

ListPut(t) ==
  /\ pc[t] = "put"
  /\ list' = Append(list, node[t])
  /\ node' = [node EXCEPT ![t] = Nobody]
  /\ pc' = [pc EXCEPT ![t] = "up"]
  /\ UNCHANGED <<sema, owner>>

(* return_cmdbuf: up.                                                      *)
SemUp_LostUpdate(t) ==
  /\ pc[t] = "up"
  /\ sema' = IF \E u \in Threads \ {t} : pc[u] = "up" THEN sema ELSE sema + 1
  /\ pc' = [pc EXCEPT ![t] = "idle"]
  /\ UNCHANGED <<list, node, owner>>

SemUp(t) ==
  /\ pc[t] = "up"
  /\ sema' = sema + 1
  /\ pc' = [pc EXCEPT ![t] = "idle"]
  /\ UNCHANGED <<list, node, owner>>

InCall(t) == ListGet(t) \/ ListPut(t) \/ SemUp(t)

Next ==
  \E t \in Threads :
    \/ SemDown(t)
    \/ InCall(t)
    \/ \E o \in Objs : ReturnCall(t, o)

(* A call that is past its semaphore runs to its end: the kernel schedules *)
(* the thread.  Fairness says nothing of the callers' decision to call.    *)
Fairness == \A t \in Threads : WF_vars(InCall(t))

Spec == Init /\ [][Next]_vars /\ Fairness

---------------------------------------------------------------------------
TypeOK ==
  /\ sema \in Nat
  /\ list \in Seq(Objs)
  /\ pc \in [Threads -> {"idle", "get", "put", "up"}]
  /\ node \in [Threads -> Objs \cup {Nobody}]
  /\ owner \in [Objs -> Threads \cup {Nobody}]

Listed == {list[i] : i \in 1..Len(list)}
At(loc) == {t \in Threads : pc[t] = loc}

(* A thread that got past the semaphore finds a node on the list: the      *)
(* "get NULL node!" error of acquire_cmdbuf is unreachable, whatever the   *)
(* interleaving of the list and the semaphore accesses of several threads. *)
NoNullNode == \A t \in Threads : pc[t] = "get" => list # <<>>

(* The semaphore never promises more than the list holds: every node on    *)
(* the list is counted by the semaphore, by a thread that took a permit    *)
(* and not yet a node, or by one that put a node and not yet its permit.   *)
PermitsMatchNodes ==
  Len(list) = sema + Cardinality(At("get")) + Cardinality(At("up"))

(* On the free list once, on its way back to it in one thread, or owned.   *)
OnePlace ==
  /\ \A i, j \in 1..Len(list) : list[i] = list[j] => i = j
  /\ \A t \in Threads : pc[t] = "put" =>
       /\ node[t] \in Objs \ Listed
       /\ owner[node[t]] = Nobody
       /\ \A u \in Threads \ {t} : pc[u] = "put" => node[u] # node[t]
  /\ \A o \in Listed : owner[o] = Nobody

(* One that is neither owned nor on its way back is on the free list.      *)
NoneLost ==
  \A o \in Objs : \/ owner[o] # Nobody
                  \/ o \in Listed
                  \/ \E t \in Threads : pc[t] = "put" /\ node[t] = o

(* A buffer is in exactly one place: acquire never hands out one that      *)
(* another caller still has (the contract "acquire a free cmdbuf"), and    *)
(* none is lost, so the pool never shrinks.                                *)
InOnePlace == OnePlace /\ NoneLost

(* The decisions of the callers: to acquire a buffer, to return one.        *)
Calling == \E t \in Threads : SemDown(t) \/ \E o \in Objs : ReturnCall(t, o)

(* Not one permit is lost.  When the callers come to rest, the calls under *)
(* way put their nodes and permits back, and from then on the semaphore    *)
(* counts every buffer that nobody owns: with no owner left the count is   *)
(* the whole pool again, and the next SLOT_NUM_CMDBUF callers of           *)
(* acquire_cmdbuf do not sleep.                                            *)
PermitsComeBack ==
  \/ []<><<Calling>>_vars
  \/ <>[](sema + Cardinality({o \in Objs : owner[o] # Nobody})
             = Cardinality(Objs))

(* The pool implements the ownership contract; a buffer changes hands when *)
(* it leaves the list and when return_cmdbuf is entered.                   *)
Contract == INSTANCE CmdbufOwnership
ImplementsOwnership == Contract!Spec
=============================================================================

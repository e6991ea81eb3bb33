-------------------------- MODULE CmdbufPoolProofs --------------------------
(***************************************************************************)
(* Proofs about the pool of command buffers, for any number of buffers and *)
(* of threads.  The inductive invariant joins the types, the balance of    *)
(* the semaphore with the list, and the place of each buffer: the balance  *)
(* makes "get NULL node!" unreachable, the places make a handed-out buffer *)
(* free at the moment it is handed out.                                    *)
(***************************************************************************)
EXTENDS CmdbufPool, FiniteSetTheorems, TLAPS

IInv == TypeOK /\ PermitsMatchNodes /\ OnePlace

---------------------------------------------------------------------------
(* Counting the threads at a place of the code.                            *)
LEMMA AtIsFinite ==
  ASSUME NEW CONSTANT loc
  PROVE  IsFiniteSet(At(loc)) /\ Cardinality(At(loc)) \in Nat
<1>1. At(loc) \in SUBSET Threads
  BY DEF At
<1>2. IsFiniteSet(At(loc))
  BY <1>1, ThreadsFinite, FS_Subset
<1> QED
  BY <1>2, FS_CardinalityType

(* One thread more at a place, and one less.                               *)
LEMMA Arrives ==
  ASSUME NEW CONSTANT loc, NEW t, t \notin At(loc), At(loc)' = At(loc) \cup {t}
  PROVE  Cardinality(At(loc))' = Cardinality(At(loc)) + 1
BY AtIsFinite, FS_AddElement

LEMMA Leaves ==
  ASSUME NEW CONSTANT loc, NEW t, t \in At(loc), At(loc)' = At(loc) \ {t}
  PROVE  Cardinality(At(loc))' = Cardinality(At(loc)) - 1
BY AtIsFinite, FS_RemoveElement

---------------------------------------------------------------------------
LEMMA InitIInv == Init => IInv
<1> SUFFICES ASSUME Init PROVE IInv
  OBVIOUS
<1>1. TypeOK
  BY InitOrderListsObjs, ObjsFinite, FS_CardinalityType DEF Init, TypeOK
<1>2. At("get") = {} /\ At("up") = {}
  BY DEF Init, At
<1>3. PermitsMatchNodes
  <2>1. Cardinality(At("get")) = 0 /\ Cardinality(At("up")) = 0
    BY <1>2, FS_EmptySet
  <2> QED
    BY <1>1, <2>1 DEF PermitsMatchNodes, Init, TypeOK
<1>4. OnePlace
  BY InitOrderListsObjs DEF Init, OnePlace, Listed
<1> QED
  BY <1>1, <1>3, <1>4 DEF IInv

(* The balance says that the list is not empty where a node is taken.      *)
LEMMA NodeThere ==
  ASSUME TypeOK, PermitsMatchNodes, NEW t \in Threads, pc[t] = "get"
  PROVE  list # <<>>
<1>1. t \in At("get")
  BY DEF At
<1>2. Cardinality(At("get")) # 0
  BY <1>1, AtIsFinite, FS_EmptySet
<1>3. Cardinality(At("get")) \in Nat /\ Cardinality(At("up")) \in Nat
  BY AtIsFinite
<1>4. Len(list) > 0
  BY <1>2, <1>3 DEF PermitsMatchNodes, TypeOK
<1> QED
  BY <1>4

LEMMA StepTypeOK == IInv /\ [Next]_vars => TypeOK'
<1> SUFFICES ASSUME IInv, [Next]_vars PROVE TypeOK'
  OBVIOUS
<1> USE DEF TypeOK, IInv
<1>1. ASSUME NEW t \in Threads, SemDown(t) PROVE TypeOK'
  BY <1>1 DEF SemDown
<1>2. ASSUME NEW t \in Threads, ListGet(t) PROVE TypeOK'
  <2>1. list # <<>>
    BY <1>2, NodeThere DEF ListGet
  <2> QED
    BY <1>2, <2>1 DEF ListGet
<1>3. ASSUME NEW t \in Threads, ListPut(t) PROVE TypeOK'
  BY <1>3 DEF ListPut, OnePlace
<1>4. ASSUME NEW t \in Threads, SemUp(t) PROVE TypeOK'
  BY <1>4 DEF SemUp
<1>5. ASSUME NEW t \in Threads, NEW o \in Objs, ReturnCall(t, o) PROVE TypeOK'
  BY <1>5 DEF ReturnCall
<1>6. CASE UNCHANGED vars
  BY <1>6 DEF vars
<1> QED
  BY <1>1, <1>2, <1>3, <1>4, <1>5, <1>6 DEF Next, InCall

(* Every step moves a permit and a node across the balance together, or    *)
(* moves the thread from one side of the balance to the other.             *)
LEMMA StepPermits == IInv /\ [Next]_vars => PermitsMatchNodes'
<1> SUFFICES ASSUME IInv, [Next]_vars PROVE PermitsMatchNodes'
  OBVIOUS
<1> USE DEF IInv
<1>0. /\ Cardinality(At("get")) \in Nat
      /\ Cardinality(At("up")) \in Nat
      /\ sema \in Nat /\ list \in Seq(Objs)
      /\ Len(list) = sema + Cardinality(At("get")) + Cardinality(At("up"))
  BY AtIsFinite DEF TypeOK, PermitsMatchNodes
<1>1. ASSUME NEW t \in Threads, SemDown(t) PROVE PermitsMatchNodes'
  <2>1. /\ Cardinality(At("get"))' = Cardinality(At("get")) + 1
        /\ Cardinality(At("up"))' = Cardinality(At("up"))
    <3>1. /\ At("get")' = At("get") \cup {t} /\ t \notin At("get")
          /\ At("up")' = At("up")
      BY <1>1 DEF SemDown, At, TypeOK
    <3> QED
      BY <3>1, Arrives
  <2> QED
    BY <1>0, <1>1, <2>1 DEF SemDown, PermitsMatchNodes
<1>2. ASSUME NEW t \in Threads, ListGet(t) PROVE PermitsMatchNodes'
  <2>1. /\ Cardinality(At("get"))' = Cardinality(At("get")) - 1
        /\ Cardinality(At("up"))' = Cardinality(At("up"))
    <3>1. /\ At("get")' = At("get") \ {t} /\ t \in At("get")
          /\ At("up")' = At("up")
      BY <1>2 DEF ListGet, At, TypeOK
    <3> QED
      BY <3>1, Leaves
  <2>2. list # <<>> /\ list' = Tail(list) /\ sema' = sema
    BY <1>2, NodeThere DEF ListGet
  <2>3. Len(list') = Len(list) - 1
    BY <1>0, <2>2
  <2> QED
    BY <1>0, <2>1, <2>2, <2>3 DEF PermitsMatchNodes
<1>3. ASSUME NEW t \in Threads, ListPut(t) PROVE PermitsMatchNodes'
  <2>1. /\ Cardinality(At("up"))' = Cardinality(At("up")) + 1
        /\ Cardinality(At("get"))' = Cardinality(At("get"))
    <3>1. /\ At("up")' = At("up") \cup {t} /\ t \notin At("up")
          /\ At("get")' = At("get")
      BY <1>3 DEF ListPut, At, TypeOK
    <3> QED
      BY <3>1, Arrives
  <2>2. list' = Append(list, node[t]) /\ sema' = sema
    BY <1>3 DEF ListPut
  <2>3. Len(list') = Len(list) + 1
    BY <1>0, <2>2
  <2> QED
    BY <1>0, <2>1, <2>2, <2>3 DEF PermitsMatchNodes
<1>4. ASSUME NEW t \in Threads, SemUp(t) PROVE PermitsMatchNodes'
  <2>1. /\ Cardinality(At("up"))' = Cardinality(At("up")) - 1
        /\ Cardinality(At("get"))' = Cardinality(At("get"))
    <3>1. /\ At("up")' = At("up") \ {t} /\ t \in At("up")
          /\ At("get")' = At("get")
      BY <1>4 DEF SemUp, At, TypeOK
    <3> QED
      BY <3>1, Leaves
  <2> QED
    BY <1>0, <1>4, <2>1 DEF SemUp, PermitsMatchNodes
<1>5. ASSUME NEW t \in Threads, NEW o \in Objs, ReturnCall(t, o)
      PROVE  PermitsMatchNodes'
  <2>1. /\ Cardinality(At("up"))' = Cardinality(At("up"))
        /\ Cardinality(At("get"))' = Cardinality(At("get"))
    BY <1>5 DEF ReturnCall, At, TypeOK
  <2> QED
    BY <1>0, <1>5, <2>1 DEF ReturnCall, PermitsMatchNodes
<1>6. CASE UNCHANGED vars
  BY <1>6 DEF vars, PermitsMatchNodes, At
<1> QED
  BY <1>1, <1>2, <1>3, <1>4, <1>5, <1>6 DEF Next, InCall

---------------------------------------------------------------------------
(* The list loses its head, or gains one node at its tail.                 *)
LEMMA ListedTail ==
  ASSUME list \in Seq(Objs), list # <<>>,
         \A i, j \in 1..Len(list) : list[i] = list[j] => i = j,
         list' = Tail(list)
  PROVE  /\ Listed' = Listed \ {Head(list)}
         /\ Head(list) \in Listed
         /\ \A i, j \in 1..Len(list') : list'[i] = list'[j] => i = j
<1>1. /\ Len(list) > 0 /\ Len(list') = Len(list) - 1
      /\ \A i \in 1..Len(list') : list'[i] = list[i+1]
      /\ Head(list) = list[1]
  OBVIOUS
<1>2. Head(list) \in Listed
  BY <1>1 DEF Listed
<1>3. \A o \in Listed' : o \in Listed \ {Head(list)}
  BY <1>1 DEF Listed
<1>4. \A o \in Listed \ {Head(list)} : o \in Listed'
  <2> SUFFICES ASSUME NEW i \in 1..Len(list), list[i] # Head(list)
               PROVE  list[i] \in Listed'
    BY DEF Listed
  <2>1. i - 1 \in 1..Len(list') /\ list'[i - 1] = list[i]
    BY <1>1
  <2> QED
    BY <2>1 DEF Listed
<1>5. \A i, j \in 1..Len(list') : list'[i] = list'[j] => i = j
  BY <1>1
<1> QED
  BY <1>2, <1>3, <1>4, <1>5

LEMMA ListedAppend ==
  ASSUME list \in Seq(Objs), NEW o \in Objs, o \notin Listed,
         \A i, j \in 1..Len(list) : list[i] = list[j] => i = j,
         list' = Append(list, o)
  PROVE  /\ Listed' = Listed \cup {o}
         /\ \A i, j \in 1..Len(list') : list'[i] = list'[j] => i = j
<1>1. /\ Len(list') = Len(list) + 1
      /\ \A i \in 1..Len(list) : list'[i] = list[i]
      /\ list'[Len(list) + 1] = o
  OBVIOUS
<1>2. 1..Len(list') = 1..Len(list) \cup {Len(list) + 1}
  BY <1>1
<1>3. Listed' = Listed \cup {o}
  BY <1>1, <1>2 DEF Listed
<1>4. \A i, j \in 1..Len(list') : list'[i] = list'[j] => i = j
  BY <1>1, <1>2 DEF Listed
<1> QED
  BY <1>3, <1>4

LEMMA StepOnePlace == IInv /\ [Next]_vars => OnePlace'
<1> SUFFICES ASSUME IInv, [Next]_vars PROVE OnePlace'
  OBVIOUS
<1> USE DEF IInv
<1>1. ASSUME NEW t \in Threads, SemDown(t) PROVE OnePlace'
  BY <1>1 DEF SemDown, OnePlace, Listed, TypeOK
<1>2. ASSUME NEW t \in Threads, ListGet(t) PROVE OnePlace'
  <2>1. /\ list # <<>> /\ list' = Tail(list)
        /\ owner' = [owner EXCEPT ![Head(list)] = t]
        /\ node' = node /\ pc' = [pc EXCEPT ![t] = "idle"]
    BY <1>2, NodeThere DEF ListGet
  <2>2. /\ Listed' = Listed \ {Head(list)}
        /\ Head(list) \in Listed
        /\ \A i, j \in 1..Len(list') : list'[i] = list'[j] => i = j
    BY <2>1, ListedTail DEF OnePlace, TypeOK
  <2>3. Listed \subseteq Objs
    BY DEF Listed, TypeOK
  <2>4. \A u \in Threads : pc'[u] = "put" => pc[u] = "put" /\ u # t
    BY <2>1 DEF TypeOK
  <2>5. \A o \in Objs \ {Head(list)} : owner'[o] = owner[o]
    BY <2>1 DEF TypeOK
  <2> QED
    BY <2>1, <2>2, <2>3, <2>4, <2>5 DEF OnePlace
<1>3. ASSUME NEW t \in Threads, ListPut(t) PROVE OnePlace'
  <2>1. /\ list' = Append(list, node[t]) /\ owner' = owner
        /\ node' = [node EXCEPT ![t] = Nobody]
        /\ pc[t] = "put" /\ pc' = [pc EXCEPT ![t] = "up"]
    BY <1>3 DEF ListPut
  <2>2. node[t] \in Objs \ Listed /\ owner[node[t]] = Nobody
    BY <2>1 DEF OnePlace
  <2>3. /\ Listed' = Listed \cup {node[t]}
        /\ \A i, j \in 1..Len(list') : list'[i] = list'[j] => i = j
    BY <2>1, <2>2, ListedAppend DEF OnePlace, TypeOK
  <2>4. \A u \in Threads : pc'[u] = "put" =>
          pc[u] = "put" /\ u # t /\ node'[u] = node[u]
    BY <2>1 DEF TypeOK
  <2> QED
    BY <2>1, <2>2, <2>3, <2>4 DEF OnePlace
<1>4. ASSUME NEW t \in Threads, SemUp(t) PROVE OnePlace'
  BY <1>4 DEF SemUp, OnePlace, Listed, TypeOK
<1>5. ASSUME NEW t \in Threads, NEW o \in Objs, ReturnCall(t, o)
      PROVE  OnePlace'
  <2>1. /\ owner[o] = t /\ owner' = [owner EXCEPT ![o] = Nobody]
        /\ node' = [node EXCEPT ![t] = o] /\ list' = list
        /\ pc' = [pc EXCEPT ![t] = "put"]
    BY <1>5 DEF ReturnCall
  <2>2. Listed' = Listed /\ o \notin Listed
    BY <2>1, NobodyIsNoThread DEF OnePlace, Listed
  <2>3. \A u \in Threads \ {t} : pc[u] = "put" => node[u] # o
    BY <2>1, NobodyIsNoThread DEF OnePlace
  <2>4. /\ node'[t] = o /\ owner'[o] = Nobody
        /\ \A u \in Threads \ {t} : node'[u] = node[u] /\ pc'[u] = pc[u]
        /\ \A q \in Objs : owner[q] = Nobody => owner'[q] = Nobody
    BY <2>1 DEF TypeOK
  <2>5. Listed \subseteq Objs
    BY DEF Listed, TypeOK
  <2> QED
    BY <2>1, <2>2, <2>3, <2>4, <2>5 DEF OnePlace
<1>6. CASE UNCHANGED vars
  BY <1>6 DEF vars, OnePlace, Listed
<1> QED
  BY <1>1, <1>2, <1>3, <1>4, <1>5, <1>6 DEF Next, InCall

---------------------------------------------------------------------------
(* The inductive invariant holds in every reachable state.                 *)
THEOREM Invariance == Spec => []IInv
<1>1. IInv /\ [Next]_vars => IInv'
  BY StepTypeOK, StepPermits, StepOnePlace DEF IInv
<1> QED
  BY InitIInv, <1>1, PTL DEF Spec

(* The variables have their types: in particular the counts of the         *)
(* semaphore never go below zero and a thread puts a buffer, not Nobody.   *)
THEOREM TypeCorrect == Spec => []TypeOK
<1>1. IInv => TypeOK
  BY DEF IInv
<1> QED
  BY Invariance, <1>1, PTL

(* The semaphore and the list stay in balance.                             *)
THEOREM PermitsBalance == Spec => []PermitsMatchNodes
<1>1. IInv => PermitsMatchNodes
  BY DEF IInv
<1> QED
  BY Invariance, <1>1, PTL

(* acquire_cmdbuf never sees the empty list behind its semaphore: the      *)
(* "get NULL node!" error is unreachable for any number of callers.        *)
THEOREM NeverNullNode == Spec => []NoNullNode
<1>1. IInv => NoNullNode
  BY NodeThere DEF IInv, NoNullNode
<1> QED
  BY Invariance, <1>1, PTL

---------------------------------------------------------------------------
(* No buffer gets lost.                                                    *)
LEMMA StepNoneLost == IInv /\ NoneLost /\ [Next]_vars => NoneLost'
<1> SUFFICES ASSUME IInv, NoneLost, [Next]_vars, NEW q \in Objs
             PROVE  \/ owner'[q] # Nobody
                    \/ q \in Listed'
                    \/ \E u \in Threads : pc'[u] = "put" /\ node'[u] = q
  BY DEF NoneLost
<1> USE DEF IInv
<1>0. \/ owner[q] # Nobody
      \/ q \in Listed
      \/ \E u \in Threads : pc[u] = "put" /\ node[u] = q
  BY DEF NoneLost
<1>1. ASSUME NEW t \in Threads, SemDown(t)
      PROVE  UNCHANGED <<owner, Listed, node>>
             /\ \A u \in Threads : pc[u] = "put" => pc'[u] = "put"
  BY <1>1 DEF SemDown, Listed, TypeOK
<1>2. ASSUME NEW t \in Threads, ListGet(t)
      PROVE  \/ owner'[q] # Nobody
             \/ q \in Listed'
             \/ \E u \in Threads : pc'[u] = "put" /\ node'[u] = q
  <2>1. /\ list # <<>> /\ list' = Tail(list)
        /\ owner' = [owner EXCEPT ![Head(list)] = t]
        /\ node' = node /\ pc' = [pc EXCEPT ![t] = "idle"] /\ pc[t] = "get"
    BY <1>2, NodeThere DEF ListGet
  <2>2. Listed' = Listed \ {Head(list)}
    BY <2>1, ListedTail DEF OnePlace, TypeOK
  <2>3. \A u \in Threads : pc[u] = "put" => pc'[u] = "put"
    BY <2>1 DEF TypeOK
  <2>4. owner[q] # Nobody \/ q = Head(list) => owner'[q] # Nobody
    BY <2>1, NobodyIsNoThread DEF TypeOK
  <2> QED
    BY <1>0, <2>1, <2>2, <2>3, <2>4
<1>3. ASSUME NEW t \in Threads, ListPut(t)
      PROVE  \/ owner'[q] # Nobody
             \/ q \in Listed'
             \/ \E u \in Threads : pc'[u] = "put" /\ node'[u] = q
  <2>1. /\ list' = Append(list, node[t]) /\ owner' = owner
        /\ node' = [node EXCEPT ![t] = Nobody]
        /\ pc[t] = "put" /\ pc' = [pc EXCEPT ![t] = "up"]
    BY <1>3 DEF ListPut
  <2>2. Listed' = Listed \cup {node[t]}
    BY <2>1, ListedAppend DEF OnePlace, TypeOK
  <2>3. \A u \in Threads \ {t} : pc'[u] = pc[u] /\ node'[u] = node[u]
    BY <2>1 DEF TypeOK
  <2> QED
    BY <1>0, <2>1, <2>2, <2>3
<1>4. ASSUME NEW t \in Threads, SemUp(t)
      PROVE  UNCHANGED <<owner, Listed, node>>
             /\ \A u \in Threads : pc[u] = "put" => pc'[u] = "put"
  BY <1>4 DEF SemUp, Listed, TypeOK
<1>5. ASSUME NEW t \in Threads, NEW o \in Objs, ReturnCall(t, o)
      PROVE  \/ owner'[q] # Nobody
             \/ q \in Listed'
             \/ \E u \in Threads : pc'[u] = "put" /\ node'[u] = q
  <2>1. /\ pc[t] = "idle" /\ owner' = [owner EXCEPT ![o] = Nobody]
        /\ node' = [node EXCEPT ![t] = o] /\ list' = list
        /\ pc' = [pc EXCEPT ![t] = "put"]
    BY <1>5 DEF ReturnCall
  <2>2. pc'[t] = "put" /\ node'[t] = o
    BY <2>1 DEF TypeOK
  <2>3. \A u \in Threads \ {t} : pc'[u] = pc[u] /\ node'[u] = node[u]
    BY <2>1 DEF TypeOK
  <2>4. Listed' = Listed /\ (q # o => owner'[q] = owner[q])
    BY <2>1 DEF Listed, TypeOK
  <2> QED
    BY <1>0, <2>1, <2>2, <2>3, <2>4
<1>6. CASE UNCHANGED vars
  BY <1>0, <1>6 DEF vars, Listed
<1> QED
  BY <1>0, <1>1, <1>2, <1>3, <1>4, <1>5, <1>6 DEF Next, InCall

(* Every buffer is in exactly one place: no caller gets one that another   *)
(* still has, and the pool never shrinks, whatever the callers do.         *)
THEOREM BuffersInOnePlace == Spec => []InOnePlace
<1>1. Init => NoneLost
  BY InitOrderListsObjs DEF Init, NoneLost, Listed
<1>2. IInv /\ NoneLost => InOnePlace
  BY DEF IInv, InOnePlace
<1> QED
  BY Invariance, <1>1, <1>2, StepNoneLost, PTL DEF Spec

---------------------------------------------------------------------------
(* A buffer is taken by ListGet while it is free and given by ReturnCall   *)
(* while it is owned; every other step leaves the owners alone.            *)
LEMMA StepContract == IInv /\ [Next]_vars => [Contract!Next]_owner
<1> SUFFICES ASSUME IInv, [Next]_vars PROVE [Contract!Next]_owner
  OBVIOUS
<1> USE DEF IInv
<1>1. ASSUME NEW t \in Threads, ListGet(t) PROVE Contract!Next
  <2>1. list # <<>> /\ owner' = [owner EXCEPT ![Head(list)] = t]
    BY <1>1, NodeThere DEF ListGet
  <2>2. Head(list) \in Objs /\ Head(list) \in Listed
    BY <2>1 DEF TypeOK, Listed
  <2>3. Contract!Take(t, Head(list))
    BY <2>1, <2>2 DEF OnePlace, Contract!Take
  <2> QED
    BY <2>2, <2>3 DEF Contract!Next
<1>2. ASSUME NEW t \in Threads, NEW o \in Objs, ReturnCall(t, o)
      PROVE  Contract!Next
  BY <1>2 DEF ReturnCall, Contract!Give, Contract!Next
<1>3. ASSUME NEW t \in Threads, SemDown(t) \/ ListPut(t) \/ SemUp(t)
      PROVE  UNCHANGED owner
  BY <1>3 DEF SemDown, ListPut, SemUp
<1>4. CASE UNCHANGED vars
  BY <1>4 DEF vars
<1> QED
  BY <1>1, <1>2, <1>3, <1>4 DEF Next, InCall

(* The pool implements the ownership contract of acquire and return.       *)
THEOREM Refinement == Spec => ImplementsOwnership
<1>1. Init => Contract!Init
  BY DEF Init, Contract!Init
<1> QED
  BY Invariance, <1>1, StepContract, PTL DEF Spec, ImplementsOwnership, Contract!Spec
=============================================================================

--------------------------- MODULE VcmdListProofs ---------------------------
(***************************************************************************)
(* Who has a cmdbuf: the pool, a work list, a done list, a client.  For    *)
(* any number of cmdbufs, threads, processes and devices, with signals,    *)
(* command and bus errors, END and JMP, no cmdbuf is on two lists, or      *)
(* returned while somebody has it, or reported twice, and no waiter sleeps *)
(* on a job that is reported.                                              *)
(*                                                                         *)
(* It holds on any number of CPUs, with calls that overlap, up to the      *)
(* first ListRace: the theorems are about Safety, whose behaviours may end *)
(* anywhere, so they speak of every state before such a step.  The code    *)
(* does take such steps; that nothing else can break its lists, as long as *)
(* nobody drops or closes, is what is proved here.                         *)
(***************************************************************************)
EXTENDS VcmdProofs

NoDropCalls == Droppers = {} /\ Closers = {}

(* The cmdbufs a call, or the interrupt routine, has a pointer to and will *)
(* look at again.                                                          *)
Listed == {"linkKick", "linkPrev"}
UsedByCall(t, o) ==
  \/ pc[t] \in ReleasePcs /\ o = job[t]
  \/ pc[t] \in Listed /\ o \in {job[t], PrevOf(coreId[job[t]], job[t])}
UsedByIsr(d, o) ==
  \/ isr[d].at \in {"walk", "curr"} /\ o = isr[d].curr
  \/ isr[d].at = "walk" /\ o = isr[d].node

(* A cmdbuf is returned to the pool while another call still uses it: what *)
(* becomes of a cmdbuf that two overlapping calls find marked for removal. *)
ReturnedInUse ==
  \E o \in Objs, t \in Threads :
    o \notin avail /\ o \in avail' /\ UsedByCall(t, o)'

(* A free cmdbuf is reserved while the interrupt routine still uses it.    *)
ReservedInUse ==
  \E o \in Objs, d \in Devs :
    o \in avail /\ o \notin avail' /\ UsedByIsr(d, o)

ListRace == ReturnedInUse \/ ReservedInUse

---------------------------------------------------------------------------
(* The inductive invariant, by what it is about.                           *)
Busy == LinkPcs \cup ReleasePcs
Idle == {"user", "resWait", "resTake"}

PlainCalls ==
  /\ \A t \in Threads : pc[t] \notin DropPcs \cup {"wild"}
  /\ \A t \in Threads : pc[t] \in Idle => job[t] = Nil

Distinct(s) == \A i, j \in 1..Len(s) : s[i] = s[j] => i = j

ListsExact ==
  \A d \in Devs :
    /\ \A o \in Objs : On(workList[d], o) <=> linked[o] /\ coreId[o] = d
    /\ Distinct(workList[d])

(* The job a link call has just added is the last one of its list.  A      *)
(* released cmdbuf that stays on the list for its JMP is the last one, or  *)
(* the one before a job that was just added.                               *)
KeptInList(o) == needRemove[o] /\ \A t \in Threads : job[t] # o
JustAdded(o) == \E t \in Threads : pc[t] \in Listed /\ job[t] = o

KeptAtEnd ==
  \A d \in Devs : \A i, j \in 1..Len(workList[d]) :
    i < j => /\ ~JustAdded(workList[d][i])
             /\ KeptInList(workList[d][i]) => JustAdded(workList[d][j])

PoolOk(o) ==
  /\ o \in avail <=> po[o] = Nil
  /\ o \in avail => ~linked[o] /\ phase[o] = "none"

PoolSound == sema = Cardinality(avail) /\ \A o \in Objs : PoolOk(o)

(* The life of a cmdbuf, as its client and the driver see it.              *)
LifeOk(o) ==
  /\ phase[o] = "reserved" => coreId[o] = Nil /\ ~runDone[o]
  /\ phase[o] # "none" => ~needRemove[o]
  /\ phase[o] = "ready" => runDone[o]
  /\ coreId[o] # Nil /\ ~runDone[o] => linked[o] /\ phase[o] = "running"

LifeSound == \A o \in Objs : LifeOk(o)

Waits == {"waiting", "asleep"}
WaiterOk(t) ==
  pc[t] \in Waits =>
    IF job[t] = Nil THEN HasListener(ProcOf[t])
    ELSE /\ ~HasListener(ProcOf[t]) /\ holder[job[t]] = t
         /\ phase[job[t]] = "running" /\ po[job[t]] = ProcOf[t]

Unlisted == {"linkSem", "linkScan"}
LinkerOk(t) ==
  /\ pc[t] \in Unlisted =>
       /\ phase[job[t]] = "running" /\ holder[job[t]] = t
       /\ coreId[job[t]] = Nil /\ ~runDone[job[t]]
  /\ pc[t] \in Listed => coreId[job[t]] # Nil /\ job[t] \notin avail
  /\ pc[t] = "linkPrev" => dev[t] = coreId[job[t]]

(* What the predecessor of a job that was taken off the list is, for the   *)
(* link call that still has to look at it.                                 *)
PrevOk(t) ==
  pc[t] \in Listed /\ ~linked[job[t]] /\ stale[job[t]].prev # Nil =>
    /\ stale[job[t]].prev \notin avail
    /\ coreId[stale[job[t]].prev] = coreId[job[t]]

ReleaserOk(t) ==
  pc[t] \in ReleasePcs =>
    needRemove[job[t]] /\ job[t] \notin avail /\ dev[t] = coreId[job[t]]

CallOk(t) == WaiterOk(t) /\ LinkerOk(t) /\ PrevOk(t) /\ ReleaserOk(t)
CallsSound == \A t \in Threads : CallOk(t)

DoneSound ==
  \A p \in Procs :
    /\ \A o \in Objs : On(jobDone[p], o) =>
         po[o] = p /\ runDone[o] /\ phase[o] = "running"
    /\ Distinct(jobDone[p])

(* The interrupt routine stays on the list of its device.                  *)
IsrOk(d) ==
  /\ isr[d].at = "read" => isr[d].node = Nil
  /\ isr[d].at \in {"walk", "curr"} => coreId[isr[d].curr] = d
  /\ isr[d].at = "walk" /\ isr[d].node # Nil =>
       LET x == isr[d].node
           n == stale[x].next
       IN /\ coreId[x] = d
          /\ ~linked[x] /\ n # Nil => linked[n] /\ coreId[n] = d

IsrSound == \A d \in Devs : IsrOk(d)

SleepSound == \A t \in Threads : pc[t] = "asleep" => inWait[ProcOf[t]]

ListInv ==
  /\ PlainCalls /\ ListsExact /\ KeptAtEnd /\ PoolSound /\ LifeSound
  /\ CallsSound /\ DoneSound /\ IsrSound /\ SleepSound

---------------------------------------------------------------------------
(* Lists.  Taking an element out keeps the others, in their order.         *)
LEMMA OnAppend ==
  ASSUME NEW s \in Seq(Objs), NEW o \in Objs
  PROVE  /\ Append(s, o) \in Seq(Objs)
         /\ \A x : On(Append(s, o), x) <=> On(s, x) \/ x = o
         /\ Distinct(s) /\ ~On(s, o) => Distinct(Append(s, o))
<1>1. /\ Append(s, o) \in Seq(Objs) /\ Len(Append(s, o)) = Len(s) + 1
      /\ \A i \in 1..Len(s) : Append(s, o)[i] = s[i]
      /\ Append(s, o)[Len(s) + 1] = o
  OBVIOUS
<1>2. \A x : On(Append(s, o), x) <=> On(s, x) \/ x = o
  <2>1. Len(s) \in Nat
    OBVIOUS
  <2>2. ASSUME NEW x, On(Append(s, o), x) PROVE On(s, x) \/ x = o
    <3>1. PICK i \in 1..(Len(s) + 1) : Append(s, o)[i] = x
      BY <1>1, <2>2 DEF On
    <3>2. i \in 1..Len(s) \/ i = Len(s) + 1
      BY <2>1
    <3> QED
      BY <1>1, <3>1, <3>2 DEF On
  <2>3. ASSUME NEW x, On(s, x) \/ x = o PROVE On(Append(s, o), x)
    <3>1. CASE x = o
      <4>1. Len(s) + 1 \in 1..Len(Append(s, o))
        BY <1>1, <2>1
      <4> QED
        BY <1>1, <3>1, <4>1 DEF On
    <3>2. CASE On(s, x)
      <4>1. PICK i \in 1..Len(s) : s[i] = x
        BY <3>2 DEF On
      <4>2. i \in 1..Len(Append(s, o)) /\ Append(s, o)[i] = x
        BY <1>1, <2>1, <4>1
      <4> QED
        BY <4>2 DEF On
    <3> QED
      BY <2>3, <3>1, <3>2
  <2> QED
    BY <2>2, <2>3
<1>3. ASSUME Distinct(s), ~On(s, o) PROVE Distinct(Append(s, o))
  <2>1. \A i \in 1..Len(s) : s[i] # o
    BY <1>3 DEF On
  <2>2. \A i \in 1..Len(Append(s, o)) :
          \/ i \in 1..Len(s) /\ Append(s, o)[i] = s[i]
          \/ i = Len(s) + 1 /\ Append(s, o)[i] = o
    BY <1>1
  <2> QED
    BY <1>3, <2>1, <2>2 DEF Distinct
<1> QED
  BY <1>1, <1>2, <1>3

LEMMA RemoveAtElements ==
  ASSUME NEW s \in Seq(Objs), NEW k \in 1..Len(s)
  PROVE  /\ RemoveAt(s, k) \in Seq(Objs)
         /\ Len(RemoveAt(s, k)) = Len(s) - 1
         /\ \A i \in 1..(Len(s) - 1) :
              RemoveAt(s, k)[i] = IF i < k THEN s[i] ELSE s[i + 1]
<1> DEFINE a == SubSeq(s, 1, k - 1)
           b == SubSeq(s, k + 1, Len(s))
<1>1. /\ a \in Seq(Objs) /\ Len(a) = k - 1
      /\ \A i \in 1..(k - 1) : a[i] = s[i]
  OBVIOUS
<1>2. /\ b \in Seq(Objs) /\ Len(b) = Len(s) - k
      /\ \A i \in 1..(Len(s) - k) : b[i] = s[i + k]
  OBVIOUS
<1>3. RemoveAt(s, k) = a \o b
  BY DEF RemoveAt
<1> HIDE DEF a, b
<1>4. a \o b \in Seq(Objs) /\ Len(a \o b) = Len(s) - 1
  BY <1>1, <1>2
<1>5. ASSUME NEW i \in 1..(Len(s) - 1)
      PROVE  (a \o b)[i] = IF i < k THEN s[i] ELSE s[i + 1]
  <2>1. CASE i < k
    BY <1>1, <1>2, <2>1
  <2>2. CASE ~(i < k)
    <3>1. i - (k - 1) \in 1..(Len(s) - k)
      BY <2>2
    <3>2. (a \o b)[i] = b[i - (k - 1)]
      BY <1>1, <1>2, <2>2
    <3>3. b[i - (k - 1)] = s[(i - (k - 1)) + k] /\ (i - (k - 1)) + k = i + 1
      BY <1>2, <3>1
    <3> QED
      BY <2>2, <3>2, <3>3
  <2> QED
    BY <2>1, <2>2
<1> QED
  BY <1>3, <1>4, <1>5

(* The elements of r are elements of s, in the same order.                 *)
InOrder(r, s) ==
  \A i, j \in 1..Len(r) : i < j =>
    \E k, l \in 1..Len(s) : k < l /\ r[i] = s[k] /\ r[j] = s[l]

LEMMA OnWithout ==
  ASSUME NEW s \in Seq(Objs), Distinct(s), NEW o \in Objs
  PROVE  /\ Without(s, o) \in Seq(Objs)
         /\ \A x : On(Without(s, o), x) <=> On(s, x) /\ x # o
         /\ Distinct(Without(s, o))
         /\ InOrder(Without(s, o), s)
<1>1. CASE ~On(s, o)
  <2>1. Without(s, o) = s
    BY <1>1 DEF Without
  <2>2. InOrder(s, s)
    BY DEF InOrder
  <2> QED
    BY <1>1, <2>1, <2>2
<1>2. CASE On(s, o)
  <2> DEFINE k == Pos(s, o)
             r == RemoveAt(s, k)
             n == Len(s)
             at(i) == IF i < k THEN i ELSE i + 1
  <2>1. k \in 1..n /\ s[k] = o
    BY <1>2 DEF On, Pos
  <2>2. Without(s, o) = r
    BY <1>2 DEF Without
  <2>3. /\ r \in Seq(Objs) /\ Len(r) = n - 1
        /\ \A i \in 1..(n - 1) : r[i] = s[at(i)]
    <3>1. \A i \in 1..(n - 1) : r[i] = IF i < k THEN s[i] ELSE s[i + 1]
      BY <2>1, RemoveAtElements
    <3>2. r \in Seq(Objs) /\ Len(r) = n - 1
      BY <2>1, RemoveAtElements
    <3> QED
      BY <3>1, <3>2
  <2>4. n \in Nat /\ k \in Int
    BY <2>1
  <2>5. \A i \in 1..(n - 1) : at(i) \in 1..n /\ at(i) # k
    BY <2>1, <2>4
  <2>6. \A i, j \in 1..(n - 1) : i < j => at(i) < at(j)
    BY <2>1, <2>4
  <2>7. \A j \in 1..n : j # k => \E i \in 1..(n - 1) : at(i) = j
    <3> TAKE j \in 1..n
    <3>1. CASE j < k
      BY <2>1, <2>4, <3>1
    <3>2. CASE j > k
      <4>1. j - 1 \in 1..(n - 1) /\ ~(j - 1 < k) /\ (j - 1) + 1 = j
        BY <2>1, <2>4, <3>2
      <4> QED
        BY <4>1
    <3> QED
      BY <2>4, <3>1, <3>2
  <2> HIDE DEF r, k, at
  <2>8. \A x : On(r, x) <=> On(s, x) /\ x # o
    <3>1. ASSUME NEW x, On(r, x) PROVE On(s, x) /\ x # o
      <4>1. PICK i \in 1..(n - 1) : r[i] = x
        BY <2>3, <3>1 DEF On
      <4>2. x = s[at(i)] /\ at(i) \in 1..n /\ at(i) # k
        BY <2>3, <2>5, <4>1
      <4> QED
        BY <2>1, <4>2 DEF On, Distinct
    <3>2. ASSUME NEW x, On(s, x), x # o PROVE On(r, x)
      <4>1. PICK j \in 1..n : s[j] = x
        BY <3>2 DEF On
      <4>2. j # k
        BY <2>1, <3>2, <4>1
      <4>3. PICK i \in 1..(n - 1) : at(i) = j
        BY <2>7, <4>1, <4>2
      <4>4. i \in 1..Len(r) /\ r[i] = x
        BY <2>3, <4>1, <4>3
      <4> QED
        BY <4>4 DEF On
    <3> QED
      BY <3>1, <3>2
  <2>9. InOrder(r, s)
    <3> SUFFICES ASSUME NEW i \in 1..Len(r), NEW j \in 1..Len(r), i < j
                 PROVE  \E p, q \in 1..n : p < q /\ r[i] = s[p] /\ r[j] = s[q]
      BY DEF InOrder
    <3>1. i \in 1..(n - 1) /\ j \in 1..(n - 1)
      BY <2>3
    <3>2. at(i) \in 1..n /\ at(j) \in 1..n /\ at(i) < at(j)
      BY <2>5, <2>6, <3>1
    <3> QED
      BY <2>3, <3>1, <3>2
  <2>10. Distinct(r)
    <3>1. ASSUME NEW i \in 1..(n - 1), NEW j \in 1..(n - 1), r[i] = r[j]
          PROVE  i = j
      <4>1. at(i) = at(j)
        BY <2>3, <2>5, <3>1 DEF Distinct
      <4>2. ~(i < j) /\ ~(j < i)
        <5>1. i < j => at(i) < at(j)
          BY <2>6
        <5>2. j < i => at(j) < at(i)
          BY <2>6
        <5>3. at(i) \in Int /\ at(j) \in Int
          BY <2>5, <2>4
        <5> QED
          BY <4>1, <5>1, <5>2, <5>3
      <4> QED
        BY <2>4, <4>2
    <3> QED
      BY <2>3, <3>1 DEF Distinct
  <2> QED
    BY <2>2, <2>3, <2>8, <2>9, <2>10
<1> QED
  BY <1>1, <1>2

(* Neighbours.                                                             *)
LEMMA NeighbourOf ==
  ASSUME NEW s \in Seq(Objs), Distinct(s), NEW o \in Objs, On(s, o)
  PROVE  /\ Pos(s, o) \in 1..Len(s) /\ s[Pos(s, o)] = o
         /\ \A i \in 1..Len(s) : s[i] = o => i = Pos(s, o)
         /\ \A k \in Int : ItemAt(s, k) # Nil => k \in 1..Len(s) /\ On(s, ItemAt(s, k))
<1>1. Pos(s, o) \in 1..Len(s) /\ s[Pos(s, o)] = o
  BY DEF On, Pos
<1>2. \A i \in 1..Len(s) : s[i] = o => i = Pos(s, o)
  BY <1>1 DEF Distinct
<1>3. \A k \in Int : ItemAt(s, k) # Nil => k \in 1..Len(s) /\ On(s, ItemAt(s, k))
  BY DEF ItemAt, On
<1> QED
  BY <1>1, <1>2, <1>3

---------------------------------------------------------------------------
---------------------------------------------------------------------------
(* Accounts.  What a sum over a finite set is: MapThenSumSet folds over it  *)
(* with a recursive function, which exists and is the only one.             *)
SumOver(f, S) == MapThenSumSet(LAMBDA x : f[x], S)
Picked(s) == CHOOSE x \in s : TRUE
Folded(g, f, s) == IF s = {} THEN 0 ELSE f[Picked(s)] + g[s \ {Picked(s)}]
HasInts(f, S) == \A x \in S : f[x] \in Int
IsFold(g, f, S) ==
  g \in [SUBSET S -> Int] /\ \A s \in SUBSET S : g[s] = Folded(g, f, s)

(* Induction over the natural numbers, for a set of them: the least number *)
(* that is missing has no predecessor.                                     *)
LEMMA NatSets ==
  ASSUME NEW Q \in SUBSET Nat, 0 \in Q, \A n \in Q : n + 1 \in Q
  PROVE  Q = Nat
<1> DEFINE R == {ss \in Nat \X Nat : ss[1] < ss[2]}
<1> SUFFICES ASSUME Nat \ Q # {} PROVE FALSE
  OBVIOUS
<1>1. IsWellFoundedOn(R, Nat)
  BY NatLessThanWellFounded DEF OpToRel
<1>2. PICK m \in Nat \ Q : \A k \in Nat \ Q : ~(<<k, m>> \in R)
  <2> HIDE DEF R
  <2> QED
    BY <1>1, WFMin
<1>3. \A k \in Nat \ Q : ~(k < m)
  BY <1>2
<1>4. m # 0 /\ m - 1 \in Nat /\ m - 1 < m /\ (m - 1) + 1 = m
  OBVIOUS
<1>5. m - 1 \in Q
  BY <1>3, <1>4
<1> QED
  BY <1>4, <1>5

(* The parts of a finite set that a fold goes through.                     *)
LEMMA PickedFacts ==
  ASSUME NEW S, IsFiniteSet(S), NEW s \in SUBSET S
  PROVE  /\ IsFiniteSet(s) /\ Cardinality(s) \in Nat
         /\ Cardinality(s) = 0 <=> s = {}
         /\ \A x \in s : /\ s \ {x} \in SUBSET S
                         /\ Cardinality(s \ {x}) = Cardinality(s) - 1
                         /\ Cardinality(s \ {x}) \in Nat
         /\ s # {} => Picked(s) \in s
<1>1. IsFiniteSet(s) /\ Cardinality(s) \in Nat
  BY FS_Subset, FS_CardinalityType
<1>2. Cardinality(s) = 0 <=> s = {}
  BY <1>1, FS_EmptySet
<1>3. ASSUME NEW x \in s
      PROVE  /\ s \ {x} \in SUBSET S
             /\ Cardinality(s \ {x}) = Cardinality(s) - 1
             /\ Cardinality(s \ {x}) \in Nat
  BY <1>1, FS_RemoveElement, FS_CardinalityType
<1> QED
  BY <1>1, <1>2, <1>3 DEF Picked

(* The recursion has a solution: one for the small sets gives one for the  *)
(* sets with one more element.                                             *)
LEMMA FoldExists ==
  ASSUME NEW S, IsFiniteSet(S), NEW f, HasInts(f, S)
  PROVE  \E g : IsFold(g, f, S)
<1> DEFINE UpTo(g, n) == \A s \in SUBSET S : Cardinality(s) <= n => g[s] = Folded(g, f, s)
           Q == {n \in Nat : \E g \in [SUBSET S -> Int] : UpTo(g, n)}
<1>1. 0 \in Q
  <2> DEFINE g == [s \in SUBSET S |-> 0]
  <2>1. g \in [SUBSET S -> Int]
    OBVIOUS
  <2>2. UpTo(g, 0)
    BY PickedFacts DEF Folded
  <2> HIDE DEF g, UpTo
  <2>3. \E h \in [SUBSET S -> Int] : UpTo(h, 0)
    BY <2>1, <2>2
  <2> QED
    BY <2>3
<1>2. ASSUME NEW n \in Q PROVE n + 1 \in Q
  <2>1. PICK g \in [SUBSET S -> Int] : UpTo(g, n)
    OBVIOUS
  <2> DEFINE h == [s \in SUBSET S |-> IF Cardinality(s) <= n THEN g[s] ELSE Folded(g, f, s)]
  <2>2. ASSUME NEW s \in SUBSET S, s # {}
        PROVE  Folded(g, f, s) \in Int
    <3>1. Picked(s) \in s /\ s \ {Picked(s)} \in SUBSET S
      BY PickedFacts, <2>2
    <3> QED
      BY <3>1, <2>2 DEF Folded, HasInts
  <2>3. h \in [SUBSET S -> Int]
    BY <2>2 DEF Folded
  <2>4. ASSUME NEW s \in SUBSET S, Cardinality(s) <= n + 1
        PROVE  h[s] = Folded(h, f, s)
    <3>1. CASE s = {}
      BY <3>1, <2>1, PickedFacts DEF Folded
    <3>2. CASE s # {}
      <4>1. /\ Picked(s) \in s /\ s \ {Picked(s)} \in SUBSET S
            /\ Cardinality(s \ {Picked(s)}) = Cardinality(s) - 1
            /\ Cardinality(s) \in Nat
        BY <3>2, PickedFacts
      <4>2. h[s \ {Picked(s)}] = g[s \ {Picked(s)}]
        BY <4>1, <2>4
      <4>3. h[s] = Folded(g, f, s)
        BY <2>1, <4>1
      <4> QED
        BY <4>2, <4>3 DEF Folded
    <3> QED
      BY <3>1, <3>2
  <2>5. UpTo(h, n + 1)
    BY <2>4
  <2> HIDE DEF h, UpTo
  <2>6. \E k \in [SUBSET S -> Int] : UpTo(k, n + 1)
    BY <2>3, <2>5
  <2>7. n + 1 \in Nat
    OBVIOUS
  <2> QED
    BY <2>6, <2>7
<1>3. Q = Nat
  <2> HIDE DEF Q
  <2> QED
    BY <1>1, <1>2, NatSets DEF Q
<1>4. Cardinality(S) \in Q
  BY <1>3, FS_CardinalityType
<1>5. PICK g \in [SUBSET S -> Int] : UpTo(g, Cardinality(S))
  BY <1>4
<1>6. \A s \in SUBSET S : Cardinality(s) <= Cardinality(S)
  BY FS_Subset
<1> QED
  BY <1>5, <1>6 DEF IsFold

(* ... and only one, whatever the set it is defined over and whatever the  *)
(* functions are outside of it.                                            *)
LEMMA FoldUnique ==
  ASSUME NEW S, IsFiniteSet(S), NEW f, HasInts(f, S), NEW g, IsFold(g, f, S),
         NEW T \in SUBSET S, NEW k, \A x \in T : k[x] = f[x], NEW h,
         \A s \in SUBSET T : h[s] = Folded(h, k, s)
  PROVE  h[T] = g[T]
<1> DEFINE Q == {n \in Nat : \A s \in SUBSET T : Cardinality(s) = n => h[s] = g[s]}
<1>1. 0 \in Q
  BY PickedFacts DEF Folded, IsFold
<1>2. ASSUME NEW n \in Q PROVE n + 1 \in Q
  <2>1. ASSUME NEW s \in SUBSET T, Cardinality(s) = n + 1
        PROVE  h[s] = g[s]
    <3>1. s # {} /\ s \in SUBSET S
      BY <2>1, PickedFacts
    <3>2. /\ Picked(s) \in s /\ s \ {Picked(s)} \in SUBSET T
          /\ Cardinality(s \ {Picked(s)}) = n
      BY <2>1, <3>1, PickedFacts
    <3>3. f[Picked(s)] = k[Picked(s)] /\ g[s \ {Picked(s)}] = h[s \ {Picked(s)}]
      BY <3>2
    <3> QED
      BY <3>1, <3>3 DEF Folded, IsFold
  <2> QED
    BY <2>1
<1>3. Q = Nat
  <2> HIDE DEF Q
  <2> QED
    BY <1>1, <1>2, NatSets DEF Q
<1> QED
  BY <1>3, PickedFacts

(* The function that MapThenFoldSet chooses is that one.                   *)
LEMMA SumIsFold ==
  ASSUME NEW S, IsFiniteSet(S), NEW f, HasInts(f, S)
  PROVE  \E g : IsFold(g, f, S) /\ SumOver(f, S) = g[S]
<1>1. \E g : IsFold(g, f, S)
  BY FoldExists
<1> PICK g : IsFold(g, f, S)
  BY <1>1
<1> DEFINE Fixed(h) == h = [s \in SUBSET S |-> Folded(h, f, s)]
<1>2. Fixed(g)
  BY DEF IsFold
<1>3. Fixed(CHOOSE h : Fixed(h))
  BY <1>2
<1>4. SumOver(f, S) = (CHOOSE h : Fixed(h))[S]
  BY DEF SumOver, Folded, Picked, MapThenSumSet, MapThenFoldSet
<1> PICK h : Fixed(h) /\ SumOver(f, S) = h[S]
  BY <1>3, <1>4
<1>5. \A s \in SUBSET S : h[s] = Folded(h, f, s)
  OBVIOUS
<1>6. h[S] = g[S]
  BY <1>5, FoldUnique
<1> QED
  BY <1>6

(* The element that is taken out first does not matter.                    *)
LEMMA FoldRemove ==
  ASSUME NEW S, IsFiniteSet(S), NEW f, HasInts(f, S), NEW g, IsFold(g, f, S)
  PROVE  \A s \in SUBSET S : \A x \in s : g[s] = f[x] + g[s \ {x}]
<1> DEFINE Q == {n \in Nat : \A s \in SUBSET S : Cardinality(s) = n =>
                               \A x \in s : g[s] = f[x] + g[s \ {x}]}
<1>1. 0 \in Q
  BY PickedFacts
<1>2. ASSUME NEW n \in Q PROVE n + 1 \in Q
  <2>1. ASSUME NEW s \in SUBSET S, Cardinality(s) = n + 1, NEW x \in s
        PROVE  g[s] = f[x] + g[s \ {x}]
    <3> PICK y \in s : y = Picked(s)
      BY PickedFacts
    <3>1. g[s] = f[y] + g[s \ {y}]
      BY DEF IsFold, Folded
    <3>2. CASE x = y
      BY <3>1, <3>2
    <3>3. CASE x # y
      <4>1. /\ s \ {x} \in SUBSET S /\ s \ {y} \in SUBSET S
            /\ Cardinality(s \ {x}) = n /\ Cardinality(s \ {y}) = n
            /\ y \in s \ {x} /\ x \in s \ {y}
            /\ (s \ {x}) \ {y} = (s \ {y}) \ {x}
        BY <2>1, <3>3, PickedFacts
      <4>2. /\ g[s \ {x}] = f[y] + g[(s \ {x}) \ {y}]
            /\ g[s \ {y}] = f[x] + g[(s \ {y}) \ {x}]
        BY <4>1
      <4>3. /\ f[x] \in Int /\ f[y] \in Int /\ g[(s \ {y}) \ {x}] \in Int
        BY DEF HasInts, IsFold
      <4> PICK r \in Int : r = g[(s \ {y}) \ {x}]
        BY <4>3
      <4>4. g[s \ {x}] = f[y] + r /\ g[s \ {y}] = f[x] + r
        BY <4>1, <4>2
      <4> PICK a \in Int, b \in Int : a = f[x] /\ b = f[y]
        BY <4>3
      <4> QED
        BY <3>1, <4>4
    <3> QED
      BY <3>2, <3>3
  <2> QED
    BY <2>1
<1>3. Q = Nat
  <2> HIDE DEF Q
  <2> QED
    BY <1>1, <1>2, NatSets DEF Q
<1> QED
  BY <1>3, PickedFacts

(* What a sum is: 0 for no elements, and each element adds its own.        *)
LEMMA SumFacts ==
  ASSUME NEW S, IsFiniteSet(S), NEW f, HasInts(f, S)
  PROVE  /\ SumOver(f, S) \in Int
         /\ S = {} => SumOver(f, S) = 0
         /\ \A x \in S : SumOver(f, S) = f[x] + SumOver(f, S \ {x})
<1>1. \E g : IsFold(g, f, S) /\ SumOver(f, S) = g[S]
  BY SumIsFold
<1> PICK g : IsFold(g, f, S) /\ SumOver(f, S) = g[S]
  BY <1>1
<1>2. SumOver(f, S) \in Int
  BY DEF IsFold
<1>3. S = {} => SumOver(f, S) = 0
  BY DEF IsFold, Folded
<1>4. ASSUME NEW x \in S PROVE SumOver(f, S) = f[x] + SumOver(f, S \ {x})
  <2> PICK T \in SUBSET S : T = S \ {x}
    OBVIOUS
  <2>1. IsFiniteSet(T) /\ HasInts(f, T)
    BY FS_Subset DEF HasInts
  <2>2. \E h : IsFold(h, f, T) /\ SumOver(f, T) = h[T]
    BY <2>1, SumIsFold
  <2> PICK h : IsFold(h, f, T) /\ SumOver(f, T) = h[T]
    BY <2>2
  <2>3. \A s \in SUBSET T : h[s] = Folded(h, f, s)
    BY DEF IsFold
  <2>4. h[T] = g[T]
    BY <2>3, FoldUnique
  <2>5. g[S] = f[x] + g[S \ {x}]
    BY FoldRemove
  <2> QED
    BY <2>4, <2>5
<1> QED
  BY <1>2, <1>3, <1>4

(* Two functions that agree on a set have the same sum over it.            *)
LEMMA SumSame ==
  ASSUME NEW S, IsFiniteSet(S), NEW f, HasInts(f, S),
         NEW k, \A x \in S : k[x] = f[x]
  PROVE  SumOver(k, S) = SumOver(f, S)
<1>1. \E g : IsFold(g, f, S) /\ SumOver(f, S) = g[S]
  BY SumIsFold
<1> PICK g : IsFold(g, f, S) /\ SumOver(f, S) = g[S]
  BY <1>1
<1>2. HasInts(k, S)
  BY DEF HasInts
<1>3. \E h : IsFold(h, k, S) /\ SumOver(k, S) = h[S]
  BY <1>2, SumIsFold
<1> PICK h : IsFold(h, k, S) /\ SumOver(k, S) = h[S]
  BY <1>3
<1>4. \A s \in SUBSET S : h[s] = Folded(h, k, s)
  BY DEF IsFold
<1>5. h[S] = g[S]
  BY <1>4, FoldUnique
<1> QED
  BY <1>5

LEMMA SumZero ==
  ASSUME NEW S, IsFiniteSet(S), NEW f, \A x \in S : f[x] = 0
  PROVE  SumOver(f, S) = 0
<1> DEFINE g == [s \in SUBSET S |-> 0]
<1>1. HasInts(f, S)
  BY DEF HasInts
<1>2. \A s \in SUBSET S : g[s] = Folded(g, f, s)
  BY PickedFacts DEF Folded
<1>3. g \in [SUBSET S -> Int] /\ g[S] = 0
  OBVIOUS
<1> HIDE DEF g
<1>4. IsFold(g, f, S)
  BY <1>2, <1>3 DEF IsFold
<1>5. \E h : IsFold(h, f, S) /\ SumOver(f, S) = h[S]
  BY <1>1, SumIsFold
<1> PICK h : IsFold(h, f, S) /\ SumOver(f, S) = h[S]
  BY <1>5
<1>6. \A s \in SUBSET S : h[s] = Folded(h, f, s)
  BY DEF IsFold
<1>7. h[S] = g[S]
  BY <1>1, <1>4, <1>6, FoldUnique
<1> QED
  BY <1>3, <1>7

(* What one element contributes, and how a change of one element changes   *)
(* the sum.                                                                *)
Share(f, S, x) == IF x \in S THEN f[x] ELSE 0

LEMMA SumChanged ==
  ASSUME NEW S, IsFiniteSet(S), NEW f, HasInts(f, S),
         NEW T, IsFiniteSet(T), NEW g, HasInts(g, T),
         NEW x, S \ {x} = T \ {x}, \A y \in S \ {x} : g[y] = f[y]
  PROVE  SumOver(g, T) - Share(g, T, x) = SumOver(f, S) - Share(f, S, x)
<1> PICK R : R = S \ {x}
  OBVIOUS
<1>1. IsFiniteSet(R) /\ HasInts(f, R) /\ R \subseteq S
  BY FS_Subset DEF HasInts
<1>2. SumOver(g, R) = SumOver(f, R)
  BY <1>1, SumSame
<1>3. SumOver(f, R) \in Int
  BY <1>1, SumFacts
<1>4. SumOver(f, S) - Share(f, S, x) = SumOver(f, R)
  <2>1. CASE x \in S
    <3>1. SumOver(f, S) = f[x] + SumOver(f, R) /\ f[x] \in Int
      BY <2>1, SumFacts DEF HasInts
    <3> QED
      BY <1>3, <2>1, <3>1 DEF Share
  <2>2. CASE x \notin S
    <3>1. S = R
      BY <2>2
    <3> QED
      BY <1>3, <2>2, <3>1 DEF Share
  <2> QED
    BY <2>1, <2>2
<1>5. SumOver(g, T) - Share(g, T, x) = SumOver(g, R)
  <2>1. CASE x \in T
    <3>1. SumOver(g, T) = g[x] + SumOver(g, R) /\ g[x] \in Int
      BY <2>1, SumFacts DEF HasInts
    <3> QED
      BY <1>2, <1>3, <2>1, <3>1 DEF Share
  <2>2. CASE x \notin T
    <3>1. T = R
      BY <2>2
    <3> QED
      BY <1>2, <1>3, <2>2, <3>1 DEF Share
  <2> QED
    BY <2>1, <2>2
<1> QED
  BY <1>2, <1>4, <1>5

---------------------------------------------------------------------------
USE NilAssumption, MapsAssumption DEF Goto

(* Where the cmdbufs are, and steps that leave that alone.                 *)
placeVars == <<poolVars, po, linked, coreId, needRemove, runDone, stale, workList,
               jobDone, clientVars>>

LEMMA PlacesKept ==
  ASSUME ListInv, UNCHANGED placeVars
  PROVE  ListsExact' /\ PoolSound' /\ LifeSound' /\ DoneSound'
BY DEF ListInv, placeVars, poolVars, clientVars, ListsExact, PoolSound, PoolOk, LifeSound,
       LifeOk, DoneSound, Distinct

LEMMA ItemsAreObjs ==
  ASSUME TypeOK
  PROVE  \A d \in Devs : /\ workList[d] \in Seq(Objs)
                         /\ \A i \in 1..Len(workList[d]) : workList[d][i] \in Objs
BY DEF TypeOK, DevTypes

(* The end of the lists, when no list changes and no kept cmdbuf is added. *)
LEMMA EndKept ==
  ASSUME TypeOK, ListInv, UNCHANGED workList,
         \A o \in Objs : KeptInList(o)' => KeptInList(o),
         \A o \in Objs : JustAdded(o)' <=> JustAdded(o)
  PROVE  KeptAtEnd'
<1> SUFFICES ASSUME NEW d \in Devs, NEW i \in 1..Len(workList[d]),
                    NEW j \in 1..Len(workList[d]), i < j
             PROVE  /\ ~JustAdded(workList[d][i])'
                    /\ KeptInList(workList[d][i])' => JustAdded(workList[d][j])'
  BY DEF KeptAtEnd
<1> PICK x \in Objs, y \in Objs : x = workList[d][i] /\ y = workList[d][j]
  BY ItemsAreObjs
<1>1. ~JustAdded(x) /\ (KeptInList(x) => JustAdded(y))
  BY DEF ListInv, KeptAtEnd
<1>2. ~JustAdded(x)' /\ (KeptInList(x)' => JustAdded(y)')
  BY <1>1
<1> QED
  BY <1>2

LEMMA AllKept ==
  ASSUME ListInv, UNCHANGED <<placeVars, isr, inWait, pc, job, dev>>
  PROVE  ListInv'
<1>1. ListsExact' /\ PoolSound' /\ LifeSound' /\ DoneSound'
  BY PlacesKept
<1>2. PlainCalls' /\ SleepSound'
  BY DEF ListInv, PlainCalls, SleepSound
<1>3. KeptAtEnd'
  BY DEF ListInv, KeptAtEnd, KeptInList, JustAdded, placeVars
<1>4. IsrSound'
  BY DEF ListInv, IsrSound, IsrOk, placeVars
<1>5. CallsSound'
  BY DEF ListInv, CallsSound, CallOk, WaiterOk, LinkerOk, PrevOk, ReleaserOk, placeVars,
     poolVars, clientVars
<1> QED
  BY <1>1, <1>2, <1>3, <1>4, <1>5 DEF ListInv

(* A thread goes on to another place and takes nothing along.              *)
LEMMA GoesOn ==
  ASSUME TypeOK, ListInv, NEW t \in Threads, NEW loc,
         pc[t] \notin Listed, Goto(t, loc),
         UNCHANGED <<placeVars, isr, job, dev>>,
         loc \notin DropPcs \cup {"wild"} \cup Listed,
         loc \in Idle => job[t] = Nil,
         loc \in Unlisted => pc[t] \in Unlisted,
         loc \in ReleasePcs => pc[t] \in ReleasePcs,
         loc \in Waits => \/ pc[t] \in Waits
                          \/ job[t] = Nil /\ HasListener(ProcOf[t]),
         loc = "asleep" => inWait'[ProcOf[t]],
         \A p \in Procs : inWait[p] => inWait'[p]
  PROVE  ListInv'
<1>1. ListsExact' /\ PoolSound' /\ LifeSound' /\ DoneSound'
  BY PlacesKept
<1>2. pc'[t] = loc /\ \A u \in Threads \ {t} : pc'[u] = pc[u]
  BY DEF TypeOK, ThreadTypes
<1>3. PlainCalls'
  BY <1>2 DEF ListInv, PlainCalls, Unlisted, Listed, LinkPcs
<1>4. SleepSound'
  BY <1>2 DEF ListInv, SleepSound
<1>5. IsrSound'
  BY DEF ListInv, IsrSound, IsrOk, placeVars
<1>6. KeptAtEnd'
  <2>1. \A o \in Objs : JustAdded(o)' <=> JustAdded(o)
    BY <1>2 DEF JustAdded
  <2>2. \A o \in Objs : KeptInList(o)' <=> KeptInList(o)
    BY DEF KeptInList, placeVars
  <2> QED
    BY <2>1, <2>2, EndKept DEF placeVars
<1>7. \A u \in Threads : (pc'[u] \in Listed => pc'[u] = pc[u])
  BY <1>2
<1>8. CallsSound'
  <2> SUFFICES ASSUME NEW u \in Threads
               PROVE  (WaiterOk(u) /\ LinkerOk(u) /\ PrevOk(u) /\ ReleaserOk(u))'
    BY DEF CallsSound, CallOk
  <2>1. WaiterOk(u) /\ LinkerOk(u) /\ PrevOk(u) /\ ReleaserOk(u)
    BY DEF ListInv, CallsSound, CallOk
  <2>2. UNCHANGED <<job, dev, linked, coreId, stale, phase, holder, po, runDone,
                    needRemove, avail>>
    BY DEF placeVars, poolVars, clientVars
  <2>3. WaiterOk(u)'
    BY <1>2, <2>1, <2>2 DEF WaiterOk
  <2>4. LinkerOk(u)'
    BY <1>2, <2>1, <2>2 DEF LinkerOk, Listed
  <2>5. PrevOk(u)'
    BY <1>2, <2>1, <2>2 DEF PrevOk
  <2>6. ReleaserOk(u)'
    BY <1>2, <2>1, <2>2 DEF ReleaserOk
  <2> QED
    BY <2>3, <2>4, <2>5, <2>6
<1> QED
  BY <1>1, <1>3, <1>4, <1>5, <1>6, <1>8 DEF ListInv

LEMMA PlainSteps ==
  ASSUME TypeOK, ListInv, NEW t \in Threads
  PROVE  /\ \A w \in Workloads : ReserveCharge(t, w) => ListInv'
         /\ ReserveWait(t) => ListInv'
         /\ ReserveInterrupted(t) => ListInv'
         /\ LinkSem(t) => ListInv'
         /\ WaitAny(t) => ListInv'
         /\ WaitSleep(t) => ListInv'
         /\ ReleaseAccount(t) => ListInv'
<1> USE DEF placeVars, objVars, procVars, devVars, threadVars, Idle, Unlisted,
            Listed, Waits, DropPcs, ReleasePcs, HoldsLock
<1>1. ASSUME NEW w \in Workloads, ReserveCharge(t, w) PROVE ListInv'
  BY <1>1, GoesOn DEF ReserveCharge, MayCall, ListInv, PlainCalls
<1>2. CASE ReserveWait(t)
  BY <1>2, GoesOn DEF ReserveWait, ListInv, PlainCalls
<1>3. CASE ReserveInterrupted(t)
  BY <1>3, GoesOn DEF ReserveInterrupted, ListInv, PlainCalls
<1>4. CASE LinkSem(t)
  BY <1>4, GoesOn DEF LinkSem
<1>5. CASE WaitAny(t)
  <2>1. HasListener(ProcOf[t])
    BY <1>5 DEF WaitAny, HasListener
  <2> QED
    BY <1>5, <2>1, GoesOn DEF WaitAny, MayCall, ListInv, PlainCalls
<1>6. CASE WaitSleep(t)
  <2>1. inWait'[ProcOf[t]] /\ \A p \in Procs : inWait[p] => inWait'[p]
    BY <1>6 DEF WaitSleep, TypeOK, ProcTypes
  <2> QED
    BY <1>6, <2>1, GoesOn DEF WaitSleep
<1>7. CASE ReleaseAccount(t)
  BY <1>7, GoesOn DEF ReleaseAccount
<1> QED
  BY <1>1, <1>2, <1>3, <1>4, <1>5, <1>6, <1>7

---------------------------------------------------------------------------
(* Steps of a call that concern one cmdbuf and change no work list.        *)
SameCall(t) == pc'[t] = pc[t] /\ job'[t] = job[t] /\ dev'[t] = dev[t]
SameOnList(o) ==
  /\ linked'[o] <=> linked[o]
  /\ coreId'[o] = coreId[o] /\ stale'[o] = stale[o]
SameObj(o) ==
  /\ SameOnList(o)
  /\ runDone'[o] <=> runDone[o]
  /\ needRemove'[o] <=> needRemove[o]
  /\ po'[o] = po[o] /\ phase'[o] = phase[o] /\ holder'[o] = holder[o]
  /\ o \in avail' <=> o \in avail

(* A thread has a cmdbuf in a call only, and that cmdbuf is not free.      *)
LEMMA JobTaken ==
  ASSUME TypeOK, ListInv, NEW u \in Threads, job[u] # Nil
  PROVE  /\ job[u] \in Objs /\ job[u] \notin avail
         /\ pc[u] \in Waits \cup Busy
         /\ pc[u] \in Waits \cup Unlisted =>
              phase[job[u]] # "none" /\ ~needRemove[job[u]]
<1>1. job[u] \in Objs /\ pc[u] \in Locs
  BY DEF TypeOK, ThreadTypes, ObjOrNil
<1>2. pc[u] \in Waits \cup Busy
  BY <1>1 DEF ListInv, PlainCalls, Locs, Idle, Waits, Busy
<1>3. CallOk(u)
  BY DEF ListInv, CallsSound
<1>4. LifeOk(job[u])
  BY <1>1 DEF ListInv, LifeSound
<1>5. pc[u] \in Waits \cup Unlisted => phase[job[u]] # "none"
  BY <1>3 DEF CallOk, WaiterOk, LinkerOk
<1>6. phase[job[u]] # "none" => job[u] \notin avail
  BY <1>1 DEF ListInv, PoolSound, PoolOk
<1>7. pc[u] \in ReleasePcs \cup Listed => job[u] \notin avail
  BY <1>3 DEF CallOk, ReleaserOk, LinkerOk
<1>8. pc[u] \in Waits \cup Unlisted \cup Listed \cup ReleasePcs
  BY <1>2 DEF Busy, LinkPcs, Unlisted, Listed
<1> QED
  BY <1>1, <1>2, <1>4, <1>5, <1>6, <1>7, <1>8 DEF LifeOk

(* A thread goes on as it was when another step changes one cmdbuf and     *)
(* returns none that the thread uses.                                      *)
LEMMA OthersGoOn ==
  ASSUME TypeOK, TypeOK', ListInv, ListsExact', ~ReturnedInUse,
         NEW u \in Threads, NEW o \in Objs, SameCall(u),
         \A x \in Objs \ {o} : SameObj(x),
         coreId'[o] = coreId[o] \/ o \in avail \/ coreId[o] = Nil,
         job[u] = o => \/ SameObj(o)
                       \/ pc[u] \in Listed /\ SameOnList(o)
  PROVE  CallOk(u)'
<1>1. CallOk(u)
  BY DEF ListInv, CallsSound
<1>2. /\ job[u] \in Objs \cup {Nil}
      /\ pc[u] \in LinkPcs \cup ReleasePcs => job[u] \in Objs
  BY DEF TypeOK, ThreadTypes, ObjOrNil, UsesJob
<1>3. CASE job[u] \notin Objs
  <2>1. job[u] = Nil /\ pc[u] \notin LinkPcs \cup ReleasePcs
    BY <1>2, <1>3
  <2> QED
    BY <1>1, <2>1 DEF CallOk, SameCall, WaiterOk, LinkerOk, PrevOk, ReleaserOk,
       LinkPcs, Unlisted, Listed
<1>4. ASSUME job[u] \in Objs, pc[u] \in Listed
      PROVE  SameOnList(job[u]) /\ job[u] \notin avail' /\ coreId[job[u]] \in Devs
  <2>1. SameOnList(job[u])
    BY <1>4 DEF SameObj
  <2>2. job[u] \notin avail /\ coreId[job[u]] # Nil
    BY <1>1, <1>4 DEF CallOk, LinkerOk
  <2> PICK x \in Objs : x = job[u]
    BY <1>4
  <2>3. UsedByCall(u, x)'
    BY <1>4 DEF UsedByCall, SameCall
  <2>4. x \notin avail'
    BY <2>2, <2>3 DEF ReturnedInUse
  <2> QED
    BY <1>4, <2>1, <2>2, <2>4 DEF TypeOK, ObjTypes, DevOrNil
<1>5. ASSUME job[u] \in Objs, pc[u] \in Listed
      PROVE  PrevOk(u)'
  <2> DEFINE p == stale[job[u]].prev
  <2>1. /\ p \in Objs \cup {Nil}
        /\ p = stale'[job'[u]].prev
        /\ linked'[job'[u]] <=> linked[job[u]]
        /\ coreId'[job'[u]] = coreId[job[u]]
    BY <1>4, <1>5 DEF SameCall, SameOnList, TypeOK, ObjTypes, ObjOrNil
  <2>2. CASE linked[job[u]] \/ p = Nil
    BY <2>1, <2>2 DEF PrevOk
  <2>3. CASE ~(linked[job[u]] \/ p = Nil)
    <3>1. p \in Objs /\ p \notin avail /\ coreId[p] = coreId[job[u]]
      BY <1>1, <1>5, <2>1, <2>3 DEF CallOk, PrevOk
    <3>2. coreId[p] # Nil
      BY <1>4, <1>5, <3>1, NilAssumption
    <3>3. coreId'[p] = coreId[p]
      BY <3>1, <3>2 DEF SameObj, SameOnList
    <3>4. UsedByCall(u, stale[job[u]].prev)'
      <4>1. pc'[u] \in Listed /\ job'[u] \in Objs /\ ~linked'[job'[u]]
            /\ coreId'[job'[u]] \in Devs
        BY <1>4, <1>5, <2>1, <2>3 DEF SameCall
      <4>2. On(workList'[coreId'[job'[u]]], job'[u]) = FALSE
        BY <4>1 DEF ListsExact
      <4> QED
        BY <4>1, <4>2, <2>1 DEF UsedByCall, PrevOf
    <3>5. p \notin avail'
      BY <3>1, <3>4, <2>1 DEF ReturnedInUse
    <3> QED
      BY <2>1, <3>1, <3>3, <3>5 DEF PrevOk
  <2> QED
    BY <2>2, <2>3
<1>6. CASE job[u] \in Objs /\ pc[u] \in Listed
  <2>1. LinkerOk(u)' /\ WaiterOk(u)' /\ ReleaserOk(u)'
    BY <1>1, <1>4, <1>6 DEF CallOk, SameCall, SameOnList, LinkerOk, WaiterOk, ReleaserOk,
       Listed, Unlisted, Waits, ReleasePcs
  <2> QED
    BY <1>5, <1>6, <2>1 DEF CallOk
<1>7. CASE job[u] \in Objs /\ pc[u] \notin Listed
  <2>1. SameObj(job[u])
    BY <1>7
  <2>2. LinkerOk(u)' /\ WaiterOk(u)' /\ ReleaserOk(u)'
    BY <1>1, <1>7, <2>1 DEF CallOk, SameCall, SameObj, SameOnList, LinkerOk, WaiterOk,
       ReleaserOk
  <2>3. PrevOk(u)'
    BY <1>7 DEF PrevOk, SameCall
  <2> QED
    BY <2>2, <2>3 DEF CallOk
<1> QED
  BY <1>3, <1>6, <1>7

(* Thread t changes what it and the driver know of cmdbuf o.               *)
ConcernsOne(t, o) ==
  /\ UNCHANGED <<workList, isr>>
  /\ \A x \in Objs \ {o} : SameObj(x)
  /\ linked'[o] <=> linked[o]
  /\ SameOnList(o) \/ (o \in avail /\ o \notin avail')
  /\ \A u \in Threads \ {t} : SameCall(u)
  /\ job[t] \in {Nil, o} /\ job'[t] \in {Nil, o}
  /\ pc[t] \notin Listed \cup HoldsLock
  /\ pc'[t] \notin Listed \cup DropPcs \cup {"wild"}
  /\ pc'[t] \in Idle => job'[t] = Nil

(* The interrupt routine stays on its list when a cmdbuf changes that      *)
(* keeps its place, or is linked, or is reserved and not in use there.     *)
LEMMA IsrStays ==
  ASSUME TypeOK, ListInv, ~ReservedInUse, UNCHANGED isr, NEW o \in Objs,
         \A x \in Objs \ {o} : SameObj(x),
         \/ SameOnList(o)
         \/ coreId[o] = Nil
         \/ o \in avail /\ o \notin avail'
  PROVE  IsrSound'
<1> SUFFICES ASSUME NEW d \in Devs PROVE IsrOk(d)'
  BY DEF IsrSound
<1>1. isr[d].at = "read" => isr[d].node = Nil
  BY DEF ListInv, IsrSound, IsrOk
<1>2. \A x \in Objs : UsedByIsr(d, x) => coreId[x] = Nil \/ SameOnList(x)
  BY DEF ReservedInUse, SameObj
<1>3. /\ isr[d].at \in {"walk", "curr"} => isr[d].curr \in Objs
      /\ isr[d].node \in Objs \cup {Nil}
  BY DEF TypeOK, DevTypes, IsrRecord, ObjOrNil
<1>4. ASSUME isr[d].at \in {"walk", "curr"} PROVE coreId'[isr[d].curr] = d
  BY <1>2, <1>3, <1>4 DEF ListInv, IsrSound, IsrOk, UsedByIsr, SameOnList
<1>5. ASSUME isr[d].at = "walk", isr[d].node # Nil
      PROVE  LET x == isr[d].node
                 n == stale'[x].next
             IN /\ coreId'[x] = d
                /\ ~linked'[x] /\ n # Nil => linked'[n] /\ coreId'[n] = d
  <2> DEFINE x == isr[d].node
             n == stale[x].next
  <2>1. x \in Objs /\ coreId[x] = d
    BY <1>3, <1>5 DEF ListInv, IsrSound, IsrOk
  <2>0. SameOnList(x)
    BY <1>2, <1>5, <2>1 DEF UsedByIsr
  <2>2. coreId[x] = d /\ (~linked[x] /\ n # Nil => linked[n] /\ coreId[n] = d)
    BY <1>5 DEF ListInv, IsrSound, IsrOk
  <2>3. n \in Objs \cup {Nil}
    BY <2>1 DEF TypeOK, ObjTypes, ObjOrNil
  <2>4. ASSUME n \in Objs, linked[n] PROVE SameOnList(n)
    BY <2>4 DEF ListInv, PoolSound, PoolOk, SameObj, TypeOK, ObjTypes
  <2> QED
    BY <2>0, <2>1, <2>2, <2>3, <2>4 DEF SameOnList
<1> QED
  BY <1>1, <1>4, <1>5 DEF IsrOk

LEMMA OneConcerned ==
  ASSUME TypeOK, TypeOK', ListInv, ~ListRace, NEW t \in Threads, NEW o \in Objs,
         ConcernsOne(t, o),
         \A u \in Threads \ {t} : job[u] = o => pc[u] \in Listed /\ SameOnList(o),
         KeptInList(o)' => KeptInList(o),
         LifeOk(o)', PoolOk(o)', sema' = Cardinality(avail'), avail' \subseteq Objs,
         CallOk(t)', DoneSound', SleepSound'
  PROVE  ListInv'
<1> USE DEF ConcernsOne
<1>1. PlainCalls'
  BY DEF ListInv, PlainCalls, SameCall
<1>2. ListsExact'
  <2>1. \A x \in Objs, d \in Devs : linked'[x] /\ coreId'[x] = d <=> linked[x] /\ coreId[x] = d
    <3> TAKE x \in Objs, d \in Devs
    <3>1. CASE SameOnList(x)
      BY <3>1 DEF SameOnList
    <3>2. CASE x = o /\ o \in avail /\ ~SameOnList(o)
      BY <3>2 DEF ListInv, PoolSound, PoolOk
    <3> QED
      BY <3>1, <3>2 DEF SameObj
  <2> QED
    BY <2>1 DEF ListInv, ListsExact
<1>3. KeptAtEnd'
  <2>1. ASSUME NEW x \in Objs, KeptInList(x)' PROVE KeptInList(x)
    <3>1. CASE x = o
      BY <2>1, <3>1
    <3>2. CASE x # o
      BY <2>1, <3>2 DEF KeptInList, SameObj, SameCall
    <3> QED
      BY <3>1, <3>2
  <2>2. \A x \in Objs : JustAdded(x)' <=> JustAdded(x)
    BY DEF JustAdded, SameCall
  <2> QED
    BY <2>1, <2>2, EndKept
<1>4. PoolSound'
  <2>1. \A x \in Objs : PoolOk(x)
    BY DEF ListInv, PoolSound
  <2>2. \A x \in Objs : PoolOk(x)'
    BY <2>1 DEF PoolOk, SameObj, SameOnList
  <2> QED
    BY <2>2 DEF PoolSound
<1>5. LifeSound'
  <2>1. \A x \in Objs : LifeOk(x)
    BY DEF ListInv, LifeSound
  <2>2. \A x \in Objs : LifeOk(x)'
    BY <2>1 DEF LifeOk, SameObj, SameOnList
  <2> QED
    BY <2>2 DEF LifeSound
<1>6. CallsSound'
  <2>1. coreId'[o] = coreId[o] \/ o \in avail
    BY DEF SameOnList
  <2>2. \A u \in Threads \ {t} : CallOk(u)'
    BY <1>2, <2>1, OthersGoOn DEF ListRace
  <2> QED
    BY <2>2 DEF CallsSound
<1>7. IsrSound'
  BY IsrStays DEF ListRace
<1> QED
  BY <1>1, <1>2, <1>3, <1>4, <1>5, <1>6, <1>7 DEF ListInv

LEMMA BackToUser ==
  ASSUME NEW t \in Threads, pc'[t] = "user"
  PROVE  CallOk(t)'
BY DEF CallOk, WaiterOk, LinkerOk, PrevOk, ReleaserOk, Waits, Unlisted, Listed,
   ReleasePcs

LEMMA SleepersKept ==
  ASSUME ListInv, NEW t \in Threads, UNCHANGED inWait, pc'[t] # "asleep",
         \A u \in Threads \ {t} : pc'[u] = pc[u]
  PROVE  SleepSound'
BY DEF ListInv, SleepSound

LEMMA DoneKept ==
  ASSUME TypeOK, ListInv, NEW o \in Objs, UNCHANGED jobDone,
         \A x \in Objs \ {o} : SameObj(x),
         \A p \in Procs : ~On(jobDone[p], o)
  PROVE  DoneSound'
<1>1. \A p \in Procs : Distinct(jobDone[p])'
  BY DEF ListInv, DoneSound, Distinct
<1>2. ASSUME NEW p \in Procs, NEW x \in Objs, On(jobDone'[p], x)
      PROVE  po'[x] = p /\ runDone'[x] /\ phase'[x] = "running"
  <2>1. x \in Objs \ {o} /\ On(jobDone[p], x)
    BY <1>2
  <2> QED
    BY <2>1 DEF ListInv, DoneSound, SameObj
<1> QED
  BY <1>1, <1>2 DEF DoneSound

(* Only one that its client is running can be on a done list.              *)
LEMMA NotReported ==
  ASSUME ListInv, NEW o \in Objs, phase[o] # "running" \/ ~runDone[o]
  PROVE  \A p \in Procs : ~On(jobDone[p], o)
BY DEF ListInv, DoneSound

LEMMA ReserveTakeKeeps ==
  ASSUME TypeOK, TypeOK', ListInv, ~ListRace, NEW t \in Threads, ReserveTake(t)
  PROVE  ListInv'
<1>1. PICK o \in avail :
        /\ avail' = avail \ {o}
        /\ po' = [po EXCEPT ![o] = ProcOf[t]]
        /\ runDone' = [runDone EXCEPT ![o] = FALSE]
        /\ linked' = [linked EXCEPT ![o] = FALSE]
        /\ needRemove' = [needRemove EXCEPT ![o] = FALSE]
        /\ coreId' = [coreId EXCEPT ![o] = Nil]
        /\ stale' = [stale EXCEPT ![o] = NoPtrs]
        /\ phase' = [phase EXCEPT ![o] = "reserved"]
        /\ holder' = [holder EXCEPT ![o] = t]
  BY DEF ReserveTake
<1>2. /\ UNCHANGED <<workList, isr, jobDone, inWait, job, dev>>
      /\ pc[t] = "resTake" /\ sema' = sema - 1
  BY DEF ReserveTake, devVars, procVars
<1>3. o \in Objs /\ ~linked[o] /\ phase[o] = "none" /\ job[t] = Nil
  BY <1>2 DEF ListInv, PoolSound, PoolOk, PlainCalls, Idle, TypeOK, PoolTypes
<1>4. pc'[t] = "user" /\ \A u \in Threads \ {t} : pc'[u] = pc[u]
  BY DEF ReserveTake, TypeOK, ThreadTypes
<1>5. /\ po'[o] = ProcOf[t] /\ ~runDone'[o] /\ ~linked'[o] /\ ~needRemove'[o]
      /\ coreId'[o] = Nil /\ phase'[o] = "reserved" /\ o \notin avail'
  BY <1>1, <1>3 DEF TypeOK, ObjTypes, ClientTypes
<1>6. \A x \in Objs \ {o} : SameObj(x)
  BY <1>1 DEF SameObj, SameOnList, TypeOK, ObjTypes, ClientTypes
<1>7. ConcernsOne(t, o)
  BY <1>2, <1>3, <1>4, <1>5, <1>6 DEF ConcernsOne, SameCall, Listed, HoldsLock,
     DropPcs
<1>8. LifeOk(o)' /\ PoolOk(o)'
  BY <1>5 DEF LifeOk, PoolOk
<1>9. sema' = Cardinality(avail') /\ avail' \subseteq Objs
  <2>1. avail \subseteq Objs /\ IsFiniteSet(avail)
    BY ObjsFinite, FS_Subset DEF TypeOK, PoolTypes
  <2>2. Cardinality(avail \ {o}) = Cardinality(avail) - 1
    BY <2>1, FS_RemoveElement
  <2> QED
    BY <1>1, <1>2, <2>1, <2>2 DEF ListInv, PoolSound
<1>10. \A u \in Threads : job[u] # o
  BY <1>3, JobTaken
<1>11. CallOk(t)' /\ SleepSound' /\ DoneSound'
  BY <1>2, <1>3, <1>4, <1>6, BackToUser, SleepersKept, DoneKept, NotReported
<1>12. ~KeptInList(o)'
  BY <1>5 DEF KeptInList
<1> QED
  BY <1>3, <1>7, <1>8, <1>9, <1>10, <1>11, <1>12, OneConcerned

LEMMA LinkCallKeeps ==
  ASSUME TypeOK, TypeOK', ListInv, ~ListRace, NEW t \in Threads, NEW o \in Objs, LinkCall(t, o)
  PROVE  ListInv'
<1>1. CASE po[o] # ProcOf[t]
  BY <1>1, AllKept DEF LinkCall, placeVars, clientVars, devVars, procVars
<1>2. CASE po[o] = ProcOf[t]
  <2>1. /\ job' = [job EXCEPT ![t] = o] /\ phase' = [phase EXCEPT ![o] = "running"]
        /\ pc' = [pc EXCEPT ![t] = "linkSem"]
        /\ UNCHANGED <<workList, isr, jobDone, inWait, dev, poolVars, po, runDone,
                       linked, needRemove, coreId, stale, holder>>
        /\ pc[t] = "user"
        /\ phase[o] = "reserved" /\ holder[o] = t
    BY <1>2 DEF LinkCall, Enters, MayCall, devVars, procVars
  <2>2. /\ job[t] = Nil
        /\ coreId[o] = Nil /\ ~runDone[o] /\ ~needRemove[o] /\ ~linked[o]
    BY <2>1 DEF ListInv, PlainCalls, Idle, LifeSound, LifeOk, TypeOK, ObjTypes
  <2>3. /\ pc'[t] = "linkSem" /\ job'[t] = o
        /\ \A u \in Threads \ {t} : SameCall(u)
    BY <2>1 DEF SameCall, TypeOK, ThreadTypes
  <2>4. phase'[o] = "running" /\ \A x \in Objs \ {o} : SameObj(x)
    BY <2>1 DEF SameObj, SameOnList, poolVars, TypeOK, ClientTypes
  <2>5. ConcernsOne(t, o)
    BY <2>1, <2>2, <2>3, <2>4 DEF ConcernsOne, SameOnList, Listed, HoldsLock, DropPcs,
       Idle
  <2>6. LifeOk(o)' /\ PoolOk(o)'
    BY <2>1, <2>2, <2>4 DEF LifeOk, PoolOk, ListInv, PoolSound, poolVars
  <2>7. sema' = Cardinality(avail') /\ avail' \subseteq Objs /\ avail' = avail
    BY <2>1 DEF ListInv, PoolSound, poolVars, TypeOK, PoolTypes
  <2>8. \A u \in Threads \ {t} : job[u] # o
    <3> SUFFICES ASSUME NEW u \in Threads \ {t}, job[u] = o PROVE FALSE
      OBVIOUS
    <3>1. pc[u] \in Waits \cup Busy /\ CallOk(u) /\ o # Nil
      BY JobTaken, NilAssumption DEF ListInv, CallsSound
    <3> QED
      BY <2>1, <2>2, <3>1 DEF CallOk, WaiterOk, LinkerOk, ReleaserOk, Busy, LinkPcs,
         Unlisted, Listed
  <2>9. CallOk(t)'
    BY <2>1, <2>2, <2>3, <2>4 DEF CallOk, WaiterOk, LinkerOk, PrevOk, ReleaserOk,
       Waits, Unlisted, Listed, ReleasePcs
  <2>10. SleepSound' /\ DoneSound'
    BY <2>1, <2>2, <2>3, <2>4, SleepersKept, DoneKept, NotReported DEF SameCall
  <2>11. ~KeptInList(o)'
    BY <2>1, <2>2 DEF KeptInList
  <2> QED
    BY <2>5, <2>6, <2>7, <2>8, <2>9, <2>10, <2>11, OneConcerned
<1> QED
  BY <1>1, <1>2

LEMMA LinkInterruptedKeeps ==
  ASSUME TypeOK, TypeOK', ListInv, ~ListRace, NEW t \in Threads, LinkInterrupted(t)
  PROVE  ListInv'
<1>0. job[t] \in Objs
  BY DEF LinkInterrupted, TypeOK, ThreadTypes, UsesJob, LinkPcs, ObjOrNil
<1> PICK o \in Objs : o = job[t]
  BY <1>0
<1>1. /\ job' = [job EXCEPT ![t] = Nil] /\ phase' = [phase EXCEPT ![o] = "reserved"]
      /\ pc' = [pc EXCEPT ![t] = "user"]
      /\ UNCHANGED <<workList, isr, jobDone, inWait, dev, poolVars, po, runDone,
                     linked, needRemove, coreId, stale, holder>>
      /\ pc[t] = "linkSem"
  BY DEF LinkInterrupted, devVars, procVars, objVars
<1>2. CallOk(t) /\ o \notin avail /\ ~needRemove[o]
  BY <1>1, JobTaken DEF ListInv, CallsSound, Unlisted
<1>3. /\ phase[o] = "running" /\ holder[o] = t /\ coreId[o] = Nil
      /\ ~runDone[o] /\ ~linked[o]
  BY <1>1, <1>2 DEF CallOk, LinkerOk, Unlisted, TypeOK, ObjTypes
<1>4. /\ pc'[t] = "user" /\ job'[t] = Nil
      /\ \A u \in Threads \ {t} : SameCall(u)
  BY <1>1 DEF SameCall, TypeOK, ThreadTypes
<1>5. phase'[o] = "reserved" /\ \A x \in Objs \ {o} : SameObj(x)
  BY <1>1, <1>2 DEF SameObj, SameOnList, poolVars, TypeOK, ClientTypes
<1>6. ConcernsOne(t, o)
  BY <1>1, <1>2, <1>3, <1>4, <1>5 DEF ConcernsOne, SameOnList, Listed, HoldsLock,
     DropPcs, Idle
<1>7. LifeOk(o)' /\ PoolOk(o)'
  BY <1>1, <1>2, <1>3, <1>5 DEF LifeOk, PoolOk, ListInv, PoolSound, poolVars
<1>8. sema' = Cardinality(avail') /\ avail' \subseteq Objs /\ avail' = avail
  BY <1>1 DEF ListInv, PoolSound, poolVars, TypeOK, PoolTypes
<1>10. \A u \in Threads \ {t} : job[u] # o
  <2> SUFFICES ASSUME NEW u \in Threads \ {t}, job[u] = o PROVE FALSE
    OBVIOUS
  <2>1. pc[u] \in Waits \cup Busy /\ CallOk(u) /\ o # Nil
    BY JobTaken, NilAssumption DEF ListInv, CallsSound
  <2> QED
    BY <1>2, <1>3, <2>1 DEF CallOk, WaiterOk, LinkerOk, ReleaserOk, Busy, LinkPcs,
       Unlisted, Listed
<1>11. SleepSound' /\ DoneSound' /\ CallOk(t)'
  BY <1>1, <1>2, <1>3, <1>4, <1>5, SleepersKept, DoneKept, NotReported, BackToUser
     DEF SameCall
<1>12. ~KeptInList(o)'
  BY <1>1, <1>2 DEF KeptInList
<1> QED
  BY <1>6, <1>7, <1>8, <1>10, <1>11, <1>12, OneConcerned

LEMMA WaitJobKeeps ==
  ASSUME TypeOK, TypeOK', ListInv, ~ListRace, NEW t \in Threads, NEW o \in Objs, WaitJob(t, o)
  PROVE  ListInv'
<1>1. /\ job' = [job EXCEPT ![t] = o] /\ pc' = [pc EXCEPT ![t] = "waiting"]
      /\ UNCHANGED <<workList, isr, jobDone, inWait, dev, poolVars, po, runDone,
                     linked, needRemove, coreId, stale, phase, holder>>
      /\ pc[t] = "user" /\ ~HasListener(ProcOf[t])
      /\ phase[o] = "running" /\ holder[o] = t /\ po[o] = ProcOf[t]
  BY DEF WaitJob, MayCall, devVars, procVars, objVars, clientVars
<1>2. job[t] = Nil /\ LifeOk(o) /\ PoolOk(o)
  BY <1>1 DEF ListInv, PlainCalls, Idle, LifeSound, PoolSound
<1>3. /\ pc'[t] = "waiting" /\ job'[t] = o
      /\ \A u \in Threads \ {t} : SameCall(u)
  BY <1>1 DEF SameCall, TypeOK, ThreadTypes
<1>4. \A x \in Objs : SameObj(x)
  BY <1>1 DEF SameObj, SameOnList, poolVars
<1>5. ConcernsOne(t, o)
  BY <1>1, <1>2, <1>3, <1>4 DEF ConcernsOne, SameObj, SameOnList, Listed, HoldsLock,
     DropPcs, Idle
<1>6. LifeOk(o)' /\ PoolOk(o)'
  BY <1>2, <1>4 DEF LifeOk, PoolOk, SameObj, SameOnList
<1>7. sema' = Cardinality(avail') /\ avail' \subseteq Objs /\ avail' = avail
  BY <1>1 DEF ListInv, PoolSound, poolVars, TypeOK, PoolTypes
<1>8. ASSUME NEW u \in Threads \ {t}, job[u] = o
      PROVE  pc[u] \in Listed /\ SameOnList(o)
  <2>1. pc[u] \in Waits \cup Busy /\ CallOk(u) /\ o # Nil
    BY <1>8, JobTaken DEF ListInv, CallsSound
  <2>2. pc[u] \in Listed
    BY <1>1, <1>2, <1>8, <2>1 DEF CallOk, WaiterOk, LinkerOk, ReleaserOk, LifeOk,
       Busy, LinkPcs, Unlisted, Listed
  <2> QED
    BY <1>1, <1>4, <2>2 DEF SameObj
<1>9. CallOk(t)'
  BY <1>1, <1>2, <1>3 DEF CallOk, WaiterOk, LinkerOk, PrevOk, ReleaserOk,
     HasListener, Unlisted, Listed, ReleasePcs
<1>10. SleepSound' /\ DoneSound'
  <2>1. DoneSound'
    BY <1>1, PlacesKept DEF placeVars, clientVars
  <2> QED
    BY <1>1, <1>3, <2>1, SleepersKept DEF SameCall
<1>11. ~KeptInList(o)'
  BY <1>1, <1>2 DEF KeptInList, LifeOk
<1> QED
  BY <1>5, <1>6, <1>7, <1>8, <1>9, <1>10, <1>11, OneConcerned

LEMMA WaitInterruptedKeeps ==
  ASSUME TypeOK, TypeOK', ListInv, ~ListRace, NEW t \in Threads, WaitInterrupted(t)
  PROVE  ListInv'
<1>1. /\ job' = [job EXCEPT ![t] = Nil] /\ pc' = [pc EXCEPT ![t] = "user"]
      /\ UNCHANGED <<workList, isr, jobDone, inWait, dev, poolVars, po, runDone,
                     linked, needRemove, coreId, stale, phase, holder>>
      /\ pc[t] = "asleep"
  BY DEF WaitInterrupted, devVars, procVars, objVars, clientVars
<1>2. CASE job[t] = Nil
  <2>1. job' = job
    BY <1>1, <1>2 DEF TypeOK, ThreadTypes
  <2> QED
    BY <1>1, <1>2, <2>1, GoesOn DEF placeVars, clientVars, Idle, Unlisted, Listed,
       Waits, DropPcs, ReleasePcs, HoldsLock
<1>3. CASE job[t] # Nil
  <2>0. job[t] \in Objs
    BY <1>3 DEF TypeOK, ThreadTypes, ObjOrNil
  <2> PICK o \in Objs : o = job[t]
    BY <2>0
  <2>1. /\ phase[o] = "running" /\ holder[o] = t /\ ~needRemove[o]
    BY <1>1, <1>3, JobTaken DEF ListInv, CallsSound, CallOk, WaiterOk, Waits, Unlisted
  <2>2. LifeOk(o) /\ PoolOk(o)
    BY DEF ListInv, LifeSound, PoolSound
  <2>3. /\ pc'[t] = "user" /\ job'[t] = Nil
        /\ \A u \in Threads \ {t} : SameCall(u)
    BY <1>1 DEF SameCall, TypeOK, ThreadTypes
  <2>4. \A x \in Objs : SameObj(x)
    BY <1>1 DEF SameObj, SameOnList, poolVars
  <2>5. ConcernsOne(t, o)
    BY <1>1, <2>3, <2>4 DEF ConcernsOne, SameObj, SameOnList, Listed, HoldsLock,
       DropPcs, Idle
  <2>6. LifeOk(o)' /\ PoolOk(o)'
    BY <2>2, <2>4 DEF LifeOk, PoolOk, SameObj, SameOnList
  <2>7. sema' = Cardinality(avail') /\ avail' \subseteq Objs /\ avail' = avail
    BY <1>1 DEF ListInv, PoolSound, poolVars, TypeOK, PoolTypes
  <2>8. ASSUME NEW u \in Threads \ {t}, job[u] = o
        PROVE  pc[u] \in Listed /\ SameOnList(o)
    <3>1. pc[u] \in Waits \cup Busy /\ CallOk(u) /\ o # Nil
      BY <2>8, JobTaken DEF ListInv, CallsSound
    <3>2. pc[u] \in Listed
      BY <2>1, <2>8, <3>1 DEF CallOk, WaiterOk, LinkerOk, ReleaserOk,
         Busy, LinkPcs, Unlisted, Listed
    <3> QED
      BY <1>1, <2>1, <2>4, <3>2 DEF SameObj
  <2>9. CallOk(t)' /\ SleepSound' /\ DoneSound'
    <3>1. DoneSound'
      BY <1>1, PlacesKept DEF placeVars, clientVars
    <3> QED
      BY <1>1, <2>3, <3>1, SleepersKept, BackToUser DEF SameCall
  <2>10. ~KeptInList(o)'
    BY <1>1, <2>1 DEF KeptInList
  <2> QED
    BY <2>5, <2>6, <2>7, <2>8, <2>9, <2>10, OneConcerned
<1> QED
  BY <1>2, <1>3

LEMMA WaitNothingKeeps ==
  ASSUME TypeOK, ListInv, NEW t \in Threads, WaitNothing(t)
  PROVE  ListInv'
<1>1. pc[t] = "waiting" /\ Owned(ProcOf[t]) = {} /\ job[t] \in Objs \cup {Nil}
  BY DEF WaitNothing, TypeOK, ThreadTypes, ObjOrNil
<1>2. job[t] = Nil
  BY <1>1 DEF ListInv, CallsSound, CallOk, WaiterOk, Waits, Owned
<1>3. job' = job
  BY <1>2 DEF WaitNothing, TypeOK, ThreadTypes
<1>4. phase' = phase
  <2>1. \A o \in Objs : o # job[t]
    BY <1>2
  <2>2. phase' = [o \in Objs |-> phase[o]]
    BY <2>1 DEF WaitNothing
  <2> QED
    BY <2>2 DEF TypeOK, ClientTypes
<1>5. \A p \in Procs : inWait[p] => inWait'[p]
  BY DEF WaitNothing, TypeOK, ProcTypes
<1> QED
  BY <1>1, <1>2, <1>3, <1>4, <1>5, GoesOn DEF WaitNothing, placeVars, objVars,
     devVars, clientVars, Idle, Unlisted, Listed, Waits, DropPcs, ReleasePcs, HoldsLock

LEMMA WaitGotKeeps ==
  ASSUME TypeOK, TypeOK', ListInv, ~ListRace, NEW t \in Threads, NEW o \in Objs, WaitGot(t, o)
  PROVE  ListInv'
<1> DEFINE p == ProcOf[t]
<1>1. /\ job' = [job EXCEPT ![t] = Nil] /\ pc' = [pc EXCEPT ![t] = "user"]
      /\ jobDone' = [jobDone EXCEPT ![p] = Without(@, o)]
      /\ phase' = [phase EXCEPT ![o] = "ready"] /\ holder' = [holder EXCEPT ![o] = t]
      /\ UNCHANGED <<workList, isr, inWait, dev, poolVars, po, runDone,
                     linked, needRemove, coreId, stale>>
      /\ pc[t] = "waiting" /\ On(jobDone[p], o) /\ job[t] \in {Nil, o}
  BY DEF WaitGot, Gets, TakeDone, devVars, objVars
<1>2. p \in Procs /\ po[o] = p /\ runDone[o] /\ phase[o] = "running"
  BY <1>1 DEF ListInv, DoneSound
<1>3. LifeOk(o) /\ PoolOk(o) /\ ~needRemove[o]
  BY <1>2 DEF ListInv, LifeSound, PoolSound, LifeOk
<1>4. /\ pc'[t] = "user" /\ job'[t] = Nil
      /\ \A u \in Threads \ {t} : SameCall(u)
  BY <1>1 DEF SameCall, TypeOK, ThreadTypes
<1>5. phase'[o] = "ready" /\ \A x \in Objs \ {o} : SameObj(x)
  BY <1>1 DEF SameObj, SameOnList, poolVars, TypeOK, ClientTypes
<1>6. ConcernsOne(t, o)
  BY <1>1, <1>4, <1>5 DEF ConcernsOne, SameOnList, Listed, HoldsLock, DropPcs, Idle
<1>7. LifeOk(o)' /\ PoolOk(o)'
  BY <1>1, <1>2, <1>3, <1>5 DEF LifeOk, PoolOk, poolVars
<1>8. sema' = Cardinality(avail') /\ avail' \subseteq Objs /\ avail' = avail
  BY <1>1 DEF ListInv, PoolSound, poolVars, TypeOK, PoolTypes
<1>9. ASSUME NEW u \in Threads \ {t}, job[u] = o
      PROVE  pc[u] \in Listed /\ SameOnList(o)
  <2>1. pc[u] \in Waits \cup Busy /\ CallOk(u) /\ CallOk(t) /\ o # Nil
    BY <1>9, JobTaken DEF ListInv, CallsSound
  <2>2. pc[u] \notin Waits
    BY <1>1, <1>2, <1>9, <2>1 DEF CallOk, WaiterOk, Waits
  <2>3. pc[u] \in Listed
    BY <1>2, <1>3, <1>9, <2>1, <2>2 DEF CallOk, LinkerOk, ReleaserOk,
       Busy, LinkPcs, Unlisted, Listed
  <2> QED
    BY <1>1, <1>5, <2>3 DEF SameOnList
<1>10. CallOk(t)' /\ SleepSound'
  BY <1>1, <1>4, SleepersKept, BackToUser DEF SameCall
<1>11. DoneSound'
  <2> SUFFICES ASSUME NEW q \in Procs
               PROVE  /\ \A x \in Objs : On(jobDone'[q], x) =>
                           po'[x] = q /\ runDone'[x] /\ phase'[x] = "running"
                      /\ Distinct(jobDone'[q])
    BY DEF DoneSound
  <2>1. jobDone[q] \in Seq(Objs) /\ Distinct(jobDone[q])
    BY DEF TypeOK, ProcTypes, ListInv, DoneSound
  <2>2. /\ \A x : On(jobDone'[q], x) <=> On(jobDone[q], x) /\ (q = p => x # o)
        /\ Distinct(jobDone'[q])
    <3>1. CASE q = p
      <4>1. jobDone'[q] = Without(jobDone[q], o)
        BY <1>1, <3>1 DEF TypeOK, ProcTypes
      <4> QED
        BY <2>1, <3>1, <4>1, OnWithout
    <3>2. CASE q # p
      BY <1>1, <2>1, <3>2 DEF TypeOK, ProcTypes
    <3> QED
      BY <3>1, <3>2
  <2>3. ASSUME NEW x \in Objs, On(jobDone'[q], x)
        PROVE  po'[x] = q /\ runDone'[x] /\ phase'[x] = "running"
    <3>1. po[x] = q /\ runDone[x] /\ phase[x] = "running" /\ (q = p => x # o)
      BY <2>2, <2>3 DEF ListInv, DoneSound
    <3>2. x # o
      BY <1>2, <3>1
    <3> QED
      BY <1>5, <3>1, <3>2 DEF SameObj
  <2> QED
    BY <2>2, <2>3
<1>12. ~KeptInList(o)'
  BY <1>1, <1>3 DEF KeptInList
<1> QED
  BY <1>6, <1>7, <1>8, <1>9, <1>10, <1>11, <1>12, OneConcerned

LEMMA ReleaseCallKeeps ==
  ASSUME TypeOK, TypeOK', ListInv, ~ListRace, NEW t \in Threads, NEW o \in Objs, ReleaseCall(t, o)
  PROVE  ListInv'
<1>1. /\ UNCHANGED <<workList, isr, jobDone, inWait, runDone, linked, coreId, stale>>
      /\ phase' = [phase EXCEPT ![o] = "none"] /\ holder' = [holder EXCEPT ![o] = Nil]
      /\ pc[t] = "user"
      /\ phase[o] \in {"ready", "reserved"}
  BY DEF ReleaseCall, Enters, MayCall, devVars
<1>2. /\ job[t] = Nil /\ ~needRemove[o] /\ (runDone[o] \/ coreId[o] = Nil)
      /\ o \notin avail /\ po[o] # Nil
  BY <1>1 DEF ListInv, PlainCalls, Idle, LifeSound, LifeOk, PoolSound, PoolOk
<1>3. phase'[o] = "none" /\ \A x \in Objs \ {o} : phase'[x] = phase[x] /\ holder'[x] = holder[x]
  BY <1>1 DEF TypeOK, ClientTypes
<1>4. SameOnList(o)
  BY <1>1 DEF SameOnList
<1>5. ASSUME NEW u \in Threads \ {t}, job[u] = o
      PROVE  pc[u] \in Listed /\ SameOnList(o)
  <2>1. pc[u] \in Waits \cup Busy /\ CallOk(u) /\ o # Nil
    BY <1>5, JobTaken, NilAssumption DEF ListInv, CallsSound
  <2> QED
    BY <1>1, <1>2, <1>4, <1>5, <2>1 DEF CallOk, WaiterOk, LinkerOk, ReleaserOk, Busy,
       LinkPcs, Unlisted, Listed
<1>7. ASSUME \A x \in Objs \ {o} : SameObj(x) PROVE DoneSound'
  BY <1>1, <1>7, DoneKept, NotReported
<1>8. CASE po[o] # ProcOf[t]
  <2>1. UNCHANGED <<po, poolVars, needRemove, job, dev, pc>>
    BY <1>8 DEF ReleaseCall
  <2>2. \A x \in Objs \ {o} : SameObj(x)
    BY <1>1, <1>3, <2>1 DEF SameObj, SameOnList, poolVars
  <2>3. ConcernsOne(t, o)
    BY <1>1, <1>2, <1>4, <2>1, <2>2 DEF ConcernsOne, SameCall, Listed, HoldsLock,
       DropPcs, Idle
  <2>4. LifeOk(o)' /\ PoolOk(o)'
    BY <1>1, <1>2, <1>3, <2>1 DEF LifeOk, PoolOk, poolVars
  <2>5. sema' = Cardinality(avail') /\ avail' \subseteq Objs /\ avail' = avail
    BY <2>1 DEF ListInv, PoolSound, poolVars, TypeOK, PoolTypes
  <2>6. CallOk(t)' /\ SleepSound'
    BY <1>1, <2>1, SleepersKept, BackToUser
  <2>7. ~KeptInList(o)'
    BY <1>2, <2>1 DEF KeptInList
  <2> QED
    BY <1>5, <1>7, <2>2, <2>3, <2>4, <2>5, <2>6, <2>7, OneConcerned
<1>9. CASE po[o] = ProcOf[t] /\ linked[o]
  <2>1. /\ needRemove' = [needRemove EXCEPT ![o] = TRUE]
        /\ job' = [job EXCEPT ![t] = o] /\ dev' = [dev EXCEPT ![t] = coreId[o]]
        /\ pc' = [pc EXCEPT ![t] = "relAccount"]
        /\ UNCHANGED <<po, poolVars>>
    BY <1>9 DEF ReleaseCall
  <2>2. /\ needRemove'[o] /\ job'[t] = o /\ dev'[t] = coreId[o] /\ pc'[t] = "relAccount"
        /\ \A u \in Threads \ {t} : SameCall(u)
    BY <2>1 DEF SameCall, TypeOK, ThreadTypes, ObjTypes
  <2>3. \A x \in Objs \ {o} : SameObj(x)
    BY <1>1, <1>3, <2>1 DEF SameObj, SameOnList, poolVars, TypeOK, ObjTypes
  <2>4. ConcernsOne(t, o)
    BY <1>1, <1>2, <1>4, <2>2, <2>3 DEF ConcernsOne, Listed, HoldsLock, DropPcs, Idle
  <2>5. LifeOk(o)' /\ PoolOk(o)'
    BY <1>1, <1>2, <1>3, <2>1 DEF LifeOk, PoolOk, poolVars
  <2>6. sema' = Cardinality(avail') /\ avail' \subseteq Objs /\ avail' = avail
    BY <2>1 DEF ListInv, PoolSound, poolVars, TypeOK, PoolTypes
  <2>7. CallOk(t)'
    BY <1>1, <1>2, <2>2, <2>6 DEF CallOk, WaiterOk, LinkerOk, PrevOk, ReleaserOk,
       Waits, Unlisted, Listed
  <2>8. SleepSound'
    BY <1>1, <2>2, SleepersKept DEF SameCall
  <2>9. ~KeptInList(o)'
    BY <2>2 DEF KeptInList
  <2> QED
    BY <1>5, <1>7, <2>3, <2>4, <2>5, <2>6, <2>7, <2>8, <2>9, OneConcerned
<1>10. CASE po[o] = ProcOf[t] /\ ~linked[o]
  <2>1. /\ po' = [po EXCEPT ![o] = Nil] /\ avail' = avail \cup {o} /\ sema' = sema + 1
        /\ UNCHANGED <<needRemove, job, dev, pc>>
    BY <1>10 DEF ReleaseCall, ReturnCmdbuf
  <2>2. po'[o] = Nil /\ \A x \in Objs \ {o} : SameObj(x)
    BY <1>1, <1>3, <2>1 DEF SameObj, SameOnList, TypeOK, ObjTypes
  <2>3. ConcernsOne(t, o)
    BY <1>1, <1>2, <1>4, <2>1, <2>2 DEF ConcernsOne, SameCall, Listed, HoldsLock,
       DropPcs, Idle
  <2>4. LifeOk(o)' /\ PoolOk(o)'
    BY <1>1, <1>2, <1>3, <1>10, <2>1, <2>2 DEF LifeOk, PoolOk
  <2>5. sema' = Cardinality(avail') /\ avail' \subseteq Objs
    <3>1. avail \subseteq Objs /\ IsFiniteSet(avail)
      BY ObjsFinite, FS_Subset DEF TypeOK, PoolTypes
    <3>2. Cardinality(avail \cup {o}) = Cardinality(avail) + 1
      BY <1>2, <3>1, FS_AddElement
    <3> QED
      BY <2>1, <3>1, <3>2 DEF ListInv, PoolSound
  <2>6. CallOk(t)' /\ SleepSound'
    BY <1>1, <2>1, SleepersKept, BackToUser
  <2>7. ~KeptInList(o)'
    BY <1>2, <2>1 DEF KeptInList
  <2> QED
    BY <1>5, <1>7, <2>2, <2>3, <2>4, <2>5, <2>6, <2>7, OneConcerned
<1> QED
  BY <1>8, <1>9, <1>10

---------------------------------------------------------------------------
(* Adding a job to a list, and telling its device.                         *)
LEMMA OneAdds ==
  ASSUME LockOwners, NEW t \in Threads, pc[t] \in {"linkScan"} \cup Listed
  PROVE  \A u \in Threads \ {t} : pc[u] \notin {"linkScan"} \cup Listed
BY DEF LockOwners, SemHeld, SemPcs, LinkPcs, Listed

LEMMA JobAdded ==
  ASSUME TypeOK, TypeOK', LockOwners, ListInv, ~ListRace,
         NEW t \in Threads, NEW d \in Devs, pc[t] = "linkScan", AddJob(d, job[t]), Goto(t, "linkKick"),
         UNCHANGED <<poolVars, po, runDone, needRemove, stale, jobDone, clientVars,
                     isr, inWait, job, dev>>
  PROVE  ListInv'
<1>0. job[t] \in Objs
  BY DEF TypeOK, ThreadTypes, UsesJob, LinkPcs, ObjOrNil
<1> PICK o \in Objs : o = job[t]
  BY <1>0
<1>1. /\ workList' = [workList EXCEPT ![d] = Append(@, o)]
      /\ coreId' = [coreId EXCEPT ![o] = d] /\ linked' = [linked EXCEPT ![o] = TRUE]
      /\ pc' = [pc EXCEPT ![t] = "linkKick"]
      /\ UNCHANGED <<avail, sema, phase, holder>>
  BY DEF AddJob, poolVars, clientVars
<1>2. /\ phase[o] = "running" /\ holder[o] = t
      /\ coreId[o] = Nil /\ ~runDone[o] /\ ~linked[o]
  BY DEF ListInv, CallsSound, CallOk, LinkerOk, Unlisted, TypeOK, ObjTypes
<1>3. LifeOk(o) /\ PoolOk(o) /\ o \notin avail
  BY <1>2 DEF ListInv, LifeSound, PoolSound, PoolOk
<1>4. /\ linked'[o] /\ coreId'[o] = d
      /\ \A x \in Objs \ {o} : SameObj(x)
  BY <1>1 DEF SameObj, SameOnList, TypeOK, ObjTypes
<1>5. pc'[t] = "linkKick" /\ \A u \in Threads \ {t} : SameCall(u)
  BY <1>1 DEF SameCall, TypeOK, ThreadTypes
<1>6. /\ workList'[d] = Append(workList[d], o)
      /\ \A e \in Devs \ {d} : workList'[e] = workList[e]
  BY <1>1 DEF TypeOK, DevTypes
<1>7. \A e \in Devs : /\ workList[e] \in Seq(Objs) /\ Distinct(workList[e])
                      /\ ~On(workList[e], o)
  BY <1>2 DEF ListInv, ListsExact, TypeOK, DevTypes
<1>8. PlainCalls'
  BY <1>5 DEF ListInv, PlainCalls, SameCall, LinkPcs, DropPcs, Idle
<1>9. ListsExact'
  <2> SUFFICES ASSUME NEW e \in Devs
               PROVE  /\ \A x \in Objs : On(workList'[e], x) <=> linked'[x] /\ coreId'[x] = e
                      /\ Distinct(workList'[e])
    BY DEF ListsExact
  <2>0. workList[e] \in Seq(Objs) /\ Distinct(workList[e]) /\ ~On(workList[e], o)
    BY <1>7
  <2> DEFINE s == Append(workList[e], o)
  <2>1. Distinct(s) /\ \A x : On(s, x) <=> On(workList[e], x) \/ x = o
    BY <2>0, OnAppend
  <2>2. workList'[e] = IF e = d THEN s ELSE workList[e]
    BY <1>6
  <2> HIDE DEF s
  <2>3. \A x \in Objs \ {o} : On(workList[e], x) <=> linked'[x] /\ coreId'[x] = e
    BY <1>4 DEF SameObj, SameOnList, ListInv, ListsExact
  <2>4. CASE e = d
    BY <1>4, <2>0, <2>1, <2>2, <2>3, <2>4
  <2>5. CASE e # d
    BY <1>4, <2>0, <2>2, <2>3, <2>5
  <2> QED
    BY <2>4, <2>5
<1>10. KeptAtEnd'
  <2> SUFFICES ASSUME NEW e \in Devs, NEW i \in 1..Len(workList'[e]),
                      NEW j \in 1..Len(workList'[e]), i < j
               PROVE  /\ ~JustAdded(workList[e][i])'
                      /\ KeptInList(workList[e][i])' => JustAdded(workList[e][j])'
    BY DEF KeptAtEnd
  <2>1. /\ \A x : JustAdded(x)' <=> x = o
        /\ \A x : ~JustAdded(x)
        /\ \A x \in Objs : KeptInList(x)' => KeptInList(x)
    <3>1. pc[t] \notin Listed /\ pc'[t] \in Listed /\ job'[t] = o
      BY <1>5 DEF Listed
    <3>2. \A u \in Threads \ {t} : pc[u] \notin Listed /\ pc'[u] \notin Listed
      BY <1>5, OneAdds DEF SameCall
    <3>3. \A x : JustAdded(x)' <=> x = o
      BY <3>1, <3>2 DEF JustAdded
    <3>4. \A x : ~JustAdded(x)
      BY <3>1, <3>2 DEF JustAdded
    <3>5. \A x \in Objs : KeptInList(x)' => KeptInList(x)
      BY DEF KeptInList
    <3> QED
      BY <3>3, <3>4, <3>5
  <2>2. i \in 1..Len(workList[e]) /\ workList'[e][i] = workList[e][i]
    <3>1. CASE e = d
      <4>1. Len(workList'[e]) = Len(workList[e]) + 1 /\ Len(workList[e]) \in Nat
        BY <1>6, <1>7, <3>1
      <4>2. i \in 1..Len(workList[e])
        BY <4>1
      <4> QED
        BY <1>6, <1>7, <3>1, <4>2
    <3>2. CASE e # d
      BY <1>6, <3>2
    <3> QED
      BY <3>1, <3>2
  <2>3. \/ j \in 1..Len(workList[e]) /\ workList'[e][j] = workList[e][j]
        \/ workList'[e][j] = o
    <3>1. CASE e = d
      BY <1>6, <1>7, <3>1
    <3>2. CASE e # d
      BY <1>6, <3>2
    <3> QED
      BY <3>1, <3>2
  <2> PICK x \in Objs : x = workList[e][i]
    BY <1>7, <2>2
  <2>4. x # o
    BY <1>7, <2>2 DEF On
  <2>5. KeptInList(x) => j \notin 1..Len(workList[e])
    BY <2>1, <2>2 DEF ListInv, KeptAtEnd
  <2> PICK y : y = workList'[e][j]
    OBVIOUS
  <2>6. KeptInList(x)' => y = o
    BY <2>1, <2>3, <2>5
  <2>7. ~JustAdded(x)' /\ (KeptInList(x)' => JustAdded(y)')
    BY <2>1, <2>4, <2>6
  <2> QED
    BY <2>2, <2>7
<1>11. PoolSound'
  <2>1. \A x \in Objs : PoolOk(x)'
    BY <1>1, <1>3, <1>4 DEF ListInv, PoolSound, PoolOk, SameObj, SameOnList
  <2> QED
    BY <1>1, <2>1 DEF ListInv, PoolSound
<1>12. LifeSound'
  <2>1. LifeOk(o)'
    BY <1>1, <1>2, <1>3, <1>4 DEF LifeOk
  <2>2. \A x \in Objs \ {o} : LifeOk(x)'
    BY <1>4 DEF ListInv, LifeSound, LifeOk, SameObj, SameOnList
  <2> QED
    BY <2>1, <2>2 DEF LifeSound
<1>13. DoneSound'
  BY <1>1 DEF ListInv, DoneSound
<1>14. CallsSound'
  <2>1. CallOk(t)'
    BY <1>1, <1>2, <1>3, <1>4, <1>5 DEF CallOk, WaiterOk, LinkerOk, PrevOk, ReleaserOk,
       Waits, Unlisted, Listed, ReleasePcs
  <2>2. ASSUME NEW u \in Threads \ {t} PROVE CallOk(u)'
    <3>1. job[u] # o
      <4> SUFFICES ASSUME job[u] = o PROVE FALSE
        OBVIOUS
      <4>1. pc[u] \in Waits \cup Busy /\ CallOk(u) /\ o # Nil
        BY JobTaken, NilAssumption DEF ListInv, CallsSound
      <4>2. pc[u] \notin Listed
        BY OneAdds
      <4> QED
        BY <1>2, <1>3, <4>1, <4>2 DEF CallOk, WaiterOk, LinkerOk, ReleaserOk, LifeOk,
           Busy, LinkPcs, Unlisted, Listed
    <3> QED
      BY <1>2, <1>4, <1>5, <1>9, <3>1, OthersGoOn DEF ListRace
  <2> QED
    BY <2>1, <2>2 DEF CallsSound
<1>15. IsrSound' /\ SleepSound'
  BY <1>2, <1>4, <1>5, IsrStays, SleepersKept DEF ListRace, SameCall
<1> QED
  BY <1>8, <1>9, <1>10, <1>11, <1>12, <1>13, <1>14, <1>15 DEF ListInv

LEMMA LinkScanKeeps ==
  ASSUME TypeOK, TypeOK', LockOwners, ListInv, ~ListRace,
         NEW t \in Threads, LinkScan(t) \/ LinkLeastLoaded(t)
  PROVE  ListInv'
<1>1. CASE LinkLeastLoaded(t)
  <2>1. PICK d \in Cores[t] : AddJob(d, job[t])
    BY <1>1 DEF LinkLeastLoaded
  <2>2. d \in Devs
    OBVIOUS
  <2> QED
    BY <1>1, <2>1, <2>2, JobAdded DEF LinkLeastLoaded, procVars
<1>2. CASE LinkScan(t)
  <2> DEFINE d == DevSeq[scan[t]]
  <2>1. CASE d \in Cores[t] /\ AddJob(d, job[t]) /\ Goto(t, "linkKick")
    <3>1. d \in Devs
      BY <2>1
    <3> QED
      BY <1>2, <2>1, <3>1, JobAdded DEF LinkScan, procVars
  <2>2. CASE UNCHANGED <<jmpNext, workList, coreId, linked, pc>>
    BY <1>2, <2>2, AllKept DEF LinkScan, placeVars, procVars
  <2> QED
    BY <1>2, <2>1, <2>2 DEF LinkScan
<1> QED
  BY <1>1, <1>2

LEMMA LinkKickKeeps ==
  ASSUME TypeOK, ListInv, NEW t \in Threads, LinkKick(t)
  PROVE  ListInv'
<1>1. coreId[job[t]] # Nil /\ CallOk(t)
  BY DEF LinkKick, ListInv, CallsSound, CallOk, LinkerOk, Listed
<1>2. /\ dev' = [dev EXCEPT ![t] = coreId[job[t]]]
      /\ pc' = [pc EXCEPT ![t] = "linkPrev"]
      /\ UNCHANGED <<placeVars, isr, inWait, job>>
      /\ pc[t] = "linkKick"
  BY <1>1 DEF LinkKick, placeVars, objVars, procVars
<1>3. /\ pc'[t] = "linkPrev" /\ dev'[t] = coreId[job[t]] /\ job'[t] = job[t]
      /\ \A u \in Threads \ {t} : SameCall(u)
  BY <1>2 DEF SameCall, TypeOK, ThreadTypes
<1>4. ListsExact' /\ PoolSound' /\ LifeSound' /\ DoneSound'
  BY <1>2, PlacesKept
<1>5. PlainCalls'
  BY <1>2, <1>3 DEF ListInv, PlainCalls, SameCall, LinkPcs, DropPcs, Idle
<1>6. KeptAtEnd'
  <2>1. \A x \in Objs : JustAdded(x)' <=> JustAdded(x)
    BY <1>2, <1>3 DEF JustAdded, SameCall, Listed
  <2>2. \A x \in Objs : KeptInList(x)' => KeptInList(x)
    BY <1>2 DEF KeptInList, placeVars
  <2> QED
    BY <1>2, <2>1, <2>2, EndKept DEF placeVars
<1>7. CallsSound'
  <2>1. UNCHANGED <<linked, coreId, stale, phase, holder, po, runDone, needRemove, avail>>
    BY <1>2 DEF placeVars, poolVars, clientVars
  <2>2. CallOk(t)'
    BY <1>1, <1>2, <1>3, <2>1 DEF CallOk, WaiterOk, LinkerOk, PrevOk, ReleaserOk,
       Waits, Unlisted, Listed, ReleasePcs
  <2>3. \A u \in Threads \ {t} : CallOk(u)'
    BY <1>3, <2>1 DEF ListInv, CallsSound, CallOk, WaiterOk, LinkerOk, PrevOk,
       ReleaserOk, SameCall
  <2> QED
    BY <2>2, <2>3 DEF CallsSound
<1>8. IsrSound' /\ SleepSound'
  BY <1>2, <1>3, SleepersKept DEF ListInv, IsrSound, IsrOk, placeVars, SameCall
<1> QED
  BY <1>4, <1>5, <1>6, <1>7, <1>8 DEF ListInv

---------------------------------------------------------------------------
(* Taking a released cmdbuf off its list and giving it back.               *)
LEMMA Unlinked ==
  ASSUME TypeOK, ListsExact, NEW d \in Devs, NEW x \in Objs, coreId[x] = d,
         Unlink(d, x), UNCHANGED coreId
  PROVE  /\ ListsExact' /\ ~linked'[x]
         /\ \A y \in Objs \ {x} : SameOnList(y)
         /\ stale'[x].next = NextOf(d, x) /\ stale'[x].prev = PrevOf(d, x)
         /\ \A e \in Devs : InOrder(workList'[e], workList[e])
<1>1. /\ workList' = [workList EXCEPT ![d] = Without(@, x)]
      /\ linked' = [linked EXCEPT ![x] = FALSE]
      /\ stale' = [stale EXCEPT ![x] = [next |-> NextOf(d, x), prev |-> PrevOf(d, x)]]
  BY DEF Unlink
<1>2. ~linked'[x] /\ \A y \in Objs \ {x} : SameOnList(y)
  BY <1>1 DEF SameOnList, TypeOK, ObjTypes
<1>3. stale'[x] = [next |-> NextOf(d, x), prev |-> PrevOf(d, x)]
  BY <1>1 DEF TypeOK, ObjTypes
<1>4. ASSUME NEW e \in Devs
      PROVE  /\ \A y \in Objs : On(workList'[e], y) <=> linked'[y] /\ coreId'[y] = e
             /\ Distinct(workList'[e])
             /\ InOrder(workList'[e], workList[e])
  <2>1. workList[e] \in Seq(Objs) /\ Distinct(workList[e])
    BY DEF TypeOK, DevTypes, ListsExact
  <2>2. \A y \in Objs : On(workList[e], y) <=> linked[y] /\ coreId[y] = e
    BY DEF ListsExact
  <2>3. CASE e = d
    <3> DEFINE s == Without(workList[d], x)
    <3>1. /\ Distinct(s) /\ InOrder(s, workList[d])
          /\ \A y : On(s, y) <=> On(workList[d], y) /\ y # x
      BY <2>1, <2>3, OnWithout
    <3>2. workList'[e] = s
      BY <1>1, <2>3 DEF TypeOK, DevTypes
    <3> HIDE DEF s
    <3> QED
      BY <1>2, <2>2, <2>3, <3>1, <3>2 DEF SameOnList
  <2>4. CASE e # d
    <3>1. workList'[e] = workList[e]
      BY <1>1, <2>4 DEF TypeOK, DevTypes
    <3>2. InOrder(workList[e], workList[e])
      BY DEF InOrder
    <3> QED
      BY <1>2, <2>1, <2>2, <2>4, <3>1, <3>2 DEF SameOnList
  <2> QED
    BY <2>3, <2>4
<1> QED
  BY <1>2, <1>3, <1>4 DEF ListsExact

LEMMA NothingUnlinked ==
  ASSUME TypeOK, ListsExact, UNCHANGED <<workList, linked, stale, coreId>>
  PROVE  /\ ListsExact'
         /\ \A y \in Objs : SameOnList(y)
         /\ \A e \in Devs : InOrder(workList'[e], workList[e])
<1>1. \A e \in Devs : InOrder(workList[e], workList[e])
  BY DEF InOrder
<1> QED
  BY <1>1 DEF ListsExact, SameOnList

LEMMA Removed ==
  ASSUME TypeOK, ListInv, NEW d \in Devs, NEW x \in Objs, coreId[x] = d,
         x \notin avail, needRemove[x], RemoveJob(d, x),
         UNCHANGED <<coreId, needRemove, runDone, jobDone, clientVars>>
  PROVE  /\ ListsExact' /\ PoolSound' /\ LifeSound' /\ DoneSound'
         /\ phase[x] = "none"
         /\ x \in avail' \/ SameObj(x)
         /\ \A y \in Objs \ {x} : SameObj(y)
         /\ \A e \in Devs : InOrder(workList'[e], workList[e])
         /\ linked'[x] => UNCHANGED workList /\ ~CanDelink(state[d], d, x)
<1>1. /\ phase[x] = "none" /\ (runDone[x] \/ coreId[x] = Nil)
      /\ UNCHANGED <<phase, holder>> /\ d # Nil
  BY DEF ListInv, LifeSound, LifeOk, clientVars
<1>2. /\ ListsExact'
      /\ \A y \in Objs \ {x} : SameOnList(y)
      /\ \A e \in Devs : InOrder(workList'[e], workList[e])
      /\ linked'[x] => UNCHANGED workList /\ ~CanDelink(state[d], d, x)
  <2>1. CASE linked[x] /\ CanDelink(state[d], d, x)
    BY <2>1, Unlinked DEF RemoveJob, ListInv
  <2>2. CASE ~(linked[x] /\ CanDelink(state[d], d, x))
    BY <2>2, NothingUnlinked DEF RemoveJob, ListInv
  <2> QED
    BY <2>1, <2>2
<1>3. CASE UNCHANGED <<po, poolVars, stale>> /\ linked'[x] /\ linked[x]
  <2>1. \A y \in Objs : SameObj(y)
    BY <1>1, <1>2, <1>3 DEF SameObj, SameOnList, poolVars
  <2>2. PoolSound'
    BY <1>1, <1>2, <1>3 DEF ListInv, PoolSound, PoolOk, SameOnList, poolVars
  <2>3. LifeSound'
    BY <1>1, <1>2, <1>3 DEF ListInv, LifeSound, LifeOk, SameOnList
  <2>4. DoneSound'
    BY <1>1, <1>3 DEF ListInv, DoneSound
  <2> QED
    BY <1>1, <1>2, <2>1, <2>2, <2>3, <2>4
<1>4. CASE ReturnCmdbuf(x) /\ ~linked'[x]
  <2>1. po' = [po EXCEPT ![x] = Nil] /\ avail' = avail \cup {x} /\ sema' = sema + 1
    BY <1>4 DEF ReturnCmdbuf
  <2>2. po'[x] = Nil /\ \A y \in Objs \ {x} : SameObj(y)
    BY <1>1, <1>2, <2>1 DEF SameObj, TypeOK, ObjTypes
  <2>3. sema' = Cardinality(avail')
    <3>1. avail \subseteq Objs /\ IsFiniteSet(avail)
      BY ObjsFinite, FS_Subset DEF TypeOK, PoolTypes
    <3>2. Cardinality(avail \cup {x}) = Cardinality(avail) + 1
      BY <3>1, FS_AddElement
    <3> QED
      BY <2>1, <3>2 DEF ListInv, PoolSound
  <2>4. PoolSound'
    <3>1. PoolOk(x)'
      BY <1>1, <1>4, <2>1, <2>2 DEF PoolOk
    <3>2. \A y \in Objs \ {x} : PoolOk(y)'
      BY <2>2 DEF ListInv, PoolSound, PoolOk, SameObj, SameOnList
    <3> QED
      BY <2>3, <3>1, <3>2 DEF PoolSound
  <2>5. LifeSound'
    <3>1. LifeOk(x)'
      BY <1>1 DEF LifeOk
    <3>2. \A y \in Objs \ {x} : LifeOk(y)'
      BY <2>2 DEF ListInv, LifeSound, LifeOk, SameObj, SameOnList
    <3> QED
      BY <3>1, <3>2 DEF LifeSound
  <2>6. DoneSound'
    BY <1>1, <2>2, DoneKept, NotReported
  <2> QED
    BY <1>1, <1>2, <2>1, <2>2, <2>4, <2>5, <2>6
<1>5. \/ UNCHANGED <<po, poolVars, stale>> /\ linked'[x] /\ linked[x]
      \/ ReturnCmdbuf(x) /\ ~linked'[x]
  <2>1. CASE linked[x] /\ ~CanDelink(state[d], d, x)
    BY <2>1 DEF RemoveJob
  <2>2. CASE linked[x] /\ CanDelink(state[d], d, x)
    BY <2>2, Unlinked DEF RemoveJob, ListInv
  <2>3. CASE ~linked[x]
    BY <2>3 DEF RemoveJob
  <2> QED
    BY <2>1, <2>2, <2>3
<1> QED
  BY <1>3, <1>4, <1>5

(* The other threads go on: one that still uses the cmdbuf would be in a   *)
(* race, and a waiter has none that is marked for removal.                 *)
LEMMA OthersAfterRemoval ==
  ASSUME TypeOK, TypeOK', ListInv, ListsExact', ~ReturnedInUse,
         NEW u \in Threads, SameCall(u), NEW x \in Objs,
         x \notin avail, needRemove[x], UNCHANGED coreId,
         \A y \in Objs \ {x} : SameObj(y), x \in avail' \/ SameObj(x)
  PROVE  CallOk(u)'
<1>1. ASSUME job[u] = x, ~SameObj(x) PROVE FALSE
  <2>1. pc[u] \in ReleasePcs \cup Listed
    BY <1>1, JobTaken, NilAssumption DEF Busy, LinkPcs, Unlisted, Listed
  <2>2. UsedByCall(u, x)'
    BY <1>1, <2>1 DEF UsedByCall, SameCall
  <2> QED
    BY <1>1, <2>2 DEF ReturnedInUse
<1> QED
  BY <1>1, OthersGoOn

(* The interrupt routine of a device is not concerned by the cmdbufs of    *)
(* others, and it is not on a device that a thread has locked.             *)
LEMMA OtherIsrs ==
  ASSUME TypeOK, ListInv, NEW d \in Devs, NEW e \in Devs \ {d},
         isr'[e] = isr[e], UNCHANGED coreId,
         \A y \in Objs : coreId[y] = e => SameOnList(y)
  PROVE  IsrOk(e)'
<1>1. IsrOk(e)
  BY DEF ListInv, IsrSound
<1>2. CASE isr[e].at = "walk" /\ isr[e].node # Nil
  <2>1. isr[e].node \in Objs
    BY <1>2 DEF TypeOK, DevTypes, IsrRecord, ObjOrNil
  <2> PICK x \in Objs : x = isr[e].node
    BY <2>1
  <2>2. SameOnList(x)
    BY <1>1, <1>2 DEF IsrOk
  <2>3. stale[x].next \in Objs \cup {Nil}
    BY DEF TypeOK, ObjTypes, ObjOrNil
  <2>4. stale[x].next \in Objs /\ coreId[stale[x].next] = e => SameOnList(stale[x].next)
    OBVIOUS
  <2> QED
    BY <1>1, <1>2, <2>2, <2>3, <2>4 DEF IsrOk, SameOnList
<1>3. CASE ~(isr[e].at = "walk" /\ isr[e].node # Nil)
  BY <1>1, <1>3 DEF IsrOk
<1> QED
  BY <1>2, <1>3

LEMMA IsrElsewhere ==
  ASSUME TypeOK, LockOwners, ListInv, UNCHANGED <<isr, coreId>>,
         NEW d \in Devs, lock[d] # "isr", NEW x \in Objs, coreId[x] = d,
         \A y \in Objs \ {x} : SameObj(y)
  PROVE  IsrSound'
<1>1. IsrOk(d)'
  BY DEF LockOwners, LocksHeld, IsrOk
<1>2. \A e \in Devs \ {d} : IsrOk(e)'
  BY OtherIsrs DEF SameObj
<1> QED
  BY <1>1, <1>2 DEF IsrSound

(* The neighbours of a node on a list.                                     *)
LEMMA Neighbours ==
  ASSUME TypeOK, ListsExact, NEW d \in Devs, NEW k \in 1..Len(workList[d]),
         NEW l \in 1..Len(workList[d]), k < l
  PROVE  /\ NextOf(d, workList[d][k]) = workList[d][k + 1]
         /\ PrevOf(d, workList[d][k + 1]) = workList[d][k]
         /\ NextOf(d, workList[d][k]) \in Objs
<1> DEFINE w == workList[d]
<1>1. w \in Seq(Objs) /\ Distinct(w) /\ Len(w) \in Nat
  BY DEF TypeOK, DevTypes, ListsExact
<1>2. k + 1 \in 1..Len(w) /\ k \in Int
  BY <1>1
<1>3. /\ On(w, w[k]) /\ Pos(w, w[k]) = k /\ w[k] \in Objs
      /\ On(w, w[k + 1]) /\ Pos(w, w[k + 1]) = k + 1 /\ w[k + 1] \in Objs
  <2>1. \A i \in 1..Len(w) : On(w, w[i]) /\ w[i] \in Objs
    BY <1>1 DEF On
  <2>2. \A i \in 1..Len(w) : Pos(w, w[i]) = i
    BY <1>1, <2>1, NeighbourOf
  <2> QED
    BY <1>2, <2>1, <2>2
<1>4. NextOf(d, w[k]) = ItemAt(w, k + 1) /\ PrevOf(d, w[k + 1]) = ItemAt(w, (k + 1) - 1)
  BY <1>3 DEF NextOf, PrevOf
<1>5. ItemAt(w, k + 1) = w[k + 1] /\ ItemAt(w, (k + 1) - 1) = w[k]
  BY <1>2 DEF ItemAt
<1> QED
  BY <1>3, <1>4, <1>5

(* What is at the end of the lists when one cmdbuf was taken off.          *)
LEMMA EndAfterCall ==
  ASSUME TypeOK, \A e \in Devs : InOrder(workList'[e], workList[e]),
         \A e \in Devs : \A k, l \in 1..Len(workList[e]) : \A x, y \in Objs :
           /\ k < l /\ x = workList[e][k] /\ y = workList[e][l]
           /\ On(workList'[e], x)
           => ~JustAdded(x)' /\ (KeptInList(x)' => JustAdded(y)')
  PROVE  KeptAtEnd'
<1> SUFFICES ASSUME NEW e \in Devs, NEW i \in 1..Len(workList'[e]),
                    NEW j \in 1..Len(workList'[e]), i < j
             PROVE  /\ ~JustAdded(workList[e][i])'
                    /\ KeptInList(workList[e][i])' => JustAdded(workList[e][j])'
  BY DEF KeptAtEnd
<1>1. PICK k, l \in 1..Len(workList[e]) :
        k < l /\ workList'[e][i] = workList[e][k] /\ workList'[e][j] = workList[e][l]
  BY DEF InOrder
<1>2. workList[e][k] \in Objs /\ workList[e][l] \in Objs
  BY ItemsAreObjs
<1> PICK x \in Objs, y \in Objs : x = workList[e][k] /\ y = workList[e][l]
  BY <1>2
<1>3. On(workList'[e], x)
  BY <1>1 DEF On
<1>4. ~JustAdded(x)' /\ (KeptInList(x)' => JustAdded(y)')
  BY <1>1, <1>3
<1>5. x = workList'[e][i] /\ y = workList'[e][j]
  BY <1>1
<1> QED
  BY <1>4, <1>5

LEMMA ReleaseLockKeeps ==
  ASSUME TypeOK, TypeOK', LockOwners, ListInv, ~ListRace, NEW t \in Threads,
         ReleaseLock(t)
  PROVE  ListInv'
<1>0. job[t] \in Objs /\ dev[t] \in Devs
  BY DEF ReleaseLock, TypeOK, ThreadTypes, UsesJob, UsesDev, ReleasePcs, ObjOrNil,
     DevOrNil
<1> PICK o \in Objs, d \in Devs : o = job[t] /\ d = dev[t]
  BY <1>0
<1>1. /\ pc[t] = "relLock" /\ lock[d] = "free" /\ RemoveJob(d, o)
      /\ job' = [job EXCEPT ![t] = Nil] /\ pc' = [pc EXCEPT ![t] = "user"]
      /\ dev' = [dev EXCEPT ![t] = Nil]
      /\ UNCHANGED <<coreId, needRemove, runDone, jobDone, inWait, isr, clientVars>>
  BY DEF ReleaseLock, procVars
<1>2. needRemove[o] /\ o \notin avail /\ d = coreId[o]
  BY <1>1 DEF ListInv, CallsSound, CallOk, ReleaserOk, ReleasePcs
<1>3. /\ pc'[t] = "user" /\ job'[t] = Nil
      /\ \A u \in Threads \ {t} : SameCall(u)
  BY <1>1 DEF SameCall, TypeOK, ThreadTypes
<1>4. /\ ListsExact' /\ PoolSound' /\ LifeSound' /\ DoneSound'
      /\ o \in avail' \/ SameObj(o)
      /\ \A y \in Objs \ {o} : SameObj(y)
      /\ \A e \in Devs : InOrder(workList'[e], workList[e])
      /\ linked'[o] => UNCHANGED workList /\ ~CanDelink(state[d], d, o)
  BY <1>1, <1>2, Removed
<1>6. CallsSound'
  <2>1. \A u \in Threads \ {t} : CallOk(u)'
    BY <1>1, <1>2, <1>3, <1>4, OthersAfterRemoval DEF ListRace
  <2> QED
    BY <1>3, <2>1, BackToUser DEF CallsSound
<1>7. PlainCalls'
  BY <1>1, <1>3 DEF ListInv, PlainCalls, SameCall, LinkPcs, ReleasePcs, DropPcs,
     Idle
<1>8. KeptAtEnd'
  <2> SUFFICES ASSUME NEW e \in Devs, NEW k \in 1..Len(workList[e]),
                      NEW l \in 1..Len(workList[e]), NEW x \in Objs, NEW y \in Objs,
                      k < l, x = workList[e][k], y = workList[e][l], On(workList'[e], x)
               PROVE  ~JustAdded(x)' /\ (KeptInList(x)' => JustAdded(y)')
    BY <1>4, EndAfterCall
  <2>1. ~JustAdded(x) /\ (KeptInList(x) => JustAdded(y))
    BY DEF ListInv, KeptAtEnd
  <2>2. (JustAdded(x)' <=> JustAdded(x)) /\ (JustAdded(y)' <=> JustAdded(y))
    BY <1>1, <1>3 DEF JustAdded, SameCall, Listed
  <2>3. CASE x # o
    <3>1. KeptInList(x)' => KeptInList(x)
      BY <1>1, <1>3, <2>3 DEF KeptInList, SameCall
    <3> QED
      BY <2>1, <2>2, <3>1
  <2>4. ASSUME x = o PROVE FALSE
    <3>1. On(workList[e], o)
      BY <2>4 DEF On
    <3>2. e = d
      BY <1>2, <3>1 DEF ListInv, ListsExact
    <3>3. linked'[o]
      BY <1>4, <2>4 DEF ListsExact
    <3>4. NextOf(d, o) = Nil
      BY <1>4, <3>3 DEF CanDelink
    <3>5. NextOf(e, workList[e][k]) \in Objs
      BY Neighbours DEF ListInv
    <3> QED
      BY <2>4, <3>2, <3>4, <3>5
  <2> QED
    BY <2>3, <2>4
<1>9. IsrSound' /\ SleepSound'
  BY <1>1, <1>2, <1>3, <1>4, IsrElsewhere, SleepersKept DEF SameCall
<1> QED
  BY <1>4, <1>6, <1>7, <1>8, <1>9 DEF ListInv

(* The predecessor that the link call looks at is on the same device.      *)
LEMMA PredecessorKnown ==
  ASSUME TypeOK, ListInv, NEW t \in Threads, NEW o \in Objs, NEW d \in Devs,
         pc[t] = "linkPrev", o = job[t], d = dev[t], PrevOf(d, o) # Nil
  PROVE  PrevOf(d, o) \in Objs /\ PrevOf(d, o) \notin avail /\ coreId[PrevOf(d, o)] = d
<1> DEFINE p == PrevOf(d, o)
<1>1. d = coreId[o] /\ PrevOk(t)
  BY DEF ListInv, CallsSound, CallOk, LinkerOk, Listed
<1>2. CASE linked[o]
  <2>1. On(workList[d], o)
    BY <1>1, <1>2 DEF ListInv, ListsExact
  <2>2. workList[d] \in Seq(Objs) /\ Distinct(workList[d])
    BY DEF TypeOK, DevTypes, ListInv, ListsExact
  <2>3. Pos(workList[d], o) - 1 \in Int
    BY <2>1, <2>2, NeighbourOf
  <2>4. On(workList[d], p)
    BY <2>1, <2>2, <2>3, NeighbourOf DEF PrevOf
  <2>5. p \in Objs \cup {Nil}
    BY NextOfType DEF ObjOrNil
  <2> QED
    BY <2>4, <2>5 DEF ListInv, ListsExact, PoolSound, PoolOk
<1>3. CASE ~linked[o]
  <2>1. p = stale[o].prev /\ p \in Objs \cup {Nil}
    BY <1>3 DEF ListInv, ListsExact, PrevOf, TypeOK, ObjTypes, ObjOrNil
  <2> QED
    BY <1>1, <1>3, <2>1 DEF PrevOk, Listed
<1> QED
  BY <1>2, <1>3

LEMMA LinkPrevKeeps ==
  ASSUME TypeOK, TypeOK', LockOwners, ListInv, ~ListRace, NEW t \in Threads,
         LinkPrev(t)
  PROVE  ListInv'
<1>0. job[t] \in Objs /\ dev[t] \in Devs
  BY DEF LinkPrev, TypeOK, ThreadTypes, UsesJob, UsesDev, LinkPcs, HoldsLock, ObjOrNil,
     DevOrNil
<1> PICK o \in Objs, d \in Devs : o = job[t] /\ d = dev[t]
  BY <1>0
<1> DEFINE p == PrevOf(d, o)
<1>1. /\ pc[t] = "linkPrev"
      /\ job' = [job EXCEPT ![t] = Nil] /\ pc' = [pc EXCEPT ![t] = "user"]
      /\ dev' = [dev EXCEPT ![t] = Nil]
      /\ UNCHANGED <<coreId, needRemove, runDone, jobDone, inWait, isr, clientVars>>
      /\ IF KeptForJmp(p) THEN RemoveJob(d, p)
         ELSE UNCHANGED <<po, poolVars, jmpNext, stale, workList, linked>>
  BY DEF LinkPrev, procVars
<1>2. d = coreId[o]
  BY <1>1 DEF ListInv, CallsSound, CallOk, LinkerOk
<1>3. p # Nil => p \in Objs /\ p \notin avail /\ coreId[p] = d
  BY <1>1, PredecessorKnown
<1>4. /\ pc'[t] = "user" /\ job'[t] = Nil
      /\ \A u \in Threads \ {t} : SameCall(u)
  BY <1>1 DEF SameCall, TypeOK, ThreadTypes
<1>5. \A x : (JustAdded(x) => x = o) /\ ~JustAdded(x)'
  <2>1. \A u \in Threads \ {t} : pc[u] \notin Listed /\ pc'[u] \notin Listed
    BY <1>1, <1>4, OneAdds DEF Listed, SameCall
  <2>2. pc'[t] \notin Listed
    BY <1>4 DEF Listed
  <2> QED
    BY <2>1, <2>2 DEF JustAdded
<1>6. PlainCalls'
  BY <1>1, <1>4 DEF ListInv, PlainCalls, SameCall, LinkPcs, ReleasePcs, DropPcs,
     Idle
<1>7. SleepSound' /\ CallOk(t)'
  BY <1>1, <1>4, SleepersKept, BackToUser DEF SameCall
<1>8. lock[d] # "isr"
  BY <1>1 DEF LockOwners, LocksHeld, Holds, HoldsLock
<1>9. \A e \in Devs : \A k, l \in 1..Len(workList[e]) :
        k < l /\ KeptInList(workList[e][k]) =>
          /\ e = d /\ workList[e][k] = p /\ linked[p] /\ NextOf(d, p) # Nil
  <2> SUFFICES ASSUME NEW e \in Devs, NEW k \in 1..Len(workList[e]),
                      NEW l \in 1..Len(workList[e]), k < l,
                      KeptInList(workList[e][k])
               PROVE  e = d /\ workList[e][k] = p /\ linked[p] /\ NextOf(d, p) # Nil
    OBVIOUS
  <2>1. \A m \in 1..Len(workList[e]) : k < m => workList[e][m] = o
    <3> TAKE m \in 1..Len(workList[e])
    <3> HAVE k < m
    <3>1. JustAdded(workList[e][m])
      BY DEF ListInv, KeptAtEnd
    <3> QED
      BY <1>5, <3>1
  <2>2. e = d
    <3>1. On(workList[e], o)
      BY <2>1 DEF On
    <3> QED
      BY <1>2, <3>1 DEF ListInv, ListsExact
  <2>3. k + 1 \in 1..Len(workList[e]) /\ k < k + 1
    BY DEF TypeOK, DevTypes
  <2>4. workList[e][k + 1] = o
    BY <2>1, <2>3
  <2>5. p = workList[e][k] /\ NextOf(d, p) # Nil
    BY <2>2, <2>4, Neighbours DEF ListInv
  <2>6. On(workList[d], p) /\ p \in Objs
    BY <2>2, <2>5, ItemsAreObjs DEF On
  <2> QED
    BY <2>2, <2>5, <2>6 DEF ListInv, ListsExact
<1>10. ASSUME NEW e \in Devs, NEW k \in 1..Len(workList[e]),
              NEW l \in 1..Len(workList[e]), k < l,
              NEW y \in Objs, y = workList[e][k], KeptInList(y)'
       PROVE  KeptInList(workList[e][k])
  <2>1. JustAdded(o) /\ ~JustAdded(y)
    BY <1>1, <1>10 DEF JustAdded, Listed, ListInv, KeptAtEnd
  <2> QED
    BY <1>1, <1>4, <1>10, <2>1 DEF KeptInList, SameCall
<1> HIDE DEF p
<1>11. CASE KeptForJmp(p)
  <2>0. p \in Objs
    BY <1>3, <1>11 DEF KeptForJmp
  <2> PICK x \in Objs : x = p
    BY <2>0
  <2>1. RemoveJob(d, x) /\ needRemove[x] /\ x \notin avail /\ coreId[x] = d
    BY <1>1, <1>3, <1>11 DEF KeptForJmp
  <2>2. /\ ListsExact' /\ PoolSound' /\ LifeSound' /\ DoneSound'
        /\ x \in avail' \/ SameObj(x)
        /\ \A y \in Objs \ {x} : SameObj(y)
        /\ \A e \in Devs : InOrder(workList'[e], workList[e])
        /\ linked'[x] => UNCHANGED workList /\ ~CanDelink(state[d], d, x)
    BY <1>1, <2>1, Removed
  <2>3. CallsSound'
    <3>1. \A u \in Threads \ {t} : CallOk(u)'
      BY <1>1, <1>4, <2>1, <2>2, OthersAfterRemoval DEF ListRace
    <3> QED
      BY <1>7, <3>1 DEF CallsSound
  <2>4. KeptAtEnd'
    <3> SUFFICES ASSUME NEW e \in Devs, NEW k \in 1..Len(workList[e]),
                        NEW l \in 1..Len(workList[e]), NEW y \in Objs,
                        k < l, y = workList[e][k], KeptInList(y)', On(workList'[e], y)
                 PROVE  FALSE
      BY <1>5, <2>2, EndAfterCall
    <3>1. KeptInList(workList[e][k])
      BY <1>10
    <3>2. e = d /\ y = x /\ NextOf(d, x) # Nil
      BY <1>9, <3>1
    <3>3. linked'[x]
      BY <2>2, <3>2 DEF ListsExact
    <3> QED
      BY <2>2, <3>2, <3>3 DEF CanDelink
  <2>5. IsrSound'
    BY <1>1, <1>8, <2>1, <2>2, IsrElsewhere
  <2> QED
    BY <1>6, <1>7, <2>2, <2>3, <2>4, <2>5 DEF ListInv
<1>12. CASE ~KeptForJmp(p)
  <2>1. UNCHANGED placeVars /\ UNCHANGED isr
    BY <1>1, <1>12 DEF placeVars
  <2>2. ListsExact' /\ PoolSound' /\ LifeSound' /\ DoneSound'
    BY <2>1, PlacesKept
  <2>3. IsrSound'
    BY <2>1 DEF ListInv, IsrSound, IsrOk, placeVars
  <2>4. CallsSound'
    <3>1. \A u \in Threads \ {t} : CallOk(u)'
      BY <1>4, <2>1 DEF ListInv, CallsSound, CallOk, WaiterOk, LinkerOk, PrevOk,
         ReleaserOk, SameCall, placeVars, poolVars, clientVars
    <3> QED
      BY <1>7, <3>1 DEF CallsSound
  <2>5. KeptAtEnd'
    <3> SUFFICES ASSUME NEW e \in Devs, NEW k \in 1..Len(workList[e]),
                        NEW l \in 1..Len(workList[e]), NEW y \in Objs,
                        k < l, y = workList[e][k], KeptInList(y)', On(workList'[e], y)
                 PROVE  FALSE
      <4>1. \A e \in Devs : InOrder(workList'[e], workList[e])
        BY <2>1 DEF InOrder, placeVars
      <4> QED
        BY <1>5, <4>1, EndAfterCall
    <3>1. KeptInList(workList[e][k])
      BY <1>10
    <3>2. workList[e][k] = p /\ p # Nil
      BY <1>9, <3>1, ItemsAreObjs
    <3> QED
      BY <1>12, <3>1, <3>2 DEF KeptForJmp, KeptInList
  <2> QED
    BY <1>6, <1>7, <2>2, <2>3, <2>4, <2>5 DEF ListInv
<1> QED
  BY <1>11, <1>12

---------------------------------------------------------------------------
(* The interrupt routine reports a cmdbuf.                                 *)
OnListOf(d, x) == linked[x] /\ coreId[x] = d

LEMMA ItemOnList ==
  ASSUME TypeOK, ListsExact, NEW d \in Devs, NEW k \in Int, ItemAt(workList[d], k) # Nil
  PROVE  ItemAt(workList[d], k) \in Objs /\ OnListOf(d, ItemAt(workList[d], k))
<1>1. /\ k \in 1..Len(workList[d])
      /\ ItemAt(workList[d], k) = workList[d][k]
  BY DEF ItemAt
<1>2. workList[d][k] \in Objs /\ On(workList[d], workList[d][k])
  BY <1>1, ItemsAreObjs DEF On
<1> QED
  BY <1>1, <1>2 DEF ListsExact, OnListOf

LEMMA NeighboursOnList ==
  ASSUME TypeOK, ListsExact, NEW d \in Devs, NEW o \in Objs, OnListOf(d, o)
  PROVE  /\ NextOf(d, o) # Nil =>
              NextOf(d, o) \in Objs \ {o} /\ OnListOf(d, NextOf(d, o))
         /\ PrevOf(d, o) # Nil => PrevOf(d, o) \in Objs /\ OnListOf(d, PrevOf(d, o))
<1> DEFINE w == workList[d]
           k == Pos(w, o)
<1>1. w \in Seq(Objs) /\ Distinct(w) /\ On(w, o)
  BY DEF TypeOK, DevTypes, ListsExact, OnListOf
<1>2. k \in 1..Len(w) /\ w[k] = o /\ \A i \in 1..Len(w) : w[i] = o => i = k
  BY <1>1, NeighbourOf
<1>3. NextOf(d, o) = ItemAt(w, k + 1) /\ PrevOf(d, o) = ItemAt(w, k - 1)
  BY <1>1 DEF NextOf, PrevOf
<1>4. k \in Int /\ k + 1 \in Int /\ k - 1 \in Int /\ k + 1 # k
  BY <1>2
<1> HIDE DEF k
<1>5. ItemAt(w, k + 1) # Nil => ItemAt(w, k + 1) # o
  BY <1>2, <1>4 DEF ItemAt
<1> QED
  BY <1>3, <1>4, <1>5, ItemOnList

LEMMA WalksOnList ==
  ASSUME TypeOK, ListInv, NEW d \in Devs, isr[d].at = "walk", WalkNext(d) # Nil
  PROVE  WalkNext(d) \in Objs /\ OnListOf(d, WalkNext(d))
<1> DEFINE x == isr[d].node
<1>0. x \in Objs \cup {Nil} /\ ListsExact
  BY DEF TypeOK, DevTypes, IsrRecord, ObjOrNil, ListInv
<1>1. CASE x = Nil
  BY <1>0, <1>1, ItemOnList DEF WalkNext
<1>2. CASE x # Nil
  <2>1. x \in Objs /\ WalkNext(d) = NextOf(d, x) /\ coreId[x] = d
    BY <1>0, <1>2 DEF WalkNext, ListInv, IsrSound, IsrOk
  <2>2. CASE linked[x]
    BY <1>0, <2>1, <2>2, NeighboursOnList DEF OnListOf
  <2>3. CASE ~linked[x]
    <3>1. WalkNext(d) = stale[x].next
      BY <1>0, <2>1, <2>3 DEF NextOf, ListsExact
    <3>2. stale[x].next \in Objs \cup {Nil}
      BY <2>1 DEF TypeOK, ObjTypes, ObjOrNil
    <3> QED
      BY <1>2, <2>3, <3>1, <3>2 DEF ListInv, IsrSound, IsrOk, OnListOf
  <2> QED
    BY <2>2, <2>3
<1> QED
  BY <1>1, <1>2

(* Only sleepers move, and only to where they look at the done list again. *)
Wakes(o) == Reports(o) /\ (jobDone[po[o]] = <<>> \/ inWait[po[o]])
WakesSome(o) ==
  \A u \in Threads :
    pc'[u] = IF Wakes(o) /\ pc[u] = "asleep" /\ ProcOf[u] = po[o]
             THEN "waiting" ELSE pc[u]

LEMMA DoneWakes ==
  ASSUME ListInv, NEW o \in Objs, NEW d \in Devs,
         pc' = PcAfterDone(o) \/ pc' = AbortWoken(PcAfterDone(o), d)
  PROVE  WakesSome(o)
<1> DEFINE f == PcAfterDone(o)
<1>1. \A u \in Threads : f[u] = IF Wakes(o) /\ pc[u] = "asleep" /\ ProcOf[u] = po[o]
                                THEN "waiting" ELSE pc[u]
  BY DEF PcAfterDone, Woken, Wakes
<1>2. \A u \in Threads : f[u] # "dropAsleep"
  BY <1>1 DEF ListInv, PlainCalls, DropPcs
<1> HIDE DEF f
<1>3. \A u \in Threads : AbortWoken(f, d)[u] = f[u]
  BY <1>2 DEF AbortWoken
<1> QED
  BY <1>1, <1>3 DEF WakesSome, f

(* What happens to the list of the cmdbuf.                                 *)
LEMMA NodeOffList ==
  ASSUME TypeOK, ListInv, NEW d \in Devs, NEW o \in Objs, coreId[o] = d,
         NEW st, NEW status, ProcessNode(st, d, o, status), UNCHANGED coreId
  PROVE  /\ ListsExact'
         /\ \A y \in Objs \ {o} : SameOnList(y)
         /\ \A e \in Devs : InOrder(workList'[e], workList[e])
         /\ runDone[o] => SameOnList(o)
         /\ \/ SameOnList(o)
            \/ /\ OnListOf(d, o) /\ ~linked'[o]
               /\ stale'[o].next = NextOf(d, o) /\ stale'[o].prev = PrevOf(d, o)
<1>1. ListsExact
  BY DEF ListInv
<1>2. CASE ~runDone[o] /\ linked[o] /\ Unlink(d, o)
  BY <1>1, <1>2, Unlinked DEF OnListOf
<1>3. CASE UNCHANGED <<workList, linked, stale>>
  BY <1>1, <1>3, NothingUnlinked
<1> QED
  BY <1>2, <1>3 DEF ProcessNode

LEMMA NodeEndKept ==
  ASSUME TypeOK, ListInv, UNCHANGED <<needRemove, job>>,
         \A e \in Devs : InOrder(workList'[e], workList[e]),
         \A u \in Threads : pc'[u] = pc[u] \/ {pc[u], pc'[u]} \cap Listed = {}
  PROVE  KeptAtEnd'
<1> SUFFICES ASSUME NEW e \in Devs, NEW k \in 1..Len(workList[e]),
                    NEW l \in 1..Len(workList[e]), NEW x \in Objs, NEW y \in Objs,
                    k < l, x = workList[e][k], y = workList[e][l]
             PROVE  ~JustAdded(x)' /\ (KeptInList(x)' => JustAdded(y)')
  BY EndAfterCall
<1>1. ~JustAdded(x) /\ (KeptInList(x) => JustAdded(y))
  BY DEF ListInv, KeptAtEnd
<1>2. (JustAdded(x)' <=> JustAdded(x)) /\ (JustAdded(y)' <=> JustAdded(y))
  BY DEF JustAdded
<1>3. KeptInList(x)' <=> KeptInList(x)
  BY DEF KeptInList
<1> QED
  BY <1>1, <1>2, <1>3

(* ... and to the done list of its process.                                *)
LEMMA NodeReported ==
  ASSUME TypeOK, ListInv, NEW o \in Objs, ~runDone[o],
         phase[o] = "running", AddDone(o), runDone' = [runDone EXCEPT ![o] = TRUE],
         UNCHANGED <<po, phase>>, WakesSome(o)
  PROVE  DoneSound' /\ SleepSound'
<1>1. runDone'[o] /\ \A x \in Objs : runDone[x] => runDone'[x]
  BY DEF TypeOK, ObjTypes
<1>2. CASE ~Reports(o)
  <2>1. UNCHANGED <<jobDone, inWait>> /\ \A u \in Threads : pc'[u] = pc[u]
    BY <1>2 DEF AddDone, WakesSome, Wakes
  <2>2. SleepSound'
    BY <2>1 DEF ListInv, SleepSound
  <2>3. DoneSound'
    BY <1>1, <2>1 DEF ListInv, DoneSound
  <2> QED
    BY <2>2, <2>3
<1>3. CASE Reports(o)
  <2> DEFINE p == po[o]
  <2>1. p \in Procs /\ ~On(jobDone[p], o)
    BY <1>3 DEF Reports, TypeOK, ObjTypes
  <2>2. /\ jobDone'[p] = Append(jobDone[p], o)
        /\ \A q \in Procs \ {p} : jobDone'[q] = jobDone[q]
        /\ \A q \in Procs \ {p} : inWait'[q] = inWait[q]
    BY <1>3, <2>1 DEF AddDone, TypeOK, ProcTypes
  <2>3. \A q \in Procs : jobDone[q] \in Seq(Objs) /\ Distinct(jobDone[q])
    BY DEF TypeOK, ProcTypes, ListInv, DoneSound
  <2>4. \A q \in Procs : \A x \in Objs : On(jobDone[q], x) =>
          po[x] = q /\ runDone[x] /\ phase[x] = "running"
    BY DEF ListInv, DoneSound
  <2>5. DoneSound'
    <3> SUFFICES ASSUME NEW q \in Procs
                 PROVE  /\ \A x \in Objs : On(jobDone'[q], x) =>
                             po'[x] = q /\ runDone'[x] /\ phase'[x] = "running"
                        /\ Distinct(jobDone'[q])
      BY DEF DoneSound
    <3>1. CASE q # p
      BY <1>1, <2>2, <2>3, <2>4, <3>1
    <3>2. CASE q = p
      <4> DEFINE s == Append(jobDone[p], o)
      <4>1. Distinct(s) /\ \A x : On(s, x) <=> On(jobDone[p], x) \/ x = o
        BY <2>1, <2>3, OnAppend
      <4>2. jobDone'[q] = s
        BY <2>2, <3>2
      <4> HIDE DEF s
      <4> QED
        BY <1>1, <2>4, <3>2, <4>1, <4>2
    <3> QED
      BY <3>1, <3>2
  <2>6. SleepSound'
    <3> SUFFICES ASSUME NEW u \in Threads, pc'[u] = "asleep" PROVE inWait'[ProcOf[u]]
      BY DEF SleepSound
    <3>1. pc[u] = "asleep" /\ ~(Wakes(o) /\ ProcOf[u] = po[o])
      BY DEF WakesSome
    <3>2. inWait[ProcOf[u]] /\ ProcOf[u] \in Procs
      BY <3>1 DEF ListInv, SleepSound
    <3>3. ProcOf[u] # p
      BY <1>3, <3>1, <3>2 DEF Wakes
    <3> QED
      BY <2>2, <3>2, <3>3
  <2> QED
    BY <2>5, <2>6
<1> QED
  BY <1>2, <1>3

(* ... and what the calls know of it.                                      *)
LEMMA NodeCalls ==
  ASSUME TypeOK, ListInv, NEW d \in Devs, NEW o \in Objs, coreId[o] = d,
         WakesSome(o), UNCHANGED <<avail, po, coreId, needRemove, phase, holder, job, dev>>,
         \A x \in Objs \ {o} : runDone'[x] <=> runDone[x],
         \A y \in Objs \ {o} : SameOnList(y),
         \/ SameOnList(o)
         \/ /\ OnListOf(d, o) /\ ~linked'[o]
            /\ stale'[o].next = NextOf(d, o) /\ stale'[o].prev = PrevOf(d, o)
  PROVE  CallsSound'
<1> SUFFICES ASSUME NEW u \in Threads PROVE CallOk(u)'
  BY DEF CallsSound
<1>1. CallOk(u) /\ (job[u] \in Objs \/ job[u] = Nil)
  BY DEF ListInv, CallsSound, TypeOK, ThreadTypes, ObjOrNil
<1>2. pc'[u] = pc[u] \/ (pc[u] = "asleep" /\ pc'[u] = "waiting")
  BY DEF WakesSome
<1>3. WaiterOk(u)' /\ ReleaserOk(u)'
  BY <1>1, <1>2 DEF CallOk, WaiterOk, ReleaserOk, Waits, ReleasePcs
<1>4. LinkerOk(u)'
  <2>1. pc[u] \in Unlisted => job[u] \in Objs \ {o}
    BY <1>1 DEF CallOk, LinkerOk, TypeOK, ThreadTypes, UsesJob, LinkPcs, Unlisted
  <2> QED
    BY <1>1, <1>2, <2>1 DEF CallOk, LinkerOk, Unlisted, Listed
<1>5. PrevOk(u)'
  <2> SUFFICES ASSUME pc[u] \in Listed, ~linked'[job[u]], stale'[job[u]].prev # Nil
               PROVE  /\ stale'[job[u]].prev \notin avail
                      /\ coreId[stale'[job[u]].prev] = coreId[job[u]]
    BY <1>2 DEF PrevOk, Listed
  <2>1. job[u] \in Objs
    BY DEF TypeOK, ThreadTypes, UsesJob, LinkPcs, Listed, ObjOrNil
  <2>2. CASE SameOnList(job[u])
    BY <1>1, <2>2 DEF SameOnList, CallOk, PrevOk
  <2>3. CASE job[u] = o /\ OnListOf(d, o) /\ stale'[o].prev = PrevOf(d, o)
    <3>1. PrevOf(d, o) \in Objs /\ OnListOf(d, PrevOf(d, o))
      BY <2>3, NeighboursOnList DEF ListInv
    <3> QED
      BY <2>3, <3>1 DEF OnListOf, ListInv, PoolSound, PoolOk
  <2> QED
    BY <2>1, <2>2, <2>3
<1> QED
  BY <1>3, <1>4, <1>5 DEF CallOk

AllButIsr ==
  /\ PlainCalls /\ ListsExact /\ KeptAtEnd /\ PoolSound /\ LifeSound
  /\ CallsSound /\ DoneSound /\ SleepSound

(* A step of the interrupt routine keeps all that is not about its own     *)
(* place in the list, and what it knows of the lists of other devices.     *)
LEMMA NodeKeeps ==
  ASSUME TypeOK, ListInv, NEW d \in Devs, NEW o \in Objs, coreId[o] = d,
         NEW st, NEW status, ProcessNode(st, d, o, status), WakesSome(o),
         UNCHANGED <<poolVars, po, coreId, needRemove, clientVars, job, dev>>
  PROVE  /\ AllButIsr'
         /\ \A y \in Objs \ {o} : SameOnList(y)
         /\ runDone[o] => SameOnList(o)
         /\ \/ SameOnList(o)
            \/ /\ OnListOf(d, o) /\ ~linked'[o]
               /\ stale'[o].next = NextOf(d, o) /\ stale'[o].prev = PrevOf(d, o)
<1>1. UNCHANGED <<sema, avail, phase, holder>> /\ d # Nil
  BY DEF poolVars, clientVars
<1>2. /\ ListsExact'
      /\ \A y \in Objs \ {o} : SameOnList(y)
      /\ \A e \in Devs : InOrder(workList'[e], workList[e])
      /\ runDone[o] => SameOnList(o)
      /\ \/ SameOnList(o)
         \/ /\ OnListOf(d, o) /\ ~linked'[o]
            /\ stale'[o].next = NextOf(d, o) /\ stale'[o].prev = PrevOf(d, o)
  BY NodeOffList
<1>3. \/ runDone[o] /\ UNCHANGED <<runDone, jobDone, inWait>>
      \/ ~runDone[o] /\ runDone' = [runDone EXCEPT ![o] = TRUE] /\ AddDone(o)
  BY DEF ProcessNode
<1>4. \A x \in Objs \ {o} : runDone'[x] <=> runDone[x]
  BY <1>3 DEF TypeOK, ObjTypes
<1>5. runDone'[o]
  BY <1>3 DEF TypeOK, ObjTypes
<1>6. \A u \in Threads : pc'[u] = pc[u] \/ (pc[u] = "asleep" /\ pc'[u] = "waiting")
  BY DEF WakesSome
<1>7. PlainCalls'
  BY <1>6 DEF ListInv, PlainCalls, DropPcs, Idle
<1>8. KeptAtEnd'
  BY <1>2, <1>6, NodeEndKept DEF Listed
<1>9. PoolSound'
  <2>1. \A x \in Objs : linked'[x] => linked[x]
    BY <1>2 DEF SameOnList
  <2>2. \A x \in Objs : PoolOk(x)'
    BY <1>1, <2>1 DEF ListInv, PoolSound, PoolOk
  <2> QED
    BY <1>1, <2>2 DEF ListInv, PoolSound
<1>10. LifeSound'
  <2>1. LifeOk(o)'
    BY <1>1, <1>5 DEF ListInv, LifeSound, LifeOk
  <2>2. \A x \in Objs \ {o} : LifeOk(x)'
    BY <1>1, <1>2, <1>4 DEF ListInv, LifeSound, LifeOk, SameOnList
  <2> QED
    BY <2>1, <2>2 DEF LifeSound
<1>11. DoneSound' /\ SleepSound'
  <2>1. CASE ~runDone[o]
    <3>1. phase[o] = "running"
      BY <1>1, <2>1 DEF ListInv, LifeSound, LifeOk
    <3> QED
      BY <1>1, <1>3, <2>1, <3>1, NodeReported
  <2>2. CASE runDone[o]
    <3>1. UNCHANGED <<runDone, jobDone, inWait>>
      BY <1>3, <2>2
    <3>2. DoneSound'
      BY <1>1, <3>1 DEF ListInv, DoneSound
    <3>3. SleepSound'
      BY <1>6, <3>1 DEF ListInv, SleepSound
    <3> QED
      BY <3>2, <3>3
  <2> QED
    BY <2>1, <2>2
<1>12. CallsSound'
  BY <1>1, <1>2, <1>4, NodeCalls
<1> QED
  BY <1>2, <1>7, <1>8, <1>9, <1>10, <1>11, <1>12 DEF AllButIsr

LEMMA IsrsTogether ==
  ASSUME NEW d \in Devs, IsrOk(d)', \A e \in Devs \ {d} : IsrOk(e)', AllButIsr'
  PROVE  ListInv'
<1>1. \A e \in Devs : IsrOk(e)'
  OBVIOUS
<1>2. IsrSound'
  BY <1>1 DEF IsrSound
<1> QED
  BY <1>2 DEF AllButIsr, ListInv

(* The steps in which the routine does not report a cmdbuf.                *)
LEMMA IsrMoves ==
  ASSUME TypeOK, ListInv, NEW d \in Devs, UNCHANGED <<placeVars, inWait, pc, job, dev>>,
         \A e \in Devs \ {d} : isr'[e] = isr[e], IsrOk(d)'
  PROVE  ListInv'
<1>1. ListsExact' /\ PoolSound' /\ LifeSound' /\ DoneSound'
  BY PlacesKept
<1>2. PlainCalls' /\ SleepSound'
  BY DEF ListInv, PlainCalls, SleepSound
<1>3. KeptAtEnd'
  BY DEF ListInv, KeptAtEnd, KeptInList, JustAdded, placeVars
<1>4. CallsSound'
  BY DEF ListInv, CallsSound, CallOk, WaiterOk, LinkerOk, PrevOk, ReleaserOk, placeVars,
     poolVars, clientVars
<1>5. \A e \in Devs \ {d} : IsrOk(e)'
  BY OtherIsrs DEF SameOnList, placeVars
<1> QED
  BY <1>1, <1>2, <1>3, <1>4, <1>5, IsrsTogether DEF AllButIsr

LEMMA IsrLeavesOk ==
  ASSUME TypeOK, NEW d \in Devs, IsrLeave(d)
  PROVE  IsrOk(d)' /\ \A e \in Devs \ {d} : isr'[e] = isr[e]
<1>1. isr'[d] = IsrIdle /\ \A e \in Devs \ {d} : isr'[e] = isr[e]
  BY DEF IsrLeave, TypeOK, DevTypes
<1> QED
  BY <1>1 DEF IsrOk, IsrIdle

LEMMA IsrStartsOk ==
  ASSUME TypeOK, NEW d \in Devs, isr' = [isr EXCEPT ![d].at = "start"]
  PROVE  IsrOk(d)' /\ \A e \in Devs \ {d} : isr'[e] = isr[e]
<1>1. isr'[d].at = "start" /\ \A e \in Devs \ {d} : isr'[e] = isr[e]
  BY DEF TypeOK, DevTypes, IsrRecord
<1> QED
  BY <1>1 DEF IsrOk

(* The current cmdbuf is reported as the last one of this interrupt.       *)
LEMMA CurrentKeeps ==
  ASSUME TypeOK, ListInv, NEW d \in Devs, isr[d].at = "curr",
         NEW st, NEW status, ProcessNode(st, d, isr[d].curr, status),
         \/ pc' = PcAfterDone(isr[d].curr)
         \/ pc' = AbortWoken(PcAfterDone(isr[d].curr), d),
         IsrLeave(d) \/ isr' = [isr EXCEPT ![d].at = "start"],
         UNCHANGED <<poolVars, po, coreId, needRemove, clientVars, job, dev>>
  PROVE  ListInv'
<1>1. isr[d].curr \in Objs
  BY DEF TypeOK, DevTypes, IsrRecord, ObjOrNil
<1> PICK o \in Objs : o = isr[d].curr
  BY <1>1
<1>2. coreId[o] = d
  BY DEF ListInv, IsrSound, IsrOk
<1>3. WakesSome(o)
  BY DoneWakes
<1>4. IsrOk(d)' /\ \A e \in Devs \ {d} : isr'[e] = isr[e]
  BY IsrLeavesOk, IsrStartsOk
<1>5. AllButIsr' /\ \A y \in Objs \ {o} : SameOnList(y)
  BY <1>2, <1>3, NodeKeeps
<1>6. \A e \in Devs \ {d} : IsrOk(e)'
  BY <1>2, <1>4, <1>5, OtherIsrs
<1> QED
  BY <1>4, <1>5, <1>6, IsrsTogether

LEMMA IsrWalkKeeps ==
  ASSUME TypeOK, ListInv, NEW d \in Devs, IsrWalk(d)
  PROVE  ListInv'
<1> DEFINE n == WalkNext(d)
<1>1. /\ isr[d].at = "walk"
      /\ UNCHANGED <<poolVars, po, coreId, needRemove, clientVars, job, dev>>
  BY DEF IsrWalk
<1>2. CASE n \in {Nil, isr[d].curr}
  <2>1. UNCHANGED <<placeVars, inWait, pc, job, dev>>
    BY <1>1, <1>2 DEF IsrWalk, placeVars
  <2>2. CASE IsrLeave(d)
    BY <2>1, <2>2, IsrLeavesOk, IsrMoves
  <2>3. CASE isr' = [isr EXCEPT ![d].at = "curr"]
    <3>1. /\ isr'[d].at = "curr" /\ isr'[d].curr = isr[d].curr
          /\ \A e \in Devs \ {d} : isr'[e] = isr[e]
      BY <2>3 DEF TypeOK, DevTypes, IsrRecord
    <3>2. coreId[isr[d].curr] = d
      BY <1>1 DEF ListInv, IsrSound, IsrOk
    <3>3. IsrOk(d)'
      BY <1>1, <3>1, <3>2 DEF IsrOk
    <3> QED
      BY <2>1, <3>1, <3>3, IsrMoves
  <2> QED
    BY <1>2, <2>2, <2>3 DEF IsrWalk
<1>3. CASE n \notin {Nil, isr[d].curr}
  <2>1. n \in Objs /\ OnListOf(d, n)
    BY <1>1, <1>3, WalksOnList
  <2> PICK o \in Objs : o = n
    BY <2>1
  <2>2. /\ isr' = [isr EXCEPT ![d].node = o]
        /\ ProcessNode(state[d], d, o, "ok")
        /\ pc' = PcAfterDone(o)
    BY <1>3 DEF IsrWalk
  <2>3. coreId[o] = d /\ linked[o] /\ WakesSome(o)
    BY <2>1, <2>2, DoneWakes DEF OnListOf
  <2>4. /\ AllButIsr'
        /\ \A y \in Objs \ {o} : SameOnList(y)
        /\ \/ SameOnList(o)
           \/ /\ OnListOf(d, o) /\ ~linked'[o]
              /\ stale'[o].next = NextOf(d, o) /\ stale'[o].prev = PrevOf(d, o)
    BY <1>1, <2>2, <2>3, NodeKeeps
  <2>5. /\ isr'[d].at = "walk" /\ isr'[d].curr = isr[d].curr /\ isr'[d].node = o
        /\ \A e \in Devs \ {d} : isr'[e] = isr[e]
    BY <1>1, <2>2 DEF TypeOK, DevTypes, IsrRecord
  <2>6. IsrOk(d)'
    <3>1. coreId'[isr[d].curr] = d /\ coreId'[o] = d
      BY <1>1, <2>3 DEF ListInv, IsrSound, IsrOk
    <3>2. ~linked'[o] /\ stale'[o].next # Nil =>
            linked'[stale'[o].next] /\ coreId'[stale'[o].next] = d
      <4>1. CASE SameOnList(o)
        BY <2>3, <4>1 DEF SameOnList
      <4>2. CASE stale'[o].next = NextOf(d, o)
        <5>1. NextOf(d, o) # Nil =>
                NextOf(d, o) \in Objs \ {o} /\ OnListOf(d, NextOf(d, o))
          BY <2>3, NeighboursOnList DEF ListInv, OnListOf
        <5> QED
          BY <2>4, <4>2, <5>1 DEF OnListOf, SameOnList
      <4> QED
        BY <2>4, <4>1, <4>2
    <3> QED
      BY <2>5, <3>1, <3>2 DEF IsrOk
  <2>7. \A e \in Devs \ {d} : IsrOk(e)'
    BY <1>1, <2>3, <2>4, <2>5, OtherIsrs
  <2> QED
    BY <2>4, <2>6, <2>7, IsrsTogether
<1> QED
  BY <1>2, <1>3

LEMMA IsrKeeps ==
  ASSUME TypeOK, ListInv, LockOwners, NEW d \in Devs, Isr(d)
  PROVE  ListInv'
<1> USE DEF placeVars, objVars, procVars, devVars, threadVars
<1>1. CASE IsrEnter(d)
  <2>1. /\ UNCHANGED <<placeVars, inWait, pc, job, dev>>
        /\ isr[d].at = "out"
    BY <1>1 DEF IsrEnter, LockOwners, LocksHeld
  <2>2. CASE UNCHANGED isr
    BY <2>1, <2>2, AllKept
  <2>3. CASE isr' = [isr EXCEPT ![d] = [IsrIdle EXCEPT !.at = "read", !.src = irq[d]]]
    <3>1. /\ isr'[d] = [IsrIdle EXCEPT !.at = "read", !.src = irq[d]]
          /\ \A e \in Devs \ {d} : isr'[e] = isr[e]
      BY <2>3 DEF TypeOK, DevTypes
    <3>2. isr'[d].at = "read" /\ isr'[d].node = Nil
      BY <3>1 DEF IsrIdle
    <3>3. IsrOk(d)'
      BY <3>2 DEF IsrOk
    <3> QED
      BY <2>1, <3>1, <3>3, IsrMoves
  <2> QED
    BY <1>1, <2>2, <2>3 DEF IsrEnter
<1>2. CASE IsrRead(d)
  <2>1. UNCHANGED <<placeVars, inWait, pc, job, dev>> /\ isr[d].at = "read"
    BY <1>2 DEF IsrRead
  <2>2. CASE IsrLeave(d)
    BY <2>1, <2>2, IsrLeavesOk, IsrMoves
  <2>3. CASE ~IsrLeave(d)
    <3> DEFINE c == CurrentOf(d)
    <3>1. /\ coreId[c] = d
          /\ isr' = [isr EXCEPT ![d].curr = c, ![d].at = FirstStep(c)]
      BY <1>2, <2>3 DEF IsrRead
    <3>2. /\ isr'[d].at = FirstStep(c) /\ isr'[d].curr = c
          /\ isr'[d].node = isr[d].node
          /\ \A e \in Devs \ {d} : isr'[e] = isr[e]
      BY <3>1 DEF TypeOK, DevTypes, IsrRecord
    <3>3. isr[d].node = Nil
      BY <2>1 DEF ListInv, IsrSound, IsrOk
    <3>4. coreId'[isr'[d].curr] = d
      BY <2>1, <3>1, <3>2
    <3>5. isr'[d].at # "read"
      BY <3>2 DEF FirstStep
    <3>6. IsrOk(d)'
      BY <3>2, <3>3, <3>4, <3>5 DEF IsrOk
    <3> QED
      BY <2>1, <3>2, <3>6, IsrMoves
  <2> QED
    BY <2>2, <2>3
<1>3. CASE IsrWalk(d)
  BY <1>3, IsrWalkKeeps
<1>4. CASE IsrAbort(d)
  BY <1>4, CurrentKeeps DEF IsrAbort
<1>5. CASE IsrBusErr(d)
  BY <1>5, CurrentKeeps DEF IsrBusErr
<1>6. CASE IsrCmdErr(d)
  BY <1>6, CurrentKeeps DEF IsrCmdErr
<1>7. CASE IsrDone(d)
  BY <1>7, CurrentKeeps DEF IsrDone
<1>8. CASE IsrStart(d)
  <2>1. UNCHANGED <<placeVars, inWait, pc, job, dev>> /\ IsrLeave(d)
    BY <1>8 DEF IsrStart
  <2> QED
    BY <2>1, IsrLeavesOk, IsrMoves
<1> QED
  BY <1>1, <1>2, <1>3, <1>4, <1>5, <1>6, <1>7, <1>8 DEF Isr

---------------------------------------------------------------------------
(* All the steps.  Nobody drops or closes, so no call gets to their steps. *)
LEMMA NoDrops ==
  ASSUME ListInv, NoDropCalls, NEW t \in Threads
  PROVE  ~Drop(t) /\ ~DropCall(t) /\ ~CloseCall(t) /\ ~DropInterrupted(t)
<1>1. pc[t] \notin DropPcs
  BY DEF ListInv, PlainCalls
<1>2. ~Drop(t)
  BY <1>1 DEF Drop, DropSem, DropDev, DropAbort, DropWait, DropPoll, DropRelock, DropWalk,
     DropStart, DropFind, DropReturn, DropEnd, DropPcs
<1> QED
  BY <1>1, <1>2 DEF DropCall, CloseCall, DropInterrupted, DropPcs, NoDropCalls

LEMMA ThreadKeeps ==
  ASSUME TypeOK, TypeOK', LockOwners, ListInv, NoDropCalls, ~ListRace, NEW t \in Threads,
         InCall(t) \/ Calls(t) \/ Signals(t)
  PROVE  ListInv'
<1>1. CASE InCall(t)
  <2>1. CASE Link(t)
    BY <2>1, PlainSteps, LinkScanKeeps, LinkKickKeeps, LinkPrevKeeps DEF Link
  <2>2. CASE Wait(t)
    BY <2>2, PlainSteps, WaitGotKeeps, WaitNothingKeeps DEF Wait
  <2>3. CASE Release(t)
    BY <2>3, PlainSteps, ReleaseLockKeeps DEF Release
  <2> QED
    BY <1>1, <2>1, <2>2, <2>3, PlainSteps, ReserveTakeKeeps, NoDrops DEF InCall
<1>2. CASE Calls(t)
  <2>1. ASSUME NEW w \in Workloads, ReserveCharge(t, w) PROVE ListInv'
    BY <2>1, PlainSteps
  <2>2. ASSUME NEW o \in Objs, LinkCall(t, o) \/ WaitJob(t, o) \/ ReleaseCall(t, o)
        PROVE  ListInv'
    BY <2>2, LinkCallKeeps, WaitJobKeeps, ReleaseCallKeeps
  <2> QED
    BY <1>2, <2>1, <2>2, PlainSteps, NoDrops DEF Calls
<1>3. CASE Signals(t)
  BY <1>3, PlainSteps, LinkInterruptedKeeps, WaitInterruptedKeeps, NoDrops DEF Signals
<1> QED
  BY <1>1, <1>2, <1>3

LEMMA NextLists ==
  ASSUME TypeOK, TypeOK', LockOwners, ListInv, NoDropCalls, [Next]_vars, [~ListRace]_vars
  PROVE  ListInv'
<1>4. CASE UNCHANGED vars
  BY <1>4, AllKept DEF vars, placeVars, objVars, procVars, devVars, threadVars
<1> SUFFICES ASSUME Next, ~ListRace PROVE ListInv'
  BY <1>4
<1>1. ASSUME NEW t \in Threads, InCall(t) \/ Calls(t) \/ Signals(t) PROVE ListInv'
  BY <1>1, ThreadKeeps
<1>2. ASSUME NEW d \in Devs, Isr(d) PROVE ListInv'
  BY <1>2, IsrKeeps
<1>3. ASSUME NEW d \in Devs, KthreadBusErr(d) \/ Hw(d) PROVE ListInv'
  BY <1>3, AllKept DEF KthreadBusErr, Hw, HwFinish, HwAbortStalled, HwError, placeVars,
     objVars, procVars, devVars, threadVars
<1> QED
  BY <1>1, <1>2, <1>3 DEF Next

LEMMA InitLists == Init => ListInv
<1> SUFFICES ASSUME Init PROVE ListInv
  OBVIOUS
<1>1. PlainCalls
  BY DEF Init, PlainCalls, DropPcs, Idle
<1>2. /\ \A d \in Devs : workList[d] = <<>> /\ \A x : ~On(workList[d], x)
      /\ \A p \in Procs : jobDone[p] = <<>> /\ \A x : ~On(jobDone[p], x)
  BY DEF Init, On
<1>3. ListsExact /\ KeptAtEnd /\ DoneSound
  BY <1>2 DEF Init, ListsExact, KeptAtEnd, DoneSound, Distinct
<1>4. PoolSound /\ LifeSound
  BY DEF Init, PoolSound, PoolOk, LifeSound, LifeOk
<1>5. CallsSound /\ SleepSound
  BY DEF Init, CallsSound, CallOk, WaiterOk, LinkerOk, PrevOk, ReleaserOk, SleepSound,
     Waits, Unlisted, Listed, ReleasePcs
<1>6. IsrSound
  BY DEF Init, IsrSound, IsrOk, IsrIdle
<1> QED
  BY <1>1, <1>3, <1>4, <1>5, <1>6 DEF ListInv

LEMMA SafetyLists ==
  ASSUME NoDropCalls PROVE Safety /\ [][~ListRace]_vars => []ListInv
BY InitLists, NextLists, SafetyTypes, SafetyLocks, PTL DEF Safety

---------------------------------------------------------------------------
(* A cmdbuf is on the work list of its device, once, exactly while it is   *)
(* linked, and of the released ones that no call is busy with at most one  *)
(* per device is still on the list, for its JMP: what link_and_run_cmdbuf, *)
(* release_cmdbuf and hantrovcmd_isr do to the bi_list of a device.        *)
THEOREM WorkListsExact ==
  ASSUME NoDropCalls PROVE Safety /\ [][~ListRace]_vars => []WorkListsSound
<1>1. ASSUME TypeOK, ListInv PROVE WorkListsSound
  <2>1. \A o \in Objs : linked[o] <=> \E d \in Devs : On(workList[d], o)
    <3> TAKE o \in Objs
    <3>1. linked[o] => coreId[o] \in Devs
      BY <1>1 DEF TypeOK, ObjTypes, DevOrNil
    <3> QED
      BY <1>1, <3>1 DEF ListInv, ListsExact
  <2>2. \A d \in Devs : \A i, j \in 1..Len(workList[d]) :
          /\ coreId[workList[d][i]] = d
          /\ workList[d][i] = workList[d][j] => i = j
    <3> TAKE d \in Devs
    <3> TAKE i, j \in 1..Len(workList[d])
    <3>1. workList[d][i] \in Objs /\ On(workList[d], workList[d][i])
      BY <1>1, ItemsAreObjs DEF On
    <3> QED
      BY <1>1, <3>1 DEF ListInv, ListsExact, Distinct
  <2>3. ASSUME NEW d \in Devs, NEW i \in 1..Len(workList[d]),
               NEW j \in 1..Len(workList[d]),
               needRemove[workList[d][i]], \A t \in Threads : job[t] # workList[d][i],
               \A t \in Threads : job[t] # workList[d][j]
        PROVE  ~(i < j)
    <3>1. KeptInList(workList[d][i]) /\ ~JustAdded(workList[d][j])
      BY <2>3 DEF KeptInList, JustAdded
    <3> QED
      BY <1>1, <3>1 DEF ListInv, KeptAtEnd
  <2>4. ASSUME NEW d \in Devs,
               NEW o \in {x \in Objs : /\ On(workList[d], x) /\ needRemove[x]
                                       /\ \A t \in Threads : job[t] # x},
               NEW q \in {x \in Objs : /\ On(workList[d], x) /\ needRemove[x]
                                       /\ \A t \in Threads : job[t] # x}
        PROVE  o = q
    <3>1. PICK i \in 1..Len(workList[d]) : workList[d][i] = o
      BY DEF On
    <3>2. PICK j \in 1..Len(workList[d]) : workList[d][j] = q
      BY DEF On
    <3>3. ~(i < j) /\ ~(j < i)
      BY <2>3, <3>1, <3>2
    <3>4. i = j
      BY <3>3
    <3> QED
      BY <3>1, <3>2, <3>4
  <2> QED
    BY <2>1, <2>2, <2>4 DEF WorkListsSound
<1> QED
  BY <1>1, SafetyLists, SafetyTypes, PTL

(* The pool holds exactly the cmdbufs that belong to no process, as many   *)
(* as free_obj_sema counts, and none of them is linked or with a client.   *)
(* Link and release calls may overlap, also the two that find the same     *)
(* cmdbuf marked: before a cmdbuf is returned twice (return_cmdbuf), there *)
(* is always a first return under the hands of another call.               *)
THEOREM PoolIsExact ==
  ASSUME NoDropCalls PROVE Safety /\ [][~ListRace]_vars => []PoolExact
<1>1. ASSUME TypeOK, ListInv PROVE PoolExact
  BY <1>1 DEF ListInv, PoolSound, PoolOk, PoolExact, TypeOK, PoolTypes
<1> QED
  BY <1>1, SafetyLists, SafetyTypes, PTL

(* What proc_add_done_job puts on the done list of a process is a done job *)
(* of that process, once, and only wait_cmdbuf_ready hands it out.         *)
THEOREM DoneListsExact ==
  ASSUME NoDropCalls PROVE Safety /\ [][~ListRace]_vars => []DoneListsSound
<1>1. ASSUME TypeOK, ListInv PROVE DoneListsSound
  <2> SUFFICES ASSUME NEW p \in Procs, NEW i \in 1..Len(jobDone[p]),
                      NEW j \in 1..Len(jobDone[p])
               PROVE  LET o == jobDone[p][i]
                      IN /\ po[o] = p /\ runDone[o]
                         /\ phase[o] \notin {"reserved", "ready"}
                         /\ jobDone[p][j] = o => i = j
    BY DEF DoneListsSound
  <2>1. jobDone[p][i] \in Objs /\ On(jobDone[p], jobDone[p][i])
    BY <1>1 DEF On, TypeOK, ProcTypes
  <2> QED
    BY <1>1, <2>1 DEF ListInv, DoneSound, Distinct
<1> QED
  BY <1>1, SafetyLists, SafetyTypes, PTL

---------------------------------------------------------------------------
(* Sleepers.  A thread that moves or gets nothing new does not change what *)
(* the others wait for.                                                    *)
LEMMA OthersSleep ==
  ASSUME NoLostWakeup, NEW t \in Threads, UNCHANGED jobDone,
         \A o \in Objs : runDone'[o] => runDone[o],
         \A u \in Threads \ {t} : pc'[u] = pc[u] /\ job'[u] = job[u],
         pc'[t] = "asleep" => \A o \in Objs : ~Gets(t, o)'
  PROVE  NoLostWakeup'
<1>1. ASSUME NEW u \in Threads \ {t}, pc'[u] = "asleep", NEW o \in Objs
      PROVE  ~Gets(u, o)'
  BY <1>1 DEF NoLostWakeup, Gets
<1> QED
  BY <1>1 DEF NoLostWakeup

LEMMA TakerWakesNone ==
  ASSUME TypeOK, ListInv, NoLostWakeup, NEW t \in Threads, NEW o \in Objs, WaitGot(t, o)
  PROVE  NoLostWakeup'
<1> DEFINE p == ProcOf[t]
<1>1. /\ On(jobDone[p], o) /\ jobDone' = [jobDone EXCEPT ![p] = Without(@, o)]
      /\ UNCHANGED runDone
  BY DEF WaitGot, Gets, TakeDone, objVars
<1>2. pc'[t] = "user" /\ \A u \in Threads \ {t} : pc'[u] = pc[u] /\ job'[u] = job[u]
  BY DEF WaitGot, TypeOK, ThreadTypes
<1>3. ASSUME NEW u \in Threads, pc'[u] = "asleep", NEW x \in Objs PROVE ~Gets(u, x)'
  <2>1. u # t /\ pc[u] = "asleep" /\ job'[u] = job[u] /\ ProcOf[u] \in Procs
    BY <1>2, <1>3
  <2>2. CASE ProcOf[u] # p
    <3>1. jobDone'[ProcOf[u]] = jobDone[ProcOf[u]]
      BY <1>1, <2>1, <2>2 DEF TypeOK, ProcTypes
    <3> QED
      BY <1>1, <2>1, <3>1 DEF NoLostWakeup, Gets
  <2>3. CASE ProcOf[u] = p
    <3> DEFINE s == jobDone[p]
    <3>1. s \in Seq(Objs) /\ Distinct(s) /\ s # <<>>
      BY <1>1, <2>1, <2>3 DEF TypeOK, ProcTypes, ListInv, DoneSound, On
    <3>2. job[u] # Nil
      <4>1. Head(s) \in Objs /\ On(s, Head(s))
        <5>1. 1 \in 1..Len(s) /\ Head(s) = s[1]
          BY <3>1
        <5> QED
          BY <3>1, <5>1 DEF On
      <4>2. ~Gets(u, Head(s))
        BY <2>1, <4>1 DEF NoLostWakeup
      <4> QED
        BY <2>3, <4>1, <4>2 DEF Gets
    <3>3. On(jobDone'[p], x) => On(s, x)
      <4>1. jobDone'[p] = Without(s, o)
        BY <1>1, <2>1, <2>3 DEF TypeOK, ProcTypes
      <4> QED
        BY <3>1, <4>1, OnWithout
    <3>4. ~Gets(u, x)
      BY <2>1 DEF NoLostWakeup
    <3> QED
      BY <1>1, <2>1, <2>3, <3>2, <3>3, <3>4 DEF Gets
  <2> QED
    BY <2>2, <2>3
<1> QED
  BY <1>3 DEF NoLostWakeup

LEMMA ThreadsSleep ==
  ASSUME TypeOK, ListInv, NoDropCalls, NoLostWakeup, NEW t \in Threads,
         InCall(t) \/ Calls(t) \/ Signals(t)
  PROVE  NoLostWakeup'
<1> USE DEF objVars, procVars, threadVars
<1>0. pc \in [Threads -> Locs] /\ job \in [Threads -> ObjOrNil]
      /\ runDone \in [Objs -> BOOLEAN]
  BY DEF TypeOK, ThreadTypes, ObjTypes
<1>1. CASE \/ \E w \in Workloads : ReserveCharge(t, w)
           \/ ReserveWait(t) \/ ReserveTake(t) \/ ReserveInterrupted(t)
  <2>1. /\ UNCHANGED <<jobDone, job>> /\ \A o \in Objs : runDone'[o] => runDone[o]
        /\ \E loc : loc # "asleep" /\ Goto(t, loc)
    BY <1>0, <1>1 DEF ReserveCharge, ReserveWait, ReserveTake, ReserveInterrupted
  <2> QED
    BY <1>0, <2>1, OthersSleep
<1>2. CASE (\E o \in Objs : LinkCall(t, o)) \/ Link(t) \/ LinkInterrupted(t)
  <2>1. UNCHANGED <<jobDone, runDone>>
    BY <1>2 DEF Link, LinkCall, LinkSem, LinkScan, LinkLeastLoaded, LinkKick, LinkPrev,
       LinkInterrupted
  <2>2. \A u \in Threads \ {t} : pc'[u] = pc[u] /\ job'[u] = job[u]
    BY <1>0, <1>2 DEF Link, LinkCall, LinkSem, LinkScan, LinkLeastLoaded, LinkKick,
       LinkPrev, LinkInterrupted
  <2>3. pc'[t] # "asleep"
    BY <1>0, <1>2 DEF Link, LinkCall, LinkSem, LinkScan, LinkLeastLoaded, LinkKick,
       LinkPrev, LinkInterrupted, Enters, MayCall
  <2> QED
    BY <2>1, <2>2, <2>3, OthersSleep
<1>3. CASE (\E o \in Objs : ReleaseCall(t, o)) \/ Release(t)
  <2>1. UNCHANGED <<jobDone, runDone>>
    BY <1>3 DEF Release, ReleaseCall, ReleaseAccount, ReleaseLock
  <2>2. \A u \in Threads \ {t} : pc'[u] = pc[u] /\ job'[u] = job[u]
    BY <1>0, <1>3 DEF Release, ReleaseCall, ReleaseAccount, ReleaseLock
  <2>3. pc'[t] # "asleep"
    BY <1>0, <1>3 DEF Release, ReleaseCall, ReleaseAccount, ReleaseLock, Enters, MayCall
  <2> QED
    BY <2>1, <2>2, <2>3, OthersSleep
<1>4. CASE \/ WaitAny(t) \/ (\E o \in Objs : WaitJob(t, o))
           \/ WaitNothing(t) \/ WaitInterrupted(t)
  <2>1. UNCHANGED <<jobDone, runDone>>
    BY <1>4 DEF WaitAny, WaitJob, WaitNothing, WaitInterrupted
  <2>2. \A u \in Threads \ {t} : pc'[u] = pc[u] /\ job'[u] = job[u]
    BY <1>0, <1>4 DEF WaitAny, WaitJob, WaitNothing, WaitInterrupted
  <2>3. pc'[t] # "asleep"
    BY <1>0, <1>4 DEF WaitAny, WaitJob, WaitNothing, WaitInterrupted
  <2> QED
    BY <2>1, <2>2, <2>3, OthersSleep
<1>5. CASE WaitSleep(t)
  <2>1. UNCHANGED <<jobDone, runDone, job>> /\ \A o \in Objs : ~Gets(t, o)
    BY <1>5 DEF WaitSleep
  <2>2. \A u \in Threads \ {t} : pc'[u] = pc[u] /\ job'[u] = job[u]
    BY <1>0, <1>5 DEF WaitSleep
  <2>3. \A o \in Objs : ~Gets(t, o)'
    BY <2>1 DEF Gets
  <2> QED
    BY <2>1, <2>2, <2>3, OthersSleep
<1>6. CASE \E o \in Objs : WaitGot(t, o)
  BY <1>6, TakerWakesNone
<1> QED
  BY <1>1, <1>2, <1>3, <1>4, <1>5, <1>6, NoDrops DEF InCall, Calls, Signals, Wait

(* A report wakes whoever sleeps in its process: none of them has cleared  *)
(* in_wait since it went to sleep.                                         *)
LEMMA ReportWakes ==
  ASSUME TypeOK, ListInv, NoLostWakeup, NEW d \in Devs, NEW o \in Objs,
         NEW st, NEW status, ProcessNode(st, d, o, status), WakesSome(o), UNCHANGED job
  PROVE  NoLostWakeup'
<1> SUFFICES ASSUME NEW u \in Threads, pc'[u] = "asleep", NEW x \in Objs, Gets(u, x)'
             PROVE  FALSE
  BY DEF NoLostWakeup
<1> DEFINE q == ProcOf[u]
<1>1. pc[u] = "asleep" /\ ~(Wakes(o) /\ q = po[o]) /\ q \in Procs /\ ~Gets(u, x)
  BY DEF WakesSome, NoLostWakeup
<1>2. jobDone'[q] = jobDone[q]
  <2>1. CASE UNCHANGED jobDone
    BY <2>1
  <2>2. CASE Reports(o) /\ jobDone' = [jobDone EXCEPT ![po[o]] = Append(@, o)]
    <3>1. inWait[q]
      BY <1>1 DEF ListInv, SleepSound
    <3>2. q # po[o]
      BY <1>1, <2>2, <3>1 DEF Wakes
    <3> QED
      BY <1>1, <2>2, <3>2 DEF TypeOK, ProcTypes
  <2> QED
    BY <2>1, <2>2 DEF ProcessNode, AddDone
<1>3. On(jobDone[q], x) /\ runDone[x]
  BY <1>1, <1>2 DEF Gets, ListInv, DoneSound
<1> QED
  BY <1>1, <1>2, <1>3 DEF Gets

LEMMA DevicesLetSleep ==
  ASSUME TypeOK, ListInv, NoLostWakeup, NEW d \in Devs,
         Isr(d) \/ KthreadBusErr(d) \/ Hw(d)
  PROVE  NoLostWakeup'
<1> USE DEF objVars, procVars, threadVars
<1>1. CASE UNCHANGED <<jobDone, runDone, pc, job>>
  BY <1>1 DEF NoLostWakeup, Gets
<1>2. CASE IsrWalk(d)
  <2>1. CASE WalkNext(d) \in {Nil, isr[d].curr}
    BY <1>1, <1>2, <2>1 DEF IsrWalk
  <2>2. CASE WalkNext(d) \notin {Nil, isr[d].curr}
    <3>1. WalkNext(d) \in Objs
      BY <1>2, <2>2, WalksOnList DEF IsrWalk
    <3> PICK o \in Objs : o = WalkNext(d)
      BY <3>1
    <3>2. ProcessNode(state[d], d, o, "ok") /\ pc' = PcAfterDone(o) /\ UNCHANGED job
      BY <1>2, <2>2 DEF IsrWalk
    <3> QED
      BY <3>2, DoneWakes, ReportWakes
  <2> QED
    BY <2>1, <2>2
<1>3. CASE IsrAbort(d) \/ IsrBusErr(d) \/ IsrCmdErr(d) \/ IsrDone(d)
  <2>1. isr[d].curr \in Objs
    BY <1>3 DEF IsrAbort, IsrBusErr, IsrCmdErr, IsrDone, TypeOK, DevTypes, IsrRecord,
       ObjOrNil
  <2> PICK o \in Objs : o = isr[d].curr
    BY <2>1
  <2>2. /\ \E st, status : ProcessNode(st, d, o, status)
        /\ pc' = PcAfterDone(o) \/ pc' = AbortWoken(PcAfterDone(o), d)
        /\ UNCHANGED job
    BY <1>3 DEF IsrAbort, IsrBusErr, IsrCmdErr, IsrDone
  <2> QED
    BY <2>2, DoneWakes, ReportWakes
<1>4. CASE IsrEnter(d) \/ IsrRead(d) \/ IsrStart(d) \/ KthreadBusErr(d) \/ Hw(d)
  BY <1>1, <1>4 DEF IsrEnter, IsrRead, IsrStart, KthreadBusErr, Hw, HwFinish,
     HwAbortStalled, HwError
<1> QED
  BY <1>2, <1>3, <1>4 DEF Isr

(* A thread never sleeps in wait_cmdbuf_ready on a job that is on the done *)
(* list: proc_add_done_job wakes only if the list was empty or in_wait is  *)
(* set, and that is enough.                                                *)
THEOREM NoWakeupLost ==
  ASSUME NoDropCalls PROVE Safety /\ [][~ListRace]_vars => []NoLostWakeup
<1>1. Init => NoLostWakeup
  BY DEF Init, NoLostWakeup
<1>2. ASSUME TypeOK, ListInv, NoLostWakeup, [Next]_vars PROVE NoLostWakeup'
  <2>1. CASE UNCHANGED vars
    BY <1>2, <2>1 DEF vars, objVars, procVars, threadVars, NoLostWakeup, Gets
  <2>2. ASSUME NEW t \in Threads, InCall(t) \/ Calls(t) \/ Signals(t)
        PROVE  NoLostWakeup'
    BY <1>2, <2>2, ThreadsSleep
  <2>3. ASSUME NEW d \in Devs, Isr(d) \/ KthreadBusErr(d) \/ Hw(d)
        PROVE  NoLostWakeup'
    BY <1>2, <2>3, DevicesLetSleep
  <2> QED
    BY <1>2, <2>1, <2>2, <2>3 DEF Next
<1> QED
  BY <1>1, <1>2, SafetyLists, SafetyTypes, PTL DEF Safety

---------------------------------------------------------------------------
(* The account of a process, and what makes it stay exact: only a request  *)
(* that waits has something to ask for, and a released cmdbuf has given    *)
(* its workload back unless its release is about to.                       *)
ThreadsOf(p) == {t \in Threads : ProcOf[t] = p}
Requests == {"resWait", "resTake"}
Balanced ==
  \A p \in Procs :
    totalWorkload[p] = SumOver(workload, Owned(p)) + SumOver(want, ThreadsOf(p))
AskOk == \A t \in Threads : pc[t] \notin Requests => want[t] = 0
GivenBack(o) ==
  needRemove[o] => \/ workload[o] = 0
                   \/ \E t \in Threads : pc[t] = "relAccount" /\ job[t] = o
Accounts == Balanced /\ AskOk /\ \A o \in Objs : GivenBack(o)

LEMMA SumsDefined ==
  ASSUME TypeOK, NEW p
  PROVE  /\ IsFiniteSet(Owned(p)) /\ IsFiniteSet(ThreadsOf(p))
         /\ HasInts(workload, Owned(p)) /\ HasInts(want, ThreadsOf(p))
         /\ SumOver(workload, Owned(p)) \in Int /\ SumOver(want, ThreadsOf(p)) \in Int
<1>1. IsFiniteSet(Owned(p)) /\ IsFiniteSet(ThreadsOf(p))
  BY ObjsFinite, ThreadsFinite, FS_Subset DEF Owned, ThreadsOf
<1>2. HasInts(workload, Owned(p)) /\ HasInts(want, ThreadsOf(p))
  BY DEF HasInts, Owned, ThreadsOf, TypeOK, ObjTypes, ThreadTypes
<1> QED
  BY <1>1, <1>2, SumFacts

(* A step that touches one cmdbuf and one request, and charges the process *)
(* what it adds to them.                                                   *)
Part(p, o, t) == Share(workload, Owned(p), o) + Share(want, ThreadsOf(p), t)

LEMMA BalanceKept ==
  ASSUME TypeOK, TypeOK', Balanced, NEW x, NEW t,
         \A o \in Objs \ {x} : po'[o] = po[o] /\ workload'[o] = workload[o],
         \A u \in Threads \ {t} : want'[u] = want[u],
         \A p \in Procs : totalWorkload'[p] - Part(p, x, t)' = totalWorkload[p] - Part(p, x, t)
  PROVE  Balanced'
<1> SUFFICES ASSUME NEW p \in Procs
             PROVE  totalWorkload'[p] = SumOver(workload, Owned(p))'
                                        + SumOver(want, ThreadsOf(p))'
  BY DEF Balanced
<1> PICK f, g, S, T : f = workload /\ g = workload' /\ S = Owned(p) /\ T = Owned(p)'
  OBVIOUS
<1> PICK h, k, U : h = want /\ k = want' /\ U = ThreadsOf(p)
  OBVIOUS
<1>1. /\ IsFiniteSet(S) /\ IsFiniteSet(U) /\ HasInts(f, S) /\ HasInts(h, U)
      /\ SumOver(f, S) \in Int /\ SumOver(h, U) \in Int
  BY SumsDefined
<1>2. /\ IsFiniteSet(T) /\ HasInts(g, T) /\ HasInts(k, U)
      /\ SumOver(g, T) \in Int /\ SumOver(k, U) \in Int
  <2>1. IsFiniteSet(T)
    BY ObjsFinite, FS_Subset DEF Owned
  <2>2. HasInts(g, T) /\ HasInts(k, U)
    BY DEF HasInts, Owned, ThreadsOf, TypeOK, ObjTypes, ThreadTypes
  <2> QED
    BY <1>1, <2>1, <2>2, SumFacts
<1>3. S \ {x} = T \ {x} /\ \A y \in S \ {x} : g[y] = f[y]
  BY DEF Owned
<1>4. \A y \in U \ {t} : k[y] = h[y]
  BY DEF ThreadsOf
<1>5. SumOver(g, T) - Share(g, T, x) = SumOver(f, S) - Share(f, S, x)
  BY <1>1, <1>2, <1>3, SumChanged
<1>6. SumOver(k, U) - Share(k, U, t) = SumOver(h, U) - Share(h, U, t)
  BY <1>1, <1>2, <1>4, SumChanged
<1>7. /\ Part(p, x, t) = Share(f, S, x) + Share(h, U, t)
      /\ Part(p, x, t)' = Share(g, T, x) + Share(k, U, t)
  BY DEF Part, ThreadsOf
<1>8. /\ Share(f, S, x) \in Int /\ Share(g, T, x) \in Int
      /\ Share(h, U, t) \in Int /\ Share(k, U, t) \in Int
  BY <1>1, <1>2 DEF Share, HasInts
<1>9. totalWorkload[p] \in Int /\ totalWorkload'[p] \in Int
  BY DEF TypeOK, ProcTypes
<1>10. totalWorkload[p] = SumOver(f, S) + SumOver(h, U)
  BY DEF Balanced
<1>11. totalWorkload'[p] = SumOver(g, T) + SumOver(k, U)
  <2>1. totalWorkload'[p] - (Share(g, T, x) + Share(k, U, t))
        = totalWorkload[p] - (Share(f, S, x) + Share(h, U, t))
    BY <1>7
  <2> PICK a, b \in Int : a = totalWorkload[p] /\ b = totalWorkload'[p]
    BY <1>9
  <2> PICK sf, sg, sh, sk \in Int :
        /\ sf = SumOver(f, S) /\ sg = SumOver(g, T)
        /\ sh = SumOver(h, U) /\ sk = SumOver(k, U)
    BY <1>1, <1>2
  <2> PICK xf, xg, xh, xk \in Int :
        /\ xf = Share(f, S, x) /\ xg = Share(g, T, x)
        /\ xh = Share(h, U, t) /\ xk = Share(k, U, t)
    BY <1>8
  <2>2. b - (xg + xk) = a - (xf + xh) /\ a = sf + sh
    BY <2>1, <1>10
  <2>3. sg - xg = sf - xf /\ sk - xk = sh - xh
    BY <1>5, <1>6
  <2>4. sg = (sf - xf) + xg /\ sk = (sh - xh) + xk
    BY <2>3
  <2>5. b = (a - (xf + xh)) + (xg + xk)
    BY <2>2
  <2>6. b = sg + sk
    BY <2>2, <2>4, <2>5
  <2> QED
    BY <2>6
<1> QED
  BY <1>11 DEF ThreadsOf

(* Steps that charge nothing.                                              *)
LEMMA AccountsKept ==
  ASSUME Accounts, UNCHANGED <<po, workload, totalWorkload, want, needRemove>>,
         \A t \in Threads :
           /\ pc[t] \in Requests => pc'[t] \in Requests
           /\ pc[t] = "relAccount" => pc'[t] = "relAccount" /\ job'[t] = job[t]
  PROVE  Accounts'
<1>1. Balanced'
  <2>1. \A p : Owned(p)' = Owned(p) /\ ThreadsOf(p)' = ThreadsOf(p)
    BY DEF Owned, ThreadsOf
  <2>2. UNCHANGED <<totalWorkload, workload, want>>
    OBVIOUS
  <2> QED
    BY <2>1, <2>2 DEF Accounts, Balanced
<1>2. AskOk' /\ \A o \in Objs : GivenBack(o)'
  BY DEF Accounts, AskOk, GivenBack
<1> QED
  BY <1>1, <1>2 DEF Accounts

LEMMA ThreadsCharge ==
  ASSUME TypeOK, ListInv, Accounts, NEW t \in Threads,
         \/ ReserveWait(t) \/ LinkSem(t) \/ LinkScan(t) \/ LinkLeastLoaded(t)
         \/ LinkKick(t) \/ LinkInterrupted(t)
         \/ WaitAny(t) \/ WaitSleep(t) \/ WaitNothing(t) \/ WaitInterrupted(t)
         \/ \E o \in Objs : LinkCall(t, o) \/ WaitJob(t, o) \/ WaitGot(t, o)
  PROVE  Accounts'
<1> USE DEF objVars, procVars
<1>1. UNCHANGED <<po, workload, totalWorkload, want, needRemove>>
  BY DEF ReserveWait, LinkSem, LinkScan, LinkLeastLoaded, LinkKick, LinkInterrupted,
     WaitAny, WaitSleep, WaitNothing, WaitInterrupted, LinkCall, WaitJob, WaitGot
<1>2. /\ pc[t] \in Requests => pc'[t] \in Requests
      /\ pc[t] # "relAccount"
  BY DEF ReserveWait, LinkSem, LinkScan, LinkLeastLoaded, LinkKick, LinkInterrupted,
     WaitAny, WaitSleep, WaitNothing, WaitInterrupted, LinkCall, WaitJob, WaitGot,
     Enters, MayCall, Requests, TypeOK, ThreadTypes, Locs
<1>3. \A u \in Threads \ {t} : pc'[u] = pc[u] /\ job'[u] = job[u]
  BY DEF ReserveWait, LinkSem, LinkScan, LinkLeastLoaded, LinkKick, LinkInterrupted,
     WaitAny, WaitSleep, WaitNothing, WaitInterrupted, LinkCall, WaitJob, WaitGot,
     TypeOK, ThreadTypes
<1> QED
  BY <1>1, <1>2, <1>3, AccountsKept

LEMMA DevicesCharge ==
  ASSUME TypeOK, Accounts, NEW d \in Devs, Isr(d) \/ KthreadBusErr(d) \/ Hw(d)
  PROVE  Accounts'
<1> USE DEF objVars, procVars, threadVars
<1>1. UNCHANGED <<po, workload, totalWorkload, want, needRemove, job>>
  BY DEF Isr, IsrEnter, IsrRead, IsrWalk, IsrAbort, IsrBusErr, IsrCmdErr, IsrDone,
     IsrStart, KthreadBusErr, Hw, HwFinish, HwAbortStalled, HwError
<1>2. MovesWithin(pc, pc')
  <2>1. MovesWithin(pc, pc)
    BY DEF MovesWithin, TypeOK, ThreadTypes
  <2>2. \A o : /\ MovesWithin(pc, PcAfterDone(o))
               /\ MovesWithin(pc, AbortWoken(PcAfterDone(o), d))
    BY PcAfterDoneMoves, AbortWokenMoves
  <2>3. \/ UNCHANGED pc
        \/ \E o : pc' = PcAfterDone(o) \/ pc' = AbortWoken(PcAfterDone(o), d)
    <3>1. CASE Isr(d)
      BY <3>1 DEF Isr, IsrEnter, IsrRead, IsrWalk, IsrAbort, IsrBusErr, IsrCmdErr,
         IsrDone, IsrStart
    <3>2. CASE KthreadBusErr(d) \/ Hw(d)
      BY <3>2 DEF KthreadBusErr, Hw, HwFinish, HwAbortStalled, HwError
    <3> QED
      BY <3>1, <3>2
  <2> QED
    BY <2>1, <2>2, <2>3
<1>3. \A u \in Threads : /\ pc[u] \in Requests => pc'[u] \in Requests
                         /\ pc[u] = "relAccount" => pc'[u] = "relAccount"
  BY <1>2 DEF MovesWithin, Requests
<1> QED
  BY <1>1, <1>3, AccountsKept

(* A request is charged ...                                                *)
LEMMA ReserveCharges ==
  ASSUME TypeOK, TypeOK', Accounts, NEW t \in Threads, NEW w \in Workloads,
         ReserveCharge(t, w)
  PROVE  Accounts'
<1> USE DEF objVars
<1>1. /\ UNCHANGED <<po, workload, needRemove, job>>
      /\ totalWorkload' = [totalWorkload EXCEPT ![ProcOf[t]] = @ + w]
      /\ want' = [want EXCEPT ![t] = w] /\ pc' = [pc EXCEPT ![t] = "resWait"]
      /\ pc[t] = "user" /\ want[t] = 0
  BY DEF ReserveCharge, MayCall, Accounts, AskOk, Requests
<1>2. ASSUME NEW p \in Procs
      PROVE  totalWorkload'[p] - Part(p, Nil, t)' = totalWorkload[p] - Part(p, Nil, t)
  <2>1. /\ Share(workload, Owned(p), Nil) = 0 /\ Share(workload, Owned(p), Nil)' = 0
        /\ Share(want, ThreadsOf(p), t) = 0
        /\ Share(want, ThreadsOf(p), t)' = IF p = ProcOf[t] THEN w ELSE 0
    BY <1>1 DEF Share, Owned, ThreadsOf, TypeOK, ThreadTypes
  <2>2. totalWorkload'[p] = totalWorkload[p] + (IF p = ProcOf[t] THEN w ELSE 0)
    BY <1>1 DEF TypeOK, ProcTypes
  <2>3. totalWorkload[p] \in Int /\ w \in Int
    BY WorkloadAssumption DEF TypeOK, ProcTypes
  <2> QED
    BY <2>1, <2>2, <2>3 DEF Part
<1>3. Balanced'
  <2>1. /\ \A o \in Objs \ {Nil} : po'[o] = po[o] /\ workload'[o] = workload[o]
        /\ \A u \in Threads \ {t} : want'[u] = want[u]
    BY <1>1 DEF TypeOK, ThreadTypes
  <2> QED
    BY <1>2, <2>1, BalanceKept DEF Accounts
<1>4. AskOk' /\ \A o \in Objs : GivenBack(o)'
  BY <1>1 DEF Accounts, AskOk, GivenBack, Requests, TypeOK, ThreadTypes
<1> QED
  BY <1>3, <1>4 DEF Accounts

(* ... and the cmdbuf it gets takes the charge over.                       *)
LEMMA ReserveTakesCharge ==
  ASSUME TypeOK, TypeOK', ListInv, Accounts, NEW t \in Threads, ReserveTake(t)
  PROVE  Accounts'
<1>1. PICK o \in avail :
        /\ po' = [po EXCEPT ![o] = ProcOf[t]]
        /\ workload' = [workload EXCEPT ![o] = want[t]]
        /\ needRemove' = [needRemove EXCEPT ![o] = FALSE]
  BY DEF ReserveTake
<1>2. /\ UNCHANGED <<totalWorkload, job>> /\ want' = [want EXCEPT ![t] = 0]
      /\ pc' = [pc EXCEPT ![t] = "user"] /\ pc[t] = "resTake"
  BY DEF ReserveTake, procVars
<1>3. o \in Objs /\ po[o] = Nil
  BY DEF TypeOK, PoolTypes, ListInv, PoolSound, PoolOk
<1>4. ASSUME NEW p \in Procs
      PROVE  totalWorkload'[p] - Part(p, o, t)' = totalWorkload[p] - Part(p, o, t)
  <2>1. /\ Share(workload, Owned(p), o) = 0
        /\ Share(workload, Owned(p), o)' = IF p = ProcOf[t] THEN want[t] ELSE 0
    BY <1>1, <1>3 DEF Share, Owned, TypeOK, ObjTypes
  <2>2. /\ Share(want, ThreadsOf(p), t) = IF p = ProcOf[t] THEN want[t] ELSE 0
        /\ Share(want, ThreadsOf(p), t)' = 0
    BY <1>2 DEF Share, ThreadsOf, TypeOK, ThreadTypes
  <2>3. want[t] \in Int
    BY DEF TypeOK, ThreadTypes
  <2> QED
    BY <1>2, <2>1, <2>2, <2>3 DEF Part
<1>5. Balanced'
  <2>1. /\ \A q \in Objs \ {o} : po'[q] = po[q] /\ workload'[q] = workload[q]
        /\ \A u \in Threads \ {t} : want'[u] = want[u]
    BY <1>1, <1>2 DEF TypeOK, ObjTypes, ThreadTypes
  <2> QED
    BY <1>4, <2>1, BalanceKept DEF Accounts
<1>6. AskOk'
  BY <1>2 DEF Accounts, AskOk, TypeOK, ThreadTypes
<1>7. ASSUME NEW q \in Objs PROVE GivenBack(q)'
  BY <1>1, <1>2, <1>3 DEF Accounts, GivenBack, TypeOK, ObjTypes, ThreadTypes
<1> QED
  BY <1>5, <1>6, <1>7 DEF Accounts

(* What return_process_resource takes off an account is what the cmdbuf    *)
(* had, whether or not it goes back to the pool at once.                   *)
LEMMA ResourceReturned ==
  ASSUME TypeOK, TypeOK', Balanced, NEW o \in Objs, po[o] # Nil, ReturnResource(o),
         \/ UNCHANGED po
         \/ po' = [po EXCEPT ![o] = Nil],
         UNCHANGED want
  PROVE  Balanced' /\ workload' = [workload EXCEPT ![o] = 0]
<1>1. /\ totalWorkload' = [totalWorkload EXCEPT ![po[o]] = @ - workload[o]]
      /\ workload' = [workload EXCEPT ![o] = 0]
      /\ po[o] \in Procs
  BY DEF ReturnResource, TypeOK, ObjTypes
<1>2. ASSUME NEW p \in Procs
      PROVE  totalWorkload'[p] - Part(p, o, Nil)' = totalWorkload[p] - Part(p, o, Nil)
  <2>1. Share(workload, Owned(p), o) = IF p = po[o] THEN workload[o] ELSE 0
    BY DEF Share, Owned
  <2>2. Share(workload, Owned(p), o)' = 0
    BY <1>1 DEF Share, TypeOK, ObjTypes
  <2>3. /\ Share(want, ThreadsOf(p), Nil) = 0 /\ Share(want, ThreadsOf(p), Nil)' = 0
    BY DEF Share, ThreadsOf
  <2>4. totalWorkload'[p] = totalWorkload[p] - (IF p = po[o] THEN workload[o] ELSE 0)
    BY <1>1 DEF TypeOK, ProcTypes
  <2>5. totalWorkload[p] \in Int /\ workload[o] \in Int
    BY DEF TypeOK, ProcTypes, ObjTypes
  <2> QED
    BY <2>1, <2>2, <2>3, <2>4, <2>5 DEF Part
<1>3. /\ \A q \in Objs \ {o} : po'[q] = po[q] /\ workload'[q] = workload[q]
      /\ \A u \in Threads \ {Nil} : want'[u] = want[u]
  BY <1>1 DEF TypeOK, ObjTypes
<1> QED
  BY <1>1, <1>2, <1>3, BalanceKept

(* A cmdbuf that has given its workload back takes nothing with it when it *)
(* leaves its process.                                                     *)
LEMMA RemovedCharges ==
  ASSUME TypeOK, TypeOK', Balanced, NEW d \in Devs, NEW o \in Objs, RemoveJob(d, o),
         workload[o] = 0, UNCHANGED <<workload, want, totalWorkload>>
  PROVE  Balanced'
<1>1. UNCHANGED po \/ po' = [po EXCEPT ![o] = Nil]
  BY DEF RemoveJob, ReturnCmdbuf
<1>2. ASSUME NEW p \in Procs
      PROVE  totalWorkload'[p] - Part(p, o, Nil)' = totalWorkload[p] - Part(p, o, Nil)
  <2>1. Share(workload, Owned(p), o) = 0 /\ Share(workload, Owned(p), o)' = 0
    BY DEF Share
  <2>2. /\ Share(want, ThreadsOf(p), Nil) = 0 /\ Share(want, ThreadsOf(p), Nil)' = 0
    BY DEF Share, ThreadsOf
  <2> QED
    BY <2>1, <2>2 DEF Part
<1>3. /\ \A q \in Objs \ {o} : po'[q] = po[q] /\ workload'[q] = workload[q]
      /\ \A u \in Threads \ {Nil} : want'[u] = want[u]
  BY <1>1 DEF TypeOK, ObjTypes
<1> QED
  BY <1>2, <1>3, BalanceKept

LEMMA ReleaseCharges ==
  ASSUME TypeOK, TypeOK', ListInv, Accounts, NEW t \in Threads,
         \/ \E o \in Objs : ReleaseCall(t, o)
         \/ ReleaseAccount(t)
  PROVE  Accounts'
<1>1. ASSUME NEW o \in Objs, ReleaseCall(t, o) PROVE Accounts'
  <2>1. pc[t] = "user" /\ UNCHANGED want
    BY <1>1 DEF ReleaseCall, Enters, MayCall
  <2>2. CASE po[o] # ProcOf[t]
    <3>1. UNCHANGED <<po, workload, totalWorkload, want, needRemove, job, pc>>
      BY <1>1, <2>1, <2>2 DEF ReleaseCall
    <3> QED
      BY <3>1, AccountsKept
  <2>3. CASE po[o] = ProcOf[t] /\ linked[o]
    <3>1. /\ needRemove' = [needRemove EXCEPT ![o] = TRUE]
          /\ job' = [job EXCEPT ![t] = o] /\ pc' = [pc EXCEPT ![t] = "relAccount"]
          /\ UNCHANGED <<po, workload, totalWorkload>>
      BY <1>1, <2>3 DEF ReleaseCall
    <3>2. Balanced'
      <4>1. \A p : Owned(p)' = Owned(p) /\ ThreadsOf(p)' = ThreadsOf(p)
        BY <3>1 DEF Owned, ThreadsOf
      <4> QED
        BY <2>1, <3>1, <4>1 DEF Accounts, Balanced
    <3>3. AskOk' /\ \A q \in Objs : GivenBack(q)'
      BY <2>1, <3>1 DEF Accounts, AskOk, GivenBack, Requests, TypeOK, ObjTypes, ThreadTypes
    <3> QED
      BY <3>2, <3>3 DEF Accounts
  <2>4. CASE po[o] = ProcOf[t] /\ ~linked[o]
    <3>1. /\ ReturnResource(o) /\ po' = [po EXCEPT ![o] = Nil]
          /\ UNCHANGED <<needRemove, job, pc>> /\ po[o] # Nil
      BY <1>1, <2>4 DEF ReleaseCall, ReturnCmdbuf
    <3>2. Balanced' /\ workload' = [workload EXCEPT ![o] = 0]
      BY <2>1, <3>1, ResourceReturned DEF Accounts
    <3>3. AskOk' /\ \A q \in Objs : GivenBack(q)'
      BY <2>1, <3>1, <3>2 DEF Accounts, AskOk, GivenBack, TypeOK, ObjTypes
    <3> QED
      BY <3>2, <3>3 DEF Accounts
  <2> QED
    BY <2>2, <2>3, <2>4
<1>2. ASSUME ReleaseAccount(t) PROVE Accounts'
  <2>0. job[t] \in Objs
    BY <1>2 DEF ReleaseAccount, TypeOK, ThreadTypes, UsesJob, ReleasePcs, ObjOrNil
  <2>1. job[t] \in Objs /\ po[job[t]] # Nil
    BY <1>2, <2>0 DEF ReleaseAccount, ReleasePcs, ListInv, CallsSound, CallOk, ReleaserOk,
       PoolSound, PoolOk
  <2> PICK o \in Objs : o = job[t]
    BY <2>1
  <2>2. /\ ReturnResource(o) /\ UNCHANGED <<po, want, needRemove, job>> /\ po[o] # Nil
        /\ pc' = [pc EXCEPT ![t] = "relLock"] /\ pc[t] = "relAccount"
    BY <1>2, <2>1 DEF ReleaseAccount
  <2>3. Balanced' /\ workload' = [workload EXCEPT ![o] = 0]
    BY <2>2, ResourceReturned DEF Accounts
  <2>4. AskOk' /\ \A q \in Objs : GivenBack(q)'
    BY <2>2, <2>3 DEF Accounts, AskOk, GivenBack, Requests, TypeOK, ObjTypes, ThreadTypes
  <2> QED
    BY <2>3, <2>4 DEF Accounts
<1> QED
  BY <1>1, <1>2

(* release_cmdbuf and link_and_run_cmdbuf take off the list a cmdbuf that  *)
(* was released: its release is past its account, or still has to use it.  *)
LEMMA RemoveCharges ==
  ASSUME TypeOK, TypeOK', ListInv, ~ListRace, Accounts, NEW t \in Threads,
         ReleaseLock(t) \/ LinkPrev(t)
  PROVE  Accounts'
<1>0. /\ UNCHANGED <<workload, totalWorkload, want, needRemove>>
      /\ pc' = [pc EXCEPT ![t] = "user"] /\ job' = [job EXCEPT ![t] = Nil]
      /\ pc[t] \in {"relLock", "linkPrev"}
  BY DEF ReleaseLock, LinkPrev, procVars
<1>1. /\ UNCHANGED <<workload, totalWorkload, want, needRemove>>
      /\ pc' = [pc EXCEPT ![t] = "user"] /\ job' = [job EXCEPT ![t] = Nil]
      /\ pc[t] \in {"relLock", "linkPrev"} /\ dev[t] \in Devs /\ job[t] \in Objs
  BY <1>0 DEF TypeOK, ThreadTypes, UsesJob, UsesDev, ReleasePcs, LinkPcs, HoldsLock,
     ObjOrNil, DevOrNil
<1>2. \A u \in Threads : pc[u] = "relAccount" => pc'[u] = "relAccount" /\ job'[u] = job[u]
  BY <1>1 DEF TypeOK, ThreadTypes
<1>3. ASSUME NEW o \in Objs, needRemove[o], o \notin avail, o \in avail'
      PROVE  workload[o] = 0
  <2>1. ASSUME NEW u \in Threads, pc[u] = "relAccount", job[u] = o PROVE UsedByCall(u, o)'
    BY <1>2, <2>1 DEF UsedByCall, ReleasePcs
  <2> QED
    BY <1>3, <2>1 DEF ListRace, ReturnedInUse, Accounts, GivenBack
<1>4. \/ UNCHANGED po
      \/ \E o \in Objs : needRemove[o] /\ o \notin avail /\ RemoveJob(dev[t], o)
  <2>1. CASE ReleaseLock(t)
    BY <1>1, <2>1 DEF ReleaseLock, ListInv, CallsSound, CallOk, ReleaserOk, ReleasePcs
  <2>2. CASE LinkPrev(t)
    <3>1. PrevOf(dev[t], job[t]) \in ObjOrNil
      BY <1>1, NextOfType
    <3> PICK q : q = PrevOf(dev[t], job[t])
      OBVIOUS
    <3>2. CASE KeptForJmp(q)
      <4>1. q \in Objs /\ needRemove[q] /\ q \notin avail
        BY <1>1, <2>2, <3>1, <3>2, PredecessorKnown DEF KeptForJmp, ObjOrNil, LinkPrev
      <4> QED
        BY <2>2, <3>2, <4>1 DEF LinkPrev
    <3>3. CASE ~KeptForJmp(q)
      BY <2>2, <3>3 DEF LinkPrev
    <3> QED
      BY <3>2, <3>3
  <2> QED
    BY <2>1, <2>2
<1>5. Balanced'
  <2>1. CASE UNCHANGED po
    <3>1. \A p : Owned(p)' = Owned(p) /\ ThreadsOf(p)' = ThreadsOf(p)
      BY <2>1 DEF Owned, ThreadsOf
    <3> QED
      BY <1>1, <3>1 DEF Accounts, Balanced
  <2>2. ASSUME NEW o \in Objs, needRemove[o], o \notin avail, RemoveJob(dev[t], o),
               ~UNCHANGED po
        PROVE  Balanced'
    <3>1. o \in avail'
      BY <2>2 DEF RemoveJob, ReturnCmdbuf
    <3> QED
      BY <1>1, <1>3, <2>2, <3>1, RemovedCharges DEF Accounts
  <2> QED
    BY <1>4, <2>1, <2>2
<1>6. AskOk' /\ \A o \in Objs : GivenBack(o)'
  BY <1>1, <1>2 DEF Accounts, AskOk, GivenBack, Requests, TypeOK, ThreadTypes
<1> QED
  BY <1>5, <1>6 DEF Accounts

LEMMA InitAccounts == Init => Accounts
<1> SUFFICES ASSUME Init PROVE Accounts
  OBVIOUS
<1>1. ASSUME NEW p \in Procs
      PROVE  totalWorkload[p] = SumOver(workload, Owned(p)) + SumOver(want, ThreadsOf(p))
  <2> PICK S, T : S = ThreadsOf(p) /\ T = Owned(p)
    OBVIOUS
  <2>1. T = {} /\ IsFiniteSet(S) /\ \A t \in S : want[t] = 0
    BY ThreadsFinite, FS_Subset DEF Init, Owned, ThreadsOf
  <2>2. SumOver(workload, {}) = 0
    BY FS_EmptySet, SumFacts DEF HasInts
  <2>3. SumOver(want, S) = 0
    BY <2>1, SumZero
  <2>4. totalWorkload[p] = 0
    BY DEF Init
  <2> QED
    BY <2>1, <2>2, <2>3, <2>4
<1>2. AskOk /\ \A o \in Objs : GivenBack(o)
  BY DEF Init, AskOk, GivenBack
<1> QED
  BY <1>1, <1>2 DEF Accounts, Balanced

(* A process is charged exactly for the cmdbufs it has and the requests it *)
(* waits with: reserve, link and release and the interrupt routine never   *)
(* lose or repeat a part of proc_obj->total_workload.  (A reservation that *)
(* a signal interrupts does keep its charge.)                              *)
THEOREM WorkloadIsExact ==
  ASSUME NoDropCalls, ~Interrupts
  PROVE  Safety /\ [][~ListRace]_vars => []WorkloadExact
<1>1. ASSUME TypeOK, TypeOK', ListInv, Accounts, [Next]_vars, [~ListRace]_vars
      PROVE  Accounts'
  <2>1. CASE UNCHANGED vars
    BY <1>1, <2>1, AccountsKept DEF vars, objVars, procVars, threadVars
  <2> SUFFICES ASSUME Next, ~ListRace PROVE Accounts'
    BY <1>1, <2>1
  <2>2. ASSUME NEW t \in Threads, InCall(t) \/ Calls(t) \/ Signals(t)
        PROVE  Accounts'
    BY <1>1, <2>2, NoDrops, ThreadsCharge, ReserveCharges, ReserveTakesCharge,
       ReleaseCharges, RemoveCharges
    DEF InCall, Calls, Signals, Link, Wait, Release, ReserveInterrupted
  <2>3. ASSUME NEW d \in Devs, Isr(d) \/ KthreadBusErr(d) \/ Hw(d)
        PROVE  Accounts'
    BY <1>1, <2>3, DevicesCharge
  <2> QED
    BY <2>2, <2>3 DEF Next
<1>2. Accounts => WorkloadExact
  BY DEF Accounts, Balanced, WorkloadExact, SumOver, ThreadsOf
<1> QED
  BY <1>1, <1>2, InitAccounts, SafetyLists, SafetyTypes, PTL DEF Safety
=============================================================================

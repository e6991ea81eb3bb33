-------------------------- MODULE VcmdEngineProofs --------------------------
(***************************************************************************)
(* The device and the interrupt routine on one work list, for any number   *)
(* of cmdbufs, threads, processes and devices.  The driver never tells the *)
(* device what to run next: it edits the JMP at the end of the buffers     *)
(* while the device follows them.  The invariant says how far on its list  *)
(* the device is, how far what it has written to memory is, and how far    *)
(* the walk of the interrupt routine is, and that they come in this order. *)
(*                                                                         *)
(* The theorems hold on any number of CPUs, with overlapping calls, up to  *)
(* the first EngineRace: a ListRace, or a free cmdbuf reserved while the   *)
(* device, or an interrupt not yet served, still refers to it.             *)
(***************************************************************************)
EXTENDS VcmdListProofs

USE NilAssumption, MapsAssumption DEF Goto

---------------------------------------------------------------------------
(* The order of a list without repetitions.                                *)
Nxt(s, a) == ItemAt(s, Pos(s, a) + 1)
Prv(s, a) == ItemAt(s, Pos(s, a) - 1)

LEMMA LinearOrder ==
  ASSUME NEW s \in Seq(Objs), Distinct(s)
  PROVE  /\ \A a : On(s, a) => a \in Objs
         /\ \A a, b : Before(s, a, b) => On(s, a) /\ On(s, b) /\ a # b /\ ~Before(s, b, a)
         /\ \A a, b, c : Before(s, a, b) /\ Before(s, b, c) => Before(s, a, c)
         /\ \A a, b : On(s, a) /\ On(s, b) => a = b \/ Before(s, a, b) \/ Before(s, b, a)
<1>0. \A i \in 1..Len(s) : i \in Int /\ s[i] \in Objs
  OBVIOUS
<1>1. \A a : On(s, a) => a \in Objs
  BY <1>0 DEF On
<1>2. ASSUME NEW a, NEW b, Before(s, a, b)
      PROVE  On(s, a) /\ On(s, b) /\ a # b /\ ~Before(s, b, a)
  <2>1. PICK i, j \in 1..Len(s) : i < j /\ s[i] = a /\ s[j] = b
    BY <1>2 DEF Before
  <2>2. \A k \in 1..Len(s) : (s[k] = a => k = i) /\ (s[k] = b => k = j)
    BY <2>1 DEF Distinct
  <2>3. ~(j < i) /\ i # j
    BY <2>1, <1>0
  <2> QED
    BY <2>1, <2>2, <2>3 DEF On, Before
<1>3. ASSUME NEW a, NEW b, NEW c, Before(s, a, b), Before(s, b, c)
      PROVE  Before(s, a, c)
  <2>1. PICK i, j \in 1..Len(s) : i < j /\ s[i] = a /\ s[j] = b
    BY <1>3 DEF Before
  <2>2. PICK k, l \in 1..Len(s) : k < l /\ s[k] = b /\ s[l] = c
    BY <1>3 DEF Before
  <2>3. j = k
    BY <2>1, <2>2 DEF Distinct
  <2>4. i < l
    BY <1>0, <2>1, <2>2, <2>3
  <2> QED
    BY <2>1, <2>2, <2>4 DEF Before
<1>4. ASSUME NEW a, NEW b, On(s, a), On(s, b)
      PROVE  a = b \/ Before(s, a, b) \/ Before(s, b, a)
  <2>1. PICK i \in 1..Len(s) : s[i] = a
    BY <1>4 DEF On
  <2>2. PICK j \in 1..Len(s) : s[j] = b
    BY <1>4 DEF On
  <2>3. i < j \/ j < i \/ i = j
    BY <1>0
  <2> QED
    BY <2>1, <2>2, <2>3 DEF Before
<1> QED
  BY <1>1, <1>2, <1>3, <1>4

(* The next one is the first of those behind, the previous one the last of *)
(* those before.                                                           *)
LEMMA NxtFacts ==
  ASSUME NEW s \in Seq(Objs), Distinct(s), NEW a, On(s, a)
  PROVE  /\ Nxt(s, a) \in Objs \cup {Nil}
         /\ Nxt(s, a) = Nil => \A c : ~Before(s, a, c)
         /\ Nxt(s, a) # Nil =>
              /\ Before(s, a, Nxt(s, a))
              /\ \A c : Before(s, c, Nxt(s, a)) => c = a \/ Before(s, c, a)
              /\ \A c : Before(s, a, c) => c = Nxt(s, a) \/ Before(s, Nxt(s, a), c)
<1> DEFINE k == Pos(s, a)
<1>0. \A i \in 1..Len(s) : i \in Int /\ s[i] \in Objs
  OBVIOUS
<1>1. a \in Objs
  BY LinearOrder
<1>2. k \in 1..Len(s) /\ s[k] = a /\ \A i \in 1..Len(s) : s[i] = a => i = k
  BY <1>1, NeighbourOf
<1>3. Nxt(s, a) = ItemAt(s, k + 1) /\ Len(s) \in Nat
  BY DEF Nxt
<1> HIDE DEF k
<1>4. CASE k + 1 \in 1..Len(s)
  <2>1. Nxt(s, a) = s[k + 1] /\ s[k + 1] \in Objs
    BY <1>0, <1>3, <1>4 DEF ItemAt
  <2>2. Before(s, a, s[k + 1])
    BY <1>0, <1>2, <1>4 DEF Before
  <2>3. \A j \in 1..Len(s) : s[j] = s[k + 1] => j = k + 1
    BY <1>4 DEF Distinct
  <2>4. ASSUME NEW c, Before(s, c, s[k + 1]) PROVE c = a \/ Before(s, c, a)
    <3>1. PICK i \in 1..Len(s) : i < k + 1 /\ s[i] = c
      BY <2>3, <2>4 DEF Before
    <3>2. i = k \/ i < k
      BY <1>0, <1>2, <3>1
    <3> QED
      BY <1>2, <3>1, <3>2 DEF Before
  <2>5. ASSUME NEW c, Before(s, a, c) PROVE c = s[k + 1] \/ Before(s, s[k + 1], c)
    <3>1. PICK j \in 1..Len(s) : k < j /\ s[j] = c
      BY <1>2, <2>5 DEF Before
    <3>2. j = k + 1 \/ k + 1 < j
      BY <1>0, <1>2, <3>1
    <3> QED
      BY <1>4, <3>1, <3>2 DEF Before
  <2> QED
    BY <2>1, <2>2, <2>4, <2>5
<1>5. CASE k + 1 \notin 1..Len(s)
  <2>1. Nxt(s, a) = Nil
    BY <1>3, <1>5 DEF ItemAt
  <2>2. ASSUME NEW c, Before(s, a, c) PROVE FALSE
    <3>1. PICK j \in 1..Len(s) : k < j
      BY <1>2, <2>2 DEF Before
    <3> QED
      BY <1>0, <1>2, <1>3, <1>5, <3>1
  <2> QED
    BY <2>1, <2>2
<1> QED
  BY <1>4, <1>5

LEMMA PrvFacts ==
  ASSUME NEW s \in Seq(Objs), Distinct(s), NEW a, On(s, a)
  PROVE  /\ Prv(s, a) \in Objs \cup {Nil}
         /\ Prv(s, a) # Nil => On(s, Prv(s, a)) /\ Nxt(s, Prv(s, a)) = a
         /\ \A c : On(s, c) /\ Nxt(s, c) = a => c = Prv(s, a)
<1> DEFINE k == Pos(s, a)
<1>0. \A i \in 1..Len(s) : i \in Int /\ s[i] \in Objs
  OBVIOUS
<1>1. a \in Objs
  BY LinearOrder
<1>2. k \in 1..Len(s) /\ s[k] = a /\ \A i \in 1..Len(s) : s[i] = a => i = k
  BY <1>1, NeighbourOf
<1>3. Prv(s, a) = ItemAt(s, k - 1) /\ Len(s) \in Nat
  BY DEF Prv
<1>4. ASSUME NEW i \in 1..Len(s) PROVE Nxt(s, s[i]) = ItemAt(s, i + 1)
  <2>1. On(s, s[i]) /\ s[i] \in Objs
    BY DEF On
  <2>2. Pos(s, s[i]) = i
    BY <2>1, NeighbourOf
  <2> QED
    BY <2>2 DEF Nxt
<1> HIDE DEF k
<1>5. Prv(s, a) \in Objs \cup {Nil}
  BY <1>0, <1>3 DEF ItemAt
<1>6. ASSUME Prv(s, a) # Nil PROVE On(s, Prv(s, a)) /\ Nxt(s, Prv(s, a)) = a
  <2>1. k - 1 \in 1..Len(s) /\ Prv(s, a) = s[k - 1]
    BY <1>3, <1>6 DEF ItemAt
  <2>2. Nxt(s, s[k - 1]) = ItemAt(s, (k - 1) + 1) /\ (k - 1) + 1 = k
    BY <1>0, <1>2, <1>4, <2>1
  <2> QED
    BY <1>2, <2>1, <2>2 DEF On, ItemAt
<1>7. ASSUME NEW c, On(s, c), Nxt(s, c) = a PROVE c = Prv(s, a)
  <2>1. PICK i \in 1..Len(s) : s[i] = c
    BY <1>7 DEF On
  <2>2. ItemAt(s, i + 1) = a
    BY <1>4, <1>7, <2>1
  <2>3. i + 1 \in 1..Len(s) /\ s[i + 1] = a
    BY <1>1, <2>2 DEF ItemAt
  <2>4. i + 1 = k /\ k - 1 = i
    BY <1>0, <1>2, <2>3
  <2> QED
    BY <1>3, <2>1, <2>4 DEF ItemAt
<1> QED
  BY <1>5, <1>6, <1>7

LEMMA FirstFacts ==
  ASSUME NEW s \in Seq(Objs), Distinct(s), NEW a, On(s, a)
  PROVE  LET f == ItemAt(s, 1)
         IN /\ f \in Objs /\ On(s, f)
            /\ \A c : ~Before(s, c, f)
            /\ f = a \/ Before(s, f, a)
<1>1. PICK k \in 1..Len(s) : s[k] = a
  BY DEF On
<1>2. 1 \in 1..Len(s) /\ (k = 1 \/ 1 < k) /\ \A i \in 1..Len(s) : ~(i < 1)
  BY <1>1
<1>3. ItemAt(s, 1) = s[1] /\ On(s, s[1]) /\ s[1] \in Objs
  BY <1>2 DEF ItemAt, On
<1>4. \A j \in 1..Len(s) : s[j] = s[1] => j = 1
  BY <1>2 DEF Distinct
<1>5. \A c : ~Before(s, c, s[1])
  BY <1>2, <1>4 DEF Before
<1>6. s[1] = a \/ Before(s, s[1], a)
  BY <1>1, <1>2 DEF Before
<1> QED
  BY <1>3, <1>5, <1>6

LEMMA LastFacts ==
  ASSUME NEW s \in Seq(Objs), Distinct(s), NEW a, On(s, a)
  PROVE  LET l == ItemAt(s, Len(s))
         IN /\ l \in Objs /\ On(s, l) /\ Nxt(s, l) = Nil
            /\ Nxt(s, a) = Nil => a = l
<1>1. PICK k \in 1..Len(s) : s[k] = a
  BY DEF On
<1>2. Len(s) \in 1..Len(s) /\ Len(s) \in Nat /\ k \in Int
  BY <1>1
<1>3. ItemAt(s, Len(s)) = s[Len(s)] /\ On(s, s[Len(s)]) /\ s[Len(s)] \in Objs
  BY <1>2 DEF ItemAt, On
<1>4. ASSUME NEW i \in 1..Len(s) PROVE Nxt(s, s[i]) = ItemAt(s, i + 1)
  <2>1. On(s, s[i]) /\ s[i] \in Objs
    BY DEF On
  <2>2. Pos(s, s[i]) = i
    BY <2>1, NeighbourOf
  <2> QED
    BY <2>2 DEF Nxt
<1>5. Nxt(s, s[Len(s)]) = Nil
  <2>1. Len(s) + 1 \notin 1..Len(s)
    BY <1>2
  <2> QED
    BY <1>2, <1>4, <2>1 DEF ItemAt
<1>6. ASSUME Nxt(s, a) = Nil PROVE a = s[Len(s)]
  <2>1. ItemAt(s, k + 1) = Nil
    BY <1>1, <1>4, <1>6
  <2>2. \A i \in 1..Len(s) : s[i] # Nil
    OBVIOUS
  <2>3. k + 1 \notin 1..Len(s)
    BY <2>1, <2>2 DEF ItemAt
  <2>4. k = Len(s)
    BY <1>2, <2>3
  <2> QED
    BY <1>1, <2>4
<1> QED
  BY <1>3, <1>5, <1>6

(* What taking an element out and adding one at the end do to the order.   *)
LEMMA WithoutOrder ==
  ASSUME NEW s \in Seq(Objs), Distinct(s), NEW o, On(s, o),
         NEW r, r = Without(s, o)
  PROVE  /\ r \in Seq(Objs) /\ Distinct(r)
         /\ \A a : On(r, a) <=> On(s, a) /\ a # o
         /\ \A a, b : Before(r, a, b) <=> Before(s, a, b) /\ a # o /\ b # o
         /\ \A a : On(s, a) /\ a # o =>
              Nxt(r, a) = IF Nxt(s, a) = o THEN Nxt(s, o) ELSE Nxt(s, a)
<1>0. o \in Objs
  BY LinearOrder
<1>1. /\ r \in Seq(Objs) /\ Distinct(r) /\ InOrder(r, s)
      /\ \A a : On(r, a) <=> On(s, a) /\ a # o
  BY <1>0, OnWithout
<1>2. ASSUME NEW a, NEW b, Before(r, a, b) PROVE Before(s, a, b) /\ a # o /\ b # o
  <2>1. Before(s, a, b)
    BY <1>1, <1>2 DEF Before, InOrder
  <2>2. On(r, a) /\ On(r, b)
    BY <1>1, <1>2, LinearOrder
  <2> QED
    BY <1>1, <2>1, <2>2
<1>3. ASSUME NEW a, NEW b, Before(s, a, b), a # o, b # o PROVE Before(r, a, b)
  <2>1. On(s, a) /\ On(s, b) /\ a # b /\ ~Before(s, b, a)
    BY <1>3, LinearOrder
  <2>2. On(r, a) /\ On(r, b)
    BY <1>1, <1>3, <2>1
  <2>3. a = b \/ Before(r, a, b) \/ Before(r, b, a)
    BY <1>1, <2>2, LinearOrder
  <2> QED
    BY <1>2, <2>1, <2>3
<1>4. \A a, b : Before(r, a, b) <=> Before(s, a, b) /\ a # o /\ b # o
  BY <1>2, <1>3
<1>5. ASSUME NEW a, On(s, a), a # o
      PROVE  Nxt(r, a) = IF Nxt(s, a) = o THEN Nxt(s, o) ELSE Nxt(s, a)
  <2> DEFINE n == IF Nxt(s, a) = o THEN Nxt(s, o) ELSE Nxt(s, a)
  <2>1. On(r, a)
    BY <1>1, <1>5
  <2>2. /\ Nxt(s, a) = Nil => \A c : ~Before(s, a, c)
        /\ Nxt(s, a) # Nil =>
              /\ Before(s, a, Nxt(s, a))
              /\ \A c : Before(s, a, c) => c = Nxt(s, a) \/ Before(s, Nxt(s, a), c)
    BY <1>5, NxtFacts
  <2>3. /\ Nxt(s, o) = Nil => \A c : ~Before(s, o, c)
        /\ Nxt(s, o) # Nil =>
              /\ Before(s, o, Nxt(s, o))
              /\ \A c : Before(s, o, c) => c = Nxt(s, o) \/ Before(s, Nxt(s, o), c)
    BY NxtFacts
  <2>4. /\ Nxt(r, a) = Nil => \A c : ~Before(r, a, c)
        /\ Nxt(r, a) # Nil =>
              /\ Before(r, a, Nxt(r, a))
              /\ \A c : Before(r, a, c) => c = Nxt(r, a) \/ Before(r, Nxt(r, a), c)
    BY <1>1, <2>1, NxtFacts
  <2>5. o # Nil
    BY <1>0
  <2>6. CASE n = Nil
    <3>1. \A c : ~Before(r, a, c)
      BY <1>4, <2>2, <2>3, <2>5, <2>6
    <3> QED
      BY <2>4, <2>6, <3>1
  <2>7. CASE n # Nil
    <3>1. Before(s, a, n) /\ n # o
      <4>1. CASE Nxt(s, a) = o
        <5>1. Before(s, a, o) /\ Before(s, o, Nxt(s, o))
          BY <2>2, <2>3, <2>5, <2>7, <4>1
        <5> QED
          BY <4>1, <5>1, LinearOrder
      <4>2. CASE Nxt(s, a) # o
        BY <2>2, <2>7, <4>2
      <4> QED
        BY <4>1, <4>2
    <3>2. ASSUME NEW c, Before(s, a, c), c # o PROVE c = n \/ Before(s, n, c)
      <4>1. c = Nxt(s, a) \/ Before(s, Nxt(s, a), c)
        BY <2>2, <3>2
      <4> QED
        BY <2>3, <2>5, <3>2, <4>1
    <3> HIDE DEF n
    <3>3. Before(r, a, n)
      BY <1>4, <1>5, <3>1
    <3>4. Nxt(r, a) # Nil /\ Before(r, a, Nxt(r, a))
      BY <2>4, <3>3
    <3>5. Nxt(r, a) = n \/ Before(r, n, Nxt(r, a))
      <4> DEFINE m == Nxt(r, a)
      <4>1. Before(r, a, m)
        BY <3>4
      <4> HIDE DEF m
      <4>2. Before(s, a, m) /\ m # o
        BY <1>4, <4>1
      <4>3. m = n \/ Before(s, n, m)
        BY <3>2, <4>2
      <4>4. m = n \/ Before(r, n, m)
        BY <1>4, <3>1, <4>2, <4>3
      <4> QED
        BY <4>4 DEF m
    <3>6. n = Nxt(r, a) \/ Before(r, Nxt(r, a), n)
      BY <2>4, <3>3, <3>4
    <3>7. Nxt(r, a) = n
      BY <1>1, <3>5, <3>6, LinearOrder
    <3> QED
      BY <3>7 DEF n
  <2> QED
    BY <2>6, <2>7
<1> QED
  BY <1>1, <1>4, <1>5

AtEnd(s, o) == Append(s, o)

LEMMA AppendOrder ==
  ASSUME NEW s \in Seq(Objs), Distinct(s), NEW o \in Objs, ~On(s, o),
         NEW r, r = AtEnd(s, o)
  PROVE  /\ r \in Seq(Objs) /\ Distinct(r)
         /\ \A a : On(r, a) <=> On(s, a) \/ a = o
         /\ \A a, b : Before(r, a, b) <=> Before(s, a, b) \/ (On(s, a) /\ b = o)
         /\ Nxt(r, o) = Nil
         /\ \A a : On(s, a) => Nxt(r, a) = IF Nxt(s, a) = Nil THEN o ELSE Nxt(s, a)
<1>1. /\ r \in Seq(Objs) /\ Distinct(r)
      /\ \A a : On(r, a) <=> On(s, a) \/ a = o
  BY OnAppend DEF AtEnd
<1>2. /\ Len(s) \in Nat /\ Len(r) = Len(s) + 1 /\ r[Len(r)] = o
      /\ \A i \in 1..Len(s) : i \in 1..Len(r) /\ i < Len(r) /\ r[i] = s[i] /\ i \in Int
      /\ Len(r) \in 1..Len(r)
      /\ \A i \in 1..Len(r) : i = Len(r) \/ i \in 1..Len(s)
  BY DEF AtEnd
<1>3. \A a, b : Before(s, a, b) => Before(r, a, b)
  BY <1>2 DEF Before
<1>4. \A a : On(s, a) => Before(r, a, o)
  BY <1>2 DEF Before, On
<1>5. ASSUME NEW a, NEW b, Before(r, a, b), b # o PROVE Before(s, a, b)
  <2>1. PICK i, j \in 1..Len(r) : i < j /\ r[i] = a /\ r[j] = b
    BY <1>5 DEF Before
  <2>2. j \in 1..Len(s)
    BY <1>2, <1>5, <2>1
  <2>3. i \in 1..Len(s)
    BY <1>2, <2>1, <2>2
  <2> QED
    BY <1>2, <2>1, <2>2, <2>3 DEF Before
<1>6. \A a : Before(r, a, o) => On(s, a)
  BY <1>1, LinearOrder
<1>7. \A a, b : Before(r, a, b) <=> Before(s, a, b) \/ (On(s, a) /\ b = o)
  BY <1>3, <1>4, <1>5, <1>6
<1>8. Nxt(r, o) = Nil
  <2>1. \A c : ~Before(r, o, c)
    BY <1>7, LinearOrder
  <2> QED
    BY <1>1, <2>1, NxtFacts
<1>9. ASSUME NEW a, On(s, a)
      PROVE  Nxt(r, a) = IF Nxt(s, a) = Nil THEN o ELSE Nxt(s, a)
  <2>1. /\ Nxt(s, a) = Nil => \A c : ~Before(s, a, c)
        /\ Nxt(s, a) # Nil =>
              /\ Before(s, a, Nxt(s, a))
              /\ \A c : Before(s, a, c) => c = Nxt(s, a) \/ Before(s, Nxt(s, a), c)
    BY <1>9, NxtFacts
  <2>2. On(r, a)
    BY <1>1, <1>9
  <2>3. /\ Nxt(r, a) = Nil => \A c : ~Before(r, a, c)
        /\ Nxt(r, a) # Nil =>
              /\ Before(r, a, Nxt(r, a))
              /\ \A c : Before(r, a, c) => c = Nxt(r, a) \/ Before(r, Nxt(r, a), c)
    BY <1>1, <2>2, NxtFacts
  <2>4. Before(r, a, o)
    BY <1>4, <1>9
  <2>5. Nxt(r, a) # Nil /\ Before(r, a, Nxt(r, a))
    BY <2>3, <2>4
  <2>6. CASE Nxt(s, a) = Nil
    BY <1>7, <2>1, <2>5, <2>6
  <2>7. CASE Nxt(s, a) # Nil
    <3>1. Before(r, a, Nxt(s, a)) /\ On(s, Nxt(s, a))
      BY <1>3, <2>1, <2>7, LinearOrder
    <3>2. Nxt(s, a) = Nxt(r, a) \/ Before(r, Nxt(r, a), Nxt(s, a))
      BY <2>3, <2>5, <3>1
    <3>3. Nxt(r, a) = Nxt(s, a) \/ Before(r, Nxt(s, a), Nxt(r, a))
      <4>1. CASE Nxt(r, a) = o
        BY <1>4, <3>1, <4>1
      <4>2. CASE Nxt(r, a) # o
        BY <1>3, <1>5, <2>1, <2>5, <2>7, <4>2
      <4> QED
        BY <4>1, <4>2
    <3> QED
      BY <1>1, <2>7, <3>2, <3>3, LinearOrder
  <2> QED
    BY <2>6, <2>7
<1> QED
  BY <1>1, <1>7, <1>8, <1>9

---------------------------------------------------------------------------
(* The invariant.  Raised(d) is what the device has signalled and the      *)
(* routine has not dealt with, Unfinished(d) says that the buffer in the   *)
(* register exeId is one that the device has not run to its end.           *)
Active(d) == IF isr[d].at \in {"read", "walk", "curr"} THEN isr[d].src ELSE {}
Raised(d) == irq[d] \cup Active(d)
Stops == {"end", "cmderr", "buserr"}
Unfinished(d) == hw[d] = "run" \/ Raised(d) \cap Err # {}
RanOrDone(o) == o \in ran \/ runDone[o]

(* Nobody aborts a device when nobody drops.                               *)
NoAborts == \A d \in Devs : ~abortReq[d] /\ "abort" \notin Raised(d)
FreshJmp == \A o \in Objs : coreId[o] = Nil => jmpNext[o] = Nil

PowerOk(d) ==
  /\ state[d] # "working" =>
       hw[d] = "off" /\ irq[d] = {} /\ isr[d].at \in {"out", "start"}
  /\ isr[d].at = "start" => state[d] # "working"
  /\ isr[d].at \in {"read", "walk", "curr"} => isr[d].src # {}
  /\ Raised(d) \cap Stops # {} => hw[d] = "off"
  /\ Active(d) \cap Stops # {} => irq[d] = {}
  /\ busErr[d] => state[d] # "power_on"

(* The JMP commands link the buffers as the list does.                     *)
ChainOk(d) ==
  \A o \in Objs : On(workList[d], o) /\ hasJmp[o] => jmpNext[o] = Nxt(workList[d], o)

DonePrefix(d) ==
  \A a, b \in Objs : Before(workList[d], a, b) /\ runDone[b] => runDone[a]

(* The buffer the device is in: nothing from there on is done, all before  *)
(* it has run.                                                             *)
RunOk(d) ==
  Unfinished(d) =>
    /\ On(workList[d], exeId[d]) /\ ~runDone[exeId[d]]
    /\ \A o \in Objs : Before(workList[d], exeId[d], o) => ~runDone[o]
BehindOk(d) ==
  Unfinished(d) \/ hw[d] = "stall" =>
    \A o \in Objs : Before(workList[d], o, exeId[d]) => RanOrDone(o)

(* A device that stalls at a JMP without a target is in the last buffer of *)
(* the list.  If the JMP has one by now, the target is the last, whoever   *)
(* linked it is about to ring, and the buffer the device is in may be off  *)
(* the list already.                                                       *)
AtJmp(d, x) == x \in ran /\ hasJmp[x] /\ coreId[x] = d
LastOn(d, o) == On(workList[d], o) /\ \A b \in Objs : ~Before(workList[d], o, b)
RingPending(d, x, n) ==
  /\ LastOn(d, n) /\ ~runDone[n]
  /\ \E t \in Threads : pc[t] = "linkKick" /\ job[t] = n
  /\ \/ On(workList[d], x)
     \/ runDone[x] /\ \A o \in Objs : Before(workList[d], o, n) => runDone[o]
StallOk(d) ==
  hw[d] = "stall" =>
    /\ AtJmp(d, exeId[d])
    /\ IF jmpNext[exeId[d]] = Nil THEN LastOn(d, exeId[d])
       ELSE RingPending(d, exeId[d], jmpNext[exeId[d]])

(* What the device has reported: it is done, or it and all before it have  *)
(* run, and the device is in it or has gone on.                            *)
Reached(d, x) ==
  \/ runDone[x]
  \/ /\ On(workList[d], x) /\ x \in ran
     /\ \A o \in Objs : Before(workList[d], o, x) => RanOrDone(o)
     /\ Unfinished(d) => Before(workList[d], x, exeId[d])
     /\ hw[d] = "stall" => x = exeId[d] \/ Before(workList[d], x, exeId[d])
ToRead(d) == irq[d] \cup IF isr[d].at = "read" THEN isr[d].src ELSE {}
MemOk(d) ==
  ToRead(d) \cap {"jmp", "end"} # {} =>
    memId[d] \in Objs /\ coreId[memId[d]] = d /\ Reached(d, memId[d])

(* A free cmdbuf is reserved while a device still uses it: it stalls at    *)
(* the JMP of a buffer that is off its list, or what it has written to     *)
(* memory is not read yet.                                                 *)
UsedByHw(d, o) ==
  \/ hw[d] # "off" /\ o = exeId[d]
  \/ ToRead(d) \cap {"jmp", "end"} # {} /\ o = memId[d]
ReservedInHw ==
  \E o \in Objs, d \in Devs :
    o \in avail /\ o \notin avail' /\ UsedByHw(d, o)

EngineRace == ListRace \/ ReservedInHw

(* The current buffer of the interrupt routine, and its walk.              *)
CurrOk(d) ==
  /\ isr[d].at \in {"walk", "curr"} =>
       IF isr[d].src \cap Err # {} THEN isr[d].curr = exeId[d]
       ELSE Reached(d, isr[d].curr)
  /\ isr[d].at = "walk" => ~runDone[isr[d].curr]
  /\ isr[d].at = "curr" =>
       \/ runDone[isr[d].curr]
       \/ \A o \in Objs : Before(workList[d], o, isr[d].curr) => runDone[o]
NextToReport(d, n) ==
  /\ n # Nil /\ On(workList[d], n)
  /\ \A o \in Objs : Before(workList[d], o, n) => runDone[o]
  /\ n = isr[d].curr \/ Before(workList[d], n, isr[d].curr)
WalkOk(d) == isr[d].at = "walk" => NextToReport(d, WalkNext(d))

ToRun(d) == \E o \in Objs : On(workList[d], o) /\ ~runDone[o]
Kicks(t, d) == pc[t] = "linkKick" /\ coreId[job[t]] = d
StartOk(d) ==
  state[d] # "working" /\ ToRun(d) =>
    busErr[d] \/ isr[d].at = "start" \/ \E t \in Threads : Kicks(t, d)

DevOk(d) ==
  /\ PowerOk(d) /\ ChainOk(d) /\ DonePrefix(d) /\ RunOk(d) /\ BehindOk(d)
  /\ StallOk(d) /\ MemOk(d) /\ CurrOk(d) /\ WalkOk(d) /\ StartOk(d)

HwInv == NoAborts /\ FreshJmp /\ DoneIsTrue /\ \A d \in Devs : DevOk(d)

---------------------------------------------------------------------------
(* The list of a device, in one place.                                     *)
LEMMA TheList ==
  ASSUME TypeOK, ListInv, NEW d \in Devs
  PROVE  /\ workList[d] \in Seq(Objs) /\ Distinct(workList[d])
         /\ \A o \in Objs : On(workList[d], o) <=> linked[o] /\ coreId[o] = d
         /\ \A o \in Objs : coreId[o] = d /\ ~runDone[o] => On(workList[d], o)
<1>1. workList[d] \in Seq(Objs) /\ d # Nil
  BY DEF TypeOK, DevTypes
<1> QED
  BY <1>1 DEF ListInv, ListsExact, LifeSound, LifeOk

(* The cmdbufs a device has to do with, all of them linked to it once.     *)
Concerns(d, o) == On(workList[d], o) \/ UsedByIsr(d, o) \/ UsedByHw(d, o)

LEMMA ConcernsCore ==
  ASSUME TypeOK, ListInv, NEW d \in Devs, DevOk(d), NEW o \in Objs, Concerns(d, o)
  PROVE  coreId[o] = d
<1>1. CASE On(workList[d], o)
  BY <1>1, TheList
<1>2. CASE UsedByIsr(d, o)
  <2>1. IsrOk(d)
    BY DEF ListInv, IsrSound
  <2>2. o # Nil
    BY NilAssumption
  <2> QED
    BY <1>2, <2>1, <2>2 DEF UsedByIsr, IsrOk
<1>3. CASE hw[d] # "off" /\ o = exeId[d]
  <2>1. CASE hw[d] = "stall"
    BY <1>3, <2>1 DEF DevOk, StallOk, AtJmp
  <2>2. CASE hw[d] = "run"
    <3>1. On(workList[d], o)
      BY <1>3, <2>2 DEF DevOk, RunOk, Unfinished
    <3> QED
      BY <3>1, TheList
  <2> QED
    BY <1>3, <2>1, <2>2 DEF TypeOK, HwTypes
<1>4. CASE ToRead(d) \cap {"jmp", "end"} # {} /\ o = memId[d]
  BY <1>4 DEF DevOk, MemOk
<1> QED
  BY <1>1, <1>2, <1>3, <1>4 DEF Concerns, UsedByHw

(* A step that concerns neither the device nor one of these cmdbufs.       *)
SameBuf(o) ==
  /\ runDone'[o] = runDone[o] /\ (o \in ran' <=> o \in ran)
  /\ hasJmp'[o] = hasJmp[o] /\ jmpNext'[o] = jmpNext[o]
  /\ coreId'[o] = coreId[o] /\ stale'[o] = stale[o]
Elsewhere(d) ==
  /\ workList'[d] = workList[d] /\ hw'[d] = hw[d] /\ exeId'[d] = exeId[d]
  /\ memId'[d] = memId[d] /\ irq'[d] = irq[d] /\ isr'[d] = isr[d]
  /\ state'[d] = state[d] /\ busErr'[d] = busErr[d]
  /\ \A o \in Objs : Concerns(d, o) => SameBuf(o)
  /\ \A t \in Threads : Kicks(t, d) => pc'[t] = pc[t] /\ job'[t] = job[t]
                                       /\ coreId'[job[t]] = d

LEMMA ElsewhereKeeps ==
  ASSUME TypeOK, ListInv, NEW d \in Devs, DevOk(d), Elsewhere(d)
  PROVE  DevOk(d)'
<1> DEFINE w == workList[d]
<1>1. /\ w \in Seq(Objs) /\ Distinct(w)
      /\ \A o \in Objs : On(w, o) <=> linked[o] /\ coreId[o] = d
      /\ \A o \in Objs : coreId[o] = d /\ ~runDone[o] => On(w, o)
  BY TheList
<1>2. /\ \A a : On(w, a) => a \in Objs
      /\ \A a, b : Before(w, a, b) => On(w, a) /\ On(w, b)
  BY <1>1, LinearOrder
<1>3. workList'[d] = w
  BY DEF Elsewhere
<1>4. /\ hw'[d] = hw[d] /\ exeId'[d] = exeId[d]
      /\ memId'[d] = memId[d] /\ irq'[d] = irq[d] /\ isr'[d] = isr[d]
      /\ state'[d] = state[d] /\ busErr'[d] = busErr[d]
  BY DEF Elsewhere
<1>5. \A o \in Objs : On(w, o) \/ UsedByIsr(d, o) \/ UsedByHw(d, o) =>
       /\ runDone'[o] = runDone[o] /\ (RanOrDone(o)' <=> RanOrDone(o))
       /\ (o \in ran' <=> o \in ran)
       /\ hasJmp'[o] = hasJmp[o] /\ jmpNext'[o] = jmpNext[o]
       /\ coreId'[o] = coreId[o] /\ stale'[o] = stale[o]
  BY DEF Elsewhere, RanOrDone, SameBuf, Concerns
<1>6. Active(d)' = Active(d) /\ Raised(d)' = Raised(d) /\ ToRead(d)' = ToRead(d)
      /\ (Unfinished(d)' <=> Unfinished(d))
  BY <1>4 DEF Active, Raised, ToRead, Unfinished
<1>0. \A o \in Objs : On(w, o) \/ UsedByIsr(d, o) \/ UsedByHw(d, o) => coreId[o] = d
  BY ConcernsCore DEF Concerns
<1> HIDE DEF w
<1>7. PowerOk(d)'
  BY <1>4, <1>6 DEF DevOk, PowerOk
<1>8. ChainOk(d)' /\ DonePrefix(d)'
  BY <1>2, <1>3, <1>5 DEF DevOk, ChainOk, DonePrefix, w
<1>9. RunOk(d)' /\ BehindOk(d)'
  BY <1>2, <1>3, <1>4, <1>5, <1>6 DEF DevOk, RunOk, BehindOk, w
<1>10. StallOk(d)'
  <2> SUFFICES ASSUME hw[d] = "stall" PROVE StallOk(d)'
    BY <1>4 DEF StallOk
  <2>0. PICK x \in Objs : x = exeId[d]
    BY DEF TypeOK, HwTypes, ObjOrNil
  <2>00. PICK n \in ObjOrNil : n = jmpNext[x]
    BY DEF TypeOK, ObjTypes
  <2>1. UsedByHw(d, x)
    BY <2>0 DEF UsedByHw
  <2>2. jmpNext'[x] = n /\ exeId'[d] = x /\ (AtJmp(d, x)' <=> AtJmp(d, x))
    BY <1>4, <1>5, <2>0, <2>00, <2>1 DEF AtJmp
  <2>3. ASSUME NEW o PROVE LastOn(d, o)' <=> LastOn(d, o)
    BY <1>3 DEF LastOn, w
  <2>4. ASSUME RingPending(d, x, n) PROVE RingPending(d, x, n)'
    <3>1. On(w, n) /\ n \in Objs /\ coreId[n] = d
      BY <1>0, <1>2, <2>4 DEF RingPending, LastOn, w
    <3>2. LastOn(d, n)' /\ ~runDone'[n]
      BY <1>5, <2>3, <2>4, <3>1 DEF RingPending
    <3>3. PICK t \in Threads : pc[t] = "linkKick" /\ job[t] = n
      BY <2>4 DEF RingPending
    <3>4. pc'[t] = "linkKick" /\ job'[t] = n
      BY <3>1, <3>3 DEF Elsewhere, Kicks
    <3>5. On(w, x) \/ (runDone'[x] /\ \A o \in Objs : Before(w, o, n) => runDone'[o])
      BY <1>2, <1>5, <2>1, <2>4 DEF RingPending, w
    <3> QED
      BY <1>3, <3>2, <3>4, <3>5 DEF RingPending
  <2>5. AtJmp(d, x) /\ IF n = Nil THEN LastOn(d, x) ELSE RingPending(d, x, n)
    BY <2>0, <2>00 DEF DevOk, StallOk
  <2>6. AtJmp(d, x)' /\ IF n = Nil THEN LastOn(d, x)' ELSE RingPending(d, x, n)'
    BY <2>2, <2>3, <2>4, <2>5
  <2> QED
    BY <2>2, <2>6 DEF StallOk, AtJmp, LastOn, RingPending
<1>11. ASSUME NEW x \in Objs, Reached(d, x), Concerns(d, x) PROVE Reached(d, x)'
  BY <1>2, <1>3, <1>4, <1>5, <1>6, <1>11 DEF Reached, Concerns, w
<1>12. MemOk(d)'
  <2> SUFFICES ASSUME ToRead(d) \cap {"jmp", "end"} # {} PROVE MemOk(d)'
    BY <1>6 DEF MemOk
  <2>1. PICK m \in Objs : m = memId[d] /\ coreId[m] = d /\ Reached(d, m)
    BY DEF DevOk, MemOk
  <2>2. UsedByHw(d, m) /\ Concerns(d, m)
    BY <2>1 DEF UsedByHw, Concerns
  <2>3. Reached(d, m)' /\ coreId'[m] = d /\ memId'[d] = m
    BY <1>4, <1>5, <1>11, <2>1, <2>2
  <2> QED
    BY <2>3 DEF MemOk, Reached
<1>13. CurrOk(d)'
  <2> SUFFICES ASSUME isr[d].at \in {"walk", "curr"} PROVE CurrOk(d)'
    BY <1>4 DEF CurrOk
  <2>1. PICK c \in Objs : c = isr[d].curr
    BY DEF TypeOK, DevTypes, IsrRecord, ObjOrNil
  <2>2. UsedByIsr(d, c) /\ Concerns(d, c)
    BY <2>1 DEF UsedByIsr, Concerns
  <2>3. runDone'[c] = runDone[c] /\ isr'[d].curr = c
    BY <1>4, <1>5, <2>1, <2>2
  <2>4. \A o \in Objs : Before(w, o, c) /\ runDone[o] => runDone'[o]
    BY <1>2, <1>5
  <2>5. Reached(d, c) => Reached(d, c)'
    BY <1>11, <2>2
  <2>6. IF isr[d].src \cap Err # {} THEN c = exeId[d] ELSE Reached(d, c)'
    BY <2>1, <2>5 DEF DevOk, CurrOk
  <2>7. IF isr'[d].src \cap Err # {} THEN c = exeId'[d] ELSE Reached(d, c)'
    BY <1>4, <2>6
  <2>8. isr[d].at = "walk" => ~runDone'[c]
    BY <2>1, <2>3 DEF DevOk, CurrOk
  <2>9. isr[d].at = "curr" =>
          runDone'[c] \/ \A o \in Objs : Before(w, o, c) => runDone'[o]
    BY <2>1, <2>3, <2>4 DEF DevOk, CurrOk, w
  <2> QED
    BY <1>3, <1>4, <2>3, <2>7, <2>8, <2>9 DEF CurrOk, Reached
<1>14. WalkOk(d)'
  <2>1. ASSUME isr[d].at = "walk" PROVE WalkNext(d)' = WalkNext(d)
    <3>1. isr[d].node = Nil \/ (isr[d].node \in Objs /\ UsedByIsr(d, isr[d].node))
      BY <2>1 DEF TypeOK, DevTypes, IsrRecord, ObjOrNil, UsedByIsr
    <3> QED
      BY <1>3, <1>4, <1>5, <3>1 DEF WalkNext, NextOf, w
  <2>2. ASSUME NEW n, NextToReport(d, n) PROVE NextToReport(d, n)'
    BY <1>2, <1>3, <1>4, <1>5, <2>2 DEF NextToReport, w
  <2> QED
    BY <1>4, <2>1, <2>2 DEF DevOk, WalkOk
<1>15. StartOk(d)'
  <2>1. ToRun(d)' => ToRun(d)
    BY <1>3, <1>5 DEF ToRun, w
  <2>2. \A t \in Threads : Kicks(t, d) => Kicks(t, d)'
    BY DEF Elsewhere, Kicks
  <2> QED
    BY <1>4, <2>1, <2>2 DEF DevOk, StartOk
<1> QED
  BY <1>7, <1>8, <1>9, <1>10, <1>12, <1>13, <1>14, <1>15 DEF DevOk

---------------------------------------------------------------------------
(* Steps of a thread that change no list and tell no device.               *)
LEMMA PlainKeeps ==
  ASSUME TypeOK, ListInv, HwInv, NEW t \in Threads, pc[t] # "linkKick",
         UNCHANGED <<workList, hw, exeId, memId, irq, abortReq, isr, state, busErr>>,
         \A d \in Devs, o \in Objs : Concerns(d, o) => SameBuf(o),
         \A u \in Threads \ {t} : pc'[u] = pc[u] /\ job'[u] = job[u],
         \A u \in Threads : pc[u] = "linkKick" => coreId'[job[u]] = coreId[job[u]],
         \A o \in Objs : coreId'[o] = Nil => jmpNext'[o] = Nil,
         \A o \in Objs : runDone'[o] /\ exeStatus'[o] = "ok" => o \in ran'
  PROVE  HwInv'
<1>1. NoAborts'
  BY DEF HwInv, NoAborts, Raised, Active
<1>2. FreshJmp' /\ DoneIsTrue'
  BY DEF FreshJmp, DoneIsTrue
<1>3. ASSUME NEW d \in Devs PROVE DevOk(d)'
  <2>1. Elsewhere(d)
    BY DEF Elsewhere, Kicks
  <2> QED
    BY <2>1, ElsewhereKeeps DEF HwInv
<1> QED
  BY <1>1, <1>2, <1>3 DEF HwInv

LEMMA NothingKept ==
  ASSUME TypeOK, ListInv, HwInv,
         UNCHANGED <<workList, hw, exeId, memId, irq, abortReq, isr, state, busErr, runDone,
                     exeStatus, coreId, hasJmp, jmpNext, stale, ran>>,
         \A t \in Threads : pc[t] = "linkKick" => pc'[t] = pc[t] /\ job'[t] = job[t]
  PROVE  HwInv'
<1>1. NoAborts' /\ FreshJmp' /\ DoneIsTrue'
  BY DEF HwInv, NoAborts, Raised, Active, FreshJmp, DoneIsTrue
<1>2. ASSUME NEW d \in Devs PROVE DevOk(d)'
  <2>1. Elsewhere(d)
    BY DEF Elsewhere, Kicks, SameBuf
  <2> QED
    BY <2>1, ElsewhereKeeps DEF HwInv
<1> QED
  BY <1>1, <1>2 DEF HwInv

LEMMA PlainStepsHw ==
  ASSUME TypeOK, ListInv, HwInv, NEW t \in Threads,
         \/ \E w \in Workloads : ReserveCharge(t, w)
         \/ ReserveWait(t) \/ ReserveInterrupted(t) \/ LinkSem(t) \/ LinkInterrupted(t)
         \/ WaitAny(t) \/ WaitSleep(t) \/ WaitNothing(t) \/ WaitInterrupted(t)
         \/ \E o \in Objs : WaitJob(t, o) \/ WaitGot(t, o) \/ ReleaseCall(t, o)
         \/ ReleaseAccount(t)
  PROVE  HwInv'
<1> USE DEF objVars, procVars, devVars, hwVars
<1>1. UNCHANGED <<workList, hw, exeId, memId, irq, abortReq, isr, state, busErr, runDone,
                  exeStatus, coreId, hasJmp, jmpNext, stale, ran>>
  BY DEF ReserveCharge, ReserveWait, ReserveInterrupted, LinkSem, LinkInterrupted,
     WaitAny, WaitSleep, WaitNothing, WaitInterrupted, WaitJob, WaitGot, ReleaseCall,
     ReleaseAccount
<1>2. pc[t] # "linkKick"
  BY DEF ReserveCharge, ReserveWait, ReserveInterrupted, LinkSem, LinkInterrupted,
     WaitAny, WaitSleep, WaitNothing, WaitInterrupted, WaitJob, WaitGot, ReleaseCall,
     ReleaseAccount, Enters, MayCall
<1>3. \A u \in Threads \ {t} : pc'[u] = pc[u] /\ job'[u] = job[u]
  <2>0. pc \in [Threads -> Locs] /\ job \in [Threads -> ObjOrNil]
    BY DEF TypeOK, ThreadTypes
  <2> QED
    BY <2>0 DEF ReserveCharge, ReserveWait, ReserveInterrupted, LinkSem, LinkInterrupted,
       WaitAny, WaitSleep, WaitNothing, WaitInterrupted, WaitJob, WaitGot, ReleaseCall,
       ReleaseAccount
<1> QED
  BY <1>1, <1>2, <1>3, NothingKept

LEMMA LinkCallHw ==
  ASSUME TypeOK, ListInv, HwInv, NEW t \in Threads, NEW o \in Objs, LinkCall(t, o)
  PROVE  HwInv'
<1> USE DEF objVars, procVars, devVars, hwVars
<1>1. /\ UNCHANGED <<workList, hw, exeId, memId, irq, abortReq, isr, state, busErr,
                     runDone, exeStatus, coreId, jmpNext, stale, ran>>
      /\ pc[t] = "user"
  BY DEF LinkCall, Enters, MayCall
<1>2. \A u \in Threads \ {t} : pc'[u] = pc[u] /\ job'[u] = job[u]
  BY DEF LinkCall, TypeOK, ThreadTypes
<1>3. coreId[o] = Nil /\ \A x \in Objs \ {o} : hasJmp'[x] = hasJmp[x]
  BY DEF LinkCall, ListInv, LifeSound, LifeOk, TypeOK, ObjTypes
<1>4. FreshJmp /\ DoneIsTrue
  BY DEF HwInv
<1>5. ASSUME NEW d \in Devs, NEW x \in Objs, Concerns(d, x) PROVE SameBuf(x)
  <2>1. coreId[x] = d
    BY <1>5, ConcernsCore DEF HwInv
  <2>2. x # o
    BY <1>3, <2>1, NilAssumption
  <2> QED
    BY <1>1, <1>3, <2>2 DEF SameBuf
<1> QED
  BY <1>1, <1>2, <1>4, <1>5, PlainKeeps DEF FreshJmp, DoneIsTrue

LEMMA ReserveTakeHw ==
  ASSUME TypeOK, ListInv, HwInv, ~EngineRace, NEW t \in Threads, ReserveTake(t)
  PROVE  HwInv'
<1> PICK o \in avail :
       /\ avail' = avail \ {o}
       /\ runDone' = [runDone EXCEPT ![o] = FALSE]
       /\ exeStatus' = [exeStatus EXCEPT ![o] = "ok"]
       /\ coreId' = [coreId EXCEPT ![o] = Nil]
       /\ hasJmp' = [hasJmp EXCEPT ![o] = TRUE]
       /\ jmpNext' = [jmpNext EXCEPT ![o] = Nil]
       /\ stale' = [stale EXCEPT ![o] = NoPtrs]
       /\ ran' = ran \ {o}
  BY DEF ReserveTake
<1>1. /\ UNCHANGED <<workList, hw, exeId, memId, irq, abortReq, isr, state, busErr>>
      /\ pc[t] = "resTake" /\ UNCHANGED job
      /\ o \in Objs /\ ~linked[o]
  BY DEF ReserveTake, devVars, ListInv, PoolSound, PoolOk, TypeOK, PoolTypes
<1>2. \A u \in Threads \ {t} : pc'[u] = pc[u]
  BY DEF ReserveTake, TypeOK, ThreadTypes
<1>3. \A x \in Objs \ {o} :
        /\ runDone'[x] = runDone[x] /\ exeStatus'[x] = exeStatus[x]
        /\ coreId'[x] = coreId[x] /\ hasJmp'[x] = hasJmp[x]
        /\ jmpNext'[x] = jmpNext[x] /\ stale'[x] = stale[x]
        /\ (x \in ran' <=> x \in ran)
  BY DEF TypeOK, ObjTypes
<1>4. ~runDone'[o] /\ jmpNext'[o] = Nil
  BY <1>1 DEF TypeOK, ObjTypes
<1>5. ASSUME NEW u \in Threads, pc[u] = "linkKick" PROVE coreId'[job[u]] = coreId[job[u]]
  <2>1. job[u] \in Objs
    BY <1>5 DEF TypeOK, ThreadTypes, UsesJob, LinkPcs, ObjOrNil
  <2>2. job[u] \notin avail
    BY <1>5 DEF ListInv, CallsSound, CallOk, LinkerOk, Listed
  <2> QED
    BY <1>3, <2>1, <2>2
<1>6. FreshJmp /\ DoneIsTrue
  BY DEF HwInv
<1>7. \A x \in Objs : coreId'[x] = Nil => jmpNext'[x] = Nil
  BY <1>3, <1>4, <1>6 DEF FreshJmp
<1>8. \A x \in Objs : runDone'[x] /\ exeStatus'[x] = "ok" => x \in ran'
  BY <1>3, <1>4, <1>6 DEF DoneIsTrue
<1>9. ASSUME NEW d \in Devs, NEW x \in Objs, Concerns(d, x) PROVE SameBuf(x)
  <2>1. ~UsedByIsr(d, o) /\ ~UsedByHw(d, o)
    BY <1>1 DEF EngineRace, ListRace, ReservedInUse, ReservedInHw
  <2>2. ~On(workList[d], o)
    BY <1>1, TheList
  <2>3. x # o
    BY <1>9, <2>1, <2>2 DEF Concerns
  <2> QED
    BY <1>3, <2>3 DEF SameBuf
<1> QED
  BY <1>1, <1>2, <1>5, <1>7, <1>8, <1>9, PlainKeeps

---------------------------------------------------------------------------
(* Starting a device, from whatever place in the code.                     *)
OutOfDev(d) == irq[d] = {} /\ isr[d].at = "out"

LEMMA StartKeeps ==
  ASSUME TypeOK, ListInv, NEW d \in Devs, DevOk(d), ~abortReq[d],
         state[d] # "working", StartDev(d), OutOfDev(d)',
         UNCHANGED <<workList, runDone, ran, hasJmp, jmpNext>>,
         busErr'[d] => busErr[d]
  PROVE  /\ DevOk(d)' /\ ~abortReq'[d]
         /\ \A e \in Devs \ {d} : /\ state'[e] = state[e] /\ hw'[e] = hw[e]
                                  /\ exeId'[e] = exeId[e] /\ abortReq'[e] = abortReq[e]
<1> DEFINE w == workList[d]
<1>0. w \in Seq(Objs) /\ Distinct(w) /\ Len(w) \in Nat
  BY TheList
<1>1. /\ \A a : On(w, a) => a \in Objs
      /\ \A a, b : Before(w, a, b) => On(w, a) /\ On(w, b)
  BY <1>0, LinearOrder
<1>2. hw[d] = "off"
  BY DEF DevOk, PowerOk
<1>3. irq'[d] = {} /\ isr'[d].at = "out"
  BY DEF OutOfDev
<1>4. Raised(d)' = {} /\ Active(d)' = {} /\ ToRead(d)' = {}
  BY <1>3 DEF Raised, Active, ToRead
<1>5. ChainOk(d)' /\ DonePrefix(d)' /\ MemOk(d)' /\ CurrOk(d)' /\ WalkOk(d)'
  BY <1>3, <1>4 DEF DevOk, ChainOk, DonePrefix, MemOk, CurrOk, WalkOk
<1>6. CASE Pending(d) = {}
  <2>1. UNCHANGED <<state, hw, exeId, abortReq>>
    BY <1>6 DEF StartDev
  <2>2. ~ToRun(d)'
    BY <1>6 DEF ToRun, Pending, On
  <2>3. PowerOk(d)' /\ RunOk(d)' /\ BehindOk(d)' /\ StallOk(d)' /\ StartOk(d)'
    BY <1>2, <1>3, <1>4, <2>1, <2>2
       DEF DevOk, PowerOk, RunOk, BehindOk, StallOk, StartOk, Unfinished
  <2> QED
    BY <1>5, <2>1, <2>3 DEF DevOk
<1>7. CASE Pending(d) # {}
  <2>1. PICK first \in Pending(d) :
         /\ \A j \in Pending(d) : first <= j
         /\ state' = [state EXCEPT ![d] = "working"]
         /\ hw' = [hw EXCEPT ![d] = "run"]
         /\ exeId' = [exeId EXCEPT ![d] = workList[d][first]]
         /\ abortReq' = [abortReq EXCEPT ![d] = FALSE]
    BY <1>7 DEF StartDev
  <2> DEFINE x == w[first]
  <2>2. first \in 1..Len(w) /\ ~runDone[x]
    BY DEF Pending
  <2>3. On(w, x) /\ x \in Objs
    BY <1>0, <2>2 DEF On
  <2>4. ASSUME NEW o \in Objs, Before(w, o, x) PROVE runDone[o]
    <3>1. PICK i, j \in 1..Len(w) : i < j /\ w[i] = o /\ w[j] = x
      BY <2>4 DEF Before
    <3>2. j = first
      BY <1>0, <2>2, <3>1 DEF Distinct
    <3>3. ~(first <= i)
      BY <2>2, <3>1, <3>2
    <3>4. i \notin Pending(d)
      BY <2>1, <3>3
    <3> QED
      BY <3>1, <3>4 DEF Pending
  <2>5. \A o \in Objs : Before(w, x, o) => ~runDone[o]
    BY <2>2, <2>3 DEF DevOk, DonePrefix
  <2>6. /\ state'[d] = "working" /\ hw'[d] = "run" /\ exeId'[d] = x /\ ~abortReq'[d]
        /\ \A e \in Devs \ {d} : /\ state'[e] = state[e] /\ hw'[e] = hw[e]
                                 /\ exeId'[e] = exeId[e] /\ abortReq'[e] = abortReq[e]
    BY <2>1 DEF TypeOK, DevTypes, HwTypes
  <2> HIDE DEF x
  <2>7. RunOk(d)' /\ BehindOk(d)'
    BY <2>2, <2>3, <2>4, <2>5, <2>6 DEF RunOk, BehindOk, RanOrDone, x
  <2>8. PowerOk(d)' /\ StallOk(d)' /\ StartOk(d)'
    BY <1>3, <1>4, <2>6 DEF PowerOk, StallOk, StartOk
  <2> QED
    BY <1>5, <2>6, <2>7, <2>8 DEF DevOk
<1> QED
  BY <1>6, <1>7

---------------------------------------------------------------------------
(* A cmdbuf leaves its list, and the JMP of the one before it skips it.    *)
Loses(d, o) ==
  /\ workList'[d] \in Seq(Objs) /\ Distinct(workList'[d])
  /\ \A a : On(workList'[d], a) <=> On(workList[d], a) /\ a # o
  /\ \A a, b : Before(workList'[d], a, b) <=> Before(workList[d], a, b) /\ a # o /\ b # o

LEMMA ChainUnlinked ==
  ASSUME TypeOK, ListInv, NEW d \in Devs, NEW o \in Objs, On(workList[d], o), ChainOk(d),
         Unlink(d, o), UNCHANGED hasJmp
  PROVE  /\ ChainOk(d)' /\ Loses(d, o)
         /\ NextOf(d, o) = Nxt(workList[d], o) /\ stale'[o].next = Nxt(workList[d], o)
         /\ ~On(workList'[d], o)
         /\ \A x \in Objs : coreId[x] # d => jmpNext'[x] = jmpNext[x] /\ stale'[x] = stale[x]
         /\ \A x \in Objs : jmpNext'[x] # jmpNext[x] =>
              On(workList[d], x) /\ Nxt(workList[d], x) = o
         /\ \A e \in Devs \ {d} : workList'[e] = workList[e]
<1> DEFINE w == workList[d]
           r == Without(w, o)
           p == Prv(w, o)
           n == Nxt(w, o)
<1>1. /\ w \in Seq(Objs) /\ Distinct(w)
      /\ \A x \in Objs : On(w, x) <=> linked[x] /\ coreId[x] = d
  BY TheList
<1>2. NextOf(d, o) = n /\ PrevOf(d, o) = p
  BY DEF NextOf, PrevOf, Nxt, Prv
<1>3. /\ jmpNext' = Relink(p, n)
      /\ stale' = [stale EXCEPT ![o] = [next |-> n, prev |-> p]]
      /\ workList' = [workList EXCEPT ![d] = r]
  BY <1>2 DEF Unlink
<1>4. /\ workList'[d] = r /\ \A e \in Devs \ {d} : workList'[e] = workList[e]
  BY <1>3 DEF TypeOK, DevTypes
<1>5. /\ r \in Seq(Objs) /\ Distinct(r)
      /\ \A a : On(r, a) <=> On(w, a) /\ a # o
      /\ \A a, b : Before(r, a, b) <=> Before(w, a, b) /\ a # o /\ b # o
      /\ \A a : On(w, a) /\ a # o =>
              Nxt(r, a) = IF Nxt(w, a) = o THEN n ELSE Nxt(w, a)
  BY <1>1, WithoutOrder
<1>6. /\ p \in Objs \cup {Nil}
      /\ p # Nil => On(w, p) /\ Nxt(w, p) = o
      /\ \A c : On(w, c) /\ Nxt(w, c) = o => c = p
  BY <1>1, PrvFacts
<1>7. stale'[o].next = n /\ \A x \in Objs \ {o} : stale'[x] = stale[x]
  BY <1>3 DEF TypeOK, ObjTypes
<1>8. n \in Objs \cup {Nil}
  BY <1>1, NxtFacts
<1> HIDE DEF r, p, n
<1>9. /\ \A x \in Objs \ {p} : jmpNext'[x] = jmpNext[x]
      /\ p # Nil /\ hasJmp[p] => jmpNext'[p] = n
  BY <1>3, <1>6 DEF Relink, TypeOK, ObjTypes
<1>10. p # Nil => p \in Objs /\ coreId[p] = d
  BY <1>1, <1>6
<1>11. ASSUME NEW a \in Objs, On(r, a), hasJmp[a] PROVE jmpNext'[a] = Nxt(r, a)
  <2>1. On(w, a) /\ a # o /\ jmpNext[a] = Nxt(w, a)
    BY <1>5, <1>11 DEF ChainOk, w
  <2>2. CASE a = p
    BY <1>5, <1>6, <1>9, <1>11, <2>1, <2>2
  <2>3. CASE a # p
    BY <1>5, <1>6, <1>9, <2>1, <2>3
  <2> QED
    BY <2>2, <2>3
<1>12. ChainOk(d)'
  BY <1>4, <1>11 DEF ChainOk
<1>13. Loses(d, o) /\ ~On(workList'[d], o)
  BY <1>4, <1>5 DEF Loses, w
<1>14. \A x \in Objs : coreId[x] # d => jmpNext'[x] = jmpNext[x] /\ stale'[x] = stale[x]
  BY <1>1, <1>7, <1>9, <1>10
<1>15. \A x \in Objs : jmpNext'[x] # jmpNext[x] => On(w, x) /\ Nxt(w, x) = o
  BY <1>6, <1>9
<1> QED
  BY <1>2, <1>4, <1>7, <1>12, <1>13, <1>14, <1>15 DEF n

(* A cmdbuf o is done, or leaves the list, or both, and it is not the one  *)
(* the device is in, unless that stalls, nor the one it stalls before.     *)
Settles(d, o) ==
  /\ workList'[d] = workList[d] \/ Loses(d, o)
  /\ \A x \in Objs \ {o} : runDone'[x] = runDone[x]
  /\ runDone'[o]
  /\ \A a \in Objs : Before(workList[d], a, o) => runDone[a]
  /\ UNCHANGED ran /\ hw'[d] = hw[d] /\ exeId'[d] = exeId[d] /\ memId'[d] = memId[d]
  /\ Unfinished(d)' => Unfinished(d)
  /\ Unfinished(d) => ~Before(workList[d], exeId[d], o) \/ runDone[o]
  /\ Unfinished(d) => o # exeId[d]
  /\ hw[d] = "stall" =>
       /\ jmpNext'[exeId[d]] = jmpNext[exeId[d]] /\ o # jmpNext[exeId[d]]
       /\ o = exeId[d] /\ jmpNext[exeId[d]] = Nil => workList'[d] = workList[d]
  /\ \A t \in Threads : pc[t] = "linkKick" => pc'[t] = pc[t] /\ job'[t] = job[t]

(* The done jobs stay in front when the first one that is not becomes one. *)
LEMMA PrefixGrows ==
  ASSUME NEW d \in Devs, NEW o \in Objs, DonePrefix(d),
         workList'[d] = workList[d] \/ Loses(d, o),
         \A x \in Objs \ {o} : runDone'[x] = runDone[x], runDone'[o],
         \A a \in Objs : Before(workList[d], a, o) => runDone[a]
  PROVE  DonePrefix(d)'
<1> SUFFICES ASSUME NEW a \in Objs, NEW b \in Objs, Before(workList'[d], a, b), runDone'[b]
             PROVE  runDone'[a]
  BY DEF DonePrefix
<1>1. Before(workList[d], a, b)
  BY DEF Loses
<1>2. runDone[a] \/ a = o
  BY <1>1 DEF DonePrefix
<1> QED
  BY <1>2

LEMMA SettlesKeeps ==
  ASSUME TypeOK, ListInv, NEW d \in Devs, NEW o \in Objs, DevOk(d), Settles(d, o),
         UNCHANGED <<hasJmp, coreId>>
  PROVE  /\ DonePrefix(d)' /\ RunOk(d)' /\ BehindOk(d)' /\ StallOk(d)'
         /\ \A x \in Objs : Reached(d, x) => Reached(d, x)'
         /\ ToRun(d)' => ToRun(d)
<1> DEFINE w == workList[d]
           v == workList'[d]
<1>1. /\ w \in Seq(Objs) /\ Distinct(w)
  BY TheList
<1>2. /\ \A a : On(w, a) => a \in Objs
      /\ \A a, b : Before(w, a, b) => On(w, a) /\ On(w, b) /\ a # b
  BY <1>1, LinearOrder
<1>3. /\ \A a, b : Before(v, a, b) => Before(w, a, b)
      /\ \A a : On(v, a) => On(w, a)
      /\ \A a : On(w, a) /\ a # o => On(v, a)
      /\ \A a, b : Before(w, a, b) /\ a # o /\ b # o => Before(v, a, b)
  BY DEF Settles, Loses
<1>4. /\ \A x \in Objs \ {o} : runDone'[x] = runDone[x]
      /\ runDone'[o]
      /\ \A a \in Objs : Before(w, a, o) => runDone[a]
      /\ UNCHANGED ran /\ hw'[d] = hw[d] /\ exeId'[d] = exeId[d] /\ memId'[d] = memId[d]
      /\ Unfinished(d)' => Unfinished(d)
      /\ Unfinished(d) => ~Before(w, exeId[d], o) \/ runDone[o]
      /\ Unfinished(d) => o # exeId[d]
      /\ hw[d] = "stall" =>
           /\ jmpNext'[exeId[d]] = jmpNext[exeId[d]] /\ o # jmpNext[exeId[d]]
           /\ o = exeId[d] /\ jmpNext[exeId[d]] = Nil => v = w
      /\ \A t \in Threads : pc[t] = "linkKick" => pc'[t] = pc[t] /\ job'[t] = job[t]
  BY DEF Settles
<1>5. \A x \in Objs : RanOrDone(x) => RanOrDone(x)'
  BY <1>4 DEF RanOrDone
<1> HIDE DEF w, v
<1>6. DonePrefix(d)'
  BY <1>4, PrefixGrows DEF DevOk, Settles, w
<1>7. RunOk(d)'
  <2>1. ASSUME Unfinished(d)
        PROVE  /\ On(v, exeId[d]) /\ ~runDone'[exeId[d]]
               /\ \A x \in Objs : Before(v, exeId[d], x) => ~runDone'[x]
    <3>1. /\ On(w, exeId[d]) /\ ~runDone[exeId[d]] /\ o # exeId[d]
          /\ \A x \in Objs : Before(w, exeId[d], x) => ~runDone[x]
      BY <1>4, <2>1 DEF DevOk, RunOk, w
    <3>2. exeId[d] \in Objs /\ On(v, exeId[d]) /\ ~runDone'[exeId[d]]
      BY <1>2, <1>3, <1>4, <3>1
    <3>3. ASSUME NEW x \in Objs, Before(v, exeId[d], x) PROVE ~runDone'[x]
      <4>1. Before(w, exeId[d], x) /\ ~runDone[x]
        BY <1>3, <3>1, <3>3
      <4>2. x # o
        BY <1>4, <2>1, <4>1
      <4> QED
        BY <1>4, <4>1, <4>2
    <3> QED
      BY <3>2, <3>3
  <2> QED
    BY <1>4, <2>1 DEF RunOk, v
<1>8. BehindOk(d)'
  <2> SUFFICES ASSUME Unfinished(d) \/ hw[d] = "stall", NEW x \in Objs,
                      Before(v, x, exeId[d])
               PROVE  RanOrDone(x)'
    BY <1>4 DEF BehindOk, v
  <2>1. RanOrDone(x)
    BY <1>3 DEF DevOk, BehindOk, w
  <2> QED
    BY <1>5, <2>1
<1>9. StallOk(d)'
  <2> SUFFICES ASSUME hw[d] = "stall" PROVE StallOk(d)'
    BY <1>4 DEF StallOk
  <2>0. PICK x \in Objs : x = exeId[d]
    BY DEF TypeOK, HwTypes, ObjOrNil
  <2>00. PICK n \in ObjOrNil : n = jmpNext[x]
    BY DEF TypeOK, ObjTypes
  <2>1. AtJmp(d, x) /\ IF n = Nil THEN LastOn(d, x) ELSE RingPending(d, x, n)
    BY <2>0, <2>00 DEF DevOk, StallOk
  <2>2. jmpNext'[x] = n /\ exeId'[d] = x /\ AtJmp(d, x)'
    BY <1>4, <2>0, <2>00, <2>1 DEF AtJmp
  <2>3. o # n /\ (o = x /\ n = Nil => v = w)
    BY <1>4, <2>0, <2>00
  <2>4. ASSUME n = Nil PROVE LastOn(d, x)'
    BY <1>3, <2>1, <2>3, <2>4 DEF LastOn, w, v
  <2>5. ASSUME n # Nil PROVE RingPending(d, x, n)'
    <3>1. /\ On(w, n) /\ n \in Objs /\ ~runDone[n] /\ \A b \in Objs : ~Before(w, n, b)
          /\ On(w, x) \/ (runDone[x] /\ \A a \in Objs : Before(w, a, n) => runDone[a])
      BY <1>2, <2>1, <2>5 DEF RingPending, LastOn, w
    <3>2. LastOn(d, n)' /\ ~runDone'[n]
      BY <1>3, <1>4, <2>3, <3>1 DEF LastOn, v
    <3>3. \E t \in Threads : pc'[t] = "linkKick" /\ job'[t] = n
      BY <1>4, <2>1, <2>5 DEF RingPending
    <3>4. CASE On(v, x)
      BY <3>2, <3>3, <3>4 DEF RingPending, v
    <3>5. CASE ~On(v, x)
      <4>1. runDone'[x]
        BY <1>3, <1>4, <3>1, <3>5
      <4>2. ASSUME NEW a \in Objs, Before(v, a, n) PROVE runDone'[a]
        <5>1. Before(w, a, n)
          BY <1>3, <4>2
        <5>2. CASE ~On(w, x)
          BY <1>4, <3>1, <5>1, <5>2
        <5>3. CASE On(w, x)
          <6>1. o = x /\ n = Nxt(w, x)
            BY <1>3, <2>1, <2>2, <3>5, <5>3, <2>00 DEF AtJmp, DevOk, ChainOk, w
          <6>2. a = x \/ Before(w, a, x)
            BY <1>1, <2>5, <5>1, <5>3, <6>1, NxtFacts
          <6> QED
            BY <1>4, <6>1, <6>2
        <5> QED
          BY <5>2, <5>3
      <4> QED
        BY <3>2, <3>3, <4>1, <4>2 DEF RingPending, v
    <3> QED
      BY <3>4, <3>5
  <2> QED
    BY <2>2, <2>4, <2>5 DEF StallOk, AtJmp, LastOn, RingPending
<1>10. ASSUME NEW x \in Objs, Reached(d, x) PROVE Reached(d, x)'
  <2>1. CASE runDone'[x]
    BY <2>1 DEF Reached
  <2>2. CASE ~runDone'[x]
    <3>1. x # o /\ ~runDone[x]
      BY <1>4, <2>2
    <3>2. /\ On(w, x) /\ x \in ran
          /\ \A y \in Objs : Before(w, y, x) => RanOrDone(y)
          /\ Unfinished(d) => Before(w, x, exeId[d])
          /\ hw[d] = "stall" => x = exeId[d] \/ Before(w, x, exeId[d])
      BY <1>10, <3>1 DEF Reached, w
    <3>3. On(v, x) /\ \A y \in Objs : Before(v, y, x) => RanOrDone(y)'
      BY <1>3, <1>5, <3>1, <3>2
    <3>4. Unfinished(d)' => Before(v, x, exeId'[d])
      BY <1>3, <1>4, <3>1, <3>2
    <3>5. hw'[d] = "stall" => x = exeId'[d] \/ Before(v, x, exeId'[d])
      BY <1>3, <1>4, <3>1, <3>2
    <3> QED
      BY <1>4, <3>2, <3>3, <3>4, <3>5 DEF Reached, v
  <2> QED
    BY <2>1, <2>2
<1>11. ToRun(d)' => ToRun(d)
  <2> SUFFICES ASSUME NEW x \in Objs, On(v, x), ~runDone'[x] PROVE ToRun(d)
    BY DEF ToRun, v
  <2> QED
    BY <1>3, <1>4 DEF ToRun, w
<1> QED
  BY <1>6, <1>7, <1>8, <1>9, <1>10, <1>11

---------------------------------------------------------------------------
(* A job is added at the end, behind the JMP of the old last one.          *)
LEMMA JobAddedHw ==
  ASSUME TypeOK, LockOwners, ListInv, HwInv, NEW t \in Threads, NEW d \in Devs,
         lock[d] = "free", pc[t] = "linkScan", AddJob(d, job[t]), Goto(t, "linkKick"),
         UNCHANGED <<runDone, exeStatus, hasJmp, stale, state, busErr, isr, hwVars, job>>
  PROVE  HwInv'
<1>0. job[t] \in Objs
  BY DEF TypeOK, ThreadTypes, UsesJob, LinkPcs, ObjOrNil
<1> PICK o \in Objs : o = job[t]
  BY <1>0
<1> DEFINE w == workList[d]
           r == AtEnd(w, o)
           l == ItemAt(w, Len(w))
<1>1. UNCHANGED <<hw, exeId, memId, irq, abortReq, ran>>
  BY DEF hwVars
<1>2. coreId[o] = Nil /\ ~runDone[o] /\ jmpNext[o] = Nil
  BY DEF ListInv, CallsSound, CallOk, LinkerOk, Unlisted, HwInv, FreshJmp
<1>3. /\ w \in Seq(Objs) /\ Distinct(w)
      /\ \A x \in Objs : On(w, x) <=> linked[x] /\ coreId[x] = d
  BY TheList
<1>4. d # Nil /\ ~On(w, o)
  BY <1>2, <1>3
<1>5. /\ r \in Seq(Objs) /\ Distinct(r)
      /\ \A a : On(r, a) <=> On(w, a) \/ a = o
      /\ \A a, b : Before(r, a, b) <=> Before(w, a, b) \/ (On(w, a) /\ b = o)
      /\ Nxt(r, o) = Nil
      /\ \A a : On(w, a) => Nxt(r, a) = IF Nxt(w, a) = Nil THEN o ELSE Nxt(w, a)
  BY <1>3, <1>4, AppendOrder
<1>6. /\ \A a : On(w, a) => l \in Objs /\ On(w, l) /\ Nxt(w, l) = Nil
      /\ \A a : On(w, a) /\ Nxt(w, a) = Nil => a = l
  BY <1>3, LastFacts
<1>7. l # Nil => l \in Objs /\ On(w, l) /\ coreId[l] = d
  <2>1. l # Nil => On(w, l)
    BY DEF ItemAt, On
  <2> QED
    BY <1>3, <1>6, <2>1
<1>8. /\ \A a : On(w, a) => a \in Objs
      /\ \A a, b : Before(w, a, b) => On(w, a) /\ On(w, b)
  BY <1>3, LinearOrder
<1> HIDE DEF l
<1>9. /\ jmpNext' = Relink(l, o) /\ coreId' = [coreId EXCEPT ![o] = d]
      /\ workList' = [workList EXCEPT ![d] = r]
  BY DEF AddJob, AtEnd, l
<1>10. /\ \A x \in Objs \ {l} : jmpNext'[x] = jmpNext[x]
       /\ l # Nil /\ hasJmp[l] => jmpNext'[l] = o
  BY <1>7, <1>9 DEF Relink, TypeOK, ObjTypes
<1>11. coreId'[o] = d /\ \A x \in Objs \ {o} : coreId'[x] = coreId[x]
  BY <1>9 DEF TypeOK, ObjTypes
<1>12. workList'[d] = r /\ \A e \in Devs \ {d} : workList'[e] = workList[e]
  BY <1>9 DEF TypeOK, DevTypes
<1>13. /\ pc'[t] = "linkKick" /\ \A u \in Threads \ {t} : pc'[u] = pc[u]
       /\ \A u \in Threads : pc[u] # "linkKick"
  <2>1. \A u \in Threads \ {t} : pc[u] # "linkKick"
    BY OneAdds DEF Listed
  <2> QED
    BY <2>1 DEF TypeOK, ThreadTypes
<1> HIDE DEF w, r
<1>14. isr[d].at = "out"
  BY DEF LockOwners, LocksHeld
<1>15. NoAborts' /\ DoneIsTrue'
  BY <1>1 DEF HwInv, NoAborts, Raised, Active, DoneIsTrue
<1>16. FreshJmp'
  BY <1>4, <1>7, <1>10, <1>11 DEF HwInv, FreshJmp
<1>17. ASSUME NEW e \in Devs \ {d} PROVE DevOk(e)'
  <2>1. ASSUME NEW x \in Objs, Concerns(e, x) PROVE SameBuf(x)
    <3>1. coreId[x] = e
      BY <2>1, ConcernsCore DEF HwInv
    <3>2. x # o /\ x # l
      BY <1>2, <1>7, <3>1, NilAssumption
    <3> QED
      BY <1>1, <1>10, <1>11, <3>2 DEF SameBuf
  <2>2. Elsewhere(e)
    BY <1>1, <1>12, <1>13, <2>1 DEF Elsewhere, Kicks
  <2> QED
    BY <2>2, ElsewhereKeeps DEF HwInv
<1>18. DevOk(d)'
  <2>1. DevOk(d)
    BY DEF HwInv
  <2>2. /\ Raised(d)' = Raised(d) /\ Active(d)' = Active(d) /\ ToRead(d)' = ToRead(d)
        /\ (Unfinished(d)' <=> Unfinished(d)) /\ \A x : RanOrDone(x)' <=> RanOrDone(x)
    BY <1>1 DEF Raised, Active, ToRead, Unfinished, RanOrDone
  <2>3. PowerOk(d)' /\ CurrOk(d)' /\ WalkOk(d)'
    BY <1>1, <1>14, <2>1, <2>2 DEF DevOk, PowerOk, CurrOk, WalkOk
  <2>10. Unfinished(d) \/ hw[d] = "stall" => exeId[d] # o
    BY <1>2, <1>4, <2>1 DEF DevOk, RunOk, StallOk, AtJmp, w
  <2>4. ChainOk(d)'
    <3> SUFFICES ASSUME NEW a \in Objs, On(r, a), hasJmp[a] PROVE jmpNext'[a] = Nxt(r, a)
      BY <1>12 DEF ChainOk
    <3>1. CASE a = o
      BY <1>2, <1>4, <1>5, <1>7, <1>10, <3>1
    <3>2. CASE On(w, a)
      <4>1. jmpNext[a] = Nxt(w, a) /\ a # Nil
        BY <2>1, <3>2 DEF DevOk, ChainOk, w
      <4> QED
        BY <1>5, <1>6, <1>10, <3>2, <4>1
    <3> QED
      BY <1>5, <3>1, <3>2
  <2>5. DonePrefix(d)'
    BY <1>2, <1>5, <1>12, <2>1 DEF DevOk, DonePrefix, w
  <2>6. RunOk(d)' /\ BehindOk(d)'
    <3>1. RunOk(d)'
      BY <1>1, <1>2, <1>5, <1>12, <2>1, <2>2 DEF DevOk, RunOk, w
    <3>2. BehindOk(d)'
      BY <1>1, <1>5, <1>12, <2>1, <2>2, <2>10 DEF DevOk, BehindOk, w
    <3> QED
      BY <3>1, <3>2
  <2>7. StallOk(d)'
    <3> SUFFICES ASSUME hw[d] = "stall" PROVE StallOk(d)'
      BY <1>1 DEF StallOk
    <3>0. PICK x \in Objs : x = exeId[d]
      BY DEF TypeOK, HwTypes, ObjOrNil
    <3>1. AtJmp(d, x) /\ LastOn(d, x)
      BY <1>13, <2>1, <3>0 DEF DevOk, StallOk, RingPending
    <3>2. On(w, x) /\ x # o /\ Nxt(w, x) = Nil
      <4>1. On(w, x) /\ \A b \in Objs : ~Before(w, x, b)
        BY <3>1 DEF LastOn, w
      <4>2. Nxt(w, x) # Nil => Before(w, x, Nxt(w, x)) /\ Nxt(w, x) \in Objs
        BY <1>3, <1>8, <4>1, NxtFacts
      <4> QED
        BY <1>4, <4>1, <4>2
    <3>3. x = l /\ jmpNext'[x] = o
      BY <1>4, <1>6, <1>7, <1>10, <3>1, <3>2 DEF AtJmp
    <3>4. AtJmp(d, x)'
      BY <1>1, <1>11, <3>1, <3>2 DEF AtJmp
    <3>5. LastOn(d, o)' /\ On(r, x)
      BY <1>4, <1>5, <1>8, <1>12, <3>2 DEF LastOn
    <3>6. RingPending(d, x, o)'
      BY <1>2, <1>12, <1>13, <3>5 DEF RingPending
    <3>7. exeId'[d] = x /\ o # Nil
      BY <1>1, <3>0, NilAssumption
    <3> QED
      BY <3>3, <3>4, <3>6, <3>7 DEF StallOk, AtJmp, RingPending, LastOn
  <2>9. MemOk(d)'
    <3> SUFFICES ASSUME ToRead(d) \cap {"jmp", "end"} # {} PROVE MemOk(d)'
      BY <2>2 DEF MemOk
    <3>1. PICK m \in Objs : m = memId[d] /\ coreId[m] = d /\ Reached(d, m)
      BY <2>1 DEF DevOk, MemOk
    <3>2. m # o /\ coreId'[m] = d
      BY <1>2, <1>4, <1>11, <3>1
    <3>3. Reached(d, m)'
      BY <1>1, <1>5, <1>12, <2>2, <3>1, <3>2 DEF Reached, w
    <3> QED
      BY <1>1, <3>1, <3>2, <3>3 DEF MemOk, Reached
  <2>8. StartOk(d)'
    BY <1>11, <1>13 DEF StartOk, Kicks
  <2> QED
    BY <2>3, <2>4, <2>5, <2>6, <2>7, <2>8, <2>9 DEF DevOk
<1> QED
  BY <1>15, <1>16, <1>17, <1>18 DEF HwInv

LEMMA LinkScanHw ==
  ASSUME TypeOK, LockOwners, ListInv, HwInv, NEW t \in Threads,
         LinkScan(t) \/ LinkLeastLoaded(t)
  PROVE  HwInv'
<1>1. CASE LinkLeastLoaded(t)
  <2>1. PICK d \in Cores[t] : lock[d] = "free" /\ AddJob(d, job[t])
    BY <1>1 DEF LinkLeastLoaded
  <2>2. d \in Devs
    OBVIOUS
  <2> QED
    BY <1>1, <2>1, <2>2, JobAddedHw DEF LinkLeastLoaded
<1>2. CASE LinkScan(t)
  <2> DEFINE d == DevSeq[scan[t]]
  <2>1. CASE d \in Cores[t] /\ AddJob(d, job[t]) /\ Goto(t, "linkKick")
    <3>1. d \in Devs
      BY <2>1
    <3> QED
      BY <1>2, <2>1, <3>1, JobAddedHw DEF LinkScan
  <2>2. CASE UNCHANGED <<jmpNext, workList, coreId, linked, pc>>
    BY <1>2, <2>2, NothingKept DEF LinkScan, hwVars
  <2> QED
    BY <1>2, <2>1, <2>2 DEF LinkScan
<1> QED
  BY <1>1, <1>2

(* The device is started, or rung if it stalls before the new job.         *)
LEMMA DoorbellKeeps ==
  ASSUME TypeOK, ListInv, NEW d \in Devs, DevOk(d), ~abortReq[d],
         state[d] = "working", isr[d].at = "out", Doorbell(d),
         UNCHANGED <<workList, runDone, ran, hasJmp, jmpNext, coreId, memId, irq, isr,
                     busErr>>
  PROVE  /\ DevOk(d)' /\ ~abortReq'[d]
         /\ \A e \in Devs \ {d} : /\ state'[e] = state[e] /\ hw'[e] = hw[e]
                                  /\ exeId'[e] = exeId[e] /\ abortReq'[e] = abortReq[e]
<1> DEFINE w == workList[d]
<1>1. /\ w \in Seq(Objs) /\ Distinct(w)
      /\ \A a : On(w, a) => a \in Objs
      /\ \A a, b : Before(w, a, b) => On(w, a) /\ On(w, b)
      /\ \A a, b, c : Before(w, a, b) /\ Before(w, b, c) => Before(w, a, c)
  BY TheList, LinearOrder
<1>2. /\ Raised(d)' = Raised(d) /\ Active(d)' = {} /\ Active(d) = {} /\ ToRead(d)' = ToRead(d)
      /\ \A x : RanOrDone(x)' <=> RanOrDone(x)
  BY DEF Raised, Active, ToRead, RanOrDone
<1>3. UNCHANGED <<state, abortReq>>
  BY DEF Doorbell
<1>4. ChainOk(d)' /\ DonePrefix(d)' /\ CurrOk(d)' /\ WalkOk(d)' /\ StartOk(d)'
  BY <1>3 DEF DevOk, ChainOk, DonePrefix, CurrOk, WalkOk, StartOk
<1>5. CASE hw[d] = "stall" /\ jmpNext[exeId[d]] # Nil
  <2>0. PICK x \in Objs : x = exeId[d]
    BY <1>5 DEF TypeOK, HwTypes, ObjOrNil
  <2>00. PICK n \in Objs : n = jmpNext[x]
    BY <1>5, <2>0 DEF TypeOK, ObjTypes, ObjOrNil
  <2>1. /\ hw'[d] = "run" /\ exeId'[d] = n
        /\ \A e \in Devs \ {d} : hw'[e] = hw[e] /\ exeId'[e] = exeId[e]
    BY <1>5, <2>0, <2>00 DEF Doorbell, TypeOK, HwTypes
  <2>2. AtJmp(d, x) /\ RingPending(d, x, n)
    BY <1>5, <2>0, <2>00 DEF DevOk, StallOk
  <2>3. /\ On(w, n) /\ ~runDone[n] /\ \A o \in Objs : ~Before(w, n, o)
    BY <2>2 DEF RingPending, LastOn
  <2>4. On(w, x) => /\ Before(w, x, n)
                    /\ \A c : Before(w, c, n) => c = x \/ Before(w, c, x)
    <3>1. On(w, x) => n = Nxt(w, x)
      BY <2>2, <2>00 DEF AtJmp, DevOk, ChainOk
    <3> QED
      BY <1>1, <3>1, NxtFacts
  <2>5. \A o \in Objs : Before(w, o, n) => RanOrDone(o)
    <3>1. \A o \in Objs : Before(w, o, x) => RanOrDone(o)
      BY <1>5, <2>0 DEF DevOk, BehindOk
    <3> QED
      BY <2>2, <2>4, <3>1 DEF RingPending, RanOrDone, AtJmp
  <2> HIDE DEF w
  <2>6. RunOk(d)' /\ BehindOk(d)' /\ StallOk(d)'
    BY <1>2, <2>1, <2>3, <2>5 DEF RunOk, BehindOk, StallOk, w
  <2>7. PowerOk(d)'
    BY <1>2, <1>3, <1>5, <2>1 DEF DevOk, PowerOk
  <2>8. MemOk(d)'
    <3> SUFFICES ASSUME ToRead(d) \cap {"jmp", "end"} # {} PROVE MemOk(d)'
      BY <1>2 DEF MemOk
    <3>1. PICK m \in Objs : m = memId[d] /\ coreId[m] = d /\ Reached(d, m)
      BY DEF DevOk, MemOk
    <3>2. ~runDone[m] => Before(w, m, n)
      BY <1>1, <1>5, <2>0, <2>4, <3>1 DEF Reached, w
    <3>3. Reached(d, m)'
      BY <1>2, <2>1, <3>1, <3>2 DEF Reached, w
    <3> QED
      BY <3>1, <3>3 DEF MemOk, Reached
  <2> QED
    BY <1>3, <1>4, <2>1, <2>6, <2>7, <2>8 DEF DevOk
<1>6. CASE ~(hw[d] = "stall" /\ jmpNext[exeId[d]] # Nil)
  <2>1. UNCHANGED <<hw, exeId>>
    BY <1>6 DEF Doorbell
  <2>2. Unfinished(d)' <=> Unfinished(d)
    BY <1>2, <2>1 DEF Unfinished
  <2>3. RunOk(d)' /\ BehindOk(d)' /\ PowerOk(d)'
    BY <1>2, <1>3, <2>1, <2>2 DEF DevOk, RunOk, BehindOk, PowerOk
  <2>4. StallOk(d)'
    BY <1>6, <2>1 DEF DevOk, StallOk, AtJmp, LastOn
  <2>5. MemOk(d)'
    BY <1>2, <2>1, <2>2 DEF DevOk, MemOk, Reached
  <2> QED
    BY <1>3, <1>4, <2>1, <2>3, <2>4, <2>5 DEF DevOk
<1> QED
  BY <1>5, <1>6

LEMMA LinkKickHw ==
  ASSUME TypeOK, LockOwners, ListInv, HwInv, NEW t \in Threads, LinkKick(t)
  PROVE  HwInv'
<1>1. coreId[job[t]] \in Devs
  <2>1. coreId[job[t]] # Nil /\ job[t] \in Objs
    BY DEF LinkKick, ListInv, CallsSound, CallOk, LinkerOk, Listed, TypeOK, ThreadTypes,
       UsesJob, LinkPcs, ObjOrNil
  <2> QED
    BY <2>1 DEF TypeOK, ObjTypes, DevOrNil
<1> PICK d \in Devs : d = coreId[job[t]]
  BY <1>1
<1>2. /\ UNCHANGED <<runDone, exeStatus, coreId, hasJmp, jmpNext, stale, workList, busErr,
                     isr, memId, irq, ran, job>>
      /\ IF state[d] # "working" THEN StartDev(d) ELSE Doorbell(d)
      /\ pc[t] = "linkKick" /\ lock[d] = "free"
  BY <1>1 DEF LinkKick, objVars
<1>3. isr[d].at = "out" /\ \A e \in Devs : DevOk(e) /\ ~abortReq[e]
  BY <1>2 DEF LockOwners, LocksHeld, HwInv, NoAborts
<1>4. /\ DevOk(d)' /\ ~abortReq'[d]
      /\ \A e \in Devs \ {d} : /\ state'[e] = state[e] /\ hw'[e] = hw[e]
                               /\ exeId'[e] = exeId[e] /\ abortReq'[e] = abortReq[e]
  <2>1. CASE state[d] # "working"
    <3>1. OutOfDev(d)'
      BY <1>2, <1>3, <2>1 DEF OutOfDev, DevOk, PowerOk
    <3> QED
      BY <1>1, <1>2, <1>3, <2>1, <3>1, StartKeeps
  <2>2. CASE state[d] = "working"
    BY <1>1, <1>2, <1>3, <2>2, DoorbellKeeps
  <2> QED
    BY <2>1, <2>2
<1>5. ASSUME NEW e \in Devs \ {d} PROVE DevOk(e)'
  <2>1. \A u \in Threads : ~Kicks(u, e)
    <3>1. \A u \in Threads : pc[u] = "linkKick" => u = t
      BY <1>2, OneAdds DEF Listed
    <3> QED
      BY <3>1 DEF Kicks
  <2>2. Elsewhere(e)
    BY <1>2, <1>4, <2>1 DEF Elsewhere, SameBuf
  <2> QED
    BY <1>3, <2>2, ElsewhereKeeps
<1>6. NoAborts'
  BY <1>1, <1>2, <1>3, <1>4 DEF HwInv, NoAborts, Raised, Active
<1>7. FreshJmp' /\ DoneIsTrue'
  BY <1>2 DEF HwInv, FreshJmp, DoneIsTrue
<1> QED
  BY <1>4, <1>5, <1>6, <1>7 DEF HwInv

---------------------------------------------------------------------------
(* What the device has written stays true.                                 *)
LEMMA MemKept ==
  ASSUME TypeOK, NEW d \in Devs, MemOk(d), UNCHANGED coreId, memId'[d] = memId[d],
         ToRead(d)' \cap {"jmp", "end"} # {} => ToRead(d) \cap {"jmp", "end"} # {},
         \A x \in Objs : Reached(d, x) => Reached(d, x)'
  PROVE  MemOk(d)'
<1> SUFFICES ASSUME ToRead(d)' \cap {"jmp", "end"} # {} PROVE MemOk(d)'
  BY DEF MemOk
<1>1. PICK m \in Objs : m = memId[d] /\ coreId[m] = d /\ Reached(d, m)
  BY DEF MemOk
<1>2. Reached(d, m)'
  BY <1>1
<1> QED
  BY <1>1, <1>2 DEF MemOk, Reached

(* A call removes a released cmdbuf, which is done.                        *)
LEMMA RemovedHw ==
  ASSUME TypeOK, ListInv, HwInv, NEW d \in Devs, NEW x \in Objs, coreId[x] = d,
         needRemove[x], RemoveJob(d, x), isr[d].at = "out",
         \A u \in Threads : pc[u] = "linkKick" => pc'[u] = pc[u] /\ job'[u] = job[u],
         UNCHANGED <<runDone, exeStatus, coreId, hasJmp, hwVars, isr, state, busErr>>
  PROVE  HwInv'
<1>1. runDone[x] /\ d # Nil /\ UNCHANGED <<hw, exeId, memId, irq, abortReq, ran>>
  BY DEF ListInv, LifeSound, LifeOk, hwVars
<1>2. CASE UNCHANGED <<jmpNext, stale, workList, linked>>
  BY <1>1, <1>2, NothingKept
<1>3. CASE linked[x] /\ CanDelink(state[d], d, x) /\ Unlink(d, x)
  <2> DEFINE w == workList[d]
  <2>0. DevOk(d) /\ NoAborts /\ FreshJmp /\ DoneIsTrue
    BY DEF HwInv
  <2>1. /\ w \in Seq(Objs) /\ Distinct(w) /\ On(w, x)
        /\ \A e \in Devs : \A o \in Objs : On(workList[e], o) => coreId[o] = e
    BY <1>3, TheList
  <2>a. /\ On(workList[d], x) /\ ChainOk(d) /\ Unlink(d, x) /\ UNCHANGED hasJmp
    BY <1>3, <2>0, <2>1 DEF DevOk
  <2>2. /\ ChainOk(d)' /\ Loses(d, x) /\ NextOf(d, x) = Nxt(w, x)
        /\ \A o \in Objs : coreId[o] # d => jmpNext'[o] = jmpNext[o] /\ stale'[o] = stale[o]
        /\ \A o \in Objs : jmpNext'[o] # jmpNext[o] => On(w, o) /\ Nxt(w, o) = x
        /\ \A e \in Devs \ {d} : workList'[e] = workList[e]
    BY <2>a, ChainUnlinked
  <2>3. NoAborts' /\ FreshJmp' /\ DoneIsTrue'
    BY <1>1, <2>0, <2>2 DEF NoAborts, Raised, Active, FreshJmp, DoneIsTrue
  <2>4. ASSUME NEW e \in Devs \ {d} PROVE DevOk(e)'
    <3>1. \A o \in Objs : Concerns(e, o) => SameBuf(o)
      BY <1>1, <2>2, ConcernsCore DEF SameBuf, HwInv
    <3>2. Elsewhere(e)
      BY <1>1, <2>2, <3>1 DEF Elsewhere, Kicks
    <3> QED
      BY <3>2, ElsewhereKeeps DEF HwInv
  <2>5. ASSUME hw[d] = "stall"
        PROVE  /\ jmpNext'[exeId[d]] = jmpNext[exeId[d]] /\ x # jmpNext[exeId[d]]
               /\ x = exeId[d] => jmpNext[exeId[d]] # Nil
    <3>0. PICK y \in Objs : y = exeId[d]
      BY <2>5 DEF TypeOK, HwTypes, ObjOrNil
    <3>1. /\ state[d] = "working" /\ hasJmp[y]
          /\ jmpNext[y] # Nil => ~runDone[jmpNext[y]]
          /\ On(w, y) => jmpNext[y] = Nxt(w, y)
      BY <2>0, <2>5, <3>0 DEF DevOk, PowerOk, StallOk, AtJmp, RingPending, ChainOk, TypeOK,
         DevTypes
    <3>2. x # jmpNext[y]
      BY <1>1, <3>1, NilAssumption
    <3>3. jmpNext'[y] = jmpNext[y]
      BY <2>2, <3>1, <3>2
    <3>4. x = y => jmpNext[y] # Nil
      BY <1>3, <2>1, <2>2, <3>1 DEF CanDelink
    <3> QED
      BY <3>0, <3>2, <3>3, <3>4
  <2>6. Settles(d, x)
    <3>1. Unfinished(d)' <=> Unfinished(d)
      BY <1>1 DEF Unfinished, Raised, Active
    <3>2. \A a \in Objs : Before(w, a, x) => runDone[a]
      BY <1>1, <2>0 DEF DevOk, DonePrefix
    <3>3. Unfinished(d) => x # exeId[d]
      BY <1>1, <2>0 DEF DevOk, RunOk
    <3> QED
      BY <1>1, <2>2, <2>5, <3>1, <3>2, <3>3 DEF Settles
  <2>7. /\ DonePrefix(d)' /\ RunOk(d)' /\ BehindOk(d)' /\ StallOk(d)'
        /\ \A o \in Objs : Reached(d, o) => Reached(d, o)'
        /\ ToRun(d)' => ToRun(d)
    BY <2>0, <2>6, SettlesKeeps
  <2>8. PowerOk(d)' /\ CurrOk(d)' /\ WalkOk(d)'
    BY <1>1, <2>0 DEF DevOk, PowerOk, CurrOk, WalkOk, Raised, Active
  <2>9. StartOk(d)'
    BY <1>1, <2>0, <2>7 DEF DevOk, StartOk, Kicks
  <2>10. MemOk(d)'
    BY <1>1, <2>0, <2>7, MemKept DEF DevOk, ToRead
  <2> QED
    BY <2>2, <2>3, <2>4, <2>7, <2>8, <2>9, <2>10 DEF DevOk, HwInv
<1> QED
  BY <1>2, <1>3 DEF RemoveJob

LEMMA ReleaseLockHw ==
  ASSUME TypeOK, LockOwners, ListInv, HwInv, NEW t \in Threads, ReleaseLock(t)
  PROVE  HwInv'
<1>0. job[t] \in Objs /\ dev[t] \in Devs
  BY DEF ReleaseLock, TypeOK, ThreadTypes, UsesJob, UsesDev, ReleasePcs, ObjOrNil,
     DevOrNil
<1> PICK o \in Objs, d \in Devs : o = job[t] /\ d = dev[t]
  BY <1>0
<1>1. /\ pc[t] = "relLock" /\ lock[d] = "free" /\ RemoveJob(d, o)
      /\ UNCHANGED <<runDone, exeStatus, coreId, hasJmp, hwVars, isr, state, busErr>>
  BY DEF ReleaseLock
<1>2. needRemove[o] /\ d = coreId[o]
  BY <1>1 DEF ListInv, CallsSound, CallOk, ReleaserOk, ReleasePcs
<1>3. \A u \in Threads : pc[u] = "linkKick" => pc'[u] = pc[u] /\ job'[u] = job[u]
  BY <1>1 DEF ReleaseLock, TypeOK, ThreadTypes
<1>4. isr[d].at = "out"
  BY <1>1 DEF LockOwners, LocksHeld
<1> QED
  BY <1>1, <1>2, <1>3, <1>4, RemovedHw

LEMMA LinkPrevHw ==
  ASSUME TypeOK, LockOwners, ListInv, HwInv, NEW t \in Threads, LinkPrev(t)
  PROVE  HwInv'
<1>0. job[t] \in Objs /\ dev[t] \in Devs
  BY DEF LinkPrev, TypeOK, ThreadTypes, UsesJob, UsesDev, LinkPcs, HoldsLock, ObjOrNil,
     DevOrNil
<1> PICK o \in Objs, d \in Devs : o = job[t] /\ d = dev[t]
  BY <1>0
<1> DEFINE p == PrevOf(d, o)
<1>1. /\ pc[t] = "linkPrev"
      /\ UNCHANGED <<runDone, exeStatus, coreId, hasJmp, hwVars, isr, state, busErr>>
      /\ IF KeptForJmp(p) THEN RemoveJob(d, p)
         ELSE UNCHANGED <<po, poolVars, jmpNext, stale, workList, linked>>
  BY DEF LinkPrev
<1>2. \A u \in Threads : pc[u] = "linkKick" => pc'[u] = pc[u] /\ job'[u] = job[u]
  BY <1>1 DEF LinkPrev, TypeOK, ThreadTypes
<1>3. isr[d].at = "out"
  BY <1>1 DEF LockOwners, LocksHeld, Holds, HoldsLock
<1>4. CASE KeptForJmp(p)
  <2>1. p # Nil /\ needRemove[p] /\ RemoveJob(d, p)
    BY <1>1, <1>4 DEF KeptForJmp
  <2>2. p \in Objs /\ coreId[p] = d
    BY <1>1, <2>1, PredecessorKnown
  <2> HIDE DEF p
  <2> QED
    BY <1>1, <1>2, <1>3, <2>1, <2>2, RemovedHw
<1>5. CASE ~KeptForJmp(p)
  BY <1>1, <1>2, <1>5, NothingKept DEF hwVars
<1> QED
  BY <1>4, <1>5

---------------------------------------------------------------------------
(* The hardware.                                                           *)
LEMMA HwFinishHw ==
  ASSUME TypeOK, ListInv, HwInv, NEW d \in Devs, HwFinish(d)
  PROVE  HwInv'
<1> DEFINE w == workList[d]
<1>0. DevOk(d) /\ NoAborts /\ FreshJmp /\ DoneIsTrue
  BY DEF HwInv
<1>a. exeId[d] \in Objs /\ jmpNext[exeId[d]] \in Objs \cup {Nil}
  BY <1>0 DEF HwFinish, TypeOK, HwTypes, ObjTypes, ObjOrNil
<1> PICK o \in Objs, n \in Objs \cup {Nil} : o = exeId[d] /\ n = jmpNext[o]
  BY <1>a
<1>1. /\ UNCHANGED <<workList, state, busErr, isr, runDone, exeStatus, coreId, hasJmp,
                     jmpNext, stale, pc, job>>
      /\ hw[d] = "run" /\ ran' = ran \cup {o} /\ memId' = [memId EXCEPT ![d] = o]
      /\ ~abortReq[d]
  BY <1>0 DEF HwFinish, objVars, devVars, threadVars, NoAborts
<1>2. /\ w \in Seq(Objs) /\ Distinct(w)
      /\ \A e \in Devs : \A x \in Objs : On(workList[e], x) => coreId[x] = e
  BY TheList
<1>3. /\ \A a : On(w, a) => a \in Objs
      /\ \A a, b : Before(w, a, b) => On(w, a) /\ On(w, b)
      /\ \A a, b, c : Before(w, a, b) /\ Before(w, b, c) => Before(w, a, c)
  BY <1>2, LinearOrder
<1>4. /\ Raised(d) \cap Err = {} /\ Raised(d) \cap Stops = {} /\ Unfinished(d)
      /\ state[d] = "working" /\ irq[d] \subseteq Kinds
      /\ Active(d) \cap Stops = {} /\ Active(d) \cap Err = {}
  <2>1. Raised(d) \cap Stops = {} /\ "abort" \notin Raised(d) /\ state[d] = "working"
    BY <1>0, <1>1 DEF DevOk, PowerOk, NoAborts
  <2>2. irq[d] \subseteq Kinds
    BY DEF TypeOK, HwTypes
  <2> QED
    BY <1>1, <2>1, <2>2 DEF Unfinished, Raised, Stops, Err
<1>5. /\ On(w, o) /\ o \in Objs /\ ~runDone[o] /\ coreId[o] = d
      /\ \A x \in Objs : Before(w, o, x) => ~runDone[x]
      /\ \A x \in Objs : Before(w, x, o) => RanOrDone(x)
  BY <1>0, <1>2, <1>3, <1>4 DEF DevOk, RunOk, BehindOk
<1>6. memId'[d] = o /\ \A e \in Devs \ {d} : memId'[e] = memId[e]
  BY <1>1 DEF TypeOK, HwTypes
<1>7. hasJmp[o] => n = Nxt(w, o)
  BY <1>0, <1>5 DEF DevOk, ChainOk
<1>8. /\ n # Nil /\ hasJmp[o] =>
           /\ Before(w, o, n)
           /\ \A c : Before(w, c, n) => c = o \/ Before(w, c, o)
      /\ n = Nil /\ hasJmp[o] => \A c : ~Before(w, o, c)
  BY <1>2, <1>5, <1>7, NxtFacts
<1>9. \/ /\ hasJmp[o] /\ n # Nil /\ hw'[d] = "run" /\ exeId'[d] = n
         /\ irq'[d] = irq[d] \/ irq'[d] = irq[d] \cup {"jmp"}
      \/ /\ hasJmp[o] /\ n = Nil /\ hw'[d] = "stall" /\ exeId'[d] = o
         /\ irq'[d] = irq[d] \cup {"jmp"}
      \/ /\ ~hasJmp[o] /\ hw'[d] = "off" /\ exeId'[d] = o
         /\ irq'[d] = irq[d] \cup {"end"}
  <2>1. CASE /\ hasJmp[o] /\ jmpNext[o] # Nil
             /\ exeId' = [exeId EXCEPT ![d] = jmpNext[o]]
             /\ \E k \in {{}, {"jmp"}} : Raise(d, k)
             /\ UNCHANGED <<hw, abortReq>>
    BY <1>1, <2>1 DEF Raise, TypeOK, HwTypes
  <2>2. CASE /\ hasJmp[o] /\ jmpNext[o] = Nil
             /\ hw' = [hw EXCEPT ![d] = "stall"] /\ Raise(d, {"jmp"})
             /\ UNCHANGED <<exeId, abortReq>>
    BY <2>2 DEF Raise, TypeOK, HwTypes
  <2>3. CASE /\ ~hasJmp[o]
             /\ hw' = [hw EXCEPT ![d] = "off"]
             /\ abortReq' = [abortReq EXCEPT ![d] = FALSE]
             /\ Raise(d, {"end"})
             /\ UNCHANGED exeId
    BY <2>3 DEF Raise, TypeOK, HwTypes
  <2>4. ~hasJmp[o] => (IF abortReq[d] THEN {"abort"} ELSE {})
                      \cup (IF hasJmp[o] THEN {} ELSE {"end"}) = {"end"}
    BY <1>1
  <2> QED
    BY <1>1, <2>1, <2>2, <2>3, <2>4 DEF HwFinish
<1>10. /\ \A e \in Devs : abortReq'[e] = FALSE
       /\ \A e \in Devs \ {d} : hw'[e] = hw[e] /\ exeId'[e] = exeId[e] /\ irq'[e] = irq[e]
  <2>1. \A e \in Devs : abortReq[e] = FALSE /\ abortReq[e] \in BOOLEAN
    BY <1>0 DEF NoAborts, TypeOK, HwTypes
  <2> QED
    BY <2>1 DEF HwFinish, Raise, TypeOK, HwTypes
<1>11. ASSUME NEW e \in Devs \ {d} PROVE DevOk(e)'
  <2>1. \A x \in Objs : Concerns(e, x) => SameBuf(x)
    BY <1>1, <1>5, ConcernsCore DEF SameBuf, HwInv
  <2>2. Elsewhere(e)
    BY <1>1, <1>6, <1>10, <2>1 DEF Elsewhere, Kicks
  <2> QED
    BY <2>2, ElsewhereKeeps DEF HwInv
<1>12. Active(d)' = Active(d) /\ irq'[d] \subseteq irq[d] \cup {"jmp", "end"}
       /\ Raised(d)' \subseteq Raised(d) \cup {"jmp", "end"}
       /\ (hw'[d] # "off" => irq'[d] \subseteq irq[d] \cup {"jmp"})
  BY <1>1, <1>9 DEF Active, Raised
<1>13. NoAborts'
  <2>1. \A e \in Devs \ {d} : Raised(e)' = Raised(e)
    BY <1>1, <1>10 DEF Raised, Active
  <2>2. "abort" \notin Raised(d)'
    BY <1>0, <1>12 DEF NoAborts
  <2> QED
    BY <1>0, <1>10, <2>1, <2>2 DEF NoAborts
<1>14. FreshJmp' /\ DoneIsTrue'
  BY <1>0, <1>1 DEF FreshJmp, DoneIsTrue
<1>15. Unfinished(d)' <=> hw'[d] = "run"
  BY <1>4, <1>12 DEF Unfinished, Err
<1>16. PowerOk(d)'
  BY <1>0, <1>1, <1>4, <1>9, <1>12 DEF DevOk, PowerOk, Raised, Stops
<1>17. ChainOk(d)' /\ DonePrefix(d)'
  BY <1>0, <1>1 DEF DevOk, ChainOk, DonePrefix
<1>18. \A x \in Objs : RanOrDone(x) => RanOrDone(x)'
  BY <1>1 DEF RanOrDone
<1>19. RanOrDone(o)' /\ o \in ran'
  BY <1>1, <1>5 DEF RanOrDone
<1>20. RunOk(d)' /\ BehindOk(d)'
  <2>1. CASE hw'[d] = "run"
    <3>1. hasJmp[o] /\ n # Nil /\ exeId'[d] = n
      BY <1>9, <2>1
    <3>2. /\ On(w, n) /\ n \in Objs /\ ~runDone[n]
          /\ \A x \in Objs : Before(w, n, x) => ~runDone[x]
      BY <1>3, <1>5, <1>8, <3>1
    <3>3. \A x \in Objs : Before(w, x, n) => RanOrDone(x)'
      BY <1>5, <1>8, <1>18, <1>19, <3>1
    <3> QED
      BY <1>1, <3>1, <3>2, <3>3 DEF RunOk, BehindOk
  <2>2. CASE hw'[d] # "run"
    BY <1>1, <1>5, <1>9, <1>15, <1>18, <2>2 DEF RunOk, BehindOk
  <2> QED
    BY <2>1, <2>2
<1>21. StallOk(d)'
  <2>1. CASE hw'[d] = "stall"
    <3>1. hasJmp[o] /\ n = Nil /\ exeId'[d] = o
      BY <1>9, <2>1
    <3>2. AtJmp(d, o)' /\ LastOn(d, o)' /\ jmpNext'[o] = Nil
      BY <1>1, <1>5, <1>8, <1>19, <3>1 DEF AtJmp, LastOn
    <3> QED
      BY <3>1, <3>2 DEF StallOk, AtJmp, LastOn
  <2> QED
    BY <2>1 DEF StallOk
<1>22. ASSUME NEW x \in Objs, x = o \/ Reached(d, x) PROVE Reached(d, x)'
  <2>1. CASE runDone[x]
    BY <1>1, <2>1 DEF Reached
  <2>2. CASE ~runDone[x]
    <3>1. /\ On(w, x) /\ x \in ran'
          /\ \A y \in Objs : Before(w, y, x) => RanOrDone(y)
          /\ x = o \/ Before(w, x, o)
      BY <1>1, <1>4, <1>5, <1>19, <1>22, <2>2 DEF Reached
    <3>2. Unfinished(d)' => Before(w, x, exeId'[d])
      BY <1>3, <1>8, <1>9, <1>15, <3>1
    <3>3. hw'[d] = "stall" => x = exeId'[d] \/ Before(w, x, exeId'[d])
      BY <1>9, <3>1
    <3> QED
      BY <1>1, <1>18, <3>1, <3>2, <3>3 DEF Reached
  <2> QED
    BY <2>1, <2>2
<1>23. MemOk(d)'
  <2>1. Reached(d, o)'
    BY <1>22
  <2> QED
    BY <1>1, <1>5, <1>6, <2>1 DEF MemOk, Reached
<1>24. CurrOk(d)'
  <2>1. isr[d].at \in {"walk", "curr"} => isr[d].src \cap Err = {} /\ isr[d].curr \in Objs
    BY <1>4 DEF Active, TypeOK, DevTypes, IsrRecord, ObjOrNil
  <2>2. \A x \in Objs : isr[d].curr = x /\ Reached(d, x) => Reached(d, x)'
    BY <1>22
  <2> QED
    BY <1>0, <1>1, <2>1, <2>2 DEF DevOk, CurrOk, Reached
<1>25. WalkOk(d)' /\ StartOk(d)'
  <2>1. WalkNext(d)' = WalkNext(d)
    BY <1>1 DEF WalkNext, NextOf
  <2> QED
    BY <1>0, <1>1, <1>4, <2>1 DEF DevOk, WalkOk, NextToReport, StartOk
<1> QED
  BY <1>11, <1>13, <1>14, <1>16, <1>17, <1>20, <1>21, <1>23, <1>24, <1>25 DEF DevOk, HwInv

LEMMA HwErrorHw ==
  ASSUME TypeOK, ListInv, HwInv, NEW d \in Devs, NEW k \in ErrorKinds, HwError(d, k)
  PROVE  HwInv'
<1> DEFINE w == workList[d]
<1>0. DevOk(d) /\ NoAborts /\ FreshJmp /\ DoneIsTrue
  BY DEF HwInv
<1>1. /\ UNCHANGED <<workList, state, busErr, isr, runDone, exeStatus, coreId, hasJmp,
                     jmpNext, stale, pc, job, exeId, memId, abortReq, ran>>
      /\ hw[d] = "run" /\ k \in {"cmderr", "buserr"}
  BY KindsAssumption DEF HwError, objVars, devVars, threadVars
<1>2. /\ hw'[d] = "off" /\ irq'[d] = irq[d] \cup {k}
      /\ \A e \in Devs \ {d} : hw'[e] = hw[e] /\ irq'[e] = irq[e]
  BY DEF HwError, Raise, TypeOK, HwTypes
<1>3. /\ Unfinished(d) /\ Active(d) \cap Stops = {} /\ irq[d] \cap Stops = {}
      /\ state[d] = "working"
  BY <1>0, <1>1 DEF DevOk, PowerOk, Unfinished, Raised
<1>4. /\ Active(d)' = Active(d) /\ Raised(d)' = Raised(d) \cup {k}
      /\ ToRead(d)' = ToRead(d) \cup {k} /\ Unfinished(d)'
  BY <1>1, <1>2 DEF Active, Raised, ToRead, Unfinished, Err
<1>5. ASSUME NEW e \in Devs \ {d} PROVE DevOk(e)'
  <2>1. Elsewhere(e)
    BY <1>1, <1>2 DEF Elsewhere, Kicks, SameBuf
  <2> QED
    BY <2>1, ElsewhereKeeps DEF HwInv
<1>6. NoAborts'
  <2>1. \A e \in Devs \ {d} : Raised(e)' = Raised(e)
    BY <1>1, <1>2 DEF Raised, Active
  <2> QED
    BY <1>0, <1>1, <1>4, <2>1 DEF NoAborts
<1>7. FreshJmp' /\ DoneIsTrue'
  BY <1>0, <1>1 DEF FreshJmp, DoneIsTrue
<1>8. PowerOk(d)'
  BY <1>0, <1>1, <1>2, <1>3, <1>4 DEF DevOk, PowerOk
<1>9. ChainOk(d)' /\ DonePrefix(d)' /\ RunOk(d)' /\ BehindOk(d)' /\ StallOk(d)' /\ StartOk(d)'
  BY <1>0, <1>1, <1>2, <1>3
     DEF DevOk, ChainOk, DonePrefix, RunOk, BehindOk, RanOrDone, StallOk, StartOk
<1>10. \A x \in Objs : Reached(d, x) => Reached(d, x)'
  BY <1>1, <1>3 DEF Reached, RanOrDone
<1>11. MemOk(d)'
  BY <1>0, <1>1, <1>4, <1>10, MemKept DEF DevOk
<1>12. CurrOk(d)'
  <2>1. isr[d].curr \in ObjOrNil
    BY DEF TypeOK, DevTypes, IsrRecord
  <2>2. isr[d].at \in {"walk", "curr"} => isr[d].curr \in Objs
    BY <2>1 DEF TypeOK, DevTypes, ObjOrNil
  <2> QED
    BY <1>0, <1>1, <1>10, <2>2 DEF DevOk, CurrOk
<1>13. WalkOk(d)'
  <2>1. WalkNext(d)' = WalkNext(d)
    BY <1>1 DEF WalkNext, NextOf
  <2> QED
    BY <1>0, <1>1, <2>1 DEF DevOk, WalkOk, NextToReport
<1> QED
  BY <1>5, <1>6, <1>7, <1>8, <1>9, <1>11, <1>12, <1>13 DEF DevOk, HwInv

LEMMA HwStepsHw ==
  ASSUME TypeOK, ListInv, HwInv, NEW d \in Devs, Hw(d)
  PROVE  HwInv'
<1>1. ~HwAbortStalled(d)
  BY DEF HwInv, NoAborts, HwAbortStalled
<1> QED
  BY <1>1, HwFinishHw, HwErrorHw DEF Hw

---------------------------------------------------------------------------
(* The interrupt routine.  It touches one device and what is on its list.  *)
Touches(d) ==
  /\ UNCHANGED <<coreId, hasJmp, ran, memId, abortReq, job>>
  /\ \A e \in Devs \ {d} :
       /\ workList'[e] = workList[e] /\ hw'[e] = hw[e] /\ exeId'[e] = exeId[e]
       /\ irq'[e] = irq[e] /\ isr'[e] = isr[e] /\ state'[e] = state[e]
       /\ busErr'[e] = busErr[e]
  /\ \A x \in Objs : coreId[x] # d =>
       runDone'[x] = runDone[x] /\ jmpNext'[x] = jmpNext[x] /\ stale'[x] = stale[x]
  /\ \A x \in Objs : runDone[x] => runDone'[x]
  /\ \A t \in Threads : pc[t] = "linkKick" => pc'[t] = pc[t]

LEMMA TouchesKeeps ==
  ASSUME TypeOK, ListInv, HwInv, NEW d \in Devs, Touches(d), DevOk(d)', DoneIsTrue',
         "abort" \notin Raised(d)'
  PROVE  HwInv'
<1>1. ASSUME NEW e \in Devs \ {d} PROVE DevOk(e)'
  <2>1. \A o \in Objs : Concerns(e, o) => SameBuf(o)
    BY ConcernsCore DEF Touches, SameBuf, HwInv
  <2>2. Elsewhere(e)
    BY <2>1 DEF Elsewhere, Touches, Kicks
  <2> QED
    BY <2>2, ElsewhereKeeps DEF HwInv
<1>2. NoAborts'
  <2>1. \A e \in Devs \ {d} : Raised(e)' = Raised(e)
    BY DEF Touches, Raised, Active
  <2> QED
    BY <2>1 DEF Touches, HwInv, NoAborts
<1>3. FreshJmp'
  <2>1. d # Nil
    OBVIOUS
  <2> QED
    BY <2>1 DEF Touches, HwInv, FreshJmp
<1> QED
  BY <1>1, <1>2, <1>3 DEF HwInv

LEMMA IsrEnterHw ==
  ASSUME TypeOK, LockOwners, ListInv, HwInv, NEW d \in Devs, IsrEnter(d)
  PROVE  HwInv'
<1> DEFINE w == workList[d]
<1>0. DevOk(d) /\ NoAborts /\ DoneIsTrue
  BY DEF HwInv
<1>1. /\ UNCHANGED <<workList, state, busErr, runDone, exeStatus, coreId, hasJmp, hw,
                     jmpNext, stale, pc, job, exeId, memId, abortReq, ran>>
      /\ irq[d] # {} /\ isr[d].at = "out"
  BY DEF IsrEnter, objVars, devVars, threadVars, LockOwners, LocksHeld
<1>2. /\ irq'[d] = {}
      /\ \A e \in Devs \ {d} : irq'[e] = irq[e]
  BY DEF IsrEnter, TypeOK, HwTypes
<1>3. /\ \A e \in Devs \ {d} : isr'[e] = isr[e]
      /\ \/ w = <<>> /\ isr'[d] = isr[d]
         \/ isr'[d].at = "read" /\ isr'[d].src = irq[d]
  <2>1. PICK r : r = [IsrIdle EXCEPT !.at = "read", !.src = irq[d]]
    OBVIOUS
  <2>2. r.at = "read" /\ r.src = irq[d]
    BY <2>1 DEF IsrIdle
  <2>3. UNCHANGED isr \/ isr' = [isr EXCEPT ![d] = r]
    BY <2>1 DEF IsrEnter
  <2>4. w = <<>> => UNCHANGED isr
    BY DEF IsrEnter
  <2>5. w # <<>> => isr' = [isr EXCEPT ![d] = r]
    BY <2>1 DEF IsrEnter
  <2> QED
    BY <2>2, <2>3, <2>4, <2>5 DEF TypeOK, DevTypes
<1>4. Touches(d)
  BY <1>1, <1>2, <1>3 DEF Touches
<1>5. /\ Active(d) = {} /\ Raised(d) = irq[d] /\ ToRead(d) = irq[d]
      /\ state[d] = "working"
  BY <1>0, <1>1 DEF Active, Raised, ToRead, DevOk, PowerOk
<1>6. "abort" \notin Raised(d)' /\ Raised(d)' \subseteq Raised(d)
  BY <1>0, <1>1, <1>2, <1>3, <1>5 DEF Raised, Active, NoAborts
<1>7. DoneIsTrue'
  BY <1>0, <1>1 DEF DoneIsTrue
<1>9. ChainOk(d)' /\ DonePrefix(d)' /\ StartOk(d)' /\ StallOk(d)'
  BY <1>0, <1>1, <1>5 DEF DevOk, ChainOk, DonePrefix, StartOk, StallOk, AtJmp, LastOn,
     RingPending
<1>10. CASE w = <<>> /\ isr'[d] = isr[d]
  <2>1. \A o : ~On(w, o)
    BY <1>10 DEF On
  <2>2. ~Unfinished(d) /\ hw[d] # "stall"
    BY <1>0, <2>1 DEF DevOk, RunOk, StallOk, LastOn, RingPending
  <2>3. ~Unfinished(d)' /\ Active(d)' = {} /\ ToRead(d)' = {} /\ Raised(d)' = {}
    BY <1>1, <1>2, <1>10, <2>2 DEF Unfinished, Raised, Active, ToRead
  <2>4. PowerOk(d)' /\ RunOk(d)' /\ BehindOk(d)' /\ MemOk(d)' /\ CurrOk(d)' /\ WalkOk(d)'
    BY <1>1, <1>5, <1>10, <2>2, <2>3 DEF PowerOk, RunOk, BehindOk, MemOk, CurrOk, WalkOk
  <2> QED
    BY <1>4, <1>6, <1>7, <1>9, <2>4, TouchesKeeps DEF DevOk
<1>11. CASE isr'[d].at = "read" /\ isr'[d].src = irq[d]
  <2>1. /\ Raised(d)' = Raised(d) /\ ToRead(d)' = ToRead(d) /\ Active(d)' = irq[d]
        /\ (Unfinished(d)' <=> Unfinished(d))
    BY <1>1, <1>2, <1>5, <1>11 DEF Raised, Active, ToRead, Unfinished
  <2>2. PowerOk(d)'
    BY <1>0, <1>1, <1>2, <1>5, <1>11, <2>1 DEF DevOk, PowerOk
  <2>3. RunOk(d)' /\ BehindOk(d)'
    BY <1>0, <1>1, <2>1 DEF DevOk, RunOk, BehindOk, RanOrDone
  <2>4. \A x \in Objs : Reached(d, x) => Reached(d, x)'
    BY <1>1, <2>1 DEF Reached, RanOrDone
  <2>5. MemOk(d)' /\ CurrOk(d)' /\ WalkOk(d)'
    BY <1>0, <1>1, <1>11, <2>1, <2>4 DEF DevOk, MemOk, CurrOk, WalkOk
  <2> QED
    BY <1>4, <1>6, <1>7, <1>9, <2>2, <2>3, <2>5, TouchesKeeps DEF DevOk
<1> QED
  BY <1>3, <1>10, <1>11

(* What it has read is a buffer of the list: one that the device reported, *)
(* or the one in the register.                                             *)
LEMMA IsrReadHw ==
  ASSUME TypeOK, ListInv, HwInv, NEW d \in Devs, IsrRead(d)
  PROVE  HwInv'
<1> DEFINE w == workList[d]
<1>0. DevOk(d) /\ NoAborts /\ DoneIsTrue
  BY DEF HwInv
<1>1. /\ UNCHANGED <<workList, state, busErr, runDone, exeStatus, coreId, hasJmp, hw, irq,
                     jmpNext, stale, pc, job, exeId, memId, abortReq, ran>>
      /\ isr[d].at = "read" /\ isr[d].node = Nil
  BY DEF IsrRead, objVars, devVars, threadVars, hwVars, ListInv, IsrSound, IsrOk
<1>2. /\ w \in Seq(Objs) /\ Distinct(w)
      /\ \A o \in Objs : On(w, o) => coreId[o] = d
      /\ \A o \in Objs : coreId[o] = d /\ ~runDone[o] => On(w, o)
      /\ \A a : On(w, a) => a \in Objs
  BY TheList, LinearOrder
<1>3. /\ Active(d) = isr[d].src /\ Raised(d) = irq[d] \cup isr[d].src
      /\ ToRead(d) = irq[d] \cup isr[d].src /\ state[d] = "working"
      /\ isr[d].src # {} /\ isr[d].src \subseteq Kinds
  BY <1>0, <1>1 DEF Active, Raised, ToRead, DevOk, PowerOk, TypeOK, DevTypes, IsrRecord
<1>5. ChainOk(d)' /\ DonePrefix(d)' /\ StartOk(d)' /\ StallOk(d)' /\ DoneIsTrue'
  BY <1>0, <1>1, <1>3 DEF DevOk, ChainOk, DonePrefix, StartOk, StallOk, AtJmp, LastOn,
     RingPending, DoneIsTrue
<1>6. PICK c : c = CurrentOf(d)
  OBVIOUS
<1>7. \/ isr[d].src \cap Err # {} /\ c = exeId[d] /\ On(w, c) /\ ~runDone[c] /\ c \in Objs
      \/ isr[d].src \cap Err = {} /\ c \in Objs /\ coreId[c] = d /\ Reached(d, c)
  <2>1. CASE isr[d].src \cap Err # {}
    <3>1. Unfinished(d) /\ c = exeId[d]
      BY <1>3, <1>6, <2>1 DEF Unfinished, CurrentOf
    <3> QED
      BY <1>0, <1>2, <2>1, <3>1 DEF DevOk, RunOk
  <2>2. CASE isr[d].src \cap Err = {}
    <3>1. isr[d].src \cap {"jmp", "end"} # {}
      BY <1>3, <2>2 DEF Kinds
    <3>2. c = memId[d] /\ ToRead(d) \cap {"jmp", "end"} # {}
      BY <1>3, <1>6, <2>2, <3>1 DEF CurrentOf
    <3> QED
      BY <1>0, <2>2, <3>2 DEF DevOk, MemOk
  <2> QED
    BY <2>1, <2>2
<1>8. c \in Objs /\ coreId[c] = d /\ (~runDone[c] => On(w, c))
  BY <1>2, <1>7 DEF Reached
<1>9. isr \in [Devs -> IsrRecord] /\ \A e \in Devs \ {d} : isr'[e] = isr[e]
  BY DEF IsrRead, IsrLeave, TypeOK, DevTypes
<1>10. Touches(d)
  BY <1>1, <1>9 DEF Touches
<1>12. HwInv'
  <2>1. isr' = [isr EXCEPT ![d].curr = c, ![d].at = FirstStep(c)]
    BY <1>6, <1>8 DEF IsrRead
  <2>2. /\ isr'[d].curr = c /\ isr'[d].src = isr[d].src /\ isr'[d].node = Nil
        /\ isr'[d].at = IF runDone[c] THEN "curr" ELSE "walk"
    BY <1>1, <1>9, <2>1 DEF IsrRecord, FirstStep
  <2>3. /\ Active(d)' = Active(d) /\ Raised(d)' = Raised(d) /\ ToRead(d)' = irq[d]
    BY <1>1, <1>3, <2>2 DEF Active, Raised, ToRead
  <2>4. Unfinished(d)' <=> Unfinished(d)
    BY <1>1, <2>3 DEF Unfinished
  <2>5. PowerOk(d)'
    BY <1>0, <1>1, <1>3, <2>2, <2>3 DEF DevOk, PowerOk
  <2>6. RunOk(d)' /\ BehindOk(d)'
    BY <1>0, <1>1, <2>4 DEF DevOk, RunOk, BehindOk, RanOrDone
  <2>7. \A x \in Objs : Reached(d, x) => Reached(d, x)'
    BY <1>1, <2>4 DEF Reached, RanOrDone
  <2>8. MemOk(d)'
    BY <1>0, <1>1, <1>3, <2>3, <2>7 DEF DevOk, MemOk
  <2>9. CurrOk(d)'
    BY <1>1, <1>7, <1>8, <2>2, <2>7 DEF CurrOk
  <2>10. WalkOk(d)'
    <3> SUFFICES ASSUME ~runDone[c] PROVE NextToReport(d, WalkNext(d))'
      BY <1>1, <2>2 DEF WalkOk
    <3>1. WalkNext(d)' = ItemAt(w, 1) /\ On(w, c)
      BY <1>1, <1>8, <2>2 DEF WalkNext
    <3>2. /\ ItemAt(w, 1) \in Objs /\ On(w, ItemAt(w, 1))
          /\ \A a : ~Before(w, a, ItemAt(w, 1))
          /\ ItemAt(w, 1) = c \/ Before(w, ItemAt(w, 1), c)
      BY <1>2, <3>1, FirstFacts
    <3> QED
      BY <1>1, <2>2, <3>1, <3>2 DEF NextToReport
  <2>11. "abort" \notin Raised(d)'
    BY <1>0, <2>3 DEF NoAborts
  <2> QED
    BY <1>5, <1>10, <2>5, <2>6, <2>8, <2>9, <2>10, <2>11, TouchesKeeps DEF DevOk
<1> QED
  BY <1>12

(* isr_process_node: the job becomes done, and leaves the list unless the  *)
(* device may still need its JMP.                                          *)
LEMMA Processed ==
  ASSUME TypeOK, ListInv, NEW d \in Devs, NEW o \in Objs, coreId[o] = d, ChainOk(d),
         NEW st, NEW status \in {"ok", "cmderr", "buserr"}, ProcessNode(st, d, o, status),
         UNCHANGED hasJmp
  PROVE  /\ ChainOk(d)' /\ runDone'[o]
         /\ \A x \in Objs \ {o} : runDone'[x] = runDone[x] /\ exeStatus'[x] = exeStatus[x]
         /\ exeStatus'[o] = IF runDone[o] THEN exeStatus[o] ELSE status
         /\ \/ workList'[d] = workList[d] /\ stale' = stale
            \/ /\ ~runDone[o] /\ CanDelink(st, d, o) /\ Loses(d, o)
               /\ ~On(workList'[d], o) /\ stale'[o].next = Nxt(workList[d], o)
         /\ \A x \in Objs : coreId[x] # d => jmpNext'[x] = jmpNext[x] /\ stale'[x] = stale[x]
         /\ \A x \in Objs : jmpNext'[x] # jmpNext[x] =>
              ~runDone[o] /\ On(workList[d], x) /\ Nxt(workList[d], x) = o
         /\ \A e \in Devs \ {d} : workList'[e] = workList[e]
<1>1. CASE runDone[o]
  <2>1. UNCHANGED <<runDone, exeStatus, jmpNext, stale, workList>>
    BY <1>1 DEF ProcessNode
  <2> QED
    BY <1>1, <2>1 DEF ChainOk
<1>2. CASE ~runDone[o]
  <2>1. /\ runDone' = [runDone EXCEPT ![o] = TRUE]
        /\ exeStatus' = [exeStatus EXCEPT ![o] = status]
        /\ IF linked[o] /\ CanDelink(st, d, o) THEN Unlink(d, o)
           ELSE UNCHANGED <<jmpNext, stale, workList, linked>>
    BY <1>2 DEF ProcessNode
  <2>2. /\ runDone'[o] /\ exeStatus'[o] = status
        /\ \A x \in Objs \ {o} : runDone'[x] = runDone[x] /\ exeStatus'[x] = exeStatus[x]
    BY <2>1 DEF TypeOK, ObjTypes
  <2>3. On(workList[d], o)
    BY <1>2, TheList
  <2>4. CASE CanDelink(st, d, o) /\ Unlink(d, o)
    <3>1. /\ ChainOk(d)' /\ Loses(d, o)
          /\ stale'[o].next = Nxt(workList[d], o) /\ ~On(workList'[d], o)
          /\ \A x \in Objs : coreId[x] # d => jmpNext'[x] = jmpNext[x] /\ stale'[x] = stale[x]
          /\ \A x \in Objs : jmpNext'[x] # jmpNext[x] =>
               On(workList[d], x) /\ Nxt(workList[d], x) = o
          /\ \A e \in Devs \ {d} : workList'[e] = workList[e]
      BY <2>3, <2>4, ChainUnlinked
    <3> QED
      BY <1>2, <2>2, <2>4, <3>1
  <2>5. CASE UNCHANGED <<jmpNext, stale, workList, linked>>
    <3>1. ChainOk(d)'
      BY <2>5 DEF ChainOk
    <3> QED
      BY <1>2, <2>2, <2>5, <3>1
  <2> QED
    BY <2>1, <2>4, <2>5
<1> QED
  BY <1>1, <1>2

(* A device stalls before a buffer that comes after all it has reported.   *)
LEMMA StallSettles ==
  ASSUME TypeOK, ListInv, NEW d \in Devs, DevOk(d), hw[d] = "stall", NEW o \in Objs,
         On(workList[d], o), o = exeId[d] \/ Before(workList[d], o, exeId[d]),
         \A x \in Objs : jmpNext'[x] # jmpNext[x] =>
           On(workList[d], x) /\ Nxt(workList[d], x) = o
  PROVE  /\ On(workList[d], exeId[d]) /\ hasJmp[exeId[d]]
         /\ jmpNext[exeId[d]] = Nxt(workList[d], exeId[d])
         /\ jmpNext'[exeId[d]] = jmpNext[exeId[d]] /\ o # jmpNext[exeId[d]]
<1> DEFINE w == workList[d]
<1>1. w \in Seq(Objs) /\ Distinct(w)
  BY TheList
<1>2. /\ \A a : On(w, a) => a \in Objs
      /\ \A a, b : Before(w, a, b) => On(w, a) /\ On(w, b) /\ a # b /\ ~Before(w, b, a)
  BY <1>1, LinearOrder
<1>3. PICK y : y = exeId[d]
  OBVIOUS
<1>4. On(w, y) /\ y \in Objs /\ hasJmp[y]
  BY <1>2, <1>3 DEF DevOk, StallOk, AtJmp
<1>5. jmpNext[y] = Nxt(w, y)
  BY <1>4 DEF DevOk, ChainOk
<1>6. Nxt(w, y) # Nil => Before(w, y, Nxt(w, y))
  BY <1>1, <1>4, NxtFacts
<1>7. o # Nxt(w, y)
  BY <1>2, <1>3, <1>6
<1> HIDE DEF w
<1>8. jmpNext'[y] = jmpNext[y]
  BY <1>4, <1>7 DEF w
<1> QED
  BY <1>3, <1>4, <1>5, <1>7, <1>8 DEF w

LEMMA WakesNoLinker ==
  ASSUME ListInv, NEW o \in Objs, NEW d \in Devs, pc' = PcAfterDone(o)
  PROVE  \A t \in Threads : pc[t] = "linkKick" => pc'[t] = pc[t]
<1>1. WakesSome(o)
  BY DoneWakes
<1> QED
  BY <1>1 DEF WakesSome

(* A node before the current one.                                          *)
LEMMA IsrWalkHw ==
  ASSUME TypeOK, ListInv, HwInv, NEW d \in Devs, IsrWalk(d)
  PROVE  HwInv'
<1> DEFINE w == workList[d]
           v == workList'[d]
<1>0. DevOk(d) /\ NoAborts /\ DoneIsTrue
  BY DEF HwInv
<1>1. /\ UNCHANGED <<state, busErr, coreId, hasJmp, hw, irq, job, exeId, memId, abortReq, ran>>
      /\ isr[d].at = "walk" /\ isr \in [Devs -> IsrRecord]
  BY DEF IsrWalk, hwVars, TypeOK, DevTypes
<1>2. /\ w \in Seq(Objs) /\ Distinct(w)
      /\ \A o \in Objs : On(w, o) => coreId[o] = d
      /\ \A o \in Objs : coreId[o] = d /\ ~runDone[o] => On(w, o)
  BY TheList
<1>3. /\ \A a : On(w, a) => a \in Objs
      /\ \A a, b : Before(w, a, b) => On(w, a) /\ On(w, b) /\ a # b /\ ~Before(w, b, a)
      /\ \A a, b, c : Before(w, a, b) /\ Before(w, b, c) => Before(w, a, c)
  BY <1>2, LinearOrder
<1>4. NextToReport(d, WalkNext(d))
  BY <1>0, <1>1 DEF DevOk, WalkOk
<1> PICK n \in Objs, c \in Objs : n = WalkNext(d) /\ c = isr[d].curr
  <2>1. WalkNext(d) \in Objs
    BY <1>3, <1>4 DEF NextToReport
  <2>2. isr[d].curr \in Objs
    BY <1>1 DEF IsrRecord, ObjOrNil, TypeOK, DevTypes
  <2> QED
    BY <2>1, <2>2
<1>5. /\ n # Nil /\ On(w, n) /\ \A o \in Objs : Before(w, o, n) => runDone[o]
      /\ n = c \/ Before(w, n, c)
  BY <1>4 DEF NextToReport
<1>6. /\ Active(d) = isr[d].src /\ Raised(d) = irq[d] \cup isr[d].src /\ ToRead(d) = irq[d]
      /\ state[d] = "working"
  BY <1>0, <1>1 DEF Active, Raised, ToRead, DevOk, PowerOk
<1>8. /\ ~runDone[c]
      /\ isr[d].src \cap Err # {} => c = exeId[d] /\ Unfinished(d)
      /\ isr[d].src \cap Err = {} => Reached(d, c)
  BY <1>0, <1>1, <1>6 DEF DevOk, CurrOk, Unfinished
<1>9. CASE n = c
  <2>1. isr' = [isr EXCEPT ![d].at = "curr"]
        /\ UNCHANGED <<runDone, exeStatus, jmpNext, stale, workList, pc>>
    BY <1>5, <1>9 DEF IsrWalk
  <2>2. /\ isr'[d].at = "curr" /\ isr'[d].src = isr[d].src /\ isr'[d].curr = c
        /\ \A e \in Devs \ {d} : isr'[e] = isr[e]
    BY <1>1, <2>1 DEF IsrRecord
  <2>3. /\ Active(d)' = Active(d) /\ Raised(d)' = Raised(d) /\ ToRead(d)' = ToRead(d)
        /\ (Unfinished(d)' <=> Unfinished(d))
    BY <1>1, <1>6, <2>2 DEF Active, Raised, ToRead, Unfinished
  <2>4. Touches(d) /\ DoneIsTrue'
    BY <1>0, <1>1, <2>1, <2>2 DEF Touches, DoneIsTrue
  <2>5. ChainOk(d)' /\ DonePrefix(d)' /\ StartOk(d)' /\ PowerOk(d)'
    BY <1>0, <1>1, <1>6, <2>1, <2>2, <2>3 DEF DevOk, ChainOk, DonePrefix, StartOk, PowerOk
  <2>6. RunOk(d)' /\ BehindOk(d)' /\ StallOk(d)'
    BY <1>0, <1>1, <2>1, <2>3 DEF DevOk, RunOk, BehindOk, StallOk, RanOrDone, AtJmp, LastOn,
       RingPending
  <2>7. \A x \in Objs : Reached(d, x) => Reached(d, x)'
    BY <1>1, <2>1, <2>3 DEF Reached, RanOrDone
  <2>8. MemOk(d)' /\ CurrOk(d)' /\ WalkOk(d)'
    <3>1. MemOk(d)'
      BY <1>0, <1>1, <2>3, <2>7, MemKept DEF DevOk
    <3> QED
      BY <1>1, <1>5, <1>8, <1>9, <2>1, <2>2, <2>7, <3>1 DEF CurrOk, WalkOk
  <2>9. "abort" \notin Raised(d)'
    BY <1>0, <2>3 DEF NoAborts
  <2> QED
    BY <2>4, <2>5, <2>6, <2>8, <2>9, TouchesKeeps DEF DevOk
<1>10. CASE n # c
  <2>1. /\ isr' = [isr EXCEPT ![d].node = n] /\ ProcessNode(state[d], d, n, "ok")
        /\ pc' = PcAfterDone(n)
    BY <1>5, <1>10 DEF IsrWalk
  <2>2. /\ isr'[d].at = "walk" /\ isr'[d].src = isr[d].src /\ isr'[d].curr = c
        /\ isr'[d].node = n /\ \A e \in Devs \ {d} : isr'[e] = isr[e]
    BY <1>1, <2>1 DEF IsrRecord
  <2>3. /\ Active(d)' = Active(d) /\ Raised(d)' = Raised(d) /\ ToRead(d)' = ToRead(d)
        /\ (Unfinished(d)' <=> Unfinished(d))
    BY <1>1, <1>6, <2>2 DEF Active, Raised, ToRead, Unfinished
  <2>4. Before(w, n, c) /\ coreId[n] = d /\ ChainOk(d)
    BY <1>0, <1>2, <1>5, <1>10 DEF DevOk
  <2>5. /\ ChainOk(d)' /\ runDone'[n]
        /\ \A x \in Objs \ {n} : runDone'[x] = runDone[x] /\ exeStatus'[x] = exeStatus[x]
        /\ exeStatus'[n] = IF runDone[n] THEN exeStatus[n] ELSE "ok"
        /\ \/ v = w /\ stale' = stale
           \/ /\ ~runDone[n] /\ CanDelink(state[d], d, n) /\ Loses(d, n)
              /\ ~On(v, n) /\ stale'[n].next = Nxt(w, n)
        /\ \A x \in Objs : coreId[x] # d => jmpNext'[x] = jmpNext[x] /\ stale'[x] = stale[x]
        /\ \A x \in Objs : jmpNext'[x] # jmpNext[x] => On(w, x) /\ Nxt(w, x) = n
        /\ \A e \in Devs \ {d} : workList'[e] = workList[e]
    BY <1>1, <2>1, <2>4, Processed
  <2>6. /\ RanOrDone(n)
        /\ Unfinished(d) => ~Before(w, exeId[d], n) /\ n # exeId[d]
    <3>1. CASE isr[d].src \cap Err # {}
      <4>1. c = exeId[d] /\ Unfinished(d)
        BY <1>8, <3>1
      <4> QED
        BY <1>0, <1>3, <2>4, <4>1 DEF DevOk, BehindOk
    <3>2. CASE isr[d].src \cap Err = {}
      <4>1. /\ \A o \in Objs : Before(w, o, c) => RanOrDone(o)
            /\ Unfinished(d) => Before(w, c, exeId[d])
        BY <1>8, <3>2 DEF Reached
      <4> QED
        BY <1>3, <2>4, <4>1
    <3> QED
      BY <3>1, <3>2
  <2>7. \A t \in Threads : pc[t] = "linkKick" => pc'[t] = pc[t]
    BY <2>1, WakesNoLinker
  <2>8. Touches(d)
    BY <1>1, <2>2, <2>4, <2>5, <2>7 DEF Touches
  <2>9. DoneIsTrue'
    BY <1>0, <1>1, <2>5, <2>6 DEF DoneIsTrue, RanOrDone
  <2>10. Settles(d, n)
    <3>1. hw[d] = "stall" => Before(w, n, exeId[d])
      <4> SUFFICES ASSUME hw[d] = "stall" PROVE Before(w, n, exeId[d])
        OBVIOUS
      <4>1. isr[d].src \cap Err = {}
        <5>1. hw[d] # "off" => (irq[d] \cup isr[d].src) \cap Stops = {}
          BY <1>0, <1>6 DEF DevOk, PowerOk
        <5>2. "abort" \notin isr[d].src
          BY <1>0, <1>6 DEF NoAborts
        <5> QED
          BY <5>1, <5>2 DEF Err, Stops
      <4>2. PICK y : y = exeId[d]
        OBVIOUS
      <4>3. c = y \/ Before(w, c, y)
        BY <1>8, <4>1, <4>2 DEF Reached
      <4> HIDE DEF w
      <4>4. Before(w, n, y)
        BY <1>3, <2>4, <4>3
      <4> QED
        BY <4>2, <4>4
    <3>2. hw[d] = "stall" =>
            n # exeId[d] /\ jmpNext'[exeId[d]] = jmpNext[exeId[d]] /\ n # jmpNext[exeId[d]]
      BY <1>0, <1>3, <1>5, <2>5, <3>1, StallSettles
    <3> QED
      BY <1>1, <1>5, <2>3, <2>5, <2>6, <2>7, <3>2 DEF Settles
  <2>11. /\ DonePrefix(d)' /\ RunOk(d)' /\ BehindOk(d)' /\ StallOk(d)'
         /\ \A x \in Objs : Reached(d, x) => Reached(d, x)'
    BY <1>0, <1>1, <2>10, SettlesKeeps
  <2>12. PowerOk(d)' /\ StartOk(d)' /\ MemOk(d)'
    <3>1. MemOk(d)'
      BY <1>0, <1>1, <2>3, <2>11, MemKept DEF DevOk
    <3>2. \A t \in Threads : Kicks(t, d) => Kicks(t, d)'
      BY <1>1, <2>7 DEF Kicks
    <3> QED
      BY <1>0, <1>1, <1>6, <2>2, <2>3, <2>11, <3>1, <3>2 DEF DevOk, PowerOk, StartOk
  <2>13. CurrOk(d)'
    BY <1>1, <1>8, <1>10, <2>2, <2>5, <2>11 DEF CurrOk
  <2>14. WalkOk(d)'
    <3>1. /\ Nxt(w, n) # Nil /\ Before(w, n, Nxt(w, n))
          /\ \A x : Before(w, x, Nxt(w, n)) => x = n \/ Before(w, x, n)
          /\ c = Nxt(w, n) \/ Before(w, Nxt(w, n), c)
      BY <1>2, <1>5, <2>4, NxtFacts
    <3> PICK m \in Objs : m = Nxt(w, n)
      BY <1>3, <3>1
    <3>2. WalkNext(d)' = m
      <4>1. WalkNext(d)' = IF On(v, n) THEN Nxt(v, n) ELSE stale'[n].next
        BY <2>2 DEF WalkNext, NextOf, Nxt
      <4> QED
        BY <1>5, <2>5, <4>1
    <3>3. /\ \A a, b : Before(v, a, b) => Before(w, a, b)
          /\ \A a : On(w, a) /\ a # n => On(v, a)
          /\ \A a, b : Before(w, a, b) /\ a # n /\ b # n => Before(v, a, b)
      BY <2>5 DEF Loses
    <3> HIDE DEF v
    <3>4. On(v, m) /\ (m = c \/ Before(v, m, c))
      BY <1>3, <1>10, <3>1, <3>3
    <3>5. \A o \in Objs : Before(v, o, m) => runDone'[o]
      BY <1>5, <2>5, <3>1, <3>3
    <3> QED
      BY <2>2, <3>2, <3>4, <3>5 DEF WalkOk, NextToReport, v
  <2>15. "abort" \notin Raised(d)'
    BY <1>0, <2>3 DEF NoAborts
  <2> QED
    BY <2>5, <2>8, <2>9, <2>11, <2>12, <2>13, <2>14, <2>15, TouchesKeeps DEF DevOk
<1> QED
  BY <1>9, <1>10

(* A buffer that failed: it is the first that is not done, and the device  *)
(* has stopped.                                                            *)
LEMMA IsrErrorHw ==
  ASSUME TypeOK, ListInv, HwInv, NEW d \in Devs, IsrBusErr(d) \/ IsrCmdErr(d)
  PROVE  HwInv'
<1> DEFINE w == workList[d]
<1>0. DevOk(d) /\ NoAborts /\ DoneIsTrue
  BY DEF HwInv
<1>1. /\ UNCHANGED <<coreId, hasJmp, hw, irq, job, exeId, memId, abortReq, ran>>
      /\ isr[d].at = "curr" /\ isr \in [Devs -> IsrRecord]
      /\ isr[d].src \cap Err # {} /\ isr[d].src \cap Stops # {}
  BY DEF IsrBusErr, IsrCmdErr, hwVars, TypeOK, DevTypes, Err, Stops
<1> PICK c \in Objs : c = isr[d].curr
  BY <1>1 DEF IsrRecord, ObjOrNil, TypeOK, DevTypes
<1> PICK kind \in {"cmderr", "buserr"} :
      /\ ProcessNode("idle", d, c, kind) /\ pc' = PcAfterDone(c)
      /\ state' = [state EXCEPT ![d] = "idle"]
      /\ \/ isr' = [isr EXCEPT ![d].at = "start"] /\ UNCHANGED busErr
         \/ isr' = [isr EXCEPT ![d] = IsrIdle] /\ busErr' = [busErr EXCEPT ![d] = TRUE]
  BY DEF IsrBusErr, IsrCmdErr, IsrLeave
<1>2. Active(d) = isr[d].src /\ Raised(d) = irq[d] \cup isr[d].src
  BY <1>1 DEF Active, Raised
<1>3. Unfinished(d) /\ hw[d] = "off" /\ irq[d] = {}
  BY <1>0, <1>1, <1>2 DEF DevOk, PowerOk, Unfinished
<1>4. /\ c = exeId[d] /\ On(w, c) /\ ~runDone[c] /\ coreId[c] = d
      /\ \A o \in Objs : Before(w, o, c) => runDone[o]
  <2>1. c = exeId[d]
    BY <1>0, <1>1 DEF DevOk, CurrOk
  <2>2. On(w, c) /\ ~runDone[c]
    BY <1>0, <1>3, <2>1 DEF DevOk, RunOk
  <2> QED
    BY <1>0, <1>1, <2>1, <2>2, TheList DEF DevOk, CurrOk
<1>5. /\ ChainOk(d)' /\ runDone'[c]
      /\ \A x \in Objs \ {c} : runDone'[x] = runDone[x] /\ exeStatus'[x] = exeStatus[x]
      /\ exeStatus'[c] = kind
      /\ workList'[d] = w \/ Loses(d, c)
      /\ \A x \in Objs : coreId[x] # d => jmpNext'[x] = jmpNext[x] /\ stale'[x] = stale[x]
      /\ \A e \in Devs \ {d} : workList'[e] = workList[e]
  BY <1>0, <1>1, <1>4, Processed DEF DevOk
<1>6. /\ state'[d] = "idle" /\ \A e \in Devs \ {d} : state'[e] = state[e]
      /\ \A e \in Devs \ {d} : isr'[e] = isr[e] /\ busErr'[e] = busErr[e]
      /\ \/ isr'[d].at = "start" /\ busErr'[d] = busErr[d]
         \/ isr'[d].at = "out" /\ busErr'[d]
  BY <1>1 DEF IsrRecord, IsrIdle, TypeOK, DevTypes
<1>7. \A t \in Threads : pc[t] = "linkKick" => pc'[t] = pc[t]
  BY WakesNoLinker
<1>8. Touches(d)
  BY <1>1, <1>3, <1>4, <1>5, <1>6, <1>7 DEF Touches
<1>9. DoneIsTrue'
  BY <1>0, <1>1, <1>5 DEF DoneIsTrue
<1>10. /\ Active(d)' = {} /\ Raised(d)' = {} /\ ToRead(d)' = {} /\ ~Unfinished(d)'
       /\ hw'[d] = "off" /\ irq'[d] = {}
  BY <1>1, <1>3, <1>6 DEF Active, Raised, ToRead, Unfinished
<1>11. DonePrefix(d)'
  BY <1>0, <1>4, <1>5, PrefixGrows DEF DevOk
<1>12. /\ PowerOk(d)' /\ RunOk(d)' /\ BehindOk(d)' /\ StallOk(d)' /\ MemOk(d)' /\ CurrOk(d)'
       /\ WalkOk(d)' /\ StartOk(d)'
  BY <1>6, <1>10 DEF PowerOk, RunOk, BehindOk, StallOk, MemOk, CurrOk, WalkOk, StartOk
<1> QED
  BY <1>5, <1>8, <1>9, <1>10, <1>11, <1>12, TouchesKeeps DEF DevOk

(* The buffer that the device reported; after an END the device is off.    *)
LEMMA IsrDoneHw ==
  ASSUME TypeOK, ListInv, HwInv, NEW d \in Devs, IsrDone(d)
  PROVE  HwInv'
<1> DEFINE w == workList[d]
<1>0. DevOk(d) /\ NoAborts /\ DoneIsTrue
  BY DEF HwInv
<1>1. /\ UNCHANGED <<coreId, hasJmp, hw, irq, job, exeId, memId, abortReq, ran, busErr>>
      /\ isr[d].at = "curr" /\ isr \in [Devs -> IsrRecord] /\ isr[d].src \cap Err = {}
  BY DEF IsrDone, hwVars, TypeOK, DevTypes
<1> PICK c \in Objs : c = isr[d].curr
  BY <1>1 DEF IsrRecord, ObjOrNil, TypeOK, DevTypes
<1>2. /\ ProcessNode(state[d], d, c, "ok") /\ pc' = PcAfterDone(c)
      /\ \/ /\ "end" \in isr[d].src /\ state' = [state EXCEPT ![d] = "idle"]
            /\ isr' = [isr EXCEPT ![d].at = "start"]
         \/ /\ UNCHANGED state /\ isr' = [isr EXCEPT ![d] = IsrIdle]
  BY DEF IsrDone, IsrLeave
<1>3. /\ w \in Seq(Objs) /\ Distinct(w) /\ coreId[c] = d
      /\ \A a, b : Before(w, a, b) => On(w, a) /\ On(w, b) /\ a # b /\ ~Before(w, b, a)
  BY <1>1, TheList, LinearOrder DEF ListInv, IsrSound, IsrOk
<1>4. /\ Active(d) = isr[d].src /\ Raised(d) = irq[d] \cup isr[d].src
      /\ state[d] = "working"
  BY <1>0, <1>1 DEF Active, Raised, DevOk, PowerOk
<1>5. /\ runDone[c] \/ /\ On(w, c) /\ c \in ran
                       /\ Unfinished(d) => Before(w, c, exeId[d])
                       /\ hw[d] = "stall" => c = exeId[d] \/ Before(w, c, exeId[d])
      /\ \A o \in Objs : Before(w, o, c) => runDone[o]
  <2>1. Reached(d, c) /\ (runDone[c] \/ \A o \in Objs : Before(w, o, c) => runDone[o])
    BY <1>0, <1>1 DEF DevOk, CurrOk
  <2> QED
    BY <1>0, <2>1 DEF Reached, DevOk, DonePrefix
<1>7. /\ ChainOk(d)' /\ runDone'[c]
      /\ \A x \in Objs \ {c} : runDone'[x] = runDone[x] /\ exeStatus'[x] = exeStatus[x]
      /\ exeStatus'[c] = IF runDone[c] THEN exeStatus[c] ELSE "ok"
      /\ workList'[d] = w \/ (~runDone[c] /\ CanDelink(state[d], d, c) /\ Loses(d, c))
      /\ \A x \in Objs : coreId[x] # d => jmpNext'[x] = jmpNext[x] /\ stale'[x] = stale[x]
      /\ \A x \in Objs : jmpNext'[x] # jmpNext[x] =>
           ~runDone[c] /\ On(w, x) /\ Nxt(w, x) = c
      /\ \A e \in Devs \ {d} : workList'[e] = workList[e]
  BY <1>0, <1>1, <1>2, <1>3, Processed DEF DevOk
<1>8. /\ \A e \in Devs \ {d} : state'[e] = state[e] /\ isr'[e] = isr[e]
      /\ \/ "end" \in isr[d].src /\ state'[d] = "idle" /\ isr'[d].at = "start"
         \/ state'[d] = "working" /\ isr'[d].at = "out"
  <2>1. state \in [Devs -> {"power_on", "idle", "working"}]
    BY DEF TypeOK, DevTypes
  <2> QED
    BY <1>1, <1>2, <1>4, <2>1 DEF IsrRecord, IsrIdle
<1>9. \A t \in Threads : pc[t] = "linkKick" => pc'[t] = pc[t]
  BY <1>2, WakesNoLinker
<1>10. Touches(d)
  BY <1>1, <1>3, <1>7, <1>8, <1>9 DEF Touches
<1>11. DoneIsTrue'
  BY <1>0, <1>1, <1>5, <1>7 DEF DoneIsTrue
<1>12. /\ Active(d)' = {} /\ Raised(d)' = irq[d] /\ ToRead(d)' = irq[d] /\ ToRead(d) = irq[d]
       /\ (Unfinished(d)' <=> Unfinished(d))
  BY <1>1, <1>4, <1>8 DEF Active, Raised, ToRead, Unfinished
<1>13. Settles(d, c)
  <2>1. Unfinished(d) => c # exeId[d] /\ (runDone[c] \/ ~Before(w, exeId[d], c))
    BY <1>0, <1>3, <1>5 DEF DevOk, RunOk
  <2>2. ASSUME hw[d] = "stall"
        PROVE  /\ jmpNext'[exeId[d]] = jmpNext[exeId[d]] /\ c # jmpNext[exeId[d]]
               /\ c = exeId[d] /\ jmpNext[exeId[d]] = Nil => workList'[d] = w
    <3>1. exeId[d] \in Objs
      BY <2>2, ConcernsCore, NilAssumption DEF TypeOK, HwTypes, ObjOrNil, UsedByHw, Concerns,
         DevOk, StallOk, AtJmp
    <3>2. CASE runDone[c]
      <4>1. c # jmpNext[exeId[d]]
        BY <1>0, <2>2, <3>2, NilAssumption DEF DevOk, StallOk, RingPending
      <4> QED
        BY <1>7, <3>1, <3>2, <4>1
    <3>3. CASE ~runDone[c]
      <4>1. /\ On(w, exeId[d]) /\ hasJmp[exeId[d]] /\ jmpNext[exeId[d]] = Nxt(w, exeId[d])
            /\ jmpNext'[exeId[d]] = jmpNext[exeId[d]] /\ c # jmpNext[exeId[d]]
        BY <1>0, <1>5, <1>7, <2>2, <3>3, StallSettles
      <4>2. c = exeId[d] /\ jmpNext[exeId[d]] = Nil => ~CanDelink(state[d], d, c)
        BY <1>4, <4>1 DEF CanDelink, NextOf, Nxt
      <4> QED
        BY <1>7, <4>1, <4>2
    <3> QED
      BY <3>2, <3>3
  <2> QED
    BY <1>1, <1>5, <1>7, <1>9, <1>12, <2>1, <2>2 DEF Settles
<1>14. /\ DonePrefix(d)' /\ RunOk(d)' /\ BehindOk(d)' /\ StallOk(d)'
       /\ \A x \in Objs : Reached(d, x) => Reached(d, x)'
  BY <1>0, <1>1, <1>13, SettlesKeeps
<1>15. PowerOk(d)'
  <2>1. "end" \in isr[d].src => hw[d] = "off" /\ irq[d] = {}
    BY <1>0, <1>4 DEF DevOk, PowerOk, Stops
  <2> QED
    BY <1>0, <1>1, <1>4, <1>8, <1>12, <2>1 DEF DevOk, PowerOk
<1>16. MemOk(d)' /\ CurrOk(d)' /\ WalkOk(d)' /\ StartOk(d)'
  <2>1. MemOk(d)'
    BY <1>0, <1>1, <1>12, <1>14, MemKept DEF DevOk
  <2> QED
    BY <1>0, <1>1, <1>4, <1>8, <1>14, <2>1 DEF DevOk, CurrOk, WalkOk, StartOk
<1>17. "abort" \notin Raised(d)'
  BY <1>0, <1>4, <1>12 DEF NoAborts
<1> QED
  BY <1>7, <1>10, <1>11, <1>14, <1>15, <1>16, <1>17, TouchesKeeps DEF DevOk

(* The restart after an END or an error.                                   *)
LEMMA IsrStartHw ==
  ASSUME TypeOK, ListInv, HwInv, NEW d \in Devs, IsrStart(d)
  PROVE  HwInv'
<1>0. DevOk(d) /\ NoAborts /\ DoneIsTrue
  BY DEF HwInv
<1>1. /\ UNCHANGED <<workList, busErr, runDone, exeStatus, coreId, hasJmp, irq, jmpNext,
                     stale, pc, job, memId, ran>>
      /\ isr[d].at = "start" /\ StartDev(d) /\ isr' = [isr EXCEPT ![d] = IsrIdle]
  BY DEF IsrStart, objVars, threadVars, IsrLeave
<1>2. /\ isr'[d].at = "out" /\ \A e \in Devs \ {d} : isr'[e] = isr[e]
  BY <1>1 DEF IsrIdle, TypeOK, DevTypes
<1>3. state[d] # "working" /\ irq[d] = {} /\ ~abortReq[d]
  BY <1>0, <1>1 DEF DevOk, PowerOk, NoAborts
<1>4. OutOfDev(d)'
  BY <1>1, <1>2, <1>3 DEF OutOfDev
<1>5. /\ DevOk(d)' /\ ~abortReq'[d]
      /\ \A e \in Devs \ {d} : /\ state'[e] = state[e] /\ hw'[e] = hw[e]
                               /\ exeId'[e] = exeId[e] /\ abortReq'[e] = abortReq[e]
  BY <1>0, <1>1, <1>3, <1>4, StartKeeps
<1>6. ASSUME NEW e \in Devs \ {d} PROVE DevOk(e)'
  <2>1. Elsewhere(e)
    BY <1>1, <1>2, <1>5 DEF Elsewhere, Kicks, SameBuf
  <2> QED
    BY <2>1, ElsewhereKeeps DEF HwInv
<1>7. NoAborts'
  <2>1. Raised(d)' = {}
    BY <1>4 DEF OutOfDev, Raised, Active
  <2>2. \A e \in Devs \ {d} : Raised(e)' = Raised(e)
    BY <1>1, <1>2 DEF Raised, Active
  <2> QED
    BY <1>0, <1>5, <2>1, <2>2 DEF NoAborts
<1>8. FreshJmp' /\ DoneIsTrue'
  BY <1>1 DEF HwInv, FreshJmp, DoneIsTrue
<1> QED
  BY <1>5, <1>6, <1>7, <1>8 DEF HwInv

LEMMA KthreadHw ==
  ASSUME TypeOK, LockOwners, ListInv, HwInv, NEW d \in Devs, KthreadBusErr(d)
  PROVE  HwInv'
<1>0. DevOk(d) /\ NoAborts /\ DoneIsTrue
  BY DEF HwInv
<1>1. /\ UNCHANGED <<workList, runDone, exeStatus, coreId, hasJmp, irq, jmpNext, isr,
                     stale, pc, job, memId, ran>>
      /\ busErr[d] /\ busErr' = [busErr EXCEPT ![d] = FALSE]
      /\ IF state[d] = "idle" THEN StartDev(d)
         ELSE UNCHANGED <<state, hw, exeId, abortReq>>
  BY DEF KthreadBusErr, objVars, threadVars
<1>2. ~busErr'[d] /\ \A e \in Devs \ {d} : busErr'[e] = busErr[e]
  BY <1>1 DEF TypeOK, DevTypes
<1>3. isr[d].at = "out" /\ ~abortReq[d]
  BY <1>0 DEF KthreadBusErr, LockOwners, LocksHeld, NoAborts
<1>4. /\ DevOk(d)' /\ ~abortReq'[d]
      /\ \A e \in Devs \ {d} : /\ state'[e] = state[e] /\ hw'[e] = hw[e]
                               /\ exeId'[e] = exeId[e] /\ abortReq'[e] = abortReq[e]
  <2>1. CASE state[d] = "idle"
    <3>1. OutOfDev(d)'
      BY <1>0, <1>1, <1>3, <2>1 DEF DevOk, PowerOk, OutOfDev
    <3> QED
      BY <1>0, <1>1, <1>2, <1>3, <2>1, <3>1, StartKeeps
  <2>2. CASE state[d] # "idle"
    <3>1. UNCHANGED <<state, hw, exeId, abortReq>>
      BY <1>1, <2>2
    <3>2. state[d] = "working"
      BY <1>0, <1>1, <2>2 DEF DevOk, PowerOk, TypeOK, DevTypes
    <3>3. /\ Active(d)' = Active(d) /\ Raised(d)' = Raised(d) /\ ToRead(d)' = ToRead(d)
          /\ (Unfinished(d)' <=> Unfinished(d))
      BY <1>1, <3>1 DEF Active, Raised, ToRead, Unfinished
    <3>4. PowerOk(d)' /\ ChainOk(d)' /\ DonePrefix(d)' /\ RunOk(d)' /\ BehindOk(d)'
      BY <1>0, <1>1, <1>2, <3>1, <3>3
         DEF DevOk, PowerOk, ChainOk, DonePrefix, RunOk, BehindOk, RanOrDone
    <3>5. MemOk(d)'
      BY <1>0, <1>1, <3>1, <3>3, MemKept DEF DevOk, Reached, RanOrDone
    <3>6. StallOk(d)' /\ CurrOk(d)' /\ WalkOk(d)' /\ StartOk(d)'
      BY <1>0, <1>1, <1>3, <3>1, <3>2
         DEF DevOk, StallOk, AtJmp, LastOn, RingPending, CurrOk, WalkOk, StartOk
    <3> QED
      BY <1>3, <3>1, <3>4, <3>5, <3>6 DEF DevOk
  <2> QED
    BY <2>1, <2>2
<1>5. ASSUME NEW e \in Devs \ {d} PROVE DevOk(e)'
  <2>1. Elsewhere(e)
    BY <1>1, <1>2, <1>4 DEF Elsewhere, Kicks, SameBuf
  <2> QED
    BY <2>1, ElsewhereKeeps DEF HwInv
<1>6. NoAborts'
  <2>1. \A e \in Devs : Raised(e)' = Raised(e)
    BY <1>1 DEF Raised, Active
  <2> QED
    BY <1>0, <1>4, <2>1 DEF NoAborts
<1>7. FreshJmp' /\ DoneIsTrue'
  BY <1>1 DEF HwInv, FreshJmp, DoneIsTrue
<1> QED
  BY <1>4, <1>5, <1>6, <1>7 DEF HwInv

LEMMA IsrStepsHw ==
  ASSUME TypeOK, LockOwners, ListInv, HwInv, NEW d \in Devs, Isr(d)
  PROVE  HwInv'
<1>1. ~IsrAbort(d)
  BY DEF HwInv, NoAborts, Raised, Active, IsrAbort
<1> QED
  BY <1>1, IsrEnterHw, IsrReadHw, IsrWalkHw, IsrErrorHw, IsrDoneHw, IsrStartHw DEF Isr

---------------------------------------------------------------------------
(* The invariant holds of every behaviour.                                 *)
LEMMA ThreadsHw ==
  ASSUME TypeOK, LockOwners, ListInv, HwInv, NoDropCalls, ~EngineRace, NEW t \in Threads,
         InCall(t) \/ Calls(t) \/ Signals(t)
  PROVE  HwInv'
<1>1. CASE \/ \E w \in Workloads : ReserveCharge(t, w)
           \/ ReserveWait(t) \/ ReserveInterrupted(t) \/ LinkSem(t) \/ LinkInterrupted(t)
           \/ WaitAny(t) \/ WaitSleep(t) \/ WaitNothing(t) \/ WaitInterrupted(t)
           \/ \E o \in Objs : WaitJob(t, o) \/ WaitGot(t, o) \/ ReleaseCall(t, o)
           \/ ReleaseAccount(t)
  BY <1>1, PlainStepsHw
<1>2. CASE \E o \in Objs : LinkCall(t, o)
  BY <1>2, LinkCallHw
<1>3. CASE ReserveTake(t)
  BY <1>3, ReserveTakeHw
<1>4. CASE LinkScan(t) \/ LinkLeastLoaded(t)
  BY <1>4, LinkScanHw
<1>5. CASE LinkKick(t)
  BY <1>5, LinkKickHw
<1>6. CASE LinkPrev(t)
  BY <1>6, LinkPrevHw
<1>7. CASE ReleaseLock(t)
  BY <1>7, ReleaseLockHw
<1> QED
  BY <1>1, <1>2, <1>3, <1>4, <1>5, <1>6, <1>7, NoDrops
     DEF InCall, Calls, Signals, Link, Wait, Release

LEMMA NextHw ==
  ASSUME TypeOK, LockOwners, ListInv, HwInv, NoDropCalls, [Next]_vars, [~EngineRace]_vars
  PROVE  HwInv'
<1>1. CASE UNCHANGED vars
  BY <1>1, NothingKept DEF vars, objVars, devVars, hwVars, threadVars
<1>2. ASSUME NEW t \in Threads, InCall(t) \/ Calls(t) \/ Signals(t) PROVE HwInv'
  <2>1. ~UNCHANGED vars => ~EngineRace
    OBVIOUS
  <2> QED
    BY <1>1, <1>2, <2>1, ThreadsHw
<1>3. ASSUME NEW d \in Devs, Isr(d) \/ KthreadBusErr(d) \/ Hw(d) PROVE HwInv'
  BY <1>3, IsrStepsHw, KthreadHw, HwStepsHw
<1> QED
  BY <1>1, <1>2, <1>3 DEF Next

LEMMA InitHw == Init => HwInv
<1> SUFFICES ASSUME Init PROVE HwInv
  OBVIOUS
<1>1. NoAborts /\ FreshJmp /\ DoneIsTrue
  BY DEF Init, NoAborts, FreshJmp, DoneIsTrue, Raised, Active, IsrIdle
<1>2. ASSUME NEW d \in Devs PROVE DevOk(d)
  <2>1. /\ hw[d] = "off" /\ irq[d] = {} /\ isr[d].at = "out" /\ workList[d] = <<>>
        /\ ~busErr[d]
    BY DEF Init, IsrIdle
  <2>2. \A a, b : ~On(workList[d], a) /\ ~Before(workList[d], a, b)
    BY <2>1 DEF On, Before
  <2>3. Raised(d) = {} /\ Active(d) = {} /\ ToRead(d) = {} /\ ~Unfinished(d)
    BY <2>1 DEF Raised, Active, ToRead, Unfinished
  <2> QED
    BY <2>1, <2>2, <2>3 DEF DevOk, PowerOk, ChainOk, DonePrefix, RunOk, BehindOk, StallOk,
       MemOk, CurrOk, WalkOk, StartOk, ToRun
<1> QED
  BY <1>1, <1>2 DEF HwInv

LEMMA SafetyHw ==
  ASSUME NoDropCalls
  PROVE  Safety /\ [][~EngineRace]_vars => [](TypeOK /\ ListInv /\ HwInv)
<1>1. ASSUME TypeOK, LockOwners, ListInv, HwInv, [Next]_vars, [~EngineRace]_vars
      PROVE  HwInv'
  BY <1>1, NextHw
<1>2. [~EngineRace]_vars => [~ListRace]_vars
  BY DEF EngineRace
<1> QED
  BY <1>1, <1>2, InitHw, SafetyLists, SafetyTypes, SafetyLocks, PTL DEF Safety

---------------------------------------------------------------------------
(* On one CPU, where an interrupt is served before a thread goes on, and   *)
(* with link and release calls that do not overlap, no step is a race.     *)
OneCpu == ~Smp /\ SerialCalls
OneBusyCall == \A t, u \in Threads : pc[t] \in Busy /\ pc[u] \in Busy => t = u
StalledKept == \A d \in Devs : hw[d] = "stall" => exeId[d] \notin avail

LEMMA StepKinds ==
  ASSUME TypeOK, ListInv, HwInv, NoDropCalls, Next
  PROVE  \/ avail' = avail /\ \A u \in Threads : pc'[u] \in Busy => pc[u] \in Busy
         \/ \E t \in Threads : \/ ReserveTake(t) \/ ReleaseLock(t) \/ LinkPrev(t)
                               \/ \E o \in Objs : LinkCall(t, o) \/ ReleaseCall(t, o)
<1> USE DEF poolVars, devVars, threadVars, Busy, LinkPcs, ReleasePcs
<1>0. pc \in [Threads -> Locs]
  BY DEF TypeOK, ThreadTypes
<1>1. ASSUME NEW t \in Threads, InCall(t) \/ Calls(t) \/ Signals(t),
             ~ReserveTake(t), ~ReleaseLock(t), ~LinkPrev(t),
             \A o \in Objs : ~LinkCall(t, o) /\ ~ReleaseCall(t, o)
      PROVE  avail' = avail /\ \A u \in Threads : pc'[u] \in Busy => pc[u] \in Busy
  <2>1. CASE InCall(t)
    BY <1>0, <1>1, <2>1, NoDrops DEF InCall, Link, Wait, Release, ReserveWait, LinkSem,
       LinkScan, LinkLeastLoaded, LinkKick, WaitGot, WaitNothing, WaitSleep, ReleaseAccount
  <2>2. CASE Calls(t)
    BY <1>0, <1>1, <2>2, NoDrops DEF Calls, ReserveCharge, WaitJob, WaitAny
  <2>3. CASE Signals(t)
    BY <1>0, <1>1, <2>3, NoDrops DEF Signals, ReserveInterrupted, LinkInterrupted,
       WaitInterrupted
  <2> QED
    BY <1>1, <2>1, <2>2, <2>3
<1>2. ASSUME NEW d \in Devs, Isr(d)
      PROVE  avail' = avail /\ \A u \in Threads : pc'[u] \in Busy => pc[u] \in Busy
  <2>1. ~IsrAbort(d)
    BY DEF HwInv, NoAborts, Raised, Active, IsrAbort
  <2>2. avail' = avail
    BY <1>2, <2>1 DEF Isr, IsrEnter, IsrRead, IsrWalk, IsrBusErr, IsrCmdErr, IsrDone, IsrStart
  <2>3. pc' = pc \/ \E o \in Objs : pc' = PcAfterDone(o)
    <3>1. isr[d].at \in {"walk", "curr"} => isr[d].curr \in Objs
      BY DEF TypeOK, DevTypes, IsrRecord, ObjOrNil
    <3>2. isr[d].at = "walk" => WalkNext(d) \in Objs
      <4>1. isr[d].at = "walk" => On(workList[d], WalkNext(d))
        BY DEF HwInv, DevOk, WalkOk, NextToReport
      <4> QED
        BY <4>1, TheList, LinearOrder
    <3> QED
      BY <1>2, <2>1, <3>1, <3>2 DEF Isr, IsrEnter, IsrRead, IsrWalk, IsrBusErr, IsrCmdErr,
         IsrDone, IsrStart
  <2> QED
    BY <2>2, <2>3, DoneWakes DEF WakesSome
<1>3. ASSUME NEW d \in Devs, KthreadBusErr(d) \/ Hw(d)
      PROVE  avail' = avail /\ \A u \in Threads : pc'[u] \in Busy => pc[u] \in Busy
  BY <1>3 DEF KthreadBusErr, Hw, HwFinish, HwAbortStalled, HwError
<1> QED
  BY <1>1, <1>2, <1>3 DEF Next

LEMMA CallsApart ==
  ASSUME TypeOK, ListInv, HwInv, NoDropCalls, SerialCalls, OneBusyCall, Next
  PROVE  /\ OneBusyCall'
         /\ \A o \in Objs : o \notin avail /\ o \in avail' =>
              \A u \in Threads : pc'[u] \notin Busy
<1>0. pc \in [Threads -> Locs] /\ avail \subseteq Objs
  BY DEF TypeOK, ThreadTypes, PoolTypes
<1>1. CASE avail' = avail /\ \A u \in Threads : pc'[u] \in Busy => pc[u] \in Busy
  BY <1>1 DEF OneBusyCall
<1>2. ASSUME NEW t \in Threads, ReserveTake(t)
      PROVE  avail' \subseteq avail /\ \A u \in Threads : pc'[u] \in Busy => pc[u] \in Busy
  BY <1>0, <1>2 DEF ReserveTake, Busy, LinkPcs, ReleasePcs
<1>3. ASSUME NEW t \in Threads, ReleaseLock(t) \/ LinkPrev(t)
      PROVE  \A u \in Threads : pc'[u] \notin Busy
  <2>1. /\ pc[t] \in Busy /\ pc'[t] = "user"
        /\ \A u \in Threads \ {t} : pc'[u] = pc[u]
    BY <1>0, <1>3 DEF ReleaseLock, LinkPrev, Busy, LinkPcs, ReleasePcs
  <2> QED
    BY <2>1 DEF OneBusyCall, Busy, LinkPcs, ReleasePcs
<1>4. ASSUME NEW t \in Threads, NEW o \in Objs, LinkCall(t, o) \/ ReleaseCall(t, o)
      PROVE  /\ OneBusyCall'
             /\ \A x \in Objs : x \notin avail /\ x \in avail' =>
                  \A u \in Threads : pc'[u] \notin Busy
  <2>1. \A u \in Threads \ {t} : pc'[u] = pc[u] /\ pc[u] \notin Busy
    BY <1>0, <1>4 DEF LinkCall, ReleaseCall, Enters, Overlaps, Busy
  <2>2. avail' = avail \/ (pc'[t] = pc[t] /\ pc[t] = "user")
    BY <1>4 DEF LinkCall, ReleaseCall, Enters, MayCall, poolVars
  <2> QED
    BY <2>1, <2>2 DEF OneBusyCall, Busy, LinkPcs, ReleasePcs
<1> QED
  BY <1>1, <1>2, <1>3, <1>4, StepKinds DEF OneBusyCall

(* Only a thread outside of its critical sections takes a free cmdbuf, and *)
(* on one CPU no interrupt is pending then.                                *)
LEMMA NobodyRaces ==
  ASSUME TypeOK, ListInv, HwInv, NoDropCalls, OneCpu, OneBusyCall, StalledKept, Next
  PROVE  ~EngineRace
<1>1. ~ReturnedInUse
  <2>1. \A o \in Objs, u \in Threads : UsedByCall(u, o)' => pc'[u] \in Busy
    BY DEF UsedByCall, Busy, LinkPcs, ReleasePcs, Listed
  <2> QED
    BY <2>1, CallsApart DEF ReturnedInUse, OneCpu
<1>2. ASSUME NEW o \in Objs, o \in avail, o \notin avail'
      PROVE  irq' = irq /\ Quiet
  <2>1. PICK t \in Threads : ReserveTake(t)
    BY <1>2, StepKinds DEF ReleaseLock, LinkPrev, LinkCall, ReleaseCall, RemoveJob,
       ReturnCmdbuf, poolVars
  <2> QED
    BY <2>1 DEF ReserveTake, Runs, HoldsLock, OneCpu
<1>3. ~ReservedInUse
  BY <1>2 DEF ReservedInUse, UsedByIsr, Quiet
<1>4. ~ReservedInHw
  <2> SUFFICES ASSUME NEW o \in Objs, NEW d \in Devs, o \in avail, o \notin avail',
                      UsedByHw(d, o)
               PROVE  FALSE
    BY DEF ReservedInHw
  <2>1. ToRead(d) = {}
    BY <1>2 DEF ToRead, Quiet
  <2>2. hw[d] # "off" /\ o = exeId[d]
    BY <2>1 DEF UsedByHw
  <2>3. hw[d] = "run"
    BY <2>2 DEF StalledKept, TypeOK, HwTypes
  <2>4. On(workList[d], o)
    BY <2>2, <2>3 DEF HwInv, DevOk, RunOk, Unfinished
  <2> QED
    BY <2>4, TheList DEF ListInv, PoolSound, PoolOk
<1> QED
  BY <1>1, <1>3, <1>4 DEF EngineRace, ListRace

(* A device comes to stall only by itself.                                 *)
LEMMA StallMoves ==
  ASSUME TypeOK, ListInv, HwInv, NoDropCalls, Next, NEW d \in Devs, hw'[d] = "stall"
  PROVE  /\ exeId'[d] = exeId[d]
         /\ hw[d] = "stall" \/ (HwFinish(d) /\ UNCHANGED workList)
<1> USE DEF hwVars, devVars
<1>0. hw \in [Devs -> {"off", "run", "stall"}] /\ exeId \in [Devs -> ObjOrNil]
  BY DEF TypeOK, HwTypes
<1>1. ASSUME NEW e \in Devs, StartDev(e) \/ Doorbell(e)
      PROVE  exeId'[d] = exeId[d] /\ hw[d] = "stall"
  BY <1>0, <1>1 DEF StartDev, Doorbell
<1>2. ASSUME UNCHANGED <<hw, exeId>> PROVE exeId'[d] = exeId[d] /\ hw[d] = "stall"
  BY <1>2
<1>3. ASSUME NEW t \in Threads, InCall(t) \/ Calls(t) \/ Signals(t)
      PROVE  exeId'[d] = exeId[d] /\ hw[d] = "stall"
  <2>1. CASE LinkKick(t)
    <3>1. PICK e : e = coreId[job[t]]
      OBVIOUS
    <3>2. e = Nil \/ e \in Devs
      BY <2>1, <3>1 DEF LinkKick, TypeOK, ThreadTypes, UsesJob, LinkPcs, ObjTypes, ObjOrNil,
         DevOrNil
    <3>3. UNCHANGED <<hw, exeId>> \/ StartDev(e) \/ Doorbell(e)
      BY <2>1, <3>1 DEF LinkKick
    <3> QED
      BY <1>1, <1>2, <2>1, <3>1, <3>2, <3>3 DEF LinkKick
  <2>2. CASE ~LinkKick(t)
    <3>1. CASE InCall(t)
      BY <1>2, <2>2, <3>1, NoDrops DEF InCall, Link, Wait, Release, ReserveWait, ReserveTake,
         LinkSem, LinkScan, LinkLeastLoaded, LinkPrev, WaitGot, WaitNothing, WaitSleep,
         ReleaseAccount, ReleaseLock
    <3>2. CASE Calls(t)
      BY <1>2, <3>2, NoDrops DEF Calls, ReserveCharge, LinkCall, WaitJob, ReleaseCall, WaitAny
    <3>3. CASE Signals(t)
      BY <1>2, <3>3, NoDrops DEF Signals, ReserveInterrupted, LinkInterrupted,
         WaitInterrupted
    <3> QED
      BY <1>3, <3>1, <3>2, <3>3
  <2> QED
    BY <2>1, <2>2
<1>4. ASSUME NEW e \in Devs, Isr(e) \/ KthreadBusErr(e)
      PROVE  exeId'[d] = exeId[d] /\ hw[d] = "stall"
  <2>1. ~IsrAbort(e)
    BY DEF HwInv, NoAborts, Raised, Active, IsrAbort
  <2>2. UNCHANGED <<hw, exeId>> \/ StartDev(e)
    BY <1>4, <2>1 DEF Isr, IsrEnter, IsrRead, IsrWalk, IsrBusErr, IsrCmdErr, IsrDone, IsrStart,
       KthreadBusErr
  <2> QED
    BY <1>1, <1>2, <2>2
<1>5. ASSUME NEW e \in Devs, Hw(e)
      PROVE  /\ exeId'[d] = exeId[d]
             /\ hw[d] = "stall" \/ (HwFinish(d) /\ UNCHANGED workList)
  <2>1. CASE HwFinish(e)
    BY <1>0, <2>1 DEF HwFinish
  <2>2. CASE HwAbortStalled(e) \/ \E k \in ErrorKinds : HwError(e, k)
    BY <1>0, <2>2 DEF HwAbortStalled, HwError
  <2> QED
    BY <1>5, <2>1, <2>2 DEF Hw
<1> QED
  BY <1>3, <1>4, <1>5 DEF Next

LEMMA StalledStays ==
  ASSUME TypeOK, ListInv, HwInv, NoDropCalls, SerialCalls, OneBusyCall, StalledKept, Next,
         TypeOK', ListInv', HwInv'
  PROVE  StalledKept'
<1> SUFFICES ASSUME NEW d \in Devs, hw'[d] = "stall", exeId'[d] \in avail' PROVE FALSE
  BY DEF StalledKept
<1>1. PICK x : x = exeId'[d]
  OBVIOUS
<1>2. x \in Objs
  BY <1>1 DEF TypeOK, PoolTypes
<1>3. ~linked'[x]
  BY <1>1, <1>2 DEF ListInv, PoolSound, PoolOk
<1>4. ~On(workList'[d], x)
  BY <1>2, <1>3 DEF ListInv, ListsExact
<1>5. \E t \in Threads : pc'[t] = "linkKick"
  BY <1>1, <1>4 DEF HwInv, DevOk, StallOk, LastOn, RingPending
<1>6. x \in avail
  <2>1. \A o \in Objs : o \notin avail /\ o \in avail' =>
          \A u \in Threads : pc'[u] \notin Busy
    BY CallsApart
  <2> QED
    BY <1>1, <1>2, <1>5, <2>1 DEF Busy, LinkPcs
<1>7. exeId[d] = x /\ HwFinish(d) /\ UNCHANGED workList
  BY <1>1, <1>6, StallMoves DEF StalledKept
<1>8. On(workList[d], x)
  BY <1>7 DEF HwFinish, Unfinished, HwInv, DevOk, RunOk
<1> QED
  BY <1>4, <1>7, <1>8

(* So the theorems here and in VcmdListProofs hold of every state that a   *)
(* kernel for one CPU reaches, if link and release calls do not overlap.   *)
THEOREM UniprocessorHasNoRace ==
  ASSUME NoDropCalls, OneCpu PROVE Safety => [][~EngineRace]_vars
<1> DEFINE IInv == ListInv /\ HwInv /\ OneBusyCall /\ StalledKept
<1>1. Init => IInv
  BY InitLists, InitHw DEF Init, OneBusyCall, StalledKept, Busy, LinkPcs, ReleasePcs
<1>2. ASSUME TypeOK, TypeOK', LockOwners, IInv, [Next]_vars
      PROVE  IInv' /\ [~EngineRace]_vars
  <2>1. [~EngineRace]_vars /\ (Next => OneBusyCall')
    BY <1>2, NobodyRaces, CallsApart DEF OneCpu
  <2>2. ListInv' /\ HwInv'
    BY <1>2, <2>1, NextLists, NextHw DEF EngineRace
  <2>3. CASE UNCHANGED vars
    BY <1>2, <2>2, <2>3 DEF vars, poolVars, hwVars, threadVars, OneBusyCall, StalledKept
  <2>4. CASE Next
    BY <1>2, <2>1, <2>2, <2>4, StalledStays DEF OneCpu
  <2> QED
    BY <1>2, <2>1, <2>2, <2>3, <2>4
<1> QED
  BY <1>1, <1>2, SafetyTypes, SafetyLocks, PTL DEF Safety

---------------------------------------------------------------------------
(* The device follows the JMPs, so for a moment it may be in a buffer that *)
(* is off its list: link_and_run writes the JMP of the last buffer and     *)
(* rings the doorbell later, and in between the interrupt routine may      *)
(* report that buffer and take it off the list, as its JMP leads somewhere.*)
(* The device then waits at this JMP, and the call is about to ring.  At   *)
(* all other times it is inside a buffer of its own work list.             *)
HwNearItsList ==
  \A d \in Devs :
    hw[d] # "off" =>
      \/ On(workList[d], exeId[d])
      \/ hw[d] = "stall" /\ \E t \in Threads : Kicks(t, d)

(* Until the first race, on any number of CPUs and with overlapping calls, *)
(* the device does not leave its list further than that.                   *)
THEOREM DeviceStaysNearItsList ==
  ASSUME NoDropCalls PROVE Safety /\ [][~EngineRace]_vars => []HwNearItsList
<1>1. ASSUME TypeOK, ListInv, HwInv PROVE HwNearItsList
  <2> SUFFICES ASSUME NEW d \in Devs, hw[d] # "off", ~On(workList[d], exeId[d])
               PROVE  hw[d] = "stall" /\ \E t \in Threads : Kicks(t, d)
    BY DEF HwNearItsList
  <2>1. hw[d] = "stall"
    BY <1>1 DEF TypeOK, HwTypes, Unfinished, HwInv, DevOk, RunOk
  <2>2. PICK n : n = jmpNext[exeId[d]]
    OBVIOUS
  <2>3. LastOn(d, n) /\ \E t \in Threads : pc[t] = "linkKick" /\ job[t] = n
    BY <1>1, <2>1, <2>2 DEF HwInv, DevOk, StallOk, LastOn, RingPending
  <2>4. coreId[n] = d
    BY <1>1, <2>3, TheList, LinearOrder DEF LastOn
  <2> QED
    BY <2>1, <2>3, <2>4 DEF Kicks
<1> QED
  BY <1>1, SafetyHw, PTL

(* What the interrupt routine reports as done without an error has run     *)
(* since it was reserved: the walk of isr_process_node never passes the    *)
(* buffer that the device is in.                                           *)
THEOREM ReportedHasRun ==
  ASSUME NoDropCalls PROVE Safety /\ [][~EngineRace]_vars => []DoneIsTrue
<1>1. HwInv => DoneIsTrue
  BY DEF HwInv
<1> QED
  BY <1>1, SafetyHw, PTL

(* The jobs of a device are reported in the order in which select_vcmd put *)
(* them on its list, whatever interrupts are merged or come late.          *)
THEOREM ReportedInOrder ==
  ASSUME NoDropCalls PROVE Safety /\ [][~EngineRace]_vars => []DoneInOrder
<1>1. ASSUME TypeOK, HwInv PROVE DoneInOrder
  <2> SUFFICES ASSUME NEW d \in Devs, NEW i \in 1..Len(workList[d]),
                      NEW j \in 1..Len(workList[d]), i < j, runDone[workList[d][j]]
               PROVE  runDone[workList[d][i]]
    BY DEF DoneInOrder
  <2>1. workList[d] \in Seq(Objs)
    BY <1>1 DEF TypeOK, DevTypes
  <2>2. workList[d][i] \in Objs /\ workList[d][j] \in Objs
    BY <2>1
  <2>3. Before(workList[d], workList[d][i], workList[d][j])
    BY DEF Before
  <2> QED
    BY <1>1, <2>2, <2>3 DEF HwInv, DevOk, DonePrefix
<1> QED
  BY <1>1, SafetyHw, PTL

(* The walk from the head of the list comes to the buffer that the device  *)
(* reported, also over nodes that it has just handed to their clients, and *)
(* that these release on other CPUs while it stands on them.  Its "not     *)
(* find node" exit is taken for one reason only, an EngineRace step: such  *)
(* a node, or what reg_mem says, is not only released but reserved again.  *)
THEOREM WalkArrives ==
  ASSUME NoDropCalls PROVE Safety /\ [][~EngineRace]_vars => []WalkReachesCurrent
<1>1. HwInv => WalkReachesCurrent
  BY DEF HwInv, DevOk, WalkOk, NextToReport, WalkReachesCurrent
<1> QED
  BY <1>1, SafetyHw, PTL

(* A device that is not working and has a job to run is about to be        *)
(* started: by the link call that added the job, by the interrupt routine, *)
(* or by the kernel thread that handles a bus error.                       *)
THEOREM NoDeviceForgotten ==
  ASSUME NoDropCalls PROVE Safety /\ [][~EngineRace]_vars => []SomebodyStarts
<1>1. ASSUME TypeOK, HwInv PROVE SomebodyStarts
  <2> SUFFICES ASSUME NEW d \in Devs, state[d] # "working", Pending(d) # {}
               PROVE  busErr[d] \/ isr[d].at = "start" \/ \E t \in Threads : Kicks(t, d)
    BY DEF SomebodyStarts, Kicks
  <2>1. workList[d] \in Seq(Objs)
    BY <1>1 DEF TypeOK, DevTypes
  <2>2. PICK i \in 1..Len(workList[d]) : ~runDone[workList[d][i]]
    BY DEF Pending
  <2>3. ToRun(d)
    BY <2>1, <2>2 DEF ToRun, On
  <2> QED
    BY <1>1, <2>3 DEF HwInv, DevOk, StartOk
<1> QED
  BY <1>1, SafetyHw, PTL

---------------------------------------------------------------------------
(* The contract of a cmdbuf, VcmdContract, step by step.                   *)

(* Who has a cmdbuf is the process of the thread that uses it, and only a  *)
(* cmdbuf that was on a device is done.                                    *)
UserOk(o) ==
  /\ phase[o] # "none" => holder[o] \in Threads /\ po[o] = ProcOf[holder[o]]
  /\ runDone[o] => coreId[o] # Nil
UsersKnown == \A o \in Objs : UserOk(o)

LEMMA StageIs ==
  ASSUME TypeOK, NEW o \in Objs
  PROVE  /\ Stage(o) = "free" <=> po[o] = Nil
         /\ Stage(o) = "released" <=> po[o] # Nil /\ phase[o] = "none"
         /\ Stage(o) = "delivered" <=> po[o] # Nil /\ phase[o] = "ready"
         /\ Stage(o) = "reserved" <=>
              po[o] # Nil /\ phase[o] \in {"reserved", "running"} /\ coreId[o] = Nil
         /\ Stage(o) = "queued" <=>
              /\ po[o] # Nil /\ phase[o] \in {"reserved", "running"}
              /\ coreId[o] # Nil /\ ~runDone[o]
         /\ Stage(o) = "reported" <=>
              /\ po[o] # Nil /\ phase[o] \in {"reserved", "running"}
              /\ coreId[o] # Nil /\ runDone[o]
<1>1. phase[o] \in {"none", "reserved", "running", "ready"}
  BY DEF TypeOK, ClientTypes
<1> QED
  BY <1>1 DEF Stage

(* What the contract sees of a cmdbuf.                                     *)
viewVars == <<po, phase, coreId, runDone, workList, ran, exeStatus>>

LEMMA ViewKept ==
  ASSUME UNCHANGED viewVars
  PROVE  UNCHANGED Contract!vars
BY DEF viewVars, Contract!vars, Stage, Earlier

LEMMA EarlierKept ==
  ASSUME UNCHANGED <<workList, runDone>>
  PROVE  \A o : Earlier(o)' = Earlier(o)
BY DEF Earlier

LEMMA StageMoves ==
  ASSUME NEW o \in Objs, NEW from, NEW to, Stage(o) = from, Stage(o)' = to,
         \A x \in Objs \ {o} : Stage(x)' = Stage(x)
  PROVE  Contract!Moves(o, from, to)
BY DEF Contract!Moves

(* The jobs before others are those of one list.                           *)
LEMMA EarlierOn ==
  ASSUME TypeOK, ListInv, NEW d \in Devs, NEW o \in Objs, coreId[o] = d
  PROVE  Earlier(o) = {a \in Objs : ~runDone[a] /\ Before(workList[d], a, o)}
<1>1. ASSUME NEW e \in Devs, NEW a, Before(workList[e], a, o) PROVE e = d
  <2>1. On(workList[e], o)
    BY <1>1, TheList, LinearOrder
  <2> QED
    BY <2>1, TheList
<1> QED
  BY <1>1 DEF Earlier

(* A job is done, or one that is done leaves its list.                     *)
LEMMA EarlierSettled ==
  ASSUME TypeOK, ListInv, NEW d \in Devs, NEW o \in Objs, coreId[o] = d,
         \A a \in Objs : Before(workList[d], a, o) => runDone[a],
         workList'[d] = workList[d] \/ Loses(d, o),
         \A e \in Devs \ {d} : workList'[e] = workList[e],
         runDone'[o], \A x \in Objs \ {o} : runDone'[x] = runDone[x]
  PROVE  /\ Earlier(o) = {}
         /\ \A x \in Objs : Earlier(x)' = Earlier(x) \ {o}
<1>1. Earlier(o) = {}
  BY EarlierOn
<1>2. /\ \A e \in Devs : \A a, b : Before(workList'[e], a, b) => Before(workList[e], a, b)
      /\ \A e \in Devs : \A a, b : Before(workList[e], a, b) /\ a # o /\ b # o =>
           Before(workList'[e], a, b)
  BY DEF Loses
<1>3. ASSUME NEW x \in Objs, NEW a \in Objs
      PROVE  a \in Earlier(x)' <=> a \in Earlier(x) \ {o}
  <2>1. a \in Earlier(x)' <=> ~runDone'[a] /\ \E e \in Devs : Before(workList'[e], a, x)
    BY DEF Earlier
  <2>2. a \in Earlier(x) <=> ~runDone[a] /\ \E e \in Devs : Before(workList[e], a, x)
    BY DEF Earlier
  <2> QED
    BY <1>1, <1>2, <2>1, <2>2
<1>4. \A x \in Objs : Earlier(x) \subseteq Objs /\ Earlier(x)' \subseteq Objs
  BY DEF Earlier
<1> QED
  BY <1>1, <1>3, <1>4

(* The job that is not done is queued on the device of its list.           *)
LEMMA QueuedIs ==
  ASSUME TypeOK, ListInv, UsersKnown, NEW o \in Objs
  PROVE  /\ Stage(o) = "queued" <=> coreId[o] # Nil /\ ~runDone[o]
         /\ \A d \in Devs : coreId[o] = d /\ ~runDone[o] <=>
              On(workList[d], o) /\ ~runDone[o]
<1>1. coreId[o] # Nil /\ ~runDone[o] => phase[o] = "running" /\ po[o] # Nil
  BY DEF ListInv, LifeSound, LifeOk, UsersKnown, UserOk
<1> QED
  BY <1>1, StageIs, TheList

---------------------------------------------------------------------------
(* A client reserves, links, gets and releases.                            *)
LEMMA ReserveTakeView ==
  ASSUME TypeOK, ListInv, UsersKnown, NEW t \in Threads, ReserveTake(t)
  PROVE  UsersKnown' /\ Contract!Next
<1>1. PICK o \in avail :
        /\ po' = [po EXCEPT ![o] = ProcOf[t]]
        /\ runDone' = [runDone EXCEPT ![o] = FALSE]
        /\ exeStatus' = [exeStatus EXCEPT ![o] = "ok"]
        /\ coreId' = [coreId EXCEPT ![o] = Nil]
        /\ ran' = ran \ {o}
        /\ phase' = [phase EXCEPT ![o] = "reserved"]
        /\ holder' = [holder EXCEPT ![o] = t]
  BY DEF ReserveTake
<1>2. o \in Objs /\ po[o] = Nil /\ ~linked[o] /\ UNCHANGED workList
  BY DEF ReserveTake, devVars, TypeOK, PoolTypes, ListInv, PoolSound, PoolOk
<1>3. /\ po'[o] = ProcOf[t] /\ ~runDone'[o] /\ coreId'[o] = Nil /\ holder'[o] = t
      /\ phase'[o] = "reserved"
      /\ \A x \in Objs \ {o} : /\ po'[x] = po[x] /\ runDone'[x] = runDone[x]
                               /\ coreId'[x] = coreId[x] /\ phase'[x] = phase[x]
                               /\ holder'[x] = holder[x]
  BY <1>1, <1>2 DEF TypeOK, ObjTypes, ClientTypes
<1>4. UsersKnown'
  BY <1>3 DEF UsersKnown, UserOk
<1>5. Contract!Moves(o, "free", "reserved")
  <2>1. Stage(o) = "free" /\ Stage(o)' = "reserved"
    BY <1>2, <1>3 DEF Stage
  <2>2. \A x \in Objs \ {o} : Stage(x)' = Stage(x)
    BY <1>3 DEF Stage
  <2> QED
    BY <1>2, <2>1, <2>2, StageMoves
<1>6. \A x \in Objs : Earlier(x)' = Earlier(x)
  <2>1. \A d \in Devs : \A b : ~Before(workList[d], o, b)
    BY <1>2, TheList, LinearOrder
  <2> QED
    BY <1>2, <1>3, <2>1 DEF Earlier
<1>7. Contract!Reserve(ProcOf[t], o)
  BY <1>1, <1>5, <1>6 DEF Contract!Reserve
<1> QED
  BY <1>2, <1>4, <1>7 DEF Contract!Next, Contract!Client

LEMMA JobAddedView ==
  ASSUME TypeOK, ListInv, UsersKnown, NEW t \in Threads, NEW d \in Devs,
         pc[t] = "linkScan", AddJob(d, job[t]),
         UNCHANGED <<po, runDone, exeStatus, ran, phase, holder>>
  PROVE  UsersKnown' /\ Contract!Next
<1>0. job[t] \in Objs
  BY DEF TypeOK, ThreadTypes, UsesJob, LinkPcs, ObjOrNil
<1> PICK o \in Objs : o = job[t]
  BY <1>0
<1>1. /\ coreId[o] = Nil /\ ~runDone[o] /\ phase[o] = "running" /\ po[o] = ProcOf[t]
  BY DEF ListInv, CallsSound, CallOk, LinkerOk, Unlisted, UsersKnown, UserOk
<1>2. /\ coreId' = [coreId EXCEPT ![o] = d] /\ d # Nil
      /\ coreId'[o] = d /\ \A x \in Objs \ {o} : coreId'[x] = coreId[x]
      /\ workList'[d] = AtEnd(workList[d], o)
      /\ \A e \in Devs \ {d} : workList'[e] = workList[e]
  BY DEF AddJob, AtEnd, TypeOK, ObjTypes, DevTypes
<1>3. UsersKnown'
  BY <1>2 DEF UsersKnown, UserOk
<1>4. Contract!Moves(o, "reserved", "queued")
  <2>1. Stage(o) = "reserved" /\ Stage(o)' = "queued"
    BY <1>1, <1>2 DEF Stage
  <2>2. \A x \in Objs \ {o} : Stage(x)' = Stage(x)
    BY <1>2 DEF Stage
  <2> QED
    BY <2>1, <2>2, StageMoves
<1>5. /\ \A x \in Objs \ {o} : Earlier(x)' = Earlier(x)
      /\ Earlier(o)' = {a \in Objs : ~runDone[a] /\ On(workList[d], a)}
  <2>1. /\ \A e \in Devs : ~On(workList[e], o)
        /\ \A e \in Devs : \A a : ~Before(workList[e], a, o)
    BY <1>1, TheList, LinearOrder
  <2>2. \A a, b : Before(workList'[d], a, b) <=>
          Before(workList[d], a, b) \/ (On(workList[d], a) /\ b = o)
    BY <1>2, <2>1, TheList, AppendOrder
  <2>3. \A x \in Objs \ {o} : \A e \in Devs : \A a :
          Before(workList'[e], a, x) <=> Before(workList[e], a, x)
    BY <1>2, <2>2
  <2>4. \A e \in Devs : \A a :
          Before(workList'[e], a, o) <=> e = d /\ On(workList[d], a)
    BY <1>2, <2>1, <2>2
  <2>5. ASSUME NEW x \in Objs \ {o} PROVE Earlier(x)' = Earlier(x)
    BY <2>3 DEF Earlier
  <2>6. Earlier(o)' = {a \in Objs : ~runDone[a] /\ On(workList[d], a)}
    BY <2>4 DEF Earlier
  <2> QED
    BY <2>5, <2>6
<1>6. Earlier(o)' = Contract!QueuedOn(d)
  <2>1. \A x \in Objs : Stage(x) = "queued" /\ coreId[x] = d <=>
                        ~runDone[x] /\ On(workList[d], x)
    BY <1>2, QueuedIs
  <2> QED
    BY <1>5, <2>1 DEF Contract!QueuedOn
<1>7. Contract!Queue(ProcOf[t], o, d)
  BY <1>1, <1>2, <1>4, <1>5, <1>6 DEF Contract!Queue
<1> QED
  BY <1>3, <1>7 DEF Contract!Next, Contract!Client

LEMMA WaitGotView ==
  ASSUME TypeOK, ListInv, UsersKnown, NEW t \in Threads, NEW o \in Objs, WaitGot(t, o)
  PROVE  UsersKnown' /\ Contract!Next
<1>1. /\ UNCHANGED <<po, runDone, coreId, workList, ran, exeStatus>>
      /\ phase' = [phase EXCEPT ![o] = "ready"]
      /\ holder' = [holder EXCEPT ![o] = t]
  BY DEF WaitGot, objVars, devVars, hwVars
<1>2. po[o] = ProcOf[t] /\ phase[o] = "running" /\ runDone[o] /\ coreId[o] # Nil
  BY DEF WaitGot, Gets, ListInv, DoneSound, UsersKnown, UserOk
<1>3. /\ phase'[o] = "ready" /\ holder'[o] = t
      /\ \A x \in Objs \ {o} : phase'[x] = phase[x] /\ holder'[x] = holder[x]
  BY <1>1 DEF TypeOK, ClientTypes
<1>4. UsersKnown'
  BY <1>1, <1>2, <1>3 DEF UsersKnown, UserOk
<1>5. Contract!Moves(o, "reported", "delivered")
  <2>1. Stage(o) = "reported" /\ Stage(o)' = "delivered"
    BY <1>1, <1>2, <1>3 DEF Stage
  <2>2. \A x \in Objs \ {o} : Stage(x)' = Stage(x)
    BY <1>1, <1>3 DEF Stage
  <2> QED
    BY <2>1, <2>2, StageMoves
<1>6. \A x \in Objs : Earlier(x)' = Earlier(x)
  BY <1>1, EarlierKept
<1>7. Contract!Deliver(ProcOf[t], o)
  BY <1>1, <1>2, <1>5, <1>6 DEF Contract!Deliver
<1> QED
  BY <1>4, <1>7 DEF Contract!Next, Contract!Client

LEMMA ReleaseCallView ==
  ASSUME TypeOK, ListInv, UsersKnown, NEW t \in Threads, NEW o \in Objs, ReleaseCall(t, o)
  PROVE  UsersKnown' /\ Contract!Next
<1>1. /\ phase[o] \in {"ready", "reserved"} /\ holder[o] = t
      /\ UNCHANGED <<runDone, coreId, workList, ran, exeStatus>>
      /\ phase' = [phase EXCEPT ![o] = "none"]
      /\ holder' = [holder EXCEPT ![o] = Nil]
  BY DEF ReleaseCall, devVars, hwVars
<1>2. po[o] = ProcOf[t] /\ (phase[o] = "reserved" => coreId[o] = Nil)
  BY <1>1 DEF UsersKnown, UserOk, ListInv, LifeSound, LifeOk
<1>3. po' = po \/ po' = [po EXCEPT ![o] = Nil]
  BY <1>2 DEF ReleaseCall, ReturnCmdbuf
<1>4. /\ phase'[o] = "none"
      /\ \A x \in Objs \ {o} : phase'[x] = phase[x] /\ holder'[x] = holder[x] /\ po'[x] = po[x]
  BY <1>1, <1>3 DEF TypeOK, ClientTypes, ObjTypes
<1>5. UsersKnown'
  BY <1>1, <1>4 DEF UsersKnown, UserOk
<1>6. PICK from \in {"reserved", "delivered"} : Stage(o) = from
  BY <1>1, <1>2 DEF Stage
<1>7. \A x \in Objs \ {o} : Stage(x)' = Stage(x)
  BY <1>1, <1>4 DEF Stage
<1>8. \A x \in Objs : Earlier(x)' = Earlier(x)
  BY <1>1, EarlierKept
<1>9. CASE po' = po
  <2>1. Stage(o)' = "released"
    BY <1>2, <1>4, <1>9 DEF Stage
  <2>2. Contract!Moves(o, from, "released")
    BY <1>6, <1>7, <2>1, StageMoves
  <2>3. Contract!Release(ProcOf[t], o)
    BY <1>1, <1>2, <1>8, <1>9, <2>2 DEF Contract!Release
  <2> QED
    BY <1>5, <2>3 DEF Contract!Next, Contract!Client
<1>10. CASE po' = [po EXCEPT ![o] = Nil]
  <2>1. Stage(o)' = "free"
    BY <1>10 DEF Stage, TypeOK, ObjTypes
  <2>2. Contract!Moves(o, from, "free")
    BY <1>6, <1>7, <2>1, StageMoves
  <2>3. Contract!ReleaseAtOnce(ProcOf[t], o)
    BY <1>1, <1>2, <1>8, <1>10, <2>2 DEF Contract!ReleaseAtOnce, Contract!Free
  <2> QED
    BY <1>5, <2>3 DEF Contract!Next, Contract!Client
<1> QED
  BY <1>3, <1>9, <1>10

(* Of a link or release call that removes a released cmdbuf, the contract  *)
(* sees its return.                                                        *)
LEMMA RemovedView ==
  ASSUME TypeOK, ListInv, HwInv, UsersKnown, NEW d \in Devs, NEW o \in Objs,
         coreId[o] = d, needRemove[o], o \notin avail, RemoveJob(d, o),
         UNCHANGED <<runDone, exeStatus, coreId, hasJmp, ran, phase, holder>>
  PROVE  UsersKnown' /\ [Contract!Next]_Contract!vars
<1>1. /\ phase[o] = "none" /\ runDone[o] /\ po[o] # Nil /\ d # Nil
  BY DEF ListInv, LifeSound, LifeOk, PoolSound, PoolOk
<1>2. CASE UNCHANGED <<po, poolVars, jmpNext, stale, workList, linked>>
  BY <1>2, ViewKept DEF viewVars, UsersKnown, UserOk
<1>3. CASE /\ ReturnCmdbuf(o)
           /\ IF linked[o] THEN Unlink(d, o)
              ELSE UNCHANGED <<jmpNext, stale, workList, linked>>
  <2>1. /\ po' = [po EXCEPT ![o] = Nil] /\ po'[o] = Nil
        /\ \A x \in Objs \ {o} : po'[x] = po[x]
    BY <1>3 DEF ReturnCmdbuf, TypeOK, ObjTypes
  <2>2. UsersKnown'
    BY <1>1, <2>1 DEF UsersKnown, UserOk
  <2>3. Contract!Moves(o, "released", "free")
    <3>1. Stage(o) = "released" /\ Stage(o)' = "free"
      BY <1>1, <2>1 DEF Stage
    <3>2. \A x \in Objs \ {o} : Stage(x)' = Stage(x)
      BY <2>1 DEF Stage
    <3> QED
      BY <3>1, <3>2, StageMoves
  <2>4. \A a \in Objs : Before(workList[d], a, o) => runDone[a]
    BY <1>1 DEF HwInv, DevOk, DonePrefix
  <2>5. /\ workList'[d] = workList[d] \/ Loses(d, o)
        /\ \A e \in Devs \ {d} : workList'[e] = workList[e]
    <3>1. CASE linked[o]
      <4>1. /\ On(workList[d], o) /\ ChainOk(d) /\ Unlink(d, o) /\ UNCHANGED hasJmp
        BY <1>3, <3>1, TheList DEF HwInv, DevOk
      <4> QED
        BY <4>1, ChainUnlinked
    <3> QED
      BY <1>3, <3>1
  <2>6. Earlier(o) = {} /\ \A x \in Objs : Earlier(x)' = Earlier(x) \ {o}
    BY <1>1, <2>4, <2>5, EarlierSettled
  <2>7. \A x \in Objs : Earlier(x)' = Earlier(x)
    BY <1>1, <2>6 DEF Earlier
  <2>8. Contract!Return(o)
    BY <2>1, <2>3, <2>7 DEF Contract!Return, Contract!Free
  <2> QED
    BY <2>2, <2>8 DEF Contract!Next
<1> QED
  BY <1>2, <1>3 DEF RemoveJob

LEMMA RemovesView ==
  ASSUME TypeOK, ListInv, HwInv, UsersKnown, NEW t \in Threads,
         ReleaseLock(t) \/ LinkPrev(t)
  PROVE  UsersKnown' /\ [Contract!Next]_Contract!vars
<1> USE DEF hwVars, clientVars
<1>0. job[t] \in Objs /\ dev[t] \in Devs
  BY DEF ReleaseLock, LinkPrev, TypeOK, ThreadTypes, UsesJob, UsesDev, LinkPcs, ReleasePcs,
     HoldsLock, ObjOrNil, DevOrNil
<1> PICK o \in Objs, d \in Devs : o = job[t] /\ d = dev[t]
  BY <1>0
<1>1. CASE ReleaseLock(t)
  <2>1. /\ pc[t] = "relLock" /\ RemoveJob(d, o)
        /\ UNCHANGED <<runDone, exeStatus, coreId, hasJmp, ran, phase, holder>>
    BY <1>1 DEF ReleaseLock
  <2>2. needRemove[o] /\ o \notin avail /\ d = coreId[o]
    BY <2>1 DEF ListInv, CallsSound, CallOk, ReleaserOk, ReleasePcs
  <2> QED
    BY <2>1, <2>2, RemovedView
<1>2. CASE LinkPrev(t)
  <2> DEFINE p == PrevOf(d, o)
  <2>1. /\ pc[t] = "linkPrev"
        /\ UNCHANGED <<runDone, exeStatus, coreId, hasJmp, ran, phase, holder>>
        /\ IF KeptForJmp(p) THEN RemoveJob(d, p)
           ELSE UNCHANGED <<po, poolVars, jmpNext, stale, workList, linked>>
    BY <1>2 DEF LinkPrev
  <2>2. CASE KeptForJmp(p)
    <3>1. needRemove[p] /\ p # Nil /\ RemoveJob(d, p)
      BY <2>1, <2>2 DEF KeptForJmp
    <3>2. p \in Objs /\ coreId[p] = d /\ p \notin avail
      BY <2>1, <3>1, PredecessorKnown
    <3> HIDE DEF p
    <3> QED
      BY <2>1, <3>1, <3>2, RemovedView
  <2>3. CASE ~KeptForJmp(p)
    BY <2>1, <2>3, ViewKept DEF viewVars, UsersKnown, UserOk
  <2> QED
    BY <2>2, <2>3
<1> QED
  BY <1>1, <1>2

(* A job that was reserved and given to a link call, or taken back, is     *)
(* still one that was reserved.                                            *)
LEMMA LinkedView ==
  ASSUME TypeOK, ListInv, UsersKnown, NEW t \in Threads,
         LinkInterrupted(t) \/ \E o \in Objs : LinkCall(t, o)
  PROVE  UsersKnown' /\ UNCHANGED Contract!vars
<1>1. /\ UNCHANGED <<po, runDone, coreId, workList, ran, exeStatus, holder>>
      /\ \E o \in Objs : /\ coreId[o] = Nil /\ phase[o] \in {"reserved", "running"}
                         /\ \/ phase' = phase
                            \/ \E s \in {"reserved", "running"} : phase' = [phase EXCEPT ![o] = s]
  <2>1. CASE LinkInterrupted(t)
    <3>1. pc[t] = "linkSem" /\ job[t] \in Objs
      BY <2>1 DEF LinkInterrupted, TypeOK, ThreadTypes, UsesJob, LinkPcs, ObjOrNil
    <3>2. coreId[job[t]] = Nil /\ phase[job[t]] = "running"
      BY <3>1 DEF ListInv, CallsSound, CallOk, LinkerOk, Unlisted
    <3> QED
      BY <2>1, <3>1, <3>2 DEF LinkInterrupted, objVars, devVars, hwVars
  <2>2. ASSUME NEW o \in Objs, LinkCall(t, o)
        PROVE  /\ UNCHANGED <<po, runDone, coreId, workList, ran, exeStatus, holder>>
               /\ coreId[o] = Nil /\ phase[o] \in {"reserved", "running"}
               /\ phase' = phase \/ phase' = [phase EXCEPT ![o] = "running"]
    BY <2>2 DEF LinkCall, devVars, hwVars, ListInv, LifeSound, LifeOk
  <2> QED
    BY <2>1, <2>2
<1>2. \A o \in Objs : /\ Stage(o)' = Stage(o)
                      /\ phase'[o] # "none" => phase[o] # "none"
  BY <1>1 DEF Stage, TypeOK, ClientTypes
<1>3. \A o \in Objs : Earlier(o)' = Earlier(o)
  BY <1>1, EarlierKept
<1> QED
  BY <1>1, <1>2, <1>3 DEF UsersKnown, UserOk, Contract!vars

---------------------------------------------------------------------------
(* The device runs a buffer when those before it have run.                 *)
LEMMA HwFinishView ==
  ASSUME TypeOK, ListInv, HwInv, UsersKnown, NEW d \in Devs, HwFinish(d)
  PROVE  UsersKnown' /\ Contract!Next
<1> DEFINE w == workList[d]
<1>0. Unfinished(d)
  BY DEF HwFinish, Unfinished
<1> PICK o \in Objs : o = exeId[d]
  BY DEF HwFinish, TypeOK, HwTypes, ObjOrNil
<1>1. /\ ran' = ran \cup {o}
      /\ UNCHANGED <<po, phase, holder, coreId, runDone, workList, exeStatus>>
  BY DEF HwFinish, objVars, devVars, clientVars
<1>2. On(w, o) /\ ~runDone[o] /\ \A x \in Objs : Before(w, x, o) => RanOrDone(x)
  BY <1>0 DEF HwInv, DevOk, RunOk, BehindOk
<1>3. coreId[o] = d /\ d # Nil
  BY <1>2, TheList
<1>4. Stage(o) = "queued"
  BY <1>2, <1>3, QueuedIs
<1>5. Earlier(o) \subseteq ran
  BY <1>2, <1>3, EarlierOn DEF RanOrDone
<1>6. \A x \in Objs : Earlier(x)' = Earlier(x) /\ Stage(x)' = Stage(x)
  BY <1>1, EarlierKept DEF Stage
<1>7. Contract!Run(o)
  BY <1>1, <1>4, <1>5, <1>6 DEF Contract!Run
<1> QED
  BY <1>1, <1>7 DEF UsersKnown, UserOk, Contract!Next

(* The interrupt routine reports the first job of the list that is not     *)
(* done, or comes to one that is.                                          *)
LEMMA ProcessedView ==
  ASSUME TypeOK, ListInv, HwInv, UsersKnown, NEW d \in Devs, NEW o \in Objs,
         coreId[o] = d, NEW st, NEW status \in {"ok", "cmderr", "buserr"},
         ProcessNode(st, d, o, status), DoneIsTrue',
         runDone[o] \/ \A a \in Objs : Before(workList[d], a, o) => runDone[a],
         UNCHANGED <<po, phase, holder, coreId, ran, hasJmp>>
  PROVE  UsersKnown' /\ [Contract!Next]_Contract!vars
<1>1. CASE runDone[o]
  <2>1. UNCHANGED <<runDone, exeStatus, workList>>
    BY <1>1 DEF ProcessNode
  <2> QED
    BY <2>1, ViewKept DEF viewVars, UsersKnown, UserOk
<1>2. CASE ~runDone[o]
  <2>1. d # Nil /\ Stage(o) = "queued"
    BY <1>2, QueuedIs
  <2>2. exeStatus' = [exeStatus EXCEPT ![o] = status]
    BY <1>2 DEF ProcessNode
  <2>3. /\ runDone'[o] /\ \A x \in Objs \ {o} : runDone'[x] = runDone[x]
        /\ exeStatus'[o] = status
        /\ workList'[d] = workList[d] \/ Loses(d, o)
        /\ \A e \in Devs \ {d} : workList'[e] = workList[e]
    BY <1>2, Processed DEF HwInv, DevOk
  <2>4. UsersKnown'
    BY <2>1, <2>3 DEF UsersKnown, UserOk
  <2>5. Contract!Moves(o, "queued", "reported")
    <3>1. Stage(o)' = "reported"
      BY <1>2, <2>1, <2>3, StageIs DEF Stage
    <3>2. \A x \in Objs \ {o} : Stage(x)' = Stage(x)
      BY <2>3 DEF Stage
    <3> QED
      BY <2>1, <3>1, <3>2, StageMoves
  <2>6. Earlier(o) = {} /\ \A x \in Objs : Earlier(x)' = Earlier(x) \ {o}
    BY <1>2, <2>3, EarlierSettled
  <2>7. status = "ok" => o \in ran
    BY <2>3 DEF DoneIsTrue
  <2>8. Contract!Report(o, status)
    BY <2>2, <2>5, <2>6, <2>7 DEF Contract!Report
  <2> QED
    BY <2>4, <2>8 DEF Contract!Next
<1> QED
  BY <1>1, <1>2

LEMMA IsrView ==
  ASSUME TypeOK, ListInv, HwInv, UsersKnown, DoneIsTrue', NEW d \in Devs, Isr(d)
  PROVE  UsersKnown' /\ [Contract!Next]_Contract!vars
<1> DEFINE c == isr[d].curr
<1> USE DEF objVars, hwVars, clientVars, threadVars
<1>0. /\ isr[d].at \in {"walk", "curr"} => c \in Objs /\ coreId[c] = d
      /\ isr[d].at = "curr" =>
           runDone[c] \/ \A a \in Objs : Before(workList[d], a, c) => runDone[a]
      /\ isr[d].at = "walk" => NextToReport(d, WalkNext(d))
  BY DEF TypeOK, DevTypes, IsrRecord, ObjOrNil, ListInv, IsrSound, IsrOk, HwInv, DevOk,
     CurrOk, WalkOk
<1>1. CASE IsrEnter(d) \/ IsrRead(d) \/ IsrStart(d)
  BY <1>1, ViewKept DEF viewVars, IsrEnter, IsrRead, IsrStart, UsersKnown, UserOk
<1>2. CASE IsrWalk(d)
  <2> DEFINE n == WalkNext(d)
  <2>1. /\ n # Nil /\ On(workList[d], n)
        /\ \A a \in Objs : Before(workList[d], a, n) => runDone[a]
    BY <1>0, <1>2 DEF IsrWalk, NextToReport
  <2>2. n \in Objs /\ coreId[n] = d
    BY <2>1, TheList, LinearOrder
  <2>3. UNCHANGED <<po, phase, holder, coreId, ran, hasJmp>>
    BY <1>2 DEF IsrWalk
  <2>4. CASE n = c
    BY <1>2, <2>3, <2>4, ViewKept DEF IsrWalk, viewVars, UsersKnown, UserOk
  <2>5. CASE n # c
    <3>1. ProcessNode(state[d], d, n, "ok")
      BY <1>2, <2>1, <2>5 DEF IsrWalk
    <3> HIDE DEF n
    <3> QED
      BY <2>1, <2>2, <2>3, <3>1, ProcessedView
  <2> QED
    BY <2>4, <2>5
<1>3. CASE IsrAbort(d) \/ IsrBusErr(d) \/ IsrCmdErr(d) \/ IsrDone(d)
  <2>1. /\ isr[d].at = "curr" /\ UNCHANGED <<po, phase, holder, coreId, ran, hasJmp>>
        /\ \E st : \E status \in {"ok", "cmderr", "buserr"} : ProcessNode(st, d, c, status)
    BY <1>3 DEF IsrAbort, IsrBusErr, IsrCmdErr, IsrDone
  <2> QED
    BY <1>0, <2>1, ProcessedView
<1> QED
  BY <1>1, <1>2, <1>3 DEF Isr

---------------------------------------------------------------------------
LEMMA ThreadView ==
  ASSUME TypeOK, ListInv, NoDropCalls, HwInv, UsersKnown, NEW t \in Threads,
         InCall(t) \/ Calls(t) \/ Signals(t)
  PROVE  UsersKnown' /\ [Contract!Next]_Contract!vars
<1>1. CASE \/ \E w \in Workloads : ReserveCharge(t, w)
           \/ ReserveWait(t) \/ ReserveInterrupted(t) \/ LinkSem(t) \/ LinkKick(t)
           \/ WaitAny(t) \/ WaitSleep(t) \/ WaitInterrupted(t) \/ ReleaseAccount(t)
           \/ \E o \in Objs : WaitJob(t, o)
  BY <1>1, ViewKept DEF viewVars, UsersKnown, UserOk, ReserveCharge, ReserveWait,
     ReserveInterrupted, LinkSem, LinkKick, WaitAny, WaitSleep, WaitInterrupted,
     ReleaseAccount, WaitJob, objVars, devVars, hwVars, clientVars
<1>2. CASE WaitNothing(t)
  <2>1. job[t] = Nil
    BY <1>2 DEF WaitNothing, TypeOK, ThreadTypes, ObjOrNil, ListInv, CallsSound, CallOk,
       WaiterOk, Waits, Owned
  <2>2. phase' = phase
    <3>1. phase' = [o \in Objs |-> phase[o]]
      BY <1>2, <2>1 DEF WaitNothing
    <3> QED
      BY <3>1 DEF TypeOK, ClientTypes
  <2> QED
    BY <1>2, <2>2, ViewKept DEF viewVars, UsersKnown, UserOk, WaitNothing, objVars, devVars,
       hwVars
<1>3. CASE LinkScan(t) \/ LinkLeastLoaded(t)
  <2>1. /\ pc[t] = "linkScan" /\ UNCHANGED <<po, runDone, exeStatus, ran, phase, holder>>
        /\ \/ \E d \in Devs : AddJob(d, job[t])
           \/ UNCHANGED <<workList, coreId>>
    BY <1>3 DEF LinkScan, LinkLeastLoaded, hwVars, clientVars
  <2>2. CASE UNCHANGED <<workList, coreId>>
    BY <2>1, <2>2, ViewKept DEF viewVars, UsersKnown, UserOk
  <2> QED
    BY <2>1, <2>2, JobAddedView
<1> QED
  BY <1>1, <1>2, <1>3, NoDrops, ReserveTakeView, WaitGotView, ReleaseCallView, RemovesView,
     LinkedView DEF InCall, Calls, Signals, Link, Wait, Release

LEMMA NextView ==
  ASSUME TypeOK, LockOwners, ListInv, NoDropCalls, HwInv, UsersKnown, [Next]_vars,
         [~EngineRace]_vars
  PROVE  UsersKnown' /\ [Contract!Next]_Contract!vars
<1>1. CASE UNCHANGED vars
  BY <1>1, ViewKept DEF vars, viewVars, UsersKnown, UserOk, objVars, devVars, hwVars,
     clientVars
<1>2. ASSUME NEW d \in Devs, Isr(d)
      PROVE  UsersKnown' /\ [Contract!Next]_Contract!vars
  <2>1. DoneIsTrue'
    BY NextHw DEF HwInv
  <2> QED
    BY <1>2, <2>1, IsrView
<1>3. ASSUME NEW d \in Devs, KthreadBusErr(d) \/ HwAbortStalled(d)
                             \/ \E k \in ErrorKinds : HwError(d, k)
      PROVE  UsersKnown' /\ [Contract!Next]_Contract!vars
  BY <1>3, ViewKept DEF viewVars, UsersKnown, UserOk, KthreadBusErr, HwAbortStalled, HwError,
     objVars, devVars, clientVars
<1> QED
  BY <1>1, <1>2, <1>3, ThreadView, HwFinishView DEF Next, Hw

LEMMA InitView == Init => UsersKnown /\ Contract!Init
<1> SUFFICES ASSUME Init PROVE UsersKnown /\ Contract!Init
  OBVIOUS
<1>1. \A o \in Objs : Stage(o) = "free"
  BY DEF Init, Stage
<1>2. \A o \in Objs : Earlier(o) = {}
  BY DEF Init, Earlier, Before
<1> QED
  BY <1>1, <1>2 DEF Init, UsersKnown, UserOk, Contract!Init

(* The engine keeps the contract of a cmdbuf, of which the driver has no   *)
(* variable: its stage is spread over the pool, the lists, the flags of    *)
(* the cmdbuf and what the client was told.                                *)
THEOREM EngineRefinesContract ==
  ASSUME NoDropCalls PROVE Safety /\ [][~EngineRace]_vars => ImplementsContract
<1>1. ASSUME TypeOK, LockOwners, ListInv, HwInv, UsersKnown, [Next]_vars, [~EngineRace]_vars
      PROVE  UsersKnown' /\ [Contract!Next]_Contract!vars
  BY <1>1, NextView
<1> QED
  BY <1>1, InitView, SafetyHw, SafetyLocks, PTL
     DEF Safety, ImplementsContract, Contract!Spec
=============================================================================

---------------------------- MODULE HevcDpbProofs ----------------------------
(***************************************************************************)
(* The frame buffer list and the decoded picture buffer, for any number of *)
(* buffers and cores: what each operation on the list does to one buffer's *)
(* flags and count and to free_buffers, then the DPB's own counters, on    *)
(* which its bumping loops rely.  HevcRefCountProofs builds on both.       *)
(***************************************************************************)
EXTENDS HevcMultiCore, FiniteSetTheorems, WellFoundedInduction, TLAPS

Stat == [b_used : SUBSET Flags, n_ref_count : Nat]

Used(f, b) == f.fb_stat[b].b_used
Count(f, b) == f.fb_stat[b].n_ref_count

\* The buffers PopFreeBuffer could find, and free_buffers counting them.
IdleIds(f) == {b \in Bufs : IsIdle(f.fb_stat[b])}
FreeExact(f) == f.free_buffers = Cardinality(IdleIds(f))

-----------------------------------------------------------------------------
(* Operations on the frame buffer list *)

LEMMA IdleFinite ==
  ASSUME NEW f
  PROVE  IsFiniteSet(IdleIds(f)) /\ Cardinality(IdleIds(f)) \in Nat
BY BufsAssumption, FS_Subset, FS_CardinalityType DEF IdleIds

\* A new list that differs from an old one in one buffer, which was not idle.
LEMMA OneMoreIdle ==
  ASSUME NEW f \in FrameBufferList, NEW g \in FrameBufferList, NEW id \in Bufs,
         FreeExact(f), id \notin IdleIds(f),
         \A b \in Bufs \ {id} : g.fb_stat[b] = f.fb_stat[b],
         g.free_buffers = IF IsIdle(g.fb_stat[id]) THEN f.free_buffers + 1
                                                  ELSE f.free_buffers
  PROVE  FreeExact(g)
<1>1. CASE IsIdle(g.fb_stat[id])
  <2>1. IdleIds(g) = IdleIds(f) \cup {id}
    BY <1>1 DEF IdleIds
  <2> QED
    BY <1>1, <2>1, IdleFinite, FS_AddElement DEF FreeExact
<1>2. CASE ~IsIdle(g.fb_stat[id])
  <2>1. IdleIds(g) = IdleIds(f)
    BY <1>2 DEF IdleIds
  <2> QED
    BY <1>2, <2>1 DEF FreeExact
<1> QED
  BY <1>1, <1>2

\* The same for a set of buffers, none of which was idle.
LEMMA ManyMoreIdle ==
  ASSUME NEW f \in FrameBufferList, NEW g \in FrameBufferList,
         NEW ids \in SUBSET Bufs,
         FreeExact(f), ids \cap IdleIds(f) = {},
         \A b \in Bufs \ ids : g.fb_stat[b] = f.fb_stat[b],
         g.free_buffers = f.free_buffers
                          + Cardinality({b \in ids : IsIdle(g.fb_stat[b])})
  PROVE  FreeExact(g)
<1> DEFINE new == {b \in ids : IsIdle(g.fb_stat[b])}
<1>1. IsFiniteSet(new) /\ Cardinality(new) \in Nat
  BY BufsAssumption, FS_Subset, FS_CardinalityType
<1>2. IdleIds(g) = IdleIds(f) \cup new
  BY DEF IdleIds
<1>3. IdleIds(f) \cap new = {}
  OBVIOUS
<1>4. Cardinality(IdleIds(g)) = Cardinality(IdleIds(f)) + Cardinality(new)
  <2> HIDE DEF new
  <2> QED
    <3>1. /\ IsFiniteSet(IdleIds(f)) /\ Cardinality(IdleIds(f)) \in Nat
          /\ Cardinality(IdleIds(f) \cap new) = 0
      BY <1>3, IdleFinite, FS_EmptySet
    <3>2. Cardinality(IdleIds(f) \cup new)
            = Cardinality(IdleIds(f)) + Cardinality(new) - Cardinality(IdleIds(f) \cap new)
      BY <1>1, <3>1, FS_Union
    <3> QED
      BY <1>1, <1>2, <3>1, <3>2
<1> QED
  BY <1>4 DEF FreeExact

LEMMA MarkEffect ==
  ASSUME NEW f \in FrameBufferList, NEW id \in Bufs, NEW type \in Flags
  PROVE  LET g == Mark(f, id, type) IN
         /\ g \in FrameBufferList
         /\ \A b \in Bufs :
              /\ Used(g, b) = IF b = id THEN Used(f, b) \cup {type} ELSE Used(f, b)
              /\ Count(g, b) = IF b = id THEN Count(f, b) + 1 ELSE Count(f, b)
         /\ FreeExact(f) /\ id \notin IdleIds(f) => FreeExact(g)
<1> DEFINE g == Mark(f, id, type)
           new == [b_used |-> Used(f, id) \cup {type}, n_ref_count |-> Count(f, id) + 1]
<1>1. f.fb_stat[id] \in Stat
  BY DEF FrameBufferList, Stat
<1>2. g.fb_stat = [f.fb_stat EXCEPT ![id] = new]
  BY DEF FrameBufferList, Mark, Used, Count
<1>3. g.free_buffers = f.free_buffers
  BY DEF FrameBufferList, Mark
<1>4. new \in Stat
  BY <1>1 DEF Stat, Used, Count
<1>5. g.fb_stat \in [Bufs -> Stat]
  BY <1>2, <1>4 DEF FrameBufferList, Stat
<1>6. g \in FrameBufferList
  <2>1. g = [f EXCEPT !.fb_stat = g.fb_stat]
    BY DEF FrameBufferList, Mark
  <2> HIDE DEF g
  <2> QED
    BY <1>5, <2>1 DEF FrameBufferList, Stat
<1>7. \A b \in Bufs : g.fb_stat[b] = IF b = id THEN new ELSE f.fb_stat[b]
  BY <1>2 DEF FrameBufferList
<1>8. ~IsIdle(g.fb_stat[id])
  BY <1>1, <1>7 DEF IsIdle, Stat, Count
<1>9. FreeExact(f) /\ id \notin IdleIds(f) => FreeExact(g)
  <2> HIDE DEF g
  <2> QED
    BY <1>3, <1>6, <1>7, <1>8, OneMoreIdle
<1>10. \A b \in Bufs :
         /\ Used(g, b) = IF b = id THEN Used(f, b) \cup {type} ELSE Used(f, b)
         /\ Count(g, b) = IF b = id THEN Count(f, b) + 1 ELSE Count(f, b)
  <2> HIDE DEF g
  <2> QED
    BY <1>7 DEF Used, Count
<1> QED
  BY <1>6, <1>9, <1>10

LEMMA UnmarkEffect ==
  ASSUME NEW f \in FrameBufferList, NEW id \in Bufs, NEW types \in SUBSET Flags
  PROVE  LET g == Unmark(f, id, types) IN
         /\ g \in FrameBufferList
         /\ \A b \in Bufs :
              /\ Used(g, b) = IF b = id THEN Used(f, b) \ types ELSE Used(f, b)
              /\ Count(g, b) = IF b = id /\ Count(f, b) > 0 THEN Count(f, b) - 1
                                                            ELSE Count(f, b)
         /\ FreeExact(f) /\ id \notin IdleIds(f) => FreeExact(g)
<1> DEFINE g == Unmark(f, id, types)
           new == [b_used |-> Used(f, id) \ types,
                   n_ref_count |-> IF Count(f, id) > 0 THEN Count(f, id) - 1 ELSE 0]
<1>1. f.fb_stat[id] \in Stat
  BY DEF FrameBufferList, Stat
<1>2. g.fb_stat = [f.fb_stat EXCEPT ![id] = new]
  BY DEF FrameBufferList, Unmark, Used, Count
<1>3. g.free_buffers = IF IsIdle(new) THEN f.free_buffers + 1 ELSE f.free_buffers
  BY DEF FrameBufferList, Unmark, Used, Count
<1>4. new \in Stat
  BY <1>1 DEF Stat, Used, Count
<1>5. g.fb_stat \in [Bufs -> Stat]
  BY <1>2, <1>4 DEF FrameBufferList, Stat
<1>6. g \in FrameBufferList
  <2>1. g = [f EXCEPT !.fb_stat = g.fb_stat, !.free_buffers = g.free_buffers]
    BY <1>2, <1>3 DEF FrameBufferList, Unmark, Used, Count
  <2>2. g.free_buffers \in Int
    BY <1>3 DEF FrameBufferList
  <2> HIDE DEF g
  <2> QED
    BY <1>5, <2>1, <2>2 DEF FrameBufferList, Stat
<1>7. \A b \in Bufs : g.fb_stat[b] = IF b = id THEN new ELSE f.fb_stat[b]
  BY <1>2 DEF FrameBufferList
<1>8. FreeExact(f) /\ id \notin IdleIds(f) => FreeExact(g)
  <2> HIDE DEF g
  <2> QED
    BY <1>3, <1>6, <1>7, OneMoreIdle
<1>9. \A b \in Bufs :
        /\ Used(g, b) = IF b = id THEN Used(f, b) \ types ELSE Used(f, b)
        /\ Count(g, b) = IF b = id /\ Count(f, b) > 0 THEN Count(f, b) - 1
                                                      ELSE Count(f, b)
  <2> HIDE DEF g
  <2> QED
    BY <1>1, <1>7 DEF Used, Count, Stat
<1> QED
  BY <1>6, <1>8, <1>9

LEMMA FinalizeEffect ==
  ASSUME NEW f \in FrameBufferList
  PROVE  LET g == FinalizeOutputAll(f) IN
         /\ g \in FrameBufferList
         /\ \A b \in Bufs :
              /\ Used(g, b) = IF "TEMP_OUTPUT" \in Used(f, b)
                              THEN (Used(f, b) \ {"TEMP_OUTPUT"}) \cup {"OUTPUT"}
                              ELSE Used(f, b)
              /\ Count(g, b) = Count(f, b)
         /\ FreeExact(f) => FreeExact(g)
<1> DEFINE g == FinalizeOutputAll(f)
           Final(used) == IF "TEMP_OUTPUT" \in used
                          THEN (used \ {"TEMP_OUTPUT"}) \cup {"OUTPUT"} ELSE used
<1>1. \A b \in Bufs : f.fb_stat[b] \in Stat
  BY DEF FrameBufferList, Stat
<1>2. g.fb_stat = [b \in Bufs |-> [f.fb_stat[b] EXCEPT !.b_used = Final(@)]]
  BY DEF FrameBufferList, FinalizeOutputAll
<1>3. g.free_buffers = f.free_buffers /\ g = [f EXCEPT !.fb_stat = g.fb_stat]
  BY DEF FrameBufferList, FinalizeOutputAll
<1>4. \A b \in Bufs : Used(g, b) = Final(Used(f, b)) /\ Count(g, b) = Count(f, b)
  <2> HIDE DEF g, Final
  <2> QED
    BY <1>1, <1>2 DEF Used, Count, Stat
<1>5. \A b \in Bufs : [f.fb_stat[b] EXCEPT !.b_used = Final(@)] \in Stat
  <2> SUFFICES ASSUME NEW b \in Bufs
               PROVE  [f.fb_stat[b] EXCEPT !.b_used = Final(@)] \in Stat
    OBVIOUS
  <2>1. f.fb_stat[b].b_used \in SUBSET Flags
    BY <1>1 DEF Stat
  <2>2. Final(f.fb_stat[b].b_used) \in SUBSET Flags
    BY <2>1 DEF Flags
  <2> HIDE DEF Final
  <2> QED
    BY <1>1, <2>2 DEF Stat
<1>6. g \in FrameBufferList
  <2>1. g.fb_stat \in [Bufs -> Stat]
    <3> HIDE DEF g, Final
    <3> QED
      BY <1>2, <1>5
  <2> HIDE DEF g
  <2> QED
    BY <1>3, <2>1 DEF FrameBufferList, Stat
<1>7. IdleIds(g) = IdleIds(f)
  <2>1. \A b \in Bufs : Final(Used(f, b)) = {"FREE"} <=> Used(f, b) = {"FREE"}
    OBVIOUS
  <2> HIDE DEF g, Final
  <2> QED
    BY <1>4, <2>1 DEF IdleIds, IsIdle, Used, Count
<1> QED
  BY <1>3, <1>4, <1>6, <1>7 DEF FreeExact

LEMMA ClearOutputsEffect ==
  ASSUME NEW f \in FrameBufferList, NEW ids \in SUBSET Bufs
  PROVE  LET g == ClearOutputs(f, ids) IN
         /\ g \in FrameBufferList /\ g.abort = f.abort
         /\ \A b \in Bufs :
              /\ Used(g, b) = IF b \in ids THEN Used(f, b) \ {"OUTPUT", "TEMP_OUTPUT"}
                                           ELSE Used(f, b)
              /\ Count(g, b) = IF b \in ids /\ Count(f, b) > 0 THEN Count(f, b) - 1
                                                               ELSE Count(f, b)
         /\ FreeExact(f) /\ ids \cap IdleIds(f) = {} => FreeExact(g)
<1> DEFINE g == ClearOutputs(f, ids)
           cleared(b) == ClearOutput(f, b).fb_stat[b]
           new == [b \in Bufs |-> IF b \in ids THEN cleared(b) ELSE f.fb_stat[b]]
<1>1. \A b \in Bufs : f.fb_stat[b] \in Stat
  BY DEF FrameBufferList, Stat
<1>2. \A b \in Bufs :
        /\ cleared(b) \in Stat
        /\ cleared(b).b_used = Used(f, b) \ {"OUTPUT", "TEMP_OUTPUT"}
        /\ cleared(b).n_ref_count = IF Count(f, b) > 0 THEN Count(f, b) - 1
                                                       ELSE Count(f, b)
  <2> SUFFICES ASSUME NEW b \in Bufs
               PROVE  /\ cleared(b) \in Stat
                      /\ cleared(b).b_used = Used(f, b) \ {"OUTPUT", "TEMP_OUTPUT"}
                      /\ cleared(b).n_ref_count =
                           IF Count(f, b) > 0 THEN Count(f, b) - 1 ELSE Count(f, b)
    OBVIOUS
  <2> DEFINE h == Unmark(f, b, {"OUTPUT", "TEMP_OUTPUT"})
  <2>1. {"OUTPUT", "TEMP_OUTPUT"} \in SUBSET Flags
    BY DEF Flags
  <2>2. /\ h \in FrameBufferList
        /\ Used(h, b) = Used(f, b) \ {"OUTPUT", "TEMP_OUTPUT"}
        /\ Count(h, b) = IF Count(f, b) > 0 THEN Count(f, b) - 1 ELSE Count(f, b)
    BY <2>1, UnmarkEffect
  <2>3. cleared(b) = h.fb_stat[b]
    BY DEF ClearOutput
  <2> HIDE DEF h, cleared
  <2> QED
    BY <2>2, <2>3 DEF Used, Count, FrameBufferList, Stat
<1> HIDE DEF cleared
<1>3. new \in [Bufs -> Stat]
  BY <1>1, <1>2
<1>4. {b \in ids : IsIdle(new[b])} \in SUBSET Bufs
  OBVIOUS
<1>5. IsFiniteSet({b \in ids : IsIdle(new[b])})
  BY <1>4, BufsAssumption, FS_Subset
<1>6. Cardinality({b \in ids : IsIdle(new[b])}) \in Nat
  BY <1>5, FS_CardinalityType
<1>7. g = [f EXCEPT !.fb_stat = new, !.free_buffers =
             f.free_buffers + Cardinality({b \in ids : IsIdle(new[b])})]
  BY DEF ClearOutputs, cleared
<1> HIDE DEF g, new
<1>8. /\ g.fb_stat = new /\ g.abort = f.abort
      /\ g.free_buffers = f.free_buffers + Cardinality({b \in ids : IsIdle(new[b])})
      /\ g \in FrameBufferList
  <2> DEFINE n == f.free_buffers + Cardinality({b \in ids : IsIdle(new[b])})
  <2>1. n \in Int
    BY <1>6 DEF FrameBufferList
  <2>2. g = [f EXCEPT !.fb_stat = new, !.free_buffers = n]
    BY <1>7
  <2>3. n = f.free_buffers + Cardinality({b \in ids : IsIdle(new[b])})
    OBVIOUS
  <2> HIDE DEF n
  <2>4. /\ g \in FrameBufferList /\ g.fb_stat = new
        /\ g.free_buffers = n /\ g.abort = f.abort
    BY <1>3, <2>1, <2>2 DEF FrameBufferList, Stat
  <2> QED
    BY <2>3, <2>4
<1>9. \A b \in Bufs :
        /\ Used(g, b) = IF b \in ids THEN Used(f, b) \ {"OUTPUT", "TEMP_OUTPUT"}
                                     ELSE Used(f, b)
        /\ Count(g, b) = IF b \in ids /\ Count(f, b) > 0 THEN Count(f, b) - 1
                                                         ELSE Count(f, b)
  BY <1>2, <1>8 DEF Used, Count, new
<1>10. \A b \in Bufs \ ids : g.fb_stat[b] = f.fb_stat[b]
  BY <1>8 DEF new
<1>11. FreeExact(f) /\ ids \cap IdleIds(f) = {} => FreeExact(g)
  BY <1>8, <1>10, ManyMoreIdle
<1> QED
  BY <1>8, <1>9, <1>11 DEF g

LEMMA IncrementEffect ==
  ASSUME NEW f \in FrameBufferList, NEW ids \in SUBSET Bufs
  PROVE  LET g == IncrementDPBRefCount(f, ids) IN
         /\ g \in FrameBufferList /\ g.abort = f.abort
         /\ \A b \in Bufs :
              /\ Used(g, b) = Used(f, b)
              /\ Count(g, b) = IF b \in ids THEN Count(f, b) + 1 ELSE Count(f, b)
         /\ FreeExact(f) /\ ids \cap IdleIds(f) = {} => FreeExact(g)
<1> DEFINE g == IncrementDPBRefCount(f, ids)
           stat(b) == [f.fb_stat[b] EXCEPT !.n_ref_count = IF b \in ids THEN @ + 1 ELSE @]
<1>1. \A b \in Bufs : f.fb_stat[b] \in Stat
  BY DEF FrameBufferList, Stat
<1>2. \A b \in Bufs :
        /\ stat(b) \in Stat /\ stat(b).b_used = Used(f, b)
        /\ stat(b).n_ref_count = IF b \in ids THEN Count(f, b) + 1 ELSE Count(f, b)
  BY <1>1 DEF Stat, Used, Count
<1>3. g = [f EXCEPT !.fb_stat = [b \in Bufs |-> stat(b)]]
  BY DEF IncrementDPBRefCount
<1> HIDE DEF g, stat
<1>4. /\ g \in FrameBufferList /\ g.abort = f.abort
      /\ g.free_buffers = f.free_buffers
      /\ g.fb_stat = [b \in Bufs |-> stat(b)]
  BY <1>2, <1>3 DEF FrameBufferList, Stat
<1>5. \A b \in Bufs :
        /\ Used(g, b) = Used(f, b)
        /\ Count(g, b) = IF b \in ids THEN Count(f, b) + 1 ELSE Count(f, b)
  BY <1>2, <1>4 DEF Used, Count
<1>6. ASSUME ids \cap IdleIds(f) = {} PROVE IdleIds(g) = IdleIds(f)
  <2>1. \A b \in ids : ~IsIdle(g.fb_stat[b])
    BY <1>1, <1>5 DEF IsIdle, Count, Stat
  <2>2. \A b \in Bufs \ ids : IsIdle(g.fb_stat[b]) <=> IsIdle(f.fb_stat[b])
    BY <1>5 DEF IsIdle, Used, Count
  <2> QED
    BY <1>6, <2>1, <2>2 DEF IdleIds
<1> QED
  BY <1>4, <1>5, <1>6 DEF FreeExact, g

\* Every buffer of the set is referenced, so none is idle before.
LEMMA DecrementEffect ==
  ASSUME NEW f \in FrameBufferList, NEW ids \in SUBSET Bufs
  PROVE  LET g == DecrementDPBRefCountExt(f, ids) IN
         /\ g \in FrameBufferList /\ g.abort = f.abort
         /\ \A b \in Bufs :
              /\ Used(g, b) = Used(f, b)
              /\ Count(g, b) = IF b \in ids /\ Count(f, b) > 0 THEN Count(f, b) - 1
                                                               ELSE Count(f, b)
         /\ FreeExact(f) => FreeExact(g)
<1> DEFINE g == DecrementDPBRefCountExt(f, ids)
           used == {b \in ids : IsBufferReferenced(f, b)}
           stat(b) == [f.fb_stat[b] EXCEPT !.n_ref_count = IF b \in used THEN @ - 1 ELSE @]
           new == [b \in Bufs |-> stat(b)]
<1>1. \A b \in Bufs : f.fb_stat[b] \in Stat
  BY DEF FrameBufferList, Stat
<1>2. \A b \in Bufs : b \in used <=> b \in ids /\ Count(f, b) > 0
  BY <1>1 DEF IsBufferReferenced, Count, Stat
<1>3. used \in SUBSET Bufs /\ used \cap IdleIds(f) = {}
  BY DEF IsBufferReferenced, IdleIds, IsIdle
<1> HIDE DEF used
<1>4. \A b \in Bufs :
        /\ stat(b) \in Stat /\ stat(b).b_used = Used(f, b)
        /\ stat(b).n_ref_count = IF b \in used THEN Count(f, b) - 1 ELSE Count(f, b)
  BY <1>1, <1>2 DEF Stat, Used, Count
<1>5. /\ IsFiniteSet({b \in used : IsIdle(new[b])})
      /\ Cardinality({b \in used : IsIdle(new[b])}) \in Nat
  <2>1. {b \in used : IsIdle(new[b])} \in SUBSET Bufs
    BY <1>3
  <2> QED
    BY <2>1, BufsAssumption, FS_Subset, FS_CardinalityType
<1>6. g = [f EXCEPT !.fb_stat = new, !.free_buffers =
             f.free_buffers + Cardinality({b \in used : IsIdle(new[b])})]
  BY DEF DecrementDPBRefCountExt, used
<1> HIDE DEF g, stat
<1>7. new \in [Bufs -> Stat]
  BY <1>4
<1> HIDE DEF new
<1>8. /\ g.fb_stat = new /\ g.abort = f.abort
      /\ g.free_buffers = f.free_buffers + Cardinality({b \in used : IsIdle(new[b])})
      /\ g \in FrameBufferList
  <2> DEFINE n == f.free_buffers + Cardinality({b \in used : IsIdle(new[b])})
  <2>1. n \in Int
    BY <1>5 DEF FrameBufferList
  <2>2. g = [f EXCEPT !.fb_stat = new, !.free_buffers = n]
    BY <1>6
  <2>3. n = f.free_buffers + Cardinality({b \in used : IsIdle(new[b])})
    OBVIOUS
  <2> HIDE DEF n
  <2>4. /\ g \in FrameBufferList /\ g.fb_stat = new
        /\ g.free_buffers = n /\ g.abort = f.abort
    BY <1>7, <2>1, <2>2 DEF FrameBufferList, Stat
  <2> QED
    BY <2>3, <2>4
<1>9. \A b \in Bufs :
        /\ Used(g, b) = Used(f, b)
        /\ Count(g, b) = IF b \in used THEN Count(f, b) - 1 ELSE Count(f, b)
  BY <1>4, <1>8 DEF Used, Count, new
<1>10. \A b \in Bufs \ used : g.fb_stat[b] = f.fb_stat[b]
  BY <1>1, <1>8 DEF new, stat, Stat
<1>11. FreeExact(f) => FreeExact(g)
  BY <1>3, <1>8, <1>10, ManyMoreIdle
<1> QED
  BY <1>2, <1>8, <1>9, <1>11 DEF g

\* SetFreePicBuffer: an idle buffer id goes out, the slot's old one comes back.
\* When nothing refers to the old one any more, no flag but ALLOCATED is left.
LEMMA SwapEffect ==
  ASSUME NEW f \in FrameBufferList, NEW id \in IdleIds(f), NEW old \in Bufs,
         id # old
  PROVE  LET g == PushFreeBuffer(PopFreeBuffer(f, id), old) IN
         /\ g \in FrameBufferList
         /\ \A b \in Bufs :
              /\ Used(g, b) = IF b = id THEN {"ALLOCATED"}
                              ELSE IF b = old
                                   THEN (Used(f, b) \ {"ALLOCATED"}) \cup {"FREE"}
                                   ELSE Used(f, b)
              /\ Count(g, b) = Count(f, b)
         /\ FreeExact(f) /\ old \notin IdleIds(f)
            /\ (Count(f, old) = 0 => Used(f, old) = {"ALLOCATED"}) => FreeExact(g)
<1> DEFINE p == PopFreeBuffer(f, id)
           g == PushFreeBuffer(p, old)
           out == [f.fb_stat[id] EXCEPT !.b_used = {"ALLOCATED"}]
           back == [f.fb_stat[old] EXCEPT !.b_used = (@ \ {"ALLOCATED"}) \cup {"FREE"}]
<1>1. id \in Bufs /\ \A b \in Bufs : f.fb_stat[b] \in Stat
  BY DEF FrameBufferList, Stat, IdleIds
<1>2. /\ p.fb_stat = [f.fb_stat EXCEPT ![id] = out]
      /\ p = [f EXCEPT !.fb_stat = p.fb_stat, !.free_buffers = f.free_buffers - 1]
  BY DEF PopFreeBuffer, FrameBufferList
<1>3. out \in Stat /\ back \in Stat
  BY <1>1 DEF Stat, Flags
<1>4. /\ p.fb_stat \in [Bufs -> Stat] /\ p.fb_stat[old] = f.fb_stat[old]
      /\ \A b \in Bufs : p.fb_stat[b] = IF b = id THEN out ELSE f.fb_stat[b]
  <2> HIDE DEF out
  <2>1. f.fb_stat \in [Bufs -> Stat]
    BY DEF FrameBufferList, Stat
  <2> QED
    BY <1>2, <1>3, <2>1
<1>5. p \in FrameBufferList /\ p.free_buffers = f.free_buffers - 1
  <2> DEFINE n == f.free_buffers - 1
             stat == p.fb_stat
  <2>1. n \in Int /\ stat \in [Bufs -> Stat]
    BY <1>4 DEF FrameBufferList
  <2>2. p = [f EXCEPT !.fb_stat = stat, !.free_buffers = n]
    BY <1>2
  <2>3. n = f.free_buffers - 1
    OBVIOUS
  <2> HIDE DEF p, n, stat
  <2>4. p \in FrameBufferList /\ p.free_buffers = n
    BY <2>1, <2>2 DEF FrameBufferList, Stat
  <2> QED
    BY <2>3, <2>4
<1> HIDE DEF p
<1>6. /\ g.fb_stat = [p.fb_stat EXCEPT ![old] = back]
      /\ g.free_buffers = IF Count(f, old) # 0 THEN p.free_buffers ELSE p.free_buffers + 1
      /\ g = [p EXCEPT !.fb_stat = g.fb_stat, !.free_buffers = g.free_buffers]
  BY <1>4, <1>5 DEF PushFreeBuffer, FrameBufferList, IsBufferReferenced, Count
<1> HIDE DEF g
<1>7. \A b \in Bufs : g.fb_stat[b] = IF b = id THEN out ELSE
                                     IF b = old THEN back ELSE f.fb_stat[b]
  <2> HIDE DEF out, back
  <2> QED
    BY <1>1, <1>4, <1>6
<1>8. g \in FrameBufferList
  <2>1. g.fb_stat \in [Bufs -> Stat]
    <3> HIDE DEF out, back
    <3> QED
      BY <1>3, <1>4, <1>6
  <2>2. g.free_buffers \in Int
    BY <1>5, <1>6 DEF FrameBufferList
  <2> QED
    BY <1>5, <1>6, <2>1, <2>2 DEF FrameBufferList, Stat
<1>9. /\ out.b_used = {"ALLOCATED"} /\ out.n_ref_count = Count(f, id)
      /\ back.b_used = (Used(f, old) \ {"ALLOCATED"}) \cup {"FREE"}
      /\ back.n_ref_count = Count(f, old)
  BY <1>1 DEF Stat, Used, Count
<1>10. \A b \in Bufs :
         /\ Used(g, b) = IF b = id THEN {"ALLOCATED"}
                         ELSE IF b = old THEN (Used(f, b) \ {"ALLOCATED"}) \cup {"FREE"}
                                         ELSE Used(f, b)
         /\ Count(g, b) = Count(f, b)
  <2> HIDE DEF out, back
  <2> QED
    BY <1>7, <1>9 DEF Used, Count
<1>11. ASSUME FreeExact(f), old \notin IdleIds(f),
              Count(f, old) = 0 => Used(f, old) = {"ALLOCATED"}
       PROVE  FreeExact(g)
  <2>1. id \notin IdleIds(g)
    BY <1>1, <1>10 DEF IdleIds, IsIdle, Used
  <2>2. \A b \in Bufs \ {id, old} : b \in IdleIds(g) <=> b \in IdleIds(f)
    BY <1>7 DEF IdleIds
  <2>3. old \in IdleIds(g) <=> Count(f, old) = 0
    BY <1>10, <1>11 DEF IdleIds, IsIdle, Used, Count
  <2>4. /\ IsFiniteSet(IdleIds(f)) /\ IsFiniteSet(IdleIds(f) \ {id})
        /\ Cardinality(IdleIds(f) \ {id}) = Cardinality(IdleIds(f)) - 1
    BY IdleFinite, FS_RemoveElement
  <2>5. CASE Count(f, old) = 0
    <3>1. IdleIds(g) = (IdleIds(f) \ {id}) \cup {old}
      BY <2>1, <2>2, <2>3, <2>5 DEF IdleIds
    <3>2. Cardinality(IdleIds(g)) = Cardinality(IdleIds(f) \ {id}) + 1
      BY <1>11, <2>4, <3>1, FS_AddElement
    <3> QED
      BY <1>5, <1>6, <1>11, <2>4, <2>5, <3>2, IdleFinite DEF FreeExact
  <2>6. CASE Count(f, old) # 0
    <3>1. IdleIds(g) = IdleIds(f) \ {id}
      BY <1>11, <2>1, <2>2, <2>3, <2>6 DEF IdleIds
    <3> QED
      BY <1>5, <1>6, <1>11, <2>4, <2>6, <3>1 DEF FreeExact
  <2> QED
    BY <2>5, <2>6
<1> QED
  BY <1>8, <1>10, <1>11 DEF g, p

LEMMA AbortEffect ==
  ASSUME NEW f \in FrameBufferList
  PROVE  LET g == SetAbortStatusInList(f)
             h == ClearAbortStatusInList(f)
         IN /\ g \in FrameBufferList /\ h \in FrameBufferList
            /\ g.fb_stat = f.fb_stat /\ h.fb_stat = f.fb_stat
            /\ FreeExact(f) => FreeExact(g) /\ FreeExact(h)
<1>1. /\ SetAbortStatusInList(f).fb_stat = f.fb_stat
      /\ SetAbortStatusInList(f).free_buffers = f.free_buffers
      /\ SetAbortStatusInList(f) \in FrameBufferList
  BY DEF SetAbortStatusInList, FrameBufferList
<1>2. /\ ClearAbortStatusInList(f).fb_stat = f.fb_stat
      /\ ClearAbortStatusInList(f).free_buffers = f.free_buffers
      /\ ClearAbortStatusInList(f) \in FrameBufferList
  BY DEF ClearAbortStatusInList, FrameBufferList
<1> QED
  BY <1>1, <1>2 DEF FreeExact, IdleIds

-----------------------------------------------------------------------------
(* Operations on the decoded picture buffer *)

Mem(d, i) == d.slots[i].mem_idx
Display(d, i) == d.slots[i].display
IsRef(d, i) == d.slots[i].reference

\* The slots that hold no picture, those of references, and those to be shown.
Free(d) == {i \in Slots : Display(d, i) = "no" /\ ~IsRef(d, i)}
Busy(d) == Slots \ Free(d)
Refs(d) == {i \in Slots : IsRef(d, i)}
Shown(d) == {i \in Slots : Display(d, i) = "shown"}

\* The counters count, and the last slot is never in use.
DpbExact(d) ==
  /\ d.fullness = Cardinality(Busy(d))
  /\ d.num_out_pics_buffered = Cardinality(Shown(d))
  /\ DpbSize \in Free(d)

SlotsLike(d, e) ==
  \A i \in Slots : /\ Mem(e, i) = Mem(d, i) /\ Display(e, i) = Display(d, i)
                   /\ IsRef(e, i) = IsRef(d, i)

LEMMA SlotsFacts ==
  /\ RealSize \in Nat /\ RealSize > 0 /\ DpbSize = RealSize + 1 /\ DpbSize \in Slots
  /\ Slots \subseteq Nat /\ Slots \subseteq Bufs /\ 0 \in Slots /\ 0 \in Bufs
  /\ IsFiniteSet(Slots) /\ Cardinality(Slots) = RealSize + 2
  /\ MaxReorder \in Nat /\ MaxReorder <= RealSize
<1>1. PICK n \in MinBuffers .. TotBuffers : Bufs = 0 .. n - 1
  BY ConstantsAssumption
<1>2. RealSize \in Nat /\ RealSize > 0 /\ MaxReorder \in Nat /\ MaxReorder <= RealSize
  BY ConstantsAssumption
<1>3. DpbSize = RealSize + 1 /\ Slots = 0 .. RealSize + 1 /\ MinBuffers = RealSize + 3
  BY <1>2 DEF DpbSize, Slots, MinBuffers
<1>4. IsFiniteSet(Cores) /\ Cardinality(Cores) \in Nat
  BY ConstantsAssumption, FS_CardinalityType
<1>5. n \in Nat /\ n >= RealSize + 3
  BY <1>2, <1>3, <1>4 DEF TotBuffers, DpbSize
<1>6. IsFiniteSet(Slots) /\ Cardinality(Slots) = RealSize + 2
  BY <1>2, <1>3, FS_Interval
<1> QED
  BY <1>1, <1>2, <1>3, <1>5, <1>6

LEMMA SlotSetsFinite ==
  ASSUME NEW S \in SUBSET Slots
  PROVE  IsFiniteSet(S) /\ Cardinality(S) \in Nat
BY SlotsFacts, FS_Subset, FS_CardinalityType

LEMMA Minus ==
  ASSUME NEW S \in SUBSET Slots, NEW T \in SUBSET S
  PROVE  Cardinality(S \ T) = Cardinality(S) - Cardinality(T)
<1>1. IsFiniteSet(S) /\ IsFiniteSet(T) /\ Cardinality(S) \in Nat /\ Cardinality(T) \in Nat
  BY SlotSetsFinite
<1>2. Cardinality(S \ T) = Cardinality(S) - Cardinality(S \cap T)
  BY <1>1, FS_Difference
<1>3. S \cap T = T
  OBVIOUS
<1> QED
  BY <1>2, <1>3

\* Any edit that leaves pictures, references and display alone.
LEMMA LikeEffect ==
  ASSUME NEW d, NEW e, SlotsLike(d, e), DpbExact(d),
         e.fullness = d.fullness, e.num_out_pics_buffered = d.num_out_pics_buffered
  PROVE  /\ DpbExact(e)
         /\ Free(e) = Free(d) /\ Refs(e) = Refs(d) /\ Shown(e) = Shown(d)
<1>1. Free(e) = Free(d) /\ Refs(e) = Refs(d) /\ Shown(e) = Shown(d)
  BY DEF SlotsLike, Free, Refs, Shown
<1> QED
  BY <1>1 DEF DpbExact, Busy

LEMMA SetRefPicsEffect ==
  ASSUME NEW d \in DpbStorage, DpbExact(d), NEW keep \in SUBSET Refs(d)
  PROVE  LET e == SetRefPics(d, keep) IN
         /\ e \in DpbStorage /\ DpbExact(e) /\ Refs(e) = keep
         /\ e.out_buf = d.out_buf /\ e.num_out_pics_buffered = d.num_out_pics_buffered
         /\ \A i \in Slots : Mem(e, i) = Mem(d, i) /\ Display(e, i) = Display(d, i)
<1> DEFINE e == SetRefPics(d, keep)
           freed == {i \in Slots : d.slots[i].reference /\ i \notin keep
                                   /\ d.slots[i].display = "no"}
           slots == [i \in Slots |-> [d.slots[i] EXCEPT !.reference = i \in keep]]
           n == d.fullness - Cardinality(freed)
<1>1. \A i \in Slots : d.slots[i] \in SlotType
  BY DEF DpbStorage
<1>2. slots \in [Slots -> SlotType]
  <2>1. \A i \in Slots : [d.slots[i] EXCEPT !.reference = i \in keep] \in SlotType
    <3> SUFFICES ASSUME NEW i \in Slots
                 PROVE  [d.slots[i] EXCEPT !.reference = i \in keep] \in SlotType
      OBVIOUS
    <3> DEFINE r == i \in keep
    <3>1. r \in BOOLEAN
      OBVIOUS
    <3> HIDE DEF r
    <3>2. [d.slots[i] EXCEPT !.reference = r] \in SlotType
      BY <1>1, <3>1 DEF SlotType
    <3> QED
      BY <3>2 DEF r
  <2> QED
    BY <2>1
<1>3. freed \in SUBSET Busy(d)
  BY DEF Busy, Free, Display, IsRef
<1>4. Cardinality(freed) \in Nat /\ Cardinality(Busy(d) \ freed) = n
  BY <1>3, SlotSetsFinite, Minus DEF DpbExact, Busy
<1>5. n \in Int
  BY <1>4 DEF DpbStorage
<1>6. e = [d EXCEPT !.slots = slots, !.fullness = n]
  BY DEF SetRefPics
<1>7. \A i \in Slots : /\ slots[i].mem_idx = d.slots[i].mem_idx
                       /\ slots[i].display = d.slots[i].display
                       /\ slots[i].reference = (i \in keep)
  BY <1>1 DEF SlotType
<1> HIDE DEF e, slots, n
<1>8. /\ e \in DpbStorage /\ e.slots = slots /\ e.fullness = n
      /\ e.out_buf = d.out_buf /\ e.num_out_pics_buffered = d.num_out_pics_buffered
  BY <1>2, <1>5, <1>6 DEF DpbStorage
<1>9. \A i \in Slots : /\ Mem(e, i) = Mem(d, i) /\ Display(e, i) = Display(d, i)
                       /\ IsRef(e, i) = (i \in keep)
  BY <1>7, <1>8 DEF Mem, Display, IsRef
<1>10. Refs(e) = keep /\ Shown(e) = Shown(d)
  BY <1>9 DEF Refs, Shown
<1>11. Busy(e) = Busy(d) \ freed
  BY <1>9 DEF Busy, Free, Refs, Display, IsRef
<1>12. DpbSize \in Free(e)
  BY <1>9, SlotsFacts DEF DpbExact, Free, Refs
<1>13. DpbExact(e)
  BY <1>4, <1>8, <1>10, <1>11, <1>12 DEF DpbExact
<1> QED
  BY <1>8, <1>9, <1>10, <1>13 DEF e

LEMMA DropUnshownEffect ==
  ASSUME NEW d \in DpbStorage, DpbExact(d)
  PROVE  LET e == DropUnshown(d) IN
         /\ e \in DpbStorage /\ DpbExact(e) /\ Refs(e) = Refs(d)
         /\ e.out_buf = d.out_buf /\ e.num_out_pics_buffered = d.num_out_pics_buffered
         /\ \A i \in Slots : Mem(e, i) = Mem(d, i)
         /\ \A i \in Slots : Display(e, i) # "no" => Display(d, i) # "no"
<1> DEFINE e == DropUnshown(d)
           drop == {i \in Slots : d.slots[i].display = "hidden" /\ ~d.slots[i].reference}
           slots == [i \in Slots |-> [d.slots[i] EXCEPT
                                        !.display = IF i \in drop THEN "no" ELSE @]]
           n == d.fullness - Cardinality(drop)
<1>1. \A i \in Slots : d.slots[i] \in SlotType
  BY DEF DpbStorage
<1>2. drop \in SUBSET Busy(d)
  BY DEF Busy, Free, Display, IsRef
<1>3. \A i \in drop : i \in Slots /\ d.slots[i].display = "hidden" /\ ~d.slots[i].reference
  OBVIOUS
<1>4. \A i \in Slots : d.slots[i].display = "hidden" /\ ~d.slots[i].reference => i \in drop
  OBVIOUS
<1>5. e = [d EXCEPT !.slots = slots, !.fullness = n]
  BY DEF DropUnshown
<1> HIDE DEF e, drop
<1>6. slots \in [Slots -> SlotType]
  BY <1>1 DEF SlotType
<1>7. \A i \in Slots : /\ slots[i].mem_idx = d.slots[i].mem_idx
                       /\ slots[i].display = IF i \in drop THEN "no" ELSE d.slots[i].display
                       /\ slots[i].reference = d.slots[i].reference
  BY <1>1 DEF SlotType
<1>8. Cardinality(drop) \in Nat /\ Cardinality(Busy(d) \ drop) = n
  BY <1>2, SlotSetsFinite, Minus DEF DpbExact, Busy
<1>9. n \in Int
  BY <1>8 DEF DpbStorage
<1> HIDE DEF slots, n
<1>10. /\ e \in DpbStorage /\ e.slots = slots /\ e.fullness = n
       /\ e.out_buf = d.out_buf /\ e.num_out_pics_buffered = d.num_out_pics_buffered
  BY <1>5, <1>6, <1>9 DEF DpbStorage
<1>11. \A i \in Slots : /\ Mem(e, i) = Mem(d, i)
                        /\ Display(e, i) = IF i \in drop THEN "no" ELSE Display(d, i)
                        /\ IsRef(e, i) = IsRef(d, i)
  BY <1>7, <1>10 DEF Mem, Display, IsRef
<1>12. Refs(e) = Refs(d) /\ Shown(e) = Shown(d)
  BY <1>3, <1>11 DEF Refs, Shown, Display
<1>13. Busy(e) = Busy(d) \ drop
  BY <1>3, <1>11 DEF Busy, Free, Display, IsRef
<1>14. DpbSize \in Free(e)
  BY <1>11, SlotsFacts DEF DpbExact, Free
<1>15. DpbExact(e)
  BY <1>8, <1>10, <1>12, <1>13, <1>14 DEF DpbExact
<1> QED
  BY <1>10, <1>11, <1>12, <1>15 DEF e

\* OutputPicture of slot i, which makes out_buf q.
PutOut(d, i, q) ==
  [d EXCEPT !.slots[i].display = "no",
            !.num_out_pics_buffered = IF Display(d, i) = "shown" THEN @ - 1 ELSE @,
            !.fullness = IF IsRef(d, i) THEN @ ELSE @ - 1,
            !.out_buf = q]

LEMMA PutOutEffect ==
  ASSUME NEW d \in DpbStorage, DpbExact(d), NEW i \in Slots, Display(d, i) # "no",
         NEW q \in Seq(Pics)
  PROVE  LET e == PutOut(d, i, q) IN
         /\ e \in DpbStorage /\ DpbExact(e) /\ Refs(e) = Refs(d) /\ e.out_buf = q
         /\ e.num_out_pics_buffered = IF Display(d, i) = "shown"
                                      THEN d.num_out_pics_buffered - 1
                                      ELSE d.num_out_pics_buffered
         /\ \A j \in Slots : Mem(e, j) = Mem(d, j)
         /\ \A j \in Slots : Display(e, j) = IF j = i THEN "no" ELSE Display(d, j)
<1> DEFINE e == PutOut(d, i, q)
           slots == [d.slots EXCEPT ![i] = [d.slots[i] EXCEPT !.display = "no"]]
           n == IF Display(d, i) = "shown" THEN d.num_out_pics_buffered - 1
                                                ELSE d.num_out_pics_buffered
           m == IF IsRef(d, i) THEN d.fullness ELSE d.fullness - 1
<1>1. \A j \in Slots : d.slots[j] \in SlotType
  BY DEF DpbStorage
<1>2. slots \in [Slots -> SlotType]
  <2>1. [d.slots[i] EXCEPT !.display = "no"] \in SlotType
    BY <1>1 DEF SlotType
  <2> QED
    BY <2>1 DEF DpbStorage
<1>3. n \in Int /\ m \in Int
  BY DEF DpbStorage
<1>4. e = [d EXCEPT !.slots = slots, !.num_out_pics_buffered = n, !.fullness = m,
                    !.out_buf = q]
  BY DEF DpbStorage, PutOut
<1>5. \A j \in Slots : /\ slots[j].mem_idx = d.slots[j].mem_idx
                       /\ slots[j].display = IF j = i THEN "no" ELSE d.slots[j].display
                       /\ slots[j].reference = d.slots[j].reference
  <2>1. \A j \in Slots : slots[j] = IF j = i THEN [d.slots[i] EXCEPT !.display = "no"]
                                             ELSE d.slots[j]
    BY DEF DpbStorage
  <2> HIDE DEF slots
  <2> QED
    BY <1>1, <2>1 DEF SlotType
<1> HIDE DEF slots, e
<1>6. /\ e \in DpbStorage /\ e.slots = slots /\ e.num_out_pics_buffered = n
      /\ e.fullness = m /\ e.out_buf = q
  <2> HIDE DEF n, m
  <2> QED
    BY <1>2, <1>3, <1>4 DEF DpbStorage
<1>7. \A j \in Slots : /\ Mem(e, j) = Mem(d, j) /\ IsRef(e, j) = IsRef(d, j)
                       /\ Display(e, j) = IF j = i THEN "no" ELSE Display(d, j)
  BY <1>5, <1>6 DEF Mem, Display, IsRef
<1>8. Refs(e) = Refs(d) /\ DpbSize \in Free(e)
  BY <1>7, SlotsFacts DEF Refs, Free, DpbExact
<1>9. m = Cardinality(Busy(e))
  <2>1. CASE IsRef(d, i)
    <3>1. Busy(e) = Busy(d)
      BY <1>7, <2>1 DEF Busy, Free
    <3> QED
      BY <2>1, <3>1 DEF DpbExact
  <2>2. CASE ~IsRef(d, i)
    <3>1. Busy(e) = Busy(d) \ {i} /\ i \in Busy(d)
      BY <1>7, <2>2 DEF Busy, Free
    <3>2. IsFiniteSet(Busy(d))
      BY SlotSetsFinite DEF Busy
    <3> QED
      BY <2>2, <3>1, <3>2, FS_RemoveElement DEF DpbExact
  <2> QED
    BY <2>1, <2>2
<1>10. n = Cardinality(Shown(e))
  <2>1. CASE Display(d, i) = "shown"
    <3>1. Shown(e) = Shown(d) \ {i} /\ i \in Shown(d)
      BY <1>7, <2>1 DEF Shown
    <3>2. IsFiniteSet(Shown(d))
      BY SlotSetsFinite DEF Shown
    <3> QED
      BY <2>1, <3>1, <3>2, FS_RemoveElement DEF DpbExact
  <2>2. CASE Display(d, i) # "shown"
    <3>1. Shown(e) = Shown(d)
      BY <1>7, <2>2 DEF Shown
    <3> QED
      BY <2>2, <3>1 DEF DpbExact
  <2> QED
    BY <2>1, <2>2
<1> QED
  BY <1>6, <1>7, <1>8, <1>9, <1>10 DEF DpbExact, e

\* TakeBuffer's part: the free slot i takes a picture, which is a reference.
PutIn(d, i, id, disp) ==
  [d EXCEPT !.slots[i] = [mem_idx |-> id, reference |-> TRUE, display |-> disp,
                          error_info |-> FALSE],
            !.num_out_pics_buffered = IF disp = "shown" THEN @ + 1 ELSE @,
            !.fullness = @ + 1]

LEMMA PutInEffect ==
  ASSUME NEW d \in DpbStorage, DpbExact(d), NEW i \in Free(d), i # DpbSize,
         NEW id \in Bufs, NEW disp \in {"no", "hidden", "shown"}
  PROVE  LET e == PutIn(d, i, id, disp) IN
         /\ e \in DpbStorage /\ DpbExact(e) /\ Refs(e) = Refs(d) \cup {i}
         /\ e.out_buf = d.out_buf
         /\ e.num_out_pics_buffered = IF disp = "shown"
                                      THEN d.num_out_pics_buffered + 1
                                      ELSE d.num_out_pics_buffered
         /\ \A j \in Slots : Mem(e, j) = IF j = i THEN id ELSE Mem(d, j)
         /\ \A j \in Slots : Display(e, j) = IF j = i THEN disp ELSE Display(d, j)
<1> DEFINE e == PutIn(d, i, id, disp)
           s == [mem_idx |-> id, reference |-> TRUE, display |-> disp,
                 error_info |-> FALSE]
           slots == [d.slots EXCEPT ![i] = s]
           n == IF disp = "shown" THEN d.num_out_pics_buffered + 1
                                  ELSE d.num_out_pics_buffered
           m == d.fullness + 1
<1>1. i \in Slots /\ d.slots \in [Slots -> SlotType]
  BY DEF DpbStorage, Free
<1>2. s \in SlotType
  BY DEF SlotType
<1>3. n \in Int /\ m \in Int
  BY DEF DpbStorage
<1>4. e = [d EXCEPT !.slots = slots, !.num_out_pics_buffered = n, !.fullness = m]
  BY DEF DpbStorage, PutIn
<1>5. \A j \in Slots : slots[j] = IF j = i THEN s ELSE d.slots[j]
  <2> HIDE DEF s
  <2> QED
    BY <1>1
<1>6. slots \in [Slots -> SlotType]
  <2> HIDE DEF s
  <2> QED
    BY <1>1, <1>2
<1> HIDE DEF slots, e
<1>7. /\ e \in DpbStorage /\ e.slots = slots /\ e.num_out_pics_buffered = n
      /\ e.fullness = m /\ e.out_buf = d.out_buf
  <2> HIDE DEF n, m
  <2> QED
    BY <1>3, <1>4, <1>6 DEF DpbStorage
<1>8. \A j \in Slots : /\ Mem(e, j) = IF j = i THEN id ELSE Mem(d, j)
                       /\ Display(e, j) = IF j = i THEN disp ELSE Display(d, j)
                       /\ IsRef(e, j) <=> (j = i \/ IsRef(d, j))
  <2>1. s.mem_idx = id /\ s.display = disp /\ s.reference
    OBVIOUS
  <2> HIDE DEF s
  <2>2. \A j \in Slots : j # i => e.slots[j] = d.slots[j]
    BY <1>5, <1>7
  <2>3. e.slots[i] = s
    BY <1>1, <1>5, <1>7
  <2> QED
    BY <2>1, <2>2, <2>3 DEF Mem, Display, IsRef
<1>9. Refs(e) = Refs(d) \cup {i} /\ DpbSize \in Free(e)
  BY <1>1, <1>8, SlotsFacts DEF Refs, Free, DpbExact
<1>10. m = Cardinality(Busy(e))
  <2>1. Busy(e) = Busy(d) \cup {i} /\ i \notin Busy(d)
    BY <1>1, <1>8 DEF Busy, Free
  <2>2. IsFiniteSet(Busy(d))
    BY SlotSetsFinite DEF Busy
  <2> QED
    BY <2>1, <2>2, FS_AddElement DEF DpbExact
<1>11. n = Cardinality(Shown(e))
  <2>1. i \notin Shown(d) /\ IsFiniteSet(Shown(d))
    BY SlotSetsFinite DEF Shown, Free
  <2>2. Shown(e) = IF disp = "shown" THEN Shown(d) \cup {i} ELSE Shown(d)
    BY <1>1, <1>8, <2>1 DEF Shown
  <2>3. Cardinality(Shown(d) \cup {i}) = Cardinality(Shown(d)) + 1
    BY <2>1, FS_AddElement
  <2>4. d.num_out_pics_buffered = Cardinality(Shown(d))
    BY DEF DpbExact
  <2> QED
    BY <2>2, <2>3, <2>4
<1> QED
  BY <1>7, <1>8, <1>9, <1>10, <1>11 DEF DpbExact, e

-----------------------------------------------------------------------------
(* The invariant of the decoded picture buffer *)

\* The picture being decoded has its slot, and what it leaves is not pushed yet.
SlotTaken == {"run", "check", "mark", "late", "push"}

\* Until the picture has a slot there is room for it among the references.
RefsFit ==
  /\ dpc = "flush" => Refs(dpb) = {}
  /\ dpc \in {"bump", "get", "retry"} => Cardinality(Refs(dpb)) <= RealSize

SlotChosen == dpc = "get" => cur.pos \in Free(dpb) \ {DpbSize}

\* A call starts with at most MaxReorder pictures to show and an empty out_buf,
\* and adds one: out_buf never holds more than that.
OutBufFits ==
  /\ Len(dpb.out_buf) + dpb.num_out_pics_buffered
       <= IF dpc \in SlotTaken THEN MaxReorder + 1 ELSE MaxReorder
  /\ dpc = "push" => dpb.num_out_pics_buffered <= MaxReorder

DpbInv == TypeOK /\ DpbExact(dpb) /\ RefsFit /\ SlotChosen /\ OutBufFits

LEMMA ModelSets ==
  /\ FreeSlots = Free(dpb)
  /\ Displayable = {i \in Slots : Display(dpb, i) # "no"}
BY DEF FreeSlots, Free, Displayable, Display, IsRef

LEMMA CountersNat ==
  ASSUME DpbInv
  PROVE  /\ Len(dpb.out_buf) \in Nat /\ dpb.num_out_pics_buffered \in Nat
         /\ dpb.fullness \in Nat
         /\ Cardinality(Refs(dpb)) \in Nat
         /\ Len(dpb.out_buf) <= DpbSize
<1>1. Len(dpb.out_buf) \in Nat
  BY DEF DpbInv, TypeOK, DpbStorage
<1>2. Cardinality(Shown(dpb)) \in Nat /\ Cardinality(Busy(dpb)) \in Nat
      /\ Cardinality(Refs(dpb)) \in Nat
  BY SlotSetsFinite DEF Shown, Busy, Refs
<1> QED
  BY <1>1, <1>2, SlotsFacts DEF DpbInv, DpbExact, OutBufFits

LEMMA LeastExists ==
  ASSUME NEW T \in SUBSET Nat, T # {}
  PROVE  \E m \in T : \A k \in T : m <= k
<1> DEFINE R == OpToRel(<, Nat)
<1>1. \A x, y \in Nat : <<x, y>> \in R <=> x < y
  BY DEF OpToRel
<1>2. IsWellFoundedOn(R, Nat)
  BY NatLessThanWellFounded
<1> HIDE DEF R
<1>3. PICK m \in T : \A k \in T : ~ (<<k, m>> \in R)
  BY <1>2, WFMin
<1>4. ASSUME NEW k \in T PROVE m <= k
  <2>1. k \in Nat /\ m \in Nat
    OBVIOUS
  <2>2. ~ (<<k, m>> \in R)
    BY <1>3
  <2>3. ~ (k < m)
    BY <1>1, <2>1, <2>2
  <2> QED
    BY <2>1, <2>3
<1> QED
  BY <1>4

\* When the bumping loop ends, a slot other than the last is free: else those
\* RealSize + 1 slots are all busy, which fullness denies, or all references.
LEMMA FreeSlotThere ==
  ASSUME DpbInv, dpc = "bump", ~MoreToOutput
  PROVE  \E i \in FreeSlots : i # DpbSize /\ \A j \in FreeSlots : i <= j
<1>1. dpb.fullness <= RealSize \/ Displayable = {}
  BY CountersNat, SlotsFacts DEF MoreToOutput
<1>2. Busy(dpb) \subseteq 0 .. RealSize
  BY SlotsFacts DEF Busy, DpbInv, DpbExact, Slots
<1>3. Cardinality(Busy(dpb)) <= RealSize
  <2>1. CASE Displayable = {}
    <3>1. Busy(dpb) \subseteq Refs(dpb)
      BY <2>1, ModelSets DEF Busy, Free, Refs
    <3>2. IsFiniteSet(Refs(dpb)) /\ Cardinality(Refs(dpb)) <= RealSize
      BY SlotSetsFinite DEF Refs, DpbInv, RefsFit
    <3>3. Cardinality(Busy(dpb)) <= Cardinality(Refs(dpb))
      BY <3>1, <3>2, FS_Subset
    <3>4. Cardinality(Busy(dpb)) \in Nat /\ Cardinality(Refs(dpb)) \in Nat
      BY SlotSetsFinite DEF Busy, Refs
    <3> QED
      BY <3>2, <3>3, <3>4, SlotsFacts
  <2>2. CASE dpb.fullness <= RealSize
    BY <2>2 DEF DpbInv, DpbExact
  <2> QED
    BY <1>1, <2>1, <2>2
<1>4. PICK k \in 0 .. RealSize : k \notin Busy(dpb)
  <2>1. Cardinality(0 .. RealSize) = RealSize + 1
    BY SlotsFacts, FS_Interval
  <2>2. Busy(dpb) # 0 .. RealSize
    BY <1>3, <2>1, SlotsFacts
  <2> QED
    BY <1>2, <2>2
<1>5. k \in FreeSlots /\ k <= RealSize
  BY <1>4, SlotsFacts, ModelSets DEF Busy, Slots
<1>6. FreeSlots \in SUBSET Nat /\ FreeSlots # {}
  BY <1>5, SlotsFacts DEF FreeSlots
<1>7. PICK i \in FreeSlots : \A j \in FreeSlots : i <= j
  BY <1>6, LeastExists
<1>8. i # DpbSize
  BY <1>5, <1>6, <1>7, SlotsFacts
<1> QED
  BY <1>7, <1>8

LEMMA ChosenSlot ==
  ASSUME DpbInv, dpc = "bump", ~MoreToOutput
  PROVE  LET i == CHOOSE i \in FreeSlots : \A j \in FreeSlots : i <= j
         IN  i \in Free(dpb) \ {DpbSize}
<1> DEFINE i == CHOOSE i \in FreeSlots : \A j \in FreeSlots : i <= j
<1>1. PICK k \in FreeSlots : k # DpbSize /\ \A j \in FreeSlots : k <= j
  BY FreeSlotThere
<1>2. i \in FreeSlots /\ \A j \in FreeSlots : i <= j
  BY <1>1
<1> HIDE DEF i
<1>3. i <= k /\ k <= i /\ i \in Nat /\ k \in Nat
  BY <1>1, <1>2, SlotsFacts DEF FreeSlots
<1>4. i = k
  BY <1>3
<1> QED
  BY <1>1, <1>2, <1>4, ModelSets DEF i

\* A sequence of pictures with other error marks is still one.
LEMMA RemarkedSeq ==
  ASSUME NEW q \in Seq(Pics), NEW f \in [DOMAIN q -> Pics]
  PROVE  f \in Seq(Pics) /\ Len(f) = Len(q) /\ DOMAIN f = DOMAIN q
BY DEF Pics

-----------------------------------------------------------------------------
(* Every step keeps it *)

LEMMA DpbInitially ==
  ASSUME Init
  PROVE  DpbInv
<1> DEFINE stat(b) == [b_used |-> IF b \in Slots THEN {"ALLOCATED"} ELSE {"FREE"},
                       n_ref_count |-> 0]
           slot(i) == [mem_idx |-> i, reference |-> FALSE, display |-> "no",
                       error_info |-> FALSE]
<1>1. fb \in FrameBufferList
  <2>1. Cardinality(Bufs \ Slots) \in Int
    BY BufsAssumption, FS_Subset, FS_CardinalityType
  <2>2. \A b \in Bufs : stat(b) \in Stat
    BY DEF Stat, Flags
  <2>3. [b \in Bufs |-> stat(b)] \in [Bufs -> Stat]
    BY <2>2
  <2>4. fb = [fb_stat |-> [b \in Bufs |-> stat(b)],
              free_buffers |-> Cardinality(Bufs \ Slots), abort |-> FALSE]
    BY DEF Init, AllocateIds
  <2> HIDE DEF stat
  <2> QED
    BY <2>1, <2>3, <2>4 DEF FrameBufferList, Stat
<1>2. /\ dpb \in DpbStorage
      /\ dpb.out_buf = <<>> /\ dpb.fullness = 0 /\ dpb.num_out_pics_buffered = 0
      /\ \A i \in Slots : Display(dpb, i) = "no" /\ ~IsRef(dpb, i)
  <2>1. \A i \in Slots : /\ slot(i) \in SlotType /\ slot(i).display = "no"
                         /\ ~slot(i).reference
    BY SlotsFacts DEF SlotType
  <2>2. dpb = [slots |-> [i \in Slots |-> slot(i)],
               num_out_pics_buffered |-> 0, fullness |-> 0, out_buf |-> <<>>]
    BY DEF Init
  <2> HIDE DEF slot
  <2> QED
    BY <2>1, <2>2 DEF DpbStorage, Display, IsRef
<1>3. core \in [Cores -> Job]
  BY SlotsFacts DEF Init, IdleCore, Job
<1>4. cur \in Locals
  BY SlotsFacts DEF Init, NoLocals, Locals
<1>5. TypeOK
  <2>1. /\ out_fifo = <<>> /\ dpc = "idle" /\ opc = "idle" /\ held = {}
        /\ acked = FALSE /\ broken = {}
    BY DEF Init
  <2>2. out_fifo \in Seq(Pics)
    BY <2>1
  <2>3. held \subseteq Pics /\ broken \subseteq Bufs /\ acked \in BOOLEAN
    BY <2>1
  <2> QED
    BY <1>1, <1>2, <1>3, <1>4, <2>1, <2>2, <2>3 DEF TypeOK
<1>6. DpbExact(dpb)
  <2>1. Busy(dpb) = {} /\ Shown(dpb) = {} /\ DpbSize \in Free(dpb)
    BY <1>2, SlotsFacts DEF Busy, Free, Shown
  <2> QED
    BY <1>2, <2>1, FS_EmptySet DEF DpbExact
<1>7. RefsFit /\ SlotChosen
  BY DEF Init, RefsFit, SlotChosen
<1>8. OutBufFits
  BY <1>2, SlotsFacts DEF Init, OutBufFits, SlotTaken
<1> QED
  BY <1>5, <1>6, <1>7, <1>8 DEF DpbInv

\* A step that leaves the DPB alone and does not enter the points where a slot
\* or the references matter.
LEMMA DpbUntouched ==
  ASSUME DpbInv, TypeOK', dpb' = dpb,
         \/ dpc' = dpc /\ cur' = cur
         \/ dpc' \notin {"flush", "bump", "get", "retry"} /\ dpc' # "push"
            /\ (dpc' \in SlotTaken <=> dpc \in SlotTaken)
  PROVE  DpbInv'
<1>1. DpbExact(dpb)'
  BY DEF DpbInv, DpbExact, Busy, Free, Shown, Display, IsRef
<1>2. (RefsFit /\ SlotChosen /\ OutBufFits)'
  BY DEF DpbInv, RefsFit, SlotChosen, OutBufFits, Refs, Free, Display, IsRef, SlotTaken
<1> QED
  BY <1>1, <1>2 DEF DpbInv

LEMMA DpbOutputPicture ==
  ASSUME DpbInv, OutputPicture
  PROVE  DpbInv'
<1>1. PICK i \in Displayable :
        LET s == dpb.slots[i]
            shown == s.display = "shown"
            full == shown /\ Len(dpb.out_buf) = DpbSize + 1
            kept == IF full THEN Tail(dpb.out_buf) ELSE dpb.out_buf
            pic == [mem_idx |-> s.mem_idx, error_info |-> s.error_info]
            fb1 == IF full THEN ClearOutput(fb, Head(dpb.out_buf).mem_idx) ELSE fb
        IN /\ dpb' = [dpb EXCEPT
                !.slots[i].display = "no",
                !.num_out_pics_buffered = IF shown THEN @ - 1 ELSE @,
                !.fullness = IF s.reference THEN @ ELSE @ - 1,
                !.out_buf = IF shown THEN Append(kept, pic) ELSE @]
           /\ fb' = IF shown THEN MarkTempOutput(fb1, s.mem_idx) ELSE fb
  BY DEF OutputPicture
<1> DEFINE pic == [mem_idx |-> dpb.slots[i].mem_idx, error_info |-> dpb.slots[i].error_info]
           q == IF Display(dpb, i) = "shown" THEN Append(dpb.out_buf, pic) ELSE dpb.out_buf
<1>2. dpb \in DpbStorage /\ fb \in FrameBufferList /\ DpbExact(dpb)
  BY DEF DpbInv, TypeOK
<1>3. i \in Slots /\ Display(dpb, i) # "no" /\ dpb.slots[i] \in SlotType
  BY <1>2, ModelSets DEF DpbStorage
<1>4. Len(dpb.out_buf) # DpbSize + 1
  BY CountersNat, SlotsFacts
<1>5. pic \in Pics
  BY <1>3 DEF SlotType, Pics
<1>6. /\ dpb' = PutOut(dpb, i, q)
      /\ fb' = IF Display(dpb, i) = "shown" THEN MarkTempOutput(fb, Mem(dpb, i)) ELSE fb
  BY <1>1, <1>4 DEF Display, Mem, IsRef, PutOut
<1>7. /\ q \in Seq(Pics)
      /\ Len(q) = IF Display(dpb, i) = "shown" THEN Len(dpb.out_buf) + 1
                                               ELSE Len(dpb.out_buf)
  <2> HIDE DEF pic
  <2> QED
    BY <1>2, <1>5 DEF DpbStorage
<1> HIDE DEF pic, q
<1>8. /\ dpb' \in DpbStorage /\ DpbExact(dpb)' /\ Refs(dpb') = Refs(dpb)
      /\ dpb'.out_buf = q
      /\ dpb'.num_out_pics_buffered = IF Display(dpb, i) = "shown"
                                      THEN dpb.num_out_pics_buffered - 1
                                      ELSE dpb.num_out_pics_buffered
  BY <1>2, <1>3, <1>6, <1>7, PutOutEffect
<1>9. fb' \in FrameBufferList
  BY <1>2, <1>3, <1>6, MarkEffect DEF MarkTempOutput, Flags, SlotType, Mem
<1>10. UNCHANGED <<out_fifo, dpc, cur, core, opc, held, acked, broken>> /\ MoreToOutput
  BY DEF OutputPicture
<1>11. TypeOK'
  BY <1>8, <1>9, <1>10 DEF TypeOK, DpbInv
<1>12. RefsFit'
  BY <1>8, <1>10 DEF RefsFit, DpbInv
<1>13. SlotChosen'
  BY <1>10 DEF SlotChosen, MoreToOutput
<1>14. dpb'.num_out_pics_buffered + Len(dpb'.out_buf)
         = dpb.num_out_pics_buffered + Len(dpb.out_buf)
  BY <1>7, <1>8, CountersNat
<1>15. OutBufFits'
  <2>1. dpc' # "push" /\ dpc' = dpc
    BY <1>10 DEF MoreToOutput
  <2>2. /\ dpb'.num_out_pics_buffered \in Int /\ Len(dpb'.out_buf) \in Int
    BY <1>8 DEF DpbStorage
  <2> QED
    BY <1>14, <2>1, <2>2, CountersNat DEF OutBufFits, DpbInv
<1> QED
  BY <1>8, <1>11, <1>12, <1>13, <1>15 DEF DpbInv

LEMMA DpbDecodePicture ==
  ASSUME DpbInv, NEW kind \in {"idr", "idr_no_output", "trail"}, NEW keep \in SUBSET Slots,
         NEW display \in {"hidden", "shown"}, DecodePicture(kind, keep, display)
  PROVE  DpbInv'
<1>1. dpb \in DpbStorage /\ DpbExact(dpb) /\ keep \in SUBSET Refs(dpb)
  BY DEF DpbInv, TypeOK, DecodePicture, Refs, IsRef
<1>2. /\ SetRefPics(dpb, keep) \in DpbStorage /\ DpbExact(SetRefPics(dpb, keep))
      /\ Refs(SetRefPics(dpb, keep)) = keep
      /\ SetRefPics(dpb, keep).out_buf = dpb.out_buf
      /\ SetRefPics(dpb, keep).num_out_pics_buffered = dpb.num_out_pics_buffered
  BY <1>1, SetRefPicsEffect
<1>3. LET e == DropUnshown(SetRefPics(dpb, keep)) IN
      /\ e \in DpbStorage /\ DpbExact(e) /\ Refs(e) = keep /\ e.out_buf = dpb.out_buf
      /\ e.num_out_pics_buffered = dpb.num_out_pics_buffered
  BY <1>2, DropUnshownEffect
<1>4. /\ kind # "trail" => keep = {}
      /\ Cardinality(keep) <= RealSize /\ dpc = "idle"
      /\ \/ dpc' = "bump" /\ dpb' = DropUnshown(SetRefPics(dpb, keep))
         \/ dpc' = "flush" /\ dpb' = SetRefPics(dpb, keep) /\ keep = {}
  BY DEF DecodePicture
<1>5. /\ dpb' \in DpbStorage /\ DpbExact(dpb)' /\ Refs(dpb') = keep
      /\ dpb'.out_buf = dpb.out_buf
      /\ dpb'.num_out_pics_buffered = dpb.num_out_pics_buffered
  BY <1>2, <1>3, <1>4
<1>6. cur' \in Locals
  BY SlotsFacts DEF DecodePicture, NoLocals, Locals
<1>7. TypeOK'
  BY <1>4, <1>5, <1>6 DEF DecodePicture, TypeOK, DpbInv
<1>8. (RefsFit /\ SlotChosen)'
  BY <1>4, <1>5 DEF RefsFit, SlotChosen
<1>9. OutBufFits'
  BY <1>4, <1>5 DEF OutBufFits, DpbInv, SlotTaken
<1> QED
  BY <1>5, <1>7, <1>8, <1>9 DEF DpbInv

LEMMA DpbIdrFlushed ==
  ASSUME DpbInv, IdrFlushed
  PROVE  DpbInv'
<1>1. fb \in FrameBufferList /\ dpb \in DpbStorage /\ cur \in Locals
  BY DEF DpbInv, TypeOK
<1>2. RemoveTempOutputAll(fb) \in FrameBufferList
  BY <1>1, ClearOutputsEffect DEF RemoveTempOutputAll
<1>3. fb' \in FrameBufferList
  BY <1>1, <1>2 DEF IdrFlushed
<1>4. /\ dpb' \in DpbStorage /\ dpb'.slots = dpb.slots /\ dpb'.fullness = dpb.fullness
      /\ dpb'.num_out_pics_buffered = dpb.num_out_pics_buffered
      /\ Len(dpb'.out_buf) <= Len(dpb.out_buf) /\ Len(dpb'.out_buf) \in Nat
  <2>1. CASE cur.kind = "idr_no_output"
    <3> DEFINE q == <<>>
    <3>1. dpb' = [dpb EXCEPT !.out_buf = q]
      BY <2>1 DEF IdrFlushed
    <3>2. q \in Seq(Pics) /\ Len(q) = 0
      OBVIOUS
    <3> HIDE DEF q
    <3>3. /\ dpb' \in DpbStorage /\ dpb'.slots = dpb.slots /\ dpb'.out_buf = q
          /\ dpb'.fullness = dpb.fullness
          /\ dpb'.num_out_pics_buffered = dpb.num_out_pics_buffered
      BY <1>1, <3>1, <3>2 DEF DpbStorage
    <3> QED
      BY <3>2, <3>3, CountersNat
  <2>2. CASE cur.kind # "idr_no_output"
    BY <1>1, <2>2, CountersNat DEF IdrFlushed
  <2> QED
    BY <2>1, <2>2
<1>5. SlotsLike(dpb, dpb')
  BY <1>4 DEF SlotsLike, Mem, Display, IsRef
<1>6. DpbExact(dpb') /\ Refs(dpb') = Refs(dpb)
  BY <1>4, <1>5, LikeEffect DEF DpbInv
<1>7. cur' \in Locals
  BY <1>1 DEF IdrFlushed, Locals
<1>8. dpc = "flush" /\ dpc' = "bump"
  BY DEF IdrFlushed
<1>9. TypeOK'
  BY <1>3, <1>4, <1>7, <1>8 DEF IdrFlushed, TypeOK, DpbInv
<1>10. Refs(dpb') = {}
  BY <1>6, <1>8 DEF DpbInv, RefsFit
<1>11. (RefsFit /\ SlotChosen)'
  BY <1>8, <1>10, FS_EmptySet, SlotsFacts DEF RefsFit, SlotChosen
<1>12. OutBufFits'
  BY <1>4, <1>8, CountersNat, SlotsFacts DEF OutBufFits, DpbInv, SlotTaken
<1> QED
  BY <1>6, <1>9, <1>11, <1>12 DEF DpbInv

\* What TakeBuffer leaves behind, in the terms of the two lists.
LEMMA TakeBufferIs ==
  ASSUME DpbInv, NEW f \in FrameBufferList, NEW i \in Free(dpb) \ {DpbSize},
         NEW id \in Bufs, TakeBuffer(f, i, id)
  PROVE  LET ids == {Mem(dpb', j) : j \in Slots \ {DpbSize}} IN
         /\ dpb' = PutIn(dpb, i, id, cur.display)
         /\ dpb' \in DpbStorage /\ DpbExact(dpb') /\ Refs(dpb') = Refs(dpb) \cup {i}
         /\ dpb'.out_buf = dpb.out_buf
         /\ dpb'.num_out_pics_buffered <= dpb.num_out_pics_buffered + 1
         /\ \A j \in Slots : /\ Mem(dpb', j) = IF j = i THEN id ELSE Mem(dpb, j)
                             /\ Display(dpb', j) = IF j = i THEN cur.display
                                                            ELSE Display(dpb, j)
         /\ fb' = IncrementDPBRefCount(f, ids) /\ ids \in SUBSET Bufs
         /\ fb' \in FrameBufferList /\ dpc' = "run"
<1>1. /\ dpb \in DpbStorage /\ DpbExact(dpb) /\ i # DpbSize /\ i \in Free(dpb)
      /\ cur.display \in {"no", "hidden", "shown"}
      /\ dpb.num_out_pics_buffered \in Int
  BY DEF DpbInv, TypeOK, Locals, DpbStorage
<1>2. dpb' = PutIn(dpb, i, id, cur.display)
  BY DEF TakeBuffer, PutIn
<1>3. /\ dpb' \in DpbStorage /\ DpbExact(dpb') /\ Refs(dpb') = Refs(dpb) \cup {i}
      /\ dpb'.out_buf = dpb.out_buf
      /\ dpb'.num_out_pics_buffered <= dpb.num_out_pics_buffered + 1
      /\ \A j \in Slots : /\ Mem(dpb', j) = IF j = i THEN id ELSE Mem(dpb, j)
                          /\ Display(dpb', j) = IF j = i THEN cur.display
                                                         ELSE Display(dpb, j)
  BY <1>1, <1>2, PutInEffect
<1> DEFINE ids == {Mem(dpb', j) : j \in Slots \ {DpbSize}}
<1>4. ids = {IF j = i THEN id ELSE dpb.slots[j].mem_idx : j \in Slots \ {DpbSize}}
  <2>1. \A j \in Slots \ {DpbSize} :
          Mem(dpb', j) = IF j = i THEN id ELSE dpb.slots[j].mem_idx
    BY <1>3 DEF Mem
  <2> QED
    BY <2>1
<1>5. ids \in SUBSET Bufs
  <2>1. \A j \in Slots : Mem(dpb', j) \in Bufs
    BY <1>3 DEF DpbStorage, SlotType, Mem
  <2> QED
    BY <2>1
<1>6. fb' = IncrementDPBRefCount(f, ids) /\ dpc' = "run"
  BY <1>4 DEF TakeBuffer
<1>7. fb' \in FrameBufferList
  BY <1>5, <1>6, IncrementEffect
<1> QED
  BY <1>2, <1>3, <1>5, <1>6, <1>7

LEMMA DpbTakeBuffer ==
  ASSUME DpbInv, NEW f \in FrameBufferList, NEW i \in Free(dpb) \ {DpbSize},
         NEW id \in Bufs, TakeBuffer(f, i, id), cur' \in Locals,
         dpc \in {"bump", "get"},
         UNCHANGED <<out_fifo, core, opc, held, acked, broken>>
  PROVE  DpbInv'
<1>1. /\ dpb' \in DpbStorage /\ DpbExact(dpb') /\ dpb'.out_buf = dpb.out_buf
      /\ dpb'.num_out_pics_buffered <= dpb.num_out_pics_buffered + 1
      /\ fb' \in FrameBufferList /\ dpc' = "run"
  BY TakeBufferIs
<1>2. TypeOK'
  BY <1>1 DEF TypeOK, DpbInv
<1>3. (RefsFit /\ SlotChosen)'
  BY <1>1 DEF RefsFit, SlotChosen
<1>4. OutBufFits'
  <2>1. Len(dpb.out_buf) + dpb.num_out_pics_buffered <= MaxReorder
    BY DEF DpbInv, OutBufFits, SlotTaken
  <2>2. dpb'.num_out_pics_buffered \in Int
    BY <1>1 DEF DpbStorage
  <2>3. MaxReorder \in Int /\ Len(dpb.out_buf) \in Int /\ dpb.num_out_pics_buffered \in Int
    BY CountersNat, SlotsFacts
  <2>4. Len(dpb'.out_buf) + dpb'.num_out_pics_buffered <= MaxReorder + 1
    BY <1>1, <2>1, <2>2, <2>3
  <2> QED
    BY <1>1, <2>4 DEF OutBufFits, SlotTaken
<1> QED
  BY <1>1, <1>2, <1>3, <1>4 DEF DpbInv

\* HevcAllocateDpbImage takes the slot's own buffer or asks for another one.
LEMMA AllocateDpbImageIs ==
  ASSUME DpbInv, AllocateDpbImage
  PROVE  \E i \in Free(dpb) \ {DpbSize} :
           /\ dpc = "bump" /\ cur' = [cur EXCEPT !.pos = i]
           /\ \/ /\ IsBufferReferenced(fb, Mem(dpb, i)) \/ IsBufferOutput(fb, Mem(dpb, i))
                 /\ dpc' = "get" /\ UNCHANGED <<fb, dpb>>
              \/ /\ ~IsBufferReferenced(fb, Mem(dpb, i))
                 /\ ~IsBufferOutput(fb, Mem(dpb, i))
                 /\ TakeBuffer(fb, i, Mem(dpb, i))
           /\ UNCHANGED <<out_fifo, core, opc, held, acked, broken>>
<1> DEFINE i == CHOOSE i \in FreeSlots : \A j \in FreeSlots : i <= j
<1>1. dpc = "bump" /\ ~MoreToOutput
  BY DEF AllocateDpbImage
<1>2. i \in Free(dpb) \ {DpbSize}
  BY <1>1, ChosenSlot
<1>3. /\ cur' = [cur EXCEPT !.pos = i]
      /\ IF IsBufferReferenced(fb, dpb.slots[i].mem_idx)
            \/ IsBufferOutput(fb, dpb.slots[i].mem_idx)
         THEN dpc' = "get" /\ UNCHANGED <<fb, dpb>>
         ELSE TakeBuffer(fb, i, dpb.slots[i].mem_idx)
      /\ UNCHANGED <<out_fifo, core, opc, held, acked, broken>>
  BY DEF AllocateDpbImage
<1> HIDE DEF i
<1> QED
  BY <1>1, <1>2, <1>3 DEF Mem

LEMMA DpbAllocateDpbImage ==
  ASSUME DpbInv, AllocateDpbImage
  PROVE  DpbInv'
<1>1. PICK i \in Free(dpb) \ {DpbSize} :
        /\ dpc = "bump" /\ cur' = [cur EXCEPT !.pos = i]
        /\ \/ dpc' = "get" /\ UNCHANGED <<fb, dpb>>
           \/ TakeBuffer(fb, i, Mem(dpb, i))
        /\ UNCHANGED <<out_fifo, core, opc, held, acked, broken>>
  BY AllocateDpbImageIs
<1>2. cur \in Locals /\ fb \in FrameBufferList /\ dpb \in DpbStorage
  BY DEF DpbInv, TypeOK
<1>3. i \in Slots /\ Mem(dpb, i) \in Bufs
  BY <1>2 DEF Free, DpbStorage, SlotType, Mem
<1>4. cur' \in Locals /\ cur'.pos = i
  BY <1>1, <1>2, <1>3 DEF Locals
<1>5. CASE TakeBuffer(fb, i, Mem(dpb, i))
  BY <1>1, <1>2, <1>3, <1>4, <1>5, DpbTakeBuffer
<1>6. CASE dpc' = "get" /\ UNCHANGED <<fb, dpb>>
  <2>1. TypeOK'
    BY <1>1, <1>4, <1>6 DEF TypeOK, DpbInv
  <2>2. DpbExact(dpb') /\ Free(dpb') = Free(dpb) /\ Refs(dpb') = Refs(dpb)
    BY <1>6 DEF DpbInv
  <2>3. (RefsFit /\ SlotChosen)'
    BY <1>1, <1>4, <1>6, <2>2 DEF RefsFit, SlotChosen, DpbInv
  <2>4. OutBufFits'
    BY <1>1, <1>6 DEF OutBufFits, DpbInv, SlotTaken
  <2> QED
    BY <2>1, <2>2, <2>3, <2>4 DEF DpbInv
<1> QED
  BY <1>1, <1>5, <1>6

\* GetFreePicBuffer names the slot's old buffer or an idle one.
LEMMA FreePicBufferIs ==
  ASSUME NEW f \in FrameBufferList, NEW old \in Bufs, NEW id \in FreePicBuffer(f, old)
  PROVE  id \in IdleIds(f)
BY DEF FreePicBuffer, IdleIds

LEMMA DpbGetFreeBuffer ==
  ASSUME DpbInv, GetFreeBuffer
  PROVE  DpbInv'
<1> DEFINE old == dpb.slots[cur.pos].mem_idx
<1>1. /\ cur \in Locals /\ fb \in FrameBufferList /\ dpb \in DpbStorage
      /\ dpc = "get" /\ cur.pos \in Free(dpb) \ {DpbSize}
  BY DEF DpbInv, TypeOK, SlotChosen, GetFreeBuffer
<1>2. cur.pos \in Slots /\ old \in Bufs
  BY <1>1 DEF Free, DpbStorage, SlotType
<1>3. /\ \/ \E id \in FreePicBuffer(fb, old) :
              TakeBuffer(IF id = old THEN fb
                         ELSE PushFreeBuffer(PopFreeBuffer(fb, id), old), cur.pos, id)
         \/ fb' = FinalizeOutputAll(fb) /\ dpc' = "retry" /\ UNCHANGED dpb
      /\ UNCHANGED <<out_fifo, cur, core, opc, held, acked, broken>>
  BY DEF GetFreeBuffer
<1> HIDE DEF old
<1>4. CASE \E id \in FreePicBuffer(fb, old) :
             TakeBuffer(IF id = old THEN fb
                        ELSE PushFreeBuffer(PopFreeBuffer(fb, id), old), cur.pos, id)
  <2>1. PICK id \in FreePicBuffer(fb, old) :
          TakeBuffer(IF id = old THEN fb
                     ELSE PushFreeBuffer(PopFreeBuffer(fb, id), old), cur.pos, id)
    BY <1>4
  <2>2. id \in IdleIds(fb) /\ id \in Bufs
    BY <1>1, <1>2, FreePicBufferIs DEF IdleIds
  <2>3. id # old => PushFreeBuffer(PopFreeBuffer(fb, id), old) \in FrameBufferList
    BY <1>1, <1>2, <2>2, SwapEffect
  <2> DEFINE f == IF id = old THEN fb ELSE PushFreeBuffer(PopFreeBuffer(fb, id), old)
  <2>4. f \in FrameBufferList /\ TakeBuffer(f, cur.pos, id)
    BY <1>1, <2>1, <2>3
  <2> HIDE DEF f
  <2> QED
    BY <1>1, <1>3, <2>2, <2>4, DpbTakeBuffer
<1>5. CASE fb' = FinalizeOutputAll(fb) /\ dpc' = "retry" /\ UNCHANGED dpb
  <2>1. fb' \in FrameBufferList
    BY <1>1, <1>5, FinalizeEffect
  <2>2. TypeOK'
    BY <1>3, <1>5, <2>1 DEF TypeOK, DpbInv
  <2>3. DpbExact(dpb') /\ Refs(dpb') = Refs(dpb)
    BY <1>5 DEF DpbInv
  <2>4. (RefsFit /\ SlotChosen)'
    BY <1>1, <1>5, <2>3 DEF RefsFit, SlotChosen, DpbInv
  <2>5. OutBufFits'
    BY <1>1, <1>5 DEF OutBufFits, DpbInv, SlotTaken
  <2> QED
    BY <2>2, <2>3, <2>4, <2>5 DEF DpbInv
<1> QED
  BY <1>3, <1>4, <1>5

LEMMA DpbRetry ==
  ASSUME DpbInv, Retry
  PROVE  DpbInv'
<1>1. TypeOK' /\ DpbExact(dpb') /\ Refs(dpb') = Refs(dpb)
  BY DEF Retry, TypeOK, DpbInv
<1>2. (RefsFit /\ SlotChosen)'
  BY <1>1 DEF Retry, RefsFit, SlotChosen, DpbInv
<1>3. OutBufFits'
  BY DEF Retry, OutBufFits, DpbInv, SlotTaken
<1> QED
  BY <1>1, <1>2, <1>3 DEF DpbInv

LEMMA DpbRunAsic ==
  ASSUME DpbInv, NEW c \in Cores, RunAsic(c)
  PROVE  DpbInv'
<1> DEFINE out == Mem(dpb, cur.pos)
           refs == {dpb.slots[i].mem_idx : i \in {j \in Slots : dpb.slots[j].reference}}
           job == [st |-> "run", out_id |-> out, ref_id |-> DpbIds, ref_mem_idx |-> refs]
<1>1. /\ fb \in FrameBufferList /\ dpb \in DpbStorage /\ cur \in Locals
      /\ core \in [Cores -> Job] /\ broken \subseteq Bufs
  BY DEF DpbInv, TypeOK
<1>2. \A i \in Slots : Mem(dpb, i) \in Bufs
  BY <1>1 DEF DpbStorage, SlotType, Mem
<1>3. out \in Bufs /\ DpbIds \subseteq Bufs /\ refs \subseteq Bufs
  BY <1>1, <1>2 DEF Locals, DpbIds, Mem
<1>4. /\ fb' = MarkHWOutput(fb, out) /\ core' = [core EXCEPT ![c] = job]
      /\ broken' = broken \ {out} /\ cur' = [NoLocals EXCEPT !.pos = cur.pos]
      /\ dpc = "run" /\ dpc' = "check"
      /\ UNCHANGED <<out_fifo, dpb, opc, held, acked>>
  BY DEF RunAsic, Mem
<1>5. fb' \in FrameBufferList
  BY <1>1, <1>3, <1>4, MarkEffect DEF MarkHWOutput, Flags
<1>6. job \in Job
  BY <1>3 DEF Job
<1>7. cur' \in Locals
  BY <1>1, <1>4 DEF Locals, NoLocals
<1> HIDE DEF job, out
<1>8. TypeOK'
  BY <1>1, <1>4, <1>5, <1>6, <1>7 DEF TypeOK, DpbInv
<1> QED
  BY <1>4, <1>8, DpbUntouched DEF SlotTaken

LEMMA DpbSCCheckRefs ==
  ASSUME DpbInv, SCCheckRefs
  PROVE  DpbInv'
<1> DEFINE r == \E i \in Slots : dpb.slots[i].reference /\ dpb.slots[i].error_info
<1>1. r \in BOOLEAN
  OBVIOUS
<1>2. /\ cur' = [cur EXCEPT !.error = r] /\ dpc = "check" /\ dpc' = "mark"
      /\ UNCHANGED <<fb, out_fifo, dpb, core, opc, held, acked, broken>>
  BY DEF SCCheckRefs
<1> HIDE DEF r
<1>3. cur' \in Locals
  BY <1>1, <1>2 DEF DpbInv, TypeOK, Locals
<1>4. TypeOK'
  BY <1>2, <1>3 DEF TypeOK, DpbInv
<1> QED
  BY <1>2, <1>4, DpbUntouched DEF SlotTaken

\* An edit of error marks only.
LEMMA DpbRemarked ==
  ASSUME DpbInv, TypeOK', SlotsLike(dpb, dpb'), dpb'.fullness = dpb.fullness,
         dpb'.num_out_pics_buffered = dpb.num_out_pics_buffered,
         Len(dpb'.out_buf) = Len(dpb.out_buf),
         \/ dpc' = dpc /\ cur' = cur
         \/ dpc = "mark" /\ dpc' = "late"
  PROVE  DpbInv'
<1>1. /\ DpbExact(dpb') /\ Refs(dpb') = Refs(dpb) /\ Free(dpb') = Free(dpb)
  BY LikeEffect DEF DpbInv
<1>2. (RefsFit /\ SlotChosen)'
  BY <1>1 DEF RefsFit, SlotChosen, DpbInv
<1>3. OutBufFits'
  BY DEF OutBufFits, DpbInv, SlotTaken
<1> QED
  BY <1>1, <1>2, <1>3 DEF DpbInv

LEMMA DpbSCMarkOutputPicInfo ==
  ASSUME DpbInv, SCMarkOutputPicInfo
  PROVE  /\ DpbInv' /\ SlotsLike(dpb, dpb') /\ dpb'.out_buf = dpb.out_buf
<1>1. /\ dpb \in DpbStorage /\ cur \in Locals
  BY DEF DpbInv, TypeOK
<1> DEFINE slots == [dpb.slots EXCEPT ![cur.pos].error_info = cur.error]
<1>2. dpb' = [dpb EXCEPT !.slots = slots]
  BY DEF SCMarkOutputPicInfo
<1>3. /\ slots \in [Slots -> SlotType]
      /\ \A i \in Slots : /\ slots[i].mem_idx = dpb.slots[i].mem_idx
                          /\ slots[i].display = dpb.slots[i].display
                          /\ slots[i].reference = dpb.slots[i].reference
  <2>1. dpb.slots \in [Slots -> SlotType] /\ cur.pos \in Slots /\ cur.error \in BOOLEAN
    BY <1>1 DEF DpbStorage, Locals
  <2>2. /\ [dpb.slots[cur.pos] EXCEPT !.error_info = cur.error] \in SlotType
        /\ LET s == [dpb.slots[cur.pos] EXCEPT !.error_info = cur.error] IN
           /\ s.mem_idx = dpb.slots[cur.pos].mem_idx
           /\ s.display = dpb.slots[cur.pos].display
           /\ s.reference = dpb.slots[cur.pos].reference
    BY <2>1 DEF SlotType
  <2> QED
    BY <2>1, <2>2
<1> HIDE DEF slots
<1>4. /\ dpb' \in DpbStorage /\ dpb'.slots = slots /\ dpb'.out_buf = dpb.out_buf
      /\ dpb'.fullness = dpb.fullness
      /\ dpb'.num_out_pics_buffered = dpb.num_out_pics_buffered
  BY <1>1, <1>2, <1>3 DEF DpbStorage
<1>5. SlotsLike(dpb, dpb')
  BY <1>3, <1>4 DEF SlotsLike, Mem, Display, IsRef
<1>6. cur' \in Locals /\ dpc = "mark" /\ dpc' = "late"
      /\ UNCHANGED <<fb, out_fifo, core, opc, held, acked, broken>>
  BY SlotsFacts DEF SCMarkOutputPicInfo, NoLocals, Locals
<1>7. TypeOK'
  BY <1>4, <1>6 DEF TypeOK, DpbInv
<1> QED
  BY <1>4, <1>5, <1>6, <1>7, DpbRemarked

LEMMA DpbFinalize ==
  ASSUME DpbInv, Finalize
  PROVE  DpbInv'
<1>1. fb' \in FrameBufferList
  BY FinalizeEffect DEF Finalize, DpbInv, TypeOK
<1>2. /\ dpc \in {"late", "eosflush"} /\ ~MoreToOutput /\ dpc' = "push"
      /\ UNCHANGED <<out_fifo, dpb, cur, core, opc, held, acked, broken>>
  BY DEF Finalize
<1>3. TypeOK'
  BY <1>1, <1>2 DEF TypeOK, DpbInv
<1>4. DpbExact(dpb')
  BY <1>2 DEF DpbInv
<1>5. (RefsFit /\ SlotChosen)'
  BY <1>2 DEF RefsFit, SlotChosen
<1>6. dpb.num_out_pics_buffered <= MaxReorder
  <2>1. CASE dpc = "late"
    BY <1>2, <2>1, CountersNat, SlotsFacts DEF MoreToOutput
  <2>2. CASE dpc = "eosflush"
    <3>1. Displayable = {}
      BY <1>2, <2>2 DEF MoreToOutput
    <3>2. Shown(dpb) = {}
      BY <3>1, ModelSets DEF Shown
    <3> QED
      BY <3>2, FS_EmptySet, SlotsFacts DEF DpbInv, DpbExact
  <2> QED
    BY <1>2, <2>1, <2>2
<1>7. OutBufFits'
  <2>1. dpb' = dpb /\ dpc' = "push"
    BY <1>2
  <2>2. Len(dpb.out_buf) + dpb.num_out_pics_buffered <= MaxReorder + 1
    BY CountersNat, SlotsFacts DEF DpbInv, OutBufFits
  <2> QED
    BY <1>6, <2>1, <2>2 DEF OutBufFits, SlotTaken
<1> QED
  BY <1>3, <1>4, <1>5, <1>7 DEF DpbInv

LEMMA DpbPushOutputPic ==
  ASSUME DpbInv, PushOutputPic
  PROVE  DpbInv' /\ SlotsLike(dpb, dpb') /\ dpb'.out_buf = Tail(dpb.out_buf)
<1> DEFINE pic == Head(dpb.out_buf)
           q == Tail(dpb.out_buf)
<1>1. dpb \in DpbStorage /\ dpb.out_buf \in Seq(Pics) /\ out_fifo \in Seq(Pics)
  BY DEF DpbInv, TypeOK, DpbStorage
<1>2. /\ dpc = "push" /\ dpb.out_buf # <<>>
      /\ dpb' = [dpb EXCEPT !.out_buf = q]
      /\ \/ out_fifo' = Append(out_fifo, pic)
         \/ out_fifo' = out_fifo
      /\ UNCHANGED <<fb, dpc, cur, core, opc, held, acked, broken>>
  BY DEF PushOutputPic
<1>3. pic \in Pics /\ q \in Seq(Pics) /\ Len(q) = Len(dpb.out_buf) - 1
  BY <1>1, <1>2
<1> HIDE DEF pic, q
<1>4. /\ dpb' \in DpbStorage /\ dpb'.slots = dpb.slots /\ dpb'.out_buf = q
      /\ dpb'.fullness = dpb.fullness
      /\ dpb'.num_out_pics_buffered = dpb.num_out_pics_buffered
  BY <1>1, <1>2, <1>3 DEF DpbStorage
<1>5. SlotsLike(dpb, dpb')
  BY <1>4 DEF SlotsLike, Mem, Display, IsRef
<1>6. out_fifo' \in Seq(Pics)
  BY <1>1, <1>2, <1>3
<1>7. TypeOK'
  BY <1>2, <1>4, <1>6 DEF TypeOK, DpbInv
<1>8. DpbExact(dpb')
  BY <1>4, <1>5, LikeEffect DEF DpbInv
<1>9. (RefsFit /\ SlotChosen)'
  BY <1>2 DEF RefsFit, SlotChosen
<1>10. OutBufFits'
  <2>1. Len(dpb.out_buf) + dpb.num_out_pics_buffered <= MaxReorder + 1
        /\ dpb.num_out_pics_buffered <= MaxReorder
    BY <1>2 DEF DpbInv, OutBufFits, SlotTaken
  <2>2. Len(dpb'.out_buf) + dpb'.num_out_pics_buffered <= MaxReorder + 1
    BY <1>3, <1>4, <2>1, CountersNat, SlotsFacts
  <2> QED
    BY <1>2, <1>4, <2>1, <2>2 DEF OutBufFits, SlotTaken
<1> QED
  BY <1>4, <1>5, <1>7, <1>8, <1>9, <1>10 DEF DpbInv, q

LEMMA DpbPushOutputDone ==
  ASSUME DpbInv, PushOutputDone
  PROVE  DpbInv'
<1>1. cur' \in Locals
  BY SlotsFacts DEF PushOutputDone, NoLocals, Locals
<1>2. /\ dpc = "push" /\ dpc' \in {"eos", "idle"} /\ dpb.out_buf = <<>>
      /\ UNCHANGED <<fb, out_fifo, dpb, core, opc, held, acked, broken>>
  BY DEF PushOutputDone
<1>3. TypeOK'
  BY <1>1, <1>2 DEF TypeOK, DpbInv
<1>4. DpbExact(dpb')
  BY <1>2 DEF DpbInv
<1>5. (RefsFit /\ SlotChosen)'
  BY <1>2 DEF RefsFit, SlotChosen
<1>6. OutBufFits'
  <2>1. dpb.num_out_pics_buffered <= MaxReorder /\ Len(dpb.out_buf) = 0
    BY <1>2 DEF DpbInv, OutBufFits
  <2> QED
    BY <1>2, <2>1, CountersNat, SlotsFacts DEF OutBufFits, SlotTaken
<1> QED
  BY <1>3, <1>4, <1>5, <1>6 DEF DpbInv

LEMMA IdsInBufs ==
  ASSUME NEW q \in Seq(Pics)
  PROVE  Ids(q) \subseteq Bufs
<1>1. \A i \in DOMAIN q : q[i] \in Pics
  OBVIOUS
<1>2. \A i \in DOMAIN q : q[i].mem_idx \in Bufs
  BY <1>1 DEF Pics
<1> QED
  BY <1>2 DEF Ids

LEMMA DpbAbort ==
  ASSUME DpbInv, Abort
  PROVE  DpbInv'
<1>1. fb' \in FrameBufferList
  BY AbortEffect DEF Abort, DpbInv, TypeOK
<1>2. cur' \in Locals
  BY SlotsFacts DEF Abort, NoLocals, Locals
<1>3. dpc \in {"idle", "retry"} /\ dpc' = "abort"
      /\ UNCHANGED <<out_fifo, dpb, core, opc, held, acked, broken>>
  BY ConstantsAssumption DEF Abort
<1>4. TypeOK'
  BY <1>1, <1>2, <1>3 DEF TypeOK, DpbInv
<1> QED
  BY <1>3, <1>4, DpbUntouched DEF SlotTaken

\* The wait for the cores and the drop of their jobs leave the DPB alone.
LEMMA DpbCallSteps ==
  ASSUME DpbInv, EndOfStream \/ EosCoresDone \/ AbortCores
  PROVE  DpbInv'
<1>1. CASE EndOfStream
  <2>1. cur' \in Locals
    BY <1>1, SlotsFacts DEF EndOfStream, NoLocals, Locals
  <2>2. TypeOK'
    BY <1>1, <2>1 DEF EndOfStream, TypeOK, DpbInv
  <2> QED
    BY <1>1, <2>2, DpbUntouched DEF EndOfStream, SlotTaken
<1>2. CASE EosCoresDone
  <2>1. TypeOK'
    BY <1>2 DEF EosCoresDone, TypeOK, DpbInv
  <2> QED
    BY <1>2, <2>1, DpbUntouched DEF EosCoresDone, SlotTaken
<1>3. CASE AbortCores
  <2> DEFINE lost == [IdleCore EXCEPT !.st = "lost"]
  <2>1. lost \in Job
    BY SlotsFacts DEF IdleCore, Job
  <2>2. core' = [c \in Cores |-> IF VcmdUsed /\ core[c].st = "run" THEN lost ELSE core[c]]
    BY <1>3 DEF AbortCores
  <2> HIDE DEF lost
  <2>3. core' \in [Cores -> Job]
    BY <2>1, <2>2 DEF DpbInv, TypeOK
  <2>4. TypeOK'
    BY <1>3, <2>3 DEF AbortCores, TypeOK, DpbInv
  <2> QED
    BY <1>3, <2>4, DpbUntouched DEF AbortCores, SlotTaken
<1> QED
  BY <1>1, <1>2, <1>3

LEMMA DpbAbortAfter ==
  ASSUME DpbInv, AbortAfter
  PROVE  /\ DpbInv' /\ dpb'.out_buf = <<>>
         /\ \A i \in Slots : Mem(dpb', i) = Mem(dpb, i) /\ Display(dpb', i) = "no"
<1>1. fb \in FrameBufferList /\ dpb \in DpbStorage /\ Ids(out_fifo) \subseteq Bufs
  BY IdsInBufs DEF DpbInv, TypeOK
<1> DEFINE f == RemoveTempOutputAll(fb)
           g == RemoveOutputAll(f, Ids(out_fifo))
<1>2. f \in FrameBufferList
  BY <1>1, ClearOutputsEffect DEF RemoveTempOutputAll
<1>3. g \in FrameBufferList
  <2> HIDE DEF f
  <2> QED
    BY <1>1, <1>2, ClearOutputsEffect DEF RemoveOutputAll
<1>4. fb' \in FrameBufferList
  <2>1. fb' = ClearAbortStatusInList(g)
    BY DEF AbortAfter
  <2> HIDE DEF g
  <2> QED
    BY <1>3, <2>1, AbortEffect
<1> DEFINE slot(i) == [dpb.slots[i] EXCEPT !.reference = FALSE, !.display = "no",
                                           !.error_info = FALSE]
           q == <<>>
<1>5. \A i \in Slots : /\ slot(i) \in SlotType /\ slot(i).display = "no"
                       /\ ~slot(i).reference /\ slot(i).mem_idx = dpb.slots[i].mem_idx
  BY <1>1 DEF DpbStorage, SlotType
<1>6. dpb' = [slots |-> [i \in Slots |-> slot(i)], num_out_pics_buffered |-> 0,
              fullness |-> 0, out_buf |-> q]
  BY DEF AbortAfter
<1>7. q = <<>> /\ q \in Seq(Pics) /\ Len(q) = 0
  OBVIOUS
<1> HIDE DEF slot, q
<1>8. /\ dpb' \in DpbStorage /\ dpb'.out_buf = q
      /\ dpb'.fullness = 0 /\ dpb'.num_out_pics_buffered = 0
      /\ \A i \in Slots : /\ Mem(dpb', i) = Mem(dpb, i) /\ Display(dpb', i) = "no"
                          /\ ~IsRef(dpb', i)
  BY <1>5, <1>6, <1>7 DEF DpbStorage, Mem, Display, IsRef
<1>9. /\ dpc' = "idle" /\ out_fifo' = <<>>
      /\ UNCHANGED <<cur, core, opc, held, acked, broken>>
  BY DEF AbortAfter
<1>10. TypeOK'
  <2>1. out_fifo' \in Seq(Pics)
    BY <1>9
  <2> QED
    BY <1>4, <1>8, <1>9, <2>1 DEF TypeOK, DpbInv
<1>11. DpbExact(dpb')
  <2>1. Busy(dpb') = {} /\ Shown(dpb') = {} /\ DpbSize \in Free(dpb')
    BY <1>8, SlotsFacts DEF Busy, Free, Shown
  <2> QED
    BY <1>8, <2>1, FS_EmptySet DEF DpbExact
<1>12. (RefsFit /\ SlotChosen)'
  BY <1>9 DEF RefsFit, SlotChosen
<1>13. OutBufFits'
  BY <1>7, <1>8, <1>9, SlotsFacts DEF OutBufFits, SlotTaken
<1> QED
  BY <1>7, <1>8, <1>10, <1>11, <1>12, <1>13 DEF DpbInv

\* What the listener does to the pictures of out_buf, the DPB and the fifo: it
\* changes error marks.
LEMMA HwReadyTells ==
  ASSUME DpbInv, NEW c \in Cores, NEW result \in Results, HwReady(c, result)
  PROVE  /\ dpb' \in DpbStorage /\ SlotsLike(dpb, dpb')
         /\ dpb'.fullness = dpb.fullness
         /\ dpb'.num_out_pics_buffered = dpb.num_out_pics_buffered
         /\ Len(dpb'.out_buf) = Len(dpb.out_buf)
         /\ \A i \in DOMAIN dpb.out_buf :
              dpb'.out_buf[i].mem_idx = dpb.out_buf[i].mem_idx
         /\ out_fifo' \in Seq(Pics) /\ Len(out_fifo') = Len(out_fifo)
         /\ \A i \in DOMAIN out_fifo : out_fifo'[i].mem_idx = out_fifo[i].mem_idx
<1> DEFINE out == core[c].out_id
           error == \/ result = "error"
                    \/ \E i \in Slots : /\ dpb.slots[i].error_info
                                        /\ dpb.slots[i].mem_idx \in core[c].ref_mem_idx
           Told(p) == IF p.mem_idx = out THEN [p EXCEPT !.error_info = error] ELSE p
           known == \/ out \in Ids(dpb.out_buf)
                    \/ \E i \in Slots : dpb.slots[i].mem_idx = out
           slots == [i \in Slots |-> Told(dpb.slots[i])]
           buf == [i \in DOMAIN dpb.out_buf |-> Told(dpb.out_buf[i])]
           fifo == [i \in DOMAIN out_fifo |-> Told(out_fifo[i])]
<1>1. /\ dpb' = [dpb EXCEPT !.slots = slots, !.out_buf = buf]
      /\ out_fifo' = IF known THEN fifo ELSE out_fifo
  BY DEF HwReady
<1>2. dpb \in DpbStorage /\ dpb.out_buf \in Seq(Pics) /\ out_fifo \in Seq(Pics)
  BY DEF DpbInv, TypeOK, DpbStorage
<1>3. error \in BOOLEAN
  OBVIOUS
<1> HIDE DEF error
<1>4. \A p \in Pics : Told(p) \in Pics /\ Told(p).mem_idx = p.mem_idx
  BY <1>3 DEF Pics
<1>5. \A s \in SlotType : /\ Told(s) \in SlotType /\ Told(s).mem_idx = s.mem_idx
                          /\ Told(s).display = s.display
                          /\ Told(s).reference = s.reference
  BY <1>3 DEF SlotType
<1> HIDE DEF Told, known, out
<1>6. /\ buf \in Seq(Pics) /\ Len(buf) = Len(dpb.out_buf)
      /\ \A i \in DOMAIN dpb.out_buf : buf[i].mem_idx = dpb.out_buf[i].mem_idx
  <2>1. \A i \in DOMAIN dpb.out_buf : dpb.out_buf[i] \in Pics
    BY <1>2
  <2>2. buf \in [DOMAIN dpb.out_buf -> Pics]
    BY <1>4, <2>1
  <2> QED
    BY <1>2, <1>4, <2>1, <2>2, RemarkedSeq
<1>7. /\ fifo \in Seq(Pics) /\ Len(fifo) = Len(out_fifo)
      /\ \A i \in DOMAIN out_fifo : fifo[i].mem_idx = out_fifo[i].mem_idx
  <2>1. \A i \in DOMAIN out_fifo : out_fifo[i] \in Pics
    BY <1>2
  <2>2. fifo \in [DOMAIN out_fifo -> Pics]
    BY <1>4, <2>1
  <2> QED
    BY <1>2, <1>4, <2>1, <2>2, RemarkedSeq
<1>8. /\ slots \in [Slots -> SlotType]
      /\ \A i \in Slots : /\ slots[i].mem_idx = dpb.slots[i].mem_idx
                          /\ slots[i].display = dpb.slots[i].display
                          /\ slots[i].reference = dpb.slots[i].reference
  <2>1. \A i \in Slots : dpb.slots[i] \in SlotType
    BY <1>2 DEF DpbStorage
  <2> QED
    BY <1>5, <2>1
<1> HIDE DEF slots, buf, fifo
<1>9. /\ dpb' \in DpbStorage /\ dpb'.slots = slots /\ dpb'.out_buf = buf
      /\ dpb'.fullness = dpb.fullness
      /\ dpb'.num_out_pics_buffered = dpb.num_out_pics_buffered
  BY <1>1, <1>2, <1>6, <1>8 DEF DpbStorage
<1>10. SlotsLike(dpb, dpb')
  BY <1>8, <1>9 DEF SlotsLike, Mem, Display, IsRef
<1> QED
  BY <1>1, <1>2, <1>6, <1>7, <1>9, <1>10

LEMMA DpbHwReady ==
  ASSUME DpbInv, NEW c \in Cores, NEW result \in Results, HwReady(c, result)
  PROVE  DpbInv'
<1>1. /\ fb \in FrameBufferList /\ core \in [Cores -> Job] /\ core[c].out_id \in Bufs
      /\ broken \subseteq Bufs
  BY DEF DpbInv, TypeOK, Job
<1>2. fb' \in FrameBufferList
  <2>1. fb' = ClearHWOutput(fb, core[c].out_id)
    BY DEF HwReady
  <2> QED
    BY <1>1, <2>1, UnmarkEffect DEF ClearHWOutput, Flags
<1>3. core' \in [Cores -> Job]
  <2>1. core' = [core EXCEPT ![c] = [core[c] EXCEPT !.st = "cleared"]]
    BY DEF HwReady
  <2>2. [core[c] EXCEPT !.st = "cleared"] \in Job
    BY <1>1 DEF Job
  <2> QED
    BY <1>1, <2>1, <2>2
<1>4. opc' \in {"idle", "asleep", "awake", "exit"} /\ broken' \subseteq Bufs
  BY <1>1 DEF HwReady, DpbInv, TypeOK
<1>5. UNCHANGED <<dpc, cur, held, acked>>
  BY DEF HwReady
<1>6. TypeOK'
  BY <1>2, <1>3, <1>4, <1>5, HwReadyTells DEF TypeOK, DpbInv
<1> QED
  BY <1>5, <1>6, HwReadyTells, DpbRemarked

\* The listener's second half and the output thread leave the DPB alone.
LEMMA DpbOtherThreads ==
  ASSUME DpbInv,
         \/ \E c \in Cores : ReleaseCore(c)
         \/ PeekWaits \/ PeekOutputPic \/ NextPictureAborted \/ NextPictureEnd
         \/ \E p \in held : PictureConsumed(p)
         \/ UNCHANGED vars
  PROVE  DpbInv'
<1>1. UNCHANGED <<dpb, dpc, cur>>
  BY DEF ReleaseCore, PeekWaits, PeekOutputPic, NextPictureAborted, NextPictureEnd,
         PictureConsumed, vars
<1>2. fb \in FrameBufferList /\ core \in [Cores -> Job] /\ held \subseteq Pics
      /\ out_fifo \in Seq(Pics)
  BY DEF DpbInv, TypeOK
<1>3. TypeOK'
  <2>1. ASSUME NEW c \in Cores, ReleaseCore(c) PROVE TypeOK'
    <3>1. fb' = DecrementDPBRefCountExt(fb, core[c].ref_id) /\ core[c].ref_id \in SUBSET Bufs
      BY <1>2, <2>1 DEF ReleaseCore, Job
    <3>2. fb' \in FrameBufferList
      BY <1>2, <3>1, DecrementEffect
    <3>3. core' \in [Cores -> Job]
      BY <1>2, <2>1, SlotsFacts DEF ReleaseCore, IdleCore, Job
    <3> QED
      BY <2>1, <3>2, <3>3 DEF ReleaseCore, TypeOK, DpbInv
  <2>2. CASE PeekWaits
    BY <2>2 DEF PeekWaits, TypeOK, DpbInv
  <2>3. CASE PeekOutputPic
    <3>1. Head(out_fifo) \in Pics /\ Tail(out_fifo) \in Seq(Pics)
      BY <1>2, <2>3 DEF PeekOutputPic, Peeking
    <3> QED
      BY <2>3, <3>1 DEF PeekOutputPic, TypeOK, DpbInv
  <2>4. CASE NextPictureAborted \/ NextPictureEnd
    BY <2>4 DEF NextPictureAborted, NextPictureEnd, TypeOK, DpbInv
  <2>5. ASSUME NEW p \in held, PictureConsumed(p) PROVE TypeOK'
    <3>1. p.mem_idx \in Bufs
      BY <1>2 DEF Pics
    <3>2. fb' \in FrameBufferList
      BY <1>2, <2>5, <3>1, UnmarkEffect
         DEF PictureConsumed, PopOutputPic, ClearOutput, Flags
    <3> QED
      BY <2>5, <3>2 DEF PictureConsumed, TypeOK, DpbInv
  <2>6. CASE UNCHANGED vars
    BY <2>6 DEF vars, TypeOK, DpbInv
  <2> QED
    BY <2>1, <2>2, <2>3, <2>4, <2>5, <2>6
<1> QED
  BY <1>1, <1>3, DpbUntouched

LEMMA DpbNext ==
  ASSUME DpbInv, [Next]_vars
  PROVE  DpbInv'
<1>1. ASSUME NEW kind \in {"idr", "idr_no_output", "trail"}, NEW keep \in SUBSET Slots,
             NEW display \in {"hidden", "shown"}, DecodePicture(kind, keep, display)
      PROVE  DpbInv'
  BY <1>1, DpbDecodePicture
<1>2. CASE EndOfStream \/ EosCoresDone \/ AbortCores
  BY <1>2, DpbCallSteps
<1>3. CASE Abort
  BY <1>3, DpbAbort
<1>4. CASE OutputPicture
  BY <1>4, DpbOutputPicture
<1>5. CASE IdrFlushed
  BY <1>5, DpbIdrFlushed
<1>6. CASE AllocateDpbImage
  BY <1>6, DpbAllocateDpbImage
<1>7. CASE GetFreeBuffer
  BY <1>7, DpbGetFreeBuffer
<1>8. CASE Retry
  BY <1>8, DpbRetry
<1>9. CASE \E c \in Cores : RunAsic(c)
  BY <1>9, DpbRunAsic
<1>10. CASE SCCheckRefs
  BY <1>10, DpbSCCheckRefs
<1>11. CASE SCMarkOutputPicInfo
  BY <1>11, DpbSCMarkOutputPicInfo
<1>12. CASE Finalize
  BY <1>12, DpbFinalize
<1>13. CASE PushOutputPic
  BY <1>13, DpbPushOutputPic
<1>14. CASE PushOutputDone
  BY <1>14, DpbPushOutputDone
<1>15. CASE AbortAfter
  BY <1>15, DpbAbortAfter
<1>16. ASSUME NEW c \in Cores, NEW r \in Results, HwReady(c, r) PROVE DpbInv'
  BY <1>16, DpbHwReady
<1>17. CASE \/ \E c \in Cores : ReleaseCore(c)
            \/ PeekWaits \/ PeekOutputPic \/ NextPictureAborted \/ NextPictureEnd
            \/ \E p \in held : PictureConsumed(p)
            \/ UNCHANGED vars
  BY <1>17, DpbOtherThreads
<1> QED
  BY <1>1, <1>2, <1>3, <1>4, <1>5, <1>6, <1>7, <1>8, <1>9, <1>10, <1>11, <1>12, <1>13,
     <1>14, <1>15, <1>16, <1>17
     DEF Next, InDecode, OutputThread, Finished

-----------------------------------------------------------------------------
(* The theorems *)

\* DpbInv holds in every reachable state, whatever the constants: with VCMD or
\* without it, and wherever the application seeks.
THEOREM DpbInvHolds == Spec => []DpbInv
<1>1. Init => DpbInv
  BY DpbInitially
<1>2. DpbInv /\ [Next]_vars => DpbInv'
  BY DpbNext
<1> QED
  BY <1>1, <1>2, PTL DEF Spec

\* Every variable of the multi-core decoder stays in its type: what the three
\* threads and the cores do to the shared lists leaves them well formed.
THEOREM TypeCorrect == Spec => []TypeOK
<1>1. DpbInv => TypeOK
  BY DEF DpbInv
<1> QED
  BY <1>1, DpbInvHolds, PTL

\* fullness and num_out_pics_buffered are what they count; a bumping loop that
\* ends leaves a slot for the next picture, so that HevcAllocateDpbImage finds
\* one; and out_buf never reaches the size at which OutputPicture drops a picture.
THEOREM DpbCountsAreExact == Spec => []DpbCountsExact
<1>1. ASSUME DpbInv PROVE DpbCountsExact
  <2>1. dpb.fullness = Cardinality(Slots \ FreeSlots)
    BY <1>1, ModelSets DEF DpbInv, DpbExact, Busy
  <2>2. dpb.num_out_pics_buffered
          = Cardinality({i \in Slots : dpb.slots[i].display = "shown"})
    BY <1>1 DEF DpbInv, DpbExact, Shown, Display
  <2>3. dpc \in {"bump", "get"} /\ ~MoreToOutput => FreeSlots # {}
    BY <1>1, FreeSlotThere, ModelSets DEF DpbInv, SlotChosen
  <2> QED
    BY <1>1, <2>1, <2>2, <2>3, CountersNat DEF DpbCountsExact
<1> QED
  BY <1>1, DpbInvHolds, PTL
=============================================================================

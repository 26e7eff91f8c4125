-------------------------- MODULE DecodeArenaProofs --------------------------
(***************************************************************************)
(* Proofs about DecodeArena, for every set of experts and every number of  *)
(* slots: as long as nothing interrupts an insert, slots are exclusive,    *)
(* the GPU table mirrors the map, and a gather reads what it was routed to.*)
(***************************************************************************)
EXTENDS DecodeArena, KeyOrders

Occupied == {slot[e] : e \in Resident}
Copying == ins.pc \in {"copy", "map"}

\* Experts the forward has resolved; the one being inserted counts from the
\* moment it is in the map.
Resolved == DOMAIN got \cup (IF ins.pc \in {"table", "entry"} THEN {ins.expert} ELSE {})

\* The occupied slots are the first ones, but for the slot of an insert that has
\* not mapped its expert yet.
MapInv ==
    /\ IsInjective(order) /\ Len(order) <= h
    /\ \A e, f \in Resident : slot[e] = slot[f] => e = f
    /\ ~ Copying => Occupied = 0 .. Len(order) - 1
    /\ Copying => /\ Len(order) < Slots
                  /\ ins.slot \in 0 .. Len(order)
                  /\ Occupied = (0 .. Len(order)) \ {ins.slot}

\* What an insert knows at each of its stages.
InsertInv ==
    /\ ins.pc = "none" => ins = NoInsert
    /\ ins.pc # "none" => /\ h = Slots
                          /\ ins.expert \in wanted /\ ins.slot \in SlotIds
                          /\ ins.evicted \notin Resident \cup {ins.expert}
    /\ Copying => ins.expert \notin Resident
    /\ ins.pc = "map" => ins.left = {}
    /\ ins.pc \in {"table", "entry"} =>
          ins.expert \in Resident /\ slot[ins.expert] = ins.slot

BufInv ==
    /\ \A e \in Resident : \A n \in Names : bufs[slot[e]][n] = e
    /\ Copying => \A n \in Names \ ins.left : bufs[ins.slot][n] = ins.expert

TableInv ==
    /\ \A e \in Experts \ {ins.expert, ins.evicted} :
          table[e] = IF e \in Resident THEN slot[e] ELSE Absent
    /\ ins.pc = "entry" /\ ins.evicted \in Experts => table[ins.evicted] = Absent

\* The experts of a forward fit in the arena together, and those resolved so far
\* are the most recent of the map: an eviction, which needs a full arena, takes
\* none of them.
ForwardInv ==
    /\ Cardinality(DOMAIN got \cup wanted) <= Slots
    /\ DOMAIN got \cap wanted = {}
    /\ \A e \in DOMAIN got : e \in Resident /\ got[e] = slot[e]
    /\ \A i, j \in DOMAIN order : i < j /\ order[i] \in Resolved => order[j] \in Resolved

ArenaInv ==
    ArenaTypeOK /\ MapInv /\ InsertInv /\ BufInv /\ TableInv /\ ForwardInv

-----------------------------------------------------------------------------
\* The shape of the state that every step starts from.
LEMMA ArenaShape ==
    ASSUME ArenaInv
    PROVE  /\ Len(order) \in Nat /\ DOMAIN order = 1 .. Len(order)
           /\ Resident \subseteq Experts
           /\ \A i \in 1 .. Len(order) : order[i] \in Resident
           /\ \A e \in Resident : \E i \in 1 .. Len(order) : order[i] = e
           /\ h \in Nat /\ h <= Slots /\ Len(order) <= Slots
           /\ None \notin Experts
           /\ order \in Seq(Experts) /\ IsInjective(order)
<1>1. order \in Seq(Experts) /\ IsInjective(order) /\ Len(order) <= h /\ h \in {0, Slots}
  BY DEF ArenaInv, ArenaTypeOK, MapInv
<1>2. Len(order) \in Nat /\ DOMAIN order = 1 .. Len(order)
  BY <1>1, LenProperties
<1>3. Resident = {order[i] : i \in 1 .. Len(order)}
  BY <1>1, RangeEquality DEF Resident
<1>4. \A i \in 1 .. Len(order) : order[i] \in Experts
  BY <1>1, ElementOfSeq
<1> QED BY <1>1, <1>2, <1>3, <1>4, ArenaConstants

\* Nothing is resident, resolved or under way at first.
LEMMA ArenaInitSound == ArenaInit => ArenaInv
<1> SUFFICES ASSUME ArenaInit PROVE ArenaInv
  OBVIOUS
<1> USE DEF ArenaInit
<1>1. order = <<>> /\ order \in Seq(Experts) /\ Len(order) = 0
  BY EmptySeq
<1>2. Resident = {} /\ IsInjective(order)
  BY <1>1, EmptyFacts DEF Resident
<1>3. DOMAIN got = {} /\ wanted = {} /\ ins = NoInsert /\ ins.pc = "none" /\ h = 0
  BY DEF NoSlots, NoInsert
<1>4. Slots \in Nat \ {0} /\ MaxInterrupts \in Nat
  BY ArenaConstants
<1>5. ArenaTypeOK
  <2>1. ins \in [pc : {"none", "copy", "map", "table", "entry"}, expert : Experts \cup {None},
                 slot : SlotIds \cup {Absent}, evicted : Experts \cup {None},
                 left : SUBSET Names]
    BY DEF NoInsert
  <2> QED BY <1>1, <1>3, <1>4, <2>1 DEF ArenaTypeOK
<1>6. MapInv
  <2>1. Occupied = {} /\ 0 .. 0 - 1 = {}
    BY <1>2 DEF Occupied
  <2> QED BY <1>1, <1>2, <1>3, <2>1 DEF MapInv, Copying
<1>7. InsertInv /\ BufInv /\ TableInv
  BY <1>2, <1>3 DEF InsertInv, BufInv, TableInv, Copying
<1>8. ForwardInv
  <2>1. Cardinality(DOMAIN got \cup wanted) = 0
    BY <1>3, FS_EmptySet
  <2>2. DOMAIN order = {}
    BY <1>1, LenProperties
  <2> QED BY <1>3, <1>4, <2>1, <2>2 DEF ForwardInv
<1> QED BY <1>5, <1>6, <1>7, <1>8 DEF ArenaInv

\* The parts of the invariant that speak of the map and the buffers alone.
LEMMA SameMap ==
    ASSUME ArenaInv, UNCHANGED <<h, mapVars, bufs, table, ins>>, wanted' \subseteq Experts,
           ins.pc = "none", got' = got \/ got' = NoSlots,
           got' = got => DOMAIN got \cap wanted' = {},
           Cardinality(DOMAIN got' \cup wanted') <= Slots, UNCHANGED interrupts
    PROVE  ArenaInv'
<1> USE DEF mapVars
<1>1. ArenaTypeOK'
  <2>1. DOMAIN got' \subseteq Experts /\ \A e \in DOMAIN got' : got'[e] \in SlotIds
    BY DEF NoSlots, ArenaInv, ArenaTypeOK
  <2> QED BY <2>1 DEF ArenaInv, ArenaTypeOK
<1>2. MapInv' /\ BufInv' /\ TableInv'
  BY DEF ArenaInv, MapInv, BufInv, TableInv, Occupied, Copying, Resident
<1>3. InsertInv'
  BY DEF ArenaInv, InsertInv, Copying, Resident
<1>4. ForwardInv'
  <2>1. CASE got' = got
    BY <2>1 DEF ArenaInv, ForwardInv, Resolved, Resident
  <2>2. CASE got' = NoSlots
    <3>1. DOMAIN got' = {} /\ Resolved' = {}
      BY <2>2 DEF NoSlots, Resolved
    <3> QED BY <3>1 DEF ForwardInv
  <2> QED BY <2>1, <2>2
<1> QED BY <1>1, <1>2, <1>3, <1>4 DEF ArenaInv

\* Sizing the arena elsewhere only raises the bound on the map.
LEMMA SizedElsewhereSound == ArenaInv /\ SizedElsewhere => ArenaInv'
<1> SUFFICES ASSUME ArenaInv, SizedElsewhere PROVE ArenaInv'
  OBVIOUS
<1> USE DEF SizedElsewhere, mapVars, fwdVars
<1>1. ArenaTypeOK'
  BY DEF ArenaInv, ArenaTypeOK
<1>2. MapInv'
  BY ArenaShape DEF ArenaInv, MapInv, Occupied, Copying, Resident
<1>3. InsertInv' /\ BufInv' /\ TableInv' /\ ForwardInv'
  BY DEF ArenaInv, InsertInv, BufInv, TableInv, ForwardInv, Copying, Resident, Resolved
<1> QED BY <1>1, <1>2, <1>3 DEF ArenaInv

\* The experts of a new forward fit in the arena: TokenFits, or the guard on
\* several tokens.
LEMMA ForwardStartSound == ArenaInv /\ ForwardStart => ArenaInv'
<1> SUFFICES ASSUME ArenaInv, ForwardStart PROVE ArenaInv'
  OBVIOUS
<1>1. PICK S \in SUBSET Experts :
        /\ \/ Cardinality(S) = TopK /\ Fits(S, 1)
           \/ Cardinality(S) >= TopK /\ Fits(S, 2)
        /\ wanted' = S
  BY DEF ForwardStart
<1>2. IsFiniteSet(S) /\ Cardinality(S) \in Nat
  BY ArenaConstants, FS_Subset, FS_CardinalityType
<1>3. Cardinality(S) <= Slots
  <2>1. CASE Cardinality(S) = TopK
    BY <2>1, TokenFits
  <2>2. CASE Fits(S, 2)
    <3>1. 2 * Cardinality(S) <= h
      BY <2>2 DEF Fits
    <3> QED BY <3>1, <1>2, ArenaShape, ArenaConstants
  <2> QED BY <1>1, <2>1, <2>2
<1>4. got' = NoSlots /\ DOMAIN got' = {}
  BY DEF ForwardStart, NoSlots
<1>5. Cardinality(DOMAIN got' \cup wanted') <= Slots
  BY <1>1, <1>3, <1>4
<1>6. got' = got => DOMAIN got \cap wanted' = {}
  BY <1>4
<1> QED BY <1>1, <1>4, <1>5, <1>6, SameMap DEF ForwardStart

\* With h = 0 nothing is resident, so the sizing expert is alone.
LEMMA BootstrapSound == ArenaInv /\ Bootstrap => ArenaInv'
<1> SUFFICES ASSUME ArenaInv, Bootstrap PROVE ArenaInv'
  OBVIOUS
<1>1. PICK e \in Experts : wanted' = {e}
  BY DEF Bootstrap
<1>2. Len(order) = 0
  BY ArenaShape DEF Bootstrap, ArenaInv, MapInv
<1>3. Resident = {}
  BY <1>2, ArenaShape
<1>4. DOMAIN got = {}
  BY <1>3 DEF ArenaInv, ForwardInv
<1>5. DOMAIN got' \cup wanted' = {e}
  BY <1>1, <1>4 DEF Bootstrap
<1>6. Cardinality(DOMAIN got' \cup wanted') <= Slots
  BY <1>5, FS_Singleton, ArenaConstants
<1> QED BY <1>1, <1>4, <1>6, SameMap DEF Bootstrap

\* A hit moves the expert to the end, where the resolved ones are.
LEMMA LookupHitSound ==
    ASSUME ArenaInv, NEW e \in Experts, LookupHit(e)
    PROVE  ArenaInv'
<1> USE DEF mapVars
<1>1. PICK i \in DOMAIN order : order[i] = e /\ order' = Append(RemoveAt(order, i), e)
  BY DEF LookupHit
<1>2. /\ ins.pc = "none" /\ e \in wanted /\ wanted' = wanted \ {e}
      /\ got' = [x \in DOMAIN got \cup {e} |-> IF x = e THEN slot[e] ELSE got[x]]
      /\ UNCHANGED <<h, slot, bufs, table, ins, interrupts>>
  BY DEF LookupHit
<1> DEFINE r == RemoveAt(order, i)
           n == Len(order)
<1>3. /\ n \in Nat /\ DOMAIN order = 1 .. n /\ i \in 1 .. n
      /\ order \in Seq(Experts) /\ IsInjective(order)
  BY <1>1, ArenaShape
<1>4. /\ r \in Seq(Experts) /\ IsInjective(r) /\ Range(r) = Range(order) \ {e}
      /\ Len(r) = n - 1
      /\ \A j \in 1 .. n - 1 : r[j] = IF j < i THEN order[j] ELSE order[j + 1]
  BY <1>1, <1>3, RemoveAtFacts
<1>5. e \in Resident
  BY <1>1, <1>3, ArenaShape
<1> HIDE DEF r
<1>6. /\ order' = Append(r, e)
      /\ order' \in Seq(Experts) /\ IsInjective(order') /\ Range(order') = Range(r) \cup {e}
      /\ Len(order') = Len(r) + 1
      /\ \A j \in 1 .. Len(r) : order'[j] = r[j]
      /\ order'[Len(r) + 1] = e
  <2>1. order' = Append(r, e)
    BY <1>1 DEF r
  <2>2. e \notin Range(r)
    BY <1>4
  <2> QED BY <2>1, <2>2, <1>4, AppendFacts
<1>7. Resident' = Resident /\ Len(order') = n
  BY <1>3, <1>4, <1>5, <1>6 DEF Resident
<1>8. /\ DOMAIN got' = DOMAIN got \cup {e} /\ got'[e] = slot[e]
      /\ \A x \in DOMAIN got \ {e} : got'[x] = got[x]
  BY <1>2
<1>9. e \notin DOMAIN got
  BY <1>2 DEF ArenaInv, ForwardInv
<1>10. slot[e] \in SlotIds
  <2>1. slot[e] \in 0 .. n - 1
    BY <1>2, <1>5 DEF ArenaInv, MapInv, Occupied, Copying
  <2> QED BY <2>1, <1>3, ArenaShape, ArenaConstants DEF SlotIds
<1>11. ArenaTypeOK'
  <2>1. DOMAIN got' \subseteq Experts /\ \A x \in DOMAIN got' : got'[x] \in SlotIds
    BY <1>8, <1>10 DEF ArenaInv, ArenaTypeOK
  <2> QED BY <2>1, <1>2, <1>6 DEF ArenaInv, ArenaTypeOK
<1>12. MapInv'
  BY <1>2, <1>6, <1>7 DEF ArenaInv, MapInv, Occupied, Copying
<1>13. InsertInv' /\ BufInv' /\ TableInv'
  BY <1>2, <1>7 DEF ArenaInv, InsertInv, BufInv, TableInv, Copying
<1>14. ForwardInv'
  <2>1. DOMAIN got' \cup wanted' = DOMAIN got \cup wanted
    BY <1>2, <1>8
  <2>2. Cardinality(DOMAIN got' \cup wanted') <= Slots
    BY <2>1 DEF ArenaInv, ForwardInv
  <2>3. DOMAIN got' \cap wanted' = {}
    BY <1>2, <1>8 DEF ArenaInv, ForwardInv
  <2>4. ASSUME NEW x \in DOMAIN got'  PROVE x \in Resident' /\ got'[x] = slot'[x]
    BY <2>4, <1>2, <1>5, <1>7, <1>8 DEF ArenaInv, ForwardInv
  <2>5. DOMAIN order' = 1 .. n
    BY <1>6, <1>7, LenProperties
  <2>6. Resolved' = Resolved \cup {e} /\ e \notin Resolved
    BY <1>2, <1>8, <1>9 DEF Resolved
  <2>7. ASSUME NEW p \in 1 .. n, NEW q \in 1 .. n, p < q, order'[p] \in Resolved'
        PROVE  order'[q] \in Resolved'
    <3>1. CASE q = n
      BY <3>1, <1>3, <1>4, <1>6, <2>6
    <3>2. CASE q < n
      <4> DEFINE p0 == IF p < i THEN p ELSE p + 1
                 q0 == IF q < i THEN q ELSE q + 1
      <4>1. p \in 1 .. n - 1 /\ q \in 1 .. n - 1
        BY <3>2, <2>7, <1>3
      <4>2. order'[p] = order[p0] /\ order'[q] = order[q0]
        BY <4>1, <1>3, <1>4, <1>6
      <4>3. p0 \in DOMAIN order /\ q0 \in DOMAIN order /\ p0 < q0 /\ p0 # i
        BY <4>1, <2>7, <1>3
      <4> HIDE DEF p0, q0
      <4>4. order[p0] # e
        BY <4>3, <1>1, <1>3 DEF IsInjective
      <4>5. order[p0] \in Resolved
        BY <4>2, <4>4, <2>6, <2>7
      <4>6. order[q0] \in Resolved
        BY <4>3, <4>5 DEF ArenaInv, ForwardInv
      <4> QED BY <4>2, <4>6, <2>6
    <3>3. n \in Nat
      BY <1>3
    <3> HIDE DEF n
    <3>4. q = n \/ q < n
      BY <3>3
    <3> QED BY <3>1, <3>2, <3>4
  <2> QED BY <2>2, <2>3, <2>4, <2>5, <2>7 DEF ForwardInv
<1> QED BY <1>11, <1>12, <1>13, <1>14 DEF ArenaInv

\* The least recent expert of a full map is not one the forward has resolved:
\* otherwise all of the map would be, and the expert to insert besides.
LEMMA VictimNotResolved ==
    ASSUME ArenaInv, NEW e \in wanted, e \notin Resident, Len(order) >= Slots, ins.pc = "none"
    PROVE  order # <<>> /\ Head(order) \notin DOMAIN got
<1>1. /\ Len(order) \in Nat /\ DOMAIN order = 1 .. Len(order) /\ Len(order) = Slots
      /\ order \in Seq(Experts) /\ IsInjective(order) /\ Slots \in Nat \ {0}
  <2>1. /\ Len(order) \in Nat /\ DOMAIN order = 1 .. Len(order) /\ Len(order) <= Slots
        /\ order \in Seq(Experts) /\ IsInjective(order)
    BY ArenaShape
  <2>2. Slots \in Nat \ {0}
    BY ArenaConstants
  <2>3. \A n \in Nat, m \in Nat : n <= m /\ n >= m => n = m
    OBVIOUS
  <2>4. Len(order) = Slots
    BY <2>1, <2>2, <2>3, Zenon
  <2> QED BY <2>1, <2>2, <2>4
<1>2. order # <<>>
  BY <1>1, EmptySeq
<1>3. Head(order) = order[1]
  BY <1>1, <1>2, TailFacts
<1>4. ASSUME Head(order) \in DOMAIN got  PROVE FALSE
  <2> DEFINE T == DOMAIN got
  <2>1. Resolved = T
    BY DEF Resolved
  <2>2. ASSUME NEW j \in 1 .. Len(order)  PROVE order[j] \in T
    <3>1. CASE j = 1
      BY <3>1, <1>3, <1>4
    <3>2. CASE 1 < j
      BY <3>2, <1>1, <1>3, <1>4, <2>1 DEF ArenaInv, ForwardInv
    <3> QED BY <3>1, <3>2, <1>1
  <2>3. Range(order) \subseteq T
    BY <2>2, <1>1, RangeEquality
  <2>4. T \cup {e} \subseteq T \cup wanted /\ e \notin T
    BY DEF ArenaInv, ForwardInv
  <2>5. T \cup wanted \subseteq Experts
    BY DEF ArenaInv, ArenaTypeOK
  <2>6. IsFiniteSet(T) /\ IsFiniteSet(T \cup wanted)
    BY <2>5, ArenaConstants, FS_Subset
  <2>7. Cardinality(T \cup {e}) = Cardinality(T) + 1 /\ Cardinality(T) \in Nat
    BY <2>4, <2>6, FS_AddElement, FS_CardinalityType
  <2>8. Cardinality(T \cup {e}) <= Cardinality(T \cup wanted)
    BY <2>4, <2>6, FS_Subset
  <2>9. Len(order) <= Cardinality(T)
    BY <1>1, <2>3, <2>6, LenBound
  <2>10. Cardinality(T \cup wanted) <= Slots /\ Cardinality(T \cup wanted) \in Nat
    BY <2>6, FS_CardinalityType DEF ArenaInv, ForwardInv
  <2> HIDE DEF T
  <2> QED BY <2>7, <2>8, <2>9, <2>10, <1>1
<1> QED BY <1>2, <1>4

\* What the two ways of picking a slot have in common.
LEMMA PickSound ==
    ASSUME ArenaInv, NEW e \in Experts, ins.pc = "none", e \in wanted, e \notin Resident,
           NEW s, NEW v \in Experts \cup {None}, s \in SlotIds, ins' = Inserting(e, s, v),
           order' \in Seq(Experts), IsInjective(order'),
           Len(order') < Slots, s \in 0 .. Len(order'), Resident' = Resident \ {v}, v # e,
           Occupied' = (0 .. Len(order')) \ {s},
           \A i, j \in DOMAIN order' :
              i < j /\ order'[i] \in Resolved => order'[j] \in Resolved,
           v \notin DOMAIN got,
           h' = Slots, UNCHANGED <<slot, bufs, table, fwdVars, interrupts>>
    PROVE  ArenaInv'
<1> USE DEF fwdVars
<1>1. /\ ins'.pc = "copy" /\ ins'.expert = e /\ ins'.slot = s /\ ins'.evicted = v
      /\ ins'.left = Names /\ Copying' /\ ~ Copying
  BY DEF Inserting, Copying
<1>2. ins = NoInsert /\ ins.expert = None /\ ins.evicted = None
  BY DEF ArenaInv, InsertInv, NoInsert
<1>3. ArenaTypeOK'
  <2>1. ins' \in [pc : {"none", "copy", "map", "table", "entry"}, expert : Experts \cup {None},
                  slot : SlotIds \cup {Absent}, evicted : Experts \cup {None},
                  left : SUBSET Names]
    BY DEF Inserting
  <2> QED BY <2>1 DEF ArenaInv, ArenaTypeOK
<1>4. MapInv'
  <2>1. \A x, y \in Resident' : slot'[x] = slot'[y] => x = y
    BY DEF ArenaInv, MapInv
  <2>2. Len(order') <= h'
    <3>1. Len(order') \in Nat
      BY LenProperties
    <3> QED BY <3>1, ArenaConstants
  <2> QED BY <1>1, <2>1, <2>2 DEF MapInv
<1>5. InsertInv'
  BY <1>1 DEF InsertInv
<1>6. BufInv'
  BY <1>1 DEF ArenaInv, BufInv
<1>7. TableInv'
  BY <1>1, <1>2, ArenaConstants DEF ArenaInv, TableInv
<1>8. ForwardInv'
  <2>1. Resolved = DOMAIN got /\ Resolved' = DOMAIN got
    BY <1>1 DEF Resolved
  <2> QED BY <2>1 DEF ArenaInv, ForwardInv
<1> QED BY <1>3, <1>4, <1>5, <1>6, <1>7, <1>8 DEF ArenaInv

\* A free slot is the first one behind the occupied ones; a full map gives its
\* oldest expert's.
LEMMA InsertPickSound ==
    ASSUME ArenaInv, NEW e \in Experts, InsertPick(e)
    PROVE  ArenaInv'
<1> DEFINE n == Len(order)
<1>1. /\ ins.pc = "none" /\ e \in wanted /\ e \notin Resident /\ h' = Slots
      /\ UNCHANGED <<slot, bufs, table, fwdVars, interrupts>>
  BY DEF InsertPick
<1>2. /\ n \in Nat /\ DOMAIN order = 1 .. n /\ n <= Slots
      /\ order \in Seq(Experts) /\ IsInjective(order) /\ Resident \subseteq Experts
      /\ None \notin Experts /\ Slots \in Nat \ {0}
  BY ArenaShape, ArenaConstants
<1>3. Occupied = 0 .. n - 1 /\ ~ Copying
  BY <1>1 DEF ArenaInv, MapInv, Copying
<1>4. \A i, j \in DOMAIN order : i < j /\ order[i] \in Resolved => order[j] \in Resolved
  BY DEF ArenaInv, ForwardInv
<1>5. CASE n < Slots /\ ins' = Inserting(e, n, None) /\ UNCHANGED order
  <2>1. Resident' = Resident \ {None} /\ Occupied' = Occupied
    BY <1>1, <1>2, <1>5 DEF Resident, Occupied
  <2>2. Occupied' = (0 .. Len(order')) \ {n}
    BY <1>2, <1>3, <1>5, <2>1
  <2>3. n \in SlotIds /\ n \in 0 .. Len(order') /\ None # e
    BY <1>2, <1>5 DEF SlotIds
  <2>4. None \notin DOMAIN got
    BY <1>2 DEF ArenaInv, ArenaTypeOK
  <2>5. /\ order' \in Seq(Experts) /\ IsInjective(order') /\ Len(order') < Slots
        /\ \A i, j \in DOMAIN order' : i < j /\ order'[i] \in Resolved => order'[j] \in Resolved
    BY <1>2, <1>4, <1>5
  <2> HIDE DEF n
  <2> QED BY <1>1, <1>5, <2>1, <2>2, <2>3, <2>4, <2>5, PickSound
<1>6. CASE n >= Slots /\ ins' = Inserting(e, slot[Head(order)], Head(order))
           /\ order' = Tail(order)
  <2> DEFINE v == Head(order)
             s == slot[v]
  <2>1. order # <<>> /\ v \notin DOMAIN got
    BY <1>1, <1>6, VictimNotResolved
  <2>2. /\ order' \in Seq(Experts) /\ IsInjective(order') /\ Len(order') = n - 1
        /\ \A j \in 1 .. n - 1 : order'[j] = order[j + 1]
        /\ v \in Resident /\ Resident' = Resident \ {v}
    BY <1>2, <1>6, <2>1, TailFacts DEF Resident
  <2>3. DOMAIN order' = 1 .. n - 1
    BY <2>2, LenProperties
  <2>4. s \in 0 .. n - 1
    BY <1>3, <2>2 DEF Occupied
  <2>5. Occupied' = Occupied \ {s}
    <3>1. \A x \in Resident : slot[x] = s => x = v
      BY <2>2 DEF ArenaInv, MapInv
    <3> QED BY <3>1, <1>1, <2>2 DEF Occupied
  <2>6. \A i, j \in DOMAIN order' : i < j /\ order'[i] \in Resolved => order'[j] \in Resolved
    <3> SUFFICES ASSUME NEW i \in 1 .. n - 1, NEW j \in 1 .. n - 1,
                        i < j, order[i + 1] \in Resolved
                 PROVE  order[j + 1] \in Resolved
      BY <2>2, <2>3
    <3>1. i + 1 \in DOMAIN order /\ j + 1 \in DOMAIN order /\ i + 1 < j + 1
      BY <1>2
    <3> QED BY <3>1, <1>4
  <2>7. s \in SlotIds /\ s \in 0 .. Len(order') /\ Len(order') < Slots
    BY <1>2, <1>6, <2>2, <2>4 DEF SlotIds
  <2>8. Occupied' = (0 .. Len(order')) \ {s}
    BY <1>2, <1>3, <2>2, <2>5
  <2>9. v \in Experts /\ v # e
    BY <1>1, <1>2, <2>2
  <2>10. ins' = Inserting(e, s, v)
    BY <1>6
  <2> HIDE DEF n, s, v
  <2> QED BY <1>1, <2>1, <2>2, <2>6, <2>7, <2>8, <2>9, <2>10, PickSound
<1> QED BY <1>1, <1>5, <1>6 DEF InsertPick

\* A copy goes to the slot that no resident expert has.
LEMMA InsertCopySound == ArenaInv /\ InsertCopy => ArenaInv'
<1> SUFFICES ASSUME ArenaInv, InsertCopy PROVE ArenaInv'
  OBVIOUS
<1> USE DEF mapVars, fwdVars
<1>1. PICK n \in ins.left :
        /\ bufs' = [bufs EXCEPT ![ins.slot][n] = ins.expert]
        /\ ins' = [ins EXCEPT !.left = @ \ {n}, !.pc = IF ins.left = {n} THEN "map" ELSE "copy"]
  BY DEF InsertCopy
<1>2. /\ ins.pc = "copy" /\ UNCHANGED <<h, order, slot, table, wanted, got, interrupts>>
  BY DEF InsertCopy
<1>3. /\ ins \in [pc : {"none", "copy", "map", "table", "entry"}, expert : Experts \cup {None},
                  slot : SlotIds \cup {Absent}, evicted : Experts \cup {None},
                  left : SUBSET Names]
      /\ bufs \in [SlotIds -> [Names -> Experts \cup {None}]]
      /\ wanted \subseteq Experts
  BY DEF ArenaInv, ArenaTypeOK
<1>4. ins.expert \in wanted /\ ins.slot \in SlotIds /\ n \in Names /\ Copying
  BY <1>1, <1>2, <1>3 DEF ArenaInv, InsertInv, Copying
<1>5. /\ ins'.expert = ins.expert /\ ins'.slot = ins.slot /\ ins'.evicted = ins.evicted
      /\ ins'.left = ins.left \ {n} /\ ins'.pc \in {"copy", "map"} /\ Copying'
      /\ ins'.pc = "map" => ins.left = {n}
  BY <1>1, <1>3 DEF Copying
<1>6. ins' \in [pc : {"none", "copy", "map", "table", "entry"}, expert : Experts \cup {None},
                slot : SlotIds \cup {Absent}, evicted : Experts \cup {None},
                left : SUBSET Names]
  BY <1>1, <1>3
<1>7. /\ bufs' \in [SlotIds -> [Names -> Experts \cup {None}]]
      /\ bufs'[ins.slot][n] = ins.expert
      /\ \A x \in SlotIds, m \in Names : x # ins.slot \/ m # n => bufs'[x][m] = bufs[x][m]
  BY <1>1, <1>3, <1>4
<1>8. ArenaTypeOK'
  BY <1>2, <1>6, <1>7 DEF ArenaInv, ArenaTypeOK
<1>9. Resident' = Resident /\ Occupied' = Occupied
  BY <1>2 DEF Resident, Occupied
<1>10. MapInv' /\ InsertInv' /\ TableInv'
  BY <1>2, <1>4, <1>5, <1>9 DEF ArenaInv, MapInv, InsertInv, TableInv
<1>11. BufInv'
  <2>1. ASSUME NEW e \in Resident, NEW m \in Names  PROVE bufs'[slot[e]][m] = e
    <3>1. slot[e] # ins.slot
      BY <1>4 DEF ArenaInv, MapInv, Occupied
    <3>2. slot[e] \in SlotIds
      <4>1. slot[e] \in 0 .. Len(order) /\ Len(order) \in Nat /\ Len(order) < Slots
        BY <1>4, ArenaShape DEF ArenaInv, MapInv, Occupied
      <4> QED BY <4>1, ArenaConstants DEF SlotIds
    <3> QED BY <3>1, <3>2, <1>7 DEF ArenaInv, BufInv
  <2>2. ASSUME NEW m \in Names \ ins'.left  PROVE bufs'[ins.slot][m] = ins.expert
    <3>1. CASE m = n
      BY <3>1, <1>7
    <3>2. CASE m # n
      BY <3>2, <2>2, <1>4, <1>5, <1>7 DEF ArenaInv, BufInv
    <3> QED BY <3>1, <3>2
  <2> QED BY <2>1, <2>2, <1>2, <1>5, <1>9 DEF BufInv
<1>12. ForwardInv'
  <2>1. Resolved' = Resolved
    BY <1>2, <1>5 DEF Resolved
  <2> QED BY <2>1, <1>2, <1>9 DEF ArenaInv, ForwardInv
<1> QED BY <1>8, <1>10, <1>11, <1>12 DEF ArenaInv

\* The map takes the expert in at the recent end, with all its tensors copied.
LEMMA InsertMapSound == ArenaInv /\ InsertMap => ArenaInv'
<1> SUFFICES ASSUME ArenaInv, InsertMap PROVE ArenaInv'
  OBVIOUS
<1> USE DEF fwdVars
<1> DEFINE e == ins.expert
           s == ins.slot
           n == Len(order)
<1>1. /\ ins.pc = "map" /\ order' = Append(order, e) /\ slot' = [slot EXCEPT ![e] = s]
      /\ ins' = [ins EXCEPT !.pc = "table"]
      /\ UNCHANGED <<h, bufs, table, wanted, got, interrupts>>
  BY DEF InsertMap
<1>2. /\ ins \in [pc : {"none", "copy", "map", "table", "entry"}, expert : Experts \cup {None},
                  slot : SlotIds \cup {Absent}, evicted : Experts \cup {None},
                  left : SUBSET Names]
      /\ slot \in [Experts -> SlotIds \cup {Absent}] /\ wanted \subseteq Experts
  BY DEF ArenaInv, ArenaTypeOK
<1>3. /\ e \in Experts /\ e \in wanted /\ s \in SlotIds /\ e \notin Resident /\ h = Slots
      /\ ins.evicted \notin Resident \cup {e} /\ ins.left = {} /\ Copying
  BY <1>1, <1>2 DEF ArenaInv, InsertInv, Copying
<1>4. /\ n \in Nat /\ DOMAIN order = 1 .. n /\ order \in Seq(Experts) /\ IsInjective(order)
      /\ Resident \subseteq Experts
  BY ArenaShape
<1>5. n < Slots /\ s \in 0 .. n /\ Occupied = (0 .. n) \ {s}
  BY <1>3 DEF ArenaInv, MapInv
<1>6. /\ ins'.pc = "table" /\ ins'.expert = e /\ ins'.slot = s /\ ins'.evicted = ins.evicted
      /\ ins' \in [pc : {"none", "copy", "map", "table", "entry"}, expert : Experts \cup {None},
                   slot : SlotIds \cup {Absent}, evicted : Experts \cup {None},
                   left : SUBSET Names]
      /\ ~ Copying'
  BY <1>1, <1>2 DEF Copying
<1>7. /\ slot' \in [Experts -> SlotIds \cup {Absent}] /\ slot'[e] = s
      /\ \A x \in Experts \ {e} : slot'[x] = slot[x]
  BY <1>1, <1>2, <1>3
<1>8. /\ order' \in Seq(Experts) /\ IsInjective(order') /\ Range(order') = Range(order) \cup {e}
      /\ Len(order') = n + 1
      /\ \A j \in 1 .. n : order'[j] = order[j]
      /\ order'[n + 1] = e
  BY <1>1, <1>3, <1>4, AppendFacts DEF Resident
<1>9. Resident' = Resident \cup {e}
  BY <1>8 DEF Resident
<1> HIDE DEF e, s, n
<1>10. ArenaTypeOK'
  BY <1>1, <1>6, <1>7, <1>8 DEF ArenaInv, ArenaTypeOK
<1>11. Occupied' = Occupied \cup {s}
  BY <1>3, <1>4, <1>7, <1>9 DEF Occupied
<1>12. MapInv'
  <2>1. s \notin Occupied
    BY <1>5
  <2>2. \A x \in Resident : slot[x] \in Occupied
    BY DEF Occupied
  <2>3. \A x, y \in Resident' : slot'[x] = slot'[y] => x = y
    BY <2>1, <2>2, <1>3, <1>4, <1>7, <1>9 DEF ArenaInv, MapInv
  <2>4. Occupied' = 0 .. (n + 1) - 1
    BY <1>4, <1>5, <1>11
  <2>5. n + 1 <= Slots /\ h' = Slots
    BY <1>1, <1>3, <1>4, <1>5, ArenaConstants
  <2> QED BY <2>3, <2>4, <2>5, <1>6, <1>8 DEF MapInv
<1>13. InsertInv'
  BY <1>1, <1>3, <1>6, <1>7, <1>9 DEF InsertInv
<1>14. BufInv'
  <2>1. \A m \in Names : bufs[s][m] = e
    BY <1>3 DEF ArenaInv, BufInv, s, e
  <2> QED BY <2>1, <1>1, <1>3, <1>4, <1>6, <1>7, <1>9 DEF ArenaInv, BufInv
<1>15. TableInv'
  <2>1. ASSUME NEW x \in Experts \ {e, ins.evicted}
        PROVE  table'[x] = IF x \in Resident' THEN slot'[x] ELSE Absent
    BY <2>1, <1>1, <1>7, <1>9 DEF ArenaInv, TableInv, e
  <2> QED BY <2>1, <1>6 DEF TableInv
<1>16. ForwardInv'
  <2>1. Resolved = DOMAIN got /\ Resolved' = DOMAIN got \cup {e}
    BY <1>1, <1>6 DEF Resolved
  <2>2. ASSUME NEW x \in DOMAIN got'  PROVE x \in Resident' /\ got'[x] = slot'[x]
    <3>1. x \in Resident /\ got[x] = slot[x]
      BY <2>2, <1>1 DEF ArenaInv, ForwardInv
    <3> QED BY <3>1, <1>1, <1>3, <1>4, <1>7, <1>9
  <2>3. DOMAIN order' = 1 .. n + 1
    BY <1>8, LenProperties
  <2>4. ASSUME NEW i \in 1 .. n + 1, NEW j \in 1 .. n + 1, i < j, order'[i] \in Resolved'
        PROVE  order'[j] \in Resolved'
    <3>1. CASE j = n + 1
      BY <3>1, <1>8, <2>1
    <3>2. CASE j # n + 1
      <4>1. i \in 1 .. n /\ j \in 1 .. n
        BY <3>2, <2>4, <1>4
      <4>2. order[i] \in Resident
        BY <4>1, ArenaShape DEF n
      <4>3. order[i] \in Resolved
        BY <4>1, <4>2, <1>3, <1>8, <2>1, <2>4
      <4>4. order[j] \in Resolved
        BY <4>1, <4>3, <1>4, <2>4 DEF ArenaInv, ForwardInv
      <4> QED BY <4>1, <4>4, <1>8, <2>1
    <3> QED BY <3>1, <3>2
  <2> QED BY <1>1, <2>2, <2>3, <2>4 DEF ArenaInv, ForwardInv
<1> QED BY <1>10, <1>12, <1>13, <1>14, <1>15, <1>16 DEF ArenaInv

\* The evicted expert leaves the table.
LEMMA TableEvictSound == ArenaInv /\ TableEvict => ArenaInv'
<1> SUFFICES ASSUME ArenaInv, TableEvict PROVE ArenaInv'
  OBVIOUS
<1>1. /\ ins.pc = "table" /\ ins' = [ins EXCEPT !.pc = "entry"]
      /\ table' = [x \in Experts |-> IF x = ins.evicted THEN Absent ELSE table[x]]
      /\ UNCHANGED <<h, order, slot, bufs, wanted, got, interrupts>>
  BY DEF TableEvict, mapVars, fwdVars
<1>2. ins \in [pc : {"none", "copy", "map", "table", "entry"}, expert : Experts \cup {None},
               slot : SlotIds \cup {Absent}, evicted : Experts \cup {None},
               left : SUBSET Names]
  BY DEF ArenaInv, ArenaTypeOK
<1>3. /\ ins'.pc = "entry" /\ ins'.expert = ins.expert /\ ins'.slot = ins.slot
      /\ ins'.evicted = ins.evicted
      /\ ins' \in [pc : {"none", "copy", "map", "table", "entry"}, expert : Experts \cup {None},
                   slot : SlotIds \cup {Absent}, evicted : Experts \cup {None},
                   left : SUBSET Names]
      /\ ~ Copying /\ ~ Copying'
  BY <1>1, <1>2 DEF Copying
<1>4. Resident' = Resident /\ Occupied' = Occupied
  BY <1>1 DEF Resident, Occupied
<1>5. ArenaTypeOK'
  BY <1>1, <1>3 DEF ArenaInv, ArenaTypeOK
<1>6. MapInv' /\ BufInv'
  BY <1>1, <1>3, <1>4 DEF ArenaInv, MapInv, BufInv
<1>7. InsertInv'
  BY <1>1, <1>3, <1>4 DEF ArenaInv, InsertInv
<1>8. TableInv'
  BY <1>1, <1>3, <1>4 DEF ArenaInv, TableInv
<1>9. ForwardInv'
  <2>1. Resolved' = Resolved
    BY <1>1, <1>3 DEF Resolved
  <2> QED BY <1>1, <1>4, <2>1 DEF ArenaInv, ForwardInv
<1> QED BY <1>5, <1>6, <1>7, <1>8, <1>9 DEF ArenaInv

\* insert returns with the table in step, and the forward has its slot.
LEMMA InsertTableSound == ArenaInv /\ InsertTable => ArenaInv'
<1> SUFFICES ASSUME ArenaInv, InsertTable PROVE ArenaInv'
  OBVIOUS
<1> USE DEF mapVars
<1> DEFINE e == ins.expert
           s == ins.slot
<1>1. /\ ins.pc = "entry" /\ ins' = NoInsert /\ wanted' = wanted \ {e}
      /\ table' = [table EXCEPT ![e] = s]
      /\ got' = [x \in DOMAIN got \cup {e} |-> IF x = e THEN s ELSE got[x]]
      /\ UNCHANGED <<h, order, slot, bufs, interrupts>>
  BY DEF InsertTable
<1>2. /\ e \in wanted /\ e \in Experts /\ s \in SlotIds /\ e \in Resident /\ slot[e] = s
      /\ ins.evicted \notin Resident \cup {e} /\ ~ Copying
  BY <1>1 DEF ArenaInv, ArenaTypeOK, InsertInv, Copying
<1>3. ins'.pc = "none" /\ ins'.expert = None /\ ins'.evicted = None /\ ~ Copying'
  BY <1>1 DEF NoInsert, Copying
<1>4. /\ DOMAIN got' = DOMAIN got \cup {e} /\ got'[e] = s
      /\ \A x \in DOMAIN got \ {e} : got'[x] = got[x]
  BY <1>1
<1>5. Resident' = Resident /\ Occupied' = Occupied
  BY <1>1 DEF Resident, Occupied
<1>6. e \notin DOMAIN got
  BY <1>2 DEF ArenaInv, ForwardInv
<1> HIDE DEF e, s
<1>7. ArenaTypeOK'
  <2>1. DOMAIN got' \subseteq Experts /\ \A x \in DOMAIN got' : got'[x] \in SlotIds
    BY <1>2, <1>4 DEF ArenaInv, ArenaTypeOK
  <2>2. table' \in [Experts -> SlotIds \cup {Absent}]
    BY <1>1, <1>2 DEF ArenaInv, ArenaTypeOK
  <2>3. ins' \in [pc : {"none", "copy", "map", "table", "entry"}, expert : Experts \cup {None},
                  slot : SlotIds \cup {Absent}, evicted : Experts \cup {None},
                  left : SUBSET Names]
    BY <1>1 DEF NoInsert
  <2> QED BY <1>1, <2>1, <2>2, <2>3 DEF ArenaInv, ArenaTypeOK
<1>8. MapInv' /\ BufInv'
  BY <1>1, <1>2, <1>3, <1>5 DEF ArenaInv, MapInv, BufInv
<1>9. InsertInv'
  BY <1>1, <1>3 DEF InsertInv
<1>12. table \in [Experts -> SlotIds \cup {Absent}]
  BY DEF ArenaInv, ArenaTypeOK
<1>10. TableInv'
  <2> SUFFICES ASSUME NEW x \in Experts
               PROVE  table'[x] = IF x \in Resident THEN slot[x] ELSE Absent
    BY <1>1, <1>3, <1>5 DEF TableInv
  <2>1. CASE x = e
    BY <2>1, <1>1, <1>2, <1>12
  <2>2. CASE x # e /\ x = ins.evicted
    BY <2>2, <1>1, <1>2, <1>12 DEF ArenaInv, TableInv
  <2>3. CASE x # e /\ x # ins.evicted
    BY <2>3, <1>1, <1>12 DEF ArenaInv, TableInv, e
  <2> QED BY <2>1, <2>2, <2>3
<1>11. ForwardInv'
  <2>1. Resolved = DOMAIN got \cup {e} /\ Resolved' = DOMAIN got \cup {e}
    BY <1>1, <1>3, <1>4 DEF Resolved, e
  <2>2. DOMAIN got' \cup wanted' = DOMAIN got \cup wanted /\ DOMAIN got' \cap wanted' = {}
    BY <1>1, <1>2, <1>4 DEF ArenaInv, ForwardInv
  <2>3. ASSUME NEW x \in DOMAIN got'  PROVE x \in Resident' /\ got'[x] = slot'[x]
    BY <2>3, <1>1, <1>2, <1>4, <1>5 DEF ArenaInv, ForwardInv
  <2> QED BY <1>1, <2>1, <2>2, <2>3 DEF ArenaInv, ForwardInv
<1> QED BY <1>7, <1>8, <1>9, <1>10, <1>11 DEF ArenaInv

\* No step breaks the invariant.
LEMMA ArenaStepSound == ArenaInv /\ [ArenaNext]_arenaVars => ArenaInv'
<1> SUFFICES ASSUME ArenaInv, [ArenaNext]_arenaVars PROVE ArenaInv'
  OBVIOUS
<1>1. CASE UNCHANGED arenaVars
  BY <1>1 DEF arenaVars, ArenaInv, ArenaTypeOK, MapInv, InsertInv, BufInv, TableInv, ForwardInv,
              Copying, Occupied, Resident, Resolved
<1>2. CASE SizedElsewhere \/ ForwardStart \/ Bootstrap
  BY <1>2, SizedElsewhereSound, ForwardStartSound, BootstrapSound
<1>3. CASE \E e \in Experts : LookupHit(e) \/ InsertPick(e)
  BY <1>3, LookupHitSound, InsertPickSound
<1>4. CASE InsertCopy \/ InsertMap \/ TableEvict \/ InsertTable
  BY <1>4, InsertCopySound, InsertMapSound, TableEvictSound, InsertTableSound
<1> QED BY <1>1, <1>2, <1>3, <1>4 DEF ArenaNext

-----------------------------------------------------------------------------
\* The invariant holds as long as no insert is interrupted.
THEOREM ArenaInvariant == ArenaSpec => []ArenaInv
<1> QED BY ArenaInitSound, ArenaStepSound, PTL DEF ArenaSpec

\* The types of the arena's state (DecodeArena of cache.py).
THEOREM ArenaTyped == ArenaSpec => []ArenaTypeOK
<1>1. ArenaInv => ArenaTypeOK
  BY DEF ArenaInv
<1> QED BY <1>1, ArenaInvariant, PTL

\* Resident experts have slots of their own that hold all of their tensors
\* (DecodeArena.insert).
THEOREM ArenaSlots == ArenaSpec => []SlotsSound
<1>1. ArenaInv => SlotsSound
  <2> SUFFICES ASSUME ArenaInv, ins.pc = "none" PROVE SlotsSound
    BY DEF SlotsSound
  <2>1. ASSUME NEW e \in Resident  PROVE slot[e] \in SlotIds
    <3>1. slot[e] \in 0 .. Len(order) - 1
      BY DEF ArenaInv, MapInv, Occupied, Copying
    <3> QED BY <3>1, ArenaShape, ArenaConstants DEF SlotIds
  <2> QED BY <2>1, ArenaShape DEF SlotsSound, ArenaInv, MapInv, BufInv
<1> QED BY <1>1, ArenaInvariant, PTL

\* The GPU's slot table says what the map says (slot_tables).
THEOREM ArenaMirror == ArenaSpec => []TableMirrors
<1>1. ArenaInv => TableMirrors
  <2> SUFFICES ASSUME ArenaInv, ins.pc = "none" PROVE TableMirrors
    BY DEF TableMirrors
  <2>1. ins.expert = None /\ ins.evicted = None
    BY DEF ArenaInv, InsertInv, NoInsert
  <2> QED BY <2>1, ArenaConstants DEF TableMirrors, ArenaInv, TableInv
<1> QED BY <1>1, ArenaInvariant, PTL

\* Every forward gathers the experts it was routed to, for every number of
\* slots that takes the experts of a token (StreamedSwitchGLU.__call__).
THEOREM ArenaGather == ArenaSpec => []GatherSound
<1>1. ArenaInv => GatherSound
  BY DEF GatherSound, ArenaInv, ForwardInv, BufInv
<1> QED BY <1>1, ArenaInvariant, PTL
=============================================================================

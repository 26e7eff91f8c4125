----------------------------- MODULE DecodeArena -----------------------------
(***************************************************************************)
(* One layer of the decode arena (cache.py, DecodeArena) and of the decode *)
(* path that uses it (model.py, StreamedSwitchGLU.__call__ 186-206): the   *)
(* routed experts of a forward are resolved one by one to slots of the     *)
(* layer's stacked buffers, then one gather addresses them by slot.        *)
(*                                                                         *)
(* All of it runs on the decode thread, so the steps of insert interleave  *)
(* with nothing but Ctrl+C, after which the chat session goes on.          *)
(* Where the arrays of an expert come from is ExpertStream's business.     *)
(***************************************************************************)
EXTENDS Integers, SequencesExt

CONSTANTS Experts,        \* experts of the layer
          Slots,          \* h once sized: max(8, budget) in the code
          TopK,           \* experts per token
          MaxInterrupts,  \* bound: how often Ctrl+C hits an insert
          None            \* no expert

ASSUME ArenaConstants ==
    /\ Slots \in Nat \ {0} /\ TopK \in Nat \ {0} /\ MaxInterrupts \in Nat
    /\ None \notin Experts /\ IsFiniteSet(Experts)

\* What the single-token path relies on and does not check: h is at least 8 and
\* in practice far above the experts per token.
ASSUME TokenFits == TopK <= Slots

\* An insert copies several tensors; two of them show a copy cut in the middle.
Names == {"gateup", "down"}
SlotIds == 0 .. Slots - 1
Absent == -1

VARIABLES h,          \* slots per layer, 0 until the first insert of any layer
          order,      \* maps[layer]: its experts, least recently used first
          slot,       \* maps[layer]: the slot of each of those experts
          bufs,       \* slot -> name -> expert whose tensor was copied last
          table,      \* slot_tables[layer]: expert -> slot or -1
          ins,        \* the insert in progress: [pc, expert, slot, evicted, left]
          wanted,     \* unique experts of the forward still to resolve
          got,        \* expert -> slot resolved for the forward
          interrupts  \* Ctrl+C so far

mapVars == <<order, slot>>
fwdVars == <<wanted, got>>
arenaVars == <<h, order, slot, bufs, table, ins, wanted, got, interrupts>>

Resident == Range(order)
NoSlots == [e \in {} |-> Absent]
NoInsert == [pc |-> "none", expert |-> None, slot |-> Absent, evicted |-> None, left |-> {}]

ArenaInit ==
    /\ h = 0 /\ order = <<>> /\ interrupts = 0
    /\ slot = [e \in Experts |-> Absent]
    /\ bufs = [s \in SlotIds |-> [n \in Names |-> None]]
    /\ table = [e \in Experts |-> Absent]
    /\ ins = NoInsert
    /\ wanted = {} /\ got = NoSlots

-----------------------------------------------------------------------------
\* Another layer's first insert sizes the whole arena.
SizedElsewhere ==
    /\ h = 0 /\ ins.pc = "none" /\ wanted = {}
    /\ h' = Slots
    /\ UNCHANGED <<mapVars, bufs, table, ins, fwdVars, interrupts>>

\* A forward routes a set of unique experts.  With h = 0 the first expert is
\* resolved alone to size the arena; then a single token always takes the arena
\* path, several tokens only when their experts fill at most half the slots.
\* got keeps the last forward's slots until the next one starts.
Fits(S, tokens) == tokens = 1 \/ 2 * Cardinality(S) <= h

ForwardStart ==
    /\ h > 0 /\ ins.pc = "none" /\ wanted = {}
    /\ \E S \in SUBSET Experts \ {{}} :
         /\ \/ Cardinality(S) = TopK /\ Fits(S, 1)
            \/ Cardinality(S) >= TopK /\ Fits(S, 2)
         /\ wanted' = S
    /\ got' = NoSlots
    /\ UNCHANGED <<h, mapVars, bufs, table, ins, interrupts>>

Bootstrap ==
    /\ h = 0 /\ ins.pc = "none" /\ wanted = {}
    /\ \E e \in Experts : wanted' = {e}
    /\ UNCHANGED <<h, mapVars, bufs, table, ins, got, interrupts>>

\* Fault: a hit does not make the expert recent.
LookupHitFifo(e) ==
    /\ ins.pc = "none" /\ e \in wanted /\ e \in Resident
    /\ got' = [x \in DOMAIN got \cup {e} |-> IF x = e THEN slot[e] ELSE got[x]]
    /\ wanted' = wanted \ {e}
    /\ UNCHANGED <<h, order, slot, bufs, table, ins, interrupts>>

\* _expert_slot: lookup hits and moves the expert to the end of the order.
LookupHit(e) ==
    /\ ins.pc = "none" /\ e \in wanted
    /\ \E i \in DOMAIN order : order[i] = e /\ order' = Append(RemoveAt(order, i), e)
    /\ got' = [x \in DOMAIN got \cup {e} |-> IF x = e THEN slot[e] ELSE got[x]]
    /\ wanted' = wanted \ {e}
    /\ UNCHANGED <<h, slot, bufs, table, ins, interrupts>>

\* The insert of e into slot s of the map, after v (or None) left the map.
Inserting(e, s, v) == [pc |-> "copy", expert |-> e, slot |-> s, evicted |-> v, left |-> Names]

\* Fault: one expert too many before the first eviction.
InsertPickLate(e) ==
    /\ ins.pc = "none" /\ e \in wanted /\ e \notin Resident
    /\ h' = Slots
    /\ \/ Len(order) <= h' /\ ins' = Inserting(e, Len(order), None) /\ UNCHANGED order
       \/ /\ Len(order) > h'
          /\ ins' = Inserting(e, slot[Head(order)], Head(order))
          /\ order' = Tail(order)
    /\ UNCHANGED <<slot, bufs, table, fwdVars, interrupts>>

\* Fault: the slot is counted after the eviction instead of taken from it.
InsertPickCounted(e) ==
    /\ ins.pc = "none" /\ e \in wanted /\ e \notin Resident
    /\ h' = Slots
    /\ \/ Len(order) < h' /\ ins' = Inserting(e, Len(order), None) /\ UNCHANGED order
       \/ /\ Len(order) >= h'
          /\ ins' = Inserting(e, Len(order) - 1, Head(order))
          /\ order' = Tail(order)
    /\ UNCHANGED <<slot, bufs, table, fwdVars, interrupts>>

\* insert: the slot of the new expert, which is len(m) while that is below h,
\* else the slot of the least recently used expert, which leaves the map first.
InsertPick(e) ==
    /\ ins.pc = "none" /\ e \in wanted /\ e \notin Resident
    /\ h' = Slots
    /\ \/ Len(order) < h' /\ ins' = Inserting(e, Len(order), None) /\ UNCHANGED order
       \/ /\ Len(order) >= h'
          /\ ins' = Inserting(e, slot[Head(order)], Head(order))
          /\ order' = Tail(order)
    /\ UNCHANGED <<slot, bufs, table, fwdVars, interrupts>>

\* bufs[name][slot] = a, one tensor after the other.
InsertCopy ==
    /\ ins.pc = "copy"
    /\ \E n \in ins.left :
         /\ bufs' = [bufs EXCEPT ![ins.slot][n] = ins.expert]
         /\ ins' = [ins EXCEPT !.left = @ \ {n},
                               !.pc = IF ins.left = {n} THEN "map" ELSE "copy"]
    /\ UNCHANGED <<h, mapVars, table, fwdVars, interrupts>>

\* m[expert] = slot.
InsertMap ==
    /\ ins.pc = "map"
    /\ order' = Append(order, ins.expert)
    /\ slot' = [slot EXCEPT ![ins.expert] = ins.slot]
    /\ ins' = [ins EXCEPT !.pc = "table"]
    /\ UNCHANGED <<h, bufs, table, fwdVars, interrupts>>

\* Fault: the evicted expert keeps its entry in the GPU's table.
TableEvictKept ==
    /\ ins.pc = "table"
    /\ ins' = [ins EXCEPT !.pc = "entry"]
    /\ UNCHANGED <<h, mapVars, bufs, table, fwdVars, interrupts>>

\* The slot table follows: first the evicted expert loses its entry.
TableEvict ==
    /\ ins.pc = "table"
    /\ table' = [x \in Experts |-> IF x = ins.evicted THEN Absent ELSE table[x]]
    /\ ins' = [ins EXCEPT !.pc = "entry"]
    /\ UNCHANGED <<h, mapVars, bufs, fwdVars, interrupts>>

\* Then the new one gets the slot, insert returns and the forward has its slot.
InsertTable ==
    /\ ins.pc = "entry"
    /\ table' = [table EXCEPT ![ins.expert] = ins.slot]
    /\ got' = [x \in DOMAIN got \cup {ins.expert} |->
                 IF x = ins.expert THEN ins.slot ELSE got[x]]
    /\ wanted' = wanted \ {ins.expert}
    /\ ins' = NoInsert
    /\ UNCHANGED <<h, mapVars, bufs, interrupts>>

\* Ctrl+C between two statements of insert: the forward is gone, what insert
\* has done stays, and the next turn of the chat uses the same arena.
Interrupt ==
    /\ ins.pc # "none" /\ interrupts < MaxInterrupts
    /\ interrupts' = interrupts + 1
    /\ ins' = NoInsert /\ wanted' = {} /\ got' = NoSlots
    /\ UNCHANGED <<h, mapVars, bufs, table>>

ArenaNext ==
    \/ SizedElsewhere \/ ForwardStart \/ Bootstrap
    \/ \E e \in Experts : LookupHit(e) \/ InsertPick(e)
    \/ InsertCopy \/ InsertMap \/ TableEvict \/ InsertTable

\* Generation never interrupted, and generation under a user with Ctrl+C.
ArenaSpec == ArenaInit /\ [][ArenaNext]_arenaVars
ArenaSpecInterrupted == ArenaInit /\ [][ArenaNext \/ Interrupt]_arenaVars

-----------------------------------------------------------------------------
\* Types of the arena's state.
ArenaTypeOK ==
    /\ h \in {0, Slots} /\ interrupts \in 0 .. MaxInterrupts
    /\ order \in Seq(Experts)
    /\ slot \in [Experts -> SlotIds \cup {Absent}]
    /\ bufs \in [SlotIds -> [Names -> Experts \cup {None}]]
    /\ table \in [Experts -> SlotIds \cup {Absent}]
    /\ ins \in [pc : {"none", "copy", "map", "table", "entry"}, expert : Experts \cup {None},
                slot : SlotIds \cup {Absent}, evicted : Experts \cup {None},
                left : SUBSET Names]
    /\ wanted \subseteq Experts
    /\ DOMAIN got \subseteq Experts /\ \A e \in DOMAIN got : got[e] \in SlotIds

\* Whenever no insert is under way, the resident experts have slots of their
\* own and each slot's buffers hold all the tensors of its expert.
SlotsSound ==
    ins.pc = "none" =>
        /\ IsInjective(order) /\ Len(order) <= Slots
        /\ \A e, f \in Resident : slot[e] = slot[f] => e = f
        /\ \A e \in Resident : slot[e] \in SlotIds /\ \A n \in Names : bufs[slot[e]][n] = e

\* The GPU mirror agrees with the map whenever no insert is under way: a draft
\* never gathers a slot for an expert that is not there.
TableMirrors ==
    ins.pc = "none" =>
        \A e \in Experts : table[e] = IF e \in Resident THEN slot[e] ELSE Absent

\* The gather of a forward reads, for each expert it was routed to, that
\* expert's tensors: what is inserted later in the same forward takes no slot
\* away ("tutti gli esperti unici devono poter risiedere simultaneamente negli
\* slot senza sfrattarsi a vicenda", model.py:191-192).
GatherSound ==
    ins.pc = "none" =>
        \A e \in DOMAIN got : \A n \in Names : bufs[got[e]][n] = e
=============================================================================

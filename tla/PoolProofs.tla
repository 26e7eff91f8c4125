----------------------------- MODULE PoolProofs -----------------------------
(***************************************************************************)
(* Proofs about IOPool and about ExpertStream, which runs over it, for     *)
(* every set of keys and workers, every sizes and priorities: in_flight    *)
(* has exactly one owner per key (or none, when Ctrl+C cut the enqueue),   *)
(* the filler's backlog stays bounded, and an expert that was moved to the *)
(* arena takes no LRU budget.                                              *)
(***************************************************************************)
EXTENDS ExpertStream, ExpertCacheProofs

Entry == [key : Keys, prio : Prios \cup {0}, tier : Tiers]

PoolShape ==
    /\ q \in Seq(Entry)
    /\ inFlight \subseteq Keys /\ batch \subseteq Keys /\ abandoned \subseteq Keys
    /\ stopped \in BOOLEAN
    /\ wk \in [Workers ->
          [pc : {"get", "check", "put", "finish", "raise", "exited", "dead"},
           key : Keys \cup {NoKey}, tier : Tiers]]
    /\ en \in [Clients ->
          [pc : {"idle", "claimed", "queue", "unclaim"},
           key : Keys \cup {NoKey}, prio : Prios \cup {0}, tier : Tiers]]

\* What a thread inside enqueue, and a worker with a job, hold: a real key, and
\* the priority of its client.
Requests ==
    /\ \A w \in Workers : Busy(w) => wk[w].key \in Keys
    /\ \A c \in Clients : en[c].pc # "idle" => en[c].key \in Keys
    /\ en["decode"].pc # "idle" => en["decode"].prio \in Prios
    /\ en["filler"].prio = 0

PoolInv == CacheInv /\ PoolShape /\ Requests /\ InFlightOwned /\ FillerBounded

-----------------------------------------------------------------------------
(* The queue.                                                              *)

Distinct == \A i, j \in DOMAIN q : q[i].key = q[j].key => i = j
FillerQueued == {i \in DOMAIN q : q[i].prio = 0}

LEMMA QueueFinite ==
    ASSUME q \in Seq(Entry)
    PROVE  /\ Len(q) \in Nat /\ DOMAIN q = 1 .. Len(q)
           /\ \A i \in 1 .. Len(q) : q[i] \in Entry
           /\ IsFiniteSet(FillerQueued) /\ Cardinality(FillerQueued) \in Nat
           /\ Cardinality(FillerQueued) <= Len(q)
<1>1. /\ Len(q) \in Nat /\ DOMAIN q = 1 .. Len(q)
      /\ \A i \in 1 .. Len(q) : q[i] \in Entry
  BY LenProperties, ElementOfSeq
<1>2. IsFiniteSet(1 .. Len(q)) /\ Cardinality(1 .. Len(q)) = Len(q)
  <2>1. Len(q) \in Nat
    BY <1>1
  <2> QED BY <2>1, FS_Interval
<1>3. FillerQueued \in SUBSET (1 .. Len(q))
  BY <1>1 DEF FillerQueued
<1>4. IsFiniteSet(FillerQueued) /\ Cardinality(FillerQueued) <= Cardinality(1 .. Len(q))
  BY <1>2, <1>3, FS_Subset
<1>5. Cardinality(FillerQueued) \in Nat
  BY <1>4, FS_CardinalityType
<1> QED BY <1>1, <1>2, <1>4, <1>5

\* q.put adds one request at the end.
LEMMA QueuePut ==
    ASSUME q \in Seq(Entry), Distinct, NEW e \in Entry, e.key \notin QueuedKeys,
           q' = Append(q, e)
    PROVE  /\ q' \in Seq(Entry)
           /\ QueuedKeys' = QueuedKeys \cup {e.key}
           /\ Distinct'
           /\ Cardinality(FillerQueued') =
                Cardinality(FillerQueued) + IF e.prio = 0 THEN 1 ELSE 0
<1>1. /\ Len(q) \in Nat /\ DOMAIN q = 1 .. Len(q)
      /\ \A i \in 1 .. Len(q) : q[i] \in Entry
      /\ IsFiniteSet(FillerQueued) /\ Cardinality(FillerQueued) \in Nat
  BY QueueFinite
<1>2. /\ q' \in Seq(Entry) /\ Len(q') = Len(q) + 1
      /\ \A j \in 1 .. Len(q) : q'[j] = q[j]
      /\ q'[Len(q) + 1] = e
  BY AppendProperties
<1>3. DOMAIN q' = 1 .. Len(q) + 1
  BY <1>2, LenProperties
<1>4. \A j \in 1 .. Len(q) + 1 : j \in 1 .. Len(q) \/ j = Len(q) + 1
  BY <1>1
<1>5. QueuedKeys' = QueuedKeys \cup {e.key}
  BY <1>1, <1>2, <1>3, <1>4 DEF QueuedKeys
<1>6. Distinct'
  BY <1>1, <1>2, <1>3, <1>4 DEF QueuedKeys, Distinct
<1>7. FillerQueued' = IF e.prio = 0 THEN FillerQueued \cup {Len(q) + 1} ELSE FillerQueued
  BY <1>1, <1>2, <1>3, <1>4 DEF FillerQueued
<1>8. Len(q) + 1 \notin FillerQueued
  BY <1>1 DEF FillerQueued
<1>9. Cardinality(FillerQueued \cup {Len(q) + 1}) = Cardinality(FillerQueued) + 1
  BY <1>1, <1>8, FS_AddElement
<1> QED BY <1>1, <1>2, <1>5, <1>6, <1>7, <1>9

\* q.get takes one request out, whichever it is.
LEMMA QueueTake ==
    ASSUME q \in Seq(Entry), Distinct, NEW i \in DOMAIN q, q' = RemoveAt(q, i)
    PROVE  /\ q' \in Seq(Entry)
           /\ q[i] \in Entry
           /\ QueuedKeys' = QueuedKeys \ {q[i].key}
           /\ Distinct'
           /\ Cardinality(FillerQueued') <= Cardinality(FillerQueued)
           /\ Cardinality(FillerQueued') \in Nat
<1>1. /\ Len(q) \in Nat /\ DOMAIN q = 1 .. Len(q)
      /\ \A j \in 1 .. Len(q) : q[j] \in Entry
      /\ IsFiniteSet(FillerQueued) /\ Cardinality(FillerQueued) \in Nat
  BY QueueFinite
<1>2. IsInjective(q)
  BY DEF IsInjective, Distinct
<1>3. /\ q' \in Seq(Entry) /\ Len(q') = Len(q) - 1
      /\ \A j \in 1 .. Len(q) - 1 : q'[j] = IF j < i THEN q[j] ELSE q[j + 1]
  BY <1>2, RemoveAtFacts
<1>4. DOMAIN q' = 1 .. Len(q) - 1
  BY <1>3, LenProperties
<1> DEFINE from(j) == IF j < i THEN j ELSE j + 1
<1>5. \A j \in 1 .. Len(q) - 1 : from(j) \in 1 .. Len(q) /\ from(j) # i /\ q'[j] = q[from(j)]
  BY <1>1, <1>3
<1>6. \A j, l \in 1 .. Len(q) - 1 : from(j) = from(l) => j = l
  BY <1>1
<1>7. \A m \in 1 .. Len(q) : m # i => \E j \in 1 .. Len(q) - 1 : from(j) = m
  <2> SUFFICES ASSUME NEW m \in 1 .. Len(q), m # i
               PROVE  \E j \in 1 .. Len(q) - 1 : from(j) = m
    OBVIOUS
  <2> DEFINE j == IF m < i THEN m ELSE m - 1
  <2>1. j \in 1 .. Len(q) - 1 /\ from(j) = m
    BY <1>1
  <2> QED BY <2>1
<1> HIDE DEF from
<1>8. QueuedKeys' = QueuedKeys \ {q[i].key}
  <2>1. QueuedKeys' = {q'[j].key : j \in 1 .. Len(q) - 1}
    BY <1>4 DEF QueuedKeys
  <2>2. QueuedKeys = {q[j].key : j \in 1 .. Len(q)}
    BY <1>1 DEF QueuedKeys
  <2>3. ASSUME NEW j \in 1 .. Len(q) - 1  PROVE q'[j].key \in QueuedKeys \ {q[i].key}
    BY <1>1, <1>5, <2>2 DEF Distinct
  <2>4. ASSUME NEW m \in 1 .. Len(q), q[m].key # q[i].key  PROVE q[m].key \in QueuedKeys'
    <3>1. PICK j \in 1 .. Len(q) - 1 : from(j) = m
      BY <1>7, <2>4
    <3> QED BY <3>1, <1>5, <2>1
  <2> QED BY <2>1, <2>2, <2>3, <2>4
<1>9. Distinct'
  BY <1>1, <1>4, <1>5, <1>6 DEF Distinct
<1>10. Cardinality(FillerQueued') <= Cardinality(FillerQueued) /\ Cardinality(FillerQueued') \in Nat
  <2> DEFINE f == [j \in FillerQueued' |-> from(j)]
  <2>1. \A j \in FillerQueued' : j \in 1 .. Len(q) - 1 /\ from(j) \in FillerQueued
    BY <1>1, <1>4, <1>5 DEF FillerQueued
  <2>2. f \in Injection(FillerQueued', FillerQueued)
    <3>1. f \in [FillerQueued' -> FillerQueued]
      BY <2>1
    <3>2. \A j, l \in FillerQueued' : f[j] = f[l] => j = l
      BY <2>1, <1>6
    <3> QED BY <3>1, <3>2 DEF Injection, IsInjective
  <2>3. IsFiniteSet(FillerQueued') /\ Cardinality(FillerQueued') <= Cardinality(FillerQueued)
    BY <2>2, <1>1, FS_Injection
  <2> QED BY <2>3, FS_CardinalityType
<1> QED BY <1>1, <1>3, <1>8, <1>9, <1>10

-----------------------------------------------------------------------------
(* The three kinds of owners of a key in flight.                           *)

\* A client that is not inside enqueue claims a key.
LEMMA ClaimOwner ==
    ASSUME PoolShape, NEW c \in Clients, en[c].pc = "idle", NEW r, r.pc = "claimed",
           en' = [en EXCEPT ![c] = r]
    PROVE  ClaimedKeys' = ClaimedKeys \cup {r.key}
<1>1. \A d \in Clients : en'[d] = IF d = c THEN r ELSE en[d]
  BY DEF PoolShape
<1>2. \A d \in Clients : en'[d].pc # "idle" <=> d = c \/ en[d].pc # "idle"
  BY <1>1
<1> QED BY <1>1, <1>2 DEF ClaimedKeys

\* A client inside enqueue goes on there with its key.
LEMMA KeepOwner ==
    ASSUME PoolShape, NEW c \in Clients, en[c].pc # "idle", NEW pc, pc # "idle",
           en' = [en EXCEPT ![c].pc = pc]
    PROVE  ClaimedKeys' = ClaimedKeys
<1>1. \A d \in Clients : en'[d].key = en[d].key
  BY DEF PoolShape
<1>2. \A d \in Clients : en'[d].pc # "idle" <=> en[d].pc # "idle"
  BY DEF PoolShape
<1> QED BY <1>1, <1>2 DEF ClaimedKeys

\* A client leaves enqueue: its key, which no other client has, is no longer
\* its own.
LEMMA ReleaseOwner ==
    ASSUME PoolShape, InFlightOwned, NEW c \in Clients, en[c].pc # "idle",
           en' = [en EXCEPT ![c] = Idle]
    PROVE  /\ ClaimedKeys' = ClaimedKeys \ {en[c].key}
           /\ en[c].key \in ClaimedKeys
<1>1. \A d \in Clients : en'[d] = IF d = c THEN Idle ELSE en[d]
  BY DEF PoolShape
<1>2. \A d \in Clients : d # c /\ en[d].pc # "idle" => en[d].key # en[c].key
  BY DEF InFlightOwned, Clients
<1>3. Idle.pc = "idle"
  BY DEF Idle
<1> QED BY <1>1, <1>2, <1>3 DEF ClaimedKeys

\* A worker takes a job.
LEMMA JobOwner ==
    ASSUME PoolShape, NEW w \in Workers, ~ Busy(w), NEW r, r.pc = "check",
           wk' = [wk EXCEPT ![w] = r]
    PROVE  WorkerKeys' = WorkerKeys \cup {r.key}
<1>1. \A v \in Workers : wk'[v] = IF v = w THEN r ELSE wk[v]
  BY DEF PoolShape
<1> QED BY <1>1 DEF WorkerKeys, Busy

\* A worker goes on with its job.
LEMMA KeepJob ==
    ASSUME PoolShape, NEW w \in Workers, Busy(w), NEW pc,
           pc \in {"check", "put", "finish", "raise"},
           wk' = [wk EXCEPT ![w].pc = pc]
    PROVE  /\ WorkerKeys' = WorkerKeys
           /\ \A v \in Workers : wk'[v].key = wk[v].key /\ (Busy(v)' <=> Busy(v))
<1>1. \A v \in Workers : wk'[v].key = wk[v].key
  BY DEF PoolShape
<1>2. \A v \in Workers : Busy(v)' <=> Busy(v)
  BY DEF PoolShape, Busy
<1> QED BY <1>1, <1>2 DEF WorkerKeys

\* A worker ends its job.
LEMMA EndJob ==
    ASSUME PoolShape, InFlightOwned, NEW w \in Workers, Busy(w), NEW r,
           r.pc = "get" \/ r.pc = "exited" \/ r.pc = "dead",
           wk' = [wk EXCEPT ![w] = r]
    PROVE  /\ WorkerKeys' = WorkerKeys \ {wk[w].key}
           /\ wk[w].key \in WorkerKeys
<1>1. \A v \in Workers : wk'[v] = IF v = w THEN r ELSE wk[v]
  BY DEF PoolShape
<1>2. \A v \in Workers : v # w /\ Busy(v) => wk[v].key # wk[w].key
  BY DEF InFlightOwned
<1>3. \A v \in Workers : Busy(v)' <=> v # w /\ Busy(v)
  BY <1>1 DEF Busy
<1> QED BY <1>1, <1>2, <1>3 DEF WorkerKeys

-----------------------------------------------------------------------------
(* Every step of the threads, one conjunct of the invariant at a time.     *)

\* The steps of the threads inside the pool, one by one, as the next lemmas
\* split them.
PoolStep ==
    \/ \E c \in Clients : EnqueueCheck(c) \/ EnqueuePut(c) \/ EnqueueUnclaim(c)
    \/ \E w \in Workers : Take(w) \/ Exit(w) \/ WorkerCheck(w) \/ WorkerPut(w) \/ WorkerFinish(w)
    \/ FillerScan \/ FillerEnqueue \/ Stop \/ EnqueueInterrupted \/ DecodePrefetch

\* Types.
LEMMA ShapeStep ==
    ASSUME PoolInv, PoolStep \/ UNCHANGED poolVars
    PROVE  PoolShape' /\ Requests'
<1>0. /\ q \in Seq(Entry) /\ PoolShape /\ Requests /\ Distinct
      /\ Resting \in [pc : {"get"}, key : Keys \cup {NoKey}, tier : Tiers]
      /\ Idle \in [pc : {"idle"}, key : Keys \cup {NoKey}, prio : {0}, tier : Tiers]
      /\ "decode" \in Clients /\ "filler" \in Clients
  BY DEF PoolInv, PoolShape, InFlightOwned, Distinct, Resting, Idle, Tiers, Clients
<1>1. ASSUME NEW c \in Clients, EnqueueCheck(c)  PROVE PoolShape' /\ Requests'
  BY <1>0, <1>1 DEF EnqueueCheck, PoolShape, Requests, Busy, Clients
<1>2. ASSUME NEW c \in Clients, EnqueuePut(c)  PROVE PoolShape' /\ Requests'
  <2> DEFINE e == [key |-> en[c].key, prio |-> en[c].prio, tier |-> en[c].tier]
  <2>1. e \in Entry
    BY <1>0, <1>2 DEF EnqueuePut, Requests, PoolShape, Entry
  <2>2. q' \in Seq(Entry)
    BY <1>0, <1>2, <2>1, AppendProperties DEF EnqueuePut
  <2> QED BY <1>0, <1>2, <2>2 DEF EnqueuePut, PoolShape, Requests, Busy, Clients
<1>3. ASSUME NEW c \in Clients, EnqueueUnclaim(c)  PROVE PoolShape' /\ Requests'
  BY <1>0, <1>3 DEF EnqueueUnclaim, PoolShape, Requests, Busy, Clients
<1>4. ASSUME NEW w \in Workers, Take(w)  PROVE PoolShape' /\ Requests'
  <2>1. PICK i \in DOMAIN q :
          /\ wk' = [wk EXCEPT ![w] = [pc |-> "check", key |-> q[i].key, tier |-> q[i].tier]]
          /\ q' = RemoveAt(q, i)
    BY <1>4 DEF Take
  <2>2. q' \in Seq(Entry) /\ q[i] \in Entry
    BY <1>0, <2>1, QueueTake
  <2>3. q[i].key \in Keys /\ q[i].tier \in Tiers
    BY <2>2 DEF Entry
  <2> QED BY <1>0, <1>4, <2>1, <2>2, <2>3 DEF Take, PoolShape, Requests, Busy
<1>5. ASSUME NEW w \in Workers, Exit(w)  PROVE PoolShape' /\ Requests'
  BY <1>0, <1>5 DEF Exit, PoolShape, Requests, Busy
<1>6. ASSUME NEW w \in Workers, WorkerCheck(w)  PROVE PoolShape' /\ Requests'
  <2>1. PICK next \in {"finish", "put", "raise"} : wk' = [wk EXCEPT ![w].pc = next]
    BY <1>6 DEF WorkerCheck
  <2> QED BY <1>0, <1>6, <2>1 DEF WorkerCheck, PoolShape, Requests, Busy
<1>7. ASSUME NEW w \in Workers, WorkerPut(w)  PROVE PoolShape' /\ Requests'
  BY <1>0, <1>7 DEF WorkerPut, PoolShape, Requests, Busy
<1>8. ASSUME NEW w \in Workers, WorkerFinish(w)  PROVE PoolShape' /\ Requests'
  <2>1. PICK pc \in {"get", "exited", "dead"} : wk' = [wk EXCEPT ![w] = [Resting EXCEPT !.pc = pc]]
    BY <1>8 DEF WorkerFinish
  <2>2. [Resting EXCEPT !.pc = pc] = [pc |-> pc, key |-> NoKey, tier |-> FILLER]
    BY DEF Resting
  <2> QED BY <1>0, <1>8, <2>1, <2>2 DEF WorkerFinish, PoolShape, Requests, Busy, Tiers
<1>9. CASE FillerScan
  BY <1>0, <1>9 DEF FillerScan, Sample, PoolShape, Requests, Busy
<1>10. CASE FillerEnqueue
  BY <1>0, <1>10 DEF FillerEnqueue, Claim, PoolShape, Requests, Busy, Tiers, Clients
<1>11. CASE Stop
  BY <1>0, <1>11 DEF Stop, PoolShape, Requests, Busy
<1>12. CASE EnqueueInterrupted
  BY <1>0, <1>12 DEF EnqueueInterrupted, PoolShape, Requests, Busy, Clients
<1>13. CASE DecodePrefetch
  BY <1>0, <1>13 DEF DecodePrefetch, Claim, PoolShape, Requests, Busy, Tiers, Clients
<1>14. CASE UNCHANGED poolVars
  BY <1>0, <1>14 DEF poolVars, PoolShape, Requests, Busy
<1> QED BY <1>1, <1>2, <1>3, <1>4, <1>5, <1>6, <1>7, <1>8, <1>9, <1>10, <1>11, <1>12,
           <1>13, <1>14 DEF PoolStep

\* A claim: the key is in flight already, or it gets its one owner.
LEMMA ClaimOwned ==
    ASSUME PoolInv, NEW c \in Clients, NEW k \in Keys, NEW p, NEW t, Claim(c, k, p, t)
    PROVE  InFlightOwned'
<1>0. PoolShape /\ Requests /\ InFlightOwned
  BY DEF PoolInv
<1>1. /\ QueuedKeys' = QueuedKeys /\ WorkerKeys' = WorkerKeys
      /\ UNCHANGED <<q, wk, abandoned>> /\ \A w \in Workers : Busy(w)' <=> Busy(w)
  BY DEF Claim, QueuedKeys, WorkerKeys, Busy
<1>2. CASE k \in inFlight
  BY <1>0, <1>1, <1>2 DEF Claim, InFlightOwned, ClaimedKeys
<1>3. CASE k \notin inFlight
  <2> DEFINE r == [pc |-> "claimed", key |-> k, prio |-> p, tier |-> t]
  <2>1. en[c].pc = "idle" /\ inFlight' = inFlight \cup {k} /\ en' = [en EXCEPT ![c] = r]
    BY <1>3 DEF Claim
  <2>r. r.pc = "claimed" /\ r.key = k
    OBVIOUS
  <2> HIDE DEF r
  <2>2. ClaimedKeys' = ClaimedKeys \cup {k}
    BY <1>0, <2>1, <2>r, ClaimOwner
  <2>3. k \notin QueuedKeys \cup WorkerKeys \cup ClaimedKeys \cup abandoned
    BY <1>0, <1>3 DEF InFlightOwned
  <2>4. en'["decode"].pc # "idle" /\ en'["filler"].pc # "idle"
          => en'["decode"].key # en'["filler"].key
    <3>1. \A d \in Clients : en[d].pc # "idle" => en[d].key # k
      BY <2>3 DEF ClaimedKeys
    <3>2. \A d \in Clients : en'[d] = IF d = c THEN r ELSE en[d]
      BY <1>0, <2>1 DEF PoolShape
    <3> QED BY <1>0, <2>1, <2>r, <3>1, <3>2 DEF Clients
  <2> QED BY <1>0, <1>1, <2>1, <2>2, <2>3, <2>4 DEF InFlightOwned
<1> QED BY <1>2, <1>3

\* in_flight keeps one owner per key, through every step.
LEMMA OwnedStep ==
    ASSUME PoolInv, PoolStep \/ UNCHANGED poolVars
    PROVE  InFlightOwned'
<1>0. /\ q \in Seq(Entry) /\ PoolShape /\ Requests /\ Distinct /\ InFlightOwned
      /\ "decode" \in Clients /\ "filler" \in Clients
  BY DEF PoolInv, PoolShape, InFlightOwned, Distinct, Clients
<1>1. ASSUME NEW c \in Clients, EnqueueCheck(c)  PROVE InFlightOwned'
  <2>1. PICK pc \in {"unclaim", "queue"} : en' = [en EXCEPT ![c].pc = pc]
    BY <1>1 DEF EnqueueCheck
  <2>2. ClaimedKeys' = ClaimedKeys
    BY <1>0, <1>1, <2>1, KeepOwner DEF EnqueueCheck
  <2>3. \A d \in Clients : en'[d].key = en[d].key /\ (en'[d].pc # "idle" => en[d].pc # "idle")
    BY <1>0, <1>1, <2>1 DEF EnqueueCheck, PoolShape
  <2>4. /\ WorkerKeys' = WorkerKeys /\ QueuedKeys' = QueuedKeys
        /\ UNCHANGED <<q, wk, abandoned, inFlight>>
        /\ \A w \in Workers : Busy(w)' <=> Busy(w)
    BY <1>1 DEF EnqueueCheck, WorkerKeys, QueuedKeys, Busy
  <2> QED BY <1>0, <2>2, <2>3, <2>4 DEF InFlightOwned
<1>2. ASSUME NEW c \in Clients, EnqueuePut(c)  PROVE InFlightOwned'
  <2> DEFINE e == [key |-> en[c].key, prio |-> en[c].prio, tier |-> en[c].tier]
  <2>1. e \in Entry /\ e.key = en[c].key
    BY <1>0, <1>2 DEF EnqueuePut, Requests, PoolShape, Entry
  <2>2. ClaimedKeys' = ClaimedKeys \ {en[c].key} /\ en[c].key \in ClaimedKeys
    BY <1>0, <1>2, ReleaseOwner DEF EnqueuePut
  <2>3. e.key \notin QueuedKeys
    BY <1>0, <2>1, <2>2 DEF InFlightOwned
  <2>4. QueuedKeys' = QueuedKeys \cup {en[c].key} /\ Distinct'
    <3>1. q' = Append(q, e)
      BY <1>2 DEF EnqueuePut
    <3> QED BY <1>0, <2>1, <2>3, <3>1, QueuePut
  <2>5. \A d \in Clients : en'[d] = IF d = c THEN Idle ELSE en[d]
    BY <1>0, <1>2 DEF EnqueuePut, PoolShape
  <2>6. /\ WorkerKeys' = WorkerKeys /\ UNCHANGED <<wk, abandoned, inFlight>>
        /\ \A w \in Workers : Busy(w)' <=> Busy(w)
    BY <1>2 DEF EnqueuePut, WorkerKeys, Busy
  <2> HIDE DEF e
  <2> QED BY <1>0, <2>2, <2>4, <2>5, <2>6 DEF InFlightOwned, Distinct, Idle
<1>3. ASSUME NEW c \in Clients, EnqueueUnclaim(c)  PROVE InFlightOwned'
  <2>1. ClaimedKeys' = ClaimedKeys \ {en[c].key} /\ en[c].key \in ClaimedKeys
    BY <1>0, <1>3, ReleaseOwner DEF EnqueueUnclaim
  <2>2. \A d \in Clients : en'[d] = IF d = c THEN Idle ELSE en[d]
    BY <1>0, <1>3 DEF EnqueueUnclaim, PoolShape
  <2>3. /\ WorkerKeys' = WorkerKeys /\ QueuedKeys' = QueuedKeys
        /\ UNCHANGED <<q, wk, abandoned>> /\ inFlight' = inFlight \ {en[c].key}
        /\ \A w \in Workers : Busy(w)' <=> Busy(w)
    BY <1>3 DEF EnqueueUnclaim, WorkerKeys, QueuedKeys, Busy
  <2> QED BY <1>0, <2>1, <2>2, <2>3 DEF InFlightOwned, Idle
<1>4. ASSUME NEW w \in Workers, Take(w)  PROVE InFlightOwned'
  <2>1. PICK i \in DOMAIN q :
          /\ wk' = [wk EXCEPT ![w] = [pc |-> "check", key |-> q[i].key, tier |-> q[i].tier]]
          /\ q' = RemoveAt(q, i)
    BY <1>4 DEF Take
  <2>2. q[i] \in Entry /\ QueuedKeys' = QueuedKeys \ {q[i].key} /\ Distinct'
    BY <1>0, <2>1, QueueTake
  <2>3. q[i].key \in QueuedKeys
    BY DEF QueuedKeys
  <2>4. WorkerKeys' = WorkerKeys \cup {q[i].key}
    <3> DEFINE r == [pc |-> "check", key |-> q[i].key, tier |-> q[i].tier]
    <3>1. r.pc = "check" /\ r.key = q[i].key /\ wk' = [wk EXCEPT ![w] = r]
      BY <2>1
    <3>2. ~ Busy(w)
      BY <1>4 DEF Take, Busy
    <3> HIDE DEF r
    <3> QED BY <1>0, <3>1, <3>2, JobOwner
  <2>5. \A v \in Workers : wk'[v] = IF v = w THEN [pc |-> "check", key |-> q[i].key,
                                                   tier |-> q[i].tier] ELSE wk[v]
    BY <1>0, <2>1 DEF PoolShape
  <2>6. /\ \A v \in Workers : v # w => (Busy(v)' <=> Busy(v)) /\ wk'[v].key = wk[v].key
        /\ wk'[w].key = q[i].key
    BY <2>5 DEF Busy
  <2>7. \A v \in Workers : Busy(v) => wk[v].key # q[i].key
    BY <1>0, <2>3 DEF InFlightOwned, WorkerKeys
  <2>8. \A v, u \in Workers : Busy(v)' /\ Busy(u)' /\ wk'[v].key = wk'[u].key => v = u
    BY <1>0, <2>6, <2>7 DEF InFlightOwned
  <2>9. ClaimedKeys' = ClaimedKeys /\ UNCHANGED <<en, abandoned, inFlight>>
    BY <1>4 DEF Take, ClaimedKeys
  <2> QED BY <1>0, <2>2, <2>3, <2>4, <2>8, <2>9 DEF InFlightOwned, Distinct
<1>5. ASSUME NEW w \in Workers, Exit(w)  PROVE InFlightOwned'
  <2>1. \A v \in Workers : wk'[v].key = wk[v].key /\ (Busy(v)' <=> Busy(v))
    BY <1>0, <1>5 DEF Exit, PoolShape, Busy
  <2>2. WorkerKeys' = WorkerKeys
    BY <2>1 DEF WorkerKeys
  <2>3. UNCHANGED <<q, en, inFlight, abandoned>>
    BY <1>5 DEF Exit
  <2>4. QueuedKeys' = QueuedKeys /\ ClaimedKeys' = ClaimedKeys
    BY <2>3 DEF QueuedKeys, ClaimedKeys
  <2> QED BY <1>0, <2>1, <2>2, <2>3, <2>4 DEF InFlightOwned
<1>6. ASSUME NEW w \in Workers, WorkerCheck(w)  PROVE InFlightOwned'
  <2>1. PICK next \in {"finish", "put", "raise"} : wk' = [wk EXCEPT ![w].pc = next]
    BY <1>6 DEF WorkerCheck
  <2>2. /\ WorkerKeys' = WorkerKeys
        /\ \A v \in Workers : wk'[v].key = wk[v].key /\ (Busy(v)' <=> Busy(v))
    BY <1>0, <1>6, <2>1, KeepJob DEF WorkerCheck, Busy
  <2>3. /\ QueuedKeys' = QueuedKeys /\ ClaimedKeys' = ClaimedKeys
        /\ UNCHANGED <<q, en, abandoned, inFlight>>
    BY <1>6 DEF WorkerCheck, QueuedKeys, ClaimedKeys
  <2> QED BY <1>0, <2>2, <2>3 DEF InFlightOwned
<1>7. ASSUME NEW w \in Workers, WorkerPut(w)  PROVE InFlightOwned'
  <2>1. wk' = [wk EXCEPT ![w].pc = "finish"]
    BY <1>7 DEF WorkerPut
  <2>2. /\ WorkerKeys' = WorkerKeys
        /\ \A v \in Workers : wk'[v].key = wk[v].key /\ (Busy(v)' <=> Busy(v))
    BY <1>0, <1>7, <2>1, KeepJob DEF WorkerPut, Busy
  <2>3. /\ QueuedKeys' = QueuedKeys /\ ClaimedKeys' = ClaimedKeys
        /\ UNCHANGED <<q, en, abandoned, inFlight>>
    BY <1>7 DEF WorkerPut, QueuedKeys, ClaimedKeys
  <2> QED BY <1>0, <2>2, <2>3 DEF InFlightOwned
<1>8. ASSUME NEW w \in Workers, WorkerFinish(w)  PROVE InFlightOwned'
  <2>1. PICK pc \in {"get", "exited", "dead"} : wk' = [wk EXCEPT ![w] = [Resting EXCEPT !.pc = pc]]
    BY <1>8 DEF WorkerFinish
  <2> DEFINE r == [Resting EXCEPT !.pc = pc]
  <2>2. Busy(w) /\ r.pc = pc /\ wk' = [wk EXCEPT ![w] = r]
    BY <1>8, <2>1 DEF WorkerFinish, Busy, Resting
  <2> HIDE DEF r
  <2>3. WorkerKeys' = WorkerKeys \ {wk[w].key} /\ wk[w].key \in WorkerKeys
    <3>1. r.pc = "get" \/ r.pc = "exited" \/ r.pc = "dead"
      BY <2>2
    <3> QED BY <1>0, <2>2, <3>1, EndJob
  <2>4. \A v \in Workers : wk'[v] = IF v = w THEN r ELSE wk[v]
    BY <1>0, <2>2 DEF PoolShape
  <2>5. \A v \in Workers : Busy(v)' => v # w /\ Busy(v) /\ wk'[v] = wk[v]
    BY <2>2, <2>4 DEF Busy
  <2>6. /\ UNCHANGED <<q, en, abandoned>> /\ inFlight' = inFlight \ {wk[w].key}
        /\ ClaimedKeys' = ClaimedKeys /\ QueuedKeys' = QueuedKeys
    BY <1>8 DEF WorkerFinish, ClaimedKeys, QueuedKeys
  <2> QED BY <1>0, <2>3, <2>5, <2>6 DEF InFlightOwned
<1>9. CASE FillerScan \/ Stop \/ UNCHANGED poolVars
  <2>1. UNCHANGED <<q, wk, en, inFlight, abandoned>>
    BY <1>9 DEF FillerScan, Stop, poolVars
  <2>2. /\ WorkerKeys' = WorkerKeys /\ QueuedKeys' = QueuedKeys /\ ClaimedKeys' = ClaimedKeys
        /\ \A w \in Workers : Busy(w)' <=> Busy(w)
    BY <2>1 DEF QueuedKeys, WorkerKeys, ClaimedKeys, Busy
  <2> QED BY <1>0, <2>1, <2>2 DEF InFlightOwned
<1>10. CASE FillerEnqueue
  BY <1>0, <1>10, ClaimOwned DEF FillerEnqueue, PoolShape
<1>11. CASE DecodePrefetch
  BY <1>0, <1>11, ClaimOwned DEF DecodePrefetch
<1>12. CASE EnqueueInterrupted
  <2>1. /\ ClaimedKeys' = ClaimedKeys \ {en["decode"].key}
        /\ en["decode"].key \in ClaimedKeys
    BY <1>0, <1>12, ReleaseOwner DEF EnqueueInterrupted
  <2>2. en'["decode"].pc = "idle"
    BY <1>0, <1>12 DEF EnqueueInterrupted, PoolShape, Idle
  <2>3. /\ WorkerKeys' = WorkerKeys /\ QueuedKeys' = QueuedKeys
        /\ UNCHANGED <<q, wk, inFlight>> /\ abandoned' = abandoned \cup {en["decode"].key}
        /\ \A w \in Workers : Busy(w)' <=> Busy(w)
    BY <1>12 DEF EnqueueInterrupted, WorkerKeys, QueuedKeys, Busy
  <2> QED BY <1>0, <2>1, <2>2, <2>3 DEF InFlightOwned
<1> QED BY <1>1, <1>2, <1>3, <1>4, <1>5, <1>6, <1>7, <1>8, <1>9, <1>10, <1>11, <1>12
        DEF PoolStep

\* What FillerBounded counts beside the queue.
Enqueuing == IF en["filler"].pc \in {"claimed", "queue"} THEN 1 ELSE 0
FillerLoad == Cardinality(FillerQueued) + Cardinality(batch) + Enqueuing

LoadTypes ==
    /\ IsFiniteSet(batch) /\ Cardinality(batch) \in Nat
    /\ Cardinality(FillerQueued) \in Nat /\ Cardinality(FillerQueued) <= Len(q)
    /\ Enqueuing \in {0, 1}

LEMMA LoadIsNat ==
    PoolShape => LoadTypes
<1> SUFFICES ASSUME PoolShape PROVE LoadTypes
  OBVIOUS
<1>1. IsFiniteSet(batch)
  BY PoolConstants, FS_Subset DEF PoolShape
<1>2. Cardinality(batch) \in Nat
  BY <1>1, FS_CardinalityType
<1>3. Cardinality(FillerQueued) \in Nat /\ Cardinality(FillerQueued) <= Len(q)
  BY QueueFinite DEF PoolShape
<1> QED BY <1>1, <1>2, <1>3 DEF Enqueuing, LoadTypes

\* The filler's load grows only when a batch is drawn, which saturation forbids:
\* every other step moves a request from one place to the next.
LEMMA LoadStep ==
    ASSUME PoolInv, PoolShape', PoolStep \/ UNCHANGED poolVars
    PROVE  FillerBounded'
<1>0. /\ q \in Seq(Entry) /\ PoolShape /\ Requests /\ Distinct /\ InFlightOwned
      /\ "decode" \in Clients /\ "filler" \in Clients
      /\ FillerLoad <= Saturation + Batch
  BY DEF PoolInv, PoolShape, InFlightOwned, Distinct, Clients, FillerBounded, FillerLoad,
         FillerQueued, Enqueuing
<1>a. /\ Cardinality(batch) \in Nat /\ Cardinality(FillerQueued) \in Nat /\ Enqueuing \in {0, 1}
      /\ IsFiniteSet(batch) /\ Cardinality(FillerQueued) <= Len(q)
      /\ Saturation \in Nat /\ Batch \in Nat
  BY <1>0, LoadIsNat, PoolConstants DEF LoadTypes
<1>b. /\ Cardinality(batch') \in Nat /\ Cardinality(FillerQueued') \in Nat
      /\ Enqueuing' \in {0, 1}
  <2>1. PoolShape' => LoadTypes'
    BY LoadIsNat, PTL
  <2> QED BY <2>1 DEF LoadTypes
<1> SUFFICES FillerLoad' <= Saturation + Batch
  BY DEF FillerBounded, FillerLoad, FillerQueued, Enqueuing
<1>1. ASSUME NEW c \in Clients, EnqueueCheck(c)  PROVE FillerLoad' <= FillerLoad
  <2>1. \A d \in Clients : en'[d].pc \in {"claimed", "queue"} => en[d].pc \in {"claimed", "queue"}
    BY <1>0, <1>1 DEF EnqueueCheck, PoolShape
  <2>2. Enqueuing' <= Enqueuing
    BY <1>0, <2>1 DEF Enqueuing
  <2>3. FillerQueued' = FillerQueued /\ batch' = batch
    BY <1>1 DEF EnqueueCheck, FillerQueued
  <2> QED BY <1>a, <1>b, <2>2, <2>3 DEF FillerLoad
<1>2. ASSUME NEW c \in Clients, EnqueuePut(c)  PROVE FillerLoad' <= FillerLoad
  <2> DEFINE e == [key |-> en[c].key, prio |-> en[c].prio, tier |-> en[c].tier]
  <2>1. e \in Entry /\ e.key = en[c].key /\ e.prio = en[c].prio /\ q' = Append(q, e)
    BY <1>0, <1>2 DEF EnqueuePut, Requests, PoolShape, Entry
  <2>2. e.key \notin QueuedKeys
    BY <1>0, <1>2, <2>1 DEF EnqueuePut, InFlightOwned, ClaimedKeys
  <2> HIDE DEF e
  <2>3. Cardinality(FillerQueued') = Cardinality(FillerQueued) + IF e.prio = 0 THEN 1 ELSE 0
    BY <1>0, <2>1, <2>2, QueuePut
  <2>4. \A d \in Clients : en'[d] = IF d = c THEN Idle ELSE en[d]
    BY <1>0, <1>2 DEF EnqueuePut, PoolShape
  <2>5. batch' = batch /\ en[c].pc = "queue"
    BY <1>2 DEF EnqueuePut
  <2>6. CASE c = "filler"
    <3>1. Enqueuing = 1 /\ Enqueuing' = 0
      BY <1>0, <2>4, <2>5, <2>6 DEF Enqueuing, Idle
    <3> QED BY <1>a, <1>b, <2>3, <2>5, <3>1 DEF FillerLoad
  <2>7. CASE c = "decode"
    <3>1. e.prio # 0
      BY <1>0, <2>1, <2>5, <2>7, PoolConstants DEF Requests
    <3>2. Enqueuing' = Enqueuing
      BY <1>0, <2>4, <2>7 DEF Enqueuing
    <3> QED BY <1>a, <1>b, <2>3, <2>5, <3>1, <3>2 DEF FillerLoad
  <2> QED BY <2>6, <2>7 DEF Clients
<1>3. ASSUME NEW c \in Clients, EnqueueUnclaim(c)  PROVE FillerLoad' <= FillerLoad
  <2>1. \A d \in Clients : en'[d] = IF d = c THEN Idle ELSE en[d]
    BY <1>0, <1>3 DEF EnqueueUnclaim, PoolShape
  <2>2. Enqueuing' <= Enqueuing
    BY <1>0, <1>a, <2>1 DEF Enqueuing, Idle
  <2>3. FillerQueued' = FillerQueued /\ batch' = batch
    BY <1>3 DEF EnqueueUnclaim, FillerQueued
  <2> QED BY <1>a, <1>b, <2>2, <2>3 DEF FillerLoad
<1>4. ASSUME NEW w \in Workers, Take(w)  PROVE FillerLoad' <= FillerLoad
  <2>1. PICK i \in DOMAIN q : q' = RemoveAt(q, i)
    BY <1>4 DEF Take
  <2>2. Cardinality(FillerQueued') <= Cardinality(FillerQueued)
    BY <1>0, <2>1, QueueTake
  <2>3. Enqueuing' = Enqueuing /\ batch' = batch
    BY <1>4 DEF Take, Enqueuing
  <2> QED BY <1>a, <1>b, <2>2, <2>3 DEF FillerLoad
<1>5. ASSUME NEW w \in Workers, Exit(w) \/ WorkerCheck(w) \/ WorkerPut(w) \/ WorkerFinish(w)
      PROVE  FillerLoad' = FillerLoad
  <2>1. UNCHANGED <<q, batch, en>>
    BY <1>5 DEF Exit, WorkerCheck, WorkerPut, WorkerFinish
  <2> QED BY <2>1 DEF FillerLoad, FillerQueued, Enqueuing
<1>6. CASE FillerScan
  <2>1. Len(q) <= Saturation /\ q' = q /\ Enqueuing' = 0
    <3>1. Len(q) \in Nat
      BY <1>0, QueueFinite
    <3> QED BY <1>6, <1>a, <3>1 DEF FillerScan, IsSaturated, Enqueuing
  <2>2. Cardinality(batch') <= Batch
    <3> DEFINE pool == Keys \ Cached
    <3>1. Cardinality(pool) \in Nat
      BY PoolConstants, FS_Subset, FS_CardinalityType
    <3>2. Cardinality(batch') = IF Cardinality(pool) < Batch THEN Cardinality(pool) ELSE Batch
      BY <1>6 DEF FillerScan, Sample
    <3> QED BY <1>a, <3>1, <3>2
  <2>3. FillerQueued' = FillerQueued
    BY <2>1 DEF FillerQueued
  <2> QED BY <1>a, <1>b, <2>1, <2>2, <2>3, QueueFinite, <1>0 DEF FillerLoad
<1>7. CASE FillerEnqueue
  <2>1. PICK k \in batch : Claim("filler", k, 0, FILLER) /\ batch' = batch \ {k}
    BY <1>7 DEF FillerEnqueue
  <2>2. Cardinality(batch') = Cardinality(batch) - 1
    BY <1>a, <2>1, FS_RemoveElement
  <2>3. Enqueuing = 0 /\ FillerQueued' = FillerQueued
    BY <2>1 DEF Claim, Enqueuing, FillerQueued
  <2> QED BY <1>0, <1>a, <1>b, <2>2, <2>3 DEF FillerLoad
<1>8. CASE DecodePrefetch
  <2>1. \A d \in Clients : d # "decode" => en'[d] = en[d]
    BY <1>0, <1>8 DEF DecodePrefetch, Claim, PoolShape
  <2>2. Enqueuing' = Enqueuing /\ FillerQueued' = FillerQueued /\ batch' = batch
    BY <1>0, <1>8, <2>1 DEF DecodePrefetch, Claim, Enqueuing, FillerQueued
  <2> QED BY <1>0, <2>2 DEF FillerLoad
<1>9. CASE EnqueueInterrupted
  <2>1. \A d \in Clients : d # "decode" => en'[d] = en[d]
    BY <1>0, <1>9 DEF EnqueueInterrupted, PoolShape
  <2>2. Enqueuing' = Enqueuing /\ FillerQueued' = FillerQueued /\ batch' = batch
    BY <1>0, <1>9, <2>1 DEF EnqueueInterrupted, Enqueuing, FillerQueued
  <2> QED BY <1>0, <2>2 DEF FillerLoad
<1>10. CASE Stop \/ UNCHANGED poolVars
  <2>1. UNCHANGED <<q, batch, en>>
    BY <1>10 DEF Stop, poolVars
  <2> QED BY <1>0, <2>1 DEF FillerLoad, FillerQueued, Enqueuing
<1>c. FillerLoad \in Nat /\ FillerLoad' \in Nat
  BY <1>a, <1>b DEF FillerLoad
<1>11. FillerLoad' <= FillerLoad => FillerLoad' <= Saturation + Batch
  BY <1>0, <1>a, <1>c
<1> QED BY <1>1, <1>2, <1>3, <1>4, <1>5, <1>6, <1>7, <1>8, <1>9, <1>10, <1>11, <1>0
        DEF PoolStep

\* What the pool does to the cache is a call of the cache.
LEMMA CacheCallsOnly ==
    ASSUME PoolInv, PoolNext
    PROVE  [CacheNext]_cacheVars
<1>1. ASSUME NEW w \in Workers, WorkerPut(w)  PROVE CacheNext
  <2>1. wk[w].key \in Keys /\ wk[w].tier \in Tiers
    BY <1>1 DEF PoolInv, PoolShape, Requests, WorkerPut, Busy
  <2>2. Put(wk[w].key, wk[w].tier)
    BY <1>1 DEF WorkerPut
  <2> HIDE DEF Put
  <2> QED BY <2>1, <2>2 DEF CacheNext
<1>2. CASE DecodeCacheCall
  BY <1>2 DEF DecodeCacheCall, CacheNext, Tiers
<1>3. ASSUME NEW c \in Clients, EnqueueStep(c)  PROVE UNCHANGED cacheVars
  BY <1>3 DEF EnqueueStep, EnqueueCheck, EnqueuePut, EnqueueUnclaim
<1>4. ASSUME NEW w \in Workers, Take(w) \/ Exit(w) \/ WorkerCheck(w) \/ WorkerFinish(w)
      PROVE  UNCHANGED cacheVars
  BY <1>4 DEF Take, Exit, WorkerCheck, WorkerFinish
<1>5. CASE FillerScan \/ FillerEnqueue \/ Stop \/ EnqueueInterrupted \/ DecodePrefetch
  BY <1>5 DEF FillerScan, FillerEnqueue, Stop, EnqueueInterrupted, DecodePrefetch, Claim
<1> QED BY <1>1, <1>2, <1>3, <1>4, <1>5 DEF PoolNext, IONext, WorkerStep

LEMMA PoolInitInv == CacheInit /\ PoolInit => PoolInv
<1> SUFFICES ASSUME CacheInit, PoolInit PROVE PoolInv
  OBVIOUS
<1>1. CacheInv
  BY CacheInitSound
<1>2. q = <<>> /\ q \in Seq(Entry) /\ DOMAIN q = {} /\ Len(q) = 0
  <2>1. q = <<>>
    BY DEF PoolInit
  <2> QED BY <2>1, EmptySeq
<1>3. PoolShape
  BY <1>2 DEF PoolInit, PoolShape, Resting, Idle, Tiers
<1>4. \A w \in Workers : ~ Busy(w)
  BY DEF PoolInit, Busy, Resting
<1>5. \A c \in Clients : en[c].pc = "idle" /\ en[c].prio = 0
  BY DEF PoolInit, Idle
<1>6. Requests
  BY <1>4, <1>5 DEF Requests, Clients
<1>7. InFlightOwned
  <2>1. QueuedKeys = {} /\ WorkerKeys = {} /\ ClaimedKeys = {}
    BY <1>2, <1>4, <1>5 DEF QueuedKeys, WorkerKeys, ClaimedKeys
  <2> QED BY <1>2, <1>4, <1>5, <2>1 DEF InFlightOwned, PoolInit, Clients
<1>8. FillerBounded
  <2>1. FillerQueued = {} /\ batch = {} /\ Enqueuing = 0
    BY <1>2, <1>5 DEF FillerQueued, Enqueuing, PoolInit, Clients
  <2>2. FillerLoad = 0
    BY <2>1, FS_EmptySet DEF FillerLoad
  <2>3. FillerLoad <= Saturation + Batch
    BY <2>2, PoolConstants
  <2> QED BY <2>3 DEF FillerBounded, FillerLoad, FillerQueued, Enqueuing
<1> QED BY <1>1, <1>3, <1>6, <1>7, <1>8 DEF PoolInv

\* Whoever drives the pool: its steps and calls of the cache keep the invariant.
LEMMA PoolKept ==
    ASSUME PoolInv, PoolStep \/ UNCHANGED poolVars, [CacheNext]_cacheVars
    PROVE  PoolInv'
<1>1. CacheInv'
  BY CacheStepSound DEF PoolInv
<1>2. PoolShape' /\ Requests'
  BY ShapeStep
<1>3. InFlightOwned'
  BY OwnedStep
<1>4. FillerBounded'
  BY <1>2, LoadStep
<1> QED BY <1>1, <1>2, <1>3, <1>4 DEF PoolInv

LEMMA PoolStepInv == PoolInv /\ [PoolNext]_vars => PoolInv'
<1> SUFFICES ASSUME PoolInv, [PoolNext]_vars PROVE PoolInv'
  OBVIOUS
<1>1. PoolStep \/ UNCHANGED poolVars
  BY DEF vars, PoolNext, IONext, EnqueueStep, WorkerStep, PoolStep, DecodeCacheCall
<1>2. [CacheNext]_cacheVars
  BY CacheCallsOnly DEF vars
<1> QED BY <1>1, <1>2, PoolKept

\* The inductive invariant of the pool: types, who owns which key, what each
\* thread holds, and the filler's load.
THEOREM PoolInvariant == PoolSpec => []PoolInv
<1>1. CacheInit /\ PoolInit => PoolInv
  BY PoolInitInv
<1>2. PoolInv /\ [PoolNext]_vars => PoolInv'
  BY PoolStepInv
<1> QED BY <1>1, <1>2, PTL DEF PoolSpec

\* The pool's state keeps its types, whatever the threads do.
THEOREM PoolTyped == PoolSpec => []PoolTypeOK
<1>1. PoolInv => PoolTypeOK
  BY DEF PoolInv, PoolShape, PoolTypeOK, CacheInv, Sound, CacheTypeOK, Entry
<1> QED BY <1>1, PoolInvariant, PTL

\* A key in flight has exactly one owner, or none if Ctrl+C cut its enqueue: no
\* shard is loaded twice at a time and no claim leaks (io_pool.py:31-41, 55-70).
THEOREM PoolOwned == PoolSpec => []InFlightOwned
<1>1. PoolInv => InFlightOwned
  BY DEF PoolInv
<1> QED BY <1>1, PoolInvariant, PTL

\* The filler never has more than a batch above the saturation threshold under
\* way, whatever the decode thread enqueues meanwhile (io_pool.py:48-49, 97-106).
THEOREM PoolFillerBounded == PoolSpec => []FillerBounded
<1>1. PoolInv => FillerBounded
  BY DEF PoolInv
<1> QED BY <1>1, PoolInvariant, PTL

\* The accounts of the cache survive its concurrent use: the calls of the
\* workers and of the decode thread, interleaved in any way, keep every tier
\* within its budget and every expert in one tier.
THEOREM PoolKeepsCache == PoolSpec => [](OneTier /\ Accounting)
<1>1. PoolInv => OneTier /\ Accounting
  BY DEF PoolInv, CacheInv, Sound, OneTier, Accounting, Held
<1> QED BY <1>1, PoolInvariant, PTL

\* After stop() no worker takes more than one further job, whatever is queued and
\* whoever goes on queueing (io_pool.py:55-70): what it is at is its last.  That it
\* ends is the other half of StopEndsWorkers, for TLC.
THEOREM PoolLastJob == PoolSpec => LastJob
<1> DEFINE Leaves(w) == stopped /\ Busy(w) /\ ~ Busy(w)' => wk'[w].pc \in {"exited", "dead"}
<1>1. ASSUME PoolInv, [PoolNext]_vars  PROVE \A w \in Workers : Leaves(w)
  <2> SUFFICES ASSUME NEW w \in Workers, stopped, Busy(w), ~ Busy(w)'
               PROVE  wk'[w].pc \in {"exited", "dead"}
    OBVIOUS
  <2>1. wk[w].pc \in {"check", "put", "finish", "raise"} /\ wk'[w].pc \notin {"check", "put", "finish", "raise"}
    BY DEF Busy
  <2>2. wk' # wk
    BY <2>1
  <2>3. PICK v \in Workers : WorkerStep(v)
    BY <1>1, <2>2 DEF vars, poolVars, PoolNext, IONext, EnqueueStep, EnqueueCheck, EnqueuePut,
       EnqueueUnclaim, FillerScan, FillerEnqueue, Stop, EnqueueInterrupted, DecodePrefetch,
       DecodeCacheCall, Claim
  <2>4. wk \in [Workers -> [pc : {"get", "check", "put", "finish", "raise", "exited", "dead"},
                            key : Keys \cup {NoKey}, tier : Tiers]]
    BY <1>1 DEF PoolInv, PoolShape
  <2>5. v = w
    BY <2>1, <2>3, <2>4 DEF WorkerStep, Take, Exit, WorkerCheck, WorkerPut, WorkerFinish
  <2>6. ~ (Take(w) \/ Exit(w))
    BY <2>1 DEF Take, Exit
  <2>7. ~ WorkerCheck(w)
    BY <2>1, <2>4 DEF WorkerCheck
  <2>8. ~ WorkerPut(w)
    BY <2>1, <2>4 DEF WorkerPut
  <2>9. WorkerFinish(w)
    BY <2>3, <2>5, <2>6, <2>7, <2>8 DEF WorkerStep
  <2> QED BY <2>4, <2>9 DEF WorkerFinish, Resting
<1> QED BY <1>1, PoolInvariant, PTL DEF PoolSpec, LastJob

-----------------------------------------------------------------------------
(* ExpertStream.                                                           *)

Resolving == {"get", "wait", "poll", "final", "load", "put", "got", "insert"}

StreamShape ==
    /\ arena \in Seq(Keys) /\ IsInjective(arena) /\ Len(arena) <= Slots
    /\ wanted \subseteq Keys /\ toPrefetch \subseteq Keys
    /\ dec \in [pc : {"idle", "prefetch", "next", "remove"} \cup Resolving,
                key : Keys \cup {NoKey}, path : {"arena", "dict"}]
    /\ dec.pc \in Resolving \cup {"remove"} => dec.key \in Keys
    /\ dec.pc \in Resolving => dec.key \notin Range(arena)
    /\ dec.pc = "insert" => Len(arena) < Slots

\* What the background loads goes to the staging tiers, never to the LRU tier.
StagedOnly ==
    /\ \A j \in DOMAIN q : q[j].tier # LRU
    /\ \A w \in Workers : wk[w].tier # LRU
    /\ \A c \in Clients : en[c].tier # LRU

StreamInv == PoolInv /\ StreamShape /\ StagedOnly /\ ArenaNotInLru

\* Admitting k to tier t adds nothing else to the LRU tier.
LEMMA InsertGains ==
    ASSUME NEW ts, NEW us, Sound(ts, us, budget), NEW t \in Tiers, NEW k \in Keys,
           \A x \in Tiers : k \notin Range(ts[x]),
           InsertInto(ts, us, t, k)
    PROVE  /\ Held(LRU)' \subseteq Range(ts[LRU]) \cup {k}
           /\ t # LRU => Held(LRU)' \subseteq Range(ts[LRU])
<1> DEFINE nb == Bytes[{k}]
<1>0. LRU \in Tiers /\ ts[LRU] \in Seq(Keys)
  BY DEF Tiers, Sound
<1>1. CASE nb > budget[t]
  BY <1>0, <1>1 DEF InsertInto, Held
<1>2. CASE ~ (nb > budget[t])
  <2>1. PICK n \in 0 .. Len(ts[t]) :
          tiers' = [x \in Tiers |->
                IF x = t THEN Append(SubSeq(ts[t], n + 1, Len(ts[t])), k)
                ELSE IF x \in Robbed(ts, us, t, nb, n) THEN <<>> ELSE ts[x]]
    BY <1>2 DEF InsertInto
  <2>2. tiers'[LRU] = IF LRU = t THEN Append(SubSeq(ts[t], n + 1, Len(ts[t])), k)
                      ELSE IF LRU \in Robbed(ts, us, t, nb, n) THEN <<>> ELSE ts[LRU]
    BY <1>0, <2>1
  <2>3. CASE t = LRU
    <3> DEFINE rest == SubSeq(ts[LRU], n + 1, Len(ts[LRU]))
    <3>1. /\ rest \in Seq(Keys) /\ IsInjective(rest)
          /\ Range(rest) = Range(ts[LRU]) \ Range(SubSeq(ts[LRU], 1, n))
      BY <1>0, <2>3, SplitFacts DEF Sound
    <3>2. tiers'[LRU] = Append(rest, k) /\ k \notin Range(rest)
      BY <1>0, <2>2, <2>3, <3>1
    <3> HIDE DEF rest
    <3>3. Range(Append(rest, k)) = Range(rest) \cup {k}
      BY <3>1, <3>2, AppendFacts
    <3>4. Held(LRU)' = Range(rest) \cup {k}
      BY <3>2, <3>3 DEF Held
    <3> QED BY <2>3, <3>1, <3>4
  <2>4. CASE t # LRU
    BY <2>2, <2>4, EmptyFacts DEF Held
  <2> QED BY <2>3, <2>4
<1> QED BY <1>1, <1>2

\* A get, hit or miss, brings at most its own key into the LRU tier; a put
\* elsewhere and a removal bring nothing, and after the removal the key is out.
LEMMA LruGains ==
    ASSUME CacheInv, NEW k \in Keys
    PROVE  /\ Get(k) => Held(LRU)' \subseteq Held(LRU) \cup {k}
           /\ \A t \in Tiers : Put(k, t) =>
                 /\ Held(LRU)' \subseteq Held(LRU) \cup {k}
                 /\ t # LRU => Held(LRU)' \subseteq Held(LRU)
           /\ RemoveKey(k) => Held(LRU)' \subseteq Held(LRU) \ {k}
<1>0. /\ tiers \in [Tiers -> Seq(Keys)] /\ LRU \in Tiers
      /\ \A x \in Tiers : IsInjective(tiers[x])
      /\ \A x, y \in Tiers : x # y => Range(tiers[x]) \cap Range(tiers[y]) = {}
  BY DEF CacheInv, Sound, Tiers
<1>1. ASSUME UNCHANGED cacheVars  PROVE Held(LRU)' = Held(LRU)
  BY <1>1 DEF cacheVars, Held
<1>2. ASSUME GetLru(k)  PROVE Held(LRU)' \subseteq Held(LRU) \cup {k}
  <2>1. PICK i \in DOMAIN tiers[LRU] :
          /\ tiers[LRU][i] = k
          /\ tiers' = [tiers EXCEPT ![LRU] = Append(RemoveAt(tiers[LRU], i), k)]
    BY <1>2 DEF GetLru, FoundAt
  <2> DEFINE r == RemoveAt(tiers[LRU], i)
  <2>2. r \in Seq(Keys) /\ IsInjective(r) /\ Range(r) = Range(tiers[LRU]) \ {k}
    BY <1>0, <2>1, RemoveAtFacts
  <2>3. tiers'[LRU] = Append(r, k)
    BY <1>0, <2>1
  <2> HIDE DEF r
  <2>4. Range(Append(r, k)) = Range(r) \cup {k}
    BY <2>2, AppendFacts
  <2> QED BY <2>2, <2>3, <2>4 DEF Held
<1>3. ASSUME GetPromote(k)  PROVE Held(LRU)' \subseteq Held(LRU) \cup {k}
  <2>0. PICK t \in {PREFETCH, FILLER} : \E i \in DOMAIN tiers[t] :
          /\ tiers[t][i] = k
          /\ InsertInto(Without(t, i), [used EXCEPT ![t] = @ - Bytes[{k}]], LRU, k)
    BY <1>3 DEF GetPromote, FoundAt
  <2>1. PICK i \in DOMAIN tiers[t] :
          /\ tiers[t][i] = k
          /\ InsertInto(Without(t, i), [used EXCEPT ![t] = @ - Bytes[{k}]], LRU, k)
    BY <2>0
  <2>2. t \in Tiers /\ t # LRU
    BY DEF Tiers, LRU, PREFETCH, FILLER
  <2>3. /\ Sound(Without(t, i), [used EXCEPT ![t] = @ - Bytes[{k}]], budget)
        /\ \A x \in Tiers : k \notin Range(Without(t, i)[x])
    BY <2>1, <2>2, TakeOutSound
  <2>4. Held(LRU)' \subseteq Range(Without(t, i)[LRU]) \cup {k}
    BY <1>0, <2>1, <2>3, InsertGains
  <2>5. Without(t, i)[LRU] = tiers[LRU]
    BY <1>0, <2>2 DEF Without
  <2> QED BY <2>4, <2>5 DEF Held
<1>4. Get(k) => Held(LRU)' \subseteq Held(LRU) \cup {k}
  BY <1>1, <1>2, <1>3 DEF Get, GetHit, GetMiss
<1>5. ASSUME NEW t \in Tiers, Put(k, t)
      PROVE  /\ Held(LRU)' \subseteq Held(LRU) \cup {k}
             /\ t # LRU => Held(LRU)' \subseteq Held(LRU)
  <2>1. CASE IsCached(k)
    BY <1>1, <1>5, <2>1 DEF Put
  <2>2. CASE ~ IsCached(k)
    <3>1. InsertInto(tiers, used, t, k)
      BY <1>5, <2>2 DEF Put
    <3>2. \A x \in Tiers : k \notin Range(tiers[x])
      BY <2>2 DEF IsCached, Cached, Held
    <3> QED BY <3>1, <3>2, InsertGains DEF CacheInv, Held
  <2> QED BY <2>1, <2>2
<1>6. ASSUME RemoveHit(k)  PROVE Held(LRU)' \subseteq Held(LRU) \ {k}
  <2>0. PICK t \in Tiers : \E i \in DOMAIN tiers[t] :
          FoundAt(k, t, i) /\ tiers' = Without(t, i)
    BY <1>6 DEF RemoveHit
  <2>1. PICK i \in DOMAIN tiers[t] : FoundAt(k, t, i) /\ tiers' = Without(t, i)
    BY <2>0
  <2>2. k \in Range(tiers[t])
    BY <2>1 DEF FoundAt, Range
  <2>3. CASE t = LRU
    <3>1. Range(RemoveAt(tiers[LRU], i)) = Range(tiers[LRU]) \ {tiers[LRU][i]}
      BY <1>0, <2>3, RemoveAtFacts
    <3>2. tiers'[LRU] = RemoveAt(tiers[LRU], i)
      BY <1>0, <2>1, <2>3 DEF Without
    <3> QED BY <2>1, <2>3, <3>1, <3>2 DEF Held, FoundAt
  <2>4. CASE t # LRU
    <3>1. tiers'[LRU] = tiers[LRU] /\ k \notin Range(tiers[LRU])
      BY <1>0, <2>1, <2>2, <2>4 DEF Without
    <3> QED BY <3>1 DEF Held
  <2> QED BY <2>3, <2>4
<1>7. RemoveKey(k) => Held(LRU)' \subseteq Held(LRU) \ {k}
  BY <1>0, <1>1, <1>6 DEF RemoveKey, IsCached, Cached
<1> QED BY <1>4, <1>5, <1>7

LEMMA ShrinkGains ==
    ASSUME CacheInv, NEW b \in ShrinkTo, ShrinkLru(b)
    PROVE  Held(LRU)' \subseteq Held(LRU)
<1>0. /\ tiers \in [Tiers -> Seq(Keys)] /\ LRU \in Tiers
      /\ \A x \in Tiers : IsInjective(tiers[x])
  BY DEF CacheInv, Sound, Tiers
<1>1. PICK n \in 0 .. Len(tiers[LRU]) :
        tiers' = [tiers EXCEPT ![LRU] = SubSeq(@, n + 1, Len(@))]
  BY Zenon DEF ShrinkLru, EvictDownTo
<1>2. tiers'[LRU] = SubSeq(tiers[LRU], n + 1, Len(tiers[LRU]))
  BY <1>0, <1>1
<1>3. Range(SubSeq(tiers[LRU], n + 1, Len(tiers[LRU])))
        = Range(tiers[LRU]) \ Range(SubSeq(tiers[LRU], 1, n))
  BY <1>0, SplitFacts
<1> QED BY <1>2, <1>3 DEF Held

-----------------------------------------------------------------------------
\* What a step of the runtime does to the pool and to the cache.
LEMMA StreamDrivesPool ==
    ASSUME StreamInv, [StreamNext]_streamVars
    PROVE  /\ PoolStep \/ UNCHANGED poolVars
           /\ [CacheNext]_cacheVars
<1>0. /\ PoolInv
      /\ dec.pc \in Resolving \cup {"remove"} => dec.key \in Keys
      /\ toPrefetch \subseteq Keys
  BY DEF StreamInv, StreamShape
<1>1. CASE Background
  <2>1. PoolNext
    BY <1>1 DEF Background, PoolNext
  <2>2. PoolStep
    BY <1>1 DEF Background, IONext, EnqueueStep, WorkerStep, PoolStep
  <2> QED BY <1>0, <2>1, <2>2, CacheCallsOnly
<1>2. CASE PrefetchOne
  <2>1. UNCHANGED cacheVars
    BY <1>2 DEF PrefetchOne, Claim, vars
  <2>2. DecodePrefetch \/ UNCHANGED vars
    BY <1>0, <1>2 DEF PrefetchOne, DecodePrefetch
  <2> QED BY <2>1, <2>2 DEF PoolStep, vars
<1>3. CASE FirstGet \/ Poll \/ LastGet
  <2>1. UNCHANGED poolVars /\ Get(dec.key) /\ dec.key \in Keys
    BY <1>0, <1>3 DEF FirstGet, Poll, LastGet, GetStep, Get, At, Resolving
  <2> QED BY <2>1 DEF CacheNext
<1>4. CASE SyncPut
  <2>1. UNCHANGED poolVars /\ Put(dec.key, LRU) /\ dec.key \in Keys /\ LRU \in Tiers
    BY <1>0, <1>4 DEF SyncPut, At, Resolving, Tiers
  <2> QED BY <2>1 DEF CacheNext
<1>5. CASE DropEntry
  <2>1. UNCHANGED poolVars /\ RemoveKey(dec.key) /\ dec.key \in Keys
    BY <1>0, <1>5 DEF DropEntry, At, Resolving
  <2> QED BY <2>1 DEF CacheNext
<1>6. CASE Shrink
  BY <1>6 DEF Shrink, CacheNext
<1>7. CASE \/ Forward \/ PrefetchDone \/ Lookup \/ ForwardDone \/ WaitOn \/ WaitOver
           \/ SyncLoad \/ UseArrays \/ InsertPick \/ InsertMap \/ UNCHANGED streamVars
  <2>1. UNCHANGED vars
    BY <1>7 DEF Forward, PrefetchDone, Lookup, ForwardDone, WaitOn, WaitOver, SyncLoad,
                UseArrays, InsertPick, InsertMap, streamVars
  <2> QED BY <2>1 DEF vars
<1>8. CASE Interrupted
  BY <1>8 DEF Interrupted, EnqueueInterrupted, PoolStep, vars
<1> QED BY <1>1, <1>2, <1>3, <1>4, <1>5, <1>6, <1>7, <1>8 DEF StreamNext, DecodeStep

\* The background's requests keep to the staging tiers.
LEMMA StagedStep ==
    ASSUME StreamInv, [StreamNext]_streamVars
    PROVE  StagedOnly'
<1>0. PoolShape /\ Distinct /\ StagedOnly
  BY DEF StreamInv, PoolInv, InFlightOwned, Distinct
<1>a. FILLER # LRU /\ PREFETCH # LRU /\ Resting.tier = FILLER /\ Idle.tier = FILLER
  BY DEF FILLER, LRU, PREFETCH, Resting, Idle
<1>1. ASSUME NEW c \in Clients, EnqueueCheck(c) \/ EnqueueUnclaim(c)  PROVE StagedOnly'
  BY <1>0, <1>a, <1>1 DEF EnqueueCheck, EnqueueUnclaim, StagedOnly, PoolShape
<1>2. ASSUME NEW c \in Clients, EnqueuePut(c)  PROVE StagedOnly'
  <2> DEFINE e == [key |-> en[c].key, prio |-> en[c].prio, tier |-> en[c].tier]
  <2>1. q' = Append(q, e) /\ e.tier # LRU
    BY <1>0, <1>2 DEF EnqueuePut, StagedOnly
  <2> HIDE DEF e
  <2>2. \A j \in DOMAIN q' : q'[j].tier # LRU
    BY <1>0, <2>1, QueueFinite DEF PoolShape, StagedOnly
  <2>3. \A d \in Clients : en'[d].tier # LRU
    BY <1>0, <1>a, <1>2 DEF EnqueuePut, StagedOnly, PoolShape
  <2>4. wk' = wk
    BY <1>2 DEF EnqueuePut
  <2> QED BY <1>0, <2>2, <2>3, <2>4 DEF StagedOnly
<1>3. ASSUME NEW w \in Workers, Take(w)  PROVE StagedOnly'
  <2>1. PICK i \in DOMAIN q :
          /\ wk' = [wk EXCEPT ![w] = [pc |-> "check", key |-> q[i].key, tier |-> q[i].tier]]
          /\ q' = RemoveAt(q, i)
    BY <1>3 DEF Take
  <2>2. /\ Len(q) \in Nat /\ DOMAIN q = 1 .. Len(q)
        /\ \A j \in 1 .. Len(q) - 1 : q'[j] = IF j < i THEN q[j] ELSE q[j + 1]
        /\ DOMAIN q' = 1 .. Len(q) - 1
    <3>1. IsInjective(q)
      BY <1>0 DEF Distinct, IsInjective
    <3>2. /\ q' \in Seq(Entry) /\ Len(q') = Len(q) - 1
          /\ \A j \in 1 .. Len(q) - 1 : q'[j] = IF j < i THEN q[j] ELSE q[j + 1]
      BY <1>0, <2>1, <3>1, RemoveAtFacts DEF PoolShape
    <3> QED BY <1>0, <3>2, QueueFinite, LenProperties DEF PoolShape
  <2>3. \A j \in DOMAIN q' : q'[j].tier # LRU
    BY <1>0, <2>2 DEF StagedOnly
  <2>4. \A v \in Workers : wk'[v].tier # LRU
    BY <1>0, <2>1 DEF StagedOnly, PoolShape
  <2>5. en' = en
    BY <1>3 DEF Take
  <2> QED BY <1>0, <2>3, <2>4, <2>5 DEF StagedOnly
<1>4. ASSUME NEW w \in Workers, Exit(w) \/ WorkerCheck(w) \/ WorkerPut(w) \/ WorkerFinish(w)
      PROVE  StagedOnly'
  <2>1. UNCHANGED <<q, en>>
    BY <1>4 DEF Exit, WorkerCheck, WorkerPut, WorkerFinish
  <2>2. \A v \in Workers : wk'[v].tier # LRU
    <3>1. CASE Exit(w) \/ WorkerCheck(w) \/ WorkerPut(w)
      <4>1. PICK pc : wk' = [wk EXCEPT ![w].pc = pc]
        BY <3>1 DEF Exit, WorkerCheck, WorkerPut
      <4> QED BY <1>0, <4>1 DEF StagedOnly, PoolShape
    <3>2. CASE WorkerFinish(w)
      <4>1. PICK pc : wk' = [wk EXCEPT ![w] = [Resting EXCEPT !.pc = pc]]
        BY <3>2 DEF WorkerFinish
      <4>2. [Resting EXCEPT !.pc = pc].tier = FILLER
        BY DEF Resting
      <4> QED BY <1>0, <1>a, <4>1, <4>2 DEF StagedOnly, PoolShape
    <3> QED BY <1>4, <3>1, <3>2
  <2> QED BY <1>0, <2>1, <2>2 DEF StagedOnly
<1>5. ASSUME NEW c \in Clients, NEW k, NEW p, NEW t, t # LRU, Claim(c, k, p, t)
      PROVE  StagedOnly'
  BY <1>0, <1>5 DEF Claim, StagedOnly, PoolShape
<1>6. CASE EnqueueInterrupted
  BY <1>0, <1>a, <1>6 DEF EnqueueInterrupted, StagedOnly, PoolShape
<1>7. CASE FillerScan \/ Stop \/ UNCHANGED poolVars
  <2>1. UNCHANGED <<q, wk, en>>
    BY <1>7 DEF FillerScan, Stop, poolVars
  <2> QED BY <1>0, <2>1 DEF StagedOnly
<1>8. CASE FillerEnqueue
  <2>1. PICK k \in batch : Claim("filler", k, 0, FILLER)
    BY <1>8 DEF FillerEnqueue
  <2> QED BY <1>5, <1>a, <2>1 DEF Clients
<1>9. CASE DecodePrefetch
  <2>1. PICK k \in Keys, p \in Prios : Claim("decode", k, p, PREFETCH)
    BY <1>9 DEF DecodePrefetch
  <2> QED BY <1>5, <1>a, <2>1 DEF Clients
<1> QED BY <1>1, <1>2, <1>3, <1>4, <1>6, <1>7, <1>8, <1>9, StreamDrivesPool DEF PoolStep

\* A hit in the arena moves the key to the end.
LEMMA ArenaTouch ==
    ASSUME arena \in Seq(Keys), IsInjective(arena), NEW i \in DOMAIN arena,
           arena' = Append(RemoveAt(arena, i), arena[i])
    PROVE  /\ arena' \in Seq(Keys) /\ IsInjective(arena')
           /\ Len(arena') = Len(arena) /\ Range(arena') = Range(arena)
<1> DEFINE r == RemoveAt(arena, i)
<1>1. /\ r \in Seq(Keys) /\ IsInjective(r) /\ Len(r) = Len(arena) - 1
      /\ Range(r) = Range(arena) \ {arena[i]}
  BY RemoveAtFacts
<1>2. arena[i] \in Range(arena) /\ arena[i] \in Keys /\ Len(arena) \in Nat
  <2>1. Len(arena) \in Nat /\ DOMAIN arena = 1 .. Len(arena)
    BY LenProperties
  <2> QED BY <2>1, ElementOfSeq DEF Range
<1> HIDE DEF r
<1>3. /\ Append(r, arena[i]) \in Seq(Keys) /\ IsInjective(Append(r, arena[i]))
      /\ Len(Append(r, arena[i])) = Len(r) + 1
      /\ Range(Append(r, arena[i])) = Range(r) \cup {arena[i]}
  BY <1>1, <1>2, AppendFacts
<1>4. arena' = Append(r, arena[i])
  BY DEF r
<1>5. arena' \in Seq(Keys) /\ IsInjective(arena')
  BY <1>3, <1>4, Zenon
<1>6. Len(arena') = Len(arena)
  BY <1>1, <1>2, <1>3, <1>4
<1>7. Range(arena') = Range(arena)
  BY <1>1, <1>2, <1>3, <1>4
<1> QED BY <1>5, <1>6, <1>7

\* A full arena gives up its oldest key.
LEMMA ArenaPick ==
    ASSUME arena \in Seq(Keys), IsInjective(arena), Len(arena) <= Slots,
           arena' = IF Len(arena) < Slots THEN arena ELSE Tail(arena)
    PROVE  /\ arena' \in Seq(Keys) /\ IsInjective(arena') /\ Len(arena') < Slots
           /\ Range(arena') \subseteq Range(arena)
<1>1. Len(arena) \in Nat /\ Slots \in Nat \ {0}
  BY LenProperties, StreamConstants
<1>2. CASE Len(arena) < Slots
  BY <1>2
<1>3. CASE ~ (Len(arena) < Slots)
  <2>1. arena # <<>>
    BY <1>1, <1>3, EmptySeq
  <2>2. /\ Tail(arena) \in Seq(Keys) /\ IsInjective(Tail(arena))
        /\ Len(Tail(arena)) = Len(arena) - 1
        /\ Range(Tail(arena)) = Range(arena) \ {Head(arena)}
    BY <2>1, TailFacts
  <2>3. arena' = Tail(arena)
    BY <1>3
  <2> HIDE DEF Range
  <2> QED BY <1>1, <2>2, <2>3
<1> QED BY <1>2, <1>3

\* An insert into an arena with a free slot adds its key.
LEMMA ArenaMap ==
    ASSUME arena \in Seq(Keys), IsInjective(arena), Len(arena) < Slots,
           NEW k \in Keys, k \notin Range(arena), arena' = Append(arena, k)
    PROVE  /\ arena' \in Seq(Keys) /\ IsInjective(arena') /\ Len(arena') <= Slots
           /\ Range(arena') = Range(arena) \cup {k}
<1>1. Len(arena) \in Nat /\ Slots \in Nat
  BY LenProperties, StreamConstants
<1>2. /\ Append(arena, k) \in Seq(Keys) /\ IsInjective(Append(arena, k))
      /\ Len(Append(arena, k)) = Len(arena) + 1
      /\ Range(Append(arena, k)) = Range(arena) \cup {k}
  BY AppendFacts
<1> QED BY <1>1, <1>2

LEMMA StreamShapeStep ==
    ASSUME StreamInv, [StreamNext]_streamVars
    PROVE  StreamShape'
<1>0. /\ arena \in Seq(Keys) /\ IsInjective(arena) /\ Len(arena) <= Slots
      /\ wanted \subseteq Keys /\ toPrefetch \subseteq Keys
      /\ dec \in [pc : {"idle", "prefetch", "next", "remove"} \cup Resolving,
                  key : Keys \cup {NoKey}, path : {"arena", "dict"}]
      /\ dec.pc \in Resolving \cup {"remove"} => dec.key \in Keys
      /\ dec.pc \in Resolving => dec.key \notin Range(arena)
      /\ dec.pc = "insert" => Len(arena) < Slots
      /\ StreamShape
  BY DEF StreamInv, StreamShape
<1>1. CASE Forward
  BY <1>0, <1>1 DEF Forward, StreamShape, AtRest, Resolving
<1>2. CASE PrefetchOne \/ PrefetchDone
  BY <1>0, <1>2 DEF PrefetchOne, PrefetchDone, Goto, At, StreamShape, Resolving
<1>3. CASE Lookup
  <2>1. CASE \E k \in wanted, i \in DOMAIN arena :
                /\ arena[i] = k /\ arena' = Append(RemoveAt(arena, i), k)
                /\ wanted' = wanted \ {k} /\ dec' = dec
    <3>1. /\ arena' \in Seq(Keys) /\ IsInjective(arena')
          /\ Len(arena') = Len(arena) /\ Range(arena') = Range(arena)
      BY <1>0, <2>1, ArenaTouch
    <3> QED BY <1>0, <1>3, <2>1, <3>1 DEF Lookup, StreamShape
  <2>2. CASE \E k \in wanted : /\ ~ InArena(k)
                               /\ dec' = [dec EXCEPT !.pc = "get", !.key = k]
                               /\ UNCHANGED <<arena, wanted>>
    BY <1>0, <1>3, <2>2 DEF Lookup, InArena, StreamShape, Resolving
  <2> QED BY <1>3, <2>1, <2>2 DEF Lookup
<1>4. CASE ForwardDone
  BY <1>0, <1>4 DEF ForwardDone, AtRest, StreamShape, Resolving
<1>5. CASE FirstGet \/ Poll \/ LastGet
  BY <1>0, <1>5 DEF FirstGet, Poll, LastGet, GetStep, At, Goto, StreamShape, Resolving
<1>6. CASE WaitOn \/ WaitOver \/ SyncPut
  BY <1>0, <1>6 DEF WaitOn, WaitOver, SyncPut, At, Goto, StreamShape, Resolving
<1>7. CASE SyncLoad
  BY <1>0, <1>7 DEF SyncLoad, At, Goto, AtRest, StreamShape, Resolving
<1>8. CASE UseArrays
  BY <1>0, <1>8 DEF UseArrays, Resume, StreamShape, Resolving
<1>9. CASE InsertPick
  <2>1. dec.key \in Keys /\ dec.key \notin Range(arena)
    BY <1>0, <1>9 DEF InsertPick, At, Resolving
  <2>2. /\ arena' \in Seq(Keys) /\ IsInjective(arena') /\ Len(arena') < Slots
        /\ Range(arena') \subseteq Range(arena)
    BY <1>0, <1>9, ArenaPick DEF InsertPick
  <2>3. Len(arena') <= Slots
    BY <2>2, LenProperties, StreamConstants
  <2> QED BY <1>0, <1>9, <2>1, <2>2, <2>3 DEF InsertPick, Goto, StreamShape, Resolving
<1>12. CASE InsertMap
  <2>1. dec.key \in Keys /\ dec.key \notin Range(arena) /\ Len(arena) < Slots
    BY <1>0, <1>12 DEF InsertMap, At, Resolving
  <2>2. arena' \in Seq(Keys) /\ IsInjective(arena') /\ Len(arena') <= Slots
    BY <1>0, <1>12, <2>1, ArenaMap DEF InsertMap
  <2> QED BY <1>0, <1>12, <2>1, <2>2 DEF InsertMap, Goto, StreamShape, Resolving
<1>13. CASE Interrupted
  BY <1>0, <1>13 DEF Interrupted, AtRest, StreamShape, Resolving
<1>10. CASE DropEntry
  BY <1>0, <1>10 DEF DropEntry, Resume, StreamShape, Resolving
<1>11. CASE Shrink \/ Background \/ UNCHANGED streamVars
  BY <1>0, <1>11 DEF Shrink, Background, streamVars, decodeVars, StreamShape
<1> QED BY <1>1, <1>2, <1>3, <1>4, <1>5, <1>6, <1>7, <1>8, <1>9, <1>10, <1>11, <1>12, <1>13
        DEF StreamNext, DecodeStep

LEMMA NotInLruStep ==
    ASSUME StreamInv, [StreamNext]_streamVars
    PROVE  ArenaNotInLru'
<1>0. /\ CacheInv /\ PoolShape /\ Requests /\ ArenaNotInLru /\ StagedOnly
      /\ arena \in Seq(Keys) /\ IsInjective(arena) /\ Len(arena) <= Slots
      /\ dec \in [pc : {"idle", "prefetch", "next", "remove"} \cup Resolving,
                  key : Keys \cup {NoKey}, path : {"arena", "dict"}]
      /\ dec.pc \in Resolving \cup {"remove"} => dec.key \in Keys
      /\ dec.pc \in Resolving => dec.key \notin Range(arena)
      /\ dec.pc = "insert" => Len(arena) < Slots
  BY DEF StreamInv, PoolInv, StreamShape
<1>a. dec.pc # "remove" => Range(arena) \cap Held(LRU) \subseteq kept
  BY <1>0 DEF ArenaNotInLru, At
<1>1. CASE Background
  <2>1. Held(LRU)' \subseteq Held(LRU)
    <3>1. ASSUME NEW w \in Workers, WorkerPut(w)  PROVE Held(LRU)' \subseteq Held(LRU)
      <4>1. Put(wk[w].key, wk[w].tier)
        BY <3>1 DEF WorkerPut
      <4>2. wk[w].key \in Keys /\ wk[w].tier \in Tiers /\ wk[w].tier # LRU
        BY <1>0, <3>1 DEF WorkerPut, Busy, Requests, PoolShape, StagedOnly
      <4> QED BY <1>0, <4>1, <4>2, LruGains
    <3>2. CASE UNCHANGED cacheVars
      BY <3>2 DEF cacheVars, Held
    <3>3. (\E w \in Workers : WorkerPut(w)) \/ UNCHANGED cacheVars
      BY <1>1 DEF Background, IONext, EnqueueStep, EnqueueCheck, EnqueuePut, EnqueueUnclaim,
                  WorkerStep, Take, Exit, WorkerCheck, WorkerFinish,
                  FillerScan, FillerEnqueue, Claim, Stop, EnqueueInterrupted
    <3> QED BY <3>1, <3>2, <3>3
  <2>2. UNCHANGED <<arena, dec, kept>>
    BY <1>1 DEF Background, decodeVars
  <2> QED BY <1>0, <2>1, <2>2 DEF ArenaNotInLru, At
<1>2. CASE PrefetchOne \/ Forward \/ PrefetchDone \/ ForwardDone \/ WaitOn \/ WaitOver
           \/ SyncLoad \/ UseArrays \/ UNCHANGED streamVars
  <2>1. UNCHANGED <<arena, cacheVars, kept>> /\ (dec.pc = "remove" => dec' = dec)
    BY <1>2 DEF PrefetchOne, Claim, Forward, PrefetchDone, ForwardDone, WaitOn, WaitOver,
                SyncLoad, UseArrays, streamVars, decodeVars, vars, At
  <2>2. Held(LRU)' = Held(LRU)
    BY <2>1 DEF cacheVars, Held
  <2> QED BY <1>0, <1>a, <2>1, <2>2 DEF ArenaNotInLru, At
<1>3. CASE Lookup
  <2>1. UNCHANGED <<cacheVars, kept>> /\ dec.pc = "next"
    BY <1>3 DEF Lookup, At, vars
  <2>2. Held(LRU)' = Held(LRU)
    BY <2>1 DEF cacheVars, Held
  <2>3. Range(arena') = Range(arena)
    <3>1. CASE \E i \in DOMAIN arena : arena' = Append(RemoveAt(arena, i), arena[i])
      BY <1>0, <3>1, ArenaTouch
    <3>2. CASE arena' = arena
      BY <3>2
    <3> QED BY <1>3, <3>1, <3>2 DEF Lookup
  <2> QED BY <1>a, <2>1, <2>2, <2>3 DEF ArenaNotInLru
<1>4. CASE FirstGet \/ Poll \/ LastGet
  <2>1. Get(dec.key) /\ dec.pc \in Resolving /\ arena' = arena /\ kept' = kept
    BY <1>4 DEF FirstGet, Poll, LastGet, GetStep, Get, At, Resolving
  <2>2. Held(LRU)' \subseteq Held(LRU) \cup {dec.key}
    BY <1>0, <2>1, LruGains
  <2> QED BY <1>0, <1>a, <2>1, <2>2 DEF ArenaNotInLru, Resolving
<1>5. CASE SyncPut
  <2>1. Put(dec.key, LRU) /\ dec.pc \in Resolving /\ arena' = arena /\ kept' = kept
    BY <1>5 DEF SyncPut, At, Resolving
  <2>2. Held(LRU)' \subseteq Held(LRU) \cup {dec.key}
    BY <1>0, <2>1, LruGains DEF Tiers
  <2> QED BY <1>0, <1>a, <2>1, <2>2 DEF ArenaNotInLru, Resolving
<1>6. CASE InsertPick \/ InsertMap
  <2>1. dec.key \in Keys /\ dec.key \notin Range(arena) /\ dec.pc # "remove"
    BY <1>0, <1>6 DEF InsertPick, InsertMap, At, Resolving
  <2>2. Held(LRU)' = Held(LRU) /\ kept' = kept
    BY <1>6 DEF InsertPick, InsertMap, vars, cacheVars, Held
  <2>3. CASE InsertPick
    <3>1. Range(arena') \subseteq Range(arena)
      BY <1>0, <2>3, ArenaPick DEF InsertPick
    <3> QED BY <1>a, <2>1, <2>2, <3>1 DEF ArenaNotInLru
  <2>4. CASE InsertMap
    <3>1. Range(arena') = Range(arena) \cup {dec.key}
      BY <1>0, <2>1, <2>4, ArenaMap DEF InsertMap, At
    <3>2. dec'.pc = "remove" /\ dec'.key = dec.key
      BY <1>0, <2>4 DEF InsertMap, Goto
    <3> QED BY <1>a, <2>1, <2>2, <3>1, <3>2 DEF ArenaNotInLru, At
  <2> QED BY <1>6, <2>3, <2>4
<1>7. CASE DropEntry
  <2>1. /\ RemoveKey(dec.key) /\ dec.key \in Keys /\ dec.pc = "remove"
        /\ arena' = arena /\ kept' = kept \ {dec.key}
    BY <1>0, <1>7 DEF DropEntry, At
  <2>2. Held(LRU)' \subseteq Held(LRU) \ {dec.key}
    BY <1>0, <2>1, LruGains
  <2> QED BY <1>0, <2>1, <2>2 DEF ArenaNotInLru, At
<1>8. CASE Shrink
  <2>1. PICK b \in ShrinkTo : ShrinkLru(b)
    BY <1>8 DEF Shrink
  <2>2. Held(LRU)' \subseteq Held(LRU)
    BY <1>0, <2>1, ShrinkGains
  <2>3. arena' = arena /\ dec' = dec /\ kept' = kept
    BY <1>8 DEF Shrink, decodeVars
  <2> QED BY <1>0, <2>2, <2>3 DEF ArenaNotInLru, At
<1>9. CASE Interrupted
  <2>1. Held(LRU)' = Held(LRU) /\ arena' = arena
    BY <1>9 DEF Interrupted, EnqueueInterrupted, vars, cacheVars, Held
  <2>2. kept' = IF dec.pc = "remove" THEN kept \cup {dec.key} ELSE kept
    BY <1>9 DEF Interrupted, At
  <2> QED BY <1>0, <2>1, <2>2 DEF ArenaNotInLru, At
<1> QED BY <1>1, <1>2, <1>3, <1>4, <1>5, <1>6, <1>7, <1>8, <1>9 DEF StreamNext, DecodeStep

LEMMA StreamInitInv == StreamInit => StreamInv
<1> SUFFICES ASSUME StreamInit PROVE StreamInv
  OBVIOUS
<1>1. PoolInv
  BY PoolInitInv DEF StreamInit
<1>2. arena \in Seq(Keys) /\ Len(arena) = 0 /\ Range(arena) = {} /\ IsInjective(arena)
  <2>1. arena = <<>>
    BY DEF StreamInit
  <2> QED BY <2>1, EmptySeq, EmptyFacts
<1>3. StreamShape
  BY <1>2, StreamConstants DEF StreamInit, StreamShape, AtRest, Resolving
<1>4. StagedOnly
  <2>1. q = <<>> /\ DOMAIN q = {}
    <3>1. q = <<>>
      BY DEF StreamInit, PoolInit
    <3> QED BY <3>1, EmptySeq
  <2> QED BY <2>1 DEF StreamInit, PoolInit, StagedOnly, Resting, Idle, FILLER, LRU
<1>5. ArenaNotInLru
  BY <1>2 DEF ArenaNotInLru
<1> QED BY <1>1, <1>3, <1>4, <1>5 DEF StreamInv

LEMMA StreamStepInv == StreamInv /\ [StreamNext]_streamVars => StreamInv'
<1> SUFFICES ASSUME StreamInv, [StreamNext]_streamVars PROVE StreamInv'
  OBVIOUS
<1>1. PoolInv'
  BY StreamDrivesPool, PoolKept DEF StreamInv
<1> QED BY <1>1, StagedStep, StreamShapeStep, NotInLruStep DEF StreamInv

\* The inductive invariant of the runtime over the pool over the cache.
THEOREM StreamInvariant == StreamSpec => []StreamInv
<1>1. StreamInit => StreamInv
  BY StreamInitInv
<1>2. StreamInv /\ [StreamNext]_streamVars => StreamInv'
  BY StreamStepInv
<1> QED BY <1>1, <1>2, PTL DEF StreamSpec

\* An expert resident in the arena takes no LRU budget, except while it is being
\* moved and when Ctrl+C cut its move before the removal, whatever the workers and
\* the filler load meanwhile (model.py:41-52).
THEOREM StreamArenaNotInLru == StreamSpec => []ArenaNotInLru
<1>1. StreamInv => ArenaNotInLru
  BY DEF StreamInv
<1> QED BY <1>1, StreamInvariant, PTL

\* What holds of the pool under a decode thread that may call anything holds of
\* it in the runtime: owners of the keys in flight, the filler's load, and the
\* accounts of the cache.
THEOREM StreamKeepsPool ==
    StreamSpec => [](InFlightOwned /\ FillerBounded /\ OneTier /\ Accounting)
<1>1. StreamInv => InFlightOwned /\ FillerBounded /\ OneTier /\ Accounting
  BY DEF StreamInv, PoolInv, CacheInv, Sound, OneTier, Accounting, Held
<1> QED BY <1>1, StreamInvariant, PTL

\* The decode thread is inside enqueue only while it prefetches, so that its calls
\* of the cache never come in the middle of one.
EnqueueInPrefetch == At("prefetch") \/ en["decode"].pc = "idle"

LEMMA PrefetchStep ==
    ASSUME StreamInv, EnqueueInPrefetch, [StreamNext]_streamVars
    PROVE  EnqueueInPrefetch'
<1>1. /\ en \in [Clients -> [pc : {"idle", "claimed", "queue", "unclaim"},
                             key : Keys \cup {NoKey}, prio : Prios \cup {0}, tier : Tiers]]
      /\ {"decode", "filler"} \subseteq Clients
  BY DEF StreamInv, PoolInv, PoolShape, PoolTypeOK, Clients
<1>2. dec \in [pc : {"idle", "prefetch", "next", "remove"} \cup Resolving,
              key : Keys \cup {NoKey}, path : {"arena", "dict"}]
  BY DEF StreamInv, StreamShape
<1>3. CASE Background
  <2>1. dec' = dec
    BY <1>3 DEF Background, decodeVars
  <2>2. en["decode"].pc = "idle" => en'["decode"].pc = "idle"
    <3> SUFFICES ASSUME en["decode"].pc = "idle"  PROVE en'["decode"].pc = "idle"
      OBVIOUS
    <3>1. ASSUME NEW w \in Workers, WorkerStep(w)  PROVE en' = en
      BY <3>1 DEF WorkerStep, Take, Exit, WorkerCheck, WorkerPut, WorkerFinish
    <3>2. ASSUME NEW c \in Clients, EnqueueStep(c)  PROVE en'["decode"].pc = "idle"
      <4>1. c # "decode"
        BY <3>2 DEF EnqueueStep, EnqueueCheck, EnqueuePut, EnqueueUnclaim
      <4>2. en'["decode"] = en["decode"]
        BY <1>1, <3>2, <4>1 DEF EnqueueStep, EnqueueCheck, EnqueuePut, EnqueueUnclaim
      <4> QED BY <4>2
    <3>3. ASSUME FillerEnqueue  PROVE en'["decode"] = en["decode"]
      BY <1>1, <3>3 DEF FillerEnqueue, Claim
    <3>4. ASSUME FillerScan \/ Stop  PROVE en' = en
      BY <3>4 DEF FillerScan, Stop
    <3> QED BY <1>3, <3>1, <3>2, <3>3, <3>4 DEF Background, IONext
  <2> QED BY <2>1, <2>2 DEF EnqueueInPrefetch, At
<1>4. CASE PrefetchOne
  BY <1>4 DEF PrefetchOne, EnqueueInPrefetch, At
<1>5. CASE PrefetchDone \/ Forward
  <2>1. en' = en
    BY <1>5 DEF PrefetchDone, Forward, vars, poolVars
  <2>2. en["decode"].pc = "idle"
    BY <1>5 DEF PrefetchDone, Forward, EnqueueInPrefetch, At
  <2> QED BY <2>1, <2>2 DEF EnqueueInPrefetch
<1>6. CASE \/ Lookup \/ ForwardDone \/ FirstGet \/ Poll \/ LastGet \/ WaitOn \/ WaitOver
           \/ SyncLoad \/ SyncPut \/ UseArrays \/ InsertPick \/ InsertMap \/ DropEntry
  <2>1. ~ At("prefetch")
    BY <1>6 DEF Lookup, ForwardDone, FirstGet, Poll, LastGet, GetStep, WaitOn, WaitOver, SyncLoad,
                SyncPut, UseArrays, InsertPick, InsertMap, DropEntry, At
  <2>2. en' = en
    BY <1>6 DEF Lookup, ForwardDone, FirstGet, Poll, LastGet, GetStep, WaitOn, WaitOver, SyncLoad,
                SyncPut, UseArrays, InsertPick, InsertMap, DropEntry, vars, poolVars
  <2> QED BY <2>1, <2>2 DEF EnqueueInPrefetch
<1>7. CASE Shrink \/ UNCHANGED streamVars
  BY <1>7 DEF Shrink, streamVars, vars, poolVars, decodeVars, EnqueueInPrefetch, At
<1>8. CASE Interrupted
  <2>1. CASE EnqueueInterrupted
    <3>1. en'["decode"] = Idle
      BY <1>1, <2>1 DEF EnqueueInterrupted
    <3> QED BY <3>1 DEF Idle, EnqueueInPrefetch
  <2>2. CASE en["decode"].pc = "idle" /\ UNCHANGED vars
    BY <2>2 DEF vars, poolVars, EnqueueInPrefetch
  <2> QED BY <1>8, <2>1, <2>2 DEF Interrupted
<1> QED BY <1>3, <1>4, <1>5, <1>6, <1>7, <1>8 DEF StreamNext, DecodeStep

LEMMA StreamStepsPool ==
    ASSUME StreamInv, EnqueueInPrefetch, [StreamNext]_streamVars
    PROVE  [PoolNext]_vars
<1>1. /\ dec.pc \in Resolving \cup {"remove"} => dec.key \in Keys
      /\ toPrefetch \subseteq Keys
  BY DEF StreamInv, StreamShape
<1>2. CASE Background
  BY <1>2 DEF Background, PoolNext
<1>3. CASE PrefetchOne
  BY <1>1, <1>3 DEF PrefetchOne, DecodePrefetch, PoolNext
<1>4. CASE FirstGet \/ Poll \/ LastGet
  <2>1. UNCHANGED poolVars /\ Get(dec.key) /\ dec.key \in Keys /\ ~ At("prefetch")
    BY <1>1, <1>4 DEF FirstGet, Poll, LastGet, GetStep, Get, At, Resolving
  <2> QED BY <2>1 DEF EnqueueInPrefetch, DecodeCacheCall, PoolNext
<1>5. CASE SyncPut
  <2>1. UNCHANGED poolVars /\ Put(dec.key, LRU) /\ dec.key \in Keys /\ ~ At("prefetch")
    BY <1>1, <1>5 DEF SyncPut, At, Resolving
  <2> QED BY <2>1 DEF EnqueueInPrefetch, DecodeCacheCall, PoolNext
<1>6. CASE DropEntry
  <2>1. UNCHANGED poolVars /\ RemoveKey(dec.key) /\ dec.key \in Keys /\ ~ At("prefetch")
    BY <1>1, <1>6 DEF DropEntry, At, Resolving
  <2> QED BY <2>1 DEF EnqueueInPrefetch, DecodeCacheCall, PoolNext
<1>7. CASE Shrink
  <2>1. UNCHANGED poolVars /\ (\E b \in ShrinkTo : ShrinkLru(b)) /\ ~ At("prefetch")
    BY <1>7 DEF Shrink, At
  <2> QED BY <2>1 DEF EnqueueInPrefetch, DecodeCacheCall, PoolNext
<1>8. CASE \/ Forward \/ PrefetchDone \/ Lookup \/ ForwardDone \/ WaitOn \/ WaitOver
           \/ SyncLoad \/ UseArrays \/ InsertPick \/ InsertMap \/ UNCHANGED streamVars
  BY <1>8 DEF Forward, PrefetchDone, Lookup, ForwardDone, WaitOn, WaitOver, SyncLoad,
              UseArrays, InsertPick, InsertMap, streamVars
<1>9. CASE Interrupted
  BY <1>9 DEF Interrupted, PoolNext
<1> QED BY <1>2, <1>3, <1>4, <1>5, <1>6, <1>7, <1>8, <1>9 DEF StreamNext, DecodeStep

\* The runtime (model.py:41-86, 141-275, 360-403) is one of the programs the pool was
\* modelled for: every behaviour of it is, in the state of cache and pool, one of the pool
\* under a decode thread that may call anything, but not while inside enqueue.
THEOREM StreamImplementsPool == StreamSpec => CacheInit /\ PoolInit /\ [][PoolNext]_vars
<1>1. StreamInit => CacheInit /\ PoolInit /\ EnqueueInPrefetch
  <2>1. PoolInit => en["decode"].pc = "idle"
    BY DEF PoolInit, Clients, Idle
  <2> QED BY <2>1 DEF StreamInit, EnqueueInPrefetch
<1>2. StreamInv /\ EnqueueInPrefetch /\ [StreamNext]_streamVars => EnqueueInPrefetch' /\ [PoolNext]_vars
  BY PrefetchStep, StreamStepsPool
<1> QED BY <1>1, <1>2, StreamInvariant, PTL DEF StreamSpec
=============================================================================

-------------------------- MODULE ExpertCacheProofs --------------------------
(***************************************************************************)
(* Proofs about ExpertCache for every set of keys, every sizes and every   *)
(* budgets.  Sound is the inductive invariant; it is stated of arbitrary   *)
(* contents ts, accounts us and budgets bs because _insert works on what   *)
(* get leaves after taking a promoted key out, which is not a state of the *)
(* specification.                                                          *)
(***************************************************************************)
EXTENDS ExpertCache, KeyOrders, TLAPS

Sound(ts, us, bs) ==
    /\ ts \in [Tiers -> Seq(Keys)]
    /\ us \in [Tiers -> Int]
    /\ bs \in [Tiers -> Nat]
    /\ \A t \in Tiers : IsInjective(ts[t])
    /\ \A t, u \in Tiers : t # u => Range(ts[t]) \cap Range(ts[u]) = {}
    /\ \A t \in Tiers : us[t] = Bytes[Range(ts[t])] /\ us[t] <= bs[t]

CacheInv == Sound(tiers, used, budget)

-----------------------------------------------------------------------------
(* The accounts.                                                           *)

\* The bytes of a part and of the rest add up.
LEMMA BytesSplit ==
    ASSUME NEW S \in SUBSET Keys, NEW A \in SUBSET S
    PROVE  /\ Bytes[S \ A] = Bytes[S] - Bytes[A]
           /\ Bytes[A] \in Nat /\ Bytes[S] \in Nat /\ Bytes[S \ A] \in Nat
<1>1. A \cap (S \ A) = {} /\ A \cup (S \ A) = S /\ A \in SUBSET Keys /\ S \ A \in SUBSET Keys
  OBVIOUS
<1>2. Bytes[A \cup (S \ A)] = Bytes[A] + Bytes[S \ A]
  BY <1>1, BytesAdditive
<1>3. Bytes[A] \in Nat /\ Bytes[S] \in Nat /\ Bytes[S \ A] \in Nat
  BY <1>1, BytesAdditive
<1>4. Bytes[S] = Bytes[A] + Bytes[S \ A]
  BY <1>1, <1>2, Zenon
<1>5. \A x, y, z \in Nat : x = y + z => z = x - y
  OBVIOUS
<1> QED BY <1>3, <1>4, <1>5

\* The second loop of _make_room never runs: when an entry is admitted at all,
\* emptying its own tier always makes enough room (cache.py:165-173).
LEMMA DonorLoopDead ==
    ASSUME NEW ts, NEW us, Sound(ts, us, budget),
           NEW t \in Tiers, NEW nb \in Nat, nb <= budget[t],
           NEW n \in 0 .. Len(ts[t]), Pops(ts, us, t, nb, n)
    PROVE  Fits(ts, us, t, nb, n) /\ Robbed(ts, us, t, nb, n) = {}
<1>1. ts[t] \in Seq(Keys) /\ us[t] = Bytes[Range(ts[t])] /\ budget[t] \in Nat
  BY DEF Sound
<1>2. ASSUME n = Len(ts[t])  PROVE Fits(ts, us, t, nb, n)
  <2>1. SubSeq(ts[t], 1, n) = ts[t]
    BY <1>1, <1>2, SubSeqFull
  <2>2. Bytes[Range(ts[t])] \in Nat
    BY <1>1, RangeOfSeq, BytesAdditive
  <2>3. us[t] - Bytes[Range(ts[t])] + nb <= budget[t]
    BY <1>1, <2>2
  <2> QED BY <2>1, <2>3, Zenon DEF Fits
<1>3. Fits(ts, us, t, nb, n)
  BY <1>2 DEF Pops
<1> QED BY <1>3 DEF Robbed

\* _insert keeps the cache sound when the key is in no tier.
LEMMA InsertSound ==
    ASSUME NEW ts, NEW us, Sound(ts, us, budget), NEW t \in Tiers, NEW k \in Keys,
           \A x \in Tiers : k \notin Range(ts[x]),
           InsertInto(ts, us, t, k), UNCHANGED budget
    PROVE  CacheInv'
<1> DEFINE nb == Bytes[{k}]
<1>1. nb \in Nat
  BY BytesAdditive
<1>2. CASE nb > budget[t]
  <2>1. tiers' = ts /\ used' = us
    BY <1>2 DEF InsertInto
  <2> QED BY <2>1 DEF CacheInv, Sound
<1>3. CASE ~ (nb > budget[t])
  <2>1. PICK n \in 0 .. Len(ts[t]) :
          /\ Pops(ts, us, t, nb, n)
          /\ tiers' = [x \in Tiers |->
                IF x = t THEN Append(SubSeq(ts[t], n + 1, Len(ts[t])), k)
                ELSE IF x \in Robbed(ts, us, t, nb, n) THEN <<>> ELSE ts[x]]
          /\ used' = [x \in Tiers |->
                us[x] - Bytes[Victims(ts, us, t, nb, n, x)] + (IF x = t THEN nb ELSE 0)]
    BY <1>3 DEF InsertInto
  <2>2. /\ ts \in [Tiers -> Seq(Keys)] /\ us \in [Tiers -> Int] /\ budget \in [Tiers -> Nat]
        /\ \A x \in Tiers : IsInjective(ts[x])
        /\ \A x, y \in Tiers : x # y => Range(ts[x]) \cap Range(ts[y]) = {}
        /\ \A x \in Tiers : us[x] = Bytes[Range(ts[x])] /\ us[x] <= budget[x]
    BY DEF Sound
  <2> DEFINE old == SubSeq(ts[t], 1, n)
             rest == SubSeq(ts[t], n + 1, Len(ts[t]))
  <2>3. Fits(ts, us, t, nb, n) /\ Robbed(ts, us, t, nb, n) = {}
    <3>1. nb <= budget[t]
      BY <1>1, <1>3, <2>2
    <3> QED BY <3>1, <1>1, <2>1, DonorLoopDead
  <2>4. /\ rest \in Seq(Keys) /\ IsInjective(rest)
        /\ Range(old) \in SUBSET Keys /\ Range(old) \subseteq Range(ts[t])
        /\ Range(rest) = Range(ts[t]) \ Range(old)
    BY <2>2, SplitFacts
  <2> HIDE DEF old, rest
  <2>5. /\ Append(rest, k) \in Seq(Keys) /\ IsInjective(Append(rest, k))
        /\ Range(Append(rest, k)) = Range(rest) \cup {k}
    BY <2>4, AppendFacts
  <2>6. tiers' = [x \in Tiers |-> IF x = t THEN Append(rest, k) ELSE ts[x]]
    BY <2>1, <2>3 DEF rest
  <2>7. \A x \in Tiers : used'[x] = us[x] - Bytes[IF x = t THEN Range(old) ELSE {}]
                                          + (IF x = t THEN nb ELSE 0)
    BY <2>1, <2>3 DEF old, Victims
  <2>8. Bytes[Range(rest)] = us[t] - Bytes[Range(old)] /\ Bytes[Range(rest)] \in Nat
    <3>1. Range(ts[t]) \in SUBSET Keys
      BY <2>2, RangeOfSeq
    <3>2. /\ Bytes[Range(ts[t]) \ Range(old)] = Bytes[Range(ts[t])] - Bytes[Range(old)]
          /\ Bytes[Range(ts[t]) \ Range(old)] \in Nat
      BY <3>1, <2>4, BytesSplit
    <3> QED BY <3>2, <2>2, <2>4
  <2>9. Bytes[Range(rest) \cup {k}] = Bytes[Range(rest)] + nb
    <3>1. Range(rest) \in SUBSET Keys /\ Range(rest) \cap {k} = {}
      BY <2>4, RangeOfSeq
    <3> QED BY <3>1, BytesAdditive
  <2>10. used'[t] = Bytes[Range(rest)] + nb /\ used'[t] <= budget[t]
    <3>1. used'[t] = us[t] - Bytes[Range(old)] + nb
      BY <2>7
    <3>2. us[t] - Bytes[Range(old)] + nb <= budget[t]
      BY <2>3 DEF Fits, old
    <3> QED BY <3>1, <3>2, <2>8
  <2>11. ASSUME NEW x \in Tiers, x # t  PROVE used'[x] = us[x]
    <3>1. used'[x] = us[x] - Bytes[{}] + 0
      BY <2>7, <2>11
    <3> QED BY <3>1, <2>2, BytesAdditive
  <2>12. /\ tiers' \in [Tiers -> Seq(Keys)]
         /\ \A x \in Tiers : IsInjective(tiers'[x])
    BY <2>2, <2>5, <2>6
  <2>13. \A x, y \in Tiers : x # y => Range(tiers'[x]) \cap Range(tiers'[y]) = {}
    BY <2>2, <2>4, <2>5, <2>6
  <2>14. used' \in [Tiers -> Int]
    <3>1. \A x \in Tiers : used'[x] \in Int
      BY <2>2, <2>8, <2>10, <2>11, <1>1
    <3> QED BY <3>1, <2>1
  <2>15. \A x \in Tiers : used'[x] = Bytes[Range(tiers'[x])] /\ used'[x] <= budget[x]
    BY <2>2, <2>5, <2>6, <2>9, <2>10, <2>11
  <2> QED BY <2>2, <2>12, <2>13, <2>14, <2>15 DEF CacheInv, Sound
<1> QED BY <1>2, <1>3

\* Taking one entry out keeps the rest sound.
LEMMA TakeOutSound ==
    ASSUME CacheInv, NEW t \in Tiers, NEW i \in DOMAIN tiers[t]
    PROVE  /\ Sound(Without(t, i), [used EXCEPT ![t] = @ - Bytes[{tiers[t][i]}]], budget)
           /\ tiers[t][i] \in Keys
           /\ \A x \in Tiers : tiers[t][i] \notin Range(Without(t, i)[x])
<1> DEFINE k == tiers[t][i]
           ts == Without(t, i)
           us == [used EXCEPT ![t] = @ - Bytes[{k}]]
<1>1. /\ tiers \in [Tiers -> Seq(Keys)] /\ used \in [Tiers -> Int] /\ budget \in [Tiers -> Nat]
      /\ \A x \in Tiers : IsInjective(tiers[x])
      /\ \A x, y \in Tiers : x # y => Range(tiers[x]) \cap Range(tiers[y]) = {}
      /\ \A x \in Tiers : used[x] = Bytes[Range(tiers[x])] /\ used[x] <= budget[x]
  BY DEF CacheInv, Sound
<1>2. /\ RemoveAt(tiers[t], i) \in Seq(Keys) /\ IsInjective(RemoveAt(tiers[t], i))
      /\ Range(RemoveAt(tiers[t], i)) = Range(tiers[t]) \ {k}
  BY <1>1, RemoveAtFacts
<1>3. k \in Range(tiers[t]) /\ Range(tiers[t]) \in SUBSET Keys
  BY <1>1, RangeOfSeq DEF Range
<1>4. /\ Bytes[Range(tiers[t]) \ {k}] = Bytes[Range(tiers[t])] - Bytes[{k}]
      /\ Bytes[{k}] \in Nat
  BY <1>3, BytesSplit
<1>5. ts = [x \in Tiers |-> IF x = t THEN RemoveAt(tiers[t], i) ELSE tiers[x]]
  BY <1>1 DEF Without
<1>6. us = [x \in Tiers |-> IF x = t THEN used[t] - Bytes[{k}] ELSE used[x]]
  BY <1>1
<1> HIDE DEF ts, us, k
<1>7. \A x \in Tiers : Range(ts[x]) = IF x = t THEN Range(tiers[t]) \ {k} ELSE Range(tiers[x])
  BY <1>2, <1>5
<1>8. ts \in [Tiers -> Seq(Keys)] /\ \A x \in Tiers : IsInjective(ts[x])
  BY <1>1, <1>2, <1>5
<1>9. us \in [Tiers -> Int]
  BY <1>1, <1>4, <1>6
<1>10. \A x, y \in Tiers : x # y => Range(ts[x]) \cap Range(ts[y]) = {}
  BY <1>1, <1>7
<1>11. \A x \in Tiers : us[x] = Bytes[Range(ts[x])] /\ us[x] <= budget[x]
  <2>1. ASSUME NEW x \in Tiers, x # t  PROVE us[x] = Bytes[Range(ts[x])] /\ us[x] <= budget[x]
    BY <2>1, <1>1, <1>6, <1>7
  <2>2. us[t] = used[t] - Bytes[{k}] /\ Range(ts[t]) = Range(tiers[t]) \ {k}
    BY <1>6, <1>7
  <2>3. us[t] = Bytes[Range(ts[t])] /\ us[t] <= budget[t]
    BY <2>2, <1>1, <1>4
  <2> QED BY <2>1, <2>3
<1>12. \A x \in Tiers : k \notin Range(ts[x])
  BY <1>1, <1>3, <1>7
<1>13. Sound(ts, us, budget)
  BY <1>1, <1>8, <1>9, <1>10, <1>11 DEF Sound
<1> QED BY <1>3, <1>12, <1>13 DEF ts, us, k


-----------------------------------------------------------------------------
LEMMA CacheInitSound == CacheInit => CacheInv
<1> SUFFICES ASSUME CacheInit PROVE CacheInv
  OBVIOUS
<1>1. tiers \in [Tiers -> Seq(Keys)] /\ \A t \in Tiers : tiers[t] = <<>>
  BY DEF CacheInit
<1>2. \A t \in Tiers : Range(tiers[t]) = {} /\ IsInjective(tiers[t])
  BY <1>1, EmptyFacts
<1>3. used \in [Tiers -> Int] /\ \A t \in Tiers : used[t] = 0
  BY DEF CacheInit
<1>4. budget \in [Tiers -> Nat]
  BY BudgetsAreBytes DEF CacheInit, Tiers, LRU, PREFETCH, FILLER
<1>5. \A t \in Tiers : used[t] = Bytes[Range(tiers[t])] /\ used[t] <= budget[t]
  BY <1>2, <1>3, <1>4, BytesAdditive
<1>6. \A t, u \in Tiers : t # u => Range(tiers[t]) \cap Range(tiers[u]) = {}
  BY <1>2
<1> QED BY <1>1, <1>2, <1>3, <1>4, <1>5, <1>6 DEF CacheInv, Sound

\* Every method of the cache keeps it sound.
LEMMA CacheStepSound == CacheInv /\ [CacheNext]_cacheVars => CacheInv'
<1> SUFFICES ASSUME CacheInv, [CacheNext]_cacheVars PROVE CacheInv'
  OBVIOUS
<1>0. /\ tiers \in [Tiers -> Seq(Keys)] /\ used \in [Tiers -> Int] /\ budget \in [Tiers -> Nat]
      /\ \A x \in Tiers : IsInjective(tiers[x])
      /\ \A x, y \in Tiers : x # y => Range(tiers[x]) \cap Range(tiers[y]) = {}
      /\ \A x \in Tiers : used[x] = Bytes[Range(tiers[x])] /\ used[x] <= budget[x]
  BY DEF CacheInv, Sound
<1>1. CASE UNCHANGED cacheVars
  BY <1>1 DEF CacheInv, Sound, cacheVars
<1>2. ASSUME NEW k \in Keys, GetLru(k)  PROVE CacheInv'
  <2>1. PICK i \in DOMAIN tiers[LRU] :
          /\ tiers[LRU][i] = k
          /\ tiers' = [tiers EXCEPT ![LRU] = Append(RemoveAt(tiers[LRU], i), k)]
          /\ UNCHANGED <<used, budget>>
    BY <1>2 DEF GetLru, FoundAt
  <2>2. LRU \in Tiers
    BY DEF Tiers
  <2>3. /\ RemoveAt(tiers[LRU], i) \in Seq(Keys) /\ IsInjective(RemoveAt(tiers[LRU], i))
        /\ Range(RemoveAt(tiers[LRU], i)) = Range(tiers[LRU]) \ {k}
    BY <1>0, <2>1, <2>2, RemoveAtFacts
  <2>4. k \in Range(tiers[LRU])
    BY <2>1 DEF Range
  <2> DEFINE d == Append(RemoveAt(tiers[LRU], i), k)
  <2>5. d \in Seq(Keys) /\ IsInjective(d) /\ Range(d) = Range(tiers[LRU])
    <3> DEFINE r == RemoveAt(tiers[LRU], i)
    <3> HIDE DEF r
    <3>1. r \in Seq(Keys) /\ IsInjective(r) /\ k \notin Range(r)
      BY <2>3 DEF r
    <3>2. /\ Append(r, k) \in Seq(Keys) /\ IsInjective(Append(r, k))
          /\ Range(Append(r, k)) = Range(r) \cup {k}
      BY <3>1, AppendFacts
    <3> QED BY <3>2, <2>3, <2>4 DEF r
  <2> HIDE DEF d
  <2>6. tiers' = [x \in Tiers |-> IF x = LRU THEN d ELSE tiers[x]]
    BY <1>0, <2>1 DEF d
  <2> QED BY <1>0, <2>1, <2>5, <2>6 DEF CacheInv, Sound
<1>3. ASSUME NEW k \in Keys, GetPromote(k)  PROVE CacheInv'
  <2>0. PICK t \in {PREFETCH, FILLER} : \E i \in DOMAIN tiers[t] :
          /\ tiers[t][i] = k
          /\ InsertInto(Without(t, i), [used EXCEPT ![t] = @ - Bytes[{k}]], LRU, k)
          /\ UNCHANGED budget
    BY <1>3 DEF GetPromote, FoundAt
  <2>1. PICK i \in DOMAIN tiers[t] :
          /\ tiers[t][i] = k
          /\ InsertInto(Without(t, i), [used EXCEPT ![t] = @ - Bytes[{k}]], LRU, k)
          /\ UNCHANGED budget
    BY <2>0
  <2>2. t \in Tiers /\ LRU \in Tiers
    BY DEF Tiers
  <2>3. /\ Sound(Without(t, i), [used EXCEPT ![t] = @ - Bytes[{k}]], budget)
        /\ \A x \in Tiers : k \notin Range(Without(t, i)[x])
    BY <2>1, <2>2, TakeOutSound
  <2> QED BY <2>1, <2>2, <2>3, InsertSound
<1>4. ASSUME NEW k \in Keys, NEW t \in Tiers, Put(k, t)  PROVE CacheInv'
  <2>1. CASE IsCached(k)
    BY <1>1, <1>4, <2>1 DEF Put
  <2>2. CASE ~ IsCached(k)
    <3>1. InsertInto(tiers, used, t, k) /\ UNCHANGED budget
      BY <1>4, <2>2 DEF Put
    <3>2. \A x \in Tiers : k \notin Range(tiers[x])
      BY <2>2 DEF IsCached, Cached, Held
    <3> QED BY <3>1, <3>2, InsertSound DEF CacheInv
  <2> QED BY <2>1, <2>2
<1>5. ASSUME NEW k \in Keys, RemoveHit(k)  PROVE CacheInv'
  <2>0. PICK t \in Tiers : \E i \in DOMAIN tiers[t] :
          /\ tiers[t][i] = k
          /\ tiers' = Without(t, i)
          /\ used' = [used EXCEPT ![t] = @ - Bytes[{k}]]
          /\ UNCHANGED budget
    BY <1>5 DEF RemoveHit, FoundAt
  <2>1. PICK i \in DOMAIN tiers[t] :
          /\ tiers[t][i] = k
          /\ tiers' = Without(t, i)
          /\ used' = [used EXCEPT ![t] = @ - Bytes[{k}]]
          /\ UNCHANGED budget
    BY <2>0
  <2> QED BY <2>1, TakeOutSound DEF CacheInv, Sound
<1>6. ASSUME NEW b \in ShrinkTo, ShrinkLru(b)  PROVE CacheInv'
  <2>1. PICK n \in 0 .. Len(tiers[LRU]) :
          /\ \/ n = Len(tiers[LRU])
             \/ ~ (used[LRU] - Bytes[Range(SubSeq(tiers[LRU], 1, n))] > b)
          /\ tiers' = [tiers EXCEPT ![LRU] = SubSeq(@, n + 1, Len(@))]
          /\ used' = [used EXCEPT ![LRU] = @ - Bytes[Range(SubSeq(tiers[LRU], 1, n))]]
    BY <1>6, Zenon DEF ShrinkLru, EvictDownTo
  <2>2. LRU \in Tiers /\ b \in Nat /\ budget' = [budget EXCEPT ![LRU] = b]
    BY <1>6, BudgetsAreBytes DEF ShrinkLru, Tiers
  <2> DEFINE old == SubSeq(tiers[LRU], 1, n)
             rest == SubSeq(tiers[LRU], n + 1, Len(tiers[LRU]))
  <2>3. /\ rest \in Seq(Keys) /\ IsInjective(rest)
        /\ Range(old) \in SUBSET Keys /\ Range(old) \subseteq Range(tiers[LRU])
        /\ Range(rest) = Range(tiers[LRU]) \ Range(old)
    BY <1>0, <2>2, SplitFacts
  <2>4. n = Len(tiers[LRU]) => rest = <<>>
    BY <1>0, <2>2, LenProperties, SubSeqEmpty
  <2>5. /\ tiers' = [x \in Tiers |-> IF x = LRU THEN rest ELSE tiers[x]]
        /\ used' = [x \in Tiers |-> IF x = LRU THEN used[LRU] - Bytes[Range(old)] ELSE used[x]]
        /\ budget' = [x \in Tiers |-> IF x = LRU THEN b ELSE budget[x]]
        /\ n = Len(tiers[LRU]) \/ ~ (used[LRU] - Bytes[Range(old)] > b)
    BY <1>0, <2>1, <2>2
  <2> HIDE DEF old, rest
  <2>6. Bytes[Range(rest)] = used[LRU] - Bytes[Range(old)] /\ Bytes[Range(rest)] \in Nat
    <3>1. Range(tiers[LRU]) \in SUBSET Keys
      BY <1>0, <2>2, RangeOfSeq
    <3>2. /\ Bytes[Range(tiers[LRU]) \ Range(old)]
                = Bytes[Range(tiers[LRU])] - Bytes[Range(old)]
          /\ Bytes[Range(tiers[LRU]) \ Range(old)] \in Nat
      BY <3>1, <2>3, BytesSplit
    <3> QED BY <3>2, <1>0, <2>2, <2>3
  <2>7. Bytes[Range(rest)] <= b
    <3>1. CASE rest = <<>>
      <4>1. Range(rest) = {}
        BY <3>1, EmptyFacts
      <4> QED BY <4>1, <2>2, BytesAdditive
    <3>2. CASE ~ (used[LRU] - Bytes[Range(old)] > b)
      BY <3>2, <2>2, <2>6
    <3> QED BY <3>1, <3>2, <2>4, <2>5
  <2>8. \A x \in Tiers : IsInjective(tiers'[x])
    BY <1>0, <2>3, <2>5
  <2>9. \A x, y \in Tiers : x # y => Range(tiers'[x]) \cap Range(tiers'[y]) = {}
    BY <1>0, <2>3, <2>5
  <2>10. \A x \in Tiers : used'[x] = Bytes[Range(tiers'[x])] /\ used'[x] <= budget'[x]
    BY <1>0, <2>5, <2>6, <2>7
  <2>11. /\ tiers' \in [Tiers -> Seq(Keys)] /\ used' \in [Tiers -> Int]
         /\ budget' \in [Tiers -> Nat]
    BY <1>0, <2>2, <2>3, <2>5, <2>6
  <2> QED BY <2>8, <2>9, <2>10, <2>11 DEF CacheInv, Sound
<1> QED BY <1>1, <1>2, <1>3, <1>4, <1>5, <1>6
        DEF CacheNext, Get, GetHit, GetMiss, RemoveKey

\* The inductive invariant holds in every reachable state.
THEOREM CacheInvariant == CacheSpec => []CacheInv
BY CacheInitSound, CacheStepSound, PTL DEF CacheSpec

\* The state of the cache keeps its types.
THEOREM CacheTyped == CacheSpec => []CacheTypeOK
<1>1. CacheInv => CacheTypeOK
  BY DEF CacheInv, Sound, CacheTypeOK
<1> QED BY <1>1, CacheInvariant, PTL

\* An expert is in at most one tier of the cache, once (cache.py:138-143,
\* 113-119).
THEOREM CacheOneTier == CacheSpec => []OneTier
<1>1. CacheInv => OneTier
  BY DEF CacheInv, Sound, OneTier, Held
<1> QED BY <1>1, CacheInvariant, PTL

\* used[] is the weight of the tier's entries and stays within the budget, for
\* every sizes and budgets.
THEOREM CacheAccounting == CacheSpec => []Accounting
<1>1. CacheInv => Accounting
  BY DEF CacheInv, Sound, Accounting, Held
<1> QED BY <1>1, CacheInvariant, PTL
-----------------------------------------------------------------------------
(* What a call may do to the tiers.                                        *)

\* One more victim weighs its own bytes more.
LEMMA OneMoreVictim ==
    ASSUME NEW s \in Seq(Keys), IsInjective(s), NEW n \in 1 .. Len(s)
    PROVE  /\ Bytes[Range(SubSeq(s, 1, n))] = Bytes[Range(SubSeq(s, 1, n - 1))] + Bytes[{s[n]}]
           /\ Bytes[Range(SubSeq(s, 1, n))] \in Nat /\ Bytes[Range(SubSeq(s, 1, n - 1))] \in Nat
           /\ Bytes[{s[n]}] \in Nat
<1> DEFINE a == SubSeq(s, 1, n)
           b == SubSeq(s, 1, n - 1)
           k == s[n]
<1>1. Len(s) \in Nat /\ DOMAIN s = 1 .. Len(s) /\ \A j \in 1 .. Len(s) : s[j] \in Keys
  BY LenProperties, ElementOfSeq
<1>2. a \in Seq(Keys) /\ Len(a) = n /\ \A j \in 1 .. n : a[j] = s[j]
  <2>1. 1 \in 1 .. Len(s) + 1 /\ n \in 0 .. Len(s) /\ 1 <= n + 1 /\ n - 1 + 1 = n
        /\ \A j \in 1 .. n : 1 + j - 1 = j
    BY <1>1
  <2>2. a \in Seq(Keys) /\ Len(a) = n - 1 + 1 /\ \A j \in 1 .. n - 1 + 1 : a[j] = s[1 + j - 1]
    BY <2>1, SliceFacts
  <2> QED BY <2>1, <2>2
<1>3. b \in Seq(Keys) /\ Len(b) = n - 1 /\ \A j \in 1 .. n - 1 : b[j] = s[j]
  <2> DEFINE m == n - 1
  <2>1. 1 \in 1 .. Len(s) + 1 /\ m \in 0 .. Len(s) /\ 1 <= m + 1 /\ m - 1 + 1 = m
        /\ \A j \in 1 .. m : 1 + j - 1 = j
    BY <1>1
  <2> HIDE DEF m
  <2>2. SubSeq(s, 1, m) \in Seq(Keys) /\ Len(SubSeq(s, 1, m)) = m - 1 + 1
        /\ \A j \in 1 .. m - 1 + 1 : SubSeq(s, 1, m)[j] = s[1 + j - 1]
    BY <2>1, SliceFacts
  <2> QED BY <2>1, <2>2 DEF m
<1> HIDE DEF a, b
<1>4. DOMAIN a = 1 .. n /\ DOMAIN b = 1 .. n - 1
  BY <1>2, <1>3, LenProperties
<1>5. Range(a) = {s[j] : j \in 1 .. n} /\ Range(b) = {s[j] : j \in 1 .. n - 1}
  BY <1>2, <1>3, <1>4 DEF Range
<1>6. 1 .. n = (1 .. n - 1) \cup {n}
  BY <1>1
<1>7. Range(a) = Range(b) \cup {k}
  BY <1>5, <1>6
<1>8. k \notin Range(b)
  <2>1. ASSUME NEW j \in 1 .. n - 1  PROVE s[j] # k
    <3>1. j \in DOMAIN s /\ n \in DOMAIN s /\ j # n
      BY <1>1
    <3> QED BY <3>1 DEF IsInjective
  <2> QED BY <1>5, <2>1
<1>9. Range(a) \in SUBSET Keys /\ Range(b) \in SUBSET Keys /\ {k} \in SUBSET Keys
  BY <1>1, <1>2, <1>3, RangeOfSeq
<1> HIDE DEF k
<1>10. Bytes[Range(b) \cup {k}] = Bytes[Range(b)] + Bytes[{k}]
  <2>1. Range(b) \cap {k} = {}
    BY <1>8
  <2> QED BY <1>9, <2>1, BytesAdditive
<1>11. Bytes[Range(a)] \in Nat /\ Bytes[Range(b)] \in Nat /\ Bytes[{k}] \in Nat
  BY <1>9, BytesAdditive
<1> QED BY <1>7, <1>10, <1>11 DEF a, b, k

\* Popping stops as soon as there is room, so the youngest victim would not have
\* fitted beside what the tier then holds.
Gentle(s, n, s2, u2, b2) ==
    /\ IsPrefix(SubSeq(s, n + 1, Len(s)), s2)
    /\ n > 0 => u2 + Bytes[{s[n]}] > b2

LEMMA RestIsPrefix ==
    ASSUME NEW s \in Seq(Keys), NEW n \in 0 .. Len(s), NEW k \in Keys
    PROVE  LET rest == SubSeq(s, n + 1, Len(s))
           IN  IsPrefix(rest, rest) /\ IsPrefix(rest, Append(rest, k))
<1> DEFINE r == SubSeq(s, n + 1, Len(s))
           a == Append(r, k)
<1>1. r \in Seq(Keys)
  <2>1. Len(s) \in Nat
    BY LenProperties
  <2> DEFINE m == n + 1
             l == Len(s)
  <2>2. m \in 1 .. Len(s) + 1 /\ l \in 0 .. Len(s) /\ m <= l + 1
    BY <2>1
  <2> HIDE DEF m, l
  <2>3. SubSeq(s, m, l) \in Seq(Keys)
    BY <2>2, SliceFacts
  <2> QED BY <2>3 DEF m, l
<1> HIDE DEF r
<1>2. a \in Seq(Keys) /\ Len(a) = Len(r) + 1 /\ Len(r) \in Nat /\ \A i \in 1 .. Len(r) : a[i] = r[i]
  BY <1>1, AppendProperties, LenProperties
<1> HIDE DEF a
<1>3. IsPrefix(r, r)
  BY <1>1, <1>2, PrefixElts
<1>4. IsPrefix(r, a)
  <2>1. Len(r) <= Len(a) /\ \A i \in 1 .. Len(r) : r[i] = a[i]
    BY <1>2
  <2>2. r \in Seq(Keys) /\ a \in Seq(Keys)
    BY <1>1, <1>2
  <2> QED BY <2>1, <2>2, PrefixElts
<1> QED BY <1>3, <1>4 DEF r, a

LEMMA InsertGentle ==
    ASSUME NEW ts, NEW us, Sound(ts, us, budget), NEW t \in Tiers, NEW k \in Keys,
           \A x \in Tiers : k \notin Range(ts[x]),
           InsertInto(ts, us, t, k)
    PROVE  \/ tiers' = ts
           \/ /\ \A x \in Tiers : x # t => tiers'[x] = ts[x]
              /\ k \in Range(tiers'[t])
              /\ \E n \in 0 .. Len(ts[t]) : Gentle(ts[t], n, tiers'[t], used'[t], budget[t])
<1> DEFINE nb == Bytes[{k}]
<1>1. nb \in Nat
  BY BytesAdditive
<1>2. CASE nb > budget[t]
  BY <1>2 DEF InsertInto
<1>3. CASE ~ (nb > budget[t])
  <2>1. PICK n \in 0 .. Len(ts[t]) :
          /\ Pops(ts, us, t, nb, n)
          /\ tiers' = [x \in Tiers |->
                IF x = t THEN Append(SubSeq(ts[t], n + 1, Len(ts[t])), k)
                ELSE IF x \in Robbed(ts, us, t, nb, n) THEN <<>> ELSE ts[x]]
          /\ used' = [x \in Tiers |->
                us[x] - Bytes[Victims(ts, us, t, nb, n, x)] + (IF x = t THEN nb ELSE 0)]
    BY <1>3 DEF InsertInto
  <2>2. /\ ts[t] \in Seq(Keys) /\ us[t] \in Int /\ budget[t] \in Nat /\ IsInjective(ts[t])
    BY DEF Sound
  <2>3. Robbed(ts, us, t, nb, n) = {}
    <3>1. nb <= budget[t]
      BY <1>1, <1>3, <2>2
    <3> QED BY <3>1, <1>1, <2>1, DonorLoopDead
  <2> DEFINE s == ts[t]
             rest == SubSeq(s, n + 1, Len(s))
  <2>4. tiers'[t] = Append(rest, k) /\ \A x \in Tiers : x # t => tiers'[x] = ts[x]
    BY <2>1, <2>3
  <2>5. k \in Range(tiers'[t])
    <3>1. rest \in Seq(Keys) /\ IsInjective(rest) /\ Range(rest) = Range(s) \ Range(SubSeq(s, 1, n))
      BY <2>2, SplitFacts
    <3> HIDE DEF rest
    <3>2. k \notin Range(rest)
      BY <3>1
    <3>3. Range(Append(rest, k)) = Range(rest) \cup {k}
      BY <3>1, <3>2, AppendFacts
    <3> QED BY <2>4, <3>3
  <2>6. IsPrefix(rest, tiers'[t])
    BY <2>2, <2>4, RestIsPrefix
  <2>7. used'[t] = us[t] - Bytes[Range(SubSeq(s, 1, n))] + nb
    BY <2>1 DEF Victims
  <2>8. ASSUME n > 0  PROVE used'[t] + Bytes[{s[n]}] > budget[t]
    <3>1. n \in 1 .. Len(s) /\ n - 1 \in 0 .. n - 1
      BY <2>8
    <3>2. ~ Fits(ts, us, t, nb, n - 1)
      BY <2>1, <3>1 DEF Pops
    <3> DEFINE a == Bytes[Range(SubSeq(s, 1, n))]
               b == Bytes[Range(SubSeq(s, 1, n - 1))]
               c == Bytes[{s[n]}]
    <3>3. a = b + c /\ a \in Nat /\ b \in Nat /\ c \in Nat
      BY <2>2, <3>1, OneMoreVictim
    <3>4. ~ (us[t] - b + nb <= budget[t])
      BY <3>2 DEF Fits
    <3>5. used'[t] = us[t] - a + nb
      BY <2>7
    <3> HIDE DEF a, b, c, nb
    <3>6. used'[t] + c > budget[t]
      BY <1>1, <2>2, <3>3, <3>4, <3>5
    <3> QED BY <3>6 DEF c
  <2>9. Gentle(s, n, tiers'[t], used'[t], budget[t])
    BY <2>6, <2>8 DEF Gentle
  <2> QED BY <2>4, <2>5, <2>9
<1> QED BY <1>2, <1>3

\* The outcomes of a call: nothing is gained and nothing shrinks and at most one key
\* goes; one tier takes an entry in; a key moves to the LRU tier; or the LRU tier
\* is shrunk.
Quiet ==
    budget' = budget /\ \A x \in Tiers : tiers'[x] = tiers[x] \/ Held(x)' = Held(x)
Dropped ==
    /\ budget' = budget
    /\ \E t \in Tiers, k \in Keys :
          /\ k \in Held(t) /\ Held(t)' = Held(t) \ {k}
          /\ \A x \in Tiers : x # t => Held(x)' = Held(x)
TakenIn ==
    /\ budget' = budget
    /\ \E t \in Tiers, k \in Keys :
          /\ k \notin Held(t) /\ k \in Held(t)'
          /\ \E n \in 0 .. Len(tiers[t]) : Gentle(tiers[t], n, tiers'[t], used'[t], budget[t])
          /\ \A x \in Tiers : x # t => \/ Held(x)' = Held(x)
                                       \/ t = LRU /\ Held(x)' = Held(x) \ {k}
Shrunk ==
    /\ \A x \in Tiers : x # LRU => tiers'[x] = tiers[x] /\ budget'[x] = budget[x]
    /\ Held(LRU)' \subseteq Held(LRU) /\ budget'[LRU] # budget[LRU]
    /\ \E n \in 0 .. Len(tiers[LRU]) : Gentle(tiers[LRU], n, tiers'[LRU], used'[LRU], budget'[LRU])

LEMMA WithoutHeld ==
    ASSUME CacheInv, NEW t \in Tiers, NEW i \in DOMAIN tiers[t]
    PROVE  /\ Range(Without(t, i)[t]) = Held(t) \ {tiers[t][i]} /\ tiers[t][i] \in Held(t)
           /\ \A x \in Tiers : x # t => Without(t, i)[x] = tiers[x]
           /\ tiers[t][i] \in Keys
<1>1. tiers \in [Tiers -> Seq(Keys)] /\ IsInjective(tiers[t])
  BY DEF CacheInv, Sound
<1>2. Without(t, i)[t] = RemoveAt(tiers[t], i) /\ \A x \in Tiers : x # t => Without(t, i)[x] = tiers[x]
  BY <1>1 DEF Without
<1>3. Range(RemoveAt(tiers[t], i)) = Range(tiers[t]) \ {tiers[t][i]}
  BY <1>1, RemoveAtFacts
<1>4. tiers[t][i] \in Range(tiers[t])
  BY DEF Range
<1>5. tiers[t][i] \in Keys
  BY TakeOutSound
<1> QED BY <1>2, <1>3, <1>4, <1>5 DEF Held

LEMMA CacheOutcomes ==
    CacheInv /\ [CacheNext]_cacheVars => Quiet \/ Dropped \/ TakenIn \/ Shrunk
<1> SUFFICES ASSUME CacheInv, [CacheNext]_cacheVars  PROVE Quiet \/ Dropped \/ TakenIn \/ Shrunk
  OBVIOUS
<1>0. /\ tiers \in [Tiers -> Seq(Keys)] /\ used \in [Tiers -> Int] /\ budget \in [Tiers -> Nat]
      /\ \A x \in Tiers : IsInjective(tiers[x])
      /\ \A x, y \in Tiers : x # y => Held(x) \cap Held(y) = {}
  BY DEF CacheInv, Sound, Held
<1>1. CASE UNCHANGED cacheVars
  BY <1>1 DEF cacheVars, Quiet
<1>2. ASSUME NEW k \in Keys, GetLru(k)  PROVE Quiet
  <2>1. PICK i \in DOMAIN tiers[LRU] :
          /\ tiers[LRU][i] = k
          /\ tiers' = [tiers EXCEPT ![LRU] = Append(RemoveAt(tiers[LRU], i), k)]
          /\ UNCHANGED <<used, budget>>
    BY <1>2 DEF GetLru, FoundAt
  <2>2. LRU \in Tiers
    BY DEF Tiers
  <2> DEFINE r == RemoveAt(tiers[LRU], i)
  <2>3. r \in Seq(Keys) /\ IsInjective(r) /\ Range(r) = Range(tiers[LRU]) \ {k}
    BY <1>0, <2>1, <2>2, RemoveAtFacts
  <2>4. k \in Range(tiers[LRU])
    BY <2>1 DEF Range
  <2> HIDE DEF r
  <2>5. Range(Append(r, k)) = Range(r) \cup {k}
    BY <2>3, AppendFacts
  <2>6. tiers'[LRU] = Append(r, k) /\ \A x \in Tiers : x # LRU => tiers'[x] = tiers[x]
    BY <1>0, <2>1, <2>2 DEF r
  <2>7. Range(tiers'[LRU]) = Range(tiers[LRU])
    BY <2>3, <2>4, <2>5, <2>6
  <2> QED BY <2>1, <2>6, <2>7 DEF Quiet, Held
<1>3. ASSUME NEW k \in Keys, GetPromote(k)  PROVE Dropped \/ TakenIn
  <2>0. PICK t \in {PREFETCH, FILLER} : \E i \in DOMAIN tiers[t] :
          /\ tiers[t][i] = k
          /\ InsertInto(Without(t, i), [used EXCEPT ![t] = @ - Bytes[{k}]], LRU, k)
          /\ UNCHANGED budget
    BY <1>3 DEF GetPromote, FoundAt
  <2>1. PICK i \in DOMAIN tiers[t] :
          /\ tiers[t][i] = k
          /\ InsertInto(Without(t, i), [used EXCEPT ![t] = @ - Bytes[{k}]], LRU, k)
          /\ UNCHANGED budget
    BY <2>0
  <2>2. t \in Tiers /\ LRU \in Tiers /\ t # LRU
    BY DEF Tiers, LRU, PREFETCH, FILLER
  <2> DEFINE ts == Without(t, i)
             us == [used EXCEPT ![t] = @ - Bytes[{k}]]
  <2>3. Sound(ts, us, budget) /\ \A x \in Tiers : k \notin Range(ts[x])
    BY <2>1, <2>2, TakeOutSound
  <2>4. /\ Range(ts[t]) = Held(t) \ {k} /\ k \in Held(t)
        /\ \A x \in Tiers : x # t => ts[x] = tiers[x]
    BY <2>1, <2>2, WithoutHeld
  <2> HIDE DEF ts, us
  <2>5. \/ tiers' = ts
        \/ /\ \A x \in Tiers : x # LRU => tiers'[x] = ts[x]
           /\ k \in Range(tiers'[LRU])
           /\ \E n \in 0 .. Len(ts[LRU]) : Gentle(ts[LRU], n, tiers'[LRU], used'[LRU], budget[LRU])
    <3>1. InsertInto(ts, us, LRU, k)
      BY <2>1 DEF ts, us
    <3> QED BY <2>2, <2>3, <3>1, InsertGentle
  <2>6. CASE tiers' = ts
    BY <2>1, <2>2, <2>4, <2>6 DEF Dropped, Held
  <2>7. CASE /\ \A x \in Tiers : x # LRU => tiers'[x] = ts[x]
             /\ k \in Range(tiers'[LRU])
             /\ \E n \in 0 .. Len(ts[LRU]) : Gentle(ts[LRU], n, tiers'[LRU], used'[LRU], budget[LRU])
    <3>1. ts[LRU] = tiers[LRU]
      BY <2>2, <2>4
    <3>2. k \notin Held(LRU)
      BY <2>2, <2>3, <3>1 DEF Held
    <3>3. \A x \in Tiers : x # LRU => Held(x)' = Held(x) \/ Held(x)' = Held(x) \ {k}
      BY <2>4, <2>7 DEF Held
    <3>4. k \in Held(LRU)'
      BY <2>7 DEF Held
    <3>5. \E n \in 0 .. Len(tiers[LRU]) : Gentle(tiers[LRU], n, tiers'[LRU], used'[LRU], budget[LRU])
      BY <2>7, <3>1
    <3>6. budget' = budget
      BY <2>1
    <3> QED BY <2>2, <3>2, <3>3, <3>4, <3>5, <3>6 DEF TakenIn
  <2> QED BY <2>5, <2>6, <2>7
<1>4. ASSUME NEW k \in Keys, NEW t \in Tiers, Put(k, t)  PROVE Quiet \/ TakenIn
  <2>1. CASE IsCached(k)
    BY <1>4, <2>1 DEF Put, cacheVars, Quiet
  <2>2. CASE ~ IsCached(k)
    <3>1. InsertInto(tiers, used, t, k) /\ UNCHANGED budget
      BY <1>4, <2>2 DEF Put
    <3>2. \A x \in Tiers : k \notin Range(tiers[x])
      BY <2>2 DEF IsCached, Cached, Held
    <3>3. \/ tiers' = tiers
          \/ /\ \A x \in Tiers : x # t => tiers'[x] = tiers[x]
             /\ k \in Range(tiers'[t])
             /\ \E n \in 0 .. Len(tiers[t]) : Gentle(tiers[t], n, tiers'[t], used'[t], budget[t])
      <4>1. Sound(tiers, used, budget)
        BY DEF CacheInv
      <4> QED BY <3>1, <3>2, <4>1, InsertGentle
    <3>4. CASE tiers' = tiers
      BY <3>1, <3>4 DEF Quiet
    <3>5. CASE /\ \A x \in Tiers : x # t => tiers'[x] = tiers[x]
               /\ k \in Range(tiers'[t])
               /\ \E n \in 0 .. Len(tiers[t]) : Gentle(tiers[t], n, tiers'[t], used'[t], budget[t])
      <4>1. k \notin Held(t) /\ k \in Held(t)' /\ \A x \in Tiers : x # t => Held(x)' = Held(x)
        BY <3>2, <3>5 DEF Held
      <4> QED BY <3>1, <3>5, <4>1 DEF TakenIn
    <3> QED BY <3>3, <3>4, <3>5
  <2> QED BY <2>1, <2>2
<1>5. ASSUME NEW k \in Keys, RemoveHit(k)  PROVE Dropped
  <2>0. PICK t \in Tiers : \E i \in DOMAIN tiers[t] :
          /\ tiers[t][i] = k /\ tiers' = Without(t, i) /\ UNCHANGED budget
    BY <1>5 DEF RemoveHit, FoundAt
  <2>1. PICK i \in DOMAIN tiers[t] :
          /\ tiers[t][i] = k /\ tiers' = Without(t, i) /\ UNCHANGED budget
    BY <2>0
  <2>2. /\ Range(Without(t, i)[t]) = Held(t) \ {k} /\ k \in Held(t)
        /\ \A x \in Tiers : x # t => Without(t, i)[x] = tiers[x]
    BY <2>1, WithoutHeld
  <2> QED BY <2>1, <2>2 DEF Dropped, Held
<1>6. ASSUME NEW b \in ShrinkTo, ShrinkLru(b)  PROVE Shrunk
  <2> DEFINE s == tiers[LRU]
             over(m) == used[LRU] - Bytes[Range(SubSeq(s, 1, m))] > b
  <2>1. PICK n \in 0 .. Len(s) :
          /\ \A m \in 0 .. n - 1 : over(m)
          /\ tiers' = [tiers EXCEPT ![LRU] = SubSeq(@, n + 1, Len(@))]
          /\ used' = [used EXCEPT ![LRU] = @ - Bytes[Range(SubSeq(s, 1, n))]]
    BY <1>6, Zenon DEF ShrinkLru, EvictDownTo
  <2>2. LRU \in Tiers /\ b \in Nat /\ budget' = [budget EXCEPT ![LRU] = b] /\ b < budget[LRU]
    BY <1>6, BudgetsAreBytes DEF ShrinkLru, Tiers
  <2> DEFINE rest == SubSeq(s, n + 1, Len(s))
  <2>3. /\ tiers'[LRU] = rest /\ \A x \in Tiers : x # LRU => tiers'[x] = tiers[x]
        /\ used'[LRU] = used[LRU] - Bytes[Range(SubSeq(s, 1, n))]
        /\ budget'[LRU] = b /\ \A x \in Tiers : x # LRU => budget'[x] = budget[x]
    BY <1>0, <2>1, <2>2
  <2>4. s \in Seq(Keys) /\ IsInjective(s) /\ used[LRU] \in Int /\ budget[LRU] \in Nat
    BY <1>0, <2>2
  <2>5. Range(rest) \subseteq Range(s)
    <3>1. Range(rest) = Range(s) \ Range(SubSeq(s, 1, n))
      BY <2>4, SplitFacts
    <3> HIDE DEF rest, s
    <3> QED BY <3>1
  <2>6. IsPrefix(rest, rest)
    <3>1. CASE Keys = {}
      <4>1. Len(s) \in Nat /\ Len(rest) \in Nat
        <5>1. rest \in Seq(Keys)
          BY <2>4, SplitFacts
        <5> QED BY <2>4, <5>1, LenProperties
      <4>2. rest \in Seq(Keys)
        BY <2>4, SplitFacts
      <4> HIDE DEF rest
      <4> QED BY <4>1, <4>2, PrefixElts
    <3>2. CASE Keys # {}
      <4>1. PICK k \in Keys : TRUE
        BY <3>2
      <4> QED BY <2>4, RestIsPrefix
    <3> QED BY <3>1, <3>2
  <2>7. ASSUME n > 0  PROVE used'[LRU] + Bytes[{s[n]}] > b
    <3>1. n \in 1 .. Len(s) /\ n - 1 \in 0 .. n - 1
      BY <2>7
    <3>2. over(n - 1)
      BY <2>1, <3>1
    <3> DEFINE x == Bytes[Range(SubSeq(s, 1, n))]
               y == Bytes[Range(SubSeq(s, 1, n - 1))]
               z == Bytes[{s[n]}]
    <3>3. x = y + z /\ x \in Nat /\ y \in Nat /\ z \in Nat
      BY <2>4, <3>1, OneMoreVictim
    <3>4. used[LRU] - y > b /\ used'[LRU] = used[LRU] - x
      BY <2>3, <3>2
    <3> HIDE DEF x, y, z
    <3>5. used'[LRU] + z > b
      BY <2>2, <2>4, <3>3, <3>4
    <3> QED BY <3>5 DEF z
  <2>8. Gentle(s, n, tiers'[LRU], used'[LRU], budget'[LRU])
    BY <2>3, <2>6, <2>7 DEF Gentle
  <2>9. budget'[LRU] # budget[LRU]
    BY <2>2, <2>3, <2>4
  <2>10. Held(LRU)' \subseteq Held(LRU)
    BY <2>3, <2>5 DEF Held
  <2> QED BY <2>3, <2>8, <2>9, <2>10 DEF Shrunk
<1> QED BY <1>1, <1>2, <1>3, <1>4, <1>5, <1>6
        DEF CacheNext, Get, GetHit, GetMiss, RemoveKey

\* Evictions are gentle (cache.py:155-186 _make_room, shrink_lru), for every sizes
\* and budgets: no tier drops an entry it had room for.
THEOREM EvictsGently == CacheSpec => GentleEviction
<1> DEFINE G == \A t \in Tiers : Gains(t) \/ budget'[t] < budget[t] =>
                  \E n \in 0 .. Len(tiers[t]) :
                     /\ IsPrefix(SubSeq(tiers[t], n + 1, Len(tiers[t])), tiers'[t])
                     /\ n > 0 => used'[t] + Bytes[{tiers[t][n]}] > budget'[t]
<1>1. CacheInv /\ [CacheNext]_cacheVars => [G]_cacheVars
  <2> SUFFICES ASSUME CacheInv, [CacheNext]_cacheVars  PROVE G
    OBVIOUS
  <2>0. \A t \in Tiers : budget[t] \in Nat
    BY DEF CacheInv, Sound
  <2>1. CASE Quiet
    BY <2>0, <2>1 DEF Quiet, Gains, Held
  <2>2. CASE Dropped
    BY <2>0, <2>2 DEF Dropped, Gains
  <2>3. CASE TakenIn
    <3>1. PICK t \in Tiers, k \in Keys :
             /\ \E n \in 0 .. Len(tiers[t]) : Gentle(tiers[t], n, tiers'[t], used'[t], budget[t])
             /\ \A x \in Tiers : x # t => Held(x)' = Held(x) \/ Held(x)' = Held(x) \ {k}
      BY <2>3 DEF TakenIn
    <3>2. budget' = budget
      BY <2>3 DEF TakenIn
    <3>3. \A x \in Tiers : x # t => ~ Gains(x) /\ ~ budget'[x] < budget[x]
      BY <2>0, <3>1, <3>2 DEF Gains
    <3> QED BY <3>1, <3>2, <3>3 DEF Gentle
  <2>4. CASE Shrunk
    <3>1. \A x \in Tiers : x # LRU => ~ Gains(x) /\ ~ budget'[x] < budget[x]
      BY <2>0, <2>4 DEF Shrunk, Gains, Held
    <3>2. \E n \in 0 .. Len(tiers[LRU]) : Gentle(tiers[LRU], n, tiers'[LRU], used'[LRU], budget'[LRU])
      BY <2>4 DEF Shrunk
    <3> QED BY <3>1, <3>2 DEF Gentle
  <2> QED BY <2>1, <2>2, <2>3, <2>4, CacheOutcomes
<1> QED BY <1>1, CacheInvariant, PTL DEF CacheSpec, GentleEviction

\* A tier that neither takes an entry nor is shrunk loses at most the one key of
\* the call, which went to the LRU tier or, when nothing came in, was removed (or
\* was too big for the shrunken LRU budget).
TierIsolation ==
    [][\A t \in Tiers : ~ Gains(t) /\ budget'[t] = budget[t] =>
          LET lost == Held(t) \ Held(t)'
          IN  \/ lost \subseteq Held(LRU)'
              \/ Cardinality(lost) = 1 /\ Cached' \subseteq Cached]_cacheVars

\* No tier ever gives way to another, for every sizes and budgets.  This is what
\* the code does (cache.py:155-174, by DonorLoopDead) and not what its comments
\* say: "lower-priority tiers are robbed first" (cache.py:156), "filler, then
\* prefetch, then LRU" (cache.py:3-4, src/README.md:156).
THEOREM TiersAreIsolated == CacheSpec => TierIsolation
<1> DEFINE I == \A t \in Tiers : ~ Gains(t) /\ budget'[t] = budget[t] =>
                  LET lost == Held(t) \ Held(t)'
                  IN  \/ lost \subseteq Held(LRU)'
                      \/ Cardinality(lost) = 1 /\ Cached' \subseteq Cached
<1>1. CacheInv /\ [CacheNext]_cacheVars => [I]_cacheVars
  <2> SUFFICES ASSUME CacheInv, [CacheNext]_cacheVars,
                      NEW t \in Tiers, ~ Gains(t), budget'[t] = budget[t]
               PROVE  \/ Held(t) \ Held(t)' \subseteq Held(LRU)'
                      \/ Cardinality(Held(t) \ Held(t)') = 1 /\ Cached' \subseteq Cached
    OBVIOUS
  <2>1. CASE Quiet
    BY <2>1 DEF Quiet, Held
  <2>2. CASE Dropped
    <3>1. PICK u \in Tiers, k \in Keys :
             /\ k \in Held(u) /\ Held(u)' = Held(u) \ {k}
             /\ \A x \in Tiers : x # u => Held(x)' = Held(x)
      BY <2>2 DEF Dropped
    <3>2. CASE t # u
      BY <3>1, <3>2
    <3>3. CASE t = u
      <4>1. Held(t) \ Held(t)' = {k}
        BY <3>1, <3>3
      <4>2. Cardinality({k}) = 1
        BY FS_Singleton
      <4>3. \A x \in Tiers : Held(x)' \subseteq Held(x)
        BY <3>1
      <4>4. Cached' \subseteq Cached
        BY <4>3 DEF Cached
      <4> QED BY <4>1, <4>2, <4>4
    <3> QED BY <3>2, <3>3
  <2>3. CASE TakenIn
    <3>1. PICK u \in Tiers, k \in Keys :
             /\ k \notin Held(u) /\ k \in Held(u)'
             /\ \A x \in Tiers : x # u => \/ Held(x)' = Held(x)
                                          \/ u = LRU /\ Held(x)' = Held(x) \ {k}
      BY <2>3 DEF TakenIn
    <3>2. t # u
      BY <3>1 DEF Gains
    <3> QED BY <3>1, <3>2
  <2>4. CASE Shrunk
    <3>1. t # LRU
      BY <2>4 DEF Shrunk
    <3> QED BY <2>4, <3>1 DEF Shrunk, Held
  <2> QED BY <2>1, <2>2, <2>3, <2>4, CacheOutcomes
<1> QED BY <1>1, CacheInvariant, PTL DEF CacheSpec, TierIsolation
=============================================================================

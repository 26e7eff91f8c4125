----------------------------- MODULE ExpertCache -----------------------------
(***************************************************************************)
(* The three-tier expert cache of cache.py.  Every public method runs      *)
(* under self.lock, so each one is a single action here; the other modules *)
(* of the project conjoin these actions with the program counters of the   *)
(* threads that call them.                                                 *)
(*                                                                         *)
(* An OrderedDict is the sequence of its keys, oldest first.  The arrays   *)
(* of a key always come from the key's own shard file, so entry_bytes is a *)
(* function of the key; Bytes gives it for whole sets of keys.             *)
(***************************************************************************)
EXTENDS Integers, SequencesExt

CONSTANTS Keys,            \* (layer, expert) pairs
          Bytes,           \* Bytes[S]: bytes held by the arrays of the keys in S
          LruBytes, PrefetchBytes, FillerBytes,   \* the initial budgets
          ShrinkTo         \* budgets that shrink_lru is called with

LRU == "lru"
PREFETCH == "prefetch"
FILLER == "filler"
Tiers == {LRU, PREFETCH, FILLER}

\* The size of a set of entries is the sum of the sizes of its members.
ASSUME BytesAdditive ==
    /\ Bytes \in [SUBSET Keys -> Nat]
    /\ Bytes[{}] = 0
    /\ \A A, B \in SUBSET Keys :
          A \cap B = {} => Bytes[A \cup B] = Bytes[A] + Bytes[B]

ASSUME BudgetsAreBytes ==
    /\ LruBytes \in Nat /\ PrefetchBytes \in Nat /\ FillerBytes \in Nat
    /\ ShrinkTo \subseteq Nat

VARIABLES tiers,    \* tier -> its keys, oldest first
          used,     \* tier -> bytes accounted to it
          budget    \* tier -> bytes allowed

cacheVars == <<tiers, used, budget>>

Held(t) == Range(tiers[t])
Cached == UNION {Held(t) : t \in Tiers}
IsCached(k) == k \in Cached
FillerFree == budget[FILLER] - used[FILLER]

CacheInit ==
    /\ tiers = [t \in Tiers |-> <<>>]
    /\ used = [t \in Tiers |-> 0]
    /\ budget = [t \in Tiers |-> CASE t = LRU -> LruBytes
                                   [] t = PREFETCH -> PrefetchBytes
                                   [] t = FILLER -> FillerBytes]

-----------------------------------------------------------------------------
(***************************************************************************)
(* _make_room and _insert work on the contents ts and the accounts us that *)
(* the caller leaves (get has already taken a promoted key out).           *)
(***************************************************************************)

\* Fault: the loop test written with >= for >.
FitsStrictly(ts, us, t, nb, n) ==
    us[t] - Bytes[Range(SubSeq(ts[t], 1, n))] + nb < budget[t]

\* Popping the n oldest entries of tier t leaves room for nb bytes.
Fits(ts, us, t, nb, n) ==
    us[t] - Bytes[Range(SubSeq(ts[t], 1, n))] + nb <= budget[t]

\* The first loop of _make_room stops after n pops: at the first fit, or when
\* the tier is empty.
Pops(ts, us, t, nb, n) ==
    /\ Fits(ts, us, t, nb, n) \/ n = Len(ts[t])
    /\ \A m \in 0 .. n - 1 : ~ Fits(ts, us, t, nb, m)

Donors(t) == CASE t = LRU -> Tiers
               [] t = PREFETCH -> {FILLER, PREFETCH}
               [] t = FILLER -> {FILLER}

\* The donor loop: emptying a donor does not lower used[t], so once it starts
\* it empties every donor (t itself is empty by then).
Robbed(ts, us, t, nb, n) ==
    IF Fits(ts, us, t, nb, n) THEN {} ELSE Donors(t) \ {t}

\* The entries of tier x that _make_room evicts.
Victims(ts, us, t, nb, n, x) ==
    IF x = t THEN Range(SubSeq(ts[t], 1, n))
    ELSE IF x \in Robbed(ts, us, t, nb, n) THEN Range(ts[x]) ELSE {}

InsertInto(ts, us, t, k) ==
    LET nb == Bytes[{k}]
    IN  IF nb > budget[t]
        THEN tiers' = ts /\ used' = us          \* would never fit: dropped
        ELSE \E n \in 0 .. Len(ts[t]) :
               /\ Pops(ts, us, t, nb, n)
               /\ tiers' = [x \in Tiers |->
                     IF x = t THEN Append(SubSeq(ts[t], n + 1, Len(ts[t])), k)
                     ELSE IF x \in Robbed(ts, us, t, nb, n) THEN <<>> ELSE ts[x]]
               /\ used' = [x \in Tiers |->
                     us[x] - Bytes[Victims(ts, us, t, nb, n, x)]
                           + (IF x = t THEN nb ELSE 0)]

-----------------------------------------------------------------------------
\* Tiers that get, put and remove look into before t.
Before(t) == CASE t = LRU -> {}
               [] t = PREFETCH -> {LRU}
               [] t = FILLER -> {LRU, PREFETCH}

\* Entry i of tier t is what a lookup of k finds first.
FoundAt(k, t, i) ==
    /\ tiers[t][i] = k
    /\ \A b \in Before(t) : k \notin Held(b)

Without(t, i) == [tiers EXCEPT ![t] = RemoveAt(tiers[t], i)]

\* get(key), hit in the LRU tier: move_to_end.
GetLru(k) ==
    \E i \in DOMAIN tiers[LRU] :
       /\ FoundAt(k, LRU, i)
       /\ tiers' = [tiers EXCEPT ![LRU] = Append(RemoveAt(tiers[LRU], i), k)]
       /\ UNCHANGED <<used, budget>>

\* Fault: the promotion forgets to give the bytes of the lower tier back.
GetPromoteUncounted(k) ==
    \E t \in {PREFETCH, FILLER} : \E i \in DOMAIN tiers[t] :
       /\ FoundAt(k, t, i)
       /\ InsertInto(Without(t, i), used, LRU, k)
       /\ UNCHANGED budget

\* get(key), hit in a lower tier: the entry moves to the LRU tier.
GetPromote(k) ==
    \E t \in {PREFETCH, FILLER} : \E i \in DOMAIN tiers[t] :
       /\ FoundAt(k, t, i)
       /\ InsertInto(Without(t, i), [used EXCEPT ![t] = @ - Bytes[{k}]], LRU, k)
       /\ UNCHANGED budget

GetHit(k) == GetLru(k) \/ GetPromote(k)
GetMiss(k) == ~ IsCached(k) /\ UNCHANGED cacheVars
Get(k) == GetHit(k) \/ GetMiss(k)

\* Fault: put looks for the key in its own tier only.
PutUnchecked(k, t) ==
    IF k \in Held(t)
    THEN UNCHANGED cacheVars
    ELSE InsertInto(tiers, used, t, k) /\ UNCHANGED budget

\* put(key, arrays, tier): nothing if any tier already has the key.
Put(k, t) ==
    IF IsCached(k)
    THEN UNCHANGED cacheVars
    ELSE InsertInto(tiers, used, t, k) /\ UNCHANGED budget

RemoveHit(k) ==
    \E t \in Tiers : \E i \in DOMAIN tiers[t] :
       /\ FoundAt(k, t, i)
       /\ tiers' = Without(t, i)
       /\ used' = [used EXCEPT ![t] = @ - Bytes[{k}]]
       /\ UNCHANGED budget

RemoveKey(k) == RemoveHit(k) \/ (~ IsCached(k) /\ UNCHANGED cacheVars)

\* shrink_lru's loop: evict the oldest LRU entries until b bytes are enough.
EvictDownTo(b) ==
    \E n \in 0 .. Len(tiers[LRU]) :
       LET over(m) == used[LRU] - Bytes[Range(SubSeq(tiers[LRU], 1, m))] > b
       IN  /\ n = Len(tiers[LRU]) \/ ~ over(n)
           /\ \A m \in 0 .. n - 1 : over(m)
           /\ tiers' = [tiers EXCEPT ![LRU] = SubSeq(@, n + 1, Len(@))]
           /\ used' = [used EXCEPT ![LRU] = @ - Bytes[Range(SubSeq(tiers[LRU], 1, n))]]

\* Fault: the argument taken for the bytes to give up.
ShrinkLruBy(b) ==
    /\ b > 0
    /\ budget' = [budget EXCEPT ![LRU] = @ - b]
    /\ EvictDownTo(budget[LRU] - b)

\* shrink_lru(new_bytes): one-way; evicts the oldest until the rest fits.
ShrinkLru(b) ==
    /\ b < budget[LRU]
    /\ budget' = [budget EXCEPT ![LRU] = b]
    /\ EvictDownTo(b)

CacheNext ==
    \/ \E k \in Keys : Get(k) \/ RemoveKey(k) \/ \E t \in Tiers : Put(k, t)
    \/ \E b \in ShrinkTo : ShrinkLru(b)

CacheSpec == CacheInit /\ [][CacheNext]_cacheVars

-----------------------------------------------------------------------------
\* Types of the cache's state.
CacheTypeOK ==
    /\ tiers \in [Tiers -> Seq(Keys)]
    /\ used \in [Tiers -> Int]
    /\ budget \in [Tiers -> Nat]

\* No expert is held twice by the cache: it is in at most one tier, once
\* (cache.py: put does nothing for a key of any tier, get moves the entry).
OneTier ==
    /\ \A t \in Tiers : IsInjective(tiers[t])
    /\ \A t, u \in Tiers : t # u => Held(t) \cap Held(u) = {}

\* used[] is exactly what the entries of the tier weigh, through every
\* promotion, eviction and shrink, and no tier exceeds its budget.
Accounting ==
    \A t \in Tiers : used[t] = Bytes[Held(t)] /\ used[t] <= budget[t]

Gains(t) == ~ (Held(t)' \subseteq Held(t))

\* A tier that takes an entry in, or whose budget shrinks, drops its oldest
\* entries and no more of them than needed: the youngest victim would not have
\* fitted beside what the tier then holds.
GentleEviction ==
    [][\A t \in Tiers : Gains(t) \/ budget'[t] < budget[t] =>
          \E n \in 0 .. Len(tiers[t]) :
             /\ IsPrefix(SubSeq(tiers[t], n + 1, Len(tiers[t])), tiers'[t])
             /\ n > 0 => used'[t] + Bytes[{tiers[t][n]}] > budget'[t]]_cacheVars
=============================================================================

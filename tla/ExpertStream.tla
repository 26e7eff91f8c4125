---------------------------- MODULE ExpertStream ----------------------------
(***************************************************************************)
(* The streaming runtime of model.py for one layer: the decode thread      *)
(* resolves the routed experts of each forward through the arena, the      *)
(* three-tier cache, a short wait for a load in flight and finally a       *)
(* synchronous load, while the workers and the filler of IOPool run.  The  *)
(* decode thread is the main thread: Ctrl+C ends a forward at any place,   *)
(* and the chat goes on with what the forward has left.                    *)
(*                                                                         *)
(* The arena appears as its LRU order only: DecodeArena has its slots.     *)
(* Nothing else touches it, so a lookup is a single step here and an       *)
(* insert has only the steps that change the order.                        *)
(***************************************************************************)
EXTENDS IOPool

CONSTANTS Slots,      \* slots of the layer's arena
          Width,      \* bound: predictions drained per forward
          MaxPolls    \* polls that fit in the 50 ms wait

ASSUME StreamConstants == Slots \in Nat \ {0} /\ Width \in Nat /\ MaxPolls \in Nat

VARIABLES arena,      \* arena.maps[layer]: keys, least recently used first
          dec,        \* the decode thread: [pc, key, path]
          wanted,     \* experts of the forward still to resolve
          toPrefetch, \* predictions _lookahead has still to enqueue
          polls,      \* polls of the current wait
          kept        \* history: keys whose move to the arena Ctrl+C cut before its end

decodeVars == <<arena, dec, wanted, toPrefetch, polls, kept>>
streamVars == <<vars, decodeVars>>

InArena(k) == k \in Range(arena)
Goto(pc) == dec' = [dec EXCEPT !.pc = pc]
AtRest == [pc |-> "idle", key |-> NoKey, path |-> "dict"]
Resume == dec' = [dec EXCEPT !.pc = "next", !.key = NoKey]
At(pc) == dec.pc = pc

StreamInit ==
    /\ CacheInit /\ PoolInit
    /\ arena = <<>> /\ wanted = {} /\ toPrefetch = {} /\ polls = 0 /\ kept = {}
    /\ dec = AtRest

-----------------------------------------------------------------------------
\* A forward of the layer: prefetch_hook first, then the unique routed experts,
\* through the arena when they are few enough (DecodeArena has the guard) and
\* through the dict cache alone otherwise.  The predictions scheduled on the
\* previous call are whatever the GPU computed, so any set may be drained now.
Forward ==
    /\ At("idle")
    /\ \E S \in SUBSET Keys, path \in {"arena", "dict"} :
         /\ S # {} /\ (path = "arena" => Cardinality(S) <= Slots)
         /\ wanted' = S
         /\ dec' = [AtRest EXCEPT !.pc = "prefetch", !.path = path]
    /\ \E P \in SUBSET Keys : Cardinality(P) <= Width /\ toPrefetch' = P
    /\ UNCHANGED <<vars, arena, polls, kept>>

\* _lookahead: a prediction resident in the arena is skipped, the others go to
\* enqueue, one after the other.
PrefetchOne ==
    /\ At("prefetch") /\ en["decode"].pc = "idle"
    /\ \E k \in toPrefetch :
         /\ toPrefetch' = toPrefetch \ {k}
         /\ IF InArena(k) THEN UNCHANGED vars
            ELSE \E p \in Prios : Claim("decode", k, p, PREFETCH) /\ UNCHANGED batch
    /\ UNCHANGED <<arena, dec, wanted, polls, kept>>

PrefetchDone ==
    /\ At("prefetch") /\ toPrefetch = {} /\ en["decode"].pc = "idle"
    /\ Goto("next")
    /\ UNCHANGED <<vars, arena, wanted, toPrefetch, polls, kept>>

\* arena.lookup, by _expert_slot or by _expert_arrays: a hit moves the key to
\* the end and needs nothing else.
Lookup ==
    /\ At("next")
    /\ \E k \in wanted :
         \/ /\ \E i \in DOMAIN arena : arena[i] = k /\ arena' = Append(RemoveAt(arena, i), k)
            /\ wanted' = wanted \ {k}
            /\ UNCHANGED dec
         \/ /\ ~ InArena(k)
            /\ dec' = [dec EXCEPT !.pc = "get", !.key = k]
            /\ UNCHANGED <<arena, wanted>>
    /\ UNCHANGED <<vars, toPrefetch, polls, kept>>

ForwardDone ==
    /\ At("next") /\ wanted = {}
    /\ dec' = AtRest
    /\ UNCHANGED <<vars, arena, wanted, toPrefetch, polls, kept>>

\* cache.get, one of the three in _expert_arrays.
GetStep(pc, hit, miss) ==
    /\ At(pc)
    /\ \/ GetHit(dec.key) /\ Goto(hit)
       \/ GetMiss(dec.key) /\ Goto(miss)
    /\ UNCHANGED <<poolVars, arena, wanted, toPrefetch, kept>>

FirstGet == GetStep("get", "got", "wait") /\ polls' = 0
Poll == GetStep("poll", "got", "wait") /\ polls' = polls + 1
LastGet == GetStep("final", "got", "load") /\ polls' = 0

\* The wait loop goes on while the key is in flight and the deadline is ahead.
WaitOn ==
    /\ At("wait") /\ dec.key \in inFlight /\ polls < MaxPolls
    /\ Goto("poll")
    /\ UNCHANGED <<vars, arena, wanted, toPrefetch, polls, kept>>

\* Fault: the wait has no deadline.
WaitOverNoDeadline ==
    /\ At("wait") /\ dec.key \notin inFlight
    /\ Goto("final")
    /\ UNCHANGED <<vars, arena, wanted, toPrefetch, polls, kept>>

\* The 50 ms may be over at any test, the first included, or the key is no longer
\* in flight.
WaitOver ==
    /\ At("wait")
    /\ Goto("final")
    /\ UNCHANGED <<vars, arena, wanted, toPrefetch, polls, kept>>

\* load_sync on the decode thread; an exception ends the forward.
SyncLoad ==
    /\ At("load")
    /\ \/ dec.key \in Missing \cup Faulty /\ dec' = AtRest /\ wanted' = {}
       \/ dec.key \notin Missing /\ Goto("put") /\ UNCHANGED wanted
    /\ UNCHANGED <<vars, arena, toPrefetch, polls, kept>>

SyncPut ==
    /\ At("put")
    /\ Put(dec.key, LRU)
    /\ Goto("got")
    /\ UNCHANGED <<poolVars, arena, wanted, toPrefetch, polls, kept>>

\* The dict path uses the arrays where they are.
UseArrays ==
    /\ At("got") /\ dec.path = "dict"
    /\ wanted' = wanted \ {dec.key}
    /\ Resume
    /\ UNCHANGED <<vars, arena, toPrefetch, polls, kept>>

\* The arena path copies them into a slot, which the least recently used expert
\* of a full arena gives up before the copy, and drops the cache's entry.
InsertPick ==
    /\ At("got") /\ dec.path = "arena"
    /\ arena' = IF Len(arena) < Slots THEN arena ELSE Tail(arena)
    /\ Goto("insert")
    /\ UNCHANGED <<vars, wanted, toPrefetch, polls, kept>>

InsertMap ==
    /\ At("insert")
    /\ arena' = Append(arena, dec.key)
    /\ Goto("remove")
    /\ UNCHANGED <<vars, wanted, toPrefetch, polls, kept>>

\* Fault: the cache keeps its entry.
DropEntryKept ==
    /\ At("remove")
    /\ wanted' = wanted \ {dec.key} /\ kept' = kept \ {dec.key}
    /\ Resume
    /\ UNCHANGED <<vars, arena, toPrefetch, polls>>

\* cache.remove after the insert.
DropEntry ==
    /\ At("remove")
    /\ RemoveKey(dec.key)
    /\ wanted' = wanted \ {dec.key} /\ kept' = kept \ {dec.key}
    /\ Resume
    /\ UNCHANGED <<poolVars, arena, toPrefetch, polls>>

DecodeStep ==
    \/ PrefetchOne \/ PrefetchDone \/ Lookup \/ ForwardDone
    \/ FirstGet \/ Poll \/ LastGet \/ WaitOn \/ WaitOver
    \/ SyncLoad \/ SyncPut \/ UseArrays \/ InsertPick \/ InsertMap \/ DropEntry

\* Ctrl+C: the forward is gone, wherever it was, and the next one starts afresh.
\* A claim in enqueue stays behind, and so does the cache's entry of a key that
\* the arena has just taken in; a slot that was picked loses its expert.
Interrupted ==
    /\ ~ At("idle")
    /\ \/ EnqueueInterrupted
       \/ en["decode"].pc = "idle" /\ UNCHANGED vars
    /\ dec' = AtRest /\ wanted' = {} /\ toPrefetch' = {} /\ polls' = 0
    /\ kept' = IF At("remove") THEN kept \cup {dec.key} ELSE kept
    /\ UNCHANGED arena

\* shrink_lru runs on the decode thread, between generations.
Shrink ==
    /\ At("idle")
    /\ \E b \in ShrinkTo : ShrinkLru(b)
    /\ UNCHANGED <<poolVars, decodeVars>>

Background == IONext /\ UNCHANGED decodeVars

StreamNext == Forward \/ DecodeStep \/ Interrupted \/ Shrink \/ Background

\* Only the decode thread is known to run: a worker may be slow for as long as
\* the disk is, or dead.
StreamFairness == WF_streamVars(DecodeStep) /\ WF_streamVars(EnqueueStep("decode") /\ UNCHANGED decodeVars)

StreamSpec == StreamInit /\ [][StreamNext]_streamVars /\ StreamFairness

-----------------------------------------------------------------------------
\* The copies a move to the arena leaves behind can only be staged ones, put by
\* a worker: an expert resident in the arena never takes LRU budget, except for
\* the one being moved and those whose move Ctrl+C cut between the insert and
\* the removal (model.py:50-51), until the next move of that expert.
ArenaNotInLru ==
    \A k \in Range(arena) :
       k \in Held(LRU) => (At("remove") /\ dec.key = k) \/ k \in kept

\* Decode never depends on the background threads: every forward ends, with its
\* experts resolved or with the exception of an unreadable shard, however slow
\* or dead the workers are and whatever is stuck in flight.
ForwardEnds == (~ At("idle")) ~> At("idle")
=============================================================================

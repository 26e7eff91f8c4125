------------------------------- MODULE IOPool -------------------------------
(***************************************************************************)
(* The asynchronous SSD pool and the filler loop of io_pool.py over the    *)
(* expert cache: a priority queue, a set of in-flight keys, worker threads *)
(* that load shards and put them in the cache, and a filler thread that    *)
(* enqueues random experts at the lowest priority.                         *)
(*                                                                         *)
(* A lock region or one queue operation is one step; everything between    *)
(* two of them may interleave with every other thread.  Two threads call   *)
(* enqueue: the decode thread and the filler.  In this module the decode   *)
(* thread makes any sequence of cache calls (ExpertStream has its code).   *)
(***************************************************************************)
EXTENDS ExpertCache

CONSTANTS Workers,       \* io threads
          Prios,         \* priorities of prefetch requests; filler uses 0
          Saturation,    \* is_saturated's threshold, 2 * n_threads in the code
          Batch,         \* FillerLoop.batch
          MinFree,       \* FillerLoop.MIN_FREE
          Missing,       \* keys whose shard file does not exist
          Faulty,        \* keys whose load may raise anything else: damage, an I/O error, no memory
          AllowStop,     \* TRUE: stop() may be called
          MaxInterrupts, \* bound: how many keys Ctrl+C makes the decode thread abandon in enqueue
          NoKey          \* no key

ASSUME PoolConstants ==
    /\ Prios \subseteq Nat \ {0}
    /\ Batch \in Nat \ {0} /\ MinFree \in Nat
    /\ Missing \subseteq Keys /\ Faulty \subseteq Keys /\ Missing \cap Faulty = {}
    /\ IsFiniteSet(Workers) /\ IsFiniteSet(Keys)
    /\ NoKey \notin Keys
    /\ AllowStop \in BOOLEAN /\ MaxInterrupts \in Nat /\ Saturation \in Nat

Clients == {"decode", "filler"}

VARIABLES q,          \* entries <<key, prio, tier>> in arrival order (the tie counter)
          inFlight,   \* IOPool.in_flight
          wk,         \* worker -> [pc, key, tier]
          en,         \* client -> its position in enqueue: [pc, key, prio, tier]
          batch,      \* keys the filler has sampled and not yet enqueued
          stopped,    \* the _stop events of the pool and of the filler
          abandoned   \* history: keys whose enqueue was cut by Ctrl+C

poolVars == <<q, inFlight, wk, en, batch, stopped, abandoned>>
vars == <<cacheVars, poolVars>>

Resting == [pc |-> "get", key |-> NoKey, tier |-> FILLER]
Idle == [pc |-> "idle", key |-> NoKey, prio |-> 0, tier |-> FILLER]

PoolInit ==
    /\ q = <<>> /\ inFlight = {} /\ batch = {} /\ stopped = FALSE /\ abandoned = {}
    /\ wk = [w \in Workers |-> Resting]
    /\ en = [c \in Clients |-> Idle]

-----------------------------------------------------------------------------
(* enqueue(key, priority, tier), called by client c                        *)

\* First lock region: nothing to do if the key is in flight, else claim it.
Claim(c, k, p, t) ==
    /\ en[c].pc = "idle"
    /\ IF k \in inFlight
       THEN UNCHANGED <<en, inFlight>>
       ELSE /\ inFlight' = inFlight \cup {k}
            /\ en' = [en EXCEPT ![c] = [pc |-> "claimed", key |-> k, prio |-> p, tier |-> t]]
    /\ UNCHANGED <<cacheVars, q, wk, stopped, abandoned>>

\* cache.contains, without the pool's lock.
EnqueueCheck(c) ==
    /\ en[c].pc = "claimed"
    /\ en' = [en EXCEPT ![c].pc = IF IsCached(en[c].key) THEN "unclaim" ELSE "queue"]
    /\ UNCHANGED <<cacheVars, q, inFlight, wk, batch, stopped, abandoned>>

\* Fault: the queue's sign convention leaks into the entry.
EnqueuePutNegated(c) ==
    /\ en[c].pc = "queue"
    /\ q' = Append(q, [key |-> en[c].key, prio |-> - en[c].prio, tier |-> en[c].tier])
    /\ en' = [en EXCEPT ![c] = Idle]
    /\ UNCHANGED <<cacheVars, inFlight, wk, batch, stopped, abandoned>>

\* q.put.
EnqueuePut(c) ==
    /\ en[c].pc = "queue"
    /\ q' = Append(q, [key |-> en[c].key, prio |-> en[c].prio, tier |-> en[c].tier])
    /\ en' = [en EXCEPT ![c] = Idle]
    /\ UNCHANGED <<cacheVars, inFlight, wk, batch, stopped, abandoned>>

EnqueueUnclaim(c) ==
    /\ en[c].pc = "unclaim"
    /\ inFlight' = inFlight \ {en[c].key}
    /\ en' = [en EXCEPT ![c] = Idle]
    /\ UNCHANGED <<cacheVars, q, wk, batch, stopped, abandoned>>

EnqueueStep(c) == EnqueueCheck(c) \/ EnqueuePut(c) \/ EnqueueUnclaim(c)

\* Ctrl+C reaches the main thread, which is the decode thread, and the session
\* goes on (chat.py): the claim stays behind.
EnqueueInterrupted ==
    /\ Cardinality(abandoned) < MaxInterrupts
    /\ en["decode"].pc # "idle"
    /\ abandoned' = abandoned \cup {en["decode"].key}
    /\ en' = [en EXCEPT !["decode"] = Idle]
    /\ UNCHANGED <<cacheVars, q, inFlight, wk, batch, stopped>>

-----------------------------------------------------------------------------
(* _worker                                                                 *)

\* Fault: no tie counter, the last of equals comes out first.
ForemostLast(i) ==
    \A j \in DOMAIN q : q[j].prio < q[i].prio \/ (q[j].prio = q[i].prio /\ j <= i)

\* Entry i of the queue comes out first: highest priority, then first in.
Foremost(i) ==
    \A j \in DOMAIN q : q[j].prio < q[i].prio \/ (q[j].prio = q[i].prio /\ i <= j)

Take(w) ==
    /\ wk[w].pc = "get"
    /\ \E i \in DOMAIN q :
         /\ Foremost(i)
         /\ wk' = [wk EXCEPT ![w] = [pc |-> "check", key |-> q[i].key, tier |-> q[i].tier]]
         /\ q' = RemoveAt(q, i)
    /\ UNCHANGED <<cacheVars, inFlight, en, batch, stopped, abandoned>>

\* The loop test sees the stop event.  q.get had timed out before, and the queue
\* may have been filled since.
Exit(w) ==
    /\ wk[w].pc = "get" /\ stopped
    /\ wk' = [wk EXCEPT ![w].pc = "exited"]
    /\ UNCHANGED <<cacheVars, q, inFlight, en, batch, stopped, abandoned>>

\* contains and, if no tier has the key, load_sync, which reads only the disk.
\* FileNotFoundError is caught; any other exception passes through the finally
\* clause and then ends the thread.
WorkerCheck(w) ==
    /\ wk[w].pc = "check"
    /\ LET k == wk[w].key
           after == IF IsCached(k) \/ k \in Missing THEN {"finish"}
                    ELSE IF k \in Faulty THEN {"put", "raise"} ELSE {"put"}
       IN  \E next \in after : wk' = [wk EXCEPT ![w].pc = next]
    /\ UNCHANGED <<cacheVars, q, inFlight, en, batch, stopped, abandoned>>

\* cache.put, which looks at the tiers again.
WorkerPut(w) ==
    /\ wk[w].pc = "put"
    /\ Put(wk[w].key, wk[w].tier)
    /\ wk' = [wk EXCEPT ![w].pc = "finish"]
    /\ UNCHANGED <<q, inFlight, en, batch, stopped, abandoned>>

\* Fault: the discard is not in a finally clause.
WorkerFinishNoFinally(w) ==
    /\ wk[w].pc \in {"finish", "raise"}
    /\ inFlight' = IF wk[w].pc = "raise" THEN inFlight ELSE inFlight \ {wk[w].key}
    /\ wk' = [wk EXCEPT ![w] = [Resting EXCEPT !.pc =
                 IF wk[w].pc = "raise" THEN "dead" ELSE IF stopped THEN "exited" ELSE "get"]]
    /\ UNCHANGED <<cacheVars, q, en, batch, stopped, abandoned>>

\* Fault: the worker looks at the stop event only when the queue is empty.
WorkerFinishUnstopped(w) ==
    /\ wk[w].pc \in {"finish", "raise"}
    /\ inFlight' = inFlight \ {wk[w].key}
    /\ wk' = [wk EXCEPT ![w] = [Resting EXCEPT !.pc =
                 IF wk[w].pc = "raise" THEN "dead" ELSE "get"]]
    /\ UNCHANGED <<cacheVars, q, en, batch, stopped, abandoned>>

\* The finally clause, then the loop test (or the end of the thread).
WorkerFinish(w) ==
    /\ wk[w].pc \in {"finish", "raise"}
    /\ inFlight' = inFlight \ {wk[w].key}
    /\ wk' = [wk EXCEPT ![w] = [Resting EXCEPT !.pc =
                 IF wk[w].pc = "raise" THEN "dead" ELSE IF stopped THEN "exited" ELSE "get"]]
    /\ UNCHANGED <<cacheVars, q, en, batch, stopped, abandoned>>

WorkerStep(w) ==
    \/ Take(w) \/ Exit(w) \/ WorkerCheck(w) \/ WorkerPut(w) \/ WorkerFinish(w)

-----------------------------------------------------------------------------
(* FillerLoop._run and stop()                                              *)

IsSaturated == Len(q) > Saturation

\* random.sample(pool, min(batch, len(pool))) of the keys no tier holds.
Sample ==
    LET pool == Keys \ Cached
    IN  {S \in SUBSET pool :
           /\ S # {}
           /\ Cardinality(S) = IF Cardinality(pool) < Batch THEN Cardinality(pool) ELSE Batch}

\* Fault: the filler does not look at the pool's backlog.
FillerScanBlind ==
    /\ ~ stopped /\ batch = {} /\ en["filler"].pc = "idle"
    /\ FillerFree > MinFree
    /\ batch' \in Sample
    /\ UNCHANGED <<cacheVars, q, inFlight, wk, en, stopped, abandoned>>

\* One pass of the loop: enough filler budget free and the pool not saturated,
\* then a sample.  The three reads are one step: what they say is stale by the
\* time the batch is enqueued in any case.
FillerScan ==
    /\ ~ stopped /\ batch = {} /\ en["filler"].pc = "idle"
    /\ FillerFree > MinFree
    /\ ~ IsSaturated
    /\ batch' \in Sample
    /\ UNCHANGED <<cacheVars, q, inFlight, wk, en, stopped, abandoned>>

FillerEnqueue ==
    \E k \in batch : Claim("filler", k, 0, FILLER) /\ batch' = batch \ {k}

Stop ==
    /\ AllowStop /\ ~ stopped
    /\ stopped' = TRUE
    /\ UNCHANGED <<cacheVars, q, inFlight, wk, en, batch, abandoned>>

-----------------------------------------------------------------------------
\* The decode thread, when it is not inside enqueue.
DecodePrefetch ==
    \E k \in Keys, p \in Prios : Claim("decode", k, p, PREFETCH) /\ UNCHANGED batch

DecodeCacheCall ==
    /\ en["decode"].pc = "idle"
    /\ \/ \E k \in Keys : Get(k) \/ Put(k, LRU) \/ RemoveKey(k)
       \/ \E b \in ShrinkTo : ShrinkLru(b)
    /\ UNCHANGED poolVars

IONext ==
    \/ \E w \in Workers : WorkerStep(w)
    \/ \E c \in Clients : EnqueueStep(c)
    \/ FillerScan \/ FillerEnqueue \/ Stop

PoolNext == IONext \/ EnqueueInterrupted \/ DecodePrefetch \/ DecodeCacheCall

\* Threads that can run do run; nothing makes the decode thread call the pool
\* or the filler find work.
IOFairness ==
    /\ \A w \in Workers : WF_vars(WorkerStep(w))
    /\ \A c \in Clients : WF_vars(EnqueueStep(c))

PoolSpec == CacheInit /\ PoolInit /\ [][PoolNext]_vars /\ IOFairness
-----------------------------------------------------------------------------
Busy(w) == wk[w].pc \in {"check", "put", "finish", "raise"}
QueuedKeys == {q[i].key : i \in DOMAIN q}
WorkerKeys == {wk[w].key : w \in {v \in Workers : Busy(v)}}
ClaimedKeys == {en[c].key : c \in {d \in Clients : en[d].pc # "idle"}}

\* Types of the pool's state.
PoolTypeOK ==
    /\ CacheTypeOK
    /\ q \in Seq([key : Keys, prio : Prios \cup {0}, tier : Tiers])
    /\ inFlight \subseteq Keys /\ batch \subseteq Keys /\ abandoned \subseteq Keys
    /\ stopped \in BOOLEAN
    /\ wk \in [Workers ->
          [pc : {"get", "check", "put", "finish", "raise", "exited", "dead"},
           key : Keys \cup {NoKey}, tier : Tiers]]
    /\ en \in [Clients ->
          [pc : {"idle", "claimed", "queue", "unclaim"},
           key : Keys \cup {NoKey}, prio : Prios \cup {0}, tier : Tiers]]

\* in_flight never leaks and never lets a shard be loaded by two workers: each
\* key of it has exactly one owner (a thread inside enqueue, a queue entry or a
\* worker), except those whose enqueue Ctrl+C cut, which have none.
InFlightOwned ==
    /\ inFlight = QueuedKeys \cup WorkerKeys \cup ClaimedKeys \cup abandoned
    /\ QueuedKeys \cap WorkerKeys = {}
    /\ ClaimedKeys \cap (QueuedKeys \cup WorkerKeys) = {}
    /\ abandoned \cap (QueuedKeys \cup WorkerKeys \cup ClaimedKeys) = {}
    /\ \A i, j \in DOMAIN q : q[i].key = q[j].key => i = j
    /\ \A v, w \in Workers : Busy(v) /\ Busy(w) /\ wk[v].key = wk[w].key => v = w
    /\ en["decode"].pc # "idle" /\ en["filler"].pc # "idle"
          => en["decode"].key # en["filler"].key

\* The filler checks saturation once per batch: the requests it has queued or
\* still holds never exceed the threshold by more than a batch.
FillerBounded ==
    LET queued == {i \in DOMAIN q : q[i].prio = 0}
        enqueuing == IF en["filler"].pc \in {"claimed", "queue"} THEN 1 ELSE 0
    IN  Cardinality(queued) + Cardinality(batch) + enqueuing
          <= Saturation + Batch

AllGone == \A w \in Workers : wk[w].pc \in {"dead", "exited"}
TopQueued(k) ==
    \E i \in DOMAIN q : q[i].key = k /\ \A p \in Prios : p <= q[i].prio

\* A queued request of the highest priority leaves in_flight, loaded or not,
\* while a worker is left and the pool is not stopped, however many requests
\* follow it ("higher priority is served first", first in first out among
\* equals).
TopPriorityServed ==
    \A k \in Keys : TopQueued(k) ~> (k \notin inFlight \/ stopped \/ AllGone)

\* A job that ends after stop() is its thread's last.
LastJob ==
    [][\A w \in Workers :
          stopped /\ Busy(w) /\ ~ Busy(w)' => wk'[w].pc \in {"exited", "dead"}]_vars

\* After stop() every worker ends, however much is queued, and none takes more
\* than one further job.
StopEndsWorkers == (stopped ~> AllGone) /\ LastJob

=============================================================================

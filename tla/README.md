# A TLA+ development of moe-stream

moe-stream runs mixture-of-experts language models that do not fit in memory:
the experts stay on the SSD and are brought in, expert by expert, while the
model decodes.  This directory holds TLA+ models of the parts of the program
whose correctness depends on state that several steps, threads or turns share,
the TLC configurations that check them and the TLAPS proofs about them.

Paths below are relative to `src/moe_stream/` unless they say otherwise.

## 1. The system

### Components

| component | state | operations | what makes it hard |
|---|---|---|---|
| **Expert cache** `cache.py` `ExpertCache` | three tiers (LRU, prefetch, filler), each an `OrderedDict`; bytes used and budget per tier; one lock | `get` (promotes), `put`, `remove`, `shrink_lru`, `contains`, `cached_keys` | accounting through promotion, eviction and shrink; who pays for an insertion |
| **Decode arena** `cache.py` `DecodeArena` | per layer: a map expert → slot in LRU order, stacked GPU buffers, a GPU slot table | `lookup`, `insert`, `contains` | a gather addresses experts by slot after later inserts of the same forward; map, buffers and table must agree; Ctrl+C in the middle of an insert |
| **IO pool, filler** `io_pool.py` | priority queue, `in_flight` set, worker threads, filler thread, stop events | `enqueue`, worker loop, filler loop, `load_sync`, `is_saturated`, `stop` | check-then-act between threads, exceptions in a worker, starvation, a claim nobody gives back |
| **Streaming runtime** `model.py` | lookahead predictions, pinned experts, staged and arena copies of an expert | `StreamedSwitchGLU.__call__`, `_expert_slot`, `_expert_arrays`, `_lookahead` | decode waits for a load with a deadline, falls back to its own load, moves the expert to the arena while a worker may be loading it |
| **Self-speculative decoding** `self_spec.py`, `spec_generate.py` | the prompt cache (attention and recurrent layers), the snapshot, `draft_gpu`, the locals of a generator that the consumer may drop at any yield | draft, verify, roll back, re-advance, emit, truncate, handle Ctrl+C | two kinds of layers rewound in two ways; end of turn inside an accepted draft; interrupts |
| **Serve engine and HTTP handlers** `serve.py` `_Engine`, `Handler` | `lock`, `abort`, the GPU thread's queue, the output queue of a generation | chat completions, `/api/stop`, `/api/cancel`, `generate`, `_pump`, `_drain` | a client that goes away, an abort that races a start |
| **Job queue** `serve.py` `_Jobs` | jobs with items and statuses, a queue, one worker thread | submit, cancel, solo, serial, wave and orchestrated runs | cancel, abort and failure at any point of multi-stage jobs |
| **MTP head** `self_spec.py` `mtp_spec_generate` | the head's own KV cache and how far a draft has advanced it | draft with the head, verify, realign both caches | two caches of different length trimmed and rewound in one cycle |
| **Prompt lookup** `spec_generate.py` `spec_generate` | n-gram history, a cache of its own | draft from the history, verify, yield while rejected tokens are still in the cache | rollback and history after partly accepted drafts |
| **Shards** `shards.py` | one file per expert, `.tmp` while written; the arrays of layers not yet complete | `convert`, `write_shard`, `read_shard` | a conversion killed and run again over what it left |
| **Text filters and plan** `serve.py` | text held back, recent text; phases, coders, files of the working directory, lessons file | `_strip_thought_stream`, `_guard`, `_parse_phases`, `_run_orchestrate`, `_write_coder_files`, `_save_lesson` | a marker cut in two; a cap over all phases; files of several coders; corrections |
| Predictor, profiler, `generate.py`, `src/tools/`, `mtp.py` | counters, arguments, tensors | | not modelled: see section 8 |

### Interactions

```
chat.py / serve.py ──► self_spec_generate / stream_generate ──► model forward
   HTTP threads, job worker        │ snapshot, rollback              │ per layer
   lock, abort, GPU thread         ▼                                 ▼
                              prompt cache              StreamedSwitchGLU
                                                      prefetch │   │ resolve
                                                               ▼   ▼
                          filler ──enqueue──► IO pool ──put──► ExpertCache ──► DecodeArena
```

The decode thread is the only one that reads experts, fills the arena and calls
`get`, `remove` and `shrink_lru`.  Workers only `put`.  `ExpertCache` is atomic
under its own lock; `IOPool` has a lock of its own for `in_flight`, and the two
locks are never held together, which is where the interleavings come from.
`serve.py` puts every generation on one GPU thread and admits one caller at a
time through `engine.lock`, but the lock is released by the thread that drains
the text, not by the one that computes it.

### What would make each part wrong

These are the properties the modules state; the table in section 4 gives the
runs.

- **Cache**: an expert in two tiers; bytes counted that nobody holds; a budget
  that grows back; more evictions than needed, or younger entries before older.
- **Arena**: two experts sharing a slot; a GPU table that points to a slot
  since given away; a gather that reads an expert it was not routed to.
- **IO pool**: a key that stays in flight with no owner, or has two; a backlog
  of filler requests; requests that overtake more urgent ones; a worker that
  does not end.
- **Runtime**: a forward that waits for ever; an expert of the arena that still
  takes LRU budget.
- **Generators**: output that differs from greedy decoding; a prompt cache, or
  an MTP cache, that the next turn cannot build on; an n-gram history that lacks or repeats tokens.
- **Shards**: a reader that finds half a shard, or one with the rows of another
  array; a shard lost while it is replaced; success reported with experts missing.
- **Server**: two generations at once; a job that cannot be cancelled, ends
  with open items, or never ends.
- **Orchestration**: thought shown to the user or taken for tasks; answer text
  held back; a loop not stopped; more coders than allowed; a file with the wrong
  coder's text; a lesson lost; corrections without end.

## 2. The modules

| module | models | built on |
|---|---|---|
| `ExpertCache` | the three-tier cache, one action per locked method | |
| `KeyOrders` | lemmas about the order of an `OrderedDict` (sequences without repetition under `move_to_end`, `popitem` and insertion), prefixes, and induction up to a bound | |
| `ExpertCacheProofs` | theorems about the cache | `ExpertCache`, `KeyOrders` |
| `IOPool` | pool, workers, filler, stop | extends `ExpertCache` |
| `DecodeArena` | one layer's arena and the forward that gathers from it | |
| `DecodeArenaProofs` | theorems about the arena | `DecodeArena`, `KeyOrders` |
| `ExpertStream` | the decode thread's path through arena, cache, wait and load | extends `IOPool` |
| `PoolProofs` | theorems about the pool and about the runtime over it | `ExpertStream`, `ExpertCacheProofs` |
| `GreedyDecode` | what every generator promises: the greedy continuation, in order, up to `max_tokens` or an end-of-sequence token, turn after turn | |
| `SelfSpec` | `self_spec_generate`, `_snapshot`, `_rollback`, the verification all drafting generators share | |
| `MtpSpec` | `mtp_spec_generate` with the head's cache | extends `SelfSpec` |
| `LookupSpec` | `spec_generate`, `_Lookup` | extends `SelfSpec` |
| `Generators` | the generators and waves of one process, one after the other | extends `MtpSpec`, `LookupSpec`; implements `GreedyDecode` by `INSTANCE ... WITH` |
| `GeneratorsProofs` | theorems about the generators, and that they implement `GreedyDecode` | `Generators`, `KeyOrders` |
| `ServeEngine` | lock, abort flag, GPU thread, chat requests | |
| `JobServer` | jobs, their worker, submit, cancel, stop | extends `ServeEngine` |
| `ServerProofs` | theorems about the engine and the jobs | `JobServer`, `KeyOrders` |
| `TextStream` | the thought filter and the doom-loop guard, piece by piece | |
| `Orchestrate` | an orchestrated job as its data goes: plan, phases, files, corrections, lessons | extends `TextStream` |
| `OrchestrateProofs` | theorems about the filter, the guard and the orchestrated job | `Orchestrate`, `KeyOrders` |
| `Shards` | the shard format, its reader, the converter and its crashes | |
| `ShardsProofs` | theorems about the converter and the reader | `Shards`, `KeyOrders` |
| `MC...` | model values for TLC | |

Operators whose comment begins with *Fault:* are mutations of the operator that
follows them: each is a plausible bug, and a property that holds of the model
is violated when the fault takes the operator's place.  They are not part of
any specification.

### How state and actions correspond to the code

**ExpertCache.**  `tiers[t]` is the `OrderedDict` of tier `t` as the sequence of
its keys, oldest first; `used` and `budget` are the attributes of those names.
Every public method holds `self.lock`, so `Get`, `Put`, `RemoveKey` and
`ShrinkLru` are one action each.  An entry's arrays always come from the same
shard, so their size is a function of the key, and `Bytes` gives it for a set of
keys.  `_make_room` and `_insert` are operators on the contents the caller
leaves, since `get` takes a promoted entry out before it calls them.  The second
loop of `_make_room`, over donor tiers, is there (`Robbed`), although it never
runs (section 4, Disagreements).

**IOPool.**  A lock region or a queue operation is a step, and so is a cache
call; any other thread may act in between.  `en[c]` is the position of client
`c` (decode thread or filler) inside `enqueue`, `wk[w]` that of a worker.  `q`
keeps arrival order, which is what the tie counter does, and `Take` picks the
entry the `PriorityQueue` would.  A shard is readable, missing
(`FileNotFoundError`, caught) or faulty (its load may also raise anything else:
the `finally` clause runs and the thread ends).  `EnqueueInterrupted` is Ctrl+C on the decode thread,
after which the chat session goes on.  The check `is_saturated` and the two reads
before it are one step, since nothing follows from a difference between them.

**DecodeArena.**  `order` and `slot` are `maps[layer]`, `bufs` the stacked
buffers with, for each tensor of a slot, the expert it was copied from, `table`
the GPU slot table.  `insert` is its parts in the code's order: pick a slot
(evicting), copy the tensors one by one, map, take the victim's row out of the
table, write the new one.  `got` is what
the forward will gather with.  `Interrupt` cuts an insert at any statement.

**ExpertStream.**  `dec.pc` walks `_expert_arrays` and `_expert_slot`: first
`get`, the poll loop with its 50 ms deadline, the last `get`, the synchronous
load, `put`, then the use of the arrays or the insert in the arena (`InsertPick`,
`InsertMap`) and after it the removal from staging (`DropEntry`).  The arena is its
LRU order.  `Interrupted` is Ctrl+C at any place of a forward, inside `enqueue` too:
the forward is over and the chat goes on with what it left, a claim nobody holds, a
slot without its expert, or an expert in the arena and in the LRU tier (`kept`).
`Background` is every step of `IOPool`'s threads.

**SelfSpec.**  `pc` walks the generator, `kv` and `rec` are the positions the
attention and the recurrent layers have taken in after the prompt, each with its
token and a mark if a draft forward computed it.  A forward is two steps
(`Advance` the one kind, `Complete` the other), the coarsest cut that shows an
interrupt inside it.  A step ends wherever the statements before it have changed a
cache or the count of what a cache has to give back: `_rollback` and `fed = 0` are
two (`DraftRewind`, `DraftDone`; `Judge`, `RejectDone`).  The full model is a function of its context: `greedy` is
its continuation of the prompt, and on a context off that path, or on layers
that disagree, it may answer anything; a draft may always answer anything.
`Interrupt` is the handler of the `try` block, and it does what `fed` tells it:
right at the places of `Counted`, wrong at those of `Uncounted` (outcome `torn`).
`Drop` is the consumer giving the generator up at a yield, or Ctrl+C where no handler
covers it (the prefill, the loop after the `try` block, `_truncate`), and `Fail` any
other exception.  `apart` counts by how many positions a handler or a prefill cut
short has left the attention layers ahead of the recurrent ones, or behind.  Only `rt.draft_gpu` outlives the generator; the
history variable `stuck` says that a failed draft left it on.

**MtpSpec, LookupSpec.**  Both use `SelfSpec`'s forwards, `Rollback` and
verification.  `mc` is the head's cache from the last position of the prompt on:
its position *j* takes in the model's position *j* and the token after it, so in
step it is one ahead of `kv`.  Every forward, trim and count of the head is a step:
between `mc[0].trim(mc_fed)` and `mc_fed = 0` (82-83) the handler trims twice, after
`mc_fed` or the realignment of 115-116 it trims too little (`HeadUncounted`), and
between the model's part and the head's of lines 50-58, 128-132 and 137-142 nothing
puts them right (`OneAhead`); the turn ends as `strayed`, and `lag` remembers it for
the conversation.  `LookupSpec` keeps `_Lookup.hist`; the index is a
function of it, and `LookupDraft` is the choice `draft()` makes, which the
assumption `LookupDemo` of `MCGenerators` compares with the assertions of
`_demo`.  `spec_generate` is a function of the package that no front end calls.

**Generators.**  `Start` takes a prompt for any generator, on the conversation's
cache or a fresh one: positions are counted from where the cache is, because
`RestsOnPath` says that it is on its path there.  `WaveStep` is the wave decoder
of mlx_lm over the model's single-token path, where `draft_gpu` decides between
the full experts and the draft's.  The refinement hides an end-of-sequence token
(prompt lookup hands it on), maps an exception to `Cut`, and counts a wave after
a failed draft as no generation at all: such a wave promises nothing.

**Shards.**  A file is a sequence of cells: magic, header (with its length), and
the rows of the nine arrays, each row naming checkpoint, layer, expert and array
it came from.  `Pieces` are the `f.write` calls, one step each; `ReadShard` is
the reader with its offsets.  A checkpoint's files hold a layer's arrays in any
distribution.  `Kill` stops the converter between any two steps and keeps the
disk; `Convert` may then take the same checkpoint or another one.

**TextStream, Orchestrate.**  A text is a sequence of symbols, and the two
markers share their first one; in a plan, a line is one symbol.  `Filter` is the
loop body of `_strip_thought_stream` with its `buf` and `mode`, `Guard` is
`_guard`, `LastSegment` what the detokenizer still holds after the loop
(`serve.py:543-546`), which is filtered and not guarded.  `Groups` and `CapAll` are the two halves of `_parse_phases`.  Of a
coder's answer only its coder, its round and the files it declares matter;
`Written` is `_write_coder_files` over a wave in order.  `Verify` takes any
`RIFAI` lines, the same coder twice included.  The job's plan goes through the
filter before it is parsed, as `_turn` reads what `generate` yields.  `JobServer`
has the engine, the items and the statuses of the same job.

**ServeEngine, JobServer.**  `at[x]` is caller `x`'s position in
`with lock: generate(...)`; `gpu` is the GPU thread's queue, first entry
running, and `chan[x]` the `queue.Queue` between pump and drainer.  A client
that goes away releases the lock and leaves its generation running with nobody
draining it (`drained`).  A job is run as a list of stages (`wk.todo`):
`Program` gives the first list, the results of planning and verification extend
it.  Planning does not look at the cancel flag, everything else does, as in the
code.  `StopAbort`, `StopMark` and `StopReply` are the handler of `/api/stop`,
which walks the table of jobs unlocked and fails if it grows meanwhile.

## 3. Plan

Done: all modules and runs below; the theorems of section 6, which cover every
invariant and every action property of the passing runs.

Next: the arena of `ExpertStream` is the order of `DecodeArena`'s map only; that
inserts and lookups of `DecodeArena` do to that order what `Lookup`, `InsertPick`
and `InsertMap` do has been read off the two modules only, and could be stated as a theorem.

## 4. The runs

| run | configuration | shows |
|---|---|---|
| `expert_cache` | `MCExpertCache.cfg` | `OneTier`, `Accounting`, `GentleEviction` |
| `io_pool` | `MCIOPool.cfg` | `InFlightOwned`, `FillerBounded`, `TopPriorityServed`, `StopEndsWorkers` |
| `decode_arena` | `MCDecodeArena.cfg` | `SlotsSound`, `TableMirrors`, `GatherSound` |
| `arena_interrupt` | `MCArenaInterrupt.cfg` | `GatherSound` is violated after Ctrl+C |
| `expert_stream` | `MCExpertStream.cfg` | `ArenaNotInLru`, `ForwardEnds` |
| `generators` | `MCGenerators.cfg` | `RestsOnPath`, `TurnEndsInStep`, `HeadInStep`, `LookupInStep`, `RefinesGreedy` |
| `spec_interrupt` | `MCSpecInterrupt.cfg` | `InterruptRestores` is violated |
| `job_server` | `MCJobServer.cfg` | `OneGeneration`, `ItemsSettled`, `CancelBounds`, `ChatsEnd`, `JobsEnd` |
| `lost_stop` | `MCLostStop.cfg` | `StopTakes` is violated |
| `shards` | `MCShards.cfg` | `ShardsWhole`, `DoneMeansAll`, `NeverLoses` |
| `orchestrate` | `MCOrchestrate.cfg` | `FilterExact`, `LoopsStopped`, `PlanSound`, `FilesOfCoders`, `LessonsHold`, `OrchestrateEnds` |
| `redo_files` | `MCRedoFiles.cfg` | `RedoneFilesWritten` is violated |

Each passing run but `expert_stream`, whose parts have theirs, also checks the
type invariant of its module.  `CHECK_DEADLOCK FALSE` is set where the system
does stop: the cache and the arena only act when called, the pool's threads end
after stop, a server with nothing to do rests, the converter ends, and the jobs
and runs of a bounded instance are used up.  The generators never stop.

### Bounds

- **Cache**: four keys of sizes 1, 1, 2 and 3 against budgets 4, 2 and 3, and
  shrinking to 2 and 1.  An insertion may evict none, one or several entries, an
  entry may be larger than a tier (3 against 2) and, after a shrink, than all
  that is left.
- **Pool**: two workers, three keys of which one is missing and one faulty,
  budgets of one entry each, a filler batch of one, `Saturation` 1, one Ctrl+C
  inside `enqueue`, `stop` at any time.  Two workers and three keys let every
  pair of owners meet (queue and worker, two workers, the two clients), and
  leave one worker when the faulty shard has ended the other.
- **Arena**: five experts, four slots, two experts per token: routings of one
  token and of several, refilled slots, hits between inserts.  With Ctrl+C: two
  slots, one interrupt.
- **Runtime**: two experts, one of them faulty, on one slot, so that every insert
  evicts, one worker that the faulty shard may end, one prediction per forward, one
  poll in the wait, Ctrl+C at any place (inside `enqueue` once), and shrinking to
  nothing.  The poll bound is no
  restriction on the wait: the deadline may strike at any test.  The worker is not
  stopped here (`AllowStop`): a dead one is the same to decode.
- **Generators**: tokens `a`, `b`, `eos`, three tokens, drafts of two, n-grams of
  one over two prompts: drafts accepted in full, in part and not at all, an end
  of sequence in the draft, as the full model's token and as the first token, a
  turn that ends inside a draft or on the token after it, and any sequence of
  turns of any generators, so that what one leaves behind meets the next.
- **Server**: one chat, one job of any mode, generations of two pieces, at most
  two items, waves of one, two agent steps, one stop, and a cancel at any time.
  A second wave of the same job and an orchestrated plan of two phases occur.
- **Shards**: two layers of two experts, one component per part (three arrays)
  of one and two rows, checkpoints of two files, two checkpoints and two runs.
  A layer's arrays may lie in both files, the second run may replace the first
  one's shards, and either may be killed between any two writes.
- **Orchestration**: texts of five symbols in pieces of one to three, a two-symbol
  marker: enough for a thought and a line after it, a marker cut at every place,
  and tasks of two phases over a cap of 1 or 2.  The guard's window is four
  symbols, it looks from three on, and two repetitions are a loop.  Two jobs, one
  path inside and one outside the working directory, three instructions, two
  lesson lines, two `RIFAI` lines: the file overflows, and a line comes again.

### Findings

Four runs violate a statement of the repository; all counterexamples are short.

- **`arena_interrupt`**: Ctrl+C between the eviction and the mapping of an
  insert; `insert` then takes `len(m)` for a free slot, and two experts share
  one.
- **`spec_interrupt`**: `fed` is counted after the forward, so Ctrl+C inside one
  restores the wrong length; it is set to 0 after the rollback, so between the two
  (186-187, 208-209, 105-106) the handler trims twice, and positions of the
  conversation go with it.  (Ctrl+C during the prefill, before the `try` block, restores nothing at
  all; the property does not speak of it.)
- **`lost_stop`**: `generate` clears `abort` on entry, and with it a stop that
  came after the lock was taken.  `StopTakes` speaks only of chats that had the
  lock, or were running, when the stop was called.
- **`redo_files`**: the files a corrected answer declares are not written; the
  rejected ones stay in the working directory.

### Disagreements

Other disagreements with comments met while modelling, which no run is spent on:

- `cache.py:156` ("Lower-priority tiers are robbed first"), `cache.py:3-4` and
  `src/README.md:156` promise an order of eviction across tiers: filler, then
  prefetch, then LRU.  The code does otherwise: each tier evicts only from itself,
  and an LRU insertion drops LRU entries beside a full filler.  Theorem
  `DonorLoopDead` proves that the donor loop never evicts (an entry bigger than its
  tier is refused before, so the first loop always makes the room), and
  `TiersAreIsolated` states the consequence.  That theorem describes what the code
  does, against these comments; it is no requirement, and no run checks it as one.
- `model.py:44` says that an expert moved to the arena is "not held in RAM twice".
  A load that was in flight puts it back in staging after the removal, and Ctrl+C
  between the insert and the removal (`model.py:50-51`) leaves its LRU entry;
  `ArenaNotInLru` is what does hold.
- `self_spec.py:14` says that at the end of a turn the cache holds exactly the
  emitted tokens.  A turn that reaches `max_tokens` on the full model's token
  leaves that token out; `TurnEndsInStep` allows for it.
- `self_spec.py:31` says that the head's cache is in step position by position.
  After a turn that ended at its very first token it is behind by that turn's
  prompt, and Ctrl+C at the places named under MtpSpec in section 2 puts it out of
  step; `HeadInStep` excepts these (`lag`, `torn`, `strayed`) and says that there
  are no others.
- The note of a correction wave is the last phase's, so a redone coder of an
  earlier phase reads its own rejected answer as a result to build on.

## 5. Fairness

- `IOPool`: workers and threads inside `enqueue` go on (`WF`): they are operating
  system threads that block on nothing but the queue, whose `get` has a timeout.
  Nothing makes the decode thread call the pool or the filler find work.
- `ExpertStream`: only the decode thread is fair.  `ForwardEnds` therefore holds
  with workers that are slow without limit, or dead.
- `Generators`: the generator that runs goes on (`WF(Turn)`): it is one thread of
  control that waits for nobody.  The consumer may drop it and a forward may fail
  at any time, which `RefinesGreedy` shows as `Cut`; nothing makes a next turn
  begin.
- `Orchestrate`: the worker goes on (`WF(JobStep)`), which `JobServer` justifies:
  its turns and waves end.  Nobody has to cancel, and no next job has to come.
- `Shards`: none; a conversion may be killed at any step.
- `JobServer`: the worker, the GPU thread and the handlers run; a client reads
  what it is sent or disconnects.  Without the last, a client that does neither
  keeps `engine.lock` for ever, as the code does.

## 6. What is proved

Every theorem holds for all values of the constants that satisfy the assumptions
of section 7.  Each invariant is proved in the same way: a stronger invariant
holds initially, is kept by each action (a step or a lemma for each), and implies
the property.

### The cache

`ExpertCacheProofs` proves, for every set of keys, every size function that is
additive, all budgets and all shrink targets:

- `CacheInvariant`: `CacheSpec => []CacheInv`;
- `CacheTyped`, `CacheOneTier`, `CacheAccounting`: the type invariant, `OneTier`
  and `Accounting`, which the run `expert_cache` checks on a small instance;
- `EvictsGently`: the action property `GentleEviction`;
- `DonorLoopDead` and `TiersAreIsolated`: what becomes of the other tiers, which is
  not what the comments say (section 4).

`CacheInv` is `Sound(tiers, used, budget)`: types, no key twice, tiers disjoint,
`used` exact and within budget.  It is stated of arbitrary contents and accounts
because `_insert` works on what `get` leaves after taking a promoted key out,
which is no state of the specification.  `OneTier` alone is not inductive:
whether a tier can be over budget decides whether the donor loop runs, so the
argument needs `Accounting`, and `Accounting` needs `OneTier` for the bytes of a
tier to be the sum over distinct keys.  The chain is: `SplitFacts`, `AppendFacts`
and `RemoveAtFacts` on sequences without repetition; `BytesSplit`, what an
eviction takes off an account; `DonorLoopDead`, from which the victims are the
oldest entries of the tier itself; `InsertSound` and `TakeOutSound`; then one
step per action in `CacheStepSound`.

For the action properties `CacheOutcomes` sorts the steps by what they do to the
tiers: nothing (`Quiet`), a key taken out (`Dropped`), a key taken in with a
shortest sufficient beginning of that tier evicted (`TakenIn`), or the LRU tier
cut (`Shrunk`).

### The arena

`DecodeArenaProofs` proves, for every finite set of experts, every number of
slots and every routing, of `ArenaSpec` (no insert is interrupted; the run
`arena_interrupt` shows what happens otherwise):

- `ArenaInvariant`: `ArenaSpec => []ArenaInv`;
- `ArenaTyped`, `ArenaSlots`, `ArenaMirror`, `ArenaGather`: the type invariant,
  `SlotsSound`, `TableMirrors` and `GatherSound`.

None of the last three is inductive: they speak of the moments between inserts.
`ArenaInv` says what holds inside one.  `MapInv`: the occupied slots are
`0 .. len(m) - 1`, except, while an insert copies, for its own slot; this is
why `len(m)` is a free slot.  `InsertInv`, `BufInv`, `TableInv`: what each stage
of the insert has done and what it leaves alone.  `ForwardInv`: the experts of a
forward fit in the arena together, and those resolved so far are the most recent
of the map.  From it lemma `VictimNotResolved` derives, by counting, that an
eviction takes none of them: if the oldest expert were resolved, all of a full
map would be, and the expert to insert besides.  `PickSound` is what an insert
into a free slot and one into a victim's have in common.

### The pool and the runtime

`PoolProofs` proves, for every number of workers and keys, with any shards
missing or faulty:

- `PoolInvariant`, `PoolTyped`, `PoolOwned` (`InFlightOwned`),
  `PoolFillerBounded` (`FillerBounded`), `PoolLastJob` (`LastJob`, the safety half of
  `StopEndsWorkers`), and `PoolKeepsCache`: `OneTier` and `Accounting` under the
  interleaved calls of all threads;
- of `ExpertStream`: `StreamInvariant`, `StreamArenaNotInLru` (`ArenaNotInLru`),
  `StreamKeepsPool`: what the pool promises under a decode thread that may
  call anything it keeps under the one the runtime has, and
  `StreamImplementsPool`: in the state of cache and pool every behaviour of the
  runtime is one of the pool, because the decode thread is inside `enqueue` only
  while it prefetches (`EnqueueInPrefetch`) and calls the cache only later.

`InFlightOwned` and `FillerBounded` are inductive together with the shape of the
threads (`PoolShape`) and with what a thread inside `enqueue` or a worker at
work holds (`Requests`): without it, a step might discard a key nobody owns.
`CacheInv` enters because a worker's `put` works on the cache.  For
`ArenaNotInLru` the invariant adds that the background never loads into the LRU
tier (`StagedOnly`) and that the decode thread resolves only experts that are
not in the arena (`StreamShape`).  Ctrl+C, at any place of any forward, adds
`kept`, the keys whose removal it cut.  Each step of the runtime is a step of the
pool or a call of the cache (`StreamDrivesPool`), so `PoolInv` needs no second proof.

### The generators

`GeneratorsProofs` proves, for every `K`, `MaxTokens`, set of tokens, lookup
setting and drafts, over any sequence of turns:

- `GeneratorsInvariant`, `GeneratorsTyped`, `TurnsEndInStep`,
  `LookupStaysInStep`: `SpecTypeOK`, `TurnEndsInStep`, `LookupInStep`;
- `GeneratorsRestOnPath`, `HeadStaysInStep`: `RestsOnPath` and `HeadInStep`,
  with Ctrl+C at any step.  After one inside a forward, or between a rewind in the
  `try` block and the statement of its account, `RestsOnPath` claims the recurrent
  layers only, and `HeadInStep` nothing: there the code does leave the caches apart,
  which is the finding of `spec_interrupt`.  The theorems say that these places are
  all;
- `GeneratorsAreGreedy`: `GeneratorsSpec => Greedy!GreedySafety`.  Initial states
  map to initial states and every step to a step or a stutter, so whatever the
  drafts, the interrupts and the failures, what the user sees is the greedy
  continuation.  The fairness half of `RefinesGreedy` stays with TLC.

The properties speak of yields and ends of turns; `GeneratorsInv` says for each
place between them how far along the greedy continuation both kinds of layers
are, and from where `draft`, `verified`, `acc` and the head's cache count
(`AtCycle`, `AtDraft`, ... `AtTruncate` over a conversation's cache, `AtLoop` ...
`AtStep` for prompt lookup, `InWave`).  The core is `Truthful`: an answer of the
full model is right as far as the draft before it is, from which the accepted
tokens are those greedy decoding gives.  `Flags` says where `draft_gpu` may be on.

### The shards

`ShardsProofs` proves, for all layers, experts, array sizes, component lists and
checkpoints, and any number of kills and runs: `ShardsInvariant`, `ShardsTyped`,
`ShardsAreWhole` (`ShardsWhole`), `DoneIsAll` (`DoneMeansAll`) and `ShardsStay`
(`NeverLoses`).  `Written(data, id, p)` is what a file holds after `p` of its
pieces; each write keeps it for the temporary file (`InTmp`), renaming makes it
the shard's (`Readable`), and lemma `ShardReads` computes with the header's offsets
that `read_shard` finds the rows of each array.  `Flushed` keeps account of the
layers already seen, without which success would say nothing of them.

### The server

`ServerProofs` proves, for any number of chats, jobs, items and waves:
`ServerInvariant`, `ServerTyped`, `OneAtATime` (`OneGeneration`), `JobsSettle`
(`ItemsSettled`, of jobs that end as done or as cancelled) and `CancelIsPrompt`
(`CancelBounds`).  `OneGeneration` is not
inductive, since a generation outlives the lock of a client that left:
`EngineInv` adds that a generation somebody reads has not put its sentinel and
is read by the holder of the lock (`Read`), and that nobody else's channel holds
anything (`Private`).  For the jobs, `Covered` says that each open item belongs to
a stage still to come, `WellFormed` in which order stages may follow each other,
and `AtStage`, `AtTurn`, `AtWave` tie the worker's place to its place in the engine.

### Orchestrated jobs

`OrchestrateProofs` proves, for all texts, markers, pieces, plans, caps, coders
and jobs:

- `FilterIsExact` (`FilterExact`): `Filtered` says of each of the three modes what
  is held back, and that the text shown is what `_strip_thought_text` shows; no
  symbol of a marker is special, nor its length;
- `LoopsAreStopped` (`LoopsStopped`): the window is the end of the text
  (`Guarded`), and a loop at the end of the text is one at the end of the window;
- `FilesAreTheCoders` (`FilesOfCoders`): of the coders whose wave is over the last
  that declares a path wrote it; coders of later waves are later in the list;
- `LessonsAreHeld` (`LessonsHold`);
- `CodersWithinCap`: the coders and the tasks of the phases to come are together
  never more than `n` (`Room`), and no coder of a plan gets an empty line;
- `PlanIsSound` (`PlanSound`): the text parsed is what the whole-text filter
  leaves (`FilterIsExact`), and what `_parse_phases` makes of any text and any
  `n` lies on its lines (`ParseFaithful`).  The groups are disjoint spans of the
  plan, in its order, and every line outside them is a FASE line (`Spans`,
  `GroupsPlaced`); each phase has lines of the beginning of a group of its own,
  and without list marks exactly that beginning, so that a task is left out only
  when `n` are taken before it (`CutFrom`, `CapPlaced`); `LaidOut` composes the
  two;
- `OrchestrateTyped` and `OrchestrateInvariant`, on which all of these rest.

### Induction

The library's induction theorems take an operator as a parameter and cannot be
used here.  `UpTo` (`KeyOrders`) is their first-order form up to a bound: a set
that holds 0, and with each number below *n* the next, holds all of `0 .. n`; it
follows from the pigeonhole principle.  With it `OrchestrateProofs` and
`ShardsProofs` reason about functions that recur over a sequence; `Recursion`
and `Offset`'s lemmas establish that such a function is defined where it is used.
For this reason these parts of the models are recursive functions.

## 7. Assumptions of the models

Assumptions on the constants, named in the modules and evaluated by TLC in the
runs of the modules that extend these:

- `BytesAdditive`, `BudgetsAreBytes` (`ExpertCache`): the size of a set of entries
  is the sum of its members'; budgets are natural numbers.
- `PoolConstants` (`IOPool`): there are finitely many keys and workers, as a model
  has finitely many experts.
- `ArenaConstants`, `TokenFits` (`DecodeArena`): the experts of one token fit in the arena.  The
  single-token path does not check it; the arena has at least 8 slots.
- `SelfSpec`, `LookupSpec`: the greedy continuation is considered as far as
  `MaxTokens + Ahead`, where no draft is longer than `Ahead` (`K <= Ahead`,
  `NDraft <= Ahead`): the model looks no further beyond the last token yielded.
- `ShardConstants` (`Shards`): `Components` is a finite list, arrays have natural
  numbers of rows, and the value for "no file" is no file's content.
- `TextConstants` (`TextStream`): the markers are not empty, and the guard keeps at
  least as much text as it asks for before it looks (`serve.py:516-517`: 600 and
  320).
- `Orchestrate`: the bounds `MaxJobs` and `MaxRedos` are natural numbers, the
  lessons file has room for a line.

Assumptions about what is around the code:

- The prompt cache's layers (mlx_lm) do what their names say: `trim` forgets the
  last positions, assigning a state replaces it without sharing the saved list,
  and a forward adds one position per token.
- The full model's answer depends on the context alone: batched verification
  computes the same argmax as single steps.
- `BatchGenerator` (mlx_lm) decodes a wave that is down to one item through the
  model's single-token path.
- A file that was renamed is the file that was written: `Shards` covers a process
  that is killed, not a loss of power.
- A job of `Orchestrate` has a working directory that can be written, and so can
  the lessons file.
- Ctrl+C comes between any two statements that change what the models hold, and in
  the middle of a forward; but `_snapshot` and `_rollback` are one step each, a
  forward is cut in two and no finer, and the methods of `ExpertCache`, each one lock
  region, are not interrupted inside.  One Ctrl+C ends a turn: none comes in the
  handler of another.

## 8. Only model-checked, and not modelled

All liveness properties (`TopPriorityServed`, that of `StopEndsWorkers`, `ForwardEnds`,
`ChatsEnd`, `JobsEnd`, `OrchestrateEnds`, the liveness half of `RefinesGreedy`)
are out of the prover's reach and stay with TLC.
The four properties of section 4's findings are violated and nothing is to be
proved of them.

Not modelled: hit and miss counters; the arrays' contents and the arithmetic;
the prefill path beyond `ExpertStream`'s dict path; which experts a draft forward
picks; predictor and profiler, which are statistics; command lines, session
files, HTML and JSON; the tools a solo job calls and how their calls are parsed;
git snapshots; what the prompts say; model loading and memory estimates;
`stream_generate` of mlx_lm; `src/tools/`.

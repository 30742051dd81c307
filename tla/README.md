# A TLA+ model of vllm-rbln

vllm-rbln is a plugin that runs vLLM on Rebellions NPUs. It replaces vLLM's
schedulers, KV cache managers, workers and connectors with versions that obey
the device's rules: graphs are compiled for fixed shapes, a step is one prefill
or a batch of decodes and never both, and KV cache blocks are very large. This
directory holds the TLA+ modules that model that logic, the TLC configurations
that check them, and proofs checked by TLAPS.

Paths below are relative to `src/vllm_rbln/` unless they start with another
directory of the repository.

## 1. Inventory

| Component | State it keeps | Operations | Interacts with | What makes it correct |
|---|---|---|---|---|
| **Sub-block index and KV events** (`v1/core/rbln_kv_cache_manager.py`, `SubBlockIndex`) | hash → blocks, block → hashes, queue of router events | `update`, `pop`, `longest_match`, `reset`, `take_events` | the manager below; a router that reads the events | both dictionaries describe one relation; a match names a block that holds the prefix; the router knows exactly what is cached |
| **Sub-block prefix caching** (same file, `RBLNKVCacheManager`) | pending indexing notes, match handles, copy operations, synthetic hashes | match, apply or release a match, allocate, index, free, reset | block pool (vLLM), scheduler, model runner's copies | a request only ever reads KV of its own prefix; references are neither lost nor leaked |
| **RBLN scheduler** (`v1/core/rbln_scheduler.py`, `v1/core/utils.py`) | running, waiting and skipped queues, per-request counters, pending block ids for the runner | `schedule`, `update_from_output`, preemption, free | KV manager, KV connector, model runner, every pipeline rank | no mixed step; the batch fits the compiled graph; scheduler and ranks agree on the phase; runner and manager agree on block tables; nobody starves |
| **Model runner** (`v1/worker/rbln_model_runner.py`, `v1/worker/input_stager.py`) | batch rows, sampled tokens of the previous step, ring of output buffers | `_update_states`, `execute_model`, `sample_tokens`, output thread | scheduler output, pipeline neighbours | whatever is batched, drafted or in flight, the client sees the text each request would have alone |
| **Optimum scheduler and two-level prefix cache** (`v1/core/optimum_scheduler.py`, `v1/core/prefix_cache_manager/`) | outer blocks, inner→outer mapping, eviction order | allocate, match, evict, free | vLLM's block pool, optimum model runner | a mapped inner block still has its content; active blocks are never evicted |
| **NIXL KV transfer** (`distributed/kv_transfer/kv_connector/v1/rbln_nixl/`) | blocks to save and load per request, handshakes, transfers in progress | offer, start, poll, finish, push and pull workers | scheduler, remote engine | every byte goes to the layer, K or V and head it belongs to; a request is settled with its last transfer; no read is lost between steps |
| **Encoder cache transfer** (`distributed/ec_transfer/`) | producer entries with TTL, consumer's pending pulls | register, announce, pull, acknowledge, expire | receiver thread, remote peer over sockets | no entry freed during a pull; no waiter left behind |
| **Data-parallel batches** (`v1/worker/dp_utils.py`) | per-step token counts of all ranks | the collective of each step | the other ranks | all ranks join the same collective and choose the same graph |
| **Bucketing** (`v1/worker/bucketing/`) | the bucket list | build, `find_decode_batch_bucket` | runner, warm-up | the bucket found is the least that fits |
| **Sampler and drafters** (`v1/sample/`, `v1/spec_decode/`) | none across steps, apart from drafter caches | accept, propose | runner | accepted tokens are a prefix of the drafts |
| **Worker start-up and KV sizing** (`v1/worker/rbln_worker.py`, `dynamic_kv_sizer.py`, `kv_placement.py`, `mega_cache.py`, `patches/dynamic_kv.py`) | the compile-time cache, the recorded programs, each rank's count | estimate, shrink, warm up, measure, release, reallocate | device and its allocator, the engine, the other ranks | the pool is what the ranks hold, and the largest that every chiplet has room for |
| Platform, configuration, attention backends, models, layers, LoRA, patches, compilation dispatch | configuration | validation; tensor code | everything | not protocol logic |

Where it is hard: pipeline parallelism and async scheduling put two steps in
flight, so every counter of a request describes a future the device has not
reached; speculative decoding makes part of that future untrue; preemption,
abort, eviction and KV transfers change block ownership in between; and the
index, the block pool, the runner and a remote router each hold a copy of the
same facts. `PROJECT.json` lists these hazards line by line.

## 2. Plan

Done, in this order:

1. `SubBlockIndex` with `SubBlockIndex_proofs`: the index, its events, proofs.
2. `SubBlockCache`: the manager, the pool, the scheduler's calls, the worker.
3. `RBLNSchedule`: `schedule()` itself and the runner's block tables.
4. `RunnerTokens`, shown to implement `Generation`: how sampled and draft tokens
   travel between steps, threads and pipeline ranks.
5. `OptimumCache`: the two-level prefix cache, the scheduler above it and what
   the optimum runner writes to device memory.
6. `ECTransfer`: encoder-cache transfer with its threads, timeouts and expiry.
   `NixlPairing`: which bytes of one engine belong to which of another.
7. `DPBatch`: the collectives of the data-parallel ranks, with bucketing and
   warm-up.
8. `KvSizing`: the size of the KV cache, from the estimate to the pool.
   `NixlSteps`: the connector's scheduler side and its deferred reads, step by
   step.

9. Proofs beyond the index: `ECTransfer_proofs`, `SubBlockCache_proofs`,
   `SubBlockReuse_proofs`, `DPBatch_proofs`, `RBLNSchedule_proofs`,
   `NixlSteps_proofs`, on the lemmas of `SeqLemmas`.

Left: proofs of `MapsAgree` and `TablesAgree` of `OptimumCache` and of
`PoolIsWhatRanksHold` of `KvSizing`. Several KV cache groups and deferred frees in
`SubBlockCache`; the rollback after a failed KV load in `RBLNSchedule`.

## 3. The modules

Each module describes one component with the parts of its neighbours that drive
it. Where a component runs in several deployments, the deployment is a variable
`config` (or `topo`) chosen by `Init` and never changed, so one run covers all of
them. Definitions marked *Fault* are deliberately wrong variants of the operator
that follows; no specification uses them.

### SubBlockIndex

`lists` is `_block_hashes`, `buckets` is `_hash_to_blocks` (a missing key is the
empty set), `queue` is `_sub_block_event_queue`. Hash chaining makes the hashes
a tree; `Hash` is its set of nodes and `Chain[h]` the path from the root to
`h`. `view` is a history variable, what a router knows once it has read the
whole queue. The actions are `Update`, `Pop`, `ResetPrefixCache` and
`TakeEvents`; lookups do not change state, so `LongestMatch` is an operator and
`MatchSound` quantifies over all queries.

`update` never compares hashes at positions a block already has. It therefore
relies on its caller to re-index a block only under the prefix it holds, which
nothing checks, and finding 1 below is a way in which the callers break it. So
`Update` takes any hashes, and the history variable `mixed` holds the blocks that
were re-indexed under another prefix since they were last evicted. `IndexAgrees`,
`EventsExact` and what `EventsFresh` says of removals hold whatever is in it;
`MatchSound` speaks of the blocks outside it, and a stored event is fresh while it
is empty.

### SubBlockCache

The state of `RBLNKVCacheManager` for one KV cache group, vLLM's block pool
(reference counts and hashes), the requests' counters, and the contents of the
device's KV cache. A KV entry depends on the whole prefix, so the content of a
slot is that prefix; a rejected draft leaves `Junk`. `hash` distinguishes a full
block's hash from the synthetic hash of a freed partial block.

| Action | Code |
|---|---|
| `TryMatch`, `ReleaseMatch`, `Admit` | the waiting loop: `get_computed_blocks`, `_try_sub_block_match`, then `allocate_slots` refused or granted with `apply_sub_block_match` |
| `ScheduleRunning`, `Preempt` | the running loop and `_preempt_request` |
| `Execute` | the worker: `_process_kv_cache_copy_ops`, then the forward pass |
| `UpdateFromOutput` | vLLM's part, then `do_pending_indexing` and `release_copy_ops` |
| `Abort`, `ResetPrefixCache` | `finish_requests` with `free`, `reset_prefix_cache` |

The match handle lives across two actions, as it lives across several calls in
the code. Which free block is allocated and which of several equal blocks
answers a hit are open choices, so no result depends on LRU order. What vLLM
does (`allocate_slots`, `cache_blocks`, `free_blocks`) is taken from how this
repository calls it and marked external.

### RBLNSchedule

`schedule()` is one call of the engine thread, but its two loops touch every
queue, so each iteration is an action over the record `s` of the local
variables; the engine's other work happens only when `s.at = "idle"`. The four
guards the source calls (A) to (D) are `FirstIndex`, `EntersWaitingLoop`,
`MustDefer` and `WithPrefill`. The pool is a count; a block is named by its
place and by an `epoch` that changes when the request is preempted, which is
enough to tell a stale table from a current one. `Output` is the end of
`schedule()` and includes the update of the runner's tables
(`_pending_runner_block_deltas` drained first). `UpdateFromOutput` processes the
oldest step with any legal acceptance of drafts and any stop decision. The
number of steps in flight (`Depth`) is the pipeline size, or 2 under async
scheduling. A call that scheduled nothing is followed by the oldest output
(`at = "collect"`, `Between`): the engine does not call `schedule()` again before
it has taken one. `allocate_slots` finds blocks for the tokens and for
`num_lookahead_tokens` more (`Reach`, `Slots`), which the scheduler raises to the
number of drafts. `ConfigsAssumption` states what the platform refuses,
`ScopeAssumption` which of the deployments it accepts are left out. Queues lose elements by `Kept` (module `Subsequences`), which keeps the order of the
rest.

### RunnerTokens and Generation

`RunnerTokens` follows a token from the sampler of the last pipeline rank to the
scheduler and back to the first rank. The runner keeps two copies of a request's
tokens, `cache` (`CachedRequestState`) and `rows` (the persistent batch), and
three mechanisms keep them true: it remembers what it sampled; or the scheduler
sends tokens back and `resolve_propagated_token_write` writes them by absolute
position; or, under async scheduling, it writes placeholders, feeds the next
step from a ring of two buffers (`_stage_into`) and repairs its copy when the
output thread has read the token. Rows are added, removed, condensed and sorted
as in the code.

The model is deterministic and alone decides what is right: the token that
belongs at position p + 1 is sampled if and only if the KV cache holds the right
tokens up to p; otherwise `Bad` comes out. Whether a step gets room for a
request, and whether it is preempted or aborted, is open (`RBLNSchedule` is about
that). `Execute(k)` is `execute_model` of rank k, `SampleSync` and `SampleAsync`
are `sample_tokens` with `_bookkeeping_sync`, `GetOutput` is the output thread,
and `EarlyReturn`, `Update` and `TakeDrafts` are vLLM's
`step_with_batch_queue` around them.

`Generation` is the abstract specification: the text of a request is its prompt
continued by the tokens that decoding it alone would give. `Generates` says that
`RunnerTokens` implements it, under the mapping of `over` to the requests that are
done; `text` maps to itself.

### OptimumCache

vLLM allocates and hashes inner blocks; the device knows outer blocks of `Ratio`
inner ones. `pool` is vLLM's part (external), `ob` is
`RBLNPrefixKVCacheManager`: free deque, mappings with their state, FIFO order,
reverse index and the outer blocks of a request. `can_allocate` evicts while it
answers, so the operator returns the answer together with the state it leaves.
The engine's step is cut where the code loops: `SchedulePrefill`, or
`StartDecode`, `ScheduleDecode` for each running request, `Preempt`, and
`FinishSchedule` with the dummy block; then `ExecutePrefill` or
`ExecuteDecode`, which include `update_from_output`. `kv` holds, for each slot,
the prefix whose last token's K/V is there; a slot the prefill leaves alone
becomes `Unset`. A failed copy falls back to a full prefill.

### ECTransfer

One encoder and one LLM instance. `Encode` is `save_caches` with
`_admit_producer_entry` and the drained acknowledgements; `ReceiveMeta`,
`PutMeta` and `Signal` are the LLM's receiver thread; the LLM's main thread goes
through `Drain`, `SkipLoad`, `DeferLoad`, `InitiatePull`, the four steps of
`_wait_for_cache`, and `get_finished`. Timeouts, the TTL and the outcome of a
transfer are open choices; a pull that cannot be started, for want of the
address or by NIXL's answer, ends the engine and leaves its registered buffer
behind. An acknowledgement that would block is not sent, and
the producer keeps the entry until a later one or the TTL; the receiver threads
wait for room in their queues. A registration is the pair of a hash and a generation, which tells a
repeated image's buffers apart.

### NixlPairing

The unit of memory is what one block holds of K, or of V, of one head of one
layer. `Content` says what is really at an address, from the device layout; the
arithmetic of `base_worker.py` says what the connector believes is there.
`_nixl_handshake` accepts or refuses a peer, `Transfer` copies what is really
there, and `mem` collects what was written. What ranks do does not depend on the
order in which they do it, so one order stands for all.

### DPBatch

Each rank's engine loop brings a prefill, a batch of decodes or a dummy to the
all-reduce, decides a shape from the published status, and joins the all-gathers
of the target's and, if it has experts, the draft's passes. A collective is an
action that needs every rank. `warmup_model` computes the set of compiled graphs
from the same shape rules; a graph is keyed as in `compilation/dispatch.py`.
Bucketing is part of the module because shapes are.

### KvSizing

The engine leads its ranks through remote calls (`engine.pc`); within a call the
ranks answer in any order (`done`). `kv[r]` is what a rank has of a cache: the
count in its config, the bytes there, the tensors that exist, the count before
the shrink, the count its runtimes have latched. `pre_compile_estimate`,
`initialize_from_config` (with `shrink_for_compile`), `compile_or_warm_up_model`,
`compute_num_blocks` and `apply_num_blocks` (with `reallocate` and `materialize`)
are the ranks' actions; `Plan` is vLLM's, and `AfterWarmUp`, `Resolve` and
`Finish` are the patch of `_initialize_kv_caches`. A failure anywhere ends the
start-up with its reason in `engine.why`. Memory is kept per chiplet in KiB with
the allocator's real thresholds, because what is reserved for n blocks is not
monotone in n. Taken as given: the runtime's allocator behaves as
`kv_placement.py` replays it; where the driver's query is missing the capacity is
the built-in one, direct allocations stay within the reserve and other tenants
are spread evenly; the refusals of a placement that is not linear in the count are
one flag. Two programs have the same placement when their shards are the same in
any order (`InputKey`); a snapshot of another number of chiplets than `rsd_size` is
refused. A real
device never answers "nothing" after a shrink, so the branch that restores the
first count is reached by compile-only runs alone.

### NixlSteps

One synchronous engine with a request that prefills for a peer and one that may
fetch. A slot of a block holds `<<r, p>>`, the K/V of position p of request r, on
the device (`content`) and in the host buffer (`staged`). A step is one action,
`Prefill`, `Decode` or `NoForward`, and contains in the order of the code the
flush on entry, `_build_save_meta`, `start_load_kv`, the forward pass with its
flush, `wait_for_save` and the report of finished reads. `_dummy_run` may come
at any time or never. `ReadEnds`, `Preempt`, `Abort` and `Finish` come between
steps. `held` is `{}` for no held metadata and `{reqs}` for one, as metadata
without a request is still metadata. vLLM's part (`update_state_after_alloc`,
allocation, and the pairing of the reader's blocks with the end of the peer's
list) is external. A paused scheduler, which keeps a read until it is resumed
(`connector.py:165-167`), is left out.

## 4. Runs

| Run | Question | Distinct states |
|---|---|---|
| `sub_block_index` | index and events over every sequence of operations on 3 blocks and a tree of 5 hashes | 10,010 |
| `sub_block_cache` | one step at a time, with drafts, and two steps in flight: references, hashes of partial blocks, indexing, reuse | 720,266 |
| `sub_block_async_stale` | finding 1 | violated |
| `schedule` | PP 2 with drafts, async with KV transfers, PP 2 with PRIORITY and a threshold: phases, anchors, batch size, block tables, termination | 230,356 |
| `ec_transfer` | metadata, memory map, asks, handles, and that everyone is served | 356,242 |
| `optimum` | the two levels agree, hits are right, padding is harmless, everyone finishes | 58,418 |
| `optimum_hole` | finding 2 | violated |
| `nixl_pairing` | exact transfers, settlement, acceptance, over all pairs of topologies | 8,092 |
| `runner_tokens` | does the engine implement `Generation`; ring, payload and window bounds; termination | 250,344 |
| `dp_batch` | one dimension, no dropped rows, no uncompiled shape but in an idle rank's draft, every round ends | 321,033 |
| `kv_sizing` | in every mode: is the pool what the ranks hold, each rank's answer its largest, and does an accepted count boot | 29,113 |
| `nixl_steps` | chunks, trimmed fetches, leases, preemption and aborts: own K/V, staged leases, no wait without end | 88,829 |

For every property of a passing run at least one of the *Fault* operators is a
mutant under which TLC finds the property violated; a property that joins
several claims has one for each.

Five further configurations reproduce the behaviours 3 to 7 of section 5 and are
not part of the list: `ECTransferStale`, `DPDraftStandoff`, `KvSizingMin`,
`KvDryRunRefuses` and `NixlTrimmedFetch`, each with the MC module of its
component.

Deadlock is checked in the runs of `SubBlockIndex`, `SubBlockCache`,
`RBLNSchedule` and `KvSizing`. `RunnerTokens`, `OptimumCache`, `ECTransfer`,
`NixlSteps` and `NixlPairing` stop when all their
requests or transfers are done, and in `DPBatch` a stand-off is what `RoundsEnd`
excludes; the liveness property of each takes the place of the deadlock check
(in `NixlPairing`, `TransferExact`, which speaks of the end).

**Bounds.** *SubBlockIndex*: the tree has a fork and a shared stem, so blocks
share some hashes and not others, and a block can be re-indexed across the fork; `MaxEvents` bounds the undrained queue.
*SubBlockCache*: three requests on three blocks. A request of more than one
block makes another one wait, be preempted or evict; two prompts share one
sub-block and two share a whole block and more; prompts and chunks end inside a
sub-block. Three requests are what reuse needs: one that leaves KV behind, one
that takes its block, one that looks it up. *RBLNSchedule*: prompts of 2, 5 and
1 tokens with chunks of 3 give a one-chunk prefill, a two-chunk prefill and a
request that is decode-ready at once; prefix hits of 1 and 4 make the others
decode-ready too, which is what guards (B) to (D) are about. Blocks of one token
make every decode allocate, and fewer blocks than the requests need together
make preemption, and a waiting request that does not fit, ordinary events.
*RunnerTokens*: three requests (two with drafts) that end at different lengths,
one of them at `max_model_len`; a prompt of two chunks; up to two drafts of an
n-gram drafter without a pipeline and one with it, always two of the others; batch sizes 1, 2 and 4,
so that the ring is reallocated; one preemption or abort (`MaxUpsets`) at any
point. *OptimumCache*: four requests with texts of up to nine tokens in inner
blocks of two and outer blocks of four, on a pool that does not hold them
together and on a full-size one; each request shares a prefix with another that
ends inside an outer block. *ECTransfer*: three requests, the first and third
with the same image, queues and caches of one entry, so that each of them fills
up. *NixlPairing*: TP 1 to 4, PP 1 and 2, 1, 2 or 4 areas, two layers that may
differ in their head count as a draft model's layer does. *DPBatch*: 48
deployments of one to three ranks, each bucket strategy, no drafts, n-gram,
EAGLE with and without experts; two deployments at the largest token count the
16-bit field holds. *KvSizing*: two ranks of two chiplets; utilisations from 52
to 100 per cent, tensors below, at and above the allocator's thresholds, one or
two symbols, a drafter, a neighbour on the card, a cache that is not fully
released, every combination of the flags, ranks with shards of different sizes,
shards listed in another order, and placements that are refused.
*NixlSteps*: two requests on three blocks, chunks smaller than, equal to and not
dividing a prompt, fetches of all, of a part and of less than a chunk, one
preemption (`MaxPreempt`); any set of free blocks is handed out in the order of
its ids.

**Symmetry** permutes blocks only, in runs that check no liveness.

**Fairness.** *RBLNSchedule*: `WF(Schedule)`, the engine's loop keeps calling
`schedule()`, which always terminates; `SF(Engine)`, with nothing to schedule or
the pipeline full the engine waits for its oldest batch, so an output is not put
off for ever although calls of `schedule()` interleave with it; `SF(\E r : Received(r))`,
each step polls the connector, and a transfer ends. *RunnerTokens* and
*OptimumCache*: the engine's loop, the workers and the output thread keep running
while they have something to do. The formulas are weak fairness with the guard
of the action in place of ENABLED ("the guard is false again and again, or the
action is taken again and again"), which TLC evaluates faster. *ECTransfer*: the
LLM's main thread and its scheduler run, requests arrive and running ones
finish, and a bounded wait does time out: `wait(timeout)` returns. The encoder,
the network and the receiver thread get no fairness, so `EveryoneServed` holds
with an encoder that sends nothing. *DPBatch*: each rank's loop
runs and a collective all have joined ends; vLLM's data-parallel engine runs
dummy batches while any rank has work. *NixlSteps*: the engine steps while it has
unfinished requests, those that wait for KV included, and a read that was issued
ends; dummy passes are not fair. Aborts are never fair, arrivals only in
*ECTransfer*, and the sampler's decision to stop never is: termination rests on
`max_tokens`.

## 5. What the runs show

All properties of the passing runs hold. Seven places where the code and what is
written about it part (for the first two, details are in `PROJECT.json`):

1. **A stale index entry** (`sub_block_async_stale`). `do_pending_indexing`
   indexes the partial block of a running request without hashing it. If the
   request ends while a step in flight completes that block, the block is full
   when `free` looks for a partial one, and goes back to the pool indexed but
   unhashed. The eviction hook only reacts to blocks with a hash, so the index
   keeps advertising the old prefix while the next owner overwrites it; a third
   request then copies the wrong KV. With drafts instead of async scheduling the
   same happens, which is why `IndexSound` and `ReuseSound` claim nothing for
   those two configurations.
2. **A hole in a prefix hit** (`optimum_hole`). A segment that matches in part
   is followed by the next one, but the prefill starts at the sum of the
   lengths. `KVIsOwn` therefore allows a slot that was left alone; apart from
   that no slot ever holds another text's K/V.
3. **A repeated image is pulled from a freed buffer** (`ECTransferStale.cfg`).
   Nothing calls the worker connector's `request_finished`, so the LLM keeps the
   address of a buffer after acknowledging it and uses it for the next request
   with the same image.
4. **Ranks that draft and ranks that do not** (`DPDraftStandoff.cfg`). Whether
   drafts fit the drafter's context is decided by each rank for itself
   (`v1/worker/rbln_model_runner.py:1944`), while the draft of a
   mixture-of-experts model joins all ranks. In `dp_batch` such a draft always
   fits.
5. **The least count need not fit** (`KvSizingMin.cfg`). `max_num_blocks` returns
   the largest count that fits and says that "a count can fit while smaller ones
   do not" (`v1/worker/kv_placement.py:390`); `resolve_rank_num_blocks` gives the
   minimum of the ranks' answers to all of them, and a rank that answered more
   may be over its budget at it. It takes ranks with different placements, which
   `kv_sizing` has too: `LargestThatFits` says that each rank's answer is its own
   largest and that the rank with the least answer is served it, and nothing of
   the others.
6. **A dry run that refuses** (`KvDryRunRefuses.cfg`). `docs/dynamic_kv_cache.md:130`
   says "A dry run refuses nothing", but the estimate it computes only to log
   (`v1/worker/dynamic_kv_sizer.py:234`) raises when one chiplet is crowded.
7. **A trimmed fetch** (`NixlTrimmedFetch.cfg`). `get_num_new_matched_tokens` takes
   the end off a fetch, while the read path pairs the reader's blocks with the
   end of the peer's list (`push_worker.py:226-231` describes it: "It has to come
   off the END: the consumer registers the uncached SUFFIX"). When the trim
   crosses a block boundary the blocks receive the K/V of later positions. In
   `nixl_steps` a trim stays within a block. The pairing is vLLM code, modelled
   from that comment.

Smaller boundaries, which the properties leave out and no run is kept for:

- Under async scheduling, and with drafts when the last one accepted completes a
  block, the step that completes the block caches it after its indexing note was
  drained and the next note starts past it, so its last sub-block is never
  indexed (`CachedIsIndexed` is stated for one step at a time and no drafts; with
  drafts it takes a longer output than the runs' requests have to get there).
- Under async scheduling indexing runs one step early, although
  `docs/sub_block_prefix_caching.md:150` says it is deferred until after the
  forward pass; copies still follow that pass, as steps run in order.
- `full_sequence_must_fit` (`v1/core/rbln_scheduler.py:737`) checks room for a
  whole prompt when a KV transfer starts, but only the offered part is
  allocated. A second transfer can take blocks the first still needs; the first
  then stops the head of the queue, and with nothing running no block is ever
  freed. It needs a pool about as small as one long prompt; the run `schedule`
  has more.
- The same check leaves out the look-ahead of the drafter. A prompt of several
  chunks that just fits is admitted and pushes the decodes out of the step (guard
  (D)); its last chunk, with the look-ahead, does not fit, and under FCFS the
  request preempts itself; the next step schedules the decodes, admits it again
  and pushes them out again. Unless re-admission finds its first chunks in the
  prefix cache, nobody gets further. With eleven blocks or fewer the pipelined
  deployment with drafts of the run `schedule` does this; it has twelve.
- `long_prefill_token_threshold = 1`, which nothing refuses, cuts a prefill to
  one token, which the ranks take for a decode (`v1/core/utils.py:49-53` says no
  clamp cuts a chunk that short) and sample from. `ScopeAssumption` excludes that
  value: with it the requests' own token counts go wrong, and no property of the
  module is claimed.
- A push of whole regions (equal cuts on both sides of unequal TP degrees, no
  pipeline) uses the whole-engine handle, whose list has no copies for a peer's
  replica areas: `TransferExact` excludes it by `WholeOntoReplicas`.
- An idle rank's draft with experts, two or more drafts and a peer that
  prefills runs at a query length warm-up did not compile, although
  `v1/worker/rbln_worker.py:684-691` says an idle step lands on no uncompiled
  shape. `Warmed` speaks of draft passes of ranks with work.
- The receiver thread can set an event between the drain and its creation; the
  signal is lost and the waiter goes on after its one-second timeout. That is
  the code's own design, and `EveryoneServed` rests on it.

## 6. Proofs

Every theorem is of the form `Spec => []P` (or `Spec => [][A]_vars`), for every
value of the constants that satisfies the module's named assumptions. Each rests
on an inductive invariant, called `IInv` or named below, which TLC checked on
the run of its component before it was proved. One lemma per action shows that
the action preserves it; lemmas on the operators come first.

**SeqLemmas.** Facts that the others share: division and multiplication,
extrema, concatenation and suffixes, and what `Kept(q, T)` leaves of a sequence.
The provers take no induction theorem with an operator as parameter. Induction
over a *set* of naturals does not need one: `NatSetInduction` follows from the
well-foundedness of `<`, and with it the recursive function behind `Kept` is shown
to exist and to enumerate the kept places in order. Operators that are passed
to another operator (`SelectSeq`, most folds) stay out of reach.

**SubBlockIndex_proofs**, for every set of blocks and every hash tree:
`TypeCorrect`, `AgreesAlways` (both dictionaries are one relation),
`EventsAlwaysExact` (the router knows exactly the cached hashes),
`MatchAlwaysSound`, and the action property `EventsAlwaysFresh` (no event removes
what the router lacks or, while no block is mixed, repeats what it has). Assumed:
`Chain` is the path function of a tree, `MaxEvents` a natural number; nothing is
assumed of the hashes a block is re-indexed under. The invariant is `TypeOK /\
IndexAgrees /\ ExtendedAreChains /\ EventsExact`, where `ExtendedAreChains` says that
the hashes of a block that was only extended are a path of the tree. `EventsExact` is not inductive without `IndexAgrees`, because
`_emit_block_removed` decides by the buckets and the claim is about the lists.
Freshness needs `ExtendedAreChains`: what is published is a suffix from the first
unknown hash, and only because hashes chain can nothing after an unknown one be
known.

**ECTransfer_proofs**, for any number of requests, images and queue limits:
`NoMetadataLost`, `ViewCovers`, `Pulls`, `Types`. Metadata that the LLM's main
thread has not drained is one FIFO (`Line`): its queue, what the receiver thread
holds, the wire. The invariant says that along it the generations of a hash
increase, from beyond the registry's to the newest (`Ordered`), that the newest
is on it or in the registry (`Complete`), and that a buffer the encoder holds is
in the map the LLM took and in every map on the line, except where it is
announced only later (`Mapped`). `Pulls` needs that what a step asks for and has
not dealt with is still on the main thread's list (`Tracked`, `TodoPlace`).
It claims nothing of the handles of an engine that has ended with a pull that could
not be started.
`Types` bounds the queues, the producer's cache and the pulls in flight by their
configured limits.

**SubBlockCache_proofs**: `References`, for any set of blocks, any finite set of
requests, drafts, and one or two steps in flight. A block's reference count is
the number of tables that hold it, plus the handle, plus the steps that copy from
it (`Counted`). By itself that is not inductive. Admission adds one reference per
block of a table, so the request must have had none (`TablesOfRunning`); it turns
the handle's reference into the copy operation's, whose destination is the block
after the hits, so the table must be longer than they are (`MatchFits`: a match
leaves a token to compute); and `release_copy_ops` drops one reference per
operation, so a step has one operation at most (`Types`).

**SubBlockReuse_proofs**, on top of it: what prefix caching promises, for any
blocks, requests, token streams and sizes. Two inductive invariants carry it.

- `HashInv`, drafts and two steps in flight included, is about who may write
  where. A block without a hash has one place in one table (`Sole`), so only its
  own request writes in it. One with a hash was computed whole, whatever drafts
  the steps in flight lose (`HashedIsComputed`); that needs the placeholders to
  cover the outputs on their way (`Flights`). And the hits a match handle holds
  stay cached until the request is admitted (`HitsCached`): a block that has a
  reference is not evicted. `PartialUnhashed` follows: the partial block that
  `_finalize_sub_block_state` marks has no hash yet.
- `ReuseInv`, for one step at a time without drafts (`Plain`), is about contents.
  Hashes are set at scheduling, before the forward pass has run, so the cache
  alone tells nothing: `WillHold(b, s, v)` says what slot `s` will hold once the
  step in flight has run, by its forward pass, else by its copy, else untouched.
  Every hashed block is a block of some request's stream and will hold it
  (`Hashed`, `Whole`); what is indexed of a block is there already and stays
  (`ListsOf`), also of the open block of a table, which its request goes on
  filling behind what is indexed (`OpenLists`); a block that is neither hashed
  nor in a table is not indexed (`LooseLists`), so eviction, which cleans the
  index of hashed blocks only, leaves nothing stale; a full block not yet indexed
  whole is covered by its request's note (`NoteCovers`); computed positions hold
  the request's own KV (`OwnKV`), and so does the source of a match (`MatchKV`).

From these: `HashesIndexed` (`HashesMatchIndex`), `IndexIsSound` (`IndexSound`) and
`ReuseIsSound` (`ReuseSound`). Equal prefixes are what ties different requests'
streams together: a hash is the prefix it ends, so a block found by hash holds the
KV of everyone who asks for that hash (`PrefixAgree`). `schedule()` is one lemma
(`ServedReuse`), which the admission and the running loop instantiate; freeing,
preempting, aborting and `update_from_output` are another (`FinishReuse`).
Nothing is proved, and `ReuseSound` claims nothing, where a request may end with a
step of its own in flight.

**DPBatch_proofs**: `OneDimension`, for any number of ranks and any buckets. A
rank packs its batch into one integer and puts it in a slot of its own; the
lemmas show that the sum of the all-reduce leaves each slot as it was written
(`OwnSlot`) and that the bits read back are the ones written as long as the counts
fit their fields. So all ranks of a round read one status that tells who prefills
(`Reported`), and what a rank decides about the tokens is a function of that
status (`Determined`), in the drafter's passes also of facts that hold of every
rank's batch (`Counted`).

`RowsAlwaysFit` (`RowsFit`) and `ServedWarm` (`Warmed`), for the same deployments
and any drafter and batches. Both need more than that the ranks agree: the
dimension the status yields must hold what this rank brought. The fields of the
status tell the number of tokens and requests of every rank's batch
(`DecodedFields`), and they go on bounding it while the drafter shortens the batches
between its passes (`Heard`, `Informed`); `RoundsAreInformed` is the invariant, which
TLC checked on the deployments of the run first. `BucketFacts` says that the
buckets are batch sizes and that `max_num_seqs` is the largest of them. For `Warmed`,
the graphs of warm-up are listed once (`PrefillKey` to `DraftTopKey`), and every case
of the two decisions leads to one of them (`TargetServed`, `FirstServed`,
`LaterServed`). Assumed, in `ConfigsAssumption`: the widest decode batch fits the
dimension of the prefill. The draft passes of an idle rank are outside `Warmed` and
so outside the theorem.

**RBLNSchedule_proofs**: `OneGraph` (`StepFitsGraph`), `OnePhase`
(`PhaseAgrees`), `Anchors` (`Anchored`), `ExactTables` (`RunnerTableExact`), for
any requests, prompts, prefix hits, block counts and batch sizes, with drafts,
transfers and either policy. Guard (A) looks only at the last running request.
That suffices because a request in the middle of `running` never becomes a
prefill again: when the output of a step arrives, the request has computed what
the step sampled (`Flight`), and a request preempted in flight is not resumed
before that output is back (`Unsettled`). Around it, `Queues` says that only the
last running request prefills, `Picked` what was decided about a scheduled
request, `Tabled` that the runner's table, what is kept back for it and what the
step adds are the manager's, and `Loops` where the two loops stand; both follow the
blocks of the look-ahead too (`ReachFacts`, `SlotsFacts`). Assumed, in
`ScopeAssumption` and not by the platform: a pipeline of one or two stages, and no
threshold of 1. With a threshold of 1 `PhaseAgrees` is false; with three stages or
more a preempted request could be resumed before its output is back. Nothing is
claimed of either.

**NixlSteps_proofs**: `OwnKV` (`PromptKVIsOwn`) and `Staged` (`LeasedIsStaged`),
for any requests, blocks, block and chunk sizes, hits and preemptions, under
`TrimsWithinBlock`: no fetch of the deployment is trimmed by a block, which
behaviour 7 of section 5 shows to be needed. Three facts carry it: tables share
no block, so a write, a read or a copy disturbs nobody else (`Apart`); a fetch is
listed, held, being read or read, at one of these places, and until it is
reported its request keeps its blocks, aborted or not, so that a late read finds
them (`Fetches`); the blocks collected for a running request are its table
(`Ledger`), for which a resumed request must start its list again. Assumed: a
prefix hit is of whole blocks and shorter than the prompt.

Checked by TLC only: every liveness property (fairness and ENABLED are out of the
prover's reach); `RunnerTokens` with its refinement of `Generation`, `NixlPairing` and
`OptimumCache`, which are built on folds; `KvSizing`, whose claims are about a search
over counts. The `TypeOK` of the modules without proofs documents their state and is
not a property of a run.

## 7. Not modelled

- *Sub-block caching*: several KV cache groups (a match is then the minimum over
  groups), `pop_blocks_for_free` with a connector that delays frees.
- *RBLN scheduler*: encoder inputs, `max_loras`, pausing and prefill throttling,
  mamba alignment, disabled chunked prefill, and the rollback after a failed KV
  load, which is vLLM code that could leave a prefill in the middle of the
  running queue.
- *Model runner*: pooling, multimodal inputs, streaming updates, structured
  output, logprobs; random sampling (acceptance is greedy).
- *Optimum*: the LRU eviction policy (the manager always builds the FIFO
  one, `optimum_prefix_cache_manager.py:258`), the chunked prefill
  padding of gemma3 and gemma4, encoder-decoder models, pausing and skipped
  requests, LoRA.
- *NIXL*: MLA, mamba and split-axis refusals, compatibility hashes, vLLM's leases
  and heartbeats, several KV cache groups and the clipping of sliding windows.
- *Encoder transfer*: the liveness ping, which only logs, and start-up.
- *Worker start-up*: `mega_cache` (file I/O in one thread), CPU affinity, and what
  the sizer only logs.
- Attention kernels, model definitions (with `patches/axk2`), layers,
  quantisation, LoRA kernels, input staging and most patches are tensor code
  without protocol state; together they are most of the repository's lines and
  stay out.

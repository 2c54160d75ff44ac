# A verification of the serving core: caches, scheduler, worker, quantisation, broadcast

The repository is a vLLM 0.18.1 tree tuned to serve Qwen3.5-27B on one gfx936
DCU. This directory models the part of it that decides *which request runs, on
which KV blocks, and what the device is told about it*: the code where a mistake
shows up as a wrong token hours later rather than as an exception. Around it
are the code that decides *in which representation the weights are served* and
the queue that *carries the scheduler's output to worker processes*. TLC
model-checks the modules on small instances; TLAPS proves the KV cache, the
quantisation and the queue correct for every size.

## 1. The system

One engine process runs a loop. Each turn the **scheduler** picks requests and
token counts under a budget; for each it asks the **KV cache manager** for
blocks; the resulting `SchedulerOutput` goes to the **worker**, whose persistent
batch and block table mirror the scheduler's decisions and feed the device; when
the sampled tokens come back, `update_from_output` appends them, finishes
requests and frees their blocks. Under asynchronous scheduling the next batch is
scheduled before the previous one's tokens are known. Clients add and abort
requests, reset the prefix cache and pause the engine in between.

The served model is hybrid: most layers keep a recurrent (Mamba) state instead of
KV. Their blocks come from the same pool, in **groups** of their own; a state is
overwritten by every step, and the cache keeps only states at block boundaries.
Before the loop starts, the loader **quantises** eligible weights on the device,
and a gate refuses to serve if it was asked to and nothing was converted. With
several workers the executor broadcasts to them through a **shared-memory queue**.

| part | source (under `src/`) | state | operations | model |
|---|---|---|---|---|
| block pool, prefix cache index | `vllm/v1/core/block_pool.py` | reference counts, free queue, block hashes, hash index | cache_full_blocks, get_new_blocks, touch, free_blocks, evict_blocks, reset_prefix_cache | `KVCacheManager` |
| KV cache manager (one full-attention group) | `vllm/v1/core/kv_cache_manager.py`, `single_type_kv_cache_manager.py` | block table and cached count of each request | get_computed_blocks, allocate_slots, cache_blocks, free, get_num_common_prefix_blocks | `KVCacheManager` |
| scheduler | `vllm/v1/core/sched/scheduler.py`, `request_queue.py`, `utils.py`, `vllm/v1/request.py` | waiting and running queues, request status, computed tokens, pause state | add_request, schedule, _preempt_request, _update_after_schedule, update_from_output, finish_requests, reset_prefix_cache, set_pause_state | `Scheduler` |
| asynchronous scheduler | `vllm/v1/core/sched/async_scheduler.py` | output placeholders, discard flag | _update_after_schedule, _update_request_with_output | `Scheduler` |
| engine core loop | `vllm/v1/engine/core.py` | batch queue | step, step_with_batch_queue, _process_aborts_queue | `Scheduler` |
| persistent batch | `vllm/v1/worker/gpu_input_batch.py`, `vllm/v1/attention/backends/utils.py` | row of each request | add_request, remove_request, condense, swap_states, reordering | `WorkerBatch` |
| block table, dirty commit | `vllm/v1/worker/block_table.py` | host rows, row lengths, dirty flag, device rows | append_row, add_row, move_row, swap_row, commit_block_table | `WorkerBatch` |
| model runner (bookkeeping) | `vllm/v1/worker/gpu_model_runner.py` | cached request states, input-preparation event | _update_states, _prepare_inputs, execute_model | `WorkerBatch` |
| hybrid cache (full-attention and Mamba groups) | `kv_cache_coordinator.py`, `single_type_kv_cache_manager.py`, `kv_cache_manager.py` | a table per group and request, states cached in this step | find_longest_cache_hit, allocate_slots, remove_skipped_blocks, cache_blocks, free, new_step_starts | `HybridCache` |
| hybrid engine | `scheduler.py`, `async_scheduler.py`, `vllm/v1/worker/mamba_utils.py` | queues, batches in flight, the worker's tables and state indices, device memory | schedule with _mamba_block_aligned_split, update_from_output, preprocess_mamba | `HybridEngine` |
| online quantisation | `vllm/model_executor/layers/gfx936_online_quant.py`, `linear.py`, `model_loader/utils.py` | admission cache, layer attributes, counter | candidate kinds, admission, packing, install and roll-back, start-up gate, apply | `OnlineQuant` |
| shared-memory queue | `vllm/distributed/device_communicators/shm_broadcast.py` | chunks, flags, sockets, indices | enqueue, acquire_write, dequeue, acquire_read, wait, notify, shutdown | `MessageQueue` |
| everything else (kernels, models, front end, distributed, legacy plugin) | see `PROJECT.json` | | | not modelled |

What makes this code hard to test, and what the properties below go after:

* blocks shared by reference count, freed by several holders, and revived from
  the free queue by a later hit;
* hashes published when a block is *scheduled*, before the device computes it;
* a capacity check made before the hit blocks leave the queue it counts;
* tokens, aborts, resets and preemptions that cross a batch in flight;
* a pool at its limit, where requests preempt each other in turn;
* a device copy of the block table that is refreshed only when a flag says so,
  by a transfer that reads host memory later than it was asked to;
* a recurrent state that is hashed before it is computed, lives in the block that
  the next step overwrites, and is found again through an index kept on the worker;
* a weight replaced attribute by attribute by calls that may raise at any of them;
* flags in shared memory read and written without a lock, with a notification that
  may arrive between the check and the sleep.

## 2. Modules

| module | what it is |
|---|---|
| `BlockLists` | sequences of blocks: removal from the middle of the free queue, reversal, leading run of hits, `Cdiv` |
| `KVCacheManager` | the block pool and the manager, one operator or action per method |
| `KVCacheClient` | the abstract specification of how the cache may be used: every call sequence a well-behaved scheduler may make, and the safety properties of the cache |
| `BlockListProofs`, `KVCacheExtension`, `KVCacheAllocation`, `KVCacheProofs` | the proofs (section 5) |
| `Scheduler` | the scheduler, synchronous or asynchronous, with the engine loop around it; extends `KVCacheManager` and calls its actions |
| `WorkerBatch` | the worker's rows, block table and device stream |
| `HybridCache` | one pool under full-attention and Mamba groups, one operator per method |
| `HybridEngine` | scheduler, hybrid cache and the worker's state copies composed |
| `OnlineQuant`, `OnlineQuantProofs` | quantisation while a model is loaded, and its proofs |
| `Broadcast` | the abstract specification of a one-to-many queue |
| `MessageQueue`, `MessageQueueProofs` | the shared-memory queue, and its proofs |
| `MCKVCache`, `MCScheduler`, `MCWorker`, `MCHybrid`, `MCQuant`, `MCQueue` | instances for TLC |

Definitions whose comment begins with "Variant:" are deliberately wrong forms of
the definition that follows them. No specification uses them; they record which
mistake each property is there to catch.

### KVCacheManager

Variables keep the source's names: `ref_cnt`, `free_block_queue` (a sequence, next
victim first), `block_hash`, `cached_block_hash_to_block` (hash to set of blocks),
`req_to_blocks`, `num_cached_block`. A block hash is an element of `Hashes`;
`BlockHashes[r]` is the chain of request `r`. The only thing assumed about hashes
is that a hash determines its position and the hashes before it, which is what
hashing the parent's hash with the tokens gives in the absence of collisions.
`AllocateSlots` is the whole method: capacity check, touch of the hit blocks,
eviction and allocation of new ones, caching of the full blocks. Everything runs
on the engine's thread, so a method is one step.

### Scheduler

`schedule()` is not atomic in the model: its loops are cut at each request
(`ConsiderRunning`, `ScheduleRunning`, `PreemptForBlocks`, `ScheduleWaiting`, ...)
with the method's local variables in `local`, and `update_from_output` likewise.
Nothing interleaves with them in the code, and nothing does in the model (`phase`);
the cut keeps each action close to the lines it stands for. Between the methods
anything may happen: an arrival, an abort, a reset, a pause, the end of a batch.
Token values are abstracted to their positions (the hashes of a request's outputs
are fixed beforehand), except that a sampled token may or may not be a stop token. `written` is history: which KV each slot holds, identified by its position and by
the requests whose text agrees up to there. Giving a block away counts as losing
what it held. `outputs` holds the entries of the batch being processed.

### WorkerBatch

The scheduler is the environment here and hands over any well-formed sequence of
outputs. Host code runs step by step (remove, update, add, condense, reorder,
launch); the device has a `stream` of enqueued operations, each taking effect when
it reaches the head: the table copy reads the host rows *then*, as a non-blocking
copy from pinned memory does. A forward entry carries the rows it should find.
Without asynchronous scheduling the host waits for the sampled tokens, hence for
the whole stream; with it the host waits for the event recorded after the
previous step's input preparation.

### HybridCache and HybridEngine

`HybridCache` has its own pool operators because tables are per group and because
a state block leaves a table in the middle, where a null block takes its place. A
lookup takes the run of hits of the full-attention group and shortens it to the
longest prefix whose state every Mamba group has cached, as the coordinator does.
`HybridEngine` cuts `schedule()` as `Scheduler`
does, for FCFS and asynchronous scheduling; resets, pauses and priorities are
only in `Scheduler`. The worker executes batches in the order they were scheduled
and only tokens come back, so a batch takes effect on `memory` when it is
scheduled and its outputs are processed up to a batch later. A block holds a
`Content`: for a Mamba group *the state after n tokens of this text*. There are
no speculative blocks (`num_speculative_blocks = 0`, as deployed). The worker's
`mamba_state_idx` of a request that is never seen again is left behind, as in the
code; it does no harm because a new or resumed request drops its entry first.

### OnlineQuant

One action per exit of `maybe_quantize_gfx936_layer` and one per step of
`_install_quantized_weight`; each has a raising counterpart. Attribute assignments
hardly raise in practice; allowing it anyway only makes the properties harder to
keep. A benchmark is its decision. After loading, `Gate` is the start-up check and
`Apply` the forward pass, which raises on a layer whose parts do not fit together.
`PackPair`, `UnpackPair` and `RowChunk` are the arithmetic of 4-bit packing and of
packing by rows.

### MessageQueue

Every access to a flag, a chunk or a socket is a step; the fences around them
justify sequential consistency. A message is its number; whether it fits into a
chunk is the environment's choice. A notification that is in a reader's socket or
on its way is one fact (`pinged`), since the socket keeps only the last one.
`ReadFails` and `RecvFails` (the message cannot be unpickled) stop a reader, because
the worker's loop calls `dequeue` outside its `try`. A `TimeoutError` or such a
failure after the chunk was given back puts the reader into `lost`: from then on
`Broadcast` promises it only some published message, and the others everything as
before. `SendFails` is `send_multipart` raising when the chunk that announces the
message is already published. It stops the writer: an exception of `enqueue` ends
the engine's loop (`collective_rpc`) or the worker's (`enqueue_output`). Readers
that have taken the chunk then wait in `recv`, even when they are shut down
(`OneMissing`), and sleeping readers are not notified; `NoLostWakeup` and `Settled`
say so. A writer that went on after it would have its next large message taken for
the lost one; the group coordinator's `broadcast_object`, whose exceptions a worker
catches, is not covered.

## 3. Runs

Passing runs. Deadlock checking is on in all of them but `message_queue`, where
all readers may have stopped:

| run | instance | what it shows |
|---|---|---|
| `kv_sharing` | 3 requests with common prefixes, 4 usable blocks of 2 tokens, one request that skips reads, late reports of an invalid block | the cache properties of section 4 under every order of lookup, allocation, late caching, free, reset and report |
| `sched_sync` | 3 requests, FCFS, no chunked prefill, 3 usable blocks, aborts of anyone, both kinds of reset | queues, statuses, block ownership, arrival order |
| `sched_async` | 3 requests, FCFS, 2 batches in flight, budget of 2 tokens, chunked prefill, 3 usable blocks, aborts, idle resets | every slot read holds the right KV; tokens in order, none lost, repeated or superfluous; no cached block stranded; every request finishes |
| `sched_priority` | 2 requests, PRIORITY, asynchronous, prefill threshold, forced resets, pauses | the step's accounting; refinement of `KVCacheClient` |
| `worker_stream` | 2 requests, 2 rows, blocks of 2 kernel blocks, asynchronous | rows and device rows follow the scheduler |
| `worker_reorder` | 3 requests, 3 rows, 3 regions, synchronous | condensing and reordering |
| `hybrid_engine` | 3 requests with common prefixes, 2 Mamba groups and one full, 11 usable blocks of 2 tokens, 2 batches in flight | the shared pool, the running states, the cached states, the two-state bound; every request finishes |
| `online_quant` | 5 layers of 2 shapes and one ineligible, every mode, any call may raise | layers are usable, the gate is right, decisions are respected |
| `message_queue` | 2 readers (one may time out, one may be shut down), 2 chunks, 3 messages of either size | flow control, no lost wake-up, refinement of `Broadcast`, nobody waits for ever |

Violation runs, each a disagreement between the code and a text beside it:

| run | what TLC finds |
|---|---|
| `priority_preemption` | Under `--scheduling-policy priority` a request can be un-scheduled after `allocate_slots` published its blocks. Nothing un-publishes them, so the request, or another with its prefix, later resumes from KV that was never computed. The docstring of `get_computed_blocks` promises computed blocks. FCFS, which the launch script uses, is safe (`sched_async`). |
| `async_reset` | `reset_prefix_cache(reset_running_requests=True)` tells the asynchronous scheduler to drop the next token of every running request, also of one with no token in flight; that request loses a token and keeps a stale placeholder. |
| `null_block` | The start-up check accepts a pool of exactly `cdiv(max_model_len, block_size)` blocks, one of which becomes the null block. A request of maximal length then preempts itself and waits for ever. |

### Bounds

Blocks of two tokens (one in `priority_preemption`) are the smallest for which
"full" and "partial" differ, and prompts are chosen so that a boundary falls
inside a prompt, at its end and among the outputs. Pools are as small as one
request plus one or two blocks, so eviction, failed allocation and mutual
preemption occur within a few steps; in `sched_async` one request fills the whole
pool, so that it evicts the prefix the two others share. Three requests give a holder, a sharer and a
competitor; two suffice for priorities (one of each). Two batches in flight are
what `max_concurrent_batches` gives one device. In the worker two rows suffice for
every race with the device; three are needed for a reordering cycle that is not a
swap. Symmetry is used only in the worker runs, where requests and block ids are
model values and no liveness is checked. In `hybrid_engine` the pool of 12 and the
prompt of 9 are such that a request could hold a third state if one were left
behind, and yet requests preempt each other; two Mamba groups stand for the
deployment's three, since groups interact only through the pool and through the
length of the hit. In `online_quant` three layers of one shape let a decision be
made, reused and overwritten. In `message_queue` three messages in two chunks make
both sides wrap around. `Abortable`, `ResetModes`, `PauseStates`,
`Preemptible`, `MaxFirstBlocks`, `MaxPlaceholders` and `InvalidReports` bound what
the environment does in a run.

### Fairness

`Scheduler!Spec` assumes weak fairness of `EngineStep`, the engine's own steps;
only `sched_async` and `null_block` check a property that depends on it. `run_busy_loop` calls the step function as long as there is
work and the executor's futures complete, so an enabled engine step is eventually
taken. No fairness is assumed of arrivals, aborts, resets or pauses.
`HybridEngine!Fairness` is the same assumption with the enabling condition written
out. `MessageQueue!Fairness` has the writer finish an `enqueue` it has begun, each
reader call `dequeue` in a loop, as `worker_busy_loop` does, sockets deliver, and
`shutdown` run to its end; nothing obliges anyone to enqueue, time out, fail or
shut down.

## 4. Properties

Cache (`KVCacheClient`): `FreeQueueExact` and `RefCountExact` (no leak, no double
free, no block both free and held), `CacheIndexExact` and `UncachedTailHasNoHash`
(index and block hashes agree), `CachedPrefixMatches` (a table's cached blocks
carry that request's hashes), `TableCoversSlots`, `SharedOnlyAsPrefix` (two
requests share a block only as part of a common cached prefix),
`CapacityCheckSuffices`, `CommonPrefixIsCommon`.

Scheduler: `QueuesMatchStatus`, `OnlyRunningHoldBlocks`, `ComputedTokensWritten`
(every token counted as computed has its own KV in its slot),
`HashedBlocksComputed` (every published block holds what its hash says), `OutputsInOrder`, `NoExtraStep`, `ScheduleAddsUp`,
`FcfsOrder`, `CacheClosedUnderPrefix` (freeing tail first never strands a cached
block behind an evicted one), `EveryRequestFinishes`, and `ImplementsClient`: the scheduler with its
state mapped to the client's is an implementation of `KVCacheClient`, so the
theorems of section 5 carry over to whatever the scheduler does.

Worker: `RowsHoldTheirRequests`, `ForwardReadsItsBlocks`, `BatchIsSplit`,
`SwapsSettleRows`.

Hybrid: `SharedPoolExact` (counts and queue are exact over all groups, and no block
is in two groups), `RunningStateOnDevice` (the block the worker will copy from holds
the state after exactly the computed tokens), `PublishedStatesExact` (a cached state
is the state at the end of its block), `NothingRaises`, `TwoStatesPerRequest` (what
`MambaSpec` reserves is enough), `HybridRequestsFinish`.

Quantisation: `LayersUsable` (a layer is untouched or completely converted, whatever
raised), `QuantisedWhenServing` (the counter is exact and the gate refuses when it
must), `OnlyAdmittedKinds` (a layer has a kind that was benchmarked once and
accepted, W8 in place of W4 only when W4 was given up).

Queue: `FlowControl`, `NoLostWakeup`, `ImplementsBroadcast`, `NobodyWaitsForever`.

## 5. Proofs

### KV cache

`KVCacheProofs` proves, for every finite set of requests, any number and size of
blocks, any hash chains satisfying the assumption above and any reports of invalid
blocks, that `KVCacheClient!Spec` keeps its type invariant and all nine properties
that `kv_sharing` checks.

The argument is one inductive invariant, `IInv` (in `KVCacheExtension`): the type
invariant, the two counting invariants, the two index invariants,
`CachedPrefixMatches`, `TableCoversSlots` and `SharedOnlyAsPrefix` together. None
is inductive alone. Evicting a block is safe only because a queued block has count
zero, hence is in no table. A hit may be shared only because the index lists
blocks that carry the hash and a hash fixes its position, so the hit lands at the
same place in both tables. Freeing keeps the queue duplicate-free only because
the tables are. The capacity and common-prefix theorems follow from `IInv` state
by state.

* `BlockListProofs`: the sequence operators. Removal and reversal keep the
  members and the absence of duplicates; the leading run is a prefix of hits.
* `KVCacheExtension`: arithmetic of block counts, and what adding blocks to a
  table does to each conjunct (`ExtensionPreserves`).
* `KVCacheAllocation`: what a lookup returns, what touching leaves of the queue,
  that a successful `AllocateSlots` is such an extension (`AllocateIsExtension`),
  and hence that the allocation actions preserve `IInv`.
* `KVCacheProofs`: the other actions, the induction, the theorems.

### Quantisation

`OnlineQuantProofs` proves `LayersUsable`, `QuantisedWhenServing` and
`OnlyAdmittedKinds` for any finite set of layers and any shapes. The inductive
invariant says, beyond the types, which parts the layer being installed has after
each step (so that the roll-back finds what to remove), that the counter is the
number of converted layers, and how the admission cache and the benchmarks run so
far belong together. Two theorems are about arithmetic alone: `NibblesRoundTrip`
(packing two 4-bit values loses nothing) and `RowsInOneChunk` (packing by rows
covers each row once, for any chunk size).

### Queue

`MessageQueueProofs` proves `FlowControl`, `NoLostWakeup` and the refinement
`ImplementsBroadcast` for any set of readers, ring size and number of messages.
The inductive invariant has five parts. `RingInv` says where everybody is: message
n is `published + 1 - n` chunks behind the writer's index (`Behind`), and its chunk
carries n and the flags of exactly the readers that have given it back (`Marked`),
as long as n is among the last `MaxChunks` (`InRing`). Positions are counted from
the writer's index rather than modulo the ring size, which keeps the arithmetic
linear. `LocalInv` is what a reader inside `dequeue` knows from its earlier reads;
it needs `RingInv` because the flags it read may since have changed. `WakeInv` is
`NoLostWakeup` extended to a reader that has seen no message and is about to sleep.
`SocketInv` says that a socket holds, in order, exactly the large messages its
reader has yet to get (`Pending`), which is what makes the announcement in a chunk
and the message from the socket belong together. The refinement is then a case
distinction over the actions: `Publish` is `Publish`, the end of a `dequeue` is
`Deliver`, `Miss` or `DeliverAny`, everything else stutters.

### Model-checked only

Everything about `Scheduler`, `WorkerBatch`, `HybridCache` and `HybridEngine`, the
refinement `ImplementsClient`, and every liveness property. Liveness under fairness
and `ENABLED` are outside the prover's reach, as is induction over data; they stay
with TLC.

## 6. Not modelled

* Token values, sampling, attention, quantised kernels: numeric.
* Speculative decoding, LoRA limits, structured output, multimodal encoder
  budgets, KV connectors, streaming input, pipeline and data parallelism: off in
  this deployment (`launch.sh`); the guards that test for them are taken as false.
* Sliding-window, chunked-local and cross-attention managers (no such layer in the
  served model), Mamba cache mode "all", and speculative blocks. The linked list
  behind the free queue: the queue is a sequence here.
* Reloading weights over a layer that was converted, and the shape tables of the
  skinny GEMM policy, which have no state.
* Remote readers of the queue, the handshake `wait_until_ready`, and the executors'
  RPC layer above it. The deployment has one device and runs its worker in the
  engine's process; the queue serves the multi-process configurations.
* `BlockTable.clear` and the mutable views, used by elastic expert parallelism
  only; the slot mapping with context parallelism.
* KV events, statistics and logging.
* Hash collisions, and failures of the worker process (the engine then exits).

The tree has more than half a million lines. Most are kernels, model definitions,
quantisation formats, platform support and front ends that this
deployment never loads or that compute numbers; there is no state machine to check
in them, and the modules here stand for well under one per cent of the lines. What
is modelled is the stateful core between a request's arrival and its tokens.

Known weak spots without a property: under PRIORITY a victim that stood before
`req_index` without having been scheduled makes the loop pass over one request for
one step; with more than two batches in flight a resumed request could receive the
output of its former life. An object with out-of-band buffers returned by `dequeue`
aliases a chunk that the writer may reuse; a timed-out RPC leaves its response for
the next one. `PROJECT.json` lists all four.

## 7. Open ends

* `WorkerBatch` has its own environment instead of being driven by `Scheduler`
  outputs; the composed state space was not attempted.
* No theorem is about the scheduler: `OnlyRunningHoldBlocks` and the refinement of
  `KVCacheClient` would be the first to prove.
* The free queue's linked list could be shown to implement the sequence.

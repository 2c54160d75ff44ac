----------------------------- MODULE HybridEngine -----------------------------
(***************************************************************************)
(* Scheduler, KV-cache manager and model runner of a hybrid model with     *)
(* Mamba cache mode "align" and asynchronous scheduling: schedule() with   *)
(* block-aligned prefill chunks, and the model runner's copies of Mamba    *)
(* states between blocks (vllm/v1/worker/mamba_utils.py).                  *)
(*                                                                         *)
(* As in Scheduler, one loop iteration of a method is one action.  The     *)
(* worker executes batches in the order they were scheduled and nothing    *)
(* but their outputs comes back, so a batch is executed when it is         *)
(* scheduled, while its outputs are processed up to a batch later.         *)
(* FCFS policy; resets, pauses and the priority policy are in Scheduler.   *)
(***************************************************************************)
EXTENDS HybridCache

CONSTANTS
    NumPromptTokens,        \* request -> prompt length
    MaxTokens,              \* request -> sampling_params.max_tokens
    MaxNumScheduledTokens,  \* token budget of a step
    MaxNumRunningReqs,      \* max_num_seqs
    BatchQueueSize,         \* max_concurrent_batches
    Abortable               \* requests a client may abort

\* VllmConfig.validate_block_size: block_size <= max_num_batched_tokens.
ASSUME EngineAssumption ==
    /\ NumPromptTokens \in [Requests -> 1 .. MaxModelLen - 1]
    /\ MaxTokens \in [Requests -> Nat \ {0}]
    /\ BlockSize <= MaxNumScheduledTokens
    /\ MaxNumRunningReqs \in Nat \ {0}
    /\ BatchQueueSize \in Nat \ {0}
    /\ Abortable \subseteq Requests

VARIABLES
    status,             \* request -> RequestStatus, "NONE" before it arrives
    num_tokens, num_computed_tokens, num_output_placeholders,
    waiting, running,
    phase,              \* the loop in progress
    local,              \* local variables of schedule()
    batch_queue,        \* entries of scheduled batches, oldest first
    outputs,            \* entries of the batch whose output is processed
    forgotten,          \* finished_req_ids
    block_ids,          \* worker: group -> request -> CachedRequestState.block_ids
    mamba_state_idx,    \* worker: request -> index of its running state's block
    memory              \* what the blocks hold on the device

requestVars == <<status, num_tokens, num_computed_tokens, num_output_placeholders>>
workerVars == <<block_ids, mamba_state_idx, memory>>
vars == <<kv, requestVars, waiting, running, phase, local, batch_queue, outputs,
          forgotten, workerVars>>

\* What a block holds: for a Mamba group the state after the first n tokens of
\* a request, for full attention the KV of the block's tokens up to the n-th.
\* Requests with the same tokens up to the end of a block agree on it.
Content(g, r, n) ==
    LET i == n \div BlockSize
    IN  [group |-> g,
         text |-> IF i = 0 THEN NoHash ELSE BlockHashes[r][i],
         rest |-> n % BlockSize,
         of |-> IF n % BlockSize = 0 THEN {} ELSE {r}]
Nothing == [group |-> "none", text |-> NoHash, rest |-> 0, of |-> {}]

IdleLocal == [req_index |-> 1, token_budget |-> 0, scheduled |-> <<>>,
              preempted |-> {}, resumed |-> {}]

Init ==
    /\ KVInit
    /\ status = [r \in Requests |-> "NONE"]
    /\ num_tokens = NumPromptTokens
    /\ num_computed_tokens = [r \in Requests |-> 0]
    /\ num_output_placeholders = [r \in Requests |-> 0]
    /\ waiting = <<>> /\ running = <<>>
    /\ phase = "idle"
    /\ local = IdleLocal
    /\ batch_queue = <<>> /\ outputs = <<>>
    /\ forgotten = {}
    /\ block_ids = [g \in Range(Groups) |-> [r \in Requests |-> <<>>]]
    /\ mamba_state_idx = [r \in Requests |-> NoIndex]
    /\ memory = [b \in UsableBlocks |-> Nothing]

Without(queue, S) == Keep(queue, Requests \ S)

\* Scheduler.add_request
AddRequest(r) ==
    /\ phase = "idle"
    /\ status[r] = "NONE"
    /\ status' = [status EXCEPT ![r] = "WAITING"]
    /\ waiting' = Append(waiting, r)
    /\ UNCHANGED <<kv, num_tokens, num_computed_tokens, num_output_placeholders, running,
                   phase, local, batch_queue, outputs, forgotten, workerVars>>
-------------------------------------------------------------------------------
(* schedule() *)

\* The start of schedule().
StartSchedule ==
    /\ phase = "idle"
    /\ running \o waiting # <<>> \/ forgotten # {}
    /\ Len(batch_queue) < BatchQueueSize
    /\ phase' = "running"
    /\ local' = [IdleLocal EXCEPT !.token_budget = MaxNumScheduledTokens]
    /\ kv' = NewStepStarts(kv)
    /\ UNCHANGED <<requestVars, waiting, running, batch_queue, outputs, forgotten, workerVars>>

\* Variant: prefill chunks end anywhere.
UnalignedSplit(r, computed, new) == new

\* Scheduler._mamba_block_aligned_split: a prefill chunk ends at a block
\* boundary, until the last boundary is passed.
AlignedSplit(r, computed, new) ==
    LET last == (num_tokens[r] \div BlockSize) * BlockSize
        after == computed + new
    IN  IF computed >= Larger(NumPromptTokens[r], num_tokens[r] - 1) THEN new
        ELSE IF after < last THEN (new \div BlockSize) * BlockSize
        ELSE IF computed < last /\ last < after THEN last - computed
        ELSE new

\* How many tokens of a running request to schedule.
NumNewTokens(r) ==
    AlignedSplit(r, num_computed_tokens[r],
        Smaller(Smaller(num_tokens[r] + num_output_placeholders[r] - num_computed_tokens[r],
                        local.token_budget),
                MaxModelLen - 1 - num_computed_tokens[r]))

\* The batch in flight is known to produce the request's last token.
ReachesMaxTokens(r) ==
    /\ num_output_placeholders[r] > 0
    /\ num_computed_tokens[r] + 2 - num_output_placeholders[r]
         >= NumPromptTokens[r] + MaxTokens[r]

RunningLoopEnds == local.req_index > Len(running) \/ local.token_budget = 0
Current == running[local.req_index]
NoHits == [g \in Range(Groups) |-> <<>>]

\* The request has nothing to do in this step, or the budget left is too
\* small for a block-aligned chunk.
SkipRunning ==
    /\ phase = "running" /\ ~RunningLoopEnds
    /\ ReachesMaxTokens(Current) \/ NumNewTokens(Current) = 0
    /\ local' = [local EXCEPT !.req_index = @ + 1]
    /\ UNCHANGED <<kv, requestVars, waiting, running, phase, batch_queue, outputs, forgotten,
                   workerVars>>

\* allocate_slots for the current request: on success it is scheduled, else the
\* last running request is preempted and, unless that was the current one,
\* allocate_slots called again.
AllocateRunning ==
    /\ phase = "running" /\ ~RunningLoopEnds
    /\ ~ReachesMaxTokens(Current) /\ NumNewTokens(Current) # 0
    /\ LET r == Current
           new == NumNewTokens(r)
           upto == num_computed_tokens[r] + new
           trimmed == Trimmed(kv, r, num_computed_tokens[r])
           victim == running[Len(running)]
       IN  \/ /\ CanAllocate(trimmed, r, NoHits, upto)
              /\ kv' = Allocated(trimmed, r, NoHits, upto, num_tokens[r])
              /\ local' = [local EXCEPT
                             !.scheduled = Append(@, [req |-> r, n |-> new]),
                             !.token_budget = @ - new, !.req_index = @ + 1]
              /\ UNCHANGED <<requestVars, waiting, running, phase>>
           \/ /\ ~CanAllocate(trimmed, r, NoHits, upto)
              /\ kv' = Free(trimmed, victim)
              /\ running' = Without(running, {victim})
              /\ waiting' = <<victim>> \o waiting
              /\ status' = [status EXCEPT ![victim] = "PREEMPTED"]
              /\ num_computed_tokens' = [num_computed_tokens EXCEPT ![victim] = 0]
              /\ local' = [local EXCEPT !.preempted = @ \cup {victim}]
              /\ phase' = IF victim = r THEN "output" ELSE "running"
              /\ UNCHANGED <<num_tokens, num_output_placeholders>>
    /\ UNCHANGED <<batch_queue, outputs, forgotten, workerVars>>

LeaveRunningLoop ==
    /\ phase = "running" /\ RunningLoopEnds
    /\ phase' = IF local.preempted = {} THEN "waiting" ELSE "output"
    /\ UNCHANGED <<kv, requestVars, waiting, running, local, batch_queue, outputs, forgotten,
                   workerVars>>

WaitingLoopEnds ==
    \/ waiting = <<>>
    \/ local.token_budget = 0
    \/ Len(running) = MaxNumRunningReqs

\* The tokens to schedule for a waiting request with these hits.
NumFirstTokens(r, hits) ==
    LET computed == Len(hits[FullGroup]) * BlockSize
    IN  AlignedSplit(r, computed, Smaller(num_tokens[r] - computed, local.token_budget))

\* The request gets no blocks, or the budget is too small for a chunk.
WaitingIsBlocked(r, hits) ==
    LET new == NumFirstTokens(r, hits)
    IN  \/ new = 0
        \/ ~CanAllocate(kv, r, hits, Len(hits[FullGroup]) * BlockSize + new)

LeaveWaitingLoop ==
    /\ phase = "waiting"
    /\ \/ WaitingLoopEnds
       \/ /\ ~WaitingLoopEnds
          /\ \E hits \in ComputedBlocks(kv, waiting[1], num_tokens[waiting[1]]) :
                WaitingIsBlocked(waiting[1], hits)
    /\ phase' = "output"
    /\ UNCHANGED <<kv, requestVars, waiting, running, local, batch_queue, outputs, forgotten,
                   workerVars>>

\* One iteration of the WAITING loop.
ScheduleWaiting ==
    /\ phase = "waiting" /\ ~WaitingLoopEnds
    /\ LET r == waiting[1]
       IN  \E hits \in ComputedBlocks(kv, r, num_tokens[r]) :
             LET computed == Len(hits[FullGroup]) * BlockSize
                 new == NumFirstTokens(r, hits)
             IN  /\ ~WaitingIsBlocked(r, hits)
                 /\ kv' = Allocated(kv, r, hits, computed + new, num_tokens[r])
                 /\ waiting' = Tail(waiting)
                 /\ running' = Append(running, r)
                 /\ status' = [status EXCEPT ![r] = "RUNNING"]
                 /\ num_computed_tokens' = [num_computed_tokens EXCEPT ![r] = computed]
                 /\ local' = [local EXCEPT
                                !.scheduled = Append(@, [req |-> r, n |-> new]),
                                !.token_budget = @ - new,
                                !.resumed = @ \cup {r}]
    /\ UNCHANGED <<num_tokens, num_output_placeholders, phase, batch_queue, outputs, forgotten,
                   workerVars>>
-------------------------------------------------------------------------------
(* The model runner *)

\* A scheduled request in a batch: it computes tokens from+1 .. upto, and then
\* samples a token unless more of its known tokens are left.
Entry(e) ==
    LET upto == num_computed_tokens[e.req] + e.n
    IN  [req |-> e.req, from |-> num_computed_tokens[e.req], upto |-> upto,
         samples |-> upto >= num_tokens[e.req] + num_output_placeholders[e.req]]

\* GPUModelRunner._update_states: a new or resumed request comes with its whole
\* table, a running one with the blocks that were appended to it.  Blocks that
\* the scheduler replaced by null blocks stay in the worker's list.
BlockIdsAfter(batch) ==
    [g \in Range(Groups) |-> [r \in Requests |->
        LET table == kv.req_to_blocks[g][r]
            old == block_ids[g][r]
        IN  IF r \in forgotten THEN <<>>
            ELSE IF \A e \in batch : e.req # r THEN old
            ELSE IF r \in local.resumed THEN table
            ELSE old \o SubSeq(table, Len(old) + 1, Len(table))]]

\* preprocess_mamba drops the entries of finished, preempted and resumed
\* requests.
KnownStateIdx(r) ==
    IF r \in forgotten \cup local.preempted \cup local.resumed THEN NoIndex
    ELSE mamba_state_idx[r]

\* Where preprocess_mamba takes the state of an entry from, -1 for nowhere,
\* and where it puts it; the forward pass reads and writes it there.
PrevStateIdx(e) ==
    IF KnownStateIdx(e.req) = NoIndex THEN (e.from - 1) \div BlockSize
    ELSE KnownStateIdx(e.req)
CurrStateIdx(e) == Cdiv(e.upto, BlockSize) - 1

\* do_mamba_copy_block: one kernel makes all copies, in no particular order.
AfterCopies(batch, ids) ==
    LET moves == {[from |-> ids[g][e.req][PrevStateIdx(e) + 1],
                   to |-> ids[g][e.req][CurrStateIdx(e) + 1]] :
                    <<g, e>> \in {<<g, e>> \in MambaGroups \X batch :
                                    PrevStateIdx(e) \notin {-1, CurrStateIdx(e)}}}
        ordered(m) == \A n \in moves : n # m => n.to \notin {m.from, m.to}
    IN  [b \in UsableBlocks |->
           IF \A m \in moves : m.to # b THEN memory[b]
           ELSE LET m == CHOOSE m \in moves : m.to = b
                IN  IF ordered(m) /\ m.from # NullBlock THEN memory[m.from] ELSE Nothing]

\* The blocks an entry writes, by group and index in the request's list.
Writes(e) ==
    (MambaGroups \X {CurrStateIdx(e) + 1})
      \cup ({FullGroup} \X (e.from \div BlockSize + 1 .. Cdiv(e.upto, BlockSize)))

\* The memory after the forward pass over a batch, if the entries in S compute
\* the right values and the others nothing of use.
AfterForward(batch, ids, before, S) ==
    [b \in UsableBlocks |->
       LET writers == {<<e, w>> \in UNION {{e} \X Writes(e) : e \in batch} :
                         ids[w[1]][e.req][w[2]] = b}
       IN  IF writers = {} THEN before[b]
           ELSE LET x == CHOOSE x \in writers : TRUE
                    e == x[1]
                    w == x[2]
                IN  IF Cardinality(writers) > 1 \/ e \notin S THEN Nothing
                    ELSE Content(w[1], e.req, Smaller(e.upto, w[2] * BlockSize))]

\* The entry finds what it needs: the Mamba states, and the partly filled
\* block it continues, before the forward pass; full blocks also when another
\* entry writes them in the same pass, since a layer writes before it reads.
Reads(e, ids, before, after) ==
    LET holds(g, i, n, m) ==
            LET b == ids[g][e.req][i] IN b # NullBlock /\ m[b] = Content(g, e.req, n)
    IN  /\ \A g \in MambaGroups : e.from > 0 => holds(g, CurrStateIdx(e) + 1, e.from, before)
        /\ \A i \in 1 .. e.from \div BlockSize : holds(FullGroup, i, i * BlockSize, after)
        /\ e.from % BlockSize # 0 =>
              holds(FullGroup, e.from \div BlockSize + 1, e.from, before)

\* The entries that compute the right values.
Sound(batch, ids, before) ==
    UNION {S \in SUBSET batch :
             \A e \in S : Reads(e, ids, before, AfterForward(batch, ids, before, S))}

\* The end of schedule(), and execute_model for its batch.
FinishSchedule ==
    /\ phase = "output"
    /\ LET entries == [k \in DOMAIN local.scheduled |-> Entry(local.scheduled[k])]
           batch == Range(entries)
           ids == BlockIdsAfter(batch)
           before == AfterCopies(batch, ids)
           of(r) == CHOOSE e \in batch : e.req = r
           scheduled == {e.req : e \in batch}
       IN  /\ block_ids' = ids
           /\ mamba_state_idx' = [r \in Requests |->
                IF r \in scheduled THEN CurrStateIdx(of(r))
                ELSE IF batch = {} THEN mamba_state_idx[r] ELSE KnownStateIdx(r)]
           /\ memory' = AfterForward(batch, ids, before, Sound(batch, ids, before))
           /\ num_computed_tokens' = [r \in Requests |->
                IF r \in scheduled THEN of(r).upto ELSE num_computed_tokens[r]]
           /\ num_output_placeholders' = [r \in Requests |->
                num_output_placeholders[r] +
                  IF r \in scheduled /\ of(r).samples THEN 1 ELSE 0]
           /\ batch_queue' = Append(batch_queue, entries)
           /\ phase' \in IF batch # {} /\ Len(batch_queue) + 1 < BatchQueueSize
                         THEN {"idle", "collect"} ELSE {"collect"}
    /\ local' = IdleLocal
    /\ forgotten' = {}
    /\ UNCHANGED <<kv, status, num_tokens, waiting, running, outputs>>
-------------------------------------------------------------------------------
(* update_from_output() *)

\* Nothing to schedule, but batches in flight.
AwaitBatch ==
    /\ phase = "idle"
    /\ running \o waiting = <<>> /\ forgotten = {}
    /\ batch_queue # <<>>
    /\ phase' = "collect"
    /\ UNCHANGED <<kv, requestVars, waiting, running, local, batch_queue, outputs, forgotten,
                   workerVars>>

\* The oldest batch is done; update_from_output starts.
CollectBatch ==
    /\ phase = "collect"
    /\ outputs' = batch_queue[1]
    /\ batch_queue' = Tail(batch_queue)
    /\ phase' = "update"
    /\ UNCHANGED <<kv, requestVars, waiting, running, local, forgotten, workerVars>>

Unfinished(r) == status[r] \in {"WAITING", "RUNNING", "PREEMPTED"}

\* No token for this entry: its request has finished meanwhile, or the entry
\* was a part of its prompt.
SkipOutput ==
    /\ phase = "update" /\ outputs # <<>>
    /\ ~Unfinished(outputs[1].req) \/ ~outputs[1].samples
    /\ outputs' = Tail(outputs)
    /\ UNCHANGED <<kv, requestVars, waiting, running, phase, local, batch_queue, forgotten,
                   workerVars>>

\* check_stop: the token ends the request, eos or not.
Stops(r, eos) ==
    eos \/ num_tokens[r] + 1 >= Smaller(MaxModelLen, NumPromptTokens[r] + MaxTokens[r])

\* AsyncScheduler._update_request_with_output, and _free_request if the token
\* stops the request.
AppendOutput ==
    /\ phase = "update" /\ outputs # <<>>
    /\ LET r == outputs[1].req
           cached == IF status[r] = "RUNNING"
                     THEN CacheBlocks(kv, r, num_computed_tokens[r]
                                               - (num_output_placeholders[r] - 1))
                     ELSE kv
       IN  /\ Unfinished(r) /\ outputs[1].samples
           /\ num_tokens' = [num_tokens EXCEPT ![r] = @ + 1]
           /\ num_output_placeholders' = [num_output_placeholders EXCEPT ![r] = @ - 1]
           /\ \E eos \in BOOLEAN :
                IF Stops(r, eos)
                THEN /\ status' = [status EXCEPT ![r] = "FINISHED"]
                     /\ kv' = Free(cached, r)
                     /\ forgotten' = forgotten \cup {r}
                ELSE /\ kv' = cached
                     /\ UNCHANGED <<status, forgotten>>
    /\ outputs' = Tail(outputs)
    /\ UNCHANGED <<num_computed_tokens, waiting, running, phase, local, batch_queue, workerVars>>

\* The end of update_from_output: stopped requests leave their queues.
FinishUpdate ==
    /\ phase = "update" /\ outputs = <<>>
    /\ LET stopped == {r \in Requests : status[r] = "FINISHED"}
       IN  /\ running' = Without(running, stopped)
           /\ waiting' = Without(waiting, stopped)
    /\ phase' = "idle"
    /\ UNCHANGED <<kv, requestVars, local, batch_queue, outputs, forgotten, workerVars>>

\* Scheduler.finish_requests for an abort.
Abort(r) ==
    /\ phase \in {"idle", "collect"}
    /\ Unfinished(r)
    /\ running' = Without(running, {r})
    /\ waiting' = Without(waiting, {r})
    /\ status' = [status EXCEPT ![r] = "FINISHED"]
    /\ kv' = Free(kv, r)
    /\ forgotten' = forgotten \cup {r}
    /\ UNCHANGED <<num_tokens, num_computed_tokens, num_output_placeholders, phase, local,
                   batch_queue, outputs, workerVars>>

\* The engine waits for requests, and none is left to arrive.
Quiescent ==
    /\ phase = "idle" /\ forgotten = {} /\ batch_queue = <<>>
    /\ \A r \in Requests : status[r] = "FINISHED"
    /\ UNCHANGED vars

EngineStep ==
    \/ StartSchedule \/ SkipRunning \/ AllocateRunning \/ LeaveRunningLoop
    \/ ScheduleWaiting \/ LeaveWaitingLoop \/ FinishSchedule
    \/ AwaitBatch \/ CollectBatch \/ SkipOutput \/ AppendOutput \/ FinishUpdate

Next ==
    \/ EngineStep
    \/ \E r \in Requests : AddRequest(r)
    \/ \E r \in Abortable : Abort(r)
    \/ Quiescent

\* The engine core's loop never stops while it has work.  This is
\* WF_vars(EngineStep) with the two things about EngineStep written out that
\* it depends on: in which states it is disabled, and which steps are its own
\* (requests arrive and are aborted without a change of phase, when the phase
\* is "idle" or "collect").
EngineIdle ==
    phase = "idle" /\ running \o waiting = <<>> /\ forgotten = {} /\ batch_queue = <<>>
EngineMoves == phase \notin {"idle", "collect"} \/ phase' # phase
Fairness == []<>EngineIdle \/ []<><<EngineMoves>>_vars

Spec == Init /\ [][Next]_vars /\ Fairness
-------------------------------------------------------------------------------
(* Properties *)

InSchedule == phase \in {"running", "waiting", "output"}
Tables == {<<g, r>> \in Range(Groups) \X Requests : kv.req_to_blocks[g][r] # <<>>}
Places(b) ==
    UNION {{<<t, i>> : i \in {j \in DOMAIN kv.req_to_blocks[t[1]][t[2]] :
                                kv.req_to_blocks[t[1]][t[2]][j] = b}} : t \in Tables}

\* The groups share one pool, and blocks leave tables one by one as states
\* become obsolete as well as whole tables at a time: still every block is
\* referenced once for every place it has in some table of some group, is in
\* the free queue exactly when it has none, and is there once; and no block
\* is ever in the tables of two groups.
SharedPoolExact ==
    /\ \A b \in UsableBlocks : kv.ref_cnt[b] = Cardinality(Places(b))
    /\ IsInjective(kv.free_block_queue)
    /\ Range(kv.free_block_queue) = {b \in UsableBlocks : kv.ref_cnt[b] = 0}
    /\ \A b \in UsableBlocks : \A p, q \in Places(b) : p[1][1] = q[1][1]

\* Between two calls of schedule(), the device holds what each running request
\* will continue from: at the block that preprocess_mamba will copy from, in
\* every Mamba group, the state after exactly the tokens counted as computed,
\* and in its full-attention blocks the KV of those tokens.  The worker's own
\* block list, its index of the state and the scheduler's freeing of obsolete
\* blocks must fit together over chunks, cache hits, preemption and resumption.
RunningStateOnDevice ==
    ~InSchedule => \A r \in Range(running) :
        LET n == num_computed_tokens[r]
        IN  (n > 0 /\ status[r] = "RUNNING") =>
              /\ \A g \in MambaGroups :
                   LET b == block_ids[g][r][mamba_state_idx[r] + 1]
                   IN  /\ kv.req_to_blocks[g][r][mamba_state_idx[r] + 1] = b
                       /\ b # NullBlock /\ memory[b] = Content(g, r, n)
              /\ \A i \in 1 .. Cdiv(n, BlockSize) :
                   memory[block_ids[FullGroup][r][i]]
                     = Content(FullGroup, r, Smaller(n, i * BlockSize))

\* Between two calls of schedule(), a block that the prefix cache can hand out
\* holds what its hash stands for: for a Mamba group, the state at exactly the
\* end of that block of tokens, although the block is hashed before the step
\* that computes the state and is the running state's block, to be overwritten
\* by every step that does not end there.
PublishedStatesExact ==
    ~InSchedule => \A b \in UsableBlocks : kv.block_hash[b] # Unhashed =>
        memory[b] = [group |-> kv.block_hash[b][1], text |-> kv.block_hash[b][2],
                     rest |-> 0, of |-> {}]

\* Once allocate_slots has passed its capacity check nothing raises: the pool
\* has the blocks for all groups although hits leave it in between, a new
\* table is empty, and no block that already has a hash is hashed.
NothingRaises == ~kv.raised

\* A request never holds more than two Mamba blocks per group: this is what
\* MambaSpec.max_memory_usage_bytes reserves in mode "align"
\* (2 + num_speculative_blocks pages) and what the size of the cache and the
\* maximum concurrency are computed from.
TwoStatesPerRequest ==
    \A g \in MambaGroups, r \in Requests :
        Cardinality({i \in DOMAIN kv.req_to_blocks[g][r] :
                       kv.req_to_blocks[g][r][i] # NullBlock}) <= 2

\* Every request that arrives is eventually finished, although a request is
\* put off whenever the budget left is less than a block, and whenever the
\* state it would start from is computed in the same step.
HybridRequestsFinish ==
    \A r \in Requests : status[r] = "WAITING" ~> status[r] = "FINISHED"
===============================================================================
